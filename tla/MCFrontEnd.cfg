SPECIFICATION Spec
CONSTANTS
    Alphabet <- MCAlphabet
    Valid <- MCValid
    Others <- MCOthers
    Stride = 40
    PassLimit = 4
    Rules <- ParseRules
    Match <- MatchPattern
    Replaced <- Substitute
    ParserOn <- NewParser
    AtEof <- ParserAtEof
    NextTurn <- ParserTurn
    Gather <- ParserGathered
INVARIANTS
    Tokenised
    CapturesFit
    Hygienic
    ReadsBack
PROPERTIES
    Advances
    LoopsAdvance
