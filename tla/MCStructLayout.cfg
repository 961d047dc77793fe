SPECIFICATION StructSpec
CONSTANTS
    MemberNames = {a, b}
    PointeeNames = {"Node"}
    MemberTypes <- MCMemberTypes
    MaxMembers = 3
INVARIANTS
    StructTypeOK
    MembersDisjoint
    MatchesC
CHECK_DEADLOCK FALSE
