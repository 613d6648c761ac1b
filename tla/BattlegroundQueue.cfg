SPECIFICATION FairSpec
CONSTANTS
    a1 = a1
    a2 = a2
    h1 = h1
    Droppers = {a1, h1}
    Players = {a1, a2, h1}
    Team <- MCTeam
    Instances = {1}
    MinPlayersPerTeam = 1
    Capacities = {1, 2}
    InviteWait = 1
INVARIANTS
    InvitedCountIsExact
    BattlegroundAwaitsItsPlayers
PROPERTIES
    NoInvitationIsCutShort
    EndedBattlegroundIsDeleted
CHECK_DEADLOCK FALSE
