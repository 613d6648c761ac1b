SPECIFICATION FairSpec
CONSTANTS
    w1 = w1
    w2 = w2
    continent = continent
    dungeon = dungeon
    i1 = i1
    i2 = i2
    Workers = {w1, w2}
    BaseMaps = {continent, dungeon}
    Instances = {i1, i2}
    Parent <- MCParent
    NoMap = NoMap
INVARIANTS
    WorldThreadAlone
    OneUpdaterPerMap
    PoppedRequestIsHandled
PROPERTIES
    ImplementsMapTicks
    EveryoneIsWoken
CHECK_DEADLOCK FALSE
