SPECIFICATION Spec
CONSTANTS
    Players = {p1, p2, p3}
    Items = {i1, i2}
    Disenchantable = {i2}
    Droppers = {p1, p2}
    Nobody = Nobody
INVARIANTS
    
    LeaderIsMember
PROPERTIES
    
    
    RollEnds
