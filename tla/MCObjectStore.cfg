SPECIFICATION Spec
CONSTANTS
    a = a
    p1 = p1
    p2 = p2
    Objects = {a}
    Packs = {p1, p2}
    Contents <- MCContents
    FreshenFrequency = 2
    None = None
INVARIANTS TypeOK NothingMissed 
PROPERTIES Returns
