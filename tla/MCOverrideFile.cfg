SPECIFICATION Spec
CONSTANTS
    Op = {o1, o2}
    t1 = t1
    t2 = t2
    Token <- MCToken
    Age <- MCAge
    Nil = Nil
    Old = Old
SYMMETRY Perms
INVARIANTS
    UpdatesKept
    RevokesShown
    
PROPERTIES
    
    StoreSpec
