SPECIFICATION Spec
CONSTANTS
    Flow = {f1, f2}
    r1 = r1
    r2 = r2
    Content <- MCContent
    Source = {r1}
    Nil = Nil
SYMMETRY Perms
INVARIANTS
    ShownIsServed
    EditsKept
PROPERTIES
    NeverSavesDefaults
    MeantWhatRan
