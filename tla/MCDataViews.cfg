SPECIFICATION FairSpec
CONSTANTS
    Flight = {p1, p2}
    Text = {t1, t2}
    Data = {d1, d2}
    Nil = Nil
INVARIANTS
    ShownIsChosen
    SettingsKept
    OneTimer

    
