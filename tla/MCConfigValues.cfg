SPECIFICATION ValueSpec
CONSTANTS
    Absent = Absent
    MaxRows = 2
INVARIANTS
    
    SavedIsShown
    MaskNeverRuns
PROPERTIES
    ResaveChangesNothing
    
