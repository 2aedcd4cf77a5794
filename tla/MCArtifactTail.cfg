SPECIFICATION Spec
SYMMETRY FieldSymmetry
CONSTANTS
    Fields = {title, queue}
    NoFile = NoFile
    Nothing = Nothing
    MaxCommits = 4
    MaxCrashes = 2
    MaxCompactions = 1
INVARIANTS
    ArtifactTailIgnored
CHECK_DEADLOCK FALSE
