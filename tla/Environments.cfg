CONSTANTS
    ann = ann  bob = bob
    dflt = dflt  e1 = e1
    i1 = i1  i2 = i2
    User = {ann, bob}
    Admin = ann
    Name = {dflt, e1}
    Default = dflt
    Id = {i1, i2}
    Absent = Absent
    Own = Own
    NoName = NoName
    MaxRevisions = 2
    MaxChanges = 4
SPECIFICATION Spec
SYMMETRY MCSymmetry
INVARIANTS
    PurgeIsRetryable
PROPERTIES
    LineagesStay
    RenameIsFollowed
CHECK_DEADLOCK FALSE
