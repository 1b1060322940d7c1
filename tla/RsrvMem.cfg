SPECIFICATION Spec
CONSTANTS
    Edmm = TRUE
    Base = 10
    Size = 4
    MinSize = 1
    Perms = {"R", "RW"}
    Default = "RW"
    Objects = {o}
    Offsets = {0}
    None = None
    Free = Free
    MaxAreas = 2
    o = o
INVARIANTS ListIsExact PlacementIsRight MappedIsBacked
PROPERTY HolesAreUntouched
