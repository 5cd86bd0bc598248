CONSTANTS
    None = None
    MaxClasses = 4
    MaxFields = 3
    MaxShuffle = 3
    Uid <- MCUid
    Scripts <- MCScripts
    NewClasses <- MCNewClasses
    NewFields <- MCNewFields
SPECIFICATION Spec
INVARIANTS
    ActiveGroupsSuffice
    ActiveFieldsOnly
    ParentsFirst
    XmlKeepsModel
