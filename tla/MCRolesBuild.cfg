SPECIFICATION Spec
CONSTANTS
    CustomRoles <- MCCustomRoles
    SourcesOf <- MCSourcesOf
    Fields = {"ServicesDefault", "tags"}
    Contents <- MCContents
    Arguments <- MCArguments
    FlagChoices <- MCFlags
    MaxEdits = 2
    MaxMakes = 2
CHECK_DEADLOCK FALSE
INVARIANTS
    TypeOK
    CurrentUnlessBehind
