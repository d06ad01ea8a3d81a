\* The whole chain, with two edits and one change of direction.
SPECIFICATION Spec
CHECK_DEADLOCK FALSE
INVARIANTS TypeOK ScriptsRun SchemaServes GrantsAreGoverned OneOrganization
PROPERTIES CustomisedKept InStepStays AccessKept
CONSTANTS
    Stops <- MCStops
    People <- MCPeople
    Joins <- MCJoins
    EditCodes <- MCEditCodes
    Tenants = {"acme", "beta"}
    MaxEdits = 2
    MaxTurns = 1
