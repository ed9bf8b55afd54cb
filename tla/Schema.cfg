CONSTANTS
    Rows <- MCRows
    Worlds <- MCWorlds
    Updates <- MCUpdates
    Roots <- MCRoots
SPECIFICATION SchemaSpec
INVARIANTS
    RoundTrip
    ModelsMatchSchema
    AlwaysErasable
    NothingIsStranded
PROPERTIES
    DeletesAreContained
