CONSTANTS
    u1 = u1
    c1 = c1
    c2 = c2
    l1 = l1
    m1 = m1
    Row = {u1, c1, c2, l1, m1}
    Tables <- MCTables
    Table <- MCTable
    FkTables <- MCFkTables
    Log = "logs"
    TableOf <- MCTableOf
    Number <- MCNumber
    Parent <- MCParent
    Nullable <- MCNullable
    NoRow = NoRow
    NoTable = NoTable
    MaxAborts = 1
SPECIFICATION Spec
INVARIANTS
    ReferencesFollow
    ValidationFindsOnlyDanglers
PROPERTIES
    MigrationSettles
