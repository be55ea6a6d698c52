SPECIFICATION Spec
CONSTANTS
  SchemaChoices <- UnderscoreSchemas
  InsertLists <- FullRows
  Values = {"x"}
  Above <- XYAbove
  Starts <- XYStarts
  Limits = {0}
  MaxRows = 2
  LinkMayFail = FALSE
INVARIANTS StoredTablesAreUsable
