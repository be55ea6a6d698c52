SPECIFICATION Spec
CONSTANTS
  SchemaChoices <- PlainSchemas
  InsertLists <- FullRows
  Values = {"x", "xy"}
  Above <- XYAbove
  Starts <- XYStarts
  Limits = {0, 1}
  MaxRows = 2
  LinkMayFail = FALSE
PROPERTIES ImplementsTables
