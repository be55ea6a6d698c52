SPECIFICATION Spec
CONSTANTS
  SchemaChoices <- OneTable
  InsertLists <- FullRows
  Values = {"x"}
  Above <- XYAbove
  Starts <- XYStarts
  Limits = {0}
  MaxRows = 2
  LinkMayFail = TRUE
PROPERTIES AckedInsertIsStored
