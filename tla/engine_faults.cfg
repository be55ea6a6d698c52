SPECIFICATION Spec
CONSTANTS
  SchemaChoices <- UnequalSchemas
  InsertLists <- AnyRows
  Values = {"x", ""}
  Above = {}
  Starts = {}
  Limits = {0}
  MaxRows = 2
  LinkMayFail = TRUE
INVARIANTS TypeOK CatalogAgrees
PROPERTIES OneTableAtATime UpdateWritesOneRow
