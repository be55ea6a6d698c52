-------------------------- MODULE SqlEngineTables --------------------------
(* The executor over its storage as the tables that clients believe in: the *)
(* refinement mapping from SqlEngine to TableStore.                         *)
EXTENDS SqlEngine

(* What a client can rely on: the stored tables, and what is stored in them. *)
StoredTables == {t \in Names : SchemaKey(t) \in DOMAIN schema}
RowsByKey(t) ==
  [v \in {KeyOf(t, k) : k \in DOMAIN RowsOf(t)} |-> StringSplit(data[DataKey(t, v)])]

Catalog == IF server = "up" THEN tables ELSE [t \in StoredTables |-> schema[SchemaKey(t)]]
Contents == [t \in Names |-> RowsByKey(t)]

Tables == INSTANCE TableStore WITH
  ColumnLists <- SchemaChoices, Literals <- Values, Bigger <- Above, Begins <- Starts,
  Caps <- Limits, catalog <- Catalog, rows <- Contents, up <- server = "up", answer <- reply

(* Catalog, rows and answers behave as the tables that clients believe in,  *)
(* through crashes and restarts, also between the GET and SET of an UPDATE. *)
ImplementsTables == Tables!StoreSpec
=============================================================================
