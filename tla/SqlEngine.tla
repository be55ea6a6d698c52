----------------------------- MODULE SqlEngine -----------------------------
(***************************************************************************)
(* The executor (executor/) and the catalog (meta/) over the key-value     *)
(* server that keeps everything (pmemkv behind the redis protocol; it is   *)
(* not in the repository and is modelled from the commands sent to it).    *)
(*                                                                         *)
(* Statements run one at a time, on the main thread.  What can come in     *)
(* between is the loss of the storage connection, a crash, a restart.      *)
(* A key is the sequence of its "_"-separated tokens, so a table name is a *)
(* sequence too; a stored row is the sequence of the values joined in it.   *)
(***************************************************************************)
EXTENDS Naturals, FiniteSets, Sequences, SequencesExt, FiniteSetsExt

CONSTANTS
  SchemaChoices, \* table name -> the column lists it may be created with
  InsertLists,   \* the column lists of INSERT statements
  Values,        \* literals
  Above, Starts, \* pairs <<a, b>> of literals: a > b; a starts with b
  Limits,        \* the n of LIMIT n; 0 when there is none
  MaxRows,       \* bound: rows that are stored at a time
  LinkMayFail    \* may the storage connection be lost while in use?

ASSUME LimitsAssumption == Limits \subseteq Nat /\ MaxRows \in Nat
(* Names and column lists are sequences, names and INSERT lists not empty. *)
IsSeq(s) == s \in Seq(Range(s))
ASSUME NamesAssumption == \A t \in DOMAIN SchemaChoices : IsSeq(t) /\ t # <<>>
ASSUME ListsAssumption ==
  /\ \A t \in DOMAIN SchemaChoices : \A cols \in SchemaChoices[t] : IsSeq(cols)
  /\ \A list \in InsertLists : IsSeq(list) /\ list # <<>>

VARIABLES
  tables, \* DataBase::tables_ of the current database: name -> columns
  schema, \* stored under table_*: key -> columns
  data,   \* stored under data_*: key -> values
  server, \* "down", "up", or "headless": running after a failed Init
  link,   \* is pmemRedisContext usable?  It is never reconnected.
  op,     \* UPDATE between its GET and its SET
  reply   \* the answer to the last statement

store == <<schema, data>>
vars == <<tables, store, server, link, op, reply>>

Names == DOMAIN SchemaChoices
None == [kind |-> "none"]
Ok(statement, n) == [kind |-> "ok", statement |-> statement, affected |-> n]
Error == [kind |-> "error"]
Rows(query, rs) == [kind |-> "rows", query |-> query, rows |-> rs]

DB == "default"
SchemaKey(t) == <<"table", DB>> \o t
(* Mutant: the table's name is left out of the key. *)
DataPrefixNoTable(t) == <<"data", DB, "p">>
DataPrefix(t) == <<"data", DB>> \o t \o <<"p">>
DataKey(t, v) == DataPrefix(t) \o <<v>>

(* SCAN 0 MATCH prefix*: the keys with that prefix, in no known order. *)
Scan(keys, prefix) == {k \in keys : Len(k) > Len(prefix) /\ IsPrefix(prefix, k)}

Put(f, k, v) == [x \in DOMAIN f \cup {k} |-> IF x = k THEN v ELSE f[x]]
Del(f, k) == [x \in DOMAIN f \ {k} |-> f[x]]

(* StringsJoin puts "$$" between the values and StringSplit cuts there: one  *)
(* empty value at the end is lost.  (No literal contains "$$" or is blank.)  *)
StringSplit(row) == IF row # <<>> /\ Last(row) = "" THEN Front(row) ELSE row

(* DataTable::GetColIndex; 0 stands for -1, an index outside of every row. *)
GetColIndex(t, c) ==
  LET cols == tables[t]
  IN  IF \E i \in 1..Len(cols) : cols[i] = c
      THEN CHOOSE i \in 1..Len(cols) : cols[i] = c /\ \A j \in (i + 1)..Len(cols) : cols[j] # c
      ELSE 0

HasTable(t) == t \in DOMAIN tables

Running == server = "up" /\ op = None

Init ==
  /\ tables = <<>> /\ schema = <<>> /\ data = <<>>
  /\ server = "down" /\ link = FALSE
  /\ op = None /\ reply = None

-----------------------------------------------------------------------------
(* Start, crash and the storage connection. *)

(* Mutant: DataBase(dbname, false), nothing is recovered. *)
RecoverNothing == tables' = <<>>

(* Mutant: one column too many is read from the stored list. *)
RecoverExtraColumn ==
  tables' = [n \in {<<Last(k)>> : k \in DOMAIN schema} |-> <<"k", "v", "">>]

(* DataBase::RecoverFromPmemKV: every stored table comes back under the last *)
(* token of its key; of two with the same last token the first scanned stays.*)
RecoverFromPmemKV ==
  LET keys == Scan(DOMAIN schema, <<"table", DB>>)
      names == {<<Last(k)>> : k \in keys}
  IN  \E from \in [names -> keys] :
        /\ \A n \in names : Last(from[n]) = Last(n)
        /\ tables' = [n \in names |-> schema[from[n]]]

(* Executor::Init connects and recovers. *)
Start ==
  /\ server = "down"
  /\ link' = TRUE
  /\ RecoverFromPmemKV
  /\ server' = "up" /\ reply' = None
  /\ UNCHANGED <<store, op>>

(* Init cannot connect: it returns false, _Init ignores that, dbmsContext *)
(* stays null and the server listens all the same.                        *)
StartHeadless ==
  /\ LinkMayFail /\ server = "down"
  /\ server' = "headless" /\ tables' = <<>> /\ reply' = None
  /\ UNCHANGED <<store, link, op>>

Crashed == server' = "down" /\ link' = FALSE /\ tables' = <<>> /\ op' = None /\ reply' = None

(* The process stops, for whatever reason: between two statements, between *)
(* the GET and the SET of an UPDATE, at a statement when dbmsContext is    *)
(* null, or at one whose missing part an Analyze function dereferences (an *)
(* UPDATE without WHERE, a SELECT without FROM, a number where ->name is   *)
(* taken).                                                                 *)
Crash == server # "down" /\ Crashed /\ UNCHANGED store

LoseLink ==
  /\ LinkMayFail /\ server = "up" /\ link
  /\ link' = FALSE
  /\ UNCHANGED <<tables, store, server, op, reply>>

-----------------------------------------------------------------------------
(* The statements. *)

Answer(r) == reply' = r /\ UNCHANGED <<server, link>>

(* Mutant: the table is not stored. *)
MakeTableInMemory(t, cols) ==
  tables' = (IF HasTable(t) THEN tables ELSE Put(tables, t, cols)) /\ UNCHANGED schema

(* DataBase::CreateTable: insert() keeps a table that is there, SET does not. *)
MakeTable(t, cols) ==
  /\ tables' = IF HasTable(t) THEN tables ELSE Put(tables, t, cols)
  /\ schema' = IF link THEN Put(schema, SchemaKey(t), cols) ELSE schema

CreateTable(t, cols) ==
  /\ Running
  /\ MakeTable(t, cols)
  /\ Answer(Ok("create", 1))
  /\ UNCHANGED <<data, op>>

(* vals.resize(row.size()): as long as the list, whatever the table has. *)
RowSize(list) == Len(list)

(* The values land at the columns' positions in a row as long as the list. *)
NewRow(t, list, val) ==
  LET at(i) == GetColIndex(t, list[i])
  IN  [p \in 1..RowSize(list) |->
         IF \E i \in 1..Len(list) : at(i) = p
         THEN val[CHOOSE i \in 1..Len(list) : at(i) = p /\ \A j \in (i + 1)..Len(list) : at(j) # p]
         ELSE ""]

(* INSERT: the row's key is the first value listed.  A position outside of  *)
(* the row is undefined behaviour: a crash, or the value goes astray.       *)
Insert(t, list, val) ==
  LET inside == \A i \in 1..Len(list) : GetColIndex(t, list[i]) \in 1..RowSize(list)
  IN  /\ Running
      /\ DataKey(t, val[1]) \in DOMAIN data \/ Cardinality(DOMAIN data) < MaxRows
      /\ \/ /\ ~HasTable(t)
            /\ Answer(Error)
            /\ UNCHANGED <<tables, store, op>>
         \/ /\ HasTable(t)
            /\ data' = IF link THEN Put(data, DataKey(t, val[1]), NewRow(t, list, val)) ELSE data
            /\ Answer(Ok("insert", 1))
            /\ UNCHANGED <<tables, schema, op>>
         \/ /\ HasTable(t) /\ ~inside
            /\ Crashed /\ UNCHANGED store

(* UPDATE, the GET: the row with this key, whatever the WHERE column and    *)
(* operator; no such row, 0 rows.  Without a connection GET's reply is a    *)
(* null pointer, which the code reads.                                      *)
UpdateGet(t, col, v, q) ==
  /\ Running
  /\ \/ /\ ~HasTable(t)
        /\ Answer(Error) /\ UNCHANGED <<tables, store, op>>
     \/ /\ HasTable(t) /\ link /\ DataKey(t, q) \notin DOMAIN data
        /\ Answer(Ok("update", 0)) /\ UNCHANGED <<tables, store, op>>
     \/ /\ HasTable(t) /\ link /\ DataKey(t, q) \in DOMAIN data
        /\ op' = [kind |-> "update", key |-> DataKey(t, q), val |-> v,
                  cols |-> StringSplit(data[DataKey(t, q)]), index |-> GetColIndex(t, col)]
        /\ UNCHANGED <<tables, store, server, link, reply>>
     \/ /\ HasTable(t) /\ ~link
        /\ Crashed /\ UNCHANGED store

(* Mutant: the new value also becomes the key. *)
UpdateSetRekeys ==
  /\ server = "up" /\ op # None
  /\ data' = IF link THEN Put(data, Front(op.key) \o <<op.val>>, op.cols) ELSE data
  /\ op' = None
  /\ Answer(Ok("update", 1))
  /\ UNCHANGED <<tables, schema>>

(* UPDATE, the SET.  o_cols[index] outside of o_cols is undefined: a crash, *)
(* or the value goes astray and the row is written back without it.         *)
UpdateSet ==
  LET inside == op.index \in 1..Len(op.cols)
      cols == IF inside THEN [op.cols EXCEPT ![op.index] = op.val] ELSE op.cols
  IN  /\ server = "up" /\ op # None
      /\ \/ /\ data' = IF link THEN Put(data, op.key, cols) ELSE data
            /\ op' = None
            /\ Answer(Ok("update", 1))
            /\ UNCHANGED <<tables, schema>>
         \/ /\ ~inside
            /\ Crashed /\ UNCHANGED store

(* DELETE ... WHERE key = q.  The other operators do nothing; 1 is answered. *)
Delete(t, operator, q) ==
  /\ Running
  /\ IF HasTable(t)
     THEN /\ data' = IF operator = "=" /\ link THEN Del(data, DataKey(t, q)) ELSE data
          /\ Answer(Ok("delete", 1))
     ELSE Answer(Error) /\ UNCHANGED data
  /\ UNCHANGED <<tables, schema, op>>

(* DELETE without WHERE: MATCH gets a pattern without "*", and not even as a *)
(* char pointer, so it finds nothing to delete; then the row "1" is deleted. *)
DeleteAll(t) ==
  /\ Running
  /\ IF HasTable(t)
     THEN \/ /\ link
             /\ data' = Del(data, DataKey(t, "1"))
             /\ Answer(Ok("delete", 1)) /\ UNCHANGED <<tables, op>>
          \/ /\ ~link
             /\ Crashed /\ UNCHANGED data
     ELSE Answer(Error) /\ UNCHANGED <<tables, data, op>>
  /\ UNCHANGED schema

(* DecodeRowResult, by the row's key. *)
Decoded(k) == <<Last(k), StringSplit(data[k])>>

(* The first n entries of a scan's reply, all of them when n is 0. *)
Entries(keys, n) ==
  kSubset(IF n = 0 \/ n > Cardinality(keys) THEN Cardinality(keys) ELSE n, keys)

(* The literal that a scanned key of table t is compared by. *)
KeyOf(t, k) == k[Len(DataPrefix(t)) + 1]

(* The possible results.  The loop of "like" stops when i > limit * 2, i     *)
(* going up by 2: it takes limit + 1 entries; so does the loop of ">", which *)
(* stops early even without a limit and drops entries after it counted them. *)
SelectRows(t, operator, q, limit) ==
  LET keys == Scan(DOMAIN data, DataPrefix(t))
      above(k) == <<KeyOf(t, k), q>> \in Above
      like(k) == <<KeyOf(t, k), q>> \in Starts
      found == IF operator = "=" THEN {{DataKey(t, q)} \cap DOMAIN data}
               ELSE IF operator = ">" THEN {{k \in s : above(k)} : s \in Entries(keys, limit + 1)}
               ELSE IF operator = "like"
               THEN Entries({k \in keys : like(k)}, IF limit = 0 THEN 0 ELSE limit + 1)
               ELSE {{}}
  IN  {{Decoded(k) : k \in s} : s \in found}

Select(t, operator, q, limit) ==
  /\ Running
  /\ \/ /\ ~HasTable(t)
        /\ Answer(Error) /\ UNCHANGED <<tables, op>>
     \/ /\ HasTable(t) /\ (link \/ operator = "other")
        /\ \E rs \in SelectRows(t, operator, q, limit) : Answer(Rows(<<t, operator, q, limit>>, rs))
        /\ UNCHANGED <<tables, op>>
     \/ /\ HasTable(t) /\ ~link /\ operator # "other"
        /\ Crashed
  /\ UNCHANGED store

(* SELECT without WHERE: the analysis returns before it sets limit, which is *)
(* read uninitialized.                                                       *)
SelectAll(t) ==
  /\ Running
  /\ \/ /\ ~HasTable(t)
        /\ Answer(Error) /\ UNCHANGED <<tables, op>>
     \/ /\ HasTable(t) /\ link
        /\ \E junk \in 0..Cardinality(DOMAIN data) :
             \E s \in Entries(Scan(DOMAIN data, DataPrefix(t)), IF junk = 0 THEN 0 ELSE junk + 1) :
               Answer(Rows(<<t, "all", "*", 0>>, {Decoded(k) : k \in s}))
        /\ UNCHANGED <<tables, op>>
     \/ /\ HasTable(t) /\ ~link
        /\ Crashed
  /\ UNCHANGED store

(* Every other statement (DROP, ...) is answered OK and does nothing. *)
OtherStatement ==
  /\ server # "down" /\ op = None
  /\ Answer(Ok("other", 0))
  /\ UNCHANGED <<tables, store, op>>

Statement ==
  \E t \in Names, q \in Values :
    \/ \E cols \in SchemaChoices[t] : CreateTable(t, cols)
    \/ \E list \in InsertLists : \E val \in [1..Len(list) -> Values] : Insert(t, list, val)
    \/ \E cols \in SchemaChoices[t] : \E i \in 1..Len(cols), v \in Values : UpdateGet(t, cols[i], v, q)
    \/ \E operator \in {"=", "other"} : Delete(t, operator, q)
    \/ DeleteAll(t)
    \/ \E operator \in {"=", ">", "like", "other"}, limit \in Limits : Select(t, operator, q, limit)
    \/ SelectAll(t)
    \/ OtherStatement

Next == Start \/ StartHeadless \/ Crash \/ LoseLink \/ Statement \/ UpdateSet

Spec == Init /\ [][Next]_vars

-----------------------------------------------------------------------------
(* Properties. *)

Columns == UNION {Range(cols) : cols \in UNION {SchemaChoices[t] : t \in Names}}
IsRow(s) == Range(s) \subseteq Values \cup {""}

(* Tables have declared columns, also after a recovery from stored keys;    *)
(* rows are made of literals; an UPDATE in progress has a row to write to.  *)
TypeOK ==
  /\ \A t \in DOMAIN tables : Range(tables[t]) \subseteq Columns
  /\ \A k \in DOMAIN schema : Range(schema[k]) \subseteq Columns
  /\ \A k \in DOMAIN data : IsRow(data[k])
  /\ server \in {"down", "up", "headless"} /\ link \in BOOLEAN
  /\ op = None \/ (op.key \in DOMAIN data /\ op.val \in Values /\ IsRow(op.cols) /\ op.index \in Nat)
  /\ reply.kind \in {"none", "ok", "error", "rows"}

RowsOf(t) == [k \in Scan(DOMAIN data, DataPrefix(t)) |-> data[k]]

(* No step, crash or lost connection changes the rows of two tables (the    *)
(* keys of all tables share one key space, executor/insert_executor.cpp:60).*)
OneTableAtATime ==
  [][\A t, u \in Names : RowsOf(t)' # RowsOf(t) /\ RowsOf(u)' # RowsOf(u) => t = u]_vars

(* An UPDATE writes back the row that it read and no other, and brings no   *)
(* row to life that is gone by the time of its SET.                         *)
UpdateWritesOneRow ==
  [][op # None => /\ DOMAIN data' = DOMAIN data
                  /\ \A k \in DOMAIN data : data'[k] # data[k] => k = op.key]_vars

(* While the storage connection lasts, every table the server knows is      *)
(* stored with the columns that the server uses, so that a restart finds    *)
(* the columns again.  It holds when SchemaChoices gives each name one list *)
(* of columns: a second CREATE TABLE with another list is answered OK and   *)
(* replaces the stored columns only (meta/database.cc:38).                  *)
CatalogAgrees ==
  server = "up" /\ link =>
    \A t \in DOMAIN tables : \E k \in DOMAIN schema :
      Last(k) = Last(t) /\ schema[k] = tables[t]

(* README.md:12, data is persistent: a table that was created and stored is *)
(* there for statements after a restart.                                    *)
StoredTablesAreUsable ==
  server = "up" => \A t \in Names : SchemaKey(t) \in DOMAIN schema => HasTable(t)

Acked(statement) == reply.kind = "ok" /\ reply.statement = statement

(* README.md:12, data is persistent: an INSERT that is answered OK is stored. *)
AckedInsertIsStored ==
  [][\A t \in Names, list \in InsertLists : \A val \in [1..Len(list) -> Values] :
       Insert(t, list, val) /\ Acked("insert")' => DataKey(t, val[1]) \in DOMAIN data']_vars
=============================================================================
