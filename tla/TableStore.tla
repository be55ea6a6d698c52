----------------------------- MODULE TableStore -----------------------------
(***************************************************************************)
(* What the database promises to its clients (refined by SqlEngine): one   *)
(* durable table per name, rows found by the value of their first column,  *)
(* statements that take effect at once and completely, and a server that   *)
(* may stop at any time without a trace in the tables.  A SELECT shows     *)
(* rows that are in the table at that moment: the one with the key, all    *)
(* that start with it, or (">", LIMIT, no condition) rows that qualify.    *)
(***************************************************************************)
EXTENDS Naturals, Sequences

CONSTANTS
  ColumnLists,   \* table -> the column lists it may have
  Literals,
  Bigger, Begins,\* pairs <<a, b>> of literals: a > b; a begins with b
  Caps           \* the n of LIMIT n; 0 when there is none

VARIABLES
  catalog, \* table -> its columns
  rows,    \* table -> key -> the row
  up,      \* is the server running?
  answer   \* the answer to the last statement

tvars == <<catalog, rows, up, answer>>

TableNames == DOMAIN ColumnLists
With(f, k, v) == [x \in DOMAIN f \cup {k} |-> IF x = k THEN v ELSE f[x]]
Without(f, k) == [x \in DOMAIN f \ {k} |-> f[x]]
Done(statement, n) == [kind |-> "ok", statement |-> statement, affected |-> n]

SInit ==
  /\ catalog = <<>> /\ rows = [t \in TableNames |-> <<>>]
  /\ up = FALSE /\ answer = [kind |-> "none"]

(* The server starts or stops; nothing that was stored is lost. *)
PowerChange == up' = ~up /\ answer' = [kind |-> "none"] /\ UNCHANGED <<catalog, rows>>

Declare(t, cols) ==
  /\ t \notin DOMAIN catalog
  /\ catalog' = With(catalog, t, cols)
  /\ answer' = Done("create", 1) /\ UNCHANGED rows

(* INSERT: the row replaces the one with the same key. *)
Store(t, row) ==
  /\ rows' = [rows EXCEPT ![t] = With(@, row[1], row)]
  /\ answer' = Done("insert", 1) /\ UNCHANGED catalog

(* UPDATE: one column of one row; the row keeps its key. *)
Amend(t, k, i, v) ==
  /\ k \in DOMAIN rows[t]
  /\ rows' = [rows EXCEPT ![t][k][i] = v]
  /\ answer' = Done("update", 1) /\ UNCHANGED catalog

Remove(t, k) ==
  /\ rows' = [rows EXCEPT ![t] = Without(@, k)]
  /\ answer' = Done("delete", 1) /\ UNCHANGED catalog

Show(t, operator, k, limit) ==
  LET all(S) == {<<x, rows[t][x]>> : x \in S \cap DOMAIN rows[t]}
      shown == answer'.rows
  IN  /\ answer'.kind = "rows"
      /\ answer' = [kind |-> "rows", query |-> <<t, operator, k, limit>>, rows |-> shown]
      /\ operator = "=" => shown = all({k})
      /\ operator = "like" => shown \subseteq all({x \in Literals : <<x, k>> \in Begins})
      /\ operator = "like" /\ limit = 0 => shown = all({x \in Literals : <<x, k>> \in Begins})
      /\ operator = ">" => shown \subseteq all({x \in Literals : <<x, k>> \in Bigger})
      /\ operator = "all" => shown \subseteq all(Literals)
      /\ operator = "other" => shown = {}
      /\ UNCHANGED <<catalog, rows>>

(* A statement that does nothing: refused, not supported, or no such row. *)
Decline == answer'.kind \in {"ok", "error"} /\ UNCHANGED <<catalog, rows>>

Serve ==
  /\ up /\ UNCHANGED up
  /\ \/ Decline
     \/ \E t \in TableNames : \E cols \in ColumnLists[t] : Declare(t, cols)
     \/ \E t \in DOMAIN catalog :
          \/ \E row \in [1..Len(catalog[t]) -> Literals] : Store(t, row)
          \/ \E k \in Literals :
               \/ \E i \in 1..Len(catalog[t]), v \in Literals : Amend(t, k, i, v)
               \/ Remove(t, k)
               \/ \E operator \in {"=", ">", "like", "other"}, limit \in Caps : Show(t, operator, k, limit)
          \/ Show(t, "all", "*", 0)

StoreSpec == SInit /\ [][PowerChange \/ Serve]_tvars
=============================================================================
