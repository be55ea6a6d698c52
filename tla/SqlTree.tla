------------------------------ MODULE SqlTree -------------------------------
(***************************************************************************)
(* The memory of the SQL parser (src/parser): the objects its trees are    *)
(* made of, how each class releases what it owns, and the small language   *)
(* in which SqlGrammar writes down what a semantic action builds.          *)
(*                                                                         *)
(* A heap maps addresses to cells.  A cell has the class it was made with  *)
(* and its pointer members; a member that is missing is a null pointer, as *)
(* the constructors leave it, and members that are no pointers are left    *)
(* out.  Strings are cells of class "char" (malloc, strdup), vectors cells *)
(* of class "vector" whose members are numbered.                           *)
(*                                                                         *)
(* A step works on a record m: the heap, the next fresh address, the       *)
(* faults so far, the cells that nothing points to any more (each with the *)
(* place that lost it) and the place of the step itself.                   *)
(***************************************************************************)
EXTENDS Integers, Sequences, FiniteSets, SequencesExt, TLC

NULL == 0

-----------------------------------------------------------------------------
\* What a destructor does with each pointer member of its class.
\*   free     free(p)                     delete   delete p
\*   each     delete the elements of a vector, then the vector
\*   strings  free the elements, then delete the vector
\*   updates  UpdateStatement's loop over its clauses

\* The parameters ("?") are told apart: they are Exprs of type kExprParameter.
ExprClass ==
  LET members == [expr |-> "delete", expr2 |-> "delete", select |-> "delete", name |-> "free",
                  table |-> "free", alias |-> "free", exprList |-> "each"]
  IN  "Expr" :> members @@ "Parameter" :> members

\* SQLStatement, the base of the statements.
SQLStatementClass == [hints |-> "each"]
Statement(members) == SQLStatementClass @@ members

TableElementClasses ==
  "TableConstraint" :> [columnNames |-> "strings"] @@
  "ColumnDefinition" :> [name |-> "free", column_constraints |-> "delete"]

CreateStatementClass ==
  "CreateStatement" :> Statement(
    [filePath |-> "free", schema |-> "free", tableName |-> "free", indexName |-> "free",
     select |-> "delete", columns |-> "each", tableConstraints |-> "each",
     indexColumns |-> "strings", viewColumns |-> "strings"])

DropStatementClass ==
  "DropStatement" :> Statement([schema |-> "free", name |-> "free", indexName |-> "free"])

AlterStatementClasses ==
  "AlterStatement" :> Statement([schema |-> "free", name |-> "free", action |-> "delete"]) @@
  "DropColumnAction" :> [columnName |-> "free"]

TransactionAndExecuteClasses ==
  "TransactionStatement" :> SQLStatementClass @@
  "ExecuteStatement" :> Statement([name |-> "free", parameters |-> "each"])

PrepareStatementClass ==
  "PrepareStatement" :> Statement([name |-> "free", query |-> "free"])

ExportAndImportClasses ==
  LET file == Statement([filePath |-> "free", schema |-> "free", tableName |-> "free"])
  IN  "ExportStatement" :> file @@ "ImportStatement" :> file

DeleteStatementClass ==
  "DeleteStatement" :> Statement([schema |-> "free", tableName |-> "free", expr |-> "delete"])

\* Mutant: the column names, which the scanner allocates, are deleted.
InsertStatementClassDelete ==
  "InsertStatement" :> Statement(
    [schema |-> "free", tableName |-> "free", select |-> "delete",
     columns |-> "each", values |-> "each"])

InsertStatementClass ==
  "InsertStatement" :> Statement(
    [schema |-> "free", tableName |-> "free", select |-> "delete",
     columns |-> "strings", values |-> "each"])

ShowStatementClass ==
  "ShowStatement" :> Statement([schema |-> "free", name |-> "free"])

SelectPartClasses ==
  "OrderDescription" :> [expr |-> "delete"] @@
  "LimitDescription" :> [limit |-> "delete", offset |-> "delete"] @@
  "GroupByDescription" :> [having |-> "delete", columns |-> "each"] @@
  "WithDescription" :> [alias |-> "free", select |-> "delete"]

SelectStatementClass ==
  "SelectStatement" :> Statement(
    [fromTable |-> "delete", whereClause |-> "delete", groupBy |-> "delete",
     limit |-> "delete", selectList |-> "each", order |-> "each",
     withDescriptions |-> "each", setOperations |-> "each"])

UpdateStatementClass ==
  "UpdateStatement" :> Statement(
    [table |-> "delete", where |-> "delete", updates |-> "updates"])

\* Clauses have no destructor: who deletes one has to release its members.
UpdateClauseClass == "UpdateClause" :> << >>

TableRefClasses ==
  "Alias" :> [name |-> "free", columns |-> "strings"] @@
  "TableRef" :> [schema |-> "free", name |-> "free", select |-> "delete",
                 join |-> "delete", alias |-> "delete", list |-> "each"] @@
  "JoinDefinition" :> [left |-> "delete", right |-> "delete", condition |-> "delete"]

SetOperationClass ==
  "SetOperation" :> [nestedSelectStatement |-> "delete", resultLimit |-> "delete",
                     resultOrder |-> "each"]

Destructor ==
  ExprClass @@ TableElementClasses @@ CreateStatementClass @@ DropStatementClass
  @@ AlterStatementClasses @@ TransactionAndExecuteClasses @@ PrepareStatementClass
  @@ ExportAndImportClasses @@ DeleteStatementClass @@ InsertStatementClass
  @@ ShowStatementClass @@ SelectPartClasses @@ SelectStatementClass
  @@ UpdateStatementClass @@ UpdateClauseClass @@ TableRefClasses @@ SetOperationClass
  @@ "vector" :> << >>

-----------------------------------------------------------------------------
\* Memory.

Fault(m, what) == [m EXCEPT !.faults = @ \union {<<what>> \o m.site}]

\* The new cell's address is the next of m.
Alloc(m, class, members) ==
  [m EXCEPT !.heap = @ @@ (m.next :> [class |-> class, members |-> members]),
            !.next = @ + 1]

Drop(m, p) == [m EXCEPT !.heap = [q \in DOMAIN m.heap \ {p} |-> m.heap[q]]]

Member(m, p, name) ==
  LET ms == m.heap[p].members IN IF name \in DOMAIN ms THEN ms[name] ELSE NULL

SetMember(m, p, name, q) == [m EXCEPT !.heap[p].members = (name :> q) @@ @]

\* Release p the way "how" says.  Destructors are virtual where a base pointer is
\* deleted, so the class the object was made with decides.
RECURSIVE Release(_, _, _)
Release(m, how, p) ==
  LET elements(h) == FoldLeft(LAMBDA acc, q : Release(acc, h, q), m, m.heap[p].members)
      parts == Destructor[m.heap[p].class]
      members == FoldSet(LAMBDA name, acc : Release(acc, parts[name], Member(m, p, name)),
                         m, DOMAIN parts)
  IN  CASE p = NULL -> m
        [] p \notin DOMAIN m.heap -> Fault(m, "dangling")
        [] how = "free" ->
             Drop(IF m.heap[p].class = "char" THEN m ELSE Fault(m, "free of new"), p)
        [] how = "delete" ->
             Drop(IF m.heap[p].class = "char" THEN Fault(m, "delete of malloc")
                  ELSE members, p)
        [] how = "each" -> Drop(elements("delete"), p)
        [] how = "strings" -> Drop(elements("free"), p)
        [] how = "updates" -> Drop(elements("clause"), p)
        [] how = "clause" ->
             Drop(Release(Release(m, "free", Member(m, p, "column")),
                          "delete", Member(m, p, "value")), p)

\* The cells that pointers in S lead to.
RECURSIVE Reach(_, _)
Reach(heap, S) ==
  LET more == S \union UNION {Range(heap[p].members) : p \in S \intersect DOMAIN heap}
  IN  IF more = S THEN S \intersect DOMAIN heap ELSE Reach(heap, more)

\* After a step with the given roots: what no root leads to is lost, here.
Account(m, roots) ==
  LET lost == (DOMAIN m.heap \ Reach(m.heap, roots)) \ DOMAIN m.leaks
  IN  [m EXCEPT !.leaks = @ @@ [p \in lost |-> m.site]]

-----------------------------------------------------------------------------
\* Sources: what an action assigns.  v is the sequence of the values of the
\* rule's symbols, each a sequence of pointers: one, two for a TableName (schema
\* and name), none for a value without pointers.

V(i) == [op |-> "value", i |-> i, part |-> 1]
Schema(i) == V(i)
Name(i) == [op |-> "value", i |-> i, part |-> 2]
Nullptr == [op |-> "null"]
New(class, members) == [op |-> "new", class |-> class, members |-> members]
Vector(elements) == [op |-> "vector", elements |-> elements]
\* The member of $i itself, and copies made with strdup: of a member that has to
\* be there, of one that may be null (as may $i), of what TableRef::getName gives.
MemberOf(i, name) == [op |-> "member", i |-> i, name |-> name]
Dup(i, name) == [op |-> "dup", i |-> i, name |-> name]
DupIf(i, name) == [op |-> "dupif", i |-> i, name |-> name]
\* The elements of vector $i that were made with the given class.
Elements(i, class) == [op |-> "elements", i |-> i, class |-> class]

GetName(m, p) ==
  LET alias == Member(m, p, "alias")
  IN  IF alias # NULL THEN Member(m, alias, "name") ELSE Member(m, p, "name")
DupName(i) == [op |-> "dupname", i |-> i]

\* strdup of p, or null for null.
Copy(m, p) ==
  IF p = NULL THEN [m |-> m, p |-> NULL]
  ELSE [m |-> Alloc(m, "char", << >>), p |-> m.next]

\* Evaluate a source: the memory after it and the pointer.
RECURSIVE Build(_, _, _)
Build(m, v, src) ==
  LET p == v[src.i][1]
      part(name, acc) ==
        LET b == Build(acc.m, v, src.members[name])
        IN  [m |-> b.m, fs |-> (name :> b.p) @@ acc.fs]
      element(acc, s) ==
        LET b == Build(acc.m, v, s) IN [m |-> b.m, fs |-> Append(acc.fs, b.p)]
      made(class, r) == [m |-> Alloc(r.m, class, r.fs), p |-> r.m.next]
      none == [m |-> m, fs |-> << >>]
  IN  CASE src.op = "value" -> [m |-> m, p |-> v[src.i][src.part]]
        [] src.op = "null" -> [m |-> m, p |-> NULL]
        [] src.op = "new" -> made(src.class, FoldSet(part, none, DOMAIN src.members))
        [] src.op = "vector" -> made("vector", FoldLeft(element, none, src.elements))
        [] src.op = "member" -> [m |-> m, p |-> Member(m, p, src.name)]
        [] src.op = "dup" ->
             Copy(IF Member(m, p, src.name) = NULL THEN Fault(m, "null") ELSE m,
                  Member(m, p, src.name))
        [] src.op = "dupif" -> Copy(m, IF p = NULL THEN NULL ELSE Member(m, p, src.name))
        [] src.op = "dupname" -> Copy(m, GetName(m, p))
        [] src.op = "elements" ->
             made("vector", [m |-> m, fs |-> SelectSeq(m.heap[p].members,
                                              LAMBDA q : m.heap[q].class = src.class)])

-----------------------------------------------------------------------------
\* Commands: what an action does besides, in order.

Put(i, name, src) == [op |-> "put", i |-> i, name |-> name, src |-> src]
Push(i, src) == [op |-> "push", i |-> i, src |-> src]
\* $i->name->push_back(src), after making the vector if there is none.
PushInto(i, name, src) == [op |-> "pushinto", i |-> i, name |-> name, src |-> src]
\* If $j is not null: delete $i->name; $i->name = $j.
Replace(i, name, j) == [op |-> "replace", i |-> i, name |-> name, j |-> j]
Delete(i) == [op |-> "release", i |-> i, how |-> "delete"]
Free(i) == [op |-> "release", i |-> i, how |-> "free"]

Run(m, v, c) ==
  LET p == v[c.i][1]
      b == Build(m, v, c.src)
      push(mem, vec) == [mem EXCEPT !.heap[vec].members = Append(@, b.p)]
  IN  CASE c.op = "put" -> SetMember(b.m, p, c.name, b.p)
        [] c.op = "push" -> push(b.m, p)
        [] c.op = "pushinto" ->
             IF Member(m, p, c.name) # NULL THEN push(b.m, Member(m, p, c.name))
             ELSE SetMember(push(Alloc(b.m, "vector", << >>), b.m.next), p, c.name, b.m.next)
        [] c.op = "replace" ->
             IF v[c.j][1] = NULL THEN m
             ELSE SetMember(Release(m, "delete", Member(m, p, c.name)), p, c.name, v[c.j][1])
        [] c.op = "release" -> Release(m, c.how, p)
=============================================================================
