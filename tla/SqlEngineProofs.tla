-------------------------- MODULE SqlEngineProofs --------------------------
(***************************************************************************)
(* Proofs about SqlEngine, for every set of tables, columns and literals,  *)
(* through crashes, restarts and the loss of the storage connection.       *)
(***************************************************************************)
EXTENDS SqlEngineTables, NatLemmas, SequenceTheorems, FiniteSetTheorems, TLAPS

Lists == UNION {SchemaChoices[t] : t \in Names}
Literals == Values \cup {""}
Tokens == {"table", "data", DB, "p"} \cup Values \cup {"1"} \cup UNION {Range(t) : t \in Names}

(* What is stored: a table under its own key, with columns it may have;     *)
(* rows of literals, of any length.                                         *)
StoreInv ==
  /\ \A k \in DOMAIN schema : \E t \in Names : k = SchemaKey(t) /\ schema[k] \in SchemaChoices[t]
  /\ \A t \in DOMAIN tables : tables[t] \in Lists
  /\ \A k \in DOMAIN data : data[k] \in Seq(Literals)

(* An UPDATE between its GET and its SET: its row is still there. *)
OpInv ==
  op # None =>
    /\ op.key \in DOMAIN data /\ op.val \in Values /\ op.index \in Nat
    /\ op.cols \in Seq(Literals)
    /\ \E t \in Names, q \in Values : op.key = DataKey(t, q)

FlagsInv ==
  /\ server \in {"down", "up", "headless"} /\ link \in BOOLEAN
  /\ reply.kind \in {"none", "ok", "error", "rows"}

EngineInv == StoreInv /\ OpInv /\ FlagsInv

-----------------------------------------------------------------------------
(* Prefixes, compared token by token. *)
LEMMA PrefixAt ==
  ASSUME NEW p \in Seq(Tokens), NEW k \in Seq(Tokens)
  PROVE  IsPrefix(p, k) <=> Len(p) <= Len(k) /\ \A i \in 1..Len(p) : k[i] = p[i]
<1>1. ASSUME Len(p) <= Len(k)
      PROVE  /\ SubSeq(p, 1, Len(p)) = [i \in 1..Len(p) |-> p[i]]
             /\ SubSeq(k, 1, Len(p)) = [i \in 1..Len(p) |-> k[i]]
  BY <1>1
<1>2. CASE Len(p) <= Len(k)
  <2>1. IsPrefix(p, k) <=> [i \in 1..Len(p) |-> p[i]] = [i \in 1..Len(p) |-> k[i]]
    BY <1>1, <1>2 DEF IsPrefix
  <2> QED BY <1>2, <2>1
<1> QED
  BY <1>2 DEF IsPrefix

(* A name is a sequence of tokens. *)
LEMMA NameType ==
  ASSUME NEW t \in Names
  PROVE  t \in Seq(Tokens) /\ t # <<>>
<1>1. t \in Seq(Range(t)) /\ t # <<>> /\ Range(t) \subseteq Tokens
  BY NamesAssumption DEF Names, IsSeq, Tokens
<1> HIDE DEF Tokens
<1>2. Len(t) \in Nat /\ t \in [1..Len(t) -> Tokens]
  BY <1>1, LenProperties
<1> QED
  BY <1>1, <1>2

(* The two halves of a concatenation. *)
LEMMA ConcatAt ==
  ASSUME NEW s \in Seq(Tokens), NEW t \in Seq(Tokens)
  PROVE  /\ s \o t \in Seq(Tokens) /\ Len(s \o t) = Len(s) + Len(t)
         /\ \A i \in 1..Len(s) : (s \o t)[i] = s[i]
         /\ \A i \in 1..Len(t) : (s \o t)[i + Len(s)] = t[i]
OBVIOUS

(* StringSplit loses at most a value, and makes none up. *)
LEMMA SplitType ==
  ASSUME NEW S, NEW row \in Seq(S)
  PROVE  StringSplit(row) \in Seq(S) /\ Len(StringSplit(row)) <= Len(row)
<1>1. CASE row # <<>> /\ Last(row) = ""
  <2>1. StringSplit(row) = SubSeq(row, 1, Len(row) - 1)
    BY <1>1 DEF StringSplit, Front
  <2>2. Len(row) \in Nat /\ Len(row) > 0
    <3>1. row # <<>>
      BY <1>1
    <3> QED BY <3>1, EmptySeq, LenProperties
  <2>3. \A i \in 1..(Len(row) - 1) : row[i] \in S
    BY <2>2, ElementOfSeq
  <2> QED
    BY <2>1, <2>2, <2>3, SubSeqProperties
<1>2. CASE ~(row # <<>> /\ Last(row) = "")
  <2>1. StringSplit(row) = row
    BY <1>2 DEF StringSplit
  <2>2. Len(row) \in Nat
    BY LenProperties
  <2> QED BY <2>1, <2>2
<1> QED BY <1>1, <1>2

(* The keys of a table, token by token. *)
LEMMA KeyTokens ==
  ASSUME NEW t \in Names, NEW v \in Tokens
  PROVE  /\ t \in Seq(Tokens) /\ Len(t) \in Nat \ {0}
         /\ SchemaKey(t) \in Seq(Tokens) /\ Len(SchemaKey(t)) = Len(t) + 2
         /\ Last(SchemaKey(t)) = Last(t)
         /\ \A i \in 1..Len(t) : SchemaKey(t)[i + 2] = t[i]
         /\ DataPrefix(t) \in Seq(Tokens) /\ Len(DataPrefix(t)) = Len(t) + 3
         /\ DataKey(t, v) \in Seq(Tokens) /\ Len(DataKey(t, v)) = Len(t) + 4
         /\ \A i \in 1..Len(t) : DataPrefix(t)[i + 2] = t[i] /\ DataKey(t, v)[i + 2] = t[i]
         /\ DataPrefix(t)[Len(t) + 3] = "p" /\ DataKey(t, v)[Len(t) + 3] = "p"
         /\ DataKey(t, v)[Len(t) + 4] = v
<1>1. t \in Seq(Tokens) /\ t # <<>>
  BY NameType
<1>2. Len(t) \in Nat \ {0}
  BY <1>1, EmptySeq, LenProperties
<1> DEFINE a == <<"table", DB>>
           b == <<"data", DB>>
           p == <<"p">>
           w == <<v>>
<1>3. /\ a \in Seq(Tokens) /\ Len(a) = 2
      /\ b \in Seq(Tokens) /\ Len(b) = 2
      /\ p \in Seq(Tokens) /\ Len(p) = 1 /\ p[1] = "p"
      /\ w \in Seq(Tokens) /\ Len(w) = 1 /\ w[1] = v
  <2>1. {"table", "data", DB, "p", v} \subseteq Tokens
    BY DEF Tokens
  <2> HIDE DEF Tokens
  <2> QED BY <2>1
<1> HIDE DEF a, b, p, w
<1>4. /\ a \o t \in Seq(Tokens) /\ Len(a \o t) = Len(t) + 2
      /\ (a \o t)[Len(t) + 2] = t[Len(t)]
      /\ \A i \in 1..Len(t) : (a \o t)[i + 2] = t[i]
  <2>1. /\ a \o t \in Seq(Tokens) /\ Len(a \o t) = Len(a) + Len(t)
        /\ \A i \in 1..Len(a) : (a \o t)[i] = a[i]
        /\ \A i \in 1..Len(t) : (a \o t)[i + Len(a)] = t[i]
    BY <1>1, <1>3, ConcatAt
  <2> QED
    BY <1>2, <1>1, <1>3, <2>1
<1> DEFINE bt == b \o t
<1>5. /\ bt \in Seq(Tokens) /\ Len(bt) = Len(t) + 2
      /\ \A i \in 1..Len(t) : bt[i + 2] = t[i]
  <2>1. /\ b \o t \in Seq(Tokens) /\ Len(b \o t) = Len(b) + Len(t)
        /\ \A i \in 1..Len(b) : (b \o t)[i] = b[i]
        /\ \A i \in 1..Len(t) : (b \o t)[i + Len(b)] = t[i]
    BY <1>1, <1>3, ConcatAt
  <2> QED
    BY <1>2, <1>1, <1>3, <2>1
<1> HIDE DEF bt
<1> DEFINE btp == bt \o p
<1>6. /\ btp \in Seq(Tokens) /\ Len(btp) = Len(t) + 3
      /\ \A i \in 1..Len(t) : btp[i + 2] = t[i]
      /\ btp[Len(t) + 3] = "p"
  <2>1. /\ bt \o p \in Seq(Tokens) /\ Len(bt \o p) = Len(bt) + Len(p)
        /\ \A i \in 1..Len(bt) : (bt \o p)[i] = bt[i]
        /\ \A i \in 1..Len(p) : (bt \o p)[i + Len(bt)] = p[i]
    BY <1>3, <1>5, ConcatAt
  <2> QED
    BY <1>2, <1>3, <1>5, <2>1
<1> HIDE DEF btp
<1>7. /\ btp \o w \in Seq(Tokens) /\ Len(btp \o w) = Len(t) + 4
      /\ \A i \in 1..(Len(t) + 3) : (btp \o w)[i] = btp[i]
      /\ (btp \o w)[Len(t) + 4] = v
  <2>1. /\ btp \o w \in Seq(Tokens) /\ Len(btp \o w) = Len(btp) + Len(w)
        /\ \A i \in 1..Len(btp) : (btp \o w)[i] = btp[i]
        /\ \A i \in 1..Len(w) : (btp \o w)[i + Len(btp)] = w[i]
    BY <1>3, <1>6, ConcatAt
  <2> QED
    BY <1>2, <1>3, <1>6, <2>1
<1>8. \A i \in 1..Len(t) : (btp \o w)[i + 2] = t[i]
  BY <1>2, <1>6, <1>7
<1>9. (btp \o w)[Len(t) + 3] = "p"
  BY <1>2, <1>6, <1>7
<1>10. SchemaKey(t) = a \o t /\ DataPrefix(t) = btp /\ DataKey(t, v) = btp \o w
  BY DEF SchemaKey, DataPrefix, DataKey, a, bt, b, p, w, btp
<1> QED
  BY <1>1, <1>2, <1>4, <1>6, <1>7, <1>8, <1>9, <1>10 DEF Last

(* Two tables have different catalog keys. *)
LEMMA SchemaKeysDiffer ==
  ASSUME NEW t \in Names, NEW u \in Names, SchemaKey(t) = SchemaKey(u)
  PROVE  t = u
<1>1. "1" \in Tokens
  BY DEF Tokens
<1>2. /\ t \in Seq(Tokens) /\ u \in Seq(Tokens) /\ Len(t) \in Nat /\ Len(u) \in Nat
      /\ Len(SchemaKey(t)) = Len(t) + 2 /\ Len(SchemaKey(u)) = Len(u) + 2
      /\ \A i \in 1..Len(t) : SchemaKey(t)[i + 2] = t[i]
      /\ \A i \in 1..Len(u) : SchemaKey(u)[i + 2] = u[i]
  BY <1>1, KeyTokens
<1>3. Len(t) = Len(u)
  BY <1>2
<1>4. \A i \in 1..Len(t) : t[i] = u[i]
  BY <1>2, <1>3
<1> QED
  BY <1>2, <1>3, <1>4, SeqEqual

(* No table's name is another's name with the token "p" after it. *)
NamesApart == \A t, u \in Names : ~IsPrefix(t \o <<"p">>, u)

(* Then a row's key is in the scans of its own table only. *)
LEMMA KeyOfOneTable ==
  ASSUME NamesApart, NEW t \in Names, NEW u \in Names, NEW v \in Tokens,
         Len(DataKey(u, v)) > Len(DataPrefix(t)), IsPrefix(DataPrefix(t), DataKey(u, v))
  PROVE  t = u
<1> DEFINE k == DataKey(u, v)
           p == DataPrefix(t)
<1>1. /\ t \in Seq(Tokens) /\ u \in Seq(Tokens) /\ Len(t) \in Nat \ {0} /\ Len(u) \in Nat \ {0}
      /\ p \in Seq(Tokens) /\ Len(p) = Len(t) + 3 /\ k \in Seq(Tokens) /\ Len(k) = Len(u) + 4
      /\ \A i \in 1..Len(t) : p[i + 2] = t[i]
      /\ \A i \in 1..Len(u) : k[i + 2] = u[i]
      /\ p[Len(t) + 3] = "p"
  BY KeyTokens
<1>2. Len(k) > Len(p) /\ IsPrefix(p, k)
  OBVIOUS
<1> HIDE DEF k, p
<1>3. \A i \in 1..Len(p) : k[i] = p[i]
  BY <1>1, <1>2, PrefixAt
<1>4. Len(t) <= Len(u)
  BY <1>1, <1>2
<1>5. \A i \in 1..Len(t) : u[i] = t[i]
  <2> TAKE i \in 1..Len(t)
  <2>1. i + 2 \in 1..Len(p) /\ i \in 1..Len(u)
    BY <1>1, <1>4
  <2> QED BY <1>1, <1>3, <2>1
<1>6. CASE Len(t) = Len(u)
  BY <1>1, <1>5, <1>6, SeqEqual
<1>7. CASE Len(t) < Len(u)
  <2>1. Len(t) + 3 \in 1..Len(p) /\ Len(t) + 1 \in 1..Len(u) /\ (Len(t) + 1) + 2 = Len(t) + 3
    BY <1>1, <1>7
  <2>2. u[Len(t) + 1] = "p"
    BY <1>1, <1>3, <2>1
  <2> DEFINE one == <<"p">>
             tp == t \o one
  <2>3. one \in Seq(Tokens) /\ Len(one) = 1 /\ one[1] = "p"
    <3>1. "p" \in Tokens
      BY DEF Tokens
    <3> QED BY <3>1
  <2> HIDE DEF one
  <2>4. /\ tp \in Seq(Tokens) /\ Len(tp) = Len(t) + Len(one)
        /\ \A i \in 1..Len(t) : tp[i] = t[i]
        /\ \A i \in 1..Len(one) : tp[i + Len(t)] = one[i]
    BY <1>1, <2>3, ConcatAt
  <2> HIDE DEF tp
  <2>5. Len(tp) = Len(t) + 1 /\ tp[Len(t) + 1] = "p"
    BY <1>1, <2>3, <2>4
  <2>6. Len(tp) <= Len(u) /\ \A i \in 1..Len(tp) : u[i] = tp[i]
    <3>1. \A i \in 1..Len(tp) : i \in 1..Len(t) \/ i = Len(t) + 1
      BY <1>1, <2>5
    <3>2. \A i \in 1..Len(t) : u[i] = tp[i]
      BY <1>5, <2>4
    <3>3. Len(tp) <= Len(u)
      BY <1>1, <1>7, <2>5
    <3> QED BY <2>2, <2>5, <3>1, <3>2, <3>3
  <2>7. IsPrefix(tp, u)
    BY <1>1, <2>4, <2>6, PrefixAt
  <2> QED
    BY <2>7 DEF NamesApart, tp, one
<1> QED
  BY <1>1, <1>4, <1>6, <1>7

-----------------------------------------------------------------------------
(* Values found by position. *)

(* A property of 1..n that holds somewhere holds somewhere for the last time. *)
LEMMA LastIndex ==
  ASSUME NEW n \in Nat, NEW T \in SUBSET (1..n), T # {}
  PROVE  \E i \in T : \A j \in (i + 1)..n : j \notin T
<1>1. T \in SUBSET (0..n)
  OBVIOUS
<1>2. PICK x \in T : \A y \in T : y <= x
  BY <1>1, GreatestNat
<1> QED
  BY <1>2

(* GetColIndex is a position or 0. *)
LEMMA ColIndexType ==
  ASSUME NEW t, Len(tables[t]) \in Nat, NEW c
  PROVE  GetColIndex(t, c) \in Nat
<1> DEFINE cols == tables[t]
           T == {i \in 1..Len(cols) : cols[i] = c}
<1>1. CASE \E i \in 1..Len(cols) : cols[i] = c
  <2>1. \E i \in T : \A j \in (i + 1)..Len(cols) : j \notin T
    BY <1>1, LastIndex
  <2>2. \E i \in 1..Len(cols) : cols[i] = c /\ \A j \in (i + 1)..Len(cols) : cols[j] # c
    BY <2>1
  <2> QED BY <1>1, <2>2 DEF GetColIndex
<1>2. CASE ~\E i \in 1..Len(cols) : cols[i] = c
  BY <1>2 DEF GetColIndex
<1> QED BY <1>1, <1>2

(* INSERT stores a row of literals, as long as its list. *)
LEMMA NewRowType ==
  ASSUME NEW t, NEW list \in InsertLists, NEW val \in [1..Len(list) -> Values]
  PROVE  NewRow(t, list, val) \in Seq(Literals) /\ Len(NewRow(t, list, val)) = Len(list)
<1> DEFINE n == Len(list)
           at(i) == GetColIndex(t, list[i])
           pick(p) == CHOOSE i \in 1..n : at(i) = p /\ \A j \in (i + 1)..n : at(j) # p
<1>1. n \in Nat
  BY ListsAssumption, LenProperties DEF IsSeq
<1> HIDE DEF at
<1>2. ASSUME NEW p, \E i \in 1..n : at(i) = p
      PROVE  pick(p) \in 1..n
  <2> DEFINE T == {i \in 1..n : at(i) = p}
  <2>1. \E i \in T : \A j \in (i + 1)..n : j \notin T
    BY <1>1, <1>2, LastIndex
  <2>2. \E i \in 1..n : at(i) = p /\ \A j \in (i + 1)..n : at(j) # p
    BY <1>1, <2>1
  <2> QED BY <2>2
<1> HIDE DEF pick
<1> DEFINE row == [p \in 1..n |-> IF \E i \in 1..n : at(i) = p THEN val[pick(p)] ELSE ""]
<1>3. NewRow(t, list, val) = row
  BY DEF NewRow, RowSize, pick, at
<1>4. \A p \in 1..n : row[p] \in Literals
  BY <1>2 DEF Literals
<1>5. row \in [1..n -> Literals]
  BY <1>4
<1> HIDE DEF row
<1> QED
  BY <1>1, <1>3, <1>5

-----------------------------------------------------------------------------
(* The invariant. *)

(* It holds of the empty store. *)
LEMMA EngineInit == Init => EngineInv
<1> SUFFICES ASSUME Init PROVE EngineInv
  OBVIOUS
<1>1. DOMAIN tables = {} /\ DOMAIN schema = {} /\ DOMAIN data = {}
  BY DEF Init
<1>2. StoreInv
  BY <1>1 DEF StoreInv
<1>3. OpInv /\ FlagsInv
  BY DEF Init, OpInv, FlagsInv, None
<1> QED
  BY <1>2, <1>3 DEF EngineInv

(* A crash loses what is in memory only. *)
LEMMA CrashStep ==
  ASSUME EngineInv, Crashed, UNCHANGED store
  PROVE  EngineInv'
<1>1. DOMAIN tables' = {} /\ UNCHANGED <<schema, data>>
  BY DEF Crashed, store
<1>2. StoreInv'
  BY <1>1 DEF EngineInv, StoreInv
<1>3. OpInv' /\ FlagsInv'
  BY DEF Crashed, OpInv, FlagsInv, None
<1> QED
  BY <1>2, <1>3 DEF EngineInv

(* A statement that changes neither tables nor store. *)
LEMMA AnswerStep ==
  ASSUME EngineInv, UNCHANGED <<tables, store, op>>, NEW r, Answer(r),
         r.kind \in {"none", "ok", "error", "rows"}
  PROVE  EngineInv'
BY DEF EngineInv, StoreInv, OpInv, FlagsInv, Answer, store

(* Start, crash, and the connection. *)
LEMMA PowerStep ==
  ASSUME EngineInv, Start \/ StartHeadless \/ Crash \/ LoseLink
  PROVE  EngineInv'
<1> USE DEF EngineInv
<1>1. CASE Start
  <2> DEFINE keys == Scan(DOMAIN schema, <<"table", DB>>)
             names == {<<Last(k)>> : k \in keys}
  <2>1. PICK from \in [names -> keys] : tables' = [n \in names |-> schema[from[n]]]
    BY <1>1 DEF Start, RecoverFromPmemKV
  <2>2. keys \subseteq DOMAIN schema
    BY DEF Scan
  <2> HIDE DEF keys, names
  <2>3. \A t \in DOMAIN tables' : tables'[t] \in Lists
    BY <2>1, <2>2 DEF StoreInv, Lists
  <2> QED
    BY <1>1, <2>3 DEF Start, StoreInv, OpInv, FlagsInv, store, None
<1>2. CASE StartHeadless
  BY <1>2 DEF StartHeadless, StoreInv, OpInv, FlagsInv, store, None
<1>3. CASE Crash
  BY <1>3, CrashStep DEF Crash
<1>4. CASE LoseLink
  BY <1>4 DEF LoseLink, StoreInv, OpInv, FlagsInv, store
<1> QED BY <1>1, <1>2, <1>3, <1>4

(* CREATE TABLE. *)
LEMMA CreateStep ==
  ASSUME EngineInv, NEW t \in Names, NEW cols \in SchemaChoices[t], CreateTable(t, cols)
  PROVE  EngineInv'
<1> USE DEF EngineInv
<1>1. cols \in Lists
  BY DEF Lists
<1>2. \A u \in DOMAIN tables' : tables'[u] \in Lists
  BY <1>1 DEF CreateTable, MakeTable, Put, StoreInv
<1>3. \A k \in DOMAIN schema' : \E u \in Names : k = SchemaKey(u) /\ schema'[k] \in SchemaChoices[u]
  BY DEF CreateTable, MakeTable, Put, StoreInv
<1> QED
  BY <1>2, <1>3 DEF CreateTable, StoreInv, OpInv, FlagsInv, Answer, Ok

(* INSERT. *)
LEMMA InsertStep ==
  ASSUME EngineInv, NEW t \in Names, NEW list \in InsertLists,
         NEW val \in [1..Len(list) -> Values], Insert(t, list, val)
  PROVE  EngineInv'
<1> USE DEF EngineInv
<1>1. CASE UNCHANGED <<tables, store, op>> /\ Answer(Error)
  BY <1>1, AnswerStep DEF Error
<1>2. CASE /\ data' = IF link THEN Put(data, DataKey(t, val[1]), NewRow(t, list, val)) ELSE data
           /\ Answer(Ok("insert", 1)) /\ UNCHANGED <<tables, schema, op>>
  <2> DEFINE row == NewRow(t, list, val)
  <2>1. row \in Seq(Literals)
    BY NewRowType
  <2> HIDE DEF row
  <2>2. \A k \in DOMAIN data' : data'[k] \in Seq(Literals)
    BY <1>2, <2>1 DEF Put, StoreInv, row
  <2>3. DOMAIN data \subseteq DOMAIN data'
    BY <1>2 DEF Put
  <2> QED
    BY <1>2, <2>2, <2>3 DEF StoreInv, OpInv, FlagsInv, Answer, Ok
<1>3. CASE Crashed /\ UNCHANGED store
  BY <1>3, CrashStep
<1> QED
  BY <1>1, <1>2, <1>3 DEF Insert

(* UPDATE: the GET takes the row with it, the SET writes it back. *)
LEMMA UpdateStep ==
  ASSUME EngineInv,
         \/ \E t \in Names, q, v \in Values : \E c : UpdateGet(t, c, v, q)
         \/ UpdateSet
  PROVE  EngineInv'
<1> USE DEF EngineInv
<1>1. ASSUME NEW t \in Names, NEW q \in Values, NEW v \in Values, NEW c, UpdateGet(t, c, v, q)
      PROVE  EngineInv'
  <2>1. CASE UNCHANGED <<tables, store, op>> /\ (Answer(Error) \/ Answer(Ok("update", 0)))
    BY <2>1, AnswerStep DEF Error, Ok
  <2>2. CASE Crashed /\ UNCHANGED store
    BY <2>2, CrashStep
  <2>3. CASE /\ HasTable(t) /\ DataKey(t, q) \in DOMAIN data
             /\ op' = [kind |-> "update", key |-> DataKey(t, q), val |-> v,
                       cols |-> StringSplit(data[DataKey(t, q)]), index |-> GetColIndex(t, c)]
             /\ UNCHANGED <<tables, store, server, link, reply>>
    <3> DEFINE k == DataKey(t, q)
               cut == StringSplit(data[k])
    <3>1. k \in DOMAIN data /\ data[k] \in Seq(Literals)
      BY <2>3 DEF StoreInv
    <3>2. cut \in Seq(Literals)
      BY <3>1, SplitType
    <3>3. GetColIndex(t, c) \in Nat
      <4>1. tables[t] \in Lists
        BY <2>3 DEF StoreInv, HasTable
      <4>2. IsSeq(tables[t])
        BY <4>1, ListsAssumption DEF Lists, Names
      <4>3. Len(tables[t]) \in Nat
        BY <4>2, LenProperties DEF IsSeq
      <4> QED BY <4>3, ColIndexType
    <3>4. /\ op'.key = k /\ op'.val = v /\ op'.cols = cut /\ op'.index = GetColIndex(t, c)
      BY <2>3
    <3> HIDE DEF cut, k
    <3>5. OpInv'
      BY <2>3, <3>1, <3>2, <3>3, <3>4 DEF OpInv, store, k
    <3> QED
      BY <2>3, <3>5 DEF StoreInv, FlagsInv, store
  <2> QED
    BY <1>1, <2>1, <2>2, <2>3 DEF UpdateGet
<1>2. CASE UpdateSet
  <2> DEFINE inside == op.index \in 1..Len(op.cols)
             cols == IF inside THEN [op.cols EXCEPT ![op.index] = op.val] ELSE op.cols
  <2>1. CASE Crashed /\ UNCHANGED store
    BY <2>1, CrashStep
  <2>2. CASE /\ op # None /\ op' = None
             /\ data' = IF link THEN Put(data, op.key, cols) ELSE data
             /\ Answer(Ok("update", 1)) /\ UNCHANGED <<tables, schema>>
    <3>1. op.cols \in Seq(Literals) /\ op.val \in Literals
      BY <2>2 DEF OpInv, Literals
    <3>2. cols \in Seq(Literals)
      BY <3>1, ExceptSeq
    <3> HIDE DEF cols
    <3>3. \A k \in DOMAIN data' : data'[k] \in Seq(Literals)
      BY <2>2, <3>2 DEF Put, StoreInv, OpInv
    <3> QED
      BY <2>2, <3>3 DEF StoreInv, OpInv, FlagsInv, Answer, Ok
  <2> QED
    BY <1>2, <2>1, <2>2 DEF UpdateSet
<1> QED
  BY <1>1, <1>2

(* DELETE. *)
LEMMA DeleteStep ==
  ASSUME EngineInv, NEW t \in Names,
         (\E operator, q : Delete(t, operator, q)) \/ DeleteAll(t)
  PROVE  EngineInv'
<1> USE DEF EngineInv
<1>1. CASE Crashed /\ UNCHANGED store
  BY <1>1, CrashStep
<1>2. CASE UNCHANGED <<tables, store, op>> /\ Answer(Error)
  BY <1>2, AnswerStep DEF Error
<1>3. CASE /\ data' = data \/ \E k : data' = Del(data, k)
           /\ op = None /\ Answer(Ok("delete", 1)) /\ UNCHANGED <<tables, schema, op>>
  BY <1>3 DEF Del, StoreInv, OpInv, FlagsInv, Answer, Ok
<1> QED
  BY <1>1, <1>2, <1>3 DEF Delete, DeleteAll, Running, store

(* SELECT and the statements that do nothing. *)
LEMMA SelectStep ==
  ASSUME EngineInv, NEW t \in Names,
         (\E operator, q, limit : Select(t, operator, q, limit)) \/ SelectAll(t) \/ OtherStatement
  PROVE  EngineInv'
<1>1. CASE Crashed /\ UNCHANGED store
  BY <1>1, CrashStep
<1>2. CASE UNCHANGED <<tables, store, op>> /\ Answer(Error)
  BY <1>2, AnswerStep DEF Error
<1>3. CASE UNCHANGED <<tables, store, op>> /\ Answer(Ok("other", 0))
  BY <1>3, AnswerStep DEF Ok
<1>4. CASE UNCHANGED <<tables, store, op>> /\ \E query, rs : Answer(Rows(query, rs))
  BY <1>4, AnswerStep DEF Rows
<1> QED
  BY <1>1, <1>2, <1>3, <1>4 DEF Select, SelectAll, OtherStatement

(* A statement is one of these, on one table. *)
LEMMA StatementCases ==
  ASSUME Statement
  PROVE  \E t \in Names, q \in Values :
           \/ \E cols \in SchemaChoices[t] : CreateTable(t, cols)
           \/ \E list \in InsertLists : \E val \in [1..Len(list) -> Values] : Insert(t, list, val)
           \/ \E v \in Values : \E c : UpdateGet(t, c, v, q)
           \/ \E operator : Delete(t, operator, q)
           \/ DeleteAll(t)
           \/ \E operator, limit : Select(t, operator, q, limit)
           \/ SelectAll(t)
           \/ OtherStatement
BY DEF Statement

(* Every step keeps the invariant. *)
LEMMA EngineStep == EngineInv /\ [Next]_vars => EngineInv'
<1> SUFFICES ASSUME EngineInv, [Next]_vars PROVE EngineInv'
  OBVIOUS
<1>1. CASE UNCHANGED vars
  BY <1>1 DEF EngineInv, StoreInv, OpInv, FlagsInv, vars, store
<1>2. CASE Start \/ StartHeadless \/ Crash \/ LoseLink
  BY <1>2, PowerStep
<1>3. CASE Statement
  <2>1. PICK t \in Names, q \in Values :
          \/ \E cols \in SchemaChoices[t] : CreateTable(t, cols)
          \/ \E list \in InsertLists : \E val \in [1..Len(list) -> Values] : Insert(t, list, val)
          \/ \E v \in Values : \E c : UpdateGet(t, c, v, q)
          \/ \E operator : Delete(t, operator, q)
          \/ DeleteAll(t)
          \/ \E operator, limit : Select(t, operator, q, limit)
          \/ SelectAll(t)
          \/ OtherStatement
    BY <1>3, StatementCases
  <2> QED
    BY <2>1, CreateStep, InsertStep, UpdateStep, DeleteStep, SelectStep
<1>4. CASE UpdateSet
  BY <1>4, UpdateStep
<1> QED
  BY <1>1, <1>2, <1>3, <1>4 DEF Next

(* EngineInv holds in every reachable state. *)
LEMMA EngineInvHolds == Spec => []EngineInv
BY EngineInit, EngineStep, PTL DEF Spec

-----------------------------------------------------------------------------
(* The state of the server keeps its types, whatever crashes, restarts and   *)
(* connection losses come between the statements.                            *)
THEOREM EngineTypesHold == Spec => []TypeOK
<1>1. EngineInv => TypeOK
  <2> SUFFICES ASSUME EngineInv PROVE TypeOK
    OBVIOUS
  <2>1. \A cols \in Lists : Range(cols) \subseteq Columns
    BY DEF Lists, Columns
  <2>2. \A s \in Seq(Literals) : IsRow(s)
    <3> TAKE s \in Seq(Literals)
    <3>1. s \in [1..Len(s) -> Literals] /\ DOMAIN s = 1..Len(s)
      BY LenProperties
    <3> QED BY <3>1 DEF IsRow, Range, Literals
  <2>3. \A k \in DOMAIN schema : schema[k] \in Lists
    BY DEF EngineInv, StoreInv, Lists
  <2>4. \A k \in DOMAIN data : IsRow(data[k])
    BY <2>2 DEF EngineInv, StoreInv
  <2>5. op = None \/ (op.key \in DOMAIN data /\ op.val \in Values /\ IsRow(op.cols) /\ op.index \in Nat)
    BY <2>2 DEF EngineInv, OpInv
  <2>6. \A t \in DOMAIN tables : tables[t] \in Lists
    BY DEF EngineInv, StoreInv
  <2> QED
    BY <2>1, <2>3, <2>4, <2>5, <2>6 DEF TypeOK, EngineInv, FlagsInv
<1> QED
  BY <1>1, EngineInvHolds, PTL

(* An UPDATE writes back the row it read and no other, and brings no row to  *)
(* life: whatever comes between its GET and its SET (update_executor.cpp:57) *)
(* leaves that row where it was.                                             *)
THEOREM UpdateStaysInItsRow == Spec => UpdateWritesOneRow
<1> DEFINE OneRow == op # None => /\ DOMAIN data' = DOMAIN data
                                  /\ \A k \in DOMAIN data : data'[k] # data[k] => k = op.key
<1>1. EngineInv /\ [Next]_vars => [OneRow]_vars
  <2> SUFFICES ASSUME EngineInv, Next, op # None
               PROVE  DOMAIN data' = DOMAIN data /\ \A k \in DOMAIN data : data'[k] # data[k] => k = op.key
    OBVIOUS
  <2>1. CASE Start \/ StartHeadless \/ Crash \/ LoseLink
    BY <2>1 DEF Start, StartHeadless, Crash, LoseLink, store
  <2>2. CASE Statement
    <3>1. op = None
      BY <2>2, StatementCases DEF CreateTable, Insert, UpdateGet, Delete, DeleteAll, Select, SelectAll,
                                  OtherStatement, Running
    <3> QED BY <3>1
  <2>3. CASE UpdateSet
    <3>1. op.key \in DOMAIN data
      BY DEF EngineInv, OpInv
    <3>2. data' = data \/ \E cols : data' = Put(data, op.key, cols)
      BY <2>3 DEF UpdateSet, store
    <3> QED BY <3>1, <3>2 DEF Put
  <2> QED BY <2>1, <2>2, <2>3 DEF Next
<1> QED
  BY <1>1, EngineInvHolds, PTL DEF Spec, UpdateWritesOneRow

(* What a step can do to the rows: at most one key of one table is written   *)
(* or deleted.                                                               *)
LEMMA OneKeyChanges ==
  ASSUME EngineInv, Next, data' # data
  PROVE  \E t \in Names, v \in Tokens :
           \A k : k # DataKey(t, v) => /\ k \in DOMAIN data' <=> k \in DOMAIN data
                                       /\ k \in DOMAIN data => data'[k] = data[k]
<1>1. ASSUME NEW t \in Names, NEW v \in Tokens,
             data' = Del(data, DataKey(t, v)) \/ \E row : data' = Put(data, DataKey(t, v), row)
      PROVE  \A k : k # DataKey(t, v) => /\ k \in DOMAIN data' <=> k \in DOMAIN data
                                         /\ k \in DOMAIN data => data'[k] = data[k]
  BY <1>1 DEF Del, Put
<1>2. Values \cup {"1"} \subseteq Tokens
  BY DEF Tokens
<1>3. CASE Start \/ StartHeadless \/ Crash \/ LoseLink
  BY <1>3 DEF Start, StartHeadless, Crash, LoseLink, store
<1>4. CASE UpdateSet
  <2>1. \E cols : data' = Put(data, op.key, cols)
    BY <1>4 DEF UpdateSet, store
  <2>2. \E t \in Names, q \in Values : op.key = DataKey(t, q)
    BY <1>4 DEF UpdateSet, EngineInv, OpInv
  <2> QED BY <1>1, <1>2, <2>1, <2>2
<1>5. CASE Statement
  <2>1. PICK t \in Names, q \in Values :
          \/ \E cols \in SchemaChoices[t] : CreateTable(t, cols)
          \/ \E list \in InsertLists : \E val \in [1..Len(list) -> Values] : Insert(t, list, val)
          \/ \E v \in Values : \E c : UpdateGet(t, c, v, q)
          \/ \E operator : Delete(t, operator, q)
          \/ DeleteAll(t)
          \/ \E operator, limit : Select(t, operator, q, limit)
          \/ SelectAll(t)
          \/ OtherStatement
    BY <1>5, StatementCases
  <2>2. ASSUME NEW list \in InsertLists, NEW val \in [1..Len(list) -> Values], Insert(t, list, val)
        PROVE  \E v \in Tokens : \E row : data' = Put(data, DataKey(t, v), row)
    <3>1. 1 \in 1..Len(list)
      BY ListsAssumption, EmptySeq DEF IsSeq
    <3>2. val[1] \in Tokens
      BY <1>2, <3>1
    <3>3. data' = Put(data, DataKey(t, val[1]), NewRow(t, list, val))
      BY <2>2 DEF Insert, store
    <3> QED BY <3>2, <3>3
  <2>3. CASE (\E operator : Delete(t, operator, q)) \/ DeleteAll(t)
    <3>1. \E v \in Tokens : data' = Del(data, DataKey(t, v))
      BY <1>2, <2>3 DEF Delete, DeleteAll
    <3> QED BY <1>1, <3>1
  <2>4. UNCHANGED data \/ (\E operator : Delete(t, operator, q)) \/ DeleteAll(t)
          \/ \E list \in InsertLists : \E val \in [1..Len(list) -> Values] : Insert(t, list, val)
    BY <2>1 DEF CreateTable, UpdateGet, Select, SelectAll, OtherStatement, store
  <2> QED BY <1>1, <2>2, <2>3, <2>4
<1> QED
  BY <1>3, <1>4, <1>5 DEF Next

(* No step changes the rows of two tables: a row's key is in the scans of    *)
(* its own table only, unless a name is another one followed by "_p"         *)
(* (insert_executor.cpp:60, select_executor.cpp:83).                         *)
THEOREM TablesAreApart ==
  ASSUME NamesApart
  PROVE  Spec => OneTableAtATime
<1> DEFINE OneTable == \A t, u \in Names :
                         RowsOf(t)' # RowsOf(t) /\ RowsOf(u)' # RowsOf(u) => t = u
<1>1. EngineInv /\ [Next]_vars => [OneTable]_vars
  <2> SUFFICES ASSUME EngineInv, Next PROVE OneTable
    OBVIOUS
  <2>1. CASE data' = data
    BY <2>1 DEF RowsOf
  <2>2. CASE data' # data
    <3>1. PICK o \in Names, v \in Tokens :
            \A k : k # DataKey(o, v) => /\ k \in DOMAIN data' <=> k \in DOMAIN data
                                        /\ k \in DOMAIN data => data'[k] = data[k]
      BY <2>2, OneKeyChanges
    <3>2. ASSUME NEW t \in Names, t # o PROVE RowsOf(t)' = RowsOf(t)
      <4> DEFINE p == DataPrefix(t)
      <4>1. ~(Len(DataKey(o, v)) > Len(p) /\ IsPrefix(p, DataKey(o, v)))
        BY <3>2, KeyOfOneTable
      <4>2. Scan(DOMAIN data', p) = Scan(DOMAIN data, p)
        BY <3>1, <4>1 DEF Scan
      <4>3. \A k \in Scan(DOMAIN data, p) : data'[k] = data[k]
        BY <3>1, <4>1 DEF Scan
      <4> QED BY <4>2, <4>3 DEF RowsOf
    <3> QED BY <3>2
  <2> QED BY <2>1, <2>2
<1> QED
  BY <1>1, EngineInvHolds, PTL DEF Spec, OneTableAtATime

(* Only Start and CREATE TABLE change the catalog of a server that runs on. *)
LEMMA CatalogSteps ==
  ASSUME [Next]_vars
  PROVE  \/ UNCHANGED <<tables, schema>> /\ (server' = "up" /\ link' => server = "up" /\ link)
                                        /\ (server' = "up" => server = "up")
         \/ server' # "up"
         \/ Start
         \/ \E t \in Names : \E cols \in SchemaChoices[t] : CreateTable(t, cols)
<1>1. CASE StartHeadless \/ Crash \/ LoseLink \/ UpdateSet \/ UNCHANGED vars
  BY <1>1 DEF StartHeadless, Crash, Crashed, LoseLink, UpdateSet, Answer, store, vars
<1>2. CASE Statement /\ ~(\E t \in Names : \E cols \in SchemaChoices[t] : CreateTable(t, cols))
  <2>1. UNCHANGED <<tables, schema, server, link>> \/ Crashed
    <3>1. ASSUME NEW t, \/ \E list, val : Insert(t, list, val)
                        \/ \E c, v, q : UpdateGet(t, c, v, q)
          PROVE  UNCHANGED <<tables, schema, server, link>> \/ Crashed
      BY <3>1 DEF Insert, UpdateGet, Answer, store
    <3>2. ASSUME NEW t, (\E operator, q : Delete(t, operator, q)) \/ DeleteAll(t) \/ OtherStatement
          PROVE  UNCHANGED <<tables, schema, server, link>> \/ Crashed
      BY <3>2 DEF Delete, DeleteAll, OtherStatement, Answer, store
    <3>3. ASSUME NEW t, (\E operator, q, limit : Select(t, operator, q, limit)) \/ SelectAll(t)
          PROVE  UNCHANGED <<tables, schema, server, link>> \/ Crashed
      BY <3>3 DEF Select, SelectAll, Answer, store
    <3> QED
      BY <1>2, <3>1, <3>2, <3>3, StatementCases
  <2> QED BY <2>1 DEF Crashed
<1> QED
  BY <1>1, <1>2 DEF Next

-----------------------------------------------------------------------------
(* CatalogAgrees is inductive with EngineInv: a stored list is replaced only *)
(* by the same list.                                                         *)
LEMMA CatalogStep ==
  ASSUME \A t \in Names : \A c, d \in SchemaChoices[t] : c = d,
         EngineInv, CatalogAgrees, [Next]_vars
  PROVE  CatalogAgrees'
<1>1. CASE UNCHANGED <<tables, schema>> /\ (server' = "up" /\ link' => server = "up" /\ link)
  BY <1>1 DEF CatalogAgrees
<1>2. CASE server' # "up"
  BY <1>2 DEF CatalogAgrees
<1>3. CASE Start
  <2> DEFINE keys == Scan(DOMAIN schema, <<"table", DB>>)
             names == {<<Last(k)>> : k \in keys}
  <2>1. PICK from \in [names -> keys] : /\ \A n \in names : Last(from[n]) = Last(n)
                                        /\ tables' = [n \in names |-> schema[from[n]]]
    BY <1>3 DEF Start, RecoverFromPmemKV
  <2>2. keys \subseteq DOMAIN schema
    BY DEF Scan
  <2> HIDE DEF keys, names
  <2> QED
    BY <1>3, <2>1, <2>2 DEF CatalogAgrees, Start, store
<1>4. CASE \E t \in Names : \E cols \in SchemaChoices[t] : CreateTable(t, cols)
  <2>0. PICK t \in Names : \E cols \in SchemaChoices[t] : CreateTable(t, cols)
    BY <1>4
  <2>1. PICK cols \in SchemaChoices[t] : CreateTable(t, cols)
    BY <2>0
  <2>2. "1" \in Tokens
    BY DEF Tokens
  <2>3. Last(SchemaKey(t)) = Last(t)
    BY <2>2, KeyTokens
  <2>4. CASE link
    <3>1. /\ server = "up" /\ schema' = Put(schema, SchemaKey(t), cols)
          /\ tables' = IF HasTable(t) THEN tables ELSE Put(tables, t, cols)
      BY <2>1, <2>4 DEF CreateTable, MakeTable, Running
    <3>2. ASSUME NEW u \in DOMAIN tables
          PROVE  \E k \in DOMAIN schema' : Last(k) = Last(u) /\ schema'[k] = tables[u]
      <4>1. PICK k \in DOMAIN schema : Last(k) = Last(u) /\ schema[k] = tables[u]
        BY <2>4, <3>1 DEF CatalogAgrees
      <4>2. k = SchemaKey(t) => schema[k] = cols
        BY SchemaKeysDiffer DEF EngineInv, StoreInv
      <4>3. k \in DOMAIN schema' /\ schema'[k] = schema[k]
        BY <3>1, <4>2 DEF Put
      <4> QED BY <4>1, <4>3
    <3>3. SchemaKey(t) \in DOMAIN schema' /\ schema'[SchemaKey(t)] = cols
      BY <3>1 DEF Put
    <3>4. \A u \in DOMAIN tables' : \/ u \in DOMAIN tables /\ tables'[u] = tables[u]
                                    \/ u = t /\ tables'[u] = cols
      BY <3>1 DEF Put, HasTable
    <3> QED
      BY <2>3, <3>2, <3>3, <3>4 DEF CatalogAgrees
  <2>5. CASE ~link
    BY <2>1, <2>5 DEF CatalogAgrees, CreateTable, Answer
  <2> QED BY <2>4, <2>5
<1> QED
  BY <1>1, <1>2, <1>3, <1>4, CatalogSteps

(* While the storage connection lasts, every table the server knows is       *)
(* stored with the columns that the server uses, if a name is always created *)
(* with the same list of columns (database.cc:38-46).                        *)
THEOREM CatalogIsStored ==
  ASSUME \A t \in Names : \A c, d \in SchemaChoices[t] : c = d
  PROVE  Spec => []CatalogAgrees
<1>1. Init => CatalogAgrees
  BY DEF Init, CatalogAgrees
<1>2. EngineInv /\ CatalogAgrees /\ [Next]_vars => CatalogAgrees'
  BY CatalogStep
<1> QED
  BY <1>1, <1>2, EngineInvHolds, PTL DEF Spec

-----------------------------------------------------------------------------
(* What README.md:12 says of persistence, and what it takes: engine_restart  *)
(* and engine_ack show that without it the two properties fail.              *)

(* The scan of a restart finds the key of every stored table. *)
LEMMA ScanFindsTable ==
  ASSUME NEW t \in Names
  PROVE  Len(SchemaKey(t)) > Len(<<"table", DB>>) /\ IsPrefix(<<"table", DB>>, SchemaKey(t))
<1> DEFINE a == <<"table", DB>>
<1>1. a \in Seq(Tokens) /\ Len(a) = 2 /\ "1" \in Tokens
  <2>1. {"table", DB, "1"} \subseteq Tokens
    BY DEF Tokens
  <2> HIDE DEF Tokens
  <2> QED BY <2>1
<1>2. SchemaKey(t) = a \o t
  BY DEF SchemaKey
<1>3. t \in Seq(Tokens) /\ Len(t) \in Nat \ {0}
  BY <1>1, KeyTokens
<1> HIDE DEF a
<1>4. /\ a \o t \in Seq(Tokens) /\ Len(a \o t) = Len(a) + Len(t)
      /\ \A i \in 1..Len(a) : (a \o t)[i] = a[i]
  BY <1>1, <1>3, ConcatAt
<1> DEFINE at == a \o t
<1>5. /\ at \in Seq(Tokens) /\ Len(at) > Len(a) /\ Len(a) <= Len(at)
      /\ \A i \in 1..Len(a) : at[i] = a[i]
  BY <1>1, <1>3, <1>4
<1> HIDE DEF at
<1>6. IsPrefix(a, at)
  BY <1>1, <1>5, PrefixAt
<1> QED BY <1>2, <1>5, <1>6 DEF a, at

(* The last token of the key, which a restart takes for the name, is the name *)
(* if that has one token.                                                     *)
LEMMA LastToken ==
  ASSUME NEW t \in Names, Len(t) = 1
  PROVE  <<Last(SchemaKey(t))>> = t /\ Last(t) = Last(SchemaKey(t))
<1>1. "1" \in Tokens
  BY DEF Tokens
<1>2. t \in Seq(Tokens) /\ Last(SchemaKey(t)) = Last(t)
  BY <1>1, KeyTokens
<1>3. t = <<t[1]>>
  BY <1>2
<1> QED BY <1>2, <1>3 DEF Last

(* If no name contains "_", a table that is stored is there for the           *)
(* statements of every server that runs, after any number of restarts, crashes *)
(* and lost connections, whichever of several keys RecoverFromPmemKV scans     *)
(* first and whatever columns a table is created with (database.cc:68-91).     *)
THEOREM OneTokenTablesStayUsable ==
  ASSUME \A t \in Names : Len(t) = 1
  PROVE  Spec => []StoredTablesAreUsable
<1>1. Init => StoredTablesAreUsable
  BY DEF Init, StoredTablesAreUsable
<1>2. ASSUME StoredTablesAreUsable, [Next]_vars PROVE StoredTablesAreUsable'
  <2>1. CASE UNCHANGED <<tables, schema>> /\ (server' = "up" => server = "up")
    BY <1>2, <2>1 DEF StoredTablesAreUsable, HasTable
  <2>2. CASE server' # "up"
    BY <2>2 DEF StoredTablesAreUsable
  <2>3. CASE Start
    <3> DEFINE keys == Scan(DOMAIN schema, <<"table", DB>>)
               names == {<<Last(k)>> : k \in keys}
    <3>1. DOMAIN tables' = names /\ schema' = schema
      BY <2>3 DEF Start, RecoverFromPmemKV, store
    <3>2. ASSUME NEW t \in Names, SchemaKey(t) \in DOMAIN schema PROVE t \in names
      <4>1. SchemaKey(t) \in keys
        BY <3>2, ScanFindsTable DEF Scan
      <4>2. <<Last(SchemaKey(t))>> = t
        BY LastToken
      <4> HIDE DEF keys
      <4> QED BY <4>1, <4>2
    <3> HIDE DEF names
    <3> QED BY <3>1, <3>2 DEF StoredTablesAreUsable, HasTable
  <2>4. ASSUME NEW t \in Names, NEW cols \in SchemaChoices[t], CreateTable(t, cols)
        PROVE  StoredTablesAreUsable'
    <3>1. /\ server = "up"
          /\ tables' = IF HasTable(t) THEN tables ELSE Put(tables, t, cols)
          /\ schema' = IF link THEN Put(schema, SchemaKey(t), cols) ELSE schema
      BY <2>4 DEF CreateTable, MakeTable, Running
    <3>2. DOMAIN tables' = DOMAIN tables \cup {t}
      BY <3>1 DEF Put, HasTable
    <3>3. DOMAIN schema' \subseteq DOMAIN schema \cup {SchemaKey(t)}
      BY <3>1 DEF Put
    <3>4. \A u \in Names : SchemaKey(u) = SchemaKey(t) => u = t
      BY SchemaKeysDiffer
    <3> QED
      BY <1>2, <3>1, <3>2, <3>3, <3>4 DEF StoredTablesAreUsable, HasTable
  <2> QED
    BY <1>2, <2>1, <2>2, <2>3, <2>4, CatalogSteps
<1> QED
  BY <1>1, <1>2, PTL DEF Spec

(* A running server has its storage connection, unless that was lost. *)
LinkInv == server = "up" => link

(* If the storage connection is never lost while in use, an INSERT that is    *)
(* answered OK has stored its row under its key (insert_executor.cpp:55-75),   *)
(* whatever columns it lists.                                                  *)
THEOREM AckedInsertsAreStored ==
  ASSUME ~LinkMayFail
  PROVE  Spec => AckedInsertIsStored
<1>1. Init => LinkInv
  BY DEF Init, LinkInv
<1>2. ASSUME LinkInv, [Next]_vars PROVE LinkInv'
  <2>1. CASE Start \/ Crash \/ UpdateSet \/ UNCHANGED vars
    BY <1>2, <2>1 DEF LinkInv, Start, Crash, Crashed, UpdateSet, Answer, vars
  <2>2. CASE StartHeadless \/ LoseLink
    BY <2>2 DEF StartHeadless, LoseLink
  <2>3. CASE Statement
    <3>1. ASSUME NEW t, \/ \E cols : CreateTable(t, cols)
                        \/ \E list, val : Insert(t, list, val)
                        \/ \E c, v, q : UpdateGet(t, c, v, q)
          PROVE  UNCHANGED <<server, link>> \/ Crashed
      BY <3>1 DEF CreateTable, Insert, UpdateGet, Answer
    <3>2. ASSUME NEW t, (\E operator, q : Delete(t, operator, q)) \/ DeleteAll(t) \/ OtherStatement
          PROVE  UNCHANGED <<server, link>> \/ Crashed
      BY <3>2 DEF Delete, DeleteAll, OtherStatement, Answer
    <3>3. ASSUME NEW t, (\E operator, q, limit : Select(t, operator, q, limit)) \/ SelectAll(t)
          PROVE  UNCHANGED <<server, link>> \/ Crashed
      BY <3>3 DEF Select, SelectAll, Answer
    <3>4. UNCHANGED <<server, link>> \/ Crashed
      BY <2>3, <3>1, <3>2, <3>3, StatementCases
    <3> QED BY <1>2, <3>4 DEF LinkInv, Crashed
  <2> QED
    BY <1>2, <2>1, <2>2, <2>3 DEF Next
<1>3. ASSUME LinkInv, NEW t \in Names, NEW list \in InsertLists,
             NEW val \in [1..Len(list) -> Values],
             Insert(t, list, val), Acked("insert")'
      PROVE  DataKey(t, val[1]) \in DOMAIN data'
  <2>1. server = "up" /\ link
    BY <1>3 DEF Insert, Running, LinkInv
  <2>2. reply' # Error /\ reply' # None
    BY <1>3 DEF Acked, Error, None
  <2>3. data' = Put(data, DataKey(t, val[1]), NewRow(t, list, val))
    BY <1>3, <2>1, <2>2 DEF Insert, Answer, Crashed
  <2> QED BY <2>3 DEF Put
<1>4. LinkInv /\ [Next]_vars =>
        [\A t \in Names, list \in InsertLists : \A val \in [1..Len(list) -> Values] :
           Insert(t, list, val) /\ Acked("insert")' => DataKey(t, val[1]) \in DOMAIN data']_vars
  BY <1>3
<1> QED
  BY <1>1, <1>2, <1>4, PTL DEF Spec, AckedInsertIsStored

-----------------------------------------------------------------------------
(***************************************************************************)
(* SqlEngine implements TableStore when it is put to plain use, for every  *)
(* set of tables, columns and literals and any number of rows.             *)
(***************************************************************************)

(* A table is created with one list of different columns, and every INSERT   *)
(* lists all of them, with the first one first.                              *)
FullLists ==
  \A t \in Names : \A cols \in SchemaChoices[t] :
    /\ \A other \in SchemaChoices[t] : other = cols
    /\ \A i, j \in 1..Len(cols) : cols[i] = cols[j] => i = j
    /\ \A list \in InsertLists :
         /\ Len(list) = Len(cols) /\ list[1] = cols[1] /\ Range(list) = Range(cols)
         /\ \A i, j \in 1..Len(list) : list[i] = list[j] => i = j

(* When a client can rely on the tables: full lists, a storage connection    *)
(* that lasts, no "_" in a table's name, and no empty literal.               *)
PlainUse ==
  /\ FullLists
  /\ ~LinkMayFail
  /\ \A t \in Names : Len(t) = 1
  /\ "" \notin Values

(* The tables as they are stored, and the rows by table and key. *)
Stored == [t \in StoredTables |-> schema[SchemaKey(t)]]
Held(t) == {v \in Values : DataKey(t, v) \in DOMAIN data}
View == [t \in Names |-> [v \in Held(t) |-> data[DataKey(t, v)]]]

(* A running server knows the stored tables; every row belongs to one of     *)
(* them and is complete; an UPDATE holds the row as it is stored.            *)
TablesInv ==
  /\ server \in {"down", "up"} /\ (server = "up" => link /\ tables = Stored)
  /\ IsFiniteSet(DOMAIN data)
  /\ \A k \in DOMAIN data : \E t \in StoredTables, v \in Values :
       k = DataKey(t, v) /\ data[k] \in [1..Len(Stored[t]) -> Values]
  /\ op # None =>
       /\ server = "up" /\ op.cols = data[op.key]
       /\ \E t \in StoredTables, v \in Values :
            op.key = DataKey(t, v) /\ op.index \in 1..Len(Stored[t])

(* Keys under short names. *)
LEMMA PlainKeys ==
  ASSUME PlainUse, NEW t \in Names, NEW u \in Names, NEW v \in Tokens, NEW w \in Tokens
  PROVE  /\ DataKey(t, v) = DataKey(u, w) => t = u /\ v = w
         /\ (Len(DataKey(u, w)) > Len(DataPrefix(t)) /\ IsPrefix(DataPrefix(t), DataKey(u, w))) <=> t = u
         /\ KeyOf(t, DataKey(t, v)) = v /\ Last(DataKey(t, v)) = v
<1>1. NamesApart
  <2> SUFFICES ASSUME NEW x \in Names, NEW y \in Names, IsPrefix(x \o <<"p">>, y) PROVE FALSE
    BY DEF NamesApart
  <2>1. x \in Seq(Tokens) /\ y \in Seq(Tokens) /\ Len(x) = 1 /\ Len(y) = 1
    BY NameType DEF PlainUse
  <2> DEFINE one == <<"p">>
  <2>2. one \in Seq(Tokens) /\ Len(one) = 1
    <3>1. "p" \in Tokens
      BY DEF Tokens
    <3> QED BY <3>1
  <2> HIDE DEF one
  <2>3. x \o one \in Seq(Tokens) /\ Len(x \o one) = 2
    BY <2>1, <2>2, ConcatAt
  <2>4. IsPrefix(x \o one, y)
    BY DEF one
  <2> DEFINE xp == x \o one
  <2>5. xp \in Seq(Tokens) /\ Len(xp) = 2 /\ IsPrefix(xp, y)
    BY <2>3, <2>4
  <2> HIDE DEF xp
  <2>6. Len(xp) <= Len(y)
    BY <2>1, <2>5, PrefixAt
  <2> QED BY <2>1, <2>5, <2>6
<1>2. /\ Len(t) = 1 /\ Len(u) = 1 /\ t \in Seq(Tokens) /\ u \in Seq(Tokens)
      /\ DataKey(t, v)[3] = t[1] /\ DataKey(u, w)[3] = u[1]
      /\ DataKey(t, v)[5] = v /\ DataKey(u, w)[5] = w
      /\ Len(DataKey(t, v)) = 5 /\ Len(DataKey(u, w)) = 5 /\ Len(DataPrefix(t)) = 4
  <2>1. Len(t) = 1 /\ Len(u) = 1
    BY DEF PlainUse
  <2>2. /\ t \in Seq(Tokens) /\ \A i \in 1..Len(t) : DataKey(t, v)[i + 2] = t[i]
        /\ DataKey(t, v)[Len(t) + 4] = v /\ Len(DataKey(t, v)) = Len(t) + 4
        /\ Len(DataPrefix(t)) = Len(t) + 3
    BY KeyTokens
  <2>3. /\ u \in Seq(Tokens) /\ \A i \in 1..Len(u) : DataKey(u, w)[i + 2] = u[i]
        /\ DataKey(u, w)[Len(u) + 4] = w /\ Len(DataKey(u, w)) = Len(u) + 4
    BY KeyTokens
  <2> QED
    BY <2>1, <2>2, <2>3
<1>3. DataKey(t, v) = DataKey(u, w) => t = u /\ v = w
  <2> SUFFICES ASSUME DataKey(t, v) = DataKey(u, w) PROVE t = u /\ v = w
    OBVIOUS
  <2>1. t[1] = u[1] /\ v = w
    BY <1>2
  <2>2. \A i \in 1..Len(t) : t[i] = u[i]
    BY <1>2, <2>1
  <2> QED BY <1>2, <2>1, <2>2, SeqEqual
<1>4. Len(DataKey(t, w)) > Len(DataPrefix(t)) /\ IsPrefix(DataPrefix(t), DataKey(t, w))
  <2> DEFINE p == DataPrefix(t)
             k == DataKey(t, w)
             one == <<w>>
  <2>1. /\ p \in Seq(Tokens) /\ k \in Seq(Tokens) /\ Len(p) = Len(t) + 3 /\ Len(k) = Len(t) + 4
    BY KeyTokens
  <2>2. one \in Seq(Tokens)
    OBVIOUS
  <2>3. k = p \o one
    BY DEF DataKey
  <2> HIDE DEF p, k, one
  <2>4. \A i \in 1..Len(p) : k[i] = p[i]
    BY <2>1, <2>2, <2>3, ConcatAt
  <2>5. Len(p) = 4 /\ Len(k) = 5
    BY <1>2, <2>1
  <2>6. IsPrefix(p, k)
    BY <2>1, <2>4, <2>5, PrefixAt
  <2> QED BY <2>5, <2>6 DEF p, k
<1>5. KeyOf(t, DataKey(t, v)) = v /\ Last(DataKey(t, v)) = v
  BY <1>2 DEF KeyOf, Last
<1> QED
  BY <1>1, <1>3, <1>4, <1>5, KeyOfOneTable

(* A row of n values is a sequence of them. *)
LEMMA RowLength ==
  ASSUME NEW n \in Nat, NEW row \in [1..n -> Values]
  PROVE  row \in Seq(Values) /\ Len(row) = n /\ (row # <<>> => Last(row) \in Values)
<1>1. row \in Seq(Values)
  BY SeqDef
<1>2. DOMAIN row = 1..n /\ DOMAIN row = 1..Len(row) /\ Len(row) \in Nat
  BY <1>1, LenProperties
<1>3. Len(row) = n
  BY <1>2
<1>4. row # <<>> => Len(row) \in Nat \ {0}
  BY <1>1, EmptySeq
<1>5. row # <<>> => Len(row) \in 1..n
  BY <1>3, <1>4
<1> QED
  BY <1>1, <1>3, <1>5 DEF Last

(* A row without empty values survives StringSplit. *)
LEMMA SplitPlain ==
  ASSUME "" \notin Values, NEW n \in Nat, NEW row \in [1..n -> Values]
  PROVE  StringSplit(row) = row
BY RowLength DEF StringSplit

(* What is stored of a table. *)
LEMMA StoredList ==
  ASSUME EngineInv, NEW t \in StoredTables
  PROVE  /\ t \in Names /\ Stored[t] \in SchemaChoices[t] /\ Stored[t] = schema[SchemaKey(t)]
         /\ Len(Stored[t]) \in Nat
<1>1. t \in Names /\ SchemaKey(t) \in DOMAIN schema /\ Stored[t] = schema[SchemaKey(t)]
  BY DEF StoredTables, Stored
<1>2. \E u \in Names : SchemaKey(t) = SchemaKey(u) /\ schema[SchemaKey(t)] \in SchemaChoices[u]
  BY <1>1 DEF EngineInv, StoreInv
<1>3. Stored[t] \in SchemaChoices[t]
  BY <1>1, <1>2, SchemaKeysDiffer
<1>4. IsSeq(Stored[t])
  BY <1>1, <1>3, ListsAssumption DEF Names
<1> QED
  BY <1>1, <1>3, <1>4, LenProperties DEF IsSeq

(* The keys of a table, and the refinement mapping in plain words. *)
LEMMA ViewIs ==
  ASSUME PlainUse
  PROVE  EngineInv /\ TablesInv =>
           /\ Catalog = Stored /\ Contents = View
           /\ \A t \in Names : Scan(DOMAIN data, DataPrefix(t)) = {DataKey(t, v) : v \in Held(t)}
<1> SUFFICES ASSUME EngineInv, TablesInv
             PROVE  /\ Catalog = Stored /\ Contents = View
                    /\ \A t \in Names :
                         Scan(DOMAIN data, DataPrefix(t)) = {DataKey(t, v) : v \in Held(t)}
  OBVIOUS
<1>1. Catalog = Stored
  BY DEF Catalog, TablesInv, Stored
<1>2. Values \subseteq Tokens
  BY DEF Tokens
<1>3. \A k \in DOMAIN data : \E u \in Names, w \in Values : k = DataKey(u, w)
  BY DEF TablesInv, StoredTables
<1>4. ASSUME NEW t \in Names
      PROVE  Scan(DOMAIN data, DataPrefix(t)) = {DataKey(t, v) : v \in Held(t)}
  <2>1. ASSUME NEW k \in DOMAIN data, Len(k) > Len(DataPrefix(t)), IsPrefix(DataPrefix(t), k)
        PROVE  \E v \in Held(t) : k = DataKey(t, v)
    <3>1. PICK u \in Names, w \in Values : k = DataKey(u, w)
      BY <1>3
    <3>2. t = u
      BY <1>2, <2>1, <3>1, PlainKeys
    <3> QED BY <3>1, <3>2 DEF Held
  <2>2. ASSUME NEW v \in Held(t)
        PROVE  /\ DataKey(t, v) \in DOMAIN data /\ Len(DataKey(t, v)) > Len(DataPrefix(t))
               /\ IsPrefix(DataPrefix(t), DataKey(t, v))
    <3>1. v \in Values /\ DataKey(t, v) \in DOMAIN data
      BY DEF Held
    <3> QED BY <1>2, <3>1, PlainKeys
  <2> QED BY <2>1, <2>2 DEF Scan
<1>5. ASSUME NEW t \in Names
      PROVE  RowsByKey(t) = [v \in Held(t) |-> data[DataKey(t, v)]]
  <2>1. {KeyOf(t, k) : k \in DOMAIN RowsOf(t)} = Held(t)
    <3>1. DOMAIN RowsOf(t) = {DataKey(t, v) : v \in Held(t)}
      BY <1>4 DEF RowsOf
    <3>2. \A v \in Held(t) : KeyOf(t, DataKey(t, v)) = v
      BY <1>2, PlainKeys DEF Held
    <3> QED BY <3>1, <3>2
  <2>2. ASSUME NEW v \in Held(t) PROVE StringSplit(data[DataKey(t, v)]) = data[DataKey(t, v)]
    <3>1. PICK u \in StoredTables : data[DataKey(t, v)] \in [1..Len(Stored[u]) -> Values]
      BY DEF Held, TablesInv
    <3>2. Len(Stored[u]) \in Nat
      BY StoredList
    <3> QED BY <3>1, <3>2, SplitPlain DEF PlainUse
  <2> QED BY <2>1, <2>2 DEF RowsByKey
<1>6. Contents = View
  BY <1>5 DEF Contents, View
<1> QED
  BY <1>1, <1>4, <1>6

(* Writing or deleting one key does so in one table. *)
LEMMA ViewSteps ==
  ASSUME PlainUse, NEW t \in Names, NEW v \in Values
  PROVE  /\ \A row : data' = Put(data, DataKey(t, v), row) =>
                     View' = [View EXCEPT ![t] = Tables!With(@, v, row)]
         /\ data' = Del(data, DataKey(t, v)) => View' = [View EXCEPT ![t] = Tables!Without(@, v)]
         /\ data' = data => View' = View
<1>1. Values \subseteq Tokens
  BY DEF Tokens
<1>2. \A u \in Names, w \in Values : DataKey(u, w) = DataKey(t, v) => u = t /\ w = v
  BY <1>1, PlainKeys
<1>3. ASSUME NEW row, data' = Put(data, DataKey(t, v), row)
      PROVE  View' = [View EXCEPT ![t] = Tables!With(@, v, row)]
  <2>1. \A u \in Names : Held(u)' = IF u = t THEN Held(u) \cup {v} ELSE Held(u)
    BY <1>2, <1>3 DEF Held, Put
  <2>2. \A u \in Names : \A w \in Held(u)' :
          data'[DataKey(u, w)] = IF u = t /\ w = v THEN row ELSE data[DataKey(u, w)]
    BY <1>2, <1>3 DEF Held, Put
  <2>3. [w \in Held(t)' |-> data'[DataKey(t, w)]] = Tables!With(View[t], v, row)
    BY <2>1, <2>2 DEF View, Tables!With
  <2>4. \A u \in Names \ {t} : [w \in Held(u)' |-> data'[DataKey(u, w)]] = View[u]
    BY <2>1, <2>2 DEF View
  <2>5. View' = [u \in Names |-> [w \in Held(u)' |-> data'[DataKey(u, w)]]]
    BY DEF View
  <2>6. DOMAIN View = Names /\ View = [u \in Names |-> View[u]]
    BY DEF View
  <2> QED BY <2>3, <2>4, <2>5, <2>6
<1>4. ASSUME data' = Del(data, DataKey(t, v))
      PROVE  View' = [View EXCEPT ![t] = Tables!Without(@, v)]
  <2>1. \A u \in Names : Held(u)' = IF u = t THEN Held(u) \ {v} ELSE Held(u)
    BY <1>2, <1>4 DEF Held, Del
  <2>2. \A u \in Names : \A w \in Held(u)' : data'[DataKey(u, w)] = data[DataKey(u, w)]
    BY <1>4 DEF Held, Del
  <2>3. [w \in Held(t)' |-> data'[DataKey(t, w)]] = Tables!Without(View[t], v)
    BY <2>1, <2>2 DEF View, Tables!Without
  <2>4. \A u \in Names \ {t} : [w \in Held(u)' |-> data'[DataKey(u, w)]] = View[u]
    BY <2>1, <2>2 DEF View
  <2>5. View' = [u \in Names |-> [w \in Held(u)' |-> data'[DataKey(u, w)]]]
    BY DEF View
  <2>6. DOMAIN View = Names /\ View = [u \in Names |-> View[u]]
    BY DEF View
  <2> QED BY <2>3, <2>4, <2>5, <2>6
<1>5. data' = data => View' = View
  BY DEF View, Held
<1> QED
  BY <1>3, <1>4, <1>5

(* With different columns, a column's index is its position. *)
LEMMA ColIndexIs ==
  ASSUME NEW t, Len(tables[t]) \in Nat,
         \A i, j \in 1..Len(tables[t]) : tables[t][i] = tables[t][j] => i = j,
         NEW p \in 1..Len(tables[t])
  PROVE  GetColIndex(t, tables[t][p]) = p
<1> DEFINE cols == tables[t]
<1>1. cols[p] = cols[p] /\ \A j \in (p + 1)..Len(cols) : cols[j] # cols[p]
  OBVIOUS
<1>2. \A i \in 1..Len(cols) : cols[i] = cols[p] => i = p
  OBVIOUS
<1>3. (CHOOSE i \in 1..Len(cols) : cols[i] = cols[p] /\ \A j \in (i + 1)..Len(cols) : cols[j] # cols[p]) = p
  <2> HIDE DEF cols
  <2> QED BY <1>1, <1>2
<1> QED
  BY <1>3 DEF GetColIndex

(* A full INSERT stores a complete row, found under its first value. *)
LEMMA FullRow ==
  ASSUME PlainUse, NEW t \in Names, tables[t] \in SchemaChoices[t],
         NEW list \in InsertLists, NEW val \in [1..Len(list) -> Values]
  PROVE  /\ NewRow(t, list, val) \in [1..Len(tables[t]) -> Values]
         /\ 1 \in 1..Len(list) /\ NewRow(t, list, val)[1] = val[1] /\ val[1] \in Values
         /\ \A i \in 1..Len(list) : GetColIndex(t, list[i]) \in 1..RowSize(list)
<1> DEFINE cols == tables[t]
           n == Len(list)
           at(i) == GetColIndex(t, list[i])
           pick(p) == CHOOSE i \in 1..n : at(i) = p /\ \A j \in (i + 1)..n : at(j) # p
<1>1. n \in Nat \ {0} /\ Len(cols) = n /\ DOMAIN list = 1..n /\ DOMAIN cols = 1..n
  <2>1. IsSeq(list) /\ list # <<>> /\ IsSeq(cols) /\ Len(cols) = n
    BY ListsAssumption DEF PlainUse, FullLists, Names
  <2> HIDE DEF cols
  <2> QED BY <2>1, EmptySeq, LenProperties DEF IsSeq
<1>2. /\ \A i, j \in 1..n : cols[i] = cols[j] => i = j
      /\ \A i, j \in 1..n : list[i] = list[j] => i = j
      /\ list[1] = cols[1] /\ Range(list) = Range(cols)
  <2>1. FullLists
    BY DEF PlainUse
  <2>2. Len(cols) = Len(list)
    BY <1>1
  <2> QED BY <2>1, <2>2 DEF FullLists
<1>3. \A i \in 1..n : \E p \in 1..n : list[i] = cols[p]
  BY <1>1, <1>2 DEF Range
<1>4. \A p \in 1..n : \E i \in 1..n : list[i] = cols[p]
  <2>1. \A p \in 1..n : cols[p] \in Range(cols)
    BY <1>1 DEF Range
  <2>2. \A x \in Range(list) : \E i \in 1..n : list[i] = x
    BY <1>1 DEF Range
  <2> QED BY <1>2, <2>1, <2>2
<1>5. \A p \in 1..n : GetColIndex(t, cols[p]) = p
  BY <1>1, <1>2, ColIndexIs
<1>6. \A i \in 1..n : at(i) \in 1..n
  BY <1>3, <1>5
<1>7. \A p \in 1..n : \E i \in 1..n : at(i) = p
  BY <1>4, <1>5
<1>8. \A i \in 1..n : list[i] = cols[at(i)]
  BY <1>3, <1>5
<1>9. NewRow(t, list, val) = [p \in 1..n |-> IF \E i \in 1..n : at(i) = p THEN val[pick(p)] ELSE ""]
  BY DEF NewRow, RowSize
<1> HIDE DEF at
<1>10. ASSUME NEW p \in 1..n PROVE pick(p) \in 1..n /\ at(pick(p)) = p
  <2> DEFINE T == {i \in 1..n : at(i) = p}
  <2>1. T \in SUBSET (1..n) /\ T # {}
    BY <1>7
  <2>2. \E i \in T : \A j \in (i + 1)..n : j \notin T
    BY <1>1, <2>1, LastIndex
  <2>3. \E i \in 1..n : at(i) = p /\ \A j \in (i + 1)..n : at(j) # p
    BY <1>1, <2>2
  <2> QED BY <2>3
<1> HIDE DEF pick
<1>11. NewRow(t, list, val) = [p \in 1..n |-> val[pick(p)]]
  BY <1>7, <1>9
<1>12. NewRow(t, list, val) \in [1..n -> Values]
  BY <1>10, <1>11
<1>13. 1 \in 1..n
  BY <1>1
<1>14. pick(1) = 1
  <2>1. pick(1) \in 1..n /\ list[pick(1)] = cols[1]
    BY <1>8, <1>10, <1>13
  <2> QED BY <1>2, <1>13, <2>1
<1>15. NewRow(t, list, val)[1] = val[1] /\ val[1] \in Values
  BY <1>11, <1>13, <1>14
<1> QED
  BY <1>1, <1>6, <1>12, <1>13, <1>15 DEF RowSize, at

(* Steps that leave the store alone. *)
LEMMA SameStore ==
  ASSUME UNCHANGED store
  PROVE  /\ StoredTables' = StoredTables /\ Stored' = Stored /\ View' = View
         /\ data' = data /\ schema' = schema
BY DEF store, StoredTables, Stored, View, Held

(* The invariant holds of an empty store, which the mapping shows as such. *)
LEMMA TablesInit ==
  ASSUME Init
  PROVE  TablesInv /\ Tables!SInit
<1>1. DOMAIN data = {} /\ DOMAIN schema = {} /\ StoredTables = {}
  BY DEF Init, StoredTables
<1>2. TablesInv
  BY <1>1, FS_EmptySet DEF Init, TablesInv
<1>3. Catalog = <<>>
  BY <1>1 DEF Catalog, Init
<1>4. \A t \in Names : RowsByKey(t) = <<>>
  BY <1>1 DEF RowsByKey, RowsOf, Scan
<1>5. Contents = [t \in Names |-> <<>>]
  BY <1>4 DEF Contents
<1> QED
  BY <1>2, <1>3, <1>5 DEF Tables!SInit, Tables!TableNames, Names, Init, None

(* A restart finds the stored tables again. *)
LEMMA StartTables ==
  ASSUME PlainUse, EngineInv, TablesInv, Start
  PROVE  TablesInv' /\ Stored' = Stored /\ View' = View
<1> DEFINE keys == Scan(DOMAIN schema, <<"table", DB>>)
           names == {<<Last(k)>> : k \in keys}
<1>1. PICK from \in [names -> keys] : /\ \A n \in names : Last(from[n]) = Last(n)
                                      /\ tables' = [n \in names |-> schema[from[n]]]
  BY DEF Start, RecoverFromPmemKV
<1>2. \A t \in Names : <<Last(SchemaKey(t))>> = t /\ Last(t) = Last(SchemaKey(t))
  BY LastToken DEF PlainUse
<1>3. DOMAIN schema = {SchemaKey(t) : t \in StoredTables}
  BY DEF EngineInv, StoreInv, StoredTables
<1>4. keys = DOMAIN schema
  BY <1>3, ScanFindsTable DEF Scan, StoredTables
<1>5. names = StoredTables
  <2>1. \A t \in StoredTables : t \in Names /\ <<Last(SchemaKey(t))>> = t
    BY <1>2 DEF StoredTables
  <2>2. keys = {SchemaKey(t) : t \in StoredTables}
    BY <1>3, <1>4
  <2> HIDE DEF keys
  <2>3. \A t \in StoredTables : t \in names
    BY <2>1, <2>2
  <2>4. \A n \in names : n \in StoredTables
    <3> TAKE n \in names
    <3>1. PICK k \in keys : n = <<Last(k)>>
      OBVIOUS
    <3>2. PICK t \in StoredTables : k = SchemaKey(t)
      BY <2>2, <3>1
    <3> QED BY <2>1, <3>1, <3>2
  <2> QED BY <2>3, <2>4
<1>6. ASSUME NEW t \in StoredTables PROVE from[t] = SchemaKey(t)
  <2>1. from[t] \in keys /\ Last(from[t]) = Last(t)
    BY <1>1, <1>5
  <2>2. PICK u \in StoredTables : from[t] = SchemaKey(u)
    BY <1>3, <1>4, <2>1
  <2>3. t \in Names /\ u \in Names
    BY DEF StoredTables
  <2>4. u = t
    BY <1>2, <2>1, <2>2, <2>3
  <2> QED BY <2>2, <2>4
<1> HIDE DEF names, keys
<1>7. tables' = Stored
  BY <1>1, <1>5, <1>6 DEF Stored
<1>8. UNCHANGED store /\ server' = "up" /\ link' = TRUE /\ op' = op /\ server = "down"
  BY DEF Start
<1>9. StoredTables' = StoredTables /\ Stored' = Stored /\ View' = View /\ data' = data
  BY <1>8, SameStore
<1> QED
  BY <1>7, <1>8, <1>9 DEF TablesInv

(* A crash loses nothing that is stored. *)
LEMMA CrashTables ==
  ASSUME TablesInv, Crashed, UNCHANGED store
  PROVE  TablesInv' /\ Stored' = Stored /\ View' = View
BY SameStore DEF TablesInv, Crashed, None

(* A statement that only answers. *)
LEMMA AnswerTables ==
  ASSUME TablesInv, UNCHANGED <<tables, store, op>>, NEW r, Answer(r)
  PROVE  TablesInv' /\ Stored' = Stored /\ View' = View
<1>1. StoredTables' = StoredTables /\ Stored' = Stored /\ View' = View /\ data' = data
  BY SameStore
<1> QED
  BY <1>1 DEF TablesInv, Answer

(* CREATE TABLE declares a new table, or changes nothing. *)
LEMMA CreateTables ==
  ASSUME PlainUse, EngineInv, TablesInv,
         NEW t \in Names, NEW cols \in SchemaChoices[t], CreateTable(t, cols)
  PROVE  /\ TablesInv' /\ View' = View
         /\ Stored' = IF t \in DOMAIN Stored THEN Stored ELSE Tables!With(Stored, t, cols)
<1>1. /\ server = "up" /\ link /\ tables = Stored /\ op = None /\ op' = op /\ data' = data
      /\ schema' = Put(schema, SchemaKey(t), cols)
      /\ tables' = (IF t \in DOMAIN Stored THEN Stored ELSE Put(Stored, t, cols))
      /\ server' = server /\ link' = link
  BY DEF TablesInv, CreateTable, Running, MakeTable, HasTable, Answer
<1>2. DOMAIN Stored = StoredTables
  BY DEF Stored
<1>3. StoredTables' = StoredTables \cup {t}
  BY <1>1, SchemaKeysDiffer DEF StoredTables, Put
<1>4. \A u \in StoredTables' : schema'[SchemaKey(u)] = IF u = t THEN cols ELSE schema[SchemaKey(u)]
  <2>1. StoredTables' \subseteq Names
    BY DEF StoredTables
  <2>2. \A u \in StoredTables' : u # t => SchemaKey(u) # SchemaKey(t) /\ SchemaKey(u) \in DOMAIN schema
    BY <1>3, <2>1, SchemaKeysDiffer DEF StoredTables
  <2> QED BY <1>1, <2>2 DEF Put
<1>5. t \in StoredTables => Stored[t] = cols
  <2>1. t \in StoredTables => Stored[t] \in SchemaChoices[t]
    BY StoredList
  <2> QED BY <2>1 DEF PlainUse, FullLists
<1>6. Stored' = [u \in StoredTables' |-> schema'[SchemaKey(u)]]
  BY DEF Stored
<1>7. Stored' = IF t \in DOMAIN Stored THEN Stored ELSE Put(Stored, t, cols)
  <2>1. CASE t \in StoredTables
    <3>1. \A u \in StoredTables : schema'[SchemaKey(u)] = Stored[u]
      BY <1>3, <1>4, <1>5 DEF Stored
    <3>2. StoredTables' = StoredTables
      BY <1>3, <2>1
    <3>3. Stored' = [u \in StoredTables |-> Stored[u]]
      BY <1>6, <3>1, <3>2
    <3> QED BY <1>2, <2>1, <3>3 DEF Stored
  <2>2. CASE t \notin StoredTables
    <3>1. \A u \in StoredTables' : schema'[SchemaKey(u)] = IF u = t THEN cols ELSE Stored[u]
      BY <1>3, <1>4 DEF Stored
    <3> QED BY <1>2, <1>3, <1>6, <2>2, <3>1 DEF Put
  <2> QED BY <2>1, <2>2
<1>8. \A u \in StoredTables : u \in StoredTables' /\ Stored'[u] = Stored[u]
  BY <1>2, <1>3, <1>7 DEF Put
<1>9. View' = View
  BY <1>1, ViewSteps DEF View, Held
<1>10. TablesInv'
  BY <1>1, <1>7, <1>8 DEF TablesInv
<1> QED
  BY <1>7, <1>9, <1>10 DEF Put, Tables!With

(* One complete row written under its key, or one key deleted. *)
LEMMA RowTables ==
  ASSUME TablesInv, NEW key,
         \/ \E t \in StoredTables, v \in Values :
              /\ key = DataKey(t, v)
              /\ \E row \in [1..Len(Stored[t]) -> Values] : data' = Put(data, key, row)
         \/ data' = Del(data, key),
         UNCHANGED <<schema, tables, server, link>>, op' = None
  PROVE  TablesInv' /\ Stored' = Stored
<1>1. StoredTables' = StoredTables /\ Stored' = Stored
  BY DEF StoredTables, Stored
<1>2. IsFiniteSet(DOMAIN data')
  <2>1. IsFiniteSet(DOMAIN data)
    BY DEF TablesInv
  <2>2. IsFiniteSet(DOMAIN data \cup {key}) /\ IsFiniteSet(DOMAIN data \ {key})
    BY <2>1, FS_AddElement, FS_RemoveElement
  <2>3. DOMAIN data' \in {DOMAIN data \cup {key}, DOMAIN data \ {key}}
    BY DEF Put, Del
  <2> QED BY <2>2, <2>3
<1>3. ASSUME NEW k \in DOMAIN data'
      PROVE  \/ k \in DOMAIN data /\ data'[k] = data[k]
             \/ \E t \in StoredTables, v \in Values :
                  k = DataKey(t, v) /\ data'[k] \in [1..Len(Stored[t]) -> Values]
  BY DEF Put, Del
<1>4. \A k \in DOMAIN data' : \E u \in StoredTables, w \in Values :
        k = DataKey(u, w) /\ data'[k] \in [1..Len(Stored[u]) -> Values]
  BY <1>3 DEF TablesInv
<1> QED
  BY <1>1, <1>2, <1>4 DEF TablesInv

(* INSERT stores a complete row under its first value. *)
LEMMA InsertTables ==
  ASSUME PlainUse, EngineInv, TablesInv, NEW t \in Names, NEW list \in InsertLists,
         NEW val \in [1..Len(list) -> Values], Insert(t, list, val)
  PROVE  /\ TablesInv' /\ Stored' = Stored /\ server = "up" /\ server' = "up"
         /\ \/ View' = View /\ reply' = Error
            \/ /\ t \in DOMAIN Stored /\ reply' = Ok("insert", 1)
               /\ \E row \in [1..Len(Stored[t]) -> Values] :
                    View' = [View EXCEPT ![t] = Tables!With(@, row[1], row)]
<1>1. server = "up" /\ link /\ tables = Stored /\ op = None
  BY DEF TablesInv, Insert, Running
<1>2. CASE Answer(Error) /\ UNCHANGED <<tables, store, op>>
  BY <1>1, <1>2, AnswerTables DEF Answer
<1>3. CASE HasTable(t) /\ ~(Answer(Error) /\ UNCHANGED <<tables, store, op>>)
  <2> DEFINE row == NewRow(t, list, val)
  <2>1. t \in StoredTables /\ t \in DOMAIN Stored /\ tables[t] = Stored[t]
    BY <1>1, <1>3 DEF HasTable, Stored
  <2>2. tables[t] \in SchemaChoices[t]
    BY <2>1, StoredList
  <2>3. /\ row \in [1..Len(tables[t]) -> Values] /\ row[1] = val[1] /\ val[1] \in Values
        /\ \A i \in 1..Len(list) : GetColIndex(t, list[i]) \in 1..RowSize(list)
    BY <2>2, FullRow
  <2>4. /\ data' = IF link THEN Put(data, DataKey(t, val[1]), row) ELSE data
        /\ Answer(Ok("insert", 1)) /\ UNCHANGED <<tables, schema, op>>
    BY <1>3, <2>3 DEF Insert
  <2> HIDE DEF row
  <2>5. data' = Put(data, DataKey(t, row[1]), row) /\ row[1] \in Values
    BY <1>1, <2>3, <2>4
  <2>6. row \in [1..Len(Stored[t]) -> Values]
    BY <2>1, <2>3
  <2>7. TablesInv' /\ Stored' = Stored
    BY <1>1, <2>1, <2>4, <2>5, <2>6, RowTables DEF Answer
  <2>8. View' = [View EXCEPT ![t] = Tables!With(@, row[1], row)]
    BY <2>5, ViewSteps
  <2> QED BY <1>1, <2>1, <2>4, <2>6, <2>7, <2>8 DEF Answer
<1> QED
  BY <1>2, <1>3 DEF Insert

(* The GET of an UPDATE takes the row along, or there is none. *)
LEMMA GetTables ==
  ASSUME PlainUse, EngineInv, TablesInv, NEW t \in Names, NEW q \in Values, NEW v \in Values,
         NEW cols \in SchemaChoices[t], NEW i \in 1..Len(cols), UpdateGet(t, cols[i], v, q)
  PROVE  /\ TablesInv' /\ Stored' = Stored /\ View' = View
         /\ server = "up" /\ server' = "up" /\ reply' \in {reply, Error, Ok("update", 0)}
<1>1. server = "up" /\ link /\ tables = Stored /\ op = None
  BY DEF TablesInv, UpdateGet, Running
<1>2. CASE \E r \in {Error, Ok("update", 0)} : Answer(r) /\ UNCHANGED <<tables, store, op>>
  BY <1>1, <1>2, AnswerTables DEF Answer
<1>3. CASE /\ HasTable(t) /\ DataKey(t, q) \in DOMAIN data
           /\ op' = [kind |-> "update", key |-> DataKey(t, q), val |-> v,
                     cols |-> StringSplit(data[DataKey(t, q)]), index |-> GetColIndex(t, cols[i])]
           /\ UNCHANGED <<tables, store, server, link, reply>>
  <2>1. t \in StoredTables /\ tables[t] = Stored[t]
    BY <1>1, <1>3 DEF HasTable, Stored
  <2>2. Stored[t] \in SchemaChoices[t] /\ Len(Stored[t]) \in Nat
    BY <2>1, StoredList
  <2>3. tables[t] = cols
    BY <2>1, <2>2 DEF PlainUse, FullLists
  <2>4. \A j, k \in 1..Len(cols) : cols[j] = cols[k] => j = k
    <3>1. FullLists
      BY DEF PlainUse
    <3> QED BY <3>1 DEF FullLists
  <2>5. GetColIndex(t, cols[i]) = i
    BY <2>1, <2>2, <2>3, <2>4, ColIndexIs
  <2>6. PICK u \in StoredTables : data[DataKey(t, q)] \in [1..Len(Stored[u]) -> Values]
    BY <1>3 DEF TablesInv
  <2>7. StringSplit(data[DataKey(t, q)]) = data[DataKey(t, q)]
    BY <2>6, StoredList, SplitPlain DEF PlainUse
  <2>8. op'.key = DataKey(t, q) /\ op'.cols = data[DataKey(t, q)] /\ op'.index = i
    BY <1>3, <2>5, <2>7
  <2>9. StoredTables' = StoredTables /\ Stored' = Stored /\ View' = View /\ data' = data
    BY <1>3, SameStore
  <2>10. i \in 1..Len(Stored[t])
    BY <2>1, <2>3
  <2>11. TablesInv'
    BY <1>1, <1>3, <2>1, <2>8, <2>9, <2>10 DEF TablesInv
  <2> QED BY <1>1, <1>3, <2>9, <2>11
<1> QED
  BY <1>1, <1>2, <1>3 DEF UpdateGet

(* The SET of an UPDATE writes one value into the row that is stored. *)
LEMMA SetTables ==
  ASSUME PlainUse, EngineInv, TablesInv, UpdateSet
  PROVE  /\ TablesInv' /\ Stored' = Stored /\ server = "up" /\ server' = "up" /\ reply' = Ok("update", 1)
         /\ \E t \in DOMAIN Stored, k \in Values :
              \E i \in 1..Len(Stored[t]), v \in Values :
                k \in DOMAIN View[t] /\ View' = [View EXCEPT ![t][k][i] = v]
<1>1. /\ server = "up" /\ op # None /\ link /\ op.cols = data[op.key]
      /\ op.key \in DOMAIN data /\ op.val \in Values
  BY DEF UpdateSet, TablesInv, EngineInv, OpInv
<1>2. PICK t \in StoredTables, k \in Values : op.key = DataKey(t, k) /\ op.index \in 1..Len(Stored[t])
  BY <1>1 DEF TablesInv
<1>3. Values \subseteq Tokens
  BY DEF Tokens
<1>4. t \in Names /\ Len(Stored[t]) \in Nat /\ t \in DOMAIN Stored
  BY StoredList DEF Stored
<1>5. op.cols \in [1..Len(Stored[t]) -> Values]
  <2>1. PICK u \in StoredTables, w \in Values :
          op.key = DataKey(u, w) /\ data[op.key] \in [1..Len(Stored[u]) -> Values]
    BY <1>1 DEF TablesInv
  <2>2. u \in Names
    BY StoredList
  <2>3. u = t
    BY <1>2, <1>3, <1>4, <2>1, <2>2, PlainKeys
  <2> QED BY <1>1, <2>1, <2>3
<1>6. Len(op.cols) = Len(Stored[t])
  BY <1>4, <1>5, RowLength
<1> DEFINE row == [op.cols EXCEPT ![op.index] = op.val]
<1>7. /\ data' = Put(data, DataKey(t, k), row) /\ op' = None /\ Answer(Ok("update", 1))
      /\ UNCHANGED <<tables, schema>>
  BY <1>1, <1>2, <1>6 DEF UpdateSet
<1>8. row \in [1..Len(Stored[t]) -> Values]
  BY <1>1, <1>5
<1>9. k \in Held(t) /\ k \in DOMAIN View[t] /\ View[t][k] = op.cols
  BY <1>1, <1>2, <1>4 DEF Held, View
<1>10. View' = [View EXCEPT ![t] = Tables!With(@, k, row)]
  <2> HIDE DEF row
  <2> QED BY <1>4, <1>7, ViewSteps
<1>11. Tables!With(View[t], k, row) = [View[t] EXCEPT ![k] = row]
  <2> HIDE DEF row
  <2>1. View[t] = [x \in Held(t) |-> data[DataKey(t, x)]]
    BY <1>4 DEF View
  <2> DEFINE f == View[t]
  <2>2. f = [x \in DOMAIN f |-> f[x]] /\ k \in DOMAIN f
    BY <1>9, <2>1
  <2> HIDE DEF f
  <2>3. Tables!With(f, k, row) = [f EXCEPT ![k] = row]
    BY <2>2 DEF Tables!With
  <2> QED BY <2>3 DEF f
<1>12. View' = [View EXCEPT ![t][k][op.index] = op.val]
  <2>1. View' = [View EXCEPT ![t] = [View[t] EXCEPT ![k] = row]]
    BY <1>10, <1>11
  <2>2. row = [View[t][k] EXCEPT ![op.index] = op.val]
    BY <1>9
  <2> QED BY <2>1, <2>2
<1>13. TablesInv' /\ Stored' = Stored
  <2> HIDE DEF row
  <2> QED BY <1>1, <1>7, <1>8, RowTables DEF Answer
<1> QED
  BY <1>1, <1>2, <1>4, <1>7, <1>9, <1>12, <1>13 DEF Answer

(* DELETE removes the row with the key, if there is one. *)
LEMMA DeleteTables ==
  ASSUME PlainUse, EngineInv, TablesInv, NEW t \in Names, NEW q \in Values,
         (\E operator : Delete(t, operator, q)) \/ DeleteAll(t)
  PROVE  /\ TablesInv' /\ Stored' = Stored /\ server = "up" /\ server' = "up"
         /\ \/ View' = View /\ reply' \in {Ok("delete", 1), Error}
            \/ /\ t \in DOMAIN Stored /\ reply' = Ok("delete", 1)
               /\ \E k \in Values : View' = [View EXCEPT ![t] = Tables!Without(@, k)]
<1>1. server = "up" /\ link /\ tables = Stored /\ op = None
  BY DEF TablesInv, Delete, DeleteAll, Running
<1>2. CASE \E r \in {Error, Ok("delete", 1)} : Answer(r) /\ UNCHANGED <<tables, store, op>>
  BY <1>1, <1>2, AnswerTables DEF Answer
<1>3. ASSUME NEW k \in Values \cup {"1"}, HasTable(t), data' = Del(data, DataKey(t, k)),
             Answer(Ok("delete", 1)), UNCHANGED <<tables, schema, op>>
      PROVE  /\ TablesInv' /\ Stored' = Stored /\ server = "up" /\ server' = "up"
             /\ \/ View' = View /\ reply' \in {Ok("delete", 1), Error}
                \/ /\ t \in DOMAIN Stored /\ reply' = Ok("delete", 1)
                   /\ \E x \in Values : View' = [View EXCEPT ![t] = Tables!Without(@, x)]
  <2>1. TablesInv' /\ Stored' = Stored
    BY <1>1, <1>3, RowTables DEF Answer
  <2>2. CASE k \in Values
    BY <1>1, <1>3, <2>1, <2>2, ViewSteps DEF Answer, HasTable
  <2>3. CASE k \notin Values
    <3>1. Values \cup {"1"} \subseteq Tokens
      BY DEF Tokens
    <3>2. \A u \in Names, w \in Values : DataKey(u, w) # DataKey(t, k)
      BY <1>3, <2>3, <3>1, PlainKeys
    <3>3. \A u \in Names : Held(u)' = Held(u)
      BY <1>3, <3>2 DEF Held, Del
    <3>4. \A u \in Names : \A w \in Held(u) : data'[DataKey(u, w)] = data[DataKey(u, w)]
      BY <1>3, <3>2 DEF Held, Del
    <3>5. View' = View
      BY <3>3, <3>4 DEF View
    <3> QED BY <1>1, <1>3, <2>1, <3>5 DEF Answer
  <2> QED BY <2>2, <2>3
<1> QED
  BY <1>1, <1>2, <1>3 DEF Delete, DeleteAll, store

(* What a SELECT shows of the keys in S. *)
Shown(t, S) == {<<x, Contents[t][x]>> : x \in S \cap DOMAIN Contents[t]}
Larger(q) == {x \in Values : <<x, q>> \in Above}
StartingWith(q) == {x \in Values : <<x, q>> \in Starts}

(* The rows a SELECT decodes are rows of its table. *)
LEMMA DecodedRows ==
  ASSUME PlainUse, EngineInv, TablesInv, NEW t \in Names
  PROVE  /\ \A x \in Values : DataKey(t, x) \in DOMAIN data =>
                /\ x \in DOMAIN Contents[t] /\ Decoded(DataKey(t, x)) = <<x, Contents[t][x]>>
                /\ KeyOf(t, DataKey(t, x)) = x
         /\ \A k \in Scan(DOMAIN data, DataPrefix(t)) : \E x \in Values :
                k = DataKey(t, x) /\ k \in DOMAIN data
         /\ \A x \in DOMAIN Contents[t] :
                x \in Values /\ DataKey(t, x) \in Scan(DOMAIN data, DataPrefix(t))
         /\ Scan(DOMAIN data, DataPrefix(t)) \subseteq DOMAIN data
<1>1. /\ Contents = View
      /\ Scan(DOMAIN data, DataPrefix(t)) = {DataKey(t, v) : v \in Held(t)}
  BY ViewIs
<1>2. Contents[t] = [v \in Held(t) |-> data[DataKey(t, v)]]
  BY <1>1 DEF View
<1>3. Values \subseteq Tokens
  BY DEF Tokens
<1>4. ASSUME NEW x \in Values, DataKey(t, x) \in DOMAIN data
      PROVE  /\ x \in DOMAIN Contents[t] /\ Decoded(DataKey(t, x)) = <<x, Contents[t][x]>>
             /\ KeyOf(t, DataKey(t, x)) = x
  <2>1. x \in Held(t)
    BY <1>4 DEF Held
  <2>2. PICK u \in StoredTables : data[DataKey(t, x)] \in [1..Len(Stored[u]) -> Values]
    BY <1>4 DEF TablesInv
  <2>3. StringSplit(data[DataKey(t, x)]) = data[DataKey(t, x)]
    BY <2>2, StoredList, SplitPlain DEF PlainUse
  <2>4. Last(DataKey(t, x)) = x /\ KeyOf(t, DataKey(t, x)) = x
    BY <1>3, PlainKeys
  <2> QED BY <1>2, <2>1, <2>3, <2>4 DEF Decoded
<1>5. \A k \in Scan(DOMAIN data, DataPrefix(t)) : \E x \in Values : k = DataKey(t, x) /\ k \in DOMAIN data
  BY <1>1 DEF Held
<1>6. \A x \in DOMAIN Contents[t] : x \in Values /\ DataKey(t, x) \in Scan(DOMAIN data, DataPrefix(t))
  BY <1>1, <1>2 DEF Held
<1> QED
  BY <1>4, <1>5, <1>6 DEF Scan

(* Entries are some of the keys; all of them when there is no limit. *)
LEMMA EntriesAre ==
  ASSUME NEW S, IsFiniteSet(S), NEW n \in Nat, NEW s \in Entries(S, n)
  PROVE  s \subseteq S /\ (n = 0 => s = S)
<1>1. s \subseteq S
  BY DEF Entries, kSubset
<1>2. n = 0 => Cardinality(s) = Cardinality(S)
  BY DEF Entries, kSubset
<1> QED
  BY <1>1, <1>2, FS_Subset

(* SELECT shows rows that qualify: the one with the key, all that start with *)
(* it unless a limit cuts them off, some that are above it.                  *)
LEMMA SelectShows ==
  ASSUME PlainUse, EngineInv, TablesInv, NEW t \in Names, NEW q \in Values,
         NEW operator \in {"=", ">", "like", "other"}, NEW limit \in Limits,
         NEW rs \in SelectRows(t, operator, q, limit)
  PROVE  /\ operator = "=" => rs = Shown(t, {q})
         /\ operator = "like" => rs \subseteq Shown(t, StartingWith(q))
         /\ operator = "like" /\ limit = 0 => rs = Shown(t, StartingWith(q))
         /\ operator = ">" => rs \subseteq Shown(t, Larger(q))
         /\ operator = "other" => rs = {}
<1> DEFINE keys == Scan(DOMAIN data, DataPrefix(t))
           above(k) == <<KeyOf(t, k), q>> \in Above
           like(k) == <<KeyOf(t, k), q>> \in Starts
<1>1. /\ \A x \in Values : DataKey(t, x) \in DOMAIN data =>
            /\ x \in DOMAIN Contents[t] /\ Decoded(DataKey(t, x)) = <<x, Contents[t][x]>>
            /\ KeyOf(t, DataKey(t, x)) = x
      /\ \A k \in keys : \E x \in Values : k = DataKey(t, x) /\ k \in DOMAIN data
      /\ \A x \in DOMAIN Contents[t] : x \in Values /\ DataKey(t, x) \in keys
      /\ keys \subseteq DOMAIN data
  BY DecodedRows
<1>2. IsFiniteSet(DOMAIN data) /\ IsFiniteSet({k \in keys : like(k)}) /\ IsFiniteSet(keys)
  <2>1. IsFiniteSet(DOMAIN data)
    BY DEF TablesInv
  <2>2. keys \in SUBSET DOMAIN data /\ {k \in keys : like(k)} \in SUBSET DOMAIN data
    BY <1>1
  <2> DEFINE liked == {k \in keys : like(k)}
  <2>3. liked \in SUBSET DOMAIN data
    BY <2>2
  <2> HIDE DEF keys, liked
  <2>4. IsFiniteSet(keys) /\ IsFiniteSet(liked)
    BY <2>1, <2>2, <2>3, FS_Subset
  <2> QED BY <2>1, <2>4 DEF liked
<1>3. limit \in Nat
  BY LimitsAssumption
<1> HIDE DEF keys
<1>4. CASE operator = "="
  <2>1. rs = {Decoded(k) : k \in {DataKey(t, q)} \cap DOMAIN data}
    BY <1>4 DEF SelectRows
  <2>2. q \in DOMAIN Contents[t] <=> DataKey(t, q) \in DOMAIN data
    BY <1>1
  <2>3. rs = Shown(t, {q})
    BY <1>1, <2>1, <2>2 DEF Shown
  <2> QED BY <1>4, <2>3
<1>5. CASE operator = ">"
  <2>1. PICK s \in Entries(keys, limit + 1) : rs = {Decoded(k) : k \in {k \in s : above(k)}}
    BY <1>5 DEF SelectRows, keys
  <2>2. s \subseteq keys
    BY <1>2, <1>3, <2>1, EntriesAre
  <2>3. rs \subseteq Shown(t, Larger(q))
    <3> SUFFICES ASSUME NEW r \in rs PROVE r \in Shown(t, Larger(q))
      OBVIOUS
    <3>1. PICK k \in keys : r = Decoded(k) /\ above(k)
      BY <2>1, <2>2
    <3>2. PICK x \in Values : k = DataKey(t, x) /\ k \in DOMAIN data
      BY <1>1
    <3> QED BY <1>1, <3>1, <3>2 DEF Shown, Larger, StartingWith
  <2> QED BY <1>5, <2>3
<1>6. CASE operator = "like"
  <2> DEFINE found == {k \in keys : like(k)}
             n == IF limit = 0 THEN 0 ELSE limit + 1
  <2>1. PICK s \in Entries(found, n) : rs = {Decoded(k) : k \in s}
    BY <1>6 DEF SelectRows, keys
  <2>2. n \in Nat /\ (n = 0 <=> limit = 0)
    BY <1>3
  <2>3. s \subseteq found /\ (limit = 0 => s = found)
    <3> HIDE DEF found, n
    <3>1. IsFiniteSet(found)
      BY <1>2 DEF found
    <3> QED BY <2>1, <2>2, <3>1, EntriesAre
  <2>4. rs \subseteq Shown(t, StartingWith(q))
    <3> SUFFICES ASSUME NEW r \in rs PROVE r \in Shown(t, StartingWith(q))
      OBVIOUS
    <3>1. PICK k \in keys : r = Decoded(k) /\ like(k)
      BY <2>1, <2>3
    <3>2. PICK x \in Values : k = DataKey(t, x) /\ k \in DOMAIN data
      BY <1>1
    <3> QED BY <1>1, <3>1, <3>2 DEF Shown, Larger, StartingWith
  <2>5. ASSUME limit = 0 PROVE Shown(t, StartingWith(q)) \subseteq rs
    <3> SUFFICES ASSUME NEW r \in Shown(t, StartingWith(q)) PROVE r \in rs
      OBVIOUS
    <3>1. PICK x \in Values : x \in DOMAIN Contents[t] /\ <<x, q>> \in Starts /\ r = <<x, Contents[t][x]>>
      BY DEF Shown, StartingWith
    <3>2. /\ DataKey(t, x) \in keys /\ KeyOf(t, DataKey(t, x)) = x
          /\ Decoded(DataKey(t, x)) = <<x, Contents[t][x]>>
      BY <1>1, <3>1
    <3>3. DataKey(t, x) \in found
      BY <3>1, <3>2
    <3>4. DataKey(t, x) \in s
      BY <2>3, <2>5, <3>3
    <3> QED BY <2>1, <3>1, <3>2, <3>4
  <2> QED BY <1>6, <2>4, <2>5
<1>7. CASE operator = "other"
  BY <1>7 DEF SelectRows
<1> QED
  BY <1>4, <1>5, <1>6, <1>7

(* SELECT without WHERE shows rows of its table. *)
LEMMA SelectAllShows ==
  ASSUME PlainUse, EngineInv, TablesInv, NEW t \in Names, NEW n \in Nat,
         NEW s \in Entries(Scan(DOMAIN data, DataPrefix(t)), n)
  PROVE  {Decoded(k) : k \in s} \subseteq Shown(t, Values)
<1> DEFINE keys == Scan(DOMAIN data, DataPrefix(t))
<1>1. s \subseteq keys
  BY DEF Entries, kSubset
<1> HIDE DEF keys
<1> SUFFICES ASSUME NEW k \in s PROVE Decoded(k) \in Shown(t, Values)
  OBVIOUS
<1>2. PICK x \in Values : k = DataKey(t, x) /\ k \in DOMAIN data
  BY <1>1, DecodedRows DEF keys
<1>3. x \in DOMAIN Contents[t] /\ Decoded(DataKey(t, x)) = <<x, Contents[t][x]>>
  BY <1>2, DecodedRows
<1> QED
  BY <1>2, <1>3 DEF Shown

(* SELECT and the statements that do nothing only answer. *)
LEMMA SelectTables ==
  ASSUME PlainUse, EngineInv, TablesInv, NEW t \in Names,
         \/ \E operator, q, limit : Select(t, operator, q, limit)
         \/ SelectAll(t) \/ OtherStatement
  PROVE  /\ TablesInv' /\ Stored' = Stored /\ View' = View
         /\ server = "up" /\ server' = "up"
<1>1. server = "up" /\ link /\ tables = Stored
  BY DEF TablesInv, Select, SelectAll, OtherStatement, Running
<1>2. \E r : Answer(r) /\ UNCHANGED <<tables, store, op>>
  BY <1>1 DEF Select, SelectAll, OtherStatement
<1> QED
  BY <1>1, <1>2, AnswerTables DEF Answer

(* Every step keeps the invariant. *)
LEMMA TablesStep ==
  ASSUME PlainUse, EngineInv, TablesInv, [Next]_vars
  PROVE  TablesInv'
<1>1. CASE Start
  BY <1>1, StartTables
<1>2. CASE StartHeadless \/ LoseLink
  BY <1>2 DEF StartHeadless, LoseLink, PlainUse
<1>3. CASE Crash
  BY <1>3, CrashTables DEF Crash
<1>4. CASE UpdateSet
  BY <1>4, SetTables
<1>5. CASE UNCHANGED vars
  <2>1. StoredTables' = StoredTables /\ Stored' = Stored /\ data' = data
    BY <1>5, SameStore DEF vars
  <2> QED BY <1>5, <2>1 DEF TablesInv, vars
<1>6. CASE Statement
  <2>1. PICK t \in Names, q \in Values :
          \/ \E cols \in SchemaChoices[t] : CreateTable(t, cols)
          \/ \E list \in InsertLists : \E val \in [1..Len(list) -> Values] : Insert(t, list, val)
          \/ \E cols \in SchemaChoices[t] : \E i \in 1..Len(cols), v \in Values : UpdateGet(t, cols[i], v, q)
          \/ (\E operator : Delete(t, operator, q)) \/ DeleteAll(t)
          \/ (\E operator, limit : Select(t, operator, q, limit)) \/ SelectAll(t) \/ OtherStatement
    BY <1>6 DEF Statement
  <2>2. CASE \E cols \in SchemaChoices[t] : CreateTable(t, cols)
    BY <2>2, CreateTables
  <2>3. CASE \E list \in InsertLists : \E val \in [1..Len(list) -> Values] : Insert(t, list, val)
    BY <2>3, InsertTables
  <2>4. CASE \E cols \in SchemaChoices[t] : \E i \in 1..Len(cols), v \in Values : UpdateGet(t, cols[i], v, q)
    BY <2>4, GetTables
  <2>5. CASE (\E operator : Delete(t, operator, q)) \/ DeleteAll(t)
    BY <2>5, DeleteTables
  <2>6. CASE (\E operator, limit : Select(t, operator, q, limit)) \/ SelectAll(t) \/ OtherStatement
    BY <2>6, SelectTables
  <2> QED BY <2>1, <2>2, <2>3, <2>4, <2>5, <2>6
<1> QED
  BY <1>1, <1>2, <1>3, <1>4, <1>5, <1>6 DEF Next

(* The answers to SELECT are those of the tables. *)
LEMMA ShowStep ==
  ASSUME PlainUse, EngineInv, TablesInv, NEW t \in Names, NEW q \in Values,
         Catalog = Stored, UNCHANGED <<Catalog, Contents>>,
         \/ \E operator \in {"=", ">", "like", "other"}, limit \in Limits : Select(t, operator, q, limit)
         \/ SelectAll(t)
  PROVE  Tables!Serve
<1>1. server = "up" /\ server' = "up" /\ link /\ tables = Stored
  BY SelectTables DEF TablesInv
<1>2. CASE reply' = Error
  BY <1>1, <1>2 DEF Tables!Serve, Tables!Decline, Error
<1>3. ASSUME HasTable(t) PROVE t \in DOMAIN Catalog
  BY <1>1, <1>3 DEF HasTable
<1>4. ASSUME NEW operator \in {"=", ">", "like", "other"}, NEW limit \in Limits, HasTable(t),
             NEW rs \in SelectRows(t, operator, q, limit), reply' = Rows(<<t, operator, q, limit>>, rs)
      PROVE  Tables!Serve
  <2>1. /\ operator = "=" => rs = Shown(t, {q})
        /\ operator = "like" => rs \subseteq Shown(t, StartingWith(q))
        /\ operator = "like" /\ limit = 0 => rs = Shown(t, StartingWith(q))
        /\ operator = ">" => rs \subseteq Shown(t, Larger(q))
        /\ operator = "other" => rs = {}
    BY SelectShows
  <2>2. /\ reply' = [kind |-> "rows", query |-> <<t, operator, q, limit>>, rows |-> rs]
        /\ reply'.kind = "rows" /\ reply'.rows = rs
    BY <1>4 DEF Rows
  <2>3. operator # "all"
    OBVIOUS
  <2>4. Tables!Show(t, operator, q, limit)
    BY <2>1, <2>2, <2>3 DEF Tables!Show, Shown, Larger, StartingWith
  <2> QED BY <1>1, <1>3, <1>4, <2>4 DEF Tables!Serve
<1>5. ASSUME HasTable(t), NEW n \in Nat, NEW s \in Entries(Scan(DOMAIN data, DataPrefix(t)), n),
             reply' = Rows(<<t, "all", "*", 0>>, {Decoded(k) : k \in s})
      PROVE  Tables!Serve
  <2> DEFINE rs == {Decoded(k) : k \in s}
  <2>1. rs \subseteq Shown(t, Values)
    BY SelectAllShows
  <2>2. /\ reply' = [kind |-> "rows", query |-> <<t, "all", "*", 0>>, rows |-> rs]
        /\ reply'.kind = "rows" /\ reply'.rows = rs
    BY <1>5 DEF Rows
  <2> HIDE DEF rs
  <2>3. Tables!Show(t, "all", "*", 0)
    BY <2>1, <2>2 DEF Tables!Show, Shown
  <2> QED BY <1>1, <1>3, <1>5, <2>3 DEF Tables!Serve
<1>6. CASE \E operator \in {"=", ">", "like", "other"}, limit \in Limits : Select(t, operator, q, limit)
  BY <1>1, <1>2, <1>4, <1>6 DEF Select, Answer
<1>7. CASE SelectAll(t)
  <2>1. \/ reply' = Error
        \/ /\ HasTable(t)
           /\ \E junk \in 0..Cardinality(DOMAIN data) :
                \E s \in Entries(Scan(DOMAIN data, DataPrefix(t)), IF junk = 0 THEN 0 ELSE junk + 1) :
                  reply' = Rows(<<t, "all", "*", 0>>, {Decoded(k) : k \in s})
    BY <1>1, <1>7 DEF SelectAll, Answer
  <2>2. \A junk \in 0..Cardinality(DOMAIN data) : (IF junk = 0 THEN 0 ELSE junk + 1) \in Nat
    OBVIOUS
  <2> QED BY <1>2, <1>5, <2>1, <2>2
<1> QED
  BY <1>6, <1>7

(* Every step is one of TableStore, or none. *)
LEMMA TablesSimulate ==
  ASSUME PlainUse, EngineInv, TablesInv, Next,
         Catalog = Stored, Contents = View, Catalog' = Stored', Contents' = View'
  PROVE  Tables!PowerChange \/ Tables!Serve \/ UNCHANGED Tables!tvars
<1>1. CASE Start
  <2>1. Catalog' = Catalog /\ Contents' = Contents
    BY <1>1, StartTables
  <2>2. server = "down" /\ server' = "up" /\ reply' = None
    BY <1>1 DEF Start
  <2> QED BY <2>1, <2>2 DEF Tables!PowerChange, None
<1>2. CASE StartHeadless \/ LoseLink
  BY <1>2 DEF StartHeadless, LoseLink, PlainUse
<1>3. CASE Crash
  <2>1. Catalog' = Catalog /\ Contents' = Contents
    BY <1>3, CrashTables DEF Crash
  <2>2. server = "up" /\ server' = "down" /\ reply' = None
    BY <1>3 DEF Crash, Crashed, TablesInv
  <2> QED BY <2>1, <2>2 DEF Tables!PowerChange, None
<1>4. CASE UpdateSet
  <2>1. /\ Catalog' = Catalog /\ server = "up" /\ server' = "up" /\ reply' = Ok("update", 1)
        /\ \E t \in DOMAIN Catalog, k \in Values :
             \E i \in 1..Len(Catalog[t]), v \in Values :
               k \in DOMAIN Contents[t] /\ Contents' = [Contents EXCEPT ![t][k][i] = v]
    BY <1>4, SetTables
  <2>2. PICK t \in DOMAIN Catalog, k \in Values :
          \E i \in 1..Len(Catalog[t]), v \in Values :
            k \in DOMAIN Contents[t] /\ Contents' = [Contents EXCEPT ![t][k][i] = v]
    BY <2>1
  <2>3. PICK i \in 1..Len(Catalog[t]), v \in Values :
          k \in DOMAIN Contents[t] /\ Contents' = [Contents EXCEPT ![t][k][i] = v]
    BY <2>2
  <2>4. Tables!Amend(t, k, i, v)
    BY <2>1, <2>3 DEF Tables!Amend, Tables!Done, Ok
  <2> QED BY <2>1, <2>4 DEF Tables!Serve
<1>5. CASE Statement
  <2>1. PICK t \in Names, q \in Values :
          \/ \E cols \in SchemaChoices[t] : CreateTable(t, cols)
          \/ \E list \in InsertLists : \E val \in [1..Len(list) -> Values] : Insert(t, list, val)
          \/ \E cols \in SchemaChoices[t] : \E i \in 1..Len(cols), v \in Values : UpdateGet(t, cols[i], v, q)
          \/ (\E operator : Delete(t, operator, q)) \/ DeleteAll(t)
          \/ \/ \E operator \in {"=", ">", "like", "other"}, limit \in Limits : Select(t, operator, q, limit)
             \/ SelectAll(t)
          \/ OtherStatement
    BY <1>5 DEF Statement
  <2>2. ASSUME NEW cols \in SchemaChoices[t], CreateTable(t, cols) PROVE Tables!Serve
    <3>1. /\ Contents' = Contents
          /\ Catalog' = IF t \in DOMAIN Catalog THEN Catalog ELSE Tables!With(Catalog, t, cols)
      BY <2>2, CreateTables
    <3>2. server = "up" /\ server' = "up" /\ reply' = Ok("create", 1)
      BY <2>2 DEF CreateTable, Running, Answer
    <3>3. Tables!Decline \/ Tables!Declare(t, cols)
      BY <3>1, <3>2 DEF Tables!Decline, Tables!Declare, Tables!Done, Ok
    <3> QED BY <3>2, <3>3 DEF Tables!Serve, Tables!TableNames, Names
  <2>3. ASSUME NEW list \in InsertLists, NEW val \in [1..Len(list) -> Values], Insert(t, list, val)
        PROVE  Tables!Serve
    <3>1. /\ Catalog' = Catalog /\ server = "up" /\ server' = "up"
          /\ \/ Contents' = Contents /\ reply' = Error
             \/ /\ t \in DOMAIN Catalog /\ reply' = Ok("insert", 1)
                /\ \E row \in [1..Len(Catalog[t]) -> Values] :
                     Contents' = [Contents EXCEPT ![t] = Tables!With(@, row[1], row)]
      BY <2>3, InsertTables
    <3>2. \/ Tables!Decline
          \/ t \in DOMAIN Catalog /\ \E row \in [1..Len(Catalog[t]) -> Values] : Tables!Store(t, row)
      BY <3>1 DEF Tables!Decline, Tables!Store, Tables!Done, Ok, Error
    <3> QED BY <3>1, <3>2 DEF Tables!Serve
  <2>4. ASSUME NEW cols \in SchemaChoices[t], NEW i \in 1..Len(cols), NEW v \in Values,
               UpdateGet(t, cols[i], v, q)
        PROVE  Tables!Serve \/ UNCHANGED Tables!tvars
    <3>1. /\ Catalog' = Catalog /\ Contents' = Contents
          /\ server = "up" /\ server' = "up" /\ reply' \in {reply, Error, Ok("update", 0)}
      BY <2>4, GetTables
    <3> QED BY <3>1 DEF Tables!Serve, Tables!Decline, Tables!tvars, Error, Ok
  <2>5. CASE (\E operator : Delete(t, operator, q)) \/ DeleteAll(t)
    <3>1. /\ Catalog' = Catalog /\ server = "up" /\ server' = "up"
          /\ \/ Contents' = Contents /\ reply' \in {Ok("delete", 1), Error}
             \/ /\ t \in DOMAIN Catalog /\ reply' = Ok("delete", 1)
                /\ \E k \in Values : Contents' = [Contents EXCEPT ![t] = Tables!Without(@, k)]
      BY <2>5, DeleteTables
    <3>2. \/ Tables!Decline
          \/ t \in DOMAIN Catalog /\ \E k \in Values : Tables!Remove(t, k)
      BY <3>1 DEF Tables!Decline, Tables!Remove, Tables!Done, Ok, Error
    <3> QED BY <3>1, <3>2 DEF Tables!Serve
  <2>6. CASE \/ \E operator \in {"=", ">", "like", "other"}, limit \in Limits : Select(t, operator, q, limit)
             \/ SelectAll(t)
    <3>1. Catalog' = Catalog /\ Contents' = Contents
      BY <2>6, SelectTables
    <3> QED BY <2>6, <3>1, ShowStep
  <2>7. CASE OtherStatement
    <3>1. Catalog' = Catalog /\ Contents' = Contents /\ server = "up" /\ server' = "up"
      BY <2>7, SelectTables
    <3>2. reply' = Ok("other", 0)
      BY <2>7 DEF OtherStatement, Answer
    <3> QED BY <3>1, <3>2 DEF Tables!Serve, Tables!Decline, Ok
  <2> QED BY <2>1, <2>2, <2>3, <2>4, <2>5, <2>6, <2>7
<1> QED
  BY <1>1, <1>2, <1>3, <1>4, <1>5 DEF Next

(* The server over its storage behaves as the tables that clients believe    *)
(* in, through crashes and restarts at any point, also between the GET and   *)
(* the SET of an UPDATE, for any number of tables, columns, literals and     *)
(* rows, as long as it is put to plain use.                                  *)
THEOREM TablesAreImplemented ==
  ASSUME PlainUse
  PROVE  Spec => ImplementsTables
<1>1. Init => TablesInv /\ Tables!SInit
  BY TablesInit
<1>2. EngineInv /\ TablesInv /\ [Next]_vars => TablesInv'
  BY TablesStep
<1>3. EngineInv /\ TablesInv => Catalog = Stored /\ Contents = View
  BY ViewIs
<1>4. /\ EngineInv /\ TablesInv /\ [Next]_vars
      /\ (Catalog = Stored /\ Contents = View) /\ (Catalog = Stored /\ Contents = View)'
      => [Tables!PowerChange \/ Tables!Serve]_(Tables!tvars)
  <2> SUFFICES ASSUME EngineInv, TablesInv, [Next]_vars,
                      Catalog = Stored, Contents = View, Catalog' = Stored', Contents' = View'
               PROVE  [Tables!PowerChange \/ Tables!Serve]_(Tables!tvars)
    OBVIOUS
  <2>1. CASE Next
    BY <2>1, TablesSimulate
  <2>2. CASE UNCHANGED vars
    <3>1. Stored' = Stored /\ View' = View /\ reply' = reply /\ server' = server
      BY <2>2, SameStore DEF vars
    <3> QED BY <3>1 DEF Tables!tvars
  <2> QED BY <2>1, <2>2
<1> QED
  BY <1>1, <1>2, <1>3, <1>4, EngineInvHolds, PTL DEF Spec, ImplementsTables, Tables!StoreSpec
=============================================================================
