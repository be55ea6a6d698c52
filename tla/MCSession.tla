----------------------------- MODULE MCSession ------------------------------
(* Values for Session: logins with and without a password, a database and a   *)
(* plugin name, and answers at the widths where a format changes.             *)
EXTENDS Session

Name(n, letter) == [i \in 1..n |-> letter]

\* A plugin name is 21 bytes long and a response to the challenge 20.
LoginOf(response, database, plugin) ==
  [user |-> Name(1, 114), response |-> response, database |-> database, pluginName |-> plugin]
Root == LoginOf(<<>>, NoName, NoName)
RootWithDB == LoginOf(<<>>, Name(2, 116), Name(21, 109))
Password == LoginOf(Name(20, 7), Name(2, 116), NoName)

Query(replies) == [code |-> COM_QUERY, replies |-> replies]
Ping == [code |-> 14, replies |-> <<Plain("ok")>>]
Done(n, w) == [kind |-> "ok", affected |-> n, warnings |-> w]
Table(columns, rows) ==
  [kind |-> "rows", database |-> Name(7, 100), table |-> Name(2, 116),
   columns |-> columns, rows |-> rows]

TwoColumns == <<Name(1, 97), Name(4, 98)>>
\* An empty cell, a plain one, and rows at 250 and 251 bytes of a cell, the last
\* one as long as a packet may be.
SomeRows == Table(TwoColumns, <<<<Name(0, 0), Name(3, 120)>>, <<Name(3, 121), Name(0, 0)>>>>)
LongCells == Table(<<Name(1, 97)>>, <<<<Name(250, 120)>>, <<Name(251, 121)>>, <<Name(252, 122)>>>>)
TooLong == Table(<<Name(1, 97)>>, <<<<Name(253, 120)>>, <<Name(1, 121)>>>>)
\* A row of an INSERT that lists one of the two columns, and a table of columns as
\* many as there are numbers before the marks of other packets, and one more.
ShortRow == Table(TwoColumns, <<<<Name(1, 120), Name(1, 121)>>, <<Name(3, 120)>>>>)
ManyColumns == Table([i \in 1..251 |-> Name(1, 97)], <<>>)
\* More packets than a sequence number has values.
ManyRows == Table(<<Name(1, 97)>>, [i \in 1..260 |-> <<Name(1, 97 + (i % 26))>>])

PlanOf(l, modern, commands) == [login |-> l, modern |-> modern, commands |-> commands]
SmallPlans ==
  {PlanOf(Root, FALSE, <<Query(<<Done(0, 0)>>), Query(<<SomeRows>>)>>),
   PlanOf(RootWithDB, FALSE, <<Query(<<Plain("err")>>), Query(<<Done(251, 1)>>)>>),
   PlanOf(Password, FALSE, <<Query(<<Done(1, 0), SomeRows>>), Query(<<Plain("err")>>)>>),
   PlanOf(Root, FALSE, <<Query(<<LongCells>>), Ping>>),
   PlanOf(Root, FALSE, <<Query(<<TooLong>>), Query(<<Done(1, 1)>>)>>),
   PlanOf(Root, FALSE, <<Query(<<ShortRow>>), Query(<<SomeRows>>)>>),
   PlanOf(Root, FALSE, <<Query(<<Done(0, 0)>>), Query(<<ManyColumns>>)>>),
   PlanOf(Root, TRUE, <<Query(<<Done(0, 0)>>), Query(<<SomeRows>>)>>),
   PlanOf(Root, FALSE, <<Query(<<ManyRows>>)>>)}

\* Before and after the sequence number and the command byte, in the text and in
\* the body of a login.
SomeCuts == {2, 4, 5, 6, 38}
SomeGuesses == {<<Plain("err")>>, <<Plain("ok")>>, <<Plain("ok"), Plain("err")>>}
SomeSalts == {[i \in 1..20 |-> 123 * (i % 3)], [i \in 1..20 |-> 200 + i]}
=============================================================================
