---------------------------- MODULE MCSqlEngine ----------------------------
(* SqlEngine for TLC: one or two tables, one or two columns and literals. *)
EXTENDS SqlEngineTables

PlainSchemas == [t \in {<<"a">>, <<"b">>} |-> {<<"k", "v">>}]
UnderscoreSchemas == [t \in {<<"a">>, <<"a", "b">>} |-> {<<"k", "v">>}]
UnequalSchemas ==
  [t \in {<<"a">>, <<"a", "b">>} |-> IF t = <<"a">> THEN {<<"k">>} ELSE {<<"k", "v">>}]
OneTable == [t \in {<<"a">>} |-> {<<"k", "v">>}]

FullRows == {<<"k", "v">>}
(* Lists that are too short for a table, or too long, or in another order. *)
AnyRows == {<<"k">>, <<"k", "v">>, <<"v", "k">>, <<"v">>}

(* "x" < "xy", and "xy" starts with "x" *)
XYAbove == {<<"xy", "x">>}
XYStarts == {<<"x", "x">>, <<"xy", "x">>, <<"xy", "xy">>}
=============================================================================
