----------------------------- MODULE SqlParser ------------------------------
(***************************************************************************)
(* One call of SQLParser::parse: the bison driver (yyparse in              *)
(* bison_parser.cpp) with its stack of values, its error paths and the     *)
(* SQLParserResult it fills, over the rules of SqlGrammar.                 *)
(*                                                                         *)
(* The text is not given: "todo" is what the parser has still to meet (the *)
(* symbols of a derivation and, behind each rule's symbols, its reduction) *)
(* and grows as the text goes on, so the behaviours are the derivations of *)
(* the grammar, cut off by an error at any token.  To keep them few a      *)
(* derivation is the shortest one that uses the rule "focus", with at most *)
(* Detours other choices anywhere in it, one more if the focus is Deep.    *)
(***************************************************************************)
EXTENDS SqlGrammar

CONSTANTS
  Detours,      \* choices besides the rule in focus
  Deep,         \* the nonterminals whose rules have one more
  YYINITDEPTH   \* the smallest size of the stack

ASSUME ParserAssumption ==
  Detours \in Nat /\ YYINITDEPTH \in Nat \ {0} /\ Deep \subseteq Nonterminals

VARIABLES
  phase,     \* "start", "parsing", "returned", "done" or "crashed"
  focus,     \* the number of the rule this text is about
  detours,   \* choices left
  todo,      \* what is to come: symbols and reductions
  stack,     \* yyvsp: the symbols with their values
  params,    \* yyloc.param_list
  result,    \* the SQLParserResult but for its errorMsg_
  errorMsg,  \* errorMsg_
  heap, next, faults, leaks   \* see SqlTree

vars == <<phase, focus, detours, todo, stack, params, result, errorMsg,
          heap, next, faults, leaks>>
memory == <<errorMsg, heap, next, faults, leaks>>

-----------------------------------------------------------------------------
\* The derivations.

RulesOf == [A \in Nonterminals |-> {i \in DOMAIN Rules : Rules[i].lhs = A}]
Inner(rule, nonterminals) == ToSet(rule.rhs) \intersect nonterminals

\* For every nonterminal a rule that ends soonest: first those of tokens only, then
\* those made of nonterminals that have one already.
ShortestRules(rules, nonterminals) ==
  LET ready(A, known) == {i \in DOMAIN rules : rules[i].lhs = A /\ ~rules[i].error
                                               /\ Inner(rules[i], nonterminals) \subseteq known}
  IN  FoldLeft(LAMBDA known, n :
                 LET more == {A \in nonterminals \ DOMAIN known : ready(A, DOMAIN known) # {}}
                 IN  known @@ [A \in more |-> CHOOSE i \in ready(A, DOMAIN known) : TRUE],
               << >>, [n \in 1..Cardinality(nonterminals) |-> n])

\* For every nonterminal a shortest way to it: the rules from "input" on, each with
\* the place of its symbol that leads on.
WaysTo(rules, nonterminals) ==
  LET from(A, known) == {i \in DOMAIN rules : rules[i].lhs \in known /\ ~rules[i].error
                                              /\ A \in Inner(rules[i], nonterminals)}
      step(A, i) == [rule |-> i, place |-> CHOOSE k \in DOMAIN rules[i].rhs : rules[i].rhs[k] = A]
      way(A, known) == LET i == CHOOSE i \in from(A, DOMAIN known) : TRUE
                       IN  Append(known[rules[i].lhs], step(A, i))
  IN  FoldLeft(LAMBDA known, n :
                 LET more == {A \in nonterminals \ DOMAIN known : from(A, DOMAIN known) # {}}
                 IN  known @@ [A \in more |-> way(A, known)],
               "input" :> << >>, [n \in 1..Cardinality(nonterminals) |-> n])

Shortest == ShortestRules(Rules, Nonterminals)
Ways == WaysTo(Rules, Nonterminals)

\* A symbol to come; from the n-th one of those on the way to the focus, n > 0, the
\* n-th rule of that way is used.
Item(symbol, n) == [symbol |-> symbol, way |-> n, rule |-> 0]

\* What may stand for nonterminal A, the n-th on the way to the focus: a rule, the
\* place in it where the way leads on, and how many detours that takes.
Continuations(A, n, way) ==
  CASE n \in DOMAIN way -> {[rule |-> way[n].rule, place |-> way[n].place, detour |-> 0]}
    [] n > Len(way) -> {[rule |-> focus, place |-> 0, detour |-> 0]}
    [] n = 0 -> {[rule |-> i, place |-> 0, detour |-> IF i = Shortest[A] THEN 0 ELSE 1] :
                   i \in RulesOf[A]}

\* The symbols of choice c's rule, the one where the way leads on being the n-th, then
\* the reduction.
Expansion(rule, c, n) ==
  Append([j \in DOMAIN rule.rhs |-> Item(rule.rhs[j], IF j = c.place THEN n ELSE 0)],
         [symbol |-> rule.lhs, way |-> 0, rule |-> c.rule])

\* What the text goes on with is decided where a nonterminal begins.
GoesOn ==
  /\ phase = "parsing" /\ todo[1].rule = 0 /\ todo[1].symbol \in Nonterminals
  /\ \E c \in Continuations(todo[1].symbol, todo[1].way, Ways[Rules[focus].lhs]) :
       /\ c.detour <= detours /\ detours' = detours - c.detour
       /\ todo' = Expansion(Rules[c.rule], c, todo[1].way + 1) \o Tail(todo)
  /\ UNCHANGED <<phase, focus, stack, params, result>> /\ UNCHANGED memory

-----------------------------------------------------------------------------
\* The parser.

Work(site) ==
  [heap |-> heap, next |-> next, faults |-> faults, leaks |-> leaks, site |-> site,
   errorMsg |-> errorMsg]
Commit(m) ==
  /\ heap' = m.heap /\ next' = m.next /\ faults' = m.faults /\ leaks' = m.leaks
  /\ errorMsg' = m.errorMsg

\* What is owned: the values on the stack and what the result holds.
Roots(m, st, statements) ==
  (UNION {ToSet(st[i].value) : i \in DOMAIN st} \union ToSet(statements)
   \union {m.errorMsg}) \ {NULL}

\* SQLParser::parse, which gives up if there is no scanner.
Parse ==
  /\ phase = "start"
  /\ phase' \in {"parsing", "returned"}
  /\ UNCHANGED <<focus, detours, todo, stack, params, result>> /\ UNCHANGED memory

\* The scanner allocates the text of names and strings; other tokens own nothing.  It
\* ends the text at a character it does not know and at a string without an end, and
\* an integer out of range becomes a token that no rule allows.
YYLex(m, token) == IF TypeOf(token) = "sval" THEN Alloc(m, "char", << >>) ELSE m

\* Shift the token that was expected.
Shift ==
  /\ phase = "parsing" /\ todo[1].rule = 0 /\ todo[1].symbol \notin Nonterminals \union {"$end"}
  /\ LET token == todo[1].symbol
         value == IF TypeOf(token) = "sval" THEN <<next>> ELSE << >>
     IN  /\ stack' = Append(stack, [symbol |-> token, value |-> value])
         /\ Commit(YYLex(Work(<<"yylex">>), token))
  /\ todo' = Tail(todo)
  /\ UNCHANGED <<phase, focus, detours, params, result>>

\* yyerror: the message is copied into the result, whatever was there before.
YYError(m) == [Alloc(m, "char", << >>) EXCEPT !.errorMsg = m.next]

\* Mutant: the stack is only popped.
UnwindPops(m, st) == Account(m, Roots(m, << >>, result.statements))

\* Pop and destroy everything on the stack: no rule mentions "error", so neither
\* yyerrlab1 nor yyreturn keeps anything.
Unwind(m, st) ==
  FoldLeft(LAMBDA acc, n :
             LET top == st[n]
                 at == [acc EXCEPT !.site = <<TypeOf(top.symbol)>>]
                 m1 == YYDestruct(at, top.symbol, top.value)
             IN  Account(m1, Roots(m1, SubSeq(st, 1, n - 1), result.statements)),
           m, [k \in 1..Len(st) |-> Len(st) + 1 - k])

\* The lookahead token, if one was read, is destroyed at yyreturn; "none" stands for
\* one without a value, too.
Lookaheads == {"none", "IDENTIFIER"}
DiscardLookahead(m, token, p) == YYDestruct(m, token, <<p>>)

\* Give up with the values of st on the stack, after yyerror was called "messages"
\* times.
Abort(m, st, token, messages) ==
  LET read == YYLex(m, token)
      held == IF token = "IDENTIFIER" THEN <<[symbol |-> token, value |-> <<m.next>>]>> ELSE << >>
      told == FoldLeft(LAMBDA acc, k :
                         LET m1 == YYError(acc)
                         IN  Account(m1, Roots(m1, st \o held, result.statements)),
                       read, [k \in 1..messages |-> k])
      m2 == DiscardLookahead(told, token, m.next)
  IN  /\ phase' = "returned" /\ Commit(Unwind(m2, st))
      /\ stack' = << >> /\ todo' = << >> /\ result' = [result EXCEPT !.isValid = FALSE]
      /\ UNCHANGED <<focus, detours, params>>

\* A token the grammar does not allow here, where a token is expected.  If there
\* is no memory for the message, yyexhaustedlab follows with one of its own.
SyntaxError ==
  /\ phase = "parsing" /\ todo[1].rule = 0 /\ todo[1].symbol \notin Nonterminals
  /\ \E token \in Lookaheads, messages \in {1, 2} :
       Abort(Work(<<"setErrorDetails">>), stack, token, messages)

\* The stack, which holds one state more than values, is full.  As built it has 200
\* places and never grows (HSQL_LTYPE_IS_TRIVIAL is not defined), so a parse that
\* needs more always ends here.  Here all sizes from YYINITDEPTH on are looked at
\* at once: a stack of that depth is full, or the stack is a larger one.
Exhausted ==
  /\ phase = "parsing" /\ Len(stack) >= YYINITDEPTH - 1
  /\ \E token \in Lookaheads : Abort(Work(<<"setErrorDetails">>), stack, token, 1)

\* Mutant: the default location replaces the list.
NotedReset(rule, value) == IF rule.lhs = "param_expr" THEN value ELSE params
\* yyloc.param_list, which YYLLOC_DEFAULT leaves alone.
Noted(rule, value) == IF rule.lhs = "param_expr" THEN Append(params, value[1]) ELSE params

Site(rule) == (IF rule.error THEN <<"YYERROR">> ELSE << >>) \o <<rule.lhs>> \o rule.rhs

\* The rule's symbols are popped and its value is pushed.
Reduced(rest, lhs, value) == Append(rest, [symbol |-> lhs, value |-> value])

Reduce ==
  /\ phase = "parsing" /\ todo[1].rule # 0 /\ todo[1].symbol # "input"
  /\ \E rule \in {Rules[todo[1].rule]} :
     LET yylen == Len(rule.rhs)
         rest == SubSeq(stack, 1, Len(stack) - yylen)
         v == [j \in 1..yylen |-> stack[Len(rest) + j].value]
         made == FoldLeft(LAMBDA acc, src : LET b == Build(acc.m, v, src)
                                            IN  [m |-> b.m, value |-> Append(acc.value, b.p)],
                          [m |-> Work(Site(rule)), value |-> << >>], rule.make)
         m == FoldLeft(LAMBDA acc, c : Run(acc, v, c), made.m, rule.do)
         pushed == Reduced(rest, rule.lhs, made.value)
         crash == \E f \in m.faults \ faults : f[1] = "null"
     IN  IF rule.error
         THEN \E token \in Lookaheads :
                Abort(Account(m, Roots(m, rest, result.statements)), rest, token, 1)
         ELSE /\ phase' = IF crash THEN "crashed" ELSE "parsing"
              /\ Commit(Account(m, Roots(m, pushed, result.statements)))
              /\ stack' = pushed /\ todo' = Tail(todo)
              /\ params' = Noted(rule, made.value)
              /\ UNCHANGED <<focus, detours, result>>

\* The parameters in the order of their numbers, which addParameter sorts them by.
AddParameters(list) == SelectSeq(list, LAMBDA p : p # NULL)

\* input: statement_list opt_semicolon.  The statements and the parameters go to
\* the result before the end of the text was seen.
ReduceInput ==
  /\ phase = "parsing" /\ todo[1].rule # 0 /\ todo[1].symbol = "input"
  /\ LET list == stack[1].value[1]
         statements == heap[list].members
         m == Release(Work(<<"input">>), "delete", list)
         pushed == Reduced(<< >>, "input", << >>)
     IN  /\ result' = [result EXCEPT !.statements = statements,
                                     !.parameters = AddParameters(params)]
         /\ Commit(Account(m, Roots(m, pushed, statements)))
         /\ stack' = pushed
  /\ todo' = Tail(todo)
  /\ UNCHANGED <<phase, focus, detours, params>>

\* The end of the text: yyacceptlab.
Accept ==
  /\ phase = "parsing" /\ todo[1].symbol = "$end"
  /\ phase' = "returned" /\ result' = [result EXCEPT !.isValid = TRUE]
  /\ stack' = << >> /\ todo' = << >>
  /\ UNCHANGED <<focus, detours, params>> /\ UNCHANGED memory

\* SQLParserResult::reset, when the caller is done with the result.  The pointers
\* in parameters_ stay.
Reset ==
  /\ phase = "returned"
  /\ LET m == FoldLeft(LAMBDA acc, p : Release(acc, "delete", p), Work(<<"reset">>),
                       result.statements)
         m1 == [Release(m, "free", errorMsg) EXCEPT !.errorMsg = NULL]
     IN  Commit(Account(m1, {}))
  /\ result' = [result EXCEPT !.isValid = FALSE, !.statements = << >>]
  /\ phase' = "done"
  /\ UNCHANGED <<focus, detours, todo, stack, params>>

Over == phase \in {"done", "crashed"} /\ UNCHANGED vars

Init ==
  /\ phase = "start" /\ focus \in DOMAIN Rules
  /\ detours = IF Rules[focus].lhs \in Deep THEN Detours + 1 ELSE Detours
  /\ todo = <<Item("input", 1), Item("$end", 0)>>
  /\ stack = << >> /\ params = << >>
  /\ result = [isValid |-> FALSE, statements |-> << >>, parameters |-> << >>]
  /\ errorMsg = NULL /\ heap = << >> /\ next = 1 /\ faults = {} /\ leaks = << >>

Next ==
  \/ Parse \/ GoesOn \/ Shift \/ Reduce \/ ReduceInput \/ Accept
  \/ SyntaxError \/ Exhausted \/ Reset \/ Over

Spec == Init /\ [][Next]_vars

-----------------------------------------------------------------------------
\* The classes a value of each type of bison_parser.y's %union may point to.
Classes ==
  [sval |-> {"char"}, table_name |-> {"char"}, expr |-> {"Expr", "Parameter"},
   table |-> {"TableRef"}, alias_t |-> {"Alias"}, limit |-> {"LimitDescription"},
   order |-> {"OrderDescription"}, group_t |-> {"GroupByDescription"},
   set_operator_t |-> {"SetOperation"}, with_description_t |-> {"WithDescription"},
   update_t |-> {"UpdateClause"}, column_t |-> {"ColumnDefinition"},
   table_constraint_t |-> {"TableConstraint"},
   table_element_t |-> {"ColumnDefinition", "TableConstraint"},
   alter_action_t |-> {"DropColumnAction"}, drop_action_t |-> {"DropColumnAction"},
   alter_stmt |-> {"AlterStatement"}, create_stmt |-> {"CreateStatement"},
   delete_stmt |-> {"DeleteStatement"}, drop_stmt |-> {"DropStatement"},
   exec_stmt |-> {"ExecuteStatement"}, export_stmt |-> {"ExportStatement"},
   import_stmt |-> {"ImportStatement"}, insert_stmt |-> {"InsertStatement"},
   prep_stmt |-> {"PrepareStatement"}, select_stmt |-> {"SelectStatement"},
   show_stmt |-> {"ShowStatement"}, transaction_stmt |-> {"TransactionStatement"},
   update_stmt |-> {"UpdateStatement"},
   statement |-> {c \in DOMAIN Destructor : "hints" \in DOMAIN Destructor[c]}]
  @@ [t \in Vectors \union {"with_description_vec", "column_constraint_vec"} |-> {"vector"}]

Pointers(type) ==
  IF type = "table_name" THEN 2 ELSE IF type \in DOMAIN Classes THEN 1 ELSE 0

\* Every value on the parser's stack is of the type its symbol is declared with: as
\* many pointers, each null or to an object of that class.
TypeOK ==
  /\ phase \in {"start", "parsing", "returned", "done", "crashed"}
  /\ detours \in 0..Detours + 1
  /\ \A i \in DOMAIN stack :
       LET type == TypeOf(stack[i].symbol)
       IN  /\ Len(stack[i].value) = Pointers(type)
           /\ \A p \in ToSet(stack[i].value) \ {NULL} :
                p \in DOMAIN heap => heap[p].class \in Classes[type]

\* Every object has one owner: no two pointers of the parser (members of objects,
\* values on the stack, statements and message of the result) are to the same
\* object, and none is to an object that was released.
OneOwner ==
  LET cells == DOMAIN heap
      held == UNION {Range(heap[p].members) : p \in cells}
              \union Roots([errorMsg |-> errorMsg], stack, result.statements)
      count(f) == Cardinality({x \in DOMAIN f : f[x] # NULL})
      pointers == MapThenSumSet(LAMBDA p : count(heap[p].members), cells)
                  + MapThenSumSet(LAMBDA i : count(stack[i].value), DOMAIN stack)
                  + count(result.statements) + count(<<errorMsg>>)
  IN  /\ held \ {NULL} \subseteq cells
      /\ pointers = Cardinality(held \ {NULL})

\* Where this parser loses memory: two actions that do not use all they are given,
\* one that leaves through YYERROR, three types whose %destructor does not release
\* what the value owns, and the message that a second one replaces.  (An update_t
\* is on the stack only until the next reduction.)
KnownLeaks ==
  {<<"array_index">> \o ArrayIndex, <<"create_statement">> \o CreateIndex,
   <<"YYERROR", "create_statement">> \o CreateFrom,
   <<"column_constraint_vec">>, <<"with_description_vec">>, <<"update_vec">>,
   <<"setErrorDetails">>}

\* Nothing else is lost, whatever rule is reduced and wherever the text breaks off:
\* every action passes on or releases all of its operands, and every value that is
\* on the stack when the parser gives up is released with what it owns.
LeaksAreKnown == \A p \in DOMAIN leaks : leaks[p] \in KnownLeaks

\* Every object is released once and with the function that fits its allocation,
\* but for the names in a list of columns when the parser gives up: the scanner
\* allocates them with malloc and the %destructor of str_vec deletes them.  And no
\* action copies a string that is not there, but for JOIN ... USING (*): a star has
\* no name.
FaultsAreKnown ==
  faults \subseteq {<<"delete of malloc", "str_vec">>, <<"null", "join_clause">> \o JoinUsing}

\* The parameters noted during the parse stay alive until the result is reset,
\* although the parser keeps only bare pointers to them, and the result of a valid
\* text lists every parameter of its statements once, in the order of the text.
ParametersPointIntoTree ==
  /\ phase = "parsing" => \A i \in DOMAIN params : params[i] \in DOMAIN heap
  /\ phase = "returned" => \A i \in DOMAIN result.parameters : result.parameters[i] \in DOMAIN heap
  /\ phase = "returned" /\ result.isValid =>
       /\ ToSet(result.parameters) = {p \in DOMAIN heap : heap[p].class = "Parameter"}
       /\ \A i, j \in DOMAIN result.parameters :
            i < j => result.parameters[i] < result.parameters[j]
=============================================================================
