----------------------------- MODULE SqlGrammar -----------------------------
(***************************************************************************)
(* The grammar of the SQL parser: the rules of bison_parser.y with their   *)
(* semantic actions, as bison_parser.cpp has them (the switch of yyparse), *)
(* and the type of every symbol's value, which decides how yydestruct      *)
(* releases it.  Alternatives that differ in keywords and in values        *)
(* without pointers only (operators, column types, join types) are one     *)
(* rule.  The sections are those of the .y file.                           *)
(***************************************************************************)
EXTENDS SqlTree

\* A rule: $$ is made from "make" (a source for each pointer of the value), then
\* "do" runs; "error" is the branch of an action that ends in YYERROR.
Act(lhs, rhs, make, do) ==
  [lhs |-> lhs, rhs |-> rhs, make |-> make, do |-> do, error |-> FALSE]
Erring(lhs, rhs, make, do) ==
  [lhs |-> lhs, rhs |-> rhs, make |-> make, do |-> do, error |-> TRUE]
Rule(lhs, rhs, src) == Act(lhs, rhs, <<src>>, << >>)
\* $$ = $1, also the default when a rule has no action.
Same(lhs, rhs) == Rule(lhs, rhs, V(1))
\* Mutant: the action is missing.
EmptyNoAction(lhs) == Act(lhs, << >>, << >>, << >>)
\* A null pointer for an empty option.
Empty(lhs) == Rule(lhs, << >>, Nullptr)
\* A value without pointers.
Plain(lhs, rhs) == Act(lhs, rhs, << >>, << >>)
Either(lhs, symbols) == [i \in 1..Len(symbols) |-> Same(lhs, <<symbols[i]>>)]
\* A new vector with the first element, then push_back.
List(lhs, element, separator) ==
  <<Rule(lhs, <<element>>, Vector(<<V(1)>>)),
    Act(lhs, <<lhs>> \o separator \o <<element>>, <<V(1)>>,
        <<Push(1, V(2 + Len(separator)))>>)>>
Comma == <<",">>

-----------------------------------------------------------------------------
\* The functions of expr.cc that make expressions.

MakeOpUnary(expr) == New("Expr", [expr |-> expr])
MakeOpBinary(expr1, expr2) == New("Expr", [expr |-> expr1, expr2 |-> expr2])
MakeBetween(expr, left, right) ==
  New("Expr", [expr |-> expr, exprList |-> Vector(<<left, right>>)])
MakeCaseList(element) == New("Expr", [exprList |-> Vector(<<element>>)])
MakeCaseListElement(when, then) == New("Expr", [expr |-> when, expr2 |-> then])
CaseListAppend(i, element) == PushInto(i, "exprList", element)
\* The list of $i moves to the new object, and the rest of $i is deleted.
MakeCase(expr, i, elseExpr) ==
  New("Expr", [expr |-> expr, expr2 |-> elseExpr, exprList |-> MemberOf(i, "exprList")])
\* Mutant: the moved list stays with the deleted object as well.
TakenCaseListShared(i) == <<Delete(i)>>
TakenCaseList(i) == <<Put(i, "exprList", Nullptr), Delete(i)>>
MakeLiteral == New("Expr", << >>)
MakeBoolLiteral == New("Expr", << >>)
MakeNullLiteral == New("Expr", << >>)
MakeIntervalLiteral == New("Expr", << >>)
MakeStringLiteral(name) == New("Expr", [name |-> name])
MakeDateLiteral(name) == New("Expr", [name |-> name])
MakeColumnRef(table, name) == New("Expr", [name |-> name, table |-> table])
MakeStar(table) == New("Expr", [table |-> table])
MakeFunctionRef(name, exprList) == New("Expr", [name |-> name, exprList |-> exprList])
MakeArray(exprList) == New("Expr", [exprList |-> exprList])
MakeArrayIndex(expr) == New("Expr", [expr |-> expr])
MakeParameter == New("Parameter", << >>)
MakeSelect(select) == New("Expr", [select |-> select])
MakeExists(select) == New("Expr", [select |-> select])
MakeInList(expr, exprList) == New("Expr", [expr |-> expr, exprList |-> exprList])
MakeInSelect(expr, select) == New("Expr", [expr |-> expr, select |-> select])
MakeExtract(expr) == New("Expr", [expr |-> expr])
MakeCast(expr) == New("Expr", [expr |-> expr])

-----------------------------------------------------------------------------
\* Statements and hints.

TokenTypes == [IDENTIFIER |-> "sval", STRING |-> "sval", FLOATVAL |-> "fval", INTVAL |-> "ival"]

StatementTypes ==
  [statement_list |-> "stmt_vec", statement |-> "statement",
   preparable_statement |-> "statement", opt_hints |-> "expr_vec", hint_list |-> "expr_vec",
   hint |-> "expr", transaction_statement |-> "transaction_stmt",
   prepare_statement |-> "prep_stmt", prepare_target_query |-> "sval",
   execute_statement |-> "exec_stmt", import_statement |-> "import_stmt",
   file_type |-> "import_type_t", file_path |-> "sval", opt_file_type |-> "import_type_t",
   export_statement |-> "export_stmt", show_statement |-> "show_stmt"]

\* The action of "input" is SqlParser's ReduceInput.
StatementRules ==
  <<Plain("input", <<"statement_list", "opt_semicolon">>)>>
  \o List("statement_list", "statement", <<";">>)
  \o <<Act("statement", <<"prepare_statement", "opt_hints">>, <<V(1)>>,
           <<Put(1, "hints", V(2))>>),
       Act("statement", <<"preparable_statement", "opt_hints">>, <<V(1)>>,
           <<Put(1, "hints", V(2))>>)>>
  \o Either("statement", <<"show_statement", "import_statement", "export_statement">>)
  \o Either("preparable_statement",
       <<"select_statement", "create_statement", "insert_statement", "delete_statement",
         "truncate_statement", "update_statement", "drop_statement", "alter_statement",
         "execute_statement", "transaction_statement">>)

HintRules ==
  <<Rule("opt_hints", <<"WITH", "HINT", "(", "hint_list", ")">>, V(4)), Empty("opt_hints")>>
  \o List("hint_list", "hint", Comma)
  \o <<Rule("hint", <<"IDENTIFIER">>, New("Expr", [name |-> V(1)])),
       Rule("hint", <<"IDENTIFIER", "(", "literal_list", ")">>,
            New("Expr", [name |-> V(1), exprList |-> V(3)]))>>

TransactionAndPrepareRules ==
  <<Rule("transaction_statement", <<"BEGIN", "opt_transaction_keyword">>,
         New("TransactionStatement", << >>)),
    Plain("opt_transaction_keyword", <<"TRANSACTION">>), Plain("opt_transaction_keyword", << >>),
    Rule("prepare_statement", <<"PREPARE", "IDENTIFIER", "FROM", "prepare_target_query">>,
         New("PrepareStatement", [name |-> V(2), query |-> V(4)])),
    Same("prepare_target_query", <<"STRING">>),
    Rule("execute_statement", <<"EXECUTE", "IDENTIFIER">>,
         New("ExecuteStatement", [name |-> V(2)])),
    Rule("execute_statement", <<"EXECUTE", "IDENTIFIER", "(", "opt_literal_list", ")">>,
         New("ExecuteStatement", [name |-> V(2), parameters |-> V(4)]))>>

File(path, t) == [filePath |-> V(path), schema |-> Schema(t), tableName |-> Name(t)]

ImportExportRules ==
  <<Rule("import_statement",
         <<"IMPORT", "FROM", "file_type", "FILE", "file_path", "INTO", "table_name">>,
         New("ImportStatement", File(5, 7))),
    Rule("import_statement", <<"COPY", "table_name", "FROM", "file_path", "opt_file_type">>,
         New("ImportStatement", File(4, 2))),
    Act("file_type", <<"IDENTIFIER">>, << >>, <<Free(1)>>),
    Erring("file_type", <<"IDENTIFIER">>, << >>, <<Free(1)>>),
    Act("file_path", <<"string_literal">>, <<Dup(1, "name")>>, <<Delete(1)>>),
    Plain("opt_file_type", <<"WITH", "FORMAT", "file_type">>), Plain("opt_file_type", << >>),
    Rule("export_statement", <<"COPY", "table_name", "TO", "file_path", "opt_file_type">>,
         New("ExportStatement", File(4, 2)))>>

ShowRules ==
  <<Rule("show_statement", <<"SHOW", "TABLES">>, New("ShowStatement", << >>)),
    Rule("show_statement", <<"SHOW", "COLUMNS", "table_name">>,
         New("ShowStatement", [schema |-> Schema(3), name |-> Name(3)])),
    Rule("show_statement", <<"DESCRIBE", "table_name">>,
         New("ShowStatement", [schema |-> Schema(2), name |-> Name(2)]))>>

-----------------------------------------------------------------------------
\* Statements that change the catalog.

DefinitionTypes ==
  [create_statement |-> "create_stmt", opt_not_exists |-> "bval",
   table_elem_commalist |-> "table_element_vec", table_elem |-> "table_element_t",
   column_def |-> "column_t", column_type |-> "column_type_t",
   opt_time_specification |-> "column_specification_t",
   opt_decimal_specification |-> "column_specification_t",
   opt_column_constraints |-> "column_constraint_vec",
   column_constraint_list |-> "column_constraint_vec",
   column_constraint |-> "column_constraint_t", table_constraint |-> "table_constraint_t",
   drop_statement |-> "drop_stmt", opt_exists |-> "bval", alter_statement |-> "alter_stmt",
   alter_action |-> "alter_action_t", drop_action |-> "drop_action_t"]

Created(t) == [schema |-> Schema(t), tableName |-> Name(t)]
CreateFrom ==
  <<"CREATE", "TABLE", "opt_not_exists", "table_name", "FROM", "IDENTIFIER", "FILE", "file_path">>
CreateIndex ==
  <<"CREATE", "INDEX", "opt_not_exists", "opt_index_name", "ON", "table_name",
    "(", "ident_commalist", ")">>

\* An unknown file type leaves the action before the path is assigned; an index
\* has no use for the schema of its table.
CreateRules ==
  <<Act("create_statement", CreateFrom,
        <<New("CreateStatement", [filePath |-> V(8)] @@ Created(4))>>, <<Free(6)>>),
    Erring("create_statement", CreateFrom, <<New("CreateStatement", Created(4))>>, <<Free(6)>>),
    Act("create_statement",
        <<"CREATE", "TABLE", "opt_not_exists", "table_name", "(", "table_elem_commalist", ")">>,
        <<New("CreateStatement", [columns |-> Elements(6, "ColumnDefinition"),
                                  tableConstraints |-> Elements(6, "TableConstraint")]
                                 @@ Created(4))>>,
        <<Delete(6)>>),
    Rule("create_statement",
         <<"CREATE", "TABLE", "opt_not_exists", "table_name", "AS", "select_statement">>,
         New("CreateStatement", [select |-> V(6)] @@ Created(4))),
    Rule("create_statement", CreateIndex,
         New("CreateStatement",
             [indexName |-> V(4), tableName |-> Name(6), indexColumns |-> V(8)])),
    Rule("create_statement",
         <<"CREATE", "VIEW", "opt_not_exists", "table_name", "opt_column_list", "AS",
           "select_statement">>,
         New("CreateStatement", [viewColumns |-> V(5), select |-> V(7)] @@ Created(4))),
    Plain("opt_not_exists", <<"IF", "NOT", "EXISTS">>), Plain("opt_not_exists", << >>)>>

ColumnRules ==
  List("table_elem_commalist", "table_elem", Comma)
  \o Either("table_elem", <<"column_def", "table_constraint">>)
  \o <<Rule("column_def", <<"IDENTIFIER", "column_type", "opt_column_constraints">>,
            New("ColumnDefinition", [name |-> V(1), column_constraints |-> V(3)])),
       Plain("column_type", <<"INT">>),
       Plain("column_type", <<"DECIMAL", "opt_decimal_specification">>),
       Plain("column_type", <<"VARCHAR", "(", "INTVAL", ")">>),
       Plain("column_type", <<"TIME", "opt_time_specification">>),
       Plain("opt_time_specification", <<"(", "INTVAL", ")">>),
       Plain("opt_time_specification", << >>),
       Plain("opt_decimal_specification", <<"(", "INTVAL", ",", "INTVAL", ")">>),
       Plain("opt_decimal_specification", <<"(", "INTVAL", ")">>),
       Plain("opt_decimal_specification", << >>)>>

\* The elements of these vectors are no pointers.
ConstraintRules ==
  <<Same("opt_column_constraints", <<"column_constraint_list">>),
    Rule("opt_column_constraints", << >>, Vector(<< >>)),
    Rule("column_constraint_list", <<"column_constraint">>, Vector(<< >>)),
    Same("column_constraint_list", <<"column_constraint_list", "column_constraint">>),
    Plain("column_constraint", <<"PRIMARY", "KEY">>), Plain("column_constraint", <<"UNIQUE">>),
    Rule("table_constraint", <<"PRIMARY", "KEY", "(", "ident_commalist", ")">>,
         New("TableConstraint", [columnNames |-> V(4)])),
    Rule("table_constraint", <<"UNIQUE", "(", "ident_commalist", ")">>,
         New("TableConstraint", [columnNames |-> V(3)]))>>

DropAlterRules ==
  <<Rule("drop_statement", <<"DROP", "TABLE", "opt_exists", "table_name">>,
         New("DropStatement", [schema |-> Schema(4), name |-> Name(4)])),
    Rule("drop_statement", <<"DEALLOCATE", "PREPARE", "IDENTIFIER">>,
         New("DropStatement", [name |-> V(3)])),
    Rule("drop_statement", <<"DROP", "INDEX", "opt_exists", "IDENTIFIER">>,
         New("DropStatement", [indexName |-> V(4)])),
    Plain("opt_exists", <<"IF", "EXISTS">>), Plain("opt_exists", << >>),
    Rule("alter_statement", <<"ALTER", "TABLE", "opt_exists", "table_name", "alter_action">>,
         New("AlterStatement", [schema |-> Schema(4), name |-> Name(4), action |-> V(5)])),
    Same("alter_action", <<"drop_action">>),
    Rule("drop_action", <<"DROP", "COLUMN", "opt_exists", "IDENTIFIER">>,
         New("DropColumnAction", [columnName |-> V(4)]))>>

-----------------------------------------------------------------------------
\* Statements that change rows.

ChangeTypes ==
  [delete_statement |-> "delete_stmt", truncate_statement |-> "delete_stmt",
   insert_statement |-> "insert_stmt", opt_column_list |-> "str_vec",
   update_statement |-> "update_stmt", update_clause_commalist |-> "update_vec",
   update_clause |-> "update_t"]

DeleteInsertRules ==
  <<Rule("delete_statement", <<"DELETE", "FROM", "table_name", "opt_where">>,
         New("DeleteStatement", [schema |-> Schema(3), tableName |-> Name(3), expr |-> V(4)])),
    Rule("truncate_statement", <<"TRUNCATE", "table_name">>,
         New("DeleteStatement", [schema |-> Schema(2), tableName |-> Name(2)])),
    Rule("insert_statement",
         <<"INSERT", "INTO", "table_name", "opt_column_list", "VALUES", "(", "literal_list", ")">>,
         New("InsertStatement", [schema |-> Schema(3), tableName |-> Name(3),
                                 columns |-> V(4), values |-> V(7)])),
    Rule("insert_statement",
         <<"INSERT", "INTO", "table_name", "opt_column_list", "select_no_paren">>,
         New("InsertStatement", [schema |-> Schema(3), tableName |-> Name(3),
                                 columns |-> V(4), select |-> V(5)])),
    Rule("opt_column_list", <<"(", "ident_commalist", ")">>, V(2)), Empty("opt_column_list")>>

UpdateRules ==
  <<Rule("update_statement",
         <<"UPDATE", "table_ref_name_no_alias", "SET", "update_clause_commalist", "opt_where">>,
         New("UpdateStatement", [table |-> V(2), updates |-> V(4), where |-> V(5)]))>>
  \o List("update_clause_commalist", "update_clause", Comma)
  \o <<Rule("update_clause", <<"IDENTIFIER", "=", "expr">>,
            New("UpdateClause", [column |-> V(1), value |-> V(3)]))>>

-----------------------------------------------------------------------------
\* SELECT.

SelectTypes ==
  [select_statement |-> "select_stmt", select_within_set_operation |-> "select_stmt",
   select_within_set_operation_no_parentheses |-> "select_stmt",
   select_with_paren |-> "select_stmt", select_no_paren |-> "select_stmt",
   set_operator |-> "set_operator_t", set_type |-> "set_operator_t", opt_all |-> "bval",
   select_clause |-> "select_stmt", opt_distinct |-> "bval", select_list |-> "expr_vec",
   opt_from_clause |-> "table", from_clause |-> "table", opt_where |-> "expr",
   opt_group |-> "group_t", opt_having |-> "expr", opt_order |-> "order_vec",
   order_list |-> "order_vec", order_desc |-> "order", opt_order_type |-> "order_type",
   opt_top |-> "limit", opt_limit |-> "limit"]

\* $s becomes a set operation of the select $1, with the nested select $n.
NewSetOperation(i, s, n) ==
  <<PushInto(i, "setOperations", V(s)), Put(s, "nestedSelectStatement", V(n))>>
WithOrderAndLimit(s, o, l) ==
  <<Put(s, "resultOrder", V(o)), Put(s, "resultLimit", V(l))>>

SelectStatementRules ==
  <<Act("select_statement", <<"opt_with_clause", "select_with_paren">>, <<V(2)>>,
        <<Put(2, "withDescriptions", V(1))>>),
    Act("select_statement", <<"opt_with_clause", "select_no_paren">>, <<V(2)>>,
        <<Put(2, "withDescriptions", V(1))>>),
    Act("select_statement",
        <<"opt_with_clause", "select_with_paren", "set_operator", "select_within_set_operation",
          "opt_order", "opt_limit">>, <<V(2)>>,
        NewSetOperation(2, 3, 4) \o WithOrderAndLimit(3, 5, 6)
        \o <<Put(2, "withDescriptions", V(1))>>)>>
  \o Either("select_within_set_operation",
            <<"select_with_paren", "select_within_set_operation_no_parentheses">>)
  \o <<Same("select_within_set_operation_no_parentheses", <<"select_clause">>),
       Act("select_within_set_operation_no_parentheses",
           <<"select_clause", "set_operator", "select_within_set_operation">>, <<V(1)>>,
           NewSetOperation(1, 2, 3)),
       Rule("select_with_paren", <<"(", "select_no_paren", ")">>, V(2)),
       Rule("select_with_paren", <<"(", "select_with_paren", ")">>, V(2))>>

\* "Limit could have been set by TOP."
LimitReplacesTop == <<Replace(1, "limit", 3)>>

SelectNoParenRules ==
  <<Act("select_no_paren", <<"select_clause", "opt_order", "opt_limit">>, <<V(1)>>,
        <<Put(1, "order", V(2))>> \o LimitReplacesTop),
    Act("select_no_paren",
        <<"select_clause", "set_operator", "select_within_set_operation", "opt_order",
          "opt_limit">>, <<V(1)>>,
        NewSetOperation(1, 2, 3) \o WithOrderAndLimit(2, 4, 5)),
    Same("set_operator", <<"set_type", "opt_all">>),
    Rule("set_type", <<"UNION">>, New("SetOperation", << >>)),
    Plain("opt_all", <<"ALL">>), Plain("opt_all", << >>)>>

SelectClauseRules ==
  <<Rule("select_clause",
         <<"SELECT", "opt_top", "opt_distinct", "select_list", "opt_from_clause", "opt_where",
           "opt_group">>,
         New("SelectStatement", [limit |-> V(2), selectList |-> V(4), fromTable |-> V(5),
                                 whereClause |-> V(6), groupBy |-> V(7)])),
    Plain("opt_distinct", <<"DISTINCT">>), Plain("opt_distinct", << >>),
    Same("select_list", <<"expr_list">>),
    Same("opt_from_clause", <<"from_clause">>), Empty("opt_from_clause"),
    Rule("from_clause", <<"FROM", "table_ref">>, V(2)),
    Rule("opt_where", <<"WHERE", "expr">>, V(2)), Empty("opt_where"),
    Rule("opt_group", <<"GROUP", "BY", "expr_list", "opt_having">>,
         New("GroupByDescription", [columns |-> V(3), having |-> V(4)])),
    Empty("opt_group"),
    Rule("opt_having", <<"HAVING", "expr">>, V(2)), Empty("opt_having")>>

OrderAndLimitRules ==
  <<Rule("opt_order", <<"ORDER", "BY", "order_list">>, V(3)), Empty("opt_order")>>
  \o List("order_list", "order_desc", Comma)
  \o <<Rule("order_desc", <<"expr", "opt_order_type">>,
            New("OrderDescription", [expr |-> V(1)])),
       Plain("opt_order_type", <<"DESC">>), Plain("opt_order_type", << >>),
       Rule("opt_top", <<"TOP", "int_literal">>, New("LimitDescription", [limit |-> V(2)])),
       Empty("opt_top"),
       Rule("opt_limit", <<"LIMIT", "expr">>, New("LimitDescription", [limit |-> V(2)])),
       Rule("opt_limit", <<"OFFSET", "expr">>, New("LimitDescription", [offset |-> V(2)])),
       Rule("opt_limit", <<"LIMIT", "expr", "OFFSET", "expr">>,
            New("LimitDescription", [limit |-> V(2), offset |-> V(4)])),
       Rule("opt_limit", <<"LIMIT", "ALL">>, New("LimitDescription", << >>)),
       Rule("opt_limit", <<"LIMIT", "ALL", "OFFSET", "expr">>,
            New("LimitDescription", [offset |-> V(4)])),
       Empty("opt_limit")>>

-----------------------------------------------------------------------------
\* Expressions.

ListTypes ==
  [expr_list |-> "expr_vec", opt_literal_list |-> "expr_vec", literal_list |-> "expr_vec"]

ExprTypes ==
  [s \in {"expr_alias", "expr", "operand", "scalar_expr", "unary_expr", "binary_expr",
          "logic_expr", "in_expr", "case_expr", "case_list", "exists_expr", "comp_expr",
          "function_expr", "extract_expr", "cast_expr"} |-> "expr"]

LiteralTypes ==
  [s \in {"array_expr", "array_index", "between_expr", "column_name", "literal",
          "string_literal", "bool_literal", "num_literal", "int_literal", "null_literal",
          "date_literal", "interval_literal", "param_expr"} |-> "expr"]
  @@ [s \in {"datetime_field", "datetime_field_plural", "duration_field"} |-> "datetime_field"]

\* If there is an alias $j: its name is copied, and it is deleted.
AliasOf(i, j) == <<Put(i, "alias", DupIf(j, "name")), Delete(j)>>

ExprListRules ==
  List("expr_list", "expr_alias", Comma)
  \o <<Same("opt_literal_list", <<"literal_list">>), Empty("opt_literal_list")>>
  \o List("literal_list", "literal", Comma)
  \o <<Act("expr_alias", <<"expr", "opt_alias">>, <<V(1)>>,
           AliasOf(1, 2))>>

OperandRules ==
  Either("expr", <<"operand", "between_expr", "logic_expr", "exists_expr", "in_expr">>)
  \o <<Rule("operand", <<"(", "expr", ")">>, V(2))>>
  \o Either("operand", <<"array_index", "scalar_expr", "unary_expr", "binary_expr", "case_expr",
                         "function_expr", "extract_expr", "cast_expr", "array_expr">>)
  \o <<Rule("operand", <<"(", "select_no_paren", ")">>, MakeSelect(V(2)))>>
  \o Either("scalar_expr", <<"column_name", "literal">>)

OperatorRules ==
  <<Rule("unary_expr", <<"NOT", "operand">>, MakeOpUnary(V(2))),
    Rule("unary_expr", <<"operand", "IS", "NULL">>, MakeOpUnary(V(1))),
    Rule("unary_expr", <<"operand", "IS", "NOT", "NULL">>, MakeOpUnary(MakeOpUnary(V(1)))),
    Same("binary_expr", <<"comp_expr">>),
    Rule("binary_expr", <<"operand", "+", "operand">>, MakeOpBinary(V(1), V(3))),
    Rule("binary_expr", <<"operand", "NOT", "LIKE", "operand">>, MakeOpBinary(V(1), V(4)))>>

LogicAndCaseRules ==
  <<Rule("logic_expr", <<"expr", "AND", "expr">>, MakeOpBinary(V(1), V(3))),
    Rule("in_expr", <<"operand", "IN", "(", "expr_list", ")">>, MakeInList(V(1), V(4))),
    Rule("in_expr", <<"operand", "NOT", "IN", "(", "expr_list", ")">>,
         MakeOpUnary(MakeInList(V(1), V(5)))),
    Rule("in_expr", <<"operand", "IN", "(", "select_no_paren", ")">>, MakeInSelect(V(1), V(4))),
    Rule("in_expr", <<"operand", "NOT", "IN", "(", "select_no_paren", ")">>,
         MakeOpUnary(MakeInSelect(V(1), V(5)))),
    Act("case_expr", <<"CASE", "expr", "case_list", "END">>,
        <<MakeCase(V(2), 3, Nullptr)>>, TakenCaseList(3)),
    Act("case_expr", <<"CASE", "expr", "case_list", "ELSE", "expr", "END">>,
        <<MakeCase(V(2), 3, V(5))>>, TakenCaseList(3)),
    Act("case_expr", <<"CASE", "case_list", "END">>,
        <<MakeCase(Nullptr, 2, Nullptr)>>, TakenCaseList(2)),
    Act("case_expr", <<"CASE", "case_list", "ELSE", "expr", "END">>,
        <<MakeCase(Nullptr, 2, V(4))>>, TakenCaseList(2)),
    Rule("case_list", <<"WHEN", "expr", "THEN", "expr">>,
         MakeCaseList(MakeCaseListElement(V(2), V(4)))),
    Act("case_list", <<"case_list", "WHEN", "expr", "THEN", "expr">>, <<V(1)>>,
        <<CaseListAppend(1, MakeCaseListElement(V(3), V(5)))>>),
    Rule("exists_expr", <<"EXISTS", "(", "select_no_paren", ")">>, MakeExists(V(3))),
    Rule("exists_expr", <<"NOT", "EXISTS", "(", "select_no_paren", ")">>,
         MakeOpUnary(MakeExists(V(4))))>>

ArrayIndex == <<"operand", "[", "int_literal", "]">>

\* The literal of an array index is read and then forgotten.
FunctionRules ==
  <<Rule("comp_expr", <<"operand", "=", "operand">>, MakeOpBinary(V(1), V(3))),
    Rule("function_expr", <<"IDENTIFIER", "(", ")">>, MakeFunctionRef(V(1), Vector(<< >>))),
    Rule("function_expr", <<"IDENTIFIER", "(", "opt_distinct", "expr_list", ")">>,
         MakeFunctionRef(V(1), V(4))),
    Rule("extract_expr", <<"EXTRACT", "(", "datetime_field", "FROM", "expr", ")">>,
         MakeExtract(V(5))),
    Rule("cast_expr", <<"CAST", "(", "expr", "AS", "column_type", ")">>, MakeCast(V(3))),
    Plain("datetime_field", <<"SECOND">>), Plain("datetime_field_plural", <<"SECONDS">>),
    Plain("duration_field", <<"datetime_field">>),
    Plain("duration_field", <<"datetime_field_plural">>),
    Rule("array_expr", <<"ARRAY", "[", "expr_list", "]">>, MakeArray(V(3))),
    Rule("array_index", ArrayIndex, MakeArrayIndex(V(1))),
    Rule("between_expr", <<"operand", "BETWEEN", "operand", "AND", "operand">>,
         MakeBetween(V(1), V(3), V(5)))>>

\* The branches of date and interval literals that end in YYERROR free the text
\* first.  That a parameter is noted in yyloc.param_list is in SqlParser's Reduce.
LiteralRules ==
  <<Rule("column_name", <<"IDENTIFIER">>, MakeColumnRef(Nullptr, V(1))),
    Rule("column_name", <<"IDENTIFIER", ".", "IDENTIFIER">>, MakeColumnRef(V(1), V(3))),
    Rule("column_name", <<"*">>, MakeStar(Nullptr)),
    Rule("column_name", <<"IDENTIFIER", ".", "*">>, MakeStar(V(1)))>>
  \o Either("literal", <<"string_literal", "bool_literal", "num_literal", "null_literal",
                         "date_literal", "interval_literal", "param_expr">>)
  \o <<Rule("string_literal", <<"STRING">>, MakeStringLiteral(V(1))),
       Rule("bool_literal", <<"TRUE">>, MakeBoolLiteral),
       Rule("num_literal", <<"FLOATVAL">>, MakeLiteral), Same("num_literal", <<"int_literal">>),
       Rule("int_literal", <<"INTVAL">>, MakeLiteral),
       Rule("null_literal", <<"NULL">>, MakeNullLiteral),
       Rule("date_literal", <<"DATE", "STRING">>, MakeDateLiteral(V(2))),
       Erring("date_literal", <<"DATE", "STRING">>, << >>, <<Free(2)>>),
       Act("interval_literal", <<"int_literal", "duration_field">>, <<MakeIntervalLiteral>>,
           <<Delete(1)>>),
       Act("interval_literal", <<"INTERVAL", "STRING", "datetime_field">>, <<MakeIntervalLiteral>>,
           <<Free(2)>>),
       Erring("interval_literal", <<"INTERVAL", "STRING", "datetime_field">>, << >>, <<Free(2)>>),
       Act("interval_literal", <<"INTERVAL", "STRING">>, <<MakeIntervalLiteral>>, <<Free(2)>>),
       Erring("interval_literal", <<"INTERVAL", "STRING">>, << >>, <<Free(2)>>),
       Rule("param_expr", <<"?">>, MakeParameter)>>

-----------------------------------------------------------------------------
\* Tables, WITH and joins.

TableTypes ==
  [table_ref |-> "table", table_ref_atomic |-> "table", nonjoin_table_ref_atomic |-> "table",
   table_ref_commalist |-> "table_vec", table_ref_name |-> "table",
   table_ref_name_no_alias |-> "table", table_name |-> "table_name", opt_index_name |-> "sval",
   table_alias |-> "alias_t", opt_table_alias |-> "alias_t", alias |-> "alias_t",
   opt_alias |-> "alias_t", opt_with_clause |-> "with_description_vec",
   with_clause |-> "with_description_vec", with_description_list |-> "with_description_vec",
   with_description |-> "with_description_t", join_clause |-> "table",
   opt_join_type |-> "join_type", join_condition |-> "expr", ident_commalist |-> "str_vec"]

TableRules ==
  <<Same("table_ref", <<"table_ref_atomic">>),
    Act("table_ref", <<"table_ref_commalist", ",", "table_ref_atomic">>,
        <<New("TableRef", [list |-> V(1)])>>, <<Push(1, V(3))>>)>>
  \o Either("table_ref_atomic", <<"nonjoin_table_ref_atomic", "join_clause">>)
  \o <<Same("nonjoin_table_ref_atomic", <<"table_ref_name">>),
       Rule("nonjoin_table_ref_atomic", <<"(", "select_statement", ")", "opt_table_alias">>,
            New("TableRef", [select |-> V(2), alias |-> V(4)]))>>
  \o List("table_ref_commalist", "table_ref_atomic", Comma)
  \o <<Rule("table_ref_name", <<"table_name", "opt_table_alias">>,
            New("TableRef", [schema |-> Schema(1), name |-> Name(1), alias |-> V(2)])),
       Rule("table_ref_name_no_alias", <<"table_name">>,
            New("TableRef", [schema |-> Schema(1), name |-> Name(1)])),
       Act("table_name", <<"IDENTIFIER">>, <<Nullptr, V(1)>>, << >>),
       Act("table_name", <<"IDENTIFIER", ".", "IDENTIFIER">>, <<V(1), V(3)>>, << >>),
       Same("opt_index_name", <<"IDENTIFIER">>), Empty("opt_index_name")>>

AliasAndWithRules ==
  <<Same("table_alias", <<"alias">>),
    Rule("table_alias", <<"AS", "IDENTIFIER", "(", "ident_commalist", ")">>,
         New("Alias", [name |-> V(2), columns |-> V(4)])),
    Same("opt_table_alias", <<"table_alias">>), Empty("opt_table_alias"),
    Rule("alias", <<"AS", "IDENTIFIER">>, New("Alias", [name |-> V(2)])),
    Rule("alias", <<"IDENTIFIER">>, New("Alias", [name |-> V(1)])),
    Same("opt_alias", <<"alias">>), Empty("opt_alias"),
    Same("opt_with_clause", <<"with_clause">>), Empty("opt_with_clause"),
    Rule("with_clause", <<"WITH", "with_description_list">>, V(2))>>
  \o List("with_description_list", "with_description", Comma)
  \o <<Rule("with_description", <<"IDENTIFIER", "AS", "select_with_paren">>,
            New("WithDescription", [alias |-> V(1), select |-> V(3)]))>>

Join(l, r, condition) ==
  New("TableRef", [join |-> New("JoinDefinition",
                            [left |-> V(l), right |-> V(r), condition |-> condition])])
\* A column of the table $t with the name of $c, both copied.
UsingColumn(c, t) ==
  New("Expr", [name |-> Dup(c, "name"), alias |-> DupIf(c, "alias"), table |-> DupName(t)])
JoinUsing ==
  <<"table_ref_atomic", "opt_join_type", "JOIN", "table_ref_atomic", "USING",
    "(", "column_name", ")">>

JoinRules ==
  <<Rule("join_clause", <<"table_ref_atomic", "NATURAL", "JOIN", "nonjoin_table_ref_atomic">>,
         Join(1, 4, Nullptr)),
    Rule("join_clause",
         <<"table_ref_atomic", "opt_join_type", "JOIN", "table_ref_atomic", "ON",
           "join_condition">>, Join(1, 4, V(6))),
    Act("join_clause", JoinUsing,
        <<Join(1, 4, MakeOpBinary(UsingColumn(7, 1), UsingColumn(7, 4)))>>, <<Delete(7)>>),
    Plain("opt_join_type", <<"LEFT", "OUTER">>), Plain("opt_join_type", << >>),
    Same("join_condition", <<"expr">>),
    Plain("opt_semicolon", <<";">>), Plain("opt_semicolon", << >>)>>
  \o List("ident_commalist", "IDENTIFIER", Comma)

-----------------------------------------------------------------------------
Rules ==
  StatementRules \o HintRules \o TransactionAndPrepareRules \o ImportExportRules \o ShowRules
  \o CreateRules \o ColumnRules \o ConstraintRules \o DropAlterRules
  \o DeleteInsertRules \o UpdateRules
  \o SelectStatementRules \o SelectNoParenRules \o SelectClauseRules \o OrderAndLimitRules
  \o ExprListRules \o OperandRules \o OperatorRules \o LogicAndCaseRules
  \o FunctionRules \o LiteralRules
  \o TableRules \o AliasAndWithRules \o JoinRules

SymbolTypes ==
  TokenTypes @@ StatementTypes @@ DefinitionTypes @@ ChangeTypes @@ SelectTypes
  @@ ListTypes @@ ExprTypes @@ LiteralTypes @@ TableTypes

\* The type of a symbol's value; keywords, "input" and the optional words have none.
TypeOf(symbol) == IF symbol \in DOMAIN SymbolTypes THEN SymbolTypes[symbol] ELSE "none"

\* yydestruct: how a value is released, by its type.
Plains == {"none", "fval", "ival", "bval", "join_type", "order_type", "datetime_field",
           "column_type_t", "column_constraint_t", "import_type_t", "column_specification_t",
           "column_constraint_vec"}
Vectors == {"str_vec", "table_vec", "table_element_vec", "update_vec", "expr_vec", "order_vec",
            "stmt_vec"}
YYDestruct(m, symbol, value) ==
  LET type == TypeOf(symbol)
  IN  CASE type \in Plains -> m
        [] type = "sval" -> Release(m, "free", value[1])
        [] type = "table_name" -> Release(Release(m, "free", value[2]), "free", value[1])
        [] type \in Vectors -> Release(m, "each", value[1])
        [] OTHER -> Release(m, "delete", value[1])

Nonterminals == {rule.lhs : rule \in ToSet(Rules)}
=============================================================================
