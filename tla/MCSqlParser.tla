---------------------------- MODULE MCSqlParser -----------------------------
(* SQLParser::parse in its two halves, each over the texts that matter to it: *)
(* SqlParser over the derivations of the grammar, SqlScanner over characters. *)
EXTENDS SqlParser, SqlScanner

\* Every token the grammar asks for is one the scanner returns.
ASSUME TokensAreScanned ==
  UNION {ToSet(Rules[i].rhs) : i \in DOMAIN Rules} \ Nonterminals
    \subseteq Keywords \union Range(Operators) \union Specials
              \union {"IDENTIFIER", "STRING", "FLOATVAL", "INTVAL"}

TextsOver(chars, n) == UNION {[1..k -> chars] : k \in 0..n}

\* All kinds of characters; strings; comments; words that begin like one another;
\* numbers.
SomeTexts ==
  TextsOver({"O", "R", "1", Quote, DoubleQuote, "-", Newline, " ", ".", "=", "#"}, 3)
  \union TextsOver({Quote, "O", "-"}, 6)
  \union TextsOver({"-", Newline, " ", "O"}, 6)
  \union {<<"O", "R">> \o t : t \in TextsOver({"D", "E", "R", " "}, 4)}
  \union TextsOver({"0", "1", "8", "."}, 4)
SomeLeftovers == {<< >>, <<"R">>}

NotParsing ==
  /\ phase = "done" /\ focus = 1 /\ detours = 0 /\ todo = << >> /\ stack = << >>
  /\ params = << >> /\ result = [isValid |-> FALSE, statements |-> << >>, parameters |-> << >>]
  /\ errorMsg = NULL /\ heap = << >> /\ next = 1 /\ faults = {} /\ leaks = << >>

HalvesInit == (Init /\ NotScanning) \/ (NotParsing /\ ScanInit)
HalvesNext == (Next /\ UNCHANGED scanVars) \/ (ScanNext /\ UNCHANGED vars)
HalvesSpec == HalvesInit /\ [][HalvesNext]_<<vars, scanVars>>
=============================================================================
