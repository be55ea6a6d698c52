----------------------------- MODULE SqlScanner -----------------------------
(***************************************************************************)
(* The scanner of the SQL parser: flex_lexer.cpp as SQLParser::parse uses  *)
(* it, a fresh one for each text.  The automaton that flex has generated   *)
(* is modelled by the rules of flex_lexer.l it was made from: in the       *)
(* present start condition the rule with the longest match is taken, the   *)
(* first one of several.  A step is one turn of yylex's loop.              *)
(*                                                                         *)
(* A text is a sequence of characters, each a string of length 1.  The     *)
(* rule for the one literal -9223372036854775808, which would be too long  *)
(* for a positive integer, is left out.                                    *)
(***************************************************************************)
EXTENDS Integers, Sequences, FiniteSets, SequencesExt

CONSTANTS
  Texts,      \* the texts to scan
  Leftovers,  \* what an earlier text of this thread may have left in strbuf
  LLONG_MAX   \* 2^63 - 1

Newline == "\n"
Quote == "'"
DoubleQuote == "\""
Letters == {"O", "R", "D", "E"}
Digits == {"0", "1", "8"}
Blanks == {" ", "\t", Newline}
Specials == {"-", "+", "*", "/", "(", ")", "{", "}", ",", ".", ";", "<", ">", "=", "^", "%",
             ":", "?", "[", "]", "|"}
WordChars == Letters \union Digits \union {"_"}
Characters == WordChars \union Blanks \union Specials \union {Quote, DoubleQuote, "#", "!"}

ASSUME TextsAssumption ==
  \A t \in Texts \union Leftovers : ToSet(t) \subseteq Characters
ASSUME LongAssumption == LLONG_MAX \in Nat

VARIABLES
  scanning,  \* "off", "on", or "ended": yylex has returned 0
  text,      \* the text
  pos,       \* yy_c_buf_p: how many characters are consumed
  start,     \* YY_START
  strbuf,    \* the static buffer strings are collected in
  tokens     \* what yylex has returned: [token, last, val], last is its last character

scanVars == <<scanning, text, pos, start, strbuf, tokens>>

-----------------------------------------------------------------------------
\* The words that are tokens of their own, in the order of flex_lexer.l (nearly that of
\* their lengths).

KeywordsOf7AndMore ==
  {"DEALLOCATE", "PARAMETERS", "INTERSECT", "TEMPORARY", "TIMESTAMP", "DESCRIBE", "DISTINCT",
   "NVARCHAR", "RESTRICT", "TRUNCATE", "ANALYZE", "BETWEEN", "CASCADE", "COLUMNS", "CONTROL",
   "DEFAULT", "EXECUTE", "EXPLAIN", "INTEGER", "NATURAL", "PREPARE", "PRIMARY", "SCHEMAS",
   "SPATIAL", "VARCHAR", "CHARACTER", "VARYING", "TIME", "DECIMAL", "REAL"}

KeywordsOf6 ==
  {"VIRTUAL", "BEFORE", "COLUMN", "CREATE", "DELETE", "DIRECT", "DOUBLE", "ESCAPE", "EXCEPT",
   "EXISTS", "EXTRACT", "CAST", "FORMAT", "GLOBAL", "HAVING", "IMPORT", "INSERT", "ISNULL",
   "OFFSET", "RENAME", "SCHEMA", "SELECT", "SORTED", "TABLES", "UNIQUE", "UNLOAD", "UPDATE",
   "VALUES"}

KeywordsOf5 ==
  {"AFTER", "ALTER", "ARRAY", "CROSS", "DELTA", "FLOAT", "GROUP", "INDEX", "INNER", "LIMIT",
   "LOCAL", "MERGE", "MINUS", "ORDER", "OUTER", "RIGHT", "TABLE", "UNION", "USING", "WHERE"}

KeywordsOf4 ==
  {"CALL", "CASE", "CHAR", "COPY", "DATE", "DATETIME", "DESC", "DROP", "ELSE", "FILE", "FROM",
   "FULL", "HASH", "HINT", "INTO", "JOIN", "LEFT", "LIKE", "ILIKE", "LOAD", "LONG", "NULL",
   "PLAN", "SHOW", "TEXT", "THEN", "VIEW", "WHEN", "WITH"}

KeywordsOf3And2 ==
  {"ADD", "ALL", "AND", "ASC", "END", "FOR", "INT", "KEY", "NOT", "OFF", "SET", "TOP", "AS",
   "BY", "IF", "IN", "IS", "OF", "ON", "OR", "TO"}

LaterKeywords ==
  {"SECOND", "MINUTE", "HOUR", "DAY", "MONTH", "YEAR", "SECONDS", "MINUTES", "HOURS", "DAYS",
   "MONTHS", "YEARS", "TRUE", "FALSE", "TRANSACTION", "BEGIN", "ROLLBACK", "COMMIT",
   "INTERVAL"}

Keywords ==
  KeywordsOf7AndMore \union KeywordsOf6 \union KeywordsOf5 \union KeywordsOf4
  \union KeywordsOf3And2 \union LaterKeywords

\* The operators of two characters and their tokens.
Operators ==
  [op \in {"==", "!=", "<>", "<=", ">=", "||"} |->
     CASE op = "==" -> "EQUALS" [] op \in {"!=", "<>"} -> "NOTEQUALS"
       [] op = "<=" -> "LESSEQ" [] op = ">=" -> "GREATEREQ" [] op = "||" -> "CONCAT"]

-----------------------------------------------------------------------------
\* How much of s each rule matches; 0 is no match.

Spelled(s) == FoldLeft(LAMBDA word, c : word \o c, "", s)
Span(s, chars) == Max({n \in 0..Len(s) : \A i \in 1..n : s[i] \in chars})
Behind(s, n) == SubSeq(s, n + 1, Len(s))
Literal(s, t) == IF IsPrefix(t, s) THEN Len(t) ELSE 0
OneOf(s, chars) == IF s[1] \in chars THEN 1 ELSE 0
LongestIn(s, words, most) ==
  Max({0} \union {n \in 1..Len(s) : n <= most /\ Spelled(SubSeq(s, 1, n)) \in words})

\* [0-9]+ "." [0-9]*  and  "." [0-9]*
FloatMatch(s) ==
  LET whole == Span(s, Digits)
      rest == Behind(s, whole)
  IN  IF rest # << >> /\ rest[1] = "." THEN whole + 1 + Span(Tail(rest), Digits) ELSE 0

\* \" [^\"\n]+ \"
QuotedMatch(s) ==
  LET inner == Span(Behind(s, 1), Characters \ {DoubleQuote, Newline})
  IN  IF s[1] = DoubleQuote /\ inner > 0 /\ inner + 2 <= Len(s) /\ s[inner + 2] = DoubleQuote
      THEN inner + 2 ELSE 0

WordMatch(s) == IF s[1] \in Letters THEN Span(s, WordChars) ELSE 0

\* %x singlequotedstring: its rules only.  %s COMMENT: its two rules and all of those
\* without a start condition.
StringMatches(s) ==
  <<[rule |-> "doubled", size |-> Literal(s, <<Quote, Quote>>)],
    [rule |-> "inside", size |-> Span(s, Characters \ {Quote})],
    [rule |-> "close", size |-> OneOf(s, {Quote})]>>

CommentMatches(s) ==
  <<[rule |-> "skip", size |-> Span(s, Characters \ {Newline})],
    [rule |-> "eol", size |-> OneOf(s, {Newline})]>>

PlainMatches(s) ==
  <<[rule |-> "blank", size |-> Span(s, Blanks)],
    [rule |-> "keyword", size |-> LongestIn(s, Keywords, 11)],
    [rule |-> "operator", size |-> LongestIn(s, DOMAIN Operators, 2)],
    [rule |-> "special", size |-> OneOf(s, Specials)],
    [rule |-> "float", size |-> FloatMatch(s)],
    [rule |-> "integer", size |-> Span(s, Digits)],
    [rule |-> "quoted", size |-> QuotedMatch(s)],
    [rule |-> "word", size |-> WordMatch(s)],
    [rule |-> "open", size |-> OneOf(s, {Quote})],
    [rule |-> "unknown", size |-> OneOf(s, Characters \ {Newline})]>>

Matches(s) ==
  IF start = "singlequotedstring" THEN StringMatches(s)
  ELSE <<[rule |-> "comment", size |-> Literal(s, <<"-", "-">>)]>>
       \o (IF start = "COMMENT" THEN CommentMatches(s) ELSE << >>)
       \o PlainMatches(s)

\* yy_match to yy_find_action.
Match ==
  LET all == Matches(Behind(text, pos))
      longest == Max({all[i].size : i \in DOMAIN all})
  IN  all[Min({i \in DOMAIN all : all[i].size = longest})]

-----------------------------------------------------------------------------
\* The actions.

\* strtoll with base 0: a leading 0 makes the number octal, up to the first digit
\* that is none.
DigitValue(d) == CASE d = "0" -> 0 [] d = "1" -> 1 [] d = "8" -> 8
StrToLL(digits) ==
  LET base == IF digits[1] = "0" THEN 8 ELSE 10
      used == Span(digits, {d \in Digits : DigitValue(d) < base})
  IN  FoldLeft(LAMBDA n, d : n * base + DigitValue(d), 0, SubSeq(digits, 1, used))

Token(token, val) == <<[token |-> token, last |-> pos + Match.size, val |-> val]>>

\* Out of range: what fprintf returns, 64 characters, is returned, and 64 is "@".
IntegerToken(yytext) ==
  IF StrToLL(yytext) > LLONG_MAX THEN Token("@", << >>) ELSE Token("INTVAL", StrToLL(yytext))

\* What rule r returns for yytext; nothing for a rule that goes on with the loop.
Returned(r, yytext) ==
  CASE r = "keyword" -> Token(Spelled(yytext), yytext)
    [] r = "operator" -> Token(Operators[Spelled(yytext)], yytext)
    [] r = "special" -> Token(yytext[1], yytext)
    [] r = "float" -> Token("FLOATVAL", yytext)
    [] r = "integer" -> IntegerToken(yytext)
    [] r = "quoted" -> Token("IDENTIFIER", SubSeq(yytext, 2, Len(yytext) - 1))
    [] r = "word" -> Token("IDENTIFIER", yytext)
    [] r = "close" -> Token("STRING", strbuf)
    [] OTHER -> << >>

Begin(r) ==
  CASE r = "comment" -> "COMMENT"
    [] r = "open" -> "singlequotedstring"
    [] r \in {"eol", "close"} -> "INITIAL"
    [] OTHER -> start

\* Mutant: strbuf is not cleared.
CollectedDirty(r, yytext) ==
  CASE r = "doubled" -> Append(strbuf, Quote)
    [] r = "inside" -> strbuf \o yytext
    [] OTHER -> strbuf

Collected(r, yytext) ==
  CASE r = "open" -> << >>
    [] r = "doubled" -> Append(strbuf, Quote)
    [] r = "inside" -> strbuf \o yytext
    [] OTHER -> strbuf

\* One turn of the loop.  A character no rule knows returns 0, as the end does.
YYLexTurn ==
  /\ scanning = "on" /\ pos < Len(text)
  /\ LET r == Match.rule
         yytext == SubSeq(text, pos + 1, pos + Match.size)
     IN  /\ tokens' = tokens \o Returned(r, yytext)
         /\ start' = Begin(r)
         /\ strbuf' = Collected(r, yytext)
         /\ scanning' = IF r = "unknown" THEN "ended" ELSE "on"
         /\ pos' = pos + Match.size
  /\ UNCHANGED text

\* The end of the text, also within a string.
YYTerminate ==
  /\ scanning = "on" /\ pos = Len(text)
  /\ scanning' = "ended"
  /\ UNCHANGED <<text, pos, start, strbuf, tokens>>

ScanInit ==
  /\ scanning = "on" /\ text \in Texts /\ strbuf \in Leftovers
  /\ pos = 0 /\ start = "INITIAL" /\ tokens = << >>

NotScanning ==
  /\ scanning = "off" /\ text = << >> /\ strbuf = << >>
  /\ pos = 0 /\ start = "INITIAL" /\ tokens = << >>

ScanNext == YYLexTurn \/ YYTerminate

-----------------------------------------------------------------------------
\* What the text is, character by character: in which region the characters up to
\* n leave the reader.

RegionAfter(n) ==
  FoldLeft(LAMBDA region, i :
             CASE region = "plain" /\ text[i] = Quote -> "string"
               [] region = "plain" /\ text[i] = DoubleQuote -> "quoted"
               [] region = "plain" /\ text[i] = "-" /\ i < Len(text) /\ text[i + 1] = "-" ->
                    "comment"
               [] region = "string" /\ text[i] = Quote -> "plain"
               [] region = "quoted" /\ text[i] = DoubleQuote -> "plain"
               [] region = "comment" /\ text[i] = Newline -> "plain"
               [] OTHER -> region,
           "plain", [i \in 1..n |-> i])

\* A comment does not end with its line if that line's newline stands among blanks:
\* the next line begins with a blank or is empty, or the comment is nothing but
\* blanks.  The rule for blanks then matches more than the one for the end of a
\* comment, or the one for its contents.
CommentGoesOn ==
  \E i \in 1..pos :
    /\ text[i] = Newline /\ RegionAfter(i - 1) = "comment"
    /\ \/ i < Len(text) /\ text[i + 1] \in Blanks
       \/ \E j \in 2..i - 2 : /\ RegionAfter(j - 2) = "plain" /\ RegionAfter(j - 1) = "comment"
                              /\ \A k \in j + 1..i : text[k] \in Blanks

\* The start condition follows the text.
StartFollowsText ==
  scanning = "on" =>
    start = CASE RegionAfter(pos) = "string" -> "singlequotedstring"
              [] RegionAfter(pos) = "comment" -> "COMMENT"
              [] OTHER -> "INITIAL"

Doubled(s) == FlattenSeq([i \in 1..Len(s) |-> IF s[i] = Quote THEN <<Quote, Quote>> ELSE <<s[i]>>])

\* What a token was written as.
Written(t) ==
  CASE t.token = "STRING" -> <<Quote>> \o Doubled(t.val) \o <<Quote>>
    [] t.token = "IDENTIFIER" /\ text[t.last] = DoubleQuote -> <<DoubleQuote>> \o t.val \o <<DoubleQuote>>
    [] t.token \in {"INTVAL", "@"} ->
         SubSeq(text, t.last + 1 - Max({n \in 1..t.last : \A i \in t.last - n + 1..t.last : text[i] \in Digits}), t.last)
    [] OTHER -> t.val

First(t) == t.last + 1 - Len(Written(t))

\* A token is what stands in the text, a string with its quotes doubled again, and a
\* word goes as far as it can and is a keyword if there is one of that spelling.
TokensAreWritten ==
  \A t \in ToSet(tokens) :
    /\ First(t) >= 1 /\ SubSeq(text, First(t), t.last) = Written(t)
    /\ text[First(t)] \in Letters =>
         /\ t.last < Len(text) => text[t.last + 1] \notin WordChars
         /\ t.token = IF Spelled(t.val) \in Keywords THEN Spelled(t.val) ELSE "IDENTIFIER"
    /\ t.token = "INTVAL" /\ text[First(t)] # "0" => ToString(t.val) = Spelled(Written(t))

\* No token begins within a string or a comment.
TokensBeginOutside ==
  \A t \in ToSet(tokens) : RegionAfter(First(t) - 1) = "plain"

\* Everything up to pos is a token, a blank, a comment, or the string that is open.
NothingIsSkipped ==
  scanning = "on" =>
    \A i \in 1..pos :
      \/ text[i] \in Blanks \/ "comment" \in {RegionAfter(i - 1), RegionAfter(i)}
      \/ \E t \in ToSet(tokens) : i \in First(t)..t.last
      \/ \A j \in i..pos : start = "singlequotedstring" /\ RegionAfter(j) # "comment"

\* The scanner reads every text as it is written, whatever an earlier text has left
\* in the static strbuf, until a character that no rule knows.  (An integer with a
\* leading 0 is read as octal.)  A comment that does not end with its line hides the
\* lines it goes on into; what is read behind it is still read as written.
ScannerReadsText ==
  /\ TokensAreWritten
  /\ CommentGoesOn \/ (StartFollowsText /\ TokensBeginOutside /\ NothingIsSkipped)
=============================================================================
