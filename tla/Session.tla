------------------------------ MODULE Session -------------------------------
(***************************************************************************)
(* One connection: network/client.cc's greeting, login and commands, the   *)
(* replies of executor/ in the packets of WireFormat, and a client that    *)
(* speaks the MySQL protocol in lock step.  TCP delivers what the client   *)
(* sends in pieces of any size, and Client::_HandlePacket takes whatever   *)
(* is in the receive buffer for one command.  Replies come byte for byte;  *)
(* of a command the model keeps which command a byte belongs to and its    *)
(* place in it.  What a statement does to the tables is in SqlEngine; here *)
(* a command carries the outcome of each of its statements.                *)
(***************************************************************************)
EXTENDS WireFormat, FiniteSets

CONSTANTS
  Plans,    \* what the client will do: a login and a sequence of commands
  Guesses,  \* the outcomes a text may have that no client wrote
  Salts,    \* the random bytes of a greeting
  Cuts      \* the places in a packet where a read may end before its end

VARIABLES
  plan,     \* the client's plan, chosen at the start
  salt,     \* the random bytes of this greeting
  up,       \* bytes sent by the client and not received: [cmd, place]
  recvBuf,  \* bytes received and not handled
  down,     \* what the server's calls of SendPacket have sent: byte sequences
  inbuf,    \* bytes the client has received and not taken
  phase,    \* what the client waits for
  current,  \* the number of the command sent last, 0 for the login
  want,     \* the sequence number the client expects next
  left,     \* column definitions the client still expects
  answer,   \* what the client has read of the answer to the current command
  names,    \* the names the server has read from the login
  trouble,  \* what has happened that the server is not made for
  crashed   \* an exception has ended the server

clientVars == <<inbuf, phase, current, want, left, answer>>
vars == <<plan, salt, up, recvBuf, down, clientVars, names, trouble, crashed>>

-----------------------------------------------------------------------------
(* What the client sends *)

COM_QUERY == 3
TextSize == 2

\* The login packet of the protocol, with its header.
LoginPacket(l) ==
  LET flags == 2^Protocol41 + 2^SecureConnection
               + (IF l.database = NoName THEN 0 ELSE 2^ConnectWithDB)
               + (IF l.pluginName = NoName THEN 0 ELSE 2^PluginAuth)
      Ended(name) == IF name = NoName THEN <<>> ELSE name \o <<0>>
      body == WriteU32(flags) \o WriteU32(0) \o <<33>> \o Zeros(23) \o l.user \o <<0>>
              \o <<Len(l.response)>> \o l.response
              \o Ended(l.database) \o Ended(l.pluginName)
  IN  <<Len(body), 0, 0, 1>> \o body

\* The packets of the plans' logins, tabulated, and the names UnPack reads there.
LoginPackets == [l \in {p.login : p \in Plans} |-> LoginPacket(l)]
LoginNames ==
  [l \in DOMAIN LoginPackets |->
     AuthUnPack(SubSeq(LoginPackets[l], 5, Len(LoginPackets[l])))]

\* A command is its header, the command byte and the text.
SizeOf(i) ==
  CASE i = 0 -> Len(LoginPackets[plan.login])
    [] i # 0 /\ plan.commands[i].code = COM_QUERY -> 5 + TextSize
    [] OTHER -> 5

Bytes(i) == [j \in 1..SizeOf(i) |-> [cmd |-> i, place |-> j]]

\* The value of a byte; a letter of a text is none of those the server looks for.
Letter == 97
ValueOf(b) ==
  CASE b.cmd = 0 -> LoginPackets[plan.login][b.place]
    [] b.cmd # 0 /\ b.place = 1 -> SizeOf(b.cmd) - 4
    [] b.cmd # 0 /\ b.place \in 2..4 -> 0
    [] b.cmd # 0 /\ b.place = 5 -> plan.commands[b.cmd].code
    [] OTHER -> Letter

-----------------------------------------------------------------------------
(* What the server answers: what goes out for a packet with number seq. *)

\* Client::OnConnect.  The version and the plugin name stand for theirs.
ServerGreeting ==
  Greeting(1, [i \in 1..12 |-> 85], [i \in 1..21 |-> 109], salt)

Next8(seq) == (seq + 1) % 256

SendOkMessageToClient(seq, reply) ==
  Packet(Next8(seq), OkPack(reply.affected, 0, 2, reply.warnings))

SendErrorMessageToClient(seq) ==
  Packet(Next8(seq), ErrPack(50, <<65, 66, 67, 68, 69>>, <<Letter>>))

\* The packets of a result set: the number of columns, the columns, EOF, the
\* rows, EOF.  They are numbered from 1 on whatever the command's number was.
FieldOf(reply, i) ==
  [name |-> reply.columns[i], type |-> "VARCHAR", table |-> reply.table,
   orgTable |-> reply.table, dataBase |-> reply.database, orgName |-> reply.columns[i],
   columnLength |-> 80, charset |-> 33, decimals |-> 0]

ResultSet(reply) ==
  <<WriteU8(Len(reply.columns))>>
  \o [i \in 1..Len(reply.columns) |-> FieldPack(FieldOf(reply, i))]
  \o <<EofPack(0, 2)>>
  \o [i \in 1..Len(reply.rows) |-> RowPack(reply.rows[i])]
  \o <<EofPack(0, 2)>>

SendResultSetToClient(reply) ==
  LET packets == ResultSet(reply)
  IN  [i \in 1..Len(packets) |-> Packet(i % 256, packets[i])]

\* The result sets of the plans, tabulated, and those of a shape the server is not
\* made for: a packet too long for one byte of length, a row that is shorter or
\* longer than the list of columns (it is as long as its INSERT's list), a number
\* of columns that stands for something else in the one byte written for it.
RowReplies ==
  {r \in UNION {Range(c.replies) : c \in UNION {Range(p.commands) : p \in Plans}} :
     r.kind = "rows"}
ResultSets == [r \in RowReplies |-> SendResultSetToClient(r)]
Oversize == {r \in RowReplies : \E p \in Range(ResultSet(r)) : Len(p) > 255}
Ragged == {r \in RowReplies : \E i \in 1..Len(r.rows) : Len(r.rows[i]) # Len(r.columns)}
Crowded == {r \in RowReplies : Len(r.columns) \notin 1..250}

SendReply(seq, reply) ==
  CASE reply.kind = "ok" -> <<SendOkMessageToClient(seq, reply)>>
    [] reply.kind = "err" -> <<SendErrorMessageToClient(seq)>>
    [] reply.kind = "rows" -> ResultSets[reply]

\* Mutant: an error is not reported.
ExecSilent(seq, replies) ==
  FlattenSeq([i \in 1..Len(replies) |->
    IF replies[i].kind = "err" THEN <<>> ELSE SendReply(seq, replies[i])])

\* Executor::Exec: one reply for each statement, all to the same number.
Exec(seq, replies) == FlattenSeq([i \in 1..Len(replies) |-> SendReply(seq, replies[i])])

Plain(kind) == [kind |-> kind, affected |-> 0, warnings |-> 0]

-----------------------------------------------------------------------------
(* Which plans there are *)

Byte == 0..255

\* A reply: its numbers fit their fields; a result has any columns and rows.
OkReplies == [kind : {"ok"}, affected : 0..2^24 - 1, warnings : 0..2^16 - 1]
TableReplies ==
  [kind : {"rows"}, database : Seq(Byte), table : Seq(Byte),
   columns : Seq(Seq(Byte)), rows : Seq(Seq(Seq(Byte)))]
Replies == OkReplies \union {Plain("err")} \union TableReplies

\* A name ends at a zero byte and has none.  A command has a statement at least.
Logins == [user : Seq(1..255), response : Seq(Byte), database : Seq(1..255),
           pluginName : Seq(1..255)]
Commands == [code : Byte, replies : Seq(Replies) \ {<<>>}]

ASSUME PlansAssumption ==
  \A p \in Plans : p \in [login : Logins, modern : BOOLEAN, commands : Seq(Commands)]
ASSUME SaltsAssumption == Salts \subseteq [1..20 -> Nat]

-----------------------------------------------------------------------------
Init ==
  /\ plan \in Plans
  /\ salt \in Salts
  /\ up = <<>> /\ recvBuf = <<>> /\ down = <<>> /\ inbuf = <<>>
  /\ phase = "new" /\ current = 0 /\ want = 0 /\ left = 0 /\ answer = Plain("none")
  /\ names = [user |-> NoName, database |-> NoName, pluginName |-> NoName]
  /\ trouble = {} /\ crashed = FALSE

OnConnect ==
  /\ phase = "new"
  /\ phase' = "greeting"
  /\ down' = <<Packet(0, GreetingPack(ServerGreeting))>>
  /\ UNCHANGED <<plan, salt, up, recvBuf, inbuf, current, want, left, answer, names, trouble,
                 crashed>>

\* One readv: what has arrived of the bytes on their way.
Recv(n) ==
  /\ ~crashed
  /\ n = Len(up) \/ up[n].place \in Cuts \/ up[n].place = SizeOf(up[n].cmd)
  /\ recvBuf' = recvBuf \o SubSeq(up, 1, n)
  /\ up' = SubSeq(up, n + 1, Len(up))
  /\ UNCHANGED <<plan, salt, down, clientVars, names, trouble, crashed>>

\* The text as the parser sees it, up to the first zero byte.
Text ==
  LET letters == {j \in 6..Len(recvBuf) : \A k \in 6..j : ValueOf(recvBuf[k]) # 0}
  IN  SubSeq(recvBuf, 6, 5 + Cardinality(letters))

\* The outcomes the text can have: its client's, if it is the text of a command,
\* an error if there is no text, and any guess if it is a piece of one or more.
Meanings ==
  LET whole == {i \in 1..Len(plan.commands) :
                  plan.commands[i].code = COM_QUERY /\ Text = SubSeq(Bytes(i), 6, SizeOf(i))}
  IN  CASE whole # {} -> {plan.commands[i].replies : i \in whole}
        [] Text = <<>> -> {<<Plain("err")>>}
        [] OTHER -> Guesses

\* The receive buffer holds one command, the whole of it and nothing else.
ReadWhole == \E i \in 0..Len(plan.commands) : recvBuf = Bytes(i)

IsLogin == ValueOf(recvBuf[4]) = 1

\* What about this packet and its reply the server is not made for.
TroubleOf(replies) ==
  {t \in {"mangled", "several", "oversize", "ragged", "crowded", "modern", "code"} :
     \/ t = "mangled" /\ ~ReadWhole
     \/ t = "several" /\ Len(replies) > 1
     \/ t = "oversize" /\ \E i \in DOMAIN replies : replies[i] \in Oversize
     \/ t = "ragged" /\ \E i \in DOMAIN replies : replies[i] \in Ragged
     \/ t = "crowded" /\ \E i \in DOMAIN replies : replies[i] \in Crowded
     \/ t = "modern" /\ plan.modern /\ \E i \in DOMAIN replies : replies[i].kind = "rows"
     \/ t = "code" /\ ReadWhole /\ ~IsLogin /\ ValueOf(recvBuf[5]) # COM_QUERY}

\* Client::_HandlePacket takes all there is.  With less than five bytes the
\* string constructor gets its end before its start and throws.
HandleShort ==
  /\ ~crashed /\ recvBuf # <<>>
  /\ Len(recvBuf) < 5
  /\ crashed' = TRUE
  /\ trouble' = trouble \union TroubleOf(<<>>)
  /\ UNCHANGED <<plan, salt, up, recvBuf, down, clientVars, names>>

HandleLogin ==
  /\ ~crashed /\ Len(recvBuf) >= 5
  /\ IsLogin
  /\ names' = IF ReadWhole THEN LoginNames[plan.login] ELSE names
  /\ down' = Append(down, SendOkMessageToClient(1, Plain("ok")))
  /\ recvBuf' = <<>>
  /\ trouble' = trouble \union TroubleOf(<<Plain("ok")>>)
  /\ UNCHANGED <<plan, salt, up, clientVars, crashed>>

HandleCommand ==
  /\ ~crashed /\ Len(recvBuf) >= 5
  /\ ~IsLogin
  /\ \E replies \in Meanings :
       /\ down' = down \o Exec(ValueOf(recvBuf[4]), replies)
       /\ trouble' = trouble \union TroubleOf(replies)
  /\ recvBuf' = <<>>
  /\ UNCHANGED <<plan, salt, up, clientVars, names, crashed>>

-----------------------------------------------------------------------------
(* The client.  It reads the length of a packet from three bytes, checks the  *)
(* sequence number and decodes by the protocol, in definitions of its own.    *)

FrameSize == FromBytes(inbuf, 1, 3)
FrameReady == Len(inbuf) >= 4 /\ Len(inbuf) >= 4 + FrameSize
Payload == SubSeq(inbuf, 5, 4 + FrameSize)

\* A length-encoded number by the protocol: its value, where the next byte is.
ProtocolNumber(p, at) ==
  LET first == IF at \in DOMAIN p THEN p[at] ELSE 256
      wide == CASE first < 251 -> 0 [] first = 252 -> 2 [] first = 253 -> 3 [] OTHER -> 9
  IN  IF at + wide > Len(p) \/ wide = 9 THEN [val |-> -1, at |-> at]
      ELSE IF wide = 0 THEN [val |-> first, at |-> at + 1]
      ELSE [val |-> FromBytes(p, at + 1, wide), at |-> at + 1 + wide]

\* n length-encoded strings and the rest of the packet, or ok = FALSE.
ProtocolStrings(p, n) ==
  LET read[i \in 0..n] ==
        IF i = 0 THEN [ok |-> TRUE, strings |-> <<>>, at |-> 1]
        ELSE LET before == read[i - 1]
                 len == ProtocolNumber(p, before.at)
                 end == len.at + len.val - 1
             IN  IF before.ok /\ len.val >= 0 /\ end <= Len(p)
                   THEN [ok |-> TRUE, at |-> end + 1,
                         strings |-> Append(before.strings, SubSeq(p, len.at, end))]
                   ELSE [before EXCEPT !.ok = FALSE]
  IN  [ok |-> read[n].ok, strings |-> read[n].strings,
       rest |-> SubSeq(p, read[n].at, Len(p))]

IsEof(p) == p # <<>> /\ p[1] = 254 /\ Len(p) < 9

\* The client's new state [phase, left, answer] after payload p.
Turn(newPhase, newLeft, newAnswer) ==
  [phase |-> newPhase, left |-> newLeft, answer |-> newAnswer]
LostTurn == Turn("lost", 0, answer)

FirstTurn(p) ==
  CASE p = <<>> -> LostTurn
    [] p # <<>> /\ p[1] = 0 ->
         Turn("idle", 0, [kind |-> "ok", affected |-> ProtocolNumber(p, 2).val,
                          warnings |-> FromBytes(p, Len(p) - 1, 2)])
    [] p # <<>> /\ p[1] = 255 -> Turn("idle", 0, Plain("err"))
    [] p # <<>> /\ p[1] \in 251..254 -> LostTurn
    [] OTHER -> Turn("fields", p[1], [kind |-> "rows", columns |-> <<>>, rows |-> <<>>])

FieldTurn(p) ==
  LET field == ProtocolStrings(p, 6)
  IN  IF ~field.ok \/ Len(field.rest) # 13 THEN LostTurn
      ELSE Turn(IF left > 1 THEN "fields" ELSE IF plan.modern THEN "rows" ELSE "eof",
                left - 1,
                [answer EXCEPT !.columns = Append(@, [strings |-> field.strings,
                                                      rest |-> field.rest])])

RowTurn(p) ==
  LET row == ProtocolStrings(p, Len(answer.columns))
  IN  CASE IsEof(p) -> Turn("idle", 0, answer)
        [] ~IsEof(p) /\ row.ok /\ row.rest = <<>> ->
             Turn("rows", 0, [answer EXCEPT !.rows = Append(@, row.strings)])
        [] OTHER -> LostTurn

PhaseTurn(p) ==
  CASE phase = "login" -> IF p[1] = 0 THEN Turn("idle", 0, answer) ELSE LostTurn
    [] phase = "query" -> FirstTurn(p)
    [] phase = "fields" -> FieldTurn(p)
    [] phase = "eof" -> IF IsEof(p) THEN Turn("rows", 0, answer) ELSE LostTurn
    [] phase = "rows" -> RowTurn(p)

\* The client reads on while it has no whole packet.
ClientReceives ==
  /\ phase \notin {"idle", "lost"} /\ ~FrameReady /\ down # <<>>
  /\ inbuf' = inbuf \o Head(down)
  /\ down' = Tail(down)
  /\ UNCHANGED <<plan, salt, up, recvBuf, phase, current, want, left, answer, names,
                 trouble, crashed>>

\* A packet that is awaited: it must carry the number the client expects.
Waits == phase \in {"login", "query", "fields", "eof", "rows"}

ClientTakes ==
  /\ Waits /\ FrameReady
  /\ LET turn == IF inbuf[4] = want THEN PhaseTurn(Payload) ELSE LostTurn
     IN  phase' = turn.phase /\ left' = turn.left /\ answer' = turn.answer
  /\ inbuf' = SubSeq(inbuf, 5 + FrameSize, Len(inbuf))
  /\ want' = Next8(want)
  /\ UNCHANGED <<plan, salt, up, recvBuf, down, current, names, trouble, crashed>>

\* The greeting is answered by the login.
ClientLogsIn ==
  /\ phase = "greeting" /\ FrameReady
  /\ inbuf[4] = 0 /\ Payload[1] = 10
  /\ phase' = "login" /\ want' = 2
  /\ up' = Bytes(0)
  /\ inbuf' = SubSeq(inbuf, 5 + FrameSize, Len(inbuf))
  /\ UNCHANGED <<plan, salt, recvBuf, down, current, left, answer, names, trouble, crashed>>

\* The next command, once the last one is answered.
ClientSends ==
  /\ phase = "idle" /\ down = <<>> /\ inbuf = <<>>
  /\ current < Len(plan.commands)
  /\ current' = current + 1
  /\ up' = up \o Bytes(current + 1)
  /\ phase' = "query" /\ want' = 1 /\ left' = 0 /\ answer' = Plain("none")
  /\ UNCHANGED <<plan, salt, recvBuf, down, inbuf, names, trouble, crashed>>

\* Bytes that no command of the client asked for.
ClientIsSurprised ==
  /\ phase = "idle" /\ (down # <<>> \/ inbuf # <<>>)
  /\ phase' = "lost"
  /\ UNCHANGED <<plan, salt, up, recvBuf, down, inbuf, current, want, left, answer,
                 names, trouble, crashed>>

Next ==
  \/ OnConnect
  \/ \E n \in 1..Len(up) : Recv(n)
  \/ HandleShort \/ HandleLogin \/ HandleCommand
  \/ ClientReceives \/ ClientLogsIn \/ ClientTakes \/ ClientSends \/ ClientIsSurprised

\* The kernel delivers what was sent, the server's loops call Recv and
\* _HandlePacket again and again, and a client that waits for an answer reads.
\* Nothing makes a client send another command.
Fairness ==
  /\ WF_vars(OnConnect)
  /\ WF_vars(\E n \in 1..Len(up) : Recv(n))
  /\ WF_vars(HandleShort) /\ WF_vars(HandleLogin) /\ WF_vars(HandleCommand)
  /\ WF_vars(ClientReceives) /\ WF_vars(ClientLogsIn)
  \* WF_vars(ClientTakes), with what enables it written out
  /\ []<>~(Waits /\ FrameReady) \/ []<><<ClientTakes>>_vars

Spec == Init /\ [][Next]_vars /\ Fairness

-----------------------------------------------------------------------------
\* What the protocol should carry to the client for a reply.
Intended(reply) ==
  IF reply.kind # "rows" THEN reply
  ELSE [kind |-> "rows", rows |-> reply.rows,
        columns |-> [i \in 1..Len(reply.columns) |->
          [strings |-> <<<<100, 101, 102>>, reply.database, reply.table, reply.table,
                         reply.columns[i], reply.columns[i]>>,
           rest |-> <<12>> \o <<33, 0>> \o <<80, 0, 0, 0>> \o <<253>> \o <<0, 0>> \o <<0>>
                    \o <<0, 0>>]]]

\* As long as commands arrive whole, carry one statement, are queries, are
\* asked by a client of the documented version, and no result has a packet of 256
\* bytes or more, a row of another width than its 1 to 250 columns, what the client
\* reads by the protocol is the reply the server meant to give to the very command
\* the client has sent: every column, every row, every cell, at each width of a
\* length and past the wrap of the sequence number.
AnswerIsTheServers ==
  (trouble = {} /\ phase = "idle" /\ current > 0)
    => answer = Intended(plan.commands[current].replies[1])

\* Only the kinds of trouble that TroubleOf lists bring a client out of step (a
\* packet out of order, a malformed one, one nobody asked for), whatever a result
\* holds, and the server falls only over a read that is not a whole command: the
\* string that throws is never made for a command that has arrived.
InStepWithoutTrouble ==
  /\ phase = "lost" => trouble # {}
  /\ crashed => "mangled" \in trouble

\* The names the server reads from a login are those the client has put there,
\* if the client has sent no password.
LoginNamesRead ==
  (current > 0 /\ trouble = {} /\ plan.login.response = <<>>) =>
    names = [user |-> plan.login.user, database |-> plan.login.database,
             pluginName |-> plan.login.pluginName]

\* The type of a column is read back from its code and flags: for VARCHAR, the one
\* the server sends for all columns, and for the other types.
TypesReadBack(field) ==
  \A t \in DOMAIN TYPE_TO_MYSQL :
    FieldUnPack(FieldPack([field EXCEPT !.type = t])) = [field EXCEPT !.type = t]

\* What the repository's own UnPack functions make of the packet the client
\* takes next is what went into it: greeting, columns of any of the thirty types,
\* end marks and rows.
UnPackInvertsPack ==
  (trouble = {} /\ FrameReady /\ phase # "idle") =>
    LET reply == plan.commands[current].replies[1] IN
    CASE phase = "greeting" -> GreetingUnPack(Payload) = ServerGreeting
      [] phase = "fields" ->
           LET field == FieldOf(reply, Len(reply.columns) - left + 1)
           IN  FieldUnPack(Payload) = field /\ TypesReadBack(field)
      [] phase = "eof" \/ (phase = "rows" /\ IsEof(Payload)) ->
           EofUnPack(Payload) = [header |-> 254, warnings |-> 0, statusFlags |-> 2]
      [] phase = "rows" /\ ~IsEof(Payload) ->
           RowUnPack(Payload, Len(reply.columns)) = reply.rows[Len(answer.rows) + 1]
      [] OTHER -> TRUE

\* A command is answered, in pieces or whole: the client's wait ends, unless a
\* short read ends the server or a packet of 256 bytes or more spoils the count.
EveryCommandAnswered ==
  Waits ~> (phase \in {"idle", "lost"} \/ crashed \/ "oversize" \in trouble)
=============================================================================
