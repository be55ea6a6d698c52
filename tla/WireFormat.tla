----------------------------- MODULE WireFormat -----------------------------
(***************************************************************************)
(* The byte formats of the MySQL protocol as network/protocol_buffer.cc,   *)
(* greeting.cc, auth.cc, ok.cc, err.cc, eof.cc, field.cc and type.h write  *)
(* and read them.  A packet is a sequence of bytes.  A reader takes the    *)
(* packet and the place it reads at (the iterator) and returns the value   *)
(* with the place behind it.  Values are below 2^31, TLC's integers, so    *)
(* the upper half of a 64-bit number is zero.                              *)
(***************************************************************************)
EXTENDS Integers, Sequences, SequencesExt

\* The n low bytes of v, the lowest first; n is at most 4.
LittleEndian(v, n) == [k \in 1..n |-> (v \div 256^(k - 1)) % 256]

\* The number that n bytes of p from place at on stand for.
FromBytes(p, at, n) ==
  LET part[k \in 0..n] ==
        IF k = 0 THEN 0 ELSE part[k - 1] + p[at + k - 1] * 256^(k - 1)
  IN  part[n]

Read(v, at) == [val |-> v, at |-> at]

ReadU8(p, at) == Read(p[at], at + 1)
ReadU16(p, at) == Read(FromBytes(p, at, 2), at + 2)
\* The function adds up three bytes and returns a uint16_t.
ReadU24(p, at) == Read(FromBytes(p, at, 3) % 2^16, at + 3)
ReadU32(p, at) == Read(FromBytes(p, at, 4), at + 4)
\* Of a number below 2^31 the upper four bytes add nothing, whatever the
\* shifts by 32 and more do to them.
ReadU64(p, at) == Read(FromBytes(p, at, 4), at + 8)

\* For 0xfb the function returns the address of a function instead of a number.
ReadLenEncode(p, at) ==
  LET u8 == ReadU8(p, at)
  IN  CASE u8.val = 251 -> Read("address", u8.at)
        [] u8.val = 252 -> ReadU16(p, u8.at)
        [] u8.val = 253 -> ReadU24(p, u8.at)
        [] u8.val = 254 -> ReadU64(p, u8.at)
        [] OTHER -> u8

ReadString(p, at, n) == Read(SubSeq(p, at, at + n - 1), at + n)

ReadLenEncodeString(p, at) ==
  LET len == ReadLenEncode(p, at) IN ReadString(p, len.at, len.val)

WriteU8(v) == LittleEndian(v, 1)
\* Mutant: the upper byte first.
WriteU16Swapped(v) == Reverse(LittleEndian(v, 2))
WriteU16(v) == LittleEndian(v, 2)
WriteU24(v) == LittleEndian(v, 3)
WriteU32(v) == LittleEndian(v, 4)
WriteU64(v) == LittleEndian(v, 4) \o <<0, 0, 0, 0>>

\* Mutant: off by one at 251, which then reads as the mark of a NULL.
WriteLenEncodeOffByOne(v) == IF v <= 251 THEN WriteU8(v) ELSE <<252>> \o WriteU16(v)

WriteLenEncode(v) ==
  CASE v < 251 -> WriteU8(v)
    [] v >= 251 /\ v < 2^16 -> <<252>> \o WriteU16(v)
    [] v >= 2^16 /\ v < 2^24 -> <<253>> \o WriteU24(v)
    [] OTHER -> <<254>> \o WriteU64(v)

WriteLenEncodeString(s) == WriteLenEncode(Len(s)) \o s

\* std::find from at on for a zero byte.  Started behind the end it returns
\* the end, as libstdc++'s does.
FindZero(p, at) ==
  IF at > Len(p) THEN Len(p) + 1
  ELSE CHOOSE i \in at..Len(p) + 1 :
         /\ i \in DOMAIN p => p[i] = 0
         /\ \A j \in at..i - 1 : p[j] # 0

Zeros(n) == [i \in 1..n |-> 0]
HasFlag(flags, bit) == (flags \div 2^bit) % 2 = 1

-----------------------------------------------------------------------------
(* Greeting.  Names and versions are byte sequences. *)

\* The flags of DEFAULT_SERVER_CAPABILITY.
Capability == 2^0 + 2^2 + 2^3 + 2^9 + 2^13 + 2^15 + 2^16 + 2^19 + 2^24

Greeting(connectionID, version, plugin, salt) ==
  [protocolVersion |-> 10, serverVersion |-> version, connectionID |-> connectionID,
   capability |-> Capability, charset |-> 33, status |-> 2,
   saltPart1 |-> [i \in 1..8 |-> salt[i] % 123],
   saltPart2 |-> [i \in 1..12 |-> salt[8 + i] % 123],
   authPluginName |-> plugin]

GreetingPack(g) ==
  <<g.protocolVersion>> \o g.serverVersion \o <<0>> \o WriteU32(g.connectionID)
  \o g.saltPart1 \o <<0>> \o WriteU16(g.capability % 2^16) \o <<g.charset>>
  \o WriteU16(g.status) \o WriteU16(g.capability \div 2^16) \o <<21>> \o Zeros(10)
  \o g.saltPart2 \o <<0>> \o g.authPluginName \o <<0>>

\* Of a well-formed greeting; the two early returns are for one without an end.
GreetingUnPack(p) ==
  LET end == FindZero(p, 2)
      seek == end + 1
      name == seek + 44
      nameEnd == FindZero(p, name)
  IN  [protocolVersion |-> p[1],
       serverVersion |-> SubSeq(p, 2, end - 1),
       connectionID |-> ReadU32(p, seek).val,
       saltPart1 |-> SubSeq(p, seek + 4, seek + 11),
       capability |-> ReadU16(p, seek + 18).val * 2^16 + ReadU16(p, seek + 13).val,
       charset |-> p[seek + 15],
       status |-> ReadU16(p, seek + 16).val,
       saltPart2 |-> SubSeq(p, seek + 31, seek + 42),
       authPluginName |-> SubSeq(p, name, nameEnd - 1)]

-----------------------------------------------------------------------------
(* The client's login.  The answer of AuthPacket::UnPack is not looked at by *)
(* its caller; what matters is the names it has read.                        *)

ConnectWithDB == 3
Protocol41 == 9
SecureConnection == 15
PluginAuth == 19

\* A name that ends in a zero byte: the name and the place behind the zero, or
\* no end, where UnPack returns.
ReadNulString(p, at) ==
  LET end == FindZero(p, at)
  IN  [val |-> SubSeq(p, at, end - 1), at |-> end + 1, found |-> end <= Len(p)]

NoName == <<>>

\* Mutant: the user name starts one byte early, in the reserved bytes.
AuthUnPackEarly(p) ==
  [user |-> ReadNulString(p, 32).val, database |-> NoName, pluginName |-> NoName]

AuthUnPack(p) ==
  LET flags == ReadU32(p, 1).val
      user == ReadNulString(p, 33)
      len == p[user.at]
      \* the bytes of the response are passed over twice
      behind == IF HasFlag(flags, SecureConnection) THEN user.at + 1 + 2 * len
                                                    ELSE user.at + 21
      withDB == HasFlag(flags, ConnectWithDB)
      db == IF withDB THEN ReadNulString(p, behind)
                      ELSE [val |-> NoName, at |-> behind, found |-> TRUE]
      plugin == IF HasFlag(flags, PluginAuth) THEN ReadNulString(p, db.at)
                                              ELSE [val |-> NoName, found |-> TRUE]
      Names(u, d, n) == [user |-> u, database |-> d, pluginName |-> n]
  IN  CASE ~HasFlag(flags, Protocol41) -> Names(NoName, NoName, NoName)
        [] ~user.found -> Names(NoName, NoName, NoName)
        [] ~db.found -> Names(user.val, NoName, NoName)
        [] ~plugin.found -> Names(user.val, db.val, NoName)
        [] OTHER -> Names(user.val, db.val, plugin.val)

-----------------------------------------------------------------------------
(* Answers *)

OK_PACKET == 0
ERR_PACKET == 255
EOF_PACKET == 254

OkPack(affectedRows, lastInsertID, statusFlags, warnings) ==
  WriteU8(OK_PACKET) \o WriteLenEncode(affectedRows) \o WriteLenEncode(lastInsertID)
  \o WriteU16(statusFlags) \o WriteU16(warnings)

\* An empty sqlState stays empty: the line that would set it compares.
ErrPack(errorCode, sqlState, errorMessage) ==
  WriteU8(ERR_PACKET) \o WriteU16(errorCode) \o <<35>> \o sqlState \o errorMessage

EofPack(warnings, statusFlags) ==
  <<EOF_PACKET>> \o LittleEndian(warnings, 2) \o LittleEndian(statusFlags, 2)

EofUnPack(p) ==
  [header |-> p[1], warnings |-> FromBytes(p, 2, 2), statusFlags |-> FromBytes(p, 4, 2)]

RowPack(row) == FlattenSeq([i \in 1..Len(row) |-> WriteLenEncodeString(row[i])])

RowUnPack(p, colCount) ==
  LET cell[i \in 0..colCount] ==
        IF i = 0 THEN Read(<<>>, 1) ELSE ReadLenEncodeString(p, cell[i - 1].at)
  IN  [i \in 1..colCount |-> cell[i].val]

-----------------------------------------------------------------------------
(* Column types.  A type is named without its TYPE_ prefix. *)

MYSQL_UNSIGNED == 32
MYSQL_BINARY == 128
MYSQL_ENUM == 256
MYSQL_SET == 2048

MySQLCode(typ, flags) == [typ |-> typ, flags |-> flags]

TYPE_TO_MYSQL ==
  [INT8 |-> MySQLCode(1, 0), UINT8 |-> MySQLCode(1, MYSQL_UNSIGNED),
   INT16 |-> MySQLCode(2, 0), UINT16 |-> MySQLCode(2, MYSQL_UNSIGNED),
   INT32 |-> MySQLCode(3, 0), UINT32 |-> MySQLCode(3, MYSQL_UNSIGNED),
   FLOAT32 |-> MySQLCode(4, 0), FLOAT64 |-> MySQLCode(5, 0),
   NULL_TYPE |-> MySQLCode(6, MYSQL_BINARY), TIMESTAMP |-> MySQLCode(7, 0),
   INT64 |-> MySQLCode(8, 0), UINT64 |-> MySQLCode(8, MYSQL_UNSIGNED),
   INT24 |-> MySQLCode(9, 0), UINT24 |-> MySQLCode(9, MYSQL_UNSIGNED),
   DATE |-> MySQLCode(10, MYSQL_BINARY), TIME |-> MySQLCode(11, MYSQL_BINARY),
   DATETIME |-> MySQLCode(12, MYSQL_BINARY), YEAR |-> MySQLCode(13, MYSQL_UNSIGNED),
   BIT |-> MySQLCode(16, MYSQL_UNSIGNED), JSON |-> MySQLCode(245, 0),
   DECIMAL |-> MySQLCode(246, 0), TEXT |-> MySQLCode(252, 0),
   BLOB |-> MySQLCode(252, MYSQL_BINARY), VARCHAR |-> MySQLCode(253, 0),
   VARBINARY |-> MySQLCode(253, MYSQL_BINARY), CHAR |-> MySQLCode(254, 0),
   BINARY |-> MySQLCode(254, MYSQL_BINARY), ENUM |-> MySQLCode(254, MYSQL_ENUM),
   SET |-> MySQLCode(254, MYSQL_SET), GEOMETRY |-> MySQLCode(255, 0)]

\* A code the map lacks yields the map's default, 0, which is TYPE_NULL_TYPE.
MYSQL_TO_TYPE_MAP(code) ==
  LET low == <<"INT8", "INT16", "INT32", "FLOAT32", "FLOAT64", "NULL_TYPE", "TIMESTAMP",
               "INT64", "INT24", "DATE", "TIME", "DATETIME", "YEAR">>
  IN  CASE code \in 1..13 -> low[code]
        [] code = 16 -> "BIT"
        [] code = 245 -> "JSON"
        [] code = 246 -> "DECIMAL"
        [] code \in 249..252 -> "TEXT"
        [] code = 253 -> "VARCHAR"
        [] code = 254 -> "CHAR"
        [] code = 255 -> "GEOMETRY"
        [] OTHER -> "NULL_TYPE"

UnsignedOf == [INT8 |-> "UINT8", INT16 |-> "UINT16", INT32 |-> "UINT32",
               INT64 |-> "UINT64", INT24 |-> "UINT24"]
BinaryOf == [TEXT |-> "BLOB", VARCHAR |-> "VARBINARY", CHAR |-> "BINARY"]

\* Mutant: the flags are looked at for integers only.
MySQLToTypeUnsigned(mysqlType, flags) ==
  LET typ == MYSQL_TO_TYPE_MAP(mysqlType)
  IN  IF typ \in DOMAIN UnsignedOf /\ HasFlag(flags, 5) THEN UnsignedOf[typ] ELSE typ

MySQLToType(mysqlType, flags) ==
  LET typ == MYSQL_TO_TYPE_MAP(mysqlType)
  IN  CASE typ \in DOMAIN UnsignedOf /\ HasFlag(flags, 5) -> UnsignedOf[typ]
        [] typ \in DOMAIN BinaryOf /\ HasFlag(flags, 7) -> BinaryOf[typ]
        [] typ = "CHAR" /\ ~HasFlag(flags, 7) /\ HasFlag(flags, 8) -> "ENUM"
        [] typ = "CHAR" /\ ~HasFlag(flags, 7) /\ ~HasFlag(flags, 8) /\ HasFlag(flags, 11) -> "SET"
        [] OTHER -> typ

FieldPack(f) ==
  LET code == TYPE_TO_MYSQL[f.type]
  IN  WriteLenEncodeString(<<100, 101, 102>>) \o WriteLenEncodeString(f.dataBase)
      \o WriteLenEncodeString(f.table) \o WriteLenEncodeString(f.orgTable)
      \o WriteLenEncodeString(f.name) \o WriteLenEncodeString(f.orgName)
      \o WriteLenEncode(12) \o WriteU16(f.charset) \o WriteU32(f.columnLength)
      \o WriteU8(code.typ) \o WriteU16(code.flags) \o WriteU8(f.decimals) \o WriteU16(0)

FieldUnPack(p) ==
  LET catalog == ReadLenEncodeString(p, 1)
      dataBase == ReadLenEncodeString(p, catalog.at)
      table == ReadLenEncodeString(p, dataBase.at)
      orgTable == ReadLenEncodeString(p, table.at)
      name == ReadLenEncodeString(p, orgTable.at)
      orgName == ReadLenEncodeString(p, name.at)
      fixed == ReadLenEncode(p, orgName.at)
      charset == ReadU16(p, fixed.at)
      columnLength == ReadU32(p, charset.at)
      t == ReadU8(p, columnLength.at)
      flags == ReadU16(p, t.at)
  IN  [name |-> name.val, type |-> MySQLToType(t.val, flags.val), table |-> table.val,
       orgTable |-> orgTable.val, dataBase |-> dataBase.val, orgName |-> orgName.val,
       columnLength |-> columnLength.val, charset |-> charset.val,
       decimals |-> ReadU8(p, flags.at).val]

\* What every sender puts before a packet: one byte of its length, two zeros and
\* the sequence number.
Packet(seq, payload) == <<Len(payload) % 256, 0, 0, seq>> \o payload
=============================================================================
