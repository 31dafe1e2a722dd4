----------------------------- MODULE WireFormat -----------------------------
(***************************************************************************)
(* Every message between a client and the server as text and back          *)
(* (shared/logic/io: wire_message, event_codec).                           *)
(*                                                                         *)
(* A message is [tag, body]: the tag stands for the alternative of the     *)
(* WireMessage variant, the body is what that alternative carries.  A body *)
(* without fields is NoBody.                                               *)
(***************************************************************************)
EXTENDS StateCodec

Message(tag, body) == [tag |-> tag, body |-> body]

NoBody == [nothing |-> {}]

\* Messages that are only a tag.
TagOnly == {"SEEK", "CANCEL", "CREATE", "NOMATCH", "OPPBACK"}

\* Messages whose payload is free text that may be blank, and may not.
FreeText == {"AUTHFAIL", "ROOMERR"}
RoomName == {"JOIN", "ROOM"}

OneLine(line) == <<line>>
Blank == OneLine(<<NoWord>>)

-----------------------------------------------------------------------------
(***************************************************************************)
(* Payloads.                                                               *)
(***************************************************************************)
EncodeMoveEvent(e, height) ==
    << EncodePieceToken(e.player, e.kind),
       SquareName(e.from, height), SquareName(e.to, height),
       ToString(e.timeMs), EncodeFlag(e.isCapture), EncodeFlag(e.isJump) >>

DecodeMoveEvent(payload, height) ==
    LET fields == Tokens(payload[1])
    IN  IF Len(fields) # 6 THEN {}
        ELSE {[player |-> p.color, kind |-> p.kind, from |-> f, to |-> t,
               timeMs |-> n, isCapture |-> capture, isJump |-> jump] :
                p \in PieceFromToken(fields[1]),
                f \in SquareFromName(fields[2], height),
                t \in SquareFromName(fields[3], height),
                n \in IntegerIn(fields[4]),
                capture \in DecodeFlag(fields[5]), jump \in DecodeFlag(fields[6])}

DecodeCapturedPiece(payload) ==
    LET fields == Tokens(payload[1])
    IN  IF Len(fields) = 1 THEN PieceFromToken(fields[1]) ELSE {}

\* A role: the colour's letter, or the mark of a spectator.
RoleLetter ==
    [White |-> ColorLetter["White"], Black |-> ColorLetter["Black"], Spectator |-> "-"]

DecodeRole(payload) ==
    {role \in DOMAIN RoleLetter : payload = OneLine(<<RoleLetter[role]>>)}

IsBlank(line) == Tokens(line) = << >>

\* The lines of the form "keyword value", and what the last of them says.
ValueLines(payload, keyword) ==
    {i \in DOMAIN payload : Len(payload[i]) >= 2 /\ Head(payload[i]) = keyword}

Value(payload, keyword) ==
    LET lines == Filtered(payload, ValueLines(payload, keyword))
    IN  IF lines = << >> THEN {} ELSE {Tail(Last(lines))}

EncodeLogin(login) == << <<"user">> \o login.username, <<"pass">> \o login.password >>

DecodeLogin(payload) ==
    {[username |-> u, password |-> p] :
        u \in {v \in Value(payload, "user") : ~IsBlank(v)},
        p \in {v \in Value(payload, "pass") : ~IsBlank(v)}}

\* A roster: at most one [name, rating] for each seat, and a line for each.
SeatKeyword == [White |-> "white", Black |-> "black"]

SeatLine(color, p) == <<SeatKeyword[color], ToString(p.rating)>> \o p.name

SeatLines(roster, color) ==
    IF roster[color] = {} THEN << >>
    ELSE << SeatLine(color, CHOOSE p \in roster[color] : TRUE) >>

EncodeRoster(roster) ==
    LET payload == SeatLines(roster, "White") \o SeatLines(roster, "Black")
    IN  IF payload = << >> THEN Blank ELSE payload

IsSeatLine(line, color) ==
    /\ Len(line) >= 3
    /\ Head(line) = SeatKeyword[color]
    /\ IntegerIn(line[2]) # {}

SeatsAt(payload, color) == {i \in DOMAIN payload : IsSeatLine(payload[i], color)}

\* The last line of a seat counts.
SeatIn(payload, color) ==
    LET lines == Filtered(payload, SeatsAt(payload, color))
    IN  IF lines = << >> THEN {}
        ELSE {[name |-> SubSeq(Last(lines), 3, Len(Last(lines))), rating |-> n] :
                n \in IntegerIn(Last(lines)[2])}

DecodeRoster(payload) == {[color \in Color |-> SeatIn(payload, color)]}

\* trim: without the spaces around.
Trimmed(line) ==
    LET full == {i \in DOMAIN line : line[i] # NoWord}
    IN  {SubSeq(line, i, j) : i \in {n \in full : \A m \in full : n <= m},
                              j \in {n \in full : \A m \in full : m <= n}}

\* std::stoi passes over the spaces in front.
FirstOf(tokens) == {tokens[i] : i \in DOMAIN tokens \cap {1}}

-----------------------------------------------------------------------------
(***************************************************************************)
(* encode and decode: the codec of a message is found by its tag.          *)
(***************************************************************************)
EncodePayload(m, height) ==
    CASE m.tag = "CMD"     -> OneLine(<<EncodeCommand(m.body, height)>>)
      [] m.tag = "ROLE"    -> OneLine(<<RoleLetter[m.body]>>)
      [] m.tag = "MOVE"    -> OneLine(EncodeMoveEvent(m.body, height))
      [] m.tag = "CAPTURE" -> OneLine(<<EncodePieceToken(m.body.color, m.body.kind)>>)
      [] m.tag = "STATE"   -> m.body
      [] m.tag = "LOGIN"   -> EncodeLogin(m.body)
      [] m.tag = "ROSTER"  -> EncodeRoster(m.body)
      [] m.tag = "OPPGONE" -> OneLine(<<ToString(m.body)>>)
      [] m.tag \in RoomName \cup FreeText -> OneLine(m.body)
      [] m.tag \in TagOnly -> Blank

DecodePayload(tag, payload, height) ==
    CASE tag = "CMD"     -> IF Len(payload) = 1 /\ Len(payload[1]) = 1
                            THEN DecodeCommand(payload[1][1], height) ELSE {}
      [] tag = "ROLE"    -> DecodeRole(payload)
      [] tag = "MOVE"    -> DecodeMoveEvent(payload, height)
      [] tag = "CAPTURE" -> DecodeCapturedPiece(payload)
      [] tag = "STATE"   -> {payload}
      [] tag = "LOGIN"   -> DecodeLogin(payload)
      [] tag = "ROSTER"  -> DecodeRoster(payload)
      [] tag = "OPPGONE" -> UNION {IntegerIn(w) : w \in FirstOf(Tokens(payload[1]))}
      [] tag \in FreeText -> {payload[1]}
      [] tag \in RoomName -> Trimmed(payload[1])
      [] tag \in TagOnly -> {NoBody}
      [] OTHER           -> {}

\* The tag and the payload are joined, and split, at the first space.
Encode(m, height) ==
    LET payload == EncodePayload(m, height)
    IN  << <<m.tag>> \o payload[1] >> \o Tail(payload)

Split(text) ==
    CASE Len(text[1]) >= 2 ->
            [tag |-> Head(text[1]), payload |-> <<Tail(text[1])>> \o Tail(text)]
      [] Len(text[1]) = 1 /\ Len(text) = 1 ->
            [tag |-> text[1][1], payload |-> Blank]
      [] OTHER -> [tag |-> NoWord, payload |-> Blank]

Decode(text, height) ==
    LET parts == Split(text)
    IN  {Message(parts.tag, body) :
            body \in DecodePayload(parts.tag, parts.payload, height)}

=============================================================================
