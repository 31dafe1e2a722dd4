-------------------------------- MODULE Wire --------------------------------
(***************************************************************************)
(* One text after another from a writer to a reader: messages between a    *)
(* server and a client, and board files between the printer and the        *)
(* parser.                                                                 *)
(*                                                                         *)
(* A WebSocket delivers what was sent; the readers are written for worse:  *)
(* "Malformed input is an expected event on a network" (command_notation), *)
(* "a dropped or garbled message is corrected by the very next one" and a  *)
(* newer server "may add fields a client does not yet read" (state_codec). *)
(* So a text may lose a word or a line on the way, or gain a line of an    *)
(* unknown keyword.                                                        *)
(***************************************************************************)
EXTENDS Spelling

CONSTANTS
    Messages,    \* the messages sent, a sequence
    Snapshots,   \* the snapshots broadcast and printed, a sequence
    StartBoard   \* what the replica shows before the first frame

-----------------------------------------------------------------------------
(***************************************************************************)
(* What is written.                                                        *)
(***************************************************************************)
Name == {line \in Seq(Word) : Tokens(line) # << >>}

PlayerValue == [name : Name, rating : Numbers]

IsRoster(roster) ==
    /\ roster \in [Color -> SUBSET PlayerValue]
    /\ \A color \in Color : \A p, q \in roster[color] : p = q

IsBody(tag, body) ==
    \/ tag = "CMD" /\ body \in [player : Color, kind : Kind, from : Cells, to : Cells]
    \/ tag = "ROLE" /\ body \in DOMAIN RoleLetter
    \/ tag = "MOVE" /\ body \in [player : Color, kind : Kind, from : Cells, to : Cells,
                                  timeMs : Numbers, isCapture : BOOLEAN, isJump : BOOLEAN]
    \/ tag = "CAPTURE" /\ body \in [color : Color, kind : Kind]
    \/ tag = "LOGIN" /\ body \in [username : Name, password : Name]
    \/ tag = "ROSTER" /\ IsRoster(body)
    \/ tag = "OPPGONE" /\ body \in Numbers
    \/ tag \in FreeText /\ body \in Seq(Word) \ {<< >>}
    \/ tag \in RoomName /\ body \in Seq(Word) /\ Trimmed(body) = {body}
    \/ tag \in TagOnly /\ body = NoBody

MotionValue == [from : Cells, to : Cells, progress : Progress]
CooldownValue == [cell : Cells, progress : Progress]
PieceValue == [id : Numbers \cap Nat, color : Color, kind : Kind, cell : Cells, state : State]

IsBoard(board) ==
    /\ board = [width |-> Width, height |-> Height, pieces |-> board.pieces]
    /\ board.pieces \subseteq PieceValue
    /\ \A p, q \in board.pieces : p.cell = q.cell => p = q

IsSnapshot(s) ==
    /\ s = [over |-> s.over, board |-> s.board,
            motions |-> s.motions, cooldowns |-> s.cooldowns]
    /\ s.over \in BOOLEAN
    /\ IsBoard(s.board)
    /\ s.motions \in Seq(MotionValue)
    /\ s.cooldowns \in Seq(CooldownValue)

ASSUME MessagesType ==
    \A i \in DOMAIN Messages :
        LET m == Messages[i] IN m = Message(m.tag, m.body) /\ IsBody(m.tag, m.body)

ASSUME SnapshotsType == \A i \in DOMAIN Snapshots : IsSnapshot(Snapshots[i])

-----------------------------------------------------------------------------
VARIABLES
    text,    \* the text on its way, << >> if there is none
    sent,    \* what it was written from: [form, body]
    damage,  \* what has happened to it
    got,     \* what the reader made of the last text, an optional
    shown    \* the replica of the client

vars == <<text, sent, damage, got, shown>>

Init ==
    /\ text = << >>
    /\ sent = [form |-> "nothing"]
    /\ damage = "none"
    /\ got = {}
    /\ shown = [over |-> FALSE, board |-> StartBoard,
                motions |-> << >>, cooldowns |-> << >>]

Write(form, body, written) ==
    /\ text = << >>
    /\ text' = written
    /\ sent' = [form |-> form, body |-> body]
    /\ damage' = "none"
    /\ got' = {}
    /\ UNCHANGED shown

SendMessage(m) == Write("message", m, Encode(m, Height))

Frame(s) == Message("STATE", EncodeState(s))

Broadcast(s) == Write("frame", s, Encode(Frame(s), Height))

WriteFile(s) ==
    Write("file", s, << <<"Board:">> >> \o PrintBoard(s.board) \o << <<"Commands:">> >>)

-----------------------------------------------------------------------------
(***************************************************************************)
(* What may happen to a text.                                              *)
(***************************************************************************)
Alter(altered, how) ==
    /\ damage = "none"
    /\ text' = altered
    /\ damage' = how
    /\ UNCHANGED <<sent, got, shown>>

\* The first word of a line names it; in the first line the tag comes first.
IsKeyword(i, j) == j = 1 \/ (i = 1 /\ j = 2)

LoseWord(i, j) ==
    Alter([text EXCEPT ![i] = RemoveAt(@, j)],
          IF IsKeyword(i, j) THEN "keyword" ELSE "word")

LoseLine(i) == Len(text) > 1 /\ Alter(RemoveAt(text, i), "line")

GainLine ==
    /\ sent.form = "frame" /\ text # << >>
    /\ Alter(Append(text, <<"weather", "fine">>), "gain")

-----------------------------------------------------------------------------
(***************************************************************************)
(* Reading.                                                                *)
(***************************************************************************)
\* RemoteGame::receive: a state update goes into the replica.
Receive ==
    /\ sent.form \in {"message", "frame"}
    /\ got' = Decode(text, Height)
    /\ shown' = IF \E m \in got' : m.tag = "STATE"
                THEN Replaced(shown, (CHOOSE m \in got' : TRUE).body)
                ELSE shown

Parse ==
    /\ sent.form = "file"
    /\ got' = {ParseInput(text).board}
    /\ UNCHANGED shown

Read ==
    /\ text # << >>
    /\ Receive \/ Parse
    /\ text' = << >>
    /\ UNCHANGED <<sent, damage>>

Next ==
    \/ \E i \in DOMAIN Messages : SendMessage(Messages[i])
    \/ \E i \in DOMAIN Snapshots : Broadcast(Snapshots[i]) \/ WriteFile(Snapshots[i])
    \/ \E i \in DOMAIN text :
          \/ LoseLine(i)
          \/ \E j \in DOMAIN text[i] : LoseWord(i, j)
    \/ GainLine
    \/ Read

Spec == Init /\ [][Next]_vars

-----------------------------------------------------------------------------
WasRead(form) == text = << >> /\ sent.form = form

(***************************************************************************)
(* decode(encode(m)) is m, for every message and board: tags, keywords,    *)
(* case of letters, ranks from the other end, and the cut of a command at  *)
(* half its length.  Only a command between squares whose names differ in  *)
(* length cannot be read: the ranks 9 and 10 of a board that high.         *)
(***************************************************************************)
MessagesSurvive ==
    WasRead("message") /\ damage = "none" =>
        IF sent.body.tag = "CMD" /\ ~SameLength(sent.body.body, Height)
        THEN got = {}
        ELSE got = {sent.body}

\* A snapshot as a client can know it.
RoundedEntry(entry) == [entry EXCEPT !.progress = Rounded(@)]

RoundedAll(entries) == [i \in DOMAIN entries |-> RoundedEntry(entries[i])]

AsShown(s) ==
    [over |-> s.over, board |-> s.board,
     motions |-> RoundedAll(s.motions), cooldowns |-> RoundedAll(s.cooldowns)]

(***************************************************************************)
(* "A full frame, not a diff, so a dropped or garbled message is corrected *)
(* by the very next one" (state_codec.hpp): after an intact frame, or one  *)
(* with a line more, the replica is what the server broadcast, the states  *)
(* and ids of the pieces included, whatever was received before.           *)
(***************************************************************************)
FramesCorrect ==
    WasRead("frame") /\ damage \in {"none", "gain"} => shown = AsShown(sent.body)

(***************************************************************************)
(* "Build into a local board so a bad frame leaves the caller's untouched" *)
(* (state_codec.cpp): a frame in which a field of some line is missing     *)
(* changes nothing of what is shown.                                       *)
(***************************************************************************)
BadFramesChangeNothing ==
    [][Read /\ sent.form = "frame" /\ damage = "word" => UNCHANGED shown]_vars

(***************************************************************************)
(* A frame that has lost a line or its keyword is refused, or it shows     *)
(* less than the server sent; never a piece where there is none, another   *)
(* board size or another end of the game.                                  *)
(***************************************************************************)
DamageOnlyHides ==
    [][Read /\ sent.form = "frame" /\ shown' # shown =>
         LET s == AsShown(sent.body)
         IN  /\ shown'.over = s.over
             /\ shown'.board.width = s.board.width
             /\ shown'.board.height = s.board.height
             /\ shown'.board.pieces \subseteq s.board.pieces
             /\ ToSet(shown'.motions) \subseteq ToSet(s.motions)
             /\ ToSet(shown'.cooldowns) \subseteq ToSet(s.cooldowns)]_vars

SamePosition(b, board) ==
    LET position(x) == {<<p.color, p.kind, p.cell>> : p \in x.pieces}
    IN  /\ b.width = board.width
        /\ b.height = board.height
        /\ position(b) = position(board)
        /\ {p.id : p \in b.pieces} = 1 .. Cardinality(board.pieces)
        /\ \A p, q \in b.pieces :
              p.id < q.id => \/ p.cell[1] < q.cell[1]
                             \/ p.cell[1] = q.cell[1] /\ p.cell[2] < q.cell[2]

(***************************************************************************)
(* "The single source of truth for the board's text encoding, in both      *)
(* directions" (piece_codec.hpp): a printed board is parsed to the same    *)
(* position, numbered in the order of the rows.  With a token or a marker  *)
(* missing it is that position still, or refused as uneven or empty, on    *)
(* boards of two rows and columns at least: the only row cannot be uneven, *)
(* and a row that has lost its only token is a blank line, which goes      *)
(* unnoticed.                                                              *)
(***************************************************************************)
BoardsSurvive ==
    WasRead("file") /\ damage # "line" =>
        \A b \in got :
            \/ "error" \notin DOMAIN b /\ SamePosition(b, sent.body.board)
            \/ damage # "none" /\ b = Refusal("ROW_WIDTH_MISMATCH")
            \/ damage # "none" /\ b = Refusal("empty_board")

=============================================================================
