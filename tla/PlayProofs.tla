----------------------------- MODULE PlayProofs -----------------------------
(***************************************************************************)
(* A game with a window over it, for boards of any size, any game, any     *)
(* layout of the window and queues of any length: the session plays the    *)
(* game of GameEngine, and what the window records, shows, highlights and  *)
(* makes of the mouse is right.                                            *)
(***************************************************************************)
EXTENDS Play, FlightProofs, FunctionTheorems

(***************************************************************************)
(* The window is no part of the game: every step of the two together is a  *)
(* step of the game, or none, so that all theorems of Spec hold here.      *)
(***************************************************************************)
LEMMA PerformPlays ==
    ASSUME NEW from \in Cells, NEW to \in Cells, Perform(from, to)
    PROVE  Next
  BY DEF Perform, Next

LEMMA AcceptedCommandPlays ==
    ASSUME ApplyCommand
    PROVE  [Next]_vars
  <1>1. CASE Accepts(Head(uplink))
    <2>1. Head(uplink).from \in Cells /\ Head(uplink).to \in Cells
      BY <1>1 DEF Accepts, AcceptsJump, AcceptsMove, ValidMove
    <2> QED BY <1>1, <2>1, PerformPlays DEF ApplyCommand
  <1>2. CASE ~Accepts(Head(uplink))
    BY <1>2 DEF ApplyCommand, engineVars
  <1> QED BY <1>1, <1>2

LEMMA PlayStepPlays == [PlayNext]_playVars => [Next]_vars
  <1> SUFFICES ASSUME [PlayNext]_playVars
               PROVE  [Next]_vars
    OBVIOUS
  <1>1. ASSUME NEW role \in Roles, Join(role)
        PROVE  [Next]_vars
    BY <1>1 DEF Join, engineVars
  <1>2. CASE ApplyCommand
    BY <1>2, AcceptedCommandPlays
  <1>3. ASSUME NEW from \in Cells, NEW to \in Cells, OthersCommand(from, to)
        PROVE  [Next]_vars
    BY <1>3, PerformPlays DEF OthersCommand
  <1>4. CASE Forfeit
    BY <1>4 DEF Forfeit, Next
  <1>5. CASE BeginTick
    BY <1>5 DEF BeginTick, Next, TickStep
  <1>6. CASE WorkTick
    BY <1>6 DEF WorkTick, Next, TickStep
  <1>7. CASE EndTick
    BY <1>7 DEF EndTick, engineVars
  <1>8. CASE Receive
    BY <1>8 DEF Receive, engineVars
  <1>9. ASSUME NEW actions \in MouseActions, DrawGame(actions)
        PROVE  [Next]_vars
    BY <1>9 DEF DrawGame, engineVars
  <1>10. CASE UNCHANGED playVars
    BY <1>10 DEF playVars, engineVars
  <1> QED BY <1>1, <1>2, <1>3, <1>4, <1>5, <1>6, <1>7, <1>8, <1>9, <1>10
          DEF PlayNext, ServerTick

(***************************************************************************)
(* A session with its window plays the game of GameEngine and no other.    *)
(***************************************************************************)
THEOREM SessionPlaysTheGame == PlaySpec => Spec
  <1>1. PlayInit => Init
    BY DEF PlayInit
  <1> QED BY <1>1, PlayStepPlays, PTL DEF PlaySpec, Spec

-----------------------------------------------------------------------------
(***************************************************************************)
(* Counting the messages of a queue: what is put at its end, and what is   *)
(* taken from its front.                                                   *)
(***************************************************************************)
CountIn(q, n, S) == Cardinality({i \in 1 .. n : q[i] \in S})

One(condition) == IF condition THEN 1 ELSE 0

LEMMA CountIsNatural ==
    ASSUME NEW q, NEW n \in Nat, NEW S
    PROVE  /\ IsFiniteSet({i \in 1 .. n : q[i] \in S})
           /\ CountIn(q, n, S) \in Nat
  <1>1. IsFiniteSet(1 .. n)
    BY FS_Interval
  <1>2. IsFiniteSet({i \in 1 .. n : q[i] \in S})
    BY <1>1, FS_Subset
  <1> QED BY <1>2, FS_CardinalityType DEF CountIn

LEMMA CountGrows ==
    ASSUME NEW q, NEW n \in Nat, NEW S
    PROVE  CountIn(q, n + 1, S) = CountIn(q, n, S) + One(q[n + 1] \in S)
  <1> DEFINE I == {i \in 1 .. n : q[i] \in S}
  <1>1. IsFiniteSet(I) /\ Cardinality(I) \in Nat /\ n + 1 \notin I
    <2>1. n + 1 \notin I
      OBVIOUS
    <2> QED BY <2>1, CountIsNatural DEF CountIn
  <1>2. CASE q[n + 1] \in S
    <2>1. {i \in 1 .. n + 1 : q[i] \in S} = I \cup {n + 1}
      BY <1>2
    <2>2. Cardinality(I \cup {n + 1}) = Cardinality(I) + 1
      BY <1>1, FS_AddElement
    <2> QED BY <1>2, <2>1, <2>2 DEF CountIn, One
  <1>3. CASE q[n + 1] \notin S
    <2>1. {i \in 1 .. n + 1 : q[i] \in S} = I
      BY <1>3
    <2> QED BY <1>1, <1>3, <2>1 DEF CountIn, One
  <1> QED BY <1>2, <1>3

LEMMA CountOfSame ==
    ASSUME NEW q, NEW r, NEW n \in Nat, \A i \in 1 .. n : r[i] = q[i], NEW S
    PROVE  CountIn(r, n, S) = CountIn(q, n, S)
  <1>1. {i \in 1 .. n : r[i] \in S} = {i \in 1 .. n : q[i] \in S}
    OBVIOUS
  <1> QED BY <1>1 DEF CountIn

\* The first n entries of r are those of q that follow its first.
Follow(q, r, n) == \A i \in 1 .. n : r[i] = q[i + 1]

LEMMA CountShifts ==
    ASSUME NEW q, NEW r, NEW n \in Nat, Follow(q, r, n), NEW S
    PROVE  CountIn(q, n + 1, S) = One(q[1] \in S) + CountIn(r, n, S)
  <1> DEFINE I == {i \in 1 .. n : r[i] \in S}
             J == {i \in 2 .. n + 1 : q[i] \in S}
             K == {i \in 1 .. n + 1 : q[i] \in S}
  <1>1. IsFiniteSet(I) /\ Cardinality(I) \in Nat
    BY CountIsNatural DEF CountIn
  <1>2. Cardinality(J) = Cardinality(I) /\ IsFiniteSet(J)
    <2> DEFINE f == [i \in I |-> i + 1]
    <2>1. f \in [I -> J]
      BY DEF Follow
    <2>2. \A i, j \in I : f[i] = f[j] => i = j
      OBVIOUS
    <2>3. \A j \in J : \E i \in I : f[i] = j
      <3> SUFFICES ASSUME NEW j \in J PROVE \E i \in I : f[i] = j
        OBVIOUS
      <3>1. j - 1 \in I /\ (j - 1) + 1 = j
        BY DEF Follow
      <3> QED BY <3>1
    <2> HIDE DEF f, I, J
    <2>4. f \in Bijection(I, J)
      BY <2>1, <2>2, <2>3, Fun_IsBij
    <2>5. ExistsBijection(I, J)
      BY <2>4 DEF ExistsBijection
    <2> QED BY <1>1, <2>5, FS_Bijection
  <1> USE DEF One
  <1>3. CountIn(q, n + 1, S) = Cardinality(K) /\ CountIn(r, n, S) = Cardinality(I)
    BY DEF CountIn
  <1> HIDE DEF I
  <1>4. CASE q[1] \in S
    <2>1. K = J \cup {1} /\ 1 \notin J
      BY <1>4
    <2> HIDE DEF J, K
    <2>2. Cardinality(J \cup {1}) = Cardinality(J) + 1
      BY <1>2, <2>1, FS_AddElement
    <2> QED BY <1>3, <1>1, <1>2, <1>4, <2>1, <2>2
  <1>5. CASE q[1] \notin S
    <2>1. K = J
      BY <1>5
    <2> HIDE DEF J, K
    <2> QED BY <1>3, <1>1, <1>2, <1>5, <2>1
  <1> QED BY <1>4, <1>5

(***************************************************************************)
(* What the captures among the first n messages add to the score of the    *)
(* other side.                                                             *)
(***************************************************************************)
IsMessage(m) ==
    \/ m = MoveMessage
    \/ \E color \in Color, kind \in Kind : m = CaptureMessage(color, kind)
    \/ \E role \in Roles : m = [tag |-> "ROLE", colors |-> role]
    \/ \E frame : frame.board \in BoardValue /\ m = FrameMessage(frame)

Gain(m, color) ==
    IF m.tag = "CAPTURE" /\ m.color = color THEN CostOf(m.kind) ELSE 0

WorthIn(q, n, color) ==
    9 * CountIn(q, n, Captures(color, {"Queen"}))
    + 5 * CountIn(q, n, Captures(color, {"Rook"}))
    + 3 * CountIn(q, n, Captures(color, {"Bishop", "Knight"}))
    + CountIn(q, n, Captures(color, {"Pawn"}))

LEMMA CapturesContain ==
    ASSUME NEW m, IsMessage(m), NEW color, NEW kinds
    PROVE  m \in Captures(color, kinds)
             <=> m.tag = "CAPTURE" /\ m.color = color /\ m.kind \in kinds
  <1>1. CASE \E c \in Color, kind \in Kind : m = CaptureMessage(c, kind)
    <2>1. PICK c \in Color, kind \in Kind : m = CaptureMessage(c, kind)
      BY <1>1
    <2>2. m.tag = "CAPTURE" /\ m.color = c /\ m.kind = kind
      BY <2>1 DEF CaptureMessage
    <2>3. \A k : m = CaptureMessage(color, k) <=> c = color /\ kind = k
      BY <2>1 DEF CaptureMessage
    <2> QED BY <2>2, <2>3 DEF Captures
  <1>2. CASE m.tag # "CAPTURE"
    BY <1>2 DEF Captures, CaptureMessage
  <1>3. m = MoveMessage => m.tag # "CAPTURE"
    BY DEF MoveMessage
  <1>4. (\E role \in Roles : m = [tag |-> "ROLE", colors |-> role]) => m.tag # "CAPTURE"
    OBVIOUS
  <1>5. (\E frame : frame.board \in BoardValue /\ m = FrameMessage(frame))
          => m.tag # "CAPTURE"
    BY DEF FrameMessage
  <1> QED BY <1>1, <1>2, <1>3, <1>4, <1>5 DEF IsMessage

LEMMA GainOfMessage ==
    ASSUME NEW m, IsMessage(m), NEW color
    PROVE  /\ Gain(m, color) \in Nat
           /\ Gain(m, color) = 9 * One(m \in Captures(color, {"Queen"}))
                               + 5 * One(m \in Captures(color, {"Rook"}))
                               + 3 * One(m \in Captures(color, {"Bishop", "Knight"}))
                               + One(m \in Captures(color, {"Pawn"}))
  <1>1. CASE m.tag = "CAPTURE" /\ m.color = color
    <2>1. m.kind \in Kind
      BY <1>1 DEF IsMessage, MoveMessage, CaptureMessage, FrameMessage
    <2>2. \A kinds : m \in Captures(color, kinds) <=> m.kind \in kinds
      BY <1>1, CapturesContain
    <2> QED BY <1>1, <2>1, <2>2 DEF Gain, One, CostOf, Kind
  <1>2. CASE ~(m.tag = "CAPTURE" /\ m.color = color)
    <2>1. \A kinds : m \notin Captures(color, kinds)
      BY <1>2, CapturesContain
    <2> QED BY <1>2, <2>1 DEF Gain, One
  <1> QED BY <1>1, <1>2

LEMMA WorthGrows ==
    ASSUME NEW q, NEW n \in Nat, NEW color, IsMessage(q[n + 1])
    PROVE  /\ WorthIn(q, n, color) \in Nat
           /\ WorthIn(q, n + 1, color) = WorthIn(q, n, color) + Gain(q[n + 1], color)
  <1> DEFINE b(S) == One(q[n + 1] \in S)
  <1>1. \A S : /\ CountIn(q, n, S) \in Nat /\ b(S) \in Nat
               /\ CountIn(q, n + 1, S) = CountIn(q, n, S) + b(S)
    <2> TAKE S
    <2>1. CountIn(q, n, S) \in Nat
      BY CountIsNatural
    <2>2. b(S) \in Nat
      BY DEF One
    <2>3. CountIn(q, n + 1, S) = CountIn(q, n, S) + b(S)
      BY CountGrows
    <2> QED BY <2>1, <2>2, <2>3
  <1>2. Gain(q[n + 1], color) = 9 * b(Captures(color, {"Queen"}))
                                + 5 * b(Captures(color, {"Rook"}))
                                + 3 * b(Captures(color, {"Bishop", "Knight"}))
                                + b(Captures(color, {"Pawn"}))
    BY GainOfMessage
  <1> HIDE DEF b
  <1> QED BY <1>1, <1>2 DEF WorthIn

LEMMA WorthShifts ==
    ASSUME NEW q, NEW r, NEW n \in Nat, Follow(q, r, n),
           NEW color, IsMessage(q[1])
    PROVE  /\ WorthIn(r, n, color) \in Nat
           /\ WorthIn(q, n + 1, color) = Gain(q[1], color) + WorthIn(r, n, color)
  <1> DEFINE b(S) == One(q[1] \in S)
  <1>1. ASSUME NEW S
        PROVE  /\ CountIn(r, n, S) \in Nat /\ b(S) \in Nat
               /\ CountIn(q, n + 1, S) = b(S) + CountIn(r, n, S)
    <2>1. CountIn(r, n, S) \in Nat
      BY CountIsNatural
    <2>2. CountIn(q, n + 1, S) = b(S) + CountIn(r, n, S)
      BY CountShifts
    <2> QED BY <2>1, <2>2 DEF One
  <1>2. Gain(q[1], color) = 9 * b(Captures(color, {"Queen"}))
                            + 5 * b(Captures(color, {"Rook"}))
                            + 3 * b(Captures(color, {"Bishop", "Knight"}))
                            + b(Captures(color, {"Pawn"}))
    BY GainOfMessage
  <1> HIDE DEF b
  <1> QED BY <1>1, <1>2 DEF WorthIn

LEMMA WorthOfSame ==
    ASSUME NEW q, NEW r, NEW n \in Nat, \A i \in 1 .. n : r[i] = q[i], NEW color
    PROVE  WorthIn(r, n, color) = WorthIn(q, n, color)
  <1>1. \A S : CountIn(r, n, S) = CountIn(q, n, S)
    BY CountOfSame
  <1> QED BY <1>1 DEF WorthIn

-----------------------------------------------------------------------------
(***************************************************************************)
(* The records of the window.  For every frame on its way, what it shows   *)
(* as taken is counted by the window already or announced before it: so    *)
(* much has been announced when the frame is sent, because the tick has    *)
(* delivered all its reports by then.                                      *)
(***************************************************************************)
RecordsValue == [score : [Color -> Nat], moves : Nat]

LinkInv ==
    /\ seat \in Roles \cup {NoSeat}
    /\ \E S : downlink \in Seq(S)
    /\ \A i \in DOMAIN downlink : IsMessage(downlink[i])
    /\ panel \in RecordsValue /\ missed \in RecordsValue
    /\ shown.board \in BoardValue
    /\ seat = NoSeat => downlink = << >> /\ panel = NoRecords /\ missed = NoRecords

Counted(color) == panel.score[color] + missed.score[color]

WorthFallen(frame, color) ==
    9 * Cardinality(Fallen(frame, color, {"Queen"}))
    + 5 * Cardinality(Fallen(frame, color, {"Rook"}))
    + 3 * Cardinality(Fallen(frame, color, {"Bishop", "Knight"}))
    + Cardinality(Fallen(frame, color, {"Pawn"}))

MovesAreCounted ==
    panel.moves + CountIn(downlink, Len(downlink), {MoveMessage}) + missed.moves = logged

CapturesAreCounted ==
    \A color \in Color :
        Counted(color) + WorthIn(downlink, Len(downlink), OpponentOf(color)) = score[color]

FramesAreCounted ==
    \A i \in DOMAIN downlink, color \in Color :
        downlink[i].tag = "STATE" =>
            WorthFallen(downlink[i].frame, OpponentOf(color))
                <= Counted(color) + WorthIn(downlink, i, OpponentOf(color))

ShownIsCounted ==
    \A color \in Color : WorthFallen(shown, OpponentOf(color)) <= Counted(color)

RecordInv ==
    /\ ScoreInv
    /\ LinkInv
    /\ seat # NoSeat => MovesAreCounted /\ CapturesAreCounted
    /\ FramesAreCounted
    /\ ShownIsCounted

LEMMA FallenIsFinite ==
    ASSUME NEW frame, NEW color, NEW kinds
    PROVE  Cardinality(Fallen(frame, color, kinds)) \in Nat
  <1>1. Fallen(frame, color, kinds) \subseteq Piece
    BY DEF Fallen
  <1> QED BY <1>1, PiecesAreFinite, FS_Subset, FS_CardinalityType

LEMMA WorthFallenIsNatural ==
    ASSUME NEW frame, NEW color
    PROVE  WorthFallen(frame, color) \in Nat
  BY FallenIsFinite DEF WorthFallen

LEMMA RecordInvIsEnough ==
    ASSUME RecordInv
    PROVE  NoEventIsForgotten /\ ScoresKeepUpWithTheBoard
  <1>1. PICK S : downlink \in Seq(S)
    BY DEF RecordInv, LinkInv
  <1>2. Len(downlink) \in Nat /\ DOMAIN downlink = 1 .. Len(downlink)
    BY <1>1
  <1>3. \A T : OnTheWay(T) = CountIn(downlink, Len(downlink), T) /\ OnTheWay(T) \in Nat
    BY <1>2, CountIsNatural DEF OnTheWay, CountIn
  <1>4. panel \in RecordsValue /\ missed \in RecordsValue
    BY DEF RecordInv, LinkInv
  <1>5. NoEventIsForgotten
    <2> SUFFICES ASSUME seat # NoSeat
                 PROVE  /\ panel.moves + OnTheWay({MoveMessage}) + missed.moves = logged
                        /\ \A color \in Color :
                             panel.score[color] + missed.score[color]
                             + 9 * OnTheWay(Captures(OpponentOf(color), {"Queen"}))
                             + 5 * OnTheWay(Captures(OpponentOf(color), {"Rook"}))
                             + 3 * OnTheWay(Captures(OpponentOf(color), {"Bishop", "Knight"}))
                             + 1 * OnTheWay(Captures(OpponentOf(color), {"Pawn"}))
                                 = score[color]
      BY DEF NoEventIsForgotten
    <2>1. panel.moves + OnTheWay({MoveMessage}) + missed.moves = logged
      BY <1>3 DEF RecordInv, MovesAreCounted
    <2>2. ASSUME NEW color \in Color
          PROVE  Counted(color) + WorthIn(downlink, Len(downlink), OpponentOf(color))
                   = score[color]
      BY DEF RecordInv, CapturesAreCounted
    <2>3. \A color \in Color : panel.score[color] \in Nat /\ missed.score[color] \in Nat
      BY <1>4 DEF RecordsValue
    <2>4. ASSUME NEW color \in Color,
                 NEW q, q = OnTheWay(Captures(OpponentOf(color), {"Queen"})),
                 NEW r, r = OnTheWay(Captures(OpponentOf(color), {"Rook"})),
                 NEW m, m = OnTheWay(Captures(OpponentOf(color), {"Bishop", "Knight"})),
                 NEW p, p = OnTheWay(Captures(OpponentOf(color), {"Pawn"}))
          PROVE  panel.score[color] + missed.score[color] + 9 * q + 5 * r + 3 * m + 1 * p
                   = score[color]
      <3>1. q \in Nat /\ r \in Nat /\ m \in Nat /\ p \in Nat
        BY <1>3, <2>4
      <3>2. WorthIn(downlink, Len(downlink), OpponentOf(color)) = 9 * q + 5 * r + 3 * m + p
        BY <1>3, <2>4 DEF WorthIn
      <3> QED BY <2>2, <2>3, <3>1, <3>2 DEF Counted
    <2> QED BY <2>1, <2>4
  <1>6. ScoresKeepUpWithTheBoard
    BY <1>4, FallenIsFinite DEF ScoresKeepUpWithTheBoard, RecordInv, ShownIsCounted,
                                Counted, WorthFallen, RecordsValue
  <1> QED BY <1>5, <1>6

LEMMA LinkFacts ==
    ASSUME LinkInv
    PROVE  /\ Len(downlink) \in Nat /\ DOMAIN downlink = 1 .. Len(downlink)
           /\ \A color \in Color : Counted(color) \in Nat /\ OpponentOf(color) \in Color
  <1>1. PICK S : downlink \in Seq(S)
    BY DEF LinkInv
  <1> QED BY <1>1 DEF LinkInv, Counted, RecordsValue, OpponentOf, Color

\* The server says m to a window that is there.
Says(m) ==
    /\ IsMessage(m)
    /\ Len(downlink') = Len(downlink) + 1
    /\ \A i \in 1 .. Len(downlink) : downlink'[i] = downlink[i]
    /\ downlink'[Len(downlink) + 1] = m

WindowWaits == UNCHANGED <<seat, shown, panel, missed>>

LEMMA TellingSays ==
    ASSUME LinkInv, NEW m, IsMessage(m), Tell(<<m>>), WindowWaits
    PROVE  /\ LinkInv'
           /\ IF seat = NoSeat THEN downlink' = downlink ELSE Says(m)
  <1>1. CASE seat = NoSeat
    BY <1>1 DEF Tell, LinkInv, WindowWaits
  <1>2. CASE seat # NoSeat
    <2>1. PICK S : downlink \in Seq(S)
      BY DEF LinkInv
    <2>2. /\ downlink \in Seq(S \cup {m}) /\ <<m>> \in Seq(S \cup {m})
          /\ downlink' = downlink \o <<m>>
      BY <1>2, <2>1 DEF Tell
    <2>3. /\ downlink' \in Seq(S \cup {m})
          /\ Len(downlink') = Len(downlink) + 1
          /\ \A i \in 1 .. Len(downlink) : downlink'[i] = downlink[i]
          /\ downlink'[Len(downlink) + 1] = m
      BY <2>2
    <2>4. Says(m)
      BY <2>3 DEF Says
    <2>5. ASSUME NEW i \in DOMAIN downlink' PROVE IsMessage(downlink'[i])
      <3>1. i \in 1 .. Len(downlink) \/ i = Len(downlink) + 1
        BY <2>1, <2>3
      <3>2. DOMAIN downlink = 1 .. Len(downlink)
        BY <2>1
      <3> QED BY <2>3, <3>1, <3>2 DEF LinkInv
    <2>6. LinkInv'
      <3>1. \E T : downlink' \in Seq(T)
        BY <2>3
      <3> QED BY <1>2, <2>5, <3>1 DEF LinkInv, WindowWaits
    <2> QED BY <1>2, <2>4, <2>6
  <1> QED BY <1>1, <1>2

LEMMA SaidIsCounted ==
    ASSUME LinkInv, NEW m, Says(m)
    PROVE  /\ CountIn(downlink, Len(downlink), {MoveMessage}) \in Nat
           /\ CountIn(downlink', Len(downlink'), {MoveMessage})
                = CountIn(downlink, Len(downlink), {MoveMessage}) + One(m = MoveMessage)
           /\ \A color : /\ WorthIn(downlink, Len(downlink), color) \in Nat
                         /\ Gain(m, color) \in Nat
                         /\ WorthIn(downlink', Len(downlink'), color)
                              = WorthIn(downlink, Len(downlink), color) + Gain(m, color)
           /\ \A color : \A i \in DOMAIN downlink :
                WorthIn(downlink', i, color) = WorthIn(downlink, i, color)
  <1> PICK n, q : n = Len(downlink) /\ q = downlink'
    OBVIOUS
  <1>1. /\ n \in Nat /\ DOMAIN downlink = 1 .. n
        /\ Len(q) = n + 1 /\ q[n + 1] = m /\ IsMessage(m)
        /\ \A i \in 1 .. n : q[i] = downlink[i]
    BY LinkFacts DEF Says
  <1>2. /\ CountIn(downlink, n, {MoveMessage}) \in Nat
        /\ CountIn(q, n, {MoveMessage}) = CountIn(downlink, n, {MoveMessage})
        /\ CountIn(q, n + 1, {MoveMessage})
             = CountIn(q, n, {MoveMessage}) + One(q[n + 1] \in {MoveMessage})
    <2>1. CountIn(q, n, {MoveMessage}) = CountIn(downlink, n, {MoveMessage})
      BY <1>1, CountOfSame
    <2> QED BY <1>1, <2>1, CountIsNatural, CountGrows
  <1>3. One(q[n + 1] \in {MoveMessage}) = One(m = MoveMessage)
    BY <1>1 DEF One
  <1>4. ASSUME NEW color, NEW i \in 0 .. n
        PROVE  WorthIn(q, i, color) = WorthIn(downlink, i, color)
    <2>1. \A j \in 1 .. i : q[j] = downlink[j]
      BY <1>1
    <2> QED BY <1>1, <2>1, WorthOfSame
  <1>5. ASSUME NEW color
        PROVE  /\ WorthIn(downlink, n, color) \in Nat /\ Gain(m, color) \in Nat
               /\ WorthIn(q, n + 1, color) = WorthIn(downlink, n, color) + Gain(m, color)
    BY <1>1, <1>4, WorthGrows, GainOfMessage
  <1> QED BY <1>1, <1>2, <1>3, <1>4, <1>5

\* A step of the server that says m, with what m counts for.
LEMMA SayingKeepsRecords ==
    ASSUME RecordInv, ScoreInv', LinkInv', NEW m, Says(m), WindowWaits,
           seat # NoSeat,
           logged' = logged + One(m = MoveMessage),
           \A color \in Color : score'[color] = score[color] + Gain(m, OpponentOf(color)),
           m.tag = "STATE" =>
              \A color \in Color : WorthFallen(m.frame, OpponentOf(color)) <= score[color]
    PROVE  RecordInv'
  <1>1. LinkInv /\ MovesAreCounted /\ CapturesAreCounted
    BY DEF RecordInv
  <1>2. /\ panel \in RecordsValue /\ missed \in RecordsValue
        /\ panel' = panel /\ missed' = missed /\ shown' = shown /\ seat' = seat
    BY <1>1 DEF LinkInv, WindowWaits
  <1>3. MovesAreCounted'
    <2>1. panel.moves \in Nat /\ missed.moves \in Nat /\ One(m = MoveMessage) \in Nat
      BY <1>2 DEF RecordsValue, One
    <2>2. /\ CountIn(downlink, Len(downlink), {MoveMessage}) \in Nat
          /\ CountIn(downlink', Len(downlink'), {MoveMessage})
               = CountIn(downlink, Len(downlink), {MoveMessage}) + One(m = MoveMessage)
      BY <1>1, SaidIsCounted
    <2> QED BY <1>1, <1>2, <2>1, <2>2 DEF MovesAreCounted
  <1>4. /\ \A color \in Color : Counted(color) \in Nat /\ OpponentOf(color) \in Color
        /\ \A color : Counted(color)' = Counted(color)
    <2>1. \A color \in Color : Counted(color) \in Nat /\ OpponentOf(color) \in Color
      BY <1>1, LinkFacts
    <2>2. \A color : Counted(color)' = Counted(color)
      BY <1>2 DEF Counted
    <2> QED BY <2>1, <2>2
  <1>5. CapturesAreCounted'
    <2> SUFFICES ASSUME NEW color \in Color
                 PROVE  Counted(color) + WorthIn(downlink', Len(downlink'), OpponentOf(color))
                          = score'[color]
      BY <1>4 DEF CapturesAreCounted
    <2>1. /\ WorthIn(downlink, Len(downlink), OpponentOf(color)) \in Nat
          /\ Gain(m, OpponentOf(color)) \in Nat
          /\ WorthIn(downlink', Len(downlink'), OpponentOf(color))
               = WorthIn(downlink, Len(downlink), OpponentOf(color))
                 + Gain(m, OpponentOf(color))
      BY <1>1, SaidIsCounted
    <2>2. Counted(color) + WorthIn(downlink, Len(downlink), OpponentOf(color)) = score[color]
      BY <1>1 DEF CapturesAreCounted
    <2> QED BY <1>4, <2>1, <2>2
  <1>6. FramesAreCounted'
    <2> SUFFICES ASSUME NEW i \in DOMAIN downlink', NEW color \in Color,
                        downlink'[i].tag = "STATE"
                 PROVE  WorthFallen(downlink'[i].frame, OpponentOf(color))
                          <= Counted(color) + WorthIn(downlink', i, OpponentOf(color))
      BY <1>4 DEF FramesAreCounted
    <2>1. /\ DOMAIN downlink = 1 .. Len(downlink)
          /\ i \in DOMAIN downlink \/ i = Len(downlink')
          /\ Len(downlink') = Len(downlink) + 1
      BY <1>1, LinkFacts DEF Says, LinkInv
    <2>2. CASE i \in DOMAIN downlink
      <3>1. downlink'[i] = downlink[i]
        BY <2>1, <2>2 DEF Says
      <3>2. WorthIn(downlink', i, OpponentOf(color)) = WorthIn(downlink, i, OpponentOf(color))
        BY <1>1, <2>2, SaidIsCounted
      <3> QED BY <2>2, <3>1, <3>2 DEF RecordInv, FramesAreCounted
    <2>3. CASE i = Len(downlink')
      <3>1. downlink'[i] = m
        BY <2>1, <2>3 DEF Says
      <3>2. WorthFallen(m.frame, OpponentOf(color)) <= score[color]
        BY <3>1
      <3>3. /\ WorthIn(downlink, Len(downlink), OpponentOf(color)) \in Nat
            /\ Gain(m, OpponentOf(color)) \in Nat
            /\ WorthIn(downlink', i, OpponentOf(color))
                 = WorthIn(downlink, Len(downlink), OpponentOf(color))
                   + Gain(m, OpponentOf(color))
        BY <1>1, <2>3, SaidIsCounted
      <3>4. Counted(color) + WorthIn(downlink, Len(downlink), OpponentOf(color)) = score[color]
        BY <1>1 DEF CapturesAreCounted
      <3>5. WorthFallen(m.frame, OpponentOf(color)) \in Nat /\ Counted(color) \in Nat
        BY <1>4, WorthFallenIsNatural
      <3> QED BY <3>1, <3>2, <3>3, <3>4, <3>5
    <2> QED BY <2>1, <2>2, <2>3
  <1>7. ShownIsCounted'
    BY <1>2, <1>4 DEF RecordInv, ShownIsCounted, WorthFallen, Fallen
  <1> QED BY <1>3, <1>5, <1>6, <1>7 DEF RecordInv

\* A step in which nothing is said and nothing counted, or nobody is there to hear.
LEMMA SilenceKeepsRecords ==
    ASSUME RecordInv, ScoreInv', WindowWaits, downlink' = downlink,
           seat = NoSeat \/ (logged' = logged /\ score' = score)
    PROVE  RecordInv'
  <1>1. LinkInv'
    BY DEF RecordInv, LinkInv, WindowWaits
  <1>2. \A color : Counted(color)' = Counted(color)
    BY DEF Counted, WindowWaits
  <1>3. FramesAreCounted' /\ ShownIsCounted'
    BY <1>2 DEF RecordInv, FramesAreCounted, ShownIsCounted, WindowWaits
  <1>4. seat' # NoSeat => MovesAreCounted' /\ CapturesAreCounted'
    BY <1>2 DEF RecordInv, MovesAreCounted, CapturesAreCounted, WindowWaits
  <1> QED BY <1>1, <1>3, <1>4 DEF RecordInv

LEMMA NothingCounts ==
    ASSUME NEW q
    PROVE  /\ \A S : CountIn(q, 0, S) = 0
           /\ \A color : WorthIn(q, 0, color) = 0
  <1>1. \A S : {i \in 1 .. 0 : q[i] \in S} = {}
    OBVIOUS
  <1>2. \A S : CountIn(q, 0, S) = 0
    BY <1>1, FS_EmptySet DEF CountIn
  <1> QED BY <1>2 DEF WorthIn

\* The window hears m: what it counts is counted no more on its way.
LEMMA HearingRecords ==
    ASSUME LinkInv, NEW m, IsMessage(m), panel' = RecordedAfter(m), missed' = missed
    PROVE  /\ panel' \in RecordsValue
           /\ panel'.moves = panel.moves + One(m = MoveMessage)
           /\ \A color \in Color :
                Counted(color)' = Counted(color) + Gain(m, OpponentOf(color))
  <1>1. /\ panel \in RecordsValue /\ missed \in RecordsValue
        /\ \A color \in Color : /\ panel.score[color] \in Nat /\ missed.score[color] \in Nat
                                /\ OpponentOf(color) \in Color
    BY DEF LinkInv, RecordsValue, OpponentOf, Color
  <1>2. CASE \E color \in Color, kind \in Kind : m = CaptureMessage(color, kind)
    <2>1. PICK loser \in Color, kind \in Kind : m = CaptureMessage(loser, kind)
      BY <1>2
    <2>2. m.tag = "CAPTURE" /\ m.color = loser /\ m.kind = kind /\ m # MoveMessage
      BY <2>1 DEF CaptureMessage, MoveMessage
    <2>3. CostOf(kind) \in Nat
      BY DEF CostOf, Kind
    <2>4. panel' = [panel EXCEPT !.score[OpponentOf(loser)] = @ + CostOf(kind)]
      BY <2>2 DEF RecordedAfter
    <2>5. /\ panel' \in RecordsValue /\ panel'.moves = panel.moves
          /\ \A color \in Color :
               panel'.score[color] = IF color = OpponentOf(loser)
                                     THEN panel.score[color] + CostOf(kind)
                                     ELSE panel.score[color]
      BY <1>1, <2>3, <2>4 DEF RecordsValue
    <2>6. \A color \in Color : color = OpponentOf(loser) <=> OpponentOf(color) = loser
      BY DEF OpponentOf, Color
    <2>7. \A color \in Color :
            Gain(m, OpponentOf(color)) = IF color = OpponentOf(loser) THEN CostOf(kind) ELSE 0
      BY <2>2, <2>6 DEF Gain
    <2>8. panel.moves \in Nat /\ One(m = MoveMessage) = 0
      BY <1>1, <2>2 DEF RecordsValue, One
    <2> QED BY <1>1, <2>3, <2>5, <2>7, <2>8 DEF Counted
  <1>3. CASE m.tag # "CAPTURE"
    <2>1. \A color : Gain(m, color) = 0
      BY <1>3 DEF Gain
    <2>2. m = MoveMessage <=> m.tag = "MOVE"
      BY <1>3 DEF IsMessage, MoveMessage, FrameMessage, CaptureMessage
    <2>3. panel' = [panel EXCEPT !.moves = @ + One(m = MoveMessage)]
      <3>1. CASE m.tag = "MOVE"
        BY <1>3, <2>2, <3>1 DEF RecordedAfter, One
      <3>2. CASE m.tag # "MOVE"
        BY <1>1, <1>3, <2>2, <3>2 DEF RecordedAfter, One, RecordsValue
      <3> QED BY <3>1, <3>2
    <2>4. One(m = MoveMessage) \in Nat
      BY DEF One
    <2>5. /\ panel' \in RecordsValue /\ panel'.score = panel.score
          /\ panel'.moves = panel.moves + One(m = MoveMessage)
      BY <1>1, <2>3, <2>4 DEF RecordsValue
    <2> QED BY <1>1, <2>1, <2>5 DEF Counted
  <1> QED BY <1>2, <1>3 DEF IsMessage, MoveMessage, FrameMessage

LEMMA ReceiveRecords ==
    ASSUME RecordInv, ScoreInv', Receive
    PROVE  RecordInv'
  <1> PICK m, n : m = Head(downlink) /\ n = Len(downlink) - 1
    OBVIOUS
  <1>1. PICK S : downlink \in Seq(S)
    BY DEF RecordInv, LinkInv
  <1>2. /\ n \in Nat /\ Len(downlink) = n + 1 /\ DOMAIN downlink = 1 .. n + 1
        /\ downlink' \in Seq(S) /\ Len(downlink') = n /\ DOMAIN downlink' = 1 .. n
        /\ m = downlink[1] /\ \A i \in 1 .. n : downlink'[i] = downlink[i + 1]
    BY <1>1 DEF Receive
  <1>3. /\ LinkInv /\ seat # NoSeat /\ MovesAreCounted /\ CapturesAreCounted
        /\ panel \in RecordsValue /\ missed \in RecordsValue
        /\ IsMessage(m) /\ Follow(downlink, downlink', n)
    BY <1>2 DEF RecordInv, LinkInv, Receive, Follow
  <1>4. /\ seat' = seat /\ missed' = missed /\ shown' = FrameAfter(m)
        /\ panel' = RecordedAfter(m) /\ logged' = logged /\ score' = score
    BY DEF Receive, engineVars, vars
  <1>5. /\ panel' \in RecordsValue
        /\ panel'.moves = panel.moves + One(m = MoveMessage)
        /\ \A color \in Color :
             Counted(color)' = Counted(color) + Gain(m, OpponentOf(color))
    BY <1>3, <1>4, HearingRecords
  <1>6. \A color \in Color : /\ OpponentOf(color) \in Color /\ Counted(color) \in Nat
                             /\ Gain(m, OpponentOf(color)) \in Nat
    BY <1>3, LinkFacts, GainOfMessage
  <1>7. ASSUME NEW i \in 0 .. n, NEW color
        PROVE  /\ WorthIn(downlink', i, color) \in Nat
               /\ WorthIn(downlink, i + 1, color) = Gain(m, color) + WorthIn(downlink', i, color)
    <2>1. Follow(downlink, downlink', i)
      BY <1>2, <1>3 DEF Follow
    <2> QED BY <1>2, <1>3, <2>1, WorthShifts
  <1>8. LinkInv'
    <2>1. ASSUME NEW i \in 1 .. n PROVE IsMessage(downlink'[i])
      <3>1. i + 1 \in DOMAIN downlink /\ downlink'[i] = downlink[i + 1]
        BY <1>2
      <3> QED BY <1>3, <3>1 DEF LinkInv
    <2>2. shown'.board \in BoardValue
      BY <1>3, <1>4 DEF FrameAfter, IsMessage, LinkInv, MoveMessage, CaptureMessage,
                        FrameMessage
    <2> QED BY <1>2, <1>3, <1>4, <1>5, <2>1, <2>2 DEF LinkInv
  <1>9. MovesAreCounted'
    <2>1. /\ CountIn(downlink', n, {MoveMessage}) \in Nat
          /\ CountIn(downlink, n + 1, {MoveMessage})
               = One(m \in {MoveMessage}) + CountIn(downlink', n, {MoveMessage})
      <3>1. CountIn(downlink', n, {MoveMessage}) \in Nat
        BY <1>2, CountIsNatural
      <3> QED BY <1>2, <1>3, <3>1, CountShifts
    <2>2. One(m \in {MoveMessage}) = One(m = MoveMessage) /\ One(m = MoveMessage) \in Nat
      BY DEF One
    <2>3. panel.moves \in Nat /\ missed.moves \in Nat
      BY <1>3 DEF RecordsValue
    <2> QED BY <1>2, <1>3, <1>4, <1>5, <2>1, <2>2, <2>3 DEF MovesAreCounted
  <1>10. CapturesAreCounted'
    <2> SUFFICES ASSUME NEW color \in Color
                 PROVE  Counted(color)' + WorthIn(downlink', n, OpponentOf(color))
                          = score[color]
      BY <1>2, <1>4 DEF CapturesAreCounted
    <2>1. Counted(color) + WorthIn(downlink, n + 1, OpponentOf(color)) = score[color]
      BY <1>2, <1>3 DEF CapturesAreCounted
    <2>2. /\ WorthIn(downlink', n, OpponentOf(color)) \in Nat
          /\ WorthIn(downlink, n + 1, OpponentOf(color))
               = Gain(m, OpponentOf(color)) + WorthIn(downlink', n, OpponentOf(color))
      BY <1>2, <1>7
    <2> QED BY <1>5, <1>6, <2>1, <2>2
  <1>11. FramesAreCounted'
    <2> SUFFICES ASSUME NEW i \in 1 .. n, NEW color \in Color, downlink'[i].tag = "STATE"
                 PROVE  WorthFallen(downlink'[i].frame, OpponentOf(color))
                          <= Counted(color)' + WorthIn(downlink', i, OpponentOf(color))
      BY <1>2 DEF FramesAreCounted
    <2>1. WorthFallen(downlink'[i].frame, OpponentOf(color))
            <= Counted(color) + WorthIn(downlink, i + 1, OpponentOf(color))
      BY <1>2 DEF RecordInv, FramesAreCounted
    <2>2. WorthFallen(downlink'[i].frame, OpponentOf(color)) \in Nat
      BY WorthFallenIsNatural
    <2> QED BY <1>2, <1>5, <1>6, <1>7, <2>1, <2>2
  <1>12. ShownIsCounted'
    <2> SUFFICES ASSUME NEW color \in Color
                 PROVE  WorthFallen(FrameAfter(m), OpponentOf(color)) <= Counted(color)'
      BY <1>4 DEF ShownIsCounted, WorthFallen, Fallen
    <2>1. CASE m.tag = "STATE"
      <3>1. /\ WorthFallen(m.frame, OpponentOf(color))
                 <= Counted(color) + WorthIn(downlink, 1, OpponentOf(color))
            /\ FrameAfter(m) = m.frame
        BY <1>2, <2>1 DEF RecordInv, FramesAreCounted, FrameAfter
      <3>2. WorthIn(downlink, 0 + 1, OpponentOf(color))
              = Gain(m, OpponentOf(color)) + WorthIn(downlink', 0, OpponentOf(color))
        BY <1>2, <1>7
      <3>3. WorthIn(downlink', 0, OpponentOf(color)) = 0
        BY NothingCounts
      <3> QED BY <1>5, <1>6, <3>1, <3>2, <3>3
    <2>2. CASE m.tag # "STATE"
      <3>1. FrameAfter(m) = shown /\ WorthFallen(shown, OpponentOf(color)) <= Counted(color)
        BY <2>2 DEF RecordInv, ShownIsCounted, FrameAfter
      <3>2. WorthFallen(shown, OpponentOf(color)) \in Nat
        BY WorthFallenIsNatural
      <3> QED BY <1>5, <1>6, <3>1, <3>2
    <2> QED BY <2>1, <2>2
  <1> QED BY <1>8, <1>9, <1>10, <1>11, <1>12 DEF RecordInv

LEMMA JoinRecords ==
    ASSUME RecordInv, ScoreInv', NEW role \in Roles, Join(role)
    PROVE  RecordInv'
  <1> PICK m : m = [tag |-> "ROLE", colors |-> role]
    OBVIOUS
  <1>1. /\ downlink' = <<m>> /\ Len(downlink') = 1 /\ DOMAIN downlink' = 1 .. 1
        /\ downlink'[1] = m /\ downlink' \in Seq({m})
    BY DEF Join
  <1>2. IsMessage(m) /\ m # MoveMessage /\ m.tag # "STATE" /\ m.tag # "CAPTURE"
    BY DEF IsMessage, MoveMessage
  <1>3. /\ seat' = role /\ missed' = Records /\ panel' = NoRecords /\ shown' = shown
        /\ logged' = logged /\ score' = score
    BY DEF Join, RecordInv, LinkInv, windowVars, engineVars, vars
  <1>4. /\ score \in [Color -> Nat] /\ logged \in Nat /\ NoRecords \in RecordsValue
        /\ Records \in RecordsValue
    <2>1. score \in [Color -> Nat] /\ logged \in Nat
      BY MaxMovesIsNatural, ReportFacts
         DEF RecordInv, ScoreInv, ReportInv, TypeInv, TypeOK
    <2> QED BY <2>1 DEF NoRecords, Records, RecordsValue
  <1>5. LinkInv'
    <2>1. role # NoSeat
      BY RolesType DEF NoSeat, Color
    <2>2. shown.board \in BoardValue
      BY DEF RecordInv, LinkInv
    <2>3. \A i \in DOMAIN downlink' : downlink'[i] = m
      BY <1>1
    <2> QED BY <1>1, <1>2, <1>3, <1>4, <2>1, <2>2, <2>3 DEF LinkInv
  <1>6. \A color \in Color : Counted(color)' = score[color] /\ OpponentOf(color) \in Color
    BY <1>3, <1>4 DEF Counted, NoRecords, Records, OpponentOf, Color
  <1>7. CountIn(downlink', 1, {MoveMessage}) = 0 /\ \A color : WorthIn(downlink', 1, color) = 0
    <2>1. CountIn(downlink', 0 + 1, {MoveMessage}) = 0
      BY <1>1, <1>2, CountGrows, NothingCounts DEF One
    <2>2. ASSUME NEW color PROVE WorthIn(downlink', 0 + 1, color) = 0
      <3>1. Gain(m, color) = 0
        BY <1>2 DEF Gain
      <3>2. WorthIn(downlink', 0 + 1, color) = WorthIn(downlink', 0, color) + Gain(m, color)
        BY <1>1, <1>2, WorthGrows
      <3>3. WorthIn(downlink', 0, color) = 0
        BY NothingCounts
      <3> QED BY <3>1, <3>2, <3>3
    <2> QED BY <2>1, <2>2
  <1>8. MovesAreCounted'
    BY <1>1, <1>3, <1>4, <1>7 DEF MovesAreCounted, NoRecords, Records
  <1>9. CapturesAreCounted'
    BY <1>1, <1>3, <1>4, <1>6, <1>7 DEF CapturesAreCounted
  <1>10. FramesAreCounted'
    BY <1>1, <1>2 DEF FramesAreCounted
  <1>11. ShownIsCounted'
    <2> SUFFICES ASSUME NEW color \in Color
                 PROVE  WorthFallen(shown, OpponentOf(color)) <= score[color]
      BY <1>3, <1>6 DEF ShownIsCounted, WorthFallen, Fallen
    <2>1. WorthFallen(shown, OpponentOf(color)) <= Counted(color) /\ Counted(color) = 0
      BY DEF Join, RecordInv, ShownIsCounted, LinkInv, Counted, NoRecords
    <2>2. WorthFallen(shown, OpponentOf(color)) \in Nat
      BY WorthFallenIsNatural
    <2> QED BY <1>4, <2>1, <2>2
  <1> QED BY <1>5, <1>8, <1>9, <1>10, <1>11 DEF RecordInv

\* Between two ticks the board shows what the score has counted, and no more.
LEMMA FrameIsCounted ==
    ASSUME ScoreInv, ~Busy, NEW frame, frame.board = board
    PROVE  /\ IsMessage(FrameMessage(frame))
           /\ \A color \in Color : WorthFallen(frame, OpponentOf(color)) <= score[color]
  <1>1. board \in BoardValue /\ score \in [Color -> Nat]
    BY ReportFacts DEF ScoreInv, ReportInv, TypeInv, TypeOK
  <1>2. IsMessage(FrameMessage(frame))
    BY <1>1 DEF IsMessage
  <1>3. ASSUME NEW color \in Color
        PROVE  WorthFallen(frame, OpponentOf(color)) <= score[color]
    <2>1. \A kinds : Fallen(frame, OpponentOf(color), kinds) = Lost(OpponentOf(color), kinds)
      BY DEF Fallen, Lost, IsCaptured
    <2>2. \A kinds : Cardinality(Lost(OpponentOf(color), kinds)) \in Nat
      BY <2>1, FallenIsFinite
    <2>3. WorthFallen(frame, OpponentOf(color)) = score[color]
      BY <2>1, <2>2, ScoresOfScoreInv DEF WorthFallen, ScoresMatchCaptures
    <2> QED BY <1>1, <2>3
  <1> QED BY <1>2, <1>3

LEMMA FrameRecords ==
    ASSUME RecordInv, ScoreInv', ~Busy, NEW frame, frame.board = board,
           Tell(<<FrameMessage(frame)>>), WindowWaits, UNCHANGED <<score, logged>>
    PROVE  RecordInv'
  <1> PICK m : m = FrameMessage(frame)
    OBVIOUS
  <1>1. /\ m.tag = "STATE" /\ m.frame = frame /\ m # MoveMessage
        /\ \A color : Gain(m, color) = 0
    BY DEF FrameMessage, MoveMessage, Gain
  <1>2. /\ IsMessage(m)
        /\ \A color \in Color : WorthFallen(m.frame, OpponentOf(color)) <= score[color]
    BY <1>1, FrameIsCounted DEF RecordInv
  <1>3. LinkInv' /\ IF seat = NoSeat THEN downlink' = downlink ELSE Says(m)
    BY <1>2, TellingSays DEF RecordInv
  <1>4. CASE seat = NoSeat
    BY <1>3, <1>4, SilenceKeepsRecords
  <1>5. CASE seat # NoSeat
    <2>1. /\ logged' = logged + One(m = MoveMessage)
          /\ \A color \in Color : score'[color] = score[color] + Gain(m, OpponentOf(color))
      <3>1. logged \in Nat /\ score \in [Color -> Nat]
        BY MaxMovesIsNatural, ReportFacts
           DEF RecordInv, ScoreInv, ReportInv, TypeInv, TypeOK
      <3> QED BY <1>1, <3>1 DEF One
    <2> QED BY <1>2, <1>3, <1>5, <2>1, SayingKeepsRecords
  <1> QED BY <1>4, <1>5

LEMMA PerformRecords ==
    ASSUME RecordInv, ScoreInv', NEW from, NEW to, Perform(from, to), WindowWaits
    PROVE  RecordInv'
  <1>1. /\ IsMessage(MoveMessage) /\ MoveMessage.tag # "STATE"
        /\ \A color : Gain(MoveMessage, color) = 0
    BY DEF IsMessage, MoveMessage, Gain
  <1>2. logged' = logged + One(MoveMessage = MoveMessage) /\ score' = score
    BY DEF Perform, RequestMove, RequestJump, PublishAccepted, One
  <1>3. LinkInv' /\ IF seat = NoSeat THEN downlink' = downlink ELSE Says(MoveMessage)
    BY <1>1, TellingSays DEF Perform, RecordInv
  <1>4. CASE seat = NoSeat
    BY <1>3, <1>4, SilenceKeepsRecords
  <1>5. CASE seat # NoSeat
    <2>1. \A color \in Color :
             score'[color] = score[color] + Gain(MoveMessage, OpponentOf(color))
      <3>1. score \in [Color -> Nat]
        BY ReportFacts DEF RecordInv, ScoreInv, ReportInv, TypeInv, TypeOK
      <3> QED BY <1>1, <1>2, <3>1
    <2> QED BY <1>1, <1>2, <1>3, <1>5, <2>1, SayingKeepsRecords
  <1> QED BY <1>4, <1>5

\* A report is announced as it is scored.
LEMMA DeliveryRecords ==
    ASSUME RecordInv, ScoreInv', DeliverReport, Tell(CaptureMessages(Head(reports))),
           WindowWaits
    PROVE  RecordInv'
  <1> PICK taken : taken = Head(reports).captured
    OBVIOUS
  <1>1. /\ board \in BoardValue /\ score \in [Color -> Nat] /\ logged \in Nat
        /\ taken \in Piece \cup {NoPiece}
    <2>1. taken \in Piece \cup {NoPiece}
      BY DeliverFacts DEF RecordInv, ScoreInv
    <2> QED BY <2>1, MaxMovesIsNatural, ReportFacts
            DEF RecordInv, ScoreInv, ReportInv, TypeInv, TypeOK
  <1>2. logged' = logged
    BY DEF DeliverReport
  <1>3. CASE taken = NoPiece
    <2>1. score' = score
      BY <1>3 DEF DeliverReport
    <2>2. downlink' = downlink
      <3>1. PICK S : downlink \in Seq(S)
        BY DEF RecordInv, LinkInv
      <3>2. downlink \o << >> = downlink
        BY <3>1
      <3> QED BY <1>3, <3>2 DEF Tell, CaptureMessages
    <2> QED BY <1>2, <2>1, <2>2, SilenceKeepsRecords
  <1>4. CASE taken # NoPiece
    <2> PICK loser, kind : loser = ColorOf(taken) /\ kind = board.kind[taken]
      OBVIOUS
    <2> PICK m : m = CaptureMessage(loser, kind)
      OBVIOUS
    <2>1. /\ loser \in Color /\ kind \in Kind /\ OpponentOf(loser) \in Color
          /\ CostOf(kind) \in Nat
      BY <1>1, <1>4 DEF BoardValue, ColorOf, OpponentOf, Color, Kind, CostOf
    <2>2. IsMessage(m)
      BY <2>1 DEF IsMessage
    <2>3. m.tag = "CAPTURE" /\ m.color = loser /\ m.kind = kind /\ m # MoveMessage
      BY DEF CaptureMessage, MoveMessage
    <2>4. score' = [score EXCEPT ![OpponentOf(loser)] = @ + CostOf(kind)]
      BY <1>4 DEF DeliverReport
    <2>5. Tell(<<m>>)
      BY <1>4 DEF CaptureMessages
    <2>6. LinkInv' /\ IF seat = NoSeat THEN downlink' = downlink ELSE Says(m)
      BY <2>2, <2>5, TellingSays DEF RecordInv
    <2>7. CASE seat = NoSeat
      BY <2>6, <2>7, SilenceKeepsRecords
    <2>8. CASE seat # NoSeat
      <3>1. ASSUME NEW color \in Color
            PROVE  score'[color] = score[color] + Gain(m, OpponentOf(color))
        <4>1. OpponentOf(color) = loser <=> color = OpponentOf(loser)
          BY <2>1 DEF OpponentOf, Color
        <4>2. Gain(m, OpponentOf(color)) = IF color = OpponentOf(loser) THEN CostOf(kind) ELSE 0
          BY <2>3, <4>1 DEF Gain
        <4>3. score'[color] = IF color = OpponentOf(loser)
                              THEN score[color] + CostOf(kind) ELSE score[color]
          BY <1>1, <2>4
        <4>4. score[color] \in Nat
          BY <1>1
        <4> QED BY <2>1, <4>2, <4>3, <4>4
      <3>2. logged' = logged + One(m = MoveMessage)
        BY <1>1, <1>2, <2>3 DEF One
      <3> QED BY <2>2, <2>3, <2>6, <2>8, <3>1, <3>2, SayingKeepsRecords
    <2> QED BY <2>7, <2>8
  <1> QED BY <1>3, <1>4

LEMMA NextRecordInv == RecordInv /\ [PlayNext]_playVars => RecordInv'
  <1> SUFFICES ASSUME RecordInv, [PlayNext]_playVars
               PROVE  RecordInv'
    OBVIOUS
  <1>1. ScoreInv'
    BY PlayStepPlays, NextScoreInv DEF RecordInv
  <1> USE <1>1
  <1>2. ASSUME NEW role \in Roles, Join(role)
        PROVE  RecordInv'
    BY <1>2, JoinRecords
  <1>3. CASE ApplyCommand
    <2>1. WindowWaits
      BY <1>3 DEF ApplyCommand, WindowWaits, windowVars
    <2>2. CASE Accepts(Head(uplink))
      BY <1>3, <2>1, <2>2, PerformRecords DEF ApplyCommand
    <2>3. CASE ~Accepts(Head(uplink))
      BY <1>3, <2>1, <2>3, SilenceKeepsRecords DEF ApplyCommand, engineVars, vars
    <2> QED BY <2>2, <2>3
  <1>4. ASSUME NEW from \in Cells, NEW to \in Cells, OthersCommand(from, to)
        PROVE  RecordInv'
    BY <1>4, PerformRecords DEF OthersCommand, WindowWaits, windowVars
  <1>5. CASE Forfeit
    <2>1. SnapshotOf(board, TRUE, active, resting).board = board
      BY DEF SnapshotOf
    <2>2. /\ WindowWaits /\ ~Busy /\ UNCHANGED <<score, logged>>
          /\ Tell(<<FrameMessage(SnapshotOf(board, TRUE, active, resting))>>)
      BY <1>5 DEF Forfeit, WindowWaits, windowVars, EndGame, MayAct
    <2> QED BY <2>1, <2>2, FrameRecords
  <1>6. CASE BeginTick
    BY <1>6, SilenceKeepsRecords DEF BeginTick, Wait, WindowWaits, windowVars, linkVars
  <1>7. CASE WorkTick
    <2>1. WindowWaits
      BY <1>7 DEF WorkTick, WindowWaits, windowVars
    <2>2. CASE DeliverReport /\ Tell(CaptureMessages(Head(reports)))
      BY <2>1, <2>2, DeliveryRecords
    <2>3. CASE (\E t \in Tickets : Resolve(t) \/ LandJump(t)) /\ UNCHANGED downlink
      BY <2>1, <2>3, SilenceKeepsRecords DEF Resolve, LandJump
    <2> QED BY <1>7, <2>2, <2>3 DEF WorkTick
  <1>8. CASE EndTick
    <2>1. Snapshot.board = board
      BY DEF Snapshot, SnapshotOf
    <2>2. /\ WindowWaits /\ ~Busy /\ UNCHANGED <<score, logged>>
          /\ Tell(<<FrameMessage(Snapshot)>>)
      BY <1>8 DEF EndTick, TickIsDone, BroadcastOfTick, WindowWaits, windowVars,
                  engineVars, vars
    <2> QED BY <2>1, <2>2, FrameRecords
  <1>9. CASE Receive
    BY <1>9, ReceiveRecords
  <1>10. ASSUME NEW actions \in MouseActions, DrawGame(actions)
         PROVE  RecordInv'
    BY <1>10, SilenceKeepsRecords DEF DrawGame, WindowWaits, engineVars, vars
  <1>11. CASE UNCHANGED playVars
    BY <1>11, SilenceKeepsRecords
       DEF playVars, linkVars, windowVars, WindowWaits, engineVars, vars
  <1> QED BY <1>2, <1>3, <1>4, <1>5, <1>6, <1>7, <1>8, <1>9, <1>10, <1>11
          DEF PlayNext, ServerTick

LEMMA InitRecordInv == PlayInit => RecordInv
  <1> SUFFICES ASSUME PlayInit PROVE RecordInv
    OBVIOUS
  <1>1. ScoreInv /\ board \in BoardValue
    BY InitScoreInv, ReportFacts DEF PlayInit, ScoreInv, ReportInv
  <1>2. LinkInv
    <2>1. NoRecords \in RecordsValue /\ Snapshot.board = board /\ downlink \in Seq({})
      BY DEF NoRecords, RecordsValue, Snapshot, SnapshotOf, PlayInit
    <2> QED BY <1>1, <2>1 DEF PlayInit, LinkInv
  <1>3. FramesAreCounted
    BY DEF PlayInit, FramesAreCounted
  <1>4. ShownIsCounted
    <2> SUFFICES ASSUME NEW color \in Color
                 PROVE  WorthFallen(shown, OpponentOf(color)) <= Counted(color)
      BY DEF ShownIsCounted
    <2>1. \A kinds : Fallen(shown, OpponentOf(color), kinds) = {}
      BY DEF PlayInit, Init, StartBoard, Snapshot, SnapshotOf, Fallen
    <2>2. WorthFallen(shown, OpponentOf(color)) = 0
      BY <2>1, FS_EmptySet DEF WorthFallen
    <2>3. Counted(color) = 0
      BY DEF PlayInit, Counted, NoRecords
    <2> QED BY <2>2, <2>3
  <1> QED BY <1>1, <1>2, <1>3, <1>4 DEF RecordInv, PlayInit

(***************************************************************************)
(* What the window has recorded, with what is on its way to it, is what    *)
(* the session has recorded since the window came: no move and no capture  *)
(* is counted twice or not at all, whenever the window comes, however far  *)
(* it lags behind and however the game ends.                               *)
(***************************************************************************)
THEOREM RecordsAreKept == PlaySpec => []NoEventIsForgotten
  BY InitRecordInv, NextRecordInv, RecordInvIsEnough, PTL DEF PlaySpec

(***************************************************************************)
(* No window shows a piece as taken that its score has not counted.        *)
(***************************************************************************)
THEOREM ScoresKeepUp == PlaySpec => []ScoresKeepUpWithTheBoard
  BY InitRecordInv, NextRecordInv, RecordInvIsEnough, PTL DEF PlaySpec

-----------------------------------------------------------------------------
(***************************************************************************)
(* The mouse.  A cell and the pixel at its corner name each other, and a   *)
(* click never selects but a piece of the frame.                           *)
(***************************************************************************)
LEMMA ToCellIsOne ==
    ASSUME NEW pixel \in Int \X Int
    PROVE  ToCell(pixel) = {} \/ \E c \in Cells : ToCell(pixel) = {c}
  <1> PICK x, y : x = pixel[1] - BoardOrigin[1] /\ y = pixel[2] - BoardOrigin[2]
    OBVIOUS
  <1> PICK row, col : row = y \div CellPx /\ col = x \div CellPx
    OBVIOUS
  <1>1. ToCell(pixel) = IF x < 0 \/ y < 0 \/ row >= Height \/ col >= Width
                        THEN {} ELSE {<<row, col>>}
    BY DEF ToCell
  <1>2. x \in Int /\ y \in Int
    BY PanelPxType DEF BoardOrigin
  <1>3. CASE ~(x < 0 \/ y < 0 \/ row >= Height \/ col >= Width)
    <2>1. x \in Nat /\ y \in Nat
      BY <1>2, <1>3
    <2>2. row \in Nat /\ col \in Nat
      BY <2>1, CellPxType
    <2>3. <<row, col>> \in Cells
      BY <1>3, <2>2, DimensionsPositive DEF Cells
    <2> QED BY <1>1, <1>3, <2>3
  <1> QED BY <1>1, <1>3

LEMMA CellPixelNamesIt ==
    ASSUME NEW c \in Cells
    PROVE  CellPixel(c) \in Int \X Int /\ ToCell(CellPixel(c)) = {c}
  <1> PICK row, col : row = c[1] /\ col = c[2]
    OBVIOUS
  <1>1. /\ row \in Nat /\ row < Height /\ col \in Nat /\ col < Width /\ c = <<row, col>>
    BY DimensionsPositive DEF Cells
  <1>2. row * CellPx \in Nat /\ col * CellPx \in Nat
    BY <1>1, CellPxType
  <1>3. (row * CellPx) \div CellPx = row /\ (col * CellPx) \div CellPx = col
    BY <1>1, CellPxType
  <1>4. CellPixel(c) = <<PanelPx + col * CellPx, 0 + row * CellPx>>
    BY DEF CellPixel, BoardOrigin
  <1>5. /\ CellPixel(c)[1] - BoardOrigin[1] = col * CellPx
        /\ CellPixel(c)[2] - BoardOrigin[2] = row * CellPx
    BY <1>2, <1>4, PanelPxType DEF BoardOrigin
  <1>6. ToCell(CellPixel(c)) = {<<row, col>>}
    <2>1. ~(col * CellPx < 0 \/ row * CellPx < 0 \/ row >= Height \/ col >= Width)
      BY <1>1, <1>2, DimensionsPositive
    <2> QED BY <1>3, <1>5, <2>1 DEF ToCell
  <1> QED BY <1>1, <1>2, <1>4, <1>6, PanelPxType

LEMMA CellPixelsDiffer ==
    ASSUME NEW c \in Cells, NEW d \in Cells, CellPixel(c) = CellPixel(d)
    PROVE  c = d
  BY CellPixelNamesIt

\* The selection is a cell of the board, if it is one.
IsSelection(cells) == cells = {} \/ \E s \in Cells : cells = {s}

LEMMA SecondClickSelects ==
    ASSUME NEW frame, NEW colors, NEW s \in Cells, NEW c \in Cells
    PROVE  /\ IsSelection(SecondClick(frame, colors, s, c).selected)
           /\ SecondClick(frame, colors, s, c).commands = << >>
              \/ SecondClick(frame, colors, s, c).commands = CommandsFor(frame, colors, s, c)
  BY DEF SecondClick, IsSelection

\* What a click makes of the selection, and what a double-click leaves of it.
LEMMA ClickSelects ==
    ASSUME NEW frame, NEW colors, NEW cells, IsSelection(cells), NEW pixel \in Int \X Int
    PROVE  LET click == HandleClick(frame, colors, cells, pixel)
           IN  /\ IsSelection(click.selected)
               /\ \/ click.commands = << >>
                  \/ \E s, c : click.commands = CommandsFor(frame, colors, s, c)
  <1>1. CASE cells = {}
    <2>1. IsSelection(FirstClick(frame, ToCell(pixel)))
      BY ToCellIsOne DEF FirstClick, IsSelection
    <2> QED BY <1>1, <2>1 DEF HandleClick
  <1>2. CASE cells # {} /\ ToCell(pixel) = {}
    BY <1>2 DEF HandleClick, IsSelection
  <1>3. CASE cells # {} /\ ToCell(pixel) # {}
    <2>1. PICK s \in Cells, c \in Cells : cells = {s} /\ ToCell(pixel) = {c}
      BY <1>3, ToCellIsOne DEF IsSelection
    <2>2. (CHOOSE e \in cells : TRUE) = s /\ (CHOOSE e \in ToCell(pixel) : TRUE) = c
      BY <2>1
    <2>3. HandleClick(frame, colors, cells, pixel) = SecondClick(frame, colors, s, c)
      BY <1>3, <2>2 DEF HandleClick
    <2> QED BY <2>3, SecondClickSelects
  <1> QED BY <1>1, <1>2, <1>3

LEMMA JumpSends ==
    ASSUME NEW frame, NEW colors, NEW cells, NEW pixel \in Int \X Int
    PROVE  LET jump == HandleJump(frame, colors, cells, pixel)
           IN  /\ jump.selected = cells
               /\ jump.commands = << >> \/ \E c : jump.commands = CommandsFor(frame, colors, c, c)
  <1> DEFINE c == CHOOSE c \in ToCell(pixel) : TRUE
  <1>1. HandleJump(frame, colors, cells, pixel).selected = cells
    BY DEF HandleJump
  <1>2. HandleJump(frame, colors, cells, pixel).commands =
          IF ToCell(pixel) = {} THEN << >> ELSE CommandsFor(frame, colors, c, c)
    BY DEF HandleJump
  <1> QED BY <1>1, <1>2

LEMMA OneCommandAtMost ==
    ASSUME NEW frame, NEW colors, NEW from, NEW to
    PROVE  \/ CommandsFor(frame, colors, from, to) = << >>
           \/ CommandsFor(frame, colors, from, to) =
                 << [player |-> ColorOf(frame.board.at[from]), from |-> from, to |-> to] >>
  BY DEF CommandsFor

\* A frame's mouse actions come down to one: a click or a double-click.
LEMMA OneActionCounts ==
    ASSUME NEW frame, NEW colors, NEW cells, NEW actions \in MouseActions,
           pressed \subseteq Int \X Int
    PROVE  \E action :
             /\ action.at \in Int \X Int
             /\ action.double = actions[Len(actions)].double
             /\ Dispatched(frame, colors, cells, actions) =
                   Acted(frame, colors, [selected |-> cells, commands |-> << >>], action)
  <1>1. ASSUME NEW p \in Int \X Int, actions = <<Click(p), DoubleClick(p)>>
        PROVE  /\ OpensDoubleClick(actions, 1) /\ Len(actions) = 2
               /\ actions[2] = DoubleClick(p) /\ DoubleClick(p).at = p
    BY <1>1 DEF OpensDoubleClick, Click, DoubleClick
  <1>2. ASSUME NEW action, actions = <<action>>
        PROVE  ~OpensDoubleClick(actions, 1) /\ Len(actions) = 1 /\ actions[1] = action
    BY <1>2 DEF OpensDoubleClick
  <1>3. CASE \E p \in Points : actions = <<Click(p), DoubleClick(p)>>
    BY <1>1, <1>3, PointsType DEF Dispatched
  <1>4. CASE \E p \in Int \X Int : actions = <<Click(p)>> \/ actions = <<DoubleClick(p)>>
    <2>1. PICK p \in Int \X Int : actions = <<Click(p)>> \/ actions = <<DoubleClick(p)>>
      BY <1>4
    <2>2. Click(p).at = p /\ DoubleClick(p).at = p
      BY DEF Click, DoubleClick
    <2> QED BY <1>2, <2>1, <2>2 DEF Dispatched
  <1> QED BY <1>3, <1>4, PointsType DEF MouseActions

\* What the mouse is known to have done.
InputInv ==
    /\ \E S : uplink \in Seq(S)
    /\ IsSelection(selected)
    /\ pressed \subseteq Int \X Int

LEMMA ActedCommands ==
    ASSUME NEW frame, NEW colors, IsSelection(selected), NEW action,
           action.at \in Int \X Int,
           NEW done,
           done = Acted(frame, colors, [selected |-> selected, commands |-> << >>], action)
    PROVE  /\ IsSelection(done.selected)
           /\ done.commands = << >> \/ \E command : done.commands = <<command>>
           /\ action.double =>
                /\ done.selected = selected
                /\ done.commands # << >> =>
                     \E command : done.commands = <<command>> /\ command.from = command.to
  <1>1. CASE action.double
    <2> PICK jump : jump = HandleJump(frame, colors, selected, action.at)
      OBVIOUS
    <2>1. /\ jump.selected = selected
          /\ jump.commands = << >> \/ \E c : jump.commands = CommandsFor(frame, colors, c, c)
      BY JumpSends
    <2>2. \/ jump.commands = << >>
          \/ \E command : jump.commands = <<command>> /\ command.from = command.to
      <3> SUFFICES ASSUME NEW c, jump.commands = CommandsFor(frame, colors, c, c),
                          jump.commands # << >>
                   PROVE  \E command : jump.commands = <<command>> /\ command.from = command.to
        BY <2>1
      <3> PICK command :
               command = [player |-> ColorOf(frame.board.at[c]), from |-> c, to |-> c]
        OBVIOUS
      <3> QED BY OneCommandAtMost
    <2>3. done.selected = jump.selected /\ done.commands = << >> \o jump.commands
      BY <1>1 DEF Acted
    <2>4. done.commands = jump.commands
      BY <2>2, <2>3
    <2> QED BY <2>1, <2>2, <2>3, <2>4
  <1>2. CASE ~action.double
    <2> PICK click : click = HandleClick(frame, colors, selected, action.at)
      OBVIOUS
    <2>1. /\ IsSelection(click.selected)
          /\ \/ click.commands = << >>
             \/ \E s, c : click.commands = CommandsFor(frame, colors, s, c)
      BY ClickSelects
    <2>2. click.commands = << >> \/ \E command : click.commands = <<command>>
      BY <2>1, OneCommandAtMost
    <2>3. done.selected = click.selected /\ done.commands = << >> \o click.commands
      BY <1>2 DEF Acted
    <2>4. done.commands = click.commands
      BY <2>2, <2>3
    <2> QED BY <1>2, <2>1, <2>2, <2>3, <2>4
  <1> QED BY <1>1, <1>2

LEMMA DrawFacts ==
    ASSUME InputInv, NEW actions \in MouseActions, DrawGame(actions)
    PROVE  /\ InputInv'
           /\ pressed' = {} =>
                /\ selected' = selected
                /\ uplink' # uplink =>
                     /\ Len(uplink') = Len(uplink) + 1
                     /\ uplink'[Len(uplink')].from = uplink'[Len(uplink')].to
  <1>1. PICK action :
             /\ action.at \in Int \X Int
             /\ action.double = actions[Len(actions)].double
             /\ Dispatched(shown, own, selected, actions) =
                   Acted(shown, own, [selected |-> selected, commands |-> << >>], action)
    BY OneActionCounts DEF InputInv
  <1> PICK done : done = Dispatched(shown, own, selected, actions)
    OBVIOUS
  <1>2. /\ IsSelection(done.selected)
        /\ done.commands = << >> \/ \E command : done.commands = <<command>>
        /\ action.double =>
             /\ done.selected = selected
             /\ done.commands # << >> =>
                  \E command : done.commands = <<command>> /\ command.from = command.to
    BY <1>1, ActedCommands DEF InputInv
  <1>3. /\ selected' = done.selected /\ uplink' = uplink \o done.commands
        /\ pressed' = IF action.double THEN {} ELSE {actions[Len(actions)].at}
    BY <1>1 DEF DrawGame
  <1>4. PICK S : uplink \in Seq(S)
    BY DEF InputInv
  <1>5. \E T : uplink' \in Seq(T)
    <2>1. CASE done.commands = << >>
      BY <1>3, <1>4, <2>1
    <2>2. ASSUME NEW command, done.commands = <<command>>
          PROVE  \E T : uplink' \in Seq(T)
      <3>1. uplink \in Seq(S \cup {command}) /\ <<command>> \in Seq(S \cup {command})
        BY <1>4
      <3>2. uplink' \in Seq(S \cup {command})
        BY <1>3, <2>2, <3>1
      <3> QED BY <3>2
    <2> QED BY <1>2, <2>1, <2>2
  <1>6. pressed' \subseteq Int \X Int
    <2>1. \A a \in {Click(p) : p \in Points} \cup {DoubleClick(p) : p \in Points \cup pressed} :
             a.at \in Int \X Int
      BY PointsType DEF Click, DoubleClick, InputInv
    <2>2. actions[Len(actions)] \in {Click(p) : p \in Points}
                                    \cup {DoubleClick(p) : p \in Points \cup pressed}
      BY DEF MouseActions
    <2> QED BY <1>3, <2>1, <2>2
  <1>7. ASSUME action.double, uplink' # uplink
        PROVE  /\ Len(uplink') = Len(uplink) + 1
               /\ uplink'[Len(uplink')].from = uplink'[Len(uplink')].to
    <2>1. done.commands # << >>
      BY <1>3, <1>4, <1>7
    <2>2. PICK command : done.commands = <<command>> /\ command.from = command.to
      BY <1>2, <1>7, <2>1
    <2> QED BY <1>3, <1>4, <2>2
  <1> QED BY <1>2, <1>3, <1>5, <1>6, <1>7 DEF InputInv

LEMMA NextInputInv == InputInv /\ [PlayNext]_playVars => InputInv'
  <1> SUFFICES ASSUME InputInv, [PlayNext]_playVars
               PROVE  InputInv'
    OBVIOUS
  <1>1. ASSUME NEW actions \in MouseActions, DrawGame(actions)
        PROVE  InputInv'
    BY <1>1, DrawFacts
  <1>2. ASSUME uplink' = uplink \/ (uplink # << >> /\ uplink' = Tail(uplink)),
               selected' = selected, pressed' = pressed
        PROVE  InputInv'
    BY <1>2 DEF InputInv
  <1>3. ASSUME NEW role \in Roles, Join(role)
        PROVE  InputInv'
    BY <1>2, <1>3 DEF Join, windowVars
  <1>4. CASE ApplyCommand
    BY <1>2, <1>4 DEF ApplyCommand, windowVars
  <1>5. ASSUME NEW from \in Cells, NEW to \in Cells, OthersCommand(from, to)
        PROVE  InputInv'
    BY <1>2, <1>5 DEF OthersCommand, windowVars
  <1>6. CASE Forfeit \/ ServerTick
    BY <1>2, <1>6 DEF Forfeit, ServerTick, BeginTick, WorkTick, EndTick, windowVars, linkVars
  <1>7. CASE Receive
    BY <1>2, <1>7 DEF Receive
  <1>8. CASE UNCHANGED playVars
    BY <1>2, <1>8 DEF playVars, linkVars, windowVars
  <1> QED BY <1>1, <1>3, <1>4, <1>5, <1>6, <1>7, <1>8 DEF PlayNext

LEMMA InitInputInv == PlayInit => InputInv
  <1>1. << >> \in Seq({})
    OBVIOUS
  <1> QED BY <1>1 DEF PlayInit, InputInv, IsSelection

(***************************************************************************)
(* A frame that ends in a double-click sends a jump or nothing, and leaves *)
(* the selection alone.                                                    *)
(***************************************************************************)
THEOREM JumpsLeaveTheSelection == PlaySpec => JumpsDisturbNothing
  <1> DEFINE Leaves ==
        pressed' = {} /\ (selected' # selected \/ Len(uplink') > Len(uplink)) =>
          /\ selected' = selected
          /\ Len(uplink') = Len(uplink) + 1
          /\ LET jump == uplink'[Len(uplink')] IN jump.from = jump.to
  <1>1. InputInv /\ [PlayNext]_playVars => [Leaves]_playVars
    <2> SUFFICES ASSUME InputInv, PlayNext, pressed' = {},
                        selected' # selected \/ Len(uplink') > Len(uplink)
                 PROVE  /\ selected' = selected
                        /\ Len(uplink') = Len(uplink) + 1
                        /\ uplink'[Len(uplink')].from = uplink'[Len(uplink')].to
      BY DEF playVars
    <2>1. ASSUME NEW actions \in MouseActions, DrawGame(actions)
          PROVE  /\ selected' = selected
                 /\ Len(uplink') = Len(uplink) + 1
                 /\ uplink'[Len(uplink')].from = uplink'[Len(uplink')].to
      BY <2>1, DrawFacts
    <2>2. ASSUME uplink' = uplink \/ (uplink # << >> /\ uplink' = Tail(uplink)),
                 selected' = selected
          PROVE  FALSE
      <3>1. PICK S : uplink \in Seq(S)
        BY DEF InputInv
      <3>2. Len(uplink) \in Nat /\ Len(uplink') <= Len(uplink)
        BY <2>2, <3>1
      <3> QED BY <2>2, <3>2
    <2>3. CASE \E role \in Roles : Join(role)
      BY <2>2, <2>3 DEF Join, windowVars
    <2>4. CASE ApplyCommand
      BY <2>2, <2>4 DEF ApplyCommand, windowVars
    <2>5. CASE \E from, to \in Cells : OthersCommand(from, to)
      BY <2>2, <2>5 DEF OthersCommand, windowVars
    <2>6. CASE Forfeit \/ ServerTick \/ Receive
      BY <2>2, <2>6 DEF Forfeit, ServerTick, BeginTick, WorkTick, EndTick, Receive,
                        windowVars, linkVars
    <2> QED BY <2>1, <2>3, <2>4, <2>5, <2>6 DEF PlayNext
  <1> QED BY <1>1, InitInputInv, NextInputInv, PTL DEF PlaySpec, JumpsDisturbNothing

-----------------------------------------------------------------------------
(***************************************************************************)
(* The board of a frame is a board of the game: what a frame shows on a    *)
(* cell stands, by its own account, on that cell.                          *)
(***************************************************************************)
FramesAgree ==
    /\ CellsAgree(shown.board)
    /\ \A i \in DOMAIN downlink :
          downlink[i].tag = "STATE" => CellsAgree(downlink[i].frame.board)

LEMMA TellingKeepsFrames ==
    ASSUME LinkInv, CellsAgree(board), FramesAgree, NEW message,
           message.tag = "STATE" => message.frame.board = board,
           Tell(<<message>>), shown' = shown
    PROVE  FramesAgree'
  <1>1. PICK S : downlink \in Seq(S)
    BY DEF LinkInv
  <1>2. ASSUME NEW i \in DOMAIN downlink'
        PROVE  (i \in DOMAIN downlink /\ downlink'[i] = downlink[i]) \/ downlink'[i] = message
    <2>1. CASE seat = NoSeat
      BY <2>1 DEF Tell
    <2>2. CASE seat # NoSeat
      <3>1. downlink' = downlink \o <<message>>
        BY <2>2 DEF Tell
      <3>2. downlink \in Seq(S \cup {message}) /\ <<message>> \in Seq(S \cup {message})
        BY <1>1
      <3>3. /\ Len(downlink') = Len(downlink) + 1
            /\ DOMAIN downlink' = 1 .. Len(downlink) + 1
            /\ DOMAIN downlink = 1 .. Len(downlink)
            /\ \A k \in 1 .. Len(downlink) : downlink'[k] = downlink[k]
            /\ downlink'[Len(downlink) + 1] = message
        BY <3>1, <3>2
      <3> QED BY <3>3
    <2> QED BY <2>1, <2>2
  <1> QED BY <1>2 DEF FramesAgree

LEMMA NextFramesAgree ==
    ASSUME RecordInv, FramesAgree, [PlayNext]_playVars
    PROVE  FramesAgree'
  <1>1. LinkInv /\ CellsAgree(board)
    BY ReportFacts DEF RecordInv, ScoreInv, ReportInv, InSync
  <1>2. ASSUME shown' = shown, downlink' = downlink
        PROVE  FramesAgree'
    BY <1>2 DEF FramesAgree
  <1>3. ASSUME NEW role \in Roles, Join(role)
        PROVE  FramesAgree'
    BY <1>3 DEF FramesAgree, Join, windowVars
  <1>4. ASSUME NEW from, NEW to, Perform(from, to), shown' = shown
        PROVE  FramesAgree'
    <2>1. MoveMessage.tag # "STATE" /\ Tell(<<MoveMessage>>)
      BY <1>4 DEF MoveMessage, Perform
    <2> QED BY <1>1, <1>4, <2>1, TellingKeepsFrames
  <1>5. CASE ApplyCommand
    BY <1>2, <1>4, <1>5 DEF ApplyCommand, windowVars
  <1>6. ASSUME NEW from \in Cells, NEW to \in Cells, OthersCommand(from, to)
        PROVE  FramesAgree'
    BY <1>4, <1>6 DEF OthersCommand, windowVars
  <1>7. ASSUME NEW frame, frame.board = board, Tell(<<FrameMessage(frame)>>), shown' = shown
        PROVE  FramesAgree'
    <2>1. FrameMessage(frame).frame = frame
      BY DEF FrameMessage
    <2> QED BY <1>1, <1>7, <2>1, TellingKeepsFrames
  <1>8. CASE Forfeit
    <2>1. SnapshotOf(board, TRUE, active, resting).board = board
      BY DEF SnapshotOf
    <2> QED BY <1>7, <1>8, <2>1 DEF Forfeit, windowVars
  <1>9. CASE BeginTick
    BY <1>2, <1>9 DEF BeginTick, windowVars, linkVars
  <1>10. CASE WorkTick
    <2> PICK report : report = Head(reports)
      OBVIOUS
    <2>1. shown' = shown
      BY <1>10 DEF WorkTick, windowVars
    <2>2. CASE downlink' = downlink
      BY <1>2, <2>1, <2>2
    <2>3. CASE downlink' # downlink
      <3>1. Tell(CaptureMessages(report))
        BY <1>10, <2>3 DEF WorkTick
      <3>2. report.captured # NoPiece
        <4>1. PICK S : downlink \in Seq(S)
          BY <1>1 DEF LinkInv
        <4>2. downlink \o << >> = downlink
          BY <4>1
        <4> QED BY <2>3, <3>1, <4>2 DEF Tell, CaptureMessages
      <3> PICK message :
               message = CaptureMessage(ColorOf(report.captured), board.kind[report.captured])
        OBVIOUS
      <3>3. Tell(<<message>>) /\ message.tag # "STATE"
        BY <3>1, <3>2 DEF CaptureMessages, CaptureMessage
      <3> QED BY <1>1, <2>1, <3>3, TellingKeepsFrames
    <2> QED BY <2>2, <2>3
  <1>11. CASE EndTick
    <2>1. Snapshot.board = board
      BY DEF Snapshot, SnapshotOf
    <2> QED BY <1>7, <1>11, <2>1 DEF EndTick, BroadcastOfTick, windowVars
  <1>12. CASE Receive
    <2>1. PICK S : downlink \in Seq(S)
      BY <1>1 DEF LinkInv
    <2>2. /\ downlink # << >> /\ downlink' = Tail(downlink)
          /\ shown' = FrameAfter(Head(downlink))
      BY <1>12 DEF Receive
    <2>3. /\ 1 \in DOMAIN downlink /\ Head(downlink) = downlink[1]
          /\ \A i \in DOMAIN downlink' : i + 1 \in DOMAIN downlink
                                         /\ downlink'[i] = downlink[i + 1]
      BY <2>1, <2>2
    <2> QED BY <2>2, <2>3 DEF FramesAgree, FrameAfter
  <1>13. ASSUME NEW actions \in MouseActions, DrawGame(actions)
         PROVE  FramesAgree'
    BY <1>2, <1>13 DEF DrawGame
  <1>14. CASE UNCHANGED playVars
    BY <1>2, <1>14 DEF playVars, linkVars, windowVars
  <1> QED BY <1>3, <1>5, <1>6, <1>8, <1>9, <1>10, <1>11, <1>12, <1>13, <1>14
          DEF PlayNext, ServerTick

ClickInv == RecordInv /\ InputInv /\ FramesAgree

LEMMA InitClickInv == PlayInit => ClickInv
  <1> SUFFICES ASSUME PlayInit PROVE ClickInv
    OBVIOUS
  <1>1. CellsAgree(board)
    BY InitScoreInv, ReportFacts DEF PlayInit, ScoreInv, ReportInv, InSync
  <1>2. shown.board = board /\ downlink = << >>
    BY DEF PlayInit, Snapshot, SnapshotOf
  <1>3. FramesAgree
    BY <1>1, <1>2 DEF FramesAgree
  <1> QED BY <1>3, InitRecordInv, InitInputInv DEF ClickInv

LEMMA NextClickInv == ClickInv /\ [PlayNext]_playVars => ClickInv'
  BY NextRecordInv, NextInputInv, NextFramesAgree DEF ClickInv

LEMMA PiecesDrawnAreClicked ==
    ASSUME ClickInv, NEW view \in PiecesDrawn(shown)
    PROVE  HandleClick(shown, own, {}, view.at).selected = {shown.board.cell[view.piece]}
  <1>1. PICK p \in Piece : /\ OnBoard(shown.board, p)
                           /\ view = [piece |-> p, at |-> CellPixel(shown.board.cell[p])]
    BY DEF PiecesDrawn
  <1>2. CellsAgree(shown.board) /\ shown.board \in BoardValue
    BY DEF ClickInv, FramesAgree, RecordInv, LinkInv
  <1>3. PICK c \in Cells : shown.board.at[c] = p
    BY <1>1 DEF OnBoard
  <1>4. Occupied(shown.board, c) /\ shown.board.cell[p] = c
    BY <1>2, <1>3, NoPieceIsNoPiece DEF CellsAgree, Occupied
  <1>5. ToCell(view.at) = {c}
    BY <1>1, <1>4, CellPixelNamesIt
  <1> QED BY <1>1, <1>4, <1>5 DEF HandleClick, FirstClick

LEMMA HighlightsAreClicked ==
    ASSUME ClickInv, NEW s \in selected, NEW c \in Cells,
           CellPixel(c) \in HighlightsDrawn(shown, own, selected),
           NEW done, done = HandleClick(shown, own, selected, CellPixel(c))
    PROVE  /\ done.selected = {} /\ Len(done.commands) = 1
           /\ Head(done.commands).from = s /\ Head(done.commands).to = c
  <1>1. s \in Cells /\ selected = {s} /\ shown.board \in BoardValue
    BY DEF ClickInv, InputInv, IsSelection, RecordInv, LinkInv
  <1>2. PICK d \in HighlightsFor(shown, own, s) : CellPixel(c) = CellPixel(d)
    BY <1>1 DEF HighlightsDrawn
  <1> PICK p : p = shown.board.at[s]
    OBVIOUS
  <1>3. MayCommand(shown, own, s) /\ d \in LegalDestinations(shown.board, p)
    BY <1>2 DEF HighlightsFor
  <1>4. p \in Piece
    BY <1>1, <1>3 DEF MayCommand, Occupied, BoardValue
  <1>5. d \in Cells /\ (Empty(shown.board, d) \/ Enemy(shown.board, p, d))
    BY <1>1, <1>3, <1>4, DestinationsAreFreeOrEnemy
  <1>6. d = c
    BY <1>2, <1>5, CellPixelsDiffer
  <1>7. ~IsReselection(shown, s, c)
    BY <1>5, <1>6 DEF IsReselection, Empty, Enemy, Occupied
  <1>8. done = SecondClick(shown, own, s, c)
    <2>1. ToCell(CellPixel(c)) = {c}
      BY CellPixelNamesIt
    <2>2. (CHOOSE e \in selected : TRUE) = s /\ (CHOOSE e \in ToCell(CellPixel(c)) : TRUE) = c
      BY <1>1, <2>1
    <2> QED BY <1>1, <2>1, <2>2 DEF HandleClick
  <1>9. done = [selected |-> {}, commands |-> CommandsFor(shown, own, s, c)]
    BY <1>7, <1>8 DEF SecondClick
  <1>10. CommandsFor(shown, own, s, c) = << [player |-> ColorOf(p), from |-> s, to |-> c] >>
    BY <1>3 DEF CommandsFor
  <1> QED BY <1>9, <1>10

(***************************************************************************)
(* The layout and the mouse agree, for any size of cells and panels: a     *)
(* click on a piece drawn on its square selects it, a click on a square    *)
(* that is highlighted is a command to go there.                           *)
(***************************************************************************)
THEOREM DrawnSquaresAreClicked == PlaySpec => []SquaresDrawnAreClicked
  <1>1. ClickInv => SquaresDrawnAreClicked
    BY PiecesDrawnAreClicked, HighlightsAreClicked DEF SquaresDrawnAreClicked
  <1> QED BY <1>1, InitClickInv, NextClickInv, PTL DEF PlaySpec

(***************************************************************************)
(* What a snapshot says is under way or resting is what the engine finds   *)
(* not to be idle, of the pieces that are not in the air.                  *)
(***************************************************************************)
LEMMA BusyIsMirrored ==
    ASSUME BusyInv, NEW c \in Cells, Occupied(board, c),
           board.state[board.at[c]] # "Airborne"
    PROVE  IsBusy(Snapshot, c) <=> ~Available(board.at[c])
  <1> DEFINE p == board.at[c]
  <1>1. p \in Piece /\ ~IsCaptured(p) /\ board \in BoardValue
    BY BusyFacts, JourneyFacts
  <1>2. board.state[p] \in {"Idle", "Moving", "Resting"}
    BY <1>1 DEF BoardValue, State, IsCaptured
  <1>3. IsBusy(Snapshot, c) <=> (\E t \in DOMAIN active : From(t) = c)
                                \/ (\E r \in resting : r.cell = c)
    <2> DEFINE Sent(t) == [from |-> CurrentCell(active[t]), to |-> NextCell(active[t])]
    <2>1. /\ Snapshot.motions = {Sent(t) : t \in DOMAIN active}
          /\ Snapshot.cooldowns = {r.cell : r \in resting}
      BY DEF Snapshot, SnapshotOf
    <2>2. (\E m \in Snapshot.motions : m.from = c) <=> \E t \in DOMAIN active : From(t) = c
      <3>1. \A t \in DOMAIN active : Sent(t).from = From(t)
        BY DEF From
      <3> QED BY <2>1, <3>1
    <2>3. c \in Snapshot.cooldowns <=> \E r \in resting : r.cell = c
      BY <2>1
    <2> QED BY <2>2, <2>3 DEF IsBusy
  <1>4. AllBusy
    BY DEF BusyInv
  <1>5. ASSUME NEW t \in DOMAIN active, From(t) = c
        PROVE  board.state[p] # "Idle"
    BY <1>4, <1>5, BusyFacts DEF AllBusy, TravellersAreBusy
  <1>6. ASSUME NEW r \in resting, r.cell = c
        PROVE  board.state[p] # "Idle"
    BY <1>4, <1>6 DEF AllBusy, RestsOutlived
  <1>7. ASSUME board.state[p] = "Moving"
        PROVE  \E t \in DOMAIN active : From(t) = c
    BY <1>4, <1>7 DEF AllBusy, MoversTravel
  <1>8. ASSUME board.state[p] = "Resting"
        PROVE  \E r \in resting : r.cell = c
    BY <1>4, <1>8 DEF AllBusy, RestersHaveRests
  <1> QED BY <1>2, <1>3, <1>5, <1>6, <1>7, <1>8 DEF Available

(***************************************************************************)
(* Up to the first landing on a piece under way, a window that shows the   *)
(* present state highlights what the engine would accept                   *)
(* (RemoteGame::legalDestinationsFor, GameEngine::legalDestinationsFor).   *)
(***************************************************************************)
THEOREM HighlightsAreMirrored == PlaySpec /\ UpToAGhost => []HighlightsMirrorTheEngine
  <1>1. ASSUME BusyInv
        PROVE  HighlightsMirrorTheEngine
    <2> SUFFICES ASSUME shown = Snapshot, NEW c \in Cells, MayCommand(shown, own, c),
                        board.state[board.at[c]] # "Airborne"
                 PROVE  HighlightsFor(shown, own, c) = LegalDestinationsFor(c)
      BY DEF HighlightsMirrorTheEngine
    <2>1. shown.board = board /\ shown.over = over
      BY DEF Snapshot, SnapshotOf
    <2>2. Occupied(board, c)
      BY <2>1 DEF MayCommand
    <2>3. IsBusy(shown, c) <=> ~Available(board.at[c])
      BY <1>1, <2>2, BusyIsMirrored
    <2> QED BY <2>1, <2>2, <2>3 DEF HighlightsFor, LegalDestinationsFor
  <1> QED BY <1>1, SessionPlaysTheGame, BusyInvHolds, PTL

=============================================================================
