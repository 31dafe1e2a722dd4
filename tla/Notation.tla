------------------------------ MODULE Notation ------------------------------
(***************************************************************************)
(* The words of the protocol and of the board files (shared/logic/io):     *)
(* how a number, a flag, a piece, a square and a command are written, and  *)
(* how they are read.                                                      *)
(*                                                                         *)
(* A std::optional is a set with at most one member, so that what is read  *)
(* from several parts is the set of the combinations of their readings.    *)
(* Squares and commands are spelt out, because a command is cut at a place *)
(* that depends on the lengths of its square names.                        *)
(***************************************************************************)
EXTENDS Integers, Sequences, TLC

Color == {"White", "Black"}
Kind == {"King", "Queen", "Rook", "Bishop", "Knight", "Pawn"}

CharAt(word, i) == SubSeq(word, i, i)

-----------------------------------------------------------------------------
(***************************************************************************)
(* Numbers.  std::stoi reads the longest numeral a word begins with and    *)
(* does not look at the rest.                                              *)
(***************************************************************************)
DigitValue ==
    "0" :> 0 @@ "1" :> 1 @@ "2" :> 2 @@ "3" :> 3 @@ "4" :> 4 @@
    "5" :> 5 @@ "6" :> 6 @@ "7" :> 7 @@ "8" :> 8 @@ "9" :> 9

IsNumeral(word) == \A i \in 1 .. Len(word) : CharAt(word, i) \in DOMAIN DigitValue

ValueOf(numeral) ==
    LET value[n \in 0 .. Len(numeral)] ==
            IF n = 0 THEN 0
            ELSE 10 * value[n - 1] + DigitValue[CharAt(numeral, n)]
    IN  value[Len(numeral)]

NaturalIn(word) ==
    {ValueOf(SubSeq(word, 1, n)) : n \in
        {m \in 1 .. Len(word) :
            /\ IsNumeral(SubSeq(word, 1, m))
            /\ m = Len(word) \/ ~IsNumeral(SubSeq(word, 1, m + 1))}}

IntegerIn(word) ==
    IF word # "" /\ CharAt(word, 1) = "-" THEN {-n : n \in NaturalIn(Tail(word))}
    ELSE NaturalIn(word)

EncodeFlag(flag) == IF flag THEN "1" ELSE "0"

DecodeFlag(word) == {flag \in BOOLEAN : EncodeFlag(flag) = word}

-----------------------------------------------------------------------------
(***************************************************************************)
(* Pieces: one table of letters, read in both directions.                  *)
(***************************************************************************)
KindLetter ==
    [King |-> "K", Queen |-> "Q", Rook |-> "R", Bishop |-> "B",
     Knight |-> "N", Pawn |-> "P"]

ColorLetter == [White |-> "w", Black |-> "b"]

EmptyToken == "."

EncodePieceToken(color, kind) == ColorLetter[color] \o KindLetter[kind]

PieceFromToken(word) ==
    {p \in [color : Color, kind : Kind] :
        /\ Len(word) = 2
        /\ ColorLetter[p.color] = CharAt(word, 1)
        /\ KindLetter[p.kind] = CharAt(word, 2)}

-----------------------------------------------------------------------------
(***************************************************************************)
(* Squares.  Row 0 is the highest rank.  Reading a name does not check the *)
(* column against the width of any board.                                  *)
(***************************************************************************)
FileLetters == "abcdefghijklmnopqrstuvwxyz"

FileLetter(cell) == CharAt(FileLetters, cell[2] + 1)

SquareName(cell, height) == FileLetter(cell) \o ToString(height - cell[1])

\* Mutant: ranks are counted from the top.
SquareFromNameTopDown(name, height) ==
    {<<ValueOf(Tail(name)) - 1, col - 1>> : col \in
        {n \in 1 .. Len(FileLetters) :
            /\ Len(name) >= 2
            /\ CharAt(FileLetters, n) = CharAt(name, 1)
            /\ IsNumeral(Tail(name))
            /\ ValueOf(Tail(name)) \in 1 .. height}}

\* A rank that no int holds, which std::stoi throws at and which nothing writes,
\* is unreadable here like any other rank that is too high.
SquareFromName(name, height) ==
    {<<height - ValueOf(Tail(name)), col - 1>> : col \in
        {n \in 1 .. Len(FileLetters) :
            /\ Len(name) >= 2
            /\ CharAt(FileLetters, n) = CharAt(name, 1)
            /\ IsNumeral(Tail(name))
            /\ ValueOf(Tail(name)) \in 1 .. height}}

-----------------------------------------------------------------------------
(***************************************************************************)
(* Commands: "WQe2e5".  The colour's letter is upper case when written and *)
(* of either case when read.                                               *)
(***************************************************************************)
UpperLetter == [White |-> "W", Black |-> "B"]

EncodeCommand(c, height) ==
    UpperLetter[c.player] \o KindLetter[c.kind]
        \o SquareName(c.from, height) \o SquareName(c.to, height)

FromWireToken(word) ==
    {p \in [color : Color, kind : Kind] :
        /\ CharAt(word, 1) \in {ColorLetter[p.color], UpperLetter[p.color]}
        /\ KindLetter[p.kind] = CharAt(word, 2)}

\* What follows the piece is cut down the middle.
DecodeCommand(word, height) ==
    LET half == (Len(word) - 2) \div 2
    IN  IF Len(word) <= 2 \/ Len(word) % 2 # 0 THEN {}
        ELSE {[player |-> p.color, kind |-> p.kind, from |-> f, to |-> t] :
                p \in FromWireToken(word),
                f \in SquareFromName(SubSeq(word, 3, 2 + half), height),
                t \in SquareFromName(SubSeq(word, 3 + half, Len(word)), height)}

\* The commands that can be cut in this way.
SameLength(c, height) ==
    Len(SquareName(c.from, height)) = Len(SquareName(c.to, height))

=============================================================================
