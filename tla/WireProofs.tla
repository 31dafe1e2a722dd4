----------------------------- MODULE WireProofs -----------------------------
(***************************************************************************)
(* What is written is read: messages of every kind, frames with any        *)
(* pieces, motions and rests, and printed boards of any size; and a        *)
(* damaged frame hides, but never invents.  How words are spelt is assumed *)
(* (Spelling); what is proved is all that is made of words.                *)
(***************************************************************************)
EXTENDS Wire, EntriesProofs

-----------------------------------------------------------------------------
(***************************************************************************)
(* Filtering what stands together, and what is full.                       *)
(***************************************************************************)
LEMMA BlockFacts ==
    ASSUME NEW a \in Nat, NEW m \in Nat, NEW vector
    PROVE  Filtered(vector, a + 1 .. a + m) = [i \in 1 .. m |-> vector[a + i]]
  <1> DEFINE keep == a + 1 .. a + m
  <1>1. Cardinality(keep) = m
    BY FS_Interval
  <1>2. ASSUME NEW i \in 1 .. m
        PROVE  Nth(keep, i) = a + i
    <2>1. \A j \in keep : Cardinality({k \in keep : k <= j}) = j - a
      <3> TAKE j \in keep
      <3>1. {k \in keep : k <= j} = a + 1 .. j
        OBVIOUS
      <3>2. a + 1 \in Int /\ j \in Int /\ a + 1 <= j /\ j - (a + 1) + 1 = j - a
        OBVIOUS
      <3>3. Cardinality(a + 1 .. j) = j - (a + 1) + 1
        BY <3>2, FS_Interval
      <3> QED BY <3>1, <3>2, <3>3
    <2>2. a + i \in keep /\ (a + i) - a = i
      OBVIOUS
    <2>3. \A j \in keep : Cardinality({k \in keep : k <= j}) = i <=> j = a + i
      BY <2>1
    <2> HIDE DEF keep
    <2> QED BY <2>2, <2>3 DEF Nth
  <1> HIDE DEF keep
  <1> QED BY <1>1, <1>2 DEF Filtered, keep

LEMMA FilteredAll ==
    ASSUME NEW S, NEW vector \in Seq(S), NEW keep, keep = DOMAIN vector
    PROVE  Filtered(vector, keep) = vector
  <1>1. Len(vector) \in Nat /\ keep = 0 + 1 .. 0 + Len(vector)
    OBVIOUS
  <1>2. Filtered(vector, keep) = [i \in 1 .. Len(vector) |-> vector[0 + i]]
    BY <1>1, BlockFacts
  <1> QED BY <1>2

LEMMA FilteredContains ==
    ASSUME NEW S, NEW vector \in Seq(S), NEW keep \in SUBSET DOMAIN vector
    PROVE  /\ Filtered(vector, keep) \in Seq(S)
           /\ \A j \in DOMAIN Filtered(vector, keep) :
                 \E i \in keep : Filtered(vector, keep)[j] = vector[i]
           /\ \A i \in keep :
                 \E j \in DOMAIN Filtered(vector, keep) : Filtered(vector, keep)[j] = vector[i]
  <1> DEFINE n == Len(vector)
  <1>1. n \in Nat /\ keep \in SUBSET (1 .. n) /\ \A k \in keep : vector[k] \in S
    OBVIOUS
  <1>2. \A i \in keep : \E j \in 1 .. Cardinality(keep) : Nth(keep, j) = i
    BY <1>1, NthFacts
  <1> HIDE DEF n
  <1>3. /\ Filtered(vector, keep) \in Seq(S)
        /\ DOMAIN Filtered(vector, keep) = 1 .. Cardinality(keep)
        /\ \A i \in DOMAIN Filtered(vector, keep) :
              /\ Nth(keep, i) \in keep
              /\ Filtered(vector, keep)[i] = vector[Nth(keep, i)]
    BY <1>1, FilteredFacts
  <1>4. ASSUME NEW i \in keep
        PROVE  \E j \in DOMAIN Filtered(vector, keep) : Filtered(vector, keep)[j] = vector[i]
    <2>1. PICK j \in 1 .. Cardinality(keep) : Nth(keep, j) = i
      BY <1>2
    <2> QED BY <1>3, <2>1
  <1> QED BY <1>3, <1>4

LEMMA TokensOfFull ==
    ASSUME NEW S, NEW line \in Seq(S), \A i \in DOMAIN line : line[i] # NoWord
    PROVE  Tokens(line) = line
  BY FilteredAll DEF Tokens

LEMMA TokensFacts ==
    ASSUME NEW S, NEW line \in Seq(S)
    PROVE  /\ Tokens(line) \in Seq(S)
           /\ \A i \in DOMAIN Tokens(line) : Tokens(line)[i] # NoWord
           /\ \A i \in DOMAIN line : line[i] # NoWord => Tokens(line) # << >>
  <1> DEFINE keep == {i \in DOMAIN line : line[i] # NoWord}
  <1>1. keep \in SUBSET DOMAIN line
    OBVIOUS
  <1>2. Tokens(line) = Filtered(line, keep)
    BY DEF Tokens
  <1>3. \A i \in keep : line[i] # NoWord
    OBVIOUS
  <1>4. \A i \in DOMAIN line : line[i] # NoWord => i \in keep
    OBVIOUS
  <1> HIDE DEF keep
  <1> QED BY <1>1, <1>2, <1>3, <1>4, FilteredContains

-----------------------------------------------------------------------------
(***************************************************************************)
(* Words.                                                                  *)
(***************************************************************************)
LEMMA LiteralsArePresent ==
    /\ "over" # NoWord /\ "size" # NoWord /\ "piece" # NoWord /\ "motion" # NoWord
    /\ "cooldown" # NoWord /\ "weather" # NoWord /\ "fine" # NoWord
    /\ \A flag \in BOOLEAN : EncodeFlag(flag) # NoWord
    /\ \A s \in State : StateLetter[s] # NoWord
    /\ EmptyToken # NoWord /\ "Board:" # NoWord /\ "Commands:" # NoWord
    /\ \A n \in Numbers : ToString(n) # NoWord
    /\ \A color \in Color, kind \in Kind : EncodePieceToken(color, kind) # NoWord
    /\ \A c \in Cells : SquareName(c, Height) # NoWord
  <1>1. /\ "over" # NoWord /\ "size" # NoWord /\ "piece" # NoWord /\ "motion" # NoWord
        /\ "cooldown" # NoWord /\ "weather" # NoWord /\ "fine" # NoWord
        /\ "Board:" # NoWord /\ "Commands:" # NoWord
    BY DEF NoWord
  <1>2. EmptyToken # NoWord
    BY DEF NoWord, EmptyToken
  <1>3. \A flag \in BOOLEAN : EncodeFlag(flag) # NoWord
    <2>1. "0" # NoWord /\ "1" # NoWord
      BY DEF NoWord
    <2> QED BY <2>1 DEF EncodeFlag
  <1>4. \A s \in State : StateLetter[s] # NoWord
    <2>1. "I" # NoWord /\ "M" # NoWord /\ "A" # NoWord /\ "R" # NoWord /\ "C" # NoWord
      BY DEF NoWord
    <2> QED BY <2>1 DEF State, StateLetter
  <1>5. /\ \A n \in Numbers : ToString(n) # NoWord
        /\ \A color \in Color, kind \in Kind : EncodePieceToken(color, kind) # NoWord
        /\ \A c \in Cells : SquareName(c, Height) # NoWord
    BY NumeralsAreRead, TokensAreSpelt, SquaresAreSpelt DEF IsPlain
  <1> QED BY <1>1, <1>2, <1>3, <1>4, <1>5

LEMMA FlagsAreRead ==
    ASSUME NEW flag \in BOOLEAN
    PROVE  DecodeFlag(EncodeFlag(flag)) = {flag}
  BY DEF DecodeFlag, EncodeFlag

LEMMA StatesAreRead ==
    ASSUME NEW s \in State
    PROVE  {x \in State : StateLetter[x] = StateLetter[s]} = {s}
  BY DEF State, StateLetter

LEMMA LettersDiffer ==
    /\ \A c, d \in Color : ColorLetter[c] = ColorLetter[d] => c = d
    /\ \A k, l \in Kind : KindLetter[k] = KindLetter[l] => k = l
    /\ \A c, d \in Color : UpperLetter[d] \in {ColorLetter[c], UpperLetter[c]} => c = d
    /\ \A c \in Color : UpperLetter[c] # ColorLetter[c]
  BY DEF Color, Kind, ColorLetter, KindLetter, UpperLetter

LEMMA TokensAreRead ==
    ASSUME NEW color \in Color, NEW kind \in Kind
    PROVE  PieceFromToken(EncodePieceToken(color, kind)) = {[color |-> color, kind |-> kind]}
  <1> DEFINE token == EncodePieceToken(color, kind)
  <1>1. /\ Len(token) = 2 /\ CharAt(token, 1) = ColorLetter[color]
        /\ CharAt(token, 2) = KindLetter[kind]
    BY TokensAreSpelt
  <1> HIDE DEF token
  <1>2. PieceFromToken(token) = {p \in [color : Color, kind : Kind] :
            ColorLetter[p.color] = ColorLetter[color] /\ KindLetter[p.kind] = KindLetter[kind]}
    BY <1>1 DEF PieceFromToken
  <1>3. \A p \in [color : Color, kind : Kind] :
            ColorLetter[p.color] = ColorLetter[color] /\ KindLetter[p.kind] = KindLetter[kind]
              <=> p = [color |-> color, kind |-> kind]
    BY LettersDiffer
  <1>4. [color |-> color, kind |-> kind] \in [color : Color, kind : Kind]
    OBVIOUS
  <1> QED BY <1>2, <1>3, <1>4 DEF token

\* The rank is counted from the other end, and back.
LEMMA SquaresAreRead ==
    ASSUME NEW cell \in Cells
    PROVE  SquareFromName(SquareName(cell, Height), Height) = {cell}
  <1> DEFINE name == SquareName(cell, Height)
             row  == cell[1]
             col  == cell[2]
  <1>1. /\ row \in 0 .. Height - 1 /\ col \in 0 .. Width - 1 /\ cell = <<row, col>>
        /\ Height \in Nat /\ Width \in 1 .. 26
    BY SizeType DEF Cells
  <1>2. Height - row \in 1 .. Height /\ Height - row \in Numbers
    BY <1>1, SizeType
  <1>3. /\ Len(name) >= 2
        /\ CharAt(name, 1) = CharAt(FileLetters, col + 1)
        /\ Tail(name) = ToString(Height - row)
    BY SquaresAreSpelt DEF FileLetter
  <1> HIDE DEF name, row, col
  <1>4. IsNumeral(Tail(name)) /\ ValueOf(Tail(name)) = Height - row
    <2> DEFINE rank == Height - row
    <2>1. rank \in Numbers /\ rank >= 0
      BY <1>2
    <2> HIDE DEF rank
    <2>2. IsNumeral(ToString(rank)) /\ ValueOf(ToString(rank)) = rank
      BY <2>1, NumeralsAreRead
    <2>3. Tail(name) = ToString(rank)
      BY <1>3 DEF rank
    <2>4. IsNumeral(Tail(name)) /\ ValueOf(Tail(name)) = rank
      BY <2>2, <2>3, Zenon
    <2> QED BY <2>4 DEF rank
  <1> DEFINE read == {n \in 1 .. Len(FileLetters) :
                        /\ Len(name) >= 2
                        /\ CharAt(FileLetters, n) = CharAt(name, 1)
                        /\ IsNumeral(Tail(name))
                        /\ ValueOf(Tail(name)) \in 1 .. Height}
  <1>5. SquareFromName(name, Height) =
            {<<Height - ValueOf(Tail(name)), n - 1>> : n \in read}
    BY DEF SquareFromName
  <1>6. col + 1 \in 1 .. 26
    BY <1>1
  <1>7. read = {col + 1}
    BY <1>2, <1>3, <1>4, <1>6, FilesAreSpelt
  <1> HIDE DEF read
  <1>8. Height - (Height - row) = row /\ (col + 1) - 1 = col
    BY <1>1
  <1>9. SquareFromName(name, Height) = {<<Height - (Height - row), (col + 1) - 1>>}
    BY <1>4, <1>5, <1>7
  <1> QED BY <1>1, <1>8, <1>9 DEF name

LEMMA ProgressIsWritten ==
    ASSUME NEW p \in Progress
    PROVE  (p + 5) \div 10 \in Numbers
  <1>1. p \in Int /\ 0 <= p /\ p <= 10000
    BY DEF Progress
  <1>2. (p + 5) \div 10 \in Int /\ 0 <= (p + 5) \div 10 /\ (p + 5) \div 10 <= 1000
    BY <1>1
  <1> QED BY <1>2, SizeType DEF WrittenProgress

LEMMA ProgressIsRead ==
    ASSUME NEW p \in Progress
    PROVE  DecodeProgress(EncodeProgress(p)) = {Rounded(p)} /\ EncodeProgress(p) # NoWord
  <1>1. IntegerIn(EncodeProgress(p)) = {(p + 5) \div 10} /\ EncodeProgress(p) # NoWord
    BY ProgressIsWritten, NumeralsAreRead, LiteralsArePresent DEF EncodeProgress
  <1> QED BY <1>1 DEF DecodeProgress, Rounded

-----------------------------------------------------------------------------
(***************************************************************************)
(* The lines of a frame: how they are named, and that each is read.        *)
(***************************************************************************)
OverLine(s) == <<"over", EncodeFlag(s.over)>>
SizeLine(s) == <<"size", ToString(s.board.width), ToString(s.board.height)>>

IsFrameLine(s, line) ==
    \/ line = OverLine(s)
    \/ line = SizeLine(s)
    \/ \E p \in s.board.pieces : line = EncodePiece(p, Height)
    \/ \E i \in DOMAIN s.motions : line = EncodeMotion(s.motions[i], Height)
    \/ \E i \in DOMAIN s.cooldowns : line = EncodeCooldown(s.cooldowns[i], Height)

\* How many words a line of this keyword has.
FieldCount(keyword) ==
    CASE keyword = "over" -> 2
      [] keyword = "size" -> 3
      [] keyword = "piece" -> 5
      [] keyword = "motion" -> 4
      [] keyword = "cooldown" -> 3

Keywords == {"over", "size", "piece", "motion", "cooldown"}

LEMMA SnapshotFacts ==
    ASSUME NEW s, IsSnapshot(s)
    PROVE  /\ s.over \in BOOLEAN
           /\ s.board.width = Width /\ s.board.height = Height
           /\ s.board.pieces \subseteq PieceValue
           /\ \A p, q \in s.board.pieces : p.cell = q.cell => p = q
           /\ s.motions \in Seq(MotionValue)
           /\ s.cooldowns \in Seq(CooldownValue)
           /\ \A i \in DOMAIN s.motions : s.motions[i] \in MotionValue
           /\ \A i \in DOMAIN s.cooldowns : s.cooldowns[i] \in CooldownValue
           /\ Height \in Nat \ {0} /\ Width \in Nat \ {0}
           /\ Height \in Numbers /\ Width \in Numbers
           /\ s = [over |-> s.over, board |-> s.board,
                   motions |-> s.motions, cooldowns |-> s.cooldowns]
           /\ s.board = [width |-> Width, height |-> Height, pieces |-> s.board.pieces]
  <1>1. s.motions \in Seq(MotionValue) /\ s.cooldowns \in Seq(CooldownValue)
    BY DEF IsSnapshot
  <1>4. ASSUME NEW S, NEW q \in Seq(S)
        PROVE  \A i \in DOMAIN q : q[i] \in S
    OBVIOUS
  <1>5. /\ Height \in Nat \ {0} /\ Width \in Nat \ {0}
        /\ Height \in Numbers /\ Width \in Numbers
    BY SizeType
  <1>6. /\ \A i \in DOMAIN s.motions : s.motions[i] \in MotionValue
        /\ \A i \in DOMAIN s.cooldowns : s.cooldowns[i] \in CooldownValue
    BY <1>1, <1>4
  <1>2. IsBoard(s.board) /\ s.over \in BOOLEAN
        /\ s = [over |-> s.over, board |-> s.board,
                motions |-> s.motions, cooldowns |-> s.cooldowns]
    BY DEF IsSnapshot
  <1> DEFINE b == s.board
  <1>3. /\ b.width = Width /\ b.height = Height
        /\ b.pieces \subseteq PieceValue
        /\ \A p, q \in b.pieces : p.cell = q.cell => p = q
        /\ b = [width |-> Width, height |-> Height, pieces |-> b.pieces]
    BY <1>2 DEF IsBoard
  <1> QED BY <1>1, <1>2, <1>3, <1>5, <1>6

\* A line of words none of which is empty.
IsFull(line) == line \in Seq(Word) /\ \A i \in DOMAIN line : line[i] # NoWord

LEMMA FullOfTwo ==
    ASSUME NEW a \in Word, NEW b \in Word, a # NoWord, b # NoWord
    PROVE  IsFull(<<a, b>>) /\ Len(<<a, b>>) = 2 /\ Head(<<a, b>>) = a
  BY DEF IsFull

LEMMA FullOfThree ==
    ASSUME NEW a \in Word, NEW b \in Word, NEW c \in Word,
           a # NoWord, b # NoWord, c # NoWord
    PROVE  IsFull(<<a, b, c>>) /\ Len(<<a, b, c>>) = 3 /\ Head(<<a, b, c>>) = a
  BY DEF IsFull

LEMMA FullOfFour ==
    ASSUME NEW a \in Word, NEW b \in Word, NEW c \in Word, NEW d \in Word,
           a # NoWord, b # NoWord, c # NoWord, d # NoWord
    PROVE  IsFull(<<a, b, c, d>>) /\ Len(<<a, b, c, d>>) = 4 /\ Head(<<a, b, c, d>>) = a
  BY DEF IsFull

LEMMA FullOfFive ==
    ASSUME NEW a \in Word, NEW b \in Word, NEW c \in Word, NEW d \in Word, NEW e \in Word,
           a # NoWord, b # NoWord, c # NoWord, d # NoWord, e # NoWord
    PROVE  /\ IsFull(<<a, b, c, d, e>>) /\ Len(<<a, b, c, d, e>>) = 5
           /\ Head(<<a, b, c, d, e>>) = a
  BY DEF IsFull

LEMMA WordsAreWords ==
    /\ \A flag \in BOOLEAN : EncodeFlag(flag) \in Word
    /\ \A s \in State : StateLetter[s] \in Word
    /\ \A n \in Numbers : ToString(n) \in Word
    /\ \A color \in Color, kind \in Kind : EncodePieceToken(color, kind) \in Word
    /\ \A c \in Cells : SquareName(c, Height) \in Word
    /\ \A p \in Progress : EncodeProgress(p) \in Word
    /\ {"over", "size", "piece", "motion", "cooldown", "weather", "fine"} \subseteq Word
  <1>1. \A flag \in BOOLEAN : EncodeFlag(flag) \in Word
    BY LiteralsAreWords DEF EncodeFlag
  <1>2. \A s \in State : StateLetter[s] \in Word
    BY LiteralsAreWords DEF State, StateLetter
  <1>3. /\ \A n \in Numbers : ToString(n) \in Word
        /\ \A color \in Color, kind \in Kind : EncodePieceToken(color, kind) \in Word
        /\ \A c \in Cells : SquareName(c, Height) \in Word
    BY NumeralsAreRead, TokensAreSpelt, SquaresAreSpelt DEF IsPlain
  <1>4. \A p \in Progress : EncodeProgress(p) \in Word
    <2> TAKE p \in Progress
    <2>1. (p + 5) \div 10 \in Numbers
      BY ProgressIsWritten
    <2> QED BY <1>3, <2>1 DEF EncodeProgress
  <1>5. {"over", "size", "piece", "motion", "cooldown", "weather", "fine"} \subseteq Word
    BY LiteralsAreWords
  <1> QED BY <1>1, <1>2, <1>3, <1>4, <1>5

LEMMA OverIsRead ==
    ASSUME NEW s, IsSnapshot(s)
    PROVE  /\ IsFull(OverLine(s)) /\ Len(OverLine(s)) = 2 /\ Head(OverLine(s)) = "over"
           /\ DecodeOver(OverLine(s)) = {s.over}
  <1>1. IsFull(OverLine(s)) /\ Len(OverLine(s)) = 2 /\ Head(OverLine(s)) = "over"
    <2>1. /\ EncodeFlag(s.over) \in Word /\ EncodeFlag(s.over) # NoWord
          /\ "over" \in Word /\ "over" # NoWord
      BY WordsAreWords, LiteralsArePresent, SnapshotFacts
    <2> QED BY <2>1, FullOfTwo, Zenon DEF OverLine
  <1>2. OverLine(s)[2] = EncodeFlag(s.over)
    BY DEF OverLine
  <1> QED BY <1>1, <1>2, FlagsAreRead, SnapshotFacts DEF DecodeOver

LEMMA SizeIsRead ==
    ASSUME NEW s, IsSnapshot(s)
    PROVE  /\ IsFull(SizeLine(s)) /\ Len(SizeLine(s)) = 3 /\ Head(SizeLine(s)) = "size"
           /\ DecodeSize(SizeLine(s)) = {[width |-> Width, height |-> Height]}
  <1> DEFINE line == SizeLine(s)
  <1>1. IsFull(line) /\ Len(line) = 3 /\ Head(line) = "size"
    <2>1. /\ ToString(Width) \in Word /\ ToString(Width) # NoWord
          /\ ToString(Height) \in Word /\ ToString(Height) # NoWord
          /\ "size" \in Word /\ "size" # NoWord
      BY WordsAreWords, LiteralsArePresent, SnapshotFacts
    <2>2. line = <<"size", ToString(Width), ToString(Height)>>
      BY SnapshotFacts DEF SizeLine
    <2> HIDE DEF line
    <2> QED BY <2>1, <2>2, FullOfThree, Zenon
  <1>2. line[2] = ToString(Width) /\ line[3] = ToString(Height)
    BY SnapshotFacts DEF SizeLine
  <1>3. IntegerIn(line[2]) = {Width} /\ IntegerIn(line[3]) = {Height}
    BY <1>2, NumeralsAreRead, SnapshotFacts
  <1>4. /\ IntegerIn(line[2]) \cap (Nat \ {0}) = {Width}
        /\ IntegerIn(line[3]) \cap (Nat \ {0}) = {Height}
    BY <1>3, SnapshotFacts
  <1> HIDE DEF line
  <1> QED BY <1>1, <1>4 DEF DecodeSize, line

LEMMA PieceIsRead ==
    ASSUME NEW p \in PieceValue
    PROVE  LET line == EncodePiece(p, Height)
           IN  /\ IsFull(line) /\ Len(line) = 5 /\ Head(line) = "piece"
               /\ DecodePiece(line, Height) = {p}
  <1> DEFINE line == EncodePiece(p, Height)
  <1>1. /\ p.id \in Numbers /\ p.id \in Nat /\ p.color \in Color /\ p.kind \in Kind
        /\ p.cell \in Cells /\ p.state \in State
        /\ p = [id |-> p.id, color |-> p.color, kind |-> p.kind,
                cell |-> p.cell, state |-> p.state]
    BY DEF PieceValue
  <1>2. IsFull(line) /\ Len(line) = 5 /\ Head(line) = "piece"
    BY <1>1, FullOfFive, WordsAreWords, LiteralsArePresent DEF EncodePiece
  <1>3. /\ line[2] = ToString(p.id) /\ line[3] = EncodePieceToken(p.color, p.kind)
        /\ line[4] = SquareName(p.cell, Height) /\ line[5] = StateLetter[p.state]
    BY DEF EncodePiece
  <1> HIDE DEF line
  <1>4. NaturalIn(line[2]) = {p.id}
    <2> DEFINE n == p.id
    <2>1. n \in Numbers /\ n >= 0
      BY <1>1
    <2> HIDE DEF n
    <2>2. NaturalIn(ToString(n)) = {n}
      BY <2>1, NumeralsAreRead
    <2> QED BY <1>3, <2>2 DEF n
  <1>5. /\ PieceFromToken(line[3]) = {[color |-> p.color, kind |-> p.kind]}
        /\ SquareFromName(line[4], Height) = {p.cell}
        /\ {x \in State : StateLetter[x] = line[5]} = {p.state}
    BY <1>1, <1>3, TokensAreRead, SquaresAreRead, StatesAreRead
  <1>6. DecodePiece(line, Height) =
            {[id |-> n, color |-> q.color, kind |-> q.kind, cell |-> c, state |-> st] :
                n \in {p.id}, q \in {[color |-> p.color, kind |-> p.kind]},
                c \in {p.cell}, st \in {p.state}}
    BY <1>2, <1>4, <1>5 DEF DecodePiece
  <1> QED BY <1>1, <1>2, <1>6 DEF line

LEMMA MotionIsRead ==
    ASSUME NEW m \in MotionValue
    PROVE  LET line == EncodeMotion(m, Height)
           IN  /\ IsFull(line) /\ Len(line) = 4 /\ Head(line) = "motion"
               /\ DecodeMotion(line, Height) = {RoundedEntry(m)}
  <1> DEFINE line == EncodeMotion(m, Height)
  <1>1. m.from \in Cells /\ m.to \in Cells /\ m.progress \in Progress
    BY DEF MotionValue
  <1>2. RoundedEntry(m) = [from |-> m.from, to |-> m.to, progress |-> Rounded(m.progress)]
    BY DEF MotionValue, RoundedEntry
  <1>3. IsFull(line) /\ Len(line) = 4 /\ Head(line) = "motion"
    BY <1>1, FullOfFour, WordsAreWords, LiteralsArePresent, ProgressIsRead DEF EncodeMotion
  <1>4. /\ line[2] = SquareName(m.from, Height) /\ line[3] = SquareName(m.to, Height)
        /\ line[4] = EncodeProgress(m.progress)
    BY DEF EncodeMotion
  <1> HIDE DEF line
  <1>5. /\ SquareFromName(line[2], Height) = {m.from}
        /\ SquareFromName(line[3], Height) = {m.to}
        /\ DecodeProgress(line[4]) = {Rounded(m.progress)}
    BY <1>1, <1>4, SquaresAreRead, ProgressIsRead
  <1>6. DecodeMotion(line, Height) =
            {[from |-> f, to |-> t, progress |-> n] :
                f \in {m.from}, t \in {m.to}, n \in {Rounded(m.progress)}}
    BY <1>3, <1>5 DEF DecodeMotion
  <1> QED BY <1>2, <1>3, <1>6 DEF line

LEMMA CooldownIsRead ==
    ASSUME NEW r \in CooldownValue
    PROVE  LET line == EncodeCooldown(r, Height)
           IN  /\ IsFull(line) /\ Len(line) = 3 /\ Head(line) = "cooldown"
               /\ DecodeCooldown(line, Height) = {RoundedEntry(r)}
  <1> DEFINE line == EncodeCooldown(r, Height)
  <1>1. r.cell \in Cells /\ r.progress \in Progress
    BY DEF CooldownValue
  <1>2. RoundedEntry(r) = [cell |-> r.cell, progress |-> Rounded(r.progress)]
    BY DEF CooldownValue, RoundedEntry
  <1>3. IsFull(line) /\ Len(line) = 3 /\ Head(line) = "cooldown"
    BY <1>1, FullOfThree, WordsAreWords, LiteralsArePresent, ProgressIsRead DEF EncodeCooldown
  <1>4. line[2] = SquareName(r.cell, Height) /\ line[3] = EncodeProgress(r.progress)
    BY DEF EncodeCooldown
  <1> HIDE DEF line
  <1>5. /\ SquareFromName(line[2], Height) = {r.cell}
        /\ DecodeProgress(line[3]) = {Rounded(r.progress)}
    BY <1>1, <1>4, SquaresAreRead, ProgressIsRead
  <1>6. DecodeCooldown(line, Height) =
            {[cell |-> c, progress |-> n] : c \in {r.cell}, n \in {Rounded(r.progress)}}
    BY <1>3, <1>5 DEF DecodeCooldown
  <1> QED BY <1>2, <1>3, <1>6 DEF line

-----------------------------------------------------------------------------
(***************************************************************************)
(* What is made of many lines.                                             *)
(***************************************************************************)
LEMMA EveryLineEmpty ==
    ASSUME NEW decoded, NEW i \in DOMAIN decoded, decoded[i] = {}
    PROVE  EveryLine(decoded) = {}
  BY DEF EveryLine

LEMMA EveryLineRead ==
    ASSUME NEW decoded, NEW values, DOMAIN values = DOMAIN decoded,
           values = [i \in DOMAIN values |-> values[i]],
           \A i \in DOMAIN decoded : decoded[i] = {values[i]}
    PROVE  EveryLine(decoded) = {values}
  <1>1. ~ \E i \in DOMAIN decoded : decoded[i] = {}
    OBVIOUS
  <1>2. \A i \in DOMAIN decoded : (CHOOSE v \in decoded[i] : TRUE) = values[i]
    OBVIOUS
  <1>3. [i \in DOMAIN decoded |-> CHOOSE v \in decoded[i] : TRUE] = values
    BY <1>2
  <1> QED BY <1>1, <1>3 DEF EveryLine

LEMMA EveryLineMember ==
    ASSUME NEW decoded, NEW values \in EveryLine(decoded)
    PROVE  DOMAIN values = DOMAIN decoded /\ \A i \in DOMAIN values : values[i] \in decoded[i]
  <1>1. /\ values = [i \in DOMAIN decoded |-> CHOOSE v \in decoded[i] : TRUE]
        /\ \A i \in DOMAIN decoded : decoded[i] # {}
    BY DEF EveryLine
  <1> QED BY <1>1

IsNamed(line, keyword) == line # << >> /\ Head(line) = keyword

LEMMA LinesOfFacts ==
    ASSUME NEW S, NEW tokens \in Seq(S), NEW keyword
    PROVE  LET lines == LinesOf(tokens, keyword)
           IN  /\ lines \in Seq(S)
               /\ \A j \in DOMAIN lines :
                     /\ IsNamed(lines[j], keyword)
                     /\ \E i \in DOMAIN tokens : lines[j] = tokens[i]
               /\ \A i \in DOMAIN tokens : IsNamed(tokens[i], keyword) =>
                     \E j \in DOMAIN lines : lines[j] = tokens[i]
  <1> DEFINE keep == {i \in DOMAIN tokens : tokens[i] # << >> /\ Head(tokens[i]) = keyword}
  <1>1. keep \in SUBSET DOMAIN tokens
    OBVIOUS
  <1>2. \A i \in DOMAIN tokens : i \in keep <=> IsNamed(tokens[i], keyword)
    BY DEF IsNamed
  <1>3. LinesOf(tokens, keyword) = Filtered(tokens, keep)
    BY DEF LinesOf
  <1> HIDE DEF keep
  <1> QED BY <1>1, <1>2, <1>3, FilteredContains

LEMMA LinesAreFound ==
    ASSUME NEW S, NEW tokens \in Seq(S), NEW keyword, NEW i \in DOMAIN tokens,
           IsNamed(tokens[i], keyword)
    PROVE  \E j \in DOMAIN LinesOf(tokens, keyword) : LinesOf(tokens, keyword)[j] = tokens[i]
  <1> DEFINE lines == LinesOf(tokens, keyword)
  <1>1. \A k \in DOMAIN tokens : IsNamed(tokens[k], keyword) =>
            \E j \in DOMAIN lines : lines[j] = tokens[k]
    BY LinesOfFacts
  <1> QED BY <1>1

\* The lines of a keyword that stand together, and nowhere else.
LEMMA LinesOfBlock ==
    ASSUME NEW tokens, NEW keyword, NEW a \in Nat, NEW m \in Nat, NEW block,
           a + 1 .. a + m \subseteq DOMAIN tokens,
           \A i \in DOMAIN tokens : IsNamed(tokens[i], keyword) <=> i \in a + 1 .. a + m,
           block = [i \in 1 .. m |-> tokens[a + i]]
    PROVE  LinesOf(tokens, keyword) = block
  <1>1. {i \in DOMAIN tokens : tokens[i] # << >> /\ Head(tokens[i]) = keyword} = a + 1 .. a + m
    BY DEF IsNamed
  <1>2. LinesOf(tokens, keyword) = Filtered(tokens, a + 1 .. a + m)
    BY <1>1 DEF LinesOf
  <1> QED BY <1>2, BlockFacts

\* A frame whose lines have no empty word is read as it stands.
LEMMA FullTokens ==
    ASSUME NEW frame \in Seq(Seq(Word)), \A i \in DOMAIN frame : IsFull(frame[i])
    PROVE  [i \in DOMAIN frame |-> Tokens(frame[i])] = frame
  <1>1. \A i \in DOMAIN frame : Tokens(frame[i]) = frame[i]
    BY TokensOfFull DEF IsFull
  <1>2. DOMAIN frame = 1 .. Len(frame) /\ frame = [i \in 1 .. Len(frame) |-> frame[i]]
    OBVIOUS
  <1> QED BY <1>1, <1>2

LEMMA KeywordsDiffer ==
    /\ "over" # "size" /\ "over" # "piece" /\ "over" # "motion" /\ "over" # "cooldown"
    /\ "size" # "piece" /\ "size" # "motion" /\ "size" # "cooldown"
    /\ "piece" # "motion" /\ "piece" # "cooldown" /\ "motion" # "cooldown"
    /\ FieldCount("over") = 2 /\ FieldCount("size") = 3 /\ FieldCount("piece") = 5
    /\ FieldCount("motion") = 4 /\ FieldCount("cooldown") = 3
  BY DEF FieldCount

LEMMA LongFacts ==
    ASSUME NEW S, NEW line \in Seq(S), Len(line) >= 2
    PROVE  line # << >>
  OBVIOUS

\* A line of a frame says by its keyword which line it is.
LEMMA FrameLineFacts ==
    ASSUME NEW s, IsSnapshot(s), NEW line, IsFrameLine(s, line)
    PROVE  /\ IsFull(line) /\ line # << >> /\ Len(line) >= 2
           /\ Head(line) \in Keywords /\ Len(line) = FieldCount(Head(line))
           /\ Head(line) = "over" => line = OverLine(s)
           /\ Head(line) = "size" => line = SizeLine(s)
           /\ Head(line) = "piece" =>
                \E p \in s.board.pieces : line = EncodePiece(p, Height)
           /\ Head(line) = "motion" =>
                \E i \in DOMAIN s.motions : line = EncodeMotion(s.motions[i], Height)
           /\ Head(line) = "cooldown" =>
                \E i \in DOMAIN s.cooldowns : line = EncodeCooldown(s.cooldowns[i], Height)
  <1>1. CASE line = OverLine(s)
    <2>1. IsFull(line) /\ Len(line) = 2 /\ Head(line) = "over"
      BY <1>1, OverIsRead
    <2> QED BY <1>1, <2>1, KeywordsDiffer DEF Keywords, IsFull
  <1>2. CASE line = SizeLine(s)
    <2>1. IsFull(line) /\ Len(line) = 3 /\ Head(line) = "size"
      BY <1>2, SizeIsRead
    <2> QED BY <1>2, <2>1, KeywordsDiffer DEF Keywords, IsFull
  <1>3. CASE \E p \in s.board.pieces : line = EncodePiece(p, Height)
    <2>1. IsFull(line) /\ Len(line) = 5 /\ Head(line) = "piece"
      BY <1>3, PieceIsRead, SnapshotFacts
    <2>2. Head(line) # "over" /\ Head(line) # "size" /\ Head(line) # "motion" /\ Head(line) # "cooldown"
      BY <2>1, KeywordsDiffer
    <2>3. line # << >> /\ Len(line) >= 2
      <3>1. line \in Seq(Word)
        BY <2>1 DEF IsFull
      <3>2. Len(line) >= 2
        BY <2>1
      <3> QED BY <3>1, <3>2, LongFacts
    <2>4. Head(line) \in Keywords
      BY <2>1 DEF Keywords
    <2>5. Len(line) = FieldCount(Head(line))
      BY <2>1, KeywordsDiffer
    <2> QED BY <1>3, <2>1, <2>2, <2>3, <2>4, <2>5, Zenon
  <1>4. CASE \E i \in DOMAIN s.motions : line = EncodeMotion(s.motions[i], Height)
    <2>1. IsFull(line) /\ Len(line) = 4 /\ Head(line) = "motion"
      <3>1. PICK i \in DOMAIN s.motions : line = EncodeMotion(s.motions[i], Height)
        BY <1>4
      <3>2. s.motions[i] \in MotionValue
        BY SnapshotFacts
      <3> QED BY <3>1, <3>2, MotionIsRead
    <2>2. Head(line) # "over" /\ Head(line) # "size" /\ Head(line) # "piece" /\ Head(line) # "cooldown"
      BY <2>1, KeywordsDiffer
    <2>3. line # << >> /\ Len(line) >= 2
      <3>1. line \in Seq(Word)
        BY <2>1 DEF IsFull
      <3>2. Len(line) >= 2
        BY <2>1
      <3> QED BY <3>1, <3>2, LongFacts
    <2>4. Head(line) \in Keywords
      BY <2>1 DEF Keywords
    <2>5. Len(line) = FieldCount(Head(line))
      BY <2>1, KeywordsDiffer
    <2> QED BY <1>4, <2>1, <2>2, <2>3, <2>4, <2>5, Zenon
  <1>5. CASE \E i \in DOMAIN s.cooldowns : line = EncodeCooldown(s.cooldowns[i], Height)
    <2>1. IsFull(line) /\ Len(line) = 3 /\ Head(line) = "cooldown"
      <3>1. PICK i \in DOMAIN s.cooldowns : line = EncodeCooldown(s.cooldowns[i], Height)
        BY <1>5
      <3>2. s.cooldowns[i] \in CooldownValue
        BY SnapshotFacts
      <3> QED BY <3>1, <3>2, CooldownIsRead
    <2>2. Head(line) # "over" /\ Head(line) # "size" /\ Head(line) # "piece" /\ Head(line) # "motion"
      BY <2>1, KeywordsDiffer
    <2>3. line # << >> /\ Len(line) >= 2
      <3>1. line \in Seq(Word)
        BY <2>1 DEF IsFull
      <3>2. Len(line) >= 2
        BY <2>1
      <3> QED BY <3>1, <3>2, LongFacts
    <2>4. Head(line) \in Keywords
      BY <2>1 DEF Keywords
    <2>5. Len(line) = FieldCount(Head(line))
      BY <2>1, KeywordsDiffer
    <2> QED BY <1>5, <2>1, <2>2, <2>3, <2>4, <2>5, Zenon
  <1> QED BY <1>1, <1>2, <1>3, <1>4, <1>5 DEF IsFrameLine

IsFullFrame(frame) == frame \in Seq(Seq(Word)) /\ \A i \in DOMAIN frame : IsFull(frame[i])

LEMMA FrameIsDecoded ==
    ASSUME NEW frame, IsFullFrame(frame), NEW v \in DecodeState(frame)
    PROVE  \E over \in DecodeOvers(frame), size \in DecodeSizes(frame) :
             \E pieces \in DecodePieces(frame, size),
                motions \in DecodeMotions(frame, size.height),
                cooldowns \in DecodeCooldowns(frame, size.height) :
               v = [over |-> over,
                    board |-> [width |-> size.width, height |-> size.height,
                               pieces |-> ToSet(pieces)],
                    motions |-> motions, cooldowns |-> cooldowns]
  <1>1. [i \in DOMAIN frame |-> Tokens(frame[i])] = frame
    BY FullTokens DEF IsFullFrame
  <1>2. v \in DecodeTokens(frame)
    BY <1>1 DEF DecodeState
  <1> QED BY <1>2 DEF DecodeTokens

\* One known line that lacks a word or has one too many spoils a frame.
LEMMA BadLineSpoils ==
    ASSUME NEW frame, IsFullFrame(frame), NEW i \in DOMAIN frame,
           NEW keyword \in Keywords,
           IsNamed(frame[i], keyword), Len(frame[i]) # FieldCount(keyword)
    PROVE  DecodeState(frame) = {}
  <1> SUFFICES ASSUME NEW v \in DecodeState(frame) PROVE FALSE
    OBVIOUS
  <1>1. PICK over \in DecodeOvers(frame), size \in DecodeSizes(frame) :
             \E pieces \in DecodePieces(frame, size),
                motions \in DecodeMotions(frame, size.height),
                cooldowns \in DecodeCooldowns(frame, size.height) : TRUE
    BY FrameIsDecoded
  <1>2. /\ DecodePieces(frame, size) # {} /\ DecodeMotions(frame, size.height) # {}
        /\ DecodeCooldowns(frame, size.height) # {}
    BY <1>1
  <1> DEFINE lines == LinesOf(frame, keyword)
  <1>3. PICK j \in DOMAIN lines : lines[j] = frame[i]
    <2>1. frame \in Seq(Seq(Word))
      BY DEF IsFullFrame
    <2> QED BY <2>1, LinesAreFound
  <1> HIDE DEF lines
  <1>4. ASSUME NEW decoded, DOMAIN decoded = DOMAIN lines, decoded[j] = {}
        PROVE  EveryLine(decoded) = {}
    BY <1>4, EveryLineEmpty
  <1>5. CASE keyword = "over"
    <2> DEFINE decoded == [k \in DOMAIN lines |-> DecodeOver(lines[k])]
    <2>1. DecodeOver(lines[j]) = {}
      <3>1. Len(lines[j]) # 2
        BY <1>3, <1>5, KeywordsDiffer, Zenon
      <3> QED BY <3>1 DEF DecodeOver
    <2>2. EveryLine(decoded) = {}
      <3>1. DOMAIN decoded = DOMAIN lines /\ decoded[j] = {}
        BY <1>3, <2>1
      <3> HIDE DEF decoded
      <3> QED BY <1>4, <3>1
    <2>3. DecodeOvers(frame) = LastOf(EveryLine(decoded))
      BY <1>5 DEF DecodeOvers, OverIn, lines
    <2> QED BY <1>1, <2>2, <2>3 DEF LastOf
  <1>6. CASE keyword = "size"
    <2> DEFINE decoded == [k \in DOMAIN lines |-> DecodeSize(lines[k])]
    <2>1. DecodeSize(lines[j]) = {}
      <3>1. Len(lines[j]) # 3
        BY <1>3, <1>6, KeywordsDiffer, Zenon
      <3> QED BY <3>1 DEF DecodeSize
    <2>2. EveryLine(decoded) = {}
      <3>1. DOMAIN decoded = DOMAIN lines /\ decoded[j] = {}
        BY <1>3, <2>1
      <3> HIDE DEF decoded
      <3> QED BY <1>4, <3>1
    <2>3. DecodeSizes(frame) = LastOf(EveryLine(decoded))
      BY <1>6 DEF DecodeSizes, lines
    <2> QED BY <1>1, <2>2, <2>3 DEF LastOf
  <1>7. CASE keyword = "piece"
    <2> DEFINE decoded == [k \in DOMAIN lines |-> DecodePiece(lines[k], size.height)]
    <2>1. DecodePiece(lines[j], size.height) = {}
      <3>1. Len(lines[j]) # 5
        BY <1>3, <1>7, KeywordsDiffer, Zenon
      <3> QED BY <3>1 DEF DecodePiece
    <2>2. EveryLine(decoded) = {}
      <3>1. DOMAIN decoded = DOMAIN lines /\ decoded[j] = {}
        BY <1>3, <2>1
      <3> HIDE DEF decoded
      <3> QED BY <1>4, <3>1
    <2>3. DecodePieces(frame, size) = {x \in EveryLine(decoded) : CanStand(x, size.width)}
      BY <1>7 DEF DecodePieces, lines
    <2> QED BY <1>2, <2>2, <2>3
  <1>8. CASE keyword = "motion"
    <2> DEFINE decoded == [k \in DOMAIN lines |-> DecodeMotion(lines[k], size.height)]
    <2>1. DecodeMotion(lines[j], size.height) = {}
      <3>1. Len(lines[j]) # 4
        BY <1>3, <1>8, KeywordsDiffer, Zenon
      <3> QED BY <3>1 DEF DecodeMotion
    <2>2. EveryLine(decoded) = {}
      <3>1. DOMAIN decoded = DOMAIN lines /\ decoded[j] = {}
        BY <1>3, <2>1
      <3> HIDE DEF decoded
      <3> QED BY <1>4, <3>1
    <2>3. DecodeMotions(frame, size.height) = EveryLine(decoded)
      BY <1>8 DEF DecodeMotions, lines
    <2> QED BY <1>2, <2>2, <2>3
  <1>9. CASE keyword = "cooldown"
    <2> DEFINE decoded == [k \in DOMAIN lines |-> DecodeCooldown(lines[k], size.height)]
    <2>1. DecodeCooldown(lines[j], size.height) = {}
      <3>1. Len(lines[j]) # 3
        BY <1>3, <1>9, KeywordsDiffer, Zenon
      <3> QED BY <3>1 DEF DecodeCooldown
    <2>2. EveryLine(decoded) = {}
      <3>1. DOMAIN decoded = DOMAIN lines /\ decoded[j] = {}
        BY <1>3, <2>1
      <3> HIDE DEF decoded
      <3> QED BY <1>4, <3>1
    <2>3. DecodeCooldowns(frame, size.height) = EveryLine(decoded)
      BY <1>9 DEF DecodeCooldowns, lines
    <2> QED BY <1>2, <2>2, <2>3
  <1> QED BY <1>5, <1>6, <1>7, <1>8, <1>9 DEF Keywords

-----------------------------------------------------------------------------
(***************************************************************************)
(* A frame whose known lines were all written for s shows s, or less.      *)
(***************************************************************************)
LEMMA LastOfSame ==
    ASSUME NEW decoded, NEW n \in Nat, DOMAIN decoded = 1 .. n, NEW x,
           \A i \in DOMAIN decoded : decoded[i] \subseteq {x},
           NEW y \in LastOf(EveryLine(decoded))
    PROVE  y = x
  <1>1. PICK values \in EveryLine(decoded) : values # << >> /\ y = Last(values)
    BY DEF LastOf
  <1>2. values = [i \in 1 .. n |-> CHOOSE v \in decoded[i] : TRUE]
        /\ \A i \in 1 .. n : decoded[i] # {}
    BY DEF EveryLine
  <1>3. \A i \in 1 .. n : values[i] = x
    BY <1>2
  <1>4. Len(values) = n /\ n \in 1 .. n
    BY <1>1, <1>2
  <1> QED BY <1>1, <1>3, <1>4 DEF Last

OnlyFrameLines(s, frame) ==
    \A i \in DOMAIN frame :
        frame[i] # << >> /\ Head(frame[i]) \in Keywords => IsFrameLine(s, frame[i])

LEMMA NamedLines ==
    ASSUME NEW s, NEW frame, IsFullFrame(frame), OnlyFrameLines(s, frame),
           NEW keyword \in Keywords
    PROVE  LET lines == LinesOf(frame, keyword)
           IN  /\ lines \in Seq(Seq(Word))
               /\ \A j \in DOMAIN lines :
                     IsFrameLine(s, lines[j]) /\ Head(lines[j]) = keyword
  <1> DEFINE lines == LinesOf(frame, keyword)
  <1>1. frame \in Seq(Seq(Word))
    BY DEF IsFullFrame
  <1>2. /\ lines \in Seq(Seq(Word))
        /\ \A j \in DOMAIN lines :
              /\ IsNamed(lines[j], keyword)
              /\ \E i \in DOMAIN frame : lines[j] = frame[i]
    BY <1>1, LinesOfFacts
  <1> HIDE DEF lines
  <1>3. ASSUME NEW j \in DOMAIN lines
        PROVE  IsFrameLine(s, lines[j]) /\ Head(lines[j]) = keyword
    <2>1. PICK i \in DOMAIN frame : lines[j] = frame[i]
      BY <1>2
    <2>2. frame[i] # << >> /\ Head(frame[i]) = keyword
      BY <1>2, <2>1 DEF IsNamed
    <2> QED BY <2>1, <2>2 DEF OnlyFrameLines
  <1> QED BY <1>2, <1>3 DEF lines

LEMMA LengthIsDomain ==
    ASSUME NEW S, NEW q \in Seq(S)
    PROVE  Len(q) \in Nat /\ DOMAIN q = 1 .. Len(q)
  OBVIOUS

LEMMA OneOver ==
    ASSUME NEW s, IsSnapshot(s), NEW frame, IsFullFrame(frame), OnlyFrameLines(s, frame),
           NEW over \in DecodeOvers(frame)
    PROVE  over = s.over
  <1> DEFINE lines == LinesOf(frame, "over")
             decoded == [i \in DOMAIN lines |-> DecodeOver(lines[i])]
  <1>1. /\ lines \in Seq(Seq(Word))
        /\ \A j \in DOMAIN lines : IsFrameLine(s, lines[j]) /\ Head(lines[j]) = "over"
    BY NamedLines DEF Keywords
  <1>2. over \in LastOf(EveryLine(decoded))
    BY DEF DecodeOvers, OverIn
  <1> HIDE DEF lines
  <1>3. ASSUME NEW j \in DOMAIN lines PROVE DecodeOver(lines[j]) = {s.over}
    <2>1. lines[j] = OverLine(s)
      BY <1>1, FrameLineFacts
    <2> QED BY <2>1, OverIsRead
  <1>4. Len(lines) \in Nat /\ DOMAIN lines = 1 .. Len(lines)
    BY <1>1, LengthIsDomain
  <1>5. DOMAIN decoded = 1 .. Len(lines) /\ \A i \in DOMAIN decoded : decoded[i] \subseteq {s.over}
    BY <1>3, <1>4
  <1> HIDE DEF decoded
  <1> QED BY <1>2, <1>4, <1>5, LastOfSame

LEMMA OneSize ==
    ASSUME NEW s, IsSnapshot(s), NEW frame, IsFullFrame(frame), OnlyFrameLines(s, frame),
           NEW size \in DecodeSizes(frame)
    PROVE  size = [width |-> Width, height |-> Height]
  <1> DEFINE lines == LinesOf(frame, "size")
             decoded == [i \in DOMAIN lines |-> DecodeSize(lines[i])]
             whole == [width |-> Width, height |-> Height]
  <1>1. /\ lines \in Seq(Seq(Word))
        /\ \A j \in DOMAIN lines : IsFrameLine(s, lines[j]) /\ Head(lines[j]) = "size"
    BY NamedLines DEF Keywords
  <1>2. size \in LastOf(EveryLine(decoded))
    BY DEF DecodeSizes
  <1> HIDE DEF lines
  <1>3. ASSUME NEW j \in DOMAIN lines PROVE DecodeSize(lines[j]) = {whole}
    <2>1. lines[j] = SizeLine(s)
      BY <1>1, FrameLineFacts
    <2> QED BY <2>1, SizeIsRead
  <1> HIDE DEF whole
  <1>4. Len(lines) \in Nat /\ DOMAIN lines = 1 .. Len(lines)
    BY <1>1, LengthIsDomain
  <1>5. DOMAIN decoded = 1 .. Len(lines) /\ \A i \in DOMAIN decoded : decoded[i] \subseteq {whole}
    BY <1>3, <1>4
  <1> HIDE DEF decoded
  <1>6. size = whole
    BY <1>2, <1>4, <1>5, LastOfSame
  <1> QED BY <1>6 DEF whole

LEMMA RoundedMember ==
    ASSUME NEW entries, NEW i \in DOMAIN entries
    PROVE  RoundedEntry(entries[i]) \in ToSet(RoundedAll(entries))
  BY DEF RoundedAll, ToSet

LEMMA FewerMotions ==
    ASSUME NEW s, IsSnapshot(s), NEW frame, IsFullFrame(frame), OnlyFrameLines(s, frame),
           NEW motions \in DecodeMotions(frame, Height)
    PROVE  ToSet(motions) \subseteq ToSet(RoundedAll(s.motions))
  <1> DEFINE lines == LinesOf(frame, "motion")
             decoded == [i \in DOMAIN lines |-> DecodeMotion(lines[i], Height)]
  <1>1. \A j \in DOMAIN lines : IsFrameLine(s, lines[j]) /\ Head(lines[j]) = "motion"
    BY NamedLines DEF Keywords
  <1>2. motions \in EveryLine(decoded)
    BY DEF DecodeMotions
  <1> HIDE DEF lines
  <1>3. ASSUME NEW j \in DOMAIN lines
        PROVE  \E i \in DOMAIN s.motions :
                  DecodeMotion(lines[j], Height) = {RoundedEntry(s.motions[i])}
    <2>1. PICK i \in DOMAIN s.motions : lines[j] = EncodeMotion(s.motions[i], Height)
      BY <1>1, FrameLineFacts
    <2>2. s.motions[i] \in MotionValue
      BY SnapshotFacts
    <2> QED BY <2>1, <2>2, MotionIsRead
  <1>4. DOMAIN decoded = DOMAIN lines
        /\ \A j \in DOMAIN lines : decoded[j] = DecodeMotion(lines[j], Height)
    OBVIOUS
  <1> HIDE DEF decoded
  <1>5. ASSUME NEW j \in DOMAIN motions
        PROVE  motions[j] \in ToSet(RoundedAll(s.motions))
    <2>1. j \in DOMAIN lines /\ motions[j] \in DecodeMotion(lines[j], Height)
      BY <1>2, <1>4, EveryLineMember
    <2>2. PICK i \in DOMAIN s.motions :
             DecodeMotion(lines[j], Height) = {RoundedEntry(s.motions[i])}
      BY <1>3, <2>1
    <2> QED BY <2>1, <2>2, RoundedMember
  <1> QED BY <1>5 DEF ToSet

LEMMA FewerCooldowns ==
    ASSUME NEW s, IsSnapshot(s), NEW frame, IsFullFrame(frame), OnlyFrameLines(s, frame),
           NEW cooldowns \in DecodeCooldowns(frame, Height)
    PROVE  ToSet(cooldowns) \subseteq ToSet(RoundedAll(s.cooldowns))
  <1> DEFINE lines == LinesOf(frame, "cooldown")
             decoded == [i \in DOMAIN lines |-> DecodeCooldown(lines[i], Height)]
  <1>1. \A j \in DOMAIN lines : IsFrameLine(s, lines[j]) /\ Head(lines[j]) = "cooldown"
    BY NamedLines DEF Keywords
  <1>2. cooldowns \in EveryLine(decoded)
    BY DEF DecodeCooldowns
  <1> HIDE DEF lines
  <1>3. ASSUME NEW j \in DOMAIN lines
        PROVE  \E i \in DOMAIN s.cooldowns :
                  DecodeCooldown(lines[j], Height) = {RoundedEntry(s.cooldowns[i])}
    <2>1. PICK i \in DOMAIN s.cooldowns : lines[j] = EncodeCooldown(s.cooldowns[i], Height)
      BY <1>1, FrameLineFacts
    <2>2. s.cooldowns[i] \in CooldownValue
      BY SnapshotFacts
    <2> QED BY <2>1, <2>2, CooldownIsRead
  <1>4. DOMAIN decoded = DOMAIN lines
        /\ \A j \in DOMAIN lines : decoded[j] = DecodeCooldown(lines[j], Height)
    OBVIOUS
  <1> HIDE DEF decoded
  <1>5. ASSUME NEW j \in DOMAIN cooldowns
        PROVE  cooldowns[j] \in ToSet(RoundedAll(s.cooldowns))
    <2>1. j \in DOMAIN lines /\ cooldowns[j] \in DecodeCooldown(lines[j], Height)
      BY <1>2, <1>4, EveryLineMember
    <2>2. PICK i \in DOMAIN s.cooldowns :
             DecodeCooldown(lines[j], Height) = {RoundedEntry(s.cooldowns[i])}
      BY <1>3, <2>1
    <2> QED BY <2>1, <2>2, RoundedMember
  <1> QED BY <1>5 DEF ToSet

LEMMA FewerPieces ==
    ASSUME NEW s, IsSnapshot(s), NEW frame, IsFullFrame(frame), OnlyFrameLines(s, frame),
           NEW size, size.height = Height, NEW pieces \in DecodePieces(frame, size)
    PROVE  ToSet(pieces) \subseteq s.board.pieces
  <1> DEFINE lines == LinesOf(frame, "piece")
             decoded == [i \in DOMAIN lines |-> DecodePiece(lines[i], Height)]
  <1>1. \A j \in DOMAIN lines : IsFrameLine(s, lines[j]) /\ Head(lines[j]) = "piece"
    BY NamedLines DEF Keywords
  <1>2. pieces \in EveryLine(decoded)
    BY DEF DecodePieces
  <1> HIDE DEF lines
  <1>3. ASSUME NEW j \in DOMAIN lines
        PROVE  \E p \in s.board.pieces : DecodePiece(lines[j], Height) = {p}
    <2>1. PICK p \in s.board.pieces : lines[j] = EncodePiece(p, Height)
      BY <1>1, FrameLineFacts
    <2>2. p \in PieceValue
      BY SnapshotFacts
    <2> QED BY <2>1, <2>2, PieceIsRead
  <1>4. DOMAIN decoded = DOMAIN lines
        /\ \A j \in DOMAIN lines : decoded[j] = DecodePiece(lines[j], Height)
    OBVIOUS
  <1> HIDE DEF decoded
  <1>5. ASSUME NEW j \in DOMAIN pieces
        PROVE  pieces[j] \in s.board.pieces
    <2>1. j \in DOMAIN lines /\ pieces[j] \in DecodePiece(lines[j], Height)
      BY <1>2, <1>4, EveryLineMember
    <2>2. PICK p \in s.board.pieces : DecodePiece(lines[j], Height) = {p}
      BY <1>3, <2>1
    <2> QED BY <2>1, <2>2
  <1> QED BY <1>5 DEF ToSet

Shows(v, s) ==
    /\ v.over = s.over
    /\ v.board.width = s.board.width
    /\ v.board.height = s.board.height
    /\ v.board.pieces \subseteq s.board.pieces
    /\ ToSet(v.motions) \subseteq ToSet(s.motions)
    /\ ToSet(v.cooldowns) \subseteq ToSet(s.cooldowns)

LEMMA FramesHide ==
    ASSUME NEW s, IsSnapshot(s), NEW frame, IsFullFrame(frame), OnlyFrameLines(s, frame),
           NEW v \in DecodeState(frame)
    PROVE  Shows(v, AsShown(s))
  <1>1. PICK over \in DecodeOvers(frame), size \in DecodeSizes(frame) :
             \E pieces \in DecodePieces(frame, size),
                motions \in DecodeMotions(frame, size.height),
                cooldowns \in DecodeCooldowns(frame, size.height) :
               v = [over |-> over,
                    board |-> [width |-> size.width, height |-> size.height,
                               pieces |-> ToSet(pieces)],
                    motions |-> motions, cooldowns |-> cooldowns]
    BY FrameIsDecoded
  <1>2. PICK pieces \in DecodePieces(frame, size),
             motions \in DecodeMotions(frame, size.height),
             cooldowns \in DecodeCooldowns(frame, size.height) :
               v = [over |-> over,
                    board |-> [width |-> size.width, height |-> size.height,
                               pieces |-> ToSet(pieces)],
                    motions |-> motions, cooldowns |-> cooldowns]
    BY <1>1
  <1>3. over = s.over /\ size.width = Width /\ size.height = Height
    BY OneOver, OneSize
  <1>4. /\ ToSet(pieces) \subseteq s.board.pieces
        /\ ToSet(motions) \subseteq ToSet(RoundedAll(s.motions))
        /\ ToSet(cooldowns) \subseteq ToSet(RoundedAll(s.cooldowns))
    BY <1>3, FewerPieces, FewerMotions, FewerCooldowns
  <1>5. s.board.width = Width /\ s.board.height = Height
    BY SnapshotFacts
  <1> QED BY <1>2, <1>3, <1>4, <1>5 DEF Shows, AsShown

-----------------------------------------------------------------------------
(***************************************************************************)
(* The cells of a board, row by row.                                       *)
(***************************************************************************)
Before(c, d) == c[1] < d[1] \/ (c[1] = d[1] /\ c[2] < d[2])

LEMMA DivisionFacts ==
    ASSUME NEW w \in Nat \ {0}, NEW n \in Nat
    PROVE  n = w * (n \div w) + (n % w) /\ n % w \in 0 .. w - 1 /\ n \div w \in Nat
  OBVIOUS

LEMMA RowMajor ==
    ASSUME NEW w \in Nat \ {0}, NEW h \in Nat \ {0}
    PROVE  /\ w * h \in Nat
           /\ \A n \in 0 .. w * h - 1 :
                 /\ n \div w \in 0 .. h - 1 /\ n % w \in 0 .. w - 1
                 /\ n = w * (n \div w) + (n % w)
           /\ \A row \in 0 .. h - 1, col \in 0 .. w - 1 :
                 /\ w * row + col \in 0 .. w * h - 1
                 /\ (w * row + col) \div w = row /\ (w * row + col) % w = col
  <1>1. w * h \in Nat
    OBVIOUS
  <1>2. ASSUME NEW n \in 0 .. w * h - 1
        PROVE  /\ n \div w \in 0 .. h - 1 /\ n % w \in 0 .. w - 1
               /\ n = w * (n \div w) + (n % w)
    <2>1. n \in Nat
      BY <1>1
    <2>2. n = w * (n \div w) + (n % w) /\ n % w \in 0 .. w - 1 /\ n \div w \in Nat
      BY <2>1, DivisionFacts
    <2>3. n \div w \in 0 .. h - 1
      <3> DEFINE q == n \div w
                 r == n % w
      <3>1. q \in Nat /\ r \in Nat /\ n = w * q + r /\ n <= w * h - 1 /\ n \in Int
        BY <1>1, <2>2
      <3> HIDE DEF q, r
      <3>2. SUFFICES ASSUME h <= q PROVE FALSE
        BY <3>1 DEF q
      <3>3. w * h <= w * q
        BY <3>1, <3>2
      <3> QED BY <1>1, <3>1, <3>3
    <2> QED BY <2>2, <2>3
  <1>3. ASSUME NEW row \in 0 .. h - 1, NEW col \in 0 .. w - 1
        PROVE  /\ w * row + col \in 0 .. w * h - 1
               /\ (w * row + col) \div w = row /\ (w * row + col) % w = col
    <2>1. w * row + col \in 0 .. w * h - 1
      OBVIOUS
    <2>2. (w * row + col) \div w = row /\ (w * row + col) % w = col
      <3>1. row \in Nat
        OBVIOUS
      <3> QED BY <3>1
    <2> QED BY <2>1, <2>2
  <1> QED BY <1>1, <1>2, <1>3

LEMMA CellsInOrderFacts ==
    ASSUME NEW board, board.width \in Nat \ {0}, board.height \in Nat \ {0}
    PROVE  LET cells == CellsInOrder(board)
               w == board.width
               h == board.height
           IN  /\ cells \in Seq((0 .. h - 1) \X (0 .. w - 1))
               /\ \A i, j \in DOMAIN cells : i < j => Before(cells[i], cells[j])
               /\ \A i, j \in DOMAIN cells : cells[i] = cells[j] => i = j
               /\ \A cell \in (0 .. h - 1) \X (0 .. w - 1) :
                     \E i \in DOMAIN cells : cells[i] = cell
  <1> DEFINE cells == CellsInOrder(board)
             w == board.width
             h == board.height
             row(i) == (i - 1) \div w
             col(i) == (i - 1) % w
  <1>1. /\ w * h \in Nat
        /\ \A n \in 0 .. w * h - 1 :
              /\ n \div w \in 0 .. h - 1 /\ n % w \in 0 .. w - 1
              /\ n = w * (n \div w) + (n % w)
        /\ \A r \in 0 .. h - 1, c \in 0 .. w - 1 :
              /\ w * r + c \in 0 .. w * h - 1
              /\ (w * r + c) \div w = r /\ (w * r + c) % w = c
    BY RowMajor
  <1>0. w \in Nat \ {0} /\ h \in Nat \ {0}
    OBVIOUS
  <1>2. cells = [i \in 1 .. w * h |-> <<row(i), col(i)>>]
    BY DEF CellsInOrder
  <1> HIDE DEF w, h, cells
  <1>3. ASSUME NEW i \in 1 .. w * h
        PROVE  /\ row(i) \in 0 .. h - 1 /\ col(i) \in 0 .. w - 1
               /\ i = w * row(i) + col(i) + 1
    <2> DEFINE n == i - 1
    <2>1. n \in 0 .. w * h - 1 /\ i = n + 1
      BY <1>0, <1>1
    <2> HIDE DEF n
    <2>2. /\ n \div w \in 0 .. h - 1 /\ n % w \in 0 .. w - 1
          /\ n = w * (n \div w) + (n % w)
      BY <1>0, <1>1, <2>1
    <2> QED BY <2>1, <2>2 DEF n
  <1>4. ASSUME NEW r \in 0 .. h - 1, NEW c \in 0 .. w - 1
        PROVE  \E i \in 1 .. w * h : row(i) = r /\ col(i) = c
    <2> DEFINE n == w * r + c
    <2>1. n \in 0 .. w * h - 1 /\ n \div w = r /\ n % w = c
      BY <1>0, <1>1
    <2>2. n + 1 \in 1 .. w * h /\ (n + 1) - 1 = n
      BY <1>0, <1>1, <2>1
    <2>3. row(n + 1) = r /\ col(n + 1) = c
      BY <2>1, <2>2
    <2> QED BY <2>2, <2>3
  <1>5. ASSUME NEW i \in 1 .. w * h, NEW j \in 1 .. w * h, i < j
        PROVE  row(i) < row(j) \/ (row(i) = row(j) /\ col(i) < col(j))
    <2> DEFINE ri == row(i) rj == row(j) ci == col(i) cj == col(j)
    <2>1. /\ ri \in 0 .. h - 1 /\ ci \in 0 .. w - 1 /\ i = w * ri + ci + 1
          /\ rj \in 0 .. h - 1 /\ cj \in 0 .. w - 1 /\ j = w * rj + cj + 1
      BY <1>0, <1>3
    <2>2. ri \in Int /\ rj \in Int /\ ci \in Int /\ cj \in Int
          /\ 0 <= ci /\ ci < w /\ 0 <= cj /\ cj < w
          /\ w * ri + ci < w * rj + cj
      BY <1>0, <1>5, <2>1
    <2> HIDE DEF ri, rj, ci, cj
    <2>3. ~ (rj < ri)
      <3>1. SUFFICES ASSUME rj <= ri - 1 PROVE FALSE
        BY <1>0, <2>2
      <3>2. w * rj <= w * (ri - 1)
        BY <1>0, <2>2, <3>1
      <3>3. w * (ri - 1) = w * ri - w
        BY <1>0, <2>2
      <3> QED BY <1>0, <2>2, <3>2, <3>3
    <2>4. ri = rj => ci < cj
      BY <1>0, <2>2
    <2>5. ri \in Int /\ rj \in Int
      BY <1>0, <2>2
    <2>6. ri < rj \/ (ri = rj /\ ci < cj)
      BY <2>3, <2>4, <2>5
    <2> QED BY <2>6 DEF ri, rj, ci, cj
  <1> HIDE DEF row, col
  <1>6. DOMAIN cells = 1 .. w * h /\ cells \in Seq((0 .. h - 1) \X (0 .. w - 1))
    BY <1>0, <1>1, <1>2, <1>3
  <1>7. \A i, j \in DOMAIN cells : i < j => Before(cells[i], cells[j])
    BY <1>2, <1>5, <1>6 DEF Before
  <1>8. ASSUME NEW i \in DOMAIN cells, NEW j \in DOMAIN cells, cells[i] = cells[j]
        PROVE  i = j
    <2>1. /\ row(i) = row(j) /\ col(i) = col(j)
      BY <1>2, <1>6, <1>8
    <2> QED BY <1>3, <1>6, <2>1
  <1>9. ASSUME NEW cell \in (0 .. h - 1) \X (0 .. w - 1)
        PROVE  \E i \in DOMAIN cells : cells[i] = cell
    <2>1. PICK i \in 1 .. w * h : row(i) = cell[1] /\ col(i) = cell[2]
      BY <1>4
    <2>2. cells[i] = cell
      BY <1>2, <2>1
    <2> QED BY <1>6, <2>2
  <1> QED BY <1>6, <1>7, <1>8, <1>9 DEF cells, w, h

\* What is filtered keeps its order.
LEMMA NthOrder ==
    ASSUME NEW n \in Nat, NEW keep \in SUBSET (1 .. n),
           NEW i \in 1 .. Cardinality(keep), NEW j \in 1 .. Cardinality(keep), i < j
    PROVE  Nth(keep, i) < Nth(keep, j)
  <1> DEFINE upto(k) == {m \in keep : m <= k}
             a == Nth(keep, i)
             b == Nth(keep, j)
  <1>1. /\ a \in keep /\ b \in keep
        /\ Cardinality(upto(a)) = i /\ Cardinality(upto(b)) = j
    BY NthFacts
  <1> HIDE DEF a, b, upto
  <1>2. (\A m \in keep : m \in Int) /\ a \in Int /\ b \in Int
    <2>1. \A m \in keep : m \in Int
      OBVIOUS
    <2> QED BY <1>1, <2>1
  <1>3. SUFFICES ASSUME b <= a PROVE FALSE
    BY <1>2 DEF a, b
  <1>4. upto(b) \subseteq upto(a)
    <2>1. \A m \in keep : m <= b => m <= a
      BY <1>2, <1>3
    <2> QED BY <2>1 DEF upto
  <1>5. IsFiniteSet(upto(a))
    <2>1. IsFiniteSet(1 .. n)
      BY FS_Interval
    <2>2. upto(a) \subseteq 1 .. n
      BY DEF upto
    <2> QED BY <2>1, <2>2, FS_Subset
  <1>6. Cardinality(upto(b)) <= Cardinality(upto(a))
    BY <1>4, <1>5, FS_Subset
  <1> QED BY <1>1, <1>6

LEMMA FilteredInOrder ==
    ASSUME NEW S, NEW vector \in Seq(S), NEW keep \in SUBSET DOMAIN vector,
           \A i, j \in DOMAIN vector : i < j => Before(vector[i], vector[j])
    PROVE  LET chosen == Filtered(vector, keep)
           IN  \A i, j \in DOMAIN chosen : i < j => Before(chosen[i], chosen[j])
  <1> DEFINE n == Len(vector)
             chosen == Filtered(vector, keep)
  <1>1. n \in Nat /\ DOMAIN vector = 1 .. n /\ \A k \in keep : vector[k] \in S
    OBVIOUS
  <1> HIDE DEF n
  <1>2. /\ DOMAIN chosen = 1 .. Cardinality(keep)
        /\ \A i \in DOMAIN chosen : Nth(keep, i) \in keep /\ chosen[i] = vector[Nth(keep, i)]
    BY <1>1, FilteredFacts
  <1> HIDE DEF chosen
  <1>3. ASSUME NEW i \in DOMAIN chosen, NEW j \in DOMAIN chosen, i < j
        PROVE  Before(chosen[i], chosen[j])
    <2>1. Nth(keep, i) < Nth(keep, j)
      BY <1>1, <1>2, <1>3, NthOrder
    <2>2. Before(vector[Nth(keep, i)], vector[Nth(keep, j)])
      BY <1>2, <2>1
    <2> QED BY <1>2, <2>2
  <1> QED BY <1>3 DEF chosen

\* Cells in their order are different cells.
LEMMA OrderedAreDifferent ==
    ASSUME NEW rows \in SUBSET Int, NEW cols \in SUBSET Int, NEW cells \in Seq(rows \X cols),
           \A i, j \in DOMAIN cells : i < j => Before(cells[i], cells[j])
    PROVE  \A i, j \in DOMAIN cells : cells[i] = cells[j] => i = j
  <1> SUFFICES ASSUME NEW i \in DOMAIN cells, NEW j \in DOMAIN cells,
                      cells[i] = cells[j], i # j
               PROVE  FALSE
    OBVIOUS
  <1>1. i \in Int /\ j \in Int /\ cells[i] \in rows \X cols
    OBVIOUS
  <1>2. cells[i][1] \in Int /\ cells[i][2] \in Int
    BY <1>1
  <1>3. ~ Before(cells[i], cells[i])
    BY <1>2 DEF Before
  <1>4. i < j \/ j < i
    BY <1>1
  <1> QED BY <1>3, <1>4

LEMMA OccupiedFacts ==
    ASSUME NEW s, IsSnapshot(s)
    PROVE  LET board == s.board
               cells == OccupiedCells(board)
           IN  /\ cells \in Seq(Cells)
               /\ \A i \in DOMAIN cells :
                     /\ PieceAt(board, cells[i]) \in board.pieces
                     /\ PieceAt(board, cells[i]).cell = cells[i]
               /\ \A i, j \in DOMAIN cells : i < j => Before(cells[i], cells[j])
               /\ \A p \in board.pieces :
                     \E i \in DOMAIN cells : PieceAt(board, cells[i]) = p
  <1> DEFINE board == s.board
             all == CellsInOrder(board)
             keep == {i \in DOMAIN all : PiecesAt(board, all[i]) # {}}
             cells == OccupiedCells(board)
  <1>1. /\ Width \in Nat \ {0} /\ Height \in Nat \ {0}
        /\ board.width = Width /\ board.height = Height
        /\ board.pieces \subseteq PieceValue
        /\ \A p, q \in board.pieces : p.cell = q.cell => p = q
    BY SnapshotFacts
  <1>2. cells = Filtered(all, keep) /\ keep \in SUBSET DOMAIN all
    BY DEF OccupiedCells
  <1> HIDE DEF board
  <1>3. /\ all \in Seq(Cells)
        /\ \A i, j \in DOMAIN all : i < j => Before(all[i], all[j])
        /\ \A cell \in Cells : \E i \in DOMAIN all : all[i] = cell
    <2>1. /\ Width \in Nat \ {0} /\ Height \in Nat \ {0}
          /\ board.width = Width /\ board.height = Height
      BY <1>1
    <2> QED BY <2>1, CellsInOrderFacts, Zenon DEF Cells
  <1> HIDE DEF all, cells
  <1>4. /\ cells \in Seq(Cells)
        /\ \A j \in DOMAIN cells : \E i \in keep : cells[j] = all[i]
        /\ \A i \in keep : \E j \in DOMAIN cells : cells[j] = all[i]
    <2> HIDE DEF keep
    <2> QED BY <1>2, <1>3, FilteredContains
  <1>5. \A i, j \in DOMAIN cells : i < j => Before(cells[i], cells[j])
    <2> HIDE DEF keep
    <2> QED BY <1>2, <1>3, FilteredInOrder
  <1>6. ASSUME NEW cell, PiecesAt(board, cell) # {}
        PROVE  PieceAt(board, cell) \in board.pieces /\ PieceAt(board, cell).cell = cell
    <2>1. PieceAt(board, cell) \in PiecesAt(board, cell)
      BY <1>6 DEF PieceAt
    <2> QED BY <2>1 DEF PiecesAt
  <1>7. ASSUME NEW i \in DOMAIN cells
        PROVE  /\ PieceAt(board, cells[i]) \in board.pieces
               /\ PieceAt(board, cells[i]).cell = cells[i]
    <2>1. PICK k \in keep : cells[i] = all[k]
      BY <1>4
    <2> QED BY <1>6, <2>1
  <1>8. ASSUME NEW p \in board.pieces
        PROVE  \E i \in DOMAIN cells : PieceAt(board, cells[i]) = p
    <2>1. p.cell \in Cells
      BY <1>1 DEF PieceValue
    <2>2. PICK k \in DOMAIN all : all[k] = p.cell
      BY <1>3, <2>1
    <2>3. p \in PiecesAt(board, all[k])
      BY <2>2 DEF PiecesAt
    <2>4. PICK i \in DOMAIN cells : cells[i] = p.cell
      BY <1>4, <2>2, <2>3
    <2>5. PieceAt(board, cells[i]) = p
      BY <1>1, <1>7, <2>4
    <2> QED BY <2>5
  <1> QED BY <1>4, <1>5, <1>7, <1>8 DEF board, cells

\* The pieces of a board in the order of their cells: they are all there,
\* and can stand where they stand.
PiecesInOrder(board) ==
    LET cells == OccupiedCells(board)
    IN  [i \in DOMAIN cells |-> PieceAt(board, cells[i])]

LEMMA PiecesInOrderFacts ==
    ASSUME NEW s, IsSnapshot(s)
    PROVE  LET pieces == PiecesInOrder(s.board)
           IN  /\ pieces \in Seq(PieceValue)
               /\ ToSet(pieces) = s.board.pieces
               /\ CanStand(pieces, Width)
               /\ Len(EncodePieces(s.board)) = Len(pieces)
               /\ EncodePieces(s.board) = [i \in 1 .. Len(pieces) |-> EncodePiece(pieces[i], Height)]
  <1> DEFINE board == s.board
             cells == OccupiedCells(board)
             pieces == PiecesInOrder(board)
  <1>1. /\ cells \in Seq(Cells)
        /\ \A i \in DOMAIN cells :
              /\ PieceAt(board, cells[i]) \in board.pieces
              /\ PieceAt(board, cells[i]).cell = cells[i]
        /\ \A i, j \in DOMAIN cells : i < j => Before(cells[i], cells[j])
        /\ \A p \in board.pieces : \E i \in DOMAIN cells : PieceAt(board, cells[i]) = p
    BY OccupiedFacts
  <1>2. board.height = Height /\ board.pieces \subseteq PieceValue
    BY SnapshotFacts
  <1>3. pieces = [i \in DOMAIN cells |-> PieceAt(board, cells[i])]
    BY DEF PiecesInOrder
  <1>4. EncodePieces(board) = [i \in DOMAIN cells |-> EncodePiece(PieceAt(board, cells[i]), Height)]
    BY <1>2 DEF EncodePieces
  <1>5. \A i, j \in DOMAIN cells : cells[i] = cells[j] => i = j
    <2> DEFINE rows == 0 .. Height - 1
               cols == 0 .. Width - 1
    <2>1. rows \in SUBSET Int /\ cols \in SUBSET Int
      OBVIOUS
    <2>2. cells \in Seq(rows \X cols)
      BY <1>1 DEF Cells
    <2> HIDE DEF cells, rows, cols
    <2> QED BY <1>1, <2>1, <2>2, OrderedAreDifferent
  <1> HIDE DEF board, cells, pieces
  <1>6. Len(cells) \in Nat /\ DOMAIN cells = 1 .. Len(cells)
    BY <1>1, LengthIsDomain
  <1>7. pieces \in Seq(PieceValue) /\ Len(pieces) = Len(cells) /\ DOMAIN pieces = DOMAIN cells
    BY <1>1, <1>2, <1>3, <1>6
  <1>8. ToSet(pieces) = board.pieces
    BY <1>1, <1>3 DEF ToSet
  <1>9. \A i \in DOMAIN pieces : pieces[i].cell = cells[i] /\ cells[i][2] < Width
    <2>1. ASSUME NEW i \in DOMAIN cells PROVE cells[i][2] < Width
      <3>1. cells[i] \in Cells
        BY <1>1
      <3> QED BY <3>1, SizeType DEF Cells
    <2> QED BY <1>1, <1>3, <1>7, <2>1
  <1>10. CanStand(pieces, Width)
    BY <1>5, <1>7, <1>9 DEF CanStand
  <1>11. EncodePieces(board) = [i \in 1 .. Len(pieces) |-> EncodePiece(pieces[i], Height)]
    BY <1>3, <1>4, <1>6, <1>7
  <1>12. Len(EncodePieces(board)) = Len(pieces)
    BY <1>6, <1>7, <1>11
  <1> QED BY <1>7, <1>8, <1>10, <1>11, <1>12 DEF board, pieces

-----------------------------------------------------------------------------
(***************************************************************************)
(* The frame of a snapshot, line by line.                                  *)
(***************************************************************************)
Pieces(s) == PiecesInOrder(s.board)

LEMMA LineWords ==
    ASSUME NEW s, IsSnapshot(s), NEW line, IsFrameLine(s, line)
    PROVE  line \in Seq(Word)
  BY FrameLineFacts DEF IsFull

LEMMA StateLines ==
    ASSUME NEW s, IsSnapshot(s)
    PROVE  LET lines == EncodeState(s)
               p == Len(Pieces(s))
               m == Len(s.motions)
               c == Len(s.cooldowns)
           IN  /\ p \in Nat /\ m \in Nat /\ c \in Nat
               /\ lines \in Seq(Seq(Word)) /\ Len(lines) = 2 + p + m + c
               /\ lines[1] = OverLine(s) /\ lines[2] = SizeLine(s)
               /\ \A i \in 1 .. p : lines[2 + i] = EncodePiece(Pieces(s)[i], Height)
               /\ \A i \in 1 .. m : lines[2 + p + i] = EncodeMotion(s.motions[i], Height)
               /\ \A i \in 1 .. c : lines[2 + p + m + i] = EncodeCooldown(s.cooldowns[i], Height)
  <1> DEFINE p == Len(Pieces(s))
             m == Len(s.motions)
             c == Len(s.cooldowns)
             first == <<OverLine(s), SizeLine(s)>>
             second == EncodePieces(s.board)
             third == [i \in DOMAIN s.motions |-> EncodeMotion(s.motions[i], Height)]
             fourth == [i \in DOMAIN s.cooldowns |-> EncodeCooldown(s.cooldowns[i], Height)]
  <1>1. /\ s.board.height = Height /\ s.board.width = Width
        /\ s.motions \in Seq(MotionValue) /\ s.cooldowns \in Seq(CooldownValue)
        /\ s.board.pieces \subseteq PieceValue
    BY SnapshotFacts
  <1>2. /\ Pieces(s) \in Seq(PieceValue)
        /\ ToSet(Pieces(s)) = s.board.pieces
        /\ Len(second) = p
        /\ second = [i \in 1 .. p |-> EncodePiece(Pieces(s)[i], Height)]
    BY PiecesInOrderFacts DEF Pieces
  <1>3. /\ p \in Nat /\ DOMAIN Pieces(s) = 1 .. p
        /\ m \in Nat /\ DOMAIN s.motions = 1 .. m
        /\ c \in Nat /\ DOMAIN s.cooldowns = 1 .. c
    BY <1>1, <1>2, LengthIsDomain
  <1>4. EncodeState(s) = ((first \o second) \o third) \o fourth
    BY <1>1 DEF EncodeState, OverLine, SizeLine
  <1>5. OverLine(s) \in Seq(Word) /\ SizeLine(s) \in Seq(Word)
    BY LineWords DEF IsFrameLine
  <1> HIDE DEF p, m, c
  <1>6. first \in Seq(Seq(Word)) /\ Len(first) = 2
        /\ first[1] = OverLine(s) /\ first[2] = SizeLine(s)
    BY <1>5
  <1>7. second \in Seq(Seq(Word))
    <2>1. ASSUME NEW i \in 1 .. p PROVE EncodePiece(Pieces(s)[i], Height) \in Seq(Word)
      <3>1. Pieces(s)[i] \in s.board.pieces
        BY <1>2, <1>3 DEF ToSet
      <3> QED BY <3>1, LineWords DEF IsFrameLine
    <2> HIDE DEF second
    <2> QED BY <1>2, <1>3, <2>1
  <1>8. third \in Seq(Seq(Word)) /\ Len(third) = m
        /\ third = [i \in 1 .. m |-> EncodeMotion(s.motions[i], Height)]
    <2>1. ASSUME NEW i \in 1 .. m PROVE EncodeMotion(s.motions[i], Height) \in Seq(Word)
      BY <1>3, LineWords DEF IsFrameLine
    <2>2. third = [i \in 1 .. m |-> EncodeMotion(s.motions[i], Height)]
      BY <1>3
    <2> HIDE DEF third
    <2> QED BY <1>3, <2>1, <2>2
  <1>9. fourth \in Seq(Seq(Word)) /\ Len(fourth) = c
        /\ fourth = [i \in 1 .. c |-> EncodeCooldown(s.cooldowns[i], Height)]
    <2>1. ASSUME NEW i \in 1 .. c PROVE EncodeCooldown(s.cooldowns[i], Height) \in Seq(Word)
      BY <1>3, LineWords DEF IsFrameLine
    <2>2. fourth = [i \in 1 .. c |-> EncodeCooldown(s.cooldowns[i], Height)]
      BY <1>3
    <2> HIDE DEF fourth
    <2> QED BY <1>3, <2>1, <2>2
  <1> HIDE DEF first, second, third, fourth
  <1> DEFINE two == first \o second
             three == two \o third
             four == three \o fourth
  <1>10. /\ two \in Seq(Seq(Word)) /\ Len(two) = 2 + p
         /\ two[1] = OverLine(s) /\ two[2] = SizeLine(s)
         /\ \A i \in 1 .. p : two[2 + i] = second[i]
    <2>1. /\ two \in Seq(Seq(Word)) /\ Len(two) = Len(first) + Len(second)
          /\ \A i \in 1 .. Len(first) + Len(second) :
                two[i] = IF i <= Len(first) THEN first[i] ELSE second[i - Len(first)]
      BY <1>6, <1>7, ConcatFacts
    <2> HIDE DEF two
    <2>2. \A i \in 1 .. 2 + p : two[i] = IF i <= 2 THEN first[i] ELSE second[i - 2]
      BY <1>2, <1>6, <2>1
    <2>3. \A i \in 1 .. p : 2 + i \in 1 .. 2 + p /\ ~ (2 + i <= 2) /\ (2 + i) - 2 = i
      BY <1>3
    <2>4. 1 \in 1 .. 2 + p /\ 2 \in 1 .. 2 + p
      BY <1>3
    <2>5. two[1] = OverLine(s) /\ two[2] = SizeLine(s)
      BY <1>6, <2>2, <2>4
    <2>6. \A i \in 1 .. p : two[2 + i] = second[i]
      BY <2>2, <2>3
    <2>7. Len(two) = 2 + p
      BY <1>2, <1>6, <2>1
    <2> QED BY <2>1, <2>5, <2>6, <2>7
  <1> HIDE DEF two
  <1>11. /\ three \in Seq(Seq(Word)) /\ Len(three) = 2 + p + m
         /\ three[1] = OverLine(s) /\ three[2] = SizeLine(s)
         /\ \A i \in 1 .. p : three[2 + i] = second[i]
         /\ \A i \in 1 .. m : three[2 + p + i] = third[i]
    <2>1. /\ three \in Seq(Seq(Word)) /\ Len(three) = Len(two) + Len(third)
          /\ \A i \in 1 .. Len(two) + Len(third) :
                three[i] = IF i <= Len(two) THEN two[i] ELSE third[i - Len(two)]
      <3>1. two \in Seq(Seq(Word)) /\ third \in Seq(Seq(Word))
        BY <1>8, <1>10
      <3> QED BY <3>1, ConcatFacts
    <2> HIDE DEF three
    <2>2. \A i \in 1 .. 2 + p + m :
             three[i] = IF i <= 2 + p THEN two[i] ELSE third[i - (2 + p)]
      BY <1>8, <1>10, <2>1
    <2>3. \A i \in 1 .. m : /\ 2 + p + i \in 1 .. 2 + p + m /\ ~ (2 + p + i <= 2 + p)
                            /\ (2 + p + i) - (2 + p) = i
      BY <1>3
    <2>4. \A i \in 1 .. 2 + p : i \in 1 .. 2 + p + m /\ i <= 2 + p
      BY <1>3
    <2>5. \A i \in 1 .. p : 2 + i \in 1 .. 2 + p
      BY <1>3
    <2>6. \A i \in 1 .. 2 + p : three[i] = two[i]
      BY <2>2, <2>4
    <2>7. 1 \in 1 .. 2 + p /\ 2 \in 1 .. 2 + p
      BY <1>3
    <2>8. \A i \in 1 .. m : three[2 + p + i] = third[i]
      BY <2>2, <2>3
    <2>9. Len(three) = 2 + p + m
      BY <1>8, <1>10, <2>1
    <2> QED BY <1>10, <2>1, <2>5, <2>6, <2>7, <2>8, <2>9
  <1> HIDE DEF three
  <1>12. /\ four \in Seq(Seq(Word)) /\ Len(four) = 2 + p + m + c
         /\ four[1] = OverLine(s) /\ four[2] = SizeLine(s)
         /\ \A i \in 1 .. p : four[2 + i] = second[i]
         /\ \A i \in 1 .. m : four[2 + p + i] = third[i]
         /\ \A i \in 1 .. c : four[2 + p + m + i] = fourth[i]
    <2> DEFINE n == 2 + p + m
    <2>1. /\ four \in Seq(Seq(Word)) /\ Len(four) = Len(three) + Len(fourth)
          /\ \A i \in 1 .. Len(three) + Len(fourth) :
                four[i] = IF i <= Len(three) THEN three[i] ELSE fourth[i - Len(three)]
      <3>1. three \in Seq(Seq(Word)) /\ fourth \in Seq(Seq(Word))
        BY <1>9, <1>11
      <3> QED BY <3>1, ConcatFacts
    <2> HIDE DEF four
    <2>2. \A i \in 1 .. n + c : four[i] = IF i <= n THEN three[i] ELSE fourth[i - n]
      BY <1>9, <1>11, <2>1
    <2>3. \A i \in 1 .. c : n + i \in 1 .. n + c /\ ~ (n + i <= n) /\ (n + i) - n = i
      BY <1>3
    <2>4. \A i \in 1 .. n : i \in 1 .. n + c /\ i <= n
      BY <1>3
    <2>5. \A i \in 1 .. p : 2 + i \in 1 .. n
      BY <1>3
    <2>6. \A i \in 1 .. n : four[i] = three[i]
      BY <2>2, <2>4
    <2>7. 1 \in 1 .. n /\ 2 \in 1 .. n /\ \A i \in 1 .. m : 2 + p + i \in 1 .. n
      BY <1>3
    <2>8. \A i \in 1 .. c : four[n + i] = fourth[i]
      BY <2>2, <2>3
    <2>9. Len(four) = n + c
      BY <1>9, <1>11, <2>1
    <2> QED BY <1>11, <2>1, <2>5, <2>6, <2>7, <2>8, <2>9
  <1>13. EncodeState(s) = four
    BY <1>4 DEF two, three
  <1> HIDE DEF four
  <1> QED BY <1>2, <1>3, <1>8, <1>9, <1>12, <1>13 DEF p, m, c

LEMMA WeatherIsUnknown ==
    /\ IsFull(<<"weather", "fine">>) /\ Len(<<"weather", "fine">>) = 2
    /\ Head(<<"weather", "fine">>) = "weather"
    /\ "weather" \notin Keywords
  <1>1. "weather" \in Word /\ "fine" \in Word /\ "weather" # NoWord /\ "fine" # NoWord
    BY WordsAreWords, LiteralsArePresent
  <1>2. "weather" \notin Keywords
    BY DEF Keywords
  <1> QED BY <1>1, <1>2, FullOfTwo

\* The frame of s, and perhaps a line more that says nothing.
IsWholeFrame(s, frame) ==
    LET n == Len(EncodeState(s))
    IN  /\ frame \in Seq(Seq(Word))
        /\ Len(frame) \in {n, n + 1}
        /\ \A i \in 1 .. n : frame[i] = EncodeState(s)[i]
        /\ Len(frame) = n + 1 => frame[n + 1] = <<"weather", "fine">>

\* Which keyword names which lines.
LEMMA WholeFrameLines ==
    ASSUME NEW s, IsSnapshot(s), NEW frame, IsWholeFrame(s, frame)
    PROVE  /\ IsFullFrame(frame)
           /\ LinesOf(frame, "over") = [i \in 1 .. 1 |-> OverLine(s)]
           /\ LinesOf(frame, "size") = [i \in 1 .. 1 |-> SizeLine(s)]
           /\ LinesOf(frame, "piece") =
                 [i \in 1 .. Len(Pieces(s)) |-> EncodePiece(Pieces(s)[i], Height)]
           /\ LinesOf(frame, "motion") =
                 [i \in 1 .. Len(s.motions) |-> EncodeMotion(s.motions[i], Height)]
           /\ LinesOf(frame, "cooldown") =
                 [i \in 1 .. Len(s.cooldowns) |-> EncodeCooldown(s.cooldowns[i], Height)]
  <1> DEFINE p == Len(Pieces(s))
             m == Len(s.motions)
             c == Len(s.cooldowns)
             e == EncodeState(s)
             n == 2 + p + m + c
             named(i, keyword) == IsFull(frame[i]) /\ frame[i] # << >> /\ Head(frame[i]) = keyword
  <1>1. /\ p \in Nat /\ m \in Nat /\ c \in Nat
        /\ Len(e) = n
        /\ e[1] = OverLine(s) /\ e[2] = SizeLine(s)
        /\ \A i \in 1 .. p : e[2 + i] = EncodePiece(Pieces(s)[i], Height)
        /\ \A i \in 1 .. m : e[2 + p + i] = EncodeMotion(s.motions[i], Height)
        /\ \A i \in 1 .. c : e[2 + p + m + i] = EncodeCooldown(s.cooldowns[i], Height)
    BY StateLines
  <1>2. \A i \in 1 .. p : Pieces(s)[i] \in PieceValue
    <2>1. Pieces(s) \in Seq(PieceValue)
      BY PiecesInOrderFacts DEF Pieces
    <2> QED BY <2>1
  <1>3. /\ \A i \in 1 .. m : s.motions[i] \in MotionValue
        /\ \A i \in 1 .. c : s.cooldowns[i] \in CooldownValue
    <2>1. s.motions \in Seq(MotionValue) /\ s.cooldowns \in Seq(CooldownValue)
      BY SnapshotFacts
    <2> QED BY <2>1
  <1> HIDE DEF p, m, c, e
  <1>4. /\ frame \in Seq(Seq(Word)) /\ Len(frame) \in {n, n + 1}
        /\ \A i \in 1 .. n : frame[i] = e[i]
        /\ Len(frame) = n + 1 => frame[n + 1] = <<"weather", "fine">>
    BY <1>1 DEF IsWholeFrame, e
  <1>5. frame[1] = OverLine(s) /\ frame[2] = SizeLine(s)
    <2>1. 1 \in 1 .. n /\ 2 \in 1 .. n
      BY <1>1
    <2> QED BY <1>1, <1>4, <2>1
  <1>6. ASSUME NEW i \in 1 .. p
        PROVE  frame[2 + i] = EncodePiece(Pieces(s)[i], Height)
    <2>1. 2 + i \in 1 .. n
      BY <1>1
    <2> QED BY <1>1, <1>4, <2>1
  <1>7. ASSUME NEW i \in 1 .. m
        PROVE  frame[2 + p + i] = EncodeMotion(s.motions[i], Height)
    <2>1. 2 + p + i \in 1 .. n
      BY <1>1
    <2> QED BY <1>1, <1>4, <2>1
  <1>8. ASSUME NEW i \in 1 .. c
        PROVE  frame[2 + p + m + i] = EncodeCooldown(s.cooldowns[i], Height)
    <2>1. 2 + p + m + i \in 1 .. n
      BY <1>1
    <2> QED BY <1>1, <1>4, <2>1
  <1>9. ASSUME NEW line, IsFull(line), Len(line) >= 2
        PROVE  line # << >>
    BY <1>9, LongFacts DEF IsFull
  <1>10. named(1, "over") /\ named(2, "size")
    <2>1. IsFull(OverLine(s)) /\ Len(OverLine(s)) >= 2 /\ Head(OverLine(s)) = "over"
      BY OverIsRead
    <2>2. IsFull(SizeLine(s)) /\ Len(SizeLine(s)) >= 2 /\ Head(SizeLine(s)) = "size"
      BY SizeIsRead
    <2> QED BY <1>5, <1>9, <2>1, <2>2
  <1>11. \A i \in 1 .. p : named(2 + i, "piece")
    <2> TAKE i \in 1 .. p
    <2> DEFINE line == EncodePiece(Pieces(s)[i], Height)
    <2>1. IsFull(line) /\ Len(line) = 5 /\ Head(line) = "piece"
      BY <1>2, PieceIsRead
    <2> HIDE DEF line
    <2>2. line # << >>
      BY <1>9, <2>1, SMTT(30)
    <2>3. frame[2 + i] = line
      BY <1>6 DEF line
    <2> QED BY <2>1, <2>2, <2>3
  <1>12. \A i \in 1 .. m : named(2 + p + i, "motion")
    <2> TAKE i \in 1 .. m
    <2> DEFINE line == EncodeMotion(s.motions[i], Height)
    <2>1. IsFull(line) /\ Len(line) = 4 /\ Head(line) = "motion"
      BY <1>3, MotionIsRead
    <2> HIDE DEF line
    <2>2. line # << >>
      BY <1>9, <2>1
    <2>3. frame[2 + p + i] = line
      BY <1>7 DEF line
    <2> QED BY <2>1, <2>2, <2>3
  <1>13. \A i \in 1 .. c : named(2 + p + m + i, "cooldown")
    <2> TAKE i \in 1 .. c
    <2> DEFINE line == EncodeCooldown(s.cooldowns[i], Height)
    <2>1. IsFull(line) /\ Len(line) = 3 /\ Head(line) = "cooldown"
      BY <1>3, CooldownIsRead
    <2> HIDE DEF line
    <2>2. line # << >>
      BY <1>9, <2>1
    <2>3. frame[2 + p + m + i] = line
      BY <1>8 DEF line
    <2> QED BY <2>1, <2>2, <2>3
  <1>14. n + 1 \in DOMAIN frame => named(n + 1, "weather")
    <2> SUFFICES ASSUME n + 1 \in DOMAIN frame PROVE named(n + 1, "weather")
      OBVIOUS
    <2>1. Len(frame) = n + 1
      BY <1>1, <1>4
    <2>2. frame[n + 1] = <<"weather", "fine">>
      BY <1>4, <2>1
    <2> DEFINE line == <<"weather", "fine">>
    <2>3. IsFull(line) /\ Len(line) = 2 /\ Head(line) = "weather"
      BY WeatherIsUnknown
    <2>4. frame[n + 1] = line
      BY <2>2
    <2> HIDE DEF line
    <2>5. line # << >>
      BY <1>9, <2>3
    <2> QED BY <2>3, <2>4, <2>5
  <1>15. \A i \in DOMAIN frame :
            \/ i = 1
            \/ i = 2
            \/ i \in 2 + 1 .. 2 + p
            \/ i \in 2 + p + 1 .. 2 + p + m
            \/ i \in 2 + p + m + 1 .. 2 + p + m + c
            \/ i = n + 1
    BY <1>1, <1>4, SMTT(30)
  <1>16. /\ \A i \in 2 + 1 .. 2 + p : named(i, "piece")
         /\ \A i \in 2 + p + 1 .. 2 + p + m : named(i, "motion")
         /\ \A i \in 2 + p + m + 1 .. 2 + p + m + c : named(i, "cooldown")
    <2> HIDE DEF named
    <2>1. \A i \in 2 + 1 .. 2 + p : i - 2 \in 1 .. p /\ 2 + (i - 2) = i
      BY <1>1
    <2>2. \A i \in 2 + p + 1 .. 2 + p + m : i - (2 + p) \in 1 .. m /\ 2 + p + (i - (2 + p)) = i
      BY <1>1
    <2>3. \A i \in 2 + p + m + 1 .. 2 + p + m + c :
             i - (2 + p + m) \in 1 .. c /\ 2 + p + m + (i - (2 + p + m)) = i
      BY <1>1
    <2>4. \A i \in 2 + 1 .. 2 + p : named(i, "piece")
      BY <1>11, <2>1
    <2>5. \A i \in 2 + p + 1 .. 2 + p + m : named(i, "motion")
      BY <1>12, <2>2
    <2>6. \A i \in 2 + p + m + 1 .. 2 + p + m + c : named(i, "cooldown")
      BY <1>13, <2>3
    <2> QED BY <2>4, <2>5, <2>6
  <1>17. IsFullFrame(frame)
    <2>1. \A i \in DOMAIN frame : IsFull(frame[i])
      BY <1>10, <1>14, <1>15, <1>16
    <2> QED BY <1>4, <2>1 DEF IsFullFrame
  <1>18. /\ "over" # "weather" /\ "size" # "weather" /\ "piece" # "weather"
         /\ "motion" # "weather" /\ "cooldown" # "weather"
    OBVIOUS
  <1>19. \A i \in DOMAIN frame :
            /\ IsNamed(frame[i], "over") => i = 1
            /\ IsNamed(frame[i], "size") => i = 2
            /\ IsNamed(frame[i], "piece") => i \in 2 + 1 .. 2 + p
            /\ IsNamed(frame[i], "motion") => i \in 2 + p + 1 .. 2 + p + m
            /\ IsNamed(frame[i], "cooldown") => i \in 2 + p + m + 1 .. 2 + p + m + c
    BY <1>10, <1>14, <1>15, <1>16, <1>18, KeywordsDiffer DEF IsNamed
  <1>20. /\ IsNamed(frame[1], "over") /\ IsNamed(frame[2], "size")
         /\ \A i \in 2 + 1 .. 2 + p : IsNamed(frame[i], "piece")
         /\ \A i \in 2 + p + 1 .. 2 + p + m : IsNamed(frame[i], "motion")
         /\ \A i \in 2 + p + m + 1 .. 2 + p + m + c : IsNamed(frame[i], "cooldown")
    BY <1>10, <1>16 DEF IsNamed
  <1>21. 1 .. n \subseteq DOMAIN frame
    BY <1>1, <1>4
  <1>22. LinesOf(frame, "over") = [i \in 1 .. 1 |-> OverLine(s)]
    <2>1. 0 + 1 .. 0 + 1 \subseteq DOMAIN frame
      BY <1>1, <1>21
    <2>2. \A i \in DOMAIN frame : IsNamed(frame[i], "over") <=> i \in 0 + 1 .. 0 + 1
      BY <1>19, <1>20
    <2>3. [i \in 1 .. 1 |-> OverLine(s)] = [i \in 1 .. 1 |-> frame[0 + i]]
      BY <1>5
    <2> QED BY <2>1, <2>2, <2>3, LinesOfBlock
  <1>23. LinesOf(frame, "size") = [i \in 1 .. 1 |-> SizeLine(s)]
    <2>1. 1 + 1 .. 1 + 1 \subseteq DOMAIN frame
      BY <1>1, <1>21
    <2>2. \A i \in DOMAIN frame : IsNamed(frame[i], "size") <=> i \in 1 + 1 .. 1 + 1
      BY <1>19, <1>20
    <2>3. [i \in 1 .. 1 |-> SizeLine(s)] = [i \in 1 .. 1 |-> frame[1 + i]]
      BY <1>5
    <2> QED BY <2>1, <2>2, <2>3, LinesOfBlock
  <1>24. LinesOf(frame, "piece") = [i \in 1 .. p |-> EncodePiece(Pieces(s)[i], Height)]
    <2>1. 2 + 1 .. 2 + p \subseteq DOMAIN frame
      BY <1>1, <1>21
    <2>2. \A i \in DOMAIN frame : IsNamed(frame[i], "piece") <=> i \in 2 + 1 .. 2 + p
      BY <1>19, <1>20
    <2>3. [i \in 1 .. p |-> EncodePiece(Pieces(s)[i], Height)] = [i \in 1 .. p |-> frame[2 + i]]
      BY <1>6
    <2> QED BY <1>1, <2>1, <2>2, <2>3, LinesOfBlock
  <1>25. LinesOf(frame, "motion") = [i \in 1 .. m |-> EncodeMotion(s.motions[i], Height)]
    <2> DEFINE a == 2 + p
    <2>1. a \in Nat /\ a + 1 .. a + m \subseteq DOMAIN frame
      <3>1. a \in Nat /\ a + 1 .. a + m \subseteq 1 .. n
        BY <1>1
      <3> QED BY <1>21, <3>1
    <2>2. \A i \in DOMAIN frame : IsNamed(frame[i], "motion") <=> i \in a + 1 .. a + m
      BY <1>19, <1>20
    <2>3. [i \in 1 .. m |-> EncodeMotion(s.motions[i], Height)] = [i \in 1 .. m |-> frame[a + i]]
      BY <1>7
    <2> HIDE DEF a
    <2> QED BY <1>1, <2>1, <2>2, <2>3, LinesOfBlock
  <1>26. LinesOf(frame, "cooldown") = [i \in 1 .. c |-> EncodeCooldown(s.cooldowns[i], Height)]
    <2> DEFINE a == 2 + p + m
    <2>1. a \in Nat /\ a + 1 .. a + c \subseteq DOMAIN frame
      BY <1>1, <1>21
    <2>2. \A i \in DOMAIN frame : IsNamed(frame[i], "cooldown") <=> i \in a + 1 .. a + c
      BY <1>19, <1>20
    <2>3. [i \in 1 .. c |-> EncodeCooldown(s.cooldowns[i], Height)] = [i \in 1 .. c |-> frame[a + i]]
      BY <1>8
    <2> HIDE DEF a
    <2> QED BY <1>1, <2>1, <2>2, <2>3, LinesOfBlock
  <1> QED BY <1>17, <1>22, <1>23, <1>24, <1>25, <1>26 DEF p, m, c

LEMMA LastOfOne ==
    ASSUME NEW x
    PROVE  LastOf({[i \in 1 .. 1 |-> x]}) = {x}
  <1> DEFINE one == [i \in 1 .. 1 |-> x]
  <1>1. one \in Seq({x}) /\ Len(one) = 1 /\ one[1] = x
    OBVIOUS
  <1> HIDE DEF one
  <1>2. one # << >> /\ Last(one) = x
    BY <1>1 DEF Last
  <1>3. {one} \ {<< >>} = {one}
    BY <1>2
  <1> QED BY <1>2, <1>3 DEF LastOf, one

LEMMA WholeFramesAreRead ==
    ASSUME NEW s, IsSnapshot(s), NEW frame, IsWholeFrame(s, frame)
    PROVE  DecodeState(frame) = {AsShown(s)}
  <1> DEFINE size == [width |-> Width, height |-> Height]
             pieces == Pieces(s)
             motions == RoundedAll(s.motions)
             cooldowns == RoundedAll(s.cooldowns)
  <1>1. /\ IsFullFrame(frame)
        /\ LinesOf(frame, "over") = [i \in 1 .. 1 |-> OverLine(s)]
        /\ LinesOf(frame, "size") = [i \in 1 .. 1 |-> SizeLine(s)]
        /\ LinesOf(frame, "piece") =
              [i \in 1 .. Len(pieces) |-> EncodePiece(pieces[i], Height)]
        /\ LinesOf(frame, "motion") =
              [i \in 1 .. Len(s.motions) |-> EncodeMotion(s.motions[i], Height)]
        /\ LinesOf(frame, "cooldown") =
              [i \in 1 .. Len(s.cooldowns) |-> EncodeCooldown(s.cooldowns[i], Height)]
    BY WholeFrameLines
  <1>2. [i \in DOMAIN frame |-> Tokens(frame[i])] = frame
    BY <1>1, FullTokens DEF IsFullFrame
  <1>3. /\ pieces \in Seq(PieceValue) /\ ToSet(pieces) = s.board.pieces
        /\ CanStand(pieces, Width)
        /\ s.motions \in Seq(MotionValue) /\ s.cooldowns \in Seq(CooldownValue)
        /\ s.board = [width |-> Width, height |-> Height, pieces |-> s.board.pieces]
    BY PiecesInOrderFacts, SnapshotFacts DEF Pieces
  <1> HIDE DEF pieces
  <1>4. /\ DOMAIN pieces = 1 .. Len(pieces)
        /\ DOMAIN s.motions = 1 .. Len(s.motions)
        /\ DOMAIN s.cooldowns = 1 .. Len(s.cooldowns)
        /\ \A i \in DOMAIN pieces : pieces[i] \in PieceValue
        /\ \A i \in DOMAIN s.motions : s.motions[i] \in MotionValue
        /\ \A i \in DOMAIN s.cooldowns : s.cooldowns[i] \in CooldownValue
    <2>1. ASSUME NEW S, NEW q \in Seq(S)
          PROVE  DOMAIN q = 1 .. Len(q) /\ \A i \in DOMAIN q : q[i] \in S
      OBVIOUS
    <2> QED BY <1>3, <2>1
  <1>5. DecodeOvers(frame) = {s.over}
    <2> DEFINE lines == LinesOf(frame, "over")
               decoded == [i \in DOMAIN lines |-> DecodeOver(lines[i])]
               values == [i \in 1 .. 1 |-> s.over]
    <2>1. DecodeOver(OverLine(s)) = {s.over}
      BY OverIsRead
    <2>2. DOMAIN decoded = 1 .. 1 /\ \A i \in DOMAIN decoded : decoded[i] = {values[i]}
      BY <1>1, <2>1
    <2>3. DOMAIN values = 1 .. 1 /\ values = [i \in DOMAIN values |-> values[i]]
      OBVIOUS
    <2>4. DecodeOvers(frame) = LastOf(EveryLine(decoded))
      BY DEF DecodeOvers, OverIn
    <2> HIDE DEF decoded, values
    <2>5. EveryLine(decoded) = {values}
      BY <2>2, <2>3, EveryLineRead
    <2> QED BY <2>4, <2>5, LastOfOne DEF values
  <1>6. DecodeSizes(frame) = {size}
    <2> DEFINE lines == LinesOf(frame, "size")
               decoded == [i \in DOMAIN lines |-> DecodeSize(lines[i])]
               values == [i \in 1 .. 1 |-> size]
    <2>1. DecodeSize(SizeLine(s)) = {size}
      BY SizeIsRead
    <2> HIDE DEF size
    <2>2. DOMAIN decoded = 1 .. 1 /\ \A i \in DOMAIN decoded : decoded[i] = {values[i]}
      BY <1>1, <2>1
    <2>3. DOMAIN values = 1 .. 1 /\ values = [i \in DOMAIN values |-> values[i]]
      OBVIOUS
    <2>4. DecodeSizes(frame) = LastOf(EveryLine(decoded))
      BY DEF DecodeSizes
    <2> HIDE DEF decoded, values
    <2>5. EveryLine(decoded) = {values}
      BY <2>2, <2>3, EveryLineRead
    <2> QED BY <2>4, <2>5, LastOfOne DEF values
  <1>7. size.width = Width /\ size.height = Height
    OBVIOUS
  <1> HIDE DEF size
  <1>8. DecodePieces(frame, size) = {pieces}
    <2> DEFINE lines == LinesOf(frame, "piece")
               decoded == [i \in DOMAIN lines |-> DecodePiece(lines[i], Height)]
    <2>1. DOMAIN lines = DOMAIN pieces
          /\ \A i \in DOMAIN pieces : lines[i] = EncodePiece(pieces[i], Height)
      BY <1>1, <1>4
    <2>2. DecodePieces(frame, size) = {x \in EveryLine(decoded) : CanStand(x, Width)}
      BY <1>7 DEF DecodePieces
    <2> HIDE DEF lines
    <2>3. ASSUME NEW i \in DOMAIN pieces
          PROVE  DecodePiece(lines[i], Height) = {pieces[i]}
      <3>1. pieces[i] \in PieceValue
        BY <1>4
      <3> QED BY <2>1, <3>1, PieceIsRead
    <2>4. DOMAIN decoded = DOMAIN pieces
          /\ \A i \in DOMAIN decoded : decoded[i] = {pieces[i]}
      BY <2>1, <2>3
    <2>5. pieces = [i \in DOMAIN pieces |-> pieces[i]]
      BY <1>3
    <2> HIDE DEF decoded
    <2>6. EveryLine(decoded) = {pieces}
      BY <2>4, <2>5, EveryLineRead
    <2> QED BY <1>3, <2>2, <2>6
  <1>9. DecodeMotions(frame, Height) = {motions}
    <2> DEFINE lines == LinesOf(frame, "motion")
               decoded == [i \in DOMAIN lines |-> DecodeMotion(lines[i], Height)]
    <2>1. DOMAIN lines = DOMAIN s.motions
          /\ \A i \in DOMAIN s.motions : lines[i] = EncodeMotion(s.motions[i], Height)
      BY <1>1, <1>4
    <2>2. DecodeMotions(frame, Height) = EveryLine(decoded)
      BY DEF DecodeMotions
    <2> HIDE DEF lines
    <2>3. ASSUME NEW i \in DOMAIN s.motions
          PROVE  DecodeMotion(lines[i], Height) = {RoundedEntry(s.motions[i])}
      <3>1. s.motions[i] \in MotionValue
        BY <1>4
      <3> QED BY <2>1, <3>1, MotionIsRead
    <2>4. /\ DOMAIN motions = DOMAIN s.motions
          /\ \A i \in DOMAIN motions : motions[i] = RoundedEntry(s.motions[i])
          /\ motions = [i \in DOMAIN motions |-> motions[i]]
      BY DEF RoundedAll
    <2> HIDE DEF motions
    <2>5. DOMAIN decoded = DOMAIN motions
          /\ \A i \in DOMAIN decoded : decoded[i] = {motions[i]}
      BY <2>1, <2>3, <2>4
    <2> HIDE DEF decoded
    <2> QED BY <2>2, <2>4, <2>5, EveryLineRead
  <1>10. DecodeCooldowns(frame, Height) = {cooldowns}
    <2> DEFINE lines == LinesOf(frame, "cooldown")
               decoded == [i \in DOMAIN lines |-> DecodeCooldown(lines[i], Height)]
    <2>1. DOMAIN lines = DOMAIN s.cooldowns
          /\ \A i \in DOMAIN s.cooldowns : lines[i] = EncodeCooldown(s.cooldowns[i], Height)
      BY <1>1, <1>4
    <2>2. DecodeCooldowns(frame, Height) = EveryLine(decoded)
      BY DEF DecodeCooldowns
    <2> HIDE DEF lines
    <2>3. ASSUME NEW i \in DOMAIN s.cooldowns
          PROVE  DecodeCooldown(lines[i], Height) = {RoundedEntry(s.cooldowns[i])}
      <3>1. s.cooldowns[i] \in CooldownValue
        BY <1>4
      <3> QED BY <2>1, <3>1, CooldownIsRead
    <2>4. /\ DOMAIN cooldowns = DOMAIN s.cooldowns
          /\ \A i \in DOMAIN cooldowns : cooldowns[i] = RoundedEntry(s.cooldowns[i])
          /\ cooldowns = [i \in DOMAIN cooldowns |-> cooldowns[i]]
      BY DEF RoundedAll
    <2> HIDE DEF cooldowns
    <2>5. DOMAIN decoded = DOMAIN cooldowns
          /\ \A i \in DOMAIN decoded : decoded[i] = {cooldowns[i]}
      BY <2>1, <2>3, <2>4
    <2> HIDE DEF decoded
    <2> QED BY <2>2, <2>4, <2>5, EveryLineRead
  <1> HIDE DEF motions, cooldowns
  <1>11. DecodeState(frame) =
            {[over |-> s.over,
              board |-> [width |-> Width, height |-> Height, pieces |-> ToSet(pieces)],
              motions |-> motions, cooldowns |-> cooldowns]}
    <2> DEFINE read(over, z) ==
                 {[over |-> over,
                   board |-> [width |-> z.width, height |-> z.height, pieces |-> ToSet(ps)],
                   motions |-> ms, cooldowns |-> cs] :
                     ps \in DecodePieces(frame, z),
                     ms \in DecodeMotions(frame, z.height),
                     cs \in DecodeCooldowns(frame, z.height)}
    <2>1. DecodeState(frame) =
             UNION {read(over, z) : over \in DecodeOvers(frame), z \in DecodeSizes(frame)}
      <3>1. DecodeState(frame) = DecodeTokens(frame)
        BY <1>2 DEF DecodeState
      <3> QED BY <3>1 DEF DecodeTokens
    <2>2. read(s.over, size) =
            {[over |-> s.over,
              board |-> [width |-> Width, height |-> Height, pieces |-> ToSet(pieces)],
              motions |-> motions, cooldowns |-> cooldowns]}
      BY <1>7, <1>8, <1>9, <1>10
    <2> HIDE DEF read
    <2>3. DecodeState(frame) = read(s.over, size)
      BY <1>5, <1>6, <2>1
    <2> QED BY <2>2, <2>3
  <1>12. AsShown(s) = [over |-> s.over,
              board |-> [width |-> Width, height |-> Height, pieces |-> ToSet(pieces)],
              motions |-> motions, cooldowns |-> cooldowns]
    BY <1>3 DEF AsShown, motions, cooldowns
  <1> QED BY <1>11, <1>12

-----------------------------------------------------------------------------
(***************************************************************************)
(* The tag in front of a payload, and where a text is split.               *)
(***************************************************************************)
LEMMA SequenceIsFunction ==
    ASSUME NEW S, NEW q \in Seq(S)
    PROVE  /\ Len(q) \in Nat /\ DOMAIN q = 1 .. Len(q)
           /\ q = [i \in 1 .. Len(q) |-> q[i]]
           /\ \A i \in 1 .. Len(q) : q[i] \in S
           /\ q # << >> <=> Len(q) >= 1
  OBVIOUS

LEMMA TailFacts ==
    ASSUME NEW S, NEW q \in Seq(S), q # << >>
    PROVE  /\ Tail(q) \in Seq(S) /\ Len(Tail(q)) = Len(q) - 1 /\ Head(q) = q[1]
           /\ \A i \in 1 .. Len(q) - 1 : Tail(q)[i] = q[i + 1]
  <1>1. Head(q) = q[1]
    OBVIOUS
  <1> QED BY <1>1, HeadTailProperties

LEMMA PrependFacts ==
    ASSUME NEW S, NEW x \in S, NEW q \in Seq(S)
    PROVE  /\ <<x>> \o q \in Seq(S) /\ Len(<<x>> \o q) = Len(q) + 1
           /\ (<<x>> \o q)[1] = x
           /\ \A k \in 1 .. Len(q) : (<<x>> \o q)[k + 1] = q[k]
           /\ Tail(<<x>> \o q) = q
  <1> DEFINE t == <<x>>
             all == t \o q
  <1>1. t \in Seq(S) /\ Len(t) = 1 /\ t[1] = x /\ Len(q) \in Nat
    OBVIOUS
  <1> HIDE DEF t
  <1>2. /\ all \in Seq(S) /\ Len(all) = Len(t) + Len(q)
        /\ \A i \in 1 .. Len(t) + Len(q) : all[i] =
              IF i <= Len(t) THEN t[i] ELSE q[i - Len(t)]
    BY <1>1, ConcatFacts
  <1> HIDE DEF all
  <1>3. 1 \in 1 .. Len(t) + Len(q) /\ 1 <= Len(t)
    BY <1>1
  <1>4. \A k \in 1 .. Len(q) : /\ k + 1 \in 1 .. Len(t) + Len(q) /\ ~ (k + 1 <= Len(t))
                               /\ (k + 1) - Len(t) = k
    BY <1>1
  <1>5. all[1] = x
    BY <1>1, <1>2, <1>3
  <1>6. \A k \in 1 .. Len(q) : all[k + 1] = q[k]
    BY <1>2, <1>4
  <1>7. Len(all) = Len(q) + 1 /\ all # << >>
    BY <1>1, <1>2
  <1>8. Tail(all) = q
    <2> DEFINE r == Tail(all)
    <2>1. /\ r \in Seq(S) /\ Len(r) = Len(q)
          /\ \A i \in 1 .. Len(q) : r[i] = all[i + 1]
      <3>1. Len(all) - 1 = Len(q)
        BY <1>1, <1>7
      <3> QED BY <1>2, <1>7, <3>1, TailFacts
    <2> HIDE DEF r
    <2>2. r = [i \in 1 .. Len(q) |-> r[i]]
      <3>1. r = [i \in 1 .. Len(r) |-> r[i]]
        BY <2>1, SequenceIsFunction
      <3> QED BY <2>1, <3>1
    <2>3. q = [i \in 1 .. Len(q) |-> q[i]]
      BY SequenceIsFunction
    <2>4. \A i \in 1 .. Len(q) : r[i] = q[i]
      BY <1>6, <2>1
    <2>5. r = q
      BY <2>2, <2>3, <2>4
    <2> QED BY <2>5 DEF r
  <1> QED BY <1>2, <1>5, <1>6, <1>7, <1>8 DEF all, t

\* What follows the tag.
Payload(written) ==
    [i \in 1 .. Len(written) |-> IF i = 1 THEN Tail(written[1]) ELSE written[i]]

LEMMA SplitFacts ==
    ASSUME NEW written \in Seq(Seq(Word)), written # << >>, Len(written[1]) >= 2
    PROVE  Split(written) = [tag |-> written[1][1], payload |-> Payload(written)]
  <1> DEFINE n == Len(written)
             first == written[1]
             rest == Tail(written)
             whole == <<Tail(first)>> \o rest
  <1>1. n \in Nat /\ n >= 1 /\ first \in Seq(Word)
    BY SequenceIsFunction
  <1>2. Tail(first) \in Seq(Word) /\ Head(first) = first[1]
    <2>1. first # << >>
      BY <1>1, LongFacts
    <2> QED BY <1>1, <2>1, TailFacts
  <1>3. /\ rest \in Seq(Seq(Word)) /\ Len(rest) = n - 1
        /\ \A i \in 1 .. n - 1 : rest[i] = written[i + 1]
    BY TailFacts
  <1>4. Split(written) = [tag |-> Head(first), payload |-> whole]
    BY DEF Split
  <1> HIDE DEF n, first, rest
  <1>5. /\ whole \in Seq(Seq(Word)) /\ Len(whole) = Len(rest) + 1
        /\ whole[1] = Tail(first)
        /\ \A k \in 1 .. Len(rest) : whole[k + 1] = rest[k]
    BY <1>2, <1>3, PrependFacts
  <1> HIDE DEF whole
  <1>6. \A i \in 1 .. n : whole[i] = IF i = 1 THEN Tail(first) ELSE written[i]
    <2> TAKE i \in 1 .. n
    <2>1. CASE i = 1
      BY <1>5, <2>1
    <2>2. CASE i # 1
      <3> DEFINE k == i - 1
      <3>1. k \in 1 .. n - 1 /\ k \in 1 .. Len(rest) /\ i = k + 1
        BY <1>1, <1>3, <2>2
      <3> HIDE DEF k
      <3> QED BY <1>3, <1>5, <2>2, <3>1
    <2> QED BY <2>1, <2>2
  <1>7. Len(whole) = n
    BY <1>1, <1>3, <1>5
  <1>8. whole = [i \in 1 .. n |-> whole[i]]
    BY <1>5, <1>7, SequenceIsFunction
  <1>9. whole = [i \in 1 .. n |-> IF i = 1 THEN Tail(first) ELSE written[i]]
    BY <1>6, <1>8
  <1> QED BY <1>2, <1>4, <1>9 DEF Payload, n, first

\* A text is written as it is split.
\* The text that encode makes of a tag and a payload.
Joined(tag, payload) == << <<tag>> \o payload[1] >> \o Tail(payload)

LEMMA EncodeFacts ==
    ASSUME NEW tag \in Word, NEW payload \in Seq(Seq(Word)), payload # << >>
    PROVE  LET written == Joined(tag, payload)
           IN  /\ written \in Seq(Seq(Word)) /\ Len(written) = Len(payload)
               /\ Len(written[1]) = Len(payload[1]) + 1 /\ written[1] \in Seq(Word)
               /\ written[1][1] = tag /\ Tail(written[1]) = payload[1]
               /\ \A k \in 1 .. Len(payload[1]) : written[1][k + 1] = payload[1][k]
               /\ \A i \in 2 .. Len(payload) : written[i] = payload[i]
               /\ Payload(written) = payload
  <1> DEFINE n == Len(payload)
             first == payload[1]
             line == <<tag>> \o first
             rest == Tail(payload)
             written == Joined(tag, payload)
  <1>0. written = <<line>> \o rest
    BY DEF Joined
  <1> HIDE DEF written
  <1>1. n \in Nat /\ n >= 1 /\ first \in Seq(Word)
        /\ payload = [i \in 1 .. n |-> payload[i]]
    BY SequenceIsFunction
  <1>2. /\ rest \in Seq(Seq(Word)) /\ Len(rest) = n - 1
        /\ \A i \in 1 .. n - 1 : rest[i] = payload[i + 1]
    BY TailFacts
  <1> HIDE DEF n, first, rest
  <1>3. /\ line \in Seq(Word) /\ Len(line) = Len(first) + 1
        /\ line[1] = tag /\ Tail(line) = first
        /\ \A k \in 1 .. Len(first) : line[k + 1] = first[k]
    BY <1>1, PrependFacts, SMTT(30)
  <1> HIDE DEF line
  <1>4. /\ written \in Seq(Seq(Word)) /\ Len(written) = Len(rest) + 1
        /\ written[1] = line
        /\ \A k \in 1 .. Len(rest) : written[k + 1] = rest[k]
    <2> DEFINE whole == <<line>> \o rest
    <2>1. /\ whole \in Seq(Seq(Word)) /\ Len(whole) = Len(rest) + 1
          /\ whole[1] = line
          /\ \A k \in 1 .. Len(rest) : whole[k + 1] = rest[k]
      BY <1>2, <1>3, PrependFacts, SMTT(30)
    <2> HIDE DEF whole
    <2>2. written = whole
      BY <1>0 DEF whole
    <2> QED BY <2>1, <2>2
  <1>5. \A i \in 2 .. n : written[i] = payload[i]
    <2> TAKE i \in 2 .. n
    <2> DEFINE k == i - 1
    <2>0. n \in Nat /\ Len(rest) = n - 1
      BY <1>1, <1>2
    <2>1. k \in 1 .. n - 1 /\ k \in 1 .. Len(rest) /\ i = k + 1
      BY <2>0
    <2> HIDE DEF k
    <2> QED BY <1>2, <1>4, <2>1
  <1>6. Len(written) = n
    BY <1>1, <1>2, <1>4
  <1>7. Payload(written) = payload
    <2>1. Payload(written) = [i \in 1 .. n |-> IF i = 1 THEN Tail(line) ELSE written[i]]
      BY <1>4, <1>6 DEF Payload
    <2>2. \A i \in 1 .. n : (IF i = 1 THEN Tail(line) ELSE written[i]) = payload[i]
      <3> TAKE i \in 1 .. n
      <3>1. i = 1 \/ i \in 2 .. n
        BY <1>1
      <3> QED BY <1>3, <1>5, <3>1 DEF first
    <2> QED BY <1>1, <2>1, <2>2
  <1> QED BY <1>3, <1>4, <1>5, <1>6, <1>7 DEF n, first, written

-----------------------------------------------------------------------------
(***************************************************************************)
(* The text of a frame, intact and damaged.                                *)
(***************************************************************************)
FrameText(s) == Encode(Frame(s), Height)

LEMMA StateLinesFacts ==
    ASSUME NEW s, IsSnapshot(s)
    PROVE  /\ EncodeState(s) \in Seq(Seq(Word)) /\ Len(EncodeState(s)) >= 2
           /\ EncodeState(s)[1] = OverLine(s)
           /\ \A i \in DOMAIN EncodeState(s) : IsFrameLine(s, EncodeState(s)[i])
  <1> DEFINE p == Len(Pieces(s))
             m == Len(s.motions)
             c == Len(s.cooldowns)
             e == EncodeState(s)
  <1>1. /\ p \in Nat /\ m \in Nat /\ c \in Nat
        /\ e \in Seq(Seq(Word)) /\ Len(e) = 2 + p + m + c
        /\ e[1] = OverLine(s) /\ e[2] = SizeLine(s)
        /\ \A i \in 1 .. p : e[2 + i] = EncodePiece(Pieces(s)[i], Height)
        /\ \A i \in 1 .. m : e[2 + p + i] = EncodeMotion(s.motions[i], Height)
        /\ \A i \in 1 .. c : e[2 + p + m + i] = EncodeCooldown(s.cooldowns[i], Height)
    BY StateLines
  <1>2. ASSUME NEW i \in 1 .. p
        PROVE  IsFrameLine(s, e[2 + i])
    <2>1. Pieces(s) \in Seq(PieceValue) /\ ToSet(Pieces(s)) = s.board.pieces
      BY PiecesInOrderFacts DEF Pieces
    <2>2. Pieces(s)[i] \in s.board.pieces
      BY <2>1 DEF ToSet
    <2> HIDE DEF e
    <2> QED BY <1>1, <2>2 DEF IsFrameLine
  <1>3. DOMAIN s.motions = 1 .. m /\ DOMAIN s.cooldowns = 1 .. c
    <2>1. s.motions \in Seq(MotionValue) /\ s.cooldowns \in Seq(CooldownValue)
      BY SnapshotFacts
    <2> QED BY <2>1
  <1> HIDE DEF p, m, c, e
  <1>4. /\ \A i \in 1 .. m : IsFrameLine(s, e[2 + p + i])
        /\ \A i \in 1 .. c : IsFrameLine(s, e[2 + p + m + i])
    BY <1>1, <1>3 DEF IsFrameLine
  <1>5. ASSUME NEW i \in 1 .. 2 + p + m + c
        PROVE  IsFrameLine(s, e[i])
    <2>1. CASE i <= 2
      <3>1. i = 1 \/ i = 2
        BY <1>1, <2>1
      <3> QED BY <1>1, <3>1 DEF IsFrameLine
    <2>2. CASE 2 < i /\ i <= 2 + p
      <3>1. i - 2 \in 1 .. p /\ 2 + (i - 2) = i
        BY <1>1, <2>2
      <3> QED BY <1>2, <3>1
    <2>3. CASE 2 + p < i /\ i <= 2 + p + m
      <3>1. i - (2 + p) \in 1 .. m /\ 2 + p + (i - (2 + p)) = i
        BY <1>1, <2>3
      <3> QED BY <1>4, <3>1
    <2>4. CASE 2 + p + m < i
      <3>1. i - (2 + p + m) \in 1 .. c /\ 2 + p + m + (i - (2 + p + m)) = i
        BY <1>1, <2>4
      <3> QED BY <1>4, <3>1
    <2> QED BY <1>1, <2>1, <2>2, <2>3, <2>4
  <1>6. DOMAIN e = 1 .. 2 + p + m + c /\ Len(e) >= 2
    BY <1>1
  <1> QED BY <1>1, <1>5, <1>6 DEF e

LEMMA FrameTextFacts ==
    ASSUME NEW s, IsSnapshot(s)
    PROVE  LET full == FrameText(s)
               lines == EncodeState(s)
           IN  /\ full \in Seq(Seq(Word)) /\ Len(full) = Len(lines) /\ Len(full) >= 2
               /\ full[1] \in Seq(Word) /\ Len(full[1]) = 3
               /\ full[1][1] = "STATE" /\ full[1][2] = "over"
               /\ full[1][3] = EncodeFlag(s.over)
               /\ Payload(full) = lines
               /\ \A i \in 2 .. Len(full) : full[i] = lines[i] /\ IsFrameLine(s, full[i])
  <1> DEFINE lines == EncodeState(s)
             full == FrameText(s)
  <1>1. /\ lines \in Seq(Seq(Word)) /\ Len(lines) >= 2
        /\ lines[1] = OverLine(s)
        /\ \A i \in DOMAIN lines : IsFrameLine(s, lines[i])
    BY StateLinesFacts
  <1>2. full = Joined("STATE", lines)
    <2> DEFINE m == Frame(s)
    <2>1. m.tag = "STATE" /\ m.body = lines
      BY DEF Frame, Message
    <2> HIDE DEF m
    <2>2. EncodePayload(m, Height) = m.body
      <3>1. m.tag \notin RoomName \cup FreeText /\ m.tag \notin TagOnly
        BY <2>1 DEF RoomName, FreeText, TagOnly
      <3> QED BY <2>1, <3>1 DEF EncodePayload
    <2>3. FrameText(s) = Encode(m, Height)
      BY DEF FrameText, m
    <2> QED BY <2>1, <2>2, <2>3 DEF Encode, Joined
  <1> HIDE DEF lines, full
  <1>3. "STATE" \in Word /\ lines # << >>
    BY <1>1, LiteralsAreWords
  <1>4. /\ full \in Seq(Seq(Word)) /\ Len(full) = Len(lines)
        /\ Len(full[1]) = Len(lines[1]) + 1 /\ full[1] \in Seq(Word)
        /\ full[1][1] = "STATE"
        /\ \A k \in 1 .. Len(lines[1]) : full[1][k + 1] = lines[1][k]
        /\ \A i \in 2 .. Len(lines) : full[i] = lines[i]
        /\ Payload(full) = lines
    BY <1>1, <1>2, <1>3, EncodeFacts, SMTT(30)
  <1>5. /\ Len(lines[1]) = 2 /\ lines[1][1] = "over"
        /\ lines[1][2] = EncodeFlag(s.over)
    <2>1. lines[1] = <<"over", EncodeFlag(s.over)>>
      BY <1>1 DEF OverLine
    <2> QED BY <2>1
  <1>6. full[1][1 + 1] = "over" /\ full[1][2 + 1] = EncodeFlag(s.over) /\ Len(full[1]) = 3
    BY <1>4, <1>5
  <1>7. \A i \in 2 .. Len(full) : IsFrameLine(s, full[i])
    <2> TAKE i \in 2 .. Len(full)
    <2>1. i \in DOMAIN lines /\ full[i] = lines[i]
      BY <1>1, <1>4
    <2> QED BY <1>1, <2>1
  <1> QED BY <1>1, <1>4, <1>6, <1>7, SMTT(30) DEF full, lines

\* The line "weather fine" is carried along.
LEMMA GainedLine ==
    ASSUME NEW s, IsSnapshot(s), NEW written, NEW n, n = Len(FrameText(s)),
           written = Append(FrameText(s), <<"weather", "fine">>)
    PROVE  /\ written \in Seq(Seq(Word)) /\ Len(written) >= 2
           /\ Len(written[1]) >= 2 /\ written[1][1] = "STATE"
           /\ IsWholeFrame(s, Payload(written))
  <1> DEFINE full == FrameText(s)
             lines == EncodeState(s)
             extra == <<"weather", "fine">>
             payload == Payload(written)
  <1>1. /\ full \in Seq(Seq(Word)) /\ Len(full) = Len(lines) /\ Len(full) >= 2
        /\ full[1] \in Seq(Word) /\ Len(full[1]) = 3 /\ full[1][1] = "STATE"
        /\ Payload(full) = lines
        /\ \A i \in 2 .. Len(full) : full[i] = lines[i]
    BY FrameTextFacts
  <1>2. extra \in Seq(Word)
    BY WeatherIsUnknown DEF IsFull
  <1> HIDE DEF full, lines, extra
  <1>3. /\ written \in Seq(Seq(Word)) /\ Len(written) = n + 1 /\ n \in Nat /\ n >= 2
        /\ \A i \in 1 .. n : written[i] = full[i]
        /\ written[n + 1] = extra
    <2>1. written = Append(full, extra) /\ n = Len(full)
      BY DEF full, extra
    <2>2. full \in Seq(Seq(Word)) /\ extra \in Seq(Word) /\ n \in Nat /\ n >= 2
      BY <1>1, <1>2, <2>1
    <2>3. /\ Append(full, extra) \in Seq(Seq(Word))
          /\ Len(Append(full, extra)) = Len(full) + 1
          /\ \A i \in 1 .. Len(full) : Append(full, extra)[i] = full[i]
          /\ Append(full, extra)[Len(full) + 1] = extra
      BY <2>2, AppendProperties
    <2> QED BY <2>1, <2>2, <2>3
  <1>4. written[1] = full[1]
    <2>1. 1 \in 1 .. n
      BY <1>3
    <2> QED BY <1>3, <2>1
  <1>5. payload = [i \in 1 .. n + 1 |-> IF i = 1 THEN Tail(full[1]) ELSE written[i]]
    BY <1>3, <1>4 DEF Payload
  <1>6. lines = [i \in 1 .. n |-> IF i = 1 THEN Tail(full[1]) ELSE full[i]]
    BY <1>1 DEF Payload, full
  <1>7. \A i \in 1 .. n : payload[i] = lines[i]
    <2> TAKE i \in 1 .. n
    <2>1. i \in 1 .. n + 1
      BY <1>3
    <2> QED BY <1>3, <1>5, <1>6, <2>1
  <1>8. n + 1 \in 1 .. n + 1 /\ n + 1 # 1
    BY <1>3
  <1>9. payload[n + 1] = extra
    BY <1>3, <1>5, <1>8
  <1>10. payload \in Seq(Seq(Word)) /\ Len(payload) = n + 1
    <2>1. Tail(full[1]) \in Seq(Word)
      <3>1. full[1] # << >>
        BY <1>1, LongFacts
      <3> QED BY <1>1, <3>1, TailFacts
    <2>2. \A i \in 1 .. n + 1 : (IF i = 1 THEN Tail(full[1]) ELSE written[i]) \in Seq(Word)
      BY <1>3, <2>1
    <2> HIDE DEF payload
    <2> QED BY <1>3, <1>5, <2>2
  <1>11. IsWholeFrame(s, payload)
    <2>1. Len(lines) = n
      BY <1>1 DEF full
    <2> QED BY <1>7, <1>9, <1>10, <2>1 DEF IsWholeFrame, lines, extra
  <1>12. Len(written[1]) >= 2 /\ written[1][1] = "STATE"
    <2>1. Len(full[1]) = 3
      BY <1>1
    <2>2. Len(full[1]) >= 2
      BY <2>1
    <2> QED BY <1>1, <1>4, <2>2, Zenon
  <1>13. written \in Seq(Seq(Word)) /\ Len(written) >= 2
    BY <1>3
  <1> QED BY <1>11, <1>12, <1>13

\* The second word of a line would be no keyword in the place of the first.
LEMMA SecondWordIsPlain ==
    ASSUME NEW s, IsSnapshot(s), NEW line, IsFrameLine(s, line)
    PROVE  line[2] \notin Keywords
  <1>1. ASSUME NEW w, IsPlain(w)
        PROVE  w \notin Keywords
    BY <1>1 DEF IsPlain, Keywords
  <1>2. \A flag \in BOOLEAN : EncodeFlag(flag) \notin Keywords
    <2>1. "0" \notin Keywords /\ "1" \notin Keywords
      BY DEF Keywords
    <2> QED BY <2>1 DEF EncodeFlag
  <1>3. \A n \in Numbers : IsPlain(ToString(n))
    BY NumeralsAreRead
  <1>4. \A c \in Cells : IsPlain(SquareName(c, Height))
    BY SquaresAreSpelt
  <1>5. CASE line = OverLine(s)
    <2>1. line[2] = EncodeFlag(s.over)
      BY <1>5 DEF OverLine
    <2> QED BY <1>2, <2>1, SnapshotFacts
  <1>6. CASE line = SizeLine(s)
    <2>1. line[2] = ToString(Width)
      BY <1>6, SnapshotFacts DEF SizeLine
    <2> QED BY <1>1, <1>3, <2>1, SnapshotFacts
  <1>7. CASE \E p \in s.board.pieces : line = EncodePiece(p, Height)
    <2>1. PICK p \in s.board.pieces : line = EncodePiece(p, Height)
      BY <1>7
    <2>2. line[2] = ToString(p.id)
      BY <2>1 DEF EncodePiece
    <2>3. p \in PieceValue
      BY SnapshotFacts
    <2>4. p.id \in Numbers
      BY <2>3 DEF PieceValue
    <2> QED BY <1>1, <1>3, <2>2, <2>4
  <1>8. CASE \E i \in DOMAIN s.motions : line = EncodeMotion(s.motions[i], Height)
    <2>1. PICK i \in DOMAIN s.motions : line = EncodeMotion(s.motions[i], Height)
      BY <1>8
    <2>2. line[2] = SquareName(s.motions[i].from, Height)
      BY <2>1 DEF EncodeMotion
    <2>3. s.motions[i] \in MotionValue
      BY SnapshotFacts
    <2>4. s.motions[i].from \in Cells
      BY <2>3 DEF MotionValue
    <2> QED BY <1>1, <1>4, <2>2, <2>4
  <1>9. CASE \E i \in DOMAIN s.cooldowns : line = EncodeCooldown(s.cooldowns[i], Height)
    <2>1. PICK i \in DOMAIN s.cooldowns : line = EncodeCooldown(s.cooldowns[i], Height)
      BY <1>9
    <2>2. line[2] = SquareName(s.cooldowns[i].cell, Height)
      BY <2>1 DEF EncodeCooldown
    <2>3. s.cooldowns[i] \in CooldownValue
      BY SnapshotFacts
    <2>4. s.cooldowns[i].cell \in Cells
      BY <2>3 DEF CooldownValue
    <2> QED BY <1>1, <1>4, <2>2, <2>4
  <1> QED BY <1>5, <1>6, <1>7, <1>8, <1>9 DEF IsFrameLine

\* A line that has lost a word.
LEMMA ShorterLine ==
    ASSUME NEW line \in Seq(Word), Len(line) >= 2, NEW j \in DOMAIN line
    PROVE  LET rest == RemoveAt(line, j)
           IN  /\ rest \in Seq(Word) /\ Len(rest) = Len(line) - 1 /\ rest # << >>
               /\ Head(rest) = rest[1]
               /\ j = 1 => rest[1] = line[2]
               /\ j # 1 => rest[1] = line[1]
               /\ IsFull(line) => IsFull(rest)
  <1> DEFINE rest == RemoveAt(line, j)
  <1>1. Len(line) \in Nat /\ j \in 1 .. Len(line)
    BY SequenceIsFunction
  <1>2. /\ rest \in Seq(Word) /\ Len(rest) = Len(line) - 1
        /\ \A i \in DOMAIN rest : rest[i] = IF i < j THEN line[i] ELSE line[i + 1]
    BY RemovalFacts
  <1> HIDE DEF rest
  <1>3. DOMAIN rest = 1 .. Len(line) - 1 /\ 1 \in DOMAIN rest
    BY <1>1, <1>2, SequenceIsFunction
  <1>4. rest # << >>
    BY <1>1, <1>2, SequenceIsFunction
  <1>5. Head(rest) = rest[1]
    BY <1>2, <1>4, TailFacts
  <1>6. j = 1 => rest[1] = line[2]
    BY <1>2, <1>3
  <1>7. j # 1 => rest[1] = line[1]
    BY <1>1, <1>2, <1>3
  <1>8. ASSUME IsFull(line)
        PROVE  IsFull(rest)
    <2>1. \A i \in 1 .. Len(line) - 1 : i \in 1 .. Len(line) /\ i + 1 \in 1 .. Len(line)
      BY <1>1
    <2>2. \A i \in 1 .. Len(line) : line[i] # NoWord
      BY <1>1, <1>8, SequenceIsFunction DEF IsFull
    <2>3. \A i \in DOMAIN rest : rest[i] # NoWord
      BY <1>2, <1>3, <2>1, <2>2
    <2> QED BY <1>2, <2>3 DEF IsFull
  <1> QED BY <1>2, <1>4, <1>5, <1>6, <1>7, <1>8 DEF rest

\* A frame with another line in the place of one.
AlteredLines(s, i, line) ==
    [k \in 1 .. Len(EncodeState(s)) |-> IF k = i THEN line ELSE EncodeState(s)[k]]

LEMMA AlteredFrame ==
    ASSUME NEW s, IsSnapshot(s), NEW i \in DOMAIN EncodeState(s), NEW line, IsFull(line)
    PROVE  LET frame == AlteredLines(s, i, line)
           IN  /\ IsFullFrame(frame) /\ i \in DOMAIN frame /\ frame[i] = line
               /\ (\A keyword \in Keywords : ~ IsNamed(line, keyword)) =>
                     OnlyFrameLines(s, frame)
  <1> DEFINE lines == EncodeState(s)
             frame == AlteredLines(s, i, line)
             n == Len(lines)
  <1>1. lines \in Seq(Seq(Word)) /\ \A k \in DOMAIN lines : IsFrameLine(s, lines[k])
    BY StateLinesFacts
  <1>2. n \in Nat /\ DOMAIN lines = 1 .. n
    BY <1>1, SequenceIsFunction
  <1>3. frame = [k \in 1 .. n |-> IF k = i THEN line ELSE lines[k]]
    BY DEF AlteredLines
  <1> HIDE DEF lines, frame, n
  <1>4. \A k \in 1 .. n : IsFull(lines[k])
    BY <1>1, <1>2, FrameLineFacts
  <1>5. \A k \in 1 .. n : IsFull(frame[k]) /\ frame[k] \in Seq(Word)
    BY <1>3, <1>4 DEF IsFull
  <1>6. frame \in Seq(Seq(Word)) /\ DOMAIN frame = 1 .. n
    BY <1>2, <1>3, <1>5
  <1>7. IsFullFrame(frame)
    BY <1>5, <1>6 DEF IsFullFrame
  <1>8. i \in 1 .. n /\ frame[i] = line
    BY <1>2, <1>3 DEF lines
  <1>9. ASSUME \A keyword \in Keywords : ~ IsNamed(line, keyword)
        PROVE  OnlyFrameLines(s, frame)
    <2>1. ASSUME NEW k \in 1 .. n, frame[k] # << >>, Head(frame[k]) \in Keywords
          PROVE  IsFrameLine(s, frame[k])
      <3>1. k # i
        BY <1>8, <1>9, <2>1 DEF IsNamed
      <3>2. frame[k] = lines[k]
        BY <1>3, <3>1
      <3> QED BY <1>1, <1>2, <3>2
    <2> QED BY <1>6, <2>1 DEF OnlyFrameLines
  <1> QED BY <1>6, <1>7, <1>8, <1>9 DEF frame

\* What a changed line makes of the payload.
TextWith(s, i, line) == [FrameText(s) EXCEPT ![i] = line]

LEMMA AlteredText ==
    ASSUME NEW s, IsSnapshot(s), NEW i \in DOMAIN FrameText(s), NEW line \in Seq(Word),
           NEW written, written = TextWith(s, i, line),
           i = 1 => Len(line) >= 2,
           NEW new, i = 1 => new = Tail(line), i # 1 => new = line
    PROVE  /\ written \in Seq(Seq(Word)) /\ written # << >>
           /\ i = 1 => written[1] = line
           /\ i # 1 => written[1] = FrameText(s)[1]
           /\ Len(written[1]) >= 2
           /\ Payload(written) = AlteredLines(s, i, new)
  <1> DEFINE full == FrameText(s)
             lines == EncodeState(s)
             n == Len(full)
  <1>1. /\ full \in Seq(Seq(Word)) /\ n = Len(lines) /\ n >= 2
        /\ Len(full[1]) = 3
        /\ Payload(full) = lines
        /\ \A k \in 2 .. n : full[k] = lines[k]
    BY FrameTextFacts
  <1>2. n \in Nat /\ DOMAIN full = 1 .. n /\ i \in 1 .. n
    BY <1>1, SequenceIsFunction
  <1> HIDE DEF full, lines, n
  <1>3. /\ written \in Seq(Seq(Word)) /\ Len(written) = n
        /\ \A k \in 1 .. n : written[k] = IF k = i THEN line ELSE full[k]
    <2>1. written = [k \in 1 .. n |-> IF k = i THEN line ELSE full[k]]
      BY <1>2 DEF full, TextWith
    <2>2. \A k \in 1 .. n : full[k] \in Seq(Word)
      BY <1>1, <1>2, SequenceIsFunction
    <2>3. \A k \in 1 .. n : written[k] = IF k = i THEN line ELSE full[k]
      BY <2>1
    <2>4. \A k \in 1 .. n : written[k] \in Seq(Word)
      BY <2>2, <2>3
    <2>5. written = [k \in 1 .. n |-> written[k]]
      BY <2>1
    <2>6. written \in [1 .. n -> Seq(Word)]
      BY <2>4, <2>5, Zenon
    <2>7. written \in Seq(Seq(Word)) /\ Len(written) = n
      <3>1. ASSUME NEW q \in [1 .. n -> Seq(Word)]
            PROVE  q \in Seq(Seq(Word)) /\ Len(q) = n
        BY <1>2
      <3> QED BY <2>6, <3>1, Zenon
    <2> QED BY <2>3, <2>7, Zenon
  <1>4. 1 \in 1 .. n
    BY <1>1, <1>2
  <1>5. written[1] = IF i = 1 THEN line ELSE full[1]
    BY <1>3, <1>4
  <1>6. Len(written[1]) >= 2
    <2>1. Len(full[1]) >= 2
      BY <1>1
    <2> QED BY <1>5, <2>1
  <1>7. written # << >>
    BY <1>1, <1>3, SequenceIsFunction
  <1>8. Payload(written) = AlteredLines(s, i, new)
    <2>1. Payload(written) = [k \in 1 .. n |-> IF k = 1 THEN Tail(written[1]) ELSE written[k]]
      BY <1>3 DEF Payload
    <2>2. AlteredLines(s, i, new) = [k \in 1 .. n |-> IF k = i THEN new ELSE lines[k]]
      BY <1>1 DEF AlteredLines, lines
    <2>3. lines[1] = Tail(full[1])
      <3>1. Payload(full) = [k \in 1 .. n |-> IF k = 1 THEN Tail(full[1]) ELSE full[k]]
        BY DEF Payload, n
      <3> QED BY <1>1, <1>4, <3>1
    <2>4. ASSUME NEW k \in 1 .. n
          PROVE  (IF k = 1 THEN Tail(written[1]) ELSE written[k]) = IF k = i THEN new ELSE lines[k]
      <3>1. CASE k = 1
        BY <1>5, <2>3, <3>1
      <3>2. CASE k # 1
        <4>1. full[k] = lines[k]
          BY <1>1, <1>2, <3>2
        <4> QED BY <1>3, <3>2, <4>1
      <3> QED BY <3>1, <3>2
    <2> DEFINE P == Payload(written)
               A == AlteredLines(s, i, new)
    <2>5. /\ P = [k \in 1 .. n |-> P[k]]
          /\ \A k \in 1 .. n : P[k] = IF k = 1 THEN Tail(written[1]) ELSE written[k]
      BY <2>1
    <2>6. /\ A = [k \in 1 .. n |-> A[k]]
          /\ \A k \in 1 .. n : A[k] = IF k = i THEN new ELSE lines[k]
      BY <2>2
    <2> HIDE DEF P, A
    <2>7. \A k \in 1 .. n : P[k] = A[k]
      <3> TAKE k \in 1 .. n
      <3>1. P[k] = IF k = 1 THEN Tail(written[1]) ELSE written[k]
        BY <2>5
      <3>2. A[k] = IF k = i THEN new ELSE lines[k]
        BY <2>6
      <3> QED BY <2>4, <3>1, <3>2, Zenon
    <2>8. P = A
      BY <2>5, <2>6, <2>7
    <2> QED BY <2>8 DEF P, A
  <1> QED BY <1>3, <1>5, <1>6, <1>7, <1>8 DEF full

\* A text that has lost the word j of its line i.
LEMMA LostWord ==
    ASSUME NEW full \in Seq(Seq(Word)), NEW i \in DOMAIN full, NEW j \in DOMAIN full[i]
    PROVE  /\ [full EXCEPT ![i] = RemoveAt(@, j)] = [full EXCEPT ![i] = RemoveAt(full[i], j)]
           /\ full[i] \in Seq(Word)
           /\ RemoveAt(full[i], j) \in Seq(Word)
           /\ Len(RemoveAt(full[i], j)) = Len(full[i]) - 1
  <1>1. full[i] \in Seq(Word)
    BY SequenceIsFunction
  <1>2. RemoveAt(full[i], j) \in Seq(Word) /\ Len(RemoveAt(full[i], j)) = Len(full[i]) - 1
    BY <1>1, RemovalFacts
  <1>3. [full EXCEPT ![i] = RemoveAt(@, j)] = [full EXCEPT ![i] = RemoveAt(full[i], j)]
    OBVIOUS
  <1> QED BY <1>1, <1>2, <1>3

\* What is read of a text: a frame that cannot be, or one that hides.
IsTagged(written) ==
    written \in Seq(Seq(Word)) /\ written # << >> /\ Len(written[1]) >= 2

IsSpoilt(written) ==
    IsTagged(written) /\ written[1][1] = "STATE" /\ DecodeState(Payload(written)) = {}

IsPartial(s, written) ==
    /\ IsTagged(written)
    /\ written[1][1] = "STATE" =>
          IsFullFrame(Payload(written)) /\ OnlyFrameLines(s, Payload(written))

IsIntact(s, written) ==
    IsTagged(written) /\ written[1][1] = "STATE" /\ IsWholeFrame(s, Payload(written))

\* A word is lost from a line after the first.
LEMMA LostBelow ==
    ASSUME NEW s, IsSnapshot(s), NEW i \in DOMAIN FrameText(s), i # 1,
           NEW j \in DOMAIN FrameText(s)[i], NEW written,
           written = TextWith(s, i, RemoveAt(FrameText(s)[i], j))
    PROVE  /\ j # 1 => IsSpoilt(written)
           /\ j = 1 => IsPartial(s, written)
  <1> DEFINE full == FrameText(s)
             line == full[i]
             rest == RemoveAt(line, j)
             frame == Payload(written)
  <1>1. /\ full \in Seq(Seq(Word)) /\ Len(full) = Len(EncodeState(s)) /\ Len(full) >= 2
        /\ full[1][1] = "STATE"
        /\ \A k \in 2 .. Len(full) : full[k] = EncodeState(s)[k] /\ IsFrameLine(s, full[k])
    BY FrameTextFacts
  <1>2. Len(full) \in Nat /\ DOMAIN full = 1 .. Len(full) /\ i \in 2 .. Len(full)
    <2>1. Len(full) \in Nat /\ DOMAIN full = 1 .. Len(full)
      BY <1>1, SequenceIsFunction
    <2> QED BY <2>1
  <1>3. i \in DOMAIN EncodeState(s)
    <2>1. EncodeState(s) \in Seq(Seq(Word))
      BY StateLinesFacts
    <2>2. DOMAIN EncodeState(s) = 1 .. Len(EncodeState(s))
      BY <2>1, SequenceIsFunction
    <2> QED BY <1>1, <1>2, <2>2
  <1>4. IsFrameLine(s, line)
    BY <1>1, <1>2
  <1>5. j \in DOMAIN line
    OBVIOUS
  <1> HIDE DEF full, line
  <1>6. /\ IsFull(line) /\ line \in Seq(Word) /\ Len(line) >= 2 /\ line # << >>
        /\ Head(line) \in Keywords /\ Len(line) = FieldCount(Head(line))
    BY <1>4, FrameLineFacts DEF IsFull
  <1>7. /\ rest \in Seq(Word) /\ Len(rest) = Len(line) - 1 /\ rest # << >>
        /\ Head(rest) = rest[1]
        /\ j = 1 => rest[1] = line[2]
        /\ j # 1 => rest[1] = line[1]
        /\ IsFull(rest)
    BY <1>5, <1>6, ShorterLine
  <1> HIDE DEF rest
  <1>8. written = TextWith(s, i, rest)
    BY DEF rest, line, full
  <1>9. /\ written \in Seq(Seq(Word)) /\ written # << >>
        /\ written[1] = full[1]
        /\ Len(written[1]) >= 2
        /\ frame = AlteredLines(s, i, rest)
    <2>1. i \in DOMAIN FrameText(s) /\ i # 1
      BY <1>2 DEF full
    <2>2. /\ written \in Seq(Seq(Word)) /\ written # << >>
          /\ written[1] = FrameText(s)[1]
          /\ Len(written[1]) >= 2
          /\ Payload(written) = AlteredLines(s, i, rest)
      BY <1>7, <1>8, <2>1, AlteredText
    <2> QED BY <2>1, <2>2 DEF full
  <1>10. IsTagged(written) /\ written[1][1] = "STATE"
    BY <1>1, <1>9 DEF IsTagged
  <1>11. /\ IsFullFrame(frame) /\ i \in DOMAIN frame /\ frame[i] = rest
         /\ (\A keyword \in Keywords : ~ IsNamed(rest, keyword)) => OnlyFrameLines(s, frame)
    BY <1>3, <1>7, <1>9, AlteredFrame
  <1> HIDE DEF frame
  <1>12. ASSUME j # 1
         PROVE  IsSpoilt(written)
    <2> DEFINE keyword == Head(line)
    <2>1. Head(line) = line[1]
      BY <1>6, TailFacts
    <2>2. IsNamed(rest, keyword)
      BY <1>7, <1>12, <2>1 DEF IsNamed
    <2>3. Len(line) \in Nat
      BY <1>6, SequenceIsFunction
    <2>4. Len(rest) # FieldCount(keyword)
      BY <1>6, <1>7, <2>3
    <2> HIDE DEF keyword
    <2>5. keyword \in Keywords
      BY <1>6 DEF keyword
    <2>6. DecodeState(frame) = {}
      BY <1>11, <2>2, <2>4, <2>5, BadLineSpoils
    <2> QED BY <1>10, <2>6 DEF IsSpoilt, frame
  <1>13. ASSUME j = 1
         PROVE  IsPartial(s, written)
    <2>1. line[2] \notin Keywords
      BY <1>4, SecondWordIsPlain
    <2>2. Head(rest) \notin Keywords
      BY <1>7, <1>13, <2>1
    <2>3. \A keyword \in Keywords : ~ IsNamed(rest, keyword)
      BY <2>2 DEF IsNamed
    <2> QED BY <1>10, <1>11, <2>3 DEF IsPartial, frame
  <1> QED BY <1>12, <1>13

\* A word is lost from the first line, where the tag stands.
LEMMA LostAbove ==
    ASSUME NEW s, IsSnapshot(s), NEW j \in DOMAIN FrameText(s)[1], NEW written,
           written = TextWith(s, 1, RemoveAt(FrameText(s)[1], j))
    PROVE  /\ j > 2 => IsSpoilt(written)
           /\ j <= 2 => IsPartial(s, written)
  <1> DEFINE full == FrameText(s)
             line == full[1]
             rest == RemoveAt(line, j)
             frame == Payload(written)
             flag == EncodeFlag(s.over)
  <1>1. /\ full \in Seq(Seq(Word)) /\ Len(full) = Len(EncodeState(s)) /\ Len(full) >= 2
        /\ line \in Seq(Word) /\ Len(line) = 3
        /\ line[1] = "STATE" /\ line[2] = "over" /\ line[3] = flag
    BY FrameTextFacts
  <1>2. 1 \in DOMAIN full
    <2>1. Len(full) \in Nat /\ DOMAIN full = 1 .. Len(full)
      BY <1>1, SequenceIsFunction
    <2> QED BY <1>1, <2>1
  <1>3. 1 \in DOMAIN EncodeState(s)
    <2>1. EncodeState(s) \in Seq(Seq(Word)) /\ Len(EncodeState(s)) >= 2
      BY StateLinesFacts
    <2>2. Len(EncodeState(s)) \in Nat /\ DOMAIN EncodeState(s) = 1 .. Len(EncodeState(s))
      BY <2>1, SequenceIsFunction
    <2> QED BY <2>1, <2>2
  <1>4. flag \in Word /\ flag # NoWord /\ flag \notin Keywords
    <2>1. s.over \in BOOLEAN
      BY SnapshotFacts
    <2>2. flag \in Word /\ flag # NoWord
      BY <2>1, WordsAreWords, LiteralsArePresent
    <2>3. OverLine(s)[2] \notin Keywords
      BY SecondWordIsPlain DEF IsFrameLine
    <2>4. OverLine(s)[2] = flag
      BY DEF OverLine
    <2> QED BY <2>2, <2>3, <2>4
  <1>5. "over" \in Word /\ "over" # NoWord /\ "over" \in Keywords /\ "over" # "STATE"
    <2>1. "over" \in Word
      BY WordsAreWords
    <2>2. "over" # NoWord
      BY LiteralsArePresent
    <2>3. "over" \in Keywords /\ "over" # "STATE"
      BY DEF Keywords
    <2> QED BY <2>1, <2>2, <2>3
  <1>6. j \in DOMAIN line
    OBVIOUS
  <1> HIDE DEF full, line, flag
  <1>7. j \in {1, 2, 3}
    <2>1. DOMAIN line = 1 .. 3
      BY <1>1, SequenceIsFunction
    <2> QED BY <1>6, <2>1
  <1>8. /\ rest \in Seq(Word) /\ Len(rest) = 2 /\ rest # << >>
        /\ \A k \in DOMAIN rest : rest[k] = IF k < j THEN line[k] ELSE line[k + 1]
    <2>1. /\ rest \in Seq(Word) /\ Len(rest) = Len(line) - 1
          /\ \A k \in DOMAIN rest : rest[k] = IF k < j THEN line[k] ELSE line[k + 1]
      BY <1>1, <1>6, RemovalFacts
    <2> HIDE DEF rest
    <2>2. Len(rest) = 2 /\ Len(rest) >= 2
      BY <1>1, <2>1
    <2>3. rest # << >>
      BY <2>1, <2>2, LongFacts
    <2> QED BY <2>1, <2>2, <2>3
  <1>9. written = TextWith(s, 1, rest)
    BY DEF rest, line, full
  <1> HIDE DEF rest
  <1>10. DOMAIN rest = {1, 2}
    <2>1. DOMAIN rest = 1 .. 2
      BY <1>8, SequenceIsFunction
    <2> QED BY <2>1
  <1>11. /\ rest[1] = (IF j = 1 THEN "over" ELSE "STATE")
         /\ rest[2] = (IF j = 3 THEN "over" ELSE flag)
    <2>1. rest[1] = (IF 1 < j THEN line[1] ELSE line[1 + 1])
      BY <1>8, <1>10
    <2>2. rest[2] = (IF 2 < j THEN line[2] ELSE line[2 + 1])
      BY <1>8, <1>10
    <2>3. 1 + 1 = 2 /\ 2 + 1 = 3
      OBVIOUS
    <2>4. CASE j = 1
      BY <1>1, <2>1, <2>2, <2>3, <2>4
    <2>5. CASE j = 2
      BY <1>1, <2>1, <2>2, <2>3, <2>5
    <2>6. CASE j = 3
      BY <1>1, <2>1, <2>2, <2>3, <2>6
    <2> QED BY <1>7, <2>4, <2>5, <2>6
  <1> DEFINE first == Tail(rest)
  <1>12. first \in Seq(Word) /\ Len(first) = 1 /\ first[1] = rest[2] /\ first # << >>
         /\ Head(first) = first[1] /\ DOMAIN first = {1}
    <2>1. /\ first \in Seq(Word) /\ Len(first) = 1
          /\ \A k \in 1 .. Len(rest) - 1 : first[k] = rest[k + 1]
      <3>1. /\ first \in Seq(Word) /\ Len(first) = Len(rest) - 1
            /\ \A k \in 1 .. Len(rest) - 1 : first[k] = rest[k + 1]
        BY <1>8, TailFacts
      <3> HIDE DEF first
      <3> QED BY <1>8, <3>1
    <2> HIDE DEF first
    <2>2. first # << >> /\ DOMAIN first = 1 .. 1
      BY <2>1, SequenceIsFunction
    <2>3. first[1] = rest[2]
      BY <1>8, <2>1
    <2>4. Head(first) = first[1]
      BY <2>1, <2>2, TailFacts
    <2>5. DOMAIN first = {1}
      BY <2>2
    <2> QED BY <2>1, <2>2, <2>3, <2>4, <2>5
  <1>13. /\ written \in Seq(Seq(Word)) /\ written # << >>
         /\ written[1] = rest
         /\ Len(written[1]) >= 2
         /\ frame = AlteredLines(s, 1, first)
    <2>1. Len(rest) >= 2
      BY <1>8
    <2> HIDE DEF first, frame
    <2>2. /\ written \in Seq(Seq(Word)) /\ written # << >>
          /\ written[1] = rest
          /\ Len(written[1]) >= 2
          /\ Payload(written) = AlteredLines(s, 1, first)
      <3>1. first = Tail(rest)
        BY DEF first
      <3>2. 1 \in DOMAIN FrameText(s)
        BY <1>2 DEF full
      <3>3. ASSUME NEW i, i = 1
            PROVE  /\ written \in Seq(Seq(Word)) /\ written # << >>
                   /\ written[1] = rest
                   /\ Len(written[1]) >= 2
                   /\ Payload(written) = AlteredLines(s, i, first)
        <4>1. i \in DOMAIN FrameText(s) /\ written = TextWith(s, i, rest)
          BY <1>9, <3>2, <3>3
        <4>2. rest \in Seq(Word)
          BY <1>8
        <4>3. (i = 1 => Len(rest) >= 2) /\ (i = 1 => first = Tail(rest))
              /\ (i # 1 => first = rest)
          BY <2>1, <3>1, <3>3
        <4>4. /\ written \in Seq(Seq(Word)) /\ written # << >>
              /\ i = 1 => written[1] = rest
              /\ i # 1 => written[1] = FrameText(s)[1]
              /\ Len(written[1]) >= 2
              /\ Payload(written) = AlteredLines(s, i, first)
          BY <4>1, <4>2, <4>3, AlteredText
        <4> QED BY <3>3, <4>4
      <3> QED BY <3>3
    <2> QED BY <2>2 DEF frame
  <1> HIDE DEF first
  <1>14. IsFull(first)
    <2>1. first[1] # NoWord
      <3>1. CASE j = 3
        BY <1>5, <1>11, <1>12, <3>1
      <3>2. CASE j # 3
        BY <1>4, <1>11, <1>12, <3>2
      <3> QED BY <3>1, <3>2
    <2> QED BY <1>12, <2>1 DEF IsFull
  <1>15. /\ IsFullFrame(frame) /\ 1 \in DOMAIN frame /\ frame[1] = first
         /\ (\A keyword \in Keywords : ~ IsNamed(first, keyword)) => OnlyFrameLines(s, frame)
    BY <1>3, <1>13, <1>14, AlteredFrame
  <1>16. IsTagged(written)
    BY <1>13 DEF IsTagged
  <1> HIDE DEF frame
  <1>17. CASE j = 1
    <2>1. written[1][1] # "STATE"
      BY <1>5, <1>11, <1>13, <1>17
    <2>2. IsPartial(s, written)
      BY <1>16, <2>1 DEF IsPartial
    <2> QED BY <1>17, <2>2
  <1>18. CASE j = 2
    <2>1. Head(first) \notin Keywords
      BY <1>4, <1>11, <1>12, <1>18
    <2>2. \A keyword \in Keywords : ~ IsNamed(first, keyword)
      BY <2>1 DEF IsNamed
    <2>3. IsPartial(s, written)
      BY <1>15, <1>16, <2>2 DEF IsPartial, frame
    <2> QED BY <1>18, <2>3
  <1>19. CASE j = 3
    <2>1. IsNamed(first, "over")
      BY <1>11, <1>12, <1>19 DEF IsNamed
    <2>2. Len(first) # FieldCount("over")
      BY <1>12, KeywordsDiffer
    <2>3. DecodeState(frame) = {}
      BY <1>5, <1>15, <2>1, <2>2, BadLineSpoils
    <2>4. written[1][1] = "STATE"
      BY <1>11, <1>13, <1>19
    <2>5. IsSpoilt(written)
      BY <1>16, <2>3, <2>4 DEF IsSpoilt, frame
    <2> QED BY <1>19, <2>5
  <1> QED BY <1>7, <1>17, <1>18, <1>19

\* A frame that has lost a line.
LEMMA LostLine ==
    ASSUME NEW s, IsSnapshot(s), NEW i \in DOMAIN FrameText(s), NEW written,
           written = RemoveAt(FrameText(s), i)
    PROVE  IsPartial(s, written)
  <1> DEFINE full == FrameText(s)
             lines == EncodeState(s)
             n == Len(full)
             frame == Payload(written)
  <1>1. /\ full \in Seq(Seq(Word)) /\ n = Len(lines) /\ n >= 2
        /\ full[1] \in Seq(Word) /\ Len(full[1]) = 3
        /\ Payload(full) = lines
        /\ \A k \in 2 .. n : full[k] = lines[k] /\ IsFrameLine(s, full[k])
    BY FrameTextFacts
  <1>2. IsFrameLine(s, lines[1])
    <2>1. lines[1] = OverLine(s)
      BY StateLinesFacts
    <2> QED BY <2>1 DEF IsFrameLine
  <1>3. n \in Nat /\ DOMAIN full = 1 .. n /\ i \in 1 .. n
    <2>1. n \in Nat /\ DOMAIN full = 1 .. n
      BY <1>1, SequenceIsFunction
    <2> QED BY <2>1
  <1> HIDE DEF full, lines, n
  <1>4. /\ written \in Seq(Seq(Word)) /\ Len(written) = n - 1
        /\ \A k \in DOMAIN written : written[k] = IF k < i THEN full[k] ELSE full[k + 1]
    <2>1. i \in DOMAIN full
      BY <1>3
    <2>2. /\ RemoveAt(full, i) \in Seq(Seq(Word)) /\ Len(RemoveAt(full, i)) = n - 1
          /\ \A k \in DOMAIN RemoveAt(full, i) :
                RemoveAt(full, i)[k] = IF k < i THEN full[k] ELSE full[k + 1]
      BY <1>1, <2>1, RemovalFacts DEF n
    <2>3. written = RemoveAt(full, i)
      BY DEF full
    <2> QED BY <2>2, <2>3
  <1>5. DOMAIN written = 1 .. n - 1 /\ 1 \in DOMAIN written /\ written # << >>
    BY <1>1, <1>3, <1>4, SequenceIsFunction
  <1>6. ASSUME NEW k \in 2 .. n
        PROVE  IsFull(full[k]) /\ Len(full[k]) >= 2 /\ Head(full[k]) = full[k][1]
               /\ Head(full[k]) \in Keywords
    <2>1. IsFrameLine(s, full[k])
      BY <1>1
    <2>2. IsFull(full[k]) /\ Len(full[k]) >= 2 /\ full[k] # << >> /\ Head(full[k]) \in Keywords
      BY <2>1, FrameLineFacts
    <2>3. Head(full[k]) = full[k][1]
      BY <2>2, TailFacts DEF IsFull
    <2> QED BY <2>2, <2>3
  <1>7. CASE i = 1
    <2>1. 2 \in 2 .. n /\ ~ (1 < i) /\ 1 + 1 = 2
      BY <1>1, <1>3, <1>7
    <2>2. written[1] = full[2]
      BY <1>4, <1>5, <2>1
    <2>3. Len(full[2]) >= 2 /\ full[2][1] \in Keywords
      BY <1>6, <2>1
    <2>4. written[1][1] # "STATE"
      <3>1. "STATE" \notin Keywords
        BY DEF Keywords
      <3> QED BY <2>2, <2>3, <3>1
    <2> QED BY <1>4, <1>5, <2>2, <2>3, <2>4 DEF IsPartial, IsTagged
  <1>8. CASE i # 1
    <2>1. written[1] = full[1]
      <3>1. 1 < i
        BY <1>3, <1>8
      <3> QED BY <1>4, <1>5, <3>1
    <2>2. IsTagged(written)
      <3>1. Len(full[1]) >= 2
        BY <1>1
      <3> QED BY <1>4, <1>5, <2>1, <3>1 DEF IsTagged
    <2>3. lines[1] = Tail(full[1])
      <3>1. Payload(full) = [k \in 1 .. n |-> IF k = 1 THEN Tail(full[1]) ELSE full[k]]
        BY DEF Payload, n
      <3>2. 1 \in 1 .. n
        BY <1>1, <1>3
      <3>3. Payload(full)[1] = Tail(full[1])
        BY <3>1, <3>2
      <3> QED BY <1>1, <3>3
    <2>4. frame = [k \in 1 .. n - 1 |-> IF k = 1 THEN Tail(written[1]) ELSE written[k]]
      BY <1>4 DEF Payload
    <2>5. frame = [k \in 1 .. n - 1 |-> frame[k]] /\ DOMAIN frame = 1 .. n - 1
      BY <2>4
    <2>6. ASSUME NEW k \in 1 .. n - 1
          PROVE  IsFrameLine(s, frame[k]) /\ IsFull(frame[k])
      <3>1. frame[k] = IF k = 1 THEN Tail(written[1]) ELSE written[k]
        BY <2>4
      <3> HIDE DEF frame
      <3>2. IsFrameLine(s, frame[k])
        <4>1. CASE k = 1
          BY <1>2, <2>1, <2>3, <3>1, <4>1
        <4>2. CASE k # 1
          <5>1. k \in 2 .. n /\ k + 1 \in 2 .. n
            BY <1>3, <4>2
          <5>2. written[k] = IF k < i THEN full[k] ELSE full[k + 1]
            BY <1>4, <1>5
          <5> QED BY <1>1, <3>1, <4>2, <5>1, <5>2
        <4> QED BY <4>1, <4>2
      <3> QED BY <3>2, FrameLineFacts
    <2> HIDE DEF frame
    <2>7. IsFullFrame(frame)
      <3>1. \A k \in 1 .. n - 1 : frame[k] \in Seq(Word)
        BY <2>6 DEF IsFull
      <3>2. frame \in Seq(Seq(Word))
        <4>1. n - 1 \in Nat
          BY <1>1, <1>3
        <4> QED BY <2>5, <3>1, <4>1
      <3> QED BY <2>5, <2>6, <3>2 DEF IsFullFrame
    <2>8. OnlyFrameLines(s, frame)
      BY <2>5, <2>6 DEF OnlyFrameLines
    <2> QED BY <2>2, <2>7, <2>8 DEF IsPartial, frame
  <1> QED BY <1>7, <1>8

-----------------------------------------------------------------------------
(***************************************************************************)
(* What the replica makes of a text.                                       *)
(***************************************************************************)
LEMMA FrameIsReceived ==
    ASSUME NEW written, IsTagged(written), written[1][1] = "STATE"
    PROVE  Decode(written, Height) = {Message("STATE", Payload(written))}
  <1>1. Split(written) = [tag |-> "STATE", payload |-> Payload(written)]
    BY SplitFacts DEF IsTagged
  <1>2. DecodePayload("STATE", Payload(written), Height) = {Payload(written)}
    <2>1. "STATE" \notin RoomName \cup FreeText /\ "STATE" \notin TagOnly
      BY DEF RoomName, FreeText, TagOnly
    <2>2. ASSUME NEW tag, tag = "STATE"
          PROVE  DecodePayload(tag, Payload(written), Height) = {Payload(written)}
      <3>1. /\ tag # "CMD" /\ tag # "ROLE" /\ tag # "MOVE" /\ tag # "CAPTURE"
            /\ tag # "LOGIN" /\ tag # "ROSTER" /\ tag # "OPPGONE"
            /\ tag \notin FreeText /\ tag \notin RoomName /\ tag \notin TagOnly
        BY <2>1, <2>2
      <3> QED BY <2>2, <3>1 DEF DecodePayload
    <2> QED BY <2>2
  <1> DEFINE parts == Split(written)
  <1>3. parts.tag = "STATE" /\ parts.payload = Payload(written)
    BY <1>1
  <1>4. Decode(written, Height) =
          {Message(parts.tag, body) :
             body \in DecodePayload(parts.tag, parts.payload, Height)}
    BY DEF Decode
  <1> HIDE DEF parts
  <1>5. DecodePayload(parts.tag, parts.payload, Height) = {Payload(written)}
    BY <1>2, <1>3, Zenon
  <1>6. Decode(written, Height) = {Message("STATE", body) : body \in {Payload(written)}}
    BY <1>3, <1>4, <1>5
  <1> QED BY <1>6

LEMMA OthersAreReceived ==
    ASSUME NEW written, IsTagged(written), written[1][1] # "STATE",
           NEW m \in Decode(written, Height)
    PROVE  m.tag # "STATE"
  <1>1. Split(written) = [tag |-> written[1][1], payload |-> Payload(written)]
    BY SplitFacts DEF IsTagged
  <1> QED BY <1>1 DEF Decode, Message

\* Receiving a text, from a state to the next.
LEMMA ReplicaAfter ==
    ASSUME Receive, IsTagged(text)
    PROVE  /\ text[1][1] = "STATE" => shown' = Replaced(shown, Payload(text))
           /\ text[1][1] # "STATE" => shown' = shown
  <1>1. /\ got' = Decode(text, Height)
        /\ shown' = IF \E m \in got' : m.tag = "STATE"
                    THEN Replaced(shown, (CHOOSE m \in got' : TRUE).body)
                    ELSE shown
    BY DEF Receive
  <1>2. ASSUME text[1][1] = "STATE"
        PROVE  shown' = Replaced(shown, Payload(text))
    <2> DEFINE frame == Payload(text)
    <2>1. got' = {Message("STATE", frame)}
      BY <1>1, <1>2, FrameIsReceived
    <2> HIDE DEF frame
    <2>2. (CHOOSE m \in got' : TRUE) = Message("STATE", frame)
      BY <2>1
    <2>3. Message("STATE", frame).tag = "STATE" /\ Message("STATE", frame).body = frame
      BY DEF Message
    <2>4. \E m \in got' : m.tag = "STATE"
      BY <2>1, <2>3
    <2>5. (CHOOSE m \in got' : TRUE).body = frame
      BY <2>2, <2>3
    <2>6. shown' = Replaced(shown, (CHOOSE m \in got' : TRUE).body)
      BY <1>1, <2>4, Zenon
    <2>7. shown' = Replaced(shown, frame)
      BY <2>5, <2>6, Zenon
    <2> QED BY <2>7 DEF frame
  <1>3. ASSUME text[1][1] # "STATE"
        PROVE  shown' = shown
    <2>1. \A m \in got' : m.tag # "STATE"
      BY <1>1, <1>3, OthersAreReceived
    <2> QED BY <1>1, <2>1
  <1> QED BY <1>2, <1>3

-----------------------------------------------------------------------------
(***************************************************************************)
(* What is on its way, whatever has happened to it.                        *)
(***************************************************************************)
FileText(s) == << <<"Board:">> >> \o PrintBoard(s.board) \o << <<"Commands:">> >>

LacksWord(written, altered) ==
    \E i \in DOMAIN written : \E j \in DOMAIN written[i] :
        altered = [written EXCEPT ![i] = RemoveAt(@, j)]

FrameCarried ==
    LET s == sent.body
    IN  /\ IsSnapshot(s)
        /\ damage \in {"none", "gain", "word", "keyword", "line"}
        /\ text # << >> =>
              /\ damage = "none" => text = FrameText(s)
              /\ damage = "gain" => IsIntact(s, text)
              /\ damage = "word" => IsSpoilt(text)
              /\ damage \in {"keyword", "line"} => IsPartial(s, text)

MessageCarried ==
    /\ \E i \in DOMAIN Messages : sent.body = Messages[i]
    /\ text # << >> /\ damage = "none" => text = Encode(sent.body, Height)

FileCarried ==
    LET s == sent.body
    IN  /\ IsSnapshot(s)
        /\ damage \in {"none", "word", "keyword", "line"}
        /\ text # << >> =>
              /\ damage = "none" => text = FileText(s)
              /\ damage \in {"word", "keyword"} => LacksWord(FileText(s), text)

(***************************************************************************)
(* The inductive invariant: a text is what was written, altered once in    *)
(* the way that damage says.  The three parts are for the three forms.     *)
(***************************************************************************)
TextInv ==
    /\ sent.form = "frame" => FrameCarried
    /\ sent.form = "message" => MessageCarried
    /\ sent.form = "file" => FileCarried

LEMMA FormsDiffer ==
    /\ "frame" # "message" /\ "frame" # "file" /\ "message" # "file"
    /\ "nothing" # "frame" /\ "nothing" # "message" /\ "nothing" # "file"
    /\ "none" # "gain" /\ "none" # "word" /\ "none" # "keyword" /\ "none" # "line"
    /\ "gain" # "word" /\ "gain" # "keyword" /\ "gain" # "line"
    /\ "word" # "keyword" /\ "word" # "line" /\ "keyword" # "line"
  OBVIOUS

LEMMA WrittenIsCarried ==
    ASSUME NEW form \in {"message", "frame", "file"}, NEW body, NEW written,
           Write(form, body, written),
           form = "message" => /\ \E i \in DOMAIN Messages : body = Messages[i]
                               /\ written = Encode(body, Height),
           form = "frame" => IsSnapshot(body) /\ written = FrameText(body),
           form = "file" => IsSnapshot(body) /\ written = FileText(body)
    PROVE  TextInv'
  <1>1. /\ sent' = [form |-> form, body |-> body] /\ text' = written /\ damage' = "none"
    BY DEF Write
  <1>2. sent'.form = form /\ sent'.body = body
    BY <1>1
  <1>3. ASSUME form = "frame"
        PROVE  FrameCarried'
    BY <1>1, <1>2, <1>3, FormsDiffer DEF FrameCarried
  <1>4. ASSUME form = "message"
        PROVE  MessageCarried'
    BY <1>1, <1>2, <1>4, FormsDiffer DEF MessageCarried
  <1>5. ASSUME form = "file"
        PROVE  FileCarried'
    BY <1>1, <1>2, <1>5, FormsDiffer DEF FileCarried
  <1> QED BY <1>2, <1>3, <1>4, <1>5 DEF TextInv

\* What is altered of a message or a file.
LEMMA OthersAltered ==
    ASSUME TextInv, NEW altered, NEW how, Alter(altered, how),
           how \in {"gain", "word", "keyword", "line"},
           sent.form = "frame" => FrameCarried',
           how = "gain" => sent.form = "frame",
           how \in {"word", "keyword"} => LacksWord(text, altered),
           text # << >>
    PROVE  TextInv'
  <1>1. damage = "none" /\ text' = altered /\ damage' = how /\ sent' = sent
    BY DEF Alter
  <1>2. how # "none"
    BY FormsDiffer
  <1>3. ASSUME sent.form = "message"
        PROVE  MessageCarried'
    BY <1>1, <1>2, <1>3 DEF MessageCarried, TextInv
  <1>4. ASSUME sent.form = "file"
        PROVE  FileCarried'
    <2>1. IsSnapshot(sent.body) /\ text = FileText(sent.body)
      BY <1>1, <1>4 DEF TextInv, FileCarried
    <2>2. how \in {"word", "keyword"} => LacksWord(FileText(sent.body), altered)
      BY <2>1
    <2>3. how \in {"none", "word", "keyword", "line"}
      BY <1>4, FormsDiffer
    <2> QED BY <1>1, <1>2, <2>1, <2>2, <2>3 DEF FileCarried
  <1> QED BY <1>1, <1>3, <1>4 DEF TextInv

LEMMA LoseWordFrame ==
    ASSUME TextInv, sent.form = "frame", NEW i \in DOMAIN text, NEW j \in DOMAIN text[i],
           LoseWord(i, j), text # << >>
    PROVE  FrameCarried'
  <1> DEFINE s == sent.body
             how == IF IsKeyword(i, j) THEN "keyword" ELSE "word"
  <1>1. /\ damage = "none" /\ text' = [text EXCEPT ![i] = RemoveAt(@, j)]
        /\ damage' = how /\ sent' = sent
    BY DEF LoseWord, Alter
  <1>2. IsSnapshot(s) /\ text = FrameText(s)
    BY <1>1 DEF TextInv, FrameCarried
  <1>3. FrameText(s) \in Seq(Seq(Word))
    BY <1>2, FrameTextFacts
  <1>4. text' = TextWith(s, i, RemoveAt(FrameText(s)[i], j))
    <2>1. text' = [FrameText(s) EXCEPT ![i] = RemoveAt(FrameText(s)[i], j)]
      BY <1>1, <1>2, <1>3, LostWord
    <2> QED BY <2>1 DEF TextWith
  <1>5. i \in DOMAIN FrameText(s) /\ j \in DOMAIN FrameText(s)[i]
    BY <1>2
  <1>6. i \in Nat /\ j \in Nat \ {0}
    <2>1. FrameText(s)[i] \in Seq(Word)
      BY <1>3, <1>5, SequenceIsFunction
    <2> QED BY <1>3, <1>5, <2>1, SequenceIsFunction
  <1> HIDE DEF s
  <1>7. /\ IsKeyword(i, j) => IsPartial(s, text')
        /\ ~ IsKeyword(i, j) => IsSpoilt(text')
    <2>1. CASE i # 1
      <3>1. (j # 1 => IsSpoilt(text')) /\ (j = 1 => IsPartial(s, text'))
        BY <1>2, <1>4, <1>5, <2>1, LostBelow
      <3> QED BY <2>1, <3>1 DEF IsKeyword
    <2>2. CASE i = 1
      <3>1. (j > 2 => IsSpoilt(text')) /\ (j <= 2 => IsPartial(s, text'))
        <4>1. /\ IsSnapshot(s) /\ j \in DOMAIN FrameText(s)[1]
              /\ text' = TextWith(s, 1, RemoveAt(FrameText(s)[1], j))
          BY <1>2, <1>4, <1>5, <2>2
        <4> QED BY <4>1, LostAbove
      <3>2. IsKeyword(i, j) <=> j <= 2
        BY <1>6, <2>2 DEF IsKeyword
      <3> QED BY <1>6, <3>1, <3>2
    <2> QED BY <2>1, <2>2
  <1>8. sent'.body = s
    BY <1>1 DEF s
  <1>9. CASE IsKeyword(i, j)
    <2>1. damage' = "keyword"
      BY <1>1, <1>9
    <2> QED BY <1>2, <1>7, <1>8, <1>9, <2>1, FormsDiffer DEF FrameCarried
  <1>10. CASE ~ IsKeyword(i, j)
    <2>1. damage' = "word"
      BY <1>1, <1>10
    <2> QED BY <1>2, <1>7, <1>8, <1>10, <2>1, FormsDiffer DEF FrameCarried
  <1> QED BY <1>9, <1>10

LEMMA LoseLineFrame ==
    ASSUME TextInv, sent.form = "frame", NEW i \in DOMAIN text, LoseLine(i), text # << >>
    PROVE  FrameCarried'
  <1>1. damage = "none" /\ text' = RemoveAt(text, i) /\ damage' = "line" /\ sent' = sent
    BY DEF LoseLine, Alter
  <1>2. IsSnapshot(sent.body) /\ text = FrameText(sent.body)
    BY <1>1 DEF TextInv, FrameCarried
  <1>3. IsPartial(sent.body, text')
    BY <1>1, <1>2, LostLine
  <1> QED BY <1>1, <1>2, <1>3, FormsDiffer DEF FrameCarried

LEMMA GainLineFrame ==
    ASSUME TextInv, sent.form = "frame", GainLine
    PROVE  FrameCarried'
  <1>1. /\ damage = "none" /\ text' = Append(text, <<"weather", "fine">>)
        /\ damage' = "gain" /\ sent' = sent /\ text # << >>
    BY DEF GainLine, Alter
  <1>2. IsSnapshot(sent.body) /\ text = FrameText(sent.body)
    BY <1>1 DEF TextInv, FrameCarried
  <1>3. /\ text' \in Seq(Seq(Word)) /\ Len(text') >= 2
        /\ Len(text'[1]) >= 2 /\ text'[1][1] = "STATE"
        /\ IsWholeFrame(sent.body, Payload(text'))
    <2>1. text' = Append(FrameText(sent.body), <<"weather", "fine">>)
      BY <1>1, <1>2, Zenon
    <2> QED BY <1>2, <2>1, GainedLine
  <1>4. IsIntact(sent.body, text')
    <2>1. text' # << >>
      BY <1>3, LongFacts
    <2> QED BY <1>3, <2>1 DEF IsIntact, IsTagged
  <1> QED BY <1>1, <1>2, <1>4, FormsDiffer DEF FrameCarried

LEMMA NothingIsEmpty ==
    ASSUME NEW i \in DOMAIN text
    PROVE  text # << >>
  OBVIOUS

LEMMA TextInvInit == Init => TextInv
  BY FormsDiffer DEF Init, TextInv

LEMMA TextInvNext == TextInv /\ [Next]_vars => TextInv'
  <1> SUFFICES ASSUME TextInv, [Next]_vars
               PROVE  TextInv'
    OBVIOUS
  <1>1. ASSUME NEW i \in DOMAIN Messages, SendMessage(Messages[i])
        PROVE  TextInv'
    <2> DEFINE m == Messages[i]
    <2>1. Write("message", m, Encode(m, Height))
      BY <1>1 DEF SendMessage
    <2>2. \E k \in DOMAIN Messages : m = Messages[k]
      OBVIOUS
    <2> HIDE DEF m
    <2> QED BY <2>1, <2>2, FormsDiffer, WrittenIsCarried
  <1>2. ASSUME NEW i \in DOMAIN Snapshots, Broadcast(Snapshots[i])
        PROVE  TextInv'
    <2> DEFINE s == Snapshots[i]
    <2>1. Write("frame", s, FrameText(s))
      BY <1>2 DEF Broadcast, FrameText
    <2>2. IsSnapshot(s)
      BY SnapshotsType
    <2> HIDE DEF s
    <2> QED BY <2>1, <2>2, FormsDiffer, WrittenIsCarried
  <1>3. ASSUME NEW i \in DOMAIN Snapshots, WriteFile(Snapshots[i])
        PROVE  TextInv'
    <2> DEFINE s == Snapshots[i]
    <2>1. Write("file", s, FileText(s))
      BY <1>3 DEF WriteFile, FileText
    <2>2. IsSnapshot(s)
      BY SnapshotsType
    <2> HIDE DEF s
    <2> QED BY <2>1, <2>2, FormsDiffer, WrittenIsCarried
  <1>4. ASSUME NEW i \in DOMAIN text, LoseLine(i)
        PROVE  TextInv'
    <2>1. Alter(RemoveAt(text, i), "line")
      BY <1>4 DEF LoseLine
    <2>2. sent.form = "frame" => FrameCarried'
      BY <1>4, NothingIsEmpty, LoseLineFrame
    <2> QED BY <2>1, <2>2, NothingIsEmpty, FormsDiffer, OthersAltered
  <1>5. ASSUME NEW i \in DOMAIN text, NEW j \in DOMAIN text[i], LoseWord(i, j)
        PROVE  TextInv'
    <2> DEFINE how == IF IsKeyword(i, j) THEN "keyword" ELSE "word"
               altered == [text EXCEPT ![i] = RemoveAt(@, j)]
    <2>1. Alter(altered, how)
      BY <1>5 DEF LoseWord
    <2>2. sent.form = "frame" => FrameCarried'
      BY <1>5, NothingIsEmpty, LoseWordFrame
    <2>3. LacksWord(text, altered)
      BY DEF LacksWord
    <2>4. how \in {"gain", "word", "keyword", "line"} /\ how # "gain"
      OBVIOUS
    <2> HIDE DEF altered, how
    <2> QED BY <2>1, <2>2, <2>3, <2>4, NothingIsEmpty, OthersAltered
  <1>6. CASE GainLine
    <2> DEFINE altered == Append(text, <<"weather", "fine">>)
    <2>1. Alter(altered, "gain") /\ text # << >> /\ sent.form = "frame"
      BY <1>6 DEF GainLine
    <2>2. FrameCarried'
      BY <1>6, <2>1, GainLineFrame
    <2> HIDE DEF altered
    <2> QED BY <2>1, <2>2, FormsDiffer, OthersAltered
  <1>7. CASE Read
    <2>1. text' = << >> /\ sent' = sent /\ damage' = damage
      BY <1>7 DEF Read
    <2> QED BY <2>1 DEF TextInv, FrameCarried, MessageCarried, FileCarried
  <1>8. CASE UNCHANGED vars
    <2>1. text' = text /\ sent' = sent /\ damage' = damage
      BY <1>8 DEF vars
    <2> QED BY <2>1 DEF TextInv, FrameCarried, MessageCarried, FileCarried
  <1> QED BY <1>1, <1>2, <1>3, <1>4, <1>5, <1>6, <1>7, <1>8 DEF Next

\* Every text on its way is what was written, or that with one damage done.
THEOREM TextsAreCarried == Spec => []TextInv
  BY TextInvInit, TextInvNext, PTL DEF Spec

-----------------------------------------------------------------------------
(***************************************************************************)
(* What the replica shows.                                                 *)
(***************************************************************************)
LEMMA WrittenFrame ==
    ASSUME NEW s, IsSnapshot(s)
    PROVE  IsIntact(s, FrameText(s))
  <1> DEFINE full == FrameText(s)
             lines == EncodeState(s)
  <1>1. /\ full \in Seq(Seq(Word)) /\ Len(full) >= 2
        /\ Len(full[1]) = 3 /\ full[1][1] = "STATE"
        /\ Payload(full) = lines
    BY FrameTextFacts
  <1>2. lines \in Seq(Seq(Word)) /\ Len(lines) \in Nat
    <2>1. lines \in Seq(Seq(Word))
      BY StateLinesFacts
    <2> HIDE DEF lines
    <2> QED BY <2>1, SequenceIsFunction
  <1> HIDE DEF full, lines
  <1>3. full # << >> /\ Len(full[1]) >= 2
    <2>1. Len(full[1]) >= 2
      BY <1>1
    <2> QED BY <1>1, <2>1, LongFacts
  <1>4. Len(lines) # Len(lines) + 1
    BY <1>2
  <1>5. IsWholeFrame(s, lines)
    BY <1>2, <1>4 DEF IsWholeFrame, lines
  <1> QED BY <1>1, <1>3, <1>5 DEF IsIntact, IsTagged, full

LEMMA ReplacedByOne ==
    ASSUME NEW replica, NEW frame, NEW v, DecodeState(frame) = {v}
    PROVE  Replaced(replica, frame) = v
  BY DEF Replaced

LEMMA ReplacedByNone ==
    ASSUME NEW replica, NEW frame, DecodeState(frame) = {}
    PROVE  Replaced(replica, frame) = replica
  BY DEF Replaced

LEMMA ReplacedByMember ==
    ASSUME NEW replica, NEW frame, Replaced(replica, frame) # replica
    PROVE  Replaced(replica, frame) \in DecodeState(frame)
  BY DEF Replaced

LEMMA FrameIsRead ==
    ASSUME Read, sent.form = "frame"
    PROVE  Receive /\ text # << >>
  BY FormsDiffer DEF Read, Parse

LEMMA IntactIsShown ==
    ASSUME TextInv, Read, sent.form = "frame", damage \in {"none", "gain"}
    PROVE  shown' = AsShown(sent.body)
  <1> DEFINE s == sent.body
  <1>1. Receive /\ text # << >>
    BY FrameIsRead
  <1>2. IsSnapshot(s)
    BY DEF TextInv, FrameCarried
  <1>3. IsIntact(s, text)
    <2>1. CASE damage = "none"
      <3>1. text = FrameText(s)
        BY <1>1, <2>1 DEF TextInv, FrameCarried
      <3> HIDE DEF s
      <3> QED BY <1>2, <3>1, WrittenFrame
    <2>2. CASE damage = "gain"
      BY <1>1, <2>2 DEF TextInv, FrameCarried
    <2> QED BY <2>1, <2>2
  <1> HIDE DEF s
  <1>4. DecodeState(Payload(text)) = {AsShown(s)}
    BY <1>2, <1>3, WholeFramesAreRead DEF IsIntact
  <1>5. shown' = Replaced(shown, Payload(text))
    BY <1>1, <1>3, ReplicaAfter DEF IsIntact
  <1>6. shown' = AsShown(s)
    BY <1>4, <1>5, ReplacedByOne
  <1> QED BY <1>6 DEF s

LEMMA SpoiltIsRefused ==
    ASSUME TextInv, Read, sent.form = "frame", damage = "word"
    PROVE  shown' = shown
  <1>1. Receive /\ text # << >>
    BY FrameIsRead
  <1>2. IsSpoilt(text)
    BY <1>1 DEF TextInv, FrameCarried
  <1>3. shown' = Replaced(shown, Payload(text))
    BY <1>1, <1>2, ReplicaAfter DEF IsSpoilt
  <1> QED BY <1>2, <1>3, ReplacedByNone DEF IsSpoilt

LEMMA PartialHides ==
    ASSUME TextInv, Read, sent.form = "frame", damage \in {"keyword", "line"},
           shown' # shown
    PROVE  Shows(shown', AsShown(sent.body))
  <1> DEFINE s == sent.body
             frame == Payload(text)
  <1>1. Receive /\ text # << >>
    BY FrameIsRead
  <1>2. IsSnapshot(s) /\ IsPartial(s, text)
    BY <1>1 DEF TextInv, FrameCarried
  <1>3. text[1][1] = "STATE" /\ shown' = Replaced(shown, frame)
    BY <1>1, <1>2, ReplicaAfter DEF IsPartial
  <1>4. IsFullFrame(frame) /\ OnlyFrameLines(s, frame)
    BY <1>2, <1>3 DEF IsPartial
  <1>5. shown' \in DecodeState(frame)
    BY <1>3, ReplacedByMember
  <1> HIDE DEF s, frame
  <1>6. Shows(shown', AsShown(s))
    BY <1>2, <1>4, <1>5, FramesHide
  <1> QED BY <1>6 DEF s

LEMMA EveryFrameShows ==
    ASSUME TextInv, Read, sent.form = "frame", shown' # shown
    PROVE  Shows(shown', AsShown(sent.body))
  <1>1. damage \in {"none", "gain", "word", "keyword", "line"}
    BY DEF TextInv, FrameCarried
  <1>2. CASE damage \in {"none", "gain"}
    <2>1. shown' = AsShown(sent.body)
      BY <1>2, IntactIsShown
    <2> QED BY <2>1 DEF Shows
  <1>3. CASE damage = "word"
    BY <1>3, SpoiltIsRefused
  <1>4. CASE damage \in {"keyword", "line"}
    BY <1>4, PartialHides
  <1> QED BY <1>1, <1>2, <1>3, <1>4

\* Writing leaves something to read, and what is gained can be read.
LEMMA FrameOnItsWay ==
    ASSUME TextInv, NEW i \in DOMAIN Snapshots, Broadcast(Snapshots[i])
    PROVE  text' # << >>
  <1> DEFINE s == Snapshots[i]
  <1>1. text' = FrameText(s)
    BY DEF Broadcast, Write, FrameText
  <1>2. IsSnapshot(s)
    BY SnapshotsType
  <1> HIDE DEF s
  <1>3. FrameText(s) # << >>
    BY <1>2, WrittenFrame DEF IsIntact, IsTagged
  <1> QED BY <1>1, <1>3

LEMMA GainedFrame ==
    ASSUME TextInv, GainLine
    PROVE  text' # << >>
  <1>1. /\ damage = "none" /\ text' = Append(text, <<"weather", "fine">>)
        /\ sent.form = "frame" /\ text # << >>
    BY DEF GainLine, Alter
  <1>2. IsSnapshot(sent.body) /\ text = FrameText(sent.body)
    BY <1>1 DEF TextInv, FrameCarried
  <1>3. text' \in Seq(Seq(Word)) /\ Len(text') >= 2
    <2>1. text' = Append(FrameText(sent.body), <<"weather", "fine">>)
      BY <1>1, <1>2, Zenon
    <2> QED BY <1>2, <2>1, GainedLine
  <1> QED BY <1>3, LongFacts

LEMMA FramesCorrectNext ==
    TextInv /\ FramesCorrect /\ [Next]_vars => FramesCorrect'
  <1> SUFFICES ASSUME TextInv, FramesCorrect, [Next]_vars,
                      text' = << >>, sent'.form = "frame", damage' \in {"none", "gain"}
               PROVE  shown' = AsShown(sent'.body)
    BY DEF FramesCorrect, WasRead
  <1>1. ASSUME NEW i \in DOMAIN Messages, SendMessage(Messages[i])
        PROVE  FALSE
    BY <1>1, FormsDiffer DEF SendMessage, Write
  <1>2. ASSUME NEW i \in DOMAIN Snapshots, Broadcast(Snapshots[i])
        PROVE  FALSE
    BY <1>2, FrameOnItsWay
  <1>3. ASSUME NEW i \in DOMAIN Snapshots, WriteFile(Snapshots[i])
        PROVE  FALSE
    BY <1>3, FormsDiffer DEF WriteFile, Write
  <1>4. ASSUME NEW i \in DOMAIN text, LoseLine(i)
        PROVE  FALSE
    BY <1>4, FormsDiffer DEF LoseLine, Alter
  <1>5. ASSUME NEW i \in DOMAIN text, NEW j \in DOMAIN text[i], LoseWord(i, j)
        PROVE  FALSE
    <2>1. damage' \in {"keyword", "word"}
      BY <1>5 DEF LoseWord, Alter
    <2> QED BY <2>1, FormsDiffer
  <1>6. CASE GainLine
    BY <1>6, GainedFrame
  <1>7. CASE Read
    <2>1. sent' = sent /\ damage' = damage
      BY <1>7 DEF Read
    <2> QED BY <1>7, <2>1, IntactIsShown
  <1>8. CASE UNCHANGED vars
    BY <1>8 DEF vars, FramesCorrect, WasRead
  <1> QED BY <1>1, <1>2, <1>3, <1>4, <1>5, <1>6, <1>7, <1>8 DEF Next

(***************************************************************************)
(* After an intact frame, or one with a line more, the replica is what was *)
(* broadcast, for every snapshot of every board and whatever it showed     *)
(* before (state_codec: "a dropped or garbled message is corrected by the  *)
(* very next one").                                                        *)
(***************************************************************************)
THEOREM FramesCorrectTheReplica == Spec => []FramesCorrect
  <1>1. Init => FramesCorrect
    BY FormsDiffer DEF Init, FramesCorrect, WasRead
  <1> QED BY <1>1, FramesCorrectNext, TextsAreCarried, PTL DEF Spec

(***************************************************************************)
(* A frame in which a field of some line is missing changes nothing        *)
(* (decodeState builds into a local board), whichever field of whichever   *)
(* line it is.                                                             *)
(***************************************************************************)
THEOREM BadFramesAreRefused == Spec => BadFramesChangeNothing
  <1>1. TextInv /\ [Next]_vars =>
          [Read /\ sent.form = "frame" /\ damage = "word" => UNCHANGED shown]_vars
    BY SpoiltIsRefused
  <1> QED BY <1>1, TextsAreCarried, PTL DEF Spec, BadFramesChangeNothing

(***************************************************************************)
(* A frame that has lost any line, or the keyword of one, is refused or    *)
(* shows no more than was sent.                                            *)
(***************************************************************************)
THEOREM DamageHides == Spec => DamageOnlyHides
  <1>1. TextInv /\ [Next]_vars =>
          [Read /\ sent.form = "frame" /\ shown' # shown =>
             LET s == AsShown(sent.body)
             IN  /\ shown'.over = s.over
                 /\ shown'.board.width = s.board.width
                 /\ shown'.board.height = s.board.height
                 /\ shown'.board.pieces \subseteq s.board.pieces
                 /\ ToSet(shown'.motions) \subseteq ToSet(s.motions)
                 /\ ToSet(shown'.cooldowns) \subseteq ToSet(s.cooldowns)]_vars
    BY EveryFrameShows DEF Shows
  <1> QED BY <1>1, TextsAreCarried, PTL DEF Spec, DamageOnlyHides

-----------------------------------------------------------------------------
(***************************************************************************)
(* The messages.  A command first: where it is cut, and that it cannot be  *)
(* read when that is beside the place where the second name begins.        *)
(***************************************************************************)
LEMMA HalfFacts ==
    ASSUME NEW n \in Nat, NEW m \in Nat
    PROVE  /\ (2 + n + n) % 2 = 0 /\ (2 + n + n - 2) \div 2 = n
           /\ (2 + n + m) % 2 = 0 /\ n < m => (2 + n + m - 2) \div 2 > n
           /\ (2 + n + m) % 2 = 0 /\ n > m => (2 + n + m - 2) \div 2 < n
  <1>1. \A k \in Nat : (2 * k) % 2 = 0 /\ (2 * k) \div 2 = k
    OBVIOUS
  <1>2. 2 + n + n = 2 * (n + 1) /\ 2 + n + n - 2 = 2 * n /\ n + 1 \in Nat
    OBVIOUS
  <1>3. (2 + n + n) % 2 = 0 /\ (2 + n + n - 2) \div 2 = n
    BY <1>1, <1>2
  <1> DEFINE k == n + m
             half == k \div 2
  <1>4. k \in Nat /\ 2 + n + m = k + 2 /\ 2 + n + m - 2 = k
    OBVIOUS
  <1>5. half \in Nat /\ (k = 2 * half \/ k = 2 * half + 1)
    <2> HIDE DEF k
    <2> QED BY <1>4
  <1>6. (k + 2) % 2 = 0 => k = 2 * half
    <2>1. \A a \in Nat : (2 * a + 3) % 2 = 1
      OBVIOUS
    <2> HIDE DEF k, half
    <2>2. k = 2 * half + 1 => k + 2 = 2 * half + 3
      BY <1>5
    <2> QED BY <1>5, <2>1, <2>2
  <1>7. k = n + m
    OBVIOUS
  <1> HIDE DEF k
  <1>8. half = k \div 2
    OBVIOUS
  <1> HIDE DEF half
  <1>9. ASSUME (k + 2) % 2 = 0
        PROVE  (n < m => half > n) /\ (n > m => half < n)
    BY <1>5, <1>6, <1>7, <1>9
  <1>10. (2 + n + m) % 2 = (k + 2) % 2 /\ (2 + n + m - 2) \div 2 = half
    BY <1>4, <1>8
  <1> QED BY <1>3, <1>9, <1>10

CommandValue == [player : Color, kind : Kind, from : Cells, to : Cells]

\* The word of a command, with its parts.
LEMMA CommandFacts ==
    ASSUME NEW c \in CommandValue
    PROVE  LET word == EncodeCommand(c, Height)
               first == Len(SquareName(c.from, Height))
               second == Len(SquareName(c.to, Height))
           IN  /\ word \in Word
               /\ first \in Nat /\ second \in Nat /\ first >= 2 /\ second >= 2
               /\ Len(word) = 2 + first + second
               /\ CharAt(word, 1) = UpperLetter[c.player]
               /\ CharAt(word, 2) = KindLetter[c.kind]
               /\ SubSeq(word, 3, 2 + first) = SquareName(c.from, Height)
               /\ SubSeq(word, 3 + first, 2 + first + second) = SquareName(c.to, Height)
  <1>1. /\ c.player \in Color /\ c.kind \in Kind /\ c.from \in Cells /\ c.to \in Cells
        /\ c = [player |-> c.player, kind |-> c.kind, from |-> c.from, to |-> c.to]
    BY DEF CommandValue
  <1>2. /\ Len(SquareName(c.from, Height)) \in Nat /\ Len(SquareName(c.from, Height)) >= 2
        /\ Len(SquareName(c.to, Height)) \in Nat /\ Len(SquareName(c.to, Height)) >= 2
    <2>1. ASSUME NEW cell \in Cells
          PROVE  Len(SquareName(cell, Height)) \in Nat /\ Len(SquareName(cell, Height)) >= 2
      <3> DEFINE rank == Len(ToString(Height - cell[1]))
      <3>1. rank \in Nat \ {0} /\ Len(SquareName(cell, Height)) = 1 + rank
        BY SquaresAreSpelt
      <3> HIDE DEF rank
      <3> QED BY <3>1
    <2> QED BY <1>1, <2>1
  <1>3. LET word == EncodeCommand([player |-> c.player, kind |-> c.kind,
                                   from |-> c.from, to |-> c.to], Height)
            first == Len(SquareName(c.from, Height))
            second == Len(SquareName(c.to, Height))
        IN  /\ word \in Word
            /\ Len(word) = 2 + first + second
            /\ CharAt(word, 1) = UpperLetter[c.player]
            /\ CharAt(word, 2) = KindLetter[c.kind]
            /\ SubSeq(word, 3, 2 + first) = SquareName(c.from, Height)
            /\ SubSeq(word, 3 + first, 2 + first + second) = SquareName(c.to, Height)
    BY <1>1, CommandsAreSpelt, SMTT(30)
  <1>4. EncodeCommand(c, Height) =
          EncodeCommand([player |-> c.player, kind |-> c.kind,
                         from |-> c.from, to |-> c.to], Height)
    BY <1>1, Zenon
  <1> QED BY <1>2, <1>3, <1>4, Zenon

LEMMA WireTokensAreRead ==
    ASSUME NEW word, NEW color \in Color, NEW kind \in Kind,
           CharAt(word, 1) = UpperLetter[color], CharAt(word, 2) = KindLetter[kind]
    PROVE  FromWireToken(word) = {[color |-> color, kind |-> kind]}
  <1> DEFINE P == [color |-> color, kind |-> kind]
  <1>1. P \in [color : Color, kind : Kind] /\ P.color = color /\ P.kind = kind
    OBVIOUS
  <1>2. P \in FromWireToken(word)
    BY <1>1 DEF FromWireToken
  <1>3. ASSUME NEW p \in FromWireToken(word)
        PROVE  p = P
    <2>1. p \in [color : Color, kind : Kind]
      BY DEF FromWireToken
    <2>2. UpperLetter[color] \in {ColorLetter[p.color], UpperLetter[p.color]}
      BY DEF FromWireToken
    <2>3. KindLetter[p.kind] = KindLetter[kind]
      BY DEF FromWireToken
    <2>4. p.color = color
      BY <2>1, <2>2, LettersDiffer
    <2>5. p.kind = kind
      BY <2>1, <2>3, LettersDiffer
    <2> QED BY <2>1, <2>4, <2>5
  <1> HIDE DEF P
  <1>4. FromWireToken(word) = {P}
    BY <1>2, <1>3
  <1> QED BY <1>4 DEF P

LEMMA CommandIsRead ==
    ASSUME NEW c \in CommandValue, SameLength(c, Height)
    PROVE  DecodeCommand(EncodeCommand(c, Height), Height) = {c}
  <1> DEFINE word == EncodeCommand(c, Height)
             first == Len(SquareName(c.from, Height))
             half == (Len(word) - 2) \div 2
  <1>1. /\ first \in Nat /\ first >= 2
        /\ Len(word) = 2 + first + first
        /\ CharAt(word, 1) = UpperLetter[c.player]
        /\ CharAt(word, 2) = KindLetter[c.kind]
        /\ SubSeq(word, 3, 2 + first) = SquareName(c.from, Height)
        /\ SubSeq(word, 3 + first, 2 + first + first) = SquareName(c.to, Height)
    <2>1. Len(SquareName(c.from, Height)) = Len(SquareName(c.to, Height))
      BY DEF SameLength
    <2> QED BY <2>1, CommandFacts, Zenon
  <1>2. /\ c.player \in Color /\ c.kind \in Kind /\ c.from \in Cells /\ c.to \in Cells
        /\ c = [player |-> c.player, kind |-> c.kind, from |-> c.from, to |-> c.to]
    BY DEF CommandValue
  <1>3. FromWireToken(word) = {[color |-> c.player, kind |-> c.kind]}
    BY <1>1, <1>2, WireTokensAreRead
  <1>4. /\ SquareFromName(SquareName(c.from, Height), Height) = {c.from}
        /\ SquareFromName(SquareName(c.to, Height), Height) = {c.to}
    BY <1>2, SquaresAreRead
  <1> HIDE DEF word, first
  <1>5. half = first /\ Len(word) % 2 = 0 /\ ~ (Len(word) <= 2)
    BY <1>1, HalfFacts
  <1>6. DecodeCommand(word, Height) =
          {[player |-> p.color, kind |-> p.kind, from |-> f, to |-> t] :
              p \in FromWireToken(word),
              f \in SquareFromName(SubSeq(word, 3, 2 + half), Height),
              t \in SquareFromName(SubSeq(word, 3 + half, Len(word)), Height)}
    BY <1>5 DEF DecodeCommand
  <1> HIDE DEF half
  <1>7. SquareFromName(SubSeq(word, 3, 2 + half), Height) = {c.from}
    BY <1>1, <1>4, <1>5
  <1>8. SquareFromName(SubSeq(word, 3 + half, Len(word)), Height) = {c.to}
    BY <1>1, <1>4, <1>5
  <1>9. DecodeCommand(word, Height) =
          {[player |-> p.color, kind |-> p.kind, from |-> f, to |-> t] :
              p \in {[color |-> c.player, kind |-> c.kind]}, f \in {c.from}, t \in {c.to}}
    BY <1>3, <1>6, <1>7, <1>8
  <1>10. DecodeCommand(word, Height) = {c}
    BY <1>2, <1>9
  <1> QED BY <1>10 DEF word

LEMMA CommandIsCutWrong ==
    ASSUME NEW c \in CommandValue, ~ SameLength(c, Height)
    PROVE  DecodeCommand(EncodeCommand(c, Height), Height) = {}
  <1> DEFINE word == EncodeCommand(c, Height)
             first == Len(SquareName(c.from, Height))
             second == Len(SquareName(c.to, Height))
             half == (Len(word) - 2) \div 2
             before == SubSeq(word, 3, 2 + half)
             behind == SubSeq(word, 3 + half, Len(word))
  <1>1. /\ first \in Nat /\ second \in Nat
        /\ Len(word) = 2 + first + second /\ first # second
    BY CommandFacts DEF SameLength
  <1>2. /\ half > first => /\ first \in 1 .. Len(Tail(before))
                           /\ CharAt(Tail(before), first) = FileLetter(c.to)
        /\ half < first => CharAt(behind, 1) \in DOMAIN DigitValue
    <2>1. /\ c.player \in Color /\ c.kind \in Kind /\ c.from \in Cells /\ c.to \in Cells
          /\ c = [player |-> c.player, kind |-> c.kind, from |-> c.from, to |-> c.to]
      BY DEF CommandValue
    <2>2. word = EncodeCommand([player |-> c.player, kind |-> c.kind,
                                from |-> c.from, to |-> c.to], Height)
      BY <2>1, Zenon
    <2>3. LET w == EncodeCommand([player |-> c.player, kind |-> c.kind,
                                  from |-> c.from, to |-> c.to], Height)
              k == Len(SquareName(c.from, Height))
              h == (Len(w) - 2) \div 2
              digits == Tail(SubSeq(w, 3, 2 + h))
          IN  /\ h > k => /\ k \in 1 .. Len(digits)
                          /\ CharAt(digits, k) = FileLetter(c.to)
              /\ h < k => CharAt(SubSeq(w, 3 + h, Len(w)), 1) \in DOMAIN DigitValue
      BY <2>1, HalvesAreSpelt, Zenon
    <2> QED BY <2>2, <2>3, Zenon
  <1>3. c.to[2] + 1 \in 1 .. 26
    <2>1. c.to \in Cells
      BY DEF CommandValue
    <2> QED BY <2>1, SizeType DEF Cells
  <1> HIDE DEF word, first, second
  <1>4. Len(word) % 2 = 0 => half > first \/ half < first
    BY <1>1, HalfFacts
  <1> HIDE DEF half
  <1>5. ASSUME half > first
        PROVE  SquareFromName(before, Height) = {}
    <2>1. FileLetter(c.to) \notin DOMAIN DigitValue
      BY <1>3, FilesAreSpelt DEF FileLetter
    <2>2. ~ IsNumeral(Tail(before))
      BY <1>2, <1>5, <2>1 DEF IsNumeral
    <2> QED BY <2>2 DEF SquareFromName
  <1>6. ASSUME half < first
        PROVE  SquareFromName(behind, Height) = {}
    <2>1. \A n \in 1 .. Len(FileLetters) : CharAt(FileLetters, n) # CharAt(behind, 1)
      BY <1>2, <1>6, FilesAreSpelt
    <2> QED BY <2>1 DEF SquareFromName
  <1>7. DecodeCommand(word, Height) =
          IF Len(word) <= 2 \/ Len(word) % 2 # 0 THEN {}
          ELSE {[player |-> p.color, kind |-> p.kind, from |-> f, to |-> t] :
                  p \in FromWireToken(word),
                  f \in SquareFromName(before, Height),
                  t \in SquareFromName(behind, Height)}
    BY DEF DecodeCommand, half
  <1> HIDE DEF before, behind
  <1>8. CASE Len(word) <= 2 \/ Len(word) % 2 # 0
    BY <1>7, <1>8 DEF word
  <1>9. CASE ~ (Len(word) <= 2 \/ Len(word) % 2 # 0)
    <2>1. SquareFromName(before, Height) = {} \/ SquareFromName(behind, Height) = {}
      BY <1>4, <1>5, <1>6, <1>9
    <2>2. DecodeCommand(word, Height) = {}
      BY <1>7, <1>9, <2>1
    <2> QED BY <2>2 DEF word
  <1> QED BY <1>8, <1>9

-----------------------------------------------------------------------------
(***************************************************************************)
(* The other payloads.                                                     *)
(***************************************************************************)
LEMMA OneLineFacts ==
    ASSUME NEW line \in Seq(Word), line # << >>
    PROVE  /\ OneLine(line) \in Seq(Seq(Word)) /\ OneLine(line) # << >>
           /\ OneLine(line)[1] = line /\ Len(OneLine(line)) = 1
  BY DEF OneLine

LEMMA OneWordFacts ==
    ASSUME NEW word \in Word
    PROVE  /\ <<word>> \in Seq(Word) /\ <<word>> # << >>
           /\ <<word>>[1] = word /\ Len(<<word>>) = 1
           /\ word # NoWord => Tokens(<<word>>) = <<word>>
  <1>1. <<word>> \in Seq(Word) /\ <<word>> # << >> /\ <<word>>[1] = word /\ Len(<<word>>) = 1
    OBVIOUS
  <1>2. word # NoWord => \A i \in DOMAIN <<word>> : <<word>>[i] # NoWord
    OBVIOUS
  <1> QED BY <1>1, <1>2, TokensOfFull

\* How a message comes out of a text, if its payload does.
LEMMA MessageIsRead ==
    ASSUME NEW m, NEW tag \in Word, NEW body, m = Message(tag, body),
           NEW payload \in Seq(Seq(Word)), payload # << >>, payload[1] # << >>,
           EncodePayload(m, Height) = payload,
           NEW read, DecodePayload(tag, payload, Height) = read
    PROVE  /\ Encode(m, Height) # << >>
           /\ Decode(Encode(m, Height), Height) = {Message(tag, b) : b \in read}
  <1> DEFINE written == Encode(m, Height)
  <1>1. m.tag = tag
    BY DEF Message
  <1>2. written = Joined(tag, payload)
    BY <1>1 DEF Encode, Joined
  <1> HIDE DEF written
  <1>3. /\ written \in Seq(Seq(Word)) /\ Len(written) = Len(payload)
        /\ Len(written[1]) = Len(payload[1]) + 1
        /\ written[1][1] = tag /\ Payload(written) = payload
    BY <1>2, EncodeFacts
  <1>4. Len(payload) >= 1 /\ Len(payload[1]) >= 1 /\ payload[1] \in Seq(Word)
        /\ Len(payload[1]) \in Nat
    <2>1. payload[1] \in Seq(Word) /\ Len(payload) >= 1
      BY SequenceIsFunction
    <2> QED BY <2>1, SequenceIsFunction
  <1>5. written # << >> /\ Len(written[1]) >= 2
    <2>1. Len(written) >= 1
      BY <1>3, <1>4
    <2>2. written # << >>
      BY <1>3, <2>1, SequenceIsFunction
    <2> QED BY <1>3, <1>4, <2>2
  <1> DEFINE parts == Split(written)
  <1>6. parts = [tag |-> tag, payload |-> payload]
    BY <1>3, <1>5, SplitFacts
  <1>7. parts.tag = tag /\ parts.payload = payload
    BY <1>6
  <1>8. Decode(written, Height) =
          {Message(parts.tag, b) : b \in DecodePayload(parts.tag, parts.payload, Height)}
    BY DEF Decode
  <1> HIDE DEF parts
  <1>9. DecodePayload(parts.tag, parts.payload, Height) = read
    BY <1>7, Zenon
  <1>10. Decode(written, Height) = {Message(tag, b) : b \in read}
    BY <1>7, <1>8, <1>9
  <1> QED BY <1>5, <1>10 DEF written

\* A message is read as it was, if its payload is read as it was.
LEMMA WholeMessageIsRead ==
    ASSUME NEW m, NEW tag \in Word, NEW body, m = Message(tag, body),
           NEW payload \in Seq(Seq(Word)), payload # << >>, payload[1] # << >>,
           EncodePayload(m, Height) = payload,
           DecodePayload(tag, payload, Height) = {body}
    PROVE  Encode(m, Height) # << >> /\ Decode(Encode(m, Height), Height) = {m}
  <1>1. /\ Encode(m, Height) # << >>
        /\ Decode(Encode(m, Height), Height) = {Message(tag, b) : b \in {body}}
    BY MessageIsRead
  <1> QED BY <1>1

LEMMA TagFacts ==
    /\ \A tag \in {"CMD", "ROLE", "MOVE", "CAPTURE", "STATE", "LOGIN", "ROSTER", "OPPGONE"} :
          tag \in Word /\ tag \notin FreeText /\ tag \notin RoomName /\ tag \notin TagOnly
    /\ \A tag \in FreeText \cup RoomName \cup TagOnly :
          tag \in Word
          /\ tag \notin {"CMD", "ROLE", "MOVE", "CAPTURE", "STATE", "LOGIN", "ROSTER", "OPPGONE"}
    /\ \A tag \in FreeText : tag \notin RoomName /\ tag \notin TagOnly
    /\ \A tag \in RoomName : tag \notin TagOnly
  <1>1. /\ FreeText \cup RoomName \cup TagOnly \subseteq Word
        /\ {"CMD", "ROLE", "MOVE", "CAPTURE", "STATE", "LOGIN", "ROSTER", "OPPGONE"} \subseteq Word
    BY LiteralsAreWords DEF FreeText, RoomName, TagOnly
  <1>2. \A tag \in {"CMD", "ROLE", "MOVE", "CAPTURE", "STATE", "LOGIN", "ROSTER", "OPPGONE"} :
          tag \notin FreeText /\ tag \notin RoomName /\ tag \notin TagOnly
    BY DEF FreeText, RoomName, TagOnly
  <1>3. \A tag \in FreeText : tag \notin RoomName /\ tag \notin TagOnly
    BY DEF FreeText, RoomName, TagOnly
  <1>4. \A tag \in RoomName : tag \notin TagOnly
    BY DEF RoomName, TagOnly
  <1> QED BY <1>1, <1>2, <1>3, <1>4

LEMMA TagOnlySurvives ==
    ASSUME NEW tag \in TagOnly, NEW m, m = Message(tag, NoBody)
    PROVE  Encode(m, Height) # << >> /\ Decode(Encode(m, Height), Height) = {m}
  <1>1. /\ tag \in Word /\ tag \notin FreeText /\ tag \notin RoomName
        /\ tag # "CMD" /\ tag # "ROLE" /\ tag # "MOVE" /\ tag # "CAPTURE" /\ tag # "STATE"
        /\ tag # "LOGIN" /\ tag # "ROSTER" /\ tag # "OPPGONE"
    BY TagFacts
  <1>2. m.tag = tag
    BY DEF Message
  <1>3. EncodePayload(m, Height) = Blank
    BY <1>1, <1>2 DEF EncodePayload
  <1>4. DecodePayload(tag, Blank, Height) = {NoBody}
    BY <1>1 DEF DecodePayload
  <1>5. Blank \in Seq(Seq(Word)) /\ Blank # << >> /\ Blank[1] # << >>
    <2>1. NoWord \in Word
      BY LiteralsAreWords
    <2>2. <<NoWord>> \in Seq(Word) /\ <<NoWord>> # << >>
      BY <2>1, OneWordFacts
    <2> QED BY <2>2, OneLineFacts DEF Blank
  <1> QED BY <1>1, <1>3, <1>4, <1>5, WholeMessageIsRead

LEMMA FreeTextSurvives ==
    ASSUME NEW tag \in FreeText, NEW body \in Seq(Word), body # << >>,
           NEW m, m = Message(tag, body)
    PROVE  Encode(m, Height) # << >> /\ Decode(Encode(m, Height), Height) = {m}
  <1>1. /\ tag \in Word /\ tag \notin RoomName /\ tag \notin TagOnly
        /\ tag # "CMD" /\ tag # "ROLE" /\ tag # "MOVE" /\ tag # "CAPTURE" /\ tag # "STATE"
        /\ tag # "LOGIN" /\ tag # "ROSTER" /\ tag # "OPPGONE"
    BY TagFacts
  <1> DEFINE payload == OneLine(body)
  <1>2. m.tag = tag /\ m.body = body
    BY DEF Message
  <1>3. EncodePayload(m, Height) = payload
    BY <1>1, <1>2 DEF EncodePayload
  <1>4. /\ payload \in Seq(Seq(Word)) /\ payload # << >> /\ payload[1] = body
    BY OneLineFacts
  <1> HIDE DEF payload
  <1>5. DecodePayload(tag, payload, Height) = {body}
    BY <1>1, <1>4 DEF DecodePayload
  <1> QED BY <1>1, <1>3, <1>4, <1>5, WholeMessageIsRead

LEMMA RoomNameSurvives ==
    ASSUME NEW tag \in RoomName, NEW body \in Seq(Word), Trimmed(body) = {body},
           NEW m, m = Message(tag, body)
    PROVE  Encode(m, Height) # << >> /\ Decode(Encode(m, Height), Height) = {m}
  <1>1. /\ tag \in Word /\ tag \notin FreeText /\ tag \notin TagOnly
        /\ tag # "CMD" /\ tag # "ROLE" /\ tag # "MOVE" /\ tag # "CAPTURE" /\ tag # "STATE"
        /\ tag # "LOGIN" /\ tag # "ROSTER" /\ tag # "OPPGONE"
    BY TagFacts
  <1> DEFINE payload == OneLine(body)
  <1>2. m.tag = tag /\ m.body = body
    BY DEF Message
  <1>3. EncodePayload(m, Height) = payload
    BY <1>1, <1>2 DEF EncodePayload
  <1>4. body # << >>
    <2>1. ASSUME body = << >>
          PROVE  FALSE
      <3>1. DOMAIN body = {}
        BY <2>1
      <3>2. {i \in DOMAIN body : body[i] # NoWord} = {}
        BY <3>1
      <3>3. Trimmed(body) = {}
        BY <3>2 DEF Trimmed
      <3> QED BY <3>3
    <2> QED BY <2>1
  <1>5. /\ payload \in Seq(Seq(Word)) /\ payload # << >> /\ payload[1] = body
    BY <1>4, OneLineFacts
  <1> HIDE DEF payload
  <1>6. DecodePayload(tag, payload, Height) = {body}
    BY <1>1, <1>5 DEF DecodePayload
  <1> QED BY <1>1, <1>3, <1>4, <1>5, <1>6, WholeMessageIsRead

LEMMA CommandsSurvive ==
    ASSUME NEW c \in CommandValue, NEW m, m = Message("CMD", c)
    PROVE  /\ Encode(m, Height) # << >>
           /\ Decode(Encode(m, Height), Height) =
                 IF SameLength(c, Height) THEN {m} ELSE {}
  <1> DEFINE word == EncodeCommand(c, Height)
             payload == OneLine(<<word>>)
             read == IF SameLength(c, Height) THEN {c} ELSE {}
  <1>1. word \in Word
    BY CommandFacts
  <1>2. DecodeCommand(word, Height) = read
    BY CommandIsRead, CommandIsCutWrong
  <1>3. "CMD" \in Word /\ "CMD" \notin FreeText /\ "CMD" \notin RoomName /\ "CMD" \notin TagOnly
    BY TagFacts
  <1>4. m.tag = "CMD" /\ m.body = c
    BY DEF Message
  <1> HIDE DEF word, read
  <1>5. EncodePayload(m, Height) = payload
    <2>1. m.tag \notin RoomName \cup FreeText /\ m.tag \notin TagOnly
      BY <1>3, <1>4
    <2> QED BY <1>4, <2>1 DEF EncodePayload, word
  <1>6. /\ payload \in Seq(Seq(Word)) /\ payload # << >> /\ Len(payload) = 1
        /\ Len(payload[1]) = 1 /\ payload[1][1] = word /\ payload[1] # << >>
    <2>1. <<word>> \in Seq(Word) /\ <<word>> # << >> /\ <<word>>[1] = word /\ Len(<<word>>) = 1
      BY <1>1, OneWordFacts
    <2> QED BY <2>1, OneLineFacts
  <1> HIDE DEF payload
  <1>7. DecodePayload("CMD", payload, Height) = read
    <2>1. ASSUME NEW tag, tag = "CMD"
          PROVE  DecodePayload(tag, payload, Height) = DecodeCommand(payload[1][1], Height)
      <3>1. /\ tag # "ROLE" /\ tag # "MOVE" /\ tag # "CAPTURE" /\ tag # "OPPGONE"
            /\ tag # "STATE" /\ tag # "LOGIN" /\ tag # "ROSTER"
            /\ tag \notin FreeText /\ tag \notin RoomName /\ tag \notin TagOnly
        BY <1>3, <2>1
      <3> QED BY <1>6, <2>1, <3>1 DEF DecodePayload
    <2> QED BY <1>2, <1>6, <2>1
  <1>8. /\ Encode(m, Height) # << >>
        /\ Decode(Encode(m, Height), Height) = {Message("CMD", b) : b \in read}
    BY <1>3, <1>5, <1>6, <1>7, MessageIsRead
  <1>9. CASE SameLength(c, Height)
    BY <1>8, <1>9 DEF read
  <1>10. CASE ~ SameLength(c, Height)
    BY <1>8, <1>10 DEF read
  <1> QED BY <1>9, <1>10

LEMMA NumbersSurvive ==
    ASSUME NEW n \in Numbers, NEW m, m = Message("OPPGONE", n)
    PROVE  Encode(m, Height) # << >> /\ Decode(Encode(m, Height), Height) = {m}
  <1> DEFINE word == ToString(n)
             payload == OneLine(<<word>>)
  <1>1. word \in Word /\ word # NoWord /\ IntegerIn(word) = {n}
    BY NumeralsAreRead DEF IsPlain
  <1>2. /\ "OPPGONE" \in Word /\ "OPPGONE" \notin FreeText
        /\ "OPPGONE" \notin RoomName /\ "OPPGONE" \notin TagOnly
    BY TagFacts
  <1>3. m.tag = "OPPGONE" /\ m.body = n
    BY DEF Message
  <1> HIDE DEF word
  <1>4. EncodePayload(m, Height) = payload
    <2>1. m.tag \notin RoomName \cup FreeText /\ m.tag \notin TagOnly
      BY <1>2, <1>3
    <2> QED BY <1>3, <2>1 DEF EncodePayload, word
  <1>5. /\ payload \in Seq(Seq(Word)) /\ payload # << >>
        /\ payload[1] = <<word>> /\ payload[1] # << >>
    <2>1. <<word>> \in Seq(Word) /\ <<word>> # << >>
      BY <1>1, OneWordFacts
    <2> QED BY <2>1, OneLineFacts
  <1> HIDE DEF payload
  <1>6. UNION {IntegerIn(w) : w \in FirstOf(Tokens(payload[1]))} = {n}
    <2>1. Tokens(payload[1]) = <<word>>
      BY <1>1, <1>5, OneWordFacts
    <2>2. FirstOf(<<word>>) = {word}
      BY DEF FirstOf
    <2> QED BY <1>1, <2>1, <2>2
  <1>7. DecodePayload("OPPGONE", payload, Height) = {n}
    <2>1. ASSUME NEW tag, tag = "OPPGONE"
          PROVE  DecodePayload(tag, payload, Height) =
                   UNION {IntegerIn(w) : w \in FirstOf(Tokens(payload[1]))}
      <3>1. /\ tag # "CMD" /\ tag # "ROLE" /\ tag # "MOVE" /\ tag # "CAPTURE"
            /\ tag # "STATE" /\ tag # "LOGIN" /\ tag # "ROSTER"
            /\ tag \notin FreeText /\ tag \notin RoomName /\ tag \notin TagOnly
        BY <1>2, <2>1
      <3> QED BY <2>1, <3>1 DEF DecodePayload
    <2> QED BY <1>6, <2>1
  <1> QED BY <1>2, <1>4, <1>5, <1>7, WholeMessageIsRead

LEMMA RolesSurvive ==
    ASSUME NEW role \in DOMAIN RoleLetter, NEW m, m = Message("ROLE", role)
    PROVE  Encode(m, Height) # << >> /\ Decode(Encode(m, Height), Height) = {m}
  <1> DEFINE word == RoleLetter[role]
             payload == OneLine(<<word>>)
  <1>1. /\ DOMAIN RoleLetter = {"White", "Black", "Spectator"}
        /\ RoleLetter["White"] = "w" /\ RoleLetter["Black"] = "b"
        /\ RoleLetter["Spectator"] = "-"
    BY DEF RoleLetter, ColorLetter
  <1>2. word \in Word
    <2>1. word \in {"w", "b", "-"}
      BY <1>1
    <2>2. {"w", "b", "-"} \subseteq Word
      BY LiteralsAreWords
    <2> QED BY <2>1, <2>2
  <1>3. \A r \in DOMAIN RoleLetter : RoleLetter[r] = word => r = role
    BY <1>1
  <1>4. /\ "ROLE" \in Word /\ "ROLE" \notin FreeText
        /\ "ROLE" \notin RoomName /\ "ROLE" \notin TagOnly
    BY TagFacts
  <1>5. m.tag = "ROLE" /\ m.body = role
    BY DEF Message
  <1> HIDE DEF word
  <1>6. EncodePayload(m, Height) = payload
    <2>1. m.tag \notin RoomName \cup FreeText /\ m.tag \notin TagOnly
      BY <1>4, <1>5
    <2> QED BY <1>5, <2>1 DEF EncodePayload, word
  <1>7. payload \in Seq(Seq(Word)) /\ payload # << >> /\ payload[1] # << >>
    <2>1. <<word>> \in Seq(Word) /\ <<word>> # << >>
      BY <1>2, OneWordFacts
    <2> QED BY <2>1, OneLineFacts
  <1>8. DecodeRole(payload) = {role}
    <2>1. payload = OneLine(<<RoleLetter[role]>>)
      BY DEF word
    <2>2. ASSUME NEW r \in DOMAIN RoleLetter, payload = OneLine(<<RoleLetter[r]>>)
          PROVE  r = role
      <3>1. << <<RoleLetter[r]>> >> = << <<word>> >>
        BY <2>2 DEF OneLine
      <3>2. RoleLetter[r] = word
        BY <3>1
      <3> QED BY <1>3, <3>2
    <2> HIDE DEF payload
    <2> QED BY <2>1, <2>2 DEF DecodeRole
  <1> HIDE DEF payload
  <1>9. DecodePayload("ROLE", payload, Height) = {role}
    <2>1. ASSUME NEW tag, tag = "ROLE"
          PROVE  DecodePayload(tag, payload, Height) = DecodeRole(payload)
      <3>1. /\ tag # "CMD" /\ tag # "MOVE" /\ tag # "CAPTURE" /\ tag # "OPPGONE"
            /\ tag # "STATE" /\ tag # "LOGIN" /\ tag # "ROSTER"
            /\ tag \notin FreeText /\ tag \notin RoomName /\ tag \notin TagOnly
        BY <1>4, <2>1
      <3> QED BY <2>1, <3>1 DEF DecodePayload
    <2> QED BY <1>8, <2>1
  <1> QED BY <1>4, <1>6, <1>7, <1>9, WholeMessageIsRead

LEMMA FullOfSix ==
    ASSUME NEW a \in Word, NEW b \in Word, NEW c \in Word,
           NEW d \in Word, NEW e \in Word, NEW f \in Word,
           a # NoWord, b # NoWord, c # NoWord, d # NoWord, e # NoWord, f # NoWord
    PROVE  /\ IsFull(<<a, b, c, d, e, f>>) /\ Len(<<a, b, c, d, e, f>>) = 6
           /\ <<a, b, c, d, e, f>> # << >>
  BY DEF IsFull

EventValue ==
    [player : Color, kind : Kind, from : Cells, to : Cells,
     timeMs : Numbers, isCapture : BOOLEAN, isJump : BOOLEAN]

LEMMA EventIsRead ==
    ASSUME NEW e \in EventValue
    PROVE  LET line == EncodeMoveEvent(e, Height)
           IN  /\ line \in Seq(Word) /\ line # << >>
               /\ DecodeMoveEvent(OneLine(line), Height) = {e}
  <1> DEFINE line == EncodeMoveEvent(e, Height)
             payload == OneLine(line)
             a == EncodePieceToken(e.player, e.kind)
             b == SquareName(e.from, Height)
             c == SquareName(e.to, Height)
             d == ToString(e.timeMs)
             f == EncodeFlag(e.isCapture)
             g == EncodeFlag(e.isJump)
  <1>1. /\ e.player \in Color /\ e.kind \in Kind /\ e.from \in Cells /\ e.to \in Cells
        /\ e.timeMs \in Numbers /\ e.isCapture \in BOOLEAN /\ e.isJump \in BOOLEAN
        /\ e = [player |-> e.player, kind |-> e.kind, from |-> e.from, to |-> e.to,
                timeMs |-> e.timeMs, isCapture |-> e.isCapture, isJump |-> e.isJump]
    BY DEF EventValue
  <1>2. a \in Word /\ b \in Word /\ c \in Word /\ d \in Word /\ f \in Word /\ g \in Word
    BY <1>1, WordsAreWords
  <1>3. /\ a # NoWord /\ b # NoWord /\ c # NoWord /\ d # NoWord
        /\ f # NoWord /\ g # NoWord
    BY <1>1, LiteralsArePresent
  <1>4. /\ PieceFromToken(a) = {[color |-> e.player, kind |-> e.kind]}
        /\ SquareFromName(b, Height) = {e.from}
        /\ SquareFromName(c, Height) = {e.to}
        /\ IntegerIn(d) = {e.timeMs}
        /\ DecodeFlag(f) = {e.isCapture}
        /\ DecodeFlag(g) = {e.isJump}
    <2>1. PieceFromToken(a) = {[color |-> e.player, kind |-> e.kind]}
      BY <1>1, TokensAreRead
    <2>2. SquareFromName(b, Height) = {e.from} /\ SquareFromName(c, Height) = {e.to}
      BY <1>1, SquaresAreRead
    <2>3. IntegerIn(d) = {e.timeMs}
      BY <1>1, NumeralsAreRead
    <2>4. DecodeFlag(f) = {e.isCapture} /\ DecodeFlag(g) = {e.isJump}
      BY <1>1, FlagsAreRead
    <2> QED BY <2>1, <2>2, <2>3, <2>4
  <1>5. line = <<a, b, c, d, f, g>>
    BY DEF EncodeMoveEvent
  <1> HIDE DEF line, a, b, c, d, f, g
  <1>6. IsFull(line) /\ Len(line) = 6 /\ line # << >>
    BY <1>2, <1>3, <1>5, FullOfSix
  <1>7. line \in Seq(Word) /\ Tokens(line) = line
    BY <1>6, TokensOfFull DEF IsFull
  <1>8. payload[1] = line
    BY <1>6, <1>7, OneLineFacts
  <1>9. /\ line[1] = a /\ line[2] = b /\ line[3] = c
        /\ line[4] = d /\ line[5] = f /\ line[6] = g
    BY <1>5
  <1> HIDE DEF payload
  <1>10. Tokens(payload[1]) = line
    BY <1>7, <1>8
  <1>11. DecodeMoveEvent(payload, Height) =
           {[player |-> p.color, kind |-> p.kind, from |-> from, to |-> to,
             timeMs |-> n, isCapture |-> capture, isJump |-> jump] :
               p \in PieceFromToken(line[1]),
               from \in SquareFromName(line[2], Height),
               to \in SquareFromName(line[3], Height),
               n \in IntegerIn(line[4]),
               capture \in DecodeFlag(line[5]), jump \in DecodeFlag(line[6])}
    BY <1>6, <1>10 DEF DecodeMoveEvent
  <1>12. DecodeMoveEvent(payload, Height) =
           {[player |-> p.color, kind |-> p.kind, from |-> from, to |-> to,
             timeMs |-> n, isCapture |-> capture, isJump |-> jump] :
               p \in {[color |-> e.player, kind |-> e.kind]},
               from \in {e.from}, to \in {e.to}, n \in {e.timeMs},
               capture \in {e.isCapture}, jump \in {e.isJump}}
    BY <1>4, <1>9, <1>11
  <1>13. DecodeMoveEvent(payload, Height) = {e}
    BY <1>1, <1>12
  <1> QED BY <1>6, <1>7, <1>13 DEF line, payload

LEMMA EventsSurvive ==
    ASSUME NEW e \in EventValue, NEW m, m = Message("MOVE", e)
    PROVE  Encode(m, Height) # << >> /\ Decode(Encode(m, Height), Height) = {m}
  <1> DEFINE line == EncodeMoveEvent(e, Height)
             payload == OneLine(line)
  <1>1. line \in Seq(Word) /\ line # << >> /\ DecodeMoveEvent(payload, Height) = {e}
    BY EventIsRead
  <1>2. "MOVE" \in Word /\ "MOVE" \notin FreeText /\ "MOVE" \notin RoomName /\ "MOVE" \notin TagOnly
    BY TagFacts
  <1>3. m.tag = "MOVE" /\ m.body = e
    BY DEF Message
  <1> HIDE DEF line
  <1>4. EncodePayload(m, Height) = payload
    <2>1. m.tag \notin RoomName \cup FreeText /\ m.tag \notin TagOnly
      BY <1>2, <1>3
    <2> QED BY <1>3, <2>1 DEF EncodePayload, line
  <1>5. payload \in Seq(Seq(Word)) /\ payload # << >> /\ payload[1] # << >>
    BY <1>1, OneLineFacts
  <1> HIDE DEF payload
  <1>6. DecodePayload("MOVE", payload, Height) = {e}
    <2>1. ASSUME NEW tag, tag = "MOVE"
          PROVE  DecodePayload(tag, payload, Height) = DecodeMoveEvent(payload, Height)
      <3>1. /\ tag # "CMD" /\ tag # "ROLE" /\ tag # "CAPTURE" /\ tag # "OPPGONE"
            /\ tag # "STATE" /\ tag # "LOGIN" /\ tag # "ROSTER"
            /\ tag \notin FreeText /\ tag \notin RoomName /\ tag \notin TagOnly
        BY <1>2, <2>1
      <3> QED BY <2>1, <3>1 DEF DecodePayload
    <2> QED BY <1>1, <2>1
  <1> QED BY <1>2, <1>4, <1>5, <1>6, WholeMessageIsRead

LEMMA CapturesSurvive ==
    ASSUME NEW p \in [color : Color, kind : Kind], NEW m, m = Message("CAPTURE", p)
    PROVE  Encode(m, Height) # << >> /\ Decode(Encode(m, Height), Height) = {m}
  <1> DEFINE word == EncodePieceToken(p.color, p.kind)
             payload == OneLine(<<word>>)
  <1>1. p = [color |-> p.color, kind |-> p.kind] /\ p.color \in Color /\ p.kind \in Kind
    OBVIOUS
  <1>2. word \in Word /\ word # NoWord
    BY <1>1, WordsAreWords, LiteralsArePresent
  <1>3. PieceFromToken(word) = {p}
    <2>1. PieceFromToken(word) = {[color |-> p.color, kind |-> p.kind]}
      BY <1>1, TokensAreRead
    <2> QED BY <1>1, <2>1
  <1>4. /\ "CAPTURE" \in Word /\ "CAPTURE" \notin FreeText
        /\ "CAPTURE" \notin RoomName /\ "CAPTURE" \notin TagOnly
    BY TagFacts
  <1>5. m.tag = "CAPTURE" /\ m.body = p
    BY DEF Message
  <1> HIDE DEF word
  <1>6. EncodePayload(m, Height) = payload
    <2>1. m.tag \notin RoomName \cup FreeText /\ m.tag \notin TagOnly
      BY <1>4, <1>5
    <2> QED BY <1>5, <2>1 DEF EncodePayload, word
  <1>7. /\ payload \in Seq(Seq(Word)) /\ payload # << >>
        /\ payload[1] = <<word>> /\ payload[1] # << >>
    <2>1. <<word>> \in Seq(Word) /\ <<word>> # << >>
      BY <1>2, OneWordFacts
    <2> QED BY <2>1, OneLineFacts
  <1> HIDE DEF payload
  <1>8. DecodeCapturedPiece(payload) = {p}
    <2>1. Tokens(payload[1]) = <<word>> /\ Len(<<word>>) = 1 /\ <<word>>[1] = word
      BY <1>2, <1>7, OneWordFacts
    <2> QED BY <1>3, <2>1 DEF DecodeCapturedPiece
  <1>9. DecodePayload("CAPTURE", payload, Height) = {p}
    <2>1. ASSUME NEW tag, tag = "CAPTURE"
          PROVE  DecodePayload(tag, payload, Height) = DecodeCapturedPiece(payload)
      <3>1. /\ tag # "CMD" /\ tag # "ROLE" /\ tag # "MOVE" /\ tag # "OPPGONE"
            /\ tag # "STATE" /\ tag # "LOGIN" /\ tag # "ROSTER"
            /\ tag \notin FreeText /\ tag \notin RoomName /\ tag \notin TagOnly
        BY <1>4, <2>1
      <3> QED BY <2>1, <3>1 DEF DecodePayload
    <2> QED BY <1>8, <2>1
  <1> QED BY <1>4, <1>6, <1>7, <1>9, WholeMessageIsRead

LEMMA FilteredOne ==
    ASSUME NEW S, NEW vector \in Seq(S), NEW i \in DOMAIN vector
    PROVE  /\ Filtered(vector, {i}) # << >>
           /\ Last(Filtered(vector, {i})) = vector[i]
  <1> DEFINE one == Filtered(vector, {i})
             a == i - 1
             m == 1
  <1>1. i \in 1 .. Len(vector) /\ Len(vector) \in Nat
    BY SequenceIsFunction
  <1>2. a \in Nat /\ m \in Nat /\ a + 1 .. a + m = {i}
    BY <1>1
  <1> HIDE DEF a, m
  <1>3. Filtered(vector, a + 1 .. a + m) = [k \in 1 .. m |-> vector[a + k]]
    BY <1>2, BlockFacts, SMTT(30)
  <1>4. one = [k \in 1 .. 1 |-> vector[i - 1 + k]]
    BY <1>2, <1>3 DEF a, m
  <1>5. \A k \in 1 .. 1 : i - 1 + k = i
    BY <1>1
  <1> HIDE DEF one
  <1> DEFINE x == vector[i]
  <1>6. one = [k \in 1 .. 1 |-> x]
    BY <1>4, <1>5
  <1> HIDE DEF x
  <1>7. one \in Seq({x}) /\ Len(one) = 1 /\ one[1] = x
    BY <1>6
  <1>8. one # << >> /\ Last(one) = x
    BY <1>7, SMTT(30) DEF Last
  <1> QED BY <1>8 DEF one, x

LEMMA NamesAreLines ==
    ASSUME NEW name \in Name
    PROVE  name \in Seq(Word) /\ name # << >> /\ Len(name) >= 1 /\ ~ IsBlank(name)
  <1>1. name \in Seq(Word) /\ Tokens(name) # << >>
    BY DEF Name
  <1>2. name # << >>
    <2>1. << >> \in Seq(Word) /\ DOMAIN << >> = {}
      OBVIOUS
    <2>2. \A i \in DOMAIN << >> : << >>[i] # NoWord
      BY <2>1
    <2>3. Tokens(<< >>) = << >>
      BY <2>1, <2>2, TokensOfFull
    <2> QED BY <1>1, <2>3
  <1>3. Len(name) >= 1
    BY <1>1, <1>2, SequenceIsFunction
  <1> QED BY <1>1, <1>2, <1>3 DEF IsBlank

\* The value of a keyword that stands in one line.
LEMMA ValueFacts ==
    ASSUME NEW payload \in Seq(Seq(Word)), NEW keyword, NEW i \in DOMAIN payload,
           ValueLines(payload, keyword) = {i}
    PROVE  Value(payload, keyword) = {Tail(payload[i])}
  <1> DEFINE lines == Filtered(payload, ValueLines(payload, keyword))
  <1>2. lines # << >> /\ Last(lines) = payload[i]
    BY FilteredOne
  <1>3. Value(payload, keyword) = IF lines = << >> THEN {} ELSE {Tail(Last(lines))}
    BY DEF Value
  <1> HIDE DEF lines
  <1> QED BY <1>2, <1>3

\* A line with its keyword in front.
LEMMA KeywordLine ==
    ASSUME NEW keyword \in Word, NEW value \in Seq(Word), value # << >>
    PROVE  LET line == <<keyword>> \o value
           IN  /\ line \in Seq(Word) /\ line # << >> /\ Len(line) >= 2
               /\ Head(line) = keyword /\ Tail(line) = value
  <1> DEFINE line == <<keyword>> \o value
  <1>1. /\ line \in Seq(Word) /\ Len(line) = Len(value) + 1 /\ line[1] = keyword
        /\ Tail(line) = value
    BY PrependFacts
  <1>2. Len(value) \in Nat /\ Len(value) >= 1
    BY SequenceIsFunction
  <1> HIDE DEF line
  <1>3. Len(line) >= 2
    BY <1>1, <1>2
  <1>4. line # << >>
    BY <1>1, <1>3, LongFacts
  <1>5. Head(line) = line[1]
    BY <1>1, <1>4, TailFacts
  <1> QED BY <1>1, <1>3, <1>4, <1>5 DEF line

LEMMA LoginsSurvive ==
    ASSUME NEW login \in [username : Name, password : Name], NEW m, m = Message("LOGIN", login)
    PROVE  Encode(m, Height) # << >> /\ Decode(Encode(m, Height), Height) = {m}
  <1> DEFINE u == login.username
             p == login.password
             user == <<"user">> \o u
             pass == <<"pass">> \o p
             payload == <<user, pass>>
  <1>1. u \in Name /\ p \in Name /\ login = [username |-> u, password |-> p]
    OBVIOUS
  <1> HIDE DEF u, p
  <1>2. /\ u \in Seq(Word) /\ u # << >> /\ ~ IsBlank(u)
        /\ p \in Seq(Word) /\ p # << >> /\ ~ IsBlank(p)
    BY <1>1, NamesAreLines
  <1>3. "user" \in Word /\ "pass" \in Word /\ "user" # "pass"
    BY LiteralsAreWords
  <1>4. /\ user \in Seq(Word) /\ user # << >> /\ Len(user) >= 2
        /\ Head(user) = "user" /\ Tail(user) = u
        /\ pass \in Seq(Word) /\ pass # << >> /\ Len(pass) >= 2
        /\ Head(pass) = "pass" /\ Tail(pass) = p
    BY <1>2, <1>3, KeywordLine
  <1>5. payload[1] = user /\ payload[2] = pass
    OBVIOUS
  <1>6. /\ payload \in Seq(Seq(Word)) /\ payload # << >> /\ DOMAIN payload = {1, 2}
    <2> HIDE DEF user, pass
    <2> QED BY <1>4
  <1>7. EncodeLogin(login) = payload
    BY DEF EncodeLogin, u, p
  <1> HIDE DEF payload, user, pass
  <1>8. Value(payload, "user") = {u}
    <2>1. 1 \in DOMAIN payload /\ payload[1] = user
      BY <1>5, <1>6
    <2>2. \A k \in DOMAIN payload :
             Len(payload[k]) >= 2 /\ Head(payload[k]) = "user" <=> k = 1
      <3>1. Len(user) >= 2 /\ Head(user) = "user" /\ Head(pass) # "user"
        BY <1>3, <1>4
      <3>2. \A k \in DOMAIN payload : k = 1 \/ (k = 2 /\ payload[k] = pass)
        BY <1>5, <1>6
      <3> QED BY <2>1, <3>1, <3>2
    <2>3. ValueLines(payload, "user") = {1}
      BY <2>1, <2>2 DEF ValueLines
    <2>4. Value(payload, "user") = {Tail(payload[1])}
      <3>1. payload \in Seq(Seq(Word))
        BY <1>6
      <3>2. ASSUME NEW i \in DOMAIN payload, NEW keyword, ValueLines(payload, keyword) = {i}
            PROVE  Value(payload, keyword) = {Tail(payload[i])}
        BY <3>1, <3>2, ValueFacts
      <3> QED BY <2>1, <2>3, <3>2, Zenon
    <2> QED BY <1>4, <2>1, <2>4
  <1>9. Value(payload, "pass") = {p}
    <2>1. 2 \in DOMAIN payload /\ payload[2] = pass
      BY <1>5, <1>6
    <2>2. \A k \in DOMAIN payload :
             Len(payload[k]) >= 2 /\ Head(payload[k]) = "pass" <=> k = 2
      <3>1. Len(pass) >= 2 /\ Head(pass) = "pass" /\ Head(user) # "pass"
        BY <1>3, <1>4
      <3>2. \A k \in DOMAIN payload : k = 2 \/ (k = 1 /\ payload[k] = user)
        BY <1>5, <1>6
      <3> QED BY <2>1, <3>1, <3>2
    <2>3. ValueLines(payload, "pass") = {2}
      BY <2>1, <2>2 DEF ValueLines
    <2>4. Value(payload, "pass") = {Tail(payload[2])}
      <3>1. payload \in Seq(Seq(Word))
        BY <1>6
      <3>2. ASSUME NEW i \in DOMAIN payload, NEW keyword, ValueLines(payload, keyword) = {i}
            PROVE  Value(payload, keyword) = {Tail(payload[i])}
        BY <3>1, <3>2, ValueFacts
      <3> QED BY <2>1, <2>3, <3>2, Zenon
    <2> QED BY <1>4, <2>1, <2>4
  <1>11. DecodeLogin(payload) = {login}
    <2>1. {v \in {u} : ~ IsBlank(v)} = {u} /\ {v \in {p} : ~ IsBlank(v)} = {p}
      BY <1>2
    <2>2. DecodeLogin(payload) = {[username |-> a, password |-> b] : a \in {u}, b \in {p}}
      BY <1>8, <1>9, <2>1 DEF DecodeLogin
    <2> QED BY <1>1, <2>2
  <1>12. /\ "LOGIN" \in Word /\ "LOGIN" \notin FreeText
         /\ "LOGIN" \notin RoomName /\ "LOGIN" \notin TagOnly
    BY TagFacts
  <1>13. m.tag = "LOGIN" /\ m.body = login
    BY DEF Message
  <1>14. EncodePayload(m, Height) = payload
    <2>1. m.tag \notin RoomName \cup FreeText /\ m.tag \notin TagOnly
      BY <1>12, <1>13
    <2> QED BY <1>7, <1>13, <2>1 DEF EncodePayload
  <1>15. DecodePayload("LOGIN", payload, Height) = {login}
    <2>1. ASSUME NEW tag, tag = "LOGIN"
          PROVE  DecodePayload(tag, payload, Height) = DecodeLogin(payload)
      <3>1. /\ tag # "CMD" /\ tag # "ROLE" /\ tag # "MOVE" /\ tag # "OPPGONE"
            /\ tag # "STATE" /\ tag # "CAPTURE" /\ tag # "ROSTER"
            /\ tag \notin FreeText /\ tag \notin RoomName /\ tag \notin TagOnly
        BY <1>12, <2>1
      <3> QED BY <2>1, <3>1 DEF DecodePayload
    <2> QED BY <1>11, <2>1
  <1>16. payload[1] # << >>
    BY <1>4, <1>5
  <1> QED BY <1>6, <1>12, <1>14, <1>15, <1>16, WholeMessageIsRead

\* A seat in a roster: the line that is written of it, and what is read.
LEMMA SeatLineFacts ==
    ASSUME NEW color \in Color, NEW p \in PlayerValue
    PROVE  LET line == SeatLine(color, p)
           IN  /\ line \in Seq(Word) /\ line # << >> /\ Len(line) >= 3
               /\ Head(line) = SeatKeyword[color]
               /\ IntegerIn(line[2]) = {p.rating}
               /\ SubSeq(line, 3, Len(line)) = p.name
               /\ IsSeatLine(line, color)
  <1> DEFINE line == SeatLine(color, p)
             a == SeatKeyword[color]
             b == ToString(p.rating)
             name == p.name
             front == <<a, b>>
  <1>1. p.name \in Name /\ p.rating \in Numbers
    BY DEF PlayerValue
  <1>2. /\ name \in Seq(Word) /\ Len(name) >= 1 /\ Len(name) \in Nat
        /\ a \in Word /\ b \in Word /\ IntegerIn(b) = {p.rating}
    <2>1. name \in Seq(Word) /\ Len(name) >= 1
      BY <1>1, NamesAreLines
    <2>2. a \in Word
      <3>1. a \in {"white", "black"}
        BY DEF SeatKeyword, Color
      <3>2. {"white", "black"} \subseteq Word
        BY LiteralsAreWords
      <3> QED BY <3>1, <3>2
    <2>3. b \in Word /\ IntegerIn(b) = {p.rating}
      BY <1>1, NumeralsAreRead DEF IsPlain
    <2> HIDE DEF name
    <2>4. Len(name) \in Nat
      BY <2>1, SequenceIsFunction
    <2> QED BY <2>1, <2>2, <2>3, <2>4
  <1>3. line = front \o name
    BY DEF SeatLine
  <1> HIDE DEF line, a, b, name
  <1>4. front \in Seq(Word) /\ Len(front) = 2 /\ front[1] = a /\ front[2] = b
    BY <1>2
  <1> HIDE DEF front
  <1>5. /\ line \in Seq(Word) /\ Len(line) = 2 + Len(name)
        /\ \A k \in 1 .. 2 : line[k] = front[k]
        /\ \A k \in 1 .. Len(name) : line[2 + k] = name[k]
    <2>1. /\ front \o name \in Seq(Word) /\ Len(front \o name) = Len(front) + Len(name)
          /\ \A k \in 1 .. Len(front) + Len(name) :
                (front \o name)[k] = IF k <= Len(front) THEN front[k]
                                     ELSE name[k - Len(front)]
      BY <1>2, <1>4, ConcatFacts
    <2>2. /\ line \in Seq(Word) /\ Len(line) = 2 + Len(name)
          /\ \A k \in 1 .. 2 + Len(name) :
                line[k] = IF k <= 2 THEN front[k] ELSE name[k - 2]
      BY <1>3, <1>4, <2>1
    <2>3. \A k \in 1 .. 2 : k \in 1 .. 2 + Len(name) /\ k <= 2
      BY <1>2
    <2>4. \A k \in 1 .. Len(name) :
             2 + k \in 1 .. 2 + Len(name) /\ ~ (2 + k <= 2) /\ 2 + k - 2 = k
      BY <1>2
    <2> QED BY <2>2, <2>3, <2>4
  <1>6. line[1] = a /\ line[2] = b
    BY <1>4, <1>5
  <1>7. Len(line) >= 3
    BY <1>2, <1>5
  <1>8. line # << >> /\ Head(line) = a
    <2>1. Len(line) >= 2
      BY <1>7, <1>5, <1>2
    <2>2. line # << >>
      BY <1>5, <2>1, LongFacts
    <2> QED BY <1>5, <1>6, <2>2, TailFacts
  <1>9. SubSeq(line, 3, Len(line)) = name
    <2> DEFINE rest == SubSeq(line, 3, Len(line))
    <2>1. /\ rest \in Seq(Word) /\ Len(rest) = Len(name)
          /\ \A k \in 1 .. Len(name) : rest[k] = line[2 + k]
      BY <1>2, <1>5
    <2> HIDE DEF rest
    <2>2. /\ rest = [k \in 1 .. Len(name) |-> rest[k]]
          /\ name = [k \in 1 .. Len(name) |-> name[k]]
      BY <1>2, <2>1, SequenceIsFunction
    <2>3. \A k \in 1 .. Len(name) : rest[k] = name[k]
      BY <1>5, <2>1
    <2>4. rest = name
      BY <2>2, <2>3
    <2> QED BY <2>4 DEF rest
  <1>10. IsSeatLine(line, color)
    <2>1. IntegerIn(line[2]) # {}
      BY <1>2, <1>6
    <2> QED BY <1>7, <1>8, <2>1 DEF IsSeatLine, a
  <1> QED BY <1>2, <1>5, <1>6, <1>7, <1>8, <1>9, <1>10 DEF line, a, name

LEMMA OtherSeat ==
    ASSUME NEW color \in Color, NEW other \in Color, color # other, NEW line,
           Head(line) = SeatKeyword[other]
    PROVE  ~ IsSeatLine(line, color)
  <1>1. SeatKeyword[color] # SeatKeyword[other]
    BY DEF SeatKeyword, Color
  <1> QED BY <1>1 DEF IsSeatLine

LEMMA NoSeatIsRead ==
    ASSUME NEW payload, NEW color, SeatsAt(payload, color) = {}
    PROVE  SeatIn(payload, color) = {}
  <1>1. Cardinality({}) = 0
    BY FS_EmptySet
  <1>2. Filtered(payload, {}) = [i \in 1 .. 0 |-> payload[Nth({}, i)]]
    BY <1>1 DEF Filtered
  <1>4. Filtered(payload, {}) = << >>
    BY <1>2
  <1> QED BY <1>4 DEF SeatIn

LEMMA SeatIsRead ==
    ASSUME NEW payload \in Seq(Seq(Word)), NEW color \in Color, NEW p \in PlayerValue,
           NEW i \in DOMAIN payload, payload[i] = SeatLine(color, p),
           SeatsAt(payload, color) = {i}
    PROVE  SeatIn(payload, color) = {p}
  <1> DEFINE lines == Filtered(payload, SeatsAt(payload, color))
             line == SeatLine(color, p)
  <1>1. /\ IntegerIn(line[2]) = {p.rating}
        /\ SubSeq(line, 3, Len(line)) = p.name
        /\ IsSeatLine(line, color)
    BY SeatLineFacts
  <1>3. lines # << >> /\ Last(lines) = line
    BY FilteredOne
  <1>4. SeatIn(payload, color) =
          IF lines = << >> THEN {}
          ELSE {[name |-> SubSeq(Last(lines), 3, Len(Last(lines))), rating |-> n] :
                  n \in IntegerIn(Last(lines)[2])}
    BY DEF SeatIn
  <1> HIDE DEF lines, line
  <1>5. SeatIn(payload, color) =
          {[name |-> SubSeq(line, 3, Len(line)), rating |-> n] : n \in IntegerIn(line[2])}
    BY <1>3, <1>4
  <1>6. SeatIn(payload, color) = {[name |-> p.name, rating |-> n] : n \in {p.rating}}
    BY <1>1, <1>5 DEF line
  <1>7. p = [name |-> p.name, rating |-> p.rating]
    BY DEF PlayerValue
  <1> QED BY <1>6, <1>7

\* The lines of one seat, of none or one player.
LEMMA SeatLinesFacts ==
    ASSUME NEW roster, IsRoster(roster), NEW color \in Color
    PROVE  \/ roster[color] = {} /\ SeatLines(roster, color) = << >>
           \/ \E p \in PlayerValue :
                 roster[color] = {p} /\ SeatLines(roster, color) = <<SeatLine(color, p)>>
  <1>1. roster[color] \subseteq PlayerValue /\ \A p, q \in roster[color] : p = q
    BY DEF IsRoster
  <1>2. CASE roster[color] = {}
    BY <1>2 DEF SeatLines
  <1>3. CASE roster[color] # {}
    <2>1. PICK p \in roster[color] : TRUE
      BY <1>3
    <2>2. roster[color] = {p} /\ p \in PlayerValue
      BY <1>1, <2>1
    <2>3. (CHOOSE q \in roster[color] : TRUE) = p
      BY <2>2
    <2>4. SeatLines(roster, color) = <<SeatLine(color, p)>>
      BY <1>3, <2>3 DEF SeatLines
    <2> QED BY <2>2, <2>4
  <1> QED BY <1>2, <1>3

LEMMA RosterIsMade ==
    ASSUME NEW roster, IsRoster(roster), NEW payload,
           \A color \in Color : SeatIn(payload, color) = roster[color]
    PROVE  DecodeRoster(payload) = {roster}
  <1>1. roster \in [Color -> SUBSET PlayerValue]
    BY DEF IsRoster
  <1>2. [color \in Color |-> SeatIn(payload, color)] = roster
    BY <1>1
  <1> QED BY <1>2 DEF DecodeRoster

LEMMA NobodySits ==
    ASSUME NEW roster, IsRoster(roster), roster["White"] = {}, roster["Black"] = {}
    PROVE  DecodeRoster(Blank) = {roster}
  <1>1. \A color \in Color : SeatsAt(Blank, color) = {}
    <2>1. NoWord \in Word
      BY LiteralsAreWords
    <2>2. <<NoWord>> \in Seq(Word) /\ <<NoWord>> # << >> /\ Len(<<NoWord>>) = 1
      BY <2>1, OneWordFacts
    <2>3. \A i \in DOMAIN Blank : Blank[i] = <<NoWord>>
      BY DEF Blank, OneLine
    <2>4. ASSUME NEW i \in DOMAIN Blank
          PROVE  ~ (Len(Blank[i]) >= 3)
      <3>1. Len(Blank[i]) = 1
        BY <2>2, <2>3, Zenon
      <3> QED BY <3>1
    <2> QED BY <2>4 DEF SeatsAt, IsSeatLine
  <1>2. \A color \in Color : SeatIn(Blank, color) = {}
    BY <1>1, NoSeatIsRead
  <1>3. \A color \in Color : roster[color] = {}
    BY DEF Color
  <1> QED BY <1>2, <1>3, RosterIsMade

LEMMA OneSits ==
    ASSUME NEW roster, IsRoster(roster), NEW color \in Color, NEW p \in PlayerValue,
           roster[color] = {p}, \A other \in Color : other # color => roster[other] = {},
           NEW payload, payload = <<SeatLine(color, p)>>
    PROVE  /\ payload \in Seq(Seq(Word)) /\ payload # << >> /\ payload[1] # << >>
           /\ DecodeRoster(payload) = {roster}
  <1> DEFINE line == SeatLine(color, p)
  <1>1. /\ line \in Seq(Word) /\ line # << >> /\ Head(line) = SeatKeyword[color]
        /\ IsSeatLine(line, color)
    BY SeatLineFacts
  <1> HIDE DEF line
  <1>2. /\ payload \in Seq(Seq(Word)) /\ payload # << >>
        /\ DOMAIN payload = {1} /\ payload[1] = line
    <2>1. payload = <<line>>
      BY DEF line
    <2> QED BY <1>1, <2>1
  <1>3. SeatIn(payload, color) = {p}
    <2>1. ASSUME NEW i \in DOMAIN payload
          PROVE  SeatIn(payload, color) = {p}
      <3>1. payload[i] = SeatLine(color, p)
        BY <1>2 DEF line
      <3>2. SeatsAt(payload, color) = {i}
        BY <1>1, <1>2 DEF SeatsAt
      <3>3. payload \in Seq(Seq(Word))
        BY <1>2
      <3> QED BY <3>1, <3>2, <3>3, SeatIsRead, ZenonT(30)
    <2> QED BY <1>2, <2>1
  <1>4. ASSUME NEW other \in Color, other # color
        PROVE  SeatIn(payload, other) = {}
    <2>1. ~ IsSeatLine(line, other)
      BY <1>1, <1>4, OtherSeat
    <2>2. SeatsAt(payload, other) = {}
      BY <1>2, <2>1 DEF SeatsAt
    <2> QED BY <2>2, NoSeatIsRead
  <1>5. \A c \in Color : SeatIn(payload, c) = roster[c]
    <2> TAKE c \in Color
    <2>1. CASE c = color
      BY <1>3, <2>1
    <2>2. CASE c # color
      BY <1>4, <2>2
    <2> QED BY <2>1, <2>2
  <1>6. DecodeRoster(payload) = {roster}
    BY <1>5, RosterIsMade
  <1> QED BY <1>1, <1>2, <1>6

LEMMA BothSit ==
    ASSUME NEW roster, IsRoster(roster), NEW p \in PlayerValue, NEW q \in PlayerValue,
           roster["White"] = {p}, roster["Black"] = {q},
           NEW payload, payload = <<SeatLine("White", p), SeatLine("Black", q)>>
    PROVE  /\ payload \in Seq(Seq(Word)) /\ payload # << >> /\ payload[1] # << >>
           /\ DecodeRoster(payload) = {roster}
  <1> DEFINE a == SeatLine("White", p)
             b == SeatLine("Black", q)
  <1>1. "White" \in Color /\ "Black" \in Color /\ Color = {"White", "Black"} /\ "White" # "Black"
    BY DEF Color
  <1>2. /\ a \in Seq(Word) /\ a # << >> /\ Head(a) = SeatKeyword["White"]
        /\ IsSeatLine(a, "White")
    BY <1>1, SeatLineFacts
  <1>3. /\ b \in Seq(Word) /\ b # << >> /\ Head(b) = SeatKeyword["Black"]
        /\ IsSeatLine(b, "Black")
    BY <1>1, SeatLineFacts
  <1>4. ~ IsSeatLine(a, "Black") /\ ~ IsSeatLine(b, "White")
    BY <1>1, <1>2, <1>3, OtherSeat
  <1>5. payload = <<a, b>>
    OBVIOUS
  <1> HIDE DEF a, b
  <1>6. /\ payload \in Seq(Seq(Word)) /\ payload # << >>
        /\ DOMAIN payload = {1, 2} /\ payload[1] = a /\ payload[2] = b
    BY <1>2, <1>3, <1>5
  <1>7. SeatsAt(payload, "White") = {1} /\ SeatsAt(payload, "Black") = {2}
    <2>1. \A i \in DOMAIN payload : IsSeatLine(payload[i], "White") <=> i = 1
      BY <1>2, <1>4, <1>6
    <2>2. \A i \in DOMAIN payload : IsSeatLine(payload[i], "Black") <=> i = 2
      BY <1>3, <1>4, <1>6
    <2>3. 1 \in DOMAIN payload /\ 2 \in DOMAIN payload
      BY <1>6
    <2> QED BY <2>1, <2>2, <2>3 DEF SeatsAt
  <1>8. ASSUME NEW color \in Color, NEW player \in PlayerValue, NEW i \in DOMAIN payload,
               payload[i] = SeatLine(color, player), SeatsAt(payload, color) = {i}
        PROVE  SeatIn(payload, color) = {player}
    <2>1. payload \in Seq(Seq(Word))
      BY <1>6
    <2> DEFINE seats == payload
    <2>2. /\ seats \in Seq(Seq(Word)) /\ i \in DOMAIN seats
          /\ seats[i] = SeatLine(color, player) /\ SeatsAt(seats, color) = {i}
      BY <1>8, <2>1
    <2> HIDE DEF seats
    <2>3. SeatIn(seats, color) = {player}
      BY <2>2, SeatIsRead, ZenonT(30)
    <2> QED BY <2>3 DEF seats
  <1>9. SeatIn(payload, "White") = {p}
    <2>1. 1 \in DOMAIN payload /\ payload[1] = SeatLine("White", p)
      BY <1>6 DEF a
    <2> QED BY <1>1, <1>7, <1>8, <2>1, Zenon
  <1>10. SeatIn(payload, "Black") = {q}
    <2>1. 2 \in DOMAIN payload /\ payload[2] = SeatLine("Black", q)
      BY <1>6 DEF b
    <2> QED BY <1>1, <1>7, <1>8, <2>1, Zenon
  <1>11. \A c \in Color : SeatIn(payload, c) = roster[c]
    BY <1>1, <1>9, <1>10
  <1>12. DecodeRoster(payload) = {roster}
    BY <1>11, RosterIsMade
  <1> QED BY <1>2, <1>6, <1>12

LEMMA JoinOfTwo ==
    ASSUME NEW S, NEW a \in S, NEW b \in S
    PROVE  <<a>> \o <<b>> = <<a, b>> /\ <<a, b>> # << >>
  <1> DEFINE q == <<a>> \o <<b>>
  <1>1. <<a>> \in Seq(S) /\ <<b>> \in Seq(S) /\ Len(<<a>>) = 1 /\ Len(<<b>>) = 1
    OBVIOUS
  <1>2. q \in Seq(S) /\ Len(q) = 2
    BY <1>1
  <1>3. q[1] = a /\ q[2] = b
    BY <1>1
  <1> HIDE DEF q
  <1>4. q = <<a, b>>
    BY <1>2, <1>3
  <1>5. <<a, b>> # << >>
    OBVIOUS
  <1> QED BY <1>4, <1>5 DEF q

LEMMA RosterIsRead ==
    ASSUME NEW roster, IsRoster(roster), NEW payload, payload = EncodeRoster(roster)
    PROVE  /\ payload \in Seq(Seq(Word)) /\ payload # << >> /\ payload[1] # << >>
           /\ DecodeRoster(payload) = {roster}
  <1> DEFINE white == SeatLines(roster, "White")
             black == SeatLines(roster, "Black")
             both == white \o black
  <1>1. "White" \in Color /\ "Black" \in Color /\ Color = {"White", "Black"} /\ "White" # "Black"
    BY DEF Color
  <1>2. \/ roster["White"] = {} /\ white = << >>
        \/ \E p \in PlayerValue : roster["White"] = {p} /\ white = <<SeatLine("White", p)>>
    BY <1>1, SeatLinesFacts
  <1>3. \/ roster["Black"] = {} /\ black = << >>
        \/ \E q \in PlayerValue : roster["Black"] = {q} /\ black = <<SeatLine("Black", q)>>
    BY <1>1, SeatLinesFacts
  <1>4. payload = IF both = << >> THEN Blank ELSE both
    BY DEF EncodeRoster
  <1> HIDE DEF white, black
  <1>5. ASSUME NEW color \in Color, NEW p \in PlayerValue
        PROVE  SeatLine(color, p) \in Seq(Word)
    BY SeatLineFacts
  <1>6. CASE white = << >> /\ black = << >> /\ roster["White"] = {} /\ roster["Black"] = {}
    <2>1. both = << >>
      BY <1>6
    <2>2. payload = Blank
      BY <1>4, <2>1
    <2>3. Blank \in Seq(Seq(Word)) /\ Blank # << >> /\ Blank[1] # << >>
      <3>1. NoWord \in Word
        BY LiteralsAreWords
      <3>2. <<NoWord>> \in Seq(Word) /\ <<NoWord>> # << >>
        BY <3>1, OneWordFacts
      <3> QED BY <3>2, OneLineFacts DEF Blank
    <2> QED BY <1>6, <2>2, <2>3, NobodySits
  <1>7. ASSUME NEW p \in PlayerValue, roster["White"] = {p}, white = <<SeatLine("White", p)>>,
               roster["Black"] = {}, black = << >>
        PROVE  payload = <<SeatLine("White", p)>>
    <2> DEFINE line == SeatLine("White", p)
    <2>1. line \in Seq(Word)
      BY <1>1, <1>5
    <2> HIDE DEF line
    <2>2. <<line>> \o << >> = <<line>> /\ <<line>> # << >>
      BY <2>1
    <2>3. both = <<line>>
      BY <1>7, <2>2 DEF line
    <2>4. payload = <<line>>
      BY <1>4, <2>2, <2>3
    <2> QED BY <2>4 DEF line
  <1>8. ASSUME NEW q \in PlayerValue, roster["Black"] = {q}, black = <<SeatLine("Black", q)>>,
               roster["White"] = {}, white = << >>
        PROVE  payload = <<SeatLine("Black", q)>>
    <2> DEFINE line == SeatLine("Black", q)
    <2>1. line \in Seq(Word)
      BY <1>1, <1>5
    <2> HIDE DEF line
    <2>2. << >> \o <<line>> = <<line>> /\ <<line>> # << >>
      BY <2>1
    <2>3. both = <<line>>
      BY <1>8, <2>2 DEF line
    <2>4. payload = <<line>>
      BY <1>4, <2>2, <2>3
    <2> QED BY <2>4 DEF line
  <1>9. ASSUME NEW p \in PlayerValue, roster["White"] = {p}, white = <<SeatLine("White", p)>>,
               NEW q \in PlayerValue, roster["Black"] = {q}, black = <<SeatLine("Black", q)>>
        PROVE  payload = <<SeatLine("White", p), SeatLine("Black", q)>>
    <2> DEFINE a == SeatLine("White", p)
               b == SeatLine("Black", q)
    <2>1. a \in Seq(Word) /\ b \in Seq(Word)
      BY <1>1, <1>5
    <2> HIDE DEF a, b
    <2>2. <<a>> \o <<b>> = <<a, b>> /\ <<a, b>> # << >>
      BY <2>1, JoinOfTwo
    <2>3. both = <<a, b>>
      BY <1>9, <2>2 DEF a, b
    <2>4. payload = <<a, b>>
      BY <1>4, <2>2, <2>3
    <2> QED BY <2>4 DEF a, b
  <1> HIDE DEF both
  <1>10. CASE \E p \in PlayerValue :
                roster["White"] = {p} /\ white = <<SeatLine("White", p)>>
    <2>1. PICK p \in PlayerValue :
             roster["White"] = {p} /\ white = <<SeatLine("White", p)>>
      BY <1>10
    <2>2. CASE roster["Black"] = {} /\ black = << >>
      <3>1. payload = <<SeatLine("White", p)>>
        BY <1>7, <2>1, <2>2, Zenon
      <3>2. \A other \in Color : other # "White" => roster[other] = {}
        BY <1>1, <2>2
      <3> QED BY <1>1, <2>1, <3>1, <3>2, OneSits
    <2>3. CASE \E q \in PlayerValue :
                 roster["Black"] = {q} /\ black = <<SeatLine("Black", q)>>
      <3>1. PICK q \in PlayerValue :
               roster["Black"] = {q} /\ black = <<SeatLine("Black", q)>>
        BY <2>3
      <3>2. payload = <<SeatLine("White", p), SeatLine("Black", q)>>
        BY <1>9, <2>1, <3>1, Zenon
      <3> QED BY <2>1, <3>1, <3>2, BothSit
    <2> QED BY <1>3, <2>2, <2>3
  <1>11. CASE /\ roster["White"] = {} /\ white = << >>
              /\ \E q \in PlayerValue :
                    roster["Black"] = {q} /\ black = <<SeatLine("Black", q)>>
    <2>1. PICK q \in PlayerValue :
             roster["Black"] = {q} /\ black = <<SeatLine("Black", q)>>
      BY <1>11
    <2>2. payload = <<SeatLine("Black", q)>>
      BY <1>8, <1>11, <2>1, Zenon
    <2>3. \A other \in Color : other # "Black" => roster[other] = {}
      BY <1>1, <1>11
    <2> QED BY <1>1, <2>1, <2>2, <2>3, OneSits
  <1> QED BY <1>2, <1>3, <1>6, <1>10, <1>11

LEMMA RostersSurvive ==
    ASSUME NEW roster, IsRoster(roster), NEW m, m = Message("ROSTER", roster)
    PROVE  Encode(m, Height) # << >> /\ Decode(Encode(m, Height), Height) = {m}
  <1> DEFINE payload == EncodeRoster(roster)
  <1>1. /\ payload \in Seq(Seq(Word)) /\ payload # << >> /\ payload[1] # << >>
        /\ DecodeRoster(payload) = {roster}
    BY RosterIsRead
  <1>2. /\ "ROSTER" \in Word /\ "ROSTER" \notin FreeText
        /\ "ROSTER" \notin RoomName /\ "ROSTER" \notin TagOnly
    BY TagFacts
  <1>3. m.tag = "ROSTER" /\ m.body = roster
    BY DEF Message
  <1>4. EncodePayload(m, Height) = payload
    <2>1. m.tag \notin RoomName \cup FreeText /\ m.tag \notin TagOnly
      BY <1>2, <1>3
    <2> QED BY <1>3, <2>1 DEF EncodePayload
  <1> HIDE DEF payload
  <1>5. DecodePayload("ROSTER", payload, Height) = {roster}
    <2>1. ASSUME NEW tag, tag = "ROSTER"
          PROVE  DecodePayload(tag, payload, Height) = DecodeRoster(payload)
      <3>1. /\ tag # "CMD" /\ tag # "ROLE" /\ tag # "MOVE" /\ tag # "OPPGONE"
            /\ tag # "STATE" /\ tag # "CAPTURE" /\ tag # "LOGIN"
            /\ tag \notin FreeText /\ tag \notin RoomName /\ tag \notin TagOnly
        BY <1>2, <2>1
      <3> QED BY <2>1, <3>1 DEF DecodePayload
    <2> QED BY <1>1, <2>1
  <1> QED BY <1>1, <1>2, <1>4, <1>5, WholeMessageIsRead

(***************************************************************************)
(* Every message is read as it was written, whatever its alternative; only *)
(* a command between squares of different length is not read at all.       *)
(***************************************************************************)
IsSpelt(m) == m.tag = "CMD" => SameLength(m.body, Height)

LEMMA TagOfBody ==
    ASSUME NEW tag, NEW body, IsBody(tag, body)
    PROVE  \/ tag \in {"CMD", "ROLE", "MOVE", "CAPTURE", "LOGIN", "ROSTER", "OPPGONE"}
           \/ tag \in FreeText
           \/ tag \in RoomName
           \/ tag \in TagOnly
  BY DEF IsBody

LEMMA MessageSurvives ==
    ASSUME NEW m, m = Message(m.tag, m.body), IsBody(m.tag, m.body)
    PROVE  /\ Encode(m, Height) # << >>
           /\ IsSpelt(m) => Decode(Encode(m, Height), Height) = {m}
           /\ ~ IsSpelt(m) => Decode(Encode(m, Height), Height) = {}
  <1>1. ASSUME m.tag # "CMD", Encode(m, Height) # << >>,
               Decode(Encode(m, Height), Height) = {m}
        PROVE  /\ Encode(m, Height) # << >>
               /\ IsSpelt(m) => Decode(Encode(m, Height), Height) = {m}
               /\ ~ IsSpelt(m) => Decode(Encode(m, Height), Height) = {}
    BY <1>1 DEF IsSpelt
  <1>2. CASE m.tag = "CMD"
    <2>1. m.body \in CommandValue
      BY <1>2, TagFacts DEF IsBody, CommandValue
    <2>2. m = Message("CMD", m.body)
      BY <1>2
    <2>3. /\ Encode(m, Height) # << >>
          /\ Decode(Encode(m, Height), Height) =
                IF SameLength(m.body, Height) THEN {m} ELSE {}
      BY <2>1, <2>2, CommandsSurvive, Zenon
    <2>4. IsSpelt(m) <=> SameLength(m.body, Height)
      BY <1>2 DEF IsSpelt
    <2> QED BY <2>3, <2>4
  <1>3. CASE m.tag = "ROLE"
    <2>1. m.tag # "CMD" /\ m.body \in DOMAIN RoleLetter /\ m = Message("ROLE", m.body)
      BY <1>3, TagFacts DEF IsBody
    <2>2. Encode(m, Height) # << >> /\ Decode(Encode(m, Height), Height) = {m}
      BY <2>1, RolesSurvive, Zenon
    <2> QED BY <1>1, <2>1, <2>2, Zenon
  <1>4. CASE m.tag = "MOVE"
    <2>1. m.tag # "CMD" /\ m.body \in EventValue /\ m = Message("MOVE", m.body)
      BY <1>4, TagFacts DEF IsBody, EventValue
    <2>2. Encode(m, Height) # << >> /\ Decode(Encode(m, Height), Height) = {m}
      BY <2>1, EventsSurvive, Zenon
    <2> QED BY <1>1, <2>1, <2>2, Zenon
  <1>5. CASE m.tag = "CAPTURE"
    <2>1. /\ m.tag # "CMD" /\ m.body \in [color : Color, kind : Kind]
          /\ m = Message("CAPTURE", m.body)
      BY <1>5, TagFacts DEF IsBody
    <2>2. Encode(m, Height) # << >> /\ Decode(Encode(m, Height), Height) = {m}
      BY <2>1, CapturesSurvive, Zenon
    <2> QED BY <1>1, <2>1, <2>2, Zenon
  <1>6. CASE m.tag = "LOGIN"
    <2>1. /\ m.tag # "CMD" /\ m.body \in [username : Name, password : Name]
          /\ m = Message("LOGIN", m.body)
      BY <1>6, TagFacts DEF IsBody
    <2>2. Encode(m, Height) # << >> /\ Decode(Encode(m, Height), Height) = {m}
      BY <2>1, LoginsSurvive, Zenon
    <2> QED BY <1>1, <2>1, <2>2, Zenon
  <1>7. CASE m.tag = "ROSTER"
    <2>1. m.tag # "CMD" /\ IsRoster(m.body) /\ m = Message("ROSTER", m.body)
      BY <1>7, TagFacts DEF IsBody
    <2>2. Encode(m, Height) # << >> /\ Decode(Encode(m, Height), Height) = {m}
      BY <2>1, RostersSurvive, Zenon
    <2> QED BY <1>1, <2>1, <2>2, Zenon
  <1>8. CASE m.tag = "OPPGONE"
    <2>1. m.tag # "CMD" /\ m.body \in Numbers /\ m = Message("OPPGONE", m.body)
      BY <1>8, TagFacts DEF IsBody
    <2>2. Encode(m, Height) # << >> /\ Decode(Encode(m, Height), Height) = {m}
      BY <2>1, NumbersSurvive, Zenon
    <2> QED BY <1>1, <2>1, <2>2, Zenon
  <1>9. CASE m.tag \in FreeText
    <2>1. m.tag \notin {"CMD", "ROLE", "MOVE", "CAPTURE", "STATE", "LOGIN", "ROSTER", "OPPGONE"}
      BY <1>9, TagFacts
    <2>2. m.body \in Seq(Word) /\ m.body # << >>
      BY <1>9, <2>1, TagFacts DEF IsBody
    <2>3. Encode(m, Height) # << >> /\ Decode(Encode(m, Height), Height) = {m}
      BY <1>9, <2>2, FreeTextSurvives, Zenon
    <2>4. m.tag # "CMD"
      BY <2>1
    <2> QED BY <1>1, <2>3, <2>4, Zenon
  <1>10. CASE m.tag \in RoomName
    <2>1. /\ m.tag \notin {"CMD", "ROLE", "MOVE", "CAPTURE", "STATE", "LOGIN", "ROSTER", "OPPGONE"}
          /\ m.tag \notin FreeText
      BY <1>10, TagFacts
    <2>2. m.body \in Seq(Word) /\ Trimmed(m.body) = {m.body}
      BY <1>10, <2>1, TagFacts DEF IsBody
    <2>3. Encode(m, Height) # << >> /\ Decode(Encode(m, Height), Height) = {m}
      BY <1>10, <2>2, RoomNameSurvives, Zenon
    <2>4. m.tag # "CMD"
      BY <2>1
    <2> QED BY <1>1, <2>3, <2>4, Zenon
  <1>11. CASE m.tag \in TagOnly
    <2>1. /\ m.tag \notin {"CMD", "ROLE", "MOVE", "CAPTURE", "STATE", "LOGIN", "ROSTER", "OPPGONE"}
          /\ m.tag \notin FreeText /\ m.tag \notin RoomName
      BY <1>11, TagFacts
    <2>2. m.body = NoBody
      BY <1>11, <2>1, TagFacts DEF IsBody
    <2>3. m = Message(m.tag, NoBody)
      BY <2>2
    <2>4. Encode(m, Height) # << >> /\ Decode(Encode(m, Height), Height) = {m}
      BY <1>11, <2>3, TagOnlySurvives, Zenon
    <2>5. m.tag # "CMD"
      BY <2>1
    <2> QED BY <1>1, <2>4, <2>5, Zenon
  <1> QED BY <1>2, <1>3, <1>4, <1>5, <1>6, <1>7, <1>8, <1>9, <1>10, <1>11, TagOfBody

LEMMA SentSurvives ==
    ASSUME MessageCarried
    PROVE  /\ Encode(sent.body, Height) # << >>
           /\ IsSpelt(sent.body) => Decode(Encode(sent.body, Height), Height) = {sent.body}
           /\ ~ IsSpelt(sent.body) => Decode(Encode(sent.body, Height), Height) = {}
  <1>1. PICK i \in DOMAIN Messages : sent.body = Messages[i]
    BY DEF MessageCarried
  <1> DEFINE m == sent.body
  <1>2. m = Message(m.tag, m.body) /\ IsBody(m.tag, m.body)
    BY <1>1, MessagesType
  <1> QED BY <1>2, MessageSurvives

LEMMA MessagesSurviveNext ==
    ASSUME TextInv, MessagesSurvive, [Next]_vars, TextInv'
    PROVE  MessagesSurvive'
  <1>2. CASE UNCHANGED vars
    BY <1>2 DEF MessagesSurvive, WasRead, vars
  <1>3. CASE \E i \in DOMAIN Messages : SendMessage(Messages[i])
    <2>1. PICK i \in DOMAIN Messages : SendMessage(Messages[i])
      BY <1>3
    <2>2. /\ text' = Encode(Messages[i], Height)
          /\ sent' = [form |-> "message", body |-> Messages[i]]
      BY <2>1 DEF SendMessage, Write
    <2>3. sent'.form = "message" /\ sent'.body = Messages[i]
      BY <2>2
    <2> DEFINE m == Messages[i]
    <2>4. m = Message(m.tag, m.body) /\ IsBody(m.tag, m.body)
      BY MessagesType
    <2> HIDE DEF m
    <2>5. Encode(m, Height) # << >>
      BY <2>4, MessageSurvives
    <2>6. text' # << >>
      BY <2>2, <2>5 DEF m
    <2> QED BY <2>6 DEF MessagesSurvive, WasRead
  <1>4. CASE \E i \in DOMAIN Snapshots : Broadcast(Snapshots[i]) \/ WriteFile(Snapshots[i])
    <2>1. sent'.form \in {"frame", "file"}
      BY <1>4 DEF Broadcast, WriteFile, Write
    <2> QED BY <2>1, FormsDiffer DEF MessagesSurvive, WasRead
  <1>5. CASE \/ \E i \in DOMAIN text :
                   \/ LoseLine(i)
                   \/ \E j \in DOMAIN text[i] : LoseWord(i, j)
             \/ GainLine
    <2>1. damage' # "none"
      BY <1>5, FormsDiffer DEF LoseLine, LoseWord, GainLine, Alter
    <2> QED BY <2>1 DEF MessagesSurvive, WasRead
  <1>6. CASE Read
    <2>1. SUFFICES ASSUME WasRead("message")', damage' = "none"
                   PROVE  IF sent.body.tag = "CMD" /\ ~SameLength(sent.body.body, Height)
                          THEN got' = {} ELSE got' = {sent.body}
      <3>1. sent' = sent
        BY <1>6 DEF Read
      <3> QED BY <3>1 DEF MessagesSurvive
    <2>2. sent.form = "message" /\ damage = "none" /\ text # << >>
      BY <1>6, <2>1 DEF Read, WasRead
    <2>3. Receive
      BY <1>6, <2>2, FormsDiffer DEF Read, Parse
    <2>4. MessageCarried
      BY <2>2 DEF TextInv
    <2>5. got' = Decode(Encode(sent.body, Height), Height)
      BY <2>2, <2>3, <2>4 DEF Receive, MessageCarried
    <2>6. /\ IsSpelt(sent.body) => got' = {sent.body}
          /\ ~ IsSpelt(sent.body) => got' = {}
      BY <2>4, <2>5, SentSurvives
    <2> QED BY <2>6 DEF IsSpelt
  <1> QED BY <1>2, <1>3, <1>4, <1>5, <1>6 DEF Next

(***************************************************************************)
(* decode(encode(m)) is m for every message of every alternative and every *)
(* board; a command between squares whose names differ in length is never  *)
(* read, as another command or at all.                                     *)
(***************************************************************************)
THEOREM MessagesAreRead == Spec => []MessagesSurvive
  <1>1. Init => MessagesSurvive
    BY FormsDiffer DEF Init, MessagesSurvive, WasRead
  <1>2. TextInv /\ MessagesSurvive /\ [Next]_vars /\ TextInv' => MessagesSurvive'
    BY MessagesSurviveNext
  <1> QED BY <1>1, <1>2, TextsAreCarried, PTL DEF Spec

-----------------------------------------------------------------------------
(***************************************************************************)
(* Boards as files: what a token says of its cell, and where the tokens    *)
(* stand.                                                                  *)
(***************************************************************************)
LEMMA CellTokens ==
    ASSUME NEW s, IsSnapshot(s), NEW cell
    PROVE  LET token == EncodeCell(s.board, cell)
               p == PieceAt(s.board, cell)
           IN  /\ token \in Word /\ token # NoWord
               /\ token # "Board:" /\ token # "Commands:"
               /\ PiecesAt(s.board, cell) = {} => token = EmptyToken
               /\ PiecesAt(s.board, cell) # {} =>
                     /\ token # EmptyToken
                     /\ PieceFromToken(token) = {[color |-> p.color, kind |-> p.kind]}
  <1> DEFINE board == s.board
             token == EncodeCell(board, cell)
             p == PieceAt(board, cell)
  <1>1. CASE PiecesAt(board, cell) = {}
    <2>1. token = EmptyToken
      BY <1>1 DEF EncodeCell
    <2>2. EmptyToken \in Word
      BY LiteralsAreWords
    <2>3. EmptyToken # NoWord /\ EmptyToken # "Board:" /\ EmptyToken # "Commands:"
      BY DEF EmptyToken, NoWord
    <2> QED BY <1>1, <2>1, <2>2, <2>3
  <1>2. CASE PiecesAt(board, cell) # {}
    <2>1. token = EncodePieceToken(p.color, p.kind)
      BY <1>2 DEF EncodeCell
    <2>2. p \in PiecesAt(board, cell)
      BY <1>2 DEF PieceAt
    <2>3. p \in board.pieces /\ board.pieces \subseteq PieceValue
      BY <2>2, SnapshotFacts DEF PiecesAt
    <2>4. p.color \in Color /\ p.kind \in Kind
      BY <2>3 DEF PieceValue
    <2> HIDE DEF p, token
    <2>5. IsPlain(EncodePieceToken(p.color, p.kind))
      BY <2>4, TokensAreSpelt
    <2>6. /\ token \in Word /\ token # NoWord /\ token # EmptyToken
          /\ token # "Board:" /\ token # "Commands:"
      BY <2>1, <2>5 DEF IsPlain
    <2>7. PieceFromToken(token) = {[color |-> p.color, kind |-> p.kind]}
      BY <2>1, <2>4, TokensAreRead
    <2> QED BY <1>2, <2>6, <2>7 DEF p, token
  <1> QED BY <1>1, <1>2

LEMMA GridFacts ==
    ASSUME NEW s, IsSnapshot(s)
    PROVE  LET grid == PrintBoard(s.board)
           IN  /\ grid \in Seq(Seq(Word)) /\ Len(grid) = Height
               /\ \A i \in 1 .. Height :
                     /\ Len(grid[i]) = Width /\ IsFull(grid[i])
                     /\ \A j \in 1 .. Width : grid[i][j] # "Board:" /\ grid[i][j] # "Commands:"
               /\ \A cell \in Cells : TokenAt(grid, cell) = EncodeCell(s.board, cell)
  <1> DEFINE board == s.board
             grid == PrintBoard(board)
             token(i, j) == EncodeCell(board, <<i - 1, j - 1>>)
  <1>1. /\ Width \in Nat \ {0} /\ Height \in Nat \ {0}
        /\ board.width = Width /\ board.height = Height
    BY SnapshotFacts
  <1>2. grid = [i \in 1 .. Height |-> [j \in 1 .. Width |-> token(i, j)]]
    BY <1>1 DEF PrintBoard
  <1>3. ASSUME NEW i \in 1 .. Height, NEW j \in 1 .. Width
        PROVE  /\ token(i, j) \in Word /\ token(i, j) # NoWord
               /\ token(i, j) # "Board:" /\ token(i, j) # "Commands:"
    BY CellTokens
  <1> HIDE DEF board, grid, token
  <1>4. \A i \in 1 .. Height : grid[i] = [j \in 1 .. Width |-> token(i, j)]
    BY <1>2
  <1>5. ASSUME NEW i \in 1 .. Height
        PROVE  /\ grid[i] \in Seq(Word) /\ Len(grid[i]) = Width /\ IsFull(grid[i])
               /\ \A j \in 1 .. Width :
                     /\ grid[i][j] = token(i, j)
                     /\ grid[i][j] # "Board:" /\ grid[i][j] # "Commands:"
    <2>1. grid[i] = [j \in 1 .. Width |-> token(i, j)]
      BY <1>4
    <2>2. \A j \in 1 .. Width : grid[i][j] = token(i, j) /\ token(i, j) \in Word
      BY <1>3, <2>1
    <2>3. grid[i] \in Seq(Word) /\ Len(grid[i]) = Width /\ DOMAIN grid[i] = 1 .. Width
      BY <1>1, <2>1, <2>2
    <2>4. \A j \in 1 .. Width : grid[i][j] # "Board:" /\ grid[i][j] # "Commands:"
      BY <1>3, <2>2
    <2>5. \A j \in DOMAIN grid[i] : grid[i][j] # NoWord
      BY <1>3, <2>2, <2>3
    <2>6. IsFull(grid[i])
      BY <2>3, <2>5 DEF IsFull
    <2> QED BY <2>2, <2>3, <2>4, <2>6
  <1>6. grid \in Seq(Seq(Word)) /\ Len(grid) = Height
    <2>1. \A i \in 1 .. Height : grid[i] \in Seq(Word)
      BY <1>5
    <2>2. DOMAIN grid = 1 .. Height
      BY <1>2
    <2>3. grid = [i \in 1 .. Height |-> grid[i]]
      BY <1>2, <2>2
    <2> QED BY <1>1, <2>1, <2>3
  <1>7. ASSUME NEW cell \in Cells
        PROVE  TokenAt(grid, cell) = EncodeCell(board, cell)
    <2>1. PICK r \in 0 .. Height - 1, c \in 0 .. Width - 1 : cell = <<r, c>>
      BY DEF Cells
    <2>2. r + 1 \in 1 .. Height /\ c + 1 \in 1 .. Width /\ (r + 1) - 1 = r /\ (c + 1) - 1 = c
      BY <1>1
    <2>3. grid[r + 1][c + 1] = token(r + 1, c + 1)
      BY <1>5, <2>2
    <2>4. token(r + 1, c + 1) = EncodeCell(board, <<r, c>>)
      BY <2>2 DEF token
    <2>5. TokenAt(grid, cell) = grid[r + 1][c + 1]
      BY <2>1 DEF TokenAt
    <2> QED BY <2>1, <2>3, <2>4, <2>5
  <1> QED BY <1>5, <1>6, <1>7 DEF board, grid

\* The taken cells of the grid are the occupied ones of the board.
LEMMA TakenAreOccupied ==
    ASSUME NEW s, IsSnapshot(s)
    PROVE  TakenCells(PrintBoard(s.board)) = OccupiedCells(s.board)
  <1> DEFINE board == s.board
             grid == PrintBoard(board)
             all == CellsInOrder(board)
             size == [width |-> Len(grid[1]), height |-> Len(grid)]
  <1>1. /\ Width \in Nat \ {0} /\ Height \in Nat \ {0}
        /\ board.width = Width /\ board.height = Height
    BY SnapshotFacts
  <1>2. /\ Len(grid) = Height
        /\ \A i \in 1 .. Height : Len(grid[i]) = Width
        /\ \A cell \in Cells : TokenAt(grid, cell) = EncodeCell(board, cell)
    BY GridFacts
  <1> HIDE DEF board, grid
  <1>3. CellsInOrder(size) = all
    <2>1. 1 \in 1 .. Height
      BY <1>1
    <2>2. size.width = Width /\ size.height = Height
      BY <1>2, <2>1
    <2> HIDE DEF size
    <2> QED BY <1>1, <2>2 DEF CellsInOrder
  <1>4. all \in Seq(Cells)
    <2>1. /\ Width \in Nat \ {0} /\ Height \in Nat \ {0}
          /\ board.width = Width /\ board.height = Height
      BY <1>1
    <2> QED BY <2>1, CellsInOrderFacts, Zenon DEF Cells
  <1> HIDE DEF all
  <1>5. ASSUME NEW i \in DOMAIN all
        PROVE  TokenAt(grid, all[i]) # EmptyToken <=> PiecesAt(board, all[i]) # {}
    <2>1. all[i] \in Cells
      BY <1>4
    <2>2. TokenAt(grid, all[i]) = EncodeCell(board, all[i])
      BY <1>2, <2>1
    <2> QED BY <2>2, CellTokens DEF board
  <1>6. {i \in DOMAIN all : TokenAt(grid, all[i]) # EmptyToken}
          = {i \in DOMAIN all : PiecesAt(board, all[i]) # {}}
    BY <1>5
  <1>7. TakenCells(grid) = Filtered(all, {i \in DOMAIN all : TokenAt(grid, all[i]) # EmptyToken})
    BY <1>3, Zenon DEF TakenCells, size
  <1>8. OccupiedCells(board) = Filtered(all, {i \in DOMAIN all : PiecesAt(board, all[i]) # {}})
    BY DEF OccupiedCells, all
  <1> QED BY <1>6, <1>7, <1>8 DEF board, grid

\* The pieces of a parsed board: numbered in the order of their cells, idle.
Renumbered(board, i) ==
    LET cells == OccupiedCells(board)
    IN  NewPiece(i, PieceAt(board, cells[i]), cells[i])

Reset(board) ==
    [width |-> Width, height |-> Height,
     pieces |-> {Renumbered(board, i) : i \in DOMAIN OccupiedCells(board)}]

LEMMA GridIsBuilt ==
    ASSUME NEW s, IsSnapshot(s)
    PROVE  BuildBoard(PrintBoard(s.board)) = Reset(s.board)
  <1> DEFINE board == s.board
             grid == PrintBoard(board)
             cells == OccupiedCells(board)
             read(i) == PieceFromToken(TokenAt(grid, cells[i]))
             p(i) == PieceAt(board, cells[i])
             built == UNION {{NewPiece(i, q, cells[i]) : q \in read(i)} : i \in DOMAIN cells}
  <1>1. /\ Width \in Nat \ {0} /\ Height \in Nat \ {0}
    BY SnapshotFacts
  <1>2. /\ grid \in Seq(Seq(Word)) /\ Len(grid) = Height
        /\ \A i \in 1 .. Height : Len(grid[i]) = Width
        /\ \A cell \in Cells : TokenAt(grid, cell) = EncodeCell(board, cell)
    BY GridFacts
  <1>3. TakenCells(grid) = cells
    BY TakenAreOccupied
  <1>4. /\ cells \in Seq(Cells)
        /\ \A i \in DOMAIN cells :
              /\ PieceAt(board, cells[i]) \in board.pieces
              /\ PieceAt(board, cells[i]).cell = cells[i]
    BY OccupiedFacts
  <1>5. ASSUME NEW i \in DOMAIN cells
        PROVE  read(i) = {[color |-> p(i).color, kind |-> p(i).kind]}
    <2>1. cells[i] \in Cells
      BY <1>4
    <2>2. TokenAt(grid, cells[i]) = EncodeCell(board, cells[i])
      BY <1>2, <2>1
    <2>3. p(i) \in PiecesAt(board, cells[i])
      BY <1>4 DEF PiecesAt
    <2>4. PiecesAt(board, cells[i]) # {}
      BY <2>3
    <2> QED BY <2>2, <2>4, CellTokens
  <1>6. grid # << >> /\ ~ Uneven(grid) /\ Len(grid[1]) = Width
    <2>1. grid # << >> /\ DOMAIN grid = 1 .. Height /\ 1 \in 1 .. Height
      BY <1>1, <1>2, SequenceIsFunction
    <2> QED BY <1>2, <2>1 DEF Uneven
  <1> HIDE DEF board, grid, cells, p, read
  <1>7. BuildBoard(grid) = [width |-> Width, height |-> Height, pieces |-> built]
    <2>1. \A i \in DOMAIN cells : PieceFromToken(TokenAt(grid, cells[i])) # {}
      BY <1>5 DEF read
    <2> DEFINE taken == TakenCells(grid)
               all == UNION {{NewPiece(i, q, taken[i]) :
                                 q \in PieceFromToken(TokenAt(grid, taken[i]))} :
                             i \in DOMAIN taken}
    <2>2. ~ \E i \in DOMAIN taken : PieceFromToken(TokenAt(grid, taken[i])) = {}
      BY <1>3, <2>1
    <2>3. BuildBoard(grid) =
             [width |-> Len(grid[1]), height |-> Len(grid), pieces |-> all]
      BY <1>6, <2>2 DEF BuildBoard
    <2>4. all = built
      BY <1>3 DEF read
    <2> HIDE DEF all, built
    <2> QED BY <1>2, <1>6, <2>3, <2>4
  <1>8. ASSUME NEW i \in DOMAIN cells
        PROVE  {NewPiece(i, q, cells[i]) : q \in read(i)} = {Renumbered(board, i)}
    <2> DEFINE q0 == [color |-> p(i).color, kind |-> p(i).kind]
    <2>1. q0.color = p(i).color /\ q0.kind = p(i).kind
      OBVIOUS
    <2>2. NewPiece(i, q0, cells[i]) = NewPiece(i, p(i), cells[i])
      BY <2>1 DEF NewPiece
    <2>3. Renumbered(board, i) = NewPiece(i, p(i), cells[i])
      BY DEF Renumbered, p, cells
    <2>4. read(i) = {q0}
      BY <1>5
    <2> HIDE DEF q0
    <2> QED BY <2>2, <2>3, <2>4
  <1>9. built = {Renumbered(board, i) : i \in DOMAIN cells}
    <2>1. built = UNION {{Renumbered(board, i)} : i \in DOMAIN cells}
      BY <1>8
    <2> QED BY <2>1
  <1> QED BY <1>7, <1>9 DEF Reset, board, grid, cells

LEMMA CountedPieces ==
    ASSUME NEW s, IsSnapshot(s)
    PROVE  DOMAIN OccupiedCells(s.board) = 1 .. Cardinality(s.board.pieces)
  <1> DEFINE board == s.board
             cells == OccupiedCells(board)
             pieces == board.pieces
             n == Len(cells)
             f == [i \in 1 .. n |-> PieceAt(board, cells[i])]
  <1>1. /\ cells \in Seq(Cells)
        /\ \A i \in DOMAIN cells :
              /\ PieceAt(board, cells[i]) \in pieces
              /\ PieceAt(board, cells[i]).cell = cells[i]
        /\ \A i, j \in DOMAIN cells : i < j => Before(cells[i], cells[j])
        /\ \A p \in pieces : \E i \in DOMAIN cells : PieceAt(board, cells[i]) = p
    BY OccupiedFacts
  <1>2. n \in Nat /\ DOMAIN cells = 1 .. n
    BY <1>1, LengthIsDomain
  <1>3. \A i, j \in DOMAIN cells : cells[i] = cells[j] => i = j
    <2> DEFINE rows == 0 .. Height - 1
               cols == 0 .. Width - 1
    <2>1. rows \in SUBSET Int /\ cols \in SUBSET Int
      OBVIOUS
    <2>2. cells \in Seq(rows \X cols)
      BY <1>1 DEF Cells
    <2> HIDE DEF cells, rows, cols
    <2> QED BY <1>1, <2>1, <2>2, OrderedAreDifferent
  <1> HIDE DEF board, cells, pieces, n
  <1>4. \A i \in 1 .. n : f[i] = PieceAt(board, cells[i])
    OBVIOUS
  <1>5. f \in [1 .. n -> pieces]
    BY <1>1, <1>2
  <1>6. IsInjective(f)
    <2>1. ASSUME NEW i \in 1 .. n, NEW j \in 1 .. n, f[i] = f[j]
          PROVE  i = j
      <3>1. cells[i] = cells[j]
        BY <1>1, <1>2, <1>4, <2>1
      <3> QED BY <1>2, <1>3, <3>1
    <2>2. DOMAIN f = 1 .. n
      OBVIOUS
    <2> HIDE DEF f
    <2> QED BY <2>1, <2>2 DEF IsInjective
  <1>7. \A p \in pieces : \E i \in 1 .. n : f[i] = p
    BY <1>1, <1>2, <1>4
  <1> HIDE DEF f
  <1>8. f \in Bijection(1 .. n, pieces)
    BY <1>5, <1>6, <1>7 DEF Bijection, Injection, Surjection
  <1>9. ExistsBijection(1 .. n, pieces)
    BY <1>8 DEF ExistsBijection
  <1>10. Cardinality(pieces) = n
    BY <1>2, <1>9, FS_CountingElements
  <1> QED BY <1>2, <1>10 DEF board, cells, pieces

(***************************************************************************)
(* A parsed board is the printed one: the same pieces on the same cells,   *)
(* numbered from 1 in the order of the rows.                               *)
(***************************************************************************)
LEMMA ResetIsSame ==
    ASSUME NEW s, IsSnapshot(s)
    PROVE  /\ "error" \notin DOMAIN Reset(s.board)
           /\ SamePosition(Reset(s.board), s.board)
  <1> DEFINE board == s.board
             cells == OccupiedCells(board)
             b == Reset(board)
             p(i) == PieceAt(board, cells[i])
             q(i) == Renumbered(board, i)
             position(x) == {<<y.color, y.kind, y.cell>> : y \in x.pieces}
  <1>1. /\ cells \in Seq(Cells)
        /\ \A i \in DOMAIN cells : p(i) \in board.pieces /\ p(i).cell = cells[i]
        /\ \A i, j \in DOMAIN cells : i < j => Before(cells[i], cells[j])
        /\ \A y \in board.pieces : \E i \in DOMAIN cells : p(i) = y
    BY OccupiedFacts
  <1>2. DOMAIN cells = 1 .. Cardinality(board.pieces)
    BY CountedPieces
  <1>3. board.width = Width /\ board.height = Height
    BY SnapshotFacts
  <1>4. /\ b.width = Width /\ b.height = Height
        /\ b.pieces = {q(i) : i \in DOMAIN cells}
        /\ "error" \notin DOMAIN b
    BY DEF Reset
  <1>5. ASSUME NEW i
        PROVE  /\ q(i).id = i /\ q(i).cell = cells[i]
               /\ q(i).color = p(i).color /\ q(i).kind = p(i).kind
    BY DEF Renumbered, NewPiece
  <1> HIDE DEF board, cells, b, p, q
  <1>6. position(b) = position(board)
    <2>1. ASSUME NEW i \in DOMAIN cells
          PROVE  <<q(i).color, q(i).kind, q(i).cell>> = <<p(i).color, p(i).kind, p(i).cell>>
      BY <1>1, <1>5
    <2>2. position(b) = {<<q(i).color, q(i).kind, q(i).cell>> : i \in DOMAIN cells}
      BY <1>4
    <2>3. position(board) = {<<p(i).color, p(i).kind, p(i).cell>> : i \in DOMAIN cells}
      BY <1>1
    <2> QED BY <2>1, <2>2, <2>3
  <1>7. {y.id : y \in b.pieces} = 1 .. Cardinality(board.pieces)
    <2>1. {y.id : y \in b.pieces} = {q(i).id : i \in DOMAIN cells}
      BY <1>4
    <2>2. {q(i).id : i \in DOMAIN cells} = DOMAIN cells
      BY <1>5
    <2> QED BY <1>2, <2>1, <2>2
  <1>8. \A x, y \in b.pieces :
           x.id < y.id => \/ x.cell[1] < y.cell[1]
                          \/ x.cell[1] = y.cell[1] /\ x.cell[2] < y.cell[2]
    <2>1. SUFFICES ASSUME NEW i \in DOMAIN cells, NEW j \in DOMAIN cells, q(i).id < q(j).id
                   PROVE  \/ q(i).cell[1] < q(j).cell[1]
                          \/ q(i).cell[1] = q(j).cell[1] /\ q(i).cell[2] < q(j).cell[2]
      BY <1>4
    <2>2. i < j
      BY <1>5, <2>1
    <2>3. Before(cells[i], cells[j])
      BY <1>1, <2>2
    <2> QED BY <1>5, <2>3 DEF Before
  <1>9. SamePosition(b, board)
    BY <1>3, <1>4, <1>6, <1>7, <1>8, Zenon DEF SamePosition
  <1> QED BY <1>4, <1>9 DEF board, b

-----------------------------------------------------------------------------
(***************************************************************************)
(* Where the grid stands in a file.                                        *)
(***************************************************************************)
LEMMA MarkerIsMissing ==
    ASSUME NEW lines \in Seq(Seq(Word)), NEW marker,
           \A i \in DOMAIN lines : lines[i] # <<marker>>
    PROVE  MarkerAt(lines, marker) = Len(lines) + 1
  <1> DEFINE I == {i \in 1 .. Len(lines) : lines[i] = <<marker>>}
  <1>1. DOMAIN lines = 1 .. Len(lines)
    BY SequenceIsFunction
  <1>2. I = {}
    BY <1>1
  <1>3. SelectInSeq(lines, LAMBDA l : l = <<marker>>) = 0
    BY <1>2 DEF SelectInSeq
  <1> QED BY <1>3 DEF MarkerAt

LEMMA MarkerIsFound ==
    ASSUME NEW lines \in Seq(Seq(Word)), NEW marker, NEW k \in DOMAIN lines,
           lines[k] = <<marker>>, \A i \in 1 .. k - 1 : lines[i] # <<marker>>
    PROVE  MarkerAt(lines, marker) = k
  <1> DEFINE I == {i \in 1 .. Len(lines) : lines[i] = <<marker>>}
  <1>1. Len(lines) \in Nat /\ DOMAIN lines = 1 .. Len(lines)
    BY SequenceIsFunction
  <1>2. k \in I /\ I \subseteq Nat /\ \A i \in I : k <= i
    <2>1. k \in 1 .. Len(lines) /\ k \in I
      BY <1>1
    <2>2. I \subseteq 1 .. Len(lines) /\ I \subseteq Nat
      BY <1>1
    <2>3. ASSUME NEW i \in I
          PROVE  k <= i
      <3>1. i \in 1 .. Len(lines) /\ lines[i] = <<marker>>
        OBVIOUS
      <3>2. i \notin 1 .. k - 1
        BY <3>1
      <3> HIDE DEF I
      <3> QED BY <1>1, <2>1, <3>1, <3>2
    <2> QED BY <2>1, <2>2, <2>3
  <1> HIDE DEF I
  <1>3. Min(I) = k
    <2>1. Min(I) \in I /\ \A i \in I : Min(I) <= i
      BY <1>2, MinIsLeast
    <2> QED BY <1>2, <2>1
  <1>4. SelectInSeq(lines, LAMBDA l : l = <<marker>>) = k
    BY <1>2, <1>3 DEF SelectInSeq, I
  <1>5. k # 0
    BY <1>1
  <1> QED BY <1>4, <1>5 DEF MarkerAt

LEMMA SameSequence ==
    ASSUME NEW S, NEW a \in Seq(S), NEW b \in Seq(S), Len(a) = Len(b),
           \A i \in 1 .. Len(a) : a[i] = b[i]
    PROVE  a = b
  OBVIOUS

LEMMA SliceFacts ==
    ASSUME NEW S, NEW q \in Seq(S), NEW a \in Nat \ {0}, NEW b \in Nat,
           a <= b + 1, b <= Len(q)
    PROVE  /\ SubSeq(q, a, b) \in Seq(S)
           /\ Len(SubSeq(q, a, b)) = b - a + 1
           /\ \A i \in 1 .. b - a + 1 : SubSeq(q, a, b)[i] = q[a + i - 1]
  OBVIOUS

LEMMA SliceFromTwo ==
    ASSUME NEW S, NEW n \in Nat, NEW q \in Seq(S), Len(q) = n + 2
    PROVE  /\ SubSeq(q, 2, n + 2) \in Seq(S)
           /\ Len(SubSeq(q, 2, n + 2)) = n + 1
           /\ \A i \in 1 .. n + 1 : SubSeq(q, 2, n + 2)[i] = q[i + 1]
  OBVIOUS

LEMMA FirstFacts ==
    ASSUME NEW m \in Nat, NEW vector
    PROVE  Filtered(vector, 1 .. m) = [i \in 1 .. m |-> vector[i]]
  <1>1. ASSUME NEW a \in Nat, a = 0
        PROVE  Filtered(vector, 1 .. m) = [i \in 1 .. m |-> vector[i]]
    <2>1. Filtered(vector, a + 1 .. a + m) = [i \in 1 .. m |-> vector[a + i]]
      BY BlockFacts
    <2>2. a + 1 .. a + m = 1 .. m
      BY <1>1
    <2>3. \A i \in 1 .. m : vector[a + i] = vector[i]
      BY <1>1
    <2> QED BY <2>1, <2>2, <2>3
  <1> QED BY <1>1

\* The board of a text all of whose words are there.
LEMMA ParsedBoard ==
    ASSUME NEW written \in Seq(Seq(Word)), \A i \in DOMAIN written : IsFull(written[i]),
           NEW below, below = SubSeq(written, MarkerAt(written, "Board:") + 1, Len(written)),
           NEW rows, rows = SubSeq(below, 1, MarkerAt(below, "Commands:") - 1)
    PROVE  ParseInput(written).board = BuildBoard(NotBlank(rows))
  <1>1. [i \in DOMAIN written |-> Tokens(written[i])] = written
    BY FullTokens
  <1> QED BY <1>1, Zenon DEF ParseInput

\* A line that is no marker.
IsRow(line) ==
    /\ IsFull(line) /\ line # << >>
    /\ \A j \in DOMAIN line : line[j] # "Board:" /\ line[j] # "Commands:"

LEMMA RowIsNoMarker ==
    ASSUME NEW line, IsRow(line)
    PROVE  line # <<"Board:">> /\ line # <<"Commands:">>
  <1>1. 1 \in DOMAIN line
    BY SequenceIsFunction DEF IsRow, IsFull
  <1>2. line[1] # "Board:" /\ line[1] # "Commands:"
    BY <1>1 DEF IsRow
  <1>3. <<"Board:">>[1] = "Board:" /\ <<"Commands:">>[1] = "Commands:"
    OBVIOUS
  <1> QED BY <1>2, <1>3

\* A file: rows between two lines.
IsFile(written, first, rows, last) ==
    /\ written \in Seq(Seq(Word)) /\ Len(written) = Len(rows) + 2
    /\ written[1] = first /\ written[Len(rows) + 2] = last
    /\ \A i \in 1 .. Len(rows) : written[i + 1] = rows[i]

IsRows(rows) == rows \in Seq(Seq(Word)) /\ \A i \in DOMAIN rows : IsRow(rows[i])

LEMMA FileFacts ==
    ASSUME NEW rows, IsRows(rows), NEW written, NEW first, NEW last,
           IsFile(written, first, rows, last), IsFull(first), IsFull(last)
    PROVE  /\ Len(rows) \in Nat /\ DOMAIN rows = 1 .. Len(rows)
           /\ written \in Seq(Seq(Word)) /\ DOMAIN written = 1 .. Len(rows) + 2
           /\ \A i \in DOMAIN written : IsFull(written[i])
           /\ \A i \in 2 .. Len(rows) + 1 : written[i] = rows[i - 1]
  <1> DEFINE n == Len(rows)
  <1>1. n \in Nat /\ DOMAIN rows = 1 .. n
    BY SequenceIsFunction DEF IsRows
  <1> HIDE DEF n
  <1>2. /\ written \in Seq(Seq(Word)) /\ Len(written) = n + 2
        /\ written[1] = first /\ written[n + 2] = last
        /\ \A i \in 1 .. n : written[i + 1] = rows[i]
    BY DEF IsFile, n
  <1>3. DOMAIN written = 1 .. n + 2
    BY <1>1, <1>2, SequenceIsFunction
  <1>4. \A i \in 2 .. n + 1 : written[i] = rows[i - 1]
    <2> TAKE i \in 2 .. n + 1
    <2>1. i - 1 \in 1 .. n /\ (i - 1) + 1 = i
      BY <1>1
    <2> QED BY <1>2, <2>1
  <1>5. ASSUME NEW i \in 1 .. n + 2
        PROVE  IsFull(written[i])
    <2>1. CASE i \in 2 .. n + 1
      <3>1. i - 1 \in 1 .. n
        BY <1>1, <2>1
      <3>2. IsFull(rows[i - 1])
        BY <1>1, <3>1 DEF IsRows, IsRow
      <3> QED BY <1>4, <2>1, <3>2
    <2>2. CASE i = 1 \/ i = n + 2
      BY <1>2, <2>2
    <2>3. i \in 2 .. n + 1 \/ i = 1 \/ i = n + 2
      BY <1>1
    <2> QED BY <2>1, <2>2, <2>3
  <1> QED BY <1>1, <1>2, <1>3, <1>4, <1>5 DEF n

LEMMA RowsAreThere ==
    ASSUME NEW rows, IsRows(rows)
    PROVE  NotBlank(rows) = rows
  <1>1. \A i \in DOMAIN rows : rows[i] # << >>
    BY DEF IsRows, IsRow
  <1>2. {i \in DOMAIN rows : rows[i] # << >>} = DOMAIN rows
    BY <1>1
  <1>3. rows \in Seq(Seq(Word))
    BY DEF IsRows
  <1>4. NotBlank(rows) = Filtered(rows, DOMAIN rows)
    BY <1>2 DEF NotBlank
  <1> QED BY <1>3, <1>4, FilteredAll

\* Below its first line, "Board:", a file has its rows and its last line.
BelowFirst(written) == SubSeq(written, MarkerAt(written, "Board:") + 1, Len(written))

IsBelow(below, rows, last) ==
    /\ below \in Seq(Seq(Word)) /\ Len(below) = Len(rows) + 1
    /\ Len(rows) \in Nat /\ DOMAIN rows = 1 .. Len(rows)
    /\ \A i \in 1 .. Len(rows) : below[i] = rows[i]
    /\ below[Len(rows) + 1] = last

LEMMA BelowBoard ==
    ASSUME NEW rows, IsRows(rows), NEW written, NEW first, NEW last,
           IsFile(written, first, rows, last), first = <<"Board:">>, IsFull(last),
           NEW below, below = BelowFirst(written)
    PROVE  /\ \A i \in DOMAIN written : IsFull(written[i])
           /\ written \in Seq(Seq(Word))
           /\ IsBelow(below, rows, last)
  <1> DEFINE n == Len(rows)
  <1>1. IsFull(first)
    <2>1. "Board:" \in Word /\ "Board:" # NoWord
      BY LiteralsAreWords, LiteralsArePresent
    <2> QED BY <2>1 DEF IsFull
  <1>2. /\ n \in Nat /\ DOMAIN rows = 1 .. n
        /\ written \in Seq(Seq(Word)) /\ DOMAIN written = 1 .. n + 2
        /\ \A i \in DOMAIN written : IsFull(written[i])
        /\ \A i \in 2 .. n + 1 : written[i] = rows[i - 1]
    BY <1>1, FileFacts
  <1>3. /\ Len(written) = n + 2 /\ written[1] = <<"Board:">> /\ written[n + 2] = last
    BY DEF IsFile
  <1> HIDE DEF n
  <1>4. MarkerAt(written, "Board:") = 1
    <2>1. \A k \in DOMAIN written :
             k = 1 => written[k] = <<"Board:">> /\ \A i \in 1 .. k - 1 : written[i] # <<"Board:">>
      BY <1>3
    <2>2. \A k \in DOMAIN written : k = 1 => MarkerAt(written, "Board:") = k
      BY <1>2, <2>1, MarkerIsFound
    <2>3. 1 \in DOMAIN written
      BY <1>2
    <2> QED BY <2>2, <2>3
  <1>5. below = SubSeq(written, 2, n + 2)
    BY <1>3, <1>4 DEF BelowFirst
  <1>6. /\ below \in Seq(Seq(Word)) /\ Len(below) = n + 1
        /\ \A i \in 1 .. n + 1 : below[i] = written[i + 1]
    <2>1. n \in Nat /\ written \in Seq(Seq(Word)) /\ Len(written) = n + 2
      BY <1>2, <1>3
    <2> QED BY <1>5, <2>1, SliceFromTwo
  <1>7. ASSUME NEW i \in 1 .. n
        PROVE  below[i] = rows[i]
    <2>1. i \in 1 .. n + 1 /\ i + 1 \in 2 .. n + 1 /\ (i + 1) - 1 = i
      BY <1>2
    <2> QED BY <1>2, <1>6, <2>1
  <1>8. below[n + 1] = last
    <2>1. n + 1 \in 1 .. n + 1 /\ (n + 1) + 1 = n + 2
      BY <1>2
    <2> QED BY <1>3, <1>6, <2>1
  <1> QED BY <1>2, <1>6, <1>7, <1>8 DEF n, IsBelow

LEMMA RowsAreFound ==
    ASSUME NEW rows, IsRows(rows), NEW written,
           NEW first, first = <<"Board:">>, NEW last, last = <<"Commands:">>,
           IsFile(written, first, rows, last)
    PROVE  ParseInput(written).board = BuildBoard(rows)
  <1> DEFINE n == Len(rows)
             below == BelowFirst(written)
             found == SubSeq(below, 1, MarkerAt(below, "Commands:") - 1)
  <1>1. IsFull(last)
    <2>1. "Commands:" \in Word /\ "Commands:" # NoWord
      BY LiteralsAreWords, LiteralsArePresent
    <2> QED BY <2>1 DEF IsFull
  <1>2. /\ \A i \in DOMAIN written : IsFull(written[i])
        /\ written \in Seq(Seq(Word))
        /\ IsBelow(below, rows, last)
    <2> HIDE DEF below
    <2> QED BY <1>1, BelowBoard DEF below
  <1>3. /\ below \in Seq(Seq(Word)) /\ Len(below) = n + 1
        /\ n \in Nat /\ DOMAIN rows = 1 .. n
        /\ \A i \in 1 .. n : below[i] = rows[i]
        /\ below[n + 1] = <<"Commands:">>
    <2> HIDE DEF below
    <2> QED BY <1>2 DEF IsBelow
  <1>4. ParseInput(written).board = BuildBoard(NotBlank(found))
    <2> HIDE DEF below
    <2>1. below = SubSeq(written, MarkerAt(written, "Board:") + 1, Len(written))
      BY DEF below, BelowFirst
    <2> QED BY <1>2, <1>3, <2>1, ParsedBoard
  <1> HIDE DEF n, below, found
  <1>5. MarkerAt(below, "Commands:") = n + 1
    <2>1. DOMAIN below = 1 .. n + 1 /\ n + 1 \in DOMAIN below
      BY <1>3, SequenceIsFunction
    <2>2. \A i \in 1 .. n : below[i] # <<"Commands:">>
      BY <1>3, RowIsNoMarker DEF IsRows
    <2>3. below[n + 1] = <<"Commands:">> /\ (n + 1) - 1 = n
      BY <1>3
    <2> QED BY <1>3, <2>1, <2>2, <2>3, MarkerIsFound
  <1>6. found = rows
    <2>1. found = SubSeq(below, 1, n)
      BY <1>3, <1>5 DEF found
    <2>2. /\ found \in Seq(Seq(Word)) /\ Len(found) = n - 1 + 1
          /\ \A i \in 1 .. n - 1 + 1 : found[i] = below[1 + i - 1]
      BY <1>3, <2>1, SliceFacts
    <2>3. n - 1 + 1 = n /\ \A i \in 1 .. n : 1 + i - 1 = i
      BY <1>3
    <2>4. Len(found) = n /\ \A i \in 1 .. n : found[i] = rows[i]
      BY <1>3, <2>2, <2>3
    <2>5. rows \in Seq(Seq(Word)) /\ Len(rows) = n
      BY DEF IsRows, n
    <2>6. Len(found) = Len(rows) /\ \A i \in 1 .. Len(found) : found[i] = rows[i]
      BY <2>4, <2>5
    <2> QED BY <2>2, <2>5, <2>6, SameSequence, Zenon
  <1> QED BY <1>4, <1>6, RowsAreThere

\* Without "Commands:" the last line is a blank row, and ignored.
LEMMA RowsAreFoundOpen ==
    ASSUME NEW rows, IsRows(rows), NEW written,
           NEW first, first = <<"Board:">>, NEW last, last = << >>,
           IsFile(written, first, rows, last)
    PROVE  ParseInput(written).board = BuildBoard(rows)
  <1> DEFINE n == Len(rows)
             below == BelowFirst(written)
             found == SubSeq(below, 1, MarkerAt(below, "Commands:") - 1)
  <1>1. IsFull(last)
    BY DEF IsFull
  <1>2. /\ \A i \in DOMAIN written : IsFull(written[i])
        /\ written \in Seq(Seq(Word))
        /\ IsBelow(below, rows, last)
    <2> HIDE DEF below
    <2> QED BY <1>1, BelowBoard DEF below
  <1>3. /\ below \in Seq(Seq(Word)) /\ Len(below) = n + 1
        /\ n \in Nat /\ DOMAIN rows = 1 .. n
        /\ \A i \in 1 .. n : below[i] = rows[i]
        /\ below[n + 1] = << >>
    <2> HIDE DEF below
    <2> QED BY <1>2 DEF IsBelow
  <1>4. ParseInput(written).board = BuildBoard(NotBlank(found))
    <2> HIDE DEF below
    <2>1. below = SubSeq(written, MarkerAt(written, "Board:") + 1, Len(written))
      BY DEF below, BelowFirst
    <2> QED BY <1>2, <1>3, <2>1, ParsedBoard
  <1> HIDE DEF n, below, found
  <1>5. DOMAIN below = 1 .. n + 1
    BY <1>3, SequenceIsFunction
  <1>6. MarkerAt(below, "Commands:") = n + 2
    <2>1. \A i \in 1 .. n : below[i] # <<"Commands:">>
      BY <1>3, RowIsNoMarker DEF IsRows
    <2>2. below[n + 1] # <<"Commands:">>
      BY <1>3
    <2>3. \A i \in 1 .. n + 1 : i \in 1 .. n \/ i = n + 1
      BY <1>3
    <2>4. \A i \in DOMAIN below : below[i] # <<"Commands:">>
      BY <1>5, <2>1, <2>2, <2>3
    <2>5. MarkerAt(below, "Commands:") = (n + 1) + 1
      BY <1>3, <2>4, MarkerIsMissing
    <2> QED BY <1>3, <2>5
  <1>7. found = below
    <2>1. (n + 2) - 1 = Len(below)
      BY <1>3
    <2>2. found = SubSeq(below, 1, Len(below))
      BY <1>6, <2>1 DEF found
    <2> QED BY <1>3, <2>2, SubSeqFull
  <1>8. NotBlank(below) = rows
    <2>1. {i \in DOMAIN below : below[i] # << >>} = 1 .. n
      <3>1. \A i \in 1 .. n : below[i] # << >>
        BY <1>3 DEF IsRows, IsRow
      <3>2. \A i \in 1 .. n + 1 : i \in 1 .. n \/ i = n + 1
        BY <1>3
      <3>3. 1 .. n \subseteq 1 .. n + 1 /\ n + 1 \notin 1 .. n
        BY <1>3
      <3> QED BY <1>3, <1>5, <3>1, <3>2, <3>3
    <2>2. Filtered(below, 1 .. n) = [i \in 1 .. n |-> below[i]]
      BY <1>3, FirstFacts
    <2>5. NotBlank(below) = [i \in 1 .. n |-> below[i]]
      BY <2>1, <2>2 DEF NotBlank
    <2>3. \A i \in 1 .. n : below[i] = rows[i]
      BY <1>3
    <2>4. rows = [i \in 1 .. n |-> rows[i]]
      BY SequenceIsFunction DEF IsRows, n
    <2> QED BY <2>3, <2>4, <2>5
  <1> QED BY <1>4, <1>7, <1>8

\* Without "Board:" there is no grid.
LEMMA NoRowsAreFound ==
    ASSUME NEW rows, IsRows(rows), NEW written,
           IsFile(written, << >>, rows, <<"Commands:">>)
    PROVE  ParseInput(written).board = Refusal("empty_board")
  <1> DEFINE n == Len(rows)
             below == SubSeq(written, MarkerAt(written, "Board:") + 1, Len(written))
             found == SubSeq(below, 1, MarkerAt(below, "Commands:") - 1)
             last == <<"Commands:">>
  <1>1. IsFull(<< >>) /\ IsFull(last)
    <2>1. "Commands:" \in Word /\ "Commands:" # NoWord
      BY LiteralsAreWords, LiteralsArePresent
    <2>2. IsFull(last)
      BY <2>1 DEF IsFull
    <2>3. IsFull(<< >>)
      BY DEF IsFull
    <2> QED BY <2>2, <2>3
  <1>2. /\ n \in Nat /\ DOMAIN rows = 1 .. n
        /\ written \in Seq(Seq(Word)) /\ DOMAIN written = 1 .. n + 2
        /\ \A i \in DOMAIN written : IsFull(written[i])
        /\ \A i \in 2 .. n + 1 : written[i] = rows[i - 1]
    BY <1>1, FileFacts
  <1>3. Len(written) = n + 2 /\ written[1] = << >> /\ written[n + 2] = last
    BY DEF IsFile
  <1>4. ParseInput(written).board = BuildBoard(NotBlank(found))
    BY <1>2, ParsedBoard
  <1> HIDE DEF n
  <1>5. MarkerAt(written, "Board:") = n + 3
    <2>1. ASSUME NEW i \in 2 .. n + 1
          PROVE  written[i] # <<"Board:">>
      <3>1. i - 1 \in 1 .. n
        BY <1>2
      <3> QED BY <1>2, <2>1, <3>1, RowIsNoMarker DEF IsRows
    <2>2. written[1] # <<"Board:">> /\ written[n + 2] # <<"Board:">>
      <3>1. << >> # <<"Board:">> /\ <<"Commands:">> # <<"Board:">>
        OBVIOUS
      <3> QED BY <1>3, <3>1
    <2>3. \A i \in 1 .. n + 2 : i \in 2 .. n + 1 \/ i = 1 \/ i = n + 2
      BY <1>2
    <2>4. \A i \in DOMAIN written : written[i] # <<"Board:">>
      BY <1>2, <2>1, <2>2, <2>3
    <2>5. MarkerAt(written, "Board:") = (n + 2) + 1
      BY <1>2, <1>3, <2>4, MarkerIsMissing
    <2> QED BY <1>2, <2>5
  <1>6. below = << >>
    <2>1. below = SubSeq(written, n + 4, n + 2)
      BY <1>2, <1>3, <1>5
    <2>2. n + 4 \in Int /\ n + 2 \in Int /\ n + 2 < n + 4
      BY <1>2
    <2> HIDE DEF below
    <2> QED BY <2>1, <2>2, SubSeqEmpty
  <1> HIDE DEF below
  <1>7. MarkerAt(below, "Commands:") = 1
    <2>1. below \in Seq(Seq(Word)) /\ Len(below) = 0 /\ DOMAIN below = {}
      BY <1>6
    <2>2. MarkerAt(below, "Commands:") = 0 + 1
      BY <2>1, MarkerIsMissing
    <2> QED BY <2>2
  <1>8. found = << >>
    <2>1. found = SubSeq(below, 1, 0)
      BY <1>7
    <2> HIDE DEF found
    <2> QED BY <2>1, SubSeqEmpty
  <1> HIDE DEF found
  <1>9. NotBlank(found) = << >>
    <2>1. found \in Seq(Seq(Word)) /\ IsRows(found)
      BY <1>8 DEF IsRows
    <2> QED BY <1>8, <2>1, RowsAreThere
  <1>10. BuildBoard(<< >>) = Refusal("empty_board")
    BY DEF BuildBoard
  <1> QED BY <1>4, <1>9, <1>10

(***************************************************************************)
(* The file of a board, whole or without one of its words.                 *)
(***************************************************************************)
LEMMA GridIsRows ==
    ASSUME NEW s, IsSnapshot(s)
    PROVE  IsRows(PrintBoard(s.board))
  <1> DEFINE grid == PrintBoard(s.board)
  <1>1. /\ grid \in Seq(Seq(Word)) /\ Len(grid) = Height
        /\ \A i \in 1 .. Height :
              /\ Len(grid[i]) = Width /\ IsFull(grid[i])
              /\ \A j \in 1 .. Width : grid[i][j] # "Board:" /\ grid[i][j] # "Commands:"
    BY GridFacts
  <1>2. Width \in Nat \ {0} /\ Height \in Nat \ {0}
    BY SnapshotFacts
  <1> HIDE DEF grid
  <1>3. DOMAIN grid = 1 .. Height
    BY <1>1, SequenceIsFunction
  <1>4. ASSUME NEW i \in DOMAIN grid
        PROVE  IsRow(grid[i])
    <2>1. grid[i] \in Seq(Word) /\ Len(grid[i]) = Width /\ IsFull(grid[i])
      BY <1>1, <1>3 DEF IsFull
    <2>2. DOMAIN grid[i] = 1 .. Width /\ grid[i] # << >>
      BY <1>2, <2>1, SequenceIsFunction
    <2>3. \A j \in DOMAIN grid[i] : grid[i][j] # "Board:" /\ grid[i][j] # "Commands:"
      BY <1>1, <1>3, <2>2
    <2> QED BY <2>1, <2>2, <2>3 DEF IsRow
  <1> QED BY <1>1, <1>4 DEF IsRows, grid

LEMMA FileTextFacts ==
    ASSUME NEW s, IsSnapshot(s)
    PROVE  IsFile(FileText(s), <<"Board:">>, PrintBoard(s.board), <<"Commands:">>)
  <1> DEFINE grid == PrintBoard(s.board)
             n == Len(grid)
             first == <<"Board:">>
             last == <<"Commands:">>
  <1>1. grid \in Seq(Seq(Word)) /\ n \in Nat
    BY GridFacts, SequenceIsFunction
  <1>2. first \in Seq(Word) /\ last \in Seq(Word)
    BY LiteralsAreWords
  <1>3. FileText(s) = <<first>> \o grid \o <<last>>
    BY DEF FileText
  <1> HIDE DEF grid, n, first, last
  <1> DEFINE front == <<first>> \o grid
             end == <<last>>
             full == front \o end
  <1>4. /\ front \in Seq(Seq(Word)) /\ Len(front) = n + 1
        /\ front[1] = first
        /\ \A k \in 1 .. n : front[k + 1] = grid[k]
    BY <1>1, <1>2, PrependFacts DEF n
  <1> HIDE DEF front
  <1>5. end \in Seq(Seq(Word)) /\ Len(end) = 1 /\ end[1] = last
    BY <1>2
  <1> HIDE DEF end
  <1>6. /\ full \in Seq(Seq(Word)) /\ Len(full) = (n + 1) + 1
        /\ \A i \in 1 .. (n + 1) + 1 :
              full[i] = IF i <= n + 1 THEN front[i] ELSE end[i - (n + 1)]
    <2>1. front \in Seq(Seq(Word)) /\ end \in Seq(Seq(Word))
      BY <1>4, <1>5
    <2>2. /\ full \in Seq(Seq(Word)) /\ Len(full) = Len(front) + Len(end)
          /\ \A i \in 1 .. Len(front) + Len(end) :
                full[i] = IF i <= Len(front) THEN front[i] ELSE end[i - Len(front)]
      BY <2>1, ConcatFacts
    <2>3. Len(front) = n + 1 /\ Len(end) = 1
      BY <1>4, <1>5
    <2> HIDE DEF full
    <2> QED BY <2>2, <2>3
  <1> HIDE DEF full
  <1>7. full[1] = first
    BY <1>1, <1>4, <1>6
  <1>8. full[n + 2] = last
    <2>1. n + 2 \in 1 .. (n + 1) + 1 /\ ~ (n + 2 <= n + 1) /\ (n + 2) - (n + 1) = 1
      BY <1>1
    <2>2. full[n + 2] = end[(n + 2) - (n + 1)]
      BY <1>6, <2>1
    <2> QED BY <1>5, <2>1, <2>2
  <1>9. \A i \in 1 .. n : full[i + 1] = grid[i]
    <2> TAKE i \in 1 .. n
    <2>1. i + 1 \in 1 .. (n + 1) + 1 /\ i + 1 <= n + 1
      BY <1>1
    <2>2. full[i + 1] = front[i + 1]
      BY <1>6, <2>1
    <2> QED BY <1>4, <2>2
  <1>10. Len(full) = n + 2
    BY <1>1, <1>6
  <1>11. IsFile(full, first, grid, last)
    BY <1>6, <1>7, <1>8, <1>9, <1>10 DEF IsFile, n
  <1>12. FileText(s) = full
    BY <1>3 DEF full, front, end
  <1> QED BY <1>11, <1>12 DEF first, grid, last

LEMMA WholeFileIsRead ==
    ASSUME NEW s, IsSnapshot(s)
    PROVE  ParseInput(FileText(s)).board = Reset(s.board)
  <1> DEFINE grid == PrintBoard(s.board)
             full == FileText(s)
             first == <<"Board:">>
             last == <<"Commands:">>
  <1>1. IsFile(full, first, grid, last) /\ IsRows(grid)
    BY FileTextFacts, GridIsRows
  <1>2. first = <<"Board:">> /\ last = <<"Commands:">>
    OBVIOUS
  <1> HIDE DEF grid, full, first, last
  <1>3. ParseInput(full).board = BuildBoard(grid)
    BY <1>1, <1>2, RowsAreFound
  <1> QED BY <1>3, GridIsBuilt DEF full, grid

LEMMA AlteredFacts ==
    ASSUME NEW S, NEW q \in Seq(S), NEW r, NEW x \in S
    PROVE  LET altered == [q EXCEPT ![r] = x]
           IN  /\ altered \in Seq(S) /\ Len(altered) = Len(q)
               /\ \A k \in 1 .. Len(q) : altered[k] = IF k = r THEN x ELSE q[k]
  <1> DEFINE n == Len(q)
             altered == [q EXCEPT ![r] = x]
  <1>1. n \in Nat /\ DOMAIN q = 1 .. n /\ \A k \in 1 .. n : q[k] \in S
    BY SequenceIsFunction
  <1>2. DOMAIN altered = 1 .. n /\ \A k \in 1 .. n : altered[k] = IF k = r THEN x ELSE q[k]
    BY <1>1
  <1>3. altered = [k \in 1 .. n |-> altered[k]]
    BY <1>2
  <1>4. \A k \in 1 .. n : altered[k] \in S
    BY <1>1, <1>2
  <1> HIDE DEF n, altered
  <1>5. altered \in Seq(S) /\ Len(altered) = n
    BY <1>1, <1>2, <1>3, <1>4
  <1> QED BY <1>2, <1>5 DEF n, altered

\* A file with another line in the place of one.
LEMMA FileWith ==
    ASSUME NEW rows, IsRows(rows), NEW full, NEW first, NEW last,
           IsFile(full, first, rows, last), IsFull(first), IsFull(last),
           NEW i \in DOMAIN full, NEW line \in Seq(Word),
           NEW written, written = [full EXCEPT ![i] = line]
    PROVE  /\ Len(rows) \in Nat /\ i \in 1 .. Len(rows) + 2
           /\ i = 1 => IsFile(written, line, rows, last)
           /\ i = Len(rows) + 2 => IsFile(written, first, rows, line)
           /\ i \in 2 .. Len(rows) + 1 =>
                 IsFile(written, first, [rows EXCEPT ![i - 1] = line], last)
  <1> DEFINE n == Len(rows)
             altered == [rows EXCEPT ![i - 1] = line]
  <1>1. /\ n \in Nat /\ DOMAIN rows = 1 .. n
        /\ full \in Seq(Seq(Word)) /\ DOMAIN full = 1 .. n + 2
        /\ \A k \in 2 .. n + 1 : full[k] = rows[k - 1]
    BY FileFacts
  <1>2. /\ rows \in Seq(Seq(Word))
        /\ Len(full) = n + 2 /\ full[1] = first /\ full[n + 2] = last
        /\ \A k \in 1 .. n : full[k + 1] = rows[k]
    BY DEF IsFile, IsRows
  <1>3. /\ written \in Seq(Seq(Word)) /\ Len(written) = n + 2
        /\ \A k \in 1 .. n + 2 : written[k] = IF k = i THEN line ELSE full[k]
    BY <1>1, <1>2
  <1>4. altered \in Seq(Seq(Word)) /\ Len(altered) = n
        /\ \A k \in 1 .. n : altered[k] = IF k = i - 1 THEN line ELSE rows[k]
    BY <1>2, AlteredFacts
  <1> HIDE DEF n, altered
  <1>5. 1 \in 1 .. n + 2 /\ n + 2 \in 1 .. n + 2 /\ 1 # n + 2
    BY <1>1
  <1>6. ASSUME i = 1
        PROVE  IsFile(written, line, rows, last)
    <2>1. written[1] = line /\ written[n + 2] = last
      BY <1>2, <1>3, <1>5, <1>6
    <2>2. ASSUME NEW k \in 1 .. n
          PROVE  written[k + 1] = rows[k]
      <3>1. k + 1 \in 1 .. n + 2 /\ k + 1 # i
        BY <1>1, <1>6
      <3> QED BY <1>2, <1>3, <3>1
    <2> QED BY <1>3, <2>1, <2>2 DEF IsFile, n
  <1>7. ASSUME i = n + 2
        PROVE  IsFile(written, first, rows, line)
    <2>1. written[1] = first /\ written[n + 2] = line
      BY <1>2, <1>3, <1>5, <1>7
    <2>2. ASSUME NEW k \in 1 .. n
          PROVE  written[k + 1] = rows[k]
      <3>1. k + 1 \in 1 .. n + 2 /\ k + 1 # i
        BY <1>1, <1>7
      <3> QED BY <1>2, <1>3, <3>1
    <2> QED BY <1>3, <2>1, <2>2 DEF IsFile, n
  <1>8. ASSUME i \in 2 .. n + 1
        PROVE  IsFile(written, first, altered, last)
    <2>1. i # 1 /\ i # n + 2
      BY <1>1, <1>8
    <2>2. written[1] = first /\ written[n + 2] = last
      BY <1>2, <1>3, <1>5, <2>1
    <2>3. ASSUME NEW k \in 1 .. n
          PROVE  written[k + 1] = altered[k]
      <3>1. k + 1 \in 1 .. n + 2 /\ (k + 1 = i <=> k = i - 1)
        <4>1. n \in Nat
          BY <1>1
        <4>2. i \in Int /\ k \in Int /\ k + 1 \in 1 .. n + 2
          BY <1>8, <4>1
        <4> QED BY <4>2
      <3>2. written[k + 1] = IF k + 1 = i THEN line ELSE full[k + 1]
        BY <1>3, <3>1
      <3>3. altered[k] = IF k = i - 1 THEN line ELSE rows[k]
        BY <1>4
      <3>4. full[k + 1] = rows[k]
        BY <1>2
      <3> QED BY <3>1, <3>2, <3>3, <3>4
    <2> QED BY <1>3, <1>4, <2>2, <2>3 DEF IsFile
  <1> QED BY <1>1, <1>6, <1>7, <1>8 DEF n, altered

\* A row that has lost one of its tokens is no longer as long as the others.
LEMMA LostTokenIsRefused ==
    ASSUME Width > 1, Height > 1, NEW s, IsSnapshot(s),
           NEW r \in 1 .. Height, NEW j \in 1 .. Width
    PROVE  LET grid == PrintBoard(s.board)
               rest == RemoveAt(grid[r], j)
               rows == [grid EXCEPT ![r] = rest]
           IN  /\ rest \in Seq(Word)
               /\ IsRows(rows)
               /\ BuildBoard(rows) = Refusal("ROW_WIDTH_MISMATCH")
  <1> DEFINE grid == PrintBoard(s.board)
             line == grid[r]
             rest == RemoveAt(line, j)
             rows == [grid EXCEPT ![r] = rest]
  <1>1. /\ grid \in Seq(Seq(Word)) /\ Len(grid) = Height
        /\ \A i \in 1 .. Height :
              /\ Len(grid[i]) = Width /\ IsFull(grid[i])
              /\ \A k \in 1 .. Width : grid[i][k] # "Board:" /\ grid[i][k] # "Commands:"
    BY GridFacts
  <1>2. Width \in Nat \ {0} /\ Height \in Nat \ {0} /\ Width >= 2 /\ Height >= 2
    <2>1. Width \in Nat \ {0} /\ Height \in Nat \ {0}
      BY SnapshotFacts
    <2> QED BY <2>1
  <1>3. IsRows(grid)
    BY GridIsRows
  <1> HIDE DEF grid
  <1>4. /\ line \in Seq(Word) /\ Len(line) = Width /\ IsFull(line)
        /\ \A k \in 1 .. Width : line[k] # "Board:" /\ line[k] # "Commands:"
    BY <1>1 DEF IsFull
  <1> HIDE DEF line
  <1>5. DOMAIN line = 1 .. Width
    BY <1>4, SequenceIsFunction
  <1>6. /\ rest \in Seq(Word) /\ Len(rest) = Width - 1 /\ rest # << >> /\ IsFull(rest)
    BY <1>2, <1>4, <1>5, ShorterLine
  <1>7. \A k \in DOMAIN rest : rest[k] = IF k < j THEN line[k] ELSE line[k + 1]
    <2>1. line \in Seq(Word) /\ j \in DOMAIN line
      BY <1>4, <1>5
    <2> QED BY <2>1, RemovalFacts, Zenon
  <1> HIDE DEF rest
  <1>8. DOMAIN rest = 1 .. Width - 1
    BY <1>6, SequenceIsFunction
  <1>9. IsRow(rest)
    <2>1. ASSUME NEW k \in DOMAIN rest
          PROVE  rest[k] # "Board:" /\ rest[k] # "Commands:"
      <3>1. k \in 1 .. Width /\ k + 1 \in 1 .. Width
        BY <1>2, <1>8
      <3>2. rest[k] = line[k] \/ rest[k] = line[k + 1]
        BY <1>7
      <3> QED BY <1>4, <3>1, <3>2
    <2> QED BY <1>6, <2>1 DEF IsRow
  <1>10. /\ rows \in Seq(Seq(Word)) /\ Len(rows) = Height
         /\ \A k \in 1 .. Height : rows[k] = IF k = r THEN rest ELSE grid[k]
    BY <1>1, <1>6, AlteredFacts
  <1> HIDE DEF rows
  <1>11. DOMAIN rows = 1 .. Height /\ DOMAIN grid = 1 .. Height /\ rows # << >>
    BY <1>1, <1>2, <1>10, SequenceIsFunction
  <1>12. IsRows(rows)
    <2>1. \A k \in DOMAIN rows : IsRow(rows[k])
      BY <1>3, <1>9, <1>10, <1>11 DEF IsRows
    <2> QED BY <1>10, <2>1 DEF IsRows
  <1>13. Uneven(rows)
    <2>1. \A k \in 1 .. Height : k # r => Len(rows[k]) = Width
      BY <1>1, <1>10
    <2>2. Len(rows[r]) = Width - 1
      BY <1>6, <1>10
    <2>3. 1 \in 1 .. Height /\ 2 \in 1 .. Height
      BY <1>2
    <2>4. CASE r = 1
      <3>1. Len(rows[2]) = Width /\ Len(rows[1]) = Width - 1
        BY <2>1, <2>2, <2>3, <2>4
      <3>2. Len(rows[2]) # Len(rows[1])
        BY <1>2, <3>1
      <3> QED BY <1>11, <2>3, <3>2 DEF Uneven
    <2>5. CASE r # 1
      <3>1. Len(rows[1]) = Width
        BY <2>1, <2>3, <2>5
      <3>2. Len(rows[r]) # Len(rows[1])
        BY <1>2, <2>2, <3>1
      <3> QED BY <1>11, <3>2 DEF Uneven
    <2> QED BY <2>4, <2>5
  <1>14. BuildBoard(rows) = Refusal("ROW_WIDTH_MISMATCH")
    BY <1>11, <1>13, Zenon DEF BuildBoard
  <1> QED BY <1>6, <1>12, <1>14 DEF rows, rest, line, grid

\* What may be made of the file of a board that has lost a word.
IsLeft(s, b) ==
    \/ b = Reset(s.board)
    \/ b = Refusal("empty_board")
    \/ b = Refusal("ROW_WIDTH_MISMATCH")

LEMMA LostFromFile ==
    ASSUME Width > 1, Height > 1, NEW s, IsSnapshot(s),
           NEW written, LacksWord(FileText(s), written)
    PROVE  IsLeft(s, ParseInput(written).board)
  <1> DEFINE full == FileText(s)
             grid == PrintBoard(s.board)
             first == <<"Board:">>
             last == <<"Commands:">>
             n == Len(grid)
  <1>1. IsFile(full, first, grid, last) /\ IsRows(grid)
    BY FileTextFacts, GridIsRows
  <1>2. /\ first \in Seq(Word) /\ Len(first) = 1 /\ IsFull(first)
        /\ last \in Seq(Word) /\ Len(last) = 1 /\ IsFull(last)
    <2>1. /\ "Commands:" \in Word /\ "Commands:" # NoWord
          /\ "Board:" \in Word /\ "Board:" # NoWord
      BY LiteralsAreWords, LiteralsArePresent
    <2> QED BY <2>1 DEF IsFull
  <1>3. n = Height /\ \A i \in 1 .. Height : Len(grid[i]) = Width /\ IsFull(grid[i])
    BY GridFacts
  <1>4. PICK i \in DOMAIN full : \E j \in DOMAIN full[i] :
           written = [full EXCEPT ![i] = RemoveAt(@, j)]
    BY DEF LacksWord
  <1>5. PICK j \in DOMAIN full[i] : written = [full EXCEPT ![i] = RemoveAt(@, j)]
    BY <1>4
  <1>6. first = <<"Board:">> /\ last = <<"Commands:">>
    OBVIOUS
  <1>7. Height \in Nat \ {0}
    BY SnapshotFacts
  <1> HIDE DEF full, grid, first, last, n
  <1> DEFINE rest == RemoveAt(full[i], j)
  <1>8. /\ full \in Seq(Seq(Word))
        /\ \A k \in 2 .. n + 1 : full[k] = grid[k - 1]
        /\ full[1] = first /\ full[n + 2] = last
    BY <1>1, <1>2, FileFacts DEF IsFile, n
  <1>9. /\ written = [full EXCEPT ![i] = rest]
        /\ full[i] \in Seq(Word) /\ rest \in Seq(Word)
        /\ Len(rest) = Len(full[i]) - 1
    BY <1>5, <1>8, LostWord
  <1> HIDE DEF rest
  <1>10. /\ i \in 1 .. n + 2
         /\ i = 1 => IsFile(written, rest, grid, last)
         /\ i = n + 2 => IsFile(written, first, grid, rest)
         /\ i \in 2 .. n + 1 => IsFile(written, first, [grid EXCEPT ![i - 1] = rest], last)
    BY <1>1, <1>2, <1>9, FileWith DEF n
  <1>11. CASE i = 1
    <2>1. rest = << >>
      BY <1>2, <1>8, <1>9, <1>11
    <2>2. IsFile(written, << >>, grid, <<"Commands:">>)
      BY <1>6, <1>10, <1>11, <2>1
    <2>3. ParseInput(written).board = Refusal("empty_board")
      BY <1>1, <2>2, NoRowsAreFound
    <2> QED BY <2>3 DEF IsLeft
  <1>12. CASE i = n + 2
    <2>1. rest = << >>
      BY <1>2, <1>8, <1>9, <1>12
    <2>2. ParseInput(written).board = BuildBoard(grid)
      BY <1>1, <1>6, <1>10, <1>12, <2>1, RowsAreFoundOpen
    <2>3. BuildBoard(grid) = Reset(s.board)
      BY GridIsBuilt DEF grid
    <2> QED BY <2>2, <2>3 DEF IsLeft
  <1>13. CASE i \in 2 .. n + 1
    <2> DEFINE r == i - 1
               rows == [grid EXCEPT ![r] = rest]
    <2>1. r \in 1 .. Height
      BY <1>3, <1>7, <1>13
    <2>2. full[i] = grid[r]
      BY <1>8, <1>13
    <2>3. j \in 1 .. Width
      <3>1. DOMAIN full[i] = 1 .. Width
        BY <1>3, <1>9, <2>1, <2>2, SequenceIsFunction
      <3> QED BY <3>1
    <2>4. rest = RemoveAt(grid[r], j)
      BY <2>2 DEF rest
    <2>5. IsFile(written, first, rows, last)
      BY <1>10, <1>13
    <2> HIDE DEF r
    <2>6. IsRows(rows) /\ BuildBoard(rows) = Refusal("ROW_WIDTH_MISMATCH")
      BY <2>1, <2>3, <2>4, LostTokenIsRefused DEF grid
    <2> HIDE DEF rows
    <2>7. ParseInput(written).board = BuildBoard(rows)
      BY <1>6, <2>5, <2>6, RowsAreFound
    <2> QED BY <2>6, <2>7 DEF IsLeft
  <1>14. i = 1 \/ i = n + 2 \/ i \in 2 .. n + 1
    BY <1>3, <1>7, <1>10
  <1> QED BY <1>11, <1>12, <1>13, <1>14

LEMMA FilesAreRead ==
    ASSUME Width > 1, Height > 1, FileCarried, text # << >>, damage # "line",
           NEW b, b = ParseInput(text).board
    PROVE  \/ "error" \notin DOMAIN b /\ SamePosition(b, sent.body.board)
           \/ damage # "none" /\ b = Refusal("ROW_WIDTH_MISMATCH")
           \/ damage # "none" /\ b = Refusal("empty_board")
  <1> DEFINE s == sent.body
  <1>1. /\ IsSnapshot(s)
        /\ damage = "none" => text = FileText(s)
        /\ damage \in {"word", "keyword"} => LacksWord(FileText(s), text)
        /\ damage = "none" \/ damage \in {"word", "keyword"}
    BY DEF FileCarried
  <1> HIDE DEF s
  <1>2. "error" \notin DOMAIN Reset(s.board) /\ SamePosition(Reset(s.board), s.board)
    BY <1>1, ResetIsSame
  <1>3. CASE damage = "none"
    <2>1. b = Reset(s.board)
      BY <1>1, <1>3, WholeFileIsRead
    <2> QED BY <1>2, <2>1 DEF s
  <1>4. CASE damage \in {"word", "keyword"}
    <2>1. IsLeft(s, b)
      BY <1>1, <1>4, LostFromFile
    <2>2. damage # "none"
      BY <1>4, FormsDiffer
    <2> QED BY <1>2, <2>1, <2>2 DEF IsLeft, s
  <1> QED BY <1>1, <1>3, <1>4

LEMMA BoardsSurviveNext ==
    ASSUME Width > 1, Height > 1
    PROVE  TextInv /\ BoardsSurvive /\ [Next]_vars => BoardsSurvive'
  <1> SUFFICES ASSUME TextInv, BoardsSurvive, [Next]_vars
               PROVE  BoardsSurvive'
    OBVIOUS
  <1>1. ASSUME got' = {}
        PROVE  BoardsSurvive'
    BY <1>1 DEF BoardsSurvive
  <1>2. ASSUME NEW i \in DOMAIN Messages, SendMessage(Messages[i])
        PROVE  BoardsSurvive'
    BY <1>1, <1>2 DEF SendMessage, Write
  <1>3. ASSUME NEW i \in DOMAIN Snapshots, Broadcast(Snapshots[i]) \/ WriteFile(Snapshots[i])
        PROVE  BoardsSurvive'
    BY <1>1, <1>3 DEF Broadcast, WriteFile, Write
  <1>4. ASSUME text' # << >>
        PROVE  BoardsSurvive'
    BY <1>4 DEF BoardsSurvive, WasRead
  <1>5. ASSUME NEW i \in DOMAIN text, LoseLine(i)
        PROVE  BoardsSurvive'
    <2>1. damage' = "line"
      BY <1>5 DEF LoseLine, Alter
    <2> QED BY <2>1 DEF BoardsSurvive
  <1>6. ASSUME NEW i \in DOMAIN text, NEW j \in DOMAIN text[i], LoseWord(i, j)
        PROVE  BoardsSurvive'
    <2>1. text' = [text EXCEPT ![i] = RemoveAt(@, j)]
      BY <1>6 DEF LoseWord, Alter
    <2>2. i \in DOMAIN text'
      BY <2>1
    <2>3. text' # << >>
      BY <2>2
    <2> QED BY <1>4, <2>3
  <1>7. CASE GainLine
    <2>1. sent'.form = "frame"
      BY <1>7 DEF GainLine, Alter
    <2> QED BY <2>1, FormsDiffer DEF BoardsSurvive, WasRead
  <1>8. CASE Read
    <2>1. sent' = sent /\ damage' = damage /\ text # << >>
      BY <1>8 DEF Read
    <2>2. CASE sent.form = "file" /\ damage # "line"
      <3>1. Parse
        BY <1>8, <2>2, FormsDiffer DEF Read, Receive
      <3>2. got' = {ParseInput(text).board}
        BY <3>1 DEF Parse
      <3>3. FileCarried
        BY <2>2 DEF TextInv
      <3>4. \A b \in got' :
               \/ "error" \notin DOMAIN b /\ SamePosition(b, sent.body.board)
               \/ damage # "none" /\ b = Refusal("ROW_WIDTH_MISMATCH")
               \/ damage # "none" /\ b = Refusal("empty_board")
        BY <2>1, <2>2, <3>2, <3>3, FilesAreRead
      <3> QED BY <2>1, <3>4 DEF BoardsSurvive
    <2>3. CASE ~ (sent.form = "file" /\ damage # "line")
      BY <2>1, <2>3 DEF BoardsSurvive, WasRead
    <2> QED BY <2>2, <2>3
  <1>9. CASE UNCHANGED vars
    BY <1>9 DEF vars, BoardsSurvive, WasRead
  <1> QED BY <1>2, <1>3, <1>5, <1>6, <1>7, <1>8, <1>9 DEF Next

(***************************************************************************)
(* A printed board is parsed to the same position, for every board of two  *)
(* columns and two rows at least; a file that has lost a word of its grid  *)
(* or a marker is refused, or still is that position.  (The only token of  *)
(* a row leaves a blank line, and a grid of one row is never uneven.)      *)
(***************************************************************************)
THEOREM BoardsAreRead ==
    ASSUME Width > 1, Height > 1
    PROVE  Spec => []BoardsSurvive
  <1>1. Init => BoardsSurvive
    BY DEF Init, BoardsSurvive
  <1>2. TextInv /\ BoardsSurvive /\ [Next]_vars => BoardsSurvive'
    BY BoardsSurviveNext
  <1> QED BY <1>1, <1>2, TextsAreCarried, PTL DEF Spec

=============================================================================
