------------------------------ MODULE Spelling ------------------------------
(***************************************************************************)
(* The words that are written for a board of Width columns and Height      *)
(* rows and for the integers in Numbers, spelt character by character:     *)
(* what TLC knows of strings, and provers do not.  Every assumption is     *)
(* about words alone, those that std::to_string writes and std::stoi       *)
(* reads, or those that are put together of letters and numerals; what is  *)
(* made of words is for the proofs.                                        *)
(***************************************************************************)
EXTENDS WireFormat

CONSTANTS
    Width,    \* the columns of the board
    Height,   \* its rows
    Numbers   \* the integers that are written

Cells == (0 .. Height - 1) \X (0 .. Width - 1)

\* In ten-thousandths, and the thousandths that are written of them.
Progress == 0 .. 10000
WrittenProgress == 0 .. 1000

ASSUME SizeType ==
    /\ Height \in Nat \ {0}
    /\ Width \in 1 .. 26
    /\ Numbers \subseteq Int
    /\ WrittenProgress \cup (1 .. Height) \cup (1 .. Width) \subseteq Numbers

Word == STRING

ASSUME LiteralsAreWords ==
    {NoWord, EmptyToken, "Board:", "Commands:", "over", "size", "piece", "motion",
     "cooldown", "weather", "fine", "user", "pass", "white", "black",
     "0", "1", "I", "M", "A", "R", "C", "w", "b", "-",
     "CMD", "ROLE", "MOVE", "CAPTURE", "STATE", "LOGIN", "ROSTER", "OPPGONE",
     "AUTHFAIL", "ROOMERR", "JOIN", "ROOM", "SEEK", "CANCEL", "CREATE", "NOMATCH",
     "OPPBACK"} \subseteq Word

\* A word that has no meaning where it begins a line of a frame or a file.
IsPlain(word) ==
    /\ word \in Word
    /\ word # NoWord /\ word # EmptyToken
    /\ word # "over" /\ word # "size"
    /\ word # "piece" /\ word # "motion" /\ word # "cooldown"
    /\ word # "Board:" /\ word # "Commands:"

ASSUME NumeralsAreRead ==
    \A n \in Numbers :
        /\ IsPlain(ToString(n))
        /\ IntegerIn(ToString(n)) = {n}
        /\ n >= 0 => /\ NaturalIn(ToString(n)) = {n}
                     /\ IsNumeral(ToString(n))
                     /\ ValueOf(ToString(n)) = n

ASSUME TokensAreSpelt ==
    \A color \in Color, kind \in Kind :
        LET token == EncodePieceToken(color, kind)
        IN  /\ IsPlain(token)
            /\ Len(token) = 2
            /\ CharAt(token, 1) = ColorLetter[color]
            /\ CharAt(token, 2) = KindLetter[kind]

ASSUME FilesAreSpelt ==
    /\ Len(FileLetters) = 26
    /\ \A i, j \in 1 .. 26 : CharAt(FileLetters, i) = CharAt(FileLetters, j) => i = j
    /\ \A i \in 1 .. 26 : CharAt(FileLetters, i) \notin DOMAIN DigitValue

ASSUME SquaresAreSpelt ==
    \A cell \in Cells :
        LET name == SquareName(cell, Height)
            rank == ToString(Height - cell[1])
        IN  /\ IsPlain(name)
            /\ Len(rank) \in Nat \ {0}
            /\ Len(name) = 1 + Len(rank)
            /\ CharAt(name, 1) = FileLetter(cell)
            /\ Tail(name) = rank

ASSUME CommandsAreSpelt ==
    \A color \in Color, kind \in Kind, from, to \in Cells :
        LET word == EncodeCommand([player |-> color, kind |-> kind,
                                   from |-> from, to |-> to], Height)
            first == Len(SquareName(from, Height))
            second == Len(SquareName(to, Height))
        IN  /\ word \in Word
            /\ Len(word) = 2 + first + second
            /\ CharAt(word, 1) = UpperLetter[color]
            /\ CharAt(word, 2) = KindLetter[kind]
            /\ SubSeq(word, 3, 2 + first) = SquareName(from, Height)
            /\ SubSeq(word, 3 + first, 2 + first + second) = SquareName(to, Height)

\* Cut beside the place where the second name begins, a command has a letter
\* among the digits of the one half, or a digit for the letter of the other.
ASSUME HalvesAreSpelt ==
    \A color \in Color, kind \in Kind, from, to \in Cells :
        LET word == EncodeCommand([player |-> color, kind |-> kind,
                                   from |-> from, to |-> to], Height)
            first == Len(SquareName(from, Height))
            half == (Len(word) - 2) \div 2
            digits == Tail(SubSeq(word, 3, 2 + half))
        IN  /\ half > first => /\ first \in 1 .. Len(digits)
                               /\ CharAt(digits, first) = FileLetter(to)
            /\ half < first =>
                  CharAt(SubSeq(word, 3 + half, Len(word)), 1) \in DOMAIN DigitValue

=============================================================================
