----------------------------- MODULE StateCodec -----------------------------
(***************************************************************************)
(* Frames of game state as text (shared/logic/io: text, state_codec) and   *)
(* boards as files (board_parser, board_printer).                          *)
(*                                                                         *)
(* A text is a sequence of lines, and a line the words between its single  *)
(* spaces: a word is empty where two spaces meet.  Free text, such as a    *)
(* name, is a line.                                                        *)
(*                                                                         *)
(* A snapshot is a board (width, height and the pieces standing on it)     *)
(* with the over flag, motions and rests.  Progress is counted in          *)
(* ten-thousandths and written in thousandths; where the decimal point     *)
(* stands is left out.                                                     *)
(***************************************************************************)
EXTENDS Notation, Entries, SequencesExt

NoWord == ""

\* tokenize: split on runs of spaces.
Tokens(line) == Filtered(line, {i \in DOMAIN line : line[i] # NoWord})

StateLetter ==
    [Idle |-> "I", Moving |-> "M", Airborne |-> "A", Resting |-> "R", Captured |-> "C"]

State == DOMAIN StateLetter

\* Mutant: the progress is cut off, not rounded.
EncodeProgressTruncated(progress) == ToString(progress \div 10)

EncodeProgress(progress) == ToString((progress + 5) \div 10)

DecodeProgress(word) == {10 * n : n \in IntegerIn(word)}

\* What is left of a progress on the other side.
Rounded(progress) == 10 * ((progress + 5) \div 10)

\* Mutant: column by column.
CellsByColumn(board) ==
    [i \in 1 .. board.width * board.height |->
        <<(i - 1) % board.height, (i - 1) \div board.height>>]

\* Row by row.
CellsInOrder(board) ==
    [i \in 1 .. board.width * board.height |->
        <<(i - 1) \div board.width, (i - 1) % board.width>>]

PiecesAt(board, cell) == {p \in board.pieces : p.cell = cell}

PieceAt(board, cell) == CHOOSE p \in PiecesAt(board, cell) : TRUE

OccupiedCells(board) ==
    LET cells == CellsInOrder(board)
    IN  Filtered(cells, {i \in DOMAIN cells : PiecesAt(board, cells[i]) # {}})

-----------------------------------------------------------------------------
(***************************************************************************)
(* encodeState.                                                            *)
(***************************************************************************)
EncodePiece(p, height) ==
    << "piece", ToString(p.id), EncodePieceToken(p.color, p.kind),
       SquareName(p.cell, height), StateLetter[p.state] >>

EncodePieces(board) ==
    LET cells == OccupiedCells(board)
    IN  [i \in DOMAIN cells |-> EncodePiece(PieceAt(board, cells[i]), board.height)]

EncodeMotion(m, height) ==
    << "motion", SquareName(m.from, height), SquareName(m.to, height),
       EncodeProgress(m.progress) >>

EncodeCooldown(r, height) ==
    << "cooldown", SquareName(r.cell, height), EncodeProgress(r.progress) >>

EncodeState(s) ==
    LET height == s.board.height
    IN  << <<"over", EncodeFlag(s.over)>>,
           <<"size", ToString(s.board.width), ToString(height)>> >>
        \o EncodePieces(s.board)
        \o [i \in DOMAIN s.motions |-> EncodeMotion(s.motions[i], height)]
        \o [i \in DOMAIN s.cooldowns |-> EncodeCooldown(s.cooldowns[i], height)]

-----------------------------------------------------------------------------
(***************************************************************************)
(* decodeState.  Lines of an unknown keyword are skipped; a known line     *)
(* that cannot be read spoils the frame, and so do a missing over or size  *)
(* line and two pieces on one cell or one beside the board.                *)
(***************************************************************************)
DecodeOver(line) == IF Len(line) = 2 THEN DecodeFlag(line[2]) ELSE {}

DecodeSize(line) ==
    IF Len(line) # 3 THEN {}
    ELSE {[width |-> w, height |-> h] : w \in IntegerIn(line[2]) \cap (Nat \ {0}),
                                        h \in IntegerIn(line[3]) \cap (Nat \ {0})}

DecodePiece(line, height) ==
    IF Len(line) # 5 THEN {}
    ELSE {[id |-> n, color |-> p.color, kind |-> p.kind, cell |-> c, state |-> st] :
            n \in NaturalIn(line[2]),
            p \in PieceFromToken(line[3]),
            c \in SquareFromName(line[4], height),
            st \in {x \in State : StateLetter[x] = line[5]}}

DecodeMotion(line, height) ==
    IF Len(line) # 4 THEN {}
    ELSE {[from |-> f, to |-> t, progress |-> n] :
            f \in SquareFromName(line[2], height),
            t \in SquareFromName(line[3], height),
            n \in DecodeProgress(line[4])}

DecodeCooldown(line, height) ==
    IF Len(line) # 3 THEN {}
    ELSE {[cell |-> c, progress |-> n] :
            c \in SquareFromName(line[2], height), n \in DecodeProgress(line[3])}

\* Mutant: an unreadable line is skipped like an unknown one.
ReadableLines(decoded) ==
    LET readable == Filtered(decoded, {i \in DOMAIN decoded : decoded[i] # {}})
    IN  {[i \in DOMAIN readable |-> CHOOSE v \in readable[i] : TRUE]}

\* What was made of each line, if every one of them could be read.
EveryLine(decoded) ==
    IF \E i \in DOMAIN decoded : decoded[i] = {} THEN {}
    ELSE {[i \in DOMAIN decoded |-> CHOOSE v \in decoded[i] : TRUE]}

\* A keyword that must be there, and whose last line counts.
LastOf(values) == {Last(v) : v \in values \ {<< >>}}

\* Mutant: a game whose flag is missing goes on.
OverUnlessMissing(decoded) ==
    IF decoded = << >> THEN {FALSE} ELSE LastOf(EveryLine(decoded))

OverIn(decoded) == LastOf(EveryLine(decoded))

\* Board::addPiece throws otherwise.
CanStand(pieces, width) ==
    /\ \A i \in DOMAIN pieces : pieces[i].cell[2] < width
    /\ \A i, j \in DOMAIN pieces : pieces[i].cell = pieces[j].cell => i = j

\* The lines of a frame, as tokens, that a keyword names.
LinesOf(tokens, keyword) ==
    Filtered(tokens, {i \in DOMAIN tokens : tokens[i] # << >> /\ Head(tokens[i]) = keyword})

DecodeOvers(tokens) ==
    LET lines == LinesOf(tokens, "over")
    IN  OverIn([i \in DOMAIN lines |-> DecodeOver(lines[i])])

DecodeSizes(tokens) ==
    LET lines == LinesOf(tokens, "size")
    IN  LastOf(EveryLine([i \in DOMAIN lines |-> DecodeSize(lines[i])]))

DecodePieces(tokens, size) ==
    LET lines == LinesOf(tokens, "piece")
    IN  {pieces \in EveryLine([i \in DOMAIN lines |-> DecodePiece(lines[i], size.height)]) :
            CanStand(pieces, size.width)}

DecodeMotions(tokens, height) ==
    LET lines == LinesOf(tokens, "motion")
    IN  EveryLine([i \in DOMAIN lines |-> DecodeMotion(lines[i], height)])

DecodeCooldowns(tokens, height) ==
    LET lines == LinesOf(tokens, "cooldown")
    IN  EveryLine([i \in DOMAIN lines |-> DecodeCooldown(lines[i], height)])

DecodeTokens(tokens) ==
    UNION {{[over |-> over,
             board |-> [width |-> size.width, height |-> size.height,
                        pieces |-> ToSet(pieces)],
             motions |-> motions, cooldowns |-> cooldowns] :
                pieces \in DecodePieces(tokens, size),
                motions \in DecodeMotions(tokens, size.height),
                cooldowns \in DecodeCooldowns(tokens, size.height)} :
            over \in DecodeOvers(tokens), size \in DecodeSizes(tokens)}

DecodeState(frame) == DecodeTokens([i \in DOMAIN frame |-> Tokens(frame[i])])

\* The frame is rebuilt aside, so that a bad one changes nothing.
Replaced(replica, frame) ==
    IF DecodeState(frame) = {} THEN replica
    ELSE CHOOSE s \in DecodeState(frame) : TRUE

-----------------------------------------------------------------------------
(***************************************************************************)
(* Board files: a grid of tokens after "Board:", commands after            *)
(* "Commands:", blank lines ignored.  The printer writes the grid.         *)
(***************************************************************************)
EncodeCell(board, cell) ==
    IF PiecesAt(board, cell) = {} THEN EmptyToken
    ELSE EncodePieceToken(PieceAt(board, cell).color, PieceAt(board, cell).kind)

PrintBoard(board) ==
    [row \in 1 .. board.height |->
        [col \in 1 .. board.width |-> EncodeCell(board, <<row - 1, col - 1>>)]]

Refusal(code) == [error |-> code]

Uneven(grid) == \E i \in DOMAIN grid : Len(grid[i]) # Len(grid[1])

TokenAt(grid, cell) == grid[cell[1] + 1][cell[2] + 1]

TakenCells(grid) ==
    LET cells == CellsInOrder([width |-> Len(grid[1]), height |-> Len(grid)])
    IN  Filtered(cells, {i \in DOMAIN cells : TokenAt(grid, cells[i]) # EmptyToken})

NewPiece(id, p, cell) ==
    [id |-> id, color |-> p.color, kind |-> p.kind, cell |-> cell, state |-> "Idle"]

\* buildBoard: ids are given in row-major order, from 1.
BuildBoard(grid) ==
    LET taken == TakenCells(grid)
        piece(i) == PieceFromToken(TokenAt(grid, taken[i]))
    IN  IF grid = << >> THEN Refusal("empty_board")
        ELSE IF Uneven(grid) THEN Refusal("ROW_WIDTH_MISMATCH")
        ELSE IF \E i \in DOMAIN taken : piece(i) = {} THEN Refusal("UNKNOWN_TOKEN")
        ELSE [width |-> Len(grid[1]), height |-> Len(grid),
              pieces |-> UNION {{NewPiece(i, p, taken[i]) : p \in piece(i)} :
                                    i \in DOMAIN taken}]

NotBlank(lines) == Filtered(lines, {i \in DOMAIN lines : lines[i] # << >>})

\* The place of the first line that is just this marker, or the end.
MarkerAt(lines, marker) ==
    LET i == SelectInSeq(lines, LAMBDA l : l = <<marker>>)
    IN  IF i = 0 THEN Len(lines) + 1 ELSE i

ParseInput(text) ==
    LET lines == [i \in DOMAIN text |-> Tokens(text[i])]
        below == SubSeq(lines, MarkerAt(lines, "Board:") + 1, Len(lines))
        rows == SubSeq(below, 1, MarkerAt(below, "Commands:") - 1)
        commands == SubSeq(below, Len(rows) + 2, Len(below))
    IN  [board |-> BuildBoard(NotBlank(rows)), commands |-> NotBlank(commands)]

=============================================================================
