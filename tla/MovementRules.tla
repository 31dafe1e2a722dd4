--------------------------- MODULE MovementRules ---------------------------
(***************************************************************************)
(* Which squares a piece may be ordered to (shared/logic/rules): one       *)
(* operator per PieceRules subclass, the dispatch of ruleFor, the checks   *)
(* of RuleEngine::validateMove, and promotion.  All of it reads the board  *)
(* and none of it changes anything.                                        *)
(***************************************************************************)
EXTENDS Board

Orthogonal == {<<1, 0>>, <<-1, 0>>, <<0, 1>>, <<0, -1>>}
Diagonal == {<<1, 1>>, <<1, -1>>, <<-1, 1>>, <<-1, -1>>}
KnightSteps == {<<2, 1>>, <<2, -1>>, <<-2, 1>>, <<-2, -1>>,
                <<1, 2>>, <<1, -2>>, <<-1, 2>>, <<-1, -2>>}

Offset(from, dir, n) == <<from[1] + n * dir[1], from[2] + n * dir[2]>>

\* The cases of classify(); OffBoard is "not in Cells".
Empty(b, c) == c \in Cells /\ b.at[c] = NoPiece

Enemy(b, p, c) ==
    /\ c \in Cells
    /\ Occupied(b, c)
    /\ ColorOf(b.at[c]) # ColorOf(p)

\* Outward from the piece while the cells are empty, up to an enemy.
Slide(b, p, directions) ==
    {c \in Cells :
        \E dir \in directions, n \in 1 .. Height + Width :
            /\ c = Offset(b.cell[p], dir, n)
            /\ \A k \in 1 .. n - 1 : Empty(b, Offset(b.cell[p], dir, k))
            /\ Empty(b, c) \/ Enemy(b, p, c)}

SingleSteps(b, p, offsets) ==
    {c \in Cells :
        \E dir \in offsets :
            /\ c = Offset(b.cell[p], dir, 1)
            /\ Empty(b, c) \/ Enemy(b, p, c)}

\* White advances towards row 0, black away from it.
ForwardStep(color) == IF color = "White" THEN -1 ELSE 1

StartRow(color) == IF color = "White" THEN Height - 2 ELSE 1

PawnDestinations(b, p) ==
    LET from == b.cell[p]
        Ahead(n, cols) == <<from[1] + n * ForwardStep(ColorOf(p)), from[2] + cols>>
    IN  {c \in Cells :
            \/ c = Ahead(1, 0) /\ Empty(b, c)
            \/ /\ c = Ahead(2, 0) /\ Empty(b, c) /\ Empty(b, Ahead(1, 0))
               /\ from[1] = StartRow(ColorOf(p))
            \/ c \in {Ahead(1, -1), Ahead(1, 1)} /\ Enemy(b, p, c)}

LegalDestinations(b, p) ==
    CASE b.kind[p] = "Rook"   -> Slide(b, p, Orthogonal)
      [] b.kind[p] = "Bishop" -> Slide(b, p, Diagonal)
      [] b.kind[p] = "Queen"  -> Slide(b, p, Orthogonal \cup Diagonal)
      [] b.kind[p] = "Knight" -> SingleSteps(b, p, KnightSteps)
      [] b.kind[p] = "King"   -> SingleSteps(b, p, Orthogonal \cup Diagonal)
      [] b.kind[p] = "Pawn"   -> PawnDestinations(b, p)

\* RuleEngine::validateMove: the order of the checks only picks the reason of
\* a refusal, so the answer is their conjunction.
ValidMove(b, source, destination) ==
    /\ source \in Cells /\ destination \in Cells
    /\ Occupied(b, source)
    /\ ~ ( /\ Occupied(b, destination)
           /\ ColorOf(b.at[destination]) = ColorOf(b.at[source]) )
    /\ destination \in LegalDestinations(b, b.at[source])

\* A pawn on the far row becomes a queen.
PromotionRow(color) == IF ForwardStep(color) < 0 THEN 0 ELSE Height - 1

PromotedKind(b, p) ==
    IF b.kind[p] = "Pawn" /\ b.cell[p][1] = PromotionRow(ColorOf(p))
    THEN "Queen"
    ELSE b.kind[p]

=============================================================================
