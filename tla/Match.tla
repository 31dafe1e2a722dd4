------------------------------- MODULE Match -------------------------------
(***************************************************************************)
(* What a room knows of the game it hosts (GameSession holds a GameEngine  *)
(* and listens to its bus): whether it is over, which kings are still to   *)
(* be taken, and whether anything is travelling or in the air.  Boards,    *)
(* rules and clocks are left out: MatchSpec states what is promised of     *)
(* them, and GameProperties checks that GameEngine keeps the promise.      *)
(***************************************************************************)
EXTENDS Naturals

CONSTANT King

MatchValue == [over : BOOLEAN, kings : SUBSET King, travelling : BOOLEAN]

NewMatch == [over |-> FALSE, kings |-> King, travelling |-> FALSE]

\* requestMove or requestJump accepted: possible only before the end.
AcceptsCommand(m) == ~m.over

Commanded(m) == [m EXCEPT !.travelling = TRUE]

\* endGame
Ended(m) == [m EXCEPT !.over = TRUE]

\* The kings one wait(ms) may report taken, even after the end: nothing is
\* taken unless something was travelling, and a king is taken once.
MayFall(m) == IF m.travelling THEN SUBSET m.kings ELSE {{}}

\* wait(ms), in which the kings in fallen are taken, and after which everything
\* stands still if calm.
AfterWait(m, fallen, calm) ==
    [over       |-> m.over \/ fallen # {},
     kings      |-> m.kings \ fallen,
     travelling |-> m.travelling /\ ~calm]

=============================================================================
