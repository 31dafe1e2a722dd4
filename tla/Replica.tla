------------------------------- MODULE Replica -------------------------------
(***************************************************************************)
(* What a window knows of the game (client/net RemoteGame), as operators   *)
(* on a frame: the last snapshot the server broadcast.                     *)
(*                                                                         *)
(* A frame is a record                                                     *)
(*   board     : the board (only the pieces on the grid are in the frame), *)
(*   over      : has the game ended,                                       *)
(*   motions   : the crossings under way, [from, to],                      *)
(*   cooldowns : the cells with a rest.                                    *)
(* That a frame survives the wire is shown by Wire.                        *)
(***************************************************************************)
EXTENDS MovementRules

\* Mutant: a resting piece is not busy.
IsMoving(frame, c) == \E m \in frame.motions : m.from = c

IsBusy(frame, c) ==
    \/ \E m \in frame.motions : m.from = c
    \/ c \in frame.cooldowns

\* own: the colours the server has assigned to this window.
MayCommand(frame, own, c) ==
    Occupied(frame.board, c) /\ ColorOf(frame.board.at[c]) \in own

\* The squares the window highlights when c is selected.
HighlightsFor(frame, own, c) ==
    IF frame.over \/ IsBusy(frame, c) \/ ~MayCommand(frame, own, c)
    THEN {}
    ELSE LegalDestinations(frame.board, frame.board.at[c])

\* sendCommand: the mover is named as the replica shows it.  A jump goes from a
\* cell to itself.
CommandsFor(frame, own, from, to) ==
    IF MayCommand(frame, own, from)
    THEN << [player |-> ColorOf(frame.board.at[from]), from |-> from, to |-> to] >>
    ELSE << >>

=============================================================================
