----------------------------- MODULE MatchSpec -----------------------------
(***************************************************************************)
(* The abstract specification of a game, as its room sees it: no command   *)
(* is accepted after the end, a king is reported at most once, only while  *)
(* something is under way, and ends the game, which never goes on.         *)
(***************************************************************************)
EXTENDS Match

VARIABLE match

Command == AcceptsCommand(match) /\ match' = Commanded(match)

Forfeit == match' = Ended(match)

Wait ==
    \E fallen \in MayFall(match), calm \in BOOLEAN :
        match' = AfterWait(match, fallen, calm)

Next == Command \/ Forfeit \/ Wait

Spec == match = NewMatch /\ [][Next]_match

=============================================================================
