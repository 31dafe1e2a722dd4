----------------------------- MODULE Matchmaker -----------------------------
(***************************************************************************)
(* The Play queue (server/app/matchmaker): the players waiting for an      *)
(* opponent, in the order they came, and for how long each has waited.     *)
(***************************************************************************)
EXTENDS Rating, Entries, SequencesExt

CONSTANTS
    Client,    \* the connections the server ever sees: ids are never reused
    SearchMs   \* matchmakingTimeoutMs: how long a search lasts

Seeker == [client : Client, rating : Int, waited : 0 .. SearchMs - 1]

IsWaiting(queue, c) == \E i \in DOMAIN queue : queue[i].client = c

\* The place in the queue of the first opponent for a rating, or 0.
OpponentAt(queue, rating) ==
    SelectInSeq(queue, LAMBDA s : s.rating - rating \in -EloMatchRange .. EloMatchRange)

Queued(queue, c, rating) ==
    Append(queue, [client |-> c, rating |-> rating, waited |-> 0])

\* cancel: the first entry of a client goes.
Cancelled(queue, c) == RemoveFirstMatch(queue, LAMBDA s : s.client = c)

\* Mutant: the clock of a search stands still.
WaitedStill(s, delta) == s

Waited(s, delta) == [s EXCEPT !.waited = @ + delta]

\* tick: the searches whose time is up leave the queue.
AfterSearchTick(queue, delta) ==
    LET aged == [i \in DOMAIN queue |-> Waited(queue[i], delta)]
    IN  Filtered(aged, {i \in DOMAIN aged : aged[i].waited < SearchMs})

=============================================================================
