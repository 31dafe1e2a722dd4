------------------------------ MODULE Arbiter ------------------------------
(***************************************************************************)
(* RealTimeArbiter (shared/logic/realtime): the motions, jumps and rests   *)
(* in progress, and what a tick makes of them.                             *)
(*                                                                         *)
(* One call of advance(deltaMs) resolves the crossings of the tick one     *)
(* after another and then lands the jumps.  Each of these is one action    *)
(* here.  Nothing else happens between them: while a tick is Busy only the *)
(* next crossing, landing or report is enabled, and no command is, so an   *)
(* observer of the quiet states sees advance() as the single call it is.   *)
(*                                                                         *)
(* A vector of the code is a function from tickets: a new entry takes a    *)
(* ticket above all those in use (emplace_back), so ticket order is vector *)
(* order, and an entry marked resolved leaves at once.  The code keeps it  *)
(* to the end of the pass (dropResolved) only so that indices stay valid;  *)
(* every loop skips it in the meantime.                                    *)
(***************************************************************************)
EXTENDS MovementRules, Entries

CONSTANT
    Tickets     \* positions in the vectors; a finite set bounds their length

ASSUME TicketsAreNaturals == Tickets \subseteq Nat

VARIABLES
    board,      \* the Board the arbiter borrows
    active,     \* active_   : Motions, by ticket
    airborne,   \* airborne_ : Jumps, by ticket
    resting,    \* resting_  : Cooldowns
    pass,       \* crossings of the present pass that are still to be resolved
    reports     \* the ArrivalReports the tick has collected

arbiterVars == <<board, active, airborne, resting, pass, reports>>

(***************************************************************************)
(* The entries.  A motion keeps its path and the index of the cell it is   *)
(* on (from 1 here), and the time spent in the present crossing.  A jump   *)
(* has lifted # NoPiece once an enemy has entered its cell.  A report      *)
(* names the piece taken rather than its kind and colour: neither changes  *)
(* once the piece is off the board.                                        *)
(***************************************************************************)
Motion == [path : Seq(Cells), step : Nat, duration : Nat, elapsed : Nat]
Jump == [cell : Cells, elapsed : Nat, lifted : Piece \cup {NoPiece}]
Cooldown == [piece : Piece, cell : Cells, elapsed : Nat]
ArrivalReport == [destination : Cells, landed : BOOLEAN,
                  captured : Piece \cup {NoPiece}]

IsNextTicket(t, entries) ==
    /\ \A u \in DOMAIN entries : u < t
    /\ t = 0 \/ t - 1 \in DOMAIN entries

-----------------------------------------------------------------------------
(***************************************************************************)
(* Motion.                                                                 *)
(***************************************************************************)
NewMotion(from, to) ==
    [path |-> TravelPath(from, to), step |-> 1,
     duration |-> StepDurationOf(from, to), elapsed |-> 0]

CurrentCell(m) == m.path[m.step]
NextCell(m) == m.path[m.step + 1]
IsComplete(m) == m.step >= Len(m.path)
IsEnteringNextCell(m) == ~IsComplete(m) /\ m.elapsed >= m.duration
ArrivalOvershoot(m) == m.elapsed - m.duration
CompleteStep(m) ==
    [m EXCEPT !.step = @ + 1, !.elapsed = @ - m.duration]

\* Mutant: a piece under way is not refused.
AvailableUnderWay(p) == board.state[p] \in {"Idle", "Moving"}

\* The real-time gate of a command (realTimeBlockFor).
Available(p) == board.state[p] = "Idle"

HasMotionFor(c) == \E t \in DOMAIN active : CurrentCell(active[t]) = c

\* Mutant: a captured piece's motion is not ended.
NoMotionsAt(c) == {}

MotionsAt(c) == {t \in DOMAIN active : CurrentCell(active[t]) = c}

-----------------------------------------------------------------------------
(***************************************************************************)
(* startMotion refuses when a motion already holds the cell, startJump     *)
(* when the piece is airborne; the caller does not look at the answer.     *)
(***************************************************************************)
StartMotion(from, to) ==
    /\ IF HasMotionFor(from)
       THEN UNCHANGED <<active, board>>
       ELSE /\ \E t \in Tickets :
                 /\ IsNextTicket(t, active)
                 /\ active' = Extended(active, t, NewMotion(from, to))
            /\ board' = SetPieceState(board, from, "Moving")
    /\ UNCHANGED <<airborne, resting, pass, reports>>

StartJump(c) ==
    /\ IF board.state[board.at[c]] = "Airborne"
       THEN UNCHANGED <<airborne, board>>
       ELSE /\ \E t \in Tickets :
                 /\ IsNextTicket(t, airborne)
                 /\ airborne' = Extended(airborne, t,
                        [cell |-> c, elapsed |-> 0, lifted |-> NoPiece])
            /\ board' = SetPieceState(board, c, "Airborne")
    /\ UNCHANGED <<active, resting, pass, reports>>

-----------------------------------------------------------------------------
(***************************************************************************)
(* advance(deltaMs).                                                       *)
(***************************************************************************)
Crossings == {t \in DOMAIN active : IsEnteringNextCell(active[t])}

Landings == {j \in DOMAIN airborne : airborne[j].elapsed >= JumpDurationMs}

\* Some part of the tick is still to be worked off.
Busy == Crossings # {} \/ Landings # {} \/ reports # <<>>

(***************************************************************************)
(* The clocks of the tick.  tickCooldowns ends the rests that have run out *)
(* and makes a piece Idle if it is still Resting where its rest began.     *)
(* The jumps' clocks are read by nothing before the landings.              *)
(***************************************************************************)
\* Mutant: the clock of a rest stands still.
StoppedCooldown(r, delta) == r

TickedCooldown(r, delta) == [r EXCEPT !.elapsed = @ + delta]

RestIsOver(p, delta) ==
    \E r \in resting :
        /\ TickedCooldown(r, delta).elapsed >= CooldownMs
        /\ r.piece = p
        /\ board.at[r.cell] = p
        /\ board.state[p] = "Resting"

StartTick(delta) ==
    /\ ~Busy
    /\ board' = [board EXCEPT !.state =
                    [p \in Piece |-> IF RestIsOver(p, delta) THEN "Idle" ELSE @[p]]]
    /\ resting' = {r \in {TickedCooldown(s, delta) : s \in resting} :
                     r.elapsed < CooldownMs}
    /\ active' = [t \in DOMAIN active |->
                    [active[t] EXCEPT !.elapsed = @ + delta]]
    /\ airborne' = [j \in DOMAIN airborne |->
                    [airborne[j] EXCEPT !.elapsed = @ + delta]]
    /\ UNCHANGED <<pass, reports>>

(***************************************************************************)
(* Crossings are resolved in passes.  A pass takes every motion that is    *)
(* mid-crossing, the largest overshoot first and the older motion first    *)
(* among equals; a motion that is still mid-crossing after its turn waits  *)
(* for the next pass.  A new pass begins when the last one is used up.     *)
(***************************************************************************)
Pass == IF pass = {} THEN Crossings ELSE pass

\* Mutant: the crossings are not sorted.
OldestFirst(t, others) == \A u \in others : t <= u

ComesFirst(t, others) ==
    \A u \in others :
        \/ ArrivalOvershoot(active[t]) > ArrivalOvershoot(active[u])
        \/ ArrivalOvershoot(active[t]) = ArrivalOvershoot(active[u]) /\ t <= u

Mover(t) == board.at[CurrentCell(active[t])]
Occupant(t) == board.at[NextCell(active[t])]

\* Mutant: a piece in the air is captured like any other.
OutcomeIgnoringJumps(t) ==
    CASE Occupant(t) = NoPiece -> "Free"
      [] Occupant(t) # NoPiece /\ ColorOf(Occupant(t)) = ColorOf(Mover(t)) ->
            "BlockedByFriendly"
      [] OTHER -> "Capture"

\* classifyEntry: what the next cell means to the mover.
EntryOutcome(t) ==
    CASE Occupant(t) = NoPiece -> "Free"
      [] Occupant(t) # NoPiece /\ ColorOf(Occupant(t)) = ColorOf(Mover(t)) ->
            "BlockedByFriendly"
      [] Occupant(t) # NoPiece /\ ColorOf(Occupant(t)) # ColorOf(Mover(t))
         /\ board.state[Occupant(t)] = "Airborne" -> "CapturedByAirborne"
      [] OTHER -> "Capture"

\* The next crossing of the pass is t, and has this outcome.
Crosses(t, outcome) ==
    /\ t \in Pass
    /\ ComesFirst(t, Pass)
    /\ Mover(t) # NoPiece
    /\ EntryOutcome(t) = outcome

\* Mutant: a piece captured in this pass still gets its turn in it.
PassKeepingCaptured(t, gone) == Pass \ {t}

PassAfter(t, gone) == Pass \ (gone \cup {t})

Rest(p, c) == [piece |-> p, cell |-> c, elapsed |-> 0]

Report(c, landed, captured) ==
    [destination |-> c, landed |-> landed, captured |-> captured]

\* Mutant: a capture on the way is left for the end of the journey to report.
NothingOnTheWay(c, victim) == << >>

\* "The capture must be reported the moment it happens."
ReportOnTheWay(c, victim) ==
    IF victim = NoPiece THEN << >> ELSE <<Report(c, TRUE, victim)>>

(***************************************************************************)
(* The journey of t ends on cell c (finishMotion): b is the board with the *)
(* piece there, gone the motions that end with it.                         *)
(***************************************************************************)
Finish(t, b, c, gone, victim) ==
    /\ board' = SetPieceState(b, c, "Resting")
    /\ active' = Without(active, gone \cup {t})
    /\ resting' = resting \cup {Rest(b.at[c], c)}
    /\ reports' = Append(reports, Report(c, TRUE, victim))
    /\ pass' = PassAfter(t, gone)

(***************************************************************************)
(* The mover walks in: b is the board with the next cell free, gone the    *)
(* motions a capture there has ended, victim the piece taken if any.       *)
(***************************************************************************)
WalkIn(t, b, gone, victim) ==
    LET m == active[t]
        to == NextCell(m)
        moved == MovePiece(b, CurrentCell(m), to)
    IN  /\ IF IsComplete(CompleteStep(m))
           THEN Finish(t, moved, to, gone, victim)
           ELSE /\ board' = moved
                /\ active' = Without([active EXCEPT ![t] = CompleteStep(m)], gone)
                /\ reports' = reports \o ReportOnTheWay(to, victim)
                /\ pass' = PassAfter(t, gone)
                /\ UNCHANGED resting
        /\ UNCHANGED airborne

EnterFreeCell(t) ==
    /\ Crosses(t, "Free")
    /\ WalkIn(t, board, {}, NoPiece)

\* captureAt: the victim leaves the board, and travels no further.
CaptureOccupant(t) ==
    LET to == NextCell(active[t])
        victim == Occupant(t)
    IN  /\ Crosses(t, "Capture")
        /\ WalkIn(t, RemovePiece(SetState(board, victim, "Captured"), to),
                  MotionsAt(to), victim)

\* Two pieces of one colour never share a cell: the motion ends where it is.
StopBeforeFriend(t) ==
    /\ Crosses(t, "BlockedByFriendly")
    /\ Finish(t, board, CurrentCell(active[t]), {}, NoPiece)
    /\ UNCHANGED airborne

\* Mutant: only jumps already entered are found.
LiftedJumpAt(c) ==
    {j \in DOMAIN airborne : airborne[j].cell = c /\ airborne[j].lifted # NoPiece}

\* The first jump that began on the cell, if any.
JumpAt(c) ==
    {j \in DOMAIN airborne :
        /\ airborne[j].cell = c
        /\ \A i \in DOMAIN airborne : airborne[i].cell = c => j <= i}

(***************************************************************************)
(* yieldToAirborne: the jumper is lifted out, the mover takes its cell and *)
(* ends its journey there, until the jump lands.                           *)
(***************************************************************************)
YieldToAirborne(t) ==
    LET to == NextCell(active[t])
        jumper == Occupant(t)
        moved == MovePiece(RemovePiece(board, to), CurrentCell(active[t]), to)
    IN  /\ Crosses(t, "CapturedByAirborne")
        /\ airborne' = [j \in DOMAIN airborne |->
                          IF j \in JumpAt(to)
                          THEN [airborne[j] EXCEPT !.lifted = jumper]
                          ELSE airborne[j]]
        /\ Finish(t, moved, to, {}, NoPiece)

ResolveCrossing(t) ==
    \/ EnterFreeCell(t)
    \/ CaptureOccupant(t)
    \/ StopBeforeFriend(t)
    \/ YieldToAirborne(t)

-----------------------------------------------------------------------------
(***************************************************************************)
(* landAirborne, once no motion is mid-crossing: the jumps whose time is   *)
(* up land in the order they began.                                        *)
(***************************************************************************)
IsNextLanding(j) ==
    /\ Crossings = {}
    /\ j \in Landings
    /\ \A i \in Landings : j <= i

\* Nobody came: the piece just rests.
LandAtRest(j) ==
    LET c == airborne[j].cell
    IN  /\ IsNextLanding(j)
        /\ airborne[j].lifted = NoPiece
        /\ Occupied(board, c)
        /\ board' = SetPieceState(board, c, "Resting")
        /\ resting' = resting \cup {Rest(board.at[c], c)}
        /\ airborne' = Without(airborne, {j})
        /\ UNCHANGED <<active, pass, reports>>

\* Mutant: the piece taken by a landing is not reported.
LandingReportWithoutVictim(c, victim) == Report(c, FALSE, NoPiece)

LandingReport(c, victim) == Report(c, FALSE, victim)

\* The lifted piece comes down on whatever stands on its cell and takes it.
LandOnArriver(j) ==
    LET c == airborne[j].cell
        jumper == airborne[j].lifted
        victim == board.at[c]
        cleared == IF victim = NoPiece THEN board
                   ELSE RemovePiece(SetState(board, victim, "Captured"), c)
    IN  /\ IsNextLanding(j)
        /\ jumper # NoPiece
        /\ board' = SetPieceState(PlacePiece(cleared, jumper, c), c, "Resting")
        /\ resting' = resting \cup {Rest(jumper, c)}
        /\ reports' = Append(reports, LandingReport(c, victim))
        /\ airborne' = Without(airborne, {j})
        /\ UNCHANGED <<active, pass>>

Land(j) == LandAtRest(j) \/ LandOnArriver(j)

-----------------------------------------------------------------------------
ArbiterTypeOK ==
    /\ board \in BoardValue
    /\ DOMAIN active \subseteq Tickets
    /\ active \in [DOMAIN active -> Motion]
    /\ \A t \in DOMAIN active : active[t].step \in DOMAIN active[t].path
    /\ DOMAIN airborne \subseteq Tickets
    /\ airborne \in [DOMAIN airborne -> Jump]
    /\ resting \subseteq Cooldown
    /\ pass \subseteq DOMAIN active
    /\ reports \in Seq(ArrivalReport)

=============================================================================
