-------------------------------- MODULE Room --------------------------------
(***************************************************************************)
(* One room (server/app: Room, GameSession, SeatTable, RatingSettler): who *)
(* sits where, the seats held open for players who dropped, and the game.  *)
(*                                                                         *)
(* A room is a value; the operations that settle ratings work on a pair of *)
(* a room and the account store the settled ratings are written to.  What  *)
(* the room broadcasts is left out, and with it the fields that only pace  *)
(* the countdown's announcements.  Nothing reads Vacancy::rating.          *)
(***************************************************************************)
EXTENDS Rating, Entries, SequencesExt, TLC

CONSTANTS
    Client,   \* the connections the server ever sees: ids are never reused
    User,     \* the accounts
    GraceMs   \* disconnectGraceMs: how long a dropped player's seat is held

ASSUME GraceMsType == GraceMs \in Nat \ {0}

Color == {"White", "Black"}

Opponent(color) == IF color = "White" THEN "Black" ELSE "White"

INSTANCE Match WITH King <- Color   \* one king on each side

\* A seat's colour is Spectator for those who only watch.
Spectator == "Spectator"

Occupant == [color : Color \cup {Spectator}, user : User, rating : Int]

Vacancy == [color : Color, user : User, client : Client, grace : 1 .. GraceMs]

IsRoom(room) ==
    /\ DOMAIN room = {"seats", "members", "vacancies", "match"}
    /\ DOMAIN room.seats \subseteq Client
    /\ \A c \in DOMAIN room.seats : room.seats[c] \in Occupant
    /\ room.members \subseteq Client
    /\ room.vacancies \in Seq(Vacancy)
    /\ room.match \in MatchValue

NewRoom ==
    [seats |-> << >>, members |-> {}, vacancies |-> << >>, match |-> NewMatch]

-----------------------------------------------------------------------------
(***************************************************************************)
(* SeatTable.                                                              *)
(***************************************************************************)
Seated(seats, c, occupant) == Extended(seats, c, occupant)

Removed(seats, c) == Without(seats, {c})

Holders(seats, color) == {c \in DOMAIN seats : seats[c].color = color}

ClientOn(seats, color) == CHOOSE c \in Holders(seats, color) : TRUE

\* White, then black, then none.
AssignColor(seats) ==
    IF Holders(seats, "White") = {} THEN "White"
    ELSE IF Holders(seats, "Black") = {} THEN "Black"
    ELSE Spectator

IsPlayer(room, c) == c \in DOMAIN room.seats /\ room.seats[c].color \in Color

-----------------------------------------------------------------------------
(***************************************************************************)
(* RatingSettler.                                                          *)
(***************************************************************************)
\* Mutant: the loser is rated against the winner's new rating.
NewRatingsInTurn(winner, loser) ==
    LET new == UpdatedRating(winner.rating, loser.rating, TRUE)
    IN  [winner |-> new, loser |-> UpdatedRating(loser.rating, new, FALSE)]

NewRatings(winner, loser) ==
    [winner |-> UpdatedRating(winner.rating, loser.rating, TRUE),
     loser  |-> UpdatedRating(loser.rating, winner.rating, FALSE)]

\* The two new ratings go to the store by user name -- the winner's first --
\* and to the seats.  There is no pair to rate unless both seats are taken.
Settle(s, loser) ==
    LET seats == s.room.seats
        w == ClientOn(seats, Opponent(loser))
        l == ClientOn(seats, loser)
        new == NewRatings(seats[w], seats[l])
    IN  IF \E color \in Color : Holders(seats, color) = {} THEN s
        ELSE [room  |-> [s.room EXCEPT !.seats[w].rating = new.winner,
                                       !.seats[l].rating = new.loser],
              store |-> [s.store EXCEPT ![seats[w].user] = new.winner,
                                        ![seats[l].user] = new.loser]]

-----------------------------------------------------------------------------
(***************************************************************************)
(* Room.                                                                   *)
(***************************************************************************)
\* Mutants: whoever comes first is given the seat; the dropped connection keeps
\* its place in the seat table.
FirstHeld(vacancies, user) == IF vacancies = << >> THEN 0 ELSE 1

SeatsReclaimedTwice(room, c, user, rating, v) ==
    Seated(room.seats, c, [color |-> v.color, user |-> user, rating |-> rating])

HeldFor(vacancies, user) == SelectInSeq(vacancies, LAMBDA v : v.user = user)

\* The seats once c has taken over the seat of the vacancy v.
SeatsReclaimed(room, c, user, rating, v) ==
    Seated(Removed(room.seats, v.client), c,
           [color |-> v.color, user |-> user, rating |-> rating])

AddClient(room, c, user, rating) ==
    LET i == HeldFor(room.vacancies, user)
        joined == [room EXCEPT !.members = @ \cup {c}]
    IN  IF i # 0
        THEN [joined EXCEPT
                !.seats = SeatsReclaimed(room, c, user, rating, room.vacancies[i]),
                !.vacancies = RemoveAt(@, i)]
        ELSE [joined EXCEPT
                !.seats = Seated(@, c, [color  |-> AssignColor(@),
                                        user   |-> user,
                                        rating |-> rating])]

\* Mutant: the seat of a player who drops is freed like a spectator's.
Unreserved(room, c) ==
    [room EXCEPT !.members = @ \ {c},
                 !.seats = Removed(@, c),
                 !.vacancies = Append(@, [color  |-> room.seats[c].color,
                                          user   |-> room.seats[c].user,
                                          client |-> c,
                                          grace  |-> GraceMs])]

\* A dropped player's seat is kept and a countdown begins.
Reserved(room, c) ==
    [room EXCEPT !.members = @ \ {c},
                 !.vacancies = Append(@, [color  |-> room.seats[c].color,
                                          user   |-> room.seats[c].user,
                                          client |-> c,
                                          grace  |-> GraceMs])]

\* Mutant: a spectator who leaves is still broadcast to.
DepartedInPart(room, c) == [room EXCEPT !.seats = Removed(@, c)]

Departed(room, c) == [room EXCEPT !.members = @ \ {c}, !.seats = Removed(@, c)]

HandleDisconnect(room, c) ==
    IF ~IsPlayer(room, c) THEN Departed(room, c)
    ELSE IF room.match.over THEN [room EXCEPT !.members = @ \ {c}]
    ELSE Reserved(room, c)

\* You may only command your own colour; the rest is the engine's to judge.
MayCommand(room, c) == IsPlayer(room, c) /\ AcceptsCommand(room.match)

ApplyCommand(room) == [room EXCEPT !.match = Commanded(@)]

\* GameSession::forfeit
Forfeit(s, loser) ==
    IF s.room.match.over THEN s
    ELSE Settle([s EXCEPT !.room.match = Ended(@)], loser)

\* Mutant: the countdown stands still.
CountedStill(v, delta) == v

Counted(v, delta) == [v EXCEPT !.grace = @ - delta]

\* Mutant: one tick too many.
ExpiredLate(v) == v.grace < 0

Expired(v) == v.grace <= 0

\* GameSession::tick: each king taken settles the ratings; if both are, the one
\* of the colour first is reported first.
SessionTick(s, fallen, first, calm) ==
    LET waited == [s EXCEPT !.room.match = AfterWait(@, fallen, calm)]
        settled == IF first \in fallen THEN Settle(waited, first) ELSE waited
    IN  IF Opponent(first) \in fallen THEN Settle(settled, Opponent(first))
        ELSE settled

\* Of the players whose time is up the one who left first forfeits: a forfeit
\* ends the game, and the others' find it over.
CountDown(s, delta) ==
    LET counted == [i \in DOMAIN s.room.vacancies |->
                        Counted(s.room.vacancies[i], delta)]
        late == {i \in DOMAIN counted : Expired(counted[i])}
        kept == [s EXCEPT !.room.vacancies =
                    Filtered(counted, DOMAIN counted \ late)]
    IN  IF late = {} THEN kept ELSE Forfeit(kept, counted[Min(late)].color)

RoomTick(s, fallen, first, calm, delta) ==
    CountDown(SessionTick(s, fallen, first, calm), delta)

=============================================================================
