-------------------------- MODULE LobbyProperties --------------------------
(***************************************************************************)
(* What the server promises its clients: the properties of Lobby that the  *)
(* TLC runs check.                                                         *)
(***************************************************************************)
EXTENDS Lobby

Vacancies(r) == Range(rooms[r].vacancies)

(***************************************************************************)
(* No two clients of a room play the same colour, whatever joins, drops    *)
(* and returns came before.  Commands are authorised by colour, and the    *)
(* settler asks for the one client on a colour.                            *)
(***************************************************************************)
SeatsAreExclusive ==
    \A r \in DOMAIN rooms : \A color \in Color :
        \A c, d \in Holders(rooms[r].seats, color) : c = d

(***************************************************************************)
(* Every seat held open is the seat of a connection that is gone, under    *)
(* the name and colour it is held for, and is held once.  assignColor and  *)
(* the settler know nothing of vacancies: it is the entry left in the seat *)
(* table that keeps others from the colour and the player to be rated.     *)
(***************************************************************************)
AbsentSeatsAreHeld ==
    \A r \in DOMAIN rooms :
        /\ \A v \in Vacancies(r) :
              /\ conn[v.client] = "Closed"
              /\ v.client \in DOMAIN rooms[r].seats \ rooms[r].members
              /\ rooms[r].seats[v.client].color = v.color
              /\ rooms[r].seats[v.client].user = v.user
        /\ \A i, j \in DOMAIN rooms[r].vacancies :
              rooms[r].vacancies[i].color = rooms[r].vacancies[j].color => i = j

(***************************************************************************)
(* Whoever waits in the Play queue is logged in, and waits once: handleSeek *)
(* looks the opponent up with clients_.at, whose exception would end the   *)
(* server with all its games.                                              *)
(***************************************************************************)
SearchersArePresent ==
    /\ \A i \in DOMAIN queue : queue[i].client \in DOMAIN clients
    /\ \A i, j \in DOMAIN queue : queue[i].client = queue[j].client => i = j

(***************************************************************************)
(* Whoever is in a room gets what the room broadcasts, and a room never    *)
(* broadcasts to one whose seat was taken away: seats and members are kept *)
(* in two tables, and three paths in and three out update them.            *)
(***************************************************************************)
MembersAreSeated ==
    \A r \in DOMAIN rooms :
        /\ rooms[r].members \subseteq DOMAIN rooms[r].seats
        /\ \A c \in DOMAIN clients :
              clients[c].room = r => c \in rooms[r].members

(***************************************************************************)
(* A seat held in a game that goes on is given up for one reason only: the *)
(* same user is back, on the same colour.                                  *)
(***************************************************************************)
HeldSeatsReturnToTheirPlayers ==
    [][\A r \in DOMAIN rooms :
         ~rooms'[r].match.over =>
             \A v \in Vacancies(r) :
                \/ \E w \in Vacancies(r)' : w.client = v.client
                \/ \E c \in Holders(rooms'[r].seats, v.color) :
                      c # v.client /\ rooms'[r].seats[c].user = v.user]_vars

(***************************************************************************)
(* Points are passed from the loser to the winner and never made: as long  *)
(* as the same two play, the sum of their ratings stays, and the end of    *)
(* their game, by a king or by a forfeit, moves them, unless they were 720 *)
(* points apart: then the gain may be rounded to nothing.                  *)
(***************************************************************************)
RatingsAreExchanged ==
    [][\A r \in DOMAIN rooms :
         LET now == rooms[r].seats
             next == rooms'[r].seats
         IN  \A w \in Holders(now, "White") \cap Holders(next, "White"),
                b \in Holders(now, "Black") \cap Holders(next, "Black") :
                /\ now[w].rating + now[b].rating = next[w].rating + next[b].rating
                /\ ~rooms[r].match.over /\ rooms'[r].match.over
                   /\ rooms'[r].match.kings # {}
                   /\ now[w].rating - now[b].rating \in -719 .. 719
                   => now[w].rating # next[w].rating]_vars

-----------------------------------------------------------------------------
(***************************************************************************)
(* "those whose wait has run out" (Matchmaker::tick): nobody searches for  *)
(* ever.                                                                   *)
(***************************************************************************)
SearchesEnd ==
    \A c \in Client : IsWaiting(queue, c) ~> ~IsWaiting(queue, c)

IsAwaited(r, c) == r \in DOMAIN rooms /\ \E v \in Vacancies(r) : v.client = c

(***************************************************************************)
(* "run any forfeit countdown ... forfeiting the game at zero"             *)
(* (Room::tick): a seat held open is taken back, or the game is over.      *)
(***************************************************************************)
AbsencesEnd ==
    \A r \in RoomId, c \in Client : IsAwaited(r, c) ~> ~IsAwaited(r, c)

-----------------------------------------------------------------------------
(***************************************************************************)
(* A statement the comments of the code make and the code does not keep.   *)
(* "The maximum a single game can move a rating (the Elo K-factor)"        *)
(* (rating.hpp): a rating on a seat is never further than that from the    *)
(* rating its client entered with.                                         *)
(***************************************************************************)
RatingMovesAtMostK ==
    \A r \in DOMAIN rooms : \A c \in DOMAIN clients \cap DOMAIN rooms[r].seats :
        rooms[r].seats[c].rating - clients[c].rating \in -KFactor .. KFactor

=============================================================================
