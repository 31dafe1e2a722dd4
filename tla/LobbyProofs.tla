---------------------------- MODULE LobbyProofs ----------------------------
(***************************************************************************)
(* What the server promises its clients (LobbyProperties), for any number  *)
(* of connections, rooms and accounts, any ratings and any waiting times.  *)
(*                                                                         *)
(* The first part is about one room and its methods (RoomInv).  The        *)
(* inductive invariant of the server puts that together with what the      *)
(* lobby knows of its connections: a vacancy belongs to one that is gone,  *)
(* a client is a member of the room it is said to be in, and whoever is in *)
(* the queue is logged in.                                                 *)
(***************************************************************************)
EXTENDS LobbyProperties, EntriesProofs

-----------------------------------------------------------------------------
(***************************************************************************)
(* A room.  What its operations preserve, besides its type, is that every  *)
(* member has a seat, no two the same colour, and that every vacancy has   *)
(* the seat it is held for: a seat nobody is at, one for each vacancy.     *)
(***************************************************************************)
SeatsExclusive(seats) ==
    \A color \in Color : \A c, d \in Holders(seats, color) : c = d

MembersSeated(room) == room.members \subseteq DOMAIN room.seats

VacanciesHeld(room) ==
    \A i \in DOMAIN room.vacancies :
       LET v == room.vacancies[i]
       IN  /\ v.client \in DOMAIN room.seats \ room.members
           /\ room.seats[v.client].color = v.color
           /\ room.seats[v.client].user = v.user

VacanciesApart(room) ==
    \A i, j \in DOMAIN room.vacancies :
       room.vacancies[i].color = room.vacancies[j].color => i = j

RoomInv(room) ==
    /\ IsRoom(room)
    /\ SeatsExclusive(room.seats)
    /\ MembersSeated(room)
    /\ VacanciesHeld(room)
    /\ VacanciesApart(room)

\* c has not left a seat behind.
IsNoAbsentee(room, c) ==
    \A i \in DOMAIN room.vacancies : room.vacancies[i].client # c

LEMMA HeldForFinds ==
    ASSUME NEW S, NEW vacancies \in Seq(S), NEW user
    PROVE  /\ HeldFor(vacancies, user) # 0 =>
                 /\ HeldFor(vacancies, user) \in DOMAIN vacancies
                 /\ vacancies[HeldFor(vacancies, user)].user = user
           /\ HeldFor(vacancies, user) = 0 =>
                 \A i \in DOMAIN vacancies : vacancies[i].user # user
  <1> DEFINE I == {i \in 1 .. Len(vacancies) : vacancies[i].user = user}
  <1>1. HeldFor(vacancies, user) = IF I # {} THEN Min(I) ELSE 0
    BY DEF HeldFor, SelectInSeq
  <1>2. I \subseteq Nat /\ 0 \notin I /\ DOMAIN vacancies = 1 .. Len(vacancies)
    OBVIOUS
  <1>3. I # {} => Min(I) \in I
    BY <1>2, MinIsLeast
  <1> QED BY <1>1, <1>2, <1>3

LEMMA NewRoomInv ==
    /\ RoomInv(NewRoom)
    /\ NewRoom.vacancies = << >>
  <1>1. NewMatch \in MatchValue
    BY DEF NewMatch, MatchValue
  <1> DEFINE m == NewMatch
  <1>2. m \in MatchValue
    BY <1>1
  <1> HIDE DEF m
  <1> DEFINE room == [seats |-> << >>, members |-> {}, vacancies |-> << >>, match |-> m]
  <1>3. /\ DOMAIN room = {"seats", "members", "vacancies", "match"}
        /\ room.seats = << >> /\ room.members = {}
        /\ room.vacancies = << >> /\ room.match = m
    OBVIOUS
  <1>4. NewRoom = room
    BY DEF NewRoom, m
  <1> HIDE DEF room
  <1>5. DOMAIN room.seats = {} /\ DOMAIN room.vacancies = {}
    BY <1>3
  <1>6. room.vacancies \in Seq(Vacancy)
    BY <1>3
  <1>7. IsRoom(room)
    BY <1>2, <1>3, <1>5, <1>6 DEF IsRoom
  <1> QED BY <1>3, <1>4, <1>5, <1>7
       DEF RoomInv, SeatsExclusive, MembersSeated, VacanciesHeld, VacanciesApart, Holders

LEMMA AssignedColor ==
    ASSUME NEW seats
    PROVE  /\ AssignColor(seats) \in Color \cup {Spectator}
           /\ AssignColor(seats) \in Color => Holders(seats, AssignColor(seats)) = {}
  BY DEF AssignColor, Color, Spectator


LEMMA RemovedFacts ==
    ASSUME NEW seats, NEW c
    PROVE  /\ DOMAIN Removed(seats, c) = DOMAIN seats \ {c}
           /\ \A d \in DOMAIN seats \ {c} : Removed(seats, c)[d] = seats[d]
  BY DEF Removed, Without

\* A client that enters a room either takes over the seat of a vacancy or is
\* seated where nobody is.
LEMMA AddClientResult ==
    ASSUME NEW room, RoomInv(room), NEW c \in Client,
           NEW user \in User, NEW rating \in Int
    PROVE  LET next == AddClient(room, c, user, rating)
           IN  /\ DOMAIN next = DOMAIN room
               /\ next.members = room.members \cup {c}
               /\ next.match = room.match
               /\ next.seats[c] \in Occupant
               /\ next.seats[c].user = user
               /\ \A d \in DOMAIN next.seats \ {c} :
                     d \in DOMAIN room.seats /\ next.seats[d] = room.seats[d]
               /\ \/ /\ next.vacancies = room.vacancies
                     /\ DOMAIN next.seats = DOMAIN room.seats \cup {c}
                     /\ next.seats[c].color \in Color =>
                           Holders(room.seats, next.seats[c].color) = {}
                  \/ \E i \in DOMAIN room.vacancies :
                        /\ next.vacancies = RemoveAt(room.vacancies, i)
                        /\ room.vacancies[i].user = user
                        /\ DOMAIN next.seats =
                             (DOMAIN room.seats \ {room.vacancies[i].client}) \cup {c}
                        /\ next.seats[c].color = room.vacancies[i].color
  <1> DEFINE next == AddClient(room, c, user, rating)
             i == HeldFor(room.vacancies, user)
             v == room.vacancies[i]
             joined == [room EXCEPT !.members = @ \cup {c}]
             color == IF i # 0 THEN v.color ELSE AssignColor(room.seats)
             occupant == [color |-> color, user |-> user, rating |-> rating]
             rest == IF i # 0 THEN Removed(room.seats, v.client) ELSE room.seats
             taken == Seated(rest, c, occupant)
  <1>1. /\ DOMAIN room = {"seats", "members", "vacancies", "match"}
        /\ room.vacancies \in Seq(Vacancy)
    BY DEF RoomInv, IsRoom
  <1>2. i # 0 => i \in DOMAIN room.vacancies /\ v.user = user /\ v \in Vacancy
    BY <1>1, HeldForFinds
  <1>3. /\ occupant \in Occupant
        /\ occupant.color = color /\ occupant.user = user
    <2>1. i # 0 => v.color \in Color
      BY <1>2 DEF Vacancy
    <2>2. color \in Color \cup {Spectator}
      BY <2>1, AssignedColor
    <2> HIDE DEF color
    <2> QED BY <2>2 DEF Occupant
  <1>4. /\ DOMAIN taken = DOMAIN rest \cup {c}
        /\ taken[c] = occupant
        /\ \A d \in DOMAIN rest \ {c} : taken[d] = rest[d]
    <2> HIDE DEF occupant, rest
    <2> QED BY DEF Seated, Extended
  <1>5. /\ DOMAIN joined = DOMAIN room /\ joined.members = room.members \cup {c}
        /\ joined.seats = room.seats /\ joined.vacancies = room.vacancies
        /\ joined.match = room.match
    BY <1>1
  <1>6. CASE i # 0
    <2>1. next = [joined EXCEPT !.seats = taken,
                                !.vacancies = RemoveAt(joined.vacancies, i)]
      BY <1>5, <1>6 DEF AddClient, SeatsReclaimed
    <2> HIDE DEF joined, taken, next
    <2>2. /\ DOMAIN next = DOMAIN room /\ next.members = room.members \cup {c}
          /\ next.match = room.match /\ next.seats = taken
          /\ next.vacancies = RemoveAt(room.vacancies, i)
      BY <1>1, <1>5, <2>1
    <2>3. /\ DOMAIN rest = DOMAIN room.seats \ {v.client}
          /\ \A d \in DOMAIN rest : rest[d] = room.seats[d]
      BY <1>6, RemovedFacts
    <2>4. color = v.color
      BY <1>6
    <2> HIDE DEF color, occupant, rest, i
    <2> QED BY <1>2, <1>3, <1>4, <1>6, <2>2, <2>3, <2>4 DEF next
  <1>7. CASE i = 0
    <2>1. next = [joined EXCEPT !.seats = taken]
      BY <1>5, <1>7 DEF AddClient
    <2> HIDE DEF joined, taken, next
    <2>2. /\ DOMAIN next = DOMAIN room /\ next.members = room.members \cup {c}
          /\ next.match = room.match /\ next.seats = taken
          /\ next.vacancies = room.vacancies
      BY <1>1, <1>5, <2>1
    <2>3. rest = room.seats /\ color = AssignColor(room.seats)
      BY <1>7
    <2> HIDE DEF color, occupant, rest, i
    <2> QED BY <1>3, <1>4, <2>2, <2>3, AssignedColor DEF next
  <1> QED BY <1>6, <1>7

LEMMA AddClientInv ==
    ASSUME NEW room, RoomInv(room), NEW c \in Client, IsNoAbsentee(room, c),
           NEW user \in User, NEW rating \in Int
    PROVE  LET next == AddClient(room, c, user, rating)
           IN  /\ RoomInv(next)
               /\ \A j \in DOMAIN next.vacancies : \E i \in DOMAIN room.vacancies :
                     next.vacancies[j] = room.vacancies[i]
  <1> DEFINE next == AddClient(room, c, user, rating)
  <1>1. /\ DOMAIN room = {"seats", "members", "vacancies", "match"}
        /\ room.vacancies \in Seq(Vacancy)
        /\ DOMAIN room.seats \subseteq Client
        /\ \A d \in DOMAIN room.seats : room.seats[d] \in Occupant
        /\ room.members \subseteq Client
        /\ room.match \in MatchValue
    BY DEF RoomInv, IsRoom
  <1>2. /\ DOMAIN next = DOMAIN room
        /\ next.members = room.members \cup {c}
        /\ next.match = room.match
        /\ next.seats[c] \in Occupant
        /\ \A d \in DOMAIN next.seats \ {c} :
              d \in DOMAIN room.seats /\ next.seats[d] = room.seats[d]
        /\ \/ /\ next.vacancies = room.vacancies
              /\ DOMAIN next.seats = DOMAIN room.seats \cup {c}
              /\ next.seats[c].color \in Color =>
                    Holders(room.seats, next.seats[c].color) = {}
           \/ \E i \in DOMAIN room.vacancies :
                 /\ next.vacancies = RemoveAt(room.vacancies, i)
                 /\ room.vacancies[i].user = user
                 /\ DOMAIN next.seats =
                      (DOMAIN room.seats \ {room.vacancies[i].client}) \cup {c}
                 /\ next.seats[c].color = room.vacancies[i].color
    BY AddClientResult
  <1>3. \A i \in DOMAIN room.vacancies :
           LET v == room.vacancies[i]
           IN  /\ v.client \in DOMAIN room.seats \ room.members
               /\ v.client # c
               /\ room.seats[v.client].color = v.color
               /\ room.seats[v.client].user = v.user
    BY DEF RoomInv, VacanciesHeld, IsNoAbsentee
  <1>4. CASE /\ next.vacancies = room.vacancies
             /\ DOMAIN next.seats = DOMAIN room.seats \cup {c}
             /\ next.seats[c].color \in Color =>
                   Holders(room.seats, next.seats[c].color) = {}
    <2> HIDE DEF next
    <2>1. IsRoom(next)
      BY <1>1, <1>2, <1>4 DEF IsRoom
    <2>2. SeatsExclusive(next.seats)
      BY <1>2, <1>4 DEF RoomInv, SeatsExclusive, Holders
    <2>3. MembersSeated(next)
      BY <1>2, <1>4 DEF RoomInv, MembersSeated
    <2>4. VacanciesHeld(next)
      BY <1>2, <1>3, <1>4 DEF VacanciesHeld
    <2>5. VacanciesApart(next)
      BY <1>4 DEF RoomInv, VacanciesApart
    <2> QED BY <1>4, <2>1, <2>2, <2>3, <2>4, <2>5 DEF RoomInv, next
  <1>5. ASSUME NEW i \in DOMAIN room.vacancies,
               next.vacancies = RemoveAt(room.vacancies, i),
               DOMAIN next.seats =
                  (DOMAIN room.seats \ {room.vacancies[i].client}) \cup {c},
               next.seats[c].color = room.vacancies[i].color
        PROVE  /\ RoomInv(next)
               /\ \A j \in DOMAIN next.vacancies : \E k \in DOMAIN room.vacancies :
                     next.vacancies[j] = room.vacancies[k]
    <2> DEFINE v == room.vacancies[i]
               left == RemoveAt(room.vacancies, i)
    <2>1. /\ left \in Seq(Vacancy)
          /\ \A j \in DOMAIN left :
                left[j] = IF j < i THEN room.vacancies[j] ELSE room.vacancies[j + 1]
          /\ Len(left) = Len(room.vacancies) - 1
      BY <1>1, RemovalFacts
    <2> HIDE DEF next, left
    <2>2. \A j \in DOMAIN left : \E k \in DOMAIN room.vacancies \ {i} :
              /\ left[j] = room.vacancies[k]
              /\ k = IF j < i THEN j ELSE j + 1
      BY <1>1, <2>1
    <2>3. next.vacancies = left
      BY <1>5 DEF left
    <2>4. \A k \in DOMAIN room.vacancies \ {i} :
             /\ room.vacancies[k].color # v.color
             /\ room.vacancies[k].client # v.client
      BY <1>3 DEF RoomInv, VacanciesApart
    <2>5. v.color \in Color
      <3>1. v \in Vacancy
        BY <1>1
      <3> QED BY <3>1 DEF Vacancy
    <2>6. IsRoom(next)
      BY <1>1, <1>2, <1>5, <2>1, <2>3 DEF IsRoom
    <2>7. SeatsExclusive(next.seats)
      BY <1>2, <1>3, <1>5, <2>5 DEF RoomInv, SeatsExclusive, Holders
    <2>8. MembersSeated(next)
      BY <1>2, <1>3, <1>5 DEF RoomInv, MembersSeated
    <2>9. VacanciesHeld(next)
      BY <1>2, <1>3, <1>5, <2>2, <2>3, <2>4 DEF VacanciesHeld
    <2>10. VacanciesApart(next)
      <3> SUFFICES ASSUME NEW j \in DOMAIN left, NEW m \in DOMAIN left,
                          left[j].color = left[m].color
                   PROVE  j = m
        BY <2>3 DEF VacanciesApart
      <3>1. PICK k \in DOMAIN room.vacancies :
                left[j] = room.vacancies[k] /\ k = IF j < i THEN j ELSE j + 1
        BY <2>2
      <3>2. PICK h \in DOMAIN room.vacancies :
                left[m] = room.vacancies[h] /\ h = IF m < i THEN m ELSE m + 1
        BY <2>2
      <3>3. k = h
        BY <3>1, <3>2 DEF RoomInv, VacanciesApart
      <3> QED BY <1>1, <2>1, <3>1, <3>2, <3>3
    <2> QED BY <2>2, <2>3, <2>6, <2>7, <2>8, <2>9, <2>10 DEF RoomInv
  <1> QED BY <1>2, <1>4, <1>5

(***************************************************************************)
(* What an operation on a room, next for room, owes the absent and the     *)
(* players: a vacancy goes only with the return of its player, and nobody  *)
(* is rated who keeps his colour.                                          *)
(***************************************************************************)
SeatsReturn(room, next) ==
    \A i \in DOMAIN room.vacancies :
       LET v == room.vacancies[i]
       IN  \/ \E j \in DOMAIN next.vacancies : next.vacancies[j].client = v.client
           \/ \E d \in Holders(next.seats, v.color) :
                 d # v.client /\ next.seats[d].user = v.user

RatingsKept(room, next) ==
    \A color \in Color :
       \A d \in Holders(room.seats, color) \cap Holders(next.seats, color) :
          next.seats[d].rating = room.seats[d].rating

LEMMA AddClientReturns ==
    ASSUME NEW room, RoomInv(room), NEW c \in Client, IsNoAbsentee(room, c),
           NEW user \in User, NEW rating \in Int
    PROVE  /\ SeatsReturn(room, AddClient(room, c, user, rating))
           /\ RatingsKept(room, AddClient(room, c, user, rating))
  <1> DEFINE next == AddClient(room, c, user, rating)
  <1>1. /\ next.seats[c].user = user
        /\ \A d \in DOMAIN next.seats \ {c} :
              d \in DOMAIN room.seats /\ next.seats[d] = room.seats[d]
        /\ \/ /\ next.vacancies = room.vacancies
              /\ DOMAIN next.seats = DOMAIN room.seats \cup {c}
              /\ next.seats[c].color \in Color =>
                    Holders(room.seats, next.seats[c].color) = {}
           \/ \E i \in DOMAIN room.vacancies :
                 /\ next.vacancies = RemoveAt(room.vacancies, i)
                 /\ room.vacancies[i].user = user
                 /\ DOMAIN next.seats =
                      (DOMAIN room.seats \ {room.vacancies[i].client}) \cup {c}
                 /\ next.seats[c].color = room.vacancies[i].color
    BY AddClientResult
  <1>2. \A i \in DOMAIN room.vacancies :
           LET v == room.vacancies[i]
           IN  /\ v.client \in DOMAIN room.seats
               /\ v.client # c
               /\ room.seats[v.client].color = v.color
    BY DEF RoomInv, VacanciesHeld, IsNoAbsentee
  <1>3. room.vacancies \in Seq(Vacancy)
    BY DEF RoomInv, IsRoom
  <1> HIDE DEF next
  <1>4. SeatsReturn(room, next)
    <2>1. CASE next.vacancies = room.vacancies
      BY <2>1 DEF SeatsReturn
    <2>2. ASSUME NEW i \in DOMAIN room.vacancies,
                 next.vacancies = RemoveAt(room.vacancies, i),
                 room.vacancies[i].user = user,
                 DOMAIN next.seats =
                    (DOMAIN room.seats \ {room.vacancies[i].client}) \cup {c},
                 next.seats[c].color = room.vacancies[i].color,
                 NEW k \in DOMAIN room.vacancies
          PROVE  \/ \E j \in DOMAIN next.vacancies :
                       next.vacancies[j].client = room.vacancies[k].client
                 \/ \E d \in Holders(next.seats, room.vacancies[k].color) :
                       /\ d # room.vacancies[k].client
                       /\ next.seats[d].user = room.vacancies[k].user
      <3>1. CASE k = i
        BY <1>1, <1>2, <2>2, <3>1 DEF Holders
      <3>2. CASE k # i
        <4> DEFINE left == RemoveAt(room.vacancies, i)
        <4>1. /\ left \in Seq(Vacancy) /\ Len(left) = Len(room.vacancies) - 1
              /\ \A j \in DOMAIN left :
                    left[j] = IF j < i THEN room.vacancies[j]
                              ELSE room.vacancies[j + 1]
          BY <1>3, RemovalFacts
        <4>2. next.vacancies = left
          BY <2>2
        <4> HIDE DEF left
        <4> DEFINE j == IF k < i THEN k ELSE k - 1
        <4>3. /\ i \in 1 .. Len(room.vacancies) /\ k \in 1 .. Len(room.vacancies)
              /\ DOMAIN left = 1 .. Len(left) /\ Len(room.vacancies) \in Nat
          BY <1>3, <4>1
        <4>4. /\ j \in 1 .. Len(left)
              /\ k = IF j < i THEN j ELSE j + 1
          BY <3>2, <4>1, <4>3
        <4> HIDE DEF j
        <4>5. left[j] = room.vacancies[k]
          BY <4>1, <4>3, <4>4
        <4> QED BY <4>2, <4>3, <4>4, <4>5
      <3> QED BY <3>1, <3>2
    <2> QED BY <1>1, <2>1, <2>2 DEF SeatsReturn
  <1>5. RatingsKept(room, next)
    <2> SUFFICES ASSUME NEW color \in Color,
                        NEW d \in Holders(room.seats, color) \cap Holders(next.seats, color)
                 PROVE  next.seats[d].rating = room.seats[d].rating
      BY DEF RatingsKept
    <2>1. d # c
      <3>1. ~ (next.seats[c].color \in Color => Holders(room.seats, next.seats[c].color) = {})
            \/ d # c
        BY DEF Holders
      <3>2. ASSUME NEW i \in DOMAIN room.vacancies,
                   next.seats[c].color = room.vacancies[i].color
            PROVE  d # c
        BY <1>2, <3>2 DEF RoomInv, SeatsExclusive, Holders
      <3> QED BY <1>1, <3>1, <3>2
    <2> QED BY <1>1, <2>1 DEF Holders
  <1> QED BY <1>4, <1>5 DEF next

\* A connection that closes: its seat is kept if it is a player's and the game
\* goes on.
LEMMA HandleDisconnectInv ==
    ASSUME NEW room, RoomInv(room), NEW c \in Client, IsNoAbsentee(room, c)
    PROVE  LET next == HandleDisconnect(room, c)
           IN  /\ RoomInv(next)
               /\ next.members = room.members \ {c}
               /\ next.match = room.match
               /\ \A j \in DOMAIN next.vacancies :
                     \/ next.vacancies[j].client = c
                     \/ \E i \in DOMAIN room.vacancies :
                           next.vacancies[j] = room.vacancies[i]
               /\ SeatsReturn(room, next)
               /\ RatingsKept(room, next)
  <1> DEFINE next == HandleDisconnect(room, c)
  <1>1. /\ DOMAIN room = {"seats", "members", "vacancies", "match"}
        /\ room.vacancies \in Seq(Vacancy)
        /\ DOMAIN room.seats \subseteq Client
        /\ \A d \in DOMAIN room.seats : room.seats[d] \in Occupant
        /\ room.members \subseteq Client
        /\ room.match \in MatchValue
    BY DEF RoomInv, IsRoom
  <1>2. \A i \in DOMAIN room.vacancies :
           LET v == room.vacancies[i]
           IN  /\ v.client \in DOMAIN room.seats \ room.members
               /\ v.client # c
               /\ room.seats[v.client].color = v.color
               /\ room.seats[v.client].user = v.user
    BY DEF RoomInv, VacanciesHeld, IsNoAbsentee
  <1>3. CASE ~IsPlayer(room, c)
    <2>1. next = [room EXCEPT !.members = @ \ {c}, !.seats = Removed(@, c)]
      BY <1>3 DEF HandleDisconnect, Departed
    <2>2. /\ DOMAIN next = DOMAIN room /\ next.members = room.members \ {c}
          /\ next.match = room.match /\ next.seats = Removed(room.seats, c)
          /\ next.vacancies = room.vacancies
      <3> HIDE DEF next
      <3> QED BY <1>1, <2>1
    <2>3. /\ DOMAIN next.seats = DOMAIN room.seats \ {c}
          /\ \A d \in DOMAIN room.seats \ {c} : next.seats[d] = room.seats[d]
      <3> HIDE DEF next
      <3> QED BY <2>2 DEF Removed, Without
    <2> HIDE DEF next
    <2>4. IsRoom(next)
      BY <1>1, <2>2, <2>3 DEF IsRoom
    <2>5. SeatsExclusive(next.seats)
      BY <2>3 DEF RoomInv, SeatsExclusive, Holders
    <2>6. MembersSeated(next)
      BY <2>2, <2>3 DEF RoomInv, MembersSeated
    <2>7. VacanciesHeld(next) /\ VacanciesApart(next)
      BY <1>2, <2>2, <2>3 DEF RoomInv, VacanciesHeld, VacanciesApart
    <2>8. SeatsReturn(room, next) /\ RatingsKept(room, next)
      BY <2>2, <2>3 DEF SeatsReturn, RatingsKept, Holders
    <2> QED BY <2>2, <2>4, <2>5, <2>6, <2>7, <2>8 DEF RoomInv, next
  <1>4. CASE IsPlayer(room, c) /\ room.match.over
    <2>1. next = [room EXCEPT !.members = @ \ {c}]
      BY <1>4 DEF HandleDisconnect
    <2>2. /\ DOMAIN next = DOMAIN room /\ next.members = room.members \ {c}
          /\ next.match = room.match /\ next.seats = room.seats
          /\ next.vacancies = room.vacancies
      <3> HIDE DEF next
      <3> QED BY <1>1, <2>1
    <2> HIDE DEF next
    <2>3. IsRoom(next)
      BY <1>1, <2>2 DEF IsRoom
    <2>4. /\ SeatsExclusive(next.seats) /\ MembersSeated(next)
          /\ VacanciesHeld(next) /\ VacanciesApart(next)
      BY <1>2, <2>2 DEF RoomInv, MembersSeated, VacanciesHeld, VacanciesApart
    <2>5. SeatsReturn(room, next) /\ RatingsKept(room, next)
      BY <2>2 DEF SeatsReturn, RatingsKept
    <2> QED BY <2>2, <2>3, <2>4, <2>5 DEF RoomInv, next
  <1>5. CASE IsPlayer(room, c) /\ ~room.match.over
    <2> DEFINE v == [color |-> room.seats[c].color, user |-> room.seats[c].user,
                     client |-> c, grace |-> GraceMs]
               n == Len(room.vacancies)
    <2>1. next = [room EXCEPT !.members = @ \ {c}, !.vacancies = Append(@, v)]
      BY <1>5 DEF HandleDisconnect, Reserved
    <2>2. /\ c \in DOMAIN room.seats /\ room.seats[c].color \in Color
          /\ room.seats[c].user \in User
      BY <1>1, <1>5 DEF IsPlayer, Occupant
    <2>3. /\ v \in Vacancy /\ v.client = c
          /\ v.color = room.seats[c].color /\ v.user = room.seats[c].user
      BY <2>2, GraceMsType DEF Vacancy
    <2> HIDE DEF v
    <2>4. /\ DOMAIN next = DOMAIN room /\ next.members = room.members \ {c}
          /\ next.match = room.match /\ next.seats = room.seats
          /\ next.vacancies = Append(room.vacancies, v)
      <3> HIDE DEF next
      <3> QED BY <1>1, <2>1
    <2>5. /\ next.vacancies \in Seq(Vacancy)
          /\ DOMAIN next.vacancies = 1 .. n + 1 /\ n \in Nat
          /\ next.vacancies[n + 1] = v
          /\ DOMAIN room.vacancies = 1 .. n
          /\ \A i \in 1 .. n : next.vacancies[i] = room.vacancies[i]
      BY <1>1, <2>3, <2>4
    <2> HIDE DEF next, n
    <2>6. IsRoom(next)
      BY <1>1, <2>4, <2>5 DEF IsRoom
    <2>7. SeatsExclusive(next.seats) /\ MembersSeated(next)
      BY <2>4 DEF RoomInv, MembersSeated
    <2>8. \A j \in 1 .. n + 1 : j = n + 1 \/ j \in 1 .. n
      BY <2>5
    <2>9. VacanciesHeld(next)
      BY <1>2, <2>2, <2>3, <2>4, <2>5, <2>8 DEF VacanciesHeld
    <2>10. \A i \in 1 .. n : room.vacancies[i].color # v.color
      BY <1>2, <2>2, <2>3, <2>5 DEF RoomInv, SeatsExclusive, Holders
    <2>11. VacanciesApart(next)
      BY <2>5, <2>8, <2>10 DEF RoomInv, VacanciesApart
    <2>12. \A i \in 1 .. n : i \in 1 .. n + 1
      BY <2>5
    <2>13. SeatsReturn(room, next)
      BY <2>5, <2>12 DEF SeatsReturn
    <2>14. RatingsKept(room, next)
      BY <2>4 DEF RatingsKept
    <2> QED BY <2>3, <2>4, <2>5, <2>6, <2>7, <2>8, <2>9, <2>11, <2>13, <2>14
         DEF RoomInv, next
  <1> QED BY <1>3, <1>4, <1>5

-----------------------------------------------------------------------------
(***************************************************************************)
(* Ratings.  What a winner gains the loser loses, and it is something      *)
(* unless the winner was 720 points ahead: 31 of the 32 thresholds are     *)
(* below that.                                                             *)
(***************************************************************************)
LEMMA GainType ==
    ASSUME NEW adv \in Int
    PROVE  Gain(adv) \in Int /\ (adv <= 719 => Gain(adv) >= 1)
  <1> DEFINE f == << -719, -523, -428, -364, -314, -273, -237, -205, -176, -149,
                     -124, -100, -77, -54, -32, -10, 11, 33, 55, 78, 101, 125,
                     150, 177, 206, 238, 274, 315, 365, 429, 524 >>
             below == {f[i] : i \in 1 .. 31}
             passed == {t \in Thresholds : adv >= t}
  <1>1. IsFiniteSet(1 .. 31) /\ Cardinality(1 .. 31) = 31
    <2> DEFINE n == 31
    <2>1. n \in Nat
      OBVIOUS
    <2> HIDE DEF n
    <2>2. IsFiniteSet(1 .. n) /\ Cardinality(1 .. n) = n
      BY <2>1, FS_Interval
    <2> QED BY <2>2 DEF n
  <1>2. IsFiniteSet(below) /\ Cardinality(below) <= 31
    <2> DEFINE g == [i \in 1 .. 31 |-> f[i]]
    <2>1. g \in Surjection(1 .. 31, below)
      <3> HIDE DEF f
      <3> QED BY DEF Surjection
    <2> HIDE DEF f, g, below
    <2>2. IsFiniteSet(below) /\ Cardinality(below) <= Cardinality(1 .. 31)
      BY <1>1, <2>1, FS_Surjection, Zenon
    <2> QED BY <1>1, <2>2
  <1>3. Thresholds = below \cup {720}
    BY DEF Thresholds
  <1> HIDE DEF below
  <1>4. IsFiniteSet(Thresholds)
    BY <1>2, <1>3, FS_AddElement
  <1>5. Cardinality(passed) \in Nat
    <2>1. IsFiniteSet(passed)
      BY <1>4, FS_Subset
    <2> QED BY <2>1, FS_CardinalityType
  <1>6. adv <= 719 => Cardinality(passed) <= 31
    <2> HAVE adv <= 719
    <2>1. ~ (adv >= 720)
      OBVIOUS
    <2>2. passed \in SUBSET below
      BY <1>3, <2>1
    <2>3. Cardinality(passed) <= Cardinality(below) /\ Cardinality(below) \in Nat
      BY <1>2, <2>2, FS_Subset, FS_CardinalityType
    <2> QED BY <1>2, <1>5, <2>3
  <1> QED BY <1>5, <1>6 DEF Gain, KFactor

(***************************************************************************)
(* The pair of a room and the store that a tick works on, and how settling *)
(* the ratings changes it.                                                 *)
(***************************************************************************)
IsSession(s) ==
    /\ DOMAIN s = {"room", "store"}
    /\ s.store \in [User -> Int]
    /\ RoomInv(s.room)

\* Only ratings have changed.
OnlyRated(room, next) ==
    /\ DOMAIN next = DOMAIN room
    /\ next.members = room.members
    /\ next.vacancies = room.vacancies
    /\ DOMAIN next.seats = DOMAIN room.seats
    /\ \A c \in DOMAIN room.seats :
          /\ next.seats[c] \in Occupant
          /\ next.seats[c].color = room.seats[c].color
          /\ next.seats[c].user = room.seats[c].user

SumKept(room, next) ==
    \A w \in Holders(room.seats, "White"), b \in Holders(room.seats, "Black") :
       room.seats[w].rating + room.seats[b].rating
          = next.seats[w].rating + next.seats[b].rating

RatingsMoved(room, next) ==
    \A w \in Holders(room.seats, "White"), b \in Holders(room.seats, "Black") :
       room.seats[w].rating - room.seats[b].rating \in -719 .. 719
          => room.seats[w].rating # next.seats[w].rating

\* With a seat that nobody holds there is no pair to rate.
NoPair(room) == \E color \in Color : Holders(room.seats, color) = {}

LEMMA OnlyRatedInv ==
    ASSUME NEW room, NEW next, RoomInv(room), OnlyRated(room, next),
           next.match \in MatchValue
    PROVE  /\ RoomInv(next)
           /\ \A color \in Color : Holders(next.seats, color) = Holders(room.seats, color)
           /\ SeatsReturn(room, next)
  <1>1. \A color \in Color : Holders(next.seats, color) = Holders(room.seats, color)
    BY DEF OnlyRated, Holders
  <1>2. IsRoom(next)
    BY DEF OnlyRated, RoomInv, IsRoom
  <1>3. SeatsExclusive(next.seats) /\ MembersSeated(next)
    BY <1>1 DEF OnlyRated, RoomInv, SeatsExclusive, MembersSeated
  <1>4. VacanciesHeld(next)
    BY DEF OnlyRated, RoomInv, VacanciesHeld
  <1>5. VacanciesApart(next)
    BY DEF OnlyRated, RoomInv, VacanciesApart
  <1>6. SeatsReturn(room, next)
    BY DEF OnlyRated, SeatsReturn
  <1> QED BY <1>1, <1>2, <1>3, <1>4, <1>5, <1>6 DEF RoomInv

LEMMA OnlyRatedAgain ==
    ASSUME NEW room, NEW next, NEW last, RoomInv(room), OnlyRated(room, next),
           OnlyRated(next, last)
    PROVE  /\ OnlyRated(room, last)
           /\ SumKept(room, next) /\ SumKept(next, last) => SumKept(room, last)
  <1>1. \A color : Holders(next.seats, color) = Holders(room.seats, color)
    BY DEF OnlyRated, Holders
  <1> QED BY <1>1 DEF OnlyRated, SumKept

LEMMA RoomIsOnlyRated ==
    ASSUME NEW room, RoomInv(room)
    PROVE  OnlyRated(room, room) /\ SumKept(room, room)
  BY DEF RoomInv, IsRoom, OnlyRated, SumKept

LEMMA MovedFromSeats ==
    ASSUME NEW room, NEW other, NEW next, room.seats = other.seats,
           RatingsMoved(room, next)
    PROVE  RatingsMoved(other, next)
  BY DEF RatingsMoved

LEMMA SettleResult ==
    ASSUME NEW s, IsSession(s), NEW loser \in Color
    PROVE  LET next == Settle(s, loser)
           IN  /\ IsSession(next)
               /\ OnlyRated(s.room, next.room)
               /\ next.room.match = s.room.match
               /\ SumKept(s.room, next.room)
               /\ RatingsMoved(s.room, next.room)
               /\ NoPair(s.room) => next = s
  <1> DEFINE next == Settle(s, loser)
             room == s.room
             seats == s.room.seats
             w == ClientOn(seats, Opponent(loser))
             l == ClientOn(seats, loser)
             new == NewRatings(seats[w], seats[l])
             x == seats[w].rating
             y == seats[l].rating
             gain == Gain(x - y)
  <1>1. /\ DOMAIN room = {"seats", "members", "vacancies", "match"}
        /\ \A d \in DOMAIN seats : seats[d] \in Occupant
        /\ room.match \in MatchValue
        /\ RoomInv(room) /\ SeatsExclusive(seats)
    BY DEF IsSession, RoomInv, IsRoom
  <1>2. CASE \E color \in Color : Holders(seats, color) = {}
    <2>1. next = s
      BY <1>2 DEF Settle
    <2>2. RatingsMoved(room, room)
      BY <1>2 DEF RatingsMoved, Color
    <2> QED BY <1>1, <2>1, <2>2, RoomIsOnlyRated
  <1>3. CASE ~ \E color \in Color : Holders(seats, color) = {}
    <2>1. Opponent(loser) \in Color /\ Opponent(loser) # loser
      BY DEF Opponent, Color
    <2>2. w \in Holders(seats, Opponent(loser)) /\ l \in Holders(seats, loser)
      BY <1>3, <2>1 DEF ClientOn
    <2>3. /\ w \in DOMAIN seats /\ l \in DOMAIN seats /\ w # l
          /\ seats[w].color = Opponent(loser) /\ seats[l].color = loser
      BY <2>1, <2>2 DEF Holders
    <2>4. seats[w] \in Occupant /\ seats[l] \in Occupant
      BY <1>1, <2>3
    <2>5. x \in Int /\ y \in Int /\ seats[w].user \in User /\ seats[l].user \in User
      BY <2>4 DEF Occupant
    <2>6. new.winner = x + gain /\ new.loser = y - gain
      BY DEF NewRatings, UpdatedRating
    <2>7. gain \in Int /\ (x - y \in -719 .. 719 => gain >= 1)
      <3> DEFINE adv == x - y
      <3> HIDE DEF x, y
      <3>1. adv \in Int /\ (x - y \in -719 .. 719 => adv <= 719)
        BY <2>5
      <3>2. gain = Gain(adv)
        OBVIOUS
      <3> HIDE DEF adv, gain
      <3> QED BY <3>1, <3>2, GainType
    <2> DEFINE a == new.winner
               b == new.loser
               rated == [seats EXCEPT ![w].rating = a, ![l].rating = b]
               noted == [s.store EXCEPT ![seats[w].user] = a, ![seats[l].user] = b]
               nextRoom == [room EXCEPT !.seats = rated]
    <2>8. a \in Int /\ b \in Int
      <3> HIDE DEF new, gain, x, y
      <3> QED BY <2>5, <2>6, <2>7
    <2>9. next = [room |-> nextRoom, store |-> noted]
      <3> HIDE DEF new, w, l
      <3> QED BY <1>3 DEF Settle, w, l, new
    <2> HIDE DEF a, b, new, w, l, x, y, gain
    <2>10. /\ DOMAIN rated = DOMAIN seats
           /\ rated[w] = [seats[w] EXCEPT !.rating = a]
           /\ rated[l] = [seats[l] EXCEPT !.rating = b]
           /\ \A d \in DOMAIN seats \ {w, l} : rated[d] = seats[d]
      BY <2>3
    <2> HIDE DEF rated
    <2>11. \A d \in DOMAIN seats :
              /\ rated[d] \in Occupant
              /\ rated[d].color = seats[d].color /\ rated[d].user = seats[d].user
      <3>1. /\ rated[w] \in Occupant /\ rated[w].color = seats[w].color
            /\ rated[w].user = seats[w].user
        BY <2>4, <2>8, <2>10 DEF Occupant
      <3>2. /\ rated[l] \in Occupant /\ rated[l].color = seats[l].color
            /\ rated[l].user = seats[l].user
        BY <2>4, <2>8, <2>10 DEF Occupant
      <3> QED BY <1>1, <2>10, <3>1, <3>2
    <2>12. rated[w].rating = a /\ rated[l].rating = b
      BY <2>4, <2>10 DEF Occupant
    <2>13. noted \in [User -> Int]
      BY <2>5, <2>8 DEF IsSession
    <2> HIDE DEF noted
    <2>14. /\ DOMAIN nextRoom = DOMAIN room /\ nextRoom.seats = rated
           /\ nextRoom.members = room.members /\ nextRoom.match = room.match
           /\ nextRoom.vacancies = room.vacancies
      <3> HIDE DEF room
      <3> QED BY <1>1
    <2> HIDE DEF nextRoom, next
    <2>15. next.room = nextRoom /\ next.store = noted /\ DOMAIN next = {"room", "store"}
      BY <2>9
    <2>16. OnlyRated(room, nextRoom)
      BY <2>10, <2>11, <2>14 DEF OnlyRated
    <2>17. IsSession(next)
      BY <1>1, <2>13, <2>14, <2>15, <2>16, OnlyRatedInv DEF IsSession
    <2>18. /\ Holders(seats, Opponent(loser)) = {w}
           /\ Holders(seats, loser) = {l}
      BY <1>1, <2>1, <2>2 DEF SeatsExclusive
    <2>19. \/ loser = "Black" /\ Opponent(loser) = "White"
           \/ loser = "White" /\ Opponent(loser) = "Black"
      BY DEF Opponent, Color
    <2>20. SumKept(room, nextRoom)
      <3>1. x + y = a + b /\ y + x = b + a
        BY <2>5, <2>6, <2>7 DEF a, b
      <3>2. /\ seats[w].rating = x /\ nextRoom.seats[w].rating = a
            /\ seats[l].rating = y /\ nextRoom.seats[l].rating = b
        BY <2>12, <2>14 DEF x, y
      <3> QED BY <2>18, <2>19, <3>1, <3>2 DEF SumKept
    <2>21. RatingsMoved(room, nextRoom)
      <3>1. x - y \in -719 .. 719 => x # a /\ y # b
        BY <2>5, <2>6, <2>7 DEF a, b
      <3>2. y - x \in -719 .. 719 => x - y \in -719 .. 719
        BY <2>5
      <3>3. /\ seats[w].rating = x /\ nextRoom.seats[w].rating = a
            /\ seats[l].rating = y /\ nextRoom.seats[l].rating = b
        BY <2>12, <2>14 DEF x, y
      <3> SUFFICES ASSUME NEW white \in Holders(seats, "White"),
                          NEW black \in Holders(seats, "Black"),
                          seats[white].rating - seats[black].rating \in -719 .. 719
                   PROVE  seats[white].rating # nextRoom.seats[white].rating
        BY DEF RatingsMoved
      <3>4. CASE loser = "Black"
        <4>1. white = w /\ black = l
          BY <2>18, <2>19, <3>4
        <4> QED BY <3>1, <3>3, <4>1
      <3>5. CASE loser = "White"
        <4>1. white = l /\ black = w
          BY <2>18, <2>19, <3>5
        <4> QED BY <3>1, <3>2, <3>3, <4>1
      <3> QED BY <2>19, <3>4, <3>5
    <2>22. ~NoPair(s.room)
      BY <1>3 DEF NoPair
    <2> QED BY <2>14, <2>15, <2>16, <2>17, <2>20, <2>21, <2>22 DEF next
  <1> QED BY <1>2, <1>3

-----------------------------------------------------------------------------
(***************************************************************************)
(* A tick of a room.                                                       *)
(***************************************************************************)
LEMMA AfterWaitType ==
    ASSUME NEW m \in MatchValue, NEW fallen \in SUBSET Color, NEW calm \in BOOLEAN
    PROVE  /\ AfterWait(m, fallen, calm) \in MatchValue
           /\ AfterWait(m, fallen, calm).over <=> m.over \/ fallen # {}
           /\ AfterWait(m, fallen, calm).kings = m.kings \ fallen
  <1> DEFINE over == m.over \/ fallen # {}
             kings == m.kings \ fallen
             travelling == m.travelling /\ ~calm
             next == [over |-> over, kings |-> kings, travelling |-> travelling]
  <1>1. over \in BOOLEAN /\ travelling \in BOOLEAN /\ kings \in SUBSET Color
    BY DEF MatchValue
  <1>2. AfterWait(m, fallen, calm) = next
    BY DEF AfterWait
  <1> HIDE DEF over, kings, travelling
  <1>3. /\ next \in MatchValue
        /\ next.over = over /\ next.kings = kings
    BY <1>1 DEF MatchValue
  <1> HIDE DEF next
  <1> QED BY <1>1, <1>2, <1>3 DEF over, kings

LEMMA EndedType ==
    ASSUME NEW m \in MatchValue
    PROVE  /\ Ended(m) \in MatchValue
           /\ Ended(m).over
           /\ Ended(m).kings = m.kings
  BY DEF Ended, MatchValue

\* What a session keeps when the game alone moves on.
LEMMA MatchMovesOn ==
    ASSUME NEW s, IsSession(s), NEW m \in MatchValue
    PROVE  LET next == [s EXCEPT !.room.match = m]
           IN  /\ IsSession(next)
               /\ OnlyRated(s.room, next.room)
               /\ next.room.seats = s.room.seats
               /\ next.room.match = m
  <1> DEFINE room == s.room
             nextRoom == [room EXCEPT !.match = m]
             next == [s EXCEPT !.room.match = m]
  <1>1. /\ DOMAIN s = {"room", "store"} /\ s.store \in [User -> Int]
        /\ RoomInv(room)
        /\ DOMAIN room = {"seats", "members", "vacancies", "match"}
        /\ \A c \in DOMAIN room.seats : room.seats[c] \in Occupant
    BY DEF IsSession, RoomInv, IsRoom
  <1>2. next = [s EXCEPT !.room = nextRoom]
    OBVIOUS
  <1> HIDE DEF room
  <1>3. /\ DOMAIN nextRoom = DOMAIN room /\ nextRoom.seats = room.seats
        /\ nextRoom.members = room.members /\ nextRoom.match = m
        /\ nextRoom.vacancies = room.vacancies
    BY <1>1
  <1> HIDE DEF nextRoom, next
  <1>4. next.room = nextRoom /\ next.store = s.store /\ DOMAIN next = {"room", "store"}
    BY <1>1, <1>2
  <1>5. OnlyRated(room, nextRoom)
    BY <1>1, <1>3 DEF OnlyRated
  <1>6. IsSession(next)
    BY <1>1, <1>3, <1>4, <1>5, OnlyRatedInv DEF IsSession
  <1> QED BY <1>3, <1>4, <1>5, <1>6 DEF next, room

\* The kings that fall are settled, once each.
LEMMA SessionTickResult ==
    ASSUME NEW s, IsSession(s), NEW fallen \in SUBSET Color, NEW first \in Color,
           NEW calm \in BOOLEAN
    PROVE  LET next == SessionTick(s, fallen, first, calm)
           IN  /\ IsSession(next)
               /\ OnlyRated(s.room, next.room)
               /\ next.room.match = AfterWait(s.room.match, fallen, calm)
               /\ SumKept(s.room, next.room)
               /\ fallen = {} \/ NoPair(s.room) => next.room.seats = s.room.seats
               /\ fallen # {} /\ fallen # Color => RatingsMoved(s.room, next.room)
  <1> DEFINE second == Opponent(first)
             m == AfterWait(s.room.match, fallen, calm)
             waited == [s EXCEPT !.room.match = m]
             settled == IF first \in fallen THEN Settle(waited, first) ELSE waited
             next == IF second \in fallen THEN Settle(settled, second) ELSE settled
  <1>1. SessionTick(s, fallen, first, calm) = next
    BY DEF SessionTick
  <1>2. second \in Color /\ Color = {first, second}
    BY DEF Opponent, Color
  <1>3. m \in MatchValue
    BY AfterWaitType DEF IsSession, RoomInv, IsRoom
  <1> HIDE DEF m, second
  <1>4. /\ IsSession(waited) /\ OnlyRated(s.room, waited.room)
        /\ waited.room.seats = s.room.seats /\ waited.room.match = m
    BY <1>3, MatchMovesOn
  <1>5. SumKept(s.room, waited.room)
    BY <1>4 DEF SumKept
  <1> HIDE DEF waited
  <1>6. /\ IsSession(settled) /\ OnlyRated(waited.room, settled.room)
        /\ settled.room.match = m /\ SumKept(waited.room, settled.room)
        /\ first \in fallen => RatingsMoved(waited.room, settled.room)
        /\ first \notin fallen \/ NoPair(waited.room) => settled = waited
    BY <1>4, SettleResult, RoomIsOnlyRated DEF IsSession
  <1> HIDE DEF settled
  <1>7. /\ IsSession(next) /\ OnlyRated(settled.room, next.room)
        /\ next.room.match = m /\ SumKept(settled.room, next.room)
        /\ second \in fallen => RatingsMoved(settled.room, next.room)
        /\ second \notin fallen \/ NoPair(settled.room) => next = settled
    BY <1>2, <1>6, SettleResult, RoomIsOnlyRated DEF IsSession
  <1> HIDE DEF next
  <1>8. OnlyRated(s.room, settled.room) /\ SumKept(s.room, settled.room)
    BY <1>4, <1>5, <1>6, OnlyRatedAgain DEF IsSession
  <1>9. OnlyRated(s.room, next.room) /\ SumKept(s.room, next.room)
    BY <1>7, <1>8, OnlyRatedAgain DEF IsSession
  <1>10. fallen = {} \/ NoPair(s.room) => next.room.seats = s.room.seats
    <2>1. NoPair(s.room) => NoPair(waited.room)
      BY <1>4 DEF NoPair
    <2> QED BY <1>4, <1>6, <1>7, <2>1
  <1>11. fallen # {} /\ fallen # Color => RatingsMoved(s.room, next.room)
    <2>1. CASE first \in fallen /\ second \notin fallen
      BY <1>4, <1>6, <1>7, <2>1, MovedFromSeats
    <2>2. CASE first \notin fallen /\ second \in fallen
      BY <1>4, <1>6, <1>7, <2>2, MovedFromSeats
    <2> QED BY <1>2, <2>1, <2>2
  <1> QED BY <1>1, <1>7, <1>9, <1>10, <1>11 DEF m

LEMMA ForfeitResult ==
    ASSUME NEW s, IsSession(s), NEW loser \in Color
    PROVE  LET next == Forfeit(s, loser)
           IN  /\ IsSession(next)
               /\ OnlyRated(s.room, next.room)
               /\ SumKept(s.room, next.room)
               /\ next.room.match.over
               /\ next.room.match.kings = s.room.match.kings
               /\ s.room.match.over => next = s
               /\ ~s.room.match.over => RatingsMoved(s.room, next.room)
               /\ NoPair(s.room) => next.room.seats = s.room.seats
  <1> DEFINE next == Forfeit(s, loser)
             m == Ended(s.room.match)
             over == [s EXCEPT !.room.match = m]
  <1>1. m \in MatchValue /\ m.over /\ m.kings = s.room.match.kings
    BY EndedType DEF IsSession, RoomInv, IsRoom
  <1>2. CASE s.room.match.over
    <2>1. next = s
      BY <1>2 DEF Forfeit
    <2> QED BY <1>2, <2>1, RoomIsOnlyRated DEF IsSession
  <1>3. CASE ~s.room.match.over
    <2>1. next = Settle(over, loser)
      BY <1>3 DEF Forfeit
    <2> HIDE DEF m
    <2>2. /\ IsSession(over) /\ OnlyRated(s.room, over.room)
          /\ over.room.seats = s.room.seats /\ over.room.match = m
      BY <1>1, MatchMovesOn
    <2> HIDE DEF over, next
    <2>3. /\ IsSession(next) /\ OnlyRated(over.room, next.room)
          /\ next.room.match = m /\ SumKept(over.room, next.room)
          /\ RatingsMoved(over.room, next.room)
          /\ NoPair(over.room) => next = over
      BY <2>1, <2>2, SettleResult
    <2>4. OnlyRated(s.room, next.room)
      BY <2>2, <2>3, OnlyRatedAgain DEF IsSession
    <2>5. SumKept(s.room, next.room) /\ RatingsMoved(s.room, next.room)
      <3>1. SumKept(over.room, next.room) /\ RatingsMoved(over.room, next.room)
        BY <2>3
      <3> QED BY <2>2, <3>1 DEF SumKept, RatingsMoved
    <2>6. NoPair(s.room) => next.room.seats = s.room.seats
      BY <2>2, <2>3 DEF NoPair
    <2> QED BY <1>1, <1>3, <2>3, <2>4, <2>5, <2>6 DEF next
  <1> QED BY <1>2, <1>3

\* The vacancies a tick leaves are some of those there were, with less grace.
SomeVacancies(left, vacancies) ==
    /\ left \in Seq(Vacancy)
    /\ \E place \in [DOMAIN left -> DOMAIN vacancies] :
          /\ \A j \in DOMAIN left :
                /\ left[j].client = vacancies[place[j]].client
                /\ left[j].color = vacancies[place[j]].color
                /\ left[j].user = vacancies[place[j]].user
          /\ \A j, k \in DOMAIN left : place[j] = place[k] => j = k

LEMMA FewerVacanciesInv ==
    ASSUME NEW s, IsSession(s), NEW left, SomeVacancies(left, s.room.vacancies)
    PROVE  LET next == [s EXCEPT !.room.vacancies = left]
           IN  /\ IsSession(next)
               /\ next.room.vacancies = left
               /\ next.room.seats = s.room.seats
               /\ next.room.members = s.room.members
               /\ next.room.match = s.room.match
  <1> DEFINE room == s.room
             nextRoom == [room EXCEPT !.vacancies = left]
             next == [s EXCEPT !.room.vacancies = left]
  <1>1. /\ DOMAIN s = {"room", "store"} /\ s.store \in [User -> Int]
        /\ RoomInv(room) /\ IsRoom(room)
        /\ DOMAIN room = {"seats", "members", "vacancies", "match"}
    BY DEF IsSession, RoomInv, IsRoom
  <1>2. next = [s EXCEPT !.room = nextRoom]
    OBVIOUS
  <1>3. PICK place \in [DOMAIN left -> DOMAIN room.vacancies] :
          /\ \A j \in DOMAIN left :
                /\ left[j].client = room.vacancies[place[j]].client
                /\ left[j].color = room.vacancies[place[j]].color
                /\ left[j].user = room.vacancies[place[j]].user
          /\ \A j, k \in DOMAIN left : place[j] = place[k] => j = k
    BY DEF SomeVacancies
  <1>4. left \in Seq(Vacancy)
    BY DEF SomeVacancies
  <1> HIDE DEF room
  <1>5. /\ DOMAIN nextRoom = DOMAIN room /\ nextRoom.seats = room.seats
        /\ nextRoom.members = room.members /\ nextRoom.match = room.match
        /\ nextRoom.vacancies = left
    BY <1>1
  <1> HIDE DEF nextRoom, next
  <1>6. next.room = nextRoom /\ next.store = s.store /\ DOMAIN next = {"room", "store"}
    BY <1>1, <1>2
  <1>7. IsRoom(nextRoom)
    BY <1>1, <1>4, <1>5 DEF IsRoom
  <1>8. SeatsExclusive(nextRoom.seats) /\ MembersSeated(nextRoom)
    BY <1>1, <1>5 DEF RoomInv, MembersSeated
  <1>9. VacanciesHeld(nextRoom)
    BY <1>1, <1>3, <1>5 DEF RoomInv, VacanciesHeld
  <1>10. VacanciesApart(nextRoom)
    BY <1>1, <1>3, <1>5 DEF RoomInv, VacanciesApart
  <1>11. IsSession(next)
    BY <1>1, <1>6, <1>7, <1>8, <1>9, <1>10 DEF IsSession, RoomInv
  <1> QED BY <1>5, <1>6, <1>11 DEF next, room

\* A seat is only given up to a countdown that has run out, and then the game
\* is over.
LEMMA CountDownResult ==
    ASSUME NEW s, IsSession(s), NEW delta \in Nat
    PROVE  LET next == CountDown(s, delta)
           IN  /\ IsSession(next)
               /\ SomeVacancies(next.room.vacancies, s.room.vacancies)
               /\ next.room.members = s.room.members
               /\ next.room.match.over \/ SeatsReturn(s.room, next.room)
               /\ SumKept(s.room, next.room)
               /\ next.room.match.kings = s.room.match.kings
               /\ s.room.match.over => next.room.match.over
               /\ s.room.match.over \/ ~next.room.match.over \/ NoPair(s.room)
                     => next.room.seats = s.room.seats
               /\ ~s.room.match.over /\ next.room.match.over
                     => RatingsMoved(s.room, next.room)
               /\ \A color \in Color :
                     Holders(next.room.seats, color) = Holders(s.room.seats, color)
  <1> DEFINE vacancies == s.room.vacancies
             n == Len(vacancies)
             counted == [i \in DOMAIN vacancies |-> Counted(vacancies[i], delta)]
             late == {i \in DOMAIN counted : Expired(counted[i])}
             keep == DOMAIN counted \ late
             left == Filtered(counted, keep)
             kept == [s EXCEPT !.room.vacancies = left]
             loser == counted[Min(late)].color
             next == CountDown(s, delta)
  <1>1. next = IF late = {} THEN kept ELSE Forfeit(kept, loser)
    BY DEF CountDown
  <1>2. /\ vacancies \in Seq(Vacancy) /\ DOMAIN vacancies = 1 .. n /\ n \in Nat
        /\ \A i \in 1 .. n : vacancies[i] \in Vacancy
    BY DEF IsSession, RoomInv, IsRoom
  <1>3. \A i \in 1 .. n :
           LET v == vacancies[i]
           IN  /\ counted[i].client = v.client /\ counted[i].color = v.color
               /\ counted[i].user = v.user
               /\ counted[i].color \in Color
               /\ ~Expired(counted[i]) => counted[i] \in Vacancy
    <2> TAKE i \in 1 .. n
    <2> DEFINE v == vacancies[i]
               g == v.grace - delta
               w == [v EXCEPT !.grace = g]
    <2>1. v \in Vacancy
      BY <1>2
    <2>2. g \in Int /\ g <= GraceMs
      BY <2>1, GraceMsType DEF Vacancy
    <2>3. counted[i] = w
      BY <1>2 DEF Counted
    <2> HIDE DEF v, g
    <2>4. /\ w.client = v.client /\ w.color = v.color /\ w.user = v.user
          /\ w.grace = g /\ w.color \in Color
      BY <2>1 DEF Vacancy
    <2>5. g > 0 => g \in 1 .. GraceMs
      BY <2>2, GraceMsType
    <2>6. g > 0 => w \in Vacancy
      BY <2>1, <2>5 DEF Vacancy
    <2> HIDE DEF w
    <2>7. ~Expired(w) => g > 0
      BY <2>2, <2>4 DEF Expired
    <2> HIDE DEF counted
    <2> QED BY <2>3, <2>4, <2>6, <2>7 DEF v
  <1>4. DOMAIN counted = 1 .. n /\ keep \in SUBSET (1 .. n) /\ late \in SUBSET (1 .. n)
    BY <1>2
  <1>5. \A k \in keep : counted[k] \in Vacancy
    BY <1>3, <1>4
  <1>6. late # {} => Min(late) \in late
    <2>1. late \subseteq Nat
      BY <1>4
    <2> HIDE DEF late
    <2> QED BY <2>1, MinIsLeast
  <1>7. late # {} => loser \in Color
    BY <1>3, <1>4, <1>6
  <1> HIDE DEF counted, late
  <1>8. late = {} => keep = 1 .. n
    BY <1>4
  <1> HIDE DEF keep
  <1>9. /\ left \in Seq(Vacancy)
        /\ \A j \in DOMAIN left : Nth(keep, j) \in keep /\ left[j] = counted[Nth(keep, j)]
        /\ \A j, k \in DOMAIN left : Nth(keep, j) = Nth(keep, k) => j = k
        /\ \A k \in keep : \E j \in DOMAIN left : left[j] = counted[k]
    <2>1. n \in Nat /\ keep \in SUBSET (1 .. n)
      BY <1>2, <1>4
    <2> HIDE DEF n
    <2>2. /\ Filtered(counted, keep) \in Seq(Vacancy)
          /\ DOMAIN Filtered(counted, keep) = 1 .. Cardinality(keep)
          /\ \A i \in DOMAIN Filtered(counted, keep) :
                /\ Nth(keep, i) \in keep
                /\ Filtered(counted, keep)[i] = counted[Nth(keep, i)]
          /\ \A i, j \in DOMAIN Filtered(counted, keep) :
                Nth(keep, i) = Nth(keep, j) => i = j
      BY <1>5, <2>1, FilteredFacts
    <2>4. \A k \in keep : \E i \in 1 .. Cardinality(keep) : Nth(keep, i) = k
      BY <2>1, NthFacts
    <2> HIDE DEF left
    <2>3. Filtered(counted, keep) = left
      BY DEF left
    <2> QED BY <2>2, <2>3, <2>4
  <1> HIDE DEF left
  <1>10. SomeVacancies(left, vacancies)
    <2> DEFINE place == [j \in DOMAIN left |-> Nth(keep, j)]
    <2>1. place \in [DOMAIN left -> DOMAIN vacancies]
      BY <1>2, <1>4, <1>9
    <2>2. \A j \in DOMAIN left :
                /\ left[j].client = vacancies[place[j]].client
                /\ left[j].color = vacancies[place[j]].color
                /\ left[j].user = vacancies[place[j]].user
      BY <1>3, <1>4, <1>9
    <2>3. \A j, k \in DOMAIN left : place[j] = place[k] => j = k
      BY <1>9
    <2> QED BY <1>9, <2>1, <2>2, <2>3 DEF SomeVacancies
  <1>11. /\ IsSession(kept) /\ kept.room.vacancies = left
         /\ kept.room.seats = s.room.seats /\ kept.room.members = s.room.members
         /\ kept.room.match = s.room.match
    BY <1>10, FewerVacanciesInv
  <1> HIDE DEF kept, loser, next
  <1>12. CASE late = {}
    <2>1. next = kept
      BY <1>1, <1>12
    <2>2. SeatsReturn(s.room, kept.room)
      <3>1. \A i \in DOMAIN vacancies : \E j \in DOMAIN left :
               left[j].client = vacancies[i].client
        <4> TAKE i \in DOMAIN vacancies
        <4>1. i \in 1 .. n /\ i \in keep
          BY <1>2, <1>8, <1>12
        <4> QED BY <1>3, <1>9, <4>1
      <3> QED BY <1>11, <3>1 DEF SeatsReturn
    <2>3. SumKept(s.room, kept.room)
      BY <1>11 DEF SumKept
    <2> QED BY <1>10, <1>11, <2>1, <2>2, <2>3 DEF next
  <1>13. CASE late # {}
    <2>1. next = Forfeit(kept, loser) /\ loser \in Color
      BY <1>1, <1>7, <1>13
    <2>2. /\ IsSession(next) /\ OnlyRated(kept.room, next.room)
          /\ SumKept(kept.room, next.room) /\ next.room.match.over
          /\ next.room.match.kings = kept.room.match.kings
          /\ kept.room.match.over => next = kept
          /\ ~kept.room.match.over => RatingsMoved(kept.room, next.room)
          /\ NoPair(kept.room) => next.room.seats = kept.room.seats
      BY <1>11, <2>1, ForfeitResult
    <2>3. /\ next.room.vacancies = left /\ next.room.members = s.room.members
      BY <1>11, <2>2 DEF OnlyRated
    <2>4. \A color \in Color :
             Holders(next.room.seats, color) = Holders(s.room.seats, color)
      BY <1>11, <2>2 DEF OnlyRated, Holders
    <2>5. SumKept(s.room, next.room)
      BY <1>11, <2>2 DEF SumKept
    <2>6. ~s.room.match.over => RatingsMoved(s.room, next.room)
      BY <1>11, <2>2, MovedFromSeats
    <2>7. NoPair(s.room) => next.room.seats = s.room.seats
      BY <1>11, <2>2 DEF NoPair
    <2> QED BY <1>10, <1>11, <2>2, <2>3, <2>4, <2>5, <2>6, <2>7 DEF next
  <1> QED BY <1>12, <1>13

NoNewAbsentee(room, next) ==
    \A j \in DOMAIN next.vacancies :
       \E i \in DOMAIN room.vacancies :
          next.vacancies[j].client = room.vacancies[i].client

LEMMA RoomTickResult ==
    ASSUME NEW s, IsSession(s), NEW fallen \in MayFall(s.room.match),
           NEW first \in Color, NEW calm \in BOOLEAN, NEW delta \in Nat
    PROVE  LET next == RoomTick(s, fallen, first, calm, delta)
           IN  /\ IsSession(next)
               /\ next.room.members = s.room.members
               /\ \A color \in Color :
                     Holders(next.room.seats, color) = Holders(s.room.seats, color)
               /\ s.room.match.over => next.room.match.over
               /\ NoNewAbsentee(s.room, next.room)
               /\ next.room.match.over \/ SeatsReturn(s.room, next.room)
               /\ SumKept(s.room, next.room)
               /\ ~s.room.match.over /\ next.room.match.over
                  /\ next.room.match.kings # {}
                     => RatingsMoved(s.room, next.room)
  <1> DEFINE m == s.room.match
             played == SessionTick(s, fallen, first, calm)
             next == RoomTick(s, fallen, first, calm, delta)
  <1>1. m \in MatchValue
    BY DEF IsSession, RoomInv, IsRoom
  <1>2. fallen \in SUBSET m.kings /\ m.kings \in SUBSET Color
    BY <1>1 DEF MayFall, MatchValue
  <1>3. fallen \in SUBSET Color
    BY <1>2
  <1>4. /\ IsSession(played) /\ OnlyRated(s.room, played.room)
        /\ played.room.match = AfterWait(m, fallen, calm)
        /\ SumKept(s.room, played.room)
        /\ fallen = {} \/ NoPair(s.room) => played.room.seats = s.room.seats
        /\ fallen # {} /\ fallen # Color => RatingsMoved(s.room, played.room)
    BY <1>3, SessionTickResult
  <1>5. /\ played.room.match.over <=> m.over \/ fallen # {}
        /\ played.room.match.kings = m.kings \ fallen
    <2> DEFINE after == AfterWait(m, fallen, calm)
    <2>1. (after.over <=> m.over \/ fallen # {}) /\ after.kings = m.kings \ fallen
      <3> HIDE DEF m
      <3> QED BY <1>1, <1>3, AfterWaitType, Zenon
    <2>2. played.room.match = after
      BY <1>4
    <2> HIDE DEF after, played, m
    <2> QED BY <2>1, <2>2, Zenon
  <1>6. next = CountDown(played, delta)
    BY DEF RoomTick
  <1> HIDE DEF played, next
  <1>7. /\ IsSession(next)
        /\ SomeVacancies(next.room.vacancies, played.room.vacancies)
        /\ next.room.members = played.room.members
        /\ next.room.match.over \/ SeatsReturn(played.room, next.room)
        /\ SumKept(played.room, next.room)
        /\ next.room.match.kings = played.room.match.kings
        /\ played.room.match.over => next.room.match.over
        /\ played.room.match.over \/ ~next.room.match.over \/ NoPair(played.room)
              => next.room.seats = played.room.seats
        /\ ~played.room.match.over /\ next.room.match.over
              => RatingsMoved(played.room, next.room)
        /\ \A color \in Color :
              Holders(next.room.seats, color) = Holders(played.room.seats, color)
    BY <1>4, <1>6, CountDownResult
  <1>8. /\ played.room.vacancies = s.room.vacancies
        /\ played.room.members = s.room.members
        /\ \A color \in Color :
              Holders(played.room.seats, color) = Holders(s.room.seats, color)
    BY <1>4 DEF OnlyRated, Holders
  <1>9. NoNewAbsentee(s.room, next.room)
    BY <1>7, <1>8 DEF SomeVacancies, NoNewAbsentee
  <1>10. next.room.match.over \/ SeatsReturn(s.room, next.room)
    BY <1>7, <1>8 DEF SeatsReturn
  <1>11. SumKept(s.room, next.room)
    BY <1>4, <1>7, <1>8 DEF SumKept, Color
  <1>12. ASSUME ~m.over, next.room.match.over, next.room.match.kings # {}
         PROVE  RatingsMoved(s.room, next.room)
    <2>1. fallen # Color
      BY <1>2, <1>5, <1>7, <1>12
    <2>2. CASE fallen = {}
      <3>1. ~played.room.match.over
        BY <1>5, <1>12, <2>2
      <3>2. RatingsMoved(played.room, next.room) /\ played.room.seats = s.room.seats
        BY <1>4, <1>7, <1>12, <2>2, <3>1
      <3> QED BY <3>2, MovedFromSeats
    <2>3. CASE fallen # {}
      <3>1. next.room.seats = played.room.seats /\ RatingsMoved(s.room, played.room)
        BY <1>4, <1>5, <1>7, <2>1, <2>3
      <3> QED BY <3>1 DEF RatingsMoved
    <2> QED BY <2>2, <2>3
  <1>13. m.over => next.room.match.over
    BY <1>5, <1>7
  <1>14. \A color \in Color :
            Holders(next.room.seats, color) = Holders(s.room.seats, color)
    BY <1>7, <1>8
  <1> QED BY <1>7, <1>8, <1>9, <1>10, <1>11, <1>12, <1>13, <1>14 DEF next

\* A tick in which no king falls and nobody forfeits, or in a room with nobody
\* on one side, leaves the seats and their ratings alone.
LEMMA UnsettledTick ==
    ASSUME NEW s, IsSession(s), NEW fallen \in MayFall(s.room.match),
           NEW first \in Color, NEW calm \in BOOLEAN, NEW delta \in Nat
    PROVE  LET next == RoomTick(s, fallen, first, calm, delta)
           IN  \/ NoPair(s.room)
               \/ /\ next.room.match.kings = s.room.match.kings
                  /\ next.room.match.over <=> s.room.match.over
               => next.room.seats = s.room.seats
  <1> DEFINE m == s.room.match
             after == AfterWait(m, fallen, calm)
             played == SessionTick(s, fallen, first, calm)
             next == RoomTick(s, fallen, first, calm, delta)
  <1>1. m \in MatchValue
    BY DEF IsSession, RoomInv, IsRoom
  <1>2. fallen \in SUBSET m.kings /\ fallen \in SUBSET Color
    BY <1>1 DEF MayFall, MatchValue
  <1>3. (after.over <=> m.over \/ fallen # {}) /\ after.kings = m.kings \ fallen
    <2> HIDE DEF m
    <2>1. fallen \in SUBSET Color
      BY <1>2
    <2> QED BY <1>1, <2>1, AfterWaitType, Zenon
  <1>4. /\ IsSession(played) /\ OnlyRated(s.room, played.room)
        /\ played.room.match = after
        /\ fallen = {} \/ NoPair(s.room) => played.room.seats = s.room.seats
    BY <1>2, SessionTickResult
  <1>5. next = CountDown(played, delta)
    BY DEF RoomTick
  <1> HIDE DEF m, after, played, next
  <1>6. /\ next.room.match.kings = played.room.match.kings
        /\ played.room.match.over \/ ~next.room.match.over \/ NoPair(played.room)
              => next.room.seats = played.room.seats
    BY <1>4, <1>5, CountDownResult
  <1>7. ASSUME NoPair(s.room)
        PROVE  next.room.seats = s.room.seats
    <2>1. NoPair(played.room)
      BY <1>4, <1>7 DEF NoPair, OnlyRated, Holders
    <2> QED BY <1>4, <1>6, <1>7, <2>1
  <1>8. ASSUME next.room.match.kings = m.kings, next.room.match.over <=> m.over
        PROVE  next.room.seats = s.room.seats
    <2>1. fallen = {}
      BY <1>2, <1>3, <1>4, <1>6, <1>8
    <2>2. played.room.match.over \/ ~next.room.match.over
      BY <1>3, <1>4, <1>8
    <2> QED BY <1>4, <1>6, <2>1, <2>2
  <1> QED BY <1>7, <1>8 DEF m, next

-----------------------------------------------------------------------------
(***************************************************************************)
(* The server: its rooms, its connections and the queue.                   *)
(***************************************************************************)
Gone == {c \in Client : conn[c] = "Closed"}

\* The rooms, with absentees among those who are gone.
RoomsInv(all, gone) ==
    /\ DOMAIN all \subseteq RoomId
    /\ \A r \in DOMAIN all :
          /\ RoomInv(all[r])
          /\ \A i \in DOMAIN all[r].vacancies : all[r].vacancies[i].client \in gone

LocatedInv(known, all) ==
    \A c \in DOMAIN known :
       known[c].room # NoRoom =>
          known[c].room \in DOMAIN all /\ c \in all[known[c].room].members

QueueInv(q, known) ==
    /\ q \in Seq(Seeker)
    /\ \A i \in DOMAIN q : q[i].client \in DOMAIN known
    /\ \A i, j \in DOMAIN q : q[i].client = q[j].client => i = j

ClientsInv(known) ==
    /\ conn \in [Client -> {"New", "Open", "Closed"}]
    /\ DOMAIN known \subseteq {c \in Client : conn[c] = "Open"}
    /\ \A c \in DOMAIN known : known[c] \in ClientRecord

LobbyInv ==
    /\ ClientsInv(clients)
    /\ RoomsInv(rooms, Gone)
    /\ LocatedInv(clients, rooms)
    /\ QueueInv(queue, clients)
    /\ store \in [User -> Int]
    /\ due \subseteq DOMAIN rooms

LEMMA LobbyInvIsEnough ==
    ASSUME LobbyInv
    PROVE  /\ TypeOK
           /\ SeatsAreExclusive
           /\ AbsentSeatsAreHeld
           /\ MembersAreSeated
           /\ SearchersArePresent
  <1>1. TypeOK
    BY DEF LobbyInv, ClientsInv, RoomsInv, QueueInv, RoomInv, TypeOK
  <1>2. SeatsAreExclusive
    BY DEF LobbyInv, RoomsInv, RoomInv, SeatsExclusive, SeatsAreExclusive
  <1>3. AbsentSeatsAreHeld
    BY DEF LobbyInv, RoomsInv, RoomInv, VacanciesHeld, VacanciesApart, Gone,
           AbsentSeatsAreHeld, Vacancies, Range
  <1>4. MembersAreSeated
    BY NoRoomIsNoId
    DEF LobbyInv, RoomsInv, RoomInv, MembersSeated, LocatedInv, MembersAreSeated
  <1>5. SearchersArePresent
    BY DEF LobbyInv, QueueInv, SearchersArePresent
  <1> QED BY <1>1, <1>2, <1>3, <1>4, <1>5

-----------------------------------------------------------------------------
(***************************************************************************)
(* The queue.                                                              *)
(***************************************************************************)
LEMMA OpponentFound ==
    ASSUME NEW q \in Seq(Seeker), NEW rating, OpponentAt(q, rating) # 0
    PROVE  OpponentAt(q, rating) \in DOMAIN q
  <1> DEFINE I == {i \in 1 .. Len(q) :
                     q[i].rating - rating \in -EloMatchRange .. EloMatchRange}
  <1>1. OpponentAt(q, rating) = IF I # {} THEN Min(I) ELSE 0
    BY DEF OpponentAt, SelectInSeq
  <1>2. I \subseteq Nat /\ I \subseteq DOMAIN q
    OBVIOUS
  <1> HIDE DEF I
  <1>3. I # {} => Min(I) \in I
    BY <1>2, MinIsLeast
  <1> QED BY <1>1, <1>2, <1>3

LEMMA QueueWithoutOne ==
    ASSUME NEW known, NEW q, QueueInv(q, known), NEW n \in DOMAIN q
    PROVE  /\ QueueInv(RemoveAt(q, n), known)
           /\ ~IsWaiting(RemoveAt(q, n), q[n].client)
  <1> DEFINE left == RemoveAt(q, n)
  <1>1. q \in Seq(Seeker) /\ n \in 1 .. Len(q) /\ Len(q) \in Nat /\ DOMAIN q = 1 .. Len(q)
    BY DEF QueueInv
  <1>2. /\ left \in Seq(Seeker) /\ Len(left) = Len(q) - 1
        /\ \A i \in DOMAIN left : left[i] = IF i < n THEN q[i] ELSE q[i + 1]
    BY <1>1, RemovalFacts
  <1> HIDE DEF left
  <1>3. DOMAIN left = 1 .. Len(q) - 1
    BY <1>2
  <1>4. \A i \in DOMAIN left : \E k \in DOMAIN q \ {n} :
           left[i] = q[k] /\ k = IF i < n THEN i ELSE i + 1
    BY <1>1, <1>2, <1>3
  <1>5. \A i \in DOMAIN left : left[i].client \in DOMAIN known /\ left[i].client # q[n].client
    BY <1>4 DEF QueueInv
  <1>6. ASSUME NEW i \in DOMAIN left, NEW j \in DOMAIN left,
               left[i].client = left[j].client
        PROVE  i = j
    <2>1. PICK k \in DOMAIN q : left[i] = q[k] /\ k = IF i < n THEN i ELSE i + 1
      BY <1>4
    <2>2. PICK h \in DOMAIN q : left[j] = q[h] /\ h = IF j < n THEN j ELSE j + 1
      BY <1>4
    <2>3. k = h
      BY <1>6, <2>1, <2>2 DEF QueueInv
    <2> QED BY <1>1, <1>3, <2>1, <2>2, <2>3
  <1> QED BY <1>2, <1>5, <1>6 DEF QueueInv, IsWaiting, left

LEMMA CancelledInv ==
    ASSUME NEW known, NEW q, QueueInv(q, known), NEW c
    PROVE  QueueInv(Cancelled(q, c), known) /\ ~IsWaiting(Cancelled(q, c), c)
  <1> DEFINE I == {i \in 1 .. Len(q) : q[i].client = c}
  <1>1. q \in Seq(Seeker) /\ DOMAIN q = 1 .. Len(q)
    BY DEF QueueInv
  <1>2. Cancelled(q, c) = IF I # {} THEN RemoveAt(q, Min(I)) ELSE q
    BY DEF Cancelled, RemoveFirstMatch, SelectInSeq
  <1>3. I \subseteq Nat /\ I \subseteq DOMAIN q
    BY <1>1
  <1>4. CASE I # {}
    <2>1. Min(I) \in I
      <3> HIDE DEF I
      <3> QED BY <1>3, <1>4, MinIsLeast
    <2>2. Min(I) \in DOMAIN q /\ q[Min(I)].client = c
      BY <1>3, <2>1
    <2> HIDE DEF I
    <2> QED BY <1>2, <1>4, <2>2, QueueWithoutOne
  <1>5. CASE I = {}
    BY <1>1, <1>2, <1>5 DEF IsWaiting
  <1> QED BY <1>4, <1>5

LEMMA QueuedInv ==
    ASSUME NEW known, NEW q, QueueInv(q, known), NEW c \in Client,
           c \in DOMAIN known, ~IsWaiting(q, c), NEW rating \in Int
    PROVE  QueueInv(Queued(q, c, rating), known)
  <1> DEFINE s == [client |-> c, rating |-> rating, waited |-> 0]
             next == Append(q, s)
  <1>1. s \in Seeker /\ s.client = c
    BY SearchMsType DEF Seeker
  <1> HIDE DEF s
  <1>2. q \in Seq(Seeker) /\ Len(q) \in Nat /\ DOMAIN q = 1 .. Len(q)
    BY DEF QueueInv
  <1>3. /\ next \in Seq(Seeker) /\ DOMAIN next = 1 .. Len(q) + 1
        /\ next[Len(q) + 1] = s
        /\ \A i \in 1 .. Len(q) : next[i] = q[i]
    BY <1>1, <1>2
  <1>4. \A i \in 1 .. Len(q) + 1 : i \in 1 .. Len(q) \/ i = Len(q) + 1
    BY <1>2
  <1>5. \A i \in 1 .. Len(q) : q[i].client # c
    BY <1>2 DEF IsWaiting
  <1>6. Queued(q, c, rating) = next
    BY DEF Queued, s
  <1> HIDE DEF next
  <1> QED BY <1>1, <1>2, <1>3, <1>4, <1>5, <1>6 DEF QueueInv

LEMMA SearchTickInv ==
    ASSUME NEW known, NEW q, QueueInv(q, known), NEW delta \in Nat
    PROVE  QueueInv(AfterSearchTick(q, delta), known)
  <1> DEFINE n == Len(q)
             aged == [i \in DOMAIN q |-> Waited(q[i], delta)]
             keep == {i \in DOMAIN aged : aged[i].waited < SearchMs}
             left == Filtered(aged, keep)
  <1>1. /\ q \in Seq(Seeker) /\ n \in Nat /\ DOMAIN q = 1 .. n
        /\ \A i \in 1 .. n : q[i] \in Seeker
    BY DEF QueueInv
  <1>2. AfterSearchTick(q, delta) = left
    BY DEF AfterSearchTick
  <1>3. \A i \in 1 .. n : /\ aged[i].client = q[i].client
                          /\ aged[i].waited < SearchMs => aged[i] \in Seeker
    <2> TAKE i \in 1 .. n
    <2> DEFINE s == q[i]
               w == s.waited + delta
               t == [s EXCEPT !.waited = w]
    <2>1. s \in Seeker
      BY <1>1
    <2>2. w \in Nat
      BY <2>1 DEF Seeker
    <2>3. aged[i] = t
      BY <1>1 DEF Waited
    <2> HIDE DEF s, w
    <2>4. t.client = s.client /\ t.waited = w
      BY <2>1 DEF Seeker
    <2>5. w < SearchMs => w \in 0 .. SearchMs - 1
      BY <2>2, SearchMsType
    <2>6. w < SearchMs => t \in Seeker
      BY <2>1, <2>5 DEF Seeker
    <2> HIDE DEF t, aged
    <2> QED BY <2>3, <2>4, <2>6 DEF s
  <1>4. keep \in SUBSET (1 .. n) /\ \A k \in keep : aged[k] \in Seeker
    BY <1>1, <1>3
  <1> HIDE DEF aged, keep
  <1>5. /\ Filtered(aged, keep) \in Seq(Seeker)
        /\ \A i \in DOMAIN Filtered(aged, keep) :
              /\ Nth(keep, i) \in keep
              /\ Filtered(aged, keep)[i] = aged[Nth(keep, i)]
        /\ \A i, j \in DOMAIN Filtered(aged, keep) :
              Nth(keep, i) = Nth(keep, j) => i = j
    BY <1>1, <1>4, FilteredFacts
  <1>6. /\ left \in Seq(Seeker)
        /\ \A i \in DOMAIN left : Nth(keep, i) \in keep /\ left[i] = aged[Nth(keep, i)]
        /\ \A i, j \in DOMAIN left : Nth(keep, i) = Nth(keep, j) => i = j
    BY <1>5
  <1> HIDE DEF left
  <1>7. \A i \in DOMAIN left : Nth(keep, i) \in DOMAIN q /\ left[i].client = q[Nth(keep, i)].client
    BY <1>1, <1>3, <1>4, <1>6
  <1> QED BY <1>2, <1>6, <1>7 DEF QueueInv

-----------------------------------------------------------------------------
(***************************************************************************)
(* The rooms.  RoomStep is what the two action properties ask of a room.   *)
(***************************************************************************)
RatingsExchanged(room, next) ==
    \A w \in Holders(room.seats, "White") \cap Holders(next.seats, "White"),
       b \in Holders(room.seats, "Black") \cap Holders(next.seats, "Black") :
          /\ room.seats[w].rating + room.seats[b].rating
                = next.seats[w].rating + next.seats[b].rating
          /\ ~room.match.over /\ next.match.over /\ next.match.kings # {}
             /\ room.seats[w].rating - room.seats[b].rating \in -719 .. 719
             => room.seats[w].rating # next.seats[w].rating

RoomStep(room, next) ==
    /\ next.match.over \/ SeatsReturn(room, next)
    /\ RatingsExchanged(room, next)

RoomsStep(all, next) ==
    \A r \in DOMAIN all : r \in DOMAIN next /\ RoomStep(all[r], next[r])

LEMMA KeptRatingsStep ==
    ASSUME NEW room, NEW next, SeatsReturn(room, next), RatingsKept(room, next),
           next.match = room.match
    PROVE  RoomStep(room, next)
  BY DEF RoomStep, RatingsExchanged, RatingsKept, Color

LEMMA ExchangedRatings ==
    ASSUME NEW room, NEW next, SumKept(room, next),
           ~room.match.over /\ next.match.over /\ next.match.kings # {}
              => RatingsMoved(room, next)
    PROVE  RatingsExchanged(room, next)
  <1> SUFFICES ASSUME NEW w \in Holders(room.seats, "White"),
                      NEW b \in Holders(room.seats, "Black")
               PROVE  /\ room.seats[w].rating + room.seats[b].rating
                            = next.seats[w].rating + next.seats[b].rating
                      /\ ~room.match.over /\ next.match.over /\ next.match.kings # {}
                         /\ room.seats[w].rating - room.seats[b].rating \in -719 .. 719
                         => room.seats[w].rating # next.seats[w].rating
    BY Zenon DEF RatingsExchanged
  <1>1. room.seats[w].rating + room.seats[b].rating
           = next.seats[w].rating + next.seats[b].rating
    BY Zenon DEF SumKept
  <1>2. CASE ~room.match.over /\ next.match.over /\ next.match.kings # {}
    BY <1>1, <1>2, Zenon DEF RatingsMoved
  <1> QED BY <1>1, <1>2, Zenon

LEMMA SameRoomStep ==
    ASSUME NEW room
    PROVE  RoomStep(room, room)
  BY DEF RoomStep, RatingsExchanged, SeatsReturn

MembersStay(all, next) ==
    \A r \in DOMAIN all : all[r].members \subseteq next[r].members

\* A client with no seat left behind enters a room, new or not.
LEMMA EnteredInv ==
    ASSUME ClientsInv(clients), NEW all, NEW gone, RoomsInv(all, gone),
           NEW c \in DOMAIN clients, c \notin gone, NEW r \in RoomId
    PROVE  LET next == Entered(all, c, r)
           IN  /\ RoomsInv(next, gone)
               /\ DOMAIN next = DOMAIN all \cup {r}
               /\ c \in next[r].members
               /\ MembersStay(all, next)
               /\ \A q \in DOMAIN all \ {r} : next[q] = all[q]
               /\ RoomsStep(all, next)
  <1> DEFINE room == IF r \in DOMAIN all THEN all[r] ELSE NewRoom
             user == clients[c].user
             rating == clients[c].rating
             entered == AddClient(room, c, user, rating)
             next == Entered(all, c, r)
  <1>1. c \in Client /\ user \in User /\ rating \in Int
    BY DEF ClientsInv, ClientRecord
  <1>2. RoomInv(room) /\ \A i \in DOMAIN room.vacancies : room.vacancies[i].client \in gone
    BY NewRoomInv DEF RoomsInv
  <1>3. next = Extended(all, r, entered)
    BY DEF Entered
  <1> HIDE DEF room, user, rating
  <1>4. IsNoAbsentee(room, c)
    BY <1>2 DEF IsNoAbsentee
  <1>5. /\ RoomInv(entered)
        /\ \A j \in DOMAIN entered.vacancies : \E i \in DOMAIN room.vacancies :
              entered.vacancies[j] = room.vacancies[i]
    BY <1>1, <1>2, <1>4, AddClientInv
  <1>6. entered.members = room.members \cup {c} /\ entered.match = room.match
    BY <1>1, <1>2, AddClientResult
  <1>7. SeatsReturn(room, entered) /\ RatingsKept(room, entered)
    BY <1>1, <1>2, <1>4, AddClientReturns
  <1> HIDE DEF entered, next
  <1>8. RoomStep(room, entered)
    BY <1>6, <1>7, KeptRatingsStep
  <1>9. /\ DOMAIN next = DOMAIN all \cup {r} /\ next[r] = entered
        /\ \A q \in DOMAIN all \ {r} : next[q] = all[q]
    BY <1>3 DEF Extended
  <1>10. r \in DOMAIN all => room = all[r]
    BY DEF room
  <1>11. RoomsInv(next, gone)
    BY <1>2, <1>5, <1>9 DEF RoomsInv
  <1>12. MembersStay(all, next)
    BY <1>6, <1>9, <1>10 DEF MembersStay
  <1>13. RoomsStep(all, next)
    BY <1>8, <1>9, <1>10, SameRoomStep DEF RoomsStep
  <1> QED BY <1>6, <1>9, <1>11, <1>12, <1>13 DEF next

LEMMA RoomsStepAgain ==
    ASSUME NEW all, NEW next, NEW r, r \notin DOMAIN all,
           DOMAIN next = DOMAIN all \cup {r},
           \A q \in DOMAIN all : next[q] = all[q]
    PROVE  RoomsStep(all, next)
  BY SameRoomStep DEF RoomsStep

\* A room that exists changes to next, and no other.
LEMMA OneRoomInv ==
    ASSUME NEW all, NEW gone, RoomsInv(all, gone), NEW r \in DOMAIN all, NEW next,
           RoomInv(next), RoomStep(all[r], next),
           \A i \in DOMAIN next.vacancies : next.vacancies[i].client \in gone
    PROVE  /\ RoomsInv([all EXCEPT ![r] = next], gone)
           /\ RoomsStep(all, [all EXCEPT ![r] = next])
  BY SameRoomStep DEF RoomsInv, RoomsStep

LEMMA CommandedRoom ==
    ASSUME NEW room, RoomInv(room)
    PROVE  LET next == ApplyCommand(room)
           IN  /\ RoomInv(next)
               /\ next.members = room.members
               /\ next.vacancies = room.vacancies
               /\ RoomStep(room, next)
  <1> DEFINE m == Commanded(room.match)
             next == ApplyCommand(room)
  <1>1. /\ DOMAIN room = {"seats", "members", "vacancies", "match"}
        /\ room.match \in MatchValue
        /\ \A c \in DOMAIN room.seats : room.seats[c] \in Occupant
    BY DEF RoomInv, IsRoom
  <1>2. m \in MatchValue /\ m.over = room.match.over
    BY <1>1 DEF Commanded, MatchValue
  <1>3. next = [room EXCEPT !.match = m]
    BY DEF ApplyCommand
  <1> HIDE DEF m, next
  <1>4. /\ DOMAIN next = DOMAIN room /\ next.seats = room.seats
        /\ next.members = room.members /\ next.vacancies = room.vacancies
        /\ next.match = m
    BY <1>1, <1>3
  <1>5. OnlyRated(room, next)
    BY <1>1, <1>4 DEF OnlyRated
  <1>6. RoomInv(next) /\ SeatsReturn(room, next)
    BY <1>2, <1>4, <1>5, OnlyRatedInv
  <1>7. RatingsExchanged(room, next)
    BY <1>2, <1>4 DEF RatingsExchanged
  <1> QED BY <1>4, <1>6, <1>7 DEF RoomStep, next

LEMMA LocatedType ==
    ASSUME ClientsInv(clients), NEW cs, NEW r \in RoomId
    PROVE  /\ ClientsInv(Located(cs, r))
           /\ DOMAIN Located(cs, r) = DOMAIN clients
           /\ \A c \in DOMAIN clients : Located(cs, r)[c].room =
                 IF c \in cs THEN r ELSE clients[c].room
  <1>1. DOMAIN Located(cs, r) = DOMAIN clients
    BY DEF Located
  <1>2. ASSUME NEW c \in DOMAIN clients
        PROVE  /\ Located(cs, r)[c] \in ClientRecord
               /\ Located(cs, r)[c].room = IF c \in cs THEN r ELSE clients[c].room
    <2>1. clients[c] \in ClientRecord
      BY DEF ClientsInv
    <2> DEFINE k == clients[c]
               l == [k EXCEPT !.room = r]
    <2>2. Located(cs, r)[c] = IF c \in cs THEN l ELSE k
      BY DEF Located
    <2> HIDE DEF k
    <2>3. k \in ClientRecord
      BY <2>1 DEF k
    <2>4. l \in ClientRecord /\ l.room = r
      BY <2>3 DEF ClientRecord
    <2> HIDE DEF l
    <2> QED BY <2>2, <2>3, <2>4 DEF k
  <1> QED BY <1>1, <1>2 DEF ClientsInv

-----------------------------------------------------------------------------
(***************************************************************************)
(* The steps of the lobby.                                                 *)
(***************************************************************************)
LEMMA ClientIsOpen ==
    ASSUME LobbyInv, NEW c \in DOMAIN clients
    PROVE  /\ c \in Client /\ conn[c] = "Open" /\ c \notin Gone
           /\ clients[c] \in ClientRecord
  BY DEF LobbyInv, ClientsInv, Gone

LEMMA UnchangedRoomsStep == RoomsStep(rooms, rooms)
  BY SameRoomStep DEF RoomsStep

LEMMA ConnectInv ==
    ASSUME LobbyInv, NEW c \in Client, Connect(c)
    PROVE  LobbyInv' /\ RoomsStep(rooms, rooms')
  <1>1. conn' = [conn EXCEPT ![c] = "Open"] /\ conn[c] = "New"
        /\ clients' = clients /\ rooms' = rooms /\ queue' = queue
        /\ store' = store /\ due' = due
    BY DEF Connect
  <1>2. Gone' = Gone
    BY <1>1 DEF Gone, LobbyInv, ClientsInv
  <1>3. ClientsInv(clients)'
    BY <1>1 DEF LobbyInv, ClientsInv
  <1> QED BY <1>1, <1>2, <1>3, UnchangedRoomsStep
       DEF LobbyInv, RoomsInv, LocatedInv, QueueInv

LEMMA LoginInv ==
    ASSUME LobbyInv, NEW c \in Client, NEW user \in User, Login(c, user)
    PROVE  LobbyInv' /\ RoomsStep(rooms, rooms')
  <1> DEFINE record == [user |-> user, rating |-> store[user], room |-> NoRoom]
  <1>1. /\ conn[c] = "Open" /\ clients' = Extended(clients, c, record)
        /\ conn' = conn /\ rooms' = rooms /\ queue' = queue
        /\ store' = store /\ due' = due
    BY DEF Login
  <1>2. record \in ClientRecord /\ record.room = NoRoom
    BY DEF LobbyInv, ClientRecord
  <1> HIDE DEF record
  <1>3. /\ DOMAIN clients' = DOMAIN clients \cup {c} /\ clients'[c] = record
        /\ \A d \in DOMAIN clients \ {c} : clients'[d] = clients[d]
    BY <1>1 DEF Extended
  <1>4. ClientsInv(clients)'
    BY <1>1, <1>2, <1>3 DEF LobbyInv, ClientsInv
  <1>5. LocatedInv(clients, rooms)'
    BY <1>1, <1>2, <1>3 DEF LobbyInv, LocatedInv
  <1>6. QueueInv(queue, clients)'
    BY <1>1, <1>3 DEF LobbyInv, QueueInv
  <1>7. RoomsInv(rooms, Gone)'
    BY <1>1 DEF LobbyInv, RoomsInv, Gone
  <1> QED BY <1>1, <1>4, <1>5, <1>6, <1>7, UnchangedRoomsStep DEF LobbyInv

\* createRoom and joinRoom.
LEMMA EnterRoomInv ==
    ASSUME LobbyInv, NEW c \in DOMAIN clients, NEW r \in RoomId, EnterRoom(c, r),
           UNCHANGED <<conn, queue, store, due>>
    PROVE  LobbyInv' /\ RoomsStep(rooms, rooms')
  <1>1. /\ clients' = Located({c}, r) /\ rooms' = Entered(rooms, c, r)
        /\ conn' = conn /\ queue' = queue /\ store' = store /\ due' = due
    BY DEF EnterRoom
  <1>2. ClientsInv(clients) /\ RoomsInv(rooms, Gone) /\ c \notin Gone
    BY ClientIsOpen DEF LobbyInv
  <1>3. /\ RoomsInv(rooms', Gone) /\ DOMAIN rooms' = DOMAIN rooms \cup {r}
        /\ c \in rooms'[r].members
        /\ MembersStay(rooms, rooms')
        /\ RoomsStep(rooms, rooms')
    BY <1>1, <1>2, EnteredInv
  <1>4. /\ ClientsInv(clients') /\ DOMAIN clients' = DOMAIN clients
        /\ \A d \in DOMAIN clients : clients'[d].room =
              IF d \in {c} THEN r ELSE clients[d].room
    BY <1>1, <1>2, LocatedType
  <1>5. ClientsInv(clients)'
    BY <1>1, <1>4 DEF ClientsInv
  <1>6. RoomsInv(rooms, Gone)'
    BY <1>1, <1>3 DEF RoomsInv, Gone
  <1>7. LocatedInv(clients, rooms)'
    BY <1>3, <1>4 DEF LobbyInv, LocatedInv, MembersStay
  <1>8. QueueInv(queue, clients)'
    BY <1>1, <1>4 DEF LobbyInv, QueueInv
  <1> QED BY <1>1, <1>3, <1>5, <1>6, <1>7, <1>8 DEF LobbyInv

LEMMA SeekAndWaitInv ==
    ASSUME LobbyInv, NEW c \in Client, SeekAndWait(c)
    PROVE  LobbyInv' /\ RoomsStep(rooms, rooms')
  <1>1. /\ c \in DOMAIN clients /\ ~IsWaiting(queue, c)
        /\ queue' = Queued(queue, c, clients[c].rating)
        /\ conn' = conn /\ clients' = clients /\ rooms' = rooms
        /\ store' = store /\ due' = due
    BY DEF SeekAndWait
  <1>2. clients[c].rating \in Int
    BY <1>1, ClientIsOpen DEF ClientRecord
  <1>3. QueueInv(queue', clients)
    BY <1>1, <1>2, QueuedInv DEF LobbyInv
  <1> QED BY <1>1, <1>3, UnchangedRoomsStep
       DEF LobbyInv, ClientsInv, RoomsInv, LocatedInv, Gone

\* handleSeek with an opponent: both enter a new room, one after the other.
LEMMA SeekAndMeetInv ==
    ASSUME LobbyInv, NEW c \in Client, NEW r \in RoomId, SeekAndMeet(c, r)
    PROVE  LobbyInv' /\ RoomsStep(rooms, rooms')
  <1> DEFINE i == OpponentAt(queue, clients[c].rating)
             first == queue[i].client
             half == Entered(rooms, first, r)
  <1>1. /\ c \in DOMAIN clients /\ ~IsWaiting(queue, c) /\ i # 0
        /\ r \in RoomId \ DOMAIN rooms
        /\ clients' = Located({first, c}, r) /\ rooms' = Entered(half, c, r)
        /\ queue' = RemoveAt(queue, i)
        /\ conn' = conn /\ store' = store /\ due' = due
    BY DEF SeekAndMeet, NewId
  <1>2. i \in DOMAIN queue
    BY <1>1, OpponentFound DEF LobbyInv, QueueInv
  <1> HIDE DEF i
  <1>3. first \in DOMAIN clients /\ first # c
    BY <1>1, <1>2 DEF LobbyInv, QueueInv, IsWaiting
  <1> HIDE DEF first
  <1>4. ClientsInv(clients) /\ RoomsInv(rooms, Gone) /\ c \notin Gone /\ first \notin Gone
    BY <1>1, <1>3, ClientIsOpen DEF LobbyInv
  <1>5. /\ RoomsInv(half, Gone) /\ DOMAIN half = DOMAIN rooms \cup {r}
        /\ first \in half[r].members
        /\ \A q \in DOMAIN rooms \ {r} : half[q] = rooms[q]
    BY <1>3, <1>4, EnteredInv
  <1> HIDE DEF half
  <1>6. /\ RoomsInv(rooms', Gone) /\ DOMAIN rooms' = DOMAIN half \cup {r}
        /\ c \in rooms'[r].members
        /\ MembersStay(half, rooms')
        /\ \A q \in DOMAIN half \ {r} : rooms'[q] = half[q]
    <2> DEFINE all == Entered(half, c, r)
    <2>1. /\ RoomsInv(all, Gone) /\ DOMAIN all = DOMAIN half \cup {r}
          /\ c \in all[r].members
          /\ MembersStay(half, all)
          /\ \A q \in DOMAIN half \ {r} : all[q] = half[q]
      <3>1. ClientsInv(clients) /\ RoomsInv(half, Gone) /\ c \in DOMAIN clients /\ c \notin Gone
        BY <1>1, <1>4, <1>5
      <3> QED BY <3>1, EnteredInv
    <2>2. rooms' = all
      BY <1>1
    <2> HIDE DEF all
    <2> QED BY <2>1, <2>2
  <1>7. /\ DOMAIN rooms' = DOMAIN rooms \cup {r}
        /\ {first, c} \subseteq rooms'[r].members
        /\ \A q \in DOMAIN rooms : rooms'[q] = rooms[q]
    BY <1>1, <1>5, <1>6 DEF MembersStay
  <1>8. RoomsStep(rooms, rooms')
    BY <1>1, <1>7, RoomsStepAgain
  <1>9. /\ ClientsInv(clients') /\ DOMAIN clients' = DOMAIN clients
        /\ \A d \in DOMAIN clients : clients'[d].room =
              IF d \in {first, c} THEN r ELSE clients[d].room
    BY <1>1, <1>4, LocatedType
  <1>10. ClientsInv(clients)'
    BY <1>1, <1>9 DEF ClientsInv
  <1>11. RoomsInv(rooms, Gone)'
    BY <1>1, <1>6 DEF RoomsInv, Gone
  <1>12. LocatedInv(clients, rooms)'
    BY <1>7, <1>9 DEF LobbyInv, LocatedInv
  <1>13. QueueInv(queue', clients)
    BY <1>1, <1>2, QueueWithoutOne DEF LobbyInv
  <1>14. QueueInv(queue, clients)'
    BY <1>9, <1>13 DEF QueueInv
  <1>15. due' \subseteq DOMAIN rooms'
    BY <1>1, <1>7 DEF LobbyInv
  <1> QED BY <1>1, <1>8, <1>10, <1>11, <1>12, <1>14, <1>15 DEF LobbyInv

LEMMA CancelSeekInv ==
    ASSUME LobbyInv, NEW c \in Client, CancelSeek(c)
    PROVE  LobbyInv' /\ RoomsStep(rooms, rooms')
  <1>1. /\ queue' = Cancelled(queue, c)
        /\ conn' = conn /\ clients' = clients /\ rooms' = rooms
        /\ store' = store /\ due' = due
    BY DEF CancelSeek
  <1>2. QueueInv(queue', clients)
    BY <1>1, CancelledInv DEF LobbyInv
  <1> QED BY <1>1, <1>2, UnchangedRoomsStep
       DEF LobbyInv, ClientsInv, RoomsInv, LocatedInv, Gone

LEMMA CommandInv ==
    ASSUME LobbyInv, NEW c \in Client, Command(c)
    PROVE  LobbyInv' /\ RoomsStep(rooms, rooms')
  <1> DEFINE r == clients[c].room
             next == ApplyCommand(rooms[r])
  <1>1. /\ c \in DOMAIN clients /\ r \in Contested
        /\ rooms' = [rooms EXCEPT ![r] = next]
        /\ conn' = conn /\ clients' = clients /\ queue' = queue
        /\ store' = store /\ due' = due
    BY DEF Command
  <1>2. r # NoRoom
    BY <1>1, NoRoomIsNoId, ContestedType
  <1>3. r \in DOMAIN rooms
    BY <1>1, <1>2 DEF LobbyInv, LocatedInv
  <1> HIDE DEF r
  <1>4. /\ RoomsInv(rooms, Gone) /\ RoomInv(rooms[r])
        /\ \A i \in DOMAIN rooms[r].vacancies : rooms[r].vacancies[i].client \in Gone
    BY <1>3 DEF LobbyInv, RoomsInv
  <1>5. /\ RoomInv(next) /\ next.members = rooms[r].members
        /\ next.vacancies = rooms[r].vacancies /\ RoomStep(rooms[r], next)
    BY <1>4, CommandedRoom
  <1> HIDE DEF next
  <1>6. RoomsInv(rooms', Gone) /\ RoomsStep(rooms, rooms')
    BY <1>1, <1>3, <1>4, <1>5, OneRoomInv
  <1>7. LocatedInv(clients, rooms')
    BY <1>1, <1>5 DEF LobbyInv, LocatedInv
  <1> QED BY <1>1, <1>6, <1>7
       DEF LobbyInv, ClientsInv, RoomsInv, LocatedInv, QueueInv, Gone

\* A connection closes: from now on its client may be among the absent.
LEMMA DisconnectInv ==
    ASSUME LobbyInv, NEW c \in Client, Disconnect(c)
    PROVE  LobbyInv' /\ RoomsStep(rooms, rooms')
  <1> DEFINE left == Removed(clients, c)
  <1>1. /\ conn[c] = "Open" /\ conn' = [conn EXCEPT ![c] = "Closed"]
        /\ queue' = Cancelled(queue, c) /\ clients' = left
        /\ store' = store /\ due' = due
        /\ rooms' = IF c \in DOMAIN clients /\ clients[c].room # NoRoom
                    THEN [rooms EXCEPT ![clients[c].room] = HandleDisconnect(@, c)]
                    ELSE rooms
    BY DEF Disconnect, QueueWithout
  <1>2. Gone' = Gone \cup {c} /\ c \notin Gone
    BY <1>1 DEF Gone, LobbyInv, ClientsInv
  <1>3. DOMAIN left = DOMAIN clients \ {c} /\ \A d \in DOMAIN left : left[d] = clients[d]
    BY DEF Removed, Without
  <1> HIDE DEF left
  <1>4. ClientsInv(clients)'
    BY <1>1, <1>3 DEF LobbyInv, ClientsInv
  <1>5. QueueInv(queue', clients) /\ ~IsWaiting(queue', c)
    BY <1>1, CancelledInv DEF LobbyInv
  <1>6. QueueInv(queue, clients)'
    BY <1>1, <1>3, <1>5 DEF QueueInv, IsWaiting
  <1>7. RoomsInv(rooms, Gone \cup {c})
    BY DEF LobbyInv, RoomsInv
  <1>8. CASE c \in DOMAIN clients /\ clients[c].room # NoRoom
    <2> DEFINE r == clients[c].room
               next == HandleDisconnect(rooms[r], c)
    <2>1. r \in DOMAIN rooms
      BY <1>8 DEF LobbyInv, LocatedInv
    <2>2. rooms' = [rooms EXCEPT ![r] = next]
      BY <1>1, <1>8
    <2> HIDE DEF r
    <2>3. /\ RoomInv(rooms[r])
          /\ \A i \in DOMAIN rooms[r].vacancies : rooms[r].vacancies[i].client \in Gone
      BY <2>1 DEF LobbyInv, RoomsInv
    <2>4. IsNoAbsentee(rooms[r], c)
      BY <1>2, <2>3 DEF IsNoAbsentee
    <2>5. /\ RoomInv(next) /\ next.members = rooms[r].members \ {c}
          /\ next.match = rooms[r].match
          /\ \A j \in DOMAIN next.vacancies :
                \/ next.vacancies[j].client = c
                \/ \E i \in DOMAIN rooms[r].vacancies :
                      next.vacancies[j] = rooms[r].vacancies[i]
          /\ SeatsReturn(rooms[r], next) /\ RatingsKept(rooms[r], next)
      BY <2>3, <2>4, HandleDisconnectInv
    <2> HIDE DEF next
    <2>6. RoomStep(rooms[r], next)
      BY <2>5, KeptRatingsStep
    <2>7. \A j \in DOMAIN next.vacancies : next.vacancies[j].client \in Gone \cup {c}
      BY <2>3, <2>5
    <2>8. RoomsInv(rooms', Gone \cup {c}) /\ RoomsStep(rooms, rooms')
      BY <1>7, <2>1, <2>2, <2>5, <2>6, <2>7, OneRoomInv
    <2>9. LocatedInv(clients', rooms')
      BY <1>1, <1>3, <2>2, <2>5 DEF LobbyInv, LocatedInv
    <2>10. due' \subseteq DOMAIN rooms'
      BY <1>1, <2>2 DEF LobbyInv
    <2> QED BY <1>1, <1>2, <1>4, <1>6, <2>8, <2>9, <2>10
         DEF LobbyInv, RoomsInv, LocatedInv
  <1>9. CASE ~ (c \in DOMAIN clients /\ clients[c].room # NoRoom)
    <2>1. rooms' = rooms
      BY <1>1, <1>9
    <2>2. LocatedInv(clients', rooms')
      BY <1>1, <1>3, <2>1 DEF LobbyInv, LocatedInv
    <2> QED BY <1>1, <1>2, <1>4, <1>6, <1>7, <2>1, <2>2, UnchangedRoomsStep
         DEF LobbyInv, RoomsInv, LocatedInv
  <1> QED BY <1>8, <1>9

LEMMA StartTickInv ==
    ASSUME LobbyInv, StartTick
    PROVE  LobbyInv' /\ RoomsStep(rooms, rooms')
  <1>1. /\ queue' = AfterSearchTick(queue, TickMs) /\ due' = DOMAIN rooms
        /\ conn' = conn /\ clients' = clients /\ rooms' = rooms /\ store' = store
    BY DEF StartTick
  <1>2. QueueInv(queue', clients)
    BY <1>1, SearchTickInv, TickMsType DEF LobbyInv
  <1> QED BY <1>1, <1>2, UnchangedRoomsStep
       DEF LobbyInv, ClientsInv, RoomsInv, LocatedInv, Gone

LEMMA RoomTicksInv ==
    ASSUME LobbyInv, NEW r \in RoomId, RoomTicks(r)
    PROVE  LobbyInv' /\ RoomsStep(rooms, rooms')
  <1> DEFINE s == [room |-> rooms[r], store |-> store]
  <1>1. PICK fallen \in MayFall(rooms[r].match), first \in Color, calm \in BOOLEAN :
           LET next == RoomTick(s, fallen, first, calm, TickMs)
           IN  rooms' = [rooms EXCEPT ![r] = next.room] /\ store' = next.store
    BY DEF RoomTicks
  <1>2. /\ r \in DOMAIN rooms /\ due' = due \ {r}
        /\ conn' = conn /\ clients' = clients /\ queue' = queue
    BY DEF RoomTicks, LobbyInv
  <1>3. /\ RoomsInv(rooms, Gone) /\ RoomInv(rooms[r])
        /\ \A i \in DOMAIN rooms[r].vacancies : rooms[r].vacancies[i].client \in Gone
    BY <1>2 DEF LobbyInv, RoomsInv
  <1>4. IsSession(s) /\ s.room = rooms[r]
    BY <1>3 DEF LobbyInv, IsSession
  <1> HIDE DEF s
  <1> DEFINE next == RoomTick(s, fallen, first, calm, TickMs)
  <1>5. rooms' = [rooms EXCEPT ![r] = next.room] /\ store' = next.store
    BY <1>1
  <1>6. fallen \in MayFall(s.room.match)
    BY <1>4
  <1>7. /\ IsSession(next) /\ next.room.members = s.room.members
        /\ NoNewAbsentee(s.room, next.room)
        /\ next.room.match.over \/ SeatsReturn(s.room, next.room)
        /\ SumKept(s.room, next.room)
        /\ ~s.room.match.over /\ next.room.match.over
           /\ next.room.match.kings # {}
              => RatingsMoved(s.room, next.room)
    <2>1. TickMs \in Nat
      BY TickMsType
    <2> QED BY <1>4, <1>6, <2>1, RoomTickResult
  <1> HIDE DEF next
  <1>8. RatingsExchanged(rooms[r], next.room)
    BY <1>4, <1>7, ExchangedRatings
  <1>9. RoomStep(rooms[r], next.room)
    BY <1>4, <1>7, <1>8 DEF RoomStep
  <1>10. RoomInv(next.room) /\ store' \in [User -> Int]
    BY <1>5, <1>7 DEF IsSession
  <1>11. \A j \in DOMAIN next.room.vacancies : next.room.vacancies[j].client \in Gone
    BY <1>3, <1>4, <1>7 DEF NoNewAbsentee
  <1>12. RoomsInv(rooms', Gone) /\ RoomsStep(rooms, rooms')
    BY <1>2, <1>3, <1>5, <1>9, <1>10, <1>11, OneRoomInv
  <1>13. LocatedInv(clients, rooms')
    BY <1>4, <1>5, <1>7 DEF LobbyInv, LocatedInv
  <1>14. due' \subseteq DOMAIN rooms'
    BY <1>2, <1>5 DEF LobbyInv
  <1> QED BY <1>2, <1>10, <1>12, <1>13, <1>14
       DEF LobbyInv, ClientsInv, RoomsInv, LocatedInv, QueueInv, Gone

LEMMA InitLobbyInv == Init => LobbyInv
  <1> SUFFICES ASSUME Init PROVE LobbyInv
    OBVIOUS
  <1>1. DOMAIN clients = {} /\ DOMAIN rooms = {} /\ DOMAIN queue = {}
    BY DEF Init
  <1>2. queue \in Seq(Seeker)
    BY DEF Init
  <1> QED BY <1>1, <1>2, StartRatingType
       DEF Init, LobbyInv, ClientsInv, RoomsInv, LocatedInv, QueueInv

LEMMA NextLobbyInv ==
    ASSUME LobbyInv, [Next]_vars
    PROVE  LobbyInv' /\ RoomsStep(rooms, rooms')
  <1>1. CASE UNCHANGED vars
    BY <1>1, UnchangedRoomsStep
    DEF vars, LobbyInv, ClientsInv, RoomsInv, LocatedInv, QueueInv, Gone
  <1>2. ASSUME NEW c \in Client, Connect(c)
        PROVE  LobbyInv' /\ RoomsStep(rooms, rooms')
    BY <1>2, ConnectInv
  <1>3. ASSUME NEW c \in Client, SeekAndWait(c)
        PROVE  LobbyInv' /\ RoomsStep(rooms, rooms')
    BY <1>3, SeekAndWaitInv
  <1>4. ASSUME NEW c \in Client, CancelSeek(c)
        PROVE  LobbyInv' /\ RoomsStep(rooms, rooms')
    BY <1>4, CancelSeekInv
  <1>5. ASSUME NEW c \in Client, Command(c)
        PROVE  LobbyInv' /\ RoomsStep(rooms, rooms')
    BY <1>5, CommandInv
  <1>6. ASSUME NEW c \in Client, Disconnect(c)
        PROVE  LobbyInv' /\ RoomsStep(rooms, rooms')
    BY <1>6, DisconnectInv
  <1>7. ASSUME NEW c \in Client, NEW user \in User, Login(c, user)
        PROVE  LobbyInv' /\ RoomsStep(rooms, rooms')
    BY <1>7, LoginInv
  <1>8. ASSUME NEW c \in Client, NEW r \in RoomId, CreateRoom(c, r)
        PROVE  LobbyInv' /\ RoomsStep(rooms, rooms')
    BY <1>8, EnterRoomInv DEF CreateRoom
  <1>9. ASSUME NEW c \in Client, NEW r \in RoomId, JoinRoom(c, r)
        PROVE  LobbyInv' /\ RoomsStep(rooms, rooms')
    BY <1>9, EnterRoomInv DEF JoinRoom
  <1>10. ASSUME NEW c \in Client, NEW r \in RoomId, SeekAndMeet(c, r)
         PROVE  LobbyInv' /\ RoomsStep(rooms, rooms')
    BY <1>10, SeekAndMeetInv
  <1>11. ASSUME StartTick
         PROVE  LobbyInv' /\ RoomsStep(rooms, rooms')
    BY <1>11, StartTickInv
  <1>12. ASSUME NEW r \in RoomId, RoomTicks(r)
         PROVE  LobbyInv' /\ RoomsStep(rooms, rooms')
    BY <1>12, RoomTicksInv
  <1> QED BY <1>1, <1>2, <1>3, <1>4, <1>5, <1>6, <1>7, <1>8, <1>9, <1>10, <1>11, <1>12
       DEF Next, TickStep

-----------------------------------------------------------------------------
LEMMA LobbyInvariant == Spec => []LobbyInv
  <1>1. LobbyInv /\ [Next]_vars => LobbyInv'
    BY NextLobbyInv
  <1> QED BY InitLobbyInv, <1>1, PTL DEF Spec

(***************************************************************************)
(* The records, tables and ratings of the server keep their types.         *)
(***************************************************************************)
THEOREM LobbyTypeCorrect == Spec => []TypeOK
  <1>1. LobbyInv => TypeOK
    BY LobbyInvIsEnough
  <1> QED BY LobbyInvariant, <1>1, PTL

(***************************************************************************)
(* No two clients of a room ever play the same colour (SeatTable, Room),   *)
(* however many join, drop and come back, under however many accounts.     *)
(***************************************************************************)
THEOREM OneClientOnAColor == Spec => []SeatsAreExclusive
  <1>1. LobbyInv => SeatsAreExclusive
    BY LobbyInvIsEnough
  <1> QED BY LobbyInvariant, <1>1, PTL

(***************************************************************************)
(* A seat held open (Room::handleDisconnect) stays in the seat table, with *)
(* its colour and its user, and its connection is gone for good.           *)
(***************************************************************************)
THEOREM AbsentSeatsStayHeld == Spec => []AbsentSeatsAreHeld
  <1>1. LobbyInv => AbsentSeatsAreHeld
    BY LobbyInvIsEnough
  <1> QED BY LobbyInvariant, <1>1, PTL

(***************************************************************************)
(* The room a client is in broadcasts to it, and a room broadcasts only to *)
(* those who are seated.                                                   *)
(***************************************************************************)
THEOREM MembersStaySeated == Spec => []MembersAreSeated
  <1>1. LobbyInv => MembersAreSeated
    BY LobbyInvIsEnough
  <1> QED BY LobbyInvariant, <1>1, PTL

(***************************************************************************)
(* The opponent handleSeek finds in the queue is always logged in: its     *)
(* clients_.at never throws.                                               *)
(***************************************************************************)
THEOREM SearchersStayPresent == Spec => []SearchersArePresent
  <1>1. LobbyInv => SearchersArePresent
    BY LobbyInvIsEnough
  <1> QED BY LobbyInvariant, <1>1, PTL

(***************************************************************************)
(* A seat held in a game that goes on goes only to the user it is held     *)
(* for, on the same colour (Room::addClient, Room::tick).                  *)
(***************************************************************************)
THEOREM HeldSeatsReturn == Spec => HeldSeatsReturnToTheirPlayers
  <1>1. LobbyInv /\ [Next]_vars =>
           \A r \in DOMAIN rooms :
              ~rooms'[r].match.over =>
                  \A v \in Vacancies(r) :
                     \/ \E w \in Vacancies(r)' : w.client = v.client
                     \/ \E c \in Holders(rooms'[r].seats, v.color) :
                           c # v.client /\ rooms'[r].seats[c].user = v.user
    <2> SUFFICES ASSUME LobbyInv, [Next]_vars, NEW r \in DOMAIN rooms,
                        ~rooms'[r].match.over, NEW i \in DOMAIN rooms[r].vacancies
                 PROVE  LET v == rooms[r].vacancies[i]
                        IN  \/ \E w \in Vacancies(r)' : w.client = v.client
                            \/ \E c \in Holders(rooms'[r].seats, v.color) :
                                  c # v.client /\ rooms'[r].seats[c].user = v.user
      BY DEF Vacancies, Range
    <2>1. SeatsReturn(rooms[r], rooms'[r])
      BY NextLobbyInv DEF RoomsStep, RoomStep
    <2>2. Vacancies(r)' = {rooms'[r].vacancies[j] : j \in DOMAIN rooms'[r].vacancies}
      BY DEF Vacancies, Range
    <2> QED BY <2>1, <2>2 DEF SeatsReturn
  <1> QED BY LobbyInvariant, <1>1, PTL DEF Spec, HeldSeatsReturnToTheirPlayers

(***************************************************************************)
(* As long as the same two play, what one of them wins the other loses,    *)
(* and the end of their game costs the loser something unless they were    *)
(* 720 points apart (RatingSettler, GameSession).                          *)
(***************************************************************************)
THEOREM RatingsOnlyChangeHands == Spec => RatingsAreExchanged
  <1>1. LobbyInv /\ [Next]_vars =>
           \A r \in DOMAIN rooms :
              LET now == rooms[r].seats
                  next == rooms'[r].seats
              IN  \A w \in Holders(now, "White") \cap Holders(next, "White"),
                     b \in Holders(now, "Black") \cap Holders(next, "Black") :
                     /\ now[w].rating + now[b].rating = next[w].rating + next[b].rating
                     /\ ~rooms[r].match.over /\ rooms'[r].match.over
                        /\ rooms'[r].match.kings # {}
                        /\ now[w].rating - now[b].rating \in -719 .. 719
                        => now[w].rating # next[w].rating
    <2> SUFFICES ASSUME LobbyInv, [Next]_vars, NEW r \in DOMAIN rooms
                 PROVE  RatingsExchanged(rooms[r], rooms'[r])
      BY Zenon DEF RatingsExchanged
    <2> QED BY NextLobbyInv DEF RoomsStep, RoomStep
  <1> QED BY LobbyInvariant, <1>1, PTL DEF Spec, RatingsAreExchanged

=============================================================================
