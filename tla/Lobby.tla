------------------------------- MODULE Lobby -------------------------------
(***************************************************************************)
(* The server: RoomManager over the connections of a WebSocketServer, with *)
(* its rooms, its Play queue and the account store.                        *)
(*                                                                         *)
(* The main loop is one thread: poll() runs the handlers of what arrived,  *)
(* an action each, and then manager.tick() runs, StartTick followed by a   *)
(* RoomTicks for every room.  The rooms are ticked in the order of their   *)
(* ids, which are random: any order.  A request that is refused (not       *)
(* logged in, unknown room, wrong password, out of place) changes nothing  *)
(* and is not a step.  Time is counted in ticks of TickMs.                 *)
(***************************************************************************)
EXTENDS Room

CONSTANTS
    RoomId,       \* the ids rooms get: a bound on the rooms created
    Contested,    \* a bound: the rooms in which anybody ever moves
    NoRoom,       \* not an id: the client is at Home
    StartRating,  \* the ratings in the account store to begin with
    SearchMs,     \* matchmakingTimeoutMs
    TickMs,       \* the length of a tick
    Relogins      \* may a connection log in a second time?

ASSUME ContestedType == Contested \subseteq RoomId
ASSUME NoRoomIsNoId == NoRoom \notin RoomId
ASSUME StartRatingType == StartRating \in [User -> Int]
ASSUME SearchMsType == SearchMs \in Nat \ {0}
ASSUME TickMsType == TickMs \in Nat \ {0}
ASSUME ReloginsType == Relogins \in BOOLEAN

INSTANCE Matchmaker

VARIABLES
    conn,     \* each connection: New, Open or Closed
    clients,  \* clients_: what is known of each client that has logged in
    rooms,    \* rooms_: every room ever created, by id
    queue,    \* Matchmaker::queue_
    store,    \* the account store: the rating of each user
    due       \* the rooms the present tick has still to tick

vars == <<conn, clients, rooms, queue, store, due>>

ClientRecord == [user : User, rating : Int, room : RoomId \cup {NoRoom}]

TypeOK ==
    /\ conn \in [Client -> {"New", "Open", "Closed"}]
    /\ DOMAIN clients \subseteq {c \in Client : conn[c] = "Open"}
    /\ \A c \in DOMAIN clients : clients[c] \in ClientRecord
    /\ DOMAIN rooms \subseteq RoomId
    /\ \A r \in DOMAIN rooms : IsRoom(rooms[r])
    /\ queue \in Seq(Seeker)
    /\ store \in [User -> Int]
    /\ due \subseteq DOMAIN rooms

Init ==
    /\ conn = [c \in Client |-> "New"]
    /\ clients = << >>
    /\ rooms = << >>
    /\ queue = << >>
    /\ store = StartRating
    /\ due = {}

Busy == due # {}

-----------------------------------------------------------------------------
(***************************************************************************)
(* Connections and Home.                                                   *)
(***************************************************************************)
Connect(c) ==
    /\ ~Busy
    /\ conn[c] = "New"
    /\ conn' = [conn EXCEPT ![c] = "Open"]
    /\ UNCHANGED <<clients, rooms, queue, store, due>>

\* The right password for an account of the store.  Whatever the lobby knew of
\* the client, its room included, is replaced.
Login(c, user) ==
    /\ ~Busy
    /\ conn[c] = "Open"
    /\ c \in DOMAIN clients => Relogins
    /\ clients' = Extended(clients, c,
                     [user |-> user, rating |-> store[user], room |-> NoRoom])
    /\ UNCHANGED <<conn, rooms, queue, store, due>>

NewId(r) == r \in RoomId \ DOMAIN rooms

\* enterRoom: the room a client was in before is told nothing.
Entered(all, c, r) ==
    LET room == IF r \in DOMAIN all THEN all[r] ELSE NewRoom
    IN  Extended(all, r, AddClient(room, c, clients[c].user, clients[c].rating))

Located(cs, r) ==
    [c \in DOMAIN clients |->
        IF c \in cs THEN [clients[c] EXCEPT !.room = r] ELSE clients[c]]

EnterRoom(c, r) ==
    /\ clients' = Located({c}, r)
    /\ rooms' = Entered(rooms, c, r)

CreateRoom(c, r) ==
    /\ ~Busy
    /\ c \in DOMAIN clients
    /\ NewId(r)
    /\ EnterRoom(c, r)
    /\ UNCHANGED <<conn, queue, store, due>>

JoinRoom(c, r) ==
    /\ ~Busy
    /\ c \in DOMAIN clients
    /\ r \in DOMAIN rooms
    /\ EnterRoom(c, r)
    /\ UNCHANGED <<conn, queue, store, due>>

\* Play: wait for an opponent,
SeekAndWait(c) ==
    /\ ~Busy
    /\ c \in DOMAIN clients
    /\ ~IsWaiting(queue, c)
    /\ OpponentAt(queue, clients[c].rating) = 0
    /\ queue' = Queued(queue, c, clients[c].rating)
    /\ UNCHANGED <<conn, clients, rooms, store, due>>

\* or meet the first that suits in a new room, which that one enters first.
SeekAndMeet(c, r) ==
    LET i == OpponentAt(queue, clients[c].rating)
        first == queue[i].client
    IN  /\ ~Busy
        /\ c \in DOMAIN clients
        /\ ~IsWaiting(queue, c)
        /\ i # 0
        /\ NewId(r)
        /\ clients' = Located({first, c}, r)
        /\ rooms' = Entered(Entered(rooms, first, r), c, r)
        /\ queue' = RemoveAt(queue, i)
        /\ UNCHANGED <<conn, store, due>>

CancelSeek(c) ==
    /\ ~Busy
    /\ c \in DOMAIN clients
    /\ IsWaiting(queue, c)
    /\ queue' = Cancelled(queue, c)
    /\ UNCHANGED <<conn, clients, rooms, store, due>>

-----------------------------------------------------------------------------
(***************************************************************************)
(* Rooms.                                                                  *)
(***************************************************************************)
\* A command the engine accepts, to the room the client is in.
Command(c) ==
    LET r == clients[c].room
    IN  /\ ~Busy
        /\ c \in DOMAIN clients
        /\ r \in Contested
        /\ MayCommand(rooms[r], c)
        /\ rooms' = [rooms EXCEPT ![r] = ApplyCommand(@)]
        /\ UNCHANGED <<conn, clients, queue, store, due>>

\* Mutant: a search goes on after its client has gone.
QueueKept(q, c) == q

QueueWithout(q, c) == Cancelled(q, c)

Disconnect(c) ==
    /\ ~Busy
    /\ conn[c] = "Open"
    /\ conn' = [conn EXCEPT ![c] = "Closed"]
    /\ queue' = QueueWithout(queue, c)
    /\ rooms' = IF c \in DOMAIN clients /\ clients[c].room # NoRoom
                THEN [rooms EXCEPT ![clients[c].room] = HandleDisconnect(@, c)]
                ELSE rooms
    /\ clients' = Removed(clients, c)
    /\ UNCHANGED <<store, due>>

-----------------------------------------------------------------------------
(***************************************************************************)
(* tick(ms).                                                               *)
(***************************************************************************)
StartTick ==
    /\ ~Busy
    /\ queue' = AfterSearchTick(queue, TickMs)
    /\ due' = DOMAIN rooms
    /\ UNCHANGED <<conn, clients, rooms, store>>

RoomTicks(r) ==
    /\ r \in due
    /\ \E fallen \in MayFall(rooms[r].match), first \in Color, calm \in BOOLEAN :
          LET s == RoomTick([room |-> rooms[r], store |-> store],
                            fallen, first, calm, TickMs)
          IN  /\ rooms' = [rooms EXCEPT ![r] = s.room]
              /\ store' = s.store
    /\ due' = due \ {r}
    /\ UNCHANGED <<conn, clients, queue>>

TickStep == StartTick \/ \E r \in RoomId : RoomTicks(r)

Next ==
    \/ \E c \in Client :
          \/ Connect(c) \/ SeekAndWait(c) \/ CancelSeek(c)
          \/ Command(c) \/ Disconnect(c)
          \/ \E user \in User : Login(c, user)
          \/ \E r \in RoomId : CreateRoom(c, r) \/ JoinRoom(c, r) \/ SeekAndMeet(c, r)
    \/ TickStep

Spec == Init /\ [][Next]_vars

\* The main loop ticks for as long as the program runs: it begins a tick
\* whenever none is under way, and comes to every room.  (Only the tick of a
\* room takes it out of due, and it always can.)
RoomsGoOn == \E r \in due : due' = due \ {r}

FairSpec == Spec /\ WF_vars(StartTick) /\ WF_due(RoomsGoOn)

=============================================================================
