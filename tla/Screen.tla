------------------------------- MODULE Screen -------------------------------
(***************************************************************************)
(* The lobby and one window of it: the Home screen (client/app             *)
(* LobbyController), the lobby's half of RemoteGame and the socket under   *)
(* it (client/net), against the server of Lobby.                           *)
(*                                                                         *)
(* The messages of either direction arrive in order, at any time, unless   *)
(* the connection closes.  The other clients are connections of Lobby that *)
(* may do all a connection can, commands that take a king included.  The   *)
(* window's own commands are the subject of Play and left out here; so is  *)
(* what a game broadcasts.  A request the server refuses is answered here; *)
(* status lines are wording and left out.  A tick stands for a second of   *)
(* the countdown, whose number changes with each.                          *)
(***************************************************************************)
EXTENDS LobbyProperties

CONSTANTS
    Me,          \* the window's connection
    MyUser,      \* and the name it logs in with
    UnknownId,   \* text in the room-id box that is no room's id
    MaxUp,       \* bounds: the requests on their way, and the messages on
    MaxDown      \* theirs when the server acts

ASSUME MeType == Me \in Client /\ MyUser \in User
ASSUME UnknownIdIsNoId == UnknownId \notin RoomId \cup {NoRoom}
ASSUME ScreenBoundsType == MaxUp \in Nat /\ MaxDown \in Nat

VARIABLES
    socket,      \* WebSocketClient: Connecting, Open or Closed; Quit when
                 \* the program has ended
    up,          \* requests on their way to the server
    down,        \* messages on their way to the window
    searching,   \* RemoteGame::searching_
    shownRoom,   \* RemoteGame::roomId_, NoRoom while inGame_ is false
    countdown,   \* RemoteGame::opponentCountdown_, at most one number
    ownColors,   \* RemoteGame::ownColors_
    shownRoster, \* RemoteGame: the names and ratings of the players
    dialogOpen,  \* LobbyController::dialogOpen_
    lost         \* history: a search was asked for before there was a connection

windowVars ==
    <<searching, shownRoom, countdown, ownColors, shownRoster, dialogOpen, lost>>

\* The player of each seat as a window is told of it, if there is one.
NoRoster == [color \in Color |-> {}]

RosterOf(seats) ==
    [color \in Color |->
        {[user |-> seats[c].user, rating |-> seats[c].rating] :
            c \in Holders(seats, color)}]

screenVars == <<vars, socket, up, down, windowVars>>

ScreenInit ==
    /\ Init
    /\ socket = "Connecting"
    /\ up = << >>
    /\ down = << >>
    /\ searching = FALSE
    /\ shownRoom = NoRoom
    /\ countdown = {}
    /\ ownColors = {}
    /\ shownRoster = NoRoster
    /\ dialogOpen = FALSE
    /\ lost = FALSE

-----------------------------------------------------------------------------
(***************************************************************************)
(* The socket.  The login goes out as it opens.  What was sent before it   *)
(* closes arrives before, or not at all: a window without a connection     *)
(* cannot tell the difference.                                             *)
(***************************************************************************)
Open ==
    /\ socket = "Connecting"
    /\ Connect(Me)
    /\ socket' = "Open"
    /\ up' = << [tag |-> "LOGIN"] >>
    /\ UNCHANGED <<down, windowVars>>

Close ==
    /\ socket = "Open"
    /\ socket' = "Closed"
    /\ up' = << >>
    /\ down' = << >>
    /\ UNCHANGED <<vars, windowVars>>

\* "Not connected yet: drop."
Send(request) ==
    /\ Len(up) < MaxUp
    /\ up' = IF socket = "Open" THEN Append(up, request) ELSE up

-----------------------------------------------------------------------------
(***************************************************************************)
(* The Home screen: what a click on each of its buttons does.  The text in *)
(* the box is whatever has been typed since the dialog was opened.         *)
(***************************************************************************)
AtHome == socket # "Quit" /\ shownRoom = NoRoom

ClickPlay ==
    /\ AtHome /\ ~dialogOpen
    /\ Send([tag |-> "SEEK"])
    /\ searching' = TRUE
    /\ lost' = (lost \/ socket = "Connecting")
    /\ UNCHANGED <<vars, socket, down, shownRoom, countdown, ownColors,
                   shownRoster, dialogOpen>>

OpenRoomDialog ==
    /\ AtHome /\ ~dialogOpen
    /\ dialogOpen' = TRUE
    /\ UNCHANGED <<vars, socket, up, down, searching, shownRoom, countdown,
                   ownColors, shownRoster, lost>>

CloseDialog ==
    /\ AtHome /\ dialogOpen
    /\ dialogOpen' = FALSE
    /\ UNCHANGED <<vars, socket, down, shownRoom, countdown, ownColors,
                   shownRoster, lost>>

ClickCreate ==
    /\ CloseDialog
    /\ Send([tag |-> "CREATE"])
    /\ UNCHANGED searching

\* No text, no request.
ClickJoin(text) ==
    /\ CloseDialog
    /\ IF text = {} THEN UNCHANGED up
       ELSE Send([tag |-> "JOIN", room |-> CHOOSE r \in text : TRUE])
    /\ UNCHANGED searching

\* Cancel also ends a search, if there is one to be seen.
ClickCancel ==
    /\ CloseDialog
    /\ IF searching THEN Send([tag |-> "CANCEL"]) ELSE UNCHANGED up
    /\ searching' = FALSE

Texts == {{}} \cup {{r} : r \in RoomId \cup {UnknownId}}

Click ==
    \/ ClickPlay \/ OpenRoomDialog \/ ClickCreate \/ ClickCancel
    \/ \E text \in Texts : ClickJoin(text)

-----------------------------------------------------------------------------
(***************************************************************************)
(* RemoteGame::receive.  A refused login ends the program.                 *)
(***************************************************************************)
SearchingAfter(message) ==
    searching /\ message.tag \notin {"ROOM", "NOMATCH", "ROOMERR"}

RoomAfter(message) == IF message.tag = "ROOM" THEN message.room ELSE shownRoom

\* Mutant: the opponent's return is not looked at.
CountdownKept(message) ==
    IF message.tag = "OPPGONE" THEN {message.seconds} ELSE countdown

CountdownAfter(message) ==
    CASE message.tag = "OPPGONE" -> {message.seconds}
      [] message.tag = "OPPBACK" -> {}
      [] OTHER -> countdown

OwnColorsAfter(message) ==
    IF message.tag = "ROLE" THEN ownColors \cup ({message.color} \cap Color)
    ELSE ownColors

RosterAfter(message) == IF message.tag = "ROSTER" THEN message.roster ELSE shownRoster

Receive ==
    LET message == Head(down)
    IN  /\ down # << >>
        /\ socket' = IF message.tag = "AUTHFAIL" THEN "Quit" ELSE socket
        /\ down' = IF message.tag = "AUTHFAIL" THEN << >> ELSE Tail(down)
        /\ up' = IF message.tag = "AUTHFAIL" THEN << >> ELSE up
        /\ searching' = SearchingAfter(message)
        /\ shownRoom' = RoomAfter(message)
        /\ countdown' = CountdownAfter(message)
        /\ ownColors' = OwnColorsAfter(message)
        /\ shownRoster' = RosterAfter(message)
        /\ UNCHANGED <<vars, dialogOpen, lost>>

-----------------------------------------------------------------------------
(***************************************************************************)
(* What the server tells the window.                                       *)
(***************************************************************************)
Tell(messages) ==
    /\ Len(down) < MaxDown
    /\ down' = IF socket = "Open" THEN down \o messages ELSE down

\* A message to one client, and to the members of a room.
To(c, message) == IF c = Me THEN <<message>> ELSE << >>

ToAll(members, message) == IF Me \in members THEN <<message>> ELSE << >>

RoomError == [tag |-> "ROOMERR"]

RosterMessage(room) == [tag |-> "ROSTER", roster |-> RosterOf(room.seats)]

\* Mutant: a player who comes back is not told the colour.
RoleOfNewcomer(c, before, after) ==
    IF HeldFor(before.vacancies, clients[c].user) # 0 THEN << >>
    ELSE To(c, [tag |-> "ROLE", color |-> after.seats[c].color])

RoleOf(c, before, after) == To(c, [tag |-> "ROLE", color |-> after.seats[c].color])

\* c enters r, which makes the room before into the room after.  A player who
\* comes back to a held seat becomes a member after the roster has gone out.
EntryMessages(c, r, before, after) ==
    LET isBack == HeldFor(before.vacancies, clients[c].user) # 0
    IN  RoleOf(c, before, after)
        \o ToAll(IF isBack THEN before.members ELSE after.members,
                 RosterMessage(after))
        \o (IF isBack THEN ToAll(after.members, [tag |-> "OPPBACK"]) ELSE << >>)
        \o To(c, [tag |-> "ROOM", room |-> r])

Create(c) ==
    \E r \in RoomId :
        CreateRoom(c, r) /\ Tell(EntryMessages(c, r, NewRoom, rooms'[r]))

JoinAt(c, r) == JoinRoom(c, r) /\ Tell(EntryMessages(c, r, rooms[r], rooms'[r]))

\* Mutant: only the one who asked is told.
AskersMessages(first, c, r) == EntryMessages(c, r, NewRoom, rooms'[r])

\* The one who waited enters the new room first.
MeetingMessages(first, c, r) ==
    LET half == AddClient(NewRoom, first, clients[first].user, clients[first].rating)
    IN  EntryMessages(first, r, NewRoom, half) \o EntryMessages(c, r, half, rooms'[r])

Meet(c) ==
    \E r \in RoomId :
        /\ SeekAndMeet(c, r)
        /\ Tell(MeetingMessages(
                    queue[OpponentAt(queue, clients[c].rating)].client, c, r))

(***************************************************************************)
(* The window's requests, the refused ones included.                       *)
(***************************************************************************)
HandleLogin ==
    \/ Login(Me, MyUser) /\ UNCHANGED down
    \/ UNCHANGED vars /\ Tell(<< [tag |-> "AUTHFAIL"] >>)

Refused == UNCHANGED vars /\ Tell(<<RoomError>>)

HandleSeek ==
    \/ Me \notin DOMAIN clients /\ Refused
    \/ SeekAndWait(Me) /\ UNCHANGED down
    \/ Meet(Me)
    \/ IsWaiting(queue, Me) /\ UNCHANGED <<vars, down>>

HandleCancel ==
    /\ IF IsWaiting(queue, Me) THEN CancelSeek(Me) ELSE UNCHANGED vars
    /\ UNCHANGED down

HandleCreate ==
    \/ Me \notin DOMAIN clients /\ Refused
    \/ Create(Me)

HandleJoin(r) ==
    \/ (Me \notin DOMAIN clients \/ r \notin DOMAIN rooms) /\ Refused
    \/ JoinAt(Me, r)

Handle(request) ==
    CASE request.tag = "LOGIN"  -> HandleLogin
      [] request.tag = "SEEK"   -> HandleSeek
      [] request.tag = "CANCEL" -> HandleCancel
      [] request.tag = "CREATE" -> HandleCreate
      [] request.tag = "JOIN"   -> HandleJoin(request.room)

HandleRequest ==
    /\ ~Busy
    /\ up # << >>
    /\ up' = Tail(up)
    /\ UNCHANGED <<socket, windowVars>>
    /\ Handle(Head(up))

NoticeClose ==
    /\ socket \in {"Closed", "Quit"}
    /\ Disconnect(Me)
    /\ UNCHANGED <<socket, up, down, windowVars>>

(***************************************************************************)
(* The other connections.  A command tells the lobby's screens nothing:    *)
(* what it sets travelling may take a king in a later tick.                *)
(***************************************************************************)
OthersAct(c) ==
    /\ \/ \/ Connect(c) \/ Disconnect(c) \/ SeekAndWait(c) \/ CancelSeek(c)
          \/ Command(c)
          \/ \E user \in User : Login(c, user)
          /\ UNCHANGED down
       \/ Create(c) \/ Meet(c) \/ \E r \in RoomId : JoinAt(c, r)
    /\ UNCHANGED <<socket, up, windowVars>>

(***************************************************************************)
(* Ticks.  A search that has run out is told so; a room tells its members  *)
(* the ratings a king's fall or a forfeit has settled -- of two kings that *)
(* fall in one tick, those settled last -- and counts the absent players   *)
(* down, whether the game is over or not.                                  *)
(***************************************************************************)
\* Mutant: a search that has run out is told to nobody.
EndsInSilence == << >>

EndedSearch ==
    IF IsWaiting(queue, Me) /\ ~IsWaiting(queue', Me)
    THEN << [tag |-> "NOMATCH"] >> ELSE << >>

\* RatingSettler::settle in the tick that makes the room before into after:
\* a king has fallen or a player forfeits, and there is a pair to rate.
Settles(before, after) ==
    /\ \A color \in Color : Holders(before.seats, color) # {}
    /\ \/ after.match.kings # before.match.kings
       \/ after.match.over # before.match.over

\* Mutant: nobody is told the new ratings.
NoNewRatings(r) == << >>

NewRatingsMessages(r) ==
    IF Settles(rooms[r], rooms'[r])
    THEN ToAll(rooms[r].members, RosterMessage(rooms'[r])) ELSE << >>

CountdownMessages(r) ==
    IF Me \in rooms[r].members
    THEN [i \in DOMAIN rooms'[r].vacancies |->
             [tag |-> "OPPGONE", seconds |-> rooms'[r].vacancies[i].grace]]
    ELSE << >>

SearchTick ==
    /\ StartTick
    /\ Tell(EndedSearch)
    /\ UNCHANGED <<socket, up, windowVars>>

RoomTickStep(r) ==
    /\ RoomTicks(r)
    /\ Tell(NewRatingsMessages(r) \o CountdownMessages(r))
    /\ UNCHANGED <<socket, up, windowVars>>

\* The same, as far as due goes: nothing but a room's tick takes it out.
RoomsAreTicked ==
    /\ Len(down) < MaxDown
    /\ \E r \in due : due' = due \ {r}

ScreenNext ==
    \/ Open \/ Close \/ Click \/ Receive
    \/ HandleRequest \/ NoticeClose
    \/ \E c \in Client \ {Me} : OthersAct(c)
    \/ SearchTick
    \/ \E r \in RoomId : RoomTickStep(r)

ScreenSpec == ScreenInit /\ [][ScreenNext]_screenVars

(***************************************************************************)
(* The window's loop polls for as long as it runs, and so does the         *)
(* server's: poll() hands over all that has arrived, then it ticks.  A     *)
(* request and a tick wait for each other and for room in down, so the     *)
(* fairness of either is strong.                                           *)
(***************************************************************************)
FairScreenSpec ==
    /\ ScreenSpec
    /\ SF_screenVars(SearchTick)
    /\ SF_due(RoomsAreTicked)
    /\ SF_screenVars(HandleRequest)
    /\ WF_screenVars(Receive)

-----------------------------------------------------------------------------
\* Nothing is on its way between the server and the window.
AllHasArrived == socket = "Open" /\ up = << >> /\ down = << >> /\ ~Busy

MyRooms == {r \in DOMAIN rooms : Me \in rooms[r].members}

(***************************************************************************)
(* The window is in the room the server has it in, whoever asked for it:   *)
(* itself, or an opponent that met it while it searched.                   *)
(***************************************************************************)
RoomIsShown ==
    AllHasArrived /\ Me \in DOMAIN clients => shownRoom = clients[Me].room

(***************************************************************************)
(* A player may play: the gate of RemoteGame, which lets no command of     *)
(* another colour out, knows the colour of the seat, also of one that was  *)
(* held for the player's return.                                           *)
(***************************************************************************)
PlayersMayPlay ==
    AllHasArrived =>
        \A r \in MyRooms : rooms[r].seats[Me].color \in ownColors \cup {Spectator}

(***************************************************************************)
(* "Seconds until an absent opponent forfeits, while one is disconnected"  *)
(* (RemoteGame): while a countdown is shown somebody's seat is held open   *)
(* in a room of the window, or a game there has ended: nothing takes the   *)
(* countdown away after a forfeit.                                         *)
(***************************************************************************)
NoFalseCountdown ==
    AllHasArrived /\ countdown # {} =>
        \E r \in MyRooms : rooms[r].vacancies # << >> \/ rooms[r].match.over

\* Where the bound on rooms, which the server has not, stops it.
IdsAreUsedUp ==
    /\ RoomId \subseteq DOMAIN rooms
    /\ up # << >>
    /\ Head(up).tag \in {"SEEK", "CREATE"}

(***************************************************************************)
(* A search that was asked for over a connection ends on the screen: in a  *)
(* room, in "Couldn't find a match", in an error, or with the connection.  *)
(* A request that is ignored because an earlier one is still queued, or an *)
(* answer to a search that was cancelled meanwhile, leaves none behind.    *)
(***************************************************************************)
SearchesEndOnScreen ==
    searching /\ socket = "Open" /\ ~lost
        ~> ~searching \/ socket # "Open" \/ IdsAreUsedUp

(***************************************************************************)
(* The names and ratings beside the board are those of the players of the  *)
(* room, changed seats and settled ratings included, or the window has     *)
(* come back to a held seat and been told none yet.  A window in two rooms *)
(* is told of both.                                                        *)
(***************************************************************************)
RosterIsTrue ==
    AllHasArrived /\ Me \in DOMAIN clients =>
        \A r \in RoomId :
            clients[Me].room = r /\ MyRooms = {r} =>
                \/ shownRoster = RosterOf(rooms[r].seats)
                \/ /\ shownRoster = NoRoster
                   /\ \E c \in Client \ {Me} : conn[c] = "Closed"

=============================================================================
