---------------------------- MODULE ScreenProofs ----------------------------
(***************************************************************************)
(* The lobby with a window on it, for any number of connections, rooms and *)
(* accounts and queues of any length: the server keeps to Lobby, and what  *)
(* the window shows is right once all that is on its way has arrived.      *)
(*                                                                         *)
(* The properties of Screen speak of the moments in which nothing is on    *)
(* its way.  The invariant speaks of every moment: of what the window will *)
(* show when it has read all it has been sent by then.                     *)
(***************************************************************************)
EXTENDS Screen, LobbyProofs

-----------------------------------------------------------------------------
(***************************************************************************)
(* What is shown after the messages of d, if v was shown before: the last  *)
(* message of a kind decides.                                              *)
(***************************************************************************)
Heard(d, tags) == \E i \in DOMAIN d : d[i].tag \in tags

LastAt(d, tags) ==
    CHOOSE i \in DOMAIN d :
        d[i].tag \in tags /\ \A j \in DOMAIN d : j > i => d[j].tag \notin tags

Latest(d, tags) == d[LastAt(d, tags)]

CountdownTags == {"OPPGONE", "OPPBACK"}

CountdownOf(message) == IF message.tag = "OPPGONE" THEN {message.seconds} ELSE {}

RolesIn(d) == {d[i].color : i \in {k \in DOMAIN d : d[k].tag = "ROLE"}}

Told(d, v) ==
    [room      |-> IF Heard(d, {"ROOM"}) THEN Latest(d, {"ROOM"}).room ELSE v.room,
     countdown |-> IF Heard(d, CountdownTags) THEN CountdownOf(Latest(d, CountdownTags))
                   ELSE v.countdown,
     colors    |-> v.colors \cup (RolesIn(d) \cap Color),
     roster    |-> IF Heard(d, {"ROSTER"}) THEN Latest(d, {"ROSTER"}).roster ELSE v.roster]

Shown == [room |-> shownRoom, countdown |-> countdown,
          colors |-> ownColors, roster |-> shownRoster]

(***************************************************************************)
(* What is right about a view v when known, all and gone are the server's  *)
(* clients, rooms and closed connections.                                  *)
(***************************************************************************)
Mine(all) == {r \in DOMAIN all : Me \in all[r].members}

MyRoom(known) == IF Me \in DOMAIN known THEN known[Me].room ELSE NoRoom

Awaited(room) == room.vacancies # << >> \/ room.match.over

RoomsAreTold(v, all, gone) ==
    /\ \A r \in Mine(all) : all[r].seats[Me].color \in v.colors \cup {Spectator}
    /\ v.countdown # {} => \E r \in Mine(all) : Awaited(all[r])
    /\ Mine(all) = {} => v.roster = NoRoster
    /\ \A r \in DOMAIN all : Mine(all) = {r} =>
          v.roster = RosterOf(all[r].seats) \/ (v.roster = NoRoster /\ gone # {})

ViewInv(v, known, all, gone) == v.room = MyRoom(known) /\ RoomsAreTold(v, all, gone)

\* A window that has not connected yet is known to nobody.
IsUnknown == conn[Me] = "New" /\ Mine(rooms) = {} /\ up = << >> /\ down = << >>

ShowsNothing ==
    shownRoom = NoRoom /\ countdown = {} /\ shownRoster = NoRoster

Request ==
    [tag : {"LOGIN", "SEEK", "CANCEL", "CREATE"}]
        \cup [tag : {"JOIN"}, room : RoomId \cup {UnknownId}]

\* The login goes out once, and before anything else.
LoginIsFirst ==
    \A i \in DOMAIN up : up[i].tag = "LOGIN" => i = 1 /\ Me \notin DOMAIN clients

ScreenInv ==
    /\ LobbyInv
    /\ up \in Seq(Request) /\ LoginIsFirst
    /\ up # << >> => socket = "Open"
    /\ \E S : down \in Seq(S)
    /\ socket = "Connecting" => IsUnknown /\ ShowsNothing
    /\ socket = "Open" => /\ conn[Me] = "Open"
                          /\ ViewInv(Told(down, Shown), clients, rooms, Gone)

-----------------------------------------------------------------------------
(***************************************************************************)
(* Messages, one after the other.                                          *)
(***************************************************************************)
LEMMA LastIsFound ==
    ASSUME NEW S, NEW d \in Seq(S), NEW tags, Heard(d, tags)
    PROVE  /\ LastAt(d, tags) \in DOMAIN d
           /\ d[LastAt(d, tags)].tag \in tags
           /\ \A j \in DOMAIN d : j > LastAt(d, tags) => d[j].tag \notin tags
  <1> DEFINE n == Len(d)
             I == {i \in DOMAIN d : d[i].tag \in tags}
             back == {n - i : i \in I}
  <1>1. n \in Nat /\ DOMAIN d = 1 .. n
    OBVIOUS
  <1> HIDE DEF n
  <1>2. I \subseteq 1 .. n /\ I # {}
    BY <1>1 DEF Heard
  <1>3. back \subseteq Nat /\ back # {}
    BY <1>1, <1>2
  <1>4. PICK b \in back : \A m \in back : b <= m
    BY <1>3, Least
  <1>5. PICK i \in I : b = n - i
    OBVIOUS
  <1>6. \A j \in I : j <= i
    <2> TAKE j \in I
    <2>1. n - i <= n - j
      BY <1>4, <1>5
    <2> QED BY <1>1, <1>2, <2>1
  <1>7. i \in DOMAIN d /\ d[i].tag \in tags /\ \A j \in DOMAIN d : j > i => d[j].tag \notin tags
    BY <1>1, <1>2, <1>6
  <1> HIDE DEF I, back
  <1> QED BY <1>7 DEF LastAt

LEMMA LatestIs ==
    ASSUME NEW S, NEW d \in Seq(S), NEW tags, NEW i \in DOMAIN d, d[i].tag \in tags,
           \A j \in DOMAIN d : j > i => d[j].tag \notin tags
    PROVE  Heard(d, tags) /\ Latest(d, tags) = d[i]
  <1>1. Heard(d, tags)
    BY DEF Heard
  <1> DEFINE k == LastAt(d, tags)
  <1>2. /\ k \in DOMAIN d /\ d[k].tag \in tags
        /\ \A j \in DOMAIN d : j > k => d[j].tag \notin tags
    BY <1>1, LastIsFound
  <1> HIDE DEF k
  <1>3. ~(i > k) /\ ~(k > i)
    BY <1>2
  <1>4. i \in Nat /\ k \in Nat
    BY <1>2
  <1>5. i = k
    BY <1>3, <1>4
  <1> QED BY <1>1, <1>5 DEF Latest, k

LEMMA ConcatHeard ==
    ASSUME NEW S, NEW a \in Seq(S), NEW b \in Seq(S), NEW tags
    PROVE  /\ Heard(a \o b, tags) <=> Heard(a, tags) \/ Heard(b, tags)
           /\ Heard(b, tags) => Latest(a \o b, tags) = Latest(b, tags)
           /\ ~Heard(b, tags) /\ Heard(a, tags) => Latest(a \o b, tags) = Latest(a, tags)
  <1> DEFINE ab == a \o b
  <1>1. /\ ab \in Seq(S) /\ Len(ab) = Len(a) + Len(b)
        /\ \A i \in 1 .. Len(a) + Len(b) :
              ab[i] = IF i <= Len(a) THEN a[i] ELSE b[i - Len(a)]
    BY ConcatFacts
  <1>2. /\ Len(a) \in Nat /\ DOMAIN a = 1 .. Len(a)
        /\ Len(b) \in Nat /\ DOMAIN b = 1 .. Len(b)
    OBVIOUS
  <1> HIDE DEF ab
  <1>3. DOMAIN ab = 1 .. Len(a) + Len(b)
    BY <1>1
  <1>4. \A i \in DOMAIN a : i \in DOMAIN ab /\ ab[i] = a[i]
    BY <1>1, <1>2, <1>3
  <1>5. \A i \in DOMAIN b : Len(a) + i \in DOMAIN ab /\ ab[Len(a) + i] = b[i]
    BY <1>1, <1>2, <1>3
  <1>6. \A i \in DOMAIN ab : \/ i \in DOMAIN a /\ ab[i] = a[i]
                             \/ i - Len(a) \in DOMAIN b /\ ab[i] = b[i - Len(a)]
    BY <1>1, <1>2, <1>3
  <1>7. Heard(ab, tags) <=> Heard(a, tags) \/ Heard(b, tags)
    BY <1>4, <1>5, <1>6 DEF Heard
  <1>8. ASSUME Heard(b, tags)
        PROVE  Latest(ab, tags) = Latest(b, tags)
    <2> DEFINE k == LastAt(b, tags)
    <2>1. /\ k \in DOMAIN b /\ b[k].tag \in tags
          /\ \A j \in DOMAIN b : j > k => b[j].tag \notin tags
      BY <1>8, LastIsFound
    <2>2. Latest(b, tags) = b[k]
      BY DEF Latest
    <2> HIDE DEF k
    <2>3. Len(a) + k \in DOMAIN ab /\ ab[Len(a) + k] = b[k]
      BY <1>5, <2>1
    <2>4. ASSUME NEW j \in DOMAIN ab, j > Len(a) + k
          PROVE  ab[j].tag \notin tags
      <3>1. j \notin DOMAIN a /\ j - Len(a) > k
        BY <1>2, <1>3, <2>1, <2>4
      <3>2. j - Len(a) \in DOMAIN b /\ ab[j] = b[j - Len(a)]
        BY <1>6, <3>1
      <3> QED BY <2>1, <3>1, <3>2
    <2>5. Latest(ab, tags) = ab[Len(a) + k]
      BY <1>1, <2>1, <2>3, <2>4, LatestIs
    <2> QED BY <2>2, <2>3, <2>5
  <1>9. ASSUME ~Heard(b, tags), Heard(a, tags)
        PROVE  Latest(ab, tags) = Latest(a, tags)
    <2> DEFINE k == LastAt(a, tags)
    <2>1. /\ k \in DOMAIN a /\ a[k].tag \in tags
          /\ \A j \in DOMAIN a : j > k => a[j].tag \notin tags
      BY <1>9, LastIsFound
    <2>2. Latest(a, tags) = a[k]
      BY DEF Latest
    <2> HIDE DEF k
    <2>3. \A j \in DOMAIN ab : j > k => ab[j].tag \notin tags
      BY <1>6, <1>9, <2>1 DEF Heard
    <2>4. Latest(ab, tags) = ab[k]
      BY <1>1, <1>4, <2>1, <2>3, LatestIs
    <2> QED BY <1>4, <2>1, <2>2, <2>4
  <1> QED BY <1>7, <1>8, <1>9 DEF ab

LEMMA OneHeard ==
    ASSUME NEW m, NEW tags
    PROVE  /\ << m >> \in Seq({m})
           /\ Heard(<< m >>, tags) <=> m.tag \in tags
           /\ m.tag \in tags => Latest(<< m >>, tags) = m
           /\ RolesIn(<< m >>) = IF m.tag = "ROLE" THEN {m.color} ELSE {}
  <1> DEFINE d == << m >>
  <1>1. d \in Seq({m}) /\ DOMAIN d = {1} /\ d[1] = m
    OBVIOUS
  <1> HIDE DEF d
  <1>2. Heard(d, tags) <=> m.tag \in tags
    BY <1>1 DEF Heard
  <1>3. m.tag \in tags => Latest(d, tags) = m
    BY <1>1, LatestIs
  <1>4. RolesIn(d) = IF m.tag = "ROLE" THEN {m.color} ELSE {}
    BY <1>1 DEF RolesIn
  <1> QED BY <1>1, <1>2, <1>3, <1>4 DEF d

LEMMA RolesInBoth ==
    ASSUME NEW S, NEW a \in Seq(S), NEW b \in Seq(S)
    PROVE  RolesIn(a \o b) = RolesIn(a) \cup RolesIn(b)
  <1> DEFINE ab == a \o b
  <1>1. /\ ab \in Seq(S) /\ Len(ab) = Len(a) + Len(b)
        /\ \A i \in 1 .. Len(a) + Len(b) :
              ab[i] = IF i <= Len(a) THEN a[i] ELSE b[i - Len(a)]
    BY ConcatFacts
  <1>2. /\ Len(a) \in Nat /\ DOMAIN a = 1 .. Len(a)
        /\ Len(b) \in Nat /\ DOMAIN b = 1 .. Len(b)
    OBVIOUS
  <1> HIDE DEF ab
  <1>3. DOMAIN ab = 1 .. Len(a) + Len(b)
    BY <1>1
  <1>4. \A i \in DOMAIN a : i \in DOMAIN ab /\ ab[i] = a[i]
    BY <1>1, <1>2, <1>3
  <1>5. \A i \in DOMAIN b : Len(a) + i \in DOMAIN ab /\ ab[Len(a) + i] = b[i]
    BY <1>1, <1>2, <1>3
  <1>6. \A i \in DOMAIN ab : \/ i \in DOMAIN a /\ ab[i] = a[i]
                             \/ i - Len(a) \in DOMAIN b /\ ab[i] = b[i - Len(a)]
    BY <1>1, <1>2, <1>3
  <1>7. RolesIn(ab) \subseteq RolesIn(a) \cup RolesIn(b)
    BY <1>6 DEF RolesIn
  <1>8. RolesIn(a) \subseteq RolesIn(ab)
    BY <1>4 DEF RolesIn
  <1>9. RolesIn(b) \subseteq RolesIn(ab)
    BY <1>5 DEF RolesIn
  <1> QED BY <1>7, <1>8, <1>9 DEF ab

LEMMA ToldBoth ==
    ASSUME NEW S, NEW a \in Seq(S), NEW b \in Seq(S), NEW v
    PROVE  Told(a \o b, v) = Told(b, Told(a, v))
  <1> DEFINE ab == a \o b
             w == Told(a, v)
  <1>1. \A tags : /\ Heard(ab, tags) <=> Heard(a, tags) \/ Heard(b, tags)
                  /\ Heard(b, tags) => Latest(ab, tags) = Latest(b, tags)
                  /\ ~Heard(b, tags) /\ Heard(a, tags) => Latest(ab, tags) = Latest(a, tags)
    BY ConcatHeard
  <1>2. RolesIn(ab) = RolesIn(a) \cup RolesIn(b)
    BY RolesInBoth
  <1> HIDE DEF ab
  <1>3. /\ w.room = IF Heard(a, {"ROOM"}) THEN Latest(a, {"ROOM"}).room ELSE v.room
        /\ w.countdown = IF Heard(a, CountdownTags)
                         THEN CountdownOf(Latest(a, CountdownTags)) ELSE v.countdown
        /\ w.colors = v.colors \cup (RolesIn(a) \cap Color)
        /\ w.roster = IF Heard(a, {"ROSTER"}) THEN Latest(a, {"ROSTER"}).roster ELSE v.roster
    BY DEF Told
  <1> HIDE DEF w
  <1>4. (IF Heard(ab, {"ROOM"}) THEN Latest(ab, {"ROOM"}).room ELSE v.room)
           = IF Heard(b, {"ROOM"}) THEN Latest(b, {"ROOM"}).room ELSE w.room
    BY <1>1, <1>3
  <1>5. (IF Heard(ab, CountdownTags) THEN CountdownOf(Latest(ab, CountdownTags)) ELSE v.countdown)
           = IF Heard(b, CountdownTags) THEN CountdownOf(Latest(b, CountdownTags)) ELSE w.countdown
    BY <1>1, <1>3
  <1>6. (IF Heard(ab, {"ROSTER"}) THEN Latest(ab, {"ROSTER"}).roster ELSE v.roster)
           = IF Heard(b, {"ROSTER"}) THEN Latest(b, {"ROSTER"}).roster ELSE w.roster
    BY <1>1, <1>3
  <1>7. v.colors \cup (RolesIn(ab) \cap Color) = w.colors \cup (RolesIn(b) \cap Color)
    BY <1>2, <1>3
  <1>8. Told(ab, v) = Told(b, w)
    BY <1>4, <1>5, <1>6, <1>7 DEF Told
  <1> QED BY <1>8 DEF ab, w

LEMMA ToldNothing ==
    ASSUME NEW v
    PROVE  /\ Told(<< >>, v).room = v.room
           /\ Told(<< >>, v).countdown = v.countdown
           /\ Told(<< >>, v).colors = v.colors
           /\ Told(<< >>, v).roster = v.roster
  <1>1. RolesIn(<< >>) = {} /\ \A tags : ~Heard(<< >>, tags)
    BY DEF RolesIn, Heard
  <1> QED BY <1>1 DEF Told

LEMMA ToldOne ==
    ASSUME NEW m, NEW v
    PROVE  LET w == Told(<< m >>, v)
           IN  /\ w.room = IF m.tag = "ROOM" THEN m.room ELSE v.room
               /\ w.countdown = IF m.tag = "OPPGONE" THEN {m.seconds}
                                ELSE IF m.tag = "OPPBACK" THEN {} ELSE v.countdown
               /\ w.colors = v.colors \cup (IF m.tag = "ROLE" THEN {m.color} \cap Color ELSE {})
               /\ w.roster = IF m.tag = "ROSTER" THEN m.roster ELSE v.roster
  <1> DEFINE d == << m >>
             w == Told(d, v)
  <1>1. \A tags : /\ Heard(d, tags) <=> m.tag \in tags
                  /\ m.tag \in tags => Latest(d, tags) = m
    BY OneHeard
  <1>2. RolesIn(d) = IF m.tag = "ROLE" THEN {m.color} ELSE {}
    BY OneHeard
  <1> HIDE DEF d
  <1>3. /\ w.room = IF Heard(d, {"ROOM"}) THEN Latest(d, {"ROOM"}).room ELSE v.room
        /\ w.countdown = IF Heard(d, CountdownTags)
                         THEN CountdownOf(Latest(d, CountdownTags)) ELSE v.countdown
        /\ w.colors = v.colors \cup (RolesIn(d) \cap Color)
        /\ w.roster = IF Heard(d, {"ROSTER"}) THEN Latest(d, {"ROSTER"}).roster ELSE v.roster
    BY DEF Told
  <1> HIDE DEF w
  <1>4. w.room = IF m.tag = "ROOM" THEN m.room ELSE v.room
    BY <1>1, <1>3
  <1>5. w.countdown = IF m.tag = "OPPGONE" THEN {m.seconds}
                      ELSE IF m.tag = "OPPBACK" THEN {} ELSE v.countdown
    BY <1>1, <1>3 DEF CountdownTags, CountdownOf
  <1>6. w.colors = v.colors \cup (IF m.tag = "ROLE" THEN {m.color} \cap Color ELSE {})
    BY <1>2, <1>3
  <1>7. w.roster = IF m.tag = "ROSTER" THEN m.roster ELSE v.roster
    BY <1>1, <1>3
  <1> QED BY <1>4, <1>5, <1>6, <1>7 DEF w, d

\* A message m that is sent, or not, in d.
IsTold(w, d, m, v) ==
    /\ w.room = IF d # << >> /\ m.tag = "ROOM" THEN m.room ELSE v.room
    /\ w.countdown = IF d # << >> /\ m.tag = "OPPGONE" THEN {m.seconds}
                     ELSE IF d # << >> /\ m.tag = "OPPBACK" THEN {} ELSE v.countdown
    /\ w.colors = v.colors
         \cup (IF d # << >> /\ m.tag = "ROLE" THEN {m.color} \cap Color ELSE {})
    /\ w.roster = IF d # << >> /\ m.tag = "ROSTER" THEN m.roster ELSE v.roster

LEMMA ToldIf ==
    ASSUME NEW m, NEW d, d = << m >> \/ d = << >>, NEW v
    PROVE  d \in Seq({m}) /\ IsTold(Told(d, v), d, m, v)
  <1>1. CASE d # << >>
    <2>1. d = << m >> /\ d \in Seq({m})
      BY <1>1, OneHeard
    <2> DEFINE w == Told(<< m >>, v)
    <2>2. /\ w.room = IF m.tag = "ROOM" THEN m.room ELSE v.room
          /\ w.countdown = IF m.tag = "OPPGONE" THEN {m.seconds}
                           ELSE IF m.tag = "OPPBACK" THEN {} ELSE v.countdown
          /\ w.colors = v.colors \cup (IF m.tag = "ROLE" THEN {m.color} \cap Color ELSE {})
          /\ w.roster = IF m.tag = "ROSTER" THEN m.roster ELSE v.roster
      BY ToldOne
    <2>3. Told(d, v) = w
      BY <2>1
    <2> HIDE DEF w
    <2> QED BY <1>1, <2>1, <2>2, <2>3 DEF IsTold
  <1>2. CASE d = << >>
    <2>1. d \in Seq({m})
      BY <1>2
    <2> QED BY <1>2, <2>1, ToldNothing DEF IsTold
  <1> QED BY <1>1, <1>2

\* Messages that are about none of this.
Idle(d) == \A i \in DOMAIN d : d[i].tag \in {"NOMATCH", "ROOMERR", "AUTHFAIL"}

LEMMA ToldIdly ==
    ASSUME NEW d, NEW v, Idle(d)
    PROVE  /\ Told(d, v).room = v.room
           /\ Told(d, v).countdown = v.countdown
           /\ Told(d, v).colors = v.colors
           /\ Told(d, v).roster = v.roster
  <1>1. ~Heard(d, {"ROOM"}) /\ ~Heard(d, CountdownTags) /\ ~Heard(d, {"ROSTER"})
    BY DEF Idle, Heard, CountdownTags
  <1>2. RolesIn(d) = {}
    BY DEF Idle, RolesIn
  <1> QED BY <1>1, <1>2 DEF Told

-----------------------------------------------------------------------------
(***************************************************************************)
(* The rooms of the window.                                                *)
(***************************************************************************)
LEMMA RosterOfHolders ==
    ASSUME NEW seats, NEW other,
           \A color \in Color :
              /\ Holders(other, color) = Holders(seats, color)
              /\ \A c \in Holders(seats, color) :
                    /\ other[c].user = seats[c].user
                    /\ other[c].rating = seats[c].rating
    PROVE  RosterOf(other) = RosterOf(seats)
  <1>1. ASSUME NEW color \in Color
        PROVE  {[user |-> other[c].user, rating |-> other[c].rating] :
                   c \in Holders(other, color)}
                = {[user |-> seats[c].user, rating |-> seats[c].rating] :
                   c \in Holders(seats, color)}
    BY <1>1
  <1> QED BY <1>1 DEF RosterOf

\* One room changes to next, and the view v to w.
LEMMA OneRoomTold ==
    ASSUME NEW all, NEW gone, NEW more, gone \subseteq more,
           NEW v, RoomsAreTold(v, all, gone), NEW r \in DOMAIN all, NEW next, NEW w,
           Me \in next.members <=> Me \in all[r].members,
           Me \in all[r].members =>
              /\ next.seats[Me].color \in {all[r].seats[Me].color, Spectator}
              /\ Awaited(all[r]) => Awaited(next)
              /\ \/ w.countdown = v.countdown
                 \/ next.vacancies # << >>
              /\ \/ w.roster = RosterOf(next.seats)
                 \/ w.roster = v.roster /\ RosterOf(next.seats) = RosterOf(all[r].seats),
           Me \notin all[r].members =>
              w.countdown = v.countdown /\ w.roster = v.roster,
           w.colors = v.colors
    PROVE  RoomsAreTold(w, [all EXCEPT ![r] = next], more)
  <1> DEFINE now == [all EXCEPT ![r] = next]
  <1>1. DOMAIN now = DOMAIN all /\ now[r] = next /\ \A q \in DOMAIN all \ {r} : now[q] = all[q]
    OBVIOUS
  <1> HIDE DEF now
  <1>2. Mine(now) = Mine(all)
    BY <1>1 DEF Mine
  <1>3. ASSUME NEW q \in Mine(now)
        PROVE  now[q].seats[Me].color \in w.colors \cup {Spectator}
    <2>1. q \in DOMAIN all /\ Me \in all[q].members
      BY <1>2, <1>3 DEF Mine
    <2>2. all[q].seats[Me].color \in v.colors \cup {Spectator}
      BY <1>2 DEF RoomsAreTold
    <2>3. CASE q = r
      BY <1>1, <2>1, <2>2, <2>3
    <2>4. CASE q # r
      BY <1>1, <2>1, <2>2, <2>4
    <2> QED BY <2>3, <2>4
  <1>4. ASSUME w.countdown # {}
        PROVE  \E q \in Mine(now) : Awaited(now[q])
    <2>1. CASE w.countdown = v.countdown
      <3>1. PICK q \in Mine(all) : Awaited(all[q])
        BY <1>4, <2>1 DEF RoomsAreTold
      <3>2. q \in DOMAIN all /\ Me \in all[q].members
        BY DEF Mine
      <3>3. Awaited(now[q])
        BY <1>1, <3>1, <3>2
      <3> QED BY <1>2, <3>3
    <2>2. CASE w.countdown # v.countdown
      <3>1. Me \in all[r].members /\ next.vacancies # << >>
        BY <2>2
      <3>2. r \in Mine(now) /\ Awaited(now[r])
        BY <1>1, <1>2, <3>1 DEF Mine, Awaited
      <3> QED BY <3>2
    <2> QED BY <2>1, <2>2
  <1>5. ASSUME Mine(now) = {}
        PROVE  w.roster = NoRoster
    <2>1. Me \notin all[r].members
      BY <1>2, <1>5 DEF Mine
    <2> QED BY <1>2, <1>5, <2>1 DEF RoomsAreTold
  <1>6. ASSUME NEW q \in DOMAIN now, Mine(now) = {q}
        PROVE  w.roster = RosterOf(now[q].seats) \/ (w.roster = NoRoster /\ more # {})
    <2>1. q \in DOMAIN all /\ Mine(all) = {q}
      BY <1>1, <1>2, <1>6
    <2>2. v.roster = RosterOf(all[q].seats) \/ (v.roster = NoRoster /\ gone # {})
      BY <2>1 DEF RoomsAreTold
    <2>3. CASE q = r
      <3>1. Me \in all[r].members
        BY <2>1, <2>3 DEF Mine
      <3> QED BY <1>1, <2>2, <2>3, <3>1
    <2>4. CASE q # r
      <3>1. Me \notin all[r].members
        BY <2>1, <2>4 DEF Mine
      <3> QED BY <1>1, <2>1, <2>2, <2>4, <3>1
    <2> QED BY <2>3, <2>4
  <1>7. RoomsAreTold(w, now, more)
    BY <1>3, <1>4, <1>5, <1>6 DEF RoomsAreTold
  <1> QED BY <1>7 DEF now

(***************************************************************************)
(* Somebody enters a room.                                                 *)
(***************************************************************************)
IsBack(c, before) == HeldFor(before.vacancies, clients[c].user) # 0

EntryIsTold(w, c, r, before, after, v) ==
    /\ w.room = IF c = Me THEN r ELSE v.room
    /\ w.countdown = IF IsBack(c, before) /\ Me \in after.members THEN {} ELSE v.countdown
    /\ w.colors = v.colors
         \cup (IF c = Me THEN {after.seats[c].color} \cap Color ELSE {})
    /\ w.roster = IF Me \in (IF IsBack(c, before) THEN before.members ELSE after.members)
                  THEN RosterOf(after.seats) ELSE v.roster

LEMMA EntryTold ==
    ASSUME NEW c, NEW r, NEW before, NEW after, NEW v
    PROVE  /\ \E S : EntryMessages(c, r, before, after) \in Seq(S)
           /\ EntryIsTold(Told(EntryMessages(c, r, before, after), v), c, r, before, after, v)
  <1> DEFINE back == IsBack(c, before)
             hearers == IF back THEN before.members ELSE after.members
             one == RoleOf(c, before, after)
             two == ToAll(hearers, RosterMessage(after))
             three == IF back THEN ToAll(after.members, [tag |-> "OPPBACK"]) ELSE << >>
             four == To(c, [tag |-> "ROOM", room |-> r])
             v1 == Told(one, v)
             v2 == Told(two, v1)
             v3 == Told(three, v2)
             v4 == Told(four, v3)
             S == {[tag |-> "ROLE", color |-> after.seats[c].color], RosterMessage(after),
                   [tag |-> "OPPBACK"], [tag |-> "ROOM", room |-> r]}
  <1>1. EntryMessages(c, r, before, after) = one \o two \o three \o four
    BY DEF EntryMessages, IsBack
  <1>2. one = IF c = Me THEN << [tag |-> "ROLE", color |-> after.seats[c].color] >> ELSE << >>
    BY DEF RoleOf, To
  <1>3. two = IF Me \in hearers THEN << RosterMessage(after) >> ELSE << >>
    BY DEF ToAll
  <1>4. three = IF back /\ Me \in after.members THEN << [tag |-> "OPPBACK"] >> ELSE << >>
    BY DEF ToAll
  <1>5. four = IF c = Me THEN << [tag |-> "ROOM", room |-> r] >> ELSE << >>
    BY DEF To
  <1>7. /\ one \in Seq({[tag |-> "ROLE", color |-> after.seats[c].color]})
        /\ v1.room = v.room /\ v1.countdown = v.countdown /\ v1.roster = v.roster
        /\ v1.colors = v.colors \cup (IF c = Me THEN {after.seats[c].color} \cap Color ELSE {})
    <2> DEFINE m == [tag |-> "ROLE", color |-> after.seats[c].color]
    <2>1. m.tag = "ROLE" /\ m.color = after.seats[c].color
      OBVIOUS
    <2>2. (one = << m >> \/ one = << >>) /\ (one # << >> <=> c = Me)
      BY <1>2
    <2> HIDE DEF m, one
    <2>3. one \in Seq({m}) /\ IsTold(v1, one, m, v)
      BY <2>2, ToldIf
    <2> HIDE DEF v1
    <2> QED BY <2>1, <2>2, <2>3 DEF m, IsTold
  <1>8. /\ two \in Seq({RosterMessage(after)})
        /\ v2.room = v1.room /\ v2.countdown = v1.countdown /\ v2.colors = v1.colors
        /\ v2.roster = IF Me \in hearers THEN RosterOf(after.seats) ELSE v1.roster
    <2> DEFINE m == RosterMessage(after)
    <2>1. m.tag = "ROSTER" /\ m.roster = RosterOf(after.seats)
      BY DEF RosterMessage
    <2>2. (two = << m >> \/ two = << >>) /\ (two # << >> <=> Me \in hearers)
      BY <1>3
    <2> HIDE DEF m, two, v1, hearers
    <2>3. two \in Seq({m}) /\ IsTold(v2, two, m, v1)
      BY <2>2, ToldIf
    <2> HIDE DEF v2
    <2> QED BY <2>1, <2>2, <2>3 DEF m, IsTold
  <1>9. /\ three \in Seq({[tag |-> "OPPBACK"]})
        /\ v3.room = v2.room /\ v3.colors = v2.colors /\ v3.roster = v2.roster
        /\ v3.countdown = IF back /\ Me \in after.members THEN {} ELSE v2.countdown
    <2> DEFINE m == [tag |-> "OPPBACK"]
    <2>1. m.tag = "OPPBACK"
      OBVIOUS
    <2>2. (three = << m >> \/ three = << >>) /\ (three # << >> <=> back /\ Me \in after.members)
      BY <1>4
    <2> HIDE DEF m, three, v2, hearers
    <2>3. three \in Seq({m}) /\ IsTold(v3, three, m, v2)
      BY <2>2, ToldIf
    <2> HIDE DEF v3
    <2> QED BY <2>1, <2>2, <2>3 DEF m, IsTold
  <1>10. /\ four \in Seq({[tag |-> "ROOM", room |-> r]})
        /\ v4.countdown = v3.countdown /\ v4.colors = v3.colors /\ v4.roster = v3.roster
        /\ v4.room = IF c = Me THEN r ELSE v3.room
    <2> DEFINE m == [tag |-> "ROOM", room |-> r]
    <2>1. m.tag = "ROOM" /\ m.room = r
      OBVIOUS
    <2>2. (four = << m >> \/ four = << >>) /\ (four # << >> <=> c = Me)
      BY <1>5
    <2> HIDE DEF m, four, v3, hearers
    <2>3. four \in Seq({m}) /\ IsTold(v4, four, m, v3)
      BY <2>2, ToldIf
    <2> HIDE DEF v4
    <2> QED BY <2>1, <2>2, <2>3 DEF m, IsTold
  <1>6. one \in Seq(S) /\ two \in Seq(S) /\ three \in Seq(S) /\ four \in Seq(S)
    <2> HIDE DEF one, two, three, four
    <2> QED BY <1>7, <1>8, <1>9, <1>10
  <1> HIDE DEF one, two, three, four, S
  <1>11. /\ one \o two \in Seq(S) /\ one \o two \o three \in Seq(S)
         /\ one \o two \o three \o four \in Seq(S)
    BY <1>6, ConcatFacts
  <1>12. Told(one \o two \o three \o four, v) = v4
    <2>1. Told(one \o two, v) = v2
      BY <1>6, ToldBoth
    <2> DEFINE ab == one \o two
               abc == ab \o three
    <2>2. ab \in Seq(S) /\ abc \in Seq(S) /\ Told(ab, v) = v2
      BY <1>11, <2>1
    <2> HIDE DEF ab
    <2>3. Told(abc, v) = Told(three, Told(ab, v))
      BY <1>6, <2>2, ToldBoth
    <2> HIDE DEF abc
    <2>4. Told(abc \o four, v) = Told(four, Told(abc, v))
      BY <1>6, <2>2, ToldBoth
    <2>5. Told(abc \o four, v) = v4
      BY <2>2, <2>3, <2>4
    <2> QED BY <2>5 DEF ab, abc
  <1> HIDE DEF v1, v2, v3, v4
  <1>13. EntryIsTold(v4, c, r, before, after, v)
    BY <1>7, <1>8, <1>9, <1>10 DEF EntryIsTold
  <1> QED BY <1>1, <1>11, <1>12, <1>13

LEMMA EntryKeepsView ==
    ASSUME ClientsInv(clients), NEW all, NEW gone, RoomsInv(all, gone), Me \notin gone,
           NEW c \in DOMAIN clients, c \notin gone, NEW r \in RoomId,
           NEW v, RoomsAreTold(v, all, gone),
           NEW before, before = (IF r \in DOMAIN all THEN all[r] ELSE NewRoom)
    PROVE  LET now == Entered(all, c, r)
               m == EntryMessages(c, r, before, now[r])
               w == Told(m, v)
           IN  /\ \E S : m \in Seq(S)
               /\ w.room = IF c = Me THEN r ELSE v.room
               /\ RoomsAreTold(w, now, gone)
               /\ c # Me => Mine(now) = Mine(all)
  <1> DEFINE user == clients[c].user
             rating == clients[c].rating
             after == AddClient(before, c, user, rating)
             now == Entered(all, c, r)
             back == IsBack(c, before)
             m == EntryMessages(c, r, before, after)
             w == Told(m, v)
             hears == Me \in IF back THEN before.members ELSE after.members
  <1>1. c \in Client /\ user \in User /\ rating \in Int
    BY DEF ClientsInv, ClientRecord
  <1>2. /\ RoomInv(before)
        /\ \A i \in DOMAIN before.vacancies : before.vacancies[i].client \in gone
    BY NewRoomInv DEF RoomsInv
  <1>3. now = Extended(all, r, after)
    BY DEF Entered
  <1>4. /\ \E S : m \in Seq(S)
        /\ w.room = IF c = Me THEN r ELSE v.room
        /\ w.countdown = IF back /\ Me \in after.members THEN {} ELSE v.countdown
        /\ w.colors = v.colors \cup (IF c = Me THEN {after.seats[c].color} \cap Color ELSE {})
        /\ w.roster = IF hears THEN RosterOf(after.seats) ELSE v.roster
    <2>1. (\E S : m \in Seq(S)) /\ EntryIsTold(w, c, r, before, after, v)
      BY EntryTold
    <2> HIDE DEF w, m, after
    <2> QED BY <2>1 DEF EntryIsTold
  <1>5. back => gone # {}
    <2>1. before.vacancies \in Seq(Vacancy)
      BY <1>2 DEF RoomInv, IsRoom
    <2> QED BY <1>2, <2>1, HeldForFinds DEF IsBack
  <1>6. ~back => after.vacancies = before.vacancies
    <2>1. DOMAIN before = {"seats", "members", "vacancies", "match"}
      BY <1>2 DEF RoomInv, IsRoom
    <2> QED BY <2>1 DEF AddClient, IsBack
  <1>7. /\ after.members = before.members \cup {c} /\ after.match = before.match
        /\ after.seats[c] \in Occupant
        /\ \A d \in DOMAIN after.seats \ {c} : after.seats[d] = before.seats[d]
    BY <1>1, <1>2, AddClientResult
  <1>8. RoomInv(after)
    <2>1. IsNoAbsentee(before, c)
      BY <1>2 DEF IsNoAbsentee
    <2> QED BY <1>1, <1>2, <2>1, AddClientInv
  <1>9. after.members \subseteq DOMAIN after.seats
    BY <1>8 DEF RoomInv, MembersSeated
  <1> HIDE DEF after, now, back, m, w
  <1>10. /\ DOMAIN now = DOMAIN all \cup {r} /\ now[r] = after
         /\ \A q \in DOMAIN all \ {r} : now[q] = all[q]
    BY <1>3 DEF Extended
  <1>11. /\ r \in DOMAIN all => before = all[r]
         /\ r \notin DOMAIN all => before.members = {}
    BY DEF NewRoom
  <1>12. /\ Mine(all) \subseteq Mine(now) /\ Mine(now) \ {r} \subseteq Mine(all)
         /\ r \in Mine(now) <=> Me \in after.members
         /\ r \in Mine(all) <=> Me \in before.members
         /\ c # Me => Mine(now) = Mine(all)
    BY <1>7, <1>10, <1>11 DEF Mine
  <1>13. ASSUME NEW q \in Mine(now)
         PROVE  now[q].seats[Me].color \in w.colors \cup {Spectator}
    <2>1. CASE q # r
      <3>1. q \in Mine(all) /\ now[q] = all[q]
        BY <1>10, <1>12, <2>1 DEF Mine
      <3>2. all[q].seats[Me].color \in v.colors \cup {Spectator}
        BY <3>1 DEF RoomsAreTold
      <3> QED BY <1>4, <3>1, <3>2
    <2>2. CASE q = r /\ c = Me
      <3>1. after.seats[c].color \in Color \cup {Spectator}
        BY <1>7 DEF Occupant
      <3> QED BY <1>4, <1>10, <2>2, <3>1
    <2>3. CASE q = r /\ c # Me
      <3>1. q \in Mine(all) /\ Me \in after.members
        BY <1>12, <2>3
      <3>2. now[q].seats[Me] = all[q].seats[Me]
        BY <1>7, <1>9, <1>10, <1>11, <2>3, <3>1 DEF Mine
      <3>3. all[q].seats[Me].color \in v.colors \cup {Spectator}
        BY <3>1 DEF RoomsAreTold
      <3> QED BY <1>4, <3>2, <3>3
    <2> QED BY <2>1, <2>2, <2>3
  <1>14. ASSUME w.countdown # {}
         PROVE  \E q \in Mine(now) : Awaited(now[q])
    <2>1. w.countdown = v.countdown /\ ~(back /\ Me \in after.members)
      BY <1>4, <1>14
    <2>2. PICK q \in Mine(all) : Awaited(all[q])
      BY <1>14, <2>1 DEF RoomsAreTold
    <2>3. CASE q # r
      BY <1>10, <1>12, <2>2, <2>3 DEF Mine
    <2>4. CASE q = r
      <3>1. r \in DOMAIN all /\ Me \in after.members
        BY <1>12, <2>4 DEF Mine
      <3>2. after.vacancies = before.vacancies /\ before = all[r]
        BY <1>6, <1>11, <2>1, <3>1
      <3>3. Awaited(now[q])
        BY <1>7, <1>10, <2>2, <2>4, <3>2 DEF Awaited
      <3> QED BY <1>12, <3>3
    <2> QED BY <2>3, <2>4
  <1>15. ASSUME Mine(now) = {}
         PROVE  w.roster = NoRoster
    <2>1. Mine(all) = {} /\ Me \notin after.members /\ Me \notin before.members
      BY <1>12, <1>15
    <2>2. v.roster = NoRoster
      BY <2>1 DEF RoomsAreTold
    <2> QED BY <1>4, <2>1, <2>2
  <1>16. ASSUME NEW q \in DOMAIN now, Mine(now) = {q}
         PROVE  w.roster = RosterOf(now[q].seats) \/ (w.roster = NoRoster /\ gone # {})
    <2>1. CASE q # r
      <3>1. Me \notin after.members /\ Me \notin before.members
        BY <1>12, <1>16, <2>1
      <3>2. q \in DOMAIN all /\ now[q] = all[q]
        BY <1>10, <2>1
      <3>3. Mine(all) = {q}
        BY <1>12, <1>16, <2>1
      <3>4. v.roster = RosterOf(all[q].seats) \/ (v.roster = NoRoster /\ gone # {})
        BY <3>2, <3>3 DEF RoomsAreTold
      <3> QED BY <1>4, <3>1, <3>2, <3>4
    <2>2. CASE q = r /\ hears
      BY <1>4, <1>10, <2>2
    <2>3. CASE q = r /\ ~hears
      <3>1. back /\ Me \notin before.members
        BY <1>12, <1>16, <2>3
      <3>2. Mine(all) = {}
        BY <1>12, <1>16, <2>3, <3>1
      <3>3. v.roster = NoRoster
        BY <3>2 DEF RoomsAreTold
      <3> QED BY <1>4, <1>5, <2>3, <3>1, <3>3
    <2> QED BY <2>1, <2>2, <2>3
  <1>17. RoomsAreTold(w, now, gone)
    BY <1>13, <1>14, <1>15, <1>16 DEF RoomsAreTold
  <1>18. m = EntryMessages(c, r, before, now[r])
    BY <1>10 DEF m
  <1> QED BY <1>4, <1>12, <1>17, <1>18 DEF w, now

\* Who drops out of a room is missed by its members, and no name disappears.
LEMMA DropKeepsRoom ==
    ASSUME NEW room, RoomInv(room), NEW c \in Client \ {Me}
    PROVE  LET next == HandleDisconnect(room, c)
           IN  /\ next.members = room.members \ {c}
               /\ Me \in room.members => next.seats[Me] = room.seats[Me]
               /\ Awaited(room) => Awaited(next)
               /\ RosterOf(next.seats) = RosterOf(room.seats)
  <1> DEFINE next == HandleDisconnect(room, c)
             held == [color |-> room.seats[c].color, user |-> room.seats[c].user,
                      client |-> c, grace |-> GraceMs]
  <1>1. /\ DOMAIN room = {"seats", "members", "vacancies", "match"}
        /\ room.vacancies \in Seq(Vacancy)
        /\ room.members \subseteq DOMAIN room.seats
    BY DEF RoomInv, IsRoom, MembersSeated
  <1>2. CASE ~IsPlayer(room, c)
    <2>1. next = [room EXCEPT !.members = @ \ {c}, !.seats = Removed(@, c)]
      BY <1>2 DEF HandleDisconnect, Departed
    <2> DEFINE seats == Removed(room.seats, c)
    <2>2. /\ next.members = room.members \ {c} /\ next.seats = seats
          /\ next.vacancies = room.vacancies /\ next.match = room.match
      BY <1>1, <2>1
    <2>3. /\ DOMAIN seats = DOMAIN room.seats \ {c}
          /\ \A d \in DOMAIN room.seats \ {c} : seats[d] = room.seats[d]
      BY RemovedFacts
    <2> HIDE DEF seats, next
    <2>4. \A color \in Color : c \notin Holders(room.seats, color)
      BY <1>2 DEF IsPlayer, Holders
    <2>5. \A color \in Color :
             /\ Holders(seats, color) = Holders(room.seats, color)
             /\ \A d \in Holders(room.seats, color) : seats[d] = room.seats[d]
      BY <2>3, <2>4 DEF Holders
    <2>6. RosterOf(seats) = RosterOf(room.seats)
      BY <2>5, RosterOfHolders
    <2> QED BY <1>1, <2>2, <2>3, <2>6 DEF Awaited, next
  <1>3. CASE IsPlayer(room, c) /\ room.match.over
    <2>1. next = [room EXCEPT !.members = @ \ {c}]
      BY <1>3 DEF HandleDisconnect
    <2> QED BY <1>1, <2>1 DEF Awaited
  <1>4. CASE IsPlayer(room, c) /\ ~room.match.over
    <2>1. next = [room EXCEPT !.members = @ \ {c}, !.vacancies = Append(@, held)]
      BY <1>4 DEF HandleDisconnect, Reserved
    <2> HIDE DEF held
    <2>2. /\ next.members = room.members \ {c} /\ next.seats = room.seats
          /\ next.vacancies = Append(room.vacancies, held)
      BY <1>1, <2>1
    <2>3. Append(room.vacancies, held) # << >>
      BY <1>1
    <2> QED BY <2>2, <2>3 DEF Awaited
  <1> QED BY <1>2, <1>3, <1>4

\* The messages of a countdown.
Countdowns(vacancies) ==
    [i \in DOMAIN vacancies |-> [tag |-> "OPPGONE", seconds |-> vacancies[i].grace]]

LEMMA CountdownTold ==
    ASSUME NEW S, NEW vacancies \in Seq(S), NEW v
    PROVE  /\ \E T : Countdowns(vacancies) \in Seq(T)
           /\ Told(Countdowns(vacancies), v).room = v.room
           /\ Told(Countdowns(vacancies), v).colors = v.colors
           /\ Told(Countdowns(vacancies), v).roster = v.roster
           /\ vacancies = << >> => Told(Countdowns(vacancies), v).countdown = v.countdown
  <1> DEFINE d == Countdowns(vacancies)
  <1> DEFINE Gone1(i) == [tag |-> "OPPGONE", seconds |-> vacancies[i].grace]
             T == {Gone1(i) : i \in DOMAIN vacancies}
             n == Len(vacancies)
  <1>1. n \in Nat /\ DOMAIN vacancies = 1 .. n
    OBVIOUS
  <1>2. d = [i \in 1 .. n |-> Gone1(i)]
    BY <1>1 DEF Countdowns
  <1> HIDE DEF n, d
  <1>3. d \in [1 .. n -> T]
    BY <1>1, <1>2
  <1>4. \A i \in DOMAIN d : d[i].tag = "OPPGONE"
    BY <1>2
  <1> HIDE DEF T, Gone1
  <1>5. d \in Seq(T)
    BY <1>1, <1>3
  <1>6. ~Heard(d, {"ROOM"}) /\ ~Heard(d, {"ROSTER"}) /\ RolesIn(d) = {}
    BY <1>4 DEF Heard, RolesIn
  <1>7. vacancies = << >> => ~Heard(d, CountdownTags)
    BY <1>1, <1>2 DEF Heard
  <1>8. /\ Told(d, v).room = v.room
        /\ Told(d, v).colors = v.colors
        /\ Told(d, v).roster = v.roster
        /\ vacancies = << >> => Told(d, v).countdown = v.countdown
    BY <1>6, <1>7 DEF Told
  <1> QED BY <1>5, <1>8 DEF d

\* What a tick of a room tells the window.
TickMessages(r) == NewRatingsMessages(r) \o CountdownMessages(r)

LEMMA NewRatingsTold ==
    ASSUME NEW r, NEW v
    PROVE  LET d == NewRatingsMessages(r)
               w == Told(d, v)
               hears == Settles(rooms[r], rooms'[r]) /\ Me \in rooms[r].members
           IN  /\ \E S : d \in Seq(S)
               /\ w.room = v.room /\ w.countdown = v.countdown /\ w.colors = v.colors
               /\ w.roster = IF hears THEN RosterOf(rooms'[r].seats) ELSE v.roster
  <1> DEFINE d == NewRatingsMessages(r)
             w == Told(d, v)
             m == RosterMessage(rooms'[r])
             hears == Settles(rooms[r], rooms'[r]) /\ Me \in rooms[r].members
  <1>1. (d = << m >> \/ d = << >>) /\ (d # << >> <=> hears)
    BY DEF NewRatingsMessages, ToAll
  <1>2. m.tag = "ROSTER" /\ m.roster = RosterOf(rooms'[r].seats)
    BY DEF RosterMessage
  <1> HIDE DEF d, m, hears
  <1>3. d \in Seq({m}) /\ IsTold(w, d, m, v)
    BY <1>1, ToldIf
  <1> HIDE DEF w
  <1> QED BY <1>1, <1>2, <1>3 DEF IsTold, w, d, hears

\* A tick that settles nothing leaves the seats as they are.
LEMMA UnsettledSeats ==
    ASSUME NEW before, NEW after,
           \/ NoPair(before)
           \/ /\ after.match.kings = before.match.kings
              /\ after.match.over <=> before.match.over
           => after.seats = before.seats
    PROVE  Settles(before, after) \/ after.seats = before.seats
  BY DEF Settles, NoPair

LEMMA RoomTickKeepsView ==
    ASSUME LobbyInv, NEW r \in RoomId, RoomTicks(r), NEW v
    PROVE  /\ \E S : TickMessages(r) \in Seq(S)
           /\ Told(TickMessages(r), v).room = v.room
           /\ RoomsAreTold(v, rooms, Gone) => RoomsAreTold(Told(TickMessages(r), v), rooms', Gone)
           /\ Mine(rooms') = Mine(rooms)
  <1> DEFINE room == rooms[r]
             s == [room |-> room, store |-> store]
  <1>1. PICK fallen \in MayFall(rooms[r].match), first \in Color, calm \in BOOLEAN :
           rooms' = [rooms EXCEPT ![r] = RoomTick(s, fallen, first, calm, TickMs).room]
    BY DEF RoomTicks
  <1>2. r \in DOMAIN rooms /\ RoomInv(room)
    BY DEF RoomTicks, LobbyInv, RoomsInv
  <1>3. IsSession(s) /\ s.room = room
    BY <1>2 DEF LobbyInv, IsSession
  <1> HIDE DEF s
  <1> DEFINE ticked == RoomTick(s, fallen, first, calm, TickMs)
             next == ticked.room
  <1>4. /\ IsSession(ticked) /\ next.members = s.room.members
        /\ \A color \in Color : Holders(next.seats, color) = Holders(s.room.seats, color)
        /\ s.room.match.over => next.match.over
        /\ next.match.over \/ SeatsReturn(s.room, next)
        /\ Settles(s.room, next) \/ next.seats = s.room.seats
    <2>1. TickMs \in Nat /\ fallen \in MayFall(s.room.match)
      BY <1>3, TickMsType
    <2>2. /\ IsSession(ticked) /\ ticked.room.members = s.room.members
          /\ s.room.match.over => ticked.room.match.over
          /\ ticked.room.match.over \/ SeatsReturn(s.room, ticked.room)
      BY <1>3, <2>1, RoomTickResult
    <2>3. ASSUME NEW color \in Color
          PROVE  Holders(ticked.room.seats, color) = Holders(s.room.seats, color)
      BY <1>3, <2>1, RoomTickResult
    <2>4. \/ NoPair(s.room)
          \/ /\ ticked.room.match.kings = s.room.match.kings
             /\ ticked.room.match.over <=> s.room.match.over
          => ticked.room.seats = s.room.seats
      BY <1>3, <2>1, UnsettledTick
    <2> HIDE DEF ticked
    <2>5. Settles(s.room, next) \/ next.seats = s.room.seats
      BY <2>4, UnsettledSeats
    <2> QED BY <2>2, <2>3, <2>5
  <1>5. rooms' = [rooms EXCEPT ![r] = next]
    BY <1>1
  <1> HIDE DEF ticked
  <1>6. /\ RoomInv(next) /\ next.members = room.members
        /\ \A color \in Color : Holders(next.seats, color) = Holders(room.seats, color)
        /\ room.match.over => next.match.over
        /\ next.match.over \/ SeatsReturn(room, next)
        /\ Settles(room, next) \/ next.seats = room.seats
    BY <1>3, <1>4 DEF IsSession
  <1> HIDE DEF next
  <1>7. rooms'[r] = next
    BY <1>2, <1>5
  <1>8. ASSUME Awaited(room)
        PROVE  Awaited(next)
    <2> SUFFICES ASSUME ~next.match.over
                 PROVE  next.vacancies # << >>
      BY DEF Awaited
    <2>1. room.vacancies # << >> /\ room.vacancies \in Seq(Vacancy) /\ SeatsReturn(room, next)
      BY <1>2, <1>6, <1>8 DEF Awaited, RoomInv, IsRoom
    <2>2. 1 \in DOMAIN room.vacancies
      BY <2>1
    <2> DEFINE absent == room.vacancies[1]
    <2>3. absent.color \in Color /\ absent.client \in Holders(room.seats, absent.color)
      <3>1. absent \in Vacancy
        BY <2>1, <2>2
      <3>2. /\ absent.client \in DOMAIN room.seats
            /\ room.seats[absent.client].color = absent.color
        BY <1>2, <2>2 DEF RoomInv, VacanciesHeld
      <3> HIDE DEF absent
      <3> QED BY <3>1, <3>2 DEF Vacancy, Holders
    <2>4. \/ \E j \in DOMAIN next.vacancies : next.vacancies[j].client = absent.client
          \/ \E d \in Holders(next.seats, absent.color) : d # absent.client
      BY <2>1, <2>2 DEF SeatsReturn
    <2> HIDE DEF absent
    <2>5. \A d \in Holders(next.seats, absent.color) : d = absent.client
      BY <1>6, <2>3 DEF RoomInv, SeatsExclusive
    <2>6. DOMAIN next.vacancies # {}
      BY <2>4, <2>5
    <2> QED BY <2>6
  <1>9. ASSUME Me \in room.members
        PROVE  next.seats[Me].color \in {room.seats[Me].color, Spectator}
    <2>1. Me \in DOMAIN room.seats /\ Me \in DOMAIN next.seats /\ next.seats[Me] \in Occupant
      BY <1>2, <1>6, <1>9 DEF RoomInv, MembersSeated, IsRoom
    <2>2. CASE next.seats[Me].color \in Color
      <3>1. Me \in Holders(next.seats, next.seats[Me].color)
        BY <2>1 DEF Holders
      <3>2. Me \in Holders(room.seats, next.seats[Me].color)
        BY <1>6, <2>2, <3>1
      <3> QED BY <3>2 DEF Holders
    <2> QED BY <2>1, <2>2 DEF Occupant
  <1> DEFINE news == NewRatingsMessages(r)
             count == CountdownMessages(r)
             v1 == Told(news, v)
             v2 == Told(count, v1)
  <1>10. /\ \E S : news \in Seq(S)
         /\ v1.room = v.room /\ v1.countdown = v.countdown /\ v1.colors = v.colors
         /\ v1.roster = IF Settles(rooms[r], rooms'[r]) /\ Me \in rooms[r].members
                        THEN RosterOf(rooms'[r].seats) ELSE v.roster
    BY NewRatingsTold
  <1>11. /\ \E S : count \in Seq(S)
         /\ v2.room = v1.room /\ v2.colors = v1.colors /\ v2.roster = v1.roster
         /\ Me \notin room.members \/ next.vacancies = << >> => v2.countdown = v1.countdown
    <2> HIDE DEF v1
    <2>1. CASE Me \in room.members
      <3> DEFINE left == next.vacancies
      <3>1. left \in Seq(Vacancy)
        BY <1>6 DEF RoomInv, IsRoom
      <3>2. count = Countdowns(left)
        BY <1>7, <2>1 DEF CountdownMessages, Countdowns
      <3> HIDE DEF count, left
      <3>3. /\ \E T : Countdowns(left) \in Seq(T)
            /\ Told(Countdowns(left), v1).room = v1.room
            /\ Told(Countdowns(left), v1).colors = v1.colors
            /\ Told(Countdowns(left), v1).roster = v1.roster
            /\ left = << >> => Told(Countdowns(left), v1).countdown = v1.countdown
        BY <3>1, CountdownTold
      <3> QED BY <2>1, <3>2, <3>3 DEF left
    <2>2. CASE Me \notin room.members
      <3>1. count = << >> /\ count \in Seq({})
        BY <2>2 DEF CountdownMessages
      <3> HIDE DEF count
      <3> QED BY <2>2, <3>1, ToldNothing
    <2> QED BY <2>1, <2>2
  <1> HIDE DEF news, count, v1, v2, room
  <1>12. /\ \E S : news \o count \in Seq(S)
         /\ Told(news \o count, v) = v2
    <2>1. PICK S1 : news \in Seq(S1)
      BY <1>10
    <2>2. PICK S2 : count \in Seq(S2)
      BY <1>11
    <2>3. news \in Seq(S1 \cup S2) /\ count \in Seq(S1 \cup S2)
      BY <2>1, <2>2
    <2>4. news \o count \in Seq(S1 \cup S2)
      BY <2>3, ConcatFacts
    <2>5. Told(news \o count, v) = Told(count, Told(news, v))
      BY <2>3, ToldBoth
    <2> QED BY <2>4, <2>5 DEF v1, v2
  <1>13. TickMessages(r) = news \o count
    BY DEF TickMessages, news, count
  <1>14. ASSUME RoomsAreTold(v, rooms, Gone)
         PROVE  RoomsAreTold(v2, rooms', Gone)
    <2>1. Me \in next.members <=> Me \in rooms[r].members
      BY <1>6 DEF room
    <2>2. ASSUME Me \in rooms[r].members
          PROVE  /\ next.seats[Me].color \in {rooms[r].seats[Me].color, Spectator}
                 /\ Awaited(rooms[r]) => Awaited(next)
                 /\ v2.countdown = v.countdown \/ next.vacancies # << >>
                 /\ \/ v2.roster = RosterOf(next.seats)
                    \/ v2.roster = v.roster /\ RosterOf(next.seats) = RosterOf(rooms[r].seats)
      <3>1. v2.countdown = v.countdown \/ next.vacancies # << >>
        BY <1>10, <1>11
      <3>2. \/ v2.roster = RosterOf(next.seats)
            \/ v2.roster = v.roster /\ RosterOf(next.seats) = RosterOf(rooms[r].seats)
        <4>1. Settles(rooms[r], rooms'[r]) \/ next.seats = rooms[r].seats
          BY <1>6, <1>7 DEF room
        <4> QED BY <1>7, <1>10, <1>11, <2>2, <4>1
      <3> QED BY <1>8, <1>9, <2>2, <3>1, <3>2 DEF room
    <2>3. Me \notin rooms[r].members => v2.countdown = v.countdown /\ v2.roster = v.roster
      BY <1>10, <1>11 DEF room
    <2>4. v2.colors = v.colors
      BY <1>10, <1>11
    <2>5. Gone \subseteq Gone
      OBVIOUS
    <2>6. RoomsAreTold(v2, [rooms EXCEPT ![r] = next], Gone)
      BY <1>2, <1>14, <2>1, <2>2, <2>3, <2>4, <2>5, OneRoomTold
    <2> QED BY <1>5, <2>6
  <1>15. Mine(rooms') = Mine(rooms)
    BY <1>2, <1>5, <1>6 DEF Mine, room
  <1> QED BY <1>10, <1>11, <1>12, <1>13, <1>14, <1>15


-----------------------------------------------------------------------------
(***************************************************************************)
(* A step of the server, whoever asked for it, and what it tells the       *)
(* window: whatever view was right before it is right once that is heard.  *)
(***************************************************************************)
ServerStep(messages) ==
    /\ \E S : messages \in Seq(S)
    /\ conn'[Me] = conn[Me]
    /\ conn[Me] = "New" /\ Mine(rooms) = {} => Mine(rooms') = {}
    /\ socket = "Open" =>
          \A v : ViewInv(v, clients, rooms, Gone)
                    => ViewInv(Told(messages, v), clients', rooms', Gone')

ServerTells ==
    \E messages :
       /\ ServerStep(messages)
       /\ down' = IF socket = "Open" THEN down \o messages ELSE down

LEMMA NothingIsTold ==
    ASSUME ScreenInv, ServerStep(<< >>), down' = down
    PROVE  ServerTells
  <1>1. PICK S : down \in Seq(S)
    BY DEF ScreenInv
  <1>2. down \o << >> = down
    BY <1>1
  <1> QED BY <1>2 DEF ServerTells

LEMMA OpenIsNotGone ==
    ASSUME ScreenInv
    PROVE  /\ socket = "Open" => Me \notin Gone
           /\ conn[Me] = "New" => Me \notin Gone /\ Me \notin DOMAIN clients
  BY DEF ScreenInv, LobbyInv, ClientsInv, Gone

\* Nothing changes that the window is told of.
LEMMA QuietStep ==
    ASSUME ScreenInv, NEW S, NEW messages \in Seq(S), Idle(messages),
           rooms' = rooms, conn'[Me] = conn[Me], Gone \subseteq Gone',
           socket = "Open" => MyRoom(clients') = MyRoom(clients)
    PROVE  ServerStep(messages)
  <1>1. ASSUME socket = "Open", NEW v, ViewInv(v, clients, rooms, Gone)
        PROVE  ViewInv(Told(messages, v), clients', rooms', Gone')
    <2> DEFINE w == Told(messages, v)
    <2>1. /\ w.room = v.room /\ w.countdown = v.countdown
          /\ w.colors = v.colors /\ w.roster = v.roster
      BY ToldIdly
    <2> HIDE DEF w
    <2>2. RoomsAreTold(w, rooms, Gone')
      BY <1>1, <2>1 DEF ViewInv, RoomsAreTold
    <2>3. w.room = MyRoom(clients')
      BY <1>1, <2>1 DEF ViewInv
    <2>4. ViewInv(w, clients', rooms', Gone')
      BY <2>2, <2>3 DEF ViewInv
    <2> QED BY <2>4 DEF w
  <1> QED BY <1>1 DEF ServerStep

LEMMA NothingIsIdle == Idle(<< >>) /\ << >> \in Seq({})
  BY DEF Idle

LEMMA OneIdleMessage ==
    ASSUME NEW m, m.tag \in {"NOMATCH", "ROOMERR", "AUTHFAIL"}
    PROVE  Idle(<< m >>) /\ << m >> \in Seq({m})
  BY DEF Idle

\* The view of a window that is in no room.
LEMMA SomeViewIsRight ==
    ASSUME NEW all, NEW gone, Mine(all) = {}
    PROVE  RoomsAreTold([room |-> NoRoom, countdown |-> {}, colors |-> {},
                         roster |-> NoRoster], all, gone)
  <1> DEFINE v == [room |-> NoRoom, countdown |-> {}, colors |-> {}, roster |-> NoRoster]
  <1>1. v.countdown = {} /\ v.roster = NoRoster
    OBVIOUS
  <1> HIDE DEF v
  <1>2. RoomsAreTold(v, all, gone)
    BY <1>1 DEF RoomsAreTold
  <1> QED BY <1>2 DEF v

-----------------------------------------------------------------------------
(***************************************************************************)
(* The steps of the server.                                                *)
(***************************************************************************)
\* createRoom and joinRoom.
LEMMA EnterStep ==
    ASSUME ScreenInv, NEW c \in DOMAIN clients, NEW r \in RoomId, EnterRoom(c, r),
           conn' = conn,
           NEW before, before = (IF r \in DOMAIN rooms THEN rooms[r] ELSE NewRoom)
    PROVE  ServerStep(EntryMessages(c, r, before, rooms'[r]))
  <1> DEFINE m == EntryMessages(c, r, before, rooms'[r])
  <1>1. rooms' = Entered(rooms, c, r) /\ clients' = Located({c}, r)
    BY DEF EnterRoom
  <1>2. /\ ClientsInv(clients) /\ RoomsInv(rooms, Gone) /\ c \notin Gone /\ conn[c] = "Open"
    BY ClientIsOpen DEF ScreenInv, LobbyInv
  <1>3. Gone' = Gone
    BY DEF Gone
  <1>4. MyRoom(clients') = IF c = Me THEN r ELSE MyRoom(clients)
    BY <1>1, <1>2, LocatedType DEF MyRoom
  <1>5. ASSUME Me \notin Gone, NEW v, RoomsAreTold(v, rooms, Gone)
        PROVE  /\ Told(m, v).room = IF c = Me THEN r ELSE v.room
               /\ RoomsAreTold(Told(m, v), rooms', Gone)
               /\ c # Me => Mine(rooms') = Mine(rooms)
    <2> DEFINE now == Entered(rooms, c, r)
               n == EntryMessages(c, r, before, now[r])
    <2>1. /\ Told(n, v).room = IF c = Me THEN r ELSE v.room
          /\ RoomsAreTold(Told(n, v), now, Gone)
          /\ c # Me => Mine(now) = Mine(rooms)
      BY <1>2, <1>5, EntryKeepsView
    <2>2. rooms' = now /\ m = n
      BY <1>1
    <2> HIDE DEF now, m, n
    <2> QED BY <2>1, <2>2
  <1>6. \E S : m \in Seq(S)
    BY EntryTold
  <1> HIDE DEF m
  <1>7. ASSUME conn[Me] = "New", Mine(rooms) = {}
        PROVE  Mine(rooms') = {}
    <2>1. Me \notin Gone /\ c # Me
      BY <1>2, <1>7, OpenIsNotGone
    <2>2. \E v : RoomsAreTold(v, rooms, Gone)
      BY <1>7, SomeViewIsRight
    <2> QED BY <1>5, <1>7, <2>1, <2>2
  <1>8. ASSUME socket = "Open", NEW v, ViewInv(v, clients, rooms, Gone)
        PROVE  ViewInv(Told(m, v), clients', rooms', Gone')
    <2>1. Me \notin Gone /\ RoomsAreTold(v, rooms, Gone) /\ v.room = MyRoom(clients)
      BY <1>8, OpenIsNotGone DEF ViewInv
    <2>2. /\ Told(m, v).room = IF c = Me THEN r ELSE v.room
          /\ RoomsAreTold(Told(m, v), rooms', Gone)
      BY <1>5, <2>1
    <2> QED BY <1>3, <1>4, <2>1, <2>2 DEF ViewInv
  <1>9. ServerStep(m)
    BY <1>6, <1>7, <1>8 DEF ServerStep
  <1> QED BY <1>9 DEF m

LEMMA CreateIsTold ==
    ASSUME ScreenInv, NEW c \in Client, Create(c)
    PROVE  ServerTells
  <1>1. PICK r \in RoomId :
           CreateRoom(c, r) /\ Tell(EntryMessages(c, r, NewRoom, rooms'[r]))
    BY DEF Create
  <1>2. c \in DOMAIN clients /\ r \notin DOMAIN rooms /\ EnterRoom(c, r) /\ conn' = conn
    BY <1>1 DEF CreateRoom, NewId
  <1>3. ServerStep(EntryMessages(c, r, NewRoom, rooms'[r]))
    BY <1>2, EnterStep
  <1> QED BY <1>1, <1>3 DEF ServerTells, Tell

LEMMA JoinIsTold ==
    ASSUME ScreenInv, NEW c \in Client, NEW r, JoinAt(c, r)
    PROVE  ServerTells
  <1>1. JoinRoom(c, r) /\ Tell(EntryMessages(c, r, rooms[r], rooms'[r]))
    BY DEF JoinAt
  <1>2. c \in DOMAIN clients /\ r \in DOMAIN rooms /\ EnterRoom(c, r) /\ conn' = conn
    BY <1>1 DEF JoinRoom
  <1>3. r \in RoomId
    BY <1>2 DEF ScreenInv, LobbyInv, RoomsInv
  <1>4. ServerStep(EntryMessages(c, r, rooms[r], rooms'[r]))
    BY <1>2, <1>3, EnterStep
  <1> QED BY <1>1, <1>4 DEF ServerTells, Tell

\* handleSeek with an opponent: two entries, one after the other.
LEMMA MeetIsTold ==
    ASSUME ScreenInv, NEW c \in Client, Meet(c)
    PROVE  ServerTells
  <1> DEFINE i == OpponentAt(queue, clients[c].rating)
             first == queue[i].client
  <1>1. PICK r \in RoomId : SeekAndMeet(c, r) /\ Tell(MeetingMessages(first, c, r))
    BY DEF Meet
  <1> DEFINE half == Entered(rooms, first, r)
             now == Entered(half, c, r)
             m1 == EntryMessages(first, r, NewRoom, half[r])
             m2 == EntryMessages(c, r, half[r], now[r])
  <1>2. /\ c \in DOMAIN clients /\ ~IsWaiting(queue, c) /\ i # 0
        /\ r \notin DOMAIN rooms
        /\ clients' = Located({first, c}, r) /\ rooms' = now
        /\ conn' = conn
    BY <1>1 DEF SeekAndMeet, NewId
  <1>3. i \in DOMAIN queue
    BY <1>2, OpponentFound DEF ScreenInv, LobbyInv, QueueInv
  <1> HIDE DEF i
  <1>4. first \in DOMAIN clients /\ first # c
    BY <1>2, <1>3 DEF ScreenInv, LobbyInv, QueueInv, IsWaiting
  <1>5. MeetingMessages(first, c, r) = m1 \o m2
    <2> DEFINE entered == AddClient(NewRoom, first, clients[first].user, clients[first].rating)
    <2>1. half = Extended(rooms, r, entered)
      BY <1>2 DEF Entered
    <2> HIDE DEF entered, half
    <2>2. half[r] = entered
      BY <2>1 DEF Extended
    <2>3. MeetingMessages(first, c, r)
             = EntryMessages(first, r, NewRoom, entered) \o EntryMessages(c, r, entered, rooms'[r])
      BY DEF MeetingMessages, entered
    <2>4. rooms'[r] = now[r]
      BY <1>2
    <2> QED BY <2>2, <2>3, <2>4
  <1>6. Tell(m1 \o m2)
    BY <1>1, <1>5
  <1> HIDE DEF first
  <1>7. /\ ClientsInv(clients) /\ RoomsInv(rooms, Gone)
        /\ c \notin Gone /\ conn[c] = "Open" /\ first \notin Gone /\ conn[first] = "Open"
    BY <1>2, <1>4, ClientIsOpen DEF ScreenInv, LobbyInv
  <1>8. RoomsInv(half, Gone) /\ r \in DOMAIN half
    <2> HIDE DEF now, m1, m2
    <2>1. /\ RoomsInv(half, Gone) /\ DOMAIN half = DOMAIN rooms \cup {r}
          /\ first \in half[r].members
          /\ \A q \in DOMAIN rooms \ {r} : half[q] = rooms[q]
      <3>1. /\ ClientsInv(clients) /\ RoomsInv(rooms, Gone)
            /\ first \in DOMAIN clients /\ first \notin Gone
        BY <1>4, <1>7
      <3> QED BY <3>1, EnteredInv
    <2> QED BY <2>1
  <1>9. Gone' = Gone
    BY <1>2 DEF Gone
  <1>10. MyRoom(clients') = IF Me \in {first, c} THEN r ELSE MyRoom(clients)
    BY <1>2, <1>4, <1>7, LocatedType DEF MyRoom
  <1>11. ASSUME Me \notin Gone, NEW v, RoomsAreTold(v, rooms, Gone)
         PROVE  /\ Told(m1, v).room = IF first = Me THEN r ELSE v.room
                /\ RoomsAreTold(Told(m1, v), half, Gone)
                /\ first # Me => Mine(half) = Mine(rooms)
    BY <1>2, <1>4, <1>7, <1>11, EntryKeepsView
  <1>12. ASSUME Me \notin Gone, NEW v, RoomsAreTold(v, half, Gone)
         PROVE  /\ Told(m2, v).room = IF c = Me THEN r ELSE v.room
                /\ RoomsAreTold(Told(m2, v), now, Gone)
                /\ c # Me => Mine(now) = Mine(half)
    <2> HIDE DEF half
    <2> QED BY <1>2, <1>7, <1>8, <1>12, EntryKeepsView
  <1>13. (\E S : m1 \in Seq(S)) /\ (\E S : m2 \in Seq(S))
    <2> HIDE DEF half, now
    <2> QED BY EntryTold
  <1> HIDE DEF half, now, m1, m2
  <1>14. PICK S : m1 \in Seq(S) /\ m2 \in Seq(S)
    <2>1. PICK S1 : m1 \in Seq(S1)
      BY <1>13
    <2>2. PICK S2 : m2 \in Seq(S2)
      BY <1>13
    <2>3. m1 \in Seq(S1 \cup S2) /\ m2 \in Seq(S1 \cup S2)
      BY <2>1, <2>2
    <2> QED BY <2>3
  <1>15. /\ m1 \o m2 \in Seq(S)
         /\ \A v : Told(m1 \o m2, v) = Told(m2, Told(m1, v))
    BY <1>14, ConcatFacts, ToldBoth
  <1>16. ASSUME Me \notin Gone, NEW v, RoomsAreTold(v, rooms, Gone)
         PROVE  /\ Told(m1 \o m2, v).room = IF Me \in {first, c} THEN r ELSE v.room
                /\ RoomsAreTold(Told(m1 \o m2, v), rooms', Gone)
                /\ Me \notin {first, c} => Mine(rooms') = Mine(rooms)
    <2> DEFINE v1 == Told(m1, v)
               v2 == Told(m2, v1)
    <2>1. /\ v1.room = IF first = Me THEN r ELSE v.room
          /\ RoomsAreTold(v1, half, Gone)
          /\ first # Me => Mine(half) = Mine(rooms)
      BY <1>11, <1>16
    <2> HIDE DEF v1
    <2>2. /\ v2.room = IF c = Me THEN r ELSE v1.room
          /\ RoomsAreTold(v2, now, Gone)
          /\ c # Me => Mine(now) = Mine(half)
      BY <1>12, <1>16, <2>1
    <2>3. Told(m1 \o m2, v) = v2
      BY <1>15 DEF v1
    <2> HIDE DEF v2
    <2> QED BY <1>2, <2>1, <2>2, <2>3
  <1> DEFINE m == m1 \o m2
  <1>17. m \in Seq(S) /\ Tell(m)
    BY <1>6, <1>15
  <1>18. ASSUME Me \notin Gone, NEW v, RoomsAreTold(v, rooms, Gone)
         PROVE  /\ Told(m, v).room = IF Me \in {first, c} THEN r ELSE v.room
                /\ RoomsAreTold(Told(m, v), rooms', Gone)
                /\ Me \notin {first, c} => Mine(rooms') = Mine(rooms)
    BY <1>16, <1>18
  <1> HIDE DEF m
  <1>19. ASSUME conn[Me] = "New", Mine(rooms) = {}
         PROVE  Mine(rooms') = {}
    <2>1. Me \notin Gone /\ Me \notin {first, c}
      BY <1>7, <1>19, OpenIsNotGone
    <2>2. \E v : RoomsAreTold(v, rooms, Gone)
      BY <1>19, SomeViewIsRight
    <2> QED BY <1>18, <1>19, <2>1, <2>2
  <1>20. ASSUME socket = "Open", NEW v, ViewInv(v, clients, rooms, Gone)
         PROVE  ViewInv(Told(m, v), clients', rooms', Gone')
    <2>1. Me \notin Gone /\ RoomsAreTold(v, rooms, Gone) /\ v.room = MyRoom(clients)
      BY <1>20, OpenIsNotGone DEF ViewInv
    <2>2. /\ Told(m, v).room = IF Me \in {first, c} THEN r ELSE v.room
          /\ RoomsAreTold(Told(m, v), rooms', Gone)
      BY <1>18, <2>1
    <2> QED BY <1>9, <1>10, <2>1, <2>2 DEF ViewInv
  <1>21. ServerStep(m)
    BY <1>2, <1>17, <1>19, <1>20 DEF ServerStep
  <1> QED BY <1>17, <1>21 DEF ServerTells, Tell

\* A connection other than the window's closes.
LEMMA OthersLeave ==
    ASSUME ScreenInv, NEW c \in Client \ {Me}, Disconnect(c)
    PROVE  ServerStep(<< >>)
  <1> DEFINE left == Removed(clients, c)
  <1>1. /\ conn[c] = "Open" /\ conn' = [conn EXCEPT ![c] = "Closed"]
        /\ clients' = left
        /\ rooms' = IF c \in DOMAIN clients /\ clients[c].room # NoRoom
                    THEN [rooms EXCEPT ![clients[c].room] = HandleDisconnect(@, c)]
                    ELSE rooms
    BY DEF Disconnect
  <1>2. conn \in [Client -> {"New", "Open", "Closed"}] /\ Me \in Client
    BY MeType DEF ScreenInv, LobbyInv, ClientsInv
  <1>3. Gone \subseteq Gone' /\ conn'[Me] = conn[Me]
    BY <1>1, <1>2 DEF Gone
  <1>4. DOMAIN left = DOMAIN clients \ {c} /\ \A d \in DOMAIN left : left[d] = clients[d]
    BY DEF Removed, Without
  <1> HIDE DEF left
  <1>5. MyRoom(clients') = MyRoom(clients)
    BY <1>1, <1>4 DEF MyRoom
  <1>6. CASE ~(c \in DOMAIN clients /\ clients[c].room # NoRoom)
    <2>1. rooms' = rooms
      BY <1>1, <1>6
    <2> QED BY <1>3, <1>5, <2>1, QuietStep, NothingIsIdle
  <1>7. CASE c \in DOMAIN clients /\ clients[c].room # NoRoom
    <2> DEFINE r == clients[c].room
               next == HandleDisconnect(rooms[r], c)
    <2>1. r \in DOMAIN rooms
      BY <1>7 DEF ScreenInv, LobbyInv, LocatedInv
    <2>2. rooms' = [rooms EXCEPT ![r] = next]
      BY <1>1, <1>7
    <2> HIDE DEF r
    <2>3. RoomInv(rooms[r])
      BY <2>1 DEF ScreenInv, LobbyInv, RoomsInv
    <2>4. /\ next.members = rooms[r].members \ {c}
          /\ Me \in rooms[r].members => next.seats[Me] = rooms[r].seats[Me]
          /\ Awaited(rooms[r]) => Awaited(next)
          /\ RosterOf(next.seats) = RosterOf(rooms[r].seats)
      BY <2>3, DropKeepsRoom
    <2> HIDE DEF next
    <2>5. Me \in next.members <=> Me \in rooms[r].members
      BY <2>4
    <2>6. Mine(rooms') = Mine(rooms)
      BY <2>1, <2>2, <2>5 DEF Mine
    <2>7. ASSUME NEW v, ViewInv(v, clients, rooms, Gone)
          PROVE  ViewInv(Told(<< >>, v), clients', rooms', Gone')
      <3> DEFINE w == Told(<< >>, v)
      <3>1. /\ w.room = v.room /\ w.countdown = v.countdown
            /\ w.colors = v.colors /\ w.roster = v.roster
        BY ToldNothing
      <3> HIDE DEF w
      <3>2. RoomsAreTold(v, rooms, Gone)
        BY <2>7 DEF ViewInv
      <3>3. /\ Me \in rooms[r].members =>
                  /\ next.seats[Me].color \in {rooms[r].seats[Me].color, Spectator}
                  /\ Awaited(rooms[r]) => Awaited(next)
                  /\ \/ w.countdown = v.countdown
                     \/ next.vacancies # << >>
                  /\ \/ w.roster = RosterOf(next.seats)
                     \/ w.roster = v.roster /\ RosterOf(next.seats) = RosterOf(rooms[r].seats)
            /\ Me \notin rooms[r].members =>
                  w.countdown = v.countdown /\ w.roster = v.roster
        BY <2>4, <3>1
      <3>4. RoomsAreTold(w, [rooms EXCEPT ![r] = next], Gone')
        BY <1>3, <2>1, <2>5, <3>1, <3>2, <3>3, OneRoomTold
      <3>5. ViewInv(w, clients', rooms', Gone')
        BY <1>5, <2>2, <2>7, <3>1, <3>4 DEF ViewInv
      <3> QED BY <3>5 DEF w
    <2>8. \E S : << >> \in Seq(S)
      BY NothingIsIdle
    <2> QED BY <1>3, <2>6, <2>7, <2>8 DEF ServerStep
  <1> QED BY <1>6, <1>7

LEMMA RoomTickIsTold ==
    ASSUME ScreenInv, NEW r \in RoomId, RoomTickStep(r)
    PROVE  ServerTells
  <1> DEFINE m == TickMessages(r)
  <1>1. /\ RoomTicks(r) /\ Tell(m)
        /\ conn' = conn /\ clients' = clients
    BY DEF RoomTickStep, RoomTicks, TickMessages
  <1>2. LobbyInv
    BY DEF ScreenInv
  <1>3. (\E S : m \in Seq(S)) /\ Mine(rooms') = Mine(rooms)
    BY <1>1, <1>2, RoomTickKeepsView
  <1>4. ASSUME NEW v, ViewInv(v, clients, rooms, Gone)
        PROVE  ViewInv(Told(m, v), clients', rooms', Gone')
    <2>1. RoomsAreTold(v, rooms, Gone) /\ v.room = MyRoom(clients)
      BY <1>4 DEF ViewInv
    <2>2. Told(m, v).room = v.room /\ RoomsAreTold(Told(m, v), rooms', Gone)
      BY <1>1, <1>2, <2>1, RoomTickKeepsView
    <2>3. Gone' = Gone
      BY <1>1 DEF Gone
    <2> HIDE DEF m
    <2> QED BY <1>1, <2>1, <2>2, <2>3 DEF ViewInv
  <1> HIDE DEF m
  <1>5. ServerStep(m)
    BY <1>1, <1>3, <1>4 DEF ServerStep
  <1> QED BY <1>1, <1>5 DEF ServerTells, Tell

LEMMA SearchTickIsTold ==
    ASSUME ScreenInv, SearchTick
    PROVE  ServerTells
  <1>1. Tell(EndedSearch) /\ conn' = conn /\ clients' = clients /\ rooms' = rooms
    BY DEF SearchTick, StartTick
  <1>2. Gone' = Gone
    BY <1>1 DEF Gone
  <1>3. (\E S : EndedSearch \in Seq(S)) /\ Idle(EndedSearch)
    <2> DEFINE m == [tag |-> "NOMATCH"]
    <2>1. (EndedSearch = << m >> \/ EndedSearch = << >>) /\ m.tag = "NOMATCH"
      BY DEF EndedSearch
    <2> HIDE DEF m
    <2>2. Idle(<< m >>) /\ << m >> \in Seq({m})
      BY <2>1, OneIdleMessage
    <2> QED BY <2>1, <2>2, NothingIsIdle
  <1>4. ServerStep(EndedSearch)
    BY <1>1, <1>2, <1>3, QuietStep
  <1> QED BY <1>1, <1>4 DEF ServerTells, Tell

\* A step that tells nothing and leaves the rooms and the window's record.
LEMMA SilentStep ==
    ASSUME ScreenInv, rooms' = rooms, conn'[Me] = conn[Me], Gone \subseteq Gone',
           MyRoom(clients') = MyRoom(clients), down' = down
    PROVE  ServerTells
  BY QuietStep, NothingIsIdle, NothingIsTold

\* A request that is refused.
LEMMA RefusalIsTold ==
    ASSUME ScreenInv, UNCHANGED vars,
           NEW m, m.tag \in {"ROOMERR", "AUTHFAIL"}, Tell(<< m >>)
    PROVE  ServerTells
  <1>1. conn' = conn /\ clients' = clients /\ rooms' = rooms
    BY DEF vars
  <1>2. Gone' = Gone
    BY <1>1 DEF Gone
  <1>3. Idle(<< m >>) /\ << m >> \in Seq({m})
    BY OneIdleMessage
  <1>4. ServerStep(<< m >>)
    BY <1>1, <1>2, <1>3, QuietStep
  <1> QED BY <1>4 DEF ServerTells, Tell

LEMMA LoginIsSilent ==
    ASSUME ScreenInv, NEW c \in Client, NEW user \in User, Login(c, user),
           c = Me => Me \notin DOMAIN clients, down' = down
    PROVE  ServerTells
  <1> DEFINE record == [user |-> user, rating |-> store[user], room |-> NoRoom]
  <1>1. clients' = Extended(clients, c, record) /\ conn' = conn /\ rooms' = rooms
    BY DEF Login
  <1>2. record.room = NoRoom
    OBVIOUS
  <1> HIDE DEF record
  <1>3. /\ DOMAIN clients' = DOMAIN clients \cup {c} /\ clients'[c] = record
        /\ \A d \in DOMAIN clients \ {c} : clients'[d] = clients[d]
    BY <1>1 DEF Extended
  <1>4. MyRoom(clients') = MyRoom(clients)
    BY <1>2, <1>3 DEF MyRoom
  <1>5. Gone' = Gone
    BY <1>1 DEF Gone
  <1> QED BY <1>1, <1>4, <1>5, SilentStep

\* A command sets something travelling: no seat, member or vacancy changes, and
\* the game is neither begun nor ended.
LEMMA CommandIsSilent ==
    ASSUME ScreenInv, NEW c \in Client, Command(c), down' = down
    PROVE  ServerTells
  <1> DEFINE r == clients[c].room
             room == rooms[r]
             next == ApplyCommand(room)
  <1>1. /\ rooms' = [rooms EXCEPT ![r] = next]
        /\ conn' = conn /\ clients' = clients
        /\ c \in DOMAIN clients /\ r \in RoomId
    BY ContestedType DEF Command
  <1>2. r \in DOMAIN rooms /\ RoomInv(room)
    BY <1>1, NoRoomIsNoId DEF ScreenInv, LobbyInv, LocatedInv, RoomsInv
  <1>3. /\ DOMAIN room = {"seats", "members", "vacancies", "match"}
        /\ room.match \in MatchValue
    BY <1>2 DEF RoomInv, IsRoom
  <1>4. /\ next.seats = room.seats /\ next.members = room.members
        /\ next.vacancies = room.vacancies /\ next.match.over = room.match.over
    <2> DEFINE m == Commanded(room.match)
    <2>1. m.over = room.match.over
      BY <1>3 DEF Commanded, MatchValue
    <2>2. next = [room EXCEPT !.match = m]
      BY DEF ApplyCommand
    <2> HIDE DEF m, room, next
    <2> QED BY <1>3, <2>1, <2>2
  <1> HIDE DEF next, r, room
  <1>5. Gone' = Gone
    BY <1>1 DEF Gone
  <1>6. Mine(rooms') = Mine(rooms)
    BY <1>1, <1>2, <1>4 DEF Mine, room
  <1>7. ASSUME NEW v, ViewInv(v, clients, rooms, Gone)
        PROVE  ViewInv(v, clients', rooms', Gone')
    <2>1. RoomsAreTold(v, rooms, Gone)
      BY <1>7 DEF ViewInv
    <2>2. ASSUME Me \in rooms[r].members
          PROVE  /\ next.seats[Me].color \in {rooms[r].seats[Me].color, Spectator}
                 /\ Awaited(rooms[r]) => Awaited(next)
                 /\ v.countdown = v.countdown \/ next.vacancies # << >>
                 /\ \/ v.roster = RosterOf(next.seats)
                    \/ v.roster = v.roster /\ RosterOf(next.seats) = RosterOf(rooms[r].seats)
      BY <1>4 DEF room, Awaited
    <2>3. Me \in next.members <=> Me \in rooms[r].members
      BY <1>4 DEF room
    <2>4. RoomsAreTold(v, [rooms EXCEPT ![r] = next], Gone)
      BY <1>2, <2>1, <2>2, <2>3, OneRoomTold
    <2> QED BY <1>1, <1>5, <1>7, <2>4 DEF ViewInv
  <1>8. \A v : ViewInv(v, clients, rooms, Gone)
                => ViewInv(Told(<< >>, v), clients', rooms', Gone')
    <2> TAKE v
    <2> HAVE ViewInv(v, clients, rooms, Gone)
    <2> DEFINE w == Told(<< >>, v)
    <2>1. /\ w.room = v.room /\ w.countdown = v.countdown
          /\ w.colors = v.colors /\ w.roster = v.roster
      BY ToldNothing
    <2> HIDE DEF w
    <2>2. ViewInv(v, clients', rooms', Gone')
      BY <1>7
    <2> QED BY <2>1, <2>2 DEF ViewInv, RoomsAreTold, w
  <1>9. << >> \in Seq({})
    OBVIOUS
  <1>10. ServerStep(<< >>)
    BY <1>1, <1>6, <1>8, <1>9 DEF ServerStep
  <1> QED BY <1>10, NothingIsTold

\* Whatever the other connections do.
LEMMA OthersAreTold ==
    ASSUME ScreenInv, NEW c \in Client \ {Me}, OthersAct(c)
    PROVE  ServerTells
  <1>1. CASE Connect(c) /\ down' = down
    <2>1. conn[c] = "New" /\ conn' = [conn EXCEPT ![c] = "Open"]
          /\ clients' = clients /\ rooms' = rooms
      BY <1>1 DEF Connect
    <2>2. conn \in [Client -> {"New", "Open", "Closed"}] /\ Me \in Client
      BY MeType DEF ScreenInv, LobbyInv, ClientsInv
    <2>3. Gone \subseteq Gone' /\ conn'[Me] = conn[Me]
      BY <2>1, <2>2 DEF Gone
    <2> QED BY <1>1, <2>1, <2>3, SilentStep
  <1>2. CASE Disconnect(c) /\ down' = down
    BY <1>2, OthersLeave, NothingIsTold
  <1>3. CASE (SeekAndWait(c) \/ CancelSeek(c)) /\ down' = down
    <2>1. conn' = conn /\ clients' = clients /\ rooms' = rooms
      BY <1>3 DEF SeekAndWait, CancelSeek
    <2>2. Gone' = Gone
      BY <2>1 DEF Gone
    <2> QED BY <1>3, <2>1, <2>2, SilentStep
  <1>4. ASSUME NEW user \in User, Login(c, user), down' = down
        PROVE  ServerTells
    BY <1>4, LoginIsSilent
  <1>5. CASE Create(c)
    BY <1>5, CreateIsTold
  <1>6. CASE Meet(c)
    BY <1>6, MeetIsTold
  <1>7. ASSUME NEW r \in RoomId, JoinAt(c, r)
        PROVE  ServerTells
    BY <1>7, JoinIsTold
  <1>8. CASE Command(c) /\ down' = down
    BY <1>8, CommandIsSilent
  <1> QED BY <1>1, <1>2, <1>3, <1>4, <1>5, <1>6, <1>7, <1>8 DEF OthersAct

-----------------------------------------------------------------------------
(***************************************************************************)
(* The window hears of a step of the server.                               *)
(***************************************************************************)
ViewStays ==
    /\ socket' = socket
    /\ shownRoom' = shownRoom /\ countdown' = countdown
    /\ ownColors' = ownColors /\ shownRoster' = shownRoster

\* The requests on their way: the same, or one has arrived.
RequestsArrive ==
    \/ up' = up /\ (Me \notin DOMAIN clients => Me \notin DOMAIN clients')
    \/ up # << >> /\ up' = Tail(up)

LEMMA RequestsStay ==
    ASSUME ScreenInv, RequestsArrive
    PROVE  up' \in Seq(Request) /\ LoginIsFirst' /\ (up' # << >> => up # << >>)
  <1>1. up \in Seq(Request) /\ LoginIsFirst
    BY DEF ScreenInv
  <1>2. CASE up' = up /\ (Me \notin DOMAIN clients => Me \notin DOMAIN clients')
    BY <1>1, <1>2 DEF LoginIsFirst
  <1>3. CASE up # << >> /\ up' = Tail(up)
    <2> DEFINE n == Len(up)
    <2>1. n \in Nat \ {0} /\ DOMAIN up = 1 .. n
      BY <1>1, <1>3
    <2>2. up' \in Seq(Request) /\ DOMAIN up' = 1 .. n - 1
      BY <1>1, <1>3
    <2>3. \A i \in 1 .. n - 1 : up'[i] = up[i + 1]
      BY <1>1, <1>3
    <2> HIDE DEF n
    <2>4. \A i \in 1 .. n - 1 : i + 1 \in DOMAIN up /\ i + 1 # 1
      BY <2>1
    <2>5. \A i \in DOMAIN up' : up'[i].tag # "LOGIN"
      BY <1>1, <2>2, <2>3, <2>4 DEF LoginIsFirst
    <2> QED BY <1>3, <2>2, <2>5 DEF LoginIsFirst
  <1> QED BY <1>2, <1>3 DEF RequestsArrive

LEMMA StepIsHeard ==
    ASSUME ScreenInv, LobbyInv', ServerTells, ViewStays, RequestsArrive
    PROVE  ScreenInv'
  <1>1. PICK messages :
           /\ ServerStep(messages)
           /\ down' = IF socket = "Open" THEN down \o messages ELSE down
    BY DEF ServerTells
  <1>2. up' \in Seq(Request) /\ LoginIsFirst' /\ (up' # << >> => up # << >>)
    BY RequestsStay
  <1>3. PICK S1 : down \in Seq(S1)
    BY DEF ScreenInv
  <1>4. PICK S2 : messages \in Seq(S2)
    BY <1>1 DEF ServerStep
  <1> DEFINE S == S1 \cup S2
  <1>5. down \in Seq(S) /\ messages \in Seq(S)
    BY <1>3, <1>4
  <1> HIDE DEF S
  <1>6. down \o messages \in Seq(S)
    BY <1>5, ConcatFacts
  <1>7. Shown' = Shown
    BY DEF ViewStays, Shown
  <1>8. \E T : down' \in Seq(T)
    BY <1>1, <1>5, <1>6
  <1>9. ASSUME socket = "Connecting"
        PROVE  IsUnknown' /\ ShowsNothing'
    <2>1. IsUnknown /\ ShowsNothing
      BY <1>9 DEF ScreenInv
    <2>2. up' = << >> /\ down' = << >>
      BY <1>1, <1>2, <1>9, <2>1 DEF IsUnknown
    <2>3. conn'[Me] = "New" /\ Mine(rooms') = {}
      BY <1>1, <2>1 DEF ServerStep, IsUnknown
    <2> QED BY <2>1, <2>2, <2>3 DEF IsUnknown, ShowsNothing, ViewStays, Mine
  <1>10. ASSUME socket = "Open"
         PROVE  conn'[Me] = "Open" /\ ViewInv(Told(down', Shown'), clients', rooms', Gone')
    <2>1. conn[Me] = "Open" /\ ViewInv(Told(down, Shown), clients, rooms, Gone)
      BY <1>10 DEF ScreenInv
    <2>2. ViewInv(Told(messages, Told(down, Shown)), clients', rooms', Gone')
      BY <1>1, <1>10, <2>1 DEF ServerStep
    <2>3. Told(down \o messages, Shown) = Told(messages, Told(down, Shown))
      BY <1>5, ToldBoth
    <2>4. Told(down', Shown') = Told(down \o messages, Shown)
      BY <1>1, <1>7, <1>10
    <2>5. conn'[Me] = conn[Me]
      BY <1>1 DEF ServerStep
    <2> QED BY <2>1, <2>2, <2>3, <2>4, <2>5
  <1>11. socket' = socket
    BY DEF ViewStays
  <1>12. up' # << >> => socket = "Open"
    BY <1>2 DEF ScreenInv
  <1>13. ViewInv(Told(down, Shown), clients, rooms, Gone)'
            <=> ViewInv(Told(down', Shown'), clients', rooms', Gone')
    BY DEF ViewInv, RoomsAreTold, Mine, MyRoom, Told, Heard, Latest, LastAt, RolesIn
  <1> QED BY <1>2, <1>8, <1>9, <1>10, <1>11, <1>12, <1>13 DEF ScreenInv

-----------------------------------------------------------------------------
(***************************************************************************)
(* The steps of the window.                                                *)
(***************************************************************************)
LEMMA OpenInv ==
    ASSUME ScreenInv, LobbyInv', Open
    PROVE  ScreenInv'
  <1>1. /\ socket = "Connecting" /\ socket' = "Open" /\ down' = down
        /\ up' = << [tag |-> "LOGIN"] >>
        /\ shownRoom' = shownRoom /\ countdown' = countdown
        /\ ownColors' = ownColors /\ shownRoster' = shownRoster
        /\ conn' = [conn EXCEPT ![Me] = "Open"] /\ clients' = clients /\ rooms' = rooms
    BY DEF Open, Connect, windowVars
  <1>2. IsUnknown /\ ShowsNothing
    BY <1>1 DEF ScreenInv
  <1>3. conn \in [Client -> {"New", "Open", "Closed"}] /\ Me \in Client
        /\ Me \notin DOMAIN clients
    BY <1>2, MeType DEF ScreenInv, LobbyInv, ClientsInv, IsUnknown
  <1>4. conn'[Me] = "Open"
    BY <1>1, <1>3
  <1>5. up' \in Seq(Request) /\ LoginIsFirst'
    <2> DEFINE login == [tag |-> "LOGIN"]
    <2>1. login \in Request
      BY DEF Request
    <2> HIDE DEF login
    <2>2. up' = << login >>
      BY <1>1 DEF login
    <2>3. up' \in Seq(Request) /\ DOMAIN up' = {1}
      BY <2>1, <2>2
    <2> QED BY <1>1, <1>3, <2>3 DEF LoginIsFirst
  <1>6. down' = << >>
    BY <1>1, <1>2 DEF IsUnknown
  <1> DEFINE w == Told(<< >>, Shown')
  <1>7. w.room = NoRoom /\ w.countdown = {} /\ w.roster = NoRoster
    <2> DEFINE v == Shown'
    <2>1. v.room = NoRoom /\ v.countdown = {} /\ v.roster = NoRoster
      BY <1>1, <1>2 DEF Shown, ShowsNothing
    <2> HIDE DEF v
    <2>2. Told(<< >>, v).room = v.room /\ Told(<< >>, v).countdown = v.countdown
          /\ Told(<< >>, v).roster = v.roster
      BY ToldNothing
    <2>3. w = Told(<< >>, v)
      BY DEF v
    <2> HIDE DEF w
    <2> QED BY <2>1, <2>2, <2>3
  <1> HIDE DEF w
  <1>8. Mine(rooms') = {} /\ MyRoom(clients') = NoRoom
    BY <1>1, <1>2, <1>3 DEF IsUnknown, MyRoom
  <1>9. ViewInv(w, clients', rooms', Gone')
    BY <1>7, <1>8 DEF ViewInv, RoomsAreTold
  <1>10. ViewInv(Told(down', Shown'), clients', rooms', Gone')
    BY <1>6, <1>9 DEF w
  <1>11. ViewInv(Told(down, Shown), clients, rooms, Gone)'
            <=> ViewInv(Told(down', Shown'), clients', rooms', Gone')
    BY DEF ViewInv, RoomsAreTold, Mine, MyRoom, Told, Heard, Latest, LastAt, RolesIn
  <1>12. \E S : down' \in Seq(S)
    BY <1>6, NothingIsIdle
  <1> QED BY <1>1, <1>4, <1>5, <1>10, <1>11, <1>12 DEF ScreenInv

\* The connection closes, or the program ends.
LEMMA EndInv ==
    ASSUME ScreenInv, LobbyInv', socket' \in {"Closed", "Quit"},
           up' = << >>, down' = << >>
    PROVE  ScreenInv'
  <1>1. \E S : down' \in Seq(S)
    BY NothingIsIdle
  <1>2. up' \in Seq(Request) /\ DOMAIN up' = {}
    OBVIOUS
  <1> QED BY <1>1, <1>2 DEF ScreenInv, LoginIsFirst

\* Nothing changes that the view is about.
LEMMA ViewStaysRight ==
    ASSUME ScreenInv, ViewStays, down' = down,
           conn' = conn, clients' = clients, rooms' = rooms
    PROVE  /\ \E S : down' \in Seq(S)
           /\ socket = "Open" => /\ conn'[Me] = "Open"
                                 /\ ViewInv(Told(down, Shown), clients, rooms, Gone)'
  <1>1. Shown' = Shown /\ Gone' = Gone
    BY DEF ViewStays, Shown, Gone
  <1>2. ViewInv(Told(down, Shown), clients, rooms, Gone)'
            <=> ViewInv(Told(down', Shown'), clients', rooms', Gone')
    BY DEF ViewInv, RoomsAreTold, Mine, MyRoom, Told, Heard, Latest, LastAt, RolesIn
  <1>3. ViewInv(Told(down', Shown'), clients', rooms', Gone')
           <=> ViewInv(Told(down, Shown), clients, rooms, Gone)
    BY <1>1
  <1> QED BY <1>2, <1>3 DEF ScreenInv

\* What a click sends.
Asks ==
    \/ up' = up
    \/ /\ socket = "Open"
       /\ \E request \in Request : request.tag # "LOGIN" /\ up' = Append(up, request)

LEMMA SendAsks ==
    ASSUME NEW request \in Request, request.tag # "LOGIN", Send(request)
    PROVE  Asks
  BY DEF Send, Asks

LEMMA ClickAsks ==
    ASSUME Click
    PROVE  Asks /\ ViewStays /\ UNCHANGED vars /\ down' = down
  <1>1. [tag |-> "SEEK"] \in Request /\ [tag |-> "CREATE"] \in Request
        /\ [tag |-> "CANCEL"] \in Request
    BY DEF Request
  <1>2. CASE ClickPlay
    <2> DEFINE request == [tag |-> "SEEK"]
    <2>1. request \in Request /\ request.tag # "LOGIN"
      BY <1>1
    <2>2. Send(request)
      BY <1>2 DEF ClickPlay
    <2> HIDE DEF request
    <2>3. Asks
      BY <2>1, <2>2, SendAsks
    <2> QED BY <1>2, <2>3 DEF ClickPlay, ViewStays
  <1>3. CASE OpenRoomDialog
    BY <1>3 DEF OpenRoomDialog, ViewStays, Asks
  <1>4. CASE ClickCreate
    <2> DEFINE request == [tag |-> "CREATE"]
    <2>1. request \in Request /\ request.tag # "LOGIN"
      BY <1>1
    <2>2. Send(request)
      BY <1>4 DEF ClickCreate
    <2> HIDE DEF request
    <2>3. Asks
      BY <2>1, <2>2, SendAsks
    <2> QED BY <1>4, <2>3 DEF ClickCreate, CloseDialog, ViewStays
  <1>5. CASE ClickCancel
    <2>1. CASE searching
      <3> DEFINE request == [tag |-> "CANCEL"]
      <3>1. request \in Request /\ request.tag # "LOGIN"
        BY <1>1
      <3>2. Send(request)
        BY <1>5, <2>1 DEF ClickCancel
      <3> HIDE DEF request
      <3>3. Asks
        BY <3>1, <3>2, SendAsks
      <3> QED BY <1>5, <3>3 DEF ClickCancel, CloseDialog, ViewStays
    <2>2. CASE ~searching
      BY <1>5, <2>2 DEF ClickCancel, CloseDialog, ViewStays, Asks
    <2> QED BY <2>1, <2>2
  <1>6. ASSUME NEW text \in Texts, ClickJoin(text)
        PROVE  Asks /\ ViewStays /\ UNCHANGED vars /\ down' = down
    <2>1. CASE text = {}
      BY <1>6, <2>1 DEF ClickJoin, CloseDialog, ViewStays, Asks
    <2>2. CASE text # {}
      <3> DEFINE id == CHOOSE r \in text : TRUE
                 request == [tag |-> "JOIN", room |-> id]
      <3>1. id \in RoomId \cup {UnknownId}
        BY <2>2 DEF Texts
      <3>2. Send(request)
        BY <1>6, <2>2 DEF ClickJoin
      <3> HIDE DEF id
      <3>3. request \in Request /\ request.tag # "LOGIN"
        BY <3>1 DEF Request
      <3> HIDE DEF request
      <3>4. Asks
        BY <3>2, <3>3, SendAsks
      <3> QED BY <1>6, <3>4 DEF ClickJoin, CloseDialog, ViewStays
    <2> QED BY <2>1, <2>2
  <1> QED BY <1>2, <1>3, <1>4, <1>5, <1>6 DEF Click

LEMMA ClickInv ==
    ASSUME ScreenInv, LobbyInv', Click
    PROVE  ScreenInv'
  <1>1. Asks /\ ViewStays /\ down' = down
        /\ conn' = conn /\ clients' = clients /\ rooms' = rooms
    BY ClickAsks DEF vars
  <1>2. up \in Seq(Request) /\ LoginIsFirst
    BY DEF ScreenInv
  <1>3. CASE up' = up
    <2>1. LoginIsFirst'
      BY <1>1, <1>2, <1>3 DEF LoginIsFirst
    <2>2. IsUnknown => IsUnknown'
      BY <1>1, <1>3 DEF IsUnknown, Mine
    <2>3. ShowsNothing => ShowsNothing'
      BY <1>1 DEF ShowsNothing, ViewStays
    <2> QED BY <1>1, <1>2, <1>3, <2>1, <2>2, <2>3, ViewStaysRight DEF ScreenInv, ViewStays
  <1>4. CASE up' # up
    <2>1. PICK request \in Request : request.tag # "LOGIN" /\ up' = Append(up, request)
      BY <1>1, <1>4 DEF Asks
    <2>2. socket = "Open"
      BY <1>1, <1>4 DEF Asks
    <2>3. /\ up' \in Seq(Request) /\ DOMAIN up' = 1 .. Len(up) + 1
          /\ up'[Len(up) + 1] = request
          /\ \A i \in 1 .. Len(up) : up'[i] = up[i]
          /\ DOMAIN up = 1 .. Len(up) /\ Len(up) \in Nat
      BY <1>2, <2>1
    <2>4. \A i \in 1 .. Len(up) + 1 : i \in 1 .. Len(up) \/ i = Len(up) + 1
      BY <2>3
    <2>5. LoginIsFirst'
      BY <1>1, <1>2, <2>1, <2>3, <2>4 DEF LoginIsFirst
    <2> QED BY <1>1, <2>2, <2>3, <2>5, ViewStaysRight DEF ScreenInv, ViewStays
  <1> QED BY <1>3, <1>4

\* RemoteGame::receive: what is shown once the rest has been read is the same.
LEMMA ReadingIsHeard ==
    ASSUME NEW S, NEW d \in Seq(S), d # << >>, NEW v, NEW w,
           LET one == Told(<< Head(d) >>, v)
           IN  /\ w.room = one.room /\ w.countdown = one.countdown
               /\ w.colors = one.colors /\ w.roster = one.roster
    PROVE  Told(Tail(d), w) = Told(d, v)
  <1> DEFINE m == Head(d)
             rest == Tail(d)
             one == Told(<< m >>, v)
  <1>1. m \in S /\ rest \in Seq(S) /\ d = << m >> \o rest
    <2>1. Len(d) \in Nat \ {0} /\ m \in S /\ rest \in Seq(S)
      OBVIOUS
    <2>2. << m >> \in Seq(S)
      BY <2>1
    <2> QED BY <2>1
  <1>2. << m >> \in Seq(S)
    BY <1>1
  <1>3. w.room = one.room /\ w.countdown = one.countdown
        /\ w.colors = one.colors /\ w.roster = one.roster
    OBVIOUS
  <1> HIDE DEF m, rest, one
  <1>4. Told(<< m >> \o rest, v) = Told(rest, one)
    <2> DEFINE a == << m >>
    <2>1. a \in Seq(S)
      BY <1>2
    <2> HIDE DEF a
    <2>2. Told(a \o rest, v) = Told(rest, Told(a, v))
      BY <1>1, <2>1, ToldBoth
    <2> QED BY <2>2 DEF a, one
  <1>5. Told(rest, w) = Told(rest, one)
    BY <1>3 DEF Told
  <1>6. Told(d, v) = Told(rest, w)
    BY <1>1, <1>4, <1>5
  <1> QED BY <1>6 DEF rest

LEMMA ReceiveInv ==
    ASSUME ScreenInv, LobbyInv', Receive
    PROVE  ScreenInv'
  <1> DEFINE m == Head(down)
  <1>1. /\ down # << >>
        /\ socket' = IF m.tag = "AUTHFAIL" THEN "Quit" ELSE socket
        /\ down' = IF m.tag = "AUTHFAIL" THEN << >> ELSE Tail(down)
        /\ up' = IF m.tag = "AUTHFAIL" THEN << >> ELSE up
        /\ shownRoom' = RoomAfter(m)
        /\ countdown' = CountdownAfter(m)
        /\ ownColors' = OwnColorsAfter(m)
        /\ shownRoster' = RosterAfter(m)
        /\ conn' = conn /\ clients' = clients /\ rooms' = rooms
    BY DEF Receive, vars
  <1>2. PICK S : down \in Seq(S)
    BY DEF ScreenInv
  <1> HIDE DEF m
  <1>3. CASE m.tag = "AUTHFAIL"
    BY <1>1, <1>3, EndInv
  <1>4. CASE m.tag # "AUTHFAIL"
    <2>1. socket' = socket /\ down' = Tail(down) /\ up' = up
      BY <1>1, <1>4
    <2>2. socket # "Connecting"
      BY <1>1 DEF ScreenInv, IsUnknown
    <2>3. \E T : down' \in Seq(T)
      BY <1>1, <1>2, <2>1
    <2>4. LoginIsFirst' /\ up' \in Seq(Request)
      BY <1>1, <2>1 DEF ScreenInv, LoginIsFirst
    <2> DEFINE v == Shown
               w == Shown'
               one == Told(<< m >>, v)
    <2>5. v.room = shownRoom /\ v.countdown = countdown
          /\ v.colors = ownColors /\ v.roster = shownRoster
      BY DEF Shown
    <2>6. w.room = shownRoom' /\ w.countdown = countdown'
          /\ w.colors = ownColors' /\ w.roster = shownRoster'
      BY DEF Shown
    <2> HIDE DEF v, w
    <2>7. /\ one.room = IF m.tag = "ROOM" THEN m.room ELSE v.room
          /\ one.countdown = IF m.tag = "OPPGONE" THEN {m.seconds}
                             ELSE IF m.tag = "OPPBACK" THEN {} ELSE v.countdown
          /\ one.colors = v.colors \cup (IF m.tag = "ROLE" THEN {m.color} \cap Color ELSE {})
          /\ one.roster = IF m.tag = "ROSTER" THEN m.roster ELSE v.roster
      BY ToldOne
    <2> HIDE DEF one
    <2>8. w.room = one.room /\ w.countdown = one.countdown
          /\ w.colors = one.colors /\ w.roster = one.roster
      <3>1. w.room = one.room
        BY <1>1, <2>5, <2>6, <2>7 DEF RoomAfter
      <3>2. w.countdown = one.countdown
        BY <1>1, <2>5, <2>6, <2>7 DEF CountdownAfter
      <3>3. w.colors = one.colors
        BY <1>1, <2>5, <2>6, <2>7 DEF OwnColorsAfter
      <3>4. w.roster = one.roster
        BY <1>1, <2>5, <2>6, <2>7 DEF RosterAfter
      <3> QED BY <3>1, <3>2, <3>3, <3>4
    <2>9. Told(Tail(down), w) = Told(down, v)
      <3>1. /\ w.room = Told(<< Head(down) >>, v).room
            /\ w.countdown = Told(<< Head(down) >>, v).countdown
            /\ w.colors = Told(<< Head(down) >>, v).colors
            /\ w.roster = Told(<< Head(down) >>, v).roster
        BY <2>8 DEF one, m
      <3> QED BY <1>1, <1>2, <3>1, ReadingIsHeard
    <2>10. Told(down', Shown') = Told(down, Shown) /\ Gone' = Gone
      BY <1>1, <2>1, <2>9 DEF v, w, Gone
    <2>11. ViewInv(Told(down, Shown), clients, rooms, Gone)'
              <=> ViewInv(Told(down', Shown'), clients', rooms', Gone')
      BY DEF ViewInv, RoomsAreTold, Mine, MyRoom, Told, Heard, Latest, LastAt, RolesIn
    <2>12. socket = "Open" => ViewInv(Told(down, Shown), clients, rooms, Gone)'
      BY <1>1, <2>10, <2>11 DEF ScreenInv
    <2> QED BY <1>1, <2>1, <2>2, <2>3, <2>4, <2>12 DEF ScreenInv
  <1> QED BY <1>3, <1>4

-----------------------------------------------------------------------------
(***************************************************************************)
(* The window's requests at the server.                                    *)
(***************************************************************************)
LEMMA QuietRequest ==
    ASSUME ScreenInv, conn' = conn, clients' = clients, rooms' = rooms, down' = down
    PROVE  ServerTells
  <1>1. Gone' = Gone
    BY DEF Gone
  <1> QED BY <1>1, SilentStep

LEMMA RefusedIsTold ==
    ASSUME ScreenInv, Refused
    PROVE  ServerTells
  <1>1. UNCHANGED vars /\ Tell(<< RoomError >>) /\ RoomError.tag = "ROOMERR"
    BY DEF Refused, RoomError
  <1> QED BY <1>1, RefusalIsTold

LEMMA RequestIsTold ==
    ASSUME ScreenInv, HandleRequest
    PROVE  ServerTells
  <1> DEFINE request == Head(up)
  <1>1. up # << >> /\ Handle(request)
    BY DEF HandleRequest
  <1>2. up \in Seq(Request) /\ LoginIsFirst /\ Me \in Client /\ MyUser \in User
    BY MeType DEF ScreenInv
  <1>3. request \in Request /\ 1 \in DOMAIN up /\ up[1] = request
    BY <1>1, <1>2
  <1>4. request.tag = "LOGIN" => Me \notin DOMAIN clients
    BY <1>2, <1>3 DEF LoginIsFirst
  <1>5. request.tag \in {"LOGIN", "SEEK", "CANCEL", "CREATE", "JOIN"}
    BY <1>3 DEF Request
  <1> HIDE DEF request
  <1>6. CASE request.tag = "LOGIN"
    <2>1. HandleLogin
      BY <1>1, <1>6 DEF Handle
    <2>2. CASE Login(Me, MyUser) /\ down' = down
      BY <1>2, <1>4, <1>6, <2>2, LoginIsSilent
    <2>3. CASE UNCHANGED vars /\ Tell(<< [tag |-> "AUTHFAIL"] >>)
      <3> DEFINE m == [tag |-> "AUTHFAIL"]
      <3>1. m.tag = "AUTHFAIL" /\ Tell(<< m >>)
        BY <2>3
      <3> HIDE DEF m
      <3> QED BY <2>3, <3>1, RefusalIsTold
    <2> QED BY <2>1, <2>2, <2>3 DEF HandleLogin
  <1>7. CASE request.tag = "SEEK"
    <2>1. HandleSeek
      BY <1>1, <1>7 DEF Handle
    <2>2. CASE Refused
      BY <2>2, RefusedIsTold
    <2>3. CASE SeekAndWait(Me) /\ down' = down
      BY <2>3, QuietRequest DEF SeekAndWait
    <2>4. CASE Meet(Me)
      BY <1>2, <2>4, MeetIsTold
    <2>5. CASE UNCHANGED <<vars, down>>
      BY <2>5, QuietRequest DEF vars
    <2> QED BY <2>1, <2>2, <2>3, <2>4, <2>5 DEF HandleSeek
  <1>8. CASE request.tag = "CANCEL"
    <2>1. HandleCancel
      BY <1>1, <1>8 DEF Handle
    <2> QED BY <2>1, QuietRequest DEF HandleCancel, CancelSeek, vars
  <1>9. CASE request.tag = "CREATE"
    <2>1. HandleCreate
      BY <1>1, <1>9 DEF Handle
    <2> QED BY <1>2, <2>1, RefusedIsTold, CreateIsTold DEF HandleCreate
  <1>10. CASE request.tag = "JOIN"
    <2>1. HandleJoin(request.room)
      BY <1>1, <1>10 DEF Handle
    <2> QED BY <1>2, <2>1, RefusedIsTold, JoinIsTold DEF HandleJoin
  <1> QED BY <1>5, <1>6, <1>7, <1>8, <1>9, <1>10

-----------------------------------------------------------------------------
(***************************************************************************)
(* The window's server is the server of Lobby, step by step.               *)
(***************************************************************************)
LEMMA EntriesAreLobbySteps ==
    ASSUME ScreenInv, NEW c \in Client
    PROVE  /\ Create(c) => Next
           /\ Meet(c) => Next
           /\ \A r : JoinAt(c, r) => Next
  <1>1. Create(c) => Next
    BY DEF Create, Next
  <1>2. Meet(c) => Next
    BY DEF Meet, Next
  <1>3. ASSUME NEW r, JoinAt(c, r)
        PROVE  Next
    <2>1. JoinRoom(c, r)
      BY <1>3 DEF JoinAt
    <2>2. r \in RoomId
      BY <2>1 DEF JoinRoom, ScreenInv, LobbyInv, RoomsInv
    <2> QED BY <2>1, <2>2 DEF Next
  <1> QED BY <1>1, <1>2, <1>3

LEMMA StepIsLobbyStep ==
    ASSUME ScreenInv, [ScreenNext]_screenVars
    PROVE  [Next]_vars
  <1>1. Me \in Client /\ MyUser \in User
    BY MeType
  <1>2. CASE UNCHANGED screenVars
    BY <1>2 DEF screenVars
  <1>3. CASE Open \/ NoticeClose
    BY <1>1, <1>3 DEF Open, NoticeClose, Next
  <1>4. CASE Close \/ Receive
    BY <1>4 DEF Close, Receive
  <1>5. CASE Click
    BY <1>5, ClickAsks
  <1>6. CASE HandleRequest
    <2> DEFINE request == Head(up)
    <2>1. Handle(request) /\ up # << >> /\ up \in Seq(Request)
      BY <1>6 DEF HandleRequest, ScreenInv
    <2>2. request.tag \in {"LOGIN", "SEEK", "CANCEL", "CREATE", "JOIN"}
      <3>1. request \in Request
        BY <2>1
      <3> HIDE DEF request
      <3> QED BY <3>1 DEF Request
    <2> HIDE DEF request
    <2>3. HandleLogin => [Next]_vars
      BY <1>1 DEF HandleLogin, Next
    <2>4. HandleSeek => [Next]_vars
      BY <1>1, EntriesAreLobbySteps DEF HandleSeek, Refused, Next, vars
    <2>5. HandleCancel => [Next]_vars
      BY <1>1 DEF HandleCancel, Next
    <2>6. HandleCreate => [Next]_vars
      BY <1>1, EntriesAreLobbySteps DEF HandleCreate, Refused
    <2>7. HandleJoin(request.room) => [Next]_vars
      BY <1>1, EntriesAreLobbySteps DEF HandleJoin, Refused
    <2> QED BY <2>1, <2>2, <2>3, <2>4, <2>5, <2>6, <2>7 DEF Handle
  <1>7. ASSUME NEW c \in Client \ {Me}, OthersAct(c)
        PROVE  [Next]_vars
    <2>1. Connect(c) \/ Disconnect(c) \/ SeekAndWait(c) \/ CancelSeek(c)
             \/ Command(c) => Next
      BY DEF Next
    <2>2. (\E user \in User : Login(c, user)) => Next
      BY DEF Next
    <2> QED BY <1>7, <2>1, <2>2, EntriesAreLobbySteps DEF OthersAct
  <1>8. CASE SearchTick
    BY <1>8 DEF SearchTick, Next, TickStep
  <1>9. ASSUME NEW r \in RoomId, RoomTickStep(r)
        PROVE  [Next]_vars
    BY <1>9 DEF RoomTickStep, Next, TickStep
  <1> QED BY <1>2, <1>3, <1>4, <1>5, <1>6, <1>7, <1>8, <1>9 DEF ScreenNext

LEMMA OthersKeepMeOut ==
    ASSUME ScreenInv, NEW c \in Client \ {Me}, OthersAct(c), Me \notin DOMAIN clients
    PROVE  Me \notin DOMAIN clients'
  <1>1. CASE clients' = clients
    BY <1>1
  <1>2. CASE Disconnect(c)
    BY <1>2 DEF Disconnect, Removed, Without
  <1>3. CASE \E user \in User : Login(c, user)
    BY <1>3 DEF Login, Extended
  <1>4. CASE \E cs, r : clients' = Located(cs, r)
    BY <1>4 DEF Located
  <1>5. Create(c) \/ Meet(c) \/ (\E r \in RoomId : JoinAt(c, r))
           => \E cs, r : clients' = Located(cs, r)
    BY DEF Create, CreateRoom, Meet, SeekAndMeet, JoinAt, JoinRoom, EnterRoom
  <1>6. Connect(c) \/ SeekAndWait(c) \/ CancelSeek(c) \/ Command(c)
           => clients' = clients
    BY DEF Connect, SeekAndWait, CancelSeek, Command
  <1> QED BY <1>1, <1>2, <1>3, <1>4, <1>5, <1>6 DEF OthersAct

LEMMA InitScreenInv == ScreenInit => ScreenInv
  <1> SUFFICES ASSUME ScreenInit PROVE ScreenInv
    OBVIOUS
  <1>1. LobbyInv /\ Me \in Client
    BY InitLobbyInv, MeType DEF ScreenInit
  <1>2. /\ up = << >> /\ down = << >> /\ socket = "Connecting"
        /\ shownRoom = NoRoom /\ countdown = {} /\ shownRoster = NoRoster
        /\ conn = [c \in Client |-> "New"] /\ rooms = << >>
    BY DEF ScreenInit, Init
  <1>3. up \in Seq(Request) /\ DOMAIN up = {} /\ down \in Seq({}) /\ DOMAIN rooms = {}
    BY <1>2
  <1>4. IsUnknown /\ ShowsNothing
    BY <1>1, <1>2, <1>3 DEF IsUnknown, ShowsNothing, Mine
  <1> QED BY <1>1, <1>2, <1>3, <1>4 DEF ScreenInv, LoginIsFirst

LEMMA NextScreenInv ==
    ASSUME ScreenInv, [ScreenNext]_screenVars
    PROVE  ScreenInv'
  <1>1. LobbyInv'
    BY StepIsLobbyStep, NextLobbyInv DEF ScreenInv
  <1>2. CASE UNCHANGED screenVars
    <2>1. /\ conn' = conn /\ clients' = clients /\ rooms' = rooms
          /\ up' = up /\ down' = down /\ ViewStays
      BY <1>2 DEF screenVars, windowVars, vars, ViewStays
    <2>2. LoginIsFirst => LoginIsFirst'
      BY <2>1 DEF LoginIsFirst
    <2>3. IsUnknown => IsUnknown'
      BY <2>1 DEF IsUnknown, Mine
    <2>4. ShowsNothing => ShowsNothing'
      BY <2>1 DEF ShowsNothing, ViewStays
    <2> QED BY <1>1, <2>1, <2>2, <2>3, <2>4, ViewStaysRight DEF ScreenInv, ViewStays
  <1>3. CASE Open
    BY <1>1, <1>3, OpenInv
  <1>4. CASE Close
    BY <1>1, <1>4, EndInv DEF Close
  <1>5. CASE Click
    BY <1>1, <1>5, ClickInv
  <1>6. CASE Receive
    BY <1>1, <1>6, ReceiveInv
  <1>7. CASE HandleRequest
    <2>1. ViewStays /\ RequestsArrive
      BY <1>7 DEF HandleRequest, windowVars, ViewStays, RequestsArrive
    <2> QED BY <1>1, <1>7, <2>1, RequestIsTold, StepIsHeard
  <1>8. CASE NoticeClose
    <2>1. socket' \in {"Closed", "Quit"} /\ up' = up /\ down' = down /\ socket' = socket
      BY <1>8 DEF NoticeClose
    <2>2. up = << >> /\ up \in Seq(Request)
      BY <2>1 DEF ScreenInv
    <2> QED BY <1>1, <2>1, <2>2 DEF ScreenInv, LoginIsFirst
  <1>9. ASSUME NEW c \in Client \ {Me}, OthersAct(c)
        PROVE  ScreenInv'
    <2>1. ViewStays /\ up' = up
      BY <1>9 DEF OthersAct, windowVars, ViewStays
    <2>2. Me \notin DOMAIN clients => Me \notin DOMAIN clients'
      BY <1>9, OthersKeepMeOut
    <2>3. RequestsArrive
      BY <2>1, <2>2 DEF RequestsArrive
    <2> QED BY <1>1, <1>9, <2>1, <2>3, OthersAreTold, StepIsHeard
  <1>10. CASE SearchTick
    <2>1. ViewStays /\ RequestsArrive
      BY <1>10 DEF SearchTick, StartTick, windowVars, ViewStays, RequestsArrive
    <2> QED BY <1>1, <1>10, <2>1, SearchTickIsTold, StepIsHeard
  <1>11. ASSUME NEW r \in RoomId, RoomTickStep(r)
         PROVE  ScreenInv'
    <2>1. ViewStays /\ RequestsArrive
      BY <1>11 DEF RoomTickStep, RoomTicks, windowVars, ViewStays, RequestsArrive
    <2> QED BY <1>1, <1>11, <2>1, RoomTickIsTold, StepIsHeard
  <1> QED BY <1>2, <1>3, <1>4, <1>5, <1>6, <1>7, <1>8, <1>9, <1>10, <1>11 DEF ScreenNext

LEMMA ScreenInvariant == ScreenSpec => []ScreenInv
  <1>1. ScreenInv /\ [ScreenNext]_screenVars => ScreenInv'
    BY NextScreenInv
  <1> QED BY InitScreenInv, <1>1, PTL DEF ScreenSpec

(***************************************************************************)
(* The server the window talks to is the server of Lobby, so that all that *)
(* is proved of Lobby holds of it: what the windows see changes nothing.   *)
(***************************************************************************)
THEOREM LobbyServesTheScreen == ScreenSpec => Spec
  <1>1. ScreenInit => Init
    BY DEF ScreenInit
  <1>2. ScreenInv /\ [ScreenNext]_screenVars => [Next]_vars
    BY StepIsLobbyStep
  <1> QED BY ScreenInvariant, <1>1, <1>2, PTL DEF ScreenSpec, Spec

\* With nothing on its way the view that will be is the view that is.
LEMMA ArrivedViewIsRight ==
    ASSUME ScreenInv, AllHasArrived
    PROVE  /\ shownRoom = MyRoom(clients)
           /\ RoomsAreTold(Shown, rooms, Gone)
           /\ Shown.countdown = countdown /\ Shown.colors = ownColors
           /\ Shown.roster = shownRoster
  <1>1. down = << >> /\ socket = "Open"
    BY DEF AllHasArrived
  <1> DEFINE v == Shown
             w == Told(<< >>, v)
  <1>2. ViewInv(w, clients, rooms, Gone)
    BY <1>1 DEF ScreenInv
  <1>3. /\ v.room = shownRoom /\ v.countdown = countdown
        /\ v.colors = ownColors /\ v.roster = shownRoster
    BY DEF Shown
  <1> HIDE DEF v
  <1>4. w.room = v.room /\ w.countdown = v.countdown
        /\ w.colors = v.colors /\ w.roster = v.roster
    BY ToldNothing
  <1> HIDE DEF w
  <1>5. RoomsAreTold(v, rooms, Gone) /\ v.room = MyRoom(clients)
    BY <1>2, <1>4 DEF ViewInv, RoomsAreTold
  <1> QED BY <1>3, <1>5 DEF v

(***************************************************************************)
(* Once all has arrived the window is in the room the server has it in     *)
(* (RemoteGame::roomId_), whoever asked for it.                            *)
(***************************************************************************)
THEOREM RoomShownIsTrue == ScreenSpec => []RoomIsShown
  <1>1. ScreenInv => RoomIsShown
    BY ArrivedViewIsRight DEF RoomIsShown, MyRoom
  <1> QED BY ScreenInvariant, <1>1, PTL

(***************************************************************************)
(* Once all has arrived a player's own colour may be commanded (RemoteGame *)
(* lets no command of another out), a seat that was held included.         *)
(***************************************************************************)
THEOREM PlayersMayCommand == ScreenSpec => []PlayersMayPlay
  <1>1. ScreenInv => PlayersMayPlay
    BY ArrivedViewIsRight DEF PlayersMayPlay, RoomsAreTold, MyRooms, Mine
  <1> QED BY ScreenInvariant, <1>1, PTL

(***************************************************************************)
(* A countdown that is shown once all has arrived is one of a seat held    *)
(* open, or of a game that has ended (RemoteGame::opponentCountdown_).     *)
(***************************************************************************)
THEOREM CountdownsAreTrue == ScreenSpec => []NoFalseCountdown
  <1>1. ScreenInv => NoFalseCountdown
    BY ArrivedViewIsRight DEF NoFalseCountdown, RoomsAreTold, MyRooms, Mine, Awaited
  <1> QED BY ScreenInvariant, <1>1, PTL

(***************************************************************************)
(* The names and ratings beside the board are those of the players once    *)
(* all has arrived, or none has been told a player who came back.          *)
(***************************************************************************)
THEOREM RosterShownIsTrue == ScreenSpec => []RosterIsTrue
  <1>1. ASSUME ScreenInv
        PROVE  RosterIsTrue
    <2> SUFFICES ASSUME AllHasArrived, NEW r \in RoomId, Me \in DOMAIN clients,
                        clients[Me].room = r, MyRooms = {r}
                 PROVE  \/ shownRoster = RosterOf(rooms[r].seats)
                        \/ /\ shownRoster = NoRoster
                           /\ \E c \in Client \ {Me} : conn[c] = "Closed"
      BY DEF RosterIsTrue
    <2>1. Mine(rooms) = {r} /\ r \in DOMAIN rooms
      BY DEF MyRooms, Mine
    <2>2. shownRoster = RosterOf(rooms[r].seats) \/ (shownRoster = NoRoster /\ Gone # {})
      BY <1>1, <2>1, ArrivedViewIsRight DEF RoomsAreTold
    <2>3. Me \notin Gone
      BY <1>1, OpenIsNotGone DEF AllHasArrived
    <2> QED BY <2>2, <2>3 DEF Gone
  <1> QED BY ScreenInvariant, <1>1, PTL
=============================================================================
