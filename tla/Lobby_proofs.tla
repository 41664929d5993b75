---------------------------- MODULE Lobby_proofs ----------------------------
(***************************************************************************)
(* Proofs about Lobby, for every set of clients and of names and any       *)
(* number of requests.                                                     *)
(***************************************************************************)
EXTENDS Lobby, TLAPS

-----------------------------------------------------------------------------
(* Types.                                                                   *)

LEMMA TypeInit == Init => TypeOK
<1> SUFFICES ASSUME Init PROVE TypeOK
    OBVIOUS
<1> USE DEF Init
<1>1. name \in [Clients -> Names]
    BY LobbyAssumption
<1>2. /\ todo \in [Clients -> SUBSET Clients]
      /\ due \in [Clients -> SUBSET Names]
      /\ listed \in [Clients -> SUBSET Names]
      /\ inbox \in [Clients -> SUBSET Messages]
    OBVIOUS
<1>3. /\ nreq \in [Clients -> Nat]
      /\ answered \in [Clients -> Nat]
      /\ peer \in [Clients -> {"reads", "stalled", "gone"}]
    OBVIOUS
<1> QED BY <1>1, <1>2, <1>3 DEF TypeOK

LEMMA TellType ==
    ASSUME TypeOK, NEW d \in Clients, NEW R \in SUBSET Names,
           NEW kind \in {"GameRoom_Appear", "NotifyCreateRoomSuccess",
                         "LobbyList_Begin", "LobbyList_Add", "LobbyList_End",
                         "NotifyJoinRoomSuccess", "NotifyJoinRoomFailed"},
           Tell(d, kind, R)
    PROVE  inbox' \in [Clients -> SUBSET Messages]
<1>1. [rmi |-> kind, rooms |-> R] \in Messages
    BY DEF Messages
<1>2. inbox \in [Clients -> SUBSET Messages]
    BY DEF TypeOK
<1>3. CASE peer[d] = "gone"
    BY <1>2, <1>3 DEF Tell
<1>4. CASE peer[d] # "gone"
    BY <1>1, <1>2, <1>4 DEF Tell
<1> QED BY <1>3, <1>4

LEMMA TypeNext == TypeOK /\ [Next]_vars => TypeOK'
<1> SUFFICES ASSUME TypeOK, [Next]_vars PROVE TypeOK'
    OBVIOUS
<1> USE DEF TypeOK, Goto, Asks, Access, Answered
<1>1. ASSUME NEW c \in Clients, Connection(c) PROVE TypeOK'
    BY <1>1 DEF Connection, Stall, Wake, Hangup, Turn, Arrive, Connect, Depart, Leave
<1>2. ASSUME NEW c \in Clients, Request(c) PROVE TypeOK'
    <2>1. CASE RequestList(c) BY <2>1 DEF RequestList
    <2>2. ASSUME NEW n \in Names, RequestCreate(c, n) PROVE TypeOK'
        BY <2>2 DEF RequestCreate
    <2>3. ASSUME NEW n \in Names, RequestJoin(c, n) PROVE TypeOK'
        BY <2>3 DEF RequestJoin
    <2> QED BY <1>2, <2>1, <2>2, <2>3 DEF Request
<1>3. ASSUME NEW c \in Clients, Handle(c) PROVE TypeOK'
    <2>1. CASE StoreStart(c) BY <2>1 DEF StoreStart
    <2>2. CASE StoreEnd(c) BY <2>2 DEF StoreEnd
    <2>3. CASE Announce(c) BY <2>3 DEF Announce, Online
    <2>4. ASSUME NEW d \in Clients, AppearTo(c, d) PROVE TypeOK'
        BY <2>4, TellType DEF AppearTo
    <2>5. CASE EndAnnounce(c) BY <2>5 DEF EndAnnounce
    <2>6. CASE Created(c) BY <2>6, TellType DEF Created
    <2>7. CASE StartRange(c) BY <2>7 DEF StartRange
    <2>8. ASSUME NEW n \in Names, NextRoom(c, n) PROVE TypeOK'
        BY <2>8, TellType DEF NextRoom
    <2>9. CASE EndList(c) BY <2>9, TellType DEF EndList
    <2>10. CASE JoinFound(c) BY <2>10, TellType DEF JoinFound
    <2>11. CASE JoinFailed(c) BY <2>11, TellType DEF JoinFailed
    <2>12. CASE Seat(c) BY <2>12 DEF Seat
    <2>13. CASE MapFault(c) BY <2>13 DEF MapFault
    <2>14. CASE BeginList(c) BY <2>14, TellType DEF BeginList
    <2> QED BY <1>3, <2>1, <2>2, <2>3, <2>4, <2>5, <2>6, <2>7, <2>8, <2>9,
               <2>10, <2>11, <2>12, <2>13, <2>14 DEF Handle
<1>4. CASE Over BY <1>4 DEF Over, vars
<1>5. CASE UNCHANGED vars BY <1>5 DEF vars
<1> QED BY <1>1, <1>2, <1>3, <1>4, <1>5 DEF Next

\* The variables of the room table and of its handlers keep their types (lobby-server/main.go).
THEOREM LobbyTypes == Spec => []TypeOK
BY TypeInit, TypeNext, PTL DEF Spec

-----------------------------------------------------------------------------
(* What a message changes.                                                  *)

LEMMA TellRooms ==
    ASSUME TypeOK, NEW d \in Clients, NEW kind, NEW R, Tell(d, kind, R),
           NEW e \in Clients, NEW j
    PROVE  /\ ToldRooms(e, j)' = IF e = d /\ peer[d] # "gone" /\ j = kind
                                THEN ToldRooms(e, j) \cup R ELSE ToldRooms(e, j)
           /\ Told(e, j)' <=> (Told(e, j) \/ (e = d /\ peer[d] # "gone" /\ j = kind))
<1> DEFINE m == [rmi |-> kind, rooms |-> R]
<1>1. inbox'[e] = IF e = d /\ peer[d] # "gone" THEN inbox[e] \cup {m} ELSE inbox[e]
    BY DEF Tell, TypeOK
<1>2. m.rmi = kind /\ m.rooms = R
    OBVIOUS
<1> HIDE DEF m
<1>3. ToldRooms(e, j)' = IF e = d /\ peer[d] # "gone" /\ j = kind
                        THEN ToldRooms(e, j) \cup R ELSE ToldRooms(e, j)
    BY <1>1, <1>2 DEF ToldRooms
<1>4. Told(e, j)' <=> (Told(e, j) \/ (e = d /\ peer[d] # "gone" /\ j = kind))
    BY <1>1, <1>2 DEF Told
<1> QED BY <1>3, <1>4

-----------------------------------------------------------------------------
(* Every room a client knows is in the table.                               *)

Stored == \A c \in Clients :
    pc[c] \in {"stored", "announce", "reply"} => name[c] \in rooms
ListedStored == \A c \in Clients : listed[c] \subseteq rooms
AllTold == \A d \in Clients : \A m \in inbox[d] : m.rooms \subseteq rooms

ToldInv == TypeOK /\ (raced \/ (Stored /\ ListedStored /\ AllTold))

\* A message that names stored rooms keeps AllTold.
LEMMA TellStored ==
    ASSUME TypeOK, AllTold, NEW d \in Clients, NEW kind,
           NEW R \in SUBSET rooms, Tell(d, kind, R), rooms \subseteq rooms'
    PROVE  AllTold'
<1> SUFFICES ASSUME NEW e \in Clients, NEW m \in inbox'[e]
             PROVE  m.rooms \subseteq rooms'
    BY DEF AllTold
<1>1. m \in inbox[e] \/ m = [rmi |-> kind, rooms |-> R]
    <2>1. CASE peer[d] = "gone" BY <2>1 DEF Tell
    <2>2. CASE peer[d] # "gone"
        <3>1. inbox' = [inbox EXCEPT ![d] = @ \cup {[rmi |-> kind, rooms |-> R]}]
            BY <2>2 DEF Tell
        <3> QED BY <3>1 DEF TypeOK
    <2> QED BY <2>1, <2>2
<1> QED BY <1>1 DEF AllTold

LEMMA ToldInit == Init => ToldInv
BY TypeInit DEF Init, ToldInv, Stored, ListedStored, AllTold

LEMMA ToldNext == ToldInv /\ [Next]_vars => ToldInv'
<1> SUFFICES ASSUME ToldInv, [Next]_vars, ~raced'
             PROVE  Stored' /\ ListedStored' /\ AllTold'
    BY TypeNext DEF ToldInv
<1> DEFINE Goal == Stored' /\ ListedStored' /\ AllTold'
<1>t. TypeOK /\ TypeOK'
    BY TypeNext DEF ToldInv
<1> USE DEF Goto, Asks, Access, Answered
<1>0. ~raced
    BY DEF Next, Connection, Stall, Wake, Hangup, Turn, Arrive, Connect, Depart,
           Leave, Request, RequestList, RequestCreate, RequestJoin, Handle,
           BeginList, StoreStart, StoreEnd, Announce, AppearTo,
           EndAnnounce, Created, StartRange, NextRoom, EndList, JoinFound,
           JoinFailed, Seat, MapFault, Over, vars
<1>i. Stored /\ ListedStored /\ AllTold
    BY <1>0 DEF ToldInv
<1>1. ASSUME NEW c \in Clients, Connection(c) PROVE Goal
    BY <1>1, <1>t, <1>i
       DEF Connection, Stall, Wake, Hangup, Turn, Arrive, Connect, Depart, Leave,
           Stored, ListedStored, AllTold, TypeOK
<1>2. ASSUME NEW c \in Clients, Request(c) PROVE Goal
    <2>1. ASSUME NEW n \in Names,
                 RequestList(c) \/ RequestCreate(c, n) \/ RequestJoin(c, n)
          PROVE  Goal
        BY <2>1, <1>t, <1>i DEF RequestList, RequestCreate, RequestJoin, Stored,
                                 ListedStored, AllTold, TypeOK
    <2> QED BY <1>2, <2>1, LobbyAssumption DEF Request
<1>3. ASSUME NEW c \in Clients, Handle(c) PROVE Goal
    <2>1. CASE StoreStart(c) \/ Announce(c) \/ EndAnnounce(c)
        BY <2>1, <1>t, <1>i DEF StoreStart, Announce, EndAnnounce, Stored,
                                ListedStored, AllTold, TypeOK
    <2>2. CASE StoreEnd(c)
        <3>1. rooms' = rooms \cup {name[c]} BY <2>2 DEF StoreEnd
        <3> QED BY <3>1, <2>2, <1>t, <1>i
                DEF StoreEnd, Stored, ListedStored, AllTold, TypeOK
    <2>3. ASSUME NEW d \in Clients, AppearTo(c, d) PROVE Goal
        <3>1. AllTold' BY <2>3, <1>t, <1>i, TellStored DEF AppearTo, Stored
        <3> QED BY <3>1, <2>3, <1>t, <1>i
                DEF AppearTo, Stored, ListedStored, TypeOK
    <2>4. CASE Created(c)
        <3>1. AllTold' BY <2>4, <1>t, <1>i, TellStored DEF Created, Stored
        <3> QED BY <3>1, <2>4, <1>t, <1>i
                DEF Created, Stored, ListedStored, TypeOK
    <2>5. CASE StartRange(c)
        BY <2>5, <1>t, <1>i DEF StartRange, Stored, ListedStored, AllTold, TypeOK
    <2>6. ASSUME NEW n \in Names, NextRoom(c, n) PROVE Goal
        <3>1. ListedStored'
            BY <2>6, <1>t, <1>i DEF NextRoom, ListedStored, TypeOK
        <3>2. AllTold'
            BY <3>1, <2>6, <1>t, <1>i, TellStored DEF NextRoom, ListedStored
        <3> QED BY <3>1, <3>2, <2>6, <1>t, <1>i DEF NextRoom, Stored, TypeOK
    <2>7. CASE EndList(c)
        <3>1. AllTold' BY <2>7, <1>t, <1>i, TellStored DEF EndList
        <3> QED BY <3>1, <2>7, <1>t, <1>i
                DEF EndList, Stored, ListedStored, TypeOK
    <2>8. CASE JoinFound(c)
        <3>1. AllTold' BY <2>8, <1>t, <1>i, TellStored DEF JoinFound
        <3> QED BY <3>1, <2>8, <1>t, <1>i
                DEF JoinFound, Stored, ListedStored, TypeOK
    <2>9. CASE JoinFailed(c)
        <3>1. AllTold' BY <2>9, <1>t, <1>i, TellStored DEF JoinFailed
        <3> QED BY <3>1, <2>9, <1>t, <1>i
                DEF JoinFailed, Stored, ListedStored, TypeOK
    <2>10. CASE Seat(c) \/ MapFault(c)
        BY <2>10, <1>i DEF Seat, MapFault, Stored, ListedStored, AllTold
    <2>11. CASE BeginList(c)
        <3>1. AllTold' BY <2>11, <1>t, <1>i, TellStored DEF BeginList
        <3> QED BY <3>1, <2>11, <1>t, <1>i
                DEF BeginList, Stored, ListedStored, TypeOK
    <2> QED BY <1>3, <2>1, <2>2, <2>3, <2>4, <2>5, <2>6, <2>7, <2>8, <2>9,
               <2>10, <2>11 DEF Handle
<1>4. CASE Over \/ UNCHANGED vars
    BY <1>4, <1>i DEF Over, vars, Stored, ListedStored, AllTold
<1> QED BY <1>1, <1>2, <1>3, <1>4 DEF Next

\* A room any client was told of is in the table (lobby-server/main.go), as
\* long as no two goroutines have been in the map at once unnoticed.
THEOREM ToldRoomsExist == Spec => []ToldExists
<1>1. ToldInv => ToldExists
    BY DEF ToldInv, AllTold, ToldExists
<1> QED BY <1>1, ToldInit, ToldNext, PTL DEF Spec

-----------------------------------------------------------------------------
(* A list and the announcements together leave no gap.                      *)

OfflineFresh ==
    \A d \in Clients : pc[d] \in {"offline", "arriving"} => inbox[d] = {}

\* The registered clients that are still there.
Present == {d \in Online : peer[d] # "gone"}

\* A running Broadcast has told whom it need no longer tell.
Announced == \A c \in Clients, d \in Present :
    pc[c] = "announce" /\ d \notin todo[c] => name[c] \in View(d)

TodoOnline == \A c \in Clients : pc[c] = "announce" => todo[c] \subseteq Online

ListedSeen ==
    \A d \in Clients : pc[d] = "range" /\ peer[d] # "gone" => listed[d] \subseteq View(d)

\* The creator of room n has been answered, or is about to be.
Published(n) == \E c \in Clients :
    \/ n \in ToldRooms(c, "NotifyCreateRoomSuccess")
    \/ pc[c] = "reply" /\ n = name[c]

\* Client d knows room n, or has yet to be sent its first whole list, and a
\* list that is being sent to it will contain n.
Covered(n, d) ==
    \/ n \in View(d)
    \/ ~Told(d, "LobbyList_End") /\ (pc[d] = "range" => n \in due[d])

AllCovered == \A n \in Names : Published(n) => \A d \in Present : Covered(n, d)

Gapless == OfflineFresh /\ Announced /\ TodoOnline /\ ListedSeen /\ AllCovered

ViewInv == ToldInv /\ (raced \/ Gapless)

LEMMA TellView ==
    ASSUME TypeOK, NEW d \in Clients, NEW kind, NEW R, Tell(d, kind, R),
           NEW e \in Clients
    PROVE  View(e)' = IF /\ e = d /\ peer[d] # "gone"
                         /\ kind \in {"GameRoom_Appear", "LobbyList_Add"}
                      THEN View(e) \cup R ELSE View(e)
BY TellRooms DEF View

\* The same for all clients at once, for the facts that Gapless speaks of.
LEMMA TellFrame ==
    ASSUME TypeOK, NEW d \in Clients, NEW kind, NEW R, Tell(d, kind, R)
    PROVE  /\ \A e \in Clients \ {d} : inbox'[e] = inbox[e]
           /\ \A e \in Clients :
                View(e)' = IF /\ e = d /\ peer[d] # "gone"
                              /\ kind \in {"GameRoom_Appear", "LobbyList_Add"}
                           THEN View(e) \cup R ELSE View(e)
           /\ \A e \in Clients :
                Told(e, "LobbyList_End")' <=>
                  (\/ Told(e, "LobbyList_End")
                   \/ e = d /\ peer[d] # "gone" /\ kind = "LobbyList_End")
           /\ \A e \in Clients :
                ToldRooms(e, "NotifyCreateRoomSuccess")' =
                  IF e = d /\ peer[d] # "gone" /\ kind = "NotifyCreateRoomSuccess"
                  THEN ToldRooms(e, "NotifyCreateRoomSuccess") \cup R
                  ELSE ToldRooms(e, "NotifyCreateRoomSuccess")
<1>1. \A e \in Clients \ {d} : inbox'[e] = inbox[e]
    BY DEF Tell, TypeOK
<1>2. ASSUME NEW e \in Clients
      PROVE  View(e)' = IF /\ e = d /\ peer[d] # "gone"
                           /\ kind \in {"GameRoom_Appear", "LobbyList_Add"}
                        THEN View(e) \cup R ELSE View(e)
    BY TellView
<1>3. ASSUME NEW e \in Clients
      PROVE  Told(e, "LobbyList_End")' <=>
               (\/ Told(e, "LobbyList_End")
                \/ e = d /\ peer[d] # "gone" /\ kind = "LobbyList_End")
    BY TellRooms
<1>4. ASSUME NEW e \in Clients
      PROVE  ToldRooms(e, "NotifyCreateRoomSuccess")' =
               IF e = d /\ peer[d] # "gone" /\ kind = "NotifyCreateRoomSuccess"
               THEN ToldRooms(e, "NotifyCreateRoomSuccess") \cup R
               ELSE ToldRooms(e, "NotifyCreateRoomSuccess")
    BY TellRooms
<1> QED BY <1>1, <1>2, <1>3, <1>4

LEMMA SameInbox ==
    ASSUME inbox' = inbox, NEW e \in Clients, NEW j
    PROVE  /\ ToldRooms(e, j)' = ToldRooms(e, j)
           /\ Told(e, j)' <=> Told(e, j)
           /\ View(e)' = View(e)
BY DEF ToldRooms, Told, View

LEMMA PublishedStored ==
    ASSUME TypeOK, Stored, AllTold, NEW n, Published(n)
    PROVE  n \in rooms
BY DEF Published, Stored, AllTold, ToldRooms

LEMMA ViewInit == Init => ViewInv
<1> SUFFICES ASSUME Init PROVE ViewInv
    OBVIOUS
<1>1. Online = {} /\ Present = {} BY DEF Init, Online, Present
<1>2. OfflineFresh BY DEF Init, OfflineFresh
<1>3. Announced BY <1>1 DEF Announced
<1>4. ListedSeen BY DEF Init, ListedSeen
<1>5. AllCovered BY <1>1 DEF AllCovered
<1>6. TodoOnline BY DEF Init, TodoOnline
<1> QED BY <1>2, <1>3, <1>4, <1>5, <1>6, ToldInit DEF ViewInv, Gapless

\* The faults and the client's own turns leave everything as it was.
LEMMA GaplessSame ==
    ASSUME Gapless, UNCHANGED << pc, name, todo, due, listed, inbox >>,
           \A d \in Clients : peer[d] = "gone" => peer'[d] = "gone"
    PROVE  Gapless'
<1>1. Online' = Online /\ Present' \subseteq Present
    BY DEF Online, Present
<1>2. OfflineFresh' /\ TodoOnline'
    BY <1>1 DEF Gapless, OfflineFresh, TodoOnline
<1>3. Announced' /\ ListedSeen'
    BY <1>1 DEF Gapless, Announced, ListedSeen, View, ToldRooms
<1>4. AllCovered'
    BY <1>1 DEF Gapless, AllCovered, Published, Covered, View, ToldRooms, Told
<1> QED BY <1>2, <1>3, <1>4 DEF Gapless

\* Steps that send nothing, take no room on and start no list keep Gapless,
\* unless they begin or end a Broadcast or a connection.
LEMMA GaplessQuiet ==
    ASSUME TypeOK, TypeOK', Gapless, UNCHANGED << inbox, peer >>, NEW c \in Clients,
           \A d \in Clients \ {c} : pc'[d] = pc[d] /\ name'[d] = name[d],
           pc[c] \in {"offline", "idle", "store", "storing", "list", "lookup", "seat",
                      "leaving"},
           pc'[c] \in {"arriving", "store", "storing", "stored", "begin", "range",
                       "lookup", "leaving", "gone"},
           pc[c] = "offline" <=> pc'[c] = "arriving",
           UNCHANGED todo, pc'[c] = "gone" => ~Announcing,
           \/ pc'[c] # "range" /\ UNCHANGED << due, listed >>
           \/ /\ pc'[c] = "range" /\ listed'[c] = {} /\ due'[c] = rooms
              /\ \A d \in Clients \ {c} : due'[d] = due[d] /\ listed'[d] = listed[d]
              /\ \A n \in Names : Published(n) => n \in rooms
    PROVE  Gapless'
<1> USE SameInbox
<1>1. Online' \subseteq Online /\ Present' \subseteq Present
    BY DEF Online, Present, TypeOK
<1>2. OfflineFresh'
    BY DEF Gapless, OfflineFresh
<1>3. Announced'
    BY <1>1 DEF Gapless, Announced, Online, Present
<1>4. ListedSeen'
    BY DEF Gapless, ListedSeen
<1>5. ASSUME NEW n \in Names, Published(n)' PROVE Published(n)
    BY <1>5 DEF Published
<1>6. AllCovered'
    <2> SUFFICES ASSUME NEW n \in Names, Published(n), NEW d \in Present
                 PROVE  Covered(n, d)'
        BY <1>1, <1>5 DEF AllCovered
    <2>1. Covered(n, d) BY DEF Gapless, AllCovered
    <2>2. CASE d = c BY <2>1, <2>2 DEF Covered
    <2>3. CASE d # c BY <2>1, <2>3 DEF Covered, Online, Present
    <2> QED BY <2>2, <2>3
<1>7. TodoOnline'
    BY DEF Gapless, TodoOnline, Online, Announcing
<1> QED BY <1>2, <1>3, <1>4, <1>6, <1>7 DEF Gapless

\* Nor do messages that say nothing of a room that exists.
LEMMA GaplessTell ==
    ASSUME TypeOK, TypeOK', Gapless, NEW c \in Clients, NEW kind, NEW R,
           Tell(c, kind, R),
           kind \in {"LobbyList_Begin", "NotifyJoinRoomSuccess", "NotifyJoinRoomFailed"},
           \A d \in Clients \ {c} : pc'[d] = pc[d],
           pc[c] \in {"begin", "lookup"}, pc'[c] \in {"idle", "list", "seat"},
           UNCHANGED << peer, name, todo, due, listed >>
    PROVE  Gapless'
<1>1. \A d \in Clients :
        /\ View(d)' = View(d)
        /\ Told(d, "LobbyList_End")' <=> Told(d, "LobbyList_End")
        /\ ToldRooms(d, "NotifyCreateRoomSuccess")' =
             ToldRooms(d, "NotifyCreateRoomSuccess")
        /\ d # c => inbox'[d] = inbox[d]
    BY TellFrame
<1>2. Online' = Online /\ Present' = Present /\ Present \subseteq Clients
    BY DEF Online, Present, TypeOK
<1>3. OfflineFresh' BY <1>1 DEF Gapless, OfflineFresh
<1>4. Announced' BY <1>1, <1>2 DEF Gapless, Announced
<1>5. TodoOnline' BY <1>2 DEF Gapless, TodoOnline
<1>6. ListedSeen' BY <1>1 DEF Gapless, ListedSeen
<1>7. \A n : Published(n)' => Published(n)
    BY <1>1 DEF Published
<1>8. AllCovered'
    BY <1>1, <1>2, <1>7 DEF Gapless, AllCovered, Covered
<1> QED BY <1>3, <1>4, <1>5, <1>6, <1>8 DEF Gapless

LEMMA ViewNext == ViewInv /\ [Next]_vars => ViewInv'
<1> SUFFICES ASSUME ViewInv, [Next]_vars, ~raced' PROVE Gapless'
    BY ToldNext DEF ViewInv
<1>t. TypeOK /\ TypeOK'
    BY TypeNext DEF ViewInv, ToldInv
<1> USE DEF Goto, Asks, Access, Answered
<1>0. ~raced
    BY DEF Next, Connection, Stall, Wake, Hangup, Turn, Arrive, Connect, Depart,
           Leave, Request, RequestList, RequestCreate, RequestJoin, Handle,
           BeginList, StoreStart, StoreEnd, Announce, AppearTo,
           EndAnnounce, Created, StartRange, NextRoom, EndList, JoinFound,
           JoinFailed, Seat, MapFault, Over, vars
<1>i. Gapless /\ Stored /\ ListedStored /\ AllTold
    BY <1>0 DEF ViewInv, ToldInv
<1>p. \A n \in Names : Published(n) => n \in rooms
    BY <1>t, <1>i, PublishedStored
<1>g. OfflineFresh /\ Announced /\ TodoOnline /\ ListedSeen /\ AllCovered
    BY <1>i DEF Gapless
<1>1. ASSUME NEW c \in Clients, Connect(c) PROVE Gapless'
    <2> USE <1>1, <1>t, SameInbox
    <2>1. /\ inbox' = inbox /\ pc[c] = "arriving" /\ pc'[c] = "idle"
          /\ \A d \in Clients \ {c} : pc'[d] = pc[d]
          /\ UNCHANGED << peer, name, todo, due, listed >>
          /\ \A d \in Clients : pc[d] # "announce" /\ pc'[d] # "announce"
          /\ Online' = Online \cup {c} /\ Present' \subseteq Present \cup {c}
        BY DEF Connect, Announcing, TypeOK, Online, Present
    <2>2. OfflineFresh' BY <2>1, <1>g DEF OfflineFresh
    <2>3. Announced' BY <2>1 DEF Announced, Online, Present
    <2>4. ListedSeen' BY <2>1, <1>g DEF ListedSeen
    <2>5. ~Told(c, "LobbyList_End")
        BY <2>1, <1>g DEF OfflineFresh, Told
    <2>6. AllCovered'
        <3> SUFFICES ASSUME NEW n \in Names, Published(n)', NEW d \in Present'
                     PROVE  Covered(n, d)'
            BY DEF AllCovered
        <3>1. Published(n) BY <2>1 DEF Published
        <3>2. CASE d = c BY <3>2, <2>1, <2>5 DEF Covered
        <3>3. CASE d # c
            <4>1. d \in Present /\ d \in Clients BY <3>3, <2>1 DEF Online, Present
            <4> QED BY <4>1, <3>1, <3>3, <2>1, <1>g DEF AllCovered, Covered
        <3> QED BY <3>2, <3>3
    <2>7. TodoOnline' BY <2>1 DEF TodoOnline
    <2> QED BY <2>2, <2>3, <2>4, <2>6, <2>7 DEF Gapless
<1>2. ASSUME NEW c \in Clients, NEW n,
             \/ Arrive(c) \/ Depart(c) \/ Leave(c)
             \/ RequestCreate(c, n) \/ RequestJoin(c, n) \/ RequestList(c)
             \/ StoreStart(c) \/ StoreEnd(c) \/ StartRange(c)
      PROVE  Gapless'
    <2>1. /\ UNCHANGED << inbox, peer, todo >>
          /\ \A d \in Clients \ {c} : pc'[d] = pc[d] /\ name'[d] = name[d]
          /\ pc[c] \in {"offline", "idle", "store", "storing", "list", "leaving"}
          /\ pc'[c] \in {"arriving", "store", "storing", "stored", "begin", "range",
                         "lookup", "leaving", "gone"}
          /\ pc[c] = "offline" <=> pc'[c] = "arriving"
          /\ pc'[c] = "gone" => ~Announcing
        BY <1>2, <1>t DEF Arrive, Depart, Leave, RequestCreate, RequestJoin,
                          RequestList, StoreStart, StoreEnd, StartRange, TypeOK
    <2>2. \/ pc'[c] # "range" /\ UNCHANGED << due, listed >>
          \/ /\ pc'[c] = "range" /\ listed'[c] = {} /\ due'[c] = rooms
             /\ \A d \in Clients \ {c} : due'[d] = due[d] /\ listed'[d] = listed[d]
        BY <1>2, <1>t DEF Arrive, Depart, Leave, RequestCreate, RequestJoin,
                          RequestList, StoreStart, StoreEnd, StartRange, TypeOK
    <2> QED BY <2>1, <2>2, <1>t, <1>i, <1>p, GaplessQuiet
<1>3. ASSUME NEW c \in Clients, Announce(c) PROVE Gapless'
    <2> USE <1>3, <1>t, SameInbox
    <2>1. /\ inbox' = inbox /\ pc[c] = "stored" /\ pc'[c] = "announce"
          /\ \A d \in Clients \ {c} : pc'[d] = pc[d] /\ todo'[d] = todo[d]
          /\ todo'[c] = Online
          /\ UNCHANGED << peer, name, due, listed >>
          /\ Online' = Online /\ Present' = Present
        BY DEF Announce, TypeOK, Online, Present
    <2>2. OfflineFresh' BY <2>1, <1>g DEF OfflineFresh
    <2>3. Announced' BY <2>1, <1>g DEF Announced, Online, Present
    <2>4. ListedSeen' BY <2>1, <1>g DEF ListedSeen
    <2>5. AllCovered'
        BY <2>1, <1>g DEF AllCovered, Published, Covered, Online, Present
    <2>6. TodoOnline' BY <2>1, <1>g DEF TodoOnline
    <2> QED BY <2>2, <2>3, <2>4, <2>5, <2>6 DEF Gapless
<1>4. ASSUME NEW c \in Clients, EndAnnounce(c) PROVE Gapless'
    <2> USE <1>4, <1>t, SameInbox
    <2>1. /\ inbox' = inbox /\ pc[c] = "announce" /\ pc'[c] = "reply"
          /\ \A d \in Clients \ {c} : pc'[d] = pc[d]
          /\ todo[c] = {}
          /\ UNCHANGED << peer, name, due, listed, todo >>
          /\ Online' = Online /\ Present' = Present
        BY DEF EndAnnounce, TypeOK, Online, Present
    <2>2. OfflineFresh' BY <2>1, <1>g DEF OfflineFresh
    <2>3. Announced' BY <2>1, <1>g DEF Announced, Online, Present
    <2>4. ListedSeen' BY <2>1, <1>g DEF ListedSeen
    <2>5. AllCovered'
        <3> SUFFICES ASSUME NEW n \in Names, Published(n)', NEW d \in Present
                     PROVE  Covered(n, d)'
            BY <2>1 DEF AllCovered
        <3>0. d \in Clients BY DEF Online, Present
        <3>1. CASE Published(n)
            BY <3>0, <3>1, <2>1, <1>g DEF AllCovered, Covered
        <3>2. CASE n = name[c]
            BY <3>0, <3>2, <2>1, <1>g DEF Announced, Covered
        <3>3. Published(n) \/ n = name[c]
            BY <2>1 DEF Published
        <3> QED BY <3>1, <3>2, <3>3
    <2>6. TodoOnline' BY <2>1, <1>g DEF TodoOnline
    <2> QED BY <2>2, <2>3, <2>4, <2>5, <2>6 DEF Gapless
<1>5. ASSUME NEW c \in Clients, NEW d \in Clients, AppearTo(c, d)
      PROVE  Gapless'
    <2>1. /\ Tell(d, "GameRoom_Appear", {name[c]}) /\ d \in todo[c]
          /\ UNCHANGED << peer, pc, name, due, listed >>
          /\ Online' = Online /\ Present' = Present
          /\ todo' = [todo EXCEPT ![c] = @ \ {d}] /\ pc[c] = "announce"
        BY <1>5 DEF AppearTo, Online, Present
    <2>2. /\ peer[d] # "gone" => View(d)' = View(d) \cup {name[c]}
          /\ View(d) \subseteq View(d)'
          /\ \A e \in Clients \ {d} : View(e)' = View(e) /\ inbox'[e] = inbox[e]
          /\ \A e \in Clients : /\ Told(e, "LobbyList_End")' <=> Told(e, "LobbyList_End")
                                /\ ToldRooms(e, "NotifyCreateRoomSuccess")' =
                                     ToldRooms(e, "NotifyCreateRoomSuccess")
        BY <2>1, <1>t, TellFrame
    <2>3. d \in Online
        BY <2>1, <1>g DEF TodoOnline
    <2>4. OfflineFresh' BY <2>1, <2>2, <2>3, <1>g DEF OfflineFresh, Online
    <2>5. Announced'
        <3> SUFFICES ASSUME NEW b \in Clients, NEW e \in Present,
                            pc[b] = "announce", e \notin todo'[b]
                     PROVE  name[b] \in View(e)'
            BY <2>1 DEF Announced
        <3>1. e \in Clients BY DEF Online, Present
        <3>2. CASE e \notin todo[b]
            BY <3>1, <3>2, <2>2, <1>g DEF Announced
        <3>3. CASE e \in todo[b]
            <4>1. b = c /\ e = d BY <3>3, <2>1, <1>t DEF TypeOK
            <4> QED BY <4>1, <2>2 DEF Present
        <3> QED BY <3>2, <3>3
    <2>6. TodoOnline'
        <3> SUFFICES ASSUME NEW b \in Clients, pc'[b] = "announce"
                     PROVE  todo'[b] \subseteq Online'
            BY DEF TodoOnline
        <3>1. pc[b] = "announce" /\ todo'[b] \subseteq todo[b]
            BY <2>1, <1>t DEF TypeOK
        <3>2. todo[b] \subseteq Online BY <3>1, <1>g DEF TodoOnline
        <3> QED BY <3>1, <3>2, <2>1
    <2>7. ListedSeen' BY <2>1, <2>2, <1>g DEF ListedSeen
    <2>8. AllCovered'
        BY <2>1, <2>2, <1>g DEF AllCovered, Published, Covered, Online, Present
    <2> QED BY <2>4, <2>5, <2>6, <2>7, <2>8 DEF Gapless
<1>6. ASSUME NEW c \in Clients, Created(c) PROVE Gapless'
    <2>1. /\ Tell(c, "NotifyCreateRoomSuccess", {name[c]})
          /\ pc[c] = "reply" /\ pc'[c] = "idle"
          /\ \A d \in Clients \ {c} : pc'[d] = pc[d]
          /\ UNCHANGED << peer, name, due, listed, todo >>
          /\ Online' = Online /\ Present' = Present
        BY <1>6, <1>t DEF Created, Online, Present, TypeOK
    <2>2. /\ ToldRooms(c, "NotifyCreateRoomSuccess")' \subseteq
               ToldRooms(c, "NotifyCreateRoomSuccess") \cup {name[c]}
          /\ \A e \in Clients \ {c} :
               /\ inbox'[e] = inbox[e]
               /\ ToldRooms(e, "NotifyCreateRoomSuccess")' =
                    ToldRooms(e, "NotifyCreateRoomSuccess")
          /\ \A e \in Clients : /\ Told(e, "LobbyList_End")' <=> Told(e, "LobbyList_End")
                                /\ View(e)' = View(e)
        BY <2>1, <1>t, TellFrame
    <2>3. OfflineFresh' BY <2>1, <2>2, <1>g DEF OfflineFresh
    <2>4. Announced' BY <2>1, <2>2, <1>g DEF Announced, Online, Present
    <2>5. TodoOnline' BY <2>1, <1>g DEF TodoOnline
    <2>6. ListedSeen' BY <2>1, <2>2, <1>g DEF ListedSeen
    <2>7. \A n : Published(n)' => Published(n)
        BY <2>1, <2>2 DEF Published
    <2>8. AllCovered'
        BY <2>1, <2>2, <2>7, <1>g DEF AllCovered, Covered, Online, Present
    <2> QED BY <2>3, <2>4, <2>5, <2>6, <2>8 DEF Gapless
<1>7. ASSUME NEW c \in Clients, BeginList(c) \/ JoinFound(c) \/ JoinFailed(c)
      PROVE  Gapless'
    <2>1. /\ pc[c] \in {"begin", "lookup"} /\ pc'[c] \in {"idle", "list", "seat"}
          /\ \A d \in Clients \ {c} : pc'[d] = pc[d]
          /\ UNCHANGED << peer, name, todo, due, listed >>
        BY <1>7, <1>t DEF BeginList, JoinFound, JoinFailed, TypeOK
    <2>2. PICK kind \in {"LobbyList_Begin", "NotifyJoinRoomSuccess",
                         "NotifyJoinRoomFailed"}, R \in SUBSET Names :
            Tell(c, kind, R)
        BY <1>7, <1>t DEF BeginList, JoinFound, JoinFailed, TypeOK
    <2> QED BY <2>1, <2>2, <1>t, <1>i, GaplessTell
<1>8. ASSUME NEW c \in Clients, NEW n \in Names, NextRoom(c, n) PROVE Gapless'
    <2>1. /\ Tell(c, "LobbyList_Add", listed'[c])
          /\ pc[c] = "range" /\ UNCHANGED << peer, pc, name, due, todo >>
          /\ listed'[c] = listed[c] \cup {n}
          /\ \A d \in Clients \ {c} : listed'[d] = listed[d]
          /\ Online' = Online /\ Present' = Present
        BY <1>8, <1>t DEF NextRoom, TypeOK, Online, Present
    <2>2. /\ peer[c] # "gone" => View(c)' = View(c) \cup listed'[c]
          /\ View(c) \subseteq View(c)'
          /\ \A e \in Clients \ {c} : View(e)' = View(e) /\ inbox'[e] = inbox[e]
          /\ \A e \in Clients : /\ Told(e, "LobbyList_End")' <=> Told(e, "LobbyList_End")
                                /\ ToldRooms(e, "NotifyCreateRoomSuccess")' =
                                     ToldRooms(e, "NotifyCreateRoomSuccess")
        BY <2>1, <1>t, TellFrame
    <2>3. OfflineFresh' BY <2>1, <2>2, <1>g DEF OfflineFresh
    <2>4. Announced' BY <2>1, <2>2, <1>g DEF Announced, Online, Present
    <2>5. TodoOnline' BY <2>1, <1>g DEF TodoOnline
    <2>6. ListedSeen' BY <2>1, <2>2, <1>g DEF ListedSeen
    <2>7. AllCovered'
        BY <2>1, <2>2, <1>g DEF AllCovered, Published, Covered, Online, Present
    <2> QED BY <2>3, <2>4, <2>5, <2>6, <2>7 DEF Gapless
<1>9. ASSUME NEW c \in Clients, EndList(c) PROVE Gapless'
    <2>1. /\ Tell(c, "LobbyList_End", {})
          /\ pc[c] = "range" /\ pc'[c] = "idle" /\ due[c] \subseteq listed[c]
          /\ \A d \in Clients \ {c} : pc'[d] = pc[d]
          /\ UNCHANGED << peer, name, due, listed, todo >>
          /\ Online' = Online /\ Present' = Present
        BY <1>9, <1>t DEF EndList, TypeOK, Online, Present
    <2>2. /\ \A e \in Clients \ {c} :
               /\ inbox'[e] = inbox[e]
               /\ Told(e, "LobbyList_End")' <=> Told(e, "LobbyList_End")
          /\ \A e \in Clients : /\ View(e)' = View(e)
                                /\ ToldRooms(e, "NotifyCreateRoomSuccess")' =
                                     ToldRooms(e, "NotifyCreateRoomSuccess")
        BY <2>1, <1>t, TellFrame
    <2>3. OfflineFresh' BY <2>1, <2>2, <1>g DEF OfflineFresh
    <2>4. Announced' BY <2>1, <2>2, <1>g DEF Announced, Online, Present
    <2>5. TodoOnline' BY <2>1, <1>g DEF TodoOnline
    <2>6. ListedSeen' BY <2>1, <2>2, <1>g DEF ListedSeen
    <2>7. AllCovered'
        <3> SUFFICES ASSUME NEW n \in Names, Published(n)', NEW d \in Present
                     PROVE  Covered(n, d)'
            BY <2>1 DEF AllCovered
        <3>1. d \in Clients /\ Published(n)
            BY <2>1, <2>2 DEF Online, Present, Published
        <3>2. Covered(n, d) BY <3>1, <1>g DEF AllCovered
        <3>3. CASE d = c
            BY <3>2, <3>3, <2>1, <2>2, <1>g DEF Covered, ListedSeen, Present
        <3>4. CASE d # c
            BY <3>1, <3>2, <3>4, <2>1, <2>2 DEF Covered
        <3> QED BY <3>3, <3>4
    <2> QED BY <2>3, <2>4, <2>5, <2>6, <2>7 DEF Gapless
<1>10. ASSUME NEW c \in Clients,
              Seat(c) \/ MapFault(c) \/ Stall(c) \/ Wake(c) \/ Hangup(c)
       PROVE  Gapless'
    <2>1. /\ UNCHANGED << pc, name, todo, due, listed, inbox >>
          /\ \A d \in Clients : peer[d] = "gone" => peer'[d] = "gone"
        BY <1>10, <1>t DEF Seat, MapFault, Stall, Wake, Hangup, Turn, TypeOK
    <2> QED BY <2>1, <1>i, GaplessSame
<1>11. CASE Over \/ UNCHANGED vars
    BY <1>11, <1>i, GaplessSame DEF Over, vars
<1>12. ASSUME NEW c \in Clients, Handle(c) PROVE Gapless'
    BY <1>2, <1>3, <1>4, <1>5, <1>6, <1>7, <1>8, <1>9, <1>10, <1>12 DEF Handle
<1>13. ASSUME NEW c \in Clients, Request(c) PROVE Gapless'
    BY <1>2, <1>13, LobbyAssumption DEF Request
<1>14. ASSUME NEW c \in Clients, Connection(c) PROVE Gapless'
    BY <1>1, <1>2, <1>10, <1>14 DEF Connection
<1> QED BY <1>11, <1>12, <1>13, <1>14 DEF Next

\* No client that is still there and was sent a whole list misses a room whose
\* creator was answered (lobby-server/main.go), as long as no two goroutines have been
\* in the map at once unnoticed.
THEOREM ViewsComplete == Spec => []ViewComplete
<1>1. ViewInv => ViewComplete
    <2> SUFFICES ASSUME ToldInv, Gapless, NEW d \in Online, peer[d] # "gone",
                        Told(d, "LobbyList_End"), NEW c \in Clients,
                        NEW n \in ToldRooms(c, "NotifyCreateRoomSuccess")
                 PROVE  n \in View(d)
        BY DEF ViewInv, ViewComplete
    <2>1. n \in Names
        <3>1. PICK m \in inbox[c] : n \in m.rooms
            BY DEF ToldRooms
        <3>2. m \in Messages
            BY DEF ToldInv, TypeOK
        <3> QED BY <3>1, <3>2 DEF Messages
    <2>2. Published(n)
        BY DEF Published
    <2> QED BY <2>1, <2>2 DEF Gapless, AllCovered, Covered, Present
<1> QED BY <1>1, ViewInit, ViewNext, PTL DEF Spec
=============================================================================
