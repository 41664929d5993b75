-------------------------------- MODULE Lobby --------------------------------
(***************************************************************************)
(* The room table of the lobby server (server/cmd/lobby-server/main.go):   *)
(* lobbyMap, a Go map that the handlers of all clients share with no lock, *)
(* and what the clients are told about it.                                 *)
(*                                                                         *)
(* Each client's requests are handled by its own goroutine, one at a time. *)
(* Of the server below (module ProudNetServer) this module keeps what the  *)
(* table's users meet: a message to a client that does not read waits, one *)
(* to a client that has hung up is lost and the handler goes on, a         *)
(* Broadcast holds the registry's read lock, and a connection that arrives *)
(* or leaves waits for the write lock and meanwhile keeps new Broadcasts   *)
(* out.  A message is written in one step, not in two chunks.              *)
(*                                                                         *)
(* A store into a Go map sets the map's `writing' flag for its duration;   *)
(* an access that sees the flag set ends the process ("concurrent map      *)
(* writes", "concurrent map read and map write"), but the flag is not      *)
(* atomic, so an access may also miss it.  After such a race (`raced') the *)
(* memory model promises nothing; here an entry may then be lost, and the  *)
(* invariants below speak of the runs without one.                         *)
(*                                                                         *)
(* The value stored for a room never changes: JoinGameRoom counts gamers   *)
(* in a copy of it.  A room is therefore its name.  The rest of that       *)
(* handler, from the assignment to lobby.Players on, and handleStartGame   *)
(* cannot run, see Seat.                                                   *)
(***************************************************************************)
EXTENDS Naturals

CONSTANTS
    Clients,    \* the connections of one run
    Names,      \* room names
    NoName,     \* one of them: "", for a name that could not be read
    Ops,        \* BOUND: the requests they make, of "create", "join", "list"
    MaxReq      \* BOUND: how many each of them makes

ASSUME LobbyAssumption ==
    /\ NoName \in Names
    /\ Ops \subseteq {"create", "join", "list"}
    /\ MaxReq \in [Clients -> Nat]

VARIABLES
    fault,      \* what ended the process: "none", "map race" or "nil map"
    raced,      \* two goroutines were in the map at once, unnoticed
    rooms,      \* the keys of lobbyMap.lobbies
    peer,       \* the remote end: "reads"; "stalled", its buffer is full; "gone"
    pc,         \* where the goroutine of each client is
    name,       \* lobbyName of its request
    todo,       \* the clients its running Broadcast has still to serve
    due,        \* the rooms that were in the map when its range began
    listed,     \* the rooms in its message res
    nreq,       \* how many requests each client has made
    answered,   \* history: to how many of them the last answer was written
    inbox       \* the messages each client has been sent

vars == << fault, raced, rooms, peer, pc, name, todo, due, listed, nreq, answered,
           inbox >>

\* The connections in the registry; the readers of its lock and its writer.
Online == {c \in Clients : pc[c] \notin {"offline", "arriving", "gone"}}
Announcing == \E c \in Clients : pc[c] = "announce"
LockAwaited == \E c \in Clients : pc[c] \in {"arriving", "leaving"}

\* Another goroutine's store is under way.
Clash(c) == \E d \in Clients \ {c} : pc[d] = "storing"

\* An access to the map that does not end the process.
Access(c) == raced' = (raced \/ Clash(c))

Init ==
    /\ fault = "none" /\ raced = FALSE
    /\ rooms = {}
    /\ peer = [c \in Clients |-> "reads"]
    /\ pc = [c \in Clients |-> "offline"]
    /\ name = [c \in Clients |-> NoName]
    /\ todo = [c \in Clients |-> {}]
    /\ due = [c \in Clients |-> {}]
    /\ listed = [c \in Clients |-> {}]
    /\ nreq = [c \in Clients |-> 0]
    /\ answered = [c \in Clients |-> 0]
    /\ inbox = [c \in Clients |-> {}]

Goto(c, from, to) == fault = "none" /\ pc[c] = from /\ pc' = [pc EXCEPT ![c] = to]

\* A Write waits while the client's buffer is full; one to a dead connection
\* fails, and every caller logs the error or drops it.
Tell(d, kind, R) ==
    /\ peer[d] # "stalled"
    /\ IF peer[d] = "gone" THEN UNCHANGED inbox
       ELSE inbox' = [inbox EXCEPT ![d] = @ \cup {[rmi |-> kind, rooms |-> R]}]

Answered(c) == answered' = [answered EXCEPT ![c] = @ + 1]

-----------------------------------------------------------------------------
(* Connections: the client's end, and the server's registry.                *)

\* The client stops reading for now or for ever, reads again, or hangs up.
Turn(c, from, to) ==
    /\ fault = "none" /\ pc[c] \notin {"offline", "gone"}
    /\ peer[c] = from /\ peer' = [peer EXCEPT ![c] = to]
    /\ UNCHANGED << fault, raced, rooms, pc, name, todo, due, listed, nreq,
                    answered, inbox >>

Stall(c)  == Turn(c, "reads", "stalled")
Wake(c)   == Turn(c, "stalled", "reads")
Hangup(c) == Turn(c, "reads", "gone") \/ Turn(c, "stalled", "gone")

\* mu.Lock, by the accept loop or by a goroutine whose read has failed: one
\* writer at a time announces itself and waits for the Broadcasts to end.
Arrive(c) ==
    /\ Goto(c, "offline", "arriving") /\ ~LockAwaited
    /\ UNCHANGED << fault, raced, rooms, peer, name, todo, due, listed, nreq,
                    answered, inbox >>

Depart(c) ==
    /\ Goto(c, "idle", "leaving") /\ ~LockAwaited
    /\ UNCHANGED << fault, raced, rooms, peer, name, todo, due, listed, nreq,
                    answered, inbox >>

Connect(c) ==
    /\ Goto(c, "arriving", "idle") /\ ~Announcing
    /\ UNCHANGED << fault, raced, rooms, peer, name, todo, due, listed, nreq,
                    answered, inbox >>

Leave(c) ==
    /\ Goto(c, "leaving", "gone") /\ ~Announcing
    /\ UNCHANGED << fault, raced, rooms, peer, name, todo, due, listed, nreq,
                    answered, inbox >>

Asks(c, op) ==
    /\ op \in Ops /\ nreq[c] < MaxReq[c]
    /\ nreq' = [nreq EXCEPT ![c] = @ + 1]

\* RequestCreateGameRoom: a name that cannot be read is logged and left NoName.
RequestCreate(c, n) ==
    /\ Goto(c, "idle", "store") /\ Asks(c, "create")
    /\ name' = [name EXCEPT ![c] = n]
    /\ UNCHANGED << fault, raced, rooms, peer, todo, due, listed, answered,
                    inbox >>

StoreStart(c) ==
    /\ Goto(c, "store", "storing") /\ Access(c)
    /\ UNCHANGED << fault, rooms, peer, name, todo, due, listed, nreq, answered,
                    inbox >>

StoreEnd(c) ==
    /\ Goto(c, "storing", "stored") /\ Access(c)
    /\ \/ rooms' = rooms \cup {name[c]}
       \/ raced' /\ UNCHANGED rooms
    /\ UNCHANGED << fault, peer, name, todo, due, listed, nreq, answered,
                    inbox >>

\* Broadcast of GameRoom_Appear: mu.RLock waits behind a waiting writer.
Announce(c) ==
    /\ Goto(c, "stored", "announce") /\ ~LockAwaited
    /\ todo' = [todo EXCEPT ![c] = Online]
    /\ UNCHANGED << fault, raced, rooms, peer, name, due, listed, nreq,
                    answered, inbox >>

AppearTo(c, d) ==
    /\ fault = "none" /\ pc[c] = "announce" /\ d \in todo[c]
    /\ todo' = [todo EXCEPT ![c] = @ \ {d}]
    /\ Tell(d, "GameRoom_Appear", {name[c]})
    /\ UNCHANGED << fault, raced, rooms, peer, pc, name, due, listed, nreq,
                    answered >>

\* Seeded fault: the handler returns after the Broadcast.
EndAnnounceNoReply(c) ==
    /\ Goto(c, "announce", "idle") /\ todo[c] = {}
    /\ UNCHANGED << fault, raced, rooms, peer, name, todo, due, listed, nreq,
                    answered, inbox >>

EndAnnounce(c) ==
    /\ Goto(c, "announce", "reply") /\ todo[c] = {}
    /\ UNCHANGED << fault, raced, rooms, peer, name, todo, due, listed, nreq,
                    answered, inbox >>

Created(c) ==
    /\ Goto(c, "reply", "idle")
    /\ Tell(c, "NotifyCreateRoomSuccess", {name[c]})
    /\ Answered(c)
    /\ UNCHANGED << fault, raced, rooms, peer, name, todo, due, listed, nreq >>

-----------------------------------------------------------------------------
\* RequestLobbyList.
RequestList(c) ==
    /\ Goto(c, "idle", "begin") /\ Asks(c, "list")
    /\ UNCHANGED << fault, raced, rooms, peer, name, todo, due, listed,
                    answered, inbox >>

BeginList(c) ==
    /\ Goto(c, "begin", "list")
    /\ Tell(c, "LobbyList_Begin", {})
    /\ UNCHANGED << fault, raced, rooms, peer, name, todo, due, listed, nreq,
                    answered >>

StartRange(c) ==
    /\ Goto(c, "list", "range") /\ Access(c)
    /\ due' = [due EXCEPT ![c] = rooms]
    /\ listed' = [listed EXCEPT ![c] = {}]
    /\ UNCHANGED << fault, rooms, peer, name, todo, nreq, answered, inbox >>

\* The range yields a room it has not yielded: one that was there when it began
\* or, perhaps, a newer one.  It joins the others in res, which is sent again.
NextRoom(c, n) ==
    /\ Goto(c, "range", "range") /\ Access(c)
    /\ n \in rooms \ listed[c]
    /\ listed' = [listed EXCEPT ![c] = @ \cup {n}]
    /\ Tell(c, "LobbyList_Add", listed'[c])
    /\ UNCHANGED << fault, rooms, peer, name, todo, due, nreq, answered >>

\* Seeded fault: the list ends after its first room.
EndListFirst(c) ==
    /\ Goto(c, "range", "idle") /\ Access(c)
    /\ due[c] = {} \/ listed[c] # {}
    /\ Tell(c, "LobbyList_End", {})
    /\ Answered(c)
    /\ UNCHANGED << fault, rooms, peer, name, todo, due, listed, nreq >>

EndList(c) ==
    /\ Goto(c, "range", "idle") /\ Access(c)
    /\ due[c] \subseteq listed[c]
    /\ Tell(c, "LobbyList_End", {})
    /\ Answered(c)
    /\ UNCHANGED << fault, rooms, peer, name, todo, due, listed, nreq >>

-----------------------------------------------------------------------------
\* RequestJoinGameRoom.
RequestJoin(c, n) ==
    /\ Goto(c, "idle", "lookup") /\ Asks(c, "join")
    /\ name' = [name EXCEPT ![c] = n]
    /\ UNCHANGED << fault, raced, rooms, peer, todo, due, listed, answered,
                    inbox >>

JoinFound(c) ==
    /\ Goto(c, "lookup", "seat") /\ Access(c)
    /\ name[c] \in rooms
    /\ Tell(c, "NotifyJoinRoomSuccess", {name[c]})
    /\ UNCHANGED << fault, rooms, peer, name, todo, due, listed, nreq,
                    answered >>

\* Seeded fault: a join of an unknown room is told it succeeded.
JoinUnchecked(c) ==
    /\ Goto(c, "lookup", "idle") /\ Access(c)
    /\ name[c] \notin rooms
    /\ Tell(c, "NotifyJoinRoomSuccess", {name[c]})
    /\ Answered(c)
    /\ UNCHANGED << fault, rooms, peer, name, todo, due, listed, nreq >>

JoinFailed(c) ==
    /\ Goto(c, "lookup", "idle") /\ Access(c)
    /\ name[c] \notin rooms
    /\ Tell(c, "NotifyJoinRoomFailed", {})
    /\ Answered(c)
    /\ UNCHANGED << fault, rooms, peer, name, todo, due, listed, nreq >>

\* lobby.Players is nil, no code makes it: the assignment panics, nothing
\* recovers, and the process ends.
Seat(c) ==
    /\ fault = "none" /\ pc[c] = "seat"
    /\ fault' = "nil map"
    /\ UNCHANGED << raced, rooms, peer, pc, name, todo, due, listed, nreq,
                    answered, inbox >>

\* The access sees another goroutine's flag, or finds its own one cleared.
MapFault(c) ==
    /\ fault = "none" /\ Clash(c)
    /\ pc[c] \in {"store", "storing", "range", "lookup"}
    /\ fault' = "map race"
    /\ UNCHANGED << raced, rooms, peer, pc, name, todo, due, listed, nreq,
                    answered, inbox >>

-----------------------------------------------------------------------------
\* What the goroutine of c does with the request it has read.
Handle(c) ==
    \/ StoreStart(c) \/ StoreEnd(c) \/ Announce(c) \/ EndAnnounce(c) \/ Created(c)
    \/ \E d \in Clients : AppearTo(c, d)
    \/ BeginList(c) \/ StartRange(c) \/ EndList(c) \/ \E n \in Names : NextRoom(c, n)
    \/ JoinFound(c) \/ JoinFailed(c) \/ Seat(c) \/ MapFault(c)

Request(c) ==
    \/ RequestList(c)
    \/ \E n \in Names : RequestCreate(c, n) \/ RequestJoin(c, n)

\* The process has ended, or every client of the run has left.
Over ==
    /\ fault # "none" \/ \A c \in Clients : pc[c] = "gone"
    /\ UNCHANGED vars

Connection(c) ==
    \/ Stall(c) \/ Wake(c) \/ Hangup(c)
    \/ Arrive(c) \/ Connect(c) \/ Depart(c) \/ Leave(c)

Next ==
    \/ \E c \in Clients : Connection(c) \/ Request(c) \/ Handle(c)
    \/ Over

Spec == Init /\ [][Next]_vars

\* The range may come to a stalled client before all others it has to serve.
Stuck(c) == \E d \in todo[c] : peer[d] = "stalled"

\* Every goroutine that has a request to handle and does not wait in a Write
\* runs, and a writer whose turn it is gets the lock; no client need ask, read
\* or leave.
FairSpec ==
    /\ Spec
    /\ \A c \in Clients : /\ WF_vars(~Stuck(c) /\ Handle(c))
                         /\ WF_vars(Connect(c)) /\ WF_vars(Leave(c))

-----------------------------------------------------------------------------
(* Properties.                                                              *)

Messages ==
    [ rooms : SUBSET Names,
      rmi : {"GameRoom_Appear", "NotifyCreateRoomSuccess", "LobbyList_Begin",
             "LobbyList_Add", "LobbyList_End", "NotifyJoinRoomSuccess",
             "NotifyJoinRoomFailed"} ]

\* The values the variables take.
TypeOK ==
    /\ fault \in {"none", "map race", "nil map"} /\ raced \in BOOLEAN
    /\ rooms \subseteq Names
    /\ peer \in [Clients -> {"reads", "stalled", "gone"}]
    /\ pc \in [Clients -> {"offline", "arriving", "idle", "store", "storing", "stored",
                           "announce", "reply", "begin", "list", "range",
                           "lookup", "seat", "leaving", "gone"}]
    /\ name \in [Clients -> Names]
    /\ todo \in [Clients -> SUBSET Clients]
    /\ due \in [Clients -> SUBSET Names]
    /\ listed \in [Clients -> SUBSET Names]
    /\ nreq \in [Clients -> Nat]
    /\ answered \in [Clients -> Nat]
    /\ inbox \in [Clients -> SUBSET Messages]

\* What client d has been told of in messages of kind, and whether in any.
ToldRooms(d, kind) == UNION {m.rooms : m \in {k \in inbox[d] : k.rmi = kind}}
Told(d, kind) == \E m \in inbox[d] : m.rmi = kind

\* Every room a client has been told of, by an announcement, a reply or a
\* list, is in the table, so that a join of it finds it.
ToldExists ==
    raced \/ \A d \in Clients : \A m \in inbox[d] : m.rooms \subseteq rooms

\* What client d can show: the rooms announced to it or listed to it.
View(d) == ToldRooms(d, "GameRoom_Appear") \cup ToldRooms(d, "LobbyList_Add")

\* A client that is still there and was sent one whole list misses no room
\* whose creator has been answered, whenever it connected: the list has the
\* older rooms and the announcements the newer ones.
ViewComplete ==
    raced \/ \A d \in Online : peer[d] # "gone" /\ Told(d, "LobbyList_End") =>
        \A c \in Clients : ToldRooms(c, "NotifyCreateRoomSuccess") \subseteq View(d)

\* A Broadcast that holds the read lock waits for a client that does not read.
Held == \E b \in Clients : pc[b] = "announce" /\ Stuck(b)

\* The goroutine of c waits, itself or for the lock, for such a client.
Waiting(c) == peer[c] = "stalled" \/ Stuck(c) \/ (pc[c] = "stored" /\ Held)

\* Time and again every request of a client has had its last answer, however
\* the requests, the announcements and the connections come and go: unless the
\* process dies, the client hangs up, or some client stops reading at a place
\* where its goroutine must wait (server.go:175-178, framing.go:82-86).
RequestsAnswered ==
    \A c \in Clients :
        []<>(\/ answered[c] = nreq[c]
             \/ fault # "none" \/ peer[c] = "gone" \/ Waiting(c))
=============================================================================
