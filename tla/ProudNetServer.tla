--------------------------- MODULE ProudNetServer ---------------------------
(***************************************************************************)
(* The TCP server every emulated ProudNet service (entry, lobby, battle)   *)
(* is built on: server/internal/proudnet/server.go with the frame writer   *)
(* and reader of framing.go.                                               *)
(*                                                                         *)
(* One accept loop admits connections, gives each a HostID and enters it   *)
(* in the registry `conns' under a reader/writer lock; one goroutine per   *)
(* connection reads frames and runs the handler of the RMI it names; a     *)
(* handler sends frames to its own client or broadcasts one to every       *)
(* registered connection while it holds the read lock.  A frame reaches a  *)
(* socket as two Write calls, the length prefix and the payload, and a     *)
(* Write blocks while the peer's socket buffer is full.                    *)
(*                                                                         *)
(* A connection is a value of Conns and connects at most once.  What an    *)
(* RMI's handler does is abstracted to Plan[rmi], the sequence of its      *)
(* calls of Send and Broadcast; a payload is abstracted to the identity of *)
(* the call that wrote it, << goroutine, number of the call >>.            *)
(***************************************************************************)
EXTENDS Integers, Sequences

CONSTANTS
    Conns,      \* the TCP connections of one run of the server (fewer than
                \*   2^31 - 2, so that the int32 HostID counter does not wrap)
    NoConn,     \* no connection: nobody holds or awaits the write lock
    Rmi,        \* the RMI ids that have a registered handler
    Plan,       \* what the handler of each does: "send" and "broadcast" calls
    Inputs,     \* BOUND: the frames each client sends, see Frames
    MaxReq,     \* BOUND: how many frames each client sends
    Cap,        \* chunks (Write calls) a socket buffer holds before a Write blocks
    Draining    \* the clients that read their socket; the others never do (one
                \*   that stops reading later is one with a larger buffer)

Calls == {"send", "broadcast"}

(* Frames: an RMI with a handler; "ignored": not an RMI, a short header, an *)
(* id without a handler or arguments the handler rejects before it sends;   *)
(* "broken": ReadFrame fails (a zero length).                               *)
Frames == Rmi \cup {"ignored", "broken"}

ASSUME ServerAssumption ==
    /\ NoConn \notin Conns
    /\ Plan \in [Rmi -> Seq(Calls)]
    /\ Rmi \cap {"ignored", "broken"} = {}
    /\ Inputs \in [Conns -> SUBSET Frames]
    /\ MaxReq \in [Conns -> Nat]
    /\ Cap \in Nat \ {0}
    /\ Draining \subseteq Conns

VARIABLES
    client,     \* the remote end: "idle", "open" or "gone"
    inbound,    \* every frame the client has sent
    nread,      \* how many of them ReadFrame has returned
    sent,       \* every chunk written to the client's socket
    rcvd,       \* how many of them the client has read
    nextHostID, \* Server.nextHostID
    hostID,     \* Conn.HostID, 0 before Accept
    conns,      \* Server.conns: HostID -> connection
    readers,    \* goroutines that hold Server.mu for reading
    wlock,      \* the connection whose insertion or removal has called mu.Lock:
                \*   it holds mu, or waits for the readers to leave
    pc,         \* where the goroutine of the connection is
    rest,       \* calls left to its running handler
    callno,     \* how many Send or Broadcast calls it has begun
    target,     \* the connection the current frame goes to
    visited,    \* the connections the running Broadcast has served
    ctxDone,    \* the signal context is cancelled
    server      \* "up", "closed" (listener closed) or "exited" (main returned)

netVars  == << client, inbound, sent, rcvd >>
regVars  == << nextHostID, hostID, conns >>
lockVars == << readers, wlock >>
goVars   == << nread, rest, callno, target, visited >>
runVars  == << ctxDone, server >>
vars     == << netVars, regVars, lockVars, pc, goVars, runVars >>

-----------------------------------------------------------------------------
Dispatch(f) == IF f \in Rmi THEN Plan[f] ELSE << >>

Messages == Conns \X Nat
Chunks == [part : {"header", "payload"}, msg : Messages]

\* The message goroutine c is sending, and its two chunks.
CurrentMsg(c) == << c, callno[c] >>
Header(m)  == [part |-> "header", msg |-> m]
Payload(m) == [part |-> "payload", msg |-> m]

Registered == {conns[h] : h \in DOMAIN conns}
Closed(c) == pc[c] \in {"unregister", "done"}

\* A Write to this socket fails, or is lost without blocking.
Dead(c) == client[c] = "gone" \/ Closed(c)

\* The socket buffer of c has room for one more Write.
Room(c) == Len(sent[c]) - rcvd[c] < Cap

\* The accept loop is at Accept, not between Accept and the next iteration.
AcceptorIdle == \A c \in Conns : pc[c] # "new"

Init ==
    /\ client = [c \in Conns |-> "idle"]
    /\ inbound = [c \in Conns |-> << >>]
    /\ nread = [c \in Conns |-> 0]
    /\ sent = [c \in Conns |-> << >>]
    /\ rcvd = [c \in Conns |-> 0]
    /\ nextHostID = 2
    /\ hostID = [c \in Conns |-> 0]
    /\ conns = [h \in {} |-> NoConn]
    /\ readers = {}
    /\ wlock = NoConn
    /\ pc = [c \in Conns |-> "none"]
    /\ rest = [c \in Conns |-> << >>]
    /\ callno = [c \in Conns |-> 0]
    /\ target = [c \in Conns |-> NoConn]
    /\ visited = [c \in Conns |-> {}]
    /\ ctxDone = FALSE
    /\ server = "up"

-----------------------------------------------------------------------------
(* The clients and the network.                                             *)

\* The kernel completes the handshake: the connection waits in the backlog.
Connect(c) ==
    /\ client[c] = "idle" /\ server = "up"
    /\ client' = [client EXCEPT ![c] = "open"]
    /\ UNCHANGED << inbound, sent, rcvd, regVars, lockVars, pc, goVars, runVars >>

ClientSend(c, f) ==
    /\ client[c] = "open" /\ ~Closed(c) /\ server # "exited"
    /\ Len(inbound[c]) < MaxReq[c]
    /\ inbound' = [inbound EXCEPT ![c] = Append(@, f)]
    /\ UNCHANGED << client, sent, rcvd, regVars, lockVars, pc, goVars, runVars >>

ClientRead(c) ==
    /\ c \in Draining
    /\ client[c] = "open" /\ server # "exited"
    /\ rcvd[c] < Len(sent[c])
    /\ rcvd' = [rcvd EXCEPT ![c] = @ + 1]
    /\ UNCHANGED << client, inbound, sent, regVars, lockVars, pc, goVars, runVars >>

Disconnect(c) ==
    /\ client[c] = "open" /\ server # "exited"
    /\ client' = [client EXCEPT ![c] = "gone"]
    /\ UNCHANGED << inbound, sent, rcvd, regVars, lockVars, pc, goVars, runVars >>

-----------------------------------------------------------------------------
(* Start and stop: ListenAndServe and the signal context.                   *)

\* SIGINT or SIGTERM.
Cancel ==
    /\ ~ctxDone /\ server # "exited"
    /\ ctxDone' = TRUE
    /\ UNCHANGED << netVars, regVars, lockVars, pc, goVars, server >>

\* The goroutine that waits for ctx.Done closes the listener.
CloseListener ==
    /\ ctxDone /\ server = "up"
    /\ server' = "closed"
    /\ UNCHANGED << netVars, regVars, lockVars, pc, goVars, ctxDone >>

\* Seeded fault: shutdown waits until every connection has left.
AcceptStopDrained ==
    /\ server = "closed" /\ AcceptorIdle /\ Registered = {}
    /\ server' = "exited"
    /\ UNCHANGED << netVars, regVars, lockVars, pc, goVars, ctxDone >>

\* Accept fails on the closed listener: ListenAndServe and then main return.
AcceptStop ==
    /\ server = "closed" /\ AcceptorIdle
    /\ server' = "exited"
    /\ UNCHANGED << netVars, regVars, lockVars, pc, goVars, ctxDone >>

\* Seeded fault: the HostID counter does not advance.
AcceptSameID(c) ==
    /\ server = "up" /\ AcceptorIdle
    /\ client[c] # "idle" /\ pc[c] = "none"
    /\ hostID' = [hostID EXCEPT ![c] = nextHostID]
    /\ pc' = [pc EXCEPT ![c] = "new"]
    /\ UNCHANGED << netVars, nextHostID, conns, lockVars, goVars, runVars >>

\* Accept returns the connection (its client may have left meanwhile).
Accept(c) ==
    /\ server = "up" /\ AcceptorIdle
    /\ client[c] # "idle" /\ pc[c] = "none"
    /\ hostID' = [hostID EXCEPT ![c] = nextHostID]
    /\ nextHostID' = nextHostID + 1
    /\ pc' = [pc EXCEPT ![c] = "new"]
    /\ UNCHANGED << netVars, conns, lockVars, goVars, runVars >>

-----------------------------------------------------------------------------
(* The registry and its lock.  mu.Lock announces the writer, which keeps    *)
(* new readers out, and then waits for the readers that hold the lock.      *)

RequestLock(c) ==
    /\ server # "exited"
    /\ pc[c] \in {"new", "unregister"}
    /\ wlock = NoConn
    /\ wlock' = c
    /\ UNCHANGED << netVars, regVars, readers, pc, goVars, runVars >>

HasLock(c) == wlock = c /\ readers = {}

\* The accept loop inserts the connection, unlocks and starts its goroutine.
Register(c) ==
    /\ server # "exited"
    /\ pc[c] = "new" /\ HasLock(c)
    /\ conns' = [h \in DOMAIN conns \cup {hostID[c]} |->
                    IF h = hostID[c] THEN c ELSE conns[h]]
    /\ wlock' = NoConn
    /\ pc' = [pc EXCEPT ![c] = "top"]
    /\ UNCHANGED << netVars, nextHostID, hostID, readers, goVars, runVars >>

\* The deferred function of serve: the socket is closed, ...
Close(c) ==
    /\ server # "exited"
    /\ pc[c] = "close"
    /\ pc' = [pc EXCEPT ![c] = "unregister"]
    /\ UNCHANGED << netVars, regVars, lockVars, goVars, runVars >>

\* Seeded fault: the entry is set to nil instead of deleted.
UnregisterNil(c) ==
    /\ server # "exited"
    /\ pc[c] = "unregister" /\ HasLock(c)
    /\ conns' = [conns EXCEPT ![hostID[c]] = NoConn]
    /\ wlock' = NoConn
    /\ pc' = [pc EXCEPT ![c] = "done"]
    /\ UNCHANGED << netVars, nextHostID, hostID, readers, goVars, runVars >>

\* Seeded fault: the deferred function forgets mu.Unlock.
UnregisterNoUnlock(c) ==
    /\ server # "exited"
    /\ pc[c] = "unregister" /\ HasLock(c)
    /\ conns' = [h \in DOMAIN conns \ {hostID[c]} |-> conns[h]]
    /\ pc' = [pc EXCEPT ![c] = "done"]
    /\ UNCHANGED << netVars, nextHostID, hostID, lockVars, goVars, runVars >>

\* ... and later, under the lock, the entry of its HostID is deleted.
Unregister(c) ==
    /\ server # "exited"
    /\ pc[c] = "unregister" /\ HasLock(c)
    /\ conns' = [h \in DOMAIN conns \ {hostID[c]} |-> conns[h]]
    /\ wlock' = NoConn
    /\ pc' = [pc EXCEPT ![c] = "done"]
    /\ UNCHANGED << netVars, nextHostID, hostID, readers, goVars, runVars >>

-----------------------------------------------------------------------------
(* The loop of serve.                                                       *)

Top(c) ==
    /\ server # "exited"
    /\ pc[c] = "top"
    /\ pc' = [pc EXCEPT ![c] = IF ctxDone THEN "close" ELSE "read"]
    /\ UNCHANGED << netVars, regVars, lockVars, goVars, runVars >>

ReadFrame(c) ==
    /\ server # "exited"
    /\ pc[c] = "read" /\ nread[c] < Len(inbound[c])
    /\ LET f == inbound[c][nread[c] + 1] IN
         /\ pc' = [pc EXCEPT ![c] = IF f = "broken" THEN "close" ELSE "exec"]
         /\ rest' = [rest EXCEPT ![c] = Dispatch(f)]
    /\ nread' = [nread EXCEPT ![c] = @ + 1]
    /\ UNCHANGED << netVars, regVars, lockVars, callno, target, visited, runVars >>

\* Seeded fault: a read error is logged and the loop goes on.
ReadErrorContinue(c) ==
    /\ server # "exited"
    /\ pc[c] = "read" /\ client[c] = "gone"
    /\ pc' = [pc EXCEPT ![c] = "top"]
    /\ UNCHANGED << netVars, regVars, lockVars, goVars, runVars >>

\* The client is gone: EOF, or an error that discards what it had sent.
ReadError(c) ==
    /\ server # "exited"
    /\ pc[c] = "read" /\ client[c] = "gone"
    /\ pc' = [pc EXCEPT ![c] = "close"]
    /\ UNCHANGED << netVars, regVars, lockVars, goVars, runVars >>

EndHandler(c) ==
    /\ server # "exited"
    /\ pc[c] = "exec" /\ rest[c] = << >>
    /\ pc' = [pc EXCEPT ![c] = "top"]
    /\ UNCHANGED << netVars, regVars, lockVars, goVars, runVars >>

\* Seeded fault: the reply goes to the connection accepted last.
StartSendLast(c) ==
    /\ server # "exited"
    /\ pc[c] = "exec" /\ rest[c] # << >> /\ Head(rest[c]) = "send"
    /\ callno' = [callno EXCEPT ![c] = @ + 1]
    /\ target' = [target EXCEPT ![c] = CHOOSE d \in Conns : hostID[d] = nextHostID - 1]
    /\ pc' = [pc EXCEPT ![c] = "header"]
    /\ UNCHANGED << netVars, regVars, lockVars, nread, rest, visited, runVars >>

StartSend(c) ==
    /\ server # "exited"
    /\ pc[c] = "exec" /\ rest[c] # << >> /\ Head(rest[c]) = "send"
    /\ callno' = [callno EXCEPT ![c] = @ + 1]
    /\ target' = [target EXCEPT ![c] = c]
    /\ pc' = [pc EXCEPT ![c] = "header"]
    /\ UNCHANGED << netVars, regVars, lockVars, nread, rest, visited, runVars >>

\* Broadcast: mu.RLock waits while a writer holds or awaits the lock.
StartBroadcast(c) ==
    /\ server # "exited"
    /\ pc[c] = "exec" /\ rest[c] # << >> /\ Head(rest[c]) = "broadcast"
    /\ wlock = NoConn
    /\ readers' = readers \cup {c}
    /\ callno' = [callno EXCEPT ![c] = @ + 1]
    /\ visited' = [visited EXCEPT ![c] = {}]
    /\ pc' = [pc EXCEPT ![c] = "range"]
    /\ UNCHANGED << netVars, regVars, wlock, nread, rest, target, runVars >>

\* Seeded fault: the range may yield an entry again.
NextTargetAgain(c, d) ==
    /\ server # "exited"
    /\ pc[c] = "range" /\ d \in Registered \ visited[c]
    /\ target' = [target EXCEPT ![c] = d]
    /\ pc' = [pc EXCEPT ![c] = "header"]
    /\ UNCHANGED << netVars, regVars, lockVars, nread, rest, callno, visited, runVars >>

\* The range over s.conns yields an entry it has not yielded, in any order.
NextTarget(c, d) ==
    /\ server # "exited"
    /\ pc[c] = "range" /\ d \in Registered \ visited[c]
    /\ target' = [target EXCEPT ![c] = d]
    /\ visited' = [visited EXCEPT ![c] = @ \cup {d}]
    /\ pc' = [pc EXCEPT ![c] = "header"]
    /\ UNCHANGED << netVars, regVars, lockVars, nread, rest, callno, runVars >>

EndBroadcast(c) ==
    /\ server # "exited"
    /\ pc[c] = "range" /\ Registered \subseteq visited[c]
    /\ readers' = readers \ {c}
    /\ rest' = [rest EXCEPT ![c] = Tail(@)]
    /\ pc' = [pc EXCEPT ![c] = "exec"]
    /\ UNCHANGED << netVars, regVars, wlock, nread, callno, target, visited, runVars >>

-----------------------------------------------------------------------------
(* WriteFrame: two Write calls.  An error ends the frame; it is logged by    *)
(* Broadcast and by serve, and changes nothing else.                        *)

\* Send returns: to the range of Broadcast, or to the handler's next call.
FrameDone(c) ==
    IF c \in readers
    THEN pc' = [pc EXCEPT ![c] = "range"] /\ UNCHANGED rest
    ELSE pc' = [pc EXCEPT ![c] = "exec"] /\ rest' = [rest EXCEPT ![c] = Tail(@)]

WriteHeader(c) ==
    /\ server # "exited"
    /\ pc[c] = "header" /\ ~Dead(target[c]) /\ Room(target[c])
    /\ sent' = [sent EXCEPT ![target[c]] = Append(@, Header(CurrentMsg(c)))]
    /\ pc' = [pc EXCEPT ![c] = "payload"]
    /\ UNCHANGED << client, inbound, rcvd, regVars, lockVars, goVars, runVars >>

WritePayload(c) ==
    /\ server # "exited"
    /\ pc[c] = "payload" /\ ~Dead(target[c]) /\ Room(target[c])
    /\ sent' = [sent EXCEPT ![target[c]] = Append(@, Payload(CurrentMsg(c)))]
    /\ FrameDone(c)
    /\ UNCHANGED << client, inbound, rcvd, regVars, lockVars, nread, callno,
                    target, visited, runVars >>

\* Seeded fault: a write that would block is abandoned, as with a deadline.
WriteErrorDeadline(c) ==
    /\ server # "exited"
    /\ pc[c] \in {"header", "payload"}
    /\ Dead(target[c]) \/ ~Room(target[c])
    /\ FrameDone(c)
    /\ UNCHANGED << netVars, regVars, lockVars, nread, callno, target, visited,
                    runVars >>

\* Seeded fault: the first error ends the broadcast.
WriteErrorStops(c) ==
    /\ server # "exited"
    /\ pc[c] \in {"header", "payload"} /\ Dead(target[c])
    /\ readers' = readers \ {c}
    /\ pc' = [pc EXCEPT ![c] = "exec"]
    /\ rest' = [rest EXCEPT ![c] = Tail(@)]
    /\ UNCHANGED << netVars, regVars, wlock, nread, callno, target, visited, runVars >>

WriteError(c) ==
    /\ server # "exited"
    /\ pc[c] \in {"header", "payload"} /\ Dead(target[c])
    /\ FrameDone(c)
    /\ UNCHANGED << netVars, regVars, lockVars, nread, callno, target, visited,
                    runVars >>

-----------------------------------------------------------------------------
\* What the goroutine of connection c, or the accept loop for it, does next.
Serve(c) ==
    \/ RequestLock(c) \/ Register(c) \/ Close(c) \/ Unregister(c)
    \/ Top(c) \/ ReadFrame(c) \/ ReadError(c)
    \/ EndHandler(c) \/ StartSend(c) \/ StartBroadcast(c) \/ EndBroadcast(c)
    \/ \E d \in Conns : NextTarget(c, d)
    \/ WriteHeader(c) \/ WritePayload(c) \/ WriteError(c)

ClientStep(c) ==
    \/ Connect(c) \/ ClientRead(c) \/ Disconnect(c)
    \/ \E f \in Inputs[c] : ClientSend(c, f)

\* The process has exited: nothing happens any more.
Terminated == server = "exited" /\ UNCHANGED vars

Next ==
    \/ \E c \in Conns : Accept(c) \/ Serve(c) \/ ClientStep(c)
    \/ Cancel \/ CloseListener \/ AcceptStop
    \/ Terminated

Spec == Init /\ [][Next]_vars

\* The scheduler runs every goroutine that can run, and the kernel hands out
\* every pending connection; of the clients, only those of Draining must read.
Fairness ==
    /\ \A c \in Conns : WF_vars(Serve(c)) /\ WF_vars(Accept(c))
    /\ WF_vars(CloseListener) /\ WF_vars(AcceptStop)
    /\ \A c \in Draining : WF_vars(ClientRead(c))

FairSpec == Spec /\ Fairness

-----------------------------------------------------------------------------
(* Properties.                                                              *)

Goroutine == {"none", "new", "top", "read", "exec", "range", "header",
              "payload", "close", "unregister", "done"}

\* The values the variables take.
TypeOK ==
    /\ client \in [Conns -> {"idle", "open", "gone"}]
    /\ inbound \in [Conns -> Seq(Frames)]
    /\ nread \in [Conns -> Nat]
    /\ sent \in [Conns -> Seq(Chunks)]
    /\ rcvd \in [Conns -> Nat]
    /\ nextHostID \in Nat
    /\ hostID \in [Conns -> Nat]
    /\ DOMAIN conns \subseteq Nat /\ conns \in [DOMAIN conns -> Conns]
    /\ readers \subseteq Conns
    /\ wlock \in Conns \cup {NoConn}
    /\ pc \in [Conns -> Goroutine]
    /\ rest \in [Conns -> Seq(Calls)]
    /\ callno \in [Conns -> Nat]
    /\ target \in [Conns -> Conns \cup {NoConn}]
    /\ visited \in [Conns -> SUBSET Conns]
    /\ ctxDone \in BOOLEAN
    /\ server \in {"up", "closed", "exited"}

Served(c) == pc[c] \notin {"none", "new", "done"}

\* A connection is in the registry from the end of the accept loop's
\* iteration to its own deferred delete, whatever the other goroutines do;
\* no entry is overwritten, deleted by another connection's cleanup or left
\* behind, and each is filed under the connection's own HostID, never 0 or 1.
RegistryExact ==
    /\ \A h \in DOMAIN conns : h >= 2 /\ hostID[conns[h]] = h
    /\ \A c \in Conns : Served(c) <=> c \in Registered

Delivered(d, m) == \E i \in 1..Len(sent[d]) : sent[d][i] = Payload(m)

\* When a Broadcast returns, every connection then registered whose socket is
\* alive has been sent its frame, even those that asked to leave, or whose
\* client stalled and read on, while it ran.
BroadcastReachesAll ==
    [][\A c \in Conns : c \in readers \ readers' =>
          \A d \in Registered : Dead(d) \/ Delivered(d, CurrentMsg(c))]_vars

\* Frames of one sender reach a client in the order of the sender's calls and
\* none reaches it twice, however the frames of the senders interleave.
SenderOrder ==
    \A d \in Conns : \A i, j \in 1..Len(sent[d]) :
        /\ i < j
        /\ sent[d][i].part = sent[d][j].part
        /\ sent[d][i].msg[1] = sent[d][j].msg[1]
        => sent[d][i].msg[2] < sent[d][j].msg[2]

\* Every length prefix in s is followed by the payload it announces.
WellFramed(s) ==
    \A i \in 1..Len(s) :
        IF i % 2 = 1
        THEN s[i].part = "header"
        ELSE s[i] = Payload(s[i-1].msg)

\* The stream a client reads is a sequence of frames (WriteFrame): no other
\* goroutine's chunk comes between a length prefix and its payload.
WireFramed == \A d \in Conns : WellFramed(sent[d])

\* What the client's own framing makes of the chunks: a prefix with another
\* message's payload behind it is garbage.
FramesOf(s) ==
    [k \in 1..(Len(s) \div 2) |->
        IF s[2*k] = Payload(s[2*k - 1].msg) THEN s[2*k].msg ELSE << >>]

Replies == INSTANCE ReplyStreams WITH
             Clients <- Conns, stream <- [c \in Conns |-> FramesOf(sent[c])]

\* For handlers that only reply, the frames on each client's socket implement
\* the abstract service ReplyStreams: nothing lost, repeated, reordered, torn
\* or misdelivered.
ImplementsReplyStreams == Replies!Spec

Settled(c) ==
    \/ pc[c] = "read" /\ nread[c] = Len(inbound[c])
    \/ Dead(c) \/ ctxDone

\* A client that has connected, and reads its socket, is accepted, registered
\* and has every frame it sent handled, unless it leaves or the server stops.
ClientsServed == \A c \in Draining : client[c] = "open" ~> Settled(c)

\* A connection whose client has left is removed from the registry.
LeaversRemoved ==
    \A c \in Conns : client[c] = "gone" /\ c \in Registered
                        ~> c \notin Registered \/ server = "exited"

\* SIGINT or SIGTERM ends the process.
ShutdownCompletes == ctxDone ~> server = "exited"
=============================================================================
