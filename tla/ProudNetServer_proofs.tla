------------------------ MODULE ProudNetServer_proofs ------------------------
(***************************************************************************)
(* Proofs about ProudNetServer, for every set of connections, every plan   *)
(* of the handlers, every buffer size and every bound on the requests.     *)
(***************************************************************************)
EXTENDS ProudNetServer, TLAPS, SequenceTheorems

-----------------------------------------------------------------------------
(* Type correctness.  A goroutine inside a call has that call at the head   *)
(* of `rest', so that Tail is only taken of non-empty sequences, and one    *)
(* that writes a frame writes it to a connection.                           *)

CallPending ==
    \A c \in Conns :
        /\ pc[c] \in {"range", "header", "payload"} => rest[c] # << >>
        /\ pc[c] \in {"header", "payload"} => target[c] \in Conns

TypeInv == TypeOK /\ CallPending

LEMMA InitType == Init => TypeInv
<1> SUFFICES ASSUME Init PROVE TypeInv
  OBVIOUS
<1> USE ServerAssumption DEF Init
<1>1. TypeOK
  <2>1. /\ inbound \in [Conns -> Seq(Frames)]
        /\ sent \in [Conns -> Seq(Chunks)]
        /\ rest \in [Conns -> Seq(Calls)]
    OBVIOUS
  <2>2. conns \in [DOMAIN conns -> Conns] /\ DOMAIN conns \subseteq Nat
    OBVIOUS
  <2> QED
    BY <2>1, <2>2 DEF TypeOK, Goroutine
<1>2. CallPending
  BY DEF CallPending
<1> QED
  BY <1>1, <1>2 DEF TypeInv

\* Tail and Append keep a sequence a sequence of the same elements.
LEMMA SeqFacts ==
    ASSUME NEW S, NEW s \in Seq(S), NEW e \in S
    PROVE  /\ Append(s, e) \in Seq(S)
           /\ s # << >> => Tail(s) \in Seq(S)
  OBVIOUS

LEMMA FrameDoneType ==
    ASSUME TypeInv, NEW c \in Conns, pc[c] \in {"header", "payload"},
           FrameDone(c), UNCHANGED target
    PROVE  /\ pc' \in [Conns -> Goroutine]
           /\ rest' \in [Conns -> Seq(Calls)]
           /\ CallPending'
<1>1. rest[c] \in Seq(Calls) /\ rest[c] # << >>
  BY DEF TypeInv, TypeOK, CallPending
<1>2. Tail(rest[c]) \in Seq(Calls)
  BY <1>1
<1>3. CASE c \in readers
  BY <1>1, <1>3 DEF FrameDone, TypeInv, TypeOK, CallPending, Goroutine
<1>4. CASE c \notin readers
  <2>1. rest' \in [Conns -> Seq(Calls)]
    BY <1>2, <1>4 DEF FrameDone, TypeInv, TypeOK
  <2>2. pc' = [pc EXCEPT ![c] = "exec"] /\ \A d \in Conns \ {c} : rest'[d] = rest[d]
    BY <1>4 DEF FrameDone, TypeInv, TypeOK
  <2> QED
    BY <2>1, <2>2 DEF TypeInv, TypeOK, CallPending, Goroutine
<1> QED
  BY <1>3, <1>4

LEMMA NextType == TypeInv /\ [Next]_vars => TypeInv'
<1> SUFFICES ASSUME TypeInv, [Next]_vars PROVE TypeInv'
  OBVIOUS
<1> USE DEF TypeInv
<1>1. CASE UNCHANGED vars
  BY <1>1 DEF vars, netVars, regVars, lockVars, goVars, runVars, TypeOK, CallPending
<1>2. ASSUME NEW c \in Conns, Accept(c) PROVE TypeInv'
  <2>1. nextHostID' \in Nat /\ hostID' \in [Conns -> Nat]
    <3>1. nextHostID \in Nat /\ hostID \in [Conns -> Nat]
      BY DEF TypeOK
    <3> QED
      BY <1>2, <3>1 DEF Accept
  <2>2. pc' \in [Conns -> Goroutine] /\ CallPending'
    BY <1>2 DEF Accept, goVars, TypeOK, CallPending, Goroutine
  <2> QED
    BY <1>2, <2>1, <2>2 DEF Accept, netVars, lockVars, goVars, runVars, TypeOK
<1>3. ASSUME NEW c \in Conns, RequestLock(c) PROVE TypeInv'
  BY <1>3 DEF RequestLock, netVars, regVars, goVars, runVars, TypeOK, CallPending
<1>4. ASSUME NEW c \in Conns, Register(c) PROVE TypeInv'
  BY <1>4 DEF Register, netVars, goVars, runVars, TypeOK, CallPending, Goroutine
<1>5. ASSUME NEW c \in Conns, Close(c) PROVE TypeInv'
  BY <1>5 DEF Close, netVars, regVars, lockVars, goVars, runVars, TypeOK, CallPending, Goroutine
<1>6. ASSUME NEW c \in Conns, Unregister(c) PROVE TypeInv'
  BY <1>6 DEF Unregister, netVars, goVars, runVars, TypeOK, CallPending, Goroutine
<1>7. ASSUME NEW c \in Conns, Top(c) PROVE TypeInv'
  BY <1>7 DEF Top, netVars, regVars, lockVars, goVars, runVars, TypeOK, CallPending, Goroutine
<1>8. ASSUME NEW c \in Conns, ReadFrame(c) PROVE TypeInv'
  <2> DEFINE f == inbound[c][nread[c] + 1]
  <2>1. f \in Frames
    BY <1>8 DEF ReadFrame, TypeOK
  <2>2. Dispatch(f) \in Seq(Calls)
    BY <2>1, ServerAssumption DEF Dispatch
  <2>3. nread' \in [Conns -> Nat]
    BY <1>8 DEF ReadFrame, TypeOK
  <2>4. rest' \in [Conns -> Seq(Calls)]
    BY <1>8, <2>2 DEF ReadFrame, TypeOK
  <2>5. pc' \in [Conns -> Goroutine] /\ CallPending'
    BY <1>8 DEF ReadFrame, TypeOK, CallPending, Goroutine
  <2> QED
    BY <1>8, <2>3, <2>4, <2>5 DEF ReadFrame, netVars, regVars, lockVars, runVars, TypeOK
<1>9. ASSUME NEW c \in Conns, ReadError(c) PROVE TypeInv'
  BY <1>9 DEF ReadError, netVars, regVars, lockVars, goVars, runVars, TypeOK, CallPending, Goroutine
<1>10. ASSUME NEW c \in Conns, EndHandler(c) PROVE TypeInv'
  BY <1>10 DEF EndHandler, netVars, regVars, lockVars, goVars, runVars, TypeOK, CallPending, Goroutine
<1>11. ASSUME NEW c \in Conns, StartSend(c) PROVE TypeInv'
  <2>1. callno' \in [Conns -> Nat]
    <3>1. callno \in [Conns -> Nat]
      BY DEF TypeOK
    <3> QED
      BY <1>11, <3>1 DEF StartSend
  <2>2. pc' \in [Conns -> Goroutine] /\ CallPending'
    BY <1>11 DEF StartSend, TypeOK, CallPending, Goroutine
  <2> QED
    BY <1>11, <2>1, <2>2 DEF StartSend, netVars, regVars, lockVars, runVars, TypeOK
<1>12. ASSUME NEW c \in Conns, StartBroadcast(c) PROVE TypeInv'
  BY <1>12 DEF StartBroadcast, netVars, regVars, runVars, TypeOK, CallPending, Goroutine
<1>13. ASSUME NEW c \in Conns, EndBroadcast(c) PROVE TypeInv'
  <2>1. Tail(rest[c]) \in Seq(Calls)
    BY <1>13, SeqFacts DEF EndBroadcast, TypeOK, CallPending
  <2> QED
    BY <1>13, <2>1 DEF EndBroadcast, netVars, regVars, runVars, TypeOK, CallPending, Goroutine
<1>14. ASSUME NEW c \in Conns, NEW d \in Conns, NextTarget(c, d) PROVE TypeInv'
  BY <1>14 DEF NextTarget, netVars, regVars, lockVars, runVars, TypeOK, CallPending, Goroutine
<1>15. ASSUME NEW c \in Conns, WriteHeader(c) PROVE TypeInv'
  <2>1. Header(CurrentMsg(c)) \in Chunks
    BY DEF TypeOK, Header, CurrentMsg, Chunks, Messages
  <2>2. sent' \in [Conns -> Seq(Chunks)]
    <3>1. \A d \in Conns : Append(sent[d], Header(CurrentMsg(c))) \in Seq(Chunks)
      BY <2>1, SeqFacts DEF TypeOK
    <3> QED
      BY <1>15, <3>1 DEF WriteHeader, TypeOK
  <2> QED
    BY <1>15, <2>2 DEF WriteHeader, regVars, lockVars, goVars, runVars, TypeOK, CallPending, Goroutine
<1>16. ASSUME NEW c \in Conns, WritePayload(c) PROVE TypeInv'
  <2>1. Payload(CurrentMsg(c)) \in Chunks
    BY DEF TypeOK, Payload, CurrentMsg, Chunks, Messages
  <2>2. sent' \in [Conns -> Seq(Chunks)]
    <3>1. \A d \in Conns : Append(sent[d], Payload(CurrentMsg(c))) \in Seq(Chunks)
      BY <2>1, SeqFacts DEF TypeOK
    <3> QED
      BY <1>16, <3>1 DEF WritePayload, TypeOK
  <2> QED
    BY <1>16, <2>2, FrameDoneType DEF WritePayload, regVars, lockVars, runVars, TypeOK
<1>17. ASSUME NEW c \in Conns, WriteError(c) PROVE TypeInv'
  BY <1>17, FrameDoneType DEF WriteError, netVars, regVars, lockVars, runVars, TypeOK
<1>18. ASSUME NEW c \in Conns, ClientStep(c) PROVE TypeInv'
  <2>1. CASE Connect(c)
    BY <2>1 DEF Connect, regVars, lockVars, goVars, runVars, TypeOK, CallPending
  <2>2. CASE ClientRead(c)
    <3>1. rcvd' \in [Conns -> Nat]
      BY <2>2 DEF ClientRead, TypeOK
    <3> QED
      BY <2>2, <3>1 DEF ClientRead, regVars, lockVars, goVars, runVars, TypeOK, CallPending
  <2>3. CASE Disconnect(c)
    BY <2>3 DEF Disconnect, regVars, lockVars, goVars, runVars, TypeOK, CallPending
  <2>4. ASSUME NEW f \in Inputs[c], ClientSend(c, f) PROVE TypeInv'
    <3>1. inbound' \in [Conns -> Seq(Frames)]
      <4>1. f \in Frames
        BY <2>4, ServerAssumption
      <4>2. Append(inbound[c], f) \in Seq(Frames)
        BY <4>1, SeqFacts DEF TypeOK
      <4> QED
        BY <2>4, <4>2 DEF ClientSend, TypeOK
    <3> QED
      BY <2>4, <3>1 DEF ClientSend, regVars, lockVars, goVars, runVars, TypeOK, CallPending
  <2> QED
    BY <1>18, <2>1, <2>2, <2>3, <2>4 DEF ClientStep
<1>19. CASE Cancel \/ CloseListener \/ AcceptStop
  BY <1>19 DEF Cancel, CloseListener, AcceptStop, netVars, regVars, lockVars, goVars, TypeOK, CallPending
<1> QED
  BY <1>1, <1>2, <1>3, <1>4, <1>5, <1>6, <1>7, <1>8, <1>9, <1>10, <1>11, <1>12,
     <1>13, <1>14, <1>15, <1>16, <1>17, <1>18, <1>19
     DEF Next, Serve, Terminated

(* The variables always hold values of their types.                          *)
THEOREM TypeCorrect == Spec => []TypeOK
<1>1. TypeInv => TypeOK
  BY DEF TypeInv
<1> QED
  BY InitType, NextType, <1>1, PTL DEF Spec

-----------------------------------------------------------------------------
(* The registry.  RegistryExact is not inductive: that Register overwrites   *)
(* no entry and Unregister deletes none but its own needs HostIDs that are   *)
(* distinct, and those need the counter to be ahead of all of them.          *)

HostIDsDistinct ==
    /\ nextHostID >= 2
    /\ \A c \in Conns : pc[c] # "none" => hostID[c] >= 2 /\ hostID[c] < nextHostID
    /\ \A c, d \in Conns :
          pc[c] # "none" /\ pc[d] # "none" /\ hostID[c] = hostID[d] => c = d

Registry ==
    /\ \A h \in DOMAIN conns : Served(conns[h]) /\ hostID[conns[h]] = h
    /\ \A c \in Conns : Served(c) => hostID[c] \in DOMAIN conns /\ conns[hostID[c]] = c

RegistryInv == HostIDsDistinct /\ Registry

LEMMA InitRegistry == Init => RegistryInv
  BY DEF Init, RegistryInv, HostIDsDistinct, Registry, Served

LEMMA RegistryImpliesExact == TypeInv /\ RegistryInv => RegistryExact
<1> SUFFICES ASSUME TypeInv, RegistryInv PROVE RegistryExact
  OBVIOUS
<1>1. ASSUME NEW h \in DOMAIN conns PROVE h >= 2 /\ hostID[conns[h]] = h
  <2>1. conns[h] \in Conns
    BY DEF TypeInv, TypeOK
  <2> QED
    BY <2>1 DEF RegistryInv, HostIDsDistinct, Registry, Served
<1>2. ASSUME NEW c \in Conns PROVE Served(c) <=> c \in Registered
  BY DEF RegistryInv, Registry, Registered
<1> QED
  BY <1>1, <1>2 DEF RegistryExact

\* Steps that keep the registry and move goroutines only inside serve.
QuietMove ==
    /\ UNCHANGED regVars
    /\ \A d \in Conns : \A p \in {"none", "new", "done"} : pc[d] = p <=> pc'[d] = p

LEMMA QuietRegistry == TypeInv /\ RegistryInv /\ QuietMove => RegistryInv'
<1> SUFFICES ASSUME TypeInv, RegistryInv, QuietMove PROVE RegistryInv'
  OBVIOUS
<1>1. \A h \in DOMAIN conns : conns[h] \in Conns
  BY DEF TypeInv, TypeOK
<1>2. \A d \in Conns : Served(d) <=> Served(d)'
  BY DEF QuietMove, Served
<1> QED
  BY <1>1, <1>2 DEF RegistryInv, HostIDsDistinct, Registry, QuietMove, regVars

LEMMA ServeMove ==
    ASSUME TypeInv, NEW c \in Conns,
           \/ RequestLock(c) \/ Close(c)
           \/ Top(c) \/ ReadFrame(c) \/ ReadError(c)
           \/ EndHandler(c) \/ StartSend(c) \/ StartBroadcast(c) \/ EndBroadcast(c)
           \/ \E d \in Conns : NextTarget(c, d)
           \/ WriteHeader(c) \/ WritePayload(c) \/ WriteError(c)
    PROVE  QuietMove
<1> USE DEF QuietMove, TypeInv, TypeOK
<1>1. CASE RequestLock(c)
  BY <1>1 DEF RequestLock
<1>2. CASE Close(c)
  BY <1>2 DEF Close
<1>3. CASE Top(c)
  BY <1>3 DEF Top
<1>4. CASE ReadFrame(c)
  BY <1>4 DEF ReadFrame
<1>5. CASE ReadError(c)
  BY <1>5 DEF ReadError
<1>6. CASE EndHandler(c)
  BY <1>6 DEF EndHandler
<1>7. CASE StartSend(c)
  BY <1>7 DEF StartSend
<1>8. CASE StartBroadcast(c)
  BY <1>8 DEF StartBroadcast
<1>9. CASE EndBroadcast(c)
  BY <1>9 DEF EndBroadcast
<1>10. ASSUME NEW d \in Conns, NextTarget(c, d) PROVE QuietMove
  BY <1>10 DEF NextTarget
<1>11. CASE WriteHeader(c)
  BY <1>11 DEF WriteHeader
<1>12. CASE WritePayload(c)
  <2>1. pc[c] \in {"header", "payload"} /\ UNCHANGED regVars
    BY <1>12 DEF WritePayload
  <2>2. pc' = [pc EXCEPT ![c] = "range"] \/ pc' = [pc EXCEPT ![c] = "exec"]
    BY <1>12 DEF WritePayload, FrameDone
  <2> QED
    BY <2>1, <2>2
<1>13. CASE WriteError(c)
  <2>1. pc[c] \in {"header", "payload"} /\ UNCHANGED regVars
    BY <1>13 DEF WriteError
  <2>2. pc' = [pc EXCEPT ![c] = "range"] \/ pc' = [pc EXCEPT ![c] = "exec"]
    BY <1>13 DEF WriteError, FrameDone
  <2> QED
    BY <2>1, <2>2
<1> QED
  BY <1>1, <1>2, <1>3, <1>4, <1>5, <1>6, <1>7, <1>8, <1>9, <1>10, <1>11, <1>12, <1>13

LEMMA OutsideMove ==
    ASSUME TypeInv,
           \/ UNCHANGED vars \/ Cancel \/ CloseListener \/ AcceptStop
           \/ \E c \in Conns : ClientStep(c)
    PROVE  UNCHANGED << regVars, readers, pc, callno, target, visited >>
<1>1. CASE UNCHANGED vars
  BY <1>1 DEF vars, regVars, lockVars, goVars
<1>2. CASE Cancel \/ CloseListener \/ AcceptStop
  BY <1>2 DEF Cancel, CloseListener, AcceptStop, lockVars, goVars
<1>3. ASSUME NEW c \in Conns, ClientStep(c)
      PROVE  UNCHANGED << regVars, readers, pc, callno, target, visited >>
  BY <1>3 DEF ClientStep, Connect, ClientRead, Disconnect, ClientSend, lockVars, goVars
<1> QED
  BY <1>1, <1>2, <1>3

LEMMA NextRegistry == TypeInv /\ RegistryInv /\ [Next]_vars => RegistryInv'
<1> SUFFICES ASSUME TypeInv, RegistryInv, [Next]_vars PROVE RegistryInv'
  OBVIOUS
<1>t. /\ nextHostID \in Nat /\ hostID \in [Conns -> Nat] /\ pc \in [Conns -> Goroutine]
      /\ \A h \in DOMAIN conns : conns[h] \in Conns
  BY DEF TypeInv, TypeOK
<1>1. ASSUME NEW c \in Conns, Accept(c) PROVE RegistryInv'
  <2>1. HostIDsDistinct'
    BY <1>1, <1>t DEF Accept, RegistryInv, HostIDsDistinct
  <2>2. \A d \in Conns : Served(d)' => Served(d) /\ d # c /\ hostID'[d] = hostID[d]
    BY <1>1, <1>t DEF Accept, Served
  <2>3. \A d \in Conns : Served(d) => Served(d)' /\ d # c /\ hostID'[d] = hostID[d]
    BY <1>1, <1>t DEF Accept, Served
  <2>4. Registry'
    BY <1>1, <1>t, <2>2, <2>3 DEF Accept, RegistryInv, Registry
  <2> QED
    BY <2>1, <2>4 DEF RegistryInv
<1>2. ASSUME NEW c \in Conns, Register(c) PROVE RegistryInv'
  <2>1. HostIDsDistinct'
    BY <1>2, <1>t DEF Register, RegistryInv, HostIDsDistinct
  <2>2. Served(c)' /\ \A d \in Conns \ {c} : Served(d)' <=> Served(d)
    BY <1>2, <1>t DEF Register, Served
  <2>3. ~Served(c)
    BY <1>2 DEF Register, Served
  <2>4. \A d \in Conns : Served(d) => hostID[d] # hostID[c]
    BY <1>2, <2>3 DEF Register, Served, RegistryInv, HostIDsDistinct
  <2>5. /\ DOMAIN conns' = DOMAIN conns \cup {hostID[c]} /\ hostID' = hostID
        /\ conns'[hostID[c]] = c
        /\ \A h \in DOMAIN conns \ {hostID[c]} : conns'[h] = conns[h]
    BY <1>2 DEF Register
  <2>6. Registry'
    BY <1>t, <2>2, <2>3, <2>4, <2>5 DEF RegistryInv, Registry
  <2> QED
    BY <2>1, <2>6 DEF RegistryInv
<1>3. ASSUME NEW c \in Conns, Unregister(c) PROVE RegistryInv'
  <2>1. HostIDsDistinct'
    BY <1>3, <1>t DEF Unregister, RegistryInv, HostIDsDistinct
  <2>2. ~Served(c)' /\ \A d \in Conns \ {c} : Served(d)' <=> Served(d)
    BY <1>3, <1>t DEF Unregister, Served
  <2>3. Served(c)
    BY <1>3 DEF Unregister, Served
  <2>4. \A d \in Conns \ {c} : Served(d) => hostID[d] # hostID[c]
    BY <2>3 DEF Served, RegistryInv, HostIDsDistinct
  <2>5. /\ DOMAIN conns' = DOMAIN conns \ {hostID[c]} /\ hostID' = hostID
        /\ \A h \in DOMAIN conns \ {hostID[c]} : conns'[h] = conns[h]
    BY <1>3 DEF Unregister
  <2>6. Registry'
    BY <1>t, <2>2, <2>3, <2>4, <2>5 DEF RegistryInv, Registry
  <2> QED
    BY <2>1, <2>6 DEF RegistryInv
<1>4. ASSUME NEW c \in Conns, Serve(c), ~Register(c), ~Unregister(c) PROVE RegistryInv'
  BY <1>4, ServeMove, QuietRegistry DEF Serve
<1>5. CASE \/ UNCHANGED vars \/ Cancel \/ CloseListener \/ AcceptStop
           \/ \E c \in Conns : ClientStep(c)
  BY <1>5, OutsideMove, QuietRegistry DEF QuietMove
<1> QED
  BY <1>1, <1>2, <1>3, <1>4, <1>5 DEF Next, Terminated

(* A connection is in the registry, under its own HostID, exactly while its  *)
(* goroutine is between the accept loop's insertion and its own delete.      *)
THEOREM RegistryCorrect == Spec => []RegistryExact
<1> QED
  BY InitType, NextType, InitRegistry, NextRegistry, RegistryImpliesExact, PTL DEF Spec

-----------------------------------------------------------------------------
(* What a step does to the goroutine of one connection.                      *)

\* A closed socket and a departed client stay so.
LEMMA DeadForever ==
    ASSUME TypeInv, [Next]_vars, NEW d \in Conns, Dead(d)
    PROVE  Dead(d)'
<1> USE DEF Dead, Closed, TypeInv, TypeOK
<1>1. CASE UNCHANGED vars
  BY <1>1 DEF vars, netVars
<1>2. ASSUME NEW c \in Conns, Accept(c) PROVE Dead(d)'
  BY <1>2 DEF Accept, netVars
<1>3. ASSUME NEW c \in Conns, RequestLock(c) \/ Register(c) \/ Close(c) \/ Unregister(c)
      PROVE  Dead(d)'
  BY <1>3 DEF RequestLock, Register, Close, Unregister, netVars
<1>4. ASSUME NEW c \in Conns, Top(c) \/ ReadFrame(c) \/ ReadError(c) \/ EndHandler(c)
      PROVE  Dead(d)'
  BY <1>4 DEF Top, ReadFrame, ReadError, EndHandler, netVars
<1>5. ASSUME NEW c \in Conns, StartSend(c) \/ StartBroadcast(c) \/ EndBroadcast(c)
      PROVE  Dead(d)'
  BY <1>5 DEF StartSend, StartBroadcast, EndBroadcast, netVars
<1>6. ASSUME NEW c \in Conns, NEW e \in Conns, NextTarget(c, e) PROVE Dead(d)'
  BY <1>6 DEF NextTarget, netVars
<1>7. ASSUME NEW c \in Conns, WriteHeader(c) \/ WritePayload(c) \/ WriteError(c)
      PROVE  Dead(d)'
  <2>1. client' = client /\ pc[c] \in {"header", "payload"}
    BY <1>7 DEF WriteHeader, WritePayload, WriteError, netVars
  <2>2. \A e \in Conns \ {c} : pc'[e] = pc[e]
    BY <1>7 DEF WriteHeader, WritePayload, WriteError, FrameDone
  <2> QED
    BY <2>1, <2>2
<1>8. ASSUME NEW c \in Conns, ClientStep(c) PROVE Dead(d)'
  BY <1>8 DEF ClientStep, Connect, ClientRead, Disconnect, ClientSend
<1>9. CASE Cancel \/ CloseListener \/ AcceptStop
  BY <1>9 DEF Cancel, CloseListener, AcceptStop, netVars
<1> QED
  BY <1>1, <1>2, <1>3, <1>4, <1>5, <1>6, <1>7, <1>8, <1>9 DEF Next, Serve, Terminated

\* A step of another process leaves what goroutine c keeps alone.
OwnUnchanged(c) ==
    /\ pc'[c] = pc[c] /\ target'[c] = target[c]
    /\ callno'[c] = callno[c] /\ visited'[c] = visited[c]
    /\ c \in readers' <=> c \in readers

LEMMA OwnStays ==
    ASSUME TypeInv, [Next]_vars, NEW c \in Conns, ~Accept(c), ~Serve(c)
    PROVE  OwnUnchanged(c)
<1> USE DEF OwnUnchanged, TypeInv, TypeOK
<1>1. ASSUME NEW e \in Conns, e # c, Accept(e) PROVE OwnUnchanged(c)
  BY <1>1 DEF Accept, lockVars, goVars
<1>2. ASSUME NEW e \in Conns, e # c,
             RequestLock(e) \/ Register(e) \/ Close(e) \/ Unregister(e)
      PROVE  OwnUnchanged(c)
  BY <1>2 DEF RequestLock, Register, Close, Unregister, lockVars, goVars
<1>3. ASSUME NEW e \in Conns, e # c,
             Top(e) \/ ReadFrame(e) \/ ReadError(e) \/ EndHandler(e)
      PROVE  OwnUnchanged(c)
  BY <1>3 DEF Top, ReadFrame, ReadError, EndHandler, lockVars, goVars
<1>4. ASSUME NEW e \in Conns, e # c, StartSend(e) \/ StartBroadcast(e) \/ EndBroadcast(e)
      PROVE  OwnUnchanged(c)
  BY <1>4 DEF StartSend, StartBroadcast, EndBroadcast, lockVars
<1>5. ASSUME NEW e \in Conns, e # c, NEW d \in Conns, NextTarget(e, d)
      PROVE  OwnUnchanged(c)
  BY <1>5 DEF NextTarget, lockVars
<1>6. ASSUME NEW e \in Conns, e # c, WriteHeader(e) \/ WritePayload(e) \/ WriteError(e)
      PROVE  OwnUnchanged(c)
  BY <1>6 DEF WriteHeader, WritePayload, WriteError, FrameDone, lockVars, goVars
<1>7. CASE \/ UNCHANGED vars \/ Cancel \/ CloseListener \/ AcceptStop
           \/ \E e \in Conns : ClientStep(e)
  BY <1>7, OutsideMove
<1> QED
  BY <1>1, <1>2, <1>3, <1>4, <1>5, <1>6, <1>7 DEF Next, Serve, Terminated
-----------------------------------------------------------------------------
(* Broadcast: when it returns, every live registered connection has its      *)
(* frame.  A reader is inside Broadcast, and every connection it has visited *)
(* has the frame, is dead, or is the one it is writing to.                   *)

ReaderInv ==
    \A c \in Conns :
        /\ c \in readers => pc[c] \in {"range", "header", "payload"}
        /\ pc[c] = "range" => c \in readers

Covered(c, d) ==
    \/ Dead(d) \/ Delivered(d, CurrentMsg(c))
    \/ pc[c] \in {"header", "payload"} /\ target[c] = d

VisitedInv == \A c \in readers : \A d \in visited[c] : Covered(c, d)

BroadcastInv == ReaderInv /\ VisitedInv

LEMMA InitBroadcast == Init => BroadcastInv
  BY DEF Init, BroadcastInv, ReaderInv, VisitedInv

\* Chunks are only appended to a stream.
SentGrows ==
    \/ UNCHANGED sent
    \/ \E d \in Conns, k \in Chunks : sent' = [sent EXCEPT ![d] = Append(@, k)]

LEMMA AppendOnly == TypeInv /\ [Next]_vars => SentGrows
<1> SUFFICES ASSUME TypeInv, [Next]_vars PROVE SentGrows
  OBVIOUS
<1>1. CASE UNCHANGED vars
  BY <1>1 DEF vars, netVars, SentGrows
<1>2. ASSUME NEW c \in Conns, Accept(c) PROVE SentGrows
  BY <1>2 DEF Accept, netVars, SentGrows
<1>3. ASSUME NEW c \in Conns, Serve(c), ~WriteHeader(c), ~WritePayload(c) PROVE SentGrows
  BY <1>3 DEF Serve, RequestLock, Register, Close, Unregister, Top, ReadFrame, ReadError,
       EndHandler, StartSend, StartBroadcast, EndBroadcast, NextTarget, WriteError,
       netVars, SentGrows
<1>4. ASSUME NEW c \in Conns, WriteHeader(c) \/ WritePayload(c) PROVE SentGrows
  <2>1. Header(CurrentMsg(c)) \in Chunks /\ Payload(CurrentMsg(c)) \in Chunks
    BY DEF TypeInv, TypeOK, Header, Payload, CurrentMsg, Chunks, Messages
  <2>2. target[c] \in Conns
    BY <1>4 DEF WriteHeader, WritePayload, TypeInv, CallPending
  <2> QED
    BY <1>4, <2>1, <2>2 DEF WriteHeader, WritePayload, SentGrows
<1>5. ASSUME NEW c \in Conns, ClientStep(c) PROVE SentGrows
  BY <1>5 DEF ClientStep, Connect, ClientRead, Disconnect, ClientSend, SentGrows
<1>6. CASE Cancel \/ CloseListener \/ AcceptStop
  BY <1>6 DEF Cancel, CloseListener, AcceptStop, netVars, SentGrows
<1> QED
  BY <1>1, <1>2, <1>3, <1>4, <1>5, <1>6 DEF Next, Terminated, vars, netVars, SentGrows

LEMMA DeliveredForever ==
    ASSUME TypeInv, [Next]_vars, NEW d \in Conns, NEW m, Delivered(d, m)
    PROVE  \E i \in 1..Len(sent'[d]) : sent'[d][i] = Payload(m)
<1>1. PICK i \in 1..Len(sent[d]) : sent[d][i] = Payload(m)
  BY DEF Delivered
<1>2. sent \in [Conns -> Seq(Chunks)]
  BY DEF TypeInv, TypeOK
<1>3. CASE UNCHANGED sent
  BY <1>1, <1>3
<1>4. ASSUME NEW e \in Conns, NEW k \in Chunks,
             sent' = [sent EXCEPT ![e] = Append(@, k)]
      PROVE  i \in 1..Len(sent'[d]) /\ sent'[d][i] = sent[d][i]
  BY <1>1, <1>2, <1>4
<1> QED
  BY <1>1, <1>3, <1>4, AppendOnly DEF SentGrows

LEMMA CoveredStays ==
    ASSUME TypeInv, [Next]_vars, NEW c \in Conns, NEW d \in Conns,
           Dead(d) \/ Delivered(d, CurrentMsg(c)), callno'[c] = callno[c]
    PROVE  (Dead(d) \/ Delivered(d, CurrentMsg(c)))'
<1>1. CASE Dead(d)
  BY <1>1, DeadForever
<1>2. CASE Delivered(d, CurrentMsg(c))
  BY <1>2, DeliveredForever DEF Delivered, CurrentMsg
<1> QED
  BY <1>1, <1>2

LEMMA NextBroadcast == TypeInv /\ BroadcastInv /\ [Next]_vars => BroadcastInv'
<1> SUFFICES ASSUME TypeInv, BroadcastInv, [Next]_vars PROVE BroadcastInv'
  OBVIOUS
<1>r. readers' \subseteq Conns
  BY NextType DEF TypeInv, TypeOK
<1> SUFFICES ASSUME NEW c \in Conns
             PROVE  /\ c \in readers' => pc'[c] \in {"range", "header", "payload"}
                    /\ pc'[c] = "range" => c \in readers'
                    /\ c \in readers' => \A d \in visited'[c] : Covered(c, d)'
  BY <1>r DEF BroadcastInv, ReaderInv, VisitedInv
<1> DEFINE Goal == /\ c \in readers' => pc'[c] \in {"range", "header", "payload"}
                   /\ pc'[c] = "range" => c \in readers'
                   /\ c \in readers' => \A d \in visited'[c] : Covered(c, d)'
<1>i. /\ c \in readers => pc[c] \in {"range", "header", "payload"}
      /\ pc[c] = "range" => c \in readers
      /\ c \in readers => \A d \in visited[c] : Covered(c, d)
  BY DEF BroadcastInv, ReaderInv, VisitedInv
<1>t. /\ pc \in [Conns -> Goroutine] /\ target \in [Conns -> Conns \cup {NoConn}]
      /\ callno \in [Conns -> Nat] /\ visited \in [Conns -> SUBSET Conns]
      /\ readers \subseteq Conns /\ sent \in [Conns -> Seq(Chunks)]
  BY DEF TypeInv, TypeOK
<1>1. CASE ~Accept(c) /\ ~Serve(c)
  <2>1. OwnUnchanged(c)
    BY <1>1, OwnStays
  <2>2. ASSUME c \in readers, NEW d \in visited[c] PROVE Covered(c, d)'
    <3>1. d \in Conns /\ Covered(c, d)
      BY <2>2, <1>i, <1>t
    <3> QED
      BY <2>1, <3>1, CoveredStays DEF OwnUnchanged, Covered
  <2> QED
    BY <1>i, <2>1, <2>2 DEF OwnUnchanged
<1>2. CASE \/ Accept(c) \/ RequestLock(c) \/ Register(c) \/ Close(c) \/ Unregister(c)
           \/ Top(c) \/ ReadFrame(c) \/ ReadError(c) \/ EndHandler(c) \/ StartSend(c)
  <2>1. pc[c] \notin {"range", "header", "payload"} /\ readers' = readers
    BY <1>2 DEF Accept, RequestLock, Register, Close, Unregister, Top, ReadFrame,
         ReadError, EndHandler, StartSend, lockVars
  <2>2. pc'[c] # "range"
    BY <1>2, <1>t DEF Accept, RequestLock, Register, Close, Unregister, Top, ReadFrame,
         ReadError, EndHandler, StartSend
  <2> QED
    BY <2>1, <2>2, <1>i
<1>3. CASE StartBroadcast(c)
  BY <1>3, <1>t DEF StartBroadcast
<1>4. CASE EndBroadcast(c)
  BY <1>4, <1>t DEF EndBroadcast
<1>5. ASSUME NEW e \in Conns, NextTarget(c, e) PROVE Goal
  <2>1. pc[c] = "range" /\ c \in readers /\ readers' = readers /\ callno' = callno
    BY <1>5, <1>i DEF NextTarget, lockVars
  <2>2. pc'[c] = "header" /\ target'[c] = e /\ visited'[c] = visited[c] \cup {e}
    BY <1>5, <1>t DEF NextTarget
  <2>3. ASSUME NEW d \in visited[c] PROVE Covered(c, d)'
    <3>1. d \in Conns /\ (Dead(d) \/ Delivered(d, CurrentMsg(c)))
      BY <2>1, <2>3, <1>i, <1>t DEF Covered
    <3> QED
      BY <2>1, <3>1, CoveredStays DEF Covered
  <2>4. Covered(c, e)'
    BY <2>2 DEF Covered
  <2> QED
    BY <2>1, <2>2, <2>3, <2>4
<1>6. CASE WriteHeader(c)
  <2>1. pc[c] = "header" /\ pc'[c] = "payload" /\ readers' = readers
        /\ UNCHANGED << callno, target, visited >>
    BY <1>6, <1>t DEF WriteHeader, lockVars, goVars
  <2>2. ASSUME c \in readers, NEW d \in visited[c] PROVE Covered(c, d)'
    <3>1. d \in Conns /\ Covered(c, d)
      BY <2>2, <1>i, <1>t
    <3> QED
      BY <2>1, <3>1, CoveredStays DEF Covered
  <2> QED
    BY <2>1, <2>2, <1>i
<1>7. CASE WritePayload(c) \/ WriteError(c)
  <2>1. readers' = readers /\ UNCHANGED << callno, target, visited >>
        /\ pc[c] \in {"header", "payload"}
    BY <1>7 DEF WritePayload, WriteError, lockVars
  <2>2. /\ c \in readers => pc'[c] = "range"
        /\ c \notin readers => pc'[c] = "exec"
    BY <1>7, <1>t DEF WritePayload, WriteError, FrameDone
  <2>3. (Dead(target[c]) \/ Delivered(target[c], CurrentMsg(c)))'
    <3>0. target[c] \in Conns
      BY <2>1 DEF TypeInv, CallPending
    <3>1. CASE WriteError(c)
      BY <2>1, <3>0, <3>1, DeadForever DEF WriteError
    <3>2. CASE WritePayload(c)
      <4>1. Payload(CurrentMsg(c)) \in Chunks
        BY <1>t DEF Payload, CurrentMsg, Chunks, Messages
      <4>2. sent'[target[c]] = Append(sent[target[c]], Payload(CurrentMsg(c)))
        BY <3>0, <3>2, <1>t DEF WritePayload
      <4>3. LET n == Len(sent[target[c]]) + 1 IN
              n \in 1..Len(sent'[target[c]])
              /\ sent'[target[c]][n] = Payload(CurrentMsg(c))
        BY <3>0, <4>1, <4>2, <1>t
      <4> QED
        BY <2>1, <4>3 DEF Delivered, CurrentMsg
    <3> QED
      BY <1>7, <3>1, <3>2
  <2>4. ASSUME c \in readers, NEW d \in visited[c] PROVE Covered(c, d)'
    <3>1. d \in Conns /\ Covered(c, d)
      BY <2>4, <1>i, <1>t
    <3>2. CASE d = target[c]
      BY <2>1, <2>3, <3>2 DEF Covered
    <3>3. CASE d # target[c]
      BY <2>1, <3>1, <3>3, CoveredStays DEF Covered
    <3> QED
      BY <3>2, <3>3
  <2> QED
    BY <2>1, <2>2, <2>4
<1> QED
  BY <1>1, <1>2, <1>3, <1>4, <1>5, <1>6, <1>7 DEF Serve

(* When a Broadcast returns, every live connection in the registry has been  *)
(* sent its frame, whoever joined, left or stalled while it ran.             *)
THEOREM BroadcastComplete == Spec => BroadcastReachesAll
<1> DEFINE Complete ==
      \A c \in Conns : c \in readers \ readers' =>
        \A d \in Registered : Dead(d) \/ Delivered(d, CurrentMsg(c))
<1>1. TypeInv /\ BroadcastInv /\ [Next]_vars => [Complete]_vars
  <2> SUFFICES ASSUME TypeInv, BroadcastInv, [Next]_vars, NEW c \in Conns,
                      c \in readers, c \notin readers', NEW d \in Registered
               PROVE  Dead(d) \/ Delivered(d, CurrentMsg(c))
    OBVIOUS
  <2>1. Serve(c) \/ Accept(c)
    BY OwnStays DEF OwnUnchanged
  <2>2. EndBroadcast(c)
    BY <2>1 DEF Accept, Serve, RequestLock, Register, Close, Unregister, Top, ReadFrame,
         ReadError, EndHandler, StartSend, StartBroadcast, NextTarget, WriteHeader,
         WritePayload, WriteError, lockVars
  <2>3. pc[c] = "range" /\ d \in visited[c]
    BY <2>2 DEF EndBroadcast
  <2> QED
    BY <2>3 DEF BroadcastInv, VisitedInv, Covered
<1> QED
  BY InitType, NextType, InitBroadcast, NextBroadcast, <1>1, PTL
     DEF Spec, BroadcastReachesAll

-----------------------------------------------------------------------------
(* The order of one sender's frames.  No chunk has a number its sender has   *)
(* not reached, and one of the running call is only where that call has been *)
(* already: then a chunk that is appended has a greater number than every    *)
(* chunk of its kind and sender before it.                                   *)

\* The call goroutine c is in may have put its chunk of this part on d's socket.
MayHave(c, part, d) ==
    /\ c \in readers => d \in visited[c]
    /\ pc[c] = "header" => target[c] # d
    /\ pc[c] = "payload" => target[c] # d \/ part = "header"

Numbered(k, d) ==
    /\ k.msg[2] <= callno[k.msg[1]]
    /\ k.msg[2] = callno[k.msg[1]] => MayHave(k.msg[1], k.part, d)

NumbersInv == \A d \in Conns : \A i \in 1..Len(sent[d]) : Numbered(sent[d][i], d)

TargetVisited ==
    \A c \in readers : pc[c] \in {"header", "payload"} => target[c] \in visited[c]

OrderInv == SenderOrder /\ NumbersInv /\ TargetVisited

LEMMA InitOrder == Init => OrderInv
  BY DEF Init, OrderInv, SenderOrder, NumbersInv, TargetVisited

LEMMA ChunkFacts ==
    ASSUME NEW k \in Chunks
    PROVE  k.msg[1] \in Conns /\ k.msg[2] \in Nat /\ k.part \in {"header", "payload"}
  BY DEF Chunks, Messages

LEMMA NumberedStays ==
    ASSUME TypeInv, BroadcastInv, [Next]_vars,
           NEW k \in Chunks, NEW d \in Conns, Numbered(k, d)
    PROVE  Numbered(k, d)'
<1> DEFINE b == k.msg[1]
           n == k.msg[2]
<1> HIDE DEF b, n
<1>b. b \in Conns /\ n \in Nat /\ k.part \in {"header", "payload"}
  BY ChunkFacts DEF b, n
<1>n. n <= callno[b] /\ (n = callno[b] => MayHave(b, k.part, d))
  BY DEF Numbered, b, n
<1> SUFFICES n <= callno'[b] /\ (n = callno'[b] => MayHave(b, k.part, d)')
  BY DEF Numbered, b, n
<1>t. /\ pc \in [Conns -> Goroutine] /\ target \in [Conns -> Conns \cup {NoConn}]
      /\ callno \in [Conns -> Nat] /\ visited \in [Conns -> SUBSET Conns]
      /\ b \in readers => pc[b] \in {"range", "header", "payload"}
      /\ pc[b] = "range" => b \in readers
  BY <1>b DEF TypeInv, TypeOK, BroadcastInv, ReaderInv
<1>1. CASE ~Accept(b) /\ ~Serve(b)
  BY <1>1, <1>b, <1>n, OwnStays DEF OwnUnchanged, MayHave
<1>2. CASE \/ Accept(b) \/ RequestLock(b) \/ Register(b) \/ Close(b) \/ Unregister(b)
           \/ Top(b) \/ ReadFrame(b) \/ ReadError(b) \/ EndHandler(b)
  <2>1. callno' = callno /\ b \notin readers' /\ pc'[b] \notin {"header", "payload"}
    BY <1>2, <1>b, <1>t DEF Accept, RequestLock, Register, Close, Unregister, Top,
         ReadFrame, ReadError, EndHandler, lockVars, goVars
  <2> QED
    BY <2>1, <1>n DEF MayHave
<1>3. CASE StartSend(b) \/ StartBroadcast(b)
  BY <1>3, <1>b, <1>n, <1>t DEF StartSend, StartBroadcast
<1>4. CASE EndBroadcast(b)
  BY <1>4, <1>b, <1>n, <1>t DEF EndBroadcast, MayHave
<1>5. ASSUME NEW e \in Conns, NextTarget(b, e)
      PROVE  n <= callno'[b] /\ (n = callno'[b] => MayHave(b, k.part, d)')
  <2>1. /\ callno' = callno /\ readers' = readers /\ e \notin visited[b]
        /\ pc[b] = "range" /\ pc'[b] = "header" /\ target'[b] = e
        /\ visited'[b] = visited[b] \cup {e}
    BY <1>5, <1>b, <1>t DEF NextTarget, lockVars
  <2> QED
    BY <2>1, <1>n, <1>t DEF MayHave
<1>6. CASE WriteHeader(b)
  <2>1. /\ UNCHANGED << callno, readers, target, visited >>
        /\ pc[b] = "header" /\ pc'[b] = "payload"
    BY <1>6, <1>b, <1>t DEF WriteHeader, lockVars, goVars
  <2> QED
    BY <2>1, <1>n DEF MayHave
<1>7. CASE WritePayload(b) \/ WriteError(b)
  <2>1. /\ UNCHANGED << callno, readers, target, visited >>
        /\ pc'[b] \notin {"header", "payload"}
    BY <1>7, <1>b, <1>t DEF WritePayload, WriteError, FrameDone, lockVars
  <2> QED
    BY <2>1, <1>n DEF MayHave
<1> QED
  BY <1>1, <1>2, <1>3, <1>4, <1>5, <1>6, <1>7 DEF Serve

LEMMA NextTargetVisited ==
    TypeInv /\ BroadcastInv /\ TargetVisited /\ [Next]_vars => TargetVisited'
<1> SUFFICES ASSUME TypeInv, BroadcastInv, TargetVisited, [Next]_vars,
                    NEW c \in readers', pc'[c] \in {"header", "payload"}
             PROVE  target'[c] \in visited'[c]
  BY DEF TargetVisited
<1>t. /\ c \in Conns
      /\ pc \in [Conns -> Goroutine] /\ target \in [Conns -> Conns \cup {NoConn}]
      /\ visited \in [Conns -> SUBSET Conns]
      /\ c \in readers => pc[c] \in {"range", "header", "payload"}
  BY NextType DEF TypeInv, TypeOK, BroadcastInv, ReaderInv
<1>i. c \in readers /\ pc[c] \in {"header", "payload"} => target[c] \in visited[c]
  BY DEF TargetVisited
<1>1. CASE ~Accept(c) /\ ~Serve(c)
  BY <1>1, <1>t, <1>i, OwnStays DEF OwnUnchanged
<1>2. ~ (\/ Accept(c) \/ RequestLock(c) \/ Register(c) \/ Close(c) \/ Unregister(c)
         \/ Top(c) \/ ReadFrame(c) \/ ReadError(c) \/ EndHandler(c) \/ StartSend(c))
  BY <1>t DEF Accept, RequestLock, Register, Close, Unregister, Top, ReadFrame,
       ReadError, EndHandler, StartSend, lockVars
<1>3. ~ (StartBroadcast(c) \/ EndBroadcast(c))
  BY <1>t DEF StartBroadcast, EndBroadcast
<1>4. ASSUME NEW e \in Conns, NextTarget(c, e) PROVE target'[c] \in visited'[c]
  BY <1>4, <1>t DEF NextTarget
<1>5. CASE WriteHeader(c)
  BY <1>5, <1>i DEF WriteHeader, lockVars, goVars
<1>6. ~ (WritePayload(c) \/ WriteError(c))
  BY <1>t DEF WritePayload, WriteError, FrameDone, lockVars
<1> QED
  BY <1>1, <1>2, <1>3, <1>4, <1>5, <1>6 DEF Serve

\* What a Write appends: it is numbered, and above all earlier ones of its kind.
LEMMA WriteFacts ==
    ASSUME TypeInv, OrderInv, [Next]_vars, NEW c \in Conns,
           WriteHeader(c) \/ WritePayload(c)
    PROVE  \E d \in Conns, k \in Chunks :
             /\ sent' = [sent EXCEPT ![d] = Append(@, k)]
             /\ Numbered(k, d)'
             /\ \A i \in 1..Len(sent[d]) :
                  sent[d][i].part = k.part /\ sent[d][i].msg[1] = k.msg[1]
                    => sent[d][i].msg[2] < k.msg[2]
<1>d. PICK d \in Conns : d = target[c]
  BY DEF WriteHeader, WritePayload, TypeInv, CallPending
<1>k. PICK k : k = IF pc[c] = "header" THEN Header(CurrentMsg(c)) ELSE Payload(CurrentMsg(c))
  OBVIOUS
<1>t. /\ pc \in [Conns -> Goroutine] /\ callno \in [Conns -> Nat]
      /\ sent \in [Conns -> Seq(Chunks)]
  BY DEF TypeInv, TypeOK
<1>1. /\ pc[c] \in {"header", "payload"}
      /\ UNCHANGED << callno, readers, target, visited >>
      /\ sent' = [sent EXCEPT ![d] = Append(@, k)]
  BY <1>d, <1>k DEF WriteHeader, WritePayload, lockVars, goVars
<1>2. k \in Chunks /\ k.msg[1] = c /\ k.msg[2] = callno[c]
      /\ k.part = IF pc[c] = "header" THEN "header" ELSE "payload"
  BY <1>k, <1>t DEF Header, Payload, CurrentMsg, Chunks, Messages
<1>3. pc[c] = "header" => pc'[c] = "payload"
  BY <1>t DEF WriteHeader, WritePayload
<1>4. pc[c] = "payload" => pc'[c] \notin {"header", "payload"}
  BY <1>t DEF WriteHeader, WritePayload, FrameDone
<1>5. Numbered(k, d)'
  <2>1. c \in readers => d \in visited[c]
    BY <1>1, <1>d DEF OrderInv, TargetVisited
  <2>2. MayHave(c, k.part, d)'
    BY <2>1, <1>1, <1>2, <1>3, <1>4 DEF MayHave
  <2> QED
    BY <2>2, <1>1, <1>2, <1>t DEF Numbered
<1>6. ASSUME NEW i \in 1..Len(sent[d]), sent[d][i].part = k.part,
             sent[d][i].msg[1] = k.msg[1]
      PROVE  sent[d][i].msg[2] < k.msg[2]
  <2>1. sent[d][i] \in Chunks /\ Numbered(sent[d][i], d)
    BY <1>1, <1>t DEF OrderInv, NumbersInv
  <2>2. sent[d][i].msg[2] \in Nat
    BY <2>1, ChunkFacts
  <2>3. ~MayHave(c, k.part, d)
    BY <1>1, <1>2, <1>d DEF MayHave
  <2> QED
    BY <2>1, <2>2, <2>3, <1>2, <1>6, <1>t DEF Numbered
<1> QED
  BY <1>1, <1>2, <1>5, <1>6

LEMMA OnlyWritesAppend ==
    ASSUME TypeInv, [Next]_vars
    PROVE  sent' = sent \/ \E c \in Conns : WriteHeader(c) \/ WritePayload(c)
<1>1. ASSUME NEW c \in Conns, Accept(c) \/ Serve(c), ~WriteHeader(c), ~WritePayload(c)
      PROVE  sent' = sent
  BY <1>1 DEF Accept, Serve, RequestLock, Register, Close, Unregister, Top, ReadFrame,
       ReadError, EndHandler, StartSend, StartBroadcast, EndBroadcast, NextTarget,
       WriteError, netVars
<1>2. ASSUME NEW c \in Conns, ClientStep(c) PROVE sent' = sent
  BY <1>2 DEF ClientStep, Connect, ClientRead, Disconnect, ClientSend
<1>3. CASE UNCHANGED vars \/ Cancel \/ CloseListener \/ AcceptStop
  BY <1>3 DEF vars, Cancel, CloseListener, AcceptStop, netVars
<1> QED
  BY <1>1, <1>2, <1>3 DEF Next, Terminated

LEMMA NextOrder == TypeInv /\ BroadcastInv /\ OrderInv /\ [Next]_vars => OrderInv'
<1> SUFFICES ASSUME TypeInv, BroadcastInv, OrderInv, [Next]_vars PROVE OrderInv'
  OBVIOUS
<1>t. sent \in [Conns -> Seq(Chunks)]
  BY DEF TypeInv, TypeOK
<1>o. ASSUME NEW d \in Conns, NEW k \in Chunks, Numbered(k, d) PROVE Numbered(k, d)'
  BY <1>o, NumberedStays
<1>1. TargetVisited'
  BY NextTargetVisited DEF OrderInv
<1>2. CASE sent' = sent
  <2>1. SenderOrder'
    BY <1>2 DEF OrderInv, SenderOrder
  <2>2. NumbersInv'
    <3> SUFFICES ASSUME NEW d \in Conns, NEW i \in 1..Len(sent[d])
                 PROVE  Numbered(sent[d][i], d)'
      BY <1>2 DEF NumbersInv
    <3>1. PICK k \in Chunks : k = sent[d][i]
      BY <1>t
    <3>2. Numbered(k, d)'
      BY <3>1, <1>o DEF OrderInv, NumbersInv
    <3> QED
      BY <3>1, <3>2, <1>2
  <2> QED
    BY <2>1, <2>2, <1>1 DEF OrderInv
<1>3. ASSUME NEW c \in Conns, WriteHeader(c) \/ WritePayload(c) PROVE OrderInv'
  <2>1. PICK e \in Conns, k \in Chunks :
             /\ sent' = [sent EXCEPT ![e] = Append(@, k)]
             /\ Numbered(k, e)'
             /\ \A i \in 1..Len(sent[e]) :
                  sent[e][i].part = k.part /\ sent[e][i].msg[1] = k.msg[1]
                    => sent[e][i].msg[2] < k.msg[2]
    BY <1>3, WriteFacts
  <2>2. /\ \A d \in Conns \ {e} : sent'[d] = sent[d]
        /\ Len(sent'[e]) = Len(sent[e]) + 1 /\ sent'[e][Len(sent[e]) + 1] = k
        /\ \A i \in 1..Len(sent[e]) : sent'[e][i] = sent[e][i]
        /\ \A d \in Conns : Len(sent[d]) \in Nat
    BY <1>t, <2>1
  <2>3. SenderOrder'
    BY <2>1, <2>2 DEF OrderInv, SenderOrder
  <2>4. NumbersInv'
    <3> SUFFICES ASSUME NEW d \in Conns, NEW i \in 1..Len(sent'[d])
                 PROVE  Numbered(sent[d][i], d)'
      BY DEF NumbersInv
    <3>1. CASE d = e /\ i = Len(sent[e]) + 1
      BY <2>1, <2>2, <3>1
    <3>2. CASE d # e \/ i # Len(sent[e]) + 1
      <4>1. i \in 1..Len(sent[d]) /\ sent'[d][i] = sent[d][i]
        BY <2>2, <3>2
      <4>2. PICK j \in Chunks : j = sent[d][i]
        BY <1>t, <4>1
      <4>3. Numbered(j, d)'
        BY <4>1, <4>2, <1>o DEF OrderInv, NumbersInv
      <4> QED
        BY <4>1, <4>2, <4>3
    <3> QED
      BY <3>1, <3>2
  <2> QED
    BY <2>3, <2>4, <1>1 DEF OrderInv
<1> QED
  BY <1>2, <1>3, OnlyWritesAppend

(* Frames of one sender reach a client in the order of the sender's calls,   *)
(* and none reaches it twice, however many goroutines write to its socket.   *)
THEOREM SendersInOrder == Spec => []SenderOrder
<1>1. TypeInv /\ BroadcastInv /\ OrderInv /\ [Next]_vars
        => (TypeInv /\ BroadcastInv /\ OrderInv)'
  BY NextType, NextBroadcast, NextOrder
<1>2. Init => TypeInv /\ BroadcastInv /\ OrderInv
  BY InitType, InitBroadcast, InitOrder
<1>3. OrderInv => SenderOrder
  BY DEF OrderInv
<1> QED
  BY <1>1, <1>2, <1>3, PTL DEF Spec

-----------------------------------------------------------------------------
(* A service whose handlers only reply (the entry and battle servers):      *)
(* every client's stream is whole frames, its own, in order; the server     *)
(* implements ReplyStreams.  The server is not told which service it runs:  *)
(* the theorems assume ReplyOnly of the plan.                               *)

ReplyOnly == \A r \in Rmi : Plan[r] \in Seq({"send"})

\* Nobody broadcasts, so a goroutine writes to no socket but its own.
OwnSocket ==
    /\ readers = {}
    /\ rest \in [Conns -> Seq({"send"})]
    /\ \A c \in Conns : /\ pc[c] # "range"
                        /\ pc[c] \in {"header", "payload"} => target[c] = c

\* The n-th call of the goroutine of c produces chunks 2n-1 and 2n.
InCallOrder(c) ==
    \A n \in Nat \ {0} :
        /\ 2*n - 1 <= Len(sent[c]) => sent[c][2*n - 1] = Header(<< c, n >>)
        /\ 2*n <= Len(sent[c]) => sent[c][2*n] = Payload(<< c, n >>)

\* How far the stream of a live connection is.
Complete(c) ==
    Len(sent[c]) = CASE pc[c] = "header"  -> 2*callno[c] - 2
                     [] pc[c] = "payload" -> 2*callno[c] - 1
                     [] OTHER             -> 2*callno[c]

StreamInv == \A c \in Conns : InCallOrder(c) /\ (~Dead(c) => Complete(c))

ReplyInv == TypeInv /\ OwnSocket /\ StreamInv

LEMMA InitReply == Init => ReplyInv
<1> SUFFICES ASSUME Init PROVE ReplyInv
  OBVIOUS
<1>1. TypeInv
  BY InitType
<1>2. OwnSocket
  BY DEF Init, OwnSocket
<1>3. StreamInv
  <2> SUFFICES ASSUME NEW c \in Conns PROVE InCallOrder(c) /\ Complete(c)
    BY DEF StreamInv
  <2>1. sent[c] = << >> /\ Len(sent[c]) = 0 /\ pc[c] = "none" /\ callno[c] = 0
    BY DEF Init
  <2> QED
    BY <2>1 DEF InCallOrder, Complete
<1> QED
  BY <1>1, <1>2, <1>3 DEF ReplyInv

LEMMA NextOwnSocket ==
    ASSUME ReplyOnly, TypeInv, OwnSocket, [Next]_vars
    PROVE  OwnSocket'
<1>t. pc \in [Conns -> Goroutine] /\ target \in [Conns -> Conns \cup {NoConn}]
  BY DEF TypeInv, TypeOK
<1>o. /\ readers = {} /\ rest \in [Conns -> Seq({"send"})]
      /\ \A c \in Conns : pc[c] # "range" /\ (pc[c] \in {"header", "payload"} => target[c] = c)
  BY DEF OwnSocket
<1> USE DEF OwnSocket
<1>1. ASSUME NEW c \in Conns, Accept(c) PROVE OwnSocket'
  BY <1>1, <1>o, <1>t DEF Accept, lockVars, goVars
<1>2. ASSUME NEW c \in Conns, RequestLock(c) \/ Register(c) \/ Close(c) \/ Unregister(c)
      PROVE  OwnSocket'
  BY <1>2, <1>o, <1>t DEF RequestLock, Register, Close, Unregister, lockVars, goVars
<1>3. ASSUME NEW c \in Conns, Top(c) \/ ReadError(c) \/ EndHandler(c) PROVE OwnSocket'
  BY <1>3, <1>o, <1>t DEF Top, ReadError, EndHandler, lockVars, goVars
<1>4. ASSUME NEW c \in Conns, ReadFrame(c) PROVE OwnSocket'
  <2> DEFINE f == inbound[c][nread[c] + 1]
  <2>1. Dispatch(f) \in Seq({"send"})
    BY DEF ReplyOnly, Dispatch
  <2>2. rest' \in [Conns -> Seq({"send"})]
    BY <1>4, <2>1, <1>o DEF ReadFrame
  <2> QED
    BY <1>4, <2>2, <1>o, <1>t DEF ReadFrame, lockVars
<1>5. ASSUME NEW c \in Conns, StartSend(c) PROVE OwnSocket'
  BY <1>5, <1>o, <1>t DEF StartSend, lockVars
<1>6. ASSUME NEW c \in Conns, StartBroadcast(c) \/ EndBroadcast(c) PROVE OwnSocket'
  <2>1. rest[c] # << >> => Head(rest[c]) = "send"
    BY <1>o
  <2> QED
    BY <1>6, <2>1, <1>o DEF StartBroadcast, EndBroadcast
<1>7. ASSUME NEW c \in Conns, NEW d \in Conns, NextTarget(c, d) PROVE OwnSocket'
  BY <1>7, <1>o DEF NextTarget
<1>8. ASSUME NEW c \in Conns, WriteHeader(c) PROVE OwnSocket'
  BY <1>8, <1>o, <1>t DEF WriteHeader, lockVars, goVars
<1>9. ASSUME NEW c \in Conns, WritePayload(c) \/ WriteError(c) PROVE OwnSocket'
  <2>1. pc' = [pc EXCEPT ![c] = "exec"] /\ rest' = [rest EXCEPT ![c] = Tail(@)]
        /\ UNCHANGED << target, readers >>
    BY <1>9, <1>o DEF WritePayload, WriteError, FrameDone, lockVars
  <2>2. rest[c] # << >>
    BY <1>9 DEF WritePayload, WriteError, TypeInv, CallPending
  <2>3. Tail(rest[c]) \in Seq({"send"})
    BY <2>2, <1>o, SeqFacts
  <2> QED
    BY <2>1, <2>3, <1>o, <1>t
<1>10. CASE \/ UNCHANGED vars \/ Cancel \/ CloseListener \/ AcceptStop
            \/ \E c \in Conns : ClientStep(c)
  <2>1. UNCHANGED << pc, target, readers >>
    BY <1>10, OutsideMove
  <2>2. UNCHANGED rest
    BY <1>10 DEF vars, goVars, Cancel, CloseListener, AcceptStop, ClientStep, Connect,
         ClientRead, Disconnect, ClientSend
  <2> QED
    BY <2>1, <2>2, <1>o
<1> QED
  BY <1>1, <1>2, <1>3, <1>4, <1>5, <1>6, <1>7, <1>8, <1>9, <1>10 DEF Next, Serve, Terminated

\* What a write does to the stream of its goroutine's own connection.
LEMMA Appended ==
    ASSUME NEW c \in Conns, NEW k \in Chunks, sent \in [Conns -> Seq(Chunks)],
           sent' = [sent EXCEPT ![c] = Append(@, k)]
    PROVE  /\ Len(sent'[c]) = Len(sent[c]) + 1
           /\ sent'[c][Len(sent[c]) + 1] = k
           /\ \A i \in 1..Len(sent[c]) : sent'[c][i] = sent[c][i]
           /\ \A d \in Conns \ {c} : sent'[d] = sent[d]
  OBVIOUS

LEMMA HeaderNumbered ==
    ASSUME TypeInv, StreamInv, OwnSocket, NEW c \in Conns, WriteHeader(c)
    PROVE  InCallOrder(c)' /\ Complete(c)'
<1>1. /\ target[c] = c /\ pc[c] = "header" /\ ~Dead(c) /\ pc'[c] = "payload"
      /\ callno' = callno /\ callno[c] \in Nat
      /\ sent \in [Conns -> Seq(Chunks)]
  BY DEF WriteHeader, OwnSocket, goVars, TypeInv, TypeOK
<1>2. Header(CurrentMsg(c)) \in Chunks /\ CurrentMsg(c) = << c, callno[c] >>
  BY <1>1 DEF Header, CurrentMsg, Chunks, Messages
<1>3. sent' = [sent EXCEPT ![c] = Append(@, Header(CurrentMsg(c)))]
  BY <1>1 DEF WriteHeader
<1>4. Len(sent[c]) = 2*callno[c] - 2 /\ InCallOrder(c) /\ Len(sent[c]) \in Nat
  BY <1>1 DEF StreamInv, Complete
<1>5. Complete(c)'
  BY <1>1, <1>2, <1>3, <1>4, Appended DEF Complete
<1>6. ASSUME NEW n \in Nat \ {0}, 2*n - 1 <= Len(sent'[c])
      PROVE  sent'[c][2*n - 1] = Header(<< c, n >>)
  <2>1. CASE 2*n - 1 <= Len(sent[c])
    BY <1>1, <1>2, <1>3, <1>4, <2>1, Appended DEF InCallOrder
  <2>2. CASE ~(2*n - 1 <= Len(sent[c]))
    <3>1. 2*n - 1 = Len(sent[c]) + 1 /\ n = callno[c]
      BY <1>1, <1>2, <1>3, <1>4, <1>6, <2>2, Appended
    <3> QED
      BY <1>1, <1>2, <1>3, <3>1, Appended
  <2> QED
    BY <2>1, <2>2
<1>7. ASSUME NEW n \in Nat \ {0}, 2*n <= Len(sent'[c])
      PROVE  sent'[c][2*n] = Payload(<< c, n >>)
  <2>1. 2*n <= Len(sent[c])
    BY <1>1, <1>2, <1>3, <1>4, <1>7, Appended
  <2> QED
    BY <1>1, <1>2, <1>3, <1>4, <2>1, Appended DEF InCallOrder
<1> QED
  BY <1>5, <1>6, <1>7 DEF InCallOrder, Header, Payload

LEMMA SamePair ==
    ASSUME NEW n \in Nat, NEW k \in Nat, 2*n <= 2*k, ~(2*n <= 2*k - 1)
    PROVE  n = k
  OBVIOUS

LEMMA PayloadNumbered ==
    ASSUME TypeInv, StreamInv, OwnSocket, NEW c \in Conns, WritePayload(c)
    PROVE  InCallOrder(c)' /\ Complete(c)'
<1>1. /\ target[c] = c /\ pc[c] = "payload" /\ ~Dead(c)
      /\ callno' = callno /\ callno[c] \in Nat
      /\ sent \in [Conns -> Seq(Chunks)]
  BY DEF WritePayload, OwnSocket, TypeInv, TypeOK
<1>x. pc'[c] = "exec"
  BY DEF WritePayload, FrameDone, OwnSocket, TypeInv, TypeOK
<1>2. Payload(CurrentMsg(c)) \in Chunks /\ CurrentMsg(c) = << c, callno[c] >>
  BY <1>1 DEF Payload, CurrentMsg, Chunks, Messages
<1>3. sent' = [sent EXCEPT ![c] = Append(@, Payload(CurrentMsg(c)))]
  BY <1>1 DEF WritePayload
<1>4. Len(sent[c]) = 2*callno[c] - 1 /\ InCallOrder(c) /\ Len(sent[c]) \in Nat
  BY <1>1 DEF StreamInv, Complete
<1>5. Complete(c)'
  BY <1>1, <1>x, <1>2, <1>3, <1>4, Appended DEF Complete
<1>6. ASSUME NEW n \in Nat \ {0}, 2*n - 1 <= Len(sent'[c])
      PROVE  sent'[c][2*n - 1] = Header(<< c, n >>)
  <2>1. 2*n - 1 <= Len(sent[c])
    BY <1>1, <1>2, <1>3, <1>4, <1>6, Appended
  <2> QED
    BY <1>1, <1>2, <1>3, <1>4, <2>1, Appended DEF InCallOrder
<1>7. ASSUME NEW n \in Nat \ {0}, 2*n <= Len(sent'[c])
      PROVE  sent'[c][2*n] = Payload(<< c, n >>)
  <2>1. CASE 2*n <= Len(sent[c])
    BY <1>1, <1>2, <1>3, <1>4, <2>1, Appended DEF InCallOrder
  <2>2. CASE ~(2*n <= Len(sent[c]))
    <3>0. Len(sent'[c]) = Len(sent[c]) + 1
      BY <1>1, <1>2, <1>3, Appended
    <3>1. 2*n = Len(sent[c]) + 1 /\ n = callno[c]
      <4> DEFINE L == Len(sent[c])
      <4>1. L \in Nat /\ L = 2*callno[c] - 1 /\ 2*n <= L + 1 /\ ~(2*n <= L)
        BY <1>4, <1>7, <2>2, <3>0
      <4>2. callno[c] \in Nat /\ n \in Nat
        BY <1>1
      <4> HIDE DEF L
      <4>3. 2*n <= 2*callno[c] /\ ~(2*n <= 2*callno[c] - 1)
        BY <4>1, <4>2
      <4>4. n = callno[c]
        BY <4>2, <4>3, SamePair
      <4> QED
        BY <4>1, <4>4 DEF L
    <3> QED
      BY <1>1, <1>2, <1>3, <3>1, Appended
  <2> QED
    BY <2>1, <2>2
<1> QED
  BY <1>5, <1>6, <1>7 DEF InCallOrder, Header, Payload

\* Only WriteHeader and WritePayload of its own goroutine touch a stream.
LEMMA OtherStreams ==
    ASSUME TypeInv, OwnSocket, [Next]_vars, NEW c \in Conns,
           ~WriteHeader(c), ~WritePayload(c)
    PROVE  sent'[c] = sent[c]
<1>t. sent \in [Conns -> Seq(Chunks)]
  BY DEF TypeInv, TypeOK
<1>1. ASSUME NEW e \in Conns, e # c, WriteHeader(e) \/ WritePayload(e)
      PROVE  sent'[c] = sent[c]
  <2>1. target[e] = e
    BY <1>1 DEF WriteHeader, WritePayload, OwnSocket
  <2> QED
    BY <1>1, <1>t, <2>1 DEF WriteHeader, WritePayload
<1>2. ASSUME NEW e \in Conns, Accept(e) \/ Serve(e), ~WriteHeader(e), ~WritePayload(e)
      PROVE  sent' = sent
  BY <1>2 DEF Accept, Serve, RequestLock, Register, Close, Unregister, Top, ReadFrame,
       ReadError, EndHandler, StartSend, StartBroadcast, EndBroadcast, NextTarget,
       WriteError, netVars
<1>3. CASE \/ UNCHANGED vars \/ Cancel \/ CloseListener \/ AcceptStop
           \/ \E e \in Conns : ClientStep(e)
  BY <1>3 DEF vars, netVars, Cancel, CloseListener, AcceptStop, ClientStep, Connect,
       ClientRead, Disconnect, ClientSend
<1> QED
  BY <1>1, <1>2, <1>3 DEF Next, Serve, Terminated

LEMMA NextStream ==
    ASSUME TypeInv, OwnSocket, StreamInv, [Next]_vars
    PROVE  StreamInv'
<1> SUFFICES ASSUME NEW c \in Conns PROVE InCallOrder(c)' /\ (~Dead(c)' => Complete(c)')
  BY DEF StreamInv
<1>n. InCallOrder(c) /\ (~Dead(c) => Complete(c))
  BY DEF StreamInv
<1>t. pc \in [Conns -> Goroutine] /\ callno \in [Conns -> Nat]
  BY DEF TypeInv, TypeOK
<1>1. CASE WriteHeader(c) \/ WritePayload(c)
  BY <1>1, HeaderNumbered, PayloadNumbered
<1>2. CASE ~WriteHeader(c) /\ ~WritePayload(c)
  <2>1. sent'[c] = sent[c]
    BY <1>2, OtherStreams
  <2>2. InCallOrder(c)'
    BY <2>1, <1>n DEF InCallOrder, Header, Payload
  <2>3. ASSUME ~Dead(c)' PROVE Complete(c)'
    <3>1. ~Dead(c) /\ Complete(c)
      BY <2>3, DeadForever, <1>n
    <3>2. CASE ~Accept(c) /\ ~Serve(c)
      BY <2>1, <3>1, <3>2, OwnStays DEF OwnUnchanged, Complete
    <3>3. CASE \/ Accept(c) \/ RequestLock(c) \/ Register(c) \/ Close(c) \/ Unregister(c)
               \/ Top(c) \/ ReadFrame(c) \/ ReadError(c) \/ EndHandler(c)
      <4>1. pc[c] \notin {"header", "payload"} /\ pc'[c] \notin {"header", "payload"}
            /\ callno' = callno
        BY <3>3, <1>t DEF Accept, RequestLock, Register, Close, Unregister, Top, ReadFrame,
             ReadError, EndHandler, goVars
      <4> QED
        BY <2>1, <3>1, <4>1 DEF Complete
    <3>4. CASE StartSend(c)
      <4>1. pc[c] = "exec" /\ pc'[c] = "header" /\ callno'[c] = callno[c] + 1
        BY <3>4, <1>t DEF StartSend
      <4> QED
        BY <2>1, <3>1, <4>1, <1>t DEF Complete
    <3>5. CASE StartBroadcast(c) \/ EndBroadcast(c) \/ \E d \in Conns : NextTarget(c, d)
      <4>1. rest[c] # << >> => Head(rest[c]) = "send"
        BY DEF OwnSocket
      <4> QED
        BY <3>5, <4>1 DEF StartBroadcast, EndBroadcast, NextTarget, OwnSocket
    <3>6. CASE WriteError(c)
      BY <3>1, <3>6 DEF WriteError, OwnSocket
    <3> QED
      BY <1>2, <3>2, <3>3, <3>4, <3>5, <3>6 DEF Serve
  <2> QED
    BY <2>2, <2>3
<1> QED
  BY <1>1, <1>2

LEMMA NextReply ==
    ASSUME ReplyOnly
    PROVE  ReplyInv /\ [Next]_vars => ReplyInv'
  BY NextType, NextOwnSocket, NextStream DEF ReplyInv

\* Every position of a sequence is the first or the second of its pair.
LEMMA Pairs ==
    ASSUME NEW i \in Nat \ {0}
    PROVE  \E n \in Nat \ {0} :
             \/ i % 2 = 1 /\ i = 2*n - 1
             \/ i % 2 = 0 /\ i = 2*n
<1>1. CASE i % 2 = 1
  <2> DEFINE n == (i + 1) \div 2
  <2>1. n \in Nat \ {0} /\ i = 2*n - 1
    BY <1>1
  <2> HIDE DEF n
  <2> QED
    BY <1>1, <2>1
<1>2. CASE i % 2 = 0
  <2> DEFINE n == i \div 2
  <2>1. n \in Nat \ {0} /\ i = 2*n
    BY <1>2
  <2> HIDE DEF n
  <2> QED
    BY <1>2, <2>1
<1> QED
  BY <1>1, <1>2

LEMMA ReplyImpliesFramed == ReplyInv => WireFramed
<1> SUFFICES ASSUME ReplyInv, NEW c \in Conns, NEW i \in 1..Len(sent[c])
             PROVE  /\ i % 2 = 1 => sent[c][i].part = "header"
                    /\ i % 2 = 0 => sent[c][i] = Payload(sent[c][i-1].msg)
  BY DEF WireFramed, WellFramed
<1>0. InCallOrder(c) /\ Len(sent[c]) \in Nat /\ i \in Nat \ {0}
  BY DEF ReplyInv, StreamInv, TypeInv, TypeOK
<1>1. PICK n \in Nat \ {0} : (i % 2 = 1 /\ i = 2*n - 1) \/ (i % 2 = 0 /\ i = 2*n)
  BY <1>0, Pairs
<1>2. CASE i % 2 = 1
  <2>1. sent[c][i] = Header(<< c, n >>)
    BY <1>0, <1>1, <1>2 DEF InCallOrder
  <2> QED
    BY <1>2, <2>1 DEF Header
<1>3. CASE i % 2 = 0
  <2>1. i = 2*n /\ i - 1 = 2*n - 1
    BY <1>1, <1>3
  <2>2. sent[c][i] = Payload(<< c, n >>) /\ sent[c][i-1] = Header(<< c, n >>)
    BY <1>0, <2>1 DEF InCallOrder
  <2> QED
    BY <1>3, <2>2 DEF Header
<1> QED
  BY <1>2, <1>3

(* If the handlers only reply, every client's stream is a sequence of whole  *)
(* frames: each length prefix is followed by the payload it announces.       *)
THEOREM RepliesFramed ==
    ASSUME ReplyOnly
    PROVE  Spec => []WireFramed
  BY InitReply, NextReply, ReplyImpliesFramed, PTL DEF Spec

-----------------------------------------------------------------------------
(* Refinement of ReplyStreams.                                               *)

LEMMA InitStreams == Init => Replies!Init
<1> SUFFICES ASSUME Init, NEW c \in Conns PROVE FramesOf(sent[c]) = << >>
  BY DEF Replies!Init
<1>1. sent[c] = << >>
  BY DEF Init
<1>2. Len(<< >>) \div 2 = 0
  OBVIOUS
<1>3. FramesOf(<< >>) = [k \in 1..0 |->
        IF << >>[2*k] = Payload(<< >>[2*k - 1].msg) THEN << >>[2*k].msg ELSE << >>]
  BY <1>2 DEF FramesOf
<1>4. 1..0 = {}
  OBVIOUS
<1> QED
  BY <1>1, <1>3, <1>4

\* A prefix completes no frame; its payload completes the next one.
LEMMA HeaderAddsNoFrame ==
    ASSUME NEW s \in Seq(Chunks), NEW k \in Chunks, NEW n \in Nat, Len(s) = 2*n
    PROVE  FramesOf(Append(s, k)) = FramesOf(s)
<1> DEFINE t == Append(s, k)
<1>1. Len(t) = 2*n + 1
  OBVIOUS
<1>2. Len(t) \div 2 = n /\ Len(s) \div 2 = n
  BY <1>1
<1>3. \A j \in 1..n : t[2*j] = s[2*j] /\ t[2*j - 1] = s[2*j - 1]
  OBVIOUS
<1> HIDE DEF t
<1> QED
  BY <1>2, <1>3 DEF FramesOf

LEMMA PayloadAddsFrame ==
    ASSUME NEW s \in Seq(Chunks), NEW m \in Messages, NEW n \in Nat \ {0},
           Len(s) = 2*n - 1, s[2*n - 1] = Header(m)
    PROVE  /\ Len(FramesOf(s)) = n - 1
           /\ FramesOf(Append(s, Payload(m))) = Append(FramesOf(s), m)
<1> DEFINE t == Append(s, Payload(m))
<1>0. Payload(m) \in Chunks
  BY DEF Payload, Chunks
<1>1. Len(t) = 2*n
  BY <1>0
<1>2. Len(t) \div 2 = n /\ Len(s) \div 2 = n - 1
  BY <1>1
<1>3. \A j \in 1..(n-1) : t[2*j] = s[2*j] /\ t[2*j - 1] = s[2*j - 1]
  BY <1>0
<1>4. t[2*n] = Payload(m) /\ t[2*n - 1] = Header(m)
  BY <1>0
<1> HIDE DEF t
<1>5. Len(FramesOf(s)) = n - 1
  BY <1>2 DEF FramesOf
<1>6. FramesOf(t) = [j \in 1..n |->
                       IF t[2*j] = Payload(t[2*j - 1].msg) THEN t[2*j].msg ELSE << >>]
  BY <1>2 DEF FramesOf
<1>7. FramesOf(s) = [j \in 1..(n-1) |->
                       IF s[2*j] = Payload(s[2*j - 1].msg) THEN s[2*j].msg ELSE << >>]
  BY <1>2 DEF FramesOf
<1>8. FramesOf(t)[n] = m
  BY <1>4, <1>6 DEF Header, Payload
<1>9. \A j \in 1..(n-1) : FramesOf(t)[j] = FramesOf(s)[j]
  BY <1>3, <1>6, <1>7
<1>10. FramesOf(t) = Append(FramesOf(s), m)
  <2> DEFINE S == Messages \cup {<< >>}
             F == FramesOf(s)
             G == FramesOf(t)
  <2>1. F \in Seq(S)
    <3>1. \A j \in 1..(n-1) : s[2*j] \in Chunks
      OBVIOUS
    <3>2. \A j \in 1..(n-1) : F[j] \in S
      BY <3>1, <1>7 DEF Chunks
    <3> QED
      BY <3>2, <1>7
  <2>2. Len(F) = n - 1 /\ DOMAIN G = 1..n /\ G = [j \in 1..n |-> G[j]]
    BY <1>5, <1>6
  <2>3. G[n] = m /\ \A j \in 1..(n-1) : G[j] = F[j]
    BY <1>8, <1>9
  <2>4. m \in S
    OBVIOUS
  <2> HIDE DEF F, G, S
  <2>5. Append(F, m) \in Seq(S) /\ Len(Append(F, m)) = n
    BY <2>1, <2>2, <2>4
  <2>6. \A j \in 1..n : G[j] = Append(F, m)[j] /\ G[j] \in S
    <3>1. Append(F, m)[n] = m
      BY <2>1, <2>2, <2>4, AppendProperties
    <3>2. \A j \in 1..(n-1) : Append(F, m)[j] = F[j] /\ F[j] \in S
      BY <2>1, <2>2, <2>4
    <3>3. \A j \in 1..n : j = n \/ j \in 1..(n-1)
      OBVIOUS
    <3> QED
      BY <2>3, <2>4, <3>1, <3>2, <3>3
  <2>7. G \in Seq(S) /\ Len(G) = n
    BY <2>2, <2>6
  <2>8. G = Append(F, m)
    BY <2>5, <2>6, <2>7, SeqEqual
  <2> QED
    BY <2>8 DEF F, G
<1> QED
  BY <1>5, <1>10 DEF t

LEMMA NextStreams ==
    ASSUME ReplyOnly
    PROVE  ReplyInv /\ [Next]_vars =>
             [Replies!Next]_[c \in Conns |-> FramesOf(sent[c])]
<1> SUFFICES ASSUME ReplyInv, [Next]_vars
             PROVE  \/ Replies!Next
                    \/ [c \in Conns |-> FramesOf(sent'[c])] = [c \in Conns |-> FramesOf(sent[c])]
  OBVIOUS
<1> USE DEF ReplyInv
<1>t. sent \in [Conns -> Seq(Chunks)] /\ callno \in [Conns -> Nat]
  BY DEF TypeInv, TypeOK
<1>1. CASE \A c \in Conns : ~WriteHeader(c) /\ ~WritePayload(c)
  BY <1>1, OtherStreams
<1>2. ASSUME NEW c \in Conns, WriteHeader(c)
      PROVE  [d \in Conns |-> FramesOf(sent'[d])] = [d \in Conns |-> FramesOf(sent[d])]
  <2>1. target[c] = c /\ ~Dead(c) /\ pc[c] = "header"
    BY <1>2 DEF WriteHeader, OwnSocket
  <2>2. /\ Header(CurrentMsg(c)) \in Chunks
        /\ sent' = [sent EXCEPT ![c] = Append(@, Header(CurrentMsg(c)))]
    BY <1>2, <2>1, <1>t DEF WriteHeader, Header, CurrentMsg, Chunks, Messages
  <2>3. Len(sent[c]) = 2*callno[c] - 2 /\ Len(sent[c]) \in Nat
    BY <2>1, <1>t DEF StreamInv, Complete
  <2>4. FramesOf(sent'[c]) = FramesOf(sent[c])
    <3>1. callno[c] - 1 \in Nat /\ Len(sent[c]) = 2*(callno[c] - 1)
      BY <2>3, <1>t
    <3>2. sent'[c] = Append(sent[c], Header(CurrentMsg(c)))
      BY <2>2, <1>t
    <3> QED
      BY <2>2, <3>1, <3>2, <1>t, HeaderAddsNoFrame
  <2>5. \A d \in Conns \ {c} : sent'[d] = sent[d]
    BY <2>2, <1>t
  <2> QED
    BY <2>4, <2>5
<1>3. ASSUME NEW c \in Conns, WritePayload(c) PROVE Replies!Next
  <2>1. target[c] = c /\ ~Dead(c) /\ pc[c] = "payload"
    BY <1>3 DEF WritePayload, OwnSocket
  <2>2. /\ CurrentMsg(c) \in Messages /\ CurrentMsg(c) = << c, callno[c] >>
        /\ sent' = [sent EXCEPT ![c] = Append(@, Payload(CurrentMsg(c)))]
    BY <1>3, <2>1, <1>t DEF WritePayload, CurrentMsg, Messages
  <2>3. Len(sent[c]) = 2*callno[c] - 1 /\ InCallOrder(c) /\ Len(sent[c]) \in Nat
    BY <2>1, <1>t DEF StreamInv, Complete
  <2>4. callno[c] \in Nat \ {0} /\ sent[c][2*callno[c] - 1] = Header(CurrentMsg(c))
    <3>1. callno[c] \in Nat \ {0}
      BY <2>3, <1>t
    <3> QED
      BY <2>2, <2>3, <3>1 DEF InCallOrder
  <2>5. sent'[c] = Append(sent[c], Payload(CurrentMsg(c)))
    BY <2>2, <1>t
  <2>6. /\ Len(FramesOf(sent[c])) = callno[c] - 1
        /\ FramesOf(sent'[c]) = Append(FramesOf(sent[c]), CurrentMsg(c))
    BY <2>2, <2>3, <2>4, <2>5, <1>t, PayloadAddsFrame
  <2>7. CurrentMsg(c) = << c, Len(FramesOf(sent[c])) + 1 >>
    BY <2>2, <2>4, <2>6
  <2>8. \A d \in Conns \ {c} : sent'[d] = sent[d]
    BY <2>2, <1>t
  <2>9. Replies!Deliver(c)
    <3>1. [d \in Conns |-> FramesOf(sent'[d])]
            = [[d \in Conns |-> FramesOf(sent[d])] EXCEPT
                 ![c] = Append(@, << c, Len(@) + 1 >>)]
      BY <2>6, <2>7, <2>8
    <3> QED
      BY <3>1 DEF Replies!Deliver
  <2> QED
    BY <2>9 DEF Replies!Next
<1> QED
  BY <1>1, <1>2, <1>3

(* If the handlers only reply, the server implements ReplyStreams: through   *)
(* lock waits, blocked writes, departures and shutdown, a client reads the   *)
(* whole messages of its own requests, each once and in order.               *)
THEOREM RepliesImplement ==
    ASSUME ReplyOnly
    PROVE  Spec => ImplementsReplyStreams
<1>1. Init => Replies!Init
  BY InitStreams
<1>2. ReplyInv /\ [Next]_vars => [Replies!Next]_[c \in Conns |-> FramesOf(sent[c])]
  BY NextStreams
<1> QED
  BY InitReply, NextReply, <1>1, <1>2, PTL
     DEF Spec, ImplementsReplyStreams, Replies!Spec
=============================================================================
