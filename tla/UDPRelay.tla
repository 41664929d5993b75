------------------------------ MODULE UDPRelay ------------------------------
(***************************************************************************)
(* The battle server (server/cmd/battle-server/main.go) and its relay for  *)
(* peer-to-peer match traffic (server/internal/proudnet/udp_relay.go).     *)
(*                                                                         *)
(* One goroutine reads a datagram, files its source address under the      *)
(* HostID the datagram says it is from, looks up the HostID it is for and  *)
(* forwards it.  Nothing else writes `peers': RegisterPeer has no other    *)
(* caller and UnregisterPeer none.  Beside it runs the TCP server that     *)
(* accepts the clients' logons; of it, ProudNetServer has the rest.        *)
(*                                                                         *)
(* A client is a HostID.  Its NAT may give it a new address; its n-th one  *)
(* is << host, n >>.  The network loses and duplicates datagrams, and      *)
(* reorders those of one client unless `fifo'.                            *)
(***************************************************************************)
EXTENDS Naturals

CONSTANTS
    Hosts,      \* the HostIDs of the clients of one match
    MaxSent,    \* BOUND: how many datagrams each client sends
    MaxMoves    \* BOUND: new addresses per client

ASSUME RelayAssumption ==
    MaxSent \in [Hosts -> Nat] /\ MaxMoves \in [Hosts -> Nat]

VARIABLES
    fifo,       \* the network keeps the order of each client's datagrams
    joined,     \* the clients whose logon the TCP server has accepted
    moves,      \* how often each client's address has changed
    nsent,      \* how many datagrams each client has sent
    net,        \* the datagrams on their way to the relay
    peers,      \* UDPRelay.peers, a partial function: HostID -> address
    pc,         \* the relay's goroutine: "top", "read", "got", "forward" or "done"
    cur,        \* buf: the datagram the relay is at work on, if any
    given,      \* every WriteToUDP: the datagram and the address it went to
    newest,     \* for each client, the newest address the relay has seen
    tcp,        \* the goroutine of the TCP server: "up" or "done"
    ctxDone,    \* the signal context is cancelled
    closed      \* the UDP socket is closed

clientVars == << joined, moves, nsent >>
runVars == << fifo, tcp, ctxDone, closed >>
vars == << clientVars, net, peers, pc, cur, given, newest, runVars >>

(* A datagram has 9 bytes and names its source ("full"), 5 to 8 and names   *)
(* only its destination ("bare"), or fewer and names nobody ("short").      *)
Datagrams ==
    [ by : Hosts, no : Nat, addr : Hosts \X Nat, to : Hosts,
      form : {"full", "bare", "short"} ]

Address(h) == << h, moves[h] >>

\* Either Listen may fail at the start: that goroutine logs it and is done.
Init ==
    /\ fifo \in BOOLEAN
    /\ joined = {}
    /\ moves = [h \in Hosts |-> 0] /\ nsent = [h \in Hosts |-> 0]
    /\ net = {} /\ cur = {} /\ given = {}
    /\ peers = [h \in {} |-> << h, 0 >>]
    /\ newest = [h \in Hosts |-> 0]
    /\ pc \in {"top", "done"} /\ tcp \in {"up", "done"}
    /\ ctxDone = FALSE
    /\ closed = (pc = "done")

-----------------------------------------------------------------------------
(* Clients and network.                                                     *)

Join(h) ==
    /\ tcp = "up" /\ h \notin joined
    /\ joined' = joined \cup {h}
    /\ UNCHANGED << moves, nsent, net, peers, pc, cur, given, newest, runVars >>

Move(h) ==
    /\ moves[h] < MaxMoves[h]
    /\ moves' = [moves EXCEPT ![h] = @ + 1]
    /\ UNCHANGED << joined, nsent, net, peers, pc, cur, given, newest, runVars >>

SendTo(h, k, f) ==
    /\ h \in joined /\ nsent[h] < MaxSent[h]
    /\ nsent' = [nsent EXCEPT ![h] = @ + 1]
    /\ net' = net \cup {[by |-> h, no |-> nsent'[h], addr |-> Address(h),
                         to |-> k, form |-> f]}
    /\ UNCHANGED << joined, moves, peers, pc, cur, given, newest, runVars >>

Lose(x) ==
    /\ x \in net
    /\ net' = net \ {x}
    /\ UNCHANGED << clientVars, peers, pc, cur, given, newest, runVars >>

-----------------------------------------------------------------------------
(* The relay.                                                               *)

\* ReadFromUDP returns a datagram; a duplicate of it may still be on its way.
\* (A read error of an open socket is logged and changes nothing.)
Read(x) ==
    /\ pc = "read" /\ ~closed
    /\ x \in net
    /\ fifo => \A y \in net : y.by = x.by => x.no <= y.no
    /\ net' \in {net, net \ {x}}
    /\ IF x.form = "short" THEN UNCHANGED cur /\ pc' = "top"
                           ELSE cur' = {x} /\ pc' = "got"
    /\ newest' = IF x.form = "full" /\ newest[x.by] < x.addr[2]
                 THEN [newest EXCEPT ![x.by] = x.addr[2]] ELSE newest
    /\ UNCHANGED << clientVars, peers, given, runVars >>

\* Seeded fault: a known peer keeps the address it was first seen at.
FileFirst(x) ==
    /\ pc = "got" /\ x \in cur
    /\ peers' = [h \in DOMAIN peers \cup (IF x.form = "full" THEN {x.by} ELSE {}) |->
                    IF h \in DOMAIN peers THEN peers[h] ELSE x.addr]
    /\ IF x.to \in DOMAIN peers' THEN UNCHANGED cur /\ pc' = "forward"
                                 ELSE cur' = {} /\ pc' = "top"
    /\ UNCHANGED << clientVars, net, given, newest, runVars >>

\* Seeded fault: the source is filed under the destination's HostID.
FileSwapped(x) ==
    /\ pc = "got" /\ x \in cur
    /\ peers' = [h \in DOMAIN peers \cup (IF x.form = "full" THEN {x.to} ELSE {}) |->
                    IF x.form = "full" /\ h = x.to THEN x.addr ELSE peers[h]]
    /\ IF x.to \in DOMAIN peers' THEN UNCHANGED cur /\ pc' = "forward"
                                 ELSE cur' = {} /\ pc' = "top"
    /\ UNCHANGED << clientVars, net, given, newest, runVars >>

\* A source that is named is registered; then the destination is looked up.
File(x) ==
    /\ pc = "got" /\ x \in cur
    /\ peers' = [h \in DOMAIN peers \cup (IF x.form = "full" THEN {x.by} ELSE {}) |->
                    IF x.form = "full" /\ h = x.by THEN x.addr ELSE peers[h]]
    /\ IF x.to \in DOMAIN peers' THEN UNCHANGED cur /\ pc' = "forward"
                                 ELSE cur' = {} /\ pc' = "top"
    /\ UNCHANGED << clientVars, net, given, newest, runVars >>

\* WriteToUDP; on a closed socket it fails and is logged.
Forward(x) ==
    /\ pc = "forward" /\ x \in cur
    /\ given' = IF closed THEN given ELSE given \cup {[msg |-> x, at |-> peers[x.to]]}
    /\ cur' = {} /\ pc' = "top"
    /\ UNCHANGED << clientVars, net, peers, newest, runVars >>

Top ==
    /\ pc = "top" /\ ~ctxDone
    /\ pc' = "read"
    /\ UNCHANGED << clientVars, net, peers, cur, given, newest, runVars >>

\* The loop sees ctx.Err, at its top or after the read that the close ended;
\* the deferred Close closes the socket if that is still to do.
StopRelay ==
    /\ (ctxDone /\ pc = "top") \/ (closed /\ pc = "read")
    /\ pc' = "done" /\ closed' = TRUE
    /\ UNCHANGED << clientVars, net, peers, cur, given, newest, fifo, tcp, ctxDone >>

-----------------------------------------------------------------------------
(* main: the signal, the close that follows it, and the two goroutines.     *)

Cancel ==
    /\ ~ctxDone
    /\ ctxDone' = TRUE
    /\ UNCHANGED << clientVars, net, peers, pc, cur, given, newest, fifo, tcp, closed >>

\* Seeded fault: nothing but the deferred Close closes the socket.
CloseSocketDeferred ==
    /\ pc = "done" /\ ~closed
    /\ closed' = TRUE
    /\ UNCHANGED << clientVars, net, peers, pc, cur, given, newest, fifo, tcp, ctxDone >>

CloseSocket ==
    /\ ctxDone /\ ~closed
    /\ closed' = TRUE
    /\ UNCHANGED << clientVars, net, peers, pc, cur, given, newest, fifo, tcp, ctxDone >>

StopTCP ==
    /\ tcp = "up" /\ ctxDone
    /\ tcp' = "done"
    /\ UNCHANGED << clientVars, net, peers, pc, cur, given, newest, fifo, ctxDone, closed >>

\* WaitGroup.Wait returns; the clients and the network may go on.
MainReturns == tcp = "done" /\ pc = "done"

Ended == MainReturns /\ UNCHANGED vars

Relay == Top \/ StopRelay \/ \E x \in net \cup cur : Read(x) \/ File(x) \/ Forward(x)

Next ==
    \/ \E h \in Hosts : Join(h) \/ Move(h)
    \/ \E h, k \in Hosts, f \in {"full", "bare", "short"} : SendTo(h, k, f)
    \/ \E x \in net : Lose(x)
    \/ Relay \/ Cancel \/ CloseSocket \/ StopTCP \/ Ended

Spec == Init /\ [][Next]_vars

\* The goroutines run; that the TCP server stops when it is told to is what
\* ProudNetServer shows for handlers that only reply, as this server's does.
FairSpec == Spec /\ WF_vars(Relay) /\ WF_vars(CloseSocket) /\ WF_vars(StopTCP)

-----------------------------------------------------------------------------
(* Properties.                                                              *)

Addresses == Hosts \X Nat

\* The values the variables take.
TypeOK ==
    /\ fifo \in BOOLEAN /\ joined \subseteq Hosts
    /\ moves \in [Hosts -> Nat] /\ nsent \in [Hosts -> Nat]
    /\ net \subseteq Datagrams /\ cur \subseteq Datagrams
    /\ DOMAIN peers \subseteq Hosts /\ peers \in [DOMAIN peers -> Addresses]
    /\ pc \in {"top", "read", "got", "forward", "done"}
    /\ given \subseteq [msg : Datagrams, at : Addresses]
    /\ newest \in [Hosts -> Nat]
    /\ tcp \in {"up", "done"} /\ ctxDone \in BOOLEAN /\ closed \in BOOLEAN

\* A datagram goes only to an address that the client it is for has sent from,
\* whatever the network loses, repeats and reorders (the map `peers').
OwnAddress ==
    \A g \in given :
        /\ g.at[1] = g.msg.to
        /\ g.at[2] <= newest[g.msg.to] /\ newest[g.msg.to] <= moves[g.msg.to]

\* On a network that keeps the order of each client's datagrams, a datagram
\* goes to the newest address the relay has seen of the client it is for, so
\* that a client that moves is reached again as soon as it has sent.
NewestAddress ==
    [][fifo => \A g \in given' \ given : g.at[2] = newest[g.msg.to]]_vars

\* A signal ends the process (main waits for both goroutines).
MainEnds == ctxDone ~> MainReturns
=============================================================================
