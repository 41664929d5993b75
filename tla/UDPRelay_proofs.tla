--------------------------- MODULE UDPRelay_proofs ---------------------------
(***************************************************************************)
(* Proofs about UDPRelay, for every set of clients and any number of       *)
(* datagrams and of changes of address.                                    *)
(***************************************************************************)
EXTENDS UDPRelay, TLAPS

-----------------------------------------------------------------------------
(* Any network.                                                             *)

\* The relay is at work on one datagram, or on none; what it is about to
\* forward has a known destination.
AtWork ==
    /\ IF pc \in {"got", "forward"} THEN \E x \in Datagrams : cur = {x} ELSE cur = {}
    /\ pc = "forward" => \A x \in cur : x.to \in DOMAIN peers

\* Clients send from their own addresses, and the relay has seen no other.
Honest ==
    /\ \A x \in net \cup cur : x.addr[1] = x.by /\ x.addr[2] <= moves[x.by]
    /\ \A h \in Hosts : newest[h] <= moves[h]
    /\ \A x \in cur : pc = "got" /\ x.form = "full" => x.addr[2] <= newest[x.by]

PeersOwn == \A h \in DOMAIN peers : peers[h][1] = h /\ peers[h][2] <= newest[h]

GivenOwn == \A g \in given : g.at[1] = g.msg.to /\ g.at[2] <= newest[g.msg.to]

RelayInv == TypeOK /\ AtWork /\ Honest /\ PeersOwn /\ GivenOwn

LEMMA RelayInit == Init => RelayInv
<1> SUFFICES ASSUME Init PROVE RelayInv
    OBVIOUS
<1> USE RelayAssumption DEF Init
<1>1. DOMAIN peers = {}
    OBVIOUS
<1>2. closed \in BOOLEAN
    OBVIOUS
<1>3. peers \in [DOMAIN peers -> Addresses]
    OBVIOUS
<1>4. TypeOK
    <2>1. moves \in [Hosts -> Nat] /\ newest \in [Hosts -> Nat]
        OBVIOUS
    <2>2. nsent \in [Hosts -> Nat] /\ joined = {} /\ net = {} /\ cur = {} /\ given = {}
        OBVIOUS
    <2>3. fifo \in BOOLEAN /\ pc \in {"top", "done"} /\ tcp \in {"up", "done"} /\ ctxDone = FALSE
        OBVIOUS
    <2> HIDE DEF Init
    <2> QED BY <1>1, <1>2, <1>3, <2>1, <2>2, <2>3 DEF TypeOK
<1>5. AtWork /\ Honest /\ PeersOwn /\ GivenOwn
    BY <1>1 DEF AtWork, Honest, PeersOwn, GivenOwn
<1> QED BY <1>4, <1>5 DEF RelayInv

LEMMA RelayNext == RelayInv /\ [Next]_vars => RelayInv'
<1> SUFFICES ASSUME RelayInv, [Next]_vars PROVE RelayInv'
    OBVIOUS
<1> USE RelayAssumption DEF RelayInv, clientVars, runVars, Addresses
<1>1. ASSUME NEW h \in Hosts, Join(h) PROVE RelayInv'
    BY <1>1 DEF Join, TypeOK, AtWork, Honest, PeersOwn, GivenOwn
<1>2. ASSUME NEW h \in Hosts, Move(h) PROVE RelayInv'
    BY <1>2 DEF Move, TypeOK, AtWork, Honest, PeersOwn, GivenOwn, Datagrams
<1>3. ASSUME NEW h \in Hosts, NEW k \in Hosts, NEW f \in {"full", "bare", "short"},
             SendTo(h, k, f)
      PROVE  RelayInv'
    <2> DEFINE x == [by |-> h, no |-> nsent[h] + 1, addr |-> Address(h),
                     to |-> k, form |-> f]
    <2>1. x \in Datagrams
        BY DEF Datagrams, Address, TypeOK
    <2>2. net' = net \cup {x} /\ nsent' \in [Hosts -> Nat]
        BY <1>3 DEF SendTo, TypeOK
    <2>3. x.by = h /\ x.addr[1] = h /\ x.addr[2] = moves[h]
        BY DEF Address
    <2> HIDE DEF x
    <2>4. TypeOK' BY <1>3, <2>1, <2>2 DEF SendTo, TypeOK
    <2>5. Honest' BY <1>3, <2>2, <2>3 DEF SendTo, TypeOK, Honest
    <2> QED BY <1>3, <2>4, <2>5 DEF SendTo, AtWork, PeersOwn, GivenOwn
<1>4. ASSUME NEW x \in net, Lose(x) PROVE RelayInv'
    BY <1>4 DEF Lose, TypeOK, AtWork, Honest, PeersOwn, GivenOwn
<1>5. ASSUME NEW x \in net, Read(x) PROVE RelayInv'
    <2>1. /\ x \in Datagrams /\ x.by \in Hosts /\ x.addr[2] \in Nat
          /\ x.addr[1] = x.by /\ x.addr[2] <= moves[x.by] /\ moves[x.by] \in Nat
        BY DEF TypeOK, Datagrams, Honest
    <2>2. newest' \in [Hosts -> Nat]
        BY <1>5, <2>1 DEF Read, TypeOK
    <2>3. \A h \in Hosts : newest[h] <= newest'[h] /\ newest'[h] <= moves[h]
        BY <1>5, <2>1 DEF Read, TypeOK, Honest
    <2>4. cur' = {x} \/ cur' = {}
        BY <1>5 DEF Read, AtWork
    <2>5. net' \subseteq net
        BY <1>5 DEF Read
    <2>6. TypeOK'
        BY <1>5, <2>1, <2>2, <2>4, <2>5 DEF Read, TypeOK
    <2>7. AtWork'
        BY <1>5, <2>1 DEF Read, AtWork
    <2>8. Honest'
        <3>1. x.form = "full" => x.addr[2] <= newest'[x.by]
            BY <1>5, <2>1 DEF Read, TypeOK
        <3> QED BY <1>5, <2>1, <2>3, <2>4, <2>5, <3>1 DEF Read, Honest
    <2>9. PeersOwn'
        BY <1>5, <2>2, <2>3 DEF Read, PeersOwn, TypeOK
    <2>10. GivenOwn'
        BY <1>5, <2>2, <2>3 DEF Read, GivenOwn, TypeOK, Datagrams
    <2> QED BY <2>6, <2>7, <2>8, <2>9, <2>10
<1>6. ASSUME NEW x \in cur, File(x) PROVE RelayInv'
    <2>1. /\ x \in Datagrams /\ x.by \in Hosts /\ x.addr \in Addresses
          /\ x.addr[1] = x.by
          /\ x.form = "full" => x.addr[2] <= newest[x.by]
        BY <1>6 DEF TypeOK, Datagrams, Honest, File
    <2>2. PeersOwn'
        BY <1>6, <2>1 DEF File, PeersOwn
    <2>3. TypeOK'
        BY <1>6, <2>1 DEF File, TypeOK
    <2> QED BY <1>6, <2>2, <2>3 DEF File, AtWork, Honest, GivenOwn
<1>7. ASSUME NEW x \in cur, Forward(x) PROVE RelayInv'
    <2>1. x \in Datagrams /\ x.to \in DOMAIN peers
        BY <1>7 DEF TypeOK, AtWork, Forward
    <2>2. peers[x.to] \in Addresses /\ peers[x.to][1] = x.to /\ peers[x.to][2] <= newest[x.to]
        BY <2>1 DEF TypeOK, PeersOwn
    <2> DEFINE g == [msg |-> x, at |-> peers[x.to]]
    <2>3. g \in [msg : Datagrams, at : Addresses] /\ g.msg = x /\ g.at = peers[x.to]
        BY <2>1, <2>2
    <2>4. given' = given \/ given' = given \cup {g}
        BY <1>7 DEF Forward
    <2> HIDE DEF g
    <2>5. TypeOK' BY <1>7, <2>3, <2>4 DEF Forward, TypeOK
    <2>6. GivenOwn' BY <1>7, <2>2, <2>3, <2>4 DEF Forward, GivenOwn
    <2> QED BY <1>7, <2>5, <2>6 DEF Forward, AtWork, Honest, PeersOwn
<1>8. CASE Top \/ StopRelay
    BY <1>8 DEF Top, StopRelay, TypeOK, AtWork, Honest, PeersOwn, GivenOwn
<1>9. CASE Cancel \/ CloseSocket \/ StopTCP
    BY <1>9 DEF Cancel, CloseSocket, StopTCP, TypeOK, AtWork, Honest, PeersOwn, GivenOwn
<1>10. CASE UNCHANGED vars
    BY <1>10 DEF vars, TypeOK, AtWork, Honest, PeersOwn, GivenOwn
<1>11. CASE Relay
    <2>1. ASSUME NEW x \in net \cup cur, Read(x) \/ File(x) \/ Forward(x)
          PROVE  RelayInv'
        <3>1. CASE Read(x) BY <3>1, <1>5 DEF Read
        <3>2. CASE File(x) BY <3>2, <1>6 DEF File
        <3>3. CASE Forward(x) BY <3>3, <1>7 DEF Forward
        <3> QED BY <2>1, <3>1, <3>2, <3>3
    <2> QED BY <1>8, <1>11, <2>1 DEF Relay
<1>12. ASSUME NEW h \in Hosts, Join(h) \/ Move(h) PROVE RelayInv'
    BY <1>1, <1>2, <1>12
<1> QED BY <1>3, <1>4, <1>9, <1>10, <1>11, <1>12 DEF Next, Ended

\* The relay's variables keep their types; `peers' never names HostIDNone.
THEOREM RelayTypes == Spec => []TypeOK
<1>1. RelayInv => TypeOK BY DEF RelayInv
<1> QED BY <1>1, RelayInit, RelayNext, PTL DEF Spec

\* A datagram goes only to an address that its destination has sent from.
THEOREM OwnAddressOnly == Spec => []OwnAddress
<1>1. RelayInv => OwnAddress
    BY DEF RelayInv, OwnAddress, GivenOwn, Honest, TypeOK, Datagrams
<1> QED BY <1>1, RelayInit, RelayNext, PTL DEF Spec

-----------------------------------------------------------------------------
(* A network that keeps the order of each client's datagrams.               *)

\* What a client sends later it sends from a later address, and from none
\* older than the relay has seen.
Ordered ==
    /\ \A x \in net : x.no <= nsent[x.by] /\ newest[x.by] <= x.addr[2]
    /\ \A x, y \in net : x.by = y.by /\ x.no <= y.no => x.addr[2] <= y.addr[2]

\* A known client is filed under its newest address, but while the datagram
\* that brings the newest one is still to be filed.
PeersNewest ==
    /\ \A x \in cur : pc = "got" /\ x.form = "full" => x.addr[2] = newest[x.by]
    /\ \A h \in DOMAIN peers :
          \/ peers[h] = << h, newest[h] >>
          \/ pc = "got" /\ \E x \in cur : x.form = "full" /\ x.by = h

OrderInv == RelayInv /\ (fifo => Ordered /\ PeersNewest)

LEMMA OrderInit == Init => OrderInv
BY RelayInit DEF Init, OrderInv, Ordered, PeersNewest

LEMMA FifoConstant == [Next]_vars => UNCHANGED fifo
<1> SUFFICES ASSUME [Next]_vars PROVE fifo' = fifo
    OBVIOUS
<1>1. CASE Relay
    BY <1>1 DEF Relay, Top, StopRelay, Read, File, Forward, runVars
<1>2. CASE ~Relay
    BY <1>2 DEF Next, Join, Move, SendTo, Lose, Cancel, CloseSocket, StopTCP, Ended, runVars, vars
<1> QED BY <1>1, <1>2

LEMMA OrderNext == OrderInv /\ [Next]_vars => OrderInv'
<1> SUFFICES ASSUME OrderInv, [Next]_vars, fifo PROVE Ordered' /\ PeersNewest'
    BY RelayNext, FifoConstant DEF OrderInv
<1> DEFINE Goal == Ordered' /\ PeersNewest'
<1>i. RelayInv /\ Ordered /\ PeersNewest /\ RelayInv'
    BY RelayNext DEF OrderInv
<1>t. TypeOK /\ TypeOK' /\ AtWork /\ Honest
    BY <1>i DEF RelayInv
<1> USE RelayAssumption DEF clientVars, runVars
<1>1. ASSUME NEW h \in Hosts, Join(h) \/ Move(h) PROVE Goal
    BY <1>1, <1>i DEF Join, Move, Ordered, PeersNewest
<1>2. ASSUME NEW h \in Hosts, NEW k \in Hosts, NEW f \in {"full", "bare", "short"},
             SendTo(h, k, f)
      PROVE  Goal
    <2> DEFINE x == [by |-> h, no |-> nsent[h] + 1, addr |-> Address(h),
                     to |-> k, form |-> f]
    <2>1. /\ net' = net \cup {x} /\ nsent'[h] = nsent[h] + 1
          /\ \A d \in Hosts \ {h} : nsent'[d] = nsent[d]
          /\ nsent[h] \in Nat
        BY <1>2, <1>t DEF SendTo, TypeOK
    <2>2. x.by = h /\ x.no = nsent[h] + 1 /\ x.addr[2] = moves[h]
        BY DEF Address
    <2>3. newest[h] <= moves[h]
        BY <1>t DEF Honest
    <2>4. \A y \in net : /\ y.by \in Hosts /\ y.no \in Nat /\ y.no <= nsent[y.by]
                         /\ y.addr[2] <= moves[y.by]
        BY <1>i, <1>t DEF Ordered, Honest, TypeOK, Datagrams
    <2> HIDE DEF x
    <2>5. UNCHANGED << moves, newest, peers, pc, cur >>
        BY <1>2 DEF SendTo
    <2>6. Ordered'
        <3>1. \A y \in net' : y.no <= nsent'[y.by] /\ newest'[y.by] <= y.addr[2]
            BY <2>1, <2>2, <2>3, <2>4, <2>5, <1>i, <1>t DEF Ordered, TypeOK
        <3>2. ASSUME NEW y \in net', NEW z \in net', y.by = z.by, y.no <= z.no
              PROVE  y.addr[2] <= z.addr[2]
            <4>1. CASE y = x /\ z = x
                <5>1. moves[h] \in Nat BY <1>t DEF TypeOK
                <5> QED BY <4>1, <2>2, <5>1
            <4>2. CASE y = x /\ z \in net
                <5>1. z.no <= nsent[h] BY <4>2, <3>2, <2>2, <2>4
                <5> QED BY <4>2, <3>2, <5>1, <2>1, <2>2, <2>4
            <4>3. CASE y \in net /\ z = x
                BY <4>3, <3>2, <2>2, <2>4
            <4>4. CASE y \in net /\ z \in net
                BY <4>4, <3>2, <1>i DEF Ordered
            <4> QED BY <4>1, <4>2, <4>3, <4>4, <2>1
        <3> QED BY <3>1, <3>2 DEF Ordered
    <2> QED BY <2>5, <2>6, <1>i DEF PeersNewest
<1>3. ASSUME NEW x \in net, Lose(x) PROVE Goal
    BY <1>3, <1>i DEF Lose, Ordered, PeersNewest
<1>4. ASSUME NEW x \in net, Read(x) PROVE Goal
    <2>1. /\ x.by \in Hosts /\ newest[x.by] <= x.addr[2]
          /\ newest[x.by] \in Nat /\ x.addr[2] \in Nat
        BY <1>i, <1>t DEF Ordered, TypeOK, Datagrams
    <2>2. /\ net' \subseteq net /\ UNCHANGED << nsent, peers >>
          /\ \A y \in net : y.by = x.by => x.no <= y.no
          /\ pc = "read" /\ cur = {}
        BY <1>4, <1>t DEF Read, AtWork
    <2>3. newest' = IF x.form = "full" THEN [newest EXCEPT ![x.by] = x.addr[2]]
                                       ELSE newest
        <3>1. CASE x.form = "full" /\ newest[x.by] = x.addr[2]
            <4>1. newest' = newest
                BY <1>4, <2>1, <3>1 DEF Read
            <4>2. [newest EXCEPT ![x.by] = x.addr[2]] = newest
                BY <2>1, <3>1, <1>t DEF TypeOK
            <4> QED BY <4>1, <4>2, <3>1
        <3>2. CASE ~(x.form = "full" /\ newest[x.by] = x.addr[2])
            BY <1>4, <2>1, <3>2 DEF Read
        <3> QED BY <3>1, <3>2
    <2>4. Ordered'
        <3>1. ASSUME NEW y \in net' PROVE newest'[y.by] <= y.addr[2]
            <4>1. y \in net /\ newest[y.by] <= y.addr[2]
                BY <2>2, <1>i DEF Ordered
            <4>2. y.by = x.by => x.addr[2] <= y.addr[2]
                BY <4>1, <2>2, <1>i DEF Ordered
            <4> QED BY <4>1, <4>2, <2>1, <2>3, <1>t DEF TypeOK
        <3> QED BY <3>1, <2>2, <1>i DEF Ordered
    <2>5. PeersNewest'
        <3>1. CASE x.form = "full"
            <4>1. cur' = {x} /\ pc' = "got" /\ newest'[x.by] = x.addr[2]
                BY <3>1, <1>4, <2>1, <2>3, <1>t DEF Read, TypeOK
            <4> QED BY <3>1, <4>1, <2>1, <2>2, <2>3, <1>i, <1>t
                    DEF PeersNewest, TypeOK
        <3>2. CASE x.form # "full"
            BY <3>2, <1>4, <2>2, <2>3, <1>i DEF Read, PeersNewest
        <3> QED BY <3>1, <3>2
    <2> QED BY <2>4, <2>5
<1>5. ASSUME NEW x \in cur, File(x) PROVE Goal
    <2>1. /\ x.form = "full" => x.addr[2] = newest[x.by]
          /\ x.addr \in Hosts \X Nat /\ x.addr[1] = x.by
          /\ cur = {x}
        BY <1>5, <1>i, <1>t DEF File, PeersNewest, TypeOK, Datagrams, Honest, AtWork
    <2>2. x.form = "full" => x.addr = << x.by, newest[x.by] >>
        BY <2>1
    <2>3. PeersNewest'
        BY <1>5, <2>1, <2>2, <1>i DEF File, PeersNewest
    <2> QED BY <1>5, <2>3, <1>i DEF File, Ordered
<1>6. ASSUME NEW x \in cur, Forward(x) PROVE Goal
    BY <1>6, <1>i DEF Forward, Ordered, PeersNewest
<1>7. CASE Top \/ StopRelay \/ Cancel \/ CloseSocket \/ StopTCP
    BY <1>7, <1>i DEF Top, StopRelay, Cancel, CloseSocket, StopTCP, Ordered,
                      PeersNewest
<1>8. CASE UNCHANGED vars
    BY <1>8, <1>i DEF vars, Ordered, PeersNewest
<1>9. CASE Relay
    <2>1. ASSUME NEW x \in net \cup cur, Read(x) \/ File(x) \/ Forward(x) PROVE Goal
        <3>1. CASE Read(x) BY <3>1, <1>4 DEF Read
        <3>2. CASE File(x) BY <3>2, <1>5 DEF File
        <3>3. CASE Forward(x) BY <3>3, <1>6 DEF Forward
        <3> QED BY <2>1, <3>1, <3>2, <3>3
    <2> QED BY <1>7, <1>9, <2>1 DEF Relay
<1> QED BY <1>1, <1>2, <1>3, <1>7, <1>8, <1>9 DEF Next, Ended

\* If the network keeps the order of each client's datagrams, a datagram goes
\* to the newest address the relay has seen of its destination.
THEOREM NewestAddressUsed == Spec => NewestAddress
<1>1. OrderInv /\ [Next]_vars =>
        [fifo => \A g \in given' \ given : g.at[2] = newest[g.msg.to]]_vars
    <2> SUFFICES ASSUME OrderInv, [Next]_vars, fifo, NEW g \in given' \ given
                 PROVE  g.at[2] = newest[g.msg.to]
        OBVIOUS
    <2>1. PICK x \in cur : Forward(x)
        <3>1. given' # given
            OBVIOUS
        <3>2. Relay
            BY <3>1 DEF Next, Join, Move, SendTo, Lose, Cancel, CloseSocket,
                        StopTCP, Ended, vars
        <3>3. PICK x \in net \cup cur : Read(x) \/ File(x) \/ Forward(x)
            BY <3>1, <3>2 DEF Relay, Top, StopRelay
        <3>4. Forward(x)
            BY <3>1, <3>3 DEF Read, File
        <3> QED BY <3>4 DEF Forward
    <2>2. g = [msg |-> x, at |-> peers[x.to]] /\ pc = "forward"
        BY <2>1 DEF Forward
    <2>3. x.to \in DOMAIN peers
        BY <2>2 DEF OrderInv, RelayInv, AtWork
    <2> QED BY <2>2, <2>3 DEF OrderInv, PeersNewest
<1> QED BY <1>1, OrderInit, OrderNext, PTL DEF Spec, NewestAddress
=============================================================================
