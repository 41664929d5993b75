------------------------ MODULE Breakpoints_proofs ------------------------
(***************************************************************************)
(* Proofs about Breakpoints, for any threads of the client, any workloads  *)
(* and any number of dumps.                                                *)
(***************************************************************************)
EXTENDS Breakpoints, TLAPS

\* What the loop of PatchThread has in hand: a thread is being worked on only
\* between its suspension and its resumption, and during a pass.
LoopInHand ==
    /\ loop.pc = "suspended" <=> loop.cur # Nobody
    /\ loop.pc \in {"pass", "suspended"} <=> loop.pass # "none"

Inv == TypeOK /\ LoopInHand

LoopType == [pc : {"top", "dump", "ggr", "aim", "pass", "suspended"},
             pass : {"none", "val", "dump", "ggr", "set"}, todo : SUBSET Clients,
             cur : Clients \cup {Nobody}, targets : SUBSET Slots,
             swept : SUBSET {"val", "ggr"}]

ExcType == [kind : {"none", "fault"} \cup Slots, dr : SUBSET Slots,
            step : {"none", "log", "logging", "edit", "return"}]

LEMMA Passes == {"none"} \cup DOMAIN After = {"none", "val", "dump", "ggr", "set"}
    BY DEF After

LEMMA TargetsAreSlots == Targets \subseteq Slots
    BY DEF Targets, Slots

LEMMA TypesSplit ==
    TypeOK <=>
        /\ at \in [Clients -> {"unborn", "code", "heap", "gone"} \cup Slots]
        /\ dr \in [Clients -> SUBSET Slots]
        /\ exc \in [Clients -> ExcType]
        /\ hit \subseteq OneShot /\ lock \in Clients \cup {Nobody}
        /\ suspended \subseteq Clients
        /\ loop \in LoopType
        /\ dumps \in 0 .. MaxDumps[does] /\ misses \in 0 .. MaxMisses /\ does \in Workloads
    BY Passes DEF TypeOK, ExcType, LoopType

LEMMA TypesJoin ==
    ASSUME at' \in [Clients -> {"unborn", "code", "heap", "gone"} \cup Slots],
           dr' \in [Clients -> SUBSET Slots], exc' \in [Clients -> ExcType],
           hit' \subseteq OneShot, lock' \in Clients \cup {Nobody},
           suspended' \subseteq Clients, loop' \in LoopType,
           dumps' \in 0 .. MaxDumps[does'], misses' \in 0 .. MaxMisses, does' \in Workloads
    PROVE  TypeOK'
    BY Passes DEF TypeOK, ExcType, LoopType

-----------------------------------------------------------------------------
LEMMA InvInit == Init => Inv
<1> SUFFICES ASSUME Init PROVE Inv
    OBVIOUS
<1> USE BreakpointsAssumption DEF Init
<1>1. TypeOK
    BY Passes DEF TypeOK, NoExc, Slots, OneShot
<1>2. LoopInHand
    BY DEF LoopInHand
<1> QED BY <1>1, <1>2 DEF Inv

\* A client's thread leaves PatchThread alone, and the other way round.
LEMMA ClientStep ==
    ASSUME Inv, NEW c \in Clients,
           \/ ThreadStart(c) \/ ThreadExit(c) \/ Allocate(c) \/ Release(c)
           \/ Reach(c) \/ Pass(c) \/ Trap(c) \/ Fault(c) \/ VehHandler(c)
    PROVE  Inv'
<1> USE BreakpointsAssumption DEF Inv
<1>1. UNCHANGED << suspended, loop, dumps, misses, does >>
    BY DEF ThreadStart, ThreadExit, Allocate, Release, Reach, Pass, Trap, Fault, VehHandler,
           LogStart, LogEnd, Edit, Return, loopVars, bounds
<1>2. LoopInHand'
    BY <1>1 DEF LoopInHand
<1>3. /\ at' \in [Clients -> {"unborn", "code", "heap", "gone"} \cup Slots]
      /\ dr' \in [Clients -> SUBSET Slots] /\ exc' \in [Clients -> ExcType]
      /\ hit' \subseteq OneShot /\ lock' \in Clients \cup {Nobody}
    <2> USE TypesSplit
    <2>1. CASE ThreadStart(c) \/ ThreadExit(c) \/ Allocate(c) \/ Release(c) \/ Reach(c) \/ Pass(c)
        BY <2>1 DEF ThreadStart, ThreadExit, Allocate, Release, Reach, Pass, Slots
    <2>2. CASE Trap(c)
        <3>1. [kind |-> at[c], dr |-> dr[c], step |-> "log"] \in ExcType
            BY <2>2 DEF Trap, ExcType
        <3> QED BY <2>2, <3>1 DEF Trap
    <2>3. CASE Fault(c)
        <3>1. \A step \in {"log", "return"} : [kind |-> "fault", dr |-> dr[c], step |-> step] \in ExcType
            BY DEF ExcType
        <3> QED BY <2>3, <3>1 DEF Fault
    <2>4. CASE LogStart(c) \/ LogEnd(c)
        <3>1. \A step \in {"logging", "return", "edit"} : [exc[c] EXCEPT !.step = step] \in ExcType
            BY DEF ExcType
        <3> QED BY <2>4, <3>1 DEF LogStart, LogEnd
    <2>5. CASE Edit(c)
        <3> DEFINE e == [kind |-> exc[c].kind, dr |-> exc[c].dr \ {exc[c].kind}, step |-> "return"]
        <3>1. e \in ExcType
            BY DEF ExcType
        <3>2. exc' = [exc EXCEPT ![c] = e]
            BY <2>5 DEF Edit
        <3> HIDE DEF e
        <3>3. exc' \in [Clients -> ExcType]
            BY <3>1, <3>2
        <3> QED BY <2>5, <3>3 DEF Edit
    <2>6. CASE Return(c)
        <3>1. exc[c].dr \in SUBSET Slots /\ NoExc \in ExcType
            BY DEF ExcType, NoExc
        <3> QED BY <2>6, <3>1 DEF Return, Slots
    <2> QED BY <2>1, <2>2, <2>3, <2>4, <2>5, <2>6 DEF VehHandler
<1> QED BY <1>1, <1>2, <1>3, TypesSplit, TypesJoin

\* A snapshot begins a pass with nobody in hand.
LEMMA SnapshotType ==
    ASSUME loop \in LoopType, NEW p \in {"val", "dump", "ggr", "set"}
    PROVE  /\ Snapshot(p) \in LoopType /\ Snapshot(p).cur = loop.cur
           /\ Snapshot(p).pc = "pass" /\ Snapshot(p).pass = p
           /\ Snapshot(p).swept = loop.swept
    BY DEF Snapshot, LoopType

LEMMA SweepStep ==
    ASSUME Inv, NEW pc \in {"top", "ggr"}, NEW s \in {"val", "ggr"}, NEW n \in {"dump", "aim"},
           Sweep(pc, s, n)
    PROVE  Inv'
<1> USE BreakpointsAssumption DEF Inv
<1>1. UNCHANGED << at, dr, exc, hit, lock, suspended, dumps, misses, does >>
    BY DEF Sweep, loopOnly, clientVars, bounds
<1>2. loop' \in LoopType
    BY TypesSplit, SnapshotType DEF Sweep, LoopType
<1>3. /\ loop'.cur = loop.cur /\ loop.pc \in {"top", "ggr"}
      /\ \/ loop'.pc = "pass" /\ loop'.pass = s
         \/ loop'.pc = n /\ loop'.pass = loop.pass
    BY TypesSplit, SnapshotType DEF Sweep, LoopType
<1>4. LoopInHand'
    BY <1>1, <1>3 DEF LoopInHand
<1> QED BY <1>1, <1>2, <1>4, TypesSplit, TypesJoin

LEMMA ResumeStep == ASSUME Inv, Resume PROVE Inv'
<1> USE BreakpointsAssumption DEF Inv
<1>1. /\ loop' = [loop EXCEPT !.pc = "pass", !.cur = Nobody]
      /\ suspended' = suspended \ {loop.cur} /\ loop.pc = "suspended"
      /\ UNCHANGED << at, exc, hit, lock, dumps, does >>
    BY DEF Resume
<1>2. loop' \in LoopType /\ loop'.pc = "pass" /\ loop'.cur = Nobody /\ loop'.pass = loop.pass
    BY <1>1, TypesSplit DEF LoopType
<1>3. LoopInHand'
    BY <1>1, <1>2 DEF LoopInHand
<1>4. loop.cur \in Clients
    BY <1>1, TypesSplit DEF LoopInHand, LoopType
<1>5. dr' \in [Clients -> SUBSET Slots]
    <2>1. CASE Refused \/ Logged BY <2>1, TypesSplit DEF Refused, Logged
    <2>2. CASE Written BY <2>2, <1>4, TypesSplit DEF Written, LoopType
    <2> QED BY <2>1, <2>2 DEF Resume
<1>6. misses' \in 0 .. MaxMisses
    BY TypesSplit DEF Resume, Refused, Written, Logged, Miss
<1> QED BY <1>1, <1>2, <1>3, <1>5, <1>6, TypesSplit, TypesJoin

LEMMA PatchThreadStep == ASSUME Inv, PatchThread PROVE Inv'
<1> USE BreakpointsAssumption DEF Inv, clientVars, bounds, loopOnly
<1>1. CASE ValSweep \/ GgrSweep
    BY <1>1, SweepStep DEF ValSweep, GgrSweep
<1>2. CASE Dump
    <2>1. /\ loop' \in LoopType /\ loop'.cur = loop.cur
          /\ \/ loop'.pc = "pass" /\ loop'.pass = "dump"
             \/ loop'.pc = "ggr" /\ loop'.pass = loop.pass
        BY <1>2, TypesSplit, SnapshotType DEF Dump, LoopType
    <2>2. dumps' \in 0 .. MaxDumps[does']
        BY <1>2, TypesSplit DEF Dump
    <2>3. LoopInHand'
        BY <1>2, <2>1 DEF Dump, LoopInHand
    <2> QED BY <1>2, <2>1, <2>2, <2>3, TypesSplit, TypesJoin DEF Dump
<1>3. CASE Aim
    <2>1. /\ loop' \in LoopType /\ loop'.cur = loop.cur
          /\ loop'.pc = "pass" /\ loop'.pass = "set"
        BY <1>3, TypesSplit, SnapshotType, TargetsAreSlots DEF Aim, LoopType
    <2>2. LoopInHand'
        BY <1>3, <2>1 DEF Aim, LoopInHand
    <2> QED BY <1>3, <2>1, <2>2, TypesSplit, TypesJoin DEF Aim
<1>4. CASE Suspend
    <2> PICK c \in loop.todo :
          \/ /\ loop' = [loop EXCEPT !.todo = @ \ {c}] /\ UNCHANGED suspended
             /\ IF at[c] = "gone" THEN UNCHANGED misses ELSE Miss
          \/ /\ at[c] # "gone"
             /\ loop' = [loop EXCEPT !.todo = @ \ {c}, !.cur = c, !.pc = "suspended"]
             /\ suspended' = suspended \cup {c} /\ UNCHANGED misses
        BY <1>4 DEF Suspend
    <2>0. loop.pc = "pass" /\ loop.cur = Nobody /\ c \in Clients /\ loop \in LoopType
          /\ loop.pass # "none"
        BY <1>4, TypesSplit DEF Suspend, LoopInHand, LoopType
    <2>1. misses' \in 0 .. MaxMisses
        BY TypesSplit DEF Miss
    <2>2. CASE loop' = [loop EXCEPT !.todo = @ \ {c}] /\ UNCHANGED suspended
        <3>1. /\ loop' \in LoopType /\ loop'.pass = loop.pass
              /\ loop'.pc = loop.pc /\ loop'.cur = loop.cur
            BY <2>0, <2>2 DEF LoopType
        <3>2. LoopInHand' BY <2>0, <3>1 DEF LoopInHand
        <3> QED BY <1>4, <2>1, <2>2, <3>1, <3>2, TypesSplit, TypesJoin DEF Suspend
    <2>3. CASE /\ loop' = [loop EXCEPT !.todo = @ \ {c}, !.cur = c, !.pc = "suspended"]
               /\ suspended' = suspended \cup {c}
        <3>1. /\ loop' \in LoopType /\ loop'.pass = loop.pass
              /\ loop'.pc = "suspended" /\ loop'.cur = c
            BY <2>0, <2>3 DEF LoopType
        <3>2. LoopInHand' BY <2>0, <3>1 DEF LoopInHand
        <3> QED BY <1>4, <2>0, <2>1, <2>3, <3>1, <3>2, TypesSplit, TypesJoin DEF Suspend
    <2> QED BY <2>2, <2>3
<1>5. CASE Resume
    BY <1>5, ResumeStep
<1>6. CASE EndPass
    <2>1. loop.pass \in {"val", "dump", "ggr", "set"}
        BY <1>6, TypesSplit DEF EndPass, LoopInHand, LoopType
    <2>2. After[loop.pass] \in {"top", "dump", "ggr", "aim"}
        BY <2>1 DEF After
    <2>3. /\ loop' \in LoopType /\ loop'.cur = loop.cur /\ loop'.pass = "none"
          /\ loop'.pc \in {"top", "dump", "ggr", "aim"}
        BY <1>6, <2>2, TypesSplit DEF EndPass, LoopType
    <2>4. LoopInHand'
        BY <1>6, <2>3 DEF EndPass, LoopInHand
    <2> QED BY <1>6, <2>3, <2>4, TypesSplit, TypesJoin DEF EndPass
<1> QED BY <1>1, <1>2, <1>3, <1>4, <1>5, <1>6 DEF PatchThread

LEMMA InvNext == Inv /\ [Next]_vars => Inv'
<1> SUFFICES ASSUME Inv, [Next]_vars PROVE Inv'
    OBVIOUS
<1>1. CASE UNCHANGED vars
    BY <1>1 DEF vars, loopVars, clientVars, bounds, Inv, TypeOK, LoopInHand
<1>2. CASE PatchThread
    BY <1>2, PatchThreadStep
<1>3. CASE \E c \in Clients :
             \/ ThreadStart(c) \/ ThreadExit(c) \/ Allocate(c) \/ Release(c)
             \/ Reach(c) \/ Pass(c) \/ Trap(c) \/ Fault(c) \/ VehHandler(c)
    BY <1>3, ClientStep
<1> QED BY <1>1, <1>2, <1>3 DEF Next

\* PatchThread's loop and the client's threads keep the types of what they share.
THEOREM BreakpointTypes == Spec => []TypeOK
<1>1. Inv => TypeOK
    BY DEF Inv
<1> QED BY InvInit, InvNext, <1>1, PTL DEF Spec
=============================================================================
