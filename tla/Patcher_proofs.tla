-------------------------- MODULE Patcher_proofs --------------------------
(***************************************************************************)
(* Proofs about Patcher, for any functions to hook, any functions that end *)
(* the process, any threads and any number of events.                      *)
(***************************************************************************)
EXTENDS Patcher, TLAPS, FiniteSetTheorems, SequenceTheorems

-----------------------------------------------------------------------------
(* Constants *)

LEMMA LoopSets ==
    /\ Modes = {"stub", "launcher", "payload", "wrapper"}
    /\ ToSet(Loop["stub"]) = {"game", "net", "cmdline", "audit", "bugtrap", "wait"}
    /\ ToSet(Loop["launcher"]) = {"launcher", "net", "audit"}
    /\ ToSet(Loop["payload"]) = {"net", "audit"}
    /\ ToSet(Loop["wrapper"]) = {}
    /\ Groups = {"create", "launcher", "game", "net", "cmdline", "audit", "bugtrap", "wait"}
    /\ \A m \in Modes : ToSet(Loop[m]) \subseteq Groups \ {"create"}
<1>1. Modes = {"stub", "launcher", "payload", "wrapper"}
    BY DEF Modes, Loop
<1>2. ToSet(Loop["stub"]) = {"game", "net", "cmdline", "audit", "bugtrap", "wait"}
    BY DEF Loop, ToSet
<1>3. ToSet(Loop["launcher"]) = {"launcher", "net", "audit"}
    BY DEF Loop, ToSet
<1>4. ToSet(Loop["payload"]) = {"net", "audit"}
    BY DEF Loop, ToSet
<1>5. ToSet(Loop["wrapper"]) = {}
    BY DEF Loop, ToSet
<1> QED BY <1>1, <1>2, <1>3, <1>4, <1>5 DEF Groups

LEMMA ArmorSteps ==
    /\ Armor[1] = "scylla"
    /\ ToSet(Armor) = {"scylla", "boxes", "args", "kill", "veh"}
    /\ After("scylla") = "boxes" /\ After("boxes") = "args" /\ After("args") = "kill"
    /\ After("kill") = "veh" /\ After("veh") = "threads"
<1>1. ToSet(Armor) = {"scylla", "boxes", "args", "kill", "veh"}
    BY DEF Armor, ToSet
<1>2. After("scylla") = "boxes"
    <2>1. (CHOOSE i \in DOMAIN Armor : Armor[i] = "scylla") = 1
        BY DEF Armor
    <2> QED BY <2>1 DEF After, Armor
<1>3. After("boxes") = "args"
    <2>1. (CHOOSE i \in DOMAIN Armor : Armor[i] = "boxes") = 2
        BY DEF Armor
    <2> QED BY <2>1 DEF After, Armor
<1>4. After("args") = "kill"
    <2>1. (CHOOSE i \in DOMAIN Armor : Armor[i] = "args") = 3
        BY DEF Armor
    <2> QED BY <2>1 DEF After, Armor
<1>5. After("kill") = "veh"
    <2>1. (CHOOSE i \in DOMAIN Armor : Armor[i] = "kill") = 4
        BY DEF Armor
    <2> QED BY <2>1 DEF After, Armor
<1>6. After("veh") = "threads"
    <2>1. (CHOOSE i \in DOMAIN Armor : Armor[i] = "veh") = 5
        BY DEF Armor
    <2> QED BY <2>1 DEF After, Armor
<1> QED BY <1>1, <1>2, <1>3, <1>4, <1>5, <1>6 DEF Armor

\* From a group of the loop, PatchThread goes on to a group of the loop.
LEMMA NextGroupInLoop ==
    ASSUME NEW m \in Modes, NEW g \in ToSet(Loop[m]), mode = m
    PROVE  NextGroup(g) \in ToSet(Loop[m])
<1> DEFINE order == Loop[m]
           i == CHOOSE i \in DOMAIN order : order[i] = g
<1>1. i \in DOMAIN order
    BY DEF ToSet
<1>2. DOMAIN order = 1 .. Len(order) /\ Len(order) \in Nat
    <2>1. \/ order = Loop["stub"] \/ order = Loop["launcher"]
          \/ order = Loop["payload"] \/ order = Loop["wrapper"]
        BY LoopSets
    <2> HIDE DEF order
    <2>2. CASE order = Loop["stub"]
        BY <2>2 DEF Loop
    <2>3. CASE order = Loop["launcher"]
        BY <2>3 DEF Loop
    <2>4. CASE order = Loop["payload"]
        BY <2>4 DEF Loop
    <2>5. CASE order = Loop["wrapper"]
        BY <2>5 DEF Loop
    <2> QED BY <2>1, <2>2, <2>3, <2>4, <2>5
<1>3. i % Len(order) \in 0 .. Len(order) - 1
    BY <1>1, <1>2
<1>4. (i % Len(order)) + 1 \in DOMAIN order
    BY <1>2, <1>3
<1>5. NextGroup(g) = order[(i % Len(order)) + 1]
    BY DEF NextGroup
<1> QED BY <1>4, <1>5 DEF ToSet

LEMMA FirstGroup ==
    ASSUME NEW m \in Modes \ {"wrapper"} PROVE Head(Loop[m]) \in ToSet(Loop[m])
    BY LoopSets DEF Loop

LEMMA HookTypes ==
    ASSUME NEW g \in Groups
    PROVE  /\ Hooks[g] \in Seq(Functions) /\ ToSet(Hooks[g]) \subseteq Functions
           /\ IsFiniteSet(ToSet(Hooks[g]))
<1>1. Hooks[g] \in Seq(Functions)
    BY PatcherAssumption
<1>2. Hooks[g] \in Surjection(1 .. Len(Hooks[g]), ToSet(Hooks[g]))
    BY <1>1 DEF ToSet, Surjection
<1>3. IsFiniteSet(1 .. Len(Hooks[g]))
    BY <1>1, FS_Interval
<1> QED BY <1>1, <1>2, <1>3, FS_Surjection DEF ToSet

LEMMA HappensType ==
    ASSUME events \in 0 .. MaxEvents, NEW n \in Nat, Happens(n)
    PROVE  events' \in 0 .. MaxEvents
    BY PatcherAssumption DEF Happens

LEMMA KillApiCount == ASSUME NEW F \in SUBSET KillApis PROVE Cardinality(F) \in Nat
    BY PatcherAssumption, FS_Subset, FS_CardinalityType

-----------------------------------------------------------------------------
(* The steps that are not calls *)

\* Where PatchThread can be in each mode, and that it is at a function only in
\* its loop.
Stages ==
    /\ mode \in Modes
    /\ pc \in {"attach", "idle"} \cup ToSet(Loop[mode])
              \cup (IF mode = "wrapper" THEN {} ELSE {"threads", "create"})
              \cup (IF mode = "stub" THEN ToSet(Armor) \cup {"body"} ELSE {})
    /\ next \in Nat /\ (next # 0 => pc \in ToSet(Loop[mode]))

LEMMA StagesInit == Init => Stages
    BY LoopSets DEF Init, Stages

CallStep ==
    \E t \in Threads : Call(t) \/ CallUnhooked(t) \/ Detour(t) \/ Original(t)
StopStep == \E t \in Threads : Terminate(t) \/ DumpThreadEips(t)
DialogStep == DialogKiller \/ \E i \in DOMAIN Windows : Open(i) \/ Close(i) \/ Hang(i)

\* A thread that stops leaves everything else as it is.
LEMMA StopFacts ==
    StopStep => /\ Happens(1)
                /\ UNCHANGED << mode, pc, next, armor, stubbed, iat, loaded, status, done, failed,
                                ended, stack, inHook, told, windows, killed >>
    BY DEF StopStep, Terminate, DumpThreadEips, notStopping, armorVars, hookVars, dialogVars

LEMMA StartFacts ==
    StartThreads =>
        /\ failed \subseteq failed' /\ (\E n \in Nat : Happens(n))
        /\ pc = "threads" /\ pc' \in {"idle", "create"}
        /\ UNCHANGED << mode, next, armorVars, hookVars, ended, callVars, dialogVars >>
<1> SUFFICES ASSUME StartThreads
             PROVE  /\ failed \subseteq failed' /\ (\E n \in Nat : Happens(n))
                    /\ pc = "threads" /\ pc' \in {"idle", "create"}
                    /\ UNCHANGED << mode, next, armorVars, hookVars, ended, callVars, dialogVars >>
    OBVIOUS
<1>1. PICK F \in SUBSET {"loop", "killer"} :
         /\ Happens(Cardinality(F)) /\ failed' = failed \cup F
         /\ pc' = IF "loop" \in F THEN "idle" ELSE "create"
    <2>1. \E F \in SUBSET (IF Observer THEN {"loop"} ELSE {"loop", "killer"}) :
              /\ Happens(Cardinality(F)) /\ failed' = failed \cup F
              /\ pc' = IF "loop" \in F THEN "idle" ELSE "create"
        BY DEF StartThreads
    <2>2. CASE Observer
        BY <2>1, <2>2
    <2>3. CASE ~Observer
        BY <2>1, <2>3
    <2> QED BY <2>2, <2>3
<1>2. IsFiniteSet({"loop", "killer"})
    <2>1. IsFiniteSet({"loop"}) /\ IsFiniteSet({"killer"})
        BY FS_Singleton
    <2>2. {"loop", "killer"} = {"loop"} \cup {"killer"}
        OBVIOUS
    <2> QED BY <2>1, <2>2, FS_Union
<1>3. Cardinality(F) \in Nat
    BY <1>2, FS_Subset, FS_CardinalityType
<1> QED BY <1>1, <1>3 DEF StartThreads

LEMMA StagesNext == Stages /\ [Next]_vars => Stages'
<1> SUFFICES ASSUME Stages, [Next]_vars PROVE Stages'
    OBVIOUS
<1> USE LoopSets, ArmorSteps DEF Stages, Runs
<1>1. CASE UNCHANGED << mode, pc, next >>
    BY <1>1
<1>2. CASE Attach
    BY <1>2 DEF Attach, Observer
<1>3. CASE SetUp
    BY <1>3 DEF SetUp, hookVars
<1>4. CASE StartThreads
    BY <1>4, StartFacts
<1>5. CASE InitCreateProcessHooks
    <2>1. pc = "create" /\ mode # "wrapper" /\ UNCHANGED << mode, next >> /\ next = 0
        BY <1>5 DEF InitCreateProcessHooks, notHooking
    <2>2. pc' = IF mode = "stub" THEN "body" ELSE Head(Loop[mode])
        BY <1>5 DEF InitCreateProcessHooks
    <2> QED BY <2>1, <2>2, FirstGroup
<1>6. CASE Body
    <2>1. pc = "body" /\ mode = "stub" /\ UNCHANGED << mode, next >> /\ next = 0
        BY <1>6 DEF Body
    <2>2. pc' \in {"idle", Head(Loop[mode])}
        BY <1>6 DEF Body
    <2> QED BY <2>1, <2>2, FirstGroup
<1>7. CASE Skip \/ EndGroup
    <2>1. /\ pc \in ToSet(Loop[mode]) /\ UNCHANGED mode
          /\ pc' = NextGroup(pc) /\ next' = 0
        BY <1>7 DEF Skip, EndGroup, InLoop, notHooking
    <2> QED BY <2>1, NextGroupInLoop
<1>8. CASE HookFunction \/ Enter
    <2>1. pc \in ToSet(Loop[mode]) /\ UNCHANGED << mode, pc >> /\ next' \in {1, next + 1}
        BY <1>8 DEF HookFunction, Enter, InLoop, notHooking
    <2> QED BY <2>1
<1>9. CASE LoadModule \/ Exit \/ DialogStep \/ CallStep
    BY <1>9, <1>1 DEF LoadModule, Exit, DialogStep, DialogKiller, Open, Close, Hang, notDialogs,
       CallStep, Call, CallUnhooked, Detour, EnterHook, Log, LeaveHook, Original, notCalling
<1>10. CASE StopStep
    BY <1>1, <1>10, StopFacts
<1> QED BY <1>1, <1>2, <1>3, <1>4, <1>5, <1>6, <1>7, <1>8, <1>9, <1>10
       DEF Next, Install, vars, DialogStep, CallStep, StopStep

-----------------------------------------------------------------------------
(* Types *)

FrameType == [fn : Callable, at : {"before", "original", "behind"}, log : {"no", "log", "waited"}]
DialogStates == {"none", "open", "asked", "hung", "closed"}

ArmorTypes ==
    /\ armor \subseteq ToSet(Armor) /\ stubbed \subseteq KillApis
    /\ iat \in BOOLEAN /\ loaded \subseteq Modules /\ done \subseteq Groups
    /\ status \in [Functions -> {"none", "created", "enabled"}]
    /\ ended \in KillApis \cup {"no"} /\ events \in 0 .. MaxEvents
DialogTypes == windows \in [DOMAIN Windows -> DialogStates] /\ killed \in 0 .. MaxKills + 1
CallTypes ==
    /\ stack \in [Threads -> Seq(FrameType)]
    /\ inHook \in BOOLEAN /\ told \in {"nothing", "exists", "misled"}

StopTypes == stopped \subseteq Threads

LEMMA TypesJoin ==
    Stages /\ ArmorTypes /\ DialogTypes /\ CallTypes /\ StopTypes => TypeOK
    BY LoopSets, ArmorSteps
    DEF TypeOK, Stages, ArmorTypes, DialogTypes, CallTypes, StopTypes, FrameType, DialogStates

LEMMA StopTypesNext == StopTypes /\ [Next]_vars => StopTypes'
<1> SUFFICES ASSUME StopTypes, [Next]_vars PROVE StopTypes'
    OBVIOUS
<1> USE DEF callVars, notHooking, notDialogs, notCalling
<1>1. CASE UNCHANGED stopped
    BY <1>1 DEF StopTypes
<1>2. CASE StopStep
    BY <1>2 DEF StopStep, Terminate, DumpThreadEips, StopTypes, Threads
<1>3. CASE Attach \/ SetUp \/ StartThreads \/ Install \/ Enter \/ LoadModule \/ Exit
    BY <1>1, <1>3 DEF Attach, SetUp, StartThreads, Install, InitCreateProcessHooks, Body, Skip,
       HookFunction, EndGroup, Enter, LoadModule, Exit
<1>4. CASE DialogStep
    BY <1>1, <1>4 DEF DialogStep, DialogKiller, Open, Close, Hang
<1>5. CASE CallStep
    BY <1>1, <1>5 DEF CallStep, Call, CallUnhooked, Detour, EnterHook, Log, LeaveHook, Original
<1> QED BY <1>1, <1>2, <1>3, <1>4, <1>5 DEF Next, vars, DialogStep, CallStep, StopStep

LEMMA ArmorTypesInit == Init => ArmorTypes /\ DialogTypes
<1> SUFFICES ASSUME Init PROVE ArmorTypes /\ DialogTypes
    OBVIOUS
<1>1. "kernel32" \in Modules
    BY LoopSets DEF Modules, Module
<1>2. ArmorTypes
    <2>1. 0 \in 0 .. MaxEvents
        BY PatcherAssumption
    <2> QED BY <1>1, <2>1 DEF Init, ArmorTypes
<1>3. DialogTypes
    BY PatcherAssumption DEF Init, DialogTypes, DialogStates
<1> QED BY <1>2, <1>3

LEMMA StubTypes ==
    ASSUME ArmorTypes, Stub
    PROVE  stubbed' \subseteq KillApis /\ events' \in 0 .. MaxEvents
<1> PICK F \in SUBSET (KillApis \ stubbed) : Happens(Cardinality(F)) /\ stubbed' = KillApis \ F
    BY DEF Stub
<1> QED BY KillApiCount, HappensType DEF ArmorTypes

\* What InitCreateProcessHooks does to the hooks of the process: those of other
\* groups stay as they are, and one that is not enabled has failed.
LEMMA CreateStep ==
    ASSUME ArmorTypes, InitCreateProcessHooks
    PROVE  /\ status' \in [Functions -> {"none", "created", "enabled"}]
           /\ events' \in 0 .. MaxEvents /\ failed \subseteq failed'
           /\ \A f \in Functions \ Creates : status'[f] = status[f]
           /\ \A f \in Functions : status'[f] # status[f] /\ status'[f] # "enabled" => f \in failed'
<1> DEFINE fs == Hooks["create"]
<1>0. /\ fs \in Seq(Functions) /\ ToSet(fs) \subseteq Functions /\ IsFiniteSet(ToSet(fs))
      /\ 1 \in Nat
    BY HookTypes, LoopSets
<1>1. CASE Happens(1) /\ failed' = failed \cup {"mh"} /\ UNCHANGED status
    BY <1>0, <1>1, HappensType DEF ArmorTypes
<1>2. ASSUME NEW made \in SUBSET ToSet(fs), NEW n \in 0 .. Len(fs),
             LET on == made \cap {fs[i] : i \in 1 .. n} IN
                /\ Happens(Cardinality(ToSet(fs) \ on))
                /\ failed' = failed \cup (ToSet(fs) \ on)
                /\ status' = [f \in Functions |->
                                 IF f \in on THEN "enabled"
                                 ELSE IF f \in made THEN "created" ELSE status[f]]
      PROVE  /\ status' \in [Functions -> {"none", "created", "enabled"}]
             /\ events' \in 0 .. MaxEvents /\ failed \subseteq failed'
             /\ \A f \in Functions \ Creates : status'[f] = status[f]
             /\ \A f \in Functions : status'[f] # status[f] /\ status'[f] # "enabled" => f \in failed'
    <2> DEFINE on == made \cap {fs[i] : i \in 1 .. n}
    <2>1. on \subseteq made /\ made \subseteq ToSet(fs)
        OBVIOUS
    <2>2. /\ Happens(Cardinality(ToSet(fs) \ on)) /\ failed' = failed \cup (ToSet(fs) \ on)
          /\ status' = [f \in Functions |->
                           IF f \in on THEN "enabled"
                           ELSE IF f \in made THEN "created" ELSE status[f]]
        BY <1>2
    <2> HIDE DEF on, fs
    <2>3. Cardinality(ToSet(fs) \ on) \in Nat
        BY <1>0, FS_Subset, FS_CardinalityType
    <2>4. events' \in 0 .. MaxEvents
        BY <2>2, <2>3, HappensType DEF ArmorTypes
    <2>5. ToSet(fs) = Creates
        BY DEF fs, Creates
    <2>6. status' \in [Functions -> {"none", "created", "enabled"}]
        BY <2>2 DEF ArmorTypes
    <2>7. \A f \in Functions \ Creates : status'[f] = status[f]
        BY <2>1, <2>2, <2>5
    <2>8. ASSUME NEW f \in Functions, status'[f] # status[f], status'[f] # "enabled"
          PROVE  f \in failed'
        <3>1. f \in made /\ f \notin on
            BY <2>1, <2>2, <2>8
        <3> QED BY <2>1, <2>2, <3>1
    <2> QED BY <2>2, <2>4, <2>6, <2>7, <2>8
<1> QED BY <1>1, <1>2 DEF InitCreateProcessHooks

LEMMA ArmorTypesNext == Stages /\ ArmorTypes /\ [Next]_vars => ArmorTypes'
<1> SUFFICES ASSUME Stages, ArmorTypes, [Next]_vars PROVE ArmorTypes'
    OBVIOUS
<1> USE DEF armorVars, hookVars, notHooking
<1>0. 1 \in Nat /\ (Happens(1) => events' \in 0 .. MaxEvents)
    BY HappensType DEF ArmorTypes
<1>1. CASE UNCHANGED << armorVars, hookVars, ended, events >>
    BY <1>1 DEF ArmorTypes
<1>2. CASE Attach
    BY <1>2, <1>1 DEF Attach
<1>13. CASE StartThreads
    <2>1. events' \in 0 .. MaxEvents
        BY <1>13, StartFacts, HappensType DEF ArmorTypes
    <2> QED BY <1>13, <2>1, StartFacts DEF ArmorTypes
<1>14. CASE StopStep
    BY <1>0, <1>14, StopFacts DEF ArmorTypes
<1>3. CASE SetUp
    <2>1. /\ armor' \subseteq ToSet(Armor) /\ stubbed' \subseteq KillApis
          /\ events' \in 0 .. MaxEvents
        BY <1>0, <1>3, StubTypes DEF SetUp, ArmorTypes
    <2>2. "user32" \in Modules
        BY LoopSets DEF Modules, Module
    <2> QED BY <1>3, <2>1, <2>2 DEF SetUp, ArmorTypes
<1>4. CASE InitCreateProcessHooks
    BY <1>4, CreateStep DEF InitCreateProcessHooks, ArmorTypes
<1>5. CASE Body
    <2>1. stubbed' \subseteq KillApis /\ events' \in 0 .. MaxEvents
        BY <1>0, <1>5, StubTypes DEF Body, ArmorTypes
    <2>2. iat' \in BOOLEAN /\ armor' \subseteq ToSet(Armor)
        BY <1>5, ArmorSteps DEF Body, ArmorTypes
    <2> QED BY <1>5, <2>1, <2>2 DEF Body, ArmorTypes
<1>6. CASE Skip
    BY <1>0, <1>6 DEF Skip, ArmorTypes
<1>7. CASE HookFunction
    <2>1. pc \in Groups /\ next \in DOMAIN Hooks[pc]
        BY <1>7, LoopSets DEF HookFunction, InLoop, Stages
    <2>2. Hooks[pc][next] \in Functions
        BY <2>1, HookTypes
    <2>3. status' \in [Functions -> {"none", "created", "enabled"}] /\ events' \in 0 .. MaxEvents
        BY <1>0, <1>7, <2>2 DEF HookFunction, ArmorTypes
    <2> QED BY <1>7, <2>3 DEF HookFunction, ArmorTypes
<1>8. CASE EndGroup
    <2>1. pc \in Groups
        BY <1>8, LoopSets DEF EndGroup, InLoop, Stages
    <2> QED BY <1>8, <2>1 DEF EndGroup, ArmorTypes
<1>9. CASE Enter
    <2>1. pc \in Groups
        BY <1>9, LoopSets DEF Enter, InLoop, Stages
    <2>2. Module[pc] \in Modules
        BY <2>1 DEF Modules
    <2> QED BY <1>9, <2>2 DEF Enter, ArmorTypes
<1>10. CASE LoadModule \/ Exit
    BY <1>0, <1>10 DEF LoadModule, Exit, ArmorTypes
<1>11. CASE DialogStep
    BY <1>0, <1>11 DEF DialogStep, DialogKiller, Open, Close, Hang, notDialogs, ArmorTypes
<1>12. CASE CallStep
    BY <1>0, <1>12 DEF CallStep, Call, CallUnhooked, Detour, EnterHook, Log, LeaveHook, Original,
       notCalling, ArmorTypes
<1> QED BY <1>1, <1>2, <1>3, <1>4, <1>5, <1>6, <1>7, <1>8, <1>9, <1>10, <1>11, <1>12,
       <1>13, <1>14
       DEF Next, Install, vars, DialogStep, CallStep, StopStep

LEMMA DialogTypesNext == DialogTypes /\ [Next]_vars => DialogTypes'
<1> SUFFICES ASSUME DialogTypes, [Next]_vars PROVE DialogTypes'
    OBVIOUS
<1>1. CASE UNCHANGED dialogVars
    BY <1>1 DEF DialogTypes, dialogVars
<1>2. CASE DialogStep
    <2> USE PatcherAssumption DEF DialogTypes, DialogStates
    <2>1. CASE DialogKiller
        <3>1. killed \in 0 .. MaxKills /\ killed' = killed + 1
            BY <2>1 DEF DialogKiller, KillerStopped
        <3>2. windows' \in [DOMAIN Windows -> {"none", "open", "asked", "hung", "closed"}]
            BY <2>1 DEF DialogKiller
        <3> QED BY <3>1, <3>2
    <2>2. CASE \E i \in DOMAIN Windows : Open(i) \/ Close(i) \/ Hang(i)
        BY <2>2 DEF Open, Close, Hang
    <2> QED BY <1>2, <2>1, <2>2 DEF DialogStep
<1> QED BY <1>1, <1>2 DEF Next, Install, vars, DialogStep, Attach, SetUp, StartThreads,
       InitCreateProcessHooks, Body, Skip, HookFunction, EndGroup, Enter, notHooking, LoadModule, Exit,
       Call, CallUnhooked, Detour, EnterHook, Log, LeaveHook, Original, notCalling,
       Terminate, DumpThreadEips, notStopping

-----------------------------------------------------------------------------
(* What is installed in which mode *)

\* The groups that observers hook have no function that alters anything.
LEMMA ObserversAlterNothing ==
    ASSUME NEW g \in {"create", "launcher", "net", "audit"}, NEW f \in ToSet(Hooks[g])
    PROVE  f \notin Altered
<1>1. ASSUME NEW h \in {"game", "cmdline", "bugtrap"}, f \in ToSet(Hooks[h])
      PROVE  h = "game" /\ g = "launcher"
    <2>1. g \in Groups /\ h \in Groups /\ g # h
        BY LoopSets
    <2>2. f \in ToSet(Hooks[g]) \cap ToSet(Hooks[h])
        BY <1>1
    <2>3. {g, h} = {"game", "launcher"}
        BY <2>1, <2>2, PatcherAssumption
    <2> QED BY <2>3
<1> QED BY <1>1 DEF Altered

LEMMA ObserversInit == Init => ObserversUntouched
<1>1. Altered \subseteq Functions
    BY LoopSets, HookTypes DEF Altered
<1> QED BY <1>1 DEF Init, ObserversUntouched

LEMMA ObserversNext ==
    Stages /\ ArmorTypes /\ ObserversUntouched /\ [Next]_vars => ObserversUntouched'
<1> SUFFICES ASSUME Stages, ArmorTypes, ObserversUntouched, [Next]_vars, mode' # "stub"
             PROVE  ObserversUntouched'
    BY DEF ObserversUntouched
<1> USE DEF armorVars, hookVars, notHooking, dialogVars
<1>1. CASE UNCHANGED << mode, armorVars, status, killed >>
    BY <1>1 DEF ObserversUntouched, Altered
<1>2. CASE Attach \/ StartThreads \/ Skip \/ EndGroup \/ Enter
    BY <1>2, <1>1 DEF Attach, StartThreads, Skip, EndGroup, Enter
<1>3. CASE SetUp \/ Body
    <2>1. mode = "stub"
        BY <1>3, LoopSets, ArmorSteps DEF SetUp, Body, Stages
    <2> QED BY <1>3, <2>1 DEF SetUp, Body
<1>4. CASE InitCreateProcessHooks
    <2>1. mode # "stub" /\ UNCHANGED << mode, armor, stubbed, killed >>
        BY <1>4 DEF InitCreateProcessHooks
    <2>2. \A f \in Altered : f \in Functions /\ f \notin Creates
        BY LoopSets, HookTypes, ObserversAlterNothing DEF Altered, Creates
    <2>3. \A f \in Altered : status'[f] = status[f]
        BY <1>4, <2>2, CreateStep
    <2> QED BY <2>1, <2>3 DEF ObserversUntouched, Altered
<1>5. CASE HookFunction
    <2>1. mode # "stub" /\ UNCHANGED << mode, armor, stubbed, killed >>
        BY <1>5 DEF HookFunction
    <2>2. pc \in {"launcher", "net", "audit"} /\ next \in DOMAIN Hooks[pc]
        BY <1>5, <2>1, LoopSets DEF HookFunction, InLoop, Stages
    <2>3. Hooks[pc][next] \notin Altered
        BY <2>2, ObserversAlterNothing DEF ToSet
    <2>4. \A f \in Altered : f \in Functions
        BY LoopSets, HookTypes DEF Altered
    <2>5. \A f \in Altered : status'[f] = status[f]
        BY <1>5, <2>3, <2>4 DEF HookFunction, ArmorTypes
    <2> QED BY <2>1, <2>5 DEF ObserversUntouched, Altered
<1>6. CASE LoadModule \/ Exit
    BY <1>6, <1>1 DEF LoadModule, Exit
<1>7. CASE DialogStep
    <2>1. CASE DialogKiller
        BY <2>1 DEF DialogKiller, notDialogs
    <2>2. CASE \E i \in DOMAIN Windows : Open(i) \/ Close(i) \/ Hang(i)
        BY <2>2, <1>1 DEF Open, Close, Hang, notDialogs
    <2> QED BY <1>7, <2>1, <2>2 DEF DialogStep
<1>8. CASE CallStep
    BY <1>8, <1>1 DEF CallStep, Call, CallUnhooked, Detour, EnterHook, Log, LeaveHook, Original, notCalling
<1>9. CASE StopStep
    BY <1>1, <1>9, StopFacts
<1> QED BY <1>1, <1>2, <1>3, <1>4, <1>5, <1>6, <1>7, <1>8, <1>9
       DEF Next, Install, vars, DialogStep, CallStep, StopStep

\* PatchThread reaches its loop with the exception handler installed.
LEMMA HandlerInit == Init => LoopNeedsHandler
    BY LoopSets DEF Init, LoopNeedsHandler

LEMMA HandlerNext == Stages /\ LoopNeedsHandler /\ [Next]_vars => LoopNeedsHandler'
<1> SUFFICES ASSUME Stages, LoopNeedsHandler, [Next]_vars, mode' = "stub", pc' \in ToSet(Loop["stub"])
             PROVE  "veh" \in armor'
    BY DEF LoopNeedsHandler
<1> USE LoopSets, ArmorSteps DEF armorVars, notHooking, LoopNeedsHandler
<1>1. CASE UNCHANGED << mode, pc, armor >>
    BY <1>1
<1>2. CASE Attach \/ StartThreads
    BY <1>2, StartFacts DEF Attach, Observer
<1>3. CASE SetUp
    BY <1>3 DEF SetUp
<1>4. CASE InitCreateProcessHooks
    BY <1>4 DEF InitCreateProcessHooks
<1>5. CASE Body
    BY <1>5 DEF Body
<1>6. CASE Skip \/ HookFunction \/ EndGroup \/ Enter
    BY <1>6 DEF Skip, HookFunction, EndGroup, Enter, InLoop
<1>7. CASE LoadModule \/ Exit \/ DialogStep \/ CallStep
    BY <1>7, <1>1 DEF LoadModule, Exit, DialogStep, DialogKiller, Open, Close, Hang, notDialogs,
       CallStep, Call, CallUnhooked, Detour, EnterHook, Log, LeaveHook, Original, notCalling
<1>8. CASE StopStep
    BY <1>1, <1>8, StopFacts
<1> QED BY <1>1, <1>2, <1>3, <1>4, <1>5, <1>6, <1>7, <1>8
       DEF Next, Install, vars, DialogStep, CallStep, StopStep

\* Once DllMain has come to the KillApis, each is a stub or has failed.
StubsOrFailures ==
    mode = "stub" /\ pc \notin {"attach", "scylla", "boxes", "args", "kill"} =>
        KillApis \ stubbed \subseteq failed

LEMMA StubStep == ASSUME Stub PROVE KillApis \ stubbed' \subseteq failed' /\ failed \subseteq failed'
    BY DEF Stub

LEMMA ExitsInit == Init => StubsOrFailures /\ ExitsIgnored
    BY DEF Init, StubsOrFailures, ExitsIgnored

LEMMA ExitsNext ==
    /\ Stages /\ ArmorTypes /\ StubsOrFailures /\ ExitsIgnored /\ [Next]_vars
    => (StubsOrFailures /\ ExitsIgnored)'
<1> SUFFICES ASSUME Stages, ArmorTypes, StubsOrFailures, ExitsIgnored, [Next]_vars
             PROVE  StubsOrFailures' /\ ExitsIgnored'
    OBVIOUS
<1> USE LoopSets, ArmorSteps DEF armorVars, notHooking, StubsOrFailures, ExitsIgnored
<1>1. CASE UNCHANGED << mode, pc, stubbed, ended >> /\ failed \subseteq failed'
    BY <1>1
<1>2. CASE Attach \/ StartThreads
    BY <1>2, StartFacts DEF Attach, Observer
<1>3. CASE SetUp
    <2>1. UNCHANGED << mode, ended >> /\ pc' = After(pc) /\ pc \in ToSet(Armor) /\ failed \subseteq failed'
        BY <1>3, StubStep DEF SetUp
    <2>2. CASE pc = "kill"
        BY <1>3, <2>1, <2>2, StubStep DEF SetUp
    <2>3. CASE pc # "kill"
        BY <1>3, <2>1, <2>3 DEF SetUp
    <2> QED BY <2>2, <2>3
<1>4. CASE InitCreateProcessHooks
    <2>1. pc = "create" /\ failed \subseteq failed' /\ UNCHANGED << mode, stubbed, ended >>
        BY <1>4, CreateStep DEF InitCreateProcessHooks
    <2> QED BY <2>1
<1>5. CASE Body
    <2>1. pc = "body" /\ failed \subseteq failed' /\ UNCHANGED << mode, ended >>
        BY <1>5, StubStep DEF Body
    <2>2. KillApis \ stubbed' \subseteq failed' \/ UNCHANGED << stubbed, failed >>
        BY <1>5, StubStep DEF Body
    <2> QED BY <2>1, <2>2
<1>6. CASE Skip \/ HookFunction \/ EndGroup \/ Enter
    <2>1. pc \in ToSet(Loop[mode]) /\ failed \subseteq failed' /\ UNCHANGED << mode, stubbed, ended >>
        BY <1>6 DEF Skip, HookFunction, EndGroup, Enter, InLoop
    <2>2. pc \in Groups \ {"create"}
        BY <2>1 DEF Stages
    <2> QED BY <2>1, <2>2
<1>7. CASE Exit
    BY <1>7 DEF Exit, Attached
<1>8. CASE LoadModule \/ DialogStep \/ CallStep
    BY <1>8, <1>1 DEF LoadModule, DialogStep, DialogKiller, Open, Close, Hang, notDialogs,
       CallStep, Call, CallUnhooked, Detour, EnterHook, Log, LeaveHook, Original, notCalling
<1>9. CASE StopStep
    BY <1>1, <1>9, StopFacts
<1> QED BY <1>1, <1>2, <1>3, <1>4, <1>5, <1>6, <1>7, <1>8, <1>9
       DEF Next, Install, vars, DialogStep, CallStep, StopStep

-----------------------------------------------------------------------------
(* The flag of EnterHook *)

\* A frame that logs under the flag.
Under(frame) == frame.log # "no" /\ Guarded(frame.fn)

\* Only a wait is called from a log, and the original only when no log is written.
Shape ==
    \A t \in Threads : \A i \in DOMAIN stack[t] :
        /\ i >= 2 => stack[t][i].fn \in Waits
        /\ stack[t][i].at = "original" => stack[t][i].log = "no"

\* The flag belongs to the one frame that logs under it.
OneOwner ==
    /\ ~inHook => \A t \in Threads : \A i \in DOMAIN stack[t] : ~Under(stack[t][i])
    /\ inHook =>
        \E t \in Threads : \E i \in DOMAIN stack[t] :
            /\ Under(stack[t][i])
            /\ \A u \in Threads : \A j \in DOMAIN stack[u] :
                  Under(stack[u][j]) => u = t /\ j = i

FlagInv == CallTypes /\ Shape /\ OneOwner

LEMMA FlagInit == Init => FlagInv
<1>1. << >> \in Seq(FrameType) /\ DOMAIN << >> = {}
    BY EmptySeq
<1> QED BY <1>1 DEF Init, FlagInv, CallTypes, Shape, OneOwner

LEMMA FrontFacts ==
    ASSUME NEW s \in Seq(FrameType), s # << >>
    PROVE  /\ Len(s) \in Nat \ {0} /\ DOMAIN s = 1 .. Len(s) /\ Last(s) = s[Len(s)]
           /\ s[Len(s)] \in FrameType
           /\ Front(s) \in Seq(FrameType) /\ Len(Front(s)) = Len(s) - 1
           /\ DOMAIN Front(s) = 1 .. Len(s) - 1
           /\ \A i \in 1 .. Len(s) - 1 : Front(s)[i] = s[i]
<1>1. Len(s) \in Nat \ {0} /\ DOMAIN s = 1 .. Len(s) /\ \A i \in 1 .. Len(s) : s[i] \in FrameType
    BY EmptySeq, LenProperties, ElementOfSeq
<1>2. 1 \in Int /\ Len(s) - 1 \in Int /\ \A i \in 1 .. Len(s) - 1 : s[i] \in FrameType
    BY <1>1
<1> HIDE DEF FrameType
<1>3. /\ SubSeq(s, 1, Len(s) - 1) \in Seq(FrameType)
      /\ Len(SubSeq(s, 1, Len(s) - 1)) = Len(s) - 1
      /\ \A i \in 1 .. Len(s) - 1 : SubSeq(s, 1, Len(s) - 1)[i] = s[i]
    BY <1>1, <1>2, SubSeqProperties
<1> QED BY <1>1, <1>3, LenProperties DEF Front, Last

LEMMA BecomeFacts ==
    ASSUME NEW s \in Seq(FrameType), s # << >>, NEW g \in FrameType
    PROVE  LET r == Append(Front(s), g) IN
           /\ r \in Seq(FrameType) /\ Len(r) = Len(s) /\ DOMAIN r = DOMAIN s
           /\ r[Len(s)] = g /\ \A i \in 1 .. Len(s) - 1 : r[i] = s[i]
    BY FrontFacts

LEMMA FrameFacts ==
    ASSUME NEW f \in Callable
    PROVE  Frame(f) \in FrameType /\ Frame(f).fn = f /\ Frame(f).log = "no"
    BY DEF Frame, FrameType

\* Waits are guarded.
LEMMA WaitsGuarded == \A f \in Waits : Guarded(f) /\ f \in Functions
<1>1. Waits \subseteq Functions
    BY LoopSets, HookTypes DEF Waits
<1>2. Waits \cap Creates = {} /\ Waits \cap ToSet(Hooks["cmdline"]) = {}
    <2>1. \A g \in {"create", "cmdline"} : ToSet(Hooks["wait"]) \cap ToSet(Hooks[g]) = {}
        <3> TAKE g \in {"create", "cmdline"}
        <3>1. g \in Groups /\ "wait" \in Groups /\ g # "wait" /\ {"wait", g} # {"game", "launcher"}
            BY LoopSets
        <3> QED BY <3>1, PatcherAssumption
    <2> QED BY <2>1 DEF Waits, Creates
<1>3. "Log" \notin Functions /\ "ExitProcess" \notin Functions
    BY PatcherAssumption
<1> QED BY <1>1, <1>2, <1>3 DEF Guarded

\* What the steps of a function change of its frame.
LEMMA FrameChange ==
    ASSUME NEW fr \in FrameType
    PROVE  /\ LET g == [fr EXCEPT !.at = "original", !.log = "no"]
              IN  g \in FrameType /\ g.fn = fr.fn /\ g.log = "no"
           /\ LET g == [fr EXCEPT !.at = "behind"]
              IN  g \in FrameType /\ g.fn = fr.fn /\ g.log = fr.log /\ g.at = "behind"
           /\ \A l \in {"log", "waited"} :
                 LET g == [fr EXCEPT !.log = l]
                 IN  g \in FrameType /\ g.fn = fr.fn /\ g.log = l /\ g.at = fr.at
<1>1. LET g == [fr EXCEPT !.at = "original", !.log = "no"]
      IN  g \in FrameType /\ g.fn = fr.fn /\ g.log = "no"
    BY DEF FrameType
<1>2. LET g == [fr EXCEPT !.at = "behind"]
      IN  g \in FrameType /\ g.fn = fr.fn /\ g.log = fr.log /\ g.at = "behind"
    BY DEF FrameType
<1>3. ASSUME NEW l \in {"log", "waited"}
      PROVE  LET g == [fr EXCEPT !.log = l]
             IN  g \in FrameType /\ g.fn = fr.fn /\ g.log = l /\ g.at = fr.at
    BY DEF FrameType
<1> QED BY <1>1, <1>2, <1>3

\* The innermost frame of t changes to g.
LEMMA BecomeStep ==
    ASSUME FlagInv, NEW t \in Threads, stack[t] # << >>, NEW g \in FrameType,
           g.fn = Top(t).fn, g.at = "original" => g.log = "no",
           stack' = [stack EXCEPT ![t] = Append(Front(@), g)],
           inHook' \in BOOLEAN, told' \in {"nothing", "exists", "misled"},
           \/ inHook' = inHook /\ (Under(g) <=> Under(Top(t)))
           \/ ~inHook /\ inHook' /\ Under(g)
           \/ Under(Top(t)) /\ ~inHook' /\ ~Under(g)
    PROVE  FlagInv'
<1> DEFINE s == stack[t]
           r == Append(Front(s), g)
<1>1. s \in Seq(FrameType) /\ s # << >>
    BY DEF FlagInv, CallTypes
<1>2. /\ r \in Seq(FrameType) /\ Len(r) = Len(s) /\ DOMAIN r = DOMAIN s
      /\ r[Len(s)] = g /\ \A i \in 1 .. Len(s) - 1 : r[i] = s[i]
    BY <1>1, BecomeFacts
<1>3. Len(s) \in Nat \ {0} /\ DOMAIN s = 1 .. Len(s) /\ Top(t) = s[Len(s)]
    BY <1>1, FrontFacts DEF Top
<1>4. /\ stack' \in [Threads -> Seq(FrameType)]
      /\ stack'[t] = r /\ \A u \in Threads \ {t} : stack'[u] = stack[u]
    BY <1>2 DEF FlagInv, CallTypes
<1> HIDE DEF r
<1>5. \A u \in Threads : \A i \in DOMAIN stack'[u] :
         /\ i \in DOMAIN stack[u]
         /\ IF u = t /\ i = Len(s) THEN stack'[u][i] = g ELSE stack'[u][i] = stack[u][i]
    <2> TAKE u \in Threads
    <2>1. CASE u = t
        <3>1. \A i \in 1 .. Len(s) : i = Len(s) \/ i \in 1 .. Len(s) - 1
            BY <1>3
        <3> QED BY <1>2, <1>3, <1>4, <2>1, <3>1
    <2>2. CASE u # t
        BY <1>4, <2>2
    <2> QED BY <2>1, <2>2
<1>6. \A u \in Threads : DOMAIN stack'[u] = DOMAIN stack[u]
    BY <1>2, <1>4
<1>7. Shape'
    BY <1>3, <1>5 DEF FlagInv, Shape
<1>8. OneOwner'
    <2>1. CASE inHook' = inHook /\ (Under(g) <=> Under(Top(t)))
        <3>1. \A u \in Threads : \A i \in DOMAIN stack[u] : Under(stack'[u][i]) <=> Under(stack[u][i])
            BY <1>3, <1>5, <1>6, <2>1
        <3> QED BY <1>6, <2>1, <3>1 DEF FlagInv, OneOwner
    <2>2. CASE ~inHook /\ inHook' /\ Under(g)
        <3>1. \A u \in Threads : \A i \in DOMAIN stack'[u] : Under(stack'[u][i]) => u = t /\ i = Len(s)
            BY <1>5, <2>2 DEF FlagInv, OneOwner
        <3>2. Len(s) \in DOMAIN stack'[t] /\ stack'[t][Len(s)] = g
            <4>1. Len(s) \in DOMAIN r /\ r[Len(s)] = g
                BY <1>2, <1>3
            <4> QED BY <1>4, <4>1
        <3> QED BY <2>2, <3>1, <3>2 DEF OneOwner
    <2>3. CASE Under(Top(t)) /\ ~inHook' /\ ~Under(g)
        <3>1. Len(s) \in DOMAIN stack[t] /\ Under(stack[t][Len(s)])
            BY <1>3, <2>3
        <3>2. \A u \in Threads : \A i \in DOMAIN stack[u] : Under(stack[u][i]) => u = t /\ i = Len(s)
            BY <3>1 DEF FlagInv, OneOwner
        <3>3. \A u \in Threads : \A i \in DOMAIN stack'[u] : ~Under(stack'[u][i])
            BY <1>5, <2>3, <3>2
        <3> QED BY <2>3, <3>3 DEF OneOwner
    <2> QED BY <2>1, <2>2, <2>3
<1> QED BY <1>4, <1>7, <1>8 DEF FlagInv, CallTypes

\* The innermost function of t returns.
LEMMA ReturnStep ==
    ASSUME FlagInv, NEW t \in Threads, stack[t] # << >>,
           stack' = [stack EXCEPT ![t] = Front(@)],
           inHook' \in BOOLEAN, told' \in {"nothing", "exists", "misled"},
           \/ inHook' = inHook /\ ~Under(Top(t))
           \/ ~inHook' /\ Under(Top(t))
    PROVE  FlagInv'
<1> DEFINE s == stack[t]
           r == Front(s)
<1>1. s \in Seq(FrameType) /\ s # << >>
    BY DEF FlagInv, CallTypes
<1>2. /\ Len(s) \in Nat \ {0} /\ DOMAIN s = 1 .. Len(s) /\ Top(t) = s[Len(s)]
      /\ r \in Seq(FrameType) /\ DOMAIN r = 1 .. Len(s) - 1
      /\ \A i \in 1 .. Len(s) - 1 : r[i] = s[i]
    BY <1>1, FrontFacts DEF Top
<1>3. /\ stack' \in [Threads -> Seq(FrameType)]
      /\ stack'[t] = r /\ \A u \in Threads \ {t} : stack'[u] = stack[u]
    BY <1>2 DEF FlagInv, CallTypes
<1> HIDE DEF r
<1>4. \A u \in Threads : \A i \in DOMAIN stack'[u] :
         i \in DOMAIN stack[u] /\ stack'[u][i] = stack[u][i] /\ ~(u = t /\ i = Len(s))
    BY <1>2, <1>3
<1>5. \A u \in Threads : \A i \in DOMAIN stack[u] :
         (u = t /\ i = Len(s)) \/ i \in DOMAIN stack'[u]
    BY <1>2, <1>3
<1>6. Shape'
    BY <1>4 DEF FlagInv, Shape
<1>7. OneOwner'
    <2>1. CASE ~inHook' /\ ~inHook
        BY <1>4, <2>1 DEF FlagInv, OneOwner
    <2>2. CASE ~inHook' /\ Under(Top(t))
        <3>1. Len(s) \in DOMAIN stack[t] /\ Under(stack[t][Len(s)])
            BY <1>2, <2>2
        <3>2. \A u \in Threads : \A i \in DOMAIN stack[u] : Under(stack[u][i]) => u = t /\ i = Len(s)
            BY <3>1 DEF FlagInv, OneOwner
        <3> QED BY <1>4, <2>2, <3>2 DEF OneOwner
    <2>3. CASE inHook' /\ inHook /\ ~Under(Top(t))
        <3>0. PICK u \in Threads : \E i \in DOMAIN stack[u] :
                 /\ Under(stack[u][i])
                 /\ \A v \in Threads : \A j \in DOMAIN stack[v] : Under(stack[v][j]) => v = u /\ j = i
            BY <2>3 DEF FlagInv, OneOwner
        <3>1. PICK i \in DOMAIN stack[u] :
                 /\ Under(stack[u][i])
                 /\ \A v \in Threads : \A j \in DOMAIN stack[v] : Under(stack[v][j]) => v = u /\ j = i
            BY <3>0
        <3>2. i \in DOMAIN stack'[u]
            BY <1>2, <1>5, <2>3, <3>1
        <3>3. Under(stack'[u][i])
            BY <1>4, <3>1, <3>2
        <3> QED BY <1>4, <2>3, <3>1, <3>2, <3>3 DEF OneOwner
    <2> QED BY <2>1, <2>2, <2>3 DEF FlagInv, CallTypes
<1> QED BY <1>3, <1>6, <1>7 DEF FlagInv, CallTypes

\* t enters f, which has not logged yet: from the client, or from a log.
LEMMA EnterStep ==
    ASSUME FlagInv, NEW t \in Threads, NEW f \in Callable, NEW s \in Seq(FrameType),
           stack' = [stack EXCEPT ![t] = s \o << Frame(f) >>],
           DOMAIN s = DOMAIN stack[t],
           s # << >> => f \in Waits,
           \A i \in DOMAIN s : /\ s[i].fn = stack[t][i].fn
                               /\ s[i].at = stack[t][i].at
                               /\ s[i].log = "no" <=> stack[t][i].log = "no",
           inHook' = inHook, told' = told
    PROVE  FlagInv'
<1> DEFINE r == s \o << Frame(f) >>
<1>0. Frame(f) \in FrameType /\ Frame(f).fn = f /\ Frame(f).log = "no"
    BY FrameFacts
<1>1. /\ r \in Seq(FrameType) /\ DOMAIN r = 1 .. Len(s) + 1 /\ Len(s) \in Nat
      /\ DOMAIN s = 1 .. Len(s) /\ r[Len(s) + 1] = Frame(f)
      /\ \A i \in 1 .. Len(s) : r[i] = s[i]
    BY <1>0
<1>2. /\ stack' \in [Threads -> Seq(FrameType)]
      /\ stack'[t] = r /\ \A u \in Threads \ {t} : stack'[u] = stack[u]
    BY <1>1 DEF FlagInv, CallTypes
<1> HIDE DEF r
<1>3. \A u \in Threads : \A i \in DOMAIN stack[u] :
         /\ i \in DOMAIN stack'[u]
         /\ stack'[u][i].fn = stack[u][i].fn /\ stack'[u][i].at = stack[u][i].at
         /\ stack'[u][i].log = "no" <=> stack[u][i].log = "no"
    <2> TAKE u \in Threads
    <2>1. CASE u = t
        <3>1. \A i \in DOMAIN s : i \in DOMAIN r /\ r[i] = s[i]
            BY <1>1
        <3>2. stack'[u] = r /\ stack[u] = stack[t]
            BY <1>2, <2>1
        <3> TAKE i \in DOMAIN stack[u]
        <3>3. i \in DOMAIN s
            BY <3>2
        <3>4. i \in DOMAIN stack'[u] /\ stack'[u][i] = s[i]
            BY <3>1, <3>2, <3>3
        <3>5. /\ s[i].fn = stack[t][i].fn /\ s[i].at = stack[t][i].at
              /\ s[i].log = "no" <=> stack[t][i].log = "no"
            BY <3>3
        <3> QED BY <3>2, <3>4, <3>5
    <2>2. CASE u # t
        BY <1>2, <2>2
    <2> QED BY <2>1, <2>2
<1>4. \A u \in Threads : \A i \in DOMAIN stack'[u] :
         i \in DOMAIN stack[u] \/ (u = t /\ i = Len(s) + 1 /\ stack'[u][i] = Frame(f))
    <2> TAKE u \in Threads
    <2>1. CASE u = t
        <3>1. \A i \in DOMAIN r : i \in DOMAIN s \/ i = Len(s) + 1
            BY <1>1
        <3> QED BY <1>1, <1>2, <2>1, <3>1
    <2>2. CASE u # t
        BY <1>2, <2>2
    <2> QED BY <2>1, <2>2
<1>5. Len(s) + 1 >= 2 => f \in Waits
    BY <1>1
<1>6. Shape'
    <2> SUFFICES ASSUME NEW u \in Threads, NEW i \in DOMAIN stack'[u]
                 PROVE  /\ i >= 2 => stack'[u][i].fn \in Waits
                        /\ stack'[u][i].at = "original" => stack'[u][i].log = "no"
        BY DEF Shape
    <2>1. CASE i \in DOMAIN stack[u]
        BY <1>3, <2>1 DEF FlagInv, Shape
    <2>2. CASE u = t /\ i = Len(s) + 1 /\ stack'[u][i] = Frame(f)
        BY <1>0, <1>5, <2>2
    <2> QED BY <1>4, <2>1, <2>2
<1>7. OneOwner'
    <2>1. \A u \in Threads : \A i \in DOMAIN stack[u] : Under(stack'[u][i]) <=> Under(stack[u][i])
        BY <1>3 DEF Under
    <2>2. \A u \in Threads : \A i \in DOMAIN stack'[u] : Under(stack'[u][i]) => i \in DOMAIN stack[u]
        BY <1>0, <1>4 DEF Under
    <2> QED BY <1>3, <2>1, <2>2 DEF FlagInv, OneOwner
<1> QED BY <1>2, <1>6, <1>7 DEF FlagInv, CallTypes

LEMMA TopFacts ==
    ASSUME FlagInv, NEW t \in Threads, stack[t] # << >>
    PROVE  /\ Top(t) \in FrameType
           /\ Top(t).at = "original" => Top(t).log = "no"
<1>1. stack[t] \in Seq(FrameType)
    BY DEF FlagInv, CallTypes
<1>2. /\ Top(t) = stack[t][Len(stack[t])] /\ Top(t) \in FrameType
      /\ Len(stack[t]) \in DOMAIN stack[t]
    BY <1>1, FrontFacts DEF Top
<1> QED BY <1>2 DEF FlagInv, Shape

LEMMA CallStepFlag == ASSUME FlagInv, ArmorTypes, CallStep PROVE FlagInv'
<1> PICK t \in Threads : Call(t) \/ CallUnhooked(t) \/ Detour(t) \/ Original(t)
    BY DEF CallStep
<1>1. CASE Call(t)
    <2>1. PICK f \in IF t = PatchLoop THEN {"Log"} ELSE Callable \ {"Log"} :
             stack' = [stack EXCEPT ![t] = << Frame(f) >>]
        BY <1>1 DEF Call
    <2>2. f \in Callable
        BY <2>1 DEF Callable
    <2>3. stack[t] = << >> /\ inHook' = inHook /\ told' = told
        BY <1>1 DEF Call
    <2>4. << >> \in Seq(FrameType) /\ stack' = [stack EXCEPT ![t] = << >> \o << Frame(f) >>]
        <3>1. Frame(f) \in FrameType
            BY <2>2, FrameFacts
        <3>2. << >> \o << Frame(f) >> = << Frame(f) >>
            BY <3>1
        <3> QED BY <2>1, <3>2
    <2> QED BY <2>2, <2>3, <2>4, EnterStep
<1>2. CASE CallUnhooked(t)
    BY <1>2 DEF CallUnhooked, FlagInv, CallTypes, Shape, OneOwner
<1>3. CASE EnterHook(t) \/ LeaveHook(t) \/ Original(t)
    <2> DEFINE top == Top(t)
    <2>0. stack[t] # << >>
        BY <1>3 DEF EnterHook, LeaveHook, Original, Inside
    <2>9. top \in FrameType
        BY <2>0, TopFacts
    <2>10. top.at = "original" => top.log = "no"
        BY <2>0, TopFacts
    <2>1. inHook \in BOOLEAN /\ told \in {"nothing", "exists", "misled"}
        BY DEF FlagInv, CallTypes
    <2>2. Under(top) => inHook
        <3>1. Len(stack[t]) \in DOMAIN stack[t] /\ top = stack[t][Len(stack[t])]
            BY <2>0, FrontFacts DEF Top, FlagInv, CallTypes
        <3> QED BY <3>1 DEF FlagInv, OneOwner
    <2>3. CASE EnterHook(t) /\ Guarded(top.fn) /\ inHook /\ GoOn(t) /\ UNCHANGED inHook /\ top.log = "no"
        <3>1. CASE top.at = "before" /\ UNCHANGED told /\ Become(t, [top EXCEPT !.at = "original", !.log = "no"])
            <4> DEFINE g == [top EXCEPT !.at = "original", !.log = "no"]
            <4>1. g \in FrameType /\ g.fn = top.fn /\ g.log = "no"
                BY <2>9, FrameChange
            <4>2. stack' = [stack EXCEPT ![t] = Append(Front(@), g)]
                BY <3>1 DEF Become
            <4> HIDE DEF g
            <4> QED BY <2>0, <2>1, <2>3, <3>1, <4>1, <4>2, BecomeStep DEF Under
        <3>2. CASE Return(t)
            <4>1. told' \in {"nothing", "exists", "misled"}
                BY <2>1, <3>2 DEF Return
            <4> QED BY <2>0, <2>1, <2>3, <3>2, <4>1, ReturnStep DEF Return, Under
        <3> QED BY <2>3, <3>1, <3>2 DEF GoOn
    <2>4. CASE /\ EnterHook(t) /\ ~(Guarded(top.fn) /\ inHook) /\ UNCHANGED told
               /\ Become(t, [top EXCEPT !.log = "log"])
               /\ inHook' = (inHook \/ Guarded(top.fn))
               /\ top.log = "no" /\ top.at # "original"
        <3> DEFINE g == [top EXCEPT !.log = "log"]
        <3>1. g \in FrameType /\ g.fn = top.fn /\ g.log = "log" /\ g.at = top.at
            BY <2>9, FrameChange
        <3>2. stack' = [stack EXCEPT ![t] = Append(Front(@), g)]
            BY <2>4 DEF Become
        <3> HIDE DEF g
        <3>3. inHook' \in BOOLEAN
            BY <2>1, <2>4
        <3>4. CASE Guarded(top.fn)
            BY <2>0, <2>1, <2>4, <3>1, <3>2, <3>3, <3>4, BecomeStep DEF Under
        <3>5. CASE ~Guarded(top.fn)
            BY <2>0, <2>1, <2>4, <3>1, <3>2, <3>3, <3>5, BecomeStep DEF Under
        <3> QED BY <3>4, <3>5
    <2>5. CASE LeaveHook(t) /\ top.log # "no" /\ inHook' = (inHook /\ ~Guarded(top.fn)) /\ GoOn(t)
        <3>0. /\ inHook' \in BOOLEAN
              /\ \/ Under(top) /\ ~inHook'
                 \/ ~Under(top) /\ inHook' = inHook
            BY <2>1, <2>5 DEF Under
        <3>1. CASE top.at = "before" /\ UNCHANGED told /\ Become(t, [top EXCEPT !.at = "original", !.log = "no"])
            <4> DEFINE g == [top EXCEPT !.at = "original", !.log = "no"]
            <4>1. g \in FrameType /\ g.fn = top.fn /\ g.log = "no" /\ ~Under(g)
                BY <2>9, FrameChange DEF Under
            <4>2. stack' = [stack EXCEPT ![t] = Append(Front(@), g)]
                BY <3>1 DEF Become
            <4> HIDE DEF g
            <4> QED BY <2>0, <2>1, <3>0, <3>1, <4>1, <4>2, BecomeStep
        <3>2. CASE Return(t)
            <4>1. told' \in {"nothing", "exists", "misled"}
                BY <2>1, <3>2 DEF Return
            <4> QED BY <2>0, <2>1, <3>0, <3>2, <4>1, ReturnStep DEF Return
        <3> QED BY <2>5, <3>1, <3>2 DEF GoOn
    <2>6. CASE Original(t)
        <3>0. top.log = "no" /\ ~Under(top)
            BY <2>6, <2>10 DEF Original, Under
        <3>3. inHook' = inHook
            BY <2>6 DEF Original
        <3>1. CASE UNCHANGED told /\ Become(t, [top EXCEPT !.at = "behind"])
            <4> DEFINE g == [top EXCEPT !.at = "behind"]
            <4>1. g \in FrameType /\ g.fn = top.fn /\ g.log = "no" /\ ~Under(g)
                BY <2>9, <3>0, FrameChange DEF Under
            <4>2. stack' = [stack EXCEPT ![t] = Append(Front(@), g)]
                BY <3>1 DEF Become
            <4> HIDE DEF g
            <4> QED BY <2>0, <2>1, <3>0, <3>1, <3>3, <4>1, <4>2, BecomeStep
        <3>2. CASE Return(t)
            <4>1. told' \in {"nothing", "exists", "misled"}
                BY <2>1, <3>2 DEF Return
            <4> QED BY <2>0, <2>1, <3>0, <3>2, <3>3, <4>1, ReturnStep DEF Return
        <3> QED BY <2>6, <3>1, <3>2 DEF Original
    <2>7. CASE EnterHook(t)
        BY <2>3, <2>4, <2>7 DEF EnterHook
    <2>8. CASE LeaveHook(t)
        BY <2>5, <2>8 DEF LeaveHook
    <2> QED BY <1>3, <2>6, <2>7, <2>8
<1>4. CASE Log(t)
    <2> DEFINE g == [Top(t) EXCEPT !.log = "waited"]
               s == Append(Front(stack[t]), g)
    <2>0. stack[t] # << >> /\ Top(t).log = "log" /\ inHook' = inHook /\ told' = told
        BY <1>4 DEF Log, Inside
    <2>1. PICK f \in Waits : stack' = [stack EXCEPT ![t] = Append(Front(@), g) \o << Frame(f) >>]
        BY <1>4 DEF Log
    <2>2. Top(t) \in FrameType
        BY <2>0, TopFacts
    <2>3. g \in FrameType /\ g.fn = Top(t).fn /\ g.at = Top(t).at /\ g.log = "waited"
        BY <2>2, FrameChange
    <2>4. stack[t] \in Seq(FrameType)
        BY DEF FlagInv, CallTypes
    <2> HIDE DEF g
    <2>5. /\ s \in Seq(FrameType) /\ DOMAIN s = DOMAIN stack[t] /\ s[Len(stack[t])] = g
          /\ \A i \in 1 .. Len(stack[t]) - 1 : s[i] = stack[t][i]
        BY <2>0, <2>3, <2>4, BecomeFacts
    <2>6. Len(stack[t]) \in Nat \ {0} /\ DOMAIN stack[t] = 1 .. Len(stack[t])
          /\ Top(t) = stack[t][Len(stack[t])]
        BY <2>0, <2>4, FrontFacts DEF Top
    <2>7. stack' = [stack EXCEPT ![t] = s \o << Frame(f) >>]
        BY <2>1
    <2> HIDE DEF s
    <2>8. \A i \in DOMAIN s : /\ s[i].fn = stack[t][i].fn /\ s[i].at = stack[t][i].at
                              /\ s[i].log = "no" <=> stack[t][i].log = "no"
        BY <2>0, <2>3, <2>5, <2>6
    <2>9. f \in Callable
        BY WaitsGuarded DEF Callable
    <2> QED BY <2>0, <2>5, <2>7, <2>8, <2>9, EnterStep
<1> QED BY <1>1, <1>2, <1>3, <1>4 DEF Detour

\* The other steps leave the calls alone.
LEMMA OtherSteps == [Next]_vars => UNCHANGED << stack, inHook, told >> \/ CallStep
    BY DEF Next, Install, vars, callVars, CallStep, Attach, SetUp, StartThreads,
       InitCreateProcessHooks, Body, Skip, HookFunction, EndGroup, Enter, notHooking, LoadModule,
       Exit, DialogKiller, Open, Close, Hang, notDialogs, Terminate, DumpThreadEips, notStopping

LEMMA FlagNext == FlagInv /\ ArmorTypes /\ [Next]_vars => FlagInv'
<1>1. FlagInv /\ UNCHANGED << stack, inHook, told >> => FlagInv'
    BY DEF FlagInv, CallTypes, Shape, OneOwner
<1> QED BY <1>1, CallStepFlag, OtherSteps

LEMMA OneOwnerIsOneLog == FlagInv => OneLogUnderFlag
<1> SUFFICES ASSUME FlagInv PROVE OneLogUnderFlag
    OBVIOUS
<1>1. \A p : p \in LogsUnderFlag <=>
                 \E t \in Threads : \E i \in DOMAIN stack[t] : Under(stack[t][i]) /\ p = << t, i >>
    BY DEF LogsUnderFlag, Logging, Under
<1>2. Cardinality(LogsUnderFlag) = IF inHook THEN 1 ELSE 0
    <2>1. CASE ~inHook
        <3>1. LogsUnderFlag = {}
            BY <1>1, <2>1 DEF FlagInv, OneOwner
        <3> QED BY <2>1, <3>1, FS_EmptySet
    <2>2. CASE inHook
        <3>0. PICK t \in Threads : \E i \in DOMAIN stack[t] :
                 /\ Under(stack[t][i])
                 /\ \A u \in Threads : \A j \in DOMAIN stack[u] : Under(stack[u][j]) => u = t /\ j = i
            BY <2>2 DEF FlagInv, OneOwner
        <3>1. PICK i \in DOMAIN stack[t] :
                 /\ Under(stack[t][i])
                 /\ \A u \in Threads : \A j \in DOMAIN stack[u] : Under(stack[u][j]) => u = t /\ j = i
            BY <3>0
        <3>2. \A p : p \in LogsUnderFlag <=> p = << t, i >>
            BY <1>1, <3>1
        <3>3. LogsUnderFlag = {<< t, i >>}
            BY <3>2
        <3>4. Cardinality({<< t, i >>}) = 1
            BY FS_Singleton
        <3> QED BY <2>2, <3>3, <3>4
    <2> QED BY <2>1, <2>2 DEF FlagInv, CallTypes
<1>3. ASSUME NEW t \in Threads PROVE Cardinality(Logging(t)) <= 2
    <2>1. \A i \in Logging(t) : i \in DOMAIN stack[t] /\ i \in Nat \ {0} /\ stack[t][i].log # "no"
        BY LenProperties DEF Logging, FlagInv, CallTypes
    <2>2. \A i \in Logging(t) : i = 1 \/ Under(stack[t][i])
        BY <2>1, WaitsGuarded DEF FlagInv, Shape, Under
    <2>3. PICK n : \A i \in Logging(t) : i = 1 \/ i = n
        <3>1. CASE inHook
            BY <2>1, <2>2, <3>1 DEF FlagInv, OneOwner
        <3>2. CASE ~inHook
            BY <2>1, <2>2, <3>2 DEF FlagInv, OneOwner
        <3> QED BY <3>1, <3>2
    <2>4. IsFiniteSet({1}) /\ Cardinality({1}) = 1
        BY FS_Singleton
    <2>5. IsFiniteSet({1} \cup {n}) /\ Cardinality({1} \cup {n}) <= 2
        BY <2>4, FS_AddElement
    <2>6. Logging(t) \subseteq {1} \cup {n}
        BY <2>3
    <2>7. /\ Cardinality(Logging(t)) <= Cardinality({1} \cup {n})
          /\ Cardinality(Logging(t)) \in Nat /\ Cardinality({1} \cup {n}) \in Nat
        BY <2>5, <2>6, FS_Subset, FS_CardinalityType
    <2> QED BY <2>5, <2>7
<1> QED BY <1>2, <1>3 DEF OneLogUnderFlag

-----------------------------------------------------------------------------
(* The parameters the client is told of *)

\* PatchThread has dealt with f.
Settled(f) == status[f] = "enabled" \/ f \in failed \/ "mh" \in failed

\* In the game's group the functions are dealt with in their order.
ParamHooks ==
    /\ \A f \in Functions : status[f] = "created" => f \in failed
    /\ pc = "game" => \A k \in DOMAIN Hooks["game"] : k < next => Settled(Hooks["game"][k])
    /\ status["ExistsParam"] = "enabled" => Settled("GetParam")

\* Who is in ExistsParam, or was told by it, has come there by its hook.
ParamTold ==
    /\ told = "exists" => status["ExistsParam"] = "enabled"
    /\ \A t \in Threads : \A i \in DOMAIN stack[t] :
          stack[t][i].fn = "ExistsParam" => status["ExistsParam"] = "enabled"

ParamInv == ParamHooks /\ ParamTold /\ ParamReadable

LEMMA GameFunctions ==
    /\ Hooks["game"] \in Seq(Functions) /\ ToSet(Hooks["game"]) \subseteq Functions \ Creates
    /\ {"GetParam", "ExistsParam"} \subseteq ToSet(Hooks["game"])
    /\ \A g \in Groups \ {"game"} : "ExistsParam" \notin ToSet(Hooks[g])
<1>1. Hooks["game"] \in Seq(Functions) /\ ToSet(Hooks["game"]) \subseteq Functions
    BY LoopSets, HookTypes
<1>2. ToSet(Hooks["game"]) \cap Creates = {}
    <2>1. "game" \in Groups /\ "create" \in Groups /\ {"game", "create"} # {"game", "launcher"}
        BY LoopSets
    <2> QED BY <2>1, PatcherAssumption DEF Creates
<1>3. {"GetParam", "ExistsParam"} \subseteq ToSet(Hooks["game"])
    BY PatcherAssumption DEF ToSet
<1>4. ASSUME NEW g \in Groups \ {"game"} PROVE "ExistsParam" \notin ToSet(Hooks[g])
    <2>1. CASE g = "launcher"
        BY <2>1, PatcherAssumption
    <2>2. CASE g # "launcher"
        <3>1. "game" \in Groups /\ {"game", g} # {"game", "launcher"} /\ "game" # g
            BY <2>2, LoopSets
        <3>2. ToSet(Hooks["game"]) \cap ToSet(Hooks[g]) = {}
            BY <3>1, PatcherAssumption
        <3> QED BY <1>3, <3>2
    <2> QED BY <2>1, <2>2
<1> QED BY <1>1, <1>2, <1>3, <1>4

LEMMA ParamInit == Init => ParamInv
<1>1. {"GetParam", "ExistsParam"} \subseteq Functions
    BY GameFunctions
<1>2. DOMAIN << >> = {}
    OBVIOUS
<1> QED BY <1>1, <1>2 DEF Init, ParamInv, ParamHooks, ParamTold, ParamReadable

\* Nothing is unhooked, and what has failed has failed for good.
LEMMA HooksStay ==
    ASSUME Stages, ArmorTypes, [Next]_vars
    PROVE  /\ failed \subseteq failed'
           /\ \A f \in Functions \ Creates : status[f] = "enabled" => status'[f] = "enabled"
<1> USE DEF armorVars, hookVars, notHooking
<1>1. CASE UNCHANGED << status, failed >>
    BY <1>1
<1>2. CASE InitCreateProcessHooks
    BY <1>2, CreateStep
<1>3. CASE SetUp \/ Body
    BY <1>3, StubStep DEF SetUp, Body
<1>4. CASE HookFunction
    BY <1>4 DEF HookFunction, ArmorTypes
<1>5. CASE Attach \/ Skip \/ EndGroup \/ Enter \/ LoadModule \/ Exit
    BY <1>5 DEF Attach, Skip, EndGroup, Enter, LoadModule, Exit
<1>7. CASE StartThreads \/ StopStep
    BY <1>7, StartFacts, StopFacts
<1>6. CASE DialogStep \/ CallStep
    BY <1>6, <1>1 DEF DialogStep, DialogKiller, Open, Close, Hang, notDialogs, CallStep, Call,
       CallUnhooked, Detour, EnterHook, Log, LeaveHook, Original, notCalling
<1> QED BY <1>1, <1>2, <1>3, <1>4, <1>5, <1>6, <1>7
       DEF Next, Install, vars, DialogStep, CallStep, StopStep

LEMMA SettledStays ==
    ASSUME Stages, ArmorTypes, [Next]_vars, NEW f \in Functions \ Creates, Settled(f)
    PROVE  Settled(f)'
    BY HooksStay DEF Settled

\* ExistsParam is hooked only after GetParam was dealt with.
LEMMA ParamHooksNext == Stages /\ ArmorTypes /\ ParamHooks /\ [Next]_vars => ParamHooks'
<1> SUFFICES ASSUME Stages, ArmorTypes, ParamHooks, [Next]_vars PROVE ParamHooks'
    OBVIOUS
<1> USE DEF armorVars, hookVars, notHooking
<1>1. /\ \A f \in ToSet(Hooks["game"]) : Settled(f) => Settled(f)'
      /\ "GetParam" \in ToSet(Hooks["game"]) /\ "ExistsParam" \in Functions
      /\ \A k \in DOMAIN Hooks["game"] : Hooks["game"][k] \in ToSet(Hooks["game"]) /\ k \in Nat \ {0}
    <2>1. DOMAIN Hooks["game"] = 1 .. Len(Hooks["game"])
        BY GameFunctions
    <2> QED BY <2>1, GameFunctions, SettledStays DEF ToSet
<1>2. ASSUME UNCHANGED status, failed \subseteq failed', next' \in {0, 1} \/ UNCHANGED << pc, next >>
      PROVE  ParamHooks'
    <2>1. pc' = "game" => \A k \in DOMAIN Hooks["game"] : k < next' => Settled(Hooks["game"][k])'
        BY <1>1, <1>2 DEF ParamHooks
    <2> QED BY <1>1, <1>2, <2>1 DEF ParamHooks
<1>3. CASE UNCHANGED << pc, next, status, failed >>
    BY <1>3, <1>2
<1>4. CASE Attach \/ SetUp \/ Body
    <2>1. next = 0
        BY <1>4, LoopSets, ArmorSteps DEF Attach, SetUp, Body, Stages
    <2> QED BY <1>4, <1>2, <2>1, HooksStay DEF Attach, SetUp, Body
<1>9. CASE StartThreads
    <2>1. next = 0 /\ UNCHANGED << status, next >> /\ failed \subseteq failed'
        BY <1>9, LoopSets, StartFacts DEF Stages
    <2> QED BY <1>2, <2>1
<1>5. CASE InitCreateProcessHooks
    <2>1. next' = 0
        BY <1>5, LoopSets DEF InitCreateProcessHooks, Stages
    <2>2. \A f \in Functions : status'[f] = "created" => f \in failed'
        BY <1>5, CreateStep DEF ParamHooks
    <2>3. status'["ExistsParam"] = status["ExistsParam"]
        BY <1>5, CreateStep, GameFunctions
    <2> QED BY <1>1, <2>1, <2>2, <2>3 DEF ParamHooks
<1>6. CASE Skip \/ EndGroup \/ Enter
    <2>1. next' \in {0, 1}
        BY <1>6 DEF Skip, EndGroup, Enter
    <2> QED BY <1>2, <1>6, <2>1, HooksStay DEF Skip, EndGroup, Enter
<1>7. CASE HookFunction
    <2> DEFINE f == Hooks[pc][next]
    <2>0. /\ InLoop /\ next \in DOMAIN Hooks[pc] /\ next' = next + 1 /\ pc' = pc
          /\ pc \in Groups
        BY <1>7, LoopSets DEF HookFunction, InLoop, Stages
    <2>1. f \in Functions /\ f \in ToSet(Hooks[pc])
        BY <2>0, HookTypes DEF ToSet
    <2>2. \/ /\ status' = [status EXCEPT ![f] = "enabled"]
             /\ failed' = failed
          \/ /\ \E s \in {"none", "created"} : status' = [status EXCEPT ![f] = s]
             /\ failed' = failed \cup {f}
          \/ ~(status[f] = "none" /\ "mh" \notin failed) /\ UNCHANGED << status, failed >>
        BY <1>7 DEF HookFunction
    <2> HIDE DEF f
    <2>3. \A h \in Functions \ {f} : status'[h] = status[h]
        BY <2>1, <2>2 DEF ArmorTypes
    <2>4. /\ status'[f] = "enabled" \/ f \in failed' \/ "mh" \in failed'
          /\ status'[f] = "created" => f \in failed'
        <3>1. status[f] \in {"none", "created", "enabled"} /\ (status[f] = "created" => f \in failed)
            BY <2>1 DEF ArmorTypes, ParamHooks
        <3> QED BY <2>1, <2>2, <3>1 DEF ArmorTypes
    <2>5. \A h \in Functions : status'[h] = "created" => h \in failed'
        BY <2>3, <2>4, HooksStay DEF ParamHooks
    <2>6. pc' = "game" => \A k \in DOMAIN Hooks["game"] : k < next' => Settled(Hooks["game"][k])'
        <3> SUFFICES ASSUME pc = "game", NEW k \in DOMAIN Hooks["game"], k < next + 1
                     PROVE  Settled(Hooks["game"][k])'
            BY <2>0
        <3>1. CASE k = next
            <4>1. f = Hooks["game"][k]
                BY <3>1 DEF f
            <4> QED BY <2>4, <4>1 DEF Settled
        <3>2. CASE k # next
            BY <1>1, <3>2 DEF ParamHooks, Stages
        <3> QED BY <3>1, <3>2
    <2>7. status'["ExistsParam"] = "enabled" => Settled("GetParam")'
        <3>1. CASE f # "ExistsParam"
            BY <1>1, <2>3, <3>1 DEF ParamHooks
        <3>2. CASE f = "ExistsParam"
            <4>1. pc = "game"
                BY <2>0, <2>1, <3>2, GameFunctions
            <4>2. PICK i \in DOMAIN Hooks["game"] : \E j \in DOMAIN Hooks["game"] :
                     i < j /\ Hooks["game"][i] = "GetParam" /\ Hooks["game"][j] = "ExistsParam"
                BY PatcherAssumption
            <4>3. PICK j \in DOMAIN Hooks["game"] : i < j /\ Hooks["game"][j] = "ExistsParam"
                BY <4>2
            <4>4. IsInjective(Hooks["game"])
                BY LoopSets, PatcherAssumption
            <4>5. j = next
                BY <2>0, <3>2, <4>1, <4>3, <4>4 DEF IsInjective, f
            <4>6. i < next'
                BY <1>1, <2>0, <4>3, <4>5
            <4> QED BY <2>0, <2>6, <4>1, <4>2, <4>6
        <3> QED BY <3>1, <3>2
    <2> QED BY <2>5, <2>6, <2>7 DEF ParamHooks
<1>8. CASE LoadModule \/ Exit \/ DialogStep \/ CallStep
    BY <1>8, <1>3 DEF LoadModule, Exit, DialogStep, DialogKiller, Open, Close, Hang, notDialogs,
       CallStep, Call, CallUnhooked, Detour, EnterHook, Log, LeaveHook, Original, notCalling
<1>10. CASE StopStep
    BY <1>3, <1>10, StopFacts
<1> QED BY <1>3, <1>4, <1>5, <1>6, <1>7, <1>8, <1>9, <1>10
       DEF Next, Install, vars, DialogStep, CallStep, StopStep

\* The frames of t after a step: some that it had, and a function that is hooked.
LEMMA FramesStep ==
    ASSUME ParamTold, NEW t \in Threads, \A u \in Threads \ {t} : stack'[u] = stack[u], UNCHANGED status,
           \A i \in DOMAIN stack'[t] :
              \/ \E j \in DOMAIN stack[t] : stack'[t][i].fn = stack[t][j].fn
              \/ Hooked(stack'[t][i].fn),
           told' = "exists" => told = "exists" \/ \E j \in DOMAIN stack[t] : stack[t][j].fn = "ExistsParam"
    PROVE  ParamTold'
<1>1. Hooked("ExistsParam") => status["ExistsParam"] = "enabled"
    BY DEF Hooked
<1>2. \A i \in DOMAIN stack'[t] : stack'[t][i].fn = "ExistsParam" => status["ExistsParam"] = "enabled"
    BY <1>1 DEF ParamTold
<1> QED BY <1>2 DEF ParamTold

LEMMA ParamToldNext ==
    Stages /\ ArmorTypes /\ FlagInv /\ ParamInv /\ [Next]_vars => (ParamTold /\ ParamReadable)'
<1> SUFFICES ASSUME Stages, ArmorTypes, FlagInv, ParamInv, [Next]_vars
             PROVE  ParamTold' /\ ParamReadable'
    OBVIOUS
<1>0. stack \in [Threads -> Seq(FrameType)] /\ "ExistsParam" \in Functions \ Creates
    BY GameFunctions DEF FlagInv, CallTypes
<1>1. CASE UNCHANGED << stack, inHook, told >>
    BY <1>0, <1>1, HooksStay DEF ParamInv, ParamTold, ParamReadable
<1>2. CASE CallStep
    <2>0. UNCHANGED << status, failed >>
        BY <1>2 DEF CallStep, Call, CallUnhooked, Detour, EnterHook, Log, LeaveHook, Original,
           notCalling, hookVars
    <2> PICK t \in Threads : Call(t) \/ CallUnhooked(t) \/ Detour(t) \/ Original(t)
        BY <1>2 DEF CallStep
    <2>1. CASE Call(t)
        <3>1. PICK f \in IF t = PatchLoop THEN {"Log"} ELSE Callable \ {"Log"} :
                 Hooked(f) /\ stack' = [stack EXCEPT ![t] = << Frame(f) >>]
            BY <2>1 DEF Call
        <3>2. f \in Callable /\ told' = told
            BY <2>1, <3>1 DEF Callable, Call
        <3>3. \A i \in DOMAIN << Frame(f) >> : << Frame(f) >>[i].fn = f
            BY <3>2, FrameFacts
        <3>4. stack'[t] = << Frame(f) >> /\ \A u \in Threads \ {t} : stack'[u] = stack[u]
            BY <1>0, <3>1
        <3>5. \A i \in DOMAIN stack'[t] : Hooked(stack'[t][i].fn)
            BY <3>1, <3>3, <3>4
        <3>6. ParamTold'
            BY <2>0, <3>2, <3>4, <3>5, FramesStep DEF ParamInv
        <3> QED BY <2>0, <3>2, <3>6 DEF ParamInv, ParamReadable
    <2>2. CASE CallUnhooked(t)
        <3>1. told = "exists" /\ told' = "misled" /\ ~Hooked("GetParam") /\ UNCHANGED stack
            BY <2>2 DEF CallUnhooked
        <3>2. Settled("GetParam")
            BY <3>1 DEF ParamInv, ParamTold, ParamHooks
        <3>3. "GetParam" \in Functions /\ status["GetParam"] # "enabled"
            BY <3>1, GameFunctions DEF Hooked
        <3> QED BY <2>0, <3>1, <3>2, <3>3 DEF Settled, ParamInv, ParamTold, ParamReadable
    <2>3. CASE Detour(t) \/ Original(t)
        <3> DEFINE s == stack[t]
        <3>12. told' = "misled" => told = "misled"
            BY <2>3 DEF Detour, EnterHook, Log, LeaveHook, Original, GoOn, Return
        <3> SUFFICES ParamTold'
            BY <2>0, <3>12 DEF ParamInv, ParamReadable
        <3>0. s # << >> /\ s \in Seq(FrameType)
            BY <1>0, <2>3 DEF Detour, EnterHook, Log, LeaveHook, Original, Inside
        <3>1. /\ DOMAIN s = 1 .. Len(s) /\ Len(s) \in DOMAIN s /\ Top(t) = s[Len(s)]
              /\ DOMAIN Front(s) = 1 .. Len(s) - 1 /\ Len(s) \in Nat
              /\ \A i \in 1 .. Len(s) - 1 : i \in DOMAIN s /\ Front(s)[i] = s[i]
            BY <3>0, FrontFacts DEF Top
        <3>2. \A g \in FrameType :
                 /\ Append(Front(s), g) \in Seq(FrameType)
                 /\ \A i \in DOMAIN Append(Front(s), g) :
                       i \in DOMAIN s /\ Append(Front(s), g)[i] = IF i = Len(s) THEN g ELSE s[i]
            <4> TAKE g \in FrameType
            <4>1. /\ Append(Front(s), g) \in Seq(FrameType) /\ DOMAIN Append(Front(s), g) = DOMAIN s
                  /\ Append(Front(s), g)[Len(s)] = g
                  /\ \A i \in 1 .. Len(s) - 1 : Append(Front(s), g)[i] = s[i]
                BY <3>0, BecomeFacts
            <4>2. \A i \in DOMAIN s : i = Len(s) \/ i \in 1 .. Len(s) - 1
                BY <3>1
            <4> QED BY <4>1, <4>2
        <3>3. ASSUME NEW g \in FrameType, g.fn = Top(t).fn, Become(t, g), UNCHANGED told
              PROVE  ParamTold'
            <4>1. stack'[t] = Append(Front(s), g) /\ \A u \in Threads \ {t} : stack'[u] = stack[u]
                BY <1>0, <3>3 DEF Become
            <4>2. \A i \in DOMAIN Append(Front(s), g) :
                     i \in DOMAIN s /\ Append(Front(s), g)[i].fn = s[i].fn
                BY <3>1, <3>2, <3>3
            <4>3. \A i \in DOMAIN stack'[t] : \E j \in DOMAIN stack[t] : stack'[t][i].fn = stack[t][j].fn
                BY <4>1, <4>2
            <4> QED BY <2>0, <3>3, <4>1, <4>3, FramesStep DEF ParamInv
        <3>4. ASSUME Return(t) PROVE ParamTold'
            <4>1. stack'[t] = Front(s) /\ \A u \in Threads \ {t} : stack'[u] = stack[u]
                BY <1>0, <3>4 DEF Return
            <4>2. told' = "exists" => told = "exists" \/ \E j \in DOMAIN stack[t] : stack[t][j].fn = "ExistsParam"
                BY <3>1, <3>4 DEF Return
            <4>3. \A i \in DOMAIN stack'[t] : \E j \in DOMAIN stack[t] : stack'[t][i].fn = stack[t][j].fn
                BY <3>1, <4>1
            <4> QED BY <2>0, <4>1, <4>2, <4>3, FramesStep DEF ParamInv
        <3>5. Top(t) \in FrameType
            BY <3>0, TopFacts
        <3>6. CASE GoOn(t)
            <4>1. CASE UNCHANGED told /\ Become(t, [Top(t) EXCEPT !.at = "original", !.log = "no"])
                <5> DEFINE g == [Top(t) EXCEPT !.at = "original", !.log = "no"]
                <5>1. g \in FrameType /\ g.fn = Top(t).fn
                    BY <3>5, FrameChange
                <5>2. Become(t, g)
                    BY <4>1
                <5>3. UNCHANGED told
                    BY <4>1
                <5> HIDE DEF g
                <5> QED BY <3>3, <5>1, <5>2, <5>3
            <4>2. CASE Return(t)
                BY <3>4, <4>2
            <4> QED BY <3>6, <4>1, <4>2 DEF GoOn
        <3>7. CASE EnterHook(t)
            <4>1. CASE UNCHANGED told /\ Become(t, [Top(t) EXCEPT !.log = "log"])
                <5> DEFINE g == [Top(t) EXCEPT !.log = "log"]
                <5>1. g \in FrameType /\ g.fn = Top(t).fn
                    BY <3>5, FrameChange
                <5>2. Become(t, g)
                    BY <4>1
                <5>3. UNCHANGED told
                    BY <4>1
                <5> HIDE DEF g
                <5> QED BY <3>3, <5>1, <5>2, <5>3
            <4> QED BY <3>6, <3>7, <4>1 DEF EnterHook
        <3>8. CASE LeaveHook(t)
            BY <3>6, <3>8 DEF LeaveHook
        <3>9. CASE Original(t)
            <4>1. CASE UNCHANGED told /\ Become(t, [Top(t) EXCEPT !.at = "behind"])
                <5> DEFINE g == [Top(t) EXCEPT !.at = "behind"]
                <5>1. g \in FrameType /\ g.fn = Top(t).fn
                    BY <3>5, FrameChange
                <5>2. Become(t, g)
                    BY <4>1
                <5>3. UNCHANGED told
                    BY <4>1
                <5> HIDE DEF g
                <5> QED BY <3>3, <5>1, <5>2, <5>3
            <4>2. CASE Return(t)
                BY <3>4, <4>2
            <4> QED BY <3>9, <4>1, <4>2 DEF Original
        <3>10. CASE Log(t)
            <4> DEFINE g == [Top(t) EXCEPT !.log = "waited"]
                       a == Append(Front(s), g)
            <4>1. g \in FrameType /\ g.fn = Top(t).fn
                BY <3>5, FrameChange
            <4>2. PICK f \in Waits : Hooked(f) /\ stack' = [stack EXCEPT ![t] = a \o << Frame(f) >>]
                BY <3>10 DEF Log
            <4> HIDE DEF g
            <4>3. /\ a \in Seq(FrameType)
                  /\ \A i \in DOMAIN a : i \in DOMAIN s /\ a[i].fn = s[i].fn
                BY <3>1, <3>2, <4>1
            <4> HIDE DEF a
            <4>4. f \in Callable /\ Frame(f) \in FrameType /\ Frame(f).fn = f
                BY WaitsGuarded, FrameFacts DEF Callable
            <4>5. \A i \in DOMAIN (a \o << Frame(f) >>) :
                     \/ i \in DOMAIN s /\ (a \o << Frame(f) >>)[i].fn = s[i].fn
                     \/ (a \o << Frame(f) >>)[i].fn = f
                <5>1. DOMAIN a = 1 .. Len(a) /\ Len(a) \in Nat
                    BY <4>3, LenProperties
                <5>2. /\ DOMAIN (a \o << Frame(f) >>) = 1 .. Len(a) + 1
                      /\ \A i \in 1 .. Len(a) : (a \o << Frame(f) >>)[i] = a[i]
                      /\ (a \o << Frame(f) >>)[Len(a) + 1] = Frame(f)
                    BY <4>3, <4>4, <5>1
                <5> QED BY <4>3, <4>4, <5>1, <5>2
            <4>6. UNCHANGED told
                BY <3>10 DEF Log
            <4>7. stack'[t] = a \o << Frame(f) >> /\ \A u \in Threads \ {t} : stack'[u] = stack[u]
                BY <1>0, <4>2
            <4>8. \A i \in DOMAIN stack'[t] :
                     \/ \E j \in DOMAIN stack[t] : stack'[t][i].fn = stack[t][j].fn
                     \/ Hooked(stack'[t][i].fn)
                <5> DEFINE b == a \o << Frame(f) >>
                <5>1. \A i \in DOMAIN b : (i \in DOMAIN s /\ b[i].fn = s[i].fn) \/ b[i].fn = f
                    BY <4>5
                <5>2. stack'[t] = b
                    BY <4>7
                <5> HIDE DEF b
                <5> QED BY <4>2, <5>1, <5>2
            <4> QED BY <2>0, <4>6, <4>7, <4>8, FramesStep DEF ParamInv
        <3>11. ParamTold'
            BY <2>3, <3>7, <3>8, <3>9, <3>10 DEF Detour
        <3> QED BY <3>11
    <2> QED BY <2>1, <2>2, <2>3
<1> QED BY <1>1, <1>2, OtherSteps

-----------------------------------------------------------------------------
(* The theorems *)

Inv ==
    /\ Stages /\ ArmorTypes /\ DialogTypes /\ StopTypes /\ FlagInv
    /\ ObserversUntouched /\ LoopNeedsHandler /\ StubsOrFailures /\ ExitsIgnored /\ ParamInv

LEMMA InvInit == Init => Inv
<1>1. Init => StopTypes
    BY DEF Init, StopTypes
<1> QED BY <1>1, StagesInit, ArmorTypesInit, FlagInit, ObserversInit, HandlerInit, ExitsInit, ParamInit
       DEF Inv

LEMMA InvNext == Inv /\ [Next]_vars => Inv'
    BY StagesNext, ArmorTypesNext, DialogTypesNext, StopTypesNext, FlagNext, ObserversNext, HandlerNext, ExitsNext,
       ParamHooksNext, ParamToldNext DEF Inv, ParamInv

LEMMA InvAlways == Spec => []Inv
    BY InvInit, InvNext, PTL DEF Spec

\* DllMain, PatchThread, the hooked functions and the dialog killer keep the
\* types of what they share.
THEOREM PatcherTypes == Spec => []TypeOK
<1>1. Inv => TypeOK
    BY TypesJoin DEF Inv, FlagInv
<1> QED BY InvAlways, <1>1, PTL

\* In the observed programs and in the wrapper nothing is changed, whatever
\* modules they load and whatever functions they call.
THEOREM ObserversStayUntouched == Spec => []ObserversUntouched
<1>1. Inv => ObserversUntouched
    BY DEF Inv
<1> QED BY InvAlways, <1>1, PTL

\* However many functions can end the client, and however many of the stubs
\* fail, only those that failed end it.
THEOREM ExitsStayIgnored == Spec => []ExitsIgnored
<1>1. Inv => ExitsIgnored
    BY DEF Inv
<1> QED BY InvAlways, <1>1, PTL

\* PatchThread sets breakpoints only with the exception handler in place.
THEOREM HandlerBeforeBreakpoints == Spec => []LoopNeedsHandler
<1>1. Inv => LoopNeedsHandler
    BY DEF Inv
<1> QED BY InvAlways, <1>1, PTL

\* A client can read the parameters it was told of, however its calls fall
\* between the hooks of PatchThread's rounds.
THEOREM ParamsCanBeRead == Spec => []ParamReadable
<1>1. Inv => ParamReadable
    BY DEF Inv, ParamInv
<1> QED BY InvAlways, <1>1, PTL

\* One function logs under g_inHook at a time, for any number of threads, and a
\* log is entered from a log at most once.
THEOREM OneLogAtATime == Spec => []OneLogUnderFlag
<1>1. Inv => OneLogUnderFlag
    BY OneOwnerIsOneLog DEF Inv
<1> QED BY InvAlways, <1>1, PTL
=============================================================================
