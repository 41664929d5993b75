------------------------------ MODULE Patcher ------------------------------
(***************************************************************************)
(* The patcher DLL in a process it is loaded into (patcher.cpp): what      *)
(* DllMain and PatchThread install there, in each of the four modes; the   *)
(* hooked functions, as the threads of the process call them; and the      *)
(* thread that dismisses dialogs.  The hardware breakpoints are module     *)
(* Breakpoints, the hooking itself is module MinHook.                      *)
(*                                                                         *)
(* A hook is created and enabled in one step here.  A thread's stack holds *)
(* a frame for each hooked function it is in; Log is a step of such a      *)
(* frame, in which the operating system may wait: the wait functions are   *)
(* hooked, too, so that a log in a hooked wait can be entered from a log.  *)
(***************************************************************************)
EXTENDS Integers, FiniteSets, SequencesExt

CONSTANTS
    Hooks,          \* the functions of each group of hooks, in their order
    KillApis,       \* the functions that end the process
    Callers,        \* threads of the process
    PatchLoop,      \* the thread that runs PatchThread
    Windows,        \* the windows, topmost first: "dialog" (GameGuard's) or "other"
    MaxKills,       \* dismissals after which the killer stops (50)
    MaxEvents       \* BOUND: loads, failures, calls, exits, stops and dialogs

\* The groups in the order in which the loop of PatchThread visits them.
Loop == [stub |-> << "game", "net", "cmdline", "audit", "bugtrap", "wait" >>,
         launcher |-> << "launcher", "net", "audit" >>,
         payload |-> << "net", "audit" >>,
         wrapper |-> << >>]
Modes == DOMAIN Loop
Groups == {"create", "launcher"} \cup ToSet(Loop["stub"])
\* The module each group's functions are in; kernel32 is always there.
Module == [create |-> "kernel32", launcher |-> "NMRunParamDLL", game |-> "NMRunParamDLL",
           net |-> "ws2_32", cmdline |-> "kernel32", audit |-> "user32",
           bugtrap |-> "BugTrap", wait |-> "kernel32"]
Modules == {Module[g] : g \in Groups}
Functions == UNION {ToSet(Hooks[g]) : g \in Groups}
Threads == Callers \cup {PatchLoop}

\* The launcher's observers are on functions the game hooks, too; all other
\* groups have none in common.  GetParam comes before ExistsParam.
ASSUME PatcherAssumption ==
    /\ Hooks \in [Groups -> Seq(Functions)] /\ \A g \in Groups : IsInjective(Hooks[g])
    /\ \A g, h \in Groups :
          g # h /\ {g, h} # {"game", "launcher"} => ToSet(Hooks[g]) \cap ToSet(Hooks[h]) = {}
    /\ \E i, j \in DOMAIN Hooks["game"] :
          i < j /\ Hooks["game"][i] = "GetParam" /\ Hooks["game"][j] = "ExistsParam"
    /\ {"GetParam", "ExistsParam"} \cap ToSet(Hooks["launcher"]) = {}
    /\ {"Log", "ExitProcess"} \cap Functions = {}
    /\ IsFiniteSet(KillApis) /\ "no" \notin KillApis
    /\ PatchLoop \notin Callers
    /\ Windows \in Seq({"dialog", "other"})
    /\ MaxKills \in Nat /\ MaxEvents \in Nat

VARIABLES
    mode,       \* which program this is
    pc,         \* where DllMain, then PatchThread, is
    next,       \* the function of the group that is hooked next; 0 before it
    armor,      \* what DllMain has set up, the stubs apart
    stubbed,    \* the KillApis that return at once
    iat,        \* the import slot of ExitProcess leads to HookedExitProcess
    loaded,     \* the modules in the process
    status,     \* of each function's hook: "none", "created", "enabled"
    done,       \* the groups that are not visited any more
    failed,     \* what has failed
    stopped,    \* the threads that were terminated or wait for ever
    ended,      \* the function that ended the process
    stack,      \* each thread's frames, the innermost last: [fn, at, owns]
    inHook,     \* g_inHook
    told,       \* what ExistsParam and GetParam have answered the client
    windows,    \* each window: "none", "open", "asked", "hung", "closed"
    killed,     \* dismissals so far
    events

hookVars == << loaded, status, done >>
callVars == << stack, inHook, told, stopped >>
dialogVars == << windows, killed >>
armorVars == << armor, stubbed, iat >>
vars == << mode, pc, next, armorVars, hookVars, failed, ended, callVars, dialogVars, events >>

Armor == << "scylla", "boxes", "args", "kill", "veh" >>

Init ==
    /\ mode \in Modes /\ pc = "attach" /\ next = 0
    /\ armor = {} /\ stubbed = {} /\ iat = FALSE
    /\ loaded = {"kernel32"} /\ done = {} /\ failed = {} /\ ended = "no"
    /\ status = [f \in Functions |-> "none"]
    /\ stack = [t \in Threads |-> << >>] /\ inHook = FALSE /\ told = "nothing"
    /\ stopped = {}
    /\ windows = [i \in DOMAIN Windows |-> IF Windows[i] = "other" THEN "open" ELSE "none"]
    /\ killed = 0
    /\ events = 0

\* n things happen that the patcher does not decide.
Happens(n) == events + n <= MaxEvents /\ events' = events + n

Runs == ended = "no"

-----------------------------------------------------------------------------
(* DllMain *)

\* Seeded fault: the payload is taken for a client.
ObserverLauncher == mode = "launcher"

\* IS_OBSERVER_MODE
Observer == mode \in {"launcher", "payload"}

\* The mode follows from the program's name; in the wrapper nothing is done.
Attach ==
    /\ Runs /\ pc = "attach"
    /\ pc' = IF mode = "wrapper" THEN "idle"
             ELSE IF Observer THEN "threads" ELSE Armor[1]
    /\ UNCHANGED << mode, next, armorVars, hookVars, failed, ended, callVars, dialogVars, events >>

After(step) ==
    LET i == CHOOSE i \in DOMAIN Armor : Armor[i] = step
    IN  IF i < Len(Armor) THEN Armor[i + 1] ELSE "threads"

\* Seeded fault: the first failure is the end of it.
StubUntilFailure ==
    \E F \in SUBSET (KillApis \ stubbed) :
        /\ Happens(Cardinality(F)) /\ failed' = failed \cup F
        /\ stubbed' = IF F = {} THEN KillApis ELSE stubbed

\* Stubs are written over every KillApi; each may fail.
Stub ==
    \E F \in SUBSET (KillApis \ stubbed) :
        /\ Happens(Cardinality(F)) /\ failed' = failed \cup F
        /\ stubbed' = KillApis \ F

\* A failure of a step is logged, and the next one is tried.
SetUp ==
    /\ Runs /\ pc \in ToSet(Armor)
    /\ pc' = After(pc)
    /\ \/ /\ armor' = armor \cup {pc}
          /\ \/ pc = "kill" /\ Stub
             \/ pc # "kill" /\ UNCHANGED << stubbed, failed, events >>
       \/ /\ pc # "kill" /\ Happens(1) /\ failed' = failed \cup {pc}
          /\ UNCHANGED << armor, stubbed >>
    /\ loaded' = IF pc = "boxes" THEN loaded \cup {"user32"} ELSE loaded
    /\ UNCHANGED << mode, next, iat, status, done, ended, callVars, dialogVars >>

\* PatchThread and the killer start when DllMain has returned, and so does the
\* client: it was created suspended.  CreateThread may fail for each, and
\* nobody looks.
StartThreads ==
    /\ Runs /\ pc = "threads"
    /\ \E F \in SUBSET (IF Observer THEN {"loop"} ELSE {"loop", "killer"}) :
          /\ Happens(Cardinality(F)) /\ failed' = failed \cup F
          /\ pc' = IF "loop" \in F THEN "idle" ELSE "create"
    /\ UNCHANGED << mode, next, armorVars, hookVars, ended, callVars, dialogVars >>

Attached == pc \notin ToSet(Armor) \cup {"attach", "threads"}

-----------------------------------------------------------------------------
(* PatchThread *)

notHooking == << mode, armorVars, ended, callVars, dialogVars >>

\* InitCreateProcessHooks starts MinHook, creates both hooks and enables all
\* there are; enabling stops at the first failure.
InitCreateProcessHooks ==
    /\ Runs /\ pc = "create"
    /\ pc' = IF mode = "stub" THEN "body" ELSE Head(Loop[mode])
    /\ LET fs == Hooks["create"] IN
       \/ /\ Happens(1) /\ failed' = failed \cup {"mh"} /\ UNCHANGED status
       \/ \E made \in SUBSET ToSet(fs), n \in 0 .. Len(fs) :
             /\ LET on == made \cap {fs[i] : i \in 1 .. n} IN
                /\ Happens(Cardinality(ToSet(fs) \ on))
                /\ failed' = failed \cup (ToSet(fs) \ on)
                /\ status' = [f \in Functions |->
                                 IF f \in on THEN "enabled"
                                 ELSE IF f \in made THEN "created" ELSE status[f]]
    /\ UNCHANGED << notHooking, next, loaded, done >>

\* The exception handler is there, or is installed now, or PatchThread gives
\* up.  HookKillApis finds its slots only if the imports are resolved by now;
\* the stubs are written again.
Body ==
    /\ Runs /\ pc = "body"
    /\ \/ /\ armor' = armor \cup {"veh"}
          /\ Stub /\ iat' \in BOOLEAN
          /\ pc' = Head(Loop[mode])
       \/ /\ "veh" \notin armor
          /\ Happens(1) /\ pc' = "idle"
          /\ UNCHANGED << armor, stubbed, iat, failed >>
    /\ UNCHANGED << mode, next, hookVars, ended, callVars, dialogVars >>

InLoop ==
    Runs /\ pc \in ToSet(Loop[mode]) /\ stack[PatchLoop] = << >> /\ PatchLoop \notin stopped

NextGroup(g) ==
    LET order == Loop[mode]
        i == CHOOSE i \in DOMAIN order : order[i] = g
    IN  order[(i % Len(order)) + 1]

\* Seeded fault: a group whose module is not there is not visited again.
SkipForGood ==
    /\ InLoop /\ next = 0 /\ pc # "game"
    /\ pc \in done \cup {"wait"} \/ Module[pc] \notin loaded
    /\ done' = done \cup ({pc} \ {"wait"})
    /\ pc' = NextGroup(pc)
    /\ UNCHANGED << notHooking, next, loaded, status, failed, events >>

\* The group is done, or it is too early for it, or its module is not loaded
\* (and, for the game's parameters, cannot be loaded).
Skip ==
    /\ InLoop /\ next = 0
    /\ \/ /\ pc \in done \cup {"wait"} \/ (pc # "game" /\ Module[pc] \notin loaded)
          /\ UNCHANGED << failed, events >>
       \/ /\ pc = "game" /\ Module[pc] \notin loaded
          /\ Happens(1) /\ failed' = failed \cup {Module[pc]}
    /\ pc' = NextGroup(pc)
    /\ UNCHANGED << notHooking, next, hookVars >>

Enter ==
    /\ InLoop /\ next = 0
    /\ pc \notin done /\ (pc = "game" \/ Module[pc] \in loaded)
    /\ next' = 1 /\ loaded' = loaded \cup {Module[pc]}
    /\ UNCHANGED << notHooking, pc, status, done, failed, events >>

\* Seeded fault: the functions are hooked from the last to the first.
HookFunctionBackwards ==
    /\ InLoop /\ next \in DOMAIN Hooks[pc]
    /\ next' = next + 1
    /\ status' = [status EXCEPT ![Hooks[pc][Len(Hooks[pc]) + 1 - next]] = "enabled"]
    /\ UNCHANGED << notHooking, pc, loaded, done, failed, events >>

\* MH_CreateHook and MH_EnableHook.  A hook that was created and not enabled
\* cannot be created again, and is left as it is.
HookFunction ==
    /\ InLoop /\ next \in DOMAIN Hooks[pc]
    /\ next' = next + 1
    /\ LET f == Hooks[pc][next]
           can == status[f] = "none" /\ "mh" \notin failed
       IN \/ /\ can /\ status' = [status EXCEPT ![f] = "enabled"]
             /\ UNCHANGED << failed, events >>
          \/ /\ can /\ \E s \in {"none", "created"} : status' = [status EXCEPT ![f] = s]
             /\ Happens(1) /\ failed' = failed \cup {f}
          \/ ~can /\ UNCHANGED << status, failed, events >>
    /\ UNCHANGED << notHooking, pc, loaded, done >>

\* One hook that works is enough (anyOk); the wait functions are tried once.
Complete(g) == g = "wait" \/ \E f \in ToSet(Hooks[g]) : status[f] = "enabled"

EndGroup ==
    /\ InLoop /\ next > Len(Hooks[pc])
    /\ next' = 0 /\ pc' = NextGroup(pc)
    /\ done' = IF Complete(pc) THEN done \cup {pc} ELSE done
    /\ UNCHANGED << notHooking, loaded, status, failed, events >>

notStopping ==
    << mode, pc, next, armorVars, hookVars, failed, ended, stack, inHook, told, dialogVars >>

\* DumpThreadEips, between the groups: the thread that it has suspended (t, or
\* one that calls nothing here) holds a lock that its own calls need (module
\* Breakpoints), and both stay where they are; so may any that needs the lock.
DumpThreadEips(t) ==
    /\ Runs /\ mode = "stub" /\ pc = "wait" /\ next = 0 /\ {t, PatchLoop} \cap stopped = {}
    /\ Happens(1) /\ stopped' = {t, PatchLoop} \cup stopped
    /\ UNCHANGED notStopping

Install == InitCreateProcessHooks \/ Body \/ Skip \/ HookFunction \/ EndGroup

-----------------------------------------------------------------------------
(* The hooked functions *)

Waits == ToSet(Hooks["wait"])
Audits == ToSet(Hooks["audit"])
Creates == ToSet(Hooks["create"])
\* Log itself, as PatchThread calls it; and what the import slot leads to.
Callable == Functions \cup {"Log", "ExitProcess"}
Hooked(f) == f = "Log" \/ (f = "ExitProcess" /\ iat) \/ (f \in Functions /\ status[f] = "enabled")

\* Where a hooked function logs, and whether it enters EnterHook for that.
Logs(f, at) ==
    \/ at = "before" /\ f \notin Audits \cup {"Load", "ExistsParam", "GetParamCount"}
    \/ at = "behind" /\ f \in Audits \cup Waits \cup Creates \cup {"Load", "GetParam", "ExistsParam"}
Guarded(f) == f \notin Creates \cup ToSet(Hooks["cmdline"]) \cup {"Log", "ExitProcess"}

Frame(f) ==
    [fn |-> f, at |-> IF Logs(f, "before") THEN "before" ELSE "original", log |-> "no"]
Top(t) == Last(stack[t])

\* The innermost frame of t becomes f.
Become(t, f) == stack' = [stack EXCEPT ![t] = Append(Front(@), f)]

\* The innermost function of t returns; ExistsParam answers 1 for the patcher's
\* own parameters.
Return(t) ==
    /\ stack' = [stack EXCEPT ![t] = Front(@)]
    /\ told' = IF Top(t).fn = "ExistsParam" /\ told = "nothing" THEN "exists" ELSE told

\* The log of the innermost function is over, or was never begun.
GoOn(t) ==
    \/ /\ Top(t).at = "before" /\ UNCHANGED told
       /\ Become(t, [Top(t) EXCEPT !.at = "original", !.log = "no"])
    \/ Top(t).at = "behind" /\ Return(t)

notCalling == << mode, pc, next, armorVars, hookVars, failed, ended, stopped, dialogVars >>

Inside(t) == Runs /\ stack[t] # << >> /\ t \notin stopped

Call(t) ==
    /\ Runs /\ Attached /\ stack[t] = << >> /\ t \notin stopped /\ Happens(1)
    /\ \E f \in IF t = PatchLoop THEN {"Log"} ELSE Callable \ {"Log"} :
          /\ Hooked(f)
          /\ stack' = [stack EXCEPT ![t] = << Frame(f) >>]
    /\ UNCHANGED << notCalling, inHook, told >>

\* GetParam before it is hooked: a client that was told of a parameter that is
\* only the patcher's gets nothing.
CallUnhooked(t) ==
    /\ Runs /\ Attached /\ t \in Callers \ stopped /\ stack[t] = << >>
    /\ told = "exists" /\ ~Hooked("GetParam")
    /\ told' = "misled"
    /\ UNCHANGED << notCalling, stack, inHook, events >>

\* Seeded fault: the flag is taken without looking.
EnterHookAlways(t) ==
    /\ Inside(t) /\ Top(t).log = "no" /\ Top(t).at # "original"
    /\ inHook' = (inHook \/ Guarded(Top(t).fn))
    /\ Become(t, [Top(t) EXCEPT !.log = "log"])
    /\ UNCHANGED << notCalling, told, events >>

\* EnterHook: whoever finds the flag set goes on without a log.
EnterHook(t) ==
    /\ Inside(t) /\ Top(t).log = "no" /\ Top(t).at # "original"
    /\ \/ Guarded(Top(t).fn) /\ inHook /\ GoOn(t) /\ UNCHANGED inHook
       \/ /\ ~(Guarded(Top(t).fn) /\ inHook) /\ UNCHANGED told
          /\ Become(t, [Top(t) EXCEPT !.log = "log"])
          /\ inHook' = (inHook \/ Guarded(Top(t).fn))
    /\ UNCHANGED << notCalling, events >>

\* While it logs, the thread may wait, in a function that may be hooked.
Log(t) ==
    /\ Inside(t) /\ Top(t).log = "log"
    /\ \E f \in Waits :
          /\ Hooked(f)
          /\ stack' = [stack EXCEPT ![t] =
                          Append(Front(@), [Top(t) EXCEPT !.log = "waited"]) \o << Frame(f) >>]
    /\ UNCHANGED << notCalling, inHook, told, events >>

\* Seeded fault: the flag stays set after the first log of a function.
LeaveHookBefore(t) ==
    /\ Inside(t) /\ Top(t).log # "no" /\ GoOn(t)
    /\ inHook' = (inHook /\ ~(Guarded(Top(t).fn) /\ Top(t).at = "behind"))
    /\ UNCHANGED << notCalling, events >>

LeaveHook(t) ==
    /\ Inside(t) /\ Top(t).log # "no" /\ GoOn(t)
    /\ inHook' = (inHook /\ ~Guarded(Top(t).fn))
    /\ UNCHANGED << notCalling, events >>

\* The original function; HookedExitProcess sleeps instead.
Original(t) ==
    /\ Inside(t) /\ Top(t).at = "original" /\ Top(t).fn # "ExitProcess"
    /\ \/ /\ Logs(Top(t).fn, "behind") /\ UNCHANGED told
          /\ Become(t, [Top(t) EXCEPT !.at = "behind"])
       \/ ~Logs(Top(t).fn, "behind") /\ Return(t)
    /\ UNCHANGED << notCalling, inHook, events >>

\* TerminateThread of a thread in a hooked function: it returns from none.
Terminate(t) ==
    /\ Inside(t) /\ Happens(1)
    /\ stopped' = stopped \cup {t}
    /\ UNCHANGED notStopping

\* What a thread does in a hooked function, the original apart.
Detour(t) == EnterHook(t) \/ Log(t) \/ LeaveHook(t)

-----------------------------------------------------------------------------
(* The process, and the thread that dismisses dialogs *)

LoadModule ==
    /\ Runs /\ Attached /\ Happens(1)
    /\ \E m \in Modules \ loaded : loaded' = loaded \cup {m}
    /\ UNCHANGED << mode, pc, next, armorVars, status, done, failed, ended, callVars, dialogVars >>

\* A stub returns; any other of these functions ends the process.
Exit ==
    /\ Runs /\ Attached /\ Happens(1)
    /\ \E f \in KillApis \ stubbed : ended' = f
    /\ UNCHANGED << mode, pc, next, armorVars, hookVars, failed, callVars, dialogVars >>

notDialogs == << mode, pc, next, armorVars, hookVars, failed, ended, callVars >>

Open(i) ==
    /\ Runs /\ Attached /\ mode = "stub" /\ windows[i] = "none" /\ Happens(1)
    /\ windows' = [windows EXCEPT ![i] = "open"]
    /\ UNCHANGED << notDialogs, killed >>

\* The dialog acts on WM_CLOSE, which it may also ignore.
Close(i) ==
    /\ Runs /\ windows[i] = "asked"
    /\ windows' = [windows EXCEPT ![i] = "closed"]
    /\ UNCHANGED << notDialogs, killed, events >>

Showing == {i \in DOMAIN Windows : windows[i] \in {"open", "asked", "hung"}}

\* The window's thread handles no messages any more.
Hang(i) ==
    /\ Runs /\ mode = "stub" /\ windows[i] \in {"open", "asked"} /\ Happens(1)
    /\ windows' = [windows EXCEPT ![i] = "hung"]
    /\ UNCHANGED << notDialogs, killed >>

KillerStopped == killed > MaxKills

\* EnumWindows starts with the topmost window.  Every window of the process is
\* asked for its title, down to the first dialog, and GetWindowText waits for
\* the window's thread.
FindGGDialogProc ==
    {i \in Showing :
        /\ Windows[i] = "dialog"
        /\ \A j \in Showing : j <= i => windows[j] # "hung" /\ (Windows[j] = "dialog" => j = i)}

\* Seeded fault: the dismissals are not counted.
DialogKillerUncounted ==
    /\ Runs /\ Attached /\ mode = "stub" /\ "killer" \notin failed
    /\ \E i \in FindGGDialogProc : windows' = [windows EXCEPT ![i] = "asked"]
    /\ UNCHANGED << notDialogs, killed, events >>

\* The search ends at the first dialog: one that ignores WM_CLOSE is asked again
\* and again, until the killer stops.
DialogKiller ==
    /\ Runs /\ Attached /\ mode = "stub" /\ "killer" \notin failed /\ ~KillerStopped
    /\ \E i \in FindGGDialogProc : windows' = [windows EXCEPT ![i] = "asked"]
    /\ killed' = killed + 1
    /\ UNCHANGED << notDialogs, events >>

-----------------------------------------------------------------------------
Next ==
    \/ Attach \/ SetUp \/ StartThreads \/ Install \/ Enter
    \/ LoadModule \/ Exit \/ DialogKiller
    \/ \E i \in DOMAIN Windows : Open(i) \/ Close(i) \/ Hang(i)
    \/ \E t \in Threads :
          \/ Call(t) \/ CallUnhooked(t) \/ Detour(t) \/ Original(t)
          \/ Terminate(t) \/ DumpThreadEips(t)

\* The dump has left nobody waiting for a lock that is never released.
NotWedged == PatchLoop \notin stopped

\* Unless the dump is stuck, every thread runs, PatchThread comes round to the
\* wait functions in time, and a wait inside Log ends; what the client's own
\* calls wait for may never come, and a dialog may ignore what it is sent.
Fairness ==
    /\ WF_vars(Attach \/ SetUp \/ StartThreads \/ Install) /\ SF_vars(Enter)
    /\ WF_vars(NotWedged /\ DialogKiller)
    /\ \A t \in Threads :
          /\ WF_vars(NotWedged /\ Detour(t))
          /\ WF_vars(NotWedged /\ (t = PatchLoop \/ Len(stack[t]) > 1) /\ Original(t))

Spec == Init /\ [][Next]_vars /\ Fairness

-----------------------------------------------------------------------------
(* Properties *)

TypeOK ==
    /\ mode \in Modes
    /\ pc \in ToSet(Armor) \cup ToSet(Loop[mode]) \cup {"attach", "threads", "create", "body", "idle"}
    /\ next \in Nat /\ armor \subseteq ToSet(Armor) /\ stubbed \subseteq KillApis
    /\ iat \in BOOLEAN /\ loaded \subseteq Modules /\ done \subseteq Groups
    /\ status \in [Functions -> {"none", "created", "enabled"}]
    /\ ended \in KillApis \cup {"no"}
    /\ stack \in [Threads -> Seq([fn : Callable, at : {"before", "original", "behind"},
                                  log : {"no", "log", "waited"}])]
    /\ inHook \in BOOLEAN /\ told \in {"nothing", "exists", "misled"}
    /\ stopped \subseteq Threads
    /\ windows \in [DOMAIN Windows -> {"none", "open", "asked", "hung", "closed"}]
    /\ killed \in 0 .. MaxKills + 1 /\ events \in 0 .. MaxEvents

\* The functions that hooks change the outcome of, and not only log.
Altered == (ToSet(Hooks["game"]) \ ToSet(Hooks["launcher"])) \cup ToSet(Hooks["cmdline"]) \cup ToSet(Hooks["bugtrap"])

\* Observers and the wrapper are left alone: no armor, no stub, no dialog is
\* closed, no hook that alters what a function does (patcher.cpp:3142-3155).
ObserversUntouched ==
    mode # "stub" =>
        /\ armor = {} /\ stubbed = {} /\ killed = 0
        /\ \A f \in Altered : status[f] = "none"

\* Whatever it calls and whenever, the client ends itself only by a function
\* whose stub could not be written before it started (patcher.cpp:3248-3263).
ExitsIgnored == mode = "stub" /\ ended # "no" => ended \in failed

\* Breakpoints are set only when there is a handler for them.
LoopNeedsHandler == mode = "stub" /\ pc \in ToSet(Loop[mode]) => "veh" \in armor

\* A client that was told that a parameter exists can read it: the function
\* that reads is hooked before the one that tells, unless it could not be.
ParamReadable == told = "misled" => {"GetParam", "mh"} \cap failed # {}

\* The frames of t that log.
Logging(t) == {i \in DOMAIN stack[t] : stack[t][i].log # "no"}
LogsUnderFlag ==
    UNION {{t} \X {i \in Logging(t) : Guarded(stack[t][i].fn)} : t \in Threads}

\* g_inHook is set while exactly one function logs under it, in all threads, so
\* that a log is entered from a log at most once (patcher.cpp:1442-1447).
OneLogUnderFlag ==
    /\ Cardinality(LogsUnderFlag) = IF inHook THEN 1 ELSE 0
    /\ \A t \in Threads : Cardinality(Logging(t)) <= 2

\* Every group of the loop is hooked some time after its module was loaded,
\* however late that is, unless something has failed or the dump has stopped the
\* loop ("sonraki refresh loop tekrar dener": the next round tries again,
\* patcher.cpp:1787).
LateModulesHooked ==
    []<>(\/ failed # {} \/ ~Runs \/ ~NotWedged
         \/ \A g \in ToSet(Loop[mode]) : Module[g] \in loaded => \A f \in ToSet(Hooks[g]) : Hooked(f))

\* No thread keeps the flag, whatever its functions wait for, unless it was
\* terminated in a log; a dump that is stuck may leave it set as well.
FlagFreed ==
    []<>(\/ ~inHook \/ ~Runs \/ ~NotWedged
         \/ \E f \in LogsUnderFlag : f[1] \in stopped)

\* A window that hangs keeps the killer from every dialog that it covers.
Covered(i) == \E j \in 1 .. i : windows[j] = "hung"

\* Every dialog that is shown is asked to close, unless a window above it hangs,
\* whoever's it is, or the killer was not started, was stopped with the dump or
\* gave up first: it counts every time it asks a dialog that ignores it.
DialogsDismissed ==
    []<>(\/ KillerStopped \/ ~Runs \/ ~NotWedged \/ "killer" \in failed
         \/ \A i \in DOMAIN Windows : Windows[i] = "dialog" /\ windows[i] = "open" => Covered(i))
=============================================================================
