---------------------------- MODULE Breakpoints ----------------------------
(***************************************************************************)
(* The hardware breakpoints of the patcher, in a client in stub mode       *)
(* (patcher.cpp): the exception handler VehHandler, which every thread of  *)
(* the client runs when it raises an exception, and the loop of            *)
(* PatchThread, which suspends the threads one after the other to set      *)
(* (SetHardwareBreakpointAllThreads), to clear (ClearHardware...) or to    *)
(* log them (DumpThreadEips).                                              *)
(*                                                                         *)
(* A thread's debug registers are the set of Slots whose bit is set in     *)
(* Dr7.  An exception saves them in the context record; the handler edits  *)
(* the record, and the registers are loaded from it when the handler       *)
(* returns: what PatchThread wrote meanwhile is lost.                      *)
(* `lock' stands for the locks of the process that Log and                 *)
(* GetModuleHandle need and that the client holds while it allocates or    *)
(* loads (the heap lock and the loader lock).                              *)
(***************************************************************************)
EXTENDS Integers, FiniteSets

CONSTANTS
    Clients,        \* the threads of the client
    Nobody,         \* no thread
    Workloads,      \* BOUND: what the threads may do: sites, "heap", "fault"
    MaxDumps,       \* BOUND: dumps of the threads, with each workload
    MaxMisses       \* BOUND: threads that a pass could not open or not write

\* Dr0 .. Dr3; the three whose hit ends them.
Slots == {"val", "mbw", "ggr", "cp"}
OneShot == {"val", "ggr", "cp"}

ASSUME BreakpointsAssumption ==
    /\ Nobody \notin Clients /\ MaxMisses \in Nat
    /\ Workloads \subseteq [Clients -> SUBSET (Slots \cup {"heap", "fault"})]
    /\ MaxDumps \in [Workloads -> Nat]

VARIABLES
    at,         \* where each thread is
    dr,         \* the slots enabled in its debug registers
    exc,        \* the exception it handles: [kind, dr, step]
    hit,        \* g_valHit, g_ggrHit, g_cpHit
    lock,       \* who holds the process's lock
    suspended,  \* the suspended threads
    loop,       \* PatchThread: [pc, pass, todo, cur, targets, swept]
    dumps,      \* the dumps so far
    misses,     \* how often a thread's registers could not be written so far
    does        \* what each thread does

clientVars == << at, dr, exc, hit, lock >>
bounds == << dumps, misses, does >>
loopVars == << suspended, loop >>
vars == << clientVars, loopVars, bounds >>

NoExc == [kind |-> "none", dr |-> {}, step |-> "none"]

Init ==
    /\ at = [c \in Clients |-> "unborn"]
    /\ dr = [c \in Clients |-> {}] /\ exc = [c \in Clients |-> NoExc]
    /\ hit = {} /\ lock = Nobody /\ suspended = {}
    /\ loop = [pc |-> "top", pass |-> "none", todo |-> {}, cur |-> Nobody,
               targets |-> {}, swept |-> {}]
    /\ dumps = 0 /\ misses = 0 /\ does \in Workloads

Alive(c) == at[c] \notin {"unborn", "gone"}
Runs(c) == Alive(c) /\ c \notin suspended

-----------------------------------------------------------------------------
(* The threads of the client *)

Normal(c) == Runs(c) /\ exc[c] = NoExc

ThreadStart(c) ==
    /\ at[c] = "unborn"
    /\ at' = [at EXCEPT ![c] = "code"]
    /\ UNCHANGED << dr, exc, hit, lock, loopVars, bounds >>

ThreadExit(c) ==
    /\ Normal(c) /\ at[c] = "code"
    /\ at' = [at EXCEPT ![c] = "gone"] /\ dr' = [dr EXCEPT ![c] = {}]
    /\ UNCHANGED << exc, hit, lock, loopVars, bounds >>

Allocate(c) ==
    /\ Normal(c) /\ at[c] = "code" /\ "heap" \in does[c] /\ lock = Nobody
    /\ at' = [at EXCEPT ![c] = "heap"] /\ lock' = c
    /\ UNCHANGED << dr, exc, hit, loopVars, bounds >>

Release(c) ==
    /\ Normal(c) /\ at[c] = "heap"
    /\ at' = [at EXCEPT ![c] = "code"] /\ lock' = Nobody
    /\ UNCHANGED << dr, exc, hit, loopVars, bounds >>

Reach(c) ==
    /\ Normal(c) /\ at[c] = "code"
    /\ \E s \in does[c] \cap Slots : at' = [at EXCEPT ![c] = s]
    /\ UNCHANGED << dr, exc, hit, lock, loopVars, bounds >>

\* The instruction at the site runs as it is, or traps.
Pass(c) ==
    /\ Normal(c) /\ at[c] \in Slots \ dr[c]
    /\ at' = [at EXCEPT ![c] = "code"]
    /\ UNCHANGED << dr, exc, hit, lock, loopVars, bounds >>

Trap(c) ==
    /\ Normal(c) /\ at[c] \in dr[c]
    /\ exc' = [exc EXCEPT ![c] = [kind |-> at[c], dr |-> dr[c], step |-> "log"]]
    /\ UNCHANGED << at, dr, hit, lock, loopVars, bounds >>

\* Any other exception: one of ntdll's INT3s, a filtered or suppressed one
\* (not logged), an access violation or an interesting one (logged at first).
Fault(c) ==
    /\ Normal(c) /\ at[c] = "code" /\ "fault" \in does[c]
    /\ \E step \in {"log", "return"} :
          exc' = [exc EXCEPT ![c] = [kind |-> "fault", dr |-> dr[c], step |-> step]]
    /\ UNCHANGED << at, dr, hit, lock, loopVars, bounds >>

\* VehHandler logs before it touches the record or the hit flags.
LogStart(c) ==
    /\ Runs(c) /\ exc[c].step = "log" /\ lock = Nobody
    /\ lock' = c /\ exc' = [exc EXCEPT ![c].step = "logging"]
    /\ UNCHANGED << at, dr, hit, loopVars, bounds >>

LogEnd(c) ==
    /\ Runs(c) /\ exc[c].step = "logging"
    /\ lock' = Nobody
    /\ exc' = [exc EXCEPT ![c].step = IF exc[c].kind = "fault" THEN "return" ELSE "edit"]
    /\ UNCHANGED << at, dr, hit, loopVars, bounds >>

\* The slot is disarmed in the record, and the hit is published.
Edit(c) ==
    /\ Runs(c) /\ exc[c].step = "edit"
    /\ exc' = [exc EXCEPT ![c] = [kind |-> exc[c].kind, dr |-> exc[c].dr \ {exc[c].kind},
                                 step |-> "return"]]
    /\ hit' = hit \cup ({exc[c].kind} \cap OneShot)
    /\ UNCHANGED << at, dr, lock, loopVars, bounds >>

\* The registers are loaded from the record.  The call of MessageBoxW is
\* skipped; at the other sites the instruction is yet to run.
Return(c) ==
    /\ Runs(c) /\ exc[c].step = "return"
    /\ dr' = [dr EXCEPT ![c] = exc[c].dr] /\ exc' = [exc EXCEPT ![c] = NoExc]
    /\ at' = [at EXCEPT ![c] = IF exc[c].kind = "mbw" THEN "code" ELSE @]
    /\ UNCHANGED << hit, lock, loopVars, bounds >>

VehHandler(c) == LogStart(c) \/ LogEnd(c) \/ Edit(c) \/ Return(c)

-----------------------------------------------------------------------------
(* The loop of PatchThread *)

loopOnly == << clientVars, suspended, bounds >>

\* CreateToolhelp32Snapshot: the threads that a pass will visit.  If it fails,
\* that is as if none of them could be opened.
Snapshot(pass) == [loop EXCEPT !.pc = "pass", !.pass = pass, !.todo = {c \in Clients : Alive(c)}]

NeedsSweep(s) == s \in hit /\ s \notin loop.swept

\* A sweep is logged, and then clears every thread once.
Sweep(pc, s, next) ==
    /\ loop.pc = pc
    /\ \/ /\ NeedsSweep(s) /\ lock = Nobody
          /\ loop' = [Snapshot(s) EXCEPT !.swept = @ \cup {s}]
       \/ /\ ~NeedsSweep(s)
          /\ loop' = [loop EXCEPT !.pc = next]
    /\ UNCHANGED loopOnly

ValSweep == Sweep("top", "val", "dump")
GgrSweep == Sweep("ggr", "ggr", "aim")

\* DumpThreadEips every 15 seconds.
Dump ==
    /\ loop.pc = "dump"
    /\ \/ /\ dumps < MaxDumps[does] /\ lock = Nobody
          /\ dumps' = dumps + 1 /\ loop' = Snapshot("dump")
       \/ /\ loop' = [loop EXCEPT !.pc = "ggr"] /\ UNCHANGED dumps
    /\ UNCHANGED << clientVars, suspended, misses, does >>

\* Seeded fault: a site is aimed at until every one-shot site was hit.
TargetsAgain == IF hit = OneShot THEN {} ELSE Slots

\* Seeded fault: the breakpoint of NtCreateUserProcess goes with the check's.
TargetsTogether == (IF "ggr" \in hit THEN {} ELSE {"mbw", "ggr", "cp"}) \cup ({"val"} \ hit)

Targets ==
    (IF "ggr" \in hit THEN {} ELSE {"mbw", "ggr"}) \cup ({"val", "cp"} \ hit)

\* The hit flags are read once, for the whole pass.
Aim ==
    /\ loop.pc = "aim"
    /\ loop' = [Snapshot("set") EXCEPT !.targets = Targets]
    /\ UNCHANGED loopOnly

\* A thread is left out by the pass; by a dump, that changes nothing.
Miss ==
    \/ loop.pass = "dump" /\ UNCHANGED misses
    \/ loop.pass # "dump" /\ misses < MaxMisses /\ misses' = misses + 1

\* OpenThread fails for a thread that has ended, and may for any other.
Suspend ==
    /\ loop.pc = "pass"
    /\ \E c \in loop.todo :
          \/ /\ loop' = [loop EXCEPT !.todo = @ \ {c}] /\ UNCHANGED suspended
             /\ IF at[c] = "gone" THEN UNCHANGED misses ELSE Miss
          \/ /\ at[c] # "gone"
             /\ loop' = [loop EXCEPT !.todo = @ \ {c}, !.cur = c, !.pc = "suspended"]
             /\ suspended' = suspended \cup {c} /\ UNCHANGED misses
    /\ UNCHANGED << clientVars, dumps, does >>

\* GetThreadContext or SetThreadContext refuses: the registers are left alone.
Refused == loop.pass # "dump" /\ Miss /\ UNCHANGED dr

\* Otherwise SetThreadContext writes all four slots, in both kinds of pass.
Written ==
    /\ loop.pass # "dump"
    /\ dr' = [dr EXCEPT ![loop.cur] = IF loop.pass = "set" THEN loop.targets ELSE {}]
    /\ UNCHANGED misses

\* The dump logs the thread whether or not its context could be read:
\* GetModuleHandle (ClassifyEip) and Log need the lock.
Logged == loop.pass = "dump" /\ lock = Nobody /\ UNCHANGED << dr, misses >>

\* Seeded fault: a thread whose context is refused is passed over as one that
\* cannot be opened is, before it is resumed.
ResumeUnlessRefused ==
    /\ loop.pc = "suspended"
    /\ \/ Refused /\ UNCHANGED suspended
       \/ (Written \/ Logged) /\ suspended' = suspended \ {loop.cur}
    /\ loop' = [loop EXCEPT !.pc = "pass", !.cur = Nobody]
    /\ UNCHANGED << at, exc, hit, lock, dumps, does >>

\* What PatchThread does with the suspended thread, and ResumeThread.
Resume ==
    /\ loop.pc = "suspended" /\ (Refused \/ Written \/ Logged)
    /\ suspended' = suspended \ {loop.cur}
    /\ loop' = [loop EXCEPT !.pc = "pass", !.cur = Nobody]
    /\ UNCHANGED << at, exc, hit, lock, dumps, does >>

\* What follows each pass; after "set" the loop sleeps and starts again.
After == [val |-> "dump", dump |-> "ggr", ggr |-> "aim", set |-> "top"]

EndPass ==
    /\ loop.pc = "pass" /\ loop.todo = {}
    /\ loop' = [loop EXCEPT !.pc = After[loop.pass], !.pass = "none", !.targets = {}]
    /\ UNCHANGED loopOnly

PatchThread ==
    \/ ValSweep \/ Dump \/ GgrSweep \/ Aim
    \/ Suspend \/ Resume \/ EndPass

Next ==
    \/ PatchThread
    \/ \E c \in Clients :
          \/ ThreadStart(c) \/ ThreadExit(c) \/ Allocate(c) \/ Release(c)
          \/ Reach(c) \/ Pass(c) \/ Trap(c) \/ Fault(c) \/ VehHandler(c)

\* A thread that is resumed again and again runs, and one that waits for a
\* lock that is free again and again gets it.  What the client does otherwise
\* is up to it.
Fairness ==
    /\ SF_vars(PatchThread)
    /\ \A c \in Clients : SF_vars(Release(c) \/ Pass(c) \/ Trap(c) \/ VehHandler(c))

Spec == Init /\ [][Next]_vars /\ Fairness

-----------------------------------------------------------------------------
(* Properties *)

TypeOK ==
    /\ at \in [Clients -> {"unborn", "code", "heap", "gone"} \cup Slots]
    /\ dr \in [Clients -> SUBSET Slots]
    /\ exc \in [Clients -> [kind : {"none", "fault"} \cup Slots, dr : SUBSET Slots,
                            step : {"none", "log", "logging", "edit", "return"}]]
    /\ hit \subseteq OneShot /\ lock \in Clients \cup {Nobody}
    /\ suspended \subseteq Clients
    /\ loop \in [pc : {"top", "dump", "ggr", "aim", "pass", "suspended"},
                 pass : {"none"} \cup DOMAIN After, todo : SUBSET Clients,
                 cur : Clients \cup {Nobody}, targets : SUBSET Slots,
                 swept : SUBSET {"val", "ggr"}]
    /\ dumps \in 0 .. MaxDumps[does] /\ misses \in 0 .. MaxMisses /\ does \in Workloads

\* The dump waits for a lock that the thread it has suspended holds.
Wedged == loop.pc = "suspended" /\ loop.pass = "dump" /\ lock \in suspended

\* The site was hit, or the dialog's call cannot be reached any more.
Done(s) == s \in hit \/ (s = "mbw" /\ "ggr" \in hit)

\* After a site was hit, its breakpoint is gone for good from every thread sooner
\* or later, and with the check's result the dialog's, though some passes miss
\* some threads.  Targets read before the hit and records saved before a sweep
\* bring them back (against "NEVER re-arm", patcher.cpp:3013), for ever only if
\* threads go on raising exceptions, each time with the registers of the one
\* before.
DisarmedForGood ==
    \A s \in Slots :
        \/ [](~Done(s))
        \/ <>[](Wedged \/ \A c \in Clients : s \notin dr[c])
        \/ []<>(\E c \in Clients : exc[c].kind = "fault")

\* A site that was not hit is armed again and again in every thread that lives,
\* whatever a sweep, a returning handler or a pass that missed it has undone.
ArmedAgain ==
    \A c \in Clients, s \in Slots :
        []<>(Done(s) \/ s \in dr[c] \/ ~Alive(c) \/ exc[c] # NoExc \/ Wedged)

\* Only the dump can stop the loop: every thread that a pass has suspended is
\* resumed on every way out, and with it whatever lock it holds.
LoopsOrWedged == []<>(loop.pc = "top" \/ Wedged)

\* The loop goes on as long as the process lives (patcher.cpp:2843).
LoopsForever == []<>(loop.pc = "top")
=============================================================================
