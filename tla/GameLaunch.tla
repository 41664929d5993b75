----------------------------- MODULE GameLaunch -----------------------------
(***************************************************************************)
(* Starting the game client: revival_tool (tool/main.cpp), the wrapper     *)
(* that Windows runs in place of Goley_.exe while the client's IFEO        *)
(* Debugger value names it (wrapper/wrapper.cpp), and the CreateProcess    *)
(* hook of the patcher DLL in the client (patcher/patcher.cpp).            *)
(*                                                                         *)
(* A process is a number, given in the order of creation; its image is     *)
(* the wrapper's or the client's.  A tool is a console in which the        *)
(* commands of revival_tool are given one after the other.  CreateProcess  *)
(* of Goley_.exe makes a wrapper if the value is set and the caller does   *)
(* not debug the new process, and a client otherwise.                      *)
(***************************************************************************)
EXTENDS Naturals

CONSTANTS
    Tools,          \* consoles, in each of which revival_tool is run
    MaxCmds,        \* BOUND: how many commands are given in each
    MaxPids         \* BOUND: how many processes are made

ASSUME LaunchAssumption ==
    MaxPids \in Nat /\ Tools \cap Nat = {} /\ MaxCmds \in [Tools -> Nat]

Pids == 1..MaxPids
Actors == Tools \cup Pids

VARIABLES
    admin,      \* the tools run as administrator
    debugger,   \* the IFEO Debugger value is set
    count,      \* how many processes there have been
    image,      \* "none", "wrapper" or "game"
    life,       \* "none", "suspended", "running", "ended" or "killed"
    marked,     \* GLY_NO_WRAPPER is in the process's environment
    dll,        \* revival_patcher.dll is among the process's modules
    parent,     \* who created the process (0: nobody)
    ncmd,       \* how many commands were given in each console
    pc,         \* where each tool and process is
    child,      \* pi: the process it has created (0: none)
    todo,       \* pids: what a cleanup has still to terminate
    old,        \* `count' when the cleanup began
    blind       \* history: a snapshot of the cleanup failed

procVars == << count, image, marked, parent >>
toolVars == << ncmd, todo, old, blind >>
vars == << admin, debugger, procVars, life, dll, pc, child, toolVars >>

Alive(p) == p \in Pids /\ life[p] \in {"suspended", "running"}

Init ==
    /\ admin \in BOOLEAN /\ debugger \in BOOLEAN
    /\ count = 0
    /\ image = [p \in Pids |-> "none"] /\ life = [p \in Pids |-> "none"]
    /\ marked = [p \in Pids |-> FALSE] /\ dll = [p \in Pids |-> FALSE]
    /\ parent = [p \in Pids |-> 0]
    /\ pc = [a \in Actors |-> "idle"] /\ child = [a \in Actors |-> 0]
    /\ ncmd = [t \in Tools |-> 0] /\ todo = [t \in Tools |-> {}]
    /\ old = [t \in Tools |-> 0] /\ blind = [t \in Tools |-> FALSE]

\* Actor a is at label from, and its program goes on at label to.
Goto(a, from, to) ==
    /\ pc[a] = from /\ (a \in Pids => life[a] = "running")
    /\ pc' = [pc EXCEPT ![a] = to]

\* CreateProcess of Goley_.exe by a: the new process starts in state s, and
\* bypass says that the caller is its debugger.
Create(a, from, to, bypass, mark, s) ==
    LET p == count + 1
        i == IF debugger /\ ~bypass THEN "wrapper" ELSE "game"
    IN  /\ count < MaxPids
        /\ pc[a] = from /\ (a \in Pids => life[a] = "running")
        /\ count' = p
        /\ image' = [image EXCEPT ![p] = i]
        /\ life' = [life EXCEPT ![p] = s]
        /\ marked' = [marked EXCEPT ![p] = mark]
        /\ parent' = [parent EXCEPT ![p] = a]
        /\ pc' = [pc EXCEPT ![a] = to, ![p] = IF i = "wrapper" THEN "start" ELSE "play"]
        /\ child' = [child EXCEPT ![a] = p]
        /\ UNCHANGED << admin, debugger, dll, toolVars >>

\* The remote LoadLibrary of a's child: it may load the DLL or not, and the
\* look at the module list afterwards may miss a DLL that was loaded.
Load(a, seen) ==
    /\ seen => Alive(child[a])
    /\ \/ Alive(child[a]) /\ dll' = [dll EXCEPT ![child[a]] = TRUE]
       \/ ~seen /\ dll' = dll
    /\ UNCHANGED << admin, debugger, procVars, life, child, toolVars >>

\* ResumeThread of a's child, which may have been terminated meanwhile; with
\* an APC, the first thing that the child does is to load the DLL.
Resume(a, apc) ==
    /\ IF life[child[a]] = "suspended"
       THEN /\ life' = [life EXCEPT ![child[a]] = "running"]
            /\ dll' = [dll EXCEPT ![child[a]] = @ \/ apc]
       ELSE UNCHANGED << life, dll >>
    /\ UNCHANGED << admin, debugger, procVars, child, toolVars >>

\* TerminateProcess of p.  A wrapper that is still p's child's debugger takes
\* the child with it.
Terminated(p) ==
    LET with == IF pc[p] = "detach" THEN {p, child[p]} ELSE {p}
    IN  [q \in Pids |-> IF q \in with /\ Alive(q) THEN "killed" ELSE life[q]]

-----------------------------------------------------------------------------
(* revival_tool: launch, ifeo set, ifeo clear, cleanup.                     *)

\* The last command is over and another may be given.
AtPrompt(t) == pc[t] \in {"idle", "cleaned"}

Given(t) ==
    /\ AtPrompt(t) /\ ncmd[t] < MaxCmds[t]
    /\ ncmd' = [ncmd EXCEPT ![t] = @ + 1]

\* CmdIfeoSet and CmdIfeoClear; without the right to, they change nothing.
WriteValue(t, to, v) ==
    /\ pc' = [pc EXCEPT ![t] = to]
    /\ debugger' \in {v} \cup (IF admin THEN {} ELSE {debugger})
    /\ UNCHANGED << admin, procVars, life, dll, child, todo, old, blind >>

IfeoSet(t) == Given(t) /\ WriteValue(t, "idle", TRUE)

IfeoClear(t) == Given(t) /\ WriteValue(t, "idle", FALSE)

\* launch does not look at what CmdIfeoSet returned.
LaunchSet(t) == Given(t) /\ WriteValue(t, "spawn", TRUE)

LaunchSpawn(t) == Create(t, "spawn", "inject", FALSE, FALSE, "suspended")

LaunchFails(t) ==
    /\ Goto(t, "spawn", "idle")
    /\ UNCHANGED << admin, debugger, procVars, life, dll, child, toolVars >>

\* Seeded fault: the result of the injection is ignored.
LaunchInjectIgnored(t) == Goto(t, "inject", "resume") /\ \E seen \in BOOLEAN : Load(t, seen)

LaunchInject(t) ==
    \/ Goto(t, "inject", "resume") /\ Load(t, TRUE)
    \/ Goto(t, "inject", "kill") /\ Load(t, FALSE)

LaunchResume(t) == Goto(t, "resume", "idle") /\ Resume(t, FALSE)

LaunchKill(t) ==
    /\ Goto(t, "kill", "idle")
    /\ life' = Terminated(child[t])
    /\ UNCHANGED << admin, debugger, procVars, dll, child, toolVars >>

\* FindPidsByPrefix: the processes of one image in a snapshot; none, and no
\* word of it, if CreateToolhelp32Snapshot or Process32First fails.  `before'
\* says whether that has already happened in this cleanup.
Found(i) == {p \in Pids : image[p] = i /\ Alive(p)}

Snapshot(t, i, before) ==
    \/ /\ todo' = [todo EXCEPT ![t] = Found(i)]
       /\ blind' = [blind EXCEPT ![t] = before]
    \/ /\ todo' = [todo EXCEPT ![t] = {}]
       /\ blind' = [blind EXCEPT ![t] = TRUE]

CleanGames(t) ==
    /\ Given(t) /\ pc' = [pc EXCEPT ![t] = "games"]
    /\ Snapshot(t, "game", FALSE)
    /\ old' = [old EXCEPT ![t] = count]
    /\ UNCHANGED << admin, debugger, procVars, life, dll, child >>

\* Seeded fault: the second pass looks for the client's image again.
CleanWrappersByGame(t) ==
    /\ Goto(t, "games", "wrappers") /\ todo[t] = {}
    /\ Snapshot(t, "game", blind[t])
    /\ UNCHANGED << admin, debugger, procVars, life, dll, child, ncmd, old >>

CleanWrappers(t) ==
    /\ Goto(t, "games", "wrappers") /\ todo[t] = {}
    /\ Snapshot(t, "wrapper", blind[t])
    /\ UNCHANGED << admin, debugger, procVars, life, dll, child, ncmd, old >>

\* OpenProcess fails without the right to, or when the process is gone.
CleanKill(t, p) ==
    /\ pc[t] \in {"games", "wrappers"} /\ p \in todo[t]
    /\ todo' = [todo EXCEPT ![t] = @ \ {p}]
    /\ life' \in {Terminated(p)} \cup (IF admin THEN {} ELSE {life})
    /\ UNCHANGED << admin, debugger, procVars, dll, pc, child, ncmd, old, blind >>

\* The end: CmdIfeoClear, which reports no error.
CleanEnd(t) ==
    /\ pc[t] = "wrappers" /\ todo[t] = {}
    /\ WriteValue(t, "cleaned", FALSE) /\ UNCHANGED ncmd

-----------------------------------------------------------------------------
(* revival_wrapper.                                                         *)

\* The guard: the first wrapper marks its environment, the next one finds the
\* mark and debugs the process it creates, so that it is not redirected again.
WrapperStart(p) ==
    /\ Goto(p, "start", IF marked[p] THEN "debug" ELSE "plain")
    /\ marked' = [marked EXCEPT ![p] = TRUE]
    /\ UNCHANGED << admin, debugger, count, image, parent, life, dll, child, toolVars >>

\* Seeded fault: the second wrapper creates its process without DEBUG_PROCESS.
WrapperSpawnUndebugged(p) ==
    Create(p, pc[p], "load", FALSE, TRUE, "suspended") /\ pc[p] \in {"plain", "debug"}

WrapperSpawn(p) ==
    \/ Create(p, "plain", "load", FALSE, TRUE, "suspended")
    \/ Create(p, "debug", "detach", TRUE, TRUE, "suspended")

WrapperFails(p) ==
    /\ pc[p] \in {"plain", "debug"} /\ Goto(p, pc[p], "over")
    /\ life' = [life EXCEPT ![p] = "ended"]
    /\ UNCHANGED << admin, debugger, procVars, dll, child, toolVars >>

WrapperDetach(p) ==
    /\ Goto(p, "detach", "load")
    /\ UNCHANGED << admin, debugger, procVars, life, dll, child, toolVars >>

\* Seeded fault: a wrapper whose injection fails returns at once.
WrapperLoadReturns(p) ==
    \/ Goto(p, "load", "wake") /\ Load(p, TRUE)
    \/ /\ Goto(p, "load", "over")
       /\ life' = [life EXCEPT ![p] = "ended"]
       /\ UNCHANGED << admin, debugger, procVars, dll, child, toolVars >>

\* The result of the injection is logged and changes nothing.
WrapperLoad(p) == Goto(p, "load", "wake") /\ \E seen \in BOOLEAN : Load(p, seen)

WrapperWake(p) == Goto(p, "wake", "wait") /\ Resume(p, FALSE)

WrapperReturn(p) ==
    /\ Goto(p, "wait", "over") /\ ~Alive(child[p])
    /\ life' = [life EXCEPT ![p] = "ended"]
    /\ UNCHANGED << admin, debugger, procVars, dll, child, toolVars >>

-----------------------------------------------------------------------------
(* The client.  It starts itself again, at most once (a bound).  The hook,   *)
(* which a thread of the DLL installs some time after the load, makes the    *)
(* new process suspended, queues the DLL's load to it and resumes it.        *)

GameRelaunch(p, mark) ==
    /\ image[p] = "game" /\ child[p] = 0 /\ (mark => marked[p])
    /\ \/ dll[p] /\ Create(p, "play", "release", FALSE, mark, "suspended")
       \/ Create(p, "play", "play", FALSE, mark, "running")

\* Whether the APC was queued makes no difference to what the hook does.
GameRelease(p) == Goto(p, "release", "play") /\ \E apc \in BOOLEAN : Resume(p, apc)

GameEnds(p) ==
    /\ Goto(p, "play", "over")
    /\ life' = [life EXCEPT ![p] = "ended"]
    /\ UNCHANGED << admin, debugger, procVars, dll, child, toolVars >>

-----------------------------------------------------------------------------
\* What a tool does once it has been started.
Tool(t) ==
    \/ LaunchSpawn(t) \/ LaunchFails(t) \/ LaunchInject(t) \/ LaunchResume(t)
    \/ LaunchKill(t) \/ CleanWrappers(t) \/ CleanEnd(t)
    \/ \E p \in Pids : CleanKill(t, p)

Command(t) == LaunchSet(t) \/ IfeoSet(t) \/ IfeoClear(t) \/ CleanGames(t)

Wrapper(p) ==
    \/ WrapperStart(p) \/ WrapperSpawn(p) \/ WrapperFails(p) \/ WrapperDetach(p)
    \/ WrapperLoad(p) \/ WrapperWake(p) \/ WrapperReturn(p)

Game(p) == GameEnds(p) \/ \E mark \in BOOLEAN : GameRelaunch(p, mark)

\* Every command is over and no process is left that could do anything.
Quiet ==
    /\ \A t \in Tools : AtPrompt(t)
    /\ \A p \in Pids : life[p] # "running"
    /\ UNCHANGED vars

Next ==
    \/ \E t \in Tools : Command(t) \/ Tool(t)
    \/ \E p \in Pids : Wrapper(p) \/ GameRelease(p) \/ Game(p)
    \/ Quiet

Spec == Init /\ [][Next]_vars

\* Tools and wrappers run, and so does the hook once it has made a process; the
\* waits of the injections are bounded by time-outs.  The client need not end.
FairSpec ==
    /\ Spec
    /\ \A t \in Tools : WF_vars(Tool(t))
    /\ \A p \in Pids : WF_vars(Wrapper(p)) /\ WF_vars(GameRelease(p))

-----------------------------------------------------------------------------
(* Properties.                                                              *)

\* The values the variables take.
TypeOK ==
    /\ admin \in BOOLEAN /\ debugger \in BOOLEAN /\ count \in 0..MaxPids
    /\ image \in [Pids -> {"none", "wrapper", "game"}]
    /\ life \in [Pids -> {"none", "suspended", "running", "ended", "killed"}]
    /\ marked \in [Pids -> BOOLEAN] /\ dll \in [Pids -> BOOLEAN]
    /\ parent \in [Pids -> Actors \cup {0}]
    /\ pc \in [Actors -> {"idle", "spawn", "inject", "resume", "kill", "games",
                          "wrappers", "cleaned", "start", "plain", "debug", "detach",
                          "load", "wake", "wait", "play", "release", "over"}]
    /\ child \in [Actors -> Pids \cup {0}]
    /\ ncmd \in [Tools -> Nat] /\ todo \in [Tools -> SUBSET Pids]
    /\ old \in [Tools -> 0..MaxPids] /\ blind \in [Tools -> BOOLEAN]

\* A start of the client makes at most two wrappers, however the client starts
\* itself again and whatever environment it gives the new process: no wrapper's
\* wrapper makes a third (the guard GLY_NO_WRAPPER and DEBUG_PROCESS).
ChainBounded ==
    \A p, q, r \in Pids :
        ~(/\ parent[q] = p /\ parent[r] = q
          /\ image[p] = "wrapper" /\ image[q] = "wrapper" /\ image[r] = "wrapper")

\* What launch has made runs only with the DLL loaded (LaunchAndInject); with
\* the value set, what it has made is a wrapper.
LaunchedHasDll ==
    \A p \in Pids : parent[p] \in Tools /\ life[p] \in {"running", "ended"} => dll[p]

\* A cleanup by an administrator whose snapshots did not fail terminates all
\* that ran when it began, whatever wrappers, tools and clients do meanwhile
\* (CmdCleanup).
CleanupReachesOld ==
    \A t \in Tools : admin /\ pc[t] = "cleaned" /\ ~blind[t] =>
        \A p \in Pids : p <= old[t] => ~Alive(p)

\* A process that was made suspended is resumed or terminated, unless who made
\* it was killed first.
Orphan(p) == parent[p] \in Pids /\ life[parent[p]] = "killed"

Awakened == \A p \in Pids : life[p] = "suspended" ~> life[p] # "suspended" \/ Orphan(p)

\* After a cleanup by an administrator whose snapshots did not fail, with no
\* other command under way, no client and no wrapper is left.
CleanupCleans ==
    [][\A t \in Tools :
        /\ admin /\ CleanEnd(t) /\ ~blind[t]
        /\ \A u \in Tools \ {t} : AtPrompt(u)
        => \A p \in Pids : ~Alive(p)]_vars
=============================================================================
