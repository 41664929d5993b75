# TLA+ model of the revival project

The repository revives a discontinued online game. Go services (`server/`)
stand in for the game's servers; Windows programs (`tool/`, `wrapper/`,
`patcher/`) start the original client with a patcher DLL in it, so that it runs
without its anti-cheat and talks to those services. This directory holds TLA+
modules for the parts of that system which have state and concurrency, TLC
configurations that check them on small instances, and TLAPS proofs.

- [The system](#the-system): components, state, operations, what is hard
- [The modules](#the-modules): which module models what, and how
- [The runs](#the-runs): what TLC checks, bounds, fairness
- [The proofs](#the-proofs): theorems, assumptions, inductive invariants
- [Where the code and its documents disagree](#where-the-code-and-its-documents-disagree)
- [What is not modelled](#what-is-not-modelled)
- [Plan](#plan)

Run one configuration with `tlc -config X.cfg M`, check proofs with
`tlapm M_proofs.tla`. `PROJECT.json` lists every run, theorem and hazard, maps
each definition to the source lines it stands for, and names for every checked
property a seeded fault (a definition commented "Seeded fault") that breaks it.

## The system

Paths are relative to `src/`; `proudnet/` is `server/internal/proudnet/`.

### ProudNet TCP server: `proudnet/server.go`, `proudnet/framing.go`

*State*: the registry `conns` (HostID -> connection) under a reader/writer lock
`mu`, the HostID counter, the table of RMI handlers, one socket per connection.
*Operations*: `ListenAndServe` accepts, numbers and registers connections until
the context is cancelled; `serve` (a goroutine per connection) reads frames and
calls the handler of the RMI id in them; a handler calls `Conn.Send` or
`Server.Broadcast`; `WriteFrame` writes a length prefix and then a payload.
*Hard*: several goroutines write to one socket; `Broadcast` does blocking I/O
while it holds the read lock; a waiting writer of an `RWMutex` keeps new readers
out; the socket of a leaving connection is closed before its entry is deleted;
shutdown must get the accept loop out of whatever it waits for.
*Correct when*: the registry is exactly the connections being served; a
broadcast that returns has reached all of them; streams are whole frames, in
order; live clients are served, departed ones removed; a signal ends the server.

### The services on it: `server/cmd/entry-server`, `lobby-server`, `battle-server`

*Entry* (port 2270) answers logins and hero slots with fixed data, one to three
replies per request and no state of its own. *Lobby* (2271) has chat (a
broadcast), a table of rooms `lobbyMap` that the goroutines of all clients share
with no lock, and joins. *Battle* (2272, UDP 2273) accepts logons and runs the
UDP relay beside its TCP server; `main` waits for both.
*Hard*: the unlocked map; the order of storing, announcing and answering a new
room against the lists that other clients read meanwhile; the nil `Players` map
of a joined room; two listeners, of which either may fail.
*Correct when*: clients are told of rooms that exist and miss none; requests get
their answers; the process ends on a signal.

### UDP relay: `proudnet/udp_relay.go`

*State*: `peers` (HostID -> address). *Operations*: read a datagram, file its
source address under the HostID it names, look up the destination, forward.
*Hard*: loss, repetition and reordering; clients whose address changes.
*Correct when*: a datagram goes only to an address of its destination, and to
the newest one the relay can know of.

### Starting the client: `tool/main.cpp`, `wrapper/wrapper.cpp`, `patcher/patcher.cpp`

*State*: the IFEO `Debugger` value of Goley_.exe in the registry (while it is
set, Windows runs the wrapper in place of the client), the tree of processes,
the `GLY_NO_WRAPPER` mark in their environments, the DLL in their address
spaces. *Operations*: `launch` sets the value, makes the client suspended,
injects the DLL, resumes or terminates; `ifeo set` and `ifeo clear` write the
value; `cleanup` terminates all clients, then all wrappers, then clears the
value; the wrapper makes the client suspended, injects, resumes and waits; the
patcher's CreateProcess hook does the same, by an APC, for a client that starts
itself again.
*Hard*: the redirection also hits the wrapper's own CreateProcess; any step may
fail; commands run in several consoles against processes that keep making
others; a debugger takes its debuggee with it.
*Correct when*: no chain of wrappers grows; what `launch` made runs with the DLL
or not at all; nothing suspended is forgotten; `cleanup` leaves nothing behind.

### The patcher in the client: `patcher/patcher.cpp`

*State*: the mode the program's name selects (client "stub", launcher, payload,
wrapper), what `DllMain` has set up, the stubs over the functions that end a
process, a hook per function of eight groups, the flag `g_inHook`, the debug
registers of every thread, the flags that say which breakpoint was hit.
*Operations*: `DllMain` sets up and starts two threads; `PatchThread` hooks what
is loaded so far, round after round, and in the client suspends all threads to
set, clear or log breakpoints; the hooked functions run on the client's threads,
as does the exception handler; the second thread dismisses error dialogs.
*Hard*: the client runs while it is changed; every step may fail; modules come
late; a log inside a hooked wait enters hooked waits; exceptions save and restore
the registers another thread writes; a suspended thread may hold a lock.
*Correct when*: observed programs are left alone; the client cannot end
itself; what it was told of it can read; flags and suspended threads are
given back; breakpoints are where they should be; the loop goes on.

### MinHook: `patcher/minhook/hook.c`, `buffer.c`, `trampoline.c`

*State*: the table of hooks, the blocks of slots for trampolines, the code of the
functions, the spin lock. *Operations*: create, enable, disable, queue, apply,
remove, for one function or all; each suspends the other threads, moves
those that are in what is overwritten, writes, and resumes them.
*Hard*: threads stopped at any instruction, or that cannot be stopped; failures in the middle of a freeze;
offsets that change when an instruction is moved; slots reused.
*Correct when*: no thread is left inside an instruction; table, code and slots
agree; whatever fails, the lock is left; a trampoline does what the overwritten
instructions did.

### Parts without a module

| Part | Sources | Why, and what is planned |
|---|---|---|
| Messages | `proudnet/message.go`, `rmi_ids.go` | cursor arithmetic, string limits, the 16-bit frame length: planned |
| Users, credentials | `cmd/database`, `cmd/daum-auth`, `cmd/launcher-web` | the chain of tokens from web login to battle: planned |
| Login stub | `cmd/login-server` | read deadlines and a capture buffer: planned |
| Patch server | `cmd/patch-server` | answers each request from its arguments and static files |
| Static patches | `tool/apply_patches.py` | address translation: planned |
| Extractor | `extract/decrypt.py` | transforms a file offline; candidate for a bounded check |
| Logging | `server/internal/common` | formatting only |
| Instruction decoder | `patcher/minhook/hde` | vendored tables without state; what it returns is the input of `Trampoline` |

## The modules

| Module | Models | Used by |
|---|---|---|
| `ProudNetServer` | `proudnet/server.go`, `framing.go` | `MCServer`, `ProudNetServer_proofs` |
| `Handlers` | the calls each registered handler of the three services makes | `MCServer` |
| `ReplyStreams` | abstract: what a replying service promises a client | `ProudNetServer` (refinement) |
| `Lobby` | the room table of `lobby-server/main.go` | `MCLobby`, `Lobby_proofs` |
| `UDPRelay` | `proudnet/udp_relay.go`, `battle-server/main.go` | `MCRelay`, `UDPRelay_proofs` |
| `Trampoline` | how `minhook/trampoline.c` moves a function's first instructions, as operators | `MinHook`, `Trampoline_proofs` |
| `MinHook` | `minhook/hook.c`, `buffer.c` | `MCMinHook`, `MinHook_proofs` |
| `Breakpoints` | `VehHandler` and the breakpoint passes of `PatchThread` | `MCBreakpoints`, `Breakpoints_proofs` |
| `Patcher` | `DllMain`, `PatchThread`'s hooking, the hooked functions, the dialog killer | `MCPatcher`, `Patcher_proofs` |
| `GameLaunch` | launch, ifeo and cleanup of `tool/main.cpp`; `wrapper.cpp`; the CreateProcess hook of `patcher.cpp` | `MCLaunch`, `GameLaunch_proofs` |
| `MC...` | values of the constants for TLC | the configurations |
| `..._proofs` | theorems, lemmas, inductive invariants | |

### ProudNetServer

A connection is a value of `Conns` and connects at most once. Each has a
goroutine whose place is `pc[c]`: "new" (accepted, not yet registered), "top",
"read", "exec" (in a handler), "range" (in `Broadcast`), "header" and "payload"
(in `WriteFrame`), "close", "unregister", "done". The `sync.RWMutex` is
`readers` and `wlock`: a writer announces itself (`RequestLock`), which keeps
new readers out, and holds the lock once the readers have left. The registry
`conns`, `nextHostID` and `hostID` are the fields of `Server` and `Conn`.

A handler is its plan: the sequence of "send" and "broadcast" calls it makes
(`Handlers`). A payload is the identity of the call that wrote it. Each of the
two Write calls of a frame is one step that appends a chunk to `sent[d]`; it
blocks while the socket holds `Cap` unread chunks, and fails on a socket that is
closed or whose client is gone. Frames of a client are an RMI with a handler,
"ignored" (whatever `serve` or the handler drops before a reply) or "broken"
(`ReadFrame` fails). Byte counts are left out: a Write is all or nothing.

### Lobby

The lobby's room table, with what its users meet of the server below: a message
to a client that does not read (`peer`: "stalled") waits, one to a client that
has hung up is lost and the handler goes on, `AppearTo` and its waits run under the
read lock, and a connection that arrives or leaves waits for the write lock and keeps
new broadcasts out meanwhile. A message is one step here, not two chunks. A map store takes two steps; an access meanwhile either
ends the process, as the Go runtime does when it notices, or goes unnoticed and
sets `raced`, after which a store may be lost. `Seat` is the assignment to the nil map
`lobby.Players`, which ends the process. A growing `LobbyList_Add` is the set of
the rooms listed so far, because the handler never resets `res`. `answered` counts
the requests whose last answer was written. A room is its name; its LobbyID is left out.

### UDPRelay

A client is a HostID that may move to new addresses. `net` is a set of datagrams
from which the network takes ("Lose"), keeps after a read (a duplicate) and, if
`fifo` is false, delivers in any order. `Read`, `File` and `Forward` are the
loop's read, its two map operations and its write. Either listener may have
failed in the initial state. `StopTCP` stands for the TCP server's
return, which `ShutdownCompletes` of `entry` shows for handlers that
only reply, as the battle server's does.

### GameLaunch

A process is a number, in the order of creation. `Create` is `CreateProcess` of
Goley_.exe, the one place where the IFEO value matters: the new process is a wrapper if the
value is set and the caller does not debug it. `pc` is where a console's command,
a wrapper or a client is. An injection (`Load`) may load the DLL or not, and the
check of the module list may miss a DLL that was loaded; `LaunchInject` acts on
that result, `WrapperLoad` does not. A snapshot of the processes may fail, which
gives `cleanup` an empty list without a word (`Snapshot`, `blind`). Without
administrator rights registry writes and terminations may fail. A client starts itself again at most
once and may drop the mark from the environment it passes on; its hook exists
only if the DLL was loaded, and perhaps not yet. Terminating a wrapper that
still debugs its child terminates both.

Left out: command lines (so the check of `argv[0]` appears only as a
failure), the third image `cleanup` looks for (`unpacked_Goley_`, which none of
the modelled commands starts), handles, logging.

### Trampoline and MinHook

`Trampoline` gives what `CreateTrampolineFunction` (32-bit build) makes of a
function's start: a code is a sequence of instructions with kind, length and
destination, `Round` is one round of its loop, `Refused` and `Finished` its
exits, `Build` the result with the offsets old -> new. `AfterInst` and
`AfterCopy` are what a processor does with the original and with the copy.
The loop and the offsets are recursive functions (`Rounds`, `Ends`), so that they
can be proved about. `Movable` and `Closed` are what a compiler's code is like,
and assumed of the functions that are hooked: internal jumps lead to instructions
and not back over one that gets longer; a function too short for the long jump does
not lead back between the two bytes of the short one.

`MinHook` runs these codes: `ip` says where each thread is, instruction by
instruction. All calls are made under the spin lock, so the call under
way is one record, `job`: `Begin` takes the lock and the snapshot of the
threads, `Freeze` suspends and moves one, `EnableHookLL` writes one function,
`ProtectFails` is its failure, `Unfreeze` resumes one, `LeaveSpinLock` ends it.
A snapshot, an allocation or `VirtualProtect` may fail. The table `hooks` is filled
from its end (`DeleteHookEntry` moves the last entry), blocks and slots are those
of `buffer.c`.

Windows may refuse what the library asks for a thread and does not insist on:
`Freeze` leaves a thread running (`OpenThread`, `SuspendThread`) or suspended where
it is (`GetThreadContext`, `SetThreadContext`), `moved` being those it could move; and
`Unfreeze` may leave one suspended for good (`stuck`).

A thread is "lost" when it is in the middle of an instruction or where no code
is, and the library did not see to it that it is not. `Lose` is applied to three sets,
each at the step that does the harm: `Caught`, the threads in the bytes that are
written that were not in the snapshot, were refused, or were frozen for the other
action (`EnableHook` freezes for enabling in any case); `MovedBack`, those that
were moved back into a function before `VirtualProtect` failed and left the jump
there; and `InTrampolines`, those in a trampoline that is freed (also `StepDetour`,
into one that is gone). To every other thread nothing is done at these steps, so
`AtInstruction` demands that the move by the freeze has put it in its place.

Left out: return addresses on stacks, code beyond the overwritten bytes that
jumps back into them, the 64-bit build.

### Breakpoints

The debug registers `dr` of each thread are the slots enabled; an exception `exc`
carries the copy in the context record, which the handler edits (`Edit`) and the
processor loads when it returns (`Return`), so a write of `PatchThread` in between
is lost. `loop` is where `PatchThread` is: a pass ("val" and "ggr", the sweeps, "dump",
"set") has its snapshot of the threads, `todo`, and suspends, treats and
resumes one at a time. `lock` stands for the locks of the process (heap, loader)
that logging and `GetModuleHandle` need. Each pass may leave out a thread (a
snapshot or `OpenThread` that fails) or its registers (`Refused`: `GetThreadContext` or
`SetThreadContext`), and resumes it all the same; `MaxMisses` bounds how often.
Left out: a thread that is terminated while it is suspended, and a `SuspendThread`
or `ResumeThread` that fails for a thread that could be opened.

### Patcher

`pc` is where `DllMain` (`Attach`, `SetUp`, `StartThreads`) and then `PatchThread`
are: the CreateProcess hooks, in the client the handler and the stubs (`Body`), then
the groups of hooks in the order of its loop (`Enter`, `HookFunction`, `EndGroup`). Hooking
one function is a step: created and enabled, only created, or failed. Each thread
has a stack of hooked functions; a frame is before, in or behind the original, and
may be logging. `EnterHook`, `Log`, `LeaveHook` are the steps under
`g_inHook`; while a log runs, Windows may call a wait function of the client's
imports, which is hooked too. `told` is what the client learned of a parameter. The
windows are in their order on the screen, dialogs and others: the killer asks each for
its title, down to the first dialog, waits for one that hangs, and counts what it
posts. Each of the two `CreateThread`s may fail. A thread may be terminated inside a
hooked function (`Terminate`), and the dump of the threads may stop the loop and a
thread with it for good (`DumpThreadEips`, as the run `patcher_loop` shows).

Left out: addresses, texts, `DLL_PROCESS_DETACH`, the registers after a swallowed
access violation. The client's threads run from the end of `DllMain` on: the
wrapper resumes it then (it waits 15 s; a `DllMain` that takes longer is not
in the model). That `GetCommandLineA` logs only its first call is abstracted.

## The runs

| Run | Configuration | Expectation | States | What it shows |
|---|---|---|---|---|
| `entry` | `EntryServer` | pass | 332,432 | with handlers that only reply, each client's stream is its own replies, whole and in order, and implements `ReplyStreams`; a client that never reads delays nobody else, leavers are removed, shutdown completes |
| `lobby_broadcast` | `LobbyServer` | pass | 1,551,281 | the registry is exact; a broadcast reaches all; each sender's frames keep their order |
| `lobby_rooms` | `LobbyRooms` | pass | 925,306 | clients are told only of rooms that exist, a listed client misses none; requests are answered unless the process dies, the client hangs up, or a client that does not read holds the goroutine |
| `relay` | `Relay` | pass | 591,856 | datagrams go to their destination's own address, and in order networks to its newest; a signal ends the battle server, also with a failed listener |
| `launch_safe` | `LaunchSafe` | pass | 223,207 | chains are bounded, launched processes have the DLL, a cleanup that sees the processes ends what it found, nothing is left suspended |
| `minhook` | `MinHook` | pass | 186,468 | no thread that the library can move is left inside an instruction or in what is about to be freed; the lock is left; table, code, slots and blocks agree; trampolines do what prologues do |
| `breakpoints` | `Breakpoints` | pass | 105,761 | what was hit ends up disarmed, what was not is armed again, though a thread is missed; passes resume whom they suspend on every way out: only the dump can stop the loop |
| `patcher` | `Patcher` | pass | 322,054 | observers are untouched, the client cannot end itself, reads what it was told of, one log at a time runs under the flag; unless the dump is stuck, late modules are hooked, the flag is freed, dialogs are dismissed |
| `lobby_framing` | `LobbyFraming` | violation | | two broadcasts mix their chunks on one socket |
| `lobby_shutdown` | `LobbyShutdown` | violation | | a blocked broadcast keeps the server from stopping |
| `launch_cleanup` | `LaunchCleanup` | violation | | a client survives a cleanup |
| `patcher_loop` | `PatcherLoop` | violation | | the dump waits for a lock of the thread it has suspended |

The type invariants that TLAPS proves (next section) are checked by a run only for the
server and MinHook; `LoopNeedsHandler` is proved, too, and in no run.

### Bounds, and why they are enough

- *Server*: two connections, because registration, removal, a broadcast and a
  reply each involve at most two goroutines on one socket; one or two requests
  each, which gives up to four frames to one socket. `Cap = 1` makes
  every second Write wait, so all the ways to block occur; the larger
  `Cap` of `lobby_broadcast` and `lobby_framing` lets every interleaving of
  chunks occur instead. `Draining` names the clients that must read.
  `MaxReq` bounds requests, `Inputs` their kinds, for each client. Progress is checked without
  broadcasts (`entry`), since a broadcast to a client that never reads stops the
  others (`lobby_shutdown`); that one to clients that read ends and gives its lock
  back is checked in `lobby_rooms`, a message to a step. The symmetry
  of `lobby_broadcast` is over the two connections, in a safety run. HostIDs do
  not wrap with fewer than 2^31 - 2 connections in a run.
- *Rooms*: two clients, two requests of one and one of the other (to create, list or join), two names of which one is the
  unreadable one; enough for two stores at once, a store during a list, a list
  of several rooms and a client that connects between a store and its
  announcement.
- *Relay*: three datagrams, two of them of the client that may move once: an old
  datagram can arrive after one from the new address, twice.
- *Launching*: two consoles with a command each and four processes: a launch
  under a cleanup, or a wrapper, its wrapper, a client and the client it
  starts. A chain of three wrappers would fit, and does occur with the seeded
  fault of `ChainBounded`. `launch_cleanup` needs one console, two commands
  (launch, cleanup) and three processes.
- *MinHook*: two functions, so that a freeze covers a subset of the hooks. The first
  begins in one of three ways: with a jump that gets longer, with a branch that is
  refused, or too short, so that the jump goes above it; the second as most do. One
  thread, which runs both: `AtInstruction` and `RemovalEvacuates` are about each
  thread by itself, and threads meet only in the lists of a call.
  `Prologues`: all codes of up to three of 22 instructions before plain ones.
  A table of one entry must grow for two hooks and shrinks again. A block has two
  slots, so its free list is used, and it is freed and allocated again (`Bases`: at
  another address, perhaps); two blocks at once do not occur in the run, only in
  the theorem.
- *Breakpoints*: two threads and pairs of things they do: both swept sites in one,
  one site in both, other exceptions between them, creation of a process, allocation.
  Every pass meets a thread in each step of an exception. One thread is missed once
  (`MaxMisses`). The dump only suspends and resumes as far as the registers go, so
  it occurs once where a thread allocates, and otherwise not (`MaxDumps`).
- *Patcher*: one function in most groups, two in the one whose order matters; two
  threads and `PatchThread`; two functions that end the process; two dialogs below
  another window, of which the killer asks one at most `MaxKills` + 1 times; two events that the
  patcher does not decide (a failure, a module loaded, a call, a dialog, an exit, a window that hangs, a thread that stops):
  a failure before a call, a call in a call, one dialog above another.

Deadlock is checked in the runs of the services, of launching and of MinHook; the steps `Terminated`, `Over`, `Ended` and
`Quiet` say where the system may stop. In the client it is not: its
threads may all end, or wait for what never comes, as in `patcher_loop`.

### Fairness

- A goroutine, and the accept loop, that can take a step takes one (the Go
  scheduler): `WF_vars(Serve(c))`, `WF_vars(Accept(c))`, `CloseListener`,
  `AcceptStop`; the same for the relay's loop, the close of its socket and the TCP
  server's end. A lobby request under way goes on unless it is in a range with a
  client that does not read (`Stuck`), which the range may come to first.
- Clients owe nothing, except those of `Draining`, which read their socket.
- Commands and wrappers that have been started go on, and so does the hook; the
  waits of the injections have time-outs. A client need never end.
- The thread that made a call of MinHook goes on with it (`WF_vars(Work)`): none
  of its steps waits for a thread that it has suspended.
- In `Breakpoints`, strong fairness of `PatchThread`, which waits for a lock
  that is free again and again, and of what the threads do once an exception or an
  allocation has begun: a thread that is suspended and resumed again and again
  runs in between.
- In `Patcher`, strong fairness of `Enter`: the module of a group may be loaded at
  any moment of a round, and the loop comes round to the group. Once the dump is
  stuck (`NotWedged` is false) nothing is assumed of anybody. All else is weak: `PatchThread`, the killer, the hooked functions, and waits
  inside a log, which Windows ends. What the client's own calls wait for may
  never come, and dialogs may ignore what they are sent.

## The proofs

Each theorem holds for all values of the constants under the named assumption
of its module (`ServerAssumption`, `LobbyAssumption`, `RelayAssumption`,
`LaunchAssumption`, `BreakpointsAssumption`, `PatcherAssumption`,
`MinHookAssumption`), which say what kind of value each constant is;
`PatcherAssumption` also that the groups' functions differ and that
`GetParam` is hooked before `ExistsParam`, as the source has them, and
`MinHookAssumption` that the address space (`Bases`) is finite.
`CodesAssumption` says that the hooked functions are `Movable` and `Closed`, and
`Prologues` movable; nothing bounds how many they are or how long, how many
threads run them, or the sizes of the table and the blocks.

| Theorem | States | Further assumption |
|---|---|---|
| `TypeCorrect` | `TypeOK` of the server | |
| `RegistryCorrect` | `RegistryExact` | |
| `BroadcastComplete` | `BroadcastReachesAll` | |
| `SendersInOrder` | `SenderOrder` | |
| `RepliesFramed` | `WireFramed` | `ReplyOnly`: no handler broadcasts |
| `RepliesImplement` | `ImplementsReplyStreams` | `ReplyOnly` |
| `LobbyTypes` | `TypeOK` of the room table | |
| `ToldRoomsExist` | `ToldExists` | (in the property) no unnoticed race |
| `ViewsComplete` | `ViewComplete` | (in the property) no unnoticed race |
| `RelayTypes`, `OwnAddressOnly` | `TypeOK`, `OwnAddress` of the relay | |
| `NewestAddressUsed` | `NewestAddress` | (in the property) `fifo` |
| `LaunchTypes` | `TypeOK` of the processes | |
| `ChainIsBounded`, `LaunchedAlwaysHasDll` | `ChainBounded`, `LaunchedHasDll` | |
| `CleanupAlwaysReachesOld` | `CleanupReachesOld` | (in the property) administrator, no failed snapshot |
| `BreakpointTypes` | `TypeOK` of the breakpoints | |
| `PatcherTypes` | `TypeOK` of the patcher | |
| `ObserversStayUntouched`, `ExitsStayIgnored` | `ObserversUntouched`, `ExitsIgnored` | |
| `HandlerBeforeBreakpoints` | `LoopNeedsHandler` | |
| `ParamsCanBeRead`, `OneLogAtATime` | `ParamReadable`, `OneLogUnderFlag` | |
| `MovableIsFaithful` | every trampoline that is accepted is `Faithful` | `Movable` |
| `TrampolinesFaithful` | `TrampolineFaithful` | `CodesAssumption` |
| `TypeCorrect` (in `MinHook_proofs`) | `TypeOK` of MinHook | `CodesAssumption` |
| `TableAgreesWithCode` | `TableMatchesCode` of MinHook | |
| `ThreadsAtInstructions` | `AtInstruction` | `CodesAssumption` |
| `WritesEvacuate` | `RemovalEvacuates` | `CodesAssumption` |
| `SlotsAreAccounted` | `SlotsAccounted` | `CodesAssumption` |

### The arguments

- *Types* (`TypeInv`). `TypeOK` needs `CallPending`: a goroutine inside a call
  has that call at the head of `rest`, and one that writes has a target.
- *Registry* (`RegistryInv`). An entry could be overwritten, or another's
  deleted, if two connections had one id; hence `HostIDsDistinct`, which in turn
  needs the counter to be ahead of every id given.
- *Broadcast* (`ReaderInv`, `VisitedInv`). A reader is inside `Broadcast`; each
  connection it has visited has the frame, is dead, or is being written to.
  Sockets only grow (`SentGrows`) and the dead stay dead.
- *Order* (`NumbersInv`). `SenderOrder` alone is not inductive. No chunk has a number
  that its sender has not reached, and one of the call under way is only on
  sockets that call has been to (`MayHave`), so that what a Write appends has a
  greater number than all of its kind before it. The range yields no socket
  twice (`TargetVisited`).
- *Reply streams* (`OwnSocket`, `StreamInv`). Without broadcasts a goroutine
  writes to its own socket only; its n-th call makes chunks 2n - 1 and 2n, and
  the length of a live stream follows from the place of its goroutine. A header
  then maps to a stuttering step of `ReplyStreams`, a payload to `Deliver`.
- *Rooms* (`ToldInv`, `ViewInv`). What is announced or listed was stored. For
  completeness: a client knows each room whose creator is being answered, or has
  no whole list yet and the list in progress will hold it (`Covered`), since an
  announcement goes to whoever is online, and a store comes before it.
- *Relay* (`RelayInv`, `OrderInv`). Addresses in flight belong to their sender;
  with `fifo` what is still in flight is no older than what was seen, and
  `peers` is newest but for the datagram about to be filed.
- *Launching* (`BaseInv`). The tree of processes: places agree with images,
  numbers with creation (`Made`), children with parents (`Links`), labels with
  having a child (`HasChild`). Every step makes one process or none
  (`StepKinds`). On it rest `Second` (a wrapper's wrapper is marked and debugs
  what it makes), `Injected`, `OneChild` and `Remaining` (what ran when the
  cleanup began is a wrapper or still in its list, then still in its list, then
  gone: processes already made never change their image).
- *Breakpoints* (`LoopInHand`). `Resume` writes the registers of the thread that the
  loop has in hand, so the types need that it has one between `Suspend` and `Resume`.
- *Patcher* (`Stages`). Each place of `pc` says which parts of the armor
  are there or have failed, which groups can be hooked at all, and that `next` is
  in its group. The groups have no functions in common, so the hooks an observer gets
  are not of those that alter anything. A kill function without stub has failed
  (`StubsOrFailures`). `GetParam` has a hook or has failed before `ExistsParam`
  gets one (`ParamHooks`), and then what a client was told is readable
  (`ParamTold`). The flag has one owner (`OneOwner`), because only waits are entered
  from a log and one that finds the flag set does not log under it (`Shape`).

- *MinHook, the table* (`JobInv`). Whoever freezes holds the lock, and it is left only with
  nobody frozen. The calls that drop entries write "disable" to their scope, all
  targets for `MH_Uninitialize`; when the writing is over without failure nothing in the scope
  is enabled (`ScopeDisabled`), so an entry that is dropped is not of a patched
  function, and moving the last entry to its place loses none.
- *Trampolines* (`Copied`). A loop that ends with success has copied the first m
  instructions one by one, the m-th of which ended it (`BuildCopied`), and the offsets
  grow in both places. Up to the farthest internal destination every copy has its
  old length: forward because the loop refuses others, back because the code is
  `Movable`. So a copied jump, which keeps its distance, leads to the copy of
  its destination (`SameDistance`, `InternalJump`), and what is copied last leaves.
- *Threads* (`Inv2`). `AtInstruction` says nothing of frozen threads, which are moved
  before the code is written. `Pending` are the entries that the call has yet to
  write, and `Final` is what will be patched then: a thread that was moved is at an
  instruction of `Final`, every other one is at an instruction of what is patched
  now, or lost (`ThreadInv`). So a write, which takes one entry from `Pending` and
  leaves `Final` alone, need not touch the moved ones; of the others it disturbs only
  those in the bytes it writes (`Caught`). A thaw finds `Final` to be what is patched.
  Where a freeze was for the other action
  (`EnableHook`), it must not have moved anyone, and `JobPhase` says so. That a freeze puts a thread in
  its place is `MoveLands`: the offsets of the trampoline (`BuildFacts`) have each
  instruction that the jump overwrites, and targets differ, so only one of
  the hooks in turn moves a thread (`FoldFacts`). `Evacuated` says that no moved
  thread is in a trampoline, or at a jump, that is pending to go, nor at one that is
  pending to come; so if the writing stops half way, only threads moved back
  into a function are wrong (`ProtectInv2`). When an entry is removed, the threads in
  other trampolines still have theirs (`RemoveInv2`).
- *Slots* (`SlotInv`). Each block fits the set of slots in use (`BlockFits`): its list has each of the
  others once, and the used and the listed are all there are. A slot that is
  taken was not in use (`TakenFits`), one that is given back was (`FreeBufferFits`), and
  a block that is released with one has no other (`LastFits`); bases differ, and a
  new one exists while blocks are fewer than places (`PlaceExists`).

Facts about recursive functions are proved by the least counterexample, as sets of
naturals (`LeastExists`, `Inductive`, `Recursion`), because the library's induction
theorems take an operator.

### What is only model-checked

The liveness properties (`ClientsServed`, `LeaversRemoved`,
`ShutdownCompletes`, `RequestsAnswered`, `MainEnds`, `Awakened`, `CallsReturn`,
`DisarmedForGood`, `ArmedAgain`, `LoopsOrWedged`, `LateModulesHooked`,
`FlagFreed`, `DialogsDismissed`): liveness under fairness, and ENABLED, are outside
what the prover does. It cannot reason about RECURSIVE operators either, so the
modules above declare none. Every other property of a passing run is stated by a theorem.

## Where the code and its documents disagree

Shown by runs, with the quoted lines in `PROJECT.json`:

1. `lobby_framing`: `framing.go` promises framed messages, but `WriteFrame`
   makes two Writes that nothing serialises per connection; two broadcasts, or a
   broadcast and a reply, put a chunk between a prefix and its payload.
2. `lobby_shutdown`: `ListenAndServe` accepts "until ctx is cancelled", but a
   client that stops reading blocks a `Broadcast`, which holds the read lock, for
   which the accept loop waits before its next iteration.
3. `launch_cleanup`: `cleanup` promises a clean state, but looks for clients
   before wrappers, and a wrapper makes a client in between.
4. `patcher_loop`: the loop of `PatchThread` is to last as long as the process
   ("sonsuz loop: process oldukce patcher de yasar"), but
   `DumpThreadEips` asks for a module and logs while it holds a thread suspended:
   if that thread is in the heap or the loader, both wait for ever.

Seen while reading, and in the models as the code has them: one client that
does not read holds up registration and later broadcasts in the lobby; a
`LobbyList_Add` repeats all rooms before it; a join of an existing room panics
on the nil `Players` map; no code calls `RegisterPeer` for a joining client or
`UnregisterPeer` for a leaving one, so the first datagram to a silent peer is
dropped; the battle server goes on accepting logons when its relay has failed;
the wrapper resumes the client also when the injection failed, though its
header says the DLL is loaded first; `ifeo clear` succeeds also when
`RegDeleteValue` fails. Room creations share a Go map with no lock, and two at
once may end the process; its LobbyIDs repeat when a room is created again.

In the patcher: an access violation is swallowed first thing in the handler
(`patcher.cpp:259`), so the rescue described as re-enabled (:509) is never reached, nor are
the `__except` guards of its own reads, since vectored handlers run first; a
breakpoint that the comment at :3013 says is never armed again is, by the pass under
way, until a later pass; the sweep after the validation clears the other slots of every
thread until the next pass; a hook that was created and not enabled is never
enabled; stubs over the functions that end a process make "If external, allow"
(:756) and "Killed daemon" (:2989) ineffective; the comment at :3074 gives the payload
full armor, which the code gives the client only; the killer asks the topmost dialog only, and
waits for one that hangs.

In MinHook: `CreateTrampolineFunction` says "Can't alter the instruction length in a
branch" (`trampoline.c:264`), but a jump back over an instruction that got longer is
accepted and lands inside the copy; `Movable` leaves such functions out
(`BackOverLonger`). No function the patcher hooks begins so. The results of
`GetThreadContext`, `SetThreadContext` and `ResumeThread` are ignored, and a thread
that cannot be suspended does not keep a call from writing.

## What is not modelled

Beside the parts listed above: bytes and their lengths (so the 16-bit length of
a frame), the contents of replies, handler arguments beyond whether they are
accepted, addresses to listen on, TCP below the socket buffer, partial Writes,
LobbyIDs, the Windows loader, the time-outs of the injections as times. Of the
tool, `launch-args` differs from `launch` in arguments only;
`launch-unpacked`, `launch-launcher`, `inject`, `init`, `extract`, `patch` and the commands that
read a process are left out.

## Plan

Done: the server, the lobby, the relay, launching, the patcher and MinHook, with
the proofs of their safety properties. Next, in this order:

1. `Message`: cursor and length arithmetic of `message.go` and `framing.go`, with
   widths (a frame's length is 16 bits; a chat echo can be longer than the
   message it echoes), as functions without RECURSIVE; round trip of write and
   read over bounded inputs, and lemmas on the cursor.
2. `Credentials`: web login, launcher, entry, lobby, battle and the user
   database; whose token is accepted where.
3. The rest of the tool: `launch-unpacked`, `launch-launcher`, `inject`,
   `init`, as further commands of `GameLaunch`.
4. `LoginCapture`: read deadlines, the capture buffer and its limit.
5. `ApplyPatches` and the extractor: address translation, and the
   transformation against a reference definition, over bounded inputs.
6. A refinement of `Lobby` by an abstract room directory; `MinHook` as what `Patcher` hooks with.
