------------------------------ MODULE MinHook ------------------------------
(***************************************************************************)
(* MinHook, as it is built into the patcher DLL: the table of hooks, the   *)
(* freezing of the other threads while code is overwritten (hook.c) and    *)
(* the blocks of slots the trampolines are in (buffer.c).                  *)
(*                                                                         *)
(* A hooked function (Targets) starts with a code of module Trampoline.    *)
(* The threads of the process run these functions all the time, and ip is  *)
(* where each of them is, instruction by instruction:                      *)
(*   "fn"      at offset `at' of function `of'                             *)
(*   "above"   at the long jump before it                                  *)
(*   "tramp"   at offset `at' of its trampoline                            *)
(*   "detour"  in the function that replaces it, which may call the        *)
(*             trampoline                                                  *)
(*   "out"     anywhere else; "unborn" and "gone" before the thread starts *)
(*             and after it ends;                                          *)
(*   "lost"    in the middle of an instruction, or where no code is any    *)
(*             more.  Only a thread for which the library did not see to   *)
(*             that goes there: see Lose, and where it is used.            *)
(* Every call of the library is made under the spin lock by a thread of    *)
(* its own, so one record, job, is what the call under way has to do.      *)
(***************************************************************************)
EXTENDS Trampoline, FiniteSets, SequencesExt

CONSTANTS
    Targets,            \* the functions that are hooked
    Codes,              \* how each of them may begin
    Prologues,          \* further codes that TrampolineFaithful is about
    Called,             \* BOUND: those of them that each thread runs
    Threads,            \* the threads of the process
    InitialCapacity,    \* INITIAL_HOOK_CAPACITY
    SlotsPerBlock,      \* slots in a memory block
    Bases               \* BOUND: where VirtualAlloc finds place for a block

ASSUME MinHookAssumption ==
    /\ InitialCapacity \in Nat \ {0} /\ SlotsPerBlock \in Nat \ {0}
    /\ Codes \in [Targets -> SUBSET CodeTypes] /\ Prologues \subseteq CodeTypes
    /\ Called \in [Threads -> SUBSET Targets] /\ IsFiniteSet(Bases)

ASSUME CodesAssumption ==
    /\ \A t \in Targets : \A c \in Codes[t] : Movable(c) /\ Closed(c)
    /\ \A c \in Prologues : Movable(c)

\* The trampolines of these codes, and where instructions start.
AllCodes == UNION {Codes[t] : t \in Targets}
Built == [c \in AllCodes |-> Build(c)]
StartsIn == [c \in AllCodes |-> Starts(c)]

VARIABLES
    locked,     \* g_isLocked
    heap,       \* g_hHeap is not NULL
    hooks,      \* g_hooks.pItems, the g_hooks.size entries in use
    capacity,   \* g_hooks.capacity; 0 while pItems is NULL
    blocks,     \* g_pMemoryBlocks: [base, free, used], in the list's order
    code,       \* what each target begins with
    patched,    \* the targets that begin with the hook's jump instead
    ip,         \* where each thread is
    frozen,     \* the threads that the call under way has suspended
    moved,      \* those of them whose place it could read and set
    stuck,      \* the threads that were not resumed
    job         \* the call under way

bufferVars == << heap, capacity, blocks >>
suspendVars == << frozen, moved, stuck >>
vars == << locked, bufferVars, hooks, code, patched, ip, suspendVars, job >>

At(area, t, o) == [area |-> area, of |-> t, at |-> o]
Away(area) == [area |-> area]
Into(area, t, o) == IF o = Out THEN Away("out") ELSE At(area, t, o)

Find(t) == {i \in DOMAIN hooks : hooks[i].target = t}
Entry(t) == hooks[CHOOSE i \in Find(t) : TRUE]

NoJob == [call |-> "none", scope |-> {}, action |-> "enable", write |-> "enable",
          todo |-> {}, ok |-> TRUE]

Init ==
    /\ locked = FALSE /\ heap = FALSE
    /\ hooks = << >> /\ capacity = 0 /\ blocks = << >>
    /\ code \in {f \in [Targets -> AllCodes] :
                    \A t \in Targets : f[t] \in Codes[t]}
    /\ patched = {}
    /\ ip = [th \in Threads |-> Away("unborn")]
    /\ frozen = {} /\ moved = {} /\ stuck = {} /\ job = NoJob

-----------------------------------------------------------------------------
(* The slots: buffer.c *)

WithRoom(bs) == {i \in DOMAIN bs : bs[i].free # << >>}

\* GetMemoryBlock: a new block goes first, its last slot first.
MemoryBlocks(bs) ==
    IF WithRoom(bs) # {} THEN bs
    ELSE << [base |-> CHOOSE b \in Bases : \A i \in DOMAIN bs : bs[i].base # b, used |-> 0,
             free |-> [k \in 1 .. SlotsPerBlock |-> SlotsPerBlock + 1 - k]] >> \o bs

FirstWithRoom(bs) == CHOOSE i \in WithRoom(bs) : \A j \in WithRoom(bs) : i <= j

\* AllocateBuffer: the first free slot of the first block that has one.
SlotOf(bs) == LET b == bs[FirstWithRoom(bs)] IN << b.base, Head(b.free) >>
Taken(bs) ==
    LET i == FirstWithRoom(bs)
    IN  [bs EXCEPT ![i] = [bs[i] EXCEPT !.free = Tail(@), !.used = @ + 1]]

BlockOf(bs, slot) == CHOOSE i \in DOMAIN bs : bs[i].base = slot[1]

\* Seeded fault: the block is released although other slots are in use.
FreeBufferBlock(bs, slot) == RemoveAt(bs, BlockOf(bs, slot))

\* Seeded fault: a block without used slots is kept.
FreeBufferKeep(bs, slot) ==
    LET i == BlockOf(bs, slot)
    IN  [bs EXCEPT ![i] = [bs[i] EXCEPT !.free = << slot[2] >> \o @, !.used = @ - 1]]

\* The slot goes first in the free ones of its block; a block without used
\* slots is released.
FreeBuffer(bs, slot) ==
    LET i == BlockOf(bs, slot)
    IN  IF bs[i].used = 1 THEN RemoveAt(bs, i)
        ELSE [bs EXCEPT ![i] = [bs[i] EXCEPT !.free = << slot[2] >> \o @, !.used = @ - 1]]

-----------------------------------------------------------------------------
(* The calls that leave the other threads alone *)

MH_Initialize ==
    /\ ~locked /\ ~heap
    /\ heap' = TRUE
    /\ UNCHANGED << locked, hooks, capacity, blocks, code, patched, ip, suspendVars, job >>

\* AddHookEntry makes room for one more entry.
Grown ==
    IF capacity = 0 THEN InitialCapacity
    ELSE IF Len(hooks) >= capacity THEN capacity * 2
    ELSE capacity

\* MH_CreateHook of a target without an entry gets a slot for it, and then
\* succeeds, or gives it back because the target cannot be hooked (Build) or
\* there is no memory for the entry.
MH_CreateHook(t) ==
    LET b == Built[code[t]]
        bs == MemoryBlocks(blocks)
    IN  /\ ~locked /\ heap /\ Find(t) = {}
        /\ WithRoom(blocks) # {} \/ Len(blocks) < Cardinality(Bases)
        /\ \/ /\ b.ok
              /\ blocks' = Taken(bs)
              /\ capacity' = Grown
              /\ hooks' = Append(hooks, [target |-> t, slot |-> SlotOf(bs), above |-> b.above,
                                         ips |-> b.ips, enabled |-> FALSE, queued |-> FALSE])
           \/ /\ blocks' = FreeBuffer(Taken(bs), SlotOf(bs))
              /\ UNCHANGED << capacity, hooks >>
        /\ UNCHANGED << locked, heap, code, patched, ip, suspendVars, job >>

\* QueueHook, for one target or for all.
QueueHook(scope, on) ==
    /\ ~locked /\ heap
    /\ hooks' = [i \in DOMAIN hooks |->
                   IF hooks[i].target \in scope THEN [hooks[i] EXCEPT !.queued = on]
                   ELSE hooks[i]]
    /\ UNCHANGED << locked, bufferVars, code, patched, ip, suspendVars, job >>

-----------------------------------------------------------------------------
(* The calls that overwrite code *)

\* What an action makes of an entry.
Wanted(action, h) ==
    CASE action = "enable"  -> TRUE
      [] action = "disable" -> FALSE
      [] action = "queued"  -> h.queued

\* The entries among scope that action changes.
Changed(scope, action) ==
    {i \in DOMAIN hooks : hooks[i].target \in scope /\ hooks[i].enabled # Wanted(action, hooks[i])}

\* EnterSpinLock, and EnumerateThreads if there is something to change.
\* (Without a list of the threads the call fails at once.)
Begin(call, scope, action, write) ==
    /\ ~locked /\ heap
    /\ locked' = TRUE
    /\ job' = [call |-> call, scope |-> scope, action |-> action, write |-> write, ok |-> TRUE,
               todo |-> IF Changed(scope, write) = {} THEN {}
                        ELSE {th \in Threads : ip[th].area \notin {"unborn", "gone"}}]
    /\ UNCHANGED << bufferVars, hooks, code, patched, ip, suspendVars >>

Switch(on) == IF on THEN "enable" ELSE "disable"

\* EnableHook of one target: the freeze is told ACTION_ENABLE in any case.
EnableHook(t, on) ==
    /\ Changed({t}, Switch(on)) # {}
    /\ Begin("enable", {t}, "enable", Switch(on))

\* EnableHook of MH_ALL_HOOKS.
EnableAllHooksLL(on) ==
    /\ Changed(Targets, Switch(on)) # {}
    /\ Begin("enable", Targets, Switch(on), Switch(on))

MH_ApplyQueued ==
    /\ Changed(Targets, "queued") # {}
    /\ Begin("enable", Targets, "queued", "queued")

MH_RemoveHook(t) == Find(t) # {} /\ Begin("remove", {t}, "disable", "disable")
MH_Uninitialize == Begin("uninitialize", Targets, "disable", "disable")

\* Seeded fault: the offset in the function is used in the trampoline.
FindNewIPSame(h, p) ==
    LET k == {n \in DOMAIN h.ips : p = At("fn", h.target, h.ips[n].old)}
    IN  IF k = {} THEN p ELSE At("tramp", h.target, p.at)

FindNewIP(h, p) ==
    LET k == {n \in DOMAIN h.ips : p = At("fn", h.target, h.ips[n].old)}
    IN  IF k = {} THEN p ELSE At("tramp", h.target, h.ips[CHOOSE n \in k : TRUE].new)

FindOldIP(h, p) ==
    LET k == {n \in DOMAIN h.ips : p = At("tramp", h.target, h.ips[n].new)}
    IN  CASE h.above /\ p = At("above", h.target, 0) -> At("fn", h.target, 0)
          [] k # {} -> Into("fn", h.target, Place(h.ips[CHOOSE n \in k : TRUE].old))
          [] OTHER  -> p

Passed(h) == h.target \notin job.scope \/ h.enabled = Wanted(job.action, h)

\* Seeded fault: the threads stay where they are in hooks to be disabled.
MovedNew(h, p) == IF Passed(h) THEN p ELSE FindNewIP(h, p)

\* Where one hook, and all the hooks in turn, send a thread that is at p.
Moved(h, p) ==
    IF Passed(h) THEN p ELSE IF h.enabled THEN FindOldIP(h, p) ELSE FindNewIP(h, p)

ProcessThreadIPs(p) ==
    LET after[n \in 0 .. Len(hooks)] == IF n = 0 THEN p ELSE Moved(hooks[n], after[n - 1])
    IN  after[Len(hooks)]

\* Freeze suspends a thread, and moves it if need be.  A thread that is gone is
\* not suspended, nor one that OpenThread or SuspendThread refuses; and one whose
\* context is refused stays where it is.
Freeze(th) ==
    /\ th \in job.todo
    /\ job' = [job EXCEPT !.todo = @ \ {th}]
    /\ \/ UNCHANGED << ip, frozen, moved >>
       \/ /\ ip[th].area # "gone"
          /\ frozen' = frozen \cup {th}
          /\ \/ UNCHANGED << ip, moved >>
             \/ /\ moved' = moved \cup {th}
                /\ ip' = [ip EXCEPT ![th] = ProcessThreadIPs(@)]
    /\ UNCHANGED << locked, bufferVars, hooks, code, patched, stuck >>

\* All are frozen; what is left to write, and whether the call goes on to thaw.
ToWrite == IF job.call # "none" /\ job.todo = {} /\ job.ok
           THEN Changed(job.scope, job.write) ELSE {}
Thawing == job.call # "none" /\ job.todo = {} /\ ToWrite = {}

\* Is p the start of an instruction, if the entries hs and the targets pt
\* are what is in memory?
OnInstruction(p, hs, pt) ==
    CASE p.area = "fn" ->
           /\ p.at \in StartsIn[code[p.of]]
           /\ p.of \in pt =>
                p.at \notin 1 .. (IF Built[code[p.of]].above THEN ShortLen ELSE JmpLen) - 1
      [] p.area = "above" -> p.of \in pt
      [] p.area = "tramp" ->
           \E i \in DOMAIN hs : hs[i].target = p.of /\ \E k \in DOMAIN hs[i].ips : hs[i].ips[k].new = p.at
      [] OTHER -> p.area # "lost"

\* The threads of ths that are in the middle of an instruction are lost.
Lose(ths, hs, pt) ==
    [th \in Threads |-> IF th \in ths /\ ~OnInstruction(ip[th], hs, pt) THEN Away("lost")
                        ELSE ip[th]]

\* The threads in the bytes that are overwritten: those that run, because they
\* were not in the list or could not be suspended; those whose context was
\* refused; and all, when EnableHook has frozen them for the other action.
Caught(t, on) ==
    {th \in Threads \ (IF job.action = job.write THEN moved ELSE {}) :
        ip[th].area = (IF on THEN "fn" ELSE "above") /\ ip[th].of = t}

\* EnableHookLL of the next entry.
EnableHookLL ==
    LET i == CHOOSE j \in ToWrite : \A k \in ToWrite : j <= k
        on == Wanted(job.write, hooks[i])
    IN  /\ ToWrite # {}
        /\ patched' = IF on THEN patched \cup {hooks[i].target} ELSE patched \ {hooks[i].target}
        /\ hooks' = [hooks EXCEPT ![i] = [@ EXCEPT !.enabled = on, !.queued = on]]
        /\ ip' = Lose(Caught(hooks[i].target, on), hooks', patched')
        /\ UNCHANGED << locked, bufferVars, code, suspendVars, job >>

\* The threads that were moved back into a function from which the hook is not
\* taken away after all: they are in the middle of its jump.
MovedBack ==
    {th \in moved : /\ ip[th].area = "fn"
                    /\ \E i \in ToWrite : hooks[i].enabled /\ hooks[i].target = ip[th].of}

\* VirtualProtect fails, which ends the loop.
ProtectFails ==
    /\ ToWrite # {}
    /\ ip' = Lose(MovedBack, hooks, patched)
    /\ job' = [job EXCEPT !.ok = FALSE]
    /\ UNCHANGED << locked, bufferVars, hooks, code, patched, suspendVars >>

\* Seeded fault: the threads are resumed only by a call that succeeds.
UnfreezeOk(th) ==
    /\ Thawing /\ job.ok /\ th \in frozen
    /\ frozen' = frozen \ {th} /\ moved' = moved \ {th}
    /\ UNCHANGED << locked, bufferVars, hooks, code, patched, ip, stuck, job >>

\* A thread that OpenThread or ResumeThread refuses stays suspended for good.
Unfreeze(th) ==
    /\ Thawing /\ th \in frozen
    /\ frozen' = frozen \ {th} /\ moved' = moved \ {th}
    /\ stuck' \in {stuck, stuck \cup {th}}
    /\ UNCHANGED << locked, bufferVars, hooks, code, patched, ip, job >>

\* A call that removes nothing, or has failed, leaves the spin lock.
LeaveSpinLock ==
    /\ Thawing /\ frozen = {} /\ (job.call = "enable" \/ ~job.ok)
    /\ locked' = FALSE /\ job' = NoJob
    /\ UNCHANGED << bufferVars, hooks, code, patched, ip, suspendVars >>

\* Seeded fault: the entries behind entry i are dropped with it.
WithoutRest(i) == SubSeq(hooks, 1, i - 1)

\* DeleteHookEntry: the last entry takes the place of entry i.
Without(i) == SubSeq([hooks EXCEPT ![i] = hooks[Len(hooks)]], 1, Len(hooks) - 1)

\* DeleteHookEntry halves the table if that is enough, and HeapReAlloc works.
Shrunk ==
    IF capacity \div 2 >= InitialCapacity /\ capacity \div 2 >= Len(hooks) - 1
    THEN {capacity, capacity \div 2} ELSE {capacity}

\* The threads in the trampolines of these functions: the freeze has moved out
\* those that it could, but a thread may be in a trampoline of a hook that was
\* disabled before, or enter it from the detour when it has been resumed.
InTrampolines(ts) == {th \in Threads : ip[th].area = "tramp" /\ ip[th].of \in ts}

\* MH_RemoveHook frees the trampoline.
DeleteHookEntry ==
    /\ Thawing /\ frozen = {} /\ job.call = "remove" /\ job.ok
    /\ \E i \in DOMAIN hooks :
        /\ hooks[i].target \in job.scope
        /\ blocks' = FreeBuffer(blocks, hooks[i].slot)
        /\ hooks' = Without(i)
        /\ ip' = Lose(InTrampolines({hooks[i].target}), hooks', patched)
    /\ capacity' \in Shrunk
    /\ locked' = FALSE /\ job' = NoJob
    /\ UNCHANGED << heap, code, patched, suspendVars >>

\* MH_Uninitialize frees all of them, the table and the heap.
Destroy ==
    /\ Thawing /\ frozen = {} /\ job.call = "uninitialize" /\ job.ok
    /\ heap' = FALSE /\ hooks' = << >> /\ capacity' = 0 /\ blocks' = << >>
    /\ ip' = Lose(InTrampolines(Targets), hooks', patched)
    /\ locked' = FALSE /\ job' = NoJob
    /\ UNCHANGED << code, patched, suspendVars >>

-----------------------------------------------------------------------------
(* The threads *)

Move(th, p) ==
    /\ th \notin frozen \cup stuck
    /\ ip' = [ip EXCEPT ![th] = p]
    /\ UNCHANGED << locked, bufferVars, hooks, code, patched, suspendVars, job >>

ThreadStart(th) == ip[th].area = "unborn" /\ Move(th, Away("out"))
ThreadExit(th) == ip[th].area = "out" /\ Move(th, Away("gone"))
CallTarget(th, t) == ip[th].area = "out" /\ Move(th, At("fn", t, 0))

\* An instruction of the function, or the jump that the hook put there.
StepFunction(th) ==
    LET p == ip[th]
    IN  /\ p.area = "fn" /\ th \notin frozen \cup stuck
        /\ IF p.at = 0 /\ p.of \in patched
           THEN Move(th, At(IF Built[code[p.of]].above THEN "above" ELSE "detour", p.of, 0))
           ELSE \E o \in AfterInst(code[p.of], p.at) : Move(th, Into("fn", p.of, o))

StepAbove(th) == ip[th].area = "above" /\ Move(th, At("detour", ip[th].of, 0))

\* The detour calls the original function through the trampoline, be it there or
\* not, or does not.
StepDetour(th) ==
    LET t == ip[th].of
    IN  /\ ip[th].area = "detour"
        /\ \/ Move(th, IF Find(t) = {} THEN Away("lost") ELSE At("tramp", t, 0))
           \/ Move(th, Away("out"))

StepTrampoline(th) ==
    LET p == ip[th]
    IN  /\ p.area = "tramp" /\ th \notin frozen \cup stuck
        /\ \E o \in AfterCopy(code[p.of], Entry(p.of).ips, p.at) : Move(th, Into("tramp", p.of, o))

-----------------------------------------------------------------------------
Start ==
    \/ MH_Initialize \/ MH_ApplyQueued \/ MH_Uninitialize
    \/ \E t \in Targets : MH_RemoveHook(t) \/ MH_CreateHook(t)
    \/ \E on \in BOOLEAN :
        \/ EnableAllHooksLL(on) \/ QueueHook(Targets, on)
        \/ \E t \in Targets : EnableHook(t, on) \/ QueueHook({t}, on)

Work ==
    \/ EnableHookLL \/ ProtectFails \/ LeaveSpinLock \/ DeleteHookEntry \/ Destroy
    \/ \E th \in Threads : Freeze(th) \/ Unfreeze(th)

Run(th) ==
    \/ ThreadStart(th) \/ ThreadExit(th) \/ \E t \in Called[th] : CallTarget(th, t)
    \/ StepFunction(th) \/ StepAbove(th) \/ StepDetour(th) \/ StepTrampoline(th)

Next == Start \/ Work \/ \E th \in Threads : Run(th)

Spec == Init /\ [][Next]_vars

\* The thread that made a call goes on with it.
FairSpec == Spec /\ WF_vars(Work)

-----------------------------------------------------------------------------
Positions ==
    [area : {"unborn", "gone", "lost", "out"}]
        \cup [area : {"fn", "above", "tramp", "detour"}, of : Targets, at : Nat]
EntryTypes ==
    [target : Targets, slot : Bases \X (1 .. SlotsPerBlock), above : BOOLEAN,
     ips : Seq([old : Nat, new : Nat]), enabled : BOOLEAN, queued : BOOLEAN]
BlockTypes ==
    [base : Bases, free : Seq(1 .. SlotsPerBlock), used : 1 .. SlotsPerBlock]
Actions == {"enable", "disable", "queued"}
JobTypes ==
    [call : {"none", "enable", "remove", "uninitialize"}, scope : SUBSET Targets,
     action : Actions, write : Actions, todo : SUBSET Threads, ok : BOOLEAN]

\* The state has the shape that the declarations of hook.c and buffer.c give
\* it; no block is kept without used slots.
TypeOK ==
    /\ locked \in BOOLEAN /\ heap \in BOOLEAN
    /\ hooks \in Seq(EntryTypes) /\ capacity \in Nat /\ blocks \in Seq(BlockTypes)
    /\ \A t \in Targets : code[t] \in Codes[t]
    /\ patched \subseteq Targets
    /\ frozen \subseteq Threads /\ moved \subseteq frozen /\ stuck \subseteq Threads
    /\ ip \in [Threads -> Positions] /\ job \in JobTypes

\* A thread that runs is at the start of an instruction that is there, in the
\* function as it is now, or in a trampoline that is still an entry's, however
\* calls of the library and the steps of the threads interleave.  Lost are: a
\* thread in the bytes that are overwritten that was not suspended, whose context
\* was refused, or whose freeze was for the other action (Caught); one moved back
\* before VirtualProtect failed (MovedBack); and one in a trampoline that is freed
\* (InTrampolines), or that its detour calls after that (StepDetour).
AtInstruction ==
    \A th \in Threads \ frozen :
        ip[th].area # "lost" => OnInstruction(ip[th], hooks, patched)

\* When a freeze for disabling has been followed by the write, no thread that it
\* could move is left in what is about to be freed: the trampoline and the jump
\* above.
RemovalEvacuates ==
    [][job.action = job.write =>
         \A th \in moved, t \in patched \ patched' :
            ~(ip[th].area \in {"tramp", "above"} /\ ip[th].of = t)]_vars

\* The functions that begin with a jump to their detour are those whose entry
\* says so, and each target has one entry: what is patched can be restored.
TableMatchesCode ==
    /\ \A i, j \in DOMAIN hooks : hooks[i].target = hooks[j].target => i = j
    /\ patched = {hooks[i].target : i \in {j \in DOMAIN hooks : hooks[j].enabled}}

\* The slots of a block that are not free are those of its entries, each of
\* one entry; no trampoline is written over, and none is leaked.
SlotsAccounted ==
    /\ Len(hooks) <= capacity
    /\ \A i, j \in DOMAIN hooks : hooks[i].slot = hooks[j].slot => i = j
    /\ \A i \in DOMAIN hooks : \E b \in DOMAIN blocks : blocks[b].base = hooks[i].slot[1]
    /\ \A b \in DOMAIN blocks :
        LET mine == {i \in DOMAIN hooks : hooks[i].slot[1] = blocks[b].base}
            free == {blocks[b].free[k] : k \in DOMAIN blocks[b].free}
        IN  /\ blocks[b].used = Cardinality(mine)
            /\ Cardinality(free) = Len(blocks[b].free)
            /\ free = 1 .. SlotsPerBlock \ {hooks[i].slot[2] : i \in mine}

\* A trampoline that is built does, instruction by instruction, what the start
\* of its target does.  (No step changes what this says: TLC evaluates it
\* once, before the first thread starts.)
TrampolineFaithful ==
    (\A th \in Threads : ip[th].area = "unborn") /\ ~heap => \A c \in Prologues : Faithful(c)

\* The spin lock is free again and again, whatever is refused, so no call waits
\* for it for ever.
CallsReturn == []<>~locked
=============================================================================
