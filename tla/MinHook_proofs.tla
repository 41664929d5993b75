---------------------------- MODULE MinHook_proofs ----------------------------
(***************************************************************************)
(* Proofs about MinHook, for any functions whose internal jumps can be     *)
(* moved, any threads and any sizes of the table and the blocks: the table *)
(* agrees with the code that is patched; the threads that run are at       *)
(* instructions; the slots are accounted for.                              *)
(***************************************************************************)
EXTENDS MinHook, Trampoline_proofs, FiniteSetTheorems

\* What an entry is made of; S has all slots and tables of offsets.
EntryOf(S) ==
    [target : Targets, slot : S, above : S, ips : S, enabled : BOOLEAN, queued : BOOLEAN]

Table == \E S : hooks \in Seq(EntryOf(S))

\* A call that removes an entry has frozen the threads to disable it.
JobInv ==
    /\ locked \in BOOLEAN /\ job \in JobTypes
    /\ locked <=> job.call # "none"
    /\ ~locked => job.todo = {} /\ frozen = {}
    /\ job.call \in {"remove", "uninitialize"} => job.write = "disable"
    /\ job.call = "uninitialize" => job.scope = Targets

Inv == Table /\ JobInv /\ TableMatchesCode

LEMMA InitInv == Init => Inv
<1> SUFFICES ASSUME Init PROVE Inv
  OBVIOUS
<1> USE DEF Init
<1>1. hooks \in Seq(EntryOf({}))
  OBVIOUS
<1>2. Table
  BY <1>1 DEF Table
<1>3. JobInv
  BY DEF JobInv, NoJob, JobTypes, Actions
<1>4. TableMatchesCode
  BY DEF TableMatchesCode
<1> QED
  BY <1>2, <1>3, <1>4 DEF Inv

\* An entry may be changed in its flags, and belong to more slots.
LEMMA EntryFacts ==
    ASSUME NEW S, NEW h \in EntryOf(S), NEW on \in BOOLEAN
    PROVE  /\ [h EXCEPT !.queued = on] \in EntryOf(S)
           /\ [h EXCEPT !.queued = on].target = h.target
           /\ [h EXCEPT !.queued = on].enabled = h.enabled
           /\ [h EXCEPT !.enabled = on, !.queued = on] \in EntryOf(S)
           /\ [h EXCEPT !.enabled = on, !.queued = on].target = h.target
           /\ [h EXCEPT !.enabled = on, !.queued = on].enabled = on
  BY DEF EntryOf

\* A step that leaves table, code and job alone.
Aside == UNCHANGED << hooks, patched, locked, suspendVars, job >>

LEMMA AsideInv == Inv /\ Aside => Inv'
  BY DEF Inv, Aside, Table, JobInv, TableMatchesCode, suspendVars

-----------------------------------------------------------------------------
(* The table under each operation *)

LEMMA CreateInv ==
    ASSUME Inv, NEW t \in Targets, MH_CreateHook(t)
    PROVE  Inv'
<1> DEFINE b == Built[code[t]]
           bs == MemoryBlocks(blocks)
           e == [target |-> t, slot |-> SlotOf(bs), above |-> b.above,
                 ips |-> b.ips, enabled |-> FALSE, queued |-> FALSE]
<1>1. UNCHANGED << patched, locked, suspendVars, job >>
  BY DEF MH_CreateHook
<1>2. CASE hooks' = hooks
  BY <1>1, <1>2, AsideInv DEF Aside, suspendVars
<1>3. CASE hooks' = Append(hooks, e)
  <2>1. PICK S : hooks \in Seq(EntryOf(S))
    BY DEF Inv, Table
  <2> DEFINE S2 == S \cup {SlotOf(bs), b.above, b.ips}
  <2>2. e \in EntryOf(S2)
    BY DEF EntryOf
  <2>3. hooks \in Seq(EntryOf(S2))
    <3>1. EntryOf(S) \subseteq EntryOf(S2)
      BY DEF EntryOf
    <3> QED
      BY <2>1, <3>1, SeqMonotonic
  <2>4. \A i \in DOMAIN hooks : hooks[i].target # t
    BY DEF MH_CreateHook, Find
  <2>5. e.target = t /\ e.enabled = FALSE
    OBVIOUS
  <2> HIDE DEF e, S2
  <2>6. /\ hooks' \in Seq(EntryOf(S2))
        /\ DOMAIN hooks' = DOMAIN hooks \cup {Len(hooks) + 1}
        /\ Len(hooks) + 1 \notin DOMAIN hooks
        /\ \A i \in DOMAIN hooks : hooks'[i] = hooks[i]
        /\ hooks'[Len(hooks) + 1] = e
    BY <2>2, <2>3, <1>3
  <2>7. Table'
    BY <2>6 DEF Table
  <2>8. TableMatchesCode'
    <3>1. \A i, j \in DOMAIN hooks' : hooks'[i].target = hooks'[j].target => i = j
      BY <2>4, <2>5, <2>6 DEF Inv, TableMatchesCode
    <3>2. {hooks'[i].target : i \in {j \in DOMAIN hooks' : hooks'[j].enabled}}
            = {hooks[i].target : i \in {j \in DOMAIN hooks : hooks[j].enabled}}
      BY <2>5, <2>6
    <3> QED
      BY <1>1, <3>1, <3>2 DEF Inv, TableMatchesCode
  <2>9. JobInv'
    BY <1>1 DEF Inv, JobInv, suspendVars
  <2> QED
    BY <2>7, <2>8, <2>9 DEF Inv
<1> QED
  BY <1>2, <1>3 DEF MH_CreateHook

LEMMA QueueInv ==
    ASSUME Inv, NEW scope, NEW on \in BOOLEAN, QueueHook(scope, on)
    PROVE  Inv'
<1>1. UNCHANGED << patched, locked, frozen, job >>
  BY DEF QueueHook, suspendVars
<1>2. PICK S : hooks \in Seq(EntryOf(S))
  BY DEF Inv, Table
<1>3. \A i \in DOMAIN hooks : hooks[i] \in EntryOf(S)
  BY <1>2
<1>4. /\ DOMAIN hooks' = DOMAIN hooks
      /\ \A i \in DOMAIN hooks : /\ hooks'[i] \in EntryOf(S)
                                 /\ hooks'[i].target = hooks[i].target
                                 /\ hooks'[i].enabled = hooks[i].enabled
  <2>1. DOMAIN hooks' = DOMAIN hooks
    BY DEF QueueHook
  <2>2. ASSUME NEW i \in DOMAIN hooks
        PROVE  /\ hooks'[i] \in EntryOf(S)
               /\ hooks'[i].target = hooks[i].target
               /\ hooks'[i].enabled = hooks[i].enabled
    <3>1. hooks[i] \in EntryOf(S)
      BY <1>3
    <3> DEFINE h == [hooks[i] EXCEPT !.queued = on]
    <3>2. hooks'[i] = h \/ hooks'[i] = hooks[i]
      BY DEF QueueHook
    <3>3. h \in EntryOf(S) /\ h.target = hooks[i].target /\ h.enabled = hooks[i].enabled
      BY <3>1 DEF EntryOf
    <3> HIDE DEF h
    <3> QED
      BY <3>1, <3>2, <3>3
  <2> QED
    BY <2>1, <2>2
<1>5. hooks' \in Seq(EntryOf(S))
  <2>1. Len(hooks) \in Nat /\ DOMAIN hooks = 1 .. Len(hooks)
    BY <1>2
  <2>2. hooks' = [i \in 1 .. Len(hooks) |-> hooks'[i]]
    BY <2>1 DEF QueueHook
  <2> QED
    BY <1>4, <2>1, <2>2, IsASeq
<1>6. TableMatchesCode'
  BY <1>1, <1>4 DEF Inv, TableMatchesCode
<1> QED
  BY <1>1, <1>5, <1>6 DEF Inv, Table, JobInv

\* A write sets the flags of one entry.
LEMMA WriteEntry ==
    ASSUME Inv, EnableHookLL
    PROVE  \E i \in DOMAIN hooks, on \in BOOLEAN :
              /\ hooks' = [hooks EXCEPT ![i] = [@ EXCEPT !.enabled = on, !.queued = on]]
              /\ patched' = IF on THEN patched \cup {hooks[i].target} ELSE patched \ {hooks[i].target}
<1> DEFINE i == CHOOSE j \in ToWrite : \A k \in ToWrite : j <= k
           on == Wanted(job.write, hooks[i])
<1>1. PICK S : hooks \in Seq(EntryOf(S))
  BY DEF Inv, Table
<1>2. ToWrite \subseteq DOMAIN hooks /\ DOMAIN hooks = 1 .. Len(hooks) /\ Len(hooks) \in Nat
  BY <1>1 DEF ToWrite, Changed
<1>3. i \in DOMAIN hooks
  <2>1. ToWrite # {} /\ ToWrite \subseteq Nat
    BY <1>2 DEF EnableHookLL
  <2>2. \E j \in ToWrite : \A k \in ToWrite : j <= k
    BY <2>1, LeastExists
  <2> QED
    BY <1>2, <2>2
<1>4. on \in BOOLEAN
  <2>1. hooks[i] \in EntryOf(S)
    BY <1>1, <1>3
  <2>2. job.write \in Actions
    BY DEF Inv, JobInv, JobTypes
  <2> QED
    BY <2>1, <2>2 DEF Wanted, Actions, EntryOf
<1>5. /\ hooks' = [hooks EXCEPT ![i] = [@ EXCEPT !.enabled = on, !.queued = on]]
      /\ patched' = IF on THEN patched \cup {hooks[i].target} ELSE patched \ {hooks[i].target}
  BY DEF EnableHookLL
<1> HIDE DEF i, on
<1> QED
  BY <1>3, <1>4, <1>5

LEMMA WriteInv ==
    ASSUME Inv, EnableHookLL
    PROVE  Inv'
<1>1. PICK S : hooks \in Seq(EntryOf(S))
  BY DEF Inv, Table
<1>2. PICK i \in DOMAIN hooks, on \in BOOLEAN :
        /\ hooks' = [hooks EXCEPT ![i] = [@ EXCEPT !.enabled = on, !.queued = on]]
        /\ patched' = IF on THEN patched \cup {hooks[i].target} ELSE patched \ {hooks[i].target}
  BY WriteEntry
<1>3. i \in DOMAIN hooks
  OBVIOUS
<1>4. hooks[i] \in EntryOf(S) /\ on \in BOOLEAN
  BY <1>1
<1>5. /\ UNCHANGED << locked, frozen, job >>
      /\ hooks' = [hooks EXCEPT ![i] = [@ EXCEPT !.enabled = on, !.queued = on]]
      /\ patched' = IF on THEN patched \cup {hooks[i].target} ELSE patched \ {hooks[i].target}
  BY <1>2 DEF EnableHookLL, suspendVars
<1>6. /\ hooks' \in Seq(EntryOf(S)) /\ DOMAIN hooks' = DOMAIN hooks
      /\ hooks'[i].target = hooks[i].target /\ hooks'[i].enabled = on
      /\ \A j \in DOMAIN hooks \ {i} : hooks'[j] = hooks[j]
  <2> DEFINE e == [hooks[i] EXCEPT !.enabled = on, !.queued = on]
  <2>1. e \in EntryOf(S) /\ e.target = hooks[i].target /\ e.enabled = on
    BY <1>4, EntryFacts
  <2>2. hooks' = [hooks EXCEPT ![i] = e]
    BY <1>5
  <2> HIDE DEF e
  <2> QED
    BY <1>1, <1>3, <2>1, <2>2
<1>7. \A j, k \in DOMAIN hooks : hooks[j].target = hooks[k].target => j = k
  BY DEF Inv, TableMatchesCode
<1>8. TableMatchesCode'
  <2>1. \A j, k \in DOMAIN hooks' : hooks'[j].target = hooks'[k].target => j = k
    BY <1>6, <1>7
  <2>2. ASSUME NEW t PROVE t \in patched' <=> \E j \in DOMAIN hooks' : hooks'[j].enabled /\ hooks'[j].target = t
    <3>1. t \in patched <=> \E j \in DOMAIN hooks : hooks[j].enabled /\ hooks[j].target = t
      BY DEF Inv, TableMatchesCode
    <3>2. CASE t = hooks[i].target
      BY <1>3, <1>4, <1>5, <1>6, <1>7, <3>2
    <3>3. CASE t # hooks[i].target
      BY <1>3, <1>5, <1>6, <3>1, <3>3
    <3> QED
      BY <3>2, <3>3
  <2> QED
    BY <2>1, <2>2 DEF TableMatchesCode
<1> QED
  BY <1>5, <1>6, <1>8 DEF Inv, Table, JobInv

\* When the writing is over, what a call was to disable is disabled.
LEMMA ScopeDisabled ==
    ASSUME Inv, Thawing, job.ok, job.write = "disable",
           NEW i \in DOMAIN hooks, hooks[i].target \in job.scope
    PROVE  ~hooks[i].enabled
<1>1. PICK S : hooks \in Seq(EntryOf(S))
  BY DEF Inv, Table
<1>2. hooks[i].enabled \in BOOLEAN
  <2>1. hooks[i] \in EntryOf(S)
    BY <1>1
  <2> QED
    BY <2>1 DEF EntryOf
<1>3. i \notin Changed(job.scope, job.write)
  BY DEF Thawing, ToWrite
<1> QED
  BY <1>2, <1>3 DEF Changed, Wanted

\* What is left of a sequence when the last element takes the place of one.
LEMMA WithoutFacts ==
    ASSUME NEW S, hooks \in Seq(S), NEW i \in DOMAIN hooks
    PROVE  /\ Without(i) \in Seq(S) /\ DOMAIN Without(i) = 1 .. Len(hooks) - 1
           /\ Len(Without(i)) = Len(hooks) - 1
           /\ \A k \in 1 .. Len(hooks) - 1 :
                Without(i)[k] = IF k = i THEN hooks[Len(hooks)] ELSE hooks[k]
<1> DEFINE n == Len(hooks)  s == [hooks EXCEPT ![i] = hooks[n]]
<1>1. n \in Nat /\ DOMAIN hooks = 1 .. n /\ i \in 1 .. n /\ hooks[n] \in S
  OBVIOUS
<1>2. s \in Seq(S) /\ Len(s) = n /\ \A k \in 1 .. n : s[k] = IF k = i THEN hooks[n] ELSE hooks[k]
  BY <1>1
<1>3. Without(i) = SubSeq(s, 1, n - 1)
  BY DEF Without
<1> HIDE DEF s
<1> QED
  BY <1>1, <1>2, <1>3, SubSeqProperties

LEMMA DeleteInv ==
    ASSUME Inv, DeleteHookEntry
    PROVE  Inv'
<1>1. PICK S : hooks \in Seq(EntryOf(S))
  BY DEF Inv, Table
<1>2. PICK i \in DOMAIN hooks : hooks[i].target \in job.scope /\ hooks' = Without(i)
  BY DEF DeleteHookEntry
<1>3. ~hooks[i].enabled
  BY <1>2, ScopeDisabled DEF DeleteHookEntry, Inv, JobInv
<1>4. patched' = patched /\ frozen' = frozen /\ frozen = {} /\ locked' = FALSE /\ job' = NoJob
  BY DEF DeleteHookEntry, suspendVars
<1> DEFINE n == Len(hooks)
<1>5. n \in Nat /\ DOMAIN hooks = 1 .. n /\ i \in 1 .. n /\ hooks[n] \in EntryOf(S)
  BY <1>1, <1>2
<1>6. /\ hooks' \in Seq(EntryOf(S)) /\ DOMAIN hooks' = 1 .. n - 1
      /\ \A k \in 1 .. n - 1 : hooks'[k] = IF k = i THEN hooks[n] ELSE hooks[k]
  BY <1>1, <1>2, WithoutFacts
<1>7. \A j, k \in DOMAIN hooks : hooks[j].target = hooks[k].target => j = k
  BY DEF Inv, TableMatchesCode
<1>8. TableMatchesCode'
  <2>1. \A j, k \in DOMAIN hooks' : hooks'[j].target = hooks'[k].target => j = k
    BY <1>5, <1>6, <1>7
  <2>2. ASSUME NEW t PROVE t \in patched' <=> \E j \in DOMAIN hooks' : hooks'[j].enabled /\ hooks'[j].target = t
    <3>1. t \in patched <=> \E j \in DOMAIN hooks : hooks[j].enabled /\ hooks[j].target = t
      BY DEF Inv, TableMatchesCode
    <3>2. ASSUME NEW j \in DOMAIN hooks', hooks'[j].enabled, hooks'[j].target = t
          PROVE  \E k \in DOMAIN hooks : hooks[k].enabled /\ hooks[k].target = t
      BY <1>5, <1>6, <3>2
    <3>3. ASSUME NEW k \in DOMAIN hooks, hooks[k].enabled, hooks[k].target = t
          PROVE  \E j \in DOMAIN hooks' : hooks'[j].enabled /\ hooks'[j].target = t
      <4>1. k # i
        BY <1>3, <3>3
      <4>2. CASE k = n
        BY <1>5, <1>6, <3>3, <4>1, <4>2
      <4>3. CASE k # n
        BY <1>5, <1>6, <3>3, <4>1, <4>3
      <4> QED
        BY <4>2, <4>3
    <3> QED
      BY <1>4, <3>1, <3>2, <3>3
  <2> QED
    BY <2>1, <2>2 DEF TableMatchesCode
<1>9. JobInv'
  BY <1>4 DEF JobInv, NoJob, JobTypes, Actions
<1> QED
  BY <1>6, <1>8, <1>9 DEF Inv, Table

LEMMA DestroyInv ==
    ASSUME Inv, Destroy
    PROVE  Inv'
<1>1. /\ hooks' = << >> /\ patched' = patched /\ frozen' = frozen /\ frozen = {}
      /\ locked' = FALSE /\ job' = NoJob
  BY DEF Destroy, suspendVars
<1>2. PICK S : hooks \in Seq(EntryOf(S))
  BY DEF Inv, Table
<1>3. ASSUME NEW i \in DOMAIN hooks PROVE ~hooks[i].enabled
  <2>1. hooks[i] \in EntryOf(S)
    BY <1>2
  <2>2. hooks[i].target \in Targets
    BY <2>1 DEF EntryOf
  <2> QED
    BY <2>2, ScopeDisabled DEF Destroy, Inv, JobInv
<1>4. patched = {}
  BY <1>3 DEF Inv, TableMatchesCode
<1>5. hooks' \in Seq(EntryOf({})) /\ DOMAIN hooks' = {}
  BY <1>1
<1>6. TableMatchesCode'
  BY <1>1, <1>4, <1>5 DEF TableMatchesCode
<1>7. JobInv'
  BY <1>1 DEF JobInv, NoJob, JobTypes, Actions
<1> QED
  BY <1>5, <1>6, <1>7 DEF Inv, Table

-----------------------------------------------------------------------------
(* The calls that freeze and thaw *)

LEMMA BeginInv ==
    ASSUME Inv, NEW call \in {"enable", "remove", "uninitialize"}, NEW scope \in SUBSET Targets,
           NEW action \in Actions, NEW write \in Actions, Begin(call, scope, action, write),
           call # "enable" => write = "disable", call = "uninitialize" => scope = Targets
    PROVE  Inv'
<1>1. UNCHANGED << hooks, patched, frozen >> /\ locked' = TRUE
  BY DEF Begin, suspendVars
<1>2. /\ job' \in JobTypes /\ job'.call = call /\ job'.scope = scope /\ job'.write = write
  BY DEF Begin, JobTypes
<1>3. JobInv'
  BY <1>1, <1>2 DEF JobInv
<1> QED
  BY <1>1, <1>3 DEF Inv, Table, TableMatchesCode

\* The job of a call under way changes in its list and its result only.
LEMMA FreezeInv ==
    ASSUME Inv, NEW th \in Threads, Freeze(th) \/ Unfreeze(th)
    PROVE  Inv'
<1>1. locked /\ UNCHANGED << hooks, patched, locked >>
  BY DEF Freeze, Unfreeze, Inv, JobInv, Thawing, ToWrite
<1>2. /\ job' \in JobTypes
      /\ job'.call = job.call /\ job'.scope = job.scope /\ job'.write = job.write
  BY DEF Freeze, Unfreeze, Inv, JobInv, JobTypes
<1>3. JobInv'
  BY <1>1, <1>2 DEF Inv, JobInv
<1> QED
  BY <1>1, <1>3 DEF Inv, Table, TableMatchesCode

LEMMA ProtectInv == Inv /\ ProtectFails => Inv'
<1> SUFFICES ASSUME Inv, ProtectFails PROVE Inv'
  OBVIOUS
<1>1. locked /\ UNCHANGED << hooks, patched, locked, frozen >>
  BY DEF ProtectFails, suspendVars, Inv, JobInv, ToWrite
<1>2. /\ job' \in JobTypes
      /\ job'.call = job.call /\ job'.scope = job.scope /\ job'.write = job.write
  BY DEF ProtectFails, Inv, JobInv, JobTypes
<1>3. JobInv'
  BY <1>1, <1>2 DEF Inv, JobInv
<1> QED
  BY <1>1, <1>3 DEF Inv, Table, TableMatchesCode

LEMMA LeaveInv == Inv /\ LeaveSpinLock => Inv'
<1> SUFFICES ASSUME Inv, LeaveSpinLock PROVE Inv'
  OBVIOUS
<1>1. /\ UNCHANGED << hooks, patched, frozen >> /\ frozen = {}
      /\ locked' = FALSE /\ job' = NoJob
  BY DEF LeaveSpinLock, suspendVars
<1>2. JobInv'
  BY <1>1 DEF JobInv, NoJob, JobTypes, Actions
<1> QED
  BY <1>1, <1>2 DEF Inv, Table, TableMatchesCode

LEMMA StartInv == Inv /\ Start => Inv'
<1> SUFFICES ASSUME Inv, Start PROVE Inv'
  OBVIOUS
<1> USE DEF Actions, Switch
<1>1. CASE MH_Initialize
  BY <1>1, AsideInv DEF MH_Initialize, Aside
<1>2. CASE MH_ApplyQueued
  BY <1>2, BeginInv DEF MH_ApplyQueued
<1>3. CASE MH_Uninitialize
  BY <1>3, BeginInv DEF MH_Uninitialize
<1>4. ASSUME NEW t \in Targets, MH_RemoveHook(t) PROVE Inv'
  BY <1>4, BeginInv DEF MH_RemoveHook
<1>5. ASSUME NEW t \in Targets, MH_CreateHook(t) PROVE Inv'
  BY <1>5, CreateInv
<1>6. ASSUME NEW on \in BOOLEAN, EnableAllHooksLL(on) PROVE Inv'
  BY <1>6, BeginInv DEF EnableAllHooksLL
<1>7. ASSUME NEW on \in BOOLEAN, NEW scope, QueueHook(scope, on) PROVE Inv'
  BY <1>7, QueueInv
<1>8. ASSUME NEW on \in BOOLEAN, NEW t \in Targets, EnableHook(t, on) PROVE Inv'
  BY <1>8, BeginInv DEF EnableHook
<1> QED
  BY <1>1, <1>2, <1>3, <1>4, <1>5, <1>6, <1>7, <1>8 DEF Start

LEMMA NextInv == Inv /\ [Next]_vars => Inv'
<1> SUFFICES ASSUME Inv, [Next]_vars PROVE Inv'
  OBVIOUS
<1>1. CASE UNCHANGED vars
  BY <1>1, AsideInv DEF vars, Aside
<1>2. CASE Start
  BY <1>2, StartInv
<1>3. CASE Work
  <2>1. CASE EnableHookLL
    BY <2>1, WriteInv
  <2>2. CASE LeaveSpinLock
    BY <2>2, LeaveInv
  <2>3. CASE DeleteHookEntry
    BY <2>3, DeleteInv
  <2>4. CASE Destroy
    BY <2>4, DestroyInv
  <2>5. CASE ProtectFails
    BY <2>5, ProtectInv
  <2>6. ASSUME NEW th \in Threads, Freeze(th) \/ Unfreeze(th) PROVE Inv'
    BY <2>6, FreezeInv
  <2> QED
    BY <1>3, <2>1, <2>2, <2>3, <2>4, <2>5, <2>6 DEF Work
<1>4. ASSUME NEW th \in Threads, Run(th) PROVE Inv'
  <2>1. \E p : Move(th, p)
    BY <1>4 DEF Run, ThreadStart, ThreadExit, CallTarget, StepFunction, StepAbove,
         StepDetour, StepTrampoline
  <2> QED
    BY <2>1, AsideInv DEF Move, Aside
<1> QED
  BY <1>1, <1>2, <1>3, <1>4 DEF Next

(* However calls, failures and removals follow each other, the functions    *)
(* that begin with a jump are those of the entries that say so, and no      *)
(* function has two entries.                                                *)
THEOREM TableAgreesWithCode == Spec => []TableMatchesCode
<1>1. Inv => TableMatchesCode
  BY DEF Inv
<1> QED
  BY InitInv, NextInv, <1>1, PTL DEF Spec

-----------------------------------------------------------------------------
(* Where the threads are.  A thread that has been moved is where it will be *)
(* right when what is pending has been written; it is nowhere that a        *)
(* pending write is about to free.  The others, those that run and those    *)
(* that were suspended only, are where they are right now, or lost.         *)

CodesKnown == \A t \in Targets : code[t] \in Codes[t]

\* Every entry has the trampoline of its target.
EntriesBuilt ==
    \A i \in DOMAIN hooks :
        /\ hooks[i].target \in Targets /\ hooks[i].enabled \in BOOLEAN /\ hooks[i].queued \in BOOLEAN
        /\ Built[code[hooks[i].target]].ok
        /\ hooks[i].above = Built[code[hooks[i].target]].above
        /\ hooks[i].ips = Built[code[hooks[i].target]].ips

\* What the call has yet to write, and what is patched when it has.
Pending == IF job.call # "none" /\ job.ok THEN Changed(job.scope, job.write) ELSE {}
Toggled == {hooks[i].target : i \in Pending}
Final ==
    IF job.action = job.write THEN (patched \ Toggled) \cup (Toggled \ patched) ELSE patched

JobPhase ==
    /\ job.todo # {} => job.call # "none" /\ job.ok
    /\ job.todo \cap frozen = {} /\ moved \subseteq frozen
    /\ job.todo # {} /\ job.action # job.write => Changed(job.scope, job.action) = {}

AtJump(p) == p.area = "above" => p.at = 0 /\ Built[code[p.of]].above
Evacuated(p) ==
    \A i \in Pending :
        p.area = "above" \/ (p.area = "tramp" /\ hooks[i].enabled) => p.of # hooks[i].target

\* OnInstruction of a thread that is not lost, with the codes as a parameter.
Fits(cd, p, hs, pt) ==
    /\ p.area = "fn" =>
         /\ p.at \in StartsIn[cd[p.of]]
         /\ p.of \in pt =>
              p.at \notin 1 .. (IF Built[cd[p.of]].above THEN ShortLen ELSE JmpLen) - 1
    /\ p.area = "above" => p.of \in pt
    /\ p.area = "tramp" =>
         \E i \in DOMAIN hs : hs[i].target = p.of /\ \E k \in DOMAIN hs[i].ips : hs[i].ips[k].new = p.at

ThreadInv ==
    /\ ip \in [Threads -> Positions] /\ moved \subseteq Threads
    /\ \A th \in Threads : AtJump(ip[th])
    /\ \A th \in Threads \ moved : Fits(code, ip[th], hooks, patched)
    /\ \A th \in moved : Fits(code, ip[th], hooks, Final)
    /\ job.action = job.write => \A th \in moved : Evacuated(ip[th])

Inv2 == CodesKnown /\ EntriesBuilt /\ JobPhase /\ ThreadInv

LEMMA CodeFacts ==
    ASSUME CodesKnown, NEW t \in Targets
    PROVE  /\ code[t] \in CodeTypes /\ Movable(code[t]) /\ Closed(code[t])
           /\ Built[code[t]] = Build(code[t]) /\ StartsIn[code[t]] = Starts(code[t])
<1>1. code[t] \in Codes[t] /\ Codes[t] \subseteq CodeTypes
  BY MinHookAssumption DEF CodesKnown
<1>2. code[t] \in AllCodes
  BY <1>1 DEF AllCodes
<1>3. Movable(code[t]) /\ Closed(code[t])
  BY <1>1, CodesAssumption
<1> QED
  BY <1>1, <1>2, <1>3 DEF Built, StartsIn

LEMMA AreaFacts ==
    ASSUME NEW p \in Positions
    PROVE  \/ p.area \in {"unborn", "gone", "lost", "out"}
           \/ p.area = "detour" /\ p.of \in Targets /\ p.at \in Nat
           \/ p.area \in {"fn", "above", "tramp"} /\ p.of \in Targets /\ p.at \in Nat
  BY DEF Positions

\* Places that the model makes.
LEMMA PlaceFacts ==
    ASSUME NEW t \in Targets, NEW area \in {"fn", "above", "tramp", "detour"}
    PROVE  /\ \A o \in Nat :
                /\ At(area, t, o) \in Positions /\ Into(area, t, o) = At(area, t, o)
                /\ At(area, t, o).area = area /\ At(area, t, o).of = t /\ At(area, t, o).at = o
           /\ Into(area, t, Out) = Away("out")
           /\ \A a \in {"unborn", "gone", "lost", "out"} : Away(a) \in Positions /\ Away(a).area = a
<1>1. \A o \in Nat : o # Out
  BY DEF Out
<1> QED
  BY <1>1 DEF At, Away, Into, Positions

LEMMA AtFields == \A a, t, o : At(a, t, o).area = a /\ At(a, t, o).of = t /\ At(a, t, o).at = o
  BY DEF At

-----------------------------------------------------------------------------
(* How a freeze moves a thread *)

\* A hook moves threads in its own function and trampoline only.
Touches(h, p) == p.area \in {"fn", "above", "tramp"} /\ p.of = h.target

LEMMA MovedFacts ==
    ASSUME CodesKnown, EntriesBuilt, NEW i \in DOMAIN hooks, NEW p \in Positions
    PROVE  /\ Moved(hooks[i], p) \in Positions
           /\ ~Touches(hooks[i], p) => Moved(hooks[i], p) = p
           /\ Moved(hooks[i], p).area = "out" \/ Moved(hooks[i], p) = p
                \/ Moved(hooks[i], p).of = hooks[i].target
<1> DEFINE h == hooks[i]  t == h.target
<1>1. t \in Targets /\ Built[code[t]].ok /\ h.ips = Built[code[t]].ips
  BY DEF EntriesBuilt
<1>2. \A k \in DOMAIN h.ips : h.ips[k].old \in Nat /\ h.ips[k].new \in Nat
  BY <1>1, CodeFacts, BuildFacts
<1> HIDE DEF h, t
<1>3. /\ FindNewIP(h, p) \in Positions
      /\ FindNewIP(h, p) = p \/ (p.area = "fn" /\ p.of = h.target /\ FindNewIP(h, p).of = h.target)
  <2> DEFINE k == {n \in DOMAIN h.ips : p = At("fn", h.target, h.ips[n].old)}
  <2>1. CASE k = {}
    BY <2>1 DEF FindNewIP
  <2>2. CASE k # {}
    <3>1. PICK n \in DOMAIN h.ips : n = (CHOOSE x \in k : TRUE) /\ p = At("fn", h.target, h.ips[n].old)
      BY <2>2
    <3>2. p.area = "fn" /\ p.of = h.target
      <4>1. p = At("fn", h.target, h.ips[n].old)
        BY <3>1
      <4> QED
        BY ONLY <4>1, AtFields
    <3>3. FindNewIP(h, p) = At("tramp", h.target, h.ips[n].new)
      BY <2>2, <3>1 DEF FindNewIP
    <3>4. h.target \in Targets /\ h.ips[n].new \in Nat
      BY <1>1, <1>2 DEF t
    <3> QED
      BY <3>2, <3>3, <3>4, PlaceFacts
  <2> QED
    BY <2>1, <2>2
<1>4. /\ FindOldIP(h, p) \in Positions
      /\ \/ FindOldIP(h, p) = p
         \/ /\ p.area \in {"above", "tramp"} /\ p.of = h.target
            /\ FindOldIP(h, p).area = "out" \/ FindOldIP(h, p).of = h.target
  <2> DEFINE k == {n \in DOMAIN h.ips : p = At("tramp", h.target, h.ips[n].new)}
  <2>1. CASE h.above /\ p = At("above", h.target, 0)
    <3>1. p.area = "above" /\ p.of = h.target
      BY <2>1, AtFields
    <3>2. k = {}
      BY <3>1, AtFields
    <3>3. FindOldIP(h, p) = At("fn", h.target, 0)
      BY <2>1, <3>2 DEF FindOldIP
    <3> QED
      BY <1>1, <3>1, <3>3, PlaceFacts DEF t
  <2>2. CASE ~(h.above /\ p = At("above", h.target, 0)) /\ k # {}
    <3>1. PICK n \in DOMAIN h.ips : n = (CHOOSE x \in k : TRUE) /\ p = At("tramp", h.target, h.ips[n].new)
      BY <2>2
    <3>2. p.area = "tramp" /\ p.of = h.target
      <4>1. p = At("tramp", h.target, h.ips[n].new)
        BY <3>1
      <4> QED
        BY ONLY <4>1, AtFields
    <3>3. FindOldIP(h, p) = Into("fn", h.target, Place(h.ips[n].old))
      BY <2>2, <3>1 DEF FindOldIP
    <3>4. h.target \in Targets /\ (Place(h.ips[n].old) = Out \/ Place(h.ips[n].old) \in Nat)
      BY <1>1, <1>2 DEF t, Place
    <3> QED
      BY <3>2, <3>3, <3>4, PlaceFacts
  <2>3. CASE ~(h.above /\ p = At("above", h.target, 0)) /\ k = {}
    BY <2>3 DEF FindOldIP
  <2> QED
    BY <2>1, <2>2, <2>3
<1>5. Moved(h, p) \in {p, FindNewIP(h, p), FindOldIP(h, p)}
  BY DEF Moved
<1> QED
  BY <1>3, <1>4, <1>5 DEF h, Touches

TableIsSequence == Len(hooks) \in Nat /\ DOMAIN hooks = 1 .. Len(hooks)
TargetsDiffer == \A i, j \in DOMAIN hooks : hooks[i].target = hooks[j].target => i = j

\* The loop of ProcessThreadIPs over the entries.
LEMMA FoldExists ==
    ASSUME CodesKnown, EntriesBuilt, TableIsSequence, NEW p \in Positions
    PROVE  \E after \in [0 .. Len(hooks) -> Positions] :
              /\ after[0] = p /\ ProcessThreadIPs(p) = after[Len(hooks)]
              /\ \A n \in 1 .. Len(hooks) : after[n] = Moved(hooks[n], after[n - 1])
<1> DEFINE N == Len(hooks)
           step == [n \in 1 .. N |-> [x \in Positions |-> Moved(hooks[n], x)]]
           Is(f) == f = [n \in 0 .. N |-> IF n = 0 THEN p ELSE Moved(hooks[n], f[n - 1])]
<1>1. N \in Nat /\ \A n \in 1 .. N, x \in Positions : Moved(hooks[n], x) \in Positions
  BY MovedFacts DEF TableIsSequence
<1>2. ProcessThreadIPs(p) = (CHOOSE g : Is(g))[N]
  BY DEF ProcessThreadIPs
<1> HIDE DEF N
<1>3. step \in [1 .. N -> [Positions -> Positions]]
  BY <1>1
<1>4. PICK f : IsRecursion(f, N, Positions, p, step)
  <2> HIDE DEF step
  <2> QED
    BY <1>1, <1>3, Recursion
<1>5. /\ f \in [0 .. N -> Positions] /\ f[0] = p
      /\ \A n \in 1 .. N : f[n] = Moved(hooks[n], f[n - 1])
  <2>1. f \in [0 .. N -> Positions] /\ f[0] = p /\ \A n \in 1 .. N : f[n] = step[n][f[n - 1]]
    <3> HIDE DEF step
    <3> QED
      BY <1>4 DEF IsRecursion
  <2>2. ASSUME NEW n \in 1 .. N PROVE f[n] = Moved(hooks[n], f[n - 1])
    <3>1. f[n - 1] \in Positions
      BY <1>1, <2>1
    <3> QED
      BY <2>1, <3>1
  <2> QED
    BY <2>1, <2>2
<1> HIDE DEF step
<1>6. Is(f)
  BY <1>1, <1>5
<1> DEFINE r == CHOOSE g : Is(g)
<1> HIDE DEF Is
<1>7. Is(r)
  BY <1>6
<1> HIDE DEF r
<1>8. r = [n \in 0 .. N |-> IF n = 0 THEN p ELSE Moved(hooks[n], r[n - 1])]
  BY <1>7 DEF Is
<1>9. r[0] = p /\ \A n \in 1 .. N : r[n] = Moved(hooks[n], r[n - 1])
  BY <1>1, <1>8
<1>10. \A n \in 0 .. N : r[n] \in Positions
  <2> DEFINE Z == {n \in 0 .. N : r[n] \in Positions}
  <2>1. 0 \in Z
    BY <1>1, <1>9
  <2>2. \A n \in 1 .. N : n - 1 \in Z => n \in Z
    BY <1>1, <1>9
  <2> HIDE DEF Z
  <2>3. \A n \in 0 .. N : n \in Z
    BY <1>1, <2>1, <2>2, Inductive
  <2> QED
    BY <2>3 DEF Z
<1>11. r \in [0 .. N -> Positions]
  BY <1>8, <1>10
<1>12. ProcessThreadIPs(p) = r[N]
  BY <1>2 DEF r
<1> QED
  BY <1>9, <1>11, <1>12 DEF N

\* Of all the entries only that of the function the thread is in moves it.
LEMMA FoldFacts ==
    ASSUME CodesKnown, EntriesBuilt, TableIsSequence, TargetsDiffer, NEW p \in Positions
    PROVE  /\ (\A i \in DOMAIN hooks : ~Touches(hooks[i], p)) => ProcessThreadIPs(p) = p
           /\ \A j \in DOMAIN hooks :
                Touches(hooks[j], p) => ProcessThreadIPs(p) = Moved(hooks[j], p)
<1> DEFINE N == Len(hooks)
<1>1. PICK after \in [0 .. N -> Positions] :
        /\ after[0] = p /\ ProcessThreadIPs(p) = after[N]
        /\ \A n \in 1 .. N : after[n] = Moved(hooks[n], after[n - 1])
  BY FoldExists
<1>2. N \in Nat /\ DOMAIN hooks = 1 .. N
  BY DEF TableIsSequence
<1> HIDE DEF N
<1>3. \A n \in 1 .. N, x \in Positions : ~Touches(hooks[n], x) => Moved(hooks[n], x) = x
  BY <1>2, MovedFacts
<1>4. ASSUME \A i \in 1 .. N : ~Touches(hooks[i], p) PROVE ProcessThreadIPs(p) = p
  <2> DEFINE Z == {n \in 0 .. N : after[n] = p}
  <2>1. 0 \in Z
    BY <1>1, <1>2
  <2>2. \A n \in 1 .. N : n - 1 \in Z => n \in Z
    BY <1>1, <1>3, <1>4
  <2> HIDE DEF Z
  <2>3. \A n \in 0 .. N : n \in Z
    BY <1>2, <2>1, <2>2, Inductive
  <2>4. N \in Z
    BY <1>2, <2>3
  <2> QED
    BY <1>1, <2>4 DEF Z
<1>5. ASSUME NEW j \in 1 .. N, Touches(hooks[j], p) PROVE ProcessThreadIPs(p) = Moved(hooks[j], p)
  <2> DEFINE q == Moved(hooks[j], p)
             Z == {n \in 0 .. N : after[n] = IF n < j THEN p ELSE q}
  <2>1. ASSUME NEW n \in 1 .. N, n # j PROVE ~Touches(hooks[n], p) /\ ~Touches(hooks[n], q)
    <3>1. hooks[n].target # hooks[j].target
      BY <1>2, <2>1 DEF TargetsDiffer
    <3>2. ~Touches(hooks[n], p)
      BY <1>5, <3>1 DEF Touches
    <3>3. q.area = "out" \/ q = p \/ q.of = hooks[j].target
      BY <1>2, MovedFacts
    <3> HIDE DEF q
    <3> QED
      BY <3>1, <3>2, <3>3 DEF Touches
  <2>2. q \in Positions
    BY <1>2, MovedFacts
  <2> HIDE DEF q
  <2>3. 0 \in Z
    BY <1>1, <1>2
  <2>4. ASSUME NEW n \in 1 .. N, n - 1 \in Z PROVE n \in Z
    <3>1. after[n] = Moved(hooks[n], after[n - 1])
      BY <1>1
    <3>2. CASE n < j
      BY <1>3, <2>1, <2>4, <3>1, <3>2
    <3>3. CASE n = j
      BY <2>4, <3>1, <3>3 DEF q
    <3>4. CASE n > j
      <4>1. ~(n - 1 < j) /\ ~(n < j) /\ n # j
        BY <3>4
      <4> QED
        BY <1>3, <2>1, <2>2, <2>4, <3>1, <4>1
    <3> QED
      BY <3>2, <3>3, <3>4
  <2> HIDE DEF Z
  <2>5. \A n \in 0 .. N : n \in Z
    BY <1>2, <2>3, <2>4, Inductive
  <2>6. N \in Z /\ ~(N < j)
    BY <1>2, <2>5
  <2> QED
    BY <1>1, <2>6 DEF Z, q
<1> QED
  BY <1>2, <1>4, <1>5

LEMMA OnFacts ==
    ASSUME NEW p, NEW hs, NEW pt
    PROVE  /\ p.area = "fn" =>
                (OnInstruction(p, hs, pt) <=>
                   /\ p.at \in StartsIn[code[p.of]]
                   /\ p.of \in pt =>
                        p.at \notin 1 .. (IF Built[code[p.of]].above THEN ShortLen ELSE JmpLen) - 1)
           /\ p.area = "above" => (OnInstruction(p, hs, pt) <=> p.of \in pt)
           /\ p.area = "tramp" =>
                (OnInstruction(p, hs, pt) <=>
                   \E i \in DOMAIN hs :
                      hs[i].target = p.of /\ \E k \in DOMAIN hs[i].ips : hs[i].ips[k].new = p.at)
           /\ p.area \notin {"fn", "above", "tramp"} => (OnInstruction(p, hs, pt) <=> p.area # "lost")
  BY DEF OnInstruction

LEMMA PositionIsAt ==
    ASSUME NEW p \in Positions, p.area \in {"fn", "above", "tramp", "detour"}
    PROVE  p = At(p.area, p.of, p.at)
  BY DEF Positions, At

\* What is patched, and will be, as far as the entries are concerned.
LEMMA FinalFacts ==
    ASSUME EntriesBuilt, TableMatchesCode
    PROVE  /\ TargetsDiffer
           /\ \A i \in DOMAIN hooks : hooks[i].enabled <=> hooks[i].target \in patched
           /\ \A i \in DOMAIN hooks : i \in Pending <=> hooks[i].target \in Toggled
           /\ \A t : t \in patched \cup Toggled => \E i \in DOMAIN hooks : hooks[i].target = t
           /\ Pending \subseteq DOMAIN hooks
<1>1. TargetsDiffer /\ patched = {hooks[i].target : i \in {j \in DOMAIN hooks : hooks[j].enabled}}
  BY DEF TableMatchesCode, TargetsDiffer
<1>2. Pending \subseteq DOMAIN hooks
  BY DEF Pending, Changed
<1>3. \A i \in DOMAIN hooks : hooks[i].enabled <=> hooks[i].target \in patched
  BY <1>1 DEF TargetsDiffer
<1>4. \A i \in DOMAIN hooks : i \in Pending <=> hooks[i].target \in Toggled
  BY <1>1, <1>2 DEF TargetsDiffer, Toggled
<1>5. \A t : t \in patched \cup Toggled => \E i \in DOMAIN hooks : hooks[i].target = t
  BY <1>1, <1>2 DEF Toggled
<1> QED
  BY <1>1, <1>2, <1>3, <1>4, <1>5

\* A freeze moves a thread to where it is right when all is written.
LEMMA MoveLands ==
    ASSUME CodesKnown, EntriesBuilt, TableIsSequence, TableMatchesCode,
           job.todo # {}, JobPhase, job.action = job.write,
           NEW p \in Positions, OnInstruction(p, hooks, patched), AtJump(p)
    PROVE  /\ ProcessThreadIPs(p) \in Positions /\ AtJump(ProcessThreadIPs(p))
           /\ OnInstruction(ProcessThreadIPs(p), hooks, Final) /\ Evacuated(ProcessThreadIPs(p))
<1> DEFINE q == ProcessThreadIPs(p)
<1>1. /\ TargetsDiffer /\ Pending \subseteq DOMAIN hooks
      /\ \A i \in DOMAIN hooks : hooks[i].enabled <=> hooks[i].target \in patched
      /\ \A i \in DOMAIN hooks : i \in Pending <=> hooks[i].target \in Toggled
      /\ \A t : t \in patched \cup Toggled => \E i \in DOMAIN hooks : hooks[i].target = t
  BY FinalFacts
<1>2. Pending = Changed(job.scope, job.action)
  BY DEF JobPhase, Pending
<1>3. \A t : t \in Final <=> (t \in patched /\ t \notin Toggled) \/ (t \in Toggled /\ t \notin patched)
  BY DEF Final
<1>4. CASE \A i \in DOMAIN hooks : ~Touches(hooks[i], p)
  <2>1. q = p
    BY <1>1, <1>4, FoldFacts
  <2>2. p.area \in {"fn", "above", "tramp"} => p.of \notin patched /\ p.of \notin Final
    BY <1>1, <1>3, <1>4 DEF Touches
  <2>3. p.area \notin {"above", "tramp"}
    BY <1>4, <2>2, OnFacts DEF Touches
  <2>4. OnInstruction(p, hooks, Final)
    BY <2>2, OnFacts
  <2>5. Evacuated(p)
    BY <2>3 DEF Evacuated
  <2> QED
    BY <2>1, <2>4, <2>5
<1>5. ASSUME NEW j \in DOMAIN hooks, Touches(hooks[j], p)
      PROVE  q \in Positions /\ AtJump(q) /\ OnInstruction(q, hooks, Final) /\ Evacuated(q)
  <2> DEFINE h == hooks[j]  t == h.target  c == code[t]
  <2>1. q = Moved(h, p) /\ q \in Positions
    BY <1>1, <1>5, FoldFacts, MovedFacts
  <2>2. p.area \in {"fn", "above", "tramp"} /\ p.of = t /\ t \in Targets
    BY <1>5 DEF Touches, EntriesBuilt
  <2>3. /\ c \in CodeTypes /\ Build(c).ok /\ Built[c] = Build(c) /\ StartsIn[c] = Starts(c)
        /\ h.above = Build(c).above /\ h.ips = Build(c).ips
    BY <2>2, CodeFacts DEF EntriesBuilt
  <2>4. /\ h.above \in BOOLEAN /\ 0 \in Starts(c) /\ Starts(c) \subseteq 0 .. JmpLen - 1
        /\ \A k \in DOMAIN h.ips :
             /\ h.ips[k].old \in Nat /\ h.ips[k].new \in Nat
             /\ h.ips[k].old < JmpLen => h.ips[k].old \in Starts(c)
        /\ \A o \in Starts(c) :
             o < (IF h.above THEN ShortLen ELSE JmpLen) => \E k \in DOMAIN h.ips : h.ips[k].old = o
    BY <2>3, BuildFacts, StartsFacts
  <2>5. h.enabled <=> t \in patched
    BY <1>1
  <2>6. j \in Pending <=> t \in Toggled
    BY <1>1
  <2>7. \A i \in Pending : hooks[i].target = t => i = j
    BY <1>1 DEF TargetsDiffer
  <2>8. p.area = "tramp" => \E k \in DOMAIN h.ips : h.ips[k].new = p.at
    BY <1>1, <2>2, OnFacts DEF TargetsDiffer
  <2>9. j \in Pending <=> h.target \in job.scope /\ h.enabled # Wanted(job.action, h)
    BY <1>2 DEF Changed
  <2>10. p = At(p.area, t, p.at) /\ p.at \in Nat
    <3>1. p = At(p.area, p.of, p.at)
      BY <2>2, PositionIsAt
    <3>2. p.at \in Nat
      BY <2>2, AreaFacts
    <3> QED
      BY <2>2, <3>1, <3>2
  <2> HIDE DEF h, t, c, q
  <2>11. CASE j \notin Pending
    <3>1. q = p
      BY <2>1, <2>9, <2>11 DEF Moved, Passed
    <3>2. t \in Final <=> t \in patched
      BY <1>3, <2>6, <2>11
    <3>3. OnInstruction(p, hooks, Final)
      BY <2>2, <3>2, OnFacts
    <3>4. Evacuated(p)
      BY <2>2, <2>7, <2>11 DEF Evacuated
    <3> QED
      BY <2>1, <3>1, <3>3, <3>4
  <2>12. CASE j \in Pending /\ h.enabled
    <3>1. q = FindOldIP(h, p)
      BY <2>1, <2>9, <2>12 DEF Moved, Passed
    <3>2. t \notin Final
      BY <1>3, <2>5, <2>6, <2>12
    <3> DEFINE k == {n \in DOMAIN h.ips : p = At("tramp", h.target, h.ips[n].new)}
    <3>3. CASE p.area = "fn"
      <4>1. k = {} /\ p # At("above", h.target, 0)
        BY <3>3, AtFields
      <4>2. q = p
        BY <3>1, <4>1 DEF FindOldIP
      <4>3. OnInstruction(p, hooks, Final)
        BY <2>2, <3>2, <3>3, OnFacts
      <4> QED
        BY <2>1, <3>3, <4>2, <4>3 DEF Evacuated
    <3>4. CASE p.area = "above"
      <4>1. h.above /\ p = At("above", h.target, 0)
        BY <2>2, <2>3, <2>10, <3>4 DEF AtJump, t, c
      <4>2. k = {}
        BY <3>4, AtFields
      <4>3. q = At("fn", h.target, 0)
        BY <3>1, <4>1, <4>2 DEF FindOldIP
      <4>4. q.area = "fn" /\ q.of = t /\ q.at = 0
        BY <4>3, AtFields DEF t
      <4>5. OnInstruction(q, hooks, Final)
        BY <2>3, <2>4, <3>2, <4>4, OnFacts DEF c
      <4> QED
        BY <2>1, <4>4, <4>5 DEF Evacuated, AtJump
    <3>5. CASE p.area = "tramp"
      <4>1. PICK n0 \in DOMAIN h.ips : h.ips[n0].new = p.at
        BY <2>8, <3>5
      <4>2. n0 \in k
        BY <2>10, <3>5, <4>1 DEF t
      <4>3. p # At("above", h.target, 0)
        BY <3>5, AtFields
      <4>4. PICK n \in DOMAIN h.ips : n = CHOOSE x \in k : TRUE
        BY <4>2
      <4>5. q = Into("fn", t, Place(h.ips[n].old))
        BY <3>1, <4>2, <4>3, <4>4 DEF FindOldIP, t
      <4> HIDE DEF k
      <4>6. CASE h.ips[n].old < JmpLen
        <5>1. h.ips[n].old \in Starts(c) /\ h.ips[n].old \in Nat
          BY <2>4, <4>4, <4>6
        <5>2. Place(h.ips[n].old) = h.ips[n].old
          BY <2>4, <5>1 DEF Place
        <5>3. q = At("fn", t, h.ips[n].old)
          BY <2>2, <4>5, <5>1, <5>2, PlaceFacts
        <5>4. q.area = "fn" /\ q.of = t /\ q.at = h.ips[n].old
          BY <5>3, AtFields
        <5>5. OnInstruction(q, hooks, Final)
          BY <2>3, <3>2, <5>1, <5>4, OnFacts DEF c
        <5> QED
          BY <2>1, <5>4, <5>5 DEF Evacuated, AtJump
      <4>7. CASE ~(h.ips[n].old < JmpLen)
        <5>1. Place(h.ips[n].old) = Out
          BY <2>4, <4>4, <4>7 DEF Place, JmpLen
        <5>2. q.area = "out"
          BY <2>2, <4>5, <5>1, PlaceFacts
        <5> QED
          BY <2>1, <5>2, OnFacts DEF Evacuated, AtJump
      <4> QED
        BY <4>6, <4>7
    <3> QED
      BY <2>2, <3>3, <3>4, <3>5
  <2>13. CASE j \in Pending /\ ~h.enabled
    <3>1. q = FindNewIP(h, p)
      BY <2>1, <2>9, <2>13 DEF Moved, Passed
    <3>2. t \in Final /\ t \notin patched
      BY <1>3, <2>5, <2>6, <2>13
    <3>3. ASSUME NEW x, x.area \in {"fn", "tramp"}, x.of = t PROVE Evacuated(x) /\ AtJump(x)
      BY <2>7, <2>13, <3>3 DEF Evacuated, AtJump, h
    <3> DEFINE k == {n \in DOMAIN h.ips : p = At("fn", h.target, h.ips[n].old)}
    <3>4. CASE k # {}
      <4>1. PICK n \in DOMAIN h.ips : n = CHOOSE x \in k : TRUE
        BY <3>4
      <4>2. q = At("tramp", t, h.ips[n].new)
        BY <3>1, <3>4, <4>1 DEF FindNewIP, t
      <4>3. q.area = "tramp" /\ q.of = t /\ q.at = h.ips[n].new
        BY <4>2, AtFields
      <4>4. OnInstruction(q, hooks, Final)
        BY <4>1, <4>3, OnFacts DEF t, h
      <4> QED
        BY <2>1, <3>3, <4>3, <4>4
    <3>5. CASE k = {}
      <4>1. q = p
        BY <3>1, <3>5 DEF FindNewIP
      <4>2. p.area # "above"
        BY <2>2, <3>2, OnFacts
      <4>3. ASSUME p.area = "fn" PROVE OnInstruction(p, hooks, Final)
        <5>1. p.at \in Starts(c)
          BY <2>2, <2>3, <4>3, OnFacts DEF c
        <5>2. ~(p.at < (IF h.above THEN ShortLen ELSE JmpLen))
          <6> SUFFICES ASSUME p.at < (IF h.above THEN ShortLen ELSE JmpLen) PROVE FALSE
            OBVIOUS
          <6>1. PICK n \in DOMAIN h.ips : h.ips[n].old = p.at
            BY <2>4, <5>1
          <6>2. n \in k
            BY <2>10, <4>3, <6>1 DEF t
          <6> QED
            BY <3>5, <6>2
        <5>3. p.at \notin 1 .. (IF h.above THEN ShortLen ELSE JmpLen) - 1
          BY <2>4, <2>10, <5>2 DEF ShortLen, JmpLen
        <5> QED
          BY <2>2, <2>3, <4>3, <5>1, <5>3, OnFacts DEF c
      <4>4. ASSUME p.area = "tramp" PROVE OnInstruction(p, hooks, Final)
        BY <4>4, OnFacts
      <4> QED
        BY <2>1, <2>2, <3>3, <4>1, <4>2, <4>3, <4>4
    <3> QED
      BY <3>4, <3>5
  <2> QED
    BY <2>11, <2>12, <2>13 DEF q
<1> QED
  BY <1>4, <1>5

-----------------------------------------------------------------------------
(* What a step has to keep *)

LEMMA OnFits ==
    \A p, hs, pt : OnInstruction(p, hs, pt) <=> Fits(code, p, hs, pt) /\ p.area # "lost"
  BY DEF OnInstruction, Fits

LEMMA FitsAway == \A cd, p, hs, pt : p.area \notin {"fn", "above", "tramp"} => Fits(cd, p, hs, pt)
  BY DEF Fits

\* ThreadInv after a step, for the threads that are moved then, and all.
LEMMA ThreadInvNext ==
    ASSUME code' = code, ip' \in [Threads -> Positions], moved' \subseteq Threads,
           \A th \in Threads : AtJump(ip'[th]),
           \A th \in Threads \ moved' : Fits(code, ip'[th], hooks', patched'),
           \A th \in moved' : Fits(code, ip'[th], hooks', Final'),
           job'.action = job'.write =>
              \A th \in moved', i \in Pending' :
                 ip'[th].area = "above" \/ (ip'[th].area = "tramp" /\ hooks'[i].enabled)
                   => ip'[th].of # hooks'[i].target
    PROVE  ThreadInv'
<1>1. \A th \in Threads \ moved' : Fits(code, ip[th], hooks, patched)'
  BY DEF Fits
<1>2. \A th \in Threads : AtJump(ip[th])'
  BY DEF AtJump
<1>3. ASSUME NEW th \in moved' PROVE Fits(code, ip[th], hooks, Final)'
  <2> DEFINE F == Final
  <2> HIDE DEF F
  <2>1. Fits(code, ip'[th], hooks', F')
    BY DEF F
  <2>2. Fits(code, ip[th], hooks, F)'
    BY <2>1 DEF Fits
  <2> QED
    BY <2>2 DEF F
<1>4. job'.action = job'.write => \A th \in moved' : Evacuated(ip[th])'
  BY DEF Evacuated
<1> QED
  BY <1>1, <1>2, <1>3, <1>4 DEF ThreadInv

\* The same when nobody is moved afterwards.
LEMMA ThreadInvThawed ==
    ASSUME code' = code, ip' \in [Threads -> Positions], moved' = {},
           \A th \in Threads : AtJump(ip'[th]) /\ Fits(code, ip'[th], hooks', patched')
    PROVE  ThreadInv'
  BY ThreadInvNext

LEMMA InvFacts ==
    ASSUME Inv
    PROVE  TableIsSequence /\ TargetsDiffer /\ TableMatchesCode /\ (~locked => job.todo = {} /\ frozen = {})
  BY DEF Inv, Table, TableIsSequence, TargetsDiffer, TableMatchesCode, JobInv

\* Nothing changes but the call under way, and nobody is moved.
LEMMA CalmInv2 ==
    ASSUME Inv, Inv2, UNCHANGED << hooks, code, patched, ip >>, frozen = {}, frozen' = {}, JobPhase'
    PROVE  Inv2'
<1>1. CodesKnown' /\ EntriesBuilt'
  BY DEF Inv2, CodesKnown, EntriesBuilt
<1>0. moved = {} /\ moved' = {}
  BY DEF Inv2, JobPhase
<1>2. ThreadInv'
  BY ThreadInvThawed, <1>0 DEF Inv2, ThreadInv
<1> QED
  BY <1>1, <1>2 DEF Inv2

\* A thread that runs moves to a place where it is right.
LEMMA MoveInv2 ==
    ASSUME Inv, Inv2, NEW th \in Threads, NEW p \in Positions, Move(th, p), AtJump(p),
           Fits(code, p, hooks, patched)
    PROVE  Inv2'
<1>1. /\ UNCHANGED << hooks, code, patched, frozen, moved, job >> /\ th \notin moved
      /\ ip' = [ip EXCEPT ![th] = p] /\ ip \in [Threads -> Positions] /\ moved \subseteq Threads
  BY DEF Move, Inv2, JobPhase, ThreadInv, suspendVars
<1>2. CodesKnown' /\ EntriesBuilt' /\ JobPhase'
  BY <1>1 DEF Inv2, CodesKnown, EntriesBuilt, JobPhase, Changed, Wanted
<1>3. Pending' = Pending /\ Final' = Final
  BY <1>1 DEF Pending, Final, Toggled, Changed, Wanted
<1>4. /\ ip' \in [Threads -> Positions] /\ ip'[th] = p
      /\ \A u \in Threads \ {th} : ip'[u] = ip[u]
  BY <1>1
<1>5. /\ \A u \in Threads : AtJump(ip[u])
      /\ \A u \in Threads \ moved : Fits(code, ip[u], hooks, patched)
      /\ \A u \in moved : Fits(code, ip[u], hooks, Final)
      /\ job.action = job.write => \A u \in moved : Evacuated(ip[u])
  BY OnFits DEF Inv2, ThreadInv
<1>6. \A u \in Threads : AtJump(ip'[u])
  BY <1>4, <1>5
<1>7. \A u \in Threads \ moved' : Fits(code, ip'[u], hooks', patched')
  BY <1>1, <1>4, <1>5
<1>8. \A u \in moved' : ip'[u] = ip[u] /\ u \in moved
  BY <1>1, <1>4
<1>9. \A u \in moved' : Fits(code, ip'[u], hooks', Final')
  BY <1>1, <1>3, <1>5, <1>8
<1>10. job'.action = job'.write =>
          \A u \in moved', i \in Pending' :
             ip'[u].area = "above" \/ (ip'[u].area = "tramp" /\ hooks'[i].enabled)
                => ip'[u].of # hooks'[i].target
  BY <1>1, <1>3, <1>5, <1>8 DEF Evacuated
<1>11. ThreadInv'
  BY <1>1, <1>4, <1>6, <1>7, <1>9, <1>10, ThreadInvNext
<1> QED
  BY <1>2, <1>11 DEF Inv2

\* A thread's own steps.
LEMMA RunInv2 ==
    ASSUME Inv, Inv2, NEW th \in Threads, Run(th)
    PROVE  Inv2'
<1> DEFINE p == ip[th]
<1>1. p \in Positions /\ AtJump(p)
  BY DEF Inv2, ThreadInv
<1>2. th \notin moved => Fits(code, p, hooks, patched)
  BY OnFits DEF Inv2, ThreadInv
<1>3. CodesKnown /\ EntriesBuilt
  BY DEF Inv2
<1>4. ASSUME NEW a \in {"unborn", "gone", "lost", "out"}, Move(th, Away(a)) PROVE Inv2'
  <2>1. Away(a) \in Positions /\ Away(a).area = a
    BY DEF Away, Positions
  <2>2. AtJump(Away(a)) /\ Fits(code, Away(a), hooks, patched)
    BY <2>1, FitsAway DEF AtJump
  <2> QED
    BY <1>4, <2>1, <2>2, MoveInv2
<1>5. CASE ThreadStart(th) \/ ThreadExit(th)
  BY <1>4, <1>5 DEF ThreadStart, ThreadExit
<1>6. ASSUME NEW t \in Called[th], CallTarget(th, t) PROVE Inv2'
  <2>1. t \in Targets
    BY MinHookAssumption
  <2> DEFINE q == At("fn", t, 0)
  <2>2. q \in Positions /\ q.area = "fn" /\ q.of = t /\ q.at = 0
    BY <2>1, PlaceFacts, AtFields
  <2>3. 0 \in StartsIn[code[t]]
    BY <1>3, <2>1, CodeFacts, StartsFacts
  <2> HIDE DEF q
  <2>4. AtJump(q) /\ Fits(code, q, hooks, patched)
    BY <2>2, <2>3 DEF AtJump, Fits
  <2>5. Move(th, q)
    BY <1>6 DEF CallTarget, q
  <2> QED
    BY <2>2, <2>4, <2>5, MoveInv2
<1>7. CASE StepFunction(th)
  <2>1. p.area = "fn" /\ th \notin moved /\ p.of \in Targets /\ p.at \in Nat
    BY <1>1, <1>7, AreaFacts DEF StepFunction, Inv2, JobPhase
  <2> DEFINE c == code[p.of]
  <2>2. c \in CodeTypes /\ Closed(c) /\ Built[c] = Build(c) /\ StartsIn[c] = Starts(c) /\ Starts(c) \subseteq 0 .. JmpLen - 1
    BY <1>3, <2>1, CodeFacts, StartsFacts
  <2>3. /\ p.at \in Starts(c)
        /\ p.of \in patched => p.at \notin 1 .. (IF Build(c).above THEN ShortLen ELSE JmpLen) - 1
    BY <1>2, <2>1, <2>2 DEF Fits
  <2>4. CASE p.at = 0 /\ p.of \in patched
    <3>1. PICK a \in {"above", "detour"} :
            Move(th, At(a, p.of, 0)) /\ (a = "above" => Build(c).above)
      BY <1>7, <2>1, <2>2, <2>4 DEF StepFunction
    <3> DEFINE q == At(a, p.of, 0)
    <3>2. q \in Positions /\ q.area = a /\ q.of = p.of /\ q.at = 0
      BY <2>1, PlaceFacts, AtFields
    <3> HIDE DEF q, c, p
    <3>3. AtJump(q) /\ Fits(code, q, hooks, patched)
      BY <2>2, <2>4, <3>1, <3>2 DEF AtJump, Fits, c
    <3> QED
      BY <3>1, <3>2, <3>3, MoveInv2 DEF q
  <2>5. CASE ~(p.at = 0 /\ p.of \in patched)
    <3>1. PICK o \in AfterInst(c, p.at) : Move(th, Into("fn", p.of, o))
      BY <1>7, <2>5 DEF StepFunction
    <3>2. o \in Starts(c) \cup {Out}
      BY <2>2, <2>3, <3>1 DEF Closed
    <3>3. CASE o = Out
      BY <1>4, <2>1, <3>1, <3>3, PlaceFacts
    <3>4. CASE o \in Starts(c)
      <4> DEFINE q == At("fn", p.of, o)
      <4>1. o \in Nat /\ o \in 0 .. 4
        BY <2>2, <3>4 DEF JmpLen
      <4>2. q \in Positions /\ Into("fn", p.of, o) = q /\ q.area = "fn" /\ q.of = p.of /\ q.at = o
        BY <2>1, <4>1, PlaceFacts, AtFields
      <4>3. ASSUME p.of \in patched
            PROVE  o \notin 1 .. (IF Build(c).above THEN ShortLen ELSE JmpLen) - 1
        <5>1. p.at # 0 /\ p.at \in 0 .. 4
          BY <2>2, <2>3, <2>5, <4>3 DEF JmpLen
        <5>2. Build(c).above
          BY <2>3, <4>3, <5>1 DEF JmpLen
        <5>3. p.at >= ShortLen
          BY <2>3, <4>3, <5>1, <5>2 DEF ShortLen
        <5>4. AfterInst(c, p.at) \cap (1 .. ShortLen - 1) = {}
          BY <2>2, <2>3, <5>2, <5>3 DEF Closed
        <5> QED
          BY <3>1, <5>2, <5>4
      <4> HIDE DEF q, c, p
      <4>4. AtJump(q) /\ Fits(code, q, hooks, patched)
        BY <2>2, <3>4, <4>2, <4>3 DEF AtJump, Fits, c
      <4> QED
        BY <3>1, <4>2, <4>4, MoveInv2
    <3> QED
      BY <3>2, <3>3, <3>4
  <2> QED
    BY <2>4, <2>5
<1>8. CASE StepAbove(th)
  <2>1. p.area = "above" /\ p.of \in Targets /\ Move(th, At("detour", p.of, 0))
    BY <1>1, <1>8, AreaFacts DEF StepAbove
  <2> DEFINE q == At("detour", p.of, 0)
  <2>2. q \in Positions /\ q.area = "detour"
    BY <2>1, PlaceFacts, AtFields
  <2> HIDE DEF q
  <2>3. AtJump(q) /\ Fits(code, q, hooks, patched)
    BY <2>2, FitsAway DEF AtJump
  <2> QED
    BY <2>1, <2>2, <2>3, MoveInv2 DEF q
<1>9. CASE StepDetour(th)
  <2>1. p.area = "detour" /\ p.of \in Targets
    BY <1>1, <1>9, AreaFacts DEF StepDetour
  <2>2. CASE Move(th, Away("out")) \/ Move(th, Away("lost"))
    BY <1>4, <2>2
  <2>3. CASE Move(th, At("tramp", p.of, 0)) /\ Find(p.of) # {}
    <3> DEFINE q == At("tramp", p.of, 0)
    <3>1. q \in Positions /\ q.area = "tramp" /\ q.of = p.of /\ q.at = 0
      BY <2>1, PlaceFacts, AtFields
    <3>2. PICK i \in DOMAIN hooks : hooks[i].target = p.of
      BY <2>3 DEF Find
    <3>3. /\ hooks[i].ips = Build(code[p.of]).ips /\ Build(code[p.of]).ok /\ code[p.of] \in CodeTypes
      BY <1>3, <2>1, <3>2, CodeFacts DEF EntriesBuilt
    <3>4. \E k \in DOMAIN hooks[i].ips : hooks[i].ips[k].new = 0
      BY <3>3, BuildFacts
    <3> HIDE DEF q, p
    <3>5. AtJump(q) /\ Fits(code, q, hooks, patched)
      BY <3>1, <3>2, <3>4 DEF AtJump, Fits
    <3> QED
      BY <2>3, <3>1, <3>5, MoveInv2 DEF q
  <2> QED
    BY <1>9, <2>2, <2>3 DEF StepDetour
<1>10. CASE StepTrampoline(th)
  <2>1. p.area = "tramp" /\ th \notin moved /\ p.of \in Targets
    BY <1>1, <1>10, AreaFacts DEF StepTrampoline, Inv2, JobPhase
  <2> DEFINE c == code[p.of]
  <2>2. PICK o \in AfterCopy(c, Entry(p.of).ips, p.at) : Move(th, Into("tramp", p.of, o))
    BY <1>10 DEF StepTrampoline
  <2>3. PICK i \in DOMAIN hooks :
          hooks[i].target = p.of /\ \E k \in DOMAIN hooks[i].ips : hooks[i].ips[k].new = p.at
    BY <1>2, <2>1 DEF Fits
  <2>4. Entry(p.of) = hooks[i]
    <3>1. Find(p.of) = {i}
      BY <2>3, InvFacts DEF Find, TargetsDiffer
    <3> QED
      BY <3>1 DEF Entry
  <2>5. hooks[i].ips = Build(c).ips /\ Build(c).ok /\ c \in CodeTypes /\ Movable(c)
    BY <1>3, <2>1, <2>3, CodeFacts DEF EntriesBuilt
  <2>6. o = Out \/ \E n \in DOMAIN hooks[i].ips : hooks[i].ips[n].new = o
    <3>1. PICK k \in DOMAIN Build(c).ips : Build(c).ips[k].new = p.at
      BY <2>3, <2>5
    <3>2. o \in AfterCopy(c, Build(c).ips, Build(c).ips[k].new)
      BY <2>2, <2>4, <2>5, <3>1
    <3> QED
      BY <2>5, <3>2, CopyStays
  <2>7. CASE o = Out
    BY <1>4, <2>1, <2>2, <2>7, PlaceFacts
  <2>8. ASSUME NEW n \in DOMAIN hooks[i].ips, hooks[i].ips[n].new = o PROVE Inv2'
    <3> DEFINE q == At("tramp", p.of, o)
    <3>1. o \in Nat
      BY <2>5, <2>8, BuildFacts
    <3>2. q \in Positions /\ Into("tramp", p.of, o) = q /\ q.area = "tramp" /\ q.of = p.of /\ q.at = o
      BY <2>1, <3>1, PlaceFacts, AtFields
    <3> HIDE DEF q, p, c
    <3>3. AtJump(q) /\ Fits(code, q, hooks, patched)
      BY <2>3, <2>8, <3>2 DEF AtJump, Fits
    <3> QED
      BY <2>2, <3>2, <3>3, MoveInv2
  <2> QED
    BY <2>6, <2>7, <2>8
<1> QED
  BY <1>5, <1>6, <1>7, <1>8, <1>9, <1>10 DEF Run

-----------------------------------------------------------------------------
(* The calls that leave the threads alone *)

\* A table that has the old trampolines has a place for the old threads.
LEMMA FitsTable ==
    ASSUME NEW cd, NEW p, NEW pt, NEW pt2, NEW hs, Fits(cd, p, hooks, pt),
           p.area \in {"fn", "above"} => (p.of \in pt <=> p.of \in pt2),
           \A i \in DOMAIN hooks :
              \E j \in DOMAIN hs : hs[j].target = hooks[i].target /\ hs[j].ips = hooks[i].ips
    PROVE  Fits(cd, p, hs, pt2)
  BY DEF Fits

\* The table grows or its flags change, and nobody is moved.
LEMMA TableInv2 ==
    ASSUME Inv, Inv2, ~locked, UNCHANGED << code, patched, ip, frozen, moved, job >>, EntriesBuilt',
           \A i \in DOMAIN hooks :
              \E j \in DOMAIN hooks' : hooks'[j].target = hooks[i].target /\ hooks'[j].ips = hooks[i].ips
    PROVE  Inv2'
<1>1. job.todo = {} /\ frozen = {} /\ moved = {}
  BY InvFacts DEF Inv2, JobPhase
<1>2. CodesKnown' /\ JobPhase'
  BY <1>1 DEF Inv2, CodesKnown, JobPhase
<1>3. \A th \in Threads : AtJump(ip[th]) /\ Fits(code, ip[th], hooks, patched)
  BY <1>1, OnFits DEF Inv2, ThreadInv
<1>4. \A th \in Threads : Fits(code, ip[th], hooks', patched)
  BY <1>3, FitsTable
<1>5. ip \in [Threads -> Positions]
  BY DEF Inv2, ThreadInv
<1>6. ThreadInv'
  BY <1>1, <1>3, <1>4, <1>5, ThreadInvThawed
<1> QED
  BY <1>2, <1>6 DEF Inv2

LEMMA CreateInv2 ==
    ASSUME Inv, Inv2, NEW t \in Targets, MH_CreateHook(t)
    PROVE  Inv2'
<1> DEFINE b == Built[code[t]]
           e == [target |-> t, slot |-> SlotOf(MemoryBlocks(blocks)), above |-> b.above,
                 ips |-> b.ips, enabled |-> FALSE, queued |-> FALSE]
<1>1. ~locked /\ UNCHANGED << code, patched, ip, frozen, moved, job >>
  BY DEF MH_CreateHook, suspendVars
<1>2. CASE hooks' = hooks
  BY <1>1, <1>2, TableInv2 DEF Inv2, EntriesBuilt
<1>3. CASE hooks' = Append(hooks, e) /\ b.ok
  <2>1. PICK S : hooks \in Seq(EntryOf(S))
    BY DEF Inv, Table
  <2>2. /\ e.target = t /\ e.above = b.above /\ e.ips = b.ips
        /\ e.enabled \in BOOLEAN /\ e.queued \in BOOLEAN
    OBVIOUS
  <2> HIDE DEF e
  <2>3. /\ DOMAIN hooks' = DOMAIN hooks \cup {Len(hooks) + 1}
        /\ \A i \in DOMAIN hooks : hooks'[i] = hooks[i]
        /\ hooks'[Len(hooks) + 1] = e
    BY <2>1, <1>3
  <2>4. EntriesBuilt'
    <3>1. \A i \in DOMAIN hooks' : hooks'[i] = e \/ (i \in DOMAIN hooks /\ hooks'[i] = hooks[i])
      BY <2>3
    <3> QED
      BY <1>1, <1>3, <2>2, <3>1 DEF Inv2, EntriesBuilt
  <2> QED
    BY <1>1, <2>3, <2>4, TableInv2
<1> QED
  BY <1>2, <1>3 DEF MH_CreateHook

LEMMA QueueInv2 ==
    ASSUME Inv, Inv2, NEW scope, NEW on \in BOOLEAN, QueueHook(scope, on)
    PROVE  Inv2'
<1>1. ~locked /\ UNCHANGED << code, patched, ip, frozen, moved, job >> /\ DOMAIN hooks' = DOMAIN hooks
  BY DEF QueueHook, suspendVars
<1>2. PICK S : hooks \in Seq(EntryOf(S))
  BY DEF Inv, Table
<1>3. ASSUME NEW i \in DOMAIN hooks
      PROVE  /\ hooks'[i].target = hooks[i].target /\ hooks'[i].enabled = hooks[i].enabled
             /\ hooks'[i].above = hooks[i].above /\ hooks'[i].ips = hooks[i].ips
             /\ hooks'[i].queued \in BOOLEAN
  <2>1. hooks[i] \in EntryOf(S)
    BY <1>2
  <2> DEFINE h == [hooks[i] EXCEPT !.queued = on]
  <2>2. hooks'[i] = h \/ hooks'[i] = hooks[i]
    BY DEF QueueHook
  <2>3. /\ h.target = hooks[i].target /\ h.enabled = hooks[i].enabled /\ h.above = hooks[i].above
        /\ h.ips = hooks[i].ips /\ h.queued = on /\ hooks[i].queued \in BOOLEAN
    BY <2>1 DEF EntryOf
  <2> HIDE DEF h
  <2> QED
    BY <2>2, <2>3
<1>4. EntriesBuilt'
  BY <1>1, <1>3 DEF Inv2, EntriesBuilt
<1> QED
  BY <1>1, <1>3, <1>4, TableInv2

\* A call starts; what it is told to freeze for is what it writes, or writes
\* nothing for it.
LEMMA BeginInv2 ==
    ASSUME Inv, Inv2, NEW call \in {"enable", "remove", "uninitialize"}, NEW scope, NEW action,
           NEW write, Begin(call, scope, action, write),
           action # write => Changed(scope, action) = {}
    PROVE  Inv2'
<1>1. frozen = {} /\ UNCHANGED << hooks, code, patched, ip, frozen, moved >>
  BY InvFacts DEF Begin, suspendVars
<1>2. /\ job'.call = call /\ job'.ok = TRUE /\ job'.scope = scope
      /\ job'.action = action /\ job'.write = write
  BY DEF Begin
<1>3. Changed(scope, action)' = Changed(scope, action)
  BY <1>1 DEF Changed, Wanted
<1>4. JobPhase'
  <2>1. Changed(job.scope, job.action)' = Changed(scope, action)
    BY <1>1, <1>2 DEF Changed, Wanted
  <2> QED
    BY <1>1, <1>2, <2>1 DEF Inv2, JobPhase
<1> QED
  BY <1>1, <1>4, CalmInv2

LEMMA StartInv2 ==
    ASSUME Inv, Inv2, Start
    PROVE  Inv2'
<1>1. CASE MH_Initialize
  <2>1. UNCHANGED << hooks, code, patched, ip, frozen, moved, job >> /\ job.todo = {} /\ frozen = {}
    BY <1>1, InvFacts DEF MH_Initialize, suspendVars
  <2> QED
    BY <2>1, CalmInv2 DEF Inv2, JobPhase
<1>2. CASE MH_ApplyQueued \/ MH_Uninitialize
  BY <1>2, BeginInv2 DEF MH_ApplyQueued, MH_Uninitialize
<1>3. ASSUME NEW t \in Targets, MH_RemoveHook(t) PROVE Inv2'
  BY <1>3, BeginInv2 DEF MH_RemoveHook
<1>4. ASSUME NEW t \in Targets, MH_CreateHook(t) PROVE Inv2'
  BY <1>4, CreateInv2
<1>5. ASSUME NEW on \in BOOLEAN, EnableAllHooksLL(on) PROVE Inv2'
  BY <1>5, BeginInv2 DEF EnableAllHooksLL
<1>6. ASSUME NEW on \in BOOLEAN, NEW scope, QueueHook(scope, on) PROVE Inv2'
  BY <1>6, QueueInv2
<1>7. ASSUME NEW on \in BOOLEAN, NEW t \in Targets, EnableHook(t, on) PROVE Inv2'
  <2>1. Begin("enable", {t}, "enable", Switch(on)) /\ Changed({t}, Switch(on)) # {}
    BY <1>7 DEF EnableHook
  <2>2. ASSUME Switch(on) # "enable" PROVE Changed({t}, "enable") = {}
    <3>1. Switch(on) = "disable"
      BY <2>2 DEF Switch
    <3>2. PICK i \in DOMAIN hooks : hooks[i].target = t /\ hooks[i].enabled # FALSE
      BY <2>1, <3>1 DEF Changed, Wanted
    <3>3. \A k \in DOMAIN hooks : hooks[k].target = t => k = i
      BY <3>2, InvFacts DEF TargetsDiffer
    <3>4. hooks[i].enabled = TRUE
      BY <3>2 DEF Inv2, EntriesBuilt
    <3> QED
      BY <3>3, <3>4 DEF Changed, Wanted
  <2> QED
    BY <2>1, <2>2, BeginInv2
<1> QED
  BY <1>1, <1>2, <1>3, <1>4, <1>5, <1>6, <1>7 DEF Start

-----------------------------------------------------------------------------
(* The calls that overwrite code *)

LEMMA LoseFacts ==
    ASSUME ip \in [Threads -> Positions], \A th \in Threads : AtJump(ip[th]),
           NEW ths, NEW hs, NEW pt
    PROVE  /\ Lose(ths, hs, pt) \in [Threads -> Positions]
           /\ \A th \in Threads :
                /\ AtJump(Lose(ths, hs, pt)[th])
                /\ Lose(ths, hs, pt)[th] = ip[th] \/ Lose(ths, hs, pt)[th].area = "lost"
                /\ th \notin ths => Lose(ths, hs, pt)[th] = ip[th]
                /\ th \in ths => Fits(code, Lose(ths, hs, pt)[th], hs, pt)
<1>1. Away("lost") \in Positions /\ Away("lost").area = "lost"
  BY DEF Away, Positions
<1>2. ASSUME NEW th \in Threads
      PROVE  \/ Lose(ths, hs, pt)[th] = ip[th] /\ (th \in ths => Fits(code, ip[th], hs, pt))
             \/ Lose(ths, hs, pt)[th] = Away("lost") /\ th \in ths
  BY OnFits DEF Lose
<1>3. AtJump(Away("lost")) /\ Fits(code, Away("lost"), hs, pt)
  BY <1>1, FitsAway DEF AtJump
<1>4. ASSUME NEW th \in Threads
      PROVE  /\ AtJump(Lose(ths, hs, pt)[th]) /\ Lose(ths, hs, pt)[th] \in Positions
             /\ Lose(ths, hs, pt)[th] = ip[th] \/ Lose(ths, hs, pt)[th].area = "lost"
             /\ th \notin ths => Lose(ths, hs, pt)[th] = ip[th]
             /\ th \in ths => Fits(code, Lose(ths, hs, pt)[th], hs, pt)
  BY <1>1, <1>2, <1>3
<1>5. Lose(ths, hs, pt) = [th \in Threads |-> Lose(ths, hs, pt)[th]]
  BY DEF Lose
<1> QED
  BY <1>4, <1>5

LEMMA FreezeInv2 ==
    ASSUME Inv, Inv2, NEW th \in Threads, Freeze(th)
    PROVE  Inv2'
<1>1. /\ UNCHANGED << hooks, code, patched >> /\ th \in job.todo
      /\ job' = [job EXCEPT !.todo = job.todo \ {th}]
  BY DEF Freeze
<1>2. /\ job'.call = job.call /\ job'.scope = job.scope /\ job'.ok = job.ok
      /\ job'.action = job.action /\ job'.write = job.write /\ job'.todo = job.todo \ {th}
  BY <1>1 DEF Inv, JobInv, JobTypes
<1>3. CodesKnown' /\ EntriesBuilt'
  BY <1>1 DEF Inv2, CodesKnown, EntriesBuilt
<1>4. Pending' = Pending /\ Final' = Final /\ Changed(job.scope, job.action)' = Changed(job.scope, job.action)
  <2>1. Changed(job.scope, job.action)' = Changed(job.scope, job.action)
    BY <1>1, <1>2 DEF Changed, Wanted
  <2>2. Changed(job.scope, job.write)' = Changed(job.scope, job.write)
    BY <1>1, <1>2 DEF Changed, Wanted
  <2>3. Pending' = Pending
    BY <1>2, <2>2 DEF Pending
  <2>4. Toggled' = Toggled
    BY <1>1, <2>3 DEF Toggled
  <2> QED
    BY <1>1, <1>2, <2>1, <2>3, <2>4 DEF Final
<1>5. /\ ip \in [Threads -> Positions] /\ moved \subseteq Threads
      /\ \A u \in Threads : AtJump(ip[u])
      /\ \A u \in Threads \ moved : Fits(code, ip[u], hooks, patched)
      /\ \A u \in moved : Fits(code, ip[u], hooks, Final)
      /\ job.action = job.write => \A u \in moved : Evacuated(ip[u])
  BY DEF Inv2, ThreadInv
<1>6. CASE UNCHANGED << ip, moved >> /\ frozen' \in {frozen, frozen \cup {th}}
  <2>1. JobPhase'
    BY <1>2, <1>4, <1>6 DEF Inv2, JobPhase
  <2>2. /\ ip' \in [Threads -> Positions] /\ moved' \subseteq Threads
        /\ \A u \in Threads : AtJump(ip'[u])
        /\ \A u \in Threads \ moved' : Fits(code, ip'[u], hooks', patched')
        /\ \A u \in moved' : Fits(code, ip'[u], hooks', Final')
    BY <1>1, <1>4, <1>5, <1>6
  <2>3. job'.action = job'.write =>
          \A u \in moved', i \in Pending' :
             ip'[u].area = "above" \/ (ip'[u].area = "tramp" /\ hooks'[i].enabled)
                => ip'[u].of # hooks'[i].target
    BY <1>1, <1>2, <1>4, <1>5, <1>6 DEF Evacuated
  <2>4. ThreadInv'
    BY <1>1, <2>2, <2>3, ThreadInvNext
  <2> QED
    BY <1>3, <2>1, <2>4 DEF Inv2
<1>7. CASE frozen' = frozen \cup {th} /\ moved' = moved \cup {th} /\ ip' = [ip EXCEPT ![th] = ProcessThreadIPs(ip[th])]
  <2> DEFINE p == ip[th]  q == ProcessThreadIPs(p)
  <2>1. JobPhase'
    BY <1>2, <1>4, <1>7 DEF Inv2, JobPhase
  <2>2. p \in Positions /\ AtJump(p) /\ th \notin moved
    BY <1>1, <1>5 DEF Inv2, JobPhase
  <2>3. Fits(code, p, hooks, patched)
    BY <1>5, <2>2
  <2>4. CodesKnown /\ EntriesBuilt /\ TableIsSequence /\ TargetsDiffer /\ TableMatchesCode /\ JobPhase /\ job.todo # {}
    BY <1>1, InvFacts DEF Inv2
  <2>5. /\ q \in Positions /\ AtJump(q) /\ Fits(code, q, hooks, Final)
        /\ job.action = job.write => Evacuated(q)
    <3>1. CASE job.action = job.write /\ p.area # "lost"
      BY <2>2, <2>3, <2>4, <3>1, MoveLands, OnFits
    <3>2. CASE job.action # job.write
      <4>1. Changed(job.scope, job.action) = {}
        BY <2>4, <3>2 DEF JobPhase
      <4>2. \A i \in DOMAIN hooks : Moved(hooks[i], p) = p
        BY <4>1 DEF Moved, Passed, Changed
      <4>3. q = p
        BY <2>2, <2>4, <4>2, FoldFacts
      <4>4. Final = patched
        BY <3>2 DEF Final
      <4> QED
        BY <1>5, <2>2, <3>2, <4>3, <4>4
    <3>3. CASE p.area = "lost"
      <4>1. \A i \in DOMAIN hooks : ~Touches(hooks[i], p)
        BY <3>3 DEF Touches
      <4>2. q = p
        BY <2>2, <2>4, <4>1, FoldFacts
      <4> QED
        BY <2>2, <3>3, <4>2, FitsAway DEF Evacuated
    <3> QED
      BY <3>1, <3>2, <3>3
  <2> HIDE DEF q
  <2>6. /\ ip' \in [Threads -> Positions] /\ ip'[th] = q
        /\ \A u \in Threads \ {th} : ip'[u] = ip[u]
    BY <1>5, <1>7, <2>5 DEF q
  <2>7. /\ moved' \subseteq Threads
        /\ \A u \in Threads : AtJump(ip'[u])
        /\ \A u \in Threads \ moved' : Fits(code, ip'[u], hooks', patched')
        /\ \A u \in moved' : Fits(code, ip'[u], hooks', Final')
    BY <1>1, <1>4, <1>5, <1>7, <2>5, <2>6
  <2>8. job'.action = job'.write =>
          \A u \in moved', i \in Pending' :
             ip'[u].area = "above" \/ (ip'[u].area = "tramp" /\ hooks'[i].enabled)
                => ip'[u].of # hooks'[i].target
    <3>1. job.action = job.write => \A u \in moved' : Evacuated(ip'[u])
      BY <1>5, <1>7, <2>5, <2>6
    <3> QED
      BY <1>1, <1>2, <1>4, <3>1 DEF Evacuated
  <2>9. ThreadInv'
    BY <1>1, <2>6, <2>7, <2>8, ThreadInvNext
  <2> QED
    BY <1>3, <2>1, <2>9 DEF Inv2
<1> QED
  BY <1>6, <1>7 DEF Freeze

\* When the threads are resumed nothing is pending.
LEMMA UnfreezeInv2 ==
    ASSUME Inv, Inv2, NEW th \in Threads, Unfreeze(th)
    PROVE  Inv2'
<1>1. UNCHANGED << hooks, code, patched, ip, job >> /\ frozen' = frozen \ {th} /\ moved' = moved \ {th} /\ Thawing
  BY DEF Unfreeze
<1>2. Pending = {}
  BY <1>1 DEF Thawing, ToWrite, Pending
<1>3. Pending' = Pending /\ Final' = Final /\ Final = patched
  <2>1. Pending' = Pending /\ Final' = Final
    BY <1>1 DEF Pending, Final, Toggled, Changed, Wanted
  <2>2. Final = patched
    BY <1>2 DEF Final, Toggled
  <2> QED
    BY <2>1, <2>2
<1>4. CodesKnown' /\ EntriesBuilt' /\ JobPhase'
  BY <1>1 DEF Inv2, CodesKnown, EntriesBuilt, JobPhase, Changed, Wanted
<1>5. /\ ip \in [Threads -> Positions] /\ moved \subseteq Threads
      /\ \A u \in Threads : AtJump(ip[u])
      /\ \A u \in Threads \ moved : Fits(code, ip[u], hooks, patched)
      /\ \A u \in moved : Fits(code, ip[u], hooks, Final)
  BY DEF Inv2, ThreadInv
<1>6. ThreadInv'
  <2>1. /\ ip' \in [Threads -> Positions] /\ moved' \subseteq Threads
        /\ \A u \in Threads : AtJump(ip'[u])
        /\ \A u \in Threads \ moved' : Fits(code, ip'[u], hooks', patched')
        /\ \A u \in moved' : Fits(code, ip'[u], hooks', Final')
    BY <1>1, <1>3, <1>5
  <2> QED
    BY <1>1, <1>2, <1>3, <2>1, ThreadInvNext
<1> QED
  BY <1>4, <1>6 DEF Inv2

\* What one write does to the table and to what is pending.
LEMMA WriteFacts ==
    ASSUME Inv, Inv2, EnableHookLL
    PROVE  \E i \in Pending, on \in BOOLEAN :
              /\ DOMAIN hooks' = DOMAIN hooks /\ \A j \in DOMAIN hooks \ {i} : hooks'[j] = hooks[j]
              /\ hooks[i].enabled = ~on /\ hooks'[i].enabled = on /\ hooks'[i].queued = on
              /\ hooks'[i].target = hooks[i].target
              /\ hooks'[i].above = hooks[i].above /\ hooks'[i].ips = hooks[i].ips
              /\ Pending' = Pending \ {i}
              /\ patched' = IF on THEN patched \cup {hooks[i].target} ELSE patched \ {hooks[i].target}
              /\ job.todo = {}
<1> DEFINE i == CHOOSE j \in ToWrite : \A k \in ToWrite : j <= k
           on == Wanted(job.write, hooks[i])
<1>1. PICK S : hooks \in Seq(EntryOf(S))
  BY DEF Inv, Table
<1>2. /\ ToWrite # {} /\ job.todo = {} /\ ToWrite = Pending /\ Pending = Changed(job.scope, job.write)
      /\ job.call # "none" /\ job.ok
  BY DEF EnableHookLL, ToWrite, Pending
<1>3. ToWrite \subseteq DOMAIN hooks /\ DOMAIN hooks = 1 .. Len(hooks) /\ Len(hooks) \in Nat
  BY <1>1, <1>2 DEF Changed
<1>4. i \in ToWrite
  <2>1. ToWrite # {} /\ ToWrite \subseteq Nat
    BY <1>2, <1>3
  <2>2. \E j \in ToWrite : \A k \in ToWrite : j <= k
    BY <2>1, LeastExists
  <2> QED
    BY <2>2
<1>5. hooks[i] \in EntryOf(S) /\ job.write \in Actions
  BY <1>1, <1>3, <1>4 DEF Inv, JobInv, JobTypes
<1>6. on \in BOOLEAN /\ hooks[i].enabled \in BOOLEAN /\ hooks[i].target \in job.scope /\ hooks[i].enabled # on
  <2>1. hooks[i].target \in job.scope /\ hooks[i].enabled # on
    BY <1>2, <1>4 DEF Changed
  <2>2. hooks[i].enabled \in BOOLEAN /\ hooks[i].queued \in BOOLEAN
    BY <1>5 DEF EntryOf
  <2>3. on \in BOOLEAN
    <3>1. CASE job.write = "enable"
      BY <3>1 DEF Wanted
    <3>2. CASE job.write = "disable"
      BY <3>2 DEF Wanted
    <3>3. CASE job.write = "queued"
      BY <2>2, <3>3 DEF Wanted
    <3> QED
      BY <1>5, <3>1, <3>2, <3>3 DEF Actions
  <2> QED
    BY <2>1, <2>2, <2>3
<1>7. /\ UNCHANGED job
      /\ hooks' = [hooks EXCEPT ![i] = [@ EXCEPT !.enabled = on, !.queued = on]]
      /\ patched' = IF on THEN patched \cup {hooks[i].target} ELSE patched \ {hooks[i].target}
  BY DEF EnableHookLL
<1>8. job.write = "enable" => on = TRUE
  BY DEF Wanted
<1>9. job.write = "disable" => on = FALSE
  BY DEF Wanted
<1> HIDE DEF i, on
<1> DEFINE e == [hooks[i] EXCEPT !.enabled = on, !.queued = on]
<1>10. /\ e.target = hooks[i].target /\ e.enabled = on /\ e.queued = on
       /\ e.above = hooks[i].above /\ e.ips = hooks[i].ips
  BY <1>5 DEF EntryOf
<1>11. hooks' = [hooks EXCEPT ![i] = e]
  BY <1>7
<1> HIDE DEF e
<1>12. /\ DOMAIN hooks' = DOMAIN hooks /\ hooks'[i] = e
       /\ \A j \in DOMAIN hooks \ {i} : hooks'[j] = hooks[j]
  BY <1>1, <1>3, <1>4, <1>11
<1>13. Pending' = Pending \ {i}
  <2>1. Pending' = {j \in DOMAIN hooks : /\ hooks'[j].target \in job.scope
                                         /\ hooks'[j].enabled # Wanted(job.write, hooks'[j])}
    BY <1>2, <1>7, <1>12 DEF Pending, Changed, Wanted
  <2>2. Pending = {j \in DOMAIN hooks : /\ hooks[j].target \in job.scope
                                        /\ hooks[j].enabled # Wanted(job.write, hooks[j])}
    BY <1>2 DEF Changed
  <2>3. hooks'[i].enabled = Wanted(job.write, hooks'[i])
    <3>1. CASE job.write = "enable"
      BY <1>8, <1>10, <1>12, <3>1 DEF Wanted
    <3>2. CASE job.write = "disable"
      BY <1>9, <1>10, <1>12, <3>2 DEF Wanted
    <3>3. CASE job.write = "queued"
      BY <1>10, <1>12, <3>3 DEF Wanted
    <3> QED
      BY <1>5, <3>1, <3>2, <3>3 DEF Actions
  <2> QED
    BY <1>12, <2>1, <2>2, <2>3
<1>14. hooks[i].enabled = ~on
  BY <1>6
<1> QED
  BY <1>2, <1>4, <1>6, <1>7, <1>10, <1>12, <1>13, <1>14

\* A target that a write takes the hook from had a pending enabled entry.
LEMMA WriteTakes ==
    ASSUME Inv, Inv2, EnableHookLL, NEW t \in patched \ patched'
    PROVE  \E i \in Pending : hooks[i].enabled /\ t = hooks[i].target
<1>1. PICK i \in Pending, on \in BOOLEAN :
        /\ DOMAIN hooks' = DOMAIN hooks /\ \A j \in DOMAIN hooks \ {i} : hooks'[j] = hooks[j]
        /\ hooks[i].enabled = ~on /\ hooks'[i].enabled = on /\ hooks'[i].queued = on
        /\ hooks'[i].target = hooks[i].target
        /\ hooks'[i].above = hooks[i].above /\ hooks'[i].ips = hooks[i].ips
        /\ Pending' = Pending \ {i}
        /\ patched' = IF on THEN patched \cup {hooks[i].target} ELSE patched \ {hooks[i].target}
        /\ job.todo = {}
  BY WriteFacts
<1> QED
  BY <1>1

\* A write changes nothing else, and loses threads in the bytes it overwrites.
LEMMA WriteLoses ==
    ASSUME Inv, Inv2, EnableHookLL, NEW i \in Pending, NEW on \in BOOLEAN,
           \A j \in DOMAIN hooks \ {i} : hooks'[j] = hooks[j],
           hooks[i].enabled = ~on, hooks'[i].enabled = on
    PROVE  /\ UNCHANGED << code, frozen, moved, job >>
           /\ ip' = Lose(Caught(hooks[i].target, on), hooks', patched')
<1> DEFINE n == CHOOSE j \in ToWrite : \A k \in ToWrite : j <= k
           v == Wanted(job.write, hooks[n])
<1>1. /\ UNCHANGED << code, frozen, moved, job >>
      /\ ip' = Lose(Caught(hooks[n].target, v), hooks', patched')
      /\ hooks' = [hooks EXCEPT ![n] = [@ EXCEPT !.enabled = v, !.queued = v]]
  BY DEF EnableHookLL, suspendVars
<1>2. PICK S : hooks \in Seq(EntryOf(S))
  BY DEF Inv, Table
<1>3. i \in DOMAIN hooks
  BY DEF Pending, Changed
<1>4. hooks[i] \in EntryOf(S) /\ hooks[i].enabled \in BOOLEAN
  <2>1. hooks[i] \in EntryOf(S)
    BY <1>2, <1>3
  <2> QED
    BY <2>1 DEF EntryOf
<1> HIDE DEF n, v
<1>5. i = n
  <2>1. i # n => hooks'[i] = hooks[i]
    BY <1>1, <1>2, <1>3
  <2> QED
    BY <1>4, <2>1
<1>6. v = on
  <2>1. hooks'[i] = [hooks[i] EXCEPT !.enabled = v, !.queued = v]
    BY <1>1, <1>2, <1>3, <1>5
  <2>2. hooks'[i].enabled = v
    BY <1>4, <2>1 DEF EntryOf
  <2> QED
    BY <2>2
<1> QED
  BY <1>1, <1>5, <1>6

LEMMA WriteInv2 ==
    ASSUME Inv, Inv2, EnableHookLL
    PROVE  Inv2'
<1>1. PICK i \in Pending, on \in BOOLEAN :
        /\ DOMAIN hooks' = DOMAIN hooks /\ \A j \in DOMAIN hooks \ {i} : hooks'[j] = hooks[j]
        /\ hooks[i].enabled = ~on /\ hooks'[i].enabled = on /\ hooks'[i].queued = on
        /\ hooks'[i].target = hooks[i].target
        /\ hooks'[i].above = hooks[i].above /\ hooks'[i].ips = hooks[i].ips
        /\ Pending' = Pending \ {i}
        /\ patched' = IF on THEN patched \cup {hooks[i].target} ELSE patched \ {hooks[i].target}
        /\ job.todo = {}
  BY WriteFacts
<1> DEFINE ths == Caught(hooks[i].target, on)
<1>2. /\ UNCHANGED << code, frozen, moved, job >> /\ ip' = Lose(ths, hooks', patched')
  BY WriteLoses, <1>1
<1>3. EntriesBuilt /\ TableMatchesCode
  BY InvFacts DEF Inv2
<1>4. /\ TargetsDiffer /\ Pending \subseteq DOMAIN hooks
      /\ \A j \in DOMAIN hooks : hooks[j].enabled <=> hooks[j].target \in patched
      /\ \A j \in DOMAIN hooks : j \in Pending <=> hooks[j].target \in Toggled
  BY <1>3, FinalFacts
<1>5. CodesKnown' /\ JobPhase'
  BY <1>1, <1>2 DEF Inv2, CodesKnown, JobPhase
<1>6. EntriesBuilt'
  <2>1. ASSUME NEW j \in DOMAIN hooks'
        PROVE  /\ hooks'[j].target = hooks[j].target /\ hooks'[j].above = hooks[j].above
               /\ hooks'[j].ips = hooks[j].ips /\ j \in DOMAIN hooks
               /\ hooks[j].enabled \in BOOLEAN => hooks'[j].enabled \in BOOLEAN
               /\ hooks[j].queued \in BOOLEAN => hooks'[j].queued \in BOOLEAN
    <3>1. j \in DOMAIN hooks /\ (j = i \/ hooks'[j] = hooks[j])
      BY <1>1
    <3> QED
      BY <1>1, <3>1
  <2> QED
    BY <1>2, <1>3, <2>1 DEF EntriesBuilt
<1>7. /\ ip \in [Threads -> Positions] /\ moved \subseteq Threads
      /\ \A u \in Threads : AtJump(ip[u])
      /\ \A u \in Threads \ moved : Fits(code, ip[u], hooks, patched)
      /\ \A u \in moved : Fits(code, ip[u], hooks, Final)
      /\ job.action = job.write => \A u \in moved : Evacuated(ip[u])
  BY DEF Inv2, ThreadInv
<1>8. /\ ip' \in [Threads -> Positions]
      /\ \A u \in Threads : AtJump(ip'[u])
      /\ \A u \in Threads : IF u \in ths THEN Fits(code, ip'[u], hooks', patched') ELSE ip'[u] = ip[u]
  BY <1>2, <1>7, LoseFacts
<1>11. ASSUME NEW u \in Threads, job.action = job.write => u \notin moved, Fits(code, ip[u], hooks, patched)
       PROVE  Fits(code, ip'[u], hooks', patched')
  <2>1. CASE u \in ths
    BY <1>8, <2>1
  <2>2. CASE u \notin ths
    <3>1. ip'[u] = ip[u] /\ ~(ip[u].area = (IF on THEN "fn" ELSE "above") /\ ip[u].of = hooks[i].target)
      BY <1>8, <1>11, <2>2 DEF Caught
    <3>2. \A j \in DOMAIN hooks : hooks'[j].target = hooks[j].target /\ hooks'[j].ips = hooks[j].ips
      BY <1>1
    <3> HIDE DEF ths
    <3> QED
      BY <1>1, <1>11, <3>1, <3>2 DEF Fits
  <2> QED
    BY <2>1, <2>2
<1>9. CASE job.action = job.write
  <2>1. \A u \in moved : ip'[u] = ip[u]
    BY <1>7, <1>8, <1>9 DEF Caught
  <2>2. Toggled' = Toggled \ {hooks[i].target}
    <3>1. \A j \in Pending' : hooks'[j].target = hooks[j].target
      BY <1>1, <1>4
    <3> QED
      BY <1>1, <1>4, <3>1 DEF Toggled, TargetsDiffer
  <2>3. Final' = Final
    <3>1. Final = (patched \ Toggled) \cup (Toggled \ patched)
      BY <1>9 DEF Final
    <3>2. Final' = (patched' \ Toggled') \cup (Toggled' \ patched')
      BY <1>2, <1>9 DEF Final
    <3>3. hooks[i].target \in Toggled /\ (hooks[i].target \in patched <=> ~on)
      BY <1>1, <1>4
    <3> QED
      BY <1>1, <2>2, <3>1, <3>2, <3>3
  <2>4. ASSUME NEW u \in moved' PROVE Fits(code, ip'[u], hooks', Final')
    <3>1. \A j \in DOMAIN hooks : hooks'[j].target = hooks[j].target /\ hooks'[j].ips = hooks[j].ips
      BY <1>1
    <3>2. Fits(code, ip[u], hooks, Final) /\ ip'[u] = ip[u]
      BY <1>2, <1>7, <2>1
    <3> QED
      BY <1>1, <2>3, <3>1, <3>2, FitsTable
  <2>5. \A u \in moved', j \in Pending' :
          ip'[u].area = "above" \/ (ip'[u].area = "tramp" /\ hooks'[j].enabled)
             => ip'[u].of # hooks'[j].target
    <3> TAKE u \in moved', j \in Pending'
    <3>1. u \in moved /\ j \in Pending /\ hooks'[j] = hooks[j]
      BY <1>1, <1>2, <1>4
    <3>2. ip'[u] = ip[u] /\ Evacuated(ip[u])
      BY <1>7, <1>9, <2>1, <3>1
    <3> QED
      BY <3>1, <3>2 DEF Evacuated
  <2>6. ThreadInv'
    <3>1. \A u \in Threads \ moved' : Fits(code, ip'[u], hooks', patched')
      BY <1>2, <1>7, <1>11
    <3> HIDE DEF ths
    <3> QED
      BY <1>2, <1>7, <1>8, <2>4, <2>5, <3>1, ThreadInvNext
  <2> QED
    BY <1>5, <1>6, <2>6 DEF Inv2
<1>10. CASE job.action # job.write
  <2>0. Final = patched
    BY <1>10 DEF Final
  <2>1. \A u \in Threads : Fits(code, ip'[u], hooks', patched')
    BY <1>7, <1>10, <1>11, <2>0
  <2>2. Final' = patched'
    BY <1>2, <1>10 DEF Final
  <2>3. \A u \in moved' : Fits(code, ip'[u], hooks', Final')
    BY <1>2, <1>7, <2>1, <2>2
  <2>4. ThreadInv'
    BY <2>1, <1>2, <1>7, <1>8, <1>10, <2>3, ThreadInvNext
  <2> QED
    BY <1>5, <1>6, <2>4 DEF Inv2
<1> QED
  BY <1>9, <1>10

LEMMA ProtectInv2 ==
    ASSUME Inv, Inv2, ProtectFails
    PROVE  Inv2'
<1>1. /\ UNCHANGED << hooks, code, patched, frozen, moved >> /\ ip' = Lose(MovedBack, hooks, patched)
      /\ job' = [job EXCEPT !.ok = FALSE] /\ job.todo = {} /\ ToWrite = Pending
  BY DEF ProtectFails, ToWrite, Pending, suspendVars
<1>2. job'.ok = FALSE /\ job'.todo = {}
  BY <1>1 DEF Inv, JobInv, JobTypes
<1>3. CodesKnown' /\ EntriesBuilt' /\ JobPhase'
  BY <1>1, <1>2 DEF Inv2, CodesKnown, EntriesBuilt, JobPhase
<1>4. Pending' = {} /\ Final' = patched
  <2>1. Pending' = {}
    BY <1>2 DEF Pending
  <2>2. Toggled' = {}
    BY <2>1 DEF Toggled
  <2> QED
    BY <1>1, <2>1, <2>2 DEF Final
<1>5. /\ ip \in [Threads -> Positions] /\ moved \subseteq Threads
      /\ \A u \in Threads : AtJump(ip[u])
      /\ \A u \in Threads \ moved : Fits(code, ip[u], hooks, patched)
      /\ \A u \in moved : Fits(code, ip[u], hooks, Final)
      /\ job.action = job.write => \A u \in moved : Evacuated(ip[u])
  BY DEF Inv2, ThreadInv
<1>8. ASSUME NEW u \in moved \ MovedBack PROVE Fits(code, ip[u], hooks, patched)
  <2> DEFINE p == ip[u]
  <2>1. EntriesBuilt /\ TableMatchesCode
    BY InvFacts DEF Inv2
  <2>2. \A j \in DOMAIN hooks : hooks[j].enabled <=> hooks[j].target \in patched
    BY <2>1, FinalFacts
  <2>3. Fits(code, p, hooks, Final)
    BY <1>5
  <2>4. p.area = "fn" /\ p.of \in patched => p.of \in Final
    <3>1. p.area = "fn" => \A j \in Pending : hooks[j].enabled => hooks[j].target # p.of
      BY <1>1, <1>8 DEF MovedBack
    <3>2. p.area = "fn" /\ p.of \in patched => p.of \notin Toggled
      BY <2>2, <3>1 DEF Toggled, Pending, Changed
    <3> QED
      BY <3>2 DEF Final
  <2>5. p.area = "above" /\ p.of \in Final => p.of \in patched
    <3>1. job.action = job.write /\ p.area = "above" => p.of \notin Toggled
      BY <1>5 DEF Evacuated, Toggled
    <3> QED
      BY <3>1 DEF Final
  <2> HIDE DEF p
  <2>6. Fits(code, p, hooks, patched)
    BY <2>3, <2>4, <2>5 DEF Fits
  <2> QED
    BY <2>6 DEF p
<1>6. /\ ip' \in [Threads -> Positions]
      /\ \A u \in Threads : AtJump(ip'[u]) /\ Fits(code, ip'[u], hooks, patched)
  <2>1. \A u \in Threads : /\ AtJump(ip'[u])
                          /\ IF u \in MovedBack THEN Fits(code, ip'[u], hooks, patched)
                             ELSE ip'[u] = ip[u]
    BY <1>1, <1>5, LoseFacts
  <2>2. ip' \in [Threads -> Positions]
    BY <1>1, <1>5, LoseFacts
  <2> QED
    BY <1>5, <1>8, <2>1, <2>2
<1>7. ThreadInv'
  <2>1. /\ \A u \in Threads \ moved' : Fits(code, ip'[u], hooks', patched')
        /\ \A u \in moved' : Fits(code, ip'[u], hooks', Final')
    BY <1>1, <1>4, <1>5, <1>6
  <2> QED
    BY <1>1, <1>4, <1>5, <1>6, <2>1, ThreadInvNext
<1> QED
  BY <1>3, <1>7 DEF Inv2

LEMMA LeaveInv2 ==
    ASSUME Inv, Inv2, LeaveSpinLock
    PROVE  Inv2'
<1>1. UNCHANGED << hooks, code, patched, ip, frozen >> /\ frozen = {} /\ job' = NoJob
  BY DEF LeaveSpinLock, suspendVars
<1>2. JobPhase'
  <2>1. moved' = moved
    BY DEF LeaveSpinLock, suspendVars
  <2> QED
    BY <1>1, <2>1 DEF Inv2, JobPhase, NoJob
<1> QED
  BY <1>1, <1>2, CalmInv2

\* Entries are removed, and the threads that were in their trampolines are lost.
LEMMA RemoveInv2 ==
    ASSUME Inv, Inv2, UNCHANGED << code, patched, frozen, moved >>, frozen = {}, job' = NoJob, NEW ts,
           ip' = Lose(InTrampolines(ts), hooks', patched'),
           \A k \in DOMAIN hooks' : \E j \in DOMAIN hooks : hooks'[k] = hooks[j],
           \A j \in DOMAIN hooks : hooks[j].target \notin ts => \E k \in DOMAIN hooks' : hooks'[k] = hooks[j]
    PROVE  Inv2'
<1>1. CodesKnown' /\ EntriesBuilt' /\ JobPhase'
  BY DEF Inv2, CodesKnown, EntriesBuilt, JobPhase, NoJob
<1>2. /\ moved = {} /\ ip \in [Threads -> Positions]
      /\ \A u \in Threads : AtJump(ip[u]) /\ Fits(code, ip[u], hooks, patched)
  BY DEF Inv2, JobPhase, ThreadInv
<1>3. /\ ip' \in [Threads -> Positions]
      /\ \A u \in Threads : /\ AtJump(ip'[u])
                           /\ IF u \in InTrampolines(ts) THEN Fits(code, ip'[u], hooks', patched')
                              ELSE ip'[u] = ip[u]
  BY <1>2, LoseFacts
<1>4. ASSUME NEW u \in Threads PROVE Fits(code, ip'[u], hooks', patched')
  <2>1. CASE u \in InTrampolines(ts)
    BY <1>3, <2>1
  <2>2. CASE u \notin InTrampolines(ts)
    <3> DEFINE p == ip[u]
    <3>1. ip'[u] = p /\ Fits(code, p, hooks, patched) /\ (p.area = "tramp" => p.of \notin ts)
      BY <1>2, <1>3, <2>2 DEF InTrampolines
    <3> HIDE DEF p
    <3>2. ASSUME p.area = "tramp"
          PROVE  \E k \in DOMAIN hooks' :
                    hooks'[k].target = p.of /\ \E n \in DOMAIN hooks'[k].ips : hooks'[k].ips[n].new = p.at
      <4>1. PICK j \in DOMAIN hooks :
              hooks[j].target = p.of /\ \E n \in DOMAIN hooks[j].ips : hooks[j].ips[n].new = p.at
        BY <3>1, <3>2 DEF Fits
      <4>2. PICK k \in DOMAIN hooks' : hooks'[k] = hooks[j]
        BY <3>1, <3>2, <4>1
      <4> QED
        BY <4>1, <4>2
    <3>3. Fits(code, p, hooks', patched)
      BY <3>1, <3>2 DEF Fits
    <3> QED
      BY <3>1, <3>3
  <2> QED
    BY <2>1, <2>2
<1>5. ThreadInv'
  <2>1. moved' = {}
    BY <1>2
  <2> QED
    BY <1>3, <1>4, <2>1, ThreadInvThawed
<1> QED
  BY <1>1, <1>5 DEF Inv2

LEMMA WorkInv2 ==
    ASSUME Inv, Inv2, Work
    PROVE  Inv2'
<1>1. CASE EnableHookLL
  BY <1>1, WriteInv2
<1>2. CASE ProtectFails
  BY <1>2, ProtectInv2
<1>3. CASE LeaveSpinLock
  BY <1>3, LeaveInv2
<1>4. CASE DeleteHookEntry
  <2>1. PICK i \in DOMAIN hooks :
          hooks' = Without(i) /\ ip' = Lose(InTrampolines({hooks[i].target}), hooks', patched)
    BY <1>4 DEF DeleteHookEntry
  <2>2. PICK S : hooks \in Seq(EntryOf(S))
    BY DEF Inv, Table
  <2>3. /\ DOMAIN hooks' = 1 .. Len(hooks) - 1 /\ DOMAIN hooks = 1 .. Len(hooks) /\ Len(hooks) \in Nat
        /\ \A k \in 1 .. Len(hooks) - 1 : hooks'[k] = IF k = i THEN hooks[Len(hooks)] ELSE hooks[k]
    BY <2>1, <2>2, WithoutFacts
  <2>4. \A k \in DOMAIN hooks' : \E j \in DOMAIN hooks : hooks'[k] = hooks[j]
    <3> TAKE k \in DOMAIN hooks'
    <3>1. k \in DOMAIN hooks /\ Len(hooks) \in DOMAIN hooks /\ k \in 1 .. Len(hooks) - 1
      BY <2>3
    <3> QED
      BY <2>3, <3>1
  <2>5. UNCHANGED << code, patched, frozen, moved >> /\ frozen = {} /\ job' = NoJob
    BY <1>4 DEF DeleteHookEntry, suspendVars
  <2>6. \A j \in DOMAIN hooks :
          hooks[j].target \notin {hooks[i].target} => \E k \in DOMAIN hooks' : hooks'[k] = hooks[j]
    <3> SUFFICES ASSUME NEW j \in DOMAIN hooks, j # i PROVE \E k \in DOMAIN hooks' : hooks'[k] = hooks[j]
      OBVIOUS
    <3>1. CASE j = Len(hooks)
      BY <2>3, <3>1
    <3>2. CASE j # Len(hooks)
      BY <2>3, <3>2
    <3> QED
      BY <3>1, <3>2
  <2> QED
    BY <2>1, <2>4, <2>5, <2>6, RemoveInv2
<1>5. CASE Destroy
  <2>1. /\ UNCHANGED << code, patched, frozen, moved >> /\ frozen = {} /\ job' = NoJob
        /\ ip' = Lose(InTrampolines(Targets), hooks', patched) /\ hooks' = << >>
    BY <1>5 DEF Destroy, suspendVars
  <2>2. \A k \in DOMAIN hooks' : \E j \in DOMAIN hooks : hooks'[k] = hooks[j]
    BY <2>1
  <2>3. \A j \in DOMAIN hooks : hooks[j].target \in Targets
    BY DEF Inv2, EntriesBuilt
  <2> QED
    BY <2>1, <2>2, <2>3, RemoveInv2
<1>6. ASSUME NEW th \in Threads, Freeze(th) \/ Unfreeze(th) PROVE Inv2'
  BY <1>6, FreezeInv2, UnfreezeInv2
<1> QED
  BY <1>1, <1>2, <1>3, <1>4, <1>5, <1>6 DEF Work

LEMMA NextInv2 == Inv /\ Inv2 /\ [Next]_vars => Inv2'
<1> SUFFICES ASSUME Inv, Inv2, [Next]_vars PROVE Inv2'
  OBVIOUS
<1>1. CASE UNCHANGED vars
  <2>1. UNCHANGED << hooks, code, patched, ip, frozen, moved, job >>
    BY <1>1 DEF vars, suspendVars
  <2>2. CodesKnown' /\ EntriesBuilt' /\ JobPhase'
    BY <2>1 DEF Inv2, CodesKnown, EntriesBuilt, JobPhase, Changed, Wanted
  <2>3. Pending' = Pending /\ Final' = Final
    BY <2>1 DEF Pending, Final, Toggled, Changed, Wanted
  <2>4. /\ ip \in [Threads -> Positions] /\ moved \subseteq Threads
        /\ \A u \in Threads : AtJump(ip[u])
        /\ \A u \in Threads \ moved : Fits(code, ip[u], hooks, patched)
        /\ \A u \in moved : Fits(code, ip[u], hooks, Final)
        /\ job.action = job.write => \A u \in moved : Evacuated(ip[u])
    BY DEF Inv2, ThreadInv
  <2>5. job'.action = job'.write =>
          \A u \in moved', i \in Pending' :
             ip'[u].area = "above" \/ (ip'[u].area = "tramp" /\ hooks'[i].enabled)
                => ip'[u].of # hooks'[i].target
    BY <2>1, <2>3, <2>4 DEF Evacuated
  <2>6. ThreadInv'
    BY <2>1, <2>3, <2>4, <2>5, ThreadInvNext
  <2> QED
    BY <2>2, <2>6 DEF Inv2
<1>2. CASE Start
  BY <1>2, StartInv2
<1>3. CASE Work
  BY <1>3, WorkInv2
<1>4. ASSUME NEW th \in Threads, Run(th) PROVE Inv2'
  BY <1>4, RunInv2
<1> QED
  BY <1>1, <1>2, <1>3, <1>4 DEF Next

LEMMA InitInv2 == Init => Inv2
<1> SUFFICES ASSUME Init PROVE Inv2
  OBVIOUS
<1> USE DEF Init
<1>1. CodesKnown /\ EntriesBuilt /\ JobPhase
  BY DEF CodesKnown, EntriesBuilt, JobPhase, NoJob
<1>2. Away("unborn") \in Positions /\ Away("unborn").area = "unborn"
  BY DEF Away, Positions
<1>3. ip \in [Threads -> Positions] /\ \A th \in Threads : ip[th].area = "unborn"
  BY <1>2
<1>4. \A th \in Threads : Fits(code, ip[th], hooks, patched)
  BY <1>3, FitsAway
<1>5. ThreadInv
  BY <1>3, <1>4 DEF ThreadInv, AtJump
<1> QED
  BY <1>1, <1>5 DEF Inv2

(* Whatever the beginnings of the functions are, as long as their internal  *)
(* jumps can be moved and lead to instructions: however the steps of the    *)
(* threads interleave with freezes, writes, failures, removals and thaws, a *)
(* thread that runs is at an instruction of a function as it is then, or of *)
(* a trampoline that is still an entry's.  Lost are only threads that the   *)
(* freeze could not suspend or move or was not for, those moved back before *)
(* VirtualProtect failed, and those that use a trampoline when it is freed. *)
THEOREM ThreadsAtInstructions == Spec => []AtInstruction
<1>1. Inv2 => AtInstruction
  <2> SUFFICES ASSUME Inv2, NEW th \in Threads \ frozen, ip[th].area # "lost"
               PROVE  OnInstruction(ip[th], hooks, patched)
    BY DEF AtInstruction
  <2>1. Fits(code, ip[th], hooks, patched)
    BY DEF Inv2, JobPhase, ThreadInv
  <2> QED
    BY <2>1, OnFits
<1> QED
  BY InitInv, NextInv, InitInv2, NextInv2, <1>1, PTL DEF Spec

(* When a write takes a hook away that its freeze was for, no thread it has *)
(* moved is in the trampoline or at the jump above the function.            *)
THEOREM WritesEvacuate == Spec => RemovalEvacuates
<1> DEFINE Leaves == job.action = job.write =>
             \A th \in moved, t \in patched \ patched' :
                ~(ip[th].area \in {"tramp", "above"} /\ ip[th].of = t)
<1>1. ASSUME Inv, Inv2, [Next]_vars PROVE [Leaves]_vars
  <2>1. CASE patched' = patched
    BY <2>1
  <2>2. CASE EnableHookLL
    <3>1. ASSUME job.action = job.write, NEW th \in moved, NEW t \in patched \ patched'
          PROVE  ~(ip[th].area \in {"tramp", "above"} /\ ip[th].of = t)
      <4>1. \E i \in Pending : hooks[i].enabled /\ t = hooks[i].target
        BY <1>1, <2>2, WriteTakes
      <4>2. Evacuated(ip[th])
        BY <1>1, <3>1 DEF Inv2, ThreadInv
      <4> QED
        BY <4>1, <4>2 DEF Evacuated
    <3> QED
      BY <3>1
  <2>3. patched' = patched \/ EnableHookLL
    <3>1. CASE UNCHANGED vars
      BY <3>1 DEF vars
    <3>2. CASE Start
      BY <3>2 DEF Start, MH_Initialize, MH_ApplyQueued, MH_Uninitialize, MH_RemoveHook, MH_CreateHook,
           EnableAllHooksLL, QueueHook, EnableHook, Begin
    <3>3. CASE Work
      BY <3>3 DEF Work, ProtectFails, LeaveSpinLock, DeleteHookEntry, Destroy, Freeze, Unfreeze
    <3>4. ASSUME NEW th \in Threads, Run(th) PROVE patched' = patched
      <4>1. \E p : Move(th, p)
        BY <3>4 DEF Run, ThreadStart, ThreadExit, CallTarget, StepFunction, StepAbove,
             StepDetour, StepTrampoline
      <4> QED
        BY <4>1 DEF Move
    <3> QED
      BY <1>1, <3>1, <3>2, <3>3, <3>4 DEF Next
  <2> QED
    BY <2>1, <2>2, <2>3
<1> QED
  BY InitInv, NextInv, InitInv2, NextInv2, <1>1, PTL DEF Spec, RemovalEvacuates

(* Every trampoline that is built for one of the prologues does what the     *)
(* prologue does: at every step the property that is checked holds.          *)
THEOREM TrampolinesFaithful == Spec => []TrampolineFaithful
<1>1. \A c \in Prologues : Faithful(c)
  BY MinHookAssumption, CodesAssumption, MovableIsFaithful
<1>2. TrampolineFaithful
  BY <1>1 DEF TrampolineFaithful
<1> QED
  BY <1>2, PTL

-----------------------------------------------------------------------------
(* The slots.  A block fits the slots that are in use if those of its slots *)
(* that are not are free, each of them once.                               *)

Slots == Bases \X (1 .. SlotsPerBlock)
FreeIn(b) == {b.free[k] : k \in DOMAIN b.free}
AnyBlocks == [base : Bases, free : Seq(1 .. SlotsPerBlock), used : Nat]

BlockFits(b, occ) ==
    /\ b \in AnyBlocks
    /\ \A k, l \in DOMAIN b.free : b.free[k] = b.free[l] => k = l
    /\ FreeIn(b) = {n \in 1 .. SlotsPerBlock : << b.base, n >> \notin occ}
    /\ b.used + Len(b.free) = SlotsPerBlock

BlocksFit(bs, occ) ==
    /\ bs \in Seq(AnyBlocks) /\ occ \subseteq Slots
    /\ \A i, j \in DOMAIN bs : bs[i].base = bs[j].base => i = j
    /\ \A i \in DOMAIN bs : BlockFits(bs[i], occ)
    /\ \A s \in occ : \E i \in DOMAIN bs : bs[i].base = s[1]

LEMMA BlockTypesFacts ==
    ASSUME NEW b \in AnyBlocks
    PROVE  /\ b.base \in Bases /\ b.used \in Nat /\ b.free \in Seq(1 .. SlotsPerBlock)
           /\ DOMAIN b.free = 1 .. Len(b.free) /\ Len(b.free) \in Nat
<1>1. b.base \in Bases /\ b.used \in Nat /\ b.free \in Seq(1 .. SlotsPerBlock)
  BY DEF AnyBlocks
<1> QED
  BY <1>1

\* As many slots are free as the list is long, and the others are in use.
LEMMA FreeCounted ==
    ASSUME NEW occ, NEW b, BlockFits(b, occ)
    PROVE  /\ IsFiniteSet(FreeIn(b)) /\ Cardinality(FreeIn(b)) = Len(b.free)
           /\ FreeIn(b) \subseteq 1 .. SlotsPerBlock
           /\ LET busy == {n \in 1 .. SlotsPerBlock : << b.base, n >> \in occ}
              IN  IsFiniteSet(busy) /\ Cardinality(busy) = b.used
<1> DEFINE F == FreeIn(b)
           N == SlotsPerBlock
           busy == {n \in 1 .. N : << b.base, n >> \in occ}
<1>1. /\ b.used \in Nat /\ b.free \in Seq(1 .. N)
      /\ DOMAIN b.free = 1 .. Len(b.free) /\ Len(b.free) \in Nat
  BY BlockTypesFacts DEF BlockFits
<1>2. N \in Nat
  BY MinHookAssumption
<1>3. b.free \in Bijection(1 .. Len(b.free), F)
  <2>1. b.free \in [1 .. Len(b.free) -> F]
    BY <1>1 DEF FreeIn
  <2>2. b.free \in Surjection(1 .. Len(b.free), F)
    BY <1>1, <2>1 DEF Surjection, FreeIn
  <2>3. b.free \in Injection(1 .. Len(b.free), F)
    BY <1>1, <2>1 DEF Injection, IsInjective, BlockFits
  <2> QED
    BY <2>2, <2>3 DEF Bijection
<1>4. IsFiniteSet(F) /\ Cardinality(F) = Len(b.free)
  <2>1. ExistsBijection(1 .. Len(b.free), F)
    BY <1>3 DEF ExistsBijection
  <2>2. IsFiniteSet(1 .. Len(b.free)) /\ Cardinality(1 .. Len(b.free)) = Len(b.free)
    BY <1>1, FS_Interval
  <2> QED
    BY <2>1, <2>2, FS_Bijection
<1>5. F \subseteq 1 .. N
  BY DEF BlockFits
<1>6. busy = (1 .. N) \ F
  BY DEF BlockFits
<1>7. IsFiniteSet(1 .. N) /\ Cardinality(1 .. N) = N
  BY <1>2, FS_Interval
<1>8. IsFiniteSet(busy) /\ Cardinality(busy) = Cardinality(1 .. N) - Cardinality((1 .. N) \cap F)
  BY <1>6, <1>7, FS_Difference
<1>9. (1 .. N) \cap F = F
  BY <1>5
<1>10. Cardinality(busy) = b.used
  <2>1. b.used + Len(b.free) = N
    BY DEF BlockFits
  <2>2. Cardinality(busy) = N - Len(b.free)
    BY <1>4, <1>7, <1>8, <1>9
  <2> QED
    BY ONLY <1>1, <1>2, <2>1, <2>2
<1> QED
  BY <1>4, <1>5, <1>8, <1>10

\* A block whose base is another one fits on.
LEMMA OtherFits ==
    ASSUME NEW b, NEW occ, BlockFits(b, occ), NEW s, s[1] # b.base
    PROVE  BlockFits(b, occ \cup {s}) /\ BlockFits(b, occ \ {s})
<1>1. \A n \in 1 .. SlotsPerBlock : << b.base, n >> # s
  OBVIOUS
<1> QED
  BY <1>1 DEF BlockFits

\* The first free slot is taken.
LEMMA TakeFits ==
    ASSUME NEW occ, NEW b, BlockFits(b, occ), b.free # << >>
    PROVE  LET c == [b EXCEPT !.free = Tail(@), !.used = @ + 1]
               s == << b.base, Head(b.free) >>
           IN  /\ BlockFits(c, occ \cup {s}) /\ c.base = b.base /\ c.used # 0
               /\ s \in Slots /\ s \notin occ
<1> DEFINE c == [b EXCEPT !.free = Tail(@), !.used = @ + 1]
           s == << b.base, Head(b.free) >>
           N == SlotsPerBlock
<1>1. /\ b \in AnyBlocks /\ b.base \in Bases /\ b.used \in Nat /\ b.free \in Seq(1 .. N)
      /\ DOMAIN b.free = 1 .. Len(b.free) /\ Len(b.free) \in Nat
  BY BlockTypesFacts DEF BlockFits
<1>2. /\ Head(b.free) \in 1 .. N /\ Tail(b.free) \in Seq(1 .. N) /\ Len(Tail(b.free)) = Len(b.free) - 1
      /\ \A i \in 1 .. Len(Tail(b.free)) : Tail(b.free)[i] = b.free[i + 1]
      /\ Head(b.free) = b.free[1] /\ Len(b.free) > 0
      /\ DOMAIN Tail(b.free) = 1 .. Len(b.free) - 1
  <2>1. /\ Head(b.free) \in 1 .. N /\ Tail(b.free) \in Seq(1 .. N)
        /\ Len(Tail(b.free)) = Len(b.free) - 1
        /\ \A i \in 1 .. Len(Tail(b.free)) : Tail(b.free)[i] = b.free[i + 1]
    BY <1>1, HeadTailProperties
  <2>2. Len(b.free) > 0
    BY <1>1, EmptySeq
  <2>3. DOMAIN Tail(b.free) = 1 .. Len(Tail(b.free))
    BY <2>1
  <2>4. Head(b.free) = b.free[1]
    BY <1>1
  <2> QED
    BY <2>1, <2>2, <2>3, <2>4
<1>3. c = [b EXCEPT !.free = Tail(b.free), !.used = b.used + 1]
  OBVIOUS
<1> HIDE DEF c
<1>4. c \in AnyBlocks /\ c.base = b.base /\ c.free = Tail(b.free) /\ c.used = b.used + 1
  <2> DEFINE f == Tail(b.free)  u == b.used + 1
  <2>1. u \in Nat /\ f \in Seq(1 .. N)
    BY <1>1, <1>2
  <2>2. c = [b EXCEPT !.free = f, !.used = u]
    BY <1>3
  <2> HIDE DEF f, u
  <2>3. c \in AnyBlocks /\ c.base = b.base /\ c.free = f /\ c.used = u
    <3>1. b = [base |-> b.base, free |-> b.free, used |-> b.used]
      BY <1>1 DEF AnyBlocks
    <3>2. c = [base |-> b.base, free |-> f, used |-> u]
      BY <2>2, <3>1
    <3> QED
      BY <1>1, <2>1, <3>2 DEF AnyBlocks
  <2> QED
    BY <2>3 DEF f, u
<1>5. s \in Slots /\ s \notin occ
  <2>1. Head(b.free) \in FreeIn(b)
    BY <1>1, <1>2 DEF FreeIn
  <2> QED
    BY <1>1, <1>2, <2>1 DEF BlockFits, Slots
<1>6. \A k, l \in DOMAIN c.free : c.free[k] = c.free[l] => k = l
  <2> SUFFICES ASSUME NEW k \in DOMAIN c.free, NEW l \in DOMAIN c.free, c.free[k] = c.free[l]
               PROVE  k = l
    OBVIOUS
  <2>1. k \in Nat /\ l \in Nat /\ k + 1 \in DOMAIN b.free /\ l + 1 \in DOMAIN b.free
    <3>1. DOMAIN c.free = 1 .. Len(b.free) - 1
      BY <1>2, <1>4
    <3> QED
      BY <1>1, <3>1
  <2>2. b.free[k + 1] = b.free[l + 1]
    BY <1>2, <1>4
  <2>3. k + 1 = l + 1
    BY <2>1, <2>2 DEF BlockFits
  <2> QED
    BY <2>1, <2>3
<1>7. FreeIn(c) = FreeIn(b) \ {Head(b.free)}
  <2>1. ASSUME NEW k \in DOMAIN c.free PROVE c.free[k] \in FreeIn(b) \ {Head(b.free)}
    <3>1. k + 1 \in DOMAIN b.free /\ k + 1 # 1 /\ 1 \in DOMAIN b.free /\ c.free[k] = b.free[k + 1]
      BY <1>1, <1>2, <1>4
    <3> QED
      BY <1>2, <3>1 DEF BlockFits, FreeIn
  <2>2. ASSUME NEW k \in DOMAIN b.free, b.free[k] # Head(b.free)
        PROVE  \E l \in DOMAIN c.free : c.free[l] = b.free[k]
    <3>1. k - 1 \in 1 .. Len(b.free) - 1 /\ (k - 1) + 1 = k
      BY <1>1, <1>2, <2>2
    <3>2. c.free[k - 1] = b.free[k]
      BY <1>2, <1>4, <3>1
    <3> QED
      BY <1>2, <1>4, <3>1, <3>2
  <2> QED
    BY <2>1, <2>2 DEF FreeIn
<1>8. FreeIn(c) = {n \in 1 .. N : << c.base, n >> \notin occ \cup {s}}
  BY <1>4, <1>7 DEF BlockFits
<1>9. c.used + Len(c.free) = N
  <2>1. b.used + Len(b.free) = N /\ N \in Nat
    BY MinHookAssumption DEF BlockFits
  <2>2. Len(c.free) = Len(b.free) - 1 /\ c.used = b.used + 1
    BY <1>2, <1>4
  <2> DEFINE l == Len(b.free)  u == b.used  l2 == Len(c.free)  u2 == c.used
  <2>3. l \in Nat /\ u \in Nat /\ u + l = N /\ l2 = l - 1 /\ u2 = u + 1 /\ N \in Nat
    BY <1>1, <2>1, <2>2
  <2> HIDE DEF l, u, l2, u2, N
  <2>4. u2 + l2 = N
    BY ONLY <2>3
  <2> QED
    BY <2>4 DEF u2, l2, N
<1>10. c.used # 0
  BY <1>1, <1>4
<1> QED
  BY <1>4, <1>5, <1>6, <1>8, <1>9, <1>10 DEF BlockFits, c

\* A slot that was in use is the first free one.
LEMMA GiveFits ==
    ASSUME NEW occ, NEW b, BlockFits(b, occ), NEW n \in 1 .. SlotsPerBlock, << b.base, n >> \in occ,
           b.used # 0
    PROVE  LET c == [b EXCEPT !.free = << n >> \o @, !.used = @ - 1]
           IN  BlockFits(c, occ \ {<< b.base, n >>}) /\ c.base = b.base /\ c.used = b.used - 1
<1> DEFINE c == [b EXCEPT !.free = << n >> \o @, !.used = @ - 1]
           f == << n >> \o b.free
           N == SlotsPerBlock
<1>1. /\ b \in AnyBlocks /\ b.base \in Bases /\ b.used \in Nat /\ b.free \in Seq(1 .. N)
      /\ DOMAIN b.free = 1 .. Len(b.free) /\ Len(b.free) \in Nat
  BY BlockTypesFacts DEF BlockFits
<1>2. /\ f \in Seq(1 .. N) /\ Len(f) = Len(b.free) + 1 /\ DOMAIN f = 1 .. Len(b.free) + 1
      /\ f[1] = n /\ \A k \in 1 .. Len(b.free) : f[k + 1] = b.free[k]
  <2>1. << n >> \in Seq(1 .. N) /\ Len(<< n >>) = 1 /\ << n >>[1] = n
    OBVIOUS
  <2> QED
    BY <1>1, <2>1, ConcatProperties
<1>3. c = [b EXCEPT !.free = f, !.used = b.used - 1]
  OBVIOUS
<1> HIDE DEF f, c
<1>4. c \in AnyBlocks /\ c.base = b.base /\ c.free = f /\ c.used = b.used - 1
  <2> DEFINE u == b.used - 1
  <2>1. u \in Nat
    BY <1>1
  <2>2. c = [b EXCEPT !.free = f, !.used = u]
    BY <1>3
  <2> HIDE DEF u
  <2>3. c \in AnyBlocks /\ c.base = b.base /\ c.free = f /\ c.used = u
    <3>1. b = [base |-> b.base, free |-> b.free, used |-> b.used]
      BY <1>1 DEF AnyBlocks
    <3>2. c = [base |-> b.base, free |-> f, used |-> u]
      BY <2>2, <3>1
    <3> QED
      BY <1>1, <1>2, <2>1, <3>2 DEF AnyBlocks
  <2> QED
    BY <2>3 DEF u
<1>5. n \notin FreeIn(b)
  BY DEF BlockFits
<1>6. \A k \in DOMAIN f : (k = 1 /\ f[k] = n) \/ (k - 1 \in DOMAIN b.free /\ f[k] = b.free[k - 1])
  <2> TAKE k \in DOMAIN f
  <2>1. k = 1 \/ (k - 1 \in 1 .. Len(b.free) /\ (k - 1) + 1 = k)
    BY <1>1, <1>2
  <2> QED
    BY <1>1, <1>2, <2>1
<1>7. \A k, l \in DOMAIN c.free : c.free[k] = c.free[l] => k = l
  <2> SUFFICES ASSUME NEW k \in DOMAIN f, NEW l \in DOMAIN f, f[k] = f[l]
               PROVE  k = l
    BY <1>4
  <2>1. k \in Nat /\ l \in Nat
    BY <1>1, <1>2
  <2>2. \A m \in DOMAIN b.free : b.free[m] # n
    BY <1>5 DEF FreeIn
  <2>3. CASE k = 1 \/ l = 1
    <3>1. \A m \in DOMAIN f : f[m] = n => m = 1
      BY <1>6, <2>2
    <3>2. 1 \in DOMAIN f /\ f[1] = n
      BY <1>1, <1>2
    <3> QED
      BY <2>3, <3>1, <3>2
  <2>4. CASE k # 1 /\ l # 1
    <3>1. k - 1 = l - 1
      BY <1>6, <2>4 DEF BlockFits
    <3> QED
      BY <2>1, <3>1
  <2> QED
    BY <2>3, <2>4
<1>8. FreeIn(c) = FreeIn(b) \cup {n}
  <2>1. \A k \in DOMAIN f : f[k] \in FreeIn(b) \cup {n}
    BY <1>6 DEF FreeIn
  <2>2. \A k \in DOMAIN b.free : \E l \in DOMAIN f : f[l] = b.free[k]
    <3> TAKE k \in DOMAIN b.free
    <3>1. k + 1 \in DOMAIN f /\ f[k + 1] = b.free[k]
      BY <1>1, <1>2
    <3> QED
      BY <3>1
  <2>3. \E l \in DOMAIN f : f[l] = n
    BY <1>1, <1>2
  <2> QED
    BY <1>4, <2>1, <2>2, <2>3 DEF FreeIn
<1>9. FreeIn(c) = {m \in 1 .. N : << c.base, m >> \notin occ \ {<< b.base, n >>}}
  BY <1>4, <1>8 DEF BlockFits
<1>10. c.used + Len(c.free) = N
  <2>1. b.used + Len(b.free) = N /\ N \in Nat
    BY MinHookAssumption DEF BlockFits
  <2>2. Len(c.free) = Len(b.free) + 1 /\ c.used = b.used - 1
    BY <1>2, <1>4
  <2> DEFINE l == Len(b.free)  u == b.used  l2 == Len(c.free)  u2 == c.used
  <2>3. l \in Nat /\ u \in Nat /\ u + l = N /\ l2 = l + 1 /\ u2 = u - 1 /\ N \in Nat
    BY <1>1, <2>1, <2>2
  <2> HIDE DEF l, u, l2, u2, N
  <2>4. u2 + l2 = N
    BY ONLY <2>3
  <2> QED
    BY <2>4 DEF u2, l2, N
<1> QED
  BY <1>4, <1>7, <1>9, <1>10 DEF BlockFits, c

\* A block with one used slot has no other.
LEMMA LastFits ==
    ASSUME NEW occ, NEW b, BlockFits(b, occ), b.used = 1,
           NEW m \in 1 .. SlotsPerBlock, << b.base, m >> \in occ,
           NEW n \in 1 .. SlotsPerBlock, << b.base, n >> \in occ
    PROVE  m = n
<1> DEFINE busy == {k \in 1 .. SlotsPerBlock : << b.base, k >> \in occ}
<1>1. IsFiniteSet(busy) /\ Cardinality(busy) = 1
  BY FreeCounted
<1>2. PICK x : busy = {x}
  BY <1>1, FS_Singleton
<1> QED
  BY <1>2

-----------------------------------------------------------------------------
(* The list of blocks under each operation of buffer.c *)

AllUsed(bs) == \A i \in DOMAIN bs : bs[i].used # 0

LEMMA BlocksFacts ==
    ASSUME NEW bs, NEW occ, BlocksFit(bs, occ)
    PROVE  /\ DOMAIN bs = 1 .. Len(bs) /\ Len(bs) \in Nat
           /\ \A i \in DOMAIN bs : bs[i] \in AnyBlocks
           /\ \A s \in occ : s = << s[1], s[2] >> /\ s[1] \in Bases /\ s[2] \in 1 .. SlotsPerBlock
  BY DEF BlocksFit, Slots

\* One block changes, and with it the slots in use that are in it.
LEMMA OneChanges ==
    ASSUME NEW bs, NEW occ, BlocksFit(bs, occ), NEW occ2 \in SUBSET Slots,
           NEW i \in DOMAIN bs, NEW c, BlockFits(c, occ2), c.base = bs[i].base,
           \A j \in DOMAIN bs \ {i} : BlockFits(bs[j], occ2),
           \A s \in occ2 : s \in occ \/ s[1] = bs[i].base
    PROVE  /\ BlocksFit([bs EXCEPT ![i] = c], occ2)
           /\ AllUsed([bs EXCEPT ![i] = c]) <=> c.used # 0 /\ \A j \in DOMAIN bs \ {i} : bs[j].used # 0
<1> DEFINE bs2 == [bs EXCEPT ![i] = c]
<1>1. /\ bs2 \in Seq(AnyBlocks) /\ DOMAIN bs2 = DOMAIN bs /\ bs2[i] = c
      /\ \A j \in DOMAIN bs \ {i} : bs2[j] = bs[j]
  BY DEF BlocksFit, BlockFits
<1> HIDE DEF bs2
<1>2. \A j \in DOMAIN bs2 : bs2[j].base = bs[j].base /\ BlockFits(bs2[j], occ2)
  BY <1>1
<1>3. \A s \in occ2 : \E j \in DOMAIN bs2 : bs2[j].base = s[1]
  <2> TAKE s \in occ2
  <2>1. \E j \in DOMAIN bs : bs[j].base = s[1]
    BY DEF BlocksFit
  <2> QED
    BY <1>1, <1>2, <2>1
<1>4. BlocksFit(bs2, occ2)
  BY <1>1, <1>2, <1>3 DEF BlocksFit
<1>5. AllUsed(bs2) <=> c.used # 0 /\ \A j \in DOMAIN bs \ {i} : bs[j].used # 0
  BY <1>1 DEF AllUsed
<1> QED
  BY <1>4, <1>5 DEF bs2

\* There is place for one more block.
LEMMA PlaceExists ==
    ASSUME NEW bs, NEW occ, BlocksFit(bs, occ), Len(bs) < Cardinality(Bases)
    PROVE  \E b \in Bases : \A i \in DOMAIN bs : bs[i].base # b
<1> SUFFICES ASSUME \A b \in Bases : \E i \in DOMAIN bs : bs[i].base = b
             PROVE  FALSE
  OBVIOUS
<1> DEFINE n == Len(bs)
           f == [i \in 1 .. n |-> bs[i].base]
<1>1. DOMAIN bs = 1 .. n /\ n \in Nat /\ \A i \in 1 .. n : bs[i].base \in Bases
  BY BlocksFacts DEF AnyBlocks
<1>2. f \in Surjection(1 .. n, Bases)
  BY <1>1 DEF Surjection
<1>3. Cardinality(Bases) <= n
  BY <1>1, <1>2, FS_SurjCardinalityBound DEF ExistsSurjection
<1>4. Cardinality(Bases) \in Nat
  BY MinHookAssumption, FS_CardinalityType
<1> QED
  BY <1>1, <1>3, <1>4

\* A new block has all its slots.
LEMMA NewFits ==
    ASSUME NEW occ, NEW b \in Bases, \A s \in occ : s[1] # b
    PROVE  LET c == [base |-> b, used |-> 0,
                     free |-> [k \in 1 .. SlotsPerBlock |-> SlotsPerBlock + 1 - k]]
           IN  BlockFits(c, occ) /\ c.base = b /\ c.free # << >>
<1> DEFINE N == SlotsPerBlock
           f == [k \in 1 .. N |-> N + 1 - k]
           c == [base |-> b, used |-> 0, free |-> f]
<1>1. N \in Nat \ {0}
  BY MinHookAssumption
<1>2. f \in Seq(1 .. N) /\ Len(f) = N /\ DOMAIN f = 1 .. N /\ \A k \in 1 .. N : f[k] = N + 1 - k
  <2>1. \A k \in 1 .. N : N + 1 - k \in 1 .. N
    BY <1>1
  <2>2. f \in Seq(1 .. N)
    BY <1>1, <2>1, IsASeq
  <2> QED
    BY <1>1, <2>2
<1>3. f # << >>
  BY <1>1, <1>2
<1> HIDE DEF f
<1>4. c \in AnyBlocks /\ c.base = b /\ c.free = f /\ c.used = 0
  BY <1>1, <1>2 DEF AnyBlocks
<1> HIDE DEF c
<1>5. \A k, l \in DOMAIN c.free : c.free[k] = c.free[l] => k = l
  <2>1. \A k, l \in 1 .. N : N + 1 - k = N + 1 - l => k = l
    BY <1>1
  <2> QED
    BY <1>2, <1>4, <2>1
<1>6. FreeIn(c) = 1 .. N
  <2>1. \A k \in 1 .. N : f[k] \in 1 .. N
    <3>1. \A k \in 1 .. N : N + 1 - k \in 1 .. N
      BY <1>1
    <3> QED
      BY <1>2, <3>1
  <2>2. \A n \in 1 .. N : N + 1 - n \in 1 .. N /\ f[N + 1 - n] = n
    BY <1>1, <1>2
  <2> QED
    BY <1>2, <1>4, <2>1, <2>2 DEF FreeIn
<1>7. \A n \in 1 .. N : << c.base, n >> \notin occ
  BY <1>4
<1>8. c.used + Len(c.free) = N
  BY <1>1, <1>2, <1>4
<1>9. BlockFits(c, occ)
  BY <1>4, <1>5, <1>6, <1>7, <1>8 DEF BlockFits
<1> QED
  BY <1>3, <1>4, <1>9 DEF c, f

\* GetMemoryBlock finds a block with room, and only that may be unused.
LEMMA MemoryFits ==
    ASSUME NEW bs, NEW occ, BlocksFit(bs, occ), AllUsed(bs),
           WithRoom(bs) # {} \/ Len(bs) < Cardinality(Bases)
    PROVE  LET bs2 == MemoryBlocks(bs)
               i == FirstWithRoom(bs2)
           IN  /\ BlocksFit(bs2, occ) /\ i \in DOMAIN bs2 /\ bs2[i].free # << >>
               /\ \A j \in DOMAIN bs2 \ {i} : bs2[j].used # 0
<1> DEFINE bs2 == MemoryBlocks(bs)
           i == FirstWithRoom(bs2)
<1>1. /\ BlocksFit(bs2, occ) /\ WithRoom(bs2) # {}
      /\ AllUsed(bs2) \/ (1 \in WithRoom(bs2) /\ \A j \in DOMAIN bs2 \ {1} : bs2[j].used # 0)
  <2>1. CASE WithRoom(bs) # {}
    BY <2>1 DEF MemoryBlocks
  <2>2. CASE WithRoom(bs) = {}
    <3> DEFINE b == CHOOSE b \in Bases : \A j \in DOMAIN bs : bs[j].base # b
               c == [base |-> b, used |-> 0,
                     free |-> [k \in 1 .. SlotsPerBlock |-> SlotsPerBlock + 1 - k]]
    <3>1. b \in Bases /\ \A j \in DOMAIN bs : bs[j].base # b
      BY <2>2, PlaceExists
    <3>2. bs2 = << c >> \o bs
      BY <2>2 DEF MemoryBlocks
    <3>3. \A s \in occ : s[1] # b
      BY <3>1 DEF BlocksFit
    <3> HIDE DEF b
    <3>4. BlockFits(c, occ) /\ c.base = b /\ c.free # << >>
      BY <3>1, <3>3, NewFits
    <3> HIDE DEF c, bs2
    <3>5. DOMAIN bs = 1 .. Len(bs) /\ Len(bs) \in Nat /\ bs \in Seq(AnyBlocks) /\ c \in AnyBlocks
      BY <3>4, BlocksFacts DEF BlocksFit, BlockFits
    <3>6. /\ bs2 \in Seq(AnyBlocks) /\ DOMAIN bs2 = 1 .. Len(bs) + 1
          /\ bs2[1] = c /\ \A j \in 1 .. Len(bs) : bs2[j + 1] = bs[j]
      <4>1. << c >> \in Seq(AnyBlocks) /\ Len(<< c >>) = 1 /\ << c >>[1] = c
        BY <3>5
      <4> QED
        BY <3>2, <3>5, <4>1, ConcatProperties
    <3>7. \A j \in DOMAIN bs2 :
            j = 1 \/ (j # 1 /\ j - 1 \in DOMAIN bs /\ bs2[j] = bs[j - 1] /\ j \in Nat)
      <4> TAKE j \in DOMAIN bs2
      <4>1. j \in Nat /\ (j = 1 \/ (j # 1 /\ j - 1 \in 1 .. Len(bs) /\ (j - 1) + 1 = j))
        BY <3>5, <3>6
      <4> QED
        BY <3>5, <3>6, <4>1
    <3>8. \A j \in DOMAIN bs : j + 1 \in DOMAIN bs2 /\ bs2[j + 1] = bs[j]
      BY <3>5, <3>6
    <3>9. \A j, k \in DOMAIN bs2 : bs2[j].base = bs2[k].base => j = k
      <4> SUFFICES ASSUME NEW j \in DOMAIN bs2, NEW k \in DOMAIN bs2, bs2[j].base = bs2[k].base
                   PROVE  j = k
        OBVIOUS
      <4>1. CASE j = 1 \/ k = 1
        BY <3>1, <3>4, <3>6, <3>7, <4>1
      <4>2. CASE j # 1 /\ k # 1
        <5>1. j - 1 = k - 1
          BY <3>7, <4>2 DEF BlocksFit
        <5> QED
          BY <3>7, <4>2, <5>1
      <4> QED
        BY <4>1, <4>2
    <3>10. \A j \in DOMAIN bs2 : BlockFits(bs2[j], occ)
      BY <3>4, <3>6, <3>7 DEF BlocksFit
    <3>11. \A s \in occ : \E j \in DOMAIN bs2 : bs2[j].base = s[1]
      BY <3>8 DEF BlocksFit
    <3>12. BlocksFit(bs2, occ)
      BY <3>6, <3>9, <3>10, <3>11 DEF BlocksFit
    <3>13. 1 \in WithRoom(bs2)
      BY <3>4, <3>5, <3>6 DEF WithRoom
    <3>14. \A j \in DOMAIN bs2 \ {1} : bs2[j].used # 0
      BY <3>7 DEF AllUsed
    <3> QED
      BY <3>12, <3>13, <3>14
  <2> QED
    BY <2>1, <2>2
<1>2. DOMAIN bs2 = 1 .. Len(bs2) /\ Len(bs2) \in Nat
  BY <1>1, BlocksFacts
<1> HIDE DEF bs2
<1>3. i \in WithRoom(bs2) /\ \A j \in WithRoom(bs2) : i <= j
  <2>1. WithRoom(bs2) \subseteq Nat
    BY <1>2 DEF WithRoom
  <2>2. \E k \in WithRoom(bs2) : \A j \in WithRoom(bs2) : k <= j
    BY <1>1, <2>1, LeastExists
  <2> QED
    BY <2>2 DEF FirstWithRoom
<1>4. 1 \in WithRoom(bs2) => i = 1
  <2>1. i \in 1 .. Len(bs2)
    BY <1>2, <1>3 DEF WithRoom
  <2> QED
    BY <1>2, <1>3, <2>1
<1>5. \A j \in DOMAIN bs2 \ {i} : bs2[j].used # 0
  BY <1>1, <1>4 DEF AllUsed
<1> QED
  BY <1>1, <1>3, <1>5 DEF WithRoom, bs2

\* AllocateBuffer's slot was not in use.
LEMMA TakenFits ==
    ASSUME NEW bs, NEW occ, BlocksFit(bs, occ), NEW i, i = FirstWithRoom(bs), i \in DOMAIN bs,
           bs[i].free # << >>, \A j \in DOMAIN bs \ {i} : bs[j].used # 0
    PROVE  /\ SlotOf(bs) \in Slots /\ SlotOf(bs) \notin occ
           /\ BlocksFit(Taken(bs), occ \cup {SlotOf(bs)}) /\ AllUsed(Taken(bs))
<1> DEFINE b == bs[i]
           c == [b EXCEPT !.free = Tail(@), !.used = @ + 1]
           s == << b.base, Head(b.free) >>
<1>1. SlotOf(bs) = s /\ Taken(bs) = [bs EXCEPT ![i] = c]
  <2>1. SlotOf(bs) = s
    BY DEF SlotOf
  <2>2. Taken(bs) = [bs EXCEPT ![i] = c]
    BY Zenon DEF Taken
  <2> QED
    BY <2>1, <2>2
<1>2. BlockFits(b, occ)
  BY DEF BlocksFit
<1>3. /\ BlockFits(c, occ \cup {s}) /\ c.base = b.base /\ c.used # 0
      /\ s \in Slots /\ s \notin occ
  BY <1>2, TakeFits
<1>4. s[1] = b.base
  OBVIOUS
<1> HIDE DEF c, s
<1>5. \A j \in DOMAIN bs \ {i} : BlockFits(bs[j], occ \cup {s})
  <2> TAKE j \in DOMAIN bs \ {i}
  <2>1. BlockFits(bs[j], occ) /\ s[1] # bs[j].base
    BY <1>4 DEF BlocksFit
  <2> QED
    BY <2>1, OtherFits
<1>6. occ \cup {s} \in SUBSET Slots /\ \A x \in occ \cup {s} : x \in occ \/ x[1] = bs[i].base
  BY <1>3, <1>4 DEF BlocksFit
<1>7. /\ BlocksFit([bs EXCEPT ![i] = c], occ \cup {s})
      /\ AllUsed([bs EXCEPT ![i] = c])
  BY <1>3, <1>5, <1>6, OneChanges
<1> QED
  BY <1>1, <1>3, <1>7

\* What is left of a list without one of its elements.
LEMMA RemoveAtFacts ==
    ASSUME NEW S, NEW seq \in Seq(S), NEW i \in DOMAIN seq
    PROVE  /\ RemoveAt(seq, i) \in Seq(S)
           /\ DOMAIN RemoveAt(seq, i) = 1 .. Len(seq) - 1
           /\ \A j \in 1 .. Len(seq) - 1 : RemoveAt(seq, i)[j] = IF j < i THEN seq[j] ELSE seq[j + 1]
<1> DEFINE n == Len(seq)
           s1 == SubSeq(seq, 1, i - 1)
           s2 == SubSeq(seq, i + 1, n)
<1>1. n \in Nat /\ DOMAIN seq = 1 .. n /\ i \in 1 .. n /\ \A j \in 1 .. n : seq[j] \in S
  OBVIOUS
<1>2. s1 \in Seq(S) /\ Len(s1) = i - 1 /\ \A j \in 1 .. i - 1 : s1[j] = seq[j]
  BY <1>1, SubSeqProperties
<1>3. s2 \in Seq(S) /\ Len(s2) = n - i /\ \A j \in 1 .. n - i : s2[j] = seq[i + j]
  BY <1>1, SubSeqProperties
<1>4. RemoveAt(seq, i) = s1 \o s2
  BY DEF RemoveAt
<1> HIDE DEF s1, s2
<1>5. /\ s1 \o s2 \in Seq(S) /\ Len(s1 \o s2) = n - 1
      /\ \A j \in 1 .. n - 1 : (s1 \o s2)[j] = IF j <= i - 1 THEN s1[j] ELSE s2[j - (i - 1)]
  <2>1. /\ s1 \o s2 \in Seq(S) /\ Len(s1 \o s2) = Len(s1) + Len(s2)
        /\ \A j \in 1 .. Len(s1) + Len(s2) :
             (s1 \o s2)[j] = IF j <= Len(s1) THEN s1[j] ELSE s2[j - Len(s1)]
    BY <1>2, <1>3, ConcatProperties
  <2>2. Len(s1) + Len(s2) = n - 1
    BY <1>1, <1>2, <1>3
  <2> QED
    BY <1>2, <2>1, <2>2
<1>6. DOMAIN (s1 \o s2) = 1 .. n - 1
  BY <1>5
<1>7. ASSUME NEW j \in 1 .. n - 1
      PROVE  (s1 \o s2)[j] = IF j < i THEN seq[j] ELSE seq[j + 1]
  <2>1. CASE j < i
    BY <1>1, <1>2, <1>5, <2>1
  <2>2. CASE ~(j < i)
    <3>1. j - (i - 1) \in 1 .. n - i /\ i + (j - (i - 1)) = j + 1 /\ ~(j <= i - 1)
      BY <1>1, <2>2
    <3> QED
      BY <1>3, <1>5, <2>2, <3>1
  <2> QED
    BY <2>1, <2>2
<1> QED
  BY <1>4, <1>5, <1>6, <1>7

\* A slot is given back to its block, or the block is released with it.
LEMMA FreeBufferFits ==
    ASSUME NEW bs, NEW occ, BlocksFit(bs, occ), AllUsed(bs), NEW s \in occ
    PROVE  BlocksFit(FreeBuffer(bs, s), occ \ {s}) /\ AllUsed(FreeBuffer(bs, s))
<1> DEFINE i == BlockOf(bs, s)
           b == bs[i]
           n == s[2]
           c == [b EXCEPT !.free = << n >> \o @, !.used = @ - 1]
<1>1. i \in DOMAIN bs /\ b.base = s[1]
  BY DEF BlocksFit, BlockOf
<1>2. s = << b.base, n >> /\ n \in 1 .. SlotsPerBlock
  BY <1>1, BlocksFacts
<1>3. FreeBuffer(bs, s) = IF b.used = 1 THEN RemoveAt(bs, i)
                          ELSE [bs EXCEPT ![i] = c]
  BY Zenon DEF FreeBuffer
<1> HIDE DEF i, c
<1>4. BlockFits(b, occ) /\ b.used # 0 /\ b.used \in Nat /\ bs \in Seq(AnyBlocks)
  BY <1>1, BlockTypesFacts DEF BlocksFit, BlockFits, AllUsed
<1>5. \A j \in DOMAIN bs \ {i} : BlockFits(bs[j], occ \ {s}) /\ bs[j].base # b.base
  <2> TAKE j \in DOMAIN bs \ {i}
  <2>1. BlockFits(bs[j], occ) /\ s[1] # bs[j].base
    BY <1>1 DEF BlocksFit
  <2> QED
    BY <1>1, <2>1, OtherFits
<1>6. occ \ {s} \in SUBSET Slots
  BY DEF BlocksFit
<1>7. CASE b.used # 1
  <2>1. BlockFits(c, occ \ {s}) /\ c.base = b.base /\ c.used = b.used - 1
    <3> HIDE DEF b, n
    <3>1. << b.base, n >> \in occ
      BY <1>2
    <3>2. BlockFits(c, occ \ {<< b.base, n >>}) /\ c.base = b.base /\ c.used = b.used - 1
      BY <1>2, <1>4, <3>1, GiveFits DEF c
    <3> QED
      BY <1>2, <3>2
  <2>2. FreeBuffer(bs, s) = [bs EXCEPT ![i] = c]
    BY <1>3, <1>7
  <2>3. c.used # 0
    BY <1>4, <1>7, <2>1
  <2>4. /\ BlocksFit([bs EXCEPT ![i] = c], occ \ {s})
        /\ AllUsed([bs EXCEPT ![i] = c])
    BY <1>1, <1>5, <1>6, <2>1, <2>3, OneChanges DEF AllUsed
  <2> QED
    BY <2>2, <2>4
<1>8. CASE b.used = 1
  <2> DEFINE bs2 == RemoveAt(bs, i)
             old(j) == IF j < i THEN j ELSE j + 1
  <2>1. FreeBuffer(bs, s) = bs2
    BY <1>3, <1>8
  <2>2. DOMAIN bs = 1 .. Len(bs) /\ Len(bs) \in Nat
    BY BlocksFacts
  <2>3. /\ bs2 \in Seq(AnyBlocks) /\ DOMAIN bs2 = 1 .. Len(bs) - 1
        /\ \A j \in 1 .. Len(bs) - 1 : bs2[j] = IF j < i THEN bs[j] ELSE bs[j + 1]
    BY <1>1, <1>4, RemoveAtFacts
  <2> HIDE DEF bs2
  <2>4. \A j \in DOMAIN bs2 : old(j) \in DOMAIN bs \ {i} /\ bs2[j] = bs[old(j)] /\ j \in Nat
    BY <1>1, <2>2, <2>3
  <2>5. \A j, k \in DOMAIN bs2 : old(j) = old(k) => j = k
    BY <1>1, <2>2, <2>3
  <2>6. \A k \in DOMAIN bs \ {i} : \E j \in DOMAIN bs2 : bs2[j] = bs[k]
    <3> TAKE k \in DOMAIN bs \ {i}
    <3>1. CASE k < i
      <4>1. k \in 1 .. Len(bs) - 1
        BY <1>1, <2>2, <3>1
      <4> QED
        BY <2>3, <3>1, <4>1
    <3>2. CASE ~(k < i)
      <4>1. k - 1 \in 1 .. Len(bs) - 1 /\ ~(k - 1 < i) /\ (k - 1) + 1 = k
        BY <1>1, <2>2, <3>2
      <4> QED
        BY <2>3, <4>1
    <3> QED
      BY <3>1, <3>2
  <2> HIDE DEF old
  <2>7. \A j, k \in DOMAIN bs2 : bs2[j].base = bs2[k].base => j = k
    BY <2>4, <2>5 DEF BlocksFit
  <2>8. \A j \in DOMAIN bs2 : BlockFits(bs2[j], occ \ {s}) /\ bs2[j].used # 0
    BY <1>5, <2>4 DEF AllUsed
  <2>9. \A x \in occ \ {s} : \E j \in DOMAIN bs2 : bs2[j].base = x[1]
    <3> TAKE x \in occ \ {s}
    <3>1. PICK k \in DOMAIN bs : bs[k].base = x[1]
      BY DEF BlocksFit
    <3>2. k # i
      <4> SUFFICES ASSUME k = i PROVE x = s
        OBVIOUS
      <4>1. x = << b.base, x[2] >> /\ x[2] \in 1 .. SlotsPerBlock
        BY <3>1, BlocksFacts
      <4>2. x[2] = n
        BY <1>2, <1>4, <1>8, <4>1, LastFits
      <4> QED
        BY <1>2, <4>1, <4>2
    <3> QED
      BY <2>6, <3>1, <3>2
  <2> QED
    BY <1>6, <2>1, <2>3, <2>7, <2>8, <2>9 DEF BlocksFit, AllUsed
<1> QED
  BY <1>7, <1>8

-----------------------------------------------------------------------------
(* The table, its capacity and the blocks under each operation *)

Occupied == {hooks[i].slot : i \in DOMAIN hooks}

SlotInv ==
    /\ heap \in BOOLEAN /\ hooks \in Seq(EntryTypes)
    /\ capacity \in Nat /\ Len(hooks) <= capacity
    /\ \A i, j \in DOMAIN hooks : hooks[i].slot = hooks[j].slot => i = j
    /\ BlocksFit(blocks, Occupied) /\ AllUsed(blocks)

LEMMA NothingFits == BlocksFit(<< >>, {}) /\ AllUsed(<< >>)
<1>1. << >> \in Seq(AnyBlocks) /\ DOMAIN << >> = {}
  OBVIOUS
<1> QED
  BY <1>1 DEF BlocksFit, AllUsed

LEMMA InitSlots == Init => SlotInv
<1> SUFFICES ASSUME Init PROVE SlotInv
  OBVIOUS
<1>1. /\ heap = FALSE /\ hooks = << >> /\ capacity = 0 /\ blocks = << >>
      /\ hooks \in Seq(EntryTypes) /\ Len(hooks) = 0 /\ DOMAIN hooks = {}
  BY DEF Init
<1>2. Occupied = {}
  BY <1>1 DEF Occupied
<1>3. BlocksFit(blocks, Occupied) /\ AllUsed(blocks)
  BY <1>1, <1>2, NothingFits
<1>4. Len(hooks) <= capacity /\ capacity \in Nat
  BY <1>1
<1>5. \A i, j \in DOMAIN hooks : hooks[i].slot = hooks[j].slot => i = j
  BY <1>1
<1>6. heap \in BOOLEAN
  BY DEF Init
<1> QED
  BY <1>1, <1>3, <1>4, <1>5, <1>6 DEF SlotInv

\* Entries change in their flags only.
LEMMA FlagsSlots ==
    ASSUME SlotInv, heap' \in BOOLEAN, UNCHANGED << capacity, blocks >>, hooks' \in Seq(EntryTypes),
           DOMAIN hooks' = DOMAIN hooks, \A i \in DOMAIN hooks : hooks'[i].slot = hooks[i].slot
    PROVE  SlotInv'
<1>1. Occupied' = Occupied
  BY DEF Occupied
<1>2. Len(hooks') = Len(hooks)
  BY DEF SlotInv
<1> QED
  BY <1>1, <1>2 DEF SlotInv

\* The table has room for the entry that is added.
LEMMA GrownFits ==
    ASSUME capacity \in Nat, Len(hooks) \in Nat, Len(hooks) <= capacity
    PROVE  Grown \in Nat /\ Len(hooks) + 1 <= Grown
<1> DEFINE n == Len(hooks)  c == capacity  g == Grown
<1>1. InitialCapacity \in Nat \ {0}
  BY MinHookAssumption
<1>2. g = IF c = 0 THEN InitialCapacity ELSE IF n >= c THEN c * 2 ELSE c
  BY DEF Grown
<1> HIDE DEF n, c, g
<1>3. c \in Nat /\ n \in Nat /\ n <= c
  BY DEF n, c
<1>4. g \in Nat /\ n + 1 <= g
  BY <1>1, <1>2, <1>3
<1> QED
  BY <1>4 DEF n, g

LEMMA CreateSlots ==
    ASSUME Inv2, SlotInv, NEW t \in Targets, MH_CreateHook(t)
    PROVE  SlotInv'
<1> DEFINE b == Built[code[t]]
           bs == MemoryBlocks(blocks)
           s == SlotOf(bs)
           e == [target |-> t, slot |-> s, above |-> b.above,
                 ips |-> b.ips, enabled |-> FALSE, queued |-> FALSE]
<1>1. /\ BlocksFit(blocks, Occupied) /\ AllUsed(blocks) /\ hooks \in Seq(EntryTypes)
      /\ capacity \in Nat /\ Len(hooks) <= capacity /\ heap \in BOOLEAN
      /\ \A i, j \in DOMAIN hooks : hooks[i].slot = hooks[j].slot => i = j
  BY DEF SlotInv
<1>2. /\ WithRoom(blocks) # {} \/ Len(blocks) < Cardinality(Bases)
      /\ heap' = heap
  BY DEF MH_CreateHook
<1>3. /\ BlocksFit(bs, Occupied) /\ FirstWithRoom(bs) \in DOMAIN bs
      /\ bs[FirstWithRoom(bs)].free # << >>
      /\ \A j \in DOMAIN bs \ {FirstWithRoom(bs)} : bs[j].used # 0
  BY <1>1, <1>2, MemoryFits
<1> HIDE DEF bs
<1>4. /\ s \in Slots /\ s \notin Occupied
      /\ BlocksFit(Taken(bs), Occupied \cup {s}) /\ AllUsed(Taken(bs))
  BY <1>3, TakenFits
<1> HIDE DEF s
<1>5. CASE blocks' = FreeBuffer(Taken(bs), s) /\ UNCHANGED << capacity, hooks >>
  <2>1. (Occupied \cup {s}) \ {s} = Occupied /\ s \in Occupied \cup {s}
    BY <1>4
  <2>2. BlocksFit(blocks', Occupied) /\ AllUsed(blocks')
    BY <1>4, <1>5, <2>1, FreeBufferFits
  <2>3. Occupied' = Occupied
    BY <1>5 DEF Occupied
  <2> QED
    BY <1>1, <1>2, <1>5, <2>2, <2>3 DEF SlotInv
<1>6. CASE b.ok /\ blocks' = Taken(bs) /\ capacity' = Grown /\ hooks' = Append(hooks, e)
  <2>1. e \in EntryTypes /\ e.slot = s
    <3>1. /\ code[t] \in CodeTypes /\ b = Build(code[t])
      BY CodeFacts DEF Inv2
    <3>2. b.above \in BOOLEAN /\ b.ips \in IPs
      BY <1>6, <3>1, BuildFacts
    <3> HIDE DEF b
    <3> QED
      BY <1>4, <3>2 DEF EntryTypes, IPs, Slots
  <2> HIDE DEF e
  <2>2. /\ hooks' \in Seq(EntryTypes) /\ Len(hooks') = Len(hooks) + 1 /\ Len(hooks) \in Nat
        /\ DOMAIN hooks' = DOMAIN hooks \cup {Len(hooks) + 1}
        /\ \A i \in DOMAIN hooks : hooks'[i] = hooks[i]
        /\ hooks'[Len(hooks) + 1] = e
    BY <1>1, <1>6, <2>1
  <2>3. Occupied' = Occupied \cup {s}
    BY <2>1, <2>2 DEF Occupied
  <2>4. \A i, j \in DOMAIN hooks' : hooks'[i].slot = hooks'[j].slot => i = j
    <3>1. \A i \in DOMAIN hooks : hooks[i].slot # s
      BY <1>4 DEF Occupied
    <3> QED
      BY <1>1, <2>1, <2>2, <3>1
  <2>5. capacity' \in Nat /\ Len(hooks') <= capacity'
    BY <1>1, <1>6, <2>2, GrownFits
  <2> QED
    BY <1>1, <1>2, <1>4, <1>6, <2>2, <2>3, <2>4, <2>5 DEF SlotInv
<1> QED
  BY <1>5, <1>6 DEF MH_CreateHook, bs, s

LEMMA QueueSlots ==
    ASSUME SlotInv, NEW scope, NEW on \in BOOLEAN, QueueHook(scope, on)
    PROVE  SlotInv'
<1>1. UNCHANGED << heap, capacity, blocks >> /\ DOMAIN hooks' = DOMAIN hooks
  BY DEF QueueHook, bufferVars
<1>2. hooks \in Seq(EntryTypes) /\ Len(hooks) \in Nat /\ DOMAIN hooks = 1 .. Len(hooks)
  BY DEF SlotInv
<1>3. ASSUME NEW i \in DOMAIN hooks
      PROVE  hooks'[i] \in EntryTypes /\ hooks'[i].slot = hooks[i].slot
  <2>1. hooks[i] \in EntryTypes
    BY <1>2
  <2> DEFINE h == [hooks[i] EXCEPT !.queued = on]
  <2>2. hooks'[i] = h \/ hooks'[i] = hooks[i]
    BY DEF QueueHook
  <2>3. h \in EntryTypes /\ h.slot = hooks[i].slot
    BY <2>1 DEF EntryTypes
  <2> HIDE DEF h
  <2> QED
    BY <2>1, <2>2, <2>3
<1>4. hooks' \in Seq(EntryTypes)
  <2>1. hooks' = [i \in 1 .. Len(hooks) |-> hooks'[i]]
    BY <1>2 DEF QueueHook
  <2> QED
    BY <1>2, <1>3, <2>1, IsASeq
<1> QED
  BY <1>1, <1>3, <1>4, FlagsSlots DEF SlotInv

LEMMA WriteSlots ==
    ASSUME Inv, SlotInv, EnableHookLL
    PROVE  SlotInv'
<1>1. UNCHANGED << heap, capacity, blocks >>
  BY DEF EnableHookLL, bufferVars
<1>2. PICK i \in DOMAIN hooks, on \in BOOLEAN :
        hooks' = [hooks EXCEPT ![i] = [@ EXCEPT !.enabled = on, !.queued = on]]
  BY WriteEntry
<1>3. hooks \in Seq(EntryTypes) /\ hooks[i] \in EntryTypes
  BY DEF SlotInv
<1> DEFINE e == [hooks[i] EXCEPT !.enabled = on, !.queued = on]
<1>4. e \in EntryTypes /\ e.slot = hooks[i].slot
  BY <1>3 DEF EntryTypes
<1>5. hooks' = [hooks EXCEPT ![i] = e]
  BY <1>2
<1> HIDE DEF e
<1>6. /\ hooks' \in Seq(EntryTypes) /\ DOMAIN hooks' = DOMAIN hooks
      /\ \A j \in DOMAIN hooks : hooks'[j].slot = hooks[j].slot
  BY <1>3, <1>4, <1>5
<1> QED
  BY <1>1, <1>6, FlagsSlots DEF SlotInv

\* The table that shrinks has room for the entries that are left.
LEMMA ShrunkFits ==
    ASSUME capacity \in Nat, Len(hooks) \in Nat, Len(hooks) <= capacity, NEW c \in Shrunk
    PROVE  c \in Nat /\ Len(hooks) - 1 <= c
<1> DEFINE n == Len(hooks)  k == capacity  half == capacity \div 2
<1>1. c = k \/ (c = half /\ half >= n - 1)
  BY DEF Shrunk
<1>2. half \in Nat /\ k \in Nat /\ n \in Nat /\ n <= k
  OBVIOUS
<1> HIDE DEF n, k, half
<1>3. c \in Nat /\ n - 1 <= c
  BY <1>1, <1>2
<1> QED
  BY <1>3 DEF n

LEMMA DeleteSlots ==
    ASSUME SlotInv, DeleteHookEntry
    PROVE  SlotInv'
<1>1. PICK i \in DOMAIN hooks : hooks' = Without(i) /\ blocks' = FreeBuffer(blocks, hooks[i].slot)
  BY DEF DeleteHookEntry
<1>2. heap' = heap /\ capacity' \in Shrunk
  BY DEF DeleteHookEntry
<1> DEFINE n == Len(hooks)
<1>3. /\ hooks \in Seq(EntryTypes) /\ n \in Nat /\ DOMAIN hooks = 1 .. n /\ i \in 1 .. n
      /\ capacity \in Nat /\ n <= capacity /\ heap \in BOOLEAN
      /\ \A j, k \in DOMAIN hooks : hooks[j].slot = hooks[k].slot => j = k
  BY DEF SlotInv
<1>4. /\ hooks' \in Seq(EntryTypes) /\ DOMAIN hooks' = 1 .. n - 1 /\ Len(hooks') = n - 1
      /\ \A k \in 1 .. n - 1 : hooks'[k] = IF k = i THEN hooks[n] ELSE hooks[k]
  BY <1>1, <1>3, WithoutFacts
<1>5. capacity' \in Nat /\ Len(hooks') <= capacity'
  BY <1>2, <1>3, <1>4, ShrunkFits
<1> DEFINE s == hooks[i].slot
<1>6. BlocksFit(blocks', Occupied \ {s}) /\ AllUsed(blocks')
  <2>1. s \in Occupied
    BY DEF Occupied
  <2> HIDE DEF s
  <2>2. BlocksFit(blocks, Occupied) /\ AllUsed(blocks)
    BY DEF SlotInv
  <2>3. blocks' = FreeBuffer(blocks, s)
    BY <1>1 DEF s
  <2> QED
    BY <2>1, <2>2, <2>3, FreeBufferFits
<1>7. \A j, k \in DOMAIN hooks' : hooks'[j].slot = hooks'[k].slot => j = k
  BY <1>3, <1>4
<1>8. Occupied' = Occupied \ {s}
  <2>1. ASSUME NEW k \in DOMAIN hooks' PROVE \E j \in DOMAIN hooks : j # i /\ hooks'[k] = hooks[j]
    <3>1. k \in 1 .. n - 1 /\ k \in 1 .. n /\ n \in 1 .. n /\ k # n
      BY <1>3, <1>4
    <3> QED
      BY <1>3, <1>4, <3>1
  <2>2. ASSUME NEW j \in DOMAIN hooks, j # i PROVE \E k \in DOMAIN hooks' : hooks'[k] = hooks[j]
    <3>1. CASE j = n
      <4>1. i \in 1 .. n - 1
        BY <1>3, <2>2, <3>1
      <4> QED
        BY <1>4, <3>1, <4>1
    <3>2. CASE j # n
      <4>1. j \in 1 .. n - 1
        BY <1>3, <3>2
      <4> QED
        BY <1>4, <2>2, <4>1
    <3> QED
      BY <3>1, <3>2
  <2>3. Occupied' \subseteq Occupied \ {s}
    BY <1>3, <2>1 DEF Occupied
  <2>4. Occupied \ {s} \subseteq Occupied'
    BY <2>2 DEF Occupied
  <2> QED
    BY <2>3, <2>4
<1> QED
  BY <1>2, <1>3, <1>4, <1>5, <1>6, <1>7, <1>8 DEF SlotInv

LEMMA DestroySlots == Destroy => SlotInv'
<1> SUFFICES ASSUME Destroy PROVE SlotInv'
  OBVIOUS
<1>1. /\ heap' = FALSE /\ hooks' = << >> /\ capacity' = 0 /\ blocks' = << >>
      /\ hooks' \in Seq(EntryTypes) /\ Len(hooks') = 0 /\ DOMAIN hooks' = {}
  BY DEF Destroy
<1>2. Occupied' = {}
  BY <1>1 DEF Occupied
<1>3. BlocksFit(blocks', Occupied') /\ AllUsed(blocks')
  BY <1>1, <1>2, NothingFits
<1>4. Len(hooks') <= capacity' /\ capacity' \in Nat
  BY <1>1
<1>5. \A i, j \in DOMAIN hooks' : hooks'[i].slot = hooks'[j].slot => i = j
  BY <1>1
<1>6. heap' \in BOOLEAN
  BY DEF Destroy
<1> QED
  BY <1>1, <1>3, <1>4, <1>5, <1>6 DEF SlotInv

LEMMA NextSlots == Inv /\ Inv2 /\ SlotInv /\ [Next]_vars => SlotInv'
<1> SUFFICES ASSUME Inv, Inv2, SlotInv, [Next]_vars PROVE SlotInv'
  OBVIOUS
<1>1. ASSUME UNCHANGED << hooks, capacity, blocks >>, heap' \in BOOLEAN PROVE SlotInv'
  BY <1>1, FlagsSlots DEF SlotInv
<1>2. CASE UNCHANGED vars
  BY <1>1, <1>2 DEF vars, bufferVars, SlotInv
<1>3. CASE Start
  <2>1. CASE MH_Initialize
    BY <1>1, <2>1 DEF MH_Initialize
  <2>2. ASSUME NEW call, NEW scope, NEW action, NEW write, Begin(call, scope, action, write)
        PROVE  SlotInv'
    BY <1>1, <2>2 DEF Begin, bufferVars, SlotInv
  <2>3. ASSUME NEW t \in Targets, MH_CreateHook(t) PROVE SlotInv'
    BY <2>3, CreateSlots
  <2>4. ASSUME NEW on \in BOOLEAN, NEW scope, QueueHook(scope, on) PROVE SlotInv'
    BY <2>4, QueueSlots
  <2> QED
    BY <1>3, <2>1, <2>2, <2>3, <2>4 DEF Start, MH_ApplyQueued, MH_Uninitialize, MH_RemoveHook,
         EnableAllHooksLL, EnableHook
<1>4. CASE Work
  <2>1. CASE EnableHookLL
    BY <2>1, WriteSlots
  <2>2. CASE DeleteHookEntry
    BY <2>2, DeleteSlots
  <2>3. CASE Destroy
    BY <2>3, DestroySlots
  <2>4. CASE ProtectFails \/ LeaveSpinLock
    BY <1>1, <2>4 DEF ProtectFails, LeaveSpinLock, bufferVars, SlotInv
  <2>5. ASSUME NEW th \in Threads, Freeze(th) \/ Unfreeze(th) PROVE SlotInv'
    BY <1>1, <2>5 DEF Freeze, Unfreeze, bufferVars, SlotInv
  <2> QED
    BY <1>4, <2>1, <2>2, <2>3, <2>4, <2>5 DEF Work
<1>5. ASSUME NEW th \in Threads, Run(th) PROVE SlotInv'
  <2>1. \E p : Move(th, p)
    BY <1>5 DEF Run, ThreadStart, ThreadExit, CallTarget, StepFunction, StepAbove,
         StepDetour, StepTrampoline
  <2> QED
    BY <1>1, <2>1 DEF Move, bufferVars, SlotInv
<1> QED
  BY <1>2, <1>3, <1>4, <1>5 DEF Next

(* Whatever slots are taken and given back, in whatever order and whether    *)
(* the calls succeed or not: each trampoline has a slot of its own, in a     *)
(* block that is there; a block counts the slots that are its entries', and  *)
(* lists each of the others once.                                            *)
THEOREM SlotsAreAccounted == Spec => []SlotsAccounted
<1>1. ASSUME SlotInv PROVE SlotsAccounted
  <2>1. \A i \in DOMAIN hooks : \E k \in DOMAIN blocks : blocks[k].base = hooks[i].slot[1]
    BY <1>1 DEF SlotInv, BlocksFit, Occupied
  <2>2. ASSUME NEW k \in DOMAIN blocks
        PROVE  LET mine == {i \in DOMAIN hooks : hooks[i].slot[1] = blocks[k].base}
                   free == {blocks[k].free[l] : l \in DOMAIN blocks[k].free}
               IN  /\ blocks[k].used = Cardinality(mine)
                   /\ Cardinality(free) = Len(blocks[k].free)
                   /\ free = 1 .. SlotsPerBlock \ {hooks[i].slot[2] : i \in mine}
    <3> DEFINE b == blocks[k]
               mine == {i \in DOMAIN hooks : hooks[i].slot[1] = b.base}
               busy == {n \in 1 .. SlotsPerBlock : << b.base, n >> \in Occupied}
    <3>1. BlockFits(b, Occupied) /\ BlocksFit(blocks, Occupied)
      BY <1>1 DEF SlotInv, BlocksFit
    <3>2. /\ Cardinality(FreeIn(b)) = Len(b.free) /\ FreeIn(b) = (1 .. SlotsPerBlock) \ busy
          /\ IsFiniteSet(busy) /\ Cardinality(busy) = b.used
      BY <3>1, FreeCounted DEF BlockFits
    <3>3. \A i \in mine : hooks[i].slot = << b.base, hooks[i].slot[2] >> /\ hooks[i].slot[2] \in busy
      <4> TAKE i \in mine
      <4>1. hooks[i].slot \in Occupied
        BY DEF Occupied
      <4> QED
        BY <3>1, <4>1, BlocksFacts
    <3>4. \A n \in busy : \E i \in mine : hooks[i].slot[2] = n
      BY DEF Occupied
    <3>5. \A i, j \in mine : hooks[i].slot[2] = hooks[j].slot[2] => i = j
      <4> SUFFICES ASSUME NEW i \in mine, NEW j \in mine, hooks[i].slot[2] = hooks[j].slot[2]
                   PROVE  i = j
        OBVIOUS
      <4>1. hooks[i].slot = hooks[j].slot
        <5> HIDE DEF b, mine, busy
        <5> QED
          BY <3>3
      <4> QED
        BY <1>1, <4>1 DEF SlotInv
    <3> DEFINE f == [i \in mine |-> hooks[i].slot[2]]
    <3> HIDE DEF mine, busy
    <3>6. f \in Injection(mine, busy) /\ f \in Surjection(mine, busy)
      BY <3>3, <3>4, <3>5 DEF Injection, IsInjective, Surjection
    <3>7. Cardinality(mine) = Cardinality(busy)
      BY <3>2, <3>6, FS_Injection
    <3>8. busy = {hooks[i].slot[2] : i \in mine}
      BY <3>3, <3>4
    <3> QED
      BY <3>2, <3>7, <3>8 DEF mine, FreeIn
  <2> QED
    BY <1>1, <2>1, <2>2 DEF SlotsAccounted, SlotInv
<1> QED
  BY InitInv, NextInv, InitInv2, NextInv2, InitSlots, NextSlots, <1>1, PTL DEF Spec

(* The state keeps the shape of the declarations; no block is without slots  *)
(* in use when a call has returned.                                          *)
THEOREM TypeCorrect == Spec => []TypeOK
<1> DEFINE Suspended == frozen \subseteq Threads /\ stuck \subseteq Threads
<1>2. Init => Suspended
  BY DEF Init
<1>3. Suspended /\ [Next]_vars => Suspended'
  <2> SUFFICES ASSUME Suspended, [Next]_vars PROVE Suspended'
    OBVIOUS
  <2>1. CASE UNCHANGED vars
    BY <2>1 DEF vars, suspendVars
  <2>2. CASE Start
    BY <2>2 DEF Start, MH_Initialize, MH_ApplyQueued, MH_Uninitialize, MH_RemoveHook, MH_CreateHook,
         EnableAllHooksLL, QueueHook, EnableHook, Begin, suspendVars
  <2>3. CASE Work
    BY <2>3 DEF Work, EnableHookLL, ProtectFails, LeaveSpinLock, DeleteHookEntry, Destroy, Freeze,
         Unfreeze, suspendVars
  <2>4. ASSUME NEW th \in Threads, Run(th) PROVE Suspended'
    <3>1. \E p : Move(th, p)
      BY <2>4 DEF Run, ThreadStart, ThreadExit, CallTarget, StepFunction, StepAbove,
           StepDetour, StepTrampoline
    <3> QED
      BY <3>1 DEF Move, suspendVars
  <2> QED
    BY <2>1, <2>2, <2>3, <2>4 DEF Next
<1>1. ASSUME Inv, Inv2, SlotInv, Suspended PROVE TypeOK
  <2>1. /\ locked \in BOOLEAN /\ heap \in BOOLEAN /\ hooks \in Seq(EntryTypes) /\ capacity \in Nat
        /\ job \in JobTypes /\ moved \subseteq frozen /\ ip \in [Threads -> Positions]
        /\ \A t \in Targets : code[t] \in Codes[t]
    BY <1>1 DEF Inv, Inv2, SlotInv, JobInv, CodesKnown, JobPhase, ThreadInv
  <2>2. patched \subseteq Targets
    <3>1. \A i \in DOMAIN hooks : hooks[i].target \in Targets
      BY <1>1 DEF Inv2, EntriesBuilt
    <3> QED
      BY <1>1, <3>1 DEF Inv, TableMatchesCode
  <2>3. blocks \in Seq(BlockTypes)
    <3>1. blocks \in Seq(AnyBlocks) /\ Len(blocks) \in Nat /\ DOMAIN blocks = 1 .. Len(blocks)
      BY <1>1 DEF SlotInv, BlocksFit
    <3>2. \A k \in DOMAIN blocks : blocks[k] \in BlockTypes
      <4> TAKE k \in DOMAIN blocks
      <4> DEFINE b == blocks[k]
      <4>1. b \in AnyBlocks /\ b.used # 0 /\ b.used + Len(b.free) = SlotsPerBlock
        BY <1>1 DEF SlotInv, BlocksFit, BlockFits, AllUsed
      <4>2. b.base \in Bases /\ b.used \in Nat /\ b.free \in Seq(1 .. SlotsPerBlock) /\ Len(b.free) \in Nat
        BY <4>1, BlockTypesFacts
      <4>3. b.used \in 1 .. SlotsPerBlock
        <5> DEFINE u == b.used  l == Len(b.free)
        <5>1. u \in Nat /\ u # 0 /\ l \in Nat /\ u + l = SlotsPerBlock /\ SlotsPerBlock \in Nat
          BY <4>1, <4>2, MinHookAssumption
        <5> HIDE DEF u, l
        <5>2. u \in 1 .. SlotsPerBlock
          BY ONLY <5>1
        <5> QED
          BY <5>2 DEF u
      <4>4. b = [base |-> b.base, free |-> b.free, used |-> b.used]
        BY <4>1 DEF AnyBlocks
      <4> QED
        BY <4>2, <4>3, <4>4 DEF BlockTypes
    <3>3. blocks = [k \in 1 .. Len(blocks) |-> blocks[k]]
      BY <3>1
    <3> QED
      BY <3>1, <3>2, <3>3, IsASeq
  <2> QED
    BY <1>1, <2>1, <2>2, <2>3 DEF TypeOK
<1> QED
  BY InitInv, NextInv, InitInv2, NextInv2, InitSlots, NextSlots, <1>1, <1>2, <1>3, PTL DEF Spec
=============================================================================
