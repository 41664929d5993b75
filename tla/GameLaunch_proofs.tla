-------------------------- MODULE GameLaunch_proofs --------------------------
(***************************************************************************)
(* Proofs about GameLaunch, for any consoles, commands and processes.      *)
(***************************************************************************)
EXTENDS GameLaunch, TLAPS

-----------------------------------------------------------------------------
(* Types and the tree of processes.                                         *)

ToolAt == {"idle", "spawn", "inject", "resume", "kill", "games", "wrappers", "cleaned"}
WrapperAt == {"start", "plain", "debug", "detach", "load", "wake", "wait", "over"}
GameAt == {"play", "release", "over"}

\* Where tools, wrappers and clients can be.
Places ==
    /\ \A t \in Tools : pc[t] \in ToolAt
    /\ \A p \in Pids : pc[p] \in IF image[p] = "wrapper" THEN WrapperAt
                                 ELSE IF image[p] = "game" THEN GameAt ELSE {"idle"}

\* Processes are made in the order of their numbers.
Made ==
    \A p \in Pids : IF p <= count THEN image[p] # "none"
                    ELSE image[p] = "none" /\ life[p] = "none" /\ child[p] = 0

\* A process that somebody has made knows who.
Links ==
    /\ \A a \in Actors : child[a] # 0 => child[a] <= count /\ parent[child[a]] = a
    /\ \A p \in Pids : parent[p] \in Pids => parent[p] <= count
    /\ \A p \in Pids : image[p] # "none" <=> parent[p] # 0

\* At these labels an actor has a child.
HasChild ==
    \A a \in Actors : pc[a] \in {"inject", "resume", "kill", "detach", "load", "wake",
                                 "wait", "release"} => child[a] # 0

BaseInv == TypeOK /\ Places /\ Made /\ Links /\ HasChild

LEMMA PidFacts ==
    /\ Pids \subseteq Nat /\ 0 \notin Actors /\ Tools \cap Pids = {}
    /\ Tools \subseteq Actors /\ Pids \subseteq Actors
    /\ \A p \in Pids : p >= 1 /\ p <= MaxPids
    /\ \A n \in Nat : n >= 1 /\ n <= MaxPids => n \in Pids
<1>1. 0 \notin Tools BY LaunchAssumption
<1>2. Pids \subseteq Nat /\ 0 \notin Pids BY LaunchAssumption DEF Pids
<1> QED BY <1>1, <1>2, LaunchAssumption DEF Pids, Actors

LEMMA BaseInit == Init => BaseInv
<1> SUFFICES ASSUME Init PROVE BaseInv
    OBVIOUS
<1> USE PidFacts DEF Init
<1>1. TypeOK BY LaunchAssumption DEF TypeOK
<1>2. Places /\ Made /\ Links /\ HasChild
    <2>1. \A p \in Pids : p \in Nat /\ ~(p <= 0) BY DEF Pids
    <2> QED BY <2>1 DEF Places, Made, Links, HasChild, ToolAt
<1> QED BY <1>1, <1>2 DEF BaseInv

LEMMA CreateBase ==
    ASSUME BaseInv, NEW a \in Actors, NEW from, NEW to, NEW bypass \in BOOLEAN,
           NEW mark \in BOOLEAN, NEW s \in {"suspended", "running"},
           to \in IF a \in Tools THEN ToolAt
                  ELSE IF image[a] = "wrapper" THEN WrapperAt ELSE GameAt,
           Create(a, from, to, bypass, mark, s)
    PROVE  BaseInv'
<1> DEFINE p == count + 1
<1> DEFINE i == IF debugger /\ ~bypass THEN "wrapper" ELSE "game"
<1> DEFINE here == IF i = "wrapper" THEN "start" ELSE "play"
<1> USE PidFacts
<1>1. TypeOK /\ Places /\ Made /\ Links /\ HasChild /\ count \in Nat /\ MaxPids \in Nat
    BY LaunchAssumption DEF BaseInv, TypeOK
<1>2. p \in Pids /\ p # a /\ a # 0 /\ p # 0 /\ ~(p <= count)
    BY <1>1 DEF Create, Made
<1>3. /\ count' = p /\ image' = [image EXCEPT ![p] = i] /\ life' = [life EXCEPT ![p] = s]
      /\ marked' = [marked EXCEPT ![p] = mark] /\ parent' = [parent EXCEPT ![p] = a]
      /\ pc' = [pc EXCEPT ![a] = to, ![p] = here] /\ child' = [child EXCEPT ![a] = p]
      /\ UNCHANGED << admin, debugger, dll, ncmd, todo, old, blind >>
    BY DEF Create, toolVars
<1>4. i \in {"wrapper", "game"} /\ (i = "wrapper" => here = "start") /\ (i = "game" => here = "play")
    OBVIOUS
<1>5. p \in Actors /\ a \notin Pids => a \in Tools
    BY DEF Actors
<1> HIDE DEF p, i, here
<1>6. TypeOK'
    <2>1. count' \in 0..MaxPids BY <1>1, <1>2, <1>3 DEF p
    <2>2. to \in ToolAt \cup WrapperAt \cup GameAt OBVIOUS
    <2>3. pc' \in [Actors -> ToolAt \cup WrapperAt \cup GameAt]
        BY <1>1, <1>2, <1>3, <1>4, <2>2 DEF TypeOK, ToolAt, WrapperAt, GameAt
    <2>4. child' \in [Actors -> Pids \cup {0}] BY <1>1, <1>2, <1>3 DEF TypeOK
    <2>5. parent' \in [Pids -> Actors \cup {0}] BY <1>1, <1>2, <1>3 DEF TypeOK
    <2>6. /\ image' \in [Pids -> {"none", "wrapper", "game"}]
          /\ life' \in [Pids -> {"none", "suspended", "running", "ended", "killed"}]
          /\ marked' \in [Pids -> BOOLEAN]
        BY <1>1, <1>3, <1>4 DEF TypeOK
    <2> QED BY <1>1, <1>3, <2>1, <2>3, <2>4, <2>5, <2>6
            DEF TypeOK, ToolAt, WrapperAt, GameAt
<1>7. /\ image'[p] = i /\ life'[p] = s /\ parent'[p] = a /\ child'[a] = p
      /\ pc'[a] = to /\ pc'[p] = here
      /\ \A q \in Pids \ {p} : image'[q] = image[q] /\ life'[q] = life[q] /\ parent'[q] = parent[q]
      /\ \A b \in Actors \ {a} : child'[b] = child[b]
      /\ \A b \in Actors \ {a, p} : pc'[b] = pc[b]
    BY <1>1, <1>2, <1>3, <1>5 DEF TypeOK
<1>8. a \in Pids => image'[a] = image[a] /\ image[a] # "none"
    BY <1>1, <1>2, <1>7 DEF Create, Made
<1>9. Places'
    <2>1. \A t \in Tools : pc'[t] \in ToolAt
        BY <1>1, <1>2, <1>7 DEF Places
    <2>2. ASSUME NEW q \in Pids
          PROVE  pc'[q] \in IF image'[q] = "wrapper" THEN WrapperAt
                            ELSE IF image'[q] = "game" THEN GameAt ELSE {"idle"}
        <3>1. CASE q = p BY <3>1, <1>4, <1>7 DEF WrapperAt, GameAt
        <3>2. CASE q = a
            <4>1. image[a] \in {"wrapper", "game"} BY <3>2, <1>1, <1>8 DEF TypeOK
            <4> QED BY <3>2, <4>1, <1>7, <1>8
        <3>3. CASE q # p /\ q # a BY <3>3, <1>1, <1>7 DEF Places
        <3> QED BY <3>1, <3>2, <3>3
    <2> QED BY <2>1, <2>2 DEF Places
<1>10. Made'
    <2>1. \A q \in Pids : q <= p <=> q = p \/ q <= count
        BY <1>1 DEF p
    <2>2. ASSUME NEW q \in Pids, q # p, q # a PROVE child'[q] = child[q]
        BY <2>2, <1>7
    <2>3. a \in Pids => a <= count BY <1>1 DEF Create, Made
    <2> QED BY <1>1, <1>2, <1>3, <1>4, <1>7, <2>1, <2>2, <2>3 DEF Made
<1>11. Links'
    <2>1. \A q \in Pids : parent[q] # p
        BY <1>1, <1>2 DEF Links
    <2>2. \A n \in Nat : n <= count => n <= p BY <1>1 DEF p
    <2>3. ASSUME NEW b \in Actors, child'[b] # 0
          PROVE  child'[b] <= count' /\ parent'[child'[b]] = b
        <3>1. CASE b = a BY <3>1, <1>2, <1>3, <1>7
        <3>2. CASE b # a
            <4>1. child'[b] = child[b] /\ child[b] \in Pids /\ child[b] <= count
                BY <3>2, <2>3, <1>1, <1>7 DEF Links, TypeOK
            <4>2. child[b] # p /\ parent[child[b]] = b
                BY <4>1, <2>3, <1>1, <1>2 DEF Links
            <4> QED BY <4>1, <4>2, <1>3, <1>7, <2>2
        <3> QED BY <3>1, <3>2
    <2>4. ASSUME NEW q \in Pids, parent'[q] \in Pids PROVE parent'[q] <= count'
        <3>1. CASE q = p
            <4>1. a \in Pids BY <3>1, <2>4, <1>7
            <4>2. life[a] = "running" BY <4>1 DEF Create
            <4>3. a <= count BY <4>1, <4>2, <1>1 DEF Made
            <4>4. a \in Nat BY <4>1
            <4>5. a <= p BY <4>3, <4>4, <2>2
            <4>6. parent'[q] = a /\ count' = p BY <3>1, <1>3, <1>7
            <4> QED BY <4>5, <4>6
        <3>2. CASE q # p
            <4>1. parent'[q] = parent[q] BY <3>2, <1>7
            <4>2. parent[q] \in Nat /\ parent[q] <= count BY <4>1, <2>4, <1>1 DEF Links
            <4> QED BY <4>1, <4>2, <1>3, <2>2
        <3> QED BY <3>1, <3>2
    <2>5. \A q \in Pids : image'[q] # "none" <=> parent'[q] # 0
        BY <1>1, <1>2, <1>4, <1>7 DEF Links
    <2> QED BY <2>3, <2>4, <2>5 DEF Links
<1>12. HasChild'
    BY <1>1, <1>2, <1>4, <1>7 DEF HasChild
<1> QED BY <1>6, <1>9, <1>10, <1>11, <1>12 DEF BaseInv

Lives == {"none", "suspended", "running", "ended", "killed"}
WithChild == {"inject", "resume", "kill", "detach", "load", "wake", "wait", "release"}

\* Where actor a can be.
AtFor(a) ==
    IF a \in Tools THEN ToolAt
    ELSE IF image[a] = "wrapper" THEN WrapperAt ELSE IF image[a] = "game" THEN GameAt ELSE {"idle"}

\* A step that makes no process.
LEMMA MovesBase ==
    ASSUME BaseInv, NEW a \in Actors, NEW to \in AtFor(a),
           pc' = [pc EXCEPT ![a] = to], to \in WithChild => child[a] # 0,
           UNCHANGED << admin, count, image, parent, child >>,
           debugger' \in BOOLEAN, marked' \in [Pids -> BOOLEAN], dll' \in [Pids -> BOOLEAN],
           life' \in [Pids -> Lives], \A p \in Pids : life[p] = "none" => life'[p] = "none",
           ncmd' \in [Tools -> Nat], todo' \in [Tools -> SUBSET Pids],
           old' \in [Tools -> 0..MaxPids], blind' \in [Tools -> BOOLEAN]
    PROVE  BaseInv'
<1> USE PidFacts
<1>1. TypeOK /\ Places /\ Made /\ Links /\ HasChild BY DEF BaseInv
<1>2. TypeOK'
    <2>1. to \in ToolAt \cup WrapperAt \cup GameAt BY DEF AtFor, ToolAt
    <2>2. pc' \in [Actors -> ToolAt \cup WrapperAt \cup GameAt]
        BY <1>1, <2>1 DEF TypeOK, ToolAt, WrapperAt, GameAt
    <2> QED BY <1>1, <2>2 DEF TypeOK, ToolAt, WrapperAt, GameAt, Lives
<1>3. pc'[a] = to /\ \A b \in Actors \ {a} : pc'[b] = pc[b]
    BY <1>1 DEF TypeOK
<1>4. Places' BY <1>1, <1>3 DEF Places, AtFor
<1>5. Made' BY <1>1 DEF Made
<1>6. Links' BY <1>1 DEF Links
<1>7. HasChild' BY <1>1, <1>3 DEF HasChild, WithChild
<1> QED BY <1>2, <1>4, <1>5, <1>6, <1>7 DEF BaseInv

\* Load, Resume and Terminated keep the types, and make no process.
LEMMA LifeFacts ==
    ASSUME BaseInv
    PROVE  /\ \A a \in Actors, seen \in BOOLEAN :
                Load(a, seen) => dll' \in [Pids -> BOOLEAN] /\ \A p \in Pids : dll[p] => dll'[p]
           /\ \A a \in Actors, apc \in BOOLEAN : Resume(a, apc) =>
                /\ life' \in [Pids -> Lives] /\ dll' \in [Pids -> BOOLEAN]
                /\ \A p \in Pids : dll[p] => dll'[p]
                /\ \A p \in Pids : life'[p] = life[p]
                                   \/ (p = child[a] /\ life[p] = "suspended" /\ life'[p] = "running")
           /\ \A p \in Pids : /\ Terminated(p) \in [Pids -> Lives]
                              /\ \A q \in Pids :
                                    \/ Terminated(p)[q] = life[q]
                                    \/ Alive(q) /\ Terminated(p)[q] = "killed"
                              /\ Terminated(p)[p] \notin {"suspended", "running"}
<1> USE PidFacts
<1>1. TypeOK BY DEF BaseInv
<1>2. ASSUME NEW a \in Actors, NEW seen \in BOOLEAN, Load(a, seen)
      PROVE  dll' \in [Pids -> BOOLEAN] /\ \A p \in Pids : dll[p] => dll'[p]
    BY <1>1, <1>2 DEF Load, TypeOK
<1>3. ASSUME NEW a \in Actors, NEW apc \in BOOLEAN, Resume(a, apc)
      PROVE  /\ life' \in [Pids -> Lives] /\ dll' \in [Pids -> BOOLEAN]
             /\ \A p \in Pids : dll[p] => dll'[p]
             /\ \A p \in Pids : life'[p] = life[p]
                                \/ (p = child[a] /\ life[p] = "suspended" /\ life'[p] = "running")
    <2>1. life \in [Pids -> Lives] /\ dll \in [Pids -> BOOLEAN] BY <1>1 DEF TypeOK, Lives
    <2>2. CASE life' = life /\ dll' = dll BY <2>1, <2>2
    <2>3. CASE /\ life[child[a]] = "suspended"
               /\ life' = [life EXCEPT ![child[a]] = "running"]
               /\ dll' = [dll EXCEPT ![child[a]] = @ \/ apc]
        <3>1. /\ life' \in [Pids -> Lives]
              /\ \A p \in Pids : life'[p] = life[p]
                                 \/ (p = child[a] /\ life[p] = "suspended" /\ life'[p] = "running")
            BY <2>1, <2>3 DEF Lives
        <3>2. dll' \in [Pids -> BOOLEAN] /\ \A p \in Pids : dll[p] => dll'[p]
            BY Zenon, <2>1, <2>3
        <3> QED BY <3>1, <3>2
    <2> QED BY <1>3, <2>2, <2>3 DEF Resume
<1>4. ASSUME NEW p \in Pids
      PROVE  /\ Terminated(p) \in [Pids -> Lives]
             /\ \A q \in Pids : \/ Terminated(p)[q] = life[q]
                                \/ Alive(q) /\ Terminated(p)[q] = "killed"
             /\ Terminated(p)[p] \notin {"suspended", "running"}
    BY <1>1 DEF Terminated, TypeOK, Lives, Alive
<1> QED BY <1>2, <1>3, <1>4

\* A process's label tells its image, and it has run.
LEMMA PlaceFacts ==
    ASSUME BaseInv
    PROVE  /\ \A t \in Tools : AtFor(t) = ToolAt
           /\ \A p \in Pids : pc[p] \in WrapperAt \ {"over"} => image[p] = "wrapper" /\ AtFor(p) = WrapperAt
           /\ \A p \in Pids : pc[p] \in GameAt \ {"over"} => image[p] = "game" /\ AtFor(p) = GameAt
<1> USE PidFacts
<1> QED BY DEF BaseInv, Places, AtFor, WrapperAt, GameAt, TypeOK

LEMMA ToolBase ==
    ASSUME BaseInv, NEW t \in Tools, Command(t) \/ Tool(t)
    PROVE  BaseInv'
<1> USE PidFacts, PlaceFacts
<1>0. ASSUME NEW i, NEW before \in BOOLEAN, Snapshot(t, i, before)
      PROVE  todo' \in [Tools -> SUBSET Pids] /\ blind' \in [Tools -> BOOLEAN]
    <2>1. todo \in [Tools -> SUBSET Pids] /\ blind \in [Tools -> BOOLEAN]
        BY DEF BaseInv, TypeOK
    <2>2. Found(i) \subseteq Pids BY DEF Found
    <2>3. todo' \in [Tools -> SUBSET Pids] BY <1>0, <2>1, <2>2 DEF Snapshot
    <2>4. blind' \in [Tools -> BOOLEAN] BY Zenon, <1>0, <2>1 DEF Snapshot
    <2> QED BY <2>3, <2>4
<1>1. TypeOK /\ HasChild /\ Made /\ t \in Actors /\ AtFor(t) = ToolAt
    BY DEF BaseInv
<1>2. ASSUME NEW to \in ToolAt \ WithChild, NEW v \in BOOLEAN, WriteValue(t, to, v),
             ncmd' \in [Tools -> Nat]
      PROVE  BaseInv'
    BY <1>1, <1>2, MovesBase DEF WriteValue, TypeOK, Lives, procVars
<1>3. ASSUME Given(t) PROVE ncmd' \in [Tools -> Nat]
    BY <1>1, <1>3 DEF Given, TypeOK
<1>4. CASE LaunchSet(t) BY <1>2, <1>3, <1>4 DEF LaunchSet, ToolAt, WithChild
<1>5. CASE IfeoSet(t) BY <1>2, <1>3, <1>5 DEF IfeoSet, ToolAt, WithChild
<1>6. CASE IfeoClear(t) BY <1>2, <1>3, <1>6 DEF IfeoClear, ToolAt, WithChild
<1>7. CASE CleanEnd(t) BY <1>1, <1>2, <1>7 DEF CleanEnd, ToolAt, WithChild, TypeOK
<1>8. CASE LaunchSpawn(t) BY <1>1, <1>8, CreateBase DEF LaunchSpawn, ToolAt
<1>9. CASE LaunchFails(t)
    BY <1>1, <1>9, MovesBase DEF LaunchFails, Goto, ToolAt, WithChild, TypeOK, Lives, procVars, toolVars
<1>10. CASE LaunchInject(t)
    <2>1. ASSUME NEW seen \in BOOLEAN, NEW to \in {"resume", "kill"},
                 Goto(t, "inject", to), Load(t, seen)
          PROVE  BaseInv'
        <3>1. child[t] # 0 BY <1>1, <2>1 DEF HasChild, Goto
        <3>2. dll' \in [Pids -> BOOLEAN] BY <1>1, <2>1, LifeFacts
        <3> QED BY <1>1, <2>1, <3>1, <3>2, MovesBase
                DEF Goto, Load, ToolAt, TypeOK, Lives, procVars, toolVars
    <2> QED BY <1>10, <2>1 DEF LaunchInject
<1>11. CASE LaunchResume(t)
    <2>1. /\ life' \in [Pids -> Lives] /\ \A p \in Pids : life[p] = "none" => life'[p] = "none"
          /\ dll' \in [Pids -> BOOLEAN]
        BY <1>1, <1>11, LifeFacts DEF LaunchResume
    <2> QED BY <1>1, <1>11, <2>1, MovesBase
            DEF LaunchResume, Resume, Goto, ToolAt, WithChild, TypeOK, procVars, toolVars
<1>12. CASE LaunchKill(t)
    <2>1. child[t] \in Pids BY <1>1, <1>12 DEF LaunchKill, Goto, HasChild, TypeOK
    <2>2. life' \in [Pids -> Lives] /\ \A p \in Pids : life[p] = "none" => life'[p] = "none"
        BY <1>1, <1>12, <2>1, LifeFacts DEF LaunchKill, Alive
    <2> QED BY <1>1, <1>12, <2>2, MovesBase
            DEF LaunchKill, Goto, ToolAt, WithChild, TypeOK, procVars, toolVars
<1>13. CASE CleanGames(t)
    <2>1. /\ todo' \in [Tools -> SUBSET Pids] /\ old' \in [Tools -> 0..MaxPids]
          /\ blind' \in [Tools -> BOOLEAN]
        BY <1>0, <1>1, <1>13 DEF CleanGames, TypeOK
    <2>2. /\ pc' = [pc EXCEPT ![t] = "games"] /\ ncmd' \in [Tools -> Nat]
          /\ UNCHANGED << admin, debugger, count, image, parent, marked, life, dll, child >>
        BY <1>3, <1>13 DEF CleanGames, procVars
    <2>3. "games" \in AtFor(t) /\ "games" \notin WithChild
        BY <1>1 DEF ToolAt, WithChild
    <2> QED BY <1>1, <2>1, <2>2, <2>3, MovesBase DEF TypeOK, Lives
<1>14. CASE CleanWrappers(t)
    <2>1. todo' \in [Tools -> SUBSET Pids] /\ blind' \in [Tools -> BOOLEAN]
        <3>1. blind[t] \in BOOLEAN BY <1>1 DEF TypeOK
        <3> QED BY <1>0, <1>14, <3>1 DEF CleanWrappers
    <2>2. /\ pc' = [pc EXCEPT ![t] = "wrappers"] /\ ncmd' \in [Tools -> Nat]
          /\ old' \in [Tools -> 0..MaxPids]
          /\ UNCHANGED << admin, debugger, count, image, parent, marked, life, dll, child >>
        BY <1>1, <1>14 DEF CleanWrappers, Goto, TypeOK, procVars
    <2>3. "wrappers" \in AtFor(t) /\ "wrappers" \notin WithChild
        BY <1>1 DEF ToolAt, WithChild
    <2> QED BY <1>1, <2>1, <2>2, <2>3, MovesBase DEF TypeOK, Lives
<1>15. ASSUME NEW p \in Pids, CleanKill(t, p) PROVE BaseInv'
    <2>1. todo' \in [Tools -> SUBSET Pids]
        BY <1>1, <1>15 DEF CleanKill, TypeOK
    <2>2. life' \in [Pids -> Lives] /\ \A q \in Pids : life[q] = "none" => life'[q] = "none"
        BY <1>1, <1>15, LifeFacts DEF CleanKill, TypeOK, Lives, Alive
    <2>3. pc' = [pc EXCEPT ![t] = pc[t]] /\ pc[t] \in ToolAt \ WithChild
        BY <1>1, <1>15 DEF CleanKill, TypeOK, ToolAt, WithChild
    <2> QED BY <1>1, <1>15, <2>1, <2>2, <2>3, MovesBase
            DEF CleanKill, TypeOK, procVars
<1> QED BY <1>4, <1>5, <1>6, <1>7, <1>8, <1>9, <1>10, <1>11, <1>12, <1>13, <1>14, <1>15
        DEF Command, Tool

LEMMA ProcessBase ==
    ASSUME BaseInv, NEW p \in Pids, Wrapper(p) \/ GameRelease(p) \/ Game(p)
    PROVE  BaseInv'
<1> USE PidFacts, PlaceFacts
<1>1. TypeOK /\ HasChild /\ Made /\ p \in Actors /\ p \notin Tools
    BY DEF BaseInv
<1>2. ASSUME NEW from \in WrapperAt \ {"over"}, NEW to \in WrapperAt, Goto(p, from, to),
             to \in WithChild => from \in WithChild, UNCHANGED << admin, procVars, child >>,
             UNCHANGED << debugger, toolVars >>, dll' \in [Pids -> BOOLEAN],
             life' \in [Pids -> Lives], \A q \in Pids : life[q] = "none" => life'[q] = "none"
      PROVE  BaseInv'
    <2>1. to \in WithChild => child[p] # 0 BY <1>1, <1>2 DEF Goto, HasChild, WithChild
    <2>2. to \in AtFor(p) /\ pc' = [pc EXCEPT ![p] = to] BY <1>2 DEF Goto
    <2>3. /\ UNCHANGED << admin, count, image, parent, child >>
          /\ debugger' \in BOOLEAN /\ marked' \in [Pids -> BOOLEAN]
          /\ ncmd' \in [Tools -> Nat] /\ todo' \in [Tools -> SUBSET Pids]
          /\ old' \in [Tools -> 0..MaxPids] /\ blind' \in [Tools -> BOOLEAN]
        BY <1>1, <1>2 DEF TypeOK, procVars, toolVars
    <2> QED BY <1>1, <1>2, <2>1, <2>2, <2>3, MovesBase
<1>3. ASSUME life' = [life EXCEPT ![p] = "ended"], life[p] = "running"
      PROVE  life' \in [Pids -> Lives] /\ \A q \in Pids : life[q] = "none" => life'[q] = "none"
    BY <1>1, <1>3 DEF TypeOK, Lives
<1>4. life \in [Pids -> Lives] BY <1>1 DEF TypeOK, Lives
<1>5. CASE WrapperStart(p)
    BY <1>1, <1>5, MovesBase
    DEF WrapperStart, Goto, WrapperAt, WithChild, TypeOK, Lives, toolVars
<1>6. CASE WrapperSpawn(p)
    BY <1>1, <1>6, CreateBase DEF WrapperSpawn, Create, WrapperAt
<1>7. CASE WrapperFails(p)
    BY <1>1, <1>2, <1>3, <1>7 DEF WrapperFails, Goto, WrapperAt, WithChild, TypeOK
<1>8. CASE WrapperDetach(p)
    BY <1>1, <1>2, <1>4, <1>8 DEF WrapperDetach, Goto, WrapperAt, WithChild, TypeOK
<1>9. CASE WrapperLoad(p)
    <2>1. dll' \in [Pids -> BOOLEAN] BY <1>1, <1>9, LifeFacts DEF WrapperLoad
    <2> QED BY <1>1, <1>2, <1>4, <1>9, <2>1 DEF WrapperLoad, Load, WrapperAt, WithChild
<1>10. CASE WrapperWake(p)
    <2>1. /\ life' \in [Pids -> Lives] /\ \A q \in Pids : life[q] = "none" => life'[q] = "none"
          /\ dll' \in [Pids -> BOOLEAN]
        BY <1>1, <1>10, LifeFacts DEF WrapperWake
    <2> QED BY <1>1, <1>2, <1>10, <2>1 DEF WrapperWake, Resume, WrapperAt, WithChild, TypeOK
<1>11. CASE WrapperReturn(p)
    BY <1>1, <1>2, <1>3, <1>11 DEF WrapperReturn, Goto, WrapperAt, WithChild, TypeOK
<1>12. ASSUME NEW from \in GameAt \ {"over"}, NEW to \in GameAt, Goto(p, from, to),
             to \in WithChild => from \in WithChild, UNCHANGED << admin, procVars, child >>,
             UNCHANGED << debugger, toolVars >>, dll' \in [Pids -> BOOLEAN],
             life' \in [Pids -> Lives], \A q \in Pids : life[q] = "none" => life'[q] = "none"
      PROVE  BaseInv'
    <2>1. to \in WithChild => child[p] # 0 BY <1>1, <1>12 DEF Goto, HasChild, WithChild
    <2>2. to \in AtFor(p) /\ pc' = [pc EXCEPT ![p] = to] BY <1>12 DEF Goto
    <2>3. /\ UNCHANGED << admin, count, image, parent, child >>
          /\ debugger' \in BOOLEAN /\ marked' \in [Pids -> BOOLEAN]
          /\ ncmd' \in [Tools -> Nat] /\ todo' \in [Tools -> SUBSET Pids]
          /\ old' \in [Tools -> 0..MaxPids] /\ blind' \in [Tools -> BOOLEAN]
        BY <1>1, <1>12 DEF TypeOK, procVars, toolVars
    <2> QED BY <1>1, <1>12, <2>1, <2>2, <2>3, MovesBase
<1>14. CASE GameRelease(p)
    <2>1. /\ life' \in [Pids -> Lives] /\ \A q \in Pids : life[q] = "none" => life'[q] = "none"
          /\ dll' \in [Pids -> BOOLEAN]
        BY <1>1, <1>14, LifeFacts DEF GameRelease
    <2> QED BY <1>1, <1>12, <1>14, <2>1 DEF GameRelease, Resume, GameAt, WithChild, TypeOK
<1>15. CASE GameEnds(p)
    BY <1>1, <1>3, <1>12, <1>15 DEF GameEnds, Goto, GameAt, WithChild, TypeOK
<1>16. ASSUME NEW mark \in BOOLEAN, GameRelaunch(p, mark) PROVE BaseInv'
    <2>1. image[p] = "game" /\ p \notin Tools BY <1>1, <1>16 DEF GameRelaunch
    <2>2. ASSUME NEW to \in {"release", "play"}, NEW st \in {"suspended", "running"},
                 Create(p, "play", to, FALSE, mark, st)
          PROVE  BaseInv'
        <3>1. to \in IF p \in Tools THEN ToolAt
                    ELSE IF image[p] = "wrapper" THEN WrapperAt ELSE GameAt
            BY <2>1 DEF GameAt
        <3>2. p \in Actors /\ FALSE \in BOOLEAN OBVIOUS
        <3> HIDE PidFacts, PlaceFacts
        <3> QED BY <2>2, <3>1, <3>2, CreateBase
    <2> QED BY <1>16, <2>2 DEF GameRelaunch
<1> QED BY <1>5, <1>6, <1>7, <1>8, <1>9, <1>10, <1>11, <1>14, <1>15, <1>16
        DEF Wrapper, Game

LEMMA BaseNext == BaseInv /\ [Next]_vars => BaseInv'
<1> SUFFICES ASSUME BaseInv, [Next]_vars PROVE BaseInv'
    OBVIOUS
<1>1. ASSUME UNCHANGED vars PROVE BaseInv'
    BY <1>1 DEF vars, procVars, toolVars, BaseInv, TypeOK, Places, Made, Links, HasChild
<1> QED BY <1>1, ToolBase, ProcessBase DEF Next, Quiet

\* The values the variables take.
THEOREM LaunchTypes == Spec => []TypeOK
<1>1. BaseInv => TypeOK BY DEF BaseInv
<1> QED BY <1>1, BaseInit, BaseNext, PTL DEF Spec

-----------------------------------------------------------------------------
(* What a step changes.                                                     *)

\* The process that is made next.
Fresh == count + 1

\* What is so after Create.
Born(a, to, bypass, mark, s) ==
    /\ Fresh \in Pids /\ Fresh # a /\ ~(Fresh <= count) /\ count' = Fresh
    /\ image'[Fresh] \in {"wrapper", "game"} /\ (bypass => image'[Fresh] = "game")
    /\ marked'[Fresh] = mark /\ life'[Fresh] = s /\ parent'[Fresh] = a /\ child'[a] = Fresh
    /\ pc'[Fresh] \in {"start", "play"} /\ pc'[a] = to
    /\ \A q \in Pids \ {Fresh} : /\ image'[q] = image[q] /\ marked'[q] = marked[q]
                                 /\ life'[q] = life[q] /\ parent'[q] = parent[q]
    /\ \A b \in Actors \ {a} : child'[b] = child[b]
    /\ \A b \in Actors \ {a, Fresh} : pc'[b] = pc[b]
    /\ \A q \in Pids : parent[q] # Fresh
    /\ UNCHANGED << admin, dll, ncmd, todo, old, blind >>

LEMMA CreateFacts ==
    ASSUME BaseInv, NEW a \in Actors, NEW from, NEW to, NEW bypass \in BOOLEAN,
           NEW mark \in BOOLEAN, NEW s, Create(a, from, to, bypass, mark, s)
    PROVE  Born(a, to, bypass, mark, s)
<1> USE PidFacts
<1> DEFINE p == Fresh
<1> HIDE DEF p
<1>1. TypeOK /\ Made /\ Links /\ count \in Nat /\ MaxPids \in Nat
    BY LaunchAssumption DEF BaseInv, TypeOK
<1>2. p \in Pids /\ ~(p <= count) /\ p \in Actors BY <1>1 DEF Create, Fresh, p
<1>3. p # a
    <2>1. CASE a \in Pids BY <2>1, <1>1, <1>2 DEF Create, Made
    <2>2. CASE a \notin Pids BY <2>2, <1>2
    <2> QED BY <2>1, <2>2
<1>4. PICK i \in {"wrapper", "game"}, at \in {"start", "play"} :
        /\ bypass => i = "game"
        /\ image' = [image EXCEPT ![p] = i] /\ pc' = [pc EXCEPT ![a] = to, ![p] = at]
    BY DEF Create, Fresh, p
<1>5. /\ count' = p /\ life' = [life EXCEPT ![p] = s] /\ marked' = [marked EXCEPT ![p] = mark]
      /\ parent' = [parent EXCEPT ![p] = a] /\ child' = [child EXCEPT ![a] = p]
      /\ UNCHANGED << admin, dll, ncmd, todo, old, blind >>
    BY DEF Create, toolVars, Fresh, p
<1>6. \A q \in Pids : parent[q] # p BY <1>1, <1>2 DEF Links
<1>7. Fresh = p BY DEF p
<1> QED BY <1>1, <1>2, <1>3, <1>4, <1>5, <1>6, <1>7 DEF TypeOK, Born

\* Processes are made and are not made again; what is loaded and marked stays so.
Frame ==
    /\ admin' = admin /\ count <= count'
    /\ \A p \in Pids : p <= count => image'[p] = image[p] /\ parent'[p] = parent[p]
    /\ \A p \in Pids : life'[p] \in {"suspended", "running"} =>
            life[p] \in {"suspended", "running"} \/ ~(p <= count)
    /\ \A p \in Pids : /\ dll[p] => dll'[p]
                       /\ marked[p] /\ p <= count => marked'[p]

LEMMA CreateFrame ==
    ASSUME BaseInv, NEW a \in Actors, NEW from, NEW to, NEW bypass \in BOOLEAN,
           NEW mark \in BOOLEAN, NEW s, Create(a, from, to, bypass, mark, s)
    PROVE  Frame
<1>1. count <= Fresh BY DEF BaseInv, TypeOK, Fresh
<1>2. /\ Fresh \in Pids /\ ~(Fresh <= count) /\ count' = Fresh
      /\ \A q \in Pids \ {Fresh} : /\ image'[q] = image[q] /\ marked'[q] = marked[q]
                                   /\ life'[q] = life[q] /\ parent'[q] = parent[q]
      /\ UNCHANGED << admin, dll >>
    <2>1. Born(a, to, bypass, mark, s) BY CreateFacts
    <2> QED BY <2>1 DEF Born
<1> QED BY <1>1, <1>2 DEF Frame

LEMMA FrameHolds == BaseInv /\ [Next]_vars => Frame
<1> SUFFICES ASSUME BaseInv, [Next]_vars PROVE Frame
    OBVIOUS
<1> USE PidFacts
<1>1. TypeOK /\ count \in Nat BY DEF BaseInv, TypeOK
<1>2. count <= count BY <1>1
<1>3. ASSUME NEW a \in Actors, NEW seen \in BOOLEAN, Load(a, seen) PROVE Frame
    BY <1>2, <1>3, LifeFacts DEF Load, Frame, procVars
<1>4. ASSUME NEW a \in Actors, NEW apc \in BOOLEAN, Resume(a, apc) PROVE Frame
    BY <1>2, <1>4, LifeFacts DEF Resume, Frame, procVars
<1>5. ASSUME UNCHANGED << admin, procVars, life, dll >> PROVE Frame
    BY <1>2, <1>5 DEF Frame, procVars
<1>6. ASSUME NEW p \in Pids, life' \in {Terminated(p), life},
             UNCHANGED << admin, procVars, dll >>
      PROVE  Frame
    BY <1>2, <1>6, LifeFacts DEF Frame, procVars
<1>7. ASSUME NEW p \in Pids, life' = [life EXCEPT ![p] = "ended"],
             UNCHANGED << admin, procVars, dll >>
      PROVE  Frame
    BY <1>1, <1>2, <1>7 DEF Frame, procVars, TypeOK
<1>8. ASSUME NEW t \in Tools, Command(t) \/ Tool(t) PROVE Frame
    <2>1. CASE Command(t) \/ LaunchFails(t) \/ CleanWrappers(t) \/ CleanEnd(t)
        BY <1>5, <2>1 DEF Command, LaunchSet, IfeoSet, IfeoClear, WriteValue, CleanGames,
                          LaunchFails, CleanWrappers, CleanEnd
    <2>2. CASE LaunchSpawn(t) BY <2>2, CreateFrame DEF LaunchSpawn
    <2>3. CASE LaunchInject(t) BY <1>3, <2>3 DEF LaunchInject
    <2>4. CASE LaunchResume(t) BY <1>4, <2>4 DEF LaunchResume
    <2>5. CASE LaunchKill(t)
        <3>1. child[t] \in Pids
            BY <1>1, <2>5 DEF LaunchKill, Goto, BaseInv, HasChild, TypeOK
        <3> QED BY <1>6, <2>5, <3>1 DEF LaunchKill
    <2>6. ASSUME NEW p \in Pids, CleanKill(t, p) PROVE Frame
        BY <1>6, <2>6 DEF CleanKill
    <2> QED BY <1>8, <2>1, <2>2, <2>3, <2>4, <2>5, <2>6 DEF Tool
<1>9. ASSUME NEW p \in Pids, Wrapper(p) \/ GameRelease(p) \/ Game(p) PROVE Frame
    <2>1. CASE WrapperStart(p)
        BY <1>1, <1>2, <2>1 DEF WrapperStart, Frame, TypeOK
    <2>2. CASE WrapperSpawn(p) BY <2>2, CreateFrame DEF WrapperSpawn
    <2>3. CASE WrapperFails(p) \/ WrapperReturn(p) \/ GameEnds(p)
        BY <1>7, <2>3 DEF WrapperFails, WrapperReturn, GameEnds
    <2>4. CASE WrapperDetach(p) BY <1>5, <2>4 DEF WrapperDetach
    <2>5. CASE WrapperLoad(p) BY <1>3, <2>5 DEF WrapperLoad
    <2>6. CASE WrapperWake(p) \/ GameRelease(p) BY <1>4, <2>6 DEF WrapperWake, GameRelease
    <2>7. ASSUME NEW mark \in BOOLEAN, GameRelaunch(p, mark) PROVE Frame
        <3>1. \/ Create(p, "play", "release", FALSE, mark, "suspended")
              \/ Create(p, "play", "play", FALSE, mark, "running")
            BY <2>7 DEF GameRelaunch
        <3> QED BY <3>1, CreateFrame
    <2> QED BY <1>9, <2>1, <2>2, <2>3, <2>4, <2>5, <2>6, <2>7 DEF Wrapper, Game
<1> QED BY <1>5, <1>8, <1>9 DEF Next, Quiet, vars

Early == {"start", "plain", "debug"}

\* A step that makes no process: who becomes a first wrapper, who begins to
\* run, and who ends.
Keeps ==
    /\ UNCHANGED << count, image, parent, child >>
    /\ \A p \in Pids : pc'[p] \in Early =>
            /\ pc[p] \in Early
            /\ pc'[p] = "plain" => pc[p] = "plain" \/ ~marked[p]
    /\ \A p \in Pids : life'[p] = "running" =>
            life[p] = "running"
            \/ \E a \in Actors : child[a] = p /\ (a \in Tools => pc[a] = "resume")
    /\ \A p \in Pids : life'[p] = "ended" =>
            life[p] = "ended"
            \/ life[p] = "running"
    /\ \A t \in Tools : pc'[t] = "resume" => pc[t] = "resume" \/ dll'[child[t]]

Makes ==
    \/ \E t \in Tools : LaunchSpawn(t)
    \/ \E p \in Pids : WrapperSpawn(p) \/ \E mark \in BOOLEAN : GameRelaunch(p, mark)

LEMMA StepKinds == BaseInv /\ [Next]_vars => Keeps \/ Makes
<1> SUFFICES ASSUME BaseInv, [Next]_vars PROVE Keeps \/ Makes
    OBVIOUS
<1> USE PidFacts
<1>1. TypeOK /\ life \in [Pids -> Lives] BY DEF BaseInv, TypeOK, Lives
<1>2. ASSUME NEW a \in Actors, NEW to, to \notin Early, pc' = [pc EXCEPT ![a] = to],
             UNCHANGED << count, image, parent, child >>,
             a \in Tools /\ to = "resume" => dll'[child[a]],
             \A p \in Pids : \/ life'[p] = life[p]
                             \/ life'[p] = "killed"
                             \/ life'[p] = "running" /\ child[a] = p /\ (a \in Tools => pc[a] = "resume")
                             \/ life'[p] = "ended" /\ life[p] = "running"
      PROVE  Keeps
    <2>1. \A b \in Actors : pc'[b] = pc[b] \/ (b = a /\ pc'[b] = to)
        BY <1>1, <1>2 DEF TypeOK
    <2>2. \A p \in Pids : pc'[p] \in Early => pc'[p] = pc[p]
        BY <1>2, <2>1
    <2>3. \A t \in Tools : pc'[t] = "resume" => pc[t] = "resume" \/ dll'[child[t]]
        BY <1>2, <2>1
    <2> QED BY <1>2, <2>2, <2>3 DEF Keeps
<1>3. ASSUME NEW t \in Tools, Command(t) \/ Tool(t), ~LaunchSpawn(t) PROVE Keeps
    <2>1. CASE Command(t) \/ LaunchFails(t) \/ CleanWrappers(t) \/ CleanEnd(t)
        BY <1>2, <2>1
        DEF Command, LaunchSet, IfeoSet, IfeoClear, WriteValue, CleanGames, LaunchFails,
            CleanWrappers, CleanEnd, Goto, Early, procVars
    <2>2. CASE LaunchInject(t)
        <3>1. child[t] \in Pids
            BY <1>1, <2>2 DEF LaunchInject, Goto, BaseInv, HasChild, TypeOK
        <3>2. /\ UNCHANGED << count, image, parent, child, life >>
              /\ \E to \in {"resume", "kill"} : /\ pc' = [pc EXCEPT ![t] = to]
                                                /\ to = "resume" => dll'[child[t]]
            BY <1>1, <2>2, <3>1 DEF LaunchInject, Load, Goto, procVars, TypeOK
        <3> QED BY <1>2, <3>2 DEF Early
    <2>3. CASE LaunchResume(t)
        <3>1. pc[t] = "resume" /\ pc' = [pc EXCEPT ![t] = "idle"] BY <2>3 DEF LaunchResume, Goto
        <3>2. UNCHANGED << count, image, parent, child >> BY <2>3 DEF LaunchResume, Resume, procVars
        <3>3. \A p \in Pids : life'[p] = life[p] \/ (p = child[t] /\ life'[p] = "running")
            BY <2>3, LifeFacts DEF LaunchResume
        <3> QED BY <1>2, <3>1, <3>2, <3>3 DEF Early
    <2>4. CASE LaunchKill(t)
        <3>1. child[t] \in Pids
            BY <1>1, <2>4 DEF LaunchKill, Goto, BaseInv, HasChild, TypeOK
        <3>2. \A p \in Pids : life'[p] = life[p] \/ life'[p] = "killed"
            BY <2>4, <3>1, LifeFacts DEF LaunchKill
        <3> QED BY <1>2, <2>4, <3>2 DEF LaunchKill, Goto, Early, procVars
    <2>5. ASSUME NEW p \in Pids, CleanKill(t, p) PROVE Keeps
        <3>1. \A q \in Pids : life'[q] = life[q] \/ life'[q] = "killed"
            BY <2>5, LifeFacts DEF CleanKill
        <3>2. pc' = [pc EXCEPT ![t] = pc[t]] /\ pc[t] \notin Early \cup {"resume"}
            BY <1>1, <2>5 DEF CleanKill, TypeOK, Early
        <3> QED BY <1>2, <2>5, <3>1, <3>2 DEF CleanKill, procVars
    <2> QED BY <1>3, <2>1, <2>2, <2>3, <2>4, <2>5 DEF Tool
<1>4. ASSUME NEW p \in Pids, Wrapper(p) \/ GameRelease(p) \/ GameEnds(p), ~WrapperSpawn(p)
      PROVE  Keeps
    <2>1. CASE WrapperStart(p)
        <3>1. /\ pc[p] = "start" /\ pc' = [pc EXCEPT ![p] = IF marked[p] THEN "debug" ELSE "plain"]
              /\ UNCHANGED << count, image, parent, child, life >>
            BY <2>1 DEF WrapperStart, Goto
        <3>2. \A q \in Pids : pc'[q] \in Early =>
                /\ pc[q] \in Early
                /\ pc'[q] = "plain" => pc[q] = "plain" \/ ~marked[q]
            BY <1>1, <3>1 DEF TypeOK, Early
        <3>3. \A t \in Tools : pc'[t] = "resume" => pc[t] = "resume"
            BY <1>1, <3>1 DEF TypeOK
        <3> QED BY <3>1, <3>2, <3>3 DEF Keeps
    <2>2. CASE WrapperFails(p)
        <3>1. \A q \in Pids : life'[q] = life[q]
                              \/ (life'[q] = "ended" /\ life[q] = "running")
            BY <1>1, <2>2 DEF WrapperFails, Goto, TypeOK
        <3>2. /\ pc' = [pc EXCEPT ![p] = "over"] /\ "over" \notin Early
              /\ UNCHANGED << count, image, parent, child >>
            BY <2>2 DEF WrapperFails, Goto, Early, procVars
        <3> QED BY <1>2, <3>1, <3>2
    <2>3. CASE WrapperDetach(p) BY <1>2, <2>3 DEF WrapperDetach, Goto, Early, procVars
    <2>4. CASE WrapperLoad(p) BY <1>2, <2>4 DEF WrapperLoad, Load, Goto, Early, procVars
    <2>5. CASE WrapperWake(p)
        <3>1. \A q \in Pids : life'[q] = life[q] \/ (q = child[p] /\ life'[q] = "running")
            BY <2>5, LifeFacts DEF WrapperWake
        <3>2. /\ pc' = [pc EXCEPT ![p] = "wait"] /\ "wait" \notin Early
              /\ UNCHANGED << count, image, parent, child >>
            BY <2>5 DEF WrapperWake, Resume, Goto, Early, procVars
        <3> QED BY <1>2, <3>1, <3>2
    <2>6. CASE WrapperReturn(p)
        <3>1. \A q \in Pids : life'[q] = life[q]
                  \/ (life'[q] = "ended" /\ life[q] = "running")
            BY <1>1, <2>6 DEF WrapperReturn, Goto, TypeOK
        <3>2. /\ pc' = [pc EXCEPT ![p] = "over"] /\ "over" \notin Early
              /\ UNCHANGED << count, image, parent, child >>
            BY <2>6 DEF WrapperReturn, Goto, Early, procVars
        <3> QED BY <1>2, <3>1, <3>2
    <2>8. CASE GameRelease(p)
        <3>1. \A q \in Pids : life'[q] = life[q] \/ (q = child[p] /\ life'[q] = "running")
            BY <2>8, LifeFacts DEF GameRelease
        <3>2. /\ pc' = [pc EXCEPT ![p] = "play"] /\ "play" \notin Early
              /\ UNCHANGED << count, image, parent, child >>
            BY <2>8 DEF GameRelease, Resume, Goto, Early, procVars
        <3> QED BY <1>2, <3>1, <3>2
    <2>9. CASE GameEnds(p)
        <3>1. \A q \in Pids : life'[q] = life[q]
                  \/ (life'[q] = "ended" /\ life[q] = "running")
            BY <1>1, <2>9 DEF GameEnds, Goto, TypeOK
        <3>2. /\ pc' = [pc EXCEPT ![p] = "over"] /\ "over" \notin Early
              /\ UNCHANGED << count, image, parent, child >>
            BY <2>9 DEF GameEnds, Goto, Early, procVars
        <3> QED BY <1>2, <3>1, <3>2
    <2> QED BY <1>4, <2>1, <2>2, <2>3, <2>4, <2>5, <2>6, <2>8, <2>9 DEF Wrapper
<1>5. ASSUME UNCHANGED vars PROVE Keeps
    BY <1>5 DEF Keeps, vars, procVars
<1> QED BY <1>3, <1>4, <1>5 DEF Makes, Next, Wrapper, Game, Tool, Quiet

-----------------------------------------------------------------------------
(* ChainBounded.                                                            *)

\* A wrapper's wrapper has found the mark, and debugs what it makes.
Second ==
    \A q \in Pids :
        image[q] = "wrapper" /\ parent[q] \in Pids /\ image[parent[q]] = "wrapper" =>
            marked[q] /\ pc[q] # "plain"

LEMMA ChainNext ==
    ASSUME BaseInv, ChainBounded, Second, [Next]_vars
    PROVE  (ChainBounded /\ Second)'
<1> USE PidFacts
<1>1. TypeOK /\ Made /\ Links /\ Frame /\ count \in Nat BY FrameHolds DEF BaseInv, TypeOK
<1>2. \A q \in Pids : parent[q] \in Pids => parent[q] <= count /\ q <= count
    BY <1>1 DEF Links, Made
<1>3. ASSUME Keeps PROVE (ChainBounded /\ Second)'
    <2>1. \A q \in Pids : image[q] = "wrapper" /\ marked[q] => marked'[q]
        BY <1>1 DEF Made, Frame
    <2>2. Second'
        BY <1>3, <2>1 DEF Second, Keeps, Early
    <2> QED BY <1>3, <2>2 DEF ChainBounded, Keeps
<1>4. ASSUME NEW a \in Actors, NEW from, NEW to, NEW bypass \in BOOLEAN, NEW mark \in BOOLEAN,
             NEW s, Create(a, from, to, bypass, mark, s), to # "plain",
             a \in Pids /\ image[a] = "wrapper" => mark /\ (bypass \/ pc[a] = "plain")
      PROVE  (ChainBounded /\ Second)'
    <2>1. /\ Fresh \in Pids /\ Fresh # a /\ ~(Fresh <= count)
          /\ (bypass => image'[Fresh] = "game")
          /\ marked'[Fresh] = mark /\ parent'[Fresh] = a
          /\ pc'[Fresh] \in {"start", "play"} /\ pc'[a] = to
          /\ \A q \in Pids \ {Fresh} : /\ image'[q] = image[q] /\ marked'[q] = marked[q]
                                       /\ life'[q] = life[q] /\ parent'[q] = parent[q]
          /\ \A b \in Actors \ {a, Fresh} : pc'[b] = pc[b]
          /\ \A q \in Pids : parent[q] # Fresh
        <3>1. Born(a, to, bypass, mark, s) BY <1>4, CreateFacts
        <3> QED BY <3>1 DEF Born
    <2>2. \A q \in Pids : parent'[q] # Fresh BY <2>1
    <2>3. ChainBounded'
        <3> SUFFICES ASSUME NEW p \in Pids, NEW q \in Pids, NEW r \in Pids,
                            parent'[q] = p, parent'[r] = q, image'[p] = "wrapper",
                            image'[q] = "wrapper", image'[r] = "wrapper"
                     PROVE  FALSE
            BY DEF ChainBounded
        <3>1. p # Fresh /\ q # Fresh BY <2>2
        <3>2. parent[q] = p /\ image[p] = "wrapper" /\ image[q] = "wrapper"
            BY <2>1, <3>1
        <3>3. CASE r = Fresh
            <4>1. q = a /\ ~bypass BY <2>1, <3>3
            <4> QED BY <1>4, <3>2, <4>1 DEF Second
        <3>4. CASE r # Fresh
            BY <2>1, <3>2, <3>4 DEF ChainBounded
        <3> QED BY <3>3, <3>4
    <2>4. Second'
        <3> SUFFICES ASSUME NEW q \in Pids, image'[q] = "wrapper", parent'[q] \in Pids,
                            image'[parent'[q]] = "wrapper"
                     PROVE  marked'[q] /\ pc'[q] # "plain"
            BY DEF Second
        <3>1. parent'[q] # Fresh BY <2>2
        <3>2. CASE q = Fresh BY <1>4, <2>1, <3>1, <3>2
        <3>3. CASE q # Fresh
            <4>1. marked[q] /\ pc[q] # "plain" BY <2>1, <3>1, <3>3 DEF Second
            <4> QED BY <1>4, <2>1, <3>3, <4>1
        <3> QED BY <3>2, <3>3
    <2> QED BY <2>3, <2>4
<1>5. ASSUME NEW t \in Tools, LaunchSpawn(t) PROVE (ChainBounded /\ Second)'
    <2>1. Create(t, "spawn", "inject", FALSE, FALSE, "suspended") BY <1>5 DEF LaunchSpawn
    <2> QED BY <1>4, <2>1
<1>6. ASSUME NEW p \in Pids, WrapperSpawn(p) PROVE (ChainBounded /\ Second)'
    <2>1. CASE Create(p, "plain", "load", FALSE, TRUE, "suspended")
        <3>1. pc[p] = "plain" BY <2>1 DEF Create
        <3> QED BY <1>4, <2>1, <3>1
    <2>2. CASE Create(p, "debug", "detach", TRUE, TRUE, "suspended")
        BY <1>4, <2>2
    <2> QED BY <1>6, <2>1, <2>2 DEF WrapperSpawn
<1>7. ASSUME NEW p \in Pids, NEW mark \in BOOLEAN, GameRelaunch(p, mark)
      PROVE  (ChainBounded /\ Second)'
    <2>1. image[p] = "game" BY <1>7 DEF GameRelaunch
    <2>2. CASE Create(p, "play", "release", FALSE, mark, "suspended") BY <1>4, <2>1, <2>2
    <2>3. CASE Create(p, "play", "play", FALSE, mark, "running") BY <1>4, <2>1, <2>3
    <2> QED BY <1>7, <2>2, <2>3 DEF GameRelaunch
<1> QED BY <1>3, <1>5, <1>6, <1>7, StepKinds DEF Makes

\* The client, its wrapper and the wrapper's wrapper are all a start makes.
THEOREM ChainIsBounded == Spec => []ChainBounded
<1>1. Init => BaseInv /\ ChainBounded /\ Second
    BY BaseInit DEF Init, ChainBounded, Second
<1>2. (BaseInv /\ ChainBounded /\ Second) /\ [Next]_vars => (BaseInv /\ ChainBounded /\ Second)'
    BY BaseNext, ChainNext
<1> QED BY <1>1, <1>2, PTL DEF Spec

-----------------------------------------------------------------------------
(* LaunchedHasDll.                                                          *)

\* What launch is about to resume has the DLL.
Injected == \A t \in Tools : pc[t] = "resume" => dll[child[t]]

LEMMA DllNext ==
    ASSUME BaseInv, LaunchedHasDll, Injected, [Next]_vars
    PROVE  (LaunchedHasDll /\ Injected)'
<1> USE PidFacts
<1>1. TypeOK /\ Made /\ Links /\ HasChild /\ Frame BY FrameHolds DEF BaseInv
<1>2. CASE Keeps
    <2>1. \A t \in Tools : pc[t] = "resume" => child[t] \in Pids
        BY <1>1 DEF HasChild, TypeOK
    <2>2. Injected' BY <1>1, <1>2, <2>1 DEF Injected, Keeps, Frame
    <2>3. ASSUME NEW p \in Pids, parent'[p] \in Tools, life'[p] \in {"running", "ended"}
          PROVE  dll'[p]
        <3>1. parent[p] \in Tools BY <1>2, <2>3 DEF Keeps
        <3>2. CASE life[p] \in {"running", "ended"}
            BY <1>1, <3>1, <3>2 DEF LaunchedHasDll, Frame
        <3>3. CASE life[p] \notin {"running", "ended"}
            <4>1. PICK a \in Actors : child[a] = p /\ (a \in Tools => pc[a] = "resume")
                BY <1>2, <2>3, <3>3 DEF Keeps
            <4>2. parent[p] = a /\ pc[a] = "resume" BY <1>1, <3>1, <4>1 DEF Links
            <4> QED BY <1>1, <3>1, <4>1, <4>2 DEF Injected, Frame
        <3> QED BY <3>2, <3>3
    <2> QED BY <2>2, <2>3 DEF LaunchedHasDll
<1>3. ASSUME NEW a \in Actors, NEW from, NEW to, NEW bypass \in BOOLEAN, NEW mark \in BOOLEAN,
             NEW s, Create(a, from, to, bypass, mark, s), to # "resume",
             a \in Tools => s = "suspended"
      PROVE  (LaunchedHasDll /\ Injected)'
    <2>1. /\ Fresh \in Pids /\ Fresh # a
          /\ life'[Fresh] = s /\ parent'[Fresh] = a /\ pc'[a] = to
          /\ \A q \in Pids \ {Fresh} : /\ image'[q] = image[q] /\ marked'[q] = marked[q]
                                       /\ life'[q] = life[q] /\ parent'[q] = parent[q]
          /\ \A b \in Actors \ {a} : child'[b] = child[b]
          /\ \A b \in Actors \ {a, Fresh} : pc'[b] = pc[b]
          /\ dll' = dll
        <3>1. Born(a, to, bypass, mark, s) BY <1>3, CreateFacts
        <3> QED BY <3>1 DEF Born
    <2>2. LaunchedHasDll' BY <1>3, <2>1 DEF LaunchedHasDll
    <2>3. Injected' BY <1>3, <2>1 DEF Injected
    <2> QED BY <2>2, <2>3
<1>4. ASSUME NEW t \in Tools, LaunchSpawn(t) PROVE (LaunchedHasDll /\ Injected)'
    <2>1. Create(t, "spawn", "inject", FALSE, FALSE, "suspended") BY <1>4 DEF LaunchSpawn
    <2> QED BY <1>3, <2>1
<1>5. ASSUME NEW p \in Pids, WrapperSpawn(p) PROVE (LaunchedHasDll /\ Injected)'
    BY <1>3, <1>5 DEF WrapperSpawn
<1>6. ASSUME NEW p \in Pids, NEW mark \in BOOLEAN, GameRelaunch(p, mark)
      PROVE  (LaunchedHasDll /\ Injected)'
    <2>1. CASE Create(p, "play", "release", FALSE, mark, "suspended") BY <1>3, <2>1
    <2>2. CASE Create(p, "play", "play", FALSE, mark, "running") BY <1>3, <2>2
    <2> QED BY <1>6, <2>1, <2>2 DEF GameRelaunch
<1> QED BY <1>2, <1>4, <1>5, <1>6, StepKinds DEF Makes

\* launch never lets its process run without the DLL.
THEOREM LaunchedAlwaysHasDll == Spec => []LaunchedHasDll
<1>1. Init => BaseInv /\ LaunchedHasDll /\ Injected
    BY BaseInit, PidFacts DEF Init, LaunchedHasDll, Injected
<1>2. (BaseInv /\ LaunchedHasDll /\ Injected) /\ [Next]_vars
      => (BaseInv /\ LaunchedHasDll /\ Injected)'
    BY BaseNext, DllNext
<1> QED BY <1>1, <1>2, PTL DEF Spec

-----------------------------------------------------------------------------
(* CleanupReachesOld.                                                       *)

Stages == {"games", "wrappers", "cleaned"}

\* What of the processes that ran when the cleanup began is still to terminate.
Remaining(t) ==
    /\ old[t] <= count
    /\ admin /\ ~blind[t] => \A p \in Pids :
          p <= old[t] /\ life[p] \in {"suspended", "running"} =>
              /\ pc[t] = "games" => image[p] = "wrapper" \/ p \in todo[t]
              /\ pc[t] = "wrappers" => p \in todo[t]
              /\ pc[t] # "cleaned"

\* A step that is not of console t's cleanup.
Elsewhere(t) ==
    /\ old'[t] = old[t] /\ blind'[t] = blind[t]
    /\ pc'[t] \in Stages => pc'[t] = pc[t] /\ todo'[t] = todo[t]

Cleaning(t) ==
    \/ CleanGames(t) \/ CleanWrappers(t) \/ CleanEnd(t)
    \/ \E p \in Pids : CleanKill(t, p)

LEMMA CleanKinds ==
    ASSUME BaseInv, NEW t \in Tools, [Next]_vars
    PROVE  Elsewhere(t) \/ Cleaning(t)
<1> USE PidFacts
<1>1. TypeOK BY DEF BaseInv
<1>2. ASSUME NEW a \in Actors, NEW to, pc' = [pc EXCEPT ![a] = to], a # t \/ to \notin Stages,
             a # t => todo'[t] = todo[t], old'[t] = old[t], blind'[t] = blind[t]
      PROVE  Elsewhere(t)
    BY <1>1, <1>2 DEF Elsewhere, TypeOK
<1>3. ASSUME NEW a \in Actors, NEW from, NEW to, NEW bypass \in BOOLEAN, NEW mark \in BOOLEAN,
             NEW s, Create(a, from, to, bypass, mark, s), to \notin Stages
      PROVE  Elsewhere(t)
    <2>1. Born(a, to, bypass, mark, s) BY <1>3, CreateFacts
    <2>2. /\ Fresh \in Pids /\ pc'[a] = to
          /\ \A b \in Actors \ {a, Fresh} : pc'[b] = pc[b]
          /\ pc'[Fresh] \in {"start", "play"} /\ UNCHANGED << todo, old, blind >>
        BY <2>1 DEF Born
    <2> QED BY <1>3, <2>2 DEF Elsewhere
<1>4. ASSUME NEW u \in Tools, Command(u) \/ Tool(u), ~Cleaning(t) PROVE Elsewhere(t)
    <2>1. CASE LaunchSet(u) \/ IfeoSet(u) \/ IfeoClear(u)
        BY <1>2, <2>1 DEF LaunchSet, IfeoSet, IfeoClear, WriteValue, Stages
    <2>2. CASE LaunchSpawn(u)
        <3>1. Create(u, "spawn", "inject", FALSE, FALSE, "suspended") BY <2>2 DEF LaunchSpawn
        <3>2. "inject" \notin Stages BY DEF Stages
        <3> QED BY <1>3, <3>1, <3>2
    <2>3. CASE LaunchFails(u) BY <1>2, <2>3 DEF LaunchFails, Goto, toolVars, Stages
    <2>4. CASE LaunchInject(u) BY <1>2, <2>4 DEF LaunchInject, Load, Goto, toolVars, Stages
    <2>5. CASE LaunchResume(u) BY <1>2, <2>5 DEF LaunchResume, Resume, Goto, toolVars, Stages
    <2>6. CASE LaunchKill(u) BY <1>2, <2>6 DEF LaunchKill, Goto, toolVars, Stages
    <2>7. CASE Cleaning(u)
        <3>1. u # t BY <1>4, <2>7
        <3>2. todo'[t] = todo[t] /\ old'[t] = old[t] /\ blind'[t] = blind[t]
            BY <1>1, <2>7, <3>1
            DEF Cleaning, Snapshot, CleanGames, CleanWrappers, CleanEnd, CleanKill, WriteValue, TypeOK
        <3>3. pc' = pc \/ \E to \in Stages : pc' = [pc EXCEPT ![u] = to]
            BY <2>7 DEF Cleaning, CleanGames, CleanWrappers, CleanEnd, CleanKill, WriteValue,
                        Goto, Stages
        <3>4. pc'[t] = pc[t] BY <1>1, <3>1, <3>3 DEF TypeOK
        <3> QED BY <3>2, <3>4 DEF Elsewhere
    <2> QED BY <1>4, <2>1, <2>2, <2>3, <2>4, <2>5, <2>6, <2>7 DEF Command, Tool, Cleaning
<1>5. ASSUME NEW p \in Pids, Wrapper(p) \/ GameRelease(p) \/ Game(p) PROVE Elsewhere(t)
    <2>1. CASE WrapperStart(p) BY <1>2, <2>1 DEF WrapperStart, Goto, toolVars
    <2>2. CASE WrapperSpawn(p)
        <3>1. \/ Create(p, "plain", "load", FALSE, TRUE, "suspended")
              \/ Create(p, "debug", "detach", TRUE, TRUE, "suspended")
            BY <2>2 DEF WrapperSpawn
        <3>2. "load" \notin Stages /\ "detach" \notin Stages BY DEF Stages
        <3> QED BY <1>3, <3>1, <3>2
    <2>3. CASE WrapperFails(p) BY <1>2, <2>3 DEF WrapperFails, Goto, toolVars
    <2>4. CASE WrapperDetach(p) BY <1>2, <2>4 DEF WrapperDetach, Goto, toolVars
    <2>5. CASE WrapperLoad(p) BY <1>2, <2>5 DEF WrapperLoad, Load, Goto, toolVars
    <2>6. CASE WrapperWake(p) BY <1>2, <2>6 DEF WrapperWake, Resume, Goto, toolVars
    <2>7. CASE WrapperReturn(p) BY <1>2, <2>7 DEF WrapperReturn, Goto, toolVars
    <2>9. CASE GameRelease(p) BY <1>2, <2>9 DEF GameRelease, Resume, Goto, toolVars
    <2>10. CASE GameEnds(p) BY <1>2, <2>10 DEF GameEnds, Goto, toolVars
    <2>11. ASSUME NEW mark \in BOOLEAN, GameRelaunch(p, mark) PROVE Elsewhere(t)
        <3>1. \/ Create(p, "play", "release", FALSE, mark, "suspended")
              \/ Create(p, "play", "play", FALSE, mark, "running")
            BY <2>11 DEF GameRelaunch
        <3>2. "release" \notin Stages /\ "play" \notin Stages BY DEF Stages
        <3> QED BY <1>3, <3>1, <3>2
    <2> QED BY <1>5, <2>1, <2>2, <2>3, <2>4, <2>5, <2>6, <2>7, <2>9, <2>10, <2>11
            DEF Wrapper, Game
<1>6. ASSUME UNCHANGED vars PROVE Elsewhere(t)
    BY <1>6 DEF Elsewhere, vars, toolVars
<1> QED BY <1>4, <1>5, <1>6 DEF Next, Quiet

LEMMA CleanNext ==
    ASSUME BaseInv, NEW t \in Tools, Remaining(t), [Next]_vars
    PROVE  Remaining(t)'
<1> USE PidFacts
<1>1. /\ TypeOK /\ Made /\ Frame /\ count \in Nat /\ count' \in Nat /\ old[t] \in Nat
      /\ Pids \subseteq Nat
    BY BaseNext, FrameHolds DEF BaseInv, TypeOK
<1>2. \A p \in Pids : p <= old[t] /\ life'[p] \in {"suspended", "running"} =>
          /\ life[p] \in {"suspended", "running"} /\ p <= count /\ image'[p] = image[p]
    BY <1>1 DEF Remaining, Frame
<1>3. admin' = admin /\ old[t] <= count' BY <1>1 DEF Remaining, Frame
<1>4. CASE Elsewhere(t)
    BY <1>2, <1>3, <1>4 DEF Remaining, Elsewhere, Stages
<1>5. CASE CleanGames(t)
    <2>1. /\ old'[t] = count /\ pc'[t] = "games"
          /\ blind'[t] \/ todo'[t] = Found("game")
          /\ UNCHANGED << count, life, image >>
        BY <1>1, <1>5 DEF CleanGames, Snapshot, TypeOK, procVars
    <2>2. \A p \in Pids : p <= count => image[p] \in {"wrapper", "game"}
        BY <1>1 DEF Made, TypeOK
    <2> QED BY <1>1, <2>1, <2>2 DEF Remaining, Found, Alive
<1>6. CASE CleanWrappers(t)
    <2>1. /\ old'[t] = old[t] /\ pc'[t] = "wrappers"
          /\ blind'[t] \/ (blind'[t] = blind[t] /\ todo'[t] = Found("wrapper"))
          /\ pc[t] = "games" /\ todo[t] = {} /\ UNCHANGED << count, life, image >>
        BY <1>1, <1>6 DEF CleanWrappers, Snapshot, Goto, TypeOK, procVars
    <2> QED BY <1>2, <1>3, <2>1 DEF Remaining, Found, Alive
<1>7. CASE CleanEnd(t)
    <2>1. /\ old'[t] = old[t] /\ blind'[t] = blind[t]
          /\ pc'[t] = "cleaned" /\ pc[t] = "wrappers" /\ todo[t] = {}
          /\ UNCHANGED << count, life, image >>
        BY <1>1, <1>7 DEF CleanEnd, WriteValue, TypeOK, procVars
    <2> QED BY <1>2, <1>3, <2>1 DEF Remaining
<1>8. ASSUME NEW p \in Pids, CleanKill(t, p) PROVE Remaining(t)'
    <2>1. /\ old'[t] = old[t] /\ blind'[t] = blind[t]
          /\ pc'[t] = pc[t] /\ pc[t] \in {"games", "wrappers"}
          /\ todo'[t] = todo[t] \ {p} /\ UNCHANGED << count, image >>
        BY <1>1, <1>8 DEF CleanKill, TypeOK, procVars
    <2>2. admin => life'[p] \notin {"suspended", "running"}
        BY <1>8, LifeFacts DEF CleanKill
    <2> QED BY <1>2, <1>3, <2>1, <2>2 DEF Remaining
<1> QED BY <1>4, <1>5, <1>6, <1>7, <1>8, CleanKinds DEF Cleaning

\* A cleanup by an administrator whose snapshots did not fail terminates all
\* that ran when it began.
THEOREM CleanupAlwaysReachesOld == Spec => []CleanupReachesOld
<1> DEFINE R == \A t \in Tools : Remaining(t)
<1>1. Init => BaseInv /\ R
    <2>1. \A p \in Pids : ~(p <= 0) BY PidFacts, LaunchAssumption DEF Pids
    <2> QED BY <2>1, BaseInit, PidFacts DEF Init, Remaining
<1>2. (BaseInv /\ R) /\ [Next]_vars => (BaseInv /\ R)'
    BY BaseNext, CleanNext
<1>3. R => CleanupReachesOld BY DEF Remaining, CleanupReachesOld, Alive
<1> HIDE DEF R
<1> QED BY <1>1, <1>2, <1>3, PTL DEF Spec
=============================================================================
