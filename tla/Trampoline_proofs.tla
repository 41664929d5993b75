--------------------------- MODULE Trampoline_proofs ---------------------------
(***************************************************************************)
(* Proofs about Trampoline, for every code: what CreateTrampolineFunction  *)
(* has copied when it succeeds, and that the copy does what the code does. *)
(* Induction over the instructions is done with sets of naturals.          *)
(***************************************************************************)
EXTENDS Trampoline, TLAPS, SequenceTheorems, WellFoundedInduction

-----------------------------------------------------------------------------
(* Induction and recursion over 0 .. N *)

\* A set of naturals that is not empty has a least element.
LEMMA LeastExists ==
    ASSUME NEW T \in SUBSET Nat, T # {}
    PROVE  \E j \in T : \A k \in T : j <= k
<1> DEFINE R == OpToRel(<, Nat)
<1>1. \A j, k \in Nat : << k, j >> \in R <=> k < j
  BY DEF OpToRel
<1>2. IsWellFoundedOn(R, Nat)
  BY NatLessThanWellFounded
<1> HIDE DEF R
<1>3. PICK j \in T : \A k \in T : << k, j >> \notin R
  BY <1>2, WFMin
<1>4. ASSUME NEW k \in T PROVE j <= k
  <2>1. j \in Nat /\ k \in Nat /\ << k, j >> \notin R
    BY <1>3
  <2>2. ~(k < j)
    BY <1>1, <2>1
  <2> QED
    BY <2>1, <2>2
<1> QED
  BY <1>4

\* A set that has 0, and with each number the next one, has all up to N.
LEMMA Inductive ==
    ASSUME NEW N \in Nat, NEW Z, 0 \in Z,
           \A n \in 1 .. N : n - 1 \in Z => n \in Z
    PROVE  \A n \in 0 .. N : n \in Z
<1> DEFINE T == (0 .. N) \ Z
<1> SUFFICES ASSUME T # {} PROVE FALSE
  OBVIOUS
<1>1. PICK j \in T : \A k \in T : j <= k
  <2>1. T \in SUBSET Nat
    OBVIOUS
  <2> QED
    BY <2>1, LeastExists
<1>2. j \in 1 .. N /\ j \notin Z
  BY <1>1
<1>3. j - 1 \notin T
  BY <1>1, <1>2
<1> QED
  BY <1>2, <1>3

\* f begins with a, and step leads from each value to the next one.
IsRecursion(f, N, S, a, step) ==
    f \in [0 .. N -> S] /\ f[0] = a /\ \A n \in 1 .. N : f[n] = step[n][f[n - 1]]

\* A function is defined by its first value and the step to each next one.
LEMMA Recursion ==
    \A N, S, a, step :
        N \in Nat /\ a \in S /\ step \in [1 .. N -> [S -> S]] => \E f : IsRecursion(f, N, S, a, step)
<1> SUFFICES ASSUME NEW N \in Nat, NEW S, NEW a \in S, NEW step \in [1 .. N -> [S -> S]]
             PROVE  \E f : IsRecursion(f, N, S, a, step)
  OBVIOUS
<1> DEFINE Ok(f, m) == f[0] = a /\ \A n \in 1 .. m : f[n] = step[n][f[n - 1]]
           Z == {m \in 0 .. N : \E f \in [0 .. N -> S] : Ok(f, m)}
<1>1. 0 \in Z
  <2> DEFINE f == [n \in 0 .. N |-> a]
  <2>1. f \in [0 .. N -> S] /\ f[0] = a
    OBVIOUS
  <2> HIDE DEF f
  <2>2. Ok(f, 0)
    BY <2>1
  <2> QED
    BY <2>1, <2>2
<1>2. ASSUME NEW m \in 1 .. N, m - 1 \in Z PROVE m \in Z
  <2>1. PICK f \in [0 .. N -> S] : Ok(f, m - 1)
    BY <1>2
  <2> DEFINE g == [f EXCEPT ![m] = step[m][f[m - 1]]]
  <2>2. g \in [0 .. N -> S] /\ g[m] = step[m][f[m - 1]] /\ \A n \in 0 .. m - 1 : g[n] = f[n]
    OBVIOUS
  <2> HIDE DEF g
  <2>3. Ok(g, m)
    BY <2>1, <2>2
  <2> QED
    BY <2>2, <2>3
<1> HIDE DEF Z
<1>3. \A m \in 0 .. N : m \in Z
  BY <1>1, <1>2, Inductive
<1>4. PICK f \in [0 .. N -> S] : Ok(f, N)
  BY <1>3 DEF Z
<1> QED
  BY <1>4 DEF IsRecursion

\* A sequence of numbers that grows with each step.
LEMMA Increasing ==
    ASSUME NEW N \in Nat, NEW f \in [0 .. N -> Nat], \A n \in 1 .. N : f[n - 1] < f[n]
    PROVE  \A i, j \in 0 .. N : i < j => f[i] < f[j]
<1> SUFFICES ASSUME NEW i \in 0 .. N PROVE \A j \in 0 .. N : i < j => f[i] < f[j]
  OBVIOUS
<1> DEFINE Z == {j \in 0 .. N : i < j => f[i] < f[j]}
<1>1. 0 \in Z
  OBVIOUS
<1>2. ASSUME NEW n \in 1 .. N, n - 1 \in Z PROVE n \in Z
  <2>1. f[n - 1] < f[n] /\ f[n] \in Nat /\ f[n - 1] \in Nat /\ f[i] \in Nat
    OBVIOUS
  <2> QED
    BY <1>2, <2>1
<1> HIDE DEF Z
<1>3. \A n \in 0 .. N : n \in Z
  BY <1>1, <1>2, Inductive
<1> QED
  BY <1>3 DEF Z

\* Two such sequences grow by the same where their steps are the same.
LEMMA EqualDistance ==
    ASSUME NEW N \in Nat, NEW f \in [0 .. N -> Nat], NEW g \in [0 .. N -> Nat],
           NEW i \in 0 .. N, NEW j \in 0 .. N, i <= j,
           \A n \in i + 1 .. j : f[n] - f[n - 1] = g[n] - g[n - 1]
    PROVE  f[j] - f[i] = g[j] - g[i]
<1> DEFINE Z == {n \in 0 .. N : n \in i .. j => f[n] - f[i] = g[n] - g[i]}
<1>1. 0 \in Z
  OBVIOUS
<1>2. ASSUME NEW n \in 1 .. N, n - 1 \in Z PROVE n \in Z
  <2>1. f[n] \in Nat /\ g[n] \in Nat /\ f[n - 1] \in Nat /\ g[n - 1] \in Nat /\ f[i] \in Nat /\ g[i] \in Nat
    OBVIOUS
  <2>2. CASE n \in i + 1 .. j
    <3>1. n - 1 \in i .. j /\ f[n] - f[n - 1] = g[n] - g[n - 1]
      BY <2>2
    <3>2. f[n - 1] - f[i] = g[n - 1] - g[i]
      BY <1>2, <3>1
    <3>3. f[n] - f[i] = g[n] - g[i]
      <4> HIDE DEF Z
      <4> DEFINE u == f[n]  v == f[n - 1]  w == f[i]  x == g[n]  y == g[n - 1]  z == g[i]
      <4>1. u \in Nat /\ v \in Nat /\ w \in Nat /\ x \in Nat /\ y \in Nat /\ z \in Nat
        BY <2>1
      <4>2. u - v = x - y /\ v - w = y - z
        BY <3>1, <3>2
      <4> HIDE DEF u, v, w, x, y, z
      <4>3. u - w = x - z
        BY <4>1, <4>2
      <4> QED
        BY <4>3 DEF u, w, x, z
    <3> QED
      BY <3>3
  <2>3. CASE n \notin i + 1 .. j
    <3>1. n \in i .. j => n = i
      BY <2>3
    <3> QED
      BY <2>1, <3>1
  <2> QED
    BY <2>2, <2>3
<1> HIDE DEF Z
<1>3. \A n \in 0 .. N : n \in Z
  BY <1>1, <1>2, Inductive
<1> QED
  BY <1>3 DEF Z

-----------------------------------------------------------------------------
(* Where instructions end *)

LEMMA InstructionTypes ==
    ASSUME NEW c \in CodeTypes
    PROVE  /\ Len(c.body) \in Nat \ {0} /\ DOMAIN c.body = 1 .. Len(c.body)
           /\ \A n \in 1 .. Len(c.body) :
                /\ c.body[n] \in Instructions /\ c.body[n].op \in Ops
                /\ c.body[n].len \in 1 .. 15 /\ c.body[n].to \in Int
           /\ c.pad \in Nat
<1>1. c.body \in Seq(Instructions) /\ c.body # << >> /\ c.pad \in Nat
  BY DEF CodeTypes
<1>2. Len(c.body) \in Nat \ {0} /\ DOMAIN c.body = 1 .. Len(c.body)
  BY <1>1, EmptySeq
<1>3. ASSUME NEW n \in 1 .. Len(c.body) PROVE c.body[n] \in Instructions
  BY <1>1, <1>2
<1>4. \A i \in Instructions : i.op \in Ops /\ i.len \in 1 .. 15 /\ i.to \in Int
  BY DEF Instructions
<1> QED
  BY <1>1, <1>2, <1>3, <1>4

LEMMA EndsFacts ==
    ASSUME NEW c \in CodeTypes
    PROVE  /\ Ends(c) \in [0 .. Len(c.body) -> Nat] /\ Ends(c)[0] = 0
           /\ \A n \in 1 .. Len(c.body) : Ends(c)[n] = Ends(c)[n - 1] + c.body[n].len
<1> DEFINE N == Len(c.body)
           len == [n \in 1 .. N |-> c.body[n].len]
           step == [n \in 1 .. N |-> [x \in Nat |-> x + len[n]]]
           Is(f) == f = [n \in 0 .. N |-> IF n = 0 THEN 0 ELSE f[n - 1] + c.body[n].len]
<1>1. N \in Nat /\ len \in [1 .. N -> Nat] /\ \A n \in 1 .. N : len[n] = c.body[n].len
  <2>1. N \in Nat
    BY InstructionTypes
  <2>2. ASSUME NEW n \in 1 .. N PROVE c.body[n].len \in Nat
    <3>1. c.body[n].len \in 1 .. 15
      BY InstructionTypes
    <3> QED
      BY <3>1
  <2> QED
    BY <2>1, <2>2
<1> HIDE DEF N, len
<1>2. step \in [1 .. N -> [Nat -> Nat]]
  BY <1>1
<1>3. PICK f : IsRecursion(f, N, Nat, 0, step)
  <2> HIDE DEF step
  <2> QED
    BY <1>1, <1>2, Recursion
<1>4. f \in [0 .. N -> Nat] /\ f[0] = 0 /\ \A n \in 1 .. N : f[n] = f[n - 1] + len[n]
  <2>1. f \in [0 .. N -> Nat] /\ f[0] = 0 /\ \A n \in 1 .. N : f[n] = step[n][f[n - 1]]
    <3> HIDE DEF step
    <3> QED
      BY <1>3 DEF IsRecursion
  <2>2. ASSUME NEW n \in 1 .. N PROVE f[n] = f[n - 1] + len[n]
    <3>1. f[n - 1] \in Nat
      BY <1>1, <2>1
    <3> QED
      BY <2>1, <3>1
  <2> QED
    BY <2>1, <2>2
<1> HIDE DEF step
<1>5. Is(f)
  BY <1>1, <1>4
<1>6. Ends(c) = CHOOSE g : Is(g)
  BY DEF Ends, N
<1> HIDE DEF Is
<1>7. Is(Ends(c))
  BY <1>5, <1>6
<1> DEFINE e == Ends(c)
<1> HIDE DEF e
<1>8. e = [n \in 0 .. N |-> IF n = 0 THEN 0 ELSE e[n - 1] + c.body[n].len]
  BY <1>7 DEF e, Is
<1>9. e[0] = 0 /\ \A n \in 1 .. N : e[n] = e[n - 1] + len[n]
  BY <1>1, <1>8
<1>10. \A n \in 0 .. N : e[n] \in Nat
  <2> DEFINE Z == {n \in 0 .. N : e[n] \in Nat}
  <2>1. 0 \in Z
    BY <1>1, <1>9
  <2>2. \A n \in 1 .. N : n - 1 \in Z => n \in Z
    BY <1>1, <1>9
  <2> HIDE DEF Z
  <2>3. \A n \in 0 .. N : n \in Z
    BY <1>1, <2>1, <2>2, Inductive
  <2> QED
    BY <2>3 DEF Z
<1>11. e \in [0 .. N -> Nat]
  BY <1>8, <1>10
<1> QED
  BY <1>1, <1>9, <1>11 DEF e, N

\* Instructions have at least one byte, so no two start at one place.
LEMMA EndsIncrease ==
    ASSUME NEW c \in CodeTypes
    PROVE  \A i, j \in 0 .. Len(c.body) : i < j => Ends(c)[i] < Ends(c)[j]
<1> DEFINE N == Len(c.body)  e == Ends(c)
<1>1. N \in Nat /\ e \in [0 .. N -> Nat]
  BY InstructionTypes, EndsFacts
<1>2. ASSUME NEW n \in 1 .. N PROVE e[n - 1] < e[n]
  <2>1. e[n] = e[n - 1] + c.body[n].len
    BY EndsFacts
  <2>2. c.body[n].len \in 1 .. 15
    BY InstructionTypes
  <2> HIDE DEF N, e
  <2>3. e[n] \in Nat /\ e[n - 1] \in Nat
    BY <1>1
  <2> QED
    BY <2>1, <2>2, <2>3
<1> HIDE DEF N, e
<1>3. \A i, j \in 0 .. N : i < j => e[i] < e[j]
  BY <1>1, <1>2, Increasing
<1> QED
  BY <1>3 DEF N, e

\* The instruction at an offset is the one that starts there.
LEMMA OffsetInjective ==
    ASSUME NEW c \in CodeTypes, NEW k \in 1 .. Len(c.body)
    PROVE  /\ InstAt(c, Ends(c)[k - 1]) = c.body[k]
           /\ \A n \in 1 .. Len(c.body) : Ends(c)[n - 1] = Ends(c)[k - 1] => n = k
<1> DEFINE N == Len(c.body)  e == Ends(c)
<1>1. N \in Nat /\ DOMAIN c.body = 1 .. N /\ e \in [0 .. N -> Nat]
  BY InstructionTypes, EndsFacts
<1>2. \A i, j \in 0 .. N : i < j => e[i] < e[j]
  BY EndsIncrease
<1> HIDE DEF N, e
<1>3. ASSUME NEW n \in 1 .. N, e[n - 1] = e[k - 1] PROVE n = k
  <2>1. k \in 1 .. N
    BY DEF N
  <2>2. e[n - 1] \in Nat /\ n - 1 \in 0 .. N /\ k - 1 \in 0 .. N
    BY <1>1, <2>1
  <2> QED
    BY <1>2, <1>3, <2>1, <2>2
<1>4. (CHOOSE n \in DOMAIN c.body : e[n - 1] = e[k - 1]) = k
  BY <1>1, <1>3 DEF N
<1> QED
  BY <1>3, <1>4 DEF N, e, InstAt, Offset

-----------------------------------------------------------------------------
(* What has been copied *)

IPs == Seq([old : Nat, new : Nat])
StateTypes ==
    [old : Nat, new : Nat, branch : Nat, ips : IPs, state : {"open", "closed", "refused"}]

LEMMA CopySizeTypes ==
    ASSUME NEW old, NEW i \in Instructions
    PROVE  CopySize(old, i) \in Nat /\ CopySize(old, i) >= 1
<1>1. i.len \in 1 .. 15
  BY DEF Instructions
<1> QED
  BY <1>1 DEF CopySize, JmpLen, JccLen

LEMMA RoundTypes ==
    ASSUME NEW s \in StateTypes, NEW i \in Instructions
    PROVE  Round(s, i) \in StateTypes
<1>1. s.old \in Nat /\ s.new \in Nat /\ s.branch \in Nat /\ s.ips \in IPs
  BY DEF StateTypes
<1>2. i.len \in 1 .. 15 /\ i.to \in Int
  BY DEF Instructions
<1>3. Branch(s, i) \in Nat
  BY <1>1, <1>2 DEF Branch, Inside, JmpLen
<1>4. CopySize(s.old, i) \in Nat
  BY CopySizeTypes
<1>5. Append(s.ips, [old |-> s.old, new |-> s.new]) \in IPs
  BY <1>1 DEF IPs
<1>6. [s EXCEPT !.state = "refused"] \in StateTypes
  BY DEF StateTypes
<1> QED
  BY <1>1, <1>2, <1>3, <1>4, <1>5, <1>6 DEF Round, StateTypes

LEMMA RoundsFacts ==
    ASSUME NEW c \in CodeTypes
    PROVE  /\ Rounds(c) \in [0 .. Len(c.body) -> StateTypes] /\ Rounds(c)[0] = Untouched
           /\ \A n \in 1 .. Len(c.body) : Rounds(c)[n] = Round(Rounds(c)[n - 1], c.body[n])
<1> DEFINE N == Len(c.body)
           step == [n \in 1 .. N |-> [x \in StateTypes |-> Round(x, c.body[n])]]
           Is(f) == f = [n \in 0 .. N |-> IF n = 0 THEN Untouched ELSE Round(f[n - 1], c.body[n])]
<1>1. N \in Nat /\ \A n \in 1 .. N : c.body[n] \in Instructions
  BY InstructionTypes
<1> HIDE DEF N
<1>2. Untouched \in StateTypes
  <2>1. << >> \in IPs
    BY DEF IPs
  <2> QED
    BY <2>1 DEF Untouched, StateTypes
<1>3. step \in [1 .. N -> [StateTypes -> StateTypes]]
  BY <1>1, RoundTypes
<1>4. PICK f : IsRecursion(f, N, StateTypes, Untouched, step)
  <2> HIDE DEF step
  <2> QED
    BY <1>1, <1>2, <1>3, Recursion
<1>5. /\ f \in [0 .. N -> StateTypes] /\ f[0] = Untouched
      /\ \A n \in 1 .. N : f[n] = Round(f[n - 1], c.body[n])
  <2>1. f \in [0 .. N -> StateTypes] /\ f[0] = Untouched /\ \A n \in 1 .. N : f[n] = step[n][f[n - 1]]
    <3> HIDE DEF step
    <3> QED
      BY <1>4 DEF IsRecursion
  <2>2. ASSUME NEW n \in 1 .. N PROVE f[n] = Round(f[n - 1], c.body[n])
    <3>1. f[n - 1] \in StateTypes
      BY <1>1, <2>1
    <3> QED
      BY <2>1, <3>1
  <2> QED
    BY <2>1, <2>2
<1> HIDE DEF step
<1>6. Is(f)
  BY <1>1, <1>5
<1>7. Rounds(c) = CHOOSE g : Is(g)
  BY DEF Rounds, N
<1> HIDE DEF Is
<1>8. Is(Rounds(c))
  BY <1>6, <1>7
<1> DEFINE r == Rounds(c)
<1> HIDE DEF r
<1>9. r = [n \in 0 .. N |-> IF n = 0 THEN Untouched ELSE Round(r[n - 1], c.body[n])]
  BY <1>8 DEF r, Is
<1>10. r[0] = Untouched /\ \A n \in 1 .. N : r[n] = Round(r[n - 1], c.body[n])
  BY <1>1, <1>9
<1>11. \A n \in 0 .. N : r[n] \in StateTypes
  <2> DEFINE Z == {n \in 0 .. N : r[n] \in StateTypes}
  <2>1. 0 \in Z
    BY <1>1, <1>2, <1>10
  <2>2. \A n \in 1 .. N : n - 1 \in Z => n \in Z
    BY <1>1, <1>10, RoundTypes
  <2> HIDE DEF Z
  <2>3. \A n \in 0 .. N : n \in Z
    BY <1>1, <2>1, <2>2, Inductive
  <2> QED
    BY <2>3 DEF Z
<1>12. r \in [0 .. N -> StateTypes]
  BY <1>9, <1>11
<1> QED
  BY <1>10, <1>12 DEF r, N

\* When the loop ends with success, the first m instructions have been copied
\* one by one, and the m-th one ended it.
Copied(c, m) ==
    /\ \A j \in 1 .. m :
        LET s == Rounds(c)[j - 1]  i == c.body[j]
        IN  /\ s.state = "open" /\ ~Refused(s, i) /\ s.old = Ends(c)[j - 1]
            /\ Rounds(c)[j].new = s.new + CopySize(Ends(c)[j - 1], i)
            /\ Rounds(c)[j].branch = Branch(s, i)
            /\ Finished(s, i) <=> j = m
    /\ Rounds(c)[Len(c.body)] = Rounds(c)[m] /\ Rounds(c)[m].old = Ends(c)[m]
    /\ Len(Rounds(c)[m].ips) = m
    /\ \A k \in 1 .. m : Rounds(c)[m].ips[k] = [old |-> Ends(c)[k - 1], new |-> Rounds(c)[k - 1].new]

\* One round that goes on, and one that closes.
LEMMA RoundOpens ==
    ASSUME NEW s \in StateTypes, NEW i \in Instructions, Round(s, i).state # "refused", s.state = "open"
    PROVE  /\ ~Refused(s, i) /\ Round(s, i).old = s.old + i.len
           /\ Round(s, i).new = s.new + CopySize(s.old, i)
           /\ Round(s, i).branch = Branch(s, i)
           /\ Round(s, i).ips = Append(s.ips, [old |-> s.old, new |-> s.new])
           /\ Finished(s, i) <=> Round(s, i).state = "closed"
           /\ Round(s, i).state \in {"open", "closed"}
<1>1. [s EXCEPT !.state = "refused"].state = "refused"
  BY DEF StateTypes
<1>2. ~Refused(s, i)
  BY <1>1 DEF Round
<1> QED
  BY <1>2 DEF Round

LEMMA CopiedExists ==
    ASSUME NEW c \in CodeTypes, Rounds(c)[Len(c.body)].state = "closed"
    PROVE  \E m \in 1 .. Len(c.body) : Copied(c, m)
<1> DEFINE N == Len(c.body)  e == Ends(c)  r == Rounds(c)
<1>1. /\ N \in Nat /\ r \in [0 .. N -> StateTypes] /\ r[0] = Untouched
      /\ \A n \in 1 .. N : r[n] = Round(r[n - 1], c.body[n]) /\ c.body[n] \in Instructions
      /\ e \in [0 .. N -> Nat] /\ e[0] = 0 /\ \A n \in 1 .. N : e[n] = e[n - 1] + c.body[n].len
      /\ r[N].state = "closed"
  BY InstructionTypes, RoundsFacts, EndsFacts
<1> HIDE DEF N, e, r
<1> DEFINE T == {n \in 0 .. N : r[n].state # "open"}
<1>2. PICK m \in T : \A k \in T : m <= k
  <2>1. N \in T /\ T \in SUBSET Nat
    BY <1>1
  <2> QED
    BY <2>1, LeastExists
<1>3. m \in 1 .. N /\ r[m].state # "open" /\ \A n \in 0 .. m - 1 : r[n].state = "open"
  <2>1. r[0].state = "open"
    BY <1>1 DEF Untouched
  <2> QED
    BY <1>1, <1>2, <2>1
<1> HIDE DEF T
<1>4. r[N] = r[m]
  <2> DEFINE Z == {n \in 0 .. N : m <= n => r[n] = r[m]}
  <2>1. 0 \in Z
    BY <1>1, <1>3
  <2>2. ASSUME NEW n \in 1 .. N, n - 1 \in Z PROVE n \in Z
    <3>1. CASE m <= n - 1
      <4>1. r[n - 1] = r[m] /\ r[n - 1].state # "open"
        BY <1>3, <2>2, <3>1
      <4>2. Round(r[n - 1], c.body[n]) = r[n - 1]
        BY <4>1 DEF Round
      <4> QED
        BY <1>1, <4>1, <4>2
    <3>2. CASE ~(m <= n - 1)
      <4>1. m <= n => n = m
        BY <1>3, <3>2
      <4> QED
        BY <4>1
    <3> QED
      BY <3>1, <3>2
  <2> HIDE DEF Z
  <2>3. \A n \in 0 .. N : n \in Z
    BY <1>1, <2>1, <2>2, Inductive
  <2>4. N \in Z
    BY <1>1, <2>3
  <2> QED
    BY <1>3, <2>4 DEF Z
<1>5. r[m].state = "closed"
  BY <1>1, <1>4
<1>6. ASSUME NEW n \in 1 .. m
      PROVE  /\ r[n - 1] \in StateTypes /\ r[n] \in StateTypes /\ r[n - 1].state = "open"
             /\ ~Refused(r[n - 1], c.body[n]) /\ r[n].old = r[n - 1].old + c.body[n].len
             /\ r[n].new = r[n - 1].new + CopySize(r[n - 1].old, c.body[n])
             /\ r[n].branch = Branch(r[n - 1], c.body[n])
             /\ r[n].ips = Append(r[n - 1].ips, [old |-> r[n - 1].old, new |-> r[n - 1].new])
             /\ Finished(r[n - 1], c.body[n]) <=> n = m
  <2>1. n \in 1 .. N /\ n - 1 \in 0 .. N /\ n \in 0 .. N /\ n - 1 \in 0 .. m - 1
    BY <1>1, <1>3
  <2>2. r[n - 1] \in StateTypes /\ r[n] \in StateTypes /\ r[n - 1].state = "open" /\ c.body[n] \in Instructions
    BY <1>1, <1>3, <2>1
  <2>3. r[n].state = (IF n = m THEN "closed" ELSE "open")
    BY <1>3, <1>5, <2>1
  <2>4. r[n] = Round(r[n - 1], c.body[n])
    BY <1>1, <2>1
  <2> QED
    BY <2>2, <2>3, <2>4, RoundOpens
<1> DEFINE P(n) == /\ r[n].old = e[n] /\ Len(r[n].ips) = n
                   /\ \A k \in 1 .. n : r[n].ips[k] = [old |-> e[k - 1], new |-> r[k - 1].new]
<1>7. \A n \in 0 .. m : P(n)
  <2> DEFINE Z == {n \in 0 .. m : P(n)}
  <2>1. 0 \in Z
    BY <1>1, <1>3 DEF Untouched
  <2>2. ASSUME NEW n \in 1 .. m, n - 1 \in Z PROVE n \in Z
    <3>1. P(n - 1)
      BY <2>2
    <3>2. r[n - 1].ips \in IPs /\ r[n - 1].old \in Nat /\ r[n - 1].new \in Nat
      BY <1>6 DEF StateTypes
    <3>3. e[n] = e[n - 1] + c.body[n].len
      BY <1>1, <1>3
    <3>4. r[n].old = e[n]
      BY <1>6, <3>1, <3>3
    <3> DEFINE x == [old |-> r[n - 1].old, new |-> r[n - 1].new]  q == r[n - 1].ips
    <3>5. x \in [old : Nat, new : Nat] /\ x = [old |-> e[n - 1], new |-> r[n - 1].new]
      BY <3>1, <3>2
    <3>6. q \in Seq([old : Nat, new : Nat]) /\ Len(q) = n - 1 /\ r[n].ips = Append(q, x)
      BY <1>6, <3>1, <3>2 DEF IPs
    <3> HIDE DEF x, q
    <3>7. Len(r[n].ips) = n /\ r[n].ips[n] = x /\ \A k \in 1 .. n - 1 : r[n].ips[k] = q[k]
      BY <1>3, <3>5, <3>6
    <3>8. \A k \in 1 .. n : r[n].ips[k] = [old |-> e[k - 1], new |-> r[k - 1].new]
      <4> TAKE k \in 1 .. n
      <4>1. CASE k = n
        BY <3>5, <3>7, <4>1
      <4>2. CASE k # n
        <5>1. k \in 1 .. n - 1
          BY <4>2
        <5>2. q[k] = [old |-> e[k - 1], new |-> r[k - 1].new]
          BY <3>1, <5>1 DEF q
        <5> QED
          BY <3>7, <5>1, <5>2
      <4> QED
        BY <4>1, <4>2
    <3> QED
      BY <3>4, <3>7, <3>8
  <2> HIDE DEF Z
  <2>3. m \in Nat
    BY <1>1, <1>3
  <2>4. \A n \in 0 .. m : n \in Z
    BY <2>1, <2>2, <2>3, Inductive
  <2> QED
    BY <2>4 DEF Z
<1>8. P(m)
  BY <1>3, <1>7
<1>9. ASSUME NEW j \in 1 .. m
      PROVE  /\ r[j - 1].state = "open" /\ ~Refused(r[j - 1], c.body[j]) /\ r[j - 1].old = e[j - 1]
             /\ r[j].new = r[j - 1].new + CopySize(e[j - 1], c.body[j])
             /\ r[j].branch = Branch(r[j - 1], c.body[j])
             /\ Finished(r[j - 1], c.body[j]) <=> j = m
  <2>1. P(j - 1)
    BY <1>3, <1>7
  <2> QED
    BY <1>6, <2>1
<1>10. Copied(c, m)
  BY <1>4, <1>8, <1>9 DEF Copied, N, e, r
<1> QED
  BY <1>3, <1>10 DEF N

\* The offsets of the copies increase, and their table has one row for each.
LEMMA CopiedOffsets ==
    ASSUME NEW c \in CodeTypes, NEW m \in 1 .. Len(c.body), Copied(c, m)
    PROVE  /\ \A j \in 0 .. m : Rounds(c)[j].new \in Nat /\ Rounds(c)[j].branch \in Nat
           /\ \A i, j \in 0 .. m : i < j => Rounds(c)[i].new < Rounds(c)[j].new
           /\ Rounds(c)[0].new = 0
           /\ DOMAIN Build(c).ips = 1 .. m
           /\ \A k \in 1 .. m :
                /\ Build(c).ips[k].old = Ends(c)[k - 1] /\ Build(c).ips[k].new = Rounds(c)[k - 1].new
<1> DEFINE N == Len(c.body)  r == Rounds(c)  new == [j \in 0 .. m |-> r[j].new]
<1>1. N \in Nat /\ r \in [0 .. N -> StateTypes] /\ r[0] = Untouched /\ m \in 1 .. N
  BY InstructionTypes, RoundsFacts
<1>2. ASSUME NEW j \in 0 .. m PROVE r[j].new \in Nat /\ r[j].branch \in Nat /\ r[j].ips \in IPs
  <2>1. r[j] \in StateTypes
    <3> HIDE DEF N, r
    <3> QED
      BY <1>1
  <2> QED
    BY <2>1 DEF StateTypes
<1>3. new \in [0 .. m -> Nat]
  BY <1>2
<1>4. ASSUME NEW n \in 1 .. m PROVE new[n - 1] < new[n]
  <2>1. r[n].new = r[n - 1].new + CopySize(Ends(c)[n - 1], c.body[n])
    BY DEF Copied
  <2>2. c.body[n] \in Instructions
    BY <1>1, InstructionTypes
  <2>3. CopySize(Ends(c)[n - 1], c.body[n]) \in Nat /\ CopySize(Ends(c)[n - 1], c.body[n]) >= 1
    BY <2>2, CopySizeTypes
  <2> HIDE DEF r, N
  <2>4. r[n].new \in Nat /\ r[n - 1].new \in Nat /\ new[n] = r[n].new /\ new[n - 1] = r[n - 1].new
    BY <1>1, <1>2
  <2> QED
    BY <2>1, <2>3, <2>4
<1>5. \A i, j \in 0 .. m : i < j => new[i] < new[j]
  <2> HIDE DEF new, r, N
  <2>1. m \in Nat
    BY <1>1
  <2> QED
    BY <1>3, <1>4, <2>1, Increasing
<1>6. r[0].new = 0
  BY <1>1 DEF Untouched
<1>7. Build(c).ips = r[m].ips
  BY DEF Build, Copied
<1>8. r[m].ips \in IPs /\ Len(r[m].ips) = m
  BY <1>1, <1>2 DEF Copied
<1>9. DOMAIN r[m].ips = 1 .. m
  BY <1>8 DEF IPs
<1>10. \A k \in 1 .. m : r[m].ips[k].old = Ends(c)[k - 1] /\ r[m].ips[k].new = r[k - 1].new
  <2>1. \A k \in 1 .. m : r[m].ips[k] = [old |-> Ends(c)[k - 1], new |-> r[k - 1].new]
    BY DEF Copied
  <2> HIDE DEF r, N, new
  <2> TAKE k \in 1 .. m
  <2>2. r[m].ips[k] = [old |-> Ends(c)[k - 1], new |-> r[k - 1].new]
    BY <2>1
  <2> QED
    BY ONLY <2>2
<1>11. \A i, j \in 0 .. m : i < j => r[i].new < r[j].new
  BY <1>5
<1> HIDE DEF r, N, new
<1> QED
  BY <1>2, <1>6, <1>7, <1>9, <1>10, <1>11 DEF r

LEMMA BuildCopied ==
    ASSUME NEW c \in CodeTypes, Build(c).ok
    PROVE  \E m \in 1 .. Len(c.body) : Copied(c, m)
<1>1. Rounds(c)[Len(c.body)].state = "closed"
  BY DEF Build
<1> QED
  BY <1>1, CopiedExists

\* The row of the table that a copy's offset is found in.
LEMMA CopyFound ==
    ASSUME NEW c \in CodeTypes, NEW m \in 1 .. Len(c.body), Copied(c, m), NEW k \in 1 .. m
    PROVE  /\ (CHOOSE n \in DOMAIN Build(c).ips : Build(c).ips[n].new = Rounds(c)[k - 1].new) = k
           /\ \A n \in 1 .. m : Rounds(c)[n - 1].new = Rounds(c)[k - 1].new => n = k
<1> DEFINE r == Rounds(c)  ips == Build(c).ips
<1>1. /\ DOMAIN ips = 1 .. m /\ \A n \in 1 .. m : ips[n].new = r[n - 1].new
      /\ \A j \in 0 .. m : r[j].new \in Nat
      /\ \A i, j \in 0 .. m : i < j => r[i].new < r[j].new
  BY CopiedOffsets
<1>2. m \in Nat
  BY InstructionTypes
<1> HIDE DEF r, ips
<1>3. ASSUME NEW n \in 1 .. m, r[n - 1].new = r[k - 1].new PROVE n = k
  <2>1. n - 1 \in 0 .. m /\ k - 1 \in 0 .. m
    BY <1>2
  <2>2. r[n - 1].new \in Nat /\ r[k - 1].new \in Nat
    BY <1>1, <2>1
  <2>3. ~(n - 1 < k - 1) /\ ~(k - 1 < n - 1)
    BY <1>1, <1>3, <2>1, <2>2
  <2> QED
    BY <1>2, <2>3
<1>4. (CHOOSE n \in DOMAIN ips : ips[n].new = r[k - 1].new) = k
  BY <1>1, <1>3
<1> QED
  BY <1>3, <1>4 DEF r, ips

-----------------------------------------------------------------------------
(* What the copies do *)

\* The farthest internal destination is never forgotten.
LEMMA BranchGrows ==
    ASSUME NEW c \in CodeTypes, NEW m \in 1 .. Len(c.body), Copied(c, m),
           NEW k \in 1 .. m, NEW l \in k .. m
    PROVE  Rounds(c)[k].branch <= Rounds(c)[l].branch
<1> DEFINE r == Rounds(c)
           Z == {n \in 0 .. m : k <= n => r[k].branch <= r[n].branch}
<1>1. m \in Nat /\ \A j \in 0 .. m : r[j].branch \in Nat
  BY InstructionTypes, CopiedOffsets
<1> HIDE DEF r
<1>2. 0 \in Z
  BY <1>1
<1>3. ASSUME NEW n \in 1 .. m, n - 1 \in Z PROVE n \in Z
  <2>1. r[n].branch = Branch(r[n - 1], c.body[n])
    BY DEF Copied, r
  <2>2. r[n - 1].branch \in Nat /\ r[n].branch \in Nat /\ r[k].branch \in Nat
    BY <1>1
  <2>3. c.body[n].to \in Int
    BY InstructionTypes
  <2>4. r[n - 1].branch <= r[n].branch
    BY <2>1, <2>2, <2>3 DEF Branch
  <2>5. k <= n => n = k \/ k <= n - 1
    OBVIOUS
  <2> QED
    BY <1>3, <2>2, <2>4, <2>5
<1> HIDE DEF Z
<1>4. \A n \in 0 .. m : n \in Z
  BY <1>1, <1>2, <1>3, Inductive
<1>5. l \in Z
  BY <1>1, <1>4
<1> QED
  BY <1>5 DEF Z, r

\* Copies are as far from each other as what they were copied from, if those
\* between them kept their length.
LEMMA SameDistance ==
    ASSUME NEW c \in CodeTypes, NEW m \in 1 .. Len(c.body), Copied(c, m),
           NEW i \in 1 .. m, NEW j \in 1 .. m, i <= j,
           \A n \in i .. j - 1 : CopySize(Ends(c)[n - 1], c.body[n]) = c.body[n].len
    PROVE  Rounds(c)[j - 1].new - Rounds(c)[i - 1].new = Ends(c)[j - 1] - Ends(c)[i - 1]
<1> DEFINE N == Len(c.body)  e == Ends(c)
           f == [n \in 0 .. m |-> Rounds(c)[n].new]
           g == [n \in 0 .. m |-> e[n]]
<1>1. m \in Nat /\ f \in [0 .. m -> Nat]
  BY InstructionTypes, CopiedOffsets
<1>2. g \in [0 .. m -> Nat]
  <2>1. e \in [0 .. N -> Nat] /\ N \in Nat /\ m \in 1 .. N
    BY InstructionTypes, EndsFacts
  <2> HIDE DEF e, N
  <2> QED
    BY <2>1
<1>3. ASSUME NEW n \in (i - 1) + 1 .. j - 1 PROVE f[n] - f[n - 1] = g[n] - g[n - 1]
  <2>1. n \in 1 .. m /\ n - 1 \in 0 .. m /\ n \in i .. j - 1
    BY <1>1
  <2>2. Rounds(c)[n].new = Rounds(c)[n - 1].new + CopySize(e[n - 1], c.body[n])
    BY <2>1 DEF Copied
  <2>3. e[n] = e[n - 1] + c.body[n].len
    BY <2>1, EndsFacts
  <2>4. CopySize(e[n - 1], c.body[n]) = c.body[n].len
    BY <2>1
  <2>5. c.body[n].len \in 1 .. 15
    BY <2>1, InstructionTypes
  <2>6. f[n] = Rounds(c)[n].new /\ f[n - 1] = Rounds(c)[n - 1].new /\ g[n] = e[n] /\ g[n - 1] = e[n - 1]
    BY <2>1
  <2>7. f[n] \in Nat /\ f[n - 1] \in Nat /\ g[n] \in Nat /\ g[n - 1] \in Nat
    BY <1>1, <1>2, <2>1
  <2> HIDE DEF f, g
  <2>8. f[n] = f[n - 1] + c.body[n].len /\ g[n] = g[n - 1] + c.body[n].len
    BY <2>2, <2>3, <2>4, <2>6
  <2> QED
    <3> DEFINE l == c.body[n].len
    <3>1. l \in 1 .. 15 /\ f[n] = f[n - 1] + l /\ g[n] = g[n - 1] + l
      BY <2>5, <2>8
    <3> HIDE DEF l
    <3> QED
      BY <2>7, <3>1
<1>4. i - 1 \in 0 .. m /\ j - 1 \in 0 .. m /\ i - 1 <= j - 1
  BY <1>1
<1> HIDE DEF f, g
<1>5. f[j - 1] - f[i - 1] = g[j - 1] - g[i - 1]
  BY <1>1, <1>2, <1>3, <1>4, EqualDistance
<1> QED
  BY <1>4, <1>5 DEF f, g

\* An internal jump's destination is copied too, at the jump's distance.
LEMMA InternalJump ==
    ASSUME NEW c \in CodeTypes, NEW m \in 1 .. Len(c.body), Copied(c, m), Movable(c),
           NEW k \in 1 .. m, Ends(c)[k - 1] < JmpLen, c.body[k].op \in Jumps, Inside(c.body[k])
    PROVE  \E j \in 1 .. m :
              /\ Ends(c)[j - 1] = c.body[k].to
              /\ Rounds(c)[j - 1].new = Rounds(c)[k - 1].new + c.body[k].to - Ends(c)[k - 1]
<1> DEFINE N == Len(c.body)  e == Ends(c)  r == Rounds(c)  to == c.body[k].to
<1>1. /\ N \in Nat /\ DOMAIN c.body = 1 .. N /\ m \in 1 .. N /\ e \in [0 .. N -> Nat]
      /\ \A x, y \in 0 .. N : x < y => e[x] < e[y]
      /\ \A x \in 0 .. m : r[x].new \in Nat /\ r[x].branch \in Nat
      /\ to \in 0 .. JmpLen - 1
  BY InstructionTypes, EndsFacts, EndsIncrease, CopiedOffsets DEF Inside
<1>2. k \in InternalJumps(c)
  BY <1>1 DEF InternalJumps, Offset
<1>3. to \in Starts(c) /\ ~BackOverLonger(c, k)
  BY <1>2 DEF Movable
<1>4. PICK j \in 1 .. N : e[j - 1] = to
  BY <1>1, <1>3 DEF Starts, Offset
<1>5. CASE j <= k
  <2>1. ASSUME NEW n \in j .. k - 1 PROVE CopySize(e[n - 1], c.body[n]) = c.body[n].len
    <3>1. n \in 1 .. k - 1 /\ n - 1 \in 0 .. N /\ j - 1 \in 0 .. N /\ (n = j \/ j - 1 < n - 1)
      BY <1>1
    <3>2. e[n - 1] >= to
      <4>1. n = j \/ e[j - 1] < e[n - 1]
        BY <1>1, <3>1
      <4> HIDE DEF e, N, to
      <4>2. e[n - 1] \in Nat /\ to \in Nat
        BY <1>1, <1>4, <3>1
      <4> QED
        BY <1>4, <4>1, <4>2
    <3> QED
      BY <1>3, <3>1, <3>2 DEF BackOverLonger, Offset
  <2>2. j \in 1 .. m
    BY <1>1, <1>5
  <2>3. r[k - 1].new - r[j - 1].new = e[k - 1] - e[j - 1]
    BY <1>5, <2>1, <2>2, SameDistance
  <2> HIDE DEF e, r, N, to
  <2>4. r[k - 1].new \in Nat /\ r[j - 1].new \in Nat /\ e[k - 1] \in Nat /\ to \in Nat
    BY <1>1, <2>2, <1>4
  <2>5. r[j - 1].new = r[k - 1].new + to - e[k - 1]
    <3> DEFINE x == r[j - 1].new  y == r[k - 1].new  z == e[k - 1]
    <3>1. x \in Nat /\ y \in Nat /\ z \in Nat /\ y - x = z - to
      BY <1>4, <2>3, <2>4
    <3> HIDE DEF x, y, z
    <3>2. x = y + to - z
      BY <2>4, <3>1
    <3> QED
      BY <3>2 DEF x, y, z
  <2> QED
    BY <1>4, <2>2, <2>5 DEF e, r, to
<1>6. CASE k < j
  <2>1. r[k].branch >= to
    <3>1. r[k].branch = Branch(r[k - 1], c.body[k]) /\ r[k - 1].old = e[k - 1]
      BY DEF Copied
    <3>2. r[k - 1].branch \in Nat
      BY <1>1
    <3> QED
      BY <1>1, <3>1, <3>2 DEF Branch
  <2>2. ASSUME NEW l \in k .. m PROVE r[l].branch >= to
    <3>1. r[k].branch <= r[l].branch
      BY BranchGrows
    <3>2. l \in 0 .. m /\ k \in 0 .. m
      BY <1>1
    <3> HIDE DEF r, to
    <3>3. r[k].branch \in Nat /\ r[l].branch \in Nat /\ to \in Nat
      BY <1>1, <3>2 DEF JmpLen
    <3> QED
      BY <2>1, <3>1, <3>3
  <2>3. ASSUME NEW l \in 1 .. N, l < j PROVE e[l - 1] < to
    <3>1. l - 1 \in 0 .. N /\ j - 1 \in 0 .. N /\ l - 1 < j - 1
      BY <1>1, <2>3
    <3> QED
      BY <1>1, <1>4, <3>1
  <2>4. j \in 1 .. m
    <3> SUFFICES ASSUME m < j PROVE FALSE
      BY <1>1
    <3>1. /\ Finished(r[m - 1], c.body[m]) /\ r[m - 1].old = e[m - 1]
      BY <1>1 DEF Copied
    <3>2. e[m - 1] < to
      BY <1>1, <2>3
    <3>3. e[m - 1] \in Nat /\ to < JmpLen /\ JmpLen = 5 /\ to \in Nat
      <4>1. m - 1 \in 0 .. N
        BY <1>1
      <4> HIDE DEF e, N, to
      <4> QED
        BY <1>1, <4>1 DEF JmpLen
    <3>4. r[m - 1].branch <= e[m - 1] /\ (c.body[m].op = "ret" \/ (c.body[m].op = "jmp" /\ ~Inside(c.body[m])))
      <4>1. e[m - 1] < JmpLen
        <5> HIDE DEF e, to
        <5> QED
          BY <3>2, <3>3
      <4> DEFINE x == e[m - 1]
      <4> HIDE DEF x
      <4>2. x \in Nat /\ x < 5 /\ r[m - 1].old = x
        BY <3>1, <3>3, <4>1 DEF x
      <4>3. r[m - 1].branch \in Nat
        BY <1>1
      <4>4. ~(x >= 5)
        BY <4>2
      <4>5. /\ x >= r[m - 1].branch
            /\ c.body[m].op = "ret" \/ (c.body[m].op = "jmp" /\ ~Inside(c.body[m]))
        <5> DEFINE b == c.body[m]  s == r[m - 1]
        <5>1. Finished(s, b) /\ s.old = x /\ ~(x >= 5)
          BY <3>1, <4>2, <4>4
        <5> HIDE DEF b, s
        <5>2. x >= s.branch /\ (b.op = "ret" \/ (b.op = "jmp" /\ ~Inside(b)))
          BY <4>2, <5>1 DEF Finished, JmpLen
        <5> QED
          BY <5>2 DEF b, s
      <4>6. r[m - 1].branch <= x
        BY <4>2, <4>3, <4>5
      <4> QED
        BY <4>5, <4>6 DEF x
    <3>5. CASE m = k
      BY <3>4, <3>5 DEF Jumps
    <3>6. CASE m # k
      <4>1. m - 1 \in k .. m
        BY <1>1, <3>6
      <4>2. r[m - 1].branch >= to
        BY <2>2, <4>1
      <4>3. r[m - 1].branch \in Nat
        BY <1>1, <4>1
      <4> QED
        BY <3>2, <3>3, <3>4, <4>2, <4>3, <1>1
    <3> QED
      BY <3>5, <3>6
  <2>5. ASSUME NEW n \in k .. j - 1 PROVE CopySize(e[n - 1], c.body[n]) = c.body[n].len
    <3>1. n \in 1 .. m /\ n \in k .. m /\ n \in 1 .. N /\ n < j
      BY <1>1, <2>4
    <3>2. ~Refused(r[n - 1], c.body[n]) /\ r[n - 1].old = e[n - 1] /\ r[n].branch = Branch(r[n - 1], c.body[n])
      BY <3>1 DEF Copied
    <3>3. e[n - 1] < to /\ r[n].branch >= to
      BY <2>2, <2>3, <3>1
    <3>4. e[n - 1] \in Nat /\ to \in Nat /\ r[n].branch \in Nat
      <4>1. n - 1 \in 0 .. N /\ n \in 0 .. m
        BY <1>1, <3>1
      <4> HIDE DEF e, r, N, to
      <4> QED
        BY ONLY <1>1, <4>1 DEF JmpLen
    <3>5. e[n - 1] < r[n].branch
      BY <3>3, <3>4
    <3> QED
      BY <3>2, <3>5 DEF Refused
  <2>6. k <= j
    BY <1>1, <1>6
  <2>7. r[j - 1].new - r[k - 1].new = e[j - 1] - e[k - 1]
    BY <2>4, <2>5, <2>6, SameDistance
  <2> HIDE DEF e, r, N, to
  <2>8. r[k - 1].new \in Nat /\ r[j - 1].new \in Nat /\ e[k - 1] \in Nat /\ to \in Nat
    BY <1>1, <2>4, <1>4
  <2>9. r[j - 1].new = r[k - 1].new + to - e[k - 1]
    BY <1>4, <2>7, <2>8
  <2> QED
    BY <1>4, <2>4, <2>9 DEF e, r, to
<1> QED
  BY <1>1, <1>5, <1>6

\* A copied instruction leads to the copies of what the instruction leads to.
LEMMA CopyLeads ==
    ASSUME NEW c \in CodeTypes, NEW m \in 1 .. Len(c.body), Copied(c, m), Movable(c), NEW k \in 1 .. m
    PROVE  LET ips == Build(c).ips
               at == {ips[n].new : n \in DOMAIN ips} \cup {Out}
               after == AfterCopy(c, ips, ips[k].new)
           IN  /\ after \subseteq at
               /\ ips[k].old < JmpLen => {OldOf(ips, p) : p \in after} = AfterInst(c, ips[k].old)
<1> DEFINE N == Len(c.body)  e == Ends(c)  r == Rounds(c)  ips == Build(c).ips  i == c.body[k]
           at == {ips[n].new : n \in DOMAIN ips} \cup {Out}
           after == AfterCopy(c, ips, ips[k].new)
           to == IF Inside(i) THEN r[k - 1].new + i.to - e[k - 1] ELSE Out
<1>1. /\ DOMAIN ips = 1 .. m /\ \A n \in 1 .. m : ips[n].old = e[n - 1] /\ ips[n].new = r[n - 1].new
      /\ \A n \in 0 .. m : r[n].new \in Nat
  BY CopiedOffsets
<1>2. /\ N \in Nat /\ m \in 1 .. N /\ k \in 1 .. N /\ k - 1 \in 0 .. m
      /\ i.op \in Ops /\ i.len \in 1 .. 15 /\ i.to \in Int
  BY InstructionTypes
<1>3. e[k - 1] \in Nat /\ e[k] = e[k - 1] + i.len
  <2>1. k \in 1 .. N /\ e \in [0 .. N -> Nat] /\ e[k] = e[k - 1] + i.len
    BY <1>2, EndsFacts
  <2> HIDE DEF e, N, i
  <2> QED
    BY <1>2, <2>1
<1>4. InstAt(c, e[k - 1]) = i
  BY <1>2, OffsetInjective
<1>5. after = IF e[k - 1] >= JmpLen THEN {Out}
              ELSE Successors(i, r[k - 1].new + CopySize(e[k - 1], i), to)
  <2>1. (CHOOSE n \in DOMAIN ips : ips[n].new = ips[k].new) = k
    BY <1>1, CopyFound
  <2> HIDE DEF e, r, i, ips
  <2> QED
    BY <1>1, <1>4, <2>1 DEF AfterCopy
<1>6. ASSUME NEW j \in 1 .. m
      PROVE  r[j - 1].new \in at /\ OldOf(ips, r[j - 1].new) = Place(e[j - 1])
  <2>1. (CHOOSE n \in DOMAIN ips : ips[n].new = r[j - 1].new) = j
    BY CopyFound
  <2>2. r[j - 1].new \in Nat
    BY <1>1, <1>2
  <2>3. r[j - 1].new # Out
    BY <2>2 DEF Out
  <2> HIDE DEF e, r, ips
  <2> QED
    BY <1>1, <2>1, <2>3 DEF OldOf
<1>7. Out \in at /\ OldOf(ips, Out) = Out
  BY DEF OldOf
<1>8. CASE e[k - 1] >= JmpLen
  <2>1. ~(e[k - 1] < JmpLen)
    BY <1>3, <1>8 DEF JmpLen
  <2>2. after = {Out}
    BY <1>5, <1>8
  <2> HIDE DEF e, r, i, ips, at, after, to
  <2> QED
    BY <1>1, <1>7, <2>1, <2>2 DEF e, ips, at, after
<1>9. CASE ~(e[k - 1] >= JmpLen)
  <2>1. e[k - 1] < JmpLen
    BY <1>3, <1>9 DEF JmpLen
  <2>2. r[k].new = r[k - 1].new + CopySize(e[k - 1], i)
    BY DEF Copied
  <2>3. /\ after = Successors(i, r[k].new, to)
        /\ AfterInst(c, e[k - 1]) = Successors(i, Place(e[k]), Place(i.to))
    BY <1>3, <1>4, <1>5, <1>9, <2>2 DEF AfterInst
  <2>4. ASSUME i.op \notin {"ret", "jmp"} PROVE r[k].new \in at /\ OldOf(ips, r[k].new) = Place(e[k])
    <3>1. Finished(r[k - 1], i) <=> k = m
      BY DEF Copied
    <3>2. r[k - 1].old = e[k - 1]
      BY DEF Copied
    <3>3. k # m
      BY <1>9, <2>4, <3>1, <3>2 DEF Finished
    <3>4. k + 1 \in 1 .. m /\ (k + 1) - 1 = k
      BY <1>2, <3>3
    <3> QED
      BY <1>6, <3>4
  <2>5. ASSUME i.op \in Jumps PROVE to \in at /\ OldOf(ips, to) = Place(i.to)
    <3>1. CASE Inside(i)
      <4>1. PICK j \in 1 .. m : e[j - 1] = i.to /\ r[j - 1].new = r[k - 1].new + i.to - e[k - 1]
        BY <2>1, <2>5, <3>1, InternalJump
      <4> QED
        BY <1>6, <3>1, <4>1
    <3>2. CASE ~Inside(i)
      BY <1>7, <3>2 DEF Place, Inside
    <3> QED
      BY <3>1, <3>2
  <2>6. ips[k].old = e[k - 1]
    BY <1>1
  <2> HIDE DEF e, r, i, ips, at, to
  <2>7. after \subseteq at /\ {OldOf(ips, p) : p \in after} = AfterInst(c, e[k - 1])
    <3>1. CASE i.op = "ret"
      BY <1>7, <2>3, <3>1 DEF Successors
    <3>2. CASE i.op = "jmp"
      BY <2>3, <2>5, <3>2 DEF Successors, Jumps
    <3>3. CASE i.op \in {"jcc", "loop"}
      BY <2>3, <2>4, <2>5, <3>3 DEF Successors, Jumps
    <3>4. CASE i.op \notin {"ret", "jmp", "jcc", "loop"}
      BY <2>3, <2>4, <3>4 DEF Successors
    <3> QED
      BY <3>1, <3>2, <3>3, <3>4
  <2> QED
    BY <2>6, <2>7 DEF e, ips, at, after
<1> QED
  BY <1>8, <1>9

(* Whatever the code is like, if its internal jumps lead to instructions and *)
(* none leads back over an instruction that gets longer, a trampoline that   *)
(* CreateTrampolineFunction accepts does what the code does.                 *)
THEOREM MovableIsFaithful ==
    ASSUME NEW c \in CodeTypes, Movable(c)
    PROVE  Faithful(c)
<1> DEFINE b == Build(c)
           at == {b.ips[k].new : k \in DOMAIN b.ips} \cup {Out}
<1> SUFFICES ASSUME b.ok, NEW k \in DOMAIN b.ips
             PROVE  LET after == AfterCopy(c, b.ips, b.ips[k].new)
                    IN  /\ after \subseteq at
                        /\ b.ips[k].old < JmpLen =>
                             {OldOf(b.ips, p) : p \in after} = AfterInst(c, b.ips[k].old)
  BY DEF Faithful
<1>1. PICK m \in 1 .. Len(c.body) : Copied(c, m)
  BY BuildCopied
<1>2. k \in 1 .. m
  BY <1>1, CopiedOffsets
<1> QED
  BY <1>1, <1>2, CopyLeads

-----------------------------------------------------------------------------
(* What a hook relies on *)

LEMMA StartsFacts ==
    ASSUME NEW c \in CodeTypes
    PROVE  Starts(c) \subseteq 0 .. JmpLen - 1 /\ 0 \in Starts(c)
<1>1. 1 \in DOMAIN c.body /\ Offset(c, 1) = 0
  BY InstructionTypes, EndsFacts DEF Offset
<1> QED
  BY <1>1 DEF Starts, JmpLen

\* The table of an accepted trampoline begins at its start; the originals in
\* it are instructions; and it has every instruction that is overwritten.
LEMMA BuildFacts ==
    ASSUME NEW c \in CodeTypes, Build(c).ok
    PROVE  /\ Build(c).above \in BOOLEAN /\ Build(c).ips \in IPs
           /\ \E k \in DOMAIN Build(c).ips : Build(c).ips[k].new = 0
           /\ \A k \in DOMAIN Build(c).ips :
                /\ Build(c).ips[k].old \in Nat /\ Build(c).ips[k].new \in Nat
                /\ Build(c).ips[k].old < JmpLen => Build(c).ips[k].old \in Starts(c)
           /\ \A o \in Starts(c) :
                o < (IF Build(c).above THEN ShortLen ELSE JmpLen) =>
                  \E k \in DOMAIN Build(c).ips : Build(c).ips[k].old = o
<1> DEFINE N == Len(c.body)  e == Ends(c)  r == Rounds(c)  b == Build(c)
<1>1. PICK m \in 1 .. N : Copied(c, m)
  BY BuildCopied
<1>2. /\ N \in Nat /\ DOMAIN c.body = 1 .. N /\ e \in [0 .. N -> Nat]
      /\ \A i, j \in 0 .. N : i < j => e[i] < e[j]
      /\ r \in [0 .. N -> StateTypes]
  BY InstructionTypes, EndsFacts, EndsIncrease, RoundsFacts
<1>3. /\ DOMAIN b.ips = 1 .. m /\ r[0].new = 0
      /\ \A k \in 1 .. m : b.ips[k].old = e[k - 1] /\ b.ips[k].new = r[k - 1].new
      /\ \A j \in 0 .. m : r[j].new \in Nat
  BY <1>1, CopiedOffsets
<1>4. r[N] = r[m] /\ r[m].old = e[m]
  BY <1>1 DEF Copied
<1>5. b.above \in BOOLEAN /\ b.ips \in IPs
  <2>1. r[N].ips \in IPs
    <3>1. r[N] \in StateTypes
      <4> HIDE DEF r, N
      <4> QED
        BY <1>2
    <3> QED
      BY <3>1 DEF StateTypes
  <2> QED
    BY <2>1 DEF Build
<1>6. b.above <=> ~(e[m] + Padding(c, e[m]) >= JmpLen)
  BY <1>4 DEF Build, LongFits
<1>7. b.above => e[m] + Padding(c, e[m]) >= ShortLen
  BY <1>4 DEF Build, ShortFits
<1>8. ASSUME NEW k \in 1 .. m
      PROVE  /\ b.ips[k].old \in Nat /\ b.ips[k].new \in Nat
             /\ b.ips[k].old < JmpLen => b.ips[k].old \in Starts(c)
  <2>1. k \in 1 .. N /\ k - 1 \in 0 .. N /\ k - 1 \in 0 .. m
    BY <1>1, <1>2
  <2>2. e[k - 1] \in Nat /\ r[k - 1].new \in Nat
    <3> HIDE DEF e, r, N
    <3> QED
      BY <1>2, <1>3, <2>1
  <2>3. ASSUME e[k - 1] < JmpLen PROVE e[k - 1] \in Starts(c)
    <3>1. Offset(c, k) = e[k - 1] /\ k \in DOMAIN c.body
      BY <1>2, <2>1 DEF Offset
    <3> HIDE DEF e
    <3>2. e[k - 1] \in 0 .. JmpLen - 1
      BY <2>2, <2>3 DEF JmpLen
    <3> QED
      BY <3>1, <3>2 DEF Starts
  <2> HIDE DEF e, r, b, N
  <2> QED
    BY <1>3, <2>2, <2>3
<1>9. ASSUME NEW o \in Starts(c), o < (IF b.above THEN ShortLen ELSE JmpLen)
      PROVE  \E k \in DOMAIN b.ips : b.ips[k].old = o
  <2>1. PICK j \in 1 .. N : e[j - 1] = o
    BY <1>2 DEF Starts, Offset
  <2>2. CASE j \in 1 .. m
    <3> HIDE DEF e, r, b, N
    <3> QED
      BY <1>3, <2>1, <2>2
  <2>3. CASE j \notin 1 .. m
    <3>1. m \in 0 .. N /\ j - 1 \in 0 .. N /\ N \in 0 .. N /\ m < N /\ (m = j - 1 \/ m < j - 1)
      BY <1>1, <1>2, <2>3
    <3>2. e[m] # e[N]
      <4>1. e[m] < e[N] /\ e[m] \in Nat
        BY <1>2, <3>1
      <4> QED
        BY <4>1
    <3>3. Padding(c, e[m]) = 0
      BY <3>2 DEF Padding
    <3> HIDE DEF e, r, b, N
    <3>4. e[m] \in Nat /\ o \in Nat /\ (e[m] = o \/ e[m] < o)
      BY <1>2, <2>1, <3>1
    <3>5. e[m] >= (IF b.above THEN ShortLen ELSE JmpLen)
      BY <1>5, <1>6, <1>7, <3>3, <3>4 DEF ShortLen, JmpLen
    <3> QED
      BY <1>9, <3>4, <3>5 DEF ShortLen, JmpLen
  <2> QED
    BY <2>2, <2>3
<1>10. \E k \in 1 .. m : b.ips[k].new = 0
  <2>1. 1 \in 1 .. m /\ 1 - 1 = 0
    BY <1>1, <1>2
  <2> HIDE DEF b, r, e
  <2> QED
    BY <1>3, <2>1
<1> HIDE DEF e, r, N
<1> QED
  BY <1>3, <1>5, <1>8, <1>9, <1>10

\* A thread in a trampoline stays at the start of a copy, or leaves it.
LEMMA CopyStays ==
    ASSUME NEW c \in CodeTypes, Movable(c), Build(c).ok,
           NEW k \in DOMAIN Build(c).ips, NEW q \in AfterCopy(c, Build(c).ips, Build(c).ips[k].new)
    PROVE  q = Out \/ \E n \in DOMAIN Build(c).ips : Build(c).ips[n].new = q
  BY MovableIsFaithful DEF Faithful
=============================================================================
