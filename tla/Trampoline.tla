----------------------------- MODULE Trampoline -----------------------------
(***************************************************************************)
(* The trampoline that MinHook builds for a function it hooks              *)
(* (CreateTrampolineFunction, minhook/trampoline.c, 32-bit build): the     *)
(* function's first instructions, moved elsewhere, and a jump back.        *)
(*                                                                         *)
(* A code is the start of a function: body, its instructions; pad, how     *)
(* many equal padding bytes follow them; above, whether a long jump fits   *)
(* in padding before it.  An instruction has a kind (op), a length, and,   *)
(* if it jumps, the destination as an offset from the function's start.    *)
(* "bad" is what the disassembler rejects.  What follows an instruction is *)
(* padding only after the last one.                                        *)
(***************************************************************************)
EXTENDS Integers, Sequences

JmpLen == 5         \* sizeof(JMP_REL)
ShortLen == 2       \* sizeof(JMP_REL_SHORT)
JccLen == 6         \* sizeof(JCC_REL)
MaxSize == 32       \* TRAMPOLINE_MAX_SIZE
MaxIPs == 8         \* ARRAYSIZE(oldIPs)

Jumps == {"jmp", "jcc", "loop"}
Ops == Jumps \cup {"plain", "call", "ret", "bad"}
Instructions == [op : Ops, len : 1 .. 15, to : Int]
CodeTypes == [body : Seq(Instructions) \ {<< >>}, pad : Nat, above : BOOLEAN]

\* A jump to what the hook overwrites keeps its encoding.
Inside(i) == i.to \in 0 .. JmpLen - 1

CopySize(old, i) ==
    IF old >= JmpLen \/ i.op = "call" \/ (i.op = "jmp" /\ ~Inside(i)) THEN JmpLen
    ELSE IF i.op = "jcc" /\ ~Inside(i) THEN JccLen
    ELSE i.len

\* The farthest internal destination, after instruction i at offset old.
Branch(s, i) ==
    IF s.old < JmpLen /\ i.op \in Jumps /\ Inside(i) /\ i.to > s.branch
    THEN i.to ELSE s.branch

Finished(s, i) ==
    \/ s.old >= JmpLen
    \/ s.old >= s.branch /\ i.op = "ret"
    \/ s.old >= s.branch /\ i.op = "jmp" /\ ~Inside(i)

\* Seeded fault: the check for an altered length in a branch is missing.
RefusedNoBranch(s, i) ==
    \/ i.op = "bad"
    \/ s.old < JmpLen /\ i.op = "loop" /\ ~Inside(i)
    \/ s.new + CopySize(s.old, i) > MaxSize
    \/ Len(s.ips) >= MaxIPs

Refused(s, i) ==
    \/ i.op = "bad"
    \/ s.old < JmpLen /\ i.op = "loop" /\ ~Inside(i)
    \/ s.old < Branch(s, i) /\ CopySize(s.old, i) # i.len
    \/ s.new + CopySize(s.old, i) > MaxSize
    \/ Len(s.ips) >= MaxIPs

\* One round of the loop: instruction i is read at s.old, written at s.new.
Round(s, i) ==
    IF s.state # "open" THEN s
    ELSE IF Refused(s, i) THEN [s EXCEPT !.state = "refused"]
    ELSE [old |-> s.old + i.len,
          new |-> s.new + CopySize(s.old, i),
          branch |-> Branch(s, i),
          ips |-> Append(s.ips, [old |-> s.old, new |-> s.new]),
          state |-> IF Finished(s, i) THEN "closed" ELSE "open"]

Untouched == [old |-> 0, new |-> 0, branch |-> 0, ips |-> << >>, state |-> "open"]

\* What has been done after each instruction.
Rounds(code) ==
    LET after[n \in 0 .. Len(code.body)] ==
            IF n = 0 THEN Untouched ELSE Round(after[n - 1], code.body[n])
    IN  after

\* Where each instruction ends.
Ends(code) ==
    LET end[n \in 0 .. Len(code.body)] ==
            IF n = 0 THEN 0 ELSE end[n - 1] + code.body[n].len
    IN  end

\* Is there place for a jump, with the padding after the function?
Padding(code, end) == IF end = Ends(code)[Len(code.body)] THEN code.pad ELSE 0
LongFits(code, end) == end + Padding(code, end) >= JmpLen
ShortFits(code, end) == end + Padding(code, end) >= ShortLen

\* CreateTrampolineFunction: whether it succeeds, where the instructions are
\* (ips), and whether the long jump goes above the function.
Build(code) ==
    LET s == Rounds(code)[Len(code.body)]
        fits == LongFits(code, s.old)
    IN  [ok |-> /\ s.state = "closed"
                /\ ~fits => ShortFits(code, s.old) /\ code.above,
         above |-> ~fits,
         ips |-> s.ips]

(***************************************************************************)
(* What the code does, unhooked and in the trampoline.  The processor is   *)
(* at an offset; Out is the rest of the program, which is taken to be      *)
(* reached at any offset from JmpLen on.                                   *)
(***************************************************************************)
Out == -1
Place(o) == IF o \in 0 .. JmpLen - 1 THEN o ELSE Out

\* The offset of the n-th instruction.
Offset(code, n) == Ends(code)[n - 1]
Starts(code) == {o \in 0 .. JmpLen - 1 : \E n \in DOMAIN code.body : Offset(code, n) = o}
InstAt(code, o) == code.body[CHOOSE n \in DOMAIN code.body : Offset(code, n) = o]

\* Where instruction i, whose end is at offset next, may lead.
Successors(i, next, to) ==
    CASE i.op = "ret"                 -> {Out}
      [] i.op = "jmp"                 -> {to}
      [] i.op \in {"jcc", "loop"}     -> {to, next}
      [] OTHER                        -> {next}

AfterInst(code, o) ==
    LET i == InstAt(code, o) IN Successors(i, Place(o + i.len), Place(i.to))

\* The same in the trampoline, at offset p of it: a copied jump keeps its
\* distance, a rebuilt one its destination.
AfterCopy(code, ips, p) ==
    LET n == CHOOSE k \in DOMAIN ips : ips[k].new = p
        o == ips[n].old
        i == InstAt(code, o)
    IN  IF o >= JmpLen THEN {Out}
        ELSE Successors(i, p + CopySize(o, i), IF Inside(i) THEN p + i.to - o ELSE Out)

OldOf(ips, p) ==
    IF p = Out THEN Out ELSE Place(ips[CHOOSE k \in DOMAIN ips : ips[k].new = p].old)

\* A trampoline does what the function does: each step from a copied
\* instruction leads to the copy of an instruction that follows it.
Faithful(code) ==
    LET b == Build(code)
        at == {b.ips[k].new : k \in DOMAIN b.ips} \cup {Out}
    IN  b.ok => \A k \in DOMAIN b.ips :
            LET after == AfterCopy(code, b.ips, b.ips[k].new)
            IN  /\ after \subseteq at
                /\ b.ips[k].old < JmpLen =>
                     {OldOf(b.ips, p) : p \in after} = AfterInst(code, b.ips[k].old)

(***************************************************************************)
(* What the compiler's codes are like.                                     *)
(***************************************************************************)
InternalJumps(code) ==
    {n \in DOMAIN code.body :
        code.body[n].op \in Jumps /\ Inside(code.body[n]) /\ Offset(code, n) < JmpLen}

\* The n-th instruction jumps back over one that gets longer in the copy.
BackOverLonger(code, n) ==
    \E k \in 1 .. n - 1 :
        /\ Offset(code, k) >= code.body[n].to
        /\ CopySize(Offset(code, k), code.body[k]) # code.body[k].len

\* Internal jumps lead to instructions, and none back over a longer one.
Movable(code) ==
    \A n \in InternalJumps(code) : code.body[n].to \in Starts(code) /\ ~BackOverLonger(code, n)

\* One instruction leads to another; and if only a short jump fits into the
\* function, what is left of it does not lead back behind the short jump's start.
Closed(code) ==
    \A o \in Starts(code) :
        /\ AfterInst(code, o) \subseteq Starts(code) \cup {Out}
        /\ Build(code).above /\ o >= ShortLen =>
             AfterInst(code, o) \cap (1 .. ShortLen - 1) = {}
=============================================================================
