----------------------------- MODULE MCMinHook -----------------------------
(***************************************************************************)
(* An instance of MinHook for TLC: two targets, of which the first begins  *)
(* in one of a few ways and the second in the usual one (a first           *)
(* instruction of five bytes), and one thread that runs both.              *)
(***************************************************************************)
EXTENDS MinHook, TLC

CONSTANTS t1, t2, th1

TwoTargets == {t1, t2}
OneThread == {th1}
CallsBoth == th1 :> TwoTargets

Inst(op, len, to) == [op |-> op, len |-> len, to |-> to]
Plain(len) == Inst("plain", len, 0)
Usual == [body |-> << Plain(5), Plain(1) >>, pad |-> 0, above |-> FALSE]

\* A conditional jump that gets longer; a branch over one, which is refused;
\* a short function with padding above it only.
FirstCodes ==
    {[body |-> << Inst("jcc", 2, 9), Plain(3), Plain(1) >>, pad |-> 0, above |-> FALSE],
     [body |-> << Inst("jcc", 2, 4), Inst("jmp", 2, 9), Plain(1), Plain(1) >>,
      pad |-> 0, above |-> FALSE],
     [body |-> << Plain(2), Inst("ret", 1, 0) >>, pad |-> 0, above |-> TRUE]}
CodesOfTwo == (t1 :> FirstCodes) @@ (t2 :> {Usual})

(***************************************************************************)
(* All codes of up to three instructions of the following kinds, and plain *)
(* ones after them, that can be moved.                                     *)
(***************************************************************************)
Kinds ==
    {Plain(l) : l \in {1, 2, 5}} \cup {Inst("call", 5, 0), Inst("ret", 1, 0), Inst("bad", 1, 0)}
        \cup {Inst(op, 2, d) : op \in {"jmp", "jcc"}, d \in {0, 1, 2, 3, 4, 9}}
        \cup {Inst("jmp", 5, 9)} \cup {Inst("loop", 2, d) : d \in {0, 2, 9}}

SmallCodes ==
    {[body |-> b \o [k \in 1 .. 6 |-> Plain(1)], pad |-> 0, above |-> TRUE] :
        b \in UNION {[1 .. n -> Kinds] : n \in 1 .. 3}}

SoundCodes == {c \in SmallCodes : Movable(c)}
=============================================================================
