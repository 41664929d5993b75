--------------------------- MODULE MCBreakpoints ---------------------------
(* Breakpoints with two threads of the client. *)
EXTENDS Breakpoints, TLC

CONSTANTS c1, c2

\* What the two threads do: both sites that are swept, by one of them; one site
\* by both; exceptions of other kinds between them, also around the call of the
\* dialog.
Sites ==
    {(c1 :> {"ggr", "val"}) @@ (c2 :> {}),
     (c1 :> {"ggr"}) @@ (c2 :> {"ggr"}),
     (c1 :> {"ggr", "fault", "mbw"}) @@ (c2 :> {})}

\* A thread allocates, and so does the other, or it handles exceptions or
\* creates processes; with these, the threads are dumped once.
Heap == {[c \in Clients |-> {"heap"}]}
Locks ==
    Heap \cup {(c1 :> {"val", "fault"}) @@ (c2 :> {"heap"}),
              (c1 :> {"cp", "heap"}) @@ (c2 :> {})}

Both == Sites \cup Locks
Dumps == [w \in Workloads |-> IF w \in Locks THEN 1 ELSE 0]
=============================================================================
