---------------------------- MODULE ReplyStreams ----------------------------
(***************************************************************************)
(* What a service whose handlers only reply promises a client: the frames  *)
(* it reads are the whole messages its own requests produced, each once,   *)
(* in the order its handlers sent them, and nothing else.  The n-th        *)
(* message for client c is << c, n >>.                                     *)
(***************************************************************************)
EXTENDS Naturals, Sequences

CONSTANT Clients

VARIABLE stream     \* the frames delivered to each client

Init == stream = [c \in Clients |-> << >>]

Deliver(c) ==
    stream' = [stream EXCEPT ![c] = Append(@, << c, Len(@) + 1 >>)]

Next == \E c \in Clients : Deliver(c)

Spec == Init /\ [][Next]_stream
=============================================================================
