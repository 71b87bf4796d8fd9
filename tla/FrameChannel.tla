---------------------------- MODULE FrameChannel ----------------------------
(***************************************************************************)
(* What a connection between a compute unit and the router promises to    *)
(* the callbacks on the router side: the messages handed to notifyHost    *)
(* reach the callbacks whole, once each and in the order they were sent,  *)
(* several at a time, until the receiving thread gives the connection up. *)
(***************************************************************************)
EXTENDS Naturals, Sequences

CONSTANT Frames

VARIABLES
    q,      \* messages sent and not yet handed to a callback
    out,    \* messages handed to a callback, in order
    open    \* the receiving thread still runs

cvars == <<q, out, open>>

Init == q = <<>> /\ out = <<>> /\ open = TRUE

Send(f) ==
    /\ q' = Append(q, f)
    /\ UNCHANGED <<out, open>>

\* one read of the socket hands the first k pending messages over
Deliver ==
    /\ open
    /\ \E k \in 1..Len(q) :
          /\ out' = out \o SubSeq(q, 1, k)
          /\ q' = SubSeq(q, k + 1, Len(q))
    /\ UNCHANGED open

Close ==
    /\ open
    /\ open' = FALSE
    /\ UNCHANGED <<q, out>>

Next == (\E f \in Frames : Send(f)) \/ Deliver \/ Close

Spec == Init /\ [][Next]_cvars /\ WF_cvars(Deliver)
====
