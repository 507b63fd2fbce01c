---------------------------- MODULE RequestFifo ----------------------------
(***************************************************************************)
(* What the multiplexer promises for requests without a correlation        *)
(* identifier ("Responses are matched to requests in order received", as   *)
(* mux.go has it): the responses still to come, in order, each for a       *)
(* waiter or, when its request was abandoned, for nobody.                  *)
(***************************************************************************)
EXTENDS Sequences

CONSTANTS
    Waiters,
    Discard     \* a response nobody waits for any more

VARIABLES
    fifo,       \* whom each response still to come is for
    told        \* each waiter: idle, waiting, answered, failed

FifoInit == fifo = <<>> /\ told = [w \in Waiters |-> "idle"]

Enqueued(w) == told[w] = "idle" /\ told' = [told EXCEPT ![w] = "waiting"] /\ fifo' = Append(fifo, w)

Answered ==
    /\ fifo # <<>> /\ fifo' = Tail(fifo)
    /\ told' = [w \in Waiters |-> IF w = Head(fifo) THEN "answered" ELSE told[w]]

\* The request was not sent: no response will come for it.
Withdrawn(w) ==
    /\ told[w] = "waiting" /\ told' = [told EXCEPT ![w] = "idle"]
    /\ fifo' = SelectSeq(fifo, LAMBDA v : v # w)

\* The request was sent: its response is still to come, for nobody.
Abandoned(w) ==
    /\ told[w] = "waiting" /\ told' = [told EXCEPT ![w] = "idle"]
    /\ fifo' = [i \in DOMAIN fifo |-> IF fifo[i] = w THEN Discard ELSE fifo[i]]

AllFailed ==
    /\ told' = [w \in Waiters |-> IF told[w] = "waiting" THEN "failed" ELSE told[w]]
    /\ fifo' = <<>>

Refused(w) == told[w] = "idle" /\ told' = [told EXCEPT ![w] = "failed"] /\ UNCHANGED fifo
Recycled(w) == told[w] \in {"answered", "failed"} /\ told' = [told EXCEPT ![w] = "idle"] /\ UNCHANGED fifo

FifoNext ==
    \/ Answered \/ AllFailed
    \/ \E w \in Waiters : Enqueued(w) \/ Withdrawn(w) \/ Abandoned(w) \/ Refused(w) \/ Recycled(w)

FifoSpec == FifoInit /\ [][FifoNext]_<<fifo, told>>
=============================================================================
