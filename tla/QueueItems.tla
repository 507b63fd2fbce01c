----------------------------- MODULE QueueItems -----------------------------
(***************************************************************************)
(* The queue domain's calls: Enqueue and Reserve of the client, and        *)
(* Extend, Complete and Nack of the QueueItem a reservation returns, used  *)
(* by several goroutines.  The item's state word is 0 (reserved), 1 (being *)
(* settled) or 2 (settled).  The broker (external) holds one message and   *)
(* whatever the Enqueue calls add to it.                                   *)
(***************************************************************************)
EXTENDS Exchanges

VARIABLES
    handle,   \* the QueueItem; on = 0 before Reserve returned it
    broker    \* the message, its reservation, and the messages added

queueVars == <<exchange, handle, broker>>

NoItem == [on |-> 0, state |-> 0]
Settling == {"Complete", "Nack"}
Free(c) == call[c].pc = "idle"

QueueInit ==
    /\ ExchangeInit
    /\ handle = NoItem
    /\ broker = [held |-> "ready", settled |-> FALSE, added |-> <<>>]

\* EnqueueWithOptions: sent again only after the broker answered that the
\* queue is full, never after a failure that leaves the outcome open.
RetryTransient == {r \in {"busy", "closed", "deadline"} : IsTransientRetryable(r)}
RetryOnFull == {"busy"}

Enqueue(c) == Free(c) /\ Start(c, "Enqueue", conn) /\ UNCHANGED <<handle, broker>>

EnqueueReturns(c) ==
    /\ call[c].pc = "waiting" /\ call[c].op = "Enqueue" /\ call[c].reply # Nothing
    /\ call' = Back(c, call[c].reply, RetryOnFull)
    /\ UNCHANGED <<conn, up, wire, calls, handle, broker>>

\* The closure of EnqueueWithOptions reads c.conn at every attempt.
EnqueueAgain(c) == Resend(c, conn) /\ UNCHANGED <<handle, broker>>
EnqueueAborted(c) == BackoffCut(c) /\ UNCHANGED <<handle, broker>>

Reserve(c) ==
    /\ Free(c) /\ handle = NoItem
    /\ \A d \in Callers : call[d].op # "Reserve"
    /\ Start(c, "Reserve", conn) /\ UNCHANGED <<handle, broker>>

\* parseReserveItems binds the items to c.conn as it is when the answer is read.
ReserveReturns(c) ==
    /\ call[c].pc = "waiting" /\ call[c].op = "Reserve" /\ call[c].reply # Nothing
    /\ handle' = IF call[c].reply = "ok" THEN [on |-> conn, state |-> 0] ELSE handle
    /\ call' = Back(c, call[c].reply, {})
    /\ UNCHANGED <<conn, up, wire, calls, broker>>

\* Extend sends while the item is neither settled nor being settled.
Extend(c) ==
    /\ Free(c) /\ Live(handle.on) /\ handle.state = 0
    /\ Start(c, "Extend", handle.on) /\ UNCHANGED <<handle, broker>>

ExtendReturns(c) ==
    /\ call[c].pc = "waiting" /\ call[c].op = "Extend" /\ call[c].reply # Nothing
    /\ call' = Back(c, call[c].reply, {})
    /\ UNCHANGED <<conn, up, wire, calls, handle, broker>>

\* CompareAndSwap(0, 1) admits one settling call at a time.
NotSettled == handle.state # 2
Admitted == handle.state = 0

Settle(c, op) ==
    /\ Free(c) /\ Live(handle.on) /\ Admitted
    /\ handle' = [handle EXCEPT !.state = 1]
    /\ Start(c, op, handle.on) /\ UNCHANGED broker

Complete(c) == Settle(c, "Complete")
\* Nack also needs the capability, which the broker of this model has.
Nack(c) == Settle(c, "Nack")

StateAfter(r) == IF r = "ok" THEN 2 ELSE 0

SettleReturns(c) ==
    /\ call[c].pc = "waiting" /\ call[c].op \in Settling /\ call[c].reply # Nothing
    /\ handle' = [handle EXCEPT !.state = StateAfter(call[c].reply)]
    /\ call' = Back(c, call[c].reply, {})
    /\ UNCHANGED <<conn, up, wire, calls, broker>>

-----------------------------------------------------------------------------
Refusal == {<<"refused", broker>>}
Busy == <<"busy", broker>>
\* Extend, Complete and Nack need the reservation.
IfReserved(outcomes) == IF broker.held = "reserved" THEN outcomes ELSE Refusal

Execute(rq) ==
    CASE rq.op = "Enqueue" ->
           Refusal \cup {Busy, <<"ok", [broker EXCEPT !.added = Append(@, rq.n)]>>}
      [] rq.op = "Reserve" ->
           IF broker.held = "ready" THEN {<<"ok", [broker EXCEPT !.held = "reserved"]>>} ELSE Refusal
      [] rq.op = "Extend" -> IfReserved({<<"ok", broker>>})
      [] rq.op = "Complete" ->
           IfReserved({Busy, <<"ok", [broker EXCEPT !.held = "gone", !.settled = TRUE]>>})
      [] rq.op = "Nack" ->
           IfReserved({Busy, <<"ok", [broker EXCEPT !.held = "ready", !.settled = TRUE]>>})

QueueBrokerExecutes ==
    /\ up /\ wire # <<>>
    /\ \E e \in Execute(Head(wire)) : broker' = e[2] /\ call' = Answer(Head(wire), e[1])
    /\ wire' = Tail(wire)
    /\ UNCHANGED <<conn, up, calls, handle>>

\* The reservation runs out and another consumer takes the message.
ReservationExpires ==
    /\ broker.held = "reserved" /\ handle # NoItem
    /\ broker' = [broker EXCEPT !.held = "elsewhere"]
    /\ UNCHANGED <<exchange, handle>>

QueueConnLost == ConnLost /\ UNCHANGED <<handle, broker>>
QueueReplaceConnection == ReplaceConnection /\ UNCHANGED <<handle, broker>>
QueueContextEnds(c) == ContextEnds(c) /\ UNCHANGED <<handle, broker>>

QueueNext ==
    \/ \E c \in Callers : Enqueue(c)
    \/ \E c \in Callers : EnqueueReturns(c)
    \/ \E c \in Callers : EnqueueAgain(c)
    \/ \E c \in Callers : EnqueueAborted(c)
    \/ \E c \in Callers : Reserve(c)
    \/ \E c \in Callers : ReserveReturns(c)
    \/ \E c \in Callers : Extend(c)
    \/ \E c \in Callers : ExtendReturns(c)
    \/ \E c \in Callers : Complete(c)
    \/ \E c \in Callers : Nack(c)
    \/ \E c \in Callers : SettleReturns(c)
    \/ \E c \in Callers : QueueContextEnds(c)
    \/ QueueBrokerExecutes
    \/ ReservationExpires
    \/ QueueConnLost
    \/ QueueReplaceConnection

QueueSpec == QueueInit /\ [][QueueNext]_queueVars

-----------------------------------------------------------------------------
SettleCalls == {c \in Callers : call[c].pc = "waiting" /\ call[c].op \in Settling}

\* One Enqueue call adds at most one message, however often it is retried.
EnqueueOnce == Len(broker.added) = Cardinality({broker.added[i] : i \in DOMAIN broker.added})

\* The item's state word tells the truth to every goroutine that holds it: it
\* says "being settled" exactly while one call, and only one, is settling the
\* item, so that a Complete or Nack that failed can be tried again; and it says
\* "settled" only if the broker took a Complete or a Nack of this reservation,
\* not when it answered that the reservation is gone.
ItemStateTrue ==
    /\ Cardinality(SettleCalls) = IF handle.state = 1 THEN 1 ELSE 0
    /\ handle.state = 2 => broker.settled
=============================================================================
