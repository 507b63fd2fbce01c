------------------------- MODULE RequestsCallProofs -------------------------
(***************************************************************************)
(* The inductive invariant of Requests, for any set of callers and waiters *)
(* and any bounds: who may reach a waiter and an id at each point of a     *)
(* call.  The steps of a call up to its release preserve it: one lemma per *)
(* action, one step per conjunct the action can disturb.                   *)
(***************************************************************************)
EXTENDS Requests, TLAPS

Before == {"idle", "admit", "queued", "dequeue", "unqueue", "allocate"}
InTable == {"write", "await", "unregister"}
Registered == InTable \cup {"release"}

\* The locals of a call at each point of SendRequest.
Locals ==
    \A c \in Callers :
        /\ pc[c] \in Before => waiter[c] = None /\ reqId[c] = 0 /\ got[c] = 0
        /\ pc[c] \in Before \ {"unqueue"} => result[c] = "none"
        /\ pc[c] \in {"lock", "write", "await", "unregister"}
              /\ kind[c] = "request" => waiter[c] # None
        /\ pc[c] \in {"lock", "write", "await"} => result[c] = "none"
        /\ pc[c] \in {"await", "unregister"} => kind[c] = "request"
        /\ pc[c] \in {"unqueue", "unregister", "release"} => result[c] # "none"
        /\ kind[c] = "oneway" => waiter[c] = None
        /\ c \in giveBack => waiter[c] # None /\ pc[c] \in {"unregister", "release"}
        /\ waiter[c] # None <=> reqId[c] # 0
        /\ reqId[c] <= nextId
        /\ result[c] = "response" => pc[c] \in {"unregister", "release"}
        /\ result[c] # "response" => got[c] = 0

\* Ids are fresh and waiters are held by one call at a time.
Exclusive ==
    \A c, d \in Callers :
        c # d /\ waiter[c] # None =>
            waiter[c] # waiter[d] /\ reqId[c] # reqId[d]

\* What the server has seen are ids that were allocated and registered.
Wired ==
    /\ \A i \in wire \cup answered : i <= nextId
    /\ inbound \subseteq answered
    /\ wire \cap answered = {}
    /\ \A c \in Callers :
          pc[c] \in {"lock", "write"} => reqId[c] \notin wire \cup answered

\* A table entry belongs to a call that is between registration and the deferred
\* calls, and its waiter has not been signalled.
TableOK ==
    \A i \in Ids :
        /\ table[i] # None => i <= nextId
        /\ table[i] \in Waiters =>
              /\ table[i] \notin ready
              /\ table[i] # delivering.to
              /\ \E c \in Callers :
                    /\ reqId[c] = i
                    /\ waiter[c] = table[i]
                    /\ pc[c] \in InTable

\* Between unlock and deliver, the waiter is reachable by its own call only.
DeliveringOK ==
    /\ dpc = "delivering" <=> delivering # NoDelivery
    /\ dpc = "delivering" =>
          /\ delivering.id \in answered
          /\ delivering.to \notin ready
          /\ \A c \in Callers :
                waiter[c] = delivering.to =>
                    reqId[c] = delivering.id /\ pc[c] \in Registered

\* A signalled waiter carries the answer to the request of the call that holds it.
Signals ==
    \A c \in Callers :
        waiter[c] # None /\ waiter[c] \in ready /\ waiter[c] \notin failed =>
            resp[waiter[c]] = reqId[c] /\ resp[waiter[c]] \in answered

\* A waiter that is going back to the pool, or is there, is out of reach.
Returnable ==
    /\ \A c \in Callers :
          c \in giveBack =>
              delivering.to # waiter[c] /\ \A i \in Ids : table[i] # waiter[c]
    /\ \A w \in pool :
          /\ w \notin ready
          /\ \A i \in Ids : table[i] # w
          /\ delivering.to # w
          /\ \A c \in Callers : waiter[c] # w

\* A registered call will be signalled, or its entry is still in the table; a
\* call that has yet to register has not been signalled.
Accounted ==
    /\ muxClosed <=> dpc \in {"failing", "finishing", "exited"}
    /\ dpc \in {"finishing", "exited"} => \A i \in Ids : table[i] = None
    /\ \A c \in Callers :
          pc[c] \in {"write", "await"} /\ kind[c] = "request" =>
              \/ table[reqId[c]] = waiter[c]
              \/ delivering.to = waiter[c]
              \/ waiter[c] \in ready
    /\ \A c \in Callers :
          pc[c] = "write" /\ kind[c] = "request" /\ ~muxClosed =>
              table[reqId[c]] = waiter[c]
    /\ \A c \in Callers : pc[c] = "lock" => waiter[c] \notin ready

IInv ==
    /\ TypeOK /\ Locals /\ Exclusive /\ Wired /\ TableOK /\ DeliveringOK
    /\ Signals /\ Returnable /\ Accounted /\ OwnResponse /\ AnswerExpected

-----------------------------------------------------------------------------
(* A conjunct of IInv is preserved by every step that leaves its variables *)
(* alone.                                                                  *)
LEMMA Frame ==
    /\ Locals /\ UNCHANGED <<giveBack, got, kind, nextId, pc, reqId, result, waiter>> => Locals'
    /\ Exclusive /\ UNCHANGED <<reqId, waiter>> => Exclusive'
    /\ Wired /\ UNCHANGED <<answered, inbound, nextId, pc, reqId, wire>> => Wired'
    /\ TableOK /\ UNCHANGED <<delivering, nextId, pc, ready, reqId, table, waiter>> => TableOK'
    /\ DeliveringOK /\ UNCHANGED <<answered, delivering, dpc, pc, ready, reqId, waiter>> => DeliveringOK'
    /\ Signals /\ UNCHANGED <<answered, failed, ready, reqId, resp, waiter>> => Signals'
    /\ Returnable /\ UNCHANGED <<delivering, giveBack, pool, ready, table, waiter>> => Returnable'
    /\ Accounted /\ UNCHANGED <<delivering, dpc, kind, muxClosed, pc, ready, reqId, table, waiter>> => Accounted'
    /\ OwnResponse /\ UNCHANGED <<answered, got, reqId, result>> => OwnResponse'
    /\ AnswerExpected /\ UNCHANGED <<inbound, muxClosed, table, wire>> => AnswerExpected'
<1>1. Locals /\ UNCHANGED <<giveBack, got, kind, nextId, pc, reqId, result, waiter>> => Locals'
  BY DEF Locals
<1>2. Exclusive /\ UNCHANGED <<reqId, waiter>> => Exclusive'
  BY DEF Exclusive
<1>3. Wired /\ UNCHANGED <<answered, inbound, nextId, pc, reqId, wire>> => Wired'
  BY DEF Wired
<1>4. TableOK /\ UNCHANGED <<delivering, nextId, pc, ready, reqId, table, waiter>> => TableOK'
  BY DEF TableOK
<1>5. DeliveringOK /\ UNCHANGED <<answered, delivering, dpc, pc, ready, reqId, waiter>> => DeliveringOK'
  BY DEF DeliveringOK
<1>6. Signals /\ UNCHANGED <<answered, failed, ready, reqId, resp, waiter>> => Signals'
  BY DEF Signals
<1>7. Returnable /\ UNCHANGED <<delivering, giveBack, pool, ready, table, waiter>> => Returnable'
  BY DEF Returnable
<1>8. Accounted /\ UNCHANGED <<delivering, dpc, kind, muxClosed, pc, ready, reqId, table, waiter>> => Accounted'
  BY DEF Accounted
<1>9. OwnResponse /\ UNCHANGED <<answered, got, reqId, result>> => OwnResponse'
  BY DEF OwnResponse
<1>10. AnswerExpected /\ UNCHANGED <<inbound, muxClosed, table, wire>> => AnswerExpected'
  BY DEF AnswerExpected
<1> QED
  BY <1>1, <1>2, <1>3, <1>4, <1>5, <1>6, <1>7, <1>8, <1>9, <1>10

-----------------------------------------------------------------------------
(* Preservation of IInv: one lemma per action, one step per conjunct that  *)
(* the action can disturb.                                                 *)

\* A call is one of the two functions.
LEMMA KindOfCall ==
    ASSUME TypeOK, NEW c \in Callers
    PROVE  kind[c] = "request" \/ kind[c] = "oneway"
<1>1. kind[c] \in Kinds
  BY DEF TypeOK
<1>2. Kinds \subseteq {"request", "oneway"}
  BY RequestsAssumption
<1> QED
  BY Zenon, <1>1, <1>2

USE ZenonT(60) DEF callVars, muxVars, admitVars, loopVars, serverVars

\* A step of a call that has neither an id nor a waiter of its own, and gets none:
\* it moves within the admission, fails, or goes on to write a one-way message.
\* Correlation ids may be spent on it.
EarlyStep(c) ==
    /\ pc[c] \in Before
    /\ \A d \in Callers : d # c =>
          pc'[d] = pc[d] /\ kind'[d] = kind[d] /\ result'[d] = result[d]
    /\ \/ pc'[c] \in Before \ {"unqueue"} /\ result'[c] = "none"
       \/ pc'[c] \in {"unqueue", "release"} /\ result'[c] = "failed"
       \/ pc'[c] = "lock" /\ kind'[c] = "oneway" /\ result'[c] = "none"
    /\ nextId <= nextId'
    /\ UNCHANGED <<reqId, waiter, giveBack, got, muxVars, dpc, delivering,
                   serverVars>>

\* Such a step disturbs nothing but the local state of its own call.
LEMMA EarlyStepKeeps ==
    ASSUME IInv, TypeOK', NEW c \in Callers, EarlyStep(c)
    PROVE  IInv'
<1>a. /\ waiter[c] = None /\ reqId[c] = 0 /\ got[c] = 0 /\ c \notin giveBack
      /\ pc[c] \notin Registered
      /\ pc'[c] \notin {"write", "await", "unregister"}
  BY DEF IInv, Locals, EarlyStep, Before, InTable, Registered
<1>b. \A d \in Callers : reqId[d] <= nextId'
  <2>1. nextId \in Int /\ nextId' \in Int /\ nextId <= nextId'
    BY SMTT(20), Z3T(20), RequestsAssumption DEF IInv, TypeOK, EarlyStep
  <2>2. \A d \in Callers : reqId[d] \in Int /\ reqId[d] <= nextId
    BY SMTT(20), Z3T(20), RequestsAssumption DEF IInv, TypeOK, Locals
  <2> QED
    BY SMTT(20), Z3T(20), <2>1, <2>2
<1>c. \A i \in Ids : i <= nextId => i <= nextId'
  BY SMTT(20), Z3T(20), RequestsAssumption DEF IInv, TypeOK, EarlyStep, Ids
<1>d. wire \cup answered \subseteq Ids /\ 0 \notin Ids
  <2>1. 0 \notin Ids
    BY SMTT(20), Z3T(20), RequestsAssumption DEF Ids
  <2> QED
    BY <2>1 DEF IInv, TypeOK
<1>1. Locals'
  <2> SUFFICES ASSUME NEW d \in Callers
               PROVE  Locals!(d)'
    BY DEF Locals
  <2>1. CASE d = c
    BY <1>a, <1>b, <2>1 DEF EarlyStep, Before
  <2>2. CASE d # c
    BY <1>b, <2>2 DEF IInv, Locals, EarlyStep
  <2> QED
    BY <2>1, <2>2
<1>2. Wired'
  <2>1. \A i \in wire \cup answered : i <= nextId'
    BY <1>c, <1>d DEF IInv, Wired
  <2>2. \A d \in Callers :
          pc'[d] \in {"lock", "write"} => reqId[d] \notin wire \cup answered
    BY <1>a, <1>d DEF IInv, Wired, EarlyStep
  <2> QED
    BY <2>1, <2>2 DEF IInv, Wired, EarlyStep
<1>3. TableOK'
  <2>1. ASSUME NEW i \in Ids, table[i] \in Waiters
        PROVE  \E d \in Callers : /\ reqId[d] = i /\ waiter[d] = table[i]
                                  /\ pc'[d] \in InTable
    <3>1. PICK d \in Callers :
            reqId[d] = i /\ waiter[d] = table[i] /\ pc[d] \in InTable
      BY <2>1 DEF IInv, TableOK
    <3>2. d # c
      BY <1>a, <3>1 DEF Registered
    <3> QED
      BY <3>1, <3>2 DEF EarlyStep
  <2> QED
    BY <1>c, <2>1 DEF IInv, TableOK, EarlyStep
<1>4. DeliveringOK'
  <2>1. ASSUME NEW d \in Callers, dpc = "delivering", waiter[d] = delivering.to
        PROVE  reqId[d] = delivering.id /\ pc'[d] \in Registered
    <3>1. reqId[d] = delivering.id /\ pc[d] \in Registered
      BY <2>1 DEF IInv, DeliveringOK
    <3> QED
      BY <1>a, <3>1 DEF EarlyStep
  <2> QED
    BY <2>1 DEF IInv, DeliveringOK, EarlyStep
<1>5. Accounted'
  <2>1. None \notin ready
    BY RequestsAssumption DEF IInv, TypeOK
  <2> QED
    BY <1>a, <2>1 DEF IInv, Accounted, EarlyStep
<1>6. OwnResponse'
  BY <1>a DEF IInv, OwnResponse, EarlyStep, Before
<1>7. (Exclusive /\ Signals /\ Returnable /\ AnswerExpected)'
  BY Frame DEF IInv, EarlyStep
<1> QED
  BY <1>1, <1>2, <1>3, <1>4, <1>5, <1>6, <1>7 DEF IInv

LEMMA BeginKeeps ==
    ASSUME IInv, NEW c \in Callers, NEW k \in Kinds, Begin(c, k)
    PROVE  IInv'
<1>1. TypeOK'
  <2>1. calls' \in 0..MaxCalls
    BY SMTT(20), Z3T(20), RequestsAssumption DEF IInv, TypeOK, Begin
  <2>2. pc' \in [Callers -> Pcs] /\ kind' \in [Callers -> Kinds]
    BY DEF IInv, TypeOK, Pcs, Slotted, Queueing, Begin
  <2> QED
    BY SMTT(20), Z3T(20), <2>1, <2>2 DEF IInv, TypeOK, Begin
<1>2. nextId <= nextId'
  BY SMTT(20), Z3T(20), RequestsAssumption DEF IInv, TypeOK, Begin
<1>3. EarlyStep(c)
  BY <1>2 DEF IInv, TypeOK, Locals, EarlyStep, Before, Begin
<1> QED
  BY <1>1, <1>3, EarlyStepKeeps

LEMMA TakeSlotKeeps ==
    ASSUME IInv, NEW c \in Callers, TakeSlot(c)
    PROVE  IInv'
<1>1. TypeOK'
  <2>1. sem' \in [Kinds -> Int]
    <3>1. sem \in [Kinds -> Int] /\ kind[c] \in Kinds
      BY DEF IInv, TypeOK
    <3> QED
      BY SMTT(20), Z3T(20), <3>1 DEF TakeSlot
  <2>2. pc' \in [Callers -> Pcs]
    BY DEF IInv, TypeOK, Pcs, Slotted, Queueing, TakeSlot
  <2> QED
    BY SMTT(20), Z3T(20), <2>1, <2>2 DEF IInv, TypeOK, TakeSlot
<1>2. nextId <= nextId'
  BY SMTT(20), Z3T(20), RequestsAssumption DEF IInv, TypeOK, TakeSlot
<1>3. EarlyStep(c)
  BY <1>2 DEF IInv, TypeOK, Locals, EarlyStep, Before, TakeSlot
<1> QED
  BY <1>1, <1>3, EarlyStepKeeps

\* A call that gives up before it has an id has nothing to put back.
LEMMA ReturnEarly ==
    ASSUME IInv, NEW c \in Callers, pc[c] \in Before, Return(c)
    PROVE  /\ UNCHANGED <<reqId, waiter, giveBack, got>>
           /\ pc' \in [Callers -> Pcs] /\ kind' \in [Callers -> Kinds]
           /\ result' \in [Callers -> {"none", "failed", "sent", "response"}]
           /\ ctxDone' \subseteq Callers
           /\ pc'[c] = "idle" /\ result'[c] = "none"
           /\ \A d \in Callers : d # c =>
                pc'[d] = pc[d] /\ kind'[d] = kind[d] /\ result'[d] = result[d]
<1>1. waiter[c] = None /\ reqId[c] = 0 /\ got[c] = 0 /\ c \notin giveBack
  BY DEF IInv, Locals, Before
<1>2. /\ waiter = [waiter EXCEPT ![c] = waiter[c]]
      /\ reqId = [reqId EXCEPT ![c] = reqId[c]]
      /\ got = [got EXCEPT ![c] = got[c]]
  BY DEF IInv, TypeOK
<1>3. UNCHANGED <<reqId, waiter, giveBack, got>>
  BY <1>1, <1>2 DEF Return
<1>4. kind' \in [Callers -> Kinds]
  BY RequestsAssumption DEF IInv, TypeOK, Return
<1>5. pc' \in [Callers -> Pcs]
  BY DEF IInv, TypeOK, Pcs, Return
<1> QED
  BY <1>3, <1>4, <1>5 DEF IInv, TypeOK, Return

LEMMA GiveUpKeeps ==
    ASSUME IInv, NEW c \in Callers, GiveUp(c)
    PROVE  IInv'
<1>0. nextId <= nextId'
  BY SMTT(20), Z3T(20), RequestsAssumption DEF IInv, TypeOK, GiveUp
<1>1. CASE pc[c] = "admit" /\ Return(c)
  <2>1. TypeOK'
    <3>1. UNCHANGED calls
      BY <1>1 DEF Return
    <3> QED
      BY SMTT(20), Z3T(20), <1>1, <3>1, ReturnEarly DEF IInv, TypeOK, GiveUp, Before
  <2>2. EarlyStep(c)
    BY <1>0, <1>1, ReturnEarly DEF EarlyStep, Before, GiveUp
  <2> QED
    BY <2>1, <2>2, EarlyStepKeeps
<1>2. CASE ~(pc[c] = "admit" /\ Return(c))
  <2>1. TypeOK'
    <3>1. /\ pc' \in [Callers -> Pcs]
          /\ result' \in [Callers -> {"none", "failed", "sent", "response"}]
      BY <1>2 DEF IInv, TypeOK, Pcs, Queueing, GiveUp
    <3> QED
      BY SMTT(20), Z3T(20), <1>2, <3>1 DEF IInv, TypeOK, GiveUp
  <2>2. EarlyStep(c)
    BY <1>0, <1>2 DEF IInv, TypeOK, EarlyStep, Before, GiveUp
  <2> QED
    BY <2>1, <2>2, EarlyStepKeeps
<1> QED
  BY <1>1, <1>2

LEMMA EnqueueKeeps ==
    ASSUME IInv, NEW c \in Callers, Enqueue(c)
    PROVE  IInv'
<1>1. TypeOK'
  <2>1. queued' \in [Kinds -> Int]
    <3>1. queued \in [Kinds -> Int] /\ kind[c] \in Kinds
      BY DEF IInv, TypeOK
    <3> QED
      BY SMTT(20), Z3T(20), <3>1 DEF Enqueue
  <2>2. /\ pc' \in [Callers -> Pcs]
        /\ result' \in [Callers -> {"none", "failed", "sent", "response"}]
    BY DEF IInv, TypeOK, Pcs, Queueing, Enqueue
  <2> QED
    BY SMTT(20), Z3T(20), <2>1, <2>2 DEF IInv, TypeOK, Enqueue
<1>2. nextId <= nextId'
  BY SMTT(20), Z3T(20), RequestsAssumption DEF IInv, TypeOK, Enqueue
<1>3. EarlyStep(c)
  BY <1>2 DEF IInv, TypeOK, Locals, EarlyStep, Before, Enqueue
<1> QED
  BY <1>1, <1>3, EarlyStepKeeps

LEMMA LeaveQueueKeeps ==
    ASSUME IInv, NEW c \in Callers, LeaveQueue(c)
    PROVE  IInv'
<1>0. nextId <= nextId'
  BY SMTT(20), Z3T(20), RequestsAssumption DEF IInv, TypeOK, LeaveQueue
<1>1. queued' \in [Kinds -> Int]
  <2>1. queued \in [Kinds -> Int] /\ kind[c] \in Kinds
    BY DEF IInv, TypeOK
  <2>2. queued' = [queued EXCEPT ![kind[c]] = queued[kind[c]] - 1]
    BY DEF LeaveQueue
  <2> QED
    BY SMTT(20), Z3T(20), <2>1, <2>2
<1>2. CASE pc[c] = "unqueue"
  <2>1. TypeOK'
    <3>1. Return(c) /\ pc[c] \in Before
      BY <1>2 DEF LeaveQueue, Before
    <3>2. UNCHANGED calls
      BY <3>1 DEF Return
    <3> QED
      BY SMTT(20), Z3T(20), <1>1, <3>1, <3>2, ReturnEarly DEF IInv, TypeOK, LeaveQueue
  <2>2. EarlyStep(c)
    BY <1>0, <1>2, ReturnEarly DEF EarlyStep, Before, LeaveQueue
  <2> QED
    BY <2>1, <2>2, EarlyStepKeeps
<1>3. CASE pc[c] # "unqueue"
  <2>1. TypeOK'
    <3>1. pc' \in [Callers -> Pcs]
      BY <1>3 DEF IInv, TypeOK, Pcs, Slotted, LeaveQueue
    <3> QED
      BY SMTT(20), Z3T(20), <1>1, <1>3, <3>1 DEF IInv, TypeOK, LeaveQueue
  <2>2. EarlyStep(c)
    BY <1>0, <1>3 DEF IInv, TypeOK, Locals, EarlyStep, Before, LeaveQueue
  <2> QED
    BY <2>1, <2>2, EarlyStepKeeps
<1> QED
  BY <1>2, <1>3

LEMMA CannotSendKeeps ==
    ASSUME IInv, NEW c \in Callers, CannotSend(c)
    PROVE  IInv'
<1>0. nextId' \in 0..MaxId /\ nextId <= nextId'
  BY SMTT(20), Z3T(20), RequestsAssumption DEF IInv, TypeOK, CannotSend, NextCorrelationID
<1>1. TypeOK'
  <2>1. /\ pc' \in [Callers -> Pcs]
        /\ result' \in [Callers -> {"none", "failed", "sent", "response"}]
    BY DEF IInv, TypeOK, Pcs, Slotted, CannotSend
  <2> QED
    BY SMTT(20), Z3T(20), <1>0, <2>1 DEF IInv, TypeOK, CannotSend
<1>2. EarlyStep(c)
  BY <1>0 DEF IInv, TypeOK, EarlyStep, Before, CannotSend
<1> QED
  BY <1>1, <1>2, EarlyStepKeeps

LEMMA AllocateOneWayKeeps ==
    ASSUME IInv, NEW c \in Callers, AllocateOneWay(c)
    PROVE  IInv'
<1>0. nextId' \in 0..MaxId /\ nextId <= nextId'
  BY SMTT(20), Z3T(20), RequestsAssumption DEF IInv, TypeOK, AllocateOneWay, NextCorrelationID
<1>1. TypeOK'
  <2>1. pc' \in [Callers -> Pcs]
    BY DEF IInv, TypeOK, Pcs, Slotted, AllocateOneWay
  <2> QED
    BY SMTT(20), Z3T(20), <1>0, <2>1 DEF IInv, TypeOK, AllocateOneWay
<1>2. EarlyStep(c)
  BY <1>0 DEF IInv, TypeOK, Locals, EarlyStep, Before, AllocateOneWay
<1> QED
  BY <1>1, <1>2, EarlyStepKeeps

LEMMA AllocateKeeps ==
    ASSUME IInv, NEW c \in Callers, Allocate(c)
    PROVE  IInv'
<1>a. PICK w \in pool \cup (Waiters \ InUse) :
        /\ waiter' = [waiter EXCEPT ![c] = w]
        /\ pool' = pool \ {w}
        /\ ready' = ready \ {w}
        /\ resp' = [resp EXCEPT ![w] = 0]
        /\ failed' = failed \ {w}
  BY Zenon DEF Allocate
<1>b. /\ w \in Waiters
      /\ delivering.to # w
      /\ \A d \in Callers : waiter[d] # w
      /\ \A i \in Ids : table[i] # w
  BY DEF IInv, TypeOK, Returnable, InUse
<1>c. nextId \in 0..MaxId /\ nextId' = nextId + 1 /\ nextId' \in Ids
  BY SMTT(20), Z3T(20), RequestsAssumption DEF IInv, TypeOK, Allocate, NextCorrelationID, Ids
<1>d. /\ waiter'[c] = w /\ reqId'[c] = nextId' /\ pc[c] = "allocate"
      /\ pc'[c] = "lock" /\ kind[c] = "request"
      /\ \A d \in Callers : d # c =>
            waiter'[d] = waiter[d] /\ reqId'[d] = reqId[d] /\ pc'[d] = pc[d]
      /\ UNCHANGED <<kind, giveBack, result, got, table, muxClosed, dpc,
                     delivering, wire, answered, inbound>>
  BY <1>a DEF IInv, TypeOK, Allocate
<1>e. \A d \in Callers : reqId[d] \in 0..MaxId /\ reqId[d] <= nextId
  BY DEF IInv, TypeOK, Locals
<1>1. TypeOK'
  <2>1. nextId' \in 0..MaxId
    BY SMTT(20), Z3T(20), <1>c, RequestsAssumption DEF IInv, TypeOK, Ids, Allocate,
       NextCorrelationID
  <2>2. reqId' \in [Callers -> 0..MaxId]
    BY SMTT(20), Z3T(20), <1>c, RequestsAssumption DEF IInv, TypeOK, Ids, Allocate,
       NextCorrelationID
  <2>3. waiter' \in [Callers -> Waiters \cup {None}]
    BY <1>a, <1>b, RequestsAssumption DEF IInv, TypeOK, Allocate,
       NextCorrelationID
  <2>4. pool' \subseteq Waiters
    BY <1>a, <1>b, RequestsAssumption DEF IInv, TypeOK, Allocate,
       NextCorrelationID
  <2>5. ready' \subseteq Waiters
    BY <1>a, <1>b, RequestsAssumption DEF IInv, TypeOK, Allocate,
       NextCorrelationID
  <2>6. resp' \in [Waiters -> 0..MaxId]
    BY SMTT(20), Z3T(20), <1>a, <1>b, RequestsAssumption DEF IInv, TypeOK, Allocate,
       NextCorrelationID
  <2>7. failed' \subseteq Waiters
    BY <1>a, <1>b, RequestsAssumption DEF IInv, TypeOK, Allocate,
       NextCorrelationID
  <2>8. pc' \in [Callers -> Pcs]
    BY RequestsAssumption DEF IInv, TypeOK, Pcs, Slotted, Queueing, Allocate,
       NextCorrelationID
  <2> QED
    BY SMTT(20), Z3T(20), <2>1, <2>2, <2>3, <2>4, <2>5, <2>6, <2>7, <2>8 DEF IInv, TypeOK,
       Allocate, NextCorrelationID
<1>2. Locals'
  <2> SUFFICES ASSUME NEW d \in Callers
               PROVE  Locals!(d)'
    BY DEF Locals
  <2>1. CASE d = c
    <3>1. /\ w # None /\ nextId' # 0 /\ nextId' <= nextId'
          /\ result[c] = "none" /\ got[c] = 0 /\ c \notin giveBack
      <4>1. nextId' # 0 /\ nextId' <= nextId'
        BY SMTT(20), Z3T(20), <1>c DEF Ids
      <4> QED
        BY <1>b, <1>d, <4>1, RequestsAssumption DEF IInv, Locals, Before
    <3> QED
      BY <1>d, <2>1, <3>1 DEF Before
  <2>2. CASE d # c
    <3>1. reqId'[d] <= nextId'
      BY SMTT(20), Z3T(20), <1>c, <1>d, <1>e, <2>2
    <3> QED
      BY <1>d, <2>2, <3>1 DEF IInv, Locals
  <2> QED
    BY <2>1, <2>2
<1>3. Exclusive'
  <2>1. \A d \in Callers : d # c => reqId'[d] # reqId'[c]
    BY SMTT(20), Z3T(20), <1>c, <1>d, <1>e
  <2>2. \A d \in Callers : d # c => waiter'[d] # waiter'[c]
    BY <1>b, <1>d
  <2> QED
    BY SMTT(20), Z3T(20), <1>d, <2>1, <2>2 DEF IInv, Exclusive
<1>4. Wired'
  <2>1. \A i \in wire \cup answered : i \in Int /\ i <= nextId' /\ i # nextId'
    BY SMTT(20), Z3T(20), <1>c DEF IInv, TypeOK, Wired, Ids
  <2> QED
    BY <1>d, <2>1 DEF IInv, Wired
<1>5. TableOK'
  <2>1. \A i \in Ids : table[i] # None => i <= nextId'
    BY SMTT(20), Z3T(20), <1>c DEF IInv, TableOK, Ids
  <2>2. ASSUME NEW i \in Ids, table[i] \in Waiters
        PROVE  /\ table[i] \notin ready' /\ table[i] # delivering.to
               /\ \E d \in Callers : /\ reqId'[d] = i /\ waiter'[d] = table[i]
                                     /\ pc'[d] \in InTable
    <3>1. PICK d \in Callers :
            reqId[d] = i /\ waiter[d] = table[i] /\ pc[d] \in InTable
      BY <2>2 DEF IInv, TableOK
    <3>2. d # c
      BY <1>d, <3>1 DEF InTable
    <3> QED
      BY <1>a, <1>d, <2>2, <3>1, <3>2 DEF IInv, TableOK
  <2> QED
    BY <1>d, <2>1, <2>2 DEF TableOK
<1>6. DeliveringOK'
  BY <1>a, <1>b, <1>d DEF IInv, DeliveringOK, NoDelivery
<1>7. Signals'
  BY SMTT(20), Z3T(20), <1>a, <1>b, <1>d, RequestsAssumption DEF IInv, TypeOK, Signals
<1>8. Returnable'
  <2>1. c \notin giveBack
    BY <1>d DEF IInv, Locals, Before
  <2>2. ASSUME NEW d \in Callers, d \in giveBack'
        PROVE  delivering'.to # waiter'[d] /\ \A i \in Ids : table'[i] # waiter'[d]
    <3>1. d # c /\ d \in giveBack /\ waiter'[d] = waiter[d]
      BY <1>d, <2>1, <2>2
    <3>2. delivering.to # waiter[d] /\ \A i \in Ids : table[i] # waiter[d]
      BY <3>1 DEF IInv, Returnable
    <3> QED
      BY <1>d, <3>1, <3>2
  <2>3. ASSUME NEW v \in pool'
        PROVE  /\ v \notin ready' /\ delivering'.to # v
               /\ \A i \in Ids : table'[i] # v
               /\ \A d \in Callers : waiter'[d] # v
    <3>1. v \in pool /\ v # w /\ waiter'[c] = w
      BY <1>a, <1>d
    <3> QED
      BY <1>a, <1>d, <3>1 DEF IInv, Returnable
  <2> QED
    BY <2>2, <2>3 DEF Returnable
<1>9. Accounted'
  <2>1. w \notin ready' /\ \A v : v # w => (v \in ready' <=> v \in ready)
    BY <1>a
  <2>2. \A d \in Callers :
          /\ pc'[d] \in {"write", "await"} =>
               d # c /\ pc'[d] = pc[d] /\ waiter'[d] = waiter[d]
                     /\ reqId'[d] = reqId[d] /\ waiter[d] # w
          /\ pc'[d] = "lock" =>
               \/ waiter'[d] = w
               \/ pc[d] = "lock" /\ waiter'[d] = waiter[d] /\ waiter[d] # w
    BY <1>b, <1>d
  <2>3. \A d \in Callers :
          pc'[d] \in {"write", "await"} /\ kind[d] = "request" =>
              \/ table[reqId'[d]] = waiter'[d]
              \/ delivering.to = waiter'[d]
              \/ waiter'[d] \in ready'
    BY <2>1, <2>2 DEF IInv, Accounted
  <2>4. \A d \in Callers :
          pc'[d] = "write" /\ kind[d] = "request" /\ ~muxClosed =>
              table[reqId'[d]] = waiter'[d]
    BY <2>2 DEF IInv, Accounted
  <2>5. \A d \in Callers : pc'[d] = "lock" => waiter'[d] \notin ready'
    BY <2>1, <2>2 DEF IInv, Accounted
  <2> QED
    BY <1>d, <2>3, <2>4, <2>5 DEF IInv, Accounted
<1>10. OwnResponse'
  <2>1. result[c] # "response"
    BY <1>d DEF IInv, Locals, Before
  <2> QED
    BY <1>d, <2>1 DEF IInv, OwnResponse
<1>11. (AnswerExpected)'
  BY Frame DEF IInv, Allocate, NextCorrelationID
<1> QED
  BY <1>1, <1>2, <1>3, <1>4, <1>5, <1>6, <1>7, <1>8, <1>9, <1>10, <1>11 DEF
     IInv

-----------------------------------------------------------------------------
(* The steps that register a waiter, write the request, await the response *)
(* and leave the table.                                                    *)

LEMMA LockAndRegisterKeeps ==
    ASSUME IInv, NEW c \in Callers, LockAndRegister(c)
    PROVE  IInv'
<1>a. /\ pc[c] = "lock" /\ kind[c] = "request"
      /\ waiter[c] \in Waiters /\ waiter[c] # None /\ reqId[c] \in Ids
      /\ \A d \in Callers : d # c =>
            waiter[d] # waiter[c] /\ reqId[d] # reqId[c]
  BY SMTT(20), Z3T(20), RequestsAssumption DEF IInv, TypeOK, Locals, Exclusive, LockAndRegister, Ids
<1>b. /\ \A i \in Ids : table[i] # waiter[c]
      /\ delivering.to # waiter[c]
      /\ waiter[c] \notin ready
      /\ waiter[c] \notin pool
      /\ c \notin giveBack
  <2>1. \A i \in Ids : table[i] # waiter[c]
    BY SMTT(20), Z3T(20), <1>a DEF IInv, TableOK, InTable
  <2>2. delivering.to # waiter[c]
    BY SMTT(20), Z3T(20), <1>a DEF IInv, DeliveringOK, Registered, InTable, NoDelivery
  <2> QED
    BY <1>a, <2>1, <2>2 DEF IInv, Locals, Accounted, Returnable
<1>c. /\ \A d \in Callers : d # c => pc'[d] = pc[d] /\ result'[d] = result[d]
      /\ UNCHANGED <<kind, reqId, waiter, giveBack, got, nextId, muxClosed, pool,
                     resp, dpc, delivering, wire, answered, inbound>>
  BY DEF IInv, TypeOK, LockAndRegister
<1>d. \/ /\ muxClosed /\ UNCHANGED table
         /\ ready' = ready \cup {waiter[c]} /\ failed' = failed \cup {waiter[c]}
         /\ pc'[c] = "release" /\ result'[c] = "failed"
      \/ /\ UNCHANGED <<table, ready, failed>>
         /\ pc'[c] = "release" /\ result'[c] = "failed"
      \/ /\ ~muxClosed /\ UNCHANGED <<ready, failed>>
         /\ table' = [table EXCEPT ![reqId[c]] = waiter[c]]
         /\ pc'[c] = "write" /\ result'[c] = result[c]
  BY DEF IInv, TypeOK, LockAndRegister, RegistrationRefused
<1>e. /\ \A i \in Ids : i # reqId[c] => table'[i] = table[i]
      /\ pc'[c] = "write" => table'[reqId[c]] = waiter[c] /\ ~muxClosed
                              /\ UNCHANGED ready
      /\ pc'[c] # "write" => UNCHANGED table
      /\ ready \subseteq ready' /\ ready' \subseteq ready \cup {waiter[c]}
      /\ failed \subseteq failed' /\ pc'[c] \in {"write", "release"}
      /\ pc'[c] = "write" \/ table'[reqId[c]] = table[reqId[c]]
  BY <1>a, <1>d DEF IInv, TypeOK
<1>1. TypeOK'
  <2>1. ready' \subseteq Waiters
    BY SMTT(20), Z3T(20), <1>a, RequestsAssumption DEF IInv, TypeOK, LockAndRegister,
       RegistrationRefused, UnlockAfterRefusal
  <2>2. failed' \subseteq Waiters
    BY SMTT(20), Z3T(20), <1>a, RequestsAssumption DEF IInv, TypeOK, LockAndRegister,
       RegistrationRefused, UnlockAfterRefusal
  <2>3. pc' \in [Callers -> Pcs]
    BY SMTT(20), Z3T(20), RequestsAssumption DEF IInv, TypeOK, Pcs, Slotted, Queueing,
       LockAndRegister, RegistrationRefused, UnlockAfterRefusal
  <2>4. result' \in [Callers -> {"none", "failed", "sent", "response"}]
    BY RequestsAssumption DEF IInv, TypeOK, LockAndRegister,
       RegistrationRefused, UnlockAfterRefusal
  <2>5. writer' \in Callers \cup {None}
    BY RequestsAssumption DEF IInv, TypeOK, LockAndRegister,
       RegistrationRefused, UnlockAfterRefusal
  <2>6. table' \in [Ids -> Waiters \cup {None, Discard}]
    BY <1>a, RequestsAssumption DEF IInv, TypeOK, LockAndRegister,
       RegistrationRefused, UnlockAfterRefusal
  <2> QED
    BY SMTT(20), Z3T(20), <2>1, <2>2, <2>3, <2>4, <2>5, <2>6 DEF IInv, TypeOK, LockAndRegister,
       RegistrationRefused, UnlockAfterRefusal
<1>2. Locals'
  BY SMTT(20), Z3T(20), <1>a, <1>c, <1>d DEF IInv, Locals, Before
<1>3. Wired'
  BY <1>a, <1>c, <1>d DEF IInv, Wired
<1>4. TableOK'
  <2> SUFFICES ASSUME NEW i \in Ids
               PROVE  /\ table'[i] # None => i <= nextId
                      /\ table'[i] \in Waiters =>
                            /\ table'[i] \notin ready'
                            /\ table'[i] # delivering.to
                            /\ \E d \in Callers : /\ reqId[d] = i
                                                  /\ waiter[d] = table'[i]
                                                  /\ pc'[d] \in InTable
    BY <1>c DEF TableOK
  <2>1. CASE i = reqId[c] /\ pc'[c] = "write"
    BY <1>a, <1>b, <1>e, <2>1 DEF IInv, Locals, InTable
  <2>2. CASE ~(i = reqId[c] /\ pc'[c] = "write")
    <3>1. table'[i] = table[i]
      BY <1>e, <2>2
    <3>2. ASSUME table[i] \in Waiters
          PROVE  \E d \in Callers : /\ reqId[d] = i /\ waiter[d] = table[i]
                                    /\ pc'[d] \in InTable
      <4>1. PICK d \in Callers :
              reqId[d] = i /\ waiter[d] = table[i] /\ pc[d] \in InTable
        BY <3>2 DEF IInv, TableOK
      <4> QED
        BY <1>a, <1>c, <4>1 DEF InTable
    <3> QED
      BY <1>b, <1>e, <3>1, <3>2 DEF IInv, TableOK
  <2> QED
    BY <2>1, <2>2
<1>5. DeliveringOK'
  BY <1>a, <1>b, <1>c, <1>e DEF IInv, DeliveringOK, NoDelivery
<1>6. Signals'
  BY <1>a, <1>b, <1>c, <1>d DEF IInv, Signals
<1>7. Returnable'
  <2>1. \A w \in pool, i \in Ids : w # waiter[c] /\ table'[i] # w
    BY <1>b, <1>e DEF IInv, Returnable
  <2>2. \A d \in Callers, i \in Ids :
          d \in giveBack => d # c /\ table'[i] # waiter[d]
    BY SMTT(20), Z3T(20), <1>a, <1>b, <1>e DEF IInv, Returnable
  <2> QED
    BY SMTT(20), Z3T(20), <1>c, <1>e, <2>1, <2>2 DEF IInv, Returnable
<1>8. Accounted'
  <2>1. dpc \in {"finishing", "exited"} => \A i \in Ids : table'[i] = None
    BY <1>e DEF IInv, Accounted
  <2>2. \A d \in Callers : d # c /\ waiter[d] # None => reqId[d] \in Ids
    BY SMTT(20), Z3T(20) DEF IInv, TypeOK, Locals, Ids
  <2>3. ASSUME NEW d \in Callers, d # c,
               pc[d] \in {"write", "await"}, kind[d] = "request"
        PROVE  /\ table'[reqId[d]] = table[reqId[d]]
               /\ waiter[d] \in ready' <=> waiter[d] \in ready
    BY <1>a, <1>e, <2>2, <2>3 DEF IInv, Locals
  <2>4. \A d \in Callers : d # c /\ pc[d] = "lock" => waiter[d] \notin ready'
    BY <1>a, <1>e DEF IInv, Accounted
  <2> QED
    BY SMTT(20), Z3T(20), <1>a, <1>c, <1>e, <2>1, <2>3, <2>4 DEF IInv, Accounted
<1>9. OwnResponse'
  BY <1>c, <1>d DEF IInv, Locals, OwnResponse
<1>10. AnswerExpected'
  BY <1>a, <1>c, <1>e DEF IInv, AnswerExpected
<1>11. (Exclusive)'
  BY Frame DEF IInv, LockAndRegister, RegistrationRefused, UnlockAfterRefusal
<1> QED
  BY <1>1, <1>2, <1>3, <1>4, <1>5, <1>6, <1>7, <1>8, <1>9, <1>10, <1>11 DEF
     IInv

LEMMA LockOneWayKeeps ==
    ASSUME IInv, NEW c \in Callers, LockOneWay(c)
    PROVE  IInv'
<1>1. TypeOK'
  <2>1. writer' \in Callers \cup {None}
    BY RequestsAssumption DEF IInv, TypeOK, LockOneWay
  <2>2. pc' \in [Callers -> Pcs]
    BY RequestsAssumption DEF IInv, TypeOK, Pcs, Slotted, Queueing, LockOneWay
  <2> QED
    BY SMTT(20), Z3T(20), <2>1, <2>2 DEF IInv, TypeOK, LockOneWay
<1>2. Locals'
  BY SMTT(20), Z3T(20), RequestsAssumption DEF IInv, Locals, TypeOK, Before, LockOneWay
<1>3. Wired'
  BY RequestsAssumption DEF IInv, Wired, TypeOK, Locals, Before, LockOneWay
<1>4. TableOK'
  BY SMTT(20), Z3T(20), RequestsAssumption DEF IInv, TableOK, TypeOK, Locals, InTable, Before,
     LockOneWay
<1>5. DeliveringOK'
  BY SMTT(20), Z3T(20), RequestsAssumption DEF IInv, DeliveringOK, TypeOK, Locals, Registered,
     InTable, Before, NoDelivery, LockOneWay
<1>6. Accounted'
  BY SMTT(20), Z3T(20), RequestsAssumption DEF IInv, Accounted, TypeOK, Locals, Before, LockOneWay
<1>7. (Exclusive /\ Signals /\ Returnable /\ OwnResponse /\ AnswerExpected)'
  BY Frame DEF IInv, LockOneWay
<1> QED
  BY <1>1, <1>2, <1>3, <1>4, <1>5, <1>6, <1>7 DEF IInv

LEMMA WriteKeeps ==
    ASSUME IInv, NEW c \in Callers, Write(c)
    PROVE  IInv'
<1>1. TypeOK'
  <2>1. writer' \in Callers \cup {None}
    BY RequestsAssumption DEF IInv, TypeOK, Write
  <2>2. wire' \subseteq Ids
    <3>1. kind[c] = "request" => reqId[c] \in Ids
      BY SMTT(20), Z3T(20) DEF IInv, TypeOK, Locals, Write, Ids
    <3> QED
      BY <3>1 DEF IInv, TypeOK, Write
  <2>3. pc' \in [Callers -> Pcs]
    BY SMTT(20), Z3T(20), RequestsAssumption DEF IInv, TypeOK, Pcs, Slotted, Queueing, Write
  <2>4. result' \in [Callers -> {"none", "failed", "sent", "response"}]
    BY RequestsAssumption DEF IInv, TypeOK, Write
  <2> QED
    BY <2>1, <2>2, <2>3, <2>4 DEF IInv, TypeOK, Write
<1>2. Locals'
  BY SMTT(20), Z3T(20), RequestsAssumption DEF IInv, Locals, TypeOK, Before, Write
<1>3. Wired'
  <2>1. CASE kind[c] = "oneway"
    <3>1. /\ UNCHANGED <<wire, answered, inbound, nextId, reqId>>
          /\ \A d \in Callers : d # c => pc'[d] = pc[d]
          /\ pc'[c] = "release"
      BY <2>1 DEF IInv, TypeOK, Write
    <3> QED
      BY <3>1 DEF IInv, Wired
  <2>2. CASE kind[c] = "request"
    <3>1. /\ reqId[c] \in Int /\ reqId[c] <= nextId
          /\ reqId[c] \notin wire \cup answered
          /\ \A d \in Callers : d # c => reqId[d] # reqId[c]
      BY SMTT(20), Z3T(20), <2>2 DEF IInv, TypeOK, Locals, Exclusive, Wired, Write
    <3>2. /\ wire' = wire \cup {reqId[c]}
          /\ UNCHANGED <<answered, inbound, nextId, reqId>>
          /\ \A d \in Callers : d # c => pc'[d] = pc[d]
          /\ pc'[c] = "await"
      BY <2>2 DEF IInv, TypeOK, Write
    <3> QED
      BY <3>1, <3>2 DEF IInv, Wired
  <2>3. kind[c] = "request" \/ kind[c] = "oneway"
    BY KindOfCall DEF IInv
  <2> QED
    BY <2>1, <2>2, <2>3
<1>4. TableOK'
  <2>1. waiter[c] \in Waiters => pc'[c] = "await"
    <3>1. kind[c] = "request" \/ kind[c] = "oneway"
      BY KindOfCall DEF IInv
    <3>2. kind[c] = "oneway" => waiter[c] \notin Waiters
      BY RequestsAssumption DEF IInv, Locals
    <3> QED
      BY <3>1, <3>2 DEF IInv, TypeOK, Write
  <2>2. ASSUME NEW d \in Callers, waiter[d] \in Waiters, pc[d] \in InTable
        PROVE  pc'[d] \in InTable
    BY <2>1, <2>2 DEF IInv, TypeOK, Write, InTable
  <2>3. UNCHANGED <<reqId, waiter, nextId, table, ready, delivering>>
    BY DEF Write
  <2> QED
    BY <2>2, <2>3 DEF IInv, TableOK
<1>5. DeliveringOK'
  BY SMTT(20), Z3T(20), RequestsAssumption DEF IInv, DeliveringOK, TypeOK, Locals, Registered,
     InTable, Before, NoDelivery, Write
<1>6. Accounted'
  BY SMTT(20), Z3T(20), RequestsAssumption DEF IInv, Accounted, TypeOK, Locals, Before, Write
<1>7. OwnResponse'
  BY SMTT(20), Z3T(20), RequestsAssumption DEF IInv, OwnResponse, TypeOK, Locals, Write
<1>8. AnswerExpected'
  <2>1. kind[c] = "request" /\ ~muxClosed => table[reqId[c]] # None
    BY RequestsAssumption DEF IInv, TypeOK, Locals, Accounted, Write
  <2> QED
    BY <2>1 DEF IInv, AnswerExpected, Write
<1>9. (Exclusive /\ Signals /\ Returnable)'
  BY Frame DEF IInv, Write
<1> QED
  BY <1>1, <1>2, <1>3, <1>4, <1>5, <1>6, <1>7, <1>8, <1>9 DEF IInv

LEMMA WriteFailsKeeps ==
    ASSUME IInv, NEW c \in Callers, WriteFails(c)
    PROVE  IInv'
<1>a. /\ pc[c] = "write" /\ pc'[c] \in {"unregister", "release"}
      /\ kind[c] = "request" => pc'[c] = "unregister"
      /\ \A d \in Callers : d # c => pc'[d] = pc[d]
      /\ UNCHANGED <<kind, reqId, waiter, nextId, table, muxClosed, ready, dpc,
                     delivering>>
  BY DEF IInv, TypeOK, Locals, WriteFails
<1>1. TypeOK'
  <2>1. writer' \in Callers \cup {None}
    BY <1>a, RequestsAssumption DEF IInv, TypeOK, WriteFails
  <2>2. pc' \in [Callers -> Pcs]
    BY <1>a, RequestsAssumption DEF IInv, TypeOK, Pcs, Slotted, Queueing,
       WriteFails
  <2>3. result' \in [Callers -> {"none", "failed", "sent", "response"}]
    BY <1>a, RequestsAssumption DEF IInv, TypeOK, WriteFails
  <2> QED
    BY <2>1, <2>2, <2>3, <1>a DEF IInv, TypeOK, WriteFails
<1>2. Locals'
  BY SMTT(20), Z3T(20), <1>a, RequestsAssumption DEF IInv, Locals, TypeOK, Before, WriteFails
<1>3. Wired'
  BY SMTT(20), Z3T(20), <1>a, RequestsAssumption DEF IInv, Wired, TypeOK, Locals, Before,
     WriteFails
<1>4. TableOK'
  <2>1. waiter[c] \in Waiters => pc'[c] = "unregister"
    <3>1. kind[c] = "request" \/ kind[c] = "oneway"
      BY KindOfCall DEF IInv
    <3>2. kind[c] = "oneway" => waiter[c] \notin Waiters
      BY RequestsAssumption DEF IInv, Locals
    <3> QED
      BY <1>a, <3>1, <3>2
  <2>2. ASSUME NEW d \in Callers, waiter[d] \in Waiters, pc[d] \in InTable
        PROVE  pc'[d] \in InTable
    BY <1>a, <2>1, <2>2 DEF InTable
  <2> QED
    BY <1>a, <2>2 DEF IInv, TableOK
<1>5. DeliveringOK'
  BY SMTT(20), Z3T(20), <1>a, RequestsAssumption DEF IInv, DeliveringOK, TypeOK, Locals,
     Registered, InTable, Before, NoDelivery, WriteFails
<1>6. Accounted'
  BY <1>a DEF IInv, Accounted
<1>7. OwnResponse'
  BY SMTT(20), Z3T(20), <1>a, RequestsAssumption DEF IInv, OwnResponse, TypeOK, Locals, WriteFails
<1>8. (Exclusive /\ Signals /\ Returnable /\ AnswerExpected)'
  BY <1>a, Frame DEF IInv, WriteFails
<1> QED
  BY <1>1, <1>2, <1>3, <1>4, <1>5, <1>6, <1>7, <1>8 DEF IInv

LEMMA AwaitReadyKeeps ==
    ASSUME IInv, NEW c \in Callers, AwaitReady(c)
    PROVE  IInv'
<1>a. /\ pc[c] = "await" /\ kind[c] = "request"
      /\ waiter[c] \in Waiters /\ waiter[c] # None /\ reqId[c] \in Ids
      /\ \A d \in Callers : d # c =>
            waiter[d] # waiter[c] /\ reqId[d] # reqId[c]
  BY SMTT(20), Z3T(20), RequestsAssumption DEF IInv, TypeOK, Locals, Exclusive, AwaitReady, Ids
<1>b. /\ waiter[c] \in ready
      /\ \A i \in Ids : table[i] # waiter[c]
      /\ delivering.to # waiter[c]
  <2>1. waiter[c] \in ready
    BY DEF AwaitReady
  <2>2. delivering.to # waiter[c]
    BY SMTT(20), Z3T(20), <1>a, <2>1 DEF IInv, DeliveringOK, NoDelivery
  <2> QED
    BY <1>a, <2>1, <2>2 DEF IInv, TableOK
<1>c. /\ \A d \in Callers : d # c =>
            pc'[d] = pc[d] /\ result'[d] = result[d] /\ got'[d] = got[d]
      /\ pc'[c] = "unregister"
      /\ ready' = ready \ {waiter[c]} /\ giveBack' = giveBack \cup {c}
      /\ UNCHANGED <<kind, reqId, waiter, nextId, table, muxClosed, pool, resp,
                     failed, dpc, delivering, answered, wire, inbound>>
  BY DEF IInv, TypeOK, AwaitReady
<1>d. \/ result'[c] = "failed" /\ got'[c] = got[c]
      \/ /\ waiter[c] \notin failed
         /\ result'[c] = "response" /\ got'[c] = resp[waiter[c]]
  BY DEF IInv, TypeOK, AwaitReady
<1>1. TypeOK'
  <2>1. ready' \subseteq Waiters
    BY RequestsAssumption DEF IInv, TypeOK, AwaitReady
  <2>2. giveBack' \subseteq Callers
    BY RequestsAssumption DEF IInv, TypeOK, AwaitReady
  <2>3. result' \in [Callers -> {"none", "failed", "sent", "response"}]
    BY RequestsAssumption DEF IInv, TypeOK, AwaitReady
  <2>4. got' \in [Callers -> 0..MaxId]
    <3>1. resp[waiter[c]] \in 0..MaxId
      BY DEF IInv, TypeOK, Locals, AwaitReady
    <3> QED
      BY <3>1 DEF IInv, TypeOK, AwaitReady
  <2>5. pc' \in [Callers -> Pcs]
    BY RequestsAssumption DEF IInv, TypeOK, Pcs, Slotted, Queueing, AwaitReady
  <2> QED
    BY <2>1, <2>2, <2>3, <2>4, <2>5 DEF IInv, TypeOK, AwaitReady
<1>2. Locals'
  <2>1. Locals
    BY DEF IInv
  <2> QED  BY <1>a, <1>c, <1>d, <2>1 DEF Locals, Before
<1>3. Wired'
  BY <1>c DEF IInv, Wired
<1>4. TableOK'
  <2>1. \A d \in Callers : pc[d] \in InTable => pc'[d] \in InTable
    BY <1>c DEF InTable
  <2> QED
    BY <1>c, <2>1 DEF IInv, TableOK
<1>5. DeliveringOK'
  <2>1. \A d \in Callers : pc[d] \in Registered => pc'[d] \in Registered
    BY <1>c DEF Registered, InTable
  <2> QED
    BY <1>c, <2>1 DEF IInv, DeliveringOK
<1>6. Signals'
  BY <1>c DEF IInv, Signals
<1>7. Returnable'
  BY <1>b, <1>c DEF IInv, Returnable
<1>8. Accounted'
  BY <1>a, <1>c DEF IInv, Accounted
<1>9. OwnResponse'
  <2>1. waiter[c] \notin failed =>
          resp[waiter[c]] = reqId[c] /\ resp[waiter[c]] \in answered
    BY <1>a, <1>b DEF IInv, Signals
  <2> QED
    BY <1>c, <1>d, <2>1 DEF IInv, OwnResponse
<1>10. (Exclusive /\ AnswerExpected)'
  BY Frame DEF IInv, AwaitReady
<1> QED
  BY <1>1, <1>2, <1>3, <1>4, <1>5, <1>6, <1>7, <1>8, <1>9, <1>10 DEF IInv

LEMMA AwaitAbortedKeeps ==
    ASSUME IInv, NEW c \in Callers, AwaitAborted(c)
    PROVE  IInv'
<1>a. /\ pc[c] = "await" /\ pc'[c] \in {"unregister", "release"}
      /\ kind[c] = "request" => pc'[c] = "unregister"
      /\ \A d \in Callers : d # c => pc'[d] = pc[d]
      /\ UNCHANGED <<kind, reqId, waiter, nextId, table, muxClosed, ready, dpc,
                     delivering>>
  BY DEF IInv, TypeOK, Locals, AwaitAborted
<1>1. TypeOK'
  <2>1. result' \in [Callers -> {"none", "failed", "sent", "response"}]
    BY <1>a, RequestsAssumption DEF IInv, TypeOK, AwaitAborted
  <2>2. pc' \in [Callers -> Pcs]
    BY <1>a, RequestsAssumption DEF IInv, TypeOK, Pcs, Slotted, Queueing,
       AwaitAborted
  <2> QED
    BY SMTT(20), Z3T(20), <2>1, <2>2, <1>a DEF IInv, TypeOK, AwaitAborted
<1>2. Locals'
  BY SMTT(20), Z3T(20), <1>a, RequestsAssumption DEF IInv, Locals, TypeOK, Before, AwaitAborted
<1>3. Wired'
  BY SMTT(20), Z3T(20), <1>a, RequestsAssumption DEF IInv, Wired, TypeOK, Locals, Before,
     AwaitAborted
<1>4. TableOK'
  <2>1. ASSUME NEW d \in Callers, waiter[d] \in Waiters, pc[d] \in InTable
        PROVE  pc'[d] \in InTable
    BY <1>a, <2>1, RequestsAssumption DEF IInv, TypeOK, Locals, InTable
  <2> QED
    BY <1>a, <2>1 DEF IInv, TableOK
<1>5. DeliveringOK'
  BY SMTT(20), Z3T(20), <1>a, RequestsAssumption DEF IInv, DeliveringOK, TypeOK, Locals,
     Registered, InTable, Before, NoDelivery, AwaitAborted
<1>6. Accounted'
  BY <1>a DEF IInv, Accounted
<1>7. OwnResponse'
  BY SMTT(20), Z3T(20), <1>a, RequestsAssumption DEF IInv, OwnResponse, TypeOK, Locals,
     AwaitAborted
<1>8. (Exclusive /\ Signals /\ Returnable /\ AnswerExpected)'
  BY <1>a, Frame DEF IInv, AwaitAborted
<1> QED
  BY <1>1, <1>2, <1>3, <1>4, <1>5, <1>6, <1>7, <1>8 DEF IInv

LEMMA UnregisterKeeps ==
    ASSUME IInv, NEW c \in Callers, Unregister(c)
    PROVE  IInv'
<1>a. /\ pc[c] = "unregister" /\ kind[c] = "request"
      /\ waiter[c] \in Waiters /\ waiter[c] # None /\ reqId[c] \in Ids
      /\ \A d \in Callers : d # c =>
            waiter[d] # waiter[c] /\ reqId[d] # reqId[c]
  BY SMTT(20), Z3T(20), RequestsAssumption DEF IInv, TypeOK, Locals, Exclusive, Unregister, Ids
<1>b. \A i \in Ids : table[i] = waiter[c] => i = reqId[c]
  <2>1. TableOK
    BY DEF IInv
  <2>2. SUFFICES ASSUME NEW i \in Ids, table[i] = waiter[c]
                 PROVE  i = reqId[c]
    OBVIOUS
  <2>3. table[i] \in Waiters
    BY <1>a, <2>2
  <2>4. PICK d \in Callers : reqId[d] = i /\ waiter[d] = table[i]
    BY <2>1, <2>3 DEF TableOK
  <2> QED
    BY <1>a, <2>2, <2>4
<1>c. /\ \A d \in Callers : d # c => pc'[d] = pc[d]
      /\ pc'[c] = "release"
      /\ UNCHANGED <<kind, reqId, waiter, nextId, muxClosed, pool, ready, resp,
                     failed, dpc, delivering, answered, wire, inbound, result,
                     got>>
  BY DEF IInv, TypeOK, Unregister
<1>d. \/ /\ table[reqId[c]] = waiter[c]
         /\ table' = [table EXCEPT ![reqId[c]] = Discard]
         /\ giveBack' = giveBack \cup {c}
      \/ table[reqId[c]] # waiter[c] /\ UNCHANGED <<table, giveBack>>
  BY DEF IInv, TypeOK, Unregister, Tombstone
<1>e. /\ \A i \in Ids : i # reqId[c] => table'[i] = table[i]
      /\ table'[reqId[c]] \in {table[reqId[c]], Discard}
      /\ table'[reqId[c]] = Discard => table[reqId[c]] # None
      /\ \A i \in Ids : table'[i] # waiter[c]
      /\ giveBack \subseteq giveBack' /\ giveBack' \subseteq giveBack \cup {c}
      /\ c \in giveBack' => delivering.to # waiter[c]
  <2>1. c \in giveBack => delivering.to # waiter[c]
    BY DEF IInv, Returnable
  <2>2. table[reqId[c]] = waiter[c] => delivering.to # waiter[c]
    BY <1>a DEF IInv, TableOK
  <2> QED
    BY <1>a, <1>b, <1>d, <2>1, <2>2, RequestsAssumption DEF IInv, TypeOK
<1>1. TypeOK'
  <2>1. table' \in [Ids -> Waiters \cup {None, Discard}]
    BY <1>a, RequestsAssumption DEF IInv, TypeOK, Unregister, Tombstone
  <2>2. giveBack' \subseteq Callers
    BY SMTT(20), Z3T(20), RequestsAssumption DEF IInv, TypeOK, Unregister, Tombstone
  <2>3. pc' \in [Callers -> Pcs]
    BY RequestsAssumption DEF IInv, TypeOK, Pcs, Slotted, Queueing, Unregister,
       Tombstone
  <2> QED
    BY SMTT(20), Z3T(20), <2>1, <2>2, <2>3 DEF IInv, TypeOK, Unregister, Tombstone
<1>2. Locals'
  BY SMTT(20), Z3T(20), <1>a, <1>c, <1>e DEF IInv, Locals, Before
<1>3. Wired'
  BY <1>c DEF IInv, Wired
<1>4. TableOK'
  <2> SUFFICES ASSUME NEW i \in Ids
               PROVE  /\ table'[i] # None => i <= nextId
                      /\ table'[i] \in Waiters =>
                            /\ table'[i] \notin ready
                            /\ table'[i] # delivering.to
                            /\ \E d \in Callers : /\ reqId[d] = i
                                                  /\ waiter[d] = table'[i]
                                                  /\ pc'[d] \in InTable
    BY <1>c DEF TableOK
  <2>1. table'[i] # None => table[i] # None
    BY <1>e
  <2>2. ASSUME table'[i] \in Waiters
        PROVE  /\ table'[i] = table[i]
               /\ \E d \in Callers : /\ reqId[d] = i /\ waiter[d] = table[i]
                                     /\ pc'[d] \in InTable
    <3>1. table'[i] = table[i]
      BY <1>e, <2>2, RequestsAssumption
    <3>2. PICK d \in Callers :
            reqId[d] = i /\ waiter[d] = table[i] /\ pc[d] \in InTable
      BY <2>2, <3>1 DEF IInv, TableOK
    <3> QED
      BY <1>c, <1>e, <3>1, <3>2
  <2> QED
    BY <2>1, <2>2 DEF IInv, TableOK
<1>5. DeliveringOK'
  <2>1. \A d \in Callers : pc[d] \in Registered => pc'[d] \in Registered
    BY <1>c DEF Registered, InTable
  <2> QED
    BY <1>c, <2>1 DEF IInv, DeliveringOK
<1>6. Returnable'
  <2>1. \A w \in pool, i \in Ids : table'[i] # w
    BY SMTT(20), Z3T(20), <1>e, RequestsAssumption DEF IInv, TypeOK, Returnable
  <2>2. ASSUME NEW d \in Callers, d \in giveBack'
        PROVE  delivering.to # waiter[d] /\ \A i \in Ids : table'[i] # waiter[d]
    <3>1. CASE d = c
      BY <1>e, <2>2, <3>1
    <3>2. CASE d # c
      <4>1. d \in giveBack /\ waiter[d] # Discard
        BY <1>e, <2>2, <3>2, RequestsAssumption DEF IInv, TypeOK
      <4> QED
        BY <1>e, <4>1 DEF IInv, Returnable
    <3> QED
      BY <3>1, <3>2
  <2> QED
    BY <1>c, <2>1, <2>2 DEF IInv, Returnable
<1>7. Accounted'
  <2>1. dpc \in {"finishing", "exited"} => \A i \in Ids : table'[i] = None
    BY <1>a, <1>e DEF IInv, Accounted
  <2>2. ASSUME NEW d \in Callers, d # c,
               pc[d] \in {"write", "await"}, kind[d] = "request"
        PROVE  table'[reqId[d]] = table[reqId[d]]
    <3>1. reqId[d] \in Ids
      BY SMTT(20), Z3T(20), <2>2 DEF IInv, TypeOK, Locals, Ids
    <3> QED
      BY <1>a, <1>e, <2>2, <3>1
  <2> QED
    BY <1>c, <2>1, <2>2 DEF IInv, Accounted
<1>8. AnswerExpected'
  BY <1>a, <1>c, <1>e, RequestsAssumption DEF IInv, AnswerExpected
<1>9. (Exclusive /\ Signals /\ OwnResponse)'
  BY Frame DEF IInv, Unregister, Tombstone
<1> QED
  BY <1>1, <1>2, <1>3, <1>4, <1>5, <1>6, <1>7, <1>8, <1>9 DEF IInv
=============================================================================
