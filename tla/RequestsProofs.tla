--------------------------- MODULE RequestsProofs ---------------------------
(***************************************************************************)
(* Theorems about Requests for every value of its constants: the end of a  *)
(* call, the broker, the dispatch loop, cancelling and closing preserve    *)
(* IInv too, so IInv is inductive; the properties of the runs follow from  *)
(* it, and so does that the connection implements RequestReply.            *)
(***************************************************************************)
EXTENDS RequestsCallProofs, FiniteSetTheorems, TLAPS

USE ZenonT(60) DEF callVars, muxVars, admitVars, loopVars, serverVars

-----------------------------------------------------------------------------
(* The end of a call, the broker and the dispatch loop                     *)

LEMMA ReleaseKeeps ==
    ASSUME IInv, NEW c \in Callers, Release(c)
    PROVE  IInv'
<1>a. /\ pc[c] = "release" /\ pc'[c] = "idle"
      /\ waiter'[c] = None /\ reqId'[c] = 0 /\ result'[c] = "none"
      /\ got'[c] = 0 /\ kind'[c] = "request" /\ giveBack' = giveBack \ {c}
      /\ \A d \in Callers : d # c =>
            /\ pc'[d] = pc[d] /\ waiter'[d] = waiter[d] /\ reqId'[d] = reqId[d]
            /\ result'[d] = result[d] /\ got'[d] = got[d] /\ kind'[d] = kind[d]
      /\ UNCHANGED <<nextId, table, muxClosed, dpc, delivering, answered, wire,
                     inbound>>
  BY DEF IInv, TypeOK, Release, Return
<1>b. \/ UNCHANGED <<pool, ready, resp, failed>>
      \/ /\ c \in giveBack
         /\ pool' = pool \cup {waiter[c]} /\ ready' = ready \ {waiter[c]}
         /\ resp' = [resp EXCEPT ![waiter[c]] = 0]
         /\ failed' = failed \ {waiter[c]}
  BY DEF Release, MayPool
<1>c. c \in giveBack =>
          /\ waiter[c] \in Waiters
          /\ delivering.to # waiter[c]
          /\ \A i \in Ids : table[i] # waiter[c]
          /\ \A d \in Callers : d # c => waiter[d] # waiter[c]
  BY SMTT(20), Z3T(20) DEF IInv, TypeOK, Locals, Exclusive, Returnable
<1>d. /\ pool' \subseteq pool \cup {waiter[c]} /\ ready' \subseteq ready
      /\ waiter[c] \in pool' \ pool => c \in giveBack /\ waiter[c] \notin ready'
      /\ ready \ ready' \subseteq {waiter[c]}
      /\ ready # ready' => c \in giveBack
  BY <1>b
<1>e. \A d \in Callers : d # c /\ waiter[d] # None =>
          /\ waiter[d] \in ready' <=> waiter[d] \in ready
          /\ waiter[d] \in failed' <=> waiter[d] \in failed
          /\ resp'[waiter[d]] = resp[waiter[d]]
  BY <1>b, <1>c DEF IInv, TypeOK
<1>1. TypeOK'
  <2>1. pool' \subseteq Waiters
    BY <1>b, <1>c, RequestsAssumption DEF IInv, TypeOK, Release, Return,
       MayPool, ReleaseSlot
  <2>2. ready' \subseteq Waiters
    BY <1>b, RequestsAssumption DEF IInv, TypeOK, Release, Return, MayPool,
       ReleaseSlot
  <2>3. resp' \in [Waiters -> 0..MaxId]
    <3>1. 0 \in 0..MaxId
      BY SMTT(20), Z3T(20), RequestsAssumption
    <3> QED
      BY <1>b, <3>1 DEF IInv, TypeOK
  <2>4. failed' \subseteq Waiters
    BY <1>b, RequestsAssumption DEF IInv, TypeOK, Release, Return, MayPool,
       ReleaseSlot
  <2>5. sem' \in [Kinds -> Int]
    <3>1. sem \in [Kinds -> Int] /\ kind[c] \in Kinds
      BY DEF IInv, TypeOK
    <3> QED
      BY SMTT(20), Z3T(20), <3>1 DEF Release, ReleaseSlot
  <2>6. pc' \in [Callers -> Pcs]
    BY RequestsAssumption DEF IInv, TypeOK, Pcs, Slotted, Queueing, Release,
       Return, MayPool, ReleaseSlot
  <2>7. kind' \in [Callers -> Kinds]
    BY RequestsAssumption DEF IInv, TypeOK, Release, Return, MayPool,
       ReleaseSlot
  <2>8. reqId' \in [Callers -> 0..MaxId]
    <3>1. 0 \in 0..MaxId
      BY SMTT(20), Z3T(20), RequestsAssumption
    <3> QED
      BY <3>1 DEF IInv, TypeOK, Release, Return
  <2>9. waiter' \in [Callers -> Waiters \cup {None}]
    BY RequestsAssumption DEF IInv, TypeOK, Release, Return, MayPool,
       ReleaseSlot
  <2>10. giveBack' \subseteq Callers
    BY RequestsAssumption DEF IInv, TypeOK, Release, Return, MayPool,
       ReleaseSlot
  <2>11. ctxDone' \subseteq Callers
    BY RequestsAssumption DEF IInv, TypeOK, Release, Return, MayPool,
       ReleaseSlot
  <2>12. result' \in [Callers -> {"none", "failed", "sent", "response"}]
    BY RequestsAssumption DEF IInv, TypeOK, Release, Return, MayPool,
       ReleaseSlot
  <2>13. got' \in [Callers -> 0..MaxId]
    <3>1. 0 \in 0..MaxId
      BY SMTT(20), Z3T(20), RequestsAssumption
    <3> QED
      BY <3>1 DEF IInv, TypeOK, Release, Return
  <2> QED
    BY SMTT(20), Z3T(20), <2>1, <2>2, <2>3, <2>4, <2>5, <2>6, <2>7, <2>8, <2>9, <2>10, <2>11,
       <2>12, <2>13 DEF IInv, TypeOK, Release, Return, MayPool, ReleaseSlot
<1>2. Locals'
  <2>1. 0 <= nextId
    BY SMTT(20), Z3T(20), RequestsAssumption DEF IInv, TypeOK
  <2> QED
    BY SMTT(20), Z3T(20), <1>a, <2>1 DEF IInv, Locals, Before
<1>3. Exclusive'
  <2>1. \A d \in Callers : d # c /\ waiter[d] # None => reqId[d] # 0
    BY DEF IInv, Locals
  <2> QED
    BY SMTT(20), Z3T(20), <1>a, <2>1 DEF IInv, Exclusive
<1>4. Wired'
  BY <1>a DEF IInv, Wired
<1>5. TableOK'
  <2>1. ASSUME NEW i \in Ids, table[i] \in Waiters
        PROVE  \E d \in Callers : /\ reqId'[d] = i /\ waiter'[d] = table[i]
                                  /\ pc'[d] \in InTable
    <3>1. PICK d \in Callers :
            reqId[d] = i /\ waiter[d] = table[i] /\ pc[d] \in InTable
      BY <2>1 DEF IInv, TableOK
    <3>2. d # c
      BY <1>a, <3>1 DEF InTable
    <3> QED
      BY <1>a, <3>1, <3>2
  <2> QED
    BY <1>a, <1>d, <2>1 DEF IInv, TableOK
<1>6. DeliveringOK'
  <2>1. dpc = "delivering" => delivering.to # None
    BY RequestsAssumption DEF IInv, TypeOK, DeliveringOK
  <2> QED
    BY <1>a, <1>d, <2>1 DEF IInv, DeliveringOK
<1>7. Signals'
  BY SMTT(20), Z3T(20), <1>a, <1>e DEF IInv, Signals
<1>8. Returnable'
  <2>1. \A d \in Callers : d \in giveBack' => d # c /\ d \in giveBack
    BY <1>a
  <2>2. ASSUME NEW w \in pool'
        PROVE  /\ w \notin ready' /\ delivering.to # w
               /\ \A i \in Ids : table[i] # w
               /\ \A d \in Callers : waiter'[d] # w
    <3>1. CASE w \in pool
      <4>1. w # None
        BY <3>1, RequestsAssumption DEF IInv, TypeOK
      <4> QED
        BY SMTT(20), Z3T(20), <1>a, <1>d, <3>1, <4>1 DEF IInv, Returnable
    <3>2. CASE w \notin pool
      <4>1. w = waiter[c] /\ c \in giveBack /\ w \notin ready'
        BY <1>d, <2>2, <3>2
      <4> QED
        BY SMTT(20), Z3T(20), <1>a, <1>c, <4>1, RequestsAssumption
    <3> QED
      BY <3>1, <3>2
  <2> QED
    BY SMTT(20), Z3T(20), <1>a, <2>1, <2>2 DEF IInv, Returnable
<1>9. Accounted'
  <2>1. None \notin ready'
    BY <1>d, RequestsAssumption DEF IInv, TypeOK
  <2>2. \A d \in Callers : d # c /\ pc[d] \in {"write", "await"}
                                /\ kind[d] = "request" => waiter[d] # None
    BY DEF IInv, Locals
  <2> QED
    BY SMTT(20), Z3T(20), <1>a, <1>d, <1>e, <2>1, <2>2 DEF IInv, Accounted
<1>10. OwnResponse'
  BY <1>a DEF IInv, OwnResponse
<1>11. (AnswerExpected)'
  BY Frame DEF IInv, Release, Return, MayPool, ReleaseSlot
<1> QED
  BY <1>1, <1>2, <1>3, <1>4, <1>5, <1>6, <1>7, <1>8, <1>9, <1>10, <1>11 DEF
     IInv

LEMMA AnswerKeeps ==
    ASSUME IInv, NEW i \in Ids, Answer(i)
    PROVE  IInv'
<1>1. TypeOK'
  <2>1. wire' \subseteq Ids
    BY RequestsAssumption DEF IInv, TypeOK, Ids, Answer
  <2>2. answered' \subseteq Ids
    BY RequestsAssumption DEF IInv, TypeOK, Ids, Answer
  <2>3. inbound' \subseteq Ids
    BY RequestsAssumption DEF IInv, TypeOK, Ids, Answer
  <2> QED
    BY SMTT(20), Z3T(20), <2>1, <2>2, <2>3 DEF IInv, TypeOK, Answer
<1>2. Wired'
  <2>1. /\ wire' \cup answered' = wire \cup answered
        /\ UNCHANGED <<pc, reqId, nextId>>
    BY DEF Answer
  <2>2. inbound' \subseteq answered' /\ wire' \cap answered' = {}
    BY DEF IInv, Wired, Answer
  <2> QED
    BY <2>1, <2>2 DEF IInv, Wired
<1>3. DeliveringOK'
  BY RequestsAssumption DEF IInv, DeliveringOK, TypeOK, Locals, Registered,
     InTable, Before, NoDelivery, Answer
<1>4. Signals'
  BY RequestsAssumption DEF IInv, Signals, TypeOK, Locals, Answer
<1>5. OwnResponse'
  BY RequestsAssumption DEF IInv, OwnResponse, TypeOK, Locals, Answer
<1>6. AnswerExpected'
  BY RequestsAssumption DEF IInv, AnswerExpected, TypeOK, Locals, Answer
<1>7. (Locals /\ Exclusive /\ TableOK /\ Returnable /\ Accounted)'
  BY Frame DEF IInv, Answer
<1> QED
  BY <1>1, <1>2, <1>3, <1>4, <1>5, <1>6, <1>7 DEF IInv

LEMMA ReceiveKeeps ==
    ASSUME IInv, NEW i \in Ids, NEW final \in BOOLEAN, Receive(i, final)
    PROVE  IInv'
<1>a. /\ dpc = "reading" /\ delivering = NoDelivery /\ i \in wire \cup answered
      /\ inbound' \subseteq inbound
      /\ final => i \notin wire \cup inbound'
      /\ final => i \in answered
      /\ UNCHANGED <<pc, kind, reqId, waiter, giveBack, nextId, muxClosed, pool,
                     ready, resp, failed, wire, answered>>
  BY DEF IInv, Wired, DeliveringOK, Receive
<1>b. delivering.to = None
  BY <1>a DEF NoDelivery
<1>c. \/ dpc' = "exiting" /\ UNCHANGED <<table, delivering>>
      \/ UNCHANGED <<dpc, table, delivering>>
      \/ /\ final /\ table[i] = Discard /\ UNCHANGED <<dpc, delivering>>
         /\ table' = [table EXCEPT ![i] = None]
      \/ /\ final /\ table[i] \in Waiters /\ dpc' = "delivering"
         /\ delivering' = [id |-> i, to |-> table[i]]
         /\ table' = [table EXCEPT ![i] = None]
  BY DEF IInv, TypeOK, Receive
<1>d. /\ \A j \in Ids : table'[j] \in {table[j], None}
      /\ \A j \in Ids : j # i => table'[j] = table[j]
      /\ \A j \in Ids : table'[j] # table[j] => final /\ j = i
  BY <1>c DEF IInv, TypeOK
<1>e. \/ /\ dpc' \in {"reading", "exiting"} /\ delivering' = NoDelivery
         /\ delivering'.to = None
         /\ table'[i] = table[i] \/ table[i] = Discard
      \/ /\ dpc' = "delivering" /\ delivering'.to = table[i]
         /\ delivering'.id = i /\ delivering' # NoDelivery
         /\ table[i] \in Waiters /\ table'[i] = None /\ final
  BY SMTT(20), Z3T(20), <1>a, <1>b, <1>c, RequestsAssumption DEF IInv, TypeOK, NoDelivery
<1>f. \A j \in Ids : j # i /\ table[j] \in Waiters => table[j] # table[i]
  <2> SUFFICES ASSUME NEW j \in Ids, table[j] \in Waiters, table[j] = table[i]
               PROVE  j = i
    OBVIOUS
  <2>1. PICK c \in Callers : reqId[c] = j /\ waiter[c] = table[j]
    BY DEF IInv, TableOK
  <2>2. PICK d \in Callers : reqId[d] = i /\ waiter[d] = table[i]
    BY DEF IInv, TableOK
  <2> QED
    BY <2>1, <2>2, RequestsAssumption DEF IInv, Exclusive
<1>1. TypeOK'
  <2>1. inbound' \subseteq Ids
    BY <1>a, RequestsAssumption DEF IInv, TypeOK, Ids, Receive
  <2>2. dpc' \in {"reading", "delivering", "exiting", "failing", "finishing", "exited"}
    BY RequestsAssumption DEF IInv, TypeOK, Receive
  <2>3. table' \in [Ids -> Waiters \cup {None, Discard}]
    BY RequestsAssumption DEF IInv, TypeOK, Receive
  <2>4. delivering' \in [id : Ids, to : Waiters] \cup {NoDelivery}
    BY SMTT(20), Z3T(20), <1>c, RequestsAssumption DEF IInv, TypeOK, Ids, NoDelivery, Receive
  <2> QED
    BY <2>1, <2>2, <2>3, <2>4 DEF IInv, TypeOK, Receive
<1>2. Wired'
  BY <1>a DEF IInv, Wired
<1>3. TableOK'
  <2> SUFFICES ASSUME NEW j \in Ids
               PROVE  /\ table'[j] # None => j <= nextId
                      /\ table'[j] \in Waiters =>
                            /\ table'[j] \notin ready
                            /\ table'[j] # delivering'.to
                            /\ \E d \in Callers : /\ reqId[d] = j
                                                  /\ waiter[d] = table'[j]
                                                  /\ pc[d] \in InTable
    BY <1>a DEF TableOK
  <2>1. table'[j] # None => table'[j] = table[j]
    BY <1>d
  <2>2. table'[j] \in Waiters => table'[j] = table[j]
    BY <2>1, RequestsAssumption
  <2>3. table'[j] \in Waiters => table'[j] # delivering'.to
    BY <1>e, <1>f, <2>2, RequestsAssumption
  <2> QED
    BY <2>1, <2>2, <2>3 DEF IInv, TableOK
<1>4. DeliveringOK'
  <2>1. ASSUME NEW c \in Callers, waiter[c] = table[i], table[i] \in Waiters
        PROVE  reqId[c] = i /\ pc[c] \in Registered
    <3>1. PICK d \in Callers :
            reqId[d] = i /\ waiter[d] = table[i] /\ pc[d] \in InTable
      BY <2>1 DEF IInv, TableOK
    <3>2. d = c
      BY <2>1, <3>1, RequestsAssumption DEF IInv, Exclusive
    <3> QED
      BY <3>1, <3>2 DEF Registered
  <2>2. table[i] \in Waiters => table[i] \notin ready
    BY DEF IInv, TableOK
  <2>3. CASE dpc' \in {"reading", "exiting"} /\ delivering' = NoDelivery
    BY <2>3 DEF DeliveringOK
  <2>4. CASE /\ dpc' = "delivering" /\ delivering'.to = table[i]
             /\ delivering'.id = i /\ delivering' # NoDelivery
             /\ table[i] \in Waiters /\ final
    BY <1>a, <2>1, <2>2, <2>4 DEF DeliveringOK
  <2> QED
    BY <1>e, <2>3, <2>4
<1>5. Returnable'
  <2>1. ASSUME NEW w \in Waiters, \A j \in Ids : table[j] # w
        PROVE  delivering'.to # w /\ \A j \in Ids : table'[j] # w
    BY <1>d, <1>e, <2>1, RequestsAssumption
  <2>2. pool \subseteq Waiters
        /\ \A c \in Callers : c \in giveBack => waiter[c] \in Waiters
    BY DEF IInv, TypeOK, Locals
  <2> QED
    BY <1>a, <2>1, <2>2 DEF IInv, Returnable
<1>6. Accounted'
  <2>1. ~muxClosed /\ dpc' \notin {"failing", "finishing", "exited"}
    BY <1>a, <1>e DEF IInv, Accounted
  <2>2. ASSUME NEW c \in Callers, pc[c] \in {"write", "await"},
               kind[c] = "request"
        PROVE  /\ waiter[c] \in Waiters /\ reqId[c] \in Ids
               /\ pc[c] = "write" => reqId[c] # i
    <3>1. reqId[c] \in Ids /\ waiter[c] \in Waiters
      BY SMTT(20), Z3T(20), <2>2 DEF IInv, TypeOK, Locals, Ids
    <3>2. pc[c] = "write" => reqId[c] # i
      BY <1>a DEF IInv, Wired
    <3> QED
      BY <3>1, <3>2
  <2>3. ASSUME NEW c \in Callers, pc[c] \in {"write", "await"},
               kind[c] = "request"
        PROVE  \/ table'[reqId[c]] = waiter[c]
               \/ delivering'.to = waiter[c]
               \/ waiter[c] \in ready
    <3>1. table[reqId[c]] = waiter[c] \/ waiter[c] \in ready
      BY <1>b, <2>2, <2>3, RequestsAssumption DEF IInv, Accounted
    <3> QED
      BY <1>d, <1>e, <2>2, <2>3, <3>1, RequestsAssumption
  <2>4. ASSUME NEW c \in Callers, pc[c] = "write", kind[c] = "request"
        PROVE  table'[reqId[c]] = waiter[c]
    BY <1>d, <2>1, <2>2, <2>4 DEF IInv, Accounted
  <2>5. \A c \in Callers : pc[c] = "lock" => waiter[c] \notin ready
    BY DEF IInv, Accounted
  <2> QED
    BY <1>a, <2>1, <2>3, <2>4, <2>5 DEF Accounted
<1>7. AnswerExpected'
  BY <1>a, <1>d DEF IInv, AnswerExpected
<1>8. (Locals /\ Exclusive /\ Signals /\ OwnResponse)'
  BY Frame DEF IInv, Receive
<1> QED
  BY <1>1, <1>2, <1>3, <1>4, <1>5, <1>6, <1>7, <1>8 DEF IInv

LEMMA DeliverKeeps ==
    ASSUME IInv, Deliver
    PROVE  IInv'
<1>a. /\ dpc = "delivering" /\ delivering.to \in Waiters /\ delivering.id \in Ids
      /\ delivering.id \in answered
      /\ \A c \in Callers : waiter[c] = delivering.to =>
            reqId[c] = delivering.id /\ pc[c] \in Registered
  <2>1. dpc = "delivering" /\ delivering # NoDelivery
    BY DEF IInv, DeliveringOK, Deliver
  <2>2. delivering \in [id : Ids, to : Waiters]
    BY <2>1 DEF IInv, TypeOK
  <2> QED
    BY <2>1, <2>2 DEF IInv, DeliveringOK
<1>b. /\ resp' = [resp EXCEPT ![delivering.to] = delivering.id]
      /\ ready' = ready \cup {delivering.to}
      /\ delivering' = NoDelivery /\ delivering'.to = None /\ dpc' = "reading"
      /\ UNCHANGED <<pc, kind, reqId, waiter, giveBack, nextId, table, muxClosed,
                     pool, failed, wire, answered, inbound>>
  BY DEF Deliver, NoDelivery
<1>1. TypeOK'
  <2>1. resp' \in [Waiters -> 0..MaxId]
    <3>1. delivering.id \in 0..MaxId
      BY SMTT(20), Z3T(20), <1>a DEF Ids
    <3> QED
      BY <1>a, <1>b, <3>1 DEF IInv, TypeOK
  <2>2. ready' \subseteq Waiters
    BY <1>a, RequestsAssumption DEF IInv, TypeOK, Deliver
  <2>3. delivering' \in [id : Ids, to : Waiters] \cup {NoDelivery}
    BY RequestsAssumption DEF IInv, TypeOK, Ids, NoDelivery, Deliver
  <2>4. dpc' \in {"reading", "delivering", "exiting", "failing", "finishing", "exited"}
    BY RequestsAssumption DEF IInv, TypeOK, Deliver
  <2> QED
    BY <2>1, <2>2, <2>3, <2>4 DEF IInv, TypeOK, Deliver
<1>2. TableOK'
  BY <1>a, <1>b, RequestsAssumption DEF IInv, TableOK
<1>3. DeliveringOK'
  BY <1>b DEF DeliveringOK
<1>4. Signals'
  <2> SUFFICES ASSUME NEW c \in Callers, waiter[c] # None,
                      waiter[c] \in ready', waiter[c] \notin failed
               PROVE  /\ resp'[waiter[c]] = reqId[c]
                      /\ resp'[waiter[c]] \in answered
    BY SMTT(20), Z3T(20), <1>b DEF Signals
  <2>1. CASE waiter[c] = delivering.to
    BY <1>a, <1>b, <2>1 DEF IInv, TypeOK
  <2>2. CASE waiter[c] # delivering.to
    <3>1. waiter[c] \in ready /\ resp'[waiter[c]] = resp[waiter[c]]
      BY <1>b, <2>2 DEF IInv, TypeOK
    <3> QED
      BY <3>1 DEF IInv, Signals
  <2> QED
    BY <2>1, <2>2
<1>5. Returnable'
  <2>1. None \notin pool /\ \A c \in Callers : c \in giveBack => waiter[c] # None
    BY RequestsAssumption DEF IInv, TypeOK, Locals
  <2> QED
    BY <1>b, <2>1 DEF IInv, Returnable
<1>6. Accounted'
  <2>1. \A c \in Callers : pc[c] = "lock" => waiter[c] # delivering.to
    BY <1>a DEF Registered, InTable
  <2> QED
    BY <1>a, <1>b, <2>1 DEF IInv, Accounted
<1>7. (Locals /\ Exclusive /\ Wired /\ OwnResponse /\ AnswerExpected)'
  BY Frame DEF IInv, Deliver
<1> QED
  BY <1>1, <1>2, <1>3, <1>4, <1>5, <1>6, <1>7 DEF IInv

LEMMA ReadFailsKeeps ==
    ASSUME IInv, ReadFails
    PROVE  IInv'
<1>1. TypeOK'
  <2>1. dpc' \in {"reading", "delivering", "exiting", "failing", "finishing", "exited"}
    BY RequestsAssumption DEF IInv, TypeOK, ReadFails
  <2> QED
    BY <2>1 DEF IInv, TypeOK, ReadFails
<1>2. DeliveringOK'
  BY RequestsAssumption DEF IInv, DeliveringOK, TypeOK, Locals, Registered,
     InTable, Before, NoDelivery, ReadFails
<1>3. Accounted'
  BY RequestsAssumption DEF IInv, Accounted, TypeOK, Locals, Before, ReadFails
<1>4. (Locals /\ Exclusive /\ Wired /\ TableOK /\ Signals
        /\ Returnable /\ OwnResponse /\ AnswerExpected)'
  BY Frame DEF IInv, ReadFails
<1> QED
  BY <1>1, <1>2, <1>3, <1>4 DEF IInv

LEMMA CloseMuxKeeps ==
    ASSUME IInv, CloseMux
    PROVE  IInv'
<1>1. TypeOK'
  <2>1. muxClosed' \in BOOLEAN
    BY RequestsAssumption DEF IInv, TypeOK, CloseMux
  <2>2. dpc' \in {"reading", "delivering", "exiting", "failing", "finishing", "exited"}
    BY RequestsAssumption DEF IInv, TypeOK, CloseMux
  <2> QED
    BY <2>1, <2>2 DEF IInv, TypeOK, CloseMux
<1>2. DeliveringOK'
  BY RequestsAssumption DEF IInv, DeliveringOK, TypeOK, Locals, Registered,
     InTable, Before, NoDelivery, CloseMux
<1>3. Accounted'
  BY RequestsAssumption DEF IInv, Accounted, TypeOK, Locals, Before, CloseMux
<1>4. AnswerExpected'
  BY RequestsAssumption DEF IInv, AnswerExpected, TypeOK, Locals, CloseMux
<1>5. (Locals /\ Exclusive /\ Wired /\ TableOK
        /\ Signals /\ Returnable /\ OwnResponse)'
  BY Frame DEF IInv, CloseMux
<1> QED
  BY <1>1, <1>2, <1>3, <1>4, <1>5 DEF IInv

LEMMA FailPendingKeeps ==
    ASSUME IInv, FailPending
    PROVE  IInv'
<1> DEFINE pending == {table[i] : i \in Ids} \cap Waiters
<1>a. /\ dpc = "failing" /\ dpc' = "finishing"
      /\ ready' = ready \cup pending /\ failed' = failed \cup pending
      /\ table' = [i \in Ids |-> None]
      /\ UNCHANGED <<pc, kind, reqId, waiter, giveBack, nextId, muxClosed, pool,
                     resp, delivering, wire, answered, inbound>>
  BY DEF FailPending
<1>b. /\ muxClosed /\ delivering = NoDelivery /\ delivering.to = None
      /\ \A i \in Ids : table'[i] = None
  BY SMTT(20), Z3T(20), <1>a DEF IInv, Accounted, DeliveringOK, NoDelivery
<1>c. /\ pending \subseteq Waiters
      /\ \A w \in pending : \E i \in Ids : table[i] = w
      /\ \A i \in Ids : table[i] \in Waiters => table[i] \in pending
  OBVIOUS
<1> HIDE DEF pending
<1>1. TypeOK'
  <2>1. ready' \subseteq Waiters
    BY <1>a, <1>c, RequestsAssumption DEF IInv, TypeOK, FailPending
  <2>2. failed' \subseteq Waiters
    BY <1>a, <1>c, RequestsAssumption DEF IInv, TypeOK, FailPending
  <2>3. table' \in [Ids -> Waiters \cup {None, Discard}]
    BY RequestsAssumption DEF IInv, TypeOK, FailPending
  <2>4. dpc' \in {"reading", "delivering", "exiting", "failing", "finishing", "exited"}
    BY RequestsAssumption DEF IInv, TypeOK, FailPending
  <2> QED
    BY <2>1, <2>2, <2>3, <2>4 DEF IInv, TypeOK, FailPending
<1>2. TableOK'
  BY <1>b, RequestsAssumption DEF TableOK
<1>3. DeliveringOK'
  BY <1>a, <1>b DEF DeliveringOK
<1>4. Signals'
  BY <1>a DEF IInv, Signals
<1>5. Returnable'
  <2>1. \A w \in pool : w \notin pending /\ w # None
    BY SMTT(20), Z3T(20), <1>c, RequestsAssumption DEF IInv, TypeOK, Returnable
  <2>2. \A c \in Callers : c \in giveBack => waiter[c] # None
    BY DEF IInv, Locals
  <2> QED
    BY <1>a, <1>b, <2>1, <2>2 DEF IInv, Returnable
<1>6. Accounted'
  <2>1. ASSUME NEW c \in Callers, pc[c] \in {"write", "await"},
               kind[c] = "request"
        PROVE  waiter[c] \in ready'
    <3>1. waiter[c] \in Waiters /\ waiter[c] # None /\ reqId[c] \in Ids
      BY SMTT(20), Z3T(20), <2>1, RequestsAssumption DEF IInv, TypeOK, Locals, Ids
    <3>2. table[reqId[c]] = waiter[c] \/ waiter[c] \in ready
      BY <1>b, <2>1, <3>1 DEF IInv, Accounted
    <3> QED
      BY <1>a, <1>c, <3>1, <3>2
  <2>2. ASSUME NEW c \in Callers, pc[c] = "lock"
        PROVE  waiter[c] \notin ready'
    <3>1. ASSUME waiter[c] \in pending PROVE FALSE
      <4>1. PICK i \in Ids : table[i] = waiter[c] /\ table[i] \in Waiters
        BY <1>c, <3>1
      <4>2. PICK d \in Callers : waiter[d] = table[i] /\ pc[d] \in InTable
        BY <4>1 DEF IInv, TableOK
      <4>3. d = c
        BY <4>1, <4>2, RequestsAssumption DEF IInv, Exclusive
      <4> QED
        BY <2>2, <4>2, <4>3 DEF InTable
    <3> QED
      BY <1>a, <2>2, <3>1 DEF IInv, Accounted
  <2> QED
    BY <1>a, <1>b, <2>1, <2>2 DEF Accounted
<1>7. AnswerExpected'
  BY <1>a, <1>b DEF AnswerExpected
<1>8. (Locals /\ Exclusive /\ Wired /\ OwnResponse)'
  BY Frame DEF IInv, FailPending
<1> QED
  BY <1>1, <1>2, <1>3, <1>4, <1>5, <1>6, <1>7, <1>8 DEF IInv

LEMMA ExitLoopKeeps ==
    ASSUME IInv, ExitLoop
    PROVE  IInv'
<1>1. TypeOK'
  <2>1. lifeDone' \in BOOLEAN
    BY RequestsAssumption DEF IInv, TypeOK, ExitLoop
  <2>2. dpc' \in {"reading", "delivering", "exiting", "failing", "finishing", "exited"}
    BY RequestsAssumption DEF IInv, TypeOK, ExitLoop
  <2> QED
    BY <2>1, <2>2 DEF IInv, TypeOK, ExitLoop
<1>2. DeliveringOK'
  BY RequestsAssumption DEF IInv, DeliveringOK, TypeOK, Locals, Registered,
     InTable, Before, NoDelivery, ExitLoop
<1>3. Accounted'
  BY RequestsAssumption DEF IInv, Accounted, TypeOK, Locals, Before, ExitLoop
<1>4. (Locals /\ Exclusive /\ Wired /\ TableOK /\ Signals
        /\ Returnable /\ OwnResponse /\ AnswerExpected)'
  BY Frame DEF IInv, ExitLoop
<1> QED
  BY <1>1, <1>2, <1>3, <1>4 DEF IInv

-----------------------------------------------------------------------------
(* Cancelling and closing                                                  *)

LEMMA CancelKeeps ==
    ASSUME IInv, NEW c \in Callers, Cancel(c)
    PROVE  IInv'
<1>1. TypeOK'
  <2>1. ctxDone' \subseteq Callers
    BY RequestsAssumption DEF IInv, TypeOK, Cancel
  <2> QED
    BY SMTT(20), Z3T(20), <2>1 DEF IInv, TypeOK, Cancel
<1>2. (Locals /\ Exclusive /\ Wired /\ TableOK /\ DeliveringOK /\ Signals
        /\ Returnable /\ Accounted /\ OwnResponse /\ AnswerExpected)'
  BY Frame DEF IInv, Cancel
<1> QED
  BY <1>1, <1>2 DEF IInv

LEMMA CloseKeeps ==
    ASSUME IInv, Close
    PROVE  IInv'
<1>1. TypeOK'
  <2>1. closer' \in {"idle", "waiting", "returned"}
    BY RequestsAssumption DEF IInv, TypeOK, Close
  <2>2. lifeDone' \in BOOLEAN
    BY RequestsAssumption DEF IInv, TypeOK, Close
  <2>3. closing' \in BOOLEAN
    BY RequestsAssumption DEF IInv, TypeOK, Close
  <2> QED
    BY <2>1, <2>2, <2>3 DEF IInv, TypeOK, Close
<1>2. (Locals /\ Exclusive /\ Wired /\ TableOK /\ DeliveringOK /\ Signals
        /\ Returnable /\ Accounted /\ OwnResponse /\ AnswerExpected)'
  BY Frame DEF IInv, Close
<1> QED
  BY <1>1, <1>2 DEF IInv

LEMMA CloseTransportKeeps ==
    ASSUME IInv, CloseTransport
    PROVE  IInv'
<1>1. TypeOK'
  <2>1. closing' \in BOOLEAN
    BY RequestsAssumption DEF IInv, TypeOK, CloseTransport
  <2>2. transportOpen' \in BOOLEAN
    BY RequestsAssumption DEF IInv, TypeOK, CloseTransport
  <2> QED
    BY <2>1, <2>2 DEF IInv, TypeOK, CloseTransport
<1>2. (Locals /\ Exclusive /\ Wired /\ TableOK /\ DeliveringOK /\ Signals
        /\ Returnable /\ Accounted /\ OwnResponse /\ AnswerExpected)'
  BY Frame DEF IInv, CloseTransport
<1> QED
  BY <1>1, <1>2 DEF IInv

LEMMA CloseReturnsKeeps ==
    ASSUME IInv, CloseReturns
    PROVE  IInv'
<1>1. TypeOK'
  <2>1. closer' \in {"idle", "waiting", "returned"}
    BY RequestsAssumption DEF IInv, TypeOK, CloseReturns
  <2> QED
    BY <2>1 DEF IInv, TypeOK, CloseReturns
<1>2. (Locals /\ Exclusive /\ Wired /\ TableOK /\ DeliveringOK /\ Signals
        /\ Returnable /\ Accounted /\ OwnResponse /\ AnswerExpected)'
  BY Frame DEF IInv, CloseReturns
<1> QED
  BY <1>1, <1>2 DEF IInv

LEMMA HeartbeatFailsKeeps ==
    ASSUME IInv, HeartbeatFails
    PROVE  IInv'
<1>1. TypeOK'
  <2>1. lifeDone' \in BOOLEAN
    BY RequestsAssumption DEF IInv, TypeOK, HeartbeatFails
  <2>2. closing' \in BOOLEAN
    BY RequestsAssumption DEF IInv, TypeOK, HeartbeatFails
  <2> QED
    BY <2>1, <2>2 DEF IInv, TypeOK, HeartbeatFails
<1>2. (Locals /\ Exclusive /\ Wired /\ TableOK /\ DeliveringOK /\ Signals
        /\ Returnable /\ Accounted /\ OwnResponse /\ AnswerExpected)'
  BY Frame DEF IInv, HeartbeatFails
<1> QED
  BY <1>1, <1>2 DEF IInv

-----------------------------------------------------------------------------
(* IInv is inductive.                                                      *)

LEMMA InitEstablishes == Init => IInv
<1> SUFFICES ASSUME Init PROVE IInv
  OBVIOUS
<1>0. 0 \in 0..MaxId /\ 0 \in 0..MaxCalls /\ 0 \in Int
  BY SMTT(20), Z3T(20), RequestsAssumption
<1>1. TypeOK
  <2>1. /\ pc \in [Callers -> Pcs] /\ kind \in [Callers -> Kinds]
        /\ reqId \in [Callers -> 0..MaxId]
        /\ waiter \in [Callers -> Waiters \cup {None}]
        /\ result \in [Callers -> {"none", "failed", "sent", "response"}]
        /\ got \in [Callers -> 0..MaxId]
    BY <1>0, RequestsAssumption DEF Init, Pcs
  <2>2. /\ sem \in [Kinds -> Int] /\ queued \in [Kinds -> Int]
        /\ table \in [Ids -> Waiters \cup {None, Discard}]
        /\ resp \in [Waiters -> 0..MaxId]
    BY <1>0 DEF Init
  <2>3. /\ giveBack \subseteq Callers /\ ctxDone \subseteq Callers
        /\ pool \subseteq Waiters /\ ready \subseteq Waiters
        /\ failed \subseteq Waiters /\ wire \subseteq Ids
        /\ answered \subseteq Ids /\ inbound \subseteq Ids
    BY DEF Init
  <2>4. /\ calls \in 0..MaxCalls /\ nextId \in 0..MaxId
        /\ writer \in Callers \cup {None}
        /\ delivering \in [id : Ids, to : Waiters] \cup {NoDelivery}
    BY <1>0 DEF Init
  <2>5. /\ muxClosed \in BOOLEAN /\ closing \in BOOLEAN /\ lifeDone \in BOOLEAN
        /\ transportOpen \in BOOLEAN /\ closer \in {"idle", "waiting", "returned"}
        /\ dpc \in {"reading", "delivering", "exiting", "failing", "finishing",
                    "exited"}
    BY Zenon DEF Init
  <2> QED
    BY <2>1, <2>2, <2>3, <2>4, <2>5 DEF TypeOK
<1>2. Locals /\ Exclusive
  BY SMTT(20), Z3T(20) DEF Init, Locals, Exclusive, Before
<1>3. Wired
  BY DEF Init, Wired
<1>4. TableOK /\ DeliveringOK /\ Signals
  BY RequestsAssumption DEF Init, TableOK, DeliveringOK, Signals, NoDelivery
<1>5. Returnable /\ Accounted /\ OwnResponse /\ AnswerExpected
  BY DEF Init, Returnable, Accounted, OwnResponse, AnswerExpected
<1> QED
  BY <1>1, <1>2, <1>3, <1>4, <1>5 DEF IInv

LEMMA NextKeeps ==
    ASSUME IInv, [Next]_vars
    PROVE  IInv'
<1>1. ASSUME NEW c \in Callers, CallerStep(c) PROVE IInv'
  BY <1>1, TakeSlotKeeps, GiveUpKeeps, EnqueueKeeps, LeaveQueueKeeps,
     CannotSendKeeps, AllocateKeeps, AllocateOneWayKeeps,
     LockAndRegisterKeeps, LockOneWayKeeps, WriteKeeps, WriteFailsKeeps,
     AwaitReadyKeeps, AwaitAbortedKeeps, UnregisterKeeps, ReleaseKeeps, Zenon
  DEF CallerStep
<1>2. ASSUME NEW c \in Callers, Cancel(c) PROVE IInv'
  BY <1>2, CancelKeeps
<1>3. ASSUME NEW c \in Callers, NEW k \in Kinds, Begin(c, k) PROVE IInv'
  BY <1>3, BeginKeeps
<1>4. ASSUME NEW i \in Ids, Answer(i) PROVE IInv'
  BY <1>4, AnswerKeeps
<1>5. ASSUME NEW i \in Ids, NEW final \in BOOLEAN, Receive(i, final)
      PROVE  IInv'
  BY <1>5, ReceiveKeeps
<1>6. ASSUME ReadFails \/ LoopStep PROVE IInv'
  BY <1>6, ReadFailsKeeps, DeliverKeeps, CloseMuxKeeps, FailPendingKeeps,
     ExitLoopKeeps, Zenon DEF LoopStep
<1>7. ASSUME Close \/ CloserStep \/ HeartbeatFails PROVE IInv'
  BY <1>7, CloseKeeps, CloseTransportKeeps, CloseReturnsKeeps,
     HeartbeatFailsKeeps, Zenon DEF CloserStep
<1>8. ASSUME UNCHANGED vars PROVE IInv'
  <2>1. TypeOK'
    BY SMTT(20), Z3T(20), <1>8 DEF IInv, TypeOK, vars
  <2>2. (Locals /\ Exclusive /\ Wired /\ TableOK /\ DeliveringOK /\ Signals
           /\ Returnable /\ Accounted /\ OwnResponse /\ AnswerExpected)'
    BY <1>8, Frame DEF IInv, vars
  <2> QED
    BY <2>1, <2>2 DEF IInv
<1> QED
  BY <1>1, <1>2, <1>3, <1>4, <1>5, <1>6, <1>7, <1>8, Zenon DEF Next

\* In every state of every behaviour, for any callers, waiters and bounds.
THEOREM Invariance == Spec => []IInv
BY InitEstablishes, NextKeeps, PTL DEF Spec

-----------------------------------------------------------------------------
(* The properties the runs check, for every value of the constants.        *)

\* Every variable of the connection keeps its type: in particular the counter
\* of NextCorrelationID never passes the largest id.
THEOREM TypeCorrect == Spec => []TypeOK
<1>1. IInv => TypeOK
  BY DEF IInv
<1> QED
  BY <1>1, Invariance, PTL

\* SendRequest returns the answer to its own request, although waiters are
\* pooled and canceled requests are answered late.
THEOREM ResponsesMatch == Spec => []OwnResponse
<1>1. IInv => OwnResponse
  BY DEF IInv
<1> QED
  BY <1>1, Invariance, PTL

\* releaseRequestWaiter never pools a waiter that the table, the dispatch loop
\* or another call can still reach.
THEOREM PoolIsSafe == Spec => []PooledWaiterUnreachable
<1>1. IInv => PooledWaiterUnreachable
  <2> SUFFICES ASSUME IInv PROVE PooledWaiterUnreachable
    OBVIOUS
  <2>1. pool \cap InUse = {}
    BY DEF IInv, Returnable, InUse
  <2>2. \A w \in pool : w \notin ready
    BY DEF IInv, Returnable
  <2> QED
    BY <2>1, <2>2 DEF IInv, Exclusive, PooledWaiterUnreachable
<1> QED
  BY <1>1, Invariance, PTL

\* mux.Close and RegisterCorrelatedRequest leave no request behind when the
\* dispatch loop closes c.done.
THEOREM NobodyIsLeftBehind == Spec => []NobodyLeftBehind
<1>1. IInv => NobodyLeftBehind
  <2> SUFFICES ASSUME IInv, dpc = "exited"
               PROVE  /\ \A i \in Ids : table[i] = None
                      /\ \A c \in Callers : pc[c] = "await" => waiter[c] \in ready
    BY DEF NobodyLeftBehind, done
  <2>1. \A i \in Ids : table[i] = None
    BY DEF IInv, Accounted
  <2>2. ASSUME NEW c \in Callers, pc[c] = "await"
        PROVE  waiter[c] \in ready
    <3>1. kind[c] = "request" /\ waiter[c] # None /\ reqId[c] \in Ids
      BY SMTT(20), Z3T(20), <2>2 DEF IInv, TypeOK, Locals, Ids
    <3>2. delivering.to = None
      BY SMTT(20), Z3T(20) DEF IInv, DeliveringOK, NoDelivery
    <3> QED
      BY <2>1, <2>2, <3>1, <3>2 DEF IInv, Accounted
  <2> QED
    BY <2>1, <2>2
<1> QED
  BY <1>1, Invariance, PTL

\* A server that answers each request once is never told that its response was
\* unexpected: canceled requests leave a tombstone.
THEOREM AnswersAreExpected == Spec => []AnswerExpected
<1>1. IInv => AnswerExpected
  BY DEF IInv
<1> QED
  BY <1>1, Invariance, PTL

\* RegisterCorrelatedRequest enters ids that were never on the wire, and none
\* after mux.Close has begun.
THEOREM IdsAreFresh == Spec => IdsNotReused
<1> DEFINE Fresh == \A i \in Ids : table[i] = None /\ table'[i] # None =>
                       /\ table'[i] # Discard
                       /\ i \notin wire \cup answered
                       /\ ~muxClosed
<1>1. ASSUME IInv, Next PROVE Fresh
  <2>1. ASSUME NEW c \in Callers, LockAndRegister(c) PROVE Fresh
    <3>1. /\ reqId[c] \in Ids /\ waiter[c] \in Waiters
          /\ reqId[c] \notin wire \cup answered
      BY SMTT(20), Z3T(20), <1>1, <2>1, RequestsAssumption
      DEF IInv, TypeOK, Locals, Wired, LockAndRegister, Ids
    <3>2. \/ UNCHANGED table
          \/ ~muxClosed /\ table' = [table EXCEPT ![reqId[c]] = waiter[c]]
      BY <2>1 DEF LockAndRegister, RegistrationRefused
    <3> QED
      BY <1>1, <3>1, <3>2, RequestsAssumption DEF IInv, TypeOK
  <2>2. ASSUME NEW c \in Callers, Unregister(c) PROVE Fresh
    <3>1. reqId[c] \in Ids /\ waiter[c] # None
      BY SMTT(20), Z3T(20), <1>1, <2>2 DEF IInv, TypeOK, Locals, Unregister, Ids
    <3>2. \/ UNCHANGED table
          \/ /\ table[reqId[c]] = waiter[c]
             /\ table' = [table EXCEPT ![reqId[c]] = Discard]
      BY <2>2 DEF Unregister, Tombstone
    <3> QED
      BY <1>1, <3>1, <3>2 DEF IInv, TypeOK
  <2>3. ASSUME NEW c \in Callers, CallerStep(c), ~LockAndRegister(c),
               ~Unregister(c)
        PROVE  UNCHANGED table
    <3>1. TakeSlot(c) \/ GiveUp(c) \/ Enqueue(c) \/ LeaveQueue(c)
            => UNCHANGED table
      BY DEF TakeSlot, GiveUp, Enqueue, LeaveQueue
    <3>2. CannotSend(c) \/ Allocate(c) \/ AllocateOneWay(c) \/ LockOneWay(c)
            => UNCHANGED table
      BY DEF CannotSend, Allocate, AllocateOneWay, LockOneWay
    <3>3. Write(c) \/ WriteFails(c) \/ AwaitReady(c) \/ AwaitAborted(c)
            \/ Release(c) => UNCHANGED table
      BY DEF Write, WriteFails, AwaitReady, AwaitAborted, Release
    <3> QED
      BY <2>3, <3>1, <3>2, <3>3 DEF CallerStep
  <2>4. ASSUME NEW i \in Ids, NEW final \in BOOLEAN, Receive(i, final)
        PROVE  Fresh
    BY <1>1, <2>4 DEF IInv, TypeOK, Receive
  <2>5. ASSUME FailPending PROVE Fresh
    BY <2>5 DEF FailPending
  <2>6. ASSUME NEW c \in Callers,
               Cancel(c) \/ \E k \in Kinds : Begin(c, k)
        PROVE  UNCHANGED table
    BY <2>6 DEF Cancel, Begin
  <2>7. ASSUME \/ \E i \in Ids : Answer(i)
               \/ ReadFails \/ Deliver \/ CloseMux \/ ExitLoop
               \/ Close \/ CloserStep \/ HeartbeatFails
        PROVE  UNCHANGED table
    BY <2>7 DEF Answer, ReadFails, Deliver, CloseMux, ExitLoop, Close,
                CloserStep, CloseTransport, CloseReturns, HeartbeatFails
  <2>8. UNCHANGED table => Fresh
    OBVIOUS
  <2> HIDE DEF Fresh
  <2> QED
    BY <1>1, <2>1, <2>2, <2>3, <2>4, <2>5, <2>6, <2>7, <2>8
    DEF Next, LoopStep
<1>2. IInv /\ [Next]_vars => [Fresh]_vars
  BY <1>1
<1> QED
  BY <1>2, Invariance, PTL DEF Spec, IdsNotReused

-----------------------------------------------------------------------------
(* Admission                                                               *)

\* A step of one call that takes part in no count, or keeps its part.
Steps(c) == \A d \in Callers : d # c => pc'[d] = pc[d] /\ kind'[d] = kind[d]

\* One call more, one call less, in the set that a counter counts.
LEMMA OneMore ==
    ASSUME NEW S, NEW T, NEW x, IsFiniteSet(S), x \notin S, T = S \cup {x}
    PROVE  Cardinality(T) = Cardinality(S) + 1
BY FS_AddElement

LEMMA OneLess ==
    ASSUME NEW S, NEW T, NEW x, IsFiniteSet(S), x \in S, T = S \ {x}
    PROVE  Cardinality(T) = Cardinality(S) - 1
BY FS_RemoveElement

LEMMA CountedIsFinite ==
    ASSUME NEW k \in Kinds
    PROVE  /\ IsFiniteSet(Holding(k)) /\ Cardinality(Holding(k)) \in Nat
           /\ IsFiniteSet(InQueue(k)) /\ Cardinality(InQueue(k)) \in Nat
<1>1. Holding(k) \subseteq Callers /\ InQueue(k) \subseteq Callers
  BY DEF Holding, InQueue
<1> QED  BY <1>1, RequestsAssumption, FS_Subset, FS_CardinalityType

\* A call takes a token of its semaphore and keeps its place in the queue.
LEMMA TakeSlotCounts ==
    ASSUME TypeOK, SlotsAccounted, NEW c \in Callers, TakeSlot(c)
    PROVE  SlotsAccounted'
<1>1. kind[c] \in Kinds /\ sem[kind[c]] < MaxInFlight /\ MaxInFlight \in Int
  BY SMTT(20), Z3T(20), RequestsAssumption DEF TypeOK, TakeSlot, SlotFree
<1>2. /\ Steps(c) /\ kind'[c] = kind[c] /\ queued' = queued
      /\ pc[c] \notin Slotted /\ pc'[c] \in Slotted /\ (pc[c] \in Queueing <=> pc'[c] \in Queueing)
      /\ sem'[kind[c]] = sem[kind[c]] + 1 /\ \A k \in Kinds : k # kind[c] => sem'[k] = sem[k]
  BY <1>1 DEF TypeOK, TakeSlot, Steps, Slotted, Queueing, Pcs
<1>3. \A k \in Kinds : InQueue(k)' = InQueue(k)
  BY SMTT(20), Z3T(20), <1>2 DEF InQueue, Steps
<1>4. \A k \in Kinds : k # kind[c] => Holding(k)' = Holding(k)
  BY <1>2 DEF Holding, Steps
<1>5. Holding(kind[c])' = Holding(kind[c]) \cup {c} /\ c \notin Holding(kind[c])
  BY <1>2 DEF Holding, Steps
<1>6. Cardinality(Holding(kind[c])') = Cardinality(Holding(kind[c])) + 1
  BY <1>1, <1>5, OneMore, CountedIsFinite
<1> QED  BY SMTT(20), Z3T(20), <1>1, <1>2, <1>3, <1>4, <1>6 DEF SlotsAccounted, TypeOK

LEMMA EnqueueCounts ==
    ASSUME TypeOK, SlotsAccounted, NEW c \in Callers, Enqueue(c)
    PROVE  SlotsAccounted'
<1>1. PICK k \in Kinds : k = kind[c]
  BY DEF TypeOK
<1>2. /\ Steps(c) /\ kind'[c] = k /\ sem' = sem
      /\ pc[c] \notin Slotted \cup Queueing /\ pc'[c] \in Queueing \ Slotted
      /\ queued'[k] = queued[k] + 1 /\ \A j \in Kinds : j # k => queued'[j] = queued[j]
  BY <1>1 DEF TypeOK, Enqueue, Steps, Slotted, Queueing, Pcs
<1>3. \A j \in Kinds : Holding(j)' = Holding(j)
  BY <1>2 DEF Holding, Steps
<1>4. \A j \in Kinds : j # k => InQueue(j)' = InQueue(j)
  BY <1>1, <1>2 DEF InQueue, Steps
<1>5. InQueue(k)' = InQueue(k) \cup {c} /\ c \notin InQueue(k)
  BY <1>1, <1>2 DEF InQueue, Steps
<1>6. Cardinality(InQueue(k)') = Cardinality(InQueue(k)) + 1
  BY <1>5, OneMore, CountedIsFinite
<1> QED  BY SMTT(20), Z3T(20), <1>2, <1>3, <1>4, <1>6 DEF SlotsAccounted, TypeOK

LEMMA LeaveQueueCounts ==
    ASSUME TypeOK, SlotsAccounted, NEW c \in Callers, LeaveQueue(c)
    PROVE  SlotsAccounted'
<1>1. PICK k \in Kinds : k = kind[c]
  BY DEF TypeOK
<1>2. /\ Steps(c) /\ sem' = sem
      /\ pc[c] \in Queueing /\ pc'[c] \notin Queueing
      /\ (pc[c] \in Slotted <=> pc'[c] \in Slotted) /\ (pc[c] \in Slotted => kind'[c] = k)
      /\ queued'[k] = queued[k] - 1 /\ \A j \in Kinds : j # k => queued'[j] = queued[j]
  BY SMTT(20), Z3T(20), <1>1 DEF TypeOK, LeaveQueue, Return, Steps, Slotted, Queueing, Pcs
<1>3. \A j \in Kinds : Holding(j)' = Holding(j)
  BY SMTT(20), Z3T(20), <1>1, <1>2 DEF Holding, Steps
<1>4. \A j \in Kinds : j # k => InQueue(j)' = InQueue(j)
  BY <1>1, <1>2 DEF InQueue, Steps
<1>5. InQueue(k)' = InQueue(k) \ {c} /\ c \in InQueue(k)
  BY <1>1, <1>2 DEF InQueue, Steps
<1>6. Cardinality(InQueue(k)') = Cardinality(InQueue(k)) - 1
  BY <1>5, OneLess, CountedIsFinite
<1> QED  BY <1>2, <1>3, <1>4, <1>6 DEF SlotsAccounted, TypeOK

LEMMA ReleaseCounts ==
    ASSUME TypeOK, SlotsAccounted, NEW c \in Callers, Release(c)
    PROVE  SlotsAccounted'
<1>1. PICK k \in Kinds : k = kind[c]
  BY DEF TypeOK
<1>2. /\ Steps(c) /\ queued' = queued
      /\ pc[c] \in Slotted \ Queueing /\ pc'[c] \notin Slotted \cup Queueing
      /\ sem'[k] = sem[k] - 1 /\ \A j \in Kinds : j # k => sem'[j] = sem[j]
  BY <1>1 DEF TypeOK, Release, ReleaseSlot, Return, Steps, Slotted, Queueing, Pcs
<1>3. \A j \in Kinds : InQueue(j)' = InQueue(j)
  BY <1>2 DEF InQueue, Steps
<1>4. \A j \in Kinds : j # k => Holding(j)' = Holding(j)
  BY <1>1, <1>2 DEF Holding, Steps
<1>5. Holding(k)' = Holding(k) \ {c} /\ c \in Holding(k)
  BY <1>1, <1>2 DEF Holding, Steps
<1>6. Cardinality(Holding(k)') = Cardinality(Holding(k)) - 1
  BY <1>5, OneLess, CountedIsFinite
<1>7. MaxInFlight \in Int
  BY SMTT(20), Z3T(20), RequestsAssumption
<1> QED  BY SMTT(20), Z3T(20), <1>2, <1>3, <1>4, <1>6, <1>7 DEF SlotsAccounted, TypeOK

\* The other steps of a call keep its part in both counts.
LEMMA StaysCounts ==
    ASSUME TypeOK, SlotsAccounted, NEW c \in Callers, Steps(c), UNCHANGED admitVars,
           pc[c] \in Slotted <=> pc'[c] \in Slotted, pc[c] \in Queueing <=> pc'[c] \in Queueing,
           pc[c] \in Slotted \cup Queueing => kind'[c] = kind[c]
    PROVE  SlotsAccounted'
<1>1. \A j \in Kinds : InQueue(j)' = InQueue(j)
  BY DEF InQueue, Steps
<1>2. \A j \in Kinds : Holding(j)' = Holding(j)
  BY DEF Holding, Steps
<1> QED  BY <1>1, <1>2 DEF SlotsAccounted, admitVars

LEMMA CallerCounts ==
    ASSUME IInv, SlotsAccounted, NEW c \in Callers, CallerStep(c)
    PROVE  SlotsAccounted'
<1>0. TypeOK
  BY DEF IInv
<1>1. CASE GiveUp(c)
  <2>1. /\ Steps(c) /\ UNCHANGED admitVars
        /\ pc[c] \in Slotted <=> pc'[c] \in Slotted
        /\ pc[c] \in Queueing <=> pc'[c] \in Queueing
        /\ pc[c] \in Slotted \cup Queueing => kind'[c] = kind[c]
    BY <1>0, <1>1 DEF GiveUp, Return, Steps, TypeOK, Slotted, Queueing, Pcs
  <2> QED  BY <1>0, <2>1, StaysCounts
<1>2. CASE CannotSend(c) \/ Allocate(c) \/ AllocateOneWay(c) \/ LockOneWay(c)
  <2>1. /\ Steps(c) /\ UNCHANGED admitVars /\ kind'[c] = kind[c]
        /\ pc[c] \in Slotted \ Queueing /\ pc'[c] \in Slotted \ Queueing
    BY <1>0, <1>2 DEF CannotSend, Allocate, AllocateOneWay, LockOneWay, Steps, TypeOK, Slotted, Queueing, Pcs
  <2> QED  BY <1>0, <2>1, StaysCounts
<1>3. CASE LockAndRegister(c) \/ Write(c) \/ WriteFails(c)
  <2>1. /\ Steps(c) /\ UNCHANGED admitVars /\ kind'[c] = kind[c]
        /\ pc[c] \in Slotted \ Queueing /\ pc'[c] \in Slotted \ Queueing
    BY <1>0, <1>3 DEF LockAndRegister, Write, WriteFails, Steps, TypeOK, Slotted, Queueing, Pcs
  <2> QED  BY <1>0, <2>1, StaysCounts
<1>4. CASE AwaitReady(c) \/ AwaitAborted(c) \/ Unregister(c)
  <2>1. /\ Steps(c) /\ UNCHANGED admitVars /\ kind'[c] = kind[c]
        /\ pc[c] \in Slotted \ Queueing /\ pc'[c] \in Slotted \ Queueing
    BY <1>0, <1>4 DEF AwaitReady, AwaitAborted, Unregister, Steps, TypeOK, Slotted, Queueing, Pcs
  <2> QED  BY <1>0, <2>1, StaysCounts
<1> QED
  BY <1>0, <1>1, <1>2, <1>3, <1>4, TakeSlotCounts, EnqueueCounts, LeaveQueueCounts, ReleaseCounts DEF CallerStep

\* A slot is held from admission to return, on every path: the semaphores and the
\* queue counters never drift, and never let more than MaxInFlight calls in.
THEOREM SlotsAreAccounted == Spec => []SlotsAccounted
<1>1. Init => SlotsAccounted
  <2> SUFFICES ASSUME Init, NEW k \in Kinds
               PROVE  sem[k] = Cardinality(Holding(k)) /\ sem[k] <= MaxInFlight /\ queued[k] = Cardinality(InQueue(k))
    BY DEF SlotsAccounted
  <2>1. Holding(k) = {} /\ InQueue(k) = {}
    BY DEF Init, Holding, InQueue, Slotted, Queueing
  <2>2. sem[k] = 0 /\ queued[k] = 0 /\ 0 <= MaxInFlight
    BY SMTT(20), Z3T(20), RequestsAssumption DEF Init
  <2> QED  BY <2>1, <2>2, FS_EmptySet
<1>2. IInv /\ SlotsAccounted /\ [Next]_vars => SlotsAccounted'
  <2> SUFFICES ASSUME IInv, SlotsAccounted, [Next]_vars PROVE SlotsAccounted'
    OBVIOUS
  <2>1. ASSUME NEW c \in Callers, CallerStep(c) PROVE SlotsAccounted'
    BY <2>1, CallerCounts
  <2>2. ASSUME NEW c \in Callers, NEW k \in Kinds, Begin(c, k) PROVE SlotsAccounted'
    <3>1. /\ TypeOK /\ Steps(c) /\ UNCHANGED admitVars
          /\ pc[c] \notin Slotted \cup Queueing /\ pc'[c] \notin Slotted \cup Queueing
      BY <2>2 DEF IInv, Begin, Steps, TypeOK, Slotted, Queueing, Pcs
    <3> QED  BY <3>1, StaysCounts
  <2>3. ASSUME UNCHANGED <<pc, kind, admitVars>> PROVE SlotsAccounted'
    <3>1. \A j \in Kinds : Holding(j)' = Holding(j) /\ InQueue(j)' = InQueue(j)
      BY <2>3 DEF Holding, InQueue
    <3> QED  BY <2>3, <3>1 DEF SlotsAccounted, admitVars
  <2>4. CASE \/ \E c \in Callers : Cancel(c)
             \/ \E i \in Ids : Answer(i) \/ \E final \in BOOLEAN : Receive(i, final)
             \/ ReadFails \/ LoopStep \/ Close \/ CloserStep \/ HeartbeatFails
    BY <2>3, <2>4
    DEF Cancel, Answer, Receive, ReadFails, LoopStep, Deliver, CloseMux, FailPending, ExitLoop, Close,
        CloserStep, CloseTransport, CloseReturns, HeartbeatFails
  <2>5. CASE UNCHANGED vars
    BY <2>3, <2>5 DEF vars
  <2> QED  BY <2>1, <2>2, <2>4, <2>5 DEF Next
<1> QED  BY <1>1, <1>2, Invariance, PTL DEF Spec

-----------------------------------------------------------------------------
(* The refinement                                                          *)

LEMMA AbstractInitial == Init => Abstract!Init
<1> SUFFICES ASSUME Init PROVE Abstract!Init
  OBVIOUS
<1>1. Phase = [c \in Callers |-> "idle"]
  BY DEF Init, Phase
<1>2. 1..nextId = {}
  BY SMTT(20), Z3T(20) DEF Init
<1> QED  BY <1>1, <1>2 DEF Init, Abstract!Init

\* What the steps of a call do to its phase.
LEMMA PhaseMoves ==
    ASSUME TypeOK, NEW c \in Callers, NEW v,
           \A d \in Callers : d # c => pc'[d] = pc[d] /\ result'[d] = result[d],
           v = IF pc'[c] = "idle" THEN "idle" ELSE IF result'[c] = "none" THEN "calling" ELSE "ending"
    PROVE  Phase' = [Phase EXCEPT ![c] = v]
<1>1. \A d \in Callers : Phase'[d] = IF d = c THEN v ELSE Phase[d]
  BY DEF Phase
<1>2. Phase' = [d \in Callers |-> Phase'[d]] /\ Phase = [d \in Callers |-> Phase[d]]
  BY DEF Phase
<1> HIDE DEF Phase
<1> QED  BY <1>1, <1>2

LEMMA PhaseStays ==
    ASSUME \A d \in Callers : (pc'[d] = "idle" <=> pc[d] = "idle") /\ result'[d] = result[d]
    PROVE  Phase' = Phase
BY DEF Phase

LEMMA FailImplements ==
    ASSUME IInv, NEW c \in Callers, NEW i \in Ids \cup {0}, Phase[c] = "calling",
           \A d \in Callers : d # c => pc'[d] = pc[d] /\ result'[d] = result[d],
           pc'[c] # "idle", result'[c] # "none",
           1..nextId' = (1..nextId) \cup ({i} \ {0}), UNCHANGED <<reqId, got, answered>>
    PROVE  Abstract!Next
<1>1. Phase' = [Phase EXCEPT ![c] = "ending"]
  BY PhaseMoves DEF IInv
<1>2. Abstract!Fail(c)
  BY <1>1 DEF Abstract!Fail, Abstract!Ids, Ids
<1> QED  BY <1>2 DEF Abstract!Next

\* A failure that spends no id.
LEMMA PlainFailImplements ==
    ASSUME IInv, NEW c \in Callers, pc[c] # "idle", result[c] = "none",
           \A d \in Callers : d # c => pc'[d] = pc[d] /\ result'[d] = result[d],
           pc'[c] # "idle", result'[c] # "none", UNCHANGED <<nextId, reqId, got, answered>>
    PROVE  Abstract!Next
<1>1. Phase[c] = "calling"
  BY DEF Phase
<1>2. 1..nextId' = (1..nextId) \cup ({0} \ {0}) /\ 0 \in Ids \cup {0}
  OBVIOUS
<1> QED  BY <1>1, <1>2, FailImplements

LEMMA EndImplements ==
    ASSUME IInv, NEW c \in Callers, pc[c] # "idle", Return(c), UNCHANGED <<nextId, answered>>
    PROVE  Abstract!Next
<1>0. TypeOK
  BY DEF IInv
<1>1. Phase[c] \in {"calling", "ending"}
  BY DEF Phase
<1>2. /\ pc'[c] = "idle" /\ \A d \in Callers : d # c => pc'[d] = pc[d] /\ result'[d] = result[d]
  BY <1>0 DEF TypeOK, Return
<1>3. Phase' = [Phase EXCEPT ![c] = "idle"]
  BY <1>0, <1>2, PhaseMoves
<1>4. Abstract!End(c)
  BY <1>1, <1>3 DEF Return, Abstract!End
<1> QED  BY <1>4 DEF Abstract!Next

LEMMA Stutters ==
    ASSUME \A d \in Callers : (pc'[d] = "idle" <=> pc[d] = "idle") /\ result'[d] = result[d],
           UNCHANGED <<nextId, reqId, got, answered>>
    PROVE  UNCHANGED Abstract!vars
<1>1. Phase' = Phase
  BY PhaseStays
<1> QED  BY <1>1 DEF Abstract!vars

\* A new id is one that nobody has had.
LEMMA NewId ==
    ASSUME TypeOK, NextCorrelationID # 0, nextId' = NextCorrelationID
    PROVE  /\ nextId + 1 \in Ids /\ nextId + 1 \notin 1..nextId /\ nextId' = nextId + 1
           /\ 1..nextId' = (1..nextId) \cup {nextId + 1}
<1>1. nextId \in 0..MaxId /\ MaxId \in Nat
  BY RequestsAssumption DEF TypeOK
<1>2. nextId # MaxId /\ nextId' = nextId + 1
  BY DEF NextCorrelationID
<1> QED  BY SMTT(20), Z3T(20), <1>1, <1>2 DEF Ids

LEMMA BeginImplements ==
    ASSUME IInv, NEW c \in Callers, NEW k \in Kinds, Begin(c, k)
    PROVE  Abstract!Next
<1>0. TypeOK /\ pc[c] = "idle" /\ result[c] = "none"
  BY DEF IInv, Locals, Before, Begin
<1>1. Phase[c] = "idle"
  BY <1>0 DEF Phase
<1>2. /\ pc'[c] = "admit" /\ result'[c] = "none"
      /\ \A d \in Callers : d # c => pc'[d] = pc[d] /\ result'[d] = result[d]
  BY <1>0 DEF TypeOK, Begin
<1>3. Phase' = [Phase EXCEPT ![c] = "calling"]
  BY <1>0, <1>2, PhaseMoves
<1>4. Abstract!Start(c)
  BY <1>1, <1>3 DEF Begin, Abstract!Start
<1> QED  BY <1>4 DEF Abstract!Next

AbstractStep == Abstract!Next \/ UNCHANGED Abstract!vars

\* Admission.
LEMMA AdmissionImplements ==
    ASSUME IInv, NEW c \in Callers, TakeSlot(c) \/ GiveUp(c) \/ Enqueue(c) \/ LeaveQueue(c)
    PROVE  AbstractStep
<1>0. TypeOK /\ Locals
  BY DEF IInv
<1>1. pc[c] \in {"admit", "queued"} => result[c] = "none"
  BY <1>0 DEF Locals, Before
<1>2. CASE TakeSlot(c)
  <2>1. /\ \A d \in Callers : (pc'[d] = "idle" <=> pc[d] = "idle") /\ result'[d] = result[d]
        /\ UNCHANGED <<nextId, reqId, got, answered>>
    BY <1>0, <1>2 DEF TypeOK, TakeSlot
  <2> QED  BY <2>1, Stutters DEF AbstractStep
<1>3. CASE GiveUp(c)
  <2>1. CASE pc[c] = "admit"
    <3>1. Return(c) /\ UNCHANGED <<nextId, answered>>
      BY <1>3, <2>1 DEF GiveUp
    <3> QED  BY <2>1, <3>1, EndImplements DEF AbstractStep
  <2>2. CASE pc[c] = "queued"
    <3>1. /\ \A d \in Callers : d # c => pc'[d] = pc[d] /\ result'[d] = result[d]
          /\ pc'[c] # "idle" /\ result'[c] # "none" /\ UNCHANGED <<nextId, reqId, got, answered>>
      BY <1>0, <1>3, <2>2 DEF TypeOK, GiveUp
    <3> QED  BY <1>1, <2>2, <3>1, PlainFailImplements DEF AbstractStep
  <2> QED  BY <1>3, <2>1, <2>2 DEF GiveUp
<1>4. CASE Enqueue(c)
  <2>1. /\ pc[c] = "admit" /\ pc'[c] # "idle" /\ UNCHANGED <<nextId, reqId, got, answered>>
        /\ \A d \in Callers : d # c => pc'[d] = pc[d] /\ result'[d] = result[d]
    BY <1>0, <1>4 DEF TypeOK, Enqueue
  <2>2. result'[c] # "none" \/ UNCHANGED result
    BY <1>0, <1>4 DEF TypeOK, Enqueue
  <2>3. CASE UNCHANGED result
    <3>1. \A d \in Callers : (pc'[d] = "idle" <=> pc[d] = "idle") /\ result'[d] = result[d]
      BY <2>1, <2>3
    <3> QED  BY <2>1, <3>1, Stutters DEF AbstractStep
  <2>4. CASE result'[c] # "none"
    BY <1>1, <2>1, <2>4, PlainFailImplements DEF AbstractStep
  <2> QED  BY <2>2, <2>3, <2>4
<1>5. CASE LeaveQueue(c)
  <2>1. CASE pc[c] = "unqueue"
    <3>1. Return(c) /\ UNCHANGED <<nextId, answered>>
      BY <1>5, <2>1 DEF LeaveQueue
    <3> QED  BY <2>1, <3>1, EndImplements DEF AbstractStep
  <2>2. CASE pc[c] # "unqueue"
    <3>1. /\ \A d \in Callers : (pc'[d] = "idle" <=> pc[d] = "idle") /\ result'[d] = result[d]
          /\ UNCHANGED <<nextId, reqId, got, answered>>
      BY <1>0, <1>5, <2>2 DEF TypeOK, LeaveQueue
    <3> QED  BY <3>1, Stutters DEF AbstractStep
  <2> QED  BY <2>1, <2>2
<1> QED  BY <1>2, <1>3, <1>4, <1>5

\* The ids.
LEMMA IdImplements ==
    ASSUME IInv, NEW c \in Callers, CannotSend(c) \/ Allocate(c) \/ AllocateOneWay(c)
    PROVE  AbstractStep
<1>0. TypeOK /\ pc[c] = "allocate" /\ result[c] = "none" /\ reqId[c] = 0
  BY DEF IInv, Locals, Before, CannotSend, Allocate, AllocateOneWay
<1>1. Phase[c] = "calling"
  BY <1>0 DEF Phase
<1>2. CASE CannotSend(c)
  <2>1. /\ \A d \in Callers : d # c => pc'[d] = pc[d] /\ result'[d] = result[d]
        /\ pc'[c] # "idle" /\ result'[c] # "none" /\ UNCHANGED <<reqId, got, answered>>
    BY <1>0, <1>2 DEF TypeOK, CannotSend
  <2>2. CASE UNCHANGED nextId
    BY <1>0, <2>1, <2>2, PlainFailImplements DEF AbstractStep
  <2>3. CASE NextCorrelationID # 0 /\ nextId' = NextCorrelationID
    <3>1. 1..nextId' = (1..nextId) \cup ({nextId + 1} \ {0}) /\ nextId + 1 \in Ids \cup {0}
      BY <1>0, <2>3, NewId, RequestsAssumption DEF Ids
    <3> QED  BY <1>1, <2>1, <3>1, FailImplements DEF AbstractStep
  <2> QED  BY <1>2, <2>2, <2>3 DEF CannotSend
<1>3. CASE Allocate(c)
  <2>1. /\ \A d \in Callers : (pc'[d] = "idle" <=> pc[d] = "idle") /\ result'[d] = result[d]
        /\ UNCHANGED <<got, answered>> /\ NextCorrelationID # 0 /\ nextId' = NextCorrelationID
        /\ reqId' = [reqId EXCEPT ![c] = nextId']
    BY <1>0, <1>3 DEF TypeOK, Allocate
  <2>2. Phase' = Phase
    BY <2>1, PhaseStays
  <2>3. /\ nextId + 1 \in Ids /\ nextId + 1 \notin 1..nextId /\ nextId' = nextId + 1
        /\ 1..nextId' = (1..nextId) \cup {nextId + 1}
    BY <1>0, <2>1, NewId
  <2>4. Abstract!Identify(c, nextId + 1)
    BY <1>0, <1>1, <2>1, <2>2, <2>3 DEF Abstract!Identify
  <2> QED  BY <2>3, <2>4 DEF Abstract!Next, Abstract!Ids, Ids, AbstractStep
<1>4. CASE AllocateOneWay(c)
  <2>1. /\ \A d \in Callers : (pc'[d] = "idle" <=> pc[d] = "idle") /\ result'[d] = result[d]
        /\ UNCHANGED <<reqId, got, answered>>
    BY <1>0, <1>4 DEF TypeOK, AllocateOneWay
  <2>2. CASE UNCHANGED nextId
    BY <2>1, <2>2, Stutters DEF AbstractStep
  <2>3. CASE NextCorrelationID # 0 /\ nextId' = NextCorrelationID
    <3>1. nextId + 1 \in Ids /\ 1..nextId' = (1..nextId) \cup {nextId + 1}
      BY <1>0, <2>3, NewId
    <3>2. Abstract!Spend(nextId + 1)
      BY <2>1, <3>1, PhaseStays DEF Abstract!Spend
    <3> QED  BY <3>1, <3>2 DEF Abstract!Next, Abstract!Ids, Ids, AbstractStep
  <2> QED  BY <1>4, <2>2, <2>3 DEF AllocateOneWay
<1> QED  BY <1>2, <1>3, <1>4

\* The request itself: an error, a response, or nothing that can be seen.
LEMMA BodyImplements ==
    ASSUME IInv, NEW c \in Callers,
           \/ LockAndRegister(c) \/ LockOneWay(c) \/ Write(c) \/ WriteFails(c)
           \/ AwaitReady(c) \/ AwaitAborted(c) \/ Unregister(c)
    PROVE  AbstractStep
<1>0. TypeOK /\ Locals
  BY DEF IInv
<1>1. pc[c] \in {"lock", "write", "await"} => result[c] = "none"
  BY <1>0 DEF Locals
<1>2. CASE LockAndRegister(c) \/ LockOneWay(c)
  <2>1. /\ pc[c] = "lock" /\ pc'[c] # "idle" /\ UNCHANGED <<nextId, reqId, got, answered>>
        /\ \A d \in Callers : d # c => pc'[d] = pc[d] /\ result'[d] = result[d]
        /\ result'[c] # "none" \/ UNCHANGED result
    BY <1>0, <1>2 DEF TypeOK, LockAndRegister, LockOneWay
  <2>2. CASE UNCHANGED result
    <3>1. \A d \in Callers : (pc'[d] = "idle" <=> pc[d] = "idle") /\ result'[d] = result[d]
      BY <2>1, <2>2
    <3> QED  BY <2>1, <3>1, Stutters DEF AbstractStep
  <2>3. CASE result'[c] # "none"
    BY <1>1, <2>1, <2>3, PlainFailImplements DEF AbstractStep
  <2> QED  BY <2>1, <2>2, <2>3
<1>3. CASE Write(c) \/ WriteFails(c)
  <2>1. /\ pc[c] = "write" /\ pc'[c] # "idle" /\ UNCHANGED <<nextId, reqId, got, answered>>
        /\ \A d \in Callers : d # c => pc'[d] = pc[d] /\ result'[d] = result[d]
        /\ result'[c] # "none" \/ UNCHANGED result
    BY <1>0, <1>3 DEF TypeOK, Write, WriteFails
  <2>2. CASE UNCHANGED result
    <3>1. \A d \in Callers : (pc'[d] = "idle" <=> pc[d] = "idle") /\ result'[d] = result[d]
      BY <2>1, <2>2
    <3> QED  BY <2>1, <3>1, Stutters DEF AbstractStep
  <2>3. CASE result'[c] # "none"
    BY <1>1, <2>1, <2>3, PlainFailImplements DEF AbstractStep
  <2> QED  BY <2>1, <2>2, <2>3
<1>4. CASE AwaitReady(c)
  <2>1. /\ pc[c] = "await" /\ pc'[c] # "idle" /\ UNCHANGED <<nextId, reqId, answered>>
        /\ result'[c] # "none" /\ waiter[c] \in ready
        /\ \A d \in Callers : d # c => pc'[d] = pc[d] /\ result'[d] = result[d]
    BY <1>0, <1>4 DEF TypeOK, AwaitReady
  <2>2. CASE waiter[c] \in failed
    <3>1. UNCHANGED got
      BY <1>4, <2>2 DEF AwaitReady
    <3> QED  BY <1>1, <2>1, <3>1, PlainFailImplements DEF AbstractStep
  <2>3. CASE waiter[c] \notin failed
    <3>1. kind[c] = "request" /\ waiter[c] # None
      BY <1>0, <2>1 DEF Locals
    <3>2. resp[waiter[c]] = reqId[c] /\ reqId[c] \in answered
      BY <2>1, <2>3, <3>1 DEF IInv, Signals
    <3>3. got' = [got EXCEPT ![c] = reqId[c]]
      BY <1>4, <2>3, <3>2 DEF AwaitReady
    <3>4. Phase[c] = "calling"
      BY <1>1, <2>1 DEF Phase
    <3>5. Phase' = [Phase EXCEPT ![c] = "ending"]
      BY <1>0, <2>1, PhaseMoves
    <3>6. Abstract!Respond(c)
      BY <2>1, <3>2, <3>3, <3>4, <3>5 DEF Abstract!Respond
    <3> QED  BY <3>6 DEF Abstract!Next, AbstractStep
  <2> QED  BY <2>2, <2>3
<1>5. CASE AwaitAborted(c)
  <2>1. /\ pc[c] = "await" /\ pc'[c] # "idle" /\ UNCHANGED <<nextId, reqId, got, answered>>
        /\ result'[c] # "none"
        /\ \A d \in Callers : d # c => pc'[d] = pc[d] /\ result'[d] = result[d]
    BY <1>0, <1>5 DEF TypeOK, AwaitAborted
  <2> QED  BY <1>1, <2>1, PlainFailImplements DEF AbstractStep
<1>6. CASE Unregister(c)
  <2>1. /\ \A d \in Callers : (pc'[d] = "idle" <=> pc[d] = "idle") /\ result'[d] = result[d]
        /\ UNCHANGED <<nextId, reqId, got, answered>>
    BY <1>0, <1>6 DEF TypeOK, Unregister
  <2> QED  BY <2>1, Stutters DEF AbstractStep
<1> QED  BY <1>2, <1>3, <1>4, <1>5, <1>6

LEMMA StepImplements ==
    ASSUME IInv, [Next]_vars
    PROVE  AbstractStep
<1>1. ASSUME NEW c \in Callers, CallerStep(c) PROVE AbstractStep
  <2>1. CASE Release(c)
    <3>1. pc[c] # "idle" /\ Return(c) /\ UNCHANGED <<nextId, answered>>
      BY <2>1 DEF Release
    <3> QED  BY <3>1, EndImplements DEF AbstractStep
  <2> QED  BY <1>1, <2>1, AdmissionImplements, IdImplements, BodyImplements DEF CallerStep
<1>2. ASSUME NEW c \in Callers, NEW k \in Kinds, Begin(c, k) PROVE AbstractStep
  BY <1>2, BeginImplements DEF AbstractStep
<1>3. ASSUME NEW i \in Ids, Answer(i) PROVE AbstractStep
  <2>1. i \in 1..nextId
    BY SMTT(20), Z3T(20), <1>3, RequestsAssumption DEF Answer, IInv, Wired, TypeOK, Ids
  <2>2. Phase' = Phase
    BY <1>3, PhaseStays DEF Answer
  <2>3. Abstract!Serve(i)
    BY <1>3, <2>1, <2>2 DEF Answer, Abstract!Serve
  <2> QED  BY <2>3 DEF Abstract!Next, Abstract!Ids, Ids, AbstractStep
<1>4. ASSUME UNCHANGED <<pc, result, nextId, reqId, got, answered>> PROVE AbstractStep
  BY <1>4, Stutters DEF AbstractStep
<1>5. CASE \/ \E c \in Callers : Cancel(c)
           \/ \E i \in Ids : \E final \in BOOLEAN : Receive(i, final)
           \/ ReadFails \/ LoopStep \/ Close \/ CloserStep \/ HeartbeatFails
  BY <1>4, <1>5
  DEF Cancel, Receive, ReadFails, LoopStep, Deliver, CloseMux, FailPending, ExitLoop, Close,
      CloserStep, CloseTransport, CloseReturns, HeartbeatFails
<1>6. CASE UNCHANGED vars
  BY <1>4, <1>6 DEF vars
<1> QED  BY <1>1, <1>2, <1>3, <1>5, <1>6 DEF Next

\* SendRequest and SendFireAndForget, with their correlation table, pooled
\* waiters, slots, write lock and shutdown, implement RequestReply: every call
\* ends once, with the answer to its own request or with an error.
THEOREM RequestsImplementReply == Spec => ImplementsRequestReply
<1>1. IInv /\ [Next]_vars => [Abstract!Next]_Abstract!vars
  BY StepImplements DEF AbstractStep
<1> QED
  BY <1>1, AbstractInitial, Invariance, PTL DEF Spec, Abstract!Spec, ImplementsRequestReply
=============================================================================
