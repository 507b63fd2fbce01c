-------------------------- MODULE QueueItemsProofs --------------------------
(***************************************************************************)
(* QueueItems for any number of goroutines, calls, connections and retry   *)
(* attempts: what an Enqueue adds, and who settles an item.  The inductive *)
(* invariant comes first, then what every kind of step does to its part    *)
(* about calls, requests and messages, then its part about the item.       *)
(***************************************************************************)
EXTENDS QueueItems, SequenceTheorems, FiniteSetTheorems, TLAPS

USE ZenonT(60)

Ops == {"Enqueue", "Reserve", "Extend", "Complete", "Nack"}
Replies == {Nothing, "ok", "busy", "refused", "closed", "deadline"}
Calls == [pc : {"idle", "waiting", "backoff"}, op : Ops \cup {Nothing}, on : Nat, n : Nat,
          attempt : Nat, reply : Replies]
Sent == [who : Callers, op : Ops, n : Nat]
Brokers == [held : {"ready", "reserved", "elsewhere", "gone"}, settled : BOOLEAN, added : Seq(Nat)]

Typed ==
    /\ conn \in Nat \ {0} /\ up \in BOOLEAN /\ calls \in Nat
    /\ call \in [Callers -> Calls]
    /\ wire \in Seq(Sent)
    /\ handle \in [on : Nat, state : {0, 1, 2}]
    /\ broker \in Brokers

\* Every call has a number of its own, which idle callers have given back.
Numbered ==
    /\ \A c \in Callers : call[c].n <= calls
    /\ \A c \in Callers : (call[c].pc = "idle") <=> (call[c].n = 0)
    /\ \A c \in Callers : call[c].pc = "idle" => call[c].op = Nothing
    /\ \A c, d \in Callers : call[c].n = call[d].n /\ call[c].n # 0 => c = d
    /\ \A i \in 1..Len(wire) : wire[i].n # 0 /\ wire[i].n <= calls
    /\ \A i \in 1..Len(broker.added) : broker.added[i] <= calls

\* Where the number of a call can be: on the wire once, or, after that, among
\* the messages added once; on neither while the call has been told "busy",
\* which is the only state in which it is sent again.
Somewhere ==
    /\ \A i, j \in 1..Len(wire) : wire[i].n = wire[j].n => i = j
    /\ \A i \in 1..Len(wire), j \in 1..Len(broker.added) : wire[i].n # broker.added[j]
    /\ \A i, j \in 1..Len(broker.added) : broker.added[i] = broker.added[j] => i = j
    /\ \A i \in 1..Len(wire), c \in Callers : call[c].n = wire[i].n =>
          c = wire[i].who /\ call[c].op = wire[i].op /\ call[c].reply # "busy"
    /\ \A c \in Callers, j \in 1..Len(broker.added) :
          call[c].reply = "busy" => call[c].n # broker.added[j]
    /\ \A c \in Callers : call[c].pc = "backoff" => call[c].reply = "busy" /\ call[c].op = "Enqueue"

\* The item's state word: 1 exactly while one call settles the item; a
\* reservation in progress has no item yet; "ok" is the broker's word.
Item ==
    /\ \A c \in SettleCalls : handle.state = 1 /\ handle.on # 0
    /\ \A c, d \in SettleCalls : c = d
    /\ handle.state = 1 => SettleCalls # {}
    /\ \A c \in Callers : call[c].op = "Reserve" => handle = NoItem
    /\ \A c, d \in Callers : call[c].op = "Reserve" /\ call[d].op = "Reserve" => c = d
    /\ \A c \in SettleCalls : call[c].reply = "ok" => broker.settled
    /\ handle.state = 2 => broker.settled

QueueInv == Typed /\ Numbered /\ Somewhere /\ Item

LEMMA QueueInitial == QueueInit => QueueInv
<1> SUFFICES ASSUME QueueInit PROVE QueueInv
  OBVIOUS
<1>1. /\ conn = 1 /\ up = TRUE /\ calls = 0 /\ wire = <<>> /\ handle = NoItem
      /\ call = [c \in Callers |-> Idle]
      /\ broker = [held |-> "ready", settled |-> FALSE, added |-> <<>>]
  BY DEF QueueInit, ExchangeInit
<1>2. \A c \in Callers : call[c] = Idle
  BY <1>1
<1>3. Idle \in Calls /\ broker \in Brokers
  BY SMT, <1>1 DEF Idle, Calls, Replies, Brokers, Nothing
<1>4. Typed
  BY SMT, <1>1, <1>3 DEF Typed, NoItem
<1>5. Len(wire) = 0 /\ Len(broker.added) = 0
  BY <1>1
<1>6. Numbered
  BY SMT, <1>1, <1>2, <1>5 DEF Numbered, Idle
<1>7. Somewhere
  BY SMT, <1>1, <1>2, <1>5 DEF Somewhere, Idle, Nothing
<1>8. SettleCalls = {}
  BY SMT, <1>2 DEF SettleCalls, Idle
<1>9. Item
  BY SMT, <1>1, <1>2, <1>8 DEF Item, Idle, NoItem, Nothing
<1> QED  BY <1>4, <1>6, <1>7, <1>9 DEF QueueInv

-----------------------------------------------------------------------------
(* What a step does to the calls, the wire and the messages added.         *)

Exchanged ==
    /\ calls' \in Nat /\ call' \in [Callers -> Calls] /\ wire' \in Seq(Sent)
    /\ Numbered' /\ Somewhere'

LEMMA Numbers ==
  ASSUME Typed
  PROVE  /\ calls \in Nat /\ Len(wire) \in Nat /\ Len(broker.added) \in Nat
         /\ \A c \in Callers : call[c] \in Calls /\ call[c].n \in Nat
         /\ \A i \in 1..Len(wire) : wire[i] \in Sent /\ wire[i].n \in Nat
         /\ \A i \in 1..Len(broker.added) : broker.added[i] \in Nat
<1>1. broker.added \in Seq(Nat)
  BY DEF Typed, Brokers
<1>2. \A i \in 1..Len(wire) : wire[i] \in Sent
  BY ElementOfSeq DEF Typed
<1>3. \A r \in Sent : r.n \in Nat
  BY DEF Sent
<1>4. \A c \in Callers : call[c] \in Calls /\ call[c].n \in Nat
  BY DEF Typed, Calls
<1>5. Len(wire) \in Nat /\ Len(broker.added) \in Nat /\ calls \in Nat
  BY <1>1, LenProperties DEF Typed
<1>6. \A i \in 1..Len(broker.added) : broker.added[i] \in Nat
  BY <1>1, ElementOfSeq
<1> QED  BY <1>2, <1>3, <1>4, <1>5, <1>6

\* A new call takes a number that nothing carries yet.
LEMMA StartStep ==
  ASSUME Typed, Numbered, Somewhere, broker' = broker,
         NEW c \in Callers, NEW op \in Ops, NEW k \in Nat, Free(c), Start(c, op, k)
  PROVE  Exchanged
<1> DEFINE new == [pc |-> "waiting", op |-> op, on |-> k, n |-> calls + 1,
                   attempt |-> 1, reply |-> ReplyNow(k)]
           rq == Request(c, op, calls + 1)
<1>1. new \in Calls /\ rq \in Sent /\ calls' = calls + 1 /\ calls \in Nat
  BY SMT DEF Typed, Start, Calls, Sent, Request, Replies, ReplyNow, Nothing
<1>2. call' = [call EXCEPT ![c] = new] /\ call' \in [Callers -> Calls]
  BY <1>1 DEF Typed, Start
<1>3. call'[c] = new /\ \A d \in Callers : d # c => call'[d] = call[d]
  BY <1>2 DEF Typed
<1>4. new.n = calls + 1 /\ new.pc = "waiting" /\ new.reply # "busy" /\ new.op = op
  BY DEF ReplyNow, Nothing
<1> HIDE DEF new
<1>5. broker'.added = broker.added
  OBVIOUS
<1>6. \A d \in Callers : call'[d].n = calls + 1 => d = c
  BY SMT, <1>1, <1>3, <1>4, Numbers DEF Numbered
<1>7. \A i \in 1..Len(wire) : wire[i].n # calls + 1
  BY SMT, Numbers DEF Numbered
<1>8. CASE wire' = wire
  <2>1. Numbered'
    BY SMTT(40), Z3T(40), <1>1, <1>3, <1>4, <1>5, <1>6, <1>8, Numbers DEF Numbered
  <2>2. Somewhere'
    BY SMTT(40), Z3T(40), <1>1, <1>3, <1>4, <1>5, <1>7, <1>8, Numbers DEF Somewhere
  <2> QED  BY SMT, <1>1, <1>2, <1>8, <2>1, <2>2 DEF Exchanged, Typed
<1>9. CASE wire' = Append(wire, rq)
  <2>1. /\ wire' \in Seq(Sent) /\ Len(wire') = Len(wire) + 1 /\ Len(wire) \in Nat
        /\ \A i \in 1..Len(wire) : wire'[i] = wire[i]
        /\ wire'[Len(wire) + 1] = rq
    BY SMT, <1>1, <1>9, AppendProperties, LenProperties DEF Typed
  <2>2. rq.n = calls + 1 /\ rq.who = c /\ rq.op = op
    BY DEF Request
  <2> HIDE DEF rq
  <2>3. \A i \in 1..Len(wire') : i = Len(wire) + 1 \/ i \in 1..Len(wire)
    BY SMT, <2>1
  <2>4. \A i \in 1..Len(wire') : wire'[i] = rq \/ (i \in 1..Len(wire) /\ wire'[i] = wire[i])
    BY <2>1, <2>3
  <2>5. \A i, j \in 1..Len(wire') : wire'[i].n = wire'[j].n => i = j
    BY SMT, <1>7, <2>1, <2>2, <2>3 DEF Somewhere
  <2>6. \A j \in 1..Len(broker.added) : broker.added[j] # calls + 1
    BY SMT, Numbers DEF Numbered
  <2>7. Numbered'
    <3>1. \A i \in 1..Len(wire') : wire'[i].n # 0 /\ wire'[i].n <= calls'
      BY SMT, <1>1, <2>2, <2>4, Numbers DEF Numbered
    <3>2. \A d \in Callers : call'[d].n <= calls' /\ ((call'[d].pc = "idle") <=> (call'[d].n = 0))
      BY SMT, <1>1, <1>3, <1>4, Numbers DEF Numbered
    <3>3. \A d, e \in Callers : call'[d].n = call'[e].n /\ call'[d].n # 0 => d = e
      BY <1>3, <1>4, <1>6 DEF Numbered
    <3>4. \A i \in 1..Len(broker.added) : broker.added[i] <= calls'
      BY SMT, <1>1, Numbers DEF Numbered
    <3> QED  BY <1>3, <1>4, <1>5, <3>1, <3>2, <3>3, <3>4 DEF Numbered
  <2>8. Somewhere'
    <3>1. \A i \in 1..Len(wire'), j \in 1..Len(broker.added) : wire'[i].n # broker.added[j]
      BY SMT, <2>2, <2>4, <2>6 DEF Somewhere
    <3>2. \A i \in 1..Len(wire'), d \in Callers : call'[d].n = wire'[i].n =>
             d = wire'[i].who /\ call'[d].op = wire'[i].op /\ call'[d].reply # "busy"
      BY SMT, <1>3, <1>4, <1>6, <1>7, <2>2, <2>4 DEF Somewhere
    <3>3. \A d \in Callers : call'[d].pc = "backoff" => call'[d].reply = "busy" /\ call'[d].op = "Enqueue"
      BY <1>3, <1>4 DEF Somewhere
    <3>4. \A d \in Callers, j \in 1..Len(broker.added) :
             call'[d].reply = "busy" => call'[d].n # broker.added[j]
      BY SMT, <1>3, <1>4 DEF Somewhere
    <3> QED  BY <1>5, <2>5, <3>1, <3>2, <3>3, <3>4 DEF Somewhere
  <2> QED  BY SMT, <1>1, <1>2, <2>1, <2>7, <2>8 DEF Exchanged
<1> QED  BY <1>8, <1>9 DEF Start, Post

\* A call that is over.
LEMMA IdleStep ==
  ASSUME Typed, Numbered, Somewhere, UNCHANGED <<wire, calls, broker>>,
         NEW c \in Callers, call' = [call EXCEPT ![c] = Idle]
  PROVE  Exchanged
<1>1. \A d \in Callers : d # c => call'[d] = call[d]
  BY DEF Typed
<1>2. Idle \in Calls
  BY DEF Idle, Calls, Replies, Nothing
<1>3. call'[c] = Idle /\ call' \in [Callers -> Calls]
  BY <1>2 DEF Typed
<1>4. Numbered'
  BY SMT, <1>1, <1>3 DEF Numbered, Typed, Idle
<1>5. \A i \in 1..Len(wire) : wire[i].n # 0
  BY DEF Numbered
<1>6. call'[c].n = 0 /\ call'[c].reply # "busy" /\ call'[c].pc # "backoff"
  BY <1>3 DEF Idle, Nothing
<1>7. Somewhere'
  BY SMT, <1>1, <1>5, <1>6 DEF Somewhere
<1> QED  BY <1>3, <1>4, <1>7 DEF Exchanged, Typed

\* A call that returns, or goes into its backoff after "busy".
LEMMA BackStep ==
  ASSUME Typed, Numbered, Somewhere, UNCHANGED <<wire, calls, broker>>,
         NEW c \in Callers, NEW R \in SUBSET {"busy"},
         call[c].pc = "waiting", R = {} \/ call[c].op = "Enqueue",
         call' = Back(c, call[c].reply, R)
  PROVE  Exchanged
<1>1. \A d \in Callers : d # c => call'[d] = call[d]
  BY DEF Back, Typed
<1>3. CASE call' = [call EXCEPT ![c] = Idle]
  BY <1>3, IdleStep
<1>4. CASE call' # [call EXCEPT ![c] = Idle]
  <2>1. call[c].reply = "busy" /\ call[c].op = "Enqueue"
    BY <1>4 DEF Back, Retries
  <2>2. call' = [call EXCEPT ![c].pc = "backoff", ![c].reply = "busy"]
    BY <1>4, <2>1 DEF Back
  <2> DEFINE told == [call[c] EXCEPT !.pc = "backoff", !.reply = "busy"]
  <2>0. call' = [call EXCEPT ![c] = told] /\ told \in Calls
    BY <2>2, Numbers DEF Calls, Replies
  <2>3. call'[c] = told /\ call' \in [Callers -> Calls]
    BY <2>0 DEF Typed
  <2>4. /\ call'[c].n = call[c].n /\ call'[c].op = call[c].op
        /\ call'[c].reply = "busy" /\ call'[c].pc = "backoff"
    BY <2>3 DEF Typed, Calls
  <2>5. Numbered'
    BY SMT, <1>1, <2>4 DEF Numbered
  <2>6. Somewhere'
    BY SMT, <1>1, <2>1, <2>4 DEF Somewhere
  <2> QED  BY <2>3, <2>5, <2>6 DEF Exchanged, Typed
<1> QED  BY <1>3, <1>4

LEMMA AgainTyped ==
  ASSUME NEW x \in Calls, NEW k \in Nat, NEW r \in Replies
  PROVE  [x EXCEPT !.pc = "waiting", !.on = k, !.attempt = @ + 1, !.reply = r] \in Calls
<1>1. x.attempt + 1 \in Nat /\ x.op \in Ops \cup {Nothing} /\ x.n \in Nat
  BY SMT DEF Calls
<1> QED  BY <1>1 DEF Calls

\* The next attempt: the number goes on the wire again, where it was not.
LEMMA ResendStep ==
  ASSUME Typed, Numbered, Somewhere, broker' = broker,
         NEW c \in Callers, NEW k \in Nat, Resend(c, k)
  PROVE  Exchanged
<1> DEFINE again == [call[c] EXCEPT !.pc = "waiting", !.on = k, !.attempt = @ + 1,
                                    !.reply = ReplyNow(k)]
           rq == Request(c, call[c].op, call[c].n)
<1>1. call[c].reply = "busy" /\ call[c].op = "Enqueue" /\ call[c].pc = "backoff"
  BY DEF Resend, Somewhere
<1>2. call' = [call EXCEPT ![c] = again] /\ again \in Calls
  <2>1. call[c] \in Calls /\ ReplyNow(k) \in Replies
    BY Numbers DEF Replies, ReplyNow, Nothing
  <2>2. again \in Calls
    BY <2>1, AgainTyped
  <2>3. call' = [call EXCEPT ![c] = again]
    BY DEF Resend, Typed
  <2> QED  BY <2>2, <2>3
<1>3. /\ again.n = call[c].n /\ again.op = call[c].op /\ again.pc = "waiting"
      /\ again.reply # "busy"
  BY Numbers DEF Calls, ReplyNow, Nothing
<1> HIDE DEF again
<1>4. call' \in [Callers -> Calls] /\ call'[c] = again /\ \A d \in Callers : d # c => call'[d] = call[d]
  BY <1>2 DEF Typed
<1>5. call[c].n # 0 /\ call[c].n <= calls /\ calls' = calls
  BY <1>1 DEF Numbered, Resend
<1>6. \A i \in 1..Len(wire) : wire[i].n # call[c].n
  BY <1>1 DEF Somewhere
<1>7. CASE wire' = wire
  <2>1. Numbered'
    BY SMT, <1>1, <1>3, <1>4, <1>5, <1>7 DEF Numbered
  <2>2. Somewhere'
    BY SMT, <1>3, <1>4, <1>6, <1>7 DEF Somewhere
  <2> QED  BY <1>4, <1>5, <1>7, <2>1, <2>2 DEF Exchanged, Typed
<1>8. CASE wire' = Append(wire, rq)
  <2>1. rq \in Sent /\ rq.n = call[c].n /\ rq.who = c /\ rq.op = call[c].op
    BY <1>1, Numbers DEF Sent, Request, Ops
  <2> HIDE DEF rq
  <2>2. /\ wire' \in Seq(Sent) /\ Len(wire') = Len(wire) + 1 /\ Len(wire) \in Nat
        /\ \A i \in 1..Len(wire) : wire'[i] = wire[i]
        /\ wire'[Len(wire) + 1] = rq
    BY SMT, <1>8, <2>1, AppendProperties, LenProperties DEF Typed
  <2>3. \A i \in 1..Len(wire') : i = Len(wire) + 1 \/ i \in 1..Len(wire)
    BY SMT, <2>2
  <2>4. \A i \in 1..Len(wire') : wire'[i] = rq \/ (i \in 1..Len(wire) /\ wire'[i] = wire[i])
    BY <2>2, <2>3
  <2>5. \A i, j \in 1..Len(wire') : wire'[i].n = wire'[j].n => i = j
    BY SMT, <1>6, <2>1, <2>2, <2>3 DEF Somewhere
  <2>6. Numbered'
    <3>1. \A i \in 1..Len(wire') : wire'[i].n # 0 /\ wire'[i].n <= calls'
      BY <1>5, <2>1, <2>4 DEF Numbered
    <3> QED  BY SMT, <1>1, <1>3, <1>4, <1>5, <3>1 DEF Numbered
  <2>7. Somewhere'
    <3>1. \A i \in 1..Len(wire'), j \in 1..Len(broker.added) : wire'[i].n # broker.added[j]
      BY SMT, <1>1, <2>1, <2>4 DEF Somewhere
    <3>2. \A d \in Callers : call'[d].n = call[c].n => d = c
      BY <1>4, <1>5 DEF Numbered
    <3>3. \A i \in 1..Len(wire'), d \in Callers : call'[d].n = wire'[i].n =>
             d = wire'[i].who /\ call'[d].op = wire'[i].op /\ call'[d].reply # "busy"
      BY SMT, <1>3, <1>4, <1>6, <2>1, <2>4, <3>2 DEF Somewhere
    <3>4. \A d \in Callers : call'[d].pc = "backoff" => call'[d].reply = "busy" /\ call'[d].op = "Enqueue"
      BY <1>3, <1>4 DEF Somewhere
    <3>5. \A d \in Callers, j \in 1..Len(broker.added) :
             call'[d].reply = "busy" => call'[d].n # broker.added[j]
      BY SMT, <1>3, <1>4 DEF Somewhere
    <3> QED  BY <2>5, <3>1, <3>3, <3>4, <3>5 DEF Somewhere
  <2> QED  BY <1>4, <1>5, <2>2, <2>6, <2>7 DEF Exchanged, Typed
<1> QED  BY <1>7, <1>8 DEF Resend, Post

\* Calls that wait for their answer learn that none will come.
LEMMA ReplyStep ==
  ASSUME Typed, Numbered, Somewhere, UNCHANGED <<calls, broker>>,
         wire' = wire \/ wire' = <<>>,
         call' \in [Callers -> Calls],
         \A c \in Callers : /\ call'[c].n = call[c].n /\ call'[c].op = call[c].op /\ call'[c].pc = call[c].pc
                            /\ \/ call'[c].reply = call[c].reply
                               \/ call'[c].reply # "busy" /\ call[c].pc = "waiting"
  PROVE  Exchanged
<1>1. wire' \in Seq(Sent)
  BY EmptySeq DEF Typed
<1>2. \A i \in 1..Len(wire') : wire' = wire
  BY SMT, EmptySeq
<1>3. Numbered'
  BY SMT, <1>2 DEF Numbered
<1>4. Somewhere'
  <2>1. \A i \in 1..Len(wire'), c \in Callers : call'[c].n = wire'[i].n =>
           c = wire'[i].who /\ call'[c].op = wire'[i].op /\ call'[c].reply # "busy"
    BY SMT, <1>2 DEF Somewhere
  <2>2. \A c \in Callers : call'[c].pc = "backoff" => call'[c].reply = "busy" /\ call'[c].op = "Enqueue"
    BY DEF Somewhere
  <2>3. \A c \in Callers, j \in 1..Len(broker.added) : call'[c].reply = "busy" => call'[c].n # broker.added[j]
    BY SMT DEF Somewhere
  <2> QED  BY SMT, <1>2, <2>1, <2>2, <2>3 DEF Somewhere
<1> QED  BY <1>1, <1>3, <1>4 DEF Exchanged, Typed

\* What the broker may answer, and what it has done then.
LEMMA Outcomes ==
  ASSUME Typed, NEW rq \in Sent, NEW e \in Execute(rq)
  PROVE  /\ e[1] \in {"ok", "busy", "refused"} /\ e[2] \in Brokers
         /\ broker.settled => e[2].settled
         /\ e[1] = "ok" /\ rq.op \in Settling => e[2].settled
         /\ \/ e[2].added = broker.added
            \/ e[1] = "ok" /\ e[2].added = Append(broker.added, rq.n)
<1>1. broker \in Brokers /\ rq.op \in Ops /\ rq.n \in Nat
  BY DEF Typed, Sent
<1>2. broker.added \in Seq(Nat) /\ Append(broker.added, rq.n) \in Seq(Nat)
  BY <1>1, AppendProperties DEF Brokers
<1>3. CASE rq.op = "Enqueue"
  <2>1. e \in Refusal \cup {Busy, <<"ok", [broker EXCEPT !.added = Append(@, rq.n)]>>}
    BY <1>3 DEF Execute
  <2>2. [broker EXCEPT !.added = Append(@, rq.n)] \in Brokers
    BY <1>1, <1>2 DEF Brokers
  <2>3. CASE e = <<"ok", [broker EXCEPT !.added = Append(@, rq.n)]>>
    <3>1. e[2].settled = broker.settled /\ e[2].added = Append(broker.added, rq.n)
      BY <1>1, <2>3 DEF Brokers
    <3> QED  BY <1>3, <2>2, <2>3, <3>1 DEF Settling
  <2>4. CASE e \in Refusal \/ e = Busy
    BY SMT, <1>1, <2>4 DEF Refusal, Busy
  <2> QED  BY <2>1, <2>3, <2>4
<1>4. CASE rq.op = "Reserve"
  <2>1. e \in Refusal \/ e = <<"ok", [broker EXCEPT !.held = "reserved"]>>
    BY <1>4 DEF Execute
  <2> QED  BY SMT, <1>1, <1>2, <1>4, <2>1 DEF Refusal, Brokers, Settling
<1>5. CASE rq.op = "Extend"
  <2>1. e \in Refusal \/ e = <<"ok", broker>>
    BY <1>5 DEF Execute, IfReserved
  <2> QED  BY SMT, <1>1, <1>2, <1>5, <2>1 DEF Refusal, Settling
<1>6. CASE rq.op = "Complete"
  <2>1. e \in Refusal \/ e = Busy \/ e = <<"ok", [broker EXCEPT !.held = "gone", !.settled = TRUE]>>
    BY <1>6 DEF Execute, IfReserved
  <2>2. CASE e = <<"ok", [broker EXCEPT !.held = "gone", !.settled = TRUE]>>
    <3>1. e[1] = "ok" /\ e[2] = [broker EXCEPT !.held = "gone", !.settled = TRUE]
      BY <2>2
    <3>2. e[2] \in Brokers /\ e[2].settled /\ e[2].added = broker.added
      BY <1>1, <3>1 DEF Brokers
    <3> QED  BY <3>1, <3>2
  <2>3. CASE e \in Refusal \/ e = Busy
    BY SMT, <1>1, <2>3 DEF Refusal, Busy
  <2> QED  BY <2>1, <2>2, <2>3
<1>7. CASE rq.op = "Nack"
  <2>1. e \in Refusal \/ e = Busy \/ e = <<"ok", [broker EXCEPT !.held = "ready", !.settled = TRUE]>>
    BY <1>7 DEF Execute, IfReserved
  <2>2. CASE e = <<"ok", [broker EXCEPT !.held = "ready", !.settled = TRUE]>>
    <3>1. e[1] = "ok" /\ e[2] = [broker EXCEPT !.held = "ready", !.settled = TRUE]
      BY <2>2
    <3>2. e[2] \in Brokers /\ e[2].settled /\ e[2].added = broker.added
      BY <1>1, <3>1 DEF Brokers
    <3> QED  BY <3>1, <3>2
  <2>3. CASE e \in Refusal \/ e = Busy
    BY SMT, <1>1, <2>3 DEF Refusal, Busy
  <2> QED  BY <2>1, <2>2, <2>3
<1> QED  BY <1>1, <1>3, <1>4, <1>5, <1>6, <1>7 DEF Ops

-----------------------------------------------------------------------------
(* The broker's answers, and the item                                      *)

\* What the broker's answer changes in the calls.
LEMMA AnswerChanges ==
  ASSUME Typed, NEW rq \in Sent, NEW r \in Replies, call' = Answer(rq, r)
  PROVE  /\ call' \in [Callers -> Calls]
         /\ \A c \in Callers :
               /\ call'[c].n = call[c].n /\ call'[c].op = call[c].op /\ call'[c].pc = call[c].pc
               /\ \/ call'[c].reply = call[c].reply
                  \/ c = rq.who /\ call[c].n = rq.n /\ call[c].pc = "waiting" /\ call'[c].reply = r
<1>1. rq.who \in Callers
  BY DEF Sent
<1>2. CASE call' = call
  BY <1>2 DEF Typed
<1>3. CASE call' # call
  <2> DEFINE x == call[rq.who]
             told == [x EXCEPT !.reply = r]
  <2>1. x.pc = "waiting" /\ x.n = rq.n /\ call' = [call EXCEPT ![rq.who] = told]
    BY <1>3 DEF Answer
  <2>2. x \in Calls
    BY <1>1 DEF Typed
  <2>3. told \in Calls /\ told.n = x.n /\ told.op = x.op /\ told.pc = x.pc /\ told.reply = r
    BY <2>2 DEF Calls
  <2> HIDE DEF told
  <2>4. call' \in [Callers -> Calls] /\ call'[rq.who] = told
        /\ \A c \in Callers : c # rq.who => call'[c] = call[c]
    BY <1>1, <2>1, <2>3 DEF Typed
  <2> QED  BY <2>1, <2>3, <2>4
<1> QED  BY <1>2, <1>3

\* The broker executes the oldest request: its number leaves the wire, and is
\* then among the messages added or the caller has been told otherwise.
LEMMA ExecuteStep ==
  ASSUME Typed, Numbered, Somewhere, QueueBrokerExecutes
  PROVE  Exchanged
<1> DEFINE rq == Head(wire)
<1>1. /\ rq \in Sent /\ rq = wire[1] /\ 1 \in 1..Len(wire) /\ wire' = Tail(wire) /\ wire' \in Seq(Sent)
      /\ \A i \in 1..Len(wire') : i + 1 \in 1..Len(wire) /\ i + 1 # 1 /\ wire'[i] = wire[i + 1]
  <2>1. wire \in Seq(Sent) /\ wire # <<>> /\ wire' = Tail(wire)
    BY DEF Typed, QueueBrokerExecutes
  <2>2. Len(wire) \in Nat \ {0} /\ Head(wire) = wire[1]
    BY SMT, <2>1, EmptySeq
  <2>3. /\ Head(wire) \in Sent /\ Tail(wire) \in Seq(Sent) /\ Len(Tail(wire)) = Len(wire) - 1
        /\ \A i \in 1..Len(Tail(wire)) : Tail(wire)[i] = wire[i + 1]
    BY <2>1, HeadTailProperties
  <2> QED  BY SMT, <2>1, <2>2, <2>3
<1> HIDE DEF rq
<1>2. PICK e \in Execute(rq) : broker' = e[2] /\ call' = Answer(rq, e[1]) /\ calls' = calls
  BY DEF QueueBrokerExecutes, rq
<1>3. /\ e[1] \in {"ok", "busy", "refused"}
      /\ \/ broker'.added = broker.added
         \/ e[1] = "ok" /\ broker'.added = Append(broker.added, rq.n)
  BY <1>1, <1>2, Outcomes
<1>4. /\ call' \in [Callers -> Calls]
      /\ \A c \in Callers :
            /\ call'[c].n = call[c].n /\ call'[c].op = call[c].op /\ call'[c].pc = call[c].pc
            /\ \/ call'[c].reply = call[c].reply
               \/ c = rq.who /\ call[c].n = rq.n /\ call[c].pc = "waiting" /\ call'[c].reply = e[1]
  <2>1. e[1] \in Replies
    BY <1>3 DEF Replies
  <2> QED  BY <1>1, <1>2, <2>1, AnswerChanges
<1>5. rq.n # 0 /\ rq.n <= calls /\ rq.n \in Nat
  BY <1>1, Numbers DEF Numbered
<1>6. /\ \A i \in 1..Len(wire') : wire'[i].n # rq.n
      /\ \A j \in 1..Len(broker.added) : broker.added[j] # rq.n
  BY <1>1 DEF Somewhere
<1>7. \A c \in Callers : call[c].reply = "busy" => call[c].n # rq.n
  BY <1>1 DEF Somewhere
<1>8. \A j \in 1..Len(broker'.added) :
         \/ j \in 1..Len(broker.added) /\ broker'.added[j] = broker.added[j]
         \/ e[1] = "ok" /\ j = Len(broker.added) + 1 /\ broker'.added[j] = rq.n
  <2>1. broker.added \in Seq(Nat)
    BY DEF Typed, Brokers
  <2>2. Len(broker.added) \in Nat
    BY Numbers
  <2>3. CASE broker'.added = broker.added
    BY <2>3
  <2>4. CASE e[1] = "ok" /\ broker'.added = Append(broker.added, rq.n)
    <3>1. /\ Len(broker'.added) = Len(broker.added) + 1
          /\ \A j \in 1..Len(broker.added) : broker'.added[j] = broker.added[j]
          /\ broker'.added[Len(broker.added) + 1] = rq.n
      BY SMT, <1>5, <2>1, <2>4, AppendProperties
    <3> QED  BY SMT, <2>2, <2>4, <3>1
  <2> QED  BY <1>3, <2>3, <2>4
<1>9. Numbered'
  <2>1. \A j \in 1..Len(broker'.added) : broker'.added[j] <= calls'
    BY <1>2, <1>5, <1>8 DEF Numbered
  <2>2. \A i \in 1..Len(wire') : wire'[i].n # 0 /\ wire'[i].n <= calls'
    BY <1>1, <1>2 DEF Numbered
  <2> QED  BY SMT, <1>2, <1>4, <2>1, <2>2 DEF Numbered
<1>10. Somewhere'
  <2>1. \A i, j \in 1..Len(wire') : wire'[i].n = wire'[j].n => i = j
    <3> SUFFICES ASSUME NEW i \in 1..Len(wire'), NEW j \in 1..Len(wire'), wire'[i].n = wire'[j].n
                 PROVE  i = j
      OBVIOUS
    <3>1. i + 1 = j + 1
      BY SMT, <1>1 DEF Somewhere
    <3> QED  BY SMT, <3>1
  <2>2. \A i \in 1..Len(wire'), j \in 1..Len(broker'.added) : wire'[i].n # broker'.added[j]
    BY SMT, <1>1, <1>6, <1>8 DEF Somewhere
  <2>3. \A i, j \in 1..Len(broker'.added) : broker'.added[i] = broker'.added[j] => i = j
    BY <1>6, <1>8 DEF Somewhere
  <2>4. \A i \in 1..Len(wire'), c \in Callers : call'[c].n = wire'[i].n =>
           c = wire'[i].who /\ call'[c].op = wire'[i].op /\ call'[c].reply # "busy"
    BY SMT, <1>1, <1>4, <1>6 DEF Somewhere
  <2>5. \A c \in Callers, j \in 1..Len(broker'.added) :
           call'[c].reply = "busy" => call'[c].n # broker'.added[j]
    BY SMT, <1>4, <1>6, <1>7, <1>8 DEF Somewhere
  <2>6. \A c \in Callers : call'[c].pc = "backoff" => call'[c].reply = "busy" /\ call'[c].op = "Enqueue"
    BY <1>4 DEF Somewhere
  <2> QED  BY <2>1, <2>2, <2>3, <2>4, <2>5, <2>6 DEF Somewhere
<1> QED  BY <1>1, <1>2, <1>4, <1>9, <1>10 DEF Exchanged, Typed

-----------------------------------------------------------------------------
(* The item.                                                               *)

\* Steps that leave the item, and who is settling it, alone.
LEMMA ItemKept ==
  ASSUME Item, handle' = handle,
         broker.settled => broker'.settled,
         \A c \in Callers : (c \in SettleCalls)' <=> c \in SettleCalls,
         \A c \in Callers : (call'[c].op = "Reserve") => (call[c].op = "Reserve"),
         \A c \in SettleCalls : call'[c].reply = "ok" => call[c].reply = "ok" \/ broker'.settled
  PROVE  Item'
<1>1. SettleCalls' = SettleCalls
  BY DEF SettleCalls
<1> QED  BY <1>1 DEF Item

\* A call that starts with something else than settling or reserving.
LEMMA ItemStart ==
  ASSUME Typed, Item, UNCHANGED <<handle, broker>>, NEW c \in Callers, Free(c),
         NEW op \in {"Enqueue", "Extend"}, NEW k \in Nat, Start(c, op, k)
  PROVE  Item'
<1>1. call'[c].op = op /\ \A d \in Callers : d # c => call'[d] = call[d]
  BY DEF Typed, Start
<1>2. c \notin SettleCalls
  BY DEF SettleCalls, Free
<1>3. \A d \in Callers : (d \in SettleCalls)' <=> d \in SettleCalls
  BY <1>1, <1>2 DEF SettleCalls, Settling
<1> QED  BY <1>1, <1>2, <1>3, ItemKept DEF SettleCalls

\* A call other than a settling one that ends or goes into its backoff.
LEMMA ItemBack ==
  ASSUME Typed, Item, UNCHANGED <<handle, broker>>, NEW c \in Callers,
         call[c].op \notin Settling,
         call'[c] = Idle \/ call'[c].op = call[c].op,
         \A d \in Callers : d # c => call'[d] = call[d]
  PROVE  Item'
<1>1. call'[c].op \notin Settling /\ (call'[c].op = "Reserve" => call[c].op = "Reserve")
  BY SMT DEF Idle, Nothing, Settling
<1>2. \A d \in Callers : (d \in SettleCalls)' <=> d \in SettleCalls
  BY <1>1 DEF SettleCalls
<1>3. c \notin SettleCalls
  BY DEF SettleCalls
<1> QED  BY <1>1, <1>2, <1>3, ItemKept DEF SettleCalls

LEMMA ItemReserve ==
  ASSUME Typed, Item, NEW c \in Callers, Reserve(c)
  PROVE  Item'
<1>1. call'[c].op = "Reserve" /\ \A d \in Callers : d # c => call'[d] = call[d]
  BY DEF Typed, Start, Reserve
<1>2. c \notin SettleCalls /\ handle = NoItem /\ UNCHANGED <<handle, broker>>
  BY DEF SettleCalls, Free, Reserve
<1>3. SettleCalls' = SettleCalls
  BY <1>1, <1>2 DEF SettleCalls, Settling
<1>4. \A d \in Callers : call[d].op # "Reserve"
  BY DEF Reserve
<1>5. \A d \in SettleCalls : call'[d] = call[d]
  BY <1>1, <1>2 DEF SettleCalls
<1> QED  BY <1>1, <1>2, <1>3, <1>4, <1>5 DEF Item

LEMMA ItemReserveReturns ==
  ASSUME Typed, Item, NEW c \in Callers, ReserveReturns(c)
  PROVE  Item'
<1>1. call' = [call EXCEPT ![c] = Idle] /\ call[c].op = "Reserve" /\ broker' = broker
  BY DEF ReserveReturns, Back, Retries
<1>2. call'[c] = Idle /\ \A d \in Callers : d # c => call'[d] = call[d]
  BY <1>1 DEF Typed
<1>3. handle = NoItem /\ SettleCalls = {}
  BY SMT, <1>1 DEF Item, NoItem
<1>4. SettleCalls' = {}
  BY SMT, <1>2, <1>3 DEF SettleCalls, Idle
<1>5. \A d \in Callers : call'[d].op # "Reserve"
  BY SMT, <1>1, <1>2 DEF Item, Idle, Nothing
<1>6. handle'.state = 0
  BY <1>3 DEF ReserveReturns, NoItem
<1> QED  BY SMT, <1>4, <1>5, <1>6 DEF Item

\* The CompareAndSwap lets one call settle the item.
LEMMA ItemSettle ==
  ASSUME Typed, Item, NEW c \in Callers, NEW op \in Settling, Settle(c, op)
  PROVE  Item'
<1>1. /\ handle.state = 0 /\ handle.on = conn /\ handle.on # 0 /\ broker' = broker
      /\ handle' = [handle EXCEPT !.state = 1] /\ up
  BY DEF Settle, Admitted, Live, Typed
<1>2. handle'.state = 1 /\ handle'.on # 0
  BY <1>1 DEF Typed
<1>3. SettleCalls = {} /\ \A d \in Callers : call[d].op # "Reserve"
  BY SMT, <1>1 DEF Item, NoItem
<1>4. /\ call'[c].op = op /\ call'[c].pc = "waiting" /\ call'[c].reply # "ok"
      /\ \A d \in Callers : d # c => call'[d] = call[d]
  BY DEF Typed, Settle, Start, ReplyNow, Nothing
<1>5. SettleCalls' = {c}
  BY <1>3, <1>4 DEF SettleCalls
<1>6. \A d \in Callers : call'[d].op # "Reserve"
  BY <1>3, <1>4 DEF Settling
<1> QED  BY SMT, <1>1, <1>2, <1>4, <1>5, <1>6 DEF Item

\* The settling call stores 2 after "ok" and swaps 1 back to 0 otherwise.
LEMMA ItemSettleReturns ==
  ASSUME Typed, Item, NEW c \in Callers, SettleReturns(c)
  PROVE  Item'
<1>1. call' = [call EXCEPT ![c] = Idle] /\ c \in SettleCalls /\ broker' = broker
  BY DEF SettleReturns, Back, Retries, SettleCalls
<1>2. call'[c] = Idle /\ \A d \in Callers : d # c => call'[d] = call[d]
  BY <1>1 DEF Typed
<1>3. SettleCalls = {c} /\ handle.state = 1 /\ handle.on # 0
  BY <1>1 DEF Item
<1>4. SettleCalls' = {}
  BY SMT, <1>2, <1>3 DEF SettleCalls, Idle
<1>5. handle'.state = StateAfter(call[c].reply)
  BY DEF SettleReturns, Typed
<1>6. \A d \in Callers : call'[d].op # "Reserve"
  BY SMT, <1>2, <1>3 DEF Item, Idle, Nothing, NoItem
<1>7. handle'.state # 1 /\ (handle'.state = 2 => broker.settled)
  BY SMT, <1>1, <1>5 DEF StateAfter, Item
<1> QED  BY <1>1, <1>4, <1>6, <1>7 DEF Item

LEMMA ItemExecute ==
  ASSUME Typed, Somewhere, Item, QueueBrokerExecutes
  PROVE  Item' /\ broker' \in Brokers
<1> DEFINE rq == Head(wire)
<1>1. rq \in Sent /\ rq = wire[1] /\ 1 \in 1..Len(wire)
  <2>1. wire \in Seq(Sent) /\ wire # <<>>
    BY DEF Typed, QueueBrokerExecutes
  <2>2. Len(wire) \in Nat \ {0} /\ Head(wire) = wire[1]
    BY SMT, <2>1, EmptySeq
  <2> QED  BY SMT, <2>1, <2>2, HeadTailProperties
<1> HIDE DEF rq
<1>2. PICK e \in Execute(rq) : broker' = e[2] /\ call' = Answer(rq, e[1])
  BY DEF QueueBrokerExecutes, rq
<1>3. /\ e[1] \in Replies /\ broker' \in Brokers /\ (broker.settled => broker'.settled)
      /\ e[1] = "ok" /\ rq.op \in Settling => broker'.settled
  BY <1>1, <1>2, Outcomes DEF Replies
<1>4. \A c \in Callers :
         /\ call'[c].op = call[c].op /\ call'[c].pc = call[c].pc
         /\ call'[c].reply = call[c].reply \/ (call[c].n = rq.n /\ call'[c].reply = e[1])
  BY SMT, <1>1, <1>2, <1>3, AnswerChanges
<1>5. \A c \in Callers : call[c].n = rq.n => call[c].op = rq.op
  BY <1>1 DEF Somewhere
<1>6. \A c \in Callers : (c \in SettleCalls)' <=> c \in SettleCalls
  BY <1>4 DEF SettleCalls
<1>7. \A c \in SettleCalls : call'[c].reply = "ok" => call[c].reply = "ok" \/ broker'.settled
  BY <1>3, <1>4, <1>5 DEF SettleCalls
<1>8. handle' = handle
  BY DEF QueueBrokerExecutes
<1> QED  BY <1>3, <1>4, <1>6, <1>7, <1>8, ItemKept

\* Calls that learn that no answer will come are not told "ok".
LEMMA ItemReplies ==
  ASSUME Typed, Item, UNCHANGED <<handle, broker>>,
         \A c \in Callers : /\ call'[c].op = call[c].op /\ call'[c].pc = call[c].pc
                            /\ call'[c].reply = call[c].reply \/ call'[c].reply # "ok"
  PROVE  Item'
<1>1. \A c \in Callers : (c \in SettleCalls)' <=> c \in SettleCalls
  BY DEF SettleCalls
<1> QED  BY <1>1, ItemKept DEF SettleCalls

LEMMA ContextStep ==
  ASSUME Typed, Numbered, Somewhere, Item, NEW c \in Callers, QueueContextEnds(c)
  PROVE  Exchanged /\ Item'
<1> DEFINE x == call[c]
           cut == [x EXCEPT !.reply = "deadline"]
<1>1. x \in Calls /\ x.pc = "waiting" /\ call' = [call EXCEPT ![c] = cut]
  BY DEF QueueContextEnds, ContextEnds, Typed
<1>2. cut \in Calls /\ cut.n = x.n /\ cut.op = x.op /\ cut.pc = x.pc /\ cut.reply = "deadline"
  BY <1>1 DEF Calls, Replies
<1> HIDE DEF cut
<1>3. call' \in [Callers -> Calls] /\ call'[c] = cut /\ \A d \in Callers : d # c => call'[d] = call[d]
  BY <1>1, <1>2 DEF Typed
<1>4. UNCHANGED <<calls, broker, wire, handle>>
  BY DEF QueueContextEnds, ContextEnds
<1>5. Exchanged
  BY <1>1, <1>2, <1>3, <1>4, ReplyStep
<1>6. Item'
  BY <1>2, <1>3, <1>4, ItemReplies
<1> QED  BY <1>5, <1>6

LEMMA LostStep ==
  ASSUME Typed, Numbered, Somewhere, Item, QueueConnLost
  PROVE  Exchanged /\ Item'
<1>1. PICK lost \in SUBSET {c \in Callers : call[c].pc = "waiting" /\ call[c].reply \in {Nothing, "ok"}} :
         call' = [c \in Callers |-> IF c \in lost THEN [call[c] EXCEPT !.reply = "closed"] ELSE call[c]]
  BY DEF QueueConnLost, ConnLost
<1>2. ASSUME NEW x \in Calls, NEW y, y = [x EXCEPT !.reply = "closed"]
      PROVE  y \in Calls /\ y.n = x.n /\ y.op = x.op /\ y.pc = x.pc /\ y.reply = "closed"
  BY <1>2 DEF Calls, Replies
<1>3. \A c \in Callers : call[c] \in Calls
  BY DEF Typed
<1>4. call' \in [Callers -> Calls]
  BY <1>1, <1>2, <1>3
<1>5. \A c \in Callers : /\ call'[c].n = call[c].n /\ call'[c].op = call[c].op /\ call'[c].pc = call[c].pc
                         /\ \/ call'[c].reply = call[c].reply
                            \/ call'[c].reply = "closed" /\ call[c].pc = "waiting"
  BY <1>1, <1>2, <1>3
<1>6. UNCHANGED <<calls, broker, handle>> /\ wire' = <<>>
  BY DEF QueueConnLost, ConnLost
<1>7. Exchanged
  BY <1>4, <1>5, <1>6, ReplyStep
<1>8. Item'
  BY <1>5, <1>6, ItemReplies
<1> QED  BY <1>7, <1>8

-----------------------------------------------------------------------------
\* QueueInv holds in every state of the queue client, for any Callers and any
\* bounds.
THEOREM QueueInvariance == QueueSpec => []QueueInv
<1>1. ASSUME QueueInv, [QueueNext]_queueVars
      PROVE  QueueInv'
  <2>0. Typed /\ Numbered /\ Somewhere /\ Item
    BY <1>1 DEF QueueInv
  <2>1. ASSUME Exchanged, Item', conn' \in Nat \ {0}, up' \in BOOLEAN,
               handle' \in [on : Nat, state : {0, 1, 2}], broker' \in Brokers
        PROVE  QueueInv'
    BY <2>1 DEF Exchanged, Typed, QueueInv
  <2>2. conn \in Nat /\ handle.on \in Nat /\ Typed
    BY <2>0 DEF Typed
  <2>3. ASSUME NEW c \in Callers, Enqueue(c) PROVE QueueInv'
    BY <2>0, <2>1, <2>2, <2>3, StartStep, ItemStart DEF Enqueue, Start, Typed, Ops
  <2>4. ASSUME NEW c \in Callers, EnqueueReturns(c) PROVE QueueInv'
    <3>1. Exchanged
      BY <2>0, <2>4, BackStep DEF EnqueueReturns, RetryOnFull
    <3>2. call[c] \in Calls /\ call[c].op \notin Settling
      BY <2>0, <2>4 DEF EnqueueReturns, Settling, Typed
    <3>3. /\ call'[c] = Idle \/ call'[c].op = call[c].op
          /\ \A d \in Callers : d # c => call'[d] = call[d]
      BY <2>0, <2>4, <3>2 DEF EnqueueReturns, Back, Typed, Calls
    <3>4. Item'
      BY <2>0, <2>4, <3>2, <3>3, ItemBack DEF EnqueueReturns
    <3> QED  BY <2>0, <2>1, <2>4, <3>1, <3>4 DEF EnqueueReturns, Typed
  <2>5. ASSUME NEW c \in Callers, EnqueueAgain(c) PROVE QueueInv'
    <3>1. Exchanged
      BY <2>0, <2>2, <2>5, ResendStep DEF EnqueueAgain
    <3>2. call[c] \in Calls /\ call[c].op = "Enqueue"
      BY <2>0, <2>5 DEF EnqueueAgain, Resend, Somewhere, Typed
    <3>3. call'[c].op = call[c].op /\ \A d \in Callers : d # c => call'[d] = call[d]
      BY <2>0, <2>5, <3>2 DEF EnqueueAgain, Resend, Typed, Calls
    <3>4. Item'
      BY <2>0, <2>5, <3>2, <3>3, ItemBack DEF EnqueueAgain, Settling
    <3> QED  BY <2>0, <2>1, <2>5, <3>1, <3>4 DEF EnqueueAgain, Resend, Typed
  <2>6. ASSUME NEW c \in Callers, EnqueueAborted(c) PROVE QueueInv'
    <3>1. Exchanged
      BY <2>0, <2>6, IdleStep DEF EnqueueAborted, BackoffCut
    <3>2. call[c].op = "Enqueue"
      BY <2>0, <2>6 DEF EnqueueAborted, BackoffCut, Somewhere
    <3>3. call'[c] = Idle /\ \A d \in Callers : d # c => call'[d] = call[d]
      BY <2>0, <2>6 DEF EnqueueAborted, BackoffCut, Typed
    <3>4. Item'
      BY <2>0, <2>6, <3>2, <3>3, ItemBack DEF EnqueueAborted, Settling
    <3> QED  BY <2>0, <2>1, <2>6, <3>1, <3>4 DEF EnqueueAborted, BackoffCut, Typed
  <2>7. ASSUME NEW c \in Callers, Reserve(c) PROVE QueueInv'
    BY <2>0, <2>1, <2>2, <2>7, StartStep, ItemReserve DEF Reserve, Start, Typed, Ops
  <2>8. ASSUME NEW c \in Callers, ReserveReturns(c) PROVE QueueInv'
    <3>1. Exchanged
      BY SMT, <2>0, <2>8, BackStep DEF ReserveReturns
    <3>2. handle' \in [on : Nat, state : {0, 1, 2}]
      BY <2>0, <2>2, <2>8 DEF ReserveReturns, Typed
    <3> QED  BY <2>0, <2>1, <2>8, <3>1, <3>2, ItemReserveReturns DEF ReserveReturns, Typed
  <2>9. ASSUME NEW c \in Callers, Extend(c) PROVE QueueInv'
    BY <2>0, <2>1, <2>2, <2>9, StartStep, ItemStart DEF Extend, Start, Typed, Ops
  <2>10. ASSUME NEW c \in Callers, ExtendReturns(c) PROVE QueueInv'
    <3>1. Exchanged
      BY SMT, <2>0, <2>10, BackStep DEF ExtendReturns
    <3>2. call'[c] = Idle /\ \A d \in Callers : d # c => call'[d] = call[d]
      BY <2>0, <2>10 DEF ExtendReturns, Back, Retries, Typed
    <3>3. Item'
      BY <2>0, <2>10, <3>2, ItemBack DEF ExtendReturns, Settling
    <3> QED  BY <2>0, <2>1, <2>10, <3>1, <3>3 DEF ExtendReturns, Typed
  <2>11. ASSUME NEW c \in Callers, NEW op \in Settling, Settle(c, op) PROVE QueueInv'
    <3>1. op \in Ops
      BY DEF Settling, Ops
    <3>2. Exchanged
      BY <2>0, <2>2, <2>11, <3>1, StartStep DEF Settle
    <3>3. handle' \in [on : Nat, state : {0, 1, 2}]
      BY <2>0, <2>11 DEF Settle, Typed
    <3> QED  BY <2>0, <2>1, <2>11, <3>2, <3>3, ItemSettle DEF Settle, Start, Typed
  <2>12. ASSUME NEW c \in Callers, SettleReturns(c) PROVE QueueInv'
    <3>1. Exchanged
      BY SMT, <2>0, <2>12, BackStep DEF SettleReturns
    <3>2. handle' \in [on : Nat, state : {0, 1, 2}]
      BY <2>0, <2>12 DEF SettleReturns, StateAfter, Typed
    <3> QED  BY <2>0, <2>1, <2>12, <3>1, <3>2, ItemSettleReturns DEF SettleReturns, Typed
  <2>13. ASSUME NEW c \in Callers, QueueContextEnds(c) PROVE QueueInv'
    BY <2>0, <2>1, <2>13, ContextStep DEF QueueContextEnds, ContextEnds, Typed
  <2>14. CASE QueueBrokerExecutes
    BY <2>0, <2>1, <2>14, ExecuteStep, ItemExecute DEF QueueBrokerExecutes, Typed
  <2>15. CASE QueueConnLost
    BY <2>0, <2>1, <2>15, LostStep DEF QueueConnLost, ConnLost, Typed
  <2>16. ASSUME UNCHANGED <<call, calls, wire, handle>>, broker' \in Brokers,
                broker'.added = broker.added, broker'.settled = broker.settled,
                conn' \in Nat \ {0}, up' \in BOOLEAN
         PROVE  QueueInv'
    <3>1. Exchanged
      <4>1. calls' \in Nat /\ call' \in [Callers -> Calls] /\ wire' \in Seq(Sent)
        BY <2>0, <2>16 DEF Typed
      <4>2. Numbered'
        BY <2>0, <2>16 DEF Numbered
      <4>3. Somewhere'
        BY SMT, <2>0, <2>16 DEF Somewhere
      <4> QED  BY <4>1, <4>2, <4>3 DEF Exchanged
    <3>2. Item'
      BY <2>0, <2>16, ItemKept DEF SettleCalls
    <3> QED  BY <2>0, <2>1, <2>16, <3>1, <3>2 DEF Typed
  <2>17. CASE ReservationExpires
    <3>1. broker' \in Brokers /\ broker'.added = broker.added /\ broker'.settled = broker.settled
      BY <2>0, <2>17 DEF ReservationExpires, Typed, Brokers
    <3> QED  BY <2>0, <2>16, <2>17, <3>1 DEF ReservationExpires, exchange, Typed
  <2>18. CASE QueueReplaceConnection
    BY SMT, <2>0, <2>16, <2>18 DEF QueueReplaceConnection, ReplaceConnection, Typed
  <2>19. CASE UNCHANGED queueVars
    BY <2>0, <2>16, <2>19 DEF queueVars, exchange, Typed
  <2> QED
    BY <1>1, <2>3, <2>4, <2>5, <2>6, <2>7, <2>8, <2>9, <2>10, <2>11, <2>12, <2>13, <2>14, <2>15,
       <2>17, <2>18, <2>19
    DEF QueueNext, Complete, Nack, Settling
<1> QED  BY <1>1, QueueInitial, PTL DEF QueueSpec

\* EnqueueWithOptions repeats a request only when the broker has said that it
\* did nothing: one call adds one message, however often it is retried and
\* however often the connection is lost.
THEOREM EnqueuedAtMostOnce == QueueSpec => []EnqueueOnce
<1>1. QueueInv => EnqueueOnce
  <2> SUFFICES ASSUME QueueInv PROVE EnqueueOnce
    OBVIOUS
  <2> DEFINE added == broker.added
             S == 1..Len(added)
             T == {added[i] : i \in S}
  <2>1. added \in Seq(Nat)
    BY DEF QueueInv, Typed, Brokers
  <2>2. added \in [S -> Nat] /\ DOMAIN added = S /\ Len(added) \in Nat
    BY SMT, <2>1
  <2>3. \A i, j \in S : added[i] = added[j] => i = j
    BY DEF QueueInv, Somewhere
  <2> HIDE DEF added
  <2>4. added \in Surjection(S, T) /\ added \in Injection(S, T)
    <3>1. added \in [S -> T]
      BY <2>2
    <3>2. \A t \in T : \E i \in S : added[i] = t
      OBVIOUS
    <3> QED  BY <2>2, <2>3, <3>1, <3>2 DEF Surjection, Injection, IsInjective
  <2>5. IsFiniteSet(S) /\ Cardinality(S) = Len(added)
    <3>1. Len(added) \in Int /\ 1 \in Int
      BY SMT, <2>2
    <3>2. IsFiniteSet(S) /\ Cardinality(S) = IF 1 > Len(added) THEN 0 ELSE Len(added) - 1 + 1
      BY <3>1, FS_Interval, Zenon
    <3> QED  BY SMT, <2>2, <3>2
  <2>6. Cardinality(T) = Cardinality(S)
    <3> HIDE DEF S, T
    <3> QED  BY <2>4, <2>5, FS_Surjection
  <2>7. Len(added) = Cardinality({added[i] : i \in DOMAIN added})
    BY <2>2, <2>5, <2>6
  <2> QED  BY <2>7 DEF EnqueueOnce, added
<1> QED  BY <1>1, QueueInvariance, PTL

\* The CompareAndSwap of Complete and Nack keeps two goroutines from settling
\* one item at the same time, gives the item back when the call failed, and
\* says "settled" only for what was settled at the broker.
THEOREM StateWordIsTrue == QueueSpec => []ItemStateTrue
<1>1. QueueInv => ItemStateTrue
  <2> SUFFICES ASSUME QueueInv PROVE ItemStateTrue
    OBVIOUS
  <2>1. CASE handle.state = 1
    <3>1. SettleCalls # {} /\ \A c, d \in SettleCalls : c = d
      BY <2>1 DEF QueueInv, Item
    <3>2. PICK c \in SettleCalls : SettleCalls = {c}
      BY <3>1
    <3>3. Cardinality(SettleCalls) = 1
      BY <3>2, FS_Singleton
    <3> QED  BY SMT, <2>1, <3>3 DEF ItemStateTrue
  <2>2. CASE handle.state # 1
    <3>1. SettleCalls = {}
      BY <2>2 DEF QueueInv, Item
    <3>2. Cardinality(SettleCalls) = 0
      BY <3>1, FS_EmptySet
    <3>3. handle.state = 2 => broker.settled
      BY DEF QueueInv, Item
    <3> QED  BY <2>2, <3>2, <3>3 DEF ItemStateTrue
  <2> QED  BY <2>1, <2>2
<1> QED  BY <1>1, QueueInvariance, PTL
=============================================================================
