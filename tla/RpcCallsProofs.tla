--------------------------- MODULE RpcCallsProofs ---------------------------
(***************************************************************************)
(* The calling side of the RPC domain for any number of calls, response    *)
(* frames and connections: what CancellationResult delivers is true, and   *)
(* an iteration that ends without an error is complete.  Both invariants   *)
(* are about one call at a time; a step is described by what it does to    *)
(* the state of an arbitrary call.                                         *)
(***************************************************************************)
EXTENDS RpcCalls, FiniteSetTheorems, TLAPS

USE ZenonT(60)

Typed ==
    /\ user \in [Calls -> {"new", "registered", "sent", "armed", "open", "ended", "cancel",
                           "done", "failed"}]
    /\ canceller \in [Calls -> {"none", "marked", "timed", "stored"}]
    /\ outcome \in [Calls -> Outcomes \cup {None}]
    /\ stream \in [Calls -> {"open", "clean", "error"}]
    /\ broker \in [Calls -> {"none", "running", "ended", "answered", "cut"}]
    /\ {queued, got, emitted, began} \subseteq [Calls -> Nat]
    /\ pendingRPCs \subseteq calls
    /\ wire \in Seq(Frames) /\ hand \in Frames \cup {None}
    /\ conn \in Nat /\ up \in BOOLEAN /\ overtaken \in BOOLEAN
    /\ monitor \in {"idle", "due", "closing"}

\* The application has asked for the end of the call.
Cancelled(c) == c \in ctxDone \cup closedBy

\* What is on its way to the dispatch loop for a call.
OnWire(c) == \E i \in 1..Len(wire) : wire[i].call = c
Answered(c) == \E i \in 1..Len(wire) : wire[i].call = c /\ wire[i].kind = "result"
Held(c) == hand # None /\ hand.call = c

\* Only a call that the application has cancelled is being cancelled, and the
\* entry of such a call is marked.
Cancelling(c) ==
    /\ canceller[c] # "none" \/ c \in ticking \cup cancelSent \/ user[c] = "cancel" =>
          Cancelled(c)
    /\ c \in calls \ cancelRequested => canceller[c] = "none" /\ c \notin cancelSent

\* A call has left no trace before it is registered, nor at the broker before
\* it was sent.
Stages(c) ==
    /\ user[c] = "new" =>
          /\ outcome[c] = None /\ canceller[c] = "none"
          /\ c \notin cancelSent \cup calls \cup dueCalls \cup dueStreams
    /\ user[c] \in {"new", "registered", "failed"} => broker[c] = "none"
    /\ c \in closedBy => user[c] \in {"cancel", "done"}

Traffic(c) ==
    /\ OnWire(c) \/ Held(c) => broker[c] # "none"
    /\ Answered(c) => c \in cancelSent

\* A call that ended by itself is not cancelled any more, and a call that was
\* not sent is over.
Settled(c) ==
    /\ outcome[c] = "not_requested" => c \notin calls /\ canceller[c] = "none"
    /\ outcome[c] = "request_not_sent" => user[c] = "failed"
    /\ began[c] <= conn
    /\ TrueOutcome(c)

CallInv(c) == Cancelling(c) /\ Stages(c) /\ Traffic(c) /\ Settled(c)

\* Unless Connect came first, the connection is down until its monitor is done.
Monitored ==
    /\ monitor # "idle" /\ ~overtaken => ~up
    /\ dueCalls # {} => monitor = "closing"

OutcomeInv == Typed /\ Monitored /\ \A c \in Calls : CallInv(c)

-----------------------------------------------------------------------------
(* Frames                                                                  *)

\* The frames that end a call.
Final == Ends \cup {"last"}

Finale(c) == \E i \in 1..Len(wire) : wire[i].call = c /\ wire[i].kind \in Final
Silent(c) == \A i \in 1..Len(wire) : wire[i].call = c => wire[i].kind = "result"
Ordered(c) ==
    \A i, j \in 1..Len(wire) :
        i < j /\ wire[i].call = c /\ wire[j].call = c /\ wire[i].kind \in Final =>
            wire[j].kind = "result"

\* Positions of the response frames of a call, and their number.
Carriers(c) == {i \in 1..Len(wire) : wire[i].call = c /\ wire[i].kind \in Bodies}
Due(c) == Cardinality(Carriers(c))

InHand(c) == IF Held(c) /\ hand.kind \in Bodies THEN 1 ELSE 0
Ending(c) == Finale(c) \/ (Held(c) /\ hand.kind \in Final)

\* The end of a call is the last of its frames.
InOrder(c) ==
    /\ Ordered(c)
    /\ Held(c) /\ hand.kind \in Final => Silent(c)
    /\ Held(c) => hand.kind # "result"
    /\ Ending(c) => broker[c] \in {"ended", "answered"}

\* Frames reach the stream as long as the call is listed.
Listed(c) ==
    /\ c \in pendingRPCs => c \notin dueStreams
    /\ ~Cancelled(c) =>
          /\ c \in pendingRPCs => stream[c] = "open"
          /\ Held(c) => c \in pendingRPCs

\* No frame of a call that may still end by itself is lost.
Counted(c) ==
    c \in pendingRPCs /\ ~Cancelled(c) /\ (broker[c] = "running" \/ Ending(c)) =>
        got[c] + queued[c] + InHand(c) + Due(c) = emitted[c]

\* A stream that ended without an error has received every frame.
Ended(c) ==
    /\ stream[c] = "clean" /\ ~Cancelled(c) /\ user[c] # "failed" =>
          broker[c] \in {"ended", "answered"} /\ got[c] + queued[c] = emitted[c]
    /\ user[c] = "ended" /\ c \notin ctxDone => stream[c] = "clean" /\ queued[c] = 0

\* Nothing has come of a call that was not sent.
Opening(c) ==
    /\ user[c] = "new" => stream[c] = "open"
    /\ broker[c] = "none" => got[c] = 0 /\ queued[c] = 0 /\ emitted[c] = 0

CallFlow(c) == InOrder(c) /\ Listed(c) /\ Counted(c) /\ Ended(c) /\ Opening(c)

FlowInv == OutcomeInv /\ \A c \in Calls : CallFlow(c)

-----------------------------------------------------------------------------
(* Types                                                                   *)

LEMMA ClosedTyped ==
    ASSUME Typed, NEW cs, NEW how \in {"clean", "error"}, Closed(cs, how)
    PROVE  stream' \in [Calls -> {"open", "clean", "error"}]
BY DEF Typed, Closed

LEMMA CompleteTyped ==
    ASSUME Typed, NEW cs, NEW how \in Outcomes, Complete(cs, how)
    PROVE  outcome' \in [Calls -> Outcomes \cup {None}]
BY DEF Typed, Complete

LEMMA FinishTyped ==
    ASSUME Typed, NEW c, NEW how \in Outcomes, FinishCall(c, how)
    PROVE  outcome' \in [Calls -> Outcomes \cup {None}] /\ pendingRPCs' \subseteq calls'
<1>1. CASE c \in cancelRequested
  BY <1>1 DEF Typed, FinishCall, settled
<1>2. CASE c \notin cancelRequested
  BY <1>2, CompleteTyped DEF Typed, FinishCall, Forget
<1> QED  BY <1>1, <1>2

LEMMA CancellationTyped ==
    ASSUME Typed, NEW c, NEW how \in Outcomes, NEW fired, FinishCancellation(c, how, fired)
    PROVE  /\ outcome' \in [Calls -> Outcomes \cup {None}] /\ pendingRPCs' \subseteq calls'
           /\ stream' \in [Calls -> {"open", "clean", "error"}]
BY CompleteTyped, ClosedTyped DEF Typed, FinishCancellation, Forget

LEMMA MarkTyped ==
    ASSUME Typed, NEW c \in Calls, Mark(c), UNCHANGED calls
    PROVE  /\ canceller' \in [Calls -> {"none", "marked", "timed", "stored"}]
           /\ stream' \in [Calls -> {"open", "clean", "error"}] /\ pendingRPCs' \subseteq calls'
<1>1. CASE c \in calls \ cancelRequested
  BY <1>1 DEF Typed, Mark
<1>2. CASE c \notin calls \ cancelRequested
  BY <1>2, ClosedTyped DEF Typed, Mark
<1> QED  BY <1>1, <1>2

\* What a frame that is taken from the wire is.
LEMMA HeadTyped ==
    ASSUME Typed, wire # <<>>
    PROVE  Head(wire) \in Frames /\ Tail(wire) \in Seq(Frames)
BY SMTT(20), Z3T(20) DEF Typed

\* What a frame that the broker adds does to the wire.
LEMMA AppendMeans ==
    ASSUME Typed, NEW f \in Frames, wire' = Append(wire, f)
    PROVE  /\ Len(wire) \in Nat /\ Len(wire') = Len(wire) + 1 /\ wire'[Len(wire) + 1] = f
           /\ \A i \in 1..Len(wire) : wire'[i] = wire[i]
<1>1. wire \in Seq(Frames)
  BY DEF Typed
<1> QED  BY SMTT(20), Z3T(20), <1>1

LEMMA CountsTyped ==
    ASSUME Typed, NEW c \in Calls
    PROVE  got[c] \in Nat /\ queued[c] \in Nat /\ emitted[c] \in Nat
BY SMTT(20), Z3T(20) DEF Typed

LEMMA TypedKept == ASSUME Typed, Next PROVE Typed'
<1> USE RpcCallsAssumption DEF tables, settled, streams, userVars, cancelVars, connVars, brokerVars
<1>1. ASSUME NEW c \in Calls, CallRefused(c) PROVE Typed'
  BY SMTT(20), Z3T(20), <1>1 DEF Typed, CallRefused, Go
<1>2. ASSUME NEW c \in Calls, Register(c) PROVE Typed'
  BY SMTT(20), Z3T(20), <1>2 DEF Typed, Register, Go
<1>3. ASSUME NEW c \in Calls, NextReturns(c) PROVE Typed'
  BY SMTT(20), Z3T(20), <1>3 DEF Typed, NextReturns
<1>4. ASSUME NEW c \in Calls, NextEnds(c) PROVE Typed'
  BY SMTT(20), Z3T(20), <1>4 DEF Typed, NextEnds, Go
<1>5. ASSUME NEW c \in Calls, NextCancels(c) PROVE Typed'
  BY SMTT(20), Z3T(20), <1>5 DEF Typed, NextCancels, Go
<1>6. ASSUME NEW c \in Calls, CloseIterator(c) PROVE Typed'
  BY SMTT(20), Z3T(20), <1>6 DEF Typed, CloseIterator, Go, Closed
<1>7. ASSUME NEW c \in Calls, SendSucceeds(c) PROVE Typed'
  BY SMTT(20), Z3T(20), <1>7 DEF Typed, SendSucceeds, Go
<1>8. ASSUME NEW c \in Calls, Watch(c) PROVE Typed'
  BY SMTT(20), Z3T(20), <1>8 DEF Typed, Watch, Go
<1>9. ASSUME NEW c \in Calls, SetStopContext(c) PROVE Typed'
  BY SMTT(20), Z3T(20), <1>9 DEF Typed, SetStopContext, Go
<1>10. ASSUME NEW c \in Calls, ContextEnds(c) PROVE Typed'
  BY SMTT(20), Z3T(20), <1>10 DEF Typed, ContextEnds
<1>11. ASSUME NEW c \in Calls, StartTimer(c) PROVE Typed'
  BY SMTT(20), Z3T(20), <1>11 DEF Typed, StartTimer, Ticks
<1>12. ASSUME NEW c \in Calls, SendCancel(c) PROVE Typed'
  BY SMTT(20), Z3T(20), <1>12 DEF Typed, SendCancel, Leave, Closed
<1>13. ASSUME NEW c \in Calls, FailDue(c) PROVE Typed'
  BY SMTT(20), Z3T(20), <1>13 DEF Typed, FailDue, Closed, FailStream
<1>14. ASSUME NEW c \in Calls, SendFails(c) PROVE Typed'
  <2>1. outcome' \in [Calls -> Outcomes \cup {None}] /\ pendingRPCs' \subseteq calls'
    BY <1>14, FinishTyped DEF SendFails, Outcomes
  <2>2. stream' \in [Calls -> {"open", "clean", "error"}]
    BY <1>14, ClosedTyped DEF SendFails
  <2>3. user' \in [Calls -> {"new", "registered", "sent", "armed", "open", "ended", "cancel",
                               "done", "failed"}]
    BY <1>14 DEF SendFails, Go, Typed
  <2> QED  BY <1>14, <2>1, <2>2, <2>3 DEF Typed, SendFails
<1>15. ASSUME NEW c \in Calls, UserCancels(c) PROVE Typed'
  <2>1. Mark(c) /\ UNCHANGED calls
    BY <1>15 DEF UserCancels
  <2>2. user' \in [Calls -> {"new", "registered", "sent", "armed", "open", "ended", "cancel",
                               "done", "failed"}]
    BY <1>15 DEF UserCancels, Go, Typed
  <2> QED  BY <1>15, <2>1, <2>2, MarkTyped DEF Typed, UserCancels
<1>16. ASSUME NEW c \in Calls, WatcherCancels(c) PROVE Typed'
  <2>1. Mark(c) /\ UNCHANGED calls
    BY <1>16 DEF WatcherCancels
  <2> QED  BY <1>16, <2>1, MarkTyped DEF Typed, WatcherCancels
<1>17. ASSUME NEW c \in Calls, CancelUnsupported(c) PROVE Typed'
  <2>1. FinishCancellation(c, "unsupported", {})
    BY <1>17 DEF CancelUnsupported
  <2>2. outcome' \in [Calls -> Outcomes \cup {None}] /\ pendingRPCs' \subseteq calls'
        /\ stream' \in [Calls -> {"open", "clean", "error"}]
    BY <2>1, CancellationTyped DEF Outcomes
  <2>3. canceller' \in [Calls -> {"none", "marked", "timed", "stored"}]
    BY <1>17 DEF CancelUnsupported, Leave, Typed
  <2> QED  BY <1>17, <2>1, <2>2, <2>3 DEF Typed, CancelUnsupported
<1>18. ASSUME NEW c \in Calls, CancelNotSent(c) PROVE Typed'
  <2>1. \E how \in Outcomes : FinishCancellation(c, how, {})
    BY <1>18 DEF CancelNotSent, Outcomes
  <2>2. outcome' \in [Calls -> Outcomes \cup {None}] /\ pendingRPCs' \subseteq calls'
        /\ stream' \in [Calls -> {"open", "clean", "error"}]
    BY <2>1, CancellationTyped
  <2>3. canceller' \in [Calls -> {"none", "marked", "timed", "stored"}]
    BY <1>18 DEF CancelNotSent, Leave, Typed
  <2> QED  BY <1>18, <2>1, <2>2, <2>3 DEF Typed, CancelNotSent
<1>19. ASSUME NEW c \in Calls, TimerFires(c) PROVE Typed'
  <2>1. FinishCancellation(c, "unconfirmed", {c})
    BY <1>19 DEF TimerFires
  <2>2. outcome' \in [Calls -> Outcomes \cup {None}] /\ pendingRPCs' \subseteq calls'
        /\ stream' \in [Calls -> {"open", "clean", "error"}]
    BY <2>1, CancellationTyped DEF Outcomes
  <2> QED  BY <1>19, <2>1, <2>2 DEF Typed, TimerFires
<1>20. ASSUME NEW c \in Calls, StoreTimer(c) PROVE Typed'
  <2>1. canceller' \in [Calls -> {"none", "marked", "timed", "stored"}]
    <3>1. \E how \in {"none", "stored"} : canceller' = [canceller EXCEPT ![c] = how]
      BY <1>20 DEF StoreTimer, Leave
    <3>2. canceller \in [Calls -> {"none", "marked", "timed", "stored"}]
      BY DEF Typed
    <3> QED  BY <3>1, <3>2
  <2> QED  BY <1>20, <2>1 DEF Typed, StoreTimer
<1>21. ASSUME NEW c \in Calls, CompleteDue(c) PROVE Typed'
  <2>1. outcome' \in [Calls -> Outcomes \cup {None}]
    BY <1>21, CompleteTyped DEF CompleteDue, Outcomes
  <2> QED  BY <1>21, <2>1 DEF Typed, CompleteDue
<1>22. ASSUME NEW c \in Calls, BrokerAnswers(c) PROVE Typed'
  <2>1. broker' \in [Calls -> {"none", "running", "ended", "answered", "cut"}]
    BY <1>22 DEF BrokerAnswers, Typed
  <2>2. wire' \in Seq(Frames)
    BY SMTT(20), Z3T(20), <1>22 DEF BrokerAnswers, Typed, Frames
  <2> QED  BY <1>22, <2>1, <2>2 DEF Typed, BrokerAnswers
<1>23. ASSUME NEW c \in Calls, NEW kind \in Ends \cup Bodies, BrokerSends(c, kind) PROVE Typed'
  BY SMTT(20), Z3T(20), <1>23 DEF Typed, BrokerSends, Frames
<1>24. CASE HandleResult
  <2>1. FinishCancellation(Head(wire).call, "answered", {})
    BY <1>24 DEF HandleResult
  <2>2. outcome' \in [Calls -> Outcomes \cup {None}] /\ pendingRPCs' \subseteq calls'
        /\ stream' \in [Calls -> {"open", "clean", "error"}]
    BY <2>1, CancellationTyped DEF Outcomes
  <2>3. wire' \in Seq(Frames)
    BY <1>24, HeadTyped DEF HandleResult
  <2> QED  BY <1>24, <2>1, <2>2, <2>3 DEF Typed, HandleResult
<1>25. CASE LookUp
  <2>1. wire' \in Seq(Frames) /\ hand' \in Frames \cup {None}
    BY <1>25, HeadTyped DEF LookUp
  <2> QED  BY <1>25, <2>1 DEF Typed, LookUp
<1>26. CASE EnqueueFrame
  <2>1. hand.call \in Calls
    BY <1>26 DEF EnqueueFrame, Typed, Frames
  <2>2. queued' \in [Calls -> Nat]
    BY SMTT(20), Z3T(20), <1>26, <2>1 DEF EnqueueFrame, Typed
  <2>3. hand' \in Frames \cup {None}
    BY SMTT(20), Z3T(20), <1>26 DEF EnqueueFrame, Typed, Frames, Ends
  <2> QED  BY <1>26, <2>1, <2>2, <2>3 DEF Typed, EnqueueFrame
<1>27. CASE EndCall
  <2>1. FinishCall(hand.call, "not_requested")
    BY <1>27 DEF EndCall
  <2>2. \E how \in {"clean", "error"} : Closed({hand.call}, how)
    BY <1>27 DEF EndCall
  <2>3. outcome' \in [Calls -> Outcomes \cup {None}] /\ pendingRPCs' \subseteq calls'
    BY <2>1, FinishTyped DEF Outcomes
  <2>4. stream' \in [Calls -> {"open", "clean", "error"}]
    BY <2>2, ClosedTyped
  <2> QED  BY <1>27, <2>1, <2>2, <2>3, <2>4 DEF Typed, EndCall
<1>28. CASE ClosePendingRPCs
  BY <1>28 DEF Typed, ClosePendingRPCs
<1>29. CASE ClosePendingReturns
  BY <1>29 DEF Typed, ClosePendingReturns
<1>30. CASE Break
  <2>1. broker' \in [Calls -> {"none", "running", "ended", "answered", "cut"}]
    BY <1>30 DEF Break, Typed
  <2>2. wire' \in Seq(Frames)
    BY SMTT(20), Z3T(20), <1>30 DEF Break
  <2> QED  BY <1>30, <2>1, <2>2 DEF Typed, Break
<1>31. CASE ReplaceConnection
  BY SMTT(20), Z3T(20), <1>31 DEF Typed, ReplaceConnection
<1> QED
  BY <1>1, <1>2, <1>3, <1>4, <1>5, <1>6, <1>7, <1>8, <1>9, <1>10, <1>11, <1>12, <1>13, <1>14, <1>15, <1>16, <1>17, <1>18, <1>19, <1>20, <1>21, <1>22, <1>23, <1>24, <1>25, <1>26, <1>27, <1>28, <1>29, <1>30, <1>31
  DEF Next, UserCalls, InCall, CancelStep, LoopStep, MonitorStep

-----------------------------------------------------------------------------
(* What the steps do to one call                                           *)

\* Nothing that CallInv mentions changes for the call.
Same(c) ==
    /\ user'[c] = user[c] /\ canceller'[c] = canceller[c] /\ outcome'[c] = outcome[c]
    /\ broker'[c] = broker[c] /\ began'[c] = began[c]
    /\ (c \in ctxDone' <=> c \in ctxDone) /\ (c \in closedBy' <=> c \in closedBy)
    /\ (c \in calls' <=> c \in calls) /\ (c \in cancelRequested' <=> c \in cancelRequested)
    /\ (c \in ticking' <=> c \in ticking) /\ (c \in cancelSent' <=> c \in cancelSent)
    /\ (c \in dueCalls' <=> c \in dueCalls) /\ (c \in dueStreams' <=> c \in dueStreams)

\* No frame of the call is added.
Calm(c) ==
    /\ OnWire(c)' => OnWire(c)
    /\ Answered(c)' => Answered(c)
    /\ Held(c)' => Held(c) \/ OnWire(c)

LEMMA Unaffected ==
    ASSUME NEW c \in Calls, CallInv(c), Same(c), Calm(c), UNCHANGED <<conn, up, overtaken>>
    PROVE  CallInv(c)'
<1>1. Cancelled(c)' <=> Cancelled(c)
  BY DEF Same, Cancelled
<1>2. Cancelling(c)'
  BY <1>1 DEF CallInv, Cancelling, Same
<1>3. Stages(c)'
  BY DEF CallInv, Stages, Same
<1>4. Traffic(c)'
  BY DEF CallInv, Traffic, Same, Calm
<1>5. Settled(c)'
  BY DEF CallInv, Settled, TrueOutcome, Same
<1> QED  BY <1>2, <1>3, <1>4, <1>5 DEF CallInv

LEMMA CalmUnchanged == ASSUME NEW c, UNCHANGED <<wire, hand>> PROVE Calm(c)
BY DEF Calm, OnWire, Answered, Held

LEMMA CompleteMeans ==
    ASSUME Typed, NEW cs, NEW how, Complete(cs, how), NEW c \in Calls
    PROVE  \/ outcome'[c] = outcome[c]
           \/ c \in cs /\ outcome[c] = None /\ outcome'[c] = how
BY DEF Typed, Complete

LEMMA FinishCallMeans ==
    ASSUME Typed, NEW d \in Calls, NEW how, FinishCall(d, how)
    PROVE  /\ \A c \in Calls \ {d} :
                 /\ outcome'[c] = outcome[c]
                 /\ c \in calls' <=> c \in calls
                 /\ c \in cancelRequested' <=> c \in cancelRequested
                 /\ c \in ticking' <=> c \in ticking
           /\ \/ d \in cancelRequested /\ UNCHANGED <<calls, cancelRequested, ticking, outcome>>
              \/ /\ d \notin cancelRequested /\ d \notin calls'
                 /\ ticking' \subseteq ticking
                 /\ outcome'[d] = outcome[d] \/ (d \in calls /\ outcome[d] = None /\ outcome'[d] = how)
<1>1. CASE d \in cancelRequested
  BY <1>1 DEF FinishCall, settled
<1>2. CASE d \notin cancelRequested
  <2>1. Forget(d) /\ Complete(calls \cap {d}, how) /\ ticking' = ticking \ (cancelTimers \cap {d})
    BY <1>2 DEF FinishCall
  <2> QED  BY <1>2, <2>1, CompleteMeans DEF Forget
<1> QED  BY <1>1, <1>2

LEMMA FinishCancellationMeans ==
    ASSUME Typed, NEW d \in Calls, NEW how, NEW fired \in SUBSET {d}, FinishCancellation(d, how, fired)
    PROVE  /\ \A c \in Calls \ {d} :
                 /\ outcome'[c] = outcome[c]
                 /\ c \in calls' <=> c \in calls
                 /\ c \in cancelRequested' <=> c \in cancelRequested
                 /\ c \in ticking' <=> c \in ticking
           /\ d \notin calls' /\ ticking' \subseteq ticking
           /\ outcome'[d] = outcome[d] \/ (d \in calls /\ outcome[d] = None /\ outcome'[d] = how)
<1>1. /\ Forget(d) /\ Complete(calls \cap {d}, how)
      /\ ticking' = ticking \ ((cancelTimers \cap {d}) \cup fired)
  BY DEF FinishCancellation
<1> QED  BY <1>1, CompleteMeans DEF Forget

LEMMA MarkMeans ==
    ASSUME Typed, NEW d \in Calls, Mark(d)
    PROVE  /\ \A c \in Calls \ {d} :
                 canceller'[c] = canceller[c] /\ (c \in cancelRequested' <=> c \in cancelRequested)
           /\ \/ d \in calls /\ d \in cancelRequested' /\ canceller'[d] = "marked"
              \/ UNCHANGED <<cancelRequested, canceller>>
BY DEF Typed, Mark

-----------------------------------------------------------------------------
(* The outcome                                                             *)

LEMMA MonitoredKept == ASSUME Typed, Monitored, Next PROVE Monitored'
<1>1. CASE Break
  BY <1>1 DEF Break, Monitored
<1>2. CASE ReplaceConnection
  BY <1>2 DEF ReplaceConnection, Monitored
<1>3. CASE MonitorStep
  <2>1. UNCHANGED <<up, overtaken>> /\ (monitor = "idle" => monitor' = "idle")
    BY <1>3 DEF MonitorStep, ClosePendingRPCs, ClosePendingReturns, CompleteDue, FailDue
  <2>2. dueCalls' # {} => monitor' = "closing"
    <3>1. CASE ClosePendingRPCs
      BY <3>1 DEF ClosePendingRPCs
    <3>2. CASE ClosePendingReturns
      BY <3>2 DEF ClosePendingReturns
    <3>3. ASSUME NEW c \in Calls, CompleteDue(c) PROVE dueCalls' # {} => monitor' = "closing"
      BY <3>3 DEF CompleteDue, Monitored
    <3>4. ASSUME NEW c \in Calls, FailDue(c) PROVE dueCalls' # {} => monitor' = "closing"
      BY <3>4 DEF FailDue
    <3> QED  BY <1>3, <3>1, <3>2, <3>3, <3>4 DEF MonitorStep
  <2> QED  BY <2>1, <2>2 DEF Monitored
<1>4. CASE UNCHANGED connVars
  BY <1>4 DEF connVars, Monitored
<1> USE DEF connVars
<1>5. ASSUME NEW c \in Calls, UserCalls(c) \/ InCall(c) \/ ContextEnds(c) PROVE UNCHANGED connVars
  BY <1>5 DEF UserCalls, CallRefused, Register, NextReturns, NextEnds, NextCancels, CloseIterator,
              InCall, SendSucceeds, SendFails, Watch, SetStopContext, UserCancels, ContextEnds
<1>6. ASSUME NEW c \in Calls, WatcherCancels(c) \/ CancelStep(c) \/ TimerFires(c)
      PROVE  UNCHANGED connVars
  BY <1>6 DEF WatcherCancels, CancelStep, CancelUnsupported, StartTimer, StoreTimer, SendCancel,
              CancelNotSent, TimerFires
<1>7. ASSUME NEW c \in Calls, BrokerAnswers(c) \/ \E kind \in Ends \cup Bodies : BrokerSends(c, kind)
      PROVE  UNCHANGED connVars
  BY <1>7 DEF BrokerAnswers, BrokerSends
<1>8. ASSUME LoopStep PROVE UNCHANGED connVars
  BY <1>8 DEF LoopStep, HandleResult, LookUp, EnqueueFrame, EndCall
<1> QED  BY <1>1, <1>2, <1>3, <1>4, <1>5, <1>6, <1>7, <1>8 DEF Next

\* A step of one call that moves no frame.
LEMMA OneCall ==
    ASSUME \A c \in Calls : CallInv(c), NEW d \in Calls, \A c \in Calls \ {d} : Same(c),
           UNCHANGED <<wire, hand, conn, up, overtaken>>, CallInv(d)'
    PROVE  \A c \in Calls : CallInv(c)'
BY CalmUnchanged, Unaffected

LEMMA CallRefusedKeeps ==
    ASSUME OutcomeInv, NEW d \in Calls, CallRefused(d)
    PROVE  \A c \in Calls : CallInv(c)'
<1> USE DEF tables, settled, streams, userVars, cancelVars, connVars, brokerVars
<1>0. Typed /\ CallInv(d)
  BY DEF OutcomeInv
<1>1. /\ user[d] = "new" /\ user'[d] = "failed"
      /\ UNCHANGED <<canceller, outcome, broker, began, ctxDone, closedBy, calls, cancelRequested, ticking, cancelSent, dueCalls, dueStreams,
                     wire, hand, conn, up, overtaken>>
      /\ \A c \in Calls \ {d} : user'[c] = user[c]
  BY <1>0 DEF Typed, CallRefused, Go
<1>3. \A c \in Calls \ {d} : Same(c)
  BY <1>0, <1>1 DEF Same
<1>4. Calm(d)
  BY <1>1, CalmUnchanged
<1>5. CallInv(d)'
  BY SMTT(20), Z3T(20), RpcCallsAssumption, <1>0, <1>1, <1>4
  DEF CallInv, Cancelling, Cancelled, Stages, Traffic, Settled, TrueOutcome, Calm, Typed, Outcomes
<1> QED  BY <1>1, <1>3, <1>5, OneCall DEF OutcomeInv

LEMMA RegisterKeeps ==
    ASSUME OutcomeInv, NEW d \in Calls, Register(d)
    PROVE  \A c \in Calls : CallInv(c)'
<1> USE DEF tables, settled, streams, userVars, cancelVars, connVars, brokerVars
<1>0. Typed /\ CallInv(d)
  BY DEF OutcomeInv
<1>1. /\ user[d] = "new" /\ user'[d] = "registered"
      /\ began'[d] = conn
      /\ calls' = calls \cup {d}
      /\ UNCHANGED <<canceller, outcome, broker, ctxDone, closedBy, cancelRequested, ticking, cancelSent, dueCalls, dueStreams,
                     wire, hand, conn, up, overtaken>>
      /\ \A c \in Calls \ {d} : user'[c] = user[c] /\ began'[c] = began[c]
  BY <1>0 DEF Typed, Register, Go
<1>3. \A c \in Calls \ {d} : Same(c)
  BY <1>0, <1>1 DEF Same
<1>4. Calm(d)
  BY <1>1, CalmUnchanged
<1>5. CallInv(d)'
  BY SMTT(20), Z3T(20), RpcCallsAssumption, <1>0, <1>1, <1>4
  DEF CallInv, Cancelling, Cancelled, Stages, Traffic, Settled, TrueOutcome, Calm, Typed, Outcomes
<1> QED  BY <1>1, <1>3, <1>5, OneCall DEF OutcomeInv

LEMMA SendSucceedsKeeps ==
    ASSUME OutcomeInv, NEW d \in Calls, SendSucceeds(d)
    PROVE  \A c \in Calls : CallInv(c)'
<1> USE DEF tables, settled, streams, userVars, cancelVars, connVars, brokerVars
<1>0. Typed /\ CallInv(d)
  BY DEF OutcomeInv
<1>1. /\ user[d] = "registered" /\ user'[d] = "sent"
      /\ broker'[d] = "running"
      /\ UNCHANGED <<canceller, outcome, began, ctxDone, closedBy, calls, cancelRequested, ticking, cancelSent, dueCalls, dueStreams,
                     wire, hand, conn, up, overtaken>>
      /\ \A c \in Calls \ {d} : user'[c] = user[c] /\ broker'[c] = broker[c]
  BY <1>0 DEF Typed, SendSucceeds, Go
<1>3. \A c \in Calls \ {d} : Same(c)
  BY <1>0, <1>1 DEF Same
<1>4. Calm(d)
  BY <1>1, CalmUnchanged
<1>5. CallInv(d)'
  BY SMTT(20), Z3T(20), RpcCallsAssumption, <1>0, <1>1, <1>4
  DEF CallInv, Cancelling, Cancelled, Stages, Traffic, Settled, TrueOutcome, Calm, Typed, Outcomes
<1> QED  BY <1>1, <1>3, <1>5, OneCall DEF OutcomeInv

LEMMA SendFailsKeeps ==
    ASSUME OutcomeInv, NEW d \in Calls, SendFails(d)
    PROVE  \A c \in Calls : CallInv(c)'
<1> USE DEF tables, settled, streams, userVars, cancelVars, connVars, brokerVars
<1>0. Typed /\ CallInv(d)
  BY DEF OutcomeInv
<1>1. /\ user[d] = "registered" /\ user'[d] = "failed"
      /\ UNCHANGED <<canceller, broker, began, ctxDone, closedBy, cancelSent, dueCalls, dueStreams,
                     wire, hand, conn, up, overtaken>>
      /\ \A c \in Calls \ {d} : user'[c] = user[c]
  BY <1>0 DEF Typed, SendFails, Go
<1>2. FinishCall(d, "request_not_sent")
  BY DEF SendFails
<1>3. \A c \in Calls \ {d} : Same(c)
  BY <1>0, <1>1, <1>2, FinishCallMeans DEF Same
<1>4. Calm(d)
  BY <1>1, CalmUnchanged
<1>5. CallInv(d)'
  BY SMTT(20), Z3T(20), RpcCallsAssumption, <1>0, <1>1, <1>2, FinishCallMeans, <1>4
  DEF CallInv, Cancelling, Cancelled, Stages, Traffic, Settled, TrueOutcome, Calm, Typed, Outcomes
<1> QED  BY <1>1, <1>3, <1>5, OneCall DEF OutcomeInv

LEMMA WatchKeeps ==
    ASSUME OutcomeInv, NEW d \in Calls, Watch(d)
    PROVE  \A c \in Calls : CallInv(c)'
<1> USE DEF tables, settled, streams, userVars, cancelVars, connVars, brokerVars
<1>0. Typed /\ CallInv(d)
  BY DEF OutcomeInv
<1>1. /\ user[d] = "sent" /\ user'[d] = "armed"
      /\ UNCHANGED <<canceller, outcome, broker, began, ctxDone, closedBy, calls, cancelRequested, ticking, cancelSent, dueCalls, dueStreams,
                     wire, hand, conn, up, overtaken>>
      /\ \A c \in Calls \ {d} : user'[c] = user[c]
  BY <1>0 DEF Typed, Watch, Go
<1>3. \A c \in Calls \ {d} : Same(c)
  BY <1>0, <1>1 DEF Same
<1>4. Calm(d)
  BY <1>1, CalmUnchanged
<1>5. CallInv(d)'
  BY SMTT(20), Z3T(20), RpcCallsAssumption, <1>0, <1>1, <1>4
  DEF CallInv, Cancelling, Cancelled, Stages, Traffic, Settled, TrueOutcome, Calm, Typed, Outcomes
<1> QED  BY <1>1, <1>3, <1>5, OneCall DEF OutcomeInv

LEMMA SetStopContextKeeps ==
    ASSUME OutcomeInv, NEW d \in Calls, SetStopContext(d)
    PROVE  \A c \in Calls : CallInv(c)'
<1> USE DEF tables, settled, streams, userVars, cancelVars, connVars, brokerVars
<1>0. Typed /\ CallInv(d)
  BY DEF OutcomeInv
<1>1. /\ user[d] = "armed" /\ user'[d] = "open"
      /\ UNCHANGED <<canceller, outcome, broker, began, ctxDone, closedBy, calls, cancelRequested, ticking, cancelSent, dueCalls, dueStreams,
                     wire, hand, conn, up, overtaken>>
      /\ \A c \in Calls \ {d} : user'[c] = user[c]
  BY <1>0 DEF Typed, SetStopContext, Go
<1>3. \A c \in Calls \ {d} : Same(c)
  BY <1>0, <1>1 DEF Same
<1>4. Calm(d)
  BY <1>1, CalmUnchanged
<1>5. CallInv(d)'
  BY SMTT(20), Z3T(20), RpcCallsAssumption, <1>0, <1>1, <1>4
  DEF CallInv, Cancelling, Cancelled, Stages, Traffic, Settled, TrueOutcome, Calm, Typed, Outcomes
<1> QED  BY <1>1, <1>3, <1>5, OneCall DEF OutcomeInv

LEMMA NextReturnsKeeps ==
    ASSUME OutcomeInv, NEW d \in Calls, NextReturns(d)
    PROVE  \A c \in Calls : CallInv(c)'
<1> USE DEF tables, settled, streams, userVars, cancelVars, connVars, brokerVars
<1>0. Typed /\ CallInv(d)
  BY DEF OutcomeInv
<1>1. /\ UNCHANGED <<user, canceller, outcome, broker, began, ctxDone, closedBy, calls, cancelRequested, ticking, cancelSent, dueCalls, dueStreams,
                     wire, hand, conn, up, overtaken>>
  BY <1>0 DEF Typed, NextReturns
<1> QED  BY <1>0, <1>1, CalmUnchanged, Unaffected DEF OutcomeInv, Same

LEMMA NextEndsKeeps ==
    ASSUME OutcomeInv, NEW d \in Calls, NextEnds(d)
    PROVE  \A c \in Calls : CallInv(c)'
<1> USE DEF tables, settled, streams, userVars, cancelVars, connVars, brokerVars
<1>0. Typed /\ CallInv(d)
  BY DEF OutcomeInv
<1>1. /\ user[d] = "open" /\ user'[d] \in {"ended", "done"}
      /\ UNCHANGED <<canceller, outcome, broker, began, ctxDone, closedBy, calls, cancelRequested, ticking, cancelSent, dueCalls, dueStreams,
                     wire, hand, conn, up, overtaken>>
      /\ \A c \in Calls \ {d} : user'[c] = user[c]
  BY <1>0 DEF Typed, NextEnds, Go
<1>3. \A c \in Calls \ {d} : Same(c)
  BY <1>0, <1>1 DEF Same
<1>4. Calm(d)
  BY <1>1, CalmUnchanged
<1>5. CallInv(d)'
  BY SMTT(20), Z3T(20), RpcCallsAssumption, <1>0, <1>1, <1>4
  DEF CallInv, Cancelling, Cancelled, Stages, Traffic, Settled, TrueOutcome, Calm, Typed, Outcomes
<1> QED  BY <1>1, <1>3, <1>5, OneCall DEF OutcomeInv

LEMMA NextCancelsKeeps ==
    ASSUME OutcomeInv, NEW d \in Calls, NextCancels(d)
    PROVE  \A c \in Calls : CallInv(c)'
<1> USE DEF tables, settled, streams, userVars, cancelVars, connVars, brokerVars
<1>0. Typed /\ CallInv(d)
  BY DEF OutcomeInv
<1>1. /\ user[d] = "open" /\ d \in ctxDone /\ user'[d] = "cancel"
      /\ UNCHANGED <<canceller, outcome, broker, began, ctxDone, closedBy, calls, cancelRequested, ticking, cancelSent, dueCalls, dueStreams,
                     wire, hand, conn, up, overtaken>>
      /\ \A c \in Calls \ {d} : user'[c] = user[c]
  BY <1>0 DEF Typed, NextCancels, Go
<1>3. \A c \in Calls \ {d} : Same(c)
  BY <1>0, <1>1 DEF Same
<1>4. Calm(d)
  BY <1>1, CalmUnchanged
<1>5. CallInv(d)'
  BY SMTT(20), Z3T(20), RpcCallsAssumption, <1>0, <1>1, <1>4
  DEF CallInv, Cancelling, Cancelled, Stages, Traffic, Settled, TrueOutcome, Calm, Typed, Outcomes
<1> QED  BY <1>1, <1>3, <1>5, OneCall DEF OutcomeInv

LEMMA CloseIteratorKeeps ==
    ASSUME OutcomeInv, NEW d \in Calls, CloseIterator(d)
    PROVE  \A c \in Calls : CallInv(c)'
<1> USE DEF tables, settled, streams, userVars, cancelVars, connVars, brokerVars
<1>0. Typed /\ CallInv(d)
  BY DEF OutcomeInv
<1>1. /\ user[d] \in {"open", "ended", "done"} /\ user'[d] = "cancel"
      /\ closedBy' = closedBy \cup {d}
      /\ UNCHANGED <<canceller, outcome, broker, began, ctxDone, calls, cancelRequested, ticking, cancelSent, dueCalls, dueStreams,
                     wire, hand, conn, up, overtaken>>
      /\ \A c \in Calls \ {d} : user'[c] = user[c]
  BY <1>0 DEF Typed, CloseIterator, Go
<1>3. \A c \in Calls \ {d} : Same(c)
  BY <1>0, <1>1 DEF Same
<1>4. Calm(d)
  BY <1>1, CalmUnchanged
<1>5. CallInv(d)'
  BY SMTT(20), Z3T(20), RpcCallsAssumption, <1>0, <1>1, <1>4
  DEF CallInv, Cancelling, Cancelled, Stages, Traffic, Settled, TrueOutcome, Calm, Typed, Outcomes
<1> QED  BY <1>1, <1>3, <1>5, OneCall DEF OutcomeInv

LEMMA UserCancelsKeeps ==
    ASSUME OutcomeInv, NEW d \in Calls, UserCancels(d)
    PROVE  \A c \in Calls : CallInv(c)'
<1> USE DEF tables, settled, streams, userVars, cancelVars, connVars, brokerVars
<1>0. Typed /\ CallInv(d)
  BY DEF OutcomeInv
<1>1. /\ user[d] = "cancel" /\ user'[d] = "done"
      /\ UNCHANGED <<outcome, broker, began, ctxDone, closedBy, calls, ticking, cancelSent, dueCalls, dueStreams,
                     wire, hand, conn, up, overtaken>>
      /\ \A c \in Calls \ {d} : user'[c] = user[c]
  BY <1>0 DEF Typed, UserCancels, Go
<1>2. Mark(d)
  BY DEF UserCancels
<1>3. \A c \in Calls \ {d} : Same(c)
  BY <1>0, <1>1, <1>2, MarkMeans DEF Same
<1>4. Calm(d)
  BY <1>1, CalmUnchanged
<1>5. CallInv(d)'
  BY SMTT(20), Z3T(20), RpcCallsAssumption, <1>0, <1>1, <1>2, MarkMeans, <1>4
  DEF CallInv, Cancelling, Cancelled, Stages, Traffic, Settled, TrueOutcome, Calm, Typed, Outcomes
<1> QED  BY <1>1, <1>3, <1>5, OneCall DEF OutcomeInv

LEMMA ContextEndsKeeps ==
    ASSUME OutcomeInv, NEW d \in Calls, ContextEnds(d)
    PROVE  \A c \in Calls : CallInv(c)'
<1> USE DEF tables, settled, streams, userVars, cancelVars, connVars, brokerVars
<1>0. Typed /\ CallInv(d)
  BY DEF OutcomeInv
<1>1. /\ ctxDone' = ctxDone \cup {d}
      /\ UNCHANGED <<user, canceller, outcome, broker, began, closedBy, calls, cancelRequested, ticking, cancelSent, dueCalls, dueStreams,
                     wire, hand, conn, up, overtaken>>
  BY <1>0 DEF Typed, ContextEnds
<1>3. \A c \in Calls \ {d} : Same(c)
  BY <1>0, <1>1 DEF Same
<1>4. Calm(d)
  BY <1>1, CalmUnchanged
<1>5. CallInv(d)'
  BY SMTT(20), Z3T(20), RpcCallsAssumption, <1>0, <1>1, <1>4
  DEF CallInv, Cancelling, Cancelled, Stages, Traffic, Settled, TrueOutcome, Calm, Typed, Outcomes
<1> QED  BY <1>1, <1>3, <1>5, OneCall DEF OutcomeInv

LEMMA WatcherCancelsKeeps ==
    ASSUME OutcomeInv, NEW d \in Calls, WatcherCancels(d)
    PROVE  \A c \in Calls : CallInv(c)'
<1> USE DEF tables, settled, streams, userVars, cancelVars, connVars, brokerVars
<1>0. Typed /\ CallInv(d)
  BY DEF OutcomeInv
<1>1. /\ d \in ctxDone
      /\ UNCHANGED <<user, outcome, broker, began, ctxDone, closedBy, calls, ticking, cancelSent, dueCalls, dueStreams,
                     wire, hand, conn, up, overtaken>>
  BY <1>0 DEF Typed, WatcherCancels
<1>2. Mark(d)
  BY DEF WatcherCancels
<1>3. \A c \in Calls \ {d} : Same(c)
  BY <1>0, <1>1, <1>2, MarkMeans DEF Same
<1>4. Calm(d)
  BY <1>1, CalmUnchanged
<1>5. CallInv(d)'
  BY SMTT(20), Z3T(20), RpcCallsAssumption, <1>0, <1>1, <1>2, MarkMeans, <1>4
  DEF CallInv, Cancelling, Cancelled, Stages, Traffic, Settled, TrueOutcome, Calm, Typed, Outcomes
<1> QED  BY <1>1, <1>3, <1>5, OneCall DEF OutcomeInv

LEMMA CancelUnsupportedKeeps ==
    ASSUME OutcomeInv, NEW d \in Calls, CancelUnsupported(d)
    PROVE  \A c \in Calls : CallInv(c)'
<1> USE DEF tables, settled, streams, userVars, cancelVars, connVars, brokerVars
<1>0. Typed /\ CallInv(d)
  BY DEF OutcomeInv
<1>1. /\ canceller[d] = "marked" /\ canceller'[d] = "none"
      /\ UNCHANGED <<user, broker, began, ctxDone, closedBy, cancelSent, dueCalls, dueStreams,
                     wire, hand, conn, up, overtaken>>
      /\ \A c \in Calls \ {d} : canceller'[c] = canceller[c]
  BY <1>0 DEF Typed, CancelUnsupported, Leave
<1>2. FinishCancellation(d, "unsupported", {})
  BY DEF CancelUnsupported
<1>3. \A c \in Calls \ {d} : Same(c)
  BY <1>0, <1>1, <1>2, FinishCancellationMeans DEF Same
<1>4. Calm(d)
  BY <1>1, CalmUnchanged
<1>5. CallInv(d)'
  BY SMTT(20), Z3T(20), RpcCallsAssumption, <1>0, <1>1, <1>2, FinishCancellationMeans, <1>4
  DEF CallInv, Cancelling, Cancelled, Stages, Traffic, Settled, TrueOutcome, Calm, Typed, Outcomes
<1> QED  BY <1>1, <1>3, <1>5, OneCall DEF OutcomeInv

LEMMA StartTimerKeeps ==
    ASSUME OutcomeInv, NEW d \in Calls, StartTimer(d)
    PROVE  \A c \in Calls : CallInv(c)'
<1> USE DEF tables, settled, streams, userVars, cancelVars, connVars, brokerVars
<1>0. Typed /\ CallInv(d)
  BY DEF OutcomeInv
<1>1. /\ canceller[d] = "marked" /\ canceller'[d] = "timed"
      /\ ticking' = ticking \cup {d}
      /\ UNCHANGED <<user, outcome, broker, began, ctxDone, closedBy, calls, cancelRequested, cancelSent, dueCalls, dueStreams,
                     wire, hand, conn, up, overtaken>>
      /\ \A c \in Calls \ {d} : canceller'[c] = canceller[c]
  BY <1>0 DEF Typed, StartTimer, Ticks
<1>3. \A c \in Calls \ {d} : Same(c)
  BY <1>0, <1>1 DEF Same
<1>4. Calm(d)
  BY <1>1, CalmUnchanged
<1>5. CallInv(d)'
  BY SMTT(20), Z3T(20), RpcCallsAssumption, <1>0, <1>1, <1>4
  DEF CallInv, Cancelling, Cancelled, Stages, Traffic, Settled, TrueOutcome, Calm, Typed, Outcomes
<1> QED  BY <1>1, <1>3, <1>5, OneCall DEF OutcomeInv

LEMMA StoreTimerKeeps ==
    ASSUME OutcomeInv, NEW d \in Calls, StoreTimer(d)
    PROVE  \A c \in Calls : CallInv(c)'
<1> USE DEF tables, settled, streams, userVars, cancelVars, connVars, brokerVars
<1>0. Typed /\ CallInv(d)
  BY DEF OutcomeInv
<1>1. /\ canceller[d] = "timed" /\ canceller'[d] \in {"none", "stored"}
      /\ ticking' \in {ticking, ticking \ {d}}
      /\ UNCHANGED <<user, outcome, broker, began, ctxDone, closedBy, calls, cancelRequested, cancelSent, dueCalls, dueStreams,
                     wire, hand, conn, up, overtaken>>
      /\ \A c \in Calls \ {d} : canceller'[c] = canceller[c]
  BY <1>0 DEF Typed, StoreTimer, Leave
<1>3. \A c \in Calls \ {d} : Same(c)
  BY <1>0, <1>1 DEF Same
<1>4. Calm(d)
  BY <1>1, CalmUnchanged
<1>5. CallInv(d)'
  BY SMTT(20), Z3T(20), RpcCallsAssumption, <1>0, <1>1, <1>4
  DEF CallInv, Cancelling, Cancelled, Stages, Traffic, Settled, TrueOutcome, Calm, Typed, Outcomes
<1> QED  BY <1>1, <1>3, <1>5, OneCall DEF OutcomeInv

LEMMA SendCancelKeeps ==
    ASSUME OutcomeInv, NEW d \in Calls, SendCancel(d)
    PROVE  \A c \in Calls : CallInv(c)'
<1> USE DEF tables, settled, streams, userVars, cancelVars, connVars, brokerVars
<1>0. Typed /\ CallInv(d)
  BY DEF OutcomeInv
<1>1. /\ canceller[d] = "stored" /\ canceller'[d] = "none"
      /\ cancelSent' = cancelSent \cup {d}
      /\ UNCHANGED <<user, outcome, broker, began, ctxDone, closedBy, calls, cancelRequested, ticking, dueCalls, dueStreams,
                     wire, hand, conn, up, overtaken>>
      /\ \A c \in Calls \ {d} : canceller'[c] = canceller[c]
  BY <1>0 DEF Typed, SendCancel, Leave
<1>3. \A c \in Calls \ {d} : Same(c)
  BY <1>0, <1>1 DEF Same
<1>4. Calm(d)
  BY <1>1, CalmUnchanged
<1>5. CallInv(d)'
  BY SMTT(20), Z3T(20), RpcCallsAssumption, <1>0, <1>1, <1>4
  DEF CallInv, Cancelling, Cancelled, Stages, Traffic, Settled, TrueOutcome, Calm, Typed, Outcomes
<1> QED  BY <1>1, <1>3, <1>5, OneCall DEF OutcomeInv

LEMMA TimerFiresKeeps ==
    ASSUME OutcomeInv, NEW d \in Calls, TimerFires(d)
    PROVE  \A c \in Calls : CallInv(c)'
<1> USE DEF tables, settled, streams, userVars, cancelVars, connVars, brokerVars
<1>0. Typed /\ CallInv(d)
  BY DEF OutcomeInv
<1>1. /\ d \in ticking
      /\ UNCHANGED <<user, canceller, broker, began, ctxDone, closedBy, cancelSent, dueCalls, dueStreams,
                     wire, hand, conn, up, overtaken>>
  BY <1>0 DEF Typed, TimerFires
<1>2. FinishCancellation(d, "unconfirmed", {d})
  BY DEF TimerFires
<1>3. \A c \in Calls \ {d} : Same(c)
  BY <1>0, <1>1, <1>2, FinishCancellationMeans DEF Same
<1>4. Calm(d)
  BY <1>1, CalmUnchanged
<1>5. CallInv(d)'
  BY SMTT(20), Z3T(20), RpcCallsAssumption, <1>0, <1>1, <1>2, FinishCancellationMeans, <1>4
  DEF CallInv, Cancelling, Cancelled, Stages, Traffic, Settled, TrueOutcome, Calm, Typed, Outcomes
<1> QED  BY <1>1, <1>3, <1>5, OneCall DEF OutcomeInv

LEMMA CancelNotSentKeeps ==
    ASSUME OutcomeInv, NEW d \in Calls, CancelNotSent(d)
    PROVE  \A c \in Calls : CallInv(c)'
<1> USE DEF tables, settled, streams, userVars, cancelVars, connVars, brokerVars
<1>0. Typed /\ CallInv(d)
  BY DEF OutcomeInv
<1>1. /\ canceller[d] = "stored" /\ canceller'[d] = "none"
      /\ UNCHANGED <<user, broker, began, ctxDone, closedBy, cancelSent, dueCalls, dueStreams,
                     wire, hand, conn, up, overtaken>>
      /\ \A c \in Calls \ {d} : canceller'[c] = canceller[c]
  BY <1>0 DEF Typed, CancelNotSent, Leave
<1>2. PICK how : /\ FinishCancellation(d, how, {})
                 /\ how = "unconfirmed" \/ (how = "connection_closed" /\ ~up)
  BY DEF CancelNotSent
<1>3. \A c \in Calls \ {d} : Same(c)
  BY <1>0, <1>1, <1>2, FinishCancellationMeans DEF Same
<1>4. Calm(d)
  BY <1>1, CalmUnchanged
<1>5. CallInv(d)'
  BY SMTT(20), Z3T(20), RpcCallsAssumption, <1>0, <1>1, <1>2, FinishCancellationMeans, <1>4
  DEF CallInv, Cancelling, Cancelled, Stages, Traffic, Settled, TrueOutcome, Calm, Typed, Outcomes
<1> QED  BY <1>1, <1>3, <1>5, OneCall DEF OutcomeInv

LEMMA CompleteDueKeeps ==
    ASSUME OutcomeInv, NEW d \in Calls, CompleteDue(d)
    PROVE  \A c \in Calls : CallInv(c)'
<1> USE DEF tables, settled, streams, userVars, cancelVars, connVars, brokerVars
<1>0. Typed /\ CallInv(d)
  BY DEF OutcomeInv
<1>1. /\ d \in dueCalls /\ dueCalls' = dueCalls \ {d} /\ Complete({d}, "connection_closed")
      /\ UNCHANGED <<user, canceller, broker, began, ctxDone, closedBy, calls, cancelRequested,
                     ticking, cancelSent, dueStreams, wire, hand, conn, up, overtaken>>
  BY DEF CompleteDue
<1>2. ~overtaken => ~up
  BY <1>1 DEF OutcomeInv, Monitored
<1>3. \A c \in Calls \ {d} : Same(c)
  BY <1>0, <1>1, CompleteMeans DEF Same
<1>4. Calm(d)
  BY <1>1, CalmUnchanged
<1>5. outcome'[d] = outcome[d] \/ (outcome[d] = None /\ outcome'[d] = "connection_closed")
  BY <1>0, <1>1, CompleteMeans
<1>6. CallInv(d)'
  BY SMTT(20), Z3T(20), RpcCallsAssumption, <1>0, <1>1, <1>2, <1>4, <1>5
  DEF CallInv, Cancelling, Cancelled, Stages, Traffic, Settled, TrueOutcome, Calm, Typed, Outcomes
<1> QED  BY <1>1, <1>3, <1>6, OneCall DEF OutcomeInv

LEMMA FailDueKeeps ==
    ASSUME OutcomeInv, NEW d \in Calls, FailDue(d)
    PROVE  \A c \in Calls : CallInv(c)'
<1> USE DEF tables, settled, streams, userVars, cancelVars, connVars, brokerVars
<1>0. Typed /\ CallInv(d)
  BY DEF OutcomeInv
<1>1. /\ dueStreams' = dueStreams \ {d}
      /\ UNCHANGED <<user, canceller, outcome, broker, began, ctxDone, closedBy, calls,
                     cancelRequested, ticking, cancelSent, dueCalls, wire, hand, conn, up, overtaken>>
  BY DEF FailDue
<1>2. \A c \in Calls \ {d} : Same(c)
  BY <1>1 DEF Same
<1>3. Calm(d)
  BY <1>1, CalmUnchanged
<1>4. CallInv(d)'
  BY SMTT(20), Z3T(20), <1>0, <1>1, <1>3
  DEF CallInv, Cancelling, Cancelled, Stages, Traffic, Settled, TrueOutcome, Calm
<1> QED  BY <1>1, <1>2, <1>4, OneCall DEF OutcomeInv

LEMMA ClosePendingKeeps ==
    ASSUME OutcomeInv, ClosePendingRPCs \/ ClosePendingReturns
    PROVE  \A c \in Calls : CallInv(c)'
<1> USE DEF tables, settled, streams, userVars, cancelVars, connVars, brokerVars
<1> SUFFICES ASSUME NEW c \in Calls PROVE CallInv(c)'
  OBVIOUS
<1>0. CallInv(c) /\ Typed
  BY DEF OutcomeInv
<1>1. UNCHANGED <<user, canceller, outcome, broker, began, ctxDone, closedBy, cancelSent, wire,
                  hand, conn, up, overtaken>>
  BY DEF ClosePendingRPCs, ClosePendingReturns
<1>2. Calm(c)
  BY <1>1, CalmUnchanged
<1>3. CASE ClosePendingReturns
  BY <1>0, <1>1, <1>2, <1>3, Unaffected DEF ClosePendingReturns, Same
<1>4. CASE ClosePendingRPCs
  <2>1. /\ calls' = {} /\ dueCalls' = calls /\ dueStreams' = pendingRPCs /\ ticking' \subseteq ticking
    BY <1>4 DEF ClosePendingRPCs
  <2> QED
    BY SMTT(20), Z3T(20), <1>0, <1>1, <1>2, <2>1
    DEF CallInv, Cancelling, Cancelled, Stages, Traffic, Settled, TrueOutcome, Calm, Typed
<1> QED  BY <1>3, <1>4

LEMMA BreakKeeps ==
    ASSUME OutcomeInv, Break \/ ReplaceConnection
    PROVE  \A c \in Calls : CallInv(c)'
<1> USE DEF tables, settled, streams, userVars, cancelVars, connVars, brokerVars
<1> SUFFICES ASSUME NEW c \in Calls PROVE CallInv(c)'
  OBVIOUS
<1>0. CallInv(c) /\ Typed
  BY DEF OutcomeInv
<1>1. UNCHANGED <<user, canceller, outcome, began, ctxDone, closedBy, calls, cancelRequested, ticking,
                  cancelSent, dueCalls, dueStreams, hand>>
  BY DEF Break, ReplaceConnection
<1>2. CASE Break
  <2>1. /\ ~up' /\ UNCHANGED <<conn, overtaken>> /\ (broker[c] = "none" <=> broker'[c] = "none")
    BY <1>2 DEF Break
  <2>2. ~OnWire(c)' /\ ~Answered(c)' /\ (Held(c)' <=> Held(c))
    <3>1. wire' = <<>>
      BY <1>2 DEF Break
    <3>2. 1..Len(wire') = {}
      BY SMTT(20), Z3T(20), <3>1
    <3> QED  BY <1>1, <3>2 DEF OnWire, Answered, Held
  <2> QED
    BY SMTT(20), Z3T(20), <1>0, <1>1, <2>1, <2>2
    DEF CallInv, Cancelling, Cancelled, Stages, Traffic, Settled, TrueOutcome, Typed
<1>3. CASE ReplaceConnection
  <2>1. conn' = conn + 1 /\ (overtaken => overtaken') /\ UNCHANGED <<broker, wire>>
    BY <1>3 DEF ReplaceConnection
  <2>2. Calm(c)
    BY <1>1, <2>1, CalmUnchanged
  <2> QED
    BY SMTT(20), Z3T(20), <1>0, <1>1, <2>1, <2>2
    DEF CallInv, Cancelling, Cancelled, Stages, Traffic, Settled, TrueOutcome, Calm, Typed
<1> QED  BY <1>2, <1>3

LEMMA Appended ==
    ASSUME Typed, NEW f \in Frames, wire' = Append(wire, f), UNCHANGED hand, NEW c
    PROVE  /\ OnWire(c)' => OnWire(c) \/ f.call = c
           /\ Answered(c)' => Answered(c) \/ (f.call = c /\ f.kind = "result")
           /\ Held(c)' => Held(c)
<1>1. \A i \in 1..Len(wire') : (i \in 1..Len(wire) /\ wire'[i] = wire[i]) \/ wire'[i] = f
  <2>1. /\ Len(wire) \in Nat /\ Len(wire') = Len(wire) + 1 /\ wire'[Len(wire) + 1] = f
        /\ \A i \in 1..Len(wire) : wire'[i] = wire[i]
    BY AppendMeans
  <2> QED  BY SMTT(20), Z3T(20), <2>1
<1>2. OnWire(c)' => OnWire(c) \/ f.call = c
  BY <1>1 DEF OnWire
<1>3. Answered(c)' => Answered(c) \/ (f.call = c /\ f.kind = "result")
  BY <1>1 DEF Answered
<1> QED  BY <1>2, <1>3 DEF Held

LEMMA Taken ==
    ASSUME Typed, wire # <<>>, wire' = Tail(wire), NEW c
    PROVE  /\ OnWire(c)' => OnWire(c)
           /\ Answered(c)' => Answered(c)
           /\ Head(wire).call = c => OnWire(c)
           /\ Head(wire).call = c /\ Head(wire).kind = "result" => Answered(c)
<1>1. /\ \A i \in 1..Len(wire') : i + 1 \in 1..Len(wire) /\ wire'[i] = wire[i + 1]
      /\ 1 \in 1..Len(wire) /\ Head(wire) = wire[1]
  BY SMTT(20), Z3T(20) DEF Typed
<1>2. OnWire(c)' => OnWire(c)
  BY <1>1 DEF OnWire
<1>3. Answered(c)' => Answered(c)
  BY <1>1 DEF Answered
<1> QED  BY <1>1, <1>2, <1>3 DEF OnWire, Answered

LEMMA BrokerKeeps ==
    ASSUME OutcomeInv, NEW d \in Calls, NEW f \in Frames, wire' = Append(wire, f), f.call = d,
           f.kind = "result" => d \in cancelSent,
           broker[d] # "none", broker'[d] # "none", \A c \in Calls \ {d} : broker'[c] = broker[c],
           UNCHANGED <<tables, settled, streams, userVars, cancelVars, connVars, hand, began>>
    PROVE  \A c \in Calls : CallInv(c)'
<1> USE DEF tables, settled, streams, userVars, cancelVars, connVars
<1> SUFFICES ASSUME NEW c \in Calls PROVE CallInv(c)'
  OBVIOUS
<1>0. CallInv(c) /\ Typed
  BY DEF OutcomeInv
<1>1. /\ OnWire(c)' => OnWire(c) \/ f.call = c
      /\ Answered(c)' => Answered(c) \/ (f.call = c /\ f.kind = "result")
      /\ Held(c)' => Held(c)
  BY <1>0, Appended
<1>2. CASE c # d
  BY <1>0, <1>1, <1>2, Unaffected DEF Same, Calm
<1>3. CASE c = d
  BY SMTT(20), Z3T(20), <1>0, <1>1, <1>3
  DEF CallInv, Cancelling, Cancelled, Stages, Traffic, Settled, TrueOutcome
<1> QED  BY <1>2, <1>3

LEMMA HandleResultKeeps == ASSUME OutcomeInv, HandleResult PROVE \A c \in Calls : CallInv(c)'
<1> USE DEF tables, settled, streams, userVars, cancelVars, connVars
<1>a. PICK d \in Calls : d = Head(wire).call
  BY HeadTyped DEF OutcomeInv, HandleResult, Frames
<1>0. Typed /\ CallInv(d)
  BY DEF OutcomeInv
<1>1. /\ FinishCancellation(d, "answered", {})
      /\ wire # <<>> /\ wire' = Tail(wire) /\ Head(wire).kind = "result"
      /\ UNCHANGED <<user, canceller, broker, began, ctxDone, closedBy, cancelSent, dueCalls,
                     dueStreams, hand, conn, up, overtaken>>
  BY <1>a DEF HandleResult
<1>2. d \in cancelSent
  BY <1>a, <1>0, <1>1, Taken DEF CallInv, Traffic
<1>3. \A c \in Calls : Calm(c)
  BY <1>0, <1>1, Taken DEF Calm, Held
<1>4. /\ \A c \in Calls \ {d} : Same(c)
      /\ d \notin calls' /\ ticking' \subseteq ticking
      /\ outcome'[d] = outcome[d] \/ (outcome[d] = None /\ outcome'[d] = "answered")
  BY <1>0, <1>1, FinishCancellationMeans DEF Same
<1>5. CallInv(d)'
  BY SMTT(20), Z3T(20), RpcCallsAssumption, <1>0, <1>1, <1>2, <1>3, <1>4
  DEF CallInv, Cancelling, Cancelled, Stages, Traffic, Settled, TrueOutcome, Calm, Typed, Outcomes
<1> QED  BY <1>1, <1>3, <1>4, <1>5, Unaffected DEF OutcomeInv

LEMMA LookUpKeeps ==
    ASSUME OutcomeInv, LookUp \/ EnqueueFrame
    PROVE  \A c \in Calls : CallInv(c)'
<1> USE DEF tables, settled, streams, userVars, cancelVars, connVars
<1> SUFFICES ASSUME NEW c \in Calls PROVE CallInv(c)'
  OBVIOUS
<1>0. CallInv(c) /\ Typed
  BY DEF OutcomeInv
<1>1. Same(c) /\ UNCHANGED <<conn, up, overtaken>>
  BY DEF Same, LookUp, EnqueueFrame
<1>2. CASE LookUp
  <2>1. wire # <<>> /\ wire' = Tail(wire) /\ hand' \in {Head(wire), None}
    BY <1>2 DEF LookUp
  <2>2. Calm(c)
    BY <1>0, <2>1, Taken DEF Calm, Held
  <2> QED  BY <1>0, <1>1, <2>2, Unaffected
<1>3. CASE EnqueueFrame
  <2>1. Held(c)' => Held(c)
    BY SMTT(20), Z3T(20), <1>0, <1>3 DEF EnqueueFrame, Held, Typed, Frames
  <2>2. Calm(c)
    BY <1>3, <2>1 DEF Calm, OnWire, Answered, EnqueueFrame
  <2> QED  BY <1>0, <1>1, <2>2, Unaffected
<1> QED  BY <1>2, <1>3

LEMMA EndCallKeeps == ASSUME OutcomeInv, EndCall PROVE \A c \in Calls : CallInv(c)'
<1> USE DEF tables, settled, streams, userVars, cancelVars, connVars
<1>a. PICK d \in Calls : d = hand.call
  BY DEF OutcomeInv, Typed, EndCall, Frames
<1>0. Typed /\ CallInv(d) /\ Held(d)
  BY <1>a DEF OutcomeInv, EndCall, Held
<1>1. /\ FinishCall(d, "not_requested") /\ hand' = None
      /\ UNCHANGED <<user, canceller, broker, began, ctxDone, closedBy, cancelSent, dueCalls,
                     dueStreams, wire, conn, up, overtaken>>
  BY <1>a DEF EndCall
<1>2. \A c \in Calls : Calm(c)
  BY <1>1 DEF Calm, OnWire, Answered, Held
<1>3. \A c \in Calls \ {d} : Same(c)
  BY <1>0, <1>1, FinishCallMeans DEF Same
<1>4. CASE d \in cancelRequested /\ UNCHANGED <<calls, cancelRequested, ticking, outcome>>
  <2>1. \A c \in Calls : Same(c)
    BY <1>1, <1>4 DEF Same
  <2> QED  BY <1>1, <1>2, <2>1, Unaffected DEF OutcomeInv
<1>5. CASE /\ d \notin cancelRequested /\ d \notin calls'
           /\ ticking' \subseteq ticking
           /\ outcome'[d] = outcome[d] \/ (d \in calls /\ outcome[d] = None /\ outcome'[d] = "not_requested")
  <2>1. Calm(d)
    BY <1>0, <1>2
  <2>2. CallInv(d)'
    BY SMTT(20), Z3T(20), RpcCallsAssumption, <1>0, <1>1, <2>1, <1>5
    DEF CallInv, Cancelling, Cancelled, Stages, Traffic, Settled, TrueOutcome, Calm, Typed, Outcomes
  <2> QED  BY <1>1, <1>2, <1>3, <2>2, Unaffected DEF OutcomeInv
<1> QED  BY <1>0, <1>1, <1>4, <1>5, FinishCallMeans

LEMMA OutcomeInvKept == ASSUME OutcomeInv, Next PROVE OutcomeInv'
<1>1. ASSUME NEW c \in Calls, NEW kind \in Ends \cup Bodies, BrokerSends(c, kind)
      PROVE  \A b \in Calls : CallInv(b)'
  <2>1. [call |-> c, kind |-> kind] \in Frames /\ kind # "result"
    BY DEF Frames, Ends, Bodies
  <2>2. broker[c] # "none" /\ broker'[c] # "none" /\ \A b \in Calls \ {c} : broker'[b] = broker[b]
    BY <1>1 DEF BrokerSends, OutcomeInv, Typed
  <2> QED  BY <1>1, <2>1, <2>2, BrokerKeeps DEF BrokerSends
<1>2. ASSUME NEW c \in Calls, BrokerAnswers(c) PROVE \A b \in Calls : CallInv(b)'
  <2>1. [call |-> c, kind |-> "result"] \in Frames
    BY DEF Frames
  <2>2. broker[c] # "none" /\ broker'[c] # "none" /\ \A b \in Calls \ {c} : broker'[b] = broker[b]
    BY <1>2 DEF BrokerAnswers, OutcomeInv, Typed
  <2> QED  BY <1>2, <2>1, <2>2, BrokerKeeps DEF BrokerAnswers
<1>3. \A c \in Calls : CallInv(c)'
  BY <1>1, <1>2, CallRefusedKeeps, RegisterKeeps, SendSucceedsKeeps, SendFailsKeeps, WatchKeeps,
     SetStopContextKeeps, NextReturnsKeeps, NextEndsKeeps, NextCancelsKeeps, CloseIteratorKeeps,
     UserCancelsKeeps, ContextEndsKeeps, WatcherCancelsKeeps, CancelUnsupportedKeeps,
     StartTimerKeeps, StoreTimerKeeps, SendCancelKeeps, TimerFiresKeeps, CancelNotSentKeeps,
     CompleteDueKeeps, FailDueKeeps, ClosePendingKeeps, BreakKeeps, HandleResultKeeps, LookUpKeeps,
     EndCallKeeps
  DEF Next, UserCalls, InCall, CancelStep, LoopStep, MonitorStep
<1> QED  BY <1>3, TypedKept, MonitoredKept DEF OutcomeInv

LEMMA OutcomeInitial == Init => OutcomeInv
<1> SUFFICES ASSUME Init PROVE OutcomeInv
  OBVIOUS
<1>1. Typed
  <2>1. {queued, got, emitted, began} \subseteq [Calls -> Nat] /\ conn \in Nat /\ wire \in Seq(Frames)
    BY SMTT(20), Z3T(20) DEF Init
  <2> QED  BY <2>1 DEF Init, Typed
<1>2. Monitored
  BY DEF Init, Monitored
<1>3. ASSUME NEW c \in Calls PROVE CallInv(c)
  <2>1. ~OnWire(c) /\ ~Answered(c) /\ ~Held(c)
    BY SMTT(20), Z3T(20) DEF Init, OnWire, Answered, Held
  <2> QED
    BY SMTT(20), Z3T(20), <2>1, RpcCallsAssumption
    DEF Init, CallInv, Cancelling, Cancelled, Stages, Traffic, Settled, TrueOutcome, Outcomes
<1> QED  BY <1>1, <1>2, <1>3 DEF OutcomeInv

LEMMA OutcomeStutters == ASSUME OutcomeInv, UNCHANGED vars PROVE OutcomeInv'
<1> USE DEF vars, tables, settled, streams, userVars, cancelVars, connVars, brokerVars
<1>1. \A c \in Calls : Same(c) /\ Calm(c)
  BY CalmUnchanged DEF Same
<1>2. \A c \in Calls : CallInv(c)'
  BY <1>1, Unaffected DEF OutcomeInv
<1> QED  BY <1>2 DEF OutcomeInv, Typed, Monitored

\* OutcomeInv holds of every behaviour of the calling side of the RPC domain.
THEOREM OutcomeInvariance == Spec => []OutcomeInv
<1>1. OutcomeInv /\ [Next]_vars => OutcomeInv'
  BY OutcomeInvKept, OutcomeStutters
<1> QED  BY <1>1, OutcomeInitial, PTL DEF Spec

\* What CancellationResult delivers is what happened to the call, however the
\* end of the call, the broker's answer, the timer and the loss of the
\* connection interleave.
THEOREM OutcomesAreTrue == Spec => []OutcomeIsTrue
<1>1. OutcomeInv => OutcomeIsTrue
  BY DEF OutcomeInv, CallInv, Settled, OutcomeIsTrue
<1> QED  BY <1>1, OutcomeInvariance, PTL


-----------------------------------------------------------------------------
(* The number of frames on the wire                                        *)

LEMMA DueCounts ==
    ASSUME Typed, NEW c \in Calls
    PROVE  IsFiniteSet(Carriers(c)) /\ Due(c) \in Nat /\ (Silent(c) => Due(c) = 0)
<1>1. Len(wire) \in Nat
  BY SMTT(20), Z3T(20) DEF Typed
<1>2. IsFiniteSet(1..Len(wire))
  BY SMTT(20), Z3T(20), <1>1, FS_Interval
<1>3. Carriers(c) \in SUBSET (1..Len(wire))
  BY DEF Carriers
<1>4. IsFiniteSet(Carriers(c))
  BY <1>2, <1>3, FS_Subset
<1>5. Silent(c) => Carriers(c) = {}
  BY DEF Silent, Carriers, Bodies
<1> QED  BY <1>4, <1>5, FS_CardinalityType, FS_EmptySet DEF Due

LEMMA DueAppended ==
    ASSUME Typed, NEW c \in Calls, NEW f \in Frames, wire' = Append(wire, f)
    PROVE  Due(c)' = IF f.call = c /\ f.kind \in Bodies THEN Due(c) + 1 ELSE Due(c)
<1>1. /\ Len(wire) \in Nat /\ Len(wire') = Len(wire) + 1 /\ wire'[Len(wire) + 1] = f
      /\ \A i \in 1..Len(wire) : wire'[i] = wire[i]
  BY AppendMeans
<1>2. 1..Len(wire') = (1..Len(wire)) \cup {Len(wire) + 1} /\ Len(wire) + 1 \notin 1..Len(wire)
  BY SMTT(20), Z3T(20), <1>1
<1>3. CASE f.call = c /\ f.kind \in Bodies
  <2>1. Carriers(c)' = Carriers(c) \cup {Len(wire) + 1}
    BY <1>1, <1>2, <1>3 DEF Carriers
  <2>2. Len(wire) + 1 \notin Carriers(c)
    BY <1>2 DEF Carriers
  <2> QED  BY <1>3, <2>1, <2>2, DueCounts, FS_AddElement DEF Due
<1>4. CASE ~(f.call = c /\ f.kind \in Bodies)
  <2>1. Carriers(c)' = Carriers(c)
    BY <1>1, <1>2, <1>4 DEF Carriers
  <2> QED  BY <1>4, <2>1 DEF Due
<1> QED  BY <1>3, <1>4

LEMMA DueTaken ==
    ASSUME Typed, NEW c \in Calls, wire # <<>>, wire' = Tail(wire)
    PROVE  Due(c)' = IF Head(wire).call = c /\ Head(wire).kind \in Bodies THEN Due(c) - 1 ELSE Due(c)
<1>1. /\ Len(wire) \in Nat /\ Len(wire') \in Nat /\ Len(wire) = Len(wire') + 1
      /\ \A i \in 1..Len(wire') : wire'[i] = wire[i + 1]
      /\ Head(wire) = wire[1]
  BY SMTT(20), Z3T(20) DEF Typed
<1>2. \A i \in 1..Len(wire) : i # 1 => i - 1 \in 1..Len(wire') /\ wire[i] = wire'[i - 1] /\ (i - 1) + 1 = i
  BY SMTT(20), Z3T(20), <1>1
<1>3. \A i \in 1..Len(wire') : i + 1 \in 1..Len(wire) /\ i + 1 # 1
  BY SMTT(20), Z3T(20), <1>1
<1>4. \A i, j \in 1..Len(wire') : i + 1 = j + 1 => i = j
  BY SMTT(20), Z3T(20), <1>1
<1> DEFINE rest == Carriers(c) \ {1}
           shift == [i \in Carriers(c)' |-> i + 1]
<1>5. Cardinality(rest) = Due(c)'
  <2>1. shift \in Bijection(Carriers(c)', rest)
    <3>1. shift \in [Carriers(c)' -> rest]
      BY <1>1, <1>3 DEF Carriers
    <3>2. \A i, j \in Carriers(c)' : shift[i] = shift[j] => i = j
      BY <1>4 DEF Carriers
    <3>3. \A k \in rest : \E i \in Carriers(c)' : shift[i] = k
      BY <1>2 DEF Carriers
    <3> HIDE DEF shift, rest
    <3> QED  BY <3>1, <3>2, <3>3 DEF Bijection, Injection, Surjection, IsInjective
  <2>2. IsFiniteSet(Carriers(c)')
    <3>1. IsFiniteSet(1..Len(wire'))
      BY SMTT(20), Z3T(20), <1>1, FS_Interval
    <3>2. Carriers(c)' \in SUBSET (1..Len(wire'))
      BY DEF Carriers
    <3> QED  BY <3>1, <3>2, FS_Subset
  <2> QED  BY <2>1, <2>2, FS_Bijection DEF ExistsBijection, Due
<1>6. Cardinality(rest) = IF 1 \in Carriers(c) THEN Due(c) - 1 ELSE Due(c)
  BY DueCounts, FS_RemoveElement DEF Due
<1>7. 1 \in Carriers(c) <=> Head(wire).call = c /\ Head(wire).kind \in Bodies
  <2>1. 1 \in 1..Len(wire)
    BY SMTT(20), Z3T(20), <1>1
  <2> QED  BY <1>1, <2>1 DEF Carriers
<1> HIDE DEF rest
<1> QED  BY <1>5, <1>6, <1>7


-----------------------------------------------------------------------------
(* What reaches the stream                                                 *)

\* Nothing that CallFlow mentions changes for the call, but for its frames.
SameFlow(c) ==
    /\ user'[c] = user[c] /\ stream'[c] = stream[c] /\ broker'[c] = broker[c]
    /\ queued'[c] = queued[c] /\ got'[c] = got[c] /\ emitted'[c] = emitted[c]
    /\ (c \in ctxDone' <=> c \in ctxDone) /\ (c \in closedBy' <=> c \in closedBy)
    /\ (c \in pendingRPCs' <=> c \in pendingRPCs) /\ (c \in dueStreams' <=> c \in dueStreams)

\* The frames of the call stay where they are.
SamePipe(c) ==
    /\ Finale(c)' <=> Finale(c)
    /\ Silent(c) => Silent(c)'
    /\ Ordered(c) => Ordered(c)'
    /\ Due(c)' = Due(c)
    /\ Held(c)' <=> Held(c)
    /\ Held(c) => hand' = hand

LEMMA SamePlaces ==
    ASSUME NEW c, SamePipe(c)
    PROVE  InHand(c)' = InHand(c) /\ (Ending(c)' <=> Ending(c))
BY DEF SamePipe, InHand, Ending

LEMMA FlowUnaffected ==
    ASSUME NEW c \in Calls, CallFlow(c), SameFlow(c), SamePipe(c)
    PROVE  CallFlow(c)'
<1>1. Cancelled(c)' <=> Cancelled(c)
  BY DEF SameFlow, Cancelled
<1>2. InHand(c)' = InHand(c) /\ (Ending(c)' <=> Ending(c))
  BY SamePlaces
<1>3. InOrder(c)'
  BY <1>2 DEF CallFlow, InOrder, SameFlow, SamePipe
<1>4. Listed(c)'
  BY <1>1 DEF CallFlow, Listed, SameFlow, SamePipe
<1>5. Counted(c)'
  BY <1>1, <1>2 DEF CallFlow, Counted, SameFlow, SamePipe
<1>6. Ended(c)'
  BY <1>1 DEF CallFlow, Ended, SameFlow
<1>7. Opening(c)'
  BY DEF CallFlow, Opening, SameFlow
<1> QED  BY <1>3, <1>4, <1>5, <1>6, <1>7 DEF CallFlow

LEMMA PipeUnchanged == ASSUME NEW c, UNCHANGED <<wire, hand>> PROVE SamePipe(c)
BY DEF SamePipe, Finale, Silent, Ordered, Due, Carriers, Held

\* A step of one call that moves no frame.
LEMMA OneFlow ==
    ASSUME \A c \in Calls : CallFlow(c), NEW d \in Calls, \A c \in Calls \ {d} : SameFlow(c),
           UNCHANGED <<wire, hand>>, CallFlow(d)'
    PROVE  \A c \in Calls : CallFlow(c)'
BY PipeUnchanged, FlowUnaffected

LEMMA ClosedMeans ==
    ASSUME Typed, NEW cs, NEW how, Closed(cs, how), NEW c \in Calls
    PROVE  stream'[c] = stream[c] \/ (c \in cs /\ stream[c] = "open" /\ stream'[c] = how)
BY DEF Closed

\* A call that is not listed has no stream in the table.
LEMMA MarkFlow ==
    ASSUME Typed, NEW d \in Calls, Mark(d)
    PROVE  UNCHANGED pendingRPCs /\ \A c \in Calls : stream'[c] = stream[c]
<1>1. CASE d \in calls
  BY <1>1 DEF Mark
<1>2. CASE d \notin calls
  <2>1. d \notin pendingRPCs
    BY <1>2 DEF Typed
  <2>2. Closed(pendingRPCs \cap {d}, "clean") /\ pendingRPCs' = pendingRPCs \ {d}
    BY <1>2 DEF Mark
  <2>3. pendingRPCs \cap {d} = {} /\ pendingRPCs \ {d} = pendingRPCs
    BY <2>1
  <2>4. \A c \in Calls : stream'[c] = stream[c]
    BY <2>2, <2>3 DEF Closed
  <2> QED  BY <2>2, <2>3, <2>4
<1> QED  BY <1>1, <1>2

\* The end of a cancellation, for the call that was cancelled.
LEMMA CancelledFlow ==
    ASSUME NEW d \in Calls, CallFlow(d), Cancelled(d), Cancelled(d)',
           stream'[d] = stream[d] \/ stream[d] = "open", d \notin pendingRPCs' \/ UNCHANGED <<pendingRPCs, dueStreams>>,
           user'[d] = user[d], broker'[d] = broker[d], queued'[d] = queued[d], got'[d] = got[d],
           emitted'[d] = emitted[d], d \in ctxDone' <=> d \in ctxDone, user[d] = "new" => stream'[d] = stream[d],
           SamePipe(d)
    PROVE  CallFlow(d)'
<1>1. InHand(d)' = InHand(d) /\ (Ending(d)' <=> Ending(d))
  BY SamePlaces
<1>2. InOrder(d)'
  BY <1>1 DEF CallFlow, InOrder, SamePipe
<1>3. Listed(d)' /\ Counted(d)'
  BY DEF CallFlow, Listed, Counted
<1>4. Ended(d)'
  BY DEF CallFlow, Ended
<1>5. Opening(d)'
  BY DEF CallFlow, Opening
<1> QED  BY <1>2, <1>3, <1>4, <1>5 DEF CallFlow

LEMMA UserStepFlows ==
    ASSUME FlowInv, NEW d \in Calls, CallRefused(d) \/ Watch(d) \/ SetStopContext(d) \/ NextCancels(d)
    PROVE  \A c \in Calls : CallFlow(c)'
<1> USE DEF tables, settled, streams, userVars, cancelVars, connVars, brokerVars
<1>0. Typed /\ CallInv(d) /\ CallFlow(d)
  BY DEF FlowInv, OutcomeInv
<1>1. /\ user[d] # "failed" /\ user'[d] \notin {"new", "ended"}
      /\ UNCHANGED <<stream, broker, queued, got, emitted, ctxDone, closedBy, pendingRPCs, dueStreams, wire, hand>>
      /\ \A c \in Calls \ {d} : user'[c] = user[c]
  BY <1>0 DEF Typed, CallRefused, Watch, SetStopContext, NextCancels, Go
<1>3. \A c \in Calls \ {d} : SameFlow(c)
  BY <1>1 DEF SameFlow
<1>4. SamePipe(d) /\ InHand(d)' = InHand(d) /\ (Ending(d)' <=> Ending(d))
  BY <1>1, PipeUnchanged, SamePlaces
<1>7. Cancelled(d)' <=> Cancelled(d)
  BY <1>1 DEF Cancelled
<1>8. CallFlow(d)'
  <2> USE <1>0, <1>1, <1>4, <1>7
  <2>1. InOrder(d)'
    BY DEF CallFlow, InOrder, SamePipe
  <2>2. Listed(d)'
    BY DEF CallFlow, Listed, SamePipe, CallInv, Stages
  <2>3. Counted(d)'
    BY DEF CallFlow, Counted, SamePipe
  <2>4. Ended(d)'
    BY DEF CallFlow, Ended, CallInv, Stages
  <2>5. Opening(d)'
    BY DEF CallFlow, Opening, CallInv, Stages
  <2> QED  BY <2>1, <2>2, <2>3, <2>4, <2>5 DEF CallFlow
<1> QED  BY <1>1, <1>3, <1>8, OneFlow DEF FlowInv

LEMMA RegisterFlows ==
    ASSUME FlowInv, NEW d \in Calls, Register(d)
    PROVE  \A c \in Calls : CallFlow(c)'
<1> USE DEF tables, settled, streams, userVars, cancelVars, connVars, brokerVars
<1>0. Typed /\ CallInv(d) /\ CallFlow(d)
  BY DEF FlowInv, OutcomeInv
<1>1. /\ user[d] = "new" /\ user'[d] = "registered"
      /\ pendingRPCs' = pendingRPCs \cup {d}
      /\ UNCHANGED <<stream, broker, queued, got, emitted, ctxDone, closedBy, dueStreams, wire, hand>>
      /\ \A c \in Calls \ {d} : user'[c] = user[c]
  BY <1>0 DEF Typed, Register, Go
<1>3. \A c \in Calls \ {d} : SameFlow(c)
  BY <1>1 DEF SameFlow
<1>4. SamePipe(d) /\ InHand(d)' = InHand(d) /\ (Ending(d)' <=> Ending(d))
  BY <1>1, PipeUnchanged, SamePlaces
<1>5. /\ broker[d] = "none" /\ ~OnWire(d) /\ ~Held(d) /\ InHand(d) = 0 /\ ~Ending(d)
      /\ Due(d) = 0
  BY <1>0, <1>1, DueCounts DEF CallInv, Stages, Traffic, OnWire, InHand, Ending, Finale, Silent
<1>7. Cancelled(d)' <=> Cancelled(d)
  BY <1>1 DEF Cancelled
<1>8. CallFlow(d)'
  <2> USE <1>0, <1>1, <1>5, <1>4, <1>7
  <2>1. InOrder(d)'
    BY DEF CallFlow, InOrder, SamePipe
  <2>2. Listed(d)'
    BY DEF CallFlow, Listed, SamePipe, CallInv, Stages, Opening
  <2>3. Counted(d)'
    BY DEF CallFlow, Counted, SamePipe, Opening
  <2>4. Ended(d)'
    BY DEF CallFlow, Ended, CallInv, Stages
  <2>5. Opening(d)'
    BY DEF CallFlow, Opening, CallInv, Stages
  <2> QED  BY <2>1, <2>2, <2>3, <2>4, <2>5 DEF CallFlow
<1> QED  BY <1>1, <1>3, <1>8, OneFlow DEF FlowInv

LEMMA SendSucceedsFlows ==
    ASSUME FlowInv, NEW d \in Calls, SendSucceeds(d)
    PROVE  \A c \in Calls : CallFlow(c)'
<1> USE DEF tables, settled, streams, userVars, cancelVars, connVars, brokerVars
<1>0. Typed /\ CallInv(d) /\ CallFlow(d)
  BY DEF FlowInv, OutcomeInv
<1>1. /\ user[d] = "registered" /\ user'[d] = "sent"
      /\ broker'[d] = "running"
      /\ UNCHANGED <<stream, queued, got, emitted, ctxDone, closedBy, pendingRPCs, dueStreams, wire, hand>>
      /\ \A c \in Calls \ {d} : user'[c] = user[c] /\ broker'[c] = broker[c]
  BY <1>0 DEF Typed, SendSucceeds, Go
<1>3. \A c \in Calls \ {d} : SameFlow(c)
  BY <1>1 DEF SameFlow
<1>4. SamePipe(d) /\ InHand(d)' = InHand(d) /\ (Ending(d)' <=> Ending(d))
  BY <1>1, PipeUnchanged, SamePlaces
<1>5. /\ broker[d] = "none" /\ ~OnWire(d) /\ ~Held(d) /\ InHand(d) = 0 /\ ~Ending(d)
      /\ Due(d) = 0
  BY <1>0, <1>1, DueCounts DEF CallInv, Stages, Traffic, OnWire, InHand, Ending, Finale, Silent
<1>6. 0 + 0 + 0 + 0 = 0
  BY SMTT(20), Z3T(20)
<1>7. Cancelled(d)' <=> Cancelled(d)
  BY <1>1 DEF Cancelled
<1>8. CallFlow(d)'
  <2> USE <1>0, <1>1, <1>5, <1>6, <1>4, <1>7
  <2>1. InOrder(d)'
    BY DEF CallFlow, InOrder, SamePipe
  <2>2. Listed(d)'
    BY DEF CallFlow, Listed, SamePipe, CallInv, Stages, Opening
  <2>3. Counted(d)'
    BY DEF CallFlow, Counted, SamePipe, Opening
  <2>4. Ended(d)'
    BY DEF CallFlow, Ended, CallInv, Stages
  <2>5. Opening(d)'
    BY DEF CallFlow, Opening, CallInv, Stages
  <2> QED  BY <2>1, <2>2, <2>3, <2>4, <2>5 DEF CallFlow
<1> QED  BY <1>1, <1>3, <1>8, OneFlow DEF FlowInv

LEMMA SendFailsFlows ==
    ASSUME FlowInv, NEW d \in Calls, SendFails(d)
    PROVE  \A c \in Calls : CallFlow(c)'
<1> USE DEF tables, settled, streams, userVars, cancelVars, connVars, brokerVars
<1>0. Typed /\ CallInv(d) /\ CallFlow(d)
  BY DEF FlowInv, OutcomeInv
<1>1. /\ user[d] = "registered" /\ user'[d] = "failed"
      /\ pendingRPCs' = pendingRPCs \ {d}
      /\ Closed({d}, "clean")
      /\ UNCHANGED <<broker, queued, got, emitted, ctxDone, closedBy, dueStreams, wire, hand>>
      /\ \A c \in Calls \ {d} : user'[c] = user[c]
  BY <1>0 DEF Typed, SendFails, Go, FinishCall, Forget
<1>2. /\ \A c \in Calls \ {d} : stream'[c] = stream[c]
      /\ stream'[d] = stream[d] \/ (stream[d] = "open" /\ stream'[d] = "clean")
  BY <1>0, <1>1, ClosedMeans
<1>3. \A c \in Calls \ {d} : SameFlow(c)
  BY <1>1, <1>2 DEF SameFlow
<1>4. SamePipe(d) /\ InHand(d)' = InHand(d) /\ (Ending(d)' <=> Ending(d))
  BY <1>1, PipeUnchanged, SamePlaces
<1>5. broker[d] = "none" /\ ~Held(d)
  BY <1>0, <1>1 DEF CallInv, Stages, Traffic
<1>7. Cancelled(d)' <=> Cancelled(d)
  BY <1>1 DEF Cancelled
<1>8. CallFlow(d)'
  <2> USE <1>0, <1>1, <1>2, <1>5, <1>4, <1>7
  <2>1. InOrder(d)'
    BY DEF CallFlow, InOrder, SamePipe
  <2>2. Listed(d)'
    BY DEF CallFlow, Listed, SamePipe, CallInv, Stages
  <2>3. Counted(d)'
    BY DEF CallFlow, Counted, SamePipe
  <2>4. Ended(d)'
    BY DEF CallFlow, Ended, CallInv, Stages
  <2>5. Opening(d)'
    BY DEF CallFlow, Opening, CallInv, Stages
  <2> QED  BY <2>1, <2>2, <2>3, <2>4, <2>5 DEF CallFlow
<1> QED  BY <1>1, <1>3, <1>8, OneFlow DEF FlowInv

LEMMA NextReturnsFlows ==
    ASSUME FlowInv, NEW d \in Calls, NextReturns(d)
    PROVE  \A c \in Calls : CallFlow(c)'
<1> USE DEF tables, settled, streams, userVars, cancelVars, connVars, brokerVars
<1>0. Typed /\ CallInv(d) /\ CallFlow(d)
  BY DEF FlowInv, OutcomeInv
<1>1. /\ user[d] = "open" /\ queued[d] > 0
      /\ queued'[d] = queued[d] - 1 /\ got'[d] = got[d] + 1
      /\ UNCHANGED <<user, stream, broker, emitted, ctxDone, closedBy, pendingRPCs, dueStreams, wire, hand>>
      /\ \A c \in Calls \ {d} : queued'[c] = queued[c] /\ got'[c] = got[c]
  BY <1>0 DEF Typed, NextReturns
<1>3. \A c \in Calls \ {d} : SameFlow(c)
  BY <1>1 DEF SameFlow
<1>4. SamePipe(d) /\ InHand(d)' = InHand(d) /\ (Ending(d)' <=> Ending(d))
  BY <1>1, PipeUnchanged, SamePlaces
<1>5. /\ got'[d] + queued'[d] = got[d] + queued[d] /\ queued[d] # 0
      /\ got'[d] + queued'[d] + InHand(d) + Due(d) = got[d] + queued[d] + InHand(d) + Due(d)
  <2>1. got[d] \in Nat /\ queued[d] \in Nat /\ InHand(d) \in Nat /\ Due(d) \in Nat
    BY <1>0, DueCounts, CountsTyped DEF InHand
  <2>2. queued[d] # 0
    BY SMTT(20), Z3T(20), <1>1
  <2>3. got'[d] = got[d] + 1 /\ queued'[d] = queued[d] - 1
    BY <1>1
  <2> QED  BY SMTT(20), Z3T(20), <2>1, <2>2, <2>3
<1>7. Cancelled(d)' <=> Cancelled(d)
  BY <1>1 DEF Cancelled
<1>8. CallFlow(d)'
  <2> USE <1>0, <1>1, <1>5, <1>4, <1>7
  <2>1. InOrder(d)'
    BY DEF CallFlow, InOrder, SamePipe
  <2>2. Listed(d)'
    BY DEF CallFlow, Listed, SamePipe, CallInv, Stages
  <2>3. Counted(d)'
    BY DEF CallFlow, Counted, SamePipe
  <2>4. Ended(d)'
    BY DEF CallFlow, Ended, CallInv, Stages
  <2>5. Opening(d)'
    BY DEF CallFlow, Opening, CallInv, Stages
  <2> QED  BY <2>1, <2>2, <2>3, <2>4, <2>5 DEF CallFlow
<1> QED  BY <1>1, <1>3, <1>8, OneFlow DEF FlowInv

LEMMA NextEndsFlows ==
    ASSUME FlowInv, NEW d \in Calls, NextEnds(d)
    PROVE  \A c \in Calls : CallFlow(c)'
<1> USE DEF tables, settled, streams, userVars, cancelVars, connVars, brokerVars
<1>0. Typed /\ CallInv(d) /\ CallFlow(d)
  BY DEF FlowInv, OutcomeInv
<1>1. /\ user[d] = "open" /\ queued[d] = 0 /\ d \notin ctxDone
      /\ user'[d] = IF stream[d] = "clean" THEN "ended" ELSE "done"
      /\ UNCHANGED <<stream, broker, queued, got, emitted, ctxDone, closedBy, pendingRPCs, dueStreams, wire, hand>>
      /\ \A c \in Calls \ {d} : user'[c] = user[c]
  BY <1>0 DEF Typed, NextEnds, Go
<1>3. \A c \in Calls \ {d} : SameFlow(c)
  BY <1>1 DEF SameFlow
<1>4. SamePipe(d) /\ InHand(d)' = InHand(d) /\ (Ending(d)' <=> Ending(d))
  BY <1>1, PipeUnchanged, SamePlaces
<1>7. Cancelled(d)' <=> Cancelled(d)
  BY <1>1 DEF Cancelled
<1>8. CallFlow(d)'
  <2> USE <1>0, <1>1, <1>4, <1>7
  <2>1. InOrder(d)'
    BY DEF CallFlow, InOrder, SamePipe
  <2>2. Listed(d)'
    BY DEF CallFlow, Listed, SamePipe, CallInv, Stages
  <2>3. Counted(d)'
    BY DEF CallFlow, Counted, SamePipe
  <2>4. Ended(d)'
    BY DEF CallFlow, Ended, CallInv, Stages
  <2>5. Opening(d)'
    BY DEF CallFlow, Opening, CallInv, Stages
  <2> QED  BY <2>1, <2>2, <2>3, <2>4, <2>5 DEF CallFlow
<1> QED  BY <1>1, <1>3, <1>8, OneFlow DEF FlowInv

LEMMA CloseIteratorFlows ==
    ASSUME FlowInv, NEW d \in Calls, CloseIterator(d)
    PROVE  \A c \in Calls : CallFlow(c)'
<1> USE DEF tables, settled, streams, userVars, cancelVars, connVars, brokerVars
<1>0. Typed /\ CallInv(d) /\ CallFlow(d)
  BY DEF FlowInv, OutcomeInv
<1>1. /\ user[d] \in {"open", "ended", "done"} /\ user'[d] = "cancel"
      /\ closedBy' = closedBy \cup {d}
      /\ Closed({d}, "clean")
      /\ UNCHANGED <<broker, queued, got, emitted, ctxDone, pendingRPCs, dueStreams, wire, hand>>
      /\ \A c \in Calls \ {d} : user'[c] = user[c]
  BY <1>0 DEF Typed, CloseIterator, Go
<1>2. /\ \A c \in Calls \ {d} : stream'[c] = stream[c]
      /\ stream'[d] = stream[d] \/ (stream[d] = "open" /\ stream'[d] = "clean")
  BY <1>0, <1>1, ClosedMeans
<1>3. \A c \in Calls \ {d} : SameFlow(c)
  BY <1>1, <1>2 DEF SameFlow
<1>4. SamePipe(d) /\ InHand(d)' = InHand(d) /\ (Ending(d)' <=> Ending(d))
  BY <1>1, PipeUnchanged, SamePlaces
<1>7. Cancelled(d)'
  BY <1>1 DEF Cancelled
<1>8. CallFlow(d)'
  <2> USE <1>0, <1>1, <1>2, <1>4, <1>7
  <2>1. InOrder(d)'
    BY DEF CallFlow, InOrder, SamePipe
  <2>2. Listed(d)'
    BY DEF CallFlow, Listed, SamePipe, CallInv, Stages
  <2>3. Counted(d)'
    BY DEF CallFlow, Counted, SamePipe
  <2>4. Ended(d)'
    BY DEF CallFlow, Ended, CallInv, Stages
  <2>5. Opening(d)'
    BY DEF CallFlow, Opening, CallInv, Stages
  <2> QED  BY <2>1, <2>2, <2>3, <2>4, <2>5 DEF CallFlow
<1> QED  BY <1>1, <1>3, <1>8, OneFlow DEF FlowInv

LEMMA UserCancelsFlows ==
    ASSUME FlowInv, NEW d \in Calls, UserCancels(d)
    PROVE  \A c \in Calls : CallFlow(c)'
<1> USE DEF tables, settled, streams, userVars, cancelVars, connVars, brokerVars
<1>0. Typed /\ CallInv(d) /\ CallFlow(d)
  BY DEF FlowInv, OutcomeInv
<1>1. /\ user[d] = "cancel" /\ user'[d] = "done"
      /\ Mark(d)
      /\ UNCHANGED <<broker, queued, got, emitted, ctxDone, closedBy, dueStreams, wire, hand>>
      /\ \A c \in Calls \ {d} : user'[c] = user[c]
  BY <1>0 DEF Typed, UserCancels, Go
<1>2. UNCHANGED pendingRPCs /\ \A c \in Calls : stream'[c] = stream[c]
  BY <1>0, <1>1, MarkFlow
<1>3. \A c \in Calls \ {d} : SameFlow(c)
  BY <1>1, <1>2 DEF SameFlow
<1>4. SamePipe(d) /\ InHand(d)' = InHand(d) /\ (Ending(d)' <=> Ending(d))
  BY <1>1, PipeUnchanged, SamePlaces
<1>7. Cancelled(d)' <=> Cancelled(d)
  BY <1>1 DEF Cancelled
<1>8. CallFlow(d)'
  <2> USE <1>0, <1>1, <1>2, <1>4, <1>7
  <2>1. InOrder(d)'
    BY DEF CallFlow, InOrder, SamePipe
  <2>2. Listed(d)'
    BY DEF CallFlow, Listed, SamePipe, CallInv, Stages
  <2>3. Counted(d)'
    BY DEF CallFlow, Counted, SamePipe
  <2>4. Ended(d)'
    BY DEF CallFlow, Ended, CallInv, Stages
  <2>5. Opening(d)'
    BY DEF CallFlow, Opening, CallInv, Stages
  <2> QED  BY <2>1, <2>2, <2>3, <2>4, <2>5 DEF CallFlow
<1> QED  BY <1>1, <1>3, <1>8, OneFlow DEF FlowInv

LEMMA ContextEndsFlows ==
    ASSUME FlowInv, NEW d \in Calls, ContextEnds(d)
    PROVE  \A c \in Calls : CallFlow(c)'
<1> USE DEF tables, settled, streams, userVars, cancelVars, connVars, brokerVars
<1>0. Typed /\ CallInv(d) /\ CallFlow(d)
  BY DEF FlowInv, OutcomeInv
<1>1. /\ ctxDone' = ctxDone \cup {d}
      /\ UNCHANGED <<user, stream, broker, queued, got, emitted, closedBy, pendingRPCs, dueStreams, wire, hand>>
  BY <1>0 DEF Typed, ContextEnds
<1>3. \A c \in Calls \ {d} : SameFlow(c)
  BY <1>1 DEF SameFlow
<1>4. SamePipe(d) /\ InHand(d)' = InHand(d) /\ (Ending(d)' <=> Ending(d))
  BY <1>1, PipeUnchanged, SamePlaces
<1>7. Cancelled(d)'
  BY <1>1 DEF Cancelled
<1>8. CallFlow(d)'
  <2> USE <1>0, <1>1, <1>4, <1>7
  <2>1. InOrder(d)'
    BY DEF CallFlow, InOrder, SamePipe
  <2>2. Listed(d)'
    BY DEF CallFlow, Listed, SamePipe, CallInv, Stages
  <2>3. Counted(d)'
    BY DEF CallFlow, Counted, SamePipe
  <2>4. Ended(d)'
    BY DEF CallFlow, Ended, CallInv, Stages
  <2>5. Opening(d)'
    BY DEF CallFlow, Opening, CallInv, Stages
  <2> QED  BY <2>1, <2>2, <2>3, <2>4, <2>5 DEF CallFlow
<1> QED  BY <1>1, <1>3, <1>8, OneFlow DEF FlowInv

LEMMA FailDueFlows ==
    ASSUME FlowInv, NEW d \in Calls, FailDue(d)
    PROVE  \A c \in Calls : CallFlow(c)'
<1> USE DEF tables, settled, streams, userVars, cancelVars, connVars, brokerVars
<1>0. Typed /\ CallInv(d) /\ CallFlow(d)
  BY DEF FlowInv, OutcomeInv
<1>1. /\ d \in dueStreams /\ dueStreams' = dueStreams \ {d}
      /\ Closed({d}, "error")
      /\ UNCHANGED <<user, broker, queued, got, emitted, ctxDone, closedBy, pendingRPCs, wire, hand>>
  BY <1>0 DEF Typed, FailDue, FailStream
<1>2. /\ \A c \in Calls \ {d} : stream'[c] = stream[c]
      /\ stream'[d] = stream[d] \/ (stream[d] = "open" /\ stream'[d] = "error")
  BY <1>0, <1>1, ClosedMeans
<1>3. \A c \in Calls \ {d} : SameFlow(c)
  BY <1>1, <1>2 DEF SameFlow
<1>4. SamePipe(d) /\ InHand(d)' = InHand(d) /\ (Ending(d)' <=> Ending(d))
  BY <1>1, PipeUnchanged, SamePlaces
<1>7. Cancelled(d)' <=> Cancelled(d)
  BY <1>1 DEF Cancelled
<1>8. CallFlow(d)'
  <2> USE <1>0, <1>1, <1>2, <1>4, <1>7
  <2>1. InOrder(d)'
    BY DEF CallFlow, InOrder, SamePipe
  <2>2. Listed(d)'
    BY DEF CallFlow, Listed, SamePipe, CallInv, Stages
  <2>3. Counted(d)'
    BY DEF CallFlow, Counted, SamePipe
  <2>4. Ended(d)'
    BY DEF CallFlow, Ended, CallInv, Stages
  <2>5. Opening(d)'
    BY DEF CallFlow, Opening, CallInv, Stages
  <2> QED  BY <2>1, <2>2, <2>3, <2>4, <2>5 DEF CallFlow
<1> QED  BY <1>1, <1>3, <1>8, OneFlow DEF FlowInv

LEMMA CancellationFlow ==
    ASSUME FlowInv, NEW d \in Calls, NEW how, NEW fired, FinishCancellation(d, how, fired),
           Cancelled(d), \A c \in Calls : SamePipe(c),
           UNCHANGED <<user, broker, queued, got, emitted, ctxDone, closedBy, dueStreams>>
    PROVE  \A c \in Calls : CallFlow(c)'
<1>0. Typed /\ CallInv(d) /\ CallFlow(d)
  BY DEF FlowInv, OutcomeInv
<1>1. pendingRPCs' = pendingRPCs \ {d} /\ Closed(pendingRPCs \cap {d}, "clean")
  BY DEF FinishCancellation, Forget
<1>2. /\ \A c \in Calls \ {d} : stream'[c] = stream[c]
      /\ stream'[d] = stream[d] \/ (d \in pendingRPCs /\ stream[d] = "open")
  BY <1>0, <1>1, ClosedMeans
<1>3. \A c \in Calls \ {d} : SameFlow(c)
  BY <1>1, <1>2 DEF SameFlow
<1>4. user[d] = "new" => stream'[d] = stream[d]
  BY <1>0, <1>2 DEF CallInv, Stages, Typed
<1>5. Cancelled(d)'
  BY DEF Cancelled
<1>6. CallFlow(d)'
  BY <1>0, <1>1, <1>2, <1>4, <1>5, CancelledFlow
<1> QED  BY <1>3, <1>6, FlowUnaffected DEF FlowInv

LEMMA CancellationStepFlows ==
    ASSUME FlowInv, NEW d \in Calls, CancelUnsupported(d) \/ CancelNotSent(d) \/ TimerFires(d)
    PROVE  \A c \in Calls : CallFlow(c)'
<1> USE DEF userVars, cancelVars, connVars, brokerVars
<1>1. Cancelled(d)
  <2>1. CallInv(d)
    BY DEF FlowInv, OutcomeInv
  <2>2. canceller[d] # "none" \/ d \in ticking
    BY DEF CancelUnsupported, CancelNotSent, TimerFires
  <2> QED  BY <2>1, <2>2 DEF CallInv, Cancelling
<1>2. UNCHANGED <<user, broker, queued, got, emitted, ctxDone, closedBy, dueStreams, wire, hand>>
  BY DEF CancelUnsupported, CancelNotSent, TimerFires
<1>3. \E how, fired : FinishCancellation(d, how, fired)
  BY DEF CancelUnsupported, CancelNotSent, TimerFires
<1>4. \A c \in Calls : SamePipe(c)
  BY <1>2, PipeUnchanged
<1> QED  BY <1>1, <1>2, <1>3, <1>4, CancellationFlow

LEMMA SendCancelFlows ==
    ASSUME FlowInv, NEW d \in Calls, SendCancel(d)
    PROVE  \A c \in Calls : CallFlow(c)'
<1> USE DEF tables, settled, userVars, connVars, brokerVars
<1>0. Typed /\ CallInv(d) /\ CallFlow(d)
  BY DEF FlowInv, OutcomeInv
<1>1. /\ Closed(holds \cap {d}, "clean") /\ canceller[d] = "stored"
      /\ UNCHANGED <<user, broker, queued, got, emitted, ctxDone, closedBy, pendingRPCs, dueStreams,
                     wire, hand>>
  BY DEF SendCancel
<1>2. /\ \A c \in Calls \ {d} : stream'[c] = stream[c]
      /\ stream'[d] = stream[d] \/ stream[d] = "open"
  BY <1>0, <1>1, ClosedMeans
<1>3. user[d] # "new" /\ Cancelled(d)
  BY <1>0, <1>1 DEF CallInv, Stages, Cancelling
<1>4. SamePipe(d) /\ Cancelled(d)'
  BY <1>1, <1>3, PipeUnchanged DEF Cancelled
<1>5. \A c \in Calls \ {d} : SameFlow(c)
  BY <1>1, <1>2 DEF SameFlow
<1>6. CallFlow(d)'
  BY <1>0, <1>1, <1>2, <1>3, <1>4, CancelledFlow
<1> QED  BY <1>1, <1>5, <1>6, OneFlow DEF FlowInv

LEMMA WatcherCancelsFlows ==
    ASSUME FlowInv, NEW d \in Calls, WatcherCancels(d)
    PROVE  \A c \in Calls : CallFlow(c)'
<1> USE DEF userVars, connVars, brokerVars
<1>1. /\ Mark(d) /\ Typed
      /\ UNCHANGED <<user, broker, queued, got, emitted, ctxDone, closedBy, dueStreams, wire, hand>>
  BY DEF WatcherCancels, FlowInv, OutcomeInv
<1>2. \A c \in Calls : SameFlow(c)
  BY <1>1, MarkFlow DEF SameFlow
<1> QED  BY <1>1, <1>2, PipeUnchanged, FlowUnaffected DEF FlowInv

\* Steps of the cancellation, of the monitor and of a reconnect that move no
\* frame and end no stream.
LEMMA QuietFlows ==
    ASSUME FlowInv,
           \/ ClosePendingReturns \/ ReplaceConnection
           \/ \E d \in Calls : StartTimer(d) \/ StoreTimer(d) \/ CompleteDue(d)
    PROVE  \A c \in Calls : CallFlow(c)'
<1> USE DEF tables, settled, streams, userVars, cancelVars, connVars, brokerVars
<1>1. UNCHANGED <<user, stream, broker, queued, got, emitted, ctxDone, closedBy, pendingRPCs,
                  dueStreams, wire, hand>>
  BY DEF ClosePendingReturns, ReplaceConnection, StartTimer, StoreTimer, CompleteDue
<1>2. \A c \in Calls : SameFlow(c)
  BY <1>1 DEF SameFlow
<1> QED  BY <1>1, <1>2, PipeUnchanged, FlowUnaffected DEF FlowInv

LEMMA ClosePendingFlows == ASSUME FlowInv, ClosePendingRPCs PROVE \A c \in Calls : CallFlow(c)'
<1> USE DEF tables, settled, streams, userVars, cancelVars, connVars, brokerVars
<1> SUFFICES ASSUME NEW c \in Calls PROVE CallFlow(c)'
  OBVIOUS
<1>0. CallFlow(c)
  BY DEF FlowInv
<1>1. /\ pendingRPCs' = {} /\ hand = None
      /\ UNCHANGED <<user, stream, broker, queued, got, emitted, ctxDone, closedBy, wire, hand>>
  BY DEF ClosePendingRPCs
<1>2. SamePipe(c) /\ (Ending(c)' <=> Ending(c)) /\ ~Held(c)' /\ (Cancelled(c)' <=> Cancelled(c))
  BY <1>1, PipeUnchanged, SamePlaces DEF Held, Cancelled
<1> QED
  BY <1>0, <1>1, <1>2 DEF CallFlow, InOrder, Listed, Counted, Ended, Opening, SamePipe

-----------------------------------------------------------------------------
(* Frames on the wire                                                      *)

LEMMA FramesAppended ==
    ASSUME Typed, NEW c \in Calls, NEW f \in Frames, wire' = Append(wire, f)
    PROVE  /\ Finale(c)' <=> Finale(c) \/ (f.call = c /\ f.kind \in Final)
           /\ Silent(c) /\ (f.call = c => f.kind = "result") => Silent(c)'
           /\ Ordered(c) /\ (f.call = c /\ f.kind # "result" => ~Finale(c)) => Ordered(c)'
<1>1. /\ Len(wire) \in Nat /\ Len(wire') = Len(wire) + 1 /\ wire'[Len(wire) + 1] = f
      /\ \A i \in 1..Len(wire) : wire'[i] = wire[i]
  BY AppendMeans
<1>2. 1..Len(wire') = (1..Len(wire)) \cup {Len(wire) + 1} /\ Len(wire) + 1 \notin 1..Len(wire)
  BY SMTT(20), Z3T(20), <1>1
<1>3. \A i, j \in 1..Len(wire') : i < j => i \in 1..Len(wire)
  BY SMTT(20), Z3T(20), <1>1
<1>4. Finale(c)' <=> Finale(c) \/ (f.call = c /\ f.kind \in Final)
  BY <1>1, <1>2 DEF Finale
<1>5. Silent(c) /\ (f.call = c => f.kind = "result") => Silent(c)'
  BY <1>1, <1>2 DEF Silent
<1>6. ASSUME Ordered(c), f.call = c /\ f.kind # "result" => ~Finale(c) PROVE Ordered(c)'
  <2> SUFFICES ASSUME NEW i \in 1..Len(wire'), NEW j \in 1..Len(wire'), i < j,
                      wire'[i].call = c, wire'[j].call = c, wire'[i].kind \in Final
               PROVE  wire'[j].kind = "result"
    BY DEF Ordered
  <2>1. i \in 1..Len(wire) /\ wire'[i] = wire[i]
    BY <1>1, <1>3
  <2>2. CASE j \in 1..Len(wire)
    BY <1>1, <1>6, <2>1, <2>2 DEF Ordered
  <2>3. CASE j = Len(wire) + 1
    BY <1>1, <1>6, <2>1, <2>3 DEF Finale
  <2> QED  BY <1>2, <2>2, <2>3
<1> QED  BY <1>4, <1>5, <1>6

LEMMA FramesTaken ==
    ASSUME Typed, NEW c \in Calls, wire # <<>>, wire' = Tail(wire)
    PROVE  /\ Finale(c) <=> Finale(c)' \/ (Head(wire).call = c /\ Head(wire).kind \in Final)
           /\ Silent(c) => Silent(c)'
           /\ Ordered(c) => Ordered(c)'
           /\ Ordered(c) /\ Head(wire).call = c /\ Head(wire).kind \in Final => Silent(c)'
<1>1. /\ \A i \in 1..Len(wire') : i + 1 \in 1..Len(wire) /\ wire'[i] = wire[i + 1] /\ 1 < i + 1
      /\ 1 \in 1..Len(wire) /\ Head(wire) = wire[1]
  BY SMTT(20), Z3T(20) DEF Typed
<1>2. \A i \in 1..Len(wire) : i = 1 \/ \E k \in 1..Len(wire') : wire'[k] = wire[i]
  <2> SUFFICES ASSUME NEW i \in 1..Len(wire), i # 1 PROVE i - 1 \in 1..Len(wire') /\ wire'[i - 1] = wire[i]
    OBVIOUS
  <2> QED  BY SMTT(20), Z3T(20) DEF Typed
<1>3. \A i, j \in 1..Len(wire') : i < j => i + 1 < j + 1
  BY SMTT(20), Z3T(20) DEF Typed
<1>4. Finale(c) <=> Finale(c)' \/ (Head(wire).call = c /\ Head(wire).kind \in Final)
  <2>1. ASSUME NEW i \in 1..Len(wire), wire[i].call = c, wire[i].kind \in Final
        PROVE  Finale(c)' \/ (Head(wire).call = c /\ Head(wire).kind \in Final)
    BY <1>1, <1>2, <2>1 DEF Finale
  <2>2. Finale(c)' => Finale(c)
    BY <1>1 DEF Finale
  <2>3. Head(wire).call = c /\ Head(wire).kind \in Final => Finale(c)
    BY <1>1 DEF Finale
  <2> QED  BY <2>1, <2>2, <2>3 DEF Finale
<1>5. Silent(c) => Silent(c)'
  BY <1>1 DEF Silent
<1>6. Ordered(c) => Ordered(c)'
  <2> SUFFICES ASSUME Ordered(c), NEW i \in 1..Len(wire'), NEW j \in 1..Len(wire'), i < j,
                      wire'[i].call = c, wire'[j].call = c, wire'[i].kind \in Final
               PROVE  wire'[j].kind = "result"
    BY DEF Ordered
  <2>1. /\ i + 1 \in 1..Len(wire) /\ wire'[i] = wire[i + 1]
        /\ j + 1 \in 1..Len(wire) /\ wire'[j] = wire[j + 1] /\ i + 1 < j + 1
    BY <1>1, <1>3
  <2> QED  BY <2>1 DEF Ordered
<1>7. Ordered(c) /\ Head(wire).call = c /\ Head(wire).kind \in Final => Silent(c)'
  BY <1>1 DEF Ordered, Silent
<1> QED  BY <1>4, <1>5, <1>6, <1>7

LEMMA BrokerSendsFlows ==
    ASSUME FlowInv, NEW d \in Calls, NEW kind \in Ends \cup Bodies, BrokerSends(d, kind)
    PROVE  \A c \in Calls : CallFlow(c)'
<1> USE DEF tables, settled, streams, userVars, cancelVars, connVars
<1>0. Typed /\ CallFlow(d)
  BY DEF FlowInv, OutcomeInv
<1> DEFINE f == [call |-> d, kind |-> kind]
<1>1. /\ f \in Frames /\ f.call = d /\ f.kind = kind /\ kind # "result"
      /\ kind \in Final <=> kind # "frame"
  BY DEF Frames, Ends, Bodies, Final
<1>2. /\ broker[d] = "running" /\ broker'[d] = (IF kind = "frame" THEN "running" ELSE "ended")
      /\ emitted'[d] = IF kind \in Bodies THEN emitted[d] + 1 ELSE emitted[d]
      /\ \A c \in Calls \ {d} : broker'[c] = broker[c] /\ emitted'[c] = emitted[c]
      /\ wire' = Append(wire, f)
      /\ UNCHANGED <<user, stream, queued, got, ctxDone, closedBy, pendingRPCs, dueStreams, hand>>
  BY <1>0 DEF BrokerSends, Typed
<1> HIDE DEF f
<1>3. \A c \in Calls : Held(c)' <=> Held(c)
  BY <1>2 DEF Held
<1>4. \A c \in Calls \ {d} : SamePipe(c) /\ SameFlow(c)
  BY <1>0, <1>1, <1>2, <1>3, FramesAppended, DueAppended DEF SamePipe, SameFlow
<1>5. ~Ending(d)
  BY <1>0, <1>2 DEF CallFlow, InOrder
<1>6. /\ Finale(d)' <=> kind # "frame"
      /\ Ordered(d)'
      /\ Due(d)' = IF kind \in Bodies THEN Due(d) + 1 ELSE Due(d)
      /\ Due(d) \in Nat
  BY <1>0, <1>1, <1>2, <1>5, FramesAppended, DueAppended, DueCounts DEF CallFlow, InOrder, Ending
<1>7. InHand(d)' = InHand(d) /\ ~(Held(d)' /\ hand'.kind \in Final) /\ InHand(d) \in Nat
  BY <1>2, <1>3, <1>5 DEF InHand, Ending
<1>8. (Cancelled(d)' <=> Cancelled(d)) /\ (Ending(d)' => broker'[d] = "ended")
  BY <1>2, <1>6, <1>7 DEF Cancelled, Ending
<1>9. ASSUME d \in pendingRPCs, ~Cancelled(d)
      PROVE  (got[d] + queued[d] + InHand(d) + Due(d) = emitted[d])'
  <2>1. got[d] + queued[d] + InHand(d) + Due(d) = emitted[d]
    BY <1>0, <1>2, <1>9 DEF CallFlow, Counted
  <2>2. got[d] \in Nat /\ queued[d] \in Nat /\ InHand(d) \in Nat /\ Due(d) \in Nat
    BY <1>0, <1>6, <1>7, CountsTyped
  <2>3. got'[d] = got[d] /\ queued'[d] = queued[d] /\ InHand(d)' = InHand(d)
    BY <1>2, <1>7
  <2>4. \/ Due(d)' = Due(d) + 1 /\ emitted'[d] = emitted[d] + 1
        \/ Due(d)' = Due(d) /\ emitted'[d] = emitted[d]
    BY <1>2, <1>6
  <2> QED  BY SMTT(20), Z3T(20), <2>1, <2>2, <2>3, <2>4
<1>10. CallFlow(d)'
  <2> USE <1>0, <1>2, <1>3, <1>6, <1>7, <1>8
  <2>1. InOrder(d)'
    BY DEF CallFlow, InOrder
  <2>2. Listed(d)'
    BY DEF CallFlow, Listed
  <2>3. Counted(d)'
    BY <1>9 DEF Counted
  <2>4. Ended(d)'
    BY DEF CallFlow, Ended
  <2>5. Opening(d)'
    BY DEF CallFlow, Opening
  <2> QED  BY <2>1, <2>2, <2>3, <2>4, <2>5 DEF CallFlow
<1> QED  BY <1>4, <1>10, FlowUnaffected DEF FlowInv

LEMMA BrokerAnswersFlows ==
    ASSUME FlowInv, NEW d \in Calls, BrokerAnswers(d)
    PROVE  \A c \in Calls : CallFlow(c)'
<1> USE DEF tables, settled, streams, userVars, cancelVars, connVars
<1>0. Typed /\ CallFlow(d) /\ CallInv(d)
  BY DEF FlowInv, OutcomeInv
<1> DEFINE f == [call |-> d, kind |-> "result"]
<1>1. f \in Frames /\ f.kind = "result" /\ f.kind \notin Final \cup Bodies
  BY DEF Frames, Ends, Bodies, Final
<1>2. /\ d \in cancelSent /\ broker[d] \in {"running", "ended"}
      /\ broker'[d] = IF broker[d] = "running" THEN "cut" ELSE "answered"
      /\ \A c \in Calls \ {d} : broker'[c] = broker[c]
      /\ wire' = Append(wire, f)
      /\ UNCHANGED <<user, stream, queued, got, emitted, ctxDone, closedBy, pendingRPCs, dueStreams, hand>>
  BY <1>0 DEF BrokerAnswers, Typed
<1> HIDE DEF f
<1>3. \A c \in Calls : Held(c)' <=> Held(c)
  BY <1>2 DEF Held
<1>4. \A c \in Calls : SamePipe(c)
  BY <1>0, <1>1, <1>2, <1>3, FramesAppended, DueAppended DEF SamePipe
<1>5. \A c \in Calls \ {d} : SameFlow(c)
  BY <1>2 DEF SameFlow
<1>6. Cancelled(d) /\ Cancelled(d)'
  BY <1>0, <1>2 DEF CallInv, Cancelling, Cancelled
<1>7. SamePipe(d) /\ (Ending(d)' <=> Ending(d))
  BY <1>4, SamePlaces
<1>8. CallFlow(d)'
  <2> USE <1>0, <1>2, <1>6, <1>7
  <2>1. InOrder(d)'
    BY DEF CallFlow, InOrder, SamePipe
  <2>2. Listed(d)'
    BY DEF CallFlow, Listed
  <2>3. Counted(d)'
    BY DEF CallFlow, Counted
  <2>4. Ended(d)'
    BY DEF CallFlow, Ended
  <2>5. Opening(d)'
    BY DEF CallFlow, Opening
  <2> QED  BY <2>1, <2>2, <2>3, <2>4, <2>5 DEF CallFlow
<1> QED  BY <1>4, <1>5, <1>8, FlowUnaffected DEF FlowInv

LEMMA HandleResultFlows == ASSUME FlowInv, HandleResult PROVE \A c \in Calls : CallFlow(c)'
<1> USE DEF userVars, cancelVars, connVars
<1>a. PICK d \in Calls : d = Head(wire).call
  BY HeadTyped DEF FlowInv, OutcomeInv, HandleResult, Frames
<1>0. Typed /\ CallInv(d)
  BY DEF FlowInv, OutcomeInv
<1>1. /\ FinishCancellation(d, "answered", {})
      /\ wire # <<>> /\ wire' = Tail(wire) /\ Head(wire).kind = "result"
      /\ UNCHANGED <<user, broker, queued, got, emitted, ctxDone, closedBy, dueStreams, hand>>
  BY <1>a DEF HandleResult
<1>2. Cancelled(d)
  BY <1>a, <1>0, <1>1, Taken DEF CallInv, Traffic, Cancelling
<1>3. Head(wire).kind \notin Final \cup Bodies
  BY <1>1 DEF Final, Ends, Bodies
<1>4. \A c \in Calls : SamePipe(c)
  BY <1>0, <1>1, <1>3, FramesTaken, DueTaken DEF SamePipe, Held
<1> QED  BY <1>1, <1>2, <1>4, CancellationFlow

LEMMA LookUpFlows == ASSUME FlowInv, LookUp PROVE \A c \in Calls : CallFlow(c)'
<1> USE DEF tables, settled, streams, userVars, cancelVars, connVars
<1>a. PICK d \in Calls : d = Head(wire).call
  BY HeadTyped DEF FlowInv, OutcomeInv, LookUp, Frames
<1>0. Typed /\ CallFlow(d) /\ Head(wire) \in Frames
  BY HeadTyped DEF FlowInv, OutcomeInv, LookUp
<1>1. /\ hand = None /\ wire # <<>> /\ wire' = Tail(wire) /\ Head(wire).kind # "result"
      /\ hand' = IF d \in pendingRPCs THEN Head(wire) ELSE None
      /\ UNCHANGED <<user, stream, broker, queued, got, emitted, ctxDone, closedBy, pendingRPCs,
                     dueStreams>>
  BY <1>a DEF LookUp
<1>2. \A c \in Calls \ {d} : ~Held(c) /\ ~Held(c)'
  BY <1>a, <1>1 DEF Held
<1>3. \A c \in Calls \ {d} : SamePipe(c) /\ SameFlow(c)
  BY <1>a, <1>0, <1>1, <1>2, FramesTaken, DueTaken DEF SamePipe, SameFlow
<1>4. /\ Finale(d) <=> Finale(d)' \/ Head(wire).kind \in Final
      /\ Ordered(d)' /\ (Head(wire).kind \in Final => Silent(d)')
      /\ Due(d)' = IF Head(wire).kind \in Bodies THEN Due(d) - 1 ELSE Due(d)
      /\ Due(d) \in Nat
  BY <1>a, <1>0, <1>1, FramesTaken, DueTaken, DueCounts DEF CallFlow, InOrder
<1>5. ~Held(d) /\ InHand(d) = 0 /\ (Ending(d) <=> Finale(d)) /\ (Cancelled(d)' <=> Cancelled(d))
  BY <1>1 DEF Held, InHand, Ending, Cancelled
<1>6. CASE d \in pendingRPCs
  <2>1. /\ Held(d)' /\ hand' = Head(wire)
        /\ InHand(d)' = IF Head(wire).kind \in Bodies THEN 1 ELSE 0
        /\ Ending(d)' <=> Ending(d)
    BY RpcCallsAssumption, <1>a, <1>0, <1>1, <1>4, <1>5, <1>6 DEF Held, InHand, Ending
  <2>2. got[d] + queued[d] + InHand(d)' + Due(d)' = got[d] + queued[d] + InHand(d) + Due(d)
    <3>1. got[d] \in Nat /\ queued[d] \in Nat /\ Due(d) \in Nat /\ InHand(d) = 0
      BY <1>0, <1>4, <1>5, CountsTyped
    <3>2. \/ InHand(d)' = 1 /\ Due(d)' = Due(d) - 1
          \/ InHand(d)' = 0 /\ Due(d)' = Due(d)
      BY <1>4, <2>1
    <3> QED  BY SMTT(20), Z3T(20), <3>1, <3>2
  <2>3. CallFlow(d)'
    <3> USE <1>0, <1>1, <1>4, <1>5, <1>6, <2>1
    <3>1. InOrder(d)'
      BY DEF CallFlow, InOrder
    <3>2. Listed(d)'
      BY DEF CallFlow, Listed
    <3>3. Counted(d)'
      BY <2>2 DEF CallFlow, Counted
    <3>4. Ended(d)'
      BY DEF CallFlow, Ended
    <3>5. Opening(d)'
      BY DEF CallFlow, Opening
    <3> QED  BY <3>1, <3>2, <3>3, <3>4, <3>5 DEF CallFlow
  <2> QED  BY <1>3, <2>3, FlowUnaffected DEF FlowInv
<1>7. CASE d \notin pendingRPCs
  <2>1. ~Held(d)' /\ (Ending(d)' => Ending(d))
    BY <1>1, <1>4, <1>5, <1>7 DEF Held, Ending
  <2>2. CallFlow(d)'
    <3> USE <1>0, <1>1, <1>4, <1>5, <1>7, <2>1
    <3>1. InOrder(d)'
      BY DEF CallFlow, InOrder
    <3>2. Listed(d)'
      BY DEF CallFlow, Listed
    <3>3. Counted(d)'
      BY DEF CallFlow, Counted
    <3>4. Ended(d)'
      BY DEF CallFlow, Ended
    <3>5. Opening(d)'
      BY DEF CallFlow, Opening
    <3> QED  BY <3>1, <3>2, <3>3, <3>4, <3>5 DEF CallFlow
  <2> QED  BY <1>3, <2>2, FlowUnaffected DEF FlowInv
<1> QED  BY <1>6, <1>7

LEMMA EnqueueFrameFlows == ASSUME FlowInv, EnqueueFrame PROVE \A c \in Calls : CallFlow(c)'
<1> USE DEF tables, settled, streams, userVars, cancelVars, connVars
<1>a. PICK d \in Calls : d = hand.call
  BY DEF FlowInv, OutcomeInv, Typed, EnqueueFrame, Frames
<1>0. Typed /\ CallFlow(d) /\ CallInv(d) /\ Held(d)
  BY <1>a DEF FlowInv, OutcomeInv, EnqueueFrame, Held
<1>1. /\ hand.kind \in Bodies
      /\ hand' = IF hand.kind = "last" THEN [hand EXCEPT !.kind = "end"] ELSE None
      /\ queued'[d] = IF stream[d] = "open" THEN queued[d] + 1 ELSE queued[d]
      /\ \A c \in Calls \ {d} : queued'[c] = queued[c]
      /\ UNCHANGED <<user, stream, broker, got, emitted, ctxDone, closedBy, pendingRPCs, dueStreams,
                     wire>>
  BY <1>a, <1>0 DEF EnqueueFrame, Typed
<1>2. /\ hand.kind = "last" => hand' \in Frames /\ hand'.call = d /\ hand'.kind = "end"
      /\ hand.kind # "last" => hand' = None /\ hand.kind \notin Final
  <2>1. hand \in Frames /\ "end" \in Ends
    BY <1>0 DEF Typed, Held, Ends
  <2>2. hand.kind = "last" => hand' \in Frames /\ hand'.call = d /\ hand'.kind = "end"
    BY SMTT(20), Z3T(20), <1>a, <1>1, <2>1 DEF Frames
  <2>3. hand.kind # "last" => hand' = None /\ hand.kind \notin Final
    BY <1>1 DEF Final, Ends, Bodies
  <2> QED  BY <2>2, <2>3
<1>3. \A c \in Calls \ {d} : ~Held(c) /\ ~Held(c)'
  BY <1>a, <1>2 DEF Held
<1>4. \A c \in Calls : /\ Finale(c)' <=> Finale(c)
                       /\ Silent(c)' <=> Silent(c)
                       /\ Ordered(c)' <=> Ordered(c)
                       /\ Due(c)' = Due(c)
  BY <1>1 DEF Finale, Silent, Ordered, Due, Carriers
<1>5. \A c \in Calls \ {d} : SamePipe(c) /\ SameFlow(c)
  BY <1>1, <1>3, <1>4 DEF SamePipe, SameFlow
<1>6. /\ InHand(d) = 1 /\ InHand(d)' = 0
      /\ Ending(d)' <=> Ending(d)
      /\ Held(d)' => hand.kind = "last" /\ hand'.kind = "end"
      /\ Cancelled(d)' <=> Cancelled(d)
      /\ Due(d) \in Nat
  <2>1. "end" \in Final /\ "last" \in Final /\ "end" \notin Bodies
    BY DEF Final, Ends, Bodies
  <2>2. Held(d)' => hand.kind = "last" /\ hand'.kind = "end"
    BY <1>2 DEF Held
  <2>3. hand.kind = "last" => Held(d)'
    BY RpcCallsAssumption, <1>2 DEF Held
  <2>4. InHand(d) = 1 /\ InHand(d)' = 0
    BY <1>0, <1>1, <2>1, <2>2 DEF InHand
  <2>5. Ending(d)' <=> Ending(d)
    BY <1>0, <1>2, <1>4, <2>1, <2>2, <2>3 DEF Ending
  <2>6. (Cancelled(d)' <=> Cancelled(d)) /\ Due(d) \in Nat
    BY <1>0, <1>1, DueCounts DEF Cancelled
  <2> QED  BY <2>2, <2>4, <2>5, <2>6
<1>7. ASSUME d \in pendingRPCs, ~Cancelled(d), broker[d] = "running" \/ Ending(d)
      PROVE  (got[d] + queued[d] + InHand(d) + Due(d) = emitted[d])'
  <2>1. got[d] + queued[d] + InHand(d) + Due(d) = emitted[d] /\ queued'[d] = queued[d] + 1
    BY <1>0, <1>1, <1>7 DEF CallFlow, Counted, Listed
  <2>2. got[d] \in Nat /\ queued[d] \in Nat /\ Due(d) \in Nat
    BY <1>0, <1>6, CountsTyped
  <2>3. /\ got'[d] = got[d] /\ emitted'[d] = emitted[d] /\ Due(d)' = Due(d)
        /\ InHand(d) = 1 /\ InHand(d)' = 0
    BY <1>1, <1>4, <1>6
  <2> QED  BY SMTT(20), Z3T(20), <2>1, <2>2, <2>3
<1>8. CallFlow(d)'
  <2> USE <1>0, <1>1, <1>4, <1>6
  <2>1. InOrder(d)'
    BY DEF CallFlow, InOrder, Final
  <2>2. Listed(d)'
    BY DEF CallFlow, Listed
  <2>3. Counted(d)'
    BY <1>7 DEF Counted
  <2>4. Ended(d)'
    BY <1>0, <1>1, <1>6 DEF CallFlow, Ended, Listed
  <2>5. Opening(d)'
    BY DEF CallFlow, Opening, CallInv, Traffic
  <2> QED  BY <2>1, <2>2, <2>3, <2>4, <2>5 DEF CallFlow
<1> QED  BY <1>5, <1>8, FlowUnaffected DEF FlowInv

LEMMA EndCallFlows == ASSUME FlowInv, EndCall PROVE \A c \in Calls : CallFlow(c)'
<1> USE DEF tables, settled, streams, userVars, cancelVars, connVars
<1>a. PICK d \in Calls : d = hand.call
  BY DEF FlowInv, OutcomeInv, Typed, EndCall, Frames
<1>0. Typed /\ CallFlow(d) /\ CallInv(d) /\ Held(d) /\ hand.kind \in Final \ Bodies
  BY <1>a DEF FlowInv, OutcomeInv, EndCall, Held, Final, Ends, Bodies
<1>1. /\ FinishCall(d, "not_requested") /\ hand' = None
      /\ \E how \in {"clean", "error"} : Closed({d}, how)
      /\ UNCHANGED <<user, broker, queued, got, emitted, ctxDone, closedBy, dueStreams, wire>>
  BY <1>a DEF EndCall
<1>2. pendingRPCs' = pendingRPCs \ {d}
  BY <1>1 DEF FinishCall, Forget
<1>3. /\ \A c \in Calls \ {d} : stream'[c] = stream[c]
      /\ stream'[d] = stream[d] \/ (stream[d] = "open" /\ stream'[d] # "open")
  <2>1. PICK how \in {"clean", "error"} : Closed({d}, how)
    BY <1>1
  <2> QED  BY <1>0, <2>1, ClosedMeans
<1>4. \A c \in Calls : ~Held(c)'
  BY <1>1 DEF Held
<1>5. \A c \in Calls : /\ Finale(c)' <=> Finale(c)
                       /\ Silent(c)' <=> Silent(c)
                       /\ Ordered(c)' <=> Ordered(c)
                       /\ Due(c)' = Due(c)
  BY <1>1 DEF Finale, Silent, Ordered, Due, Carriers
<1>6. \A c \in Calls \ {d} : SamePipe(c) /\ SameFlow(c)
  BY <1>a, <1>1, <1>2, <1>3, <1>4, <1>5 DEF SamePipe, SameFlow, Held
<1>7. InHand(d) = 0 /\ Ending(d) /\ (Ending(d)' => Ending(d)) /\ (Cancelled(d)' <=> Cancelled(d))
  BY <1>0, <1>1 DEF InHand, Ending, Cancelled
<1>8. Due(d) = 0
  BY <1>0, DueCounts DEF CallFlow, InOrder
<1>9. ~Cancelled(d) => broker[d] \in {"ended", "answered"} /\ got[d] + queued[d] = emitted[d]
  <2>1. ~Cancelled(d) => /\ broker[d] \in {"ended", "answered"}
                         /\ got[d] + queued[d] + InHand(d) + Due(d) = emitted[d]
    BY <1>0, <1>7 DEF CallFlow, InOrder, Listed, Counted
  <2>2. got[d] \in Nat /\ queued[d] \in Nat /\ InHand(d) = 0 /\ Due(d) = 0
    BY <1>0, <1>7, <1>8, CountsTyped
  <2>3. got[d] + queued[d] + InHand(d) + Due(d) = got[d] + queued[d]
    BY SMTT(20), Z3T(20), <2>2
  <2> QED  BY <2>1, <2>3
<1>10. CallFlow(d)'
  <2> USE <1>0, <1>1, <1>2, <1>3, <1>4, <1>5, <1>7
  <2>1. InOrder(d)'
    BY DEF CallFlow, InOrder
  <2>2. Listed(d)'
    BY DEF CallFlow, Listed
  <2>3. Counted(d)'
    BY DEF CallFlow, Counted
  <2>4. Ended(d)'
    BY <1>9 DEF CallFlow, Ended
  <2>5. Opening(d)'
    BY DEF CallFlow, Opening, CallInv, Traffic, Stages
  <2> QED  BY <2>1, <2>2, <2>3, <2>4, <2>5 DEF CallFlow
<1> QED  BY <1>6, <1>10, FlowUnaffected DEF FlowInv

LEMMA BreakFlows == ASSUME FlowInv, Break PROVE \A c \in Calls : CallFlow(c)'
<1> USE DEF tables, settled, streams, userVars, cancelVars, connVars
<1> SUFFICES ASSUME NEW c \in Calls PROVE CallFlow(c)'
  OBVIOUS
<1>0. Typed /\ CallFlow(c)
  BY DEF FlowInv, OutcomeInv
<1>1. /\ wire' = <<>> /\ broker'[c] = (IF broker[c] = "running" THEN "cut" ELSE broker[c])
      /\ UNCHANGED <<user, stream, queued, got, emitted, ctxDone, closedBy, pendingRPCs, dueStreams,
                     hand>>
  BY DEF Break
<1>2. ~Finale(c)' /\ Silent(c)' /\ Ordered(c)' /\ Due(c)' = 0
  <2>1. 1..Len(wire') = {}
    BY SMTT(20), Z3T(20), <1>1
  <2>2. Carriers(c)' = {}
    BY <2>1 DEF Carriers
  <2> QED  BY <2>1, <2>2, FS_EmptySet DEF Finale, Silent, Ordered, Due
<1>3. /\ Held(c)' <=> Held(c)
      /\ InHand(c)' = InHand(c)
      /\ Ending(c)' <=> Held(c) /\ hand.kind \in Final
      /\ Cancelled(c)' <=> Cancelled(c)
  BY <1>1, <1>2 DEF Held, InHand, Ending, Cancelled
<1>4. Ending(c)' => Ending(c) /\ Due(c) = 0
  BY <1>0, <1>3, DueCounts DEF CallFlow, InOrder, Ending
<1>5. CallFlow(c)'
  <2> USE <1>0, <1>1, <1>2, <1>3, <1>4
  <2>1. InOrder(c)'
    BY DEF CallFlow, InOrder
  <2>2. Listed(c)'
    BY DEF CallFlow, Listed
  <2>3. Counted(c)'
    BY DEF CallFlow, Counted
  <2>4. Ended(c)'
    BY DEF CallFlow, Ended
  <2>5. Opening(c)'
    BY DEF CallFlow, Opening
  <2> QED  BY <2>1, <2>2, <2>3, <2>4, <2>5 DEF CallFlow
<1> QED  BY <1>5

-----------------------------------------------------------------------------

LEMMA FlowInvKept == ASSUME FlowInv, Next PROVE FlowInv'
<1>1. OutcomeInv'
  BY OutcomeInvKept DEF FlowInv
<1>2. \A c \in Calls : CallFlow(c)'
  BY UserStepFlows, RegisterFlows, SendSucceedsFlows, SendFailsFlows, NextReturnsFlows,
     NextEndsFlows, CloseIteratorFlows,
     UserCancelsFlows, ContextEndsFlows, FailDueFlows, CancellationStepFlows, SendCancelFlows,
     WatcherCancelsFlows, QuietFlows, ClosePendingFlows, BrokerSendsFlows, BrokerAnswersFlows,
     HandleResultFlows, LookUpFlows, EnqueueFrameFlows, EndCallFlows, BreakFlows
  DEF Next, UserCalls, InCall, CancelStep, LoopStep, MonitorStep
<1> QED  BY <1>1, <1>2 DEF FlowInv

LEMMA FlowInitial == Init => FlowInv
<1> SUFFICES ASSUME Init PROVE FlowInv
  OBVIOUS
<1>1. OutcomeInv
  BY OutcomeInitial
<1>2. ASSUME NEW c \in Calls PROVE CallFlow(c)
  <2>1. 1..Len(wire) = {}
    BY SMTT(20), Z3T(20) DEF Init
  <2>2. ~Finale(c) /\ Ordered(c) /\ ~Held(c) /\ ~Ending(c)
    BY <2>1 DEF Init, Finale, Ordered, Held, Ending
  <2> QED
    BY <2>2 DEF Init, CallFlow, InOrder, Listed, Counted, Ended, Opening
<1> QED  BY <1>1, <1>2 DEF FlowInv

\* FlowInv, which follows every response frame of a call from the broker to
\* Next, holds of every behaviour of the calling side of the RPC domain.
THEOREM FlowInvariance == Spec => []FlowInv
<1>1. FlowInv /\ [Next]_vars => FlowInv'
  <2> SUFFICES ASSUME FlowInv, [Next]_vars PROVE FlowInv'
    OBVIOUS
  <2>1. CASE UNCHANGED vars
    <3> USE DEF vars, tables, settled, streams, userVars, cancelVars, connVars, brokerVars
    <3>1. \A c \in Calls : SameFlow(c) /\ SamePipe(c)
      BY <2>1, PipeUnchanged DEF SameFlow
    <3>2. \A c \in Calls : CallFlow(c)'
      BY <3>1, FlowUnaffected DEF FlowInv
    <3>3. OutcomeInv'
      BY <2>1, OutcomeStutters DEF FlowInv
    <3> QED  BY <3>2, <3>3 DEF FlowInv
  <2> QED  BY <2>1, FlowInvKept
<1> QED  BY <1>1, FlowInitial, PTL DEF Spec

\* An iteration that ends without an error, and whose context has not ended,
\* has returned every frame the broker sent, and the broker had ended the
\* call: Next never takes a lost connection, a failure or a malformed frame
\* for the end of the responses.
THEOREM CleanEndsAreComplete == Spec => []CleanEndIsComplete
<1>1. FlowInv => CleanEndIsComplete
  <2> SUFFICES ASSUME FlowInv, NEW c \in Calls, user[c] = "ended", c \notin ctxDone
               PROVE  broker[c] \in {"ended", "answered"} /\ got[c] = emitted[c]
    BY DEF CleanEndIsComplete
  <2>1. Typed /\ CallInv(c) /\ CallFlow(c)
    BY DEF FlowInv, OutcomeInv
  <2>2. ~Cancelled(c)
    BY <2>1 DEF CallInv, Stages, Cancelled
  <2> QED  BY SMTT(20), Z3T(20), <2>1, <2>2 DEF CallFlow, Ended, Typed
<1> QED  BY <1>1, FlowInvariance, PTL
=============================================================================
