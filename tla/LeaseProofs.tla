----------------------------- MODULE LeaseProofs -----------------------------
(***************************************************************************)
(* The lease domain: the tokens of lease handles are those of their own    *)
(* Acquire, for any number of callers, routes, owners, connections and     *)
(* tokens.                                                                 *)
(***************************************************************************)
EXTENDS Leases, TLAPS

USE ZenonT(60)

-----------------------------------------------------------------------------
(* Acquire and the handle                                                  *)

Handling == {"supervise", "raw", "extending", "releasing", "done", "lost", "failed"}

\* The broker issued the token for the route and the owner of this Acquire.
Mine(c, t) == <<Route(c), Owner(c), t>> \in issued

LeaseTyped ==
    /\ call \in [Callers -> Calls]
    /\ pc \in [Callers -> {"gate"} \cup InAcquire \cup Handling]
    /\ cb \in [Callers -> {"none", "running", "returned"}]
    /\ \A f \in {callConn, resp, box, token, authority} : f = [c \in Callers |-> f[c]]
    /\ \A f \in {holder, bqueue} : f = [r \in Routes |-> f[r]]

\* acquireGate lets one Acquire in, and no other has a waiter.
Inside ==
    /\ gate \in Callers \cup {None}
    /\ \A c \in Callers : pc[c] \in InAcquire <=> gate = c
    /\ acquireWaiters = << >> \/ (gate # None /\ acquireWaiters = <<gate>>)

\* The broker has at most one thing to do, and it is for the Acquire inside:
\* to answer it, to grant it the lease, or to deliver the grant.
Asked ==
    \A c \in requests : c \in Callers /\ gate = c /\ pc[c] = "sent" /\ resp[c] = NoAnswer

Queued ==
    \A r \in Routes : bqueue[r] # << >> =>
        /\ gate # None /\ Route(gate) = r /\ pushes = << >>
        /\ bqueue[r] = <<[caller |-> gate, owner |-> Owner(gate)]>>

Pushed ==
    pushes # << >> =>
        /\ gate # None
        /\ pushes = <<Head(pushes)>>
        /\ Head(pushes).kind = "acquired" => Mine(gate, Head(pushes).token)

Outstanding == pushes # << >> \/ \E r \in Routes : bqueue[r] # << >>

Awaited ==
    Outstanding => /\ pc[gate] \in {"sent", "queued"}
                   /\ resp[gate].kind = "queued"
                   /\ box[gate] = NoAnswer

\* It is of the session that lasts.
Fresh == requests # {} \/ Outstanding => Live(callConn[gate])

\* The response and the deferred response of each Acquire.
Answers(c) ==
    /\ resp[c].kind \in {"acquired", "already"} => Mine(c, resp[c].token)
    /\ box[c].kind = "acquired" => Mine(c, box[c].token)
    /\ pc[c] = "queued" => resp[c].kind = "queued"
    /\ pc[c] \notin {"sent", "queued", "granted"} => resp[c] = NoAnswer /\ box[c] = NoAnswer
    /\ box[c] # NoAnswer => resp[c].kind = "queued"

HeldIsIssued ==
    \A r \in Routes : holder[r].owner \notin {None, Other} =>
        <<r, holder[r].owner, holder[r].token>> \in issued

\* The inductive invariant.
Orderly == Asked /\ Queued /\ Pushed /\ Awaited /\ Fresh /\ HeldIsIssued
              /\ \A c \in Callers : Answers(c) /\ OwnToken(c)

LeaseInv == LeaseTyped /\ Inside /\ (gaveUp = {} => Orderly)

-----------------------------------------------------------------------------
(* Sequences of one element                                                *)

LEMMA RemoveOnly == ASSUME NEW c PROVE RemoveFirst(<<c>>, c) = << >>
<1>1. {i \in 1..Len(<<c>>) : <<c>>[i] = c} = {1}
  BY SMT
<1>2. (CHOOSE x \in {1} : \A y \in {1} : x <= y) = 1
  BY SMT
<1>3. RemoveAt(<<c>>, 1) = << >>
  BY SMT DEF RemoveAt
<1>4. \E i \in 1..Len(<<c>>) : <<c>>[i] = c
  BY SMT
<1> QED  BY <1>1, <1>2, <1>3, <1>4, SMT DEF RemoveFirst, SelectInSeq, Min

LEMMA RemoveNone == ASSUME NEW c PROVE RemoveFirst(<< >>, c) = << >>
<1>1. ~ \E i \in 1..Len(<< >>) : << >>[i] = c
  BY SMT
<1> QED  BY <1>1, SMT DEF RemoveFirst, SelectInSeq

LEMMA OneElement ==
    ASSUME NEW x
    PROVE  /\ Append(<< >>, x) = <<x>> /\ Tail(<<x>>) = << >>
           /\ Head(<<x>>) = x /\ <<x>> # << >>
BY SMT

LEMMA FreeIsNobodys == Free.owner = None
BY SMT DEF Free

LEMMA OneEqual == ASSUME NEW x, NEW y, <<x>> = <<y>> PROVE x = y
BY SMT

-----------------------------------------------------------------------------
(* Init and the steps that leave the acquisition alone                     *)

LEMMA LeaseInitial == Init => LeaseInv
<1> SUFFICES ASSUME Init PROVE LeaseInv
  OBVIOUS
<1>1. LeaseTyped
  BY DEF Init, LeaseTyped, InAcquire
<1>2. Inside
  BY LeasesAssumption DEF Init, Inside, InAcquire
<1>3. \A r \in Routes : bqueue[r] = << >> /\ holder[r].owner = None
  BY FreeIsNobodys DEF Init
<1>4. \A c \in Callers : Answers(c) /\ OwnToken(c)
  BY DEF Init, Answers, OwnToken, NoAnswer
<1> QED
  BY <1>1, <1>2, <1>3, <1>4
  DEF Init, LeaseInv, Orderly, Asked, Queued, Pushed, Awaited, Fresh, Outstanding, HeldIsIssued

acquisition == <<gate, acquireWaiters, call, callConn, resp, box, requests, bqueue, pushes, gaveUp>>

\* A step of a handle, its supervisor or its callback: the caller is not in
\* Acquire before or after it.
LEMMA OutsideKeeps ==
    ASSUME LeaseInv, UNCHANGED acquisition, LeaseTyped',
           issued \subseteq issued',
           gaveUp = {} => Fresh' /\ HeldIsIssued' /\ \A c \in Callers : OwnToken(c)',
           \A c \in Callers : pc'[c] = pc[c] \/ {pc[c], pc'[c]} \subseteq Handling
    PROVE  LeaseInv'
<1>1. \A c \in Callers : pc[c] \in Handling => pc[c] \notin InAcquire
  BY DEF Handling, InAcquire
<1>2. \A c \in Callers : pc'[c] \in Handling => pc'[c] \notin InAcquire
  BY DEF Handling, InAcquire
<1>3. Inside'
  BY <1>1, <1>2 DEF LeaseInv, Inside, acquisition
<1>4. ASSUME gaveUp = {} PROVE Orderly'
  <2> USE <1>4 DEF LeaseInv, Orderly, acquisition
  <2>1. \A c \in Callers :
           {pc[c], pc'[c]} \cap {"sent", "queued", "granted"} # {} => pc'[c] = pc[c]
    BY DEF Handling
  <2>2. Asked'
    BY <2>1 DEF Asked, Inside
  <2>3. Queued'
    BY DEF Queued, Route, Owner
  <2>4. Pushed'
    BY DEF Pushed, Mine, Route, Owner
  <2>5. Awaited'
    BY <2>1 DEF Awaited, Outstanding, Queued, Pushed, Inside
  <2>6. \A c \in Callers : Answers(c)'
    BY <2>1 DEF Answers, Mine, Route, Owner
  <2> QED  BY <2>2, <2>3, <2>4, <2>5, <2>6
<1> QED  BY <1>3, <1>4 DEF LeaseInv, acquisition

LEMMA Goes ==
    ASSUME LeaseTyped, NEW c \in Callers,
           NEW where \in {"gate"} \cup InAcquire \cup Handling, Go(c, where)
    PROVE  /\ pc' \in [Callers -> {"gate"} \cup InAcquire \cup Handling]
           /\ pc'[c] = where
           /\ \A d \in Callers : d # c => pc'[d] = pc[d]
BY DEF LeaseTyped, Go

\* The steps of one handle, its supervisor and its callback.
LEMMA HandleSteps ==
    ASSUME LeaseInv, NEW c \in Callers,
           \/ Extend(c) \/ ExtendBroken(c) \/ ParentDone(c) \/ Release(c)
           \/ ReleaseAnswered(c) \/ ReleaseBroken(c) \/ CallbackReturns(c)
           \/ ReadToken(c) \/ ContextEnds(c)
    PROVE  LeaseInv'
<1>0. LeaseTyped
  BY DEF LeaseInv
<1>1. UNCHANGED <<acquisition, conn, live, token, authority, issued>>
  BY DEF connVars, Extend, ExtendBroken, ParentDone, Release, ReleaseAnswered, ReleaseBroken, CallbackReturns,
      ReadToken, ContextEnds, Unchanged, acquireVars, brokerVars, handleVars, cbVars, acquisition
<1>2. \/ UNCHANGED pc
      \/ /\ pc[c] \in Handling
         /\ \E where \in Handling : /\ Go(c, where)
                                    /\ where \in {"raw", "supervise", "extending"} =>
                                          pc[c] \in {"raw", "supervise", "extending"}
  BY DEF Extend, ExtendFails, ExtendBroken, ParentDone, Release, ReleaseAnswered, ReleaseBroken,
      CallbackReturns, ReadToken, ContextEnds, Handling
<1>3. \/ UNCHANGED cb
      \/ cb[c] = "running" /\ cb' = [cb EXCEPT ![c] = "returned"]
  BY DEF Extend, ExtendBroken, ParentDone, Release, ReleaseAnswered, ReleaseBroken, CallbackReturns,
      ReadToken, ContextEnds, cbVars
<1>4. UNCHANGED holder \/ holder' = [holder EXCEPT ![Route(c)] = Free]
  BY DEF Extend, ExtendBroken, ParentDone, Release, ReleaseAnswered, ReleaseBroken, CallbackReturns,
      ReadToken, ContextEnds, brokerVars
<1>5. /\ pc' \in [Callers -> {"gate"} \cup InAcquire \cup Handling]
      /\ \A d \in Callers : \/ pc'[d] = pc[d]
                            \/ /\ {pc[d], pc'[d]} \subseteq Handling
                               /\ pc'[d] \in {"raw", "supervise", "extending"} =>
                                     pc[d] \in {"raw", "supervise", "extending"}
  <2>1. CASE UNCHANGED pc
    BY <1>0, <2>1 DEF LeaseTyped
  <2>2. CASE ~UNCHANGED pc
    <3>1. PICK where \in Handling : /\ Go(c, where)
                                    /\ where \in {"raw", "supervise", "extending"} =>
                                          pc[c] \in {"raw", "supervise", "extending"}
      BY <1>2, <2>2
    <3>2. where \in {"gate"} \cup InAcquire \cup Handling
      OBVIOUS
    <3>3. /\ pc' \in [Callers -> {"gate"} \cup InAcquire \cup Handling]
          /\ pc'[c] = where /\ \A d \in Callers : d # c => pc'[d] = pc[d]
      BY <1>0, <3>1, <3>2 DEF LeaseTyped, Go
    <3>4. pc[c] \in Handling
      BY <1>2, <2>2
    <3>5. ASSUME NEW d \in Callers
          PROVE  \/ pc'[d] = pc[d]
                 \/ /\ {pc[d], pc'[d]} \subseteq Handling
                    /\ pc'[d] \in {"raw", "supervise", "extending"} =>
                          pc[d] \in {"raw", "supervise", "extending"}
      BY <3>1, <3>3, <3>4
    <3> QED  BY <3>3, <3>5
  <2> QED  BY <2>1, <2>2
<1>6. cb' \in [Callers -> {"none", "running", "returned"}]
  BY <1>0, <1>3, SMTT(20), Z3T(20) DEF LeaseTyped
<1>7. holder' = [r \in Routes |-> holder'[r]] /\ \A r \in Routes : holder'[r] \in {holder[r], Free}
  <2>1. holder = [r \in Routes |-> holder[r]]
    BY <1>0 DEF LeaseTyped
  <2> QED  BY <1>4, <2>1
<1>8. \A d \in Callers : cb'[d] # "none" => cb[d] # "none"
  BY <1>0, <1>3, SMTT(20), Z3T(20) DEF LeaseTyped
<1>9. LeaseTyped'
  BY <1>0, <1>1, <1>5, <1>6, <1>7 DEF LeaseTyped, acquisition
<1>10. ASSUME gaveUp = {} PROVE Fresh' /\ HeldIsIssued' /\ \A d \in Callers : OwnToken(d)'
  <2>1. Orderly
    BY <1>10 DEF LeaseInv
  <2>4. Fresh'
    BY <1>1, <2>1 DEF Orderly, Fresh, Outstanding, Live, acquisition
  <2>2. HeldIsIssued'
    BY <1>1, <1>7, <2>1, FreeIsNobodys DEF Orderly, HeldIsIssued
  <2>3. ASSUME NEW d \in Callers PROVE OwnToken(d)'
    BY <1>1, <1>5, <1>8, <2>1, <2>3 DEF Orderly, OwnToken, Mine, Route, Owner, acquisition, Handling
  <2> QED  BY <2>2, <2>3, <2>4
<1> QED  BY <1>1, <1>5, <1>9, <1>10, OutsideKeeps

LEMMA ExtendAnsweredKeeps ==
    ASSUME LeaseInv, NEW c \in Callers, ExtendAnswered(c)
    PROVE  LeaseInv'
<1>0. LeaseTyped
  BY DEF LeaseInv
<1>1. UNCHANGED <<acquisition, conn, live, cb, authority>> /\ pc[c] = "extending"
  BY DEF ExtendAnswered, Unchanged, connVars, acquireVars, acquisition
<1>4. gaveUp = {} => Fresh'
  BY <1>1 DEF LeaseInv, Orderly, Fresh, Outstanding, Live, acquisition
<1>2. CASE HeldWith(c, arg[c])
  <2>1. PICK t : /\ token' = [token EXCEPT ![c] = t]
                 /\ holder' = [holder EXCEPT ![Route(c)].token = t]
                 /\ issued' = issued \cup {<<Route(c), Owner(c), t>>}
                 /\ Go(c, IF call[c].managed THEN "supervise" ELSE "raw")
    BY <1>2 DEF ExtendAnswered
  <2>2. token = [d \in Callers |-> token[d]] /\ holder = [r \in Routes |-> holder[r]]
    BY <1>0 DEF LeaseTyped
  <2>3. /\ token' = [d \in Callers |-> token'[d]]
        /\ token'[c] = t /\ \A d \in Callers : d # c => token'[d] = token[d]
    BY <2>1, <2>2
  <2>4. /\ pc' \in [Callers -> {"gate"} \cup InAcquire \cup Handling]
        /\ pc'[c] \in Handling /\ \A d \in Callers : d # c => pc'[d] = pc[d]
    BY <1>0, <2>1, SMTT(20), Z3T(20) DEF LeaseTyped, Go, Handling
  <2>5. Route(c) \in Routes
    <3>1. call[c] \in Calls
      BY <1>0 DEF LeaseTyped
    <3> QED  BY <3>1, LeasesAssumption, SMTT(20), Z3T(20) DEF Route
  <2>6. /\ holder' = [r \in Routes |-> holder'[r]]
        /\ \A r \in Routes : r # Route(c) => holder'[r] = holder[r]
        /\ holder'[Route(c)] = [owner |-> Owner(c), token |-> t]
    <3>1. holder[Route(c)] = [owner |-> Owner(c), token |-> arg[c]]
      BY <1>2 DEF HeldWith
    <3> QED  BY <2>1, <2>2, <2>5, <3>1, SMTT(20), Z3T(20)
  <2>7. LeaseTyped'
    BY <1>0, <1>1, <2>3, <2>4, <2>6 DEF LeaseTyped, acquisition
  <2>8. ASSUME gaveUp = {} PROVE HeldIsIssued' /\ \A d \in Callers : OwnToken(d)'
    <3>1. Orderly
      BY <2>8 DEF LeaseInv
    <3>2. HeldIsIssued'
      <4>1. holder'[Route(c)].owner = Owner(c) /\ holder'[Route(c)].token = t
        BY <2>6, SMTT(20), Z3T(20)
      <4> QED  BY <2>1, <2>6, <3>1, <4>1 DEF Orderly, HeldIsIssued
    <3>3. ASSUME NEW d \in Callers PROVE OwnToken(d)'
      BY <1>1, <2>1, <2>3, <2>4, <3>1, <3>3 DEF Orderly, OwnToken, Mine, Route, Owner, acquisition
    <3> QED  BY <3>2, <3>3
  <2> QED  BY <1>1, <1>4, <2>1, <2>4, <2>7, <2>8, OutsideKeeps DEF Handling
<1>3. CASE ~HeldWith(c, arg[c])
  <2>1. UNCHANGED <<token, holder, issued>> /\ \E where \in {"lost", "raw"} : Go(c, where)
    BY <1>3 DEF ExtendAnswered, ExtendFails
  <2>2. /\ pc' \in [Callers -> {"gate"} \cup InAcquire \cup Handling]
        /\ pc'[c] \in Handling /\ \A d \in Callers : d # c => pc'[d] = pc[d]
    BY <1>0, <2>1, SMTT(20), Z3T(20) DEF LeaseTyped, Go, Handling
  <2>3. LeaseTyped'
    BY <1>0, <1>1, <2>1, <2>2 DEF LeaseTyped, acquisition
  <2>4. ASSUME gaveUp = {} PROVE HeldIsIssued' /\ \A d \in Callers : OwnToken(d)'
    BY <1>1, <2>1, <2>2, <2>4 DEF LeaseInv, Orderly, HeldIsIssued, OwnToken, Mine, Route, Owner, acquisition
  <2> QED  BY <1>1, <1>4, <2>1, <2>2, <2>3, <2>4, OutsideKeeps DEF Handling
<1> QED  BY <1>2, <1>3

-----------------------------------------------------------------------------
(* Steps of Acquire                                                        *)

\* The deferred calls of Acquire leave no waiter behind.
LEMMA LeaveMeans ==
    ASSUME LeaseTyped, Inside, NEW c \in Callers, pc[c] \in InAcquire,
           NEW where \in Handling, Leave(c, where)
    PROVE  /\ gate = c
           /\ pc' \in [Callers -> {"gate"} \cup InAcquire \cup Handling]
           /\ pc'[c] = where /\ \A d \in Callers : d # c => pc'[d] = pc[d]
           /\ \A f \in {callConn', resp', box'} : f = [d \in Callers |-> f[d]]
           /\ resp'[c] = NoAnswer /\ box'[c] = NoAnswer
           /\ \A d \in Callers : d # c => resp'[d] = resp[d] /\ box'[d] = box[d]
           /\ Inside'
<1>1. gate = c
  BY DEF Inside
<1>2. acquireWaiters' = << >> /\ gate' = None
  BY <1>1, RemoveOnly, RemoveNone DEF Inside, Leave, MarkDone
<1>3. where \in {"gate"} \cup InAcquire \cup Handling /\ Go(c, where)
  BY DEF Leave
<1>4. /\ pc' \in [Callers -> {"gate"} \cup InAcquire \cup Handling]
      /\ pc'[c] = where /\ \A d \in Callers : d # c => pc'[d] = pc[d]
  BY <1>3, Goes
<1>5. /\ resp = [d \in Callers |-> resp[d]] /\ box = [d \in Callers |-> box[d]]
      /\ callConn = [d \in Callers |-> callConn[d]]
  BY DEF LeaseTyped
<1>9. callConn' = [d \in Callers |-> callConn'[d]]
  BY <1>5 DEF Leave
<1>6. /\ resp' = [d \in Callers |-> resp'[d]] /\ resp'[c] = NoAnswer
      /\ \A d \in Callers : d # c => resp'[d] = resp[d]
  BY <1>5 DEF Leave
<1>7. /\ box' = [d \in Callers |-> box'[d]] /\ box'[c] = NoAnswer
      /\ \A d \in Callers : d # c => box'[d] = box[d]
  BY <1>5 DEF Leave
<1>8. Inside'
  <2>1. where \notin InAcquire
    BY DEF Handling, InAcquire
  <2> QED  BY <1>1, <1>2, <1>4, <2>1, LeasesAssumption DEF Inside
<1> QED  BY <1>1, <1>4, <1>6, <1>7, <1>8, <1>9

brokerSide == <<call, requests, holder, bqueue, pushes, issued>>

\* Acquire returns while nothing is outstanding for it.
LEMMA LeaveKeeps ==
    ASSUME LeaseInv, NEW c \in Callers, pc[c] \in InAcquire,
           NEW where \in Handling, Leave(c, where), UNCHANGED brokerSide,
           cb' \in [Callers -> {"none", "running", "returned"}],
           \A f \in {token', authority'} : f = [d \in Callers |-> f[d]],
           gaveUp' = {} => /\ gaveUp = {} /\ requests = {} /\ ~Outstanding
                           /\ \A d \in Callers : OwnToken(d)'
    PROVE  LeaseInv'
<1>0. LeaseTyped /\ Inside
  BY DEF LeaseInv
<1>1. /\ pc' \in [Callers -> {"gate"} \cup InAcquire \cup Handling]
      /\ pc'[c] = where /\ \A d \in Callers : d # c => pc'[d] = pc[d]
      /\ \A f \in {callConn', resp', box'} : f = [d \in Callers |-> f[d]]
      /\ resp'[c] = NoAnswer /\ box'[c] = NoAnswer
      /\ \A d \in Callers : d # c => resp'[d] = resp[d] /\ box'[d] = box[d]
      /\ Inside'
  BY <1>0, LeaveMeans
<1>2. LeaseTyped'
  BY <1>0, <1>1 DEF LeaseTyped, brokerSide
<1>3. ASSUME gaveUp' = {} PROVE Orderly'
  <2>1. Orderly /\ requests' = {} /\ ~Outstanding' /\ \A d \in Callers : OwnToken(d)'
    BY <1>3 DEF LeaseInv, Outstanding, brokerSide
  <2>2. Asked' /\ Queued' /\ Pushed' /\ Awaited' /\ Fresh'
    BY <2>1 DEF Asked, Queued, Pushed, Awaited, Fresh, Outstanding
  <2>3. HeldIsIssued'
    BY <2>1 DEF Orderly, HeldIsIssued, brokerSide
  <2>4. ASSUME NEW d \in Callers PROVE Answers(d)'
    <3>1. CASE d = c
      <4>1. NoAnswer.kind = "none" /\ where \notin {"sent", "queued", "granted"}
        BY SMTT(20), Z3T(20) DEF NoAnswer, Handling
      <4> QED  BY <1>1, <3>1, <4>1 DEF Answers
    <3>2. CASE d # c
      BY <1>1, <2>1, <3>2 DEF Orderly, Answers, Mine, Route, Owner, brokerSide
    <3> QED  BY <3>1, <3>2
  <2> QED  BY <2>1, <2>2, <2>3, <2>4 DEF Orderly
<1> QED  BY <1>1, <1>2, <1>3 DEF LeaseInv

\* Acquire goes on with a response it has read.
LEMMA InnerKeeps ==
    ASSUME LeaseInv, NEW c \in Callers, pc[c] \in InAcquire,
           NEW where \in {"queued", "granted"}, Go(c, where),
           UNCHANGED <<conn, live, gate, acquireWaiters, callConn, resp, box, brokerSide, cb, authority, gaveUp>>,
           token' = [d \in Callers |-> token'[d]],
           \A d \in Callers : d # c => token'[d] = token[d],
           gaveUp = {} => /\ requests = {}
                          /\ Outstanding => where = "queued"
                          /\ where = "queued" => resp[c].kind = "queued"
                          /\ where = "granted" => Mine(c, token'[c])
    PROVE  LeaseInv'
<1>0. LeaseTyped /\ Inside /\ gate = c
  BY DEF LeaseInv, Inside
<1>1. where \in {"gate"} \cup InAcquire \cup Handling /\ where \in InAcquire
  BY DEF InAcquire
<1>2. /\ pc' \in [Callers -> {"gate"} \cup InAcquire \cup Handling]
      /\ pc'[c] = where /\ \A d \in Callers : d # c => pc'[d] = pc[d]
  BY <1>0, <1>1, Goes
<1>3. LeaseTyped'
  BY <1>0, <1>2 DEF LeaseTyped, brokerSide
<1>4. Inside'
  BY <1>0, <1>1, <1>2 DEF Inside
<1>5. ASSUME gaveUp = {} PROVE Orderly'
  <2> USE <1>5 DEF brokerSide
  <2>1. Orderly
    BY DEF LeaseInv
  <2>2. Asked' /\ Queued' /\ Pushed' /\ HeldIsIssued'
    BY <2>1 DEF Orderly, Asked, Queued, Pushed, HeldIsIssued, Mine, Route, Owner
  <2>3. Awaited' /\ Fresh'
    BY <1>0, <1>2, <2>1 DEF Orderly, Awaited, Fresh, Live, Outstanding
  <2>4. ASSUME NEW d \in Callers PROVE Answers(d)' /\ OwnToken(d)'
    <3>1. CASE d = c
      BY <1>2, <2>1, <3>1 DEF Orderly, Answers, OwnToken, Mine, Route, Owner
    <3>2. CASE d # c
      BY <1>2, <2>1, <3>2 DEF Orderly, Answers, OwnToken, Mine, Route, Owner
    <3> QED  BY <3>1, <3>2
  <2> QED  BY <2>1, <2>2, <2>3, <2>4 DEF Orderly
<1> QED  BY <1>3, <1>4, <1>5 DEF LeaseInv

LEMMA EnterGateKeeps ==
    ASSUME LeaseInv, NEW c \in Callers, EnterGate(c)
    PROVE  LeaseInv'
<1> USE DEF connVars, handleVars, cbVars, brokerVars
<1>0. LeaseTyped /\ Inside /\ gate = None /\ gate' = c
  BY DEF LeaseInv, EnterGate, GateFree
<1>1. /\ pc' \in [Callers -> {"gate"} \cup InAcquire \cup Handling]
      /\ pc'[c] = "send" /\ \A d \in Callers : d # c => pc'[d] = pc[d]
  BY <1>0, Goes DEF EnterGate, InAcquire
<1>2. LeaseTyped'
  BY <1>0, <1>1 DEF LeaseTyped, EnterGate
<1>3. Inside'
  <2>1. acquireWaiters = << >>
    BY <1>0 DEF Inside
  <2>2. acquireWaiters' \in {<< >>, <<c>>}
    BY <2>1, SMTT(20), Z3T(20) DEF EnterGate, JoinWaiters
  <2>3. None \notin Callers /\ "send" \in InAcquire
    BY LeasesAssumption DEF InAcquire
  <2>4. ASSUME NEW d \in Callers PROVE pc'[d] \in InAcquire <=> gate' = d
    BY <1>0, <1>1, <2>3 DEF Inside
  <2> QED  BY <1>0, <2>2, <2>3, <2>4 DEF Inside
<1>4. ASSUME gaveUp = {} PROVE Orderly'
  <2>1. Orderly
    BY <1>4 DEF LeaseInv
  <2>2. requests = {} /\ ~Outstanding
    BY <1>0, <2>1, LeasesAssumption DEF Orderly, Asked, Queued, Pushed, Outstanding
  <2>3. Asked' /\ Queued' /\ Pushed' /\ Awaited' /\ Fresh'
    BY <2>2 DEF Asked, Queued, Pushed, Awaited, Fresh, Outstanding, EnterGate
  <2>4. HeldIsIssued'
    BY <2>1 DEF Orderly, HeldIsIssued, EnterGate
  <2>5. ASSUME NEW d \in Callers PROVE Answers(d)' /\ OwnToken(d)'
    <3>1. CASE d = c
      BY <1>1, <2>1, <3>1 DEF Orderly, Answers, OwnToken, Mine, Route, Owner, EnterGate
    <3>2. CASE d # c
      BY <1>1, <2>1, <3>2 DEF Orderly, Answers, OwnToken, Mine, Route, Owner, EnterGate
    <3> QED  BY <3>1, <3>2
  <2> QED  BY <2>3, <2>4, <2>5 DEF Orderly
<1> QED  BY <1>2, <1>3, <1>4 DEF LeaseInv, EnterGate

LEMMA GateAbortedKeeps ==
    ASSUME LeaseInv, NEW c \in Callers, GateAborted(c)
    PROVE  LeaseInv'
<1> USE DEF connVars, handleVars, cbVars, brokerVars, acquireVars
<1>0. LeaseTyped /\ Inside /\ pc[c] = "gate"
  BY DEF LeaseInv, GateAborted
<1>1. /\ pc' \in [Callers -> {"gate"} \cup InAcquire \cup Handling]
      /\ pc'[c] = "failed" /\ \A d \in Callers : d # c => pc'[d] = pc[d]
  BY <1>0, Goes DEF GateAborted, Handling
<1>2. LeaseTyped'
  BY <1>0, <1>1 DEF LeaseTyped, GateAborted
<1>3. Inside' /\ gate # c
  BY <1>0, <1>1 DEF Inside, InAcquire, GateAborted
<1>4. ASSUME gaveUp = {} PROVE Orderly'
  <2>1. Orderly
    BY <1>4 DEF LeaseInv
  <2>5. Fresh'
    BY <2>1 DEF Orderly, Fresh, Live, Outstanding, GateAborted
  <2>2. Asked' /\ Awaited'
    BY <1>0, <1>1, <1>3, <2>1
    DEF Inside, Orderly, Asked, Awaited, Outstanding, Queued, Pushed, GateAborted
  <2>3. Queued' /\ Pushed' /\ HeldIsIssued'
    BY <2>1 DEF Orderly, Queued, Pushed, HeldIsIssued, Mine, Route, Owner, GateAborted
  <2>4. ASSUME NEW d \in Callers PROVE Answers(d)' /\ OwnToken(d)'
    <3>1. CASE d = c
      BY <1>0, <1>1, <2>1, <3>1 DEF Orderly, Answers, OwnToken, Mine, Route, Owner, GateAborted
    <3>2. CASE d # c
      BY <1>1, <2>1, <3>2 DEF Orderly, Answers, OwnToken, Mine, Route, Owner, GateAborted
    <3> QED  BY <3>1, <3>2
  <2> QED  BY <2>2, <2>3, <2>4, <2>5 DEF Orderly
<1> QED  BY <1>2, <1>3, <1>4 DEF LeaseInv, GateAborted

LEMMA SendAcquireKeeps ==
    ASSUME LeaseInv, NEW c \in Callers, SendAcquire(c)
    PROVE  LeaseInv'
<1> USE DEF connVars, handleVars, cbVars, brokerVars
<1>0. LeaseTyped /\ Inside /\ pc[c] = "send" /\ gate = c /\ pc[c] \in InAcquire
  BY DEF LeaseInv, SendAcquire, InAcquire, Inside
<1>1. ASSUME gaveUp = {}
      PROVE  Orderly /\ requests = {} /\ ~Outstanding
  BY <1>0, <1>1 DEF LeaseInv, Orderly, Asked, Awaited
<1>2. CASE ~(live /\ c \notin ctxDone)
  <2>1. "failed" \in Handling /\ Leave(c, "failed") /\ UNCHANGED brokerSide
    BY <1>2 DEF SendAcquire, Handling, brokerSide
  <2>2. \A d \in Callers : d # c => pc'[d] = pc[d]
    BY <1>0, <2>1, LeaveMeans
  <2>3. pc'[c] = "failed"
    BY <1>0, <2>1, LeaveMeans
  <2>4. ASSUME gaveUp = {}, NEW d \in Callers PROVE OwnToken(d)'
    BY <1>1, <2>2, <2>3, <2>4
    DEF Orderly, OwnToken, Mine, Route, Owner, SendAcquire
  <2>5. /\ cb' \in [Callers -> {"none", "running", "returned"}]
        /\ \A f \in {token', authority'} : f = [d \in Callers |-> f[d]]
    BY <1>0 DEF LeaseTyped, SendAcquire
  <2>6. gaveUp' = gaveUp
    BY DEF SendAcquire
  <2> QED  BY <1>0, <1>1, <2>1, <2>4, <2>5, <2>6, LeaveKeeps
<1>3. CASE live /\ c \notin ctxDone
  <2>1. /\ requests' = requests \cup {c} /\ Go(c, "sent")
        /\ callConn' = [callConn EXCEPT ![c] = conn]
        /\ UNCHANGED <<conn, live, gate, acquireWaiters, resp, box, call, handleVars, cbVars,
                       holder, bqueue, pushes, issued, gaveUp>>
    BY <1>3 DEF SendAcquire
  <2>2. /\ pc' \in [Callers -> {"gate"} \cup InAcquire \cup Handling]
        /\ pc'[c] = "sent" /\ \A d \in Callers : d # c => pc'[d] = pc[d]
    BY <1>0, <2>1, Goes DEF InAcquire
  <2>6. callConn' = [d \in Callers |-> callConn'[d]] /\ callConn'[c] = conn
    <3>1. callConn = [d \in Callers |-> callConn[d]]
      BY <1>0 DEF LeaseTyped
    <3> QED  BY <2>1, <3>1
  <2>3. LeaseTyped'
    BY <1>0, <2>1, <2>2, <2>6 DEF LeaseTyped
  <2>4. Inside'
    BY <1>0, <2>1, <2>2 DEF Inside, InAcquire
  <2>5. ASSUME gaveUp = {} PROVE Orderly'
    <3>1. Orderly /\ ~Outstanding /\ requests' = {c}
      BY <1>1, <2>1, <2>5
    <3>2. Queued' /\ Pushed' /\ Awaited'
      BY <2>1, <3>1 DEF Queued, Pushed, Awaited, Outstanding
    <3>6. Fresh'
      BY <1>0, <1>3, <2>1, <2>6 DEF Fresh, Live
    <3>3. Asked'
      BY <1>0, <2>1, <2>2, <3>1 DEF Orderly, Answers, Asked
    <3>4. HeldIsIssued'
      BY <2>1, <3>1 DEF Orderly, HeldIsIssued
    <3>5. ASSUME NEW d \in Callers PROVE Answers(d)' /\ OwnToken(d)'
      <4>1. CASE d = c
        BY <1>0, <2>1, <2>2, <3>1, <4>1 DEF Orderly, Answers, OwnToken, Mine, Route, Owner
      <4>2. CASE d # c
        BY <2>1, <2>2, <3>1, <4>2 DEF Orderly, Answers, OwnToken, Mine, Route, Owner
      <4> QED  BY <4>1, <4>2
    <3> QED  BY <3>2, <3>3, <3>4, <3>5, <3>6 DEF Orderly
  <2> QED  BY <2>1, <2>3, <2>4, <2>5 DEF LeaseInv
<1> QED  BY <1>2, <1>3

\* An Acquire that gives up after sending: the broker has nothing for it when
\* its session has ended, and otherwise it has given up an ACQUIRE the broker
\* may still grant.
LEMMA GiveUpKeeps ==
    ASSUME LeaseInv, NEW c \in Callers, RequestFails(c) \/ GiveUp(c)
    PROVE  LeaseInv'
<1> USE DEF connVars, handleVars, cbVars, brokerVars
<1>1. LeaseTyped /\ Inside /\ pc[c] \in InAcquire
  BY DEF LeaseInv, InAcquire, RequestFails, GiveUp
<1>2. "failed" \in Handling /\ Leave(c, "failed") /\ UNCHANGED brokerSide
  BY DEF RequestFails, GiveUp, Handling, brokerSide
<1>3. /\ cb' \in [Callers -> {"none", "running", "returned"}]
      /\ \A f \in {token', authority'} : f = [d \in Callers |-> f[d]]
  BY <1>1 DEF LeaseTyped, RequestFails, GiveUp
<1>4. gate = c /\ pc'[c] = "failed" /\ \A d \in Callers : d # c => pc'[d] = pc[d]
  BY <1>1, <1>2, LeaveMeans
<1>5. ASSUME gaveUp' = {}
      PROVE  gaveUp = {} /\ requests = {} /\ ~Outstanding /\ \A d \in Callers : OwnToken(d)'
  <2>1. gaveUp = {} /\ ~Live(callConn[c])
    BY <1>5 DEF RequestFails, GiveUp, Abandon
  <2>2. Orderly
    BY <2>1 DEF LeaseInv
  <2>3. requests = {} /\ ~Outstanding
    BY <1>4, <2>1, <2>2 DEF Orderly, Fresh
  <2>4. ASSUME NEW d \in Callers PROVE OwnToken(d)'
    BY <1>4, <2>2, <2>4 DEF Orderly, OwnToken, Route, Owner, RequestFails, GiveUp
  <2> QED  BY <2>1, <2>3, <2>4
<1> QED  BY <1>1, <1>2, <1>3, <1>5, LeaveKeeps

LEMMA AnswerReadKeeps ==
    ASSUME LeaseInv, NEW c \in Callers, AnswerRead(c)
    PROVE  LeaseInv'
<1> USE DEF connVars, handleVars, cbVars, brokerVars
<1>0. LeaseTyped /\ Inside /\ pc[c] = "sent" /\ gate = c /\ pc[c] \in InAcquire
  BY DEF LeaseInv, AnswerRead, InAcquire, Inside
<1>1. NoAnswer.kind = "none" /\ resp[c].kind # "none"
  BY SMTT(20), Z3T(20) DEF NoAnswer, AnswerRead
<1>2. ASSUME gaveUp = {} PROVE Orderly /\ requests = {}
  BY <1>0, <1>1, <1>2 DEF LeaseInv, Orderly, Asked
<1>3. ASSUME gaveUp = {}, resp[c].kind # "queued" PROVE ~Outstanding
  BY <1>0, <1>2, <1>3 DEF Orderly, Awaited
<1>4. CASE resp[c].kind \in {"acquired", "already"}
  <2>1. /\ token' = [token EXCEPT ![c] = resp[c].token] /\ Go(c, "granted")
        /\ UNCHANGED <<conn, live, gate, acquireWaiters, callConn, resp, box, brokerSide, cb, authority, gaveUp>>
    BY <1>4 DEF AnswerRead, waitVars, brokerSide
  <2>2. token = [d \in Callers |-> token[d]]
    BY <1>0 DEF LeaseTyped
  <2>3. /\ token' = [d \in Callers |-> token'[d]] /\ token'[c] = resp[c].token
        /\ \A d \in Callers : d # c => token'[d] = token[d]
    BY <2>1, <2>2
  <2>4. ASSUME gaveUp = {} PROVE requests = {} /\ ~Outstanding /\ Mine(c, token'[c])
    BY <1>2, <1>3, <1>4, <2>3, <2>4 DEF Orderly, Answers
  <2> QED  BY <1>0, <2>1, <2>3, <2>4, InnerKeeps
<1>5. CASE resp[c].kind = "queued"
  <2>1. /\ Go(c, "queued") /\ token' = token
        /\ UNCHANGED <<conn, live, gate, acquireWaiters, callConn, resp, box, brokerSide, cb, authority, gaveUp>>
    BY <1>5 DEF AnswerRead, waitVars, brokerSide
  <2>2. token' = [d \in Callers |-> token'[d]]
    BY <1>0, <2>1 DEF LeaseTyped
  <2> QED  BY <1>0, <1>2, <1>5, <2>1, <2>2, InnerKeeps
<1>6. CASE resp[c].kind = "refused"
  <2>1. "failed" \in Handling /\ Leave(c, "failed") /\ UNCHANGED brokerSide /\ token' = token
    BY <1>6 DEF AnswerRead, Handling, brokerSide
  <2>2. pc'[c] = "failed" /\ \A d \in Callers : d # c => pc'[d] = pc[d]
    BY <1>0, <2>1, LeaveMeans
  <2>3. ASSUME gaveUp = {}, NEW d \in Callers PROVE OwnToken(d)'
    BY <1>2, <2>1, <2>2, <2>3 DEF Orderly, OwnToken, Mine, Route, Owner, AnswerRead
  <2>4. /\ cb' \in [Callers -> {"none", "running", "returned"}]
        /\ \A f \in {token', authority'} : f = [d \in Callers |-> f[d]]
    BY <1>0, <2>1 DEF LeaseTyped, AnswerRead
  <2>5. gaveUp' = gaveUp
    BY DEF AnswerRead
  <2>6. ASSUME gaveUp = {} PROVE ~Outstanding
    BY <1>3, <1>6, <2>6
  <2> QED  BY <1>0, <1>2, <2>1, <2>3, <2>4, <2>5, <2>6, LeaveKeeps
<1> QED  BY <1>4, <1>5, <1>6 DEF AnswerRead

LEMMA DeferredArrivesKeeps ==
    ASSUME LeaseInv, NEW c \in Callers, DeferredArrives(c)
    PROVE  LeaseInv'
<1> USE DEF connVars, handleVars, cbVars, brokerVars
<1>0. LeaseTyped /\ Inside /\ pc[c] = "queued" /\ gate = c /\ pc[c] \in InAcquire
  BY DEF LeaseInv, DeferredArrives, InAcquire, Inside
<1>1. box[c] # NoAnswer
  BY SMTT(20), Z3T(20) DEF NoAnswer, DeferredArrives
<1>2. ASSUME gaveUp = {} PROVE Orderly /\ requests = {} /\ ~Outstanding
  BY <1>0, <1>1, <1>2 DEF LeaseInv, Orderly, Asked, Awaited
<1>3. CASE box[c].kind = "acquired"
  <2>1. /\ token' = [token EXCEPT ![c] = box[c].token] /\ Go(c, "granted")
        /\ UNCHANGED <<conn, live, gate, acquireWaiters, callConn, resp, box, brokerSide, cb, authority, gaveUp>>
    BY <1>3 DEF DeferredArrives, DeferredToken, waitVars, brokerSide
  <2>2. token = [d \in Callers |-> token[d]]
    BY <1>0 DEF LeaseTyped
  <2>3. /\ token' = [d \in Callers |-> token'[d]] /\ token'[c] = box[c].token
        /\ \A d \in Callers : d # c => token'[d] = token[d]
    BY <2>1, <2>2
  <2>4. ASSUME gaveUp = {} PROVE Mine(c, token'[c])
    BY <1>2, <1>3, <2>3, <2>4 DEF Orderly, Answers
  <2> QED  BY <1>0, <1>2, <2>1, <2>3, <2>4, InnerKeeps
<1>4. CASE box[c].kind # "acquired"
  <2>1. "failed" \in Handling /\ Leave(c, "failed") /\ UNCHANGED brokerSide /\ token' = token
    BY <1>4 DEF DeferredArrives, Handling, brokerSide
  <2>2. pc'[c] = "failed" /\ \A d \in Callers : d # c => pc'[d] = pc[d]
    BY <1>0, <2>1, LeaveMeans
  <2>3. ASSUME gaveUp = {}, NEW d \in Callers PROVE OwnToken(d)'
    BY <1>2, <2>1, <2>2, <2>3 DEF Orderly, OwnToken, Mine, Route, Owner, DeferredArrives
  <2>4. /\ cb' \in [Callers -> {"none", "running", "returned"}]
        /\ \A f \in {token', authority'} : f = [d \in Callers |-> f[d]]
    BY <1>0, <2>1 DEF LeaseTyped, DeferredArrives
  <2>5. gaveUp' = gaveUp
    BY DEF DeferredArrives
  <2> QED  BY <1>0, <1>2, <2>1, <2>3, <2>4, <2>5, LeaveKeeps
<1> QED  BY <1>3, <1>4

LEMMA MakeHandleKeeps ==
    ASSUME LeaseInv, NEW c \in Callers, MakeHandle(c)
    PROVE  LeaseInv'
<1> USE DEF connVars, handleVars, cbVars, brokerVars
<1>0. LeaseTyped /\ Inside /\ pc[c] = "granted" /\ gate = c /\ pc[c] \in InAcquire
  BY DEF LeaseInv, MakeHandle, InAcquire, Inside
<1>1. ASSUME gaveUp = {} PROVE Orderly /\ requests = {} /\ ~Outstanding
  BY <1>0, <1>1 DEF LeaseInv, Orderly, Asked, Awaited
<1>2. PICK where \in {"supervise", "raw"} : Leave(c, where)
  BY DEF MakeHandle
<1>3. where \in Handling /\ UNCHANGED brokerSide /\ token' = token /\ gaveUp' = gaveUp
  BY DEF MakeHandle, Handling, brokerSide
<1>4. pc'[c] = where /\ \A d \in Callers : d # c => pc'[d] = pc[d]
  BY <1>0, <1>2, <1>3, LeaveMeans
<1>5. /\ cb \in [Callers -> {"none", "running", "returned"}]
      /\ authority = [d \in Callers |-> authority[d]]
      /\ token = [d \in Callers |-> token[d]]
  BY <1>0 DEF LeaseTyped
<1>6. /\ cb' \in [Callers -> {"none", "running", "returned"}]
      /\ authority' = [d \in Callers |-> authority'[d]]
      /\ authority'[c] = token[c] \/ (authority'[c] = authority[c] /\ cb'[c] = cb[c])
      /\ \A d \in Callers : d # c => authority'[d] = authority[d] /\ cb'[d] = cb[d]
  <2>1. CASE call[c].managed
    BY <1>5, <2>1 DEF MakeHandle
  <2>2. CASE ~call[c].managed
    BY <1>5, <2>2 DEF MakeHandle
  <2> QED  BY <2>1, <2>2
<1>7. ASSUME gaveUp = {}, NEW d \in Callers PROVE OwnToken(d)'
  <2>1. CASE d = c
    BY <1>0, <1>1, <1>3, <1>4, <1>6, <1>7, <2>1
    DEF Orderly, OwnToken, Mine, Route, Owner, brokerSide
  <2>2. CASE d # c
    BY <1>1, <1>3, <1>4, <1>6, <1>7, <2>2
    DEF Orderly, OwnToken, Mine, Route, Owner, brokerSide
  <2> QED  BY <2>1, <2>2
<1>8. \A f \in {token', authority'} : f = [d \in Callers |-> f[d]]
  BY <1>3, <1>5, <1>6
<1> QED  BY <1>0, <1>1, <1>2, <1>3, <1>6, <1>7, <1>8, LeaveKeeps

-----------------------------------------------------------------------------
(* The dispatch loop, the broker and the connection                        *)

\* The deferred response goes to the Acquire inside the gate: no other has a
\* waiter, and the broker has no other grant under way.
LEMMA DeliverPushKeeps == ASSUME LeaseInv, DeliverPush PROVE LeaseInv'
<1> USE DEF connVars, handleVars, cbVars
<1> DEFINE p == Head(pushes)
<1>0. LeaseTyped /\ Inside
  BY DEF LeaseInv
<1>1. CASE ~(handlerOn = conn /\ acquireWaiters # << >>)
  <2>1. UNCHANGED <<box, acquireWaiters>>
    BY <1>1 DEF DeliverPush
  <2>2. LeaseTyped' /\ Inside'
    BY <1>0, <2>1 DEF LeaseTyped, Inside, DeliverPush
  <2>3. ASSUME gaveUp = {} PROVE Orderly'
    <3>1. Orderly
      BY <2>3 DEF LeaseInv
    <3>2. pushes' = << >> /\ \A r \in Routes : bqueue'[r] = << >>
      BY <3>1, OneElement DEF DeliverPush, Orderly, Pushed, Queued
    <3>3. Queued' /\ Pushed' /\ Awaited'
      BY <3>2 DEF Queued, Pushed, Awaited, Outstanding
    <3>8. Fresh'
      BY <3>1, <3>2 DEF Orderly, Fresh, Live, Outstanding, DeliverPush
    <3>4. Asked' /\ HeldIsIssued' /\ \A d \in Callers : Answers(d)' /\ OwnToken(d)'
      BY <2>1, <3>1
      DEF DeliverPush, Orderly, Asked, HeldIsIssued, Answers, OwnToken, Mine, Route, Owner
    <3> QED  BY <3>3, <3>4, <3>8 DEF Orderly
  <2> QED  BY <2>2, <2>3 DEF LeaseInv, DeliverPush
<1>2. CASE handlerOn = conn /\ acquireWaiters # << >>
  <2>1. gate \in Callers /\ acquireWaiters = <<gate>>
    BY <1>0, <1>2 DEF Inside
  <2>2. /\ box' = [box EXCEPT ![gate] = [kind |-> p.kind, token |-> p.token]]
        /\ acquireWaiters' = << >>
    <3>1. Head(acquireWaiters) = gate /\ Tail(acquireWaiters) = << >>
      BY <2>1, OneElement
    <3>2. /\ box' = [box EXCEPT ![Head(acquireWaiters)] =
                        [kind |-> p.kind, token |-> p.token]]
          /\ acquireWaiters' = Tail(acquireWaiters)
      BY <1>2 DEF DeliverPush
    <3> QED  BY <3>1, <3>2
  <2>3. box = [d \in Callers |-> box[d]]
    BY <1>0 DEF LeaseTyped
  <2>4. /\ box' = [d \in Callers |-> box'[d]]
        /\ box'[gate] = [kind |-> p.kind, token |-> p.token]
        /\ \A d \in Callers : d # gate => box'[d] = box[d]
    BY <2>1, <2>2, <2>3
  <2>5. LeaseTyped' /\ Inside'
    <3>1. UNCHANGED <<gate, pc, call, callConn, resp, token, cb, authority, holder, bqueue>>
      BY DEF DeliverPush
    <3>2. LeaseTyped'
      BY <1>0, <2>4, <3>1 DEF LeaseTyped
    <3> QED  BY <1>0, <2>2, <3>1, <3>2 DEF Inside
  <2>6. ASSUME gaveUp = {} PROVE Orderly'
    <3>1. Orderly /\ pushes # << >>
      BY <2>6 DEF LeaseInv, DeliverPush
    <3>2. pushes' = << >> /\ \A r \in Routes : bqueue'[r] = << >>
      BY <3>1, OneElement DEF DeliverPush, Orderly, Pushed, Queued
    <3>3. Queued' /\ Pushed' /\ Awaited'
      BY <3>2 DEF Queued, Pushed, Awaited, Outstanding
    <3>8. Fresh'
      BY <3>1, <3>2 DEF Orderly, Fresh, Live, Outstanding, DeliverPush
    <3>4. Asked' /\ HeldIsIssued'
      BY <3>1 DEF DeliverPush, Orderly, Asked, HeldIsIssued
    <3>5. /\ pc[gate] \in {"sent", "queued"} /\ resp[gate].kind = "queued"
          /\ p.kind = "acquired" => Mine(gate, p.token)
      BY <3>1 DEF Orderly, Pushed, Awaited, Outstanding
    <3>6. box'[gate].kind = p.kind /\ box'[gate].token = p.token
      BY <2>4, SMTT(20), Z3T(20)
    <3>7. ASSUME NEW d \in Callers PROVE Answers(d)' /\ OwnToken(d)'
      <4>0. Answers(d) /\ OwnToken(d)
        BY <3>1 DEF Orderly
      <4>1. OwnToken(d)'
        BY <4>0 DEF DeliverPush, OwnToken, Mine, Route, Owner
      <4>2. CASE d = gate
        BY <3>5, <3>6, <4>0, <4>1, <4>2 DEF DeliverPush, Answers, Mine, Route, Owner
      <4>3. CASE d # gate
        BY <2>4, <4>0, <4>1, <4>3 DEF DeliverPush, Answers, Mine, Route, Owner
      <4> QED  BY <4>2, <4>3
    <3> QED  BY <3>3, <3>4, <3>7, <3>8 DEF Orderly
  <2> QED  BY <2>5, <2>6 DEF LeaseInv, DeliverPush
<1> QED  BY <1>1, <1>2

\* The response the broker gives to an ACQUIRE.
LEMMA Answered ==
    ASSUME LeaseTyped, NEW c \in Callers, NEW kind, NEW t, Answer(c, kind, t)
    PROVE  /\ resp' = [d \in Callers |-> resp'[d]]
           /\ \A d \in Callers : d # c => resp'[d] = resp[d]
           /\ pc[c] = "sent" => resp'[c].kind = kind /\ resp'[c].token = t
<1>1. resp = [d \in Callers |-> resp[d]]
  BY DEF LeaseTyped
<1>2. CASE pc[c] = "sent"
  <2>1. resp' = [resp EXCEPT ![c] = [kind |-> kind, token |-> t]]
    BY <1>2 DEF Answer
  <2>2. /\ resp' = [d \in Callers |-> resp'[d]]
        /\ resp'[c] = [kind |-> kind, token |-> t]
        /\ \A d \in Callers : d # c => resp'[d] = resp[d]
    BY <1>1, <2>1
  <2>3. resp'[c].kind = kind /\ resp'[c].token = t
    BY <2>2, SMTT(20), Z3T(20)
  <2> QED  BY <2>2, <2>3
<1>3. CASE pc[c] # "sent"
  BY <1>1, <1>3 DEF Answer
<1> QED  BY <1>2, <1>3

LEMMA BrokerAnswersKeeps ==
    ASSUME LeaseInv, NEW c \in Callers, BrokerAnswers(c)
    PROVE  LeaseInv'
<1> USE DEF connVars, handleVars, cbVars, acquireVars
<1> DEFINE r == Route(c)
<1>0. LeaseTyped /\ Inside /\ r \in Routes /\ Owner(c) \notin {None, Other}
  BY LeasesAssumption DEF LeaseInv, LeaseTyped, Route, Owner
<1>1. /\ UNCHANGED <<conn, live, gate, acquireWaiters, pc, call, callConn, box, token, cb, authority, pushes, gaveUp>>
      /\ c \in requests /\ requests' = requests \ {c}
  BY DEF BrokerAnswers, Unasked
<1>2. PICK kind, t :
      /\ Answer(c, kind, t)
      /\ issued \subseteq issued'
      /\ kind = "already" => holder[r].owner = Owner(c) /\ t = holder[r].token
      /\ kind = "acquired" => <<r, Owner(c), t>> \in issued'
      /\ \/ bqueue' = bqueue
         \/ /\ kind = "queued"
            /\ bqueue' = [bqueue EXCEPT ![r] =
                            Append(@, [caller |-> c, owner |-> Owner(c)])]
      /\ \/ holder' = holder
         \/ /\ holder' = [holder EXCEPT ![r] = [owner |-> Owner(c), token |-> t]]
            /\ <<r, Owner(c), t>> \in issued'
  <2> DEFINE n == NextToken
  <2> HIDE DEF n
  <2>1. CASE /\ holder' = [holder EXCEPT ![r] = [owner |-> Owner(c), token |-> n]]
             /\ issued' = issued \cup {<<r, Owner(c), n>>}
             /\ Answer(c, "acquired", n) /\ bqueue' = bqueue
    BY <2>1
  <2>2. CASE /\ holder[r].owner = Owner(c)
             /\ Answer(c, "already", holder[r].token)
             /\ UNCHANGED <<holder, bqueue, issued>>
    BY <2>2
  <2>3. CASE /\ bqueue' = [bqueue EXCEPT ![r] =
                              Append(@, [caller |-> c, owner |-> Owner(c)])]
             /\ Answer(c, "queued", 0) /\ UNCHANGED <<holder, issued>>
    BY <2>3
  <2>4. CASE Answer(c, "refused", 0) /\ UNCHANGED <<holder, bqueue, issued>>
    BY <2>4
  <2> QED  BY <2>1, <2>2, <2>3, <2>4 DEF BrokerAnswers, n
<1>3. /\ resp' = [d \in Callers |-> resp'[d]]
      /\ \A d \in Callers : d # c => resp'[d] = resp[d]
      /\ pc[c] = "sent" => resp'[c].kind = kind /\ resp'[c].token = t
  BY <1>0, <1>2, Answered
<1>4. holder = [q \in Routes |-> holder[q]] /\ bqueue = [q \in Routes |-> bqueue[q]]
  BY <1>0 DEF LeaseTyped
<1>5. /\ holder' = [q \in Routes |-> holder'[q]]
      /\ \A q \in Routes : q # r => holder'[q] = holder[q]
      /\ \/ holder'[r] = holder[r]
         \/ /\ holder'[r] = [owner |-> Owner(c), token |-> t]
            /\ <<r, Owner(c), t>> \in issued'
  BY <1>0, <1>2, <1>4
<1>6. /\ bqueue' = [q \in Routes |-> bqueue'[q]]
      /\ \A q \in Routes : q # r => bqueue'[q] = bqueue[q]
      /\ \/ bqueue'[r] = bqueue[r]
         \/ /\ kind = "queued"
            /\ bqueue'[r] = Append(bqueue[r], [caller |-> c, owner |-> Owner(c)])
  BY <1>0, <1>2, <1>4
<1>7. LeaseTyped' /\ Inside'
  BY <1>0, <1>1, <1>3, <1>5, <1>6 DEF LeaseTyped, Inside
<1>8. ASSUME gaveUp = {} PROVE Orderly'
  <2>1. Orderly /\ gate = c /\ gate # None /\ pc[c] = "sent" /\ resp[c] = NoAnswer
    BY <1>1, <1>8, LeasesAssumption DEF LeaseInv, Orderly, Asked
  <2>2. requests' = {} /\ ~Outstanding
    <3>1. NoAnswer.kind # "queued"
      BY SMTT(20), Z3T(20) DEF NoAnswer
    <3> QED  BY <1>1, <2>1, <3>1 DEF Orderly, Asked, Awaited
  <2>3. box[c] = NoAnswer
    <3>1. NoAnswer.kind # "queued"
      BY SMTT(20), Z3T(20) DEF NoAnswer
    <3> QED  BY <2>1, <3>1 DEF Orderly, Answers
  <2>4. Asked' /\ Pushed'
    BY <1>1, <2>2 DEF Asked, Pushed, Outstanding
  <2>10. Fresh'
    BY <1>1, <2>1 DEF Orderly, Fresh, Live
  <2>5. /\ \A q \in Routes : q # r => bqueue'[q] = << >>
        /\ bqueue'[r] # << >> =>
              kind = "queued" /\ bqueue'[r] = <<[caller |-> c, owner |-> Owner(c)]>>
    BY <1>0, <1>6, <2>2, OneElement DEF Outstanding
  <2>6. Queued' /\ Awaited'
    BY <1>0, <1>1, <1>3, <2>1, <2>2, <2>3, <2>5
    DEF Queued, Awaited, Outstanding, Route, Owner
  <2>7. ASSUME NEW q \in Routes, holder'[q].owner \notin {None, Other}
        PROVE  <<q, holder'[q].owner, holder'[q].token>> \in issued'
    <3>1. CASE holder'[q] = holder[q]
      BY <1>2, <2>1, <2>7, <3>1 DEF Orderly, HeldIsIssued
    <3>2. CASE q = r /\ holder'[r] = [owner |-> Owner(c), token |-> t]
      <4>1. holder'[q].owner = Owner(c) /\ holder'[q].token = t
        BY <3>2, SMTT(20), Z3T(20)
      <4> QED  BY <1>2, <1>5, <2>7, <3>1, <3>2, <4>1 DEF Orderly
    <3> QED  BY <1>5, <3>1, <3>2
  <2>8. kind \in {"acquired", "already"} => <<r, Owner(c), t>> \in issued'
    <3>1. CASE kind = "already"
      BY <1>0, <1>2, <2>1, <3>1 DEF Orderly, HeldIsIssued
    <3> QED  BY <1>2, <3>1
  <2>9. ASSUME NEW d \in Callers PROVE Answers(d)' /\ OwnToken(d)'
    <3>0. Answers(d) /\ OwnToken(d)
      BY <2>1 DEF Orderly
    <3>1. OwnToken(d)'
      BY <1>1, <1>2, <3>0 DEF OwnToken, Mine, Route, Owner
    <3>2. CASE d = c
      <4>1. NoAnswer.kind # "acquired"
        BY SMTT(20), Z3T(20) DEF NoAnswer
      <4> QED
        BY <1>1, <1>3, <2>1, <2>3, <2>8, <3>1, <3>2, <4>1
        DEF Answers, Mine, Route, Owner
    <3>3. CASE d # c
      BY <1>1, <1>2, <1>3, <3>0, <3>1, <3>3 DEF Answers, Mine, Route, Owner
    <3> QED  BY <3>2, <3>3
  <2> QED  BY <2>4, <2>6, <2>7, <2>9, <2>10 DEF Orderly, HeldIsIssued
<1> QED  BY <1>1, <1>7, <1>8 DEF LeaseInv

\* The grant, or the refusal, of the one ACQUIRE in the queue.
LEMMA BrokerGrantsKeeps ==
    ASSUME LeaseInv, NEW r \in Routes, BrokerGrants(r)
    PROVE  LeaseInv'
<1> USE DEF connVars, handleVars, cbVars, acquireVars
<1> DEFINE w == Head(bqueue[r])
<1>0. LeaseTyped /\ Inside
  BY DEF LeaseInv
<1>1. /\ UNCHANGED <<conn, live, gate, acquireWaiters, pc, call, callConn, resp, box, token, cb, authority,
                      requests, gaveUp>>
      /\ bqueue[r] # << >> /\ bqueue' = [bqueue EXCEPT ![r] = Tail(@)]
  BY DEF BrokerGrants, Unasked
<1>2. PICK kind, t :
      /\ pushes' = Append(pushes, [caller |-> w.caller, kind |-> kind, token |-> t])
      /\ issued \subseteq issued'
      /\ kind = "acquired" => <<r, w.owner, t>> \in issued'
      /\ \/ holder' = holder
         \/ /\ holder' = [holder EXCEPT ![r] = [owner |-> w.owner, token |-> t]]
            /\ <<r, w.owner, t>> \in issued'
  <2> DEFINE n == NextToken
  <2> HIDE DEF n, w
  <2>1. CASE /\ holder' = [holder EXCEPT ![r] = [owner |-> w.owner, token |-> n]]
             /\ issued' = issued \cup {<<r, w.owner, n>>}
             /\ pushes' = Append(pushes, [caller |-> w.caller, kind |-> "acquired",
                                          token |-> n])
    BY <2>1
  <2>2. CASE /\ pushes' = Append(pushes, [caller |-> w.caller, kind |-> "refused",
                                          token |-> 0])
             /\ UNCHANGED <<holder, issued>>
    <3> WITNESS "refused", 0
    <3> QED  BY <2>2
  <2> QED  BY <2>1, <2>2 DEF BrokerGrants, n, w
<1> HIDE DEF w
<1>3. holder = [q \in Routes |-> holder[q]] /\ bqueue = [q \in Routes |-> bqueue[q]]
  BY <1>0 DEF LeaseTyped
<1>4. /\ holder' = [q \in Routes |-> holder'[q]]
      /\ \A q \in Routes : q # r => holder'[q] = holder[q]
      /\ \/ holder'[r] = holder[r]
         \/ /\ holder'[r] = [owner |-> w.owner, token |-> t]
            /\ <<r, w.owner, t>> \in issued'
  BY <1>2, <1>3
<1>5. /\ bqueue' = [q \in Routes |-> bqueue'[q]] /\ bqueue'[r] = Tail(bqueue[r])
      /\ \A q \in Routes : q # r => bqueue'[q] = bqueue[q]
  BY <1>1, <1>3
<1>6. LeaseTyped' /\ Inside'
  BY <1>0, <1>1, <1>4, <1>5 DEF LeaseTyped, Inside
<1>7. ASSUME gaveUp = {} PROVE Orderly'
  <2>1. Orderly
    BY <1>7 DEF LeaseInv
  <2>2. /\ gate # None /\ Route(gate) = r /\ pushes = << >>
        /\ bqueue[r] = <<[caller |-> gate, owner |-> Owner(gate)]>>
    BY <1>1, <2>1 DEF Orderly, Queued
  <2>3. w.owner = Owner(gate) /\ Tail(bqueue[r]) = << >>
    <3>1. w = [caller |-> gate, owner |-> Owner(gate)] /\ Tail(bqueue[r]) = << >>
      BY <2>2, OneElement DEF w
    <3> QED  BY <3>1, SMTT(20), Z3T(20)
  <2>4. \A q \in Routes : bqueue'[q] = << >>
    BY <1>5, <2>1, <2>2, <2>3 DEF Orderly, Queued
  <2>5. pushes' = <<[caller |-> w.caller, kind |-> kind, token |-> t]>>
    BY <1>2, <2>2, OneElement
  <2>6. /\ pushes' = <<Head(pushes')>>
        /\ Head(pushes').kind = kind /\ Head(pushes').token = t
    <3>1. Head(pushes') = [caller |-> w.caller, kind |-> kind, token |-> t]
      BY <2>5, OneElement
    <3> QED  BY <2>5, <3>1, SMTT(20), Z3T(20)
  <2>7. Queued' /\ Asked' /\ Awaited'
    BY <1>1, <2>1, <2>4 DEF Orderly, Queued, Asked, Awaited, Outstanding
  <2>11. Fresh'
    BY <1>1, <2>1 DEF Orderly, Fresh, Live, Outstanding
  <2>8. Pushed'
    BY <1>1, <1>2, <2>2, <2>3, <2>6 DEF Pushed, Mine, Route, Owner
  <2>9. ASSUME NEW q \in Routes, holder'[q].owner \notin {None, Other}
        PROVE  <<q, holder'[q].owner, holder'[q].token>> \in issued'
    <3>1. CASE holder'[q] = holder[q]
      BY <1>2, <2>1, <2>9, <3>1 DEF Orderly, HeldIsIssued
    <3>2. CASE /\ q = r /\ holder'[r] = [owner |-> w.owner, token |-> t]
               /\ <<r, w.owner, t>> \in issued'
      <4>1. holder'[q].owner = w.owner /\ holder'[q].token = t
        BY <3>2, SMTT(20), Z3T(20)
      <4> QED  BY <3>2, <4>1
    <3> QED  BY <1>4, <3>1, <3>2
  <2>10. \A d \in Callers : Answers(d)' /\ OwnToken(d)'
    BY <1>1, <1>2, <2>1 DEF Orderly, Answers, OwnToken, Mine, Route, Owner
  <2> QED  BY <2>7, <2>8, <2>9, <2>10, <2>11 DEF Orderly, HeldIsIssued
<1> QED  BY <1>1, <1>6, <1>7 DEF LeaseInv

LEMMA ConnectionKeeps ==
    ASSUME LeaseInv,
           ReplaceConnection \/ ConnLost \/ \E r \in Routes : LeaseExpires(r)
    PROVE  LeaseInv'
<1> USE DEF connVars, handleVars, cbVars, acquireVars
<1>0. LeaseTyped /\ Inside
  BY DEF LeaseInv
<1>1. UNCHANGED <<gate, acquireWaiters, pc, call, callConn, resp, box, token, cb, authority, issued, gaveUp>>
  BY DEF ReplaceConnection, ConnLost, LeaseExpires, Unasked, brokerVars
<1>2. /\ \A f \in {holder', bqueue'} : f = [r \in Routes |-> f[r]]
      /\ \A r \in Routes : holder'[r] \in {holder[r], Free}
  BY <1>0 DEF LeaseTyped, ReplaceConnection, ConnLost, LeaseExpires, brokerVars
<1>3. LeaseTyped'
  BY <1>0, <1>1, <1>2 DEF LeaseTyped
<1>4. ASSUME gaveUp = {}
      PROVE  Orderly /\ HeldIsIssued' /\ \A c \in Callers : Answers(c)' /\ OwnToken(c)'
  BY <1>1, <1>2, <1>4, FreeIsNobodys DEF LeaseInv, Orderly, HeldIsIssued, Answers, OwnToken, Mine, Route, Owner
<1>5. CASE ConnLost
  <2>1. requests' = {} /\ pushes' = << >> /\ \A r \in Routes : bqueue'[r] = << >>
    BY <1>5 DEF ConnLost
  <2>2. Asked' /\ Queued' /\ Pushed' /\ Awaited' /\ Fresh'
    BY <2>1 DEF Asked, Queued, Pushed, Awaited, Fresh, Outstanding
  <2>3. Inside'
    BY <1>0, <1>1 DEF Inside
  <2> QED  BY <1>1, <1>3, <1>4, <2>2, <2>3 DEF LeaseInv, Orderly
<1>6. CASE ReplaceConnection \/ \E r \in Routes : LeaseExpires(r)
  <2>1. UNCHANGED acquisition
    BY <1>1, <1>6 DEF acquisition, ReplaceConnection, LeaseExpires, brokerVars
  <2>2. ASSUME gaveUp = {} PROVE Fresh'
    <3>1. Fresh
      BY <2>2 DEF LeaseInv, Orderly
    <3>2. CASE ReplaceConnection
      BY <2>1, <3>1, <3>2 DEF Fresh, Live, Outstanding, ReplaceConnection, acquisition
    <3>3. CASE \E r \in Routes : LeaseExpires(r)
      <4>1. UNCHANGED <<conn, live>>
        BY <3>3 DEF LeaseExpires
      <4>2. UNCHANGED <<requests, pushes, bqueue, gate, callConn>>
        BY <2>1 DEF acquisition
      <4> QED  BY <3>1, <4>1, <4>2 DEF Fresh, Live, Outstanding
    <3> QED  BY <1>6, <3>2, <3>3
  <2> QED  BY <1>1, <1>3, <1>4, <2>1, <2>2, OutsideKeeps
<1> QED  BY <1>5, <1>6

LEMMA OtherAcquiresKeeps ==
    ASSUME LeaseInv, NEW r \in Routes, OtherAcquires(r)
    PROVE  LeaseInv'
<1> USE DEF connVars, handleVars, cbVars, acquireVars
<1>0. LeaseTyped
  BY DEF LeaseInv
<1>1. UNCHANGED <<acquisition, conn, live, pc, token, cb, authority, issued>>
  BY DEF OtherAcquires, Unasked, acquisition
<1>2. /\ holder' = [q \in Routes |-> holder'[q]]
      /\ \A q \in Routes : holder'[q] = holder[q] \/ holder'[q] = [owner |-> Other, token |-> 0]
  <2>1. holder = [q \in Routes |-> holder[q]]
    BY <1>0 DEF LeaseTyped
  <2> QED  BY <2>1 DEF OtherAcquires
<1>3. LeaseTyped'
  BY <1>0, <1>1, <1>2 DEF LeaseTyped, acquisition
<1>4. ASSUME gaveUp = {} PROVE Fresh' /\ HeldIsIssued' /\ \A c \in Callers : OwnToken(c)'
  <2>1. [owner |-> Other, token |-> 0].owner = Other
    BY SMTT(20), Z3T(20)
  <2>2. HeldIsIssued'
    BY <1>1, <1>2, <1>4, <2>1 DEF LeaseInv, Orderly, HeldIsIssued
  <2> QED
    BY <1>1, <1>4, <2>2
    DEF LeaseInv, Orderly, Fresh, Live, Outstanding, OwnToken, Route, Owner, acquisition
<1> QED  BY <1>1, <1>3, <1>4, OutsideKeeps

-----------------------------------------------------------------------------
(* The theorems                                                            *)

LEMMA LeaseStuttering == ASSUME LeaseInv, UNCHANGED vars PROVE LeaseInv'
<1> USE DEF vars, connVars, acquireVars, handleVars, cbVars, brokerVars
<1>1. LeaseTyped'
  BY DEF LeaseInv, LeaseTyped
<1>2. UNCHANGED acquisition
  BY DEF acquisition
<1>3. ASSUME gaveUp = {} PROVE Fresh' /\ HeldIsIssued' /\ \A c \in Callers : OwnToken(c)'
  BY <1>3 DEF LeaseInv, Orderly, Fresh, Live, Outstanding, HeldIsIssued, OwnToken, Mine, Route, Owner
<1> QED  BY <1>1, <1>2, <1>3, OutsideKeeps

\* Every reachable state of the lease clients and the broker satisfies
\* LeaseInv: acquireGate admits one Acquire, only that Acquire has a waiter for
\* handleDeferredAcquire, and as long as no context has ended between the
\* sending of an ACQUIRE and its last response on a session that lasts,
\* whatever the broker holds, queues or pushes is for it.
THEOREM LeaseInvariance == Spec => []LeaseInv
<1>1. Init => LeaseInv
  BY LeaseInitial
<1>2. LeaseInv /\ [Next]_vars => LeaseInv'
  <2> SUFFICES ASSUME LeaseInv, [Next]_vars PROVE LeaseInv'
    OBVIOUS
  <2>1. ASSUME NEW c \in Callers, Acquiring(c) PROVE LeaseInv'
    BY <2>1, EnterGateKeeps, GateAbortedKeeps, SendAcquireKeeps, GiveUpKeeps,
       AnswerReadKeeps, DeferredArrivesKeeps, MakeHandleKeeps DEF Acquiring
  <2>2. ASSUME NEW c \in Callers, Supervising(c) PROVE LeaseInv'
    BY <2>2, HandleSteps, ExtendAnsweredKeeps DEF Supervising
  <2>3. ASSUME NEW c \in Callers,
               \/ ContextEnds(c) \/ CallbackReturns(c) \/ ReadToken(c)
               \/ Extend(c) \/ Release(c)
        PROVE  LeaseInv'
    BY <2>3, HandleSteps
  <2>4. ASSUME NEW c \in Callers, BrokerAnswers(c) PROVE LeaseInv'
    BY <2>4, BrokerAnswersKeeps
  <2>5. ASSUME NEW r \in Routes, BrokerGrants(r) \/ LeaseExpires(r) \/ OtherAcquires(r)
        PROVE  LeaseInv'
    BY <2>5, BrokerGrantsKeeps, ConnectionKeeps, OtherAcquiresKeeps
  <2>6. CASE DeliverPush
    BY <2>6, DeliverPushKeeps
  <2>7. CASE ConnLost \/ ReplaceConnection
    BY <2>7, ConnectionKeeps
  <2>8. CASE UNCHANGED vars
    BY <2>8, LeaseStuttering
  <2> QED  BY <2>1, <2>2, <2>3, <2>4, <2>5, <2>6, <2>7, <2>8 DEF Next
<1> QED  BY <1>1, <1>2, PTL DEF Spec

\* TokenIsOwn for any number of callers, routes, connections and tokens: as long
\* as no Acquire has been given up while the broker still had its ACQUIRE, the
\* token Acquire puts in a handle, from the response or from a deferred grant,
\* and the authority WithLease gives its callback, are the broker's for that
\* route and owner, through lost sessions and another client's leases.
THEOREM TokensAreOwn == Spec => []TokenIsOwn
<1>1. LeaseInv => TokenIsOwn
  BY DEF LeaseInv, Orderly, TokenIsOwn
<1> QED  BY <1>1, LeaseInvariance, PTL
=============================================================================
