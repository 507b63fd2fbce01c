------------------------ MODULE SubscriptionRegistry ------------------------
(***************************************************************************)
(* The registry that lets local handlers share wire subscriptions          *)
(* (internal/core/subscriptions/registry.go), driven by goroutines that    *)
(* subscribe and unsubscribe as the domain clients do, over broker         *)
(* sessions that end and are replaced: by the reconnect loop, which then   *)
(* runs Restore, or by a Connect of the application, which does not.       *)
(*                                                                         *)
(* KV, queue, stream and schedule unsubscribe by pattern; notice by the    *)
(* identifier kept in the handle, under its operations lock.  The broker   *)
(* is external: in a session it gives each subscribed pattern an           *)
(* identifier no other pattern has there.                                  *)
(***************************************************************************)
EXTENDS Integers, FiniteSets, Functions

CONSTANTS
    Callers,        \* goroutines that use the domain client
    Patterns,
    SubIds,         \* bound: identifiers the broker may give out
    Modes,          \* values of <<notice, reuse>> to choose from
    MaxHandlers,    \* bound: handlers registered over the registry's life
    MaxSessions,    \* bound: sessions
    None

Restorer == 0   \* the reconnect loop, as holder of the operations lock

ASSUME RegistryAssumption ==
    /\ {MaxHandlers, MaxSessions} \subseteq Nat
    /\ Modes \subseteq BOOLEAN \X BOOLEAN
    /\ None \notin Callers \cup Patterns \cup SubIds
    /\ Restorer \notin Callers \cup {None}

VARIABLES
    subID,          \* entry.subID of each pattern; None: not in byPattern
    handlers,       \* entry.handlers: handler identifiers
    bySubID,        \* the pattern of each identifier, or None
    pending,        \* patterns whose SUBSCRIBE is in flight
    restoring,
    nextHandlerID,
    completed,      \* handlers whose Completion was completed
    operations,     \* holder of the notice client's operations lock
    pc, pat,        \* of each caller: where it is, its pattern
    handle,         \* its handler identifier and the handle's subID
    reply,          \* the response it has received: an identifier or None
    rpc,            \* where Restore is
    todo, restored, \* entries left, and the identifiers got for the others
    session,        \* number of the current broker session
    sent,           \* the session each caller sent its request in
    wire,           \* broker: identifier of each pattern in this session
    spent,          \* broker: identifiers that may not come again
    forgotten,      \* entries may be unknown to the broker, and no Restore has
                    \* begun since
    reuse,          \* broker: identifiers of an ended session come again
    notice          \* the notice client: operations lock, unsubscribe by id

tables == <<subID, handlers, bySubID, nextHandlerID, completed>>
restoreVars == <<rpc, todo, restored>>
broker == <<session, wire, spent, forgotten>>
callers == <<pc, pat, handle, reply, sent>>
modes == <<reuse, notice>>  \* chosen once
vars == <<tables, pending, restoring, operations, callers, restoreVars, broker,
          modes>>

Init ==
    /\ subID = [p \in Patterns |-> None]
    /\ handlers = [p \in Patterns |-> {}]
    /\ bySubID = [s \in SubIds |-> None]
    /\ pending = {}
    /\ restoring = FALSE
    /\ nextHandlerID = 0
    /\ completed = {}
    /\ operations = None
    /\ pc = [c \in Callers |-> "idle"]
    /\ pat = [c \in Callers |-> None]
    /\ handle = [c \in Callers |-> [handler |-> 0, sub |-> None]]
    /\ reply = [c \in Callers |-> None]
    /\ sent = [c \in Callers |-> 0]
    /\ rpc = "idle"
    /\ todo = {}
    /\ restored = [p \in Patterns |-> None]
    /\ session = 1
    /\ wire = [p \in Patterns |-> None]
    /\ spent = {}
    /\ forgotten = FALSE
    /\ \E m \in Modes : notice = m[1] /\ reuse = m[2]

Registered == {p \in Patterns : subID[p] # None}

\* Mutant: the notice client takes no lock.
EnterFreely(who) == UNCHANGED operations

\* The notice client holds its operations lock over a whole operation.
Enter(who) ==
    IF notice THEN operations = None /\ operations' = who
              ELSE UNCHANGED operations
Leave == operations' = None

-----------------------------------------------------------------------------
(* The broker (external)                                                   *)

\* Identifiers it may give to a pattern: the one it has, or an unused one.
Offered(p) ==
    IF wire[p] # None
    THEN {wire[p]}
    ELSE SubIds \ (IF reuse THEN Range(wire) ELSE spent)

Given(p, s) ==
    /\ wire' = [wire EXCEPT ![p] = s]
    /\ spent' = IF reuse THEN spent ELSE spent \cup {s}
    /\ UNCHANGED <<session, forgotten>>

-----------------------------------------------------------------------------
(* Subscribe                                                               *)

InSubscribe == {"lock", "waiting", "subscribing", "register"}

SubscribeCalled(c, p) ==
    /\ pc[c] = "idle"
    /\ nextHandlerID + Cardinality({d \in Callers : pc[d] \in InSubscribe})
          < MaxHandlers
    /\ Enter(c)
    /\ pc' = [pc EXCEPT ![c] = "lock"]
    /\ pat' = [pat EXCEPT ![c] = p]
    /\ UNCHANGED <<tables, pending, restoring, handle, reply, sent, restoreVars,
                   broker>>

\* A new handler of the caller in the entry of its pattern, beside others.
AddHandler(c, s, others) ==
    /\ nextHandlerID' = nextHandlerID + 1
    /\ handlers' = [handlers EXCEPT ![pat[c]] = others \cup {nextHandlerID + 1}]
    /\ handle' = [handle EXCEPT ![c] = [handler |-> nextHandlerID + 1, sub |-> s]]

\* The pattern is registered: share its wire subscription.
SubscribeShares(c) ==
    /\ pc[c] = "lock"
    /\ ~restoring
    /\ pat[c] \in Registered
    /\ AddHandler(c, subID[pat[c]], handlers[pat[c]])
    /\ pc' = [pc EXCEPT ![c] = "held"]
    /\ Leave
    /\ UNCHANGED <<subID, bySubID, completed, pending, restoring, pat, reply,
                   sent, restoreVars, broker>>

\* Is a SUBSCRIBE for the pattern in flight?
InFlight(p) == p \in pending

SubscribeWaits(c) ==
    /\ pc[c] = "lock"
    /\ ~restoring
    /\ pat[c] \notin Registered
    /\ InFlight(pat[c])
    /\ pc' = [pc EXCEPT ![c] = "waiting"]
    /\ UNCHANGED <<tables, pending, restoring, operations, pat, handle, reply,
                   sent, restoreVars, broker>>

SubscribeSends(c) ==
    /\ pc[c] = "lock"
    /\ ~restoring
    /\ pat[c] \notin Registered
    /\ ~InFlight(pat[c])
    /\ pending' = pending \cup {pat[c]}
    /\ sent' = [sent EXCEPT ![c] = session]
    /\ pc' = [pc EXCEPT ![c] = "subscribing"]
    /\ UNCHANGED <<tables, restoring, operations, pat, handle, reply,
                   restoreVars, broker>>

\* The broker accepts, if the session still exists; its response arrives, or is
\* lost with the caller's context.
SubscribeAccepted(c) ==
    /\ pc[c] = "subscribing"
    /\ sent[c] = session
    /\ rpc # "failed"
    /\ \E s \in Offered(pat[c]) :
          /\ Given(pat[c], s)
          /\ \E r \in {s, None} : reply' = [reply EXCEPT ![c] = r]
    /\ pc' = [pc EXCEPT ![c] = "register"]
    /\ UNCHANGED <<tables, pending, restoring, operations, pat, handle, sent,
                   restoreVars>>

SubscribeRefused(c) ==
    /\ pc[c] = "subscribing"
    /\ reply' = [reply EXCEPT ![c] = None]
    /\ pc' = [pc EXCEPT ![c] = "register"]
    /\ UNCHANGED <<tables, pending, restoring, operations, pat, handle, sent,
                   restoreVars, broker>>

\* Mutant: only a successful SUBSCRIBE wakes those that wait for it.
SettledOnSuccess(c) ==
    IF reply[c] = None THEN pending ELSE pending \ {pat[c]}

\* delete(r.pending, pattern)
Settled(c) == pending \ {pat[c]}

\* The request failed, or its identifier is taken.
SubscribeFails(s) == IF s = None THEN TRUE ELSE bySubID[s] # None

\* Close the pending channel, which wakes everybody that waits for it; register
\* the entry unless the request failed.
SubscribeRegisters(c) ==
    LET p == pat[c]
        s == reply[c]
        fails == SubscribeFails(s)
    IN
    /\ pc[c] = "register"
    /\ pending' = Settled(c)
    /\ pc' = [d \in Callers |->
                IF d = c THEN (IF fails THEN "idle" ELSE "held")
                ELSE IF pc[d] = "waiting" /\ pat[d] = p /\ p \notin Settled(c)
                THEN "lock" ELSE pc[d]]
    /\ IF fails
       THEN UNCHANGED tables /\ UNCHANGED handle
       ELSE /\ subID' = [subID EXCEPT ![p] = s]
            /\ bySubID' = [bySubID EXCEPT ![s] = p]
            /\ AddHandler(c, s, {})
            /\ UNCHANGED completed
    /\ reply' = [reply EXCEPT ![c] = None]
    /\ sent' = [sent EXCEPT ![c] = 0]
    /\ Leave
    /\ UNCHANGED <<restoring, pat, restoreVars, broker>>

-----------------------------------------------------------------------------
(* Unsubscribe, and the wire request of the domain client                  *)

UnsubscribeCalled(c) ==
    /\ pc[c] = "held"
    /\ Enter(c)
    /\ pc' = [pc EXCEPT ![c] = "remove"]
    /\ UNCHANGED <<tables, pending, restoring, pat, handle, reply, sent,
                   restoreVars, broker>>

\* handler.Completion.Complete(nil)
CompletedBy(p, h) == completed \cup {h}

\* Remove the handler; with the last one the entry goes, and the wire
\* subscription is to be given up.
UnsubscribeRemoves(c) ==
    LET p == pat[c]
        h == handle[c].handler
        exists == h \in handlers[p]
        last == exists /\ handlers[p] = {h}
    IN
    /\ pc[c] = "remove"
    /\ ~restoring
    /\ completed' = IF exists THEN CompletedBy(p, h) ELSE completed
    /\ handlers' = [handlers EXCEPT ![p] = @ \ {h}]
    /\ subID' = [subID EXCEPT ![p] = IF last THEN None ELSE @]
    /\ bySubID' = [s \in SubIds |->
                      IF last /\ s = subID[p] THEN None ELSE bySubID[s]]
    /\ pc' = [pc EXCEPT ![c] = IF last THEN "unwire" ELSE "idle"]
    /\ IF last THEN UNCHANGED operations ELSE Leave
    /\ UNCHANGED <<nextHandlerID, pending, restoring, pat, handle, reply, sent,
                   restoreVars, broker>>

\* UNSUBSCRIBE on the connection of the moment: by pattern, or by the handle's
\* identifier for notice.
UnsubscribeSent(c) ==
    LET hit == IF notice THEN {p \in Patterns : wire[p] = handle[c].sub}
                         ELSE {pat[c]}
    IN
    /\ pc[c] = "unwire"
    /\ wire' = [p \in Patterns |-> IF p \in hit THEN None ELSE wire[p]]
    /\ pc' = [pc EXCEPT ![c] = "idle"]
    /\ Leave
    /\ UNCHANGED <<tables, pending, restoring, pat, handle, reply, sent,
                   restoreVars, session, spent, forgotten>>

\* The request fails; the error is ignored.
UnsubscribeLost(c) ==
    /\ pc[c] = "unwire"
    /\ pc' = [pc EXCEPT ![c] = "idle"]
    /\ Leave
    /\ UNCHANGED <<tables, pending, restoring, pat, handle, reply, sent,
                   restoreVars, broker>>

\* notice.UnsubscribeAll: the broker drops everything.
UnsubscribeAllSent(c) ==
    /\ notice
    /\ pc[c] = "idle"
    /\ Enter(c)
    /\ wire' = [p \in Patterns |-> None]
    /\ forgotten' = TRUE
    /\ pc' = [pc EXCEPT ![c] = "clear"]
    /\ UNCHANGED <<tables, pending, restoring, pat, handle, reply, sent,
                   restoreVars, session, spent>>

\* Its response is lost or malformed: UnsubscribeAll returns the error, and the
\* entries stay.
UnsubscribeAllFails(c) ==
    /\ pc[c] = "clear"
    /\ pc' = [pc EXCEPT ![c] = "idle"]
    /\ Leave
    /\ UNCHANGED <<tables, pending, restoring, pat, handle, reply, sent,
                   restoreVars, broker>>

\* The broker has acknowledged: the entries go as well.
Clear(c) ==
    /\ pc[c] = "clear"
    /\ ~restoring
    /\ completed' = completed \cup UNION Range(handlers)
    /\ handlers' = [p \in Patterns |-> {}]
    /\ subID' = [p \in Patterns |-> None]
    /\ bySubID' = [s \in SubIds |-> None]
    /\ forgotten' = FALSE
    /\ pc' = [pc EXCEPT ![c] = "idle"]
    /\ Leave
    /\ UNCHANGED <<nextHandlerID, pending, restoring, pat, handle, reply, sent,
                   restoreVars, session, wire, spent>>

-----------------------------------------------------------------------------
(* A new session, and Restore                                              *)

\* The reconnect loop attaches a connection, after the last one was lost or a
\* restore failed (the client then closes the connection); a Restore follows.
SessionReplaced ==
    /\ session < MaxSessions
    /\ rpc \in {"idle", "failed"}
    /\ session' = session + 1
    /\ wire' = [p \in Patterns |-> None]
    /\ rpc' = "lock"
    /\ UNCHANGED <<tables, pending, restoring, operations, callers, todo,
                   restored, spent, forgotten>>

\* Connect attaches one, whatever the reconnect loop is doing, after the
\* connection was lost; nothing is restored.
SessionAttached ==
    /\ session < MaxSessions
    /\ session' = session + 1
    /\ wire' = [p \in Patterns |-> None]
    /\ forgotten' = TRUE
    /\ rpc' = IF rpc = "failed" THEN "idle" ELSE rpc
    /\ UNCHANGED <<tables, pending, restoring, operations, callers, todo,
                   restored, spent>>

\* Mutant: Restore does not wait for the SUBSCRIBEs in flight.
ReadyAtOnce == TRUE

\* The condition Restore waits for; there is one Restore at a time.
Ready == pending = {}

RestoreBegins ==
    /\ rpc = "lock"
    /\ Ready
    /\ IF Registered = {}
       THEN /\ notice => operations = None
            /\ rpc' = "idle"
            /\ UNCHANGED <<restoring, operations, todo, restored>>
       ELSE /\ Enter(Restorer)
            /\ restoring' = TRUE
            /\ todo' = Registered
            /\ restored' = [p \in Patterns |-> None]
            /\ rpc' = "send"
    /\ forgotten' = FALSE
    /\ UNCHANGED <<tables, pending, callers, session, wire, spent>>

RestoreSubscribes(p) ==
    /\ rpc = "send"
    /\ p \in todo
    /\ \E s \in Offered(p) \ Range(restored) :
          Given(p, s) /\ restored' = [restored EXCEPT ![p] = s]
    /\ todo' = todo \ {p}
    /\ UNCHANGED <<tables, pending, restoring, operations, callers, rpc>>

\* A SUBSCRIBE fails (None), or gives an identifier that another entry has got
\* already (its pattern was unsubscribed meanwhile): the UNSUBSCRIBEs of
\* rollbackRestore reach the broker or fail, the tables keep the identifiers of
\* the old session.
RestoreRollsBack ==
    /\ rpc = "send"
    /\ \E p \in todo :
       \E s \in {None} \cup (Offered(p) \cap Range(restored)) :
          LET got == IF s = None THEN wire ELSE [wire EXCEPT ![p] = s]
              undo == {q \in Patterns : restored[q] # None \/ (q = p /\ s # None)}
          IN  \E gone \in SUBSET undo :
                 wire' = [q \in Patterns |-> IF q \in gone THEN None ELSE got[q]]
    /\ restoring' = FALSE
    /\ todo' = {}
    /\ restored' = [q \in Patterns |-> None]
    /\ rpc' = "failed"
    /\ Leave
    /\ UNCHANGED <<tables, pending, callers, session, spent, forgotten>>

\* All entries get their new identifiers, and the new table replaces the old.
RestoreInstalls ==
    /\ rpc = "send"
    /\ todo = {}
    /\ subID' = [p \in Patterns |->
                    IF restored[p] # None THEN restored[p] ELSE subID[p]]
    /\ bySubID' = [s \in SubIds |->
                      IF s \in Range(restored)
                      THEN CHOOSE p \in Patterns : restored[p] = s
                      ELSE None]
    /\ restored' = [p \in Patterns |-> None]
    /\ restoring' = FALSE
    /\ rpc' = "idle"
    /\ Leave
    /\ UNCHANGED <<handlers, nextHandlerID, completed, pending, callers, todo,
                   broker>>

-----------------------------------------------------------------------------
SubscribeStep(c) ==
    \/ SubscribeShares(c) \/ SubscribeWaits(c) \/ SubscribeSends(c)
    \/ SubscribeAccepted(c) \/ SubscribeRefused(c) \/ SubscribeRegisters(c)

UnsubscribeStep(c) ==
    \/ UnsubscribeRemoves(c) \/ UnsubscribeSent(c) \/ UnsubscribeLost(c)
    \/ UnsubscribeAllFails(c) \/ Clear(c)

RestoreStep ==
    \/ RestoreBegins \/ RestoreRollsBack \/ RestoreInstalls
    \/ \E p \in Patterns : RestoreSubscribes(p)

Step ==
    \/ \E c \in Callers :
          \/ \E p \in Patterns : SubscribeCalled(c, p)
          \/ SubscribeStep(c)
          \/ UnsubscribeCalled(c) \/ UnsubscribeAllSent(c) \/ UnsubscribeStep(c)
    \/ SessionReplaced \/ SessionAttached \/ RestoreStep

Next == Step /\ UNCHANGED modes

Spec == Init /\ [][Next]_vars

\* Goroutines run, and a SUBSCRIBE or UNSUBSCRIBE ends: it is answered, or its
\* context or connection ends.  That is an assumption about the broker and the
\* caller, since the code sets no deadline for it.  Strong fairness is that of
\* sync.Mutex: a goroutine woken from its wait gets the lock before the
\* same others have taken it for ever.
Fairness ==
    /\ \A c \in Callers :
          /\ WF_vars(SubscribeStep(c) /\ UNCHANGED modes)
          /\ SF_vars((SubscribeShares(c) \/ SubscribeSends(c)) /\ UNCHANGED modes)
          /\ WF_vars(UnsubscribeStep(c) /\ UNCHANGED modes)
    /\ WF_vars(RestoreStep /\ UNCHANGED modes)

FairSpec == Spec /\ Fairness

-----------------------------------------------------------------------------

\* byPattern and bySubID always describe the same entries, also after a
\* Restore that raced with subscriptions: otherwise notifications of a
\* registered pattern find no handler.
TablesAgree ==
    \A p \in Patterns, s \in SubIds : (bySubID[s] = p) <=> (subID[p] = s)

\* Every registered pattern is subscribed in the broker's current session under
\* the identifier the registry has for it.
Wired == \A p \in Registered : wire[p] = subID[p]

\* Nobody is in the middle of an operation.
Quiet == rpc = "idle" /\ \A c \in Callers : pc[c] \in {"idle", "held"}

\* With the operations lock of the notice client, and a broker that does not
\* reuse identifiers, handlers that look active do get notifications whenever
\* nothing is in progress, whatever was interleaved or lost before, except from
\* an UnsubscribeAll whose response was lost (notice.go:223), or a session that
\* Connect attached (client.go:451), to the next Restore or acknowledged
\* UnsubscribeAll.
ActiveIsWired == notice /\ ~reuse /\ Quiet /\ ~forgotten => Wired

\* Every Subscribe returns, also when the one it waits for fails, provided that
\* each SUBSCRIBE on the wire ends.
SubscribeReturns ==
    \A c \in Callers : (pc[c] \in InSubscribe) ~> (pc[c] \notin InSubscribe)
=============================================================================
