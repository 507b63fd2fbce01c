------------------------------ MODULE Observer ------------------------------
(***************************************************************************)
(* The lease inventory observer (internal/domains/lease/observer.go) on    *)
(* the lease subscriptions it uses (lease.go).                             *)
(*                                                                         *)
(* The observer keeps a view of the leases that match a pattern.  It       *)
(* subscribes, lists to completion, and lists again when a notification,   *)
(* a reconnect, an overflow of the handler queue or the periodic timer     *)
(* says so.  Listing is done under refreshMu by one of four goroutines:    *)
(* the caller of Observe, the recovery goroutine, the handler of a         *)
(* notification and the periodic run loop.                                 *)
(*                                                                         *)
(* The inventory is abstracted to a version, and a listing to the version  *)
(* at its first page.  The broker is external: it keeps one registration   *)
(* of the pattern per session.                                             *)
(***************************************************************************)
EXTENDS Integers, Sequences, FiniteSets

CONSTANTS
    MaxChanges,     \* bound: changes of the inventory
    MaxFaults,      \* bound: lost connections, overflows and failed requests
    MaxEvents,      \* bound: changes and faults together
    MaxSubs         \* bound: Subscription objects

ASSUME ObserverAssumption == {MaxChanges, MaxFaults, MaxEvents, MaxSubs} \subseteq Nat

Booters == {"observe", "recovery"}
Refreshers == {"handler", "run"}
Overflows == 1..MaxFaults

VARIABLES
    truth,          \* broker: version of the inventory
    wire,           \* broker: subscriptions registered in this session
    net,            \* notifications on their way, each for a subscription
    epoch, up,      \* the connection, and whether it is up
    faults,
    table,          \* c.subscriptions: the connection of each subID, or 0
    view, ready,
    osub,           \* o.sub, or 0
    bootstrapping, pendingInvalidation, reconcileRequested,
    refreshMu,      \* its holder, or "none"
    pass,           \* its listing: version, connection, and whether
                    \* subscriptionGeneration has changed since it began
    boot,           \* of each booter: where it is, its arguments and result
    jobs,           \* handlers that have not got refreshMu
    run,            \* the run loop
    overflow,       \* goroutines started by overflows
    restore,        \* RestoreSubscriptions
    recoveryRunning, recoveryRequested, recoveryNeedsSubscribe,
    life,           \* "starting", "failed", "open", "closing", "waiting", "closed"
    missed,         \* a restore passed the observer by
    failed          \* a relist failed since the view was last installed

inventoryVars == <<truth, wire, net>>
sessionVars == <<epoch, up, faults>>
viewVars == <<view, ready>>
flagVars == <<bootstrapping, pendingInvalidation, reconcileRequested>>
mutexVars == <<refreshMu, pass>>
taskVars == <<jobs, run>>
recoveryVars == <<recoveryRunning, recoveryRequested, recoveryNeedsSubscribe>>
history == <<missed, failed>>
observerVars == <<inventoryVars, sessionVars, table, viewVars, osub, flagVars, mutexVars,
          boot, taskVars, overflow, restore, recoveryVars, life, history>>

NoPass == [v |-> 0, e |-> 0, changed |-> FALSE]
Off == [at |-> "off", subscribe |-> FALSE, sub |-> 0, e |-> 0, ok |-> FALSE]

Idle == [at |-> "off", sub |-> 0]

\* Observe has made the observer and calls bootstrap(ctx, true).
ObserverInit ==
    /\ truth = 0 /\ wire = {} /\ net = << >>
    /\ epoch = 1 /\ up = TRUE /\ faults = 0
    /\ table = [s \in 1..MaxSubs |-> 0]
    /\ view = 0 /\ ready = FALSE /\ osub = 0
    /\ bootstrapping = FALSE /\ pendingInvalidation = FALSE
    /\ reconcileRequested = FALSE
    /\ refreshMu = "none" /\ pass = NoPass
    /\ boot = [b \in Booters |-> IF b = "observe"
                 THEN [Off EXCEPT !.at = "lock", !.subscribe = TRUE] ELSE Off]
    /\ jobs = 0 /\ run = "off"
    /\ overflow = [i \in Overflows |-> Idle]
    /\ restore = [at |-> "off", subs |-> {}]
    /\ recoveryRunning = FALSE /\ recoveryRequested = FALSE
    /\ recoveryNeedsSubscribe = FALSE
    /\ life = "starting"
    /\ missed = FALSE /\ failed = FALSE

Closing == life \in {"closing", "waiting", "closed", "failed"}
\* Once Close has begun, requests may fail at any time (their context has
\* ended), and no change, fault, notification or reconnect is added.
Fault ==
    /\ faults < MaxFaults /\ truth + faults < MaxEvents
    /\ ~Closing
    /\ faults' = faults + 1
Subscribed == {s \in 1..MaxSubs : table[s] # 0}
Without(s) == [t \in 1..MaxSubs |-> IF t = s THEN 0 ELSE table[t]]
Fresh == {s \in 1..MaxSubs :
    /\ s \notin Subscribed \cup wire \cup restore.subs \cup {osub}
    /\ s \notin {net[i] : i \in DOMAIN net} \cup {overflow[i].sub : i \in Overflows}
    /\ s \notin {boot[b].sub : b \in Booters}}
FreshSub == CHOOSE s \in Fresh : TRUE
Connected(e) == up /\ epoch = e

-----------------------------------------------------------------------------
(* The broker and the connection                                           *)

\* A lease is acquired, renewed, released or expires.
Change ==
    /\ truth < MaxChanges /\ truth + faults < MaxEvents
    /\ ~Closing
    /\ truth' = truth + 1
    /\ \E q \in {q \in [1..Cardinality(wire) -> wire] :
                    \A i, j \in DOMAIN q : i < j => q[i] < q[j]} :
          net' = net \o q
    /\ UNCHANGED <<wire, sessionVars, table, viewVars, osub, flagVars, mutexVars,
                   boot, taskVars, overflow, restore, recoveryVars, life, history>>

SessionLost ==
    /\ up
    /\ Fault
    /\ up' = FALSE
    /\ wire' = {} /\ net' = << >>
    /\ restore' = [at |-> "off", subs |-> {}]
    /\ UNCHANGED <<truth, epoch, table, viewVars, osub, flagVars, mutexVars,
                   boot, taskVars, overflow, recoveryVars, life, history>>

\* ReplaceConnection, and the snapshot RestoreSubscriptions takes.
SessionReplaced ==
    /\ ~up /\ ~Closing
    /\ up' = TRUE
    /\ epoch' = epoch + 1
    /\ restore' = [at |-> "subscribe", subs |-> Subscribed]
    /\ UNCHANGED <<inventoryVars, faults, table, viewVars, osub, flagVars,
                   mutexVars, boot, taskVars, overflow, recoveryVars, life, history>>

\* restoreSubscribe of every subscription of the snapshot.
RestoreSubscribe ==
    /\ restore.at = "subscribe"
    /\ wire' = wire \cup restore.subs
    /\ restore' = [restore EXCEPT !.at = "install"]
    /\ UNCHANGED <<truth, net, sessionVars, table, viewVars, osub, flagVars,
                   mutexVars, boot, taskVars, overflow, recoveryVars, life, history>>

\* The table is replaced, and the hooks registered by now are called.
RestoreInstall ==
    /\ restore.at = "install"
    /\ table' = [s \in 1..MaxSubs |-> IF s \in restore.subs THEN epoch ELSE 0]
    /\ restore' = [at |-> IF life = "open" THEN "unready" ELSE "off", subs |-> {}]
    /\ missed' = (missed \/ Subscribed \ restore.subs # {} \/ life = "starting")
    /\ UNCHANGED <<inventoryVars, sessionVars, viewVars, osub, flagVars, mutexVars,
                   boot, taskVars, overflow, recoveryVars, life, failed>>

-----------------------------------------------------------------------------
(* triggerBackgroundBootstrap, called by the reconnect hook (subscribe is   *)
(* false) and by an overflow goroutine (true): three critical sections.     *)

Unready == ready' = FALSE /\ UNCHANGED view

\* subscriptionGeneration++: a listing under way belongs to an older one.
NewGeneration == pass' = [pass EXCEPT !.changed = pass # NoPass]

Mark ==
    /\ bootstrapping' = TRUE
    /\ pendingInvalidation' = FALSE
    /\ reconcileRequested' = FALSE
    /\ NewGeneration

Request(subscribe) ==
    IF Closing
    THEN UNCHANGED <<recoveryVars, boot>>
    ELSE /\ recoveryRequested' = TRUE
         /\ recoveryNeedsSubscribe' = (recoveryNeedsSubscribe \/ subscribe)
         /\ recoveryRunning' = TRUE
         /\ boot' = IF recoveryRunning THEN boot
                    ELSE [boot EXCEPT !["recovery"] = [Off EXCEPT !.at = "loop"]]

OnReconnect ==
    /\ \/ /\ restore.at = "unready"
          /\ Unready
          /\ restore' = [restore EXCEPT !.at = "mark"]
          /\ UNCHANGED <<flagVars, pass, recoveryVars, boot>>
       \/ /\ restore.at = "mark"
          /\ Mark
          /\ restore' = [restore EXCEPT !.at = "request"]
          /\ UNCHANGED <<viewVars, recoveryVars, boot>>
       \/ /\ restore.at = "request"
          /\ Request(FALSE)
          /\ restore' = [restore EXCEPT !.at = "off"]
          /\ UNCHANGED <<viewVars, flagVars, pass>>
    /\ UNCHANGED <<inventoryVars, sessionVars, table, osub, refreshMu, taskVars,
                   overflow, life, history>>

Step(i, where) == overflow' = [overflow EXCEPT ![i].at = where]

\* The goroutine of an overflow: unsubscribe, then onOverflow.
OnOverflow(i) ==
    LET s == overflow[i].sub
    IN  /\ \/ /\ overflow[i].at = "unsubscribe"
              /\ table' = Without(s)
              /\ Step(i, IF s \in Subscribed THEN "wire" ELSE "unready")
              /\ UNCHANGED <<wire, viewVars, flagVars, pass, recoveryVars, boot>>
           \/ /\ overflow[i].at = "wire"
              /\ wire' = {}
              /\ Step(i, "unready")
              /\ UNCHANGED <<table, viewVars, flagVars, pass, recoveryVars, boot>>
           \/ /\ overflow[i].at = "unready"
              /\ Unready
              /\ Step(i, "mark")
              /\ UNCHANGED <<wire, table, flagVars, pass, recoveryVars, boot>>
           \/ /\ overflow[i].at = "mark"
              /\ Mark
              /\ Step(i, "request")
              /\ UNCHANGED <<wire, table, viewVars, recoveryVars, boot>>
           \/ /\ overflow[i].at = "request"
              /\ Request(TRUE)
              /\ overflow' = [overflow EXCEPT ![i] = Idle]
              /\ UNCHANGED <<wire, table, viewVars, flagVars, pass>>
        /\ UNCHANGED <<truth, net, sessionVars, osub, refreshMu, taskVars,
                       restore, life, history>>

-----------------------------------------------------------------------------
(* Notifications                                                           *)

\* Mutant: an invalidation during a bootstrap is not kept.
InvalidateSteady ==
    /\ reconcileRequested' = (reconcileRequested \/ ~bootstrapping)
    /\ UNCHANGED pendingInvalidation

\* invalidate, in the dispatch loop
Invalidate ==
    /\ pendingInvalidation' = (pendingInvalidation \/ bootstrapping)
    /\ reconcileRequested' = (reconcileRequested \/ ~bootstrapping)

\* handleNotify of the client: the handler is queued, or overflows.
Notify ==
    LET s == Head(net)
    IN  /\ net # << >> /\ ~Closing
        /\ net' = Tail(net)
        /\ IF table[s] = epoch
           THEN /\ Invalidate
                /\ \/ jobs' = jobs + 1 /\ UNCHANGED <<overflow, faults>>
                   \/ /\ Fault
                      /\ \E i \in Overflows :
                            /\ overflow[i] = Idle
                            /\ \A j \in 1..(i - 1) : overflow[j] # Idle
                            /\ overflow' = [overflow EXCEPT ![i] =
                                              [at |-> "unsubscribe", sub |-> s]]
                      /\ UNCHANGED jobs
           ELSE UNCHANGED <<pendingInvalidation, reconcileRequested, jobs,
                            overflow, faults>>
        /\ UNCHANGED <<truth, wire, epoch, up, table, viewVars, osub,
                       bootstrapping, mutexVars, boot, run,
                       restore, recoveryVars, life, history>>

\* handleNotify of the observer in a bootstrap window: nothing to do.
HandleNotify ==
    /\ jobs > 0
    /\ bootstrapping
    /\ jobs' = jobs - 1
    /\ UNCHANGED <<inventoryVars, sessionVars, table, viewVars, osub, flagVars,
                   mutexVars, boot, run, overflow, restore, recoveryVars, life,
                   history>>

-----------------------------------------------------------------------------
(* reconcileView, by the handlers and by the run loop                      *)

Listing == [v |-> truth, e |-> epoch, changed |-> FALSE]

Leaves(h) ==
    /\ refreshMu' = "none" /\ pass' = NoPass
    /\ run' = IF h = "run" THEN "timer" ELSE run

\* refreshMu is taken, and a listing is started when it is asked for.
ReconcileLock(h) ==
    /\ refreshMu = "none"
    /\ \/ h = "handler" /\ jobs > 0 /\ jobs' = jobs - 1
       \/ h = "run" /\ run = "lock" /\ UNCHANGED jobs
    /\ IF bootstrapping \/ ~reconcileRequested
       THEN Leaves(h) /\ UNCHANGED reconcileRequested
       ELSE /\ reconcileRequested' = FALSE
            /\ refreshMu' = h
            /\ pass' = Listing
            /\ run' = IF h = "run" THEN "list" ELSE run
    /\ UNCHANGED <<inventoryVars, sessionVars, table, viewVars, osub, bootstrapping,
                   pendingInvalidation, boot, overflow,
                   restore, recoveryVars, life, history>>

\* The listing was not overtaken by a bootstrap window or an invalidation.
StillCurrent == ~bootstrapping /\ ~reconcileRequested

ReconcileEnd(h) ==
    /\ refreshMu = h
    /\ Connected(pass.e)
    /\ \/ /\ bootstrapping /\ ~StillCurrent
          /\ Leaves(h)
          /\ UNCHANGED <<viewVars, reconcileRequested, failed>>
       \/ /\ ~bootstrapping /\ ~StillCurrent
          /\ reconcileRequested' = FALSE
          /\ pass' = Listing
          /\ UNCHANGED <<viewVars, refreshMu, run, failed>>
       \/ /\ StillCurrent
          /\ view' = pass.v /\ ready' = TRUE /\ failed' = FALSE
          /\ Leaves(h)
          /\ UNCHANGED reconcileRequested
    /\ UNCHANGED <<inventoryVars, sessionVars, table, osub, bootstrapping,
                   pendingInvalidation, boot, jobs,
                   overflow, restore, recoveryVars, life, missed>>

\* The LIST fails: the connection, a refusal, or the context of the observer.
ReconcileFails(h) ==
    /\ refreshMu = h
    /\ \/ ~Connected(pass.e) /\ UNCHANGED faults
       \/ h = "run" /\ Closing /\ UNCHANGED faults
       \/ Fault
    /\ Leaves(h)
    /\ failed' = TRUE
    /\ UNCHANGED <<inventoryVars, epoch, up, table, viewVars, osub, flagVars,
                   boot, jobs, overflow, restore, recoveryVars, life,
                   missed>>

\* Mutant: the timer alone does not ask for a listing.
TickOnly == UNCHANGED reconcileRequested

Tick == reconcileRequested' = TRUE

\* The periodic timer fires.  It is set anew for every wait, so o.closed is
\* never passed over for it.
RunTimer ==
    /\ run = "timer" /\ ~Closing
    /\ Tick
    /\ run' = "lock"
    /\ UNCHANGED <<inventoryVars, sessionVars, table, viewVars, osub, bootstrapping,
                   pendingInvalidation, mutexVars, boot, jobs,
                   overflow, restore, recoveryVars, life, history>>

Stopped == Closing

RunStops ==
    /\ run = "timer"
    /\ Stopped
    /\ run' = "off"
    /\ UNCHANGED <<inventoryVars, sessionVars, table, viewVars, osub, flagVars,
                   mutexVars, boot, jobs, overflow, restore,
                   recoveryVars, life, history>>

-----------------------------------------------------------------------------
(* bootstrap, by Observe and by the recovery goroutine                     *)

At(b, where) == boot' = [boot EXCEPT ![b].at = where]

BootLock(b) ==
    /\ boot[b].at = "lock"
    /\ refreshMu = "none"
    /\ refreshMu' = b
    /\ bootstrapping' = TRUE
    /\ pendingInvalidation' = (bootstrapping /\ pendingInvalidation)
    /\ At(b, IF boot[b].subscribe THEN "subscribe" ELSE "pass")
    /\ UNCHANGED <<inventoryVars, sessionVars, table, viewVars, osub,
                   reconcileRequested, pass, taskVars, overflow,
                   restore, recoveryVars, life, history>>

\* The broker accepts the SUBSCRIBE.
BootSubscribe(b) ==
    /\ boot[b].at = "subscribe"
    /\ up /\ Fresh # {}
    /\ wire' = wire \cup {FreshSub}
    /\ boot' = [boot EXCEPT ![b].at = "subscribed", ![b].sub = FreshSub,
                           ![b].e = epoch]
    /\ UNCHANGED <<truth, net, sessionVars, table, viewVars, osub, flagVars,
                   mutexVars, taskVars, overflow, restore, recoveryVars, life,
                   history>>

\* The subscription is entered into the table and becomes o.sub.
BootSubscribed(b) ==
    /\ boot[b].at = "subscribed"
    /\ table' = [table EXCEPT ![boot[b].sub] = boot[b].e]
    /\ osub' = boot[b].sub
    /\ missed' = (missed \/ boot[b].e # epoch)
    /\ At(b, "pass")
    /\ UNCHANGED <<inventoryVars, sessionVars, viewVars, bootstrapping,
                   pendingInvalidation, reconcileRequested, mutexVars, taskVars,
                   overflow, restore, recoveryVars, life, failed>>

BootPass(b) ==
    /\ boot[b].at = "pass"
    /\ up
    /\ pass' = Listing
    /\ At(b, "list")
    /\ UNCHANGED <<inventoryVars, sessionVars, table, viewVars, osub, flagVars,
                   refreshMu, taskVars, overflow, restore, recoveryVars, life,
                   history>>

Returns(b, success) ==
    /\ refreshMu' = "none" /\ pass' = NoPass
    /\ boot' = [boot EXCEPT ![b].at = "after", ![b].ok = success]

\* createdSub.Unsubscribe, when this bootstrap created one.
DropCreated(b) ==
    LET s == boot[b].sub
    IN  /\ table' = Without(s)
        /\ wire' = IF s \in Subscribed THEN {} ELSE wire

\* The listing is complete: it is discarded, repeated or installed.
BootEnd(b) ==
    /\ boot[b].at = "list"
    /\ Connected(pass.e)
    /\ \/ /\ pass.changed
          /\ DropCreated(b)
          /\ Returns(b, FALSE)
          /\ UNCHANGED <<viewVars, bootstrapping, pendingInvalidation, failed>>
       \/ /\ ~pass.changed /\ pendingInvalidation
          /\ pendingInvalidation' = FALSE
          /\ At(b, "pass")
          /\ UNCHANGED <<table, wire, viewVars, bootstrapping, mutexVars, failed>>
       \/ /\ ~pass.changed /\ ~pendingInvalidation
          /\ view' = pass.v /\ ready' = TRUE /\ failed' = FALSE
          /\ bootstrapping' = FALSE
          /\ Returns(b, TRUE)
          /\ UNCHANGED <<table, wire, pendingInvalidation>>
    /\ UNCHANGED <<truth, net, sessionVars, osub, reconcileRequested,
                   taskVars, overflow, restore, recoveryVars, life,
                   missed>>

\* The SUBSCRIBE or the LIST fails.
BootFails(b) ==
    /\ boot[b].at \in {"subscribe", "pass", "list"}
    /\ \/ (~up \/ (boot[b].at = "list" /\ ~Connected(pass.e))) /\ UNCHANGED faults
       \/ Closing /\ UNCHANGED faults
       \/ Fault
    /\ bootstrapping' = FALSE
    /\ DropCreated(b)
    /\ Returns(b, FALSE)
    /\ UNCHANGED <<truth, net, epoch, up, viewVars, osub,
                   pendingInvalidation, reconcileRequested,
                   taskVars, overflow, restore, recoveryVars, life, history>>

\* Observe registers its reconnect hook and starts the run loop, or fails.
ObserveReturns ==
    /\ boot["observe"].at = "after"
    /\ boot' = [boot EXCEPT !["observe"] = Off]
    /\ life' = IF boot["observe"].ok THEN "open" ELSE "failed"
    /\ run' = IF boot["observe"].ok THEN "timer" ELSE "off"
    /\ UNCHANGED <<inventoryVars, sessionVars, table, viewVars, osub, flagVars,
                   mutexVars, jobs, overflow, restore, recoveryVars,
                   history>>

\* The head of the recovery loop.
RecoveryLoop ==
    /\ boot["recovery"].at = "loop"
    /\ IF Closing
       THEN At("recovery", "off") /\ recoveryRunning' = FALSE
            /\ UNCHANGED <<recoveryRequested, recoveryNeedsSubscribe>>
       ELSE /\ boot' = [boot EXCEPT !["recovery"] =
                  [Off EXCEPT !.at = "lock", !.subscribe = recoveryNeedsSubscribe]]
            /\ recoveryRequested' = FALSE
            /\ recoveryNeedsSubscribe' = FALSE
            /\ UNCHANGED recoveryRunning
    /\ UNCHANGED <<inventoryVars, sessionVars, table, viewVars, osub, flagVars,
                   mutexVars, taskVars, overflow, restore, life, history>>

KeepsSubscribe(ok) ==
    recoveryNeedsSubscribe \/ (~ok /\ boot["recovery"].subscribe)

\* Its end: again after a failure or a new request.
RecoveryAfter ==
    LET ok == boot["recovery"].ok
        again == ~Closing /\ (recoveryRequested \/ ~ok)
    IN  /\ boot["recovery"].at = "after"
        /\ boot' = [boot EXCEPT !["recovery"] =
                      [Off EXCEPT !.at = IF again THEN "loop" ELSE "off"]]
        /\ recoveryRunning' = again
        /\ recoveryRequested' = (recoveryRequested \/ (again /\ ~ok))
        /\ recoveryNeedsSubscribe' = KeepsSubscribe(ok)
        /\ UNCHANGED <<inventoryVars, sessionVars, table, viewVars, osub, flagVars,
                       mutexVars, taskVars, overflow, restore, life, history>>

-----------------------------------------------------------------------------
(* Close                                                                   *)

CloseBegins ==
    /\ life = "open"
    /\ life' = "closing"
    /\ net' = << >>
    /\ UNCHANGED <<truth, wire, sessionVars, table, viewVars, osub, flagVars,
                   mutexVars, boot, taskVars, overflow, restore, recoveryVars,
                   history>>

CloseUnsubscribes ==
    /\ life = "closing"
    /\ table' = Without(osub)
    /\ wire' = IF osub \in Subscribed THEN {} ELSE wire
    /\ life' = "waiting"
    /\ UNCHANGED <<truth, net, sessionVars, viewVars, osub, flagVars,
                   mutexVars, boot, taskVars, overflow, restore, recoveryVars,
                   history>>

\* wg.Wait returns.
CloseReturns ==
    /\ life = "waiting"
    /\ boot["recovery"].at = "off" /\ run = "off"
    /\ life' = "closed"
    /\ UNCHANGED <<inventoryVars, sessionVars, table, viewVars, osub, flagVars,
                   mutexVars, boot, taskVars, overflow, restore, recoveryVars,
                   history>>

-----------------------------------------------------------------------------
\* What is left running once Observe has failed or Close has returned is not
\* followed.
Followed == life \notin {"failed", "closed"}

Boot(b) == Followed /\ (\/ BootLock(b) \/ BootSubscribe(b) \/ BootSubscribed(b)
                        \/ BootPass(b) \/ BootEnd(b) \/ BootFails(b))
Restore == Followed /\ (\/ SessionReplaced \/ RestoreSubscribe
                        \/ RestoreInstall \/ OnReconnect)
Overflown(i) == Followed /\ OnOverflow(i)
Handle == Followed /\ (Notify \/ HandleNotify)
Reconcile(h) == Followed /\ (\/ ReconcileLock(h) \/ ReconcileEnd(h)
                             \/ ReconcileFails(h))
Recovery == Followed /\ (RecoveryLoop \/ RecoveryAfter)
Close == CloseUnsubscribes \/ CloseReturns

ObserverNext ==
    \/ Change
    \/ SessionLost
    \/ CloseBegins \/ Close
    \/ ObserveReturns \/ RunTimer \/ RunStops
    \/ Restore \/ Handle \/ Recovery
    \/ \E i \in Overflows : Overflown(i)
    \/ \E h \in Refreshers : Reconcile(h)
    \/ \E b \in Booters : Boot(b)

\* Goroutines run, timers fire, a lost connection is replaced, and a LIST or
\* SUBSCRIBE ends, by an answer or with its connection: an assumption, since the
\* observer's background context has no deadline.  Strong fairness: a mutex that
\* is free again and again is got.  The steps under one condition do not hold
\* each other up: all but one kind are finitely many.
ObserverFairness ==
    /\ WF_observerVars(\/ Restore \/ Handle \/ Close \/ ObserveReturns
               \/ \E i \in Overflows : Overflown(i))
    /\ WF_observerVars(Recovery)
    /\ WF_observerVars(RunTimer) /\ WF_observerVars(RunStops)
    /\ SF_observerVars(\E h \in Refreshers : Reconcile(h))
    /\ SF_observerVars(\E b \in Booters : Boot(b))

ObserverSpec == ObserverInit /\ [][ObserverNext]_observerVars

ObserverFairSpec == ObserverSpec /\ ObserverFairness

-----------------------------------------------------------------------------

\* A relist is under way, asked for, or about to be asked for.
Recovering ==
    \/ bootstrapping
    \/ reconcileRequested
    \/ recoveryRunning
    \/ \E i \in Overflows : overflow[i].at # "off"
    \/ restore.at # "off" \/ ~up

\* A view that is shown as ready is current, or something that will correct it
\* is on its way: a notification in the network, a request for a relist or a
\* running recovery.  Left out are a relist that failed, which the periodic
\* timer repeats, and a restore that passed the observer by (it replaced the
\* table under a new subscription, or came before the hook was registered).
StaleIsCovered ==
    ready /\ view < truth /\ ~Closing /\ ~missed /\ ~failed =>
        \/ Recovering
        \/ \E i \in DOMAIN net : table[net[i]] = epoch
        \/ refreshMu \in Refreshers /\ pass.v > view

\* The view catches up with the inventory and is shown as ready, unless the
\* observer is closed or was never established, provided that the requests of a
\* relist end.
CatchesUp == []<>(Closing \/ (ready /\ view = truth))

=============================================================================
