-------------------------- MODULE ClientLifecycle ---------------------------
(***************************************************************************)
(* The life of a client across connections (internal/core/client/          *)
(* client.go): Connect, Close, the goroutine that monitors each connection *)
(* and, when that connection is lost, runs the reconnect loop.             *)
(*                                                                         *)
(* The goroutines are the users that call Connect and one monitor per      *)
(* connection, named by the connection it was started for.  A connection   *)
(* is live until its dispatch loop has exited (Requests describes what     *)
(* happens inside).  Dialing, the broker and restoring the subscriptions   *)
(* of the domains are external: they succeed or fail.                      *)
(***************************************************************************)
EXTENDS Integers, FiniteSets

CONSTANTS
    Users,              \* goroutines that call Connect
    Conns,              \* bound: connections dialed over the client's life
    MaxConnects,        \* bound: calls of Connect that dial
    ReconnectEnabled,   \* Config.ReconnectEnabled
    Unlimited,          \* MaxReconnects = 0 and ReconnectTimeout = 0
    Nil                \* the nil connection, no lock holder

ASSUME ClientLifecycleAssumption ==
    /\ MaxConnects \in Nat
    /\ {ReconnectEnabled, Unlimited} \subseteq BOOLEAN
    /\ Nil \notin Users \cup Conns
    /\ Users \cap Conns = {}

Procs == Users \cup Conns

VARIABLES
    stage,             \* where each user and each monitor is
    fresh,          \* the connection it has dialed
    status,         \* of each connection: "unused", "live" or "dead"
    conn,           \* c.conn
    domains,        \* the connection the domain clients are bound to
    closed,         \* c.closed, and c.lifecycleCtx done
    closer,         \* the goroutine that runs Close
    mu,             \* holder of c.mu
    connectMu,      \* holder of c.connectMu
    reconnecting,   \* c.reconnecting
    connects,       \* calls of Connect that dialed
    exhausted       \* a loop gave up: version mismatch or its limits

locks == <<mu, connectMu>>
clientVars == <<stage, fresh, status, conn, domains, closed, closer, locks,
                reconnecting, connects, exhausted>>

ClientInit ==
    /\ stage = [p \in Procs |-> IF p \in Users THEN "idle" ELSE "none"]
    /\ fresh = [p \in Procs |-> Nil]
    /\ status = [k \in Conns |-> "unused"]
    /\ conn = Nil
    /\ domains = Nil
    /\ closed = FALSE
    /\ closer = "idle"
    /\ mu = Nil
    /\ connectMu = Nil
    /\ reconnecting = FALSE
    /\ connects = 0
    /\ exhausted = FALSE

Go(p, where) == stage' = [stage EXCEPT ![p] = where]

-----------------------------------------------------------------------------
(* Connect and dialConnection                                              *)

\* Connect goes on to dial; otherwise it returns at once and changes nothing.
Connect(u) ==
    /\ stage[u] = "idle"
    /\ connectMu = Nil
    /\ ~closed
    /\ conn = Nil
    /\ connects < MaxConnects
    /\ connects' = connects + 1
    /\ connectMu' = u
    /\ Go(u, "dial")
    /\ UNCHANGED <<fresh, status, conn, domains, closed, closer, mu,
                   reconnecting, exhausted>>

\* A goroutine is done with attaching, without success: Connect returns the
\* error, the reconnect loop returns.
GiveUp(p) ==
    /\ fresh' = [fresh EXCEPT ![p] = Nil]
    /\ IF p \in Users
       THEN Go(p, "idle") /\ connectMu' = Nil
       ELSE Go(p, "finish") /\ UNCHANGED connectMu

DialSucceeds(p) ==
    /\ stage[p] = "dial"
    /\ \E k \in Conns :
          /\ status[k] = "unused"
          /\ status' = [status EXCEPT ![k] = "live"]
          /\ fresh' = [fresh EXCEPT ![p] = k]
    /\ Go(p, "attach")
    /\ UNCHANGED <<conn, domains, closed, closer, locks, reconnecting, connects,
                   exhausted>>

\* Connect returns the error; the loop waits, or stops on a version mismatch.
DialFails(p) ==
    /\ stage[p] = "dial"
    /\ \/ p \in Users /\ GiveUp(p) /\ UNCHANGED exhausted
       \/ /\ p \in Conns
          /\ Go(p, "backoff")
          /\ UNCHANGED <<fresh, connectMu, exhausted>>
       \/ p \in Conns /\ GiveUp(p) /\ exhausted' = TRUE
    /\ UNCHANGED <<status, conn, domains, closed, closer, mu, reconnecting,
                   connects>>

-----------------------------------------------------------------------------
(* attachConnection                                                        *)

\* Mutant: a connection that cannot be attached is dropped.
Dropped(p) == UNCHANGED status

\* conn.Close() on the connection p has dialed.
Discarded(p) == status' = [status EXCEPT ![fresh[p]] = "dead"]

\* c.mu.Lock and the check of c.closed.
AttachChecks(p) ==
    /\ stage[p] = "attach"
    /\ mu = Nil
    /\ IF closed
       THEN Discarded(p) /\ GiveUp(p) /\ UNCHANGED mu
       ELSE mu' = p /\ Go(p, "store") /\ UNCHANGED <<status, fresh, connectMu>>
    /\ UNCHANGED <<conn, domains, closed, closer, reconnecting, connects,
                   exhausted>>

\* c.mu.Unlock on each path out of attachConnection.
Unlocked(p) == Nil

\* c.conn.Store: Connect does not replace a connection, the loop does.
AttachStores(p) ==
    /\ stage[p] = "store"
    /\ mu' = Unlocked(p)
    /\ IF p \in Users /\ conn # Nil
       THEN Discarded(p) /\ GiveUp(p) /\ UNCHANGED conn
       ELSE /\ conn' = fresh[p]
            /\ Go(p, "bind")
            /\ UNCHANGED <<status, fresh, connectMu>>
    /\ UNCHANGED <<domains, closed, closer, reconnecting, connects, exhausted>>

\* replaceDomainConnections
Binding(p) == fresh[p]

\* go c.monitorConnection(conn)
MonitorStart(p) == "watch"

\* Connect is done; the loop goes on to restore the subscriptions.
AttachBinds(p) ==
    /\ stage[p] = "bind"
    /\ domains' = Binding(p)
    /\ stage' = [stage EXCEPT ![fresh[p]] = MonitorStart(p),
                        ![p] = IF p \in Users THEN "idle" ELSE "restore"]
    /\ IF p \in Users
       THEN connectMu' = Nil /\ fresh' = [fresh EXCEPT ![p] = Nil]
       ELSE UNCHANGED <<connectMu, fresh>>
    /\ UNCHANGED <<status, conn, closed, closer, mu, reconnecting, connects,
                   exhausted>>

-----------------------------------------------------------------------------
(* monitorConnection                                                       *)

\* <-conn.Done(), and is it still the current connection?
MonitorWakes(k) ==
    /\ stage[k] = "watch"
    /\ status[k] = "dead"
    /\ Go(k, IF conn = k THEN "clear" ELSE "ended")
    /\ UNCHANGED <<fresh, status, conn, domains, closed, closer, locks,
                   reconnecting, connects, exhausted>>

\* CompareAndSwap(conn, nil), whose result is ignored.
MonitorClears(k) ==
    /\ stage[k] = "clear"
    /\ conn' = IF conn = k THEN Nil ELSE conn
    /\ Go(k, IF closed \/ ~ReconnectEnabled THEN "ended" ELSE "begin")
    /\ UNCHANGED <<fresh, status, domains, closed, closer, locks, reconnecting,
                   connects, exhausted>>

-----------------------------------------------------------------------------
(* beginReconnect, run by the monitor of the lost connection               *)

\* Mutant: the flag is not looked at.
MayBeginAlways == ~closed

\* The check under reconnectMu.
MayBegin == ~reconnecting /\ ~closed

BeginReconnect(k) ==
    /\ stage[k] = "begin"
    /\ IF MayBegin
       THEN reconnecting' = TRUE /\ Go(k, "loop")
       ELSE Go(k, "ended") /\ UNCHANGED reconnecting
    /\ UNCHANGED <<fresh, status, conn, domains, closed, closer, locks, connects,
                   exhausted>>

\* Mutant: the loop does not look at c.closed and the lifecycle context.
Persistent == FALSE

\* c.closed, reconnectCtx.Done()
Stopped == closed

\* The top of the loop: it may have used up its attempts or its time.
LoopTurns(k) ==
    /\ stage[k] = "loop"
    /\ \/ Stopped /\ Go(k, "finish") /\ UNCHANGED exhausted
       \/ ~Stopped /\ Go(k, "dial") /\ UNCHANGED exhausted
       \/ ~Unlimited /\ Go(k, "finish") /\ exhausted' = TRUE
    /\ UNCHANGED <<fresh, status, conn, domains, closed, closer, locks,
                   reconnecting, connects>>

\* restoreDomainSubscriptions; on an error the connection is closed.
RestoreSucceeds(k) ==
    /\ stage[k] = "restore"
    /\ Go(k, "finish")
    /\ fresh' = [fresh EXCEPT ![k] = Nil]
    /\ UNCHANGED <<status, conn, domains, closed, closer, locks, reconnecting,
                   connects, exhausted>>

RestoreFails(k) ==
    /\ stage[k] = "restore"
    /\ Discarded(k)
    /\ fresh' = [fresh EXCEPT ![k] = Nil]
    /\ Go(k, "backoff")
    /\ UNCHANGED <<conn, domains, closed, closer, locks, reconnecting, connects,
                   exhausted>>

\* The select on the timer and the lifecycle context.
BackoffEnds(k) ==
    /\ stage[k] = "backoff"
    /\ Go(k, "loop")
    /\ UNCHANGED <<fresh, status, conn, domains, closed, closer, locks,
                   reconnecting, connects, exhausted>>

\* The deferred reset of reconnecting.
LoopReturns(k) ==
    /\ stage[k] = "finish"
    /\ reconnecting' = FALSE
    /\ Go(k, "ended")
    /\ UNCHANGED <<fresh, status, conn, domains, closed, closer, locks, connects,
                   exhausted>>

-----------------------------------------------------------------------------
(* Close, and connections that break (external)                            *)

CloseCalled ==
    /\ closer = "idle"
    /\ closed' = TRUE
    /\ closer' = "closing"
    /\ UNCHANGED <<stage, fresh, status, conn, domains, locks, reconnecting,
                   connects, exhausted>>

\* Close the current connection, if there is one, and return.
CloseReturns ==
    /\ closer = "closing"
    /\ closer' = "returned"
    /\ status' = [k \in Conns |-> IF k = conn THEN "dead" ELSE status[k]]
    /\ UNCHANGED <<stage, fresh, conn, domains, closed, locks, reconnecting,
                   connects, exhausted>>

Break(k) ==
    /\ status[k] = "live"
    /\ status' = [status EXCEPT ![k] = "dead"]
    /\ UNCHANGED <<stage, fresh, conn, domains, closed, closer, locks, reconnecting,
                   connects, exhausted>>

-----------------------------------------------------------------------------
AttachStep(p) ==
    \/ DialSucceeds(p) \/ DialFails(p)
    \/ AttachChecks(p) \/ AttachStores(p) \/ AttachBinds(p)

MonitorStep(k) ==
    \/ MonitorWakes(k) \/ MonitorClears(k) \/ BeginReconnect(k) \/ LoopTurns(k)
    \/ RestoreSucceeds(k) \/ RestoreFails(k) \/ BackoffEnds(k)
    \/ LoopReturns(k)

ClientNext ==
    \/ \E u \in Users : Connect(u)
    \/ \E p \in Procs : AttachStep(p)
    \/ \E k \in Conns : MonitorStep(k) \/ Break(k)
    \/ CloseCalled \/ CloseReturns

ClientSpec == ClientInit /\ [][ClientNext]_clientVars

-----------------------------------------------------------------------------
Looping == {"loop", "dial", "attach", "store", "bind", "restore", "backoff",
            "finish"}

\* At most one reconnect loop runs, whichever monitors wake up together, and
\* IsReconnecting says so exactly while it runs.
OneLoop ==
    /\ \A j, k \in Conns : stage[j] \in Looping /\ stage[k] \in Looping => j = k
    /\ reconnecting <=> \E k \in Conns : stage[k] \in Looping

\* A live connection is watched by a monitor, or still in the hands of the
\* goroutine that dialed it: one that Close or another connection kept from
\* being attached has been closed.
LiveIsWatched ==
    \A k \in Conns :
        status[k] = "live" =>
            \/ stage[k] = "watch"
            \/ \E p \in Procs :
                  fresh[p] = k /\ stage[p] \in {"attach", "store", "bind"}

\* Close ends the reconnect loop for good.
CloseEndsReconnect == closed ~> [](~reconnecting)

-----------------------------------------------------------------------------
(* What the documents say, and the code does not always do.                *)

\* With reconnecting enabled and unlimited, a client that has lost its
\* connection is reconnecting or about to, until it is closed.
ReconnectNotLost ==
    \/ closed \/ exhausted \/ conn # Nil
    \/ \A k \in Conns : status[k] = "unused"
    \/ \E p \in Procs :
          stage[p] \in {"watch", "clear", "begin"} \cup (Looping \ {"finish"})
=============================================================================
