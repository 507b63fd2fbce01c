----------------------------- MODULE MCSession ------------------------------
(***************************************************************************)
(* The lifecycles for TLC: of the client with its reconnect loop, and of    *)
(* one connection with its handshake.  ClientLifecycle has a connection     *)
(* start and break as a whole, and Session is the inside of that, so a      *)
(* behaviour is about one of them, its focus; the other keeps its initial   *)
(* state.                                                                   *)
(***************************************************************************)
EXTENDS ClientLifecycle

CONSTANTS u1, u2, k1, k2, k3, MaxFrames, MaxWrites

MCUsers == {u1, u2}
MCConns == {k1, k2, k3}

VARIABLES
    focus,                                             \* the component of this behaviour
    state, sclosed, ctxDone, done, started, hello,     \* Session
    once, confirmed, authErr, connErr, open, spc, sres, lpc, first, cpc,
    hb, active, alive, inbox, sent, writes

Session == INSTANCE Session WITH closed <- sclosed

sessionVars ==
    <<state, sclosed, ctxDone, done, started, hello, once, confirmed, authErr, connErr, open, spc, sres, lpc,
      first, cpc, hb, active, alive, inbox, sent, writes>>
allVars == <<focus, clientVars, sessionVars>>

LifecycleInit == focus \in {"client", "session"} /\ ClientInit /\ Session!SessionInit

ClientSteps == focus = "client" /\ ClientNext /\ UNCHANGED <<focus, sessionVars>>
SessionSteps == focus = "session" /\ Session!SessionNext /\ UNCHANGED <<focus, clientVars>>
LifecycleNext == ClientSteps \/ SessionSteps

\* The fairness of each module, for the behaviours that are about it.  Of the
\* client every goroutine runs: dials and restores end (their contexts and
\* timeouts bound them), timers fire; nobody has to call Connect or Close, and
\* no connection has to break.
LifecycleFairness ==
    /\ \A p \in Procs : WF_clientVars(focus = "client" /\ AttachStep(p))
    /\ \A k \in Conns : WF_clientVars(focus = "client" /\ MonitorStep(k))
    /\ WF_clientVars(focus = "client" /\ CloseReturns)
    /\ WF_sessionVars(focus = "session" /\ Session!Starting /\ spc # "idle")
    /\ WF_sessionVars(focus = "session" /\ Session!Looping)
    /\ WF_sessionVars(focus = "session" /\ (Session!Closing("app") \/ Session!Closing("start")))
    /\ WF_sessionVars(focus = "session" /\ Session!Beating)

LifecycleSpec == LifecycleInit /\ [][LifecycleNext]_allVars /\ LifecycleFairness

-----------------------------------------------------------------------------

\* A call of Close returns, whether or not Start was called.
CloseEnds == Session!CloseEnds

\* The heartbeat notices a silent broker once the application stops writing.
DeadPeerNoticed == Session!DeadPeerNoticed
=============================================================================
