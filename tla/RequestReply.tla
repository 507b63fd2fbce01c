---------------------------- MODULE RequestReply ----------------------------
(***************************************************************************)
(* What a connection promises the goroutines that call SendRequest: every  *)
(* request has an identity of its own, and a call ends once, either with   *)
(* the answer the server gave to that very request or with an error.       *)
(* Correlation tables, waiters, slots, the write lock and shutdown are     *)
(* all invisible here; Requests is shown to implement this module.         *)
(***************************************************************************)
EXTENDS Integers

CONSTANTS Callers, MaxId

Ids == 1..MaxId

VARIABLES
    phase,      \* "idle", "calling" or "ending", per caller
    ident,      \* identity of the caller's request, 0 if it has none yet
    answer,     \* the answer the call is going to return, 0 for an error
    used,       \* identities given out so far
    answered    \* requests the server has answered

vars == <<phase, ident, answer, used, answered>>

Init ==
    /\ phase = [c \in Callers |-> "idle"]
    /\ ident = [c \in Callers |-> 0]
    /\ answer = [c \in Callers |-> 0]
    /\ used = {}
    /\ answered = {}

Start(c) ==
    /\ phase[c] = "idle"
    /\ phase' = [phase EXCEPT ![c] = "calling"]
    /\ UNCHANGED <<ident, answer, used, answered>>

\* The request gets an identity nobody ever had.
Identify(c, i) ==
    /\ phase[c] = "calling"
    /\ ident[c] = 0
    /\ i \notin used
    /\ ident' = [ident EXCEPT ![c] = i]
    /\ used' = used \cup {i}
    /\ UNCHANGED <<phase, answer, answered>>

\* The server answers a request.
Serve(i) ==
    /\ i \in used
    /\ answered' = answered \cup {i}
    /\ UNCHANGED <<phase, ident, answer, used>>

Respond(c) ==
    /\ phase[c] = "calling"
    /\ ident[c] \in answered
    /\ phase' = [phase EXCEPT ![c] = "ending"]
    /\ answer' = [answer EXCEPT ![c] = ident[c]]
    /\ UNCHANGED <<ident, used, answered>>

\* The call fails; an identity it did not use for a request is lost.
Fail(c) ==
    /\ phase[c] = "calling"
    /\ phase' = [phase EXCEPT ![c] = "ending"]
    /\ \E i \in Ids \cup {0} : used' = used \cup ({i} \ {0})
    /\ UNCHANGED <<ident, answer, answered>>

\* An identity is spent on a one-way frame.
Spend(i) ==
    /\ used' = used \cup {i}
    /\ UNCHANGED <<phase, ident, answer, answered>>

End(c) ==
    /\ phase[c] \in {"calling", "ending"}
    /\ phase' = [phase EXCEPT ![c] = "idle"]
    /\ ident' = [ident EXCEPT ![c] = 0]
    /\ answer' = [answer EXCEPT ![c] = 0]
    /\ UNCHANGED <<used, answered>>

Next ==
    \/ \E c \in Callers :
          \/ Start(c) \/ Respond(c) \/ Fail(c) \/ End(c)
          \/ \E i \in Ids : Identify(c, i)
    \/ \E i \in Ids : Serve(i) \/ Spend(i)

Spec == Init /\ [][Next]_vars
=============================================================================
