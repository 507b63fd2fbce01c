---------------------------- MODULE MCConsumers -----------------------------
(***************************************************************************)
(* The consumers of deliveries for TLC: the RPC workers, the polling        *)
(* iterator and the push iterator.  They share no state, so a behaviour is  *)
(* about one of them, its focus; the others keep their initial state.       *)
(***************************************************************************)
EXTENDS RpcWorkers, FollowIterator, PushIterator

CONSTANTS u1, u2, r1, r2, i1, h1, h2, h3

MCUsers == {u1, u2}
MCRoutes == {r1, r2}
MCInvocations == {i1}
MCHandlers == {h1, h2, h3}

VARIABLE focus

allVars == <<focus, vars, followVars, pushVars>>

ConsumersInit ==
    /\ Init /\ FollowInit /\ PushInit
    /\ focus \in {"workers", "follow", "push"} /\ (focus # "follow" => scope = "queue")

WorkerSteps == focus = "workers" /\ Next /\ UNCHANGED <<focus, followVars, pushVars>>
FollowSteps == focus = "follow" /\ FollowNext /\ UNCHANGED <<focus, vars, pushVars>>
PushSteps == focus = "push" /\ PushNext /\ UNCHANGED <<focus, vars, followVars>>
ConsumersNext == WorkerSteps \/ FollowSteps \/ PushSteps

\* The fairness of FollowIterator, for the behaviours that are about it.
ConsumersFairness ==
    /\ WF_followVars(focus = "follow" /\ Producer)
    /\ WF_followVars(focus = "follow" /\ (Emit \/ NextEnds))
    /\ WF_followVars(focus = "follow" /\ NextCalled)

ConsumersSpec == ConsumersInit /\ [][ConsumersNext]_allVars /\ ConsumersFairness
=============================================================================
