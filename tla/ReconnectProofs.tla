-------------------------- MODULE ReconnectProofs ---------------------------
(***************************************************************************)
(* What survives a lost connection.  The subscription registry: its        *)
(* tables, and the subscriptions of the notice client at the broker, for   *)
(* any number of goroutines, patterns, identifiers, handlers and sessions. *)
(* The client: one reconnect loop at a time and no connection left without *)
(* a monitor, for any number of goroutines that call Connect and of        *)
(* connections, and whatever the configuration of reconnecting.            *)
(***************************************************************************)
EXTENDS SubscriptionRegistry, ClientLifecycle, TLAPS

-----------------------------------------------------------------------------
(* The subscription registry                                               *)

USE ZenonT(60)

Answering == {"subscribing", "register"}
Removing == {"remove", "unwire"}
Holding == {"held"} \cup Removing

Typed ==
    /\ {subID, restored, wire} \subseteq [Patterns -> SubIds \cup {None}]
    /\ bySubID \in [SubIds -> Patterns \cup {None}]
    /\ handlers \in [Patterns -> SUBSET Nat]
    /\ nextHandlerID \in Nat
    /\ pending \subseteq Patterns /\ todo \subseteq Patterns
    /\ restoring \in BOOLEAN
    /\ pc \in [Callers -> {"idle", "lock", "waiting", "clear"} \cup Answering \cup Holding]
    /\ pat \in [Callers -> Patterns \cup {None}]
    /\ \A c \in Callers : pc[c] \notin {"idle", "clear"} => pat[c] \in Patterns
    /\ reply \in [Callers -> SubIds \cup {None}]
    /\ rpc \in {"idle", "lock", "send", "failed"}

\* A SUBSCRIBE in flight has its pattern to itself, and the pattern is not
\* registered.
Exclusive ==
    /\ \A c \in Callers : pc[c] \in Answering => pat[c] \in pending \ Registered
    /\ \A c, d \in Callers : pc[c] \in Answering /\ pc[d] \in Answering /\ pat[c] = pat[d] => c = d

\* While Restore sends, the entries stay as they are, and each restored one has
\* an identifier of its own.
Restoring ==
    /\ restoring <=> rpc = "send"
    /\ rpc = "send" =>
          /\ pending = {}
          /\ Registered = todo \cup {p \in Patterns : restored[p] # None}
          /\ \A p, q \in Patterns : restored[p] = restored[q] /\ restored[p] # None => p = q

RegistryInv == Typed /\ Exclusive /\ Restoring /\ TablesAgree

-----------------------------------------------------------------------------
(* The notice client with a broker that does not reuse identifiers         *)

\* An identifier is known for a pattern: to the broker, the table, a restore, a
\* response on its way or a handle.
Known(s, p) ==
    \/ wire[p] = s \/ subID[p] = s \/ restored[p] = s
    \/ \E c \in Callers : pat[c] = p /\ pc[c] = "register" /\ reply[c] = s
    \/ \E c \in Callers : pat[c] = p /\ pc[c] \in Holding /\ handle[c].sub = s

Named ==
    /\ \A s \in SubIds, p \in Patterns : Known(s, p) => s \in spent
    /\ \A s \in SubIds, p, q \in Patterns : Known(s, p) /\ Known(s, q) => p = q
    /\ \A c \in Callers : pc[c] \in Holding => handle[c].sub \in SubIds

\* The operations lock.
Locked ==
    /\ \A c \in Callers : (operations = c) <=> (pc[c] \notin {"idle", "held"})
    /\ (operations = Restorer) <=> (rpc = "send")

\* The broker has what the tables say, unless it forgot them or Restore is on
\* its way.
Served ==
    /\ rpc = "idle" /\ ~forgotten => Wired
    /\ \A c \in Callers : rpc = "idle" /\ ~forgotten /\ pc[c] = "register" /\ reply[c] # None => wire[pat[c]] = reply[c]
    /\ rpc = "send" /\ ~forgotten => \A p \in Patterns : restored[p] # None => wire[p] = restored[p]
    /\ \A c \in Callers : pc[c] = "unwire" => pat[c] \notin Registered

Handles == handle \in [Callers -> [handler : Nat, sub : SubIds \cup {None}]]

Noticed == notice /\ ~reuse

NoticeInv == Handles /\ Named /\ Locked /\ Served

-----------------------------------------------------------------------------
(* Types                                                                   *)

LEMMA TypedKept ==
    ASSUME Typed, Step
    PROVE  Typed'
<1>0. ASSUME NEW c \in Callers, SubscribeAccepted(c)
      PROVE  \E s \in Offered(pat[c]) :
                Given(pat[c], s) /\ \E r \in {s, None} : reply' = [reply EXCEPT ![c] = r]
  BY <1>0 DEF SubscribeAccepted
<1>21. ASSUME RestoreRollsBack
       PROVE  \E p \in todo : \E s \in {None} \cup (Offered(p) \cap Range(restored)) :
                \E gone \in SUBSET Patterns :
                   wire' = [q \in Patterns |-> IF q \in gone THEN None
                                               ELSE (IF s = None THEN wire ELSE [wire EXCEPT ![p] = s])[q]]
  <2>1. PICK p \in todo : \E s \in {None} \cup (Offered(p) \cap Range(restored)) :
          \E gone \in SUBSET {q \in Patterns : restored[q] # None \/ (q = p /\ s # None)} :
             wire' = [q \in Patterns |-> IF q \in gone THEN None
                                         ELSE (IF s = None THEN wire ELSE [wire EXCEPT ![p] = s])[q]]
    BY <1>21 DEF RestoreRollsBack
  <2>2. PICK s \in {None} \cup (Offered(p) \cap Range(restored)) :
          \E gone \in SUBSET {q \in Patterns : restored[q] # None \/ (q = p /\ s # None)} :
             wire' = [q \in Patterns |-> IF q \in gone THEN None
                                         ELSE (IF s = None THEN wire ELSE [wire EXCEPT ![p] = s])[q]]
    BY <2>1
  <2>3. \A gone : gone \in SUBSET {q \in Patterns : restored[q] # None \/ (q = p /\ s # None)}
           => gone \in SUBSET Patterns
    OBVIOUS
  <2>4. PICK gone \in SUBSET {q \in Patterns : restored[q] # None \/ (q = p /\ s # None)} :
             wire' = [q \in Patterns |-> IF q \in gone THEN None
                                         ELSE (IF s = None THEN wire ELSE [wire EXCEPT ![p] = s])[q]]
    BY <2>2
  <2>5. gone \in SUBSET Patterns
    BY <2>3, <2>4
  <2> WITNESS p \in todo
  <2> WITNESS s \in {None} \cup (Offered(p) \cap Range(restored))
  <2> WITNESS gone \in SUBSET Patterns
  <2> QED  BY <2>4
<1> USE RegistryAssumption DEF Typed, Answering, Removing, Holding
<1>1. ASSUME NEW c \in Callers, NEW p \in Patterns, SubscribeCalled(c, p) PROVE Typed'
  BY <1>1 DEF SubscribeCalled, tables, restoreVars, broker
<1>2. ASSUME NEW c \in Callers, SubscribeShares(c) PROVE Typed'
  <2>1. pat[c] \in Patterns
    BY <1>2 DEF SubscribeShares
  <2>2. handlers' \in [Patterns -> SUBSET Nat] /\ nextHandlerID' \in Nat
    BY SMTT(20), Z3T(20), <1>2, <2>1 DEF SubscribeShares, AddHandler
  <2> QED  BY <1>2, <2>1, <2>2 DEF SubscribeShares, restoreVars, broker
<1>3. ASSUME NEW c \in Callers, SubscribeWaits(c) PROVE Typed'
  BY <1>3 DEF SubscribeWaits, tables, restoreVars, broker
<1>4. ASSUME NEW c \in Callers, SubscribeSends(c) PROVE Typed'
  BY <1>4 DEF SubscribeSends, tables, restoreVars, broker
<1>5. ASSUME NEW c \in Callers, SubscribeAccepted(c) PROVE Typed'
  <2>1. PICK s \in Offered(pat[c]) :
              Given(pat[c], s) /\ \E r \in {s, None} : reply' = [reply EXCEPT ![c] = r]
    BY <1>0, <1>5
  <2>2. pat[c] \in Patterns /\ s \in SubIds
    BY SMTT(20), Z3T(20), <1>5, <2>1 DEF SubscribeAccepted, Offered
  <2> QED  BY SMTT(20), Z3T(20), <1>5, <2>1, <2>2 DEF SubscribeAccepted, Given, tables, restoreVars
<1>6. ASSUME NEW c \in Callers, SubscribeRefused(c) PROVE Typed'
  BY <1>6 DEF SubscribeRefused, tables, restoreVars, broker
<1>7. ASSUME NEW c \in Callers, SubscribeRegisters(c) PROVE Typed'
  <2>1. pat[c] \in Patterns
    BY <1>7 DEF SubscribeRegisters
  <2>2. pc' \in [Callers -> {"idle", "lock", "waiting", "clear"} \cup Answering \cup Holding]
    BY <1>7 DEF SubscribeRegisters
  <2>3. \A d \in Callers : pc'[d] \notin {"idle", "clear"} => pat'[d] \in Patterns
    BY <1>7, <2>1 DEF SubscribeRegisters
  <2>4. /\ subID' \in [Patterns -> SubIds \cup {None}]
        /\ bySubID' \in [SubIds -> Patterns \cup {None}]
        /\ handlers' \in [Patterns -> SUBSET Nat] /\ nextHandlerID' \in Nat
    <3>1. CASE SubscribeFails(reply[c])
      BY <1>7, <3>1 DEF SubscribeRegisters, tables
    <3>2. CASE ~SubscribeFails(reply[c])
      <4>1. reply[c] \in SubIds
        BY <3>2 DEF SubscribeFails
      <4> QED  BY SMTT(20), Z3T(20), <1>7, <2>1, <3>2, <4>1 DEF SubscribeRegisters, AddHandler
    <3> QED  BY <3>1, <3>2
  <2>5. /\ pending' \subseteq Patterns /\ reply' \in [Callers -> SubIds \cup {None}]
        /\ UNCHANGED <<restoring, pat, restored, todo, rpc, wire>>
    BY <1>7 DEF SubscribeRegisters, Settled, restoreVars, broker
  <2> QED  BY SMTT(20), Z3T(20), <2>2, <2>3, <2>4, <2>5
<1>8. ASSUME NEW c \in Callers, UnsubscribeCalled(c) PROVE Typed'
  BY SMTT(20), Z3T(20), <1>8 DEF UnsubscribeCalled, tables, restoreVars, broker
<1>9. ASSUME NEW c \in Callers, UnsubscribeRemoves(c) PROVE Typed'
  <2>1. pat[c] \in Patterns
    BY <1>9 DEF UnsubscribeRemoves
  <2>2. /\ subID' \in [Patterns -> SubIds \cup {None}]
        /\ bySubID' \in [SubIds -> Patterns \cup {None}]
        /\ handlers' \in [Patterns -> SUBSET Nat]
    BY <1>9, <2>1 DEF UnsubscribeRemoves
  <2> QED  BY SMTT(20), Z3T(20), <1>9, <2>1, <2>2 DEF UnsubscribeRemoves, restoreVars, broker
<1>10. ASSUME NEW c \in Callers, UnsubscribeSent(c) PROVE Typed'
  BY SMTT(20), Z3T(20), <1>10 DEF UnsubscribeSent, tables, restoreVars
<1>11. ASSUME NEW c \in Callers, UnsubscribeLost(c) PROVE Typed'
  BY <1>11 DEF UnsubscribeLost, tables, restoreVars, broker
<1>12. ASSUME NEW c \in Callers, UnsubscribeAllSent(c) PROVE Typed'
  BY <1>12 DEF UnsubscribeAllSent, tables, restoreVars
<1>19. ASSUME NEW c \in Callers, UnsubscribeAllFails(c) PROVE Typed'
  BY <1>19 DEF UnsubscribeAllFails, tables, restoreVars, broker
<1>13. ASSUME NEW c \in Callers, Clear(c) PROVE Typed'
  BY SMTT(20), Z3T(20), <1>13 DEF Clear, restoreVars, broker
<1>14. CASE SessionReplaced
  BY <1>14 DEF SessionReplaced, tables, callers
<1>20. CASE SessionAttached
  BY <1>20 DEF SessionAttached, tables, callers
<1>15. CASE RestoreBegins
  <2>1. /\ todo' \subseteq Patterns /\ restored' \in [Patterns -> SubIds \cup {None}]
        /\ restoring' \in BOOLEAN /\ rpc' \in {"idle", "lock", "send", "failed"}
    BY <1>15 DEF RestoreBegins, Registered
  <2> QED  BY <1>15, <2>1 DEF RestoreBegins, tables, callers, broker
<1>16. ASSUME NEW p \in Patterns, RestoreSubscribes(p) PROVE Typed'
  <2>1. PICK s \in Offered(p) \ Range(restored) : Given(p, s) /\ restored' = [restored EXCEPT ![p] = s]
    BY <1>16 DEF RestoreSubscribes
  <2>2. s \in SubIds
    BY SMTT(20), Z3T(20), <2>1 DEF Offered
  <2> QED  BY SMTT(20), Z3T(20), <1>16, <2>1, <2>2 DEF RestoreSubscribes, Given, tables, callers
<1>17. CASE RestoreRollsBack
  <2>1. wire' \in [Patterns -> SubIds \cup {None}]
    <3>1. PICK p \in todo : \E s \in {None} \cup (Offered(p) \cap Range(restored)) :
                \E gone \in SUBSET Patterns :
                   wire' = [q \in Patterns |-> IF q \in gone THEN None
                                               ELSE (IF s = None THEN wire ELSE [wire EXCEPT ![p] = s])[q]]
      BY <1>17, <1>21
    <3>2. Offered(p) \subseteq SubIds
      BY SMT DEF Offered
    <3> QED  BY SMTT(20), Z3T(20), <3>1, <3>2
  <2>2. /\ UNCHANGED <<tables, pending, callers>> /\ restoring' = FALSE /\ rpc' = "failed"
        /\ todo' = {} /\ restored' \in [Patterns -> SubIds \cup {None}]
    BY <1>17 DEF RestoreRollsBack
  <2> QED  BY <2>1, <2>2 DEF tables, callers
<1>18. CASE RestoreInstalls
  <2>1. subID' \in [Patterns -> SubIds \cup {None}]
    BY <1>18 DEF RestoreInstalls
  <2>2. bySubID' \in [SubIds -> Patterns \cup {None}]
    BY <1>18 DEF RestoreInstalls, Range
  <2> QED  BY <1>18, <2>1, <2>2 DEF RestoreInstalls, callers, broker
<1> QED
  BY <1>1, <1>2, <1>3, <1>4, <1>5, <1>6, <1>7, <1>8, <1>9, <1>10, <1>11, <1>12, <1>13, <1>14, <1>15,
     <1>16, <1>17, <1>18, <1>19, <1>20
  DEF Step, SubscribeStep, UnsubscribeStep, RestoreStep

-----------------------------------------------------------------------------
(* The tables                                                              *)

\* Steps that leave the entries, the requests in flight and Restore alone.
LEMMA EntriesKept ==
    ASSUME RegistryInv, Typed', UNCHANGED <<subID, bySubID, pending, restoring, rpc, todo, restored>>,
           \A c \in Callers : pc'[c] \in Answering => pc[c] \in Answering /\ pat'[c] = pat[c]
    PROVE  RegistryInv'
<1>1. Registered' = Registered
  BY DEF Registered
<1>2. Exclusive'
  BY <1>1 DEF RegistryInv, Exclusive
<1>3. Restoring' /\ TablesAgree'
  BY <1>1 DEF RegistryInv, Restoring, TablesAgree
<1> QED  BY <1>2, <1>3 DEF RegistryInv

LEMMA SendsKeeps ==
    ASSUME RegistryInv, Typed', NEW c \in Callers, SubscribeSends(c)
    PROVE  RegistryInv'
<1>1. /\ pc'[c] = "subscribing" /\ \A d \in Callers : d # c => pc'[d] = pc[d]
      /\ pending' = pending \cup {pat[c]} /\ pat[c] \notin pending \cup Registered
      /\ ~restoring
      /\ UNCHANGED <<subID, bySubID, restoring, rpc, todo, restored, pat>>
  BY DEF SubscribeSends, RegistryInv, Typed, tables, restoreVars, InFlight
<1>2. Registered' = Registered
  BY <1>1 DEF Registered
<1>3. Exclusive'
  BY <1>1, <1>2 DEF RegistryInv, Exclusive
<1>4. Restoring'
  BY <1>1 DEF RegistryInv, Restoring
<1>5. TablesAgree'
  BY <1>1 DEF RegistryInv, TablesAgree
<1> QED  BY <1>3, <1>4, <1>5 DEF RegistryInv

\* The response comes back: the entry is new in both tables, or in neither.
LEMMA RegistersKeeps ==
    ASSUME RegistryInv, Typed', NEW c \in Callers, SubscribeRegisters(c)
    PROVE  RegistryInv'
<1> DEFINE p == pat[c]
           s == reply[c]
<1>1. /\ pc[c] = "register" /\ p \in Patterns /\ p \in pending \ Registered
      /\ UNCHANGED <<restoring, rpc, todo, restored, pat>> /\ pending' = pending \ {p}
  BY DEF SubscribeRegisters, Settled, RegistryInv, Exclusive, Typed, Answering, restoreVars
<1>2. rpc # "send" /\ Restoring'
  BY <1>1 DEF RegistryInv, Restoring
<1>3. \A d \in Callers : pc'[d] \in Answering => d # c /\ pc[d] \in Answering
  BY DEF SubscribeRegisters, Answering
<1>4. \A d \in Callers : pc'[d] \in Answering => pat[d] # p
  BY <1>1, <1>3 DEF RegistryInv, Exclusive, Answering
<1>5. Registered' \subseteq Registered \cup {p} /\ TablesAgree'
  <2>1. CASE SubscribeFails(s)
    <3>1. UNCHANGED <<subID, bySubID>>
      BY <2>1 DEF SubscribeRegisters, tables
    <3> QED  BY <3>1 DEF Registered, RegistryInv, TablesAgree
  <2>2. CASE ~SubscribeFails(s)
    <3>1. s \in SubIds /\ bySubID[s] = None /\ subID[p] = None
      BY <1>1, <2>2 DEF SubscribeFails, RegistryInv, Typed, Registered
    <3>2. /\ subID' = [subID EXCEPT ![p] = s] /\ bySubID' = [bySubID EXCEPT ![s] = p]
      BY <2>2 DEF SubscribeRegisters
    <3>3. /\ subID'[p] = s /\ \A q \in Patterns : q # p => subID'[q] = subID[q]
          /\ bySubID'[s] = p /\ \A t \in SubIds : t # s => bySubID'[t] = bySubID[t]
      BY SMTT(20), Z3T(20), <1>1, <3>1, <3>2 DEF RegistryInv, Typed
    <3>4. TablesAgree'
      BY SMTT(20), Z3T(20), <1>1, <3>1, <3>3, RegistryAssumption DEF RegistryInv, TablesAgree
    <3> QED  BY <3>3, <3>4 DEF Registered
  <2> QED  BY <2>1, <2>2
<1>6. Exclusive'
  BY <1>1, <1>3, <1>4, <1>5 DEF RegistryInv, Exclusive
<1> QED  BY <1>2, <1>5, <1>6 DEF RegistryInv

\* Entries go from both tables, when no Restore is on.
LEMMA RemovalKeeps ==
    ASSUME RegistryInv, Typed', ~restoring, UNCHANGED <<pending, restoring, rpc, pat>>,
           \A p \in Patterns : subID'[p] \in {subID[p], None},
           \A s \in SubIds : \/ bySubID'[s] = bySubID[s] /\ \A p \in Patterns : subID[p] = s => subID'[p] = s
                             \/ bySubID'[s] = None /\ \A p \in Patterns : subID'[p] # s,
           \A c \in Callers : pc'[c] \in Answering => pc[c] \in Answering
    PROVE  RegistryInv'
<1>1. Registered' \subseteq Registered
  BY DEF Registered
<1>2. Exclusive'
  BY <1>1 DEF RegistryInv, Exclusive
<1>3. Restoring'
  BY SMTT(20), Z3T(20) DEF RegistryInv, Restoring
<1>4. TablesAgree'
  BY SMTT(20), Z3T(20), RegistryAssumption DEF RegistryInv, TablesAgree
<1> QED  BY <1>2, <1>3, <1>4 DEF RegistryInv

\* The first and the last step of Restore, and the ones between.
LEMMA BeginsKeeps ==
    ASSUME RegistryInv, Typed', RestoreBegins
    PROVE  RegistryInv'
<1>1. UNCHANGED <<subID, bySubID, pending, pc, pat>> /\ Registered' = Registered /\ rpc = "lock" /\ pending = {}
  BY DEF RestoreBegins, Ready, tables, callers, Registered
<1>2. Exclusive' /\ TablesAgree'
  BY <1>1 DEF RegistryInv, Exclusive, TablesAgree
<1>3. Restoring'
  <2>1. CASE Registered = {}
    BY <1>1, <2>1 DEF RestoreBegins, RegistryInv, Restoring
  <2>2. CASE Registered # {}
    BY <1>1, <2>2 DEF RestoreBegins, RegistryInv, Restoring
  <2> QED  BY <2>1, <2>2
<1> QED  BY <1>2, <1>3 DEF RegistryInv

LEMMA RestoresKeeps ==
    ASSUME RegistryInv, Typed', NEW p \in Patterns, RestoreSubscribes(p)
    PROVE  RegistryInv'
<1>0. PICK s \in Offered(p) \ Range(restored) : restored' = [restored EXCEPT ![p] = s]
  BY DEF RestoreSubscribes
<1>1. s \in SubIds \ Range(restored)
  BY SMTT(20), Z3T(20), <1>0 DEF Offered, RegistryInv, Typed
<1>2. /\ restored'[p] = s /\ \A q \in Patterns : q # p => restored'[q] = restored[q]
      /\ \A q \in Patterns : restored[q] # s
      /\ s # None
  BY <1>0, <1>1, RegistryAssumption DEF RegistryInv, Typed, Range
<1>3. /\ UNCHANGED <<subID, bySubID, pending, restoring, rpc, pc, pat>> /\ Registered' = Registered
      /\ rpc = "send" /\ p \in todo /\ todo' = todo \ {p}
  BY DEF RestoreSubscribes, tables, callers, Registered
<1>4. Exclusive' /\ TablesAgree'
  BY <1>3 DEF RegistryInv, Exclusive, TablesAgree
<1>5. Restoring'
  <2>1. Registered' = todo' \cup {q \in Patterns : restored'[q] # None}
    BY SMTT(20), Z3T(20), <1>2, <1>3 DEF RegistryInv, Restoring
  <2>2. \A q, r \in Patterns : restored'[q] = restored'[r] /\ restored'[q] # None => q = r
    BY <1>2, <1>3 DEF RegistryInv, Restoring
  <2> QED  BY <1>3, <2>1, <2>2 DEF RegistryInv, Restoring
<1> QED  BY <1>4, <1>5 DEF RegistryInv

LEMMA InstallsKeeps ==
    ASSUME RegistryInv, Typed', RestoreInstalls
    PROVE  RegistryInv'
<1>1. /\ rpc = "send" /\ Registered = {p \in Patterns : restored[p] # None}
      /\ \A p, q \in Patterns : restored[p] = restored[q] /\ restored[p] # None => p = q
      /\ UNCHANGED <<pending, pc, pat>> /\ restoring' = FALSE /\ rpc' = "idle"
  BY DEF RestoreInstalls, RegistryInv, Restoring, callers
<1>2. \A p \in Patterns : subID'[p] = restored[p]
  BY <1>1 DEF RestoreInstalls, Registered
<1>3. Registered' = Registered
  BY <1>1, <1>2 DEF Registered
<1>4. Exclusive' /\ Restoring'
  BY <1>1, <1>3 DEF RegistryInv, Exclusive, Restoring
<1>5. ASSUME NEW p \in Patterns, NEW s \in SubIds
      PROVE  (bySubID'[s] = p) <=> (restored[p] = s)
  <2>1. /\ s \notin Range(restored) => bySubID'[s] = None
        /\ s \in Range(restored) => bySubID'[s] = CHOOSE q \in Patterns : restored[q] = s
    BY DEF RestoreInstalls
  <2>2. s \in Range(restored) <=> \E q \in Patterns : restored[q] = s
    BY DEF RegistryInv, Typed, Range
  <2>3. CASE s \notin Range(restored)
    BY <2>1, <2>2, <2>3, RegistryAssumption
  <2>4. CASE s \in Range(restored)
    <3>1. bySubID'[s] \in Patterns /\ restored[bySubID'[s]] = s
      BY <2>1, <2>2, <2>4
    <3> QED  BY <1>1, <3>1, RegistryAssumption
  <2> QED  BY <2>3, <2>4
<1>6. TablesAgree'
  BY <1>2, <1>5 DEF TablesAgree
<1> QED  BY <1>4, <1>6 DEF RegistryInv

LEMMA RegistryStep ==
    ASSUME RegistryInv, Step
    PROVE  RegistryInv'
<1>0. Typed /\ Typed'
  BY TypedKept DEF RegistryInv
<1>1. ASSUME NEW c \in Callers,
             \/ \E p \in Patterns : SubscribeCalled(c, p)
             \/ SubscribeShares(c) \/ SubscribeWaits(c)
      PROVE  RegistryInv'
  <2>1. UNCHANGED <<subID, bySubID, pending, restoring, rpc, todo, restored>>
    BY <1>1 DEF SubscribeCalled, SubscribeShares, SubscribeWaits, tables, restoreVars
  <2>2. \A d \in Callers : pc'[d] \in Answering => pc[d] \in Answering /\ pat'[d] = pat[d]
    BY <1>0, <1>1 DEF SubscribeCalled, SubscribeShares, SubscribeWaits, Answering, Typed
  <2> QED  BY <1>0, <2>1, <2>2, EntriesKept
<1>2. ASSUME NEW c \in Callers, SubscribeAccepted(c) \/ SubscribeRefused(c)
      PROVE  RegistryInv'
  <2>1. UNCHANGED <<subID, bySubID, pending, restoring, rpc, todo, restored>>
    BY <1>2 DEF SubscribeAccepted, SubscribeRefused, tables, restoreVars
  <2>2. \A d \in Callers : pc'[d] \in Answering => pc[d] \in Answering /\ pat'[d] = pat[d]
    BY <1>0, <1>2 DEF SubscribeAccepted, SubscribeRefused, Answering, Typed
  <2> QED  BY <1>0, <2>1, <2>2, EntriesKept
<1>3. ASSUME NEW c \in Callers,
             \/ UnsubscribeCalled(c) \/ UnsubscribeSent(c) \/ UnsubscribeLost(c)
             \/ UnsubscribeAllSent(c) \/ UnsubscribeAllFails(c)
      PROVE  RegistryInv'
  <2>1. UNCHANGED <<subID, bySubID, pending, restoring, rpc, todo, restored>>
    BY <1>3
    DEF UnsubscribeCalled, UnsubscribeSent, UnsubscribeLost, UnsubscribeAllSent, UnsubscribeAllFails, tables,
        restoreVars
  <2>2. \A d \in Callers : pc'[d] \in Answering => pc[d] \in Answering /\ pat'[d] = pat[d]
    BY <1>0, <1>3
    DEF UnsubscribeCalled, UnsubscribeSent, UnsubscribeLost, UnsubscribeAllSent, UnsubscribeAllFails, Answering,
        Typed
  <2> QED  BY <1>0, <2>1, <2>2, EntriesKept
<1>4. ASSUME NEW c \in Callers, UnsubscribeRemoves(c) PROVE RegistryInv'
  <2> DEFINE p == pat[c]
             last == handle[c].handler \in handlers[p] /\ handlers[p] = {handle[c].handler}
  <2>1. p \in Patterns /\ ~restoring /\ UNCHANGED <<pending, restoring, rpc, pat>>
    BY <1>0, <1>4 DEF UnsubscribeRemoves, Typed, restoreVars
  <2>2. \A d \in Callers : pc'[d] \in Answering => pc[d] \in Answering
    BY SMTT(20), Z3T(20), <1>0, <1>4 DEF UnsubscribeRemoves, Answering, Typed
  <2>3. /\ \A q \in Patterns : subID'[q] = IF q = p /\ last THEN None ELSE subID[q]
        /\ \A s \in SubIds : bySubID'[s] = IF last /\ s = subID[p] THEN None ELSE bySubID[s]
    BY <1>0, <1>4, <2>1 DEF UnsubscribeRemoves, Typed
  <2> HIDE DEF last
  <2>4. \A q, r \in Patterns : subID[q] \in SubIds /\ subID[q] = subID[r] => q = r
    BY SMT DEF RegistryInv, TablesAgree
  <2>5. \A s \in SubIds :
           \/ bySubID'[s] = bySubID[s] /\ \A q \in Patterns : subID[q] = s => subID'[q] = s
           \/ bySubID'[s] = None /\ \A q \in Patterns : subID'[q] # s
    BY SMTT(20), Z3T(20), <2>1, <2>3, <2>4, RegistryAssumption
  <2> QED  BY <1>0, <2>1, <2>2, <2>3, <2>5, RemovalKeeps
<1>5. ASSUME NEW c \in Callers, Clear(c) PROVE RegistryInv'
  <2>1. /\ ~restoring /\ UNCHANGED <<pending, restoring, rpc, pat>>
        /\ \A p \in Patterns : subID'[p] = None
        /\ \A s \in SubIds : bySubID'[s] = None
    BY <1>5 DEF Clear, restoreVars
  <2>2. \A d \in Callers : pc'[d] \in Answering => pc[d] \in Answering
    BY <1>0, <1>5 DEF Clear, Answering, Typed
  <2> QED  BY <1>0, <2>1, <2>2, RemovalKeeps, RegistryAssumption
<1>6. ASSUME rpc # "send", rpc' # "send", ~restoring', UNCHANGED <<subID, bySubID, pending, callers>>
      PROVE  RegistryInv'
  <2>1. Registered' = Registered
    BY <1>6 DEF Registered
  <2> QED  BY <1>0, <1>6, <2>1 DEF RegistryInv, Exclusive, Restoring, TablesAgree, callers
<1>7. CASE SessionReplaced
  <2>1. ~restoring
    BY <1>7 DEF SessionReplaced, RegistryInv, Restoring
  <2> QED  BY <1>6, <1>7, <2>1 DEF SessionReplaced, tables
<1>9. CASE SessionAttached
  <2>1. /\ UNCHANGED <<subID, bySubID, pending, restoring, todo, restored, pc, pat>> /\ Registered' = Registered
        /\ (rpc' = "send") <=> (rpc = "send")
    BY <1>9 DEF SessionAttached, tables, callers, Registered
  <2> QED  BY <1>0, <2>1 DEF RegistryInv, Exclusive, Restoring, TablesAgree
<1>8. CASE RestoreRollsBack
  <2>1. UNCHANGED <<tables, pending, callers>> /\ restoring' = FALSE /\ rpc' = "failed"
    BY <1>8 DEF RestoreRollsBack
  <2>2. Registered' = Registered /\ UNCHANGED <<subID, bySubID, pc, pat>>
    BY <2>1 DEF Registered, tables, callers
  <2> QED  BY <1>0, <2>1, <2>2 DEF RegistryInv, Exclusive, Restoring, TablesAgree
<1> QED
  BY <1>0, <1>1, <1>2, <1>3, <1>4, <1>5, <1>7, <1>8, <1>9, SendsKeeps, RegistersKeeps, BeginsKeeps,
     RestoresKeeps, InstallsKeeps
  DEF Step, SubscribeStep, UnsubscribeStep, RestoreStep

LEMMA RegistryInitial == Init => RegistryInv
<1> SUFFICES ASSUME Init PROVE RegistryInv
  OBVIOUS
<1>1. Typed
  BY DEF Init, Typed
<1>2. Registered = {}
  BY DEF Init, Registered
<1> QED  BY <1>1, <1>2, RegistryAssumption DEF Init, RegistryInv, Exclusive, Restoring, TablesAgree, Answering

\* RegistryInv holds in every state of the registry, for every domain client and
\* for a broker that reuses identifiers and one that does not.
THEOREM RegistryInvariance == Spec => []RegistryInv
<1>1. RegistryInv /\ [Next]_vars => RegistryInv'
  <2> SUFFICES ASSUME RegistryInv, [Next]_vars PROVE RegistryInv'
    OBVIOUS
  <2>1. CASE Step
    BY <2>1, RegistryStep
  <2>2. CASE UNCHANGED vars
    <3>1. Registered' = Registered
      BY <2>2 DEF Registered, vars, tables
    <3> QED
      BY <2>2, <3>1
      DEF vars, tables, callers, restoreVars, broker, RegistryInv, Typed, Exclusive, Restoring, TablesAgree
  <2> QED  BY <2>1, <2>2 DEF Next
<1> QED  BY <1>1, RegistryInitial, PTL DEF Spec

\* byPattern and bySubID describe the same entries, also when Subscribe,
\* Unsubscribe and Clear race with Restore and responses come late.
THEOREM TablesAlwaysAgree == Spec => []TablesAgree
<1>1. RegistryInv => TablesAgree
  BY DEF RegistryInv
<1> QED  BY <1>1, RegistryInvariance, PTL

-----------------------------------------------------------------------------
(* The notice client                                                       *)

\* Handles are made by a Subscribe that shares an entry or registers one.
LEMMA HandlesKept ==
    ASSUME Typed, Handles, Step
    PROVE  Handles'
<1>1. ASSUME NEW c \in Callers, NEW s \in SubIds \cup {None}, NEW others, AddHandler(c, s, others)
      PROVE  Handles'
  BY SMTT(20), Z3T(20), <1>1 DEF AddHandler, Handles, Typed
<1>2. ASSUME NEW c \in Callers, SubscribeShares(c) PROVE Handles'
  <2>1. subID[pat[c]] \in SubIds \cup {None}
    BY <1>2 DEF SubscribeShares, Registered, Typed
  <2> QED  BY <1>1, <1>2, <2>1 DEF SubscribeShares
<1>3. ASSUME NEW c \in Callers, SubscribeRegisters(c) PROVE Handles'
  <2>1. reply[c] \in SubIds \cup {None}
    BY DEF Typed
  <2>2. CASE UNCHANGED handle
    BY <2>2 DEF Handles
  <2>3. CASE AddHandler(c, reply[c], {})
    BY <1>1, <2>1, <2>3
  <2> QED  BY <1>3, <2>2, <2>3 DEF SubscribeRegisters
<1>4. CASE UNCHANGED handle
  BY <1>4 DEF Handles
<1> QED
  BY <1>2, <1>3, <1>4
  DEF Step, SubscribeStep, UnsubscribeStep, RestoreStep, SubscribeCalled, SubscribeWaits, SubscribeSends,
      SubscribeAccepted, SubscribeRefused, UnsubscribeCalled, UnsubscribeAllSent, UnsubscribeRemoves,
      UnsubscribeSent, UnsubscribeLost, UnsubscribeAllFails, Clear, SessionReplaced, SessionAttached, RestoreBegins, RestoreSubscribes,
      RestoreRollsBack, RestoreInstalls, callers

\* Nobody learns an identifier for a pattern that had none.
LEMMA NamedKept ==
    ASSUME Named, spent \subseteq spent',
           \A s \in SubIds, p \in Patterns : Known(s, p)' => Known(s, p),
           \A c \in Callers : pc'[c] \in Holding => handle'[c].sub \in SubIds
    PROVE  Named'
BY DEF Named

\* The broker gives the pattern the identifier it has, or a new one.
LEMMA NamedGiven ==
    ASSUME Named, NEW s \in SubIds, NEW p \in Patterns, s \in Offered(p), ~reuse, Given(p, s),
           \A t \in SubIds, q \in Patterns : Known(t, q)' => Known(t, q) \/ (t = s /\ q = p),
           \A c \in Callers : pc'[c] \in Holding => handle'[c].sub \in SubIds
    PROVE  Named'
<1>1. spent' = spent \cup {s}
  BY DEF Given
<1>2. Known(s, p) \/ s \notin spent
  BY DEF Offered, Known
<1>3. \A q \in Patterns : Known(s, q) => q = p
  BY <1>2 DEF Named
<1>4. \A t \in SubIds, q \in Patterns : Known(t, q)' => t \in spent'
  BY SMTT(20), Z3T(20), <1>1 DEF Named
<1>5. \A t \in SubIds, q, r \in Patterns : Known(t, q)' /\ Known(t, r)' => q = r
  BY SMTT(20), Z3T(20), <1>3 DEF Named
<1> QED  BY <1>4, <1>5 DEF Named

\* Who has the lock is alone.
LEMMA Alone ==
    ASSUME Locked, NEW c \in Callers, pc[c] \notin {"idle", "held"}
    PROVE  operations = c /\ rpc # "send" /\ \A d \in Callers : d # c => pc[d] \in {"idle", "held"}
BY RegistryAssumption DEF Locked

LEMMA NobodyElse ==
    ASSUME Locked, operations = None \/ rpc = "send"
    PROVE  \A d \in Callers : pc[d] \in {"idle", "held"}
BY RegistryAssumption DEF Locked

\* What callers do about the lock.
LEMMA LockTaken ==
    ASSUME Locked, NEW c \in Callers, notice, Enter(c), pc'[c] \notin {"idle", "held"},
           \A d \in Callers : d # c => pc'[d] = pc[d], UNCHANGED rpc
    PROVE  Locked' /\ rpc # "send" /\ \A d \in Callers : pc[d] \in {"idle", "held"}
BY RegistryAssumption DEF Locked, Enter

LEMMA LockHeld ==
    ASSUME Locked, NEW c \in Callers, pc[c] \notin {"idle", "held"}, pc'[c] \notin {"idle", "held"},
           \A d \in Callers : d # c => pc'[d] = pc[d], UNCHANGED <<operations, rpc>>
    PROVE  Locked'
BY DEF Locked

LEMMA LockReleased ==
    ASSUME Locked, NEW c \in Callers, pc[c] \notin {"idle", "held"}, pc'[c] \in {"idle", "held"},
           \A d \in Callers : d # c => pc'[d] = pc[d], Leave, UNCHANGED rpc
    PROVE  Locked'
BY Alone, RegistryAssumption DEF Locked, Leave

\* A caller goes on: the broker and the tables stay as they are, and its handle
\* has an identifier that is known for its pattern.
LEMMA CallerMoves ==
    ASSUME Named, Served, NEW c \in Callers, UNCHANGED <<subID, wire, restored, spent, rpc, forgotten>>,
           \A d \in Callers : d # c =>
               pc'[d] = pc[d] /\ pat'[d] = pat[d] /\ reply'[d] = reply[d] /\ handle'[d] = handle[d],
           pc'[c] # "unwire",
           pc'[c] = "register" => reply'[c] = None,
           pc'[c] \in Holding => handle'[c].sub \in SubIds /\ Known(handle'[c].sub, pat'[c])
    PROVE  Named' /\ Served'
<1>1. ASSUME NEW s \in SubIds, NEW p \in Patterns, Known(s, p)' PROVE Known(s, p)
  <2>1. CASE wire[p] = s \/ subID[p] = s \/ restored[p] = s
    BY <2>1 DEF Known
  <2>2. ASSUME NEW d \in Callers, pat'[d] = p, pc'[d] = "register", reply'[d] = s PROVE Known(s, p)
    <3>1. d # c
      BY <2>2, RegistryAssumption
    <3> QED  BY <2>2, <3>1 DEF Known
  <2>3. ASSUME NEW d \in Callers, pat'[d] = p, pc'[d] \in Holding, handle'[d].sub = s PROVE Known(s, p)
    <3>1. CASE d = c
      BY <2>3, <3>1
    <3>2. CASE d # c
      BY <2>3, <3>2 DEF Known
    <3> QED  BY <3>1, <3>2
  <2> QED  BY <1>1, <2>1, <2>2, <2>3 DEF Known
<1>2. Named'
  <2>1. \A d \in Callers : pc'[d] \in Holding => handle'[d].sub \in SubIds
    BY DEF Named
  <2> QED  BY <1>1, <2>1, NamedKept
<1>3. Served'
  <2>1. Registered' = Registered
    BY DEF Registered
  <2>2. Wired => Wired'
    BY <2>1 DEF Wired
  <2>3. \A d \in Callers : pc'[d] = "register" /\ reply'[d] # None => d # c
    OBVIOUS
  <2> QED  BY SMTT(20), Z3T(20), <2>1, <2>2, <2>3 DEF Served
<1> QED  BY <1>2, <1>3

\* A step of a caller that changes neither the broker nor the tables.
LEMMA CallerKeeps ==
    ASSUME RegistryInv, Noticed, NoticeInv, Handles', NEW c \in Callers,
           \/ \E p \in Patterns : SubscribeCalled(c, p)
           \/ SubscribeShares(c) \/ SubscribeWaits(c) \/ SubscribeSends(c) \/ SubscribeRefused(c)
           \/ UnsubscribeCalled(c) \/ UnsubscribeLost(c) \/ UnsubscribeAllFails(c)
    PROVE  NoticeInv'
<1>0. Typed /\ Handles /\ Named /\ Locked /\ Served /\ notice
  BY DEF RegistryInv, NoticeInv, Noticed
<1>1. ASSUME Named' /\ Served', Locked' PROVE NoticeInv'
  BY <1>1 DEF NoticeInv
<1> USE DEF Holding, Removing
<1>2. ASSUME NEW p \in Patterns, SubscribeCalled(c, p) PROVE NoticeInv'
  <2>1. Named' /\ Served'
    BY <1>0, <1>2, CallerMoves DEF SubscribeCalled, Typed, tables, restoreVars, broker
  <2>2. Locked'
    BY <1>0, <1>2, LockTaken DEF SubscribeCalled, Typed, restoreVars
  <2> QED  BY <1>1, <2>1, <2>2
<1>3. CASE SubscribeShares(c)
  <2>1. pat[c] \in Registered /\ subID[pat[c]] \in SubIds /\ Known(subID[pat[c]], pat[c])
    BY <1>0, <1>3 DEF SubscribeShares, Registered, Typed, Known
  <2>2. /\ handle'[c].sub = subID[pat[c]] /\ pc'[c] = "held" /\ UNCHANGED pat
        /\ \A d \in Callers : d # c => handle'[d] = handle[d] /\ pc'[d] = pc[d]
        /\ UNCHANGED <<subID, wire, restored, spent, rpc, reply, forgotten>>
    BY <1>0, <1>3 DEF SubscribeShares, AddHandler, Handles, Typed, restoreVars, broker
  <2>3. Named' /\ Served'
    BY <1>0, <1>3, <2>1, <2>2, CallerMoves DEF SubscribeShares
  <2>4. Locked'
    BY <1>0, <1>3, <2>2, LockReleased DEF SubscribeShares
  <2> QED  BY <1>1, <2>3, <2>4
<1>4. CASE SubscribeWaits(c) \/ SubscribeSends(c) \/ SubscribeRefused(c)
  <2>1. Named' /\ Served'
    BY <1>0, <1>4, CallerMoves
    DEF SubscribeWaits, SubscribeSends, SubscribeRefused, Typed, tables, restoreVars, broker
  <2>2. Locked'
    BY <1>0, <1>4, LockHeld DEF SubscribeWaits, SubscribeSends, SubscribeRefused, Typed, restoreVars
  <2> QED  BY <1>1, <2>1, <2>2
<1>5. CASE UnsubscribeCalled(c)
  <2>1. pat[c] \in Patterns /\ handle[c].sub \in SubIds /\ Known(handle[c].sub, pat[c])
    BY <1>0, <1>5 DEF UnsubscribeCalled, Typed, Named, Known
  <2>2. Named' /\ Served'
    BY <1>0, <1>5, <2>1, CallerMoves DEF UnsubscribeCalled, Typed, tables, restoreVars, broker
  <2>3. Locked'
    BY <1>0, <1>5, LockTaken DEF UnsubscribeCalled, Typed, restoreVars
  <2> QED  BY <1>1, <2>2, <2>3
<1>6. CASE UnsubscribeLost(c) \/ UnsubscribeAllFails(c)
  <2>1. Named' /\ Served'
    BY <1>0, <1>6, CallerMoves DEF UnsubscribeLost, UnsubscribeAllFails, Typed, tables, restoreVars, broker
  <2>2. Locked'
    BY <1>0, <1>6, LockReleased DEF UnsubscribeLost, UnsubscribeAllFails, Typed, restoreVars
  <2> QED  BY <1>1, <2>1, <2>2
<1> QED  BY <1>2, <1>3, <1>4, <1>5, <1>6

LEMMA AcceptedKeeps ==
    ASSUME RegistryInv, Noticed, NoticeInv, Handles', NEW c \in Callers, SubscribeAccepted(c)
    PROVE  NoticeInv'
<1>0. Typed /\ Exclusive /\ Named /\ Locked /\ Served /\ ~reuse
  BY DEF RegistryInv, NoticeInv, Noticed
<1>1. PICK s \in Offered(pat[c]) :
            Given(pat[c], s) /\ \E r \in {s, None} : reply' = [reply EXCEPT ![c] = r]
  BY DEF SubscribeAccepted
<1>2. pat[c] \in Patterns /\ s \in SubIds /\ pat[c] \notin Registered /\ pc[c] = "subscribing"
  BY SMTT(20), Z3T(20), <1>0, <1>1 DEF SubscribeAccepted, Offered, Typed, Exclusive, Answering
<1>3. /\ pc'[c] = "register" /\ reply'[c] \in {s, None}
      /\ \A d \in Callers : d # c => pc'[d] = pc[d] /\ reply'[d] = reply[d]
      /\ wire'[pat[c]] = s /\ \A q \in Patterns : q # pat[c] => wire'[q] = wire[q]
      /\ UNCHANGED <<subID, restored, pat, handle, rpc, operations, forgotten>>
  BY <1>0, <1>1, <1>2 DEF SubscribeAccepted, Given, Typed, tables, restoreVars
<1>4. rpc # "send" /\ \A d \in Callers : d # c => pc[d] \in {"idle", "held"}
  BY <1>0, <1>2, Alone
<1>5. Named'
  <2>1. \A t \in SubIds, q \in Patterns : Known(t, q)' => Known(t, q) \/ (t = s /\ q = pat[c])
    BY SMTT(20), Z3T(20), <1>3, RegistryAssumption DEF Known, Holding, Removing
  <2>2. \A d \in Callers : pc'[d] \in Holding => handle'[d].sub \in SubIds
    BY <1>0, <1>3 DEF Named, Holding, Removing
  <2> QED  BY <1>0, <1>1, <1>2, <2>1, <2>2, NamedGiven
<1>6. Locked'
  BY <1>0, <1>2, <1>3, LockHeld
<1>7. Served'
  <2>1. Registered' = Registered
    BY <1>3 DEF Registered
  <2>2. rpc = "idle" /\ ~forgotten => Wired
    BY <1>0 DEF Served
  <2>3. Wired => Wired'
    BY <1>2, <1>3, <2>1 DEF Wired, Registered
  <2>4. \A d \in Callers : d # c => pc'[d] \notin {"register", "unwire"}
    BY <1>3, <1>4
  <2> QED  BY <1>3, <1>4, <2>2, <2>3, <2>4 DEF Served
<1> QED  BY <1>5, <1>6, <1>7 DEF NoticeInv

LEMMA RegisteredKeeps ==
    ASSUME RegistryInv, Noticed, NoticeInv, Handles', NEW c \in Callers, SubscribeRegisters(c)
    PROVE  NoticeInv'
<1>0. Typed /\ Handles /\ Named /\ Locked /\ Served
  BY DEF RegistryInv, NoticeInv
<1>1. pat[c] \in Patterns /\ pc[c] = "register"
  BY <1>0 DEF SubscribeRegisters, Typed
<1>2. rpc # "send" /\ \A d \in Callers : d # c => pc[d] \in {"idle", "held"}
  BY <1>0, <1>1, Alone
<1>3. /\ \A d \in Callers : d # c => pc'[d] = pc[d]
      /\ pc'[c] \in {"idle", "held"}
      /\ UNCHANGED <<restored, pat, wire, spent, rpc, forgotten>> /\ Leave
  BY <1>0, <1>1, <1>2 DEF SubscribeRegisters, Typed, restoreVars, broker
<1>4. \A d \in Callers : pc'[d] \in {"idle", "held"}
  BY <1>2, <1>3
<1>5. Locked'
  BY <1>0, <1>1, <1>3, LockReleased
<1>6. rpc = "idle" /\ ~forgotten => Wired
  BY <1>0 DEF Served
<1>7. CASE SubscribeFails(reply[c])
  <2>1. UNCHANGED <<subID, handle>> /\ pc'[c] = "idle"
    BY <1>7 DEF SubscribeRegisters, tables
  <2>2. Named'
    <3>1. \A t \in SubIds, q \in Patterns : Known(t, q)' => Known(t, q)
      BY <1>3, <1>4, <2>1 DEF Known, Holding, Removing
    <3>2. \A d \in Callers : pc'[d] \in Holding => handle'[d].sub \in SubIds
      BY <1>0, <1>3, <2>1 DEF Named, Holding, Removing
    <3> QED  BY <1>0, <1>3, <3>1, <3>2, NamedKept
  <2>3. Wired => Wired'
    BY <1>3, <2>1 DEF Wired, Registered
  <2>4. Served'
    BY <1>2, <1>3, <1>4, <1>6, <2>3 DEF Served
  <2> QED  BY <1>5, <2>2, <2>4 DEF NoticeInv
<1>8. CASE ~SubscribeFails(reply[c])
  <2>1. reply[c] \in SubIds
    BY <1>0, <1>8 DEF SubscribeFails, Typed
  <2>2. /\ subID'[pat[c]] = reply[c] /\ \A q \in Patterns : q # pat[c] => subID'[q] = subID[q]
        /\ handle'[c].sub = reply[c] /\ \A d \in Callers : d # c => handle'[d] = handle[d]
    BY SMTT(20), Z3T(20), <1>0, <1>1, <1>8 DEF SubscribeRegisters, AddHandler, Typed, Handles
  <2>3. Known(reply[c], pat[c])
    BY SMTT(20), Z3T(20), <1>1 DEF Known
  <2>4. Named'
    <3>1. \A t \in SubIds, q \in Patterns : Known(t, q)' => Known(t, q)
      BY SMTT(20), Z3T(20), <1>3, <1>4, <2>2, <2>3 DEF Known, Holding, Removing
    <3>2. \A d \in Callers : pc'[d] \in Holding => handle'[d].sub \in SubIds
      BY <1>0, <1>3, <2>1, <2>2 DEF Named
    <3> QED  BY <1>0, <1>3, <3>1, <3>2, NamedKept
  <2>5. rpc = "idle" /\ ~forgotten => Wired'
    <3>1. rpc = "idle" /\ ~forgotten => wire[pat[c]] = reply[c]
      BY <1>0, <1>1, <2>1, RegistryAssumption DEF Served
    <3> QED  BY <1>3, <1>6, <2>2, <3>1 DEF Wired, Registered
  <2>6. Served'
    BY <1>2, <1>3, <1>4, <2>5 DEF Served
  <2> QED  BY <1>5, <2>4, <2>6 DEF NoticeInv
<1> QED  BY <1>7, <1>8

LEMMA RemovedKeeps ==
    ASSUME RegistryInv, Noticed, NoticeInv, Handles', NEW c \in Callers, UnsubscribeRemoves(c)
    PROVE  NoticeInv'
<1>0. Typed /\ Named /\ Locked /\ Served
  BY DEF RegistryInv, NoticeInv
<1>1. pat[c] \in Patterns /\ pc[c] = "remove"
  BY <1>0 DEF UnsubscribeRemoves, Typed
<1>2. rpc # "send" /\ \A d \in Callers : d # c => pc[d] \in {"idle", "held"}
  BY <1>0, <1>1, Alone
<1>3. /\ \A d \in Callers : d # c => pc'[d] = pc[d]
      /\ \A q \in Patterns : q # pat[c] => subID'[q] = subID[q]
      /\ UNCHANGED <<restored, pat, wire, spent, rpc, handle, forgotten>>
      /\ \/ pc'[c] = "unwire" /\ subID'[pat[c]] = None /\ UNCHANGED operations
         \/ pc'[c] = "idle" /\ subID'[pat[c]] = subID[pat[c]] /\ Leave
  BY <1>0, <1>1 DEF UnsubscribeRemoves, Typed, restoreVars, broker
<1>4. Named'
  <2>1. \A t \in SubIds, q \in Patterns : Known(t, q)' => Known(t, q)
    BY SMTT(20), Z3T(20), <1>1, <1>2, <1>3, RegistryAssumption DEF Known, Holding, Removing
  <2>2. \A d \in Callers : pc'[d] \in Holding => handle'[d].sub \in SubIds
    BY <1>0, <1>1, <1>3 DEF Named, Holding, Removing
  <2> QED  BY <1>0, <1>3, <2>1, <2>2, NamedKept
<1>5. Locked'
  BY <1>0, <1>1, <1>3, LockHeld, LockReleased
<1>6. Served'
  <2>1. rpc = "idle" /\ ~forgotten => Wired
    BY <1>0 DEF Served
  <2>2. Wired => Wired'
    BY <1>1, <1>3 DEF Wired, Registered
  <2>3. \A d \in Callers : /\ pc'[d] # "register"
                           /\ pc'[d] = "unwire" => d = c /\ pat'[d] \notin Registered'
    BY <1>2, <1>3 DEF Registered
  <2> QED  BY <1>2, <1>3, <2>1, <2>2, <2>3 DEF Served
<1> QED  BY <1>4, <1>5, <1>6 DEF NoticeInv

LEMMA UnwiredKeeps ==
    ASSUME RegistryInv, Noticed, NoticeInv, Handles', NEW c \in Callers, UnsubscribeSent(c)
    PROVE  NoticeInv'
<1>0. Typed /\ Named /\ Locked /\ Served /\ notice
  BY DEF RegistryInv, NoticeInv, Noticed
<1>1. pat[c] \in Patterns /\ pc[c] = "unwire" /\ pat[c] \notin Registered
  BY <1>0 DEF UnsubscribeSent, Typed, Served
<1>2. rpc # "send" /\ \A d \in Callers : d # c => pc[d] \in {"idle", "held"}
  BY <1>0, <1>1, Alone
<1>3. /\ \A d \in Callers : d # c => pc'[d] = pc[d]
      /\ pc'[c] = "idle" /\ Leave
      /\ \A q \in Patterns : wire'[q] = IF wire[q] = handle[c].sub THEN None ELSE wire[q]
      /\ UNCHANGED <<subID, restored, pat, spent, rpc, handle, forgotten>>
  BY <1>0, <1>1 DEF UnsubscribeSent, Typed, tables, restoreVars
\* The handle's identifier is that of no other pattern.
<1>4. \A q \in Patterns : wire[q] = handle[c].sub => q = pat[c]
  <2>1. handle[c].sub \in SubIds /\ Known(handle[c].sub, pat[c])
    BY <1>0, <1>1 DEF Named, Known, Holding, Removing
  <2>2. \A q \in Patterns : wire[q] = handle[c].sub => Known(handle[c].sub, q)
    BY DEF Known
  <2> QED  BY <1>0, <1>1, <2>1, <2>2 DEF Named
<1>5. Named'
  <2>1. \A t \in SubIds, q \in Patterns : Known(t, q)' => Known(t, q)
    BY SMTT(20), Z3T(20), <1>1, <1>2, <1>3, RegistryAssumption DEF Known, Holding, Removing
  <2>2. \A d \in Callers : pc'[d] \in Holding => handle'[d].sub \in SubIds
    BY <1>0, <1>1, <1>3 DEF Named, Holding, Removing
  <2> QED  BY <1>0, <1>3, <2>1, <2>2, NamedKept
<1>6. Locked'
  BY <1>0, <1>1, <1>3, LockReleased
<1>7. Served'
  <2>1. rpc = "idle" /\ ~forgotten => Wired
    BY <1>0 DEF Served
  <2>2. Wired => Wired'
    BY <1>1, <1>3, <1>4 DEF Wired, Registered
  <2>3. \A d \in Callers : pc'[d] \notin {"register", "unwire"}
    BY <1>2, <1>3
  <2> QED  BY <1>2, <1>3, <2>1, <2>2, <2>3 DEF Served
<1> QED  BY <1>5, <1>6, <1>7 DEF NoticeInv

\* UnsubscribeAll at the broker, then Clear.
LEMMA ClearedKeeps ==
    ASSUME RegistryInv, Noticed, NoticeInv, Handles', NEW c \in Callers, UnsubscribeAllSent(c) \/ Clear(c)
    PROVE  NoticeInv'
<1>0. Typed /\ Named /\ Locked /\ Served /\ notice
  BY DEF RegistryInv, NoticeInv, Noticed
<1>1. /\ \A d \in Callers : d # c => pc'[d] = pc[d]
      /\ pc[c] \in {"idle", "clear"} /\ pc'[c] \in {"idle", "clear"}
      /\ UNCHANGED <<restored, pat, reply, spent, rpc, handle>>
      /\ \A q \in Patterns : wire'[q] \in {wire[q], None} /\ subID'[q] \in {subID[q], None}
  BY <1>0 DEF UnsubscribeAllSent, Clear, Typed, tables, restoreVars, broker
<1>2. Named'
  <2>1. \A t \in SubIds, q \in Patterns : Known(t, q)' => Known(t, q)
    BY SMTT(20), Z3T(20), <1>1, RegistryAssumption DEF Known, Holding, Removing
  <2>2. \A d \in Callers : pc'[d] \in Holding => handle'[d].sub \in SubIds
    BY <1>0, <1>1 DEF Named, Holding, Removing
  <2> QED  BY <1>0, <1>1, <2>1, <2>2, NamedKept
<1>3. CASE UnsubscribeAllSent(c)
  <2>1. Locked' /\ rpc # "send" /\ \A d \in Callers : pc[d] \in {"idle", "held"}
    BY <1>0, <1>1, <1>3, LockTaken DEF UnsubscribeAllSent, Typed
  <2>2. forgotten' /\ \A d \in Callers : pc'[d] \notin {"register", "unwire"}
    BY <1>0, <1>1, <1>3, <2>1 DEF UnsubscribeAllSent, Typed
  <2>3. Served'
    BY <1>1, <2>1, <2>2 DEF Served
  <2> QED  BY <1>2, <2>1, <2>3 DEF NoticeInv
<1>4. CASE Clear(c)
  <2>1. pc[c] = "clear" /\ pc'[c] = "idle" /\ Leave /\ Registered' = {}
    BY <1>0, <1>4 DEF Clear, Typed, Registered
  <2>2. rpc # "send" /\ \A d \in Callers : d # c => pc[d] \in {"idle", "held"}
    BY <1>0, <2>1, Alone
  <2>3. Locked'
    BY <1>0, <1>1, <2>1, LockReleased
  <2>4. Served'
    BY <1>1, <2>1, <2>2 DEF Served, Wired
  <2> QED  BY <1>2, <2>3, <2>4 DEF NoticeInv
<1> QED  BY <1>3, <1>4

\* Steps of the reconnect loop leave the callers alone.
LEMMA NamedByRestore ==
    ASSUME Named, UNCHANGED callers, spent \subseteq spent',
           \A q \in Patterns : /\ wire'[q] \in {wire[q], None} /\ subID'[q] \in {subID[q], restored[q]}
                              /\ restored'[q] \in {restored[q], None}
    PROVE  Named'
<1>1. \A t \in SubIds, q \in Patterns : Known(t, q)' => Known(t, q)
  BY RegistryAssumption DEF Known, callers
<1>2. \A d \in Callers : pc'[d] \in Holding => handle'[d].sub \in SubIds
  BY DEF Named, callers
<1> QED  BY <1>1, <1>2, NamedKept

LEMMA BegunKeeps ==
    ASSUME RegistryInv, Noticed, NoticeInv, Handles', SessionReplaced \/ SessionAttached \/ RestoreBegins
    PROVE  NoticeInv'
<1>0. Typed /\ Exclusive /\ Named /\ Locked /\ Served /\ notice
  BY DEF RegistryInv, NoticeInv, Noticed
<1>1. UNCHANGED <<pc, pat, reply, handle, subID, spent>> /\ UNCHANGED callers /\ Registered' = Registered
  BY DEF SessionReplaced, SessionAttached, RestoreBegins, tables, callers, broker, Registered
<1>2. Named'
  <2>1. CASE SessionReplaced \/ SessionAttached
    <3>1. UNCHANGED restored /\ \A q \in Patterns : wire'[q] = None
      BY <2>1 DEF SessionReplaced, SessionAttached
    <3> QED  BY <1>0, <1>1, <3>1, NamedByRestore
  <2>2. CASE RestoreBegins
    <3>1. UNCHANGED wire /\ \A q \in Patterns : restored'[q] \in {restored[q], None}
      BY <2>2 DEF RestoreBegins, broker
    <3> QED  BY <1>0, <1>1, <3>1, NamedByRestore
  <2> QED  BY <2>1, <2>2
<1>3. CASE SessionReplaced
  <2>1. rpc # "send" /\ rpc' = "lock" /\ UNCHANGED operations
    BY <1>3 DEF SessionReplaced
  <2>2. Locked'
    BY <1>0, <1>1, <2>1 DEF Locked
  <2>3. Served'
    BY <1>0, <1>1, <2>1 DEF Served
  <2> QED  BY <1>2, <2>2, <2>3 DEF NoticeInv
<1>5. CASE SessionAttached
  <2>1. ((rpc' = "send") <=> (rpc = "send")) /\ forgotten' /\ UNCHANGED operations
    BY <1>5 DEF SessionAttached
  <2>2. Locked'
    BY <1>0, <1>1, <2>1 DEF Locked
  <2>3. Served'
    BY <1>0, <1>1, <2>1 DEF Served
  <2> QED  BY <1>2, <2>2, <2>3 DEF NoticeInv
<1>4. CASE RestoreBegins
  <2>1. rpc = "lock" /\ operations = None
    BY <1>0, <1>4 DEF RestoreBegins, Enter
  <2>2. \A d \in Callers : pc[d] \in {"idle", "held"}
    BY <1>0, <2>1, NobodyElse
  <2>3. CASE Registered = {}
    <3>1. rpc' = "idle" /\ UNCHANGED operations
      BY <1>4, <2>3 DEF RestoreBegins
    <3>2. Locked'
      BY <1>0, <1>1, <2>1, <3>1 DEF Locked
    <3>3. Wired'
      BY <1>1, <2>3 DEF Wired
    <3>4. Served'
      BY <1>1, <2>2, <3>1, <3>3 DEF Served
    <3> QED  BY <1>2, <3>2, <3>4 DEF NoticeInv
  <2>4. CASE Registered # {}
    <3>1. rpc' = "send" /\ operations' = Restorer /\ \A q \in Patterns : restored'[q] = None
      BY <1>0, <1>4, <2>4 DEF RestoreBegins, Enter
    <3>2. Locked'
      BY <1>1, <2>2, <3>1, RegistryAssumption DEF Locked
    <3>3. Served'
      BY <1>1, <2>2, <3>1 DEF Served
    <3> QED  BY <1>2, <3>2, <3>3 DEF NoticeInv
  <2> QED  BY <2>3, <2>4
<1> QED  BY <1>3, <1>4, <1>5

LEMMA ResubscribedKeeps ==
    ASSUME RegistryInv, Noticed, NoticeInv, Handles', NEW p \in Patterns, RestoreSubscribes(p)
    PROVE  NoticeInv'
<1>0. Typed /\ Named /\ Locked /\ Served /\ ~reuse /\ rpc = "send"
  BY DEF RegistryInv, NoticeInv, Noticed, RestoreSubscribes
<1>1. PICK s \in Offered(p) : Given(p, s) /\ restored' = [restored EXCEPT ![p] = s]
  BY DEF RestoreSubscribes
<1>2. s \in SubIds
  BY <1>0, <1>1 DEF Offered, Typed
<1>3. /\ wire'[p] = s /\ restored'[p] = s
      /\ \A q \in Patterns : q # p => wire'[q] = wire[q] /\ restored'[q] = restored[q]
      /\ UNCHANGED <<subID, pc, pat, reply, handle, rpc, operations, forgotten>>
  BY <1>0, <1>1, <1>2 DEF RestoreSubscribes, Given, Typed, tables, callers
<1>4. \A d \in Callers : pc[d] \in {"idle", "held"}
  BY <1>0, NobodyElse
<1>5. Named'
  <2>1. \A t \in SubIds, q \in Patterns : Known(t, q)' => Known(t, q) \/ (t = s /\ q = p)
    BY <1>3 DEF Known
  <2>2. \A d \in Callers : pc'[d] \in Holding => handle'[d].sub \in SubIds
    BY <1>0, <1>3 DEF Named
  <2> QED  BY <1>0, <1>1, <1>2, <2>1, <2>2, NamedGiven
<1>6. Locked'
  BY <1>0, <1>3 DEF Locked
<1>7. Served'
  BY <1>0, <1>3, <1>4 DEF Served
<1> QED  BY <1>5, <1>6, <1>7 DEF NoticeInv

\* An identifier that another entry has got cannot be new: it is the one the
\* broker has for the pattern.
LEMMA RolledBackKeeps ==
    ASSUME RegistryInv, Noticed, NoticeInv, Handles', RestoreRollsBack
    PROVE  NoticeInv'
<1>0. Typed /\ Named /\ Locked /\ Served /\ ~reuse /\ rpc = "send"
  BY DEF RegistryInv, NoticeInv, Noticed, RestoreRollsBack
<1>1. /\ UNCHANGED <<subID, pc, pat, reply, handle, spent, callers>>
      /\ rpc' = "failed" /\ Leave /\ \A q \in Patterns : restored'[q] = None
  BY DEF RestoreRollsBack, tables, callers
<1>2. PICK p \in todo : \E s \in {None} \cup (Offered(p) \cap Range(restored)) :
             \E gone \in SUBSET Patterns :
                wire' = [q \in Patterns |-> IF q \in gone THEN None
                                            ELSE (IF s = None THEN wire ELSE [wire EXCEPT ![p] = s])[q]]
  BY SMTT(20), Z3T(20) DEF RestoreRollsBack
<1>3. PICK s \in {None} \cup (Offered(p) \cap Range(restored)) :
         \E gone \in SUBSET Patterns :
            wire' = [q \in Patterns |-> IF q \in gone THEN None
                                        ELSE (IF s = None THEN wire ELSE [wire EXCEPT ![p] = s])[q]]
  BY <1>2
<1>4. p \in Patterns
  BY <1>0 DEF Typed
<1>5. s = None \/ s = wire[p]
  <2> SUFFICES ASSUME s # None, wire[p] = None PROVE FALSE
    BY <1>3 DEF Offered
  <2>1. s \in SubIds \ spent /\ s \in Range(restored)
    BY <1>0, <1>3 DEF Offered
  <2>2. PICK q \in Patterns : restored[q] = s
    BY <1>0, <2>1 DEF Range, Typed
  <2> QED  BY <1>0, <2>1, <2>2 DEF Named, Known
<1>6. \A q \in Patterns : wire'[q] \in {wire[q], None}
  BY <1>0, <1>3, <1>4, <1>5 DEF Typed
<1>7. Named'
  BY <1>0, <1>1, <1>6, NamedByRestore
<1>8. \A d \in Callers : pc[d] \in {"idle", "held"}
  BY <1>0, NobodyElse
<1>9. Locked'
  BY <1>1, <1>8, RegistryAssumption DEF Locked, Leave
<1>10. Served'
  BY <1>1, <1>8 DEF Served
<1> QED  BY <1>7, <1>9, <1>10 DEF NoticeInv

LEMMA InstalledKeeps ==
    ASSUME RegistryInv, Noticed, NoticeInv, Handles', RestoreInstalls
    PROVE  NoticeInv'
<1>0. Typed /\ Restoring /\ Named /\ Locked /\ Served /\ rpc = "send" /\ todo = {}
  BY DEF RegistryInv, NoticeInv, RestoreInstalls
<1>1. /\ UNCHANGED <<pc, pat, reply, handle, wire, spent, callers, forgotten>>
      /\ rpc' = "idle" /\ Leave /\ \A q \in Patterns : restored'[q] = None
      /\ \A q \in Patterns : subID'[q] = IF restored[q] # None THEN restored[q] ELSE subID[q]
  BY DEF RestoreInstalls, callers, broker
<1>2. Named'
  BY <1>0, <1>1, NamedByRestore
<1>3. \A d \in Callers : pc[d] \in {"idle", "held"}
  BY <1>0, NobodyElse
<1>4. Locked'
  BY <1>1, <1>3, RegistryAssumption DEF Locked, Leave
<1>5. ~forgotten => Wired'
  <2> SUFFICES ASSUME ~forgotten PROVE Wired'
    OBVIOUS
  <2>1. \A q \in Registered' : restored[q] # None
    BY <1>0, <1>1 DEF Restoring, Registered
  <2>2. \A q \in Patterns : restored[q] # None => wire[q] = restored[q]
    BY <1>0 DEF Served
  <2> QED  BY <1>1, <2>1, <2>2 DEF Wired, Registered
<1>6. Served'
  BY <1>1, <1>3, <1>5 DEF Served
<1> QED  BY <1>2, <1>4, <1>6 DEF NoticeInv

LEMMA NoticeStep ==
    ASSUME RegistryInv, Noticed, NoticeInv, Step
    PROVE  NoticeInv'
<1>1. Handles'
  BY HandlesKept DEF RegistryInv, NoticeInv
<1>2. ASSUME NEW c \in Callers,
             \/ \E p \in Patterns : SubscribeCalled(c, p)
             \/ SubscribeStep(c)
             \/ UnsubscribeCalled(c) \/ UnsubscribeAllSent(c) \/ UnsubscribeStep(c)
      PROVE  NoticeInv'
  BY <1>1, <1>2, CallerKeeps, AcceptedKeeps, RegisteredKeeps, RemovedKeeps, UnwiredKeeps, ClearedKeeps
  DEF SubscribeStep, UnsubscribeStep
<1>3. CASE SessionReplaced \/ SessionAttached \/ RestoreStep
  BY <1>1, <1>3, BegunKeeps, ResubscribedKeeps, RolledBackKeeps, InstalledKeeps DEF RestoreStep
<1> QED  BY <1>2, <1>3 DEF Step

LEMMA NoticeInitial == Init => NoticeInv
<1> SUFFICES ASSUME Init PROVE NoticeInv
  OBVIOUS
<1>1. Registered = {} /\ Wired
  BY DEF Init, Registered, Wired
<1>2. Handles /\ Named
  BY RegistryAssumption DEF Init, Handles, Named, Known, Holding, Removing
<1>3. Locked /\ Served
  BY <1>1, RegistryAssumption DEF Init, Locked, Served
<1> QED  BY <1>2, <1>3 DEF NoticeInv

\* Whatever Subscribe, Unsubscribe, UnsubscribeAll, lost sessions, failed and
\* repeated restores did before, the notice client's registered patterns are
\* subscribed at the broker, under the identifiers of the table, once nothing
\* is in progress.  Left out is the time from an UnsubscribeAll whose response
\* was lost, or from a Connect of the application, to the next restore or
\* acknowledged UnsubscribeAll; and the broker does not reuse identifiers.
THEOREM ActiveIsAlwaysWired == Spec => []ActiveIsWired
<1> DEFINE I == Noticed => NoticeInv
<1>1. Init => I
  BY NoticeInitial
<1>2. I /\ RegistryInv /\ [Next]_vars => I'
  <2> SUFFICES ASSUME I, RegistryInv, [Next]_vars, Noticed' PROVE NoticeInv'
    OBVIOUS
  <2>1. Noticed
    <3>1. UNCHANGED modes
      BY DEF Next, vars
    <3> QED  BY <3>1 DEF Noticed, modes
  <2>2. CASE Step
    BY <2>1, <2>2, NoticeStep
  <2>3. CASE UNCHANGED vars
    <3>1. Wired' = Wired /\ Registered' = Registered
      BY <2>3 DEF Wired, Registered, vars, tables, broker
    <3>2. Named'
      <4>1. Named /\ UNCHANGED <<callers, spent, wire, subID, restored>>
        BY <2>1, <2>3 DEF NoticeInv, vars, tables, restoreVars, broker
      <4> QED  BY <4>1, NamedByRestore
    <3>3. Handles' /\ Locked' /\ Served'
      BY <2>1, <2>3, <3>1 DEF NoticeInv, Handles, Locked, Served, vars, callers, restoreVars, broker
    <3> QED  BY <3>2, <3>3 DEF NoticeInv
  <2> QED  BY <2>2, <2>3 DEF Next
<1>3. I => ActiveIsWired
  BY DEF ActiveIsWired, Noticed, NoticeInv, Served, Quiet
<1> QED  BY <1>1, <1>2, <1>3, RegistryInvariance, PTL DEF Spec

-----------------------------------------------------------------------------
(* The client                                                              *)

\* Where a goroutine has a connection that it has dialed and nobody watches.
Carrying == {"attach", "store", "bind"}

ClientTyped ==
    /\ stage \in [Procs -> {"idle", "none", "watch", "clear", "begin", "ended"} \cup Looping]
    /\ fresh \in [Procs -> Conns \cup {Nil}]
    /\ status \in [Conns -> {"unused", "live", "dead"}]

\* Users and monitors each keep to their own part of the code.
Places ==
    /\ \A u \in Users : stage[u] \in {"idle", "dial"} \cup Carrying
    /\ \A k \in Conns : stage[k] # "idle"

\* A dialed connection is with one goroutine, and its monitor has not started.
InTransit ==
    /\ \A p \in Procs : (fresh[p] # Nil) <=> (stage[p] \in Carrying \cup {"restore"})
    /\ \A p \in Procs : stage[p] \in Carrying => stage[fresh[p]] = "none"
    /\ \A p, q \in Procs : stage[p] \in Carrying /\ fresh[q] = fresh[p] => p = q
    /\ \A k \in Conns : status[k] = "unused" => stage[k] = "none"
    /\ \A p \in Procs : fresh[p] # Nil => status[fresh[p]] # "unused"

\* c.conn has been dialed.
Current == conn # Nil => conn \in Conns /\ status[conn] # "unused"

Attached == ClientTyped /\ Places /\ InTransit /\ LiveIsWatched

ClientInv == Attached /\ Current /\ reconnecting \in BOOLEAN /\ OneLoop

-----------------------------------------------------------------------------

LEMMA ClientInitial == ClientInit => ClientInv
<1> SUFFICES ASSUME ClientInit PROVE ClientInv
  OBVIOUS
<1> USE ClientLifecycleAssumption DEF ClientInit, Procs, Carrying, Looping
<1>1. ClientTyped
  BY DEF ClientTyped
<1>2. Places
  BY DEF Places
<1>3. InTransit
  BY DEF InTransit
<1>4. OneLoop
  BY DEF OneLoop
<1>5. LiveIsWatched
  BY DEF LiveIsWatched
<1> QED  BY <1>1, <1>2, <1>3, <1>4, <1>5 DEF ClientInv, Attached, Current

\* A goroutine goes on, with the connection it has dialed if it has one.
LEMMA Moves ==
    ASSUME Attached, NEW p \in Procs, NEW at, Go(p, at), UNCHANGED <<fresh, status>>,
           at \in {"watch", "clear", "begin", "ended"} \cup Looping,
           p \in Users => at \in {"dial"} \cup Carrying,
           (stage[p] \in Carrying) <=> (at \in Carrying),
           (stage[p] = "restore") <=> (at = "restore"),
           stage[p] # "none", stage[p] = "watch" => status[p] # "live"
    PROVE  Attached'
<1>1. stage'[p] = at /\ \A q \in Procs : q # p => stage'[q] = stage[q]
  BY DEF Attached, ClientTyped, Go
<1>2. ClientTyped'
  BY DEF Attached, ClientTyped, Go
<1>3. Places'
  BY <1>1, ClientLifecycleAssumption DEF Attached, Places, Procs, Looping
<1>4. InTransit'
  <2>1. \A q \in Procs : (stage'[q] \in Carrying <=> stage[q] \in Carrying) /\ (stage'[q] = "restore" <=> stage[q] = "restore")
    BY <1>1
  <2>2. \A k \in Conns : stage[k] = "none" => stage'[k] = "none"
    BY <1>1 DEF Procs
  <2>3. \A q \in Procs : stage[q] \in Carrying => fresh[q] \in Conns
    BY DEF Attached, ClientTyped, InTransit
  <2> QED  BY <2>1, <2>2, <2>3 DEF Attached, InTransit
<1>5. LiveIsWatched'
  <2>1. \A k \in Conns : status[k] = "live" /\ stage[k] = "watch" => stage'[k] = "watch"
    BY <1>1 DEF Procs
  <2>2. \A q \in Procs : stage'[q] \in Carrying <=> stage[q] \in Carrying
    BY <1>1
  <2> QED  BY <2>1, <2>2 DEF Attached, LiveIsWatched, Carrying
<1> QED  BY <1>2, <1>3, <1>4, <1>5 DEF Attached

\* A goroutine parts with what it has dialed, after closing it if it could not
\* be attached.
LEMMA Parts ==
    ASSUME Attached, NEW p \in Procs, NEW at, Go(p, at), fresh' = [fresh EXCEPT ![p] = Nil],
           at \in IF p \in Users THEN {"idle"} ELSE {"backoff", "finish"},
           stage[p] \in {"dial", "restore"} \cup Carrying,
           \/ stage[p] \notin Carrying /\ UNCHANGED status
           \/ fresh[p] # Nil /\ Discarded(p)
    PROVE  Attached'
<1>1. /\ stage'[p] = at /\ \A q \in Procs : q # p => stage'[q] = stage[q]
      /\ fresh'[p] = Nil /\ \A q \in Procs : q # p => fresh'[q] = fresh[q]
      /\ at \notin Carrying \cup {"restore", "none"}
  BY DEF Attached, ClientTyped, Go, Carrying
<1>2. /\ \A k \in Conns : status'[k] = status[k] \/ (k = fresh[p] /\ status'[k] = "dead")
      /\ status' \in [Conns -> {"unused", "live", "dead"}]
      /\ stage[p] \in Carrying => status'[fresh[p]] = "dead"
  BY DEF Attached, ClientTyped, Discarded
<1>3. ClientTyped'
  BY <1>1, <1>2 DEF Attached, ClientTyped, Go, Looping
<1>4. Places'
  BY <1>1, ClientLifecycleAssumption DEF Attached, Places, Procs
<1>5. InTransit'
  <2>1. \A q \in Procs : stage'[q] \in Carrying => q # p /\ stage[q] \in Carrying /\ fresh'[q] = fresh[q]
    BY <1>1
  <2>2. \A k \in Conns : stage[k] = "none" => stage'[k] = "none"
    BY <1>1 DEF Procs, Carrying
  <2>3. \A q \in Procs : stage[q] \in Carrying => fresh[q] \in Conns
    BY DEF Attached, ClientTyped, InTransit
  <2>4. \A q \in Procs : (fresh'[q] # Nil) <=> (stage'[q] \in Carrying \cup {"restore"})
    BY SMTT(20), Z3T(20), <1>1 DEF Attached, InTransit
  <2>5. \A q, r \in Procs : stage'[q] \in Carrying /\ fresh'[r] = fresh'[q] => q = r
    BY SMTT(20), Z3T(20), <1>1, <2>1, <2>3, ClientLifecycleAssumption DEF Attached, InTransit
  <2>6. \A k \in Conns : status'[k] = "unused" => stage'[k] = "none"
    BY <1>2, <2>2 DEF Attached, InTransit
  <2>7. \A q \in Procs : fresh'[q] # Nil => status'[fresh'[q]] # "unused"
    BY SMTT(20), Z3T(20), <1>1, <1>2 DEF Attached, InTransit, ClientTyped
  <2> QED  BY SMTT(20), Z3T(20), <2>1, <2>2, <2>3, <2>4, <2>5, <2>6, <2>7 DEF Attached, InTransit
<1>6. LiveIsWatched'
  <2> SUFFICES ASSUME NEW k \in Conns, status'[k] = "live"
               PROVE  stage'[k] = "watch" \/ \E q \in Procs : fresh'[q] = k /\ stage'[q] \in Carrying
    BY DEF LiveIsWatched, Carrying
  <2>1. status[k] = "live"
    BY <1>2
  <2>2. CASE stage[k] = "watch"
    BY <1>1, <2>2 DEF Carrying, Procs
  <2>3. ASSUME NEW q \in Procs, fresh[q] = k, stage[q] \in Carrying
        PROVE  fresh'[q] = k /\ stage'[q] \in Carrying
    BY <1>1, <1>2, <2>3
  <2> QED  BY <2>1, <2>2, <2>3 DEF Attached, LiveIsWatched, Carrying
<1> QED  BY <1>3, <1>4, <1>5, <1>6 DEF Attached

\* dialConnection returns a new connection.
LEMMA Dials ==
    ASSUME Attached, NEW p \in Procs, DialSucceeds(p)
    PROVE  Attached'
<1>1. PICK k \in Conns : /\ status[k] = "unused"
                         /\ status' = [status EXCEPT ![k] = "live"]
                         /\ fresh' = [fresh EXCEPT ![p] = k]
  BY DEF DialSucceeds
<1>2. /\ stage'[p] = "attach" /\ \A q \in Procs : q # p => stage'[q] = stage[q]
      /\ fresh'[p] = k /\ \A q \in Procs : q # p => fresh'[q] = fresh[q]
      /\ status'[k] = "live" /\ \A j \in Conns : j # k => status'[j] = status[j]
  BY <1>1 DEF Attached, ClientTyped, DialSucceeds, Go
<1>3. /\ stage[p] = "dial" /\ stage[k] = "none" /\ p # k /\ k # Nil
      /\ \A q \in Procs : fresh[q] # k
  BY <1>1, ClientLifecycleAssumption DEF DialSucceeds, Attached, InTransit
<1>4. ClientTyped'
  BY <1>1 DEF Attached, ClientTyped, DialSucceeds, Go, Looping
<1>5. Places'
  BY <1>2, ClientLifecycleAssumption DEF Attached, Places, Procs, Carrying
<1>6. InTransit'
  <2>1. \A j \in Conns : stage[j] = "none" => stage'[j] = "none"
    BY <1>2, <1>3 DEF Procs
  <2>2. \A q \in Procs : stage[q] \in Carrying => fresh[q] \in Conns
    BY SMTT(20), Z3T(20) DEF Attached, ClientTyped, InTransit
  <2>3. \A q \in Procs : (fresh'[q] # Nil) <=> (stage'[q] \in Carrying \cup {"restore"})
    BY <1>2, <1>3 DEF Attached, InTransit, Carrying
  <2>4. \A q \in Procs : stage'[q] \in Carrying => stage'[fresh'[q]] = "none"
    BY SMTT(20), Z3T(20), <1>2, <1>3, <2>1, <2>2 DEF Attached, InTransit, Carrying
  <2>5. \A q, r \in Procs : stage'[q] \in Carrying /\ fresh'[r] = fresh'[q] => q = r
    BY SMTT(20), Z3T(20), <1>2, <1>3 DEF Attached, InTransit, Carrying
  <2>6. \A j \in Conns : status'[j] = "unused" => stage'[j] = "none"
    BY <1>2, <2>1 DEF Attached, InTransit
  <2>7. \A q \in Procs : fresh'[q] # Nil => status'[fresh'[q]] # "unused"
    BY SMTT(20), Z3T(20), <1>2, <1>3 DEF Attached, InTransit, ClientTyped
  <2> QED  BY <2>3, <2>4, <2>5, <2>6, <2>7 DEF InTransit
<1>7. LiveIsWatched'
  <2> SUFFICES ASSUME NEW j \in Conns, status'[j] = "live"
               PROVE  stage'[j] = "watch" \/ \E q \in Procs : fresh'[q] = j /\ stage'[q] \in Carrying
    BY DEF LiveIsWatched, Carrying
  <2>1. CASE j = k
    BY <1>2, <2>1 DEF Carrying
  <2>2. CASE j # k
    <3>1. CASE stage[j] = "watch"
      BY <1>2, <1>3, <3>1 DEF Procs
    <3>2. ASSUME NEW q \in Procs, fresh[q] = j, stage[q] \in Carrying
          PROVE  fresh'[q] = j /\ stage'[q] \in Carrying
      BY <1>2, <1>3, <3>2 DEF Carrying
    <3> QED  BY SMTT(20), Z3T(20), <1>2, <2>2, <3>1, <3>2 DEF Attached, LiveIsWatched, Carrying
  <2> QED  BY <2>1, <2>2
<1> QED  BY <1>4, <1>5, <1>6, <1>7 DEF Attached

\* attachConnection starts the monitor of the connection.
LEMMA Binds ==
    ASSUME Attached, NEW p \in Procs, AttachBinds(p)
    PROVE  /\ Attached'
           /\ \A k \in Conns : (stage'[k] \in Looping) <=> (stage[k] \in Looping)
<1> DEFINE k == fresh[p]
<1>1. stage[p] = "bind" /\ k \in Conns /\ stage[k] = "none" /\ p # k /\ status[k] # "unused"
  BY DEF Attached, ClientTyped, InTransit, AttachBinds, Carrying
<1>2. /\ stage'[k] = "watch" /\ stage'[p] = IF p \in Users THEN "idle" ELSE "restore"
      /\ \A q \in Procs : q # p /\ q # k => stage'[q] = stage[q]
      /\ fresh'[p] = IF p \in Users THEN Nil ELSE k
      /\ \A q \in Procs : q # p => fresh'[q] = fresh[q]
      /\ status' = status
  BY <1>1 DEF Attached, ClientTyped, AttachBinds, MonitorStart, Procs
<1>3. \A q \in Procs : q # p => fresh[q] # k
  BY <1>1 DEF Attached, InTransit, Carrying
<1>4. k \in Procs /\ k # Nil
  BY <1>1, ClientLifecycleAssumption DEF Procs
<1>5. ClientTyped'
  BY <1>1 DEF Attached, ClientTyped, AttachBinds, MonitorStart, Looping, Procs
<1> HIDE DEF k
<1>6. Places'
  BY <1>1, <1>2, ClientLifecycleAssumption DEF Attached, Places, Procs, Carrying
<1>7. InTransit'
  <2>1. \A q \in Procs : stage'[q] \in Carrying => q # p /\ q # k /\ stage[q] \in Carrying /\ fresh'[q] = fresh[q]
    BY <1>2, <1>4 DEF Carrying
  <2>2. \A j \in Conns : j # k /\ stage[j] = "none" => stage'[j] = "none"
    BY <1>1, <1>2 DEF Procs
  <2>3. \A q \in Procs : stage[q] \in Carrying => fresh[q] \in Conns
    BY SMTT(20), Z3T(20) DEF Attached, ClientTyped, InTransit
  <2>4. \A q \in Procs : (fresh'[q] # Nil) <=> (stage'[q] \in Carrying \cup {"restore"})
    BY <1>1, <1>2, <1>4 DEF Attached, InTransit, Carrying
  <2>5. \A q \in Procs : stage'[q] \in Carrying => stage'[fresh'[q]] = "none"
    BY <1>3, <2>1, <2>2, <2>3 DEF Attached, InTransit
  <2>6. \A q, r \in Procs : stage'[q] \in Carrying /\ fresh'[r] = fresh'[q] => q = r
    <3> SUFFICES ASSUME NEW q \in Procs, NEW r \in Procs, stage'[q] \in Carrying, fresh'[r] = fresh'[q]
                 PROVE  q = r
      OBVIOUS
    <3>1. stage[q] \in Carrying /\ fresh'[q] = fresh[q] /\ fresh[q] # k /\ fresh[q] # Nil
      BY <1>3, <2>1, <2>3, ClientLifecycleAssumption
    <3>2. r # p
      BY <1>2, <3>1
    <3> QED  BY SMTT(20), Z3T(20), <1>2, <3>1, <3>2 DEF Attached, InTransit
  <2>7. \A j \in Conns : status'[j] = "unused" => stage'[j] = "none"
    BY <1>1, <1>2, <2>2 DEF Attached, InTransit
  <2>8. \A q \in Procs : fresh'[q] # Nil => status'[fresh'[q]] # "unused"
    BY <1>1, <1>2 DEF Attached, InTransit
  <2> QED  BY <2>4, <2>5, <2>6, <2>7, <2>8 DEF InTransit
<1>8. LiveIsWatched'
  <2> SUFFICES ASSUME NEW j \in Conns, status'[j] = "live"
               PROVE  stage'[j] = "watch" \/ \E q \in Procs : fresh'[q] = j /\ stage'[q] \in Carrying
    BY DEF LiveIsWatched, Carrying
  <2>1. CASE j = k
    BY <1>2, <2>1
  <2>2. CASE j # k
    <3>1. CASE stage[j] = "watch"
      BY <1>1, <1>2, <2>2, <3>1 DEF Procs
    <3>2. ASSUME NEW q \in Procs, fresh[q] = j, stage[q] \in Carrying
          PROVE  fresh'[q] = j /\ stage'[q] \in Carrying
      <4>1. q # p /\ q # k
        BY <1>1, <2>2, <3>2 DEF k, Carrying
      <4> QED  BY <1>2, <3>2, <4>1
    <3> QED  BY <1>2, <2>2, <3>1, <3>2 DEF Attached, LiveIsWatched, Carrying
  <2> QED  BY <2>1, <2>2
<1>9. \A j \in Conns : (stage'[j] \in Looping) <=> (stage[j] \in Looping)
  BY <1>1, <1>2, ClientLifecycleAssumption DEF Procs, Looping
<1> QED  BY <1>5, <1>6, <1>7, <1>8, <1>9 DEF Attached

\* Connections that die stay with whoever has them.
LEMMA Dies ==
    ASSUME Attached, UNCHANGED <<stage, fresh>>, status' \in [Conns -> {"unused", "live", "dead"}],
           \A k \in Conns : \/ status'[k] = status[k]
                            \/ status[k] # "unused" /\ status'[k] = "dead"
    PROVE  Attached'
<1>1. ClientTyped' /\ Places'
  BY DEF Attached, ClientTyped, Places
<1>2. InTransit'
  BY DEF Attached, ClientTyped, InTransit
<1>3. LiveIsWatched'
  BY SMTT(20), Z3T(20) DEF Attached, LiveIsWatched
<1> QED  BY <1>1, <1>2, <1>3 DEF Attached

-----------------------------------------------------------------------------

\* c.conn is set to a connection that has been dialed, or to nil.
LEMMA CurrentKept ==
    ASSUME Attached, Current, [ClientNext]_clientVars
    PROVE  Current'
<1>1. ASSUME \A k \in Conns : status[k] # "unused" => status'[k] # "unused",
             conn' \in {Nil, conn}
      PROVE  Current'
  BY <1>1 DEF Current
<1>2. ASSUME UNCHANGED status, conn' \in {Nil, conn} PROVE Current'
  BY <1>1, <1>2
<1>3. ASSUME NEW u \in Users, Connect(u) PROVE Current'
  BY <1>2, <1>3 DEF Connect
<1>4. ASSUME NEW p \in Procs, DialSucceeds(p) PROVE Current'
  BY <1>1, <1>4 DEF DialSucceeds, Attached, ClientTyped
<1>5. ASSUME NEW p \in Procs, DialFails(p) PROVE Current'
  BY <1>2, <1>5 DEF DialFails
<1>6. ASSUME NEW p \in Procs, AttachChecks(p) PROVE Current'
  <2>1. CASE closed
    BY SMTT(20), Z3T(20), <1>1, <1>6, <2>1 DEF AttachChecks, Discarded, Attached, ClientTyped
  <2>2. CASE ~closed
    BY <1>2, <1>6, <2>2 DEF AttachChecks
  <2> QED  BY <2>1, <2>2
<1>7. ASSUME NEW p \in Procs, AttachStores(p) PROVE Current'
  <2>1. CASE p \in Users /\ conn # Nil
    BY <1>1, <1>7, <2>1 DEF AttachStores, Discarded, Attached, ClientTyped
  <2>2. CASE ~(p \in Users /\ conn # Nil)
    BY SMTT(20), Z3T(20), <1>7, <2>2 DEF AttachStores, Attached, ClientTyped, InTransit, Current, Carrying
  <2> QED  BY <2>1, <2>2
<1>8. ASSUME NEW p \in Procs, AttachBinds(p) PROVE Current'
  BY <1>2, <1>8 DEF AttachBinds
<1>9. ASSUME NEW k \in Conns, MonitorStep(k) PROVE Current'
  <2>1. CASE RestoreFails(k)
    BY SMTT(20), Z3T(20), <1>1, <2>1 DEF RestoreFails, Discarded, Attached, ClientTyped
  <2>2. CASE MonitorWakes(k) \/ MonitorClears(k) \/ BeginReconnect(k) \/ LoopTurns(k)
    BY <1>2, <2>2 DEF MonitorWakes, MonitorClears, BeginReconnect, LoopTurns
  <2>3. CASE RestoreSucceeds(k) \/ BackoffEnds(k) \/ LoopReturns(k)
    BY <1>2, <2>3 DEF RestoreSucceeds, BackoffEnds, LoopReturns
  <2> QED  BY <1>9, <2>1, <2>2, <2>3 DEF MonitorStep
<1>10. ASSUME NEW k \in Conns, Break(k) PROVE Current'
  BY <1>1, <1>10 DEF Break, Attached, ClientTyped
<1>11. CASE CloseCalled \/ UNCHANGED clientVars
  BY <1>2, <1>11 DEF CloseCalled, clientVars
<1>12. CASE CloseReturns
  BY <1>1, <1>12 DEF CloseReturns
<1> QED
  BY <1>3, <1>4, <1>5, <1>6, <1>7, <1>8, <1>9, <1>10, <1>11, <1>12 DEF ClientNext, AttachStep

\* Goroutines attach connections for Connect or for the reconnect loop.
LEMMA AttachKeeps ==
    ASSUME Attached, reconnecting \in BOOLEAN, OneLoop, NEW p \in Procs, AttachStep(p)
    PROVE  Attached' /\ reconnecting' \in BOOLEAN /\ OneLoop'
<1>1. ASSUME NEW at, Go(p, at), p \in Conns => stage[p] \in Looping /\ at \in Looping
      PROVE  \A k \in Conns : (stage'[k] \in Looping) <=> (stage[k] \in Looping)
  BY SMTT(20), Z3T(20), <1>1 DEF Go, Attached, ClientTyped
<1>2. ASSUME Attached', \A k \in Conns : (stage'[k] \in Looping) <=> (stage[k] \in Looping)
      PROVE  Attached' /\ reconnecting' \in BOOLEAN /\ OneLoop'
  <2>1. UNCHANGED reconnecting
    BY DEF AttachStep, DialSucceeds, DialFails, AttachChecks, AttachStores, AttachBinds
  <2> QED  BY SMTT(20), Z3T(20), <1>2, <2>1 DEF OneLoop
<1>3. ASSUME NEW at, Go(p, at), UNCHANGED <<fresh, status>>, stage[p] \in Looping, at \in Looping,
             stage[p] \in Carrying <=> at \in Carrying, stage[p] # "restore", at # "restore",
             p \in Users => at \in {"dial"} \cup Carrying
      PROVE  Attached' /\ reconnecting' \in BOOLEAN /\ OneLoop'
  <2>1. stage[p] # "none" /\ stage[p] # "watch"
    BY <1>3 DEF Looping
  <2>2. Attached'
    BY <1>3, <2>1, Moves
  <2> QED  BY <1>1, <1>2, <1>3, <2>2
<1>4. ASSUME GiveUp(p), stage[p] \in {"dial"} \cup Carrying,
             \/ stage[p] \notin Carrying /\ UNCHANGED status
             \/ fresh[p] # Nil /\ Discarded(p)
      PROVE  Attached' /\ reconnecting' \in BOOLEAN /\ OneLoop'
  <2> DEFINE at == IF p \in Users THEN "idle" ELSE "finish"
  <2>1. Go(p, at) /\ fresh' = [fresh EXCEPT ![p] = Nil]
    BY <1>4 DEF GiveUp
  <2>2. Attached'
    BY <1>4, <2>1, Parts
  <2>3. p \in Conns => stage[p] \in Looping /\ at \in Looping
    BY <1>4, ClientLifecycleAssumption DEF Looping, Carrying
  <2> HIDE DEF at
  <2> QED  BY <1>1, <1>2, <2>1, <2>2, <2>3
<1>5. stage[p] \in Carrying => fresh[p] # Nil
  BY DEF Attached, InTransit
<1>6. CASE DialSucceeds(p)
  <2>1. Attached'
    BY <1>6, Dials
  <2> QED  BY <1>1, <1>2, <1>6, <2>1 DEF DialSucceeds, Looping
<1>7. CASE DialFails(p)
  <2>1. CASE GiveUp(p)
    BY <1>4, <1>7, <2>1 DEF DialFails, Carrying
  <2>2. CASE p \in Conns /\ Go(p, "backoff") /\ UNCHANGED fresh
    BY <1>3, <1>7, <2>2, ClientLifecycleAssumption DEF DialFails, Carrying, Looping
  <2> QED  BY <1>7, <2>1, <2>2 DEF DialFails
<1>8. CASE AttachChecks(p)
  <2>1. CASE closed
    BY <1>4, <1>5, <1>8, <2>1 DEF AttachChecks, Carrying
  <2>2. CASE ~closed
    BY <1>3, <1>8, <2>2 DEF AttachChecks, Carrying, Looping
  <2> QED  BY <2>1, <2>2
<1>9. CASE AttachStores(p)
  <2>1. CASE p \in Users /\ conn # Nil
    BY <1>4, <1>5, <1>9, <2>1 DEF AttachStores, Carrying
  <2>2. CASE ~(p \in Users /\ conn # Nil)
    BY <1>3, <1>9, <2>2 DEF AttachStores, Carrying, Looping
  <2> QED  BY <2>1, <2>2
<1>10. CASE AttachBinds(p)
  BY <1>2, <1>10, Binds
<1> QED  BY <1>6, <1>7, <1>8, <1>9, <1>10 DEF AttachStep

\* The monitor of a connection, and the reconnect loop it may run.
LEMMA MonitorKeeps ==
    ASSUME Attached, reconnecting \in BOOLEAN, OneLoop, NEW k \in Conns, MonitorStep(k)
    PROVE  Attached' /\ reconnecting' \in BOOLEAN /\ OneLoop'
<1>0. k \in Procs /\ k \notin Users
  BY ClientLifecycleAssumption DEF Procs
<1>1. ASSUME NEW at, Go(k, at), (stage[k] \in Looping) <=> (at \in Looping), UNCHANGED reconnecting
      PROVE  reconnecting' \in BOOLEAN /\ OneLoop'
  <2>1. \A j \in Conns : (stage'[j] \in Looping) <=> (stage[j] \in Looping)
    BY <1>0, <1>1 DEF Go, Attached, ClientTyped, Procs
  <2> QED  BY <1>1, <2>1 DEF OneLoop
<1>2. ASSUME NEW at, Go(k, at), UNCHANGED <<fresh, status>>, stage[k] # "restore", at # "restore",
             at \in {"clear", "begin", "ended"} \cup Looping, at \notin Carrying,
             stage[k] \notin Carrying, stage[k] # "none", stage[k] = "watch" => status[k] = "dead"
      PROVE  Attached'
  BY <1>0, <1>2, Moves
<1>3. CASE MonitorWakes(k)
  <2>1. Attached'
    BY <1>2, <1>3 DEF MonitorWakes, Carrying, Looping
  <2> QED  BY <1>1, <1>3, <2>1 DEF MonitorWakes, Looping
<1>4. CASE MonitorClears(k)
  <2>1. Attached'
    BY <1>2, <1>4 DEF MonitorClears, Carrying, Looping
  <2> QED  BY <1>1, <1>4, <2>1 DEF MonitorClears, Looping
<1>5. CASE BeginReconnect(k)
  <2>1. CASE MayBegin
    <3>1. Attached'
      BY <1>2, <1>5, <2>1 DEF BeginReconnect, Carrying, Looping
    <3>2. stage'[k] = "loop" /\ \A j \in Conns : j # k => stage'[j] = stage[j]
      BY <1>0, <1>5, <2>1 DEF BeginReconnect, Go, Attached, ClientTyped, Procs
    <3> QED  BY <1>5, <2>1, <3>1, <3>2 DEF BeginReconnect, MayBegin, OneLoop, Looping
  <2>2. CASE ~MayBegin
    <3>1. Attached'
      BY <1>2, <1>5, <2>2 DEF BeginReconnect, Carrying, Looping
    <3> QED  BY <1>1, <1>5, <2>2, <3>1 DEF BeginReconnect, Looping
  <2> QED  BY <2>1, <2>2
<1>6. CASE LoopTurns(k)
  <2>1. PICK at \in {"dial", "finish"} : Go(k, at)
    BY <1>6 DEF LoopTurns
  <2>2. Attached'
    BY <1>2, <1>6, <2>1 DEF LoopTurns, Carrying, Looping
  <2> QED  BY <1>1, <1>6, <2>1, <2>2 DEF LoopTurns, Looping
<1>7. CASE RestoreSucceeds(k)
  <2>1. Attached'
    BY <1>0, <1>7, Parts DEF RestoreSucceeds, Carrying
  <2> QED  BY <1>1, <1>7, <2>1 DEF RestoreSucceeds, Looping
<1>8. CASE RestoreFails(k)
  <2>1. fresh[k] # Nil
    BY <1>0, <1>8 DEF RestoreFails, Attached, InTransit
  <2>2. Attached'
    BY <1>0, <1>8, <2>1, Parts DEF RestoreFails, Carrying
  <2> QED  BY <1>1, <1>8, <2>2 DEF RestoreFails, Looping
<1>9. CASE BackoffEnds(k)
  <2>1. Attached'
    BY <1>2, <1>9 DEF BackoffEnds, Carrying, Looping
  <2> QED  BY <1>1, <1>9, <2>1 DEF BackoffEnds, Looping
<1>10. CASE LoopReturns(k)
  <2>1. Attached'
    BY <1>2, <1>10 DEF LoopReturns, Carrying, Looping
  <2>2. stage[k] \in Looping /\ stage'[k] = "ended" /\ \A j \in Conns : j # k => stage'[j] = stage[j]
    BY <1>0, <1>10 DEF LoopReturns, Go, Attached, ClientTyped, Procs, Looping
  <2> QED  BY <1>10, <2>1, <2>2 DEF LoopReturns, OneLoop, Looping
<1> QED  BY <1>3, <1>4, <1>5, <1>6, <1>7, <1>8, <1>9, <1>10 DEF MonitorStep

\* ClientInv holds in every state of the client.
THEOREM ClientInvariance == ClientSpec => []ClientInv
<1>1. ASSUME ClientInv, [ClientNext]_clientVars PROVE ClientInv'
  <2>0. Attached /\ Current /\ reconnecting \in BOOLEAN /\ OneLoop /\ Current'
    BY <1>1, CurrentKept DEF ClientInv
  <2>1. ASSUME Attached', reconnecting' \in BOOLEAN, OneLoop' PROVE ClientInv'
    BY <2>0, <2>1 DEF ClientInv
  <2>2. ASSUME NEW u \in Users, Connect(u) PROVE ClientInv'
    <3>1. Attached'
      BY <2>0, <2>2, Moves DEF Connect, Procs, Carrying, Looping
    <3>2. \A k \in Conns : stage'[k] = stage[k]
      BY <2>0, <2>2, ClientLifecycleAssumption DEF Connect, Go, Attached, ClientTyped, Procs
    <3>3. OneLoop' /\ UNCHANGED reconnecting
      BY <2>0, <2>2, <3>2 DEF Connect, OneLoop
    <3> QED  BY <2>0, <2>1, <3>1, <3>3
  <2>3. ASSUME NEW p \in Procs, AttachStep(p) PROVE ClientInv'
    BY <2>0, <2>1, <2>3, AttachKeeps
  <2>4. ASSUME NEW k \in Conns, MonitorStep(k) PROVE ClientInv'
    BY <2>0, <2>1, <2>4, MonitorKeeps
  <2>5. ASSUME Attached', UNCHANGED <<stage, reconnecting>> PROVE ClientInv'
    BY <2>0, <2>1, <2>5 DEF OneLoop
  <2>6. ASSUME NEW k \in Conns, Break(k) PROVE ClientInv'
    <3>1. Attached'
      BY <2>0, <2>6, Dies DEF Break, Attached, ClientTyped
    <3> QED  BY <2>5, <2>6, <3>1 DEF Break
  <2>7. CASE CloseReturns
    <3>1. Attached'
      BY <2>0, <2>7, Dies, ClientLifecycleAssumption DEF CloseReturns, Attached, ClientTyped, Current
    <3> QED  BY <2>5, <2>7, <3>1 DEF CloseReturns
  <2>8. CASE CloseCalled \/ UNCHANGED clientVars
    <3>1. UNCHANGED <<stage, fresh, status, reconnecting>>
      BY <2>8 DEF CloseCalled, clientVars
    <3>2. Attached'
      BY <2>0, <3>1, Dies DEF Attached, ClientTyped
    <3> QED  BY <2>5, <3>1, <3>2
  <2> QED  BY <1>1, <2>2, <2>3, <2>4, <2>6, <2>7, <2>8 DEF ClientNext
<1> QED  BY <1>1, ClientInitial, PTL DEF ClientSpec

\* beginReconnect lets one loop run at a time, whichever monitors wake up
\* together, and IsReconnecting says so exactly while it runs.
THEOREM OneLoopRuns == ClientSpec => []OneLoop
<1>1. ClientInv => OneLoop
  BY DEF ClientInv
<1> QED  BY <1>1, ClientInvariance, PTL

\* A live connection has a monitor or is with the goroutine that dialed it:
\* attachConnection closes every connection it does not attach.
THEOREM NoConnectionIsLeaked == ClientSpec => []LiveIsWatched
<1>1. ClientInv => LiveIsWatched
  BY DEF ClientInv, Attached
<1> QED  BY <1>1, ClientInvariance, PTL
=============================================================================
