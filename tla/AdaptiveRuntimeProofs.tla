------------------------ MODULE AdaptiveRuntimeProofs -----------------------
(***************************************************************************)
(* Proofs about the adaptive control loop, for any number of instances,    *)
(* validator sets, answers and decisions: the circuit breaker keeps count, *)
(* a decision is in one place and applied at most once, what the filter    *)
(* counted of an action that is kept or applied leaves enough validators   *)
(* of its epoch, the quorum of every committee stays within reach, and the *)
(* types are kept.                                                         *)
(***************************************************************************)
EXTENDS AdaptiveRuntime, FiniteSetTheorems, WellFoundedInduction, TLAPS

-----------------------------------------------------------------------------
(* The circuit breaker.                                                    *)

\* The breaker keeps count, and its fields have their types.
BreakerInv ==
    /\ failures \in 0..ConsecutiveFailures
    /\ circuit \in {"closed", "open", "halfOpen"}
    /\ BreakerConsistent

\* Only the requests and the passing of time touch the breaker.
LEMMA BreakerStep ==
    ASSUME BreakerInv, Next
    PROVE  BreakerInv'
<1> USE BridgeConstants
<1>1. CASE Tick \/ Consumer
  <2>1. UNCHANGED <<failures, circuit>>
    BY <1>1 DEF Tick, Consumer, TickStart, TickDecide, TickApply, TickEnd, InstallEpoch,
                recordOrderedOutput, ApplyReleased, bridgeVars, breakerVars
  <2> QED  BY <2>1 DEF BreakerInv, BreakerConsistent
<1>2. CASE BridgeNext
  <2>1. ASSUME NEW c \in Callers, checkCircuit(c)
        PROVE  BreakerInv'
    BY <2>1 DEF checkCircuit, BreakerInv, BreakerConsistent
  <2>2. ASSUME NEW c \in Callers, recordSuccess(c)
        PROVE  BreakerInv'
    BY <2>2 DEF recordSuccess, BreakerInv, BreakerConsistent
  <2>3. ASSUME NEW c \in Callers, recordFailure(c)
        PROVE  BreakerInv'
    BY <2>3 DEF recordFailure, BreakerInv, BreakerConsistent
  <2>4. ASSUME NEW c \in Callers, Attempt(c) \/ FeedbackReturns(c)
        PROVE  BreakerInv'
    BY <2>4 DEF Attempt, FeedbackReturns, breakerVars, BreakerInv, BreakerConsistent
  <2>5. CASE Cool \/ ServerFails \/ ServerReturns
    BY <2>5 DEF Cool, ServerFails, ServerReturns, breakerVars, BreakerInv, BreakerConsistent
  <2> QED  BY <1>2, <2>1, <2>2, <2>3, <2>4, <2>5 DEF BridgeNext, Do
<1> QED  BY <1>1, <1>2 DEF Next

\* However the requests of the controller and of the feedback goroutines overlap,
\* the circuit is closed exactly while fewer failures than the limit were counted
\* since the last success (resilient.go:116-153).
THEOREM AdaptiveBreakerConsistent == Spec => []BreakerConsistent
<1>1. Init => BreakerInv
  BY BridgeConstants DEF Init, BridgeInit, BreakerInv, BreakerConsistent
<1>2. BreakerInv /\ [Next]_vars => BreakerInv'
  <2>1. BreakerInv /\ UNCHANGED vars => BreakerInv'
    BY DEF vars, bridgeVars, breakerVars, BreakerInv, BreakerConsistent
  <2> QED  BY <2>1, BreakerStep
<1>3. BreakerInv => BreakerConsistent
  BY DEF BreakerInv
<1> QED  BY <1>1, <1>2, <1>3, PTL DEF Spec

-----------------------------------------------------------------------------
(* What the filters keep of an action.                                     *)

\* An action has the fields of one.
Shaped(a) ==
    DOMAIN a = {"id", "committee", "agents", "join", "leave", "seen", "sizeSeen", "faults"}

\* It was decided for what is observed.
Proposed(a) == Shaped(a) /\ a.seen = obs.epoch

\* No decision has the fields of one, and no entries.
LEMMA NoActionShaped == Shaped(NoAction) /\ NoAction.id = 0 /\ NoAction.agents = <<>>
BY DEF Shaped, NoAction, NoDecision

\* What the policy proposes is an action for the observed epoch, and its
\* identifier, if it has one, is new.
LEMMA CandidatesProposed ==
    ASSUME NEW leaders, NEW a \in Candidates(leaders)
    PROVE  /\ Proposed(a)
           /\ a.id = 0 \/ (a.id = decided + 1 /\ decided # MaxDecisions)
<1>1. Proposed(Fallback) /\ Fallback.id = 0
  BY DEF Fallback, Proposed, Shaped, NoAction, NoDecision
<1>2. Proposed(ColdStart) /\ ColdStart.id = 0
  BY DEF ColdStart, Proposed, Shaped, NoAction, NoDecision
<1>3. ASSUME NEW ans \in Answers
      PROVE  Proposed(Convert(ans, leaders)) /\ Convert(ans, leaders).id = decided + 1
  <2>1. Proposed(convertSFACResponse(ans, leaders)) /\ convertSFACResponse(ans, leaders).id = decided + 1
    BY DEF convertSFACResponse, Fallback, Proposed, Shaped, NoAction
  <2>2. Proposed(mergeHTTPActionFallback(ans)) /\ mergeHTTPActionFallback(ans).id = decided + 1
    BY DEF mergeHTTPActionFallback, Fallback, Proposed, Shaped, NoAction
  <2> QED  BY <2>1, <2>2 DEF Convert
<1> QED  BY <1>1, <1>2, <1>3 DEF Candidates

\* Governance keeps a proposal a proposal.
LEMMA GovernedProposed ==
    ASSUME NEW a, Proposed(a), NEW level
    PROVE  Proposed(Governed(a, level)) /\ Governed(a, level).id = a.id
BY DEF Governed, Proposed, Shaped

\* The guard rails keep a proposal a proposal.
LEMMA GuardedProposed ==
    ASSUME NEW a, Proposed(a)
    PROVE  Proposed(Guarded(a)) /\ Guarded(a).id = a.id
BY DEF Guarded, Proposed, Shaped

\* The mask keeps the identifier, the epoch and the number of entries, and masks
\* the entries of the instances that fail.
LEMMA MaskedAction ==
    ASSUME NEW a, Proposed(a), NEW faults
    PROVE  LET m == MaskUnsafeAction(a, faults)
           IN  /\ Shaped(m) /\ m.id = a.id /\ m.seen = obs.epoch
               /\ a.agents # <<>> => m.faults = faults
               /\ m.agents = [k \in DOMAIN a.agents |->
                                 MaskedAgent(a.agents[k], MaskedInstances(a, faults))]
BY DEF MaskUnsafeAction, Proposed, Shaped

\* A masked entry changes no membership; every entry names the instance it did.
LEMMA MaskedEntry ==
    ASSUME NEW agent, NEW masked
    PROVE  LET e == MaskedAgent(agent, masked)
           IN  /\ e.inst = agent.inst
               /\ agent.inst \notin masked => e = agent
               /\ agent.inst \in masked => /\ e.committee = obs.committee[agent.inst]
                                          /\ e.reconfig = <<>> /\ e.evict = <<>> /\ e.admit = <<>>
<1>1. CASE agent.inst \in masked
  <2> DEFINE e == MaskedAgent(agent, masked)
  <2>1. e = [inst |-> agent.inst, committee |-> obs.committee[agent.inst],
             reconfig |-> <<>>, evict |-> <<>>, admit |-> <<>>]
    BY <1>1 DEF MaskedAgent
  <2> HIDE DEF e
  <2>2. /\ e.inst = agent.inst /\ e.committee = obs.committee[agent.inst]
        /\ e.reconfig = <<>> /\ e.evict = <<>> /\ e.admit = <<>>
    BY <2>1
  <2> QED  BY <1>1, <2>2 DEF e
<1>2. CASE agent.inst \notin masked
  BY <1>2 DEF MaskedAgent
<1> QED  BY <1>1, <1>2

-----------------------------------------------------------------------------
(* A decision is in one place.                                             *)

\* The gate, the tick and the consumer hold different decisions, none that was
\* applied, and the last two hold one only while they apply it.
PlaceInv ==
    /\ decided \in 0..MaxDecisions
    /\ applied \in [Decisions -> {0, 1}]
    /\ pending.id \in 0..decided /\ hand.id \in 0..decided /\ released.id \in 0..decided
    /\ pending.id # 0 => pending.id # hand.id /\ pending.id # released.id
    /\ hand.id # 0 => hand.id # released.id
    /\ \A d \in Decisions :
          applied[d] = 1 => d <= decided /\ d # pending.id /\ d # hand.id /\ d # released.id
    /\ controller # "applying" => hand.id = 0
    /\ consumer # "apply" => released.id = 0

\* One of the two appliers applies what it holds.
LEMMA ApplyPlace ==
    ASSUME PlaceInv, NEW a, NEW s, Apply(a, s), a \in {hand, released}
    PROVE  /\ applied' \in [Decisions -> {0, 1}]
           /\ \A d \in Decisions : applied'[d] = 1 <=> applied[d] = 1 \/ d = a.id
<1>1. applied' = [d \in Decisions |-> IF d = a.id THEN applied[d] + 1 ELSE applied[d]]
  BY DEF Apply
<1>2. \A d \in Decisions : applied[d] \in {0, 1}
  BY DEF PlaceInv
<1>3. \A d \in Decisions : d = a.id => applied[d] = 0
  BY <1>2 DEF PlaceInv
<1> QED  BY <1>1, <1>2, <1>3

\* The tick decides: a new decision goes to its hand or into the gate.
LEMMA TickDecidePlace ==
    ASSUME PlaceInv, TickDecide
    PROVE  PlaceInv'
<1>1. PICK leaders, level, suspects, a :
        /\ a \in Candidates(leaders)
        /\ LET faults == estimateFaults(suspects)
               guarded == Guarded(Governed(a, level))
           IN  /\ Submit(MaskUnsafeAction(guarded, faults), MaskedInstances(guarded, faults) # {})
               /\ decided' = IF a.id = NoDecision THEN decided ELSE a.id
  BY DEF TickDecide
<1> DEFINE faults == estimateFaults(suspects)
           guarded == Guarded(Governed(a, level))
           m == MaskUnsafeAction(guarded, faults)
<1>2. Proposed(a) /\ (a.id = 0 \/ (a.id = decided + 1 /\ decided # MaxDecisions))
  BY <1>1, CandidatesProposed
<1>3. Proposed(guarded) /\ guarded.id = a.id
  BY <1>2, GovernedProposed, GuardedProposed
<1>4. m.id = a.id
  BY <1>3, MaskedAction
<1>5. Submit(m, MaskedInstances(guarded, faults) # {})
  BY <1>1
<1> HIDE DEF m
<1>6. /\ \/ hand' = m /\ pending' = NoAction /\ controller' = "applying"
         \/ hand' = NoAction /\ pending' = m /\ controller' = "feedback"
  BY <1>5 DEF Submit
<1>7. decided' = IF a.id = 0 THEN decided ELSE a.id
  BY <1>1 DEF NoDecision
<1>8. /\ controller = "deciding"
      /\ UNCHANGED <<applied, consumer, released>>
  BY DEF TickDecide, consumerVars
<1>9. MaxDecisions \in Nat
  BY RuntimeConstants
<1>10. hand.id = 0 /\ decided \in 0..MaxDecisions /\ released.id \in 0..decided
  BY <1>8 DEF PlaceInv
<1>11. decided' \in 0..MaxDecisions /\ decided' >= decided
  BY <1>2, <1>7, <1>9, <1>10
<1>12. NoAction.id = 0
  BY NoActionShaped
<1>13. m.id \in 0..decided' /\ (m.id # 0 => m.id = decided + 1)
  BY <1>2, <1>4, <1>7, <1>9, <1>10
<1>14. m.id # 0 => m.id # released.id
  BY <1>13, <1>10
<1>15. \A d \in Decisions : applied'[d] = 1 => d <= decided' /\ d # m.id /\ d # 0
  BY <1>8, <1>9, <1>10, <1>11, <1>13 DEF PlaceInv, Decisions
<1>16. \A d \in Decisions : applied'[d] = 1 => d # released'.id
  BY <1>8 DEF PlaceInv
<1>17. released'.id \in 0..decided' /\ (consumer' # "apply" => released'.id = 0)
  BY <1>8, <1>10, <1>11 DEF PlaceInv
<1>18. applied' \in [Decisions -> {0, 1}]
  BY <1>8 DEF PlaceInv
<1> QED
  BY <1>6, <1>8, <1>11, <1>12, <1>13, <1>14, <1>15, <1>16, <1>17, <1>18 DEF PlaceInv

\* The tick applies what is in its hand.
LEMMA TickApplyPlace ==
    ASSUME PlaceInv, TickApply
    PROVE  PlaceInv'
<1>1. PICK refused \in BOOLEAN, known \in KnownSets : Apply(hand, Applied(hand, refused, known))
  BY DEF TickApply
<1>2. /\ applied' \in [Decisions -> {0, 1}]
      /\ \A d \in Decisions : applied'[d] = 1 <=> applied[d] = 1 \/ d = hand.id
  BY <1>1, ApplyPlace
<1>3. /\ hand' = NoAction
      /\ UNCHANGED <<pending, decided, consumer, released>>
  BY DEF TickApply, gateVars, consumerVars
<1>4. NoAction.id = 0
  BY NoActionShaped
<1>5. \A d \in Decisions : d # 0
  BY DEF Decisions
<1>6. \A d \in Decisions : d = hand.id => d <= decided /\ d # pending.id /\ d # released.id
  BY <1>5, RuntimeConstants DEF PlaceInv, Decisions
<1> QED  BY <1>2, <1>3, <1>4, <1>5, <1>6, RuntimeConstants DEF PlaceInv

\* The consumer takes what the gate releases, or nothing.
LEMMA RecordPlace ==
    ASSUME PlaceInv, recordOrderedOutput
    PROVE  PlaceInv'
<1>1. /\ consumer = "record" /\ released.id = 0
      /\ consumer' = IF released' = NoAction THEN "range" ELSE "apply"
      /\ UNCHANGED <<controller, hand, decided, applied>>
  BY DEF recordOrderedOutput, tickVars, PlaceInv
<1>2. NoAction.id = 0
  BY NoActionShaped
<1>3. \/ released' = NoAction /\ pending' \in {NoAction, pending}
      \/ released' = pending /\ pending' = NoAction
  BY DEF recordOrderedOutput, AdvanceEpoch, gateVars
<1>4. \A d \in Decisions : d # 0
  BY DEF Decisions
<1> QED  BY <1>1, <1>2, <1>3, <1>4, RuntimeConstants DEF PlaceInv

\* The consumer applies what the gate released.
LEMMA ReleasedPlace ==
    ASSUME PlaceInv, ApplyReleased
    PROVE  PlaceInv'
<1>1. PICK refused \in BOOLEAN, known \in KnownSets : Apply(released, Applied(released, refused, known))
  BY DEF ApplyReleased
<1>2. /\ applied' \in [Decisions -> {0, 1}]
      /\ \A d \in Decisions : applied'[d] = 1 <=> applied[d] = 1 \/ d = released.id
  BY <1>1, ApplyPlace
<1>3. /\ released' = NoAction
      /\ UNCHANGED <<pending, decided, controller, hand>>
  BY DEF ApplyReleased, gateVars, tickVars
<1>4. NoAction.id = 0
  BY NoActionShaped
<1>5. \A d \in Decisions : d # 0
  BY DEF Decisions
<1>6. \A d \in Decisions : d = released.id => d <= decided /\ d # pending.id /\ d # hand.id
  BY <1>5, RuntimeConstants DEF PlaceInv, Decisions
<1> QED  BY <1>2, <1>3, <1>4, <1>5, <1>6, RuntimeConstants DEF PlaceInv

\* Every step keeps the decisions apart.
LEMMA PlaceStep ==
    ASSUME PlaceInv, [Next]_vars
    PROVE  PlaceInv'
<1>1. CASE TickStart \/ TickEnd
  BY <1>1 DEF TickStart, TickEnd, gateVars, consumerVars, PlaceInv
<1>2. CASE InstallEpoch
  BY <1>2 DEF InstallEpoch, gateVars, tickVars, PlaceInv
<1>3. CASE UNCHANGED <<gateVars, tickVars, consumerVars, applied>>
  BY <1>3 DEF gateVars, tickVars, consumerVars, PlaceInv
<1>4. UNCHANGED vars => UNCHANGED <<gateVars, tickVars, consumerVars, applied>>
  BY DEF vars
<1> QED
  BY <1>1, <1>2, <1>3, <1>4, TickDecidePlace, TickApplyPlace, RecordPlace, ReleasedPlace
  DEF Next, Tick, Consumer

\* A decision is held by at most one of three places, and by none once applied.
LEMMA PlaceCounts == PlaceInv => DecisionsInOnePlace
<1> SUFFICES ASSUME PlaceInv, NEW d \in Decisions
             PROVE  Cardinality({p \in {"gate", "tick", "consumer"} :
                        CASE p = "gate" -> pending.id = d
                          [] p = "tick" -> hand.id = d
                          [] p = "consumer" -> released.id = d}) + applied[d] <= 1
  BY DEF DecisionsInOnePlace
<1> DEFINE Holders == {p \in {"gate", "tick", "consumer"} :
                        CASE p = "gate" -> pending.id = d
                          [] p = "tick" -> hand.id = d
                          [] p = "consumer" -> released.id = d}
<1>1. /\ "gate" \in Holders <=> pending.id = d
      /\ "tick" \in Holders <=> hand.id = d
      /\ "consumer" \in Holders <=> released.id = d
      /\ Holders \subseteq {"gate", "tick", "consumer"}
  OBVIOUS
<1> HIDE DEF Holders
<1>2. d # 0 /\ applied[d] \in {0, 1}
  BY DEF Decisions, PlaceInv
<1>3. \A p, q \in Holders : p = q
  BY <1>1, <1>2 DEF PlaceInv
<1>4. Holders = {} \/ \E p : Holders = {p}
  BY <1>3
<1>5. Cardinality(Holders) \in {0, 1}
  BY <1>4, FS_EmptySet, FS_Singleton
<1>6. applied[d] = 1 => Holders = {}
  BY <1>1 DEF PlaceInv
<1>7. applied[d] = 1 => Cardinality(Holders) = 0
  BY <1>6, FS_EmptySet
<1>8. Cardinality(Holders) + applied[d] <= 1
  BY <1>2, <1>5, <1>7
<1> QED  BY <1>8 DEF Holders

\* Whatever the tick, the gate and the consumer do next to each other, a decision
\* is applied at most once, and not while another of them still holds it
\* (epoch_gate.go:102-190, adaptive_runtime.go:599).
THEOREM AdaptiveDecisionsInOnePlace == Spec => []DecisionsInOnePlace
<1>1. Init => PlaceInv
  BY NoActionShaped, RuntimeConstants DEF Init, PlaceInv
<1>2. PlaceInv /\ [Next]_vars => PlaceInv'
  BY PlaceStep
<1> QED  BY <1>1, <1>2, PlaceCounts, PTL DEF Spec

-----------------------------------------------------------------------------
(* Evictions were safe.                                                    *)

\* The changes an action makes to the membership of an instance leave enough of
\* the validators it was decided for.
SafeAction(a) ==
    \A i \in Instances :
        Evicts(a, i) + Admits(a, i) > 0 =>
            Size(a.seen) - Evicts(a, i) + Admits(a, i) >= Threshold(a.faults)

SafeInv == SafeAction(pending) /\ SafeAction(hand) /\ SafeAction(released)

\* No decision evicts nobody.
LEMMA NoActionSafe == SafeAction(NoAction)
<1>1. \A i : Counting(NoAction, i) = {}
  BY NoActionShaped DEF Counting
<1> QED  BY <1>1 DEF SafeAction, Evicts, Admits

\* What the mask lets through is safe.
LEMMA MaskedSafe ==
    ASSUME NEW a, Proposed(a), NEW faults
    PROVE  SafeAction(MaskUnsafeAction(a, faults))
<1> DEFINE m == MaskUnsafeAction(a, faults)
           masked == MaskedInstances(a, faults)
<1>1. /\ m.seen = obs.epoch
      /\ a.agents # <<>> => m.faults = faults
      /\ m.agents = [k \in DOMAIN a.agents |-> MaskedAgent(a.agents[k], masked)]
  BY MaskedAction
<1> HIDE DEF m
<1> SUFFICES ASSUME NEW i \in Instances, Evicts(m, i) + Admits(m, i) > 0
             PROVE  Size(m.seen) - Evicts(m, i) + Admits(m, i) >= Threshold(m.faults)
  BY DEF SafeAction, m
<1>2. \A k \in DOMAIN a.agents : m.agents[k] = MaskedAgent(a.agents[k], masked)
  BY <1>1
<1>3. DOMAIN m.agents = DOMAIN a.agents /\ \A k \in DOMAIN a.agents : m.agents[k].inst = a.agents[k].inst
  BY <1>1, <1>2, MaskedEntry
<1>4. Counting(m, i) = Counting(a, i)
  BY <1>3 DEF Counting
<1>5. Counting(m, i) # {}
  BY DEF Evicts, Admits
<1> DEFINE last == CHOOSE k \in Counting(m, i) : TRUE
           agent == m.agents[last]
<1>6. last \in Counting(a, i) /\ last \in DOMAIN a.agents /\ a.agents[last].inst = i
  BY <1>4, <1>5 DEF Counting
<1>7. /\ Evicts(m, i) = Counted(agent, agent.evict, -1)
      /\ Admits(m, i) = Counted(agent, agent.admit, 1)
  BY <1>5 DEF Evicts, Admits
<1>8. /\ Evicts(a, i) = Counted(a.agents[last], a.agents[last].evict, -1)
      /\ Admits(a, i) = Counted(a.agents[last], a.agents[last].admit, 1)
  BY <1>4, <1>5 DEF Evicts, Admits
<1> HIDE DEF last, masked
<1>9. i \notin masked
  <2> SUFFICES ASSUME i \in masked PROVE FALSE
    OBVIOUS
  <2>1. agent.reconfig = <<>> /\ agent.evict = <<>> /\ agent.admit = <<>>
    BY <1>2, <1>6, MaskedEntry
  <2>2. \A sign : {j \in DOMAIN agent.reconfig : sign * agent.reconfig[j] > 0} = {}
    BY <2>1
  <2>3. Evicts(m, i) = 0 /\ Admits(m, i) = 0
    BY <1>7, <2>1, <2>2, FS_EmptySet DEF Counted
  <2> QED  BY <2>3
<1>10. agent = a.agents[last]
  BY <1>2, <1>6, <1>9, MaskedEntry
<1>11. Evicts(m, i) = Evicts(a, i) /\ Admits(m, i) = Admits(a, i)
  BY <1>7, <1>8, <1>10
<1>12. a.agents # <<>>
  BY <1>6
<1>13. CheckQuorumInvariant(Evicts(a, i), Admits(a, i), faults)
  BY <1>9 DEF masked, MaskedInstances, Unsafe
<1> QED  BY <1>1, <1>11, <1>12, <1>13 DEF CheckQuorumInvariant

\* Whoever holds an action, and however late it is released, its changes of the
\* membership of each of the node's instances, as the last entry for the instance
\* has them, left 3f + 1 + DeltaS of the validators it was decided for, whatever the
\* policy answered (safety.go:98-279).
THEOREM AdaptiveEvictionsWereSafe == Spec => []EvictionsWereSafe
<1>1. Init => SafeInv
  BY NoActionSafe DEF Init, SafeInv
<1>2. SafeInv /\ [Next]_vars => SafeInv'
  <2> SUFFICES ASSUME SafeInv, [Next]_vars PROVE SafeInv'
    OBVIOUS
  <2>1. CASE UNCHANGED <<pending, hand, released>>
    BY <2>1 DEF SafeInv
  <2>2. CASE TickDecide
    <3>1. PICK leaders, level, suspects, a :
            /\ a \in Candidates(leaders)
            /\ LET faults == estimateFaults(suspects)
                   guarded == Guarded(Governed(a, level))
               IN  Submit(MaskUnsafeAction(guarded, faults), MaskedInstances(guarded, faults) # {})
      BY <2>2 DEF TickDecide
    <3> DEFINE faults == estimateFaults(suspects)
               guarded == Guarded(Governed(a, level))
               m == MaskUnsafeAction(guarded, faults)
    <3>2. Proposed(guarded)
      BY <3>1, CandidatesProposed, GovernedProposed, GuardedProposed
    <3>3. SafeAction(m)
      BY <3>2, MaskedSafe
    <3>4. Submit(m, MaskedInstances(guarded, faults) # {})
      BY <3>1
    <3> HIDE DEF m
    <3>5. hand' \in {m, NoAction} /\ pending' \in {m, NoAction}
      BY <3>4 DEF Submit
    <3>6. released' = released
      BY <2>2 DEF TickDecide, consumerVars
    <3>7. SafeAction(hand') /\ SafeAction(pending')
      BY <3>3, <3>5, NoActionSafe
    <3> QED  BY <3>6, <3>7 DEF SafeInv
  <2>3. ASSUME {hand', pending', released'} \subseteq {hand, pending, released, NoAction}
        PROVE  SafeInv'
    <3>1. SafeAction(hand') /\ SafeAction(pending') /\ SafeAction(released')
      BY <2>3, NoActionSafe DEF SafeInv
    <3> QED  BY <3>1 DEF SafeInv
  <2>4. TickApply \/ ApplyReleased \/ recordOrderedOutput =>
          {hand', pending', released'} \subseteq {hand, pending, released, NoAction}
    BY DEF TickApply, ApplyReleased, recordOrderedOutput, AdvanceEpoch, gateVars, tickVars,
           consumerVars
  <2>5. TickStart \/ TickEnd \/ InstallEpoch => UNCHANGED <<pending, hand, released>>
    BY DEF TickStart, TickEnd, InstallEpoch, gateVars, tickVars, consumerVars
  <2>6. UNCHANGED <<gateVars, tickVars, consumerVars>> => UNCHANGED <<pending, hand, released>>
    BY DEF gateVars, tickVars, consumerVars
  <2>7. UNCHANGED vars => UNCHANGED <<gateVars, tickVars, consumerVars>>
    BY DEF vars
  <2> QED  BY <2>1, <2>2, <2>3, <2>4, <2>5, <2>6, <2>7 DEF Next, Tick, Consumer
<1>3. SafeInv => EvictionsWereSafe
  BY DEF SafeInv, SafeAction, EvictionsWereSafe
<1> QED  BY <1>1, <1>2, <1>3, PTL DEF Spec

-----------------------------------------------------------------------------
(* Induction and recursion along an interval.                              *)

\* A nonempty set of natural numbers has a least element.
LEMMA LeastNumber ==
    ASSUME NEW T \in SUBSET Nat, T # {}
    PROVE  \E x \in T : \A y \in T : x <= y
<1> DEFINE R == StrictSubsetOrdering(Nat)
           I == {1..n : n \in T}
<1>1. IsWellFoundedOn(R, FiniteSubsetsOf(Nat))
  BY FS_StrictSubsetOrderingWellFounded
<1>2. I \subseteq FiniteSubsetsOf(Nat) /\ I # {}
  <2>1. ASSUME NEW n \in T PROVE 1..n \in FiniteSubsetsOf(Nat)
    <3>1. n \in Int /\ 1 \in Int /\ (1..n) \subseteq Nat
      OBVIOUS
    <3> QED  BY <3>1, FS_Interval DEF FiniteSubsetsOf
  <2> QED  BY <2>1
<1>3. PICK m \in I : \A t \in I : ~(<<t, m>> \in R)
  <2> HIDE DEF I, R
  <2> QED  BY <1>1, <1>2, WFMin
<1>4. PICK x \in T : m = 1..x
  OBVIOUS
<1>5. ASSUME NEW y \in T, y < x PROVE FALSE
  <2>1. (1..y) \subseteq (1..x) /\ x \in 1..x /\ x \notin 1..y
    BY <1>5
  <2>2. (1..y) # (1..x) /\ (1..x) \in SUBSET Nat /\ (1..y) \in SUBSET Nat
    BY <2>1
  <2>3. <<1..y, 1..x>> \in R
    BY <2>1, <2>2 DEF StrictSubsetOrdering
  <2> QED  BY <1>3, <1>4, <2>3
<1> QED  BY <1>5

\* Induction up to L.
LEMMA StepInduction ==
    ASSUME NEW L \in Nat, NEW T, 0 \in T, \A i \in 1..L : i - 1 \in T => i \in T
    PROVE  0..L \subseteq T
<1> SUFFICES ASSUME 0..L \ T # {} PROVE FALSE
  OBVIOUS
<1>1. PICK x \in 0..L \ T : \A y \in 0..L \ T : x <= y
  <2>1. 0..L \ T \in SUBSET Nat
    OBVIOUS
  <2> QED  BY <2>1, LeastNumber
<1>2. x \in 1..L /\ x - 1 \in 0..L /\ ~(x <= x - 1)
  BY <1>1
<1> QED  BY <1>1, <1>2

\* The values f of a loop of L turns, whose turn i makes g[<<x, i>>] of an x in X.
Loop(L, X, base, g, f) ==
    /\ f = [i \in 0..L |-> f[i]]
    /\ f[0] = base /\ \A i \in 1..L : f[i - 1] \in X => f[i] = g[<<f[i - 1], i>>]

\* A loop whose turns stay in X has such values, and all of them are in X.
LEMMA Recursion ==
    ASSUME NEW L \in Nat, NEW X, NEW base \in X, NEW g, \A x \in X, i \in 1..L : g[<<x, i>>] \in X
    PROVE  /\ \E f : Loop(L, X, base, g, f)
           /\ \A f : Loop(L, X, base, g, f) => \A i \in 0..L : f[i] \in X
<1> DEFINE T == {n \in 0..L : \E f : Loop(n, X, base, g, f)}
<1>1. 0 \in T
  <2> DEFINE f == [i \in 0..0 |-> base]
  <2>1. f = [i \in 0..0 |-> f[i]] /\ f[0] = base /\ 1..0 = {} /\ 0 \in 0..L
    OBVIOUS
  <2> HIDE DEF f
  <2>2. Loop(0, X, base, g, f)
    BY <2>1 DEF Loop
  <2> QED  BY <2>1, <2>2
<1>2. ASSUME NEW n \in 1..L, n - 1 \in T PROVE n \in T
  <2>1. PICK f : Loop(n - 1, X, base, g, f)
    BY <1>2
  <2> DEFINE h == [i \in 0..n |-> IF i = n THEN g[<<f[n - 1], n>>] ELSE f[i]]
  <2>2. /\ n - 1 \in 0..n /\ n - 1 # n /\ 0 \in 0..n /\ 0 # n /\ n \in 0..n /\ n \in 0..L
        /\ \A i \in 1..n : i = n \/ (i \in 1..(n - 1) /\ i \in 0..n /\ i - 1 \in 0..n /\ i # n /\ i - 1 # n)
    OBVIOUS
  <2>3. h = [i \in 0..n |-> h[i]] /\ h[n] = g[<<f[n - 1], n>>] /\ \A i \in 0..n : i # n => h[i] = f[i]
    BY <2>2
  <2> HIDE DEF h
  <2>4. h[0] = base
    BY <2>1, <2>2, <2>3 DEF Loop
  <2>5. ASSUME NEW i \in 1..n, h[i - 1] \in X PROVE h[i] = g[<<h[i - 1], i>>]
    <3>1. CASE i = n
      BY <2>2, <2>3, <3>1
    <3>2. CASE i # n
      BY <2>1, <2>2, <2>3, <2>5, <3>2 DEF Loop
    <3> QED  BY <3>1, <3>2
  <2>6. Loop(n, X, base, g, h)
    BY <2>3, <2>4, <2>5 DEF Loop
  <2> QED  BY <2>2, <2>6
<1>3. L \in T
  <2> HIDE DEF T
  <2>1. 0..L \subseteq T
    BY <1>1, <1>2, StepInduction
  <2> QED  BY <2>1
<1>4. ASSUME NEW f, Loop(L, X, base, g, f) PROVE \A i \in 0..L : f[i] \in X
  <2> DEFINE U == {i \in 0..L : f[i] \in X}
  <2>1. 0 \in U
    BY <1>4 DEF Loop
  <2>2. \A i \in 1..L : i - 1 \in U => i \in U
    <3>1. \A i \in 1..L : i \in 0..L
      OBVIOUS
    <3> QED  BY <1>4, <3>1 DEF Loop
  <2>3. 0..L \subseteq U
    <3> HIDE DEF U
    <3> QED  BY <2>1, <2>2, StepInduction
  <2> QED  BY <2>3
<1> QED  BY <1>3, <1>4

-----------------------------------------------------------------------------
(* Sizes.                                                                  *)

\* A validator set is finite and has at least four members.
LEMMA SizesAreNumbers ==
    \A e \in Epochs : Size(e) \in Nat /\ Size(e) >= 4 /\ IsFiniteSet(Members[e]) /\ Members[e] \subseteq Ids
<1>1. \A e \in Epochs : IsFiniteSet(Members[e]) /\ Size(e) >= 4 /\ Members[e] \subseteq Ids
  BY RuntimeConstants DEF Epochs
<1> QED  BY <1>1, FS_CardinalityType DEF Size

\* The quorum of a committee of at most n of m validators, m a set after n by one
\* change of the validator set.
LEMMA QuorumFits ==
    ASSUME NEW n \in Nat, NEW m \in Nat, NEW c \in 0..n, n >= 4,
           m >= n \/ n - m <= (n - 1) \div 3
    PROVE  (2 * c) \div 3 + 1 <= m
<1>1. PICK k \in Nat : n = 3 * k + 1 \/ n = 3 * k + 2 \/ n = 3 * k + 3
  <2>1. n - 1 \in Nat /\ (n - 1) \div 3 \in Nat
    OBVIOUS
  <2> DEFINE k == (n - 1) \div 3
  <2>2. n = 3 * k + 1 \/ n = 3 * k + 2 \/ n = 3 * k + 3
    OBVIOUS
  <2> HIDE DEF k
  <2> QED  BY <2>1, <2>2 DEF k
<1>2. (n - 1) \div 3 = k
  BY <1>1
<1>3. k >= 1
  BY <1>1
<1>4. m >= n - k
  BY <1>2, <1>3
<1>5. (2 * c) \div 3 <= (2 * n) \div 3
  OBVIOUS
<1>6. (2 * n) \div 3 <= n - k - 1
  BY <1>1, <1>3
<1>7. (2 * c) \div 3 \in Nat /\ (2 * n) \div 3 \in Nat
  OBVIOUS
<1> QED  BY <1>4, <1>5, <1>6, <1>7

\* A size c decided for epoch e, by now.
Sized(c, e, now) == e \in 1..now /\ c \in 0..Size(e)

\* Such a size can still make a quorum one epoch later.
LEMMA SizedQuorum ==
    ASSUME NEW now \in Epochs, NEW c, NEW e, Sized(c, e, now), now <= e + 1
    PROVE  (2 * c) \div 3 + 1 <= Size(now)
<1>1. e \in Epochs /\ now \in Nat /\ e \in Nat
  BY RuntimeConstants DEF Sized, Epochs
<1>2. Size(e) \in Nat /\ Size(e) >= 4 /\ Size(now) \in Nat
  BY <1>1, SizesAreNumbers
<1>3. Size(now) >= Size(e) \/ Size(e) - Size(now) <= (Size(e) - 1) \div 3
  <2>1. CASE now = e
    BY <1>2, <2>1
  <2>2. CASE now # e
    <3>1. now \in Epochs \ {1} /\ now - 1 = e
      BY <1>1, <2>2 DEF Sized, Epochs
    <3> QED  BY <1>2, <3>1, RuntimeConstants
  <2> QED  BY <2>1, <2>2
<1>4. c \in 0..Size(e)
  BY DEF Sized
<1> QED  BY <1>2, <1>3, <1>4, QuorumFits

-----------------------------------------------------------------------------
(* What the policies propose has the types of an action.                   *)

\* Every rank below the number of elements is taken by an element.
LEMMA EveryRankTaken ==
    ASSUME NEW S \in SUBSET Nat, IsFiniteSet(S), NEW k \in 1..Cardinality(S)
    PROVE  \E x \in S : Cardinality({j \in S : j < x}) = k - 1
<1> DEFINE n == Cardinality(S)
           Below(x) == {j \in S : j < x}
           rank == [x \in S |-> Cardinality(Below(x))]
<1>1. n \in Nat
  BY FS_CardinalityType
<1>2. ASSUME NEW x \in S
      PROVE  IsFiniteSet(Below(x)) /\ Cardinality(Below(x)) \in 0..(n - 1)
  <2>1. Below(x) \in SUBSET S /\ x \in S /\ x \notin Below(x)
    OBVIOUS
  <2> HIDE DEF Below
  <2>2. /\ IsFiniteSet(Below(x)) /\ Cardinality(Below(x)) <= n
        /\ Cardinality(S) = Cardinality(Below(x)) => S = Below(x)
    BY <2>1, FS_Subset
  <2>3. Cardinality(Below(x)) \in Nat
    BY <2>2, FS_CardinalityType
  <2> QED  BY <1>1, <2>1, <2>2, <2>3
<1>3. ASSUME NEW x \in S, NEW y \in S, x < y
      PROVE  Cardinality(Below(x)) < Cardinality(Below(y))
  <2>0. x \in Nat /\ y \in Nat /\ \A j \in S : j \in Nat
    OBVIOUS
  <2>a. ~(x < x) /\ \A j \in S : j < x => j < y
    BY <1>3, <2>0
  <2>1. Below(x) \in SUBSET Below(y) /\ x \in Below(y) /\ x \notin Below(x)
    BY <1>3, <2>a
  <2>2. IsFiniteSet(Below(y)) /\ Cardinality(Below(x)) \in Nat /\ Cardinality(Below(y)) \in Nat
    BY <1>2
  <2> HIDE DEF Below
  <2>3. /\ Cardinality(Below(x)) <= Cardinality(Below(y))
        /\ Cardinality(Below(y)) = Cardinality(Below(x)) => Below(y) = Below(x)
    BY <2>1, <2>2, FS_Subset
  <2> QED  BY <2>1, <2>2, <2>3
<1>4. \A x \in S : rank[x] = Cardinality(Below(x))
  OBVIOUS
<1>5. rank \in [S -> 0..(n - 1)]
  <2> HIDE DEF Below
  <2> QED  BY <1>2
<1> HIDE DEF Below, rank
<1>6. \A x, y \in S : rank[x] = rank[y] => x = y
  <2> SUFFICES ASSUME NEW x \in S, NEW y \in S, rank[x] = rank[y], x # y PROVE FALSE
    OBVIOUS
  <2>1. x < y \/ y < x
    <3>1. x \in Nat /\ y \in Nat
      OBVIOUS
    <3> QED  BY <3>1
  <2>2. Cardinality(Below(x)) \in Nat /\ Cardinality(Below(y)) \in Nat
    BY <1>2
  <2> QED  BY <1>3, <1>4, <2>1, <2>2
<1>7. rank \in Injection(S, 0..(n - 1))
  BY <1>5, <1>6 DEF Injection, IsInjective
<1>8. IsFiniteSet(0..(n - 1)) /\ Cardinality(0..(n - 1)) = n
  <2> HIDE DEF n
  <2>1. n - 1 \in Int /\ 0 \in Int
    BY <1>1
  <2>2. /\ IsFiniteSet(0..(n - 1))
        /\ Cardinality(0..(n - 1)) = IF 0 > n - 1 THEN 0 ELSE n - 1 - 0 + 1
    BY <2>1, FS_Interval
  <2> QED  BY <1>1, <2>2
<1>9. rank \in Surjection(S, 0..(n - 1))
  BY <1>7, <1>8, FS_Injection
<1>10. k - 1 \in 0..(n - 1)
  BY <1>1
<1>11. PICK x \in S : rank[x] = k - 1
  <2> HIDE DEF n
  <2> QED  BY <1>9, <1>10 DEF Surjection
<1> QED  BY <1>4, <1>11 DEF Below

\* The snapshots name validators.
LEMMA SnapshotsAreIds ==
    ASSUME NEW leaders \in Reputed, NEW k \in 1..Cardinality(leaders)
    PROVE  Snapshots(leaders)[k] \in Ids
<1>1. IsFiniteSet(leaders) /\ leaders \subseteq Ids /\ leaders \in SUBSET Nat
  BY RuntimeConstants
<1>2. Snapshots(leaders)[k] = CHOOSE x \in leaders : Cardinality({j \in leaders : j < x}) = k - 1
  BY DEF Snapshots
<1>3. \E x \in leaders : Cardinality({j \in leaders : j < x}) = k - 1
  BY <1>1, EveryRankTaken
<1>4. Snapshots(leaders)[k] \in leaders
  BY <1>2, <1>3
<1> QED  BY <1>1, <1>4

\* A tuple's list of decisions becomes a list of validators.
LEMMA ChosenAreIds ==
    ASSUME NEW leaders \in Reputed, NEW reconfig \in Seq(Int), NEW sign \in Int
    PROVE  Chosen(reconfig, sign, leaders) \in Seq(Ids)
<1> DEFINE L == Len(reconfig)
           Taken(k) == k <= Cardinality(leaders) /\ sign * reconfig[k] > 0
           X == Seq(Ids)
           g == [p \in X \X (1..L) |-> IF Taken(p[2]) THEN Append(p[1], Snapshots(leaders)[p[2]]) ELSE p[1]]
           Is(t) == t = [k \in 0..L |-> IF k = 0 THEN <<>>
                                        ELSE IF k <= Cardinality(leaders) /\ sign * reconfig[k] > 0
                                        THEN Append(t[k - 1], Snapshots(leaders)[k]) ELSE t[k - 1]]
           t == CHOOSE u : Is(u)
<1>1. L \in Nat /\ <<>> \in X /\ L \in 0..L
  OBVIOUS
<1>2. \A x \in X, k \in 1..L : g[<<x, k>>] = IF Taken(k) THEN Append(x, Snapshots(leaders)[k]) ELSE x
  OBVIOUS
<1>3. \A k \in 1..L : Taken(k) => Snapshots(leaders)[k] \in Ids
  <2>0. Cardinality(leaders) \in Nat
    BY RuntimeConstants, FS_CardinalityType
  <2>1. \A k \in 1..L : k <= Cardinality(leaders) => k \in 1..Cardinality(leaders)
    BY <2>0
  <2> QED  BY <2>1, SnapshotsAreIds
<1> HIDE DEF L, g
<1>4. ASSUME NEW x \in X, NEW k \in 1..L PROVE g[<<x, k>>] \in X
  <2>1. Taken(k) => Append(x, Snapshots(leaders)[k]) \in Seq(Ids)
    <3> SUFFICES ASSUME Snapshots(leaders)[k] \in Ids PROVE Append(x, Snapshots(leaders)[k]) \in Seq(Ids)
      BY <1>3
    <3> HIDE DEF Taken
    <3> QED  OBVIOUS
  <2>2. g[<<x, k>>] = IF Taken(k) THEN Append(x, Snapshots(leaders)[k]) ELSE x
    BY <1>2
  <2> HIDE DEF Taken
  <2> QED  BY <2>1, <2>2
<1>5. \A k \in 0..L : k = 0 \/ (k \in 1..L /\ k # 0 /\ k - 1 \in 0..L)
  BY <1>1
<1>6. Is(t)
  <2>1. PICK f : Loop(L, X, <<>>, g, f) /\ \A k \in 0..L : f[k] \in X
    <3> HIDE DEF X
    <3> QED  BY <1>1, <1>4, Recursion
  <2>2. /\ f = [k \in 0..L |-> f[k]] /\ f[0] = <<>>
        /\ \A k \in 1..L : f[k] = IF Taken(k) THEN Append(f[k - 1], Snapshots(leaders)[k]) ELSE f[k - 1]
    <3> HIDE DEF X, Taken
    <3>1. /\ f = [k \in 0..L |-> f[k]] /\ f[0] = <<>>
          /\ \A k \in 1..L : f[k - 1] \in X => f[k] = g[<<f[k - 1], k>>]
      BY <2>1 DEF Loop
    <3>2. ASSUME NEW k \in 1..L
          PROVE  f[k] = IF Taken(k) THEN Append(f[k - 1], Snapshots(leaders)[k]) ELSE f[k - 1]
      <4>1. k - 1 \in 0..L
        BY <1>1
      <4>2. f[k - 1] \in X /\ f[k] = g[<<f[k - 1], k>>]
        BY <2>1, <3>1, <4>1
      <4> QED  BY <1>2, <4>2
    <3> QED  BY <3>1, <3>2
  <2>3. \A k \in 0..L : f[k] = IF k = 0 THEN <<>>
                             ELSE IF Taken(k) THEN Append(f[k - 1], Snapshots(leaders)[k]) ELSE f[k - 1]
    <3> HIDE DEF Taken
    <3> QED  BY <1>5, <2>2
  <2>4. Is(f)
    BY <2>2, <2>3
  <2> HIDE DEF Is
  <2> QED  BY <2>4
<1>7. t[L] \in X
  <2>1. \A k \in 0..L : t[k] = IF k = 0 THEN <<>> ELSE IF Taken(k) THEN Append(t[k - 1], Snapshots(leaders)[k]) ELSE t[k - 1]
    <3> HIDE DEF t
    <3> QED  BY <1>6
  <2>2. t = [k \in 0..L |-> t[k]]
    <3> HIDE DEF t
    <3> QED  BY <1>6
  <2> HIDE DEF X, t, Taken
  <2>a. t[0] = <<>>
    BY <1>1, <2>1
  <2>b. \A k \in 1..L : t[k] = IF Taken(k) THEN Append(t[k - 1], Snapshots(leaders)[k]) ELSE t[k - 1]
    <3>1. \A k \in 1..L : k \in 0..L /\ k # 0
      OBVIOUS
    <3> QED  BY <2>1, <3>1
  <2>3. Loop(L, X, <<>>, g, t)
    BY <1>2, <2>a, <2>b, <2>2 DEF Loop
  <2> QED  BY <1>1, <1>4, <2>3, Recursion
<1>8. Chosen(reconfig, sign, leaders) = t[L]
  BY DEF Chosen, L
<1> HIDE DEF t
<1> QED  BY <1>7, <1>8

\* The observed sizes were decided for epochs up to now, as is the observation.
Observed(now) ==
    obs.epoch \in 1..now /\ \A i \in Instances : Sized(obs.committee[i], obs.seenAt[i], now)

\* What a policy proposes is a list of well-formed entries.
Typed(a) == Proposed(a) /\ a.committee \in Int /\ a.agents \in Seq(AgentActions)

\* A list with one value for each entry of another one.
LEMMA MappedEntries ==
    ASSUME NEW S, NEW s, NEW T, s \in Seq(S), NEW f, DOMAIN f = DOMAIN s,
           f = [k \in DOMAIN s |-> f[k]], \A k \in DOMAIN s : f[k] \in T
    PROVE  f \in Seq(T)
<1>1. DOMAIN s = 1..Len(s) /\ Len(s) \in Nat
  OBVIOUS
<1>2. f \in [1..Len(s) -> T]
  BY <1>1
<1> QED  BY <1>1, <1>2

\* An observation of an installed epoch has sizes that are numbers.
LEMMA ObservedSizes ==
    ASSUME epoch \in Epochs, Observed(epoch)
    PROVE  obs.epoch \in Epochs /\ \A i \in Instances : obs.committee[i] \in Nat
<1>1. \A e \in 1..epoch : e \in Epochs
  BY RuntimeConstants DEF Epochs
<1>2. obs.epoch \in 1..epoch /\ \A i \in Instances : obs.seenAt[i] \in 1..epoch
  BY DEF Observed, Sized
<1>3. \A i \in Instances : Size(obs.seenAt[i]) \in Nat
  BY <1>1, <1>2, SizesAreNumbers
<1>4. \A i \in Instances : obs.committee[i] \in 0..Size(obs.seenAt[i])
  BY DEF Observed, Sized
<1> QED  BY <1>1, <1>2, <1>3, <1>4

\* So has the size that stands for an instance.
LEMMA ObservedSizeTyped ==
    ASSUME epoch \in Epochs, Observed(epoch), NEW inst
    PROVE  ObservedSize(inst) \in Int
<1>1. \A i \in Instances : obs.committee[i] \in Nat
  BY ObservedSizes
<1>2. 1 \in Instances
  BY RuntimeConstants DEF Instances
<1> QED  BY <1>1, <1>2 DEF ObservedSize

\* Whatever the policy proposes has its types.
LEMMA CandidatesTyped ==
    ASSUME epoch \in Epochs, Observed(epoch), NEW leaders \in Reputed, NEW a \in Candidates(leaders)
    PROVE  Typed(a)
<1>1. Proposed(a)
  BY CandidatesProposed
<1>2. obs.committee[1] \in Int
  BY ObservedSizeTyped, RuntimeConstants DEF ObservedSize, Instances
<1>3. <<>> \in Seq(AgentActions)
  OBVIOUS
<1>4. /\ Fallback.committee \in Int /\ Fallback.agents \in Seq(AgentActions)
      /\ ColdStart.committee \in Int /\ ColdStart.agents \in Seq(AgentActions)
  BY <1>2, <1>3 DEF Fallback, ColdStart, NoAction
<1>5. ASSUME NEW ans \in Answers, a = Convert(ans, leaders) PROVE Typed(a)
  <2>1. CASE ans.kind = "sfac"
    <3> DEFINE Tuples == [inst : Nat, reconfig : Seq(Int), param : [absolute : BOOLEAN, value : Int]]
    <3>1. ans.tuples \in Seq(Tuples)
      BY <2>1, AnswersTyped
    <3>2. a = convertSFACResponse(ans, leaders)
      BY <1>5, <2>1 DEF Convert
    <3>3. /\ a.committee = Fallback.committee
          /\ a.agents = [k \in DOMAIN ans.tuples |-> sfacActionFromTuple(ans.tuples[k], leaders)]
      BY <3>2 DEF convertSFACResponse, Fallback, NoAction
    <3>4. ASSUME NEW tuple \in Tuples
          PROVE  sfacActionFromTuple(tuple, leaders) \in AgentActions
      <4>1. ObservedSize(tuple.inst) \in Int
        BY ObservedSizeTyped
      <4>2. applySFACParams(ObservedSize(tuple.inst), tuple.param) \in Int
        BY <4>1 DEF applySFACParams
      <4>3. tuple.reconfig \in Seq(Int) /\ -1 \in Int /\ 1 \in Int
        OBVIOUS
      <4>4. /\ Chosen(tuple.reconfig, -1, leaders) \in Seq(Ids)
            /\ Chosen(tuple.reconfig, 1, leaders) \in Seq(Ids)
        BY <4>3, ChosenAreIds
      <4> QED  BY <4>2, <4>3, <4>4 DEF sfacActionFromTuple, AgentActions
    <3> HIDE DEF Tuples
    <3>5. \A k \in DOMAIN ans.tuples : ans.tuples[k] \in Tuples
      BY <3>1
    <3>6. \A k \in DOMAIN ans.tuples : a.agents[k] \in AgentActions
      BY <3>3, <3>4, <3>5
    <3>7. DOMAIN a.agents = DOMAIN ans.tuples /\ a.agents = [k \in DOMAIN ans.tuples |-> a.agents[k]]
      BY <3>3
    <3>8. a.agents \in Seq(AgentActions)
      BY <3>1, <3>6, <3>7, MappedEntries
    <3> QED  BY <1>1, <1>4, <3>3, <3>8 DEF Typed
  <2>2. CASE ans.kind # "sfac"
    <3>1. a = mergeHTTPActionFallback(ans)
      BY <1>5, <2>2 DEF Convert
    <3>2. /\ a.committee = IF ans.committee = 0 THEN Fallback.committee ELSE ans.committee
          /\ a.agents = ans.agents
      BY <3>1 DEF mergeHTTPActionFallback, Fallback, NoAction
    <3>3. ans.committee \in Int /\ ans.agents \in Seq(AgentActions)
      BY <2>2, AnswersTyped
    <3> QED  BY <1>1, <1>4, <3>2, <3>3 DEF Typed
  <2> QED  BY <2>1, <2>2
<1>6. a \in {ColdStart, Fallback} => Typed(a)
  BY <1>1, <1>4 DEF Typed
<1> QED  BY <1>5, <1>6 DEF Candidates

\* The guardrails bring a size into the range of the observed validators.
LEMMA ClampRange ==
    ASSUME obs.epoch \in Epochs, NEW size \in Int
    PROVE  Raised(size) \in Int /\ Clamp(size) \in 0..Size(obs.epoch)
<1>1. Size(obs.epoch) \in Nat /\ MinCommitteeSize \in Nat
  BY SizesAreNumbers, RuntimeConstants
<1> QED  BY <1>1 DEF Clamp, Raised

\* Governance rewrites a proposal without leaving its types.
LEMMA GovernedTyped ==
    ASSUME epoch \in Epochs, Observed(epoch), NEW a, Typed(a), NEW level
    PROVE  Typed(Governed(a, level))
<1> DEFINE b == Governed(a, level)
<1>1. Proposed(a) /\ Proposed(b)
  BY GovernedProposed DEF Typed
<1>2. /\ b.committee = IF level = "critical" THEN obs.committee[1] ELSE a.committee
      /\ b.agents = [k \in DOMAIN a.agents |-> GovernedAgent(a.agents[k], level)]
  BY <1>1 DEF Governed, Proposed, Shaped
<1> HIDE DEF b
<1>3. obs.committee[1] \in Int
  BY ObservedSizeTyped, RuntimeConstants DEF ObservedSize, Instances
<1>4. ASSUME NEW agent \in AgentActions PROVE GovernedAgent(agent, level) \in AgentActions
  <2>1. ObservedSize(agent.inst) \in Int
    BY ObservedSizeTyped
  <2>2. (IF FreezeLaneTuning(level) THEN ObservedSize(agent.inst) ELSE agent.committee) \in Int
    BY <2>1 DEF AgentActions
  <2>3. /\ (IF FreezeMembership(level) THEN <<>> ELSE agent.reconfig) \in Seq(Int)
        /\ (IF FreezeMembership(level) THEN <<>> ELSE agent.evict) \in Seq(Ids)
        /\ (IF FreezeMembership(level) THEN <<>> ELSE agent.admit) \in Seq(Ids)
    BY DEF AgentActions
  <2>4. agent.inst \in Nat
    BY DEF AgentActions
  <2> QED  BY <2>2, <2>3, <2>4 DEF GovernedAgent, AgentActions
<1>5. a.agents \in Seq(AgentActions) /\ \A k \in DOMAIN a.agents : a.agents[k] \in AgentActions
  BY DEF Typed
<1>6. \A k \in DOMAIN a.agents : b.agents[k] \in AgentActions
  BY <1>2, <1>4, <1>5
<1>7. DOMAIN b.agents = DOMAIN a.agents /\ b.agents = [k \in DOMAIN a.agents |-> b.agents[k]]
  BY <1>2
<1>8. b.agents \in Seq(AgentActions)
  BY <1>5, <1>6, <1>7, MappedEntries
<1> QED  BY <1>1, <1>2, <1>3, <1>8 DEF Typed, b

\* A list of entries whose sizes are, for the instances of the node, sizes of an epoch.
SizedEntries(agents, e) ==
    \A k \in DOMAIN agents : agents[k].inst \in Instances => agents[k].committee \in 0..Size(e)

\* After the guardrails every size is one of the observed epoch.
LEMMA GuardedSized ==
    ASSUME obs.epoch \in Epochs, NEW a, Typed(a)
    PROVE  /\ Typed(Guarded(a))
           /\ Guarded(a).committee \in 0..Size(obs.epoch)
           /\ SizedEntries(Guarded(a).agents, obs.epoch)
<1> DEFINE b == Guarded(a)
<1>1. Proposed(a) /\ Proposed(b)
  BY GuardedProposed DEF Typed
<1>2. /\ b.committee = Clamp(a.committee)
      /\ b.agents = [k \in DOMAIN a.agents |-> GuardedAgent(a.agents[k])]
  BY <1>1 DEF Guarded, Proposed, Shaped
<1> HIDE DEF b
<1>3. \A c \in 0..Size(obs.epoch) : c \in Int
  OBVIOUS
<1>4. b.committee \in 0..Size(obs.epoch) /\ b.committee \in Int
  BY <1>2, <1>3, ClampRange DEF Typed
<1>5. ASSUME NEW agent \in AgentActions
      PROVE  /\ GuardedAgent(agent) \in AgentActions
             /\ GuardedAgent(agent).inst \in Instances => GuardedAgent(agent).committee \in 0..Size(obs.epoch)
  <2> DEFINE c == IF agent.inst \in Instances THEN Clamp(agent.committee) ELSE Raised(agent.committee)
  <2>1. agent.committee \in Int
    BY DEF AgentActions
  <2>2. c \in Int /\ (agent.inst \in Instances => c \in 0..Size(obs.epoch))
    BY <1>3, <2>1, ClampRange
  <2>3. GuardedAgent(agent) = [agent EXCEPT !.committee = c]
    BY DEF GuardedAgent
  <2> HIDE DEF c
  <2>4. /\ GuardedAgent(agent) \in AgentActions
        /\ GuardedAgent(agent).inst = agent.inst /\ GuardedAgent(agent).committee = c
    BY <2>2, <2>3 DEF AgentActions
  <2> QED  BY <2>2, <2>4
<1>6. a.agents \in Seq(AgentActions) /\ \A k \in DOMAIN a.agents : a.agents[k] \in AgentActions
  BY DEF Typed
<1>7. \A k \in DOMAIN a.agents : b.agents[k] = GuardedAgent(a.agents[k])
  BY <1>2
<1>8. DOMAIN b.agents = DOMAIN a.agents /\ b.agents = [k \in DOMAIN a.agents |-> b.agents[k]]
  BY <1>2
<1>9. \A k \in DOMAIN a.agents : b.agents[k] \in AgentActions
  BY <1>5, <1>6, <1>7
<1>10. b.agents \in Seq(AgentActions)
  BY <1>6, <1>8, <1>9, MappedEntries
<1>11. SizedEntries(b.agents, obs.epoch)
  BY <1>5, <1>6, <1>7, <1>8 DEF SizedEntries
<1> QED  BY <1>1, <1>4, <1>10, <1>11 DEF Typed, b

\* An action that can be applied at now: its sizes were decided for epochs up to
\* now and are sizes of them, and its changes name validators.
Fits(a, now) ==
    /\ Sized(a.committee, a.seen, now)
    /\ a.agents \in Seq(AgentActions)
    /\ \A k \in DOMAIN a.agents :
          a.agents[k].inst \in Instances => Sized(a.agents[k].committee, a.sizeSeen[a.agents[k].inst], now)

\* What the mask lets through can be applied at once: an instance it masks gets
\* back the size it has, with the epoch that size was decided for.
LEMMA MaskedFits ==
    ASSUME epoch \in Epochs, Observed(epoch), NEW a, Typed(a), NEW faults,
           a.committee \in 0..Size(obs.epoch), SizedEntries(a.agents, obs.epoch)
    PROVE  Fits(MaskUnsafeAction(a, faults), epoch)
<1> DEFINE m == MaskUnsafeAction(a, faults)
           masked == MaskedInstances(a, faults)
<1>1. /\ Proposed(a) /\ m.seen = obs.epoch
      /\ m.agents = [k \in DOMAIN a.agents |-> MaskedAgent(a.agents[k], masked)]
  BY MaskedAction DEF Typed
<1>2. /\ m.committee = a.committee
      /\ \A i \in Instances :
            m.sizeSeen[i] = IF i \in masked THEN obs.seenAt[i] ELSE obs.epoch
  BY <1>1 DEF MaskUnsafeAction, Proposed, Shaped
<1> HIDE DEF m
<1>3. masked \subseteq Instances
  BY DEF MaskedInstances, Unsafe
<1>4. obs.epoch \in 1..epoch /\ \A i \in Instances : obs.committee[i] \in Int
  BY ObservedSizes DEF Observed
<1>5. a.agents \in Seq(AgentActions) /\ \A k \in DOMAIN a.agents : a.agents[k] \in AgentActions
  BY DEF Typed
<1>6. /\ DOMAIN m.agents = DOMAIN a.agents /\ m.agents = [k \in DOMAIN a.agents |-> m.agents[k]]
      /\ \A k \in DOMAIN a.agents : m.agents[k] = MaskedAgent(a.agents[k], masked)
  BY <1>1
<1> HIDE DEF masked
<1>7. ASSUME NEW agent \in AgentActions
      PROVE  MaskedAgent(agent, masked) \in AgentActions
  <2>1. CASE agent.inst \in masked
    <3>1. agent.inst \in Nat /\ obs.committee[agent.inst] \in Int
      BY <1>3, <1>4, <2>1 DEF AgentActions
    <3>2. <<>> \in Seq(Int) /\ <<>> \in Seq(Ids)
      OBVIOUS
    <3> QED  BY <2>1, <3>1, <3>2 DEF MaskedAgent, AgentActions
  <2>2. CASE agent.inst \notin masked
    BY <2>2 DEF MaskedAgent
  <2> QED  BY <2>1, <2>2
<1>8. m.agents \in Seq(AgentActions)
  <2>1. \A k \in DOMAIN a.agents : m.agents[k] \in AgentActions
    BY <1>5, <1>6, <1>7
  <2> QED  BY <1>5, <1>6, <2>1, MappedEntries
<1>9. ASSUME NEW k \in DOMAIN m.agents, m.agents[k].inst \in Instances
      PROVE  Sized(m.agents[k].committee, m.sizeSeen[m.agents[k].inst], epoch)
  <2> DEFINE i == a.agents[k].inst
  <2>0. k \in DOMAIN a.agents /\ m.agents[k] = MaskedAgent(a.agents[k], masked)
    BY <1>6
  <2>a. m.agents[k].inst = i
    BY <2>0, MaskedEntry
  <2>1. k \in DOMAIN a.agents /\ m.agents[k].inst = i /\ i \in Instances
    BY <1>9, <2>0, <2>a
  <2>2. CASE i \in masked
    <3>1. m.agents[k].committee = obs.committee[i]
      BY <2>0, <2>2, MaskedEntry
    <3>2. m.sizeSeen[i] = obs.seenAt[i] /\ Sized(obs.committee[i], obs.seenAt[i], epoch)
      BY <1>2, <2>1, <2>2 DEF Observed
    <3> QED  BY <2>1, <3>1, <3>2
  <2>3. CASE i \notin masked
    <3>1. m.agents[k] = a.agents[k]
      BY <2>0, <2>3, MaskedEntry
    <3>2. m.sizeSeen[i] = obs.epoch
      BY <1>2, <2>1, <2>3
    <3>3. a.agents[k].committee \in 0..Size(obs.epoch)
      BY <2>1 DEF SizedEntries
    <3> QED  BY <1>4, <2>1, <3>1, <3>2, <3>3 DEF Sized
  <2> QED  BY <2>2, <2>3
<1>10. Sized(m.committee, m.seen, epoch)
  BY <1>1, <1>2, <1>4 DEF Sized
<1> QED  BY <1>8, <1>9, <1>10 DEF Fits, m

-----------------------------------------------------------------------------
(* Applying an action that fits keeps every size one of a known epoch.     *)

\* The states of the node while an action is applied.
NodeStates ==
    {s \in [committee : [Instances -> Nat], seenAt : [Instances -> Nat],
            joins : SUBSET Ids, leaves : SUBSET Ids, ok : BOOLEAN] :
        \A i \in Instances : Sized(s.committee[i], s.seenAt[i], epoch)}

\* A leave or a join of this node is a request of a validator.
LEMMA LocalIntents ==
    ASSUME NEW s \in NodeStates, NEW refused \in BOOLEAN
    PROVE  submitLocalLeaveIntent(s, refused) \in NodeStates /\ submitLocalJoinIntent(s, refused) \in NodeStates
<1>1. Self \in Ids
  BY RuntimeConstants
<1>2. /\ [s EXCEPT !.ok = FALSE] \in NodeStates
      /\ [s EXCEPT !.leaves = s.leaves \cup {Self}] \in NodeStates
      /\ [s EXCEPT !.joins = s.joins \cup {Self}] \in NodeStates
  BY <1>1 DEF NodeStates
<1> QED  BY <1>2 DEF submitLocalLeaveIntent, submitLocalJoinIntent

\* One entry of an instance's changes.
LEMMA EntryApplied ==
    ASSUME NEW s \in NodeStates, NEW id \in Ids, NEW refused \in BOOLEAN, NEW known
    PROVE  Evict(s, id, refused) \in NodeStates /\ Admit(s, id, refused, known) \in NodeStates
<1>1. /\ [s EXCEPT !.leaves = s.leaves \cup {id}] \in NodeStates
      /\ [s EXCEPT !.joins = s.joins \cup {id}] \in NodeStates
  BY DEF NodeStates
<1> QED  BY <1>1, LocalIntents DEF Evict, Admit

\* All changes of an instance, one after the other.
LEMMA ReconfigurationApplied ==
    ASSUME NEW s \in NodeStates, NEW agent, NEW refused \in BOOLEAN, NEW known,
           agent.evict \in Seq(Ids), agent.admit \in Seq(Ids)
    PROVE  applyAgentReconfiguration(s, agent, refused, known) \in NodeStates
<1> DEFINE E == Len(agent.evict)
           A == Len(agent.admit)
           X == NodeStates
           g == [p \in X \X (1..E) |-> IF p[1].ok THEN Evict(p[1], agent.evict[p[2]], refused) ELSE p[1]]
           h == [p \in X \X (1..A) |-> IF p[1].ok THEN Admit(p[1], agent.admit[p[2]], refused, known) ELSE p[1]]
           Evicting(t) == t = [k \in 0..Len(agent.evict) |->
                                IF k = 0 THEN s
                                ELSE IF t[k - 1].ok THEN Evict(t[k - 1], agent.evict[k], refused)
                                ELSE t[k - 1]]
           evicted == CHOOSE t : Evicting(t)
           Admitting(t) == t = [k \in 0..Len(agent.admit) |->
                                IF k = 0 THEN evicted[Len(agent.evict)]
                                ELSE IF t[k - 1].ok THEN Admit(t[k - 1], agent.admit[k], refused, known)
                                ELSE t[k - 1]]
           admitted == CHOOSE t : Admitting(t)
<1>1. /\ E \in Nat /\ E \in 0..E /\ 0 \in 0..E /\ \A k \in 1..E : agent.evict[k] \in Ids
      /\ A \in Nat /\ A \in 0..A /\ 0 \in 0..A /\ \A k \in 1..A : agent.admit[k] \in Ids
  OBVIOUS
<1>2. /\ \A x \in X, k \in 1..E : g[<<x, k>>] = IF x.ok THEN Evict(x, agent.evict[k], refused) ELSE x
      /\ \A x \in X, k \in 1..A : h[<<x, k>>] = IF x.ok THEN Admit(x, agent.admit[k], refused, known) ELSE x
  OBVIOUS
<1>3. /\ \A k \in 0..E : k = 0 \/ (k \in 1..E /\ k # 0 /\ k - 1 \in 0..E)
      /\ \A k \in 0..A : k = 0 \/ (k \in 1..A /\ k # 0 /\ k - 1 \in 0..A)
      /\ \A k \in 1..E : k \in 0..E /\ k # 0 /\ k - 1 \in 0..E
      /\ \A k \in 1..A : k \in 0..A /\ k # 0 /\ k - 1 \in 0..A
  BY <1>1
<1> HIDE DEF X, g, h, E, A
<1>4. /\ \A x \in X, k \in 1..E : g[<<x, k>>] \in X
      /\ \A x \in X, k \in 1..A : h[<<x, k>>] \in X
  <2>1. ASSUME NEW x \in X, NEW k \in 1..E PROVE g[<<x, k>>] \in X
    <3>1. Evict(x, agent.evict[k], refused) \in X
      BY <1>1, EntryApplied DEF X
    <3> QED  BY <1>2, <3>1
  <2>2. ASSUME NEW x \in X, NEW k \in 1..A PROVE h[<<x, k>>] \in X
    <3>1. Admit(x, agent.admit[k], refused, known) \in X
      BY <1>1, EntryApplied DEF X
    <3> QED  BY <1>2, <3>1
  <2> QED  BY <2>1, <2>2
<1>5. Evicting(evicted)
  <2>1. PICK f : Loop(E, X, s, g, f) /\ \A k \in 0..E : f[k] \in X
    BY <1>1, <1>4, Recursion DEF X
  <2>2. /\ f = [k \in 0..E |-> f[k]] /\ f[0] = s
        /\ \A k \in 1..E : f[k - 1] \in X => f[k] = g[<<f[k - 1], k>>]
    BY <2>1 DEF Loop
  <2>3. \A k \in 1..E : f[k] = IF f[k - 1].ok THEN Evict(f[k - 1], agent.evict[k], refused) ELSE f[k - 1]
    BY <1>2, <1>3, <2>1, <2>2
  <2>4. \A k \in 0..E : f[k] = IF k = 0 THEN s
                               ELSE IF f[k - 1].ok THEN Evict(f[k - 1], agent.evict[k], refused)
                               ELSE f[k - 1]
    BY <1>3, <2>2, <2>3
  <2>5. Evicting(f)
    BY <2>2, <2>4 DEF E
  <2> HIDE DEF Evicting
  <2> QED  BY <2>5
<1>6. evicted[E] \in X
  <2> HIDE DEF evicted
  <2>1. evicted = [k \in 0..E |-> evicted[k]]
    BY <1>5 DEF E
  <2>2. \A k \in 0..E : evicted[k] =
           IF k = 0 THEN s
           ELSE IF evicted[k - 1].ok THEN Evict(evicted[k - 1], agent.evict[k], refused)
           ELSE evicted[k - 1]
    BY <1>5 DEF E
  <2>3. evicted[0] = s
    BY <1>1, <2>2
  <2>4. \A k \in 1..E : evicted[k] =
           IF evicted[k - 1].ok THEN Evict(evicted[k - 1], agent.evict[k], refused)
           ELSE evicted[k - 1]
    BY <1>3, <2>2
  <2>5. \A k \in 1..E : evicted[k - 1] \in X => evicted[k] = g[<<evicted[k - 1], k>>]
    BY <1>2, <2>4
  <2>6. Loop(E, X, s, g, evicted)
    BY <2>1, <2>3, <2>5 DEF Loop
  <2> QED  BY <1>1, <1>4, <2>6, Recursion DEF X
<1> HIDE DEF evicted
<1>7. Admitting(admitted)
  <2>1. PICK f : Loop(A, X, evicted[E], h, f) /\ \A k \in 0..A : f[k] \in X
    BY <1>1, <1>4, <1>6, Recursion
  <2>2. /\ f = [k \in 0..A |-> f[k]] /\ f[0] = evicted[E]
        /\ \A k \in 1..A : f[k - 1] \in X => f[k] = h[<<f[k - 1], k>>]
    BY <2>1 DEF Loop
  <2>3. \A k \in 1..A : f[k] = IF f[k - 1].ok THEN Admit(f[k - 1], agent.admit[k], refused, known) ELSE f[k - 1]
    BY <1>2, <1>3, <2>1, <2>2
  <2>4. \A k \in 0..A : f[k] = IF k = 0 THEN evicted[E]
                               ELSE IF f[k - 1].ok THEN Admit(f[k - 1], agent.admit[k], refused, known)
                               ELSE f[k - 1]
    BY <1>3, <2>2, <2>3
  <2>5. Admitting(f)
    BY <2>2, <2>4 DEF E, A
  <2> HIDE DEF Admitting
  <2> QED  BY <2>5
<1>8. admitted[A] \in X
  <2> HIDE DEF admitted
  <2>1. admitted = [k \in 0..A |-> admitted[k]]
    BY <1>7 DEF E, A
  <2>2. \A k \in 0..A : admitted[k] =
           IF k = 0 THEN evicted[E]
           ELSE IF admitted[k - 1].ok THEN Admit(admitted[k - 1], agent.admit[k], refused, known)
           ELSE admitted[k - 1]
    BY <1>7 DEF E, A
  <2>3. admitted[0] = evicted[E]
    BY <1>1, <2>2
  <2>4. \A k \in 1..A : admitted[k] =
           IF admitted[k - 1].ok THEN Admit(admitted[k - 1], agent.admit[k], refused, known)
           ELSE admitted[k - 1]
    BY <1>3, <2>2
  <2>5. \A k \in 1..A : admitted[k - 1] \in X => admitted[k] = h[<<admitted[k - 1], k>>]
    BY <1>2, <2>4
  <2>6. Loop(A, X, evicted[E], h, admitted)
    BY <2>1, <2>3, <2>5 DEF Loop
  <2> QED  BY <1>1, <1>4, <1>6, <2>6, Recursion
<1>9. applyAgentReconfiguration(s, agent, refused, known) = admitted[A]
  BY DEF applyAgentReconfiguration, A, evicted
<1> HIDE DEF admitted
<1> QED  BY <1>8, <1>9 DEF X

\* The tuning and the changes of one instance.
LEMMA AgentApplied ==
    ASSUME NEW s \in NodeStates, NEW a, Fits(a, epoch), NEW k \in DOMAIN a.agents,
           NEW refused \in BOOLEAN, NEW known, epoch \in Epochs
    PROVE  ApplyAgent(s, a, a.agents[k], refused, known) \in NodeStates
<1> DEFINE agent == a.agents[k]
           i == agent.inst
           c == agent.committee
           e == a.sizeSeen[i]
           tuned == IF i \in Instances THEN [s EXCEPT !.committee[i] = c, !.seenAt[i] = e] ELSE s
<1>1. agent.evict \in Seq(Ids) /\ agent.admit \in Seq(Ids)
  <2>1. agent \in AgentActions
    BY DEF Fits
  <2> QED  BY <2>1 DEF AgentActions
<1>2. i \in Instances => Sized(c, e, epoch)
  BY DEF Fits
<1>3. ApplyAgent(s, a, agent, refused, known) =
        IF ~s.ok THEN s ELSE applyAgentReconfiguration(tuned, agent, refused, known)
  BY DEF ApplyAgent
<1> HIDE DEF agent, i, c, e
<1>4. i \in Instances => c \in Nat /\ e \in Nat
  BY <1>2, SizesAreNumbers, RuntimeConstants DEF Sized, Epochs
<1>5. tuned \in NodeStates
  <2>1. CASE i \in Instances
    BY <1>2, <1>4, <2>1 DEF NodeStates
  <2> QED  BY <2>1
<1> HIDE DEF tuned
<1>6. applyAgentReconfiguration(tuned, agent, refused, known) \in NodeStates
  BY <1>1, <1>5, ReconfigurationApplied
<1> QED  BY <1>3, <1>6 DEF agent

\* The tuning of all instances.
LEMMA TuningApplied ==
    ASSUME NEW s \in NodeStates, NEW a, Fits(a, epoch), NEW refused \in BOOLEAN, NEW known,
           epoch \in Epochs
    PROVE  ApplyTuning(s, a, refused, known) \in NodeStates
<1>1. CASE a.agents # <<>>
  <2> DEFINE L == Len(a.agents)
             X == NodeStates
             g == [p \in X \X (1..L) |-> ApplyAgent(p[1], a, a.agents[p[2]], refused, known)]
             Tuning(t) == t = [i \in 0..Len(a.agents) |->
                                IF i = 0 THEN s ELSE ApplyAgent(t[i - 1], a, a.agents[i], refused, known)]
             tuned == CHOOSE t : Tuning(t)
  <2>1. /\ L \in Nat /\ L \in 0..L /\ 0 \in 0..L
        /\ \A i \in 0..L : i = 0 \/ (i \in 1..L /\ i # 0 /\ i - 1 \in 0..L)
        /\ \A i \in 1..L : i \in 0..L /\ i # 0 /\ i - 1 \in 0..L
        /\ \A i \in 1..L : i \in DOMAIN a.agents
    BY DEF Fits
  <2>2. \A x \in X, i \in 1..L : g[<<x, i>>] = ApplyAgent(x, a, a.agents[i], refused, known)
    OBVIOUS
  <2> HIDE DEF X, g, L
  <2>3. \A x \in X, i \in 1..L : g[<<x, i>>] \in X
    <3>1. ASSUME NEW x \in X, NEW i \in 1..L PROVE g[<<x, i>>] \in X
      <4>1. i \in DOMAIN a.agents /\ x \in NodeStates
        BY <2>1 DEF X
      <4>2. ApplyAgent(x, a, a.agents[i], refused, known) \in NodeStates
        BY <4>1, AgentApplied
      <4> QED  BY <2>2, <4>2 DEF X
    <3> QED  BY <3>1
  <2>4. Tuning(tuned)
    <3>1. PICK f : Loop(L, X, s, g, f) /\ \A i \in 0..L : f[i] \in X
      BY <2>1, <2>3, Recursion DEF X
    <3>2. /\ f = [i \in 0..L |-> f[i]] /\ f[0] = s
          /\ \A i \in 1..L : f[i - 1] \in X => f[i] = g[<<f[i - 1], i>>]
      BY <3>1 DEF Loop
    <3>3. \A i \in 1..L : f[i] = ApplyAgent(f[i - 1], a, a.agents[i], refused, known)
      BY <2>1, <2>2, <3>1, <3>2
    <3>4. \A i \in 0..L : f[i] = IF i = 0 THEN s ELSE ApplyAgent(f[i - 1], a, a.agents[i], refused, known)
      BY <2>1, <3>2, <3>3
    <3>5. Tuning(f)
      BY <3>2, <3>4 DEF L
    <3> HIDE DEF Tuning
    <3> QED  BY <3>5
  <2>5. tuned[L] \in X
    <3> HIDE DEF tuned
    <3>1. tuned = [i \in 0..L |-> tuned[i]]
      BY <2>4 DEF L
    <3>2. \A i \in 0..L : tuned[i] = IF i = 0 THEN s ELSE ApplyAgent(tuned[i - 1], a, a.agents[i], refused, known)
      BY <2>4 DEF L
    <3>3. tuned[0] = s
      BY <2>1, <3>2
    <3>4. \A i \in 1..L : tuned[i] = ApplyAgent(tuned[i - 1], a, a.agents[i], refused, known)
      BY <2>1, <3>2
    <3>5. \A i \in 1..L : tuned[i - 1] \in X => tuned[i] = g[<<tuned[i - 1], i>>]
      BY <2>2, <3>4
    <3>6. Loop(L, X, s, g, tuned)
      BY <3>1, <3>3, <3>5 DEF Loop
    <3> QED  BY <2>1, <2>3, <3>6, Recursion DEF X
  <2>6. ApplyTuning(s, a, refused, known) = tuned[L]
    BY <1>1 DEF ApplyTuning, L
  <2> HIDE DEF tuned
  <2> QED  BY <2>5, <2>6 DEF X
<1>2. CASE a.agents = <<>>
  <2> DEFINE u == [s EXCEPT !.committee = [i \in Instances |-> a.committee],
                            !.seenAt = [i \in Instances |-> a.seen]]
  <2>1. Sized(a.committee, a.seen, epoch)
    BY DEF Fits
  <2>2. a.committee \in Nat /\ a.seen \in Nat
    BY <2>1, SizesAreNumbers, RuntimeConstants DEF Sized, Epochs
  <2>3. u \in NodeStates
    BY <2>1, <2>2 DEF NodeStates
  <2> QED  BY <1>2, <2>3 DEF ApplyTuning
<1> QED  BY <1>1, <1>2

\* The whole action.
LEMMA ActionApplied ==
    ASSUME epoch \in Epochs, NEW a, Fits(a, epoch), NEW refused \in BOOLEAN, NEW known,
           committee \in [Instances -> Nat], seenAt \in [Instances -> Nat],
           \A i \in Instances : Sized(committee[i], seenAt[i], epoch),
           pendingJoins \subseteq Ids, pendingLeaves \subseteq Ids
    PROVE  Applied(a, refused, known) \in NodeStates
<1> DEFINE start == [committee |-> committee, seenAt |-> seenAt, joins |-> pendingJoins,
                     leaves |-> pendingLeaves, ok |-> TRUE]
           tuned == ApplyTuning(start, a, refused, known)
           joined == IF tuned.ok /\ a.join THEN submitLocalJoinIntent(tuned, refused) ELSE tuned
<1>1. start \in NodeStates
  BY DEF NodeStates
<1>2. Applied(a, refused, known) = IF joined.ok /\ a.leave THEN submitLocalLeaveIntent(joined, refused) ELSE joined
  BY DEF Applied
<1> HIDE DEF start
<1>3. tuned \in NodeStates
  BY <1>1, TuningApplied
<1> HIDE DEF tuned
<1>4. joined \in NodeStates
  BY <1>3, LocalIntents
<1> HIDE DEF joined
<1> QED  BY <1>2, <1>4, LocalIntents

-----------------------------------------------------------------------------
(* Committee quorums stay within reach.                                    *)

\* Every size in force, observed, or held in an action was decided for an epoch up
\* to the installed one, and is at most the number of its validators.
SizeInv ==
    /\ epoch \in Epochs
    /\ committee \in [Instances -> Nat] /\ seenAt \in [Instances -> Nat]
    /\ \A i \in Instances : Sized(committee[i], seenAt[i], epoch)
    /\ pendingJoins \subseteq Ids /\ pendingLeaves \subseteq Ids
    /\ controller = "deciding" => Observed(epoch)
    /\ pending = NoAction \/ Fits(pending, epoch)
    /\ controller = "applying" => Fits(hand, epoch)
    /\ consumer = "apply" => Fits(released, epoch)

\* What fits an epoch fits the next one.
LEMMA LaterEpoch ==
    ASSUME NEW now \in Nat
    PROVE  /\ \A c, e : Sized(c, e, now) => Sized(c, e, now + 1)
           /\ \A a : Fits(a, now) => Fits(a, now + 1)
           /\ Observed(now) => Observed(now + 1)
<1>1. \A e \in 1..now : e \in 1..(now + 1)
  OBVIOUS
<1>2. \A c, e : Sized(c, e, now) => Sized(c, e, now + 1)
  BY <1>1 DEF Sized
<1>3. \A a : Fits(a, now) => Fits(a, now + 1)
  BY <1>2 DEF Fits
<1>4. Observed(now) => Observed(now + 1)
  BY <1>1, <1>2 DEF Observed
<1> QED  BY <1>2, <1>3, <1>4

\* The tick observes the sizes in force.
LEMMA TickStartSizes ==
    ASSUME SizeInv, TickStart
    PROVE  SizeInv'
<1>1. /\ obs' = Observe /\ controller' = "deciding"
      /\ UNCHANGED <<epoch, committee, seenAt, pendingJoins, pendingLeaves, pending, consumer, released>>
  BY DEF TickStart, nodeVars, gateVars, consumerVars
<1>2. /\ obs'.epoch = epoch /\ obs'.committee = committee /\ obs'.seenAt = seenAt
  BY <1>1 DEF Observe
<1>3. epoch \in 1..epoch
  BY RuntimeConstants DEF SizeInv, Epochs
<1>4. Observed(epoch)'
  BY <1>1, <1>2, <1>3 DEF Observed, SizeInv
<1> QED  BY <1>1, <1>4 DEF SizeInv

\* The tick decides: what it takes in its hand or leaves in the gate fits.
LEMMA TickDecideSizes ==
    ASSUME SizeInv, TickDecide
    PROVE  SizeInv'
<1>1. PICK leaders, level, suspects, a :
        /\ leaders \in Reputed /\ a \in Candidates(leaders)
        /\ LET faults == estimateFaults(suspects)
               guarded == Guarded(Governed(a, level))
           IN  Submit(MaskUnsafeAction(guarded, faults), MaskedInstances(guarded, faults) # {})
  BY DEF TickDecide
<1> DEFINE governed == Governed(a, level)
           guarded == Guarded(governed)
           faults == estimateFaults(suspects)
           m == MaskUnsafeAction(guarded, faults)
<1>2. /\ controller = "deciding"
      /\ UNCHANGED <<epoch, committee, seenAt, pendingJoins, pendingLeaves, consumer, released>>
  BY DEF TickDecide, nodeVars, consumerVars
<1>3. epoch \in Epochs /\ Observed(epoch)
  BY <1>2 DEF SizeInv
<1>4. obs.epoch \in Epochs
  BY <1>3, ObservedSizes
<1>5. Typed(a)
  BY <1>1, <1>3, CandidatesTyped
<1>6. Typed(governed)
  BY <1>3, <1>5, GovernedTyped
<1>7. Submit(m, MaskedInstances(guarded, faults) # {})
  BY <1>1
<1> HIDE DEF governed
<1>8. /\ Typed(guarded) /\ guarded.committee \in 0..Size(obs.epoch)
      /\ SizedEntries(guarded.agents, obs.epoch)
  BY <1>4, <1>6, GuardedSized
<1> HIDE DEF guarded, faults
<1>9. Fits(m, epoch)
  BY <1>3, <1>8, MaskedFits
<1> HIDE DEF m
<1>10. \/ hand' = m /\ pending' = NoAction /\ controller' = "applying"
       \/ pending' = m /\ controller' = "feedback"
  BY <1>7 DEF Submit
<1>11. Fits(m, epoch')
  BY <1>2, <1>9
<1>12. pending' = NoAction \/ Fits(pending', epoch')
  BY <1>10, <1>11
<1>13. controller' = "applying" => Fits(hand', epoch')
  BY <1>10, <1>11
<1>14. controller' # "deciding"
  BY <1>10
<1> QED  BY <1>2, <1>12, <1>13, <1>14 DEF SizeInv, Fits

\* An action is applied.
LEMMA ApplySizes ==
    ASSUME SizeInv, NEW a, Fits(a, epoch), NEW refused \in BOOLEAN, NEW known,
           Apply(a, Applied(a, refused, known))
    PROVE  /\ epoch' = epoch
           /\ committee' \in [Instances -> Nat] /\ seenAt' \in [Instances -> Nat]
           /\ \A i \in Instances : Sized(committee'[i], seenAt'[i], epoch')
           /\ pendingJoins' \subseteq Ids /\ pendingLeaves' \subseteq Ids
<1> DEFINE s == Applied(a, refused, known)
<1>1. s \in NodeStates
  BY ActionApplied DEF SizeInv
<1>2. /\ epoch' = epoch /\ committee' = s.committee /\ seenAt' = s.seenAt
      /\ pendingJoins' = s.joins /\ pendingLeaves' = s.leaves
  BY DEF Apply
<1> HIDE DEF s
<1> QED  BY <1>1, <1>2 DEF NodeStates

\* The tick applies what is in its hand.
LEMMA TickApplySizes ==
    ASSUME SizeInv, TickApply
    PROVE  SizeInv'
<1>1. PICK refused \in BOOLEAN, known \in KnownSets :
         Apply(hand, Applied(hand, refused, known)) /\ controller' \in {"feedback", "idle"}
  BY DEF TickApply
<1>2. controller = "applying" /\ UNCHANGED <<pending, consumer, released>>
  BY DEF TickApply, gateVars, consumerVars
<1>3. Fits(hand, epoch)
  BY <1>2 DEF SizeInv
<1>4. /\ epoch' = epoch
      /\ committee' \in [Instances -> Nat] /\ seenAt' \in [Instances -> Nat]
      /\ \A i \in Instances : Sized(committee'[i], seenAt'[i], epoch')
      /\ pendingJoins' \subseteq Ids /\ pendingLeaves' \subseteq Ids
  BY <1>1, <1>3, ApplySizes
<1>5. controller' # "applying" /\ controller' # "deciding"
  BY <1>1
<1>6. /\ epoch' \in Epochs
      /\ pending' = NoAction \/ Fits(pending', epoch')
      /\ consumer' = "apply" => Fits(released', epoch')
  BY <1>2, <1>4 DEF SizeInv
<1> QED  BY <1>4, <1>5, <1>6 DEF SizeInv, Fits

\* The consumer applies what the gate released, whatever the tick is doing.
LEMMA ReleasedSizes ==
    ASSUME SizeInv, ApplyReleased
    PROVE  SizeInv'
<1>1. PICK refused \in BOOLEAN, known \in KnownSets : Apply(released, Applied(released, refused, known))
  BY DEF ApplyReleased
<1>2. consumer = "apply" /\ consumer' = "range" /\ UNCHANGED <<pending, controller, obs, hand>>
  BY DEF ApplyReleased, gateVars, tickVars
<1>3. Fits(released, epoch)
  BY <1>2 DEF SizeInv
<1>4. /\ epoch' = epoch
      /\ committee' \in [Instances -> Nat] /\ seenAt' \in [Instances -> Nat]
      /\ \A i \in Instances : Sized(committee'[i], seenAt'[i], epoch')
      /\ pendingJoins' \subseteq Ids /\ pendingLeaves' \subseteq Ids
  BY <1>1, <1>3, ApplySizes
<1>5. /\ epoch' \in Epochs /\ consumer' # "apply"
      /\ pending' = NoAction \/ Fits(pending', epoch')
      /\ controller' = "applying" => Fits(hand', epoch')
      /\ controller' = "deciding" => Observed(epoch)
  BY <1>2, <1>4 DEF SizeInv
<1>6. Observed(epoch) => Observed(epoch)'
  BY <1>2, <1>4 DEF Observed
<1> QED  BY <1>4, <1>5, <1>6 DEF SizeInv, Fits

\* The consumer takes what the gate releases, or nothing.
LEMMA RecordSizes ==
    ASSUME SizeInv, recordOrderedOutput
    PROVE  SizeInv'
<1>1. /\ consumer' = IF released' = NoAction THEN "range" ELSE "apply"
      /\ UNCHANGED <<epoch, committee, seenAt, pendingJoins, pendingLeaves, controller, obs, hand>>
  BY DEF recordOrderedOutput, nodeVars, tickVars
<1>2. \/ released' = NoAction /\ pending' \in {NoAction, pending}
      \/ released' = pending /\ pending' = NoAction
  BY DEF recordOrderedOutput, AdvanceEpoch, gateVars
<1>3. pending' = NoAction \/ Fits(pending', epoch')
  BY <1>1, <1>2 DEF SizeInv
<1>4. consumer' = "apply" => Fits(released', epoch')
  BY <1>1, <1>2 DEF SizeInv
<1>5. Observed(epoch) => Observed(epoch)'
  BY <1>1 DEF Observed
<1> QED  BY <1>1, <1>3, <1>4, <1>5 DEF SizeInv, Fits

\* A new validator set ages every size by one epoch.
LEMMA InstallSizes ==
    ASSUME SizeInv, InstallEpoch
    PROVE  SizeInv'
<1>1. /\ epoch + 1 \in Epochs /\ epoch' = epoch + 1 /\ consumer' = "record"
      /\ pendingJoins' \subseteq pendingJoins /\ pendingLeaves' \subseteq pendingLeaves
      /\ UNCHANGED <<committee, seenAt, pending, controller, obs, hand>>
  BY DEF InstallEpoch, gateVars, tickVars
<1>2. epoch \in Nat
  BY RuntimeConstants DEF SizeInv, Epochs
<1>3. /\ \A i \in Instances : Sized(committee'[i], seenAt'[i], epoch')
      /\ pending' = NoAction \/ Fits(pending', epoch')
      /\ controller' = "applying" => Fits(hand', epoch')
      /\ controller' = "deciding" => Observed(epoch + 1)
  BY <1>1, <1>2, LaterEpoch DEF SizeInv
<1>4. Observed(epoch + 1) => Observed(epoch)'
  BY <1>1 DEF Observed
<1> QED  BY <1>1, <1>3, <1>4 DEF SizeInv, Fits

\* Every step keeps the sizes within the epochs they were decided for.
LEMMA SizeStep ==
    ASSUME SizeInv, [Next]_vars
    PROVE  SizeInv'
<1>1. CASE TickEnd
  <2>1. /\ controller' = "idle"
        /\ UNCHANGED <<epoch, committee, seenAt, pendingJoins, pendingLeaves, pending, consumer, released>>
    BY <1>1 DEF TickEnd, nodeVars, gateVars, consumerVars
  <2> QED  BY <2>1 DEF SizeInv, Fits
<1>2. CASE UNCHANGED <<nodeVars, gateVars, tickVars, consumerVars>>
  <2>1. UNCHANGED <<epoch, committee, seenAt, pendingJoins, pendingLeaves, pending, controller, obs,
                    hand, consumer, released>>
    BY <1>2 DEF nodeVars, gateVars, tickVars, consumerVars
  <2> QED  BY <2>1 DEF SizeInv, Fits, Observed
<1>3. UNCHANGED vars => UNCHANGED <<nodeVars, gateVars, tickVars, consumerVars>>
  BY DEF vars
<1> QED
  BY <1>1, <1>2, <1>3, TickStartSizes, TickDecideSizes, TickApplySizes, ReleasedSizes, RecordSizes,
     InstallSizes DEF Next, Tick, Consumer

\* The initial committee is one of the first epoch.
LEMMA SizeInit == Init => SizeInv
<1> SUFFICES ASSUME Init PROVE SizeInv
  OBVIOUS
<1>1. 1 \in Epochs /\ 1 \in 1..1
  BY RuntimeConstants DEF Epochs
<1>2. InitialCommittee \in 0..Size(1) /\ InitialCommittee \in Nat
  BY <1>1, SizesAreNumbers, RuntimeConstants
<1>3. /\ epoch = 1 /\ committee = [i \in Instances |-> InitialCommittee]
      /\ seenAt = [i \in Instances |-> 1] /\ pendingJoins = {} /\ pendingLeaves = {}
      /\ pending = NoAction /\ controller = "idle" /\ consumer = "range"
  BY DEF Init
<1>4. Sized(InitialCommittee, 1, 1)
  BY <1>1, <1>2 DEF Sized
<1> QED  BY <1>1, <1>2, <1>3, <1>4 DEF SizeInv

\* However late an action is applied, and whoever applies it, a committee size is
\* at most the number of validators it was decided for, so that its quorum can still be
\* made when the next change of the validator set is the largest allowed
\* (guardrails.go:55-105, safety.go:196-218, engine.go:1027).
THEOREM AdaptiveCommitteeQuorumReachable == Spec => []CommitteeQuorumReachable
<1>1. SizeInv => CommitteeQuorumReachable
  <2> SUFFICES ASSUME SizeInv, NEW i \in Instances, epoch <= seenAt[i] + 1
               PROVE  (2 * committee[i]) \div 3 + 1 <= Size(epoch)
    BY DEF CommitteeQuorumReachable
  <2>1. epoch \in Epochs /\ Sized(committee[i], seenAt[i], epoch)
    BY DEF SizeInv
  <2> QED  BY <2>1, SizedQuorum
<1>2. SizeInv /\ [Next]_vars => SizeInv'
  BY SizeStep
<1> QED  BY <1>1, <1>2, SizeInit, PTL DEF Spec

-----------------------------------------------------------------------------
(* Types.                                                                  *)

\* The types of what neither the decisions nor the sizes speak of.
ControlInv ==
    /\ BridgeTypeOK
    /\ gateEpoch \in Epochs \cup {0} /\ lastApplied \in Epochs \cup {0} /\ hasApplied \in BOOLEAN
    /\ controller \in {"idle", "deciding", "applying", "feedback"}
    /\ ticks \in 0..WarmupEpochs
    /\ consumer \in {"range", "record", "apply"}

\* The states of a request.
Progress == {"idle", "started", "trying", "answered", "exhausted", "ok", "error"}

\* A request makes progress, the breaker counts and the server comes and goes.
LEMMA BridgeTypes ==
    ASSUME BridgeTypeOK, BridgeNext
    PROVE  BridgeTypeOK'
<1> USE BridgeConstants
<1>1. /\ \A c \in Callers, p \in Progress : [call EXCEPT ![c] = p] \in [Callers -> Progress]
      /\ \A c \in Callers, n \in 0..MaxRetries : [tries EXCEPT ![c] = n] \in [Callers -> 0..MaxRetries]
  BY DEF BridgeTypeOK, Progress
<1>2. ASSUME NEW c \in Callers, checkCircuit(c)
      PROVE  BridgeTypeOK'
  BY <1>1, <1>2 DEF checkCircuit, BridgeTypeOK, serverVars, Progress
<1>3. ASSUME NEW c \in Callers, recordSuccess(c)
      PROVE  BridgeTypeOK'
  BY <1>1, <1>3 DEF recordSuccess, BridgeTypeOK, serverVars, Progress
<1>4. ASSUME NEW c \in Callers, recordFailure(c)
      PROVE  BridgeTypeOK'
  <2>1. failures' \in 0..ConsecutiveFailures
    BY <1>4 DEF recordFailure, BridgeTypeOK
  <2>2. /\ circuit' \in {"closed", "open", "halfOpen"}
        /\ cooled' \in BOOLEAN
    BY <1>4 DEF recordFailure, BridgeTypeOK
  <2>3. call' \in [Callers -> Progress]
    BY <1>1, <1>4 DEF recordFailure, Progress
  <2>4. UNCHANGED <<tries, serverUp, outages>>
    BY <1>4 DEF recordFailure, serverVars
  <2> QED  BY <2>1, <2>2, <2>3, <2>4 DEF BridgeTypeOK, Progress
<1>5. ASSUME NEW c \in Callers, Attempt(c)
      PROVE  BridgeTypeOK'
  <2>1. call' \in [Callers -> Progress]
    BY <1>1, <1>5 DEF Attempt, BridgeTypeOK, Progress
  <2>2. 0 \in 0..MaxRetries /\ tries[c] \in 0..MaxRetries
    BY DEF BridgeTypeOK
  <2>3. tries[c] < MaxRetries => tries[c] + 1 \in 0..MaxRetries
    BY <2>2
  <2>4. tries' \in [Callers -> 0..MaxRetries]
    BY <1>1, <1>5, <2>2, <2>3 DEF Attempt, BridgeTypeOK
  <2> QED  BY <1>5, <2>1, <2>4 DEF Attempt, BridgeTypeOK, serverVars, breakerVars, Progress
<1>6. ASSUME NEW c \in Callers, FeedbackReturns(c)
      PROVE  BridgeTypeOK'
  BY <1>1, <1>6 DEF FeedbackReturns, BridgeTypeOK, serverVars, breakerVars, Progress
<1>7. CASE Cool \/ ServerFails \/ ServerReturns
  <2>1. cooled' \in BOOLEAN /\ serverUp' \in BOOLEAN
    BY <1>7, Zenon DEF Cool, ServerFails, ServerReturns, breakerVars, serverVars, BridgeTypeOK
  <2>2. outages' \in 0..MaxOutages
    BY <1>7 DEF Cool, ServerFails, ServerReturns, serverVars, BridgeTypeOK
  <2>3. UNCHANGED <<failures, circuit, call, tries>>
    BY <1>7 DEF Cool, ServerFails, ServerReturns, breakerVars
  <2> QED  BY <2>1, <2>2, <2>3 DEF BridgeTypeOK
<1> QED  BY <1>2, <1>3, <1>4, <1>5, <1>6, <1>7 DEF BridgeNext, Do

\* Starting or ending a request of the tick keeps the types of the rest.
LEMMA CallTypes ==
    ASSUME BridgeTypeOK, UNCHANGED <<breakerVars, tries, serverVars>>,
           NEW c \in Callers, NEW p \in Progress, call' \in {call, [call EXCEPT ![c] = p]}
    PROVE  BridgeTypeOK'
<1>1. call' \in [Callers -> Progress]
  BY DEF BridgeTypeOK, Progress
<1> QED  BY <1>1 DEF BridgeTypeOK, breakerVars, serverVars, Progress

\* The gate moves to an installed epoch.
LEMMA GateTypes ==
    ASSUME ControlInv, SizeInv, recordOrderedOutput
    PROVE  ControlInv'
<1>1. UNCHANGED <<bridgeVars, controller, ticks>> /\ consumer' \in {"range", "apply"}
  BY DEF recordOrderedOutput, tickVars
<1>2. epoch \in Epochs
  BY DEF SizeInv
<1>3. /\ gateEpoch' \in {gateEpoch, epoch} /\ lastApplied' \in {lastApplied, epoch}
      /\ hasApplied' \in {hasApplied, TRUE}
  BY DEF recordOrderedOutput, AdvanceEpoch, gateVars
<1>4. BridgeTypeOK'
  BY <1>1 DEF ControlInv, BridgeTypeOK, bridgeVars, breakerVars, serverVars
<1> QED  BY <1>1, <1>2, <1>3, <1>4 DEF ControlInv

\* Every step keeps the types.
LEMMA ControlStep ==
    ASSUME ControlInv, SizeInv, [Next]_vars
    PROVE  ControlInv'
<1>1. CASE TickStart
  <2>1. call' \in {call, [call EXCEPT !["controller"] = "started"]}
    BY <1>1 DEF TickStart
  <2>2. UNCHANGED <<breakerVars, tries, serverVars>>
    BY <1>1 DEF TickStart
  <2>3. BridgeTypeOK'
    BY <2>1, <2>2, CallTypes DEF ControlInv, Callers, Progress
  <2>4. ticks' \in 0..WarmupEpochs
    BY <1>1, RuntimeConstants DEF TickStart, ControlInv
  <2> QED  BY <1>1, <2>3, <2>4 DEF TickStart, ControlInv, gateVars, consumerVars
<1>2. CASE TickDecide
  <2>1. /\ call' = [call EXCEPT !["controller"] = "idle"]
        /\ UNCHANGED <<breakerVars, tries, serverVars, gateEpoch, ticks, consumer>>
    BY <1>2 DEF TickDecide, consumerVars
  <2>2. BridgeTypeOK'
    BY <2>1, CallTypes DEF ControlInv, Callers, Progress
  <2>3. /\ controller' \in {"applying", "feedback"} /\ lastApplied' \in {lastApplied, gateEpoch}
        /\ hasApplied' \in {hasApplied, TRUE}
    BY <1>2 DEF TickDecide, Submit
  <2> QED  BY <2>1, <2>2, <2>3 DEF ControlInv
<1>3. CASE TickEnd
  <2>1. PICK c \in Callers : call' \in {call, [call EXCEPT ![c] = "started"]}
    BY <1>3 DEF TickEnd, Callers
  <2>2. UNCHANGED <<breakerVars, tries, serverVars>>
    BY <1>3 DEF TickEnd
  <2>3. BridgeTypeOK'
    BY <2>1, <2>2, CallTypes DEF ControlInv, Progress
  <2> QED  BY <1>3, <2>3 DEF TickEnd, ControlInv, gateVars, consumerVars
<1>4. CASE UNCHANGED <<bridgeVars, gateEpoch, lastApplied, hasApplied, ticks>>
           /\ controller' \in {controller, "feedback", "idle"}
           /\ consumer' \in {consumer, "record", "range"}
  <2>1. BridgeTypeOK'
    BY <1>4 DEF ControlInv, BridgeTypeOK, bridgeVars, breakerVars, serverVars
  <2> QED  BY <1>4, <2>1 DEF ControlInv
<1>5. TickApply \/ InstallEpoch \/ ApplyReleased =>
         /\ UNCHANGED <<bridgeVars, gateEpoch, lastApplied, hasApplied, ticks>>
         /\ controller' \in {controller, "feedback", "idle"}
         /\ consumer' \in {consumer, "record", "range"}
  BY DEF TickApply, InstallEpoch, ApplyReleased, gateVars, tickVars, consumerVars
<1>6. CASE BridgeNext /\ UNCHANGED <<nodeVars, gateVars, tickVars, consumerVars, applied>>
  <2>1. BridgeTypeOK'
    BY <1>6, BridgeTypes DEF ControlInv
  <2> QED  BY <1>6, <2>1 DEF ControlInv, gateVars, tickVars, consumerVars
<1>7. UNCHANGED vars => UNCHANGED <<bridgeVars, gateEpoch, lastApplied, hasApplied, ticks, controller, consumer>>
  BY DEF vars, gateVars, tickVars, consumerVars
<1> QED  BY <1>1, <1>2, <1>3, <1>4, <1>5, <1>6, <1>7, GateTypes DEF Next, Tick, Consumer

\* The node starts with the types.
LEMMA ControlInit == Init => ControlInv
<1> USE BridgeConstants, RuntimeConstants
<1> SUFFICES ASSUME Init PROVE ControlInv
  OBVIOUS
<1>1. BridgeTypeOK
  <2>1. 0 \in 0..ConsecutiveFailures /\ 0 \in 0..MaxRetries /\ 0 \in 0..MaxOutages
    OBVIOUS
  <2>2. call \in [Callers -> Progress] /\ tries \in [Callers -> 0..MaxRetries]
    BY <2>1 DEF Init, BridgeInit, Progress
  <2>3. failures = 0 /\ circuit = "closed" /\ cooled = FALSE /\ serverUp = TRUE /\ outages = 0
    BY DEF Init, BridgeInit
  <2>4. cooled \in BOOLEAN /\ serverUp \in BOOLEAN
    BY <2>3
  <2> QED  BY <2>1, <2>2, <2>3, <2>4 DEF BridgeTypeOK, Progress
<1>2. 0 \in 0..WarmupEpochs
  OBVIOUS
<1>3. /\ gateEpoch = 0 /\ lastApplied = 0 /\ hasApplied = FALSE
      /\ controller = "idle" /\ ticks = 0 /\ consumer = "range"
  BY DEF Init
<1> QED  BY <1>1, <1>2, <1>3 DEF ControlInv

\* Every variable of the control loop keeps its type.
THEOREM AdaptiveTypeCorrect == Spec => []TypeOK
<1>1. Init => PlaceInv /\ SizeInv /\ ControlInv
  BY NoActionShaped, RuntimeConstants, SizeInit, ControlInit DEF Init, PlaceInv
<1>2. PlaceInv /\ SizeInv /\ ControlInv /\ [Next]_vars => (PlaceInv /\ SizeInv /\ ControlInv)'
  BY PlaceStep, SizeStep, ControlStep
<1>3. PlaceInv /\ SizeInv /\ ControlInv => TypeOK
  <2> SUFFICES ASSUME PlaceInv, SizeInv, ControlInv PROVE TypeOK
    OBVIOUS
  <2>1. {pending.id, hand.id, released.id} \subseteq Decisions \cup {NoDecision}
    <3>1. \A d \in 0..decided : d \in Decisions \cup {NoDecision}
      <4>1. MaxDecisions \in Nat /\ decided \in 0..MaxDecisions
        BY RuntimeConstants DEF PlaceInv
      <4> QED  BY <4>1 DEF Decisions, NoDecision
    <3> QED  BY <3>1 DEF PlaceInv
  <2>2. applied \in [Decisions -> Nat]
    BY DEF PlaceInv
  <2>3. \A e \in 1..epoch : e \in Epochs
    BY RuntimeConstants DEF SizeInv, Epochs
  <2>4. seenAt \in [Instances -> Epochs]
    <3>1. seenAt \in [Instances -> Nat] /\ \A i \in Instances : seenAt[i] \in 1..epoch
      BY DEF SizeInv, Sized
    <3> QED  BY <2>3, <3>1
  <2> QED  BY <2>1, <2>2, <2>4 DEF TypeOK, PlaceInv, SizeInv, ControlInv
<1> QED  BY <1>1, <1>2, <1>3, PTL DEF Spec
=============================================================================
