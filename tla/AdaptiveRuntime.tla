--------------------------- MODULE AdaptiveRuntime --------------------------
(***************************************************************************)
(* The adaptive controller of one node (adaptive/controller.go) and the    *)
(* runtime that gives it its observations and carries out its actions      *)
(* (cmd/evolvbft/adaptive_runtime.go).  A tick observes the node, asks the *)
(* policy, which asks a server (PolicyBridge.tla), for an action, passes   *)
(* it through governance, guardrails and the safety filter, and submits it *)
(* to the epoch gate, which lets it be applied now or keeps it.  The       *)
(* consumer goroutine of main.go installs the validator sets and releases  *)
(* what the gate keeps; it applies actions next to the controller.         *)
(*                                                                         *)
(* Of the tuning only the committee size is kept: the timeouts and batch   *)
(* limits are clamped to constants.  What the node observes beside the     *)
(* membership (the escalation level, the number of suspects, the leaders   *)
(* it has statistics of) is a free choice, made where it is used.  Nothing *)
(* checks a policy's answer: it may name an instance twice, or one that    *)
(* the node does not have.                                                 *)
(***************************************************************************)
EXTENDS PolicyBridge, Integers, SequencesExt

CONSTANTS
    Ids, Self,          \* validator identifiers, and this node's
    NumInstances,       \* the engines of the node
    Members,            \* the validator sets of the epochs, from epoch 1 on
    InitialCommittee,   \* Options.CommitteeSize
    Answers,            \* what the server may answer
    Levels,             \* escalation levels the observations may give
    Suspects,           \* how many validators the trust estimate may suspect
    Reputed,            \* sets of leaders it may have statistics of
    MinCommitteeSize, DeltaS, GlobalBudgetMin,   \* Guardrails, SafetyFilter
    MinCooldownEpochs, WarmupEpochs,             \* EpochGateConfig, Config
    MaxDecisions        \* bound: answers of the server that are taken

Instances == 1..NumInstances
Epochs == 1..Len(Members)
Size(e) == Cardinality(Members[e])

\* The executor lets one validator join, or at most a third leave, per epoch.
ASSUME RuntimeConstants ==
    /\ Ids \subseteq Nat /\ Self \in Ids /\ NumInstances \in Nat \ {0}
    /\ Members \in Seq(SUBSET Ids) /\ Members # <<>>
    /\ \A e \in Epochs : IsFiniteSet(Members[e]) /\ Size(e) >= 4
    /\ \A e \in Epochs \ {1} :
          \/ Members[e - 1] \subseteq Members[e] /\ Size(e) = Size(e - 1) + 1
          \/ Members[e] \subseteq Members[e - 1] /\ Size(e - 1) - Size(e) <= (Size(e - 1) - 1) \div 3
    /\ InitialCommittee \in 0..Size(1)
    /\ Levels \subseteq {"nominal", "elevated", "missing", "critical"}
    /\ Suspects \subseteq Nat
    /\ Reputed \subseteq SUBSET Ids /\ \A leaders \in Reputed : IsFiniteSet(leaders)
    /\ {MinCommitteeSize, DeltaS, GlobalBudgetMin, MinCooldownEpochs, WarmupEpochs} \subseteq Nat
    /\ MinCommitteeSize <= 4 /\ MinCooldownEpochs > 0
    /\ MaxDecisions \in Nat

\* An entry for one instance: its tuning and its changes of the membership, as
\* decisions and as lists of validators.
AgentActions ==
    [inst : Nat, committee : Int, reconfig : Seq(Int), evict : Seq(Ids), admit : Seq(Ids)]

\* Identifiers are decoded as natural numbers, sizes and decisions as integers.
ASSUME AnswersTyped ==
    \A ans \in Answers :
        IF ans.kind = "sfac"
        THEN ans.tuples \in Seq([inst : Nat, reconfig : Seq(Int),
                                 param : [absolute : BOOLEAN, value : Int]])
        ELSE ans.committee \in Int /\ ans.agents \in Seq(AgentActions)

Decisions == 1..MaxDecisions
NoDecision == 0

\* An action: the tuning of all engines, or a list of entries for instances.  seen
\* is the epoch it was decided for, and sizeSeen the one each instance's size was
\* decided for.
NoAction == [id |-> NoDecision, committee |-> 0, agents |-> <<>>, join |-> FALSE,
             leave |-> FALSE, seen |-> 0, sizeSeen |-> [i \in Instances |-> 0], faults |-> 0]

VARIABLES
    epoch,            \* the installed configuration
    committee,        \* committeeSize of each engine
    seenAt,           \* the epoch its value was decided for
    pendingJoins, pendingLeaves,   \* requests of the Hydra manager
    gateEpoch, lastApplied, pending,  \* EpochGate; 0 for ~hasApplied in lastApplied
    hasApplied,
    controller,       \* what the tick is doing
    ticks,            \* Controller.epochCounter, up to WarmupEpochs
    obs,              \* what it observed, while it decides
    hand,             \* the action it is about to apply
    consumer,         \* what the consumer is doing
    released,         \* the action it is about to apply
    decided,          \* answers taken
    applied           \* how often each of them was applied

gateVars == <<gateEpoch, lastApplied, pending, hasApplied>>
nodeVars == <<epoch, committee, seenAt, pendingJoins, pendingLeaves>>
tickVars == <<controller, ticks, obs, hand, decided>>
consumerVars == <<consumer, released>>
vars == <<bridgeVars, nodeVars, gateVars, tickVars, consumerVars, applied>>

Observe ==
    [epoch |-> epoch, committee |-> committee, seenAt |-> seenAt,
     requests |-> pendingJoins \cup pendingLeaves # {},
     warm |-> ticks >= WarmupEpochs]

NoObservation ==
    [epoch |-> 1, committee |-> [i \in Instances |-> 0], seenAt |-> [i \in Instances |-> 1],
     requests |-> FALSE, warm |-> FALSE]

TypeOK ==
    /\ BridgeTypeOK
    /\ epoch \in Epochs /\ gateEpoch \in Epochs \cup {0} /\ lastApplied \in Epochs \cup {0}
    /\ committee \in [Instances -> Nat] /\ seenAt \in [Instances -> Epochs]
    /\ pendingJoins \subseteq Ids /\ pendingLeaves \subseteq Ids
    /\ hasApplied \in BOOLEAN
    /\ {pending.id, hand.id, released.id} \subseteq Decisions \cup {NoDecision}
    /\ controller \in {"idle", "deciding", "applying", "feedback"}
    /\ ticks \in 0..WarmupEpochs
    /\ consumer \in {"range", "record", "apply"}
    /\ decided \in 0..MaxDecisions
    /\ applied \in [Decisions -> Nat]

Init ==
    /\ BridgeInit
    /\ epoch = 1
    /\ committee = [i \in Instances |-> InitialCommittee]
    /\ seenAt = [i \in Instances |-> 1]
    /\ pendingJoins = {} /\ pendingLeaves = {}
    /\ gateEpoch = 0 /\ lastApplied = 0 /\ hasApplied = FALSE /\ pending = NoAction
    /\ controller = "idle" /\ ticks = 0 /\ obs = NoObservation /\ hand = NoAction /\ decided = 0
    /\ consumer = "range" /\ released = NoAction
    /\ applied = [d \in Decisions |-> 0]

-----------------------------------------------------------------------------
(* The policies.                                                           *)

\* observationFallbackAction: the tuning of the first engine, for all of them.
Fallback == [NoAction EXCEPT !.committee = obs.committee[1], !.seen = obs.epoch]

\* HTTPPolicy: an answer is an action; a committee size left out is the observed one.
mergeHTTPActionFallback(ans) ==
    [Fallback EXCEPT !.id = decided + 1,
                     !.agents = ans.agents, !.join = ans.join, !.leave = ans.leave,
                     !.committee = IF ans.committee = 0 THEN @ ELSE ans.committee]

\* TrustSnapshots: the leaders with statistics, by identifier.
Snapshots(leaders) ==
    [k \in 1..Cardinality(leaders) |->
        CHOOSE id \in leaders : Cardinality({j \in leaders : j < id}) = k - 1]

\* applySFACReconfig: the validators a tuple decides upon with that sign.
Chosen(reconfig, sign, leaders) ==
    LET chosen[k \in 0..Len(reconfig)] ==
            IF k = 0 THEN <<>>
            ELSE IF k <= Cardinality(leaders) /\ sign * reconfig[k] > 0
            THEN Append(chosen[k - 1], Snapshots(leaders)[k])
            ELSE chosen[k - 1]
    IN  chosen[Len(reconfig)]

\* baseAgentAction: the size of an instance, or of the first for one not observed.
ObservedSize(inst) == IF inst \in Instances THEN obs.committee[inst] ELSE obs.committee[1]

\* sfacParamInt: a parameter within one of zero is an adjustment, of at most two.
applySFACParams(current, param) == IF param.absolute THEN param.value ELSE current + param.value

sfacActionFromTuple(tuple, leaders) ==
    [inst |-> tuple.inst,
     committee |-> applySFACParams(ObservedSize(tuple.inst), tuple.param),
     reconfig |-> tuple.reconfig,
     evict |-> Chosen(tuple.reconfig, -1, leaders), admit |-> Chosen(tuple.reconfig, 1, leaders)]

convertSFACResponse(ans, leaders) ==
    [Fallback EXCEPT
        !.id = decided + 1,
        !.agents = [k \in DOMAIN ans.tuples |-> sfacActionFromTuple(ans.tuples[k], leaders)]]

Convert(ans, leaders) ==
    IF ans.kind = "sfac" THEN convertSFACResponse(ans, leaders) ELSE mergeHTTPActionFallback(ans)

-----------------------------------------------------------------------------
(* Governance, guardrails and the safety filter.                           *)

FreezeMembership(level) == level # "nominal" \/ obs.requests
FreezeLaneTuning(level) == level \in {"missing", "critical"}

GovernedAgent(agent, level) ==
    [inst |-> agent.inst,
     committee |-> IF FreezeLaneTuning(level) THEN ObservedSize(agent.inst) ELSE agent.committee,
     reconfig |-> IF FreezeMembership(level) THEN <<>> ELSE agent.reconfig,
     evict |-> IF FreezeMembership(level) THEN <<>> ELSE agent.evict,
     admit |-> IF FreezeMembership(level) THEN <<>> ELSE agent.admit]

\* Governance.Sanitize
Governed(a, level) ==
    [a EXCEPT
        !.committee = IF level = "critical" THEN obs.committee[1] ELSE @,
        !.join = @ /\ ~FreezeMembership(level),
        !.leave = @ /\ ~FreezeMembership(level),
        !.agents = [k \in DOMAIN @ |-> GovernedAgent(@[k], level)]]

Raised(size) == IF size <= 0 THEN 0 ELSE IF size < MinCommitteeSize THEN MinCommitteeSize ELSE size

\* Mutant: the size is not capped by the number of validators.
NoCap(size) == Raised(size)

Clamp(size) == IF Raised(size) > Size(obs.epoch) THEN Size(obs.epoch) ELSE Raised(size)

\* The validators of an instance that is not observed are not known.
GuardedAgent(agent) ==
    [agent EXCEPT !.committee = IF agent.inst \in Instances THEN Clamp(@) ELSE Raised(@)]

\* Guardrails.Sanitize
Guarded(a) ==
    LET local == Self \in Members[obs.epoch]
    IN  [a EXCEPT
            !.committee = Clamp(@),
            !.join = @ /\ ~a.leave /\ ~local,
            !.leave = @ /\ ~a.join /\ local /\ Size(obs.epoch) > 3,
            !.agents = [k \in DOMAIN @ |-> GuardedAgent(@[k])]]

\* reconfigCounts: the lists, or the decisions if there are none.
Counted(agent, list, sign) ==
    IF agent.evict # <<>> \/ agent.admit # <<>>
    THEN Len(list)
    ELSE Cardinality({j \in DOMAIN agent.reconfig : sign * agent.reconfig[j] > 0})

\* buildInstanceStates: of several entries for an instance the last one counts.
Counting(a, i) ==
    {k \in DOMAIN a.agents :
        /\ a.agents[k].inst = i
        /\ \A j \in DOMAIN a.agents : a.agents[j].inst = i => j <= k}

Evicts(a, i) ==
    IF Counting(a, i) = {} THEN 0
    ELSE LET agent == a.agents[CHOOSE k \in Counting(a, i) : TRUE] IN Counted(agent, agent.evict, -1)
Admits(a, i) ==
    IF Counting(a, i) = {} THEN 0
    ELSE LET agent == a.agents[CHOOSE k \in Counting(a, i) : TRUE] IN Counted(agent, agent.admit, 1)

\* estimateFaults: what the trust estimate suspects, up to a third.
estimateFaults(suspects) ==
    LET cap == (Size(obs.epoch) - 1) \div 3 IN IF suspects > cap THEN cap ELSE suspects

Threshold(faults) == 3 * (IF faults < 1 THEN 1 ELSE faults) + 1 + DeltaS

\* Mutant: the check counts the validators before the change.
CountBefore(evicts, admits, faults) ==
    evicts + admits = 0 \/ Size(obs.epoch) >= Threshold(faults)

CheckQuorumInvariant(evicts, admits, faults) ==
    evicts + admits = 0 \/ Size(obs.epoch) - evicts + admits >= Threshold(faults)

\* Phase 1 of MaskUnsafeAction: the instances that fail on their own.
Unsafe(a, faults) ==
    {i \in Instances : ~CheckQuorumInvariant(Evicts(a, i), Admits(a, i), faults)}

\* CheckCoupledConstraint, once the evictions of the unsafe instances are zero.
CheckCoupledConstraint(a, unsafe) ==
    LET after(i) == Size(obs.epoch) - (IF i \in unsafe THEN 0 ELSE Evicts(a, i)) + Admits(a, i)
    IN  FoldLeft(LAMBDA sum, i : sum + after(i), 0, [i \in Instances |-> i]) >= GlobalBudgetMin

MaskedInstances(a, faults) ==
    LET unsafe == Unsafe(a, faults)
    IN  IF CheckCoupledConstraint(a, unsafe)
        THEN unsafe
        ELSE unsafe \cup {i \in Instances : Evicts(a, i) > 0}

\* A masked instance keeps the size it has, which no guardrail has looked at since
\* it was decided.  Every entry that names it is masked.
MaskedAgent(agent, masked) ==
    IF agent.inst \in masked
    THEN [inst |-> agent.inst, committee |-> obs.committee[agent.inst],
          reconfig |-> <<>>, evict |-> <<>>, admit |-> <<>>]
    ELSE agent

MaskUnsafeAction(a, faults) ==
    LET masked == MaskedInstances(a, faults)
    IN  [a EXCEPT
            !.faults = IF a.agents = <<>> THEN 0 ELSE faults,
            !.leave = @ /\ masked = {},
            !.sizeSeen = [i \in Instances |-> IF i \in masked THEN obs.seenAt[i] ELSE a.seen],
            !.agents = [k \in DOMAIN @ |-> MaskedAgent(@[k], masked)]]

-----------------------------------------------------------------------------
(* Apply, on the node's state s: an error ends it half-way.                *)

\* submitLocalLeaveIntent; refused says that AddTransaction fails.
submitLocalLeaveIntent(s, refused) ==
    IF Self \notin Members[epoch] \/ Size(epoch) <= 3 \/ Self \in s.leaves
    THEN s
    ELSE IF refused THEN [s EXCEPT !.ok = FALSE] ELSE [s EXCEPT !.leaves = @ \cup {Self}]

submitLocalJoinIntent(s, refused) ==
    IF Self \in Members[epoch] \/ Self \in s.joins
    THEN s
    ELSE IF refused THEN [s EXCEPT !.ok = FALSE] ELSE [s EXCEPT !.joins = @ \cup {Self}]

Evict(s, id, refused) ==
    IF id = Self THEN submitLocalLeaveIntent(s, refused) ELSE [s EXCEPT !.leaves = @ \cup {id}]

\* The node knows the keys of the current validators, and those of the highest
\* configuration it has discovered.
Admit(s, id, refused, known) ==
    IF id = Self THEN submitLocalJoinIntent(s, refused)
    ELSE IF id \in Members[epoch] \/ id \notin known THEN s ELSE [s EXCEPT !.joins = @ \cup {id}]

applyAgentReconfiguration(s, agent, refused, known) ==
    LET evicted[k \in 0..Len(agent.evict)] ==
            IF k = 0 THEN s
            ELSE IF evicted[k - 1].ok THEN Evict(evicted[k - 1], agent.evict[k], refused)
            ELSE evicted[k - 1]
        admitted[k \in 0..Len(agent.admit)] ==
            IF k = 0 THEN evicted[Len(agent.evict)]
            ELSE IF admitted[k - 1].ok THEN Admit(admitted[k - 1], agent.admit[k], refused, known)
            ELSE admitted[k - 1]
    IN  admitted[Len(agent.admit)]

\* SetAdaptiveTuning of the engine, if there is one, then the reconfiguration, which
\* no instance is needed for.
ApplyAgent(s, a, agent, refused, known) ==
    IF ~s.ok THEN s
    ELSE LET inst == agent.inst
             tuned == IF inst \in Instances
                      THEN [s EXCEPT !.committee[inst] = agent.committee,
                                     !.seenAt[inst] = a.sizeSeen[inst]]
                      ELSE s
         IN  applyAgentReconfiguration(tuned, agent, refused, known)

ApplyTuning(s, a, refused, known) ==
    IF a.agents # <<>>
    THEN LET tuned[k \in 0..Len(a.agents)] ==
                 IF k = 0 THEN s ELSE ApplyAgent(tuned[k - 1], a, a.agents[k], refused, known)
         IN  tuned[Len(a.agents)]
    ELSE [s EXCEPT !.committee = [i \in Instances |-> a.committee],
                   !.seenAt = [i \in Instances |-> a.seen]]

Applied(a, refused, known) ==
    LET start == [committee |-> committee, seenAt |-> seenAt, joins |-> pendingJoins,
                  leaves |-> pendingLeaves, ok |-> TRUE]
        tuned == ApplyTuning(start, a, refused, known)
        joined == IF tuned.ok /\ a.join THEN submitLocalJoinIntent(tuned, refused) ELSE tuned
    IN  IF joined.ok /\ a.leave THEN submitLocalLeaveIntent(joined, refused) ELSE joined

\* GetHighestKnownConfiguration: the installed validator set, or a later one.
KnownSets == {Members[e] : e \in epoch..Len(Members)}

Apply(a, s) ==
    /\ committee' = s.committee /\ seenAt' = s.seenAt
    /\ pendingJoins' = s.joins /\ pendingLeaves' = s.leaves
    /\ applied' = [d \in Decisions |-> IF d = a.id THEN applied[d] + 1 ELSE applied[d]]
    /\ UNCHANGED epoch

-----------------------------------------------------------------------------
(* The epoch gate.                                                         *)

canApplyAt(e) == ~hasApplied \/ e >= lastApplied + MinCooldownEpochs

\* Submit: an emergency, or the end of the cooldown, lets the action through and
\* forgets what was kept; otherwise the action takes the place of what was kept.
Submit(a, emergency) ==
    IF emergency \/ canApplyAt(gateEpoch)
    THEN /\ lastApplied' = gateEpoch /\ hasApplied' = TRUE /\ pending' = NoAction
         /\ hand' = a /\ controller' = "applying"
    ELSE /\ pending' = a
         /\ hand' = NoAction /\ controller' = "feedback"
         /\ UNCHANGED <<lastApplied, hasApplied>>

\* Mutant: the released action stays in the gate.
ReleaseKeeps(e) ==
    /\ gateEpoch' = e
    /\ IF pending # NoAction /\ canApplyAt(e)
       THEN released' = pending /\ lastApplied' = e /\ hasApplied' = TRUE
       ELSE released' = NoAction /\ UNCHANGED <<lastApplied, hasApplied>>
    /\ UNCHANGED pending

\* AdvanceEpoch: drops what has waited too long, or releases it.
AdvanceEpoch(e) ==
    IF e <= gateEpoch
    THEN released' = NoAction /\ UNCHANGED gateVars
    ELSE /\ gateEpoch' = e
         /\ \/ /\ released' = NoAction
               /\ pending' \in {NoAction, IF canApplyAt(e) THEN NoAction ELSE pending}
               /\ UNCHANGED <<lastApplied, hasApplied>>
            \/ /\ pending # NoAction /\ canApplyAt(e)
               /\ released' = pending /\ pending' = NoAction
               /\ lastApplied' = e /\ hasApplied' = TRUE

-----------------------------------------------------------------------------
(* The controller's tick.                                                  *)

\* Observe, and the start of the request unless the controller is warming up.
TickStart ==
    /\ controller = "idle" /\ controller' = "deciding"
    /\ obs' = Observe
    /\ ticks' = IF ticks < WarmupEpochs THEN ticks + 1 ELSE ticks
    /\ call' = IF obs'.warm THEN [call EXCEPT !["controller"] = "started"] ELSE call
    /\ UNCHANGED <<breakerVars, tries, serverVars, nodeVars, gateVars, hand, decided,
                   consumerVars, applied>>

\* An action without content is no action to the guardrails: its zeros are
\* raised to the smallest tuning, and a committee of 0 switches sortition off.
ColdStart == [NoAction EXCEPT !.seen = obs.epoch]

Candidates(leaders) ==
    IF ~obs.warm THEN {ColdStart}
    ELSE IF call["controller"] = "error" \/ decided = MaxDecisions THEN {Fallback}
    ELSE {Fallback} \cup {Convert(ans, leaders) : ans \in Answers}

\* Decide returns; the filters and the gate follow without waiting.  (The bounds of
\* one element make TLC evaluate each filter once.)
TickDecide ==
    /\ controller = "deciding"
    /\ obs.warm => call["controller"] \in {"ok", "error"}
    /\ call' = [call EXCEPT !["controller"] = "idle"]
    /\ obs' = NoObservation
    /\ UNCHANGED <<breakerVars, tries, serverVars, nodeVars, gateEpoch, ticks, consumerVars, applied>>
    /\ \E leaders \in Reputed, level \in Levels, suspects \in Suspects : \E a \in Candidates(leaders) :
          LET faults == estimateFaults(suspects)
          IN  /\ decided' = IF a.id = NoDecision THEN decided ELSE a.id
              /\ \E guarded \in {Guarded(Governed(a, level))} :
                    \E safe \in {MaskUnsafeAction(guarded, faults)} :
                        Submit(safe, MaskedInstances(guarded, faults) # {})

\* Apply; an error ends the tick, although the gate has counted the action.
TickApply ==
    /\ controller = "applying"
    /\ hand' = NoAction
    /\ UNCHANGED <<bridgeVars, gateVars, ticks, obs, decided, consumerVars>>
    /\ \E refused \in BOOLEAN, known \in KnownSets :
          LET s == Applied(hand, refused, known)
          IN  Apply(hand, s) /\ controller' = IF s.ok THEN "feedback" ELSE "idle"

\* The feedback goroutine starts, unless the trace could not be written.
TickEnd ==
    /\ controller = "feedback" /\ controller' = "idle"
    /\ \/ \E c \in Feedbacks : call[c] = "idle" /\ call' = [call EXCEPT ![c] = "started"]
       \/ UNCHANGED call
    /\ UNCHANGED <<breakerVars, tries, serverVars, nodeVars, gateVars, ticks, obs, hand, decided,
                   consumerVars, applied>>

Tick == TickStart \/ TickDecide \/ TickApply \/ TickEnd

-----------------------------------------------------------------------------
(* The consumer of ordered outputs.                                        *)

\* A validator set is installed in the managers and engines.
InstallEpoch ==
    /\ consumer = "range" /\ epoch + 1 \in Epochs
    /\ epoch' = epoch + 1
    /\ pendingJoins' = pendingJoins \ Members[epoch + 1]
    /\ pendingLeaves' = pendingLeaves \cap Members[epoch + 1]
    /\ consumer' = "record"
    /\ UNCHANGED <<bridgeVars, committee, seenAt, gateVars, tickVars, released, applied>>

recordOrderedOutput ==
    /\ consumer = "record"
    /\ AdvanceEpoch(epoch)
    /\ consumer' = IF released' = NoAction THEN "range" ELSE "apply"
    /\ UNCHANGED <<bridgeVars, nodeVars, tickVars, applied>>

\* Controller.AdvanceEpoch applies what the gate released; the error is ignored.
ApplyReleased ==
    /\ consumer = "apply"
    /\ \E refused \in BOOLEAN, known \in KnownSets : Apply(released, Applied(released, refused, known))
    /\ released' = NoAction /\ consumer' = "range"
    /\ UNCHANGED <<bridgeVars, gateVars, tickVars>>

Consumer == InstallEpoch \/ recordOrderedOutput \/ ApplyReleased

-----------------------------------------------------------------------------

Next ==
    \/ Tick \/ Consumer
    \/ BridgeNext /\ UNCHANGED <<nodeVars, gateVars, tickVars, consumerVars, applied>>

Spec == Init /\ [][Next]_vars

\* The ticker fires again and again.
FairSpec == Spec /\ BridgeFairness /\ WF_vars(Tick)

-----------------------------------------------------------------------------
(* Properties.                                                             *)

\* Whoever holds it, and however late it is released, an action changes the
\* membership of an instance of the node only in a way that left 3f + 1 + DeltaS
\* validators of the ones it was decided for (safety.go:149-218).  Counted is the
\* entry that buildInstanceStates keeps: an earlier entry for the same instance, or
\* one for an instance that the node does not have, was not looked at.
EvictionsWereSafe ==
    \A a \in {pending, hand, released} : \A i \in Instances :
        Evicts(a, i) + Admits(a, i) > 0 =>
            Size(a.seen) - Evicts(a, i) + Admits(a, i) >= Threshold(a.faults)

\* A committee quorum stays within the validators for one more epoch after the
\* one the size was decided for: a third may leave at once, and the engine asks
\* for 2/3 + 1 of the committee size (engine.go:1027).  A size that a masked
\* action restores is no younger for it (safety.go:205).
CommitteeQuorumReachable ==
    \A i \in Instances :
        committee[i] > 0 /\ epoch <= seenAt[i] + 1 => (2 * committee[i]) \div 3 + 1 <= Size(epoch)

\* Between the tick and the consumer, both of which take actions out of the gate,
\* every decision is in one place and is applied at most once.
DecisionsInOnePlace ==
    \A d \in Decisions :
        Cardinality({p \in {"gate", "tick", "consumer"} :
            CASE p = "gate" -> pending.id = d
              [] p = "tick" -> hand.id = d
              [] p = "consumer" -> released.id = d}) + applied[d] <= 1
=============================================================================
