---------------------------- MODULE EpochPipeline ---------------------------
(***************************************************************************)
(* The closed loop of integration/pipeline.go: each epoch it evicts the    *)
(* agents the trust estimate suspects, as far as the safety filter lets    *)
(* it, publishes what it does to the beacon log before it does it, keeps a *)
(* chain of configuration versions (adaptive/version.go) and, when a       *)
(* regression is observed, goes back to a safe ancestor.                   *)
(*                                                                         *)
(* ProcessEpoch and EvaluateAndRollback hold p.mu; one action per entry    *)
(* published.  With nodes of the beacon log (SetGBCNodes) publishToGBC     *)
(* waits for a quorum: it succeeds, is refused, or runs into its timeout   *)
(* and reports an error although the entry is in the log and may still be  *)
(* certified.  Without nodes it appends to the local log, where no quorum  *)
(* is asked for and only a stale height is refused.  The scores, and the   *)
(* order in which a map gives the suspects out, are free.                  *)
(***************************************************************************)
EXTENDS EpochOrderer, Integers

CONSTANTS
    InitialAgents,  \* the agents of each instance
    InitialFaults,  \* the FaultTolerance each instance is configured with
    Suspects,       \* bound: the agents that come under suspicion
    DeltaS,         \* SafetyMarginDelta
    GBCMembers,     \* members of the beacon log
    MaxEpochs,      \* bound: epochs processed
    MaxVersions     \* bound: versions recorded

ASSUME PipelineConstants ==
    /\ InitialAgents = [i \in Instances |-> InitialAgents[i]]
    /\ \A i \in Instances : IsFiniteSet(InitialAgents[i])
    /\ InitialFaults \in [Instances -> Nat]
    /\ {DeltaS, GBCMembers, MaxEpochs, MaxVersions} \subseteq Nat

VARIABLES
    gbcNodes,       \* len(p.gbcNodes) > 0
    agents,         \* InstanceHandle.Agents
    count, faults,  \* ValidatorCount and FaultTolerance
    versionChain,   \* empty until it is seeded
    epoch,          \* epochs processed
    todo,           \* the instances ProcessEpoch has still to look at
    candidates,
    actions,        \* stats.ReconfigActions
    stage           \* where ProcessEpoch is

instanceVars == <<agents, count, faults>>
stageVars == <<todo, candidates, actions, stage>>
vars == <<gbcNodes, entries, ordererVars, instanceVars, versionChain, epoch, stageVars>>

\* (n - 1) / 3, which Go rounds towards zero.
FaultsOf(n) == IF n = 0 THEN 0 ELSE (n - 1) \div 3

TypeOK ==
    /\ OrdererTypeOK
    /\ gbcNodes \in BOOLEAN
    /\ \A i \in Instances : agents[i] \subseteq InitialAgents[i]
    /\ count \in [Instances -> Nat] /\ faults \in [Instances -> Nat]
    /\ Len(versionChain) <= MaxVersions
    /\ epoch \in 0..MaxEpochs
    /\ todo \subseteq Instances /\ candidates \subseteq Suspects
    /\ actions \in Nat
    /\ stage \in {"idle", "instances", "version", "trust"}

\* The handles of SetInstances: every caller gives a count that is the number of
\* agents, and a fault tolerance of its own.
Init ==
    /\ gbcNodes \in BOOLEAN
    /\ entries = <<>> /\ OrdererInit
    /\ agents = InitialAgents
    /\ count = [i \in Instances |-> Cardinality(InitialAgents[i])]
    /\ faults = InitialFaults
    /\ versionChain = <<>>
    /\ epoch = 0 /\ stage = "idle"
    /\ todo = {} /\ candidates = {} /\ actions = 0

-----------------------------------------------------------------------------
(* The beacon log.                                                         *)

Outcomes == {"ok", "refused", "timeout"}

\* What the pipeline publishes.  With nodes an entry that is reported as published
\* has its quorum, and after a timeout it has none yet; the local log needs none.
MembershipEntry(i, evicted, outcome) ==
    [kind |-> "membership", inst |-> i, evicted |-> evicted, committed |-> outcome = "ok" /\ gbcNodes]

VersionEntry(id, v, outcome) ==
    [kind |-> "version", id |-> id, version |-> v, committed |-> outcome = "ok" /\ gbcNodes]

PolicyEntry(outcome) == [kind |-> "policy", committed |-> outcome = "ok" /\ gbcNodes]

publishToGBC(entry, outcome) ==
    /\ outcome = "timeout" => gbcNodes
    /\ IF outcome = "refused" THEN UNCHANGED entries
       ELSE Len(entries) < MaxLog /\ entries' = Append(entries, entry)

\* An entry whose proposer gave up gets its quorum after all.
LateCommit ==
    /\ gbcNodes
    /\ \E h \in 1..Len(entries) :
          /\ entries[h].kind # "checkpoint" /\ ~entries[h].committed
          /\ entries' = [entries EXCEPT ![h].committed = TRUE]
    /\ UNCHANGED <<ordererVars, instanceVars, versionChain, epoch, stageVars>>

-----------------------------------------------------------------------------
(* The safety filter and the version chain.                                *)

\* CheckQuorumInvariant and CheckCoupledConstraint give the threshold for one
\* fault, whatever the instance tolerates.  The budget for all instances together
\* is the same number (pipeline.go:138), so it never decides.
Threshold == 3 + 1 + DeltaS

\* How many of the suspects of an instance the filter lets go.
Evictable(i) == IF count[i] > Threshold THEN count[i] - Threshold ELSE 0

containsAgent(i, a) == a \in agents[i]

\* Every set of evictions the loop over the candidates can come to.
Evictions(i) ==
    LET suspected == {a \in candidates : containsAgent(i, a)}
        k == IF Cardinality(suspected) < Evictable(i) THEN Cardinality(suspected) ELSE Evictable(i)
    IN  kSubset(k, suspected)

\* The least margin of the instances and of the beacon log.
ComputePhi(margins, members, f) == Min(margins \cup {members - 3 * f - 1})

computePhi ==
    ComputePhi({count[i] - 3 * faults[i] - 1 : i \in Instances}, GBCMembers, FaultsOf(GBCMembers))

currentConfigParams == [count |-> count, faults |-> faults]

Committed == [params |-> currentConfigParams, phi |-> computePhi, status |-> "COMMITTED"]

NewVersionChain == <<Committed>>

AppendCommitted(chain) == Append(chain, Committed)

\* The parameters and the margin of the version that is restored.
RolledBack(target) == [target EXCEPT !.status = "ROLLEDBACK"]

AppendRollback(chain, target) == Append(chain, RolledBack(target))

\* ensureVersionChainLocked
SeededChain == IF versionChain = <<>> THEN NewVersionChain ELSE versionChain

\* Mutant: any committed ancestor will do.
AnyAncestor(chain) ==
    LET last == IF Len(chain) = 1 THEN 1 ELSE Len(chain) - 1
    IN  {k \in 1..last : chain[k].status = "COMMITTED" /\ k = 1}

\* The ancestors SafeAncestor accepts; version k is the parent of version k + 1,
\* and the genesis is its own parent.
SafeVersions(chain) ==
    LET last == IF Len(chain) = 1 THEN 1 ELSE Len(chain) - 1
    IN  {k \in 1..last : chain[k].status = "COMMITTED" /\ chain[k].phi >= DeltaS}

SafeAncestor(chain) == chain[Max(SafeVersions(chain))]

\* The signals the caller observed: the margin, a stalled view, a low throughput.
ObservedSafety == [phi : {-1, 0}, viewStalled : BOOLEAN, belowFloor : BOOLEAN]

RollbackTriggered(o) == o.phi < 0 \/ o.viewStalled \/ o.belowFloor

EvaluateRollback(chain, o) == RollbackTriggered(o) /\ SafeVersions(chain) # {}

-----------------------------------------------------------------------------
(* ProcessEpoch.                                                           *)

StartEpoch ==
    /\ stage = "idle" /\ epoch < MaxEpochs
    /\ candidates' \in SUBSET Suspects
    /\ todo' = Instances /\ actions' = 0 /\ stage' = "instances"
    /\ UNCHANGED <<entries, ordererVars, instanceVars, versionChain, epoch>>

Advance(i) == todo' = todo \ {i} /\ stage' = IF todo' = {} THEN "version" ELSE "instances"

\* Mutant: the eviction is applied whatever became of the entry.
ApplyAnyway(i, evicted, outcome) ==
    /\ agents' = [agents EXCEPT ![i] = @ \ evicted]
    /\ count' = [count EXCEPT ![i] = @ - Cardinality(evicted)]
    /\ faults' = [faults EXCEPT ![i] = FaultsOf(count'[i])]

\* Mutant: the evicted agents stay in the handle.
KeepAgents(i, evicted, outcome) ==
    IF outcome = "ok"
    THEN /\ count' = [count EXCEPT ![i] = @ - Cardinality(evicted)]
         /\ faults' = [faults EXCEPT ![i] = FaultsOf(count'[i])]
         /\ UNCHANGED agents
    ELSE UNCHANGED instanceVars

removeAgents(from, evicted) == from \ evicted

\* The instance changes only once the entry is certified.
ApplyEvictions(i, evicted, outcome) ==
    IF outcome = "ok"
    THEN /\ agents' = [agents EXCEPT ![i] = removeAgents(@, evicted)]
         /\ count' = [count EXCEPT ![i] = @ - Cardinality(evicted)]
         /\ faults' = [faults EXCEPT ![i] = FaultsOf(count'[i])]
    ELSE UNCHANGED instanceVars

\* Step 4 for the next instance.  The evictions count as actions also when they
\* were not applied.
ReconfigureInstance ==
    /\ stage = "instances"
    /\ LET i == Min(todo)
       IN  /\ Advance(i)
           /\ \E evicted \in Evictions(i) :
                 \/ /\ evicted = {}
                    /\ UNCHANGED <<entries, instanceVars, actions>>
                 \/ /\ evicted # {}
                    /\ actions' = actions + Cardinality(evicted)
                    /\ \E outcome \in Outcomes :
                          /\ publishToGBC(MembershipEntry(i, evicted, outcome), outcome)
                          /\ ApplyEvictions(i, evicted, outcome)
    /\ UNCHANGED <<ordererVars, versionChain, epoch, candidates>>

\* Step 4b: the version.  A chain that is seeded here starts from the
\* configuration after the evictions.
RecordVersion ==
    /\ stage = "version" /\ stage' = "trust"
    /\ \/ actions = 0 /\ UNCHANGED <<entries, versionChain>>
       \/ /\ actions > 0 /\ Len(SeededChain) < MaxVersions
          /\ \E outcome \in Outcomes :
                /\ publishToGBC(VersionEntry(Len(SeededChain), Committed, outcome), outcome)
                /\ versionChain' =
                      IF outcome = "ok" THEN AppendCommitted(SeededChain) ELSE SeededChain
    /\ UNCHANGED <<ordererVars, instanceVars, epoch, todo, candidates, actions>>

\* Step 5: the trust update; its failure is only logged.
PublishTrust ==
    /\ stage = "trust" /\ stage' = "idle"
    /\ \E outcome \in Outcomes : publishToGBC(PolicyEntry(outcome), outcome)
    /\ epoch' = epoch + 1
    /\ candidates' = {} /\ actions' = 0
    /\ UNCHANGED <<ordererVars, instanceVars, versionChain, todo>>

ProcessEpoch == StartEpoch \/ ReconfigureInstance \/ RecordVersion \/ PublishTrust

\* The counts come back, the agents do not.
restoreInstances(params) == count' = params.count /\ faults' = params.faults

\* Seeds the chain; without a trigger or a safe ancestor it does no more.
EvaluateAndRollback ==
    /\ stage = "idle" /\ Len(SeededChain) < MaxVersions
    /\ \E o \in ObservedSafety :
          \/ /\ ~EvaluateRollback(SeededChain, o)
             /\ versionChain' = SeededChain /\ UNCHANGED <<entries, count, faults>>
          \/ /\ EvaluateRollback(SeededChain, o)
             /\ LET target == SafeAncestor(SeededChain)
                IN  \E outcome \in Outcomes :
                       /\ publishToGBC(VersionEntry(Len(SeededChain), RolledBack(target), outcome),
                                       outcome)
                       /\ IF outcome = "ok"
                          THEN /\ versionChain' = AppendRollback(SeededChain, target)
                               /\ restoreInstances(target.params)
                          ELSE versionChain' = SeededChain /\ UNCHANGED <<count, faults>>
    /\ UNCHANGED <<ordererVars, agents, epoch, stageVars>>

-----------------------------------------------------------------------------

Next ==
    /\ \/ ProcessEpoch \/ EvaluateAndRollback \/ LateCommit
       \/ OrdererNext /\ UNCHANGED <<instanceVars, versionChain, epoch, stageVars>>
    /\ UNCHANGED gbcNodes

Spec == Init /\ [][Next]_vars

-----------------------------------------------------------------------------
(* Properties.                                                             *)

\* What publishToGBC promises of an entry it reports as published.
Durable(entry) == gbcNodes => entry.committed

\* "commit-then-apply": an agent that was evicted here, and a version of the chain
\* after the genesis, is in an entry of the log, which a quorum certified if there
\* are nodes of the beacon log, however publications fail and however late entries
\* are certified.  (Without nodes the code applies what the local log alone holds.)
CommitThenApply ==
    /\ \A i \in Instances : \A a \in InitialAgents[i] \ agents[i] :
          \E h \in 1..Len(entries) :
              /\ entries[h].kind = "membership" /\ Durable(entries[h])
              /\ entries[h].inst = i /\ a \in entries[h].evicted
    /\ \A k \in 2..Len(versionChain) :
          \E h \in 1..Len(entries) :
              /\ entries[h].kind = "version" /\ Durable(entries[h])
              /\ entries[h].id = k - 1 /\ entries[h].version = versionChain[k]

\* A rollback leads to a configuration that was committed before and had a margin
\* of DeltaS in every instance and in the beacon log (version.go:175-178).
RollbackIsSafe ==
    \A k \in 1..Len(versionChain) : versionChain[k].status = "ROLLEDBACK" =>
        /\ \E j \in 1..k : /\ versionChain[j].status = "COMMITTED"
                           /\ versionChain[j].params = versionChain[k].params
        /\ \A i \in Instances :
              versionChain[k].params.count[i] >= 3 * versionChain[k].params.faults[i] + 1 + DeltaS

\* As long as nothing was rolled back, the count the safety filter reads is the
\* number of agents, so no instance falls below the threshold.  (A rollback gives
\* the count back and not the agents.)
CountsAreAgents ==
    (\A k \in 1..Len(versionChain) : versionChain[k].status = "COMMITTED") =>
        \A i \in Instances :
            /\ count[i] = Cardinality(agents[i])
            /\ Cardinality(agents[i]) >= Threshold \/ agents[i] = InitialAgents[i]
=============================================================================
