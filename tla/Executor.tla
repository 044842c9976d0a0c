------------------------------ MODULE Executor ------------------------------
(***************************************************************************)
(* Reconfiguration on one node: the executor that applies the ordered      *)
(* blocks (consensus/hotstuff/executor.go), the callback of main.go that   *)
(* installs a new validator set, and the three places it installs it in:   *)
(* the membership manager, the Hydra manager and the engines.  The Hydra   *)
(* manager also tells its discovery manager (Discovery), whose peers       *)
(* answer with what they have installed.                                   *)
(*                                                                         *)
(* The consumer goroutine of main.go takes the blocks one by one and calls *)
(* ApplyOrderedBlock until it succeeds.  The call holds commitMu, and its  *)
(* two halves are two actions, because the goroutines that register        *)
(* intents with Hydra run between them.  A call that fails and changes     *)
(* nothing (a vertex that is not in the mempool yet) is no action: the     *)
(* loop tries again.  All validators have power 1.                         *)
(***************************************************************************)
EXTENDS Discovery

CONSTANTS
    Ids,            \* validator identifiers
    Initial,        \* the validators of the genesis configuration
    Blocks,         \* blocks, known by their hash
    Txs,            \* the reconfiguration transactions of each block, in order
    Payload,        \* the blocks whose transactions are in DAG vertices
    VertexResolver, \* whether SetVertexResolver was called
    Logs,           \* the block sequences the orderer may deliver
    IntentIds,      \* bound: the validators intents are registered for
    MaxIntents,     \* bound: intents registered with Hydra
    PeerHistories   \* bound: the configurations a peer that answers may hold

\* A transaction: signed says that its signature, or every vote of its proof,
\* verifies; leaves, voters and hash are the proof of an auto-leave.
Transactions ==
    [type : {"join", "leave", "auto"}, node : Ids, epoch : Nat, target : Nat,
     signed : BOOLEAN, leaves : SUBSET Ids, voters : SUBSET Ids, hash : Blocks]

ASSUME ExecutorConstants ==
    /\ IsFiniteSet(Ids) /\ Initial \subseteq Ids
    /\ Txs \in [Blocks -> Seq(Transactions)]
    /\ Payload \subseteq Blocks
    /\ VertexResolver \in BOOLEAN
    /\ Logs \subseteq Seq(Blocks)
    /\ IntentIds \subseteq Ids /\ MaxIntents \in Nat
    /\ PeerHistories \subseteq Seq([epoch : Nat, members : SUBSET Ids])

ValidatorSets == [epoch : Nat, members : SUBSET Ids]

QuorumSize(members) == (2 * Cardinality(members)) \div 3 + 1

VARIABLES
    log,              \* the ordered blocks still to be applied
    vertices,         \* the blocks whose vertices the mempool holds
    currentValSet,    \* Executor.currentValSet
    pendingReconfigs, \* Executor.pendingReconfigs
    executed,         \* Executor.executedOrderedBlocks
    applied,          \* Executor.appliedOrderedBlocks
    currentConfig,    \* MembershipManager.currentConfig
    engineSet,        \* the validator set the engines run with
    Mvalid,           \* TemporaryConfigurationManager.Mvalid
    pendingJoins, pendingLeaves,  \* its pending requests
    intents           \* how many were registered

executorVars == <<log, currentValSet, pendingReconfigs, executed, applied>>
installedVars == <<currentConfig, engineSet, Mvalid>>
intentVars == <<pendingJoins, pendingLeaves, intents>>
vars == <<executorVars, vertices, installedVars, intentVars, discoveryVars>>

Entries == [block : Blocks, data : Transactions]

TypeOK ==
    /\ log \in Seq(Blocks)
    /\ vertices \subseteq Payload
    /\ currentValSet \in ValidatorSets
    /\ pendingReconfigs \in Seq(Entries)
    /\ executed \subseteq Blocks /\ applied \subseteq Blocks
    /\ currentConfig \in ValidatorSets
    /\ engineSet \in ValidatorSets
    /\ Mvalid \in ValidatorSets
    /\ pendingJoins \subseteq Ids /\ pendingLeaves \subseteq Ids
    /\ intents \in 0..MaxIntents
    /\ history \in Seq(ValidatorSets) /\ highest \in ValidatorSets
    /\ asked \subseteq Seq(Nat)

NewMembershipManager == currentConfig = [epoch |-> 1, members |-> Initial]

\* Hydra numbers the genesis configuration 0.
NewHydraManager ==
    /\ Mvalid = [epoch |-> 0, members |-> Initial]
    /\ pendingJoins = {} /\ pendingLeaves = {} /\ intents = 0
    /\ DiscoveryInit(Mvalid)

Init ==
    /\ log \in Logs
    /\ vertices = {}
    /\ currentValSet = [epoch |-> 1, members |-> Initial]
    /\ pendingReconfigs = <<>>
    /\ executed = {} /\ applied = {}
    /\ NewMembershipManager
    /\ NewHydraManager
    /\ engineSet = currentValSet

-----------------------------------------------------------------------------
(* The goroutines around the executor.                                     *)

\* A certified vertex reaches the mempool.
VertexArrives(b) ==
    /\ vertices' = vertices \cup {b}
    /\ UNCHANGED <<executorVars, installedVars, intentVars, discoveryVars>>

hasPendingHydraRequest(requests, id) == id \in requests

AddJoinRequest(id) == pendingJoins' = pendingJoins \cup {id} /\ UNCHANGED pendingLeaves
AddLeaveRequest(id) == pendingLeaves' = pendingLeaves \cup {id} /\ UNCHANGED pendingJoins

\* The adaptive runtime registers an intent with this node's Hydra manager only.
SubmitJoin(id) ==
    /\ intents < MaxIntents
    /\ ~hasPendingHydraRequest(pendingJoins, id) /\ id \notin currentConfig.members
    /\ AddJoinRequest(id)
    /\ intents' = intents + 1
    /\ UNCHANGED <<executorVars, vertices, installedVars, discoveryVars>>

SubmitLeave(id) ==
    /\ intents < MaxIntents
    /\ ~hasPendingHydraRequest(pendingLeaves, id)
    /\ AddLeaveRequest(id)
    /\ intents' = intents + 1
    /\ UNCHANGED <<executorVars, vertices, installedVars, discoveryVars>>

\* The node asks, or a peer's answer to one of its requests arrives.
Discover ==
    /\ \/ SyncInBackground
       \/ \E held \in PeerHistories, ids \in asked :
             HandleDiscoveryResponse(HandleDiscoveryRequest(held, ids))
    /\ UNCHANGED <<executorVars, vertices, installedVars, intentVars>>

-----------------------------------------------------------------------------
(* Execution.                                                              *)

verifyAutoLeaveProof(tx, b) ==
    /\ tx.leaves # {} /\ tx.node \in tx.leaves
    /\ tx.epoch = currentValSet.epoch
    /\ tx.hash = b
    /\ tx.signed
    /\ tx.voters \subseteq currentValSet.members
    /\ Cardinality(tx.voters) >= QuorumSize(currentValSet.members)

\* reconfigAuthorizedByHydraPendingIntent, the authorizer main.go installs.
Authorized(tx) ==
    \/ tx.type = "join" /\ tx.node \in pendingJoins
    \/ tx.type = "leave" /\ tx.node \in pendingLeaves

verifyManualReconfig(tx) ==
    /\ tx.signed
    /\ tx.type = "leave" => tx.node \in currentValSet.members
    /\ tx.epoch = currentValSet.epoch
    /\ Authorized(tx)

executeTx(tx, b) ==
    IF tx.type = "auto" THEN verifyAutoLeaveProof(tx, b) ELSE verifyManualReconfig(tx)

\* The transactions a block gives the executor: without a resolver, those of a
\* payload are never seen.
Visible(b) == b \in Payload => VertexResolver

Accepted(b) == Picked(Txs[b], {i \in DOMAIN Txs[b] : executeTx(Txs[b][i], b)})

\* Mutant: the entry does not record the block it came from.
QueuedBare(b) == IF Visible(b) THEN Accepted(b) ELSE <<>>

Queued(b) ==
    IF Visible(b)
    THEN [i \in DOMAIN Accepted(b) |-> [block |-> b, data |-> Accepted(b)[i]]]
    ELSE <<>>

\* Mutant: a block without payload waits for vertices too.
AlwaysNeedsVertices(b) == VertexResolver => b \in vertices

\* resolvePayloadVertices finds every vertex; otherwise the call fails and is
\* repeated.
Resolvable(b) == (b \in Payload /\ VertexResolver) => b \in vertices

\* Mutant: a block that was executed but not applied is executed again.
ExecuteAgain(b) ==
    /\ b \notin applied
    /\ Resolvable(b)
    /\ executed' = executed \cup {b}
    /\ pendingReconfigs' = pendingReconfigs \o Queued(b)
    /\ UNCHANGED <<log, currentValSet, applied, vertices, installedVars, intentVars, discoveryVars>>

\* First half of ApplyOrderedBlock: executeBlockLocked.
ExecuteBlock(b) ==
    /\ b \notin applied /\ b \notin executed
    /\ Resolvable(b)
    /\ executed' = executed \cup {b}
    /\ pendingReconfigs' = pendingReconfigs \o Queued(b)
    /\ UNCHANGED <<log, currentValSet, applied, vertices, installedVars, intentVars, discoveryVars>>

-----------------------------------------------------------------------------
(* Activation.                                                             *)

NewEpoch(vs, tx) == IF tx.target > vs.epoch THEN tx.target ELSE vs.epoch + 1

Leaving(vs, tx) == vs.members \cap (IF tx.type = "auto" THEN tx.leaves ELSE {tx.node})

\* Mutant: the guard forgets the share that may leave at once.
OnlyKeepsFour(vs, tx) == Cardinality(vs.members \ Leaving(vs, tx)) >= 4

\* The "BFT safety invariant guard".
mayLeave(vs, tx) ==
    /\ Cardinality(vs.members \ Leaving(vs, tx)) >= 4
    /\ Cardinality(Leaving(vs, tx)) <= (Cardinality(vs.members) - 1) \div 3

Joins(vs, tx) == tx.type = "join" /\ tx.node \notin vs.members
Leaves(vs, tx) == tx.type # "join" /\ Leaving(vs, tx) # {} /\ mayLeave(vs, tx)

NewMembers(vs, tx) ==
    IF tx.type = "join" THEN vs.members \cup {tx.node} ELSE vs.members \ Leaving(vs, tx)

\* One reconfiguration applied to the validator set built so far, together with
\* the transitions it was built by.
applyReconfig(acc, entry) ==
    LET vs == acc.valset
        tx == entry.data
        next == [epoch |-> NewEpoch(vs, tx), members |-> NewMembers(vs, tx)]
    IN  IF Joins(vs, tx) \/ Leaves(vs, tx)
        THEN [valset |-> next, transitions |-> Append(acc.transitions, [old |-> vs, new |-> next])]
        ELSE acc

Positions(b) == {i \in DOMAIN pendingReconfigs : pendingReconfigs[i].block = b}

Matching(b) == Picked(pendingReconfigs, Positions(b))
Remaining(b) == Picked(pendingReconfigs, DOMAIN pendingReconfigs \ Positions(b))

Candidate(b) ==
    LET matching == Matching(b)
        built[i \in 0..Len(matching)] ==
            IF i = 0 THEN [valset |-> currentValSet, transitions |-> <<>>]
            ELSE applyReconfig(built[i - 1], matching[i])
    IN  built[Len(matching)]

diffValidatorIDs(old, new) ==
    [added |-> new.members \ old.members, removed |-> old.members \ new.members]

latestTransitionEvent(transitions) ==
    LET t == Last(transitions)
    IN  [oldEpoch |-> t.old.epoch, config |-> t.new, diff |-> diffValidatorIDs(t.old, t.new)]

\* The last transition must lead from the installed configuration to the new
\* one: it carries its epochs, quorum, hash, added and removed validators.
validateTransitionEvent(event, vs) ==
    /\ event.oldEpoch = currentConfig.epoch
    /\ event.config = vs
    /\ event.diff = diffValidatorIDs(currentConfig, vs)

\* installCommittedValidatorSet returns no error.  It makes the comparison that
\* the membership manager repeats, so Hydra is never installed alone.
Installable(vs, transitions) ==
    /\ \/ vs = currentConfig
       \/ vs.epoch < currentConfig.epoch
       \/ /\ vs.epoch > currentConfig.epoch
          /\ validateTransitionEvent(latestTransitionEvent(transitions), vs)
    /\ vs.epoch = Mvalid.epoch => vs.members = Mvalid.members

\* The requests that the configuration fulfils are forgotten.
InstallCommittedConfig(vs) ==
    /\ Mvalid' = vs
    /\ pendingJoins' = pendingJoins \ vs.members
    /\ pendingLeaves' = pendingLeaves \cap vs.members

\* Hydra takes a later configuration.
InstallCommittedConfiguration(vs) ==
    IF vs.epoch > Mvalid.epoch
    THEN AddConfiguration(vs) /\ InstallCommittedConfig(vs)
    ELSE UNCHANGED <<Mvalid, pendingJoins, pendingLeaves, discoveryVars>>

InstallValidatorSetFromTransitions(vs) == currentConfig' = vs

installCommittedValidatorSet(vs) ==
    IF vs.epoch < currentConfig.epoch
    THEN UNCHANGED <<installedVars, pendingJoins, pendingLeaves, discoveryVars>>
    ELSE /\ InstallCommittedConfiguration(vs)
         /\ InstallValidatorSetFromTransitions(vs)
         /\ engineSet' = vs

\* The block brings no transition: nothing matches, or nothing applies.
NoTransition(b) ==
    /\ Candidate(b).transitions = <<>>
    /\ pendingReconfigs' = Remaining(b)
    /\ UNCHANGED <<currentValSet, installedVars, pendingJoins, pendingLeaves, discoveryVars>>

Activate(b) ==
    LET c == Candidate(b) IN
    /\ c.transitions # <<>>
    /\ Installable(c.valset, c.transitions)
    /\ installCommittedValidatorSet(c.valset)
    /\ currentValSet' = c.valset
    /\ pendingReconfigs' = Remaining(b)

\* Mutant: the executor moves on although the callback failed.
IgnoreCallbackError(b) ==
    /\ b \in executed /\ b \notin applied
    /\ \/ NoTransition(b)
       \/ Activate(b)
       \/ /\ Candidate(b).transitions # <<>>
          /\ ~Installable(Candidate(b).valset, Candidate(b).transitions)
          /\ currentValSet' = Candidate(b).valset
          /\ pendingReconfigs' = Remaining(b)
          /\ UNCHANGED <<installedVars, pendingJoins, pendingLeaves, discoveryVars>>
    /\ applied' = applied \cup {b}
    /\ UNCHANGED <<log, executed, vertices, intents>>

\* Second half: commitReconfigsLocked.  When the callback fails nothing changes,
\* and the next call of ApplyOrderedBlock comes straight here.
CommitReconfigs(b) ==
    /\ b \in executed /\ b \notin applied
    /\ NoTransition(b) \/ Activate(b)
    /\ applied' = applied \cup {b}
    /\ UNCHANGED <<log, executed, vertices, intents>>

\* ApplyOrderedBlock succeeded, or the block had been applied before.
NextBlock ==
    /\ log # <<>> /\ Head(log) \in applied
    /\ log' = Tail(log)
    /\ UNCHANGED <<currentValSet, pendingReconfigs, executed, applied, vertices,
                   installedVars, intentVars, discoveryVars>>

ApplyOrderedBlock(b) == ExecuteBlock(b) \/ CommitReconfigs(b)

\* One turn of the consumer goroutine.
applyOrderedOutput ==
    \/ log # <<>> /\ ApplyOrderedBlock(Head(log))
    \/ NextBlock

Next ==
    \/ applyOrderedOutput
    \/ Discover
    \/ \E b \in Payload \ vertices : VertexArrives(b)
    \/ \E id \in IntentIds : SubmitJoin(id) \/ SubmitLeave(id)

Spec == Init /\ [][Next]_vars

\* The consumer goroutine never gives up, and a certified vertex arrives in the
\* end.  Nobody is obliged to register intents.
FairSpec ==
    /\ Spec
    /\ WF_vars(applyOrderedOutput)
    /\ \A b \in Payload : WF_vars(b \notin vertices /\ VertexArrives(b))

-----------------------------------------------------------------------------
(* Properties.                                                             *)

\* However the callback fails and is retried, the executor, the membership
\* manager, Hydra and the engines hold the same validator set (executor.go sets
\* its own only after installCommittedValidatorSet returned).  Hydra numbers the
\* genesis configuration 0 where the others say 1.  Whatever order answers of
\* peers come in, the highest known configuration is never behind the installed.
SameSetEverywhere ==
    /\ currentConfig = currentValSet
    /\ engineSet = currentValSet
    /\ Mvalid.members = currentValSet.members
    /\ currentValSet.epoch > 1 => Mvalid = currentValSet
    /\ highest.epoch >= Mvalid.epoch

\* The queue only ever holds reconfigurations of the block in progress, each of
\* them once, and each signed for the epoch that is current: no retry queues a
\* transaction again and nothing is left for a later block to activate.
QueueIsOfBlockInProgress ==
    pendingReconfigs # <<>> =>
        /\ log # <<>> /\ Head(log) \in executed \ applied
        /\ Len(pendingReconfigs) <= Len(Txs[Head(log)])
        /\ \A i \in DOMAIN pendingReconfigs :
              /\ pendingReconfigs[i].block = Head(log)
              /\ pendingReconfigs[i].data.epoch = currentValSet.epoch

Quorums(members) == kSubset(QuorumSize(members), members)

\* "preserving quorum intersection across epochs" (executor.go:41): every quorum
\* of the old validator set has a member in common with every quorum of the new.
QuorumsMeet ==
    [][currentValSet' # currentValSet =>
         \A P \in Quorums(currentValSet.members), Q \in Quorums(currentValSet'.members) :
            P \cap Q # {}]_vars

\* The consumer gets through the whole log, unless it meets a block with two
\* reconfigurations that both apply: installCommittedValidatorSet compares the
\* last transition with the configuration before the first, refuses, and the
\* retry loop never ends.
StuckOnlyOnTwo ==
    <>[](log = <<>> \/ Len(Candidate(Head(log)).transitions) > 1)
=============================================================================
