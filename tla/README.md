# Evolv-BFT: a TLA+ verification project

This directory models the consensus core of Evolv-BFT (`src/evolvbft`) in TLA+.
TLC checks the models on small instances and TLAPS proves theorems about them
for every value of their constants. Everything is translated from the Go source;
`PROJECT.json` maps each definition to the lines it stands for. The older
specifications in the repository's own `tla/` are documents about the system,
and are quoted here only where they promise something.

Paths below are relative to `src/evolvbft` unless they begin with `cmd/`.

## The system

A node runs `m` consensus *lanes* in parallel. Each lane is a HotStuff-like engine
over its own block tree and store. The blocks a lane commits go through one
channel to the *global orderer*, which merges the lanes into a single log by rank
(`rank = height * m + lane`) and fills the ranks that stay empty. One goroutine of
`cmd/evolvbft/main.go` reads that log, executes the blocks (reconfigurations
included) and publishes checkpoints to the *Global Beacon Chain* (GBC), a small
log replicated among the lanes' primaries.

| component | state | operations | what makes it correct |
|---|---|---|---|
| Global orderer (`consensus/hotstuff/orderer.go`) | next rank, pending map, barrier timers, log, counters, output channel | take an output, tick, emit a block or a nil, stop | one decision per rank, in order, no loss across the channel, no rank waits for ever, bounded memory |
| Engine (`consensus/hotstuff/engine.go`) | view, vote collectors, seen proposals, certificate buffer, last proposed view | mempool hand-over, proposal, vote, timeout, timeout vote, NewView, epoch change | one certified block per view, real certificates, nothing handed over is lost |
| Block tree (`blocktree.go`) | highest, locked and commit QC, stored blocks | process a block, take a vote QC, safety rule | commits in order and once; the three certificates keep their order |
| Pacemaker, view-change manager | current view, timer, timeout collectors | advance, time out, collect | a quorum of timeouts moves everyone on |
| Leader reputation | success and failure counts per leader | record, judge, choose a fallback | never makes two leaders dangerous to each other |
| GBC node and log (`consensus/gbc`) | append-only log, attestations, pending proposal | propose, attest, commit, sync | certified entries agree, logs only grow, everyone catches up |
| Executor (`executor.go`), membership manager | validator set, queued reconfigurations, executed and applied blocks | execute, activate, retry | each reconfiguration applied once, one validator set in all parts of the node, quorums of consecutive sets meet |
| Mempool (`consensus/mempool`) | queue, seen marks, byte count, rounds and their certificates | submit, evict, expire, create a vertex, hand over | exact accounting, nothing queued twice, no batch lost, the lock is given back |
| The node's goroutines (`main.go`, `engine.go`, `orderer.go`) | bounded channels, block tree and mempool locks | commit, relay, apply, epoch change | every committed block reaches the consumer once and in order; nobody waits for ever |
| Hydra (`hydra`) | committed configuration, fault marks, candidates and votes of each view, join and leave intents, known configurations | mark a fault, propose, vote, commit, inject, install, discover | one transition per view, proofs hold votes that were cast, discovery is not behind the installed set |
| Adaptive control (`adaptive`, `cmd/evolvbft/adaptive_runtime.go`) | epoch gate, circuit breaker, tuning of the engines | observe, ask the policy, filter, submit, release, apply | an action is applied at most once, membership changes were safe, committee quorums are reachable, the breaker recovers |
| Epoch orderer and closed loop (`consensus/gbc/orderer.go`, `integration/pipeline.go`, `adaptive/version.go`) | commits per epoch, checkpoints, agents and counts per instance, version chain | submit a commit, publish, evict, record a version, roll back | canonical checkpoints, commit before apply, rollback to a safe version |

What is hard in this code: lanes deliver in any order and the orderer decides by
its own clock; the goroutines of a node meet in bounded channels while they hold
locks; leaders may equivocate; proposals, votes, timeouts and NewViews of
neighbouring views race; certificates are dropped or kept past the step that used
them; GBC messages are lost and never sent again; a publication that times out may
still take effect; actions are decided for one validator set and applied under
another. `PROJECT.json` lists these
hazards line by line, with the properties that would catch each of them.

## Modules

- `RankLog`: what the orderer promises its consumer: one decision per rank, in
  order, delivered once, at most `Window` ahead of the consumer.
- `GlobalOrderer`: `orderer.go`. One variable per field, one action per case of
  `run()`'s select and per exit of `nextToEmit()`; `pc` is the position in
  select, flush or the blocking send. `onInput` is the disjunction of its exits.
  Wall-clock time is one bit: an armed barrier may or may not have elapsed.
- `OrdererReplicas`: two orderers of two honest nodes with the same lanes.
- `HotStuff`: one lane of `N` validators within one epoch: `engine.go` with
  pacemaker, block tree, view-change manager and reputation. Each handler is one
  action (a node's `runLoop` is one goroutine) and ends with the `tryPropose()`
  that ends it in the code. A block is known by an identifier (view, leader, tag),
  `content` is what its hash stands for.
- `BeaconDecisions`: what the beacon chain promises: a register for each height, written
  once, from which primaries learn late and in any order.
- `GBC`: `gbc/node.go` over `gbc/gbc.go`. A handler holds `n.mu`, so it is one
  action. An entry is its payload and the signers whose attestation is stored.
- `Discovery`: `hydra/discovery.go`, what a node learns of configurations from its
  peers; `Executor` extends it, because the callback that installs a configuration
  also adds it there.
- `Executor`: reconfiguration on one node: `executor.go`, the callback
  `installCommittedValidatorSet` of `main.go`, and the copies of the validator set
  it keeps in the membership manager, Hydra, discovery and the engines.
  `ApplyOrderedBlock` is two actions, execution and activation, because the goroutines
  that register intents run in between; a failing callback changes nothing and is
  retried by `applyOrderedOutput`.
- `Hydra`: the auto-transition protocol of `hydra/autotransition.go` with
  `lset.go`, among all validators, and the injection of the leaves it decides
  (`injectHydraAutoLeaves` of `main.go`). A handler holds `atm.mu` and is one action;
  the committed configurations come from the log, at any moment at any node.
- `Mempool`: `mempool.go`. `createVertex` is two actions, because it keeps the lock
  while it waits for room in `proposalChan`.
- `NodePipeline`: extends `Mempool` with the other goroutines of a node, the
  channels between them and the locks they keep while they wait. What is committed
  is a free choice here; it abstracts `HotStuff` and `GlobalOrderer` to relays.
- `PolicyBridge`: `adaptive/resilient.go`, several callers of one policy server
  sharing a circuit breaker.
- `AdaptiveRuntime`: extends `PolicyBridge` with the control loop
  (`adaptive/controller.go`, `epoch_gate.go`, `safety.go`) and
  `cmd/evolvbft/adaptive_runtime.go`, which carries out its actions, next to the
  consumer that installs validator sets and releases what the gate keeps.
- `EpochOrderer`: `consensus/gbc/orderer.go` on a node's beacon log.
- `EpochPipeline`: extends it with `integration/pipeline.go` and the version chain
  of `adaptive/version.go`; both write the one beacon log. One action per entry
  published, each with three outcomes: published, refused, timed out.
- `GlobalOrdererProofs`, `HotStuffProofs`, `GBCProofs`, `ExecutorProofs`, `HydraProofs`,
  `NodePipelineProofs`, `AdaptiveRuntimeProofs`, `EpochPipelineProofs`: the theorems about
  the module each extends, with their lemmas.
- `MC*`: instances for TLC. They give the sets of outputs, blocks, logs,
  configurations, answers and commits, and what faulty nodes send.

Operators whose comment begins with "Mutant" are deliberate mistakes, used to show that each
property notices a plausible bug; no specification uses them.

### What the models leave out

`HotStuff`: one epoch, no Hydra manager, no VRF committee (`main.go` turns it off
when there are fewer validators than its size), round-robin leaders, equal power,
a store that does not fail. A certificate of view 0 is the genesis
certificate. Messages stay available once sent, so loss, delay, repetition and
reordering are all covered. A message that is rejected without a change of state
is not handled at all; the wrapper checks of `handleMessage` are therefore
absent, and only well-formed messages exist. Faulty nodes sign anything and send any
well-formed proposal, timeout vote or NewView; they cannot forge.

`GBC`: signatures are ideal, `Type` is part of the payload. The timeout of
`ProposeAndWait` changes nothing in the node and is left out; a failing
broadcast is a lost one.

`Executor`: powers are 1, a block has reconfiguration transactions only (the others
have no effect but a counter), and a signature either verifies or does not.
`VertexResolver` says whether `SetVertexResolver` was called. `main.go` does not
call it, and engines do not fill `block.Data`, so the deployed executor sees no
transaction at all; the run takes the executor as its tests use it. Likewise the run
has auto-leave proofs that name the hash of their own block: that is what
`verifyAutoLeaveProof` asks for, although `TriggerAutoTransition` sends no hash and a
vote cannot know it.

`Executor` registers an intent and never takes it back; in the code an intent whose
transaction is refused by the mempool is withdrawn at once. The loops of `Executor` and
`Discovery` over queues and answers are recursive functions, one turn of the loop each,
so that the proofs can follow them, as are the byte count and the expiry of `Mempool` and
the loops of `AdaptiveRuntime` over the changes of an answer; a discovery request is the sequence of numbers that
`findMissingConfigs` collects.

`Hydra`: the block hash (always empty) is left out, `pendingVotes` is never filled,
honest nodes send no AutoCommit, and the manager has a signing key, which
`main.go` does not give it. A vote is sent in the step that accepts the
proposal, although the code sends it after the lock is released: since messages may
stay undelivered, this adds behaviours and loses none.

`Mempool`: expiry is a free choice among the marked transactions. Publication to
peers, and vertices of other authors, do not touch the state modelled.

`NodePipeline`: one engine, since all of them share the channels; ranks, barriers and
views are in the other modules. Only locks that are kept across a blocking send are
modelled.

`AdaptiveRuntime`: of the tuning only the committee size is kept, and observations beside
the membership are free choices, the leaders with statistics among them (`Reputed`). A
policy's answer is taken as it comes: it may repeat an instance or name one the node does
not run. Each committee size carries the epoch it was decided for (`sizeSeen`, `seenAt`): a
size that the safety filter restores is as old as it was.

`EpochPipeline`: trust scores are a free choice of suspects. `publishToGBC` has its two
modes: with beacon nodes (`gbcNodes`) an entry reported as published has a quorum; without
them, the default of `NewPipeline`, it is appended to the local log and nobody is asked. One
log stands for the nodes' log and for `p.gbcLog`. Instances may tolerate any number of
faults (`InitialFaults`), and `ValidatorCount` is the number of agents, as every
caller of `SetInstances` gives it. A lane's rank belongs to one height, so the commits of an
instance in an epoch differ in rank (`RanksAreDistinct`).

## Runs

| run | instance | what it shows |
|---|---|---|
| `orderer` | 2 lanes, ranks 2 to 5, pending map of 2, channel of 1, 4 inputs, `FairSpec` | the orderer's invariants, the refinement of `RankLog`, every rank is delivered |
| `replicas_diverge` | 2 nodes, 2 lanes, 1 height | *violated*: two nodes decide a rank the same way |
| `equivocation` | 4 validators, the leader of view 1 faulty, 2 views | one certified block per view |
| `timeouts` | 4 validators, one faulty, timeouts in view 3 | certificates are real; NewViews of honest nodes are acceptable |
| `commits` | 2 validators, 5 views, quick reputation verdicts, GC after 2 views | commits increase, certificates keep their order |
| `heights` | 2 validators, 6 views | *violated*: one block per height |
| `gbc` | 4 primaries, the proposer of height 1 faulty, 2 heights, two payloads, lost messages | certified entries agree, commits are durable, logs only grow, also through sync; refines `BeaconDecisions` |
| `executor` | 10 validators and one more, logs of 3 blocks out of 5 kinds, the last one of 2, 2 intents, peers with discovered configurations, `FairSpec` | one validator set everywhere, discovery not behind it, nothing queued twice or left over, quorums of consecutive sets meet, only a block with two effective reconfigurations stops the consumer |
| `hydra` | 4 validators, one faulty, 1 view, 2 configurations, 6 messages taken in | transitions of a view that share an honest voter, or whose quorums overlap, are one, with one set of leaves and genuine proofs |
| `pipeline` | 3 transactions, pool of 3 bytes, every channel of capacity 1, 5 blocks of which the first changes the epoch, `FairSpec` | exact pool, no batch lost, blocks arrive once and in order, everything moves on except in the gridlock named below |
| `adaptive` | 7 validators, then 5, then 4, 2 instances, answers that repeat an instance and name an unknown one, 1 feedback goroutine, 1 outage, `FairSpec` | the breaker keeps count and recovers, evictions the filter counts were safe, quorums stay reachable for an epoch, a decision is applied once |
| `epochs` | 2 instances with 7 and 6 agents, with and without beacon nodes, 2 epochs, 4 log entries, 3 versions | canonical checkpoints, commit before apply, safe rollback |

The orderer's channels have capacity 1 or 2, so they are full and empty in the
same run; four inputs over two lanes include a duplicate, a late output, a
mismatch and an eviction. Four validators are the smallest set with a faulty
one. Two validators are the smallest in which certificates form at all; they make
commits cheap enough to look at five or six views, so that reputation verdicts,
fallback leaders and garbage collection all happen. Up to six validators the
fast-path threshold is no more than the quorum, so these runs always commit by the
two-chain rule; the three-chain branch and a refusal by `SafeNode` need larger sets
and are left for a module of their own. Two GBC heights suffice for a
primary to be behind by more than the entry it is sent; the first is proposed by a
faulty primary, which may send on all the signatures it has seen, and the second by
an honest one. The two payloads are interchangeable, and TLC uses that symmetry, as it does of the two
agents that come under suspicion in `epochs`. Ten validators are the
smallest set in which three may leave at once. In `hydra` six messages are what it
takes to collect a quorum of votes; nodes vote for both identifiers 1 and 2, and
either of them can win. Channels of capacity 1 are full and empty within a few
steps, and five blocks are one more than the four places between engine and
consumer hold. The validator sets of `adaptive` shrink by the most a single epoch
may remove. Two epochs and three versions are what a rollback needs: a version to
leave and an older one to return to.

Deadlock is not checked: the bounds make every instance stop.

### Fairness

`GlobalOrderer!FairSpec`: the goroutine runs and its ticker fires (`WF` of `Run`),
the consumer loop in `main.go` reads again (`WF` of `Receive`), and an armed
barrier that is polled again and again is found elapsed at last (`SF` of
`EmitNil`). `Executor!FairSpec`: the consumer loop repeats `ApplyOrderedBlock` until
it succeeds (`WF` of `applyOrderedOutput`), and certified vertices arrive in the
end; nobody is obliged to register intents or to answer a discovery request.
`NodePipeline!FairSpec`: every goroutine that can go on does (`WF` of its sends and
receives). It is `SF` where one has to win a lock against another (the consumer) or
is one branch of a `select` (the engine): Go's mutexes hand over to a waiter that
has starved for a millisecond, and `select` chooses at random among the ready cases.
`AdaptiveRuntime!FairSpec`: the ticker fires, a request returns (the HTTP client
has a timeout) and the open interval of the breaker passes; the server's outages are
under no fairness, `BreakerRecovers` is about the case that it stays up.

### Behaviour seen in the models that no run is about

Lanes and orderer:

- A mempool certificate handed to a leader that has already proposed in the view,
  or whose proposal fails to publish, is lost (`proposeBlock`).
- All validators may time out in one view without a TC: each leaves the view when
  its own timer fires, and the votes of the others are then stale.
- The gridlock: `engine.go:1410` sends to `outputChan` with the block tree lock held.
  When that channel, the orderer's hand and its output channel are all full while
  the consumer is at an epoch change, which needs that lock (or the mempool's, held
  by a `createVertex` the engine does not serve), nobody moves again.
  `EveryOutputIsConsumed` and `CreateVertexReturns` name this state (`Gridlock`) and
  show that it is the only one of its kind.

Beacon chain and epochs:

- A GBC sync response sent before the entry has its quorum is refused and nothing
  asks again.
- A GBC quorum is 2f + 1 with f = (m - 1) / 3. Two of them share an honest primary only
  for m = 3f + 1: with m = 5 and one faulty proposer, two entries of a height both get
  a quorum of 3 (`gbc/types.go:33`; `CertifiedAgree` fails for that instance).
- Every commit after an epoch is complete publishes another checkpoint
  (`orderer.go:91`); a refused checkpoint is not tried again, and a late commit of an epoch
  already cleaned starts it afresh.
- Without beacon nodes the closed loop commits to its local log alone, so evictions and
  versions are applied with no quorum (`pipeline.go:560`); `CommitThenApply` then asks for the
  entry and not for a certificate.
- A checkpoint goes to the local log by `Log.Publish`, which needs no quorum either.
- A version identifier is used again after a publication that timed out; a rollback
  restores the counts and not the agents (`pipeline.go:453`), which is why
  `CountsAreAgents` ends at the first rollback.

Reconfiguration:

- Intents are registered with the local Hydra manager only, so two nodes that apply the
  same log need not accept the same joins and leaves (`executor.go:360`).
- A node does not receive its own AutoVote and does not count it, so four validators
  of which one is silent cannot complete an auto-transition.
- The executor lets a third leave in one block, ten validators become seven (`executor.go:615`).
  Quorums of 7 of the ten and of 5 of the seven share two validators in the worst case, which
  may both be faulty, so nodes that count the votes of one view by the two configurations need
  not agree on its transition.
- The votes of an auto-transition cover its leaves; a leave that is dropped because its
  target has left already makes the proof invalid (`main.go:951`).
- Hydra numbers configurations 0, 2, 3, ...: discovery waits for a configuration 1
  that never exists, and configurations it learned before an installation are
  not looked at again. So the highest known configuration may stay behind what the
  history would allow (`discovery.go:212`); it is never behind the installed one.

Adaptive control:

- An action the gate releases later is not checked again against the set of that
  epoch, and an older one may be applied after a newer emergency action.
- After two shrinking epochs within a cooldown the quorum of a committee may exceed the
  validators; `CommitteeQuorumReachable` holds for the first of them.
- The half-open breaker lets every request through, not one probe (`resilient.go:16`).
- The filter counts the last entry of an answer for each instance the node runs
  (`safety.go:242`), while every entry is applied (`adaptive_runtime.go:180`): the changes of an
  earlier entry for the same instance, or of one for an unknown instance, escape it.
  `EvictionsWereSafe` speaks of what the filter counts.
- `deploy/README.md:563` has the guardrails sanitize an action "before it reaches any live
  engine". `MaskUnsafeAction` runs after them and restores an observed committee size
  (`safety.go:205`), which was bounded by an older and possibly larger validator set.

Mempool: an evicted transaction keeps its mark and is refused until it expires, and a
transaction larger than the pool empties the queue before it is refused.

## Proofs

Every theorem holds for all values of the constants that satisfy the module's named
assumptions, so for every number of validators, lanes, instances or agents and every
bound. Each proof module finds an inductive invariant that contains the properties and
what they rest on, shows that the initial states have it and, with one lemma per action,
that every step keeps it.

**Global orderer.** Type correctness, that the log follows the ranks, that consumer, channel
and blocked send together are the log, that the pending map is bounded and ahead
of the log, that at most one barrier runs, that a pending block leaves the map only into the
log or evicted by a lower rank and its rank is never decided nil, and that the orderer
implements `RankLog`.
The inductive invariant is the conjunction of type correctness and the named
invariants with a few facts that tie `pc` to `sending` and bound the output
channel. None of the parts is inductive alone: that the log follows the ranks needs
that pending outputs have a valid rank mapping, that the map has one output per
rank needs `Acceptable`, and delivery in order needs that `sending` is empty
except in the blocking send. For the refinement, `decided` is `log`, the window is
the channel's capacity and the entry in flight; the step that decides a rank
needs the bound on the channel, and the step that delivers needs delivery in order.
Assumption: `OrdererConstants` (positive counts, outputs are records over
naturals, `Nil` is no block).

**One lane.** `HotStuffProofs` has two arguments. The first is about votes (`IInv`): no view
of a lane gets two certified blocks when fewer than a third of the validators are faulty.
The invariant adds that votes go to the view's
leader only, that honest leaders make one block a view, that an honest node votes at
most once a view, and that a vote stays remembered: the node still has the block
in `seenProposals`, or its view is so far ahead that `validateProposalConstraint`
rejects every proposal of that view. The last part is where garbage collection could
go wrong, and it needs `GCLag >= 1`. All handlers are shown to satisfy one
relation between a node's states before and after (`Follows`): views do not
decrease, and a seen proposal is forgotten only when its view is over by more than
one. A block that only its own proposer and the faulty nodes signed has no quorum, so
a fallback leader's block is never certified; for the leader's blocks, two
quorums share an honest node (`3 * F < N`), which voted once.

The second is about a node's chain state and its timeouts (`LaneInv`): types, certificates
that are real, the order of the committed, locked and highest certificate, commits in
increasing order of views, and NewViews that every peer accepts. Certificates are compared by
view only, so the invariant says of every stored block that its justify certificate is
real and of an earlier view, that what was output lies below the committed
certificate, and that a timeout collector has the highest certificate of the honest
voters it counted. A handler is a chain of helpers that pass a node's state on; each
helper has a lemma from a good state to a good state, also in the middle of a handler,
when the view is still to be advanced. The three-chain rule and `SafeNode`, which the runs
do not reach, are covered here. Assumptions: `HotStuffConstants` (in particular
`3 * F < N`), and that `NoBlock` and `Unborn` are no block.

**Global Beacon Chain.** Types, that logs only grow and that a commit is durable hold for every
number of primaries and of faulty ones. The invariant says that attestations, wherever
they are stored, collected or carried by a message, were made, and that an honest primary
that signed an entry holds it in its log; since logs only grow, it signs one entry of
a height. That certified entries agree needs two quorums with an honest primary in
common: the theorem assumes `FaultBound`, m = 3f + 1 primaries with at most f faulty. For other
m the statement is false (see above), with the quorum the code computes.

Under the same assumption the chain implements `BeaconDecisions`. An entry is decided when
a quorum has signed it or can have, so it may be decided while no primary knows, and
what a primary has learned is what its `onCommit` was called with. A step makes at most one
attestation (`NextSignsOne`), so it decides at most the entry that one is on
(`OneSignatureOneDecision`); two decided entries of a height would have an honest signer in
common, after the step as before it (`OneDecisionPerHeight`); and what is fired has its
quorum at once. In this form the agreement is about entries of all times: a primary that
commits an entry long after the others cannot commit another one.

**Reconfiguration.** One validator set in all parts of a node with discovery not behind it,
a queue that holds only what the block in progress put there, and quorums of consecutive
sets that meet. The work is in the loop of `commitReconfigsLocked`: `Recursion` shows that
a loop's recursive function exists and stays in the sets its turns stay in,
and `Built` describes what the loop has made after some turns. Epochs strictly increase along
the transitions, and `validateTransitionEvent` wants the last of them to start at the
installed epoch; so an installed block has one transition, and the bound that
`applyReconfig` puts on a single one holds for the step. The rest is
arithmetic: a join, or leaves of at most (n - 1) / 3, keep 2n / 3 + 1 and
2n' / 3 + 1 above the size of the larger set. Assumption: `ExecutorConstants`.

**Auto-transition.** One transition per view. A node votes for the candidate it holds of a view, keeps
it until the view is final, and takes nothing of a final view; so it votes once
per view, however often a proposal is repeated, and collected or committed votes were cast. So
two transitions of a view with an honest voter in common are the same, for any configurations
and any faulty nodes. Nodes may count a view's votes by different configurations, so that they
agree takes a quorum of the one and a quorum of the other that share an honest node:
`QuorumsOverlap` is a condition in the property, on the two quorums, and not an assumption.
`HydraQuorumsOverlap` shows where it holds: in a configuration with less than a third faulty,
also with the one that lacks one of its members. It does not hold for all the removals
the executor allows (see above), and for those only the first part is left.

**Node pipeline.** Committed blocks reach the consumer once and in order, and no batch is lost, for
every capacity. The first needs that whoever has a block to send holds the block tree's lock
(`LockDiscipline`), so there is one such block; each step moves a block
along the line of hands and channels. The second needs that the round before the current one
has its certificate, which is why the early return of `createVertex` is never taken.
The accounting of the pool is a third argument (`PoolInv`): the byte count is the sum over the
queue, which is within both limits, every queued transaction has its mark and no two
entries are the same. Eviction, expiry and batches leave a part of the queue
in its order, so they are shown to be turns of functions that return such a part and the
count that belongs to it; a submission appends one whose mark was not set. Types and
the bounds of all channels (`BoundsInv`) come last.

**Adaptive control.** The breaker keeps count; a decision is in one place and applied at
most once; the evictions the filter counts leave `3f + 1 + DeltaS` of the validators the
decision was made for;
committee quorums stay within reach.
The second needs that identifiers are given out once (`decided` bounds all of them) and that
the two goroutines hold nothing between their turns. The third follows the answer
through `Sanitize`, the mask and the gate, for any answer, with repeated or unknown instances
too: it says of each instance the node observes that the entry the filter counted, the last
one, is safe or was masked, and a mask covers all the entries of its instance. The fourth (`SizeInv`) says of every committee size, in
force, observed by the controller or held in an action anywhere, that it was
decided for an epoch up to the installed one and is at most the number of its
validators. The mask may restore an older size, and then the older epoch goes with
it. One change of the set removes at most (n - 1) / 3, and 2c / 3 + 1 of a size c <= n is at
most what is left, for every n >= 4. The only assumption about
answers is `AnswersTyped`: sizes, parameters and decisions are decoded as integers, identifiers as
natural numbers, changes as lists.

**Closed loop and epoch orderer.** Commit before apply (with a quorum's certificate when there are
beacon nodes, with the local entry when there are none), safe rollback, counts that are right
until the first rollback, canonical checkpoints, and types: the numbers of faults stay
natural numbers, also when a rollback restores a count of no agents, because Go's division
rounds (0 - 1) / 3 to zero. The invariant says that the margin
recorded in a version is at most that of each instance, so a safe ancestor is safe for all of them;
that certified entries stay in the log when a late one gets its quorum; and that the checkpoint
in publication is canonical, whatever is written between reading the height and
publishing. `OrderIsCanonical` is about the sort itself: the number of commits before a
commit is its place, places are distinct (`RanksAreDistinct`) and there are as many as
commits, so every place is taken.

Only model-checked: liveness, which the prover does not cover (`EveryRankIsDelivered`,
`StuckOnlyOnTwo`, `EveryOutputIsConsumed`, `CreateVertexReturns`, `BreakerRecovers`). Every
invariant, action property and refinement of a passing run is a theorem.
`TypeOK` of `GBC`, `NodePipeline`, `AdaptiveRuntime` and `EpochPipeline` is proved and not
part of their runs; it can be added to their configurations.

## Not modelled

Trust estimation, reward, entropy and regret: floating-point statistics, which TLC
does not have. The random beacon and VRF sortition: `main.go` turns the
committee off below its size, and what a draw selects is a matter of chance.
Network, crypto, codec and storage engine: the models keep what the protocols see of
them (loss, repetition, reordering, failing publication, unforgeable signatures).
Bootstrap, command-line tools and learning code are sequential drivers. Nothing of the
consensus state is recovered after a crash, so there is no restart to model.

## Plan

1. Epoch changes of `HotStuff`, which reset the view and not what is keyed by it.
2. `BlockTree` alone, with seven and more validators, for the three-chain rule and
   `SafeNode`.
