------------------------------- MODULE Hydra -------------------------------
(***************************************************************************)
(* Hydra's auto-transition (hydra/autotransition.go with lset.go and the   *)
(* installation of manager.go) among the validators of a configuration:    *)
(* when leaders time out, members of the L-set propose that suspected      *)
(* validators leave, everybody votes, and a node that has collected a      *)
(* quorum of votes hands the transition and its proof to main.go, which    *)
(* injects it as an auto-leave transaction into the first engine.          *)
(*                                                                         *)
(* A handler holds atm.mu and is one action.  Messages are gossiped: they  *)
(* stay available, arrive in any order or never, and a node does not       *)
(* receive its own (host.go drops them).  A message that is rejected       *)
(* before it is recorded as seen changes nothing and is no action.  The    *)
(* block hash is one more part of the candidate that everybody compares,   *)
(* and is left out.  pendingVotes is never filled, GCCollectors and        *)
(* ClearMarks are never called, and honest nodes send no AutoCommit.  The  *)
(* nodes have a signing key, which main.go does not give to the manager.   *)
(***************************************************************************)
EXTENDS Naturals, Sequences, FiniteSets

CONSTANTS
    Nodes,      \* node identifiers, natural numbers
    Faulty,     \* nodes that may sign and send anything
    Configs,    \* the committed configurations, in order: [id, members]
    Suspects,   \* nodes whose leadership honest nodes may see time out or equivocate
    FaultyMessages, \* bound: what faulty nodes may send
    MaxView,    \* bound: views of the engines
    MaxSeen     \* bound: messages taken in, by all nodes together

Honest == Nodes \ Faulty
Views == 1..MaxView

Proposals(from) == [type : {"propose"}, from : from, view : Views, leaves : SUBSET Nodes]
Votes(from) == [type : {"vote"}, from : from, view : Views, leaves : SUBSET Nodes, id : Nat]
Commits(from) == [type : {"commit"}, from : from, view : Views, leaves : SUBSET Nodes, id : Nat,
                  voters : SUBSET Nodes]

ASSUME HydraConstants ==
    /\ Nodes \subseteq Nat /\ IsFiniteSet(Nodes)
    /\ Faulty \subseteq Nodes /\ Suspects \subseteq Nodes
    /\ MaxView \in Nat /\ MaxSeen \in Nat
    /\ FaultyMessages \subseteq Proposals(Faulty) \cup Votes(Faulty) \cup Commits(Faulty)
    /\ Len(Configs) > 0
    /\ Configs \in Seq([id : Nat, members : SUBSET Nodes])
    /\ \A i, j \in DOMAIN Configs : i < j => Configs[i].id < Configs[j].id

NoCandidate == [id |-> 0, leaves |-> {}]
Candidates == [id : Nat, leaves : SUBSET Nodes]

VARIABLES
    config,     \* index in Configs of TempConfigManager.Mvalid
    evictable,  \* mmtable: the nodes marked unavailable or byzantine
    reserved,   \* reservedConfigID
    pending,    \* pendingAutoConfigs: the candidate of each view
    votes,      \* voteCollectors: who voted for the candidate of each view
    quorum,     \* voteCollectors: the quorum of each view's collector, 0 without one
    recent,     \* recentMessages
    lastView,   \* lastCommittedView; finalizedViews are the ones up to it or in done
    done,       \* the transitions handed to main.go, with their proofs
    injected,   \* the auto-leave transactions main.go gave the engine
    net         \* messages of honest nodes

vars == <<config, evictable, reserved, pending, votes, quorum, recent, lastView, done, injected, net>>

TransitionProofs == [view : Views, id : Nat, leaves : SUBSET Nodes, voters : SUBSET Nodes]
AutoLeaves == [view : Views, epoch : Nat, leaves : SUBSET Nodes]

TypeOK ==
    /\ config \in [Honest -> DOMAIN Configs]
    /\ evictable \in [Honest -> SUBSET Nodes]
    /\ reserved \in [Honest -> Nat]
    /\ pending \in [Honest -> [Views -> Candidates]]
    /\ votes \in [Honest -> [Views -> SUBSET Nodes]]
    /\ quorum \in [Honest -> [Views -> Nat]]
    /\ recent \in [Honest -> SUBSET ({"propose", "vote", "commit"} \X Nodes \X Views)]
    /\ lastView \in [Honest -> 0..MaxView]
    /\ done \in [Honest -> SUBSET TransitionProofs]
    /\ injected \in [Honest -> SUBSET AutoLeaves]
    /\ net \subseteq Proposals(Honest) \cup Votes(Honest)

Init ==
    /\ config = [n \in Honest |-> 1]
    /\ evictable = [n \in Honest |-> {}]
    /\ reserved = [n \in Honest |-> Configs[1].id]
    /\ pending = [n \in Honest |-> [v \in Views |-> NoCandidate]]
    /\ votes = [n \in Honest |-> [v \in Views |-> {}]]
    /\ quorum = [n \in Honest |-> [v \in Views |-> 0]]
    /\ recent = [n \in Honest |-> {}]
    /\ lastView = [n \in Honest |-> 0]
    /\ done = [n \in Honest |-> {}]
    /\ injected = [n \in Honest |-> {}]
    /\ net = {}

-----------------------------------------------------------------------------

Mvalid(n) == Configs[config[n]]

\* The first half of the validators, and one more, in the order of their ids.
LSet(n) ==
    {i \in Mvalid(n).members :
        Cardinality({j \in Mvalid(n).members : j < i}) <= Cardinality(Mvalid(n).members) \div 2}

QuorumSize(n) == (2 * Cardinality(Mvalid(n).members)) \div 3 + 1

Fresh(n, m) ==
    /\ m.from # n /\ m.from \in Mvalid(n).members
    /\ m.view > lastView[n]
    /\ <<m.type, m.from, m.view>> \notin recent[n]
    /\ Cardinality(UNION {{i} \X recent[i] : i \in Honest}) < MaxSeen

Seen(n, m) == recent' = [recent EXCEPT ![n] = @ \cup {<<m.type, m.from, m.view>>}]

\* validateAutoProposeLeaves and validateAutoCommitLeaves.
validLeaves(n, leaves) ==
    /\ leaves # {}
    /\ leaves \subseteq LSet(n)
    /\ leaves \subseteq evictable[n]

-----------------------------------------------------------------------------
(* The engine and the executor of the node.                                *)

\* An equivocation marks the leader as byzantine.
MarkFault(n, leader) ==
    /\ leader \notin evictable[n]
    /\ evictable' = [evictable EXCEPT ![n] = @ \cup {leader}]
    /\ UNCHANGED <<config, reserved, pending, votes, quorum, recent, lastView, done, injected, net>>

\* A leader that timed out too often is marked as unavailable, and the members
\* of the L-set propose that everybody they hold evictable leaves.
TriggerAutoTransition(n, leader, view) ==
    LET marked == evictable[n] \cup {leader}
        misbehaving == LSet(n) \cap marked
        msg == [type |-> "propose", from |-> n, view |-> view, leaves |-> misbehaving]
    IN  /\ evictable' = [evictable EXCEPT ![n] = marked]
        /\ net' = IF n \in LSet(n) /\ misbehaving # {} THEN net \cup {msg} ELSE net
        /\ UNCHANGED <<config, reserved, pending, votes, quorum, recent, lastView, done, injected>>

\* The ordered log commits the next configuration.
InstallCommittedConfiguration(n) ==
    /\ config[n] < Len(Configs)
    /\ config' = [config EXCEPT ![n] = @ + 1]
    /\ LET id == Configs[config[n] + 1].id
       IN  reserved' = [reserved EXCEPT ![n] = IF @ < id THEN id ELSE @]
    /\ evictable' = [evictable EXCEPT ![n] = {}]
    /\ UNCHANGED <<pending, votes, quorum, recent, lastView, done, injected, net>>

-----------------------------------------------------------------------------
(* Messages.                                                               *)

\* The membership manager starts at epoch 1 where Hydra says 0.
CurrentEpoch(n) == IF Mvalid(n).id = 0 THEN 1 ELSE Mvalid(n).id

\* The callback keeps the targets that are still validators; the mempool may
\* refuse the transaction, and nobody tries again.
injectHydraAutoLeaves(n, proof) ==
    LET authorized == proof.leaves \cap Mvalid(n).members
        tx == [view |-> proof.view, epoch |-> CurrentEpoch(n), leaves |-> authorized]
    IN  \/ authorized # {} /\ injected' = [injected EXCEPT ![n] = @ \cup {tx}]
        \/ UNCHANGED injected

transitionProof(v, c, voters) == [view |-> v, id |-> c.id, leaves |-> c.leaves, voters |-> voters]

\* Mutant: the view after the final one is refused as well.
FinalizeBeyond(n, v, c, voters) ==
    /\ done' = [done EXCEPT ![n] = @ \cup {transitionProof(v, c, voters)}]
    /\ lastView' = [lastView EXCEPT ![n] = v + 1]
    /\ UNCHANGED <<pending, votes, quorum, injected>>

\* commitAutoTransitionLocked and the callback, with the votes of the proof.
Finalize(n, v, c, voters) ==
    /\ done' = [done EXCEPT ![n] = @ \cup {transitionProof(v, c, voters)}]
    /\ injectHydraAutoLeaves(n, transitionProof(v, c, voters))
    /\ lastView' = [lastView EXCEPT ![n] = v]
    /\ pending' = [pending EXCEPT ![n][v] = NoCandidate]
    /\ votes' = [votes EXCEPT ![n][v] = {}]
    /\ quorum' = [quorum EXCEPT ![n][v] = 0]

\* The proposal is recorded as seen but refused: its targets are not acceptable
\* here, or the view has another candidate.
RefuseProposal(n, m) ==
    /\ \/ ~validLeaves(n, m.leaves)
       \/ pending[n][m.view] # NoCandidate /\ pending[n][m.view].leaves # m.leaves
    /\ UNCHANGED <<reserved, pending, quorum, net>>

ReserveNextConfigID(n) == reserved[n] + 1

\* The first proposal of a view makes the candidate; the node votes for the
\* candidate it holds.  It cannot have a quorum yet: votes need a candidate, and
\* the vote that completes a quorum finalizes it.
AcceptProposal(n, m) ==
    LET new == pending[n][m.view] = NoCandidate
        c == IF new THEN [id |-> ReserveNextConfigID(n), leaves |-> m.leaves]
                    ELSE pending[n][m.view]
    IN  /\ validLeaves(n, m.leaves)
        /\ new \/ c.leaves = m.leaves
        /\ pending' = [pending EXCEPT ![n][m.view] = c]
        /\ reserved' = [reserved EXCEPT ![n] = IF new THEN ReserveNextConfigID(n) ELSE @]
        /\ quorum' = [quorum EXCEPT ![n][m.view] = IF @ = 0 THEN QuorumSize(n) ELSE @]
        /\ net' = net \cup {[type |-> "vote", from |-> n, view |-> m.view,
                             leaves |-> c.leaves, id |-> c.id]}

handleAutoPropose(n, m) ==
    /\ Fresh(n, m)
    /\ m.from \in LSet(n)
    /\ Seen(n, m)
    /\ RefuseProposal(n, m) \/ AcceptProposal(n, m)
    /\ UNCHANGED <<config, evictable, votes, lastView, done, injected>>

\* The collector a vote finds or makes.
CollectorQuorum(n, v) == IF quorum[n][v] = 0 THEN QuorumSize(n) ELSE quorum[n][v]

\* The vote is for the candidate that is pending here.
validateAutoVoteForPending(n, m) ==
    m.leaves = pending[n][m.view].leaves /\ m.id = pending[n][m.view].id

commitReadyForView(n, v, collected) == Cardinality(collected) >= CollectorQuorum(n, v)

\* A vote that comes before the proposal is rejected; a vote for something else
\* is recorded as seen.
handleAutoVote(n, m) ==
    LET c == pending[n][m.view]
        collected == votes[n][m.view] \cup {m.from}
        counts == validateAutoVoteForPending(n, m)
    IN  /\ Fresh(n, m)
        /\ c # NoCandidate
        /\ Seen(n, m)
        /\ IF counts /\ commitReadyForView(n, m.view, collected)
           THEN Finalize(n, m.view, c, collected)
           ELSE /\ quorum' = [quorum EXCEPT ![n][m.view] = CollectorQuorum(n, m.view)]
                /\ votes' = [votes EXCEPT ![n][m.view] = IF counts THEN collected ELSE @]
                /\ UNCHANGED <<pending, lastView, done, injected>>
        /\ UNCHANGED <<config, evictable, reserved, net>>

\* Another view's candidate holds the identifier already.
Collides(n, v, id) == \E w \in Views \ {v} : pending[n][w].id = id

\* A proof without an identifier means the pending candidate's.
CommitID(n, m) == IF m.id = 0 THEN pending[n][m.view].id ELSE m.id

\* Mutant: the signatures in the proof are not verified.
AnyVotes(n, m) == m.voters \subseteq Mvalid(n).members

\* Every vote of the proof is a validator's signature on the same candidate.
genuine(n, m) ==
    /\ m.voters \subseteq Mvalid(n).members
    /\ \A h \in m.voters \cap Honest :
          [type |-> "vote", from |-> h, view |-> m.view, leaves |-> m.leaves, id |-> CommitID(n, m)] \in net

\* Without a proposal the proof makes the candidate, if its targets are acceptable.
buildPendingAutoTransitionForCommit(n, m) ==
    m.id # 0 /\ m.id > Mvalid(n).id /\ validLeaves(n, m.leaves)

\* What handleAutoCommit checks before it looks at the votes.
CommitFits(n, m) ==
    /\ Cardinality(m.voters) >= QuorumSize(n)
    /\ m.id # 0 => /\ \A t \in done[n] : t.id # m.id
                   /\ m.id > Mvalid(n).id
                   /\ ~Collides(n, m.view, m.id)
    /\ IF pending[n][m.view] = NoCandidate THEN buildPendingAutoTransitionForCommit(n, m)
       ELSE pending[n][m.view] = [id |-> CommitID(n, m), leaves |-> m.leaves]

\* The proof holds the votes of the message, and the collector's are dropped.
commitPendingView(n, m, c) == Finalize(n, m.view, c, m.voters)

\* When a vote does not verify, the candidate and the reservation made on the way
\* stay behind.
handleAutoCommit(n, m) ==
    LET c == [id |-> CommitID(n, m), leaves |-> m.leaves]
    IN  /\ Fresh(n, m)
        /\ Seen(n, m)
        /\ IF m.from \in LSet(n) /\ CommitFits(n, m)
           THEN /\ reserved' = [reserved EXCEPT ![n] = IF @ < m.id THEN m.id ELSE @]
                /\ IF genuine(n, m)
                   THEN commitPendingView(n, m, c)
                   ELSE /\ pending' = [pending EXCEPT ![n][m.view] = c]
                        /\ UNCHANGED <<votes, quorum, lastView, done, injected>>
           ELSE UNCHANGED <<reserved, pending, votes, quorum, lastView, done, injected>>
        /\ UNCHANGED <<config, evictable, net>>

-----------------------------------------------------------------------------

HandleAutoTransitionMessage(n) ==
    \E m \in net \cup FaultyMessages :
        \/ m.type = "propose" /\ handleAutoPropose(n, m)
        \/ m.type = "vote" /\ handleAutoVote(n, m)
        \/ m.type = "commit" /\ handleAutoCommit(n, m)

Next ==
    \E n \in Honest :
        \/ \E leader \in Suspects :
              \/ MarkFault(n, leader)
              \/ \E view \in Views : TriggerAutoTransition(n, leader, view)
        \/ InstallCommittedConfiguration(n)
        \/ HandleAutoTransitionMessage(n)

Spec == Init /\ [][Next]_vars

-----------------------------------------------------------------------------
(* Properties.                                                             *)

Transitions == UNION {done[n] : n \in Honest}

\* The quorum of a configuration, and the sets of nodes that hold it.
QuorumOf(i) == (2 * Cardinality(Configs[i].members)) \div 3 + 1

HoldsQuorum(t, i) ==
    t.voters \subseteq Configs[i].members /\ Cardinality(t.voters) >= QuorumOf(i)

\* A quorum of the one configuration and a quorum of the other share an honest node.
\* The executor does not see to it: a block that makes ten validators seven leaves
\* quorums of seven and of five.
QuorumsOverlap(i, j) ==
    LET M == Configs[i].members
        N == Configs[j].members
    IN  QuorumOf(i) + QuorumOf(j) > Cardinality(M \cup N) + Cardinality(M \cap N \cap Faulty)

SameTransition(s, t) == s.id = t.id /\ s.leaves = t.leaves

\* However votes, proposals and proofs of the views mix, an honest node's vote counts
\* for one transition of a view, whoever proposes and by whatever configuration nodes
\* number the candidate and count votes: two transitions of a view that share an
\* honest voter are the same, so nodes whose quorums overlap hand over the same one.
\* A proof holds votes its honest signers cast, as many as some configuration asks for.
OneTransitionPerView ==
    /\ \A s, t \in Transitions : s.view = t.view =>
          /\ s.voters \cap t.voters \cap Honest # {} => SameTransition(s, t)
          /\ \A i, j \in DOMAIN Configs :
                HoldsQuorum(s, i) /\ HoldsQuorum(t, j) /\ QuorumsOverlap(i, j)
                    => SameTransition(s, t)
    /\ \A s \in Transitions :
          /\ \A h \in s.voters \cap Honest :
                [type |-> "vote", from |-> h, view |-> s.view, leaves |-> s.leaves, id |-> s.id]
                    \in net
          /\ \E i \in DOMAIN Configs : Cardinality(s.voters) >= QuorumOf(i)
=============================================================================
