---------------------------- MODULE HydraProofs ----------------------------
(***************************************************************************)
(* Hydra's auto-transition, for every set of nodes, every sequence of      *)
(* configurations and every bound: the proofs that nodes hand over consist *)
(* of votes that were cast, and an honest node's votes count for one       *)
(* transition of a view.  So nodes hand over one transition of a view when *)
(* they count by configurations whose quorums overlap: by one              *)
(* configuration, or by two of which the second lacks one member.          *)
(*                                                                         *)
(* The argument: a node votes for the candidate it holds of the view,      *)
(* keeps that candidate until the view is final, and takes nothing of a    *)
(* final view any more; so it votes for one candidate of a view, however   *)
(* often it is asked.                                                      *)
(***************************************************************************)
EXTENDS Hydra, FiniteSetTheorems, SequenceTheorems, TLAPS

\* The vote of h for the candidate c of the view v.
Vote(h, v, c) == [type |-> "vote", from |-> h, view |-> v, leaves |-> c.leaves, id |-> c.id]

CandidateOf(m) == [id |-> m.id, leaves |-> m.leaves]

VotesIn(N) == {m \in N : m.type = "vote"}

\* A vote is for the candidate its sender holds, unless the view is final.
VoteIsCandidate ==
    \A m \in VotesIn(net) :
        /\ m.leaves # {}
        /\ m.view <= lastView[m.from] \/ pending[m.from][m.view] = CandidateOf(m)

OneVotePerView ==
    \A a, b \in VotesIn(net) : a.from = b.from /\ a.view = b.view => CandidateOf(a) = CandidateOf(b)

NoVotesWithoutCandidate ==
    \A n \in Honest : \A v \in Views : pending[n][v] = NoCandidate => votes[n][v] = {}

\* What is collected was cast.
CollectedVotesCast ==
    \A n \in Honest : \A v \in Views : \A h \in votes[n][v] \cap Honest :
        Vote(h, v, pending[n][v]) \in net

\* A collector has the quorum of a configuration.
QuorumOfSomeConfig ==
    \A n \in Honest : \A v \in Views :
        quorum[n][v] = 0 \/ \E i \in DOMAIN Configs : quorum[n][v] = QuorumOf(i)

\* A proof of votes that were cast, as many as some configuration asks for.
ProofIn(N, t) ==
    /\ \A h \in t.voters \cap Honest : Vote(h, t.view, t) \in N
    /\ \E i \in DOMAIN Configs : Cardinality(t.voters) >= QuorumOf(i)

ProofsGenuine == \A n \in Honest : \A t \in done[n] : ProofIn(net, t)

\* The inductive invariant.
IInv ==
    /\ TypeOK
    /\ VoteIsCandidate
    /\ OneVotePerView
    /\ NoVotesWithoutCandidate
    /\ CollectedVotesCast
    /\ QuorumOfSomeConfig
    /\ ProofsGenuine

-----------------------------------------------------------------------------
(* What every step does.                                                   *)

\* A candidate appears where there is none, or is dropped when its view is final.
PendingStep ==
    \A n \in Honest : \A v \in Views :
        \/ pending'[n][v] = pending[n][v]
        \/ pending[n][v] = NoCandidate /\ pending'[n][v].leaves # {}
        \/ pending'[n][v] = NoCandidate /\ votes'[n][v] = {} /\ v <= lastView'[n]

\* A vote that is collected was cast for the candidate at hand.
VotesStep ==
    \A n \in Honest : \A v \in Views : \A h \in votes'[n][v] \ votes[n][v] :
        /\ pending[n][v] # NoCandidate /\ pending'[n][v] = pending[n][v]
        /\ h \in Honest => Vote(h, v, pending[n][v]) \in net'

QuorumStep ==
    \A n \in Honest : \A v \in Views :
        \/ quorum'[n][v] = quorum[n][v] \/ quorum'[n][v] = 0
        \/ \E i \in DOMAIN Configs : quorum'[n][v] = QuorumOf(i)

\* Nodes vote in views that are not final, for the candidate they hold.
NetStep ==
    /\ net \subseteq net'
    /\ \A m \in VotesIn(net') \ net :
          /\ m.leaves # {} /\ lastView[m.from] < m.view
          /\ pending'[m.from][m.view] = CandidateOf(m)

ViewStep == \A n \in Honest : lastView[n] <= lastView'[n]

DoneStep == \A n \in Honest : \A t \in done'[n] \ done[n] : ProofIn(net', t)

Step == TypeOK' /\ PendingStep /\ VotesStep /\ QuorumStep /\ NetStep /\ ViewStep /\ DoneStep

-----------------------------------------------------------------------------

\* A proof stays one when there are more messages.
LEMMA ProofStays ==
    ASSUME NEW N, NEW P, N \subseteq P, NEW t, ProofIn(N, t)
    PROVE  ProofIn(P, t)
  BY DEF ProofIn

\* Steps that do no more than Step allows keep the invariant.
LEMMA StepKeepsInvariant ==
    ASSUME IInv, Step
    PROVE  IInv'
<1> USE DEF Step
<1>0. TypeOK /\ TypeOK'
  BY DEF IInv
<1>a. ASSUME NEW m \in VotesIn(net') PROVE m \in VotesIn(net) \/ m \in VotesIn(net') \ net
  BY DEF VotesIn
<1>b. \A m \in VotesIn(net') : /\ m.from \in Honest /\ m.view \in Views /\ m.view \in Nat
                               /\ lastView[m.from] \in Nat /\ lastView'[m.from] \in Nat
  <2> SUFFICES ASSUME NEW m \in VotesIn(net')
               PROVE  m.from \in Honest /\ m.view \in Views
    BY <1>0, HydraConstants DEF TypeOK, Views
  <2>1. m.type = "vote" /\ m \in Proposals(Honest) \cup Votes(Honest)
    BY <1>0 DEF VotesIn, TypeOK
  <2> QED BY <2>1 DEF Proposals, Votes
<1>c. \A m \in VotesIn(net) : m.leaves # {} /\ CandidateOf(m) # NoCandidate /\ m \in VotesIn(net')
  BY DEF IInv, VoteIsCandidate, CandidateOf, NoCandidate, VotesIn, NetStep
<1>d. \A m \in VotesIn(net') \ net : m.leaves # {} /\ CandidateOf(m) # NoCandidate
  BY DEF NetStep, CandidateOf, NoCandidate
<1>1. VoteIsCandidate'
  <2> SUFFICES ASSUME NEW m \in VotesIn(net')
               PROVE  /\ m.leaves # {}
                      /\ m.view <= lastView'[m.from] \/ pending'[m.from][m.view] = CandidateOf(m)
    BY DEF VoteIsCandidate
  <2>1. CASE m \in VotesIn(net)
    <3>1. CASE m.view <= lastView[m.from]
      BY <2>1, <3>1, <1>b, <1>c DEF ViewStep
    <3>2. CASE pending[m.from][m.view] = CandidateOf(m)
      BY <2>1, <3>2, <1>b, <1>c DEF PendingStep
    <3> QED BY <2>1, <3>1, <3>2 DEF IInv, VoteIsCandidate
  <2>2. CASE m \in VotesIn(net') \ net
    BY <2>2 DEF NetStep
  <2> QED BY <1>a, <2>1, <2>2
<1>2. OneVotePerView'
  <2>1. ASSUME NEW a \in VotesIn(net), NEW b \in VotesIn(net') \ net, a.from = b.from, a.view = b.view
        PROVE  CandidateOf(a) = CandidateOf(b)
    <3>1. lastView[b.from] < b.view /\ pending'[b.from][b.view] = CandidateOf(b)
      BY DEF NetStep
    <3>2. pending[a.from][a.view] = CandidateOf(a)
      BY <2>1, <3>1, <1>b DEF IInv, VoteIsCandidate
    <3> QED BY <2>1, <3>1, <3>2, <1>b, <1>c, <1>d DEF PendingStep
  <2>2. ASSUME NEW a \in VotesIn(net') \ net, NEW b \in VotesIn(net') \ net, a.from = b.from, a.view = b.view
        PROVE  CandidateOf(a) = CandidateOf(b)
    BY <2>2 DEF NetStep
  <2> QED BY <1>a, <2>1, <2>2 DEF IInv, OneVotePerView
<1>3. NoVotesWithoutCandidate'
  <2> SUFFICES ASSUME NEW n \in Honest, NEW v \in Views, pending'[n][v] = NoCandidate
               PROVE  votes'[n][v] = {}
    BY DEF NoVotesWithoutCandidate
  <2>1. CASE pending[n][v] = NoCandidate
    BY <2>1 DEF IInv, NoVotesWithoutCandidate, VotesStep
  <2>2. CASE pending[n][v] # NoCandidate
    BY <2>2 DEF PendingStep
  <2> QED BY <2>1, <2>2
<1>4. CollectedVotesCast'
  <2> SUFFICES ASSUME NEW n \in Honest, NEW v \in Views, NEW h \in votes'[n][v], h \in Honest
               PROVE  Vote(h, v, pending'[n][v]) \in net'
    BY DEF CollectedVotesCast
  <2>1. CASE h \in votes[n][v]
    <3>1. pending[n][v] # NoCandidate /\ Vote(h, v, pending[n][v]) \in net
      BY <2>1 DEF IInv, NoVotesWithoutCandidate, CollectedVotesCast
    <3>2. pending'[n][v] = pending[n][v]
      BY <3>1 DEF PendingStep
    <3> QED BY <3>1, <3>2 DEF NetStep
  <2> QED BY <2>1 DEF VotesStep
<1>5. QuorumOfSomeConfig'
  BY DEF IInv, QuorumOfSomeConfig, QuorumStep
<1>6. ProofsGenuine'
  <2> SUFFICES ASSUME NEW n \in Honest, NEW t \in done'[n] PROVE ProofIn(net', t)
    BY DEF ProofsGenuine
  <2>1. CASE t \in done[n]
    BY <2>1, ProofStays DEF IInv, ProofsGenuine, NetStep
  <2> QED BY <2>1 DEF DoneStep
<1> QED
  BY <1>0, <1>1, <1>2, <1>3, <1>4, <1>5, <1>6 DEF IInv

-----------------------------------------------------------------------------
(* The operators of the actions.                                           *)

\* Configurations are sets of nodes with a number.
LEMMA ConfigFacts == \A i \in DOMAIN Configs : Configs[i].id \in Nat /\ Configs[i].members \in SUBSET Nodes
<1>1. Configs \in Seq([id : Nat, members : SUBSET Nodes])
  BY HydraConstants
<1>2. \A i \in DOMAIN Configs : Configs[i] \in [id : Nat, members : SUBSET Nodes]
  <2> DEFINE R == [id : Nat, members : SUBSET Nodes]
  <2>1. Configs \in Seq(R)
    BY <1>1
  <2> HIDE DEF R
  <2>2. Configs \in [1..Len(Configs) -> R] /\ DOMAIN Configs = 1..Len(Configs)
    BY <2>1, LenProperties
  <2> QED BY <2>2 DEF R
<1> QED BY <1>2

\* Quorums are natural numbers, and the L-set is a set of nodes.
LEMMA NodeFacts ==
    ASSUME TypeOK, NEW n \in Honest
    PROVE  /\ Mvalid(n).id \in Nat /\ Mvalid(n).members \in SUBSET Nodes
           /\ LSet(n) \in SUBSET Nodes
           /\ config[n] \in DOMAIN Configs /\ QuorumSize(n) = QuorumOf(config[n])
           /\ QuorumSize(n) \in Nat /\ QuorumSize(n) # 0
           /\ CurrentEpoch(n) \in Nat
<1>1. config[n] \in DOMAIN Configs
  BY DEF TypeOK
<1>2. Mvalid(n).id \in Nat /\ Mvalid(n).members \in SUBSET Nodes
  BY <1>1, ConfigFacts DEF Mvalid
<1>3. Cardinality(Mvalid(n).members) \in Nat
  BY <1>2, HydraConstants, FS_Subset, FS_CardinalityType
<1>4. QuorumSize(n) \in Nat /\ QuorumSize(n) # 0
  <2> DEFINE c == Cardinality(Mvalid(n).members)
  <2>1. c \in Nat
    BY <1>3
  <2> HIDE DEF c
  <2>2. (2 * c) \div 3 + 1 \in Nat /\ (2 * c) \div 3 + 1 # 0
    BY <2>1
  <2> QED BY <2>2 DEF c, QuorumSize
<1> QED
  BY <1>1, <1>2, <1>4 DEF LSet, QuorumSize, QuorumOf, Mvalid, CurrentEpoch

\* The fields of the messages a node takes in; only an honest node's vote is in
\* the network under its name.
LEMMA MessageFields ==
    ASSUME TypeOK, NEW m \in net \cup FaultyMessages
    PROVE  /\ m.type \in {"propose", "vote", "commit"} /\ m.from \in Nodes /\ m.view \in Views
           /\ m.leaves \in SUBSET Nodes
           /\ m.type = "vote" => m.id \in Nat /\ (m.from \in Honest => m = Vote(m.from, m.view, m) /\ m \in net)
           /\ m.type = "commit" => m.id \in Nat /\ m.voters \in SUBSET Nodes
<1>1. Honest \subseteq Nodes /\ Faulty \subseteq Nodes /\ \A n \in Faulty : n \notin Honest
  BY HydraConstants DEF Honest
<1>2. CASE m \in net
  <2>1. m \in Proposals(Honest) \/ m \in Votes(Honest)
    BY <1>2 DEF TypeOK
  <2> QED BY <1>1, <1>2, <2>1 DEF Proposals, Votes, Vote
<1>3. CASE m \in FaultyMessages
  <2>1. m \in Proposals(Faulty) \/ m \in Votes(Faulty) \/ m \in Commits(Faulty)
    BY <1>3, HydraConstants
  <2> QED BY <1>1, <2>1 DEF Proposals, Votes, Commits
<1> QED BY <1>2, <1>3

\* A message is recorded as seen.
LEMMA SeenType ==
    ASSUME TypeOK, NEW n \in Honest, NEW m \in net \cup FaultyMessages, Seen(n, m)
    PROVE  recent' \in [Honest -> SUBSET ({"propose", "vote", "commit"} \X Nodes \X Views)]
<1>1. <<m.type, m.from, m.view>> \in {"propose", "vote", "commit"} \X Nodes \X Views
  BY MessageFields
<1> QED BY <1>1 DEF Seen, TypeOK

-----------------------------------------------------------------------------
(* The actions.                                                            *)

\* Steps that leave candidates, votes and transitions alone and send no votes.
LEMMA QuietStep ==
    ASSUME IInv, TypeOK', UNCHANGED <<pending, votes, lastView, done>>, QuorumStep,
           net \subseteq net', \A m \in net' \ net : m.type # "vote"
    PROVE  Step
  BY DEF Step, PendingStep, VotesStep, NetStep, ViewStep, DoneStep, VotesIn, IInv, TypeOK

\* An equivocation.
LEMMA MarkFaultStep ==
    ASSUME IInv, NEW n \in Honest, NEW leader \in Suspects, MarkFault(n, leader)
    PROVE  Step
<1>1. TypeOK'
  BY HydraConstants DEF MarkFault, IInv, TypeOK
<1> QED
  BY <1>1, QuietStep DEF MarkFault, QuorumStep

\* A leader that timed out; members of the L-set send a proposal.
LEMMA TriggerStep ==
    ASSUME IInv, NEW n \in Honest, NEW leader \in Suspects, NEW view \in Views,
           TriggerAutoTransition(n, leader, view)
    PROVE  Step
<1> DEFINE marked == evictable[n] \cup {leader}
           msg == [type |-> "propose", from |-> n, view |-> view, leaves |-> LSet(n) \cap marked]
<1>1. /\ evictable' = [evictable EXCEPT ![n] = marked]
      /\ net' = net \cup {msg} \/ net' = net
      /\ UNCHANGED <<config, reserved, pending, votes, quorum, recent, lastView, done, injected>>
  BY DEF TriggerAutoTransition
<1>2. marked \in SUBSET Nodes /\ msg \in Proposals(Honest) /\ msg.type = "propose"
  BY NodeFacts, HydraConstants DEF IInv, TypeOK, Proposals
<1> HIDE DEF marked, msg
<1>3. TypeOK'
  BY <1>1, <1>2 DEF IInv, TypeOK
<1>4. net \subseteq net' /\ \A m \in net' \ net : m.type # "vote"
  BY <1>1, <1>2
<1> QED
  BY <1>1, <1>3, <1>4, QuietStep DEF QuorumStep

\* The next configuration.
LEMMA InstallStep ==
    ASSUME IInv, NEW n \in Honest, InstallCommittedConfiguration(n)
    PROVE  Step
<1>1. config[n] + 1 \in DOMAIN Configs
  BY HydraConstants DEF InstallCommittedConfiguration, IInv, TypeOK
<1>2. Configs[config[n] + 1].id \in Nat
  BY <1>1, ConfigFacts
<1>3. TypeOK'
  BY <1>1, <1>2 DEF InstallCommittedConfiguration, IInv, TypeOK
<1> QED
  BY <1>3, QuietStep DEF InstallCommittedConfiguration, QuorumStep

\* handleAutoPropose of a proposal that the node refuses.
LEMMA RefuseProposalStep ==
    ASSUME IInv, NEW n \in Honest, NEW m \in net \cup FaultyMessages, Seen(n, m), RefuseProposal(n, m),
           UNCHANGED <<config, evictable, votes, lastView, done, injected>>
    PROVE  Step
<1>1. TypeOK'
  BY SeenType DEF RefuseProposal, IInv, TypeOK
<1> QED
  BY <1>1, QuietStep DEF RefuseProposal, QuorumStep

\* handleAutoPropose of the proposal that makes the candidate, or repeats it: the
\* node votes for the candidate it holds from now on.
LEMMA AcceptProposalStep ==
    ASSUME IInv, NEW n \in Honest, NEW m \in net \cup FaultyMessages, Fresh(n, m), Seen(n, m),
           AcceptProposal(n, m), UNCHANGED <<config, evictable, votes, lastView, done, injected>>
    PROVE  Step
<1>0. m.view \in Views /\ m.view \in Nat /\ m.leaves \in SUBSET Nodes /\ m.leaves # {} /\ TypeOK
      /\ lastView[n] < m.view /\ lastView[n] \in Nat
  <2>1. TypeOK /\ m.view > lastView[n] /\ m.leaves # {}
    BY DEF IInv, AcceptProposal, validLeaves, Fresh
  <2>2. m.view \in Views /\ m.leaves \in SUBSET Nodes
    BY <2>1, MessageFields
  <2>3. m.view \in Nat /\ lastView[n] \in Nat
    BY <2>1, <2>2, HydraConstants DEF Views, TypeOK
  <2> QED BY <2>1, <2>2, <2>3
<1>1. PICK c \in Candidates :
         /\ pending[n][m.view] = NoCandidate \/ c = pending[n][m.view]
         /\ c.leaves = m.leaves
         /\ pending' = [pending EXCEPT ![n][m.view] = c]
         /\ net' = net \cup {Vote(n, m.view, c)}
  <2> DEFINE new == pending[n][m.view] = NoCandidate
             d == IF new THEN [id |-> ReserveNextConfigID(n), leaves |-> m.leaves]
                         ELSE pending[n][m.view]
  <2>1. d \in Candidates
    BY <1>0 DEF TypeOK, Candidates, ReserveNextConfigID
  <2>2. /\ new \/ d = pending[n][m.view]
        /\ d.leaves = m.leaves
        /\ pending' = [pending EXCEPT ![n][m.view] = d]
        /\ net' = net \cup {Vote(n, m.view, d)}
    BY DEF AcceptProposal, Vote
  <2> HIDE DEF d
  <2> QED BY <2>1, <2>2
<1>2. /\ reserved' \in [Honest -> Nat]
      /\ quorum' \in [Honest -> [Views -> Nat]]
      /\ QuorumStep
  <2>1. QuorumSize(n) \in Nat /\ config[n] \in DOMAIN Configs /\ QuorumSize(n) = QuorumOf(config[n])
    BY <1>0, NodeFacts
  <2>2. reserved' \in [Honest -> Nat]
    BY <1>0 DEF AcceptProposal, ReserveNextConfigID, TypeOK
  <2>3. quorum' = [quorum EXCEPT ![n][m.view] = IF @ = 0 THEN QuorumSize(n) ELSE @]
    BY DEF AcceptProposal
  <2>4. quorum' \in [Honest -> [Views -> Nat]]
    BY <1>0, <2>1, <2>3 DEF TypeOK
  <2>5. QuorumStep
    BY <1>0, <2>1, <2>3 DEF TypeOK, QuorumStep
  <2> QED BY <2>2, <2>4, <2>5
<1> DEFINE vote == Vote(n, m.view, c)
<1>3. vote \in Votes(Honest) /\ vote.type = "vote" /\ vote.from = n /\ vote.view = m.view
      /\ vote.leaves = m.leaves /\ CandidateOf(vote) = c
  BY <1>0, <1>1 DEF Vote, Votes, Candidates, CandidateOf
<1>4. net' = net \cup {vote}
  BY <1>1
<1> HIDE DEF vote
<1>5. pending' \in [Honest -> [Views -> Candidates]] /\ pending'[n][m.view] = c
  BY <1>0, <1>1 DEF TypeOK
<1>6. TypeOK'
  BY <1>0, <1>2, <1>3, <1>4, <1>5, SeenType DEF TypeOK
<1>7. PendingStep
  BY <1>0, <1>1 DEF TypeOK, PendingStep
<1>8. NetStep
  BY <1>0, <1>3, <1>4, <1>5 DEF NetStep, VotesIn
<1> QED
  BY <1>0, <1>2, <1>6, <1>7, <1>8 DEF Step, VotesStep, ViewStep, DoneStep, TypeOK

\* commitAutoTransitionLocked: the view is final, its candidate and its votes go,
\* and the votes in the proof were cast for the candidate.
LEMMA FinalizeStep ==
    ASSUME IInv, NEW n \in Honest, NEW v \in Views, lastView[n] < v,
           NEW c \in Candidates, NEW voters \in SUBSET Nodes,
           \A h \in voters \cap Honest : Vote(h, v, c) \in net,
           \E i \in DOMAIN Configs : Cardinality(voters) >= QuorumOf(i),
           Finalize(n, v, c, voters),
           recent' \in [Honest -> SUBSET ({"propose", "vote", "commit"} \X Nodes \X Views)],
           reserved' \in [Honest -> Nat], UNCHANGED <<config, evictable, net>>
    PROVE  Step
<1> DEFINE t == transitionProof(v, c, voters)
<1>0. TypeOK /\ v \in Nat /\ v \in 0..MaxView /\ lastView[n] \in Nat /\ NoCandidate \in Candidates
  <2>1. TypeOK /\ NoCandidate \in Candidates
    BY DEF IInv, NoCandidate, Candidates
  <2>2. v \in Nat /\ v \in 0..MaxView
    BY HydraConstants DEF Views
  <2> QED BY <2>1, <2>2, HydraConstants DEF TypeOK
<1>1. t \in TransitionProofs /\ t.view = v /\ t.id = c.id /\ t.leaves = c.leaves /\ t.voters = voters
  BY DEF transitionProof, TransitionProofs, Candidates
<1>2. ProofIn(net', t)
  BY <1>1 DEF ProofIn, Vote
<1>3. injected' \in [Honest -> SUBSET AutoLeaves]
  <2> DEFINE tx == [view |-> t.view, epoch |-> CurrentEpoch(n), leaves |-> t.leaves \cap Mvalid(n).members]
  <2>1. tx \in AutoLeaves
    BY <1>0, <1>1, NodeFacts DEF AutoLeaves, Candidates
  <2>2. injected' = [injected EXCEPT ![n] = @ \cup {tx}] \/ UNCHANGED injected
    BY DEF Finalize, injectHydraAutoLeaves
  <2> HIDE DEF tx
  <2>3. injected \in [Honest -> SUBSET AutoLeaves]
    BY <1>0 DEF TypeOK
  <2>4. CASE UNCHANGED injected
    BY <2>3, <2>4
  <2>5. CASE injected' = [injected EXCEPT ![n] = @ \cup {tx}]
    BY <2>1, <2>3, <2>5
  <2> QED BY <2>2, <2>4, <2>5
<1>4. /\ done' = [done EXCEPT ![n] = @ \cup {t}]
      /\ lastView' = [lastView EXCEPT ![n] = v]
      /\ pending' = [pending EXCEPT ![n][v] = NoCandidate]
      /\ votes' = [votes EXCEPT ![n][v] = {}]
      /\ quorum' = [quorum EXCEPT ![n][v] = 0]
  BY DEF Finalize
<1> HIDE DEF t
<1>5. TypeOK'
  BY <1>0, <1>1, <1>3, <1>4 DEF TypeOK
<1>6. PendingStep
  BY <1>0, <1>4 DEF TypeOK, PendingStep
<1>7. VotesStep
  BY <1>0, <1>4 DEF TypeOK, VotesStep
<1>8. QuorumStep /\ ViewStep
  BY <1>0, <1>4 DEF TypeOK, QuorumStep, ViewStep
<1>9. DoneStep
  BY <1>0, <1>2, <1>4 DEF TypeOK, DoneStep
<1>10. NetStep
  BY DEF NetStep, VotesIn
<1> QED
  BY <1>5, <1>6, <1>7, <1>8, <1>9, <1>10 DEF Step

\* handleAutoVote: the vote completes a quorum, is counted, or is for something else.
LEMMA HandleAutoVoteStep ==
    ASSUME IInv, NEW n \in Honest, NEW m \in net \cup FaultyMessages, m.type = "vote", handleAutoVote(n, m)
    PROVE  Step
<1> DEFINE v == m.view
           c == pending[n][v]
           collected == votes[n][v] \cup {m.from}
           q == CollectorQuorum(n, v)
<1>0. TypeOK
  BY DEF IInv
<1>1. /\ v \in Views /\ m.from \in Nodes /\ m.leaves \in SUBSET Nodes /\ m.id \in Nat
      /\ m.from \in Honest => m = Vote(m.from, v, m) /\ m \in net
  BY <1>0, MessageFields
<1>2. lastView[n] < v /\ c # NoCandidate /\ Seen(n, m) /\ UNCHANGED <<config, evictable, reserved, net>>
  <2>1. v > lastView[n] /\ c # NoCandidate /\ Seen(n, m) /\ UNCHANGED <<config, evictable, reserved, net>>
    BY DEF handleAutoVote, Fresh
  <2>2. v \in Nat /\ lastView[n] \in Nat
    BY <1>0, <1>1, HydraConstants DEF Views, TypeOK
  <2> QED BY <2>1, <2>2
<1>3. recent' \in [Honest -> SUBSET ({"propose", "vote", "commit"} \X Nodes \X Views)]
  BY <1>0, <1>2, SeenType
<1>4. q \in Nat /\ \E i \in DOMAIN Configs : q = QuorumOf(i)
  BY <1>0, <1>1, NodeFacts DEF CollectorQuorum, IInv, QuorumOfSomeConfig, TypeOK
<1>5. c \in Candidates /\ collected \in SUBSET Nodes
  BY <1>0, <1>1 DEF TypeOK
<1>6. ASSUME validateAutoVoteForPending(n, m), NEW h \in collected \cap Honest
      PROVE  Vote(h, v, c) \in net
  <2>1. CASE h \in votes[n][v]
    BY <1>1, <2>1 DEF IInv, CollectedVotesCast
  <2>2. CASE h = m.from
    <3>1. m = Vote(h, v, m) /\ m \in net /\ m.leaves = c.leaves /\ m.id = c.id
      BY <1>1, <1>6, <2>2 DEF validateAutoVoteForPending
    <3>2. Vote(h, v, m) = Vote(h, v, c)
      BY <3>1 DEF Vote
    <3> QED BY <3>1, <3>2
  <2> QED BY <2>1, <2>2
<1>7. CASE validateAutoVoteForPending(n, m) /\ commitReadyForView(n, v, collected)
  <2>1. Finalize(n, v, c, collected)
    BY <1>7 DEF handleAutoVote
  <2>2. \E i \in DOMAIN Configs : Cardinality(collected) >= QuorumOf(i)
    BY <1>4, <1>7 DEF commitReadyForView
  <2>3. reserved' \in [Honest -> Nat]
    BY <1>0, <1>2 DEF TypeOK
  <2>4. \A h \in collected \cap Honest : Vote(h, v, c) \in net
    BY <1>6, <1>7
  <2> HIDE DEF v, c, collected, q
  <2> QED BY <1>1, <1>2, <1>3, <1>5, <2>1, <2>2, <2>3, <2>4, FinalizeStep
<1>8. CASE ~(validateAutoVoteForPending(n, m) /\ commitReadyForView(n, v, collected))
  <2>1. /\ quorum' = [quorum EXCEPT ![n][v] = q]
        /\ votes' = [votes EXCEPT ![n][v] = IF validateAutoVoteForPending(n, m) THEN collected ELSE @]
        /\ UNCHANGED <<pending, lastView, done, injected>>
    BY <1>8 DEF handleAutoVote
  <2>2. votes' \in [Honest -> [Views -> SUBSET Nodes]] /\ VotesStep
    <3>1. CASE validateAutoVoteForPending(n, m)
      <4>1. votes' = [votes EXCEPT ![n][v] = collected]
        BY <2>1, <3>1
      <4>2. votes' \in [Honest -> [Views -> SUBSET Nodes]]
        BY <1>0, <1>1, <1>5, <4>1 DEF TypeOK
      <4>3. \A h \in collected \cap Honest : Vote(h, v, c) \in net'
        BY <1>2, <1>6, <3>1
      <4>4. UNCHANGED pending /\ c # NoCandidate
        BY <1>2, <2>1
      <4>5. \A a \in Honest : \A w \in Views : a # n \/ w # v => votes'[a][w] = votes[a][w]
        BY <1>0, <1>1, <4>1 DEF TypeOK
      <4>6. votes'[n][v] = collected
        BY <1>0, <1>1, <4>1 DEF TypeOK
      <4> HIDE DEF collected
      <4>7. VotesStep
        BY <4>3, <4>4, <4>5, <4>6 DEF VotesStep
      <4> QED BY <4>2, <4>7
    <3>2. CASE ~validateAutoVoteForPending(n, m)
      <4>1. votes' = votes
        BY <1>0, <1>1, <2>1, <3>2 DEF TypeOK
      <4> QED BY <1>0, <4>1 DEF TypeOK, VotesStep
    <3> QED BY <3>1, <3>2
  <2>3. quorum' \in [Honest -> [Views -> Nat]] /\ QuorumStep
    <3> HIDE DEF q
    <3> QED BY <1>0, <1>1, <1>4, <2>1 DEF TypeOK, QuorumStep
  <2>4. TypeOK'
    BY <1>0, <1>2, <1>3, <2>1, <2>2, <2>3 DEF TypeOK
  <2>5. PendingStep /\ ViewStep /\ DoneStep
    BY <1>0, <2>1 DEF PendingStep, ViewStep, DoneStep, TypeOK
  <2>6. NetStep
    BY <1>2 DEF NetStep, VotesIn
  <2> QED BY <2>2, <2>3, <2>4, <2>5, <2>6 DEF Step
<1> QED BY <1>7, <1>8

\* handleAutoCommit: the proof is taken over, or leaves a candidate behind, or is
\* refused.
LEMMA HandleAutoCommitStep ==
    ASSUME IInv, NEW n \in Honest, NEW m \in net \cup FaultyMessages, m.type = "commit", handleAutoCommit(n, m)
    PROVE  Step
<1> DEFINE v == m.view
           c == [id |-> CommitID(n, m), leaves |-> m.leaves]
<1>0. TypeOK
  BY DEF IInv
<1>1. v \in Views /\ m.leaves \in SUBSET Nodes /\ m.id \in Nat /\ m.voters \in SUBSET Nodes
  BY <1>0, MessageFields
<1>2. lastView[n] < v /\ Seen(n, m) /\ UNCHANGED <<config, evictable, net>>
  <2>1. v > lastView[n] /\ Seen(n, m) /\ UNCHANGED <<config, evictable, net>>
    BY DEF handleAutoCommit, Fresh
  <2>2. v \in Nat /\ lastView[n] \in Nat
    BY <1>0, <1>1, HydraConstants DEF Views, TypeOK
  <2> QED BY <2>1, <2>2
<1>3. recent' \in [Honest -> SUBSET ({"propose", "vote", "commit"} \X Nodes \X Views)]
  BY <1>0, <1>2, SeenType
<1>4. c \in Candidates
  BY <1>0, <1>1 DEF CommitID, Candidates, TypeOK
<1>5. NetStep
  BY <1>2 DEF NetStep, VotesIn
<1>6. CASE m.from \in LSet(n) /\ CommitFits(n, m)
  <2>1. /\ reserved' = [reserved EXCEPT ![n] = IF @ < m.id THEN m.id ELSE @]
        /\ IF genuine(n, m)
           THEN Finalize(n, v, c, m.voters)
           ELSE /\ pending' = [pending EXCEPT ![n][v] = c]
                /\ UNCHANGED <<votes, quorum, lastView, done, injected>>
    BY <1>6 DEF handleAutoCommit, commitPendingView
  <2>2. reserved' \in [Honest -> Nat]
    BY <1>0, <1>1, <2>1 DEF TypeOK
  <2>3. CASE genuine(n, m)
    <3>1. Finalize(n, v, c, m.voters)
      BY <2>1, <2>3
    <3>2. \A h \in m.voters \cap Honest : Vote(h, v, c) \in net
      BY <2>3 DEF genuine, Vote
    <3>3. \E i \in DOMAIN Configs : Cardinality(m.voters) >= QuorumOf(i)
      BY <1>0, <1>6, NodeFacts DEF CommitFits
    <3> HIDE DEF v, c
    <3> QED BY <1>1, <1>2, <1>3, <1>4, <2>2, <3>1, <3>2, <3>3, FinalizeStep
  <2>4. CASE ~genuine(n, m)
    <3>1. pending' = [pending EXCEPT ![n][v] = c] /\ UNCHANGED <<votes, quorum, lastView, done, injected>>
      BY <2>1, <2>4
    <3>2. \/ pending[n][v] = NoCandidate /\ c.leaves # {}
          \/ pending[n][v] = c
      BY <1>6 DEF CommitFits, buildPendingAutoTransitionForCommit, validLeaves
    <3> HIDE DEF c
    <3>3. TypeOK'
      BY <1>0, <1>1, <1>2, <1>3, <1>4, <2>2, <3>1 DEF TypeOK
    <3>4. PendingStep
      BY <1>0, <1>1, <3>1, <3>2 DEF PendingStep, TypeOK
    <3> QED
      BY <1>0, <1>5, <3>1, <3>3, <3>4 DEF Step, VotesStep, QuorumStep, ViewStep, DoneStep, TypeOK
  <2> QED BY <2>3, <2>4
<1>7. CASE ~(m.from \in LSet(n) /\ CommitFits(n, m))
  <2>1. UNCHANGED <<reserved, pending, votes, quorum, lastView, done, injected>>
    BY <1>7 DEF handleAutoCommit
  <2>2. TypeOK'
    BY <1>0, <1>2, <1>3, <2>1 DEF TypeOK
  <2> QED BY <1>2, <2>1, <2>2, QuietStep DEF QuorumStep
<1> QED BY <1>6, <1>7

-----------------------------------------------------------------------------
(* The theorems.                                                           *)

\* Every step of the nodes is such a step.
LEMMA NextStep ==
    ASSUME IInv, Next
    PROVE  Step
<1>1. PICK n \in Honest :
         \/ \E leader \in Suspects :
               \/ MarkFault(n, leader)
               \/ \E view \in Views : TriggerAutoTransition(n, leader, view)
         \/ InstallCommittedConfiguration(n)
         \/ HandleAutoTransitionMessage(n)
  BY DEF Next
<1>2. ASSUME NEW m \in net \cup FaultyMessages, handleAutoPropose(n, m) PROVE Step
  BY <1>2, RefuseProposalStep, AcceptProposalStep DEF handleAutoPropose
<1> QED
  BY <1>1, <1>2, MarkFaultStep, TriggerStep, InstallStep, HandleAutoVoteStep, HandleAutoCommitStep
  DEF HandleAutoTransitionMessage

\* The invariant holds at the start: nobody has voted.
LEMMA InitInvariant == Init => IInv
<1> SUFFICES ASSUME Init PROVE IInv
  OBVIOUS
<1>1. TypeOK
  <2>1. 1 \in DOMAIN Configs /\ Configs[1].id \in Nat
    <3>1. 1 \in DOMAIN Configs
      BY HydraConstants, LenProperties
    <3> QED BY <3>1, ConfigFacts
  <2>2. NoCandidate \in Candidates
    BY DEF NoCandidate, Candidates
  <2> QED BY <2>1, <2>2, HydraConstants DEF Init, TypeOK
<1>2. VoteIsCandidate /\ OneVotePerView
  BY DEF Init, VoteIsCandidate, OneVotePerView, VotesIn
<1>3. NoVotesWithoutCandidate /\ CollectedVotesCast /\ QuorumOfSomeConfig
  BY DEF Init, NoVotesWithoutCandidate, CollectedVotesCast, QuorumOfSomeConfig
<1>4. ProofsGenuine
  BY DEF Init, ProofsGenuine
<1> QED
  BY <1>1, <1>2, <1>3, <1>4 DEF IInv

\* The invariant of auto-transition: a node votes for one candidate of a view, the
\* one it holds, and votes that are collected or handed over were cast.
THEOREM HydraInvariant == Spec => []IInv
<1>1. ASSUME IInv, UNCHANGED vars PROVE Step
  <2>1. TypeOK'
    BY <1>1 DEF IInv, vars, TypeOK
  <2> QED BY <1>1, <2>1, QuietStep DEF vars, QuorumStep
<1>2. IInv /\ [Next]_vars => IInv'
  BY <1>1, NextStep, StepKeepsInvariant
<1> QED
  BY <1>2, InitInvariant, PTL DEF Spec

\* The state of auto-transition is always well typed.
THEOREM HydraTypeCorrect == Spec => []TypeOK
<1>1. IInv => TypeOK
  BY DEF IInv
<1> QED
  BY <1>1, HydraInvariant, PTL

\* Finite sets of nodes have a cardinality.
LEMMA NodeSets ==
    ASSUME NEW A \in SUBSET Nodes
    PROVE  IsFiniteSet(A) /\ Cardinality(A) \in Nat
  BY HydraConstants, FS_Subset, FS_CardinalityType

\* Two parts of two sets of nodes that are large enough share an honest node.
LEMMA SharedHonestNode ==
    ASSUME NEW M \in SUBSET Nodes, NEW N \in SUBSET Nodes,
           NEW A \in SUBSET M, NEW B \in SUBSET N,
           Cardinality(A) + Cardinality(B) > Cardinality(M \cup N) + Cardinality(M \cap N \cap Faulty)
    PROVE  \E h \in Honest : h \in A /\ h \in B
<1> DEFINE F == M \cap N \cap Faulty
<1> SUFFICES ASSUME A \cap B \subseteq F PROVE FALSE
  BY DEF Honest
<1>1. IsFiniteSet(A) /\ IsFiniteSet(B) /\ IsFiniteSet(A \cup B) /\ IsFiniteSet(A \cap B)
      /\ IsFiniteSet(F) /\ IsFiniteSet(M \cup N)
  BY NodeSets
<1>2. Cardinality(A) \in Nat /\ Cardinality(B) \in Nat /\ Cardinality(A \cup B) \in Nat
      /\ Cardinality(A \cap B) \in Nat /\ Cardinality(F) \in Nat /\ Cardinality(M \cup N) \in Nat
  BY <1>1, FS_CardinalityType
<1>3. Cardinality(A \cup B) = Cardinality(A) + Cardinality(B) - Cardinality(A \cap B)
  BY <1>1, FS_Union
<1>4. Cardinality(A \cup B) <= Cardinality(M \cup N)
  <2>1. A \cup B \subseteq M \cup N
    OBVIOUS
  <2> QED BY <2>1, <1>1, FS_Subset
<1>5. Cardinality(A \cap B) <= Cardinality(F)
  BY <1>1, FS_Subset
<1> QED
  BY <1>2, <1>3, <1>4, <1>5

\* A quorum is a natural number.
LEMMA QuorumOfType ==
    ASSUME NEW i \in DOMAIN Configs
    PROVE  QuorumOf(i) \in Nat
<1> DEFINE e == Cardinality(Configs[i].members)
<1>1. e \in Nat
  BY ConfigFacts, NodeSets
<1> HIDE DEF e
<1>2. (2 * e) \div 3 + 1 \in Nat
  BY <1>1
<1> QED BY <1>2 DEF e, QuorumOf

\* Sets of voters that hold quorums that overlap share an honest node.
LEMMA QuorumsShareHonestNode ==
    ASSUME NEW s, NEW t, NEW i \in DOMAIN Configs, NEW j \in DOMAIN Configs,
           HoldsQuorum(s, i), HoldsQuorum(t, j), QuorumsOverlap(i, j)
    PROVE  s.voters \cap t.voters \cap Honest # {}
<1> DEFINE M == Configs[i].members
           N == Configs[j].members
           A == s.voters
           B == t.voters
           F == M \cap N \cap Faulty
<1>1. M \in SUBSET Nodes /\ N \in SUBSET Nodes
  BY ConfigFacts
<1>2. A \in SUBSET M /\ B \in SUBSET N /\ Cardinality(A) >= QuorumOf(i) /\ Cardinality(B) >= QuorumOf(j)
  BY DEF HoldsQuorum
<1>3. QuorumOf(i) + QuorumOf(j) > Cardinality(M \cup N) + Cardinality(F)
  BY DEF QuorumsOverlap
<1>4. QuorumOf(i) \in Nat /\ QuorumOf(j) \in Nat
  BY QuorumOfType
<1> HIDE DEF M, N, A, B
<1>5. /\ Cardinality(A) \in Nat /\ Cardinality(B) \in Nat
      /\ Cardinality(M \cup N) \in Nat /\ Cardinality(F) \in Nat
  BY <1>1, <1>2, NodeSets
<1>6. Cardinality(A) + Cardinality(B) > Cardinality(M \cup N) + Cardinality(F)
  <2> DEFINE a == Cardinality(A)
             b == Cardinality(B)
             k == Cardinality(M \cup N)
             f == Cardinality(F)
             x == QuorumOf(i)
             y == QuorumOf(j)
  <2>1. a \in Nat /\ b \in Nat /\ k \in Nat /\ f \in Nat /\ x \in Nat /\ y \in Nat
        /\ a >= x /\ b >= y /\ x + y > k + f
    BY <1>2, <1>3, <1>4, <1>5
  <2> HIDE DEF a, b, k, f, x, y
  <2>2. a + b > k + f
    BY <2>1
  <2> QED BY <2>2 DEF a, b, k, f
<1>7. \E h \in Honest : h \in A /\ h \in B
  BY <1>1, <1>2, <1>6, SharedHonestNode
<1> QED BY <1>7 DEF A, B

\* However votes, proposals and proofs mix and whichever configurations the nodes
\* count by, an honest node's vote counts for one transition of a view: nodes whose
\* quorums overlap hand over the same one, with votes that were cast.
THEOREM HydraOneTransitionPerView == Spec => []OneTransitionPerView
<1>1. ASSUME IInv, NEW s \in Transitions PROVE ProofIn(net, s)
  BY <1>1 DEF Transitions, IInv, ProofsGenuine
<1>2. ASSUME IInv, NEW s \in Transitions, NEW t \in Transitions, s.view = t.view,
             s.voters \cap t.voters \cap Honest # {}
      PROVE  SameTransition(s, t)
  <2>1. PICK h \in Honest : h \in s.voters /\ h \in t.voters
    BY <1>2
  <2> DEFINE x == Vote(h, s.view, s)
             y == Vote(h, t.view, t)
  <2>2. x \in VotesIn(net) /\ y \in VotesIn(net)
    BY <1>1, <1>2, <2>1 DEF ProofIn, VotesIn, Vote
  <2>3. x.from = h /\ y.from = h /\ x.view = s.view /\ y.view = t.view
        /\ x.id = s.id /\ y.id = t.id /\ x.leaves = s.leaves /\ y.leaves = t.leaves
    BY DEF Vote
  <2> HIDE DEF x, y
  <2>4. CandidateOf(x) = CandidateOf(y)
    BY <1>2, <2>2, <2>3 DEF IInv, OneVotePerView
  <2> QED BY <2>3, <2>4 DEF CandidateOf, SameTransition
<1>3. IInv => OneTransitionPerView
  <2> SUFFICES ASSUME IInv PROVE OneTransitionPerView
    OBVIOUS
  <2>1. ASSUME NEW s \in Transitions, NEW t \in Transitions, s.view = t.view,
               NEW i \in DOMAIN Configs, NEW j \in DOMAIN Configs,
               HoldsQuorum(s, i), HoldsQuorum(t, j), QuorumsOverlap(i, j)
        PROVE  SameTransition(s, t)
    BY <1>2, <2>1, QuorumsShareHonestNode
  <2>2. ASSUME NEW s \in Transitions
        PROVE  /\ \A h \in s.voters \cap Honest : Vote(h, s.view, s) \in net
               /\ \E i \in DOMAIN Configs : Cardinality(s.voters) >= QuorumOf(i)
    BY <1>1 DEF ProofIn
  <2> QED BY <1>2, <2>1, <2>2 DEF OneTransitionPerView, Vote
<1> QED
  BY <1>3, HydraInvariant, PTL

\* Where quorums overlap: in a configuration less than a third of which is faulty,
\* also with the configuration that lacks one of its members.  (The executor lets
\* several leave in one block, and then they need not.)
THEOREM HydraQuorumsOverlap ==
    ASSUME NEW i \in DOMAIN Configs, NEW j \in DOMAIN Configs,
           3 * Cardinality(Configs[i].members \cap Faulty) < Cardinality(Configs[i].members),
           \/ Configs[j].members = Configs[i].members
           \/ \E x \in Configs[i].members : Configs[j].members = Configs[i].members \ {x}
    PROVE  QuorumsOverlap(i, j) /\ QuorumsOverlap(j, i)
<1> DEFINE M == Configs[i].members
           N == Configs[j].members
           n == Cardinality(M)
           k == Cardinality(N)
           f == Cardinality(M \cap Faulty)
           g == Cardinality(M \cap N \cap Faulty)
<1>1. M \in SUBSET Nodes /\ N \subseteq M
  BY ConfigFacts
<1>2. IsFiniteSet(M) /\ IsFiniteSet(M \cap Faulty)
  BY <1>1, NodeSets
<1>3. k = n \/ k = n - 1
  <2>1. CASE N = M
    BY <2>1
  <2>2. ASSUME NEW x \in M, N = M \ {x} PROVE k = n - 1
    <3> HIDE DEF M, N
    <3> QED BY <1>2, <2>2, FS_RemoveElement
  <2> QED BY <2>1, <2>2
<1>4. n \in Nat /\ k \in Nat /\ f \in Nat /\ g \in Nat /\ 3 * f < n
  <2>1. N \in SUBSET Nodes /\ M \cap Faulty \in SUBSET Nodes /\ M \cap N \cap Faulty \in SUBSET Nodes
    BY <1>1
  <2> HIDE DEF M, N
  <2>2. n \in Nat /\ k \in Nat /\ f \in Nat /\ g \in Nat
    BY <1>1, <2>1, NodeSets
  <2> QED BY <2>2 DEF M
<1>5. g <= f
  <2>1. M \cap N \cap Faulty \subseteq M \cap Faulty
    OBVIOUS
  <2> HIDE DEF M, N
  <2> QED BY <1>2, <2>1, FS_Subset
<1>6. M \cup N = M /\ N \cup M = M /\ N \cap M \cap Faulty = M \cap N \cap Faulty
  BY <1>1
<1>7. (2 * n) \div 3 + 1 + ((2 * k) \div 3 + 1) > n + g
  <2> HIDE DEF n, k, f, g
  <2> QED BY <1>3, <1>4, <1>5
<1>8. QuorumOf(i) = (2 * n) \div 3 + 1 /\ QuorumOf(j) = (2 * k) \div 3 + 1
  BY DEF QuorumOf
<1>9. /\ QuorumsOverlap(i, j) <=> QuorumOf(i) + QuorumOf(j) > n + g
      /\ QuorumsOverlap(j, i) <=> QuorumOf(j) + QuorumOf(i) > n + g
  BY <1>6 DEF QuorumsOverlap
<1> HIDE DEF n, k, g
<1> QED BY <1>4, <1>7, <1>8, <1>9
=============================================================================
