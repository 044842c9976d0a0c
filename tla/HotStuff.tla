------------------------------ MODULE HotStuff ------------------------------
(***************************************************************************)
(* One consensus lane of the engine in consensus/hotstuff, between two     *)
(* epoch changes: engine.go with its pacemaker, block tree, vote           *)
(* collectors, view-change manager and leader reputation.                  *)
(*                                                                         *)
(* Every node runs one goroutine (runLoop), so each handler is one atomic  *)
(* action, ending with the tryPropose() the code ends it with.  Messages   *)
(* stay in sets once sent: they can arrive late, twice, out of order or    *)
(* never.  A node does not receive its own broadcasts                      *)
(* (network/libp2p/host.go).  Hashes are injective, so a block is known by *)
(* an identifier and `content` says what the hash stands for.  A message   *)
(* that is rejected without a change of state is simply not handled.       *)
(*                                                                         *)
(* Nodes in Faulty do whatever the signatures they hold allow: a faulty    *)
(* leader may propose several blocks in its view, faulty voters sign       *)
(* anything, and no honest signature is forged.                            *)
(***************************************************************************)
EXTENDS Naturals, Sequences, FiniteSets

CONSTANTS
    N,                       \* validators 1..N, one unit of power each
    Faulty,                  \* the faulty ones
    laneID,                  \* e.instanceID
    Tags,                    \* tells apart the blocks one leader makes in a view
    GCLag,                   \* gcViewLag (10 in the code)
    MinSamples,              \* reputation: samples before a verdict (3)
    MaxConsecutiveTimeouts,  \* reputation: timeouts in a row of a crashed leader (5)
    VoteFallback,            \* votes may fall back to broadcast when unicast fails
    PublishFails,            \* PublishTopic may return an error for a proposal
    NoBlock, Unborn,
    MaxCerts,                \* bound: certificates each mempool hands over
    Suppliers,               \* bound: nodes whose mempool hands over any
    FaultyViews,             \* bound: views faulty nodes send timeouts and NewViews for
    FaultyPayloads,          \* bound: payloads of a faulty leader's blocks
    MaxView,                 \* bound: proposals and timeouts stop after this view
    MaxHeight,               \* bound: heights a faulty leader picks
    TimeoutViews,            \* bound: views in which honest timers fire
    MaxPenalties             \* bound: equivocations counted against one leader

ASSUME HotStuffConstants ==
    /\ N \in Nat /\ N > 1
    /\ Faulty \subseteq 1..N /\ 3 * Cardinality(Faulty) < N
    /\ laneID \in Nat
    /\ 0 \in Tags
    /\ GCLag \in Nat \ {0}
    /\ MinSamples \in Nat \ {0} /\ MaxConsecutiveTimeouts \in Nat \ {0}
    /\ VoteFallback \in BOOLEAN /\ PublishFails \in BOOLEAN
    /\ MaxCerts \in Nat /\ Suppliers \subseteq 1..N
    /\ FaultyViews \subseteq 1..MaxView
    /\ FaultyPayloads \subseteq SUBSET (1..MaxCerts)
    /\ MaxView \in Nat /\ MaxHeight \in Nat
    /\ TimeoutViews \subseteq 1..MaxView /\ MaxPenalties \in Nat

Nodes == 1..N
Honest == Nodes \ Faulty
Views == 1..MaxView
Certs == 1..MaxCerts       \* a mempool's vertex certificates, in order

Quorum == (2 * N) \div 3 + 1               \* ValidatorSet.QuorumSize
fastPathThreshold == (N * 9) \div 10       \* SetFastPathThreshold

GetLeader(v) == ((v - 1 + laneID) % N) + 1

BlockIds == [view : Views, leader : Nodes, tag : Tags]

\* A quorum certificate: the block it certifies and NumSignatures.
QCs == [block : BlockIds \cup {NoBlock}, num : 0..N]
GenesisQC == [block |-> NoBlock, num |-> 0]
NilQC == [block |-> NoBlock, num |-> 1]      \* a HighestQC field left nil

ASSUME NoBlockIsNoId == NoBlock \notin BlockIds

QCView(qc) == IF qc.block = NoBlock THEN 0 ELSE qc.block.view

Blocks == [height : Nat, justify : QCs, parent : BlockIds \cup {NoBlock},
           payload : SUBSET Certs]

ASSUME UnbornIsNoBlock == Unborn \notin Blocks

VARIABLES
    content,     \* what each block identifier stands for, Unborn before it is made
    votes,       \* votes sent to leaders: [block, voter]
    timeouts,    \* timeout votes broadcast: [view, voter, highQC]
    newViews,    \* NewView messages broadcast: [view, from, highQC]
    node         \* the state of each honest node's engine

vars == <<content, votes, timeouts, newViews, node>>

NoTC == [voters |-> {}, highQC |-> NilQC]
NoRecord == [ok |-> 0, failed |-> 0, run |-> 0]

InitNode == [
    view             |-> 1,          \* pacemaker.currentView
    lastProposedView |-> 0,
    seen             |-> {},         \* seenProposals
    store            |-> {},         \* storage
    highQC           |-> GenesisQC,
    lockedQC         |-> GenesisQC,
    commitQC         |-> GenesisQC,
    collected        |-> [b \in BlockIds |-> {}],    \* voteCollectors: signers
    tcs              |-> [v \in Views |-> NoTC],     \* vcm.collectors
    pendingCerts     |-> {},
    supplied         |-> 0,          \* how many certificates the mempool handed over
    committed        |-> <<>>,       \* blocks sent on outputChan
    rep              |-> [l \in Nodes |-> NoRecord]] \* LeaderReputation

Init ==
    /\ content = [b \in BlockIds |-> Unborn]
    /\ votes = {} /\ timeouts = {} /\ newViews = {}
    /\ node = [n \in Honest |-> InitNode]

Born == {b \in BlockIds : content[b] # Unborn}

-----------------------------------------------------------------------------
(* Signatures *)

\* Who has signed a block: the voters, its proposer (who votes for it when it
\* proposes it), and the faulty nodes, who sign anything.
Signers(b) == {v.voter : v \in {w \in votes : w.block = b}} \cup {b.leader} \cup Faulty

\* verifyQC: at least a quorum of valid signatures.
verifyQC(qc) ==
    /\ qc.block # NoBlock
    /\ qc.block \in Born
    /\ qc.num >= Quorum
    /\ qc.num <= Cardinality(Signers(qc.block))

-----------------------------------------------------------------------------
(* Pacemaker, reputation *)

\* Mutant: a view's own certificate does not end it.
AdvancePast(s, v) == IF v > s.view THEN [s EXCEPT !.view = v + 1] ELSE s

AdvanceView(s, v) == IF v >= s.view THEN [s EXCEPT !.view = v + 1] ELSE s

RecordTimeout(s, l) ==
    [s EXCEPT !.rep[l] = [ok |-> @.ok, failed |-> @.failed + 1, run |-> @.run + 1]]

RecordCommit(s, l, payload) ==
    [s EXCEPT !.rep[l] = IF payload = {}
                         THEN [ok |-> @.ok, failed |-> @.failed + 1, run |-> @.run]
                         ELSE [ok |-> @.ok + 1, failed |-> @.failed, run |-> 0]]

IsStraggler(s, l) ==
    LET r == s.rep[l] IN
    /\ r.ok + r.failed >= MinSamples
    /\ 2 * r.failed > r.ok + r.failed

IsCrashed(s, l) == s.rep[l].run >= MaxConsecutiveTimeouts

\* The first validator after the primary that is no straggler, else the one
\* with the lowest failure rate.
SelectFallbackLeader(s, l) ==
    LET After(o) == ((l - 1 + o) % N) + 1
        Better(o, p) == LET r == s.rep[After(o)] q == s.rep[After(p)] IN
                        \/ r.failed * (q.ok + q.failed) < q.failed * (r.ok + r.failed)
                        \/ /\ r.failed * (q.ok + q.failed) = q.failed * (r.ok + r.failed)
                           /\ o <= p
        healthy == {o \in 1..(N - 1) : ~IsStraggler(s, After(o))}
    IN  After(IF healthy # {}
              THEN CHOOSE o \in healthy : \A p \in healthy : o <= p
              ELSE CHOOSE o \in 1..(N - 1) : \A p \in 1..(N - 1) : Better(o, p))

-----------------------------------------------------------------------------
(* Block tree *)

\* gcVoteCollectors
GC(s) ==
    IF s.view <= GCLag THEN s
    ELSE LET threshold == s.view - GCLag IN
         [s EXCEPT
            !.collected = [b \in BlockIds |->
                             IF Cardinality(@[b]) >= Quorum \/ b.view < threshold
                             THEN {} ELSE @[b]],
            !.seen = {b \in @ : b.view >= threshold},
            !.tcs = [v \in Views |-> IF v < threshold THEN NoTC ELSE @[v]]]

\* commit and onBlockCommitted
Commit(C, s, qc) ==
    GC(RecordCommit([s EXCEPT !.commitQC = qc, !.committed = Append(@, qc.block)],
                    qc.block.leader, C[qc.block].payload))

\* The stored block that b's justify certifies, if any.
Justified(C, s, b) == IF C[b].justify.block \in s.store THEN C[b].justify.block ELSE NoBlock

\* lockCandidate, commitCandidate and the 2-chain rule with its threshold.
Locks(s, generic, locked) ==
    /\ locked # NoBlock
    /\ generic.view > locked.view
    /\ locked.view > QCView(s.lockedQC)

\* Mutant: the fast path does not look at what is committed already.
FastCommitsAgain(C, s, b, locked) ==
    /\ locked # NoBlock
    /\ C[b].justify.num >= fastPathThreshold

FastCommits(C, s, b, locked) ==
    /\ locked # NoBlock
    /\ fastPathThreshold > 0
    /\ C[b].justify.num >= fastPathThreshold
    /\ locked.view > QCView(s.commitQC)

ChainCommits(s, locked, deep) ==
    /\ deep # NoBlock
    /\ locked.view > deep.view
    /\ deep.view > QCView(s.commitQC)

ProcessBlock(C, s, b) ==
    LET stored == [s EXCEPT !.store = @ \cup {b},
                            !.highQC = IF QCView(C[b].justify) > QCView(@)
                                       THEN C[b].justify ELSE @]
        generic == Justified(C, stored, b)
        locked == IF generic = NoBlock THEN NoBlock ELSE Justified(C, stored, generic)
        deep == IF locked = NoBlock THEN NoBlock ELSE Justified(C, stored, locked)
        withLock == IF Locks(s, generic, locked)
                    THEN [stored EXCEPT !.lockedQC = C[generic].justify]
                    ELSE stored
    IN  IF FastCommits(C, s, b, locked) THEN Commit(C, withLock, C[generic].justify)
        ELSE IF ChainCommits(s, locked, deep) THEN Commit(C, withLock, C[locked].justify)
        ELSE withLock

\* What extendsLockedBlock visits: the parents of b, as far as they are stored.
Ancestors(C, s, b) ==
    LET up[k \in 0..Cardinality(s.store)] ==
            IF k = 0 THEN {C[b].parent}
            ELSE up[k - 1] \cup {C[a].parent : a \in up[k - 1] \cap s.store}
    IN  up[Cardinality(s.store)]

SafeNode(C, s, b) ==
    \/ QCView(C[b].justify) > QCView(s.lockedQC)
    \/ s.lockedQC.block = NoBlock
    \/ C[b].justify.block = s.lockedQC.block
    \/ s.lockedQC.block \in Ancestors(C, s, b)

OnVoteQC(s, qc) == [s EXCEPT !.highQC = IF QCView(qc) > QCView(@) THEN qc ELSE @]

\* rankState.highestLocal: the greatest height committed.
Committed(s) == {s.committed[i] : i \in 1..Len(s.committed)}
AboveCommitted(C, s, h) == \A b \in Committed(s) : h > C[b].height

-----------------------------------------------------------------------------
(* Proposing *)

NextHeight(C, s) ==
    IF s.store = {} THEN 1
    ELSE LET top == CHOOSE b \in s.store : \A a \in s.store : C[a].height <= C[b].height
         IN  C[top].height + 1

OwnId(n, s) == [view |-> s.view, leader |-> n, tag |-> 0]

OwnBlock(s) == [height |-> NextHeight(content, s), justify |-> s.highQC,
                parent |-> s.highQC.block, payload |-> s.pendingCerts]

\* proposeBlock: at most one block per view; the certificates handed to it are
\* gone from the buffer whatever happens to the block.  The proposer stores its
\* block and counts its own vote, without the checks other nodes make.
proposeBlock(n, s) ==
    LET taken == [s EXCEPT !.pendingCerts = {}]
        marked == [taken EXCEPT !.lastProposedView = s.view]
        id == OwnId(n, s)
        C == [content EXCEPT ![id] = OwnBlock(s)]
        processed == ProcessBlock(C, marked, id)
    IN  \/ /\ s.view <= s.lastProposedView
           /\ node' = [node EXCEPT ![n] = taken]
           /\ UNCHANGED content
        \/ /\ s.view > s.lastProposedView
           /\ s.view <= MaxView
           /\ content' = C
           /\ node' = [node EXCEPT ![n] = [processed EXCEPT !.collected[id] = @ \cup {n}]]
        \/ /\ s.view > s.lastProposedView
           /\ PublishFails \/ s.view > MaxView
           /\ node' = [node EXCEPT ![n] = marked]
           /\ UNCHANGED content

EffectiveLeader(s) ==
    LET l == GetLeader(s.view) IN
    IF IsStraggler(s, l) \/ IsCrashed(s, l) THEN SelectFallbackLeader(s, l) ELSE l

\* The trailing tryPropose of a handler that leaves node n in state s.
tryPropose(n, s) ==
    IF EffectiveLeader(s) = n /\ s.pendingCerts # {}
    THEN proposeBlock(n, s)
    ELSE node' = [node EXCEPT ![n] = s] /\ UNCHANGED content

\* The mempool hands over its next certificate.
handleMempoolProposal(n) ==
    LET c == node[n].supplied + 1
        s == [node[n] EXCEPT !.pendingCerts = @ \cup {c}, !.supplied = c]
    IN
    /\ c \in Certs
    /\ IF GetLeader(s.view) = n \/ EffectiveLeader(s) = n
       THEN proposeBlock(n, s)
       ELSE node' = [node EXCEPT ![n] = s] /\ UNCHANGED content
    /\ UNCHANGED <<votes, timeouts, newViews>>

-----------------------------------------------------------------------------
(* Handling a proposal *)

validateProposalConstraint(s, b) ==
    LET j == content[b].justify IN
    /\ s.view > 1 => b.view + 1 >= s.view
    /\ b.view <= s.view + 1
    /\ b.leader = GetLeader(b.view)
    /\ QCView(j) < b.view
    /\ j.block # NoBlock => content[b].parent = j.block

\* Mutant: the justify certificate is taken on faith.
JustifyTrusted(b) == TRUE

JustifyVerified(b) ==
    b.view > 1 /\ QCView(content[b].justify) > 0 => verifyQC(content[b].justify)

Admissible(n, b) ==
    /\ b \in Born
    /\ b.leader # n
    /\ validateProposalConstraint(node[n], b)
    /\ JustifyVerified(b)
    /\ b \notin node[n].store
    /\ AboveCommitted(content, node[n], content[b].height)

\* Mutant: proposals are told apart by their hash alone.
SeenHash(s, b) == b \in s.seen

SeenView(s, b) == \E x \in s.seen : x.view = b.view /\ x.leader = b.leader

\* A second proposal in a view is an equivocation (a repeat of the first one is
\* ignored) and counts against the leader.
handleEquivocation(n, b) ==
    /\ Admissible(n, b)
    /\ SeenView(node[n], b)
    /\ b \notin node[n].seen
    /\ node[n].rep[b.leader].failed < MaxPenalties
    /\ node' = [node EXCEPT ![n] = RecordTimeout(node[n], b.leader)]
    /\ UNCHANGED <<content, votes, timeouts, newViews>>

Noted(n, b) == [node[n] EXCEPT !.seen = @ \cup {b}]

\* A block that SafeNode refuses is noted as seen all the same.
handleProposal(n, b) ==
    /\ Admissible(n, b)
    /\ ~SeenView(node[n], b)
    /\ IF SafeNode(content, node[n], b)
       THEN /\ votes' = votes \cup {[block |-> b, voter |-> n]}
            /\ tryPropose(n, AdvanceView(ProcessBlock(content, Noted(n, b), b), b.view))
       ELSE /\ node' = [node EXCEPT ![n] = Noted(n, b)]
            /\ UNCHANGED <<content, votes>>
    /\ UNCHANGED <<timeouts, newViews>>

-----------------------------------------------------------------------------
(* Votes *)

VoteReaches(n, b, w) ==
    /\ b \in Born
    /\ w # n
    /\ w \in Faulty \/ [block |-> b, voter |-> w] \in votes
    /\ n = b.leader \/ VoteFallback

handleVote(n, b, w) ==
    LET s == node[n]
        signers == s.collected[b] \cup {w}
        counted == [s EXCEPT !.collected[b] = signers]
        qc == [block |-> b, num |-> Cardinality(signers)]
    IN  /\ VoteReaches(n, b, w)
        /\ b.view = s.view \/ b.view + 1 = s.view
        /\ Cardinality(s.collected[b]) < Quorum         \* not done
        /\ w \notin s.collected[b]
        /\ IF Cardinality(signers) >= Quorum /\ verifyQC(qc)
           THEN tryPropose(n, AdvanceView(OnVoteQC(counted, qc), b.view))
           ELSE node' = [node EXCEPT ![n] = counted] /\ UNCHANGED content
        /\ UNCHANGED <<votes, timeouts, newViews>>

-----------------------------------------------------------------------------
(* Timeouts *)

\* vcm.HandleTimeoutVote, when the collector of the view is not done.
AddTimeoutVote(s, tv) ==
    [s EXCEPT !.tcs[tv.view] =
        IF tv.voter \in @.voters \/ Cardinality(@.voters) >= Quorum THEN @
        ELSE [voters |-> @.voters \cup {tv.voter},
              highQC |-> IF @.highQC = NilQC \/ QCView(tv.highQC) > QCView(@.highQC)
                         THEN tv.highQC ELSE @.highQC]]

\* Mutant: the view is left before the timeout vote is made out.
TimeoutTooLate(n) ==
    LET s == node[n] IN
    /\ s.view \in TimeoutViews
    /\ timeouts' = timeouts \cup {[view |-> s.view + 1, voter |-> n, highQC |-> s.highQC]}
    /\ tryPropose(n, AdvanceView(RecordTimeout(s, GetLeader(s.view)), s.view))
    /\ UNCHANGED <<votes, newViews>>

broadcastTimeoutVote(n, s) == [view |-> s.view, voter |-> n, highQC |-> s.highQC]

\* The timer case of runLoop.  A TC that the node's own vote completes is
\* returned to broadcastTimeoutVote, which discards it.
Timeout(n) ==
    LET s == node[n]
        tv == broadcastTimeoutVote(n, s)
    IN  /\ s.view \in TimeoutViews
        /\ timeouts' = timeouts \cup {tv}
        /\ tryPropose(n, AdvanceView(AddTimeoutVote(RecordTimeout(s, GetLeader(s.view)), tv),
                                     s.view))
        /\ UNCHANGED <<votes, newViews>>

\* Mutant: the voter's certificate is taken on faith.
TimeoutVoteTrusted(s, tv) == tv.view = s.view

TimeoutVoteValid(s, tv) ==
    /\ tv.view = s.view
    /\ QCView(tv.highQC) <= tv.view
    /\ tv.highQC # NilQC => verifyQC(tv.highQC)

handleTimeoutVote(n, tv) ==
    LET s == node[n]
        counted == AddTimeoutVote(s, tv)
        tc == counted.tcs[tv.view]
    IN  /\ tv.voter # n
        /\ TimeoutVoteValid(s, tv)
        /\ counted # s
        /\ IF Cardinality(tc.voters) >= Quorum
           THEN /\ newViews' = newViews \cup
                       {[view |-> tv.view, from |-> n, highQC |-> tc.highQC]}
                /\ tryPropose(n, AdvanceView(counted, tv.view))
           ELSE /\ node' = [node EXCEPT ![n] = counted]
                /\ UNCHANGED <<content, newViews>>
        /\ UNCHANGED <<votes, timeouts>>

handleNewView(n, nv) ==
    LET s == node[n]
        merged == OnVoteQC(s, nv.highQC)
    IN  /\ nv.from # n
        /\ QCView(nv.highQC) <= nv.view
        /\ nv.highQC # NilQC => verifyQC(nv.highQC)
        /\ IF nv.view + 1 <= s.view
           THEN /\ merged # s
                /\ node' = [node EXCEPT ![n] = merged]
                /\ UNCHANGED content
           ELSE tryPropose(n, AdvanceView(merged, nv.view))
        /\ UNCHANGED <<votes, timeouts, newViews>>

-----------------------------------------------------------------------------
(* Faulty nodes *)

\* What a faulty node may put in a certificate field: whether a quorum really
\* signed is for verifyQC to find out.
ClaimedQCs == {GenesisQC} \cup [block : Born, num : {Quorum}]

\* A proposal that breaks validateProposalConstraint is rejected by everyone.
FaultyIds == {b \in BlockIds : b.leader \in Faulty /\ b.leader = GetLeader(b.view)}

FaultyPropose(b, blk) ==
    /\ content[b] = Unborn
    /\ QCView(blk.justify) < b.view
    /\ blk.justify.block # NoBlock => blk.parent = blk.justify.block
    /\ content' = [content EXCEPT ![b] = blk]
    /\ UNCHANGED <<votes, timeouts, newViews, node>>

FaultyBlocks == [height : 1..MaxHeight, justify : ClaimedQCs,
                 parent : Born \cup {NoBlock}, payload : FaultyPayloads]

\* The timeout votes and NewViews a faulty node can send now.  A NewView carries
\* a TC that a quorum signed, with any HighestQC (the signatures do not cover
\* it), or nothing but a QC of the view before.  A timeout vote without a HighestQC
\* does no more than one with the lowest certificate: F + 1 nodes are no quorum, so
\* a TC holds an honest voter's certificate as well.
FaultyTimeouts == [view : FaultyViews, voter : Faulty, highQC : ClaimedQCs]

TimedOut(v) == {tv.voter : tv \in {t \in timeouts : t.view = v}} \cup Faulty

FaultyNewViews ==
    {nv \in [view : FaultyViews, from : Faulty, highQC : ClaimedQCs \cup {NilQC}] :
        \/ Cardinality(TimedOut(nv.view)) >= Quorum
        \/ nv.highQC.block # NoBlock /\ QCView(nv.highQC) = nv.view}

-----------------------------------------------------------------------------
(* The lane *)

Mempool == \E n \in Suppliers \ Faulty : handleMempoolProposal(n)
Proposal == \E n \in Honest, b \in Born :
    handleProposal(n, b) \/ handleEquivocation(n, b)
Vote == \E n \in Honest, b \in Born, w \in Nodes : handleVote(n, b, w)
Timer == \E n \in Honest : Timeout(n)
TimeoutVote == \E n \in Honest, tv \in timeouts \cup FaultyTimeouts : handleTimeoutVote(n, tv)
Faults == \E b \in FaultyIds : \E blk \in FaultyBlocks : FaultyPropose(b, blk)
NewView == \E n \in Honest, nv \in newViews \cup FaultyNewViews : handleNewView(n, nv)

Next == Mempool \/ Proposal \/ Vote \/ Timer \/ TimeoutVote \/ NewView \/ Faults

Spec == Init /\ [][Next]_vars

-----------------------------------------------------------------------------
(* Properties *)

Votes == [block : BlockIds, voter : Honest]

NodeStates == [
    view : Nat, lastProposedView : Nat,
    seen : SUBSET BlockIds, store : SUBSET BlockIds,
    highQC : QCs, lockedQC : QCs, commitQC : QCs,
    collected : [BlockIds -> SUBSET Nodes],
    tcs : [Views -> [voters : SUBSET Nodes, highQC : QCs]],
    pendingCerts : SUBSET Certs, supplied : Nat,
    committed : Seq(BlockIds),
    rep : [Nodes -> [ok : Nat, failed : Nat, run : Nat]]]

TypeOK ==
    /\ content \in [BlockIds -> Blocks \cup {Unborn}]
    /\ votes \subseteq Votes
    /\ timeouts \subseteq [view : Views, voter : Honest, highQC : QCs]
    /\ newViews \subseteq [view : Views, from : Honest, highQC : QCs]
    /\ node \in [Honest -> NodeStates]

Certified(b) == Cardinality(Signers(b)) >= Quorum

\* Quorum intersection and the one-vote-per-view rule of handleProposal: no two
\* blocks of one view ever gather enough signatures for a certificate, although
\* a leader may equivocate, a fallback leader may propose next to the leader, and
\* a node may sign its own fallback block and then vote for the leader's.
OneCertifiedBlockPerView ==
    \A a, b \in Born : a.view = b.view /\ Certified(a) /\ Certified(b) => a = b

\* Every certificate an honest engine acts on was signed by a quorum, whichever
\* block or message it came with.
CertificatesAreReal ==
    \A n \in Honest : \A qc \in {node[n].highQC, node[n].lockedQC, node[n].commitQC} :
        qc = GenesisQC \/ (qc.block \in Born /\ Certified(qc.block))

\* The chain state keeps its order: committed, then locked, then highest QC, all
\* of views the node has left.
ChainStateOrdered ==
    \A n \in Honest :
        /\ QCView(node[n].commitQC) <= QCView(node[n].lockedQC)
        /\ QCView(node[n].lockedQC) <= QCView(node[n].highQC)
        /\ QCView(node[n].highQC) < node[n].view

\* A node outputs blocks in increasing view order, so never one twice, and each
\* of them is certified and stored.
CommitsIncrease ==
    \A n \in Honest : LET c == node[n].committed IN
        /\ \A i, j \in 1..Len(c) : i < j => c[i].view < c[j].view
        /\ \A i \in 1..Len(c) : c[i] \in node[n].store /\ Certified(c[i])

\* A NewView an honest node broadcasts stands for a quorum that timed out and
\* carries a certificate its peers accept, no lower than that of any honest voter
\* it counted: no node stays behind because the TC it is sent is rejected.
NewViewsAreAccepted ==
    \A nv \in newViews :
        /\ Cardinality(TimedOut(nv.view)) >= Quorum
        /\ nv.highQC.block \in Born
        /\ Certified(nv.highQC.block) /\ QCView(nv.highQC) <= nv.view
        /\ \A tv \in timeouts :
              tv.view = nv.view /\ tv.voter \in node[nv.from].tcs[nv.view].voters
                 => QCView(tv.highQC) <= QCView(nv.highQC)

-----------------------------------------------------------------------------
(* What the repository says of the lane and the code does not do *)

\* "No two honest nodes commit conflicting blocks at the same height"
\* (README.md:236).
SameHeightAgreement ==
    \A m, n \in Honest : \A a \in Committed(node[m]), b \in Committed(node[n]) :
        content[a].height = content[b].height => a = b
=============================================================================
