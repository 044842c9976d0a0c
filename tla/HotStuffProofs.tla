--------------------------- MODULE HotStuffProofs ---------------------------
(***************************************************************************)
(* What one lane guarantees, for every number of validators with fewer     *)
(* than a third of them faulty, whatever leaders, faults, timeouts,        *)
(* reputation verdicts and garbage collection do.                          *)
(*                                                                         *)
(* One certified block per view (IInv).  An honest node never votes twice  *)
(* in a view: once it has voted, either it still remembers the proposal or *)
(* it has moved so far that proposals of that view are rejected.  GC keeps *)
(* that true because it drops seen proposals only of views at least        *)
(* GCLag + 1 behind.  The rest is quorum intersection.                     *)
(*                                                                         *)
(* The chain state and the timeouts (LaneInv).  Certificates are only      *)
(* compared by their view, so the argument carries, next to the order of   *)
(* commitQC, lockedQC and highQC, that every stored block is justified by  *)
(* a real certificate of an earlier view, that what was output lies below  *)
(* commitQC, and that a timeout collector holds the highest certificate of *)
(* the honest voters in it.  Each handler is one lemma (...Move): from a   *)
(* good state it moves the node to a good state and creates only good      *)
(* blocks.                                                                 *)
(***************************************************************************)
EXTENDS HotStuff, FiniteSetTheorems, WellFoundedInduction, TLAPS

Fields == DOMAIN InitNode

\* The parts of an engine's state the argument looks at.
Shape(s) ==
    /\ DOMAIN s = Fields
    /\ s.view \in Nat
    /\ s.seen \subseteq BlockIds

\* What every handler does to a node: views grow, and a seen proposal is forgotten
\* only when its view is over by more than one.
Follows(s, t) ==
    /\ Shape(t)
    /\ s.view <= t.view
    /\ \A b \in s.seen : b \in t.seen \/ b.view + 1 < t.view

StateShape ==
    /\ DOMAIN content = BlockIds
    /\ DOMAIN node = Honest
    /\ votes \subseteq Votes
    /\ \A n \in Honest : Shape(node[n])

\* Honest proposers make one block a view.
OwnBlocksAreUnique ==
    \A b \in Born : b.leader \in Honest => b.tag = 0

VotesAreForLeaders ==
    \A v \in votes : v.block.leader = GetLeader(v.block.view)

\* The vote is for a view the node has left, and the node remembers the block or
\* is too far ahead to take another of its view.
Remembered(v, s) ==
    /\ v.block.view < s.view
    /\ v.block \in s.seen \/ v.block.view + 1 < s.view

VotesAreRemembered ==
    \A v \in votes : Remembered(v, node[v.voter])

OneVotePerView ==
    \A v, w \in votes : v.voter = w.voter /\ v.block.view = w.block.view => v.block = w.block

VoteInv ==
    /\ StateShape
    /\ OwnBlocksAreUnique
    /\ VotesAreForLeaders
    /\ VotesAreRemembered
    /\ OneVotePerView

NewViewsHaveViews == \A nv \in newViews : nv.view \in Nat

\* The inductive invariant.
IInv == VoteInv /\ NewViewsHaveViews

-----------------------------------------------------------------------------
(* Quorums.                                                                *)

\* There are N validators, and finitely many faulty ones.
LEMMA NodesFinite ==
    IsFiniteSet(Nodes) /\ Cardinality(Nodes) = N /\ IsFiniteSet(Faulty) /\ Cardinality(Faulty) \in Nat
<1>1. IsFiniteSet(Nodes) /\ Cardinality(Nodes) = N
  BY FS_Interval, HotStuffConstants DEF Nodes
<1>2. IsFiniteSet(Faulty)
  BY <1>1, FS_Subset, HotStuffConstants DEF Nodes
<1> QED
  BY <1>1, <1>2, FS_CardinalityType

\* Two quorums share an honest node.
LEMMA QuorumsShareHonest ==
    ASSUME NEW A \in SUBSET Nodes, NEW B \in SUBSET Nodes,
           Cardinality(A) >= Quorum, Cardinality(B) >= Quorum
    PROVE  \E x \in A \cap B : x \notin Faulty
<1> SUFFICES ASSUME A \cap B \subseteq Faulty PROVE FALSE
  OBVIOUS
<1>1. IsFiniteSet(A) /\ IsFiniteSet(B) /\ IsFiniteSet(A \cup B) /\ IsFiniteSet(A \cap B)
  BY NodesFinite, FS_Subset, FS_Union, FS_Intersection
<1>2. Cardinality(A) \in Nat /\ Cardinality(B) \in Nat /\ Cardinality(A \cup B) \in Nat
      /\ Cardinality(A \cap B) \in Nat
  BY <1>1, FS_CardinalityType
<1>3. Cardinality(A \cup B) = Cardinality(A) + Cardinality(B) - Cardinality(A \cap B)
  BY <1>1, FS_Union
<1>4. Cardinality(A \cup B) <= N
  <2>1. A \cup B \subseteq Nodes OBVIOUS
  <2> QED BY <2>1, NodesFinite, FS_Subset
<1>5. Cardinality(A \cap B) <= Cardinality(Faulty)
  BY NodesFinite, FS_Subset
<1>6. 3 * Cardinality(Faulty) < N /\ N \in Nat /\ Cardinality(Faulty) \in Nat
  BY HotStuffConstants, NodesFinite
<1>7. Quorum \in Nat /\ 3 * Quorum > 2 * N
  BY <1>6 DEF Quorum
<1> QED
  BY <1>2, <1>3, <1>4, <1>5, <1>6, <1>7

\* The faulty nodes and one more are no quorum.
LEMMA FaultyAndOneAreTooFew ==
    ASSUME NEW l \in Nodes
    PROVE  ~(Cardinality(Faulty \cup {l}) >= Quorum)
<1> DEFINE c == Cardinality(Faulty \cup {l})
           f == Cardinality(Faulty)
<1>1. IsFiniteSet(Faulty) /\ f \in Nat
  BY NodesFinite
<1>2. c = f \/ c = f + 1
  BY <1>1, FS_AddElement
<1>3. 3 * f < N /\ N \in Nat /\ N > 1
  BY HotStuffConstants
<1>4. Quorum \in Nat /\ 3 * Quorum > 2 * N
  BY <1>3 DEF Quorum
<1> HIDE DEF c, f
<1>5. ~(c >= Quorum)
  BY <1>1, <1>2, <1>3, <1>4
<1> QED
  BY <1>5 DEF c

-----------------------------------------------------------------------------
(* The invariant gives the property.                                       *)

\* A block with a quorum is the leader's, so two certified blocks of a view come
\* from one leader; an honest leader makes one, and a faulty one's two quorums share
\* an honest voter, who votes once.
LEMMA VoteInvGivesOneCertifiedBlock ==
    VoteInv => OneCertifiedBlockPerView
<1> SUFFICES ASSUME VoteInv,
                    NEW a \in Born, NEW b \in Born,
                    a.view = b.view, Certified(a), Certified(b)
             PROVE  a = b
  BY DEF OneCertifiedBlockPerView
<1> DEFINE voters(x) == {v.voter : v \in {w \in votes : w.block = x}}
<1>0. a \in BlockIds /\ b \in BlockIds /\ a.leader \in Nodes /\ b.leader \in Nodes
  BY DEF Born, BlockIds
<1>1. \A x \in BlockIds : Signers(x) \subseteq Nodes
  BY HotStuffConstants DEF VoteInv, StateShape, Votes, Signers, Nodes, Honest, BlockIds
<1>2. ASSUME NEW x \in BlockIds, Certified(x) PROVE x.leader = GetLeader(x.view)
  <2>1. CASE voters(x) = {}
    <3>1. Signers(x) = Faulty \cup {x.leader} /\ x.leader \in Nodes
      BY <2>1 DEF Signers, BlockIds
    <3> QED BY <3>1, <1>2, FaultyAndOneAreTooFew DEF Certified
  <2>2. CASE voters(x) # {}
    <3>1. PICK v \in votes : v.block = x
      BY <2>2
    <3> QED BY <3>1 DEF VoteInv, VotesAreForLeaders
  <2> QED BY <2>1, <2>2
<1>3. a.leader = b.leader
  BY <1>0, <1>2
<1>4. CASE a.leader \in Honest
  <2>1. a.tag = 0 /\ b.tag = 0
    BY <1>3, <1>4 DEF VoteInv, OwnBlocksAreUnique
  <2> QED BY <2>1, <1>0, <1>3 DEF BlockIds
<1>5. CASE a.leader \notin Honest
  <2>1. PICK x \in Signers(a) \cap Signers(b) : x \notin Faulty
    BY <1>0, <1>1, QuorumsShareHonest DEF Certified
  <2>2. x # a.leader /\ x # b.leader
    BY <2>1, <1>0, <1>3, <1>5 DEF Honest
  <2>3. (\E v \in votes : v.block = a /\ v.voter = x) /\ (\E w \in votes : w.block = b /\ w.voter = x)
    BY <2>1, <2>2 DEF Signers
  <2> QED BY <2>3 DEF VoteInv, OneVotePerView
<1> QED BY <1>4, <1>5

-----------------------------------------------------------------------------
(* What the operations on a node's state keep.                             *)

\* The two fields the argument is about.
LEMMA ViewAndSeenAreFields == "view" \in Fields /\ "seen" \in Fields
  BY DEF Fields, InitNode

\* A change of other fields of the engine.
LEMMA SameViewAndSeen ==
    ASSUME NEW s, NEW t, Shape(s),
           DOMAIN t = DOMAIN s, t.view = s.view, t.seen = s.seen
    PROVE  Follows(s, t)
  BY DEF Shape, Follows

\* Follows composes, as the calls inside a handler do.
LEMMA FollowsTransitive ==
    ASSUME NEW s, NEW t, NEW u, Shape(s), Follows(s, t), Follows(t, u)
    PROVE  Follows(s, u)
<1>1. \A b \in s.seen : b.view \in Nat
  BY DEF Shape, BlockIds, Views
<1> QED
  BY <1>1 DEF Shape, Follows

\* Pacemaker.AdvanceView goes past the view it is given, never back.
LEMMA AdvanceViewFollows ==
    ASSUME NEW s, NEW v \in Nat, Shape(s)
    PROVE  Follows(s, AdvanceView(s, v)) /\ AdvanceView(s, v).view > v
<1>1. \A b \in s.seen : b.view \in Nat
  BY DEF Shape, BlockIds, Views
<1> QED
  BY <1>1, ViewAndSeenAreFields DEF Shape, Follows, AdvanceView

\* Reputation updates leave view and seenProposals alone.
LEMMA RecordsFollow ==
    ASSUME NEW s, NEW l, NEW p, Shape(s)
    PROVE  Follows(s, RecordTimeout(s, l)) /\ Follows(s, RecordCommit(s, l, p))
<1>1. \A x : LET t == [s EXCEPT !.rep = x] IN
              DOMAIN t = DOMAIN s /\ t.view = s.view /\ t.seen = s.seen
  BY ViewAndSeenAreFields DEF Shape
<1> QED
  BY <1>1, SameViewAndSeen DEF RecordTimeout, RecordCommit

\* GCLag is at least 1, so what gcVoteCollectors forgets is out of reach.
LEMMA GCFollows ==
    ASSUME NEW s, Shape(s)
    PROVE  Follows(s, GC(s))
<1>1. \A b \in s.seen : b.view \in Nat
  BY DEF Shape, BlockIds, Views
<1>2. GCLag \in Nat /\ GCLag >= 1
  BY HotStuffConstants
<1>3. CASE s.view <= GCLag
  BY <1>3, SameViewAndSeen DEF GC
<1>4. CASE ~(s.view <= GCLag)
  <2>1. /\ DOMAIN GC(s) = Fields
        /\ GC(s).view = s.view
        /\ GC(s).seen = {b \in s.seen : b.view >= s.view - GCLag}
    BY <1>4, ViewAndSeenAreFields DEF GC, Shape
  <2> QED
    BY <1>1, <1>2, <2>1 DEF Shape, Follows
<1> QED
  BY <1>3, <1>4

\* Committing a block collects garbage and nothing worse.
LEMMA CommitFollows ==
    ASSUME NEW C, NEW s, NEW qc, Shape(s)
    PROVE  Follows(s, Commit(C, s, qc))
<1> DEFINE t == [s EXCEPT !.commitQC = qc, !.committed = Append(@, qc.block)]
           u == RecordCommit(t, qc.block.leader, C[qc.block].payload)
<1>1. DOMAIN t = DOMAIN s /\ t.view = s.view /\ t.seen = s.seen
  BY ViewAndSeenAreFields DEF Shape
<1>2. Follows(s, t)
  BY <1>1, SameViewAndSeen
<1>3. Shape(t)
  BY <1>2 DEF Follows
<1>4. Commit(C, s, qc) = GC(u)
  BY DEF Commit
<1> HIDE DEF t
<1>5. Follows(t, u)
  BY <1>3, RecordsFollow
<1>6. Shape(u)
  BY <1>5 DEF Follows
<1> HIDE DEF u
<1>7. Follows(u, GC(u))
  BY <1>6, GCFollows
<1>8. Follows(s, u)
  BY <1>2, <1>5, FollowsTransitive
<1> QED
  BY <1>4, <1>7, <1>8, FollowsTransitive

\* BlockTree.ProcessBlock, with its lock and its possible commit.
LEMMA ProcessBlockFollows ==
    ASSUME NEW C, NEW s, NEW b, Shape(s)
    PROVE  Follows(s, ProcessBlock(C, s, b))
<1> DEFINE stored == [s EXCEPT !.store = @ \cup {b},
                               !.highQC = IF QCView(C[b].justify) > QCView(@)
                                          THEN C[b].justify ELSE @]
           generic == Justified(C, stored, b)
           locked == IF generic = NoBlock THEN NoBlock ELSE Justified(C, stored, generic)
           deep == IF locked = NoBlock THEN NoBlock ELSE Justified(C, stored, locked)
           withLock == IF Locks(s, generic, locked)
                       THEN [stored EXCEPT !.lockedQC = C[generic].justify]
                       ELSE stored
<1>1. DOMAIN stored = DOMAIN s /\ stored.view = s.view /\ stored.seen = s.seen
  BY ViewAndSeenAreFields DEF Shape
<1>2. ProcessBlock(C, s, b) =
        IF FastCommits(C, s, b, locked) THEN Commit(C, withLock, C[generic].justify)
        ELSE IF ChainCommits(s, locked, deep) THEN Commit(C, withLock, C[locked].justify)
        ELSE withLock
  BY DEF ProcessBlock
<1> HIDE DEF stored, generic, locked, deep
<1>3. DOMAIN withLock = DOMAIN s /\ withLock.view = s.view /\ withLock.seen = s.seen
  BY <1>1, ViewAndSeenAreFields DEF Shape
<1> HIDE DEF withLock
<1>4. Follows(s, withLock)
  BY <1>3, SameViewAndSeen
<1>5. \A qc : Follows(s, Commit(C, withLock, qc))
  BY <1>4, CommitFollows, FollowsTransitive DEF Follows
<1> QED
  BY <1>2, <1>4, <1>5

\* AddTimeoutVote and OnVoteQC leave view and seen alone.
LEMMA SmallStepsFollow ==
    ASSUME NEW s, NEW x, Shape(s)
    PROVE  Follows(s, AddTimeoutVote(s, x)) /\ Follows(s, OnVoteQC(s, x))
<1>1. \A y : LET t == [s EXCEPT !.tcs = y] IN
              DOMAIN t = DOMAIN s /\ t.view = s.view /\ t.seen = s.seen
  BY ViewAndSeenAreFields DEF Shape
<1>2. \A y : LET t == [s EXCEPT !.highQC = y] IN
              DOMAIN t = DOMAIN s /\ t.view = s.view /\ t.seen = s.seen
  BY ViewAndSeenAreFields DEF Shape
<1>3. Follows(s, AddTimeoutVote(s, x))
  BY <1>1, SameViewAndSeen DEF AddTimeoutVote
<1>4. Follows(s, OnVoteQC(s, x))
  BY <1>2, SameViewAndSeen DEF OnVoteQC
<1> QED
  BY <1>3, <1>4

-----------------------------------------------------------------------------
(* Steps.                                                                  *)

\* What a step may do to the blocks.
ContentKept == DOMAIN content' = BlockIds /\ OwnBlocksAreUnique'

\* Node n takes a step that leaves it in a state following s.
MovesFrom(n, s) == \E t : Follows(s, t) /\ node' = [node EXCEPT ![n] = t]

\* No new block.
LEMMA UnchangedContent ==
    ASSUME StateShape, OwnBlocksAreUnique, UNCHANGED content
    PROVE  ContentKept
  BY DEF StateShape, OwnBlocksAreUnique, ContentKept, Born

\* proposeBlock makes at most the one block of the view that bears tag 0.
LEMMA proposeBlockMoves ==
    ASSUME StateShape, OwnBlocksAreUnique,
           NEW n \in Honest, NEW s, Shape(s), proposeBlock(n, s)
    PROVE  MovesFrom(n, s) /\ ContentKept
<1> DEFINE taken == [s EXCEPT !.pendingCerts = {}]
           marked == [taken EXCEPT !.lastProposedView = s.view]
           id == OwnId(n, s)
           C == [content EXCEPT ![id] = OwnBlock(s)]
           processed == ProcessBlock(C, marked, id)
           signed == [processed EXCEPT !.collected[id] = @ \cup {n}]
<1>1. \/ node' = [node EXCEPT ![n] = taken] /\ UNCHANGED content
      \/ node' = [node EXCEPT ![n] = signed] /\ content' = C
      \/ node' = [node EXCEPT ![n] = marked] /\ UNCHANGED content
  BY DEF proposeBlock
<1>2. DOMAIN taken = DOMAIN s /\ taken.view = s.view /\ taken.seen = s.seen
  BY ViewAndSeenAreFields DEF Shape
<1>3. DOMAIN marked = DOMAIN s /\ marked.view = s.view /\ marked.seen = s.seen
  BY ViewAndSeenAreFields DEF Shape
<1>4. content' = C => ContentKept
  <2> SUFFICES ASSUME content' = C PROVE ContentKept
    OBVIOUS
  <2>1. DOMAIN content' = BlockIds
    BY DEF StateShape
  <2>2. ASSUME NEW b \in BlockIds, content'[b] # Unborn, b.leader \in Honest PROVE b.tag = 0
    <3>1. CASE b = id
      BY <3>1 DEF OwnId
    <3>2. CASE b # id
      <4>1. content'[b] = content[b]
        BY <3>2 DEF StateShape
      <4> QED BY <4>1, <2>2 DEF OwnBlocksAreUnique, Born
    <3> QED BY <3>1, <3>2
  <2> QED BY <2>1, <2>2 DEF ContentKept, OwnBlocksAreUnique, Born
<1> HIDE DEF taken, id, C
<1>5. Follows(s, taken)
  BY <1>2, SameViewAndSeen
<1>6. Follows(s, marked)
  BY <1>3, SameViewAndSeen
<1> HIDE DEF marked
<1>7. Follows(s, processed)
  BY <1>6, ProcessBlockFollows, FollowsTransitive DEF Follows
<1> HIDE DEF processed
<1>8. DOMAIN signed = DOMAIN processed /\ signed.view = processed.view /\ signed.seen = processed.seen
  BY <1>7, ViewAndSeenAreFields DEF Shape, Follows
<1>9. Follows(s, signed)
  BY <1>7, <1>8, SameViewAndSeen, FollowsTransitive DEF Follows
<1> HIDE DEF signed
<1> QED
  BY <1>1, <1>4, <1>5, <1>6, <1>9, UnchangedContent DEF MovesFrom

\* The tryPropose that ends a handler.
LEMMA tryProposeMoves ==
    ASSUME StateShape, OwnBlocksAreUnique,
           NEW n \in Honest, NEW s, Shape(s), tryPropose(n, s)
    PROVE  MovesFrom(n, s) /\ ContentKept
<1>1. Follows(s, s)
  BY SameViewAndSeen
<1> QED
  BY <1>1, proposeBlockMoves, UnchangedContent DEF tryPropose, MovesFrom

\* A handler's own changes before its tryPropose.
LEMMA MovesFromEarlier ==
    ASSUME NEW n, NEW s, NEW t, Shape(s), Follows(s, t), MovesFrom(n, t)
    PROVE  MovesFrom(n, s)
  BY FollowsTransitive DEF MovesFrom

\* Whatever a handler does, a vote stays remembered.
LEMMA RememberedFollows ==
    ASSUME NEW v \in Votes, NEW s, NEW t, Shape(s), Remembered(v, s), Follows(s, t)
    PROVE  Remembered(v, t)
<1>1. v.block.view \in Nat /\ s.view \in Nat /\ t.view \in Nat /\ s.view <= t.view
  BY DEF Votes, BlockIds, Views, Shape, Follows
<1>2. CASE v.block \in s.seen
  BY <1>1, <1>2 DEF Remembered, Follows
<1>3. CASE v.block.view + 1 < s.view
  BY <1>1, <1>3 DEF Remembered
<1> QED
  BY <1>2, <1>3 DEF Remembered

\* What a move of node n leaves of the invariant, whether it votes or not.
LEMMA MoveKeepsNodes ==
    ASSUME VoteInv, NEW n \in Honest, NEW t, Follows(node[n], t),
           node' = [node EXCEPT ![n] = t]
    PROVE  /\ DOMAIN node' = Honest
           /\ node'[n] = t
           /\ \A k \in Honest : Shape(node'[k])
           /\ \A v \in votes : Remembered(v, node'[v.voter])
<1>1. DOMAIN node' = Honest /\ \A k \in Honest : node'[k] = IF k = n THEN t ELSE node[k]
  BY DEF VoteInv, StateShape
<1>2. \A k \in Honest : Shape(node[k]) /\ Shape(node'[k])
  BY <1>1 DEF VoteInv, StateShape, Follows
<1>3. ASSUME NEW v \in votes PROVE Remembered(v, node'[v.voter])
  <2>1. v \in Votes /\ v.voter \in Honest /\ Remembered(v, node[v.voter])
    BY DEF VoteInv, StateShape, VotesAreRemembered, Remembered, Votes
  <2> QED BY <2>1, <1>1, <1>2, RememberedFollows
<1> QED
  BY <1>1, <1>2, <1>3

\* A step without a vote keeps the invariant.
LEMMA NoVoteKeepsInv ==
    ASSUME VoteInv, NEW n \in Honest, MovesFrom(n, node[n]), ContentKept, votes' = votes
    PROVE  VoteInv'
<1>1. PICK t : Follows(node[n], t) /\ node' = [node EXCEPT ![n] = t]
  BY DEF MovesFrom
<1>2. StateShape' /\ VotesAreRemembered'
  BY <1>1, MoveKeepsNodes
     DEF VoteInv, StateShape, VotesAreRemembered, Remembered, ContentKept, Votes
<1> QED
  BY <1>2 DEF VoteInv, ContentKept, VotesAreForLeaders, OneVotePerView

\* A proposal a node may vote for is of no view it has voted in.
LEMMA NoEarlierVote ==
    ASSUME VoteInv, NEW n \in Honest, NEW b \in BlockIds,
           validateProposalConstraint(node[n], b), ~SeenView(node[n], b),
           NEW v \in votes, v.voter = n
    PROVE  v.block.view # b.view
<1> SUFFICES ASSUME v.block.view = b.view PROVE FALSE
  OBVIOUS
<1>1. b.view \in Nat /\ b.view > 0 /\ node[n].view \in Nat
  BY DEF VoteInv, StateShape, Shape, BlockIds, Views
<1>2. v.block.view < node[n].view
      /\ (v.block \in node[n].seen \/ v.block.view + 1 < node[n].view)
  BY DEF VoteInv, VotesAreRemembered, Remembered
<1>3. v.block \in node[n].seen
  BY <1>1, <1>2 DEF validateProposalConstraint
<1>4. v.block.leader = b.leader
  BY DEF VoteInv, VotesAreForLeaders, validateProposalConstraint
<1> QED
  BY <1>3, <1>4 DEF SeenView

\* handleProposal votes: the new vote is the first of the node in its view.
LEMMA VoteKeepsInv ==
    ASSUME VoteInv, NEW n \in Honest, NEW b \in BlockIds,
           validateProposalConstraint(node[n], b), ~SeenView(node[n], b),
           votes' = votes \cup {[block |-> b, voter |-> n]},
           NEW t, Follows(Noted(n, b), t), t.view > b.view,
           node' = [node EXCEPT ![n] = t], ContentKept
    PROVE  VoteInv'
<1> DEFINE new == [block |-> b, voter |-> n]
<1>1. Shape(node[n]) /\ b.view \in Nat
  BY DEF VoteInv, StateShape, BlockIds, Views
<1>2. Follows(node[n], Noted(n, b)) /\ b \in Noted(n, b).seen
  BY <1>1, ViewAndSeenAreFields DEF Noted, Shape, Follows
<1>3. Follows(node[n], t)
  BY <1>1, <1>2, FollowsTransitive
<1>4. Remembered(new, t)
  BY <1>1, <1>2 DEF Remembered, Follows
<1>5. new \in Votes
  BY DEF Votes
<1>6. /\ DOMAIN node' = Honest /\ node'[n] = t
      /\ \A k \in Honest : Shape(node'[k])
      /\ \A v \in votes : Remembered(v, node'[v.voter])
  BY <1>3, MoveKeepsNodes
<1>7. StateShape'
  BY <1>5, <1>6 DEF VoteInv, StateShape, ContentKept, Votes
<1>8. VotesAreRemembered'
  BY <1>4, <1>6 DEF VotesAreRemembered, Remembered
<1>9. VotesAreForLeaders'
  BY DEF VoteInv, VotesAreForLeaders, validateProposalConstraint
<1>10. OneVotePerView'
  BY NoEarlierVote DEF VoteInv, OneVotePerView
<1> QED
  BY <1>7, <1>8, <1>9, <1>10 DEF VoteInv, ContentKept

-----------------------------------------------------------------------------
(* The invariant, action by action.                                        *)

\* No votes, no blocks.
LEMMA InitEstablishesVoteInv ==
    Init => VoteInv
<1> SUFFICES ASSUME Init PROVE VoteInv
  OBVIOUS
<1>1. Shape(InitNode)
  BY DEF Shape, Fields, InitNode
<1>2. StateShape
  BY <1>1 DEF Init, StateShape
<1> QED
  BY <1>2 DEF Init, VoteInv, OwnBlocksAreUnique, Born, VotesAreForLeaders,
              VotesAreRemembered, OneVotePerView

\* handleMempoolProposal.
LEMMA MempoolKeepsInv ==
    ASSUME VoteInv, NEW n \in Honest, handleMempoolProposal(n)
    PROVE  VoteInv'
<1> DEFINE c == node[n].supplied + 1
           s == [node[n] EXCEPT !.pendingCerts = @ \cup {c}, !.supplied = c]
<1>1. Shape(node[n])
  BY DEF VoteInv, StateShape
<1>2. DOMAIN s = DOMAIN node[n] /\ s.view = node[n].view /\ s.seen = node[n].seen
  BY <1>1, ViewAndSeenAreFields DEF Shape
<1>3. proposeBlock(n, s) \/ (node' = [node EXCEPT ![n] = s] /\ UNCHANGED content)
  BY DEF handleMempoolProposal
<1> HIDE DEF s
<1>4. Follows(node[n], s) /\ Shape(s)
  BY <1>1, <1>2, SameViewAndSeen DEF Follows
<1>5. MovesFrom(n, node[n]) /\ ContentKept
  BY <1>1, <1>3, <1>4, proposeBlockMoves, MovesFromEarlier, UnchangedContent DEF VoteInv, MovesFrom
<1>6. votes' = votes
  BY DEF handleMempoolProposal
<1> QED
  BY <1>5, <1>6, NoVoteKeepsInv

\* The equivocation branch of handleProposal only blames the leader.
LEMMA EquivocationKeepsInv ==
    ASSUME VoteInv, NEW n \in Honest, NEW b \in BlockIds, handleEquivocation(n, b)
    PROVE  VoteInv'
<1>1. Shape(node[n])
  BY DEF VoteInv, StateShape
<1>2. MovesFrom(n, node[n]) /\ ContentKept /\ votes' = votes
  BY <1>1, RecordsFollow, UnchangedContent DEF handleEquivocation, VoteInv, MovesFrom
<1> QED
  BY <1>2, NoVoteKeepsInv

\* handleProposal, whether SafeNode lets the node vote or not.
LEMMA ProposalKeepsInv ==
    ASSUME VoteInv, NEW n \in Honest, NEW b \in BlockIds, handleProposal(n, b)
    PROVE  VoteInv'
<1>1. Shape(node[n]) /\ b.view \in Nat
  BY DEF VoteInv, StateShape, BlockIds, Views
<1>2. Follows(node[n], Noted(n, b)) /\ Shape(Noted(n, b))
  BY <1>1, ViewAndSeenAreFields DEF Noted, Shape, Follows
<1>3. validateProposalConstraint(node[n], b) /\ ~SeenView(node[n], b)
  BY DEF handleProposal, Admissible
<1>4. CASE SafeNode(content, node[n], b)
  <2> DEFINE p == ProcessBlock(content, Noted(n, b), b)
             a == AdvanceView(p, b.view)
  <2>1. votes' = votes \cup {[block |-> b, voter |-> n]} /\ tryPropose(n, a)
    BY <1>4 DEF handleProposal
  <2>2. Follows(Noted(n, b), p) /\ Shape(p)
    BY <1>2, ProcessBlockFollows DEF Follows
  <2> HIDE DEF p
  <2>3. Follows(p, a) /\ a.view > b.view /\ Shape(a)
    BY <1>1, <2>2, AdvanceViewFollows DEF Follows
  <2>4. Follows(Noted(n, b), a)
    BY <1>2, <2>2, <2>3, FollowsTransitive
  <2> HIDE DEF a
  <2>5. MovesFrom(n, a) /\ ContentKept
    BY <2>1, <2>3, tryProposeMoves DEF VoteInv
  <2>6. PICK t : Follows(a, t) /\ node' = [node EXCEPT ![n] = t]
    BY <2>5 DEF MovesFrom
  <2>7. Follows(Noted(n, b), t)
    BY <1>2, <2>4, <2>6, FollowsTransitive
  <2>8. t.view > b.view
    BY <1>1, <2>3, <2>6 DEF Follows, Shape
  <2> QED
    BY <1>3, <2>1, <2>5, <2>6, <2>7, <2>8, VoteKeepsInv
<1>5. CASE ~SafeNode(content, node[n], b)
  <2>1. MovesFrom(n, node[n]) /\ ContentKept /\ votes' = votes
    BY <1>2, <1>5, UnchangedContent DEF handleProposal, VoteInv, MovesFrom
  <2> QED
    BY <2>1, NoVoteKeepsInv
<1> QED
  BY <1>4, <1>5

\* handleVote, whether the vote completes a certificate or not.
LEMMA VoteHandlerKeepsInv ==
    ASSUME VoteInv, NEW n \in Honest, NEW b \in BlockIds, NEW w, handleVote(n, b, w)
    PROVE  VoteInv'
<1> DEFINE signers == node[n].collected[b] \cup {w}
           counted == [node[n] EXCEPT !.collected[b] = signers]
           qc == [block |-> b, num |-> Cardinality(signers)]
           a == AdvanceView(OnVoteQC(counted, qc), b.view)
<1>1. Shape(node[n]) /\ b.view \in Nat
  BY DEF VoteInv, StateShape, BlockIds, Views
<1>2. DOMAIN counted = DOMAIN node[n] /\ counted.view = node[n].view /\ counted.seen = node[n].seen
  BY <1>1, ViewAndSeenAreFields DEF Shape
<1>3. votes' = votes /\ (tryPropose(n, a) \/ (node' = [node EXCEPT ![n] = counted] /\ UNCHANGED content))
  BY DEF handleVote
<1> HIDE DEF counted
<1>4. Follows(node[n], counted) /\ Shape(counted)
  BY <1>1, <1>2, SameViewAndSeen DEF Follows
<1>5. Follows(counted, OnVoteQC(counted, qc)) /\ Shape(OnVoteQC(counted, qc))
  BY <1>4, SmallStepsFollow DEF Follows
<1>6. Follows(OnVoteQC(counted, qc), a) /\ Shape(a)
  BY <1>1, <1>5, AdvanceViewFollows DEF Follows
<1> HIDE DEF a, qc
<1>7. Follows(node[n], a)
  BY <1>1, <1>4, <1>5, <1>6, FollowsTransitive
<1>8. MovesFrom(n, node[n]) /\ ContentKept
  BY <1>1, <1>3, <1>4, <1>6, <1>7, tryProposeMoves, MovesFromEarlier, UnchangedContent
     DEF VoteInv, MovesFrom
<1> QED
  BY <1>3, <1>8, NoVoteKeepsInv

\* The timer case of runLoop.
LEMMA TimeoutKeepsInv ==
    ASSUME VoteInv, NEW n \in Honest, Timeout(n)
    PROVE  VoteInv'
<1> DEFINE tv == [view |-> node[n].view, voter |-> n, highQC |-> node[n].highQC]
           r == RecordTimeout(node[n], GetLeader(node[n].view))
           a == AdvanceView(AddTimeoutVote(r, tv), node[n].view)
<1>1. Shape(node[n]) /\ node[n].view \in Nat
  BY DEF VoteInv, StateShape, Shape
<1>2. votes' = votes /\ tryPropose(n, a)
  BY DEF Timeout, broadcastTimeoutVote
<1>3. Follows(node[n], r) /\ Shape(r)
  BY <1>1, RecordsFollow DEF Follows
<1> HIDE DEF r, tv
<1>4. Follows(r, AddTimeoutVote(r, tv)) /\ Shape(AddTimeoutVote(r, tv))
  BY <1>3, SmallStepsFollow DEF Follows
<1>5. Follows(AddTimeoutVote(r, tv), a) /\ Shape(a)
  BY <1>1, <1>4, AdvanceViewFollows DEF Follows
<1> HIDE DEF a
<1>6. Follows(node[n], a)
  BY <1>1, <1>3, <1>4, <1>5, FollowsTransitive
<1>7. MovesFrom(n, node[n]) /\ ContentKept
  BY <1>1, <1>2, <1>5, <1>6, tryProposeMoves, MovesFromEarlier DEF VoteInv
<1> QED
  BY <1>2, <1>7, NoVoteKeepsInv

\* handleTimeoutVote, whether it forms a TC or not.
LEMMA TimeoutVoteKeepsInv ==
    ASSUME VoteInv, NEW n \in Honest, NEW tv, handleTimeoutVote(n, tv)
    PROVE  VoteInv' /\ tv.view \in Nat
<1> DEFINE counted == AddTimeoutVote(node[n], tv)
           a == AdvanceView(counted, tv.view)
<1>1. Shape(node[n]) /\ tv.view \in Nat
  BY DEF VoteInv, StateShape, Shape, handleTimeoutVote, TimeoutVoteValid
<1>2. votes' = votes /\ (tryPropose(n, a) \/ (node' = [node EXCEPT ![n] = counted] /\ UNCHANGED content))
  BY DEF handleTimeoutVote
<1>3. Follows(node[n], counted) /\ Shape(counted)
  BY <1>1, SmallStepsFollow DEF Follows
<1> HIDE DEF counted
<1>4. Follows(counted, a) /\ Shape(a)
  BY <1>1, <1>3, AdvanceViewFollows DEF Follows
<1> HIDE DEF a
<1>5. Follows(node[n], a)
  BY <1>1, <1>3, <1>4, FollowsTransitive
<1>6. MovesFrom(n, node[n]) /\ ContentKept
  BY <1>1, <1>2, <1>3, <1>4, <1>5, tryProposeMoves, MovesFromEarlier, UnchangedContent
     DEF VoteInv, MovesFrom
<1> QED
  BY <1>1, <1>2, <1>6, NoVoteKeepsInv

\* handleNewView, of a view that is over or not.
LEMMA NewViewKeepsInv ==
    ASSUME VoteInv, NEW n \in Honest, NEW nv, nv.view \in Nat, handleNewView(n, nv)
    PROVE  VoteInv'
<1> DEFINE merged == OnVoteQC(node[n], nv.highQC)
           a == AdvanceView(merged, nv.view)
<1>1. Shape(node[n])
  BY DEF VoteInv, StateShape
<1>2. votes' = votes /\ (tryPropose(n, a) \/ (node' = [node EXCEPT ![n] = merged] /\ UNCHANGED content))
  BY DEF handleNewView
<1>3. Follows(node[n], merged) /\ Shape(merged)
  BY <1>1, SmallStepsFollow DEF Follows
<1> HIDE DEF merged
<1>4. Follows(merged, a) /\ Shape(a)
  BY <1>3, AdvanceViewFollows DEF Follows
<1> HIDE DEF a
<1>5. Follows(node[n], a)
  BY <1>1, <1>3, <1>4, FollowsTransitive
<1>6. MovesFrom(n, node[n]) /\ ContentKept
  BY <1>1, <1>2, <1>3, <1>4, <1>5, tryProposeMoves, MovesFromEarlier, UnchangedContent
     DEF VoteInv, MovesFrom
<1> QED
  BY <1>2, <1>6, NoVoteKeepsInv

\* Views in the NewViews of faulty nodes.
LEMMA FaultyNewViewsHaveViews ==
    \A nv \in FaultyNewViews : nv.view \in Nat
<1>1. \A v \in 1..MaxView : v \in Nat
  BY HotStuffConstants
<1>2. \A v \in FaultyViews : v \in Nat
  BY <1>1, HotStuffConstants
<1>3. \A nv \in FaultyNewViews : nv.view \in FaultyViews
  BY DEF FaultyNewViews
<1> QED
  BY <1>2, <1>3

\* A faulty leader's block does not touch honest leaders' ones.
LEMMA FaultsKeepInv ==
    ASSUME VoteInv, NEW b \in FaultyIds, NEW blk, FaultyPropose(b, blk)
    PROVE  VoteInv'
<1>1. DOMAIN content' = BlockIds
  BY DEF FaultyPropose, VoteInv, StateShape
<1>2. ASSUME NEW x \in BlockIds, content'[x] # Unborn, x.leader \in Honest PROVE x.tag = 0
  <2>1. x # b
    BY <1>2 DEF FaultyIds, Honest
  <2>2. content'[x] = content[x]
    BY <2>1 DEF FaultyPropose, VoteInv, StateShape
  <2> QED BY <1>2, <2>2 DEF VoteInv, OwnBlocksAreUnique, Born
<1>3. OwnBlocksAreUnique'
  BY <1>2 DEF OwnBlocksAreUnique, Born
<1> QED
  BY <1>1, <1>3 DEF FaultyPropose, VoteInv, StateShape, VotesAreForLeaders,
                    VotesAreRemembered, OneVotePerView, Votes

-----------------------------------------------------------------------------

\* IInv is inductive.
LEMMA NextKeepsInv ==
    IInv /\ [Next]_vars => IInv'
<1> SUFFICES ASSUME IInv, [Next]_vars PROVE IInv'
  OBVIOUS
<1> USE DEF IInv
<1>1. CASE Mempool
  <2>1. PICK n \in Honest : handleMempoolProposal(n)
    BY <1>1, HotStuffConstants DEF Mempool, Honest, Nodes
  <2> QED BY <2>1, MempoolKeepsInv DEF handleMempoolProposal, NewViewsHaveViews
<1>2. CASE Proposal
  <2>1. PICK n \in Honest, b \in BlockIds : handleProposal(n, b) \/ handleEquivocation(n, b)
    BY <1>2 DEF Proposal, Born
  <2> QED BY <2>1, ProposalKeepsInv, EquivocationKeepsInv
          DEF handleProposal, handleEquivocation, NewViewsHaveViews
<1>3. CASE Vote
  <2>1. PICK n \in Honest, b \in BlockIds, w \in Nodes : handleVote(n, b, w)
    BY <1>3 DEF Vote, Born
  <2> QED BY <2>1, VoteHandlerKeepsInv DEF handleVote, NewViewsHaveViews
<1>4. CASE Timer
  <2>1. PICK n \in Honest : Timeout(n)
    BY <1>4 DEF Timer
  <2> QED BY <2>1, TimeoutKeepsInv DEF Timeout, NewViewsHaveViews
<1>5. CASE TimeoutVote
  <2>1. PICK n \in Honest, tv \in timeouts \cup FaultyTimeouts : handleTimeoutVote(n, tv)
    BY <1>5 DEF TimeoutVote
  <2>2. VoteInv' /\ tv.view \in Nat
    BY <2>1, TimeoutVoteKeepsInv
  <2>3. NewViewsHaveViews'
    BY <2>1, <2>2 DEF handleTimeoutVote, NewViewsHaveViews
  <2> QED BY <2>2, <2>3
<1>6. CASE NewView
  <2>1. PICK n \in Honest, nv \in newViews \cup FaultyNewViews : handleNewView(n, nv)
    BY <1>6 DEF NewView
  <2>2. nv.view \in Nat
    <3>1. CASE nv \in newViews
      BY <3>1 DEF NewViewsHaveViews
    <3>2. CASE nv \in FaultyNewViews
      BY <3>2, FaultyNewViewsHaveViews
    <3> QED BY <2>1, <3>1, <3>2
  <2> QED BY <2>1, <2>2, NewViewKeepsInv DEF handleNewView, NewViewsHaveViews
<1>7. CASE Faults
  <2>1. PICK b \in FaultyIds, blk \in FaultyBlocks : FaultyPropose(b, blk)
    BY <1>7 DEF Faults
  <2> QED BY <2>1, FaultsKeepInv DEF FaultyPropose, NewViewsHaveViews
<1>8. CASE UNCHANGED vars
  BY <1>8 DEF vars, VoteInv, StateShape, OwnBlocksAreUnique, Born, VotesAreForLeaders,
              VotesAreRemembered, OneVotePerView, NewViewsHaveViews, Votes
<1> QED
  BY <1>1, <1>2, <1>3, <1>4, <1>5, <1>6, <1>7, <1>8 DEF Next

\* However many validators there are, as long as fewer than a third are faulty, no
\* view of a lane gets two certified blocks: handleProposal's seenProposals and
\* validateProposalConstraint let an honest node vote once per view, GC
\* included, and QuorumSize makes any two quorums share an honest node.
THEOREM LaneOneCertifiedBlockPerView ==
    Spec => []OneCertifiedBlockPerView
<1>1. Init => IInv
  BY InitEstablishesVoteInv DEF IInv, Init, NewViewsHaveViews
<1>2. IInv => OneCertifiedBlockPerView
  BY VoteInvGivesOneCertifiedBlock DEF IInv
<1> QED
  BY <1>1, <1>2, NextKeepsInv, PTL DEF Spec

-----------------------------------------------------------------------------
(* The state of the chain.                                                 *)

\* The blocks that a quorum has signed.
CertifiedBlocks == {b \in Born : Certified(b)}

\* qc is the genesis certificate or certifies a block of K.
RealQC(K, qc) == qc \in QCs /\ (qc = GenesisQC \/ qc.block \in K)

\* Block b with the contents C is justified by a real certificate of an earlier view.
GoodBlock(K, C, b) ==
    C[b] \in Blocks /\ RealQC(K, C[b].justify) /\ QCView(C[b].justify) < b.view

\* What was output is stored and certified, in the order of the views, up to
\* the view of commitQC.
CommitsGood(K, s) ==
    /\ \A i \in 1..Len(s.committed) :
          /\ s.committed[i] \in s.store /\ s.committed[i] \in K
          /\ s.committed[i].view <= QCView(s.commitQC)
    /\ \A i, j \in 1..Len(s.committed) : i < j => s.committed[i].view < s.committed[j].view

\* The chain state of an engine in state s.
NodeGood(K, C, s) ==
    /\ s \in NodeStates /\ IsFiniteSet(s.store)
    /\ RealQC(K, s.highQC) /\ RealQC(K, s.lockedQC) /\ RealQC(K, s.commitQC)
    /\ QCView(s.commitQC) <= QCView(s.lockedQC)
    /\ QCView(s.lockedQC) <= QCView(s.highQC)
    /\ \A b \in s.store : GoodBlock(K, C, b)
    /\ CommitsGood(K, s)

\* The highest certificate is of a view that is over.
Behind(s) == QCView(s.highQC) < s.view

\* What a handler does to the view, and to the timeout certificates once it has
\* counted the vote it was given.
Moved(s, t) ==
    /\ s.view <= t.view
    /\ \A v \in Views : t.tcs[v] = s.tcs[v] \/ t.tcs[v] = NoTC

\* Blocks name certificates of earlier views, and genesis in one way only.
JustifiedEarlier(b, blk) ==
    /\ QCView(blk.justify) < b.view
    /\ blk.justify.block = NoBlock => blk.justify = GenesisQC

ChainInv ==
    /\ TypeOK
    /\ \A b \in Born : JustifiedEarlier(b, content[b])
    /\ \A n \in Honest : NodeGood(CertifiedBlocks, content, node[n]) /\ Behind(node[n])

-----------------------------------------------------------------------------
(* Types.                                                                  *)

\* A finite set has an element of greatest height.
LEMMA GreatestHeight ==
    ASSUME NEW S, IsFiniteSet(S), S # {}, NEW h, \A a \in S : h[a] \in Nat
    PROVE  \E b \in S : \A a \in S : h[a] <= h[b]
<1> DEFINE R == StrictSubsetOrdering(S)
           Above(b) == {a \in S : h[a] > h[b]}
           I == {Above(b) : b \in S}
<1>1. IsWellFoundedOn(R, FiniteSubsetsOf(S))
  BY FS_StrictSubsetOrderingWellFounded
<1>2. I \subseteq FiniteSubsetsOf(S) /\ I # {}
  <2>1. ASSUME NEW b \in S PROVE IsFiniteSet(Above(b))
    BY FS_Subset
  <2> QED  BY <2>1 DEF FiniteSubsetsOf
<1>3. PICK m \in I : \A t \in I : ~(<<t, m>> \in R)
  <2> HIDE DEF I, R
  <2> QED  BY <1>1, <1>2, WFMin
<1>4. PICK b \in S : m = Above(b)
  OBVIOUS
<1>5. ASSUME NEW a \in S, h[a] > h[b] PROVE FALSE
  <2>1. a \in Above(b) /\ a \notin Above(a) /\ Above(a) \subseteq Above(b)
    BY <1>5
  <2>2. <<Above(a), Above(b)>> \in R
    BY <2>1 DEF StrictSubsetOrdering
  <2> QED  BY <1>3, <1>4, <2>2
<1> QED  BY <1>5

\* A quorum is a number of validators, at least two.
LEMMA QuorumRange == Quorum \in 0..N /\ Quorum >= 2
BY HotStuffConstants DEF Quorum

\* The view of a certificate is a number, and 0 only without a block.
LEMMA QCViewType ==
    ASSUME NEW qc \in QCs
    PROVE  QCView(qc) \in Nat /\ (QCView(qc) = 0 <=> qc.block = NoBlock)
BY NoBlockIsNoId DEF QCView, QCs, BlockIds, Views

\* A block identifier has a positive view and a leader.
LEMMA BlockIdFields ==
    ASSUME NEW b \in BlockIds
    PROVE  b.view \in Nat /\ b.view > 0 /\ b.leader \in Nodes /\ b # NoBlock
BY NoBlockIsNoId DEF BlockIds, Views

\* The genesis certificate and the missing one are different, both of view 0.
LEMMA SpecialQCs == GenesisQC \in QCs /\ NilQC \in QCs /\ NilQC # GenesisQC /\ QCView(NilQC) = 0
                    /\ QCView(GenesisQC) = 0
BY HotStuffConstants DEF GenesisQC, NilQC, QCs, QCView

\* The round robin names a validator.
LEMMA GetLeaderType ==
    ASSUME NEW v \in Nat, v > 0
    PROVE  GetLeader(v) \in Nodes
<1>1. v - 1 + laneID \in Nat /\ N \in Nat /\ N > 0
  BY HotStuffConstants
<1>2. (v - 1 + laneID) % N \in 0..(N - 1)
  BY <1>1
<1> QED  BY <1>1, <1>2 DEF GetLeader, Nodes

\* gcVoteCollectors keeps the types.
LEMMA GCGood ==
    ASSUME NEW s \in NodeStates
    PROVE  /\ GC(s) \in NodeStates
           /\ GC(s).view = s.view /\ GC(s).store = s.store /\ GC(s).highQC = s.highQC
           /\ GC(s).lockedQC = s.lockedQC /\ GC(s).commitQC = s.commitQC
           /\ GC(s).committed = s.committed
           /\ \A v \in Views : GC(s).tcs[v] = s.tcs[v] \/ GC(s).tcs[v] = NoTC
<1>1. CASE s.view <= GCLag
  BY <1>1 DEF GC
<1>2. CASE ~(s.view <= GCLag)
  <2> DEFINE c == [b \in BlockIds |->
                      IF Cardinality(s.collected[b]) >= Quorum \/ b.view < s.view - GCLag
                      THEN {} ELSE s.collected[b]]
             k == {b \in s.seen : b.view >= s.view - GCLag}
             tc == [v \in Views |-> IF v < s.view - GCLag THEN NoTC ELSE s.tcs[v]]
  <2>1. GC(s) = [s EXCEPT !.collected = c, !.seen = k, !.tcs = tc]
    BY <1>2 DEF GC
  <2>2. c \in [BlockIds -> SUBSET Nodes] /\ k \in SUBSET BlockIds
    BY DEF NodeStates
  <2>3. NoTC \in [voters : SUBSET Nodes, highQC : QCs]
    BY SpecialQCs DEF NoTC
  <2>4. tc \in [Views -> [voters : SUBSET Nodes, highQC : QCs]]
    BY <2>3 DEF NodeStates
  <2>5. \A v \in Views : tc[v] = s.tcs[v] \/ tc[v] = NoTC
    OBVIOUS
  <2> HIDE DEF c, k, tc
  <2> QED  BY <2>1, <2>2, <2>4, <2>5 DEF NodeStates
<1> QED  BY <1>1, <1>2

\* Reputation updates touch nothing else.
LEMMA RecordsGood ==
    ASSUME NEW s \in NodeStates, NEW l \in Nodes, NEW p, NEW t,
           t \in {RecordTimeout(s, l), RecordCommit(s, l, p)}
    PROVE  /\ t \in NodeStates
           /\ t.view = s.view /\ t.store = s.store /\ t.highQC = s.highQC
           /\ t.lockedQC = s.lockedQC /\ t.commitQC = s.commitQC
           /\ t.committed = s.committed /\ t.tcs = s.tcs
<1>1. PICK r \in [Nodes -> [ok : Nat, failed : Nat, run : Nat]] : t = [s EXCEPT !.rep = r]
  <2>1. s.rep \in [Nodes -> [ok : Nat, failed : Nat, run : Nat]]
    BY DEF NodeStates
  <2> DEFINE r1 == [s.rep EXCEPT ![l] = [ok |-> @.ok, failed |-> @.failed + 1, run |-> @.run + 1]]
             r2 == [s.rep EXCEPT ![l] = [ok |-> @.ok, failed |-> @.failed + 1, run |-> @.run]]
             r3 == [s.rep EXCEPT ![l] = [ok |-> @.ok + 1, failed |-> @.failed, run |-> 0]]
  <2>2. r1 \in [Nodes -> [ok : Nat, failed : Nat, run : Nat]]
    BY <2>1
  <2>3. r2 \in [Nodes -> [ok : Nat, failed : Nat, run : Nat]]
    BY <2>1
  <2>4. r3 \in [Nodes -> [ok : Nat, failed : Nat, run : Nat]]
    BY <2>1
  <2>5. RecordTimeout(s, l) = [s EXCEPT !.rep = r1]
    BY DEF RecordTimeout, NodeStates
  <2>6. RecordCommit(s, l, p) = [s EXCEPT !.rep = r2] \/ RecordCommit(s, l, p) = [s EXCEPT !.rep = r3]
    BY DEF RecordCommit, NodeStates
  <2> HIDE DEF r1, r2, r3
  <2> QED  BY <2>2, <2>3, <2>4, <2>5, <2>6
<1> QED  BY <1>1 DEF NodeStates

\* Fields the chain state does not depend on.
LEMMA NodeGoodFrame ==
    ASSUME NEW K, NEW C, NEW s, NodeGood(K, C, s), NEW t \in NodeStates,
           t.store = s.store, t.highQC = s.highQC, t.lockedQC = s.lockedQC,
           t.commitQC = s.commitQC, t.committed = s.committed
    PROVE  NodeGood(K, C, t)
BY DEF NodeGood, CommitsGood

\* More certified blocks, and contents that stay or are good.
LEMMA NodeGoodGrows ==
    ASSUME NEW K, NEW L, NEW C, NEW D, NEW s, NodeGood(K, C, s), K \subseteq L,
           \A b \in s.store : D[b] = C[b] \/ GoodBlock(L, D, b)
    PROVE  NodeGood(L, D, s)
<1>1. \A qc : RealQC(K, qc) => RealQC(L, qc)
  BY DEF RealQC
<1>2. \A b \in s.store : GoodBlock(L, D, b)
  BY <1>1 DEF NodeGood, GoodBlock
<1>3. CommitsGood(L, s)
  BY DEF NodeGood, CommitsGood
<1> QED  BY <1>1, <1>2, <1>3 DEF NodeGood

\* A stored block of a later view than commitQC, no later than the lock, is committed.
LEMMA CommitGood ==
    ASSUME NEW K, NEW C, NEW s, NodeGood(K, C, s),
           NEW qc, RealQC(K, qc), qc.block \in s.store,
           QCView(s.commitQC) < QCView(qc), QCView(qc) <= QCView(s.lockedQC)
    PROVE  /\ NodeGood(K, C, Commit(C, s, qc))
           /\ Commit(C, s, qc).view = s.view /\ Commit(C, s, qc).highQC = s.highQC
           /\ \A v \in Views : \/ Commit(C, s, qc).tcs[v] = s.tcs[v]
                               \/ Commit(C, s, qc).tcs[v] = NoTC
<1> DEFINE t == [s EXCEPT !.commitQC = qc, !.committed = Append(@, qc.block)]
           u == RecordCommit(t, qc.block.leader, C[qc.block].payload)
<1>0. s \in NodeStates /\ qc \in QCs /\ qc.block \in BlockIds /\ qc.block.leader \in Nodes
  <2>1. s \in NodeStates /\ qc \in QCs
    BY DEF NodeGood, RealQC
  <2>2. qc.block \in BlockIds
    BY <2>1 DEF NodeStates
  <2> QED  BY <2>1, <2>2, BlockIdFields
<1>1. s.committed \in Seq(BlockIds) /\ Append(s.committed, qc.block) \in Seq(BlockIds)
  BY <1>0 DEF NodeStates
<1>2. t \in NodeStates
  BY <1>0, <1>1 DEF NodeStates
<1>3. /\ t.view = s.view /\ t.store = s.store /\ t.highQC = s.highQC
      /\ t.lockedQC = s.lockedQC /\ t.commitQC = qc /\ t.tcs = s.tcs
      /\ t.committed = Append(s.committed, qc.block)
  BY <1>0 DEF NodeStates
<1>4. QCView(qc) \in Nat /\ QCView(s.commitQC) \in Nat
  BY <1>0, QCViewType DEF NodeStates
<1>5. qc.block # NoBlock /\ QCView(qc) = qc.block.view /\ qc.block \in K
  <2>1. qc.block # NoBlock
    BY <1>0, BlockIdFields
  <2> QED  BY <2>1 DEF QCView, RealQC, GenesisQC
<1> HIDE DEF t
<1>6. CommitsGood(K, t)
  <2> DEFINE c == s.committed
             d == t.committed
  <2>1. c \in Seq(BlockIds) /\ d = Append(c, qc.block)
    BY <1>1, <1>3
  <2>2. Len(d) = Len(c) + 1 /\ d[Len(c) + 1] = qc.block /\ \A i \in 1..Len(c) : d[i] = c[i]
    BY <2>1
  <2>3. Len(c) \in Nat
    BY <2>1
  <2>4. /\ \A i \in 1..Len(c) : c[i] \in s.store /\ c[i] \in K /\ c[i].view <= QCView(s.commitQC)
        /\ \A i, j \in 1..Len(c) : i < j => c[i].view < c[j].view
    BY DEF NodeGood, CommitsGood
  <2>5. \A i \in 1..Len(c) : c[i].view \in Nat
    <3>1. \A i \in 1..Len(c) : c[i] \in BlockIds
      BY <2>1
    <3> QED  BY <3>1, BlockIdFields
  <2> HIDE DEF c, d
  <2>6. ASSUME NEW i \in 1..Len(d)
        PROVE  d[i] \in s.store /\ d[i] \in K /\ d[i].view <= QCView(qc)
    <3>1. CASE i = Len(c) + 1
      BY <3>1, <2>2, <1>4, <1>5
    <3>2. CASE i \in 1..Len(c)
      BY <3>2, <2>2, <2>4, <2>5, <1>4
    <3> QED  BY <3>1, <3>2, <2>2, <2>3
  <2>7. ASSUME NEW i \in 1..Len(d), NEW j \in 1..Len(d), i < j
        PROVE  d[i].view < d[j].view
    <3>1. i \in 1..Len(c) /\ (j = Len(c) + 1 \/ j \in 1..Len(c))
      BY <2>7, <2>2, <2>3
    <3>2. CASE j = Len(c) + 1
      <4>1. c[i].view <= QCView(s.commitQC) /\ c[i].view \in Nat /\ d[i] = c[i]
        BY <3>1, <2>2, <2>4, <2>5
      <4> QED  BY <3>2, <4>1, <2>2, <1>4, <1>5
    <3>3. CASE j \in 1..Len(c)
      BY <2>7, <3>1, <3>3, <2>2, <2>4
    <3> QED  BY <3>1, <3>2, <3>3
  <2> QED  BY <2>6, <2>7, <1>3 DEF CommitsGood, d
<1>7. NodeGood(K, C, t)
  BY <1>2, <1>3, <1>6 DEF NodeGood
<1>8. Commit(C, s, qc) = GC(u)
  BY DEF Commit, t
<1>9. /\ u \in NodeStates
      /\ u.view = t.view /\ u.store = t.store /\ u.highQC = t.highQC
      /\ u.lockedQC = t.lockedQC /\ u.commitQC = t.commitQC
      /\ u.committed = t.committed /\ u.tcs = t.tcs
  BY <1>0, <1>2, RecordsGood
<1> HIDE DEF u
<1>10. NodeGood(K, C, u)
  BY <1>7, <1>9, NodeGoodFrame
<1>11. NodeGood(K, C, GC(u))
  BY <1>9, <1>10, GCGood, NodeGoodFrame
<1> QED  BY <1>3, <1>8, <1>9, <1>11, GCGood

\* BlockTree.ProcessBlock: the lock and the commit follow the chain of certificates
\* that the block ends.
LEMMA ProcessBlockGood ==
    ASSUME NEW K, NEW C, NEW s, NodeGood(K, C, s), NEW b \in BlockIds, GoodBlock(K, C, b)
    PROVE  LET p == ProcessBlock(C, s, b)
           IN  /\ NodeGood(K, C, p)
               /\ p.view = s.view
               /\ p.highQC = s.highQC \/ p.highQC = C[b].justify
               /\ Moved(s, p)
<1> DEFINE stored == [s EXCEPT !.store = @ \cup {b},
                               !.highQC = IF QCView(C[b].justify) > QCView(@)
                                          THEN C[b].justify ELSE @]
           generic == Justified(C, stored, b)
           locked == IF generic = NoBlock THEN NoBlock ELSE Justified(C, stored, generic)
           deep == IF locked = NoBlock THEN NoBlock ELSE Justified(C, stored, locked)
           withLock == IF Locks(s, generic, locked)
                       THEN [stored EXCEPT !.lockedQC = C[generic].justify]
                       ELSE stored
           p == ProcessBlock(C, s, b)
<1>1. p = IF FastCommits(C, s, b, locked) THEN Commit(C, withLock, C[generic].justify)
          ELSE IF ChainCommits(s, locked, deep) THEN Commit(C, withLock, C[locked].justify)
          ELSE withLock
  BY DEF ProcessBlock
<1>2. /\ s \in NodeStates /\ C[b] \in Blocks /\ C[b].justify \in QCs
      /\ s.highQC \in QCs /\ s.lockedQC \in QCs /\ s.commitQC \in QCs
  BY DEF NodeGood, GoodBlock, RealQC
<1>3. /\ QCView(C[b].justify) \in Nat /\ QCView(s.highQC) \in Nat
      /\ QCView(s.lockedQC) \in Nat /\ QCView(s.commitQC) \in Nat
  BY <1>2, QCViewType
<1>4. /\ stored \in NodeStates
      /\ stored.store = s.store \cup {b}
      /\ stored.highQC = IF QCView(C[b].justify) > QCView(s.highQC) THEN C[b].justify ELSE s.highQC
      /\ stored.view = s.view /\ stored.lockedQC = s.lockedQC /\ stored.commitQC = s.commitQC
      /\ stored.committed = s.committed /\ stored.tcs = s.tcs
  BY <1>2 DEF NodeStates
<1>5. \A x \in stored.store : GoodBlock(K, C, x) /\ x \in BlockIds
  BY <1>2, <1>4 DEF NodeGood, NodeStates
<1> HIDE DEF stored
<1>6. ASSUME NEW x \in BlockIds, GoodBlock(K, C, x), Justified(C, stored, x) # NoBlock
      PROVE  /\ Justified(C, stored, x) \in stored.store
             /\ Justified(C, stored, x) = C[x].justify.block
             /\ QCView(C[x].justify) = Justified(C, stored, x).view
             /\ Justified(C, stored, x).view < x.view
  BY <1>6 DEF Justified, QCView, GoodBlock
<1>7. IsFiniteSet(stored.store)
  BY <1>4, FS_AddElement DEF NodeGood
<1>8. NodeGood(K, C, stored)
  <2>1. RealQC(K, stored.highQC)
    BY <1>4 DEF NodeGood, GoodBlock
  <2>2. QCView(stored.highQC) \in Nat /\ QCView(stored.highQC) >= QCView(s.highQC)
    BY <1>3, <1>4
  <2>3. QCView(stored.lockedQC) <= QCView(stored.highQC)
    BY <1>3, <1>4, <2>2 DEF NodeGood
  <2>4. CommitsGood(K, stored)
    BY <1>4 DEF NodeGood, CommitsGood
  <2> QED  BY <1>4, <1>5, <1>7, <2>1, <2>3, <2>4 DEF NodeGood
<1>9. generic # NoBlock => /\ generic \in stored.store /\ generic \in BlockIds
                           /\ GoodBlock(K, C, generic)
                           /\ generic.view = QCView(C[b].justify)
  BY <1>5, <1>6
<1>10. locked # NoBlock => /\ generic # NoBlock /\ locked \in stored.store /\ locked \in BlockIds
                           /\ GoodBlock(K, C, locked)
                           /\ locked = C[generic].justify.block
                           /\ QCView(C[generic].justify) = locked.view /\ locked.view < generic.view
  BY <1>5, <1>6, <1>9
<1>11. deep # NoBlock => /\ locked # NoBlock /\ deep \in stored.store
                         /\ deep = C[locked].justify.block
                         /\ QCView(C[locked].justify) = deep.view /\ deep.view < locked.view
                         /\ deep \in BlockIds
  BY <1>5, <1>6, <1>10
<1> HIDE DEF generic, locked, deep
<1>12. /\ generic # NoBlock => generic.view \in Nat
       /\ locked # NoBlock => locked.view \in Nat
       /\ deep # NoBlock => deep.view \in Nat
  BY <1>9, <1>10, <1>11, BlockIdFields
<1>13. locked # NoBlock => locked.view <= QCView(stored.highQC)
  BY <1>3, <1>4, <1>9, <1>10, <1>12
<1>14. /\ withLock \in NodeStates
       /\ withLock.store = stored.store /\ withLock.highQC = stored.highQC
       /\ withLock.view = s.view /\ withLock.commitQC = s.commitQC
       /\ withLock.committed = stored.committed /\ withLock.tcs = s.tcs
       /\ withLock.lockedQC = IF Locks(s, generic, locked) THEN C[generic].justify ELSE s.lockedQC
  <2>1. Locks(s, generic, locked) => C[generic].justify \in QCs
    BY <1>9, <1>10 DEF Locks, GoodBlock, RealQC
  <2> QED  BY <1>4, <2>1 DEF NodeStates
<1> HIDE DEF withLock
<1>15. locked # NoBlock => locked.view <= QCView(withLock.lockedQC)
  <2> SUFFICES ASSUME locked # NoBlock PROVE locked.view <= QCView(withLock.lockedQC)
    OBVIOUS
  <2>1. CASE Locks(s, generic, locked)
    BY <2>1, <1>10, <1>12, <1>14
  <2>2. CASE ~Locks(s, generic, locked)
    BY <2>2, <1>3, <1>10, <1>12, <1>14 DEF Locks
  <2> QED  BY <2>1, <2>2
<1>16. NodeGood(K, C, withLock)
  <2>1. RealQC(K, withLock.lockedQC)
    BY <1>9, <1>10, <1>14 DEF NodeGood, GoodBlock, Locks
  <2>2. /\ QCView(withLock.commitQC) <= QCView(withLock.lockedQC)
        /\ QCView(withLock.lockedQC) <= QCView(withLock.highQC)
    <3>1. CASE Locks(s, generic, locked)
      <4>1. locked # NoBlock /\ locked.view > QCView(s.lockedQC)
        BY <3>1 DEF Locks
      <4>2. QCView(withLock.lockedQC) = locked.view
        BY <3>1, <4>1, <1>10, <1>14
      <4>3. QCView(s.commitQC) <= QCView(s.lockedQC)
        BY DEF NodeGood
      <4> QED  BY <4>1, <4>2, <4>3, <1>3, <1>12, <1>13, <1>14
    <3>2. CASE ~Locks(s, generic, locked)
      BY <3>2, <1>8, <1>14, <1>4 DEF NodeGood
    <3> QED  BY <3>1, <3>2
  <2>3. CommitsGood(K, withLock)
    BY <1>8, <1>14, <1>4 DEF NodeGood, CommitsGood
  <2> QED  BY <1>8, <1>14, <1>4, <2>1, <2>2, <2>3 DEF NodeGood
<1>17. CASE FastCommits(C, s, b, locked)
  <2>1. locked # NoBlock /\ locked.view > QCView(s.commitQC)
    BY <1>17 DEF FastCommits
  <2>2. RealQC(K, C[generic].justify) /\ C[generic].justify.block \in withLock.store
    BY <2>1, <1>9, <1>10, <1>14 DEF GoodBlock
  <2>3. QCView(withLock.commitQC) < QCView(C[generic].justify)
    BY <2>1, <1>3, <1>10, <1>12, <1>14
  <2>4. QCView(C[generic].justify) <= QCView(withLock.lockedQC)
    BY <2>1, <1>10, <1>15
  <2>5. p = Commit(C, withLock, C[generic].justify)
    BY <1>1, <1>17
  <2> HIDE DEF p
  <2>6. /\ NodeGood(K, C, p) /\ p.view = withLock.view /\ p.highQC = withLock.highQC
        /\ \A v \in Views : p.tcs[v] = withLock.tcs[v] \/ p.tcs[v] = NoTC
    BY <1>16, <2>2, <2>3, <2>4, <2>5, CommitGood
  <2> QED  BY <2>6, <1>4, <1>14, <1>2 DEF Moved, p, NodeStates
<1>18. CASE ~FastCommits(C, s, b, locked) /\ ChainCommits(s, locked, deep)
  <2>1. deep # NoBlock /\ deep.view > QCView(s.commitQC)
    BY <1>18 DEF ChainCommits
  <2>2. RealQC(K, C[locked].justify) /\ C[locked].justify.block \in withLock.store
    BY <2>1, <1>10, <1>11, <1>14 DEF GoodBlock
  <2>3. QCView(withLock.commitQC) < QCView(C[locked].justify)
    BY <2>1, <1>3, <1>11, <1>12, <1>14
  <2>4. QCView(C[locked].justify) <= QCView(withLock.lockedQC)
    <3>1. QCView(withLock.lockedQC) \in Nat
      BY <1>14, QCViewType DEF NodeStates
    <3> QED  BY <2>1, <3>1, <1>11, <1>12, <1>15
  <2>5. p = Commit(C, withLock, C[locked].justify)
    BY <1>1, <1>18
  <2> HIDE DEF p
  <2>6. /\ NodeGood(K, C, p) /\ p.view = withLock.view /\ p.highQC = withLock.highQC
        /\ \A v \in Views : p.tcs[v] = withLock.tcs[v] \/ p.tcs[v] = NoTC
    BY <1>16, <2>2, <2>3, <2>4, <2>5, CommitGood
  <2> QED  BY <2>6, <1>4, <1>14, <1>2 DEF Moved, p, NodeStates
<1>19. CASE ~FastCommits(C, s, b, locked) /\ ~ChainCommits(s, locked, deep)
  <2>1. p = withLock
    BY <1>1, <1>19
  <2> QED  BY <2>1, <1>2, <1>4, <1>14, <1>16 DEF Moved, NodeStates
<1> QED  BY <1>17, <1>18, <1>19

\* A certificate that a node takes over.
LEMMA OnVoteQCGood ==
    ASSUME NEW K, NEW C, NEW s, NodeGood(K, C, s), NEW qc \in QCs,
           QCView(qc) > 0 => RealQC(K, qc)
    PROVE  LET t == OnVoteQC(s, qc)
           IN  /\ NodeGood(K, C, t) /\ t.view = s.view /\ t.tcs = s.tcs
               /\ t.highQC = s.highQC \/ t.highQC = qc
<1> DEFINE t == OnVoteQC(s, qc)
<1>1. s \in NodeStates /\ s.highQC \in QCs /\ s.lockedQC \in QCs
  BY DEF NodeGood, RealQC
<1>2. QCView(qc) \in Nat /\ QCView(s.highQC) \in Nat /\ QCView(s.lockedQC) \in Nat
  BY <1>1, QCViewType
<1>3. /\ t \in NodeStates
      /\ t.highQC = IF QCView(qc) > QCView(s.highQC) THEN qc ELSE s.highQC
      /\ t.view = s.view /\ t.tcs = s.tcs /\ t.store = s.store
      /\ t.lockedQC = s.lockedQC /\ t.commitQC = s.commitQC /\ t.committed = s.committed
  BY <1>1 DEF OnVoteQC, NodeStates
<1> HIDE DEF t
<1>4. RealQC(K, t.highQC) /\ QCView(t.lockedQC) <= QCView(t.highQC)
  BY <1>2, <1>3 DEF NodeGood
<1>5. NodeGood(K, C, t)
  BY <1>3, <1>4 DEF NodeGood, CommitsGood
<1> QED  BY <1>3, <1>5 DEF t

\* AdvanceView moves past a view.
LEMMA AdvanceViewGood ==
    ASSUME NEW K, NEW C, NEW s, NodeGood(K, C, s), NEW v \in Nat,
           QCView(s.highQC) < s.view \/ QCView(s.highQC) <= v
    PROVE  LET t == AdvanceView(s, v)
           IN  /\ NodeGood(K, C, t) /\ Behind(t) /\ t.view > v /\ Moved(s, t) /\ t.tcs = s.tcs
<1> DEFINE t == AdvanceView(s, v)
<1>1. s \in NodeStates /\ s.view \in Nat /\ s.highQC \in QCs
  BY DEF NodeGood, NodeStates
<1>2. QCView(s.highQC) \in Nat
  BY <1>1, QCViewType
<1>3. /\ t \in NodeStates
      /\ t.view = IF v >= s.view THEN v + 1 ELSE s.view
      /\ t.highQC = s.highQC /\ t.tcs = s.tcs /\ t.store = s.store
      /\ t.lockedQC = s.lockedQC /\ t.commitQC = s.commitQC /\ t.committed = s.committed
  <2>1. CASE v >= s.view
    <3>1. t = [s EXCEPT !.view = v + 1]
      BY <2>1 DEF AdvanceView
    <3>2. v + 1 \in Nat
      OBVIOUS
    <3> DEFINE w == v + 1
    <3> HIDE DEF t, w
    <3>3. /\ [s EXCEPT !.view = w] \in NodeStates
          /\ [s EXCEPT !.view = w].view = w
          /\ \A f \in Fields \ {"view"} : [s EXCEPT !.view = w][f] = s[f]
      BY <1>1, <3>2 DEF NodeStates, w, Fields, InitNode
    <3> QED  BY <1>1, <2>1, <3>1, <3>3 DEF w, Fields, InitNode
  <2>2. CASE ~(v >= s.view)
    BY <1>1, <2>2 DEF AdvanceView
  <2> QED  BY <2>1, <2>2
<1> HIDE DEF t
<1>4. NodeGood(K, C, t)
  BY <1>3, NodeGoodFrame
<1>5. Behind(t) /\ t.view > v /\ t.view >= s.view
  BY <1>1, <1>2, <1>3 DEF Behind
<1> QED  BY <1>1, <1>3, <1>4, <1>5 DEF Moved, t

\* A timeout vote that is counted.
LEMMA AddTimeoutVoteGood ==
    ASSUME NEW K, NEW C, NEW s, NodeGood(K, C, s),
           NEW tv, tv.view \in Views, tv.voter \in Nodes, tv.highQC \in QCs
    PROVE  LET t == AddTimeoutVote(s, tv)
           IN  /\ NodeGood(K, C, t) /\ t.view = s.view /\ t.highQC = s.highQC
               /\ \A v \in Views \ {tv.view} : t.tcs[v] = s.tcs[v]
               /\ t.tcs[tv.view] =
                    IF tv.voter \in s.tcs[tv.view].voters \/ Cardinality(s.tcs[tv.view].voters) >= Quorum
                    THEN s.tcs[tv.view]
                    ELSE [voters |-> s.tcs[tv.view].voters \cup {tv.voter},
                          highQC |-> IF \/ s.tcs[tv.view].highQC = NilQC
                                        \/ QCView(tv.highQC) > QCView(s.tcs[tv.view].highQC)
                                     THEN tv.highQC ELSE s.tcs[tv.view].highQC]
<1> DEFINE t == AddTimeoutVote(s, tv)
           old == s.tcs[tv.view]
           new == IF tv.voter \in old.voters \/ Cardinality(old.voters) >= Quorum
                  THEN old
                  ELSE [voters |-> old.voters \cup {tv.voter},
                        highQC |-> IF old.highQC = NilQC \/ QCView(tv.highQC) > QCView(old.highQC)
                                   THEN tv.highQC ELSE old.highQC]
           u == [s.tcs EXCEPT ![tv.view] = new]
<1>1. s \in NodeStates /\ s.tcs \in [Views -> [voters : SUBSET Nodes, highQC : QCs]]
  BY DEF NodeGood, NodeStates
<1>2. t = [s EXCEPT !.tcs = u]
  BY <1>1 DEF AddTimeoutVote, NodeStates
<1>3. new \in [voters : SUBSET Nodes, highQC : QCs]
  BY <1>1
<1>4. u \in [Views -> [voters : SUBSET Nodes, highQC : QCs]]
      /\ u[tv.view] = new /\ \A v \in Views \ {tv.view} : u[v] = s.tcs[v]
  <2> HIDE DEF new
  <2> QED  BY <1>1, <1>3
<1> HIDE DEF u, t
<1>5. /\ t \in NodeStates /\ t.tcs = u /\ t.view = s.view /\ t.highQC = s.highQC
      /\ t.store = s.store /\ t.lockedQC = s.lockedQC /\ t.commitQC = s.commitQC
      /\ t.committed = s.committed
  BY <1>1, <1>2, <1>4 DEF NodeStates
<1>6. NodeGood(K, C, t)
  BY <1>5, NodeGoodFrame
<1> QED  BY <1>4, <1>5, <1>6 DEF t

-----------------------------------------------------------------------------
(* Steps.                                                                  *)

\* Every block keeps its contents or has good ones.
ContentGood ==
    /\ content' \in [BlockIds -> Blocks \cup {Unborn}]
    /\ \A b \in BlockIds : content'[b] = content[b] \/ GoodBlock(CertifiedBlocks, content', b)

\* Node n goes on from state s to a good one.
GoodMove(n, s) ==
    /\ ContentGood
    /\ \E t : /\ node' = [node EXCEPT ![n] = t]
              /\ NodeGood(CertifiedBlocks, content', t) /\ Behind(t) /\ Moved(s, t)

\* Nothing is proposed.
LEMMA StayGood ==
    ASSUME ChainInv, NEW n \in Honest, NEW s, NodeGood(CertifiedBlocks, content, s), Behind(s),
           node' = [node EXCEPT ![n] = s], UNCHANGED content
    PROVE  GoodMove(n, s)
<1>1. Moved(s, s)
  BY DEF Moved, NodeGood, NodeStates
<1>2. ContentGood
  BY DEF ContentGood, ChainInv, TypeOK
<1>3. NodeGood(CertifiedBlocks, content', s)
  OBVIOUS
<1> QED  BY <1>1, <1>2, <1>3 DEF GoodMove

\* The height of an own block is above the stored ones.
LEMMA NextHeightType ==
    ASSUME NEW K, NEW C, NEW s, NodeGood(K, C, s)
    PROVE  NextHeight(C, s) \in Nat
<1>1. CASE s.store = {}
  BY <1>1 DEF NextHeight
<1>2. CASE s.store # {}
  <2> DEFINE h == [b \in s.store |-> C[b].height]
             Top(b) == \A a \in s.store : C[a].height <= C[b].height
             top == CHOOSE b \in s.store : Top(b)
  <2>1. \A a \in s.store : C[a].height \in Nat
    BY DEF NodeGood, GoodBlock, Blocks
  <2>2. \E b \in s.store : \A a \in s.store : h[a] <= h[b]
    <3> HIDE DEF h
    <3>1. \A a \in s.store : h[a] \in Nat
      BY <2>1 DEF h
    <3> QED  BY <1>2, <3>1, GreatestHeight DEF NodeGood
  <2>3. \E b \in s.store : Top(b)
    BY <2>2
  <2>4. top \in s.store
    <3> HIDE DEF Top
    <3> QED  BY <2>3
  <2>5. NextHeight(C, s) = C[top].height + 1
    BY <1>2 DEF NextHeight
  <2> HIDE DEF top
  <2> QED  BY <2>1, <2>4, <2>5
<1> QED  BY <1>1, <1>2

\* proposeBlock: the proposer's own block is justified by its highQC.
LEMMA proposeBlockGood ==
    ASSUME ChainInv, NEW n \in Honest, NEW s, NodeGood(CertifiedBlocks, content, s), Behind(s),
           proposeBlock(n, s)
    PROVE  GoodMove(n, s)
<1> DEFINE K == CertifiedBlocks
           taken == [s EXCEPT !.pendingCerts = {}]
           marked == [taken EXCEPT !.lastProposedView = s.view]
           id == OwnId(n, s)
           C == [content EXCEPT ![id] = OwnBlock(s)]
           processed == ProcessBlock(C, marked, id)
           signed == [processed EXCEPT !.collected[id] = @ \cup {n}]
<1>0. s \in NodeStates /\ s.highQC \in QCs /\ s.view \in Nat /\ QCView(s.highQC) \in Nat
  BY QCViewType DEF NodeGood, NodeStates
<1>1. s \in NodeStates /\ s.highQC \in QCs /\ s.view \in Nat /\ QCView(s.highQC) \in Nat /\ s.view > 0
  BY <1>0 DEF Behind
<1>2. \A t \in {taken, marked} :
        /\ t \in NodeStates /\ t.view = s.view /\ t.highQC = s.highQC /\ t.tcs = s.tcs
        /\ t.store = s.store /\ t.lockedQC = s.lockedQC /\ t.commitQC = s.commitQC
        /\ t.committed = s.committed
  BY <1>1 DEF NodeStates
<1>3. \/ node' = [node EXCEPT ![n] = taken] /\ UNCHANGED content
      \/ node' = [node EXCEPT ![n] = signed] /\ content' = C /\ s.view <= MaxView
      \/ node' = [node EXCEPT ![n] = marked] /\ UNCHANGED content
  BY DEF proposeBlock
<1>4. \A t \in {taken, marked} : NodeGood(K, content, t) /\ Behind(t) /\ Moved(s, t)
  <2> SUFFICES ASSUME NEW t \in {taken, marked}
               PROVE  NodeGood(K, content, t) /\ Behind(t) /\ Moved(s, t)
    OBVIOUS
  <2> HIDE DEF taken, marked, K
  <2>1. NodeGood(K, content, t)
    BY <1>2, NodeGoodFrame DEF K
  <2> QED  BY <2>1, <1>1, <1>2 DEF Behind, Moved
<1> HIDE DEF taken, marked
<1>5. CASE content' = C /\ node' = [node EXCEPT ![n] = signed] /\ s.view <= MaxView
  <2>1. id \in BlockIds /\ id.view = s.view
    BY <1>1, <1>5, HotStuffConstants DEF OwnId, BlockIds, Views, Honest
  <2>2. OwnBlock(s) \in Blocks
    BY <1>1, NextHeightType DEF OwnBlock, Blocks, QCs, NodeStates
  <2>3. content \in [BlockIds -> Blocks \cup {Unborn}]
    BY DEF ChainInv, TypeOK
  <2>4. /\ C \in [BlockIds -> Blocks \cup {Unborn}] /\ C[id] = OwnBlock(s)
        /\ \A b \in BlockIds : b # id => C[b] = content[b]
    BY <2>1, <2>2, <2>3
  <2> HIDE DEF C, id
  <2>5. C[id].justify = s.highQC
    BY <2>4 DEF OwnBlock
  <2>6. GoodBlock(K, C, id)
    BY <2>1, <2>2, <2>4, <2>5 DEF GoodBlock, NodeGood, Behind
  <2>7. ContentGood
    BY <1>5, <2>4, <2>6 DEF ContentGood
  <2>8. NodeGood(K, content, marked) /\ Moved(s, marked) /\ marked.highQC = s.highQC /\ marked.view = s.view
    BY <1>2, <1>4
  <2>9. \A b \in marked.store : b \in BlockIds
    BY <1>2, <1>1 DEF NodeStates
  <2> HIDE DEF K
  <2>10. NodeGood(K, C, marked)
    <3>1. \A b \in marked.store : C[b] = content[b] \/ GoodBlock(K, C, b)
      BY <2>4, <2>6, <2>9
    <3> QED  BY <2>8, <3>1, NodeGoodGrows
  <2>11. /\ NodeGood(K, C, processed) /\ processed.view = marked.view
         /\ processed.highQC = marked.highQC \/ processed.highQC = C[id].justify
         /\ Moved(marked, processed)
    BY <2>1, <2>6, <2>10, ProcessBlockGood
  <2> HIDE DEF processed
  <2>12. processed \in NodeStates /\ processed.collected \in [BlockIds -> SUBSET Nodes]
    BY <2>11 DEF NodeGood, NodeStates
  <2>13. n \in Nodes
    BY DEF Honest
  <2>14. /\ signed \in NodeStates /\ signed.view = processed.view /\ signed.tcs = processed.tcs
         /\ signed.highQC = processed.highQC /\ signed.store = processed.store
         /\ signed.lockedQC = processed.lockedQC /\ signed.commitQC = processed.commitQC
         /\ signed.committed = processed.committed
    <3> DEFINE c == [processed.collected EXCEPT ![id] = @ \cup {n}]
    <3>1. signed = [processed EXCEPT !.collected = c]
      BY <2>12 DEF NodeStates
    <3>2. c \in [BlockIds -> SUBSET Nodes]
      BY <2>1, <2>12, <2>13
    <3> HIDE DEF c
    <3> QED  BY <2>12, <3>1, <3>2 DEF NodeStates
  <2> HIDE DEF signed
  <2>15. NodeGood(K, C, signed)
    BY <2>11, <2>14, NodeGoodFrame
  <2>16. Behind(signed)
    BY <2>5, <2>8, <2>11, <2>14 DEF Behind
  <2>17. Moved(s, signed)
    BY <2>8, <2>11, <2>14, <1>1 DEF Moved
  <2> QED  BY <1>5, <2>7, <2>15, <2>16, <2>17 DEF GoodMove, K
<1>6. CASE UNCHANGED content /\ \E t \in {taken, marked} : node' = [node EXCEPT ![n] = t]
  <2>1. PICK t \in {taken, marked} : node' = [node EXCEPT ![n] = t]
    BY <1>6
  <2>2. ContentGood
    BY <1>6 DEF ContentGood, ChainInv, TypeOK
  <2>3. NodeGood(K, content', t) /\ Behind(t) /\ Moved(s, t)
    BY <1>4, <1>6
  <2> QED  BY <2>1, <2>2, <2>3 DEF GoodMove
<1> QED  BY <1>3, <1>5, <1>6

\* The tryPropose that ends a handler.
LEMMA tryProposeGood ==
    ASSUME ChainInv, NEW n \in Honest, NEW s, NodeGood(CertifiedBlocks, content, s), Behind(s),
           tryPropose(n, s)
    PROVE  GoodMove(n, s)
BY proposeBlockGood, StayGood DEF tryPropose

\* Votes and blocks only get more, so a certified block stays certified.
LEMMA CertifiedGrows ==
    ASSUME votes' \subseteq Votes, votes \subseteq votes', Born \subseteq Born'
    PROVE  CertifiedBlocks \subseteq CertifiedBlocks'
<1> SUFFICES ASSUME NEW b \in CertifiedBlocks PROVE b \in CertifiedBlocks'
  OBVIOUS
<1>1. b \in BlockIds /\ b \in Born' /\ Cardinality(Signers(b)) >= Quorum
  BY DEF CertifiedBlocks, Born, Certified
<1>2. Signers(b) \subseteq Signers(b)'
  BY DEF Signers
<1>3. Signers(b)' \subseteq Nodes
  BY <1>1, BlockIdFields, HotStuffConstants DEF Signers, Votes, Honest, Nodes
<1>4. IsFiniteSet(Signers(b)')
  BY <1>3, NodesFinite, FS_Subset
<1> DEFINE A == Signers(b)
           B == Signers(b)'
<1>5. Cardinality(A) <= Cardinality(B) /\ IsFiniteSet(A) /\ IsFiniteSet(B)
  <2> HIDE DEF A, B
  <2> QED  BY <1>2, <1>4, FS_Subset DEF A, B
<1>6. Cardinality(A) \in Nat /\ Cardinality(B) \in Nat
  BY <1>5, FS_CardinalityType
<1> HIDE DEF A, B
<1>7. Cardinality(B) >= Quorum
  BY <1>1, <1>5, <1>6, QuorumRange, HotStuffConstants DEF A
<1> QED  BY <1>1, <1>7 DEF CertifiedBlocks, Certified, B

\* A block of K is a block.
LEMMA CertifiedAreBlocks == CertifiedBlocks \subseteq BlockIds
BY DEF CertifiedBlocks, Born

\* verifyQC lets through certificates of certified blocks only.
LEMMA VerifiedIsReal ==
    ASSUME NEW qc \in QCs, verifyQC(qc), votes \subseteq Votes
    PROVE  RealQC(CertifiedBlocks, qc) /\ qc.block \in CertifiedBlocks
<1>1. qc.block \in Born /\ qc.block \in BlockIds /\ qc.num >= Quorum
      /\ qc.num <= Cardinality(Signers(qc.block)) /\ qc.num \in Nat
  BY DEF verifyQC, QCs, Born
<1>2. Signers(qc.block) \subseteq Nodes
  BY <1>1, BlockIdFields, HotStuffConstants DEF Signers, Votes, Honest, Nodes
<1> DEFINE A == Signers(qc.block)
<1>3. Cardinality(A) \in Nat
  BY <1>2, NodesFinite, FS_Subset, FS_CardinalityType
<1> HIDE DEF A
<1>4. Cardinality(A) >= Quorum
  BY <1>1, <1>3, QuorumRange, HotStuffConstants DEF A
<1> QED  BY <1>1, <1>4 DEF RealQC, CertifiedBlocks, Certified, A

\* The messages of a state have their types.
MessagesTyped ==
    /\ votes \subseteq Votes
    /\ timeouts \subseteq [view : Views, voter : Honest, highQC : QCs]
    /\ newViews \subseteq [view : Views, from : Honest, highQC : QCs]

\* New blocks are good, or unborn before.
ContentGrows ==
    /\ content' \in [BlockIds -> Blocks \cup {Unborn}]
    /\ \A b \in BlockIds : \/ content'[b] = content[b]
                           \/ GoodBlock(CertifiedBlocks, content', b)
                           \/ /\ content[b] = Unborn /\ content'[b] \in Blocks
                              /\ JustifiedEarlier(b, content'[b])

\* When votes and blocks are only added, what was certified, justified or good stays so.
LEMMA GrowthKeeps ==
    ASSUME ChainInv, ContentGrows, votes \subseteq votes', MessagesTyped'
    PROVE  /\ CertifiedBlocks \subseteq CertifiedBlocks'
           /\ \A b \in Born' : JustifiedEarlier(b, content'[b])
           /\ \A m \in Honest : NodeGood(CertifiedBlocks', content', node[m])
<1>1. content \in [BlockIds -> Blocks \cup {Unborn}]
  BY DEF ChainInv, TypeOK
<1>2. Born \subseteq Born'
  BY <1>1, UnbornIsNoBlock DEF Born, ContentGrows, GoodBlock
<1>3. CertifiedBlocks \subseteq CertifiedBlocks'
  BY <1>2, CertifiedGrows DEF MessagesTyped
<1>4. ASSUME NEW b \in Born' PROVE JustifiedEarlier(b, content'[b])
  <2>1. b \in BlockIds /\ content'[b] # Unborn
    BY DEF Born
  <2>2. CASE content'[b] = content[b]
    BY <2>1, <2>2 DEF ChainInv, Born
  <2>3. CASE GoodBlock(CertifiedBlocks, content', b)
    <3>1. content'[b].justify = GenesisQC \/ content'[b].justify.block \in BlockIds
      BY <2>3, CertifiedAreBlocks DEF GoodBlock, RealQC
    <3> QED  BY <2>3, <3>1, NoBlockIsNoId DEF GoodBlock, JustifiedEarlier
  <2> QED  BY <2>1, <2>2, <2>3 DEF ContentGrows
<1>5. ASSUME NEW m \in Honest PROVE NodeGood(CertifiedBlocks', content', node[m])
  <2> DEFINE K == CertifiedBlocks
             L == CertifiedBlocks'
             s == node[m]
             D == content'
  <2>1. NodeGood(K, content, s)
    BY DEF ChainInv
  <2>2. K \subseteq L
    BY <1>3
  <2>3. \A b \in BlockIds : GoodBlock(K, D, b) => GoodBlock(L, D, b)
    BY <2>2 DEF GoodBlock, RealQC
  <2>4. ASSUME NEW b \in s.store PROVE D[b] = content[b] \/ GoodBlock(L, D, b)
    <3>1. b \in BlockIds /\ content[b] \in Blocks
      BY <2>1 DEF NodeGood, NodeStates, GoodBlock
    <3>2. content[b] # Unborn
      BY <3>1, UnbornIsNoBlock
    <3> QED  BY <3>1, <3>2, <2>3 DEF ContentGrows
  <2> HIDE DEF K, L, s, D
  <2>5. NodeGood(L, D, s)
    BY <2>1, <2>2, <2>4, NodeGoodGrows
  <2> QED  BY <2>5 DEF L, D, s
<1> QED  BY <1>3, <1>4, <1>5

\* A step of one honest node.
LEMMA MoveKeepsChain ==
    ASSUME ChainInv, ContentGood, votes \subseteq votes', MessagesTyped',
           NEW n \in Honest, NEW t, node' = [node EXCEPT ![n] = t],
           NodeGood(CertifiedBlocks, content', t), Behind(t)
    PROVE  ChainInv' /\ CertifiedBlocks \subseteq CertifiedBlocks'
<1>1. ContentGrows
  BY DEF ContentGood, ContentGrows
<1>2. /\ CertifiedBlocks \subseteq CertifiedBlocks'
      /\ \A b \in Born' : JustifiedEarlier(b, content'[b])
      /\ \A m \in Honest : NodeGood(CertifiedBlocks', content', node[m])
  BY <1>1, GrowthKeeps
<1>3. NodeGood(CertifiedBlocks', content', t)
  <2> DEFINE K == CertifiedBlocks
             L == CertifiedBlocks'
             D == content'
  <2>1. K \subseteq L /\ NodeGood(K, D, t) /\ \A b \in t.store : D[b] = D[b]
    BY <1>2
  <2> HIDE DEF K, L, D
  <2>2. NodeGood(L, D, t)
    BY <2>1, NodeGoodGrows
  <2> QED  BY <2>2 DEF L, D
<1>4. node \in [Honest -> NodeStates] /\ t \in NodeStates
  BY <1>3 DEF ChainInv, TypeOK, NodeGood
<1>5. /\ node' \in [Honest -> NodeStates]
      /\ node'[n] = t /\ \A m \in Honest : m # n => node'[m] = node[m]
  BY <1>4
<1>6. \A m \in Honest : NodeGood(CertifiedBlocks', content', node'[m]) /\ Behind(node'[m])
  BY <1>2, <1>3, <1>5 DEF ChainInv
<1>7. TypeOK'
  BY <1>5 DEF TypeOK, MessagesTyped, ContentGood
<1> QED  BY <1>2, <1>6, <1>7 DEF ChainInv

-----------------------------------------------------------------------------
(* The handlers.                                                           *)

\* Moved composes.
LEMMA MovedTransitive ==
    ASSUME NEW s \in NodeStates, NEW t \in NodeStates, NEW u \in NodeStates,
           Moved(s, t), Moved(t, u)
    PROVE  Moved(s, u)
<1>1. s.view \in Nat /\ t.view \in Nat /\ u.view \in Nat
  BY DEF NodeStates
<1> QED  BY <1>1 DEF Moved

\* A handler's own changes come before its tryPropose.
LEMMA GoodMoveEarlier ==
    ASSUME NEW n, NEW s \in NodeStates, NEW a \in NodeStates, Moved(s, a), GoodMove(n, a)
    PROVE  GoodMove(n, s)
<1>1. PICK t : /\ node' = [node EXCEPT ![n] = t]
               /\ NodeGood(CertifiedBlocks, content', t) /\ Behind(t) /\ Moved(a, t)
  BY DEF GoodMove
<1>2. t \in NodeStates
  BY <1>1 DEF NodeGood
<1>3. Moved(s, t)
  BY <1>1, <1>2, MovedTransitive
<1> QED  BY <1>1, <1>3 DEF GoodMove

\* What the invariant says of one node.
LEMMA NodeFacts ==
    ASSUME ChainInv, NEW n \in Honest
    PROVE  /\ NodeGood(CertifiedBlocks, content, node[n]) /\ Behind(node[n])
           /\ node[n] \in NodeStates /\ node[n].view \in Nat /\ node[n].view > 0
           /\ node[n].highQC \in QCs /\ QCView(node[n].highQC) \in Nat
<1>1. NodeGood(CertifiedBlocks, content, node[n]) /\ Behind(node[n])
  BY DEF ChainInv
<1>2. node[n] \in NodeStates /\ node[n].view \in Nat /\ node[n].highQC \in QCs
  BY <1>1 DEF NodeGood, NodeStates
<1>3. QCView(node[n].highQC) \in Nat
  BY <1>2, QCViewType
<1> QED  BY <1>1, <1>2, <1>3 DEF Behind

\* handleMempoolProposal.
LEMMA MempoolMove ==
    ASSUME ChainInv, NEW n \in Honest, handleMempoolProposal(n)
    PROVE  GoodMove(n, node[n])
<1> DEFINE c == node[n].supplied + 1
           s == [node[n] EXCEPT !.pendingCerts = @ \cup {c}, !.supplied = c]
<1>1. node[n] \in NodeStates /\ NodeGood(CertifiedBlocks, content, node[n]) /\ Behind(node[n])
  BY NodeFacts
<1>2. c \in Certs /\ c \in Nat
  BY <1>1 DEF handleMempoolProposal, NodeStates
<1>3. proposeBlock(n, s) \/ (node' = [node EXCEPT ![n] = s] /\ UNCHANGED content)
  BY DEF handleMempoolProposal
<1> HIDE DEF c
<1>4. /\ s \in NodeStates /\ s.view = node[n].view /\ s.highQC = node[n].highQC
      /\ s.tcs = node[n].tcs /\ s.store = node[n].store /\ s.lockedQC = node[n].lockedQC
      /\ s.commitQC = node[n].commitQC /\ s.committed = node[n].committed
  BY <1>1, <1>2 DEF NodeStates
<1> HIDE DEF s
<1>5. NodeGood(CertifiedBlocks, content, s)
  <2> DEFINE K == CertifiedBlocks
             x == node[n]
  <2> HIDE DEF K, x
  <2>1. NodeGood(K, content, x) /\ s.store = x.store /\ s.highQC = x.highQC
        /\ s.lockedQC = x.lockedQC /\ s.commitQC = x.commitQC /\ s.committed = x.committed
    BY <1>1, <1>4 DEF K, x
  <2> QED  BY <2>1, <1>4, NodeGoodFrame DEF K
<1>6. Behind(s) /\ Moved(node[n], s)
  BY <1>1, <1>4 DEF Behind, Moved, NodeStates
<1>7. GoodMove(n, s)
  BY <1>3, <1>5, <1>6, proposeBlockGood, StayGood
<1> QED  BY <1>1, <1>4, <1>6, <1>7, GoodMoveEarlier

\* RecordTimeout, as handlers use it.
LEMMA RecordTimeoutMove ==
    ASSUME ChainInv, NEW n \in Honest, NEW l \in Nodes
    PROVE  LET r == RecordTimeout(node[n], l)
           IN  /\ NodeGood(CertifiedBlocks, content, r) /\ Behind(r)
               /\ r \in NodeStates /\ r.view = node[n].view /\ r.tcs = node[n].tcs
               /\ r.highQC = node[n].highQC
<1> DEFINE K == CertifiedBlocks
           x == node[n]
           r == RecordTimeout(x, l)
<1>1. NodeGood(K, content, x) /\ Behind(x) /\ x \in NodeStates
  BY NodeFacts
<1> HIDE DEF K, x
<1>2. /\ r \in NodeStates
      /\ r.view = x.view /\ r.store = x.store /\ r.highQC = x.highQC
      /\ r.lockedQC = x.lockedQC /\ r.commitQC = x.commitQC
      /\ r.committed = x.committed /\ r.tcs = x.tcs
  BY <1>1, RecordsGood
<1> HIDE DEF r
<1>3. NodeGood(K, content, r)
  BY <1>1, <1>2, NodeGoodFrame
<1>4. Behind(r)
  BY <1>1, <1>2 DEF Behind
<1> QED  BY <1>2, <1>3, <1>4 DEF r, x, K

\* The equivocation branch of handleProposal.
LEMMA EquivocationMove ==
    ASSUME ChainInv, NEW n \in Honest, NEW b \in BlockIds, handleEquivocation(n, b)
    PROVE  GoodMove(n, node[n])
<1> DEFINE r == RecordTimeout(node[n], b.leader)
<1>1. b.leader \in Nodes
  BY BlockIdFields
<1>2. /\ NodeGood(CertifiedBlocks, content, r) /\ Behind(r) /\ r \in NodeStates
      /\ r.view = node[n].view /\ r.tcs = node[n].tcs
  BY <1>1, RecordTimeoutMove
<1>3. node' = [node EXCEPT ![n] = r] /\ UNCHANGED content
  BY DEF handleEquivocation
<1> HIDE DEF r
<1>4. GoodMove(n, r)
  BY <1>2, <1>3, StayGood
<1>5. node[n] \in NodeStates /\ node[n].view \in Nat
  BY NodeFacts
<1>6. Moved(node[n], r)
  BY <1>2, <1>5 DEF Moved
<1> QED  BY <1>2, <1>4, <1>5, <1>6, GoodMoveEarlier

\* An admissible proposal of view 1 names genesis, and a later one a certificate
\* that was verified.
LEMMA AdmissibleIsGood ==
    ASSUME ChainInv, NEW n \in Honest, NEW b \in BlockIds, Admissible(n, b)
    PROVE  GoodBlock(CertifiedBlocks, content, b)
<1> DEFINE j == content[b].justify
<1>1. b \in Born /\ content[b] \in Blocks
  BY DEF Admissible, ChainInv, TypeOK, Born
<1>2. j \in QCs /\ JustifiedEarlier(b, content[b])
  BY <1>1 DEF ChainInv, Blocks
<1>3. b.view \in Nat /\ QCView(j) \in Nat /\ (QCView(j) = 0 <=> j.block = NoBlock) /\ QCView(j) < b.view
  BY <1>2, BlockIdFields, QCViewType DEF JustifiedEarlier
<1>4. RealQC(CertifiedBlocks, j)
  <2>1. CASE QCView(j) = 0
    BY <1>2, <1>3, <2>1 DEF JustifiedEarlier, RealQC
  <2>2. CASE QCView(j) # 0
    <3>1. verifyQC(j)
      BY <1>3, <2>2 DEF Admissible, JustifyVerified
    <3> QED  BY <1>2, <3>1, VerifiedIsReal DEF ChainInv, TypeOK
  <2> QED  BY <2>1, <2>2
<1> QED  BY <1>1, <1>3, <1>4 DEF GoodBlock

\* handleProposal.
LEMMA ProposalMove ==
    ASSUME ChainInv, NEW n \in Honest, NEW b \in BlockIds, handleProposal(n, b)
    PROVE  GoodMove(n, node[n])
<1> DEFINE K == CertifiedBlocks
           s == Noted(n, b)
           p == ProcessBlock(content, s, b)
           a == AdvanceView(p, b.view)
<1>1. node[n] \in NodeStates /\ NodeGood(K, content, node[n]) /\ Behind(node[n]) /\ node[n].view \in Nat
  BY NodeFacts
<1>2. /\ s \in NodeStates /\ s.view = node[n].view /\ s.highQC = node[n].highQC
      /\ s.tcs = node[n].tcs /\ s.store = node[n].store /\ s.lockedQC = node[n].lockedQC
      /\ s.commitQC = node[n].commitQC /\ s.committed = node[n].committed
  BY <1>1 DEF Noted, NodeStates
<1>3. GoodBlock(K, content, b)
  BY AdmissibleIsGood DEF handleProposal
<1>4. \/ tryPropose(n, a)
      \/ node' = [node EXCEPT ![n] = s] /\ UNCHANGED content
  BY DEF handleProposal
<1> HIDE DEF s
<1>5. NodeGood(K, content, s) /\ Behind(s) /\ Moved(node[n], s)
  <2> DEFINE x == node[n]
  <2> HIDE DEF K, x
  <2>1. NodeGood(K, content, x) /\ s.store = x.store /\ s.highQC = x.highQC
        /\ s.lockedQC = x.lockedQC /\ s.commitQC = x.commitQC /\ s.committed = x.committed
    BY <1>1, <1>2 DEF x
  <2>2. NodeGood(K, content, s)
    BY <2>1, <1>2, NodeGoodFrame
  <2> QED  BY <1>1, <1>2, <2>2 DEF Behind, Moved
<1>6. CASE tryPropose(n, a)
  <2>1. /\ NodeGood(K, content, p) /\ p.view = s.view
        /\ p.highQC = s.highQC \/ p.highQC = content[b].justify
        /\ Moved(s, p)
    <3> HIDE DEF K
    <3> QED  BY <1>3, <1>5, ProcessBlockGood
  <2> HIDE DEF p
  <2>2. b.view \in Nat /\ QCView(content[b].justify) < b.view /\ QCView(content[b].justify) \in Nat
    BY <1>3, BlockIdFields, QCViewType DEF GoodBlock, RealQC
  <2>3. QCView(p.highQC) < p.view \/ QCView(p.highQC) <= b.view
    BY <1>5, <2>1, <2>2 DEF Behind
  <2>4. NodeGood(K, content, a) /\ Behind(a) /\ Moved(p, a)
    <3> HIDE DEF K
    <3> QED  BY <2>1, <2>2, <2>3, AdvanceViewGood
  <2> HIDE DEF a
  <2>5. GoodMove(n, a)
    BY <1>6, <2>4, tryProposeGood
  <2>6. p \in NodeStates /\ a \in NodeStates
    BY <2>1, <2>4 DEF NodeGood
  <2>7. Moved(node[n], a)
    BY <1>1, <1>2, <1>5, <2>1, <2>4, <2>6, MovedTransitive
  <2> QED  BY <1>1, <2>5, <2>6, <2>7, GoodMoveEarlier
<1>7. CASE node' = [node EXCEPT ![n] = s] /\ UNCHANGED content
  <2>1. GoodMove(n, s)
    BY <1>5, <1>7, StayGood
  <2> QED  BY <1>1, <1>2, <1>5, <2>1, GoodMoveEarlier
<1> QED  BY <1>4, <1>6, <1>7

\* handleVote.
LEMMA VoteMove ==
    ASSUME ChainInv, NEW n \in Honest, NEW b \in BlockIds, NEW w \in Nodes, handleVote(n, b, w)
    PROVE  GoodMove(n, node[n])
<1> DEFINE K == CertifiedBlocks
           x == node[n]
           signers == x.collected[b] \cup {w}
           s == [x EXCEPT !.collected[b] = signers]
           qc == [block |-> b, num |-> Cardinality(signers)]
           o == OnVoteQC(s, qc)
           a == AdvanceView(o, b.view)
<1>1. x \in NodeStates /\ NodeGood(K, content, x) /\ Behind(x) /\ x.view \in Nat
  BY NodeFacts
<1>2. \/ verifyQC(qc) /\ tryPropose(n, a)
      \/ node' = [node EXCEPT ![n] = s] /\ UNCHANGED content
  BY DEF handleVote
<1>3. signers \in SUBSET Nodes /\ x.collected \in [BlockIds -> SUBSET Nodes]
  BY <1>1 DEF NodeStates
<1>4. Cardinality(signers) \in 0..N
  <2> HIDE DEF signers
  <2>1. IsFiniteSet(signers) /\ Cardinality(signers) <= N
    BY <1>3, NodesFinite, FS_Subset
  <2> QED  BY <2>1, FS_CardinalityType, HotStuffConstants
<1>5. qc \in QCs /\ QCView(qc) = b.view
  <2> HIDE DEF signers
  <2> QED  BY <1>4, NoBlockIsNoId DEF QCs, QCView
<1>6. /\ s \in NodeStates /\ s.view = x.view /\ s.highQC = x.highQC
      /\ s.tcs = x.tcs /\ s.store = x.store /\ s.lockedQC = x.lockedQC
      /\ s.commitQC = x.commitQC /\ s.committed = x.committed
  <2> DEFINE c == [x.collected EXCEPT ![b] = signers]
  <2> HIDE DEF signers, x
  <2>1. s = [x EXCEPT !.collected = c]
    BY <1>1 DEF NodeStates
  <2>2. c \in [BlockIds -> SUBSET Nodes]
    BY <1>3
  <2> HIDE DEF c
  <2> QED  BY <1>1, <2>1, <2>2 DEF NodeStates
<1> HIDE DEF s, qc, signers
<1>7. NodeGood(K, content, s) /\ Behind(s) /\ Moved(x, s)
  <2> HIDE DEF K, x
  <2>1. NodeGood(K, content, s)
    BY <1>1, <1>6, NodeGoodFrame
  <2> QED  BY <1>1, <1>6, <2>1 DEF Behind, Moved
<1>8. CASE verifyQC(qc) /\ tryPropose(n, a)
  <2>1. RealQC(K, qc)
    BY <1>5, <1>8, VerifiedIsReal DEF ChainInv, TypeOK
  <2>2. /\ NodeGood(K, content, o) /\ o.view = s.view /\ o.tcs = s.tcs
        /\ o.highQC = s.highQC \/ o.highQC = qc
    <3> HIDE DEF K
    <3> QED  BY <1>5, <1>7, <2>1, OnVoteQCGood
  <2> HIDE DEF o
  <2>3. b.view \in Nat
    BY BlockIdFields
  <2>4. QCView(o.highQC) < o.view \/ QCView(o.highQC) <= b.view
    BY <1>5, <1>7, <2>2, <2>3 DEF Behind
  <2>5. NodeGood(K, content, a) /\ Behind(a) /\ Moved(o, a)
    <3> HIDE DEF K
    <3> QED  BY <2>2, <2>3, <2>4, AdvanceViewGood
  <2> HIDE DEF a
  <2>6. GoodMove(n, a)
    BY <1>8, <2>5, tryProposeGood
  <2>7. o \in NodeStates /\ a \in NodeStates
    BY <2>2, <2>5 DEF NodeGood
  <2>8. Moved(s, o)
    BY <1>1, <1>6, <2>2 DEF Moved
  <2>9. Moved(x, a)
    BY <1>1, <1>6, <1>7, <2>5, <2>7, <2>8, MovedTransitive
  <2> QED  BY <1>1, <2>6, <2>7, <2>9, GoodMoveEarlier
<1>9. CASE node' = [node EXCEPT ![n] = s] /\ UNCHANGED content
  <2>1. GoodMove(n, s)
    BY <1>7, <1>9, StayGood
  <2> QED  BY <1>1, <1>6, <1>7, <2>1, GoodMoveEarlier
<1> QED  BY <1>2, <1>8, <1>9

\* A collector of timeout votes after one more vote.
Counted(tc, tv) ==
    IF tv.voter \in tc.voters \/ Cardinality(tc.voters) >= Quorum THEN tc
    ELSE [voters |-> tc.voters \cup {tv.voter},
          highQC |-> IF tc.highQC = NilQC \/ QCView(tv.highQC) > QCView(tc.highQC)
                     THEN tv.highQC ELSE tc.highQC]

\* Node n counts tv and goes on to a good state.
CountedState(n, tv, t) ==
    /\ NodeGood(CertifiedBlocks, content', t) /\ Behind(t)
    /\ node[n].view <= t.view
    /\ \A v \in Views :
          \/ t.tcs[v] = NoTC
          \/ t.tcs[v] = IF v = tv.view THEN Counted(node[n].tcs[v], tv) ELSE node[n].tcs[v]

\* A state that differs from the node's in reputation only counts a vote.
LEMMA CountedMove ==
    ASSUME ChainInv, NEW n \in Honest, NEW tv, tv.view \in Views, tv.voter \in Nodes,
           tv.highQC \in QCs,
           NEW r, NodeGood(CertifiedBlocks, content, r), Behind(r), r.view = node[n].view,
           r.tcs = node[n].tcs
    PROVE  LET c == AddTimeoutVote(r, tv)
               a == AdvanceView(c, tv.view)
           IN  /\ NodeGood(CertifiedBlocks, content, c) /\ Behind(c)
               /\ c.tcs[tv.view] = Counted(node[n].tcs[tv.view], tv)
               /\ (node' = [node EXCEPT ![n] = c] /\ UNCHANGED content) =>
                     ContentGood /\ CountedState(n, tv, c)
               /\ tryPropose(n, a) =>
                     /\ ContentGood
                     /\ \E t : node' = [node EXCEPT ![n] = t] /\ CountedState(n, tv, t) /\ t.view > tv.view
<1> DEFINE K == CertifiedBlocks
           c == AddTimeoutVote(r, tv)
           a == AdvanceView(c, tv.view)
<1>1. node[n] \in NodeStates /\ node[n].view \in Nat /\ tv.view \in Nat
  BY NodeFacts DEF Views
<1>2. NodeGood(K, content, r)
  OBVIOUS
<1>3. /\ NodeGood(K, content, c) /\ c.view = r.view /\ c.highQC = r.highQC
      /\ \A v \in Views \ {tv.view} : c.tcs[v] = r.tcs[v]
      /\ c.tcs[tv.view] = Counted(r.tcs[tv.view], tv)
  <2> HIDE DEF K
  <2> QED  BY <1>2, AddTimeoutVoteGood DEF Counted
<1> HIDE DEF c
<1>4. Behind(c) /\ c \in NodeStates
  BY <1>3 DEF Behind, NodeGood
<1>5. \A v \in Views : c.tcs[v] = IF v = tv.view THEN Counted(node[n].tcs[v], tv) ELSE node[n].tcs[v]
  BY <1>3
<1>6. ASSUME node' = [node EXCEPT ![n] = c], UNCHANGED content
      PROVE  ContentGood /\ CountedState(n, tv, c)
  <2>1. NodeGood(K, content', c)
    BY <1>3, <1>6
  <2> QED  BY <1>1, <1>3, <1>4, <1>5, <1>6, <2>1 DEF ContentGood, ChainInv, TypeOK, CountedState
<1>7. ASSUME tryPropose(n, a)
      PROVE  /\ ContentGood
             /\ \E t : node' = [node EXCEPT ![n] = t] /\ CountedState(n, tv, t) /\ t.view > tv.view
  <2>1. /\ NodeGood(K, content, a) /\ Behind(a) /\ a.view > tv.view /\ Moved(c, a)
    <3>1. QCView(c.highQC) < c.view
      BY <1>4 DEF Behind
    <3> HIDE DEF K
    <3> QED  BY <1>1, <1>3, <3>1, AdvanceViewGood
  <2> HIDE DEF a
  <2>2. GoodMove(n, a)
    BY <1>7, <2>1, tryProposeGood
  <2>3. PICK t : /\ node' = [node EXCEPT ![n] = t]
                 /\ NodeGood(K, content', t) /\ Behind(t) /\ Moved(a, t)
    BY <2>2 DEF GoodMove
  <2>4. a \in NodeStates /\ t \in NodeStates
    BY <2>1, <2>3 DEF NodeGood
  <2>5. Moved(c, t)
    BY <1>4, <2>1, <2>3, <2>4, MovedTransitive
  <2>6. t.view > tv.view
    BY <1>1, <2>1, <2>3, <2>4 DEF Moved, NodeStates
  <2>7. CountedState(n, tv, t)
    BY <1>3, <1>5, <2>3, <2>5 DEF CountedState, Moved
  <2> QED  BY <2>2, <2>3, <2>6, <2>7 DEF GoodMove
<1> QED  BY <1>3, <1>4, <1>6, <1>7 DEF c, a

\* The timer case of runLoop.
LEMMA TimeoutMove ==
    ASSUME ChainInv, NEW n \in Honest, Timeout(n)
    PROVE  LET tv == broadcastTimeoutVote(n, node[n])
           IN  /\ tv \in [view : Views, voter : Honest, highQC : QCs]
               /\ ContentGood
               /\ \E t : node' = [node EXCEPT ![n] = t] /\ CountedState(n, tv, t) /\ t.view > tv.view
<1> DEFINE tv == broadcastTimeoutVote(n, node[n])
           r == RecordTimeout(node[n], GetLeader(node[n].view))
<1>1. node[n].view \in Views /\ node[n].view \in Nat /\ node[n].view > 0 /\ node[n].highQC \in QCs
  BY NodeFacts, HotStuffConstants DEF Timeout, Views
<1>2. /\ tv \in [view : Views, voter : Honest, highQC : QCs]
      /\ tv.view = node[n].view /\ tv.voter \in Nodes /\ tv.highQC \in QCs
  BY <1>1 DEF broadcastTimeoutVote, Honest
<1>3. GetLeader(node[n].view) \in Nodes
  BY <1>1, GetLeaderType
<1>4. /\ NodeGood(CertifiedBlocks, content, r) /\ Behind(r)
      /\ r.view = node[n].view /\ r.tcs = node[n].tcs
  BY <1>3, RecordTimeoutMove
<1>5. tryPropose(n, AdvanceView(AddTimeoutVote(r, tv), tv.view))
  BY <1>2 DEF Timeout
<1> HIDE DEF r, tv
<1>6. /\ ContentGood
      /\ \E t : node' = [node EXCEPT ![n] = t] /\ CountedState(n, tv, t) /\ t.view > tv.view
  BY <1>2, <1>4, <1>5, CountedMove
<1> QED  BY <1>2, <1>6 DEF tv

\* What a faulty node may claim is a certificate by its type, and no NilQC.
LEMMA ClaimedTyped == ClaimedQCs \subseteq QCs /\ NilQC \notin ClaimedQCs
<1>1. \A b \in Born : b \in BlockIds /\ b # NoBlock
  BY NoBlockIsNoId DEF Born
<1> QED  BY <1>1, SpecialQCs, QuorumRange DEF ClaimedQCs, QCs, NilQC, GenesisQC

\* A faulty node's timeout vote carries a certificate.
LEMMA FaultyTimeoutsTyped ==
    ASSUME NEW tv \in FaultyTimeouts
    PROVE  tv.view \in Views /\ tv.voter \in Faulty /\ tv.voter \in Nodes /\ tv.highQC \in QCs
           /\ tv.highQC # NilQC
<1>1. tv.view \in FaultyViews /\ tv.voter \in Faulty /\ tv.highQC \in ClaimedQCs
  BY DEF FaultyTimeouts
<1> QED  BY <1>1, ClaimedTyped, HotStuffConstants DEF Views, Nodes

\* handleTimeoutVote.
LEMMA TimeoutVoteMove ==
    ASSUME ChainInv, NEW n \in Honest, NEW tv, tv.view \in Views, tv.voter \in Nodes,
           tv.highQC \in QCs, handleTimeoutVote(n, tv)
    PROVE  /\ ContentGood
           /\ \E t : /\ node' = [node EXCEPT ![n] = t] /\ CountedState(n, tv, t)
                     /\ \/ newViews' = newViews
                        \/ LET tc == Counted(node[n].tcs[tv.view], tv)
                           IN  /\ t.view > tv.view
                               /\ Cardinality(tc.voters) >= Quorum
                               /\ newViews' = newViews \cup
                                    {[view |-> tv.view, from |-> n, highQC |-> tc.highQC]}
           /\ Counted(node[n].tcs[tv.view], tv).highQC \in QCs
           /\ tv.voter \notin node[n].tcs[tv.view].voters
           /\ ~(Cardinality(node[n].tcs[tv.view].voters) >= Quorum)
<1> DEFINE s == node[n]
           c == AddTimeoutVote(s, tv)
           a == AdvanceView(c, tv.view)
<1>1. NodeGood(CertifiedBlocks, content, s) /\ Behind(s) /\ s \in NodeStates
  BY NodeFacts
<1>2. /\ NodeGood(CertifiedBlocks, content, c)
      /\ c.tcs[tv.view] = Counted(s.tcs[tv.view], tv)
      /\ (node' = [node EXCEPT ![n] = c] /\ UNCHANGED content) =>
             ContentGood /\ CountedState(n, tv, c)
      /\ tryPropose(n, a) =>
             /\ ContentGood
             /\ \E t : node' = [node EXCEPT ![n] = t] /\ CountedState(n, tv, t) /\ t.view > tv.view
  BY <1>1, CountedMove
<1>3. /\ c # s
      /\ \/ /\ Cardinality(c.tcs[tv.view].voters) >= Quorum
            /\ newViews' = newViews \cup
                  {[view |-> tv.view, from |-> n, highQC |-> c.tcs[tv.view].highQC]}
            /\ tryPropose(n, a)
         \/ /\ node' = [node EXCEPT ![n] = c] /\ UNCHANGED <<content, newViews>>
  BY DEF handleTimeoutVote
<1>4. c.tcs[tv.view].highQC \in QCs
  BY <1>2 DEF NodeGood, NodeStates
<1>5. tv.voter \notin s.tcs[tv.view].voters /\ ~(Cardinality(s.tcs[tv.view].voters) >= Quorum)
  <2> SUFFICES ASSUME \/ tv.voter \in s.tcs[tv.view].voters
                      \/ Cardinality(s.tcs[tv.view].voters) >= Quorum
               PROVE  c = s
    BY <1>3
  <2>1. s.tcs[tv.view] = [s.tcs EXCEPT ![tv.view] = s.tcs[tv.view]][tv.view]
    BY <1>1 DEF NodeStates
  <2>2. c = [s EXCEPT !.tcs[tv.view] = s.tcs[tv.view]]
    BY <1>1 DEF AddTimeoutVote, NodeStates
  <2> QED  BY <1>1, <2>2 DEF NodeStates
<1> HIDE DEF c, a
<1> QED  BY <1>2, <1>3, <1>4, <1>5

\* handleNewView.
LEMMA NewViewMove ==
    ASSUME ChainInv, NEW n \in Honest, NEW nv, nv.view \in Views, nv.highQC \in QCs,
           handleNewView(n, nv)
    PROVE  GoodMove(n, node[n])
<1> DEFINE K == CertifiedBlocks
           x == node[n]
           qc == nv.highQC
           o == OnVoteQC(x, qc)
           a == AdvanceView(o, nv.view)
<1>1. /\ x \in NodeStates /\ NodeGood(K, content, x) /\ Behind(x) /\ x.view \in Nat
      /\ nv.view \in Nat /\ QCView(qc) \in Nat
  BY NodeFacts, QCViewType DEF Views
<1>2. /\ QCView(qc) <= nv.view
      /\ \/ nv.view + 1 <= x.view /\ node' = [node EXCEPT ![n] = o] /\ UNCHANGED content
         \/ tryPropose(n, a)
  BY DEF handleNewView
<1>3. QCView(qc) > 0 => RealQC(K, qc)
  <2> SUFFICES ASSUME QCView(qc) > 0 PROVE RealQC(K, qc)
    OBVIOUS
  <2>1. qc # NilQC
    BY SpecialQCs
  <2>2. verifyQC(qc)
    BY <2>1 DEF handleNewView
  <2> QED  BY <2>2, VerifiedIsReal DEF ChainInv, TypeOK
<1>4. /\ NodeGood(K, content, o) /\ o.view = x.view /\ o.tcs = x.tcs
      /\ o.highQC = x.highQC \/ o.highQC = qc
  <2> HIDE DEF K, x, qc
  <2>1. qc \in QCs
    BY DEF qc
  <2> QED  BY <1>1, <1>3, <2>1, OnVoteQCGood
<1> HIDE DEF o
<1>5. o \in NodeStates /\ Moved(x, o)
  BY <1>1, <1>4 DEF NodeGood, Moved
<1>6. CASE nv.view + 1 <= x.view /\ node' = [node EXCEPT ![n] = o] /\ UNCHANGED content
  <2>1. Behind(o)
    BY <1>1, <1>2, <1>4, <1>6 DEF Behind
  <2>2. GoodMove(n, o)
    BY <1>4, <1>6, <2>1, StayGood
  <2> QED  BY <1>1, <1>5, <2>2, GoodMoveEarlier
<1>7. CASE tryPropose(n, a)
  <2>1. QCView(o.highQC) < o.view \/ QCView(o.highQC) <= nv.view
    BY <1>1, <1>2, <1>4 DEF Behind
  <2>2. NodeGood(K, content, a) /\ Behind(a) /\ Moved(o, a)
    <3> HIDE DEF K
    <3> QED  BY <1>1, <1>4, <2>1, AdvanceViewGood
  <2> HIDE DEF a
  <2>3. GoodMove(n, a)
    BY <1>7, <2>2, tryProposeGood
  <2>4. a \in NodeStates
    BY <2>2 DEF NodeGood
  <2>5. Moved(x, a)
    BY <1>1, <1>5, <2>2, <2>4, MovedTransitive
  <2> QED  BY <1>1, <2>3, <2>4, <2>5, GoodMoveEarlier
<1> QED  BY <1>2, <1>6, <1>7

-----------------------------------------------------------------------------
(* Timeout certificates.                                                   *)

\* A collector of node n for view v, when T are the timeout votes sent: its voters
\* timed out, and its certificate is real and no lower than that of any honest voter
\* in it.  With a vote of another node in it the certificate is of a block.
TCGood(K, T, n, v, tc) ==
    /\ tc.voters \subseteq {tv.voter : tv \in {t \in T : t.view = v}} \cup Faulty
    /\ QCView(tc.highQC) <= v
    /\ tc.highQC = NilQC \/ RealQC(K, tc.highQC)
    /\ \A w \in tc.voters : w # n => tc.highQC.block \in K
    /\ \A tv \in T : tv.view = v /\ tv.voter \in tc.voters => QCView(tv.highQC) <= QCView(tc.highQC)

\* A node sends one timeout vote for a view, and leaves the view with it.
TimeoutsGood ==
    /\ \A tv \in timeouts : tv.view < node[tv.voter].view /\ RealQC(CertifiedBlocks, tv.highQC)
    /\ \A tv, tw \in timeouts : tv.voter = tw.voter /\ tv.view = tw.view => tv = tw

CollectorsGood ==
    \A n \in Honest, v \in Views : TCGood(CertifiedBlocks, timeouts, n, v, node[n].tcs[v])

\* A NewView is of a view its sender has left, and the sender's collector still
\* holds its certificate or is gone.
NewViewGood(nv) ==
    /\ nv.view < node[nv.from].view
    /\ Cardinality(TimedOut(nv.view)) >= Quorum
    /\ nv.highQC.block \in CertifiedBlocks
    /\ QCView(nv.highQC) <= nv.view
    /\ \/ node[nv.from].tcs[nv.view].voters = {}
       \/ node[nv.from].tcs[nv.view].highQC = nv.highQC

TimeoutInv == TimeoutsGood /\ CollectorsGood /\ \A nv \in newViews : NewViewGood(nv)

\* The inductive invariant of the chain state and the timeouts.
LaneInv == ChainInv /\ TimeoutInv

\* An empty collector is good.
LEMMA NoTCGood ==
    ASSUME NEW K, NEW T, NEW n, NEW v \in Nat
    PROVE  TCGood(K, T, n, v, NoTC)
BY SpecialQCs DEF TCGood, NoTC

\* More certified blocks, and timeout votes of nodes the collector does not hold.
LEMMA TCGoodGrows ==
    ASSUME NEW K, NEW L, NEW T, NEW U, NEW n, NEW v, NEW tc, TCGood(K, T, n, v, tc),
           K \subseteq L, T \subseteq U,
           \A t \in U : t \in T \/ t.view # v \/ t.voter \notin tc.voters
    PROVE  TCGood(L, U, n, v, tc)
BY DEF TCGood, RealQC

\* A vote whose certificate is real is counted; only the node's own may name genesis.
LEMMA CountedGood ==
    ASSUME NEW K, K \subseteq BlockIds, NEW T, NEW n, NEW v \in Nat, NEW tc,
           tc \in [voters : SUBSET Nodes, highQC : QCs], TCGood(K, T, n, v, tc),
           NEW tv, tv.view = v, tv.voter \in Faulty \/ tv \in T, QCView(tv.highQC) <= v,
           RealQC(K, tv.highQC), tv.voter # n => tv.highQC.block \in K,
           \A t \in T : t.view = v /\ t.voter = tv.voter => QCView(t.highQC) <= QCView(tv.highQC),
           \A t \in T : t.highQC \in QCs
    PROVE  TCGood(K, T, n, v, Counted(tc, tv))
<1>1. CASE tv.voter \in tc.voters \/ Cardinality(tc.voters) >= Quorum
  BY <1>1 DEF Counted
<1>2. CASE ~(tv.voter \in tc.voters \/ Cardinality(tc.voters) >= Quorum)
  <2> DEFINE q == IF tc.highQC = NilQC \/ QCView(tv.highQC) > QCView(tc.highQC)
                  THEN tv.highQC ELSE tc.highQC
             c == [voters |-> tc.voters \cup {tv.voter}, highQC |-> q]
  <2>1. Counted(tc, tv) = c /\ c.voters = tc.voters \cup {tv.voter} /\ c.highQC = q
    BY <1>2 DEF Counted
  <2>2. tc.highQC \in QCs /\ tv.highQC \in QCs
    BY DEF RealQC
  <2>3. /\ QCView(tc.highQC) \in Nat /\ QCView(tv.highQC) \in Nat
        /\ (QCView(tv.highQC) = 0 <=> tv.highQC.block = NoBlock)
        /\ (QCView(tc.highQC) = 0 <=> tc.highQC.block = NoBlock)
    BY <2>2, QCViewType
  <2>4. QCView(NilQC) = 0 /\ NilQC.block = NoBlock /\ GenesisQC.block = NoBlock /\ NoBlock \notin K
    BY SpecialQCs, NoBlockIsNoId DEF NilQC, GenesisQC
  <2>5. q = tv.highQC \/ q = tc.highQC
    OBVIOUS
  <2>6. QCView(q) >= QCView(tc.highQC) /\ QCView(q) >= QCView(tv.highQC) /\ QCView(q) \in Nat
    BY <2>3, <2>4
  <2>7. QCView(q) <= v
    BY <2>5 DEF TCGood
  <2>8. RealQC(K, q)
    BY DEF TCGood
  <2>9. QCView(q) > 0 => q.block \in K
    BY <2>8, <2>4, SpecialQCs DEF RealQC
  <2> HIDE DEF q
  <2>10. ASSUME NEW w \in c.voters, w # n PROVE q.block \in K
    <3>1. CASE w = tv.voter
      <4>1. tv.highQC.block \in K /\ tv.highQC.block # NoBlock
        BY <2>10, <3>1, <2>4
      <4>2. QCView(tv.highQC) > 0
        BY <4>1, <2>3
      <4> QED  BY <4>2, <2>3, <2>6, <2>9
    <3>2. CASE w \in tc.voters
      <4>1. tc.highQC.block \in K /\ tc.highQC.block # NoBlock
        BY <2>10, <3>2, <2>4 DEF TCGood
      <4>2. QCView(tc.highQC) > 0
        BY <4>1, <2>3
      <4> QED  BY <4>2, <2>3, <2>6, <2>9
    <3> QED  BY <2>1, <3>1, <3>2
  <2>11. c.voters \subseteq {t.voter : t \in {u \in T : u.view = v}} \cup Faulty
    BY <2>1 DEF TCGood
  <2>12. ASSUME NEW t \in T, t.view = v, t.voter \in c.voters PROVE QCView(t.highQC) <= QCView(q)
    <3>1. QCView(t.highQC) \in Nat
      BY QCViewType
    <3>2. QCView(t.highQC) <= QCView(tv.highQC) \/ QCView(t.highQC) <= QCView(tc.highQC)
      BY <2>12, <2>1 DEF TCGood
    <3> QED  BY <3>1, <3>2, <2>3, <2>6
  <2> QED  BY <2>1, <2>7, <2>8, <2>10, <2>11, <2>12 DEF TCGood
<1> QED  BY <1>1, <1>2

\* Timeout votes only get more.
LEMMA TimedOutGrows ==
    ASSUME NEW v, MessagesTyped', timeouts \subseteq timeouts'
    PROVE  /\ Cardinality(TimedOut(v)) >= Quorum => Cardinality(TimedOut(v)') >= Quorum
           /\ \A S \in SUBSET TimedOut(v)' : Cardinality(S) >= Quorum =>
                 Cardinality(TimedOut(v)') >= Quorum
<1> DEFINE A == TimedOut(v)
           B == TimedOut(v)'
<1>1. A \subseteq B
  BY DEF TimedOut
<1>2. B \subseteq Nodes
  BY HotStuffConstants DEF TimedOut, MessagesTyped, Honest, Nodes
<1> HIDE DEF A, B
<1>3. IsFiniteSet(B)
  BY <1>2, NodesFinite, FS_Subset
<1>4. ASSUME NEW S \in SUBSET B, Cardinality(S) >= Quorum PROVE Cardinality(B) >= Quorum
  <2>1. IsFiniteSet(S) /\ Cardinality(S) <= Cardinality(B)
    BY <1>3, FS_Subset
  <2>2. Cardinality(S) \in Nat /\ Cardinality(B) \in Nat
    BY <1>3, <2>1, FS_CardinalityType
  <2> QED  BY <1>4, <2>1, <2>2, QuorumRange, HotStuffConstants
<1> QED  BY <1>1, <1>4 DEF A, B

\* One honest node moves to state t, and its collectors are good there.
TimeoutsKept(n, t) ==
    /\ ChainInv' /\ CertifiedBlocks \subseteq CertifiedBlocks'
    /\ timeouts \subseteq timeouts' /\ TimeoutsGood'
    /\ node' = [node EXCEPT ![n] = t] /\ node[n].view <= t.view
    /\ \A v \in Views : TCGood(CertifiedBlocks', timeouts', n, v, t.tcs[v])
    /\ \A m \in Honest, v \in Views : TCGood(CertifiedBlocks', timeouts', m, v, node[m].tcs[v])
    /\ \A v \in Views : v < node[n].view => t.tcs[v] = NoTC \/ t.tcs[v] = node[n].tcs[v]
    /\ \A nv \in newViews' : nv \in newViews \/ NewViewGood(nv)'

\* A step that keeps the parts of the invariant keeps the invariant.
LEMMA MoveKeepsTimeouts ==
    ASSUME LaneInv, NEW n \in Honest, NEW t, TimeoutsKept(n, t)
    PROVE  LaneInv'
<1> USE DEF TimeoutsKept
<1>1. /\ node \in [Honest -> NodeStates] /\ node' \in [Honest -> NodeStates]
      /\ node'[n] = t /\ \A m \in Honest : m # n => node'[m] = node[m]
  BY DEF LaneInv, ChainInv, TypeOK
<1>2. CollectorsGood'
  BY <1>1 DEF CollectorsGood
<1>3. ASSUME NEW nv \in newViews PROVE NewViewGood(nv)'
  <2>1. NewViewGood(nv)
    BY DEF LaneInv, TimeoutInv
  <2>2. nv.from \in Honest /\ nv.view \in Views /\ nv.view \in Nat
    BY DEF LaneInv, ChainInv, TypeOK, Views
  <2>3. \A m \in Honest : node[m].view \in Nat /\ node'[m].view \in Nat
    BY <1>1 DEF NodeStates
  <2>4. nv.view < node'[nv.from].view
    <3>1. node[nv.from].view <= node'[nv.from].view
      BY <1>1, <2>2, <2>3
    <3> QED  BY <2>1, <2>2, <2>3, <3>1 DEF NewViewGood
  <2>5. \/ node'[nv.from].tcs[nv.view].voters = {}
        \/ node'[nv.from].tcs[nv.view].highQC = nv.highQC
    <3>1. CASE nv.from = n
      <4>1. t.tcs[nv.view] = NoTC \/ t.tcs[nv.view] = node[n].tcs[nv.view]
        BY <2>1, <2>2, <3>1 DEF NewViewGood
      <4> QED  BY <1>1, <2>1, <3>1, <4>1 DEF NewViewGood, NoTC
    <3>2. CASE nv.from # n
      BY <1>1, <2>1, <2>2, <3>2 DEF NewViewGood
    <3> QED  BY <3>1, <3>2
  <2>6. Cardinality(TimedOut(nv.view)') >= Quorum
    <3>1. MessagesTyped'
      BY DEF ChainInv, TypeOK, MessagesTyped
    <3> QED  BY <2>1, <3>1, TimedOutGrows DEF NewViewGood
  <2>7. nv.highQC.block \in CertifiedBlocks' /\ QCView(nv.highQC) <= nv.view
    BY <2>1 DEF NewViewGood
  <2> QED  BY <2>4, <2>5, <2>6, <2>7 DEF NewViewGood
<1> QED  BY <1>2, <1>3 DEF LaneInv, TimeoutInv

\* A step that sends no timeout vote and no NewView.
LEMMA QuietKeepsLane ==
    ASSUME LaneInv, NEW n \in Honest, GoodMove(n, node[n]),
           votes \subseteq votes', votes' \subseteq Votes, UNCHANGED <<timeouts, newViews>>
    PROVE  LaneInv'
<1>1. PICK t : /\ node' = [node EXCEPT ![n] = t]
               /\ NodeGood(CertifiedBlocks, content', t) /\ Behind(t) /\ Moved(node[n], t)
  BY DEF GoodMove
<1>2. MessagesTyped'
  BY DEF LaneInv, ChainInv, TypeOK, MessagesTyped
<1>3. ChainInv' /\ CertifiedBlocks \subseteq CertifiedBlocks'
  BY <1>1, <1>2, MoveKeepsChain DEF GoodMove, LaneInv
<1>4. node \in [Honest -> NodeStates] /\ t \in NodeStates
  BY <1>1 DEF LaneInv, ChainInv, TypeOK, NodeGood
<1>5. \A m \in Honest, v \in Views :
        TCGood(CertifiedBlocks', timeouts', m, v, node[m].tcs[v])
  <2> SUFFICES ASSUME NEW m \in Honest, NEW v \in Views
               PROVE  TCGood(CertifiedBlocks', timeouts', m, v, node[m].tcs[v])
    OBVIOUS
  <2> DEFINE K == CertifiedBlocks
             L == CertifiedBlocks'
             tc == node[m].tcs[v]
  <2>1. TCGood(K, timeouts, m, v, tc) /\ K \subseteq L
    BY <1>3 DEF LaneInv, TimeoutInv, CollectorsGood
  <2> HIDE DEF K, L, tc
  <2>2. TCGood(L, timeouts, m, v, tc)
    BY <2>1, TCGoodGrows
  <2> QED  BY <2>2 DEF L, tc
<1>6. ASSUME NEW v \in Views
      PROVE  /\ TCGood(CertifiedBlocks', timeouts', n, v, t.tcs[v])
             /\ t.tcs[v] = NoTC \/ t.tcs[v] = node[n].tcs[v]
  <2>1. v \in Nat
    BY DEF Views
  <2>2. t.tcs[v] = NoTC \/ t.tcs[v] = node[n].tcs[v]
    BY <1>1 DEF Moved
  <2>3. TCGood(CertifiedBlocks', timeouts', n, v, NoTC)
    BY <2>1, NoTCGood
  <2> QED  BY <1>5, <2>2, <2>3
<1>7. TimeoutsGood'
  <2>1. \A m \in Honest : node[m].view <= node'[m].view /\ node[m].view \in Nat /\ node'[m].view \in Nat
    BY <1>1, <1>4 DEF Moved, NodeStates
  <2>2. \A tv \in timeouts : tv.voter \in Honest /\ tv.view \in Nat
    BY DEF LaneInv, ChainInv, TypeOK, Views
  <2>3. \A tv \in timeouts : tv.view < node'[tv.voter].view
    BY <2>1, <2>2 DEF LaneInv, TimeoutInv, TimeoutsGood
  <2>4. \A tv \in timeouts : RealQC(CertifiedBlocks', tv.highQC)
    BY <1>3 DEF LaneInv, TimeoutInv, TimeoutsGood, RealQC
  <2> QED  BY <2>3, <2>4 DEF LaneInv, TimeoutInv, TimeoutsGood
<1>a. \A v \in Views : TCGood(CertifiedBlocks', timeouts', n, v, t.tcs[v])
  BY <1>6
<1>c. \A v \in Views : v < node[n].view => t.tcs[v] = NoTC \/ t.tcs[v] = node[n].tcs[v]
  BY <1>6
<1>d. /\ timeouts \subseteq timeouts'
      /\ \A nv \in newViews' : nv \in newViews \/ NewViewGood(nv)'
  BY SMT
<1>e. node' = [node EXCEPT ![n] = t] /\ node[n].view <= t.view
  BY <1>1 DEF Moved
<1>f. TimeoutsKept(n, t)
  BY <1>3, <1>5, <1>7, <1>a, <1>c, <1>d, <1>e DEF TimeoutsKept
<1> QED  BY <1>f, MoveKeepsTimeouts

\* The timer case of runLoop.
LEMMA TimeoutKeepsLane ==
    ASSUME LaneInv, NEW n \in Honest, Timeout(n)
    PROVE  LaneInv'
<1> DEFINE tv == broadcastTimeoutVote(n, node[n])
<1>1. /\ tv \in [view : Views, voter : Honest, highQC : QCs]
      /\ ContentGood
      /\ \E t : node' = [node EXCEPT ![n] = t] /\ CountedState(n, tv, t) /\ t.view > tv.view
  BY TimeoutMove DEF LaneInv
<1>2. /\ tv.view = node[n].view /\ tv.voter = n /\ tv.highQC = node[n].highQC
      /\ timeouts' = timeouts \cup {tv} /\ UNCHANGED <<votes, newViews>>
  BY DEF Timeout, broadcastTimeoutVote
<1> HIDE DEF tv
<1>3. PICK t : node' = [node EXCEPT ![n] = t] /\ CountedState(n, tv, t) /\ t.view > tv.view
  BY <1>1
<1>4. /\ NodeGood(CertifiedBlocks, content', t) /\ Behind(t) /\ node[n].view <= t.view
      /\ \A v \in Views :
            \/ t.tcs[v] = NoTC
            \/ t.tcs[v] = IF v = tv.view THEN Counted(node[n].tcs[v], tv) ELSE node[n].tcs[v]
  BY <1>3 DEF CountedState
<1>5. MessagesTyped'
  BY <1>1, <1>2 DEF LaneInv, ChainInv, TypeOK, MessagesTyped
<1>6. ChainInv' /\ CertifiedBlocks \subseteq CertifiedBlocks'
  BY <1>1, <1>2, <1>3, <1>4, <1>5, MoveKeepsChain DEF LaneInv
<1>7. node \in [Honest -> NodeStates] /\ t \in NodeStates /\ n \notin Faulty
  BY <1>4 DEF LaneInv, ChainInv, TypeOK, NodeGood, Honest
<1>8. /\ RealQC(CertifiedBlocks, node[n].highQC) /\ QCView(node[n].highQC) < node[n].view
      /\ QCView(node[n].highQC) \in Nat /\ node[n].view \in Nat
  BY NodeFacts DEF LaneInv, NodeGood, Behind
<1>9. \A u \in timeouts : /\ u.voter \in Honest /\ u.view \in Nat /\ u.view < node[u.voter].view
                          /\ RealQC(CertifiedBlocks, u.highQC)
  BY DEF LaneInv, ChainInv, TypeOK, Views, TimeoutInv, TimeoutsGood
<1>10. \A m \in Honest : n \notin node[m].tcs[tv.view].voters
  <2> SUFFICES ASSUME NEW m \in Honest, n \in node[m].tcs[tv.view].voters PROVE FALSE
    OBVIOUS
  <2>1. tv.view \in Views
    BY <1>1
  <2>2. node[m].tcs[tv.view].voters \subseteq
           {u.voter : u \in {x \in timeouts : x.view = tv.view}} \cup Faulty
    BY <2>1 DEF LaneInv, TimeoutInv, CollectorsGood, TCGood
  <2>3. PICK u \in timeouts : u.view = tv.view /\ u.voter = n
    BY <2>2, <1>7
  <2> QED  BY <2>3, <1>2, <1>8, <1>9
<1>11. \A m \in Honest, v \in Views :
        TCGood(CertifiedBlocks', timeouts', m, v, node[m].tcs[v])
  <2> SUFFICES ASSUME NEW m \in Honest, NEW v \in Views
               PROVE  TCGood(CertifiedBlocks', timeouts', m, v, node[m].tcs[v])
    OBVIOUS
  <2> DEFINE K == CertifiedBlocks
             L == CertifiedBlocks'
             T == timeouts
             U == timeouts'
             tc == node[m].tcs[v]
  <2>1. TCGood(K, T, m, v, tc) /\ K \subseteq L
    BY <1>6 DEF LaneInv, TimeoutInv, CollectorsGood
  <2>2. T \subseteq U /\ \A u \in U : u \in T \/ u.view # v \/ u.voter \notin tc.voters
    BY <1>2, <1>10
  <2> HIDE DEF K, L, T, U, tc
  <2>3. TCGood(L, U, m, v, tc)
    BY <2>1, <2>2, TCGoodGrows
  <2> QED  BY <2>3 DEF L, U, tc
<1>12. TCGood(CertifiedBlocks', timeouts', n, tv.view, Counted(node[n].tcs[tv.view], tv))
  <2> DEFINE L == CertifiedBlocks'
             U == timeouts'
             v == tv.view
             tc == node[n].tcs[v]
  <2>1. v \in Views /\ v \in Nat
    BY <1>1 DEF Views
  <2>2. TCGood(L, U, n, v, tc) /\ tc \in [voters : SUBSET Nodes, highQC : QCs]
    BY <1>7, <1>11, <2>1 DEF NodeStates
  <2>3. L \subseteq BlockIds
    BY DEF CertifiedBlocks, Born
  <2>4. tv \in U /\ QCView(tv.highQC) <= v /\ tv.voter = n
    BY <1>2, <1>8
  <2>5. RealQC(L, tv.highQC)
    BY <1>2, <1>6, <1>8 DEF RealQC
  <2>6. \A u \in U : u.view = v /\ u.voter = tv.voter => QCView(u.highQC) <= QCView(tv.highQC)
    BY <1>2, <1>8, <1>9
  <2>7. \A u \in U : u.highQC \in QCs
    BY <1>5 DEF MessagesTyped
  <2> HIDE DEF L, U, tc, v
  <2>8. tv.view = v
    BY DEF v
  <2>9. TCGood(L, U, n, v, Counted(tc, tv))
    BY <2>1, <2>2, <2>3, <2>4, <2>5, <2>6, <2>7, <2>8, CountedGood
  <2> QED  BY <2>9 DEF L, U, v, tc
<1>13. ASSUME NEW v \in Views
       PROVE  /\ TCGood(CertifiedBlocks', timeouts', n, v, t.tcs[v])
              /\ v < node[n].view => t.tcs[v] = NoTC \/ t.tcs[v] = node[n].tcs[v]
  <2>1. v \in Nat
    BY DEF Views
  <2>2. TCGood(CertifiedBlocks', timeouts', n, v, NoTC)
    BY <2>1, NoTCGood
  <2>3. v < node[n].view => v # tv.view
    BY <2>1, <1>2, <1>8
  <2> QED  BY <1>4, <1>11, <1>12, <2>2, <2>3
<1>14. TimeoutsGood'
  <2>1. \A m \in Honest : node[m].view <= node'[m].view /\ node[m].view \in Nat /\ node'[m].view \in Nat
    BY <1>3, <1>4, <1>7 DEF NodeStates
  <2>2. node'[n].view > tv.view
    BY <1>3, <1>7
  <2>3. ASSUME NEW u \in timeouts' PROVE u.view < node'[u.voter].view
    <3>1. CASE u = tv
      BY <3>1, <2>1, <2>2, <1>2
    <3>2. CASE u \in timeouts
      <4>1. u.view < node[u.voter].view /\ u.view \in Nat /\ u.voter \in Honest
        BY <1>9, <3>2
      <4> QED  BY <4>1, <2>1
    <3> QED  BY <1>2, <3>1, <3>2
  <2>4. \A u \in timeouts' : RealQC(CertifiedBlocks', u.highQC)
    BY <1>2, <1>6, <1>8, <1>9 DEF RealQC
  <2>5. ASSUME NEW u \in timeouts', NEW x \in timeouts', u.voter = x.voter, u.view = x.view
        PROVE  u = x
    <3>1. \A y \in timeouts : ~(y.voter = n /\ y.view = tv.view)
      BY <1>2, <1>8, <1>9
    <3>2. CASE u \in timeouts /\ x \in timeouts
      BY <2>5, <3>2 DEF LaneInv, TimeoutInv, TimeoutsGood
    <3> QED  BY <1>2, <2>5, <3>1, <3>2
  <2> QED  BY <2>3, <2>4, <2>5 DEF TimeoutsGood
<1>a. \A v \in Views : TCGood(CertifiedBlocks', timeouts', n, v, t.tcs[v])
  BY <1>13
<1>c. \A v \in Views : v < node[n].view => t.tcs[v] = NoTC \/ t.tcs[v] = node[n].tcs[v]
  BY <1>13
<1>d. /\ timeouts \subseteq timeouts'
      /\ \A nv \in newViews' : nv \in newViews \/ NewViewGood(nv)'
  BY <1>2
<1>e. node' = [node EXCEPT ![n] = t] /\ node[n].view <= t.view
  BY <1>3, <1>4
<1>f. TimeoutsKept(n, t)
  BY <1>6, <1>11, <1>14, <1>a, <1>c, <1>d, <1>e DEF TimeoutsKept
<1> QED  BY <1>f, MoveKeepsTimeouts

\* handleTimeoutVote, of an honest or a faulty voter.
LEMMA TimeoutVoteKeepsLane ==
    ASSUME LaneInv, NEW n \in Honest, NEW tv \in timeouts \cup FaultyTimeouts,
           handleTimeoutVote(n, tv)
    PROVE  LaneInv'
<1> DEFINE K == CertifiedBlocks
           old == node[n].tcs[tv.view]
           tc == Counted(old, tv)
<1>1. /\ tv.view \in Views /\ tv.voter \in Nodes /\ tv.highQC \in QCs /\ tv.highQC # NilQC
      /\ tv \in timeouts \/ tv.voter \in Faulty
  <2>1. CASE tv \in timeouts
    <3>1. tv.view \in Views /\ tv.voter \in Honest /\ tv.highQC \in QCs
      BY <2>1 DEF LaneInv, ChainInv, TypeOK
    <3>2. RealQC(CertifiedBlocks, tv.highQC)
      BY <2>1 DEF LaneInv, TimeoutInv, TimeoutsGood
    <3>3. tv.highQC = GenesisQC \/ tv.highQC.block \in BlockIds
      BY <3>2, CertifiedAreBlocks DEF RealQC
    <3>4. tv.highQC # NilQC
      BY <3>3, SpecialQCs, NoBlockIsNoId DEF NilQC
    <3> QED  BY <2>1, <3>1, <3>4 DEF Honest
  <2>2. CASE tv \in FaultyTimeouts
    BY <2>2, FaultyTimeoutsTyped
  <2> QED  BY <2>1, <2>2
<1>2. /\ tv.voter # n /\ tv.view = node[n].view /\ QCView(tv.highQC) <= tv.view
      /\ verifyQC(tv.highQC) /\ UNCHANGED <<votes, timeouts>>
  BY <1>1 DEF handleTimeoutVote, TimeoutVoteValid
<1>3. /\ ContentGood
      /\ \E t : /\ node' = [node EXCEPT ![n] = t] /\ CountedState(n, tv, t)
                /\ \/ newViews' = newViews
                   \/ /\ t.view > tv.view
                      /\ Cardinality(tc.voters) >= Quorum
                      /\ newViews' = newViews \cup
                            {[view |-> tv.view, from |-> n, highQC |-> tc.highQC]}
      /\ tc.highQC \in QCs
      /\ tv.voter \notin old.voters
      /\ ~(Cardinality(old.voters) >= Quorum)
  BY <1>1, TimeoutVoteMove DEF LaneInv
<1>4. tv.voter \in tc.voters
  BY <1>3 DEF Counted
<1> HIDE DEF tc
<1>5. PICK t : /\ node' = [node EXCEPT ![n] = t] /\ CountedState(n, tv, t)
               /\ \/ newViews' = newViews
                  \/ /\ t.view > tv.view
                     /\ Cardinality(tc.voters) >= Quorum
                     /\ newViews' = newViews \cup
                           {[view |-> tv.view, from |-> n, highQC |-> tc.highQC]}
  BY <1>3
<1>6. /\ NodeGood(CertifiedBlocks, content', t) /\ Behind(t) /\ node[n].view <= t.view
      /\ \A v \in Views :
            t.tcs[v] = NoTC \/ t.tcs[v] = IF v = tv.view THEN tc ELSE node[n].tcs[v]
  BY <1>5 DEF CountedState, tc
<1>7. MessagesTyped'
  <2>1. [view |-> tv.view, from |-> n, highQC |-> tc.highQC] \in [view : Views, from : Honest, highQC : QCs]
    BY <1>1, <1>3
  <2> QED  BY <1>2, <1>5, <2>1 DEF LaneInv, ChainInv, TypeOK, MessagesTyped
<1>8. ChainInv' /\ CertifiedBlocks \subseteq CertifiedBlocks'
  BY <1>2, <1>3, <1>5, <1>6, <1>7, MoveKeepsChain DEF LaneInv
<1>9. /\ node \in [Honest -> NodeStates] /\ t \in NodeStates
      /\ node' \in [Honest -> NodeStates] /\ node'[n] = t
      /\ node[n].view \in Nat /\ t.view \in Nat
  <2>1. node \in [Honest -> NodeStates] /\ t \in NodeStates
    BY <1>6 DEF LaneInv, ChainInv, TypeOK, NodeGood
  <2> QED  BY <2>1, <1>5 DEF NodeStates
<1>10. \A m \in Honest, v \in Views :
        TCGood(CertifiedBlocks', timeouts', m, v, node[m].tcs[v])
  <2> SUFFICES ASSUME NEW m \in Honest, NEW v \in Views
               PROVE  TCGood(CertifiedBlocks', timeouts', m, v, node[m].tcs[v])
    OBVIOUS
  <2> DEFINE L == CertifiedBlocks'
             c == node[m].tcs[v]
  <2>1. TCGood(K, timeouts, m, v, c) /\ K \subseteq L /\ timeouts' = timeouts
    BY <1>2, <1>8 DEF LaneInv, TimeoutInv, CollectorsGood
  <2> HIDE DEF K, L, c
  <2>2. TCGood(L, timeouts, m, v, c)
    BY <2>1, TCGoodGrows
  <2> QED  BY <2>1, <2>2 DEF L, c
<1>11. TCGood(CertifiedBlocks', timeouts', n, tv.view, tc)
  <2> DEFINE L == CertifiedBlocks'
             U == timeouts'
             v == tv.view
  <2>1. v \in Views /\ v \in Nat
    BY <1>1 DEF Views
  <2>2. TCGood(L, U, n, v, old) /\ old \in [voters : SUBSET Nodes, highQC : QCs]
    BY <1>9, <1>10, <2>1 DEF NodeStates
  <2>3. L \subseteq BlockIds
    BY DEF CertifiedBlocks, Born
  <2>4. RealQC(K, tv.highQC) /\ tv.highQC.block \in K
    BY <1>1, <1>2, VerifiedIsReal DEF LaneInv, ChainInv, TypeOK
  <2>5. RealQC(L, tv.highQC) /\ tv.highQC.block \in L
    BY <2>4, <1>8 DEF RealQC
  <2>6. \A u \in U : u.view = v /\ u.voter = tv.voter => u = tv
    <3>1. CASE tv \in timeouts
      BY <3>1, <1>2 DEF LaneInv, TimeoutInv, TimeoutsGood
    <3>2. CASE tv.voter \in Faulty
      <4>1. \A u \in timeouts : u.voter \in Honest
        BY DEF LaneInv, ChainInv, TypeOK
      <4> QED  BY <3>2, <4>1, <1>2 DEF Honest
    <3> QED  BY <1>1, <3>1, <3>2
  <2>7. QCView(tv.highQC) \in Nat
    BY <1>1, QCViewType
  <2>8. \A u \in U : u.view = v /\ u.voter = tv.voter => QCView(u.highQC) <= QCView(tv.highQC)
    BY <2>6, <2>7
  <2>9. \A u \in U : u.highQC \in QCs
    BY <1>7 DEF MessagesTyped
  <2>10. tv.voter \in Faulty \/ tv \in U
    BY <1>1, <1>2
  <2> HIDE DEF L, U, old, v, K
  <2>11. tv.view = v /\ QCView(tv.highQC) <= v
    BY <1>2 DEF v
  <2>12. TCGood(L, U, n, v, Counted(old, tv))
    BY <2>1, <2>2, <2>3, <2>5, <2>8, <2>9, <2>10, <2>11, CountedGood
  <2> QED  BY <2>12 DEF L, U, v, tc
<1>12. ASSUME NEW v \in Views
       PROVE  /\ TCGood(CertifiedBlocks', timeouts', n, v, t.tcs[v])
              /\ v < node[n].view => t.tcs[v] = NoTC \/ t.tcs[v] = node[n].tcs[v]
  <2>1. v \in Nat
    BY DEF Views
  <2>2. TCGood(CertifiedBlocks', timeouts', n, v, NoTC)
    BY <2>1, NoTCGood
  <2>3. v < node[n].view => v # tv.view
    BY <2>1, <1>2, <1>9
  <2> QED  BY <1>6, <1>10, <1>11, <2>2, <2>3
<1>13. TimeoutsGood'
  <2>1. \A m \in Honest : node[m].view <= node'[m].view /\ node[m].view \in Nat /\ node'[m].view \in Nat
    BY <1>5, <1>6, <1>9 DEF NodeStates
  <2>2. \A u \in timeouts : u.voter \in Honest /\ u.view \in Nat
    BY DEF LaneInv, ChainInv, TypeOK, Views
  <2>3. \A u \in timeouts : u.view < node'[u.voter].view
    BY <2>1, <2>2 DEF LaneInv, TimeoutInv, TimeoutsGood
  <2>4. \A u \in timeouts : RealQC(CertifiedBlocks', u.highQC)
    BY <1>8 DEF LaneInv, TimeoutInv, TimeoutsGood, RealQC
  <2> QED  BY <1>2, <2>3, <2>4 DEF LaneInv, TimeoutInv, TimeoutsGood
<1>14. \A nv \in newViews' : nv \in newViews \/ NewViewGood(nv)'
  <2> SUFFICES ASSUME NEW nv, nv = [view |-> tv.view, from |-> n, highQC |-> tc.highQC],
                      t.view > tv.view, Cardinality(tc.voters) >= Quorum
               PROVE  NewViewGood(nv)'
    BY <1>5
  <2>1. nv.view = tv.view /\ nv.from = n /\ nv.highQC = tc.highQC
    OBVIOUS
  <2>2. /\ tc.voters \subseteq {u.voter : u \in {x \in timeouts' : x.view = tv.view}} \cup Faulty
        /\ QCView(tc.highQC) <= tv.view
        /\ tc.highQC.block \in CertifiedBlocks'
    BY <1>2, <1>4, <1>11 DEF TCGood
  <2>3. tc.voters \in SUBSET TimedOut(tv.view)'
    BY <2>2 DEF TimedOut
  <2>4. Cardinality(TimedOut(tv.view)') >= Quorum
    BY <1>2, <1>7, <2>3, TimedOutGrows
  <2>5. t.tcs[tv.view].voters = {} \/ t.tcs[tv.view].highQC = tc.highQC
    BY <1>1, <1>6 DEF NoTC
  <2>6. nv.view < node'[nv.from].view
    BY <1>9, <1>2, <2>1
  <2>7. Cardinality(TimedOut(nv.view)') >= Quorum
    BY <2>1, <2>4 DEF TimedOut
  <2> HIDE DEF tc
  <2> QED  BY <1>9, <2>1, <2>2, <2>5, <2>6, <2>7 DEF NewViewGood
<1>15. TimeoutsKept(n, t)
  BY <1>2, <1>5, <1>6, <1>8, <1>10, <1>12, <1>13, <1>14 DEF TimeoutsKept
<1> QED  BY <1>15, MoveKeepsTimeouts

\* A faulty leader's block.
LEMMA FaultsKeepLane ==
    ASSUME LaneInv, NEW b \in FaultyIds, NEW blk \in FaultyBlocks, FaultyPropose(b, blk)
    PROVE  LaneInv'
<1>1. /\ b \in BlockIds /\ content[b] = Unborn /\ QCView(blk.justify) < b.view
      /\ content' = [content EXCEPT ![b] = blk] /\ UNCHANGED <<votes, timeouts, newViews, node>>
  BY DEF FaultyPropose, FaultyIds
<1>2. /\ blk.justify \in ClaimedQCs /\ blk \in Blocks
  <2>1. /\ blk.height \in 1..MaxHeight /\ blk.justify \in ClaimedQCs
        /\ blk.parent \in Born \cup {NoBlock} /\ blk.payload \in FaultyPayloads
        /\ blk = [height |-> blk.height, justify |-> blk.justify,
                  parent |-> blk.parent, payload |-> blk.payload]
    BY DEF FaultyBlocks
  <2>2. blk.height \in Nat /\ blk.justify \in QCs /\ blk.parent \in BlockIds \cup {NoBlock}
    BY <2>1, ClaimedTyped, HotStuffConstants DEF Born
  <2>3. blk.payload \in SUBSET Certs
    BY <2>1, HotStuffConstants DEF Certs
  <2> QED  BY <2>1, <2>2, <2>3 DEF Blocks
<1>3. blk.justify.block = NoBlock => blk.justify = GenesisQC
  BY <1>2, NoBlockIsNoId DEF ClaimedQCs, Born
<1>4. content \in [BlockIds -> Blocks \cup {Unborn}]
  BY DEF LaneInv, ChainInv, TypeOK
<1>5. /\ content' \in [BlockIds -> Blocks \cup {Unborn}] /\ content'[b] = blk
      /\ \A x \in BlockIds : x # b => content'[x] = content[x]
  BY <1>1, <1>2, <1>4
<1>6. ContentGrows
  BY <1>1, <1>2, <1>3, <1>5 DEF ContentGrows, JustifiedEarlier
<1>7. MessagesTyped'
  BY <1>1 DEF LaneInv, ChainInv, TypeOK, MessagesTyped
<1>8. /\ CertifiedBlocks \subseteq CertifiedBlocks'
      /\ \A x \in Born' : JustifiedEarlier(x, content'[x])
      /\ \A m \in Honest : NodeGood(CertifiedBlocks', content', node[m])
  BY <1>1, <1>6, <1>7, GrowthKeeps DEF LaneInv
<1>9. ChainInv'
  <2>1. TypeOK'
    BY <1>1, <1>5 DEF LaneInv, ChainInv, TypeOK
  <2>2. \A m \in Honest : Behind(node'[m])
    BY <1>1 DEF LaneInv, ChainInv
  <2>3. \A m \in Honest : NodeGood(CertifiedBlocks', content', node'[m])
    BY <1>1, <1>8
  <2> QED  BY <1>8, <2>1, <2>2, <2>3 DEF ChainInv
<1>10. TimeoutsGood'
  BY <1>1, <1>8 DEF LaneInv, TimeoutInv, TimeoutsGood, RealQC
<1>11. CollectorsGood'
  <2> SUFFICES ASSUME NEW m \in Honest, NEW v \in Views
               PROVE  TCGood(CertifiedBlocks', timeouts', m, v, node'[m].tcs[v])
    BY DEF CollectorsGood
  <2> DEFINE K == CertifiedBlocks
             L == CertifiedBlocks'
             c == node[m].tcs[v]
  <2>1. TCGood(K, timeouts, m, v, c) /\ K \subseteq L
    BY <1>8 DEF LaneInv, TimeoutInv, CollectorsGood
  <2> HIDE DEF K, L, c
  <2>2. TCGood(L, timeouts, m, v, c)
    BY <2>1, TCGoodGrows
  <2> QED  BY <1>1, <2>2 DEF L, c
<1>12. ASSUME NEW nv \in newViews' PROVE NewViewGood(nv)'
  <2>1. nv \in newViews /\ NewViewGood(nv)
    BY <1>1 DEF LaneInv, TimeoutInv
  <2>2. TimedOut(nv.view)' = TimedOut(nv.view)
    BY <1>1 DEF TimedOut
  <2> QED  BY <1>1, <1>8, <2>1, <2>2 DEF NewViewGood
<1> QED  BY <1>9, <1>10, <1>11, <1>12 DEF LaneInv, TimeoutInv

\* The initial state.
LEMMA InitLane == Init => LaneInv
<1> SUFFICES ASSUME Init PROVE LaneInv
  OBVIOUS
<1>1. GenesisQC \in QCs /\ NoTC \in [voters : SUBSET Nodes, highQC : QCs] /\ QCView(GenesisQC) = 0
  BY SpecialQCs DEF NoTC
<1>2. NoRecord \in [ok : Nat, failed : Nat, run : Nat]
  BY DEF NoRecord
<1>3. InitNode \in NodeStates
  <2>1. <<>> \in Seq(BlockIds)
    OBVIOUS
  <2> HIDE DEF NoTC, NoRecord, GenesisQC
  <2> QED  BY <1>1, <1>2, <2>1 DEF InitNode, NodeStates
<1>4. /\ InitNode.store = {} /\ InitNode.highQC = GenesisQC /\ InitNode.lockedQC = GenesisQC
      /\ InitNode.commitQC = GenesisQC /\ InitNode.committed = <<>> /\ InitNode.view = 1
      /\ \A v \in Views : InitNode.tcs[v] = NoTC
  BY DEF InitNode
<1>5. NodeGood(CertifiedBlocks, content, InitNode) /\ Behind(InitNode)
  <2>1. IsFiniteSet({})
    BY FS_EmptySet
  <2>2. CommitsGood(CertifiedBlocks, InitNode)
    BY <1>4 DEF CommitsGood
  <2>3. RealQC(CertifiedBlocks, GenesisQC)
    BY <1>1 DEF RealQC
  <2> QED  BY <1>1, <1>3, <1>4, <2>1, <2>2, <2>3 DEF NodeGood, Behind
<1>6. Born = {}
  BY DEF Init, Born
<1>7. ChainInv
  <2>1. content \in [BlockIds -> Blocks \cup {Unborn}] /\ node \in [Honest -> NodeStates]
    BY <1>3 DEF Init
  <2>2. \A n \in Honest : node[n] = InitNode
    BY DEF Init
  <2> QED  BY <1>5, <1>6, <2>1, <2>2 DEF Init, ChainInv, TypeOK
<1>8. CollectorsGood
  <2> SUFFICES ASSUME NEW n \in Honest, NEW v \in Views
               PROVE  TCGood(CertifiedBlocks, timeouts, n, v, NoTC)
    BY <1>4 DEF CollectorsGood, Init
  <2>1. v \in Nat
    BY DEF Views
  <2> QED  BY <2>1, NoTCGood
<1> QED  BY <1>7, <1>8 DEF Init, LaneInv, TimeoutInv, TimeoutsGood

\* Every step of the lane keeps the invariant.
LEMMA NextKeepsLane ==
    LaneInv /\ [Next]_vars => LaneInv'
<1> SUFFICES ASSUME LaneInv, [Next]_vars PROVE LaneInv'
  OBVIOUS
<1>a. ChainInv /\ votes \subseteq Votes
  BY DEF LaneInv, ChainInv, TypeOK
<1>1. CASE Mempool
  <2>1. PICK n \in Honest : handleMempoolProposal(n)
    BY <1>1, HotStuffConstants DEF Mempool, Honest, Nodes
  <2>2. UNCHANGED <<votes, timeouts, newViews>>
    BY <2>1 DEF handleMempoolProposal
  <2> QED BY <1>a, <2>1, <2>2, MempoolMove, QuietKeepsLane
<1>2. CASE Proposal
  <2>1. PICK n \in Honest, b \in BlockIds : handleProposal(n, b) \/ handleEquivocation(n, b)
    BY <1>2 DEF Proposal, Born
  <2>2. GoodMove(n, node[n])
    BY <1>a, <2>1, ProposalMove, EquivocationMove
  <2>3. UNCHANGED <<timeouts, newViews>>
    BY <2>1 DEF handleProposal, handleEquivocation
  <2>4. UNCHANGED votes \/ votes' = votes \cup {[block |-> b, voter |-> n]}
    BY <2>1 DEF handleProposal, handleEquivocation
  <2>5. votes \subseteq votes' /\ votes' \subseteq Votes
    BY <1>a, <2>4 DEF Votes
  <2> QED BY <2>2, <2>3, <2>5, QuietKeepsLane
<1>3. CASE Vote
  <2>1. PICK n \in Honest, b \in BlockIds, w \in Nodes : handleVote(n, b, w)
    BY <1>3 DEF Vote, Born
  <2>2. UNCHANGED <<votes, timeouts, newViews>>
    BY <2>1 DEF handleVote
  <2> QED BY <1>a, <2>1, <2>2, VoteMove, QuietKeepsLane
<1>4. CASE Timer
  BY <1>4, TimeoutKeepsLane DEF Timer
<1>5. CASE TimeoutVote
  BY <1>5, TimeoutVoteKeepsLane DEF TimeoutVote
<1>6. CASE NewView
  <2>1. PICK n \in Honest, nv \in newViews \cup FaultyNewViews : handleNewView(n, nv)
    BY <1>6 DEF NewView
  <2>2. nv.view \in Views /\ nv.highQC \in QCs
    <3>1. CASE nv \in newViews
      BY <1>a, <3>1 DEF ChainInv, TypeOK
    <3>2. CASE nv \in FaultyNewViews
      BY <3>2, ClaimedTyped, SpecialQCs, HotStuffConstants DEF FaultyNewViews, Views
    <3> QED BY <2>1, <3>1, <3>2
  <2>3. UNCHANGED <<votes, timeouts, newViews>>
    BY <2>1 DEF handleNewView
  <2> QED BY <1>a, <2>1, <2>2, <2>3, NewViewMove, QuietKeepsLane
<1>7. CASE Faults
  BY <1>7, FaultsKeepLane DEF Faults
<1>8. CASE UNCHANGED vars
  BY <1>8 DEF vars, LaneInv, ChainInv, TimeoutInv, TypeOK, Born, CertifiedBlocks, Certified,
              Signers, TimeoutsGood, CollectorsGood, TCGood, NewViewGood, TimedOut
<1> QED
  BY <1>1, <1>2, <1>3, <1>4, <1>5, <1>6, <1>7, <1>8 DEF Next

\* Reachable states satisfy the invariant.
LEMMA LaneInvariant ==
    Spec => []LaneInv
  BY InitLane, NextKeepsLane, PTL DEF Spec

\* The engine, the pacemaker, the collectors and the messages keep their types:
\* in particular no vote, timeout vote or NewView is sent for a view past the
\* bound, and every certificate field holds a certificate.
THEOREM LaneTypeCorrect ==
    Spec => []TypeOK
<1>1. LaneInv => TypeOK
  BY DEF LaneInv, ChainInv
<1> QED BY <1>1, LaneInvariant, PTL

\* The highest, locked and committed certificates of an honest engine were signed
\* by a quorum, for every number of validators: handleProposal takes over a justify
\* certificate, handleVote one it has collected, handleNewView one it was sent, and
\* all of them go through verifyQC, while view-1 and genesis justifies, which do
\* not, cannot name a block.
THEOREM LaneCertificatesAreReal ==
    Spec => []CertificatesAreReal
<1>1. ASSUME LaneInv PROVE CertificatesAreReal
  <2>1. ASSUME NEW qc, RealQC(CertifiedBlocks, qc)
        PROVE  qc = GenesisQC \/ (qc.block \in Born /\ Certified(qc.block))
    BY <2>1 DEF RealQC, CertifiedBlocks
  <2>2. \A n \in Honest : \A qc \in {node[n].highQC, node[n].lockedQC, node[n].commitQC} :
            RealQC(CertifiedBlocks, qc)
    BY <1>1 DEF LaneInv, ChainInv, NodeGood
  <2> QED  BY <2>1, <2>2 DEF CertificatesAreReal
<1> QED BY <1>1, LaneInvariant, PTL

\* Committed, locked and highest certificate stay in the order of their views, and
\* the pacemaker has left the view of the highest: ProcessBlock may lock and commit
\* in one call, and OnVoteQC and the NewView handler raise highQC on their own.
THEOREM LaneChainStateOrdered ==
    Spec => []ChainStateOrdered
<1>1. LaneInv => ChainStateOrdered
  BY DEF LaneInv, ChainInv, NodeGood, Behind, ChainStateOrdered
<1> QED BY <1>1, LaneInvariant, PTL

\* commit sends blocks on outputChan in increasing view order, each one certified
\* and in the block tree, whichever of the fast path and the 3-chain rule commits.
THEOREM LaneCommitsIncrease ==
    Spec => []CommitsIncrease
<1>1. LaneInv => CommitsIncrease
  BY DEF LaneInv, ChainInv, NodeGood, CommitsGood, CertifiedBlocks, CommitsIncrease
<1> QED BY <1>1, LaneInvariant, PTL

\* A NewView that handleTimeoutVote broadcasts stands for a quorum of timeouts and
\* carries a certificate that verifyQC accepts at every peer, no lower than that
\* of an honest voter it counted.
THEOREM LaneNewViewsAreAccepted ==
    Spec => []NewViewsAreAccepted
<1>1. ASSUME LaneInv PROVE NewViewsAreAccepted
  <2> SUFFICES ASSUME NEW nv \in newViews
               PROVE  /\ Cardinality(TimedOut(nv.view)) >= Quorum
                      /\ nv.highQC.block \in Born
                      /\ Certified(nv.highQC.block) /\ QCView(nv.highQC) <= nv.view
                      /\ \A tv \in timeouts :
                            tv.view = nv.view /\ tv.voter \in node[nv.from].tcs[nv.view].voters
                               => QCView(tv.highQC) <= QCView(nv.highQC)
    BY DEF NewViewsAreAccepted
  <2>1. NewViewGood(nv) /\ nv.view \in Views /\ nv.from \in Honest
    BY <1>1 DEF LaneInv, ChainInv, TypeOK, TimeoutInv
  <2>2. TCGood(CertifiedBlocks, timeouts, nv.from, nv.view, node[nv.from].tcs[nv.view])
    BY <1>1, <2>1 DEF LaneInv, TimeoutInv, CollectorsGood
  <2>3. ASSUME NEW tv \in timeouts, tv.view = nv.view,
               tv.voter \in node[nv.from].tcs[nv.view].voters
        PROVE  QCView(tv.highQC) <= QCView(nv.highQC)
    BY <2>1, <2>2, <2>3 DEF TCGood, NewViewGood
  <2> QED  BY <2>1, <2>3 DEF NewViewGood, CertifiedBlocks
<1> QED BY <1>1, LaneInvariant, PTL
=============================================================================
