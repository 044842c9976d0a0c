------------------------- MODULE EpochPipelineProofs ------------------------
(***************************************************************************)
(* The closed loop and the epoch orderer, for every set of instances,      *)
(* agents, commits and margins and for logs and chains of every length:    *)
(* what was applied was certified before, a rollback is safe, the counts   *)
(* are right until the first rollback, and checkpoints are canonical.      *)
(*                                                                         *)
(* The inductive invariant EpochInv adds to the properties that every      *)
(* version of the chain carries a margin no instance falls below, and that *)
(* the checkpoint on its way to the log is canonical already.  An entry    *)
(* that gets its quorum late leaves the certified entries alone.           *)
(***************************************************************************)
EXTENDS EpochPipeline, FiniteSetTheorems, WellFoundedInduction, TLAPS

-----------------------------------------------------------------------------
(* Least and greatest numbers.                                             *)

\* A finite set of numbers, not empty, has a least element.
LEMMA LeastOf ==
    ASSUME NEW S \in SUBSET Int, IsFiniteSet(S), S # {}
    PROVE  Min(S) \in S /\ \A y \in S : Min(S) <= y
<1> DEFINE R == StrictSubsetOrdering(S)
           Below(b) == {a \in S : a < b}
           I == {Below(b) : b \in S}
<1>1. IsWellFoundedOn(R, FiniteSubsetsOf(S))
  BY FS_StrictSubsetOrderingWellFounded
<1>2. I \subseteq FiniteSubsetsOf(S) /\ I # {}
  <2>1. ASSUME NEW b \in S PROVE IsFiniteSet(Below(b))
    BY FS_Subset
  <2> QED  BY <2>1 DEF FiniteSubsetsOf
<1>3. PICK m \in I : \A t \in I : ~(<<t, m>> \in R)
  <2> HIDE DEF I, R
  <2> QED  BY <1>1, <1>2, WFMin
<1>4. PICK b \in S : m = Below(b)
  OBVIOUS
<1>5. ASSUME NEW a \in S, a < b PROVE FALSE
  <2>1. a \in Below(b) /\ a \notin Below(a) /\ Below(a) \subseteq Below(b)
    <3>1. b \in Int /\ a \in Int /\ \A x \in S : x \in Int
      OBVIOUS
    <3>2. \A x \in S : x < a => x < b
      BY <1>5, <3>1
    <3>3. ~(a < a)
      BY <3>1
    <3> QED  BY <1>5, <3>2, <3>3
  <2>2. <<Below(a), Below(b)>> \in R
    BY <2>1 DEF StrictSubsetOrdering
  <2> QED  BY <1>3, <1>4, <2>2
<1>6. \A y \in S : b <= y
  BY <1>5
<1> QED  BY <1>6 DEF Min

\* And a greatest one.
LEMMA GreatestOf ==
    ASSUME NEW S \in SUBSET Int, IsFiniteSet(S), S # {}
    PROVE  Max(S) \in S
<1> DEFINE T == {-x : x \in S}
           f == [x \in S |-> -x]
<1>1. f \in Surjection(S, T)
  BY DEF Surjection
<1>2. IsFiniteSet(T) /\ T \in SUBSET Int /\ T # {}
  <2> HIDE DEF f
  <2>1. IsFiniteSet(T)
    <3> HIDE DEF T
    <3> QED  BY <1>1, FS_Surjection
  <2>2. \A x \in S : x \in Int /\ -x \in Int
    OBVIOUS
  <2>3. \A t \in T : t \in Int
    BY <2>2
  <2>4. T # {}
    OBVIOUS
  <2> HIDE DEF T
  <2> QED  BY <2>1, <2>3, <2>4
<1>3. PICK t \in T : \A y \in T : t <= y
  <2> HIDE DEF T
  <2> QED  BY <1>2, LeastOf
<1>4. -t \in S /\ \A y \in S : -t >= y
  <2>1. PICK x \in S : t = -x
    OBVIOUS
  <2>2. x \in Int /\ -t = x
    BY <2>1
  <2>3. ASSUME NEW y \in S PROVE x >= y
    <3>1. y \in Int /\ -y \in T
      OBVIOUS
    <3>2. -x <= -y
      BY <1>3, <2>1, <3>1
    <3> QED  BY <2>2, <3>1, <3>2
  <2> QED  BY <2>2, <2>3
<1>5. \E x \in S : \A y \in S : x >= y
  BY <1>4
<1> QED  BY <1>5 DEF Max

-----------------------------------------------------------------------------
(* The log, a sequence of records of several kinds.                        *)

Sequence(s) == s \in Seq({s[h] : h \in 1..Len(s)})

\* A sequence over any set is one.
LEMMA IsSequence ==
    ASSUME NEW S, NEW s \in Seq(S)
    PROVE  Sequence(s)
<1>1. s \in [1..Len(s) -> {s[h] : h \in 1..Len(s)}] /\ Len(s) \in Nat
  OBVIOUS
<1> QED  BY <1>1 DEF Sequence

\* An entry is added at the end and the others stay.
LEMMA AppendKeeps ==
    ASSUME NEW s, Sequence(s), NEW x
    PROVE  /\ Sequence(Append(s, x)) /\ Len(s) \in Nat
           /\ Len(Append(s, x)) = Len(s) + 1
           /\ \A h \in 1..Len(s) : Append(s, x)[h] = s[h]
           /\ Append(s, x)[Len(s) + 1] = x
<1> DEFINE S == {s[h] : h \in 1..Len(s)} \cup {x}
<1>1. s \in Seq({s[h] : h \in 1..Len(s)})
  BY DEF Sequence
<1>2. s \in Seq(S) /\ x \in S
  <2>1. s \in [1..Len(s) -> S] /\ Len(s) \in Nat
    BY <1>1
  <2> HIDE DEF S
  <2>2. s \in Seq(S)
    BY <2>1
  <2> USE DEF S
  <2> QED  BY <2>2
<1> HIDE DEF S
<1>3. Append(s, x) \in Seq(S)
  BY <1>2
<1>4. Sequence(Append(s, x))
  BY <1>3, IsSequence
<1> QED  BY <1>2, <1>4

Changed(s, k, x) == [s EXCEPT ![k] = x]

\* An entry is changed and the others stay.
LEMMA ChangeKeeps ==
    ASSUME NEW s, Sequence(s), NEW k \in 1..Len(s), NEW x
    PROVE  /\ Sequence(Changed(s, k, x)) /\ Len(Changed(s, k, x)) = Len(s)
           /\ \A h \in 1..Len(s) : Changed(s, k, x)[h] = IF h = k THEN x ELSE s[h]
<1> DEFINE S == {s[h] : h \in 1..Len(s)} \cup {x}
           t == [s EXCEPT ![k] = x]
<1>1. s \in Seq({s[h] : h \in 1..Len(s)})
  BY DEF Sequence
<1>2. Len(s) \in Nat /\ DOMAIN s = 1..Len(s)
  BY <1>1
<1>3. t \in [1..Len(s) -> S]
  BY <1>2
<1>4. t \in Seq(S) /\ Len(t) = Len(s)
  <2> HIDE DEF S, t
  <2> QED  BY <1>2, <1>3
<1>5. Sequence(t)
  <2> HIDE DEF S, t
  <2> QED  BY <1>4, IsSequence
<1>6. \A h \in 1..Len(s) : t[h] = IF h = k THEN x ELSE s[h]
  BY <1>2
<1>7. Changed(s, k, x) = t
  BY DEF Changed
<1> HIDE DEF t
<1> QED  BY <1>4, <1>5, <1>6, <1>7

-----------------------------------------------------------------------------
(* The order of a checkpoint.                                              *)

\* What CheckpointsAreCanonical says of one checkpoint.
Canonical(ordered, e) ==
    /\ \A k \in 1..(Len(ordered) - 1) : Before(ordered[k], ordered[k + 1])
    /\ \A k \in DOMAIN ordered : ordered[k].epoch = e
    /\ {ordered[k].inst : k \in DOMAIN ordered} = Instances

\* Of two commits of an epoch one is before the other.
LEMMA BeforeIsTotal ==
    ASSUME NEW e, NEW outputs \in SUBSET Commits, \A c \in outputs : c.epoch = e
    PROVE  /\ \A c \in outputs : ~Before(c, c)
           /\ \A c, d \in outputs : c # d => Before(c, d) \/ Before(d, c)
           /\ \A a, b, c \in outputs : Before(a, b) /\ Before(b, c) => Before(a, c)
<1>1. \A c \in outputs : c \in Commits /\ c.rank \in Nat /\ c.inst \in Nat
  BY OrdererConstants
<1>2. \A c, d \in outputs : c.rank = d.rank /\ c.inst = d.inst => c = d
  BY <1>1, RanksAreDistinct
<1>3. \A c \in outputs : ~Before(c, c)
  BY <1>1 DEF Before
<1>4. \A c, d \in outputs : c # d => Before(c, d) \/ Before(d, c)
  BY <1>1, <1>2 DEF Before
<1>5. \A a, b, c \in outputs : Before(a, b) /\ Before(b, c) => Before(a, c)
  BY <1>1 DEF Before
<1> QED  BY <1>3, <1>4, <1>5

\* produceGlobalOrder lists the commits of a complete epoch, each once, by rank and
\* instance: the number of commits before a commit is its place.
LEMMA OrderIsCanonical ==
    ASSUME NEW e, NEW outputs \in SUBSET Commits, \A c \in outputs : c.epoch = e,
           Complete(outputs)
    PROVE  Canonical(produceGlobalOrder(outputs), e)
<1> DEFINE n == Cardinality(outputs)
           Earlier(c) == {d \in outputs : Before(d, c)}
           place == [c \in outputs |-> Cardinality(Earlier(c))]
           ordered == produceGlobalOrder(outputs)
<1>1. IsFiniteSet(outputs) /\ n \in Nat
  BY OrdererConstants, FS_Subset, FS_CardinalityType
<1>2. ASSUME NEW c \in outputs PROVE place[c] \in 0..(n - 1)
  <2>1. Earlier(c) \in SUBSET outputs /\ c \notin Earlier(c)
    BY BeforeIsTotal
  <2>2. /\ IsFiniteSet(Earlier(c)) /\ Cardinality(Earlier(c)) <= n
        /\ n = Cardinality(Earlier(c)) => outputs = Earlier(c)
    <3> HIDE DEF Earlier
    <3> QED  BY <1>1, <2>1, FS_Subset
  <2>3. Cardinality(Earlier(c)) \in Nat
    <3> HIDE DEF Earlier
    <3> QED  BY <2>2, FS_CardinalityType
  <2>4. place[c] = Cardinality(Earlier(c))
    OBVIOUS
  <2> HIDE DEF Earlier, place, n
  <2> QED  BY <1>1, <2>1, <2>2, <2>3, <2>4
<1>3. ASSUME NEW c \in outputs, NEW d \in outputs, Before(c, d) PROVE place[c] < place[d]
  <2>1. Earlier(c) \in SUBSET Earlier(d) /\ c \in Earlier(d) /\ c \notin Earlier(c)
    BY <1>3, BeforeIsTotal
  <2>2. IsFiniteSet(Earlier(d))
    BY <1>1, FS_Subset
  <2>3. /\ Cardinality(Earlier(c)) <= Cardinality(Earlier(d))
        /\ Cardinality(Earlier(d)) = Cardinality(Earlier(c)) => Earlier(d) = Earlier(c)
    <3> HIDE DEF Earlier
    <3> QED  BY <2>1, <2>2, FS_Subset
  <2>4. place[c] = Cardinality(Earlier(c)) /\ place[d] = Cardinality(Earlier(d))
    OBVIOUS
  <2>5. place[c] \in Nat /\ place[d] \in Nat
    <3> HIDE DEF place, n
    <3> QED  BY <1>1, <1>2
  <2> HIDE DEF Earlier, place, n
  <2> QED  BY <2>1, <2>3, <2>4, <2>5
<1>4. \A c, d \in outputs : place[c] = place[d] => c = d
  <2> SUFFICES ASSUME NEW c \in outputs, NEW d \in outputs, place[c] = place[d], c # d
               PROVE  FALSE
    OBVIOUS
  <2>1. Before(c, d) \/ Before(d, c)
    BY BeforeIsTotal
  <2>2. place[c] \in Nat /\ place[d] \in Nat
    <3> HIDE DEF place, n
    <3> QED  BY <1>1, <1>2
  <2>3. place[c] < place[d] \/ place[d] < place[c]
    <3> HIDE DEF place
    <3> QED  BY <1>3, <2>1
  <2> HIDE DEF place
  <2> QED  BY <2>2, <2>3
<1>5. ASSUME NEW k \in 1..n PROVE \E c \in outputs : place[c] = k - 1
  <2>1. place \in Injection(outputs, 0..(n - 1))
    <3>1. place = [c \in outputs |-> place[c]]
      OBVIOUS
    <3> HIDE DEF place, n
    <3>2. place \in [outputs -> 0..(n - 1)]
      BY <1>2, <3>1
    <3> QED  BY <1>4, <3>2 DEF Injection, IsInjective
  <2>2. IsFiniteSet(0..(n - 1)) /\ Cardinality(0..(n - 1)) = n
    <3> HIDE DEF n
    <3>1. n - 1 \in Int /\ 0 \in Int
      BY <1>1
    <3>2. /\ IsFiniteSet(0..(n - 1))
          /\ Cardinality(0..(n - 1)) = IF 0 > n - 1 THEN 0 ELSE n - 1 - 0 + 1
      BY <3>1, FS_Interval
    <3> QED  BY <1>1, <3>2
  <2>3. place \in Surjection(outputs, 0..(n - 1))
    <3> HIDE DEF place
    <3> QED  BY <2>1, <2>2, FS_Injection
  <2>4. k - 1 \in 0..(n - 1)
    <3> HIDE DEF n
    <3> QED  BY <1>1
  <2> HIDE DEF place, n
  <2> QED  BY <2>3, <2>4 DEF Surjection
<1>6. DOMAIN ordered = 1..n /\ Len(ordered) = n
  BY <1>1 DEF produceGlobalOrder
<1>7. ASSUME NEW k \in 1..n PROVE ordered[k] \in outputs /\ place[ordered[k]] = k - 1
  <2>1. ordered[k] = CHOOSE c \in outputs : Cardinality(Earlier(c)) = k - 1
    BY DEF produceGlobalOrder
  <2>2. \E c \in outputs : Cardinality(Earlier(c)) = k - 1
    BY <1>5
  <2>3. ordered[k] \in outputs /\ Cardinality(Earlier(ordered[k])) = k - 1
    <3> HIDE DEF ordered, Earlier
    <3> QED  BY <2>1, <2>2
  <2> HIDE DEF ordered
  <2> QED  BY <2>3
<1> HIDE DEF ordered, place, n
<1>8. ASSUME NEW k \in 1..(Len(ordered) - 1) PROVE Before(ordered[k], ordered[k + 1])
  <2>1. k \in 1..n /\ k + 1 \in 1..n
    BY <1>1, <1>6
  <2>2. /\ ordered[k] \in outputs /\ ordered[k + 1] \in outputs
        /\ place[ordered[k]] = k - 1 /\ place[ordered[k + 1]] = k
    BY <1>7, <2>1
  <2>3. ordered[k] # ordered[k + 1] /\ ~(place[ordered[k + 1]] < place[ordered[k]])
    BY <2>1, <2>2
  <2> QED  BY <1>3, <2>2, <2>3, BeforeIsTotal
<1>9. {ordered[k].inst : k \in DOMAIN ordered} = Instances
  <2>1. \A k \in DOMAIN ordered : ordered[k] \in outputs
    BY <1>6, <1>7
  <2>2. ASSUME NEW c \in outputs PROVE \E k \in DOMAIN ordered : ordered[k] = c
    <3> DEFINE k == place[c] + 1
    <3>1. k \in 1..n /\ k - 1 = place[c]
      BY <1>1, <1>2
    <3>2. ordered[k] \in outputs /\ place[ordered[k]] = k - 1
      <4> HIDE DEF k
      <4> QED  BY <1>7, <3>1
    <3>3. place[ordered[k]] = place[c]
      <4> HIDE DEF k
      <4> QED  BY <3>1, <3>2
    <3>4. ordered[k] = c
      <4> HIDE DEF k
      <4> QED  BY <1>4, <3>2, <3>3
    <3>5. k \in DOMAIN ordered
      BY <1>6, <3>1
    <3> HIDE DEF k
    <3> QED  BY <3>4, <3>5
  <2>3. {c.inst : c \in outputs} = Instances
    BY DEF Complete
  <2> QED  BY <2>1, <2>2, <2>3
<1>10. \A k \in DOMAIN ordered : ordered[k].epoch = e
  BY <1>6, <1>7
<1>11. Canonical(ordered, e)
  BY <1>8, <1>9, <1>10 DEF Canonical
<1> QED  BY <1>11 DEF ordered

-----------------------------------------------------------------------------
(* The inductive invariant.                                                *)

\* The log is a sequence of entries that have a kind, checkpoints an epoch.
LogInv ==
    /\ Sequence(entries)
    /\ \A h \in 1..Len(entries) :
          /\ "kind" \in DOMAIN entries[h]
          /\ entries[h].kind = "checkpoint" => entries[h].epoch \in Nat

OrdererInv ==
    /\ epochOutputs \in [OrdererEpochs -> SUBSET Commits]
    /\ \A e \in OrdererEpochs : \A c \in epochOutputs[e] : c.epoch = e
    /\ ordererEpoch \in Nat
    /\ \A p \in publishing : p.epoch \in Nat /\ Canonical(p.ordered, p.epoch)

InstancesInv ==
    /\ agents = [i \in Instances |-> agents[i]]
    /\ \A i \in Instances : agents[i] \subseteq InitialAgents[i]
    /\ count \in [Instances -> Nat] /\ faults \in [Instances -> Nat]
    /\ todo \subseteq Instances
    /\ stage = "instances" => todo # {}

Params == [count : [Instances -> Nat], faults : [Instances -> Nat]]

Versions == [params : Params, phi : Int, status : {"COMMITTED", "ROLLEDBACK"}]

\* No instance has less than the margin of the version.
Covered(v) == \A i \in Instances : v.phi <= v.params.count[i] - 3 * v.params.faults[i] - 1

ChainInv ==
    /\ versionChain \in Seq(Versions)
    /\ \A k \in 1..Len(versionChain) : Covered(versionChain[k])

\* The two halves of CommitThenApply.
EvictionsCertified ==
    \A i \in Instances : \A a \in InitialAgents[i] \ agents[i] :
        \E h \in 1..Len(entries) :
            /\ entries[h].kind = "membership" /\ Durable(entries[h])
            /\ entries[h].inst = i /\ a \in entries[h].evicted

VersionCertified(k, v) ==
    \E h \in 1..Len(entries) :
        /\ entries[h].kind = "version" /\ Durable(entries[h])
        /\ entries[h].id = k - 1 /\ entries[h].version = v

VersionsCertified == \A k \in 2..Len(versionChain) : VersionCertified(k, versionChain[k])

EpochInv ==
    /\ LogInv /\ OrdererInv /\ InstancesInv /\ ChainInv
    /\ CheckpointsAreCanonical
    /\ EvictionsCertified /\ VersionsCertified
    /\ RollbackIsSafe
    /\ CountsAreAgents

-----------------------------------------------------------------------------
(* What a step does to the log.                                            *)

\* Durable entries stay where they are, and durable means what it did before.
Kept ==
    /\ gbcNodes' = gbcNodes
    /\ \A h \in 1..Len(entries) : Durable(entries[h]) =>
           h \in 1..Len(entries') /\ entries'[h] = entries[h]

\* Every checkpoint was there before.
NoNewCheckpoint ==
    \A h \in 1..Len(entries') : entries'[h].kind = "checkpoint" =>
        h \in 1..Len(entries) /\ entries'[h] = entries[h]

\* A step that leaves the log alone.
LEMMA LogUnchanged ==
    ASSUME LogInv, UNCHANGED entries, UNCHANGED gbcNodes
    PROVE  LogInv' /\ Kept /\ NoNewCheckpoint
<1>1. entries' = entries
  OBVIOUS
<1>2. LogInv'
  BY <1>1 DEF LogInv, Sequence
<1> QED  BY <1>1, <1>2 DEF Kept, NoNewCheckpoint

\* A step that adds an entry.
LEMMA LogAppended ==
    ASSUME LogInv, UNCHANGED gbcNodes, NEW entry, entries' = Append(entries, entry),
           "kind" \in DOMAIN entry,
           entry.kind = "checkpoint" => entry.epoch \in Nat
    PROVE  /\ LogInv' /\ Kept
           /\ entry.kind # "checkpoint" => NoNewCheckpoint
           /\ Len(entries) \in Nat /\ Len(entries') = Len(entries) + 1
           /\ \A h \in 1..Len(entries) : entries'[h] = entries[h]
           /\ entries'[Len(entries) + 1] = entry
<1>1. /\ Sequence(entries') /\ Len(entries) \in Nat /\ Len(entries') = Len(entries) + 1
      /\ \A h \in 1..Len(entries) : entries'[h] = entries[h]
      /\ entries'[Len(entries) + 1] = entry
  BY AppendKeeps DEF LogInv
<1>2. \A h \in 1..Len(entries') : h \in 1..Len(entries) \/ h = Len(entries) + 1
  BY <1>1
<1>3. \A h \in 1..Len(entries) : h \in 1..Len(entries')
  BY <1>1
<1>4. \A h \in 1..Len(entries) :
          /\ "kind" \in DOMAIN entries[h]
          /\ entries[h].kind = "checkpoint" => entries[h].epoch \in Nat
  BY DEF LogInv
<1>5. LogInv'
  <2>1. ASSUME NEW h \in 1..Len(entries')
        PROVE  /\ "kind" \in DOMAIN entries'[h]
               /\ entries'[h].kind = "checkpoint" => entries'[h].epoch \in Nat
    <3>1. CASE h \in 1..Len(entries)
      BY <1>1, <1>4, <3>1
    <3>2. CASE h = Len(entries) + 1
      BY <1>1, <3>2
    <3> QED  BY <1>2, <3>1, <3>2
  <2>2. Sequence(entries)'
    BY <1>1 DEF Sequence
  <2> QED  BY <2>1, <2>2 DEF LogInv
<1>6. Kept
  BY <1>1, <1>3 DEF Kept
<1>7. ASSUME entry.kind # "checkpoint" PROVE NoNewCheckpoint
  BY <1>1, <1>2, <1>7 DEF NoNewCheckpoint
<1> QED  BY <1>1, <1>5, <1>6, <1>7

\* publishToGBC: what it does not refuse is in the log.
LEMMA Published ==
    ASSUME LogInv, UNCHANGED gbcNodes, NEW entry, NEW outcome,
           publishToGBC(entry, outcome), "kind" \in DOMAIN entry, entry.kind # "checkpoint"
    PROVE  /\ LogInv' /\ Kept /\ NoNewCheckpoint
           /\ outcome # "refused" => \E h \in 1..Len(entries') : entries'[h] = entry
<1>1. CASE outcome = "refused"
  BY <1>1, LogUnchanged DEF publishToGBC
<1>2. CASE outcome # "refused"
  <2>1. entries' = Append(entries, entry)
    BY <1>2 DEF publishToGBC
  <2>2. /\ LogInv' /\ Kept /\ NoNewCheckpoint
        /\ Len(entries) \in Nat /\ Len(entries') = Len(entries) + 1
        /\ entries'[Len(entries) + 1] = entry
    BY <2>1, LogAppended
  <2>3. Len(entries) + 1 \in 1..Len(entries')
    BY <2>2
  <2> QED  BY <2>2, <2>3
<1> QED  BY <1>1, <1>2

\* The checkpoints stay canonical.
LEMMA CheckpointsStay ==
    ASSUME CheckpointsAreCanonical, NoNewCheckpoint, UNCHANGED ordererEpoch
    PROVE  CheckpointsAreCanonical'
<1>1. \A h \in 1..Len(entries) : entries[h].kind = "checkpoint" =>
          Canonical(entries[h].ordered, entries[h].epoch) /\ entries[h].epoch < ordererEpoch
  BY DEF CheckpointsAreCanonical, Canonical, Before
<1>2. \A h \in 1..Len(entries') : entries'[h].kind = "checkpoint" =>
          Canonical(entries'[h].ordered, entries'[h].epoch) /\ entries'[h].epoch < ordererEpoch'
  BY <1>1 DEF NoNewCheckpoint
<1> QED  BY <1>2 DEF CheckpointsAreCanonical, Canonical, Before

\* And the evictions that were certified stay certified.
LEMMA EvictionsStay ==
    ASSUME EvictionsCertified, Kept, UNCHANGED agents
    PROVE  EvictionsCertified'
BY DEF EvictionsCertified, Kept, Durable

\* A version that was certified stays certified.
LEMMA VersionStays ==
    ASSUME NEW k, NEW v, VersionCertified(k, v), Kept
    PROVE  \E h \in 1..Len(entries') :
              /\ entries'[h].kind = "version" /\ Durable(entries'[h])
              /\ entries'[h].id = k - 1 /\ entries'[h].version = v
BY DEF VersionCertified, Kept

-----------------------------------------------------------------------------
(* The chain of versions.                                                  *)

\* What RollbackIsSafe says of one version that was rolled back to.
SafeReturn(chain, k) ==
    chain[k].status = "ROLLEDBACK" =>
        /\ \E j \in 1..k : chain[j].status = "COMMITTED" /\ chain[j].params = chain[k].params
        /\ \A i \in Instances :
              chain[k].params.count[i] >= 3 * chain[k].params.faults[i] + 1 + DeltaS

ChainGood(chain) ==
    /\ chain \in Seq(Versions)
    /\ \A k \in 1..Len(chain) : Covered(chain[k]) /\ SafeReturn(chain, k)

AllCommitted(chain) == \A k \in 1..Len(chain) : chain[k].status = "COMMITTED"

\* ChainGood is what the invariant says of the chain.
LEMMA ChainIsGood ==
    ASSUME ChainInv, RollbackIsSafe
    PROVE  ChainGood(versionChain)
BY DEF ChainInv, RollbackIsSafe, ChainGood, SafeReturn

\* A good chain in the next state keeps the invariant.
LEMMA ChainStaysGood ==
    ASSUME NEW chain, ChainGood(chain), versionChain' = chain
    PROVE  ChainInv' /\ RollbackIsSafe'
BY DEF ChainInv, RollbackIsSafe, ChainGood, SafeReturn, Covered, Versions, Params

\* FaultsOf is a natural number.
LEMMA FaultsType ==
    ASSUME NEW n \in Nat
    PROVE  FaultsOf(n) \in Nat
BY DEF FaultsOf

\* The margin of the current configuration is at most that of each instance.
LEMMA PhiIsLeast ==
    ASSUME InstancesInv
    PROVE  /\ computePhi \in Int
           /\ \A i \in Instances : computePhi <= count[i] - 3 * faults[i] - 1
<1> DEFINE margin == [i \in Instances |-> count[i] - 3 * faults[i] - 1]
           M == {count[i] - 3 * faults[i] - 1 : i \in Instances}
           g == GBCMembers - 3 * FaultsOf(GBCMembers) - 1
           S == M \cup {g}
<1>1. \A i \in Instances : count[i] - 3 * faults[i] - 1 \in Int
  BY DEF InstancesInv
<1>2. g \in Int
  <2>1. GBCMembers \in Nat
    BY PipelineConstants
  <2>2. FaultsOf(GBCMembers) \in Nat
    BY <2>1, FaultsType
  <2> QED  BY <2>1, <2>2
<1>3. margin \in Surjection(Instances, M)
  BY DEF Surjection
<1>4. IsFiniteSet(M)
  <2> HIDE DEF margin, M
  <2> QED  BY <1>3, FS_Surjection, OrdererConstants
<1>5. IsFiniteSet(S)
  <2> HIDE DEF M, g
  <2> QED  BY <1>4, FS_AddElement
<1>6. S \in SUBSET Int /\ S # {}
  <2>1. \A x \in M : x \in Int
    BY <1>1
  <2> HIDE DEF M, g
  <2> QED  BY <1>2, <2>1
<1>7. Min(S) \in S /\ \A y \in S : Min(S) <= y
  <2> HIDE DEF S
  <2> QED  BY <1>5, <1>6, LeastOf
<1>8. computePhi = Min(S)
  BY DEF computePhi, ComputePhi
<1>9. \A i \in Instances : count[i] - 3 * faults[i] - 1 \in S
  OBVIOUS
<1> HIDE DEF S
<1> QED  BY <1>6, <1>7, <1>8, <1>9

\* The version of the current configuration.
LEMMA CommittedGood ==
    ASSUME InstancesInv
    PROVE  Committed \in Versions /\ Covered(Committed) /\ Committed.status = "COMMITTED"
<1>1. computePhi \in Int /\ \A i \in Instances : computePhi <= count[i] - 3 * faults[i] - 1
  BY PhiIsLeast
<1>2. currentConfigParams \in Params
  BY DEF InstancesInv, currentConfigParams, Params
<1>3. Committed \in Versions
  BY <1>1, <1>2 DEF Committed, Versions
<1>4. Covered(Committed)
  BY <1>1 DEF Covered, Committed, currentConfigParams
<1> QED  BY <1>3, <1>4 DEF Committed

\* A version is added to the chain.
LEMMA ChainGrows ==
    ASSUME NEW chain, ChainGood(chain), NEW v \in Versions, Covered(v),
           v.status = "ROLLEDBACK" =>
               /\ \E j \in 1..Len(chain) : chain[j].status = "COMMITTED" /\ chain[j].params = v.params
               /\ \A i \in Instances : v.params.count[i] >= 3 * v.params.faults[i] + 1 + DeltaS
    PROVE  ChainGood(Append(chain, v))
<1> DEFINE c == Append(chain, v)
<1>1. /\ chain \in Seq(Versions) /\ c \in Seq(Versions)
      /\ Len(chain) \in Nat /\ Len(c) = Len(chain) + 1
      /\ \A k \in 1..Len(chain) : c[k] = chain[k]
      /\ c[Len(chain) + 1] = v
  BY DEF ChainGood
<1> HIDE DEF c
<1>2. \A k \in 1..Len(c) : k \in 1..Len(chain) \/ k = Len(chain) + 1
  BY <1>1
<1>3. ASSUME NEW k \in 1..Len(chain) PROVE Covered(c[k]) /\ SafeReturn(c, k)
  <2>1. \A j \in 1..k : j \in 1..Len(chain)
    BY <1>1
  <2>2. Covered(chain[k]) /\ SafeReturn(chain, k)
    BY DEF ChainGood
  <2> QED  BY <1>1, <2>1, <2>2 DEF SafeReturn
<1>4. Covered(c[Len(chain) + 1]) /\ SafeReturn(c, Len(chain) + 1)
  <2>1. \A j \in 1..Len(chain) : j \in 1..(Len(chain) + 1)
    BY <1>1
  <2> QED  BY <1>1, <2>1 DEF SafeReturn
<1>5. ChainGood(c)
  BY <1>1, <1>2, <1>3, <1>4 DEF ChainGood
<1> QED  BY <1>5 DEF c

\* The chain once it is seeded.
LEMMA SeededGood ==
    ASSUME InstancesInv, ChainInv, RollbackIsSafe, VersionsCertified
    PROVE  /\ ChainGood(SeededChain) /\ Len(SeededChain) \in Nat \ {0}
           /\ \A k \in 2..Len(SeededChain) : VersionCertified(k, SeededChain[k])
           /\ AllCommitted(SeededChain) => AllCommitted(versionChain)
<1>1. CASE versionChain = <<>>
  <2>1. SeededChain = <<Committed>>
    BY <1>1 DEF SeededChain, NewVersionChain
  <2>2. Committed \in Versions /\ Covered(Committed) /\ Committed.status = "COMMITTED"
    BY CommittedGood
  <2>3. /\ <<Committed>> \in Seq(Versions) /\ Len(<<Committed>>) = 1
        /\ <<Committed>>[1] = Committed
    BY <2>2
  <2>4. \A k \in 1..1 : k = 1
    OBVIOUS
  <2>5. ChainGood(<<Committed>>)
    BY <2>2, <2>3, <2>4 DEF ChainGood, SafeReturn
  <2>6. 2..1 = {} /\ Len(versionChain) = 0 /\ 1..0 = {}
    BY <1>1
  <2> QED  BY <2>1, <2>3, <2>5, <2>6 DEF AllCommitted
<1>2. CASE versionChain # <<>>
  <2>1. SeededChain = versionChain
    BY <1>2 DEF SeededChain
  <2>2. Len(versionChain) \in Nat \ {0}
    BY <1>2 DEF ChainInv
  <2> QED  BY <2>1, <2>2, ChainIsGood DEF VersionsCertified
<1> QED  BY <1>1, <1>2

\* The version a rollback restores.
LEMMA RolledBackGood ==
    ASSUME NEW chain, ChainGood(chain), Len(chain) \in Nat \ {0}, SafeVersions(chain) # {}
    PROVE  LET target == SafeAncestor(chain)
               v == RolledBack(target)
           IN  /\ target \in Versions /\ v \in Versions /\ Covered(v)
               /\ v.status = "ROLLEDBACK" /\ v.params = target.params
               /\ \E j \in 1..Len(chain) : chain[j].status = "COMMITTED" /\ chain[j].params = v.params
               /\ \A i \in Instances : v.params.count[i] >= 3 * v.params.faults[i] + 1 + DeltaS
<1> DEFINE j == Max(SafeVersions(chain))
           target == SafeAncestor(chain)
           v == RolledBack(target)
<1>1. SafeVersions(chain) \in SUBSET (1..Len(chain))
  <2> DEFINE last == IF Len(chain) = 1 THEN 1 ELSE Len(chain) - 1
  <2>1. last \in Nat /\ last <= Len(chain)
    OBVIOUS
  <2>2. SafeVersions(chain) \subseteq 1..last
    BY DEF SafeVersions
  <2> HIDE DEF last
  <2> QED  BY <2>1, <2>2
<1>2. IsFiniteSet(1..Len(chain)) /\ 1..Len(chain) \subseteq Int
  BY FS_Interval
<1>3. IsFiniteSet(SafeVersions(chain)) /\ SafeVersions(chain) \in SUBSET Int
  BY <1>1, <1>2, FS_Subset
<1>4. j \in SafeVersions(chain)
  BY <1>3, GreatestOf
<1>5. j \in 1..Len(chain) /\ chain[j].status = "COMMITTED" /\ chain[j].phi >= DeltaS
  BY <1>1, <1>4 DEF SafeVersions
<1>6. target = chain[j]
  BY DEF SafeAncestor
<1> HIDE DEF j
<1>7. target \in Versions /\ Covered(target)
  BY <1>5, <1>6 DEF ChainGood
<1> HIDE DEF target
<1>8. /\ v \in Versions /\ v.status = "ROLLEDBACK"
      /\ v.params = target.params /\ v.phi = target.phi
  BY <1>7 DEF RolledBack, Versions
<1> HIDE DEF v
<1>9. Covered(v)
  BY <1>7, <1>8 DEF Covered
<1>10. ASSUME NEW i \in Instances
       PROVE  v.params.count[i] >= 3 * v.params.faults[i] + 1 + DeltaS
  <2>1. /\ v.params.count[i] \in Int /\ v.params.faults[i] \in Int /\ v.phi \in Int
    BY <1>8 DEF Versions, Params
  <2>2. v.phi >= DeltaS /\ v.phi <= v.params.count[i] - 3 * v.params.faults[i] - 1
    BY <1>5, <1>6, <1>8, <1>9 DEF Covered
  <2>3. DeltaS \in Int
    BY PipelineConstants
  <2>4. \A n, f, p \in Int : p >= DeltaS /\ p <= n - 3 * f - 1 => n >= 3 * f + 1 + DeltaS
    BY <2>3
  <2> QED  BY <2>1, <2>2, <2>4
<1> QED  BY <1>5, <1>6, <1>7, <1>8, <1>9, <1>10 DEF target, v

-----------------------------------------------------------------------------
(* The actions.                                                            *)

\* A step of the pipeline leaves the orderer alone.
LEMMA OrdererUnchanged ==
    ASSUME OrdererInv, UNCHANGED ordererVars
    PROVE  OrdererInv'
BY DEF OrdererInv, ordererVars

\* A step that changes no instance.
LEMMA InstancesUnchanged ==
    ASSUME InstancesInv, UNCHANGED instanceVars, todo' \subseteq Instances,
           stage' = "instances" => todo' # {}
    PROVE  InstancesInv'
BY DEF InstancesInv, instanceVars

\* The versions of a chain that does not change stay certified.
LEMMA VersionsStay ==
    ASSUME VersionsCertified, Kept, UNCHANGED versionChain
    PROVE  VersionsCertified'
<1>1. \A k \in 2..Len(versionChain) : \E h \in 1..Len(entries') :
          /\ entries'[h].kind = "version" /\ Durable(entries'[h])
          /\ entries'[h].id = k - 1 /\ entries'[h].version = versionChain[k]
  BY VersionStays DEF VersionsCertified
<1>2. gbcNodes' = gbcNodes
  BY DEF Kept
<1> QED  BY <1>1, <1>2 DEF VersionsCertified, VersionCertified, Durable

\* A chain that does not change stays good.
LEMMA ChainUnchanged ==
    ASSUME ChainInv, RollbackIsSafe, UNCHANGED versionChain
    PROVE  ChainInv' /\ RollbackIsSafe'
BY ChainIsGood, ChainStaysGood

\* The counts stay right as long as a step leaves the instances alone.
LEMMA CountsStay ==
    ASSUME CountsAreAgents, UNCHANGED instanceVars, NEW chain, versionChain' = chain,
           AllCommitted(chain) => AllCommitted(versionChain)
    PROVE  CountsAreAgents'
<1>1. (\A k \in 1..Len(versionChain) : versionChain[k].status = "COMMITTED")'
          => AllCommitted(chain)
  BY DEF AllCommitted
<1>2. AllCommitted(versionChain) =>
          \A k \in 1..Len(versionChain) : versionChain[k].status = "COMMITTED"
  BY DEF AllCommitted
<1> QED  BY <1>1, <1>2 DEF CountsAreAgents, instanceVars

\* A step that only touches the log and the stage.
LEMMA QuietStep ==
    ASSUME EpochInv, LogInv', Kept, NoNewCheckpoint,
           UNCHANGED <<ordererVars, instanceVars, versionChain>>,
           todo' \subseteq Instances, stage' = "instances" => todo' # {}
    PROVE  EpochInv'
<1> USE DEF EpochInv
<1>1. OrdererInv' /\ InstancesInv' /\ ChainInv' /\ RollbackIsSafe'
  BY OrdererUnchanged, InstancesUnchanged, ChainUnchanged
<1>2. UNCHANGED ordererEpoch /\ UNCHANGED agents
  BY DEF ordererVars, instanceVars
<1>3. CheckpointsAreCanonical' /\ EvictionsCertified' /\ VersionsCertified'
  BY <1>2, CheckpointsStay, EvictionsStay, VersionsStay
<1>4. CountsAreAgents'
  BY CountsStay
<1> QED  BY <1>1, <1>3, <1>4

\* ProcessEpoch starts with all the instances to do.
LEMMA StartEpochKeeps ==
    ASSUME EpochInv, StartEpoch, UNCHANGED gbcNodes
    PROVE  EpochInv'
<1>1. LogInv' /\ Kept /\ NoNewCheckpoint
  BY LogUnchanged DEF EpochInv, StartEpoch
<1>2. todo' = Instances /\ Instances # {}
  BY OrdererConstants DEF StartEpoch
<1> QED  BY <1>1, <1>2, QuietStep DEF StartEpoch

\* The trust update is an entry of the log and no more.
LEMMA PublishTrustKeeps ==
    ASSUME EpochInv, PublishTrust, UNCHANGED gbcNodes
    PROVE  EpochInv'
<1>1. PICK outcome \in Outcomes : publishToGBC(PolicyEntry(outcome), outcome)
  BY DEF PublishTrust
<1>2. "kind" \in DOMAIN PolicyEntry(outcome) /\ PolicyEntry(outcome).kind # "checkpoint"
  BY DEF PolicyEntry
<1>3. LogInv' /\ Kept /\ NoNewCheckpoint
  BY <1>1, <1>2, Published DEF EpochInv
<1>4. todo' \subseteq Instances /\ stage' # "instances"
  BY DEF PublishTrust, EpochInv, InstancesInv
<1> QED  BY <1>3, <1>4, QuietStep DEF PublishTrust

\* The entry that gets its quorum is no checkpoint and was not durable yet.
LEMMA LateCommitKeeps ==
    ASSUME EpochInv, LateCommit, UNCHANGED gbcNodes
    PROVE  EpochInv'
<1>1. PICK k \in 1..Len(entries) :
          /\ entries[k].kind # "checkpoint" /\ ~Durable(entries[k])
          /\ entries' = [entries EXCEPT ![k].committed = TRUE]
  BY DEF LateCommit, Durable
<1> DEFINE late == [entries[k] EXCEPT !.committed = TRUE]
<1>2. entries' = [entries EXCEPT ![k] = late]
  BY <1>1
<1>3. "kind" \in DOMAIN late /\ late.kind = entries[k].kind /\ late.kind # "checkpoint"
  <2>1. "kind" \in DOMAIN entries[k] /\ entries[k].kind # "checkpoint"
    BY <1>1 DEF EpochInv, LogInv
  <2> QED  BY <2>1
<1> HIDE DEF late
<1>4. /\ Sequence(entries') /\ Len(entries') = Len(entries)
      /\ \A h \in 1..Len(entries) : h # k => entries'[h] = entries[h]
      /\ entries'[k] = late
  <2>1. Sequence(entries)
    BY DEF EpochInv, LogInv
  <2> DEFINE t == Changed(entries, k, late)
  <2>2. /\ Sequence(t) /\ Len(t) = Len(entries)
        /\ \A h \in 1..Len(entries) : t[h] = IF h = k THEN late ELSE entries[h]
    BY <2>1, ChangeKeeps
  <2>3. entries' = t
    BY <1>2 DEF Changed
  <2> HIDE DEF t
  <2> QED  BY <2>2, <2>3
<1>5. LogInv'
  <2>1. Sequence(entries)'
    BY <1>4 DEF Sequence
  <2>2. \A h \in 1..Len(entries) :
            /\ "kind" \in DOMAIN entries[h]
            /\ entries[h].kind = "checkpoint" => entries[h].epoch \in Nat
    BY DEF EpochInv, LogInv
  <2>3. ASSUME NEW h \in 1..Len(entries')
        PROVE  /\ "kind" \in DOMAIN entries'[h]
               /\ entries'[h].kind = "checkpoint" => entries'[h].epoch \in Nat
    BY <1>3, <1>4, <2>2
  <2> QED  BY <2>1, <2>3 DEF LogInv
<1>6. Kept
  BY <1>1, <1>4 DEF Kept
<1>7. NoNewCheckpoint
  BY <1>3, <1>4 DEF NoNewCheckpoint
<1>8. todo' \subseteq Instances /\ (stage' = "instances" => todo' # {})
  BY DEF LateCommit, stageVars, EpochInv, InstancesInv
<1> QED  BY <1>5, <1>6, <1>7, <1>8, QuietStep DEF LateCommit

\* Every epoch's commits are of the epoch, the new one too.
LEMMA SubmitCommitKeeps ==
    ASSUME EpochInv, NEW c \in Commits, SubmitCommit(c),
           UNCHANGED <<gbcNodes, instanceVars, versionChain, epoch, stageVars>>
    PROVE  EpochInv'
<1> DEFINE outputs == epochOutputs[c.epoch] \cup {c}
           order == produceGlobalOrder(outputs)
<1>1. c.epoch \in OrdererEpochs /\ c.epoch \in Nat
  BY OrdererConstants DEF OrdererEpochs
<1>2. outputs \in SUBSET Commits /\ \A d \in outputs : d.epoch = c.epoch
  BY <1>1 DEF EpochInv, OrdererInv
<1>3. epochOutputs' = [epochOutputs EXCEPT ![c.epoch] = outputs]
  BY DEF SubmitCommit
<1>4. /\ epochOutputs' \in [OrdererEpochs -> SUBSET Commits]
      /\ \A e \in OrdererEpochs : \A d \in epochOutputs'[e] : d.epoch = e
  <2> HIDE DEF outputs
  <2> QED  BY <1>1, <1>2, <1>3 DEF EpochInv, OrdererInv
<1>5. \A p \in publishing' : p.epoch \in Nat /\ Canonical(p.ordered, p.epoch)
  <2>1. CASE Complete(outputs)
    <3>1. publishing' = {[epoch |-> c.epoch, height |-> Len(entries), ordered |-> order]}
      BY <2>1 DEF SubmitCommit
    <3>2. Canonical(order, c.epoch)
      <4> HIDE DEF outputs
      <4> QED  BY <1>2, <2>1, OrderIsCanonical
    <3> HIDE DEF order
    <3> QED  BY <1>1, <3>1, <3>2
  <2>2. CASE ~Complete(outputs)
    <3>1. publishing' = {}
      BY <2>2 DEF SubmitCommit
    <3> QED  BY <3>1
  <2> HIDE DEF outputs
  <2> QED  BY <2>1, <2>2
<1>6. UNCHANGED entries /\ UNCHANGED ordererEpoch
  BY DEF SubmitCommit
<1>7. OrdererInv'
  BY <1>4, <1>5, <1>6 DEF OrdererInv, EpochInv
<1>8. LogInv' /\ Kept /\ NoNewCheckpoint
  BY <1>6, LogUnchanged DEF EpochInv
<1> HIDE DEF outputs
<1>9. ChainInv' /\ RollbackIsSafe'
  BY ChainUnchanged DEF EpochInv
<1>10. InstancesInv'
  BY DEF EpochInv, InstancesInv, instanceVars, stageVars
<1>11. CheckpointsAreCanonical' /\ EvictionsCertified' /\ VersionsCertified'
  BY <1>6, <1>8, CheckpointsStay, EvictionsStay, VersionsStay DEF EpochInv, instanceVars
<1>12. CountsAreAgents'
  BY CountsStay DEF EpochInv
<1> QED  BY <1>7, <1>8, <1>9, <1>10, <1>11, <1>12 DEF EpochInv

\* The checkpoint that is published is the one SubmitCommit has built.
LEMMA publishEpochCheckpointKeeps ==
    ASSUME EpochInv, publishEpochCheckpoint,
           UNCHANGED <<gbcNodes, instanceVars, versionChain, epoch, stageVars>>
    PROVE  EpochInv'
<1>1. PICK p \in publishing :
          /\ publishing' = {}
          /\ \/ /\ p.height = Len(entries) /\ Len(entries) < MaxLog
                /\ entries' = Append(entries, [kind |-> "checkpoint", epoch |-> p.epoch,
                                               ordered |-> p.ordered, committed |-> FALSE])
                /\ ordererEpoch' = IF p.epoch >= ordererEpoch THEN p.epoch + 1 ELSE ordererEpoch
                /\ epochOutputs' = [e \in OrdererEpochs |->
                                       IF e + 2 <= ordererEpoch' THEN {} ELSE epochOutputs[e]]
             \/ /\ p.height # Len(entries)
                /\ UNCHANGED <<entries, ordererEpoch, epochOutputs>>
  BY DEF publishEpochCheckpoint
<1>2. p.epoch \in Nat /\ Canonical(p.ordered, p.epoch) /\ ordererEpoch \in Nat
  BY DEF EpochInv, OrdererInv
<1>3. /\ epochOutputs \in [OrdererEpochs -> SUBSET Commits]
      /\ \A e \in OrdererEpochs : \A c \in epochOutputs[e] : c.epoch = e
  BY DEF EpochInv, OrdererInv
<1>4. ChainInv' /\ RollbackIsSafe' /\ InstancesInv' /\ CountsAreAgents'
  <2>1. ChainInv' /\ RollbackIsSafe'
    BY ChainUnchanged DEF EpochInv
  <2>2. InstancesInv'
    BY DEF EpochInv, InstancesInv, instanceVars, stageVars
  <2>3. CountsAreAgents'
    BY CountsStay DEF EpochInv
  <2> QED  BY <2>1, <2>2, <2>3
<1>5. UNCHANGED agents
  BY DEF instanceVars
<1>6. CASE p.height = Len(entries)
  <2> DEFINE entry == [kind |-> "checkpoint", epoch |-> p.epoch,
                       ordered |-> p.ordered, committed |-> FALSE]
  <2>1. entries' = Append(entries, entry)
    BY <1>1, <1>6
  <2>2. /\ "kind" \in DOMAIN entry /\ entry.kind = "checkpoint"
        /\ entry.epoch = p.epoch /\ entry.ordered = p.ordered
    OBVIOUS
  <2> HIDE DEF entry
  <2>3. /\ LogInv' /\ Kept
        /\ Len(entries) \in Nat /\ Len(entries') = Len(entries) + 1
        /\ \A h \in 1..Len(entries) : entries'[h] = entries[h]
        /\ entries'[Len(entries) + 1] = entry
    BY <1>2, <2>1, <2>2, LogAppended DEF EpochInv
  <2>4. /\ ordererEpoch' = IF p.epoch >= ordererEpoch THEN p.epoch + 1 ELSE ordererEpoch
        /\ epochOutputs' = [e \in OrdererEpochs |->
                               IF e + 2 <= ordererEpoch' THEN {} ELSE epochOutputs[e]]
    BY <1>1, <1>6
  <2>5. ordererEpoch' \in Nat /\ p.epoch < ordererEpoch' /\ ordererEpoch <= ordererEpoch'
    BY <1>2, <2>4
  <2>6. /\ epochOutputs' \in [OrdererEpochs -> SUBSET Commits]
        /\ \A e \in OrdererEpochs : \A c \in epochOutputs'[e] : c.epoch = e
    BY <1>3, <2>4
  <2>7. OrdererInv'
    BY <1>1, <2>5, <2>6 DEF OrdererInv
  <2>8. CheckpointsAreCanonical'
    <3>1. \A h \in 1..Len(entries) : entries[h].kind = "checkpoint" =>
              Canonical(entries[h].ordered, entries[h].epoch) /\ entries[h].epoch < ordererEpoch
      BY DEF EpochInv, CheckpointsAreCanonical, Canonical, Before
    <3>2. ASSUME NEW h \in 1..Len(entries'), entries'[h].kind = "checkpoint"
          PROVE  Canonical(entries'[h].ordered, entries'[h].epoch) /\ entries'[h].epoch < ordererEpoch'
      <4>1. CASE h = Len(entries) + 1
        BY <1>2, <2>2, <2>3, <2>5, <4>1
      <4>2. CASE h # Len(entries) + 1
        <5>1. h \in 1..Len(entries) /\ entries'[h] = entries[h]
          BY <2>3, <4>2
        <5>2. Canonical(entries[h].ordered, entries[h].epoch) /\ entries[h].epoch < ordererEpoch
          BY <3>1, <3>2, <5>1
        <5>3. entries[h].epoch \in Nat
          BY <3>2, <5>1 DEF EpochInv, LogInv
        <5> QED  BY <1>2, <2>5, <5>1, <5>2, <5>3
      <4> QED  BY <4>1, <4>2
    <3> QED  BY <3>2 DEF CheckpointsAreCanonical, Canonical, Before
  <2>9. EvictionsCertified' /\ VersionsCertified'
    BY <1>5, <2>3, EvictionsStay, VersionsStay DEF EpochInv
  <2> QED  BY <1>4, <2>3, <2>7, <2>8, <2>9 DEF EpochInv
<1>7. CASE p.height # Len(entries)
  <2>1. UNCHANGED <<entries, ordererEpoch, epochOutputs>>
    BY <1>1, <1>7
  <2>2. LogInv' /\ Kept /\ NoNewCheckpoint
    BY <2>1, LogUnchanged DEF EpochInv
  <2>3. OrdererInv'
    BY <1>1, <1>2, <1>3, <2>1 DEF OrdererInv
  <2>4. CheckpointsAreCanonical' /\ EvictionsCertified' /\ VersionsCertified'
    BY <1>5, <2>1, <2>2, CheckpointsStay, EvictionsStay, VersionsStay DEF EpochInv
  <2> QED  BY <1>4, <2>2, <2>3, <2>4 DEF EpochInv
<1> QED  BY <1>6, <1>7

\* The evictions are of agents of the instance, and the filter leaves the threshold.
LEMMA EvictionsFit ==
    ASSUME InstancesInv, NEW i \in Instances, NEW evicted \in Evictions(i)
    PROVE  /\ evicted \subseteq agents[i] /\ IsFiniteSet(evicted)
           /\ Cardinality(evicted) \in Nat /\ Cardinality(evicted) <= count[i]
           /\ evicted # {} => count[i] - Cardinality(evicted) >= Threshold
<1> DEFINE suspected == {a \in candidates : containsAgent(i, a)}
           k == IF Cardinality(suspected) < Evictable(i) THEN Cardinality(suspected) ELSE Evictable(i)
<1>1. count[i] \in Nat /\ Threshold \in Nat
  BY PipelineConstants DEF InstancesInv, Threshold
<1>2. evicted \subseteq suspected /\ Cardinality(evicted) = k
  BY DEF Evictions, kSubset
<1>3. suspected \subseteq agents[i] /\ agents[i] \subseteq InitialAgents[i]
  BY DEF containsAgent, InstancesInv
<1>4. IsFiniteSet(InitialAgents[i])
  BY PipelineConstants
<1>5. IsFiniteSet(suspected) /\ IsFiniteSet(evicted)
  <2> HIDE DEF suspected
  <2> QED  BY <1>2, <1>3, <1>4, FS_Subset
<1>6. Cardinality(suspected) \in Nat /\ Cardinality(evicted) \in Nat
  <2> HIDE DEF suspected
  <2> QED  BY <1>5, FS_CardinalityType
<1>7. Evictable(i) \in Nat /\ Evictable(i) <= count[i]
  BY <1>1 DEF Evictable
<1>8. Cardinality(evicted) <= Evictable(i)
  <2> HIDE DEF suspected
  <2> QED  BY <1>2, <1>6, <1>7
<1>9. ASSUME evicted # {} PROVE count[i] - Cardinality(evicted) >= Threshold
  <2>1. Cardinality(evicted) # 0
    BY <1>5, <1>9, FS_EmptySet
  <2> QED  BY <1>1, <1>6, <1>8, <2>1 DEF Evictable
<1> HIDE DEF suspected
<1> QED  BY <1>1, <1>2, <1>3, <1>5, <1>6, <1>7, <1>8, <1>9

\* The next instance is one of the instances.
LEMMA NextInstance ==
    ASSUME InstancesInv, stage = "instances"
    PROVE  Min(todo) \in todo /\ Min(todo) \in Instances
<1>1. todo \in SUBSET Instances /\ todo # {}
  BY DEF InstancesInv
<1>2. IsFiniteSet(todo) /\ todo \in SUBSET Int
  <2>1. Instances \subseteq Nat /\ IsFiniteSet(Instances)
    BY OrdererConstants
  <2>2. IsFiniteSet(todo)
    BY <1>1, <2>1, FS_Subset
  <2>3. \A x \in todo : x \in Int
    BY <1>1, <2>1
  <2> QED  BY <2>2, <2>3
<1> QED  BY <1>1, <1>2, LeastOf

\* What an eviction that is applied does to its instance.
LEMMA ApplyKeeps ==
    ASSUME EpochInv, NEW i \in Instances, NEW evicted \in Evictions(i), evicted # {},
           agents' = [agents EXCEPT ![i] = removeAgents(@, evicted)],
           count' = [count EXCEPT ![i] = @ - Cardinality(evicted)],
           faults' = [faults EXCEPT ![i] = FaultsOf(count'[i])],
           todo' \subseteq Instances, stage' = "instances" => todo' # {},
           UNCHANGED versionChain
    PROVE  InstancesInv' /\ CountsAreAgents'
<1>1. /\ evicted \subseteq agents[i] /\ IsFiniteSet(evicted)
      /\ Cardinality(evicted) \in Nat /\ Cardinality(evicted) <= count[i]
      /\ count[i] - Cardinality(evicted) >= Threshold
  BY EvictionsFit DEF EpochInv
<1>2. /\ agents = [j \in Instances |-> agents[j]]
      /\ \A j \in Instances : agents[j] \subseteq InitialAgents[j]
      /\ count \in [Instances -> Nat] /\ faults \in [Instances -> Nat]
  BY DEF EpochInv, InstancesInv
<1>3. /\ agents' = [j \in Instances |-> agents'[j]]
      /\ agents'[i] = agents[i] \ evicted
      /\ \A j \in Instances : j # i => agents'[j] = agents[j]
  BY <1>2 DEF removeAgents
<1>4. /\ count' \in [Instances -> Nat]
      /\ count'[i] = count[i] - Cardinality(evicted)
      /\ \A j \in Instances : j # i => count'[j] = count[j]
  BY <1>1, <1>2
<1>5. faults' \in [Instances -> Nat]
  <2>1. FaultsOf(count'[i]) \in Nat
    BY <1>4, FaultsType
  <2> QED  BY <1>2, <2>1
<1>6. InstancesInv'
  BY <1>2, <1>3, <1>4, <1>5 DEF InstancesInv
<1>7. CountsAreAgents'
  <2> SUFFICES ASSUME (\A k \in 1..Len(versionChain) : versionChain[k].status = "COMMITTED")'
               PROVE  (\A j \in Instances :
                          /\ count[j] = Cardinality(agents[j])
                          /\ Cardinality(agents[j]) >= Threshold \/ agents[j] = InitialAgents[j])'
    BY DEF CountsAreAgents
  <2>1. \A j \in Instances :
            /\ count[j] = Cardinality(agents[j])
            /\ Cardinality(agents[j]) >= Threshold \/ agents[j] = InitialAgents[j]
    BY DEF EpochInv, CountsAreAgents
  <2>2. IsFiniteSet(agents[i])
    BY <1>2, PipelineConstants, FS_Subset
  <2>3. Cardinality(agents[i] \ evicted) = Cardinality(agents[i]) - Cardinality(evicted)
    <3>1. agents[i] \cap evicted = evicted
      BY <1>1
    <3>2. Cardinality(agents[i] \ evicted)
              = Cardinality(agents[i]) - Cardinality(agents[i] \cap evicted)
      BY <2>2, FS_Difference
    <3> QED  BY <3>1, <3>2
  <2>4. count'[i] = Cardinality(agents'[i]) /\ Cardinality(agents'[i]) >= Threshold
    BY <1>1, <1>3, <1>4, <2>1, <2>3
  <2>5. \A j \in Instances :
            /\ count'[j] = Cardinality(agents'[j])
            /\ Cardinality(agents'[j]) >= Threshold \/ agents'[j] = InitialAgents[j]
    BY <1>3, <1>4, <2>1, <2>4
  <2> QED  BY <2>5 DEF Threshold
<1> QED  BY <1>6, <1>7

\* An instance loses agents only with the entry that names them.
LEMMA ReconfigureInstanceKeeps ==
    ASSUME EpochInv, ReconfigureInstance, UNCHANGED gbcNodes
    PROVE  EpochInv'
<1> DEFINE i == Min(todo)
<1>1. i \in Instances
  BY NextInstance DEF EpochInv, ReconfigureInstance
<1>2. /\ Advance(i)
      /\ UNCHANGED <<ordererVars, versionChain>>
  BY DEF ReconfigureInstance
<1>3. PICK evicted \in Evictions(i) :
          \/ evicted = {} /\ UNCHANGED <<entries, instanceVars, actions>>
          \/ /\ evicted # {}
             /\ \E outcome \in Outcomes :
                   /\ publishToGBC(MembershipEntry(i, evicted, outcome), outcome)
                   /\ ApplyEvictions(i, evicted, outcome)
  BY DEF ReconfigureInstance
<1> HIDE DEF i
<1>4. todo' \subseteq Instances /\ (stage' = "instances" => todo' # {})
  BY <1>2 DEF Advance, EpochInv, InstancesInv
<1>5. CASE evicted = {} /\ UNCHANGED <<entries, instanceVars, actions>>
  <2>1. LogInv' /\ Kept /\ NoNewCheckpoint
    BY <1>5, LogUnchanged DEF EpochInv
  <2> QED  BY <1>2, <1>4, <1>5, <2>1, QuietStep
<1>6. ASSUME evicted # {}, NEW outcome \in Outcomes,
             publishToGBC(MembershipEntry(i, evicted, outcome), outcome),
             ApplyEvictions(i, evicted, outcome)
      PROVE  EpochInv'
  <2> DEFINE entry == MembershipEntry(i, evicted, outcome)
  <2>1. /\ "kind" \in DOMAIN entry /\ entry.kind = "membership" /\ entry.kind # "checkpoint"
        /\ entry.inst = i /\ entry.evicted = evicted
        /\ outcome = "ok" => Durable(entry)
    BY DEF MembershipEntry, Durable
  <2>2. publishToGBC(entry, outcome)
    BY <1>6
  <2> HIDE DEF entry
  <2>3. /\ LogInv' /\ Kept /\ NoNewCheckpoint
        /\ outcome # "refused" => \E h \in 1..Len(entries') : entries'[h] = entry
    BY <2>1, <2>2, Published DEF EpochInv
  <2>4. CASE outcome # "ok"
    <3>1. UNCHANGED instanceVars
      BY <1>6, <2>4 DEF ApplyEvictions
    <3> QED  BY <1>2, <1>4, <2>3, <3>1, QuietStep
  <2>5. CASE outcome = "ok"
    <3>1. /\ agents' = [agents EXCEPT ![i] = removeAgents(@, evicted)]
          /\ count' = [count EXCEPT ![i] = @ - Cardinality(evicted)]
          /\ faults' = [faults EXCEPT ![i] = FaultsOf(count'[i])]
      BY <1>6, <2>5 DEF ApplyEvictions
    <3>2. InstancesInv' /\ CountsAreAgents'
      BY <1>1, <1>2, <1>4, <1>6, <3>1, ApplyKeeps
    <3>3. ChainInv' /\ RollbackIsSafe' /\ OrdererInv'
      BY <1>2, ChainUnchanged, OrdererUnchanged DEF EpochInv
    <3>4. CheckpointsAreCanonical' /\ VersionsCertified'
      BY <1>2, <2>3, CheckpointsStay, VersionsStay DEF EpochInv, ordererVars
    <3>5. EvictionsCertified'
      <4>1. ASSUME NEW j \in Instances, NEW a \in InitialAgents[j], a \notin agents'[j]
            PROVE  \E h \in 1..Len(entries') :
                      /\ entries'[h].kind = "membership" /\ Durable(entries'[h])
                      /\ entries'[h].inst = j /\ a \in entries'[h].evicted
        <5>1. CASE a \notin agents[j]
          <6>1. \E h \in 1..Len(entries) :
                    /\ entries[h].kind = "membership" /\ Durable(entries[h])
                    /\ entries[h].inst = j /\ a \in entries[h].evicted
            BY <5>1 DEF EpochInv, EvictionsCertified
          <6> QED  BY <2>3, <6>1 DEF Kept
        <5>2. CASE a \in agents[j]
          <6>1. j = i /\ a \in evicted
            BY <3>1, <4>1, <5>2 DEF EpochInv, InstancesInv, removeAgents
          <6> QED  BY <2>1, <2>3, <2>5, <6>1
        <5> QED  BY <5>1, <5>2
      <4>2. gbcNodes' = gbcNodes
        OBVIOUS
      <4> QED  BY <4>1, <4>2 DEF EvictionsCertified, Durable
    <3> QED  BY <2>3, <3>2, <3>3, <3>4, <3>5 DEF EpochInv
  <2> QED  BY <2>4, <2>5
<1> QED  BY <1>3, <1>5, <1>6

\* The versions of a chain that has grown by a version that was published.
LEMMA VersionsGrow ==
    ASSUME NEW chain, ChainGood(chain), NEW v \in Versions, Kept,
           \A k \in 2..Len(chain) : VersionCertified(k, chain[k]),
           versionChain' = Append(chain, v),
           NEW entry, \E h \in 1..Len(entries') : entries'[h] = entry,
           entry.kind = "version", Durable(entry), entry.id = Len(chain), entry.version = v
    PROVE  VersionsCertified'
<1> DEFINE c == Append(chain, v)
           CertifiedNow(k) == \E h \in 1..Len(entries') :
               /\ entries'[h].kind = "version" /\ Durable(entries'[h])
               /\ entries'[h].id = k - 1 /\ entries'[h].version = c[k]
<1>1. /\ Len(chain) \in Nat /\ Len(c) = Len(chain) + 1
      /\ \A k \in 1..Len(chain) : c[k] = chain[k]
      /\ c[Len(chain) + 1] = v
  BY DEF ChainGood
<1> HIDE DEF c
<1>2. ASSUME NEW k \in 2..Len(c) PROVE CertifiedNow(k)
  <2>1. CASE k = Len(chain) + 1
    <3>1. k - 1 = Len(chain) /\ c[k] = v
      BY <1>1, <2>1
    <3> QED  BY <3>1
  <2>2. CASE k # Len(chain) + 1
    <3>1. k \in 2..Len(chain) /\ k \in 1..Len(chain)
      BY <1>1, <2>2
    <3>2. VersionCertified(k, chain[k]) /\ c[k] = chain[k]
      BY <1>1, <3>1
    <3>3. VersionCertified(k, c[k])
      BY <3>2
    <3> QED  BY <3>3 DEF VersionCertified, Kept
  <2> QED  BY <2>1, <2>2
<1>3. versionChain' = c
  BY DEF c
<1>4. gbcNodes' = gbcNodes
  BY DEF Kept
<1> QED  BY <1>2, <1>3, <1>4 DEF VersionsCertified, VersionCertified, Durable

\* The versions of a chain that is seeded and no more.
LEMMA VersionsSeeded ==
    ASSUME NEW chain, Kept, versionChain' = chain,
           \A k \in 2..Len(chain) : VersionCertified(k, chain[k])
    PROVE  VersionsCertified'
<1>1. \A k \in 2..Len(chain) : \E h \in 1..Len(entries') :
          /\ entries'[h].kind = "version" /\ Durable(entries'[h])
          /\ entries'[h].id = k - 1 /\ entries'[h].version = chain[k]
  BY VersionStays
<1>2. gbcNodes' = gbcNodes
  BY DEF Kept
<1> QED  BY <1>1, <1>2 DEF VersionsCertified, VersionCertified, Durable

\* A chain that has grown by a committed version has had no other before.
LEMMA AllCommittedBefore ==
    ASSUME NEW chain, ChainGood(chain), NEW v \in Versions, AllCommitted(Append(chain, v))
    PROVE  AllCommitted(chain) /\ v.status = "COMMITTED"
<1> DEFINE c == Append(chain, v)
<1>1. /\ Len(chain) \in Nat /\ Len(c) = Len(chain) + 1
      /\ \A k \in 1..Len(chain) : c[k] = chain[k]
      /\ c[Len(chain) + 1] = v
  BY DEF ChainGood
<1>2. AllCommitted(c)
  OBVIOUS
<1> HIDE DEF c
<1>3. \A k \in 1..Len(chain) : k \in 1..Len(c)
  BY <1>1
<1>4. Len(chain) + 1 \in 1..Len(c)
  BY <1>1
<1> QED  BY <1>1, <1>2, <1>3, <1>4 DEF AllCommitted

\* A version enters the chain after its entry.
LEMMA RecordVersionKeeps ==
    ASSUME EpochInv, RecordVersion, UNCHANGED gbcNodes
    PROVE  EpochInv'
<1>1. UNCHANGED <<ordererVars, instanceVars>> /\ todo' \subseteq Instances /\ stage' # "instances"
  BY DEF RecordVersion, EpochInv, InstancesInv
<1>2. CASE actions = 0 /\ UNCHANGED <<entries, versionChain>>
  <2>1. LogInv' /\ Kept /\ NoNewCheckpoint
    BY <1>2, LogUnchanged DEF EpochInv
  <2> QED  BY <1>1, <1>2, <2>1, QuietStep
<1>3. ASSUME NEW outcome \in Outcomes,
             publishToGBC(VersionEntry(Len(SeededChain), Committed, outcome), outcome),
             versionChain' = IF outcome = "ok" THEN AppendCommitted(SeededChain) ELSE SeededChain
      PROVE  EpochInv'
  <2> DEFINE v == Committed
             chain == SeededChain
             entry == VersionEntry(Len(chain), v, outcome)
  <2>1. /\ "kind" \in DOMAIN entry /\ entry.kind = "version" /\ entry.kind # "checkpoint"
        /\ entry.id = Len(chain) /\ entry.version = v
        /\ outcome = "ok" => Durable(entry)
    BY DEF VersionEntry, Durable
  <2>2. publishToGBC(entry, outcome)
    BY <1>3
  <2>3. v \in Versions /\ Covered(v) /\ v.status = "COMMITTED"
    BY CommittedGood DEF EpochInv
  <2>4. /\ ChainGood(chain)
        /\ \A k \in 2..Len(chain) : VersionCertified(k, chain[k])
        /\ AllCommitted(chain) => AllCommitted(versionChain)
    BY SeededGood DEF EpochInv
  <2>5. versionChain' = IF outcome = "ok" THEN Append(chain, v) ELSE chain
    BY <1>3 DEF AppendCommitted
  <2> HIDE DEF entry, v, chain
  <2>6. /\ LogInv' /\ Kept /\ NoNewCheckpoint
        /\ outcome # "refused" => \E h \in 1..Len(entries') : entries'[h] = entry
    BY <2>1, <2>2, Published DEF EpochInv
  <2>7. OrdererInv' /\ InstancesInv' /\ CheckpointsAreCanonical' /\ EvictionsCertified'
    <3>1. UNCHANGED agents /\ UNCHANGED ordererEpoch
      BY <1>1 DEF instanceVars, ordererVars
    <3> QED  BY <1>1, <2>6, <3>1, OrdererUnchanged, InstancesUnchanged, CheckpointsStay,
                EvictionsStay DEF EpochInv
  <2>8. CASE outcome = "ok"
    <3>1. versionChain' = Append(chain, v)
      BY <2>5, <2>8
    <3>2. ChainGood(Append(chain, v))
      BY <2>3, <2>4, ChainGrows
    <3>3. ChainInv' /\ RollbackIsSafe'
      BY <3>1, <3>2, ChainStaysGood
    <3>4. VersionsCertified'
      BY <2>1, <2>3, <2>4, <2>6, <2>8, <3>1, VersionsGrow
    <3>5. CountsAreAgents'
      <4>1. AllCommitted(Append(chain, v)) => AllCommitted(versionChain)
        BY <2>3, <2>4, AllCommittedBefore
      <4> QED  BY <1>1, <3>1, <4>1, CountsStay DEF EpochInv
    <3> QED  BY <2>6, <2>7, <3>3, <3>4, <3>5 DEF EpochInv
  <2>9. CASE outcome # "ok"
    <3>1. versionChain' = chain
      BY <2>5, <2>9
    <3>2. ChainInv' /\ RollbackIsSafe' /\ VersionsCertified' /\ CountsAreAgents'
      BY <1>1, <2>4, <2>6, <3>1, ChainStaysGood, VersionsSeeded, CountsStay DEF EpochInv
    <3> QED  BY <2>6, <2>7, <3>2 DEF EpochInv
  <2> QED  BY <2>8, <2>9
<1> QED  BY <1>2, <1>3 DEF RecordVersion

\* A rollback restores the counts of a version that was committed and had its margin.
LEMMA EvaluateAndRollbackKeeps ==
    ASSUME EpochInv, EvaluateAndRollback, UNCHANGED gbcNodes
    PROVE  EpochInv'
<1> DEFINE chain == SeededChain
           target == SafeAncestor(chain)
           v == RolledBack(target)
<1>1. /\ UNCHANGED <<ordererVars, agents, todo, stage>>
      /\ todo' \subseteq Instances /\ stage' # "instances"
  BY DEF EvaluateAndRollback, EpochInv, InstancesInv, stageVars
<1>2. /\ ChainGood(chain) /\ Len(chain) \in Nat \ {0}
      /\ \A k \in 2..Len(chain) : VersionCertified(k, chain[k])
      /\ AllCommitted(chain) => AllCommitted(versionChain)
  BY SeededGood DEF EpochInv
<1>3. \/ versionChain' = chain /\ UNCHANGED <<entries, count, faults>>
      \/ /\ SafeVersions(chain) # {}
         /\ \E outcome \in Outcomes :
               /\ publishToGBC(VersionEntry(Len(chain), v, outcome), outcome)
               /\ IF outcome = "ok"
                  THEN /\ versionChain' = Append(chain, v)
                       /\ count' = target.params.count /\ faults' = target.params.faults
                  ELSE versionChain' = chain /\ UNCHANGED <<count, faults>>
  BY DEF EvaluateAndRollback, EvaluateRollback, AppendRollback, restoreInstances
<1> HIDE DEF chain
<1>4. ASSUME LogInv', Kept, NoNewCheckpoint, versionChain' = chain, UNCHANGED <<count, faults>>
      PROVE  EpochInv'
  <2>1. UNCHANGED instanceVars /\ UNCHANGED ordererEpoch
    BY <1>1, <1>4 DEF instanceVars, ordererVars
  <2>2. OrdererInv' /\ InstancesInv' /\ CheckpointsAreCanonical' /\ EvictionsCertified'
    BY <1>1, <1>4, <2>1, OrdererUnchanged, InstancesUnchanged, CheckpointsStay, EvictionsStay
       DEF EpochInv
  <2>3. ChainInv' /\ RollbackIsSafe' /\ VersionsCertified' /\ CountsAreAgents'
    BY <1>2, <1>4, <2>1, ChainStaysGood, VersionsSeeded, CountsStay DEF EpochInv
  <2> QED  BY <1>4, <2>2, <2>3 DEF EpochInv
<1>5. CASE versionChain' = chain /\ UNCHANGED <<entries, count, faults>>
  <2>1. LogInv' /\ Kept /\ NoNewCheckpoint
    BY <1>5, LogUnchanged DEF EpochInv
  <2> QED  BY <1>4, <1>5, <2>1
<1>6. ASSUME SafeVersions(chain) # {}, NEW outcome \in Outcomes,
             publishToGBC(VersionEntry(Len(chain), v, outcome), outcome),
             IF outcome = "ok"
             THEN /\ versionChain' = Append(chain, v)
                  /\ count' = target.params.count /\ faults' = target.params.faults
             ELSE versionChain' = chain /\ UNCHANGED <<count, faults>>
      PROVE  EpochInv'
  <2>1. /\ target \in Versions /\ v \in Versions /\ Covered(v)
        /\ v.status = "ROLLEDBACK" /\ v.params = target.params
        /\ \E j \in 1..Len(chain) : chain[j].status = "COMMITTED" /\ chain[j].params = v.params
        /\ \A i \in Instances : v.params.count[i] >= 3 * v.params.faults[i] + 1 + DeltaS
    BY <1>2, <1>6, RolledBackGood
  <2> DEFINE entry == VersionEntry(Len(chain), v, outcome)
  <2> HIDE DEF v, target
  <2>2. /\ "kind" \in DOMAIN entry /\ entry.kind = "version" /\ entry.kind # "checkpoint"
        /\ entry.id = Len(chain) /\ entry.version = v
        /\ outcome = "ok" => Durable(entry)
    BY DEF VersionEntry, Durable
  <2>3. publishToGBC(entry, outcome)
    BY <1>6
  <2> HIDE DEF entry
  <2>4. /\ LogInv' /\ Kept /\ NoNewCheckpoint
        /\ outcome # "refused" => \E h \in 1..Len(entries') : entries'[h] = entry
    BY <2>2, <2>3, Published DEF EpochInv
  <2>5. CASE outcome # "ok"
    BY <1>4, <1>6, <2>4, <2>5
  <2>6. CASE outcome = "ok"
    <3>1. /\ versionChain' = Append(chain, v)
          /\ count' = target.params.count /\ faults' = target.params.faults
      BY <1>6, <2>6
    <3>2. ChainInv' /\ RollbackIsSafe'
      <4>1. ChainGood(Append(chain, v))
        BY <1>2, <2>1, ChainGrows
      <4> QED  BY <3>1, <4>1, ChainStaysGood
    <3>3. VersionsCertified'
      BY <1>2, <2>1, <2>2, <2>4, <2>6, <3>1, VersionsGrow
    <3>4. InstancesInv'
      <4>1. count' \in [Instances -> Nat] /\ faults' \in [Instances -> Nat]
        BY <2>1, <3>1 DEF Versions, Params
      <4> QED  BY <1>1, <4>1 DEF InstancesInv, EpochInv
    <3>5. CountsAreAgents'
      <4>1. ~AllCommitted(Append(chain, v))
        BY <1>2, <2>1, AllCommittedBefore
      <4>2. ~(\A k \in 1..Len(versionChain) : versionChain[k].status = "COMMITTED")'
        BY <3>1, <4>1 DEF AllCommitted
      <4> QED  BY <4>2 DEF CountsAreAgents
    <3>6. OrdererInv' /\ CheckpointsAreCanonical' /\ EvictionsCertified'
      <4>1. UNCHANGED ordererEpoch
        BY <1>1 DEF ordererVars
      <4> QED  BY <1>1, <2>4, <4>1, OrdererUnchanged, CheckpointsStay, EvictionsStay DEF EpochInv
    <3> QED  BY <2>4, <3>2, <3>3, <3>4, <3>5, <3>6 DEF EpochInv
  <2> QED  BY <2>5, <2>6
<1> QED  BY <1>3, <1>5, <1>6

-----------------------------------------------------------------------------
(* The theorems.                                                           *)

\* The pipeline starts with an empty log, no version and all its agents.
LEMMA InitEpochInv ==
    ASSUME Init
    PROVE  EpochInv
<1> USE DEF Init, OrdererInit
<1>1. entries = <<>> /\ Len(entries) = 0 /\ 1..0 = {}
  OBVIOUS
<1>2. LogInv /\ CheckpointsAreCanonical
  <2>1. Sequence(entries)
    <3>1. entries \in Seq({})
      BY <1>1
    <3> QED  BY <3>1, IsSequence
  <2> QED  BY <1>1, <2>1 DEF LogInv, CheckpointsAreCanonical
<1>3. OrdererInv
  BY DEF OrdererInv
<1>4. \A i \in Instances : Cardinality(InitialAgents[i]) \in Nat
  BY PipelineConstants, FS_CardinalityType
<1>5. InstancesInv
  <2>1. agents = [i \in Instances |-> agents[i]]
    BY PipelineConstants
  <2>2. count \in [Instances -> Nat]
    BY <1>4
  <2>3. faults \in [Instances -> Nat]
    BY PipelineConstants
  <2> QED  BY <2>1, <2>2, <2>3 DEF InstancesInv
<1>6. versionChain = <<>> /\ Len(versionChain) = 0 /\ 2..0 = {}
  OBVIOUS
<1>7. ChainInv /\ VersionsCertified /\ RollbackIsSafe
  BY <1>1, <1>6 DEF ChainInv, VersionsCertified, RollbackIsSafe
<1>8. EvictionsCertified /\ CountsAreAgents
  BY DEF EvictionsCertified, CountsAreAgents
<1> QED  BY <1>2, <1>3, <1>5, <1>7, <1>8 DEF EpochInv

\* Every step of the pipeline, of the orderer and of the beacon log keeps EpochInv.
LEMMA NextEpochInv ==
    ASSUME EpochInv, [Next]_vars
    PROVE  EpochInv'
<1>1. CASE StartEpoch /\ UNCHANGED gbcNodes
  BY <1>1, StartEpochKeeps
<1>2. CASE ReconfigureInstance /\ UNCHANGED gbcNodes
  BY <1>2, ReconfigureInstanceKeeps
<1>3. CASE RecordVersion /\ UNCHANGED gbcNodes
  BY <1>3, RecordVersionKeeps
<1>4. CASE PublishTrust /\ UNCHANGED gbcNodes
  BY <1>4, PublishTrustKeeps
<1>5. CASE EvaluateAndRollback /\ UNCHANGED gbcNodes
  BY <1>5, EvaluateAndRollbackKeeps
<1>6. CASE LateCommit /\ UNCHANGED gbcNodes
  BY <1>6, LateCommitKeeps
<1>7. CASE OrdererNext /\ UNCHANGED <<gbcNodes, instanceVars, versionChain, epoch, stageVars>>
  BY <1>7, SubmitCommitKeeps, publishEpochCheckpointKeeps DEF OrdererNext
<1>8. CASE UNCHANGED vars
  <2>1. LogInv' /\ Kept /\ NoNewCheckpoint
    BY <1>8, LogUnchanged DEF vars, EpochInv
  <2>2. todo' \subseteq Instances /\ (stage' = "instances" => todo' # {})
    BY <1>8 DEF vars, stageVars, EpochInv, InstancesInv
  <2> QED  BY <1>8, <2>1, <2>2, QuietStep DEF vars
<1> QED  BY <1>1, <1>2, <1>3, <1>4, <1>5, <1>6, <1>7, <1>8 DEF Next, ProcessEpoch

\* The inductive invariant holds.
THEOREM EpochInvariant == Spec => []EpochInv
<1>1. Init => EpochInv
  BY InitEpochInv
<1>2. EpochInv /\ [Next]_vars => EpochInv'
  BY NextEpochInv
<1> QED  BY <1>1, <1>2, PTL DEF Spec

\* "commit-then-apply" (pipeline.go): an agent that is gone, and a version of the
\* chain after the genesis, is in an entry of the log, which a quorum has certified
\* if the pipeline has nodes of the beacon log, for every set of instances and
\* agents, every fault tolerance and every length of the log.
THEOREM EpochCommitThenApply == Spec => []CommitThenApply
<1>1. EpochInv => CommitThenApply
  BY DEF EpochInv, EvictionsCertified, VersionsCertified, VersionCertified, CommitThenApply
<1> QED  BY <1>1, EpochInvariant, PTL

\* SafeAncestor: a rollback restores a configuration that was committed before and
\* in which every instance had the safety margin.
THEOREM EpochRollbackIsSafe == Spec => []RollbackIsSafe
<1>1. EpochInv => RollbackIsSafe
  BY DEF EpochInv
<1> QED  BY <1>1, EpochInvariant, PTL

\* The safety filter: until the first rollback the count it reads is the number of
\* agents, and evictions leave every instance its threshold.
THEOREM EpochCountsAreAgents == Spec => []CountsAreAgents
<1>1. EpochInv => CountsAreAgents
  BY DEF EpochInv
<1> QED  BY <1>1, EpochInvariant, PTL

\* produceGlobalOrder and publishEpochCheckpoint: the checkpoints of the log hold the
\* commits of one epoch, of every instance, by rank and instance, however the commits
\* come and whatever else is written to the log.
THEOREM EpochCheckpointsAreCanonical == Spec => []CheckpointsAreCanonical
<1>1. EpochInv => CheckpointsAreCanonical
  BY DEF EpochInv
<1> QED  BY <1>1, EpochInvariant, PTL

-----------------------------------------------------------------------------
(* Types.                                                                  *)

\* The bounds and types that the properties above do not need.  An epoch that
\* has started is one of the bound.
StageInv ==
    /\ Len(entries) <= MaxLog
    /\ publishing = {} \/ \E p : publishing = {p}
    /\ Len(versionChain) <= MaxVersions
    /\ epoch \in 0..MaxEpochs /\ (stage # "idle" => epoch < MaxEpochs)
    /\ candidates \subseteq Suspects /\ actions \in Nat
    /\ stage \in {"idle", "instances", "version", "trust"}

\* Publishing stays within the bound of the log.
LEMMA PublishedBound ==
    ASSUME LogInv, Len(entries) <= MaxLog, NEW entry, NEW outcome, publishToGBC(entry, outcome)
    PROVE  Len(entries') <= MaxLog
<1>1. MaxLog \in Nat
  BY OrdererConstants
<1>2. CASE entries' = entries
  BY <1>2
<1>3. CASE Len(entries) < MaxLog /\ entries' = Append(entries, entry)
  <2>1. Len(entries) \in Nat /\ Len(entries') = Len(entries) + 1
    BY <1>3, AppendKeeps DEF LogInv
  <2> QED  BY <1>1, <1>3, <2>1
<1> QED  BY <1>2, <1>3 DEF publishToGBC

\* A chain that is seeded and may grow stays within its bound.
LEMMA ChainBound ==
    ASSUME EpochInv, Len(SeededChain) < MaxVersions, NEW v,
           versionChain' \in {SeededChain, Append(SeededChain, v)}
    PROVE  Len(versionChain') <= MaxVersions
<1>1. SeededChain \in Seq(Versions) /\ MaxVersions \in Nat
  BY SeededGood, PipelineConstants DEF EpochInv, ChainGood
<1>2. Len(SeededChain) \in Nat /\ Len(Append(SeededChain, v)) = Len(SeededChain) + 1
  BY <1>1, IsSequence, AppendKeeps
<1> QED  BY <1>1, <1>2

\* Every step keeps the bounds.
LEMMA StageStep ==
    ASSUME EpochInv, StageInv, [Next]_vars
    PROVE  StageInv'
<1> USE DEF StageInv
<1>1. LogInv /\ InstancesInv
  BY DEF EpochInv
<1>2. CASE StartEpoch
  <2>1. /\ stage = "idle" /\ epoch < MaxEpochs /\ stage' = "instances"
        /\ candidates' \subseteq Suspects /\ actions' = 0
        /\ UNCHANGED <<entries, publishing, versionChain, epoch>>
    BY <1>2 DEF StartEpoch, ordererVars
  <2> QED  BY <2>1
<1>3. CASE ReconfigureInstance
  <2>1. /\ stage = "instances" /\ stage' \in {"instances", "version"}
        /\ UNCHANGED <<publishing, versionChain, epoch, candidates>>
    BY <1>3 DEF ReconfigureInstance, Advance, ordererVars
  <2>2. Min(todo) \in Instances
    BY <1>1, <2>1, NextInstance
  <2>3. PICK evicted \in Evictions(Min(todo)) :
           \/ UNCHANGED <<entries, actions>>
           \/ /\ actions' = actions + Cardinality(evicted)
              /\ \E outcome \in Outcomes :
                    publishToGBC(MembershipEntry(Min(todo), evicted, outcome), outcome)
    BY <1>3 DEF ReconfigureInstance
  <2>4. Cardinality(evicted) \in Nat
    BY <1>1, <2>2, EvictionsFit
  <2>5. Len(entries') <= MaxLog
    BY <1>1, <2>3, PublishedBound
  <2>6. actions' \in Nat
    BY <2>3, <2>4
  <2> QED  BY <2>1, <2>5, <2>6
<1>4. CASE RecordVersion
  <2>1. /\ stage = "version" /\ stage' = "trust"
        /\ UNCHANGED <<publishing, epoch, candidates, actions>>
    BY <1>4 DEF RecordVersion, ordererVars
  <2>2. CASE UNCHANGED <<entries, versionChain>>
    BY <2>1, <2>2
  <2>3. CASE /\ Len(SeededChain) < MaxVersions
             /\ \E outcome \in Outcomes :
                   /\ publishToGBC(VersionEntry(Len(SeededChain), Committed, outcome), outcome)
                   /\ versionChain' = IF outcome = "ok" THEN AppendCommitted(SeededChain) ELSE SeededChain
    <3>1. Len(entries') <= MaxLog
      BY <1>1, <2>3, PublishedBound
    <3>2. versionChain' \in {SeededChain, Append(SeededChain, Committed)}
      BY <2>3 DEF AppendCommitted
    <3>3. Len(versionChain') <= MaxVersions
      BY <2>3, <3>2, ChainBound
    <3> QED  BY <2>1, <3>1, <3>3
  <2> QED  BY <1>4, <2>2, <2>3 DEF RecordVersion
<1>5. CASE PublishTrust
  <2>1. /\ stage = "trust" /\ stage' = "idle" /\ epoch' = epoch + 1
        /\ candidates' = {} /\ actions' = 0 /\ UNCHANGED <<publishing, versionChain>>
    BY <1>5 DEF PublishTrust, ordererVars
  <2>2. Len(entries') <= MaxLog
    BY <1>1, <1>5, PublishedBound DEF PublishTrust
  <2>3. epoch' \in 0..MaxEpochs
    BY <2>1, PipelineConstants
  <2> QED  BY <2>1, <2>2, <2>3
<1>6. CASE EvaluateAndRollback
  <2>1. /\ stage = "idle" /\ Len(SeededChain) < MaxVersions
        /\ UNCHANGED <<publishing, epoch, candidates, actions, stage>>
    BY <1>6 DEF EvaluateAndRollback, ordererVars, stageVars
  <2> DEFINE target == SafeAncestor(SeededChain)
             v == RolledBack(target)
  <2>2. /\ versionChain' \in {SeededChain, Append(SeededChain, v)}
        /\ \/ entries' = entries
           \/ \E outcome \in Outcomes :
                 publishToGBC(VersionEntry(Len(SeededChain), v, outcome), outcome)
    BY <1>6 DEF EvaluateAndRollback, AppendRollback
  <2> HIDE DEF v
  <2>3. Len(entries') <= MaxLog
    BY <1>1, <2>2, PublishedBound
  <2>4. Len(versionChain') <= MaxVersions
    BY <2>1, <2>2, ChainBound
  <2> QED  BY <2>1, <2>3, <2>4
<1>7. CASE LateCommit
  <2>1. PICK h \in 1..Len(entries) : entries' = [entries EXCEPT ![h].committed = TRUE]
    BY <1>7 DEF LateCommit
  <2> DEFINE late == [entries[h] EXCEPT !.committed = TRUE]
  <2>4. entries' = Changed(entries, h, late)
    BY <2>1 DEF Changed
  <2> HIDE DEF late
  <2>2. Len(entries') = Len(entries)
    BY <1>1, <2>4, ChangeKeeps DEF LogInv
  <2>3. UNCHANGED <<publishing, versionChain, epoch, candidates, actions, stage>>
    BY <1>7 DEF LateCommit, ordererVars, stageVars
  <2> QED  BY <2>2, <2>3
<1>8. CASE OrdererNext /\ UNCHANGED <<instanceVars, versionChain, epoch, stageVars>>
  <2>1. UNCHANGED <<versionChain, epoch, candidates, actions, stage>>
    BY <1>8 DEF stageVars
  <2>2. (publishing = {} \/ \E p : publishing = {p})'
    BY <1>8 DEF OrdererNext, SubmitCommit, publishEpochCheckpoint
  <2>3. Len(entries') <= MaxLog
    <3>1. CASE entries' = entries
      BY <3>1
    <3>2. CASE Len(entries) < MaxLog /\ \E x : entries' = Append(entries, x)
      <4>1. MaxLog \in Nat /\ Len(entries) \in Nat /\ Len(entries') = Len(entries) + 1
        BY <1>1, <3>2, AppendKeeps, OrdererConstants DEF LogInv
      <4> QED  BY <3>2, <4>1
    <3> QED  BY <1>8, <3>1, <3>2 DEF OrdererNext, SubmitCommit, publishEpochCheckpoint
  <2> QED  BY <2>1, <2>2, <2>3
<1>9. CASE UNCHANGED vars
  BY <1>9 DEF vars, ordererVars, stageVars
<1> QED  BY <1>2, <1>3, <1>4, <1>5, <1>6, <1>7, <1>8, <1>9 DEF Next, ProcessEpoch

\* Every variable of the closed loop and of the epoch orderer keeps its type, and the
\* numbers of faults an instance tolerates stay natural numbers, also after a rollback.
THEOREM EpochTypeCorrect == Spec => []TypeOK
<1>1. Init => EpochInv /\ StageInv /\ gbcNodes \in BOOLEAN
  <2> SUFFICES ASSUME Init PROVE StageInv /\ gbcNodes \in BOOLEAN
    BY InitEpochInv
  <2>1. Len(entries) = 0 /\ Len(versionChain) = 0
    BY DEF Init
  <2> QED  BY <2>1, OrdererConstants, PipelineConstants DEF Init, OrdererInit, StageInv
<1>2. EpochInv /\ StageInv /\ gbcNodes \in BOOLEAN /\ [Next]_vars
         => (EpochInv /\ StageInv /\ gbcNodes \in BOOLEAN)'
  <2> SUFFICES ASSUME EpochInv, StageInv, gbcNodes \in BOOLEAN, [Next]_vars
               PROVE  EpochInv' /\ StageInv' /\ gbcNodes' \in BOOLEAN
    OBVIOUS
  <2>1. gbcNodes' = gbcNodes
    BY DEF Next, vars
  <2> QED  BY <2>1, NextEpochInv, StageStep
<1>3. EpochInv /\ StageInv /\ gbcNodes \in BOOLEAN => TypeOK
  <2> SUFFICES ASSUME EpochInv, StageInv, gbcNodes \in BOOLEAN PROVE TypeOK
    OBVIOUS
  <2>1. Cardinality(publishing) <= 1
    <3>1. Cardinality(publishing) \in {0, 1}
      BY FS_EmptySet, FS_Singleton DEF StageInv
    <3> QED  BY <3>1
  <2>2. OrdererTypeOK
    BY <2>1 DEF OrdererTypeOK, EpochInv, OrdererInv, StageInv
  <2> QED  BY <2>2 DEF TypeOK, EpochInv, InstancesInv, StageInv
<1> QED  BY <1>1, <1>2, <1>3, PTL DEF Spec
=============================================================================
