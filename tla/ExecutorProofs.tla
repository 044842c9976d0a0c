--------------------------- MODULE ExecutorProofs ---------------------------
(***************************************************************************)
(* Reconfiguration on one node, for every set of validators, log of        *)
(* blocks, transactions, intents and answers of peers: one validator set   *)
(* everywhere, a queue of the block in progress only, and quorums of       *)
(* consecutive validator sets that meet.                                   *)
(*                                                                         *)
(* The loops of the code (picking entries out of a queue, applying one     *)
(* reconfiguration after the other, taking over the configurations of an   *)
(* answer) are recursive functions; Recursion shows that such a function   *)
(* exists and stays within the sets the turns of the loop stay in.  What   *)
(* commitReconfigsLocked has built after some turns is described by Built: *)
(* epochs strictly increase along the transitions.  As                     *)
(* validateTransitionEvent wants the last transition to start at the       *)
(* installed epoch, it is the only one, and the guard of applyReconfig     *)
(* applies to the whole step.                                              *)
(***************************************************************************)
EXTENDS Executor, FiniteSetTheorems, WellFoundedInduction, TLAPS

-----------------------------------------------------------------------------
(* Induction and recursion along an interval.                              *)

\* A nonempty set of natural numbers has a least element.
LEMMA LeastNumber ==
    ASSUME NEW T \in SUBSET Nat, T # {}
    PROVE  \E x \in T : \A y \in T : x <= y
<1> DEFINE R == StrictSubsetOrdering(Nat)
           I == {1..n : n \in T}
<1>1. IsWellFoundedOn(R, FiniteSubsetsOf(Nat))
  BY FS_StrictSubsetOrderingWellFounded
<1>2. I \subseteq FiniteSubsetsOf(Nat) /\ I # {}
  <2>1. ASSUME NEW n \in T PROVE 1..n \in FiniteSubsetsOf(Nat)
    <3>1. n \in Int /\ 1 \in Int /\ (1..n) \subseteq Nat
      OBVIOUS
    <3> QED  BY <3>1, FS_Interval DEF FiniteSubsetsOf
  <2> QED  BY <2>1
<1>3. PICK m \in I : \A t \in I : ~(<<t, m>> \in R)
  <2> HIDE DEF I, R
  <2> QED  BY <1>1, <1>2, WFMin
<1>4. PICK x \in T : m = 1..x
  OBVIOUS
<1>5. ASSUME NEW y \in T, y < x PROVE FALSE
  <2>1. (1..y) \subseteq (1..x) /\ x \in 1..x /\ x \notin 1..y
    BY <1>5
  <2>2. (1..y) # (1..x) /\ (1..x) \in SUBSET Nat /\ (1..y) \in SUBSET Nat
    BY <2>1
  <2>3. <<1..y, 1..x>> \in R
    BY <2>1, <2>2 DEF StrictSubsetOrdering
  <2> QED  BY <1>3, <1>4, <2>3
<1> QED  BY <1>5

\* Induction up to L.
LEMMA StepInduction ==
    ASSUME NEW L \in Nat, NEW T, 0 \in T, \A i \in 1..L : i - 1 \in T => i \in T
    PROVE  0..L \subseteq T
<1> SUFFICES ASSUME 0..L \ T # {} PROVE FALSE
  OBVIOUS
<1>1. PICK x \in 0..L \ T : \A y \in 0..L \ T : x <= y
  <2>1. 0..L \ T \in SUBSET Nat
    OBVIOUS
  <2> QED  BY <2>1, LeastNumber
<1>2. x \in 1..L /\ x - 1 \in 0..L /\ ~(x <= x - 1)
  BY <1>1
<1> QED  BY <1>1, <1>2

\* A loop of L turns, in which turn i leads from S[i - 1] to S[i].
Turns(L, S, base, g) ==
    base \in S[0] /\ \A i \in 1..L : \A x \in S[i - 1] : g[<<x, i>>] \in S[i]

\* The values f goes through.
Loop(L, S, base, g, f) ==
    /\ f = [i \in 0..L |-> f[i]]
    /\ f[0] = base
    /\ \A i \in 1..L : f[i] = g[<<f[i - 1], i>>]
    /\ \A i \in 0..L : f[i] \in S[i]

\* A loop has such a function.
LEMMA Recursion ==
    ASSUME NEW L \in Nat, NEW S, NEW base, NEW g, Turns(L, S, base, g)
    PROVE  \E f : Loop(L, S, base, g, f)
<1> USE DEF Turns
<1> DEFINE Upto(n, f) == /\ f = [i \in 0..n |-> IF i = 0 THEN base ELSE g[<<f[i - 1], i>>]]
                         /\ \A i \in 0..n : f[i] \in S[i]
           T == {n \in 0..L : \E f : Upto(n, f)}
<1>1. 0 \in T
  <2> DEFINE f == [i \in 0..0 |-> base]
  <2>1. f = [i \in 0..0 |-> IF i = 0 THEN base ELSE g[<<f[i - 1], i>>]]
    OBVIOUS
  <2>2. \A i \in 0..0 : f[i] \in S[i]
    OBVIOUS
  <2>3. Upto(0, f)
    BY <2>1, <2>2
  <2> HIDE DEF f, Upto
  <2> QED  BY <2>3
<1>2. ASSUME NEW n \in 1..L, n - 1 \in T PROVE n \in T
  <2>1. PICK f : Upto(n - 1, f)
    BY <1>2
  <2> DEFINE h == [i \in 0..n |-> IF i = n THEN g[<<f[n - 1], n>>] ELSE f[i]]
  <2>2. /\ n - 1 \in Nat /\ n - 1 \in 0..(n - 1) /\ n # 0 /\ n \in 0..L
        /\ 0..n = (0..(n - 1)) \cup {n} /\ n \notin 0..(n - 1)
    OBVIOUS
  <2>3. /\ DOMAIN f = 0..(n - 1)
        /\ \A i \in 0..(n - 1) : f[i] = IF i = 0 THEN base ELSE g[<<f[i - 1], i>>]
        /\ \A i \in 0..(n - 1) : f[i] \in S[i]
    BY <2>1
  <2>4. h[n] = g[<<f[n - 1], n>>] /\ h[n] \in S[n]
    BY <2>2, <2>3
  <2>5. \A i \in 0..(n - 1) : h[i] = f[i] /\ h[i] \in S[i]
    BY <2>2, <2>3
  <2>6. \A i \in 0..n : h[i] = IF i = 0 THEN base ELSE g[<<h[i - 1], i>>]
    <3> SUFFICES ASSUME NEW i \in 0..n
                 PROVE  h[i] = IF i = 0 THEN base ELSE g[<<h[i - 1], i>>]
      OBVIOUS
    <3>1. CASE i = n
      <4>1. h[n - 1] = f[n - 1]
        BY <2>2, <2>5
      <4> HIDE DEF h
      <4> QED  BY <2>2, <2>4, <3>1, <4>1
    <3>2. CASE i # n
      <4>1. i \in 0..(n - 1) /\ (i # 0 => i - 1 \in 0..(n - 1))
        BY <3>2
      <4> HIDE DEF h
      <4> QED  BY <2>3, <2>5, <4>1
    <3> QED  BY <3>1, <3>2
  <2>7. h = [i \in 0..n |-> IF i = 0 THEN base ELSE g[<<h[i - 1], i>>]]
    <3>1. DOMAIN h = 0..n /\ h = [i \in 0..n |-> h[i]]
      OBVIOUS
    <3> HIDE DEF h
    <3> QED  BY <2>6, <3>1
  <2>8. \A i \in 0..n : h[i] \in S[i]
    <3> HIDE DEF h
    <3> QED  BY <2>2, <2>4, <2>5
  <2>9. Upto(n, h)
    BY <2>7, <2>8
  <2> HIDE DEF h, Upto
  <2> QED  BY <2>2, <2>9
<1>3. L \in T
  <2> HIDE DEF T
  <2>1. 0..L \subseteq T
    BY <1>1, <1>2, StepInduction
  <2> QED  BY <2>1
<1>4. PICK f : Upto(L, f)
  BY <1>3
<1>5. f[0] = base /\ \A i \in 1..L : f[i] = g[<<f[i - 1], i>>]
  BY <1>4
<1> QED  BY <1>4, <1>5 DEF Loop

\* What Picked returns: elements of s at positions in I, none only if there is none.
LEMMA PickedGood ==
    ASSUME NEW X, NEW s \in Seq(X), NEW I
    PROVE  /\ Picked(s, I) \in Seq(X) /\ Len(Picked(s, I)) <= Len(s)
           /\ \A k \in 1..Len(Picked(s, I)) : \E i \in I : i \in 1..Len(s) /\ Picked(s, I)[k] = s[i]
           /\ (\E i \in I : i \in 1..Len(s)) => Picked(s, I) # <<>>
<1> DEFINE L == Len(s)
           Good(i, q) == /\ Len(q) <= i
                         /\ \A k \in 1..Len(q) : \E j \in I : j \in 1..i /\ q[k] = s[j]
                         /\ (\E j \in I : j \in 1..i) => q # <<>>
           S == [i \in 0..L |-> {q \in Seq(X) : Good(i, q)}]
           g == [p \in Seq(X) \X (1..L) |-> IF p[2] \in I THEN Append(p[1], s[p[2]]) ELSE p[1]]
<1>1. L \in Nat /\ \A i \in 1..L : s[i] \in X
  OBVIOUS
<1>2. \A i \in 0..L : S[i] = {q \in Seq(X) : Good(i, q)}
  OBVIOUS
<1>3. \A q \in Seq(X), i \in 1..L : g[<<q, i>>] = IF i \in I THEN Append(q, s[i]) ELSE q
  OBVIOUS
<1>4. <<>> \in S[0]
  BY <1>1
<1>5. ASSUME NEW i \in 1..L, NEW q \in Seq(X), Good(i - 1, q) PROVE Good(i, g[<<q, i>>]) /\ g[<<q, i>>] \in Seq(X)
  <2>1. CASE i \in I
    <3> DEFINE r == Append(q, s[i])
    <3>1. r \in Seq(X) /\ Len(r) = Len(q) + 1 /\ r[Len(q) + 1] = s[i] /\ \A k \in 1..Len(q) : r[k] = q[k]
      BY <1>1
    <3>2. g[<<q, i>>] = r
      BY <1>3, <2>1
    <3> HIDE DEF r, g
    <3>3. Len(r) <= i /\ r # <<>>
      BY <1>5, <3>1
    <3>4. ASSUME NEW k \in 1..Len(r) PROVE \E j \in I : j \in 1..i /\ r[k] = s[j]
      <4>1. CASE k = Len(q) + 1
        BY <2>1, <3>1, <4>1
      <4>2. CASE k # Len(q) + 1
        <5>1. k \in 1..Len(q)
          BY <3>1, <4>2
        <5>2. PICK j \in I : j \in 1..(i - 1) /\ q[k] = s[j]
          BY <1>5, <5>1
        <5> QED  BY <3>1, <5>1, <5>2
      <4> QED  BY <4>1, <4>2
    <3> QED  BY <3>1, <3>2, <3>3, <3>4
  <2>2. CASE i \notin I
    <3>1. g[<<q, i>>] = q
      BY <1>3, <2>2
    <3>2. \A j \in I : (j \in 1..i) <=> (j \in 1..(i - 1))
      BY <2>2
    <3> HIDE DEF g
    <3> QED  BY <1>5, <3>1, <3>2
  <2> QED  BY <2>1, <2>2
<1>6. \A i \in 1..L : \A x \in S[i - 1] : g[<<x, i>>] \in S[i]
  <2> SUFFICES ASSUME NEW i \in 1..L, NEW x \in S[i - 1] PROVE g[<<x, i>>] \in S[i]
    OBVIOUS
  <2>1. x \in Seq(X) /\ Good(i - 1, x)
    BY <1>1, <1>2
  <2>2. Good(i, g[<<x, i>>]) /\ g[<<x, i>>] \in Seq(X)
    BY <1>5, <2>1
  <2> HIDE DEF Good, g, S
  <2> QED  BY <1>1, <1>2, <2>2
<1>7. Turns(L, S, <<>>, g)
  <2> HIDE DEF S, g, L
  <2> QED  BY <1>4, <1>6 DEF Turns
<1>x. PICK f : Loop(L, S, <<>>, g, f)
  <2> HIDE DEF S, g, L
  <2> QED  BY <1>1, <1>7, Recursion
<1> DEFINE Is(t) == t = [i \in 0..L |-> IF i = 0 THEN <<>>
                                        ELSE IF i \in I THEN Append(t[i - 1], s[i]) ELSE t[i - 1]]
<1>8. Is(f)
  <2>1. ASSUME NEW i \in 1..L PROVE g[<<f[i - 1], i>>] = IF i \in I THEN Append(f[i - 1], s[i]) ELSE f[i - 1]
    <3>1. i - 1 \in 0..L
      BY <1>1
    <3>2. f[i - 1] \in S[i - 1]
      BY <1>x, <3>1 DEF Loop
    <3>3. f[i - 1] \in Seq(X)
      <4> HIDE DEF Good, S
      <4> QED  BY <1>2, <3>1, <3>2
    <3> QED  BY <1>3, <3>3
  <2> HIDE DEF g, S
  <2>2. /\ f = [i \in 0..L |-> f[i]] /\ f[0] = <<>>
        /\ \A i \in 1..L : f[i] = IF i \in I THEN Append(f[i - 1], s[i]) ELSE f[i - 1]
    BY <1>x, <2>1 DEF Loop
  <2>3. \A i \in 0..L : i = 0 \/ i \in 1..L
    BY <1>1
  <2> QED  BY <2>2, <2>3
<1>9. \E t : Is(t)
  BY <1>8
<1> DEFINE t == CHOOSE u : Is(u)
<1>10. Is(t) /\ Picked(s, I) = t[L]
  BY <1>9 DEF Picked
<1>11. \A i \in 0..L : t[i] \in S[i]
  <2> DEFINE T == {i \in 0..L : t[i] \in S[i]}
  <2>1. t[0] = <<>> /\ \A i \in 1..L : t[i] = IF i \in I THEN Append(t[i - 1], s[i]) ELSE t[i - 1]
    <3>1. 0 \in 0..L /\ \A i \in 1..L : i \in 0..L /\ i # 0
      BY <1>1
    <3>2. \A i \in 0..L : t[i] = IF i = 0 THEN <<>>
                                  ELSE IF i \in I THEN Append(t[i - 1], s[i]) ELSE t[i - 1]
      <4> HIDE DEF t, L
      <4> QED  BY <1>10
    <3> HIDE DEF t, L
    <3> QED  BY <3>1, <3>2
  <2>2. 0 \in T
    <3>1. 0 \in 0..L
      BY <1>1
    <3> HIDE DEF t, S, L
    <3> QED  BY <1>4, <2>1, <3>1
  <2>3. ASSUME NEW i \in 1..L, i - 1 \in T PROVE i \in T
    <3>1. t[i - 1] \in S[i - 1] /\ t[i - 1] \in Seq(X)
      BY <1>1, <1>2, <2>3
    <3>2. t[i] = g[<<t[i - 1], i>>]
      BY <1>3, <2>1, <3>1
    <3> HIDE DEF t, S, g
    <3> QED  BY <1>6, <3>1, <3>2
  <2> HIDE DEF T
  <2>4. 0..L \subseteq T
    BY <1>1, <2>2, <2>3, StepInduction
  <2> QED  BY <2>4 DEF T
<1>12. t[L] \in Seq(X) /\ Good(L, t[L])
  <2> HIDE DEF t, Good
  <2> QED  BY <1>1, <1>2, <1>11
<1> HIDE DEF t
<1> QED  BY <1>10, <1>12

-----------------------------------------------------------------------------
(* Reconfigurations.                                                       *)

\* One reconfiguration: a validator joins, or so few leave that the guard of
\* applyReconfig lets them.
Reconfigured(old, new) ==
    \/ \E x \in Ids : x \notin old /\ new = old \cup {x}
    \/ /\ new \subseteq old
       /\ Cardinality(new) >= 4
       /\ Cardinality(old \ new) <= (Cardinality(old) - 1) \div 3

\* Then the quorums of the two sets meet.
LEMMA ReconfiguredQuorumsMeet ==
    ASSUME NEW old \in SUBSET Ids, NEW new \in SUBSET Ids, Reconfigured(old, new),
           NEW P \in Quorums(old), NEW Q \in Quorums(new)
    PROVE  P \cap Q # {}
<1> SUFFICES ASSUME P \cap Q = {} PROVE FALSE
  OBVIOUS
<1>1. /\ P \subseteq old /\ Cardinality(P) = (2 * Cardinality(old)) \div 3 + 1
      /\ Q \subseteq new /\ Cardinality(Q) = (2 * Cardinality(new)) \div 3 + 1
  BY DEF Quorums, kSubset, QuorumSize
<1>2. /\ IsFiniteSet(old) /\ IsFiniteSet(new) /\ IsFiniteSet(P) /\ IsFiniteSet(Q)
      /\ Cardinality(old) \in Nat /\ Cardinality(new) \in Nat
  BY <1>1, ExecutorConstants, FS_Subset, FS_CardinalityType
<1>3. IsFiniteSet(P \cup Q) /\ Cardinality(P \cup Q) = Cardinality(P) + Cardinality(Q)
  <2>1. Cardinality(P \cup Q) = Cardinality(P) + Cardinality(Q) - Cardinality(P \cap Q)
    BY <1>2, FS_Union
  <2>2. Cardinality(P \cap Q) = 0
    BY FS_EmptySet
  <2>3. Cardinality(P) \in Nat /\ Cardinality(Q) \in Nat
    BY <1>2, FS_CardinalityType
  <2> QED  BY <1>2, <2>1, <2>2, <2>3, FS_Union
<1>4. CASE \E x \in Ids : x \notin old /\ new = old \cup {x}
  <2>1. PICK x \in Ids : x \notin old /\ new = old \cup {x}
    BY <1>4
  <2>2. Cardinality(new) = Cardinality(old) + 1
    BY <1>2, <2>1, FS_AddElement
  <2>3. Cardinality(P \cup Q) <= Cardinality(new)
    BY <1>1, <1>2, <2>1, FS_Subset
  <2> QED  BY <1>1, <1>2, <1>3, <2>2, <2>3
<1>5. CASE /\ new \subseteq old /\ Cardinality(new) >= 4
           /\ Cardinality(old \ new) <= (Cardinality(old) - 1) \div 3
  <2>1. Cardinality(old \ new) = Cardinality(old) - Cardinality(new)
    <3>1. Cardinality(old \ new) = Cardinality(old) - Cardinality(old \cap new)
      BY <1>2, FS_Difference
    <3>2. old \cap new = new
      BY <1>5
    <3> QED  BY <3>1, <3>2
  <2>2. Cardinality(P \cup Q) <= Cardinality(old)
    BY <1>1, <1>2, <1>5, FS_Subset
  <2> HIDE DEF Reconfigured
  <2> QED  BY <1>1, <1>2, <1>3, <1>5, <2>1, <2>2
<1> QED  BY <1>4, <1>5 DEF Reconfigured

Accumulators ==
    [valset : ValidatorSets, transitions : Seq([old : ValidatorSets, new : ValidatorSets])]

\* What commitReconfigsLocked has built from validator set vs: without a transition vs
\* itself, otherwise the last transition leads to it, to a later epoch, by one
\* reconfiguration, from vs or from a set of a later epoch.
Built(vs, acc) ==
    /\ acc \in Accumulators
    /\ acc.transitions = <<>> => acc.valset = vs
    /\ acc.transitions # <<>> =>
         LET t == acc.transitions[Len(acc.transitions)] IN
         /\ t.new = acc.valset
         /\ t.old = vs \/ t.old.epoch > vs.epoch
         /\ t.new.epoch > t.old.epoch
         /\ Reconfigured(t.old.members, t.new.members)

\* The last element of a sequence.
LEMMA LastElement ==
    ASSUME NEW X, NEW q \in Seq(X), q # <<>>
    PROVE  Len(q) \in 1..Len(q) /\ q[Len(q)] \in X
OBVIOUS

\* One turn of the loop.
LEMMA applyReconfigBuilds ==
    ASSUME NEW vs \in ValidatorSets, NEW acc, Built(vs, acc), NEW e \in Entries
    PROVE  Built(vs, applyReconfig(acc, e))
<1> DEFINE w == acc.valset
           tx == e.data
           next == [epoch |-> NewEpoch(w, tx), members |-> NewMembers(w, tx)]
           t == [old |-> w, new |-> next]
           r == [valset |-> next, transitions |-> Append(acc.transitions, t)]
<1>1. /\ acc \in Accumulators /\ w \in ValidatorSets /\ w.epoch \in Nat /\ w.members \in SUBSET Ids
      /\ acc.transitions \in Seq([old : ValidatorSets, new : ValidatorSets])
      /\ tx \in Transactions /\ tx.node \in Ids /\ tx.target \in Nat
  BY DEF Built, Accumulators, ValidatorSets, Entries, Transactions
<1>2. w = vs \/ w.epoch > vs.epoch
  <2>1. CASE acc.transitions = <<>>
    BY <2>1 DEF Built
  <2>2. CASE acc.transitions # <<>>
    <3> DEFINE u == acc.transitions[Len(acc.transitions)]
    <3>1. u \in [old : ValidatorSets, new : ValidatorSets]
      BY <1>1, <2>2, LastElement
    <3>2. u.new = w /\ (u.old = vs \/ u.old.epoch > vs.epoch) /\ u.new.epoch > u.old.epoch
      BY <2>2 DEF Built
    <3>3. u.old.epoch \in Nat /\ vs.epoch \in Nat
      BY <3>1 DEF ValidatorSets
    <3> HIDE DEF u, w
    <3> QED  BY <1>1, <3>2, <3>3
  <2> QED  BY <2>1, <2>2
<1>3. CASE Joins(w, tx) \/ Leaves(w, tx)
  <2>1. NewEpoch(w, tx) \in Nat /\ NewEpoch(w, tx) > w.epoch
    BY <1>1 DEF NewEpoch
  <2>2. NewMembers(w, tx) \in SUBSET Ids
    BY <1>1 DEF NewMembers, Leaving
  <2>3. next \in ValidatorSets /\ next.epoch = NewEpoch(w, tx) /\ next.members = NewMembers(w, tx)
    BY <2>1, <2>2 DEF ValidatorSets
  <2>4. Reconfigured(w.members, NewMembers(w, tx))
    <3>1. CASE Joins(w, tx)
      BY <1>1, <3>1 DEF Joins, NewMembers, Reconfigured
    <3>2. CASE Leaves(w, tx)
      <4>1. NewMembers(w, tx) = w.members \ Leaving(w, tx)
        BY <3>2 DEF Leaves, NewMembers
      <4>2. Leaving(w, tx) \subseteq w.members
        BY DEF Leaving
      <4>3. w.members \ (w.members \ Leaving(w, tx)) = Leaving(w, tx)
        BY <4>2
      <4>4. /\ Cardinality(w.members \ Leaving(w, tx)) >= 4
            /\ Cardinality(Leaving(w, tx)) <= (Cardinality(w.members) - 1) \div 3
        BY <3>2 DEF Leaves, mayLeave
      <4> QED  BY <4>1, <4>3, <4>4 DEF Reconfigured
    <3> QED  BY <1>3, <3>1, <3>2
  <2>5. applyReconfig(acc, e) = r
    BY <1>3 DEF applyReconfig
  <2> HIDE DEF next, w, tx
  <2>6. t \in [old : ValidatorSets, new : ValidatorSets] /\ t.old = w /\ t.new = next
    BY <1>1, <2>3
  <2> HIDE DEF t
  <2>7. /\ r.transitions \in Seq([old : ValidatorSets, new : ValidatorSets])
        /\ r.transitions # <<>> /\ r.transitions[Len(r.transitions)] = t /\ r.valset = next
    BY <1>1, <2>6
  <2>8. r \in Accumulators
    BY <2>3, <2>7 DEF Accumulators
  <2> HIDE DEF r
  <2> QED  BY <1>2, <2>1, <2>3, <2>4, <2>5, <2>6, <2>7, <2>8 DEF Built
<1>4. CASE ~(Joins(w, tx) \/ Leaves(w, tx))
  BY <1>4 DEF applyReconfig
<1> QED  BY <1>3, <1>4

\* The loop of commitReconfigsLocked over the reconfigurations of a block.
LEMMA CandidateBuilt ==
    ASSUME currentValSet \in ValidatorSets, pendingReconfigs \in Seq(Entries), NEW b
    PROVE  Built(currentValSet, Candidate(b))
<1> DEFINE m == Matching(b)
           L == Len(m)
           base == [valset |-> currentValSet, transitions |-> <<>>]
           A == {acc \in Accumulators : Built(currentValSet, acc)}
           S == [i \in 0..L |-> A]
           g == [p \in A \X (1..L) |-> applyReconfig(p[1], m[p[2]])]
<1>1. m \in Seq(Entries)
  BY PickedGood DEF Matching
<1>2. L \in Nat /\ 0 \in 0..L /\ \A i \in 1..L : m[i] \in Entries /\ i \in 0..L /\ i - 1 \in 0..L /\ i # 0
  BY <1>1
<1>3. base \in A
  <2>1. base.valset = currentValSet /\ base.transitions = <<>>
    OBVIOUS
  <2>2. base \in Accumulators
    BY DEF Accumulators
  <2> HIDE DEF base
  <2>3. Built(currentValSet, base)
    BY <2>1, <2>2 DEF Built
  <2> QED  BY <2>2, <2>3
<1>4. \A acc \in A, i \in 1..L : applyReconfig(acc, m[i]) \in A
  <2> SUFFICES ASSUME NEW acc \in A, NEW i \in 1..L PROVE applyReconfig(acc, m[i]) \in A
    OBVIOUS
  <2>1. Built(currentValSet, applyReconfig(acc, m[i]))
    BY <1>2, applyReconfigBuilds
  <2> QED  BY <2>1 DEF Built
<1>5. \A acc \in A, i \in 1..L : g[<<acc, i>>] = applyReconfig(acc, m[i])
  OBVIOUS
<1>6. \A i \in 0..L : S[i] = A
  OBVIOUS
<1> HIDE DEF m, L, base, A, S, g
<1>7. PICK f : Loop(L, S, base, g, f)
  <2>1. Turns(L, S, base, g)
    BY <1>2, <1>3, <1>4, <1>5, <1>6 DEF Turns
  <2> QED  BY <1>2, <2>1, Recursion
<1> DEFINE Is(t) == t = [i \in 0..L |-> IF i = 0 THEN base ELSE applyReconfig(t[i - 1], m[i])]
<1>8. Is(f)
  <2>1. /\ f = [i \in 0..L |-> f[i]] /\ f[0] = base
        /\ \A i \in 1..L : f[i] = applyReconfig(f[i - 1], m[i])
    BY <1>2, <1>5, <1>6, <1>7 DEF Loop
  <2>2. \A i \in 0..L : i = 0 \/ i \in 1..L
    BY <1>2
  <2> QED  BY <2>1, <2>2
<1> DEFINE t == CHOOSE u : Is(u)
<1>9. Is(t)
  BY <1>8
<1>10. Candidate(b) = t[L]
  BY DEF Candidate, m, L, base
<1> HIDE DEF t
<1>11. \A i \in 0..L : t[i] = IF i = 0 THEN base ELSE applyReconfig(t[i - 1], m[i])
  BY <1>9
<1> HIDE DEF Is
<1> DEFINE T == {i \in 0..L : t[i] \in A}
<1>12. 0 \in T
  BY <1>2, <1>3, <1>11
<1>13. ASSUME NEW i \in 1..L, i - 1 \in T PROVE i \in T
  BY <1>2, <1>4, <1>11, <1>13
<1>14. L \in T
  <2> HIDE DEF T
  <2>1. 0..L \subseteq T
    BY <1>2, <1>12, <1>13, StepInduction
  <2> QED  BY <1>2, <2>1
<1> QED  BY <1>10, <1>14 DEF A

-----------------------------------------------------------------------------
(* Discovery.                                                              *)

\* An answer holds configurations of the peer's history.
LEMMA AnswerTyped ==
    ASSUME NEW held \in Seq(ValidatorSets), NEW ids \in Seq(Nat)
    PROVE  HandleDiscoveryRequest(held, ids) \in Seq(ValidatorSets)
<1> DEFINE I == {i \in DOMAIN ids : hasConfig(held, ids[i])}
           found == Picked(ids, I)
           Holding(id) == {i \in DOMAIN held : held[i].epoch = id}
<1>1. found \in Seq(Nat) /\ \A k \in 1..Len(found) : \E i \in I : found[k] = ids[i]
  <2> HIDE DEF I
  <2> QED  BY PickedGood
<1>2. ASSUME NEW k \in DOMAIN found PROVE Picked(held, Holding(found[k]))[1] \in ValidatorSets
  <2>1. k \in 1..Len(found)
    BY <1>1
  <2>2. PICK i \in I : found[k] = ids[i]
    BY <1>1, <2>1
  <2>3. PICK j \in DOMAIN held : held[j].epoch = found[k]
    BY <2>2 DEF hasConfig
  <2>4. j \in Holding(found[k]) /\ j \in 1..Len(held)
    BY <2>3
  <2> DEFINE H == Holding(found[k])
  <2>5. Picked(held, H) \in Seq(ValidatorSets) /\ Picked(held, H) # <<>>
    <3> HIDE DEF H
    <3>1. j \in H
      BY <2>4 DEF H
    <3> QED  BY <2>4, <3>1, PickedGood
  <2> HIDE DEF H
  <2>6. Picked(held, H)[1] \in ValidatorSets
    BY <2>5
  <2> QED  BY <2>6 DEF H
<1>3. HandleDiscoveryRequest(held, ids) = [k \in DOMAIN found |-> Picked(held, Holding(found[k]))[1]]
  BY DEF HandleDiscoveryRequest
<1>4. DOMAIN found = 1..Len(found) /\ Len(found) \in Nat
  BY <1>1
<1> HIDE DEF found, Holding
<1> QED  BY <1>2, <1>3, <1>4

\* Handling an answer keeps the types and never takes the highest configuration
\* back.
LEMMA ResponseKeeps ==
    ASSUME NEW configs \in Seq(ValidatorSets), history \in Seq(ValidatorSets),
           highest \in ValidatorSets, HandleDiscoveryResponse(configs)
    PROVE  /\ history' \in Seq(ValidatorSets) /\ highest' \in ValidatorSets
           /\ highest'.epoch >= highest.epoch /\ UNCHANGED asked
<1> DEFINE L == Len(configs)
           base == [history |-> history, highest |-> highest]
           A == {k \in [history : Seq(ValidatorSets), highest : ValidatorSets] :
                     k.highest.epoch >= highest.epoch}
           S == [i \in 0..L |-> A]
           g == [p \in A \X (1..L) |-> Discovered(p[1], configs[p[2]])]
<1>1. highest.epoch \in Nat
  BY DEF ValidatorSets
<1>2. L \in Nat /\ 0 \in 0..L
      /\ \A i \in 1..L : configs[i] \in ValidatorSets /\ i \in 0..L /\ i - 1 \in 0..L /\ i # 0
  OBVIOUS
<1>3. base \in A
  BY <1>1
<1>4. \A k \in A, i \in 1..L : Discovered(k, configs[i]) \in A
  <2> SUFFICES ASSUME NEW k \in A, NEW c \in ValidatorSets PROVE Discovered(k, c) \in A
    BY <1>2
  <2>1. k.history \in Seq(ValidatorSets) /\ k.highest \in ValidatorSets /\ k.highest.epoch >= highest.epoch
    OBVIOUS
  <2>2. k.highest.epoch \in Nat /\ c.epoch \in Nat
    BY <2>1 DEF ValidatorSets
  <2>3. Append(k.history, c) \in Seq(ValidatorSets)
    BY <2>1
  <2>4. isContinuous(k.highest, c) => c.epoch >= highest.epoch
    BY <1>1, <2>1, <2>2 DEF isContinuous
  <2> QED  BY <2>1, <2>3, <2>4 DEF Discovered
<1>5. \A k \in A, i \in 1..L : g[<<k, i>>] = Discovered(k, configs[i])
  OBVIOUS
<1>6. \A i \in 0..L : S[i] = A
  OBVIOUS
<1> HIDE DEF L, base, A, S, g
<1>7. PICK f : Loop(L, S, base, g, f)
  <2>1. Turns(L, S, base, g)
    BY <1>2, <1>3, <1>4, <1>5, <1>6 DEF Turns
  <2> QED  BY <1>2, <2>1, Recursion
<1> DEFINE Is(t) == t = [i \in 0..L |-> IF i = 0 THEN base ELSE Discovered(t[i - 1], configs[i])]
<1>8. Is(f)
  <2>1. /\ f = [i \in 0..L |-> f[i]] /\ f[0] = base
        /\ \A i \in 1..L : f[i] = Discovered(f[i - 1], configs[i])
    BY <1>2, <1>5, <1>6, <1>7 DEF Loop
  <2>2. \A i \in 0..L : i = 0 \/ i \in 1..L
    BY <1>2
  <2> QED  BY <2>1, <2>2
<1> DEFINE t == CHOOSE u : Is(u)
<1>9. Is(t)
  BY <1>8
<1>10. history' = t[L].history /\ highest' = t[L].highest /\ UNCHANGED asked
  BY DEF HandleDiscoveryResponse, L, base
<1> HIDE DEF t
<1>11. \A i \in 0..L : t[i] = IF i = 0 THEN base ELSE Discovered(t[i - 1], configs[i])
  BY <1>9
<1> HIDE DEF Is
<1> DEFINE T == {i \in 0..L : t[i] \in A}
<1>12. 0 \in T
  BY <1>2, <1>3, <1>11
<1>13. ASSUME NEW i \in 1..L, i - 1 \in T PROVE i \in T
  BY <1>2, <1>4, <1>11, <1>13
<1>14. L \in T
  <2> HIDE DEF T
  <2>1. 0..L \subseteq T
    BY <1>2, <1>12, <1>13, StepInduction
  <2> QED  BY <1>2, <2>1
<1> QED  BY <1>10, <1>14 DEF A

-----------------------------------------------------------------------------
(* The inductive invariant.                                                *)

IInv ==
    /\ TypeOK
    /\ SameSetEverywhere
    /\ QueueIsOfBlockInProgress
    /\ Mvalid.epoch <= currentValSet.epoch

\* The queue of a block that is executed, with nothing queued before it.
LEMMA QueuedGood ==
    ASSUME NEW b \in Blocks
    PROVE  /\ Queued(b) \in Seq(Entries) /\ Len(Queued(b)) <= Len(Txs[b])
           /\ \A i \in DOMAIN Queued(b) : /\ Queued(b)[i].block = b
                                          /\ Queued(b)[i].data.epoch = currentValSet.epoch
<1> DEFINE I == {i \in DOMAIN Txs[b] : executeTx(Txs[b][i], b)}
           a == Accepted(b)
<1>1. Txs[b] \in Seq(Transactions)
  BY ExecutorConstants
<1>2. /\ a \in Seq(Transactions) /\ Len(a) <= Len(Txs[b])
      /\ \A k \in 1..Len(a) : \E i \in I : a[k] = Txs[b][i]
  <2>1. a = Picked(Txs[b], I)
    BY DEF Accepted
  <2> HIDE DEF I, a
  <2> QED  BY <1>1, <2>1, PickedGood
<1>3. \A k \in 1..Len(a) : a[k].epoch = currentValSet.epoch
  <2> SUFFICES ASSUME NEW k \in 1..Len(a) PROVE a[k].epoch = currentValSet.epoch
    OBVIOUS
  <2>1. executeTx(a[k], b)
    BY <1>2
  <2> QED  BY <2>1 DEF executeTx, verifyAutoLeaveProof, verifyManualReconfig
<1> HIDE DEF a
<1>4. CASE Visible(b)
  <2>1. Queued(b) = [i \in 1..Len(a) |-> [block |-> b, data |-> a[i]]]
    BY <1>2, <1>4 DEF Queued, a
  <2>2. \A i \in 1..Len(a) : [block |-> b, data |-> a[i]] \in Entries
    BY <1>2 DEF Entries
  <2>3. Len(a) \in Nat
    BY <1>2
  <2>4. Queued(b) \in Seq(Entries) /\ Len(Queued(b)) = Len(a) /\ DOMAIN Queued(b) = 1..Len(a)
    BY <2>1, <2>2, <2>3
  <2> QED  BY <1>2, <1>3, <2>1, <2>4
<1>5. CASE ~Visible(b)
  <2>1. Queued(b) = <<>>
    BY <1>5 DEF Queued
  <2>2. Len(Txs[b]) \in Nat
    BY <1>1
  <2> QED  BY <2>1, <2>2
<1> QED  BY <1>4, <1>5

\* executeBlockLocked.
LEMMA ExecuteKeepsInv ==
    ASSUME IInv, log # <<>>, ExecuteBlock(Head(log))
    PROVE  IInv'
<1> DEFINE b == Head(log)
<1>1. b \in Blocks
  BY DEF IInv, TypeOK
<1>2. pendingReconfigs = <<>>
  BY DEF IInv, QueueIsOfBlockInProgress, ExecuteBlock
<1>3. /\ pendingReconfigs' = Queued(b) /\ executed' = executed \cup {b} /\ b \notin applied
      /\ UNCHANGED <<log, currentValSet, applied, vertices, installedVars, intentVars, discoveryVars>>
  <2>1. pendingReconfigs' = pendingReconfigs \o Queued(b)
    BY DEF ExecuteBlock
  <2>2. <<>> \o Queued(b) = Queued(b)
    BY <1>1, QueuedGood
  <2> QED  BY <1>2, <2>1, <2>2 DEF ExecuteBlock
<1>4. TypeOK'
  BY <1>1, <1>3, QueuedGood DEF IInv, TypeOK, installedVars, intentVars, discoveryVars
<1>5. SameSetEverywhere' /\ Mvalid'.epoch <= currentValSet'.epoch
  BY <1>3 DEF IInv, SameSetEverywhere, installedVars, discoveryVars
<1>6. QueueIsOfBlockInProgress'
  BY <1>1, <1>3, QueuedGood DEF QueueIsOfBlockInProgress
<1> QED  BY <1>4, <1>5, <1>6 DEF IInv

\* Once a block is applied, its reconfigurations are gone and no others are left.
LEMMA NothingRemains ==
    ASSUME IInv, log # <<>>
    PROVE  Remaining(Head(log)) = <<>>
<1> DEFINE I == DOMAIN pendingReconfigs \ Positions(Head(log))
<1>1. pendingReconfigs \in Seq(Entries)
  BY DEF IInv, TypeOK
<1>2. I = {}
  BY <1>1 DEF IInv, QueueIsOfBlockInProgress, Positions
<1>3. Picked(pendingReconfigs, I) = <<>>
  <2> HIDE DEF I
  <2>1. /\ Picked(pendingReconfigs, I) \in Seq(Entries)
        /\ \A k \in 1..Len(Picked(pendingReconfigs, I)) : \E i \in I : TRUE
    BY <1>1, PickedGood
  <2> QED  BY <1>2, <2>1, LastElement
<1> QED  BY <1>3 DEF Remaining

\* Activation leads from the installed set to the next by one reconfiguration, and
\* installs it everywhere.
LEMMA ActivateIsOneReconfiguration ==
    ASSUME IInv, NEW b, Activate(b)
    PROVE  /\ currentValSet' \in ValidatorSets
           /\ currentValSet'.epoch > currentValSet.epoch
           /\ Reconfigured(currentValSet.members, currentValSet'.members)
           /\ currentConfig' = currentValSet' /\ engineSet' = currentValSet' /\ Mvalid' = currentValSet'
           /\ AddConfiguration(currentValSet')
           /\ pendingJoins' \subseteq pendingJoins /\ pendingLeaves' \subseteq pendingLeaves
           /\ pendingReconfigs' = Remaining(b)
<1> DEFINE c == Candidate(b)
           t == c.transitions[Len(c.transitions)]
<1>1. /\ currentValSet \in ValidatorSets /\ pendingReconfigs \in Seq(Entries)
      /\ currentValSet.epoch \in Nat /\ Mvalid.epoch \in Nat /\ currentConfig = currentValSet
      /\ Mvalid.epoch <= currentValSet.epoch
  BY DEF IInv, TypeOK, SameSetEverywhere, ValidatorSets
<1>2. Built(currentValSet, c)
  BY <1>1, CandidateBuilt
<1>3. /\ c.transitions # <<>> /\ Installable(c.valset, c.transitions)
      /\ installCommittedValidatorSet(c.valset)
      /\ currentValSet' = c.valset /\ pendingReconfigs' = Remaining(b)
  BY DEF Activate
<1> HIDE DEF c
<1>4. c.valset \in ValidatorSets /\ c.transitions \in Seq([old : ValidatorSets, new : ValidatorSets])
  BY <1>2 DEF Built, Accumulators
<1>5. t \in [old : ValidatorSets, new : ValidatorSets]
  BY <1>3, <1>4, LastElement
<1>6. /\ t.old = currentValSet \/ t.old.epoch > currentValSet.epoch
      /\ t.new.epoch > t.old.epoch /\ Reconfigured(t.old.members, t.new.members)
      /\ t.new = c.valset
  BY <1>2, <1>3 DEF Built
<1>7. t.old.epoch \in Nat /\ t.new.epoch \in Nat
  BY <1>5 DEF ValidatorSets
<1>8. c.valset.epoch > currentValSet.epoch
  <2> HIDE DEF t
  <2> QED  BY <1>1, <1>6, <1>7
<1>9. t.old.epoch = currentValSet.epoch
  <2>1. c.valset.epoch \in Nat
    BY <1>4 DEF ValidatorSets
  <2>2. validateTransitionEvent(latestTransitionEvent(c.transitions), c.valset)
    BY <1>1, <1>3, <1>8, <2>1 DEF Installable
  <2> QED  BY <1>1, <2>2 DEF validateTransitionEvent, latestTransitionEvent, Last
<1> HIDE DEF t
<1>10. t.old = currentValSet
  BY <1>6, <1>7, <1>9
<1>11. c.valset.epoch \in Nat /\ ~(c.valset.epoch < currentConfig.epoch) /\ c.valset.epoch > Mvalid.epoch
  BY <1>1, <1>4, <1>8 DEF ValidatorSets
<1>12. /\ AddConfiguration(c.valset) /\ InstallCommittedConfig(c.valset)
       /\ currentConfig' = c.valset /\ engineSet' = c.valset
  BY <1>3, <1>11 DEF installCommittedValidatorSet, InstallCommittedConfiguration,
                     InstallValidatorSetFromTransitions
<1> QED  BY <1>3, <1>4, <1>6, <1>8, <1>10, <1>12 DEF InstallCommittedConfig

\* commitReconfigsLocked.
LEMMA CommitKeepsInv ==
    ASSUME IInv, log # <<>>, CommitReconfigs(Head(log))
    PROVE  IInv'
<1> DEFINE b == Head(log)
<1>1. b \in Blocks /\ applied' = applied \cup {b} /\ UNCHANGED <<log, executed, vertices, intents>>
  BY DEF IInv, TypeOK, CommitReconfigs
<1>2. Remaining(b) = <<>>
  BY NothingRemains
<1>3. CASE NoTransition(b)
  <2>1. /\ pendingReconfigs' = <<>>
        /\ UNCHANGED <<currentValSet, installedVars, pendingJoins, pendingLeaves, discoveryVars>>
    BY <1>2, <1>3 DEF NoTransition
  <2>2. TypeOK'
    BY <1>1, <2>1 DEF IInv, TypeOK, installedVars, discoveryVars
  <2> QED
    BY <2>1, <2>2 DEF IInv, SameSetEverywhere, QueueIsOfBlockInProgress, installedVars, discoveryVars
<1>4. CASE Activate(b)
  <2> DEFINE vs == currentValSet'
  <2>1. /\ vs \in ValidatorSets /\ vs.epoch > currentValSet.epoch
        /\ currentConfig' = vs /\ engineSet' = vs /\ Mvalid' = vs
        /\ AddConfiguration(vs) /\ pendingReconfigs' = <<>>
        /\ pendingJoins' \subseteq pendingJoins /\ pendingLeaves' \subseteq pendingLeaves
    BY <1>2, <1>4, ActivateIsOneReconfiguration
  <2>2. /\ history \in Seq(ValidatorSets) /\ highest \in ValidatorSets
        /\ vs.epoch \in Nat /\ highest.epoch \in Nat
    BY <2>1 DEF IInv, TypeOK, ValidatorSets
  <2>3. /\ history' \in Seq(ValidatorSets) /\ highest' \in ValidatorSets
        /\ highest'.epoch >= vs.epoch /\ UNCHANGED asked
    BY <2>1, <2>2 DEF AddConfiguration
  <2> HIDE DEF vs
  <2>4. TypeOK'
    BY <1>1, <2>1, <2>3 DEF IInv, TypeOK, vs
  <2>5. SameSetEverywhere' /\ Mvalid'.epoch <= currentValSet'.epoch
    BY <2>1, <2>2, <2>3 DEF SameSetEverywhere, vs
  <2> QED  BY <2>1, <2>4, <2>5 DEF IInv, QueueIsOfBlockInProgress
<1> QED  BY <1>3, <1>4 DEF CommitReconfigs

\* Discovery.
LEMMA DiscoverKeepsInv ==
    ASSUME IInv, Discover
    PROVE  IInv'
<1>1. /\ history \in Seq(ValidatorSets) /\ highest \in ValidatorSets /\ asked \subseteq Seq(Nat)
      /\ highest.epoch \in Nat /\ Mvalid.epoch \in Nat /\ highest.epoch >= Mvalid.epoch
  BY DEF IInv, TypeOK, SameSetEverywhere, ValidatorSets
<1>2. UNCHANGED <<executorVars, vertices, installedVars, intentVars>>
  BY DEF Discover
<1>3. /\ history' \in Seq(ValidatorSets) /\ highest' \in ValidatorSets /\ asked' \subseteq Seq(Nat)
      /\ highest'.epoch >= highest.epoch
  <2>1. CASE SyncInBackground
    <3> DEFINE n == highest.epoch + 10
               ids == [id \in 1..n |-> id]
               I == {id \in 1..n : ~hasConfig(history, id)}
    <3>1. asked' = asked \cup {Picked(ids, I)} /\ UNCHANGED <<history, highest>>
      BY <2>1 DEF SyncInBackground, RequestDiscovery, findMissingConfigs
    <3>2. ids \in Seq(Nat)
      <4>1. n \in Nat
        BY <1>1
      <4> HIDE DEF n
      <4> QED  BY <4>1
    <3>3. Picked(ids, I) \in Seq(Nat)
      <4> HIDE DEF ids, I
      <4> QED  BY <3>2, PickedGood
    <3> HIDE DEF ids, I
    <3> QED  BY <1>1, <3>1, <3>3
  <2>2. CASE \E held \in PeerHistories, ids \in asked :
                HandleDiscoveryResponse(HandleDiscoveryRequest(held, ids))
    <3>1. PICK held \in PeerHistories, ids \in asked :
              HandleDiscoveryResponse(HandleDiscoveryRequest(held, ids))
      BY <2>2
    <3>2. held \in Seq(ValidatorSets) /\ ids \in Seq(Nat)
      BY <1>1, ExecutorConstants DEF ValidatorSets
    <3>3. HandleDiscoveryRequest(held, ids) \in Seq(ValidatorSets)
      BY <3>2, AnswerTyped
    <3> QED  BY <1>1, <3>1, <3>3, ResponseKeeps
  <2> QED  BY <2>1, <2>2 DEF Discover
<1>4. highest'.epoch \in Nat /\ highest'.epoch >= Mvalid.epoch
  BY <1>1, <1>3 DEF ValidatorSets
<1>5. TypeOK'
  BY <1>2, <1>3 DEF IInv, TypeOK, executorVars, installedVars, intentVars
<1>6. SameSetEverywhere' /\ Mvalid'.epoch <= currentValSet'.epoch
  BY <1>2, <1>4 DEF IInv, SameSetEverywhere, executorVars, installedVars
<1> QED
  BY <1>2, <1>5, <1>6 DEF IInv, QueueIsOfBlockInProgress, executorVars

\* Every step of the node keeps the invariant.
LEMMA NextKeepsInv ==
    IInv /\ [Next]_vars => IInv'
<1> SUFFICES ASSUME IInv, [Next]_vars PROVE IInv'
  OBVIOUS
<1>1. CASE applyOrderedOutput
  <2>1. CASE log # <<>> /\ ApplyOrderedBlock(Head(log))
    BY <2>1, ExecuteKeepsInv, CommitKeepsInv DEF ApplyOrderedBlock
  <2>2. CASE NextBlock
    <3>1. pendingReconfigs = <<>>
      BY <2>2 DEF IInv, QueueIsOfBlockInProgress, NextBlock
    <3>2. TypeOK'
      BY <2>2 DEF IInv, TypeOK, NextBlock, installedVars, intentVars, discoveryVars
    <3> QED
      BY <2>2, <3>1, <3>2 DEF IInv, SameSetEverywhere, QueueIsOfBlockInProgress, NextBlock,
                              installedVars, discoveryVars
  <2> QED  BY <1>1, <2>1, <2>2 DEF applyOrderedOutput
<1>2. CASE Discover
  BY <1>2, DiscoverKeepsInv
<1>3. CASE \E b \in Payload \ vertices : VertexArrives(b)
  BY <1>3 DEF IInv, TypeOK, SameSetEverywhere, QueueIsOfBlockInProgress, VertexArrives,
              executorVars, installedVars, intentVars, discoveryVars
<1>4. CASE \E id \in IntentIds : SubmitJoin(id) \/ SubmitLeave(id)
  <2>1. PICK id \in Ids : SubmitJoin(id) \/ SubmitLeave(id)
    BY <1>4, ExecutorConstants
  <2>2. /\ pendingJoins' \subseteq Ids /\ pendingLeaves' \subseteq Ids /\ intents' \in 0..MaxIntents
        /\ UNCHANGED <<executorVars, vertices, installedVars, discoveryVars>>
    BY <2>1, ExecutorConstants DEF IInv, TypeOK, SubmitJoin, SubmitLeave, AddJoinRequest, AddLeaveRequest
  <2> QED
    BY <2>2 DEF IInv, TypeOK, SameSetEverywhere, QueueIsOfBlockInProgress,
                executorVars, installedVars, discoveryVars
<1>5. CASE UNCHANGED vars
  BY <1>5 DEF vars, IInv, TypeOK, SameSetEverywhere, QueueIsOfBlockInProgress,
              executorVars, installedVars, intentVars, discoveryVars
<1> QED  BY <1>1, <1>2, <1>3, <1>4, <1>5 DEF Next

\* The initial state satisfies the invariant.
LEMMA InitEstablishesInv == Init => IInv
<1> SUFFICES ASSUME Init PROVE IInv
  OBVIOUS
<1>1. /\ [epoch |-> 1, members |-> Initial] \in ValidatorSets
      /\ [epoch |-> 0, members |-> Initial] \in ValidatorSets
  BY ExecutorConstants DEF ValidatorSets
<1>2. TypeOK
  BY <1>1, ExecutorConstants DEF Init, NewMembershipManager, NewHydraManager, DiscoveryInit, TypeOK
<1> QED
  BY <1>2 DEF Init, NewMembershipManager, NewHydraManager, DiscoveryInit, IInv, SameSetEverywhere,
              QueueIsOfBlockInProgress

\* Reachable states satisfy the invariant.
LEMMA ExecutorInvariant == Spec => []IInv
  BY InitEstablishesInv, NextKeepsInv, PTL DEF Spec

\* The node's configuration state is type correct for every set of validators, blocks
\* and transactions: every validator set that is installed or discovered, and every
\* entry of the queue, is well formed.
THEOREM ExecutorTypeCorrect == Spec => []TypeOK
<1>1. IInv => TypeOK
  BY DEF IInv
<1> QED  BY <1>1, ExecutorInvariant, PTL

\* The executor, the membership manager, Hydra and the engines hold the same validator
\* set, and discovery is not behind it: commitReconfigsLocked takes over a set only
\* when installCommittedValidatorSet installed it (executor.go:312-328).
THEOREM ExecutorSameSetEverywhere == Spec => []SameSetEverywhere
<1>1. IInv => SameSetEverywhere
  BY DEF IInv
<1> QED  BY <1>1, ExecutorInvariant, PTL

\* The queue holds reconfigurations of the block in progress only, no more than the
\* block has and signed for the current epoch, however often ApplyOrderedBlock is
\* repeated (executor.go:638-669).
THEOREM ExecutorQueueIsOfBlockInProgress == Spec => []QueueIsOfBlockInProgress
<1>1. IInv => QueueIsOfBlockInProgress
  BY DEF IInv
<1> QED  BY <1>1, ExecutorInvariant, PTL

\* For every number of validators, the quorums of the validator sets before and after
\* an activation meet: the guard of applyReconfig bounds what leaves, and
\* validateTransitionEvent refuses more than one effective reconfiguration of a block
\* (executor.go:607-622, membership.go:351-366).
THEOREM ExecutorQuorumsMeet == Spec => QuorumsMeet
<1> DEFINE Meet == currentValSet' # currentValSet =>
              \A P \in Quorums(currentValSet.members), Q \in Quorums(currentValSet'.members) :
                 P \cap Q # {}
<1>1. ASSUME IInv, [Next]_vars PROVE [Meet]_vars
  <2> SUFFICES ASSUME currentValSet' # currentValSet PROVE Meet
    OBVIOUS
  <2>1. PICK b : Activate(b)
    <3>1. ~(UNCHANGED vars)
      BY DEF vars, executorVars
    <3>2. applyOrderedOutput
      BY <1>1, <3>1 DEF Next, Discover, VertexArrives, SubmitJoin, SubmitLeave, executorVars
    <3> QED
      BY <3>2 DEF applyOrderedOutput, ApplyOrderedBlock, ExecuteBlock, CommitReconfigs,
                  NoTransition, NextBlock
  <2>2. /\ Reconfigured(currentValSet.members, currentValSet'.members)
        /\ currentValSet'.members \in SUBSET Ids /\ currentValSet.members \in SUBSET Ids
    BY <1>1, <2>1, ActivateIsOneReconfiguration DEF IInv, TypeOK, ValidatorSets
  <2> QED  BY <2>2, ReconfiguredQuorumsMeet
<1> QED  BY <1>1, ExecutorInvariant, PTL DEF Spec, QuorumsMeet
=============================================================================
