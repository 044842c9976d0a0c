----------------------------- MODULE GBCProofs -----------------------------
(***************************************************************************)
(* The Global Beacon Chain, for every number of primaries, every set of    *)
(* faulty ones and every bound: logs only grow, a commit is durable, and,  *)
(* when m = 3f + 1 and at most f primaries are faulty, certified entries   *)
(* agree and the chain implements BeaconDecisions.                         *)
(*                                                                         *)
(* The argument: an honest primary signs an entry only when it appends it  *)
(* to its log, and logs only grow, so it signs one entry of a height; and  *)
(* attestations, wherever they are stored or carried, were made.           *)
(***************************************************************************)
EXTENDS GBC, FiniteSetTheorems, SequenceTheorems, TLAPS

\* GBC's Signers for the signatures S.
SignersIn(S, h, p) == {n \in Honest : Sign(n, h, p) \in S} \cup Faulty

\* The attestations of an entry were made.
GenuineIn(S, h, e) == e.atts \subseteq SignersIn(S, h, e.payload)

LogsGenuine ==
    \A n \in Honest : \A h \in 1..Len(log[n]) : h \in Heights /\ GenuineIn(signed, h, log[n][h])

Holds(L, s) == s.height <= Len(L[s.signer]) /\ L[s.signer][s.height].payload = s.payload

\* Who signed an entry has it.
SignedIsHeld == \A s \in signed : Holds(log, s)

\* The attestations as, collected at n for height h, are genuine.
CollectedIn(S, L, n, h, as) ==
    as # {} => h <= Len(L[n]) /\ as \subseteq SignersIn(S, h, L[n][h].payload)

PendingGenuine == \A n \in Honest : \A h \in Heights : CollectedIn(signed, log, n, h, pending[n][h])

QuorumIn(S, x) == Cardinality(SignersIn(S, x.height, x.payload)) >= QuorumSize

FiredHasQuorum == \A n \in Honest : \A x \in fired[n] : QuorumIn(signed, x)

\* Attestations in messages were made, and a primary asks and is answered from a
\* height on that it has reached.
MessageIn(S, L, x) ==
    /\ x.type = "attest" => x.from \in SignersIn(S, x.height, x.payload)
    /\ x.type = "committed" => x.atts \subseteq SignersIn(S, x.height, x.payload)
    /\ x.type = "syncReq" => x.from \in Honest /\ x.height \in 1..(Len(L[x.from]) + 1)
    /\ x.type = "syncResp" =>
          /\ x.height \in 1..(Len(L[x.to]) + 1)
          /\ \A k \in 1..Len(x.entries) :
                x.height + k - 1 \in Heights /\ GenuineIn(S, x.height + k - 1, x.entries[k])

MessagesGenuine == \A x \in msgs : MessageIn(signed, log, x)

\* The inductive invariant.
IInv ==
    /\ TypeOK
    /\ LogsGenuine
    /\ SignedIsHeld
    /\ PendingGenuine
    /\ FiredHasQuorum
    /\ MessagesGenuine

-----------------------------------------------------------------------------
(* What every step does.                                                   *)

\* No entry is taken back or changed but for new attestations, which were made.
LogStep ==
    /\ log' \in [Honest -> Seq(Entries)]
    /\ \A n \in Honest :
          /\ Len(log[n]) <= Len(log'[n])
          /\ \A h \in 1..Len(log'[n]) : h \in Heights /\ GenuineIn(signed', h, log'[n][h])
          /\ \A h \in 1..Len(log[n]) : /\ log'[n][h].payload = log[n][h].payload
                                       /\ log[n][h].atts \subseteq log'[n][h].atts

SignedStep ==
    /\ signed \subseteq signed' /\ signed' \subseteq Signatures
    /\ \A s \in signed' \ signed : Holds(log', s)

PendingStep ==
    /\ pending' \in [Honest -> [Heights -> SUBSET Members]]
    /\ \A n \in Honest : \A h \in Heights :
          pending'[n][h] = pending[n][h] \/ CollectedIn(signed', log', n, h, pending'[n][h])

FiredStep ==
    /\ fired' \in [Honest -> SUBSET [height : Heights, payload : Payloads]]
    /\ \A n \in Honest : \A x \in fired'[n] \ fired[n] : QuorumIn(signed', x)

MessagesStep ==
    /\ msgs' \subseteq Messages
    /\ \A x \in msgs' \ msgs : MessageIn(signed', log', x)

Step == LogStep /\ SignedStep /\ PendingStep /\ FiredStep /\ MessagesStep

-----------------------------------------------------------------------------
(* Sets of primaries.                                                      *)

\* There are m primaries.
LEMMA MembersFinite ==
    IsFiniteSet(Members) /\ Cardinality(Members) = m /\ Faulty \subseteq Members /\ Honest \subseteq Members
<1>1. m \in Nat /\ m > 0 /\ Faulty \subseteq Members
  BY GBCConstants DEF Members
<1>2. 0 \in Int /\ m - 1 \in Int
  BY <1>1
<1>3. IsFiniteSet(0..(m - 1)) /\ Cardinality(0..(m - 1)) = IF 0 > m - 1 THEN 0 ELSE m - 1 - 0 + 1
  BY <1>2, FS_Interval
<1> QED
  BY <1>1, <1>3 DEF Members, Honest

\* Signers are primaries, and there are more of them when there are more signatures.
LEMMA SignersGrow ==
    ASSUME NEW S, NEW T, S \subseteq T, NEW h, NEW p
    PROVE  /\ SignersIn(S, h, p) \subseteq SignersIn(T, h, p)
           /\ SignersIn(T, h, p) \subseteq Members
           /\ Cardinality(SignersIn(S, h, p)) <= Cardinality(SignersIn(T, h, p))
           /\ Cardinality(SignersIn(S, h, p)) \in Nat /\ Cardinality(SignersIn(T, h, p)) \in Nat
<1>1. SignersIn(S, h, p) \subseteq SignersIn(T, h, p) /\ SignersIn(T, h, p) \subseteq Members
  BY MembersFinite DEF SignersIn
<1>2. IsFiniteSet(SignersIn(T, h, p)) /\ IsFiniteSet(SignersIn(S, h, p))
  BY <1>1, MembersFinite, FS_Subset
<1> QED
  BY <1>1, <1>2, FS_Subset, FS_CardinalityType

\* A set of signers that is large enough makes a quorum.
LEMMA SubsetOfSigners ==
    ASSUME NEW S, NEW h, NEW p, NEW as, as \subseteq SignersIn(S, h, p), Cardinality(as) >= QuorumSize
    PROVE  Cardinality(SignersIn(S, h, p)) >= QuorumSize
<1>1. SignersIn(S, h, p) \subseteq Members
  BY SignersGrow
<1>2. IsFiniteSet(SignersIn(S, h, p)) /\ IsFiniteSet(as)
  BY <1>1, MembersFinite, FS_Subset
<1>3. Cardinality(as) <= Cardinality(SignersIn(S, h, p)) /\ Cardinality(as) \in Nat
      /\ Cardinality(SignersIn(S, h, p)) \in Nat
  BY <1>2, FS_Subset, FS_CardinalityType
<1>4. QuorumSize \in Nat
  BY GBCConstants DEF QuorumSize
<1> DEFINE c == Cardinality(SignersIn(S, h, p))
           d == Cardinality(as)
<1>5. d <= c /\ c \in Nat /\ d \in Nat /\ d >= QuorumSize
  BY <1>3
<1> HIDE DEF c, d
<1>6. c >= QuorumSize
  BY <1>4, <1>5
<1> QED
  BY <1>6 DEF c

\* QuorumSize of m = 3f + 1 primaries, with at most f faulty.
FaultBound == m = 3 * ((m - 1) \div 3) + 1 /\ Cardinality(Faulty) <= (m - 1) \div 3

\* Then two quorums share an honest primary.
LEMMA QuorumsShareHonest ==
    ASSUME FaultBound, NEW A \in SUBSET Members, NEW B \in SUBSET Members,
           Cardinality(A) >= QuorumSize, Cardinality(B) >= QuorumSize
    PROVE  \E n \in Honest : n \in A /\ n \in B
<1> SUFFICES ASSUME A \cap B \subseteq Faulty PROVE FALSE
  BY DEF Honest
<1>1. IsFiniteSet(A) /\ IsFiniteSet(B) /\ IsFiniteSet(A \cup B) /\ IsFiniteSet(A \cap B)
      /\ IsFiniteSet(Faulty)
  BY MembersFinite, FS_Subset, FS_Union, FS_Intersection
<1>2. Cardinality(A) \in Nat /\ Cardinality(B) \in Nat /\ Cardinality(A \cup B) \in Nat
      /\ Cardinality(A \cap B) \in Nat /\ Cardinality(Faulty) \in Nat
  BY <1>1, FS_CardinalityType
<1>3. Cardinality(A \cup B) = Cardinality(A) + Cardinality(B) - Cardinality(A \cap B)
  BY <1>1, FS_Union
<1>4. Cardinality(A \cup B) <= m
  <2>1. A \cup B \subseteq Members OBVIOUS
  <2> QED BY <2>1, MembersFinite, FS_Subset
<1>5. Cardinality(A \cap B) <= Cardinality(Faulty)
  BY <1>1, FS_Subset
<1> DEFINE f == (m - 1) \div 3
<1>6. f \in Nat /\ m = 3 * f + 1 /\ QuorumSize = 2 * f + 1 /\ Cardinality(Faulty) <= f
  BY GBCConstants DEF FaultBound, QuorumSize
<1> HIDE DEF f
<1> QED
  BY <1>2, <1>3, <1>4, <1>5, <1>6

-----------------------------------------------------------------------------
(* Functions whose values are sequences.                                   *)

\* One of the sequences gets another element.
LEMMA AppendAt ==
    ASSUME NEW D, NEW E, NEW L \in [D -> Seq(E)], NEW n \in D, NEW e \in E, NEW M,
           M = [L EXCEPT ![n] = Append(@, e)]
    PROVE  /\ M \in [D -> Seq(E)]
           /\ Len(M[n]) = Len(L[n]) + 1
           /\ M[n][Len(L[n]) + 1] = e
           /\ \A h \in 1..Len(L[n]) : M[n][h] = L[n][h]
           /\ \A k \in D \ {n} : M[k] = L[k]
<1> DEFINE s == L[n]
<1>1. s \in Seq(E)
  OBVIOUS
<1>2. M[n] = Append(s, e) /\ \A k \in D \ {n} : M[k] = L[k]
  OBVIOUS
<1> HIDE DEF s
<1>3. /\ Append(s, e) \in Seq(E)
      /\ Len(Append(s, e)) = Len(s) + 1
      /\ Append(s, e)[Len(s) + 1] = e
      /\ \A h \in 1..Len(s) : Append(s, e)[h] = s[h]
  BY <1>1, AppendProperties
<1>4. M \in [D -> Seq(E)]
  BY <1>3, <1>1 DEF s
<1> QED
  BY <1>2, <1>3, <1>4 DEF s

\* One element of a sequence is replaced.
LEMMA ReplaceAt ==
    ASSUME NEW E, NEW s \in Seq(E), NEW i \in 1..Len(s), NEW e \in E, NEW t, t = [s EXCEPT ![i] = e]
    PROVE  /\ t \in Seq(E)
           /\ Len(t) = Len(s)
           /\ t[i] = e /\ \A h \in 1..Len(s) : h # i => t[h] = s[h]
  BY ExceptSeq

\* The elements of a concatenation.
LEMMA ConcatParts ==
    ASSUME NEW E, NEW s \in Seq(E), NEW t \in Seq(E), NEW u, u = s \o t
    PROVE  /\ u \in Seq(E)
           /\ Len(u) = Len(s) + Len(t)
           /\ \A i \in 1..Len(s) : u[i] = s[i]
           /\ \A i \in 1..Len(t) : u[Len(s) + i] = t[i]
<1>1. Len(s) \in Nat /\ Len(t) \in Nat
  OBVIOUS
<1>2. s \o t \in Seq(E) /\ Len(s \o t) = Len(s) + Len(t)
  BY ConcatProperties
<1>3. \A i \in 1..(Len(s) + Len(t)) : (s \o t)[i] = IF i <= Len(s) THEN s[i] ELSE t[i - Len(s)]
  BY ConcatProperties
<1>4. \A i \in 1..Len(s) : i \in 1..(Len(s) + Len(t)) /\ i <= Len(s)
  BY <1>1
<1>5. \A i \in 1..Len(t) : /\ Len(s) + i \in 1..(Len(s) + Len(t)) /\ ~(Len(s) + i <= Len(s))
                           /\ Len(s) + i - Len(s) = i
  BY <1>1
<1> QED
  BY <1>2, <1>3, <1>4, <1>5

-----------------------------------------------------------------------------
(* Such steps keep the invariant.                                          *)

\* What is genuine stays genuine when there are more signatures and longer logs.
LEMMA MessageStaysGenuine ==
    ASSUME NEW S, NEW T, S \subseteq T, NEW K, NEW L,
           \A n \in Honest : Len(K[n]) \in Nat /\ Len(L[n]) \in Nat /\ Len(K[n]) <= Len(L[n]),
           NEW x, x.to \in Honest, MessageIn(S, K, x)
    PROVE  MessageIn(T, L, x)
<1>1. \A h, p : SignersIn(S, h, p) \subseteq SignersIn(T, h, p)
  BY SignersGrow
<1>2. \A n \in Honest : 1..(Len(K[n]) + 1) \subseteq 1..(Len(L[n]) + 1)
  OBVIOUS
<1> QED
  BY <1>1, <1>2 DEF MessageIn, GenuineIn

\* Steps that do no more than Step allows keep the invariant.
LEMMA StepKeepsInvariant ==
    ASSUME IInv, Step
    PROVE  IInv'
<1> USE DEF Step
<1>1. TypeOK'
  BY DEF TypeOK, LogStep, SignedStep, PendingStep, FiredStep, MessagesStep
<1>2. LogsGenuine'
  BY DEF LogsGenuine, LogStep
<1>3. SignedIsHeld'
  <2> SUFFICES ASSUME NEW s \in signed' PROVE Holds(log', s)
    BY DEF SignedIsHeld
  <2>1. CASE s \in signed
    <3>1. Holds(log, s) /\ s.signer \in Honest /\ s.height \in Heights /\ s.height \in Nat
      BY <2>1 DEF IInv, TypeOK, SignedIsHeld, Signatures, Heights
    <3>2. Len(log[s.signer]) \in Nat /\ Len(log'[s.signer]) \in Nat
      BY <3>1 DEF IInv, TypeOK, LogStep
    <3>3. s.height \in 1..Len(log[s.signer])
      BY <3>1, <3>2 DEF Holds, Heights
    <3> QED BY <3>1, <3>2, <3>3 DEF Holds, LogStep
  <2>2. CASE s \notin signed
    BY <2>2 DEF SignedStep
  <2> QED BY <2>1, <2>2
<1>4. PendingGenuine'
  <2> SUFFICES ASSUME NEW n \in Honest, NEW h \in Heights
               PROVE  CollectedIn(signed', log', n, h, pending'[n][h])
    BY DEF PendingGenuine
  <2>1. CASE pending'[n][h] = pending[n][h] /\ pending[n][h] # {}
    <3>1. h <= Len(log[n]) /\ pending[n][h] \subseteq SignersIn(signed, h, log[n][h].payload)
      BY <2>1 DEF IInv, PendingGenuine, CollectedIn
    <3>2. Len(log[n]) \in Nat /\ Len(log'[n]) \in Nat /\ h \in Nat /\ h >= 1
      BY DEF IInv, TypeOK, LogStep, Heights
    <3>3. h <= Len(log'[n]) /\ log'[n][h].payload = log[n][h].payload
      BY <3>1, <3>2 DEF LogStep
    <3>4. SignersIn(signed, h, log[n][h].payload) \subseteq SignersIn(signed', h, log[n][h].payload)
      BY SignersGrow DEF SignedStep
    <3> QED BY <2>1, <3>1, <3>3, <3>4 DEF CollectedIn
  <2>2. CASE pending'[n][h] = {}
    BY <2>2 DEF CollectedIn
  <2> QED BY <2>1, <2>2 DEF PendingStep
<1>5. FiredHasQuorum'
  <2> SUFFICES ASSUME NEW n \in Honest, NEW x \in fired'[n] PROVE QuorumIn(signed', x)
    BY DEF FiredHasQuorum
  <2>1. CASE x \in fired[n]
    <3>1. QuorumIn(signed, x)
      BY <2>1 DEF IInv, FiredHasQuorum
    <3>2. SignersIn(signed, x.height, x.payload) \subseteq SignersIn(signed', x.height, x.payload)
      BY SignersGrow DEF SignedStep
    <3> QED BY <3>1, <3>2, SubsetOfSigners DEF QuorumIn
  <2> QED BY <2>1 DEF FiredStep
<1>6. MessagesGenuine'
  <2> SUFFICES ASSUME NEW x \in msgs' PROVE MessageIn(signed', log', x)
    BY DEF MessagesGenuine
  <2>1. CASE x \in msgs
    <3>1. \A n \in Honest : Len(log[n]) \in Nat /\ Len(log'[n]) \in Nat /\ Len(log[n]) <= Len(log'[n])
      BY DEF IInv, TypeOK, LogStep
    <3>2. x.to \in Honest
      BY <2>1 DEF IInv, TypeOK, Messages
    <3>3. MessageIn(signed, log, x) /\ signed \subseteq signed'
      BY <2>1 DEF IInv, MessagesGenuine, SignedStep
    <3> QED BY <3>1, <3>2, <3>3, MessageStaysGenuine
  <2> QED BY <2>1 DEF MessagesStep
<1> QED
  BY <1>1, <1>2, <1>3, <1>4, <1>5, <1>6 DEF IInv

\* Nothing happens to the logs.
LEMMA SameLogs ==
    ASSUME IInv, UNCHANGED log, signed \subseteq signed'
    PROVE  LogStep
<1>1. \A h, p : SignersIn(signed, h, p) \subseteq SignersIn(signed', h, p)
  BY SignersGrow
<1> QED
  BY <1>1 DEF IInv, TypeOK, LogsGenuine, LogStep, GenuineIn

\* A primary appends the next entry.
LEMMA AppendedEntry ==
    ASSUME IInv, NEW n \in Honest, NEW p \in Payloads, NEW as \in SUBSET Members,
           Height(n) \in Heights, signed \subseteq signed',
           as \subseteq SignersIn(signed', Height(n), p),
           log' = [log EXCEPT ![n] = Append(@, [payload |-> p, atts |-> as])]
    PROVE  /\ LogStep
           /\ Len(log'[n]) = Height(n) /\ log'[n][Height(n)].payload = p
<1> DEFINE e == [payload |-> p, atts |-> as]
<1>1. e \in Entries /\ e.payload = p /\ e.atts = as
  BY DEF Entries
<1>2. log \in [Honest -> Seq(Entries)] /\ log[n] \in Seq(Entries)
  BY DEF IInv, TypeOK
<1>3. log'[n] = Append(log[n], e) /\ \A k \in Honest \ {n} : log'[k] = log[k]
  BY <1>2
<1> HIDE DEF e
<1>4. /\ log'[n] \in Seq(Entries)
      /\ Len(log'[n]) = Len(log[n]) + 1
      /\ log'[n][Len(log[n]) + 1] = e
      /\ \A h \in 1..Len(log[n]) : log'[n][h] = log[n][h]
  BY <1>1, <1>2, AppendAt DEF e
<1>5. \A h, q : SignersIn(signed, h, q) \subseteq SignersIn(signed', h, q)
  BY SignersGrow
<1>6. Len(log[n]) \in Nat
  BY <1>2
<1>7. \A k \in Honest : Len(log[k]) <= Len(log'[k])
  BY <1>2, <1>3, <1>4, <1>6
<1>8. \A k \in Honest : \A h \in 1..Len(log[k]) : log'[k][h] = log[k][h]
  BY <1>3, <1>4
<1>9. \A k \in Honest : \A h \in 1..Len(log[k]) : h \in Heights /\ GenuineIn(signed', h, log[k][h])
  BY <1>5 DEF IInv, LogsGenuine, GenuineIn
<1>10. Height(n) \in Heights /\ GenuineIn(signed', Height(n), e)
  BY <1>1 DEF GenuineIn
<1>11. \A h \in 1..Len(log'[n]) : h \in Heights /\ GenuineIn(signed', h, log'[n][h])
  <2> SUFFICES ASSUME NEW h \in 1..Len(log'[n]) PROVE h \in Heights /\ GenuineIn(signed', h, log'[n][h])
    OBVIOUS
  <2>1. CASE h \in 1..Len(log[n])
    BY <2>1, <1>8, <1>9
  <2>2. CASE h = Len(log[n]) + 1
    BY <2>2, <1>4, <1>10 DEF Height
  <2> QED BY <2>1, <2>2, <1>4, <1>6
<1>12. log' \in [Honest -> Seq(Entries)]
  BY <1>2, <1>4
<1>13. LogStep
  <2>1. \A k \in Honest \ {n} : \A h \in 1..Len(log'[k]) : h \in Heights /\ GenuineIn(signed', h, log'[k][h])
    BY <1>3, <1>9
  <2> QED BY <2>1, <1>7, <1>8, <1>11, <1>12 DEF LogStep
<1> QED
  BY <1>1, <1>4, <1>13 DEF Height

\* A primary stores attestations to an entry it has.
LEMMA MoreAttestations ==
    ASSUME IInv, NEW n \in Honest, NEW h \in Heights, NEW as \in SUBSET Members,
           h <= Len(log[n]), UNCHANGED signed,
           as \subseteq SignersIn(signed, h, log[n][h].payload),
           log' = [log EXCEPT ![n][h].atts = @ \cup as]
    PROVE  /\ LogStep
           /\ \A k \in Honest : /\ Len(log'[k]) = Len(log[k])
                                /\ \A j \in 1..Len(log[k]) : log'[k][j].payload = log[k][j].payload
<1> DEFINE e == [log[n][h] EXCEPT !.atts = @ \cup as]
<1>1. log \in [Honest -> Seq(Entries)] /\ log[n] \in Seq(Entries) /\ Len(log[n]) \in Nat
  BY DEF IInv, TypeOK
<1>2. h \in 1..Len(log[n]) /\ log[n][h] \in Entries
  BY <1>1 DEF Heights
<1>3. e \in Entries /\ e.payload = log[n][h].payload /\ e.atts = log[n][h].atts \cup as
  BY <1>2 DEF Entries
<1>4. log' = [log EXCEPT ![n] = [log[n] EXCEPT ![h] = e]]
  BY <1>1, <1>2
<1> HIDE DEF e
<1>5. /\ log'[n] \in Seq(Entries)
      /\ Len(log'[n]) = Len(log[n])
      /\ log'[n][h] = e /\ \A j \in 1..Len(log[n]) : j # h => log'[n][j] = log[n][j]
      /\ \A k \in Honest \ {n} : log'[k] = log[k]
  <2> DEFINE s == log[n]
             t == log'[n]
  <2>1. \A k \in Honest \ {n} : log'[k] = log[k]
    BY <1>1, <1>4
  <2>2. t = [s EXCEPT ![h] = e] /\ s \in Seq(Entries) /\ h \in 1..Len(s)
    BY <1>1, <1>2, <1>4
  <2> HIDE DEF s, t
  <2>3. /\ t \in Seq(Entries)
        /\ Len(t) = Len(s)
        /\ t[h] = e /\ \A j \in 1..Len(s) : j # h => t[j] = s[j]
    BY <2>2, <1>3, ReplaceAt
  <2> QED BY <2>1, <2>3 DEF s, t
<1>6. GenuineIn(signed, h, e)
  BY <1>2, <1>3 DEF IInv, LogsGenuine, GenuineIn
<1>7. \A k \in Honest : \A j \in 1..Len(log[k]) :
         /\ j \in Heights /\ GenuineIn(signed, j, log'[k][j])
         /\ log'[k][j].payload = log[k][j].payload
         /\ log[k][j].atts \subseteq log'[k][j].atts
  BY <1>3, <1>5, <1>6 DEF IInv, LogsGenuine
<1>8. \A k \in Honest : Len(log'[k]) = Len(log[k]) /\ Len(log[k]) \in Nat
  BY <1>1, <1>5
<1>9. log' \in [Honest -> Seq(Entries)]
  BY <1>1, <1>4, <1>5
<1>10. \A k \in Honest : \A j \in 1..Len(log'[k]) : j \in Heights /\ GenuineIn(signed', j, log'[k][j])
  BY <1>7, <1>8
<1>11. LogStep
  <2>1. \A k \in Honest : Len(log[k]) <= Len(log'[k])
    BY <1>8
  <2> QED BY <2>1, <1>7, <1>9, <1>10 DEF LogStep
<1> QED
  BY <1>7, <1>8, <1>11

\* A primary appends the part of a sync response that it lacks.
LEMMA SyncedEntries ==
    ASSUME IInv, NEW n \in Honest, NEW es \in Seq(Entries), NEW first \in 1..Height(n),
           \A k \in 1..Len(es) : first + k - 1 \in Heights /\ GenuineIn(signed, first + k - 1, es[k]),
           NEW last \in Height(n)..(first + Len(es) - 1), UNCHANGED signed,
           log' = [log EXCEPT ![n] = @ \o SubSeq(es, Height(n) - first + 1, last - first + 1)]
    PROVE  LogStep
<1> DEFINE a == Height(n) - first + 1
           b == last - first + 1
           old == log[n]
           seg == SubSeq(es, a, b)
           new == log'[n]
<1>1. log \in [Honest -> Seq(Entries)] /\ old \in Seq(Entries) /\ Len(old) \in Nat
      /\ Height(n) = Len(old) + 1 /\ Len(es) \in Nat /\ first \in Nat /\ last \in Nat
  BY DEF IInv, TypeOK, Height
<1>2. a \in Int /\ b \in Int /\ 1 <= a /\ a <= b /\ b <= Len(es)
  BY <1>1
<1>3. new = old \o seg /\ \A k \in Honest \ {n} : log'[k] = log[k]
  BY <1>1
<1>4. log' \in [Honest -> Seq(Entries)] <=> new \in Seq(Entries)
  BY <1>1
<1>5. b - a + 1 = last - Len(old) /\ \A h \in Int : a + (h - Len(old)) - 1 = h - first + 1
  BY <1>1
<1> HIDE DEF a, b, old, new
<1>6. \A i \in a..b : i \in 1..Len(es) /\ es[i] \in Entries
  BY <1>1, <1>2
<1>7. /\ seg \in Seq(Entries)
      /\ Len(seg) = b - a + 1
      /\ \A i \in 1..(b - a + 1) : seg[i] = es[a + i - 1]
  BY <1>2, <1>6, SubSeqProperties
<1> HIDE DEF seg
<1>8. /\ new \in Seq(Entries)
      /\ Len(new) = Len(old) + Len(seg)
      /\ \A h \in 1..Len(old) : new[h] = old[h]
      /\ \A i \in 1..Len(seg) : new[Len(old) + i] = seg[i]
  <2>1. new = old \o seg /\ old \in Seq(Entries) /\ seg \in Seq(Entries)
    BY <1>1, <1>3, <1>7
  <2> QED BY ONLY <2>1, ConcatParts
<1>9. Len(new) = last /\ Len(old) <= Len(new)
  BY <1>1, <1>2, <1>5, <1>7, <1>8
<1>10. \A h \in 1..Len(old) : new[h] = old[h]
  BY <1>8
<1>11. ASSUME NEW h \in 1..Len(new), h > Len(old)
       PROVE  h \in Heights /\ GenuineIn(signed, h, new[h])
  <2> DEFINE i == h - Len(old)
  <2>1. i \in 1..(b - a + 1) /\ h = Len(old) + i /\ a + i - 1 = h - first + 1
    <3>1. h \in Int /\ Len(old) \in Int /\ h <= last /\ h > Len(old) /\ b - a + 1 = last - Len(old)
      BY <1>1, <1>5, <1>9, <1>11
    <3>2. i \in 1..(last - Len(old)) /\ h = Len(old) + i
      BY <3>1, <1>1
    <3> QED BY <3>1, <3>2, <1>5
  <2> HIDE DEF i
  <2>2. new[Len(old) + i] = seg[i] /\ seg[i] = es[a + i - 1]
    BY <2>1, <1>7, <1>8
  <2>3. h - first + 1 \in 1..Len(es) /\ first + (h - first + 1) - 1 = h
    BY <1>1, <1>9, <1>11
  <2> QED BY <2>1, <2>2, <2>3
<1>12. \A h \in 1..Len(old) : h \in Heights /\ GenuineIn(signed, h, new[h])
  BY <1>10 DEF IInv, LogsGenuine, old
<1>13. \A h \in 1..Len(new) : h \in Heights /\ GenuineIn(signed, h, new[h])
  BY <1>1, <1>9, <1>11, <1>12
<1>14. \A k \in Honest \ {n} : \A h \in 1..Len(log'[k]) : h \in Heights /\ GenuineIn(signed, h, log'[k][h])
  BY <1>3 DEF IInv, LogsGenuine
<1>15. \A k \in Honest : Len(log[k]) <= Len(log'[k])
  BY <1>1, <1>3, <1>9 DEF old, new
<1>16. \A k \in Honest : \A h \in 1..Len(log[k]) : log'[k][h] = log[k][h]
  BY <1>3, <1>10 DEF old, new
<1>17. \A k \in Honest : \A h \in 1..Len(log'[k]) : h \in Heights /\ GenuineIn(signed, h, log'[k][h])
  BY <1>13, <1>14 DEF new
<1> QED
  BY <1>4, <1>8, <1>15, <1>16, <1>17 DEF LogStep

-----------------------------------------------------------------------------
(* The actions are such steps.                                             *)

\* Operators that take the signatures made so far.
LEMMA SignersAreSigners ==
    \A h, p : Signers(h, p) = SignersIn(signed, h, p) /\ Signers(h, p) \subseteq Members
  BY MembersFinite DEF Signers, SignersIn

\* Steps of one primary in which no log changes and no signature is made.
LEMMA QuietStep ==
    ASSUME IInv, UNCHANGED <<log, pending, signed, fired>>, MessagesStep
    PROVE  Step
<1>1. LogStep
  BY SameLogs
<1> QED
  BY <1>1 DEF Step, SignedStep, PendingStep, FiredStep, IInv, TypeOK

\* Messages that are taken in, or lost.
LEMMA FewerMessages ==
    ASSUME IInv, msgs' \subseteq msgs
    PROVE  MessagesStep
  BY DEF MessagesStep, IInv, TypeOK

\* The end of propose and handleAttest: as are attestations to the entry at hand.
LEMMA CheckAndCommitStep ==
    ASSUME IInv, NEW n \in Honest, NEW h \in Heights, NEW p \in Payloads,
           NEW as \in SUBSET Members, as \subseteq SignersIn(signed', h, p),
           h <= Len(log'[n]), log'[n][h].payload = p,
           NEW sent \in SUBSET Messages, \A x \in sent \ msgs : MessageIn(signed', log', x),
           checkAndCommit(n, h, p, as, sent)
    PROVE  PendingStep /\ FiredStep /\ MessagesStep
<1>1. pending \in [Honest -> [Heights -> SUBSET Members]]
      /\ fired \in [Honest -> SUBSET [height : Heights, payload : Payloads]]
  BY DEF IInv, TypeOK
<1>2. CollectedIn(signed', log', n, h, as) /\ CollectedIn(signed', log', n, h, {})
  BY DEF CollectedIn
<1>3. CASE Cardinality(as) >= QuorumSize
  <2> DEFINE fresh == ToHonest({CommittedTo(q, n, h, p, as) : q \in Members \ {n}})
             ev == [height |-> h, payload |-> p]
  <2>1. /\ msgs' = sent \cup fresh
        /\ fired' = [fired EXCEPT ![n] = @ \cup {ev}]
        /\ pending' = [pending EXCEPT ![n][h] = {}]
    BY <1>3 DEF checkAndCommit
  <2>2. \A x \in fresh : x \in Messages /\ MessageIn(signed', log', x)
    <3> SUFFICES ASSUME NEW x \in fresh PROVE x \in Messages /\ MessageIn(signed', log', x)
      OBVIOUS
    <3>0. PICK q \in Members : x = CommittedTo(q, n, h, p, as)
      BY DEF ToHonest
    <3>5. q \in Honest
      BY <3>0 DEF ToHonest, CommittedTo
    <3>1. n \in Members
      BY MembersFinite
    <3>2. x \in Messages
      BY <3>0, <3>5, <3>1 DEF CommittedTo, Messages
    <3>3. x.type = "committed" /\ x.height = h /\ x.payload = p /\ x.atts = as
      BY <3>0 DEF CommittedTo
    <3>4. MessageIn(signed', log', x)
      BY <3>3 DEF MessageIn
    <3> QED BY <3>2, <3>4
  <2>3. QuorumIn(signed', ev)
    BY <1>3, SubsetOfSigners DEF QuorumIn
  <2>4. ev \in [height : Heights, payload : Payloads]
    OBVIOUS
  <2> HIDE DEF fresh, ev
  <2>5. MessagesStep
    BY <2>1, <2>2 DEF MessagesStep
  <2>6. FiredStep
    BY <2>1, <2>3, <2>4, <1>1 DEF FiredStep
  <2>7. PendingStep
    BY <2>1, <1>1, <1>2 DEF PendingStep
  <2> QED BY <2>5, <2>6, <2>7
<1>4. CASE ~(Cardinality(as) >= QuorumSize)
  <2>1. msgs' = sent /\ pending' = [pending EXCEPT ![n][h] = as] /\ UNCHANGED fired
    BY <1>4 DEF checkAndCommit
  <2>2. MessagesStep /\ FiredStep
    BY <2>1, <1>1 DEF MessagesStep, FiredStep
  <2>3. PendingStep
    BY <2>1, <1>1, <1>2 DEF PendingStep
  <2> QED BY <2>2, <2>3
<1> QED BY <1>3, <1>4

\* A primary that appends an entry may sign it.
LEMMA SignedEntry ==
    ASSUME IInv, NEW n \in Honest, NEW p \in Payloads, Height(n) \in Heights,
           signed' = signed \cup {Sign(n, Height(n), p)},
           Len(log'[n]) = Height(n), log'[n][Height(n)].payload = p
    PROVE  SignedStep /\ n \in SignersIn(signed', Height(n), p)
<1> DEFINE s == Sign(n, Height(n), p)
<1>1. s \in Signatures /\ s.signer = n /\ s.height = Height(n) /\ s.payload = p
  BY DEF Sign, Signatures
<1>2. Height(n) \in Nat
  BY DEF Heights
<1>3. Holds(log', s)
  BY <1>1, <1>2 DEF Holds
<1>4. n \in SignersIn(signed', Height(n), p)
  BY DEF SignersIn
<1> HIDE DEF s
<1>5. signed' = signed \cup {s}
  BY DEF s
<1> QED BY <1>1, <1>3, <1>4, <1>5 DEF SignedStep, IInv, TypeOK

\* propose: the proposer appends the entry, signs it and is its first attester.
LEMMA ProposeStep ==
    ASSUME IInv, NEW n \in Honest, NEW p \in Payloads, Propose(n, p)
    PROVE  Step
<1> DEFINE h == Height(n)
           fresh == ToHonest({ProposeTo(q, h, p) : q \in Members \ {n}})
<1>1. /\ h \in Heights
      /\ log' = [log EXCEPT ![n] = Append(@, [payload |-> p, atts |-> {n}])]
      /\ signed' = signed \cup {Sign(n, h, p)}
      /\ checkAndCommit(n, h, p, {n}, msgs \cup fresh)
  BY DEF Propose
<1>2. n \in SignersIn(signed', h, p) /\ n \in Members
  BY <1>1, MembersFinite DEF SignersIn
<1>3. LogStep /\ Len(log'[n]) = h /\ log'[n][h].payload = p
  <2> DEFINE as == {n}
  <2>1. as \in SUBSET Members /\ as \subseteq SignersIn(signed', h, p) /\ signed \subseteq signed'
        /\ log' = [log EXCEPT ![n] = Append(@, [payload |-> p, atts |-> as])]
    BY <1>1, <1>2
  <2> HIDE DEF as
  <2> QED BY <2>1, <1>1, AppendedEntry
<1>4. SignedStep
  BY <1>1, <1>3, SignedEntry
<1>5. \A x \in fresh : x \in Messages /\ MessageIn(signed', log', x)
  BY <1>1 DEF ToHonest, ProposeTo, Messages, MessageIn
<1>6. h \in Nat /\ msgs \subseteq Messages
  BY <1>1 DEF Heights, IInv, TypeOK
<1> HIDE DEF h, fresh
<1>7. PendingStep /\ FiredStep /\ MessagesStep
  <2>1. msgs \cup fresh \in SUBSET Messages /\ \A x \in (msgs \cup fresh) \ msgs : MessageIn(signed', log', x)
    BY <1>5, <1>6
  <2>2. {n} \in SUBSET Members /\ {n} \subseteq SignersIn(signed', h, p) /\ h <= Len(log'[n])
    BY <1>2, <1>3, <1>6
  <2> QED BY <2>1, <2>2, <1>1, <1>3, CheckAndCommitStep
<1> QED
  BY <1>3, <1>4, <1>7 DEF Step

\* handleAttest, of an attestation that was made.
LEMMA CollectAttestationStep ==
    ASSUME IInv, NEW n \in Honest, NEW h \in Heights, NEW w \in Members, NEW rest \in SUBSET msgs,
           w \in SignersIn(signed, h, log[n][h].payload), CollectAttestation(n, w, h, rest)
    PROVE  Step
<1> DEFINE p == log[n][h].payload
           as == pending[n][h] \cup {w}
<1>1. /\ pending[n][h] # {}
      /\ log' = [log EXCEPT ![n][h].atts = @ \cup {w}]
      /\ checkAndCommit(n, h, p, as, rest)
      /\ UNCHANGED signed
  BY DEF CollectAttestation
<1>2. /\ h <= Len(log[n]) /\ pending[n][h] \subseteq SignersIn(signed, h, p)
      /\ pending[n][h] \subseteq Members
  BY <1>1 DEF IInv, TypeOK, PendingGenuine, CollectedIn
<1>3. log \in [Honest -> Seq(Entries)] /\ Len(log[n]) \in Nat /\ h \in 1..Len(log[n])
  BY <1>2 DEF IInv, TypeOK, Heights
<1>4. p \in Payloads
  <2>1. log[n][h] \in Entries
    BY <1>3
  <2> QED BY <2>1 DEF Entries
<1>5. LogStep /\ Len(log'[n]) = Len(log[n]) /\ log'[n][h].payload = p
  <2> DEFINE more == {w}
  <2>1. more \in SUBSET Members /\ more \subseteq SignersIn(signed, h, log[n][h].payload)
        /\ log' = [log EXCEPT ![n][h].atts = @ \cup more]
    BY <1>1
  <2> HIDE DEF more
  <2> QED BY <2>1, <1>1, <1>2, <1>3, MoreAttestations
<1>6. SignedStep
  BY <1>1 DEF SignedStep, IInv, TypeOK
<1>7. PendingStep /\ FiredStep /\ MessagesStep
  <2>1. as \in SUBSET Members /\ as \subseteq SignersIn(signed', h, p)
    BY <1>1, <1>2
  <2>2. rest \in SUBSET Messages /\ \A x \in rest \ msgs : MessageIn(signed', log', x)
    BY DEF IInv, TypeOK
  <2> HIDE DEF p, as
  <2> QED BY <2>1, <2>2, <1>1, <1>2, <1>4, <1>5, CheckAndCommitStep
<1> QED
  BY <1>5, <1>6, <1>7 DEF Step

\* handlePropose of the next entry: appended, signed, attested to.
LEMMA AcceptStep ==
    ASSUME IInv, NEW n \in Honest, NEW h \in Heights, NEW p \in Payloads, NEW rest \in SUBSET msgs,
           Accept(n, h, p, rest)
    PROVE  Step
<1> DEFINE fresh == ToHonest({AttestTo(proposerForHeight(h), n, h, p)})
           none == {}
<1>1. /\ h = Height(n)
      /\ log' = [log EXCEPT ![n] = Append(@, [payload |-> p, atts |-> none])]
      /\ signed' = signed \cup {Sign(n, Height(n), p)}
      /\ msgs' = rest \cup fresh
      /\ UNCHANGED <<pending, fired>>
  BY DEF Accept
<1>2. none \in SUBSET Members /\ none \subseteq SignersIn(signed', Height(n), p) /\ signed \subseteq signed'
  BY <1>1
<1> HIDE DEF none
<1>3. LogStep /\ Len(log'[n]) = Height(n) /\ log'[n][Height(n)].payload = p
  BY <1>1, <1>2, AppendedEntry
<1>4. SignedStep /\ n \in SignersIn(signed', h, p)
  BY <1>1, <1>3, SignedEntry
<1>5. \A x \in fresh : x \in Messages /\ MessageIn(signed', log', x)
  <2> SUFFICES ASSUME NEW x \in fresh PROVE x \in Messages /\ MessageIn(signed', log', x)
    OBVIOUS
  <2>1. x.to \in Honest /\ x = AttestTo(proposerForHeight(h), n, h, p)
    BY DEF ToHonest
  <2>2. x.type = "attest" /\ x.from = n /\ x.height = h /\ x.payload = p
    BY <2>1 DEF AttestTo
  <2>3. x \in Messages
    BY <2>1, MembersFinite DEF AttestTo, Messages
  <2> QED BY <2>2, <2>3, <1>4 DEF MessageIn
<1> HIDE DEF fresh
<1>6. MessagesStep
  BY <1>1, <1>5 DEF MessagesStep, IInv, TypeOK
<1> QED
  BY <1>1, <1>3, <1>4, <1>6 DEF Step, PendingStep, FiredStep, IInv, TypeOK

\* handleCommitted of an entry the primary lacks.
LEMMA PublishCommittedStep ==
    ASSUME IInv, NEW n \in Honest, NEW h \in Heights, NEW p \in Payloads, NEW as \in SUBSET Members,
           as \subseteq SignersIn(signed, h, p), NEW rest \in SUBSET msgs,
           PublishCommitted(n, h, p, as, rest)
    PROVE  Step
<1> DEFINE ev == [height |-> h, payload |-> p]
<1>1. /\ h = Height(n)
      /\ Cardinality(as) >= QuorumSize
      /\ log' = [log EXCEPT ![n] = Append(@, [payload |-> p, atts |-> as])]
      /\ fired' = [fired EXCEPT ![n] = @ \cup {ev}]
      /\ pending' = [pending EXCEPT ![n][h] = {}]
      /\ msgs' = rest
      /\ signed' = signed
  BY DEF PublishCommitted
<1>2. LogStep
  BY <1>1, AppendedEntry
<1>3. SignedStep
  BY <1>1 DEF SignedStep, IInv, TypeOK
<1>4. PendingStep
  <2>1. pending \in [Honest -> [Heights -> SUBSET Members]]
    BY DEF IInv, TypeOK
  <2>2. CollectedIn(signed', log', n, h, {})
    BY DEF CollectedIn
  <2> QED BY <1>1, <2>1, <2>2 DEF PendingStep
<1>5. ev \in [height : Heights, payload : Payloads] /\ QuorumIn(signed', ev)
  BY <1>1, SubsetOfSigners DEF QuorumIn
<1> HIDE DEF ev
<1>6. FiredStep
  BY <1>1, <1>5 DEF FiredStep, IInv, TypeOK
<1>7. MessagesStep
  BY <1>1, FewerMessages
<1> QED
  BY <1>2, <1>3, <1>4, <1>6, <1>7 DEF Step

\* handleCommitted of an entry the primary has.
LEMMA AddAttestationsStep ==
    ASSUME IInv, NEW n \in Honest, NEW h \in Heights, NEW as \in SUBSET Members,
           NEW rest \in SUBSET msgs, AddAttestations(n, h, as, rest)
    PROVE  Step
<1> DEFINE more == as \cap Signers(h, log[n][h].payload)
<1>1. /\ h < Height(n)
      /\ log' = [log EXCEPT ![n][h].atts = @ \cup more]
      /\ msgs' = rest
      /\ UNCHANGED <<pending, signed, fired>>
  BY DEF AddAttestations
<1>2. more \in SUBSET Members /\ more \subseteq SignersIn(signed, h, log[n][h].payload)
  BY SignersAreSigners
<1>3. h <= Len(log[n])
  BY <1>1 DEF Height, IInv, TypeOK, Heights
<1> HIDE DEF more
<1>4. LogStep
  BY <1>1, <1>2, <1>3, MoreAttestations
<1>5. MessagesStep
  BY <1>1, FewerMessages
<1> QED
  BY <1>1, <1>4, <1>5 DEF Step, SignedStep, PendingStep, FiredStep, IInv, TypeOK

\* requestSync, from the first height the primary lacks.
LEMMA RequestSyncStep ==
    ASSUME IInv, NEW n \in Honest, NEW peer, NEW rest \in SUBSET msgs, requestSync(n, peer, rest)
    PROVE  Step
<1> DEFINE fresh == ToHonest({SyncReqTo(peer, n, Height(n))})
<1>1. msgs' = rest \cup fresh /\ UNCHANGED <<log, pending, signed, fired>>
  BY DEF requestSync
<1>2. Height(n) \in Nat /\ Height(n) \in 1..(Len(log'[n]) + 1)
  BY <1>1 DEF Height, IInv, TypeOK
<1>3. \A x \in fresh : x \in Messages /\ MessageIn(signed', log', x)
  <2> SUFFICES ASSUME NEW x \in fresh PROVE x \in Messages /\ MessageIn(signed', log', x)
    OBVIOUS
  <2>1. x.to \in Honest /\ x = SyncReqTo(peer, n, Height(n))
    BY DEF ToHonest
  <2>2. x.type = "syncReq" /\ x.from = n /\ x.height = Height(n)
    BY <2>1 DEF SyncReqTo
  <2>3. x \in Messages
    BY <2>1, <1>2, MembersFinite DEF SyncReqTo, Messages
  <2> QED BY <2>2, <2>3, <1>2 DEF MessageIn
<1> HIDE DEF fresh
<1>4. MessagesStep
  BY <1>1, <1>3 DEF MessagesStep, IInv, TypeOK
<1> QED
  BY <1>1, <1>4, QuietStep

-----------------------------------------------------------------------------
(* Messages.                                                               *)

\* The fields of the messages, by type.
LEMMA MessageFields ==
    ASSUME IInv, NEW x \in msgs
    PROVE  /\ x.to \in Honest /\ MessageIn(signed, log, x)
           /\ x.type = "propose" => x.height \in Heights /\ x.payload \in Payloads
           /\ x.type = "attest" => x.from \in Members /\ x.height \in Heights /\ x.payload \in Payloads
           /\ x.type = "committed" => /\ x.height \in Heights /\ x.payload \in Payloads
                                      /\ x.atts \in SUBSET Members
           /\ x.type = "syncResp" => x.entries \in Seq(Entries)
  BY DEF IInv, TypeOK, Messages, MessagesGenuine

\* handlePropose
LEMMA HandleProposeStep ==
    ASSUME IInv, NEW x \in msgs, handlePropose(x)
    PROVE  Step
<1>1. x.to \in Honest /\ x.height \in Heights /\ x.payload \in Payloads /\ msgs \ {x} \in SUBSET msgs
  BY MessageFields DEF handlePropose
<1>2. CASE Accept(x.to, x.height, x.payload, msgs \ {x})
  BY <1>1, <1>2, AcceptStep
<1>3. CASE requestSync(x.to, proposerForHeight(x.height), msgs \ {x})
  BY <1>1, <1>3, RequestSyncStep
<1>4. CASE msgs' = msgs \ {x} /\ UNCHANGED <<log, pending, signed, fired>>
  BY <1>4, FewerMessages, QuietStep
<1> QED
  BY <1>2, <1>3, <1>4 DEF handlePropose

\* handleAttest
LEMMA HandleAttestStep ==
    ASSUME IInv, NEW x \in msgs, handleAttest(x)
    PROVE  Step
<1>1. /\ x.to \in Honest /\ x.height \in Heights /\ x.from \in Members /\ msgs \ {x} \in SUBSET msgs
      /\ x.from \in SignersIn(signed, x.height, x.payload)
  BY MessageFields DEF handleAttest, MessageIn
<1>2. CASE /\ log[x.to][x.height].payload = x.payload
           /\ CollectAttestation(x.to, x.from, x.height, msgs \ {x})
  BY <1>1, <1>2, CollectAttestationStep
<1>3. CASE msgs' = msgs \ {x} /\ UNCHANGED <<log, pending, signed, fired>>
  BY <1>3, FewerMessages, QuietStep
<1> QED
  BY <1>2, <1>3 DEF handleAttest

\* handleCommitted
LEMMA HandleCommittedStep ==
    ASSUME IInv, NEW x \in msgs, handleCommitted(x)
    PROVE  Step
<1>1. /\ x.to \in Honest /\ x.height \in Heights /\ x.payload \in Payloads /\ msgs \ {x} \in SUBSET msgs
      /\ x.atts \in SUBSET Members /\ x.atts \subseteq SignersIn(signed, x.height, x.payload)
  BY MessageFields DEF handleCommitted, MessageIn
<1>2. CASE PublishCommitted(x.to, x.height, x.payload, x.atts, msgs \ {x})
  BY <1>1, <1>2, PublishCommittedStep
<1>3. CASE AddAttestations(x.to, x.height, x.atts, msgs \ {x})
  BY <1>1, <1>3, AddAttestationsStep
<1>4. CASE requestSync(x.to, x.from, msgs \ {x})
  BY <1>1, <1>4, RequestSyncStep
<1> QED
  BY <1>2, <1>3, <1>4 DEF handleCommitted

\* handleSyncReq: the answer is a part of the log, which is genuine.
LEMMA HandleSyncReqStep ==
    ASSUME IInv, NEW x \in msgs, handleSyncReq(x)
    PROVE  Step
<1> DEFINE n == x.to
           es == SubSeq(log[n], x.height, Len(log[n]))
           r == SyncRespTo(x.from, n, x.height, es)
<1>1. UNCHANGED <<log, pending, signed, fired>>
  BY DEF handleSyncReq
<1>2. /\ n \in Honest /\ x.from \in Honest /\ n \in Members
      /\ x.height \in 1..(Len(log[x.from]) + 1)
  BY MessageFields, MembersFinite DEF handleSyncReq, MessageIn
<1>3. /\ log[n] \in Seq(Entries) /\ Len(log[n]) \in Nat /\ Len(log[x.from]) \in Nat
      /\ x.height \in Nat /\ x.height >= 1
  BY <1>2 DEF IInv, TypeOK
<1>4. ASSUME x.height < Height(n)
      PROVE  r \in Messages /\ MessageIn(signed', log', r)
  <2>1. x.height <= Len(log[n])
    BY <1>3, <1>4 DEF Height
  <2>2. \A i \in x.height..Len(log[n]) : log[n][i] \in Entries
    BY <1>3
  <2>3. /\ es \in Seq(Entries)
        /\ Len(es) = Len(log[n]) - x.height + 1
        /\ \A i \in 1..(Len(log[n]) - x.height + 1) : es[i] = log[n][x.height + i - 1]
    BY <2>1, <2>2, <1>3, SubSeqProperties
  <2>4. r.type = "syncResp" /\ r.to = x.from /\ r.height = x.height /\ r.entries = es
    BY DEF SyncRespTo
  <2>5. r \in Messages
    BY <1>2, <1>3, <2>3 DEF SyncRespTo, Messages
  <2>6. ASSUME NEW k \in 1..Len(es)
        PROVE  x.height + k - 1 \in Heights /\ GenuineIn(signed, x.height + k - 1, es[k])
    <3>1. x.height + k - 1 \in 1..Len(log[n]) /\ es[k] = log[n][x.height + k - 1]
      BY <1>3, <2>1, <2>3
    <3> QED BY <3>1, <1>2 DEF IInv, LogsGenuine
  <2>7. MessageIn(signed', log', r)
    <3> HIDE DEF r, es
    <3> QED BY <1>1, <1>2, <2>4, <2>6 DEF MessageIn
  <2> QED BY <2>5, <2>7
<1>5. msgs' \subseteq (msgs \cup {r}) /\ (r \in msgs' \ msgs => x.height < Height(n))
  BY DEF handleSyncReq
<1> HIDE DEF r
<1>6. MessagesStep
  BY <1>4, <1>5 DEF MessagesStep, IInv, TypeOK
<1> QED
  BY <1>1, <1>6, QuietStep

\* handleSyncResp
LEMMA HandleSyncRespStep ==
    ASSUME IInv, NEW x \in msgs, handleSyncResp(x)
    PROVE  Step
<1> DEFINE n == x.to
           ks == Applicable(n, x.height, x.entries)
<1>1. /\ n \in Honest /\ x.entries \in Seq(Entries) /\ x.height \in 1..(Len(log[n]) + 1)
      /\ \A k \in 1..Len(x.entries) :
            x.height + k - 1 \in Heights /\ GenuineIn(signed, x.height + k - 1, x.entries[k])
  BY MessageFields DEF handleSyncResp, MessageIn
<1>2. msgs' = msgs \ {x} /\ UNCHANGED <<pending, signed, fired>>
  BY DEF handleSyncResp
<1>3. LogStep
  <2>1. CASE UNCHANGED log
    BY <2>1, <1>2, SameLogs
  <2>2. ASSUME NEW last \in ks,
               log' = [log EXCEPT ![n] = @ \o SubSeq(x.entries, Height(n) - x.height + 1, last - x.height + 1)]
        PROVE  LogStep
    <3>1. last \in Height(n)..(x.height + Len(x.entries) - 1)
      BY DEF Applicable
    <3>2. x.height \in 1..Height(n)
      BY <1>1 DEF Height
    <3> HIDE DEF n
    <3> QED BY <2>2, <3>1, <3>2, <1>1, <1>2, SyncedEntries
  <2> QED BY <2>1, <2>2 DEF handleSyncResp
<1>4. MessagesStep
  BY <1>2, FewerMessages
<1> QED
  BY <1>2, <1>3, <1>4 DEF Step, SignedStep, PendingStep, FiredStep, IInv, TypeOK

-----------------------------------------------------------------------------
(* Faulty primaries and the network.                                       *)

\* A faulty primary appends an entry to a log with a sync response.
LEMMA FaultySyncRespStep ==
    ASSUME IInv, NEW n \in Honest, NEW h \in Heights, NEW p \in Payloads, FaultySyncResp(n, h, p)
    PROVE  Step
<1> DEFINE as == Signers(h, p)
<1>1. /\ h = Height(n)
      /\ log' = [log EXCEPT ![n] = Append(@, [payload |-> p, atts |-> as])]
      /\ UNCHANGED <<pending, signed, fired, msgs>>
  BY DEF FaultySyncResp
<1>2. as \in SUBSET Members /\ as \subseteq SignersIn(signed', h, p) /\ signed \subseteq signed'
  BY <1>1, SignersAreSigners
<1> HIDE DEF as
<1>3. LogStep
  BY <1>1, <1>2, AppendedEntry
<1> QED
  BY <1>1, <1>3 DEF Step, SignedStep, PendingStep, FiredStep, MessagesStep, IInv, TypeOK

\* Whatever faulty primaries send is a step as well.
LEMMA FaultyStepStep ==
    ASSUME IInv, FaultyStep
    PROVE  Step
<1>1. PICK n \in Honest :
         \/ \E h \in Heights : FaultyAttest(n, h)
         \/ \E h \in FaultyHeights, p \in Payloads :
               FaultyPropose(n, h, p) \/ FaultyCommitted(n, h, p) \/ FaultySyncResp(n, h, p)
  BY DEF FaultyStep
<1>2. msgs \in SUBSET msgs /\ FaultyHeights \subseteq Heights
  BY GBCConstants DEF Heights
<1>3. ASSUME NEW h \in Heights, FaultyAttest(n, h) PROVE Step
  <2>1. PICK w \in Signers(h, log[n][h].payload) : CollectAttestation(n, w, h, msgs)
    BY <1>3 DEF FaultyAttest
  <2>2. w \in Members /\ w \in SignersIn(signed, h, log[n][h].payload)
    BY <2>1, SignersAreSigners
  <2> QED BY <1>2, <2>1, <2>2, CollectAttestationStep
<1>4. ASSUME NEW h \in Heights, NEW p \in Payloads, FaultyPropose(n, h, p) PROVE Step
  BY <1>2, <1>4, AcceptStep DEF FaultyPropose
<1>5. ASSUME NEW h \in Heights, NEW p \in Payloads, FaultyCommitted(n, h, p) PROVE Step
  <2> DEFINE as == Signers(h, p)
  <2>1. as \in SUBSET Members /\ as \subseteq SignersIn(signed, h, p)
    BY SignersAreSigners
  <2>2. PublishCommitted(n, h, p, as, msgs) \/ AddAttestations(n, h, as, msgs)
    BY <1>5 DEF FaultyCommitted
  <2> HIDE DEF as
  <2>3. CASE PublishCommitted(n, h, p, as, msgs)
    BY <1>2, <2>1, <2>3, PublishCommittedStep
  <2>4. CASE AddAttestations(n, h, as, msgs)
    BY <1>2, <2>1, <2>4, AddAttestationsStep
  <2> QED BY <2>2, <2>3, <2>4
<1>6. ASSUME NEW h \in Heights, NEW p \in Payloads, FaultySyncResp(n, h, p) PROVE Step
  BY <1>6, FaultySyncRespStep
<1> QED
  BY <1>1, <1>2, <1>3, <1>4, <1>5, <1>6

-----------------------------------------------------------------------------
(* The theorems.                                                           *)

\* Every step of the chain is such a step.
LEMMA NextStep ==
    ASSUME IInv, Next
    PROVE  Step
<1>1. ASSUME NEW n \in Honest, NEW p \in Payloads, Propose(n, p) PROVE Step
  BY <1>1, ProposeStep
<1>2. ASSUME NEW x \in msgs, Receive(x) PROVE Step
  BY <1>2, HandleProposeStep, HandleAttestStep, HandleCommittedStep, HandleSyncReqStep,
     HandleSyncRespStep DEF Receive
<1>3. ASSUME NEW x \in msgs, Lose(x) PROVE Step
  BY <1>3, FewerMessages, QuietStep DEF Lose
<1>4. ASSUME FaultyStep PROVE Step
  BY <1>4, FaultyStepStep
<1> QED
  BY <1>1, <1>2, <1>3, <1>4 DEF Next

\* So is a stutter.
LEMMA StutterStep ==
    ASSUME IInv, UNCHANGED vars
    PROVE  Step
  BY SameLogs DEF Step, vars, SignedStep, PendingStep, FiredStep, MessagesStep, IInv, TypeOK

\* The invariant holds at the start: nothing is signed, stored or sent.
LEMMA InitInvariant == Init => IInv
<1> SUFFICES ASSUME Init PROVE IInv
  OBVIOUS
<1>1. \A n \in Honest : Len(log[n]) = 0
  BY DEF Init
<1>2. TypeOK
  BY DEF Init, TypeOK
<1>3. LogsGenuine
  BY <1>1 DEF LogsGenuine
<1>4. SignedIsHeld /\ FiredHasQuorum /\ MessagesGenuine
  BY DEF Init, SignedIsHeld, FiredHasQuorum, MessagesGenuine
<1>5. PendingGenuine
  BY DEF Init, PendingGenuine, CollectedIn
<1> QED
  BY <1>2, <1>3, <1>4, <1>5 DEF IInv

\* The invariant of the Global Beacon Chain: stored, collected and carried
\* attestations were made, and who signed an entry holds it.
THEOREM GBCInvariant == Spec => []IInv
<1>1. IInv /\ [Next]_vars => IInv'
  BY NextStep, StutterStep, StepKeepsInvariant
<1> QED
  BY <1>1, InitInvariant, PTL DEF Spec

\* The state of the beacon chain is always well typed.
THEOREM GBCTypeCorrect == Spec => []TypeOK
<1>1. IInv => TypeOK
  BY DEF IInv
<1> QED
  BY <1>1, GBCInvariant, PTL

\* G1 of gbc.go, for every number of primaries and whatever the faulty ones send:
\* no step takes an entry back, changes it or loses an attestation to it.
THEOREM GBCLogsOnlyGrow == Spec => LogsOnlyGrow
<1>1. IInv /\ [Next]_vars =>
         [\A n \in Honest :
             /\ Len(log[n]) <= Len(log'[n])
             /\ \A h \in 1..Len(log[n]) :
                   /\ log'[n][h].payload = log[n][h].payload
                   /\ log[n][h].atts \subseteq log'[n][h].atts]_vars
  BY NextStep DEF Step, LogStep
<1> QED
  BY <1>1, GBCInvariant, PTL DEF Spec, LogsOnlyGrow

\* checkAndCommit and handleCommitted call onCommit only for entries that a quorum
\* signed, and the honest members of that quorum hold the entry for good, however
\* many primaries are faulty.
THEOREM GBCCommitIsDurable == Spec => []CommitIsDurable
<1>1. IInv => CommitIsDurable
  <2> SUFFICES ASSUME IInv, NEW a \in Honest, NEW x \in fired[a]
               PROVE  /\ Cardinality(Signers(x.height, x.payload)) >= QuorumSize
                      /\ \A n \in Signers(x.height, x.payload) \ Faulty :
                            x.height < Height(n) /\ log[n][x.height].payload = x.payload
    BY DEF CommitIsDurable
  <2>1. Signers(x.height, x.payload) = SignersIn(signed, x.height, x.payload)
    BY DEF Signers, SignersIn
  <2>2. QuorumIn(signed, x)
    BY DEF IInv, FiredHasQuorum
  <2>3. x.height \in Heights /\ x.height \in Nat
    BY DEF IInv, TypeOK, Heights
  <2>4. ASSUME NEW n \in Signers(x.height, x.payload) \ Faulty
        PROVE  x.height < Height(n) /\ log[n][x.height].payload = x.payload
    <3> DEFINE s == Sign(n, x.height, x.payload)
    <3>1. n \in Honest /\ s \in signed
      BY <2>4 DEF Signers
    <3>2. s.signer = n /\ s.height = x.height /\ s.payload = x.payload
      BY DEF Sign
    <3> HIDE DEF s
    <3>3. x.height <= Len(log[n]) /\ log[n][x.height].payload = x.payload
      BY <3>1, <3>2 DEF IInv, SignedIsHeld, Holds
    <3> QED BY <2>3, <3>1, <3>3 DEF Height, IInv, TypeOK
  <2> QED BY <2>1, <2>2, <2>4 DEF QuorumIn
<1> QED
  BY <1>1, GBCInvariant, PTL

\* With m = 3f + 1 primaries of which at most f are faulty, certified entries of a
\* height agree: the two quorums share an honest primary, which signed one entry
\* of the height, the one it holds.
THEOREM GBCCertifiedAgree ==
    ASSUME FaultBound
    PROVE  Spec => []CertifiedAgree
<1>1. IInv => CertifiedAgree
  <2> SUFFICES ASSUME IInv, NEW a \in Honest, NEW b \in Honest, NEW h \in Heights,
                      h < Height(a), h < Height(b),
                      Cardinality(log[a][h].atts) >= QuorumSize,
                      Cardinality(log[b][h].atts) >= QuorumSize
               PROVE  log[a][h].payload = log[b][h].payload
    BY DEF CertifiedAgree
  <2> DEFINE A == log[a][h].atts
             B == log[b][h].atts
             p == log[a][h].payload
             q == log[b][h].payload
  <2>1. h \in Nat /\ h \in 1..Len(log[a]) /\ h \in 1..Len(log[b])
    BY DEF Height, Heights, IInv, TypeOK
  <2>2. A \subseteq SignersIn(signed, h, p) /\ B \subseteq SignersIn(signed, h, q)
    BY <2>1 DEF IInv, LogsGenuine, GenuineIn
  <2>3. A \in SUBSET Members /\ B \in SUBSET Members
    BY <2>2, SignersGrow
  <2>4. PICK n \in Honest : n \in A /\ n \in B
    BY <2>3, QuorumsShareHonest
  <2>5. n \notin Faulty
    BY DEF Honest
  <2>6. Sign(n, h, p) \in signed /\ Sign(n, h, q) \in signed
    BY <2>2, <2>4, <2>5 DEF SignersIn
  <2> HIDE DEF p, q
  <2>7. log[n][h].payload = p
    <3> DEFINE s == Sign(n, h, p)
    <3>1. s \in signed /\ s.signer = n /\ s.height = h /\ s.payload = p
      BY <2>6 DEF Sign
    <3> HIDE DEF s
    <3> QED BY <3>1 DEF IInv, SignedIsHeld, Holds
  <2>8. log[n][h].payload = q
    <3> DEFINE s == Sign(n, h, q)
    <3>1. s \in signed /\ s.signer = n /\ s.height = h /\ s.payload = q
      BY <2>6 DEF Sign
    <3> HIDE DEF s
    <3> QED BY <3>1 DEF IInv, SignedIsHeld, Holds
  <2> QED BY <2>7, <2>8 DEF p, q
<1> QED
  BY <1>1, GBCInvariant, PTL
-----------------------------------------------------------------------------
(* The primaries implement BeaconDecisions.                                *)

\* GBC's Decided for the signatures S.
DecidedIn(S) ==
    {x \in [height : Heights, payload : Payloads] :
        Cardinality(SignersIn(S, x.height, x.payload)) >= QuorumSize}

\* It is Decided, now and after a step.
LEMMA DecidedIsDecided == Decided = DecidedIn(signed) /\ Decided' = DecidedIn(signed')
<1>1. \A h, p : Signers(h, p) = SignersIn(signed, h, p)
  BY DEF Signers, SignersIn
<1>2. \A h, p : Signers(h, p)' = SignersIn(signed', h, p)
  BY DEF Signers, SignersIn
<1> QED
  BY <1>1, <1>2 DEF Decided, DecidedIn

\* No step makes more than one attestation, and none makes onCommit forget.
OneSigned ==
    \/ UNCHANGED signed
    \/ \E n \in Honest, h \in Heights, p \in Payloads : signed' = signed \cup {Sign(n, h, p)}

FiredGrows == \A n \in Honest : fired[n] \subseteq fired'[n]

\* What a primary does with an entry it has not seen.
LEMMA AcceptSignsOne ==
    ASSUME IInv, NEW n \in Honest, NEW h \in Heights, NEW p \in Payloads, NEW rest,
           Accept(n, h, p, rest)
    PROVE  OneSigned /\ FiredGrows
  BY DEF Accept, OneSigned, FiredGrows

\* checkAndCommit only adds to what onCommit was called with.
LEMMA CheckAndCommitGrows ==
    ASSUME IInv, NEW n \in Honest, NEW h, NEW p, NEW as, NEW sent,
           checkAndCommit(n, h, p, as, sent)
    PROVE  FiredGrows
<1>1. fired \in [Honest -> SUBSET [height : Heights, payload : Payloads]]
  BY DEF IInv, TypeOK
<1>2. CASE fired' = [fired EXCEPT ![n] = @ \cup {[height |-> h, payload |-> p]}]
  BY <1>1, <1>2 DEF FiredGrows
<1>3. CASE UNCHANGED fired
  BY <1>3 DEF FiredGrows
<1> QED
  BY <1>2, <1>3 DEF checkAndCommit

\* So does a published entry.
LEMMA PublishCommittedGrows ==
    ASSUME IInv, NEW n \in Honest, NEW h, NEW p, NEW as, NEW rest,
           PublishCommitted(n, h, p, as, rest)
    PROVE  OneSigned /\ FiredGrows
<1>1. fired \in [Honest -> SUBSET [height : Heights, payload : Payloads]]
  BY DEF IInv, TypeOK
<1> QED
  BY <1>1 DEF PublishCommitted, OneSigned, FiredGrows

\* A collected attestation was made before.
LEMMA CollectAttestationGrows ==
    ASSUME IInv, NEW n \in Honest, NEW w, NEW h, NEW rest, CollectAttestation(n, w, h, rest)
    PROVE  OneSigned /\ FiredGrows
  BY CheckAndCommitGrows DEF CollectAttestation, OneSigned

\* Steps that touch neither.
LEMMA NothingSignedOrFired ==
    ASSUME UNCHANGED <<signed, fired>>
    PROVE  OneSigned /\ FiredGrows
  BY DEF OneSigned, FiredGrows

\* Every step of the chain is of this kind.
LEMMA NextSignsOne ==
    ASSUME IInv, Next
    PROVE  OneSigned /\ FiredGrows
<1>1. ASSUME NEW n \in Honest, NEW p \in Payloads, Propose(n, p) PROVE OneSigned /\ FiredGrows
  <2>1. Height(n) \in Heights /\ signed' = signed \cup {Sign(n, Height(n), p)}
    BY <1>1 DEF Propose
  <2>2. FiredGrows
    BY <1>1, CheckAndCommitGrows DEF Propose
  <2> QED BY <2>1, <2>2 DEF OneSigned
<1>2. ASSUME NEW x \in msgs, Receive(x) PROVE OneSigned /\ FiredGrows
  <2>1. CASE handlePropose(x)
    <3>1. x.to \in Honest /\ x.height \in Heights /\ x.payload \in Payloads
      BY <2>1, MessageFields DEF handlePropose
    <3>2. CASE Accept(x.to, x.height, x.payload, msgs \ {x})
      BY <3>1, <3>2, AcceptSignsOne
    <3>3. CASE UNCHANGED <<signed, fired>>
      BY <3>3, NothingSignedOrFired
    <3> QED BY <2>1, <3>2, <3>3 DEF handlePropose, requestSync
  <2>2. CASE handleAttest(x)
    <3>1. x.to \in Honest
      BY MessageFields
    <3>2. CASE CollectAttestation(x.to, x.from, x.height, msgs \ {x})
      BY <3>1, <3>2, CollectAttestationGrows
    <3>3. CASE UNCHANGED <<signed, fired>>
      BY <3>3, NothingSignedOrFired
    <3> QED BY <2>2, <3>2, <3>3 DEF handleAttest
  <2>3. CASE handleCommitted(x)
    <3>1. x.to \in Honest
      BY MessageFields
    <3>2. CASE PublishCommitted(x.to, x.height, x.payload, x.atts, msgs \ {x})
      BY <3>1, <3>2, PublishCommittedGrows
    <3>3. CASE UNCHANGED <<signed, fired>>
      BY <3>3, NothingSignedOrFired
    <3> QED BY <2>3, <3>2, <3>3 DEF handleCommitted, AddAttestations, requestSync
  <2>4. CASE handleSyncReq(x)
    BY <2>4, NothingSignedOrFired DEF handleSyncReq
  <2>5. CASE handleSyncResp(x)
    BY <2>5, NothingSignedOrFired DEF handleSyncResp
  <2> QED BY <1>2, <2>1, <2>2, <2>3, <2>4, <2>5 DEF Receive
<1>3. ASSUME NEW x \in msgs, Lose(x) PROVE OneSigned /\ FiredGrows
  BY <1>3, NothingSignedOrFired DEF Lose
<1>4. ASSUME FaultyStep PROVE OneSigned /\ FiredGrows
  <2>1. PICK n \in Honest :
           \/ \E h \in Heights : FaultyAttest(n, h)
           \/ \E h \in FaultyHeights, p \in Payloads :
                 FaultyPropose(n, h, p) \/ FaultyCommitted(n, h, p) \/ FaultySyncResp(n, h, p)
    BY <1>4 DEF FaultyStep
  <2>2. FaultyHeights \subseteq Heights
    BY GBCConstants DEF Heights
  <2>3. ASSUME NEW h \in Heights, FaultyAttest(n, h) PROVE OneSigned /\ FiredGrows
    BY <2>3, CollectAttestationGrows DEF FaultyAttest
  <2>4. ASSUME NEW h \in Heights, NEW p \in Payloads, FaultyPropose(n, h, p)
        PROVE  OneSigned /\ FiredGrows
    BY <2>4, AcceptSignsOne DEF FaultyPropose
  <2>5. ASSUME NEW h \in Heights, NEW p \in Payloads, FaultyCommitted(n, h, p)
        PROVE  OneSigned /\ FiredGrows
    <3>1. CASE PublishCommitted(n, h, p, Signers(h, p), msgs)
      BY <3>1, PublishCommittedGrows
    <3>2. CASE AddAttestations(n, h, Signers(h, p), msgs)
      BY <3>2, NothingSignedOrFired DEF AddAttestations
    <3> QED BY <2>5, <3>1, <3>2 DEF FaultyCommitted
  <2>6. ASSUME NEW h \in Heights, NEW p \in Payloads, FaultySyncResp(n, h, p)
        PROVE  OneSigned /\ FiredGrows
    BY <2>6, NothingSignedOrFired DEF FaultySyncResp
  <2> QED BY <2>1, <2>2, <2>3, <2>4, <2>5, <2>6
<1> QED
  BY <1>1, <1>2, <1>3, <1>4 DEF Next

\* The logs L hold what was signed in S: no two payloads are decided for a height.
LEMMA OneDecisionPerHeight ==
    ASSUME FaultBound, NEW S, NEW L, \A s \in S : Holds(L, s),
           NEW x \in DecidedIn(S), NEW y \in DecidedIn(S), x.height = y.height
    PROVE  x = y
<1>1. /\ x = [height |-> x.height, payload |-> x.payload]
      /\ y = [height |-> y.height, payload |-> y.payload]
      /\ Cardinality(SignersIn(S, x.height, x.payload)) >= QuorumSize
      /\ Cardinality(SignersIn(S, y.height, y.payload)) >= QuorumSize
  BY DEF DecidedIn
<1>2. /\ SignersIn(S, x.height, x.payload) \in SUBSET Members
      /\ SignersIn(S, y.height, y.payload) \in SUBSET Members
  BY SignersGrow
<1>3. PICK n \in Honest : n \in SignersIn(S, x.height, x.payload) /\ n \in SignersIn(S, y.height, y.payload)
  BY <1>1, <1>2, QuorumsShareHonest
<1>4. Sign(n, x.height, x.payload) \in S /\ Sign(n, y.height, y.payload) \in S
  BY <1>3 DEF SignersIn, Honest
<1>5. \A h, p : Sign(n, h, p).signer = n /\ Sign(n, h, p).height = h /\ Sign(n, h, p).payload = p
  BY DEF Sign
<1>6. L[n][x.height].payload = x.payload /\ L[n][y.height].payload = y.payload
  BY <1>4, <1>5 DEF Holds
<1> QED
  BY <1>1, <1>6

\* One more signature decides at most the entry it is on.
LEMMA OneSignatureOneDecision ==
    ASSUME NEW S, NEW n \in Honest, NEW h \in Heights, NEW p \in Payloads,
           NEW T, T = S \cup {Sign(n, h, p)}
    PROVE  /\ DecidedIn(S) \subseteq DecidedIn(T)
           /\ DecidedIn(T) \subseteq DecidedIn(S) \cup {[height |-> h, payload |-> p]}
<1>1. DecidedIn(S) \subseteq DecidedIn(T)
  BY SignersGrow, SubsetOfSigners DEF DecidedIn
<1>2. ASSUME NEW x \in DecidedIn(T), x # [height |-> h, payload |-> p]
      PROVE  x \in DecidedIn(S)
  <2>1. x \in [height : Heights, payload : Payloads]
    BY DEF DecidedIn
  <2>2. x.height # h \/ x.payload # p
    BY <1>2, <2>1
  <2>3. \A k \in Honest : Sign(k, x.height, x.payload) # Sign(n, h, p)
    BY <2>2 DEF Sign
  <2>4. SignersIn(T, x.height, x.payload) = SignersIn(S, x.height, x.payload)
    BY <2>3 DEF SignersIn
  <2> QED BY <2>1, <2>4 DEF DecidedIn
<1> QED
  BY <1>1, <1>2

\* With m = 3f + 1 primaries of which at most f are faulty, the chain is one
\* write-once register for each height: an entry onCommit is called with, at
\* whatever primary and by whatever message, was decided, and no other entry of
\* the height ever is.
THEOREM GBCImplementsBeaconDecisions ==
    ASSUME FaultBound
    PROVE  Spec => ImplementsBeaconDecisions
<1>1. Init => BD!Init
  <2> SUFFICES ASSUME Init PROVE Decided = {} /\ fired = [n \in Honest |-> {}]
    BY DEF BD!Init
  <2>1. ASSUME NEW h, NEW p PROVE ~(Cardinality(SignersIn({}, h, p)) >= QuorumSize)
    <3>1. SignersIn({}, h, p) = Faulty
      BY DEF SignersIn
    <3>2. IsFiniteSet(Faulty)
      BY MembersFinite, FS_Subset
    <3>3. Cardinality(Faulty) \in Nat
      BY <3>2, FS_CardinalityType
    <3> DEFINE c == Cardinality(Faulty)
               f == (m - 1) \div 3
    <3>4. c \in Nat /\ f \in Nat /\ c <= f /\ QuorumSize = 2 * f + 1
      BY <3>3, GBCConstants DEF FaultBound, QuorumSize
    <3> HIDE DEF c, f
    <3>5. ~(c >= QuorumSize)
      BY <3>4
    <3> QED BY <3>1, <3>5 DEF c
  <2>2. DecidedIn({}) = {}
    BY <2>1 DEF DecidedIn
  <2> QED BY <2>2, DecidedIsDecided DEF Init
<1>2. IInv /\ [Next]_vars => [BD!Next]_(BD!bdvars)
  <2> SUFFICES ASSUME IInv, [Next]_vars PROVE [BD!Next]_(BD!bdvars)
    OBVIOUS
  <2>1. CASE UNCHANGED vars
    BY <2>1, DecidedIsDecided DEF vars, BD!bdvars
  <2>2. CASE Next
    <3>1. IInv' /\ OneSigned /\ FiredGrows
      BY <2>2, NextStep, StepKeepsInvariant, NextSignsOne
    <3>2. \A s \in signed' : Holds(log', s)
      BY <3>1 DEF IInv, SignedIsHeld
    <3>3. fired' \in [Honest -> SUBSET DecidedIn(signed')]
      BY <3>1 DEF IInv, TypeOK, FiredHasQuorum, QuorumIn, DecidedIn
    <3>4. BD!Learn
      BY <3>1, <3>3, DecidedIsDecided DEF BD!Learn, FiredGrows
    <3>5. CASE UNCHANGED signed
      BY <3>4, <3>5, DecidedIsDecided DEF BD!Next
    <3>6. ASSUME NEW n \in Honest, NEW h \in Heights, NEW p \in Payloads,
                 signed' = signed \cup {Sign(n, h, p)}
          PROVE  BD!Next
      <4> DEFINE e == [height |-> h, payload |-> p]
      <4>1. /\ DecidedIn(signed) \subseteq DecidedIn(signed')
            /\ DecidedIn(signed') \subseteq DecidedIn(signed) \cup {e}
        BY <3>6, OneSignatureOneDecision
      <4>2. CASE DecidedIn(signed') = DecidedIn(signed)
        BY <3>4, <4>2, DecidedIsDecided DEF BD!Next
      <4>3. CASE DecidedIn(signed') # DecidedIn(signed)
        <5>1. e \in DecidedIn(signed') /\ e \notin DecidedIn(signed)
              /\ DecidedIn(signed') = DecidedIn(signed) \cup {e}
          BY <4>1, <4>3
        <5>2. e.height = h
          OBVIOUS
        <5> HIDE DEF e
        <5>3. \A x \in DecidedIn(signed) : x.height # h
          BY <3>2, <4>1, <5>1, <5>2, OneDecisionPerHeight
        <5>4. BD!Decide(h, p)
          BY <5>1, <5>3, DecidedIsDecided DEF BD!Decide, e
        <5> QED BY <3>4, <5>4 DEF BD!Next
      <4> QED BY <4>2, <4>3
    <3> QED BY <3>1, <3>5, <3>6 DEF OneSigned
  <2> QED BY <2>1, <2>2
<1> QED
  BY <1>1, <1>2, GBCInvariant, PTL DEF Spec, ImplementsBeaconDecisions, BD!Spec
=============================================================================
