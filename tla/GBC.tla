-------------------------------- MODULE GBC --------------------------------
(***************************************************************************)
(* The Global Beacon Chain among m primaries: consensus/gbc/node.go over   *)
(* the append-only log of gbc.go.  For each height one primary proposes an *)
(* entry, the others publish it and send attestations back, and the        *)
(* proposer commits it when it has collected a quorum of them.             *)
(*                                                                         *)
(* Every handler holds n.mu, so it is one atomic action.  A message is     *)
(* delivered at most once, in any order; with Lossy it may be lost (a full *)
(* inbox of P2PTransport drops it).  An entry is its payload together with *)
(* the set of primaries whose valid signature on it the node has stored.   *)
(* A signature that does not verify changes nothing and is left out.       *)
(***************************************************************************)
EXTENDS Naturals, Sequences, FiniteSets

CONSTANTS
    m,          \* NumMembers; the primaries are 0..m-1 in the order of MemberIDs
    Faulty,     \* primaries that may sign and send anything
    Payloads,   \* what entries may carry
    Lossy,      \* whether messages may be lost
    MaxHeight,  \* bound: entries proposed
    FaultyHeights  \* bound: heights faulty primaries propose and send entries of

ASSUME GBCConstants ==
    /\ m \in Nat /\ m > 0
    /\ Faulty \subseteq 0..(m - 1)
    /\ Lossy \in BOOLEAN
    /\ MaxHeight \in Nat /\ FaultyHeights \subseteq 1..MaxHeight

Members == 0..(m - 1)
Honest == Members \ Faulty
Heights == 1..MaxHeight

\* Mutant: one attestation too few.
QuorumTooSmall == 2 * ((m - 1) \div 3)

QuorumSize == 2 * ((m - 1) \div 3) + 1

proposerForHeight(h) == h % m

Entries == [payload : Payloads, atts : SUBSET Members]

VARIABLES
    log,       \* each honest primary's log; the entry of height h is at index h
    pending,   \* attestations collected for the entries a primary proposed; {} if none
    signed,    \* the attestations honest primaries have made
    fired,     \* the entries onCommit was called with, at each primary
    msgs       \* messages in flight

vars == <<log, pending, signed, fired, msgs>>

Signatures == [signer : Honest, height : Heights, payload : Payloads]

Init ==
    /\ log = [n \in Honest |-> <<>>]
    /\ pending = [n \in Honest |-> [h \in Heights |-> {}]]
    /\ signed = {}
    /\ fired = [n \in Honest |-> {}]
    /\ msgs = {}

Height(n) == Len(log[n]) + 1

Sign(n, h, p) == [signer |-> n, height |-> h, payload |-> p]

\* Whose signatures on the entry exist, or can be made.
Signers(h, p) == {n \in Honest : Sign(n, h, p) \in signed} \cup Faulty

\* Messages.
ProposeTo(q, h, p) == [type |-> "propose", to |-> q, height |-> h, payload |-> p]
AttestTo(q, n, h, p) ==
    [type |-> "attest", to |-> q, from |-> n, height |-> h, payload |-> p]
CommittedTo(q, n, h, p, as) ==
    [type |-> "committed", to |-> q, from |-> n, height |-> h, payload |-> p, atts |-> as]
SyncReqTo(q, n, h) == [type |-> "syncReq", to |-> q, from |-> n, height |-> h]
SyncRespTo(q, n, h, es) ==
    [type |-> "syncResp", to |-> q, from |-> n, height |-> h, entries |-> es]

\* Send and Broadcast; what faulty primaries receive does not matter, they may
\* do anything anyway.
ToHonest(ms) == {x \in ms : x.to \in Honest}

-----------------------------------------------------------------------------
(* The proposer *)

\* checkAndCommit, for the attestations `as` on entry p of height h: the rest of
\* the action that collected the last of them.  `sent` are the messages the
\* action has sent before.
checkAndCommit(n, h, p, as, sent) ==
    IF Cardinality(as) >= QuorumSize
    THEN /\ msgs' = sent \cup ToHonest({CommittedTo(q, n, h, p, as) : q \in Members \ {n}})
         /\ fired' = [fired EXCEPT ![n] = @ \cup {[height |-> h, payload |-> p]}]
         /\ pending' = [pending EXCEPT ![n][h] = {}]
    ELSE /\ msgs' = sent
         /\ pending' = [pending EXCEPT ![n][h] = as]
         /\ UNCHANGED fired

\* propose: the entry is in the proposer's log before anyone has attested to it.
Propose(n, p) ==
    LET h == Height(n) IN
    /\ h \in Heights
    /\ proposerForHeight(h) = n
    /\ log' = [log EXCEPT ![n] = Append(@, [payload |-> p, atts |-> {n}])]
    /\ signed' = signed \cup {Sign(n, h, p)}
    /\ checkAndCommit(n, h, p, {n},
                      msgs \cup ToHonest({ProposeTo(q, h, p) : q \in Members \ {n}}))

\* handleAttest
CollectAttestation(n, w, h, rest) ==
    LET as == pending[n][h] \cup {w} IN
    /\ pending[n][h] # {}
    /\ w \notin pending[n][h]
    /\ log' = [log EXCEPT ![n][h].atts = @ \cup {w}]
    /\ checkAndCommit(n, h, log[n][h].payload, as, rest)
    /\ UNCHANGED signed

handleAttest(x) ==
    /\ x.type = "attest"
    /\ \/ /\ log[x.to][x.height].payload = x.payload
          /\ CollectAttestation(x.to, x.from, x.height, msgs \ {x})
       \/ /\ \/ log[x.to][x.height].payload # x.payload
             \/ pending[x.to][x.height] = {}
             \/ x.from \in pending[x.to][x.height]
          /\ msgs' = msgs \ {x}
          /\ UNCHANGED <<log, pending, signed, fired>>

-----------------------------------------------------------------------------
(* The other primaries *)

\* Mutant: attests to a second entry of a height it has.
AcceptAgain(n, h, p, rest) ==
    /\ h <= Height(n)
    /\ log' = IF h = Height(n)
              THEN [log EXCEPT ![n] = Append(@, [payload |-> p, atts |-> {}])]
              ELSE log
    /\ signed' = signed \cup {Sign(n, h, p)}
    /\ msgs' = rest \cup ToHonest({AttestTo(proposerForHeight(h), n, h, p)})
    /\ UNCHANGED <<pending, fired>>

\* The entry is published without any attestation, then attested to.
Accept(n, h, p, rest) ==
    /\ h = Height(n)
    /\ log' = [log EXCEPT ![n] = Append(@, [payload |-> p, atts |-> {}])]
    /\ signed' = signed \cup {Sign(n, h, p)}
    /\ msgs' = rest \cup ToHonest({AttestTo(proposerForHeight(h), n, h, p)})
    /\ UNCHANGED <<pending, fired>>

requestSync(n, peer, rest) ==
    /\ msgs' = rest \cup ToHonest({SyncReqTo(peer, n, Height(n))})
    /\ UNCHANGED <<log, pending, signed, fired>>

handlePropose(x) ==
    /\ x.type = "propose"
    /\ \/ Accept(x.to, x.height, x.payload, msgs \ {x})
       \/ /\ x.height > Height(x.to)
          /\ requestSync(x.to, proposerForHeight(x.height), msgs \ {x})
       \/ /\ x.height < Height(x.to)
          /\ msgs' = msgs \ {x}
          /\ UNCHANGED <<log, pending, signed, fired>>

\* Mutant: reports the index of the entry in the log, which counts from zero.
PublishCommittedIndex(n, h, p, as, rest) ==
    /\ h = Height(n)
    /\ Cardinality(as) >= QuorumSize
    /\ log' = [log EXCEPT ![n] = Append(@, [payload |-> p, atts |-> as])]
    /\ fired' = [fired EXCEPT ![n] = @ \cup {[height |-> h - 1, payload |-> p]}]
    /\ pending' = [pending EXCEPT ![n][h] = {}]
    /\ msgs' = rest
    /\ UNCHANGED signed

\* A committed entry: new to the node, or one it has, to which it adds the
\* attestations that verify against its own copy.  Only the first calls onCommit.
PublishCommitted(n, h, p, as, rest) ==
    /\ h = Height(n)
    /\ Cardinality(as) >= QuorumSize
    /\ log' = [log EXCEPT ![n] = Append(@, [payload |-> p, atts |-> as])]
    /\ fired' = [fired EXCEPT ![n] = @ \cup {[height |-> h, payload |-> p]}]
    /\ pending' = [pending EXCEPT ![n][h] = {}]
    /\ msgs' = rest
    /\ UNCHANGED signed

AddAttestations(n, h, as, rest) ==
    /\ h < Height(n)
    /\ log' = [log EXCEPT ![n][h].atts = @ \cup (as \cap Signers(h, log[n][h].payload))]
    /\ msgs' = rest
    /\ UNCHANGED <<pending, signed, fired>>

handleCommitted(x) ==
    /\ x.type = "committed"
    /\ \/ PublishCommitted(x.to, x.height, x.payload, x.atts, msgs \ {x})
       \/ AddAttestations(x.to, x.height, x.atts, msgs \ {x})
       \/ x.height > Height(x.to) /\ requestSync(x.to, x.from, msgs \ {x})

-----------------------------------------------------------------------------
(* Catching up *)

handleSyncReq(x) ==
    /\ x.type = "syncReq"
    /\ msgs' = (msgs \ {x}) \cup
               (IF x.height < Height(x.to)
                THEN {SyncRespTo(x.from, x.to, x.height,
                                 SubSeq(log[x.to], x.height, Len(log[x.to])))}
                ELSE {})
    /\ UNCHANGED <<log, pending, signed, fired>>

\* The entries are applied in order up to the first one without a quorum; the
\* ones the node has are skipped.
Applicable(n, first, es) ==
    {k \in Height(n)..(first + Len(es) - 1) :
        \A h \in Height(n)..k : Cardinality(es[h - first + 1].atts) >= QuorumSize}

\* Mutant: the response replaces what the node has from its first height on.
SyncOverwrites(x) ==
    /\ x.type = "syncResp"
    /\ x.height <= Height(x.to)
    /\ log' = [log EXCEPT ![x.to] = SubSeq(@, 1, x.height - 1) \o x.entries]
    /\ msgs' = msgs \ {x}
    /\ UNCHANGED <<pending, signed, fired>>

handleSyncResp(x) ==
    LET ks == Applicable(x.to, x.height, x.entries)
    IN  /\ x.type = "syncResp"
        /\ \/ ks = {} /\ UNCHANGED log
           \/ \E last \in ks :
                 /\ \A k \in ks : k <= last
                 /\ log' = [log EXCEPT ![x.to] =
                              @ \o SubSeq(x.entries, Height(x.to) - x.height + 1,
                                          last - x.height + 1)]
        /\ msgs' = msgs \ {x}
        /\ UNCHANGED <<pending, signed, fired>>

-----------------------------------------------------------------------------
(* Faulty primaries and the network *)

\* A faulty primary sees every signature (the messages go through one topic), so
\* it can send them on, with or without its own.  It sends on all there are: what
\* one of them would do alone it does by being sent before the others are made.
FaultyPropose(n, h, p) ==
    /\ proposerForHeight(h) \in Faulty
    /\ Accept(n, h, p, msgs)

FaultyAttest(n, h) ==
    /\ pending[n][h] # {}
    /\ \E w \in Signers(h, log[n][h].payload) : CollectAttestation(n, w, h, msgs)

FaultyCommitted(n, h, p) ==
    \/ PublishCommitted(n, h, p, Signers(h, p), msgs)
    \/ AddAttestations(n, h, Signers(h, p), msgs)

FaultySyncResp(n, h, p) ==
    /\ h = Height(n)
    /\ Cardinality(Signers(h, p)) >= QuorumSize
    /\ log' = [log EXCEPT ![n] = Append(@, [payload |-> p, atts |-> Signers(h, p)])]
    /\ UNCHANGED <<pending, signed, fired, msgs>>

FaultyStep ==
    /\ Faulty # {}
    /\ \E n \in Honest :
          \/ \E h \in Heights : FaultyAttest(n, h)
          \/ \E h \in FaultyHeights, p \in Payloads :
                \/ FaultyPropose(n, h, p)
                \/ FaultyCommitted(n, h, p)
                \/ FaultySyncResp(n, h, p)

Lose(x) ==
    /\ Lossy
    /\ msgs' = msgs \ {x}
    /\ UNCHANGED <<log, pending, signed, fired>>

\* processLoop
Receive(x) ==
    \/ handlePropose(x) \/ handleAttest(x) \/ handleCommitted(x)
    \/ handleSyncReq(x) \/ handleSyncResp(x)

Next ==
    \/ \E n \in Honest, p \in Payloads : Propose(n, p)
    \/ \E x \in msgs : Receive(x) \/ Lose(x)
    \/ FaultyStep

Spec == Init /\ [][Next]_vars

-----------------------------------------------------------------------------
(* Properties *)

Messages ==
    [type : {"propose"}, to : Honest, height : Heights, payload : Payloads] \cup
    [type : {"attest"}, to : Honest, from : Members, height : Heights, payload : Payloads] \cup
    [type : {"committed"}, to : Honest, from : Members, height : Heights,
     payload : Payloads, atts : SUBSET Members] \cup
    [type : {"syncReq"}, to : Honest, from : Members, height : Nat] \cup
    [type : {"syncResp"}, to : Honest, from : Members, height : Nat, entries : Seq(Entries)]

TypeOK ==
    /\ log \in [Honest -> Seq(Entries)]
    /\ pending \in [Honest -> [Heights -> SUBSET Members]]
    /\ signed \subseteq Signatures
    /\ fired \in [Honest -> SUBSET [height : Heights, payload : Payloads]]
    /\ msgs \subseteq Messages

\* No two honest primaries hold different entries of one height that each carry a
\* quorum of attestations, although a faulty proposer may send each of them
\* another entry and logs hold entries that no quorum has attested to.
CertifiedAgree ==
    \A a, b \in Honest : \A h \in Heights :
        /\ h < Height(a) /\ h < Height(b)
        /\ Cardinality(log[a][h].atts) >= QuorumSize
        /\ Cardinality(log[b][h].atts) >= QuorumSize
        => log[a][h].payload = log[b][h].payload

\* A commit survives: of the quorum behind it, every honest member holds the
\* entry in its log at that height and never holds another.
CommitIsDurable ==
    \A a \in Honest : \A x \in fired[a] :
        /\ Cardinality(Signers(x.height, x.payload)) >= QuorumSize
        /\ \A n \in Signers(x.height, x.payload) \ Faulty :
              x.height < Height(n) /\ log[n][x.height].payload = x.payload

\* The logs are append-only (G1): no step takes an entry back, changes what it
\* says or loses an attestation to it.
LogsOnlyGrow ==
    [][\A n \in Honest :
          /\ Len(log[n]) <= Len(log'[n])
          /\ \A h \in 1..Len(log[n]) :
                /\ log'[n][h].payload = log[n][h].payload
                /\ log[n][h].atts \subseteq log'[n][h].atts]_vars

\* An entry is decided once a quorum has signed it, or can have.
Decided ==
    {x \in [height : Heights, payload : Payloads] :
        Cardinality(Signers(x.height, x.payload)) >= QuorumSize}

BD == INSTANCE BeaconDecisions WITH Primaries <- Honest, decided <- Decided, learned <- fired

\* The primaries implement one register for each height, written once: what onCommit
\* was called with, at whatever primary and by whatever message it came, was decided
\* before or is decided by that step, and no other entry of its height ever is.
ImplementsBeaconDecisions == BD!Spec
=============================================================================
