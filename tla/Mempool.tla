------------------------------- MODULE Mempool ------------------------------
(***************************************************************************)
(* The transaction pool of one engine (consensus/mempool/mempool.go).      *)
(* Clients, gossip and the node's own reconfigurations submit transactions *)
(* to a queue bounded in length and bytes; the propose loop takes batches  *)
(* from it, makes each a vertex of the DAG with a certificate of its own,  *)
(* and hands the certificates of the round to the engine.                  *)
(*                                                                         *)
(* submit and createVertex hold mp.mu.  submit never waits while it holds  *)
(* the lock and is one action; createVertex sends to the proposal channel  *)
(* under the lock, so it is two.  Time: an entry and its mark in seenTx    *)
(* get the same timestamp, taken before the lock is asked for, so any set  *)
(* of the marks may be the ones older than the TTL at the next pruning.    *)
(* A transaction is known by its hash, a vertex by its round.  Publishing  *)
(* to the other nodes is left to the network.                              *)
(***************************************************************************)
EXTENDS Naturals, Sequences, SequencesExt, FiniteSets

CONSTANTS
    Txs,           \* transactions
    Size,          \* the encoded size of each
    MaxTxSize, MaxPoolBytes, MaxBatchBytes, MaxQueueLen,  \* Options
    BatchLimits,   \* bound: the values of MaxBatchTxs
    ProposalCap,   \* Options.ProposalChanBuffer
    MaxRound       \* bound: vertices made

ASSUME MempoolConstants ==
    /\ IsFiniteSet(Txs)
    /\ Size \in [Txs -> Nat \ {0}]
    /\ {MaxTxSize, MaxPoolBytes, MaxBatchBytes, MaxQueueLen, ProposalCap} \subseteq Nat \ {0}
    /\ BatchLimits \subseteq Nat \ {0} /\ BatchLimits # {}
    /\ MaxRound \in Nat

VARIABLES
    txQueue,       \* the queue, oldest first
    seenTx,        \* transactions accepted less than a TTL ago
    poolBytes,     \* bytes in the queue
    maxBatchTxs,   \* the limit of a batch, tuned at run time
    currentRound,
    roundCerts,    \* the rounds that have a vertex and its certificate
    proposalChan,  \* rounds whose certificates wait for the engine
    proposing      \* createVertex holds mp.mu and is about to send

mempoolVars == <<txQueue, seenTx, poolBytes, maxBatchTxs, currentRound, roundCerts, proposalChan,
                 proposing>>

Rounds == 1..MaxRound

MempoolTypeOK ==
    /\ txQueue \in Seq(Txs) /\ Len(txQueue) <= MaxQueueLen
    /\ seenTx \subseteq Txs
    /\ poolBytes \in Nat
    /\ maxBatchTxs \in BatchLimits
    /\ currentRound \in 1..(MaxRound + 1)
    /\ roundCerts \subseteq Rounds
    /\ proposalChan \in Seq(Rounds) /\ Len(proposalChan) <= ProposalCap
    /\ proposing \in BOOLEAN

MempoolInit ==
    /\ txQueue = <<>> /\ seenTx = {} /\ poolBytes = 0
    /\ maxBatchTxs \in BatchLimits
    /\ currentRound = 1
    /\ roundCerts = {}
    /\ proposalChan = <<>>
    /\ proposing = FALSE

-----------------------------------------------------------------------------
(* The queue.                                                              *)

Bytes(q) ==
    LET sum[k \in 0..Len(q)] == IF k = 0 THEN 0 ELSE sum[k - 1] + Size[q[k]]
    IN  sum[Len(q)]

\* Drops the first k entries.
Without(q, k) == SubSeq(q, k + 1, Len(q))

\* The smallest number of entries whose removal makes ok hold of the rest.
Fewest(q, ok(_)) ==
    CHOOSE k \in 0..Len(q) : ok(Without(q, k)) /\ \A j \in 0..(k - 1) : ~ok(Without(q, j))

\* Mutant: the entries stay in the queue when their marks go.
PruneMarks(q, expired) == q

\* pruneExpiredLocked, on the queue.
pruneExpired(q, expired) ==
    LET kept[k \in 0..Len(q)] ==
            IF k = 0 THEN <<>>
            ELSE IF q[k] \in expired THEN kept[k - 1]
            ELSE Append(kept[k - 1], q[k])
    IN  kept[Len(q)]

\* Mutant: the bytes of removed entries are not given back.
KeepBytes(q) == poolBytes

\* The byte count once entries were removed until the queue is q.
PoolBytes(q) == poolBytes - (Bytes(txQueue) - Bytes(q))

evictUntilQueueSlot(q) == Without(q, Fewest(q, LAMBDA r : Len(r) < MaxQueueLen))

evictUntilFit(q, incoming) ==
    Without(q, Fewest(q, LAMBDA r : r = <<>> \/ PoolBytes(r) + incoming <= MaxPoolBytes))

\* popBatchLocked: how many entries the next batch takes.  The first entry is
\* taken whatever its size.
BatchLen(q) ==
    LET fits(k) == \A j \in 2..k : Bytes(SubSeq(q, 1, j)) <= MaxBatchBytes
        lens == {k \in 0..Len(q) : k <= maxBatchTxs /\ fits(k)}
    IN  CHOOSE k \in lens : \A j \in lens : j <= k

-----------------------------------------------------------------------------
(* Operations.                                                             *)

\* submit, with a set of marks expired: a known transaction is dropped, the
\* oldest entries make room, and what does not fit is refused.  An evicted
\* transaction keeps its mark, so it cannot come back before the TTL has passed.
submit(tx, expired) ==
    LET seen == seenTx \ expired
        kept == pruneExpired(txQueue, expired)
        room == evictUntilFit(evictUntilQueueSlot(kept), Size[tx])
        full == PoolBytes(room) + Size[tx] > MaxPoolBytes
    IN  /\ ~proposing
        /\ Size[tx] <= MaxTxSize
        /\ \/ /\ tx \in seen
              /\ seenTx' = seen /\ txQueue' = kept /\ poolBytes' = PoolBytes(kept)
           \/ /\ tx \notin seen /\ full
              /\ seenTx' = seen /\ txQueue' = room /\ poolBytes' = PoolBytes(room)
           \/ /\ tx \notin seen /\ ~full
              /\ seenTx' = seen \cup {tx} /\ txQueue' = Append(room, tx)
              /\ poolBytes' = PoolBytes(room) + Size[tx]
        /\ UNCHANGED <<maxBatchTxs, currentRound, roundCerts, proposalChan, proposing>>

\* SubmitTransaction, from a client or from gossip.
SubmitTransaction == \E tx \in Txs, expired \in SUBSET seenTx : submit(tx, expired)

\* Mutant: the certificate of the round is not recorded.
CertsLost(r) == roundCerts

\* The author's signature alone makes the certificate of its vertex.
Certified(r) == roundCerts \cup {r}

\* createVertex up to the send: prunes and takes a batch.  Without entries it
\* returns.  After the first round it gives up, and loses the batch, unless the
\* previous round has certificates to be the parents.
createVertex(expired) ==
    LET kept == pruneExpired(txQueue, expired)
        k == BatchLen(kept)
        orphan == currentRound > 1 /\ currentRound - 1 \notin roundCerts
    IN  /\ ~proposing
        /\ currentRound \in Rounds
        /\ seenTx' = seenTx \ expired
        /\ txQueue' = Without(kept, k)
        /\ poolBytes' = PoolBytes(Without(kept, k))
        /\ IF k = 0 \/ orphan
           THEN UNCHANGED <<roundCerts, proposing>>
           ELSE /\ roundCerts' = Certified(currentRound)
                /\ proposing' = TRUE
        /\ UNCHANGED <<maxBatchTxs, currentRound, proposalChan>>

CreateVertex == \E expired \in SUBSET seenTx : createVertex(expired)

\* The rest of createVertex: the send, which waits for a free place.
SendProposal ==
    /\ proposing
    /\ Len(proposalChan) < ProposalCap
    /\ proposalChan' = Append(proposalChan, currentRound)
    /\ currentRound' = currentRound + 1
    /\ proposing' = FALSE
    /\ UNCHANGED <<txQueue, seenTx, poolBytes, maxBatchTxs, roundCerts>>

\* SetAdaptiveTuning, called by the adaptive runtime.
SetAdaptiveTuning ==
    /\ ~proposing
    /\ maxBatchTxs' \in BatchLimits
    /\ UNCHANGED <<txQueue, seenTx, poolBytes, currentRound, roundCerts, proposalChan,
                   proposing>>

-----------------------------------------------------------------------------
(* Properties.                                                             *)

\* The byte count that submit trusts is the size of what is queued, and stays
\* within the pool, through evictions, expiry and batches (mempool.go:363-385).
PoolBytesExact == poolBytes = Bytes(txQueue) /\ poolBytes <= MaxPoolBytes

\* A queued transaction is marked as seen, so no transaction is queued twice,
\* although marks and entries are removed by different loops of
\* pruneExpiredLocked and evictions leave the marks behind.
QueuedIsSeen ==
    /\ ToSet(txQueue) \subseteq seenTx
    /\ Cardinality(ToSet(txQueue)) = Len(txQueue)

\* The branch of createVertex that gives up after it has taken a batch is never
\* reached, so no batch is lost there: every round before the current one has its
\* certificate, although rounds pass whatever the batches are (mempool.go:260-265).
NoBatchIsLost ==
    \A r \in Rounds : r < currentRound => r \in roundCerts
=============================================================================
