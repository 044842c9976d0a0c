---------------------------- MODULE NodePipeline ---------------------------
(***************************************************************************)
(* The goroutines of one node and the bounded channels and locks between   *)
(* them: the mempool's propose loop, the engine's runLoop, the global      *)
(* orderer and the consumer of main.go, which applies ordered blocks and,  *)
(* at an epoch change, calls back into the engine and, through the epoch   *)
(* gate of the adaptive controller, into the mempool:                      *)
(*                                                                         *)
(*   mempool -proposalChan-> engine -outputChan-> orderer -orderedChan->   *)
(*   consumer --> engine (bt.mu, outputChan), mempool (mp.mu)              *)
(*                                                                         *)
(* What is committed, and when, is decided by the protocol (HotStuff.tla)  *)
(* and is a free choice here; ranks and barriers are in GlobalOrderer.tla, *)
(* so the orderer is a relay.  One engine; the others share its channels.  *)
(* Only the locks a goroutine keeps while it waits are modelled: mp.mu     *)
(* (`proposing` in Mempool) and the block tree's bt.mu.                    *)
(***************************************************************************)
EXTENDS Mempool

CONSTANTS
    OutputCap,     \* capacity of outputChan
    OrderedCap,    \* capacity of the orderer's outChan
    MaxBlocks,     \* bound: blocks committed
    EpochBlocks    \* the blocks that bring an epoch transition

\* Blocks are numbered in the order in which they are committed.
Blocks == 1..MaxBlocks
NoBlock == 0

ASSUME PipelineConstants ==
    /\ {OutputCap, OrderedCap} \subseteq Nat \ {0}
    /\ MaxBlocks \in Nat
    /\ EpochBlocks \subseteq Blocks

VARIABLES
    pendingCerts,  \* rounds whose certificates the engine has buffered
    btHolder,      \* who holds bt.mu
    committing,    \* the block its holder is about to send to outputChan
    committed,     \* how many blocks were committed
    outputChan,
    ordererHand,   \* the block the orderer has taken and not sent yet
    orderedChan,
    consumer,      \* what the consumer is doing
    current,       \* the block it applies
    gatePending,   \* the epoch gate holds an action that submits a transaction
    consumed       \* the blocks it is done with

engineVars == <<pendingCerts, btHolder, committing, committed>>
ordererVars == <<ordererHand, orderedChan>>
consumerVars == <<consumer, current, gatePending, consumed>>
vars == <<mempoolVars, engineVars, outputChan, ordererVars, consumerVars>>

TypeOK ==
    /\ MempoolTypeOK
    /\ pendingCerts \subseteq Rounds
    /\ btHolder \in {"nobody", "engine", "consumer"}
    /\ committing \in Blocks \cup {NoBlock}
    /\ committed \in 0..MaxBlocks
    /\ outputChan \in Seq(Blocks) /\ Len(outputChan) <= OutputCap
    /\ ordererHand \in Blocks \cup {NoBlock}
    /\ orderedChan \in Seq(Blocks) /\ Len(orderedChan) <= OrderedCap
    /\ consumer \in {"range", "install", "propose", "record", "release"}
    /\ current \in Blocks \cup {NoBlock}
    /\ gatePending \in BOOLEAN
    /\ consumed \in Seq(Blocks)

Init ==
    /\ MempoolInit
    /\ pendingCerts = {} /\ btHolder = "nobody" /\ committing = NoBlock /\ committed = 0
    /\ outputChan = <<>> /\ ordererHand = NoBlock /\ orderedChan = <<>>
    /\ consumer = "range" /\ current = NoBlock /\ gatePending = FALSE /\ consumed = <<>>

-----------------------------------------------------------------------------
(* Committing: ProcessBlock takes bt.mu, and the commit callback keeps it  *)
(* until the output is in outputChan.                                      *)

\* Mutant: the block tree is entered without its lock.
ProcessUnlocked(who) ==
    \/ /\ committed < MaxBlocks
       /\ btHolder' = who
       /\ committed' = committed + 1
       /\ committing' = committed + 1
    \/ UNCHANGED <<btHolder, committing, committed>>

ProcessBlock(who) ==
    /\ btHolder = "nobody"
    /\ \/ /\ committed < MaxBlocks
          /\ btHolder' = who
          /\ committed' = committed + 1
          /\ committing' = committed + 1
       \/ UNCHANGED <<btHolder, committing, committed>>

\* Mutant: bt.mu is not released when the callback returns.
SendLocked(who) ==
    /\ btHolder = who
    /\ Len(outputChan) < OutputCap
    /\ committing # NoBlock
    /\ outputChan' = Append(outputChan, committing)
    /\ committing' = NoBlock
    /\ UNCHANGED <<btHolder, pendingCerts, committed, ordererVars>>

\* The send at the end of onBlockCommitted, and the return from ProcessBlock.
SendOutput(who) ==
    /\ btHolder = who
    /\ Len(outputChan) < OutputCap
    /\ outputChan' = Append(outputChan, committing)
    /\ committing' = NoBlock
    /\ btHolder' = "nobody"
    /\ UNCHANGED <<pendingCerts, committed, ordererVars>>

-----------------------------------------------------------------------------
(* The engine's runLoop.                                                   *)

\* Mutant: certificates are taken only to be added to buffered ones.
EngineReceiveMore ==
    /\ btHolder # "engine" /\ pendingCerts # {}
    /\ proposalChan # <<>>
    /\ proposalChan' = Tail(proposalChan)
    /\ pendingCerts' = pendingCerts \cup {Head(proposalChan)}
    /\ UNCHANGED <<btHolder, committing, committed>>
    /\ UNCHANGED <<txQueue, seenTx, poolBytes, maxBatchTxs, currentRound, roundCerts,
                   proposing, outputChan, ordererVars, consumerVars>>

\* handleMempoolProposal: the certificates are buffered, or proposed with the
\* buffered ones when it is this node's turn.
EngineReceive ==
    /\ btHolder # "engine"
    /\ proposalChan # <<>>
    /\ proposalChan' = Tail(proposalChan)
    /\ \/ /\ pendingCerts' = pendingCerts \cup {Head(proposalChan)}
          /\ UNCHANGED <<btHolder, committing, committed>>
       \/ pendingCerts' = {} /\ ProcessBlock("engine")
    /\ UNCHANGED <<txQueue, seenTx, poolBytes, maxBatchTxs, currentRound, roundCerts,
                   proposing, outputChan, ordererVars, consumerVars>>

\* A message or a timeout: a proposal is processed, or tryPropose makes one of
\* the buffered certificates.
EngineHandle ==
    /\ btHolder # "engine"
    /\ ProcessBlock("engine")
    /\ pendingCerts' \in {pendingCerts, {}}
    /\ UNCHANGED <<mempoolVars, outputChan, ordererVars, consumerVars>>

EngineSend == SendOutput("engine") /\ UNCHANGED <<mempoolVars, consumerVars>>

-----------------------------------------------------------------------------
(* The orderer.                                                            *)

OrdererReceive ==
    /\ ordererHand = NoBlock
    /\ outputChan # <<>>
    /\ ordererHand' = Head(outputChan)
    /\ outputChan' = Tail(outputChan)
    /\ UNCHANGED <<mempoolVars, engineVars, orderedChan, consumerVars>>

OrdererSend ==
    /\ ordererHand # NoBlock
    /\ Len(orderedChan) < OrderedCap
    /\ orderedChan' = Append(orderedChan, ordererHand)
    /\ ordererHand' = NoBlock
    /\ UNCHANGED <<mempoolVars, engineVars, outputChan, consumerVars>>

-----------------------------------------------------------------------------
(* The consumer of main.go.                                                *)

\* Takes the next block and applies it; the executor is in Executor.tla.
ConsumerReceive ==
    /\ consumer = "range"
    /\ orderedChan # <<>>
    /\ current' = Head(orderedChan)
    /\ orderedChan' = Tail(orderedChan)
    /\ consumer' = IF Head(orderedChan) \in EpochBlocks THEN "install" ELSE "record"
    /\ UNCHANGED <<mempoolVars, engineVars, outputChan, ordererHand, gatePending, consumed>>

\* onEpochChangeWithVRFKeys up to SetFastPathThreshold, which needs bt.mu.
ConsumerInstall ==
    /\ consumer = "install"
    /\ btHolder = "nobody"
    /\ consumer' = "propose"
    /\ UNCHANGED <<mempoolVars, engineVars, outputChan, ordererVars, current, gatePending, consumed>>

\* tryPropose, which onEpochChangeWithVRFKeys ends with: nothing to propose, or
\* not the leader; or a proposal, whose processing may commit a block.
ConsumerPropose ==
    /\ consumer = "propose" /\ btHolder # "consumer"
    /\ \/ UNCHANGED engineVars
       \/ pendingCerts # {} /\ pendingCerts' = {} /\ ProcessBlock("consumer")
    /\ consumer' = IF btHolder' = "consumer" THEN "propose" ELSE "record"
    /\ UNCHANGED <<mempoolVars, outputChan, ordererVars, current, gatePending, consumed>>

ConsumerSend ==
    /\ SendOutput("consumer")
    /\ consumer' = "record"
    /\ UNCHANGED <<mempoolVars, current, gatePending, consumed>>

Finish ==
    /\ consumer' = "range"
    /\ consumed' = Append(consumed, current)
    /\ current' = NoBlock

\* recordOrderedOutput: an epoch transition releases what the gate holds.
ConsumerRecord ==
    /\ consumer = "record"
    /\ IF current \in EpochBlocks /\ gatePending
       THEN gatePending' = FALSE /\ consumer' = "release" /\ UNCHANGED <<current, consumed>>
       ELSE Finish /\ UNCHANGED gatePending
    /\ UNCHANGED <<mempoolVars, engineVars, outputChan, ordererVars>>

\* The released action submits a reconfiguration to the mempool.
ConsumerRelease ==
    /\ consumer = "release"
    /\ SubmitTransaction
    /\ Finish
    /\ UNCHANGED <<gatePending, engineVars, outputChan, ordererVars>>

-----------------------------------------------------------------------------

\* The controller's tick leaves an action with the gate.
Defer ==
    /\ ~gatePending /\ gatePending' = TRUE
    /\ UNCHANGED <<mempoolVars, engineVars, outputChan, ordererVars, consumer, current, consumed>>

MempoolStep ==
    /\ SubmitTransaction \/ CreateVertex \/ SendProposal \/ SetAdaptiveTuning
    /\ UNCHANGED <<engineVars, outputChan, ordererVars, consumerVars>>

ConsumerStep ==
    \/ ConsumerReceive \/ ConsumerInstall \/ ConsumerPropose \/ ConsumerSend
    \/ ConsumerRecord \/ ConsumerRelease

Next ==
    \/ MempoolStep \/ EngineReceive \/ EngineHandle \/ EngineSend
    \/ OrdererReceive \/ OrdererSend \/ ConsumerStep \/ Defer

Spec == Init /\ [][Next]_vars

\* Every goroutine runs on when it can: a send or receive that stays possible
\* happens, and Go's select takes a ready case at random, so a proposal that is
\* ready again and again is received.  A lock that is free again and again is
\* got (sync.Mutex hands over to a waiter that starves).  Nobody is obliged to
\* submit, to commit or to tick.
FairSpec ==
    /\ Spec
    /\ WF_vars(SendProposal /\ UNCHANGED <<engineVars, outputChan, ordererVars, consumerVars>>)
    /\ SF_vars(EngineReceive)
    /\ WF_vars(EngineSend)
    /\ WF_vars(OrdererReceive) /\ WF_vars(OrdererSend)
    /\ SF_vars(ConsumerStep)

-----------------------------------------------------------------------------
(* Properties.                                                             *)

InHand(b) == IF b = NoBlock THEN <<>> ELSE <<b>>

\* Whichever goroutine commits, and wherever the blocks are on their way, the
\* consumer gets every committed block once and in the order of the commits:
\* bt.mu is kept until the output is in the channel (engine.go:1410).
NothingLostOnTheWay ==
    consumed \o InHand(current) \o orderedChan \o InHand(ordererHand) \o outputChan
        \o InHand(committing) = [n \in 1..committed |-> n]

\* Every place between the engine and the consumer is taken and the consumer
\* waits for a lock: for bt.mu, kept by whoever cannot send, itself included, or
\* for mp.mu, kept by a createVertex that the engine does not serve.
Gridlock ==
    /\ btHolder # "nobody" /\ Len(outputChan) = OutputCap
    /\ ordererHand # NoBlock /\ Len(orderedChan) = OrderedCap
    /\ \/ consumer \in {"install", "propose"}
       \/ consumer = "release" /\ proposing /\ Len(proposalChan) = ProposalCap

\* A committed block is applied in the end, and so are the ones after it; the
\* goroutines wait for each other for ever only when all the channels are full at
\* an epoch change (engine.go:1410 sends with bt.mu held).
EveryOutputIsConsumed == []<>(Len(consumed) = committed \/ Gridlock)

\* createVertex gets rid of its certificates and gives mp.mu back, unless the
\* engine is stuck in that way.
CreateVertexReturns == proposing ~> (~proposing \/ Gridlock)
=============================================================================
