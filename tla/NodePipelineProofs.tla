------------------------- MODULE NodePipelineProofs ------------------------
(***************************************************************************)
(* The pipeline of one node, for every capacity of its channels and every  *)
(* bound: committed blocks reach the consumer once and in order, no batch  *)
(* is lost between the mempool and its vertices, and the pool counts its   *)
(* bytes exactly and holds no transaction twice.                           *)
(*                                                                         *)
(* Bytes and pruneExpired are recursive functions along the queue;         *)
(* Recursion shows that such a function exists and stays within the sets   *)
(* its turns stay in, and StepInduction that it is the one meant.          *)
(***************************************************************************)
EXTENDS NodePipeline, SequenceTheorems, FiniteSetTheorems, WellFoundedInduction, TLAPS

PipelineTypes ==
    /\ consumed \in Seq(Blocks) /\ orderedChan \in Seq(Blocks) /\ outputChan \in Seq(Blocks)
    /\ current \in Blocks \cup {NoBlock} /\ ordererHand \in Blocks \cup {NoBlock}
    /\ committing \in Blocks \cup {NoBlock}
    /\ committed \in 0..MaxBlocks
    /\ btHolder \in {"nobody", "engine", "consumer"}
    /\ consumer \in {"range", "install", "propose", "record", "release"}

\* bt.mu is held by whoever has a block to send, and only from within tryPropose
\* by the consumer.
LockDiscipline ==
    /\ btHolder = "nobody" <=> committing = NoBlock
    /\ btHolder = "consumer" => consumer = "propose"

\* The consumer has a block in hand except when it waits for one.
ConsumerHasBlock == current = NoBlock <=> consumer = "range"

\* The inductive invariant of the channels.
ChannelInv == PipelineTypes /\ LockDiscipline /\ ConsumerHasBlock /\ NothingLostOnTheWay

-----------------------------------------------------------------------------
(* Sequences in a line.                                                    *)

\* A block goes from a hand to the end of the channel before it.
LEMMA Push ==
    ASSUME NEW S, NEW x \in Seq(S), NEW c \in Seq(S), NEW e \in S
    PROVE  /\ (x \o c) \o <<e>> = (x \o Append(c, e)) \o <<>>
           /\ c \o <<e>> = Append(c, e) \o <<>>
<1>1. <<e>> \in Seq(S) /\ Append(c, e) \in Seq(S) /\ Append(c, e) = c \o <<e>>
  BY AppendProperties, AppendIsConcat
<1>2. (x \o c) \o <<e>> = x \o Append(c, e)
  BY <1>1, ConcatAssociative
<1>3. x \o Append(c, e) \in Seq(S)
  BY <1>1, ConcatProperties
<1>4. (x \o Append(c, e)) \o <<>> = x \o Append(c, e) /\ Append(c, e) \o <<>> = Append(c, e)
  BY <1>1, <1>3, ConcatEmptySeq
<1> QED BY <1>1, <1>2, <1>4

\* A block goes from the front of a channel to the empty hand before it.
LEMMA Pull ==
    ASSUME NEW S, NEW x \in Seq(S), NEW c \in Seq(S), c # <<>>
    PROVE  (x \o <<>>) \o c = (x \o <<Head(c)>>) \o Tail(c)
<1>1. Head(c) \in S /\ Tail(c) \in Seq(S) /\ Len(c) \in Nat /\ Len(c) >= 1
  BY HeadTailProperties, EmptySeq
<1>2. c = <<Head(c)>> \o Tail(c)
  <2>1. SubSeq(c, 1, Len(c)) = <<c[1]>> \o SubSeq(c, 2, Len(c))
    BY <1>1, SubSeqRecursiveFirst
  <2>2. SubSeq(c, 1, Len(c)) = c /\ Tail(c) = SubSeq(c, 2, Len(c)) /\ Head(c) = c[1]
    BY SubSeqFull, TailIsSubSeq
  <2> QED BY <2>1, <2>2
<1>3. <<Head(c)>> \in Seq(S)
  BY <1>1
<1>4. (x \o <<Head(c)>>) \o Tail(c) = x \o c
  BY <1>1, <1>2, <1>3, ConcatAssociative
<1> QED BY <1>4, ConcatEmptySeq

\* Counting on.
LEMMA CountOn ==
    ASSUME NEW k \in Nat, NEW x, x = [n \in 1..k |-> n]
    PROVE  x \o <<k + 1>> = [n \in 1..(k + 1) |-> n]
<1>1. x \in Seq(Nat) /\ Len(x) = k /\ <<k + 1>> \in Seq(Nat)
  OBVIOUS
<1> QED BY <1>1

\* Hands are empty or hold one block.
LEMMA Hands ==
    /\ InHand(NoBlock) = <<>> /\ NoBlock \notin Blocks
    /\ \A b \in Blocks : InHand(b) = <<b>>
    /\ \A b \in Blocks \cup {NoBlock} : InHand(b) \in Seq(Blocks)
<1>1. NoBlock \notin Blocks
  BY PipelineConstants DEF NoBlock, Blocks
<1>2. <<>> \in Seq(Blocks) /\ \A b \in Blocks : <<b>> \in Seq(Blocks)
  OBVIOUS
<1> QED BY <1>1, <1>2 DEF InHand

-----------------------------------------------------------------------------
(* The channels.                                                           *)

\* ProcessBlock commits the next block, which its caller has in hand, or nothing.
LEMMA ProcessBlockLine ==
    ASSUME ChannelInv, NEW who \in {"engine", "consumer"}, ProcessBlock(who),
           UNCHANGED <<outputChan, ordererHand, orderedChan, current, consumed>>
    PROVE  /\ NothingLostOnTheWay'
           /\ committing' \in Blocks \cup {NoBlock} /\ committed' \in 0..MaxBlocks
           /\ \/ btHolder' = who /\ committing' # NoBlock
              \/ btHolder' = "nobody" /\ committing' = NoBlock
<1> DEFINE x == consumed \o InHand(current) \o orderedChan \o InHand(ordererHand) \o outputChan
<1>1. committing = NoBlock /\ committed \in Nat /\ committed \in 0..MaxBlocks /\ MaxBlocks \in Nat
  BY PipelineConstants DEF ChannelInv, PipelineTypes, LockDiscipline, ProcessBlock
<1>2. x \in Seq(Blocks)
  BY Hands, ConcatProperties DEF ChannelInv, PipelineTypes
<1>3. x = [n \in 1..committed |-> n]
  <2>1. x \o <<>> = [n \in 1..committed |-> n]
    BY <1>1, Hands DEF ChannelInv, NothingLostOnTheWay
  <2> HIDE DEF x
  <2> QED BY <1>2, <2>1, ConcatEmptySeq
<1>4. x' = x
  OBVIOUS
<1>5. CASE UNCHANGED <<btHolder, committing, committed>>
  BY <1>1, <1>5 DEF ChannelInv, PipelineTypes, LockDiscipline, NothingLostOnTheWay
<1>6. CASE committed < MaxBlocks /\ btHolder' = who /\ committed' = committed + 1 /\ committing' = committed + 1
  <2>1. committing' \in Blocks /\ committed' \in 0..MaxBlocks /\ committing' # NoBlock
    BY <1>1, <1>6 DEF Blocks, NoBlock
  <2>2. NothingLostOnTheWay' <=> x' \o InHand(committing') = [n \in 1..committed' |-> n]
    BY DEF NothingLostOnTheWay
  <2>3. InHand(committing') = <<committed + 1>>
    BY <1>6, <2>1, Hands
  <2> HIDE DEF x
  <2>4. x \o <<committed + 1>> = [n \in 1..(committed + 1) |-> n]
    BY <1>1, <1>3, CountOn
  <2> QED BY <1>4, <1>6, <2>1, <2>2, <2>3, <2>4
<1> QED BY <1>5, <1>6 DEF ProcessBlock

\* The block in the hand of the one who holds bt.mu goes into outputChan.
LEMMA SendOutputLine ==
    ASSUME ChannelInv, NEW who \in {"engine", "consumer"}, SendOutput(who), UNCHANGED <<current, consumed>>
    PROVE  /\ NothingLostOnTheWay'
           /\ outputChan' \in Seq(Blocks) /\ committing' = NoBlock /\ btHolder' = "nobody"
<1> DEFINE x == consumed \o InHand(current) \o orderedChan \o InHand(ordererHand)
<1>1. committing \in Blocks /\ outputChan \in Seq(Blocks)
  BY Hands DEF ChannelInv, PipelineTypes, LockDiscipline, SendOutput
<1>2. x \in Seq(Blocks)
  BY Hands, ConcatProperties DEF ChannelInv, PipelineTypes
<1>3. x' = x
  BY DEF SendOutput, ordererVars
<1>4. x \o outputChan \o <<committing>> = [n \in 1..committed |-> n]
  BY <1>1, Hands DEF ChannelInv, NothingLostOnTheWay
<1>5. outputChan' = Append(outputChan, committing) /\ committing' = NoBlock /\ btHolder' = "nobody"
      /\ committed' = committed
  BY DEF SendOutput
<1>6. outputChan' \in Seq(Blocks)
  BY <1>1, <1>5, AppendProperties
<1>7. NothingLostOnTheWay' <=> x' \o outputChan' \o InHand(committing') = [n \in 1..committed' |-> n]
  BY DEF NothingLostOnTheWay
<1> HIDE DEF x
<1>8. (x \o outputChan) \o <<committing>> = (x \o Append(outputChan, committing)) \o <<>>
  <2>1. \A c \in Seq(Blocks) : \A e \in Blocks : (x \o c) \o <<e>> = (x \o Append(c, e)) \o <<>>
    BY <1>2, Push
  <2> QED BY <1>1, <2>1
<1>9. x' \o outputChan' \o InHand(committing') = [n \in 1..committed' |-> n]
  BY <1>3, <1>4, <1>5, <1>8, Hands
<1> QED BY <1>5, <1>6, <1>7, <1>9

\* The engine takes certificates of the mempool.
LEMMA EngineReceiveInv ==
    ASSUME ChannelInv, EngineReceive
    PROVE  ChannelInv'
<1>1. CASE UNCHANGED <<btHolder, committing, committed>>
  BY <1>1 DEF EngineReceive, ordererVars, consumerVars, ChannelInv, PipelineTypes, LockDiscipline,
              ConsumerHasBlock, NothingLostOnTheWay
<1>2. CASE ProcessBlock("engine")
  BY <1>2, ProcessBlockLine DEF EngineReceive, ordererVars, consumerVars, ChannelInv, PipelineTypes,
              LockDiscipline, ConsumerHasBlock
<1> QED BY <1>1, <1>2 DEF EngineReceive

\* The engine handles a message or a timeout.
LEMMA EngineHandleInv ==
    ASSUME ChannelInv, EngineHandle
    PROVE  ChannelInv'
  BY ProcessBlockLine DEF EngineHandle, ordererVars, consumerVars, ChannelInv, PipelineTypes,
              LockDiscipline, ConsumerHasBlock

\* The engine sends what it committed.
LEMMA EngineSendInv ==
    ASSUME ChannelInv, EngineSend
    PROVE  ChannelInv'
<1>1. SendOutput("engine") /\ UNCHANGED consumerVars
  BY DEF EngineSend
<1>2. /\ NothingLostOnTheWay'
      /\ outputChan' \in Seq(Blocks) /\ committing' = NoBlock /\ btHolder' = "nobody"
  BY <1>1, SendOutputLine DEF consumerVars
<1> QED
  BY <1>1, <1>2 DEF SendOutput, ordererVars, consumerVars, ChannelInv, PipelineTypes,
              LockDiscipline, ConsumerHasBlock

\* The orderer takes a block, with nothing in hand.
LEMMA OrdererReceiveInv ==
    ASSUME ChannelInv, OrdererReceive
    PROVE  ChannelInv'
<1> DEFINE x == consumed \o InHand(current) \o orderedChan
<1>1. x \in Seq(Blocks)
  BY Hands, ConcatProperties DEF ChannelInv, PipelineTypes
<1>2. /\ ordererHand = NoBlock /\ outputChan # <<>> /\ outputChan \in Seq(Blocks)
      /\ ordererHand' = Head(outputChan) /\ outputChan' = Tail(outputChan)
      /\ UNCHANGED <<engineVars, orderedChan, consumerVars>>
  BY DEF OrdererReceive, ChannelInv, PipelineTypes
<1>3. Head(outputChan) \in Blocks /\ Tail(outputChan) \in Seq(Blocks)
  BY <1>2, HeadTailProperties
<1>4. x \o <<>> \o outputChan \o InHand(committing) = [n \in 1..committed |-> n]
  BY <1>2, Hands DEF ChannelInv, NothingLostOnTheWay
<1>5. x' = x
  BY <1>2 DEF consumerVars
<1>6. NothingLostOnTheWay' <=>
         x' \o InHand(ordererHand') \o outputChan' \o InHand(committing') = [n \in 1..committed' |-> n]
  BY DEF NothingLostOnTheWay
<1> HIDE DEF x
<1>7. (x \o <<>>) \o outputChan = (x \o <<Head(outputChan)>>) \o Tail(outputChan)
  BY <1>1, <1>2, Pull
<1>8. InHand(ordererHand') = <<Head(outputChan)>> /\ committing' = committing /\ committed' = committed
  BY <1>2, <1>3, Hands DEF engineVars
<1>9. NothingLostOnTheWay'
  BY <1>2, <1>4, <1>5, <1>6, <1>7, <1>8
<1> QED
  BY <1>2, <1>3, <1>9 DEF engineVars, consumerVars, ChannelInv, PipelineTypes, LockDiscipline, ConsumerHasBlock

\* The orderer sends the block it has in hand.
LEMMA OrdererSendInv ==
    ASSUME ChannelInv, OrdererSend
    PROVE  ChannelInv'
<1> DEFINE x == consumed \o InHand(current)
<1>1. x \in Seq(Blocks)
  BY Hands, ConcatProperties DEF ChannelInv, PipelineTypes
<1>2. /\ ordererHand \in Blocks /\ orderedChan \in Seq(Blocks)
      /\ orderedChan' = Append(orderedChan, ordererHand) /\ ordererHand' = NoBlock
      /\ UNCHANGED <<engineVars, outputChan, consumerVars>>
  BY DEF OrdererSend, ChannelInv, PipelineTypes
<1>3. orderedChan' \in Seq(Blocks)
  BY <1>2, AppendProperties
<1>4. x \o orderedChan \o <<ordererHand>> \o outputChan \o InHand(committing) = [n \in 1..committed |-> n]
  BY <1>2, Hands DEF ChannelInv, NothingLostOnTheWay
<1>5. x' = x
  BY <1>2 DEF consumerVars
<1>6. NothingLostOnTheWay' <=>
         x' \o orderedChan' \o InHand(ordererHand') \o outputChan' \o InHand(committing')
            = [n \in 1..committed' |-> n]
  BY DEF NothingLostOnTheWay
<1> HIDE DEF x
<1>7. (x \o orderedChan) \o <<ordererHand>> = (x \o Append(orderedChan, ordererHand)) \o <<>>
  BY <1>1, <1>2, Push
<1>8. InHand(ordererHand') = <<>> /\ committing' = committing /\ committed' = committed
  BY <1>2, Hands DEF engineVars
<1>9. NothingLostOnTheWay'
  BY <1>2, <1>4, <1>5, <1>6, <1>7, <1>8
<1> QED
  BY <1>2, <1>3, <1>9 DEF engineVars, consumerVars, ChannelInv, PipelineTypes, LockDiscipline, ConsumerHasBlock

\* The consumer takes the next block.
LEMMA ConsumerReceiveInv ==
    ASSUME ChannelInv, ConsumerReceive
    PROVE  ChannelInv'
<1>1. /\ current = NoBlock /\ orderedChan # <<>> /\ orderedChan \in Seq(Blocks) /\ consumed \in Seq(Blocks)
      /\ current' = Head(orderedChan) /\ orderedChan' = Tail(orderedChan)
      /\ consumer' \in {"install", "record"} /\ consumer = "range"
      /\ UNCHANGED <<engineVars, outputChan, ordererHand, consumed>>
  BY DEF ConsumerReceive, ChannelInv, PipelineTypes, ConsumerHasBlock
<1>2. Head(orderedChan) \in Blocks /\ Tail(orderedChan) \in Seq(Blocks)
  BY <1>1, HeadTailProperties
<1>3. consumed \o <<>> \o orderedChan \o InHand(ordererHand) \o outputChan \o InHand(committing)
         = [n \in 1..committed |-> n]
  BY <1>1, Hands DEF ChannelInv, NothingLostOnTheWay
<1>4. (consumed \o <<>>) \o orderedChan = (consumed \o <<Head(orderedChan)>>) \o Tail(orderedChan)
  BY <1>1, Pull
<1>5. InHand(current') = <<Head(orderedChan)>> /\ committing' = committing /\ committed' = committed
  BY <1>1, <1>2, Hands DEF engineVars
<1>6. NothingLostOnTheWay'
  BY <1>1, <1>3, <1>4, <1>5 DEF NothingLostOnTheWay
<1> QED
  BY <1>1, <1>2, <1>6, Hands DEF engineVars, ChannelInv, PipelineTypes, LockDiscipline, ConsumerHasBlock

\* The consumer is done with its block.
LEMMA FinishInv ==
    ASSUME ChannelInv, Finish, consumer \in {"record", "release"},
           UNCHANGED <<engineVars, outputChan, ordererVars>>
    PROVE  ChannelInv'
<1>1. current \in Blocks /\ consumed \in Seq(Blocks) /\ consumed' = Append(consumed, current)
      /\ current' = NoBlock /\ consumer' = "range" /\ btHolder # "consumer"
  BY DEF ChannelInv, PipelineTypes, ConsumerHasBlock, LockDiscipline, Finish
<1>2. consumed' \in Seq(Blocks)
  BY <1>1, AppendProperties
<1>3. consumed \o <<current>> \o orderedChan \o InHand(ordererHand) \o outputChan \o InHand(committing)
         = [n \in 1..committed |-> n]
  BY <1>1, Hands DEF ChannelInv, NothingLostOnTheWay
<1>4. consumed \o <<current>> = Append(consumed, current) \o <<>>
  BY <1>1, Push
<1>5. InHand(current') = <<>> /\ committing' = committing /\ committed' = committed
  BY <1>1, Hands DEF engineVars
<1>6. NothingLostOnTheWay'
  BY <1>1, <1>3, <1>4, <1>5 DEF NothingLostOnTheWay, ordererVars
<1> QED
  BY <1>1, <1>2, <1>6 DEF engineVars, ordererVars, ChannelInv, PipelineTypes, LockDiscipline, ConsumerHasBlock

\* tryPropose from onEpochChangeWithVRFKeys.
LEMMA ConsumerProposeInv ==
    ASSUME ChannelInv, ConsumerPropose
    PROVE  ChannelInv'
<1>1. /\ consumer = "propose" /\ btHolder # "consumer"
      /\ consumer' = IF btHolder' = "consumer" THEN "propose" ELSE "record"
      /\ UNCHANGED <<outputChan, ordererVars, current, consumed>>
  BY DEF ConsumerPropose
<1>2. CASE UNCHANGED engineVars
  BY <1>1, <1>2 DEF engineVars, ordererVars, ChannelInv, PipelineTypes, LockDiscipline,
              ConsumerHasBlock, NothingLostOnTheWay
<1>3. CASE ProcessBlock("consumer")
  BY <1>1, <1>3, ProcessBlockLine DEF ordererVars, ChannelInv, PipelineTypes, LockDiscipline, ConsumerHasBlock
<1> QED BY <1>2, <1>3 DEF ConsumerPropose

\* The consumer sends what its own proposal committed.
LEMMA ConsumerSendInv ==
    ASSUME ChannelInv, ConsumerSend
    PROVE  ChannelInv'
<1>1. SendOutput("consumer") /\ consumer' = "record" /\ UNCHANGED <<current, consumed>>
  BY DEF ConsumerSend
<1>2. /\ NothingLostOnTheWay'
      /\ outputChan' \in Seq(Blocks) /\ committing' = NoBlock /\ btHolder' = "nobody"
  BY <1>1, SendOutputLine
<1>3. consumer = "propose"
  BY <1>1 DEF SendOutput, ChannelInv, LockDiscipline
<1> QED
  BY <1>1, <1>2, <1>3 DEF SendOutput, ordererVars, ChannelInv, PipelineTypes, LockDiscipline, ConsumerHasBlock

\* Every step of the consumer.
LEMMA ConsumerStepInv ==
    ASSUME ChannelInv, ConsumerStep
    PROVE  ChannelInv'
<1>1. ASSUME ConsumerInstall PROVE ChannelInv'
  BY <1>1 DEF ConsumerInstall, engineVars, ordererVars, ChannelInv, PipelineTypes, LockDiscipline,
              ConsumerHasBlock, NothingLostOnTheWay
<1>2. ASSUME ConsumerRecord PROVE ChannelInv'
  <2>1. consumer = "record" /\ UNCHANGED <<engineVars, outputChan, ordererVars>>
    BY <1>2 DEF ConsumerRecord
  <2>2. CASE Finish
    BY <2>1, <2>2, FinishInv
  <2>3. CASE consumer' = "release" /\ UNCHANGED <<current, consumed>>
    BY <2>1, <2>3 DEF engineVars, ordererVars, ChannelInv, PipelineTypes, LockDiscipline,
              ConsumerHasBlock, NothingLostOnTheWay
  <2> QED BY <1>2, <2>2, <2>3 DEF ConsumerRecord
<1>3. ASSUME ConsumerRelease PROVE ChannelInv'
  BY <1>3, FinishInv DEF ConsumerRelease
<1> QED
  BY <1>1, <1>2, <1>3, ConsumerReceiveInv, ConsumerProposeInv, ConsumerSendInv DEF ConsumerStep

\* The channels start empty.
LEMMA ChannelInit == Init => ChannelInv
<1> SUFFICES ASSUME Init PROVE ChannelInv
  OBVIOUS
<1>1. PipelineTypes /\ LockDiscipline /\ ConsumerHasBlock
  BY PipelineConstants DEF Init, PipelineTypes, LockDiscipline, ConsumerHasBlock, NoBlock
<1>2. <<>> \o <<>> = <<>> /\ [n \in 1..0 |-> n] = <<>>
  OBVIOUS
<1>3. NothingLostOnTheWay
  BY <1>2, Hands DEF Init, NothingLostOnTheWay
<1> QED BY <1>1, <1>3 DEF ChannelInv

\* Every step keeps the blocks in line.
LEMMA ChannelStep ==
    ASSUME ChannelInv, [Next]_vars
    PROVE  ChannelInv'
<1>1. CASE UNCHANGED <<engineVars, outputChan, ordererVars, consumer, current, consumed>>
  BY <1>1 DEF engineVars, ordererVars, ChannelInv, PipelineTypes, LockDiscipline,
            ConsumerHasBlock, NothingLostOnTheWay
<1>2. CASE Next
  BY <1>1, <1>2, EngineReceiveInv, EngineHandleInv, EngineSendInv, OrdererReceiveInv, OrdererSendInv,
     ConsumerStepInv DEF Next, MempoolStep, Defer, consumerVars
<1> QED BY <1>1, <1>2 DEF vars, consumerVars

\* Whichever goroutine commits, the consumer gets every committed block once, in
\* the order of the commits, whatever the capacities of the channels are.
THEOREM PipelineNothingLost == Spec => []NothingLostOnTheWay
<1>1. ChannelInv => NothingLostOnTheWay
  BY DEF ChannelInv
<1> QED
  BY <1>1, ChannelInit, ChannelStep, PTL DEF Spec

-----------------------------------------------------------------------------
(* The rounds of the mempool.                                              *)

\* Every round before the current one has its certificate, and so has the current
\* one while its certificates are being sent.
RoundInv ==
    /\ currentRound \in Nat \ {0} /\ proposing \in BOOLEAN
    /\ NoBatchIsLost
    /\ proposing => currentRound \in roundCerts

\* Only createVertex and its send touch the rounds.
LEMMA NextKeepsRounds ==
    ASSUME RoundInv, [Next]_vars
    PROVE  RoundInv'
<1>1. CASE UNCHANGED <<currentRound, roundCerts, proposing>>
  BY <1>1 DEF RoundInv, NoBatchIsLost
<1>2. ASSUME NEW expired, createVertex(expired) PROVE RoundInv'
  <2>1. currentRound' = currentRound /\ ~proposing
    BY <1>2 DEF createVertex
  <2>2. \/ UNCHANGED <<roundCerts, proposing>>
        \/ roundCerts' = roundCerts \cup {currentRound} /\ proposing' = TRUE
    BY <1>2 DEF createVertex, Certified
  <2>3. roundCerts \subseteq roundCerts' /\ (proposing' => currentRound' \in roundCerts')
    BY <2>1, <2>2 DEF RoundInv
  <2>4. proposing' \in BOOLEAN
    BY <2>2 DEF RoundInv
  <2>5. NoBatchIsLost'
    BY <2>1, <2>3 DEF RoundInv, NoBatchIsLost
  <2> QED BY <2>1, <2>3, <2>4, <2>5 DEF RoundInv
<1>3. ASSUME SendProposal PROVE RoundInv'
  <2>1. proposing /\ currentRound' = currentRound + 1 /\ roundCerts' = roundCerts /\ proposing' = FALSE
    BY <1>3 DEF SendProposal
  <2>2. currentRound \in Nat \ {0} /\ currentRound \in roundCerts /\ NoBatchIsLost
    BY <2>1 DEF RoundInv
  <2>3. \A r \in Rounds : r < currentRound' => r < currentRound \/ r = currentRound
    BY <2>1, <2>2, MempoolConstants DEF Rounds
  <2>4. NoBatchIsLost'
    BY <2>1, <2>2, <2>3 DEF NoBatchIsLost
  <2>5. proposing' \in BOOLEAN /\ ~proposing'
    BY <2>1
  <2>6. currentRound' \in Nat \ {0}
    BY <2>1, <2>2
  <2> QED BY <2>4, <2>5, <2>6 DEF RoundInv
<1>4. CASE MempoolStep
  <2>1. ASSUME SubmitTransaction PROVE UNCHANGED <<currentRound, roundCerts, proposing>>
    BY <2>1 DEF SubmitTransaction, submit
  <2>2. ASSUME SetAdaptiveTuning PROVE UNCHANGED <<currentRound, roundCerts, proposing>>
    BY <2>2 DEF SetAdaptiveTuning
  <2> QED BY <1>1, <1>2, <1>3, <1>4, <2>1, <2>2 DEF MempoolStep, CreateVertex
<1>5. CASE ConsumerStep
  <2>1. ASSUME ConsumerRelease PROVE UNCHANGED <<currentRound, roundCerts, proposing>>
    BY <2>1 DEF ConsumerRelease, SubmitTransaction, submit
  <2>2. UNCHANGED <<currentRound, roundCerts, proposing>>
    BY <1>5, <2>1 DEF ConsumerStep, ConsumerReceive, ConsumerInstall, ConsumerPropose, ConsumerSend,
                      ConsumerRecord, mempoolVars
  <2> QED BY <1>1, <2>2
<1>6. CASE EngineReceive \/ EngineHandle \/ EngineSend \/ OrdererReceive \/ OrdererSend \/ Defer \/ UNCHANGED vars
  <2>1. UNCHANGED <<currentRound, roundCerts, proposing>>
    BY <1>6 DEF EngineReceive, EngineHandle, EngineSend, OrdererReceive, OrdererSend, Defer, mempoolVars, vars
  <2> QED BY <1>1, <2>1
<1> QED
  BY <1>4, <1>5, <1>6 DEF Next

\* createVertex never reaches the return that would drop the batch it has taken:
\* the round before the current one always has its certificate (mempool.go:260-265).
THEOREM PipelineNoBatchIsLost == Spec => []NoBatchIsLost
<1>1. Init => RoundInv
  <2> SUFFICES ASSUME Init PROVE RoundInv
    OBVIOUS
  <2>1. currentRound = 1 /\ proposing = FALSE
    BY DEF Init, MempoolInit
  <2>2. \A r \in Rounds : ~(r < 1)
    BY MempoolConstants DEF Rounds
  <2>3. proposing \in BOOLEAN /\ ~proposing
    BY <2>1
  <2>4. NoBatchIsLost /\ currentRound \in Nat \ {0}
    BY <2>1, <2>2 DEF NoBatchIsLost
  <2> QED BY <2>3, <2>4 DEF RoundInv
<1>2. RoundInv => NoBatchIsLost
  BY DEF RoundInv
<1> QED
  BY <1>1, <1>2, NextKeepsRounds, PTL DEF Spec

-----------------------------------------------------------------------------
(* Induction and recursion along an interval.                              *)

\* A nonempty set of natural numbers has a least element.
LEMMA LeastNumber ==
    ASSUME NEW T \in SUBSET Nat, T # {}
    PROVE  \E x \in T : \A y \in T : x <= y
<1> DEFINE R == StrictSubsetOrdering(Nat)
           I == {1..n : n \in T}
<1>1. IsWellFoundedOn(R, FiniteSubsetsOf(Nat))
  BY FS_StrictSubsetOrderingWellFounded
<1>2. I \subseteq FiniteSubsetsOf(Nat) /\ I # {}
  <2>1. ASSUME NEW n \in T PROVE 1..n \in FiniteSubsetsOf(Nat)
    <3>1. n \in Int /\ 1 \in Int /\ (1..n) \subseteq Nat
      OBVIOUS
    <3> QED  BY <3>1, FS_Interval DEF FiniteSubsetsOf
  <2> QED  BY <2>1
<1>3. PICK m \in I : \A t \in I : ~(<<t, m>> \in R)
  <2> HIDE DEF I, R
  <2> QED  BY <1>1, <1>2, WFMin
<1>4. PICK x \in T : m = 1..x
  OBVIOUS
<1>5. ASSUME NEW y \in T, y < x PROVE FALSE
  <2>1. (1..y) \subseteq (1..x) /\ x \in 1..x /\ x \notin 1..y
    BY <1>5
  <2>2. (1..y) # (1..x) /\ (1..x) \in SUBSET Nat /\ (1..y) \in SUBSET Nat
    BY <2>1
  <2>3. <<1..y, 1..x>> \in R
    BY <2>1, <2>2 DEF StrictSubsetOrdering
  <2> QED  BY <1>3, <1>4, <2>3
<1> QED  BY <1>5

\* Induction up to L.
LEMMA StepInduction ==
    ASSUME NEW L \in Nat, NEW T, 0 \in T, \A i \in 1..L : i - 1 \in T => i \in T
    PROVE  0..L \subseteq T
<1> SUFFICES ASSUME 0..L \ T # {} PROVE FALSE
  OBVIOUS
<1>1. PICK x \in 0..L \ T : \A y \in 0..L \ T : x <= y
  <2>1. 0..L \ T \in SUBSET Nat
    OBVIOUS
  <2> QED  BY <2>1, LeastNumber
<1>2. x \in 1..L /\ x - 1 \in 0..L /\ ~(x <= x - 1)
  BY <1>1
<1> QED  BY <1>1, <1>2

\* A loop of L turns, in which turn i leads from S[i - 1] to S[i].
Turns(L, S, base, g) ==
    base \in S[0] /\ \A i \in 1..L : \A x \in S[i - 1] : g[<<x, i>>] \in S[i]

\* The values f goes through.
Loop(L, S, base, g, f) ==
    /\ f = [i \in 0..L |-> f[i]]
    /\ f[0] = base
    /\ \A i \in 1..L : f[i] = g[<<f[i - 1], i>>]
    /\ \A i \in 0..L : f[i] \in S[i]

\* A loop has such a function.
LEMMA Recursion ==
    ASSUME NEW L \in Nat, NEW S, NEW base, NEW g, Turns(L, S, base, g)
    PROVE  \E f : Loop(L, S, base, g, f)
<1> USE DEF Turns
<1> DEFINE Upto(n, f) == /\ f = [i \in 0..n |-> IF i = 0 THEN base ELSE g[<<f[i - 1], i>>]]
                         /\ \A i \in 0..n : f[i] \in S[i]
           T == {n \in 0..L : \E f : Upto(n, f)}
<1>1. 0 \in T
  <2> DEFINE f == [i \in 0..0 |-> base]
  <2>1. f = [i \in 0..0 |-> IF i = 0 THEN base ELSE g[<<f[i - 1], i>>]]
    OBVIOUS
  <2>2. \A i \in 0..0 : f[i] \in S[i]
    OBVIOUS
  <2>3. Upto(0, f)
    BY <2>1, <2>2
  <2> HIDE DEF f, Upto
  <2> QED  BY <2>3
<1>2. ASSUME NEW n \in 1..L, n - 1 \in T PROVE n \in T
  <2>1. PICK f : Upto(n - 1, f)
    BY <1>2
  <2> DEFINE h == [i \in 0..n |-> IF i = n THEN g[<<f[n - 1], n>>] ELSE f[i]]
  <2>2. /\ n - 1 \in Nat /\ n - 1 \in 0..(n - 1) /\ n # 0 /\ n \in 0..L
        /\ 0..n = (0..(n - 1)) \cup {n} /\ n \notin 0..(n - 1)
    OBVIOUS
  <2>3. /\ DOMAIN f = 0..(n - 1)
        /\ \A i \in 0..(n - 1) : f[i] = IF i = 0 THEN base ELSE g[<<f[i - 1], i>>]
        /\ \A i \in 0..(n - 1) : f[i] \in S[i]
    BY <2>1
  <2>4. h[n] = g[<<f[n - 1], n>>] /\ h[n] \in S[n]
    BY <2>2, <2>3
  <2>5. \A i \in 0..(n - 1) : h[i] = f[i] /\ h[i] \in S[i]
    BY <2>2, <2>3
  <2>6. \A i \in 0..n : h[i] = IF i = 0 THEN base ELSE g[<<h[i - 1], i>>]
    <3> SUFFICES ASSUME NEW i \in 0..n
                 PROVE  h[i] = IF i = 0 THEN base ELSE g[<<h[i - 1], i>>]
      OBVIOUS
    <3>1. CASE i = n
      <4>1. h[n - 1] = f[n - 1]
        BY <2>2, <2>5
      <4> HIDE DEF h
      <4> QED  BY <2>2, <2>4, <3>1, <4>1
    <3>2. CASE i # n
      <4>1. i \in 0..(n - 1) /\ (i # 0 => i - 1 \in 0..(n - 1))
        BY <3>2
      <4> HIDE DEF h
      <4> QED  BY <2>3, <2>5, <4>1
    <3> QED  BY <3>1, <3>2
  <2>7. h = [i \in 0..n |-> IF i = 0 THEN base ELSE g[<<h[i - 1], i>>]]
    <3>1. DOMAIN h = 0..n /\ h = [i \in 0..n |-> h[i]]
      OBVIOUS
    <3> HIDE DEF h
    <3> QED  BY <2>6, <3>1
  <2>8. \A i \in 0..n : h[i] \in S[i]
    <3> HIDE DEF h
    <3> QED  BY <2>2, <2>4, <2>5
  <2>9. Upto(n, h)
    BY <2>7, <2>8
  <2> HIDE DEF h, Upto
  <2> QED  BY <2>2, <2>9
<1>3. L \in T
  <2> HIDE DEF T
  <2>1. 0..L \subseteq T
    BY <1>1, <1>2, StepInduction
  <2> QED  BY <2>1
<1>4. PICK f : Upto(L, f)
  BY <1>3
<1>5. f[0] = base /\ \A i \in 1..L : f[i] = g[<<f[i - 1], i>>]
  BY <1>4
<1> QED  BY <1>4, <1>5 DEF Loop

-----------------------------------------------------------------------------
(* Bytes in a queue.                                                       *)

\* The sizes of the first entries of q, added up.
Sums(q, f) ==
    /\ f \in [0..Len(q) -> Nat] /\ f[0] = 0
    /\ \A k \in 1..Len(q) : f[k] = f[k - 1] + Size[q[k]]

\* Every queue has such sums.
LEMMA SumsExist ==
    ASSUME NEW q \in Seq(Txs)
    PROVE  \E f : Sums(q, f)
<1> DEFINE L == Len(q)
           S == [i \in 0..L |-> Nat]
           g == [p \in Nat \X (1..L) |-> p[1] + Size[q[p[2]]]]
<1>1. L \in Nat /\ \A i \in 1..L : Size[q[i]] \in Nat
  BY MempoolConstants
<1>2. (\A i \in 0..L : S[i] = Nat) /\ \A x \in Nat, i \in 1..L : g[<<x, i>>] = x + Size[q[i]]
  OBVIOUS
<1>3. \A i \in 1..L : i - 1 \in 0..L /\ i \in 0..L
  BY <1>1
<1>4. 0 \in 0..L
  BY <1>1
<1> HIDE DEF L, S, g
<1>a. ASSUME NEW i \in 1..L, NEW x \in S[i - 1] PROVE g[<<x, i>>] \in S[i]
  <2>1. x \in Nat /\ S[i] = Nat
    BY <1>2, <1>3
  <2>2. g[<<x, i>>] = x + Size[q[i]]
    BY <1>2, <2>1
  <2> QED  BY <1>1, <2>1, <2>2
<1>5. Turns(L, S, 0, g)
  BY <1>2, <1>4, <1>a DEF Turns
<1>6. PICK f : Loop(L, S, 0, g, f)
  BY <1>1, <1>5, Recursion
<1>7. f \in [0..L -> Nat] /\ f[0] = 0
  BY <1>2, <1>6 DEF Loop
<1>8. \A i \in 1..L : f[i] = f[i - 1] + Size[q[i]]
  BY <1>2, <1>3, <1>6, <1>7 DEF Loop
<1> QED  BY <1>7, <1>8 DEF Sums, L

\* Whatever function has the sums of q, Bytes is its last value.
LEMMA BytesIsSum ==
    ASSUME NEW q \in Seq(Txs), NEW f, Sums(q, f)
    PROVE  Bytes(q) = f[Len(q)]
<1> DEFINE L == Len(q)
           Is(t) == t = [k \in 0..L |-> IF k = 0 THEN 0 ELSE t[k - 1] + Size[q[k]]]
           t == CHOOSE u : Is(u)
           T == {k \in 0..L : t[k] = f[k]}
<1>1. L \in Nat /\ 0 \in 0..L /\ L \in 0..L
  OBVIOUS
<1>2. \A k \in 0..L : k = 0 \/ k \in 1..L
  BY <1>1
<1>3. Is(f)
  BY <1>2 DEF Sums
<1>4. Is(t)
  <2> HIDE DEF Is
  <2> QED  BY <1>3
<1>5. Bytes(q) = t[L]
  BY DEF Bytes
<1>6. \A k \in 0..L : t[k] = IF k = 0 THEN 0 ELSE t[k - 1] + Size[q[k]]
  <2> HIDE DEF t, L
  <2> QED  BY <1>4
<1> HIDE DEF t
<1>7. 0 \in T
  BY <1>1, <1>6 DEF Sums
<1>8. \A i \in 1..L : i - 1 \in T => i \in T
  <2>1. \A i \in 1..L : i \in 0..L /\ i # 0
    BY <1>1
  <2> QED  BY <1>6, <2>1 DEF Sums
<1>9. 0..L \subseteq T
  <2> HIDE DEF T, L
  <2> QED  BY <1>1, <1>7, <1>8, StepInduction
<1> QED  BY <1>1, <1>5, <1>9

\* The bytes of a queue are a number, none for an empty queue.
LEMMA BytesType ==
    /\ Bytes(<<>>) = 0
    /\ \A q \in Seq(Txs) : Bytes(q) \in Nat
<1>1. ASSUME NEW q \in Seq(Txs) PROVE Bytes(q) \in Nat /\ (q = <<>> => Bytes(q) = 0)
  <2>1. PICK f : Sums(q, f)
    BY SumsExist
  <2>2. Bytes(q) = f[Len(q)] /\ Len(q) \in Nat
    BY <2>1, BytesIsSum
  <2> QED  BY <2>1, <2>2 DEF Sums
<1>2. <<>> \in Seq(Txs)
  OBVIOUS
<1> QED  BY <1>1, <1>2

\* An entry adds its size.
LEMMA BytesAppend ==
    ASSUME NEW q \in Seq(Txs), NEW tx \in Txs
    PROVE  Bytes(Append(q, tx)) = Bytes(q) + Size[tx]
<1>1. PICK f : Sums(q, f)
  BY SumsExist
<1> DEFINE L == Len(q)
           r == Append(q, tx)
           h == [k \in 0..(L + 1) |-> IF k = L + 1 THEN f[L] + Size[tx] ELSE f[k]]
<1>2. L \in Nat /\ Size[tx] \in Nat /\ Bytes(q) = f[L]
  BY <1>1, BytesIsSum, MempoolConstants
<1>3. r \in Seq(Txs) /\ Len(r) = L + 1 /\ r[L + 1] = tx /\ \A k \in 1..L : r[k] = q[k]
  OBVIOUS
<1>4. h \in [0..(L + 1) -> Nat] /\ h[0] = 0
  BY <1>1, <1>2 DEF Sums
<1>5. \A k \in 0..L : h[k] = f[k]
  BY <1>2
<1>6. h[L + 1] = f[L] + Size[tx]
  BY <1>2
<1> HIDE DEF h, r
<1>7. ASSUME NEW k \in 1..(L + 1) PROVE h[k] = h[k - 1] + Size[r[k]]
  <2>1. CASE k = L + 1
    <3>1. L \in 0..L /\ (L + 1) - 1 = L
      BY <1>2
    <3> QED  BY <1>3, <1>5, <1>6, <2>1, <3>1
  <2>2. CASE k # L + 1
    <3>1. k \in 1..L /\ k \in 0..L /\ k - 1 \in 0..L
      BY <1>2, <2>2
    <3> QED  BY <1>1, <1>3, <1>5, <3>1 DEF Sums
  <2> QED  BY <2>1, <2>2
<1>8. Sums(r, h)
  BY <1>3, <1>4, <1>7 DEF Sums
<1>9. Bytes(r) = h[L + 1]
  BY <1>3, <1>8, BytesIsSum
<1> QED  BY <1>2, <1>6, <1>9 DEF r

-----------------------------------------------------------------------------
(* Parts of a queue: what is left after evictions, expiry and a batch.     *)

\* Nothing is queued twice.
Distinct(q) == \A i, j \in 1..Len(q) : q[i] = q[j] => i = j

\* Entries of q, and none twice unless q has one twice.
Part(r, q) ==
    /\ r \in Seq(Txs) /\ Len(r) <= Len(q) /\ Bytes(r) <= Bytes(q)
    /\ \A j \in 1..Len(r) : \E i \in 1..Len(q) : r[j] = q[i]
    /\ Distinct(q) => Distinct(r)

\* A part of a part is a part.
LEMMA PartOfPart ==
    ASSUME NEW q \in Seq(Txs), NEW r, Part(r, q), NEW s, Part(s, r)
    PROVE  Part(s, q)
<1>1. Bytes(q) \in Nat /\ Bytes(r) \in Nat /\ Bytes(s) \in Nat
  BY BytesType DEF Part
<1>2. Len(q) \in Nat /\ Len(r) \in Nat /\ Len(s) \in Nat
  BY DEF Part
<1>3. Len(s) <= Len(q) /\ Bytes(s) <= Bytes(q)
  BY <1>1, <1>2 DEF Part
<1>4. \A j \in 1..Len(s) : \E i \in 1..Len(q) : s[j] = q[i]
  BY DEF Part
<1> QED  BY <1>3, <1>4 DEF Part

\* A suffix of a queue is a part of it.
LEMMA WithoutIsPart ==
    ASSUME NEW q \in Seq(Txs), NEW k \in 0..Len(q)
    PROVE  /\ Part(Without(q, k), q)
           /\ Len(Without(q, k)) = Len(q) - k
<1> DEFINE L == Len(q)
           r == Without(q, k)
           n == L - k
<1>1. L \in Nat /\ k \in Nat /\ n \in Nat /\ k <= L
  OBVIOUS
<1>2. r \in Seq(Txs) /\ Len(r) = n /\ \A j \in 1..n : r[j] = q[k + j] /\ k + j \in 1..L
  <2>1. k + 1 \in 1..(L + 1) /\ L \in 0..L
    BY <1>1
  <2>2. /\ SubSeq(q, k + 1, L) \in Seq(Txs)
        /\ Len(SubSeq(q, k + 1, L)) = IF k + 1 <= L THEN L - (k + 1) + 1 ELSE 0
        /\ \A j \in 1..(L - (k + 1) + 1) : SubSeq(q, k + 1, L)[j] = q[(k + 1) + j - 1]
    BY <1>1, <2>1, SubSeqProperties
  <2>3. (IF k + 1 <= L THEN L - (k + 1) + 1 ELSE 0) = n /\ L - (k + 1) + 1 = n
    BY <1>1
  <2>4. \A j \in 1..n : (k + 1) + j - 1 = k + j /\ k + j \in 1..L
    BY <1>1
  <2>5. r = SubSeq(q, k + 1, L)
    BY DEF Without
  <2> HIDE DEF r, n, L
  <2> QED  BY <2>2, <2>3, <2>4, <2>5
<1>3. PICK f : Sums(q, f)
  BY SumsExist
<1> DEFINE h == [j \in 0..n |-> f[k + j] - f[k]]
<1>4. \A j \in 0..L : f[j] \in Nat
  BY <1>3 DEF Sums
<1>5. \A j \in 1..n : k + j \in 1..L /\ k + (j - 1) = (k + j) - 1 /\ k + (j - 1) \in 0..L
  BY <1>1
<1>6. \A j \in 1..n : Size[q[k + j]] \in Nat
  BY <1>1, MempoolConstants
<1>7. \A j \in 1..n : f[k + j] = f[k + (j - 1)] + Size[q[k + j]]
  <2> HIDE DEF n
  <2> QED  BY <1>3, <1>5 DEF Sums
<1>8. \A j \in 0..n : k + j \in 0..L
  BY <1>1
<1>9. \A j \in 0..n : f[k] <= f[k + j]
  <2> DEFINE T == {j \in 0..n : f[k] <= f[k + j]}
  <2>1. 0 \in T
    BY <1>1, <1>4
  <2>2. ASSUME NEW j \in 1..n, j - 1 \in T PROVE j \in T
    <3>1. f[k] <= f[k + (j - 1)]
      BY <2>2
    <3>2. f[k] \in Nat /\ f[k + (j - 1)] \in Nat /\ Size[q[k + j]] \in Nat
      BY <1>1, <1>4, <1>5, <1>6
    <3>3. f[k] <= f[k + j]
      <4> HIDE DEF n
      <4> QED  BY <1>7, <3>1, <3>2
    <3>4. j \in 0..n
      BY <1>1
    <3> QED  BY <3>3, <3>4
  <2>3. 0..n \subseteq T
    <3> HIDE DEF T, n
    <3> QED  BY <1>1, <2>1, <2>2, StepInduction
  <2> QED  BY <2>3
<1>10. h \in [0..n -> Nat] /\ h[0] = 0
  <2>1. \A j \in 0..n : f[k + j] \in Nat /\ f[k] \in Nat /\ f[k] <= f[k + j]
    BY <1>1, <1>4, <1>8, <1>9
  <2>2. 0 \in 0..n /\ k + 0 = k
    BY <1>1
  <2>3. f[k] \in Nat
    BY <1>1, <1>4
  <2> HIDE DEF n
  <2> QED  BY <2>1, <2>2, <2>3
<1>11. ASSUME NEW j \in 1..n PROVE h[j] = h[j - 1] + Size[r[j]]
  <2>1. j \in 0..n /\ j - 1 \in 0..n
    BY <1>1
  <2>2. h[j] = f[k + j] - f[k] /\ h[j - 1] = f[k + (j - 1)] - f[k]
    BY <2>1
  <2>3. f[k] \in Nat /\ f[k + (j - 1)] \in Nat /\ Size[q[k + j]] \in Nat /\ f[k + j] \in Nat
    BY <1>1, <1>4, <1>5, <1>6, <2>1, <1>8
  <2>4. r[j] = q[k + j] /\ f[k + j] = f[k + (j - 1)] + Size[q[k + j]]
    BY <1>2, <1>7
  <2> HIDE DEF h, r, n
  <2> QED  BY <2>2, <2>3, <2>4
<1>12. Sums(r, h)
  <2> HIDE DEF h, r, n
  <2> QED  BY <1>2, <1>10, <1>11 DEF Sums
<1>13. Bytes(r) = f[L] - f[k] /\ Bytes(q) = f[L]
  <2>1. Bytes(r) = h[n] /\ Bytes(q) = f[L]
    <3> HIDE DEF h, r, n, L
    <3> QED  BY <1>2, <1>3, <1>12, BytesIsSum DEF L
  <2>2. n \in 0..n /\ k + n = L
    BY <1>1
  <2>3. h[n] = f[L] - f[k]
    <3> HIDE DEF n, L
    <3> QED  BY <2>2
  <2> QED  BY <2>1, <2>3
<1>14. f[L] \in Nat /\ f[k] \in Nat
  BY <1>1, <1>4
<1>15. Bytes(r) <= Bytes(q) /\ Len(r) <= L
  <2>1. Bytes(r) <= Bytes(q)
    <3> HIDE DEF r, L
    <3> QED  BY <1>13, <1>14
  <2>2. Len(r) <= L
    <3> HIDE DEF r
    <3> QED  BY <1>1, <1>2
  <2> QED  BY <2>1, <2>2
<1>16. ASSUME Distinct(q) PROVE Distinct(r)
  <2>1. \A i, j \in 1..n : k + i = k + j => i = j
    BY <1>1
  <2> HIDE DEF r, n
  <2> QED  BY <1>2, <1>16, <2>1 DEF Distinct
<1>17. \A j \in 1..Len(r) : \E i \in 1..Len(q) : r[j] = q[i]
  <2> HIDE DEF r, n
  <2> QED  BY <1>2
<1> HIDE DEF r
<1> QED  BY <1>2, <1>15, <1>16, <1>17 DEF Part, r

\* A longer queue without its last entry.
LEMMA AppendIsPart ==
    ASSUME NEW q \in Seq(Txs), NEW tx \in Txs
    PROVE  /\ Append(q, tx) \in Seq(Txs) /\ Len(Append(q, tx)) = Len(q) + 1
           /\ Append(q, tx)[Len(q) + 1] = tx
           /\ \A k \in 1..Len(q) : Append(q, tx)[k] = q[k]
           /\ Distinct(q) /\ (\A k \in 1..Len(q) : q[k] # tx) => Distinct(Append(q, tx))
<1> DEFINE r == Append(q, tx)
<1>1. /\ r \in Seq(Txs) /\ Len(r) = Len(q) + 1 /\ r[Len(q) + 1] = tx /\ Len(q) \in Nat
      /\ \A k \in 1..Len(q) : r[k] = q[k]
  OBVIOUS
<1> HIDE DEF r
<1>2. ASSUME Distinct(q), \A k \in 1..Len(q) : q[k] # tx PROVE Distinct(r)
  <2>1. \A k \in 1..Len(r) : k \in 1..Len(q) \/ k = Len(q) + 1
    BY <1>1
  <2> QED  BY <1>1, <1>2, <2>1 DEF Distinct
<1> QED  BY <1>1, <1>2 DEF r

\* What pruneExpired returns: a part of the queue, without the expired entries.
LEMMA PrunedIsPart ==
    ASSUME NEW q \in Seq(Txs), NEW expired
    PROVE  /\ Part(pruneExpired(q, expired), q)
           /\ \A j \in 1..Len(pruneExpired(q, expired)) : pruneExpired(q, expired)[j] \notin expired
<1> DEFINE L == Len(q)
<1>1. L \in Nat /\ (\A i \in 1..L : q[i] \in Txs) /\ 0 \in 0..L /\ L \in 0..L
      /\ \A i \in 1..L : i \in 0..L /\ i - 1 \in 0..L /\ i # 0 /\ i - 1 < i
  OBVIOUS
<1>2. PICK f : Sums(q, f)
  BY SumsExist
<1> DEFINE Good(i, r) ==
               /\ r \in Seq(Txs) /\ Len(r) <= i /\ Bytes(r) <= f[i]
               /\ \A j \in 1..Len(r) : r[j] \notin expired /\ \E m \in 1..i : r[j] = q[m]
               /\ Distinct(q) => Distinct(r)
           Turn(i, r) == IF q[i] \in expired THEN r ELSE Append(r, q[i])
           S == [i \in 0..L |-> {r \in Seq(Txs) : Good(i, r)}]
           g == [p \in Seq(Txs) \X (1..L) |-> Turn(p[2], p[1])]
<1>3. \A i \in 0..L : S[i] = {r \in Seq(Txs) : Good(i, r)}
  OBVIOUS
<1>4. \A r \in Seq(Txs), i \in 1..L : g[<<r, i>>] = Turn(i, r)
  OBVIOUS
<1>5. <<>> \in S[0]
  <2>1. <<>> \in Seq(Txs) /\ Len(<<>>) = 0 /\ Bytes(<<>>) = 0 /\ f[0] = 0
    BY <1>2, BytesType DEF Sums
  <2>2. Distinct(<<>>)
    BY DEF Distinct
  <2>3. Good(0, <<>>)
    BY <2>1, <2>2
  <2> HIDE DEF Good, S
  <2> QED  BY <1>1, <1>3, <2>1, <2>3
<1>6. ASSUME NEW i \in 1..L, NEW r, Good(i - 1, r) PROVE Good(i, Turn(i, r))
  <2>a. f[i - 1] \in Nat /\ f[i] = f[i - 1] + Size[q[i]] /\ q[i] \in Txs
    BY <1>1, <1>2 DEF Sums
  <2>b. Size[q[i]] \in Nat
    BY <2>a, MempoolConstants
  <2>c. r \in Seq(Txs) /\ Len(r) <= i - 1 /\ Bytes(r) <= f[i - 1]
    BY <1>6
  <2>d. Bytes(r) \in Nat
    BY <2>c, BytesType
  <2>1. /\ r \in Seq(Txs) /\ Len(r) <= i - 1 /\ Len(r) \in Nat /\ Bytes(r) <= f[i - 1] /\ Bytes(r) \in Nat
        /\ f[i - 1] \in Nat /\ f[i] = f[i - 1] + Size[q[i]] /\ Size[q[i]] \in Nat /\ q[i] \in Txs
    BY <2>a, <2>b, <2>c, <2>d
  <2>2. \A m \in 1..(i - 1) : m \in 1..i /\ m \in 1..L /\ m # i
    BY <1>1
  <2>3. CASE q[i] \in expired
    <3>1. Turn(i, r) = r
      BY <2>3
    <3>2. Len(r) <= i /\ Bytes(r) <= f[i]
      BY <1>1, <2>1
    <3> QED  BY <1>6, <2>1, <2>2, <3>1, <3>2
  <2>4. CASE q[i] \notin expired
    <3> DEFINE s == Append(r, q[i])
    <3>1. Turn(i, r) = s
      BY <2>4
    <3>2. /\ s \in Seq(Txs) /\ Len(s) = Len(r) + 1 /\ s[Len(r) + 1] = q[i]
          /\ \A k \in 1..Len(r) : s[k] = r[k]
          /\ Distinct(r) /\ (\A k \in 1..Len(r) : r[k] # q[i]) => Distinct(s)
      BY <2>1, AppendIsPart
    <3>3. Bytes(s) = Bytes(r) + Size[q[i]]
      BY <2>1, BytesAppend
    <3> HIDE DEF s, Turn
    <3>4. Len(s) <= i /\ Bytes(s) <= f[i]
      BY <1>1, <2>1, <3>2, <3>3
    <3>5. ASSUME NEW j \in 1..Len(s) PROVE s[j] \notin expired /\ \E m \in 1..i : s[j] = q[m]
      <4>1. CASE j = Len(r) + 1
        <5>1. i \in 1..i
          BY <1>1
        <5> QED  BY <2>4, <3>2, <4>1, <5>1
      <4>2. CASE j # Len(r) + 1
        <5>1. j \in 1..Len(r)
          BY <2>1, <3>2, <4>2
        <5> QED  BY <1>6, <2>2, <3>2, <5>1
      <4> QED  BY <4>1, <4>2
    <3>6. ASSUME Distinct(q) PROVE Distinct(s)
      <4>1. ASSUME NEW k \in 1..Len(r) PROVE r[k] # q[i]
        <5>1. PICK m \in 1..(i - 1) : r[k] = q[m]
          BY <1>6
        <5> QED  BY <1>1, <2>2, <3>6, <5>1 DEF Distinct
      <4> QED  BY <1>6, <3>2, <3>6, <4>1
    <3> QED  BY <3>1, <3>2, <3>4, <3>5, <3>6
  <2> QED  BY <2>3, <2>4
<1>7. \A i \in 0..L : \A r \in S[i] : r \in Seq(Txs) /\ Good(i, r)
  <2> HIDE DEF Good, S
  <2> QED  BY <1>3
<1>8. \A i \in 1..L : \A r \in S[i - 1] : g[<<r, i>>] \in S[i]
  <2> SUFFICES ASSUME NEW i \in 1..L, NEW r \in S[i - 1] PROVE g[<<r, i>>] \in S[i]
    OBVIOUS
  <2>1. r \in Seq(Txs) /\ Good(i - 1, r)
    BY <1>1, <1>7
  <2>2. Good(i, Turn(i, r))
    BY <1>6, <2>1
  <2>3. Turn(i, r) \in Seq(Txs)
    BY <2>2
  <2> HIDE DEF Good, Turn, g, S
  <2> QED  BY <1>1, <1>3, <1>4, <2>1, <2>2, <2>3
<1>9. Turns(L, S, <<>>, g)
  <2> HIDE DEF S, g, L
  <2> QED  BY <1>5, <1>8 DEF Turns
<1>10. PICK h : Loop(L, S, <<>>, g, h)
  <2> HIDE DEF S, g, L
  <2> QED  BY <1>1, <1>9, Recursion
<1> DEFINE Is(t) == t = [k \in 0..L |-> IF k = 0 THEN <<>>
                                        ELSE IF q[k] \in expired THEN t[k - 1]
                                        ELSE Append(t[k - 1], q[k])]
           t == CHOOSE u : Is(u)
<1>11. Is(h)
  <2>1. ASSUME NEW i \in 1..L PROVE h[i] = Turn(i, h[i - 1])
    <3>1. h[i] = g[<<h[i - 1], i>>] /\ h[i - 1] \in S[i - 1]
      BY <1>1, <1>10 DEF Loop
    <3>2. h[i - 1] \in Seq(Txs)
      <4> HIDE DEF S, Good
      <4> QED  BY <1>1, <1>7, <3>1
    <3> HIDE DEF g, Turn
    <3> QED  BY <1>4, <3>1, <3>2
  <2>2. h = [i \in 0..L |-> h[i]] /\ h[0] = <<>>
    BY <1>10 DEF Loop
  <2>3. \A i \in 0..L : i = 0 \/ i \in 1..L
    BY <1>1
  <2> HIDE DEF g, S, Good
  <2> QED  BY <2>1, <2>2, <2>3
<1>12. Is(t)
  <2> HIDE DEF Is
  <2> QED  BY <1>11
<1>13. pruneExpired(q, expired) = t[L]
  BY DEF pruneExpired
<1>14. \A k \in 0..L : t[k] = IF k = 0 THEN <<>>
                              ELSE IF q[k] \in expired THEN t[k - 1] ELSE Append(t[k - 1], q[k])
  <2> HIDE DEF t, L
  <2> QED  BY <1>12
<1> HIDE DEF t
<1>15. t[0] = <<>> /\ \A i \in 1..L : t[i] = Turn(i, t[i - 1])
  BY <1>1, <1>14
<1> DEFINE T == {i \in 0..L : Good(i, t[i])}
<1>16. 0 \in T
  <2> HIDE DEF Good, S
  <2> QED  BY <1>1, <1>5, <1>7, <1>15
<1>17. ASSUME NEW i \in 1..L, i - 1 \in T PROVE i \in T
  <2>1. Good(i - 1, t[i - 1])
    BY <1>17
  <2>2. Good(i, Turn(i, t[i - 1]))
    BY <1>6, <2>1
  <2> HIDE DEF Good, Turn
  <2> QED  BY <1>1, <1>15, <2>2
<1>18. Good(L, t[L])
  <2> HIDE DEF Good, T
  <2>1. 0..L \subseteq T
    BY <1>1, <1>16, <1>17, StepInduction
  <2> QED  BY <1>1, <2>1 DEF T
<1>19. Bytes(q) = f[L]
  BY <1>2, BytesIsSum
<1> DEFINE r == t[L]
<1>20. /\ r \in Seq(Txs) /\ Len(r) <= Len(q) /\ Bytes(r) <= Bytes(q)
       /\ \A j \in 1..Len(r) : r[j] \notin expired /\ \E m \in 1..Len(q) : r[j] = q[m]
       /\ Distinct(q) => Distinct(r)
  BY <1>18, <1>19
<1> HIDE DEF r
<1>21. Part(r, q) /\ \A j \in 1..Len(r) : r[j] \notin expired
  BY <1>20 DEF Part
<1> QED  BY <1>13, <1>21 DEF r

-----------------------------------------------------------------------------
(* Evictions and batches.                                                  *)

\* evictUntilQueueSlot drops entries from the front until there is a place.
LEMMA QueueSlotIsPart ==
    ASSUME NEW q \in Seq(Txs)
    PROVE  /\ Part(evictUntilQueueSlot(q), q)
           /\ Len(evictUntilQueueSlot(q)) < MaxQueueLen
<1> DEFINE Ok(k) == Len(Without(q, k)) < MaxQueueLen
           T == {k \in 0..Len(q) : Ok(k)}
           First(k) == Ok(k) /\ \A j \in 0..(k - 1) : ~Ok(j)
           first == CHOOSE k \in 0..Len(q) : First(k)
<1>1. Len(q) \in Nat /\ MaxQueueLen \in Nat \ {0}
  BY MempoolConstants
<1>2. Len(q) \in T
  <2>1. Len(q) \in 0..Len(q) /\ Len(q) - Len(q) = 0
    BY <1>1
  <2>2. Len(Without(q, Len(q))) = 0
    BY <2>1, WithoutIsPart
  <2> QED  BY <1>1, <2>1, <2>2
<1>3. PICK k \in T : \A j \in T : k <= j
  <2>1. T \in SUBSET Nat /\ T # {}
    BY <1>1, <1>2
  <2> HIDE DEF T
  <2> QED  BY <2>1, LeastNumber
<1>4. k \in 0..Len(q) /\ First(k)
  <2>1. k \in 0..Len(q) /\ Ok(k) /\ \A j \in 0..(k - 1) : j \in 0..Len(q) /\ ~(k <= j)
    BY <1>1
  <2> QED  BY <1>3, <2>1
<1>5. first \in 0..Len(q) /\ First(first)
  <2> HIDE DEF First
  <2> QED  BY <1>4
<1>6. evictUntilQueueSlot(q) = Without(q, first)
  BY DEF evictUntilQueueSlot, Fewest
<1> HIDE DEF first
<1> QED  BY <1>5, <1>6, WithoutIsPart

\* evictUntilFit drops entries from the front.
LEMMA FitIsPart ==
    ASSUME NEW q \in Seq(Txs), NEW incoming
    PROVE  Part(evictUntilFit(q, incoming), q)
<1> DEFINE Ok(k) == Without(q, k) = <<>> \/ PoolBytes(Without(q, k)) + incoming <= MaxPoolBytes
           T == {k \in 0..Len(q) : Ok(k)}
           First(k) == Ok(k) /\ \A j \in 0..(k - 1) : ~Ok(j)
           first == CHOOSE k \in 0..Len(q) : First(k)
<1>1. Len(q) \in Nat
  OBVIOUS
<1>2. Len(q) \in T
  <2>1. Len(q) \in 0..Len(q) /\ Len(q) - Len(q) = 0
    BY <1>1
  <2>2. Len(Without(q, Len(q))) = 0 /\ Without(q, Len(q)) \in Seq(Txs)
    BY <2>1, WithoutIsPart DEF Part
  <2> QED  BY <2>1, <2>2, EmptySeq
<1>3. PICK k \in T : \A j \in T : k <= j
  <2>1. T \in SUBSET Nat /\ T # {}
    BY <1>1, <1>2
  <2> HIDE DEF T
  <2> QED  BY <2>1, LeastNumber
<1>4. k \in 0..Len(q) /\ First(k)
  <2>1. k \in 0..Len(q) /\ Ok(k) /\ \A j \in 0..(k - 1) : j \in 0..Len(q) /\ ~(k <= j)
    BY <1>1
  <2> QED  BY <1>3, <2>1
<1>5. first \in 0..Len(q)
  <2> HIDE DEF First
  <2> QED  BY <1>4
<1>6. evictUntilFit(q, incoming) = Without(q, first)
  BY DEF evictUntilFit, Fewest
<1> HIDE DEF first
<1> QED  BY <1>5, <1>6, WithoutIsPart

\* A batch has no more entries than the queue.
LEMMA BatchLenRange ==
    ASSUME NEW q \in Seq(Txs), maxBatchTxs \in Nat
    PROVE  BatchLen(q) \in 0..Len(q)
<1> DEFINE L == Len(q)
           fits(k) == \A j \in 2..k : Bytes(SubSeq(q, 1, j)) <= MaxBatchBytes
           lens == {k \in 0..L : k <= maxBatchTxs /\ fits(k)}
           T == {n \in 0..L : L - n \in lens}
<1>1. L \in Nat
  OBVIOUS
<1>2. 0 \in lens /\ lens \subseteq 0..L
  BY <1>1
<1>3. BatchLen(q) = CHOOSE m \in lens : \A j \in lens : j <= m
  BY DEF BatchLen
<1> HIDE DEF lens, L
<1>4. PICK n \in T : \A m \in T : n <= m
  <2>1. L - L = 0 /\ L \in 0..L
    BY <1>1
  <2>2. L \in T
    BY <1>2, <2>1
  <2>3. T \in SUBSET Nat
    BY <1>1
  <2> HIDE DEF T
  <2> QED  BY <2>2, <2>3, LeastNumber
<1>5. n \in 0..L /\ L - n \in lens
  OBVIOUS
<1>6. \A j \in lens : L - j \in T
  <2>1. \A j \in lens : j \in 0..L
    BY <1>2
  <2>2. \A j \in 0..L : L - j \in 0..L /\ L - (L - j) = j
    BY <1>1
  <2> QED  BY <2>1, <2>2
<1> HIDE DEF T
<1>7. \A j \in lens : j <= L - n
  <2>1. \A j \in 0..L : n <= L - j => j <= L - n
    BY <1>1, <1>5
  <2> QED  BY <1>2, <1>4, <1>6, <2>1
<1>8. BatchLen(q) \in lens
  BY <1>3, <1>5, <1>7
<1> QED  BY <1>2, <1>8 DEF L

-----------------------------------------------------------------------------
(* The pool.                                                               *)

\* The inductive invariant of the pool: no transaction is queued twice, each has
\* its mark, and the byte count is exact.
PoolInv ==
    /\ txQueue \in Seq(Txs) /\ Len(txQueue) <= MaxQueueLen /\ Distinct(txQueue)
    /\ seenTx \subseteq Txs /\ \A k \in 1..Len(txQueue) : txQueue[k] \in seenTx
    /\ PoolBytesExact
    /\ maxBatchTxs \in BatchLimits

\* What the operations leave of the queue: marked, no longer, no larger, and counted
\* by PoolBytes.
LEMMA PartOfPool ==
    ASSUME PoolInv, NEW kept, Part(kept, txQueue), NEW seen \in SUBSET seenTx,
           \A j \in 1..Len(kept) : kept[j] \in seen,
           NEW r, Part(r, kept)
    PROVE  /\ r \in Seq(Txs) /\ Len(r) <= MaxQueueLen /\ Distinct(r)
           /\ seen \subseteq Txs /\ \A j \in 1..Len(r) : r[j] \in seen
           /\ PoolBytes(r) = Bytes(r) /\ Bytes(r) <= MaxPoolBytes /\ Bytes(r) \in Nat
<1>1. Part(r, txQueue)
  BY PartOfPart DEF PoolInv
<1>2. Len(r) \in Nat /\ Len(txQueue) \in Nat /\ MaxQueueLen \in Nat /\ MaxPoolBytes \in Nat
  BY <1>1, MempoolConstants DEF PoolInv, Part
<1>3. Bytes(r) \in Nat /\ Bytes(txQueue) \in Nat
  BY <1>1, BytesType DEF PoolInv, Part
<1>4. Len(r) <= MaxQueueLen /\ Bytes(r) <= MaxPoolBytes
  BY <1>1, <1>2, <1>3 DEF PoolInv, PoolBytesExact, Part
<1>5. PoolBytes(r) = Bytes(r)
  <2>1. PoolBytes(r) = Bytes(txQueue) - (Bytes(txQueue) - Bytes(r))
    BY DEF PoolBytes, PoolInv, PoolBytesExact
  <2> QED  BY <1>3, <2>1
<1>6. \A j \in 1..Len(r) : r[j] \in seen
  BY DEF Part
<1> QED  BY <1>1, <1>3, <1>4, <1>5, <1>6 DEF Part, PoolInv

\* What is left after expiry.
LEMMA KeptOfPool ==
    ASSUME PoolInv, NEW expired
    PROVE  LET kept == pruneExpired(txQueue, expired)
           IN  /\ kept \in Seq(Txs) /\ Part(kept, txQueue) /\ Part(kept, kept)
               /\ \A j \in 1..Len(kept) : kept[j] \in seenTx \ expired
<1> DEFINE kept == pruneExpired(txQueue, expired)
<1>1. Part(kept, txQueue) /\ \A j \in 1..Len(kept) : kept[j] \notin expired
  BY PrunedIsPart DEF PoolInv
<1> HIDE DEF kept
<1>2. \A j \in 1..Len(kept) : kept[j] \in seenTx
  BY <1>1 DEF PoolInv, Part
<1>3. kept \in Seq(Txs)
  BY <1>1 DEF Part
<1>4. Part(kept, kept)
  BY <1>3, BytesType DEF Part
<1> QED  BY <1>1, <1>2, <1>3, <1>4 DEF kept

\* A submission, from a client, from gossip or from the consumer.
LEMMA SubmitPool ==
    ASSUME PoolInv, SubmitTransaction
    PROVE  PoolInv'
<1>1. PICK tx \in Txs, expired \in SUBSET seenTx : submit(tx, expired)
  BY DEF SubmitTransaction
<1> DEFINE seen == seenTx \ expired
           kept == pruneExpired(txQueue, expired)
           slot == evictUntilQueueSlot(kept)
           room == evictUntilFit(slot, Size[tx])
<1>2. /\ kept \in Seq(Txs) /\ Part(kept, txQueue) /\ Part(kept, kept)
      /\ \A j \in 1..Len(kept) : kept[j] \in seen
  BY KeptOfPool
<1>3. \/ /\ seenTx' = seen /\ txQueue' = kept /\ poolBytes' = PoolBytes(kept)
      \/ /\ seenTx' = seen /\ txQueue' = room /\ poolBytes' = PoolBytes(room)
      \/ /\ tx \notin seen /\ ~(PoolBytes(room) + Size[tx] > MaxPoolBytes)
         /\ seenTx' = seen \cup {tx} /\ txQueue' = Append(room, tx)
         /\ poolBytes' = PoolBytes(room) + Size[tx]
  BY <1>1 DEF submit
<1>4. maxBatchTxs' \in BatchLimits
  BY <1>1 DEF submit, PoolInv
<1> HIDE DEF kept
<1>5. Part(slot, kept) /\ Len(slot) < MaxQueueLen /\ slot \in Seq(Txs)
  BY <1>2, QueueSlotIsPart DEF Part
<1> HIDE DEF slot
<1>6. Part(room, slot)
  BY <1>5, FitIsPart
<1> HIDE DEF room
<1>7. Part(room, kept)
  BY <1>2, <1>5, <1>6, PartOfPart
<1>8. seen \in SUBSET seenTx
  OBVIOUS
<1> HIDE DEF seen
<1>9. ASSUME NEW r \in {kept, room}
      PROVE  /\ r \in Seq(Txs) /\ Len(r) <= MaxQueueLen /\ Distinct(r)
             /\ seen \subseteq Txs /\ \A j \in 1..Len(r) : r[j] \in seen
             /\ PoolBytes(r) = Bytes(r) /\ Bytes(r) <= MaxPoolBytes /\ Bytes(r) \in Nat
  <2>1. Part(r, kept)
    BY <1>2, <1>7
  <2> QED  BY <1>2, <1>8, <2>1, PartOfPool
<1>10. CASE seenTx' = seen /\ txQueue' \in {kept, room} /\ poolBytes' = PoolBytes(txQueue')
  <2>1. /\ txQueue' \in Seq(Txs) /\ Len(txQueue') <= MaxQueueLen /\ Distinct(txQueue')
        /\ seen \subseteq Txs /\ \A j \in 1..Len(txQueue') : txQueue'[j] \in seen
        /\ PoolBytes(txQueue') = Bytes(txQueue') /\ Bytes(txQueue') <= MaxPoolBytes
    BY <1>9, <1>10
  <2> QED  BY <1>4, <1>10, <2>1 DEF PoolInv, PoolBytesExact, Distinct, Bytes
<1>11. CASE /\ tx \notin seen /\ ~(PoolBytes(room) + Size[tx] > MaxPoolBytes)
            /\ seenTx' = seen \cup {tx} /\ txQueue' = Append(room, tx)
            /\ poolBytes' = PoolBytes(room) + Size[tx]
  <2>1. /\ room \in Seq(Txs) /\ Distinct(room) /\ seen \subseteq Txs
        /\ \A j \in 1..Len(room) : room[j] \in seen
        /\ PoolBytes(room) = Bytes(room) /\ Bytes(room) \in Nat
    BY <1>9
  <2>2. Size[tx] \in Nat /\ MaxPoolBytes \in Nat /\ MaxQueueLen \in Nat
    BY MempoolConstants
  <2>3. Len(room) < MaxQueueLen /\ Len(room) \in Nat
    <3>1. Len(room) <= Len(slot) /\ Len(room) \in Nat /\ Len(slot) \in Nat
      BY <1>5, <1>6, <2>1 DEF Part
    <3> QED  BY <1>5, <2>2, <3>1
  <2>4. \A k \in 1..Len(room) : room[k] # tx
    BY <1>11, <2>1
  <2>5. /\ txQueue' \in Seq(Txs) /\ Len(txQueue') = Len(room) + 1 /\ txQueue'[Len(room) + 1] = tx
        /\ \A k \in 1..Len(room) : txQueue'[k] = room[k]
        /\ Distinct(txQueue')
    BY <1>11, <2>1, <2>4, AppendIsPart
  <2>6. Bytes(txQueue') = Bytes(room) + Size[tx]
    BY <1>11, <2>1, BytesAppend
  <2>7. poolBytes' = Bytes(txQueue') /\ poolBytes' <= MaxPoolBytes
    BY <1>11, <2>1, <2>2, <2>6
  <2>8. Len(txQueue') <= MaxQueueLen
    BY <2>2, <2>3, <2>5
  <2>9. ASSUME NEW k \in 1..Len(txQueue') PROVE txQueue'[k] \in seenTx'
    <3>1. k \in 1..Len(room) \/ k = Len(room) + 1
      BY <2>3, <2>5
    <3> QED  BY <1>11, <2>1, <2>5, <3>1
  <2>10. seenTx' \subseteq Txs
    BY <1>11, <2>1
  <2> QED  BY <1>4, <2>5, <2>7, <2>8, <2>9, <2>10 DEF PoolInv, PoolBytesExact, Distinct, Bytes
<1> QED  BY <1>3, <1>10, <1>11

\* A batch is taken.
LEMMA CreateVertexPool ==
    ASSUME PoolInv, CreateVertex
    PROVE  PoolInv'
<1>1. PICK expired \in SUBSET seenTx : createVertex(expired)
  BY DEF CreateVertex
<1> DEFINE seen == seenTx \ expired
           kept == pruneExpired(txQueue, expired)
           r == Without(kept, BatchLen(kept))
<1>2. /\ kept \in Seq(Txs) /\ Part(kept, txQueue)
      /\ \A j \in 1..Len(kept) : kept[j] \in seen
  BY KeptOfPool
<1>3. seenTx' = seen /\ txQueue' = r /\ poolBytes' = PoolBytes(r) /\ maxBatchTxs' = maxBatchTxs
  BY <1>1 DEF createVertex
<1> HIDE DEF kept
<1>4. BatchLen(kept) \in 0..Len(kept)
  <2>1. maxBatchTxs \in Nat
    BY MempoolConstants DEF PoolInv
  <2> QED  BY <1>2, <2>1, BatchLenRange
<1>5. Part(r, kept)
  BY <1>2, <1>4, WithoutIsPart
<1>6. seen \in SUBSET seenTx
  OBVIOUS
<1> HIDE DEF seen, r
<1>7. /\ r \in Seq(Txs) /\ Len(r) <= MaxQueueLen /\ Distinct(r)
      /\ seen \subseteq Txs /\ \A j \in 1..Len(r) : r[j] \in seen
      /\ PoolBytes(r) = Bytes(r) /\ Bytes(r) <= MaxPoolBytes /\ Bytes(r) \in Nat
  BY <1>2, <1>5, <1>6, PartOfPool
<1> QED  BY <1>3, <1>7 DEF PoolInv, PoolBytesExact, Distinct, Bytes

\* Nobody else touches the pool.
LEMMA PoolStep ==
    ASSUME PoolInv, [Next]_vars
    PROVE  PoolInv'
<1>1. ASSUME UNCHANGED <<txQueue, seenTx, poolBytes>>, maxBatchTxs' \in BatchLimits
      PROVE  PoolInv'
  BY <1>1 DEF PoolInv, PoolBytesExact, Distinct, Bytes
<1>2. ASSUME UNCHANGED mempoolVars PROVE PoolInv'
  BY <1>1, <1>2 DEF mempoolVars, PoolInv
<1>3. CASE MempoolStep
  <2>1. ASSUME SendProposal \/ SetAdaptiveTuning PROVE PoolInv'
    BY <1>1, <2>1 DEF SendProposal, SetAdaptiveTuning, PoolInv
  <2> QED  BY <1>3, <2>1, SubmitPool, CreateVertexPool DEF MempoolStep
<1>4. CASE ConsumerStep
  <2>1. ASSUME ConsumerRelease PROVE PoolInv'
    BY <2>1, SubmitPool DEF ConsumerRelease
  <2>2. ASSUME ~ConsumerRelease PROVE UNCHANGED mempoolVars
    BY <1>4, <2>2 DEF ConsumerStep, ConsumerReceive, ConsumerInstall, ConsumerPropose, ConsumerSend,
                      ConsumerRecord
  <2> QED  BY <1>2, <2>1, <2>2
<1>5. CASE EngineReceive
  BY <1>1, <1>5 DEF EngineReceive, PoolInv
<1>6. CASE EngineHandle \/ EngineSend \/ OrdererReceive \/ OrdererSend \/ Defer \/ UNCHANGED vars
  BY <1>2, <1>6 DEF EngineHandle, EngineSend, OrdererReceive, OrdererSend, Defer, vars
<1> QED  BY <1>3, <1>4, <1>5, <1>6 DEF Next

\* The pool starts empty.
LEMMA PoolInit == Init => PoolInv
<1> SUFFICES ASSUME Init PROVE PoolInv
  OBVIOUS
<1>1. txQueue = <<>> /\ seenTx = {} /\ poolBytes = 0 /\ maxBatchTxs \in BatchLimits
  BY DEF Init, MempoolInit
<1>2. Bytes(txQueue) = 0
  BY <1>1, BytesType
<1>3. MaxQueueLen \in Nat /\ MaxPoolBytes \in Nat
  BY MempoolConstants
<1>4. txQueue \in Seq(Txs) /\ Len(txQueue) = 0
  BY <1>1
<1> QED  BY <1>1, <1>2, <1>3, <1>4 DEF PoolInv, PoolBytesExact, Distinct

\* Through evictions, expiry, batches and submissions of three goroutines, the byte
\* count that submit trusts is the size of what is queued, and within the pool
\* (mempool.go:363-385).
THEOREM PipelinePoolBytesExact == Spec => []PoolBytesExact
<1>1. PoolInv => PoolBytesExact
  BY DEF PoolInv
<1> QED  BY <1>1, PoolInit, PoolStep, PTL DEF Spec

\* A queue without repetitions has as many transactions as places.
LEMMA DistinctCounts ==
    ASSUME NEW q \in Seq(Txs), Distinct(q)
    PROVE  Cardinality(ToSet(q)) = Len(q)
<1>1. Len(q) \in Nat /\ DOMAIN q = 1..Len(q)
  OBVIOUS
<1>2. q \in Bijection(1..Len(q), ToSet(q))
  BY <1>1 DEF Distinct, ToSet, Bijection, Injection, Surjection, IsInjective
<1>3. ExistsBijection(1..Len(q), ToSet(q))
  BY <1>2 DEF ExistsBijection
<1> QED  BY <1>1, <1>3, FS_CountingElements

\* Whatever loop removes the marks and the entries, every queued transaction has its
\* mark, and none is queued twice (mempool.go:449-467).
THEOREM PipelineQueuedIsSeen == Spec => []QueuedIsSeen
<1>1. PoolInv => QueuedIsSeen
  <2> SUFFICES ASSUME PoolInv PROVE QueuedIsSeen
    OBVIOUS
  <2>1. txQueue \in Seq(Txs) /\ Distinct(txQueue)
    BY DEF PoolInv
  <2>2. Cardinality(ToSet(txQueue)) = Len(txQueue)
    BY <2>1, DistinctCounts
  <2>3. ToSet(txQueue) \subseteq seenTx
    BY <2>1 DEF ToSet, PoolInv
  <2> QED  BY <2>2, <2>3 DEF QueuedIsSeen
<1> QED  BY <1>1, PoolInit, PoolStep, PTL DEF Spec

-----------------------------------------------------------------------------
(* Type correctness and the capacities of the channels.                    *)

\* What the other invariants say nothing of: rounds, capacities and the gate.
BoundsInv ==
    /\ currentRound \in 1..(MaxRound + 1) /\ roundCerts \subseteq Rounds
    /\ proposing \in BOOLEAN /\ (proposing => currentRound \in Rounds)
    /\ proposalChan \in Seq(Rounds) /\ Len(proposalChan) <= ProposalCap
    /\ pendingCerts \subseteq Rounds
    /\ Len(outputChan) <= OutputCap /\ Len(orderedChan) <= OrderedCap
    /\ gatePending \in BOOLEAN

\* Everything but the channels behind the engine.
MempoolBounds ==
    /\ currentRound \in 1..(MaxRound + 1) /\ roundCerts \subseteq Rounds
    /\ proposing \in BOOLEAN /\ (proposing => currentRound \in Rounds)
    /\ proposalChan \in Seq(Rounds) /\ Len(proposalChan) <= ProposalCap

\* A sequence with one more entry.
LEMMA OneMore ==
    ASSUME NEW S, NEW c \in Seq(S), NEW e \in S, NEW cap \in Nat, Len(c) < cap
    PROVE  Append(c, e) \in Seq(S) /\ Len(Append(c, e)) <= cap
<1>1. Append(c, e) \in Seq(S) /\ Len(Append(c, e)) = Len(c) + 1 /\ Len(c) \in Nat
  OBVIOUS
<1> QED  BY <1>1

\* A sequence without its first entry.
LEMMA OneLess ==
    ASSUME NEW S, NEW c \in Seq(S), c # <<>>, NEW cap \in Nat, Len(c) <= cap
    PROVE  Head(c) \in S /\ Tail(c) \in Seq(S) /\ Len(Tail(c)) <= cap
<1>1. Head(c) \in S /\ Tail(c) \in Seq(S) /\ Len(Tail(c)) = Len(c) - 1 /\ Len(c) \in Nat
  BY HeadTailProperties
<1> QED  BY <1>1

\* The mempool's part.
LEMMA MempoolStepBounds ==
    ASSUME MempoolBounds,
           SubmitTransaction \/ CreateVertex \/ SendProposal \/ SetAdaptiveTuning
    PROVE  MempoolBounds'
<1>1. ASSUME SubmitTransaction \/ SetAdaptiveTuning PROVE MempoolBounds'
  BY <1>1 DEF SubmitTransaction, submit, SetAdaptiveTuning, MempoolBounds
<1>2. ASSUME CreateVertex PROVE MempoolBounds'
  <2>1. PICK expired \in SUBSET seenTx : createVertex(expired)
    BY <1>2 DEF CreateVertex
  <2>2. /\ currentRound \in Rounds /\ UNCHANGED <<currentRound, proposalChan>>
        /\ \/ UNCHANGED <<roundCerts, proposing>>
           \/ roundCerts' = roundCerts \cup {currentRound} /\ proposing' = TRUE
    BY <2>1 DEF createVertex, Certified
  <2> QED  BY <2>2 DEF MempoolBounds
<1>3. ASSUME SendProposal PROVE MempoolBounds'
  <2>1. /\ currentRound \in Rounds /\ currentRound' = currentRound + 1
        /\ proposalChan' = Append(proposalChan, currentRound)
        /\ ~proposing' /\ proposing' \in BOOLEAN /\ UNCHANGED roundCerts
    BY <1>3 DEF SendProposal, MempoolBounds
  <2>2. MaxRound \in Nat /\ ProposalCap \in Nat
    BY MempoolConstants
  <2>3. currentRound' \in 1..(MaxRound + 1)
    BY <2>1, <2>2 DEF Rounds
  <2>4. proposalChan' \in Seq(Rounds) /\ Len(proposalChan') <= ProposalCap
    BY <1>3, <2>1, <2>2, OneMore DEF SendProposal, MempoolBounds
  <2> QED  BY <2>1, <2>3, <2>4 DEF MempoolBounds
<1> QED  BY <1>1, <1>2, <1>3

\* Everyone keeps the bounds.
LEMMA BoundsStep ==
    ASSUME BoundsInv, ChannelInv, [Next]_vars
    PROVE  BoundsInv'
<1>1. OutputCap \in Nat /\ OrderedCap \in Nat /\ ProposalCap \in Nat
  BY PipelineConstants, MempoolConstants
<1>2. MempoolBounds
  BY DEF BoundsInv, MempoolBounds
<1>3. ASSUME MempoolBounds', pendingCerts' \subseteq Rounds,
             Len(outputChan') <= OutputCap, Len(orderedChan') <= OrderedCap,
             gatePending' \in BOOLEAN
      PROVE  BoundsInv'
  BY <1>3 DEF MempoolBounds, BoundsInv
<1>4. UNCHANGED mempoolVars => MempoolBounds'
  BY <1>2 DEF mempoolVars, MempoolBounds
<1>5. CASE MempoolStep
  BY <1>2, <1>3, <1>5, MempoolStepBounds
  DEF MempoolStep, engineVars, ordererVars, consumerVars, BoundsInv
<1>6. ASSUME NEW who \in {"engine", "consumer"}, SendOutput(who)
      PROVE  Len(outputChan') <= OutputCap
  <2>1. committing \in Blocks /\ outputChan \in Seq(Blocks)
    BY <1>6, Hands DEF SendOutput, ChannelInv, PipelineTypes, LockDiscipline
  <2> QED  BY <1>1, <1>6, <2>1, OneMore DEF SendOutput
<1>7. CASE EngineReceive
  <2>1. /\ Head(proposalChan) \in Rounds /\ Tail(proposalChan) \in Seq(Rounds)
        /\ Len(Tail(proposalChan)) <= ProposalCap
    BY <1>1, <1>7, OneLess DEF EngineReceive, BoundsInv
  <2>2. MempoolBounds'
    BY <1>2, <1>7, <2>1 DEF EngineReceive, MempoolBounds
  <2> QED  BY <1>3, <1>7, <2>1, <2>2 DEF EngineReceive, ordererVars, consumerVars, BoundsInv
<1>8. CASE EngineHandle
  BY <1>3, <1>4, <1>8 DEF EngineHandle, ordererVars, consumerVars, BoundsInv
<1>9. CASE EngineSend
  <2>1. Len(outputChan') <= OutputCap
    BY <1>6, <1>9 DEF EngineSend
  <2> QED  BY <1>3, <1>4, <1>9, <2>1 DEF EngineSend, SendOutput, ordererVars, consumerVars, BoundsInv
<1>10. CASE OrdererReceive
  <2>1. Len(outputChan') <= OutputCap
    BY <1>1, <1>10, OneLess DEF OrdererReceive, BoundsInv, ChannelInv, PipelineTypes
  <2> QED  BY <1>3, <1>4, <1>10, <2>1 DEF OrdererReceive, engineVars, consumerVars, BoundsInv
<1>11. CASE OrdererSend
  <2>1. Len(orderedChan') <= OrderedCap
    BY <1>1, <1>11, OneMore DEF OrdererSend, ChannelInv, PipelineTypes
  <2> QED  BY <1>3, <1>4, <1>11, <2>1 DEF OrdererSend, engineVars, consumerVars, BoundsInv
<1>12. CASE ConsumerStep
  <2>1. ASSUME ConsumerReceive PROVE BoundsInv'
    <3>1. Len(orderedChan') <= OrderedCap
      BY <1>1, <2>1, OneLess DEF ConsumerReceive, BoundsInv, ChannelInv, PipelineTypes
    <3> QED  BY <1>3, <1>4, <2>1, <3>1 DEF ConsumerReceive, engineVars, BoundsInv
  <2>2. ASSUME ConsumerInstall PROVE BoundsInv'
    BY <1>3, <1>4, <2>2 DEF ConsumerInstall, engineVars, ordererVars, BoundsInv
  <2>3. ASSUME ConsumerPropose PROVE BoundsInv'
    BY <1>3, <1>4, <2>3 DEF ConsumerPropose, engineVars, ordererVars, BoundsInv
  <2>4. ASSUME ConsumerSend PROVE BoundsInv'
    <3>1. Len(outputChan') <= OutputCap
      BY <1>6, <2>4 DEF ConsumerSend
    <3> QED  BY <1>3, <1>4, <2>4, <3>1 DEF ConsumerSend, SendOutput, ordererVars, BoundsInv
  <2>5. ASSUME ConsumerRecord PROVE BoundsInv'
    BY <1>3, <1>4, <2>5 DEF ConsumerRecord, engineVars, ordererVars, BoundsInv
  <2>6. ASSUME ConsumerRelease PROVE BoundsInv'
    BY <1>2, <1>3, <2>6, MempoolStepBounds DEF ConsumerRelease, engineVars, ordererVars, BoundsInv
  <2> QED  BY <1>12, <2>1, <2>2, <2>3, <2>4, <2>5, <2>6 DEF ConsumerStep
<1>13. CASE Defer
  BY <1>3, <1>4, <1>13 DEF Defer, engineVars, ordererVars, BoundsInv
<1>14. CASE UNCHANGED vars
  BY <1>3, <1>4, <1>14 DEF vars, engineVars, ordererVars, consumerVars, BoundsInv
<1> QED  BY <1>5, <1>7, <1>8, <1>9, <1>10, <1>11, <1>12, <1>13, <1>14 DEF Next

\* Every variable of the pipeline keeps its type, and no channel and no queue holds
\* more than its capacity.
THEOREM PipelineTypeCorrect == Spec => []TypeOK
<1>1. Init => BoundsInv
  <2> SUFFICES ASSUME Init PROVE BoundsInv
    OBVIOUS
  <2>1. /\ MaxRound \in Nat /\ ProposalCap \in Nat /\ OutputCap \in Nat /\ OrderedCap \in Nat
        /\ <<>> \in Seq(Rounds) /\ Len(<<>>) = 0
    BY PipelineConstants, MempoolConstants
  <2>2. currentRound \in 1..(MaxRound + 1)
    BY <2>1 DEF Init, MempoolInit
  <2>3. proposing = FALSE /\ gatePending = FALSE
    BY DEF Init, MempoolInit
  <2>4. Len(outputChan) <= OutputCap /\ Len(orderedChan) <= OrderedCap /\ Len(proposalChan) <= ProposalCap
    BY <2>1 DEF Init, MempoolInit
  <2>5. roundCerts \subseteq Rounds /\ pendingCerts \subseteq Rounds /\ proposalChan \in Seq(Rounds)
    BY <2>1 DEF Init, MempoolInit
  <2> QED  BY <2>2, <2>3, <2>4, <2>5 DEF BoundsInv
<1>2. BoundsInv /\ ChannelInv /\ PoolInv => TypeOK
  <2> SUFFICES ASSUME BoundsInv, ChannelInv, PoolInv PROVE TypeOK
    OBVIOUS
  <2>1. poolBytes \in Nat
    BY BytesType DEF PoolInv, PoolBytesExact
  <2>2. MempoolTypeOK
    BY <2>1 DEF MempoolTypeOK, BoundsInv, PoolInv
  <2> QED  BY <2>2 DEF TypeOK, BoundsInv, ChannelInv, PipelineTypes
<1> QED
  BY <1>1, <1>2, BoundsStep, ChannelInit, ChannelStep, PoolInit, PoolStep, PTL DEF Spec
=============================================================================
