------------------------ MODULE GlobalOrdererProofs ------------------------
(* Proofs about GlobalOrderer for every number of lanes, every capacity    *)
(* and every finite or infinite set of outputs.                            *)
EXTENDS GlobalOrderer, FiniteSetTheorems, SequenceTheorems, TLAPS

\* What TypeOK leaves out and the invariants below rest on: exactly one entry
\* is held while the goroutine is about to send, and none otherwise.
SendingIsHeld ==
    IF pc = "send" THEN Len(sending) = 1 ELSE sending = <<>>

ChannelBounded == Len(outChan) <= OutCap

PendingFinite == IsFiniteSet(pending)

IInv ==
    /\ TypeOK
    /\ SendingIsHeld
    /\ ChannelBounded
    /\ PendingFinite
    /\ LogFollowsRanks
    /\ DeliveredInOrder
    /\ PendingAhead
    /\ OneBarrier

\* The nil entry of a rank carries that rank and the lane and height it encodes.
LEMMA NilEntryMapping ==
    ASSUME NEW r \in Nat
    PROVE  /\ NilEntry(r).rank = r
           /\ NilEntry(r).block = Nil
           /\ validRankMapping(NilEntry(r))
  BY DEF NilEntry, validRankMapping

\* What lanes send has a rank, a lane, a height and a block of the right kind.
LEMMA OutputFields ==
    ASSUME NEW out \in Outputs
    PROVE  /\ out.instance \in Nat /\ out.height \in Nat /\ out.rank \in Nat
           /\ out.block \in Blocks
  BY OrdererConstants

\* Appending to the log, and holding the appended entry, keeps the three-part
\* reading of the log.
LEMMA HoldAppended ==
    ASSUME NEW S, NEW d \in Seq(S), NEW c \in Seq(S), NEW l \in Seq(S), NEW e \in S,
           d \o c \o <<>> = l
    PROVE  d \o c \o <<e>> = Append(l, e)
  BY ConcatProperties, AppendProperties, EmptySeq

\* Moving the held entry into the channel.
LEMMA ChannelSend ==
    ASSUME NEW S, NEW d \in Seq(S), NEW c \in Seq(S), NEW h \in Seq(S)
    PROVE  /\ d \o (c \o h) \o <<>> = d \o c \o h
           /\ c \o h \in Seq(S)
           /\ Len(c \o h) = Len(c) + Len(h)
  BY ConcatProperties, EmptySeq

\* Moving the first entry of the channel to the consumer.
LEMMA ChannelReceive ==
    ASSUME NEW S, NEW d \in Seq(S), NEW c \in Seq(S), NEW h \in Seq(S), c # <<>>
    PROVE  /\ Append(d, Head(c)) \o Tail(c) \o h = d \o c \o h
           /\ Append(d, Head(c)) \in Seq(S)
           /\ Tail(c) \in Seq(S)
  BY HeadTailProperties, AppendProperties, ConcatProperties

\* The first entry of the channel is the next one of the log to be delivered.
LEMMA ChannelHead ==
    ASSUME NEW S, NEW d \in Seq(S), NEW c \in Seq(S), NEW h \in Seq(S), c # <<>>
    PROVE  /\ Head(c) = (d \o c \o h)[Len(d) + 1]
           /\ Len(d) < Len(d \o c \o h)
           /\ Len(Tail(c)) = Len(c) - 1
           /\ Len(c) \in Nat
  BY LenProperties, EmptySeq, HeadTailProperties, ConcatProperties

-----------------------------------------------------------------------------
\* A new orderer (NewGlobalOrdererWithLimit) satisfies the invariant.
LEMMA InitIInv == Init => IInv
  <1> SUFFICES ASSUME Init PROVE IInv OBVIOUS
  <1> USE OrdererConstants
  <1>a. <<>> \in Seq(Entries) BY EmptySeq
  <1>1. TypeOK BY <1>a DEF Init, TypeOK
  <1>2. SendingIsHeld /\ ChannelBounded BY DEF Init, SendingIsHeld, ChannelBounded
  <1>3. PendingFinite /\ PendingAhead
    BY FS_EmptySet DEF Init, PendingFinite, PendingAhead
  <1>4. LogFollowsRanks BY DEF Init, LogFollowsRanks
  <1>5. DeliveredInOrder BY DEF Init, DeliveredInOrder
  <1>6. OneBarrier BY DEF Init, OneBarrier
  <1> QED BY <1>1, <1>2, <1>3, <1>4, <1>5, <1>6 DEF IInv

\* onInput touches the pending map and two counters only, and keeps the map
\* within its capacity, one output per rank, all ranks undecided.
LEMMA OnInputKeepsPending ==
    ASSUME IInv, NEW out \in Outputs, onInput(out), nextRank' = nextRank
    PROVE  /\ pending' \subseteq Outputs
           /\ late' \in Nat /\ dropped' \in Nat
           /\ PendingFinite' /\ PendingAhead'
  <1> USE OutputFields, OrdererConstants
  <1>0. /\ TypeOK /\ PendingFinite /\ PendingAhead
        /\ Cardinality(pending) \in Nat
    BY FS_CardinalityType DEF IInv, PendingFinite
  <1>1. CASE Late(out) \/ Ignored(out)
    BY <1>0, <1>1 DEF Late, Ignored, TypeOK, PendingFinite, PendingAhead
  <1>2. CASE Stored(out)
    <2>1. /\ IsFiniteSet(pending')
          /\ Cardinality(pending') = Cardinality(pending) + 1
      BY <1>0, <1>2, FS_AddElement DEF Stored, Acceptable, PendingFinite
    <2> QED
      BY <1>0, <1>2, <2>1 DEF Stored, Acceptable, TypeOK, PendingFinite, PendingAhead
  <1>3. CASE Evicting(out)
    <2>1. PICK top \in pending :
             /\ \A p \in pending : p.rank <= top.rank
             /\ pending' = IF out.rank < top.rank
                           THEN (pending \ {top}) \cup {out} ELSE pending
      BY <1>3 DEF Evicting
    <2>2. CASE out.rank < top.rank
      <3>1. /\ IsFiniteSet(pending \ {top})
            /\ Cardinality(pending \ {top}) = Cardinality(pending) - 1
        BY <1>0, FS_RemoveElement DEF PendingFinite
      <3>2. out \notin pending
        BY <1>3 DEF Evicting, Acceptable
      <3> DEFINE rest == pending \ {top}
      <3>a. /\ out \notin rest /\ IsFiniteSet(rest)
        BY <3>1, <3>2
      <3>b. /\ IsFiniteSet(rest \cup {out})
            /\ Cardinality(rest \cup {out}) = Cardinality(rest) + 1
        <4> HIDE DEF rest
        <4> QED BY <3>a, FS_AddElement
      <3>c. pending' = rest \cup {out}
        BY <2>1, <2>2
      <3>3. /\ IsFiniteSet(pending')
            /\ Cardinality(pending') = Cardinality(pending)
        BY <1>0, <3>1, <3>b, <3>c
      <3> QED
        BY <1>0, <1>3, <2>1, <2>2, <3>3
           DEF Evicting, Acceptable, TypeOK, PendingFinite, PendingAhead
    <2>3. CASE ~(out.rank < top.rank)
      BY <1>0, <1>3, <2>1, <2>3 DEF Evicting, TypeOK, PendingFinite, PendingAhead
    <2> QED BY <2>2, <2>3
  <1> QED BY <1>1, <1>2, <1>3 DEF onInput

\* Deciding the next rank with an entry that carries it.
LEMMA AdvanceKeeps ==
    ASSUME IInv, pc = "flush", NEW e \in Entries, e.rank = nextRank,
           validRankMapping(e), Advance(e),
           pending' \subseteq pending, \A p \in pending' : p.rank # nextRank,
           emitted' \in Nat, nilled' \in Nat
    PROVE  IInv'
  <1> USE OrdererConstants
  <1>0. TypeOK /\ sending = <<>> /\ LogFollowsRanks /\ DeliveredInOrder /\ OneBarrier
    BY DEF IInv, SendingIsHeld
  <1>1. log \in Seq(Entries) /\ log' = Append(log, e) /\ nextRank' = nextRank + 1
    BY <1>0 DEF TypeOK, Advance
  <1>2. /\ log' \in Seq(Entries)
        /\ Len(log') = Len(log) + 1
        /\ log'[Len(log) + 1] = e
        /\ \A i \in 1..Len(log) : log'[i] = log[i]
    BY <1>1, AppendProperties
  <1>3. TypeOK' BY <1>0, <1>1, <1>2 DEF TypeOK, Advance
  <1>4. SendingIsHeld' /\ ChannelBounded' BY DEF IInv, SendingIsHeld, ChannelBounded, Advance
  <1>5. LogFollowsRanks'
    <2>1. Len(log) \in Nat BY <1>1, LenProperties
    <2>2. nextRank' = numInstances + Len(log')
      BY <1>0, <1>1, <1>2, <2>1 DEF LogFollowsRanks
    <2>3. ASSUME NEW i \in 1..Len(log')
          PROVE  log'[i].rank = numInstances + i - 1 /\ validRankMapping(log'[i])
      <3>1. CASE i \in 1..Len(log) BY <1>0, <1>2, <3>1 DEF LogFollowsRanks
      <3>2. CASE i = Len(log) + 1 BY <1>0, <1>2, <2>1, <3>2 DEF LogFollowsRanks
      <3> QED BY <1>2, <2>1, <3>1, <3>2
    <2> QED BY <2>2, <2>3 DEF LogFollowsRanks, validRankMapping
  <1>6. DeliveredInOrder'
    BY <1>0, <1>1, HoldAppended DEF DeliveredInOrder, Advance, TypeOK
  <1>7. PendingFinite' /\ PendingAhead'
    <2>1. /\ IsFiniteSet(pending') /\ Cardinality(pending') <= Cardinality(pending)
          /\ Cardinality(pending) \in Nat /\ Cardinality(pending') \in Nat
      BY FS_Subset, FS_CardinalityType DEF IInv, PendingFinite
    <2>2. \A p \in pending : p.rank \in Nat
      BY <1>0, OutputFields DEF TypeOK
    <2>3. PendingAhead /\ nextRank \in Nat BY <1>0 DEF IInv, TypeOK
    <2>4. Cardinality(pending') <= maxPending BY <2>1, <2>3 DEF PendingAhead
    <2>5. ASSUME NEW p \in pending' PROVE p.rank >= nextRank'
      BY <1>1, <2>2, <2>3, <2>5 DEF PendingAhead
    <2>6. \A p \in pending' : validRankMapping(p) BY <2>3 DEF PendingAhead
    <2>7. \A p, q \in pending' : p.rank = q.rank => p = q BY <2>3 DEF PendingAhead
    <2> QED BY <2>1, <2>4, <2>5, <2>6, <2>7 DEF PendingFinite, PendingAhead, validRankMapping
  <1>8. OneBarrier' BY <1>0, <1>1 DEF OneBarrier, Advance
  <1> QED BY <1>3, <1>4, <1>5, <1>6, <1>7, <1>8 DEF IInv

\* Every step of the goroutine, the lanes and the consumer keeps the invariant.
LEMMA NextIInv == IInv /\ [Next]_vars => IInv'
  <1> SUFFICES ASSUME IInv, [Next]_vars PROVE IInv' OBVIOUS
  <1> USE OrdererConstants
  <1>0. TypeOK /\ SendingIsHeld /\ ChannelBounded /\ PendingFinite /\ LogFollowsRanks
        /\ DeliveredInOrder /\ PendingAhead /\ OneBarrier
    BY DEF IInv
  <1>1. ASSUME NEW out \in Outputs, Input(out) PROVE IInv'
    <2>1. /\ pending' \subseteq Outputs /\ late' \in Nat /\ dropped' \in Nat
          /\ PendingFinite' /\ PendingAhead'
      BY <1>1, OnInputKeepsPending DEF Input
    <2>2. TypeOK' BY <1>0, <1>1, <2>1 DEF TypeOK, Input
    <2>3. SendingIsHeld' /\ ChannelBounded' /\ LogFollowsRanks' /\ DeliveredInOrder' /\ OneBarrier'
      BY <1>0, <1>1 DEF Input, SendingIsHeld, ChannelBounded, LogFollowsRanks, DeliveredInOrder, OneBarrier,
         validRankMapping
    <2> QED BY <2>1, <2>2, <2>3 DEF IInv
  <1>2. CASE Tick \/ Shutdown \/ BarrierRunning \/ Stop
    <2>1. /\ UNCHANGED <<nextRank, pending, missingSince, log, emitted, nilled, late, dropped,
                         sending, outChan, delivered, inputs>>
          /\ pc' \in {"select", "flush", "closed"} \/ pc' = pc
          /\ pc = "send" => pc' = "send"
          /\ stopCh' = stopCh \/ stopCh' = TRUE
      BY <1>2 DEF Tick, Shutdown, BarrierRunning, Stop, stats
    <2>2. TypeOK' /\ SendingIsHeld' /\ ChannelBounded'
      BY <1>0, <2>1 DEF TypeOK, SendingIsHeld, ChannelBounded
    <2>3. PendingFinite' /\ LogFollowsRanks' /\ DeliveredInOrder' /\ PendingAhead' /\ OneBarrier'
      BY <1>0, <2>1 DEF PendingFinite, LogFollowsRanks, DeliveredInOrder, PendingAhead, OneBarrier,
         validRankMapping
    <2> QED BY <2>2, <2>3 DEF IInv
  <1>3. CASE ArmBarrier
    BY <1>0, <1>3 DEF ArmBarrier, stats, IInv, TypeOK, SendingIsHeld,
       ChannelBounded, PendingFinite, LogFollowsRanks, DeliveredInOrder, PendingAhead, OneBarrier, validRankMapping
  <1>4. CASE EmitBlock
    <2>1. PICK v \in pending : v.rank = nextRank /\ pending' = pending \ {v} /\ Advance(v)
      BY <1>4 DEF EmitBlock
    <2>2. v \in Entries /\ validRankMapping(v) /\ \A p \in pending' : p.rank # nextRank
      BY <1>0, <2>1 DEF TypeOK, Entries, PendingAhead
    <2>3. emitted' \in Nat /\ nilled' \in Nat BY <1>0, <1>4 DEF EmitBlock, TypeOK
    <2>4. pc = "flush" BY <1>4 DEF EmitBlock
    <2> QED BY <2>1, <2>2, <2>3, <2>4, AdvanceKeeps
  <1>5. CASE EmitNil
    <2>1. nextRank \in 0..MaxRank /\ Advance(NilEntry(nextRank)) /\ pc = "flush"
      BY <1>0, <1>5 DEF EmitNil, TypeOK
    <2>2. NilEntry(nextRank) \in Entries BY <2>1 DEF Entries
    <2>3. NilEntry(nextRank).rank = nextRank /\ validRankMapping(NilEntry(nextRank))
      BY <2>1, NilEntryMapping
    <2>4. /\ pending' \subseteq pending /\ \A p \in pending' : p.rank # nextRank
          /\ emitted' \in Nat /\ nilled' \in Nat
      BY <1>0, <1>5 DEF EmitNil, Missing, TypeOK
    <2> QED BY <2>1, <2>2, <2>3, <2>4, AdvanceKeeps
  <1>6. CASE Send
    <2>1. /\ delivered \o (outChan \o sending) \o <<>> = delivered \o outChan \o sending
          /\ outChan \o sending \in Seq(Entries)
          /\ Len(outChan \o sending) = Len(outChan) + Len(sending)
      BY <1>0, ChannelSend DEF TypeOK
    <2>2. TypeOK' BY <1>0, <1>6, <2>1 DEF TypeOK, Send, stats
    <2>3. SendingIsHeld' /\ ChannelBounded'
      <3>1. Len(sending) = 1 /\ Len(outChan) \in Nat
        BY <1>0, <1>6, LenProperties DEF Send, SendingIsHeld, TypeOK
      <3> QED BY <1>6, <2>1, <3>1 DEF Send, SendingIsHeld, ChannelBounded
    <2>4. DeliveredInOrder' BY <1>0, <1>6, <2>1 DEF Send, DeliveredInOrder
    <2>5. PendingFinite' /\ LogFollowsRanks' /\ PendingAhead' /\ OneBarrier'
      BY <1>0, <1>6 DEF Send, PendingFinite, LogFollowsRanks, PendingAhead, OneBarrier, validRankMapping
    <2> QED BY <2>2, <2>3, <2>4, <2>5 DEF IInv
  <1>7. CASE Receive
    <2>1. /\ Append(delivered, Head(outChan)) \o Tail(outChan) \o sending
                = delivered \o outChan \o sending
          /\ Append(delivered, Head(outChan)) \in Seq(Entries)
          /\ Tail(outChan) \in Seq(Entries)
      <3>1. /\ delivered \in Seq(Entries) /\ outChan \in Seq(Entries)
            /\ sending \in Seq(Entries) /\ outChan # <<>>
        BY <1>0, <1>7 DEF TypeOK, Receive
      <3> QED BY <3>1, ChannelReceive, Zenon
    <2>2. TypeOK' BY <1>0, <1>7, <2>1 DEF TypeOK, Receive, stats
    <2>3. DeliveredInOrder' BY <1>0, <1>7, <2>1 DEF Receive, DeliveredInOrder
    <2>5. ChannelBounded'
      <3>1. outChan \in Seq(Entries) /\ outChan # <<>> BY <1>0, <1>7 DEF TypeOK, Receive
      <3>2. Len(Tail(outChan)) = Len(outChan) - 1 /\ Len(outChan) \in Nat
        BY <3>1, HeadTailProperties, LenProperties
      <3> QED BY <1>0, <1>7, <3>2 DEF Receive, ChannelBounded
    <2>4. SendingIsHeld' /\ PendingFinite' /\ LogFollowsRanks' /\ PendingAhead' /\ OneBarrier'
      BY <1>0, <1>7 DEF Receive, SendingIsHeld, PendingFinite, LogFollowsRanks, PendingAhead,
         OneBarrier, validRankMapping
    <2> QED BY <2>2, <2>3, <2>4, <2>5 DEF IInv
  <1>8. CASE UNCHANGED vars
    BY <1>0, <1>8 DEF vars, stats, IInv, TypeOK, SendingIsHeld,
       ChannelBounded, PendingFinite, LogFollowsRanks, DeliveredInOrder, PendingAhead, OneBarrier, validRankMapping
  <1> QED BY <1>1, <1>2, <1>3, <1>4, <1>5, <1>6, <1>7, <1>8 DEF Next, Run

\* The inductive invariant holds in every reachable state of the orderer.
THEOREM IInvHolds == Spec => []IInv
  BY InitIInv, NextIInv, PTL DEF Spec

\* Type correctness of the orderer for every number of lanes and capacities.
THEOREM OrdererTypeOK == Spec => []TypeOK
  <1>1. IInv => TypeOK BY DEF IInv
  <1> QED BY <1>1, IInvHolds, PTL

\* nextToEmit decides the ranks one after the other, whatever the lanes send.
THEOREM OrdererLogFollowsRanks == Spec => []LogFollowsRanks
  <1>1. IInv => LogFollowsRanks BY DEF IInv
  <1> QED BY <1>1, IInvHolds, PTL

\* flush neither loses, repeats nor reorders an entry on its way to the consumer.
THEOREM OrdererDeliversInOrder == Spec => []DeliveredInOrder
  <1>1. IInv => DeliveredInOrder BY DEF IInv
  <1> QED BY <1>1, IInvHolds, PTL

\* The pending map stays within its capacity and holds undecided ranks only.
THEOREM OrdererPendingAhead == Spec => []PendingAhead
  <1>1. IInv => PendingAhead BY DEF IInv
  <1> QED BY <1>1, IInvHolds, PTL

\* At most one barrier timer is armed, that of the next rank.
THEOREM OrdererOneBarrier == Spec => []OneBarrier
  <1>1. IInv => OneBarrier BY DEF IInv
  <1> QED BY <1>1, IInvHolds, PTL

-----------------------------------------------------------------------------
(* Refinement *)

\* A new orderer is an empty rank log.
LEMMA InitRefines == Init => RL!Init
  BY DEF Init, RL!Init

\* A step that appends a permitted entry to the log decides the next rank.
LEMMA AdvanceDecides ==
    ASSUME IInv, pc = "flush", NEW e \in Choices(nextRank), Advance(e)
    PROVE  RL!Decide
  <1> USE OrdererConstants
  <1>1. nextRank = numInstances + Len(log) BY DEF IInv, LogFollowsRanks
  <1>2. /\ delivered \in Seq(Entries) /\ outChan \in Seq(Entries)
        /\ log = delivered \o outChan \o sending /\ sending = <<>>
        /\ Len(outChan) <= OutCap
    BY DEF IInv, TypeOK, DeliveredInOrder, SendingIsHeld, ChannelBounded
  <1>3. /\ Len(log) = Len(delivered) + Len(outChan)
        /\ Len(delivered) \in Nat /\ Len(outChan) \in Nat
    BY <1>2, ConcatProperties, ConcatEmptySeq, LenProperties
  <1>4. Len(log) - Len(delivered) < OutCap + 1 BY <1>2, <1>3
  <1> QED BY <1>1, <1>4 DEF RL!Decide, Advance

\* Every step of the orderer decides a rank, delivers one, or leaves the rank log
\* unchanged.
LEMMA StepRefines == IInv /\ [Next]_vars => [RL!Next]_(RL!rlvars)
  <1> SUFFICES ASSUME IInv, [Next]_vars PROVE RL!Next \/ UNCHANGED <<log, delivered>>
    BY DEF RL!rlvars
  <1> USE OrdererConstants
  <1>1. CASE (\E out \in Outputs : Input(out)) \/ Tick \/ Shutdown \/ BarrierRunning
             \/ ArmBarrier \/ Stop \/ Send \/ UNCHANGED vars
    BY <1>1 DEF Input, Tick, Shutdown, BarrierRunning, ArmBarrier, Stop, Send, vars
  <1>2. CASE EmitBlock
    <2>1. PICK v \in pending : v.rank = nextRank /\ Advance(v) BY <1>2 DEF EmitBlock
    <2>2. v \in Choices(nextRank) BY <2>1 DEF Choices, IInv, TypeOK, PendingAhead
    <2>3. pc = "flush" BY <1>2 DEF EmitBlock
    <2> QED BY <2>1, <2>2, <2>3, AdvanceDecides DEF RL!Next
  <1>3. CASE EmitNil
    <2>1. NilEntry(nextRank) \in Choices(nextRank) BY DEF Choices
    <2> QED BY <1>3, <2>1, AdvanceDecides DEF RL!Next, EmitNil
  <1>4. CASE Receive
    <2>1. /\ delivered \in Seq(Entries) /\ outChan \in Seq(Entries)
          /\ sending \in Seq(Entries) /\ outChan # <<>>
      BY <1>4 DEF IInv, TypeOK, Receive
    <2>2. /\ Head(outChan) = (delivered \o outChan \o sending)[Len(delivered) + 1]
          /\ Len(delivered) < Len(delivered \o outChan \o sending)
      BY <2>1, ChannelHead, Zenon
    <2>3. log = delivered \o outChan \o sending BY DEF IInv, DeliveredInOrder
    <2>4. Head(outChan) = log[Len(delivered) + 1] BY <2>2, <2>3
    <2>5. Len(delivered) < Len(log) BY <2>2, <2>3
    <2> QED BY <1>4, <2>4, <2>5 DEF Receive, RL!Deliver, RL!Next
  <1> QED BY <1>1, <1>2, <1>3, <1>4 DEF Next, Run

\* Every behaviour of the orderer, seen through log and delivered, is one of
\* the rank log: one final decision per rank, delivered in order.
THEOREM OrdererRefinesRankLog == Spec => ImplementsRankLog
  BY InitRefines, StepRefines, IInvHolds, PTL DEF Spec, RL!Spec, ImplementsRankLog

-----------------------------------------------------------------------------
\* A pending block is lost only to a lower rank in a full map, and is counted;
\* a rank whose block is pending is decided with that block, never nil.
THEOREM OrdererKeepsPending == Spec => PendingIsKept
  <1> DEFINE Kept == \A p \in pending :
                /\ p \notin pending' => GoesOrMakesRoom(p)
                /\ p.rank = nextRank /\ log' # log => log' = Append(log, p)
  <1>1. ASSUME IInv, [Next]_vars PROVE Kept \/ UNCHANGED vars
    <2>1. CASE EmitBlock
      <3>1. PICK v \in pending : /\ v.rank = nextRank
                                /\ pending' = pending \ {v}
                                /\ log' = Append(log, v)
        BY <2>1 DEF EmitBlock, Advance
      <3>2. \A p \in pending : p.rank = v.rank => p = v
        BY <1>1 DEF IInv, PendingAhead
      <3> QED BY <3>1, <3>2 DEF GoesOrMakesRoom
    <2>2. ASSUME NEW out \in Outputs, Input(out), Evicting(out) PROVE Kept
      <3>1. PICK top \in pending :
               /\ \A p \in pending : p.rank <= top.rank
               /\ pending' = IF out.rank < top.rank
                             THEN (pending \ {top}) \cup {out} ELSE pending
        BY <2>2 DEF Evicting
      <3>2. out \notin pending /\ out.rank >= nextRank /\ dropped' = dropped + 1
        BY <2>2 DEF Evicting, Acceptable
      <3>3. out.rank \in Nat /\ top.rank \in Nat /\ nextRank \in Nat
        BY <1>1, OutputFields DEF IInv, TypeOK
      <3>4. log' = log
        BY <2>2 DEF Input
      <3> QED BY <3>1, <3>2, <3>3, <3>4 DEF GoesOrMakesRoom
    <2>3. ASSUME NEW out \in Outputs, Input(out), ~Evicting(out) PROVE Kept
      BY <2>3 DEF Input, onInput, Late, Ignored, Stored
    <2>4. CASE EmitNil
      <3>1. pending' = pending /\ \A p \in pending : p.rank # nextRank
        BY <2>4 DEF EmitNil, Missing
      <3> QED BY <3>1
    <2>5. CASE Tick \/ Shutdown \/ BarrierRunning \/ ArmBarrier \/ Stop \/ Send \/ Receive
      BY <2>5 DEF Tick, Shutdown, BarrierRunning, ArmBarrier, Stop, Send, Receive
    <2> QED BY <1>1, <2>1, <2>2, <2>3, <2>4, <2>5 DEF Next, Run
  <1> QED BY <1>1, IInvHolds, PTL DEF Spec, PendingIsKept
=============================================================================
