--------------------------- MODULE GlobalOrderer ---------------------------
(***************************************************************************)
(* consensus/hotstuff/orderer.go: the goroutine that merges the outputs of *)
(* the m parallel consensus lanes into one log ordered by rank.            *)
(*                                                                         *)
(* run() is one goroutine around a select: an output arrives from a lane   *)
(* (onInput, then flush), the ticker fires (flush), or stopCh closes.      *)
(* flush() calls nextToEmit() and sends its result on outChan until there  *)
(* is nothing to emit; a full outChan blocks the goroutine.  pc says where *)
(* in that loop the goroutine is.  Wall-clock time is abstracted: once the *)
(* barrier timer of the next rank is armed, nextToEmit may find it elapsed *)
(* or not.                                                                 *)
(***************************************************************************)
EXTENDS Naturals, Sequences, FiniteSets

CONSTANTS
    numInstances,   \* m, the number of lanes
    maxPending,     \* capacity of the pending map
    OutCap,         \* capacity of outChan (4096 in the code)
    Blocks,         \* block identities
    Nil,            \* the content of a nil entry
    Outputs,        \* the InstanceOutputs lanes may send
    MaxRank,        \* bound: no rank above it is nil-filled
    MaxInputs       \* bound: how many outputs the lanes send

ASSUME OrdererConstants ==
    /\ numInstances \in Nat \ {0}
    /\ maxPending \in Nat \ {0}
    /\ OutCap \in Nat \ {0}
    /\ MaxRank \in Nat
    /\ MaxInputs \in Nat
    /\ Nil \notin Blocks
    /\ Outputs \subseteq [instance : Nat, height : Nat, rank : Nat, block : Blocks]

VARIABLES
    nextRank,       \* o.nextRank
    pending,        \* o.pending: the map's values, keyed by their rank field
    missingSince,   \* DOMAIN o.missingSince: ranks whose barrier timer runs
    log,            \* o.log
    emitted,        \* o.emitted
    nilled,         \* o.nilled
    late,           \* o.late
    dropped,        \* o.dropped
    pc,             \* where run() is
    sending,        \* <<entry>> while `o.outChan <- next` blocks, else <<>>
    outChan,        \* contents of o.outChan
    stopCh,         \* TRUE once Stop() closed o.stopCh
    delivered,      \* everything the consumer has read from outChan
    inputs          \* number of outputs taken from the lanes so far

stats == <<emitted, nilled, late, dropped>>
vars == <<nextRank, pending, missingSince, log, stats, pc, sending, outChan,
          stopCh, delivered, inputs>>

\* The entry nextToEmit makes up for a rank no block arrived at in time.
NilEntry(r) == [instance |-> r % numInstances, height |-> r \div numInstances,
                rank |-> r, block |-> Nil]

validRankMapping(out) ==
    /\ out.instance = out.rank % numInstances
    /\ out.height = out.rank \div numInstances

Init ==
    /\ nextRank = numInstances
    /\ pending = {}
    /\ missingSince = {}
    /\ log = <<>>
    /\ emitted = 0 /\ nilled = 0 /\ late = 0 /\ dropped = 0
    /\ pc = "select"
    /\ sending = <<>>
    /\ outChan = <<>>
    /\ stopCh = FALSE
    /\ delivered = <<>>
    /\ inputs = 0

-----------------------------------------------------------------------------
(* onInput *)

Late(out) ==
    /\ out.rank < nextRank
    /\ late' = late + 1
    /\ UNCHANGED <<pending, dropped>>

\* A mapping error and an occupied rank both return without a trace.
Ignored(out) ==
    /\ out.rank >= nextRank
    /\ \/ ~validRankMapping(out)
       \/ \E p \in pending : p.rank = out.rank
    /\ UNCHANGED <<pending, late, dropped>>

Acceptable(out) ==
    /\ out.rank >= nextRank
    /\ validRankMapping(out)
    /\ \A p \in pending : p.rank # out.rank

\* Mutants: the entry loses its block; the capacity is not looked at.
StoredEmpty(out) ==
    /\ Acceptable(out)
    /\ Cardinality(pending) < maxPending
    /\ pending' = pending \cup {NilEntry(out.rank)}
    /\ UNCHANGED <<late, dropped>>

StoredUnbounded(out) ==
    /\ Acceptable(out)
    /\ pending' = pending \cup {out}
    /\ UNCHANGED <<late, dropped>>

Stored(out) ==
    /\ Acceptable(out)
    /\ Cardinality(pending) < maxPending
    /\ pending' = pending \cup {out}
    /\ UNCHANGED <<late, dropped>>

\* The map is full: the highest rank makes room for a lower one, or the new
\* output is itself the highest and is dropped.
Evicting(out) ==
    /\ Acceptable(out)
    /\ Cardinality(pending) >= maxPending
    /\ \E top \in pending :
          /\ \A p \in pending : p.rank <= top.rank
          /\ pending' = IF out.rank < top.rank
                        THEN (pending \ {top}) \cup {out}
                        ELSE pending
    /\ dropped' = dropped + 1
    /\ UNCHANGED late

onInput(out) == Late(out) \/ Ignored(out) \/ Stored(out) \/ Evicting(out)

-----------------------------------------------------------------------------
(* The goroutine *)

\* case out := <-in
Input(out) ==
    /\ pc = "select"
    /\ inputs < MaxInputs
    /\ onInput(out)
    /\ inputs' = inputs + 1
    /\ pc' = "flush"
    /\ UNCHANGED <<nextRank, missingSince, log, emitted, nilled, sending,
                   outChan, stopCh, delivered>>

\* case <-ticker.C
Tick ==
    /\ pc = "select"
    /\ pc' = "flush"
    /\ UNCHANGED <<nextRank, pending, missingSince, log, stats, sending,
                   outChan, stopCh, delivered, inputs>>

\* case <-o.stopCh
Shutdown ==
    /\ pc = "select"
    /\ stopCh
    /\ pc' = "closed"
    /\ UNCHANGED <<nextRank, pending, missingSince, log, stats, sending,
                   outChan, stopCh, delivered, inputs>>

\* Mutant: the barrier timer of a decided rank is kept.
AdvanceKeepingTimer(entry) ==
    /\ log' = Append(log, entry)
    /\ nextRank' = nextRank + 1
    /\ sending' = <<entry>>
    /\ pc' = "send"
    /\ UNCHANGED <<missingSince, late, dropped, outChan, stopCh, delivered, inputs>>

Advance(entry) ==
    /\ missingSince' = missingSince \ {nextRank}
    /\ log' = Append(log, entry)
    /\ nextRank' = nextRank + 1
    /\ sending' = <<entry>>
    /\ pc' = "send"
    /\ UNCHANGED <<late, dropped, outChan, stopCh, delivered, inputs>>

EmitBlock ==
    /\ pc = "flush"
    /\ \E v \in pending :
          /\ v.rank = nextRank
          /\ pending' = pending \ {v}
          /\ Advance(v)
    /\ emitted' = emitted + 1
    /\ UNCHANGED nilled

Missing == \A p \in pending : p.rank # nextRank

\* Mutant: the time the rank was found missing is not recorded.
ForgetBarrier ==
    /\ pc = "flush"
    /\ Missing
    /\ nextRank \notin missingSince
    /\ pc' = "select"
    /\ UNCHANGED <<nextRank, pending, missingSince, log, stats, sending, outChan,
                   stopCh, delivered, inputs>>

\* First time the rank is found missing: arm its timer and go back to select.
ArmBarrier ==
    /\ pc = "flush"
    /\ Missing
    /\ nextRank \notin missingSince
    /\ missingSince' = missingSince \cup {nextRank}
    /\ pc' = "select"
    /\ UNCHANGED <<nextRank, pending, log, stats, sending, outChan, stopCh,
                   delivered, inputs>>

\* time.Since(since) < o.barTimeout
BarrierRunning ==
    /\ pc = "flush"
    /\ Missing
    /\ nextRank \in missingSince
    /\ pc' = "select"
    /\ UNCHANGED <<nextRank, pending, missingSince, log, stats, sending,
                   outChan, stopCh, delivered, inputs>>

\* Mutants: the nil entry is made for the rank after; it is not counted.
EmitNilAhead ==
    /\ pc = "flush"
    /\ Missing
    /\ nextRank \in missingSince
    /\ nextRank < MaxRank
    /\ Advance(NilEntry(nextRank + 1))
    /\ nilled' = nilled + 1
    /\ UNCHANGED <<pending, emitted>>

\* Mutant: the barrier is looked at before the pending map.
EmitNilAnyway ==
    /\ pc = "flush"
    /\ nextRank \in missingSince
    /\ nextRank <= MaxRank
    /\ pending' = {p \in pending : p.rank # nextRank}
    /\ Advance(NilEntry(nextRank))
    /\ nilled' = nilled + 1
    /\ UNCHANGED emitted

\* The barrier elapsed: the rank is decided to be nil.
EmitNil ==
    /\ pc = "flush"
    /\ Missing
    /\ nextRank \in missingSince
    /\ nextRank <= MaxRank
    /\ Advance(NilEntry(nextRank))
    /\ nilled' = nilled + 1
    /\ UNCHANGED <<pending, emitted>>

\* Mutants: a full channel loses the entry; the channel holds one more.
SendOrDrop ==
    /\ pc = "send"
    /\ outChan' = IF Len(outChan) < OutCap THEN outChan \o sending ELSE outChan
    /\ sending' = <<>>
    /\ pc' = "flush"
    /\ UNCHANGED <<nextRank, pending, missingSince, log, stats, stopCh,
                   delivered, inputs>>

SendBeyond ==
    /\ pc = "send"
    /\ Len(outChan) <= OutCap
    /\ outChan' = outChan \o sending
    /\ sending' = <<>>
    /\ pc' = "flush"
    /\ UNCHANGED <<nextRank, pending, missingSince, log, stats, stopCh,
                   delivered, inputs>>

\* o.outChan <- next
Send ==
    /\ pc = "send"
    /\ Len(outChan) < OutCap
    /\ outChan' = outChan \o sending
    /\ sending' = <<>>
    /\ pc' = "flush"
    /\ UNCHANGED <<nextRank, pending, missingSince, log, stats, stopCh,
                   delivered, inputs>>

-----------------------------------------------------------------------------
(* Its environment *)

\* The goroutine of main.go that ranges over the ordered channel.
Receive ==
    /\ outChan # <<>>
    /\ delivered' = Append(delivered, Head(outChan))
    /\ outChan' = Tail(outChan)
    /\ UNCHANGED <<nextRank, pending, missingSince, log, stats, pc, sending,
                   stopCh, inputs>>

Stop ==
    /\ ~stopCh
    /\ stopCh' = TRUE
    /\ UNCHANGED <<nextRank, pending, missingSince, log, stats, pc, sending,
                   outChan, delivered, inputs>>

Run == Tick \/ Shutdown \/ EmitBlock \/ ArmBarrier \/ BarrierRunning \/ EmitNil \/ Send

Next == (\E out \in Outputs : Input(out)) \/ Run \/ Receive \/ Stop

Spec == Init /\ [][Next]_vars

\* Go keeps scheduling the goroutine and the ticker keeps firing; the consumer
\* loop of main.go reads again after each entry; wall-clock time passes, so an
\* armed barrier that is polled again and again is eventually found elapsed.
FairSpec == Spec /\ WF_vars(Run) /\ WF_vars(Receive) /\ SF_vars(EmitNil)

-----------------------------------------------------------------------------
(* Properties *)

Entries == Outputs \cup {NilEntry(r) : r \in 0..MaxRank}

TypeOK ==
    /\ nextRank \in Nat
    /\ pending \subseteq Outputs
    /\ missingSince \subseteq Nat
    /\ log \in Seq(Entries)
    /\ emitted \in Nat /\ nilled \in Nat /\ late \in Nat /\ dropped \in Nat
    /\ pc \in {"select", "flush", "send", "closed"}
    /\ sending \in Seq(Entries)
    /\ outChan \in Seq(Entries)
    /\ stopCh \in BOOLEAN
    /\ delivered \in Seq(Entries)
    /\ inputs \in Nat

\* Position i of the log holds the decision of the i-th rank, its lane and
\* height are the ones that rank stands for, and nextRank is the first rank
\* not decided: nextToEmit never skips, repeats or swaps a rank.
LogFollowsRanks ==
    /\ nextRank = numInstances + Len(log)
    /\ \A i \in 1..Len(log) :
          /\ log[i].rank = numInstances + i - 1
          /\ validRankMapping(log[i])

\* What the consumer has read, what waits in outChan and what the goroutine
\* is about to send are together the log: flush loses, repeats and reorders
\* nothing across the channel.
DeliveredInOrder == delivered \o outChan \o sending = log

\* The pending map holds at most maxPending outputs, one per rank, all of them
\* for ranks still to be decided: none is stranded behind nextRank, where it
\* would hold its slot for ever.
PendingAhead ==
    /\ Cardinality(pending) <= maxPending
    /\ \A p \in pending : p.rank >= nextRank /\ validRankMapping(p)
    /\ \A p, q \in pending : p.rank = q.rank => p = q

\* At most one barrier timer exists, the one of the rank the log waits for, so
\* missingSince does not grow as ranks are decided.
OneBarrier == missingSince \subseteq {nextRank}

\* A block that leaves the pending map is the one just decided, or made room for
\* a lower rank: then it is counted as dropped, and was not the block the log
\* waits for.
GoesOrMakesRoom(p) ==
    \/ log' = Append(log, p)
    \/ /\ dropped' = dropped + 1
       /\ p.rank > nextRank
       /\ \E q \in pending' \ pending : q.rank < p.rank

\* A pending block leaves the map only into the log or for room, and a step that
\* decides a rank whose block is pending decides that block, never nil.
PendingIsKept ==
    [][\A p \in pending :
          /\ p \notin pending' => GoesOrMakesRoom(p)
          /\ p.rank = nextRank /\ log' # log => log' = Append(log, p)]_vars

\* What may be decided at a rank.
Choices(r) == {NilEntry(r)} \cup {out \in Outputs : out.rank = r /\ validRankMapping(out)}

RL == INSTANCE RankLog WITH decided <- log,
                            FirstRank <- numInstances,
                            Window <- OutCap + 1

\* The orderer implements the rank log: outChan, the entry in flight and the
\* pending map are invisible to the consumer, who sees one decision per rank.
ImplementsRankLog == RL!Spec

\* Whatever the lanes do, every rank up to the bound is decided and reaches the
\* consumer, unless the orderer is stopped: a silent lane delays the others by
\* one barrier, it never blocks them.
EveryRankIsDelivered ==
    \A r \in numInstances..MaxRank : <>(stopCh \/ Len(delivered) > r - numInstances)
=============================================================================
