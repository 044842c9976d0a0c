---------------------------- MODULE EpochOrderer ----------------------------
(***************************************************************************)
(* The epoch orderer of the Global Beacon Chain (consensus/gbc/orderer.go) *)
(* on a node's beacon log.  It collects the commits of all instances by    *)
(* epoch and, each time a commit comes to an epoch to which all of them    *)
(* have contributed, publishes the epoch's commits in the order of their   *)
(* ranks as a checkpoint.                                                  *)
(*                                                                         *)
(* SubmitCommit holds o.mu, but the log has other writers and a lock of    *)
(* its own: the height of the checkpoint is read in one step and the       *)
(* checkpoint published in the next.  How an entry becomes certified is in *)
(* GBC.tla; here an entry of the log is committed or not.  A checkpoint    *)
(* goes into the local log by Log.Publish, which asks for no quorum.       *)
(***************************************************************************)
EXTENDS Naturals, Sequences, SequencesExt, FiniteSets

CONSTANTS
    Instances,     \* the instances that commit, numbers
    Commits,       \* their commits: [inst, height, rank, epoch]
    MaxLog         \* bound: entries of the log

ASSUME OrdererConstants ==
    /\ Instances \subseteq Nat /\ Instances # {} /\ IsFiniteSet(Instances)
    /\ Commits \subseteq [inst : Instances, height : Nat, rank : Nat, epoch : Nat]
    /\ IsFiniteSet(Commits) /\ MaxLog \in Nat

\* A lane's ranks grow with its heights (rankState).
ASSUME RanksAreDistinct ==
    \A c, d \in Commits : c.inst = d.inst /\ c.epoch = d.epoch /\ c.rank = d.rank => c = d

OrdererEpochs == {c.epoch : c \in Commits}

VARIABLES
    entries,       \* Log.entries
    epochOutputs,  \* the commits collected for each epoch
    ordererEpoch,  \* Orderer.currentEpoch
    publishing     \* the checkpoint being published, none or one

ordererVars == <<epochOutputs, ordererEpoch, publishing>>

OrdererTypeOK ==
    /\ Len(entries) <= MaxLog
    /\ epochOutputs \in [OrdererEpochs -> SUBSET Commits]
    /\ ordererEpoch \in Nat
    /\ Cardinality(publishing) <= 1

OrdererInit ==
    /\ epochOutputs = [e \in OrdererEpochs |-> {}]
    /\ ordererEpoch = 0
    /\ publishing = {}

\* Mutant: by instance first.
ByInstance(a, b) == a.inst < b.inst \/ (a.inst = b.inst /\ a.rank < b.rank)

\* The order of produceGlobalOrder.
Before(a, b) == a.rank < b.rank \/ (a.rank = b.rank /\ a.inst < b.inst)

\* The k-th commit has k - 1 before it.
produceGlobalOrder(outputs) ==
    [k \in 1..Cardinality(outputs) |->
        CHOOSE c \in outputs : Cardinality({d \in outputs : Before(d, c)}) = k - 1]

Complete(outputs) == {c.inst : c \in outputs} = Instances

\* SubmitCommit up to the height of the checkpoint.  A commit of the same
\* instance and height is dropped, also after its checkpoint was refused.
SubmitCommit(c) ==
    LET outputs == epochOutputs[c.epoch] \cup {c}
    IN  /\ publishing = {}
        /\ \A d \in epochOutputs[c.epoch] : d.inst # c.inst \/ d.height # c.height
        /\ epochOutputs' = [epochOutputs EXCEPT ![c.epoch] = outputs]
        /\ publishing' =
              IF Complete(outputs)
              THEN {[epoch |-> c.epoch, height |-> Len(entries),
                     ordered |-> produceGlobalOrder(outputs)]}
              ELSE {}
        /\ UNCHANGED <<entries, ordererEpoch>>

\* The rest of it: the epoch advances and the epochs before the last are forgotten.
publishEpochCheckpoint ==
    \E p \in publishing :
        /\ publishing' = {}
        /\ \/ /\ p.height = Len(entries) /\ Len(entries) < MaxLog
              /\ entries' = Append(entries, [kind |-> "checkpoint", epoch |-> p.epoch,
                                             ordered |-> p.ordered, committed |-> FALSE])
              /\ ordererEpoch' = IF p.epoch >= ordererEpoch THEN p.epoch + 1 ELSE ordererEpoch
              /\ epochOutputs' = [e \in OrdererEpochs |->
                                     IF e + 2 <= ordererEpoch' THEN {} ELSE epochOutputs[e]]
           \/ /\ p.height # Len(entries)
              /\ UNCHANGED <<entries, ordererEpoch, epochOutputs>>

OrdererNext == (\E c \in Commits : SubmitCommit(c)) \/ publishEpochCheckpoint

-----------------------------------------------------------------------------

\* Whatever the order of the commits and the failures of the log, a checkpoint
\* holds commits of its epoch alone, each once, of every instance, by rank and
\* instance; and the log's checkpoints are of epochs that the orderer has left.
CheckpointsAreCanonical ==
    \A h \in 1..Len(entries) : entries[h].kind = "checkpoint" =>
        LET ordered == entries[h].ordered
        IN  /\ \A k \in 1..(Len(ordered) - 1) :
                  \/ ordered[k].rank < ordered[k + 1].rank
                  \/ ordered[k].rank = ordered[k + 1].rank /\ ordered[k].inst < ordered[k + 1].inst
            /\ \A k \in DOMAIN ordered : ordered[k].epoch = entries[h].epoch
            /\ {ordered[k].inst : k \in DOMAIN ordered} = Instances
            /\ entries[h].epoch < ordererEpoch
=============================================================================
