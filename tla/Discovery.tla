----------------------------- MODULE Discovery -----------------------------
(***************************************************************************)
(* Hydra's configuration discovery (hydra/discovery.go): what a node knows *)
(* of the configurations beyond the one it runs with, and the requests by  *)
(* which it asks its peers for the ones it lacks.  The adaptive runtime    *)
(* takes the size of the committee from the highest known configuration.   *)
(*                                                                         *)
(* Requests and answers are gossiped or streamed and may be late or lost;  *)
(* a request stays available to be answered.  pendingRequests is written   *)
(* and never read.  Answering changes nothing at the peer that answers.    *)
(***************************************************************************)
EXTENDS Naturals, Sequences, SequencesExt

VARIABLES
    history,    \* CDManager.history
    highest,    \* CDManager.highestValidConfig
    asked       \* the requests this node has sent: sequences of identifiers

discoveryVars == <<history, highest, asked>>

DiscoveryInit(genesis) ==
    /\ history = <<genesis>>
    /\ highest = genesis
    /\ asked = {}

\* The elements of s at the positions in I, in order.
Picked(s, I) ==
    LET take[i \in 0..Len(s)] ==
            IF i = 0 THEN <<>>
            ELSE IF i \in I THEN Append(take[i - 1], s[i]) ELSE take[i - 1]
    IN  take[Len(s)]

hasConfig(known, id) == \E i \in DOMAIN known : known[i].epoch = id

\* A committed configuration is recorded whatever its number.
AddConfiguration(c) ==
    /\ history' = Append(history, c)
    /\ highest' = IF c.epoch > highest.epoch THEN c ELSE highest
    /\ UNCHANGED asked

findMissingConfigs(target) ==
    Picked([id \in 1..target |-> id], {id \in 1..target : ~hasConfig(history, id)})

RequestDiscovery(target) ==
    /\ target > highest.epoch
    /\ asked' = asked \cup {findMissingConfigs(target)}
    /\ UNCHANGED <<history, highest>>

\* Every 30 seconds.
SyncInBackground == RequestDiscovery(highest.epoch + 10)

\* The answer of a peer: the first configuration it holds of each identifier, in
\* the order of the request.
HandleDiscoveryRequest(held, ids) ==
    LET found == Picked(ids, {i \in DOMAIN ids : hasConfig(held, ids[i])})
        Holding(id) == {i \in DOMAIN held : held[i].epoch = id}
    IN  [i \in DOMAIN found |-> Picked(held, Holding(found[i]))[1]]

isValidConfig(c) == Cardinality(c.members) >= 3

isContinuous(known, c) == c.epoch = known.epoch + 1

\* One configuration of an answer: new ones are recorded, and the next one in
\* number becomes the highest.
Discovered(acc, c) ==
    IF isValidConfig(c) /\ ~hasConfig(acc.history, c.epoch)
    THEN [history |-> Append(acc.history, c),
          highest |-> IF isContinuous(acc.highest, c) THEN c ELSE acc.highest]
    ELSE acc

HandleDiscoveryResponse(configs) ==
    LET known[i \in 0..Len(configs)] ==
            IF i = 0 THEN [history |-> history, highest |-> highest]
            ELSE Discovered(known[i - 1], configs[i])
    IN  /\ history' = known[Len(configs)].history
        /\ highest' = known[Len(configs)].highest
        /\ UNCHANGED asked
=============================================================================
