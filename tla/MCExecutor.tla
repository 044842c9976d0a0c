----------------------------- MODULE MCExecutor -----------------------------
(* Ten validators and one that may join; three blocks out of five kinds,   *)
(* the last of them join or later.                                         *)
EXTENDS Executor

CONSTANTS join, auto, many, two, later

MCIds == 1..11
MCInitial == 1..10

Manual(type, node, epoch) ==
    [type |-> type, node |-> node, epoch |-> epoch, target |-> epoch + 1, signed |-> TRUE,
     leaves |-> {}, voters |-> {}, hash |-> join]

Proved(leaves, b) ==
    [type |-> "auto", node |-> 10, epoch |-> 1, target |-> 2, signed |-> TRUE,
     leaves |-> leaves, voters |-> 1..7, hash |-> b]

MCBlocks == {join, auto, many, two, later}

MCTxs ==
    (join :> <<Manual("join", 11, 1)>>) @@ (auto :> <<Proved({9, 10}, auto)>>)
      @@ (many :> <<Proved(5..10, many)>>)
      @@ (two :> <<Manual("join", 11, 1), Manual("leave", 3, 1)>>)
      @@ (later :> <<Manual("leave", 10, 2)>>)

MCLogs == {<<a, b, c>> : a, b \in MCBlocks, c \in {join, later}}

\* What a peer holds that applied join and later.
MCPeerHistories ==
    {<<[epoch |-> 0, members |-> MCInitial], [epoch |-> 2, members |-> MCIds],
       [epoch |-> 3, members |-> MCIds \ {10}]>>}
=============================================================================
