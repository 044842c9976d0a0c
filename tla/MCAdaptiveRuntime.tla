-------------------------- MODULE MCAdaptiveRuntime -------------------------
(* Seven validators, then five, then four.  The server's answers: a safe   *)
(* eviction with a larger committee and, for the other instance, an unsafe *)
(* one; a list that names an instance twice and one that the node does not *)
(* have, with a leave of the node itself.                                  *)
EXTENDS AdaptiveRuntime, TLC

MCMembers == <<1..7, 1..5, 1..4>>
MCReputed == {{1, 2, 3, 4, 6}}

Tuple(inst, reconfig, absolute, value) ==
    [inst |-> inst, reconfig |-> reconfig, param |-> [absolute |-> absolute, value |-> value]]
Agent(inst, size, evict, admit) ==
    [inst |-> inst, committee |-> size, reconfig |-> <<>>, evict |-> evict, admit |-> admit]
Http(size, agents, leave) ==
    [kind |-> "http", committee |-> size, agents |-> agents, join |-> FALSE, leave |-> leave]

MCAnswers ==
    {[kind |-> "sfac", tuples |-> <<Tuple(1, <<-1, 0, 0, 0, -2>>, FALSE, 2),
                                    Tuple(2, <<0, -1, -1, -1>>, TRUE, 9)>>],
     Http(8, <<Agent(2, 4, <<3, 4, 5>>, <<>>), Agent(3, 3, <<2>>, <<>>), Agent(2, 8, <<2>>, <<8>>)>>,
          TRUE)}
=============================================================================
