------------------------------ MODULE MCRouter ------------------------------
(* Texts that share a prefix, and metric samples on both sides of each limit  *)
(* the router looks at.                                                       *)
EXTENDS Router, TLC

MCTexts == {<<>>, <<1, 1>>}

Sample(running_, waiting, global, basic, inflight) ==
    [ok |-> TRUE, running |-> running_, waiting |-> waiting, global_limit |-> global,
     basic_limit |-> basic, basic_inflight |-> inflight]

MCSamples ==
    {Sample(0, 0, 4, 2, 0),    \* idle
     Sample(3, 1, 4, 2, 2)}    \* a queue has formed and the basic tier is full

MCSymmetry == Permutations(Requests)
=============================================================================
