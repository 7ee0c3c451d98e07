------------------------------ MODULE MCPubSub ------------------------------
(* Instances of PubSub for TLC.                                            *)
EXTENDS PubSub

CONSTANTS t1, t2

SingleParams == {<<t1>>}
PairParams == {<<t1>>, <<t2, t1>>}

Symmetry == Permutations(Conns) \cup Permutations(Notifiers)
              \cup Permutations(Tasks)
=============================================================================
