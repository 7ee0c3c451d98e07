---------------------------- MODULE MCPasswdAuth ----------------------------
(* Instances of PasswdAuth for TLC.                                        *)
EXTENDS PasswdAuth

Symmetry == Permutations(Threads) \cup Permutations(Passwords \ {Initial})

AppMethods == <<"ping", "report", "status">>
=============================================================================
