---------------------------- MODULE MCHttpEngine ----------------------------
(* Two threads on one engine with two proxies; requests have one domain and *)
(* one session key.                                                         *)
EXTENDS HttpEngine, TLC

Symmetry == Permutations(Threads) \union Permutations(Proxies)
=============================================================================
