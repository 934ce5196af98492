--------------------------- MODULE MCProxyHealth ---------------------------
(* The registry with two proxies, one domain and one picking thread.        *)
EXTENDS ProxyHealth, TLC

Symmetry == Permutations(Proxies)
=============================================================================
