-------------------------- MODULE MCBrowserEngine --------------------------
(* Two threads on one browser engine; a Chrome has one tab at a time. *)
EXTENDS BrowserEngine, TLC

CONSTANTS pin1, endpoint1

Symmetry == Permutations(Threads)

Ask(dns, at, proxied) == [dns |-> dns, cdp |-> at, proxied |-> proxied]

\* Every request is like every other.
PlainAsks == {Ask(NoDns, Local, FALSE)}

\* With and without overrides, for a Chrome launched here
PinnedAsks == {Ask(NoDns, Local, FALSE), Ask(pin1, Local, FALSE)}

\* Each of these, or a Chrome elsewhere with overrides and a proxy
MixedAsks == PinnedAsks \union {Ask(pin1, endpoint1, TRUE)}

\* A Chrome launched here or one elsewhere
TwoAsks == PlainAsks \union {Ask(pin1, endpoint1, TRUE)}
=============================================================================
