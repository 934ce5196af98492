---------------------------- MODULE MCDownload ----------------------------
(* Two coroutines whose requests share one stealth dict or have their own,  *)
(* on one HTTP driver and the browser.                                      *)
EXTENDS Download, TLC

Symmetry == Permutations(Threads)
=============================================================================
