---------------------------- MODULE MCProxyServer ----------------------------
(* Small instances of ProxyServer for TLC: sessions are model values, of   *)
(* which nothing distinguishes one from another.                           *)
EXTENDS ProxyServer, TLC
Symmetry == Permutations(Sessions)
=============================================================================
