---------------------------- MODULE MCProxyMetrics ----------------------------
(* ProxyMetrics with interchangeable sessions.  Percentiles of all windows of*)
(* up to five samples of three values, and of large falling ones: the rank of*)
(* p95 leaves the largest sample at 20, and 256 is the proxy's capacity.     *)
EXTENDS ProxyMetrics, TLC
MCSmallWindows == UNION {[1..n -> 1..3] : n \in 1..5}
MCLargeWindows == {[i \in 1..n |-> n - i] : n \in {19, 20, 21, 100, 101, 256}}
Symmetry == Permutations(Sessions)
=============================================================================
