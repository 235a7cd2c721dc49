---------------------------- MODULE MCHttpMetrics ----------------------------
(* A small instance of the metrics for TLC: two I/O threads, one bound of  *)
(* the histogram and requests as long as it and longer.                    *)
EXTENDS HttpMetrics, TLC

OneBound == <<1>>

ThreadSymmetry == Permutations(Threads)
=============================================================================
