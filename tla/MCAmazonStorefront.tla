------------------------- MODULE MCAmazonStorefront -------------------------
(* An instance of AmazonStorefront for TLC: the bounds are constants of    *)
(* the cfg, and the threads of the web server are alike.                   *)
EXTENDS AmazonStorefront, TLC

SameThreads == Permutations(Threads)
=============================================================================
