------------------------------- MODULE SetSums -------------------------------
(* Sums over finite sets, as jnp.sum takes them over arrays. *)
EXTENDS FiniteSetsExt

SumOf(f, S) == MapThenSumSet(LAMBDA i : f[i], S)
=============================================================================
