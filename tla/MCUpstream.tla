------------------------------ MODULE MCUpstream ------------------------------
(* Upstream for TLC: sessions, callers and closers are interchangeable.     *)
EXTENDS Upstream, TLC

Symmetry == Permutations(Sess) \cup Permutations(Callers) \cup Permutations(Closers)
=============================================================================
