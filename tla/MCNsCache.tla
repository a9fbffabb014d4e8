----------------------------- MODULE MCNsCache -----------------------------
(* NsCache for TLC: names and addresses are interchangeable. *)
EXTENDS NsCache, TLC

Symmetric == Permutations(ShortName) \cup Permutations(Addr)

=============================================================================
