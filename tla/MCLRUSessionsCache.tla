------------------------- MODULE MCLRUSessionsCache -------------------------
(* Instances of LRUSessionsCache for TLC: the keys are interchangeable.    *)
EXTENDS LRUSessionsCache, TLC

KeySymmetry == Permutations(Keys)

=============================================================================
