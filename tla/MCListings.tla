----------------------------- MODULE MCListings -----------------------------
(* Instances of Listings for TLC. *)
EXTENDS Listings, TLC

CONSTANTS u1, u2, t1, t2, t3, e1, e2

MCParentOf == t1 :> u1 @@ t2 :> u1 @@ t3 :> u1 @@ e1 :> t1 @@ e2 :> t1

\* Tasks without executions are interchangeable.
MCSymmetry == Permutations({t2, t3})
=============================================================================
