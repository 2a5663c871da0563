----------------------------- MODULE MCContains -----------------------------
(* Instantiation of Contains for TLC: two ranks, each owning one value.     *)
EXTENDS Contains

MCRanks == {"r1", "r2"}
MCValues == {"v1", "v2"}

\* v1 lives on r2 and v2 on r1, so a lookup of v1 by r1 needs an RPC.
MCOwner(v) == IF v = "v1" THEN "r2" ELSE "r1"
=============================================================================
