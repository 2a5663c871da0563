------------------------------ MODULE Contains ------------------------------
(***************************************************************************)
(* container/detail/base_contains.hpp: contains(value) on a distributed    *)
(* container, run by every rank: a barrier, then logical_or of the ranks'  *)
(* local_contains.  The container around it is not in this repository:    *)
(* as the spec describes the containers, async_insert sends the value to  *)
(* the rank that owns it, and the insert runs there when delivered.        *)
(***************************************************************************)
EXTENDS Naturals, Sequences

CONSTANTS
  Ranks,
  Values,       \* the values inserted and looked up
  Owner(_),     \* the rank that stores a value
  Query,        \* the value every rank passes to contains
  MaxInserts    \* bound on the inserts per rank

VARIABLES
  local,        \* [Ranks -> SUBSET Values]: each rank's local storage
  in_flight,    \* [Ranks \X Ranks -> Seq(Values)]: inserts sent, not yet run
  phase,        \* [Ranks -> {"user", "barrier", "returned"}]
  issued,       \* history: the values whose insert was sent before the call
  inserts,      \* [Ranks -> Nat]: inserts each rank has sent
  result        \* the value contains returned (meaningful once phase is "returned")

vars == <<local, in_flight, phase, issued, inserts, result>>

TypeOK ==
  /\ local \in [Ranks -> SUBSET Values]
  /\ in_flight \in [Ranks \X Ranks -> Seq(Values)]
  /\ phase \in [Ranks -> {"user", "barrier", "returned"}]
  /\ issued \subseteq Values
  /\ inserts \in [Ranks -> 0..MaxInserts]
  /\ result \in BOOLEAN

\* async_insert(v) on rank r before the rank calls contains.
async_insert(r, v) ==
  /\ phase[r] = "user"
  /\ inserts[r] < MaxInserts
  /\ in_flight' = [in_flight EXCEPT ![r, Owner(v)] = Append(@, v)]
  /\ issued' = issued \cup {v}
  /\ inserts' = [inserts EXCEPT ![r] = @ + 1]
  /\ UNCHANGED <<local, phase, result>>

\* The oldest insert from s runs on r while r waits in the barrier.
Deliver(s, r) ==
  /\ phase[r] = "barrier"
  /\ in_flight[s, r] # <<>>
  /\ local' = [local EXCEPT ![r] = @ \cup {Head(in_flight[s, r])}]
  /\ in_flight' = [in_flight EXCEPT ![s, r] = Tail(@)]
  /\ UNCHANGED <<phase, issued, inserts, result>>

\* Line 29: the rank calls contains and enters its barrier.
EnterContains(r) ==
  /\ phase[r] = "user"
  /\ phase' = [phase EXCEPT ![r] = "barrier"]
  /\ UNCHANGED <<local, in_flight, issued, inserts, result>>

\* The barrier completes: every rank is in it and nothing is in flight.
BarrierPassed ==
  /\ \A r \in Ranks : phase[r] = "barrier"
  /\ \A s, r \in Ranks : in_flight[s, r] = <<>>

\* Mutant: contains without its barrier (line 29 missing): the ranks meet
\* in logical_or with inserts still in flight.
contains_no_barrier ==
  /\ \A r \in Ranks : phase[r] = "barrier"
  /\ result' = \E r \in Ranks : Query \in local[r]
  /\ phase' = [r \in Ranks |-> "returned"]
  /\ UNCHANGED <<local, in_flight, issued, inserts>>

\* Lines 29-31: once the barrier has passed, logical_or of local_contains.
contains ==
  /\ BarrierPassed
  /\ result' = \E r \in Ranks : Query \in local[r]
  /\ phase' = [r \in Ranks |-> "returned"]
  /\ UNCHANGED <<local, in_flight, issued, inserts>>

Init ==
  /\ local = [r \in Ranks |-> {}]
  /\ in_flight = [p \in Ranks \X Ranks |-> <<>>]
  /\ phase = [r \in Ranks |-> "user"]
  /\ issued = {}
  /\ inserts = [r \in Ranks |-> 0]
  /\ result = FALSE

Next ==
  \/ \E r \in Ranks, v \in Values : async_insert(r, v)
  \/ \E s, r \in Ranks : Deliver(s, r)
  \/ \E r \in Ranks : EnterContains(r)
  \/ contains

Spec == Init /\ [][Next]_vars

-----------------------------------------------------------------------------

\* contains answers for every insert sent before the call, by whichever
\* rank and in whatever order the inserts arrive: the barrier of line 29
\* runs them all before the local lookups.
ContainsSeesInserts ==
  (\A r \in Ranks : phase[r] = "returned") => result = (Query \in issued)

=============================================================================
