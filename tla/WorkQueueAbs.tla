---------------------------- MODULE WorkQueueAbs ----------------------------
(***************************************************************************)
(* What a work queue promises its user (spec 4.2, 8.5, 8.7), with no       *)
(* queues, flags, callbacks or messages: a pool of pending work items,     *)
(* each of which is processed at most once or discarded; a barrier         *)
(* completes only when nothing is                                          *)
(* pending, and once every rank waits in it with nothing pending, it does  *)
(* complete.                                                               *)
(***************************************************************************)
EXTENDS Naturals

CONSTANT Ranks

VARIABLES
  pending,   \* items inserted and neither processed nor discarded
  done,      \* items the work function has run on
  dropped,   \* items discarded unprocessed
  created,   \* the number the next item gets
  phase      \* [Ranks -> {"user", "barrier"}]

avars == <<pending, done, dropped, created, phase>>

Init ==
  /\ pending = {} /\ done = {} /\ dropped = {}
  /\ created = 1
  /\ phase = [r \in Ranks |-> "user"]

\* A rank in user code inserts a new item.
Insert(r) ==
  /\ phase[r] = "user"
  /\ pending' = pending \cup {created}
  /\ created' = created + 1
  /\ UNCHANGED <<done, dropped, phase>>

\* The work function runs on pending item i, inside a barrier or in a
\* user's call of local_process_all; it may insert one new item.
Process(i) ==
  /\ i \in pending
  /\ done' = done \cup {i}
  /\ \/ pending' = pending \ {i} /\ UNCHANGED created
     \/ pending' = (pending \ {i}) \cup {created} /\ created' = created + 1
  /\ UNCHANGED <<dropped, phase>>

\* A rank in user code discards some pending items, possibly as it enters
\* a barrier.
Discard(r, S) ==
  /\ phase[r] = "user"
  /\ S \subseteq pending
  /\ pending' = pending \ S
  /\ dropped' = dropped \cup S
  /\ phase' \in {phase, [phase EXCEPT ![r] = "barrier"]}
  /\ UNCHANGED <<done, created>>

EnterBarrier(r) ==
  /\ phase[r] = "user"
  /\ phase' = [phase EXCEPT ![r] = "barrier"]
  /\ UNCHANGED <<pending, done, dropped, created>>

Complete ==
  /\ \A r \in Ranks : phase[r] = "barrier"
  /\ pending = {}
  /\ phase' = [r \in Ranks |-> "user"]
  /\ UNCHANGED <<pending, done, dropped, created>>

Next ==
  \/ \E r \in Ranks : Insert(r) \/ EnterBarrier(r) \/ \E S \in SUBSET pending : Discard(r, S)
  \/ \E i \in pending : Process(i)
  \/ Complete

Spec == Init /\ [][Next]_avars /\ WF_avars(Complete)

=============================================================================
