----------------------------- MODULE WorkQueue -----------------------------
(***************************************************************************)
(* container/work_queue.hpp on every rank, together with the part of the   *)
(* communicator it leans on: the pre-barrier callback list, async RPCs in  *)
(* flight between ranks, and the barrier that runs callbacks and delivers  *)
(* messages until it is quiescent.                                         *)
(*                                                                         *)
(* Each rank holds the work_queue objects Objs (the same objects on every  *)
(* rank: construction is collective, see pthis.check at lines 58 and 83).  *)
(* Items are numbered in creation order.  The user's work lambda is free:  *)
(* processing an item may create one new item and local_insert it through  *)
(* the self handle, or async it to some rank where the handler local_      *)
(* inserts it into the same object, or do neither.  MaxItems bounds the    *)
(* items ever created and MaxMoves the move operations.                    *)
(***************************************************************************)
EXTENDS Naturals, Sequences, SequencesExt, FiniteSets

CONSTANTS
  Ranks,        \* the communicator's ranks
  Objs,         \* the work_queue objects each rank holds
  Policy,       \* "fifo", "lifo" or "priority": the queue's QueuePolicy
  Comp(_, _),   \* the priority policy's comparator
  MaxItems,     \* bound on the items ever created
  MaxMoves,     \* bound on move constructions and move assignments
  NoObj         \* model value: no callback is running

QP == INSTANCE QueuePolicy

ASSUME Policy \in QP!Policies /\ NoObj \notin Objs

ItemIds == 1..MaxItems

VARIABLES
  m_local_queue,          \* [Ranks \X Objs -> Seq(ItemIds)]: each object's queue_type
  m_callback_registered,  \* [Ranks \X Objs -> BOOLEAN]
  constructed,            \* [Objs -> BOOLEAN]: the object exists (collectively)
  pre_barrier_callbacks,  \* [Ranks -> Seq(Objs)]: the comm's callback list; an entry is the `this` a lambda captured
  running,                \* [Ranks -> Objs \cup {NoObj}]: the object whose drain loop runs (callback or user call)
  in_flight,              \* [Ranks \X Ranks -> Seq(Msg)]: async RPCs sent and not yet executed
  phase,                  \* [Ranks -> {"user", "barrier"}]
  nextItem,               \* the number the next created item gets
  processed,              \* [ItemIds -> Nat]: work lambda invocations per item
  discarded,              \* items dropped by local_clear or overwritten by move assignment
  moves,                  \* move operations performed so far
  dtor                    \* [Ranks -> Objs \cup {NoObj}]: the object whose destructor the rank waits in

vars == <<m_local_queue, m_callback_registered, constructed, pre_barrier_callbacks,
          running, in_flight, phase, nextItem, processed, discarded, moves, dtor>>

Msg == [obj : Objs, item : ItemIds]

TypeOK ==
  /\ m_local_queue \in [Ranks \X Objs -> Seq(ItemIds)]
  /\ m_callback_registered \in [Ranks \X Objs -> BOOLEAN]
  /\ constructed \in [Objs -> BOOLEAN]
  /\ pre_barrier_callbacks \in [Ranks -> Seq(Objs)]
  /\ running \in [Ranks -> Objs \cup {NoObj}]
  /\ in_flight \in [Ranks \X Ranks -> Seq(Msg)]
  /\ phase \in [Ranks -> {"user", "barrier"}]
  /\ nextItem \in 1..MaxItems + 1
  /\ processed \in [ItemIds -> Nat]
  /\ discarded \subseteq ItemIds
  /\ moves \in 0..MaxMoves
  /\ dtor \in [Ranks -> Objs \cup {NoObj}]

-----------------------------------------------------------------------------
(* The work_queue's own operations.                                        *)

\* Rank r runs user code, not a call of local_process_all.
UserIdle(r) == phase[r] = "user" /\ running[r] = NoObj

\* register_processing_callback: hand the comm a lambda capturing this and
\* set the flag.
register_processing_callback(r, o) ==
  /\ pre_barrier_callbacks' = [pre_barrier_callbacks EXCEPT ![r] = Append(@, o)]
  /\ m_callback_registered' = [m_callback_registered EXCEPT ![r, o] = TRUE]

\* Mutant: the check of line 140 inverted.
local_insert_inverted(r, o, q, item) ==
  /\ m_local_queue' = [m_local_queue EXCEPT ![r, o] = QP!push(q, item)]
  /\ IF ~m_callback_registered[r, o]
       THEN UNCHANGED <<pre_barrier_callbacks, m_callback_registered>>
       ELSE register_processing_callback(r, o)

\* local_insert of item into object o on rank r whose queue is currently q
\* (the drain loop passes the queue it has just popped): push, then
\* register unless a callback is already registered for this batch.
local_insert(r, o, q, item) ==
  /\ m_local_queue' = [m_local_queue EXCEPT ![r, o] = QP!push(q, item)]
  /\ IF m_callback_registered[r, o]
       THEN UNCHANGED <<pre_barrier_callbacks, m_callback_registered>>
       ELSE register_processing_callback(r, o)

\* Creating a fresh item for an insert or an async.
NewItem ==
  /\ nextItem <= MaxItems
  /\ nextItem' = nextItem + 1

UserInsert(r, o) ==
  /\ UserIdle(r)
  /\ constructed[o]
  /\ NewItem
  /\ local_insert(r, o, m_local_queue[r, o], nextItem)
  /\ UNCHANGED <<constructed, running, in_flight, phase, processed, discarded, moves, dtor>>

\* No rank waits in a destructor's barrier: the program's barriers are
\* matched collectives, so a plain barrier is not entered beside one.
NoDtorPending == \A s \in Ranks : dtor[s] = NoObj

\* The queue of o on r is replaced by an empty one; the flag is left as is.
Emptied(r, o) ==
  /\ m_local_queue' = [m_local_queue EXCEPT ![r, o] = <<>>]
  /\ discarded' = discarded \cup ToSet(m_local_queue[r, o])

local_clear(r, o) ==
  /\ UserIdle(r)
  /\ constructed[o] /\ m_local_queue[r, o] # <<>>
  /\ Emptied(r, o)
  /\ UNCHANGED <<m_callback_registered, constructed, pre_barrier_callbacks,
                 running, in_flight, phase, nextItem, processed, moves, dtor>>

\* clear(): local_clear, then the barrier.
clear(r, o) ==
  /\ UserIdle(r)
  /\ NoDtorPending
  /\ constructed[o]
  /\ Emptied(r, o)
  /\ phase' = [phase EXCEPT ![r] = "barrier"]
  /\ UNCHANGED <<m_callback_registered, constructed, pre_barrier_callbacks,
                 running, in_flight, nextItem, processed, moves, dtor>>

\* Mutant: the queue is copied, not moved, out of the source.
SourceAfterMove_copy(q) == q

\* What std::move leaves in the source's queue_type: an empty container.
SourceAfterMove(q) == <<>>

\* Mutant: the new owner never re-arms its callback.
Rearms_never(q) == FALSE

\* After a move the new owner registers a callback iff it has work
\* (lines 86-88 and 101-103).
Rearms(q) == q # <<>>

\* The effect, on each rank of R, of a move from src into dst: dst takes
\* src's queue (its own previous items are dropped), both flags are cleared
\* (lines 80, 84, 98, 99) and dst re-arms.  src's pending callback, if any,
\* stays in the comm's list.
MoveOn(R, dst, src) ==
  LET q(r) == m_local_queue[r, src]
  IN /\ m_local_queue' = [p \in Ranks \X Objs |->
                            IF p[1] \notin R THEN m_local_queue[p]
                            ELSE CASE p[2] = dst -> q(p[1])
                                   [] p[2] = src -> SourceAfterMove(q(p[1]))
                                   [] OTHER      -> m_local_queue[p]]
     /\ m_callback_registered' = [p \in Ranks \X Objs |->
                            IF p[1] \notin R THEN m_callback_registered[p]
                            ELSE CASE p[2] = dst -> Rearms(q(p[1]))
                                   [] p[2] = src -> FALSE
                                   [] OTHER      -> m_callback_registered[p]]
     /\ pre_barrier_callbacks' = [r \in Ranks |->
                            IF r \in R /\ Rearms(q(r))
                              THEN Append(pre_barrier_callbacks[r], dst)
                              ELSE pre_barrier_callbacks[r]]
     /\ discarded' = discarded \cup UNION {ToSet(m_local_queue[r, dst]) : r \in R}
     /\ moves' = moves + 1

\* Move constructor work_queue(other&&), run by every rank: its
\* pthis.check(m_comm) is collective.
MoveConstruct(dst, src) ==
  /\ \A r \in Ranks : UserIdle(r)
  /\ ~constructed[dst] /\ constructed[src]
  /\ moves < MaxMoves
  /\ MoveOn(Ranks, dst, src)
  /\ constructed' = [constructed EXCEPT ![dst] = TRUE]
  /\ UNCHANGED <<running, in_flight, phase, nextItem, processed, dtor>>

\* Move assignment dst = std::move(src) on one rank; a self-assignment
\* returns at once (line 92) and is not a step.
MoveAssign(r, dst, src) ==
  /\ UserIdle(r)
  /\ dst # src /\ constructed[dst] /\ constructed[src]
  /\ moves < MaxMoves
  /\ MoveOn({r}, dst, src)
  /\ UNCHANGED <<constructed, running, in_flight, phase, nextItem, processed, dtor>>

\* The user's work lambda, run by the drain loop on an item already popped,
\* the queue now being rest.  It may leave the queue alone, local_insert a
\* new item through the self handle, or async a new item to some rank whose
\* handler local_inserts it into the same object there.
WorkLambda(r, o, rest) ==
  \/ /\ m_local_queue' = [m_local_queue EXCEPT ![r, o] = rest]
     /\ UNCHANGED <<m_callback_registered, pre_barrier_callbacks, in_flight, nextItem>>
  \/ /\ NewItem
     /\ local_insert(r, o, rest, nextItem)
     /\ UNCHANGED in_flight
  \/ /\ NewItem
     /\ \E s \in Ranks :
          in_flight' = [in_flight EXCEPT ![r, s] = Append(@, [obj |-> o, item |-> nextItem])]
     /\ m_local_queue' = [m_local_queue EXCEPT ![r, o] = rest]
     /\ UNCHANGED <<m_callback_registered, pre_barrier_callbacks>>

\* Mutant: the loop forgets QueuePolicy::pop.
Popped_not(q) == q

\* What the loop leaves after taking the top item (line 154).
Popped(q) == QP!pop(Policy, q)

\* One pass of the while loop of local_process_all, inside the registered
\* callback: copy the top item, pop it, then run the work lambda on it.
local_process_all(r) ==
  LET o    == running[r]
      q    == m_local_queue[r, o]
      item == QP!top(Policy, q)
  IN /\ o # NoObj
     /\ ~QP!empty(q)
     /\ processed' = [processed EXCEPT ![item] = IF @ < 2 THEN @ + 1 ELSE 2]
     /\ WorkLambda(r, o, Popped(q))
     /\ UNCHANGED <<constructed, running, phase, discarded, moves, dtor>>

\* Mutant: the flag survives the drain (line 197 missing).
FlagAfterDrain_kept(f) == f

\* The flag once the callback's local_process_all has returned (line 197).
FlagAfterDrain(f) == FALSE

\* The user calls the public local_process_all() on o (lines 151-159): the
\* same loop, run in user code; the flag and any pending callback are left
\* as they are.
UserProcessAll(r, o) ==
  /\ UserIdle(r)
  /\ constructed[o] /\ m_local_queue[r, o] # <<>>
  /\ running' = [running EXCEPT ![r] = o]
  /\ UNCHANGED <<m_local_queue, m_callback_registered, constructed, pre_barrier_callbacks,
                 in_flight, phase, nextItem, processed, discarded, moves, dtor>>

\* The user's local_process_all() returns once the queue is empty.
local_process_all_return(r) ==
  /\ phase[r] = "user" /\ running[r] # NoObj
  /\ QP!empty(m_local_queue[r, running[r]])
  /\ running' = [running EXCEPT ![r] = NoObj]
  /\ UNCHANGED <<m_local_queue, m_callback_registered, constructed, pre_barrier_callbacks,
                 in_flight, phase, nextItem, processed, discarded, moves, dtor>>

\* The rest of the registered lambda: local_process_all has returned (the
\* queue is empty) and the flag is reset for the next batch.
process_all_lambda_done(r) ==
  /\ phase[r] = "barrier" /\ running[r] # NoObj
  /\ QP!empty(m_local_queue[r, running[r]])
  /\ m_callback_registered' = [m_callback_registered EXCEPT ![r, running[r]] = FlagAfterDrain(@)]
  /\ running' = [running EXCEPT ![r] = NoObj]
  /\ UNCHANGED <<m_local_queue, constructed, pre_barrier_callbacks, in_flight,
                 phase, nextItem, processed, discarded, moves, dtor>>

-----------------------------------------------------------------------------
(* The communicator, as the spec describes it (not part of this source).   *)
(* Progress happens only inside the barrier, single-threaded per rank: a   *)
(* rank runs one callback to completion before it runs the next callback  *)
(* or executes an incoming RPC.  The barrier completes, on all ranks at    *)
(* once, when every rank has entered it, no callback is pending or running *)
(* and no RPC is in flight.                                                 *)

EnterBarrier(r) ==
  /\ UserIdle(r)
  /\ NoDtorPending
  /\ phase' = [phase EXCEPT ![r] = "barrier"]
  /\ UNCHANGED <<m_local_queue, m_callback_registered, constructed, pre_barrier_callbacks,
                 running, in_flight, nextItem, processed, discarded, moves, dtor>>

\* The barrier takes the oldest registered callback and invokes it.
RunCallback(r) ==
  /\ phase[r] = "barrier"
  /\ running[r] = NoObj
  /\ pre_barrier_callbacks[r] # <<>>
  /\ running' = [running EXCEPT ![r] = Head(pre_barrier_callbacks[r])]
  /\ pre_barrier_callbacks' = [pre_barrier_callbacks EXCEPT ![r] = Tail(@)]
  /\ UNCHANGED <<m_local_queue, m_callback_registered, constructed, in_flight,
                 phase, nextItem, processed, discarded, moves, dtor>>

\* The oldest RPC from s to r runs on r: the handler local_inserts the item
\* into the object the handle resolves to on r.
Deliver(s, r) ==
  /\ phase[r] = "barrier"
  /\ running[r] = NoObj
  /\ in_flight[s, r] # <<>>
  /\ LET m == Head(in_flight[s, r])
     IN local_insert(r, m.obj, m_local_queue[r, m.obj], m.item)
  /\ in_flight' = [in_flight EXCEPT ![s, r] = Tail(@)]
  /\ UNCHANGED <<constructed, running, phase, nextItem, processed, discarded, moves, dtor>>

Quiescent ==
  /\ \A r \in Ranks : phase[r] = "barrier" /\ running[r] = NoObj
                      /\ pre_barrier_callbacks[r] = <<>>
  /\ \A s, r \in Ranks : in_flight[s, r] = <<>>

\* The barrier completes; an object whose destructor the ranks wait in
\* ceases to exist once its barrier has returned.
BarrierComplete ==
  /\ Quiescent
  /\ phase' = [r \in Ranks |-> "user"]
  /\ constructed' = [o \in Objs |-> constructed[o] /\ \A r \in Ranks : dtor[r] # o]
  /\ dtor' = [r \in Ranks |-> NoObj]
  /\ UNCHANGED <<m_local_queue, m_callback_registered, pre_barrier_callbacks,
                 running, in_flight, nextItem, processed, discarded, moves>>

\* Mutant: the destructor without its barrier (line 71 missing).
work_queue_dtor_no_barrier(r, o) ==
  /\ UserIdle(r) /\ constructed[o] /\ NoDtorPending
  /\ constructed' = [constructed EXCEPT ![o] = FALSE]
  /\ UNCHANGED <<m_local_queue, m_callback_registered, pre_barrier_callbacks,
                 running, in_flight, phase, nextItem, processed, discarded, moves, dtor>>

\* ~work_queue (lines 68-73) on rank r: the barrier, which destroys the
\* object when it completes (BarrierComplete); every rank runs it at the
\* same point of the program, so it joins no other barrier.  The assert of
\* line 72 is BarrierLeavesQueuesEmpty.
work_queue_dtor(r, o) ==
  /\ UserIdle(r) /\ constructed[o]
  /\ \A s \in Ranks : phase[s] = "barrier" => dtor[s] = o
  /\ phase' = [phase EXCEPT ![r] = "barrier"]
  /\ dtor' = [dtor EXCEPT ![r] = o]
  /\ UNCHANGED <<m_local_queue, m_callback_registered, constructed, pre_barrier_callbacks,
                 running, in_flight, nextItem, processed, discarded, moves>>

\* A rank reaches the destructor another rank already waits in.
JoinDtor(r) == \E o \in Objs : (\E s \in Ranks : dtor[s] = o) /\ work_queue_dtor(r, o)

-----------------------------------------------------------------------------

Init ==
  /\ m_local_queue = [p \in Ranks \X Objs |-> <<>>]
  /\ m_callback_registered = [p \in Ranks \X Objs |-> FALSE]
  /\ constructed = [o \in Objs |-> o = CHOOSE x \in Objs : TRUE]
  /\ pre_barrier_callbacks = [r \in Ranks |-> <<>>]
  /\ running = [r \in Ranks |-> NoObj]
  /\ in_flight = [p \in Ranks \X Ranks |-> <<>>]
  /\ phase = [r \in Ranks |-> "user"]
  /\ nextItem = 1
  /\ processed = [i \in ItemIds |-> 0]
  /\ discarded = {}
  /\ moves = 0
  /\ dtor = [r \in Ranks |-> NoObj]

Next ==
  \/ \E r \in Ranks, o \in Objs : \/ UserInsert(r, o) \/ local_clear(r, o) \/ clear(r, o)
                                  \/ UserProcessAll(r, o)
  \/ \E r \in Ranks : local_process_all_return(r)
  \/ \E dst, src \in Objs : MoveConstruct(dst, src)
  \/ \E r \in Ranks, dst, src \in Objs : MoveAssign(r, dst, src)
  \/ \E r \in Ranks : \/ EnterBarrier(r) \/ RunCallback(r)
                      \/ local_process_all(r) \/ process_all_lambda_done(r)
  \/ \E s, r \in Ranks : Deliver(s, r)
  \/ \E r \in Ranks, o \in Objs : work_queue_dtor(r, o)
  \/ BarrierComplete

\* The barrier loop keeps driving callbacks and RPCs until it completes, and
\* every rank reaches a barrier again (at the latest the one in ~work_queue),
\* the destructor another rank has entered included.
Fairness ==
  /\ \A r \in Ranks : /\ WF_vars(EnterBarrier(r)) /\ WF_vars(JoinDtor(r)) /\ WF_vars(RunCallback(r))
                      /\ WF_vars(local_process_all(r)) /\ WF_vars(process_all_lambda_done(r))
                      /\ WF_vars(local_process_all_return(r))
  /\ \A s, r \in Ranks : WF_vars(Deliver(s, r))
  /\ WF_vars(BarrierComplete)

Spec == Init /\ [][Next]_vars /\ Fairness

-----------------------------------------------------------------------------
(* Properties.                                                             *)

\* The work_queue's queries (lines 166-168, 175-177).
local_has_work(r, o) == ~QP!empty(m_local_queue[r, o])

local_size(r, o) == QP!size(m_local_queue[r, o])

Occurrences(seq, i) == Len(SelectSeq(seq, LAMBDA x : x = i))

\* Where created item i is: held by queues, carried by RPCs, processed,
\* dropped.
Copies(i) ==
    MapThenSumSet(LAMBDA p : Occurrences(m_local_queue[p], i), Ranks \X Objs)
  + MapThenSumSet(LAMBDA p : Occurrences([k \in DOMAIN in_flight[p] |-> in_flight[p][k].item], i),
                  Ranks \X Ranks)
  + processed[i]
  + (IF i \in discarded THEN 1 ELSE 0)

\* Every created item is in exactly one place: the drain loop pops the item
\* it hands to the work lambda (and nothing the lambda pushed), moves leave
\* their source empty, and no item is run twice or lost without a
\* local_clear or an overwriting move assignment.
EachItemOnce == \A i \in 1..nextItem - 1 : Copies(i) = 1

\* A queue that holds items always has a callback that will drain it: one
\* still in the comm's list, or the one running.  This is what the
\* m_callback_registered flag of local_insert and the moves must preserve:
\* if the flag says "registered" while no callback for the object remains,
\* inserted work waits for a barrier that never drains it.
NoStrandedWork ==
  \A r \in Ranks, o \in Objs :
    local_has_work(r, o) =>
      \/ o \in ToSet(pre_barrier_callbacks[r])
      \/ running[r] = o

\* When a barrier completes, every queue on every rank is empty and no flag
\* is set (spec 8.5; the destructor's YGM_ASSERT_RELEASE(local_size() == 0)
\* after its barrier relies on it).
BarrierLeavesQueuesEmpty ==
  [][(\E r \in Ranks : phase[r] = "barrier" /\ phase'[r] = "user") =>
       \A r \in Ranks, o \in Objs :
         local_size(r, o)' = 0 /\ ~m_callback_registered'[r, o]]_vars

\* Once every rank is in the barrier, the barrier completes: the drain
\* loops and the RPCs their work lambdas send come to an end.
BarrierCompletes ==
  (\A r \in Ranks : phase[r] = "barrier") ~> (\A r \in Ranks : phase[r] = "user")

\* Every item that is created is eventually run by the work lambda, unless
\* the user dropped it.
EveryItemHandled ==
  \A i \in ItemIds : (nextItem > i) ~> (processed[i] > 0 \/ i \in discarded)


\* No callback in the comm's list or running, and no RPC in flight, refers
\* to an object that no longer exists: the lambda of
\* register_processing_callback captures `this`, and the RPC handle
\* resolves to the object on its receiver, so both must be drained before
\* ~work_queue returns (its barrier), whatever moves left stale callbacks.
NoDanglingThis ==
  \A r \in Ranks :
    /\ \A k \in DOMAIN pre_barrier_callbacks[r] : constructed[pre_barrier_callbacks[r][k]]
    /\ running[r] # NoObj => constructed[running[r]]
    /\ \A s \in Ranks : \A k \in DOMAIN in_flight[s, r] : constructed[in_flight[s, r][k].obj]

\* The items a queue holds or an RPC carries.
Pending ==
     UNION {ToSet(m_local_queue[p]) : p \in Ranks \X Objs}
  \cup UNION {{m.item : m \in ToSet(in_flight[p])} : p \in Ranks \X Ranks}

AWQ == INSTANCE WorkQueueAbs WITH pending <- Pending,
                                  done <- {i \in ItemIds : processed[i] > 0},
                                  dropped <- discarded,
                                  created <- nextItem

\* The work queue, the comm's callbacks and its RPCs together implement the
\* abstract pool of WorkQueueAbs: inserts, remote inserts and moves only
\* add or carry pending work, every drain-loop pass runs the work function
\* on an item that was pending and no longer is, only local_clear, clear and
\* move assignment drop work, and a barrier completes with nothing pending
\* and, once every rank waits in it with nothing pending, does complete.
RefinesAbstract == AWQ!Spec

=============================================================================
