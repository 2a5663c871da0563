---------------------------- MODULE QueuePolicy ----------------------------
(***************************************************************************)
(* The three queue orderings of container/detail/work_queue_policy.hpp.    *)
(* Each policy is a static push/top/pop/empty/size surface over a std      *)
(* container; here the container is kept as the sequence of the items it   *)
(* holds in insertion order, and each policy reads that sequence its own   *)
(* way: fifo_policy (std::queue) from the front, lifo_policy (std::stack)  *)
(* from the back, priority_policy (std::priority_queue<Item, vector, Comp>)*)
(* at an element no other element is Comp-greater than.                    *)
(***************************************************************************)
EXTENDS Naturals, Sequences, SequencesExt

CONSTANT Comp(_, _)     \* the priority policy's comparator (std::less: max on top)

\* The queues a user can make: make_fifo_work_queue, make_lifo_work_queue
\* and make_priority_work_queue (work_queue.hpp 221-235).
Policies == {"fifo", "lifo", "priority"}

\* fifo_work_queue, lifo_work_queue and priority_work_queue (work_queue.hpp
\* 211-219) bind the queue to one policy struct, and its top() reads the
\* std container: q.front() of std::queue (line 55), q.top() of std::stack
\* (line 84), q.top() of std::priority_queue (line 26).
\* Position in the held sequence of the item top() returns.  std::priority_
\* queue breaks ties by its heap layout; the models use distinct items, so
\* the maximal element is unique.
TopIndex(policy, q) ==
  CASE policy = "fifo"     -> 1
    [] policy = "lifo"     -> Len(q)
    [] policy = "priority" ->
         CHOOSE i \in 1..Len(q) : \A j \in 1..Len(q) : ~Comp(q[i], q[j])

push(q, item) == Append(q, item)

top(policy, q) == q[TopIndex(policy, q)]

pop(policy, q) == RemoveAt(q, TopIndex(policy, q))

empty(q) == q = <<>>

size(q) == Len(q)

=============================================================================
