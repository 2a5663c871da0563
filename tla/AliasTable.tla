----------------------------- MODULE AliasTable -----------------------------
(***************************************************************************)
(* The construction of random/alias_table.hpp on every rank:               *)
(* balance_weight, which moves weight between ranks with async RPCs until  *)
(* each rank holds global_weight / nranks, then build_local_alias_table    *)
(* (Vose's method), and async_sample, the RPC that draws from the tables.  *)
(*                                                                         *)
(* Weights are exact.  The code's doubles are integers here: an input      *)
(* weight w is carried as N * w, so target_weight = global / N is a whole  *)
(* number, and build_local_alias_table scales its rank's weights by the    *)
(* item count so that avg_weight is whole too.  Rounding is not modelled.  *)
(***************************************************************************)
EXTENDS Integers, Sequences, SequencesExt, FiniteSets, FiniteSetsExt

CONSTANTS
  N,              \* m_comm.size()
  Ids,            \* item ids (the same id may be held by several ranks)
  MaxWeight,      \* input weights are 0..MaxWeight
  MaxLocalItems,  \* each rank starts with at most this many items
  PrefixScan,     \* "exclusive" or "inclusive": what ygm::prefix_sum returns
  NoId,           \* Item(): the default id put in the unreachable b slot
  MinTotal,       \* the least global input weight the initial states take in (0 or 1)
  NaN,            \* model value: a double that is not a number
  MaxSamples      \* async_sample calls the ranks make in all once their constructor returned

ASSUME N \in Nat \ {0} /\ PrefixScan \in {"exclusive", "inclusive"} /\ NoId \notin Ids
       /\ MinTotal \in {0, 1} /\ MaxSamples \in Nat

Ranks == 0..N-1

Item == [id : Ids, weight : Nat]

VARIABLES
  input,              \* [Ranks -> Seq(Item)]: what the constructor ingested (unchanged)
  m_local_items,      \* [Ranks -> Seq(Item)]
  new_local_items,    \* [Ranks -> Seq(Item)]: the collector the RPCs append to
  items_to_send,      \* [Ranks -> Seq(Item)]
  target_weight,      \* [Ranks -> Int]
  dest_rank,          \* [Ranks -> Int]
  curr_weight,        \* [Ranks -> Int]
  i,                  \* [Ranks -> Nat]: the loop index of balance_weight
  in_flight,          \* [Ranks \X Ranks -> Seq(Seq(Item))]: append RPCs not yet run
  m_local_alias_table,\* [Ranks -> Seq(Bucket)]
  m_avg_weight,       \* [Ranks -> Int]: avg_weight, in the rank's table units
  pc,                 \* [Ranks -> {...}]: where the rank is in the constructor
  samples,            \* [Ranks \X Ranks -> Nat]: sample_wrapper RPCs not yet run
  sample_calls        \* Nat: async_sample calls made so far

sampler == <<samples, sample_calls>>

vars == <<input, m_local_items, new_local_items, items_to_send, target_weight, dest_rank,
          curr_weight, i, in_flight, m_local_alias_table, m_avg_weight, pc,
          samples, sample_calls>>

Bucket == [p : Nat, a : Ids \cup {NoId}, b : Ids \cup {NoId}]

TypeOK ==
  /\ input \in [Ranks -> Seq(Item)]
  /\ m_local_items \in [Ranks -> Seq(Item)]
  /\ new_local_items \in [Ranks -> Seq(Item)]
  /\ items_to_send \in [Ranks -> Seq(Item)]
  /\ target_weight \in [Ranks -> Nat]
  /\ dest_rank \in [Ranks -> Int]
  /\ curr_weight \in [Ranks -> Nat \cup {NaN}]
  /\ i \in [Ranks -> Nat]
  /\ in_flight \in [Ranks \X Ranks -> Seq(Seq(Item))]
  /\ m_local_alias_table \in [Ranks -> Seq(Bucket)]
  /\ m_avg_weight \in [Ranks -> Nat]
  /\ pc \in [Ranks -> {"balance", "barrier126", "loop", "barrier171", "balanced",
                        "barrier240", "done"}]
  /\ samples \in [Ranks \X Ranks -> Nat]
  /\ sample_calls \in 0..MaxSamples

WeightOf(items) == FoldSeq(LAMBDA it, acc : it.weight + acc, 0, items)

\* ygm::sum and ygm::prefix_sum over the ranks' local weights.
GlobalWeight == MapThenSumSet(LAMBDA s : WeightOf(m_local_items[s]), Ranks)
PrefixWeight(r) ==
  MapThenSumSet(LAMBDA s : WeightOf(m_local_items[s]),
                IF PrefixScan = "exclusive" THEN 0..r-1 ELSE 0..r)

-----------------------------------------------------------------------------
(* balance_weight                                                          *)

\* int(prfx / target) and fmod(prfx, target) in double (lines 118, 120).
\* With a zero total, target is 0 and both are NaN (prfx is 0 too); the
\* conversion of NaN to int is undefined: cvttsd2si on x86-64 yields
\* INT_MIN, fcvtzs on AArch64 yields 0.
IntOfNaN == {-2147483647 - 1, 0}
DestRanks(prfx, target) == IF target = 0 THEN IntOfNaN ELSE {prfx \div target}
Spillage(prfx, target) == IF target = 0 THEN NaN ELSE prfx % target

\* curr_weight + w >= target_weight (line 132): false when curr is NaN.
Fills(curr, w, T) == curr # NaN /\ curr + w >= T

\* curr_weight += w (line 159): NaN stays NaN.
AddWeight(curr, w) == IF curr = NaN THEN NaN ELSE curr + w

\* Lines 110-126: the local and global weights, the target, the first
\* destination and the weight already spilled into it; then the barrier
\* that makes every collector exist before anything is sent.
balance_weight_setup(r) ==
  LET target == GlobalWeight \div N
      prfx   == PrefixWeight(r)
  IN /\ pc[r] = "balance"
     /\ target_weight' = [target_weight EXCEPT ![r] = target]
     /\ \E d \in DestRanks(prfx, target) : dest_rank' = [dest_rank EXCEPT ![r] = d]
     /\ curr_weight' = [curr_weight EXCEPT ![r] = Spillage(prfx, target)]
     /\ new_local_items' = [new_local_items EXCEPT ![r] = <<>>]
     /\ items_to_send' = [items_to_send EXCEPT ![r] = <<>>]
     /\ i' = [i EXCEPT ![r] = 1]
     /\ pc' = [pc EXCEPT ![r] = "barrier126"]
     /\ UNCHANGED <<input, m_local_items, in_flight, m_local_alias_table, m_avg_weight, sampler>>

Barrier126 ==
  /\ \A r \in Ranks : pc[r] = "barrier126"
  /\ pc' = [r \in Ranks |-> "loop"]
  /\ UNCHANGED <<input, m_local_items, new_local_items, items_to_send, target_weight,
                 dest_rank, curr_weight, i, in_flight, m_local_alias_table, m_avg_weight, sampler>>

\* async(dest, append items) when dest_rank < m_comm.size().  A negative
\* dest_rank passes the check; async to it is taken as fatal (ygm::comm,
\* which would reject it, is not in this repository): no step.
SendIfInRange(r, d, items) ==
  /\ d >= 0
  /\ in_flight' = IF d < N THEN [in_flight EXCEPT ![r, d] = Append(@, items)] ELSE in_flight

\* The loop condition i < m_local_items.size() is evaluated on every pass
\* (line 130): the remainders the loop appends are walked too.
\* Mutant: the size read once, before the loop.
LoopBound_cached(r) == Len(input[r])

LoopBound(r) == Len(m_local_items[r])

\* Mutant: the spillage already in the destination is forgotten.
RemainingWeight_no_curr(curr, w, T) == w - T

\* What is left of an item once it has filled its destination (line 133).
RemainingWeight(curr, w, T) == curr + w - T

\* One iteration of the loop of lines 130-162.
balance_weight_step(r) ==
  LET it     == m_local_items[r][i[r]]
      T      == target_weight[r]
      curr   == curr_weight[r]
      remaining == RemainingWeight(curr, it.weight, T)
      toSend == Append(items_to_send[r], [id |-> it.id, weight |-> it.weight - remaining])
      curr2  == IF remaining >= T THEN 0 ELSE remaining
  IN /\ pc[r] = "loop"
     /\ i[r] <= LoopBound(r)
     /\ i' = [i EXCEPT ![r] = @ + 1]
     /\ IF Fills(curr, it.weight, T)
          THEN /\ SendIfInRange(r, dest_rank[r], toSend)
               /\ m_local_items' = IF remaining >= T
                                     THEN [m_local_items EXCEPT ![r] =
                                             Append(@, [id |-> it.id, weight |-> remaining])]
                                     ELSE m_local_items
               /\ curr_weight' = [curr_weight EXCEPT ![r] = curr2]
               /\ items_to_send' = [items_to_send EXCEPT ![r] =
                                      IF curr2 # 0 THEN <<[id |-> it.id, weight |-> curr2]>>
                                      ELSE <<>>]
               /\ dest_rank' = [dest_rank EXCEPT ![r] = @ + 1]
          ELSE /\ items_to_send' = [items_to_send EXCEPT ![r] = Append(@, it)]
               /\ curr_weight' = [curr_weight EXCEPT ![r] = AddWeight(@, it.weight)]
               /\ UNCHANGED <<m_local_items, dest_rank, in_flight>>
     /\ UNCHANGED <<input, new_local_items, target_weight, m_local_alias_table,
                    m_avg_weight, pc, sampler>>

\* Lines 165-169: the loop is over; what is left in items_to_send goes to
\* dest_rank if that is a rank, and the rank enters the barrier of line 171.
balance_weight_flush(r) ==
  /\ pc[r] = "loop"
  /\ i[r] > LoopBound(r)
  /\ IF items_to_send[r] # <<>>
       THEN SendIfInRange(r, dest_rank[r], items_to_send[r])
       ELSE UNCHANGED in_flight
  /\ pc' = [pc EXCEPT ![r] = "barrier171"]
  /\ UNCHANGED <<input, m_local_items, new_local_items, items_to_send, target_weight,
                 dest_rank, curr_weight, i, m_local_alias_table, m_avg_weight, sampler>>

\* The append RPC (lines 141-143, 166-168) runs on its destination while
\* that rank waits in the barrier of line 171.
Deliver(s, r) ==
  /\ pc[r] = "barrier171"
  /\ in_flight[s, r] # <<>>
  /\ new_local_items' = [new_local_items EXCEPT ![r] = @ \o Head(in_flight[s, r])]
  /\ in_flight' = [in_flight EXCEPT ![s, r] = Tail(@)]
  /\ UNCHANGED <<input, m_local_items, items_to_send, target_weight, dest_rank,
                 curr_weight, i, m_local_alias_table, m_avg_weight, pc, sampler>>

\* The barrier of line 171 completes and every rank swaps its collector in
\* (line 172).
Barrier171 ==
  /\ \A r \in Ranks : pc[r] = "barrier171"
  /\ \A s, r \in Ranks : in_flight[s, r] = <<>>
  /\ m_local_items' = new_local_items
  /\ new_local_items' = m_local_items
  /\ pc' = [r \in Ranks |-> "balanced"]
  /\ UNCHANGED <<input, items_to_send, target_weight, dest_rank, curr_weight, i,
                 in_flight, m_local_alias_table, m_avg_weight, sampler>>

-----------------------------------------------------------------------------
(* build_local_alias_table                                                 *)

\* The leftover items of one stack, popped from the back, each becoming a
\* bucket whose coin always yields a (lines 228-239).
Drain(stack, avg) == [k \in 1..Len(stack) |-> [p |-> avg, a |-> Reverse(stack)[k].id, b |-> NoId]]

\* The heavy item's weight once the light item has filled its bucket,
\* written (h + l) - avg as in line 218.
ReducedWeight(h, l, avg) == (h.weight + l.weight) - avg

\* Mutant: the bucket names the heavy item as a and the light one as b.
PairBucket_swapped(l, h) == [p |-> l.weight, a |-> h.id, b |-> l.id]

\* The bucket a light item l and a heavy item h share (line 216).
PairBucket(l, h) == [p |-> l.weight, a |-> l.id, b |-> h.id]

\* The pairing loop of lines 213-224 over the light and heavy stacks, then
\* the drain of heavy and the drain of light, appended to table.
RECURSIVE Vose(_, _, _, _)
Vose(light, heavy, table, avg) ==
  IF light # <<>> /\ heavy # <<>>
    THEN LET l  == Last(light)
             h  == Last(heavy)
             hw == ReducedWeight(h, l, avg)
             t2 == Append(table, PairBucket(l, h))
         IN IF hw < avg
              THEN Vose(Append(Front(light), [id |-> h.id, weight |-> hw]), Front(heavy), t2, avg)
              ELSE Vose(Front(light), [heavy EXCEPT ![Len(heavy)].weight = hw], t2, avg)
    ELSE table \o Drain(heavy, avg) \o Drain(light, avg)

\* avg_weight of build_local_alias_table (lines 195-199).  Weights are scaled by
\* the item count n, so local_weight / n is the unscaled local weight.
LocalAvgWeight(r) == WeightOf(m_local_items[r])

\* The fatal checks after the swap: the rank holds an item (line 174) and
\* its local weight is target_weight (is_balanced, lines 178-184).  The
\* barrier and the is_same collective of lines 186-190 are left out: every
\* rank has already asserted its own weight equal to the common target, so
\* is_same holds, and nothing is in flight to be delivered there.
BalanceChecksPass(r) ==
  Len(m_local_items[r]) > 0 /\ LocalAvgWeight(r) = target_weight[r]

\* The constructor's tail on one rank once balance_weight has swapped the
\* collector in: the fatal checks (a failed check aborts, so the rank takes
\* no further step), then build_local_alias_table up to its barrier (lines
\* 194-240).
build_local_alias_table(r) ==
  LET items  == m_local_items[r]
      n      == Len(items)
      scaled == [k \in 1..n |-> [id |-> items[k].id, weight |-> items[k].weight * n]]
      avg    == LocalAvgWeight(r)
  IN /\ pc[r] = "balanced"
     /\ BalanceChecksPass(r)
     /\ m_local_alias_table' = [m_local_alias_table EXCEPT ![r] =
          Vose(SelectSeq(scaled, LAMBDA it : it.weight < avg),
               SelectSeq(scaled, LAMBDA it : it.weight >= avg), <<>>, avg)]
     /\ pc' = [pc EXCEPT ![r] = "barrier240"]
     /\ UNCHANGED <<input, m_local_items, new_local_items, items_to_send, target_weight,
                    dest_rank, curr_weight, i, in_flight, m_avg_weight, sampler>>

\* Rank r leaves the barrier of line 240, sets m_num_items_uniform_dist,
\* m_bucket_weight_dist and m_avg_weight (lines 241-243), and clears
\* m_local_items (line 106): its constructor returns.  The barrier lets a
\* rank out once every rank has entered it with nothing in flight (spec
\* glossary); the ranks leave it one at a time, and a rank still inside
\* keeps running RPCs (spec section 5).
Barrier240Exit(r) ==
  /\ pc[r] = "barrier240"
  /\ \A s \in Ranks : pc[s] \in {"barrier240", "done"}
  /\ m_avg_weight' = [m_avg_weight EXCEPT ![r] = LocalAvgWeight(r)]
  /\ m_local_items' = [m_local_items EXCEPT ![r] = <<>>]
  /\ pc' = [pc EXCEPT ![r] = "done"]
  /\ UNCHANGED <<input, new_local_items, items_to_send, target_weight, dest_rank,
                 curr_weight, i, in_flight, m_local_alias_table, sampler>>

-----------------------------------------------------------------------------
(* async_sample                                                            *)

\* User code on rank s, its constructor returned, calls async_sample: an RPC
\* to a rank drawn by m_rank_dist over 0..size()-1 (lines 248-264).
async_sample(s) ==
  /\ pc[s] = "done"
  /\ sample_calls < MaxSamples
  /\ \E d \in Ranks : samples' = [samples EXCEPT ![s, d] = @ + 1]
  /\ sample_calls' = sample_calls + 1
  /\ UNCHANGED <<input, m_local_items, new_local_items, items_to_send, target_weight,
                 dest_rank, curr_weight, i, in_flight, m_local_alias_table, m_avg_weight, pc>>

\* sample_wrapper (lines 251-261) runs on rank d while d makes progress: in
\* the barrier of line 240, or in any later barrier or collective.  It reads
\* m_local_alias_table, m_num_items_uniform_dist, m_avg_weight and
\* m_bucket_weight_dist, and hands the id to the visitor, whose effects are
\* the user's.
SampleRun(s, d) ==
  /\ samples[s, d] > 0
  /\ pc[d] \in {"barrier240", "done"}
  /\ samples' = [samples EXCEPT ![s, d] = @ - 1]
  /\ UNCHANGED <<input, m_local_items, new_local_items, items_to_send, target_weight,
                 dest_rank, curr_weight, i, in_flight, m_local_alias_table, m_avg_weight, pc,
                 sample_calls>>

-----------------------------------------------------------------------------

\* What the constructor can be given: up to MaxLocalItems items per rank,
\* weights 0..MaxWeight (carried as N * w), and a total weight of at least
\* MinTotal (the spec makes a zero total a fatal input error).
InputSeqs ==
  UNION {[1..k -> [id : Ids, weight : {N * w : w \in 0..MaxWeight}]] : k \in 0..MaxLocalItems}

Init ==
  /\ input \in {f \in [Ranks -> InputSeqs] :
                  MapThenSumSet(LAMBDA s : WeightOf(f[s]), Ranks) >= MinTotal}
  /\ m_local_items = input
  /\ new_local_items = [r \in Ranks |-> <<>>]
  /\ items_to_send = [r \in Ranks |-> <<>>]
  /\ target_weight = [r \in Ranks |-> 0]
  /\ dest_rank = [r \in Ranks |-> 0]
  /\ curr_weight = [r \in Ranks |-> 0]
  /\ i = [r \in Ranks |-> 0]
  /\ in_flight = [p \in Ranks \X Ranks |-> <<>>]
  /\ m_local_alias_table = [r \in Ranks |-> <<>>]
  /\ m_avg_weight = [r \in Ranks |-> 0]
  /\ pc = [r \in Ranks |-> "balance"]
  /\ samples = [p \in Ranks \X Ranks |-> 0]
  /\ sample_calls = 0

Next ==
  \/ \E r \in Ranks : \/ balance_weight_setup(r) \/ balance_weight_step(r)
                      \/ balance_weight_flush(r) \/ build_local_alias_table(r)
                      \/ Barrier240Exit(r) \/ async_sample(r)
  \/ Barrier126
  \/ \E s, r \in Ranks : Deliver(s, r)
  \/ Barrier171
  \/ \E s, d \in Ranks : SampleRun(s, d)

Spec == Init /\ [][Next]_vars

\* Every rank runs its constructor to the end unless a fatal check stops
\* it, and the barriers complete once every rank is in them with nothing in
\* flight (spec section 5): each step is weakly fair.
Fairness ==
  /\ \A r \in Ranks : /\ WF_vars(balance_weight_setup(r)) /\ WF_vars(balance_weight_step(r))
                      /\ WF_vars(balance_weight_flush(r)) /\ WF_vars(build_local_alias_table(r))
                      /\ WF_vars(Barrier240Exit(r))
  /\ \A s, r \in Ranks : WF_vars(Deliver(s, r))
  /\ WF_vars(Barrier126) /\ WF_vars(Barrier171)

FairSpec == Spec /\ Fairness

-----------------------------------------------------------------------------
(* Properties.                                                             *)

\* After the swap every rank holds at least one item and exactly
\* global_weight / nranks (the fatal checks of lines 174-175 and 184).
RanksBalanced ==
  \A r \in Ranks : pc[r] = "balanced" =>
    /\ Len(m_local_items[r]) > 0
    /\ WeightOf(m_local_items[r]) = target_weight[r]

\* What rank r still carries of the input before its table is built: its
\* items before the loop; during the loop the items not yet walked (the
\* live m_local_items, remainders included), the fragment being gathered
\* in items_to_send and what its collector received; after the swap its
\* balanced items.  At barrier171 items_to_send was flushed (or dropped).
Carried(r) ==
  CASE pc[r] \in {"balance", "barrier126", "balanced", "barrier240"} -> m_local_items[r]
    [] pc[r] = "loop" ->
         SubSeq(m_local_items[r], i[r], Len(m_local_items[r])) \o items_to_send[r]
           \o new_local_items[r]
    [] pc[r] = "barrier171" -> new_local_items[r]

InFlightFrom(r) ==
  FoldSeq(LAMBDA msg, acc : msg \o acc, <<>>,
          FoldSet(LAMBDA d, acc : in_flight[r, d] \o acc, <<>>, Ranks))

WeightOfId(items, x) == WeightOf(SelectSeq(items, LAMBDA it : it.id = x))

\* No weight of any id is created or lost by balance_weight (spec 8.2): at
\* every step, on every rank and for every id, the input weight is the sum
\* of what the ranks still walk or gather, what append RPCs carry, and
\* what the collectors hold; after the swap, of the balanced items.  A send
\* to dest_rank >= size() (lines 139, 165) that carries weight, a fragment
\* split wrongly (lines 133-134) or a remainder never walked breaks it.
WeightConserved ==
  (\A r \in Ranks : pc[r] # "done") =>
    \A x \in Ids :
      MapThenSumSet(LAMBDA r : WeightOfId(input[r], x), Ranks)
        = MapThenSumSet(LAMBDA r : WeightOfId(Carried(r) \o InFlightFrom(r), x), Ranks)

\* The constructor returns on every rank, for every input: the loop of
\* lines 130-162 ends although it walks the remainders it appends, every
\* append RPC is delivered so both barriers complete, and no fatal check
\* of lines 174-175 stops a rank.
ConstructorReturns == <>(\A r \in Ranks : pc[r] = "done")

\* A sample RPC runs on a rank only once that rank has left the barrier of
\* line 240 and set m_num_items_uniform_dist and m_avg_weight (lines
\* 241-243): before that the bucket index is drawn from the default
\* 0..2^64-1 and m_avg_weight is uninitialised.  A rank that leaves the
\* barrier first and calls async_sample (as test_alias_table.cpp does right
\* after construction) can reach a rank still inside it.
SampleSeesTable == [][\A s, d \in Ranks : SampleRun(s, d) => pc[d] = "done"]_vars

\* A zero global weight is a fatal input error (spec 4.3 failure modes and
\* section 7): the constructor does not return on every rank.  The code
\* checks nothing before dividing by target_weight = 0 (line 118); with
\* more than one rank, the ranks left empty stop at the check of line 174.
ZeroTotalIsFatal ==
  MapThenSumSet(LAMBDA r : WeightOf(input[r]), Ranks) = 0 => \E r \in Ranks : pc[r] # "done"

\* The weight, in table units, with which rank r's table yields id x: the
\* coin of bucket (p, a, b) yields a with probability p / avg_weight and b
\* otherwise, b only when p < avg_weight (async_sample, lines 252-259).
Mass(r, x) ==
  LET t == m_local_alias_table[r]
      avg == m_avg_weight[r]
  IN FoldSeq(LAMBDA bk, acc :
               acc + (IF bk.a = x THEN bk.p ELSE 0)
                   + (IF bk.b = x /\ bk.p < avg THEN avg - bk.p ELSE 0), 0, t)

\* async_sample picks a rank uniformly, then a bucket uniformly, then flips
\* the coin: rank r yields x with probability Mass(r, x) / (N * Denom(r)).
Denom(r) == Len(m_local_alias_table[r]) * m_avg_weight[r]

ProductOver(S) == FoldSet(LAMBDA s, acc : Denom(s) * acc, 1, S)

\* Once every rank has built its table, a sample is x with probability
\* (input weight of x) / (global input weight), for every id x, whatever
\* order the append RPCs arrived in (spec 8.2 and 8.4 in exact arithmetic).
SamplingUnbiased ==
  (\A r \in Ranks : pc[r] = "done") =>
    LET G    == MapThenSumSet(LAMBDA s : WeightOf(input[s]), Ranks)
        W(x) == MapThenSumSet(LAMBDA s : WeightOf(SelectSeq(input[s], LAMBDA it : it.id = x)), Ranks)
    IN \A x \in Ids :
         G * MapThenSumSet(LAMBDA r : Mass(r, x) * ProductOver(Ranks \ {r}), Ranks)
           = N * W(x) * ProductOver(Ranks)

=============================================================================
