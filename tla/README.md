# TLA+ models of the YGM work queue, alias table, contains helper and logger

This directory holds TLA+ models of the two containers in this repository,
of the `contains` collective and of the per-rank logger,
the TLC configurations that check them, and `PROJECT.json`, which maps every
model definition to the source lines it translates and lists the runs, the
mutants, the findings and the hazards.

## The system

The code runs one process per rank over an MPI-style communicator (`ygm::comm`).
The communicator is not part of this repository. Its contract (spec, sections 5
and 6) is:

- `async` is a fire-and-forget RPC, delivered in send order between any pair
  of ranks;
- `register_pre_barrier_callback` installs a callback that runs inside the
  next barrier;
- `barrier` returns once every rank is in it, every callback has run and no
  RPC is in flight;
- `sum`, `prefix_sum`, `is_same` and `logical_or` are collective reductions.

Within a rank, execution is single-threaded. Callbacks and RPC handlers run
only while the rank waits inside a barrier or a collective.

| Part | Source | Module |
|---|---|---|
| Queue-order policies | `container/detail/work_queue_policy.hpp` | `QueuePolicy` |
| Work queue | `container/work_queue.hpp` | `WorkQueue`, `MCWorkQueue`; abstract contract `WorkQueueAbs` |
| Communicator (barrier, callbacks, async) | not in this repo; from the spec | inside `WorkQueue` and `AliasTable` |
| Weight balancer (`balance_weight`) | `random/alias_table.hpp` 109-176 | `AliasTable` |
| Local alias table (Vose) | `random/alias_table.hpp` 194-244 | `AliasTable` (`Vose`, RECURSIVE) |
| Two-level sampler (`async_sample`) | `random/alias_table.hpp` 248-265 | `AliasTable` (`Mass`, `Denom`), as a distribution |
| `contains` helper | `container/detail/base_contains.hpp` | `Contains`, `MCContains` |
| Logger | `detail/logger.hpp` | `Logger`, `MCLogger` |

### How the parts interact

A work queue registers a pre-barrier callback the first time an item is
inserted in a batch, guarded by the flag `m_callback_registered`. The
callback drains the queue with the user's work lambda and then resets the
flag. The lambda may insert into its own queue, or `async` an item to another
rank, whose handler `local_insert`s it there and may register a new callback
while the barrier is still running.

The alias table's constructor runs `balance_weight` and then
`build_local_alias_table`:

- `balance_weight` sums the weights, takes a prefix sum, and walks the local
  items, sending fragments by `async` to the rank whose share they fill. It
  uses two barriers, and the remainder of an item heavier than the target is
  appended to the list being walked.
- `build_local_alias_table` builds the Vose table from what each rank
  received.

## Modules

**QueuePolicy** keeps a queue as the sequence of its items in insertion
order. `TopIndex` says where each policy reads it:

- FIFO reads the front;
- LIFO reads the back;
- priority reads an element that no other element is `Comp`-greater than.

`push`, `top`, `pop`, `empty` and `size` are the static functions of the
three policy structs. The aliases `fifo_work_queue`, `lifo_work_queue` and
`priority_work_queue` (work_queue.hpp 211-219) bind a queue to one struct,
which is what the `policy` argument of `TopIndex` selects. `Policies` is the
three factories (221-235).

**WorkQueue** models each rank's work queues together with the communicator.

- *State.* The code's own members are `m_local_queue` and
  `m_callback_registered`, per (rank, object). The communicator's state is:
  - `pre_barrier_callbacks`, a per-rank list of the objects whose `this` a
    registered lambda captured;
  - `running`, the callback in progress;
  - `in_flight`, a per-pair FIFO of RPCs;
  - `phase`, whether a rank is in user code or in a barrier.
- *Ghost variables.* `nextItem`, `processed`, `discarded` and `moves` record
  what happened to each item.
- *Code actions.* One action per operation, each translated from the code:
  - `UserInsert`/`local_insert` (lines 136-143);
  - `register_processing_callback` (194-202);
  - `local_process_all` (one pass of the loop at 151-159, with the work
    lambda in the same step);
  - `UserProcessAll` and `local_process_all_return`: the public
    `local_process_all()` called from user code. It runs the same loop,
    leaves the flag and any pending callback as they are, and blocks the
    rank's other user actions until it returns (`UserIdle`);
  - `process_all_lambda_done` (line 197);
  - `local_clear` (185-187);
  - `clear` (124-127);
  - `MoveConstruct` (75-89; collective, because `pthis.check` is);
  - `MoveAssign` (91-106);
  - `work_queue_dtor` (68-73): the rank enters the destructor's barrier,
    and `BarrierComplete` destroys the object once that barrier completes.
    Every rank destroys the same object at the same barrier (`JoinDtor`),
    and no plain barrier is entered beside it (`NoDtorPending`).
- *Work lambda.* `WorkLambda` is the free user function, with the three
  choices the tests exercise: do nothing, insert into itself, or `async` to
  any rank.
- *Communicator actions.* `EnterBarrier`, `RunCallback`, `Deliver` and
  `BarrierComplete` follow spec section 5. `BarrierComplete` releases every
  rank in one step, like the abstract barrier whose refinement counts a
  released process as already outside. A comm that lets ranks leave one at
  a time is not covered: see "Not modelled".

**WorkQueueAbs** is what a work queue promises its user, with no queues,
flags, callbacks or messages: a pool of pending items. Each item is
processed at most once, inside a barrier or in a user's call of
`local_process_all`, or discarded in user code. A barrier completes only when nothing is pending, and it must complete
once every rank waits in it with nothing pending. `WorkQueue` instantiates it
as `AWQ` with this refinement mapping:

- `pending` is the items in any queue or RPC;
- `done` is the items processed;
- `dropped` is `discarded`;
- `created` is `nextItem`.

**Contains** models `contains(value)` on every rank: the barrier of line 29,
then `logical_or` of `local_contains` (lines 30-31). The container around it
is not in this repository. As the spec describes the containers,
`async_insert` sends the value to its owner rank, and the insert runs there
when the barrier delivers it. This part is modelled from the spec.

**Logger** models one rank's `detail::logger`:

- the constructor, with its `is_directory` branch;
- `set_path`, `set_log_level` and `set_logger_target`;
- both `log` overloads, with the level filter and the lazy file sink.

The file system is abstracted to a one-level tree under `.`: `dirs` are the
existing directories and `files` the files the logger created. A path is a
`dir`/`leaf` pair, and leaf `""` is a trailing separator. `FileLog` is lines
144-155:

- `create_directories(m_path.parent_path())` throws when the parent exists
  as a plain file;
- opening the `basic_file_sink` throws when `m_path` is a directory.

An exception ends the loop of `log(targets, ...)` (`LogAll`, RECURSIVE).
The history `written` records every message a sink received, with the path
of the file sink.

**AliasTable** models the alias-table constructor on N ranks.

- `pc` follows each rank through:
  - the setup of `balance_weight` (lines 110-126);
  - the barrier at 126;
  - one loop iteration per step (130-162, with the live `m_local_items.size()`
    bound);
  - the flush (164-169);
  - the barrier and swap at 171-172;
  - the fatal checks at 174-184 (`BalanceChecksPass`), then
    `build_local_alias_table` up to the barrier at 240;
  - `Barrier240Exit`, the rank's own exit from that barrier, which sets
    `m_avg_weight` and the bucket distribution (241-243) and clears
    `m_local_items` (line 106).
- `Deliver` runs the append RPC on a rank waiting at line 171.
- *Barrier exit.* The barriers at 126 and 171 complete on all ranks in one
  step. At 240 each rank leaves on its own once every rank has entered: the
  spec's barrier only keeps a rank in until all have entered with nothing
  in flight, and a rank still inside runs RPCs (spec section 5 and
  glossary). After 126 and 171 a rank runs no RPC before its next barrier,
  so one-at-a-time exit changes nothing there.
- *Sampler.* `async_sample(s)` is a user call on a rank whose constructor
  returned. It sends `sample_wrapper` to any rank (lines 248-264), up to
  `MaxSamples` calls in all. `SampleRun(s, d)` runs it on rank d inside the
  barrier at 240, or later.
- *Exact arithmetic.* The float arithmetic is replaced by exact integer
  arithmetic in two ways:
  - input weights are carried as N·w, so `target_weight` = G/N is an
    integer;
  - the Vose step scales the rank's weights by its item count n, so
    `avg_weight` is the rank's unscaled weight.

  The table this produces is the code's table scaled by a constant.
- *Sampling.* `Mass(r, x)` is the weight rank r's table gives id x through
  `async_sample`'s bucket draw and coin. `Denom(r)` is the table's total.
- *Zero total.* `MinTotal` sets the least total input weight of the
  initial states: 1 in the passing runs, 0 in `alias_zero_total`. With a
  zero total, `target_weight` is 0 and these operators model the results:
  - `Spillage` gives the NaN that `fmod` returns;
  - `DestRanks` gives the undefined `int(NaN)`, chosen from `IntOfNaN`:
    INT_MIN on x86-64 (`cvttsd2si`) and 0 on AArch64 (`fcvtzs`);
  - `Fills` makes NaN fail the comparison at line 132, and `AddWeight` keeps
    NaN through line 159.

  A negative `dest_rank` passes the check `dest_rank < size()`. The `async`
  to it is taken as fatal, because `ygm::comm` is not in this repository.
- *Prefix sum.* `PrefixScan` selects whether `prefix_sum` is exclusive (what
  the code needs) or inclusive (what spec section 6 says).

## Runs

| Run | Checks | Shows |
|---|---|---|
| `wq_fifo`, `wq_lifo`, `wq_priority` | `EachItemOnce`, `NoStrandedWork`, `BarrierLeavesQueuesEmpty`, `BarrierCompletes`, `EveryItemHandled`, `NoDanglingThis` | Under inserts, self-inserts, remote re-inserts, clears, moves and destructors: every item is processed exactly once or was dropped by a clear or an overwriting move. A queue with work always has a callback that will drain it. Every completed barrier leaves all queues empty and all flags reset (the destructor's assert). Barriers complete, and every item is eventually handled. No callback, running drain or RPC refers to a destroyed object. |
| `wq_refines` | `RefinesAbstract` | The fifo instance implements `WorkQueueAbs`, fairness included. |
| `alias_2ranks`, `alias_3ranks` | `WeightConserved`, `RanksBalanced`, `SamplingUnbiased`, `ConstructorReturns` | For every input within the bounds and every delivery order: no step of `balance_weight` creates or loses weight of any id (spec 8.2), every rank ends with exactly G/N, and the tables sample each id with probability exactly W(x)/G. The constructor returns on every rank: the growing loop ends, its three barriers complete, and no fatal check fires. |
| `contains_barrier` | `ContainsSeesInserts` | With inserts to either owner still in flight when `contains` is called, it returns true exactly when the value was inserted before the call. |
| `logger_paths` | `FileLogsFollowPath` | For every constructor path and every sequence of `set_path`, level and target changes and up to three logs, every file message goes to the file `m_path` names when it is logged. |
| `logger_default_path` (violation) | `NoLogThrows` | The default constructor's `./log/` makes the first file log throw when `./log` does not exist at construction. |
| `alias_inclusive_prefix` (violation) | `RanksBalanced` | With the inclusive `prefix_sum` that spec section 6 states, the last rank's weight is addressed to rank N and dropped. |
| `alias_sample_race` (violation) | `SampleSeesTable` | A rank that leaves the barrier at line 240 first and samples at once has its sample run on a rank still inside that barrier, before lines 241-243 set the bucket distribution and `m_avg_weight`. |
| `alias_zero_total` (violation) | `ZeroTotalIsFatal` | One rank with only zero-weight items: the constructor returns and builds a table, where the spec calls a zero total fatal. |

### Bounds

- **WorkQueue: 2 ranks, 2 objects, 3 items, 2 moves.**
  - The second object exists only through a move construction, so both kinds
    of move and moves of queues with pending callbacks all occur.
  - Three items are enough for an item to be inserted by the work lambda of
    an item that was itself re-inserted remotely.
  - In the priority run, the comparator orders item values that are neither
    creation order nor its reverse.
- **Contains: 2 ranks, 2 values with different owners, 2 inserts per
  rank.** These bounds let an insert of the queried value come from either
  rank, to a remote or a local owner. They also cover an insert still in
  flight when every rank has called `contains`.
- **Logger: directories `log` and `out`, file name `run`, one message, 3
  log calls.**
  - The initial states include every subset of existing directories and
    every user path shape (`./d`, `d/`, `d/f`).
  - Three calls are enough for: open a sink, `set_path`, then log again.
  - The violation run uses the default constructor's path and 2 calls: one
    to raise the level, one to log.
- **AliasTable.**
  - 2 ranks, up to 2 items per rank, weights 0..3: this covers heavy items
    that span both ranks, zero-weight items, and ranks that start empty.
  - 3 ranks, 1 item per rank: this covers an item spanning three ranks,
    whose remainder is walked twice by the growing loop.
  - Two ids, so that duplicated ids across ranks, and the spec's "additive"
    case, both occur.
  - One `async_sample` call in every alias run: a sample can go to either
    rank, and it can run before or after its destination leaves the barrier
    at 240.
  - The zero-total run has 1 rank, up to 2 items and weights 0..1, with
    `MinTotal` = 0. The finding needs exactly one rank: with two ranks the
    same model finds no violation, as the finding explains.

### Fairness

Weak fairness is assumed for `EnterBarrier`, `RunCallback`,
`local_process_all`, `process_all_lambda_done`, `Deliver` and
`BarrierComplete`:

- Once every rank is inside a barrier, the barrier loop keeps running
  callbacks and delivering RPCs until it is quiescent (spec section 5).
- Every rank reaches a barrier again, at the latest the one in
  `~work_queue`.

Weak fairness of `JoinDtor` says that a rank reaches a destructor another
rank already waits in: destructors are collective, run at the same point of
the program on every rank.

No fairness is assumed for user inserts, clears or moves. `WorkQueueAbs`
assumes only weak fairness of `Complete`, which is what the barrier
promises.

The alias-table runs use `FairSpec`, with weak fairness of every step of
every rank, of both barriers and of each rank's exit from the barrier at
240. Sample RPCs have no fairness: no property needs them to run. A rank runs its constructor without
waiting on anything but the barriers, and the barriers complete once every
rank is in them with nothing in flight. `ConstructorReturns` is checked
under this fairness.

The contains and logger runs check only safety and use no fairness. The alias-table and contains cfgs say `CHECK_DEADLOCK FALSE`
because the call returns: the final state has no successor. The logger
runs check deadlock: the setters stay enabled after the `MaxLogs` bound,
so no state is final.

### Mutants

Each property of each passing run has a mutant in `PROJECT.json`: a one-line
operator placed just before the definition it replaces, standing for a
plausible bug.

| Mutant | Plausible bug it stands for | Breaks |
|---|---|---|
| `SourceAfterMove_copy` | a copy instead of a move | `EachItemOnce` |
| `local_insert_inverted` | the flag test inverted | `NoStrandedWork` |
| `Rearms_never` | no re-registration after a move | `BarrierLeavesQueuesEmpty` |
| `Popped_not` | a missing pop | `BarrierCompletes` |
| `FlagAfterDrain_kept` | a missing flag reset | `EveryItemHandled` |
| `LoopBound_cached` | (as above) | `ConstructorReturns` (a rank stops at the fatal check) |
| `work_queue_dtor_no_barrier` | the destructor's barrier missing | `NoDanglingThis` |
| `SourceAfterMove_copy` | (as above) | `RefinesAbstract` |
| `RemainingWeight_no_curr` | the spill-over forgotten | `WeightConserved` |
| `contains_no_barrier` | the barrier of line 29 missing | `ContainsSeesInserts` |
| `SinkAfterSetPath_kept` | `set_path` keeps the open sink | `FileLogsFollowPath` |
| `LoopBound_cached` | a cached loop size | `RanksBalanced` |
| `PairBucket_swapped` | a and b swapped | `SamplingUnbiased` |

Each module states a `TypeOK`. None is checked by a run: no plausible code
bug yields an ill-typed state in these abstractions, and the runs spend
their properties on what could really go wrong.

## Findings

- **The inclusive prefix sum.** `ygm::prefix_sum` is documented as
  inclusive (spec section 6), but `balance_weight` needs the exclusive scan.
  See the comment at line 120, and P_{r-1} in spec section 4.3.
  `alias_inclusive_prefix` shows the consequence.
- **On one rank, a zero total weight is not fatal** (`alias_table.hpp:118`).
  The spec calls a non-positive total a fatal input error (sections 4.3 and
  7), but the code divides by `target_weight` = 0 without a check. What
  follows depends on the build and on the number of ranks:
  - on AArch64, `int(NaN)` is 0 and every item is sent to rank 0. With one
    rank, the checks at 174-184 pass (0 = 0), Vose builds a table with
    `avg_weight` 0, and the constructor returns;
  - with two or more ranks on AArch64, the other ranks end up with no items
    and stop at the check at line 174, so the zero total is fatal. A run
    with N = 2 finds no violation;
  - on x86-64, `dest_rank` is INT_MIN and the `async` to it is taken as
    fatal.

  So the spec's promise fails only on a single rank, and elsewhere it holds
  through checks that test something else. `alias_zero_total` gives the
  one-rank trace.
- **A sample can run before the table is ready** (`alias_table.hpp:240`).
  `build_local_alias_table` enters its barrier before it sets
  `m_num_items_uniform_dist`, `m_bucket_weight_dist` and `m_avg_weight`.
  A rank that leaves first and calls `async_sample`, as
  `test_alias_table.cpp` does right after construction, can have the
  sample run on a rank still inside the barrier. That rank draws a bucket
  index from the default range 0..2^64-1 and reads an uninitialised
  `m_avg_weight`. Whether `ygm::comm` lets a rank run an RPC after another
  rank has left the same barrier is not in this repository. The spec's
  barrier allows it. Setting the three members before the barrier removes
  the race. `alias_sample_race` gives the trace.
- **The logger's default path** (`logger.hpp:66`). `logger(rank)` passes
  `./log/`. When `./log` does not exist at construction, `is_directory` is
  false and `m_path` stays `./log/`. The first file log then goes wrong:
  1. it creates `./log`, the parent of `./log/`;
  2. it opens `./log/` itself, now a directory, as the sink's file;
  3. spdlog throws, and `log` propagates the exception.

  The constructor's own branch shows the intended file: `<dir>/ygm_logs`.
  `logger_default_path` gives the trace.

## Not modelled, and what is left

- **Floating-point rounding.** The model is exact. The tolerance of 1e-6 and
  the rounding of `/` against `fmod` are out of its reach.
- **Per-rank barrier exit elsewhere.** Only the barrier at
  alias_table.hpp:240 lets ranks leave one at a time.
  - The alias-table barriers at 126 and 171 complete atomically. After them
    a rank runs no RPC before its next barrier, so one-at-a-time exit
    changes nothing.
  - The work-queue barriers are different. A rank that leaves first could
    run a user drain whose `async` reaches a rank still inside, which would
    then leave with a non-empty queue. `BarrierLeavesQueuesEmpty` is
    checked only under atomic completion. Per-rank exit would multiply the
    550,000-state work-queue space past the run budget. It is listed as a
    hazard.
- **Collectives that only synchronise.** The barriers of
  `build_alias_table` (alias_table.hpp:101 and 103), the barrier at 186 and
  the `is_same` at 190 are left out. Nothing is in flight at any of them,
  and `is_same` holds because every rank has already asserted its own
  weight equal to the common target.
- **Run time.** The user calls of `local_process_all` roughly triple the
  WorkQueue state space, to about 550,000 states. Each policy run takes
  about three minutes with two workers, most of it in liveness checking.
  More items or a third rank are out of reach.
- **Drain order (spec 8.6).** `QueuePolicy` keeps each queue in insertion
  order and reads it by the policy, so a drain-order property would hold by
  the shape of the model. It is not stated.
- **Logger.** These parts are not modelled:
  - `flush()`, which only pushes spdlog's buffer to the file;
  - the `get_*` accessors;
  - message formatting and the rank flag (lines 36-54, 77-91);
  - the spdlog level table (31-34): sinks are set to `trace`, so the
    model's filter is the only one.
- **The `contains` container.** `async_insert` and the local storage are
  modelled from the spec, because the containers are not in this
  repository.
