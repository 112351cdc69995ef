# A verification development for eden.cpp

eden.cpp is an inference engine for language models (a frozen fork of llama.cpp) with an HTTP
server. This directory models its core in TLA+: the key/value cache that a decode fills, with its saved
states, the memory of recurrent models, the task queue and slot scheduling of the server, its router of
model processes, the thread pool that computes graphs, and the log. TLC checks the models on small
instances; TLAPS proves, for every size, the cache's bookkeeping, the slots its dry run finds, that it
implements an abstract store of sequences and delivers the K rows it announces, the accounting of the
server's tasks, the safety of the router and of the thread pool and the correctness of the log. Paths below are relative to the repository.

## 1. Inventory

| Component | State it keeps | Operations | Talks to |
|---|---|---|---|
| KV cells (`src/eden-kv-cells.h`) | position, sequences and pending shift of every cell; per-sequence counts of positions; set of used cells | `set`, `cp`, `rm`, `seq_rm/keep/add`, `pos_set/add/div`, `reset` | used by the KV cache only |
| KV cache (`src/eden-kv-cache.cpp`) | one set of cells and a search head per stream, K/V rows, queued stream copies | `clear`, `seq_rm/cp/keep/add/div`, `init_batch`, `prepare`, `find_slot`, `apply_ubatch`, `update` (copies, K-shift), state save/restore | called by the context; computes graphs |
| Decode (`src/eden-context.cpp`) | output buffers, the memory, the scheduler | `decode`, `process_ubatch`, `memory_update` | batch allocator, memory, backends |
| Batch allocator (`src/eden-batch.cpp`) | the validated batch, used tokens | `init`, `split_simple/equal/seq` | memory modules |
| Recurrent memory (`src/eden-memory-recurrent.cpp`) | one cell per sequence (`pos`, `src`, sequences), the tail of every sequence, `head`, `used`, `rs_idx`; a row per cell and snapshot group | `seq_*`, `prepare`, `find_slot`, `s_copy`, state save/restore | context; every graph starts with the copies it asks for |
| SWA pair, hybrid memories (`src/eden-kv-cache-iswa.cpp`, `src/eden-memory-hybrid*.cpp`) | two caches; a cache and a recurrent memory | the same interface (`eden_memory_i`) | context |
| Server queue (`tools/server/server-queue.cpp`) | `queue_tasks`, `queue_tasks_deferred`, running/sleeping flags; `waiting_task_ids`, `queue_results` | `post`, `defer`, `pop_deferred_task`, `start_loop`, `wait_until_no_sleep`, `terminate`; `send`, `recv`; `post_tasks`, `next`, `stop` | HTTP threads on one side, the main loop on the other: two mutexes, two condition variables |
| Slot scheduling (`tools/server/server-context.cpp`) | slots with state and task, the shared batch, `n_empty_consecutive` | `process_single_task`, `update_slots`, `launch_slot(s)`, `release` | callbacks from the queue; `eden_decode` |
| Router (`tools/server/server-models.cpp`) | `mapping` of models to status and child process, `stopping_models`; three threads per running model | `load`, `unload`, `unload_lru`, `unload_all`, `ensure_model_ready`; managing, log and stopping threads | child servers over pipes, signals and HTTP |
| CPU thread pool (`ggml/src/ggml-cpu/ggml-cpu.c`) | graph counter, barrier counters, chunk counter, abort/pause/stop; per thread its last graph | compute (kick-off, walk, barrier, abort), pause, resume, free | CPU backend |
| Log (`common/log.cpp`) | growing ring of entries, worker thread, file | `add`, `pause`, `resume`, `set_file`, `set_colors` | everything |

`PROJECT.json` lists every part of the repository, also the ones not modelled (kernels, model
files, tokenizers, templates, samplers, user interface) with the reason.

### What is hard here, and what makes each part correct

*KV cache.* Everything is incremental: seven pieces of metadata must agree after any order of
calls. A decode first *simulates* all its micro-batches (`prepare`), takes them back, and applies
them again one by one, each followed by a graph that may fail or be aborted; two kinds of work
(stream copies, K-shifts) are deferred to the next decode, and cells that left a sliding window are
overwritten in place. Correct means: the metadata are consistent; a slot found in the simulation is
still usable when applied; a failure leaves exactly the micro-batches that succeeded; the deferred
work makes the K data agree with the metadata; no position that may be attended to disappears.

*Recurrent memory.* A state is large and cannot be cut, so sequences share it until one of them goes
on, cells are swapped to make a micro-batch contiguous while their rows stay where they are until the
next graph, one unused row serves as the zero state of all sequences that start, and a roll-back only
notes which snapshot to continue from. Correct means that none of this shows: a sequence has the state
that its own tokens give.

*Server.* One main loop and one thread per request, two mutexes, a condition variable that loop and
requests share, tasks that move between a queue, a deferred queue, the loop's hand and a slot,
requests that leave at any time, parents whose children wait for them, and a model that is unloaded
after an idle period. Correct means: no task is lost, duplicated or answered twice; no result is
left behind; every request is served; the model is never unloaded under a busy slot and is loaded
again when a task comes.

*Router.* A child process is watched by three threads and may become ready, sleep, hang or die at any
time; requests that load, evict and unload interleave with them, and no lock is held from the choice of
a victim to the start of its successor. Correct means: never more children than allowed; an unloaded
model has no process and no thread left; a model counts as loaded only when its own child said so; what
is told to stop stops, a death is noticed; no signal goes to anybody but the child.

*Thread pool.* One caller, workers that poll without lock and then sleep, two counters that serve every
barrier, and parameters that are reset without lock because nobody should be looking. Correct means:
all threads walk the nodes in step, every part is computed once, an abort stops all threads at the same
node, nobody is left behind in a barrier or asleep.

*Log.* The ring wraps, is rotated when it grows, and holds end entries of earlier pauses. Correct means:
every accepted message is written once, in order, before the file changes or the log is open again.

The hazards are listed with their lines and the properties that watch them in `PROJECT.json`.

## 2. Plan

Order: what users would notice first (lost context, hanging requests) comes first.

1. `KvCells`, `KvCache`, `SeqStore` with runs `kv_*`: **done**.
2. `KvCacheProofs`: consistency of the metadata for all sizes, and the slots of `prepare`; with a window, that a decode of one micro-batch keeps what its tokens attend to; `KvStoreProofs`: the
   refinement of `SeqStore` and the K rows, both without a window: **done**; next, slots that stay
   valid with a window.
3. `ServerTasks` with runs `server_*` and `ServerTasksProofs`: **done**; next, an
   abstract service (each request: posted, then answered or failed) that it refines.
4. `KvState`, `SavedStore` with run `kv_state`, and `KvStateProofs`, saving and restoring between pending
   copies and shifts: **done**; next, caches with a window.
5. `RecurrentMemory`, `StateStore` with run `rs_memory`, and `RecurrentProofs`: **done**; next, the
   hybrid memory and the SWA pair as compositions (`INSTANCE` of both parts, one step of the pair
   being one of each).
6. `Router`, `RouterProofs` with runs `router*`: **done**; next, the reload of the list of models.
7. `LogRing`, `LogStore`, `LogRingProofs` with run `log_ring`: **done**.
8. `ThreadPool`, `ThreadPoolProofs` with run `thread_pool`: **done**.
9. `BatchSplit`: the three splits as functions, against a reference definition (every token exactly
   once, per-sequence order kept, equal lengths).

Modules to be proved about contain no RECURSIVE operator: recursion is written as a function on a
number.

## 3. The modules

**`KvCells`** - a set of cells is a record (`pos`, `seq`, `used`, `shift`, `seq_pos`), every method of
`eden_kv_cells` a function from record to record. A method that the code calls once per cell in a
loop takes the set of cells. `Consistent` says what the incremental parts must be.

**`KvCache`** - one action per `eden_memory_seq_*` function, and `eden_decode` as one step per
iteration of its loops: `UpdateCopy`, `UpdateShift`, `PrepareSlot`, `PrepareEnd`, `RestoreSlot`,
`Prepared`, `Retry`, `ReturnNoSlot`, `ApplyUbatch`, `ComputeOk`, `ComputeFail`. The search order of
`find_slot` (cyclic from the head, with the jump back to 0), the purge of `apply_ubatch`, the recovery
stack of `prepare` and the rollback of `decode` are those of the code. The data of a cell is
abstracted to the positions its K rows are rotated to. A batch is a run of consecutive positions for
one or two sets of sequences, which is what validation lets callers pass in; positions are bounded
by `MaxPos`, queued copies by `MaxPending`. `seq_cp` within a stream is called for positions the
destination lacks (`Fresh`): otherwise `seq_add` counts a position twice (see section 7).

**`SeqStore`** - the abstract machine: a sequence is a bag of positions, an operation changes the
sequence it names, a micro-batch extends sequences at their ends or does nothing. `KvCache`
implements it with the mapping `Committed`: the positions of the cells but for those that a running
decode has placed and not yet computed.

**`RecurrentMemory`** - the metadata are one record `mem`, and each method of `eden_memory_recurrent` an
operator on it; `find_slot` is the composition `RestartSearch`, `LeaveCells`, `TakeCells`, `Gather`,
`Advance`, `Stage`, in the order of the code; its loops are recursive functions on a number. `Decode` splits (`split_equal`) and tries all
micro-batches, `ProcessUbatch` finds the slot again, asks `s_copy` for the rows - which resets `rs_idx`
- and computes: zero one row, take and put back the others (`build_rs`), store the result and the
snapshots of the layers (those of Qwen 3.5, the models with roll-back). The content of a row is the
sequence of tokens it has consumed, a token the set of sequences it was decoded for. A failing
GGML_ASSERT sets `aborted`. `kept` is history: how many tokens the stored snapshots really allow to
take back. Bounds: `MaxLen` tokens per sequence, `MaxHeld` in all states and saved states together,
`MaxGroups` groups of sequences of at most `MaxBatch` tokens in a batch. The application is taken to
roll back, shift and divide only sequences that share their cell with no other (`Alone`), and to copy,
keep and save only when no roll-back is pending (`Settled`); with `Careful` it takes back only what
snapshots allow (`rs_rollback.cfg` is about one that does not). Section 7 says what happens otherwise.
Graphs do not fail here.

**`StateStore`** - the abstract machine: a sequence has a state and a position, a micro-batch extends
both, an operation changes the sequence it names.

**`ServerTasks`** - `server_queue`, `server_response`, `server_response_reader` and the life of a slot.
A step is a critical section. `main` is the place of the main loop: `take` a task, `handle` it
(`process_single_task`), `update`/`slots` (`update_slots`), `idle`/`wait`/`sleep` (`start_loop`). A
request goes `new`, `await` (`wait_until_no_sleep`), `build`, `post`, `next`, `stop`, `purge`, `cancel`,
`done`. The wait set of `condition_tasks` is explicit, so that `notify_one` wakes one waiter of any
kind. Abstracted: `time_last_task` to "the idle period has passed" (`idled`); the number of rounds of
a prompt or an answer to at most `Rounds`; the choice among free slots, and the order in which
`update_slots` visits slots, to any choice; a result and the release of its slot, both by the main
loop alone, to one step. Left out: partial results, spurious wake-ups, prompt cache, speculation,
LoRA and metrics tasks.

**`KvState`** - `KvCache` with one buffer. `StateWriteSeq` and `StateWriteAll` note, per stream, the cells
in their order with their K rows; `StateReadSeq` removes the sequence, has `find_slot` look for room and
places the cells with `apply_ubatch`; `StateReadAll` clears the cache for every stream that is not empty
and fills the stream from its start, as the code does. The application saves and restores when no copy
and no shift is pending (`Careful`; section 7 says what happens otherwise), and restores whole caches with one used stream
(`Whole`; `kv_state_whole.cfg`). Failing input and output are left out.

**`SavedStore`** - extends `SeqStore` with the buffer: restoring gives a sequence what was saved, or nothing
when there is no room, and touches no other.

**`Router`** - `mgr` is the managing thread together with the log thread it joins first, `stp` the stopping
thread; `proc` is the child: `starting`, `ready`, `asleep`, `closed` (exiting, its pipe closed), `dead` (to
be waited for), `none`. Requests go through `ensure_model_ready`, `load` (`limit`, `evict`, `evicting`,
`load`, `loading`) or `unload`. A step is a critical section of the mutex, or one call on a child.
`subprocess_alive` waits for a dead child and `subprocess_terminate` signals a process group when it has
been waited for: `CheckAlive` and `Terminate` say so, with `groupKilled` for the latter. A child's output may
end before the child can be waited for, so that the managing thread's one notification may come too early for
the stopping thread (`Missed`). The order of
last use is any order; the time allowed for a stop passes at any time. Bounds: `MaxPipe` unread lines,
`MaxCalls` requests.

**`ThreadPool`** - the pool built without OpenMP. Thread 0 is the caller. A step is one access to an atomic
variable or one critical section of the mutex; `asleep` is the wait set of `cond`. A graph is a sequence
of skipped nodes, plain nodes (one part per thread) and matrix products (a conversion, a barrier, chunks
from `current_chunk`). `done` and `prepared` are history: what was computed. Abstracted: memory is
sequentially consistent (the code relies on the fences of barrier and kick-off); fused nodes are one
node; the polling rounds end at any time; the graph count does not wrap; only the computing thread
pauses, resumes and frees.

**`LogStore`** - the abstract log: open or closed, messages accepted and written.

**`LogRing`** - `add` is one step, with the growth of the ring; the worker takes an entry (`Take`) and
prints it (`PrintEntry`) in two; `Pause` pushes the end entry and `Join` waits. `call` is what the controller is
about: a plain pause, a flush (pause and resume, also what `set_colors` does) or a new file. The
controller is one thread, as `common/log.h:57` demands. `Overrun` is the state after an end entry took the
last free entry: the ring looks empty to the worker and `pause()` does not return (`log_flush.cfg`).

**`MC*`** define the finite instances. Operators named `X_...` directly before `X` are mutants: plausible
bugs, used to show that a property can fail.

## 4. What the runs show

| Run | Instance | Shows |
|---|---|---|
| `kv_unified` | 3 cells, 2 sequences, positions to 2, micro-batches of 2, graphs fail | dry-run slots stay valid, no slot changes nothing and only happens when cells lack, every operation implements `SeqStore` |
| `kv_shift` | 2 cells, 1 sequence, shifts, divisions; allocation of the shift fails, shift and graphs abort | `SeqStore` under shifts; every decode returns |
| `kv_state` | a stream per sequence, 2 cells each, 2 queued copies, shifts, one buffer | metadata consistent; deferred copies, shifts and restored states together deliver the K rows that the metadata announce; restoring implements `SavedStore` |
| `kv_swa` | window 2, a stream of 3 cells per sequence, a queued copy, positions to 4, single micro-batches, graphs fail | no holes; no position in the window is lost |
| `server_tasks` | 3 requests, 4 tasks (one child), 2 slots, all failures, leaving client, sleep, shutdown | tasks accounted for, results wanted, no generating parent with a waiting child, unloaded only when idle |
| `server_live` | 3 completion requests (one with a child), 2 slots, no failures | nothing stranded, every posted request is served |
| `rs_memory` | 3 cells and sequences, 1 snapshot, batches of 2 groups of 2 tokens, one pair with common tokens, shifts, divisions, saved states; 3 tokens held | no cell with a wrong tail or count, no assertion fails, every sequence has the state its tokens give (`StateStore`) |
| `router` | 2 models, 1 may run, 2 requests at a time, 3 in all, 1 unread line per child | at most one child, unloaded means gone, loaded means said so; stops and the end of the router complete and deaths are noticed, except by a stopping thread that was notified too early |
| `thread_pool` | 3 threads, graphs for 1, 2 or 3 of them (4 asked for), 2 graphs, one chunk more than threads, aborts, pauses, spurious wake-ups | nodes in step, every node complete when success is returned, no worker in the graph when the pool is reset, every call returns |
| `log_ring` | 3 entries that become 6, 7 messages, 3 calls of the controller, 2 files | the ring implements `LogStore`; pause flushes; it returns and every accepted message is printed, unless the end entry takes the last free entry |
| `kv_swa_window_lost` | window, several micro-batches | **violated**: the dry run purges positions still attended to |
| `router_kill` | as `router` | **violated**: unloading a model whose child has just died kills the router's process group |

Some passing runs leave out the case in which the code goes wrong: several micro-batches with a window,
divisions, coupled tokens with failing graphs; failures, leaving clients, sleep and slot actions in
`server_live`; careless roll-backs in `rs_memory`. `router` and `log_ring` run into theirs: their liveness
properties name the states in which the code is stuck or has killed itself (`Missed`, `Overrun`,
`groupKilled`). The configurations below show such cases; they are no runs of `PROJECT.json`, and each
takes TLC less than a minute to find the violation of what the code's own comments and documents say
(quoted in section 7 or at the property):

| Configuration | Instance | Property violated, and why |
|---|---|---|
| `kv_swa_hole.cfg` of `MCKvCache` | 2 sequences in one stream of 4 cells, window, 3 micro-batches, graphs fail | `NoHoles`: the purge of the dry run leaves a hole when the graph fails |
| `kv_shift_lost.cfg` of `MCKvCache` | window, one negative shift, its allocation fails | `RowsMatch`: a reused and restored cell has lost its pending shift |
| `kv_divided.cfg` of `MCKvCache` | 2 cells, divisions | `RowsMatch`: the row of a divided cell is rotated the wrong way |
| `kv_coupled.cfg` of `MCKvCache` | tokens of two sequences, graphs fail | `FailedGraphAddsNothing`: such a token stays in its second sequence |
| `kv_state_whole.cfg` of `MCKvState` | as `kv_state`, several used streams in a whole cache | `ImplementsSaved`: only the last stream comes back |
| `rs_rollback.cfg` of `MCRecurrentMemory` | as `rs_memory`, an application that takes back what `seq_rm` lets it | `RollbackExact`: the sequence goes on from another state |
| `server_orphan.cfg` of `MCServerTasks` | as `server_live`, prompts that fail or are empty | `NeverAborts`: a child without parent, empty batches, the process aborts |
| `server_sleep.cfg` of `MCServerTasks` | as `server_live`, sleep after an idle period | `Served`: the server sleeps with tasks in its queue |
| `server_strand.cfg` of `MCServerTasks` | as `server_live`, the last request a slot action | `NoneStranded`: a task stays deferred with all slots free |
| `log_flush.cfg` of `MCLogRing` | 2 messages, one flush | `FlushPrints`: with one free entry a flush prints nothing and does not return |
| `router_exit.cfg` of `MCRouter` | 1 model | `EveryExitNoticed`: a child whose output ended before it could be waited for is never noticed |

Why these bounds are enough for the question: with 3 cells and micro-batches of 2, prepare succeeds,
fails at the first and fails after the first micro-batch, slots wrap around the end, and both
sequences share cells; 3 cells, a window of 2 and positions to 4 let masked cells be reused twice, also
those of a copied stream (also with `Unified = TRUE`, 4 cells and a window of 3, where a sequence may
overwrite masked cells of another, single micro-batches keep both invariants; several do not, see
`kv_swa_window_lost` and `kv_swa_hole.cfg`);
2 queued copies are the least in which order matters. Two slots and four tasks are the least in which a
parent with a child excludes another request, which defers a third. A
divided position has a K row with the wrong rotation (`kv_divided.cfg`): `kv_shift` checks its metadata only.
Three cells are the least in which a sequence outside of a micro-batch lies between two of its
sequences and is moved; two tokens are the least that leave a snapshot; with three tokens held, a
sequence that waits for its roll-back is moved by a micro-batch of two others. `LiveView`, the view of
`rs_memory`, hides rows that no cell and no possible roll-back refers to: what such a row held makes no
difference to any later step, as it is zeroed or written before it is read.
Two models with room for one are the least in which requests evict each other's models; three requests
let one load, one evict and one unload what is evicted. Three threads are the least with two workers
that can be at two barriers at once while a third opens them, and with a team smaller than the pool; two
graphs let a worker sleep through, or still leave, the first when the second is handed out. A ring of
three entries grows, wraps and keeps an old end entry within seven messages.

Deadlock is checked everywhere but in `server_tasks`, `server_orphan`, `server_sleep`, `router`, `router_exit`,
`router_kill`, `thread_pool`, `log_ring` and `log_flush`, where the
server, the router or the pool may end and the calls of the application are bounded.

*Fairness.* `KvCache`: a call that was started runs on (weak fairness of `DecodeStep`); nothing makes
the application call. `ServerTasks`: the main loop's thread and the thread of every request that has
arrived are scheduled; nothing makes a request arrive, a client leave or a shutdown happen. Failures
are choices within fair steps, never forced. `Router`: the threads of the router run, time passes, and a
process that has closed its files can be waited for in the end; no child has to become ready, to obey or
to die, no request has to come. `ThreadPool`: weak fairness of every thread's steps; what the caller asks
for is its own choice. `LogRing`: the worker and a call of the controller run on.

## 5. What is proved

`KvCacheProofs`, for every number of cells, sequences, positions, streams, micro-batches and any set
of ranges, shifts and faults (`KvCells!SizeAssumption` and the other named assumptions say only that the parameters are
numbers and sets of the right kind):

* `CellsAlwaysConsistent`: `Spec => []CellsConsistent`.
* `TypeSafety`: `Spec => []TypeOK`; in particular the search never starts beyond the end of its
  stream (`find_slot` subtracts the head from the size) and the loops of decode stay in bounds.
* `SeqPosMaxRight`: `seq_pos_max`, which decides where batches start and what is masked, is always
  the greatest position of the sequence.
* `Invariance`: the strengthened invariant `IInv`.

`ServerTasksProofs`, for every number of slots, requests, tasks and children and
any set of failures. The assumptions say that the parameters are of the right kind,
`IdsAssumption` that `get_new_id` never returns an id twice, and `ChildrenAssumption` that a request for
more answers than slots is rejected and that only completions have children (`server-task.cpp:600`,
`server-context.cpp:3473`):

* `TypeSafety`: `Spec => []TypeOK`.
* `SleepSafety`: `Spec => []SleepsIdle`. `IInv` adds to the types where the loop is (`LoopOK`): while a
  slot is busy a `NEXT_RESPONSE` task stays in the queue until the loop takes its next task, so the
  loop does not wait, and the clock is looked at with idle slots only.
* `Once`: `Spec => []AtMostOnce`, and `NoResultLeft`: `Spec => []ResultsWanted`. Neither is inductive:
  a request that has received as many results as it has tasks stops without purging, which is right
  only if they were results of different tasks. `OnceOK` ties the results received to the tasks that
  were answered and whose result is not queued any more (`Got`), and says that the tasks of a request
  are nowhere before it posts them. The proof is one of accounting: every step but `PostTasks` moves
  or removes places of a task (`Shrink`), and a step that answers takes the slot or the hand away.
* `TasksKept`: `Spec => []NeverLost`, with all failures. `KeepOK` adds the other half: while a request is
  reading, each of its tasks is somewhere unless an error is queued for the request. An error result is
  never dropped by `send`, because the request waits for the ids of all its tasks from before they are
  posted, and a cancellation comes only from a request that no longer reads.
* `ChildrenHaveParents` (`WaitingChildHasParent`), with all failures, empty prompts and leaving clients: a child
  waits only while its parent has yet to process its prompt, or after the parent has left every slot. It is
  launched with its parent (`LaunchParents`), a launch that fails takes all slots back, and a parent that
  is done with its prompt has started all its children in the same step; a parent that goes before is
  answered, or cancelled, when nobody waits for it (`LeaveParents`, `CancelParents`), and neither is undone.
* `NobodyStranded` (`NoneStranded`), if no client leaves and all tasks are completions, also when
  prompts are empty. `StrandOK`: while a task is deferred, a slot is busy, or a task is in the hand of the
  loop or in its queue. A parent is deferred until there are as many idle slots as it has answers, so
  that it needs `ChildrenAssumption` to find that some slot is busy when it is (`DeferBusy`); a release
  brings a deferred task back to the queue (`LeaveStrand`). A slot action, or a task cancelled there,
  would use up that turn and release nothing (section 7).

`RouterProofs`, for any models, requests, limit and bounds: `TypeCorrect`, `UnloadedGone`, `SaidReady` and
`Limit` (`TypeOK`, `UnloadedIsGone`, `LoadedSaidReady`, `LiveWithinLimit`), from one invariant that says
where a model's threads, its child and its pipe can be, given its status. `Limit` needs it because the
code counts statuses and the property counts processes: every live child belongs to a model that counts
as running, and `Spawn` looks at the count within its own critical section.

`LogRingProofs`, for any capacity of at least two: `TypeCorrect` (`head` and `tail` stay in the ring),
`PauseFlushes` (`Flushed`) and `Implements` (`ImplementsLog`, the refinement of `LogStore`). The invariant says that the entries from `head` on are
the accepted messages not yet taken, oldest first, and at most one end entry, the last - unless the ring is
`Overrun`, when worker and controller stand still and only what was printed counts; behind `tail`
nothing is known, which is why `add` must clear `is_end`. The induction is on steps only: positions in the
ring are `(head + k) % size`, and lemmas on that expression carry the proof through the rotation.

`ThreadPoolProofs`, for any number of threads, any graphs, chunks, aborts and spurious wake-ups:
`TypeCorrect`, `Inputs`, `QuietBetween` and `ResultsTrue` (`TypeOK`, `InputsReady`, `QuietReset`, `ResultTrue`),
from one invariant (`Invariance`). A thread that spins at a barrier which has opened since is as good as
behind it: with `at(t)` so defined, the threads of a team are in the same section between two barriers
(a node, or one of the two parts of a matrix product), some before it, some in it, some at its end.
`BarrierOK` says that `n_barrier` counts those that have arrived, and that the last one finds everybody
there. The chunks are a tally: each number below `current_chunk` was handed out once, so when all threads
have arrived at the next barrier every chunk is computed. The caller returns when all have passed the
last barrier, which is also why nobody reads what it resets without lock.

In the cache, `CellsConsistent` is not inductive. `IInv` adds: heads and rows are typed (`HeadsOK`, `RowsOK`); the slots
of a running decode map cells to tokens of its micro-batches, each cell once (`CallOK`), so that what
`apply_ubatch` places are positions and non-empty sets of sequences; and what `prepare` will put back
are consistent saved cells, and no shift is pending on the cells they go to (`StackOK`). The last part
is what `set` asserts (`eden-kv-cells.h:217`): it does not touch `shift`, so a pending shift would
survive on a cell that is emptied again.
The first part of `KvCacheProofs` proves that each method keeps a set of cells consistent, the second
that each action passes methods arguments that meet their assertions.

The third part, on the dry run:

* `GivesUpRightly` (`NoSpuriousFailure`), with a window and without one, on the first try and on the one after
  `update`: a decode returns 1 only if some stream has fewer free cells than its tokens need. `TryInv`: the
  tentative placements took at most as many cells as they have tokens, and a cell that was free is still
  free or was taken. That `find_slot` passes over no free cell in a whole turn from its head, with the jump
  back to 0, is proved on the way.
* `SlotsHold` (`SlotsStillValid`), `NoSlotKeeps` (`NoSlotRestores`) and `NoSlotKeepsCells`, if there is no window
  (`NSwa = 0`): `PrepInv` says that the slots of the micro-batches are disjoint sets of cells that were empty,
  that the recovery stack gives back the cells as they were, and that what is still to be applied is
  empty. With a window a placement purges cells that restoring does not put back, and the runs
  `kv_swa*` say what that costs. `NoSlotKeeps` is for a unified stream: with several, the search heads
  are restored by rank (section 7), so `NoSlotKeepsCells` speaks of the cells alone.
* `WindowStays` (`WindowKept`), with a window, for a decode whose tokens are one micro-batch (`Undivided`). `WinInv`
  follows the micro-batch: its tokens come after everything their sequences hold (`Ahead`, kept by `update` and
  by validation), and until a slot is tried nothing has moved (`Unplaced`). A cell that `find_slot` may reuse is
  masked for the largest position of its sequence, hence for every later token, so neither the cells on the
  recovery stack (`SavedUnseen`) nor, once restored, those of the slot (`SlotsUnseen`) are seen by the tokens; the
  purge goes up to the largest position overwritten, which is masked too. What is seen therefore stays, in
  cells outside the slot (`SeenKept`), through trial, restore, second try and `apply`. With a second micro-batch
  the argument ends where the code does: the tokens of the first, tentatively placed, raise the largest
  position before they are computed, which is what run `kv_swa_window_lost` shows.

`KvStoreProofs`, on what a decode as a whole does, if there is no window:

* `CacheImplementsStore` (`ImplementsStore`): the cache with its cells, streams, dry run, micro-batches, late
  copies and roll-back implements `SeqStore`. A cell shows (`Shows`) if it is occupied and not placed by the
  running decode; the mapping `Committed` counts cells that show. Steps of a decode but for the graphs
  leave the cells that show as they are (`Same`, `SameCommitted`); a memory operation changes the counts as
  `SeqStore` says, because `seq_pos` counts them between decodes (`IdleCounts`); a graph that succeeds adds
  one position after another to the end of each sequence. The last point is most of the proof. `RunInv`
  says that every token has a cell (`SlotsFull`), that `apply` wrote the token there (`Placed`), and that the
  micro-batches to come continue what shows (`Coming`): for each sequence there are bounds, one per
  micro-batch (`Lays`), between which its tokens lie, and below which its positions are those that show
  (`Upto`). That the splits cut a batch in such pieces is proved from the pieces up (`CutChunks`,
  `CutConcat`, `SplitSimpleCut`, `SplitEqualCut`).
  The hypotheses are where the code does not do what `include/eden.h` says: `Documented` excludes `seq_keep`
  on several streams, which looks at one of them, and `seq_add` and `seq_div` on cells that sequences share,
  which move them for all; a graph may fail if tokens have one sequence, since the roll-back looks at the
  first only. A window purges positions nobody removed.
* `NoHolesLeft` (`NoHoles`), if the application removes suffixes and copies prefixes and moves nothing
  (`Truncating`): `FromStart` says that a sequence holds an initial segment of the positions, and `Owned` that a
  stream of its own holds its sequence only. A sequence that an application makes a hole in, as a
  context shift does, has one until it is shifted.

The last part of `KvStoreProofs` is `RowsAlwaysMatch` (`RowsMatch`), if there is no window. What the rows will be
after the queued copies is the end of a run of copies (`After`); a new copy is one step at the end of that run, one carried
out one step at its beginning (`AfterAppend`, `AfterFirst`). `Right` says that in a cell that shows the row is the
position less the pending shift, which every method keeps (`Keeps`): `pos_add` changes both by the same, a
freed cell loses both. `NoneQueued` and `Unshifted` say that nothing is queued while a decode places tokens and
that no shift is pending on the cells of the micro-batch that is computed, so that the graph writes
rows that are right. `RowsKept` excludes divisions, which shift the wrong way, an aborted K-shift, which leaves
layers apart, and the roll-back of shared tokens; with a window the restore of `prepare` can lose a
pending shift (all in section 7).

`KvStateProofs`, on the cache with saving and restoring (`StateSpec`), for any sizes:

* `CellsConsistentSaved` (`CellsConsistent`), also with a window and for an application that saves and restores while
  copies and shifts are pending. `StateOK` is `IInv` and that the buffer holds, per stream, at most as many items
  as there are cells, each with a position and a sequence; `state_read` places them in cells that `find_slot`
  found usable after the old ones were removed.
* `RowsMatchSaved` (`RowsMatch`), without a window, if saving and restoring wait for copies and shifts (`Careful`; the
  code does not, section 7) and with the hypotheses of `RowsAlwaysMatch`: at rest each row is that of its
  position, so are the saved ones (`RowsSaved`), and a cell that takes a restored row has no shift pending.
* `CacheImplementsSaved` (`ImplementsSaved`), with the hypotheses of `CacheImplementsStore`, if whole caches are restored
  with one used stream (`~Whole`; otherwise only the last stream remains, section 7). `Buffer` counts items
  and `Committed` cells, so each step is a bijection between the two: `Nth` numbers the cells written, once each
  (`NthInOrder`, `NthCount`), the slot of a restore has one cell per item (`ReadVacant`), and `PlacedCells` says
  what the other cells keep. `OwnedInv` says that with a stream per sequence the items of a stream, like its
  cells, belong to its sequence, and that a buffer of one sequence uses one stream; without it a restore
  would read the items of one stream and the buffer count those of all.

What these rest on is `SavingInvariance`: saving and restoring happen between decodes, so that `TryInv`, `PrepInv` and
`RunInv` hold as without them.

`RecurrentProofs`, for every number of cells, snapshots, tokens per micro-batch and groups, for sequential and
other splits, careful applications and others (the assumptions say that the parameters are of the right kind,
and that a sequential split meets no tokens of two sequences, which `split_equal` refuses):

* `TypesKept`: `Spec => []TypeOK`.
* `TailsAlwaysRight`: `Spec => []TailsRight`.
* `NoAbort`: `Spec => []NeverAborts`.

None of the three is inductive alone: a decode finds its slots with what earlier operations left behind, and
`used` counts right only if tails and cells agree. `IInv` is their conjunction (`Sane`), with two facts more:
between operations the row of a used cell is its own (`AtHome`), and what was saved is a list of cells with
disjoint sequences (`SavedOK`), so that restoring gives each sequence one tail.
Nearly all of the proof is `find_slot`, stage by stage. While leaders take cells, tails, cells and positions
agree, those before have a cell alone and those to come the one they had: there are as many sequences as
cells, so that when one of them shares a cell another cell is empty (`RoomLeft`, a pigeonhole). `Gather` puts the group of every leader into its place without
moving the ones already placed, because a leader not yet placed has its cell behind them (`PutUpTo`). After
`Advance` and `Stage` each cell of the range is its own source, and a start has a free row: the cells of the
range that start refer to no row, so the rows of the range cannot all be referred to (`FreeRow`, another
pigeonhole). `Tried` puts everything back.

* `MemoryImplementsStore`: `Careful => (Spec => ImplementsStates)`. Cells, tails, swaps, staged sources, the
  shared zero state, late copies, snapshots and restored cells never show: a sequence has the state and the
  position that its own history gives it, and a micro-batch is one step of `StateStore`.

`Careful` is the application's part: it takes back no more tokens than the last micro-batch kept snapshots
of (section 7 shows what happens otherwise). `HistInv` holds beside `IInv`. A sequence whose roll-back
waits for a graph is alone in its cell, so that the one index `s_copy` reads for the cell is its own, and it has no
snapshots to take back more (`Lonely`); an empty cell that has a row has a blank one (`Clean`); as many snapshots
as `kept` says are the states before the last tokens (`Snaps`); and what is left of a decode is the rest of a batch
that goes on where its sequences are (`Coming`). The last part needs the splits: a
micro-batch cuts as many tokens from each of its groups as `EqualLen` says, and the positions it writes are
those that follow (`Chain`, `CutTogether`). For a graph, `HeadTakes` says that the row a group's cell takes is that
of its leader, read from the group it was rolled back to, or the blank row if it starts, and `BesideFacts` that every
other sequence's cell either stays or is told where its row lies, which the zeroed row never is; so decoded
sequences gain their tokens (`DecodedShown`) and the others keep their states (`BesideShown`).

## 6. What is only model-checked, and what is not modelled

Liveness (`DecodeReturns`, `Served`, `PauseReturns`, `Printed`, `Returns`, `StopCompletes`, `ExitNoticed`;
violated as section 4 says: `FlushPrints`, `EveryExitNoticed`, `Served` with sleep), which TLAPS does not reach; of a cache with a window, `NoHoles` (proved
without one; `SlotsStillValid` is neither checked nor proved with a window). `WindowKept` is proved for one micro-batch and, with more,
does not hold.

Not modelled: see `PROJECT.json`; of the modelled files, masks and graph inputs, two-dimensional
positions, the output side of decode, what the server's slots compute, the reload of the router's list
of models, the proxying of its requests, the OpenMP build of the thread pool and its weaker memory order.
Most of the repository is numerical kernels for CPU and accelerators, model architectures, file formats
and text processing: straight-line code over floating-point data or strings without a protocol, for which a
model that TLC can enumerate would say nothing that the code does not.

## 7. Further observations

Met while modelling, each at its line; where a run shows it, which.

* `src/eden-kv-cache.cpp:2157`: restoring a whole cache clears it before each stream that is not empty, so
  only the last remains (`kv_state_whole.cfg`). The state functions
  run no pending copies and shifts (`Careful = FALSE`), and a restore from truncated input leaves what it
  had placed.
* `src/eden-memory-recurrent.cpp:171`: `seq_rm` accepts every roll-back of at most `n_rs_seq` tokens, but the
  layers store snapshots only for micro-batches of two to `1 + n_rs_seq` tokens per sequence
  (`models/qwen35.cpp:331`); after others it returns true and the sequence continues from a stale state,
  although `common/common.h:884` says "can seq_rm partial sequences, bounded by n_rs_seq" (run
  `rs_rollback`).
* `tools/server/server-queue.cpp:77`: a deferred task that is popped for a released slot and does not take
  it - its client has left, or it is a slot action - leaves the next one deferred with all slots free
  (`server_strand.cfg`; with leaving clients `NoneStranded` is violated too). `:184`: a task posted just after
  the loop fell asleep wakes nobody, although `tools/server/README.md:1765` says that any request reloads the
  model (`server_sleep.cfg`).
* `tools/server/server-context.cpp:2949`: when a parent task fails, its waiting child keeps `update_slots`
  going with empty batches until the kill switch aborts the process, unless the cancellation comes first (`server_orphan.cfg`).
* `tools/server/server-models.cpp:710`: the wait of `unload_lru` misses an UNLOADED that a concurrent load
  ends at once. `:1008`: `ensure_model_ready` returns true for a model that was evicted while it waited.
  `:820`: the stopping thread is meant to notice a crash, but it looks only when notified; a death is
  noticed by the end of the output, and a child that closes its output before it can be waited for
  may leave its model running for ever (`router_exit.cfg`). `:906`: a name that
  `unload` inserts between the erasure at `:866` and UNLOADED stops the next instance of that model.
* `common/log.cpp:297`: `pause()` with one free entry never returns, and what the ring holds is not
  printed (`log_flush.cfg`), although `common/log.h:93` says "flush all pending log messages".
* `src/eden-kv-cache.cpp:1078`: the purge during the dry run is not undone, so on a sliding-window
  cache a decode that returns 1 loses positions although `include/eden.h:951` says the memory is
  restored; and one whose graph fails can leave a hole: the dry run overwrites positions 0 and 2 and
  purges 1, restoring puts 0 and 2 back, although `include/eden.h:760` says "all positions in the range
  [pos_min, pos_max] are guaranteed to be present in the memory" (`kv_swa_hole.cfg`). `:731`: the heads are restored by rank of the stream, not by its number.
* `src/eden-kv-cells.h:311`: `seq_add` counts the position again for a sequence the cell already has
  a position of elsewhere; `:149`: `cp` and `set` drop a pending shift: with a window and a K-shift that
  could not be allocated, the cells that `prepare` restores keep rows that are never shifted (run
  `kv_shift_lost`).
* `src/eden-kv-cache.cpp:800`: a K-shift aborted part way is applied again to the layers already done.
* `include/eden.h:733` against `seq_keep`, which looks at one stream only.
* `src/eden-kv-cells.h:452`: `pos_div` adds the old position minus the new one to the shift, `pos_add`
  the new minus the old; the K rows of a divided cell are rotated the wrong way (`kv_divided.cfg`).
* `src/eden-context.cpp:1720`: the rollback of a failed micro-batch looks at the first sequence of each
  token only; a token of several sequences stays in the others, with data that was never computed (`kv_coupled.cfg`).
* `src/eden-memory-recurrent.cpp:219`: `seq_rm(-1)` leaves tails pointing at emptied cells, and the next
  decode of such a sequence fails the assertion at `:564`. `:162`, `:318`, `:350`: a roll-back, shift or
  division changes the position of all sequences that share the cell. `rs_idx` is ignored by `seq_cp`,
  `seq_keep` and `state_write`: a copy or saved state taken between a roll-back and the next decode is
  the one before the roll-back. `:191`: a range that ends before the last position removes nothing, yet
  true is returned. `:670`: a graph that fails after `find_slot` has already marked the rows as moved,
  so the sequences of the range, also those outside of the batch, lose their rows. `:749`: `flags %
  EDEN_STATE_SEQ_FLAGS_ON_DEVICE` is a remainder where a bit is meant.
* `src/eden-batch.cpp:378`: the check for decreasing positions never fails (`cur_seq_pos` is never
  written); `:545`: one sequence set too many.
* `tools/server/server-queue.cpp:110`: `notify_one` may wake a request instead of the main loop;
  `:126`: a `terminate()` before `start_loop()` is lost, and one while sleeping leaves waiting requests
  waiting; `:83`: `pop_deferred_task` compares the raw `id_slot` that `get_slot_by_id` wraps around.
* `tools/server/server-context.cpp:2453`: a parent with an empty prompt is answered, its children
  never (`server_orphan.cfg`).
