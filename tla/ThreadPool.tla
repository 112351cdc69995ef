----------------------------- MODULE ThreadPool -----------------------------
(***************************************************************************)
(* The CPU thread pool of ggml (src/ggml/src/ggml-cpu/ggml-cpu.c), built   *)
(* without OpenMP: ggml_graph_compute hands a graph to the workers, which  *)
(* poll for it or sleep on a condition variable, and all threads walk      *)
(* through its nodes, kept in step by ggml_barrier.                        *)
(*                                                                         *)
(* Thread 0 is the caller: it computes graphs, pauses, resumes and frees   *)
(* the pool.  Threads 1 .. NThreads - 1 are the workers.  A step is one    *)
(* access to an atomic variable, or one critical section of the mutex.     *)
(* Memory is sequentially consistent here; the code orders the relaxed     *)
(* accesses by the fences of the barrier and of the kick-off.              *)
(***************************************************************************)
EXTENDS Integers, Sequences

CONSTANTS NThreads,  \* threads of the pool, the caller included
          Graphs,    \* graphs to compute: sequences of "nop", "op" and "mm" nodes
          Requests,  \* numbers of threads a plan asks for
          Extra,     \* chunks of an "mm" node beyond one per thread
          MaxGraphs, \* bound: graphs computed
          Aborts     \* may the abort callback return true?

ASSUME NThreadsAssumption == NThreads \in Nat \ {0}
ASSUME GraphsAssumption == Graphs \subseteq Seq({"nop", "op", "mm"})
ASSUME RequestsAssumption == Requests \subseteq Nat \ {0}
ASSUME ExtraAssumption == Extra \in Nat
ASSUME MaxGraphsAssumption == MaxGraphs \in Nat
ASSUME AbortsAssumption == Aborts \in BOOLEAN

VARIABLES
  \* struct ggml_threadpool
  cgraph, n_graph, n_barrier, n_barrier_passed, current_chunk, stop, pause, abort, ec,
  asleep,     \* threads waiting on cond
  \* struct ggml_compute_state and the locals of each thread
  pc, last_graph, pending,
  nth, node, chunk, \* ggml_graph_compute_thread: thread count, node_n, current_chunk
  need, n_passed, ret, \* ggml_barrier: n_threads, n_passed, where it returns to
  \* history: what was computed of the current graph
  done,       \* how often each part of each node was computed
  prepared    \* the threads that converted their share of a node's input

poolVars == <<cgraph, n_graph, current_chunk, stop, pause, abort, ec>>
barVars == <<n_barrier, n_barrier_passed>>
wakeVars == <<asleep, last_graph, pending>>
walkVars == <<nth, node, chunk>>
localVars == <<need, n_passed, ret>>
workVars == <<done, prepared>>
vars == <<poolVars, barVars, wakeVars, walkVars, localVars, workVars, pc>>

Thread == 0 .. NThreads - 1
Worker == 1 .. NThreads - 1

Min2(a, b) == IF a < b THEN a ELSE b
NNodes == Len(cgraph)
Nodes == 0 .. NNodes - 1
Op(n) == cgraph[n + 1]

(* The first node from n on that is not skipped, or the end of the graph.  *)
NextOp(n) == CHOOSE m \in n .. NNodes :
               /\ m = NNodes \/ Op(m) # "nop"
               /\ \A k \in n .. m - 1 : Op(k) = "nop"

(* The chunks of a node for k threads: a row range per thread, or more.    *)
NChunks(n, k) == IF Op(n) = "mm" THEN k + Extra ELSE k
Parts == 0 .. NThreads + Extra - 1

Goto(t, where) == pc' = [pc EXCEPT ![t] = where]

-----------------------------------------------------------------------------
(* ggml_threadpool_new.                                                    *)
Init ==
  /\ cgraph = <<>>
  /\ n_graph = [count |-> 0, threads |-> 0]
  /\ n_barrier = 0 /\ n_barrier_passed = 0 /\ current_chunk = 0
  /\ stop = FALSE /\ pause \in BOOLEAN
  /\ abort = -1 /\ ec = "success"
  /\ asleep = {}
  /\ pc = [t \in Thread |-> IF t = 0 THEN "idle" ELSE "pause?"]
  /\ last_graph = [t \in Thread |-> [count |-> 0, threads |-> 0]]
  /\ pending = [t \in Thread |-> FALSE]
  /\ nth = [t \in Thread |-> 0] /\ node = [t \in Thread |-> 0] /\ chunk = [t \in Thread |-> 0]
  /\ need = [t \in Thread |-> 0] /\ n_passed = [t \in Thread |-> 0]
  /\ ret = [t \in Thread |-> ""]
  /\ done = <<>> /\ prepared = <<>>

-----------------------------------------------------------------------------
(* The caller.                                                             *)

(* ggml_graph_compute: the parameters of the pool are reset without lock.  *)
GraphCompute(g, n) ==
  /\ pc[0] = "idle" /\ ~stop /\ n_graph.count < MaxGraphs
  /\ cgraph' = g /\ current_chunk' = 0 /\ abort' = -1 /\ ec' = "success"
  /\ done' = [k \in 0 .. Len(g) - 1 |-> [c \in Parts |-> 0]]
  /\ prepared' = [k \in 0 .. Len(g) - 1 |-> {}]
  /\ nth' = [nth EXCEPT ![0] = Min2(n, NThreads)]
  /\ Goto(0, "kickoff")
  /\ UNCHANGED <<n_graph, stop, pause, barVars, wakeVars, node, chunk, localVars>>

(* Mutant: the sleeping workers are not woken.                             *)
Kickoff_silent ==
  /\ pc[0] = "kickoff"
  /\ n_graph' = [count |-> n_graph.count + 1, threads |-> nth[0]]
  /\ pause' = FALSE
  /\ Goto(0, "start")
  /\ UNCHANGED <<cgraph, current_chunk, stop, abort, ec, barVars, wakeVars, walkVars, localVars, workVars>>

(* ggml_graph_compute_kickoff; a paused pool is resumed.                   *)
Kickoff ==
  /\ pc[0] = "kickoff"
  /\ n_graph' = [count |-> n_graph.count + 1, threads |-> nth[0]]
  /\ pause' = FALSE
  /\ asleep' = {}
  /\ Goto(0, "start")
  /\ UNCHANGED <<cgraph, current_chunk, stop, abort, ec, barVars, last_graph, pending, walkVars, localVars, workVars>>

(* ggml_threadpool_pause and ggml_threadpool_resume.                       *)
SetPause(p) ==
  /\ pc[0] = "idle" /\ ~stop /\ pause # p
  /\ pause' = p
  /\ asleep' = {}
  /\ UNCHANGED <<cgraph, n_graph, current_chunk, stop, abort, ec, barVars, last_graph, pending,
                 walkVars, localVars, workVars, pc>>

(* ggml_threadpool_free, up to the joins ...                               *)
Free ==
  /\ pc[0] = "idle" /\ ~stop
  /\ stop' = TRUE /\ pause' = FALSE
  /\ asleep' = {}
  /\ Goto(0, "join")
  /\ UNCHANGED <<cgraph, n_graph, current_chunk, abort, ec, barVars, last_graph, pending, walkVars, localVars, workVars>>

(* ... and the joins.                                                      *)
Join ==
  /\ pc[0] = "join"
  /\ \A t \in Worker : pc[t] = "exit"
  /\ Goto(0, "freed")
  /\ UNCHANGED <<poolVars, barVars, wakeVars, walkVars, localVars, workVars>>

-----------------------------------------------------------------------------
(* A worker between graphs (ggml_graph_compute_secondary_thread).          *)

(* The pause loop; with the mutex, pause is looked at again before the     *)
(* thread sleeps.                                                          *)
PauseCheck(t) ==
  /\ pc[t] = "pause?"
  /\ Goto(t, IF pause THEN "pausing" ELSE "stop?")
  /\ UNCHANGED <<poolVars, barVars, wakeVars, walkVars, localVars, workVars>>

PauseWait(t) ==
  /\ pc[t] = "pausing"
  /\ asleep' = IF pause THEN asleep \cup {t} ELSE asleep
  /\ Goto(t, IF pause THEN "paused" ELSE "pause?")
  /\ UNCHANGED <<poolVars, barVars, last_graph, pending, walkVars, localVars, workVars>>

PauseWake(t) ==
  /\ pc[t] = "paused" /\ t \notin asleep
  /\ Goto(t, "pause?")
  /\ UNCHANGED <<poolVars, barVars, wakeVars, walkVars, localVars, workVars>>

StopCheck(t) ==
  /\ pc[t] = "stop?"
  /\ Goto(t, IF stop THEN "exit" ELSE "poll")
  /\ UNCHANGED <<poolVars, barVars, wakeVars, walkVars, localVars, workVars>>

(* ggml_graph_compute_thread_ready, second half: look for a new graph.     *)
New(t) == n_graph # last_graph[t]
TakeGraph(t) ==
  /\ pending' = [pending EXCEPT ![t] = t < n_graph.threads]
  /\ last_graph' = [last_graph EXCEPT ![t] = n_graph]

(* Polling reads stop and pause first, then n_graph, without the mutex.    *)
(* It ends when there is work, when the pool is stopped or paused, or when *)
(* the rounds are used up; unless there is work, the mutex is taken then.  *)
Poll(t) ==
  /\ pc[t] = "poll"
  /\ Goto(t, IF stop \/ pause THEN "lock" ELSE "poll_graph")
  /\ UNCHANGED <<poolVars, barVars, wakeVars, walkVars, localVars, workVars>>

PollGraph(t) ==
  /\ pc[t] = "poll_graph"
  /\ IF New(t)
       THEN /\ TakeGraph(t)
            /\ Goto(t, IF pending'[t] THEN "start" ELSE "lock")
       ELSE /\ \E next \in {"poll", "lock"} : Goto(t, next)
            /\ UNCHANGED <<last_graph, pending>>
  /\ UNCHANGED <<poolVars, barVars, asleep, walkVars, localVars, workVars>>

(* With the mutex: sleep unless there is something to do.                  *)
LockCheck(t) ==
  /\ pc[t] = "lock"
  /\ \/ /\ stop \/ pause
        /\ Goto(t, "pause?")
        /\ UNCHANGED wakeVars
     \/ /\ ~stop /\ ~pause /\ New(t)
        /\ TakeGraph(t)
        /\ Goto(t, IF pending'[t] THEN "start" ELSE "pause?")
        /\ UNCHANGED asleep
     \/ /\ ~stop /\ ~pause /\ ~New(t)
        /\ asleep' = asleep \cup {t}
        /\ Goto(t, "sleep")
        /\ UNCHANGED <<last_graph, pending>>
  /\ UNCHANGED <<poolVars, barVars, walkVars, localVars, workVars>>

Wake(t) ==
  /\ pc[t] = "sleep" /\ t \notin asleep
  /\ Goto(t, "lock")
  /\ UNCHANGED <<poolVars, barVars, wakeVars, walkVars, localVars, workVars>>

(* A condition variable may wake a thread for no reason.                   *)
Spurious(t) ==
  /\ t \in asleep
  /\ asleep' = asleep \ {t}
  /\ UNCHANGED <<poolVars, barVars, last_graph, pending, walkVars, localVars, workVars, pc>>

-----------------------------------------------------------------------------
(* ggml_graph_compute_thread.                                              *)

Start(t) ==
  /\ pc[t] = "start"
  /\ pending' = [pending EXCEPT ![t] = FALSE]
  /\ nth' = [nth EXCEPT ![t] = n_graph.threads]
  /\ node' = [node EXCEPT ![t] = 0]
  /\ Goto(t, "loop")
  /\ UNCHANGED <<poolVars, barVars, asleep, last_graph, chunk, localVars, workVars>>

EnterBarrier(t, next) ==
  /\ Goto(t, "barrier")
  /\ ret' = [ret EXCEPT ![t] = next]

(* Mutant: no barrier behind the loop.                                     *)
Loop_unjoined(t) ==
  LET n == NextOp(node[t])
  IN  /\ pc[t] = "loop"
      /\ IF node[t] < NNodes /\ abort # node[t] /\ n < NNodes
           THEN /\ node' = [node EXCEPT ![t] = n]
                /\ Goto(t, IF Op(n) = "mm" THEN "convert" ELSE "chunks")
                /\ chunk' = [chunk EXCEPT ![t] = t]
           ELSE /\ Goto(t, "leave")
                /\ UNCHANGED <<node, chunk>>
      /\ UNCHANGED <<poolVars, barVars, wakeVars, nth, localVars, workVars>>

(* The loop over the nodes: skip the empty ones, stop at abort.  Behind    *)
(* it every thread meets the last barrier.                                 *)
Loop(t) ==
  LET n == NextOp(node[t])
  IN  /\ pc[t] = "loop"
      /\ IF node[t] < NNodes /\ abort # node[t] /\ n < NNodes
           THEN /\ node' = [node EXCEPT ![t] = n]
                /\ Goto(t, IF Op(n) = "mm" THEN "convert" ELSE "chunks")
                /\ chunk' = [chunk EXCEPT ![t] = t]
                /\ UNCHANGED ret
           ELSE /\ EnterBarrier(t, "leave")
                /\ UNCHANGED <<node, chunk>>
      /\ UNCHANGED <<poolVars, barVars, wakeVars, nth, need, n_passed, workVars>>

(* Mutant: no barrier between the conversion and its use.                  *)
Convert_unsynced(t) ==
  /\ pc[t] = "convert"
  /\ prepared' = [prepared EXCEPT ![node[t]] = @ \cup {t}]
  /\ current_chunk' = IF t = 0 THEN nth[t] ELSE current_chunk
  /\ Goto(t, "chunks")
  /\ UNCHANGED <<cgraph, n_graph, stop, pause, abort, ec, barVars, wakeVars, walkVars, localVars, done>>

(* A matrix product: each thread converts its share of the second operand, *)
(* thread 0 sets the first chunk that belongs to nobody.                   *)
Convert(t) ==
  /\ pc[t] = "convert"
  /\ prepared' = [prepared EXCEPT ![node[t]] = @ \cup {t}]
  /\ current_chunk' = IF t = 0 THEN nth[t] ELSE current_chunk
  /\ EnterBarrier(t, "chunks")
  /\ UNCHANGED <<cgraph, n_graph, stop, pause, abort, ec, barVars, wakeVars, walkVars, need, n_passed, done>>

(* Compute a chunk and fetch the number of the next one.  When there are   *)
(* no more chunks than threads, each thread has the one of its number.     *)
Chunk(t) ==
  LET n == NChunks(node[t], nth[t])
  IN  /\ pc[t] = "chunks" /\ chunk[t] < n
      /\ done' = [done EXCEPT ![node[t]][chunk[t]] = @ + 1]
      /\ IF nth[t] >= n
           THEN /\ Goto(t, "node_done")
                /\ UNCHANGED <<chunk, current_chunk>>
           ELSE /\ chunk' = [chunk EXCEPT ![t] = current_chunk]
                /\ current_chunk' = current_chunk + 1
                /\ UNCHANGED pc
      /\ UNCHANGED <<cgraph, n_graph, stop, pause, abort, ec, barVars, wakeVars, nth, node, localVars, prepared>>

ChunksEnd(t) ==
  /\ pc[t] = "chunks" /\ chunk[t] >= NChunks(node[t], nth[t])
  /\ Goto(t, "node_done")
  /\ UNCHANGED <<poolVars, barVars, wakeVars, walkVars, localVars, workVars>>

(* Mutant: the abort takes effect at the node just computed.               *)
AbortAt_node(n) == n

AbortAt(n) == n + 1

(* After a node thread 0 asks the abort callback.                          *)
NodeDone(t) ==
  /\ pc[t] = "node_done"
  /\ \/ UNCHANGED <<abort, ec>>
     \/ /\ t = 0 /\ Aborts
        /\ abort' = AbortAt(node[t]) /\ ec' = "aborted"
  /\ node' = [node EXCEPT ![t] = @ + 1]
  /\ IF node[t] + 1 < NNodes
       THEN EnterBarrier(t, "loop")
       ELSE Goto(t, "loop") /\ UNCHANGED ret
  /\ UNCHANGED <<cgraph, n_graph, current_chunk, stop, pause, barVars, wakeVars, nth, chunk, need, n_passed, workVars>>

(* The caller returns from ggml_graph_compute, a worker goes on waiting.   *)
Leave(t) ==
  /\ pc[t] = "leave"
  /\ Goto(t, IF t = 0 THEN "idle" ELSE "pause?")
  /\ UNCHANGED <<poolVars, barVars, wakeVars, walkVars, localVars, workVars>>

-----------------------------------------------------------------------------
(* ggml_barrier.                                                           *)

BarrierLoad(t) ==
  /\ pc[t] = "barrier"
  /\ IF n_graph.threads = 1
       THEN Goto(t, ret[t]) /\ UNCHANGED <<need, n_passed>>
       ELSE /\ need' = [need EXCEPT ![t] = n_graph.threads]
            /\ n_passed' = [n_passed EXCEPT ![t] = n_barrier_passed]
            /\ Goto(t, "add")
  /\ UNCHANGED <<poolVars, barVars, wakeVars, walkVars, ret, workVars>>

BarrierAdd(t) ==
  /\ pc[t] = "add"
  /\ n_barrier' = n_barrier + 1
  /\ Goto(t, IF n_barrier = need[t] - 1 THEN "reset" ELSE "spin")
  /\ UNCHANGED <<poolVars, n_barrier_passed, wakeVars, walkVars, localVars, workVars>>

(* Mutant: the counter keeps its value.                                    *)
BarrierReset_kept(t) ==
  /\ pc[t] = "reset"
  /\ Goto(t, "pass")
  /\ UNCHANGED <<poolVars, barVars, wakeVars, walkVars, localVars, workVars>>

(* The last thread resets the counter before it opens the barrier.         *)
BarrierReset(t) ==
  /\ pc[t] = "reset"
  /\ n_barrier' = 0
  /\ Goto(t, "pass")
  /\ UNCHANGED <<poolVars, n_barrier_passed, wakeVars, walkVars, localVars, workVars>>

BarrierPass(t) ==
  /\ pc[t] = "pass"
  /\ n_barrier_passed' = n_barrier_passed + 1
  /\ Goto(t, ret[t])
  /\ UNCHANGED <<poolVars, n_barrier, wakeVars, walkVars, localVars, workVars>>

BarrierSpin(t) ==
  /\ pc[t] = "spin" /\ n_barrier_passed # n_passed[t]
  /\ Goto(t, ret[t])
  /\ UNCHANGED <<poolVars, barVars, wakeVars, walkVars, localVars, workVars>>

-----------------------------------------------------------------------------
Idle(t) ==
  \/ PauseCheck(t) \/ PauseWait(t) \/ PauseWake(t) \/ StopCheck(t)
  \/ Poll(t) \/ PollGraph(t) \/ LockCheck(t) \/ Wake(t)

Compute(t) ==
  \/ Start(t) \/ Loop(t) \/ Convert(t) \/ Chunk(t) \/ ChunksEnd(t) \/ NodeDone(t) \/ Leave(t)
  \/ BarrierLoad(t) \/ BarrierAdd(t) \/ BarrierReset(t) \/ BarrierPass(t) \/ BarrierSpin(t)

Step(t) == (t \in Worker /\ Idle(t)) \/ Compute(t) \/ (t = 0 /\ (Kickoff \/ Join))

Next ==
  \/ \E t \in Thread : Step(t) \/ Spurious(t)
  \/ \E g \in Graphs, n \in Requests : GraphCompute(g, n)
  \/ \E p \in BOOLEAN : SetPause(p)
  \/ Free

(* Every thread runs; what the caller asks for is its own choice.          *)
Spec == Init /\ [][Next]_vars /\ \A t \in Thread : WF_vars(Step(t))

-----------------------------------------------------------------------------
(* Properties.                                                             *)

Pcs == {"idle", "kickoff", "join", "freed", "pause?", "pausing", "paused", "stop?", "poll",
        "poll_graph", "lock", "sleep", "exit", "start", "loop", "convert", "chunks", "node_done",
        "leave", "barrier", "add", "reset", "pass", "spin"}

(* Every variable holds a value of its type; the barrier never counts more *)
(* threads than the pool has.                                              *)
TypeOK ==
  /\ cgraph \in Seq({"nop", "op", "mm"})
  /\ n_graph \in [count : Nat, threads : 0 .. NThreads]
  /\ n_barrier \in 0 .. NThreads /\ n_barrier_passed \in Nat
  /\ current_chunk \in Nat /\ stop \in BOOLEAN /\ pause \in BOOLEAN
  /\ abort \in -1 .. NNodes /\ ec \in {"success", "aborted"}
  /\ asleep \subseteq Worker
  /\ pc \in [Thread -> Pcs]
  /\ last_graph \in [Thread -> [count : Nat, threads : 0 .. NThreads]]
  /\ pending \in [Thread -> BOOLEAN]
  /\ nth \in [Thread -> 0 .. NThreads] /\ node \in [Thread -> Nat] /\ chunk \in [Thread -> Nat]
  /\ need \in [Thread -> 0 .. NThreads] /\ n_passed \in [Thread -> Nat]
  /\ ret \in [Thread -> {"", "loop", "chunks", "leave"}]
  /\ DOMAIN done = Nodes /\ \A k \in Nodes : done[k] \in [Parts -> Nat]
  /\ DOMAIN prepared = Nodes /\ \A k \in Nodes : prepared[k] \subseteq Thread

Team == 0 .. n_graph.threads - 1
Complete(n) == \A c \in 0 .. NChunks(n, n_graph.threads) - 1 : done[n][c] = 1

(* A thread that computes a node finds every earlier node complete, and in *)
(* a matrix product the second operand converted by the whole team.        *)
InputsReady ==
  \A t \in Thread :
    pc[t] \in {"convert", "chunks"} =>
      /\ \A m \in 0 .. node[t] - 1 : Op(m) # "nop" => Complete(m)
      /\ pc[t] = "chunks" /\ Op(node[t]) = "mm" => prepared[node[t]] = Team

(* Between two calls of the caller, when ggml_graph_compute resets the     *)
(* parameters of the pool, "no worker threads should be accessing" them:   *)
(* each worker is out of the graph, but for leaving the last barrier.      *)
OutOfGraph(t) ==
  \/ pc[t] \notin {"start", "loop", "convert", "chunks", "node_done", "barrier", "add", "reset", "pass", "spin"}
  \/ pc[t] = "spin" /\ ret[t] = "leave" /\ n_barrier_passed # n_passed[t]
QuietReset == pc[0] \in {"idle", "kickoff"} => n_barrier = 0 /\ \A t \in Worker : OutOfGraph(t)

(* ggml_graph_compute returns success only with every node complete; after *)
(* an abort the nodes before it are complete and those behind untouched,   *)
(* the same ones on every thread.                                          *)
Untouched(n) == \A c \in Parts : done[n][c] = 0
ResultTrue ==
  pc[0] = "idle" /\ n_graph.count > 0 =>
    IF ec = "success" THEN \A m \in Nodes : Op(m) # "nop" => Complete(m)
    ELSE /\ \A m \in 0 .. abort - 1 : Op(m) # "nop" => Complete(m)
         /\ \A m \in abort .. NNodes - 1 : Untouched(m)

(* A call returns: no thread is left behind in a barrier, no kick-off is   *)
(* missed by a worker that is falling asleep or pausing, and freeing the   *)
(* pool joins every worker.                                                *)
Returns ==
  /\ pc[0] = "kickoff" ~> pc[0] = "idle"
  /\ pc[0] = "join" ~> pc[0] = "freed"
=============================================================================
