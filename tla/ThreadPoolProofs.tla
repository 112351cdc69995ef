-------------------------- MODULE ThreadPoolProofs --------------------------
(***************************************************************************)
(* The safety of the CPU thread pool for any number of threads, any graphs *)
(* and any aborts: the threads of a team stay in step, every chunk of a    *)
(* node is computed once, and the pool is quiet between two graphs.        *)
(***************************************************************************)
EXTENDS ThreadPool, FiniteSetTheorems, WellFoundedInduction, TLAPS

(* Where a thread is; one that spins at a barrier that has opened since is *)
(* as good as behind it.                                                   *)
at(t) == IF pc[t] = "spin" /\ n_passed[t] # n_barrier_passed THEN ret[t] ELSE pc[t]

CallerPcs == {"idle", "kickoff", "join", "freed"}
IdlePcs == {"pause?", "pausing", "paused", "stop?", "poll", "poll_graph", "lock", "sleep", "exit"}
BarrierPcs == {"barrier", "add", "reset", "pass", "spin"}
Walking(t) == at(t) \notin CallerPcs \cup IdlePcs \cup {"leave"}
AtBarrier(t, next) == at(t) \in BarrierPcs /\ ret[t] = next

(* Only the caller calls, only workers wait for graphs.                    *)
PcOK == pc[0] \notin IdlePcs /\ \A t \in Worker : pc[t] \notin CallerPcs

(* Who takes part in a graph: the threads of its team, each knowing the    *)
(* graph and the size of the team.                                         *)
TeamOK ==
  /\ n_graph.count > 0 <=> n_graph.threads > 0
  /\ \A t \in Thread : Walking(t) => t \in Team
  /\ \A t \in Worker : Walking(t) => last_graph[t] = n_graph
  /\ \A t \in Thread : Walking(t) /\ pc[t] # "start" => nth[t] = n_graph.threads
  /\ \A t \in Worker : /\ last_graph[t].count <= n_graph.count
                       /\ last_graph[t].count = n_graph.count => last_graph[t] = n_graph

(* The barrier counts the threads that have arrived; the last one finds    *)
(* the whole team there, resets the counter and opens.                     *)
Arrived == {t \in Team : at(t) \in {"reset", "pass", "spin"}}
Last(t) == pc[t] \in {"reset", "pass"}
BarrierOK ==
  /\ n_graph.threads <= 1 => Arrived = {}
  /\ \A t \in Thread : pc[t] \in {"add", "spin"} => n_passed[t] <= n_barrier_passed
  /\ \A t \in Thread : pc[t] = "add" => need[t] = n_graph.threads /\ n_passed[t] = n_barrier_passed
                                        /\ n_graph.threads > 1
  /\ \A t \in Thread : Last(t) => /\ Arrived = Team
                                  /\ n_barrier = IF pc[t] = "reset" THEN n_graph.threads ELSE 0
                                  /\ \A u \in Thread : Last(u) => u = t
  /\ (\A t \in Thread : ~Last(t)) => /\ n_barrier = Cardinality(Arrived)
                                     /\ n_graph.threads > 0 => n_barrier < n_graph.threads

-----------------------------------------------------------------------------
(* The walk of the team through the graph goes in sections from barrier to *)
(* barrier.  A section begins at node b, of which n == NextOp(b) is        *)
(* computed, or ends the walk.                                             *)
Halts(b) == abort = b \/ NextOp(b) = NNodes

(* Before thread t has begun with node b: it may not even have noticed the *)
(* graph.                                                                  *)
Before(t, b) ==
  \/ b = 0 /\ ~Walking(t) /\ t # 0 /\ last_graph[t] # n_graph
  \/ b = 0 /\ at(t) = "start"
  \/ at(t) = "loop" /\ node[t] = b

(* Thread t is at the chunks of node n or has done with them.              *)
After(t, n) ==
  \/ at(t) \in {"chunks", "node_done"} /\ node[t] = n
  \/ n + 1 < NNodes /\ AtBarrier(t, "loop") /\ node[t] = n + 1
  \/ n + 1 = NNodes /\ (at(t) = "loop" \/ AtBarrier(t, "leave")) /\ node[t] = NNodes

Converting(t, n) == (at(t) = "convert" \/ AtBarrier(t, "chunks")) /\ node[t] = n /\ chunk[t] = t

(* The nodes before n are complete, those from m on are untouched.         *)
Computed(n, m) ==
  /\ \A k \in 0 .. n - 1 : Op(k) # "nop" => Complete(k)
  /\ \A k \in m .. NNodes - 1 : Untouched(k) /\ prepared[k] = {}

(* Of node n the chunks up to a limit have been handed out: each has been  *)
(* computed once, or belongs to one of the threads of W.                   *)
own(t) == IF at(t) = "chunks" THEN chunk[t] ELSE t
Shared(n) == NChunks(n, n_graph.threads) > n_graph.threads
Handed(n) == IF Shared(n) THEN current_chunk ELSE n_graph.threads
Tally(n, W) ==
  /\ Handed(n) >= n_graph.threads
  /\ \A t \in W : own(t) < Handed(n)
  /\ \A t, u \in W : own(t) = own(u) => t = u
  /\ \A t \in Team \ W : Handed(n) >= NChunks(n, n_graph.threads)
  /\ \A c \in Parts : done[n][c] =
       IF c < Handed(n) /\ c < NChunks(n, n_graph.threads) /\ \A t \in W : own(t) # c THEN 1 ELSE 0

Section(b) ==
  LET n == NextOp(b)
  IN  /\ b \in 0 .. NNodes
      /\ abort \in {-1, b} \/ (n < NNodes /\ Op(n) = "op" /\ abort = n + 1)
      /\ n_graph.threads > 0
      /\ \/ /\ Halts(b)
            /\ \A t \in Team : Before(t, b) \/ AtBarrier(t, "leave")
            /\ Computed(b, b)
         \/ /\ ~Halts(b) /\ Op(n) = "mm"
            /\ \A t \in Team : Before(t, b) \/ Converting(t, n)
            /\ Computed(n, n + 1) /\ Untouched(n)
            /\ prepared[n] = {t \in Team : AtBarrier(t, "chunks")}
            /\ AtBarrier(0, "chunks") => current_chunk = n_graph.threads
         \/ /\ ~Halts(b) /\ Op(n) = "op"
            /\ \A t \in Team : Before(t, b) \/ After(t, n)
            /\ Computed(n, n + 1)
            /\ Tally(n, {t \in Team : Before(t, b) \/ at(t) = "chunks"})

(* Between the two barriers of a matrix product.                           *)
Product(n) ==
  /\ n \in Nodes /\ Op(n) = "mm"
  /\ n_graph.threads > 0
  /\ abort \in {-1, n + 1}
  /\ \A t \in Team : After(t, n)
  /\ Computed(n, n + 1) /\ prepared[n] = Team
  /\ Tally(n, {t \in Team : at(t) = "chunks"})

(* Behind the last barrier, and until the next kick-off.                   *)
Result ==
  n_graph.count > 0 =>
    IF ec = "success" THEN \A m \in Nodes : Op(m) # "nop" => Complete(m)
    ELSE /\ \A m \in 0 .. abort - 1 : Op(m) # "nop" => Complete(m)
         /\ \A m \in abort .. NNodes - 1 : Untouched(m)
Ended ==
  /\ at(0) \in CallerPcs \cup {"leave"}
  /\ \A t \in Team : ~Walking(t) /\ (t # 0 => last_graph[t] = n_graph)
  /\ IF pc[0] = "kickoff" THEN abort = -1 /\ nth[0] \in 1 .. NThreads /\ Computed(0, 0)
     ELSE Result

IInv ==
  /\ TypeOK /\ PcOK /\ TeamOK /\ BarrierOK
  /\ ec = "success" <=> abort = -1
  /\ Ended \/ \E n \in Nat : Section(n) \/ Product(n)

USE NThreadsAssumption, GraphsAssumption, RequestsAssumption, ExtraAssumption, MaxGraphsAssumption,
    AbortsAssumption

-----------------------------------------------------------------------------
(* The next node to compute is the first one that is not skipped.          *)
LEMMA NextOpFacts ==
  ASSUME cgraph \in Seq({"nop", "op", "mm"}), NEW b \in 0 .. NNodes
  PROVE  /\ NextOp(b) \in b .. NNodes
         /\ NextOp(b) < NNodes => Op(NextOp(b)) \in {"op", "mm"}
         /\ \A k \in b .. NextOp(b) - 1 : Op(k) = "nop"
<1> DEFINE S == {m \in b .. NNodes : m = NNodes \/ Op(m) # "nop"}
           R == {ss \in Nat \X Nat : ss[1] < ss[2]}
<1>0. NNodes \in Nat
  BY DEF NNodes
<1>1. S \in SUBSET Nat /\ NNodes \in S
  BY <1>0
<1>2. IsWellFoundedOn(R, Nat) /\ \A x, y \in Nat : <<y, x>> \in R <=> y < x
  BY NatLessThanWellFounded DEF OpToRel
<1>3. PICK m \in S : \A y \in S : ~(<<y, m>> \in R)
  <2> HIDE DEF R, S
  <2> QED BY <1>1, <1>2, WFMin, Zenon
<1>4. \A k \in b .. m - 1 : k \in b .. NNodes /\ k \notin S
  <2> HIDE DEF R
  <2> TAKE k \in b .. m - 1
  <2>1. k \in Nat /\ m \in Nat /\ k < m /\ k \in b .. NNodes
    BY <1>0, <1>1, <1>3
  <2> QED BY <1>2, <1>3, <2>1
<1>5. \A k \in b .. m - 1 : Op(k) = "nop"
  BY <1>4
<1>6. NextOp(b) \in b .. NNodes /\ (NextOp(b) = NNodes \/ Op(NextOp(b)) # "nop")
      /\ \A k \in b .. NextOp(b) - 1 : Op(k) = "nop"
  BY <1>3, <1>5 DEF NextOp
<1>7. \A k \in 0 .. NNodes - 1 : Op(k) \in {"nop", "op", "mm"}
  BY DEF NNodes, Op
<1> QED BY <1>0, <1>6, <1>7

LEMMA Nodal ==
  ASSUME TypeOK
  PROVE  /\ cgraph \in Seq({"nop", "op", "mm"}) /\ NNodes \in Nat
         /\ \A b \in 0 .. NNodes : NextOp(b) \in 0 .. NNodes /\ b <= NextOp(b)
<1>1. cgraph \in Seq({"nop", "op", "mm"})
  BY DEF TypeOK
<1>2. NNodes \in Nat
  BY <1>1 DEF NNodes
<1>3. ASSUME NEW b \in 0 .. NNodes PROVE NextOp(b) \in 0 .. NNodes /\ b <= NextOp(b)
  <2>1. NextOp(b) \in b .. NNodes
    BY <1>1, NextOpFacts
  <2> QED BY <1>2, <2>1
<1> QED BY <1>1, <1>2, <1>3

LEMMA Around ==
  ASSUME TypeOK, NEW m \in Nodes
  PROVE  /\ \A k \in 0 .. m - 1 : k \in Nodes \ {m}
         /\ \A k \in m + 1 .. NNodes - 1 : k \in Nodes \ {m}
<1>1. NNodes \in Nat
  BY Nodal
<1>2. m \in 0 .. NNodes - 1
  BY DEF Nodes
<1>3. ASSUME NEW k \in 0 .. m - 1 PROVE k \in Nodes \ {m}
  BY <1>1, <1>2 DEF Nodes
<1>4. ASSUME NEW k \in m + 1 .. NNodes - 1 PROVE k \in Nodes \ {m}
  BY <1>1, <1>2 DEF Nodes
<1> QED BY <1>3, <1>4

LEMMA GraphType ==
  ASSUME TypeOK
  PROVE  n_graph.threads \in 0 .. NThreads /\ n_graph.threads \in Nat /\ n_graph.count \in Nat
<1>1. n_graph.threads \in 0 .. NThreads
  BY DEF TypeOK
<1>2. n_graph.count \in Nat
  BY DEF TypeOK
<1> QED BY <1>1, <1>2

(* The team consists of as many threads as the graph was started with.     *)
LEMMA TeamFacts ==
  ASSUME TypeOK
  PROVE  /\ Team \subseteq Thread /\ IsFiniteSet(Team) /\ Cardinality(Team) = n_graph.threads
         /\ \A A \in SUBSET Team : IsFiniteSet(A) /\ Cardinality(A) \in 0 .. n_graph.threads
                                   /\ (Cardinality(A) = n_graph.threads => A = Team)
<1>1. n_graph.threads \in 0 .. NThreads
  BY DEF TypeOK
<1>2. IsFiniteSet(Team) /\ Cardinality(Team) = n_graph.threads
  <2>1. /\ IsFiniteSet(0 .. n_graph.threads - 1)
        /\ Cardinality(0 .. n_graph.threads - 1) =
             IF 0 > n_graph.threads - 1 THEN 0 ELSE n_graph.threads - 1 - 0 + 1
    <3>1. 0 \in Int /\ n_graph.threads - 1 \in Int
      BY <1>1
    <3> QED BY <3>1, FS_Interval
  <2> QED BY <1>1, <2>1 DEF Team
<1>3. ASSUME NEW A \in SUBSET Team
      PROVE  IsFiniteSet(A) /\ Cardinality(A) \in 0 .. n_graph.threads
             /\ (Cardinality(A) = n_graph.threads => A = Team)
  BY <1>1, <1>2, <1>3, FS_Subset, FS_CardinalityType
<1> QED BY <1>1, <1>2, <1>3 DEF Team, Thread

(* What the sections say of a thread inside the graph.                     *)
LEMMA Inside ==
  ASSUME IInv, NEW t \in Thread
  PROVE  /\ at(t) # ""
         /\ at(t) \in {"convert", "chunks", "node_done"} => node[t] \in Nodes
         /\ at(t) = "convert" => t \in Team
         /\ pc[t] \in BarrierPcs /\ Walking(t) => ret[t] \in {"loop", "chunks", "leave"}
<1>0. ret[t] \in {"", "loop", "chunks", "leave"}
  BY DEF IInv, TypeOK
<1>1. CASE ~Walking(t)
  BY <1>1 DEF Walking, CallerPcs, IdlePcs
<1>2. CASE Walking(t)
  <2>1. t \in Team
    BY <1>2 DEF IInv, TeamOK
  <2>2. ~Ended
    BY <1>2, <2>1 DEF Ended
  <2>3. PICK n \in Nat : Section(n) \/ Product(n)
    BY <2>2 DEF IInv
  <2>4. CASE Product(n)
    <3>1. n \in Nodes /\ After(t, n)
      BY <2>1, <2>4 DEF Product
    <3> QED BY <1>0, <2>1, <3>1 DEF After, AtBarrier, BarrierPcs, at
  <2>5. CASE Section(n)
    <3>t. cgraph \in Seq({"nop", "op", "mm"})
      BY DEF IInv, TypeOK
    <3>0. n \in 0 .. NNodes /\ NNodes \in Nat
      BY <2>5, <3>t DEF Section, NNodes
    <3>1. NextOp(n) \in 0 .. NNodes /\ (NextOp(n) # NNodes => NextOp(n) \in Nodes)
      BY <3>t, <3>0, NextOpFacts DEF Nodes
    <3>2. \/ Before(t, n) \/ AtBarrier(t, "leave")
          \/ NextOp(n) # NNodes /\ (Converting(t, NextOp(n)) \/ After(t, NextOp(n)))
      BY <2>1, <2>5 DEF Section, Halts
    <3> QED BY <1>0, <1>2, <2>1, <3>1, <3>2 DEF Before, Converting, After, AtBarrier, BarrierPcs, at
  <2> QED BY <2>3, <2>4, <2>5
<1> QED BY <1>1, <1>2

-----------------------------------------------------------------------------
(* What a step leaves alone.                                               *)

LEMMA SameGraph ==
  ASSUME cgraph' = cgraph
  PROVE  /\ NNodes' = NNodes /\ Nodes' = Nodes
         /\ \A b : NextOp(b)' = NextOp(b) /\ Op(b)' = Op(b)
<1>1. NNodes' = NNodes /\ Nodes' = Nodes
  BY DEF Nodes, NNodes
<1>2. ASSUME NEW b PROVE NextOp(b)' = NextOp(b) /\ Op(b)' = Op(b)
  BY DEF NextOp, NNodes, Op
<1> QED BY <1>1, <1>2

(* Nodes whose chunks do not change stay complete or untouched.            *)
LEMMA SameParts ==
  ASSUME UNCHANGED <<cgraph, n_graph>>
  PROVE  /\ Team' = Team
         /\ \A k : NChunks(k, n_graph.threads)' = NChunks(k, n_graph.threads)
         /\ \A k : Shared(k)' = Shared(k)
         /\ \A k : done'[k] = done[k] => Complete(k)' = Complete(k) /\ Untouched(k)' = Untouched(k)
<1>1. Team' = Team
  BY DEF Team
<1>2. ASSUME NEW k PROVE NChunks(k, n_graph.threads)' = NChunks(k, n_graph.threads)
  BY DEF NChunks, Op
<1>3. ASSUME NEW k PROVE Shared(k)' = Shared(k)
  BY <1>2 DEF Shared
<1>4. ASSUME NEW k, done'[k] = done[k]
      PROVE  Complete(k)' = Complete(k) /\ Untouched(k)' = Untouched(k)
  BY <1>2, <1>4 DEF Complete, Untouched
<1> QED BY <1>1, <1>2, <1>3, <1>4

LEMMA SameWork ==
  ASSUME UNCHANGED <<cgraph, n_graph, done, prepared>>, NEW n, NEW m
  PROVE  Computed(n, m)' <=> Computed(n, m)
BY SameGraph, SameParts DEF Computed

(* A thread that does nothing is where it was.                             *)
LEMMA Others ==
  ASSUME NEW t, UNCHANGED <<cgraph, n_graph, n_barrier_passed>>,
         \A u \in Thread \ {t} :
            /\ pc'[u] = pc[u] /\ n_passed'[u] = n_passed[u] /\ ret'[u] = ret[u]
            /\ node'[u] = node[u] /\ chunk'[u] = chunk[u] /\ last_graph'[u] = last_graph[u],
         NEW u \in Thread \ {t}
  PROVE  /\ at(u)' = at(u) /\ own(u)' = own(u) /\ (Walking(u)' <=> Walking(u))
         /\ \A x : AtBarrier(u, x)' <=> AtBarrier(u, x)
         /\ \A b : /\ Before(u, b)' <=> Before(u, b)
                   /\ After(u, b)' <=> After(u, b)
                   /\ Converting(u, b)' <=> Converting(u, b)
<1>1. at(u)' = at(u)
  BY DEF at
<1>2. own(u)' = own(u) /\ (Walking(u)' <=> Walking(u))
  BY <1>1 DEF own, Walking
<1>3. ASSUME NEW x PROVE AtBarrier(u, x)' <=> AtBarrier(u, x)
  BY <1>1 DEF AtBarrier
<1>4. ASSUME NEW b PROVE Before(u, b)' <=> Before(u, b)
  BY <1>1, <1>2 DEF Before
<1>5. ASSUME NEW b PROVE After(u, b)' <=> After(u, b)
  BY <1>1, <1>3, SameGraph DEF After
<1>6. ASSUME NEW b PROVE Converting(u, b)' <=> Converting(u, b)
  BY <1>1, <1>3 DEF Converting
<1> QED BY <1>1, <1>2, <1>3, <1>4, <1>5, <1>6

(* A thread that only goes from one place outside of the graph to another  *)
(* does not matter, nor does one that leaves a barrier that was opened.    *)
LEMMA Unmoved ==
  ASSUME IInv, TypeOK', PcOK',
         UNCHANGED <<cgraph, n_graph, current_chunk, abort, ec, n_barrier, n_barrier_passed, last_graph,
                     nth, node, chunk, need, n_passed, ret, done, prepared>>,
         \A t \in Thread : \/ pc'[t] = pc[t]
                           \/ /\ pc[t] \notin {"add", "reset", "pass", "start"}
                              /\ pc'[t] \notin BarrierPcs \cup {"start"}
                              /\ at(t)' = at(t) \/ (~Walking(t) /\ ~Walking(t)'),
         pc'[0] = "kickoff" <=> pc[0] = "kickoff"
  PROVE  IInv'
<1>0. Team \subseteq Thread
  BY TeamFacts DEF IInv
<1>1. ASSUME NEW t \in Thread
      PROVE  /\ Walking(t)' <=> Walking(t)
             /\ Walking(t) => at(t)' = at(t)
             /\ Last(t)' <=> Last(t)
             /\ pc'[t] \in {"add", "spin"} => pc[t] = pc'[t]
             /\ Walking(t) => (pc'[t] = "start" <=> pc[t] = "start")
  BY DEF at, Walking, Last, BarrierPcs
<1>2. Team' = Team /\ Arrived' = Arrived
  <2>1. Team' = Team
    BY SameParts
  <2>2. ASSUME NEW t \in Thread
        PROVE  at(t)' \in {"reset", "pass", "spin"} <=> at(t) \in {"reset", "pass", "spin"}
    BY <1>1 DEF Walking, CallerPcs, IdlePcs
  <2> QED BY <2>1, <2>2, TeamFacts DEF Arrived, IInv
<1>3. TeamOK'
  BY <1>1, <1>2 DEF IInv, TeamOK, Worker, Thread
<1>4. BarrierOK'
  BY <1>1, <1>2 DEF IInv, BarrierOK, Last
<1>5. \A t \in Thread : /\ own(t)' = own(t)
                        /\ \A x : AtBarrier(t, x)' <=> AtBarrier(t, x)
                        /\ at(t)' = "chunks" <=> at(t) = "chunks"
  BY <1>1 DEF own, AtBarrier, Walking, CallerPcs, IdlePcs, BarrierPcs
<1>6. \A t \in Thread : \A b : /\ Before(t, b)' <=> Before(t, b)
                               /\ After(t, b)' <=> After(t, b)
                               /\ Converting(t, b)' <=> Converting(t, b)
  <2>1. \A t \in Thread : \A b : Before(t, b)' <=> Before(t, b)
    BY <1>1 DEF Before, Walking, CallerPcs, IdlePcs
  <2>2. \A t \in Thread : \A b : After(t, b)' <=> After(t, b)
    BY <1>1, <1>5, SameGraph DEF After, Walking, CallerPcs, IdlePcs
  <2>3. \A t \in Thread : \A b : Converting(t, b)' <=> Converting(t, b)
    BY <1>1, <1>5 DEF Converting, Walking, CallerPcs, IdlePcs
  <2> QED BY <2>1, <2>2, <2>3
<1>7. (ec = "success" <=> abort = -1)'
  BY DEF IInv
<1>8. Ended => Ended'
  <2>1. Computed(0, 0)' <=> Computed(0, 0)
    BY SameWork
  <2>2. Result' <=> Result
    BY SameGraph, SameParts DEF Result
  <2>3. ASSUME Ended, NEW t \in Team PROVE ~Walking(t)' /\ (t # 0 => last_graph'[t] = n_graph')
    BY <1>1, <2>3, TeamFacts DEF Ended, IInv
  <2>4. 0 \in Thread
    BY DEF Thread
  <2>5. Ended => at(0)' \in CallerPcs \cup {"leave"}
    <3>1. Ended => ~Walking(0)
      BY DEF Ended, Walking
    <3>2. at(0) \notin IdlePcs => at(0)' \notin IdlePcs
      BY <1>1, <2>4 DEF PcOK, at, IInv, TypeOK, IdlePcs
    <3>3. Ended => ~Walking(0)'
      BY <1>1, <2>4, <3>1
    <3> QED BY <3>2, <3>3 DEF Walking, Ended, CallerPcs, IdlePcs
  <2> QED BY <1>2, <2>1, <2>2, <2>3, <2>5 DEF Ended
<1>9. ASSUME NEW n \in Nat, Section(n) PROVE Section(n)'
  <2>1. /\ Halts(n)' <=> Halts(n)
        /\ \A k, m : Computed(k, m)' <=> Computed(k, m)
        /\ \A k : Untouched(k)' <=> Untouched(k)
    BY SameGraph, SameParts, SameWork DEF Halts
  <2>2. {t \in Team : AtBarrier(t, "chunks")}' = {t \in Team : AtBarrier(t, "chunks")}
    BY <1>2, <1>5, TeamFacts DEF IInv
  <2>3. {t \in Team : Before(t, n) \/ at(t) = "chunks"}' = {t \in Team : Before(t, n) \/ at(t) = "chunks"}
    BY <1>2, <1>5, <1>6, TeamFacts DEF IInv
  <2>4. Tally(NextOp(n), {t \in Team : Before(t, n) \/ at(t) = "chunks"})' <=>
        Tally(NextOp(n), {t \in Team : Before(t, n) \/ at(t) = "chunks"})
    <3>1. {t \in Team : Before(t, n) \/ at(t) = "chunks"} \subseteq Thread
      BY TeamFacts DEF IInv
    <3> QED BY <1>2, <1>5, <2>3, <3>1, SameGraph, SameParts DEF Tally, Handed
  <2>5. AtBarrier(0, "chunks")' <=> AtBarrier(0, "chunks")
    BY <1>5 DEF Thread
  <2>6. \A t \in Team : /\ Before(t, n)' <=> Before(t, n)
                        /\ AtBarrier(t, "leave")' <=> AtBarrier(t, "leave")
                        /\ Converting(t, NextOp(n))' <=> Converting(t, NextOp(n))
                        /\ After(t, NextOp(n))' <=> After(t, NextOp(n))
    BY <1>0, <1>5, <1>6, SameGraph
  <2>7. prepared' = prepared /\ abort' = abort /\ current_chunk' = current_chunk /\ n_graph' = n_graph
        /\ NNodes' = NNodes /\ NextOp(n)' = NextOp(n) /\ Op(NextOp(n))' = Op(NextOp(n))
    BY SameGraph
  <2> QED BY <1>2, <1>9, <2>1, <2>2, <2>4, <2>5, <2>6, <2>7 DEF Section
<1>10. ASSUME NEW n \in Nat, Product(n) PROVE Product(n)'
  <2>1. Computed(n, n + 1)' <=> Computed(n, n + 1)
    BY SameWork
  <2>2. {t \in Team : at(t) = "chunks"}' = {t \in Team : at(t) = "chunks"}
    BY <1>2, <1>5, TeamFacts DEF IInv
  <2>3. Tally(n, {t \in Team : at(t) = "chunks"})' <=> Tally(n, {t \in Team : at(t) = "chunks"})
    <3>1. {t \in Team : at(t) = "chunks"} \subseteq Thread
      BY TeamFacts DEF IInv
    <3> QED BY <1>2, <1>5, <2>2, <3>1, SameGraph, SameParts DEF Tally, Handed
  <2>4. \A t \in Team : After(t, n)' <=> After(t, n)
    BY <1>0, <1>6
  <2>5. prepared' = prepared /\ abort' = abort /\ n_graph' = n_graph
        /\ Nodes' = Nodes /\ Op(n)' = Op(n)
    BY SameGraph
  <2> QED BY <1>2, <1>10, <2>1, <2>3, <2>4, <2>5 DEF Product
<1> QED BY <1>3, <1>4, <1>7, <1>8, <1>9, <1>10 DEF IInv

-----------------------------------------------------------------------------
(* Steps outside of the graph.                                             *)

LEMMA ZeroThread == 0 \in Thread /\ Worker = Thread \ {0}
BY DEF Thread, Worker

(* What the caller does between two graphs, but for handing out the next.  *)
LEMMA CallerStep ==
  ASSUME IInv, Join \/ Free \/ \E p \in BOOLEAN : SetPause(p)
  PROVE  IInv'
<1>1. /\ pc[0] \in {"idle", "join"}
      /\ pc' = pc \/ \E l \in {"join", "freed"} : pc' = [pc EXCEPT ![0] = l]
      /\ UNCHANGED <<cgraph, n_graph, current_chunk, abort, ec, n_barrier, n_barrier_passed, last_graph,
                     pending, nth, node, chunk, need, n_passed, ret, done, prepared>>
      /\ stop' \in BOOLEAN /\ pause' \in BOOLEAN /\ asleep' \in {{}, asleep}
  BY DEF Join, Free, SetPause, Goto, poolVars, barVars, wakeVars, walkVars, localVars, workVars,
         IInv, TypeOK
<1>2. \A t \in Thread : pc'[t] = pc[t] \/ (t = 0 /\ pc'[t] \in {"join", "freed"})
  BY <1>1 DEF IInv, TypeOK
<1>3. TypeOK'
  <2>t. TypeOK
    BY DEF IInv
  <2> QED BY <1>1, <2>t, SameGraph DEF TypeOK, Pcs
<1>4. PcOK'
  BY <1>1, <1>2, ZeroThread DEF IInv, PcOK, IdlePcs
<1>5. \A t \in Thread : \/ pc'[t] = pc[t]
                        \/ /\ pc[t] \notin {"add", "reset", "pass", "start"}
                           /\ pc'[t] \notin BarrierPcs \cup {"start"}
                           /\ ~Walking(t) /\ ~Walking(t)'
  BY <1>1, <1>2 DEF Walking, at, CallerPcs, BarrierPcs
<1>6. pc'[0] = "kickoff" <=> pc[0] = "kickoff"
  BY <1>1, <1>2, ZeroThread
<1> QED BY <1>1, <1>3, <1>4, <1>5, <1>6, Unmoved

(* A worker pauses, polls, sleeps or wakes up without finding a graph.     *)
LEMMA WaitStep ==
  ASSUME IInv, NEW t \in Worker, last_graph' = last_graph /\ pending' = pending,
         Idle(t)
  PROVE  IInv'
<1>1. /\ pc[t] \in IdlePcs
      /\ \E l \in IdlePcs : pc' = [pc EXCEPT ![t] = l]
      /\ UNCHANGED <<cgraph, n_graph, current_chunk, stop, pause, abort, ec, n_barrier, n_barrier_passed,
                     nth, node, chunk, need, n_passed, ret, done, prepared>>
      /\ asleep' \in {asleep, asleep \cup {t}}
  <2> USE DEF Goto, IdlePcs, poolVars, barVars, wakeVars, walkVars, localVars, workVars
  <2>0. ~(New(t) /\ TakeGraph(t))
    <3>1. last_graph \in [Thread -> [count : Nat, threads : 0 .. NThreads]] /\ t \in Thread
      BY ZeroThread DEF IInv, TypeOK
    <3> QED BY <3>1 DEF New, TakeGraph
  <2>1. CASE PauseCheck(t) \/ StopCheck(t) \/ Poll(t)
    BY <2>1 DEF PauseCheck, StopCheck, Poll
  <2>2. CASE PauseWait(t)
    BY <2>2 DEF PauseWait
  <2>3. CASE PauseWake(t) \/ Wake(t)
    BY <2>3 DEF PauseWake, Wake
  <2>4. CASE PollGraph(t)
    BY <2>0, <2>4 DEF PollGraph
  <2>5. CASE LockCheck(t)
    BY <2>0, <2>5 DEF LockCheck
  <2> QED BY <2>1, <2>2, <2>3, <2>4, <2>5 DEF Idle
<1>2. \A u \in Thread : pc'[u] = pc[u] \/ (u = t /\ pc'[u] \in IdlePcs)
  BY <1>1 DEF IInv, TypeOK
<1>3. TypeOK'
  <2>1. pc' \in [Thread -> Pcs]
    BY <1>1 DEF IInv, TypeOK, Pcs, IdlePcs
  <2>2. asleep' \subseteq Worker
    BY <1>1 DEF IInv, TypeOK
  <2> QED BY <1>1, <2>1, <2>2, SameGraph DEF IInv, TypeOK
<1>4. PcOK'
  BY <1>1, <1>2, ZeroThread DEF IInv, PcOK, IdlePcs, CallerPcs
<1>5. \A u \in Thread : \/ pc'[u] = pc[u]
                        \/ /\ pc[u] \notin {"add", "reset", "pass", "start"}
                           /\ pc'[u] \notin BarrierPcs \cup {"start"}
                           /\ ~Walking(u) /\ ~Walking(u)'
  BY <1>1, <1>2 DEF Walking, at, IdlePcs, BarrierPcs
<1>6. pc'[0] = "kickoff" <=> pc[0] = "kickoff"
  BY <1>1, <1>2, ZeroThread DEF IdlePcs
<1> QED BY <1>1, <1>3, <1>4, <1>5, <1>6, Unmoved

(* A thread leaves the graph, or a barrier that is open; or it wakes up    *)
(* for no reason.                                                          *)
LEMMA LeaveStep ==
  ASSUME IInv, NEW t \in Thread, Leave(t) \/ BarrierSpin(t) \/ Spurious(t)
  PROVE  IInv'
<1>0. UNCHANGED <<cgraph, n_graph, current_chunk, stop, pause, abort, ec, n_barrier, n_barrier_passed,
                  last_graph, pending, nth, node, chunk, need, n_passed, ret, done, prepared>>
  BY DEF Leave, BarrierSpin, Spurious, poolVars, barVars, wakeVars, walkVars, localVars, workVars
<1>1. CASE Leave(t)
  <2>1. /\ pc[t] = "leave" /\ pc' = [pc EXCEPT ![t] = IF t = 0 THEN "idle" ELSE "pause?"]
        /\ asleep' = asleep
    BY <1>1 DEF Leave, Goto, wakeVars
  <2>2. \A u \in Thread : pc'[u] = IF u = t THEN (IF t = 0 THEN "idle" ELSE "pause?") ELSE pc[u]
    BY <2>1 DEF IInv, TypeOK
  <2>3. TypeOK'
    BY <1>0, <2>1, SameGraph DEF IInv, TypeOK, Pcs
  <2>4. PcOK'
    BY <2>2, ZeroThread DEF IInv, PcOK, IdlePcs, CallerPcs
  <2>5. \A u \in Thread : \/ pc'[u] = pc[u]
                          \/ /\ pc[u] \notin {"add", "reset", "pass", "start"}
                             /\ pc'[u] \notin BarrierPcs \cup {"start"}
                             /\ ~Walking(u) /\ ~Walking(u)'
    <3>1. at(t) = "leave" /\ at(t)' = IF t = 0 THEN "idle" ELSE "pause?"
      BY <2>1, <2>2 DEF at
    <3>2. ~Walking(t) /\ ~Walking(t)'
      BY <3>1 DEF Walking, IdlePcs, CallerPcs
    <3> QED BY <2>1, <2>2, <3>2 DEF BarrierPcs
  <2>6. pc'[0] = "kickoff" <=> pc[0] = "kickoff"
    BY <2>1, <2>2, ZeroThread
  <2> QED BY <1>0, <2>3, <2>4, <2>5, <2>6, Unmoved
<1>2. CASE BarrierSpin(t)
  <2>1. /\ pc[t] = "spin" /\ n_barrier_passed # n_passed[t] /\ pc' = [pc EXCEPT ![t] = ret[t]]
        /\ asleep' = asleep /\ at(t) = ret[t]
    BY <1>2 DEF BarrierSpin, Goto, wakeVars, at
  <2>2. ret[t] \in {"loop", "chunks", "leave"}
    BY <2>1, Inside DEF IInv, TypeOK
  <2>3. \A u \in Thread : pc'[u] = IF u = t THEN ret[t] ELSE pc[u]
    BY <2>1 DEF IInv, TypeOK
  <2>4. TypeOK'
    BY <1>0, <2>1, <2>2, SameGraph DEF IInv, TypeOK, Pcs
  <2>5. PcOK'
    BY <2>2, <2>3, ZeroThread DEF IInv, PcOK, IdlePcs, CallerPcs
  <2>6. \A u \in Thread : \/ pc'[u] = pc[u]
                          \/ /\ pc[u] \notin {"add", "reset", "pass", "start"}
                             /\ pc'[u] \notin BarrierPcs \cup {"start"}
                             /\ at(u)' = at(u)
    BY <2>1, <2>2, <2>3 DEF at, BarrierPcs
  <2>7. pc'[0] = "kickoff" <=> pc[0] = "kickoff"
    BY <2>1, <2>2, <2>3, ZeroThread
  <2> QED BY <1>0, <2>4, <2>5, <2>6, <2>7, Unmoved
<1>3. CASE Spurious(t)
  <2>1. pc' = pc /\ asleep' \subseteq asleep
    BY <1>3 DEF Spurious
  <2>2. TypeOK' /\ PcOK'
    BY <1>0, <2>1, SameGraph DEF IInv, TypeOK, PcOK
  <2> QED BY <1>0, <2>1, <2>2, Unmoved
<1> QED BY <1>1, <1>2, <1>3

-----------------------------------------------------------------------------
(* A graph is handed out.                                                  *)

(* While the caller is not in the graph, nobody is.                        *)
LEMMA Quiet ==
  ASSUME IInv, ~Walking(0)
  PROVE  /\ Ended /\ Arrived = {} /\ n_barrier = 0
         /\ \A t \in Thread : ~Walking(t) /\ pc[t] \notin {"start", "add", "reset", "pass"}
<1>1. Ended
  <2> SUFFICES ASSUME NEW n \in Nat, Section(n) \/ Product(n) PROVE FALSE
    BY DEF IInv
  <2>1. 0 \in Team
    <3>1. n_graph.threads > 0
      BY DEF Section, Product
    <3>2. n_graph.threads \in 0 .. NThreads
      BY DEF IInv, TypeOK
    <3> QED BY <3>1, <3>2 DEF Team
  <2>2. Before(0, n) \/ AtBarrier(0, "leave") \/ Converting(0, NextOp(n)) \/ After(0, NextOp(n)) \/ After(0, n)
    BY <2>1 DEF Section, Product
  <2> QED BY <2>2 DEF Before, AtBarrier, Converting, After, Walking, CallerPcs, IdlePcs, BarrierPcs
<1>2. \A t \in Thread : ~Walking(t)
  BY <1>1 DEF Ended, IInv, TeamOK
<1>3. \A t \in Thread : pc[t] \notin {"start", "add", "reset", "pass"} /\ at(t) # "spin"
  BY <1>2 DEF Walking, at, CallerPcs, IdlePcs
<1>4. Arrived = {}
  <2>1. \A t \in Team : at(t) \notin {"reset", "pass", "spin"}
    BY <1>2, TeamFacts DEF Walking, CallerPcs, IdlePcs, IInv
  <2> QED BY <2>1 DEF Arrived
<1>5. n_barrier = 0
  <2>1. \A t \in Thread : ~Last(t)
    BY <1>3 DEF Last
  <2> QED BY <1>4, <2>1, FS_EmptySet DEF IInv, BarrierOK
<1> QED BY <1>1, <1>2, <1>3, <1>4, <1>5

LEMMA GraphComputeStep ==
  ASSUME IInv, NEW g \in Graphs, NEW n \in Requests, GraphCompute(g, n)
  PROVE  IInv'
<1>0. /\ pc[0] = "idle" /\ pc' = [pc EXCEPT ![0] = "kickoff"]
      /\ cgraph' = g /\ current_chunk' = 0 /\ abort' = -1 /\ ec' = "success"
      /\ done' = [k \in 0 .. Len(g) - 1 |-> [c \in Parts |-> 0]]
      /\ prepared' = [k \in 0 .. Len(g) - 1 |-> {}]
      /\ nth' = [nth EXCEPT ![0] = Min2(n, NThreads)]
      /\ UNCHANGED <<n_graph, stop, pause, n_barrier, n_barrier_passed, asleep, last_graph, pending,
                     node, chunk, need, n_passed, ret>>
  BY DEF GraphCompute, Goto, barVars, wakeVars, localVars
<1>1. g \in Seq({"nop", "op", "mm"}) /\ Len(g) \in Nat /\ NNodes' = Len(g) /\ Nodes' = 0 .. Len(g) - 1
  BY <1>0 DEF NNodes, Nodes
<1>2. Min2(n, NThreads) \in 1 .. NThreads
  BY DEF Min2
<1>2a. Min2(n, NThreads) \in 0 .. NThreads
  BY <1>2
<1>3. \A t \in Thread : pc'[t] = IF t = 0 THEN "kickoff" ELSE pc[t]
  BY <1>0 DEF IInv, TypeOK
<1>4. ~Walking(0)
  BY <1>0 DEF Walking, at, CallerPcs
<1>5. TypeOK'
  <2>t. TypeOK
    BY DEF IInv
  <2>0. pc' \in [Thread -> Pcs]
    BY <1>0, <2>t DEF TypeOK, Pcs
  <2>1. nth' \in [Thread -> 0 .. NThreads]
    BY <1>0, <1>2a, <2>t, Zenon DEF TypeOK
  <2>2. /\ DOMAIN done' = Nodes' /\ \A k \in Nodes' : done'[k] \in [Parts -> Nat]
        /\ DOMAIN prepared' = Nodes' /\ \A k \in Nodes' : prepared'[k] \subseteq Thread
    BY <1>0, <1>1
  <2>3. /\ cgraph' \in Seq({"nop", "op", "mm"}) /\ current_chunk' \in Nat
        /\ abort' \in -1 .. NNodes' /\ ec' \in {"success", "aborted"}
    BY <1>0, <1>1
  <2> QED BY <1>0, <2>t, <2>0, <2>1, <2>2, <2>3 DEF TypeOK
<1>6. PcOK'
  BY <1>3, ZeroThread DEF IInv, PcOK, IdlePcs
<1>7. \A t \in Thread : ~Walking(t)' /\ pc'[t] \notin {"add", "reset", "pass", "start"}
                        /\ (pc'[t] = "spin" => pc[t] = "spin") /\ ~Last(t)'
  <2>1. \A t \in Thread : ~Walking(t) /\ pc[t] \notin {"start", "add", "reset", "pass"}
    BY <1>4, Quiet
  <2> QED BY <1>0, <1>3, <2>1 DEF Walking, at, CallerPcs, Last
<1>8. Team' = Team
  BY <1>0 DEF Team
<1>9. Team \subseteq Thread
  BY TeamFacts DEF IInv
<1>10. TeamOK'
  BY <1>0, <1>7 DEF IInv, TeamOK, Worker, Thread
<1>11. Arrived' = {} /\ Arrived = {} /\ n_barrier = 0
  <2>1. \A t \in Team : at(t)' \notin {"reset", "pass", "spin"}
    BY <1>7, <1>9 DEF Walking, CallerPcs, IdlePcs
  <2> QED BY <1>4, <1>8, <2>1, Quiet DEF Arrived
<1>12. BarrierOK'
  BY <1>0, <1>7, <1>11, FS_EmptySet DEF IInv, BarrierOK
<1>13. Ended'
  <2>1. Computed(0, 0)'
    BY <1>0, <1>1 DEF Computed, Untouched
  <2>2. at(0)' = "kickoff"
    BY <1>3, ZeroThread DEF at
  <2>3. nth'[0] = Min2(n, NThreads)
    BY <1>0, ZeroThread DEF IInv, TypeOK
  <2>4. \A t \in Team : t # 0 => last_graph[t] = n_graph
    BY <1>4, Quiet DEF Ended
  <2> QED BY <1>0, <1>2, <1>3, <1>7, <1>8, <1>9, <2>1, <2>2, <2>3, <2>4, ZeroThread DEF Ended, CallerPcs
<1> QED BY <1>0, <1>5, <1>6, <1>10, <1>12, <1>13 DEF IInv

(* A section that no thread has begun with.                                *)
FreshAt(b) ==
  /\ TypeOK /\ b \in 0 .. NNodes /\ n_graph.threads > 0 /\ abort \in {-1, b}
  /\ \A t \in Team : Before(t, b)
  /\ Computed(b, b)

LEMMA Fresh == \A b \in Nat : FreshAt(b) => Section(b)
<1> SUFFICES ASSUME NEW b \in Nat, FreshAt(b) PROVE Section(b)
  OBVIOUS
<1> USE DEF FreshAt
<1> DEFINE n == NextOp(b)
<1>1. cgraph \in Seq({"nop", "op", "mm"}) /\ NNodes \in Nat /\ b \in 0 .. NNodes
  <2>1. cgraph \in Seq({"nop", "op", "mm"})
    BY DEF TypeOK
  <2> QED BY <2>1 DEF NNodes
<1>2. /\ n \in b .. NNodes /\ (n # NNodes => Op(n) \in {"op", "mm"})
      /\ \A k \in b .. n - 1 : Op(k) = "nop"
  BY <1>1, NextOpFacts
<1>3. \A t \in Team : at(t) \notin BarrierPcs /\ at(t) # "chunks" /\ (\A x : ~AtBarrier(t, x))
  BY DEF Before, AtBarrier, BarrierPcs, Walking, CallerPcs, IdlePcs
<1>4. Computed(n, n + 1) /\ (n # NNodes => Untouched(n) /\ prepared[n] = {})
  BY <1>1, <1>2 DEF Computed
<1>5. 0 \in Team
  BY GraphType DEF Team
<1>6. CASE Halts(b)
  BY <1>6 DEF Section
<1>7. CASE ~Halts(b) /\ Op(n) = "mm"
  <2>1. n # NNodes
    BY <1>7 DEF Halts
  <2>2. {t \in Team : AtBarrier(t, "chunks")} = {} /\ ~AtBarrier(0, "chunks")
    BY <1>3, <1>5
  <2> QED BY <1>4, <1>7, <2>1, <2>2 DEF Section
<1>8. CASE ~Halts(b) /\ Op(n) = "op"
  <2>1. n # NNodes
    BY <1>8 DEF Halts
  <2>2. {t \in Team : Before(t, b) \/ at(t) = "chunks"} = Team
    OBVIOUS
  <2>3. ~Shared(n) /\ Handed(n) = n_graph.threads /\ NChunks(n, n_graph.threads) = n_graph.threads
        /\ n_graph.threads \in Nat
    BY <1>8, GraphType DEF Shared, Handed, NChunks
  <2>4. \A t \in Team : own(t) = t
    BY <1>3 DEF own
  <2>5. Tally(n, Team)
    <3>1. \A t \in Team : own(t) < Handed(n)
      BY <2>3, <2>4 DEF Team
    <3>2. \A c \in Parts : c < Handed(n) => c \in Team
      BY <2>3 DEF Parts, Team
    <3>3. \A c \in Parts : done[n][c] = 0
      BY <1>4, <2>1 DEF Untouched
    <3> QED BY <2>3, <2>4, <3>1, <3>2, <3>3 DEF Tally
  <2> QED BY <1>4, <1>8, <2>1, <2>2, <2>5 DEF Section
<1> QED BY <1>2, <1>6, <1>7, <1>8 DEF Halts

LEMMA KickoffStep ==
  ASSUME IInv, Kickoff
  PROVE  IInv'
<1>0. /\ pc[0] = "kickoff" /\ pc' = [pc EXCEPT ![0] = "start"]
      /\ n_graph' = [count |-> n_graph.count + 1, threads |-> nth[0]]
      /\ pause' = FALSE /\ asleep' = {}
      /\ UNCHANGED <<cgraph, current_chunk, stop, abort, ec, n_barrier, n_barrier_passed, last_graph,
                     pending, nth, node, chunk, need, n_passed, ret, done, prepared>>
  BY DEF Kickoff, Goto, barVars, walkVars, localVars, workVars
<1>t. TypeOK
  BY DEF IInv
<1>1. ~Walking(0)
  BY <1>0 DEF Walking, at, CallerPcs
<1>2. /\ Ended /\ Arrived = {} /\ n_barrier = 0
      /\ \A t \in Thread : ~Walking(t) /\ pc[t] \notin {"start", "add", "reset", "pass"}
  BY <1>1, Quiet
<1>3. abort = -1 /\ nth[0] \in 1 .. NThreads /\ Computed(0, 0)
  BY <1>0, <1>2 DEF Ended
<1>4. /\ n_graph.count \in Nat /\ n_graph'.count = n_graph.count + 1 /\ n_graph'.threads = nth[0]
      /\ nth[0] \in 0 .. NThreads
  <2>1. n_graph.count \in Nat
    BY <1>t DEF TypeOK
  <2> QED BY <1>0, <1>3, <2>1
<1>5. Team' \subseteq Thread /\ 0 \in Team' /\ Team' = 0 .. nth[0] - 1
  BY <1>3, <1>4 DEF Team, Thread
<1>6. \A t \in Thread : pc'[t] = IF t = 0 THEN "start" ELSE pc[t]
  BY <1>0, <1>t DEF TypeOK
<1>7. TypeOK'
  <2>1. pc' \in [Thread -> Pcs]
    BY <1>0, <1>t DEF TypeOK, Pcs
  <2>2. n_graph' \in [count : Nat, threads : 0 .. NThreads]
    BY <1>0, <1>4
  <2> QED BY <1>0, <1>t, <2>1, <2>2, SameGraph DEF TypeOK
<1>8. PcOK'
  BY <1>6, ZeroThread DEF IInv, PcOK, IdlePcs
<1>9. \A t \in Thread : /\ t # 0 => ~Walking(t)'
                        /\ at(t)' = IF t = 0 THEN "start" ELSE at(t)
  BY <1>0, <1>2, <1>6 DEF Walking, at
<1>10. \A t \in Worker : last_graph[t].count <= n_graph.count /\ last_graph[t].count \in Nat
  BY <1>t, ZeroThread DEF IInv, TeamOK, TypeOK
<1>11. \A t \in Worker : last_graph[t].count < n_graph'.count /\ last_graph[t] # n_graph'
  BY <1>4, <1>10
<1>12. TeamOK'
  <2>1. \A t \in Worker : last_graph'[t].count <= n_graph'.count /\ last_graph'[t].count # n_graph'.count
    BY <1>0, <1>4, <1>10
  <2>2. n_graph'.count > 0 /\ n_graph'.threads > 0
    BY <1>3, <1>4
  <2>3. \A t \in Thread : Walking(t)' => t = 0 /\ pc'[t] = "start"
    BY <1>6, <1>9
  <2> QED BY <1>5, <2>1, <2>2, <2>3, ZeroThread DEF TeamOK
<1>13. Arrived' = {}
  <2>1. \A t \in Thread : at(t)' \notin {"reset", "pass", "spin"}
    BY <1>2, <1>9 DEF Walking, CallerPcs, IdlePcs
  <2> QED BY <1>5, <2>1 DEF Arrived
<1>14. BarrierOK'
  <2>1. \A t \in Thread : ~Last(t)' /\ pc'[t] # "add" /\ (pc'[t] = "spin" => pc[t] = "spin")
    BY <1>2, <1>6 DEF Last
  <2> QED BY <1>0, <1>2, <1>3, <1>4, <1>13, <2>1, FS_EmptySet DEF IInv, BarrierOK
<1>15. Section(0)'
  <2>1. \A t \in Team' : Before(t, 0)'
    BY <1>0, <1>5, <1>9, <1>11, ZeroThread DEF Before
  <2>2. Computed(0, 0)'
    <3>1. \A k \in 0 .. NNodes - 1 : Untouched(k)' /\ prepared'[k] = {}
      BY <1>0, <1>3 DEF Computed, Untouched
    <3> QED BY <1>0, <3>1, SameGraph DEF Computed
  <2>3. 0 \in 0 .. NNodes'
    <3>1. cgraph' \in Seq({"nop", "op", "mm"})
      BY <1>7 DEF TypeOK
    <3> QED BY <3>1 DEF NNodes
  <2>4. FreshAt(0)'
    BY <1>0, <1>3, <1>4, <1>7, <2>1, <2>2, <2>3 DEF FreshAt
  <2>5. (\A b \in Nat : FreshAt(b) => Section(b))'
    BY Fresh, PTL
  <2> QED BY <2>4, <2>5
<1> QED BY <1>0, <1>3, <1>7, <1>8, <1>12, <1>14, <1>15 DEF IInv

-----------------------------------------------------------------------------
(* Steps of a thread within its section.                                   *)

Idles(t) ==
  /\ UNCHANGED <<cgraph, n_graph, n_barrier_passed>>
  /\ \A u \in Thread \ {t} :
       /\ pc'[u] = pc[u] /\ n_passed'[u] = n_passed[u] /\ ret'[u] = ret[u]
       /\ node'[u] = node[u] /\ chunk'[u] = chunk[u] /\ last_graph'[u] = last_graph[u]

InHalt(t, n) == Before(t, n) \/ AtBarrier(t, "leave")
InProduct(t, n) == Before(t, n) \/ Converting(t, NextOp(n))
InOp(t, n) == Before(t, n) \/ After(t, NextOp(n))
Busy(t, n) == Before(t, n) \/ at(t) = "chunks"

(* A thread may go on as long as it keeps its chunk.                       *)
KeepsSection(t, n) ==
  t \in Team =>
    /\ Halts(n) /\ InHalt(t, n) => InHalt(t, n)'
    /\ ~Halts(n) /\ Op(NextOp(n)) = "mm" /\ InProduct(t, n) =>
         InProduct(t, n)' /\ (AtBarrier(t, "chunks")' <=> AtBarrier(t, "chunks"))
    /\ ~Halts(n) /\ Op(NextOp(n)) = "op" /\ InOp(t, n) =>
         InOp(t, n)' /\ (Busy(t, n)' <=> Busy(t, n)) /\ (Busy(t, n) => own(t)' = own(t))
KeepsProduct(t, n) ==
  t \in Team /\ After(t, n) =>
    After(t, n)' /\ (at(t)' = "chunks" <=> at(t) = "chunks") /\ own(t)' = own(t)

LEMMA StaySection ==
  ASSUME TypeOK, NEW t \in Thread, Idles(t),
         UNCHANGED <<done, prepared, abort, current_chunk>>,
         NEW n \in Nat, Section(n), KeepsSection(t, n)
  PROVE  Section(n)'
<1> USE DEF KeepsSection
<1>0. Team' = Team /\ Team \subseteq Thread /\ (n_graph.threads > 0 => 0 \in Team)
  BY SameParts, TeamFacts, GraphType DEF Idles, Team
<1>1. /\ NNodes' = NNodes /\ NextOp(n)' = NextOp(n) /\ Op(NextOp(n))' = Op(NextOp(n))
      /\ n_graph' = n_graph
      /\ (Halts(n)' <=> Halts(n)) /\ (Untouched(NextOp(n))' <=> Untouched(NextOp(n)))
      /\ \A k, m : Computed(k, m)' <=> Computed(k, m)
  BY SameGraph, SameParts, SameWork DEF Idles, Halts
<1>2. \A u \in Thread \ {t} :
        /\ InHalt(u, n)' <=> InHalt(u, n)
        /\ InProduct(u, n)' <=> InProduct(u, n)
        /\ InOp(u, n)' <=> InOp(u, n)
        /\ Busy(u, n)' <=> Busy(u, n)
        /\ AtBarrier(u, "chunks")' <=> AtBarrier(u, "chunks")
        /\ own(u)' = own(u)
  <2> SUFFICES ASSUME NEW u \in Thread \ {t}
               PROVE  /\ InHalt(u, n)' <=> InHalt(u, n)
                      /\ InProduct(u, n)' <=> InProduct(u, n)
                      /\ InOp(u, n)' <=> InOp(u, n)
                      /\ Busy(u, n)' <=> Busy(u, n)
                      /\ AtBarrier(u, "chunks")' <=> AtBarrier(u, "chunks")
                      /\ own(u)' = own(u)
    OBVIOUS
  <2>1. /\ at(u)' = at(u) /\ own(u)' = own(u)
        /\ \A x : AtBarrier(u, x)' <=> AtBarrier(u, x)
        /\ \A b : /\ Before(u, b)' <=> Before(u, b)
                  /\ After(u, b)' <=> After(u, b)
                  /\ Converting(u, b)' <=> Converting(u, b)
    BY Others DEF Idles
  <2> QED BY <1>1, <2>1 DEF InHalt, InProduct, InOp, Busy
<1>3. CASE Halts(n)
  <2>1. \A u \in Team : InHalt(u, n)
    BY <1>3 DEF Section, InHalt
  <2>2. \A u \in Team : InHalt(u, n)'
    BY <1>0, <1>2, <1>3, <2>1
  <2> QED BY <1>0, <1>1, <1>3, <2>2 DEF Section, InHalt
<1>4. CASE ~Halts(n) /\ Op(NextOp(n)) = "mm"
  <2>1. \A u \in Team : InProduct(u, n)
    BY <1>4 DEF Section, InProduct
  <2>2. \A u \in Team : InProduct(u, n)' /\ (AtBarrier(u, "chunks")' <=> AtBarrier(u, "chunks"))
    BY <1>0, <1>2, <1>4, <2>1
  <2>3. {u \in Team : AtBarrier(u, "chunks")}' = {u \in Team : AtBarrier(u, "chunks")}
    BY <1>0, <2>2
  <2>4. AtBarrier(0, "chunks")' <=> AtBarrier(0, "chunks")
    BY <1>0, <2>2 DEF Section
  <2> QED BY <1>0, <1>1, <1>4, <2>2, <2>3, <2>4 DEF Section, InProduct
<1>5. CASE ~Halts(n) /\ Op(NextOp(n)) = "op"
  <2>1. \A u \in Team : InOp(u, n)
    BY <1>5 DEF Section, InOp
  <2>2. \A u \in Team : InOp(u, n)' /\ (Busy(u, n)' <=> Busy(u, n)) /\ (Busy(u, n) => own(u)' = own(u))
    BY <1>0, <1>2, <1>5, <2>1
  <2>3. {u \in Team : Before(u, n) \/ at(u) = "chunks"}' = {u \in Team : Before(u, n) \/ at(u) = "chunks"}
    BY <1>0, <2>2 DEF Busy
  <2>4. Tally(NextOp(n), {u \in Team : Before(u, n) \/ at(u) = "chunks"})
    BY <1>5 DEF Section
  <2>5. Tally(NextOp(n), {u \in Team : Before(u, n) \/ at(u) = "chunks"})'
    <3>1. \A u \in {u \in Team : Before(u, n) \/ at(u) = "chunks"} : own(u)' = own(u)
      BY <2>2 DEF Busy
    <3>2. Handed(NextOp(n))' = Handed(NextOp(n))
          /\ NChunks(NextOp(n), n_graph.threads)' = NChunks(NextOp(n), n_graph.threads)
      BY <1>1, SameParts DEF Handed, Idles
    <3> QED BY <1>0, <1>1, <2>3, <2>4, <3>1, <3>2 DEF Tally
  <2> QED BY <1>0, <1>1, <1>5, <2>2, <2>5 DEF Section, InOp
<1> QED BY <1>3, <1>4, <1>5 DEF Section

LEMMA StayProduct ==
  ASSUME TypeOK, NEW t \in Thread, Idles(t),
         UNCHANGED <<done, prepared, abort, current_chunk>>,
         NEW n \in Nat, Product(n), KeepsProduct(t, n)
  PROVE  Product(n)'
<1> USE DEF KeepsProduct
<1>0. Team' = Team /\ Team \subseteq Thread
  BY SameParts, TeamFacts DEF Idles
<1>1. /\ Nodes' = Nodes /\ Op(n)' = Op(n) /\ n_graph' = n_graph
      /\ Computed(n, n + 1)' <=> Computed(n, n + 1)
  BY SameGraph, SameWork DEF Idles
<1>2. \A u \in Thread \ {t} : /\ After(u, n)' <=> After(u, n)
                              /\ at(u)' = at(u) /\ own(u)' = own(u)
  BY Others DEF Idles
<1>3. \A u \in Team : After(u, n)' /\ (at(u)' = "chunks" <=> at(u) = "chunks") /\ own(u)' = own(u)
  BY <1>0, <1>2 DEF Product
<1>4. {u \in Team : at(u) = "chunks"}' = {u \in Team : at(u) = "chunks"}
  BY <1>0, <1>3
<1>5. Tally(n, {u \in Team : at(u) = "chunks"})'
  <2>1. Tally(n, {u \in Team : at(u) = "chunks"})
    BY DEF Product
  <2>2. Handed(n)' = Handed(n) /\ NChunks(n, n_graph.threads)' = NChunks(n, n_graph.threads)
    BY <1>1, SameParts DEF Handed, Idles
  <2> QED BY <1>0, <1>1, <1>3, <1>4, <2>1, <2>2 DEF Tally
<1> QED BY <1>0, <1>1, <1>3, <1>5 DEF Product

LEMMA StayTeam ==
  ASSUME TypeOK, TeamOK, NEW t \in Thread, Idles(t),
         \A u \in Thread \ {t} : nth'[u] = nth[u],
         Walking(t)' => /\ t \in Team
                        /\ t # 0 => last_graph'[t] = n_graph
                        /\ pc'[t] # "start" => nth'[t] = n_graph.threads,
         t # 0 => last_graph'[t] \in {last_graph[t], n_graph}
  PROVE  TeamOK'
<1>1. Team' = Team /\ n_graph' = n_graph
  BY SameParts DEF Idles
<1>2. \A u \in Thread \ {t} : /\ Walking(u)' <=> Walking(u)
                              /\ pc'[u] = pc[u] /\ last_graph'[u] = last_graph[u]
  BY Others DEF Idles
<1>3. n_graph.count \in Nat
  BY GraphType
<1> QED BY <1>1, <1>2, <1>3, ZeroThread DEF TeamOK

LEMMA StayBarrier ==
  ASSUME TypeOK, BarrierOK, NEW t \in Thread, Idles(t), n_barrier' = n_barrier,
         \A u \in Thread \ {t} : need'[u] = need[u],
         at(t) \notin {"reset", "pass", "spin"}, at(t)' \notin {"reset", "pass", "spin"},
         pc'[t] = "spin" => pc[t] = "spin" /\ n_passed'[t] = n_passed[t],
         pc'[t] = "add" => need'[t] = n_graph.threads /\ n_passed'[t] = n_barrier_passed /\ n_graph.threads > 1
  PROVE  BarrierOK'
<1>1. Team' = Team /\ n_graph' = n_graph /\ n_barrier_passed' = n_barrier_passed /\ Team \subseteq Thread
  BY SameParts, TeamFacts DEF Idles
<1>2. \A u \in Thread \ {t} : /\ at(u)' = at(u) /\ pc'[u] = pc[u] /\ n_passed'[u] = n_passed[u]
                              /\ Last(u)' <=> Last(u)
  <2>1. \A u \in Thread \ {t} : at(u)' = at(u)
    BY Others DEF Idles
  <2> QED BY <2>1 DEF Last, Idles
<1>3. ~Last(t) /\ ~Last(t)'
  BY DEF Last, at
<1>4. Arrived' = Arrived
  BY <1>1, <1>2 DEF Arrived
<1>5. n_barrier_passed \in Nat
  BY DEF TypeOK
<1> QED BY <1>1, <1>2, <1>3, <1>4, <1>5 DEF BarrierOK

(* What of a thread matters to its team and to the barrier.                *)
KeepsTeam(t) ==
  /\ Walking(t)' => /\ t \in Team
                    /\ t # 0 => last_graph'[t] = n_graph
                    /\ pc'[t] # "start" => nth'[t] = n_graph.threads
  /\ t # 0 => last_graph'[t] \in {last_graph[t], n_graph}
KeepsBarrier(t) ==
  /\ at(t) \notin {"reset", "pass", "spin"} /\ at(t)' \notin {"reset", "pass", "spin"}
  /\ pc'[t] = "spin" => pc[t] = "spin" /\ n_passed'[t] = n_passed[t]
  /\ pc'[t] = "add" => need'[t] = n_graph.threads /\ n_passed'[t] = n_barrier_passed /\ n_graph.threads > 1

LEMMA StayStep ==
  ASSUME IInv, NEW t \in Thread, Idles(t), TypeOK', PcOK',
         UNCHANGED <<n_barrier, done, prepared, abort, ec, current_chunk>>,
         \A u \in Thread \ {t} : nth'[u] = nth[u] /\ need'[u] = need[u],
         KeepsTeam(t), KeepsBarrier(t),
         Ended => t # 0 /\ t \notin Team,
         \A n \in Nat : (Section(n) => KeepsSection(t, n)) /\ (Product(n) => KeepsProduct(t, n))
  PROVE  IInv'
<1>0. TypeOK /\ TeamOK /\ BarrierOK /\ (ec = "success" <=> abort = -1)
  BY DEF IInv
<1>1. TeamOK'
  BY <1>0, StayTeam DEF KeepsTeam
<1>2. BarrierOK'
  BY <1>0, StayBarrier DEF KeepsBarrier
<1>3. CASE Ended
  <2>1. t # 0 /\ t \notin Team /\ Team' = Team /\ Team \subseteq Thread
    BY <1>0, <1>3, SameParts, TeamFacts DEF Idles
  <2>2. \A u \in Thread \ {t} : at(u)' = at(u) /\ (Walking(u)' <=> Walking(u))
    BY Others DEF Idles
  <2>3. (Computed(0, 0)' <=> Computed(0, 0)) /\ (Result' <=> Result)
    BY SameGraph, SameParts, SameWork DEF Idles, Result
  <2>4. 0 \in Thread \ {t}
    BY <2>1, ZeroThread
  <2>5. n_graph' = n_graph /\ \A u \in Team : u \in Thread \ {t}
    BY <2>1 DEF Idles
  <2>6. at(0)' \in CallerPcs \cup {"leave"} /\ pc'[0] = pc[0] /\ nth'[0] = nth[0]
    BY <1>3, <2>2, <2>4 DEF Ended, Idles
  <2>7. \A u \in Team : ~Walking(u)' /\ (u # 0 => last_graph'[u] = n_graph')
    BY <1>3, <2>2, <2>5 DEF Ended, Idles
  <2>8. Ended'
    BY <1>3, <2>1, <2>3, <2>6, <2>7 DEF Ended
  <2> QED BY <1>0, <1>1, <1>2, <2>8 DEF IInv
<1>4. ASSUME NEW n \in Nat, Section(n) \/ Product(n)
      PROVE  Section(n)' \/ Product(n)'
  BY <1>0, <1>4, StaySection, StayProduct
<1> QED BY <1>0, <1>1, <1>2, <1>3, <1>4 DEF IInv

(* A worker takes notice of a graph.                                       *)
LEMMA TakeStep ==
  ASSUME IInv, NEW t \in Worker, PollGraph(t) \/ LockCheck(t), New(t), TakeGraph(t)
  PROVE  IInv'
<1>0. /\ pc[t] \in {"poll_graph", "lock"} /\ last_graph[t] # n_graph
      /\ pending' = [pending EXCEPT ![t] = t < n_graph.threads]
      /\ last_graph' = [last_graph EXCEPT ![t] = n_graph]
      /\ UNCHANGED <<cgraph, n_graph, current_chunk, stop, pause, abort, ec, n_barrier, n_barrier_passed,
                     nth, node, chunk, need, n_passed, ret, done, prepared>>
      /\ asleep' \in {asleep, asleep \cup {t}}
  BY DEF PollGraph, LockCheck, New, TakeGraph, poolVars, barVars, walkVars, localVars, workVars, wakeVars
<1>1. TypeOK /\ t \in Thread /\ t # 0 /\ t \in Nat
  BY ZeroThread DEF IInv, Worker
<1>2. last_graph'[t] = n_graph /\ pending'[t] = (t < n_graph.threads)
      /\ (pending'[t] <=> t \in Team)
  <2>1. last_graph'[t] = n_graph /\ pending'[t] = (t < n_graph.threads)
    BY <1>0, <1>1 DEF TypeOK
  <2>2. (t < n_graph.threads) <=> t \in Team
    BY <1>1, GraphType DEF Team
  <2> QED BY <2>1, <2>2, Zenon
<1>3. \E l \in {"start", "lock", "pause?"} : 
        /\ pc' = [pc EXCEPT ![t] = l] 
        /\ (l = "start" <=> t \in Team)
  <2>1. CASE PollGraph(t)
    BY <1>2, <2>1 DEF PollGraph, New, Goto
  <2>2. CASE LockCheck(t)
    <3>1. last_graph' # last_graph
      BY <1>0, <1>2
    <3> QED BY <1>2, <2>2, <3>1 DEF LockCheck, New, Goto, wakeVars
  <2> QED BY <2>1, <2>2
<1>4. \A u \in Thread : u # t => pc'[u] = pc[u] /\ last_graph'[u] = last_graph[u]
  BY <1>0, <1>1, <1>3 DEF TypeOK
<1>5. pc'[t] \in {"start", "lock", "pause?"} /\ (pc'[t] = "start" <=> t \in Team)
  BY <1>1, <1>3 DEF TypeOK
<1>6. TypeOK'
  <2>1. pc' \in [Thread -> Pcs]
    BY <1>1, <1>3 DEF TypeOK, Pcs
  <2>2. /\ n_graph \in [count : Nat, threads : 0 .. NThreads]
        /\ last_graph \in [Thread -> [count : Nat, threads : 0 .. NThreads]]
        /\ pending \in [Thread -> BOOLEAN]
    BY <1>1 DEF TypeOK
  <2>3. last_graph' \in [Thread -> [count : Nat, threads : 0 .. NThreads]]
    BY <1>0, <2>2
  <2>5. pending' \in [Thread -> BOOLEAN]
    <3> DEFINE b == t < n_graph.threads
    <3>1. b \in BOOLEAN
      OBVIOUS
    <3>2. pending' = [pending EXCEPT ![t] = b]
      BY <1>0
    <3> HIDE DEF b
    <3> QED BY <2>2, <3>1, <3>2, Zenon
  <2>4. asleep' \subseteq Worker
    BY <1>0, <1>1 DEF TypeOK
  <2> QED BY <1>0, <1>1, <2>1, <2>3, <2>4, <2>5, SameGraph DEF TypeOK
<1>7. PcOK'
  BY <1>1, <1>4, <1>5, ZeroThread DEF IInv, PcOK, CallerPcs
<1>8. Idles(t)
  BY <1>0, <1>4 DEF Idles
<1>9. at(t) = pc[t] /\ at(t)' = pc'[t] /\ ~Walking(t)
  BY <1>0, <1>5 DEF at, Walking, IdlePcs
<1>10. KeepsTeam(t)
  BY <1>2, <1>5, <1>9 DEF KeepsTeam, Walking, IdlePcs
<1>11. KeepsBarrier(t)
  BY <1>0, <1>5, <1>9 DEF KeepsBarrier
<1>12. Ended => t \notin Team
  BY <1>0, <1>1 DEF Ended
<1>13. ASSUME NEW n \in Nat, Section(n), t \in Team
       PROVE  KeepsSection(t, n)
  <2>1. ~AtBarrier(t, "leave") /\ ~After(t, NextOp(n)) /\ ~Converting(t, NextOp(n)) /\ ~AtBarrier(t, "chunks")
    BY <1>0, <1>9 DEF AtBarrier, After, Converting, BarrierPcs
  <2>2. Before(t, n) => Before(t, n)'
    BY <1>0, <1>5, <1>9, <1>13 DEF Before
  <2>3. ~AtBarrier(t, "chunks")' /\ at(t) # "chunks" /\ at(t)' # "chunks"
    BY <1>0, <1>5, <1>9, <1>13 DEF AtBarrier, BarrierPcs
  <2> QED BY <2>1, <2>2, <2>3 DEF KeepsSection, InHalt, InProduct, InOp, Busy, own
<1>14. ASSUME NEW n \in Nat, Product(n)
       PROVE  KeepsProduct(t, n)
  <2>1. ~After(t, n)
    BY <1>0, <1>9 DEF AtBarrier, After, BarrierPcs
  <2> QED BY <2>1 DEF KeepsProduct
<1>15. ASSUME NEW n \in Nat
       PROVE  (Section(n) => KeepsSection(t, n)) /\ (Product(n) => KeepsProduct(t, n))
  BY <1>13, <1>14 DEF KeepsSection
<1> QED BY <1>0, <1>1, <1>6, <1>7, <1>8, <1>10, <1>11, <1>12, <1>15, StayStep

LEMMA IdleStep ==
  ASSUME IInv, NEW t \in Worker, Idle(t)
  PROVE  IInv'
<1>1. CASE (PollGraph(t) \/ LockCheck(t)) /\ New(t) /\ TakeGraph(t)
  BY <1>1, TakeStep
<1>2. CASE ~((PollGraph(t) \/ LockCheck(t)) /\ New(t) /\ TakeGraph(t))
  <2>1. last_graph' = last_graph /\ pending' = pending
    BY <1>2 DEF Idle, PauseCheck, PauseWait, PauseWake, StopCheck, Poll, PollGraph, LockCheck, Wake, wakeVars
  <2> QED BY <2>1, WaitStep
<1> QED BY <1>1, <1>2

(* A thread in the graph belongs to the team, and the graph is not over.   *)
LEMMA Member ==
  ASSUME IInv, NEW t \in Thread, Walking(t)
  PROVE  /\ t \in Team /\ ~Ended
         /\ t # 0 => last_graph[t] = n_graph
         /\ pc[t] # "start" => nth[t] = n_graph.threads
BY ZeroThread DEF IInv, TeamOK, Ended

LEMMA StartStep ==
  ASSUME IInv, NEW t \in Thread, Start(t)
  PROVE  IInv'
<1>0. /\ pc[t] = "start" /\ pc' = [pc EXCEPT ![t] = "loop"]
      /\ pending' = [pending EXCEPT ![t] = FALSE]
      /\ nth' = [nth EXCEPT ![t] = n_graph.threads] /\ node' = [node EXCEPT ![t] = 0]
      /\ UNCHANGED <<cgraph, n_graph, current_chunk, stop, pause, abort, ec, n_barrier, n_barrier_passed,
                     asleep, last_graph, chunk, need, n_passed, ret, done, prepared>>
  BY DEF Start, Goto, poolVars, barVars, localVars, workVars
<1>1. TypeOK
  BY DEF IInv
<1>2. \A u \in Thread : /\ pc'[u] = IF u = t THEN "loop" ELSE pc[u]
                        /\ node'[u] = IF u = t THEN 0 ELSE node[u]
                        /\ nth'[u] = IF u = t THEN n_graph.threads ELSE nth[u]
  BY <1>0, <1>1 DEF TypeOK
<1>3. at(t) = "start" /\ at(t)' = "loop" /\ Walking(t) /\ Walking(t)'
  <2>1. at(t) = "start" /\ at(t)' = "loop"
    BY <1>0, <1>2 DEF at
  <2> QED BY <2>1 DEF Walking, CallerPcs, IdlePcs
<1>4. t \in Team /\ ~Ended /\ (t # 0 => last_graph[t] = n_graph)
  BY <1>3, Member
<1>5. TypeOK'
  <2>1. pc' \in [Thread -> Pcs]
    BY <1>0, <1>1 DEF TypeOK, Pcs
  <2>2. nth' \in [Thread -> 0 .. NThreads] /\ node' \in [Thread -> Nat]
    BY <1>0, <1>1, GraphType DEF TypeOK
  <2>3. pending' \in [Thread -> BOOLEAN]
    BY <1>0, <1>1 DEF TypeOK
  <2> QED BY <1>0, <1>1, <2>1, <2>2, <2>3, SameGraph DEF TypeOK
<1>6. PcOK'
  BY <1>2, ZeroThread DEF IInv, PcOK, CallerPcs, IdlePcs
<1>7. Idles(t)
  BY <1>0, <1>2 DEF Idles
<1>8. KeepsTeam(t) /\ KeepsBarrier(t)
  BY <1>0, <1>2, <1>3, <1>4 DEF KeepsTeam, KeepsBarrier
<1>9. ASSUME NEW n \in Nat
      PROVE  KeepsSection(t, n) /\ KeepsProduct(t, n)
  <2>1. /\ \A x : ~AtBarrier(t, x) /\ ~AtBarrier(t, x)'
        /\ \A m : ~After(t, m) /\ ~Converting(t, m)
    BY <1>3 DEF AtBarrier, BarrierPcs, After, Converting
  <2>2. Before(t, n) => Before(t, n)'
    BY <1>2, <1>3 DEF Before
  <2> QED BY <1>3, <2>1, <2>2 DEF KeepsSection, KeepsProduct, InHalt, InProduct, InOp, Busy, own
<1> QED BY <1>0, <1>2, <1>4, <1>5, <1>6, <1>7, <1>8, <1>9, StayStep

LEMMA LoopStep ==
  ASSUME IInv, NEW t \in Thread, Loop(t)
  PROVE  IInv'
<1> DEFINE m == NextOp(node[t])
           on == node[t] < NNodes /\ abort # node[t] /\ m < NNodes
<1>0. /\ pc[t] = "loop"
      /\ UNCHANGED <<cgraph, n_graph, current_chunk, stop, pause, abort, ec, n_barrier, n_barrier_passed,
                     asleep, last_graph, pending, nth, need, n_passed, done, prepared>>
  BY DEF Loop, poolVars, barVars, wakeVars, workVars
<1>1. /\ on => /\ node' = [node EXCEPT ![t] = m] /\ chunk' = [chunk EXCEPT ![t] = t] /\ ret' = ret
               /\ pc' = [pc EXCEPT ![t] = IF Op(m) = "mm" THEN "convert" ELSE "chunks"]
      /\ ~on => /\ node' = node /\ chunk' = chunk /\ ret' = [ret EXCEPT ![t] = "leave"]
                /\ pc' = [pc EXCEPT ![t] = "barrier"]
  BY DEF Loop, Goto, EnterBarrier
<1>2. TypeOK /\ t \in Nat /\ node[t] \in Nat /\ cgraph \in Seq({"nop", "op", "mm"}) /\ NNodes \in Nat
  <2>1. TypeOK
    BY DEF IInv
  <2>2. cgraph \in Seq({"nop", "op", "mm"}) /\ node[t] \in Nat
    BY <2>1 DEF TypeOK
  <2> QED BY <2>1, <2>2 DEF NNodes, Thread
<1>3. node[t] \in 0 .. NNodes => m \in node[t] .. NNodes
  BY <1>2, NextOpFacts
<1>4. \A u \in Thread \ {t} : /\ pc'[u] = pc[u] /\ ret'[u] = ret[u] /\ node'[u] = node[u] /\ chunk'[u] = chunk[u]
  BY <1>1, <1>2 DEF TypeOK
<1>5. /\ on => /\ pc'[t] = IF Op(m) = "mm" THEN "convert" ELSE "chunks"
               /\ node'[t] = m /\ chunk'[t] = t /\ m \in Nodes
      /\ ~on => pc'[t] = "barrier" /\ ret'[t] = "leave" /\ node'[t] = node[t]
  <2>1. on => m \in Nodes
    BY <1>2, <1>3 DEF Nodes
  <2> QED BY <1>1, <1>2, <2>1 DEF TypeOK
<1>6. at(t) = "loop" /\ at(t)' = pc'[t] /\ Walking(t) /\ Walking(t)'
      /\ pc'[t] \in {"convert", "chunks", "barrier"}
  BY <1>0, <1>5 DEF at, Walking, CallerPcs, IdlePcs
<1>7. t \in Team /\ ~Ended /\ (t # 0 => last_graph[t] = n_graph) /\ nth[t] = n_graph.threads
  BY <1>0, <1>6, Member
<1>8. TypeOK'
  <2>1. pc' \in [Thread -> Pcs]
    BY <1>1, <1>2 DEF TypeOK, Pcs
  <2>2. node' \in [Thread -> Nat] /\ chunk' \in [Thread -> Nat]
    <3>1. CASE on
      <4>1. m \in Nat /\ node \in [Thread -> Nat] /\ chunk \in [Thread -> Nat]
        <5>1. m \in Nat
          BY <1>2, <1>3, <3>1
        <5> HIDE DEF m
        <5> QED BY <1>2, <5>1 DEF TypeOK
      <4> HIDE DEF m
      <4> QED BY <1>1, <1>2, <3>1, <4>1
    <3>2. CASE ~on
      BY <1>1, <1>2, <3>2 DEF TypeOK
    <3> QED BY <3>1, <3>2
  <2>3. ret' \in [Thread -> {"", "loop", "chunks", "leave"}]
    BY <1>1, <1>2 DEF TypeOK
  <2> QED BY <1>0, <1>2, <2>1, <2>2, <2>3, SameGraph DEF TypeOK
<1>9. PcOK'
  BY <1>4, <1>6, ZeroThread DEF IInv, PcOK, CallerPcs, IdlePcs
<1>10. Idles(t)
  BY <1>0, <1>4 DEF Idles
<1>11. KeepsTeam(t) /\ KeepsBarrier(t)
  BY <1>0, <1>6, <1>7 DEF KeepsTeam, KeepsBarrier
<1>12. \A x : ~AtBarrier(t, x) /\ (AtBarrier(t, x)' => ~on /\ x = "leave")
  BY <1>5, <1>6 DEF AtBarrier, BarrierPcs
<1>13. ~on => AtBarrier(t, "leave")'
  BY <1>5, <1>6 DEF AtBarrier, BarrierPcs
<1>14. ASSUME NEW n \in Nat, Section(n)
       PROVE  KeepsSection(t, n)
  <2>0. n \in 0 .. NNodes /\ NextOp(n) \in n .. NNodes
    <3>1. n \in 0 .. NNodes
      BY <1>14 DEF Section
    <3> QED BY <1>2, <3>1, NextOpFacts
  <2>1. Before(t, n) => node[t] = n
    BY <1>6 DEF Before
  <2>2. ~Before(t, n)'
    BY <1>6 DEF Before
  <2>3. Halts(n) /\ Before(t, n) => ~on
    BY <1>2, <2>1 DEF Halts
  <2>4. ~Halts(n) /\ Before(t, n) => on
    BY <1>2, <2>0, <2>1 DEF Halts
  <2>5. CASE Halts(n)
    BY <1>12, <1>13, <2>3, <2>5 DEF KeepsSection, InHalt
  <2>6. CASE ~Halts(n) /\ Op(NextOp(n)) = "mm"
    <3>1. InProduct(t, n) => Before(t, n)
      BY <1>6, <1>12 DEF InProduct, Converting
    <3>2. Before(t, n) => Converting(t, NextOp(n))'
      BY <1>0, <1>5, <1>6, <2>1, <2>4, <2>6, SameGraph DEF Converting
    <3> QED BY <1>5, <1>6, <1>12, <2>4, <2>6, <3>1, <3>2 DEF KeepsSection, InProduct
  <2>7. CASE ~Halts(n) /\ Op(NextOp(n)) = "op"
    <3>1. CASE Before(t, n)
      <4>1. on /\ at(t)' = "chunks" /\ node'[t] = NextOp(n) /\ chunk'[t] = t
        BY <1>5, <1>6, <2>1, <2>4, <2>7, <3>1
      <4>2. After(t, NextOp(n))' /\ Busy(t, n)' /\ own(t) = t /\ own(t)' = t
        BY <1>0, <1>6, <4>1, SameGraph DEF After, Busy, own
      <4> QED BY <2>7, <3>1, <4>2, <1>0, SameGraph DEF KeepsSection, InOp, Busy
    <3>2. CASE ~Before(t, n) /\ After(t, NextOp(n))
      <4>1. NextOp(n) + 1 = NNodes /\ node[t] = NNodes /\ ~on
        BY <1>2, <1>6, <1>12, <3>2 DEF After
      <4>2. After(t, NextOp(n))' /\ ~Busy(t, n)' /\ ~Busy(t, n)
        BY <1>0, <1>5, <1>6, <1>13, <2>2, <3>2, <4>1, SameGraph DEF After, Busy
      <4> QED BY <2>7, <4>2, <1>0, SameGraph DEF KeepsSection, InOp
    <3> QED BY <2>7, <3>1, <3>2 DEF KeepsSection, InOp
  <2> QED BY <2>5, <2>6, <2>7 DEF KeepsSection
<1>15. ASSUME NEW n \in Nat, Product(n)
       PROVE  KeepsProduct(t, n)
  <2> SUFFICES ASSUME After(t, n)
               PROVE  After(t, n)' /\ (at(t)' = "chunks" <=> at(t) = "chunks") /\ own(t)' = own(t)
    BY DEF KeepsProduct
  <2>1. n + 1 = NNodes /\ node[t] = NNodes /\ ~on
    BY <1>2, <1>6, <1>12 DEF After
  <2>2. at(t)' = "barrier"
    BY <1>5, <1>6, <2>1
  <2> QED BY <1>0, <1>5, <1>6, <1>13, <2>1, <2>2, SameGraph DEF After, own
<1> HIDE DEF on, m
<1> QED BY <1>0, <1>7, <1>8, <1>9, <1>10, <1>11, <1>14, <1>15, StayStep

(* A thread comes to a barrier.                                            *)
LEMMA LoadStep ==
  ASSUME IInv, NEW t \in Thread, BarrierLoad(t), n_graph.threads # 1
  PROVE  IInv'
<1>0. /\ pc[t] = "barrier" /\ pc' = [pc EXCEPT ![t] = "add"]
      /\ need' = [need EXCEPT ![t] = n_graph.threads]
      /\ n_passed' = [n_passed EXCEPT ![t] = n_barrier_passed]
      /\ UNCHANGED <<cgraph, n_graph, current_chunk, stop, pause, abort, ec, n_barrier, n_barrier_passed,
                     asleep, last_graph, pending, nth, node, chunk, ret, done, prepared>>
  BY DEF BarrierLoad, Goto, poolVars, barVars, wakeVars, walkVars, workVars
<1>1. TypeOK
  BY DEF IInv
<1>2. \A u \in Thread : /\ pc'[u] = IF u = t THEN "add" ELSE pc[u]
                        /\ need'[u] = IF u = t THEN n_graph.threads ELSE need[u]
                        /\ n_passed'[u] = IF u = t THEN n_barrier_passed ELSE n_passed[u]
  BY <1>0, <1>1 DEF TypeOK
<1>3. at(t) = "barrier" /\ at(t)' = "add" /\ Walking(t) /\ Walking(t)'
  <2>1. at(t) = "barrier" /\ at(t)' = "add"
    BY <1>0, <1>2 DEF at
  <2> QED BY <2>1 DEF Walking, CallerPcs, IdlePcs
<1>4. t \in Team /\ ~Ended /\ (t # 0 => last_graph[t] = n_graph) /\ nth[t] = n_graph.threads
  BY <1>0, <1>3, Member
<1>5. n_graph.threads > 1
  BY <1>1, <1>4, GraphType DEF Team
<1>6. TypeOK'
  <2>1. pc' \in [Thread -> Pcs]
    BY <1>0, <1>1 DEF TypeOK, Pcs
  <2>2. need' \in [Thread -> 0 .. NThreads] /\ n_passed' \in [Thread -> Nat]
    BY <1>0, <1>1, GraphType DEF TypeOK
  <2> QED BY <1>0, <1>1, <2>1, <2>2, SameGraph DEF TypeOK
<1>7. PcOK'
  BY <1>2, ZeroThread DEF IInv, PcOK, CallerPcs, IdlePcs
<1>8. Idles(t)
  BY <1>0, <1>2 DEF Idles
<1>9. KeepsTeam(t) /\ KeepsBarrier(t)
  BY <1>0, <1>2, <1>3, <1>4, <1>5 DEF KeepsTeam, KeepsBarrier
<1>10. \A x : AtBarrier(t, x)' <=> AtBarrier(t, x)
  BY <1>0, <1>3 DEF AtBarrier, BarrierPcs
<1>11. ASSUME NEW n \in Nat
       PROVE  KeepsSection(t, n) /\ KeepsProduct(t, n)
  <2>1. ~Before(t, n) /\ ~Before(t, n)' /\ own(t) = t /\ own(t)' = t
    BY <1>3 DEF Before, own
  <2>2. \A k : (After(t, k)' <=> After(t, k)) /\ (Converting(t, k)' <=> Converting(t, k))
    BY <1>0, <1>3, <1>10, SameGraph DEF After, Converting
  <2> QED BY <1>0, <1>3, <1>10, <2>1, <2>2, SameGraph
          DEF KeepsSection, KeepsProduct, InHalt, InProduct, InOp, Busy
<1> QED BY <1>0, <1>2, <1>4, <1>6, <1>7, <1>8, <1>9, <1>11, StayStep

-----------------------------------------------------------------------------
(* Steps that compute.                                                     *)

(* The node that a thread works at.                                        *)
LEMMA AtWork ==
  ASSUME IInv, NEW t \in Thread, at(t) \in {"convert", "chunks", "node_done"}, NEW n \in Nat
  PROVE  /\ t \in Team /\ ~Ended /\ Walking(t)
         /\ node[t] \in Nodes
         /\ Section(n) => /\ ~Halts(n) /\ node[t] = NextOp(n) /\ n <= NextOp(n)
                          /\ Op(NextOp(n)) = IF at(t) = "convert" THEN "mm" ELSE "op"
         /\ Product(n) => node[t] = n /\ at(t) # "convert"
<1>1. Walking(t)
  BY DEF Walking, CallerPcs, IdlePcs
<1>2. t \in Team /\ ~Ended
  BY <1>1, Member
<1>3. node[t] \in Nodes
  BY Inside
<1>4. ASSUME Section(n)
      PROVE  /\ ~Halts(n) /\ node[t] = NextOp(n) /\ n <= NextOp(n)
             /\ Op(NextOp(n)) = IF at(t) = "convert" THEN "mm" ELSE "op"
  <2>1. \A x : ~Before(t, n) /\ ~AtBarrier(t, x)
    BY <1>1 DEF Before, AtBarrier, BarrierPcs
  <2>2. \/ ~Halts(n) /\ Op(NextOp(n)) = "mm" /\ Converting(t, NextOp(n))
        \/ ~Halts(n) /\ Op(NextOp(n)) = "op" /\ After(t, NextOp(n))
    BY <1>2, <1>4, <2>1 DEF Section
  <2>3. n <= NextOp(n)
    <3>1. n \in 0 .. NNodes
      BY <1>4 DEF Section
    <3> QED BY <3>1, Nodal DEF IInv
  <2> QED BY <2>1, <2>2, <2>3 DEF Converting, After
<1>5. Product(n) => node[t] = n /\ at(t) # "convert"
  BY <1>2 DEF Product, After, AtBarrier, BarrierPcs
<1> QED BY <1>1, <1>2, <1>3, <1>4, <1>5

LEMMA WorkStep ==
  ASSUME IInv, NEW t \in Thread, Idles(t), TypeOK', PcOK', UNCHANGED <<n_barrier, nth, need>>,
         KeepsTeam(t), KeepsBarrier(t), Walking(t),
         (ec = "success" <=> abort = -1)',
         \A n \in Nat : (Section(n) => Section(n)') /\ (Product(n) => Product(n)')
  PROVE  IInv'
<1>1. TypeOK /\ TeamOK /\ BarrierOK /\ ~Ended
  BY Member DEF IInv
<1>2. TeamOK'
  BY <1>1, StayTeam DEF KeepsTeam
<1>3. BarrierOK'
  BY <1>1, StayBarrier DEF KeepsBarrier
<1> QED BY <1>1, <1>2, <1>3 DEF IInv

LEMMA ConvertStep ==
  ASSUME IInv, NEW t \in Thread, Convert(t)
  PROVE  IInv'
<1>0. /\ pc[t] = "convert" /\ pc' = [pc EXCEPT ![t] = "barrier"] /\ ret' = [ret EXCEPT ![t] = "chunks"]
      /\ prepared' = [prepared EXCEPT ![node[t]] = @ \cup {t}]
      /\ current_chunk' = IF t = 0 THEN nth[t] ELSE current_chunk
      /\ UNCHANGED <<cgraph, n_graph, stop, pause, abort, ec, n_barrier, n_barrier_passed,
                     asleep, last_graph, pending, nth, node, chunk, need, n_passed, done>>
  BY DEF Convert, Goto, EnterBarrier, barVars, wakeVars, walkVars
<1>1. TypeOK
  BY DEF IInv
<1>2. \A u \in Thread : /\ pc'[u] = IF u = t THEN "barrier" ELSE pc[u]
                        /\ ret'[u] = IF u = t THEN "chunks" ELSE ret[u]
  BY <1>0, <1>1 DEF TypeOK
<1>3. at(t) = "convert" /\ at(t)' = "barrier"
  BY <1>0, <1>2 DEF at
<1>4. /\ t \in Team /\ ~Ended /\ node[t] \in Nodes /\ Walking(t)
      /\ t # 0 => last_graph[t] = n_graph
      /\ nth[t] = n_graph.threads /\ n_graph.threads \in Nat
  BY <1>0, <1>1, <1>3, AtWork, Member, GraphType
<1>5. prepared'[node[t]] = prepared[node[t]] \cup {t}
      /\ \A k \in Nodes \ {node[t]} : prepared'[k] = prepared[k]
  BY <1>0, <1>1, <1>4 DEF TypeOK
<1>6. TypeOK'
  <2>1. pc' \in [Thread -> Pcs] /\ ret' \in [Thread -> {"", "loop", "chunks", "leave"}]
    BY <1>0, <1>1 DEF TypeOK, Pcs
  <2>2. DOMAIN prepared' = Nodes /\ \A k \in Nodes : prepared'[k] \subseteq Thread
    BY <1>0, <1>1, <1>5 DEF TypeOK
  <2>3. current_chunk' \in Nat
    BY <1>0, <1>1, <1>4 DEF TypeOK
  <2> QED BY <1>0, <1>1, <2>1, <2>2, <2>3, SameGraph DEF TypeOK
<1>7. PcOK'
  BY <1>2, ZeroThread DEF IInv, PcOK, CallerPcs, IdlePcs
<1>8. Idles(t)
  BY <1>0, <1>2 DEF Idles
<1>9. KeepsTeam(t) /\ KeepsBarrier(t)
  BY <1>0, <1>2, <1>3, <1>4 DEF KeepsTeam, KeepsBarrier
<1>10. ASSUME NEW n \in Nat, Section(n)
       PROVE  Section(n)'
  <2> DEFINE m == NextOp(n)
  <2>1. ~Halts(n) /\ node[t] = m /\ Op(m) = "mm"
    BY <1>3, <1>10, AtWork
  <2>2. NNodes' = NNodes /\ NextOp(n)' = m /\ Op(m)' = "mm" /\ Nodes' = Nodes /\ m' = m
    BY <1>0, <2>1, SameGraph
  <2>3. ~Halts(n)'
    BY <1>0, <2>1, <2>2 DEF Halts
  <2>4. Team' = Team /\ n_graph' = n_graph /\ 0 \in Team /\ Team \subseteq Thread
    BY <1>0, <1>1, <1>4, SameParts, TeamFacts DEF Team
  <2>5. \A u \in Thread \ {t} : /\ Before(u, n)' <=> Before(u, n)
                                /\ Converting(u, m)' <=> Converting(u, m)
                                /\ AtBarrier(u, "chunks")' <=> AtBarrier(u, "chunks")
    BY <1>8, <2>2, Others DEF Idles
  <2>6. Converting(t, m)' /\ AtBarrier(t, "chunks")' /\ ~AtBarrier(t, "chunks")
    <3>1. chunk[t] = t
      BY <1>3, <1>4, <1>10, <2>1 DEF Section, Converting, Before, Walking
    <3> QED BY <1>0, <1>2, <1>3, <2>1, <2>2, <3>1 DEF Converting, AtBarrier, BarrierPcs
  <2>7. \A u \in Team : (Before(u, n) \/ Converting(u, m))'
    <3>1. \A u \in Team : Before(u, n) \/ Converting(u, m)
      BY <1>10, <2>1 DEF Section
    <3> QED BY <2>2, <2>4, <2>5, <2>6, <3>1
  <2>8. Computed(m, m + 1)' /\ Untouched(m)'
    <3>1. Computed(m, m + 1) /\ Untouched(m)
      BY <1>10, <2>1 DEF Section
    <3>2. \A k : Complete(k)' = Complete(k) /\ Untouched(k)' = Untouched(k) /\ Op(k)' = Op(k)
      BY <1>0, SameGraph, SameParts
    <3>3. \A k \in m + 1 .. NNodes - 1 : k \in Nodes \ {m}
      BY <1>4, <2>1 DEF Nodes
    <3> QED BY <1>5, <2>1, <2>2, <3>1, <3>2, <3>3 DEF Computed
  <2>9. prepared'[m] = {u \in Team : AtBarrier(u, "chunks")'}
    <3>1. prepared[m] = {u \in Team : AtBarrier(u, "chunks")}
      BY <1>10, <2>1 DEF Section
    <3>2. prepared'[m] = {u \in Team : AtBarrier(u, "chunks")} \cup {t}
      BY <1>5, <2>1, <3>1
    <3> QED BY <1>4, <2>4, <2>5, <2>6, <3>2
  <2>10. AtBarrier(0, "chunks")' => current_chunk' = n_graph.threads
    <3>1. AtBarrier(0, "chunks") => current_chunk = n_graph.threads
      BY <1>10, <2>1 DEF Section
    <3> QED BY <1>0, <1>4, <2>4, <2>5, <3>1
  <2>11. n \in 0 .. NNodes /\ n_graph.threads > 0 /\ (abort \in {-1, n} \/ (m < NNodes /\ Op(m) = "op" /\ abort = m + 1))
    BY <1>10 DEF Section
  <2> HIDE DEF m
  <2> QED BY <1>0, <2>1, <2>2, <2>3, <2>4, <2>7, <2>8, <2>9, <2>10, <2>11 DEF Section
<1>11. ASSUME NEW n \in Nat PROVE ~Product(n)
  BY <1>3, AtWork
<1>12. (ec = "success" <=> abort = -1)'
  BY <1>0 DEF IInv
<1> QED BY <1>0, <1>4, <1>6, <1>7, <1>8, <1>9, <1>10, <1>11, <1>12, WorkStep

(* Computing a chunk and fetching the next one keeps the tally; a thread   *)
(* without a chunk is out of it.                                           *)
LEMMA ChunkTally ==
  ASSUME TypeOK, NEW t \in Thread, Chunk(t), nth[t] = n_graph.threads, node[t] \in Nodes,
         NEW W, W \subseteq Team, t \in W, Tally(node[t], W)
  PROVE  Tally(node[t], IF Shared(node[t]) THEN W ELSE W \ {t})'
<1> DEFINE n == node[t]
           c == chunk[t]
           N == NChunks(n, n_graph.threads)
<1>0. /\ pc[t] = "chunks" /\ c < N
      /\ done' = [done EXCEPT ![n][c] = @ + 1]
      /\ Shared(n) => pc' = pc /\ chunk' = [chunk EXCEPT ![t] = current_chunk]
                      /\ current_chunk' = current_chunk + 1
      /\ ~Shared(n) => pc' = [pc EXCEPT ![t] = "node_done"] /\ chunk' = chunk /\ current_chunk' = current_chunk
      /\ UNCHANGED <<cgraph, n_graph, n_passed, n_barrier_passed, node, ret>>
  <2>1. Shared(n) <=> ~(nth[t] >= NChunks(node[t], nth[t]))
    <3>1. n_graph.threads \in Nat /\ N \in Int
      BY GraphType DEF NChunks
    <3> QED BY <3>1 DEF Shared
  <2> QED BY <2>1 DEF Chunk, Goto, barVars, localVars
<1>1. /\ N \in Nat /\ N >= n_graph.threads /\ n_graph.threads \in 0 .. NThreads /\ n_graph.threads \in Nat
      /\ n \in Nodes /\ c \in Nat /\ current_chunk \in Nat /\ N <= n_graph.threads + Extra
  <2>1. n_graph.threads \in 0 .. NThreads /\ n_graph.threads \in Nat
    BY GraphType
  <2>2. n \in Nodes /\ c \in Nat /\ current_chunk \in Nat
    BY DEF TypeOK
  <2> QED BY <2>1, <2>2 DEF NChunks
<1>a. c < N
  BY <1>0
<1>2. c \in Parts /\ done[n] \in [Parts -> Nat] /\ DOMAIN done = Nodes
  <2>1. done[n] \in [Parts -> Nat] /\ DOMAIN done = Nodes
    BY <1>1 DEF TypeOK
  <2>2. c \in Parts
    <3> HIDE DEF c, N, n
    <3> QED BY <1>1, <1>a DEF Parts
  <2> QED BY <2>1, <2>2
<1>3. \A x \in Parts : done'[n][x] = IF x = c THEN done[n][x] + 1 ELSE done[n][x]
  BY <1>0, <1>1, <1>2
<1>4. /\ n' = n /\ N' = N /\ (Shared(n)' <=> Shared(n)) /\ Team' = Team /\ Team \subseteq Thread
      /\ n_graph' = n_graph
  BY <1>0, SameParts, TeamFacts
<1>5. at(t) = "chunks" /\ own(t) = c
  BY <1>0 DEF at, own
<1>6. /\ Handed(n) >= n_graph.threads
      /\ \A u \in W : own(u) < Handed(n)
      /\ \A u, v \in W : own(u) = own(v) => u = v
      /\ \A u \in Team \ W : Handed(n) >= N
      /\ \A x \in Parts : done[n][x] = IF x < Handed(n) /\ x < N /\ \A u \in W : own(u) # x THEN 1 ELSE 0
  BY DEF Tally
<1>7. \A u \in Thread \ {t} : own(u)' = own(u)
  <2>1. TypeOK
    OBVIOUS
  <2>2. \A u \in Thread \ {t} : pc'[u] = pc[u] /\ chunk'[u] = chunk[u]
    BY <1>0, <2>1 DEF TypeOK
  <2> QED BY <1>0, <2>2 DEF own, at
<1>8. done[n][c] = 0 /\ done'[n][c] = 1
  BY <1>2, <1>3, <1>5, <1>6
<1> HIDE DEF n, c, N
<1>9. CASE Shared(n)
  <2>1. Handed(n) = current_chunk /\ Handed(n)' = current_chunk + 1
    BY <1>0, <1>4, <1>9 DEF Handed
  <2>2. own(t)' = current_chunk
    <3>1. pc'[t] = "chunks" /\ chunk'[t] = current_chunk
      BY <1>0, <1>9 DEF TypeOK
    <3> QED BY <3>1 DEF own, at
  <2>3. \A u \in W : own(u)' < Handed(n)' /\ (u # t => own(u)' # own(t)')
    <3>1. \A u \in W \ {t} : own(u)' = own(u) /\ own(u) < current_chunk
      BY <1>4, <1>6, <1>7, <2>1
    <3>2. \A u \in Thread : own(u) \in Nat
      <4>1. chunk \in [Thread -> Nat]
        BY DEF TypeOK
      <4> QED BY <4>1 DEF own, Thread
    <3> QED BY <1>1, <1>4, <2>1, <2>2, <3>1, <3>2
  <2>4. \A u, v \in W : own(u)' = own(v)' => u = v
    BY <1>4, <1>6, <1>7, <2>3
  <2>5. \A x \in Parts : done'[n][x] = IF x < Handed(n)' /\ x < N /\ \A u \in W : own(u)' # x THEN 1 ELSE 0
    <3> TAKE x \in Parts
    <3>0. x \in Nat /\ c \in Nat /\ c < current_chunk
      BY <1>1, <1>5, <1>6, <2>1 DEF Parts
    <3>1. CASE x = c
      <4>1. \A u \in W : own(u)' # c
        <5>1. \A u \in W \ {t} : own(u)' # c
          BY <1>4, <1>5, <1>6, <1>7
        <5> QED BY <1>1, <2>2, <3>0, <5>1
      <4> QED BY <1>1, <1>a, <1>8, <2>1, <3>0, <3>1, <4>1
    <3>2. CASE x = current_chunk
      <4>1. x # c /\ done[n][x] = 0
        BY <1>1, <1>6, <2>1, <3>0, <3>2
      <4> QED BY <1>3, <2>2, <3>2, <4>1
    <3>3. CASE x # c /\ x # current_chunk
      <4>1. (\A u \in W : own(u)' # x) <=> (\A u \in W : own(u) # x)
        BY <1>4, <1>5, <1>7, <2>2, <3>3
      <4>2. x < Handed(n)' <=> x < Handed(n)
        BY <1>1, <2>1, <3>0, <3>3
      <4> QED BY <1>3, <1>6, <3>3, <4>1, <4>2
    <3> QED BY <3>1, <3>2, <3>3
  <2>6. Handed(n)' >= n_graph'.threads /\ \A u \in Team' \ W : Handed(n)' >= N
    BY <1>1, <1>4, <1>6, <2>1
  <2>7. (Shared(n) <=> Shared(n)') /\ n = node[t] /\ N = NChunks(n, n_graph.threads)
    BY <1>4 DEF n, N
  <2> QED BY <1>4, <1>9, <2>3, <2>4, <2>5, <2>6, <2>7 DEF Tally, N, n
<1>10. CASE ~Shared(n)
  <2>1. Handed(n) = n_graph.threads /\ Handed(n)' = n_graph.threads /\ N = n_graph.threads
    <3>1. ~(N > n_graph.threads)
      BY <1>10 DEF Shared, N
    <3> QED BY <1>1, <1>4, <1>10, <3>1 DEF Handed
  <2>2. \A u \in W \ {t} : own(u)' = own(u) /\ own(u) # c
    BY <1>4, <1>5, <1>6, <1>7
  <2>3. \A x \in Parts : done'[n][x] =
           IF x < Handed(n)' /\ x < N /\ \A u \in W \ {t} : own(u)' # x THEN 1 ELSE 0
    <3> TAKE x \in Parts
    <3>1. CASE x = c
      BY <1>a, <1>8, <2>1, <2>2, <3>1
    <3>2. CASE x # c
      <4>1. (\A u \in W \ {t} : own(u)' # x) <=> (\A u \in W : own(u) # x)
        BY <1>5, <2>2, <3>2
      <4> QED BY <1>3, <1>6, <2>1, <3>2, <4>1
    <3> QED BY <3>1, <3>2
  <2>4. \A u \in W \ {t} : own(u)' < Handed(n)'
    BY <1>6, <2>1, <2>2
  <2>5. \A u, v \in W \ {t} : own(u)' = own(v)' => u = v
    BY <1>6, <2>2
  <2>6. Handed(n)' >= n_graph'.threads /\ \A u \in Team' \ (W \ {t}) : Handed(n)' >= N
    BY <1>1, <1>4, <2>1
  <2>7. ~Shared(n)' /\ n = node[t] /\ N = NChunks(n, n_graph.threads)
    BY <1>4, <1>10 DEF n, N
  <2> QED BY <1>4, <1>10, <2>3, <2>4, <2>5, <2>6, <2>7 DEF Tally, N, n
<1> QED BY <1>9, <1>10

LEMMA EndTally ==
  ASSUME TypeOK, NEW t \in Thread, ChunksEnd(t), nth[t] = n_graph.threads, node[t] \in Nodes,
         NEW W, W \subseteq Team, t \in W, Tally(node[t], W)
  PROVE  Tally(node[t], W \ {t})'
<1> DEFINE n == node[t]
           N == NChunks(n, n_graph.threads)
<1>0. /\ pc[t] = "chunks" /\ chunk[t] >= N /\ pc' = [pc EXCEPT ![t] = "node_done"]
      /\ UNCHANGED <<cgraph, n_graph, n_passed, n_barrier_passed, node, ret, chunk, current_chunk, done>>
  BY DEF ChunksEnd, Goto, poolVars, barVars, walkVars, localVars, workVars
<1>1. /\ N \in Int /\ n_graph.threads \in Nat /\ chunk[t] \in Nat /\ chunk[t] >= N /\ current_chunk \in Nat
  <2>1. n_graph.threads \in Nat
    BY GraphType
  <2>2. chunk[t] \in Nat /\ current_chunk \in Nat
    BY DEF TypeOK
  <2>3. chunk[t] >= N
    BY <1>0
  <2>4. N \in Int
    BY <2>1 DEF NChunks
  <2> HIDE DEF N
  <2> QED BY <2>1, <2>2, <2>3, <2>4
<1>2. /\ n' = n /\ N' = N /\ Handed(n)' = Handed(n) /\ Team' = Team /\ Team \subseteq Thread
      /\ n_graph' = n_graph /\ done' = done
  BY <1>0, SameParts, TeamFacts DEF Handed
<1>3. own(t) = chunk[t]
  BY <1>0 DEF at, own
<1>4. \A u \in Thread \ {t} : own(u)' = own(u)
  <2>1. \A u \in Thread \ {t} : pc'[u] = pc[u]
    BY <1>0 DEF TypeOK
  <2> QED BY <1>0, <2>1 DEF own, at
<1>5. /\ Handed(n) >= n_graph.threads
      /\ \A u \in W : own(u) < Handed(n)
      /\ \A u, v \in W : own(u) = own(v) => u = v
      /\ \A u \in Team \ W : Handed(n) >= N
      /\ \A x \in Parts : done[n][x] = IF x < Handed(n) /\ x < N /\ \A u \in W : own(u) # x THEN 1 ELSE 0
  BY DEF Tally
<1> HIDE DEF n, N
<1>6. Handed(n) >= N
  <2>1. Handed(n) \in Int
    BY <1>1 DEF Handed
  <2> QED BY <1>1, <1>3, <1>5, <2>1
<1>7. \A u \in W \ {t} : own(u)' = own(u)
  BY <1>2, <1>4
<1>8. \A x \in Parts : x < N => x # own(t)
  BY <1>1, <1>3 DEF Parts
<1>9. \A x \in Parts : done'[n][x] =
        IF x < Handed(n)' /\ x < N /\ \A u \in W \ {t} : own(u)' # x THEN 1 ELSE 0
  <2> TAKE x \in Parts
  <2>1. x < N => ((\A u \in W \ {t} : own(u)' # x) <=> (\A u \in W : own(u) # x))
    BY <1>7, <1>8
  <2> QED BY <1>2, <1>5, <2>1
<1>10. /\ \A u \in W \ {t} : own(u)' < Handed(n)'
       /\ \A u, v \in W \ {t} : own(u)' = own(v)' => u = v
       /\ Handed(n)' >= n_graph'.threads /\ \A u \in Team' \ (W \ {t}) : Handed(n)' >= N
  BY <1>2, <1>5, <1>6, <1>7
<1> QED BY <1>2, <1>9, <1>10 DEF Tally, N, n

(* Hence a thread at its chunks stays within its section.                  *)
KeepsTally(t) ==
  \A W \in SUBSET Team : t \in W /\ Tally(node[t], W) =>
    Tally(node[t], IF at(t) = "chunks" THEN W ELSE W \ {t})'

LEMMA ComputeSection ==
  ASSUME IInv, NEW t \in Thread, Idles(t), UNCHANGED <<node, ret, abort, prepared>>,
         at(t) = "chunks", at(t)' \in {"chunks", "node_done"},
         \A k \in Nodes \ {node[t]} : done'[k] = done[k],
         KeepsTally(t), NEW n \in Nat
  PROVE  (Section(n) => Section(n)') /\ (Product(n) => Product(n)')
<1>1. t \in Team /\ node[t] \in Nodes /\ Walking(t) /\ TypeOK
  BY AtWork DEF IInv
<1>2. /\ NNodes' = NNodes /\ Nodes' = Nodes /\ Team' = Team /\ Team \subseteq Thread /\ n_graph' = n_graph
      /\ \A k : NextOp(k)' = NextOp(k) /\ Op(k)' = Op(k)
  BY <1>1, SameGraph, SameParts, TeamFacts DEF Idles
<1>3. \A u \in Thread \ {t} : /\ at(u)' = at(u)
                              /\ \A b : /\ Before(u, b)' <=> Before(u, b)
                                        /\ After(u, b)' <=> After(u, b)
  BY Others DEF Idles
<1>4. \A m : After(t, m) => After(t, m)'
  BY DEF After, AtBarrier, BarrierPcs
<1>5. ~Before(t, n) /\ ~Before(t, n)'
  BY <1>1 DEF Before, Walking, CallerPcs, IdlePcs
<1>6. Computed(node[t], node[t] + 1) => Computed(node[t], node[t] + 1)'
  <2>1. /\ \A k \in 0 .. node[t] - 1 : k \in Nodes \ {node[t]}
        /\ \A k \in node[t] + 1 .. NNodes - 1 : k \in Nodes \ {node[t]}
    BY <1>1, Around
  <2>3. \A k \in Nodes \ {node[t]} : /\ Complete(k)' = Complete(k) /\ Untouched(k)' = Untouched(k)
                                     /\ prepared'[k] = prepared[k]
    BY SameParts DEF Idles
  <2> QED BY <1>1, <1>2, <2>1, <2>3 DEF Computed
<1>7. ASSUME Section(n) PROVE Section(n)'
  <2> DEFINE m == NextOp(n)
             W == {u \in Team : Before(u, n) \/ at(u) = "chunks"}
  <2>1. ~Halts(n) /\ node[t] = m /\ Op(m) = "op"
    BY <1>7, AtWork
  <2>2. W \subseteq Team /\ t \in W
    BY <1>1
  <2>3. Tally(node[t], W)
    BY <1>7, <2>1 DEF Section
  <2>4. W' = IF at(t)' = "chunks" THEN W ELSE W \ {t}
    BY <1>1, <1>2, <1>3, <1>5
  <2>5. Tally(node[t], W)'
    <3> HIDE DEF W
    <3> QED BY <2>2, <2>3, <2>4 DEF KeepsTally
  <2>6. \A u \in Team : (Before(u, n) \/ After(u, m))'
    <3>1. \A u \in Team : Before(u, n) \/ After(u, m)
      BY <1>7, <2>1 DEF Section
    <3> QED BY <1>2, <1>3, <1>4, <1>5, <3>1
  <2>7. Computed(m, m + 1)'
    <3>1. Computed(m, m + 1)
      BY <1>7, <2>1 DEF Section
    <3> QED BY <1>2, <1>6, <2>1, <3>1
  <2>8. ~Halts(n)' /\ node'[t] = m
    BY <1>2, <2>1 DEF Halts
  <2>9. n \in 0 .. NNodes /\ n_graph.threads > 0 /\ (abort \in {-1, n} \/ (m < NNodes /\ Op(m) = "op" /\ abort = m + 1))
    BY <1>7 DEF Section
  <2> QED BY <1>2, <2>1, <2>5, <2>6, <2>7, <2>8, <2>9 DEF Section
<1>8. ASSUME Product(n) PROVE Product(n)'
  <2> DEFINE W == {u \in Team : at(u) = "chunks"}
  <2>1. node[t] = n
    BY <1>8, AtWork
  <2>2. W \subseteq Team /\ t \in W
    BY <1>1
  <2>3. Tally(node[t], W)
    BY <1>8, <2>1 DEF Product
  <2>4. W' = IF at(t)' = "chunks" THEN W ELSE W \ {t}
    BY <1>1, <1>2, <1>3
  <2>5. Tally(node[t], W)'
    <3> HIDE DEF W
    <3> QED BY <2>2, <2>3, <2>4 DEF KeepsTally
  <2>6. \A u \in Team : After(u, n)'
    <3>1. \A u \in Team : After(u, n)
      BY <1>8 DEF Product
    <3> QED BY <1>2, <1>3, <1>4, <3>1
  <2>7. Computed(n, n + 1)'
    <3>1. Computed(n, n + 1)
      BY <1>8 DEF Product
    <3> QED BY <1>6, <2>1, <3>1
  <2>8. n \in Nodes /\ Op(n) = "mm" /\ n_graph.threads > 0 /\ abort \in {-1, n + 1} /\ prepared[n] = Team
    BY <1>8 DEF Product
  <2> QED BY <1>2, <2>1, <2>5, <2>6, <2>7, <2>8 DEF Product
<1> QED BY <1>7, <1>8

LEMMA ChunkStep ==
  ASSUME IInv, NEW t \in Thread, Chunk(t)
  PROVE  IInv'
<1> DEFINE N == NChunks(node[t], nth[t])
<1>1. TypeOK
  BY DEF IInv
<1>2. pc[t] = "chunks" /\ at(t) = "chunks"
  BY DEF Chunk, at
<1>3. /\ t \in Team /\ ~Ended /\ node[t] \in Nodes /\ Walking(t)
      /\ t # 0 => last_graph[t] = n_graph
      /\ nth[t] = n_graph.threads
  BY <1>2, AtWork, Member
<1>4. /\ chunk[t] < N
      /\ done' = [done EXCEPT ![node[t]][chunk[t]] = @ + 1]
      /\ UNCHANGED <<cgraph, n_graph, stop, pause, abort, ec, n_barrier, n_barrier_passed, asleep, last_graph,
                     pending, nth, node, need, n_passed, ret, prepared>>
  BY DEF Chunk, barVars, wakeVars, localVars
<1>5. /\ Shared(node[t]) => pc' = pc /\ chunk' = [chunk EXCEPT ![t] = current_chunk]
                            /\ current_chunk' = current_chunk + 1
      /\ ~Shared(node[t]) => pc' = [pc EXCEPT ![t] = "node_done"] /\ chunk' = chunk
                             /\ current_chunk' = current_chunk
  <2>1. Shared(node[t]) <=> ~(nth[t] >= N)
    <3>1. nth[t] \in Nat /\ N \in Int
      BY <1>1, <1>3, GraphType DEF NChunks
    <3> QED BY <1>3, <3>1 DEF Shared
  <2> QED BY <2>1 DEF Chunk, Goto
<1>6. \A u \in Thread : /\ u # t => pc'[u] = pc[u] /\ chunk'[u] = chunk[u]
                        /\ pc'[t] = IF Shared(node[t]) THEN "chunks" ELSE "node_done"
  BY <1>1, <1>2, <1>5 DEF TypeOK
<1>7. at(t)' = IF Shared(node[t]) THEN "chunks" ELSE "node_done"
  BY <1>6 DEF at
<1>8. chunk[t] \in Parts
  <2>1. n_graph.threads \in 0 .. NThreads /\ n_graph.threads \in Nat /\ chunk[t] \in Nat
    <3>1. chunk \in [Thread -> Nat]
      BY <1>1 DEF TypeOK
    <3> QED BY <1>1, <3>1, GraphType
  <2>2. N \in Int /\ N <= n_graph.threads + Extra
    BY <1>3, <2>1 DEF NChunks
  <2> HIDE DEF N
  <2> QED BY <1>4, <2>1, <2>2 DEF Parts
<1>9. TypeOK'
  <2>1. pc' \in [Thread -> Pcs]
    BY <1>1, <1>5 DEF TypeOK, Pcs
  <2>2. current_chunk' \in Nat /\ chunk' \in [Thread -> Nat]
    <3>1. current_chunk \in Nat /\ chunk \in [Thread -> Nat]
      BY <1>1 DEF TypeOK
    <3>2. CASE Shared(node[t])
      BY <1>5, <3>1, <3>2
    <3>3. CASE ~Shared(node[t])
      BY <1>5, <3>1, <3>3
    <3> QED BY <3>2, <3>3
  <2>3. DOMAIN done' = Nodes /\ \A k \in Nodes : done'[k] \in [Parts -> Nat]
    <3>1. DOMAIN done = Nodes /\ \A k \in Nodes : done[k] \in [Parts -> Nat]
      BY <1>1 DEF TypeOK
    <3>2. [done[node[t]] EXCEPT ![chunk[t]] = done[node[t]][chunk[t]] + 1] \in [Parts -> Nat]
      BY <1>3, <1>8, <3>1
    <3>3. done' = [done EXCEPT ![node[t]] = [done[node[t]] EXCEPT ![chunk[t]] = done[node[t]][chunk[t]] + 1]]
      BY <1>4
    <3> QED BY <1>3, <3>1, <3>2, <3>3
  <2> QED BY <1>1, <1>4, <2>1, <2>2, <2>3, SameGraph DEF TypeOK
<1>10. PcOK'
  BY <1>6, ZeroThread DEF IInv, PcOK, CallerPcs, IdlePcs
<1>11. Idles(t)
  BY <1>4, <1>6 DEF Idles
<1>12. KeepsTeam(t) /\ KeepsBarrier(t)
  BY <1>2, <1>3, <1>4, <1>6, <1>7 DEF KeepsTeam, KeepsBarrier
<1>13. KeepsTally(t)
  <2> SUFFICES ASSUME NEW W, W \subseteq Team, t \in W, Tally(node[t], W)
               PROVE  Tally(node[t], IF at(t) = "chunks" THEN W ELSE W \ {t})'
    BY DEF KeepsTally
  <2>1. Tally(node[t], IF Shared(node[t]) THEN W ELSE W \ {t})'
    BY <1>1, <1>3, ChunkTally
  <2>2. Shared(node[t])' <=> Shared(node[t])
    BY <1>4, SameParts
  <2> QED BY <1>7, <2>1, <2>2
<1>14. \A k \in Nodes \ {node[t]} : done'[k] = done[k]
  BY <1>1, <1>4 DEF TypeOK
<1>15. ASSUME NEW n \in Nat PROVE (Section(n) => Section(n)') /\ (Product(n) => Product(n)')
  BY <1>2, <1>4, <1>7, <1>11, <1>13, <1>14, ComputeSection
<1>16. (ec = "success" <=> abort = -1)'
  BY <1>4 DEF IInv
<1> QED BY <1>3, <1>4, <1>9, <1>10, <1>11, <1>12, <1>15, <1>16, WorkStep

LEMMA ChunksEndStep ==
  ASSUME IInv, NEW t \in Thread, ChunksEnd(t)
  PROVE  IInv'
<1>0. /\ pc[t] = "chunks" /\ pc' = [pc EXCEPT ![t] = "node_done"]
      /\ UNCHANGED <<cgraph, n_graph, current_chunk, stop, pause, abort, ec, n_barrier, n_barrier_passed, asleep,
                     last_graph, pending, nth, node, chunk, need, n_passed, ret, done, prepared>>
  BY DEF ChunksEnd, Goto, poolVars, barVars, wakeVars, walkVars, localVars, workVars
<1>1. TypeOK
  BY DEF IInv
<1>2. \A u \in Thread : pc'[u] = IF u = t THEN "node_done" ELSE pc[u]
  BY <1>0, <1>1 DEF TypeOK
<1>3. at(t) = "chunks" /\ at(t)' = "node_done"
  <2>1. pc[t] = "chunks" /\ pc'[t] = "node_done"
    BY <1>0, <1>2
  <2> QED BY <2>1 DEF at
<1>4. /\ t \in Team /\ ~Ended /\ node[t] \in Nodes /\ Walking(t)
      /\ t # 0 => last_graph[t] = n_graph
      /\ nth[t] = n_graph.threads
  BY <1>0, <1>3, AtWork, Member
<1>5. TypeOK'
  <2>1. pc' \in [Thread -> Pcs]
    BY <1>0, <1>1 DEF TypeOK, Pcs
  <2> QED BY <1>0, <1>1, <2>1, SameGraph DEF TypeOK
<1>6. PcOK'
  BY <1>2, ZeroThread DEF IInv, PcOK, CallerPcs, IdlePcs
<1>7. Idles(t)
  BY <1>0, <1>2 DEF Idles
<1>8. KeepsTeam(t) /\ KeepsBarrier(t)
  BY <1>0, <1>2, <1>3, <1>4 DEF KeepsTeam, KeepsBarrier
<1>9. KeepsTally(t)
  <2> SUFFICES ASSUME NEW W, W \subseteq Team, t \in W, Tally(node[t], W)
               PROVE  Tally(node[t], IF at(t) = "chunks" THEN W ELSE W \ {t})'
    BY DEF KeepsTally
  <2>1. Tally(node[t], W \ {t})'
    BY <1>1, <1>4, EndTally
  <2> QED BY <1>3, <2>1
<1>10. ASSUME NEW n \in Nat PROVE (Section(n) => Section(n)') /\ (Product(n) => Product(n)')
  BY <1>0, <1>3, <1>7, <1>9, ComputeSection
<1>11. (ec = "success" <=> abort = -1)'
  BY <1>0 DEF IInv
<1> QED BY <1>0, <1>4, <1>5, <1>6, <1>7, <1>8, <1>10, <1>11, WorkStep

(* A thread has done with a node; thread 0 may abort behind it.            *)
LEMMA NodeDoneStep ==
  ASSUME IInv, NEW t \in Thread, NodeDone(t)
  PROVE  IInv'
<1>1. TypeOK
  BY DEF IInv
<1>a. pc[t] = "node_done" /\ at(t) = "node_done"
  BY DEF NodeDone, at
<1>5. /\ t \in Team /\ ~Ended /\ node[t] \in Nodes /\ Walking(t)
      /\ t # 0 => last_graph[t] = n_graph
      /\ nth[t] = n_graph.threads
  BY <1>a, AtWork, Member
<1>m. PICK m \in Nodes : m = node[t]
  BY <1>5
<1>0. /\ node' = [node EXCEPT ![t] = m + 1]
      /\ UNCHANGED <<abort, ec>> \/ (abort' = m + 1 /\ ec' = "aborted")
      /\ IF m + 1 < NNodes THEN pc' = [pc EXCEPT ![t] = "barrier"] /\ ret' = [ret EXCEPT ![t] = "loop"]
         ELSE pc' = [pc EXCEPT ![t] = "loop"] /\ ret' = ret
      /\ UNCHANGED <<cgraph, n_graph, current_chunk, stop, pause, n_barrier, n_barrier_passed, asleep,
                     last_graph, pending, nth, chunk, need, n_passed, done, prepared>>
  <2>1. node' = [node EXCEPT ![t] = m + 1]
    BY <1>m DEF NodeDone
  <2>2. UNCHANGED <<abort, ec>> \/ (abort' = m + 1 /\ ec' = "aborted")
    BY <1>m DEF NodeDone, AbortAt
  <2>3. IF m + 1 < NNodes THEN pc' = [pc EXCEPT ![t] = "barrier"] /\ ret' = [ret EXCEPT ![t] = "loop"]
        ELSE pc' = [pc EXCEPT ![t] = "loop"] /\ ret' = ret
    BY <1>m DEF NodeDone, EnterBarrier, Goto
  <2>4. UNCHANGED <<cgraph, n_graph, current_chunk, stop, pause, n_barrier, n_barrier_passed, asleep,
                    last_graph, pending, nth, chunk, need, n_passed, done, prepared>>
    BY DEF NodeDone, barVars, wakeVars, workVars
  <2> QED BY <2>1, <2>2, <2>3, <2>4
<1>2. \A u \in Thread \ {t} : pc'[u] = pc[u] /\ ret'[u] = ret[u] /\ node'[u] = node[u]
  BY <1>0, <1>1 DEF TypeOK
<1>3. /\ node'[t] = m + 1
      /\ m + 1 < NNodes => pc'[t] = "barrier" /\ ret'[t] = "loop"
      /\ ~(m + 1 < NNodes) => pc'[t] = "loop"
  BY <1>0, <1>1 DEF TypeOK
<1>4. at(t)' = pc'[t] /\ pc'[t] \in {"barrier", "loop"}
  <2>1. pc'[t] \in {"barrier", "loop"}
    BY <1>3
  <2> QED BY <2>1 DEF at
<1>6. NNodes \in Nat /\ m \in 0 .. NNodes - 1 /\ m + 1 \in 0 .. NNodes /\ m + 1 \in Nat
  <2>1. NNodes \in Nat /\ m \in 0 .. NNodes - 1
    BY <1>1, Nodal DEF Nodes
  <2> QED BY <2>1
<1>7. TypeOK'
  <2>1. pc' \in [Thread -> Pcs] /\ ret' \in [Thread -> {"", "loop", "chunks", "leave"}]
    BY <1>0, <1>1 DEF TypeOK, Pcs
  <2>2. node' \in [Thread -> Nat]
    BY <1>0, <1>1, <1>6 DEF TypeOK
  <2>3. abort' \in -1 .. NNodes /\ ec' \in {"success", "aborted"}
    <3>1. abort \in -1 .. NNodes /\ ec \in {"success", "aborted"}
      BY <1>1 DEF TypeOK
    <3>2. m + 1 \in -1 .. NNodes
      BY <1>6
    <3> QED BY <1>0, <3>1, <3>2
  <2> QED BY <1>0, <1>1, <2>1, <2>2, <2>3, SameGraph DEF TypeOK
<1>8. PcOK'
  BY <1>2, <1>4, ZeroThread DEF IInv, PcOK, CallerPcs, IdlePcs
<1>9. Idles(t)
  BY <1>0, <1>2 DEF Idles
<1>10. KeepsTeam(t) /\ KeepsBarrier(t)
  BY <1>0, <1>a, <1>4, <1>5 DEF KeepsTeam, KeepsBarrier
<1>11. /\ NNodes' = NNodes /\ Nodes' = Nodes /\ Team' = Team /\ Team \subseteq Thread /\ n_graph' = n_graph
       /\ \A k : NextOp(k)' = NextOp(k) /\ Op(k)' = Op(k)
       /\ \A k, l : Computed(k, l)' <=> Computed(k, l)
  BY <1>0, <1>1, SameGraph, SameParts, SameWork, TeamFacts
<1>12. \A u \in Thread \ {t} : /\ at(u)' = at(u) /\ own(u)' = own(u)
                               /\ \A b : /\ Before(u, b)' <=> Before(u, b)
                                         /\ After(u, b)' <=> After(u, b)
  BY <1>9, Others DEF Idles
<1>13. After(t, m)' /\ at(t)' # "chunks"
  <2>1. CASE m + 1 < NNodes
    <3>1. AtBarrier(t, "loop")'
      BY <1>3, <1>4, <2>1 DEF AtBarrier, BarrierPcs
    <3> QED BY <1>3, <1>4, <1>11, <2>1, <3>1 DEF After
  <2>2. CASE ~(m + 1 < NNodes)
    <3>1. m + 1 = NNodes
      BY <1>6, <2>2
    <3> QED BY <1>3, <1>4, <1>11, <2>2, <3>1 DEF After
  <2> QED BY <2>1, <2>2
<1>14. \A W \in SUBSET Team : t \notin W /\ Tally(m, W) => Tally(m, W)'
  <2>1. Handed(m)' = Handed(m) /\ NChunks(m, n_graph.threads)' = NChunks(m, n_graph.threads) /\ done' = done
    BY <1>0, SameParts DEF Handed
  <2> TAKE W \in SUBSET Team
  <2> HAVE t \notin W /\ Tally(m, W)
  <2>2. \A u \in W : own(u)' = own(u)
    BY <1>11, <1>12
  <2> QED BY <1>11, <2>1, <2>2 DEF Tally
<1>15. ASSUME NEW n \in Nat, Section(n) PROVE Section(n)'
  <2> DEFINE W == {u \in Team : Before(u, n) \/ at(u) = "chunks"}
  <2>1. ~Halts(n) /\ m = NextOp(n) /\ n <= m /\ Op(m) = "op" /\ n \in 0 .. NNodes
        /\ n_graph.threads > 0 /\ abort \in {-1, m + 1}
    <3>1. ~Halts(n) /\ m = NextOp(n) /\ n <= m /\ Op(m) = "op"
      BY <1>a, <1>m, <1>15, AtWork
    <3>2. abort \in {-1, n, m + 1} /\ n \in 0 .. NNodes /\ n_graph.threads > 0
      BY <1>15, <3>1 DEF Section
    <3> QED BY <3>1, <3>2 DEF Halts
  <2>2. abort' \in {-1, m + 1}
    BY <1>0, <2>1
  <2>3. ~Halts(n)' /\ NextOp(n)' = m /\ Op(m)' = "op"
    <3>1. n # m + 1 /\ n # -1
      BY <1>6, <2>1
    <3> QED BY <1>11, <2>1, <2>2, <3>1 DEF Halts
  <2>4. ~Before(t, n) /\ ~Before(t, n)'
    <3>1. n # m + 1
      BY <1>6, <2>1
    <3> QED BY <1>a, <1>3, <1>4, <1>5, <3>1 DEF Before, Walking, IdlePcs, CallerPcs
  <2>5. \A u \in Team : Before(u, n)' \/ After(u, m)'
    <3>1. \A u \in Team : Before(u, n) \/ After(u, m)
      BY <1>15, <2>1 DEF Section
    <3> QED BY <1>11, <1>12, <1>13, <3>1
  <2>6. W' = W /\ t \notin W
    BY <1>a, <1>11, <1>12, <1>13, <2>4
  <2>7. Tally(m, W)'
    <3>1. Tally(m, W)
      BY <1>15, <2>1 DEF Section
    <3> HIDE DEF W
    <3>2. W \in SUBSET Team
      BY DEF W
    <3> QED BY <1>14, <2>6, <3>1, <3>2
  <2>8. Computed(m, m + 1)'
    BY <1>11, <1>15, <2>1 DEF Section
  <2>9. abort' \in {-1, n} \/ (m < NNodes /\ Op(m) = "op" /\ abort' = m + 1)
    BY <1>6, <2>1, <2>2
  <2> QED BY <1>11, <2>1, <2>3, <2>5, <2>7, <2>8, <2>9 DEF Section
<1>16. ASSUME NEW n \in Nat, Product(n) PROVE Product(n)'
  <2> DEFINE W == {u \in Team : at(u) = "chunks"}
  <2>1. n = m
    BY <1>a, <1>m, <1>16, AtWork
  <2>2. W' = W /\ t \notin W
    BY <1>a, <1>11, <1>12, <1>13
  <2>3. Tally(n, W)'
    <3>1. Tally(n, W)
      BY <1>16 DEF Product
    <3> HIDE DEF W
    <3>2. W \in SUBSET Team
      BY DEF W
    <3> QED BY <1>14, <2>1, <2>2, <3>1, <3>2
  <2>4. \A u \in Team : After(u, n)'
    <3>1. \A u \in Team : After(u, n)
      BY <1>16 DEF Product
    <3> QED BY <1>11, <1>12, <1>13, <2>1, <3>1
  <2>5. /\ n \in Nodes /\ Op(n) = "mm" /\ n_graph.threads > 0 /\ abort \in {-1, n + 1} /\ prepared[n] = Team
        /\ Computed(n, n + 1)
    BY <1>16 DEF Product
  <2>6. abort' \in {-1, n + 1}
    BY <1>0, <2>1, <2>5
  <2> QED BY <1>0, <1>11, <2>3, <2>4, <2>5, <2>6 DEF Product
<1>17. (ec = "success" <=> abort = -1)'
  <2>1. (ec = "success" <=> abort = -1) /\ m + 1 # -1
    BY <1>6 DEF IInv
  <2> QED BY <1>0, <2>1
<1> QED BY <1>0, <1>5, <1>7, <1>8, <1>9, <1>10, <1>15, <1>16, <1>17, WorkStep

-----------------------------------------------------------------------------
(* The barrier.                                                            *)

(* A step that is not the last one of a barrier keeps the sections.        *)
LEMMA KeptAtBarrier ==
  ASSUME IInv, NEW t \in Thread, Idles(t), TypeOK', PcOK', BarrierOK', UNCHANGED <<nth, node, chunk, ret>>,
         UNCHANGED <<done, prepared, abort, ec, current_chunk, last_graph>>,
         at(t) \in BarrierPcs, at(t)' \in BarrierPcs
  PROVE  IInv'
<1>1. Walking(t) /\ Walking(t)' /\ pc[t] # "start"
  BY DEF Walking, at, BarrierPcs, CallerPcs, IdlePcs
<1>2. t \in Team /\ ~Ended /\ (t # 0 => last_graph[t] = n_graph) /\ nth[t] = n_graph.threads
  BY <1>1, Member
<1>3. TypeOK /\ TeamOK /\ (ec = "success" <=> abort = -1)'
  BY DEF IInv
<1>4. TeamOK'
  BY <1>2, <1>3, StayTeam
<1>5. \A x : AtBarrier(t, x)' <=> AtBarrier(t, x)
  BY DEF AtBarrier
<1>6. ASSUME NEW n \in Nat
      PROVE  KeepsSection(t, n) /\ KeepsProduct(t, n)
  <2>1. ~Before(t, n) /\ ~Before(t, n)' /\ own(t) = t /\ own(t)' = t /\ at(t) # "chunks" /\ at(t)' # "chunks"
    BY <1>1 DEF Before, own, BarrierPcs
  <2>2. \A k : (After(t, k)' <=> After(t, k)) /\ (Converting(t, k)' <=> Converting(t, k))
    BY <1>5, SameGraph DEF After, Converting, Idles, BarrierPcs
  <2> QED BY <1>5, <2>1, <2>2, SameGraph
          DEF Idles, KeepsSection, KeepsProduct, InHalt, InProduct, InOp, Busy
<1>7. ASSUME NEW n \in Nat
      PROVE  (Section(n) => Section(n)') /\ (Product(n) => Product(n)')
  BY <1>3, <1>6, StaySection, StayProduct
<1> QED BY <1>2, <1>3, <1>4, <1>7 DEF IInv

LEMMA AddStep ==
  ASSUME IInv, NEW t \in Thread, BarrierAdd(t)
  PROVE  IInv'
<1> DEFINE l == IF n_barrier = need[t] - 1 THEN "reset" ELSE "spin"
<1>0. /\ pc[t] = "add" /\ pc' = [pc EXCEPT ![t] = l] /\ n_barrier' = n_barrier + 1
      /\ UNCHANGED <<cgraph, n_graph, current_chunk, stop, pause, abort, ec, n_barrier_passed, asleep,
                     last_graph, pending, nth, node, chunk, need, n_passed, ret, done, prepared>>
  BY DEF BarrierAdd, Goto, poolVars, wakeVars, walkVars, localVars, workVars
<1>1. TypeOK /\ BarrierOK
  BY DEF IInv
<1>2. \A u \in Thread : pc'[u] = IF u = t THEN l ELSE pc[u]
  BY <1>0, <1>1 DEF TypeOK
<1>3. /\ need[t] = n_graph.threads /\ n_passed[t] = n_barrier_passed /\ n_graph.threads > 1
      /\ n_graph.threads \in 0 .. NThreads /\ n_graph.threads \in Nat
  BY <1>0, <1>1, GraphType DEF BarrierOK
<1>4. at(t) = "add" /\ at(t)' = l /\ l \in {"reset", "spin"}
  <2>1. l \in {"reset", "spin"} /\ pc'[t] = l
    BY <1>2
  <2> HIDE DEF l
  <2> QED BY <1>0, <1>3, <2>1 DEF at
<1>5. t \in Team /\ Team \subseteq Thread
  <2>1. Walking(t)
    BY <1>4 DEF Walking, CallerPcs, IdlePcs
  <2> QED BY <1>1, <2>1, Member, TeamFacts
<1>6. \A u \in Thread : ~Last(u)
  <2>1. t \notin Arrived
    BY <1>4 DEF Arrived
  <2> QED BY <1>1, <1>5, <2>1 DEF BarrierOK
<1>7. n_barrier = Cardinality(Arrived) /\ n_barrier < n_graph.threads /\ n_barrier \in Nat
  <2>1. n_barrier \in 0 .. NThreads
    BY <1>1 DEF TypeOK
  <2> QED BY <1>1, <1>3, <1>6, <2>1 DEF BarrierOK
<1>8. Idles(t)
  BY <1>0, <1>2 DEF Idles
<1>9. Team' = Team /\ \A u \in Thread \ {t} : at(u)' = at(u)
  BY <1>0, <1>8, Others, SameParts DEF Idles
<1>10. Arrived' = Arrived \cup {t} /\ t \notin Arrived
  BY <1>4, <1>5, <1>9 DEF Arrived
<1>11. Cardinality(Arrived') = n_barrier + 1 /\ Arrived' \subseteq Team
  <2>1. IsFiniteSet(Arrived)
    BY <1>1, TeamFacts DEF Arrived
  <2>2. Cardinality(Arrived \cup {t}) = Cardinality(Arrived) + 1
    BY <1>10, <2>1, FS_AddElement
  <2> QED BY <1>7, <1>9, <1>10, <2>2 DEF Arrived
<1>12. BarrierOK'
  <2>1. \A u \in Thread : Last(u)' <=> u = t /\ l = "reset"
    BY <1>2, <1>6 DEF Last
  <2>2. l = "reset" => n_barrier' = n_graph.threads /\ Arrived' = Team
    <3>1. l = "reset" => n_barrier + 1 = n_graph.threads
      BY <1>3, <1>7
    <3> QED BY <1>0, <1>1, <1>11, <3>1, TeamFacts
  <2>3. l # "reset" => n_barrier' < n_graph.threads
    <3>1. l # "reset" => n_barrier # n_graph.threads - 1
      BY <1>3
    <3> HIDE DEF l
    <3> QED BY <1>0, <1>3, <1>7, <3>1
  <2>4. \A u \in Thread : pc'[u] \in {"add", "spin"} => n_passed[u] <= n_barrier_passed
    BY <1>0, <1>1, <1>2 DEF BarrierOK
  <2>5. \A u \in Thread : pc'[u] = "add" => pc[u] = "add"
    BY <1>2, <1>4
  <2>6. \A u \in Thread : Last(u)' => pc'[u] = "reset"
    BY <1>2, <2>1
  <2>7. t \in Thread
    OBVIOUS
  <2> HIDE DEF l
  <2> QED BY <1>0, <1>1, <1>3, <1>9, <1>11, <2>1, <2>2, <2>3, <2>4, <2>5, <2>6 DEF BarrierOK
<1>13. TypeOK'
  <2>1. pc' \in [Thread -> Pcs]
    BY <1>0, <1>1 DEF TypeOK, Pcs
  <2>2. n_barrier' \in 0 .. NThreads
    BY <1>0, <1>3, <1>7
  <2> QED BY <1>0, <1>1, <2>1, <2>2, SameGraph DEF TypeOK
<1>14. PcOK'
  BY <1>2, <1>4, ZeroThread DEF IInv, PcOK, CallerPcs, IdlePcs
<1>15. at(t) \in BarrierPcs /\ at(t)' \in BarrierPcs
  BY <1>4 DEF BarrierPcs
<1> QED BY <1>0, <1>8, <1>12, <1>13, <1>14, <1>15, KeptAtBarrier

LEMMA ResetStep ==
  ASSUME IInv, NEW t \in Thread, BarrierReset(t)
  PROVE  IInv'
<1>0. /\ pc[t] = "reset" /\ pc' = [pc EXCEPT ![t] = "pass"] /\ n_barrier' = 0
      /\ UNCHANGED <<cgraph, n_graph, current_chunk, stop, pause, abort, ec, n_barrier_passed, asleep,
                     last_graph, pending, nth, node, chunk, need, n_passed, ret, done, prepared>>
  BY DEF BarrierReset, Goto, poolVars, wakeVars, walkVars, localVars, workVars
<1>1. TypeOK /\ BarrierOK
  BY DEF IInv
<1>2. \A u \in Thread : pc'[u] = IF u = t THEN "pass" ELSE pc[u]
  BY <1>0, <1>1 DEF TypeOK
<1>3. at(t) = "reset" /\ at(t)' = "pass"
  <2>1. pc'[t] = "pass"
    BY <1>2
  <2> QED BY <1>0, <2>1 DEF at
<1>4. Idles(t)
  BY <1>0, <1>2 DEF Idles
<1>5. Team' = Team /\ Team \subseteq Thread /\ \A u \in Thread \ {t} : at(u)' = at(u)
  BY <1>0, <1>1, <1>4, Others, SameParts, TeamFacts DEF Idles
<1>6. Arrived' = Arrived
  BY <1>3, <1>5 DEF Arrived
<1>7. Last(t) /\ \A u \in Thread : Last(u)' <=> Last(u)
  BY <1>0, <1>2 DEF Last
<1>8. Arrived = Team /\ \A u \in Thread : Last(u) => u = t
  BY <1>1, <1>7 DEF BarrierOK
<1>9. BarrierOK'
  <2>1. \A u \in Thread : pc'[u] \in {"add", "spin"} => pc'[u] = pc[u]
    BY <1>2
  <2>2. \A u \in Thread : Last(u)' => pc'[u] = "pass"
    BY <1>2, <1>7, <1>8
  <2> QED BY <1>0, <1>1, <1>5, <1>6, <1>7, <1>8, <2>1, <2>2 DEF BarrierOK
<1>10. TypeOK'
  <2>1. pc' \in [Thread -> Pcs]
    BY <1>0, <1>1 DEF TypeOK, Pcs
  <2>2. n_barrier' \in 0 .. NThreads
    BY <1>0
  <2> QED BY <1>0, <1>1, <2>1, <2>2, SameGraph DEF TypeOK
<1>11. PcOK'
  BY <1>2, ZeroThread DEF IInv, PcOK, CallerPcs, IdlePcs
<1>12. at(t) \in BarrierPcs /\ at(t)' \in BarrierPcs
  BY <1>3 DEF BarrierPcs
<1> QED BY <1>0, <1>4, <1>9, <1>10, <1>11, <1>12, KeptAtBarrier

(* The whole team leaves a barrier at once.                                *)
Released ==
  /\ UNCHANGED <<cgraph, n_graph, current_chunk, abort, ec, last_graph, nth, node, chunk, ret, done, prepared>>
  /\ n_graph.threads > 0
  /\ \A u \in Team : at(u) \in BarrierPcs /\ at(u)' = ret[u]
  /\ pc'[0] # "kickoff"

LEMMA ReleasedFacts ==
  ASSUME IInv, Released
  PROVE  /\ TypeOK /\ Team' = Team /\ Team \subseteq Thread /\ 0 \in Team /\ n_graph' = n_graph
         /\ NNodes' = NNodes /\ Nodes' = Nodes /\ NNodes \in Nat
         /\ \A k : NextOp(k)' = NextOp(k) /\ Op(k)' = Op(k)
         /\ \A k : Complete(k)' = Complete(k) /\ Untouched(k)' = Untouched(k)
         /\ \A u \in Team : /\ u # 0 => last_graph[u] = n_graph
                            /\ \A b : ~Before(u, b)
                            /\ at(u) \notin {"chunks", "node_done", "loop"}
         /\ ~Ended
<1> USE DEF Released
<1>1. TypeOK
  BY DEF IInv
<1>2. Team' = Team /\ Team \subseteq Thread /\ 0 \in Team
  BY <1>1, SameParts, TeamFacts, GraphType DEF Team
<1>3. \A u \in Team : Walking(u) /\ at(u) \notin {"chunks", "node_done", "loop", "start"}
  BY DEF Walking, BarrierPcs, CallerPcs, IdlePcs
<1>4. \A u \in Team : /\ u # 0 => last_graph[u] = n_graph
                      /\ \A b : ~Before(u, b)
  <2>1. \A u \in Team : u # 0 => last_graph[u] = n_graph
    BY <1>2, <1>3, ZeroThread DEF IInv, TeamOK
  <2>2. \A u \in Team : \A b : ~Before(u, b)
    BY <1>3 DEF Before
  <2> QED BY <2>1, <2>2
<1>5. ~Ended
  BY <1>2, <1>3 DEF Ended
<1> QED BY <1>1, <1>2, <1>3, <1>4, <1>5, SameGraph, SameParts, Nodal

(* Behind the last barrier of the graph.                                   *)
LEMMA ReleaseEnd ==
  ASSUME IInv, Released, \A u \in Team : ret[u] = "leave", Result'
  PROVE  Ended'
<1>1. Team' = Team /\ 0 \in Team /\ n_graph' = n_graph
      /\ \A u \in Team : (u # 0 => last_graph[u] = n_graph) /\ at(u)' = "leave"
  BY ReleasedFacts DEF Released
<1>2. \A u \in Team : ~Walking(u)'
  BY <1>1 DEF Walking
<1> QED BY <1>1, <1>2 DEF Ended, Released

(* Behind a node that is computed.                                         *)
LEMMA Behind ==
  ASSUME NNodes \in Nat, NEW n \in Nat, NEW u, After(u, n), at(u) \notin {"chunks", "node_done", "loop"}
  PROVE  /\ n + 1 < NNodes => AtBarrier(u, "loop") /\ node[u] = n + 1
         /\ n + 1 = NNodes => AtBarrier(u, "leave")
BY DEF After

LEMMA ReleaseNode ==
  ASSUME IInv, Released, TypeOK', NEW n \in Nodes,
         \A u \in Team : After(u, n),
         Computed(n, n + 1), abort \in {-1, n + 1}, Tally(n, {})
  PROVE  Ended' \/ \E k \in Nat : Section(k)'
<1>1. /\ TypeOK /\ Team' = Team /\ Team \subseteq Thread /\ 0 \in Team /\ n_graph' = n_graph
      /\ NNodes' = NNodes /\ Nodes' = Nodes /\ NNodes \in Nat
      /\ \A k : NextOp(k)' = NextOp(k) /\ Op(k)' = Op(k)
      /\ \A k : Complete(k)' = Complete(k) /\ Untouched(k)' = Untouched(k)
      /\ \A u \in Team : at(u) \notin {"chunks", "node_done", "loop"}
  BY ReleasedFacts
<1>2. NNodes \in Nat /\ n \in Nat /\ 0 <= n /\ n < NNodes /\ n + 1 \in Nat /\ n + 1 \in 0 .. NNodes
  <2>1. NNodes \in Nat
    BY <1>1
  <2>2. n \in 0 .. NNodes - 1
    BY DEF Nodes
  <2> QED BY <2>1, <2>2
<1>a. \A u \in Team : at(u) \notin {"chunks", "node_done", "loop"}
  BY <1>1
<1>3. Complete(n)
  <2>1. Handed(n) >= NChunks(n, n_graph.threads)
    BY <1>1 DEF Tally
  <2>2. \A c \in 0 .. NChunks(n, n_graph.threads) - 1 :
          c \in Parts /\ c < Handed(n) /\ c < NChunks(n, n_graph.threads)
    <3>1. n_graph.threads \in 0 .. NThreads /\ n_graph.threads \in Nat
      BY <1>1, GraphType
    <3>2. NChunks(n, n_graph.threads) \in Nat /\ NChunks(n, n_graph.threads) <= NThreads + Extra
      BY <3>1 DEF NChunks
    <3>3. Handed(n) \in Int
      <4>1. current_chunk \in Nat
        BY <1>1 DEF TypeOK
      <4> QED BY <3>1, <4>1 DEF Handed
    <3> QED BY <2>1, <3>2, <3>3 DEF Parts
  <2>3. \A c \in Parts : c < Handed(n) /\ c < NChunks(n, n_graph.threads) => done[n][c] = 1
    BY DEF Tally
  <2> QED BY <2>2, <2>3 DEF Complete
<1>4. \A k \in 0 .. n : Op(k) # "nop" => Complete(k)
  <2>1. \A k \in 0 .. n : k = n \/ k \in 0 .. n - 1
    BY <1>2
  <2> QED BY <1>3, <2>1 DEF Computed
<1>5. CASE n + 1 < NNodes
  <2>1. \A u \in Team : AtBarrier(u, "loop") /\ node[u] = n + 1
    BY <1>a, <1>2, <1>5, Behind
  <2>2. \A u \in Team : Before(u, n + 1)'
    BY <2>1 DEF Before, AtBarrier, Released
  <2>3. Computed(n + 1, n + 1)'
    <3>1. \A k \in 0 .. (n + 1) - 1 : k \in 0 .. n
      BY <1>2
    <3> QED BY <1>1, <1>4, <3>1 DEF Computed, Released
  <2>4. FreshAt(n + 1)'
    BY <1>1, <1>2, <2>2, <2>3 DEF FreshAt, Released
  <2>5. (\A b \in Nat : FreshAt(b) => Section(b))'
    BY Fresh, PTL
  <2>6. Section(n + 1)'
    BY <1>2, <2>4, <2>5
  <2> QED BY <1>2, <2>6
<1>6. CASE n + 1 = NNodes
  <2>1. \A u \in Team : AtBarrier(u, "leave")
    BY <1>a, <1>2, <1>6, Behind
  <2>2. \A u \in Team : ret[u] = "leave"
    BY <2>1 DEF AtBarrier
  <2>3. Result'
    <3>1. \A m \in Nodes : Op(m) # "nop" => Complete(m)
      <4>1. \A m \in Nodes : m \in 0 .. n
        BY <1>2, <1>6 DEF Nodes
      <4> QED BY <1>4, <4>1
    <3>2. ec # "success" => abort = NNodes
      BY <1>6 DEF IInv
    <3>3. \A k \in 0 .. NNodes - 1 : k \in Nodes
      BY DEF Nodes
    <3>4. NNodes .. NNodes - 1 = {}
      BY <1>2
    <3>5. abort' = abort /\ ec' = ec
      BY DEF Released
    <3> QED BY <1>1, <3>1, <3>2, <3>3, <3>4, <3>5 DEF Result
  <2> QED BY <2>2, <2>3, ReleaseEnd
<1> QED BY <1>2, <1>5, <1>6

LEMMA Release ==
  ASSUME IInv, Released, TypeOK'
  PROVE  Ended' \/ \E k \in Nat : Section(k)' \/ Product(k)'
<1>1. /\ TypeOK /\ Team' = Team /\ Team \subseteq Thread /\ 0 \in Team /\ n_graph' = n_graph
      /\ NNodes' = NNodes /\ Nodes' = Nodes /\ NNodes \in Nat
      /\ \A k : NextOp(k)' = NextOp(k) /\ Op(k)' = Op(k)
      /\ \A k : Complete(k)' = Complete(k) /\ Untouched(k)' = Untouched(k)
      /\ \A u \in Team : at(u) \notin {"chunks", "node_done", "loop"} /\ \A b : ~Before(u, b)
      /\ ~Ended
  BY ReleasedFacts
<1>a. NNodes \in Nat
  BY <1>1
<1>2. PICK n \in Nat : Section(n) \/ Product(n)
  BY <1>1 DEF IInv
<1>3. CASE Product(n)
  <2>1. {u \in Team : at(u) = "chunks"} = {}
    BY <1>1
  <2>2. Tally(n, {})
    BY <1>3, <2>1 DEF Product
  <2> QED BY <1>3, <2>2, ReleaseNode DEF Product
<1>4. CASE Section(n)
  <2> DEFINE m == NextOp(n)
  <2>0. n \in 0 .. NNodes /\ m \in 0 .. NNodes /\ n <= m /\ (m # NNodes => m \in Nodes)
        /\ (m # NNodes => Op(m) \in {"op", "mm"}) /\ (\A k \in n .. m - 1 : Op(k) = "nop")
    <3>1. n \in 0 .. NNodes
      BY <1>4 DEF Section
    <3>2. m \in 0 .. NNodes /\ n <= m
      BY <1>1, <3>1, Nodal
    <3>3. m # NNodes => m \in Nodes
      <4> HIDE DEF m
      <4> QED BY <1>a, <3>2 DEF Nodes
    <3>4. (m < NNodes => Op(m) \in {"op", "mm"}) /\ (\A k \in n .. m - 1 : Op(k) = "nop")
      BY <1>1, <3>1, NextOpFacts, Nodal
    <3> HIDE DEF m
    <3>5. m # NNodes => m < NNodes
      BY <1>a, <3>2
    <3> QED BY <3>1, <3>2, <3>3, <3>4, <3>5
  <2>1. CASE Halts(n)
    <3>1. \A u \in Team : AtBarrier(u, "leave")
      BY <1>1, <1>4, <2>1 DEF Section
    <3>2. Computed(n, n)
      BY <1>4, <2>1 DEF Section
    <3>3. abort \in {-1, n}
      <4>1. abort = n \/ m = NNodes
        BY <2>1 DEF Halts
      <4> HIDE DEF m
      <4>2. abort \in {-1, n} \/ m < NNodes
        BY <1>4 DEF Section, m
      <4> QED BY <1>a, <4>1, <4>2
    <3>4. abort = -1 => m = NNodes
      BY <2>0, <2>1 DEF Halts
    <3>5. Result'
      <4>1. abort = -1 => \A k \in Nodes : Op(k) # "nop" => Complete(k)
        <5> SUFFICES ASSUME abort = -1, NEW k \in Nodes, Op(k) # "nop" PROVE Complete(k)
          OBVIOUS
        <5>1. k \in 0 .. n - 1 \/ k \in n .. m - 1
          <6>1. m = NNodes /\ n \in Nat
            BY <3>4
          <6> HIDE DEF m
          <6> QED BY <1>a, <6>1 DEF Nodes
        <5> QED BY <2>0, <3>2, <5>1 DEF Computed
      <4>2. ec # "success" => abort = n
        BY <3>3 DEF IInv
      <4>3. ec = "success" => abort = -1
        BY DEF IInv
      <4>4. (\A k \in 0 .. n - 1 : Op(k) # "nop" => Complete(k)) /\ \A k \in n .. NNodes - 1 : Untouched(k)
        BY <3>2 DEF Computed
      <4>5. abort' = abort /\ ec' = ec
        BY DEF Released
      <4> HIDE DEF m
      <4> QED BY <1>1, <4>1, <4>2, <4>3, <4>4, <4>5 DEF Result
    <3> QED BY <3>1, <3>5, ReleaseEnd DEF AtBarrier
  <2>2. CASE ~Halts(n) /\ Op(m) = "mm"
    <3>0. m \in Nodes
      BY <2>0, <2>2 DEF Halts
    <3>1. \A u \in Team : Converting(u, m)
      BY <1>1, <1>4, <2>2 DEF Section
    <3>2. \A u \in Team : AtBarrier(u, "chunks") /\ node[u] = m /\ chunk[u] = u
      BY <3>1 DEF Converting, Released, BarrierPcs
    <3>3. \A u \in Team : at(u)' = "chunks" /\ After(u, m)' /\ own(u)' = u
      <4>1. \A u \in Team : at(u)' = "chunks" /\ node'[u] = m /\ chunk'[u] = u
        BY <3>2 DEF AtBarrier, Released
      <4>2. m' = m
        BY <1>1
      <4> HIDE DEF m
      <4> QED BY <4>1, <4>2 DEF After, own
    <3>4. abort = -1
      BY <1>4, <2>2 DEF Section, Halts
    <3>5. Computed(m, m + 1)'
      <4>1. Computed(m, m + 1)
        BY <1>4, <2>2 DEF Section
      <4> QED BY <1>1, <4>1, SameWork DEF Released
    <3>6. prepared'[m] = Team
      <4>1. prepared[m] = {u \in Team : AtBarrier(u, "chunks")}
        BY <1>4, <2>2 DEF Section
      <4> QED BY <3>2, <4>1 DEF Released
    <3>7. Tally(m, Team)'
      <4>0. m' = m /\ done' = done
        BY <1>1 DEF Released
      <4>1. Untouched(m) /\ current_chunk = n_graph.threads
        BY <1>1, <1>4, <2>2, <3>2 DEF Section
      <4>2. Handed(m)' = n_graph.threads /\ NChunks(m, n_graph.threads)' = NChunks(m, n_graph.threads)
        <5>1. UNCHANGED <<cgraph, n_graph, current_chunk>>
          BY DEF Released
        <5>2. NChunks(m, n_graph.threads)' = NChunks(m, n_graph.threads)
          BY <4>0, <5>1, SameParts
        <5> QED BY <4>1, <5>1, <5>2 DEF Handed
      <4>3. n_graph.threads \in Nat
        BY <1>1, GraphType
      <4>4. \A u \in Team : u < n_graph.threads
        BY <4>3 DEF Team
      <4>5. \A c \in Parts : c < n_graph.threads => c \in Team
        BY <4>3 DEF Team, Parts
      <4>6. \A c \in Parts : done[m][c] = 0
        BY <4>1 DEF Untouched
      <4> HIDE DEF m
      <4>7. \A c \in Parts : c < n_graph.threads => ~(\A u \in Team : own(u)' # c)
        BY <3>3, <4>5
      <4>8. Team' = Team /\ n_graph' = n_graph
        BY <1>1
      <4>9. \A c \in Parts : done'[m'][c] =
              IF c < Handed(m)' /\ c < NChunks(m, n_graph.threads)' /\ \A u \in Team : own(u)' # c THEN 1 ELSE 0
        BY <4>0, <4>2, <4>6, <4>7
      <4>10. /\ \A u \in Team : own(u)' < Handed(m)'
             /\ \A u, v \in Team : own(u)' = own(v)' => u = v
        BY <3>3, <4>2, <4>4
      <4>11. Handed(m)' >= n_graph'.threads
        BY <4>2, <4>3, <4>8
      <4> QED BY <4>8, <4>9, <4>10, <4>11 DEF Tally
    <3>8. {u \in Team : at(u) = "chunks"}' = Team
      BY <1>1, <3>3
    <3>9. Product(m)'
      <4>1. m' = m /\ abort' = abort
        BY <1>1 DEF Released
      <4>2. n_graph.threads > 0
        BY DEF Released
      <4> HIDE DEF m
      <4> QED BY <1>1, <2>2, <3>0, <3>3, <3>4, <3>5, <3>6, <3>7, <3>8, <4>1, <4>2 DEF Product
    <3>10. PICK k \in Nat : k = m
      <4> HIDE DEF m
      <4> QED BY <1>a, <3>0 DEF Nodes
    <3>11. Product(k)'
      <4>1. m' = m
        BY <1>1
      <4> HIDE DEF m
      <4> QED BY <3>9, <3>10, <4>1
    <3> QED BY <3>11
  <2>3. CASE ~Halts(n) /\ Op(m) = "op"
    <3>0. m \in Nodes
      BY <2>0, <2>3 DEF Halts
    <3>1. \A u \in Team : After(u, m)
      BY <1>1, <1>4, <2>3 DEF Section
    <3>2. Computed(m, m + 1) /\ abort \in {-1, m + 1}
      BY <1>4, <2>3 DEF Section, Halts
    <3>3. {u \in Team : Before(u, n) \/ at(u) = "chunks"} = {}
      BY <1>1
    <3>4. Tally(m, {})
      BY <1>4, <2>3, <3>3 DEF Section
    <3> HIDE DEF m
    <3>5. PICK k \in Nodes : k = m
      BY <3>0
    <3> QED BY <3>1, <3>2, <3>4, <3>5, ReleaseNode
  <2> QED BY <2>0, <2>1, <2>2, <2>3 DEF Halts
<1> QED BY <1>2, <1>3, <1>4

(* The last thread opens the barrier.                                      *)
LEMMA PassStep ==
  ASSUME IInv, NEW t \in Thread, BarrierPass(t)
  PROVE  IInv'
<1>0. /\ pc[t] = "pass" /\ pc' = [pc EXCEPT ![t] = ret[t]] /\ n_barrier_passed' = n_barrier_passed + 1
      /\ UNCHANGED <<cgraph, n_graph, current_chunk, stop, pause, abort, ec, n_barrier, asleep,
                     last_graph, pending, nth, node, chunk, need, n_passed, ret, done, prepared>>
  BY DEF BarrierPass, Goto, poolVars, wakeVars, walkVars, localVars, workVars
<1>1. TypeOK /\ BarrierOK /\ TeamOK
  BY DEF IInv
<1>2. at(t) = "pass" /\ Walking(t) /\ Last(t)
  <2>1. at(t) = "pass"
    BY <1>0 DEF at
  <2> QED BY <1>0, <2>1 DEF Walking, Last, CallerPcs, IdlePcs
<1>3. t \in Team /\ ret[t] \in {"loop", "chunks", "leave"}
  BY <1>0, <1>2, Member, Inside DEF BarrierPcs
<1>4. \A u \in Thread : pc'[u] = IF u = t THEN ret[t] ELSE pc[u]
  BY <1>0, <1>1 DEF TypeOK
<1>5. Arrived = Team /\ n_barrier = 0 /\ \A u \in Thread : Last(u) => u = t
  BY <1>0, <1>1, <1>2 DEF BarrierOK
<1>6. Team \subseteq Thread /\ Team' = Team /\ n_graph.threads \in Nat /\ n_graph.threads > 0 /\ n_graph' = n_graph
  <2>1. Team \subseteq Thread /\ Team' = Team /\ n_graph.threads \in Nat
    BY <1>0, <1>1, TeamFacts, SameParts, GraphType
  <2> QED BY <1>0, <1>3, <2>1 DEF Team, Thread
<1>7. n_barrier_passed \in Nat /\ \A u \in Thread : n_passed[u] \in Nat
  BY <1>1 DEF TypeOK
<1>8. \A u \in Team : at(u) \in BarrierPcs /\ (u # t => pc[u] = "spin" /\ n_passed[u] = n_barrier_passed)
  <2> SUFFICES ASSUME NEW u \in Team
               PROVE  at(u) \in BarrierPcs /\ (u # t => pc[u] = "spin" /\ n_passed[u] = n_barrier_passed)
    OBVIOUS
  <2>1. at(u) \in {"reset", "pass", "spin"}
    BY <1>5 DEF Arrived
  <2>2. pc[u] \in {"reset", "pass"} => u = t
    BY <1>5, <1>6 DEF Last
  <2>3. u \in Thread
    BY <1>6
  <2>4. ret[u] \notin {"reset", "pass", "spin"}
    BY <1>1, <2>3 DEF TypeOK
  <2> QED BY <1>2, <2>1, <2>2, <2>4 DEF at, BarrierPcs
<1>9. \A u \in Team : ret[u] \in {"loop", "chunks", "leave"} /\ at(u)' = ret[u]
  <2>1. \A u \in Team : ret[u] \in {"loop", "chunks", "leave"}
    <3>1. \A u \in Team : pc[u] \in BarrierPcs /\ Walking(u)
      BY <1>0, <1>8 DEF Walking, CallerPcs, IdlePcs, BarrierPcs
    <3> QED BY <1>6, <3>1, Inside
  <2>2. \A u \in Team : at(u)' = ret[u]
    BY <1>0, <1>3, <1>4, <1>6, <1>7, <1>8 DEF at
  <2> QED BY <2>1, <2>2
<1>10. \A u \in Thread \ Team : /\ pc'[u] = pc[u] /\ at(u)' = at(u) /\ ~Walking(u) /\ ~Last(u)'
                                /\ pc[u] # "add"
  <2> SUFFICES ASSUME NEW u \in Thread \ Team
               PROVE  pc'[u] = pc[u] /\ at(u)' = at(u) /\ ~Walking(u) /\ ~Last(u)' /\ pc[u] # "add"
    OBVIOUS
  <2>1. pc'[u] = pc[u] /\ ~Walking(u)
    BY <1>1, <1>3, <1>4 DEF TeamOK
  <2>2. pc[u] \notin {"add", "reset", "pass"}
    BY <2>1 DEF Walking, at, CallerPcs, IdlePcs
  <2>3. pc[u] = "spin" => n_passed[u] <= n_barrier_passed /\ n_passed[u] # n_barrier_passed
    BY <1>1, <2>1 DEF Walking, at, CallerPcs, IdlePcs, BarrierOK
  <2>4. pc[u] = "spin" => n_passed[u] # n_barrier_passed + 1
    BY <1>7, <2>3
  <2>5. at(u)' = at(u)
    BY <1>0, <2>1, <2>3, <2>4 DEF at
  <2> QED BY <2>1, <2>2, <2>5 DEF Last
<1>11. TypeOK'
  <2>1. pc' \in [Thread -> Pcs]
    BY <1>0, <1>1, <1>3 DEF TypeOK, Pcs
  <2>2. n_barrier_passed' \in Nat
    BY <1>0, <1>7
  <2> QED BY <1>0, <1>1, <2>1, <2>2, SameGraph DEF TypeOK
<1>12. PcOK'
  BY <1>3, <1>4, ZeroThread DEF IInv, PcOK, CallerPcs, IdlePcs
<1>13. TeamOK'
  <2>1. \A u \in Thread : Walking(u)' => u \in Team
    BY <1>10 DEF Walking
  <2>2. \A u \in Team : Walking(u) /\ pc[u] # "start"
    BY <1>8, <1>0 DEF Walking, CallerPcs, IdlePcs, BarrierPcs
  <2> QED BY <1>0, <1>1, <1>6, <2>1, <2>2, ZeroThread DEF TeamOK
<1>14. BarrierOK'
  <2>1. Arrived' = {}
    BY <1>6, <1>9 DEF Arrived
  <2>2. \A u \in Thread : ~Last(u)' /\ pc'[u] # "add"
    <3>1. \A u \in Team : pc'[u] \in {"loop", "chunks", "leave", "spin"}
      BY <1>3, <1>4, <1>6, <1>8
    <3> QED BY <1>10, <3>1 DEF Last
  <2>3. \A u \in Thread : pc'[u] = "spin" => n_passed[u] <= n_barrier_passed'
    <3>1. \A u \in Thread : pc'[u] = "spin" => n_passed[u] <= n_barrier_passed
      BY <1>1, <1>3, <1>4 DEF BarrierOK
    <3> QED BY <1>0, <1>7, <3>1
  <2> QED BY <1>0, <1>5, <1>6, <2>1, <2>2, <2>3, FS_EmptySet DEF BarrierOK
<1>15. Released
  <2>1. pc'[0] # "kickoff"
    <3>1. 0 \in Team
      BY <1>6 DEF Team
    <3> QED BY <1>3, <1>4, <1>6, <1>8, <3>1
  <2> QED BY <1>0, <1>6, <1>8, <1>9, <2>1 DEF Released
<1>16. Ended' \/ \E n \in Nat : Section(n)' \/ Product(n)'
  BY <1>11, <1>15, Release
<1>17. (ec = "success" <=> abort = -1)'
  BY <1>0 DEF IInv
<1> QED BY <1>11, <1>12, <1>13, <1>14, <1>16, <1>17 DEF IInv

(* A single thread does not wait for anyone.                               *)
LEMMA AloneStep ==
  ASSUME IInv, NEW t \in Thread, BarrierLoad(t), n_graph.threads = 1
  PROVE  IInv'
<1>0. /\ pc[t] = "barrier" /\ pc' = [pc EXCEPT ![t] = ret[t]]
      /\ UNCHANGED <<cgraph, n_graph, current_chunk, stop, pause, abort, ec, n_barrier, n_barrier_passed, asleep,
                     last_graph, pending, nth, node, chunk, need, n_passed, ret, done, prepared>>
  BY DEF BarrierLoad, Goto, poolVars, barVars, wakeVars, walkVars, workVars
<1>1. TypeOK /\ BarrierOK /\ TeamOK
  BY DEF IInv
<1>2. at(t) = "barrier" /\ Walking(t)
  <2>1. at(t) = "barrier"
    BY <1>0 DEF at
  <2> QED BY <2>1 DEF Walking, CallerPcs, IdlePcs
<1>3. t \in Team /\ ret[t] \in {"loop", "chunks", "leave"}
  BY <1>0, <1>2, Member, Inside DEF BarrierPcs
<1>4. \A u \in Thread : pc'[u] = IF u = t THEN ret[t] ELSE pc[u]
  BY <1>0, <1>1 DEF TypeOK
<1>5. t = 0 /\ Team = {0} /\ Team' = Team /\ n_graph' = n_graph
  <2>1. Team = {0}
    BY DEF Team
  <2> QED BY <1>0, <1>3, <2>1, SameParts
<1>6. Idles(t)
  BY <1>0, <1>4 DEF Idles
<1>7. \A u \in Thread \ {t} : at(u)' = at(u)
  BY <1>6, Others DEF Idles
<1>8. at(t)' = ret[t]
  <2>1. pc'[t] = ret[t]
    BY <1>4
  <2> QED BY <1>3, <2>1 DEF at
<1>9. Arrived = {} /\ Arrived' = {} /\ \A u \in Thread : ~Last(u)
  <2>1. Arrived = {}
    BY <1>1 DEF BarrierOK
  <2>2. Arrived' = {}
    BY <1>3, <1>5, <1>8 DEF Arrived
  <2> QED BY <1>1, <1>5, <2>1, <2>2 DEF BarrierOK
<1>10. TypeOK'
  <2>1. pc' \in [Thread -> Pcs]
    BY <1>0, <1>1, <1>3 DEF TypeOK, Pcs
  <2> QED BY <1>0, <1>1, <2>1, SameGraph DEF TypeOK
<1>11. PcOK'
  BY <1>3, <1>4, ZeroThread DEF IInv, PcOK, CallerPcs, IdlePcs
<1>12. KeepsTeam(t)
  <2>1. nth[t] = n_graph.threads
    BY <1>0, <1>2, Member
  <2> QED BY <1>0, <1>3, <1>5, <2>1 DEF KeepsTeam
<1>13. TeamOK'
  BY <1>0, <1>1, <1>6, <1>12, StayTeam DEF KeepsTeam
<1>14. BarrierOK'
  <2>1. \A u \in Thread : ~Last(u)' /\ (pc'[u] \in {"add", "spin"} => pc'[u] = pc[u])
    BY <1>3, <1>4, <1>9 DEF Last
  <2> QED BY <1>0, <1>1, <1>9, <2>1 DEF BarrierOK
<1>15. Released
  <2>1. pc'[0] # "kickoff"
    BY <1>3, <1>4, <1>5
  <2>2. \A u \in Team : at(u) \in BarrierPcs /\ at(u)' = ret[u]
    BY <1>2, <1>5, <1>8 DEF BarrierPcs
  <2> QED BY <1>0, <2>1, <2>2 DEF Released
<1>16. Ended' \/ \E n \in Nat : Section(n)' \/ Product(n)'
  BY <1>10, <1>15, Release
<1>17. (ec = "success" <=> abort = -1)'
  BY <1>0 DEF IInv
<1> QED BY <1>10, <1>11, <1>13, <1>14, <1>16, <1>17 DEF IInv

-----------------------------------------------------------------------------
LEMMA InitInv == Init => IInv
<1> SUFFICES ASSUME Init PROVE IInv
  OBVIOUS
<1>1. /\ cgraph = <<>> /\ n_graph = [count |-> 0, threads |-> 0]
      /\ n_barrier = 0 /\ n_barrier_passed = 0 /\ abort = -1 /\ ec = "success"
      /\ pc = [t \in Thread |-> IF t = 0 THEN "idle" ELSE "pause?"]
      /\ last_graph = [t \in Thread |-> [count |-> 0, threads |-> 0]]
  BY DEF Init
<1>2. NNodes = 0 /\ Nodes = {} /\ Team = {} /\ n_graph.count = 0 /\ n_graph.threads = 0
  <2>1. Len(cgraph) = 0
    BY <1>1
  <2>2. n_graph.count = 0 /\ n_graph.threads = 0
    BY <1>1
  <2> QED BY <2>1, <2>2 DEF NNodes, Nodes, Team
<1>3. TypeOK
  <2>1. cgraph \in Seq({"nop", "op", "mm"})
    BY <1>1
  <2>2. n_graph \in [count : Nat, threads : 0 .. NThreads] /\ 0 \in 0 .. NThreads
    BY <1>1
  <2>3. pc \in [Thread -> Pcs]
    BY <1>1 DEF Pcs
  <2>4. last_graph \in [Thread -> [count : Nat, threads : 0 .. NThreads]]
    BY <1>1
  <2>5. DOMAIN done = Nodes /\ DOMAIN prepared = Nodes
    <3>1. done = <<>> /\ prepared = <<>>
      BY DEF Init
    <3>2. DOMAIN <<>> = {}
      OBVIOUS
    <3> QED BY <1>2, <3>1, <3>2
  <2>6. /\ current_chunk = 0 /\ stop = FALSE /\ pause \in BOOLEAN /\ asleep = {}
        /\ pending \in [Thread -> BOOLEAN] /\ nth \in [Thread -> 0 .. NThreads]
        /\ node \in [Thread -> Nat] /\ chunk \in [Thread -> Nat] /\ need \in [Thread -> 0 .. NThreads]
        /\ n_passed \in [Thread -> Nat] /\ ret \in [Thread -> {"", "loop", "chunks", "leave"}]
    BY <2>2 DEF Init
  <2>7. abort \in -1 .. NNodes /\ ec \in {"success", "aborted"}
    BY <1>1, <1>2
  <2> QED BY <1>1, <1>2, <2>1, <2>2, <2>3, <2>4, <2>5, <2>6, <2>7 DEF TypeOK
<1>4. \A t \in Thread : pc[t] = IF t = 0 THEN "idle" ELSE "pause?"
  BY <1>1
<1>5. \A t \in Thread : ~Walking(t) /\ at(t) = pc[t] /\ ~Last(t)
  <2>1. \A t \in Thread : at(t) = pc[t]
    BY <1>4 DEF at
  <2> QED BY <1>4, <2>1 DEF Walking, Last, CallerPcs, IdlePcs
<1>6. PcOK
  BY <1>4, ZeroThread DEF PcOK, CallerPcs, IdlePcs
<1>7. TeamOK
  BY <1>1, <1>2, <1>5, ZeroThread DEF TeamOK
<1>8. BarrierOK
  <2>1. Arrived = {}
    BY <1>2 DEF Arrived
  <2> QED BY <1>1, <1>2, <1>4, <1>5, <2>1, FS_EmptySet DEF BarrierOK
<1>9. Ended
  BY <1>2, <1>4, <1>5, ZeroThread DEF Ended, Result, CallerPcs
<1> QED BY <1>1, <1>3, <1>6, <1>7, <1>8, <1>9 DEF IInv

LEMMA StutterStep ==
  ASSUME IInv, UNCHANGED vars
  PROVE  IInv'
<1>0. UNCHANGED <<cgraph, n_graph, current_chunk, stop, pause, abort, ec, n_barrier, n_barrier_passed, asleep,
                  last_graph, pending, nth, node, chunk, need, n_passed, ret, done, prepared, pc>>
  BY DEF vars, poolVars, barVars, wakeVars, walkVars, localVars, workVars
<1>1. TypeOK' /\ PcOK'
  BY <1>0, SameGraph DEF IInv, TypeOK, PcOK
<1> QED BY <1>0, <1>1, Unmoved

LEMMA NextInv == IInv /\ [Next]_vars => IInv'
<1> SUFFICES ASSUME IInv, [Next]_vars PROVE IInv'
  OBVIOUS
<1>1. ASSUME NEW t \in Thread, Step(t) PROVE IInv'
  <2>1. CASE t \in Worker /\ Idle(t)
    BY <2>1, IdleStep
  <2>2. CASE Start(t)
    BY <2>2, StartStep
  <2>3. CASE Loop(t)
    BY <2>3, LoopStep
  <2>4. CASE Convert(t)
    BY <2>4, ConvertStep
  <2>5. CASE Chunk(t)
    BY <2>5, ChunkStep
  <2>6. CASE ChunksEnd(t)
    BY <2>6, ChunksEndStep
  <2>7. CASE NodeDone(t)
    BY <2>7, NodeDoneStep
  <2>8. CASE Leave(t) \/ BarrierSpin(t)
    BY <2>8, LeaveStep
  <2>9. CASE BarrierLoad(t)
    BY <2>9, LoadStep, AloneStep
  <2>10. CASE BarrierAdd(t)
    BY <2>10, AddStep
  <2>11. CASE BarrierReset(t)
    BY <2>11, ResetStep
  <2>12. CASE BarrierPass(t)
    BY <2>12, PassStep
  <2>13. CASE Kickoff
    BY <2>13, KickoffStep
  <2>14. CASE Join
    BY <2>14, CallerStep
  <2> QED BY <1>1, <2>1, <2>2, <2>3, <2>4, <2>5, <2>6, <2>7, <2>8, <2>9, <2>10, <2>11, <2>12, <2>13, <2>14
          DEF Step, Compute
<1>2. ASSUME NEW t \in Thread, Spurious(t) PROVE IInv'
  BY <1>2, LeaveStep
<1>3. ASSUME NEW g \in Graphs, NEW n \in Requests, GraphCompute(g, n) PROVE IInv'
  BY <1>3, GraphComputeStep
<1>4. ASSUME NEW p \in BOOLEAN, SetPause(p) PROVE IInv'
  BY <1>4, CallerStep
<1>5. CASE Free
  BY <1>5, CallerStep
<1>6. CASE UNCHANGED vars
  BY <1>6, StutterStep
<1> QED BY <1>1, <1>2, <1>3, <1>4, <1>5, <1>6 DEF Next

-----------------------------------------------------------------------------
(* What the invariant says.                                                *)

LEMMA InputsFollow == IInv => InputsReady
<1> SUFFICES ASSUME IInv, NEW t \in Thread, pc[t] \in {"convert", "chunks"}
             PROVE  /\ \A m \in 0 .. node[t] - 1 : Op(m) # "nop" => Complete(m)
                    /\ pc[t] = "chunks" /\ Op(node[t]) = "mm" => prepared[node[t]] = Team
  BY DEF InputsReady
<1>1. at(t) = pc[t]
  BY DEF at
<1>2. ~Ended
  BY <1>1, AtWork
<1>3. PICK n \in Nat : Section(n) \/ Product(n)
  BY <1>2 DEF IInv
<1>4. CASE Section(n)
  <2>1. /\ ~Halts(n) /\ node[t] = NextOp(n)
        /\ Op(NextOp(n)) = IF pc[t] = "convert" THEN "mm" ELSE "op"
    BY <1>1, <1>4, AtWork
  <2>2. Computed(NextOp(n), NextOp(n) + 1)
    BY <1>4, <2>1 DEF Section
  <2> QED BY <2>1, <2>2 DEF Computed
<1>5. CASE Product(n)
  <2>1. node[t] = n
    BY <1>1, <1>5, AtWork
  <2> QED BY <1>5, <2>1 DEF Product, Computed
<1> QED BY <1>3, <1>4, <1>5

LEMMA QuietFollows == IInv => QuietReset
<1> SUFFICES ASSUME IInv, pc[0] \in {"idle", "kickoff"}, NEW t \in Worker
             PROVE  n_barrier = 0 /\ OutOfGraph(t)
  <2>1. CASE Worker # {}
    BY <2>1 DEF QuietReset
  <2>2. CASE Worker = {}
    <3>1. pc[0] \in {"idle", "kickoff"} /\ IInv => n_barrier = 0
      BY Quiet DEF Walking, at, CallerPcs
    <3> QED BY <2>2, <3>1 DEF QuietReset
  <2> QED BY <2>1, <2>2
<1>1. ~Walking(0)
  BY DEF Walking, at, CallerPcs
<1>2. n_barrier = 0 /\ ~Walking(t) /\ pc[t] \notin {"start", "add", "reset", "pass"} /\ t \in Thread
  BY <1>1, Quiet, ZeroThread
<1>3. pc[t] \notin {"loop", "convert", "chunks", "node_done", "barrier"}
  BY <1>2 DEF Walking, at, CallerPcs, IdlePcs
<1>4. pc[t] = "spin" => n_barrier_passed # n_passed[t] /\ ret[t] \notin {"", "loop", "chunks"}
  BY <1>2 DEF Walking, at, CallerPcs, IdlePcs
<1>5. ret[t] \in {"", "loop", "chunks", "leave"}
  BY <1>2 DEF IInv, TypeOK
<1> QED BY <1>2, <1>3, <1>4, <1>5 DEF OutOfGraph

LEMMA ResultFollows == IInv => ResultTrue
<1> SUFFICES ASSUME IInv, pc[0] = "idle" PROVE Result
  BY DEF ResultTrue, Result
<1>1. ~Walking(0)
  BY DEF Walking, at, CallerPcs
<1>2. Ended
  BY <1>1, Quiet
<1> QED BY <1>2 DEF Ended

-----------------------------------------------------------------------------
(* The team stays in step: between two barriers all of it is in the same   *)
(* section of the graph, and each chunk handed out is computed once.       *)
THEOREM Invariance == Spec => []IInv
<1>1. Init => IInv
  BY InitInv
<1>2. IInv /\ [Next]_vars => IInv'
  BY NextInv
<1> QED BY <1>1, <1>2, PTL DEF Spec

(* Every variable of the pool keeps to its type, the barrier never counts  *)
(* more threads than there are, and an abort names a node of the graph.    *)
THEOREM TypeCorrect == Spec => []TypeOK
<1>1. IInv => TypeOK
  BY DEF IInv
<1> QED BY <1>1, Invariance, PTL

(* A thread that works at a node finds every earlier node complete, and    *)
(* the operand of a matrix product converted by the whole team.            *)
THEOREM Inputs == Spec => []InputsReady
BY InputsFollow, Invariance, PTL

(* While the caller is between two graphs no worker is in one, so that     *)
(* ggml_graph_compute may reset the pool without the mutex.                *)
THEOREM QuietBetween == Spec => []QuietReset
BY QuietFollows, Invariance, PTL

(* ggml_graph_compute reports success only of a graph that is complete,    *)
(* and an abort at the same node on every thread.                          *)
THEOREM ResultsTrue == Spec => []ResultTrue
BY ResultFollows, Invariance, PTL
=============================================================================
