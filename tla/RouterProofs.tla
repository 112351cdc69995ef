---------------------------- MODULE RouterProofs ----------------------------
(***************************************************************************)
(* The safety of the router for any number of models and requests: the     *)
(* limit on child processes, and what may be left of an unloaded model.    *)
(***************************************************************************)
EXTENDS Router, FiniteSetTheorems, TLAPS

(* A model has a managing thread unless it is unloaded; while that thread  *)
(* waits for the log thread, and then only, there can be a living child    *)
(* and unread lines; a process to wait for exists until it has been waited *)
(* for.                                                                    *)
Managed ==
  \A n \in Models :
    /\ status[n] = "unloaded" <=> mgr[n] = "none"
    /\ proc[n] # "none" => mgr[n] \in {"log", "erase", "join"}
    /\ proc[n] \in {"starting", "ready", "asleep"} => mgr[n] = "log"
    /\ pipe[n] # <<>> => mgr[n] = "log"

(* What load() checks under the lock, and every status change keeps.       *)
ActiveWithinLimit == ModelsMax > 0 => Cardinality(Active) <= ModelsMax

IInv == TypeOK /\ Managed /\ LoadedSaidReady /\ ActiveWithinLimit

USE ModelsAssumption, ModelsMaxAssumption, BoundsAssumption

-----------------------------------------------------------------------------
(* NoRequest is a request.                                                 *)
LEMMA NoRequestType == NoRequest \in Request
<1> DEFINE n == CHOOSE n \in Models : TRUE
<1>1. n \in Models OBVIOUS
<1> QED BY <1>1 DEF NoRequest, Request

(* A request that goes on remains a request.                               *)
LEMMA GotoType ==
  ASSUME req \in [Requests -> Request], NEW r \in Requests,
         NEW l \in {"idle", "unload", "limit", "evict", "evicting", "load", "loading"},
         Goto(r, l)
  PROVE  req' \in [Requests -> Request]
BY NoRequestType DEF Goto, Request

(* A notification leaves every stopping thread within its managing thread. *)
LEMMA NotifyType ==
  ASSUME TypeOK
  PROVE  /\ NotifyStop(stp) \in [Models -> {"none", "wait", "blocked", "check", "timed", "done"}]
         /\ \A n \in Models : NotifyStop(stp)[n] = "none" <=> stp[n] = "none"
BY DEF TypeOK, NotifyStop

(* The active models are finitely many.                                    *)
LEMMA ActiveFinite == IsFiniteSet(Active)
BY FS_Subset DEF Active

-----------------------------------------------------------------------------
(* What the child does.                                                    *)
LEMMA ChildStep ==
  ASSUME IInv, NEW n \in Models, Child(n)
  PROVE  IInv'
<1> USE DEF IInv, TypeOK, Managed, LoadedSaidReady, ActiveWithinLimit, Active, IsRunning, Running
<1>0. UNCHANGED <<status, stopping, mgr, stp, req, calls, down, groupKilled>>
  BY DEF Child, threads
<1>w. ASSUME NEW line \in {"loaded", "sleeping"}, Write(n, line), Room(n)
      PROVE  /\ pipe' \in [Models -> Seq({"loaded", "sleeping"})]
             /\ \A m \in Models : Len(pipe'[m]) <= MaxPipe
             /\ \A m \in Models \ {n} : pipe'[m] = pipe[m]
  <2>1. /\ Append(pipe[n], line) \in Seq({"loaded", "sleeping"})
        /\ Len(Append(pipe[n], line)) = Len(pipe[n]) + 1
    OBVIOUS
  <2>2. pipe' = [pipe EXCEPT ![n] = Append(pipe[n], line)]
    BY <1>w DEF Write
  <2> QED BY <1>w, <2>1, <2>2 DEF Room
<1>1. CASE Ready(n)
  <2>1. Room(n) /\ Write(n, "loaded") /\ proc[n] = "starting"
        /\ proc' = [proc EXCEPT ![n] = "ready"]
    BY <1>1 DEF Ready
  <2> QED BY <1>0, <1>w, <2>1
<1>2. CASE Nap(n)
  <2>1. PICK line \in {"loaded", "sleeping"} :
          /\ Room(n) /\ Write(n, line) /\ proc[n] \in {"ready", "asleep"}
          /\ proc' = [proc EXCEPT ![n] = IF line = "loaded" THEN "ready" ELSE "asleep"]
    BY <1>2 DEF Nap
  <2> QED BY <1>0, <1>w, <2>1
<1>3. CASE Exit(n)
  BY <1>0, <1>3 DEF Exit
<1>4. CASE Zombie(n)
  BY <1>0, <1>4 DEF Zombie
<1> QED BY <1>1, <1>2, <1>3, <1>4 DEF Child

(* What the log and managing threads do.                                   *)
LEMMA ManageStep ==
  ASSUME IInv, NEW n \in Models, Manage(n)
  PROVE  IInv'
<1> USE DEF IInv, TypeOK, Managed, LoadedSaidReady, ActiveWithinLimit
<1>0. UNCHANGED <<req, calls, down>>
  BY DEF Manage
<1>1. CASE ReadLine(n)
  <2>1. Active' = Active
    BY <1>1 DEF ReadLine, Active, IsRunning, Running
  <2>2. /\ Head(pipe[n]) \in {"loaded", "sleeping"}
        /\ Tail(pipe[n]) \in Seq({"loaded", "sleeping"})
        /\ Len(Tail(pipe[n])) <= MaxPipe
    BY <1>1 DEF ReadLine
  <2> QED BY <1>0, <1>1, <2>1, <2>2 DEF ReadLine, threads, Running
<1>2. CASE ReadEof(n)
  <2>1. Active' = Active
    BY <1>2 DEF ReadEof, Active, IsRunning
  <2> QED BY <1>0, <1>2, <2>1 DEF ReadEof, Ended, child
<1>3. CASE Erase(n)
  <2>1. Active' = Active
    BY <1>3 DEF Erase, Active, IsRunning
  <2> QED BY <1>0, <1>3, <2>1, NotifyType DEF Erase, child
<1>4. CASE Reap(n)
  <2>1. Active' = Active
    BY <1>4 DEF Reap, Active, IsRunning
  <2> QED BY <1>0, <1>4, <2>1 DEF Reap, Alive
<1>5. CASE Unloaded(n)
  <2>1. Active' \subseteq Active
    BY <1>5 DEF Unloaded, Active, IsRunning, Running
  <2>2. Cardinality(Active') <= Cardinality(Active)
    BY <2>1, ActiveFinite, FS_Subset
  <2>3. Cardinality(Active) \in Nat /\ Cardinality(Active') \in Nat
    BY <2>1, ActiveFinite, FS_Subset, FS_CardinalityType
  <2> QED BY <1>0, <1>5, <2>2, <2>3 DEF Unloaded
<1> QED BY <1>1, <1>2, <1>3, <1>4, <1>5 DEF Manage

(* What the stopping thread does.                                          *)
LEMMA StopStep ==
  ASSUME IInv, NEW n \in Models, Stop(n)
  PROVE  IInv'
<1> USE DEF IInv, TypeOK, Managed, LoadedSaidReady, ActiveWithinLimit
<1>0. UNCHANGED <<status, mgr, pipe, stopping, req, calls, down>>
  BY DEF Stop, StopWait, StopSend, StopEnd, StopTimeout, Terminate, child
<1>a. Active' = Active
  BY <1>0 DEF Active, IsRunning
<1>1. CASE StopWait(n)
  <2>1. /\ stp' \in [Models -> {"none", "wait", "blocked", "check", "timed", "done"}]
        /\ \A m \in Models : stp'[m] # "none" => stp[m] # "none"
        /\ groupKilled' = groupKilled
    <3>1. PICK x \in {"check", "blocked"} : stp' = [stp EXCEPT ![n] = x]
      BY <1>1 DEF StopWait
    <3> QED BY <1>1, <3>1 DEF StopWait
  <2>2. /\ proc' \in [Models -> {"none", "starting", "ready", "asleep", "closed", "dead"}]
        /\ \A m \in Models : proc'[m] = proc[m] \/ proc'[m] = "none"
    <3>1. CASE UNCHANGED proc
      BY <3>1
    <3>2. CASE CheckAlive(n)
      BY <3>2 DEF CheckAlive
    <3> QED BY <1>1, <3>1, <3>2 DEF StopWait
  <2> QED BY <1>0, <1>a, <2>1, <2>2
<1>2. CASE StopSend(n)
  BY <1>0, <1>a, <1>2 DEF StopSend, CheckAlive
<1>3. CASE StopEnd(n)
  BY <1>0, <1>a, <1>3 DEF StopEnd, child
<1>4. CASE StopTimeout(n)
  BY <1>0, <1>a, <1>4 DEF StopTimeout, Terminate
<1> QED BY <1>1, <1>2, <1>3, <1>4 DEF Stop

(* unload(), called by a request.                                          *)
LEMMA UnloadStep ==
  ASSUME IInv, NEW r \in Requests, NEW n \in Models,
         NEW l \in {"idle", "evicting"}, Unload(r, n, l)
  PROVE  IInv'
<1> USE DEF IInv, TypeOK, Managed, LoadedSaidReady, ActiveWithinLimit
<1>0. UNCHANGED <<status, mgr, pipe, calls, down>>
  BY DEF Unload, Terminate, child
<1>a. Active' = Active
  BY <1>0 DEF Active, IsRunning
<1>b. req' \in [Requests -> Request]
  BY GotoType DEF Unload
<1>1. CASE UNCHANGED <<stopping, stp, child, groupKilled>>
  BY <1>0, <1>a, <1>b, <1>1 DEF child
<1>2. CASE /\ stopping' = stopping \cup {n}
           /\ stp' = NotifyStop(stp)
           /\ Terminate(n) \/ UNCHANGED <<child, groupKilled>>
  <2>1. /\ stopping' \subseteq Models
        /\ stp' \in [Models -> {"none", "wait", "blocked", "check", "timed", "done"}]
        /\ \A m \in Models : stp'[m] # "none" => mgr'[m] \in {"log", "erase", "join"}
    BY <1>0, <1>2, NotifyType
  <2>2. /\ proc' \in [Models -> {"none", "starting", "ready", "asleep", "closed", "dead"}]
        /\ \A m \in Models : proc'[m] = proc[m] \/ (proc[m] # "none" /\ proc'[m] = "closed")
    <3>1. CASE Terminate(n)
      BY <3>1 DEF Terminate
    <3>2. CASE UNCHANGED child
      BY <3>2 DEF child
    <3> QED BY <1>2, <3>1, <3>2
  <2>3. groupKilled' \in BOOLEAN
    BY <1>2 DEF Terminate
  <2> QED BY <1>0, <1>a, <1>b, <2>1, <2>2, <2>3
<1> QED BY <1>1, <1>2 DEF Unload

(* load() creates a child: the one place where a model becomes active, and *)
(* it has just checked that there is room.                                 *)
LEMMA SpawnStep ==
  ASSUME IInv, NEW r \in Requests, Spawn(r)
  PROVE  IInv'
<1> USE DEF IInv, TypeOK, Managed, LoadedSaidReady
<1> DEFINE n == req[r].model
<1>0. n \in Models
  BY DEF Request
<1>1. req' \in [Requests -> Request]
  BY GotoType DEF Spawn, LoadEnd
<1>2. status[n] = "unloaded" /\ mgr[n] = "none" /\ proc[n] = "none" /\ pipe[n] = <<>>
  BY <1>0 DEF Spawn, IsRunning, Running
<1>3. /\ TypeOK'
      /\ Managed'
      /\ LoadedSaidReady'
  BY <1>0, <1>1, <1>2 DEF Spawn, Running
<1>4. ActiveWithinLimit'
  <2>1. Active' = Active \cup {n}
    BY <1>0 DEF Spawn, Active, IsRunning, Running
  <2>2. Cardinality(Active) \in Nat /\ n \notin Active
    BY <1>2, ActiveFinite, FS_CardinalityType DEF Active, IsRunning, Running
  <2>3. Cardinality(Active \cup {n}) = Cardinality(Active) + 1
    BY <2>2, ActiveFinite, FS_AddElement
  <2>4. ModelsMax > 0 => Cardinality(Active) < ModelsMax
    BY <2>2 DEF Spawn, Limited, Full
  <2> QED BY <2>1, <2>2, <2>3, <2>4 DEF ActiveWithinLimit
<1> QED BY <1>3, <1>4

(* What a request does.                                                    *)
LEMMA ServeStep ==
  ASSUME IInv, NEW r \in Requests, Serve(r)
  PROVE  IInv'
<1>a. req[r].model \in Models /\ req[r].victim \in Models
  BY DEF IInv, TypeOK, Request
<1>b. ASSUME UNCHANGED <<status, stopping, child, threads, calls, down, groupKilled>>,
             req' \in [Requests -> Request]
      PROVE  IInv'
  BY <1>b DEF IInv, TypeOK, Managed, LoadedSaidReady, ActiveWithinLimit, Active, IsRunning,
              child, threads
<1>1. CASE UnloadModel(r)
  BY <1>1, <1>a, UnloadStep DEF UnloadModel
<1>2. CASE ChooseLru(r)
  <2>1. req' \in [Requests -> Request]
    <3>1. CASE Goto(r, "load")
      BY <3>1, GotoType DEF IInv, TypeOK
    <3>2. ASSUME NEW v \in Models,
                 req' = [req EXCEPT ![r] = [@ EXCEPT !.pc = "evict", !.victim = v]]
          PROVE  req' \in [Requests -> Request]
      <4>1. ASSUME NEW q \in Request PROVE [q EXCEPT !.pc = "evict", !.victim = v] \in Request
        BY DEF Request
      <4> QED BY <3>2, <4>1 DEF IInv, TypeOK
    <3> QED BY <1>2, <3>1, <3>2 DEF ChooseLru, Active
  <2> QED BY <1>2, <1>b, <2>1 DEF ChooseLru
<1>3. CASE Evict(r)
  BY <1>3, <1>a, UnloadStep DEF Evict
<1>4. CASE Evicted(r)
  BY <1>4, <1>b, GotoType DEF Evicted, IInv, TypeOK
<1>5. CASE LoadBusy(r)
  BY <1>5, <1>b, GotoType DEF LoadBusy, LoadEnd, IInv, TypeOK
<1>6. CASE LoadFail(r)
  BY <1>6, <1>b, GotoType DEF LoadFail, IInv, TypeOK
<1>7. CASE Spawn(r)
  BY <1>7, SpawnStep
<1>8. CASE Loaded(r)
  BY <1>8, <1>b, GotoType DEF Loaded, IInv, TypeOK
<1> QED BY <1>1, <1>2, <1>3, <1>4, <1>5, <1>6, <1>7, <1>8 DEF Serve

-----------------------------------------------------------------------------
(* Initially nothing runs.                                                 *)
LEMMA InitOK == Init => IInv
<1> SUFFICES ASSUME Init PROVE IInv OBVIOUS
<1>1. TypeOK
  <2>1. <<>> \in Seq({"loaded", "sleeping"}) /\ Len(<<>>) = 0
    OBVIOUS
  <2>2. /\ pipe \in [Models -> Seq({"loaded", "sleeping"})]
        /\ \A n \in Models : Len(pipe[n]) <= MaxPipe
    BY <2>1 DEF Init
  <2>3. req \in [Requests -> Request]
    BY NoRequestType DEF Init
  <2>4. /\ status \in [Models -> Running \cup {"unloaded"}] /\ stopping \subseteq Models
        /\ proc \in [Models -> {"none", "starting", "ready", "asleep", "closed", "dead"}]
        /\ mgr \in [Models -> {"none", "log", "erase", "join", "status"}]
        /\ stp \in [Models -> {"none", "wait", "blocked", "check", "timed", "done"}]
        /\ \A n \in Models : stp[n] = "none"
    BY DEF Init
  <2>5. calls \in 0 .. MaxCalls
    BY DEF Init
  <2>6. down \in {"up", "joining", "down"} /\ groupKilled \in BOOLEAN
    BY DEF Init
  <2> QED BY <2>2, <2>3, <2>4, <2>5, <2>6 DEF TypeOK
<1>2. Managed /\ LoadedSaidReady
  BY DEF Init, Managed, LoadedSaidReady
<1>3. Active = {}
  BY DEF Init, Active, IsRunning, Running
<1> QED BY <1>1, <1>2, <1>3, FS_EmptySet DEF IInv, ActiveWithinLimit

(* Every step keeps the invariant.                                         *)
LEMMA NextOK == IInv /\ [Next]_vars => IInv'
<1> SUFFICES ASSUME IInv, [Next]_vars PROVE IInv' OBVIOUS
<1>1. ASSUME NEW n \in Models, Child(n) \/ Manage(n) \/ Stop(n) PROVE IInv'
  BY <1>1, ChildStep, ManageStep, StopStep
<1>2. ASSUME NEW r \in Requests, Serve(r) PROVE IInv'
  BY <1>2, ServeStep
<1>3. ASSUME NEW r \in Requests, NEW k \in {"answer", "load", "unload"}, NEW n \in Models,
             Arrive(r, k, n)
      PROVE  IInv'
  <2>1. req' \in [Requests -> Request]
    <3>1. PICK l \in {"limit", "loading", "unload"} :
            req' = [req EXCEPT ![r] = [pc |-> l, kind |-> k, model |-> n, victim |-> n]]
      BY <1>3 DEF Arrive
    <3>2. [pc |-> l, kind |-> k, model |-> n, victim |-> n] \in Request
      BY DEF Request
    <3> QED BY <3>1, <3>2 DEF IInv, TypeOK
  <2>2. calls' \in 0 .. MaxCalls
    BY <1>3 DEF Arrive, IInv, TypeOK
  <2> QED BY <1>3, <2>1, <2>2 DEF Arrive, child, threads, IInv, TypeOK, Managed,
       LoadedSaidReady, ActiveWithinLimit, Active, IsRunning
<1>4. CASE UnloadAll
  <2>1. Active' = Active /\ Active \subseteq Models
    BY <1>4 DEF UnloadAll, Active, IsRunning
  <2> QED BY <1>4, <2>1, NotifyType DEF UnloadAll, child, IInv, TypeOK, Managed, LoadedSaidReady,
       ActiveWithinLimit
<1>5. CASE JoinAll
  BY <1>5 DEF JoinAll, child, threads, IInv, TypeOK, Managed, LoadedSaidReady,
       ActiveWithinLimit, Active, IsRunning
<1>6. CASE UNCHANGED vars
  BY <1>6 DEF vars, child, threads, IInv, TypeOK, Managed, LoadedSaidReady,
       ActiveWithinLimit, Active, IsRunning
<1> QED BY <1>1, <1>2, <1>3, <1>4, <1>5, <1>6 DEF Next

(* The invariant holds in every state.                                     *)
THEOREM Invariant == Spec => []IInv
BY InitOK, NextOK, PTL DEF Spec

-----------------------------------------------------------------------------
(* Every variable keeps its type, and a stopping thread never outlives its *)
(* managing thread.                                                        *)
THEOREM TypeCorrect == Spec => []TypeOK
BY Invariant, PTL DEF IInv

(* An unloaded model has no process and no threads.                        *)
THEOREM UnloadedGone == Spec => []UnloadedIsGone
<1>1. IInv => UnloadedIsGone
  BY DEF IInv, TypeOK, Managed, UnloadedIsGone
<1> QED BY <1>1, Invariant, PTL

(* A model is not reported loaded before its own child has said so.        *)
THEOREM SaidReady == Spec => []LoadedSaidReady
BY Invariant, PTL DEF IInv

(* There are never more children than models_max.                          *)
THEOREM Limit == Spec => []LiveWithinLimit
<1>1. IInv => LiveWithinLimit
  <2> SUFFICES ASSUME IInv, ModelsMax > 0
               PROVE  Cardinality({n \in Models : Alive(n)}) <= ModelsMax
    BY DEF LiveWithinLimit
  <2>1. {n \in Models : Alive(n)} \subseteq Active
    <3> SUFFICES ASSUME NEW n \in Models, Alive(n) PROVE IsRunning(n)
      BY DEF Active
    <3>1. status[n] # "unloaded"
      BY DEF IInv, Managed, Alive
    <3> QED BY <3>1 DEF IInv, TypeOK, IsRunning
  <2>2. /\ Cardinality({n \in Models : Alive(n)}) <= Cardinality(Active)
        /\ Cardinality({n \in Models : Alive(n)}) \in Nat /\ Cardinality(Active) \in Nat
    BY <2>1, ActiveFinite, FS_Subset, FS_CardinalityType
  <2> QED BY <2>2 DEF IInv, ActiveWithinLimit
<1> QED BY <1>1, Invariant, PTL
=============================================================================
