------------------------------- MODULE Router -------------------------------
(***************************************************************************)
(* The router of the server (struct server_models,                         *)
(* src/tools/server/server-models.cpp): every model runs in a child        *)
(* process, looked after by three threads of the router - one forwards the *)
(* child's output and notes its status lines, one waits for a request to   *)
(* stop the child, the managing one joins both and waits for the process.  *)
(* Requests load models, evict others when there are too many, and unload. *)
(*                                                                         *)
(* A step is a critical section of the mutex, or one call that acts on a   *)
(* child.  cv is notified whenever a status changes, so a wait on it is a  *)
(* guard; the wait on cv_stop is explicit, for nobody notifies it when a   *)
(* child exits.  The set of models is fixed (no reload).                   *)
(***************************************************************************)
EXTENDS Integers, Sequences, FiniteSets

CONSTANTS Models, Requests,
          ModelsMax,  \* models_max; 0: no limit
          MaxPipe,    \* bound: lines a child has written that nobody has read
          MaxCalls    \* bound: requests

ASSUME ModelsAssumption == Models # {} /\ IsFiniteSet(Models)
ASSUME ModelsMaxAssumption == ModelsMax \in Nat
ASSUME BoundsAssumption == MaxPipe \in Nat \ {0} /\ MaxCalls \in Nat

VARIABLES
  status,     \* mapping[name].meta.status
  stopping,   \* stopping_models
  proc,       \* the child process; "none": none to wait for (child = 0)
  pipe,       \* status lines in its stdout, not yet read
  mgr,        \* its managing thread, with the log thread it joins first
  stp,        \* its stopping thread
  req,        \* the requests
  calls,      \* requests so far
  down,       \* the router: "up", "joining" (in unload_all) or "down"
  groupKilled \* kill(0, 9): the router has killed its process group

child == <<proc, pipe>>
threads == <<mgr, stp>>
vars == <<status, stopping, child, threads, req, calls, down, groupKilled>>

Running == {"loading", "loaded", "sleeping"}
IsRunning(n) == status[n] \in Running
Active == {n \in Models : IsRunning(n)}
Alive(n) == proc[n] \notin {"none", "dead"}
Full == ModelsMax > 0 /\ Cardinality(Active) >= ModelsMax
NoRequest == LET n == CHOOSE n \in Models : TRUE
             IN [pc |-> "idle", kind |-> "unload", model |-> n, victim |-> n]

Init ==
  /\ status = [n \in Models |-> "unloaded"]
  /\ stopping = {}
  /\ proc = [n \in Models |-> "none"]
  /\ pipe = [n \in Models |-> <<>>]
  /\ mgr = [n \in Models |-> "none"] /\ stp = [n \in Models |-> "none"]
  /\ req = [r \in Requests |-> NoRequest]
  /\ calls = 0 /\ down = "up" /\ groupKilled = FALSE

-----------------------------------------------------------------------------
(* The child processes.                                                    *)

Write(n, line) == pipe' = [pipe EXCEPT ![n] = Append(@, line)]
Room(n) == Len(pipe[n]) < MaxPipe

(* The model is loaded (setup_child_server).                               *)
Ready(n) ==
  /\ proc[n] = "starting" /\ Room(n)
  /\ proc' = [proc EXCEPT ![n] = "ready"]
  /\ Write(n, "loaded")

(* The child unloads its model when it is idle, and loads it again         *)
(* (notify_router_sleeping_state).                                         *)
Nap(n) ==
  /\ Room(n)
  /\ \/ /\ proc[n] = "ready"
        /\ proc' = [proc EXCEPT ![n] = "asleep"]
        /\ Write(n, "sleeping")
     \/ /\ proc[n] = "asleep"
        /\ proc' = [proc EXCEPT ![n] = "ready"]
        /\ Write(n, "loaded")

(* It obeys an exit command, or exits by itself: a failure while loading,  *)
(* a crash, somebody else's signal.                                        *)
Exit(n) ==
  /\ proc[n] \in {"starting", "ready", "asleep"}
  /\ proc' = [proc EXCEPT ![n] = "closed"]
  /\ UNCHANGED pipe

(* Its pipes are closed; now waitpid() will find it.                       *)
Zombie(n) ==
  /\ proc[n] = "closed"
  /\ proc' = [proc EXCEPT ![n] = "dead"]
  /\ UNCHANGED pipe

Child(n) ==
  /\ ~groupKilled
  /\ Ready(n) \/ Nap(n) \/ Exit(n) \/ Zombie(n)
  /\ UNCHANGED <<status, stopping, threads, req, calls, down, groupKilled>>

Reapable(n) == Child(n) /\ Zombie(n)

(* subprocess_terminate(): the signal goes to the process group of the     *)
(* router when the child has been waited for.                              *)
Terminate(n) ==
  /\ proc' = [proc EXCEPT ![n] = IF @ \in {"starting", "ready", "asleep"} THEN "closed" ELSE @]
  /\ groupKilled' = (proc[n] = "none")
  /\ UNCHANGED pipe

(* subprocess_alive() waits for a child that is dead.                      *)
CheckAlive(n) == proc' = [proc EXCEPT ![n] = IF @ = "dead" THEN "none" ELSE @]

-----------------------------------------------------------------------------
(* The threads of a model.                                                 *)

Stopping(n) == n \in stopping

(* cv_stop.notify_all(), which wakes the stopping threads of all models.   *)
(* Mutant: nobody is notified.                                             *)
NotifyStop_not(s) == s

NotifyStop(s) == [n \in Models |-> IF s[n] = "blocked" THEN "wait" ELSE s[n]]

(* The log thread notes a status line.                                     *)
ReadLine(n) ==
  /\ mgr[n] = "log" /\ pipe[n] # <<>>
  /\ pipe' = [pipe EXCEPT ![n] = Tail(@)]
  /\ status' = [status EXCEPT ![n] = Head(pipe[n])]
  /\ UNCHANGED <<proc, threads, stopping, groupKilled>>

(* The end of the output, which may be read before waitpid() finds the     *)
(* child: a process closes its files before it is a zombie.                *)
Ended(n) == proc[n] \in {"closed", "dead", "none"}

(* Mutant: at the end of the child's life, its last lines are not read.    *)
ReadEof_early(n) ==
  /\ mgr[n] = "log" /\ Ended(n)
  /\ mgr' = [mgr EXCEPT ![n] = "erase"]
  /\ UNCHANGED <<child, status, stp, stopping, groupKilled>>

ReadEof(n) ==
  /\ mgr[n] = "log" /\ pipe[n] = <<>> /\ Ended(n)
  /\ mgr' = [mgr EXCEPT ![n] = "erase"]
  /\ UNCHANGED <<child, status, stp, stopping, groupKilled>>

(* The managing thread, after the log thread: stop the stopping thread,    *)
Erase(n) ==
  /\ mgr[n] = "erase"
  /\ mgr' = [mgr EXCEPT ![n] = "join"]
  /\ stopping' = stopping \ {n}
  /\ stp' = NotifyStop(stp)
  /\ UNCHANGED <<child, status, groupKilled>>

(* join it and wait for the child,                                         *)
(* Mutant: the child is not waited for.                                    *)
Reap_not(n) ==
  /\ mgr[n] = "join" /\ stp[n] = "done"
  /\ mgr' = [mgr EXCEPT ![n] = "status"]
  /\ stp' = [stp EXCEPT ![n] = "none"]
  /\ UNCHANGED <<child, status, stopping, groupKilled>>

(* Mutant: the stopping thread is not joined.                              *)
Reap_unjoined(n) ==
  /\ mgr[n] = "join" /\ ~Alive(n)
  /\ mgr' = [mgr EXCEPT ![n] = "status"]
  /\ proc' = [proc EXCEPT ![n] = "none"]
  /\ UNCHANGED <<pipe, stp, status, stopping, groupKilled>>

Reap(n) ==
  /\ mgr[n] = "join" /\ stp[n] = "done" /\ ~Alive(n)
  /\ mgr' = [mgr EXCEPT ![n] = "status"]
  /\ stp' = [stp EXCEPT ![n] = "none"]
  /\ proc' = [proc EXCEPT ![n] = "none"]
  /\ UNCHANGED <<pipe, status, stopping, groupKilled>>

(* and note that the model is unloaded.                                    *)
Unloaded(n) ==
  /\ mgr[n] = "status"
  /\ mgr' = [mgr EXCEPT ![n] = "none"]
  /\ status' = [status EXCEPT ![n] = "unloaded"]
  /\ UNCHANGED <<proc, pipe, stp, stopping, groupKilled>>

(* The stopping thread: the wait on cv_stop,                               *)
StopWait(n) ==
  /\ stp[n] = "wait"
  /\ IF Stopping(n)
       THEN stp' = [stp EXCEPT ![n] = "check"] /\ UNCHANGED proc
       ELSE /\ CheckAlive(n)
            /\ stp' = [stp EXCEPT ![n] = IF Alive(n) THEN "blocked" ELSE "check"]
  /\ UNCHANGED <<pipe, status, mgr, stopping, groupKilled>>

(* the exit command if the child is alive,                                 *)
StopSend(n) ==
  /\ stp[n] = "check"
  /\ CheckAlive(n)
  /\ stp' = [stp EXCEPT ![n] = IF Alive(n) THEN "timed" ELSE "done"]
  /\ UNCHANGED <<pipe, status, mgr, stopping, groupKilled>>

(* which it may obey at any time (Exit); and the end: the managing thread  *)
(* came first, or the time is up.                                          *)
StopEnd(n) ==
  /\ stp[n] = "timed" /\ ~Stopping(n)
  /\ stp' = [stp EXCEPT ![n] = "done"]
  /\ UNCHANGED <<child, status, mgr, stopping, groupKilled>>

(* Mutant: the thread gives up without killing the child.                  *)
StopTimeout_mild(n) ==
  /\ stp[n] = "timed" /\ Stopping(n)
  /\ stp' = [stp EXCEPT ![n] = "done"]
  /\ UNCHANGED <<child, status, mgr, stopping, groupKilled>>

StopTimeout(n) ==
  /\ stp[n] = "timed" /\ Stopping(n)
  /\ Terminate(n)
  /\ stp' = [stp EXCEPT ![n] = "done"]
  /\ UNCHANGED <<status, mgr, stopping>>

Manage(n) ==
  /\ ~groupKilled
  /\ ReadLine(n) \/ ReadEof(n) \/ Erase(n) \/ Reap(n) \/ Unloaded(n)
  /\ UNCHANGED <<req, calls, down>>

Stop(n) ==
  /\ ~groupKilled
  /\ StopWait(n) \/ StopSend(n) \/ StopEnd(n) \/ StopTimeout(n)
  /\ UNCHANGED <<req, calls, down>>

-----------------------------------------------------------------------------
(* The requests.                                                           *)

Goto(r, l) == req' = [req EXCEPT ![r] = IF l = "idle" THEN NoRequest ELSE [@ EXCEPT !.pc = l]]

(* A request for model n: one for an answer of the model (proxy_post or    *)
(* proxy_get, through ensure_model_ready), to load it or to unload it.     *)
(* One that is answered at once changes nothing and is left out.           *)
Arrive(r, k, n) ==
  /\ ~groupKilled /\ down = "up" /\ calls < MaxCalls /\ req[r].pc = "idle"
  /\ calls' = calls + 1
  /\ \/ /\ k # "unload" /\ ~IsRunning(n)
        /\ req' = [req EXCEPT ![r] = [pc |-> "limit", kind |-> k, model |-> n, victim |-> n]]
     \/ /\ k = "answer" /\ status[n] = "loading"
        /\ req' = [req EXCEPT ![r] = [pc |-> "loading", kind |-> k, model |-> n, victim |-> n]]
     \/ /\ k = "unload" /\ IsRunning(n)
        /\ req' = [req EXCEPT ![r] = [pc |-> "unload", kind |-> k, model |-> n, victim |-> n]]
  /\ UNCHANGED <<status, stopping, child, threads, down, groupKilled>>

(* unload(n), by a request that goes on to l.                              *)
Unload(r, n, l) ==
  /\ IF IsRunning(n)
       THEN /\ stopping' = stopping \cup {n}
            /\ stp' = NotifyStop(stp)
            /\ IF status[n] = "loading" THEN Terminate(n) ELSE UNCHANGED <<child, groupKilled>>
       ELSE UNCHANGED <<stopping, stp, child, groupKilled>>
  /\ Goto(r, l)
  /\ UNCHANGED <<status, mgr, calls, down>>

UnloadModel(r) == req[r].pc = "unload" /\ Unload(r, req[r].model, "idle")

(* unload_lru(): choose a running model, the time of its last use left to  *)
(* chance - all may have been used this very millisecond, then it is none; *)
ChooseLru(r) ==
  /\ req[r].pc = "limit"
  /\ \/ Goto(r, "load")
     \/ /\ Full
        /\ \E v \in Active : req' = [req EXCEPT ![r] = [@ EXCEPT !.pc = "evict", !.victim = v]]
  /\ UNCHANGED <<status, stopping, child, threads, calls, down, groupKilled>>

(* unload it and wait.                                                     *)
Evict(r) == req[r].pc = "evict" /\ Unload(r, req[r].victim, "evicting")

Evicted(r) ==
  /\ req[r].pc = "evicting" /\ status[req[r].victim] = "unloaded"
  /\ Goto(r, "load")
  /\ UNCHANGED <<status, stopping, child, threads, calls, down, groupKilled>>

(* Is there room for one more, now that the mutex is held?                 *)
(* Mutant: no second look.                                                 *)
Limited_not == FALSE

Limited == Full

LoadEnd(r) == IF req[r].kind = "answer" THEN "loading" ELSE "idle"

(* load() finds the model loaded, or loading, by another request;          *)
LoadBusy(r) ==
  /\ req[r].pc = "load" /\ IsRunning(req[r].model)
  /\ Goto(r, LoadEnd(r))
  /\ UNCHANGED <<status, stopping, child, threads, calls, down, groupKilled>>

(* there are too many, or no child can be created;                         *)
LoadFail(r) ==
  /\ req[r].pc = "load" /\ ~IsRunning(req[r].model)
  /\ Goto(r, "idle")
  /\ UNCHANGED <<status, stopping, child, threads, calls, down, groupKilled>>

(* or the child is created, with its threads.                              *)
Spawn(r) ==
  LET n == req[r].model
  IN /\ req[r].pc = "load" /\ ~IsRunning(n) /\ ~Limited
     /\ status' = [status EXCEPT ![n] = "loading"]
     /\ proc' = [proc EXCEPT ![n] = "starting"]
     /\ mgr' = [mgr EXCEPT ![n] = "log"]
     /\ stp' = [stp EXCEPT ![n] = "wait"]
     /\ Goto(r, LoadEnd(r))
     /\ UNCHANGED <<pipe, stopping, calls, down, groupKilled>>

(* wait_until_loading_finished(); then the request gets an error, or       *)
(* whatever the child answers.                                             *)
Loaded(r) ==
  /\ req[r].pc = "loading" /\ status[req[r].model] # "loading"
  /\ Goto(r, "idle")
  /\ UNCHANGED <<status, stopping, child, threads, calls, down, groupKilled>>

Serve(r) ==
  /\ ~groupKilled
  /\ \/ UnloadModel(r) \/ ChooseLru(r) \/ Evict(r) \/ Evicted(r)
     \/ LoadBusy(r) \/ LoadFail(r) \/ Spawn(r) \/ Loaded(r)

-----------------------------------------------------------------------------
(* The end of the router: the HTTP server has stopped, unload_all().       *)
UnloadAll ==
  /\ ~groupKilled /\ down = "up" /\ \A r \in Requests : req[r].pc = "idle"
  /\ down' = "joining"
  /\ stopping' = stopping \cup Active
  /\ stp' = IF Active = {} THEN stp ELSE NotifyStop(stp)
  /\ UNCHANGED <<status, child, mgr, req, calls, groupKilled>>

JoinAll ==
  /\ ~groupKilled /\ down = "joining" /\ \A n \in Models : mgr[n] = "none"
  /\ down' = "down"
  /\ UNCHANGED <<status, stopping, child, threads, req, calls, groupKilled>>

-----------------------------------------------------------------------------
Next ==
  \/ \E n \in Models : Child(n) \/ Manage(n) \/ Stop(n)
  \/ \E r \in Requests : Serve(r)
  \/ \E r \in Requests, k \in {"answer", "load", "unload"}, n \in Models : Arrive(r, k, n)
  \/ UnloadAll \/ JoinAll

(* The threads run, time passes, a process that has closed its files goes  *)
(* away.  No child has to become ready, to obey or to exit by itself, and  *)
(* nobody has to send a request.                                           *)
Fairness ==
  /\ \A n \in Models : WF_vars(Manage(n)) /\ WF_vars(Stop(n)) /\ WF_vars(Reapable(n))
  /\ \A r \in Requests : WF_vars(Serve(r))
  /\ WF_vars(JoinAll)

Spec == Init /\ [][Next]_vars /\ Fairness

-----------------------------------------------------------------------------
(* Properties.                                                             *)

Request == [pc : {"idle", "unload", "limit", "evict", "evicting", "load", "loading"},
            kind : {"answer", "load", "unload"}, model : Models, victim : Models]

(* Every variable holds a value of its type; a stopping thread, which uses *)
(* variables of its managing thread by reference, lives within it.         *)
TypeOK ==
  /\ status \in [Models -> Running \cup {"unloaded"}]
  /\ stopping \subseteq Models
  /\ proc \in [Models -> {"none", "starting", "ready", "asleep", "closed", "dead"}]
  /\ pipe \in [Models -> Seq({"loaded", "sleeping"})]
  /\ \A n \in Models : Len(pipe[n]) <= MaxPipe
  /\ mgr \in [Models -> {"none", "log", "erase", "join", "status"}]
  /\ stp \in [Models -> {"none", "wait", "blocked", "check", "timed", "done"}]
  /\ \A n \in Models : stp[n] # "none" => mgr[n] \in {"log", "erase", "join"}
  /\ req \in [Requests -> Request]
  /\ calls \in 0 .. MaxCalls /\ down \in {"up", "joining", "down"} /\ groupKilled \in BOOLEAN

(* At no time do more than models_max child processes exist, whichever     *)
(* requests load, evict and unload at once (server-models.cpp, "Re-check   *)
(* capacity under the lock").                                              *)
LiveWithinLimit ==
  ModelsMax > 0 => Cardinality({n \in Models : Alive(n)}) <= ModelsMax

(* A model that is unloaded has no process, nor threads: load() may replace*)
(* its instance and start a new one.                                       *)
UnloadedIsGone ==
  \A n \in Models : status[n] = "unloaded" => proc[n] = "none" /\ mgr[n] = "none" /\ stp[n] = "none"

(* A model is not reported loaded before its own child has said so: no     *)
(* line of the previous instance is read when a new one has begun.         *)
LoadedSaidReady ==
  \A n \in Models : proc[n] = "starting" => status[n] = "loading" /\ pipe[n] = <<>>

(* The stopping thread sleeps and the managing thread waits for it: nobody *)
(* is left to wake it when its child is gone, but a request to stop.       *)
Missed(n) == stp[n] = "blocked" /\ mgr[n] = "join"

(* Whatever is told to stop stops, whatever the children do - unless the  *)
(* router kills itself, or a stopping thread has missed its last call: a   *)
(* model asked to is unloaded in the end, and the router has joined all    *)
(* its threads.                                                            *)
StopCompletes ==
  /\ \A n \in Models : Stopping(n) ~> status[n] = "unloaded" \/ Missed(n) \/ groupKilled
  /\ down = "joining" ~> down = "down" \/ (\E n \in Models : Missed(n)) \/ groupKilled

(* A child that is gone is noticed and its model unloaded, unless its      *)
(* stopping thread has looked for it too early, after the one call to wake *)
(* up (server-models.cpp:864-871).                                         *)
ExitNoticed ==
  \A n \in Models : proc[n] = "dead" /\ ~Missed(n) ~> status[n] = "unloaded" \/ groupKilled

(* Every child that is gone is noticed ("thread to monitor stopping signal *)
(* OR child crash", server-models.cpp:820).                                *)
EveryExitNoticed ==
  \A n \in Models : proc[n] = "dead" ~> status[n] = "unloaded" \/ groupKilled

(* A model that is loading is killed, and nothing but this model.          *)
OwnChildOnly == ~groupKilled
=============================================================================
