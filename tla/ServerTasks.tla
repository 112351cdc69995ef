---------------------------- MODULE ServerTasks ----------------------------
(***************************************************************************)
(* The task queue of the HTTP server and what runs on either side of it:   *)
(* server_queue, server_response and server_response_reader                *)
(* (tools/server/server-queue.cpp), and the slot scheduling of the main    *)
(* loop (server_context_impl, tools/server/server-context.cpp).            *)
(*                                                                         *)
(* One thread runs the main loop; every HTTP request runs in a thread of   *)
(* its own (a reader), which posts its tasks and waits for their results.  *)
(* A step is a section under mutex_tasks or mutex_results.  The main loop  *)
(* alone owns the slots, so a result it sends and the slot it releases     *)
(* next are one step.  `waiting` is the wait set of condition_tasks, which *)
(* the main loop and the readers share.  Results that are not the last of  *)
(* their task (streaming), and what the tasks compute, are left out.       *)
(***************************************************************************)
EXTENDS Integers, Sequences, FiniteSets

CONSTANTS NSlots,      \* n_parallel
          Reader,      \* the HTTP requests
          TaskId,
          Post,        \* the tasks a reader posts, in order
          Children,    \* child tasks of a task (n_cmpl > 1), in order
          Kind,        \* "cmpl": needs a slot; "slot": save, restore or erase one
          IdSlot,      \* the slot a task asks for, or -1
          Rounds,      \* bound: further update_slots rounds of a prompt or an answer
          IdleSleep,   \* --sleep-idle-seconds is set
          MayTerminate,
          Leaves,      \* readers whose client may disconnect
          Faults       \* which of "launch", "run", "decode" and "empty" may happen

Main == "main"
Slot == 0 .. NSlots - 1
NoTask == -1

ASSUME NSlotsAssumption == NSlots \in Nat \ {0}
ASSUME ReaderAssumption == Main \notin Reader
ASSUME TasksAssumption ==
  /\ TaskId \subseteq Nat
  /\ Post \in [Reader -> Seq(TaskId)]
  /\ Children \in [TaskId -> Seq(TaskId)]
  /\ Kind \in [TaskId -> {"cmpl", "slot"}]
  /\ IdSlot \in [TaskId -> Slot \cup {-1}]

Elems(seq) == {seq[k] : k \in DOMAIN seq}
Distinct(seq) == \A i, j \in DOMAIN seq : seq[i] = seq[j] => i = j
ChildrenOf(t) == IF t \in TaskId THEN Elems(Children[t]) ELSE {}
Family(t) == {t} \cup ChildrenOf(t)
Posted == UNION {Elems(Post[r]) : r \in Reader}
Ids(r) == UNION {Family(t) : t \in Elems(Post[r])}

(* get_new_id never returns an id twice.                                   *)
ASSUME IdsAssumption ==
  /\ \A r \in Reader : Distinct(Post[r])
  /\ \A r, x \in Reader : r # x => Elems(Post[r]) \cap Elems(Post[x]) = {}
  /\ \A t \in TaskId : Distinct(Children[t]) /\ t \notin ChildrenOf(t)
  /\ \A t, x \in Posted : t # x => Family(t) \cap Family(x) = {}

(* A request for more answers than there are slots is rejected, and only   *)
(* completions have children.                                              *)
ASSUME ChildrenAssumption ==
  \A t \in TaskId : /\ Len(Children[t]) < NSlots
                    /\ Kind[t] = "slot" => Children[t] = <<>>

ASSUME RoundsAssumption == Rounds \in Nat
ASSUME ModeAssumption ==
  /\ IdleSleep \in BOOLEAN /\ MayTerminate \in BOOLEAN
  /\ Leaves \subseteq Reader
  /\ Faults \subseteq {"launch", "run", "decode", "empty"}

VARIABLES queue_tasks, queue_tasks_deferred, running, sleeping, req_stop_sleeping,
          idled,        \* the idle period has passed since time_last_task
          waiting,
          main,         \* where the main loop is
          in_hand,      \* the task callback_new_task got
          slots,
          todo,         \* slots update_slots has yet to visit
          batched,      \* the batch of this update_slots got a token
          n_empty_consecutive,
          waiting_task_ids, queue_results,
          rd,           \* where each reader is
          received_count,
          answered      \* history: results accepted for each task

queueVars == <<queue_tasks, queue_tasks_deferred, running, sleeping, req_stop_sleeping,
               idled, waiting>>
loopVars == <<main, in_hand, slots, todo, batched, n_empty_consecutive>>
resultVars == <<waiting_task_ids, queue_results, answered>>
readerVars == <<rd, received_count>>
vars == <<queueVars, loopVars, resultVars, readerVars>>

(* An entry of the queues.                                                 *)
Entry(type, id) == [type |-> type, id |-> id]
NoEntry == Entry("none", NoTask)
TaskEntry(t) == Entry("task", t)

Idle == [state |-> "idle", task |-> NoTask, left |-> 0]
Launched(state, t) == [state |-> state, task |-> t, left |-> Rounds]
Busy == {s \in Slot : slots[s].state # "idle"}

(* The place of x in the ordered set S, and the k-th element of a set.     *)
Rank(S, x) == Cardinality({y \in S : y <= x})

Nth(S, k) == CHOOSE x \in S : Rank(S, x) = k

(* The entries of q at the places of K, in their order.                    *)
Pick(q, K) == [j \in 1 .. Cardinality(K) |-> q[Nth(K, j)]]
Drop(q, k) == Pick(q, DOMAIN q \ {k})

Orders(S) == {f \in [1 .. Cardinality(S) -> S] : Elems(f) = S}

-----------------------------------------------------------------------------
(* server_queue.  A notify_one of the main loop itself wakes nobody: no    *)
(* reader waits while the main loop is awake.                              *)

NotifyOne == IF waiting = {} THEN waiting' = waiting
             ELSE \E w \in waiting : waiting' = waiting \ {w}

(* cleanup_pending_task for the tasks of T.                                *)
Without(q, T) == Pick(q, {k \in DOMAIN q : ~(q[k].type = "task" /\ q[k].id \in T)})

(* The slot that a save, restore or erase task names is not its id_slot.   *)
AsksFor(t, s) == Kind[t] = "cmpl" /\ IdSlot[t] = s

(* Mutant: the deferred task stays in its queue.                           *)
PopDeferred_keeps(q, d, s) ==
  IF d = <<>> THEN <<q, d>>
  ELSE LET own == {k \in DOMAIN d : AsksFor(d[k].id, s)}
           k   == IF own = {} THEN 1 ELSE CHOOSE i \in own : \A j \in own : i <= j
       IN  << <<d[k]>> \o q, d >>

(* Mutant: only a task that asks for the slot.                             *)
PopDeferred_own(q, d, s) ==
  LET own == {k \in DOMAIN d : AsksFor(d[k].id, s)}
      k   == CHOOSE i \in own : \A j \in own : i <= j
  IN  IF own = {} THEN <<q, d>>
      ELSE << <<d[k]>> \o q, Drop(d, k) >>

(* pop_deferred_task: the first deferred task that asks for slot s, or     *)
(* else the first one, moves to the front of the queue.                    *)
PopDeferred(q, d, s) ==
  IF d = <<>> THEN <<q, d>>
  ELSE LET own == {k \in DOMAIN d : AsksFor(d[k].id, s)}
           k   == IF own = {} THEN 1 ELSE CHOOSE i \in own : \A j \in own : i <= j
       IN  << <<d[k]>> \o q, Drop(d, k) >>

(* The slots of S are released in order.                                   *)
PopAll(S, q, d) ==
  LET f[s \in -1 .. NSlots - 1] ==
        IF s = -1 THEN <<q, d>>
        ELSE IF s \in S THEN PopDeferred(f[s - 1][1], f[s - 1][2], s) ELSE f[s - 1]
  IN  f[NSlots - 1]

Release(S, q) ==
  LET qd == PopAll(S, q, queue_tasks_deferred)
  IN  /\ queue_tasks' = qd[1]
      /\ queue_tasks_deferred' = qd[2]
      /\ slots' = [s \in Slot |-> IF s \in S THEN Idle ELSE slots[s]]
      /\ idled' = IF S = {} THEN idled ELSE FALSE

Defer(e) ==
  /\ queue_tasks_deferred' = Append(queue_tasks_deferred, e)
  /\ idled' = FALSE

(* server_response::send: nobody waits for it, nobody gets it.             *)
Result(t, error) == [id |-> t, error |-> error]

(* Mutant: also when nobody waits for it.                                  *)
Send_all(results) ==
  /\ queue_results' = queue_results \o results
  /\ answered' = [t \in TaskId |->
                    answered[t] + Cardinality({k \in DOMAIN results : results[k].id = t})]
  /\ UNCHANGED waiting_task_ids

Send(results) ==
  LET kept == Pick(results, {k \in DOMAIN results : results[k].id \in waiting_task_ids})
  IN  /\ queue_results' = queue_results \o kept
      /\ answered' = [t \in TaskId |->
                        answered[t] + Cardinality({k \in DOMAIN kept : kept[k].id = t})]
      /\ UNCHANGED waiting_task_ids

-----------------------------------------------------------------------------
Init ==
  /\ queue_tasks = <<>> /\ queue_tasks_deferred = <<>>
  /\ running = FALSE /\ sleeping = FALSE /\ req_stop_sleeping = FALSE
  /\ idled = FALSE
  /\ waiting = {}
  /\ main = "start" /\ in_hand = NoEntry
  /\ slots = [s \in Slot |-> Idle]
  /\ todo = {}
  /\ batched = FALSE /\ n_empty_consecutive = 0
  /\ waiting_task_ids = {} /\ queue_results = <<>>
  /\ answered = [t \in TaskId |-> 0]
  /\ rd = [r \in Reader |-> "new"]
  /\ received_count = [r \in Reader |-> 0]

-----------------------------------------------------------------------------
(* start_loop.                                                             *)

Start ==
  /\ main = "start"
  /\ main' = "take" /\ running' = TRUE /\ idled' = FALSE
  /\ UNCHANGED <<queue_tasks, queue_tasks_deferred, sleeping, req_stop_sleeping, waiting,
                 in_hand, slots, todo, batched, n_empty_consecutive, resultVars, readerVars>>

Take ==
  /\ main = "take"
  /\ \/ /\ ~running
        /\ main' = "ended"
        /\ UNCHANGED <<queue_tasks, in_hand>>
     \/ /\ running /\ queue_tasks = <<>>
        /\ main' = "update"
        /\ UNCHANGED <<queue_tasks, in_hand>>
     \/ /\ running /\ queue_tasks # <<>>
        /\ main' = "handle" /\ in_hand' = Head(queue_tasks)
        /\ queue_tasks' = Tail(queue_tasks)
  /\ UNCHANGED <<queue_tasks_deferred, running, sleeping, req_stop_sleeping, idled, waiting,
                 slots, todo, batched, n_empty_consecutive, resultVars, readerVars>>

(* process_single_task.                                                    *)
Handled ==
  /\ main = "handle"
  /\ main' = "take" /\ in_hand' = NoEntry
  /\ UNCHANGED <<running, sleeping, req_stop_sleeping, waiting, todo, batched, readerVars>>

(* Mutant: a slot at work is not passed over.                              *)
Candidates_busy(t) == IF IdSlot[t] # -1 THEN {IdSlot[t]} \ Busy ELSE Slot

(* get_available_slot picks among the idle slots by what their prompts     *)
(* share and when they were used; get_slot_by_id may return a busy one.    *)
Candidates(t) == IF IdSlot[t] # -1 THEN {IdSlot[t]} \ Busy ELSE Slot \ Busy

(* get_free_slots: the first n idle slots but s.                           *)
FreeSlots(s, n) ==
  {x \in Slot \ (Busy \cup {s}) : Cardinality({y \in Slot \ (Busy \cup {s}) : y < x}) < n}

HandleDefer ==
  LET t == in_hand.id
  IN  /\ Handled /\ in_hand.type = "task"
      /\ \/ Candidates(t) = {}
         \/ /\ Kind[t] = "cmpl"
            /\ \E s \in Candidates(t) : Cardinality(FreeSlots(s, Len(Children[t]))) < Len(Children[t])
      /\ Defer(in_hand)
      /\ UNCHANGED <<queue_tasks, slots, n_empty_consecutive, resultVars>>

HandleSlotAction ==
  LET t == in_hand.id
  IN  /\ Handled /\ in_hand.type = "task" /\ Kind[t] = "slot"
      /\ Candidates(t) # {}
      /\ Send(<<Result(t, FALSE)>>)
      /\ UNCHANGED <<queue_tasks, queue_tasks_deferred, idled, slots, n_empty_consecutive>>

(* Slot s starts the task; the children wait in the first free slots.      *)
HandleLaunch ==
  LET t == in_hand.id
      n == Len(Children[t])
  IN  /\ Handled /\ in_hand.type = "task" /\ Kind[t] = "cmpl"
      /\ \E s \in Candidates(t) :
           LET S == FreeSlots(s, n)
           IN  /\ Cardinality(S) = n
               /\ slots' = [x \in Slot |->
                    IF x = s THEN Launched("started", t)
                    ELSE IF x \in S THEN Launched("wait_other", Children[t][Rank(S, x)])
                    ELSE slots[x]]
      /\ n_empty_consecutive' = 0
      /\ UNCHANGED <<queue_tasks, queue_tasks_deferred, idled, resultVars>>

(* The k-th of the launches fails: its task gets an error, the slots       *)
(* launched before it are released, and the request is dropped.            *)
HandleLaunchFail ==
  LET t == in_hand.id
      n == Len(Children[t])
  IN  /\ Handled /\ in_hand.type = "task" /\ Kind[t] = "cmpl" /\ "launch" \in Faults
      /\ \E s \in Candidates(t), k \in 1 .. n + 1 :
           /\ Cardinality(FreeSlots(s, n)) = n
           /\ Send(<<Result(IF k <= n THEN Children[t][k] ELSE t, TRUE)>>)
           /\ Release(FreeSlots(s, k - 1), queue_tasks)
           /\ n_empty_consecutive' = IF k > 1 THEN 0 ELSE n_empty_consecutive

HandleCancel ==
  /\ Handled /\ in_hand.type = "cancel"
  /\ Release({s \in Busy : slots[s].task = in_hand.id}, queue_tasks)
  /\ UNCHANGED <<n_empty_consecutive, resultVars>>

HandleNext ==
  /\ Handled /\ in_hand.type = "next"
  /\ UNCHANGED <<queue_tasks, queue_tasks_deferred, idled, slots, n_empty_consecutive, resultVars>>

-----------------------------------------------------------------------------
(* update_slots: a NEXT_RESPONSE task keeps the loop going while a slot is *)
(* busy; then every slot moves on.  The code visits the slots in order, in *)
(* several passes; here the order is free.                                 *)

(* Mutant: no NEXT_RESPONSE.                                               *)
Update_quiet ==
  /\ main = "update"
  /\ IF Busy = {} THEN main' = "idle" /\ idled' = FALSE /\ UNCHANGED todo
                  ELSE main' = "slots" /\ todo' = Busy /\ UNCHANGED idled
  /\ batched' = FALSE
  /\ UNCHANGED <<queue_tasks, queue_tasks_deferred, running, sleeping, req_stop_sleeping, waiting,
                 in_hand, slots, n_empty_consecutive, resultVars, readerVars>>

Update ==
  /\ main = "update"
  /\ IF Busy = {}
       THEN main' = "idle" /\ UNCHANGED <<queue_tasks, todo>>
       ELSE /\ main' = "slots" /\ todo' = Busy
            /\ queue_tasks' = Append(queue_tasks, Entry("next", NoTask))
  /\ idled' = FALSE /\ batched' = FALSE
  /\ UNCHANGED <<queue_tasks_deferred, running, sleeping, req_stop_sleeping, waiting,
                 in_hand, slots, n_empty_consecutive, resultVars, readerVars>>

InUpdate == /\ main = "slots"
            /\ UNCHANGED <<running, sleeping, req_stop_sleeping, waiting, in_hand, readerVars>>

(* Mutant: there is always another round.                                  *)
SlotStay_forever(s) ==
  /\ InUpdate /\ s \in todo
  /\ slots' = IF slots[s].state = "wait_other" THEN slots ELSE [slots EXCEPT ![s].left = @ - 1]
  /\ todo' = todo \ {s}
  /\ batched' = (batched \/ slots[s].state # "wait_other")
  /\ UNCHANGED <<main, queue_tasks, queue_tasks_deferred, idled, n_empty_consecutive, resultVars>>

(* The prompt or the answer of slot s takes another round.                 *)
SlotStay(s) ==
  /\ InUpdate /\ s \in todo
  /\ slots[s].state = "wait_other" \/ slots[s].left > 0
  /\ slots' = IF slots[s].state = "wait_other" THEN slots ELSE [slots EXCEPT ![s].left = @ - 1]
  /\ todo' = todo \ {s}
  /\ batched' = (batched \/ slots[s].state # "wait_other")
  /\ UNCHANGED <<main, queue_tasks, queue_tasks_deferred, idled, n_empty_consecutive, resultVars>>

Waiters(t) == {s \in Busy : slots[s].state = "wait_other" /\ slots[s].task \in ChildrenOf(t)}

(* Mutant: one child only gets the state of the parent.                    *)
PromptDone_alone(s) ==
  /\ InUpdate /\ s \in todo /\ slots[s].state = "started"
  /\ slots' = [slots EXCEPT ![s] = Launched("generating", slots[s].task)]
  /\ batched' = TRUE
  /\ UNCHANGED <<main, todo, queue_tasks, queue_tasks_deferred, idled, n_empty_consecutive,
                 resultVars>>

(* The prompt is done: the waiting children get a copy of the state.       *)
PromptDone(s) ==
  LET S == {s} \cup Waiters(slots[s].task)
  IN  /\ InUpdate /\ s \in todo /\ slots[s].state = "started"
      /\ slots' = [x \in Slot |-> IF x \in S THEN Launched("generating", slots[x].task)
                                              ELSE slots[x]]
      /\ todo' = todo \cup S
      /\ batched' = TRUE
      /\ UNCHANGED <<main, queue_tasks, queue_tasks_deferred, idled, n_empty_consecutive, resultVars>>

(* The slots of S get their last result and are released.                  *)
Leave(S, error) ==
  /\ Send([k \in 1 .. Cardinality(S) |-> Result(slots[Nth(S, k)].task, error)])
  /\ Release(S, queue_tasks)
  /\ todo' = todo \ S
  /\ UNCHANGED <<main, n_empty_consecutive>>

Finish(s) ==
  /\ InUpdate /\ s \in todo /\ slots[s].state = "generating"
  /\ batched' = TRUE
  /\ Leave({s}, FALSE)

(* An empty prompt gets its final response at once.                        *)
EmptyPrompt(s) ==
  /\ InUpdate /\ s \in todo /\ "empty" \in Faults
  /\ slots[s].state = "started"
  /\ Leave({s}, FALSE)
  /\ UNCHANGED batched

(* Prompt too large, context full, ...                                     *)
SlotError(s) ==
  /\ InUpdate /\ s \in todo /\ "run" \in Faults
  /\ slots[s].state # "wait_other"
  /\ Leave({s}, TRUE)
  /\ UNCHANGED batched

(* eden_decode fails: every busy slot gives up.                            *)
DecodeError ==
  /\ InUpdate /\ todo # {} /\ "decode" \in Faults
  /\ \E s \in todo : slots[s].state # "wait_other"
  /\ batched' = TRUE
  /\ Leave(Busy, TRUE)

(* A batch without tokens again and again: the kill switch.                *)
MaxEmpty == 3

UpdateEnd ==
  /\ InUpdate /\ todo = {}
  /\ n_empty_consecutive' = IF batched THEN 0 ELSE n_empty_consecutive + 1
  /\ main' = IF n_empty_consecutive' > MaxEmpty THEN "aborted" ELSE "idle"
  /\ idled' = FALSE
  /\ UNCHANGED <<queue_tasks, queue_tasks_deferred, slots, todo, batched, resultVars>>

-----------------------------------------------------------------------------
(* Waiting for tasks, and sleeping.                                        *)

Woken == main \in {"wait", "sleep"} /\ Main \notin waiting

InWait == UNCHANGED <<queue_tasks, queue_tasks_deferred, running, in_hand, slots, todo,
                      batched, n_empty_consecutive, resultVars, readerVars>>

WorkToDo == ~running \/ queue_tasks # <<>>

IdleCheck ==
  /\ main = "idle" /\ InWait
  /\ \/ WorkToDo /\ main' = "take" /\ UNCHANGED <<waiting, sleeping, req_stop_sleeping>>
     \/ /\ ~WorkToDo /\ idled
        /\ main' = "sleep" /\ sleeping' = TRUE /\ req_stop_sleeping' = FALSE
        /\ waiting' = waiting \cup {Main}
     \/ /\ ~WorkToDo /\ ~idled
        /\ main' = "wait" /\ waiting' = waiting \cup {Main}
        /\ UNCHANGED <<sleeping, req_stop_sleeping>>
  /\ UNCHANGED idled

WaitWake ==
  /\ main = "wait" /\ Woken /\ InWait
  /\ IF WorkToDo THEN main' = "take" /\ UNCHANGED waiting
                 ELSE waiting' = waiting \cup {Main} /\ UNCHANGED main
  /\ UNCHANGED <<sleeping, req_stop_sleeping, idled>>

(* A second has passed; the idle period may be over.                       *)
WaitTimeout ==
  /\ main = "wait" /\ InWait
  /\ main' = IF WorkToDo THEN "take" ELSE "idle"
  /\ waiting' = waiting \ {Main}
  /\ idled' \in {idled, IdleSleep}
  /\ UNCHANGED <<sleeping, req_stop_sleeping>>

SleepWake ==
  /\ main = "sleep" /\ Woken /\ InWait
  /\ \/ /\ ~running
        /\ main' = "take"
        /\ UNCHANGED <<waiting, sleeping, req_stop_sleeping, idled>>
     \/ /\ running /\ req_stop_sleeping
        /\ main' = "take" /\ sleeping' = FALSE /\ req_stop_sleeping' = FALSE
        /\ idled' = FALSE
        /\ waiting' = {}
     \/ /\ running /\ ~req_stop_sleeping
        /\ waiting' = waiting \cup {Main}
        /\ UNCHANGED <<main, sleeping, req_stop_sleeping, idled>>

Alive == main # "aborted"

Terminate ==
  /\ Alive /\ MayTerminate /\ running
  /\ running' = FALSE /\ waiting' = {}
  /\ UNCHANGED <<queue_tasks, queue_tasks_deferred, sleeping, req_stop_sleeping, idled,
                 loopVars, resultVars, readerVars>>

-----------------------------------------------------------------------------
(* The readers.                                                            *)

At(r, from, to) == rd[r] = from /\ rd' = [rd EXCEPT ![r] = to]

(* wait_until_no_sleep, when the response object is created.               *)
Arrive(r) ==
  /\ \/ /\ ~sleeping
        /\ At(r, "new", "build")
        /\ UNCHANGED <<waiting, req_stop_sleeping>>
     \/ /\ sleeping
        /\ At(r, "new", "await")
        /\ req_stop_sleeping' = TRUE
        /\ IF req_stop_sleeping \/ waiting = {} THEN waiting' = waiting \cup {r}
           ELSE \E w \in waiting : waiting' = (waiting \ {w}) \cup {r}
  /\ UNCHANGED <<queue_tasks, queue_tasks_deferred, running, sleeping, idled,
                 loopVars, resultVars, received_count>>

Awake(r) ==
  /\ rd[r] = "await" /\ r \notin waiting
  /\ IF sleeping THEN waiting' = waiting \cup {r} /\ UNCHANGED rd
                 ELSE At(r, "await", "build") /\ UNCHANGED waiting
  /\ UNCHANGED <<queue_tasks, queue_tasks_deferred, running, sleeping, req_stop_sleeping, idled,
                 loopVars, resultVars, received_count>>

(* post_tasks: first the results are subscribed to, ...                    *)
Subscribe(r) ==
  /\ At(r, "build", "post")
  /\ waiting_task_ids' = waiting_task_ids \cup Ids(r)
  /\ UNCHANGED <<queueVars, loopVars, queue_results, answered, received_count>>

(* ... then the tasks are queued.                                          *)
PostTasks(r) ==
  /\ At(r, "post", "next")
  /\ queue_tasks' = queue_tasks \o [k \in DOMAIN Post[r] |-> TaskEntry(Post[r][k])]
  /\ idled' = FALSE
  /\ NotifyOne
  /\ UNCHANGED <<queue_tasks_deferred, running, sleeping, req_stop_sleeping,
                 loopVars, resultVars, received_count>>

Mine(r) == {k \in DOMAIN queue_results : queue_results[k].id \in Ids(r)}

(* next: the first result of the reader; an error ends the request.        *)
Receive(r) ==
  /\ rd[r] = "next" /\ Mine(r) # {}
  /\ LET k == CHOOSE i \in Mine(r) : \A j \in Mine(r) : i <= j
         n == received_count[r] + (IF queue_results[k].error THEN 0 ELSE 1)
     IN  /\ queue_results' = Drop(queue_results, k)
         /\ received_count' = [received_count EXCEPT ![r] = n]
         /\ IF queue_results[k].error \/ n = Cardinality(Ids(r))
              THEN At(r, "next", "stop") ELSE UNCHANGED rd
  /\ UNCHANGED <<queueVars, loopVars, waiting_task_ids, answered>>

(* next times out and the client is gone.                                  *)
Disconnect(r) ==
  /\ Alive /\ r \in Leaves
  /\ At(r, "next", "stop")
  /\ UNCHANGED <<queueVars, loopVars, resultVars, received_count>>

(* stop: the results are not wanted any more; if some are still missing,   *)
Stop(r) ==
  /\ waiting_task_ids' = waiting_task_ids \ Ids(r)
  /\ At(r, "stop", IF received_count[r] < Cardinality(Ids(r)) THEN "purge" ELSE "done")
  /\ UNCHANGED <<queueVars, loopVars, queue_results, answered, received_count>>

(* those that came in the meantime are dropped, and the tasks ...          *)
Purge(r) ==
  /\ At(r, "purge", "cancel")
  /\ queue_results' = Pick(queue_results, {k \in DOMAIN queue_results :
                                               queue_results[k].id \notin Ids(r)})
  /\ UNCHANGED <<queueVars, loopVars, waiting_task_ids, answered, received_count>>

(* ... are cancelled: taken out of the queues, and a CANCEL of each put to *)
(* the front, for those that a slot holds.                                 *)
Cancel(r) ==
  /\ At(r, "cancel", "done")
  /\ \E f \in Orders(Ids(r)) :
       queue_tasks' = [k \in DOMAIN f |-> Entry("cancel", f[k])] \o Without(queue_tasks, Ids(r))
  /\ queue_tasks_deferred' = Without(queue_tasks_deferred, Ids(r))
  /\ idled' = FALSE
  /\ NotifyOne
  /\ UNCHANGED <<running, sleeping, req_stop_sleeping, loopVars, resultVars, received_count>>

-----------------------------------------------------------------------------
Loop ==
  \/ Start \/ Take
  \/ HandleDefer \/ HandleSlotAction \/ HandleLaunch \/ HandleLaunchFail
  \/ HandleCancel \/ HandleNext
  \/ Update \/ UpdateEnd \/ DecodeError
  \/ \E s \in Slot : SlotStay(s) \/ PromptDone(s) \/ Finish(s) \/ EmptyPrompt(s) \/ SlotError(s)
  \/ IdleCheck \/ WaitWake \/ WaitTimeout \/ SleepWake

ReaderStep(r) ==
  /\ Alive
  /\ \/ Arrive(r) \/ Awake(r) \/ Subscribe(r) \/ PostTasks(r)
     \/ Receive(r) \/ Stop(r) \/ Purge(r) \/ Cancel(r)

Next ==
  \/ Loop
  \/ \E r \in Reader : ReaderStep(r) \/ Disconnect(r)
  \/ Terminate

(* The threads are scheduled: the main loop, and a request once it has     *)
(* arrived.  Nothing makes a request arrive or a client leave.             *)
Spec ==
  /\ Init /\ [][Next]_vars
  /\ WF_vars(Loop)
  /\ \A r \in Reader : WF_vars(rd[r] # "new" /\ ReaderStep(r))

-----------------------------------------------------------------------------
(* Properties.                                                             *)

TaskType == [type : {"task"}, id : TaskId]
NextEntry == Entry("next", NoTask)
EntryType == TaskType \cup [type : {"cancel"}, id : TaskId] \cup {NextEntry}
ResultType == [id : TaskId, error : BOOLEAN]
SlotType == [state : {"started", "wait_other", "generating"}, task : TaskId, left : 0 .. Rounds]

(* Every variable holds a value of its type.                               *)
TypeOK ==
  /\ queue_tasks \in Seq(EntryType)
  /\ queue_tasks_deferred \in Seq(TaskType)
  /\ {running, sleeping, req_stop_sleeping, idled} \subseteq BOOLEAN
  /\ waiting \subseteq Reader \cup {Main}
  /\ main \in {"start", "take", "handle", "update", "slots", "idle", "wait", "sleep", "ended",
             "aborted"}
  /\ in_hand \in EntryType \cup {NoEntry}
  /\ slots \in [Slot -> SlotType \cup {Idle}]
  /\ todo \subseteq Busy
  /\ batched \in BOOLEAN /\ n_empty_consecutive \in 0 .. MaxEmpty + 1
  /\ waiting_task_ids \subseteq TaskId
  /\ queue_results \in Seq(ResultType)
  /\ rd \in [Reader -> {"new", "await", "build", "post", "next", "stop", "purge", "cancel", "done"}]
  /\ received_count \in [Reader -> Nat]
  /\ answered \in [TaskId -> Nat]

(* Where task t is: in an entry of its own or of its parent, in a slot, or *)
(* answered.                                                               *)
Holds(e, t) == e.type = "task" /\ t \in Family(e.id)
Count(q, t) == Cardinality({k \in DOMAIN q : Holds(q[k], t)})
Running(t) == {s \in Busy : slots[s].task = t}

Places(t) ==
  Count(queue_tasks, t) + Count(queue_tasks_deferred, t) + (IF Holds(in_hand, t) THEN 1 ELSE 0)
  + Cardinality(Running(t)) + answered[t]

(* Through deferring, launching, failing and cancelling, a task is never   *)
(* in two places (queue, hand, slot) or answered twice, and no request     *)
(* receives more than its tasks.                                           *)
AtMostOnce ==
  /\ \A t \in TaskId : Places(t) <= 1
  /\ \A r \in Reader : received_count[r] <= Cardinality(Ids(r))

(* While its request waits for it, a task is somewhere - unless the        *)
(* request is about to get an error, which ends it.                        *)
HasError(r) == \E k \in Mine(r) : queue_results[k].error

NeverLost ==
  \A r \in Reader : rd[r] = "next" /\ ~HasError(r) => \A t \in Ids(r) : Places(t) = 1

(* The server unloads the model only when no slot is at work: the          *)
(* NEXT_RESPONSE task always comes before the next look at the clock.      *)
SleepsIdle == sleeping => Busy = {}

(* No result is left behind for a request that has stopped waiting, also   *)
(* when its cancelled tasks still run: from the moment its tasks are no    *)
(* longer waited for, only what purging will remove is there.              *)
ResultsWanted ==
  \A k \in DOMAIN queue_results :
    \/ queue_results[k].id \in waiting_task_ids
    \/ \E r \in Reader : rd[r] = "purge" /\ queue_results[k].id \in Ids(r)

(* When the main loop waits for something to do, no task is deferred: the  *)
(* slots that were busy are free now, and nothing else will wake it up.    *)
NoneStranded ==
  main \in {"wait", "sleep"} /\ running /\ queue_tasks = <<>> => queue_tasks_deferred = <<>>

(* A child slot waits only while its parent has yet to process the prompt, *)
(* or because the parent has left all slots without: then the parent has   *)
(* been answered (an error, an empty prompt) or nobody waits for it (it    *)
(* was cancelled).  A parent that generates leaves no child behind.        *)
WaitingChildHasParent ==
  \A s \in Slot : slots[s].state = "wait_other" =>
    \E p \in Posted :
      /\ slots[s].task \in ChildrenOf(p)
      /\ \/ \E x \in Slot : slots[x].state = "started" /\ slots[x].task = p
         \/ Running(p) = {} /\ (answered[p] > 0 \/ p \notin waiting_task_ids)

(* The kill switch of update_slots never fires: its message is a "fatal    *)
(* error - please provide logs and repro" (server-context.cpp:2949).       *)
NeverAborts == main # "aborted"

(* Every request that has posted its tasks gets all its answers or an      *)
(* error, also when it had to wait for slots that other requests held.     *)
Served == \A r \in Reader : rd[r] = "next" ~> rd[r] = "done"
=============================================================================
