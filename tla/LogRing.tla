------------------------------ MODULE LogRing -------------------------------
(***************************************************************************)
(* The log (struct common_log, src/common/log.cpp): any thread adds        *)
(* messages to a ring of entries, which grows when it is full; a worker    *)
(* thread takes them out and prints them.  pause() stops the worker by an  *)
(* end entry and joins it, resume() starts a new one; both belong to one   *)
(* thread, the controller (they are documented as not thread-safe).        *)
(*                                                                         *)
(* Each critical section of the mutex is one step, and so is a print,      *)
(* which happens outside of it.  The k-th call of add() brings message k.  *)
(***************************************************************************)
EXTENDS Integers, Sequences

CONSTANTS Capacity,  \* initial number of entries
          Files,     \* files the log may be sent to
          MaxMsgs,   \* bound: calls of add()
          MaxCalls   \* bound: calls of the controller

ASSUME CapacityAssumption == Capacity \in Nat /\ Capacity >= 2
ASSUME FilesAssumption == Files # {} /\ Files \cap {"pause", "flush"} = {}
ASSUME BoundsAssumption == MaxMsgs \in Nat /\ MaxCalls \in Nat

VARIABLES
  entries, head, tail, \* the ring: entries is a function on 0 .. size - 1
  size,                \* entries.size()
  running, file,
  worker,  \* the worker thread: "none", "wait", "print" or "exit"
  cur,     \* the entry the worker has taken
  asleep,  \* the worker waits on cv
  caller,  \* the controller: "idle", "join" or "after"
  call,    \* what it does: "pause", "flush" or the file to set
  added, calls,      \* numbers of calls so far
  accepted, printed  \* history

ring == <<entries, head, tail, size>>
vars == <<ring, running, file, worker, cur, asleep, caller, call, added, calls, accepted, printed>>

Entry == [msg : Nat, is_end : BOOLEAN]
Blank == [msg |-> 0, is_end |-> FALSE]

(* Mutant: the index does not wrap around.                                 *)
Next1_straight(i, n) == i + 1

Next1(i, n) == (i + 1) % n

Init ==
  /\ entries = [i \in 0 .. Capacity - 1 |-> Blank]
  /\ head = 0 /\ tail = 0 /\ size = Capacity
  /\ running = TRUE /\ file \in Files
  /\ worker = "wait" /\ cur = Blank /\ asleep = FALSE
  /\ caller = "idle" /\ call = "pause"
  /\ added = 0 /\ calls = 0
  /\ accepted = <<>> /\ printed = <<>>

-----------------------------------------------------------------------------
(* Any thread.                                                             *)

(* Mutant: the entry keeps the end mark of an earlier pause.               *)
Fill_marked(m) == [entries EXCEPT ![tail].msg = m]

Fill(m) == [entries EXCEPT ![tail] = [msg |-> m, is_end |-> FALSE]]

(* The ring is full after an addition: twice the entries, the oldest first.*)
(* Mutant: copied from the start of the ring, not from head.               *)
Grown_unrotated(e) ==
  [k \in 0 .. 2 * size - 1 |-> IF k < size THEN e[k] ELSE Blank]

Grown(e) ==
  [k \in 0 .. 2 * size - 1 |-> IF k < size THEN e[(head + k) % size] ELSE Blank]

(* Mutant: no notification.                                                *)
Notified_not == asleep

Notified == FALSE

add ==
  /\ added < MaxMsgs
  /\ added' = added + 1
  /\ IF ~running THEN UNCHANGED <<ring, accepted, asleep>>
     ELSE /\ accepted' = Append(accepted, added + 1)
          /\ IF Next1(tail, size) = head
               THEN /\ entries' = Grown(Fill(added + 1))
                    /\ head' = 0 /\ tail' = size /\ size' = 2 * size
               ELSE /\ entries' = Fill(added + 1)
                    /\ tail' = Next1(tail, size)
                    /\ UNCHANGED <<head, size>>
          /\ asleep' = Notified
  /\ UNCHANGED <<running, file, worker, cur, caller, call, calls, printed>>

-----------------------------------------------------------------------------
(* The worker thread.                                                      *)

Sleep ==
  /\ worker = "wait" /\ ~asleep /\ head = tail
  /\ asleep' = TRUE
  /\ UNCHANGED <<ring, running, file, worker, cur, caller, call, added, calls, accepted, printed>>

(* A condition variable may wake a thread for no reason.                   *)
Spurious ==
  /\ asleep
  /\ asleep' = FALSE
  /\ UNCHANGED <<ring, running, file, worker, cur, caller, call, added, calls, accepted, printed>>

Take ==
  /\ worker = "wait" /\ ~asleep /\ head # tail
  /\ cur' = entries[head]
  /\ head' = Next1(head, size)
  /\ worker' = IF cur'.is_end THEN "exit" ELSE "print"
  /\ UNCHANGED <<entries, tail, size, running, file, asleep, caller, call, added, calls, accepted, printed>>

PrintEntry ==
  /\ worker = "print"
  /\ printed' = Append(printed, cur.msg)
  /\ worker' = "wait"
  /\ UNCHANGED <<ring, running, file, cur, asleep, caller, call, added, calls, accepted>>

-----------------------------------------------------------------------------
(* The controller.                                                         *)

(* pause(), up to the join: the end entry is added without growth check.   *)
(* Mutant: the worker is not waited for.                                   *)
Pause_unjoined(c) ==
  /\ caller = "idle" /\ calls < MaxCalls
  /\ calls' = calls + 1 /\ call' = c
  /\ caller' = "after"
  /\ running' = FALSE
  /\ UNCHANGED <<ring, file, worker, cur, asleep, added, accepted, printed>>

Pause(c) ==
  /\ caller = "idle" /\ calls < MaxCalls
  /\ calls' = calls + 1 /\ call' = c
  /\ IF ~running
       THEN /\ caller' = "after"
            /\ UNCHANGED <<ring, running, asleep>>
       ELSE /\ caller' = "join"
            /\ running' = FALSE
            /\ entries' = [entries EXCEPT ![tail].is_end = TRUE]
            /\ tail' = Next1(tail, size)
            /\ asleep' = Notified
            /\ UNCHANGED <<head, size>>
  /\ UNCHANGED <<file, worker, cur, added, accepted, printed>>

Join ==
  /\ caller = "join" /\ worker = "exit"
  /\ caller' = "after"
  /\ worker' = "none"
  /\ UNCHANGED <<ring, running, file, cur, asleep, call, added, calls, accepted, printed>>

Started == /\ running' = TRUE
           /\ worker' = "wait"
           /\ asleep' = FALSE

(* pause() returns; flush(), set_colors() and set_file() go on to resume().*)
After ==
  /\ caller = "after"
  /\ caller' = "idle"
  /\ file' = IF call \in Files THEN call ELSE file
  /\ IF call = "pause" THEN UNCHANGED <<running, worker, asleep>> ELSE Started
  /\ UNCHANGED <<ring, cur, call, added, calls, accepted, printed>>

Resume ==
  /\ caller = "idle" /\ ~running
  /\ Started
  /\ UNCHANGED <<ring, file, cur, caller, call, added, calls, accepted, printed>>

-----------------------------------------------------------------------------
Worker == Sleep \/ Take \/ PrintEntry
Controller == Join \/ After

Next ==
  \/ add \/ Worker \/ Spurious \/ Controller \/ Resume
  \/ \E c \in {"pause", "flush"} \cup Files : Pause(c)

(* The threads run; nobody has to add a message or to pause the log.       *)
Spec == Init /\ [][Next]_vars /\ WF_vars(Worker) /\ WF_vars(Controller)

-----------------------------------------------------------------------------
(* Properties.                                                             *)

(* Every variable holds a value of its type: head and tail stay in the     *)
(* ring, also when it grows.                                               *)
TypeOK ==
  /\ size \in Nat /\ size >= 2
  /\ entries \in [0 .. size - 1 -> Entry]
  /\ head \in 0 .. size - 1 /\ tail \in 0 .. size - 1
  /\ running \in BOOLEAN /\ file \in Files /\ asleep \in BOOLEAN
  /\ worker \in {"none", "wait", "print", "exit"} /\ cur \in Entry
  /\ caller \in {"idle", "join", "after"} /\ call \in {"pause", "flush"} \cup Files
  /\ added \in Nat /\ calls \in Nat
  /\ accepted \in Seq(Nat) /\ printed \in Seq(Nat)

(* The log keeps its promise: every message accepted is printed once, in   *)
(* order, whatever wraps around and grows in the ring, before the log is   *)
(* open again and before its file is closed.                               *)
Store == INSTANCE LogStore WITH written <- printed, open <- running, Messages <- 1 .. MaxMsgs
ImplementsLog == Store!Spec

(* When pause() has returned - also within flush and set_file - every      *)
(* message accepted is printed and no worker is left.                      *)
Flushed == caller = "after" => printed = accepted /\ worker = "none"

(* The end entry has taken the last free entry: head has met tail, and the *)
(* full ring looks empty to the worker.                                    *)
Overrun == caller = "join" /\ worker # "exit" /\ head = tail

(* pause() returns: the worker meets the end entry, wherever it is, unless *)
(* it went to the last free entry.                                         *)
PauseReturns == caller = "join" /\ ~Overrun ~> caller = "idle"

(* An accepted message is printed even if nothing is logged after it, also *)
(* with the log paused - but not when the end entry hides all the others.  *)
Printed == \A k \in 1 .. MaxMsgs : Len(accepted) >= k ~> Len(printed) >= k \/ Overrun

(* common_log_flush(): "flush all pending log messages" (common/log.h).    *)
FlushPrints == caller = "join" /\ call = "flush" ~> printed = accepted
=============================================================================
