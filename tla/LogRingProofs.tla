--------------------------- MODULE LogRingProofs ---------------------------
(***************************************************************************)
(* The log, for a ring of any initial size, any number of messages and of  *)
(* calls of the controller: the indices stay in the ring, nothing is       *)
(* printed twice or out of order, and pause() returns only when everything *)
(* is printed - also when its end entry takes the last free entry.         *)
(***************************************************************************)
EXTENDS LogRing, SequenceTheorems, TLAPS

(* The entries in use, and the place of the k-th of them, without the      *)
(* remainders of the code.                                                 *)
Live == IF tail >= head THEN tail - head ELSE tail - head + size
At(k) == IF head + k < size THEN head + k ELSE head + k - size

(* Messages that have left the ring; the end entry, while it is in there.  *)
Sent == Len(printed) + (IF worker = "print" THEN 1 ELSE 0)
Ending == caller = "join" /\ worker # "exit"
Ends == IF Ending THEN 1 ELSE 0

(* Where the threads are.                                                  *)
Phases ==
  /\ running => caller = "idle" /\ worker \in {"wait", "print"}
  /\ caller = "join" => ~running /\ worker \in {"wait", "print", "exit"}
  /\ ~running /\ caller # "join" => worker = "none"

(* How many messages are where.  When the end entry has gone to the last   *)
(* free entry, those in the ring are out of reach.                         *)
Balance ==
  IF Overrun THEN Sent <= Len(accepted)
  ELSE /\ Len(accepted) + Ends = Sent + Live
       /\ Ending => Live >= 1
       /\ ~running /\ ~Ending => Live = 0

(* Which ones.                                                             *)
Message(k) == [msg |-> accepted[k], is_end |-> FALSE]

Contents ==
  /\ \A k \in 1 .. Len(printed) : printed[k] = accepted[k]
  /\ worker = "print" => cur = Message(Len(printed) + 1)
  /\ ~Overrun => \A k \in 0 .. Live - 1 :
       IF Ending /\ k = Live - 1 THEN entries[At(k)].is_end
       ELSE entries[At(k)] = Message(Sent + k + 1)

IInv == TypeOK /\ added <= MaxMsgs /\ Phases /\ Balance /\ Contents

USE CapacityAssumption, BoundsAssumption

-----------------------------------------------------------------------------
(* Remainders of what is at most one round away.                           *)
Rem(i, n) == i % n

LEMMA Wrap ==
  ASSUME NEW n \in Nat \ {0}, NEW i \in 0 .. 2 * n - 1
  PROVE  Rem(i, n) = IF i < n THEN i ELSE i - n
<1>1. CASE i < n
  <2> i \in 0 .. n - 1 BY <1>1
  <2> QED BY <1>1 DEF Rem
<1>2. CASE i >= n
  <2> i \in n .. 2 * n - 1 BY <1>2
  <2> QED BY <1>2 DEF Rem
<1> QED BY <1>1, <1>2

LEMMA Next1Is ==
  ASSUME NEW n \in Nat, n >= 2, NEW i \in 0 .. n - 1
  PROVE  Next1(i, n) = IF i + 1 = n THEN 0 ELSE i + 1
<1>1. i + 1 \in 0 .. 2 * n - 1 OBVIOUS
<1>2. Next1(i, n) = Rem(i + 1, n) BY DEF Next1, Rem
<1> QED BY <1>1, <1>2, Wrap

LEMMA Next1Type ==
  ASSUME NEW n \in Nat, n >= 2, NEW i \in 0 .. n - 1
  PROVE  Next1(i, n) \in 0 .. n - 1
<1>1. CASE i + 1 = n BY <1>1, Next1Is
<1>2. CASE i + 1 # n
  <2> i + 1 \in 0 .. n - 1 BY <1>2
  <2> QED BY <1>2, Next1Is
<1> QED BY <1>1, <1>2

(* A ring that has grown holds the same entries from its start.            *)
LEMMA GrownIs ==
  ASSUME TypeOK, NEW e \in [0 .. size - 1 -> Entry]
  PROVE  /\ Grown(e) \in [0 .. 2 * size - 1 -> Entry]
         /\ \A k \in 0 .. size - 1 : At(k) \in 0 .. size - 1 /\ Grown(e)[k] = e[At(k)]
<1>0. size \in Nat \ {0} /\ head \in 0 .. size - 1 BY DEF TypeOK
<1>1. \A k \in 0 .. size - 1 : Rem(head + k, size) = At(k) /\ At(k) \in 0 .. size - 1
  <2> TAKE k \in 0 .. size - 1
  <2>1. head + k \in 0 .. 2 * size - 1 BY <1>0
  <2>2. At(k) \in 0 .. size - 1 BY <1>0 DEF At
  <2> QED BY <1>0, <2>1, <2>2, Wrap DEF At
<1>2. Grown(e) = [k \in 0 .. 2 * size - 1 |-> IF k < size THEN e[Rem(head + k, size)] ELSE Blank]
  BY DEF Grown, Rem
<1>3. Blank \in Entry BY DEF Blank, Entry
<1>4. ASSUME NEW k \in 0 .. 2 * size - 1
      PROVE  (IF k < size THEN e[Rem(head + k, size)] ELSE Blank) \in Entry
  <2>1. CASE k < size
    <3> k \in 0 .. size - 1 BY <1>0, <2>1
    <3> Rem(head + k, size) \in 0 .. size - 1 BY <1>1
    <3> QED BY <2>1
  <2> QED BY <1>3, <2>1
<1>5. Grown(e) \in [0 .. 2 * size - 1 -> Entry] BY <1>2, <1>4
<1>6. ASSUME NEW k \in 0 .. size - 1 PROVE Grown(e)[k] = e[At(k)]
  <2> k \in 0 .. 2 * size - 1 /\ k < size BY <1>0
  <2> QED BY <1>1, <1>2
<1> QED BY <1>1, <1>5, <1>6

-----------------------------------------------------------------------------
(* Types.                                                                  *)
LEMMA FillType == TypeOK => Fill(added + 1) \in [0 .. size - 1 -> Entry]
<1> SUFFICES ASSUME TypeOK PROVE Fill(added + 1) \in [0 .. size - 1 -> Entry] OBVIOUS
<1>1. [msg |-> added + 1, is_end |-> FALSE] \in Entry BY DEF TypeOK, Entry
<1> QED BY <1>1 DEF TypeOK, Fill

LEMMA TypeInit == Init => TypeOK
<1>1. Blank \in Entry BY DEF Blank, Entry
<1> SUFFICES ASSUME Init PROVE TypeOK OBVIOUS
<1>2. size \in Nat /\ size >= 2 /\ head \in 0 .. size - 1 /\ tail \in 0 .. size - 1 BY DEF Init
<1>3. entries \in [0 .. size - 1 -> Entry] BY <1>1 DEF Init
<1>4. accepted \in Seq(Nat) /\ printed \in Seq(Nat) /\ cur \in Entry BY <1>1 DEF Init
<1>5. running \in BOOLEAN /\ asleep \in BOOLEAN BY DEF Init
<1> QED BY <1>2, <1>3, <1>4, <1>5 DEF Init, TypeOK

LEMMA TypeStep == TypeOK /\ [Next]_vars => TypeOK'
<1> SUFFICES ASSUME TypeOK, [Next]_vars PROVE TypeOK' OBVIOUS
<1>0. /\ size \in Nat /\ size >= 2 /\ head \in 0 .. size - 1 /\ tail \in 0 .. size - 1
      /\ Next1(head, size) \in 0 .. size - 1 /\ Next1(tail, size) \in 0 .. size - 1
  <2>1. size \in Nat /\ size >= 2 /\ head \in 0 .. size - 1 /\ tail \in 0 .. size - 1 BY DEF TypeOK
  <2> QED BY <2>1, Next1Type
<1>1. CASE add
  <2>1. UNCHANGED <<running, file, worker, cur, caller, call, calls, printed>> /\ added' = added + 1
    BY <1>1 DEF add
  <2>2. CASE ~running
    BY <1>1, <2>1, <2>2 DEF add, ring, TypeOK
  <2>3. CASE running
    <3>1. accepted' \in Seq(Nat)
      <4>1. accepted' = Append(accepted, added + 1) BY <1>1, <2>3 DEF add
      <4> QED BY <4>1 DEF TypeOK
    <3>2. asleep' \in BOOLEAN BY <1>1, <2>3 DEF add, Notified
    <3>3. CASE Next1(tail, size) = head
      <4>1. entries' = Grown(Fill(added + 1)) /\ head' = 0 /\ tail' = size /\ size' = 2 * size
        BY <1>1, <2>3, <3>3 DEF add
      <4>2. entries' \in [0 .. size' - 1 -> Entry] BY <4>1, FillType, GrownIs
      <4>3. size' \in Nat /\ size' >= 2 /\ head' \in 0 .. size' - 1 /\ tail' \in 0 .. size' - 1
        BY <1>0, <4>1
      <4>4. /\ running' \in BOOLEAN /\ file' \in Files /\ worker' \in {"none", "wait", "print", "exit"}
            /\ cur' \in Entry /\ caller' \in {"idle", "join", "after"}
            /\ call' \in {"pause", "flush"} \cup Files /\ added' \in Nat /\ calls' \in Nat
            /\ printed' \in Seq(Nat)
        BY <2>1 DEF TypeOK
      <4> QED BY <3>1, <3>2, <4>2, <4>3, <4>4 DEF TypeOK
    <3>4. CASE Next1(tail, size) # head
      <4>1. entries' = Fill(added + 1) /\ tail' = Next1(tail, size) /\ UNCHANGED <<head, size>>
        BY <1>1, <2>3, <3>4 DEF add
      <4> QED BY <1>0, <2>1, <3>1, <3>2, <4>1, FillType DEF TypeOK
    <3> QED BY <3>3, <3>4
  <2> QED BY <2>2, <2>3
<1>2. CASE Sleep BY <1>2 DEF Sleep, TypeOK, ring
<1>3. CASE Spurious BY <1>3 DEF Spurious, TypeOK, ring
<1>4. CASE Take
  <2>1. entries[head] \in Entry BY DEF TypeOK
  <2> QED BY <1>0, <1>4, <2>1 DEF Take, TypeOK
<1>5. CASE PrintEntry
  <2>1. cur.msg \in Nat BY DEF TypeOK, Entry
  <2> QED BY <1>5, <2>1 DEF PrintEntry, TypeOK, ring
<1>6. ASSUME NEW c \in {"pause", "flush"} \cup Files, Pause(c) PROVE TypeOK'
  <2>0. call' \in {"pause", "flush"} \cup Files /\ calls' \in Nat BY <1>6 DEF Pause, TypeOK
  <2>1. CASE ~running BY <1>6, <2>0, <2>1 DEF Pause, TypeOK, ring
  <2>2. CASE running
    <3>1. [entries EXCEPT ![tail].is_end = TRUE] \in [0 .. size - 1 -> Entry]
      <4>1. [entries[tail] EXCEPT !.is_end = TRUE] \in Entry BY DEF TypeOK, Entry
      <4> QED BY <4>1 DEF TypeOK
    <3>2. /\ entries' = [entries EXCEPT ![tail].is_end = TRUE] /\ tail' = Next1(tail, size)
          /\ asleep' = FALSE /\ caller' = "join" /\ running' = FALSE
          /\ UNCHANGED <<head, size, file, worker, cur, added, accepted, printed>>
      BY <1>6, <2>2 DEF Pause, Notified
    <3> QED BY <1>0, <2>0, <3>1, <3>2 DEF TypeOK
  <2> QED BY <2>1, <2>2
<1>7. CASE Join BY <1>7 DEF Join, TypeOK, ring
<1>8. CASE After
  <2>1. file' \in Files BY <1>8 DEF After, TypeOK
  <2> QED BY <1>8, <2>1 DEF After, Started, TypeOK, ring
<1>9. CASE Resume BY <1>9 DEF Resume, Started, TypeOK, ring
<1>10. CASE UNCHANGED vars BY <1>10 DEF vars, ring, TypeOK
<1> QED BY <1>1, <1>2, <1>3, <1>4, <1>5, <1>6, <1>7, <1>8, <1>9, <1>10 DEF Next, Worker, Controller

(* The log's variables keep their types: in particular head and tail stay  *)
(* in the ring, whatever grows, wraps around and is paused.                *)
THEOREM TypeCorrect == Spec => []TypeOK
<1> QED BY TypeInit, TypeStep, PTL DEF Spec

-----------------------------------------------------------------------------
(* Where the entries in use are.                                           *)
LEMMA Places ==
  ASSUME TypeOK
  PROVE  /\ Live \in 0 .. size - 1
         /\ \A k \in 0 .. Live : At(k) \in 0 .. size - 1
         /\ \A k \in 0 .. Live - 1 : At(k) # tail
         /\ At(Live) = tail /\ At(0) = head
         /\ head = tail <=> Live = 0
         /\ Next1(tail, size) = head <=> Live = size - 1
<1>1. size \in Nat /\ size >= 2 /\ head \in 0 .. size - 1 /\ tail \in 0 .. size - 1 BY DEF TypeOK
<1>2. Next1(tail, size) = IF tail + 1 = size THEN 0 ELSE tail + 1 BY <1>1, Next1Is
<1> QED BY <1>1, <1>2 DEF Live, At

(* What the counts of messages are.                                        *)
LEMMA Counts ==
  ASSUME TypeOK
  PROVE  /\ Len(accepted) \in Nat /\ Len(printed) \in Nat /\ Sent \in Nat /\ Ends \in {0, 1}
         /\ worker = "print" => Sent = Len(printed) + 1
         /\ worker # "print" => Sent = Len(printed)
<1>1. accepted \in Seq(Nat) /\ printed \in Seq(Nat) BY DEF TypeOK
<1>2. Len(accepted) \in Nat /\ Len(printed) \in Nat BY <1>1
<1> QED BY <1>2 DEF Sent, Ends

(* While the log is open, every entry in use is a message.                 *)
LEMMA AddStep ==
  ASSUME IInv, add
  PROVE  Phases' /\ Balance' /\ Contents' /\ (added <= MaxMsgs)'
<1>1. TypeOK /\ Phases /\ Balance /\ Contents BY DEF IInv
<1>2. UNCHANGED <<running, worker, cur, caller, printed>> /\ added' = added + 1 /\ added < MaxMsgs
  BY DEF add
<1>3. added' <= MaxMsgs BY <1>1, <1>2 DEF TypeOK
<1>4. Phases' BY <1>1, <1>2 DEF Phases
<1>5. Sent' = Sent /\ Ending' = Ending /\ Ends' = Ends BY <1>2 DEF Sent, Ending, Ends
<1>6. CASE ~running
  <2>1. UNCHANGED <<entries, head, tail, size, accepted>> BY <1>6 DEF add, ring
  <2>2. Overrun' = Overrun BY <1>2, <2>1 DEF Overrun
  <2> QED BY <1>1, <1>2, <1>3, <1>4, <1>5, <2>1, <2>2 DEF Balance, Contents, Live, At, Message
<1>7. CASE running
  <2>1. accepted' = Append(accepted, added + 1) BY <1>7 DEF add
  <2>2. ~Ending /\ Ends = 0 /\ ~Overrun /\ ~Overrun'
    <3>1. caller = "idle" BY <1>1, <1>7 DEF Phases
    <3> QED BY <1>2, <3>1 DEF Ending, Ends, Overrun
  <2>3. Len(accepted) = Sent + Live BY <1>1, <2>2, Counts, Places DEF Balance
  <2>4. /\ Len(accepted') = Len(accepted) + 1
        /\ accepted'[Len(accepted) + 1] = added + 1
        /\ \A k \in 1 .. Len(accepted) : accepted'[k] = accepted[k]
    BY <1>1, <2>1 DEF TypeOK
  <2>5. /\ Fill(added + 1)[tail] = [msg |-> added + 1, is_end |-> FALSE]
        /\ \A i \in 0 .. size - 1 : i # tail => Fill(added + 1)[i] = entries[i]
    BY <1>1 DEF TypeOK, Fill
  <2>6. \A k \in 0 .. Live : Fill(added + 1)[At(k)] = Message(Sent + k + 1)'
    <3> TAKE k \in 0 .. Live
    <3>0. Message(Sent + k + 1)' = [msg |-> accepted'[Sent + k + 1], is_end |-> FALSE]
      BY <1>5 DEF Message
    <3>1. CASE k = Live
      BY <1>1, <2>3, <2>4, <2>5, <3>0, <3>1, Places
    <3>2. CASE k # Live
      <4>1. k \in 0 .. Live - 1 BY <1>1, <3>2, Places
      <4>2. entries[At(k)] = Message(Sent + k + 1) BY <1>1, <2>2, <4>1 DEF Contents
      <4>3. Fill(added + 1)[At(k)] = entries[At(k)] BY <1>1, <2>5, <4>1, Places
      <4>4. Sent + k + 1 \in 1 .. Len(accepted) BY <1>1, <2>3, <4>1, Counts, Places
      <4> QED BY <2>4, <3>0, <4>2, <4>3, <4>4 DEF Message
    <3> QED BY <3>1, <3>2
  <2>7. Live' = Live + 1 /\ \A k \in 0 .. Live : entries'[At(k)'] = Fill(added + 1)[At(k)]
    <3>1. CASE Next1(tail, size) = head
      <4>1. entries' = Grown(Fill(added + 1)) /\ head' = 0 /\ tail' = size /\ size' = 2 * size
        BY <1>7, <3>1 DEF add
      <4>2. Live = size - 1 /\ size \in Nat /\ size >= 2 BY <1>1, <3>1, Places DEF TypeOK
      <4>3. Live' = size BY <4>1, <4>2 DEF Live
      <4>4. \A k \in 0 .. Live : At(k)' = k BY <4>1, <4>2 DEF At
      <4>5. \A k \in 0 .. size - 1 : Grown(Fill(added + 1))[k] = Fill(added + 1)[At(k)]
        BY <1>1, FillType, GrownIs
      <4> QED BY <4>1, <4>2, <4>3, <4>4, <4>5
    <3>2. CASE Next1(tail, size) # head
      <4>1. entries' = Fill(added + 1) /\ tail' = Next1(tail, size) /\ UNCHANGED <<head, size>>
        BY <1>7, <3>2 DEF add
      <4>2. size \in Nat /\ size >= 2 /\ head \in 0 .. size - 1 /\ tail \in 0 .. size - 1
        BY <1>1 DEF TypeOK
      <4>3. tail' = IF tail + 1 = size THEN 0 ELSE tail + 1 BY <4>1, <4>2, Next1Is
      <4>4. Live' = Live + 1 BY <3>2, <4>1, <4>2, <4>3 DEF Live
      <4>5. \A k : At(k)' = At(k) BY <4>1 DEF At
      <4> QED BY <4>1, <4>4, <4>5
    <3> QED BY <3>1, <3>2
  <2>8. Balance' BY <1>1, <1>2, <1>5, <1>7, <2>2, <2>3, <2>4, <2>7, Counts, Places DEF Balance
  <2>9. \A k \in 1 .. Len(printed) : printed'[k] = accepted'[k]
    <3>1. \A k \in 1 .. Len(printed) : k \in 1 .. Len(accepted)
      BY <1>1, <2>3, Counts, Places
    <3> QED BY <1>1, <1>2, <2>4, <3>1 DEF Contents
  <2>10. worker = "print" => cur = Message(Len(printed) + 1)'
    <3> SUFFICES ASSUME worker = "print" PROVE cur = Message(Len(printed) + 1)' OBVIOUS
    <3>1. Len(printed) + 1 \in 1 .. Len(accepted) BY <1>1, <2>3, Counts, Places
    <3>2. Message(Len(printed) + 1)' = [msg |-> accepted'[Len(printed) + 1], is_end |-> FALSE]
      BY <1>2 DEF Message
    <3> QED BY <1>1, <2>4, <3>1, <3>2 DEF Contents, Message
  <2>11. \A k \in 0 .. Live' - 1 : entries'[At(k)'] = Message(Sent + k + 1)'
    <3> TAKE k \in 0 .. Live' - 1
    <3>1. k \in 0 .. Live BY <1>1, <2>7, Places
    <3> QED BY <2>6, <2>7, <3>1
  <2>12. Contents' BY <1>2, <1>5, <2>2, <2>9, <2>10, <2>11 DEF Contents
  <2> QED BY <1>3, <1>4, <2>8, <2>12
<1> QED BY <1>6, <1>7

(* The worker takes the oldest entry.                                      *)
LEMMA TakeStep ==
  ASSUME IInv, Take
  PROVE  Phases' /\ Balance' /\ Contents'
<1>1. TypeOK /\ Phases /\ Balance /\ Contents BY DEF IInv
<1>2. /\ worker = "wait" /\ head # tail /\ cur' = entries[head] /\ head' = Next1(head, size)
      /\ UNCHANGED <<entries, tail, size, running, caller, accepted, printed>>
      /\ worker' = IF cur'.is_end THEN "exit" ELSE "print"
  BY DEF Take
<1>3. Sent = Len(printed) /\ Len(printed) \in Nat /\ Len(accepted) \in Nat /\ Ends \in {0, 1}
  BY <1>1, <1>2, Counts
<1>o. ~Overrun BY <1>2 DEF Overrun
<1>4. Live \in 1 .. size - 1 /\ At(0) = head BY <1>1, <1>2, Places
<1>5. Live' = Live - 1 /\ \A k \in 0 .. Live - 1 : k >= 1 => At(k - 1)' = At(k)
  <2>1. size \in Nat /\ size >= 2 /\ head \in 0 .. size - 1 /\ tail \in 0 .. size - 1
    BY <1>1 DEF TypeOK
  <2>2. head' = IF head + 1 = size THEN 0 ELSE head + 1 BY <1>2, <2>1, Next1Is
  <2>3. Live' = Live - 1 BY <1>2, <2>1, <2>2 DEF Live
  <2>4. ASSUME NEW k \in 0 .. Live - 1, k >= 1 PROVE At(k - 1)' = At(k)
    <3>1. k \in 1 .. size - 2 /\ head + k < size + tail BY <1>4, <2>1, <2>4 DEF Live
    <3> QED BY <1>2, <2>1, <2>2, <3>1 DEF At
  <2> QED BY <2>3, <2>4
<1>6. CASE cur'.is_end
  <2>1. worker' = "exit" BY <1>2, <1>6
  <2>2. Ending /\ Live = 1
    <3>1. SUFFICES ASSUME ~(Ending /\ 0 = Live - 1) PROVE FALSE BY <1>4
    <3>2. entries[At(0)] = Message(Sent + 0 + 1)
      <4> 0 \in 0 .. Live - 1 BY <1>4
      <4> QED BY <1>1, <1>o, <3>1 DEF Contents
    <3> QED BY <1>2, <1>4, <1>6, <3>2 DEF Message
  <2>3. caller = "join" /\ ~running BY <1>1, <2>2 DEF Phases, Ending
  <2>4. Ends = 1 /\ ~Ending' /\ Ends' = 0 /\ Sent' = Len(printed) /\ ~Overrun'
    BY <1>2, <2>1, <2>2 DEF Ends, Ending, Sent, Overrun
  <2>5. Live' = 0 BY <1>4, <1>5, <2>2
  <2>6. Phases' BY <1>2, <2>1, <2>3 DEF Phases
  <2>7. Balance' BY <1>1, <1>o, <1>2, <1>3, <2>2, <2>4, <2>5 DEF Balance
  <2>8. Contents' BY <1>1, <1>2, <2>1, <2>5 DEF Contents
  <2> QED BY <2>6, <2>7, <2>8
<1>7. CASE ~cur'.is_end
  <2>1. worker' = "print" BY <1>2, <1>7
  <2>2. ~(Ending /\ Live = 1)
    <3>1. SUFFICES ASSUME Ending /\ 0 = Live - 1 PROVE FALSE BY <1>4
    <3>2. entries[At(0)].is_end
      <4> 0 \in 0 .. Live - 1 BY <1>4
      <4> QED BY <1>1, <1>o, <3>1 DEF Contents
    <3> QED BY <1>2, <1>4, <1>7, <3>2
  <2>3. cur' = Message(Sent + 1)
    <3>1. 0 \in 0 .. Live - 1 /\ ~(Ending /\ 0 = Live - 1) BY <1>4, <2>2
    <3>2. entries[At(0)] = Message(Sent + 0 + 1) BY <1>1, <1>o, <3>1 DEF Contents
    <3> QED BY <1>2, <1>3, <1>4, <3>2
  <2>4. Ending' = Ending /\ Ends' = Ends /\ Sent' = Sent + 1
    BY <1>2, <1>3, <2>1 DEF Ending, Ends, Sent
  <2>o. ~Overrun'
    <3>1. SUFFICES ASSUME Overrun' PROVE FALSE OBVIOUS
    <3>2. Ending' BY <2>1, <3>1 DEF Overrun, Ending
    <3>h. head' = tail' BY <3>1 DEF Overrun
    <3>3. Live' = 0
      <4>1. size \in Nat /\ tail \in 0 .. size - 1 BY <1>1 DEF TypeOK
      <4>2. head' = tail /\ tail' = tail /\ size' = size BY <1>2, <3>h
      <4>3. Live' = IF tail >= tail THEN tail - tail ELSE tail - tail + size BY <4>2 DEF Live
      <4> QED BY <4>1, <4>3
    <3> QED BY <1>4, <1>5, <2>2, <2>4, <3>2, <3>3
  <2>5. \A k : Message(k)' = Message(k) BY <1>2 DEF Message
  <2>6. Phases' BY <1>1, <1>2, <2>1 DEF Phases
  <2>7. Balance'
    <3>1. Len(accepted') + Ends' = Sent' + Live'
      <4>1. size \in Nat /\ Len(accepted) + Ends = Sent + Live BY <1>1, <1>o DEF TypeOK, Balance
      <4> QED BY <1>2, <1>3, <1>4, <1>5, <2>4, <4>1
    <3>2. Ending' => Live' >= 1 BY <1>4, <1>5, <2>2, <2>4
    <3>3. running' \/ Ending' BY <1>1, <1>o, <1>2, <1>4, <2>4 DEF Balance
    <3> QED BY <2>o, <3>1, <3>2, <3>3 DEF Balance
  <2>8. ASSUME NEW j \in 0 .. Live' - 1
        PROVE  IF Ending' /\ j = Live' - 1 THEN entries'[At(j)'].is_end
               ELSE entries'[At(j)'] = Message(Sent + j + 1)'
    <3> DEFINE k == j + 1
    <3>1. k \in 0 .. Live - 1 /\ k >= 1 /\ j = k - 1 /\ (j = Live' - 1 <=> k = Live - 1)
      BY <1>4, <1>5
    <3>2. At(j)' = At(k)
      <4> HIDE DEF k
      <4> QED BY <1>5, <3>1
    <3>3. Message(Sent + j + 1)' = Message(Sent + k + 1)
      <4>1. Sent' + j + 1 = Sent + k + 1 BY <1>3, <2>4, <3>1
      <4> HIDE DEF k
      <4> QED BY <1>2, <4>1 DEF Message
    <3>4. IF Ending /\ k = Live - 1 THEN entries[At(k)].is_end
          ELSE entries[At(k)] = Message(Sent + k + 1)
      <4> HIDE DEF k
      <4> QED BY <1>1, <1>o, <3>1 DEF Contents
    <3> HIDE DEF k
    <3> QED BY <1>2, <2>4, <3>1, <3>2, <3>3, <3>4
  <2>9. Contents'
    <3>1. \A k \in 1 .. Len(printed') : printed'[k] = accepted'[k] BY <1>1, <1>2 DEF Contents
    <3>2. cur' = Message(Len(printed) + 1)' BY <1>2, <1>3, <2>3, <2>5
    <3> QED BY <1>2, <2>8, <3>1, <3>2 DEF Contents
  <2> QED BY <2>6, <2>7, <2>9
<1> QED BY <1>6, <1>7

(* The message printed is the next one accepted.                           *)
LEMMA PrintStep ==
  ASSUME IInv, PrintEntry
  PROVE  Phases' /\ Balance' /\ Contents'
<1>1. TypeOK /\ Phases /\ Balance /\ Contents BY DEF IInv
<1>2. /\ worker = "print" /\ worker' = "wait" /\ printed' = Append(printed, cur.msg)
      /\ UNCHANGED <<entries, head, tail, size, running, caller, accepted>>
  BY DEF PrintEntry, ring
<1>3. Sent = Len(printed) + 1 /\ Len(printed) \in Nat BY <1>1, <1>2, Counts
<1>4. cur.msg = accepted[Len(printed) + 1] BY <1>1, <1>2 DEF Contents, Message
<1>5. /\ Len(printed') = Len(printed) + 1
      /\ \A k \in 1 .. Len(printed) + 1 : printed'[k] = IF k = Len(printed) + 1 THEN cur.msg ELSE printed[k]
  <2>1. cur.msg \in Nat /\ printed \in Seq(Nat) BY <1>1 DEF TypeOK, Entry
  <2> QED BY <1>2, <2>1
<1>6. Ending' = Ending /\ Ends' = Ends /\ Sent' = Sent BY <1>2, <1>3, <1>5 DEF Ending, Ends, Sent
<1>7. Phases' BY <1>1, <1>2 DEF Phases
<1>8. /\ Live' = Live /\ (\A k : At(k)' = At(k)) /\ (\A k : Message(k)' = Message(k))
      /\ Overrun' = Overrun
  BY <1>2 DEF Live, At, Message, Overrun
<1>9. Balance' BY <1>1, <1>2, <1>6, <1>8 DEF Balance
<1>10. \A k \in 1 .. Len(printed') : printed'[k] = accepted'[k]
  BY <1>1, <1>2, <1>3, <1>4, <1>5 DEF Contents
<1>11. Contents' BY <1>1, <1>2, <1>6, <1>8, <1>10 DEF Contents
<1> QED BY <1>7, <1>9, <1>11

(* The end entry follows the messages, or takes the last free entry.       *)
LEMMA PauseStep ==
  ASSUME IInv, NEW c \in {"pause", "flush"} \cup Files, Pause(c)
  PROVE  Phases' /\ Balance' /\ Contents'
<1>1. TypeOK /\ Phases /\ Balance /\ Contents BY DEF IInv
<1>2. caller = "idle" /\ UNCHANGED <<worker, cur, accepted, printed>>
  BY DEF Pause
<1>3. ~Ending /\ Ends = 0 /\ ~Overrun /\ Sent' = Sent BY <1>2 DEF Ending, Ends, Sent, Overrun
<1>4. CASE ~running
  <2>1. caller' = "after" /\ UNCHANGED <<entries, head, tail, size, running>>
    BY <1>4 DEF Pause, ring
  <2>2. ~Ending' /\ Ends' = 0 /\ ~Overrun' BY <2>1 DEF Ending, Ends, Overrun
  <2> QED BY <1>1, <1>2, <1>3, <1>4, <2>1, <2>2 DEF Phases, Balance, Contents, Live, At, Message
<1>5. CASE running
  <2>1. /\ caller' = "join" /\ ~running' /\ UNCHANGED <<head, size>>
        /\ entries' = [entries EXCEPT ![tail].is_end = TRUE] /\ tail' = Next1(tail, size)
    BY <1>5 DEF Pause
  <2>2. worker \in {"wait", "print"} BY <1>1, <1>5 DEF Phases
  <2>3. Ending' /\ Ends' = 1 BY <1>2, <2>1, <2>2 DEF Ending, Ends
  <2>4. Phases' BY <1>2, <2>1, <2>2 DEF Phases
  <2>5. /\ size \in Nat /\ size >= 2 /\ head \in 0 .. size - 1 /\ tail \in 0 .. size - 1
        /\ Live \in 0 .. size - 1 /\ At(Live) = tail
    BY <1>1, Places DEF TypeOK
  <2>6. Overrun' <=> Live = size - 1
    <3>1. Overrun' <=> Next1(tail, size) = head BY <2>1, <2>2, <1>2 DEF Overrun
    <3> QED BY <1>1, <3>1, Places
  <2>7. /\ \A k \in 1 .. Len(printed') : printed'[k] = accepted'[k]
        /\ worker' = "print" => cur' = Message(Len(printed) + 1)'
    BY <1>1, <1>2 DEF Contents, Message
  <2>8. CASE Live = size - 1
    <3>1. Overrun' BY <2>6, <2>8
    <3>2. Sent' <= Len(accepted') BY <1>1, <1>2, <1>3, <2>5, Counts DEF Balance
    <3> QED BY <1>2, <2>4, <2>7, <3>1, <3>2 DEF Balance, Contents
  <2>9. CASE Live # size - 1
    <3>1. ~Overrun' BY <2>6, <2>9
    <3>2. Live' = Live + 1 /\ \A k : At(k)' = At(k)
      <4>1. tail' = IF tail + 1 = size THEN 0 ELSE tail + 1 BY <2>1, <2>5, Next1Is
      <4>2. Next1(tail, size) # head BY <1>1, <2>9, Places
      <4>3. Live' = Live + 1 BY <2>1, <2>5, <4>1, <4>2 DEF Live
      <4> QED BY <2>1, <4>3 DEF At
    <3>3. entries'[tail].is_end /\ \A i \in 0 .. size - 1 : i # tail => entries'[i] = entries[i]
      <4>1. entries \in [0 .. size - 1 -> Entry] BY <1>1 DEF TypeOK
      <4>2. entries'[tail] = [entries[tail] EXCEPT !.is_end = TRUE] BY <2>1, <2>5, <4>1
      <4>3. entries[tail] \in [msg : Nat, is_end : BOOLEAN] BY <2>5, <4>1 DEF Entry
      <4> QED BY <2>1, <2>5, <4>1, <4>2, <4>3
    <3>4. Balance' BY <1>1, <1>2, <1>3, <2>3, <2>5, <3>1, <3>2, Counts DEF Balance
    <3>5. ASSUME NEW k \in 0 .. Live' - 1
          PROVE  IF Ending' /\ k = Live' - 1 THEN entries'[At(k)'].is_end
                 ELSE entries'[At(k)'] = Message(Sent + k + 1)'
      <4>1. CASE k = Live BY <2>3, <2>5, <3>2, <3>3, <4>1
      <4>2. CASE k # Live
        <5>1. k \in 0 .. Live - 1 /\ k # Live' - 1 BY <2>5, <3>2, <4>2
        <5>2. At(k) \in 0 .. size - 1 /\ At(k) # tail BY <1>1, <5>1, Places
        <5>3. entries[At(k)] = Message(Sent + k + 1) BY <1>1, <1>3, <5>1 DEF Contents
        <5>4. Message(Sent + k + 1)' = Message(Sent + k + 1) BY <1>2, <1>3 DEF Message
        <5> QED BY <3>2, <3>3, <5>1, <5>2, <5>3, <5>4
      <4> QED BY <4>1, <4>2
    <3> QED BY <1>2, <2>4, <2>7, <3>4, <3>5 DEF Contents
  <2> QED BY <2>8, <2>9
<1> QED BY <1>4, <1>5

(* What does not touch the ring.                                           *)
LEMMA OtherStep ==
  ASSUME IInv, Sleep \/ Spurious \/ Join \/ After \/ Resume \/ UNCHANGED vars
  PROVE  Phases' /\ Balance' /\ Contents'
<1>1. TypeOK /\ Phases /\ Balance /\ Contents BY DEF IInv
<1>2. UNCHANGED <<entries, head, tail, size, cur, accepted, printed>>
  BY DEF Sleep, Spurious, Join, After, Resume, vars, ring
<1>3. Live' = Live /\ (\A k : At(k)' = At(k)) /\ (\A k : Message(k)' = Message(k))
  BY <1>2 DEF Live, At, Message
<1>4. Phases' /\ Ending' = Ending /\ Ends' = Ends /\ Sent' = Sent /\ (worker' = "print" => worker = "print")
      /\ (~running' /\ ~Ending' => ~running /\ ~Ending) /\ Overrun' = Overrun
  <2>1. CASE Sleep \/ Spurious \/ UNCHANGED vars
    <3>1. UNCHANGED <<running, worker, caller>> BY <2>1 DEF Sleep, Spurious, vars
    <3> QED BY <1>1, <1>2, <3>1 DEF Phases, Ending, Ends, Sent, Overrun
  <2>2. CASE Join BY <1>1, <1>2, <2>2 DEF Join, Phases, Ending, Ends, Sent, Overrun
  <2>3. CASE After BY <1>1, <1>2, <2>3 DEF After, Started, Phases, Ending, Ends, Sent, Overrun
  <2>4. CASE Resume BY <1>1, <1>2, <2>4 DEF Resume, Started, Phases, Ending, Ends, Sent, Overrun
  <2> QED BY <2>1, <2>2, <2>3, <2>4
<1>5. Balance' BY <1>1, <1>2, <1>3, <1>4 DEF Balance
<1>6. Contents' BY <1>1, <1>2, <1>3, <1>4 DEF Contents
<1> QED BY <1>4, <1>5, <1>6

-----------------------------------------------------------------------------
LEMMA InvInit == Init => IInv
<1> SUFFICES ASSUME Init PROVE IInv OBVIOUS
<1>1. TypeOK BY TypeInit
<1>2. /\ head = 0 /\ tail = 0 /\ size = Capacity /\ running = TRUE /\ worker = "wait"
      /\ caller = "idle" /\ added = 0 /\ accepted = <<>> /\ printed = <<>>
  BY DEF Init
<1>3. Live = 0 /\ ~Ending /\ Ends = 0 /\ Sent = 0 /\ ~Overrun
  BY <1>2 DEF Live, Ending, Ends, Sent, Overrun
<1>4. Phases BY <1>2 DEF Phases
<1>5. Balance BY <1>2, <1>3 DEF Balance
<1>6. Contents BY <1>2, <1>3 DEF Contents
<1> QED BY <1>1, <1>2, <1>4, <1>5, <1>6 DEF IInv

LEMMA InvStep == IInv /\ [Next]_vars => IInv'
<1> SUFFICES ASSUME IInv, [Next]_vars PROVE IInv' OBVIOUS
<1>1. TypeOK' BY TypeStep DEF IInv
<1>2. CASE add BY <1>1, <1>2, AddStep DEF IInv
<1>3. ASSUME UNCHANGED added, Phases', Balance', Contents' PROVE IInv'
  BY <1>1, <1>3 DEF IInv
<1>4. CASE Take
  <2>1. UNCHANGED added BY <1>4 DEF Take
  <2> QED BY <1>3, <1>4, <2>1, TakeStep
<1>5. CASE PrintEntry
  <2>1. UNCHANGED added BY <1>5 DEF PrintEntry
  <2> QED BY <1>3, <1>5, <2>1, PrintStep
<1>6. ASSUME NEW c \in {"pause", "flush"} \cup Files, Pause(c) PROVE IInv'
  <2>1. UNCHANGED added BY <1>6 DEF Pause
  <2> QED BY <1>3, <1>6, <2>1, PauseStep
<1>7. CASE Sleep \/ Spurious \/ Join \/ After \/ Resume \/ UNCHANGED vars
  <2>1. UNCHANGED added BY <1>7 DEF Sleep, Spurious, Join, After, Resume, vars
  <2> QED BY <1>3, <1>7, <2>1, OtherStep
<1> QED BY <1>2, <1>4, <1>5, <1>6, <1>7 DEF Next, Worker, Controller

(* The invariant: between the messages printed and the last one accepted   *)
(* lie the one in the hand of the worker and those in the ring, in order.  *)
THEOREM Invariant == Spec => []IInv
<1>1. IInv /\ [Next]_vars => IInv' BY InvStep
<1> QED BY <1>1, InvInit, PTL DEF Spec

(* The worker has ended and all is printed.                                *)
LEMMA AllPrinted == IInv /\ ~running /\ caller # "join" => printed = accepted /\ worker = "none"
<1> SUFFICES ASSUME IInv, ~running, caller # "join" PROVE printed = accepted /\ worker = "none"
  OBVIOUS
<1>1. TypeOK /\ Phases /\ Balance /\ Contents BY DEF IInv
<1>2. worker = "none" /\ ~Ending /\ Ends = 0 /\ ~Overrun BY <1>1 DEF Phases, Ending, Ends, Overrun
<1>3. Len(accepted) = Len(printed) BY <1>1, <1>2, Counts DEF Balance
<1>4. \A k \in 1 .. Len(printed) : printed[k] = accepted[k] BY <1>1 DEF Contents
<1>5. printed \in Seq(Nat) /\ accepted \in Seq(Nat) BY <1>1 DEF TypeOK
<1>6. printed = accepted BY <1>3, <1>4, <1>5, SeqEqual
<1> QED BY <1>2, <1>6

(* When pause() has returned, every message accepted has been printed and  *)
(* no worker is left, whatever grew, wrapped or was overrun before.        *)
THEOREM PauseFlushes == Spec => []Flushed
<1>1. IInv => Flushed
  <2>1. IInv /\ caller = "after" => ~running BY DEF IInv, Phases
  <2> QED BY <2>1, AllPrinted DEF Flushed
<1> QED BY <1>1, Invariant, PTL

-----------------------------------------------------------------------------
(* The refinement.                                                         *)
LEMMA StoreInit == Init => Store!Init
BY DEF Init, Store!Init

LEMMA StoreStep == IInv /\ IInv' /\ [Next]_vars => [Store!Next]_Store!vars
<1> SUFFICES ASSUME IInv, IInv', [Next]_vars PROVE Store!Next \/ UNCHANGED Store!vars
  OBVIOUS
<1>0. TypeOK /\ Phases /\ Balance /\ Contents BY DEF IInv
<1>1. CASE add
  <2>1. UNCHANGED <<printed, running, file>> BY <1>1 DEF add
  <2>2. CASE ~running
    <3>1. UNCHANGED accepted BY <1>1, <2>2 DEF add
    <3> QED BY <2>1, <3>1 DEF Store!vars
  <2>3. CASE running
    <3>1. accepted' = Append(accepted, added + 1) /\ added < MaxMsgs BY <1>1, <2>3 DEF add
    <3>2. added + 1 \in 1 .. MaxMsgs BY <1>0, <3>1 DEF TypeOK
    <3>3. Store!Add(added + 1) BY <2>1, <2>3, <3>1 DEF Store!Add
    <3> QED BY <3>2, <3>3 DEF Store!Next
  <2> QED BY <2>2, <2>3
<1>2. CASE Sleep \/ Spurious \/ Take \/ Join \/ UNCHANGED vars
  <2>1. UNCHANGED <<accepted, printed, running, file>>
    BY <1>2 DEF Sleep, Spurious, Take, Join, vars
  <2> QED BY <2>1 DEF Store!vars
<1>3. CASE PrintEntry
  <2>1. /\ worker = "print" /\ printed' = Append(printed, cur.msg)
        /\ UNCHANGED <<accepted, running, file>>
    BY <1>3 DEF PrintEntry
  <2>2. cur.msg = accepted[Len(printed) + 1] BY <1>0, <2>1 DEF Contents, Message
  <2>3. Len(printed) < Len(accepted)
    <3>1. Sent = Len(printed) + 1 /\ Len(printed) \in Nat /\ Len(accepted) \in Nat
      BY <1>0, <2>1, Counts
    <3>2. CASE Overrun BY <1>0, <3>1, <3>2 DEF Balance
    <3>3. CASE ~Overrun
      <4>1. Len(accepted) + Ends = Sent + Live BY <1>0, <3>3 DEF Balance
      <4>2. Live \in Nat /\ (Ends = 1 => Live >= 1) /\ Ends \in {0, 1}
        <5>1. size \in Nat BY <1>0 DEF TypeOK
        <5> QED BY <1>0, <3>3, <5>1, Places DEF Balance, Ends
      <4> QED BY <3>1, <4>1, <4>2
    <3> QED BY <3>2, <3>3
  <2> QED BY <2>1, <2>2, <2>3 DEF Store!Write, Store!Next
<1>4. ASSUME NEW c \in {"pause", "flush"} \cup Files, Pause(c)
      PROVE  Store!Next \/ UNCHANGED Store!vars
  <2>1. UNCHANGED <<accepted, printed, file>> BY <1>4 DEF Pause
  <2>2. CASE ~running
    <3>1. UNCHANGED running BY <1>4, <2>2 DEF Pause
    <3> QED BY <2>1, <3>1 DEF Store!vars
  <2>3. CASE running
    <3>1. running' = FALSE BY <1>4, <2>3 DEF Pause
    <3> QED BY <2>1, <2>3, <3>1 DEF Store!Close, Store!Next
  <2> QED BY <2>2, <2>3
<1>5. ASSUME ~running, caller # "join", running' = TRUE, file' \in Files, UNCHANGED <<accepted, printed>>
      PROVE  Store!Next
  <2>1. printed = accepted BY <1>5, AllPrinted
  <2>2. Store!Reopen(file') BY <1>5, <2>1 DEF Store!Reopen
  <2> QED BY <1>5, <2>2 DEF Store!Next
<1>6. CASE Resume
  <2>1. ~running /\ caller = "idle" /\ running' = TRUE /\ UNCHANGED <<accepted, printed, file>>
    BY <1>6 DEF Resume, Started
  <2> QED BY <1>0, <1>5, <2>1 DEF TypeOK
<1>7. CASE After
  <2>1. ~running /\ caller = "after" /\ UNCHANGED <<accepted, printed>> BY <1>0, <1>7 DEF After, Phases
  <2>2. CASE call = "pause"
    <3>1. UNCHANGED running BY <1>7, <2>2 DEF After
    <3>2. UNCHANGED file BY <1>7, <2>2, FilesAssumption DEF After
    <3> QED BY <2>1, <3>1, <3>2 DEF Store!vars
  <2>3. CASE call # "pause"
    <3>1. running' = TRUE BY <1>7, <2>3 DEF After, Started
    <3>2. file' \in Files BY <1>0, <1>7 DEF After, TypeOK
    <3> QED BY <1>5, <2>1, <3>1, <3>2
  <2> QED BY <2>2, <2>3
<1> QED BY <1>1, <1>2, <1>3, <1>4, <1>6, <1>7 DEF Next, Worker, Controller

(* The log keeps its promise for every ring, any number of messages and of *)
(* pauses: whatever is accepted while it is open is printed once, in order,*)
(* before it is opened again or its file is changed.                       *)
THEOREM Implements == Spec => ImplementsLog
<1>1. IInv /\ IInv' /\ [Next]_vars => [Store!Next]_Store!vars BY StoreStep
<1> QED BY <1>1, Invariant, StoreInit, PTL DEF Spec, ImplementsLog, Store!Spec
=============================================================================
