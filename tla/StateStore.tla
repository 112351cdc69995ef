----------------------------- MODULE StateStore -----------------------------
(***************************************************************************)
(* What a memory for recurrent models promises: every sequence has a state *)
(* that depends on the tokens it consumed and on nothing else, and the     *)
(* position of the last of them.  A micro-batch extends the sequences it   *)
(* holds; an operation changes the sequences it names.  There are no cells *)
(* here, no tails, no snapshots and no copies that wait for a graph.       *)
(* A token is the set of sequences it was decoded for.                     *)
(***************************************************************************)
EXTENDS Integers, Sequences

CONSTANTS SeqId,     \* sequence ids
          Groups,    \* the sets of sequences that a token may be for
          MaxAppend, \* bound: tokens a sequence gains in one micro-batch
          Deltas,    \* shifts given to seq_add
          Divs       \* factors given to seq_div

VARIABLES state,  \* state[s].hist: the tokens consumed; state[s].pos: the last position
          saved   \* the state of a sequence, or of all of them, kept by the application

Fresh == [hist |-> <<>>, pos |-> -1]

Consume(st, group, len) == [hist |-> st.hist \o [i \in 1 .. len |-> group],
                            pos  |-> st.pos + len]

Drop(st, k) == [hist |-> SubSeq(st.hist, 1, Len(st.hist) - k), pos |-> st.pos - k]

-----------------------------------------------------------------------------
Init == /\ state = [s \in SeqId |-> Fresh]
        /\ saved = [all |-> FALSE, of |-> [s \in SeqId |-> Fresh]]

(* A micro-batch of len tokens for each of some disjoint groups of         *)
(* sequences; a sequence outside of them keeps its state.                  *)
Extend(groups, len) ==
  /\ \A g, h \in groups : g # h => g \cap h = {}
  /\ state' = [s \in SeqId |-> IF \E g \in groups : s \in g
                               THEN Consume(state[s], CHOOSE g \in groups : s \in g, len)
                               ELSE state[s]]
  /\ UNCHANGED saved

Clear == state' = [s \in SeqId |-> Fresh] /\ UNCHANGED saved

Forget(s) == state' = [state EXCEPT ![s] = Fresh] /\ UNCHANGED saved

TakeBack(s, k) ==
  /\ k < Len(state[s].hist)
  /\ state' = [state EXCEPT ![s] = Drop(@, k)]
  /\ UNCHANGED saved

Copy(src, dst) == state' = [state EXCEPT ![dst] = state[src]] /\ UNCHANGED saved

Keep(s) == state' = [t \in SeqId |-> IF t = s THEN state[s] ELSE Fresh] /\ UNCHANGED saved

Shift(s, d) == state' = [state EXCEPT ![s].pos = @ + d] /\ UNCHANGED saved

Divide(s, d) == state' = [state EXCEPT ![s].pos = @ \div d] /\ UNCHANGED saved

SaveOne(s) == saved' = [all |-> FALSE, of |-> [t \in SeqId |-> state[s]]] /\ UNCHANGED state

SaveAll == saved' = [all |-> TRUE, of |-> state] /\ UNCHANGED state

(* What was saved of one sequence may be given to any other.               *)
LoadOne(s) == ~saved.all /\ state' = [state EXCEPT ![s] = saved.of[s]] /\ UNCHANGED saved

LoadAll == saved.all /\ state' = saved.of /\ UNCHANGED saved

Next ==
  \/ \E groups \in SUBSET Groups, len \in 1 .. MaxAppend : Extend(groups, len)
  \/ Clear \/ SaveAll \/ LoadAll
  \/ \E s \in SeqId : Forget(s) \/ Keep(s) \/ SaveOne(s) \/ LoadOne(s)
  \/ \E s \in SeqId, k \in 1 .. MaxAppend : TakeBack(s, k)
  \/ \E src, dst \in SeqId : Copy(src, dst)
  \/ \E s \in SeqId, d \in Deltas : Shift(s, d)
  \/ \E s \in SeqId, d \in Divs : Divide(s, d)

Spec == Init /\ [][Next]_<<state, saved>>
=============================================================================
