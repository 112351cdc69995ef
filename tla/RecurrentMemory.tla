-------------------------- MODULE RecurrentMemory --------------------------
(***************************************************************************)
(* The memory of recurrent models, class eden_memory_recurrent             *)
(* (src/src/eden-memory-recurrent.cpp), with the part of a decode that     *)
(* moves its rows: the inputs and copies that build_rs puts in front of    *)
(* every graph, and what the layers of a model with rollback store.        *)
(*                                                                         *)
(* A sequence owns or shares one cell, its tail; the state of the cell is  *)
(* a row of a tensor.  find_slot only moves metadata: src0 tells the next  *)
(* graph where the row of a cell lies now.  Row group g holds the states g *)
(* tokens ago, and rs_idx[s] the group a sequence was rolled back to.      *)
(*                                                                         *)
(* A token is the set of sequences it is decoded for, and the content of a *)
(* row the sequence of the tokens it has consumed: two rows are equal here *)
(* only when they are equal for every model.                               *)
(***************************************************************************)
EXTENDS Integers, FiniteSets, FiniteSetsExt, SequencesExt

CONSTANTS Size,      \* number of cells; create_memory takes n_seq_max
          NRsSeq,    \* snapshots per sequence (n_rs_seq)
          NUbatch,   \* tokens per micro-batch (n_ubatch)
          Sequential,\* split_equal takes neighbouring sequence ids only
          MaxBatch,  \* bound: tokens per sequence in one batch
          MaxGroups, \* bound: sequence sets in one batch
          Pairs,     \* bound: pairs of sequences that tokens may have in common
          MaxLen,    \* bound: tokens a sequence consumes, and positions
          MaxHeld,   \* bound: tokens in all states and in what is saved
          RmRanges,  \* ranges <<p0, p1>> given to seq_rm, seq_add, seq_div
          Deltas,    \* shifts given to seq_add
          Divs,      \* factors given to seq_div
          Saves,     \* bound: what is saved, a subset of {"one", "all"}
          Careful    \* the application takes back only tokens of which the
                     \*   last micro-batch kept snapshots

ASSUME SizesAssumption == Size \in Nat \ {0} /\ NRsSeq \in Nat /\ NUbatch \in Nat \ {0}
ASSUME BoundsAssumption == MaxBatch \in Nat /\ MaxGroups \in Nat
                           /\ MaxLen \in Nat /\ MaxHeld \in Nat
ASSUME FlagsAssumption == Sequential \in BOOLEAN /\ Careful \in BOOLEAN
                          /\ Saves \subseteq {"one", "all"}
ASSUME RangesAssumption == RmRanges \subseteq Int \X Int
ASSUME DeltasAssumption == Deltas \subseteq Int
ASSUME DivsAssumption == Divs \subseteq Nat \ {0}

Cell == 0 .. Size - 1
SeqId == Cell
Pos == 0 .. MaxLen - 1
Group == 0 .. NRsSeq
Nowhere == -1

(* split_equal refuses common tokens when it is sequential.                *)
ASSUME PairsAssumption == /\ \A g \in Pairs : g \in Seq(SeqId) /\ g # <<>>
                          /\ Sequential => Pairs = {}

VARIABLES mem,   \* cells, head, used and rs_idx; aborted: a GGML_ASSERT failed
          rows,  \* rows[g][c]: the tokens consumed by the state in row c of group g
          kept,  \* kept[s]: how many of its last tokens sequence s may take back
          todo,  \* the micro-batches of the running decode
          saved  \* cells in the hands of the application

vars == <<mem, rows, kept, todo, saved>>

-----------------------------------------------------------------------------
(* The cells.                                                              *)

NoCells == [pos    |-> [c \in Cell |-> -1],
            src    |-> [c \in Cell |-> Nowhere],
            tail   |-> [s \in SeqId |-> Nowhere],
            seqs   |-> [c \in Cell |-> {}],
            head   |-> 0, used |-> 0,
            rs_idx |-> [s \in SeqId |-> 0],
            aborted |-> FALSE]

set_rs_idx(m, s, idx) == [m EXCEPT !.rs_idx[s] = IF idx > NRsSeq THEN NRsSeq ELSE idx]

InRange(p, r) == p >= r[1] /\ p >= 0 /\ (r[2] >= 0 => p < r[2])

(* The cells of C lose the sequences of S; the ones that become empty are  *)
(* no longer counted.                                                      *)
Emptied(m, C, S) == {c \in C : m.seqs[c] # {} /\ m.seqs[c] \subseteq S}

Release(m, C, S) ==
  LET gone == Emptied(m, C, S)
  IN  [m EXCEPT !.seqs = [c \in Cell |-> IF c \in C THEN @[c] \ S ELSE @[c]],
                !.pos  = [c \in Cell |-> IF c \in gone THEN -1 ELSE @[c]],
                !.src  = [c \in Cell |-> IF c \in gone THEN Nowhere ELSE @[c]],
                !.used = @ - Cardinality(gone)]

LowerHead(m, freed) ==
  [m EXCEPT !.head = IF freed # {} /\ Min(freed) < @ THEN Min(freed) ELSE @]

(* seq_rm cuts the end of a sequence off when the range starts behind its  *)
(* first position and ends behind its last one.                            *)
Cuts(m, s, r) ==
  /\ m.tail[s] # Nowhere
  /\ r[1] > 0
  /\ InRange(m.pos[m.tail[s]], r)

(* The number of tokens to take back.                                      *)
Rollback(m, s, r) == m.pos[m.tail[s]] - (r[1] - 1)

RolledBack(m, s, r) ==
  LET m1 == set_rs_idx(m, s, Rollback(m, s, r))
  IN  [m1 EXCEPT !.pos[m.tail[s]] = r[1] - 1]

(* Otherwise the sequence leaves the cells whose position is in the range: *)
(* its only one, or none.                                                  *)
Removed(m, s, r) ==
  LET C  == {c \in Cell : s \in m.seqs[c] /\ InRange(m.pos[c], r)}
      m1 == IF m.tail[s] # Nowhere /\ InRange(m.pos[m.tail[s]], r)
            THEN set_rs_idx([m EXCEPT !.tail[s] = Nowhere], s, 0)
            ELSE m
  IN  LowerHead(Release(m1, C, {s}), Emptied(m, C, {s}))

(* Mutant: dst does not leave the cell it has.                             *)
Copied_over(m, src, dst) ==
  IF m.tail[src] = Nowhere THEN [m EXCEPT !.tail[dst] = Nowhere]
  ELSE [m EXCEPT !.seqs[m.tail[src]] = @ \cup {dst}, !.tail[dst] = m.tail[src]]

(* seq_cp: dst leaves its cell and shares the one of src.  The positions   *)
(* asked for do not matter.                                                *)
Copied(m, src, dst) ==
  LET m1 == IF m.tail[dst] = Nowhere THEN m
            ELSE [Release(m, {m.tail[dst]}, {dst}) EXCEPT !.tail[dst] = Nowhere]
  IN  IF m1.tail[src] = Nowhere THEN m1
      ELSE [m1 EXCEPT !.seqs[m1.tail[src]] = @ \cup {dst}, !.tail[dst] = m1.tail[src]]

(* Mutant: empty cells are taken off the counter too.                      *)
KeptOnly_counts_empty(m, s) ==
  LET others == {c \in Cell : s \notin m.seqs[c]}
      m1 == [m EXCEPT !.tail = [t \in SeqId |-> IF t = s THEN @[t] ELSE Nowhere],
                      !.pos  = [c \in Cell |-> IF c \in others THEN -1 ELSE @[c]],
                      !.src  = [c \in Cell |-> IF c \in others THEN Nowhere ELSE @[c]],
                      !.seqs = [c \in Cell |-> IF c \in others THEN {} ELSE {s}],
                      !.used = @ - Cardinality(others)]
  IN  LowerHead(m1, others)

KeptOnly(m, s) ==
  LET others == {c \in Cell : s \notin m.seqs[c]}
      m1 == [m EXCEPT !.tail = [t \in SeqId |-> IF t = s THEN @[t] ELSE Nowhere],
                      !.pos  = [c \in Cell |-> IF c \in others THEN -1 ELSE @[c]],
                      !.src  = [c \in Cell |-> IF c \in others THEN Nowhere ELSE @[c]],
                      !.seqs = [c \in Cell |-> IF c \in others THEN {} ELSE {s}],
                      !.used = @ - Cardinality({c \in others : m.pos[c] >= 0})]
  IN  LowerHead(m1, others)

seq_pos_max(m, s) == Max({-1} \cup {m.pos[c] : c \in {d \in Cell : s \in m.seqs[d]}})

-----------------------------------------------------------------------------
(* find_slot.  A micro-batch has groups of sequences, ids[k] the k-th; the *)
(* first of a group leads.  Every group gains len tokens, the last one at  *)
(* last[k].  For the graph that follows, and for nothing else, it also     *)
(* gives n, rs_z and src0.                                                 *)

Leader(ub, k) == ub.ids[k][1]
Members(ub, k) == {ub.ids[k][j] : j \in DOMAIN ub.ids[k]}
Followers(ub) == UNION {Members(ub, k) \ {Leader(ub, k)} : k \in DOMAIN ub.ids}

RestartSearch(m, ub) ==
  [m EXCEPT !.head = IF @ > m.used + 2 * Len(ub.ids) THEN 0 ELSE @]

(* Sequences that follow a leader leave the cells they have.               *)
LeaveCells(m, S) ==
  LET go(c) == {s \in S : m.tail[s] = c}
      gone  == {c \in Cell : go(c) # {} /\ m.seqs[c] \subseteq go(c)}
  IN  [m EXCEPT !.seqs = [c \in Cell |-> @[c] \ go(c)],
                !.pos  = [c \in Cell |-> IF c \in gone THEN -1 ELSE @[c]],
                !.src  = [c \in Cell |-> IF c \in gone THEN Nowhere ELSE @[c]],
                !.used = @ - Cardinality(gone),
                !.tail = [s \in SeqId |-> IF s \in S THEN Nowhere ELSE @[s]]]

(* Mutant: the search does not go round.                                   *)
EmptyCell_ahead(m, from) ==
  LET E == {c \in Cell : c >= from /\ m.seqs[c] = {}}
  IN  IF E = {} THEN Nowhere ELSE Min(E)

(* The first empty cell at or after `from`, round the end.                 *)
EmptyCell(m, from) ==
  LET E == {c \in Cell : m.seqs[c] = {}}
  IN  IF E = {} THEN Nowhere
      ELSE CHOOSE c \in E : \A d \in E : (c - from) % Size <= (d - from) % Size

(* A leader that is alone in its cell keeps it; any other takes the empty  *)
(* cell, and what it shared is copied there.                               *)
CopyTail(m, s, e) ==
  LET t == m.tail[s]
  IN  IF t = Nowhere THEN m
      ELSE [m EXCEPT !.pos[e] = m.pos[t], !.src[e] = m.src[t],
                     !.seqs = [m.seqs EXCEPT ![t] = @ \ {s}, ![e] = {s}]]

TakeCell(search, s) ==
  LET m == search.mem
      t == m.tail[s]
      e == search.empty
  IN  IF t # Nowhere /\ m.seqs[t] = {s} THEN search
      ELSE IF \/ t # Nowhere /\ s \notin m.seqs[t]
              \/ e = Nowhere \/ m.seqs[e] # {}
      THEN [search EXCEPT !.mem = [m EXCEPT !.aborted = TRUE]]
      ELSE [mem   |-> [CopyTail(m, s, e) EXCEPT !.tail[s] = e],
            empty |-> EmptyCell(CopyTail(m, s, e), (e + 1) % Size)]

(* The leaders take their cells one after another.                         *)
TakeCells(m, ub) ==
  LET took[k \in 0 .. Len(ub.ids)] ==
        IF k = 0 THEN [mem |-> m, empty |-> EmptyCell(m, m.head)]
        ELSE TakeCell(took[k - 1], Leader(ub, k))
  IN  took[Len(ub.ids)].mem

(* Swap the content of two cells; src tells where the rows are.            *)
Swap(f, a, b) == [f EXCEPT ![a] = f[b], ![b] = f[a]]

(* Mutant: the rows are forgotten.                                         *)
SwapCells_rows_stay(m, a, b) ==
  [m EXCEPT !.pos = Swap(@, a, b), !.seqs = Swap(@, a, b),
            !.tail = [s \in SeqId |-> CASE @[s] = a -> b [] @[s] = b -> a [] OTHER -> @[s]]]

SwapCells(m, a, b) ==
  [m EXCEPT !.pos = Swap(@, a, b), !.src = Swap(@, a, b), !.seqs = Swap(@, a, b),
            !.tail = [s \in SeqId |-> CASE @[s] = a -> b [] @[s] = b -> a [] OTHER -> @[s]]]

(* The groups, in their order, move to the cells lo, lo + 1, ...           *)
PutAt(m, c, s) == SwapCells(m, c, m.tail[s])

Gather(m, ub, lo) ==
  LET put[k \in 0 .. Len(ub.ids)] ==
        IF k = 0 THEN m ELSE PutAt(put[k - 1], lo + k - 1, Leader(ub, k))
  IN  put[Len(ub.ids)]

Advance(m, ub, lo) ==
  LET at(k) == lo + k - 1
      in(c) == c - lo + 1 \in DOMAIN ub.ids
  IN  [m EXCEPT !.pos  = [c \in Cell |-> IF in(c) THEN ub.last[c - lo + 1] ELSE @[c]],
                !.seqs = [c \in Cell |-> IF in(c) THEN Members(ub, c - lo + 1) ELSE @[c]],
                !.tail = [s \in SeqId |-> IF \E k \in DOMAIN ub.ids : s \in Members(ub, k)
                                          THEN at(CHOOSE k \in DOMAIN ub.ids : s \in Members(ub, k))
                                          ELSE @[s]]]

(* A row that no cell refers to serves as the zero state of the cells that *)
(* start; every other cell of the range is told where its row is.          *)
Stage(m, lo, hi) ==
  LET free   == (lo .. hi) \ {m.src[c] : c \in Cell}
      zero   == IF free = {} THEN Nowhere ELSE Min(free)
      starts == {c \in lo .. hi : m.src[c] = Nowhere}
  IN  [mem  |-> [m EXCEPT !.aborted = starts # {} /\ zero = Nowhere,
                          !.src  = [c \in Cell |-> IF c \in lo .. hi THEN c ELSE @[c]],
                          !.head = lo,
                          !.used = Cardinality({c \in Cell : m.seqs[c] # {}})],
       n    |-> hi - lo + 1,
       rs_z |-> zero,
       src0 |-> [c \in lo .. hi |-> IF c \in starts THEN zero ELSE m.src[c]]]

find_slot(m, ub) ==
  LET m1 == TakeCells(LeaveCells(RestartSearch(m, ub), Followers(ub)), ub)
      at == {m1.tail[Leader(ub, k)] : k \in DOMAIN ub.ids}
  IN  IF m1.aborted THEN [mem |-> m1]
      ELSE Stage(Advance(Gather(m1, ub, Min(at)), ub, Min(at)), Min(at), Max(at))

-----------------------------------------------------------------------------
(* A decode.  batch[k] is a group of sequences with a number of tokens.    *)

(* split_equal: the groups of the next micro-batch among those with tokens *)
(* left.  One more group than n_ubatch may be chosen.                      *)
Chosen(batch, left, acc, k) ==
  IF /\ left[k] > 0 /\ Len(acc) <= NUbatch
     /\ acc = <<>> \/ ~Sequential \/ batch[k].ids[1] = batch[Last(acc)].ids[1] + 1
  THEN Append(acc, k) ELSE acc

NextGroups(batch, left) ==
  LET acc[k \in 0 .. Len(batch)] ==
        IF k = 0 THEN <<>> ELSE Chosen(batch, left, acc[k - 1], k)
  IN  acc[Len(batch)]

(* All groups get the same number of tokens: at least one, as many as      *)
(* n_ubatch allows, until one of them has no more.                         *)
EqualLen(left, chosen) ==
  Min({left[chosen[j]] : j \in DOMAIN chosen} \cup {Max({1, NUbatch \div Len(chosen)})})

NextUbatch(batch, acc) ==
  LET chosen == NextGroups(batch, acc.left)
      len    == EqualLen(acc.left, chosen)
  IN  [left |-> [k \in DOMAIN batch |->
                   IF k \in ToSet(chosen) THEN acc.left[k] - len ELSE acc.left[k]],
       ubs  |-> Append(acc.ubs,
                  [ids  |-> [j \in DOMAIN chosen |-> batch[chosen[j]].ids],
                   len  |-> len,
                   last |-> [j \in DOMAIN chosen |->
                               batch[chosen[j]].from + batch[chosen[j]].len
                                 - acc.left[chosen[j]] + len - 1]])]

SplitOff(batch, acc) ==
  IF \A k \in DOMAIN batch : acc.left[k] = 0 THEN acc ELSE NextUbatch(batch, acc)

Split(batch) ==
  LET acc[i \in 0 .. MaxBatch * MaxGroups] ==
        IF i = 0 THEN [left |-> [k \in DOMAIN batch |-> batch[k].len], ubs |-> <<>>]
        ELSE SplitOff(batch, acc[i - 1])
  IN  acc[MaxBatch * MaxGroups].ubs

(* prepare: try all micro-batches, then put back what was there.           *)
Try(m, ub) == IF m.aborted THEN m ELSE find_slot(m, ub).mem

Tried(m, ubs) ==
  LET at[i \in 0 .. Len(ubs)] == IF i = 0 THEN m ELSE Try(at[i - 1], ubs[i])
  IN  [m EXCEPT !.aborted = at[Len(ubs)].aborted]

(* The state a sequence would continue from.                               *)
StateOf(s) ==
  LET c == mem.tail[s]
  IN  IF c = Nowhere \/ mem.src[c] = Nowhere THEN <<>> ELSE rows[mem.rs_idx[s]][mem.src[c]]

Held == MapThenSumSet(LAMBDA s : Len(StateOf(s)), SeqId)
          + MapThenSumSet(LAMBDA i : Len(saved.cells[i].row), DOMAIN saved.cells)

(* What validation lets a batch be: its groups are disjoint, and its       *)
(* positions follow the last ones.  Bound: the sequences of a group share  *)
(* a cell, or start together.                                              *)
Groups == {<<s>> : s \in SeqId} \cup Pairs

Continues(g) ==
  /\ \A s \in ToSet(g.ids) : mem.tail[s] = mem.tail[g.ids[1]]
  /\ seq_pos_max(mem, g.ids[1]) + g.len \in Pos
  /\ Len(StateOf(g.ids[1])) + g.len <= MaxLen

Batches ==
  LET options == {g \in [ids : Groups, len : 1 .. MaxBatch] : Continues(g)}
      from(g) == [ids |-> g.ids, len |-> g.len, from |-> seq_pos_max(mem, g.ids[1]) + 1]
  IN  {[k \in DOMAIN b |-> from(b[k])] :
         b \in {q \in UNION {[1 .. n -> options] : n \in 1 .. MaxGroups} :
                  \A j, k \in DOMAIN q : j # k => ToSet(q[j].ids) \cap ToSet(q[k].ids) = {}}}

(* s_copy: the row the state of cell c is taken from.  The group is that   *)
(* of the first sequence of the cell, which is then reset.  `found` is what *)
(* find_slot gives.                                                        *)
Run(found) == DOMAIN found.src0

RollIdx(m, c) == IF m.seqs[c] = {} THEN 0 ELSE m.rs_idx[Min(m.seqs[c])]

InputsSet(found) ==
  LET m == found.mem
  IN  [m EXCEPT !.rs_idx = [s \in SeqId |->
         IF NRsSeq > 0 /\ \E c \in Run(found) : m.seqs[c] # {} /\ s = Min(m.seqs[c])
         THEN 0 ELSE @[s]]]

KeepIntermediates(ub) == NRsSeq > 0 /\ ub.len > 1 /\ ub.len <= 1 + NRsSeq

(* The graph: zero the row rs_z, take the rows of the run, put those of    *)
(* the cells behind the groups back, and store what the layers computed.   *)
Computed(found, ub) ==
  LET m           == found.mem
      zeroed      == IF found.rs_z = Nowhere THEN rows ELSE [rows EXCEPT ![0][found.rs_z] = <<>>]
      taken(c)    == zeroed[RollIdx(m, c)][found.src0[c]]
      k(c)        == c - m.head + 1
      after(c, t) == taken(c) \o [i \in 1 .. t |-> Members(ub, k(c))]
  IN  [g \in Group |-> [c \in Cell |->
        IF c \notin Run(found) THEN zeroed[g][c]
        ELSE IF k(c) \in DOMAIN ub.ids
          THEN IF g = 0 \/ (KeepIntermediates(ub) /\ g < ub.len)
               THEN after(c, ub.len - g) ELSE zeroed[g][c]
        ELSE IF g = 0 THEN taken(c) ELSE zeroed[g][c]]]

(* The snapshots of a cell that was moved stay behind.                     *)
KeptAfter(found, ub) ==
  LET decoded == UNION {Members(ub, k) : k \in DOMAIN ub.ids}
      moved   == UNION {found.mem.seqs[c] : c \in {d \in Run(found) : found.src0[d] # d}}
  IN  [s \in SeqId |-> IF s \in decoded
                       THEN IF KeepIntermediates(ub) THEN ub.len - 1 ELSE 0
                       ELSE IF s \in moved THEN 0 ELSE kept[s]]

-----------------------------------------------------------------------------
Init ==
  /\ mem = NoCells
  /\ rows = [g \in Group |-> [c \in Cell |-> <<>>]]
  /\ kept = [s \in SeqId |-> 0]
  /\ todo = <<>>
  /\ saved = [all |-> FALSE, cells |-> <<>>]

Ready == todo = <<>> /\ ~mem.aborted

(* The application does not copy, keep or save while a roll-back waits for *)
(* the next graph (see the README).                                        *)
Settled(S) == \A s \in S : mem.rs_idx[s] = 0

clear(data) ==
  /\ Ready
  /\ mem' = NoCells
  /\ rows' = IF data THEN [g \in Group |-> [c \in Cell |-> <<>>]] ELSE rows
  /\ kept' = [s \in SeqId |-> 0]
  /\ UNCHANGED <<todo, saved>>

Alone(s) == mem.tail[s] # Nowhere /\ mem.seqs[mem.tail[s]] = {s}

(* seq_rm that takes tokens back; with too few snapshots it returns false. *)
SeqRmTail(s, r) ==
  /\ Ready /\ Cuts(mem, s, r)
  /\ Rollback(mem, s, r) <= NRsSeq
  /\ Alone(s)
  /\ Careful => Rollback(mem, s, r) <= kept[s]
  /\ mem' = RolledBack(mem, s, r)
  /\ kept' = [kept EXCEPT ![s] = 0]
  /\ UNCHANGED <<rows, todo, saved>>

SeqRm(s, r) ==
  /\ Ready /\ ~Cuts(mem, s, r)
  /\ mem' = Removed(mem, s, r)
  /\ kept' = IF mem'.tail[s] = Nowhere THEN [kept EXCEPT ![s] = 0] ELSE kept
  /\ UNCHANGED <<rows, todo, saved>>

SeqCp(src, dst) ==
  /\ Ready /\ src # dst /\ Settled({src, dst})
  /\ mem' = Copied(mem, src, dst)
  /\ kept' = [kept EXCEPT ![dst] = 0]
  /\ UNCHANGED <<rows, todo, saved>>
  /\ Held' <= MaxHeld

SeqKeep(s) ==
  /\ Ready /\ Settled(SeqId \ {s})
  /\ mem' = KeptOnly(mem, s)
  /\ kept' = [t \in SeqId |-> IF t = s THEN kept[t] ELSE 0]
  /\ UNCHANGED <<rows, todo, saved>>

(* Only the position of the cell changes.  Bound: it stays a position.     *)
SeqAdd(s, r, d) ==
  /\ Ready /\ Alone(s)
  /\ InRange(mem.pos[mem.tail[s]], r)
  /\ mem.pos[mem.tail[s]] + d \in Pos
  /\ mem' = [mem EXCEPT !.pos[mem.tail[s]] = @ + d]
  /\ UNCHANGED <<rows, kept, todo, saved>>

SeqDiv(s, r, d) ==
  /\ Ready /\ Alone(s)
  /\ InRange(mem.pos[mem.tail[s]], r)
  /\ mem' = [mem EXCEPT !.pos[mem.tail[s]] = @ \div d]
  /\ UNCHANGED <<rows, kept, todo, saved>>

(* eden_decode: split and try; with a slot for all, go on.                 *)
Decode(batch) ==
  LET ubs == Split(batch)
  IN  /\ Ready
      /\ Held + MapThenSumSet(LAMBDA k : batch[k].len, DOMAIN batch) <= MaxHeld
      /\ mem' = Tried(mem, ubs)
      /\ todo' = IF mem'.aborted THEN <<>> ELSE ubs
      /\ UNCHANGED <<rows, kept, saved>>

(* process_ubatch: apply, build, set the inputs, compute.                  *)
ProcessUbatch ==
  LET ub    == Head(todo)
      found == find_slot(mem, ub)
  IN  /\ todo # <<>> /\ ~mem.aborted
      /\ IF found.mem.aborted
           THEN mem' = found.mem /\ UNCHANGED <<rows, kept>>
           ELSE /\ mem' = InputsSet(found)
                /\ rows' = Computed(found, ub)
                /\ kept' = KeptAfter(found, ub)
      /\ todo' = Tail(todo)
      /\ UNCHANGED saved

-----------------------------------------------------------------------------
(* Saving and restoring.  What is written of a cell is its row of group 0. *)

Written(c) == [pos |-> mem.pos[c], seqs |-> mem.seqs[c], row |-> rows[0][c]]

InOrder(C) == CHOOSE f \in [1 .. Cardinality(C) -> C] : \A i, j \in DOMAIN f : i < j => f[i] < f[j]

StateWriteSeq(s) ==
  /\ Ready /\ "one" \in Saves /\ Settled({s})
  /\ saved' = [all   |-> FALSE,
               cells |-> IF mem.tail[s] = Nowhere THEN <<>>
                         ELSE <<[Written(mem.tail[s]) EXCEPT !.seqs = {}]>>]
  /\ UNCHANGED <<mem, rows, kept, todo>>
  /\ Held' <= MaxHeld

StateWriteAll ==
  /\ Ready /\ "all" \in Saves /\ Settled(SeqId)
  /\ saved' = [all   |-> TRUE,
               cells |-> LET used == InOrder({c \in Cell : mem.seqs[c] # {}})
                         IN  [i \in DOMAIN used |-> Written(used[i])]]
  /\ UNCHANGED <<mem, rows, kept, todo>>
  /\ Held' <= MaxHeld

(* A sequence is removed, given a slot as if by a batch, and its row set.  *)
StateReadSeq(s) ==
  LET m1   == Removed(mem, s, <<0, -1>>)
      cell == saved.cells[1]
      m2   == find_slot(m1, [ids |-> << <<s>> >>, len |-> 1, last |-> <<cell.pos>>]).mem
  IN  /\ Ready /\ ~saved.all
      /\ IF saved.cells = <<>>
           THEN mem' = m1 /\ UNCHANGED rows
           ELSE IF m2.aborted THEN mem' = m2 /\ UNCHANGED rows
           ELSE /\ mem' = [m2 EXCEPT !.src[m2.head] = m2.head]
                /\ rows' = [rows EXCEPT ![0][m2.head] = cell.row]
      /\ kept' = [kept EXCEPT ![s] = 0]
      /\ UNCHANGED <<todo, saved>>
      /\ Held' <= MaxHeld

(* All is cleared, and the cells are read to the front.                    *)
StateReadAll ==
  LET count    == Len(saved.cells)
      read(c)  == c < count
      cell(c)  == saved.cells[c + 1]
      owner(s) == {c \in Cell : read(c) /\ s \in cell(c).seqs}
  IN  /\ Ready /\ saved.all
      /\ mem' = [NoCells EXCEPT
                   !.pos  = [c \in Cell |-> IF read(c) THEN cell(c).pos ELSE -1],
                   !.src  = [c \in Cell |-> IF read(c) THEN c ELSE Nowhere],
                   !.seqs = [c \in Cell |-> IF read(c) THEN cell(c).seqs ELSE {}],
                   !.tail = [s \in SeqId |-> IF owner(s) = {} THEN Nowhere ELSE Min(owner(s))],
                   !.used = count]
      /\ rows' = [g \in Group |-> [c \in Cell |-> IF g = 0 /\ read(c) THEN cell(c).row ELSE <<>>]]
      /\ kept' = [s \in SeqId |-> 0]
      /\ UNCHANGED <<todo, saved>>

-----------------------------------------------------------------------------
Next ==
  \/ \E data \in BOOLEAN : clear(data)
  \/ \E s \in SeqId, r \in RmRanges : SeqRmTail(s, r) \/ SeqRm(s, r)
  \/ \E src, dst \in SeqId : SeqCp(src, dst)
  \/ \E s \in SeqId : SeqKeep(s)
  \/ \E s \in SeqId, r \in RmRanges, d \in Deltas : SeqAdd(s, r, d)
  \/ \E s \in SeqId, r \in RmRanges, d \in Divs : SeqDiv(s, r, d)
  \/ \E s \in SeqId : StateWriteSeq(s) \/ StateReadSeq(s)
  \/ StateWriteAll \/ StateReadAll
  \/ \E batch \in Batches : Decode(batch)
  \/ ProcessUbatch

Spec == Init /\ [][Next]_vars

-----------------------------------------------------------------------------
(* Properties.                                                             *)

TypeOK ==
  /\ \A c \in Cell : /\ mem.pos[c] \in Pos \cup {-1} /\ mem.seqs[c] \subseteq SeqId
                     /\ {mem.src[c], mem.tail[c]} \subseteq Cell \cup {Nowhere}
                     /\ mem.rs_idx[c] \in Group /\ kept[c] \in 0 .. NRsSeq
  /\ mem.head \in Cell /\ mem.used \in 0 .. Size

(* The check of find_slot in debug builds, and the counter: the tails are  *)
(* the sequences' cells, a cell has a position exactly when it has a       *)
(* sequence, and `used` counts these cells.                                *)
TailsRight ==
  /\ \A s \in SeqId, c \in Cell : mem.tail[s] = c <=> s \in mem.seqs[c]
  /\ \A c \in Cell : mem.pos[c] = -1 <=> mem.seqs[c] = {}
  /\ mem.used = Cardinality({c \in Cell : mem.seqs[c] # {}})

(* No assertion of find_slot fails: there is a cell for every sequence and *)
(* a zero state for every one that starts.                                 *)
NeverAborts == ~mem.aborted

(* Copies on demand, swapped cells, staged sources, zeroed rows, snapshots *)
(* and restored cells never show: every sequence has the state and the     *)
(* position that its own history gives it.                                 *)
AbsState == [s \in SeqId |->
  [hist |-> StateOf(s), pos |-> IF mem.tail[s] = Nowhere THEN -1 ELSE mem.pos[mem.tail[s]]]]

AbsSaved ==
  LET of(c) == [hist |-> c.row, pos |-> c.pos]
      none  == [hist |-> <<>>, pos |-> -1]
  IN  [all |-> saved.all,
       of  |-> [s \in SeqId |->
                  LET mine == {i \in DOMAIN saved.cells : saved.all => s \in saved.cells[i].seqs}
                  IN  IF mine = {} THEN none ELSE of(saved.cells[Min(mine)])]]

Store == INSTANCE StateStore
         WITH state <- AbsState, saved <- AbsSaved, MaxAppend <- MaxBatch,
              Groups <- {ToSet(g) : g \in Groups}

ImplementsStates == Store!Spec

(* A roll-back that seq_rm accepts leaves the state before the tokens it   *)
(* takes back: n_rs_seq is the "number of recurrent-state snapshots per    *)
(* seq for rollback" (eden.h:341).                                         *)
RollbackExact == [][\A s \in SeqId, r \in RmRanges :
  SeqRmTail(s, r) =>
    LET old == AbsState[s].hist
    IN  AbsState'[s].hist = SubSeq(old, 1, Len(old) - Rollback(mem, s, r))]_vars
=============================================================================
