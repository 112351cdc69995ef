------------------------------ MODULE KvCells ------------------------------
(***************************************************************************)
(* The metadata of the cells of one KV-cache stream: class eden_kv_cells   *)
(* (src/eden-kv-cells.h).  A cells value is a record                       *)
(*   pos[i]        position stored in cell i, -1 when the cell is empty    *)
(*   shift[i]      position change not yet applied to the K data           *)
(*   seq[i]        the sequences the cell belongs to                       *)
(*   used          the non-empty cells                                     *)
(*   seq_pos[s][p] how many cells of sequence s hold position p            *)
(*   has_shift     some shift may be pending                               *)
(* The cache applies a method of the class to every cell that a loop       *)
(* selects; the cells of such a loop do not influence each other, so an    *)
(* operator here takes the selected set and does the whole loop.           *)
(* The 2D extension of a cell (`ext`) is left out: no decision reads it    *)
(* except the image mask.                                                  *)
(***************************************************************************)
EXTENDS Integers, FiniteSets

CONSTANTS Size,      \* number of cells of a stream (kv_size)
          NSeqMax,   \* number of sequence ids (n_seq_max)
          MaxPos     \* bound: largest position a token may get

ASSUME SizeAssumption == Size \in Nat \ {0}
ASSUME NSeqMaxAssumption == NSeqMax \in Nat \ {0}
ASSUME MaxPosAssumption == MaxPos \in Nat

Cell == 0 .. Size - 1
SeqId == 0 .. NSeqMax - 1
Pos == 0 .. MaxPos
Empty == -1

CellsType == [pos       : [Cell -> Pos \cup {Empty}],
              shift     : [Cell -> Int],
              seq       : [Cell -> SUBSET SeqId],
              used      : SUBSET Cell,
              seq_pos   : [SeqId -> [Pos -> Nat]],
              has_shift : BOOLEAN]

-----------------------------------------------------------------------------
(* seq_pos bookkeeping.  G[i] is the set of sequences that cell i gains or *)
(* loses; the count of (s, p) moves by the cells concerned.                *)

CellsAt(pos, G, s, p) == {i \in Cell : s \in G[i] /\ pos[i] = p}

seq_pos_inc(cnt, pos, G) ==
  [s \in SeqId |-> [p \in Pos |-> cnt[s][p] + Cardinality(CellsAt(pos, G, s, p))]]

seq_pos_dec(cnt, pos, G) ==
  [s \in SeqId |-> [p \in Pos |-> cnt[s][p] - Cardinality(CellsAt(pos, G, s, p))]]

(* The sequences of the cells of M, none elsewhere.                        *)
Within(M, seq) == [i \in Cell |-> IF i \in M THEN seq[i] ELSE {}]

-----------------------------------------------------------------------------
(* The methods of the class.                                               *)

reset == [pos       |-> [i \in Cell |-> Empty],
          shift     |-> [i \in Cell |-> 0],
          seq       |-> [i \in Cell |-> {}],
          used      |-> {},
          seq_pos   |-> [s \in SeqId |-> [p \in Pos |-> 0]],
          has_shift |-> FALSE]

reset_shift(c) == [c EXCEPT !.shift = [i \in Cell |-> 0], !.has_shift = FALSE]

is_empty(c, i) == c.pos[i] = Empty

(* Mutant: the range includes its end.                                     *)
pos_in_closed(c, i, p0, p1) == c.pos[i] >= p0 /\ c.pos[i] <= p1

pos_in(c, i, p0, p1) == c.pos[i] >= p0 /\ c.pos[i] < p1

PosOf(c, s) == {p \in Pos : c.seq_pos[s][p] > 0}

seq_pos_min(c, s) ==
  IF PosOf(c, s) = {} THEN -1 ELSE CHOOSE p \in PosOf(c, s) : \A q \in PosOf(c, s) : p <= q

seq_pos_max(c, s) ==
  IF PosOf(c, s) = {} THEN -1 ELSE CHOOSE p \in PosOf(c, s) : \A q \in PosOf(c, s) : p >= q

(* Empty the cells of M, whose sequences are already accounted for.        *)
Vacate(c, M) ==
  [c EXCEPT !.pos   = [i \in Cell |-> IF i \in M THEN Empty ELSE c.pos[i]],
            !.seq   = [i \in Cell |-> IF i \in M THEN {} ELSE c.seq[i]],
            !.shift = [i \in Cell |-> IF i \in M THEN 0 ELSE c.shift[i]],
            !.used  = c.used \ M]

(* rm(i) for every i in M.                                                 *)
rm(c, M) ==
  [Vacate(c, M) EXCEPT !.seq_pos = seq_pos_dec(c.seq_pos, c.pos, Within(M, c.seq))]

(* seq_rm(i, s) for every i and every s in G[i], G[i] a subset of seq[i].  *)
Freed(c, G) == {i \in Cell : G[i] # {} /\ c.seq[i] \subseteq G[i]}

seq_rm(c, G) ==
  LET left == [c EXCEPT !.seq = [i \in Cell |-> c.seq[i] \ G[i]]]
  IN  [Vacate(left, Freed(c, G)) EXCEPT !.seq_pos = seq_pos_dec(c.seq_pos, c.pos, G)]

(* seq_keep(i, s) for every cell.                                          *)
Dropped(c, s) == {i \in Cell : c.seq[i] # {} /\ s \notin c.seq[i]}

seq_keep(c, s) ==
  LET kept == {i \in Cell : s \in c.seq[i]}
      only == [i \in Cell |-> IF i \in kept THEN {s} ELSE c.seq[i]]
  IN  [Vacate([c EXCEPT !.seq = only], Dropped(c, s)) EXCEPT
         !.seq_pos = seq_pos_inc(seq_pos_dec(c.seq_pos, c.pos, c.seq),
                                 c.pos, Within(kept, only))]

(* seq_add(i, s) for every i in M: the count grows even when the cell      *)
(* already has s, which only an assertion of debug builds rules out.       *)
seq_add(c, M, s) ==
  [c EXCEPT !.seq     = [i \in Cell |-> IF i \in M THEN c.seq[i] \cup {s} ELSE c.seq[i]],
            !.seq_pos = seq_pos_inc(c.seq_pos, c.pos, Within(M, [i \in Cell |-> {s}]))]

(* pos_set and seq_add of fresh tokens: P[i] and S[i] for the empty cells  *)
(* i of M.                                                                 *)
pos_set(c, M, P, S) ==
  LET pos == [i \in Cell |-> IF i \in M THEN P[i] ELSE c.pos[i]]
  IN  [c EXCEPT !.pos     = pos,
                !.used    = c.used \cup M,
                !.seq     = [i \in Cell |-> IF i \in M THEN S[i] ELSE c.seq[i]],
                !.seq_pos = seq_pos_inc(c.seq_pos, pos, Within(M, S))]

(* The cells of M take the positions P and the extra pending shift D;      *)
(* cells whose position falls below 0 become empty.                        *)
Repos(c, M, P, D) ==
  LET gone  == {i \in M : P[i] < 0}
      moved == [c EXCEPT !.pos   = [i \in Cell |-> IF i \in M THEN P[i] ELSE c.pos[i]],
                         !.shift = [i \in Cell |-> IF i \in M THEN c.shift[i] + D[i] ELSE c.shift[i]]]
  IN  [Vacate(moved, gone) EXCEPT
         !.seq_pos   = seq_pos_inc(seq_pos_dec(c.seq_pos, c.pos, Within(M, c.seq)),
                                   moved.pos, Within(M \ gone, c.seq)),
         !.has_shift = c.has_shift \/ M # {}]

(* pos_add(i, d) for every i in M.                                         *)
pos_add(c, M, d) ==
  Repos(c, M, [i \in Cell |-> c.pos[i] + d], [i \in Cell |-> d])

(* Mutant: the division rounds up.                                         *)
pos_div_up(c, M, d) ==
  Repos(c, M, [i \in Cell |-> (c.pos[i] + d - 1) \div d],
              [i \in Cell |-> c.pos[i] - (c.pos[i] \div d)])

(* pos_div(i, d) for every i in M: the shift it accumulates is             *)
(* old position - new position.                                            *)
pos_div(c, M, d) ==
  Repos(c, M, [i \in Cell |-> c.pos[i] \div d],
              [i \in Cell |-> c.pos[i] - (c.pos[i] \div d)])

(* cp(idxs) saves position and sequences of the cells of M (not their      *)
(* shift); set(idxs, saved) writes them back.                              *)
cp(c, M) == [i \in M |-> [pos |-> c.pos[i], seq |-> c.seq[i]]]

set(c, saved) ==
  LET M   == DOMAIN saved
      pos == [i \in Cell |-> IF i \in M THEN saved[i].pos ELSE c.pos[i]]
      seq == [i \in Cell |-> IF i \in M THEN saved[i].seq ELSE c.seq[i]]
  IN  [c EXCEPT !.pos     = pos,
                !.seq     = seq,
                !.used    = (c.used \ M) \cup {i \in M : saved[i].pos # Empty},
                !.seq_pos = seq_pos_inc(seq_pos_dec(c.seq_pos, c.pos, Within(M, c.seq)),
                                        pos, Within(M, seq))]

-----------------------------------------------------------------------------
(* The class invariant: `used` is the set of occupied cells, a cell is     *)
(* occupied exactly when some sequence owns it, an empty cell has nothing  *)
(* pending, shifts are pending only under has_shift, and seq_pos counts    *)
(* the cells - which is what makes seq_pos_min and seq_pos_max right.      *)
Consistent(c) ==
  /\ c.used = {i \in Cell : c.pos[i] # Empty}
  /\ \A i \in Cell : c.pos[i] = Empty <=> c.seq[i] = {}
  /\ \A i \in Cell : c.pos[i] = Empty => c.shift[i] = 0
  /\ \A i \in Cell : ~c.has_shift => c.shift[i] = 0
  /\ \A s \in SeqId : \A p \in Pos :
        c.seq_pos[s][p] = Cardinality(CellsAt(c.pos, c.seq, s, p))
=============================================================================
