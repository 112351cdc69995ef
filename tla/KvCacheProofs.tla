--------------------------- MODULE KvCacheProofs ---------------------------
(***************************************************************************)
(* Safety of the KV cache for every number of cells, sequences, positions  *)
(* and micro-batches: whatever the application calls and whichever graph   *)
(* fails, the bookkeeping of the cells stays right (CellsConsistent).      *)
(* First, every method of eden_kv_cells (module KvCells) keeps the cells   *)
(* of a stream consistent; then, so does every operation of the cache.     *)
(*                                                                         *)
(* After that, what prepare() and restore of the KV cache achieve.  With a *)
(* sliding window or without one, a decode gives up only when cells are    *)
(* really lacking (TryInv).  Without a window (NSwa = 0,                   *)
(* EDEN_SWA_TYPE_NONE) the slots found on the simulated cache are there    *)
(* when they are used, and a decode without slots changes nothing          *)
(* (PrepInv); with one, a placement purges cells that restore does not put *)
(* back.  What a window may count on then is that a decode of one          *)
(* micro-batch loses nothing that its tokens attend to (WinInv).           *)
(***************************************************************************)
EXTENDS KvCache, FiniteSetTheorems, SequenceTheorems, WellFoundedInduction, TLAPS

Sound(c) == c \in CellsType /\ Consistent(c)

-----------------------------------------------------------------------------
(* Counting.                                                               *)

LEMMA PosFacts ==
  Pos \subseteq Nat /\ Empty \notin Pos /\ Empty \in Int /\ Pos \cup {Empty} \subseteq Int
  BY MaxPosAssumption DEF Pos, Empty

LEMMA CellFinite == \A A \in SUBSET Cell : IsFiniteSet(A) /\ Cardinality(A) \in Nat
<1>1. IsFiniteSet(Cell)
  BY FS_Interval, SizeAssumption DEF Cell
<1> QED
  BY <1>1, FS_Subset, FS_CardinalityType

(* A set of cells that loses D and then gains I.                           *)
LEMMA SwapCount ==
  ASSUME NEW O \in SUBSET Cell, NEW D \in SUBSET O, NEW I \in SUBSET Cell,
         (O \ D) \cap I = {}
  PROVE  Cardinality((O \ D) \cup I) = Cardinality(O) - Cardinality(D) + Cardinality(I)
<1>1. Cardinality(O \ D) = Cardinality(O) - Cardinality(D)
  <2>1. O \cap D = D
    OBVIOUS
  <2> QED
    BY <2>1, CellFinite, FS_Difference
<1>2. /\ IsFiniteSet(O \ D) /\ IsFiniteSet(I)
      /\ Cardinality(O \ D) \in Nat /\ Cardinality(I) \in Nat
  BY CellFinite
<1>3. Cardinality((O \ D) \cup I) = Cardinality(O \ D) + Cardinality(I)
                                      - Cardinality((O \ D) \cap I)
  BY <1>2, FS_Union
<1>4. Cardinality((O \ D) \cap I) = 0
  BY FS_EmptySet
<1> QED
  BY <1>1, <1>2, <1>3, <1>4, CellFinite

(* The cells of s at p, when the cells of c lose the sequences of G and    *)
(* gain, at the positions q, those of A.                                   *)
Swapped(c, pos, seq, G, q, A, s, p) ==
  /\ \A i \in Cell : G[i] \subseteq c.seq[i]
  /\ CellsAt(pos, seq, s, p) =
       (CellsAt(c.pos, c.seq, s, p) \ CellsAt(c.pos, G, s, p)) \cup CellsAt(q, A, s, p)
  /\ (CellsAt(c.pos, c.seq, s, p) \ CellsAt(c.pos, G, s, p)) \cap CellsAt(q, A, s, p) = {}

(* The counts after cells lost the sequences of G and gained those of A.   *)
LEMMA CountSwap ==
  ASSUME NEW c, Sound(c), NEW pos, NEW seq, NEW G, NEW q, NEW A, NEW s \in SeqId, NEW p \in Pos,
         Swapped(c, pos, seq, G, q, A, s, p)
  PROVE  /\ seq_pos_inc(seq_pos_dec(c.seq_pos, c.pos, G), q, A)[s][p]
              = Cardinality(CellsAt(pos, seq, s, p))
         /\ Cardinality(CellsAt(pos, seq, s, p)) \in Nat
<1> DEFINE O == CellsAt(c.pos, c.seq, s, p)
           D == CellsAt(c.pos, G, s, p)
           I == CellsAt(q, A, s, p)
<1>1. O \in SUBSET Cell /\ D \in SUBSET O /\ I \in SUBSET Cell
  BY DEF CellsAt, Swapped
<1>2. Cardinality((O \ D) \cup I) = Cardinality(O) - Cardinality(D) + Cardinality(I)
  BY <1>1, SwapCount DEF Swapped
<1>3. seq_pos_inc(seq_pos_dec(c.seq_pos, c.pos, G), q, A)[s][p]
        = c.seq_pos[s][p] - Cardinality(D) + Cardinality(I)
  BY DEF seq_pos_inc, seq_pos_dec
<1>4. c.seq_pos[s][p] = Cardinality(O)
  BY DEF Sound, Consistent
<1>5. CellsAt(pos, seq, s, p) \in SUBSET Cell
  BY DEF CellsAt
<1> QED
  BY <1>2, <1>3, <1>4, <1>5, CellFinite DEF Swapped
-----------------------------------------------------------------------------
(* The methods.                                                            *)

(* reset() gives consistent cells.                                         *)
LEMMA ResetSound == Sound(reset)
<1>1. reset \in CellsType
  BY DEF reset, CellsType
<1>2. \A s \in SeqId : \A p \in Pos : CellsAt(reset.pos, reset.seq, s, p) = {}
  BY PosFacts DEF reset, CellsAt
<1>3. \A s \in SeqId : \A p \in Pos :
        reset.seq_pos[s][p] = Cardinality(CellsAt(reset.pos, reset.seq, s, p))
  BY <1>2, FS_EmptySet DEF reset
<1> QED
  BY <1>1, <1>3 DEF Sound, Consistent, reset

(* The counts when cells only lose, or only gain, sequences.               *)
LEMMA CountDec ==
  ASSUME NEW c, Sound(c), NEW pos, NEW seq, NEW G, NEW s \in SeqId, NEW p \in Pos,
         \A i \in Cell : G[i] \subseteq c.seq[i],
         CellsAt(pos, seq, s, p) = CellsAt(c.pos, c.seq, s, p) \ CellsAt(c.pos, G, s, p)
  PROVE  /\ seq_pos_dec(c.seq_pos, c.pos, G)[s][p] = Cardinality(CellsAt(pos, seq, s, p))
         /\ Cardinality(CellsAt(pos, seq, s, p)) \in Nat
<1> DEFINE O == CellsAt(c.pos, c.seq, s, p)
           D == CellsAt(c.pos, G, s, p)
           N == (O \ D) \cup {}
<1>1. O \in SUBSET Cell /\ D \in SUBSET O
  BY DEF CellsAt
<1>2. Cardinality(N) = Cardinality(O) - Cardinality(D) + Cardinality({})
  BY <1>1, SwapCount
<1>3. seq_pos_dec(c.seq_pos, c.pos, G)[s][p] = Cardinality(O) - Cardinality(D)
  BY DEF seq_pos_dec, Sound, Consistent
<1>4. N = CellsAt(pos, seq, s, p) /\ CellsAt(pos, seq, s, p) \in SUBSET Cell
  BY <1>1
<1>5. /\ Cardinality({}) = 0 /\ Cardinality(O) \in Nat /\ Cardinality(D) \in Nat
      /\ Cardinality(CellsAt(pos, seq, s, p)) \in Nat
  BY <1>1, <1>4, CellFinite, FS_EmptySet
<1> HIDE DEF O, D, N
<1> QED
  BY <1>2, <1>3, <1>4, <1>5

LEMMA CountInc ==
  ASSUME NEW c, Sound(c), NEW pos, NEW seq, NEW q, NEW A, NEW s \in SeqId, NEW p \in Pos,
         CellsAt(pos, seq, s, p) = CellsAt(c.pos, c.seq, s, p) \cup CellsAt(q, A, s, p),
         CellsAt(c.pos, c.seq, s, p) \cap CellsAt(q, A, s, p) = {}
  PROVE  /\ seq_pos_inc(c.seq_pos, q, A)[s][p] = Cardinality(CellsAt(pos, seq, s, p))
         /\ Cardinality(CellsAt(pos, seq, s, p)) \in Nat
<1> DEFINE O == CellsAt(c.pos, c.seq, s, p)
           I == CellsAt(q, A, s, p)
           N == (O \ {}) \cup I
<1>1. O \in SUBSET Cell /\ I \in SUBSET Cell /\ {} \in SUBSET O
  BY DEF CellsAt
<1>2. Cardinality(N) = Cardinality(O) - Cardinality({}) + Cardinality(I)
  BY <1>1, SwapCount
<1>3. seq_pos_inc(c.seq_pos, q, A)[s][p] = Cardinality(O) + Cardinality(I)
  BY DEF seq_pos_inc, Sound, Consistent
<1>4. N = CellsAt(pos, seq, s, p) /\ CellsAt(pos, seq, s, p) \in SUBSET Cell
  BY <1>1
<1>5. /\ Cardinality({}) = 0 /\ Cardinality(O) \in Nat /\ Cardinality(I) \in Nat
      /\ Cardinality(CellsAt(pos, seq, s, p)) \in Nat
  BY <1>1, <1>4, CellFinite, FS_EmptySet
<1> HIDE DEF O, I, N
<1> QED
  BY <1>2, <1>3, <1>4, <1>5

-----------------------------------------------------------------------------
(* The fields of cells after an update.                                    *)

(* CellsType before the cells that fell below position 0 are emptied.      *)
WideType == [pos       : [Cell -> Int],
             shift     : [Cell -> Int],
             seq       : [Cell -> SUBSET SeqId],
             used      : SUBSET Cell,
             seq_pos   : [SeqId -> [Pos -> Nat]],
             has_shift : BOOLEAN]

LEMMA WideFacts ==
  /\ \A c \in CellsType : c \in WideType
  /\ \A c \in WideType : c.pos \in [Cell -> Pos \cup {Empty}] => c \in CellsType
BY PosFacts DEF CellsType, WideType

LEMMA VacateFields ==
  ASSUME NEW c \in WideType, NEW M \in SUBSET Cell
  PROVE  /\ Vacate(c, M) \in WideType
         /\ Vacate(c, M).pos = [i \in Cell |-> IF i \in M THEN Empty ELSE c.pos[i]]
         /\ Vacate(c, M).seq = [i \in Cell |-> IF i \in M THEN {} ELSE c.seq[i]]
         /\ Vacate(c, M).shift = [i \in Cell |-> IF i \in M THEN 0 ELSE c.shift[i]]
         /\ Vacate(c, M).used = c.used \ M
         /\ Vacate(c, M).has_shift = c.has_shift
<1> DEFINE pos == [i \in Cell |-> IF i \in M THEN Empty ELSE c.pos[i]]
           seq == [i \in Cell |-> IF i \in M THEN {} ELSE c.seq[i]]
           shift == [i \in Cell |-> IF i \in M THEN 0 ELSE c.shift[i]]
           used == c.used \ M
<1>1. pos \in [Cell -> Int] /\ seq \in [Cell -> SUBSET SeqId]
      /\ shift \in [Cell -> Int] /\ used \in SUBSET Cell
  BY PosFacts DEF WideType
<1>2. Vacate(c, M) = [c EXCEPT !.pos = pos, !.seq = seq, !.shift = shift, !.used = used]
  BY DEF Vacate
<1> HIDE DEF pos, seq, shift, used
<1>3. /\ Vacate(c, M) \in WideType
      /\ Vacate(c, M).pos = pos /\ Vacate(c, M).seq = seq /\ Vacate(c, M).shift = shift
      /\ Vacate(c, M).used = used /\ Vacate(c, M).has_shift = c.has_shift
  BY <1>1, <1>2 DEF WideType
<1> QED
  BY <1>3 DEF pos, seq, shift, used

(* d is cells but for its counts, which are those of its contents.         *)
Wide(d) == d.seq_pos \in [SeqId -> [Pos -> Nat]] => d \in WideType

Shape(d) ==
  /\ d.pos \in [Cell -> Pos \cup {Empty}]
  /\ d.used = {i \in Cell : d.pos[i] # Empty}
  /\ \A i \in Cell : d.pos[i] = Empty <=> d.seq[i] = {}
  /\ \A i \in Cell : d.pos[i] = Empty => d.shift[i] = 0
  /\ \A i \in Cell : ~d.has_shift => d.shift[i] = 0

IsCounts(cnt) == cnt = [s \in SeqId |-> [p \in Pos |-> cnt[s][p]]]

Counted(d) ==
  /\ IsCounts(d.seq_pos)
  /\ \A s \in SeqId : \A p \in Pos :
       /\ d.seq_pos[s][p] = Cardinality(CellsAt(d.pos, d.seq, s, p))
       /\ Cardinality(CellsAt(d.pos, d.seq, s, p)) \in Nat

LEMMA IsCountsOfOps ==
  ASSUME NEW cnt, NEW pos, NEW G
  PROVE  IsCounts(seq_pos_inc(cnt, pos, G)) /\ IsCounts(seq_pos_dec(cnt, pos, G))
BY DEF IsCounts, seq_pos_inc, seq_pos_dec

LEMMA Assemble ==
  ASSUME NEW d, Wide(d), Shape(d), Counted(d)
  PROVE  Sound(d)
<1> DEFINE cnt == d.seq_pos
<1>1. \A s \in SeqId : \A p \in Pos : cnt[s][p] \in Nat
  BY DEF Counted
<1>2. cnt = [s \in SeqId |-> [p \in Pos |-> cnt[s][p]]]
  BY DEF Counted, IsCounts
<1>3. \A s \in SeqId : [p \in Pos |-> cnt[s][p]] \in [Pos -> Nat]
  BY <1>1
<1>4. cnt \in [SeqId -> [Pos -> Nat]]
  <2> HIDE DEF cnt
  <2> QED
    BY <1>2, <1>3
<1>5. d \in CellsType
  BY <1>4, WideFacts DEF Wide, Shape
<1>6. Consistent(d)
  BY DEF Consistent, Shape, Counted
<1> QED
  BY <1>5, <1>6 DEF Sound

(* New counts, and a new flag, in place of the old.                        *)
LEMMA SetCounts ==
  ASSUME NEW c \in WideType, NEW cnt
  PROVE  LET d == [c EXCEPT !.seq_pos = cnt]
         IN  /\ d.pos = c.pos /\ d.seq = c.seq /\ d.shift = c.shift /\ d.used = c.used
             /\ d.has_shift = c.has_shift /\ d.seq_pos = cnt
             /\ Wide(d)
BY DEF WideType, Wide

LEMMA SetCountsFlag ==
  ASSUME NEW c \in WideType, NEW cnt, NEW h \in BOOLEAN
  PROVE  LET d == [c EXCEPT !.seq_pos = cnt, !.has_shift = h]
         IN  /\ d.pos = c.pos /\ d.seq = c.seq /\ d.shift = c.shift /\ d.used = c.used
             /\ d.has_shift = h /\ d.seq_pos = cnt
             /\ Wide(d)
BY DEF WideType, Wide

(* reset_shift() keeps the cells consistent.                               *)
LEMMA ResetShiftSound ==
  ASSUME NEW c, Sound(c)
  PROVE  Sound(reset_shift(c))
<1> DEFINE d == reset_shift(c)
           zero == [i \in Cell |-> 0]
<1>1. zero \in [Cell -> Int] /\ d = [c EXCEPT !.shift = zero, !.has_shift = FALSE]
  BY DEF reset_shift
<1>2. \A i \in Cell : zero[i] = 0
  OBVIOUS
<1> HIDE DEF d, zero
<1>3. /\ d \in CellsType
      /\ d.pos = c.pos /\ d.seq = c.seq /\ d.shift = zero /\ d.used = c.used
      /\ d.seq_pos = c.seq_pos
  BY <1>1 DEF Sound, CellsType
<1>4. Consistent(d)
  BY <1>2, <1>3 DEF Sound, Consistent
<1> QED
  BY <1>3, <1>4 DEF Sound, d

(* seq_rm() on any cells and sequences that the cells have.                *)
LEMMA SeqRmSound ==
  ASSUME NEW c, Sound(c), NEW G, \A i \in Cell : G[i] \subseteq c.seq[i]
  PROVE  /\ Sound(seq_rm(c, G))
         /\ \A i \in Cell : c.shift[i] = 0 => seq_rm(c, G).shift[i] = 0
<1> DEFINE F == Freed(c, G)
           sq == [i \in Cell |-> c.seq[i] \ G[i]]
           left == [c EXCEPT !.seq = sq]
           v == Vacate(left, F)
           cnt == seq_pos_dec(c.seq_pos, c.pos, G)
           d == seq_rm(c, G)
<1>1. d = [v EXCEPT !.seq_pos = cnt]
  BY DEF seq_rm
<1>2. sq \in [Cell -> SUBSET SeqId] /\ F \in SUBSET Cell /\ c \in WideType
  BY WideFacts DEF Freed, Sound, CellsType
<1>3. \A i \in Cell : i \in F <=> G[i] # {} /\ c.seq[i] \subseteq G[i]
  BY DEF Freed
<1>4. \A i \in Cell : sq[i] = c.seq[i] \ G[i]
  OBVIOUS
<1> HIDE DEF F, sq
<1>5. /\ left \in WideType /\ left.pos = c.pos /\ left.seq = sq /\ left.shift = c.shift
      /\ left.used = c.used /\ left.has_shift = c.has_shift
  BY <1>2 DEF WideType
<1> HIDE DEF left
<1>6. /\ v \in WideType
      /\ v.pos = [i \in Cell |-> IF i \in F THEN Empty ELSE c.pos[i]]
      /\ v.seq = [i \in Cell |-> IF i \in F THEN {} ELSE sq[i]]
      /\ v.shift = [i \in Cell |-> IF i \in F THEN 0 ELSE c.shift[i]]
      /\ v.used = c.used \ F /\ v.has_shift = c.has_shift
  BY <1>2, <1>5, VacateFields
<1> HIDE DEF v, cnt, d
<1>7. /\ d.pos = v.pos /\ d.seq = v.seq /\ d.shift = v.shift /\ d.used = v.used
      /\ d.has_shift = v.has_shift /\ d.seq_pos = cnt /\ Wide(d)
  BY <1>1, <1>6, SetCounts
<1>8. \A i \in Cell : d.seq[i] = c.seq[i] \ G[i] /\ (d.pos[i] = c.pos[i] \/ d.seq[i] = {})
  BY <1>3, <1>4, <1>6, <1>7
<1>9. \A s \in SeqId : \A p \in Pos :
        CellsAt(d.pos, d.seq, s, p) = CellsAt(c.pos, c.seq, s, p) \ CellsAt(c.pos, G, s, p)
  BY <1>8 DEF CellsAt
<1>10. Counted(d)
  <2>1. IsCounts(cnt)
    BY IsCountsOfOps DEF cnt
  <2>2. \A s \in SeqId : \A p \in Pos :
          /\ cnt[s][p] = Cardinality(CellsAt(d.pos, d.seq, s, p))
          /\ Cardinality(CellsAt(d.pos, d.seq, s, p)) \in Nat
    BY <1>9, CountDec DEF cnt
  <2> QED
    BY <1>7, <2>1, <2>2 DEF Counted
<1>11. Shape(d)
  <2>1. \A i \in Cell : d.pos[i] = Empty <=> d.seq[i] = {}
    BY <1>3, <1>4, <1>6, <1>7, PosFacts DEF Sound, Consistent
  <2>2. d.used = {i \in Cell : d.pos[i] # Empty}
    BY <1>6, <1>7 DEF Sound, Consistent
  <2>3. \A i \in Cell : (d.pos[i] = Empty => d.shift[i] = 0) /\ (~d.has_shift => d.shift[i] = 0)
    BY <1>6, <1>7 DEF Sound, Consistent
  <2>4. d.pos \in [Cell -> Pos \cup {Empty}]
    BY <1>6, <1>7 DEF Sound, CellsType
  <2> QED
    BY <2>1, <2>2, <2>3, <2>4 DEF Shape
<1> QED
  BY <1>6, <1>7, <1>10, <1>11, Assemble DEF d

(* rm() of any cells; the cells end up empty.                              *)
LEMMA RmSound ==
  ASSUME NEW c, Sound(c), NEW M \in SUBSET Cell
  PROVE  /\ Sound(rm(c, M))
         /\ \A i \in Cell : c.shift[i] = 0 => rm(c, M).shift[i] = 0
         /\ \A i \in M : rm(c, M).pos[i] = Empty
         /\ \A i \in Cell \ M : rm(c, M).pos[i] = c.pos[i]
<1> DEFINE G == Within(M, c.seq)
           v == Vacate(c, M)
           cnt == seq_pos_dec(c.seq_pos, c.pos, G)
           d == rm(c, M)
<1>1. d = [v EXCEPT !.seq_pos = cnt] /\ c \in WideType
  BY WideFacts DEF rm, Sound
<1>2. \A i \in Cell : G[i] = IF i \in M THEN c.seq[i] ELSE {}
  BY DEF Within
<1>3. /\ v \in WideType
      /\ v.pos = [i \in Cell |-> IF i \in M THEN Empty ELSE c.pos[i]]
      /\ v.seq = [i \in Cell |-> IF i \in M THEN {} ELSE c.seq[i]]
      /\ v.shift = [i \in Cell |-> IF i \in M THEN 0 ELSE c.shift[i]]
      /\ v.used = c.used \ M /\ v.has_shift = c.has_shift
  BY <1>1, VacateFields
<1> HIDE DEF G, v, cnt, d
<1>4. /\ d.pos = v.pos /\ d.seq = v.seq /\ d.shift = v.shift /\ d.used = v.used
      /\ d.has_shift = v.has_shift /\ d.seq_pos = cnt /\ Wide(d)
  BY <1>1, <1>3, SetCounts
<1>5. \A i \in Cell : d.seq[i] = c.seq[i] \ G[i] /\ (d.pos[i] = c.pos[i] \/ d.seq[i] = {})
  BY <1>2, <1>3, <1>4
<1>6. \A s \in SeqId : \A p \in Pos :
        CellsAt(d.pos, d.seq, s, p) = CellsAt(c.pos, c.seq, s, p) \ CellsAt(c.pos, G, s, p)
  BY <1>5 DEF CellsAt
<1>7. Counted(d)
  <2>1. IsCounts(cnt)
    BY IsCountsOfOps DEF cnt
  <2>2. \A i \in Cell : G[i] \subseteq c.seq[i]
    BY <1>2
  <2>3. \A s \in SeqId : \A p \in Pos :
          /\ cnt[s][p] = Cardinality(CellsAt(d.pos, d.seq, s, p))
          /\ Cardinality(CellsAt(d.pos, d.seq, s, p)) \in Nat
    BY <1>6, <2>2, CountDec DEF cnt
  <2> QED
    BY <1>4, <2>1, <2>3 DEF Counted
<1>8. Shape(d)
  <2>1. \A i \in Cell : d.pos[i] = Empty <=> d.seq[i] = {}
    BY <1>3, <1>4 DEF Sound, Consistent
  <2>2. d.used = {i \in Cell : d.pos[i] # Empty}
    BY <1>3, <1>4 DEF Sound, Consistent
  <2>3. \A i \in Cell : (d.pos[i] = Empty => d.shift[i] = 0) /\ (~d.has_shift => d.shift[i] = 0)
    BY <1>3, <1>4 DEF Sound, Consistent
  <2>4. d.pos \in [Cell -> Pos \cup {Empty}]
    BY <1>3, <1>4 DEF Sound, CellsType
  <2> QED
    BY <2>1, <2>2, <2>3, <2>4 DEF Shape
<1> QED
  BY <1>3, <1>4, <1>7, <1>8, Assemble DEF d

(* seq_keep() on every cell.                                               *)
LEMMA SeqKeepSound ==
  ASSUME NEW c, Sound(c), NEW s \in SeqId
  PROVE  Sound(seq_keep(c, s))
<1> DEFINE kept == {i \in Cell : s \in c.seq[i]}
           only == [i \in Cell |-> IF i \in kept THEN {s} ELSE c.seq[i]]
           F == Dropped(c, s)
           A == Within(kept, only)
           left == [c EXCEPT !.seq = only]
           v == Vacate(left, F)
           cnt == seq_pos_inc(seq_pos_dec(c.seq_pos, c.pos, c.seq), c.pos, A)
           d == seq_keep(c, s)
<1>1. d = [v EXCEPT !.seq_pos = cnt]
  BY DEF seq_keep
<1>2. only \in [Cell -> SUBSET SeqId] /\ F \in SUBSET Cell /\ c \in WideType
  BY WideFacts DEF Dropped, Sound, CellsType
<1>3. /\ \A i \in Cell : i \in F <=> c.seq[i] # {} /\ s \notin c.seq[i]
      /\ \A i \in Cell : only[i] = IF s \in c.seq[i] THEN {s} ELSE c.seq[i]
      /\ \A i \in Cell : A[i] = IF s \in c.seq[i] THEN {s} ELSE {}
  BY DEF Dropped, Within
<1> HIDE DEF F, only, A
<1>4. /\ left \in WideType /\ left.pos = c.pos /\ left.seq = only /\ left.shift = c.shift
      /\ left.used = c.used /\ left.has_shift = c.has_shift
  BY <1>2 DEF WideType
<1> HIDE DEF left
<1>5. /\ v \in WideType
      /\ v.pos = [i \in Cell |-> IF i \in F THEN Empty ELSE c.pos[i]]
      /\ v.seq = [i \in Cell |-> IF i \in F THEN {} ELSE only[i]]
      /\ v.shift = [i \in Cell |-> IF i \in F THEN 0 ELSE c.shift[i]]
      /\ v.used = c.used \ F /\ v.has_shift = c.has_shift
  BY <1>2, <1>4, VacateFields
<1> HIDE DEF v, cnt, d
<1>6. /\ d.pos = v.pos /\ d.seq = v.seq /\ d.shift = v.shift /\ d.used = v.used
      /\ d.has_shift = v.has_shift /\ d.seq_pos = cnt /\ Wide(d)
  BY <1>1, <1>5, SetCounts
<1>7. ASSUME NEW i \in Cell
      PROVE  d.seq[i] = A[i] /\ (d.pos[i] = c.pos[i] \/ A[i] = {})
  <2>1. /\ d.pos[i] = (IF i \in F THEN Empty ELSE c.pos[i])
        /\ d.seq[i] = (IF i \in F THEN {} ELSE only[i])
    BY <1>5, <1>6
  <2>2. CASE s \in c.seq[i]
    BY <1>3, <2>1, <2>2
  <2>3. CASE c.seq[i] = {}
    BY <1>3, <2>1, <2>3
  <2>4. CASE c.seq[i] # {} /\ s \notin c.seq[i]
    BY <1>3, <2>1, <2>4
  <2> QED
    BY <2>2, <2>3, <2>4
<1>8. \A t \in SeqId : \A p \in Pos :
        CellsAt(d.pos, d.seq, t, p) =
          (CellsAt(c.pos, c.seq, t, p) \ CellsAt(c.pos, c.seq, t, p)) \cup CellsAt(c.pos, A, t, p)
  BY <1>7 DEF CellsAt
<1>9. Counted(d)
  <2>1. IsCounts(cnt)
    BY IsCountsOfOps DEF cnt
  <2>2. \A i \in Cell : c.seq[i] \subseteq c.seq[i]
    OBVIOUS
  <2>3. \A t \in SeqId : \A p \in Pos :
          (CellsAt(c.pos, c.seq, t, p) \ CellsAt(c.pos, c.seq, t, p))
             \cap CellsAt(c.pos, A, t, p) = {}
    OBVIOUS
  <2>4. \A t \in SeqId : \A p \in Pos : Swapped(c, d.pos, d.seq, c.seq, c.pos, A, t, p)
    BY <1>8, <2>2, <2>3 DEF Swapped
  <2>5. \A t \in SeqId : \A p \in Pos :
          /\ cnt[t][p] = Cardinality(CellsAt(d.pos, d.seq, t, p))
          /\ Cardinality(CellsAt(d.pos, d.seq, t, p)) \in Nat
    BY <2>4, CountSwap DEF cnt
  <2> QED
    BY <1>6, <2>1, <2>5 DEF Counted
<1>10. Shape(d)
  <2>1. \A i \in Cell : d.pos[i] = Empty <=> d.seq[i] = {}
    BY <1>3, <1>5, <1>6 DEF Sound, Consistent
  <2>2. d.used = {i \in Cell : d.pos[i] # Empty}
    BY <1>5, <1>6 DEF Sound, Consistent
  <2>3. \A i \in Cell : (d.pos[i] = Empty => d.shift[i] = 0) /\ (~d.has_shift => d.shift[i] = 0)
    BY <1>5, <1>6 DEF Sound, Consistent
  <2>4. d.pos \in [Cell -> Pos \cup {Empty}]
    BY <1>5, <1>6 DEF Sound, CellsType
  <2> QED
    BY <2>1, <2>2, <2>3, <2>4 DEF Shape
<1> QED
  BY <1>6, <1>9, <1>10, Assemble DEF d

(* seq_add() to occupied cells that do not have the sequence yet.          *)
LEMMA SeqAddSound ==
  ASSUME NEW c, Sound(c), NEW s \in SeqId, NEW M \in SUBSET Cell,
         \A i \in M : c.pos[i] # Empty /\ s \notin c.seq[i]
  PROVE  Sound(seq_add(c, M, s))
<1> DEFINE seq == [i \in Cell |-> IF i \in M THEN c.seq[i] \cup {s} ELSE c.seq[i]]
           A == Within(M, [i \in Cell |-> {s}])
           cnt == seq_pos_inc(c.seq_pos, c.pos, A)
           d == seq_add(c, M, s)
<1>1. d = [c EXCEPT !.seq = seq, !.seq_pos = cnt]
  BY DEF seq_add
<1>2. seq \in [Cell -> SUBSET SeqId] /\ c \in WideType
  BY WideFacts DEF Sound, CellsType
<1>3. \A i \in Cell : /\ A[i] = IF i \in M THEN {s} ELSE {}
                      /\ seq[i] = c.seq[i] \cup A[i]
  BY DEF Within
<1> HIDE DEF seq, A, cnt, d
<1>4. /\ d.pos = c.pos /\ d.seq = seq /\ d.shift = c.shift /\ d.used = c.used
      /\ d.has_shift = c.has_shift /\ d.seq_pos = cnt /\ Wide(d)
  BY <1>1, <1>2 DEF WideType, Wide
<1>5. \A t \in SeqId : \A p \in Pos :
        /\ CellsAt(d.pos, d.seq, t, p) = CellsAt(c.pos, c.seq, t, p) \cup CellsAt(c.pos, A, t, p)
        /\ CellsAt(c.pos, c.seq, t, p) \cap CellsAt(c.pos, A, t, p) = {}
  BY <1>3, <1>4 DEF CellsAt
<1>6. Counted(d)
  <2>1. IsCounts(cnt)
    BY IsCountsOfOps DEF cnt
  <2>2. \A t \in SeqId : \A p \in Pos :
          /\ cnt[t][p] = Cardinality(CellsAt(d.pos, d.seq, t, p))
          /\ Cardinality(CellsAt(d.pos, d.seq, t, p)) \in Nat
    BY <1>5, CountInc DEF cnt
  <2> QED
    BY <1>4, <2>1, <2>2 DEF Counted
<1>7. Shape(d)
  <2>1. \A i \in Cell : d.pos[i] = Empty <=> d.seq[i] = {}
    BY <1>3, <1>4 DEF Sound, Consistent
  <2> QED
    BY <1>4, <2>1 DEF Sound, CellsType, Consistent, Shape
<1> QED
  BY <1>4, <1>6, <1>7, Assemble DEF d

(* pos_set() and seq_add() of fresh tokens on empty cells.                 *)
LEMMA PosSetSound ==
  ASSUME NEW c, Sound(c), NEW M \in SUBSET Cell, NEW P, NEW S,
         \A i \in M : c.pos[i] = Empty,
         \A i \in M : P[i] \in Pos /\ S[i] \in SUBSET SeqId /\ S[i] # {}
  PROVE  /\ Sound(pos_set(c, M, P, S))
         /\ \A i \in Cell : c.shift[i] = 0 => pos_set(c, M, P, S).shift[i] = 0
<1> DEFINE pos == [i \in Cell |-> IF i \in M THEN P[i] ELSE c.pos[i]]
           seq == [i \in Cell |-> IF i \in M THEN S[i] ELSE c.seq[i]]
           used == c.used \cup M
           A == Within(M, S)
           cnt == seq_pos_inc(c.seq_pos, pos, A)
           d == pos_set(c, M, P, S)
<1>1. d = [c EXCEPT !.pos = pos, !.used = used, !.seq = seq, !.seq_pos = cnt]
  BY DEF pos_set
<1>2. /\ pos \in [Cell -> Pos \cup {Empty}]
      /\ seq \in [Cell -> SUBSET SeqId] /\ used \in SUBSET Cell /\ c \in WideType
  BY WideFacts DEF Sound, CellsType
<1>3. pos \in [Cell -> Int]
  <2> HIDE DEF pos
  <2> QED
    BY <1>2, PosFacts
<1>4. \A i \in Cell : /\ pos[i] = IF i \in M THEN P[i] ELSE c.pos[i]
                      /\ seq[i] = IF i \in M THEN S[i] ELSE c.seq[i]
                      /\ A[i] = IF i \in M THEN S[i] ELSE {}
                      /\ i \in used <=> i \in c.used \/ i \in M
  BY DEF Within
<1> HIDE DEF pos, seq, used, A, cnt, d
<1>5. /\ d.pos = pos /\ d.seq = seq /\ d.shift = c.shift /\ d.used = used
      /\ d.has_shift = c.has_shift /\ d.seq_pos = cnt /\ Wide(d)
  BY <1>1, <1>2, <1>3 DEF WideType, Wide
<1>6. \A i \in M : c.seq[i] = {}
  BY DEF Sound, Consistent
<1>7. \A t \in SeqId : \A p \in Pos :
        /\ CellsAt(d.pos, d.seq, t, p) = CellsAt(c.pos, c.seq, t, p) \cup CellsAt(pos, A, t, p)
        /\ CellsAt(c.pos, c.seq, t, p) \cap CellsAt(pos, A, t, p) = {}
  BY <1>4, <1>5, <1>6 DEF CellsAt
<1>8. Counted(d)
  <2>1. IsCounts(cnt)
    BY IsCountsOfOps DEF cnt
  <2>2. \A t \in SeqId : \A p \in Pos :
          /\ cnt[t][p] = Cardinality(CellsAt(d.pos, d.seq, t, p))
          /\ Cardinality(CellsAt(d.pos, d.seq, t, p)) \in Nat
    BY <1>7, CountInc DEF cnt
  <2> QED
    BY <1>5, <2>1, <2>2 DEF Counted
<1>9. Shape(d)
  <2>1. \A i \in Cell : d.pos[i] = Empty <=> d.seq[i] = {}
    BY <1>4, <1>5, PosFacts DEF Sound, Consistent
  <2>2. d.used = {i \in Cell : d.pos[i] # Empty}
    BY <1>2, <1>4, <1>5, PosFacts DEF Sound, Consistent
  <2>3. \A i \in Cell : (d.pos[i] = Empty => d.shift[i] = 0) /\ (~d.has_shift => d.shift[i] = 0)
    BY <1>4, <1>5, PosFacts DEF Sound, Consistent
  <2> QED
    BY <1>2, <1>5, <2>1, <2>2, <2>3 DEF Shape
<1> QED
  BY <1>5, <1>8, <1>9, Assemble DEF d

(* New positions for occupied cells; those below 0 become empty.           *)
LEMMA ReposSound ==
  ASSUME NEW c, Sound(c), NEW M \in SUBSET Cell, NEW P, NEW D,
         \A i \in M : c.pos[i] # Empty,
         \A i \in M : P[i] \in Int /\ P[i] <= MaxPos /\ D[i] \in Int
  PROVE  Sound(Repos(c, M, P, D))
<1> DEFINE pos == [i \in Cell |-> IF i \in M THEN P[i] ELSE c.pos[i]]
           shift == [i \in Cell |-> IF i \in M THEN c.shift[i] + D[i] ELSE c.shift[i]]
           moved == [c EXCEPT !.pos = pos, !.shift = shift]
           F == {i \in M : P[i] < 0}
           G == Within(M, c.seq)
           A == Within(M \ F, c.seq)
           v == Vacate(moved, F)
           cnt == seq_pos_inc(seq_pos_dec(c.seq_pos, c.pos, G), moved.pos, A)
           h == c.has_shift \/ M # {}
           e == [v EXCEPT !.has_shift = h]
           d == Repos(c, M, P, D)
<1>1. d = [v EXCEPT !.seq_pos = cnt, !.has_shift = h]
  BY DEF Repos
<1>2. /\ pos \in [Cell -> Int] /\ shift \in [Cell -> Int] /\ F \in SUBSET Cell
      /\ c \in WideType /\ h \in BOOLEAN
  <2>1. c \in WideType
    BY WideFacts DEF Sound
  <2> QED
    BY <2>1 DEF WideType
<1>3. /\ \A i \in Cell : /\ pos[i] = IF i \in M THEN P[i] ELSE c.pos[i]
                         /\ G[i] = IF i \in M THEN c.seq[i] ELSE {}
                         /\ A[i] = IF i \in M \ F THEN c.seq[i] ELSE {}
                         /\ i \notin M => shift[i] = c.shift[i]
      /\ \A i \in M : i \in F <=> P[i] < 0
      /\ F \subseteq M
  BY DEF Within
<1> HIDE DEF pos, shift, F, G, A, h
<1>4. /\ moved \in WideType /\ moved.pos = pos /\ moved.seq = c.seq /\ moved.shift = shift
      /\ moved.used = c.used /\ moved.has_shift = c.has_shift
  BY <1>2 DEF WideType
<1> HIDE DEF moved
<1>5. /\ v \in WideType
      /\ v.pos = [i \in Cell |-> IF i \in F THEN Empty ELSE pos[i]]
      /\ v.seq = [i \in Cell |-> IF i \in F THEN {} ELSE c.seq[i]]
      /\ v.shift = [i \in Cell |-> IF i \in F THEN 0 ELSE shift[i]]
      /\ v.used = c.used \ F
  BY <1>2, <1>4, VacateFields
<1> HIDE DEF v, cnt, d, e
<1>6. /\ d.pos = v.pos /\ d.seq = v.seq /\ d.shift = v.shift /\ d.used = v.used
      /\ d.has_shift = h /\ d.seq_pos = cnt /\ Wide(d)
  <2>1. /\ e \in WideType /\ e.pos = v.pos /\ e.seq = v.seq /\ e.shift = v.shift
        /\ e.used = v.used /\ e.has_shift = h
    BY <1>2, <1>5 DEF WideType, e
  <2>2. d = [e EXCEPT !.seq_pos = cnt]
    BY <1>1, <1>5 DEF WideType, e
  <2> QED
    BY <2>1, <2>2, SetCounts
<1>7. /\ \A i \in M \ F : d.pos[i] = P[i] /\ P[i] \in Pos
      /\ \A i \in Cell \ M : d.pos[i] = c.pos[i]
      /\ \A i \in F : d.pos[i] = Empty /\ d.seq[i] = {} /\ d.shift[i] = 0
      /\ \A i \in Cell \ F : d.seq[i] = c.seq[i] /\ d.shift[i] = shift[i]
  <2>1. \A i \in M \ F : P[i] \in Pos
    BY <1>3, MaxPosAssumption DEF Pos
  <2> QED
    BY <1>3, <1>5, <1>6, <2>1
<1>8. ASSUME NEW t \in SeqId, NEW p \in Pos
      PROVE  /\ CellsAt(d.pos, d.seq, t, p) =
                   (CellsAt(c.pos, c.seq, t, p) \ CellsAt(c.pos, G, t, p))
                     \cup CellsAt(moved.pos, A, t, p)
             /\ (CellsAt(c.pos, c.seq, t, p) \ CellsAt(c.pos, G, t, p))
                     \cap CellsAt(moved.pos, A, t, p) = {}
  <2>1. \A i \in Cell : i \in CellsAt(c.pos, c.seq, t, p) \ CellsAt(c.pos, G, t, p)
                          <=> i \notin M /\ t \in c.seq[i] /\ c.pos[i] = p
    BY <1>3 DEF CellsAt
  <2>2. \A i \in Cell : i \in CellsAt(moved.pos, A, t, p)
                          <=> i \in M \ F /\ t \in c.seq[i] /\ P[i] = p
    BY <1>3, <1>4 DEF CellsAt
  <2>3. \A i \in Cell : i \in CellsAt(d.pos, d.seq, t, p)
                          <=> i \notin F /\ t \in c.seq[i] /\ d.pos[i] = p
    BY <1>7 DEF CellsAt
  <2>4. /\ CellsAt(d.pos, d.seq, t, p) \subseteq Cell
        /\ CellsAt(c.pos, c.seq, t, p) \ CellsAt(c.pos, G, t, p) \subseteq Cell
        /\ CellsAt(moved.pos, A, t, p) \subseteq Cell
    BY DEF CellsAt
  <2> QED
    BY <1>3, <1>7, <2>1, <2>2, <2>3, <2>4
<1>9. Counted(d)
  <2>1. IsCounts(cnt)
    BY IsCountsOfOps DEF cnt
  <2>2. \A i \in Cell : G[i] \subseteq c.seq[i]
    BY <1>3
  <2>3. \A t \in SeqId : \A p \in Pos : Swapped(c, d.pos, d.seq, G, moved.pos, A, t, p)
    BY <1>8, <2>2 DEF Swapped
  <2>4. \A t \in SeqId : \A p \in Pos :
          /\ cnt[t][p] = Cardinality(CellsAt(d.pos, d.seq, t, p))
          /\ Cardinality(CellsAt(d.pos, d.seq, t, p)) \in Nat
    BY <2>3, CountSwap DEF cnt
  <2> QED
    BY <1>6, <2>1, <2>4 DEF Counted
<1>10. Shape(d)
  <2>1. \A i \in Cell : d.pos[i] = Empty <=> d.seq[i] = {}
    BY <1>3, <1>7, PosFacts DEF Sound, Consistent
  <2>2. d.used = {i \in Cell : d.pos[i] # Empty}
    BY <1>3, <1>5, <1>6, <1>7, PosFacts DEF Sound, Consistent
  <2>3. \A i \in Cell : (d.pos[i] = Empty => d.shift[i] = 0) /\ (~d.has_shift => d.shift[i] = 0)
    <3>1. \A i \in Cell : d.pos[i] = Empty => i \in F \/ (i \notin M /\ c.pos[i] = Empty)
      BY <1>7, PosFacts
    <3>2. ~d.has_shift => ~c.has_shift /\ M = {}
      BY <1>6 DEF h
    <3> QED
      BY <1>3, <1>7, <3>1, <3>2 DEF Sound, Consistent
  <2>4. d.pos \in [Cell -> Pos \cup {Empty}]
    <3>1. \A i \in Cell : d.pos[i] \in Pos \cup {Empty}
      BY <1>3, <1>7 DEF Sound, CellsType
    <3>2. d.pos = [i \in Cell |-> d.pos[i]]
      BY <1>5, <1>6
    <3> QED
      BY <3>1, <3>2
  <2> QED
    BY <2>1, <2>2, <2>3, <2>4 DEF Shape
<1> QED
  BY <1>6, <1>9, <1>10, Assemble DEF d

(* pos_add() of any amount that keeps the positions within MaxPos.         *)
LEMMA PosAddSound ==
  ASSUME NEW c, Sound(c), NEW M \in SUBSET Cell, NEW d \in Int,
         \A i \in M : c.pos[i] # Empty /\ c.pos[i] + d <= MaxPos
  PROVE  Sound(pos_add(c, M, d))
<1> DEFINE P == [i \in Cell |-> c.pos[i] + d]
           D == [i \in Cell |-> d]
<1>1. \A i \in Cell : c.pos[i] \in Int
  BY PosFacts DEF Sound, CellsType
<1>2. \A i \in M : P[i] \in Int /\ P[i] <= MaxPos /\ D[i] \in Int
  BY <1>1
<1> HIDE DEF P, D
<1>3. Sound(Repos(c, M, P, D))
  BY <1>2, ReposSound
<1> QED
  BY <1>3 DEF pos_add, P, D

LEMMA DivFacts ==
  ASSUME NEW p \in Nat, NEW d \in Nat \ {0}
  PROVE  p \div d \in Nat /\ p \div d <= p
<1> DEFINE q == p \div d
<1>1. q \in Int /\ d * q <= p /\ p < d * (q + 1)
  BY SMT
<1> HIDE DEF q
<1>2. q >= 0
  BY <1>1, SMT
<1>3. q <= d * q
  BY <1>1, <1>2, SMT
<1> QED
  BY <1>1, <1>2, <1>3 DEF q

(* pos_div() by any positive divisor.                                      *)
LEMMA PosDivSound ==
  ASSUME NEW c, Sound(c), NEW M \in SUBSET Cell, NEW d \in Nat \ {0},
         \A i \in M : c.pos[i] # Empty
  PROVE  Sound(pos_div(c, M, d))
<1> DEFINE P == [i \in Cell |-> c.pos[i] \div d]
           D == [i \in Cell |-> c.pos[i] - (c.pos[i] \div d)]
<1>1. \A i \in M : c.pos[i] \in Pos
  BY DEF Sound, CellsType
<1>2. ASSUME NEW i \in M
      PROVE  P[i] \in Int /\ P[i] <= MaxPos /\ D[i] \in Int
  <2>1. c.pos[i] \in Nat /\ c.pos[i] <= MaxPos
    BY <1>1, MaxPosAssumption DEF Pos
  <2>2. c.pos[i] \div d \in Nat /\ c.pos[i] \div d <= c.pos[i]
    BY <2>1, DivFacts
  <2>3. P[i] = c.pos[i] \div d /\ D[i] = c.pos[i] - (c.pos[i] \div d)
    OBVIOUS
  <2> HIDE DEF P, D
  <2> QED
    BY <2>1, <2>2, <2>3, MaxPosAssumption
<1> HIDE DEF P, D
<1>3. Sound(Repos(c, M, P, D))
  BY <1>2, ReposSound
<1> QED
  BY <1>3 DEF pos_div, P, D

(* A saved cell, and set() of saved cells: an emptied cell must not have a *)
(* shift pending.                                                          *)
SavedCell == [pos : Pos \cup {Empty}, seq : SUBSET SeqId]
Proper(e) == e \in SavedCell /\ (e.pos = Empty <=> e.seq = {})

LEMMA SetSound ==
  ASSUME NEW c, Sound(c), NEW saved, DOMAIN saved \in SUBSET Cell,
         \A i \in DOMAIN saved : Proper(saved[i]) /\ c.shift[i] = 0
  PROVE  Sound(set(c, saved)) /\ set(c, saved).shift = c.shift
<1> DEFINE M == DOMAIN saved
           pos == [i \in Cell |-> IF i \in M THEN saved[i].pos ELSE c.pos[i]]
           seq == [i \in Cell |-> IF i \in M THEN saved[i].seq ELSE c.seq[i]]
           used == (c.used \ M) \cup {i \in M : saved[i].pos # Empty}
           G == Within(M, c.seq)
           A == Within(M, seq)
           cnt == seq_pos_inc(seq_pos_dec(c.seq_pos, c.pos, G), pos, A)
           d == set(c, saved)
<1>1. d = [c EXCEPT !.pos = pos, !.seq = seq, !.used = used, !.seq_pos = cnt]
  BY DEF set
<1>2. \A i \in M : /\ saved[i].pos \in Pos \cup {Empty} /\ saved[i].seq \in SUBSET SeqId
                   /\ saved[i].pos = Empty <=> saved[i].seq = {}
  BY DEF Proper, SavedCell
<1>3. /\ pos \in [Cell -> Pos \cup {Empty}] /\ seq \in [Cell -> SUBSET SeqId]
      /\ used \in SUBSET Cell /\ c \in WideType
  BY <1>2, WideFacts DEF Sound, CellsType
<1>4. pos \in [Cell -> Int]
  <2> HIDE DEF pos
  <2> QED
    BY <1>3, PosFacts
<1>5. \A i \in Cell : /\ pos[i] = IF i \in M THEN saved[i].pos ELSE c.pos[i]
                      /\ seq[i] = IF i \in M THEN saved[i].seq ELSE c.seq[i]
                      /\ G[i] = IF i \in M THEN c.seq[i] ELSE {}
                      /\ A[i] = IF i \in M THEN seq[i] ELSE {}
                      /\ i \in used <=> IF i \in M THEN saved[i].pos # Empty ELSE i \in c.used
  BY DEF Within
<1>6. \A i \in M : i \in Cell
  OBVIOUS
<1> HIDE DEF M, pos, seq, used, G, A, cnt, d
<1>7. /\ d.pos = pos /\ d.seq = seq /\ d.shift = c.shift /\ d.used = used
      /\ d.has_shift = c.has_shift /\ d.seq_pos = cnt /\ Wide(d)
  BY <1>1, <1>3, <1>4 DEF WideType, Wide
<1>8. \A t \in SeqId : \A p \in Pos : Swapped(c, d.pos, d.seq, G, pos, A, t, p)
  <2> SUFFICES ASSUME NEW t \in SeqId, NEW p \in Pos
               PROVE  Swapped(c, d.pos, d.seq, G, pos, A, t, p)
    OBVIOUS
  <2>1. \A i \in Cell : i \in CellsAt(c.pos, c.seq, t, p) \ CellsAt(c.pos, G, t, p)
                          <=> i \notin M /\ t \in c.seq[i] /\ c.pos[i] = p
    BY <1>5 DEF CellsAt
  <2>2. \A i \in Cell : i \in CellsAt(pos, A, t, p)
                          <=> i \in M /\ t \in seq[i] /\ pos[i] = p
    BY <1>5 DEF CellsAt
  <2>3. \A i \in Cell : i \in CellsAt(d.pos, d.seq, t, p) <=> t \in seq[i] /\ pos[i] = p
    BY <1>7 DEF CellsAt
  <2>4. /\ CellsAt(d.pos, d.seq, t, p) \subseteq Cell
        /\ CellsAt(c.pos, c.seq, t, p) \ CellsAt(c.pos, G, t, p) \subseteq Cell
        /\ CellsAt(pos, A, t, p) \subseteq Cell
    BY DEF CellsAt
  <2>5. CellsAt(d.pos, d.seq, t, p) =
          (CellsAt(c.pos, c.seq, t, p) \ CellsAt(c.pos, G, t, p)) \cup CellsAt(pos, A, t, p)
    BY <1>5, <2>1, <2>2, <2>3, <2>4
  <2>6. (CellsAt(c.pos, c.seq, t, p) \ CellsAt(c.pos, G, t, p)) \cap CellsAt(pos, A, t, p) = {}
    BY <2>1, <2>2, <2>4
  <2>7. \A i \in Cell : G[i] \subseteq c.seq[i]
    BY <1>5
  <2> QED
    BY <2>5, <2>6, <2>7 DEF Swapped
<1>9. Counted(d)
  <2>1. IsCounts(cnt)
    BY IsCountsOfOps DEF cnt
  <2>2. \A t \in SeqId : \A p \in Pos :
          /\ cnt[t][p] = Cardinality(CellsAt(d.pos, d.seq, t, p))
          /\ Cardinality(CellsAt(d.pos, d.seq, t, p)) \in Nat
    BY <1>8, CountSwap DEF cnt
  <2> QED
    BY <1>7, <2>1, <2>2 DEF Counted
<1>10. Shape(d)
  <2>1. \A i \in Cell : d.pos[i] = Empty <=> d.seq[i] = {}
    BY <1>2, <1>5, <1>7 DEF Sound, Consistent
  <2>2. d.used = {i \in Cell : d.pos[i] # Empty}
    BY <1>3, <1>5, <1>7 DEF Sound, Consistent
  <2>3. \A i \in Cell : (d.pos[i] = Empty => d.shift[i] = 0) /\ (~d.has_shift => d.shift[i] = 0)
    BY <1>5, <1>7 DEF Sound, Consistent, M
  <2> QED
    BY <1>3, <1>7, <2>1, <2>2, <2>3 DEF Shape
<1> QED
  BY <1>7, <1>9, <1>10, Assemble DEF d

-----------------------------------------------------------------------------
(***************************************************************************)
(* The cache.                                                              *)
(***************************************************************************)

-----------------------------------------------------------------------------
(* Least and greatest elements.                                            *)

LEMMA LeastNat ==
  ASSUME NEW S \in SUBSET Nat, S # {}
  PROVE  Least(S) \in S /\ \A y \in S : Least(S) <= y
<1> DEFINE R == {ss \in Nat \X Nat : ss[1] < ss[2]}
<1>1. IsWellFoundedOn(R, Nat)
  BY NatLessThanWellFounded DEF OpToRel
<1>2. \A x, y \in Nat : <<y, x>> \in R <=> y < x
  OBVIOUS
<1> HIDE DEF R
<1>3. PICK x \in S : \A y \in S : ~(<<y, x>> \in R)
  BY <1>1, WFMin, Zenon
<1>4. \A y \in S : x <= y
  <2>1. \A y \in S : ~(y < x)
    BY <1>2, <1>3, Zenon
  <2> QED
    BY <2>1, SMT
<1> QED
  BY <1>4 DEF Least

(* A bounded set of numbers has a greatest element.                        *)
LEMMA GreatestInt ==
  ASSUME NEW N \in Int, NEW S \in SUBSET Int, S # {}, \A x \in S : x <= N
  PROVE  \E x \in S : \A y \in S : x >= y
<1> DEFINE T == {N - x : x \in S}
<1>1. T \in SUBSET Nat /\ T # {}
  <2>1. \A x \in S : N - x \in Nat
    BY SMT
  <2> QED
    BY <2>1, Zenon
<1>2. Least(T) \in T /\ \A y \in T : Least(T) <= y
  BY <1>1, LeastNat
<1>3. PICK x \in S : Least(T) = N - x
  BY <1>2
<1>4. \A y \in S : N - x <= N - y
  BY <1>2, <1>3
<1>5. \A y \in S : x >= y
  BY <1>4
<1> QED
  BY <1>5

LEMMA SeqIdFacts ==
  ASSUME NEW A \in SUBSET SeqId, A # {}
  PROVE  Least(A) \in A /\ Least(A) \in SeqId
<1>1. A \in SUBSET Nat
  BY NSeqMaxAssumption DEF SeqId
<1> QED
  BY <1>1, LeastNat

LEMMA StreamFacts ==
  /\ \A s \in SeqId : seq_to_stream(s) \in Stream
  /\ Unified => 0 \in Stream
  /\ ~Unified => Stream = SeqId
BY DEF Stream, seq_to_stream

(* seq_pos_max() is a position of the sequence, or -1.                     *)
LEMMA SeqPosMaxFacts ==
  ASSUME NEW c, NEW s
  PROVE  seq_pos_max(c, s) \in Pos \cup {-1}
<1>1. CASE PosOf(c, s) = {}
  BY <1>1 DEF seq_pos_max
<1>2. CASE PosOf(c, s) # {}
  <2>1. /\ PosOf(c, s) \in SUBSET Int /\ \A x \in PosOf(c, s) : x <= MaxPos
        /\ PosOf(c, s) \subseteq Pos
    BY MaxPosAssumption DEF PosOf, Pos
  <2>2. \E x \in PosOf(c, s) : \A y \in PosOf(c, s) : x >= y
    <3> DEFINE S == PosOf(c, s)
    <3>1. S \in SUBSET Int /\ S # {} /\ MaxPos \in Int /\ \A x \in S : x <= MaxPos
      BY <1>2, <2>1, MaxPosAssumption
    <3> HIDE DEF S
    <3>2. \E x \in S : \A y \in S : x >= y
      BY <3>1, GreatestInt
    <3> QED
      BY <3>2 DEF S
  <2>3. seq_pos_max(c, s) = Most(PosOf(c, s))
    BY <1>2 DEF seq_pos_max, Most
  <2>4. Most(PosOf(c, s)) \in PosOf(c, s)
    BY <2>2, Zenon DEF Most
  <2> QED
    BY <2>1, <2>3, <2>4
<1> QED
  BY <1>1, <1>2

LEMMA StartPosFacts == \A A : StartPos(A) \in Nat
<1> SUFFICES ASSUME NEW A
             PROVE  StartPos(A) \in Nat
  OBVIOUS
<1> DEFINE p == seq_pos_max(v_cells[seq_to_stream(Least(A))], Least(A))
<1>1. p \in Pos \cup {-1} /\ StartPos(A) = p + 1
  BY SeqPosMaxFacts DEF StartPos
<1> HIDE DEF p
<1> QED
  BY <1>1, PosFacts

-----------------------------------------------------------------------------
(* The micro-batches of a batch.                                           *)

LEMMA AsSeq ==
  ASSUME NEW S, NEW n \in Nat, NEW f, f \in [1 .. n -> S]
  PROVE  f \in Seq(S) /\ Len(f) = n
<1>1. f \in Seq(S)
  BY SeqDef
<1>2. DOMAIN f = 1 .. n /\ DOMAIN f = 1 .. Len(f) /\ Len(f) \in Nat
  BY <1>1, LenProperties
<1> QED
  BY <1>1, <1>2

LEMMA NChunksFacts ==
  ASSUME NEW q \in Nat \ {0}, NEW len \in Nat
  PROVE  NChunks(q, len) \in Nat /\ (len >= 1 => NChunks(q, len) >= 1)
<1> DEFINE x == len + q - 1
           r == x \div q
<1>1. x \in Nat /\ r \in Nat /\ x < q * (r + 1)
  BY DivFacts, SMT
<1>2. len >= 1 => x >= q
  OBVIOUS
<1> HIDE DEF x, r
<1>3. r = 0 => x < q
  BY <1>1, SMT
<1>4. len >= 1 => r >= 1
  BY <1>1, <1>2, <1>3
<1> QED
  BY <1>1, <1>4 DEF NChunks, x, r

LEMMA NChunksNone ==
  ASSUME NEW q \in Nat \ {0}
  PROVE  NChunks(q, 0) = 0
<1> DEFINE r == (q - 1) \div q
<1>1. r \in Nat /\ r <= q - 1
  BY DivFacts
<1>2. r \in Int /\ q * r <= q - 1 /\ q - 1 < q * (r + 1)
  BY SMT
<1> HIDE DEF r
<1>3. r >= 1 => q * r >= q
  BY <1>1, SMT
<1>4. r = 0
  BY <1>1, <1>2, <1>3
<1>5. 0 + q - 1 = q - 1
  OBVIOUS
<1> QED
  BY <1>4, <1>5 DEF NChunks, r

LEMMA SubSeqType ==
  ASSUME NEW toks \in Seq(Token), NEW m \in Int, NEW n \in Int, m >= 1, n <= Len(toks)
  PROVE  /\ SubSeq(toks, m, n) \in Seq(Token)
         /\ Len(SubSeq(toks, m, n)) = IF m <= n THEN n - m + 1 ELSE 0
<1>1. \A i \in m .. n : toks[i] \in Token
  BY ElementOfSeq, LenProperties
<1> QED
  BY <1>1, SubSeqProperties

LEMMA ChunkType ==
  ASSUME NEW q \in Nat \ {0}, NEW k \in Nat \ {0}, NEW toks \in Seq(Token)
  PROVE  Chunk(q, k, toks) \in Seq(Token) /\ Len(Chunk(q, k, toks)) <= Len(toks)
<1> DEFINE m == (k - 1) * q + 1
           n == Lesser(k * q, Len(toks))
<1>1. Len(toks) \in Nat
  BY LenProperties
<1>2. k * q \in Int /\ m \in Int /\ m >= 1
  BY SMT
<1>3. n \in Int /\ n <= Len(toks)
  BY <1>1, <1>2 DEF Lesser
<1> HIDE DEF m, n
<1>4. SubSeq(toks, m, n) \in Seq(Token) /\ Len(SubSeq(toks, m, n)) <= Len(toks)
  BY <1>1, <1>2, <1>3, SubSeqType
<1> QED
  BY <1>4 DEF Chunk, m, n

(* The micro-batches that give no stream more than L tokens.               *)
Short(L) == {ub \in UBatch : \A st \in Stream : Len(ub[st]) <= L}

LEMMA ShortFacts ==
  ASSUME NEW L, NEW q \in Seq(Short(L))
  PROVE  q \in Seq(UBatch) /\ \A k \in 1 .. Len(q) : \A st \in Stream : Len(q[k][st]) <= L
<1>1. q \in [1 .. Len(q) -> Short(L)] /\ Len(q) \in Nat
  BY LenProperties
<1>2. q \in [1 .. Len(q) -> UBatch]
  BY <1>1 DEF Short
<1> QED
  BY <1>1, <1>2, AsSeq DEF Short

LEMMA SplitSimpleType ==
  ASSUME NEW toks \in Seq(Token), NEW L \in Int, Len(toks) <= L
  PROVE  split_simple(toks) \in Seq(Short(L)) /\ (Len(toks) >= 1 => Len(split_simple(toks)) >= 1)
<1> DEFINE n == NChunks(NUbatch, Len(toks))
           f == split_simple(toks)
<1>1. n \in Nat /\ (Len(toks) >= 1 => n >= 1)
  BY LenProperties, NChunksFacts, NUbatchAssumption
<1>2. f = [k \in 1 .. n |-> [st \in Stream |-> Chunk(NUbatch, k, toks)]]
  BY DEF split_simple
<1>3. \A k \in 1 .. n : Chunk(NUbatch, k, toks) \in Seq(Token) /\ Len(Chunk(NUbatch, k, toks)) <= L
  BY <1>1, ChunkType, NUbatchAssumption, LenProperties
<1> HIDE DEF n, f
<1>4. f \in [1 .. n -> Short(L)]
  BY <1>2, <1>3 DEF UBatch, Short
<1> QED
  BY <1>1, <1>4, AsSeq DEF f

LEMMA OneStreamType ==
  ASSUME NEW toks \in Seq(Token), NEW s, NEW L \in Int, Len(toks) <= L
  PROVE  OneStream(s, toks) \in Seq(Short(L)) /\ (Len(toks) >= 1 => Len(OneStream(s, toks)) >= 1)
<1> DEFINE n == NChunks(NUbatch, Len(toks))
           f == OneStream(s, toks)
<1>1. n \in Nat /\ (Len(toks) >= 1 => n >= 1)
  BY LenProperties, NChunksFacts, NUbatchAssumption
<1>2. f = [k \in 1 .. n |->
             [st \in Stream |-> IF st = s THEN Chunk(NUbatch, k, toks) ELSE <<>>]]
  BY DEF OneStream
<1>3. \A k \in 1 .. n : Chunk(NUbatch, k, toks) \in Seq(Token) /\ Len(Chunk(NUbatch, k, toks)) <= L
  BY <1>1, ChunkType, NUbatchAssumption, LenProperties
<1>3a. <<>> \in Seq(Token) /\ Len(<<>>) <= L
  BY LenProperties, EmptySeq
<1> HIDE DEF n, f
<1>4. f \in [1 .. n -> Short(L)]
  BY <1>2, <1>3, <1>3a DEF UBatch, Short
<1> QED
  BY <1>1, <1>4, AsSeq DEF f

LEMMA SplitEqualType ==
  ASSUME NEW toksA \in Seq(Token), NEW toksB \in Seq(Token), NEW a, NEW b, Len(toksA) >= 1,
         NEW L \in Int, Len(toksA) <= L, Len(toksB) <= L
  PROVE  split_equal(a, toksA, b, toksB) \in Seq(Short(L))
           /\ Len(split_equal(a, toksA, b, toksB)) >= 1
<1> DEFINE joint == IF b = a + 1 THEN Lesser(Len(toksA), Len(toksB)) ELSE 0
           q == IF NUbatch \div 2 = 0 THEN 1 ELSE NUbatch \div 2
           n == NChunks(q, joint)
           jA == SubSeq(toksA, 1, joint)
           jB == SubSeq(toksB, 1, joint)
           rA == SubSeq(toksA, joint + 1, Len(toksA))
           rB == SubSeq(toksB, joint + 1, Len(toksB))
           both == [k \in 1 .. n |->
                      [st \in Stream |-> IF st = a THEN Chunk(q, k, jA)
                                         ELSE IF st = b THEN Chunk(q, k, jB) ELSE <<>>]]
           oA == OneStream(a, rA)
           oB == OneStream(b, rB)
<1>1. split_equal(a, toksA, b, toksB) = both \o oA \o oB
  BY DEF split_equal
<1>2. /\ Len(toksA) \in Nat /\ Len(toksB) \in Nat
      /\ joint \in Nat /\ joint <= Len(toksA) /\ (joint = 0 \/ joint <= Len(toksB))
  BY LenProperties DEF Lesser
<1>3. q \in Nat \ {0}
  BY DivFacts, NUbatchAssumption
<1>4. jA \in Seq(Token) /\ jB \in Seq(Token) /\ rA \in Seq(Token) /\ rB \in Seq(Token)
      /\ (joint = 0 => Len(rA) >= 1)
      /\ (joint >= 1 => Len(jA) <= L /\ Len(jB) <= L) /\ Len(rA) <= L /\ Len(rB) <= L
  <2> HIDE DEF joint
  <2> QED
    BY <1>2, SubSeqType
<1> HIDE DEF joint, q, jA, jB, rA, rB
<1>5. n \in Nat /\ (joint >= 1 => n >= 1)
  BY <1>2, <1>3, NChunksFacts
<1>6. \A k \in 1 .. n : /\ Chunk(q, k, jA) \in Seq(Token) /\ Len(Chunk(q, k, jA)) <= L
                        /\ Chunk(q, k, jB) \in Seq(Token) /\ Len(Chunk(q, k, jB)) <= L
  <2>1. joint = 0 => n = 0
    BY <1>3, NChunksNone
  <2>2. /\ \A k \in 1 .. n : /\ Chunk(q, k, jA) \in Seq(Token) /\ Len(Chunk(q, k, jA)) <= Len(jA)
                            /\ Chunk(q, k, jB) \in Seq(Token) /\ Len(Chunk(q, k, jB)) <= Len(jB)
        /\ Len(jA) \in Nat /\ Len(jB) \in Nat
    BY <1>3, <1>4, <1>5, ChunkType, LenProperties
  <2>3. CASE joint = 0
    BY <1>5, <2>1, <2>3
  <2>4. CASE joint >= 1
    <3>1. \A k \in 1 .. n : Len(Chunk(q, k, jA)) \in Nat /\ Len(Chunk(q, k, jB)) \in Nat
      BY <2>2, LenProperties
    <3> HIDE DEF n
    <3> QED
      BY <1>4, <2>2, <2>4, <3>1
  <2> QED
    BY <1>2, <2>3, <2>4
<1>6a. <<>> \in Seq(Token) /\ Len(<<>>) <= L
  BY <1>2, EmptySeq
<1>7. both \in [1 .. n -> Short(L)]
  <2> HIDE DEF n
  <2> QED
    BY <1>6, <1>6a DEF UBatch, Short
<1>8. both \in Seq(Short(L)) /\ Len(both) = n
  <2> HIDE DEF both, n
  <2> QED
    BY <1>5, <1>7, AsSeq
<1>9. /\ oA \in Seq(Short(L)) /\ oB \in Seq(Short(L))
      /\ joint = 0 => Len(oA) >= 1
  BY <1>4, OneStreamType
<1> HIDE DEF n, both, oA, oB
<1>10. both \o oA \in Seq(Short(L)) /\ Len(both \o oA) = Len(both) + Len(oA)
  BY <1>8, <1>9, ConcatProperties
<1>11. /\ both \o oA \o oB \in Seq(Short(L))
       /\ Len(both \o oA \o oB) = Len(both \o oA) + Len(oB)
  BY <1>9, <1>10, ConcatProperties
<1>12. Len(oA) \in Nat /\ Len(oB) \in Nat
  BY <1>9, LenProperties
<1> QED
  BY <1>1, <1>2, <1>5, <1>8, <1>9, <1>10, <1>11, <1>12

LEMMA RunOfType ==
  ASSUME NEW A \in SeqSets, NEW n \in Nat, n >= 1 => Valid(A, n)
  PROVE  RunOf(A, n) \in Seq(Token) /\ Len(RunOf(A, n)) = n
<1> DEFINE f == RunOf(A, n)
           p == StartPos(A)
<1>1. p \in Nat /\ (n >= 1 => p + n - 1 <= MaxPos)
  BY StartPosFacts DEF Valid
<1>2. A \in SUBSET SeqId /\ A # {}
  BY Zenon DEF SeqSets
<1>3. f = [k \in 1 .. n |-> [pos |-> p + k - 1, seqs |-> A]]
  BY Zenon DEF RunOf
<1> HIDE DEF f, p
<1>4. \A k \in 1 .. n : p + k - 1 \in Pos
  BY <1>1, MaxPosAssumption DEF Pos
<1>5. f \in [1 .. n -> Token]
  BY <1>2, <1>3, <1>4 DEF Token
<1> QED
  BY <1>5, AsSeq DEF f

(* balloc->init() and split: at least one micro-batch, all well formed.    *)
LEMMA InitBatchType ==
  ASSUME NEW A \in SeqSets, NEW B \in SeqSets, NEW n \in Nat \ {0}, NEW m \in Nat,
         Valid(A, n), m > 0 => Valid(B, m)
  PROVE  init_batch(A, n, B, m) \in Seq(Short(n + m)) /\ Len(init_batch(A, n, B, m)) >= 1
<1>1. /\ RunOf(A, n) \in Seq(Token) /\ Len(RunOf(A, n)) = n
      /\ RunOf(B, m) \in Seq(Token) /\ Len(RunOf(B, m)) = m
  BY RunOfType
<1>2. /\ RunOf(A, n) \o RunOf(B, m) \in Seq(Token)
      /\ Len(RunOf(A, n) \o RunOf(B, m)) = n + m
  BY <1>1, ConcatProperties
<1>3. CASE Unified
  <2> DEFINE toks == RunOf(A, n) \o RunOf(B, m)
  <2>1. init_batch(A, n, B, m) = split_simple(toks)
    BY <1>3 DEF init_batch
  <2>2. toks \in Seq(Token) /\ Len(toks) >= 1 /\ Len(toks) <= n + m
    BY <1>2
  <2> HIDE DEF toks
  <2> QED
    BY <2>1, <2>2, SplitSimpleType
<1>4. CASE ~Unified
  <2>1. Len(RunOf(A, n)) >= 1 /\ Len(RunOf(A, n)) <= n + m /\ Len(RunOf(B, m)) <= n + m
    BY <1>1
  <2> QED
    BY <1>1, <1>4, <2>1, SplitEqualType DEF init_batch
<1> QED
  BY <1>3, <1>4

-----------------------------------------------------------------------------
(* The inductive invariant.                                                *)

SlotMap == UNION {[M -> Nat] : M \in SUBSET Cell}
ProperCell == {e \in SavedCell : e.pos = Empty <=> e.seq = {}}
SavedMap == UNION {[M -> ProperCell] : M \in SUBSET Cell}
HeadRange == 0 .. Size
StackEntry == [heads : [Stream -> HeadRange], cells : [Stream -> SavedMap]]

CellsOK == v_cells \in [Stream -> CellsType] /\ \A st \in Stream : Sound(v_cells[st])
HeadsOK == v_heads \in [Stream -> HeadRange]
RowsOK == /\ k_rows \in [Stream -> [Cell -> SUBSET Int]]
          /\ sc_info \in Seq(Stream \X Stream)

(* The running decode: prepare's slots place tokens of the micro-batches.  *)
CallOK ==
  /\ ubatches \in Seq(UBatch)
  /\ sinfos \in Seq([Stream -> SlotMap])
  /\ Len(sinfos) <= Len(ubatches)
  /\ \A k \in 1 .. Len(sinfos) : \A st \in Stream : \A i \in DOMAIN sinfos[k][st] :
        sinfos[k][st][i] \in 1 .. Len(ubatches[k][st])
  /\ phase \in {"idle", "update", "prepare", "restore", "apply", "compute"}
  /\ phase # "idle" => Len(ubatches) >= 1
  /\ phase \in {"idle", "update"} => sinfos = <<>>
  /\ phase \in {"apply", "compute"} =>
       i_cur \in 1 .. Len(ubatches) /\ Len(sinfos) = Len(ubatches)
  /\ phase \notin {"apply", "compute"} => i_cur = 0
  /\ did_optimize \in BOOLEAN

(* The recovery stack: a cell that may be restored has no shift pending,   *)
(* as set asserts, so that emptying it again leaves nothing behind.        *)
StackOK ==
  /\ stack \in Seq(StackEntry)
  /\ \A k \in 1 .. Len(stack) : \A st \in Stream : \A i \in DOMAIN stack[k].cells[st] :
        v_cells[st].shift[i] = 0
  /\ phase \in {"idle", "update", "apply", "compute"} => stack = <<>>

IInv == CellsOK /\ HeadsOK /\ RowsOK /\ CallOK /\ StackOK

LEMMA InitIInv == Init => IInv
<1> SUFFICES ASSUME Init
             PROVE  IInv
  OBVIOUS
<1>1. \A st \in Stream : Sound(v_cells[st]) /\ v_cells[st] \in CellsType
  BY ResetSound DEF Init, Sound
<1>2. CellsOK
  BY <1>1 DEF CellsOK, Init
<1>3. HeadsOK
  BY SizeAssumption DEF HeadsOK, HeadRange, Init
<1>4. RowsOK
  BY EmptySeq DEF RowsOK, Init
<1>5. CallOK
  <2>1. /\ ubatches = <<>> /\ ubatches \in Seq(UBatch) /\ Len(ubatches) = 0
        /\ sinfos = <<>> /\ sinfos \in Seq([Stream -> SlotMap]) /\ Len(sinfos) = 0
    BY EmptySeq DEF Init
  <2>2. phase = "idle" /\ i_cur = 0 /\ did_optimize \in BOOLEAN
    BY DEF Init
  <2>3. Len(sinfos) <= Len(ubatches) /\ \A k \in 1 .. Len(sinfos) : FALSE
    BY <2>1
  <2>4. /\ phase \in {"idle", "update", "prepare", "restore", "apply", "compute"}
        /\ phase \notin {"apply", "compute"}
    BY <2>2
  <2> QED
    BY <2>1, <2>2, <2>3, <2>4, Zenon DEF CallOK
<1>6. StackOK
  BY EmptySeq DEF StackOK, Init
<1> QED
  BY <1>2, <1>3, <1>4, <1>5, <1>6 DEF IInv

-----------------------------------------------------------------------------
(* Heads.                                                                  *)

LEMMA LeastCell ==
  ASSUME NEW F \in SUBSET Cell, F # {}
  PROVE  Least(F) \in Cell /\ Least(F) \in HeadRange
<1>1. F \in SUBSET Nat
  BY SizeAssumption DEF Cell
<1>2. Least(F) \in F
  BY <1>1, LeastNat
<1>3. Least(F) \in Cell
  BY <1>2
<1> QED
  BY <1>3, SizeAssumption DEF Cell, HeadRange

LEMMA LowerHeadType ==
  ASSUME NEW h \in HeadRange, NEW F \in SUBSET Cell
  PROVE  LowerHead(h, F) \in HeadRange
BY LeastCell DEF LowerHead

LEMMA HeadAfterType ==
  ASSUME NEW h \in HeadRange, NEW slot, DOMAIN slot \in SUBSET Cell, NEW n \in Nat,
         \A i \in DOMAIN slot : slot[i] \in 1 .. n
  PROVE  HeadAfter(h, slot) \in HeadRange
<1>1. CASE DOMAIN slot = {}
  BY <1>1 DEF HeadAfter
<1>2. CASE DOMAIN slot # {}
  <2> DEFINE S == {slot[i] : i \in DOMAIN slot}
             IsLast(i) == \A j \in DOMAIN slot : slot[i] >= slot[j]
             last == CHOOSE i \in DOMAIN slot : IsLast(i)
  <2>1. S \in SUBSET Int /\ S # {} /\ n \in Int /\ \A x \in S : x <= n
    BY <1>2
  <2>2. \E x \in S : \A y \in S : x >= y
    <3> HIDE DEF S
    <3> QED
      BY <2>1, GreatestInt
  <2>3. \E i \in DOMAIN slot : IsLast(i)
    BY <2>2
  <2>4. HeadAfter(h, slot) = last + 1
    BY <1>2, Zenon DEF HeadAfter
  <2>5. last \in DOMAIN slot
    <3> HIDE DEF IsLast
    <3> QED
      BY <2>3
  <2> HIDE DEF last
  <2> QED
    BY <2>4, <2>5, SizeAssumption DEF Cell, HeadRange
<1> QED
  BY <1>1, <1>2

-----------------------------------------------------------------------------
(* The memory operations of the application.                               *)

LEMMA IdleKeeps ==
  ASSUME IInv, phase = "idle", UNCHANGED callVars, CellsOK', HeadsOK', RowsOK'
  PROVE  IInv'
<1>1. CallOK'
  BY DEF callVars, IInv, CallOK
<1>2. StackOK'
  <2>1. stack' = <<>> /\ Len(<<>>) = 0 /\ <<>> \in Seq(StackEntry)
    BY EmptySeq DEF callVars, IInv, StackOK
  <2> QED
    BY <2>1 DEF StackOK
<1> QED
  BY <1>1, <1>2 DEF IInv

LEMMA OnStreamOK ==
  ASSUME CellsOK, NEW st \in Stream, NEW c, Sound(c), OnStream(st, c)
  PROVE  CellsOK'
BY DEF CellsOK, OnStream, Sound

LEMMA SetHeadOK ==
  ASSUME HeadsOK, NEW st \in Stream, NEW h \in HeadRange, v_heads' = [v_heads EXCEPT ![st] = h]
  PROVE  HeadsOK'
BY DEF HeadsOK

LEMMA RangeFacts ==
  ASSUME NEW c, Sound(c), NEW r \in Int \X Int
  PROVE  InRange(c, r) \in SUBSET Cell /\ \A i \in InRange(c, r) : c.pos[i] # Empty
<1>1. Lo(r) \in Int /\ Lo(r) >= 0
  BY DEF Lo
<1>2. \A i \in InRange(c, r) : c.pos[i] \in Int /\ c.pos[i] >= Lo(r)
  BY PosFacts DEF InRange, pos_in, Sound, CellsType
<1> QED
  BY <1>1, <1>2 DEF InRange, Empty

LEMMA RangeConstants ==
  /\ \A r \in RmRanges : r \in Int \X Int
  /\ \A r \in CpRanges : r \in Int \X Int
  /\ \A r \in AddRanges : r \in Int \X Int
  /\ \A r \in DivRanges : r \in Int \X Int
BY RangesAssumption

LEMMA ClearIInv == \A data \in BOOLEAN : IInv /\ clear(data) => IInv'
<1> SUFFICES ASSUME NEW data \in BOOLEAN, IInv, clear(data)
             PROVE  IInv'
  OBVIOUS
<1>1. CellsOK'
  BY ResetSound DEF clear, CellsOK, Sound
<1>2. HeadsOK'
  BY SizeAssumption DEF clear, HeadsOK, HeadRange
<1>3. RowsOK'
  BY DEF clear, RowsOK, IInv
<1> QED
  BY <1>1, <1>2, <1>3, IdleKeeps DEF clear

LEMMA SeqRmIInv == \A s \in SeqId, r \in RmRanges : IInv /\ SeqRm(s, r) => IInv'
<1> SUFFICES ASSUME NEW s \in SeqId, NEW r \in RmRanges, IInv, SeqRm(s, r)
             PROVE  IInv'
  OBVIOUS
<1> DEFINE st == seq_to_stream(s)
           c == v_cells[st]
           G == Selected(c, s, r)
<1>1. st \in Stream /\ Sound(c)
  BY StreamFacts DEF IInv, CellsOK
<1>2. /\ OnStream(st, seq_rm(c, G))
      /\ v_heads' = [v_heads EXCEPT ![st] = LowerHead(@, Freed(c, G))]
      /\ phase = "idle" /\ UNCHANGED callVars /\ UNCHANGED <<k_rows, sc_info>>
  BY DEF SeqRm
<1>3. \A i \in Cell : G[i] \subseteq c.seq[i]
  BY DEF Selected
<1>4. Freed(c, G) \in SUBSET Cell
  BY DEF Freed
<1> HIDE DEF st, c, G
<1>5. Sound(seq_rm(c, G))
  BY <1>1, <1>3, SeqRmSound
<1>6. CellsOK'
  BY <1>1, <1>2, <1>5, OnStreamOK DEF IInv
<1>7. HeadsOK'
  <2>1. LowerHead(v_heads[st], Freed(c, G)) \in HeadRange
    BY <1>1, <1>4, LowerHeadType DEF IInv, HeadsOK
  <2> QED
    BY <1>1, <1>2, <2>1, SetHeadOK DEF IInv
<1>8. RowsOK'
  BY <1>2 DEF RowsOK, IInv
<1> QED
  BY <1>2, <1>6, <1>7, <1>8, IdleKeeps

LEMMA SeqRmAnyIInv == \A r \in RmRanges : IInv /\ SeqRmAny(r) => IInv'
<1> SUFFICES ASSUME NEW r \in RmRanges, IInv, SeqRmAny(r)
             PROVE  IInv'
  OBVIOUS
<1> DEFINE M(st) == InRange(v_cells[st], r)
<1>1. \A st \in Stream : Sound(v_cells[st]) /\ M(st) \in SUBSET Cell
  BY DEF IInv, CellsOK, InRange
<1>2. /\ v_cells' = [st \in Stream |-> rm(v_cells[st], M(st))]
      /\ v_heads' = [st \in Stream |-> LowerHead(v_heads[st], M(st))]
      /\ phase = "idle" /\ UNCHANGED callVars /\ UNCHANGED <<k_rows, sc_info>>
  BY DEF SeqRmAny
<1> HIDE DEF M
<1>3. \A st \in Stream : Sound(rm(v_cells[st], M(st)))
  BY <1>1, RmSound
<1>4. \A st \in Stream : LowerHead(v_heads[st], M(st)) \in HeadRange
  BY <1>1, LowerHeadType DEF IInv, HeadsOK
<1>5. CellsOK'
  BY <1>2, <1>3 DEF CellsOK, Sound
<1>6. HeadsOK'
  BY <1>2, <1>4 DEF HeadsOK
<1>7. RowsOK'
  BY <1>2 DEF RowsOK, IInv
<1> QED
  BY <1>2, <1>5, <1>6, <1>7, IdleKeeps

LEMMA SeqCpSameIInv ==
  \A src, dst \in SeqId, r \in CpRanges :
    IInv /\ Fresh(src, dst, r) /\ SeqCpSame(src, dst, r) => IInv'
<1> SUFFICES ASSUME NEW src \in SeqId, NEW dst \in SeqId, NEW r \in CpRanges,
                    IInv, Fresh(src, dst, r), SeqCpSame(src, dst, r)
             PROVE  IInv'
  OBVIOUS
<1> DEFINE c == v_cells[0]
           M == CpCells(src, r)
<1>1. 0 \in Stream /\ Sound(c)
  BY StreamFacts DEF IInv, CellsOK, SeqCpSame
<1>2. /\ OnStream(0, seq_add(c, M, dst)) /\ UNCHANGED v_heads
      /\ phase = "idle" /\ UNCHANGED callVars /\ UNCHANGED <<k_rows, sc_info>>
  BY DEF SeqCpSame
<1>3. M \in SUBSET Cell /\ \A i \in M : c.pos[i] # Empty
  BY <1>1, RangeFacts, RangeConstants DEF CpCells
<1>4. \A i \in M : dst \notin c.seq[i]
  BY <1>3 DEF Fresh, Has
<1> HIDE DEF c, M
<1>5. Sound(seq_add(c, M, dst))
  BY <1>1, <1>3, <1>4, SeqAddSound
<1>6. CellsOK'
  BY <1>1, <1>2, <1>5, OnStreamOK DEF IInv
<1>7. HeadsOK' /\ RowsOK'
  BY <1>2 DEF HeadsOK, RowsOK, IInv
<1> QED
  BY <1>2, <1>6, <1>7, IdleKeeps

(* The destination of a stream copy has the cells of the source sequence.  *)
LEMMA CopyCellsSound ==
  ASSUME NEW c, Sound(c), NEW src \in SeqId, NEW dst \in SeqId
  PROVE  Sound(CopyCells(c, src, dst))
<1> DEFINE M == Has(c, src)
           pos == [i \in Cell |-> IF i \in M THEN c.pos[i] ELSE Empty]
           shift == [i \in Cell |-> IF i \in M THEN c.shift[i] ELSE 0]
           seq == [i \in Cell |-> IF i \in M THEN {dst} ELSE {}]
           A == Within(M, [i \in Cell |-> {dst}])
           cnt == seq_pos_inc(reset.seq_pos, c.pos, A)
           h == \E i \in M : c.shift[i] # 0
           d == CopyCells(c, src, dst)
<1>1. d = [pos |-> pos, shift |-> shift, seq |-> seq, used |-> M, seq_pos |-> cnt, has_shift |-> h]
  BY DEF CopyCells
<1>2. /\ M \in SUBSET Cell
      /\ pos \in [Cell -> Pos \cup {Empty}] /\ shift \in [Cell -> Int]
      /\ seq \in [Cell -> SUBSET SeqId] /\ h \in BOOLEAN
  BY DEF Has, Sound, CellsType
<1>3. \A i \in Cell : /\ pos[i] = IF i \in M THEN c.pos[i] ELSE Empty
                      /\ shift[i] = IF i \in M THEN c.shift[i] ELSE 0
                      /\ seq[i] = IF i \in M THEN {dst} ELSE {}
                      /\ A[i] = IF i \in M THEN {dst} ELSE {}
                      /\ i \in M => c.pos[i] # Empty
                      /\ i \in M => (c.shift[i] # 0 => h)
  BY DEF Within, Has, Sound, Consistent
<1> HIDE DEF M, pos, shift, seq, A, cnt, h, d
<1>4. /\ d.pos = pos /\ d.shift = shift /\ d.seq = seq /\ d.used = M /\ d.seq_pos = cnt
      /\ d.has_shift = h
  BY <1>1, Zenon
<1>5. Wide(d)
  <2>1. pos \in [Cell -> Int]
    BY <1>2, PosFacts
  <2>2. SUFFICES ASSUME cnt \in [SeqId -> [Pos -> Nat]]
                 PROVE  d \in WideType
    BY <1>4 DEF Wide
  <2> QED
    BY <1>1, <1>2, <2>1, <2>2 DEF WideType
<1>6. Counted(d)
  <2>1. IsCounts(cnt)
    BY IsCountsOfOps DEF cnt
  <2>2. \A t \in SeqId : \A p \in Pos : CellsAt(reset.pos, reset.seq, t, p) = {}
    BY PosFacts DEF reset, CellsAt
  <2>3. \A t \in SeqId : \A p \in Pos : CellsAt(d.pos, d.seq, t, p) = CellsAt(c.pos, A, t, p)
    BY <1>3, <1>4 DEF CellsAt
  <2>4. ASSUME NEW t \in SeqId, NEW p \in Pos
        PROVE  /\ cnt[t][p] = Cardinality(CellsAt(d.pos, d.seq, t, p))
               /\ Cardinality(CellsAt(d.pos, d.seq, t, p)) \in Nat
    <3>1. CellsAt(d.pos, d.seq, t, p) \in SUBSET Cell
      BY DEF CellsAt
    <3>2. cnt[t][p] = 0 + Cardinality(CellsAt(c.pos, A, t, p))
      BY DEF cnt, seq_pos_inc, reset
    <3> QED
      BY <2>3, <3>1, <3>2, CellFinite
  <2> QED
    BY <1>4, <2>1, <2>4 DEF Counted
<1>7. Shape(d)
  <2>1. d.used = {i \in Cell : d.pos[i] # Empty}
    BY <1>2, <1>3, <1>4
  <2>2. \A i \in Cell : /\ d.pos[i] = Empty <=> d.seq[i] = {}
                        /\ d.pos[i] = Empty => d.shift[i] = 0
    BY <1>3, <1>4
  <2>3. \A i \in Cell : ~d.has_shift => d.shift[i] = 0
    BY <1>3, <1>4
  <2> QED
    BY <1>2, <1>4, <2>1, <2>2, <2>3 DEF Shape
<1> QED
  BY <1>5, <1>6, <1>7, Assemble DEF d

LEMMA SeqCpCrossIInv ==
  \A src, dst \in SeqId, r \in CpRanges : IInv /\ SeqCpCross(src, dst, r) => IInv'
<1> SUFFICES ASSUME NEW src \in SeqId, NEW dst \in SeqId, NEW r \in CpRanges,
                    IInv, SeqCpCross(src, dst, r)
             PROVE  IInv'
  OBVIOUS
<1>1. src \in Stream /\ dst \in Stream
  BY StreamFacts DEF SeqCpCross
<1>2. Sound(CopyCells(v_cells[src], src, dst))
  BY <1>1, CopyCellsSound DEF IInv, CellsOK
<1>3. CellsOK'
  BY <1>1, <1>2, OnStreamOK DEF IInv, SeqCpCross
<1>4. HeadsOK'
  BY <1>1 DEF IInv, HeadsOK, SeqCpCross
<1>5. RowsOK'
  <2>1. sc_info' \in Seq(Stream \X Stream)
    BY <1>1, AppendProperties DEF IInv, RowsOK, SeqCpCross
  <2> QED
    BY <2>1 DEF IInv, RowsOK, SeqCpCross
<1> QED
  BY <1>3, <1>4, <1>5, IdleKeeps DEF SeqCpCross

LEMMA SeqKeepIInv == \A s \in KeepSeqs : IInv /\ SeqKeep(s) => IInv'
<1> SUFFICES ASSUME NEW s \in KeepSeqs, IInv, SeqKeep(s)
             PROVE  IInv'
  OBVIOUS
<1> DEFINE st == seq_to_stream(s)
           c == v_cells[st]
<1>1. s \in SeqId /\ st \in Stream /\ Sound(c)
  BY KeepSeqsAssumption, StreamFacts DEF IInv, CellsOK
<1>2. /\ OnStream(st, seq_keep(c, s))
      /\ v_heads' = [v_heads EXCEPT ![st] = LowerHead(@, Dropped(c, s))]
      /\ phase = "idle" /\ UNCHANGED callVars /\ UNCHANGED <<k_rows, sc_info>>
  BY DEF SeqKeep
<1>3. Dropped(c, s) \in SUBSET Cell
  BY DEF Dropped
<1> HIDE DEF st, c
<1>4. Sound(seq_keep(c, s))
  BY <1>1, SeqKeepSound
<1>5. CellsOK'
  BY <1>1, <1>2, <1>4, OnStreamOK DEF IInv
<1>6. HeadsOK'
  <2>1. LowerHead(v_heads[st], Dropped(c, s)) \in HeadRange
    BY <1>1, <1>3, LowerHeadType DEF IInv, HeadsOK
  <2> QED
    BY <1>1, <1>2, <2>1, SetHeadOK DEF IInv
<1>7. RowsOK'
  BY <1>2 DEF RowsOK, IInv
<1> QED
  BY <1>2, <1>5, <1>6, <1>7, IdleKeeps

LEMMA SeqAddIInv ==
  \A s \in SeqId, r \in AddRanges, d \in Deltas : IInv /\ SeqAdd(s, r, d) => IInv'
<1> SUFFICES ASSUME NEW s \in SeqId, NEW r \in AddRanges, NEW d \in Deltas, IInv, SeqAdd(s, r, d)
             PROVE  IInv'
  OBVIOUS
<1> DEFINE st == seq_to_stream(s)
           c == v_cells[st]
           M == Moved(s, r)
           gone == {i \in M : c.pos[i] + d < 0}
           h == IF gone # {} THEN Least(gone) ELSE 0
<1>1. st \in Stream /\ Sound(c) /\ d \in Int
  BY DeltasAssumption, StreamFacts DEF IInv, CellsOK
<1>2. M \in SUBSET Cell /\ \A i \in M : c.pos[i] # Empty
  BY <1>1, RangeFacts, RangeConstants DEF Moved
<1>3. /\ OnStream(st, pos_add(c, M, d)) /\ \A i \in M : c.pos[i] + d <= MaxPos
      /\ v_heads' = [v_heads EXCEPT ![st] = h]
      /\ phase = "idle" /\ UNCHANGED callVars /\ UNCHANGED <<k_rows, sc_info>>
  BY DEF SeqAdd
<1>4. h \in HeadRange
  <2>1. gone \in SUBSET Cell
    BY <1>2
  <2> HIDE DEF gone
  <2> QED
    BY <2>1, LeastCell, SizeAssumption DEF HeadRange
<1> HIDE DEF st, c, M, gone, h
<1>5. Sound(pos_add(c, M, d))
  BY <1>1, <1>2, <1>3, PosAddSound
<1>6. CellsOK'
  BY <1>1, <1>3, <1>5, OnStreamOK DEF IInv
<1>7. HeadsOK'
  BY <1>1, <1>3, <1>4, SetHeadOK DEF IInv
<1>8. RowsOK'
  BY <1>3 DEF RowsOK, IInv
<1> QED
  BY <1>3, <1>6, <1>7, <1>8, IdleKeeps

LEMMA SeqDivIInv ==
  \A s \in SeqId, r \in DivRanges, d \in Divs : IInv /\ SeqDiv(s, r, d) => IInv'
<1> SUFFICES ASSUME NEW s \in SeqId, NEW r \in DivRanges, NEW d \in Divs, IInv, SeqDiv(s, r, d)
             PROVE  IInv'
  OBVIOUS
<1> DEFINE st == seq_to_stream(s)
           c == v_cells[st]
           M == Moved(s, r)
<1>1. st \in Stream /\ Sound(c) /\ d \in Nat \ {0}
  BY DivsAssumption, StreamFacts DEF IInv, CellsOK
<1>2. M \in SUBSET Cell /\ \A i \in M : c.pos[i] # Empty
  BY <1>1, RangeFacts, RangeConstants DEF Moved
<1>3. /\ OnStream(st, pos_div(c, M, d))
      /\ phase = "idle" /\ UNCHANGED callVars /\ UNCHANGED <<v_heads, k_rows, sc_info>>
  BY DEF SeqDiv
<1> HIDE DEF st, c, M
<1>4. Sound(pos_div(c, M, d))
  BY <1>1, <1>2, PosDivSound
<1>5. CellsOK'
  BY <1>1, <1>3, <1>4, OnStreamOK DEF IInv
<1>6. HeadsOK' /\ RowsOK'
  BY <1>3 DEF HeadsOK, RowsOK, IInv
<1> QED
  BY <1>3, <1>5, <1>6, IdleKeeps

LEMMA MemoryOpIInv == IInv /\ MemoryOp => IInv'
BY ClearIInv, SeqRmIInv, SeqRmAnyIInv, SeqCpSameIInv, SeqCpCrossIInv, SeqKeepIInv, SeqAddIInv,
   SeqDivIInv DEF MemoryOp

-----------------------------------------------------------------------------
(* Placing a micro-batch.                                                  *)

LEMMA FindSlotFacts ==
  ASSUME NEW c, NEW head, NEW n \in Nat
  PROVE  /\ find_slot(c, head, n) \in SlotMap
         /\ DOMAIN find_slot(c, head, n) \in SUBSET Cell
         /\ \A i \in DOMAIN find_slot(c, head, n) : find_slot(c, head, n)[i] \in 1 .. n
<1> DEFINE start == ScanFrom(c, head, n)
           M == {j \in Cell : CanUse(c, j) /\ Rank(c, start, j) < n}
           f == find_slot(c, head, n)
<1>1. f = [i \in M |-> Rank(c, start, i) + 1]
  BY DEF find_slot
<1>2. M \in SUBSET Cell /\ \A i \in M : Rank(c, start, i) < n
  OBVIOUS
<1>3. \A i \in Cell : Rank(c, start, i) \in Nat
  BY CellFinite DEF Rank
<1> HIDE DEF f, M, start
<1>4. \A i \in M : Rank(c, start, i) + 1 \in 1 .. n
  BY <1>2, <1>3
<1>5. f \in [M -> Nat] /\ DOMAIN f = M /\ \A i \in M : f[i] \in 1 .. n
  BY <1>1, <1>4
<1> QED
  BY <1>2, <1>5 DEF SlotMap, f

LEMMA EmplaceSound ==
  ASSUME NEW c, Sound(c), NEW slot, DOMAIN slot \in SUBSET Cell, NEW toks,
         \A i \in DOMAIN slot : toks[slot[i]] \in Token
  PROVE  /\ Sound(Emplace(c, slot, toks))
         /\ \A i \in Cell : c.shift[i] = 0 => Emplace(c, slot, toks).shift[i] = 0
         /\ \A i \in DOMAIN slot : Emplace(c, slot, toks).shift[i] = 0
<1> DEFINE M == DOMAIN slot
           O == {i \in M : ~is_empty(c, i)}
           e == rm(c, O)
           P == [i \in M |-> toks[slot[i]].pos]
           S == [i \in M |-> toks[slot[i]].seqs]
           d == Emplace(c, slot, toks)
<1>1. d = pos_set(e, M, P, S)
  BY DEF Emplace
<1>2. M \in SUBSET Cell /\ O \in SUBSET Cell /\ \A i \in M : i \in O \/ c.pos[i] = Empty
  BY DEF is_empty
<1>3. \A i \in M : P[i] \in Pos /\ S[i] \in SUBSET SeqId /\ S[i] # {}
  BY DEF Token
<1> HIDE DEF M, O, e, P, S, d
<1>4. /\ Sound(e) /\ \A i \in Cell : c.shift[i] = 0 => e.shift[i] = 0
      /\ \A i \in O : e.pos[i] = Empty
      /\ \A i \in Cell \ O : e.pos[i] = c.pos[i]
  BY <1>2, RmSound DEF e
<1>5. \A i \in M : e.pos[i] = Empty
  BY <1>2, <1>4
<1>6. Sound(d) /\ \A i \in Cell : e.shift[i] = 0 => d.shift[i] = 0
  <2>1. /\ Sound(pos_set(e, M, P, S))
        /\ \A i \in Cell : e.shift[i] = 0 => pos_set(e, M, P, S).shift[i] = 0
    <3>1. M \in SUBSET Cell /\ Sound(e) /\ \A i \in M : e.pos[i] = Empty
      BY <1>2, <1>4, <1>5
    <3> QED
      BY <1>3, <3>1, PosSetSound, Zenon
  <2> QED
    BY <1>1, <2>1
<1>7. \A i \in M : e.shift[i] = 0
  BY <1>2, <1>4, <1>5 DEF Sound, Consistent
<1>8. (\A i \in Cell : c.shift[i] = 0 => d.shift[i] = 0) /\ \A i \in M : d.shift[i] = 0
  BY <1>2, <1>4, <1>6, <1>7
<1> QED
  BY <1>6, <1>8 DEF d, M

(* apply_ubatch() on one stream; what it places has no shift pending, also *)
(* where it overwrites a cell whose shift was.                             *)
LEMMA ApplyUbatchSound ==
  ASSUME NEW c, Sound(c), NEW slot, DOMAIN slot \in SUBSET Cell, NEW toks,
         \A i \in DOMAIN slot : toks[slot[i]] \in Token
  PROVE  /\ Sound(apply_ubatch(c, slot, toks))
         /\ \A i \in Cell : c.shift[i] = 0 => apply_ubatch(c, slot, toks).shift[i] = 0
         /\ \A i \in DOMAIN slot : apply_ubatch(c, slot, toks).shift[i] = 0
<1> DEFINE e == Emplace(c, slot, toks)
           G == Purged(c, slot, e)
           M == DOMAIN slot
<1>1. /\ Sound(e) /\ \A i \in Cell : c.shift[i] = 0 => e.shift[i] = 0
      /\ \A i \in M : e.shift[i] = 0
  BY EmplaceSound
<1>2. \A i \in Cell : G[i] \subseteq e.seq[i]
  BY DEF Purged
<1>3. apply_ubatch(c, slot, toks) = seq_rm(e, G) /\ M \in SUBSET Cell
  BY DEF apply_ubatch
<1> HIDE DEF e, G, M
<1>4. /\ Sound(seq_rm(e, G))
      /\ \A i \in Cell : e.shift[i] = 0 => seq_rm(e, G).shift[i] = 0
  BY <1>1, <1>2, SeqRmSound
<1> QED
  BY <1>1, <1>3, <1>4 DEF M

(* A slot of every stream for the tokens of a micro-batch.                 *)
Places(sinfo, ub) ==
  \A st \in Stream : /\ DOMAIN sinfo[st] \in SUBSET Cell
                     /\ \A i \in DOMAIN sinfo[st] : sinfo[st][i] \in 1 .. Len(ub[st])

LEMMA ApplyOK ==
  ASSUME CellsOK, HeadsOK, NEW sinfo, NEW ub \in UBatch, Places(sinfo, ub), Apply(sinfo, ub)
  PROVE  /\ CellsOK' /\ HeadsOK'
         /\ \A st \in Stream : \A i \in Cell : v_cells[st].shift[i] = 0 => v_cells'[st].shift[i] = 0
         /\ \A st \in Stream : \A i \in DOMAIN sinfo[st] : v_cells'[st].shift[i] = 0
<1>1. \A st \in Stream : ub[st] \in Seq(Token) /\ Len(ub[st]) \in Nat
  BY LenProperties DEF UBatch
<1>2. ASSUME NEW st \in Stream
      PROVE  /\ Sound(apply_ubatch(v_cells[st], sinfo[st], ub[st]))
             /\ \A i \in Cell : v_cells[st].shift[i] = 0 =>
                                apply_ubatch(v_cells[st], sinfo[st], ub[st]).shift[i] = 0
             /\ \A i \in DOMAIN sinfo[st] :
                                apply_ubatch(v_cells[st], sinfo[st], ub[st]).shift[i] = 0
  <2>1. \A i \in DOMAIN sinfo[st] : ub[st][sinfo[st][i]] \in Token
    BY <1>1, ElementOfSeq DEF Places
  <2> QED
    BY <2>1, ApplyUbatchSound DEF Places, CellsOK
<1>3. \A st \in Stream : HeadAfter(v_heads[st], sinfo[st]) \in HeadRange
  BY <1>1, HeadAfterType DEF Places, HeadsOK
<1>4. /\ v_cells' = [st \in Stream |-> apply_ubatch(v_cells[st], sinfo[st], ub[st])]
      /\ v_heads' = [st \in Stream |-> HeadAfter(v_heads[st], sinfo[st])]
  BY DEF Apply
<1>5. CellsOK'
  BY <1>2, <1>4 DEF CellsOK, Sound
<1>6. HeadsOK'
  BY <1>3, <1>4 DEF HeadsOK
<1> QED
  BY <1>2, <1>4, <1>5, <1>6

-----------------------------------------------------------------------------
(* The steps of decode.                                                    *)

LEMMA BeginIInv == IInv /\ Begin => IInv'
<1> SUFFICES ASSUME NEW A \in SeqSets, NEW B \in SeqSets,
                    NEW n \in 1 .. MaxBatch, NEW m \in 0 .. MaxBatch,
                    m = 0 => B = A, IInv, DecodeBegin(A, n, B, m)
             PROVE  IInv'
  BY DEF Begin
<1>1. /\ phase = "idle" /\ Valid(A, n) /\ (m > 0 => Valid(B, m))
      /\ phase' = "update" /\ ubatches' = init_batch(A, n, B, m)
      /\ UNCHANGED <<v_cells, v_heads, k_rows, sc_info, sinfos, stack, i_cur, did_optimize>>
  BY DEF DecodeBegin, memVars
<1>2. n \in Nat \ {0} /\ m \in Nat
  OBVIOUS
<1>3. ubatches' \in Seq(UBatch) /\ Len(ubatches') >= 1
  BY <1>1, <1>2, InitBatchType, ShortFacts
<1>4. CellsOK' /\ HeadsOK' /\ RowsOK'
  BY <1>1 DEF IInv, CellsOK, HeadsOK, RowsOK
<1>5. CallOK'
  <2>1. /\ sinfos' = <<>> /\ sinfos' \in Seq([Stream -> SlotMap]) /\ Len(sinfos') = 0
        /\ i_cur' = 0 /\ did_optimize' \in BOOLEAN
    BY <1>1, EmptySeq DEF IInv, CallOK
  <2>2. Len(ubatches') \in Nat
    BY <1>3, LenProperties
  <2>3. Len(sinfos') <= Len(ubatches') /\ \A k \in 1 .. Len(sinfos') : FALSE
    BY <2>1, <2>2
  <2> QED
    BY <1>1, <1>3, <2>1, <2>3 DEF CallOK
<1>6. StackOK'
  BY <1>1 DEF IInv, StackOK
<1> QED
  BY <1>4, <1>5, <1>6 DEF IInv

LEMMA UpdateCopyIInv == IInv /\ UpdateCopy => IInv'
<1> SUFFICES ASSUME IInv, UpdateCopy
             PROVE  IInv'
  OBVIOUS
<1>1. /\ Head(sc_info) \in Stream \X Stream
      /\ Tail(sc_info) \in Seq(Stream \X Stream)
  BY HeadTailProperties DEF UpdateCopy, IInv, RowsOK
<1>2. RowsOK'
  BY <1>1 DEF UpdateCopy, IInv, RowsOK
<1>3. CellsOK' /\ HeadsOK'
  BY DEF UpdateCopy, IInv, CellsOK, HeadsOK
<1>4. CallOK' /\ StackOK'
  BY DEF UpdateCopy, callVars, IInv, CallOK, StackOK
<1> QED
  BY <1>2, <1>3, <1>4 DEF IInv

LEMMA UpdateShiftIInv == IInv /\ UpdateShift => IInv'
<1> SUFFICES ASSUME IInv, UpdateShift
             PROVE  IInv'
  OBVIOUS
<1>1. /\ phase = "update" /\ phase' = "prepare" /\ stack = <<>> /\ stack' = <<>>
      /\ UNCHANGED <<v_heads, sc_info, ubatches, sinfos, i_cur, did_optimize>>
  BY DEF UpdateShift, IInv, StackOK
<1>2. CellsOK'
  <2>1. CASE UNCHANGED v_cells
    BY <2>1 DEF IInv, CellsOK
  <2>2. CASE v_cells' = [st \in Stream |-> reset_shift(v_cells[st])]
    <3>1. \A st \in Stream : Sound(reset_shift(v_cells[st]))
      BY ResetShiftSound DEF IInv, CellsOK
    <3> QED
      BY <2>2, <3>1 DEF CellsOK, Sound
  <2> QED
    BY <2>1, <2>2 DEF UpdateShift
<1>3. RowsOK'
  <2>1. \A st \in Stream : Shifted(st) \in [Cell -> SUBSET Int]
    <3>1. \A st \in Stream : \A i \in Cell : \A p \in k_rows[st][i] :
             p \in Int /\ v_cells[st].shift[i] \in Int
      BY DEF IInv, RowsOK, CellsOK, CellsType
    <3> QED
      BY <3>1 DEF Shifted
  <2>2. CASE UNCHANGED k_rows
    BY <1>1, <2>2 DEF IInv, RowsOK
  <2>3. CASE k_rows' = [st \in Stream |-> Shifted(st)]
    BY <1>1, <2>1, <2>3 DEF IInv, RowsOK
  <2>4. CASE k_rows' = [st \in Stream |-> [i \in Cell |-> k_rows[st][i] \cup Shifted(st)[i]]]
    BY <1>1, <2>1, <2>4 DEF IInv, RowsOK
  <2> QED
    BY <2>2, <2>3, <2>4 DEF UpdateShift
<1>4. HeadsOK'
  BY <1>1 DEF IInv, HeadsOK
<1>5. CallOK'
  BY <1>1 DEF IInv, CallOK
<1>6. StackOK'
  BY <1>1, EmptySeq DEF StackOK
<1> QED
  BY <1>2, <1>3, <1>4, <1>5, <1>6 DEF IInv

LEMMA UbatchFacts ==
  ASSUME IInv, NEW k \in 1 .. Len(ubatches)
  PROVE  /\ ubatches[k] \in UBatch
         /\ \A st \in Stream : Len(ubatches[k][st]) \in Nat
<1>1. ubatches[k] \in UBatch
  BY ElementOfSeq DEF IInv, CallOK
<1>2. \A st \in Stream : ubatches[k][st] \in Seq(Token)
  BY <1>1 DEF UBatch
<1> QED
  BY <1>1, <1>2, LenProperties

LEMMA SlotsForFacts ==
  ASSUME IInv, NEW k \in 1 .. Len(ubatches)
  PROVE  /\ SlotsFor(ubatches[k]) \in [Stream -> SlotMap]
         /\ Places(SlotsFor(ubatches[k]), ubatches[k])
<1> DEFINE ub == ubatches[k]
<1>1. \A st \in Stream : Len(ub[st]) \in Nat
  BY UbatchFacts
<1> HIDE DEF ub
<1>2. \A st \in Stream : SlotsFor(ub)[st] = find_slot(v_cells[st], v_heads[st], Len(ub[st]))
  BY DEF SlotsFor
<1>3. \A st \in Stream :
         /\ SlotsFor(ub)[st] \in SlotMap
         /\ DOMAIN SlotsFor(ub)[st] \in SUBSET Cell
         /\ \A i \in DOMAIN SlotsFor(ub)[st] : SlotsFor(ub)[st][i] \in 1 .. Len(ub[st])
  BY <1>1, <1>2, FindSlotFacts
<1>4. SlotsFor(ub) \in [Stream -> SlotMap]
  BY <1>3 DEF SlotsFor
<1> QED
  BY <1>3, <1>4 DEF Places, ub

(* cp() saves proper cells.                                                *)
LEMMA CpFacts ==
  ASSUME NEW c, Sound(c), NEW M \in SUBSET Cell
  PROVE  cp(c, M) \in SavedMap /\ DOMAIN cp(c, M) = M
<1> DEFINE e(i) == [pos |-> c.pos[i], seq |-> c.seq[i]]
<1>1. \A i \in Cell : e(i) \in ProperCell
  BY DEF Sound, Consistent, CellsType, ProperCell, SavedCell
<1>2. cp(c, M) = [i \in M |-> e(i)]
  BY DEF cp
<1> HIDE DEF e
<1>3. cp(c, M) \in [M -> ProperCell]
  BY <1>1, <1>2
<1> QED
  BY <1>2, <1>3 DEF SavedMap

LEMMA PrepareSlotIInv == IInv /\ PrepareSlot => IInv'
<1> SUFFICES ASSUME IInv, PrepareSlot
             PROVE  IInv'
  OBVIOUS
<1> DEFINE k == Len(sinfos) + 1
           ub == ubatches[k]
           sinfo == SlotsFor(ub)
           saved == [st \in Stream |-> cp(v_cells[st], DOMAIN sinfo[st])]
           entry == [heads |-> v_heads, cells |-> saved]
<1>1. /\ phase = "prepare" /\ Len(sinfos) < Len(ubatches)
      /\ sinfos' = Append(sinfos, sinfo) /\ stack' = Append(stack, entry)
      /\ Apply(sinfo, ub)
      /\ UNCHANGED <<k_rows, sc_info, phase, ubatches, i_cur, did_optimize>>
  BY DEF PrepareSlot
<1>2. /\ sinfos \in Seq([Stream -> SlotMap]) /\ Len(sinfos) \in Nat
      /\ ubatches \in Seq(UBatch) /\ Len(ubatches) \in Nat
      /\ stack \in Seq(StackEntry) /\ Len(stack) \in Nat
  BY LenProperties DEF IInv, CallOK, StackOK
<1>3. k \in 1 .. Len(ubatches)
  BY <1>1, <1>2
<1>4. ub \in UBatch /\ sinfo \in [Stream -> SlotMap] /\ Places(sinfo, ub)
  BY <1>3, UbatchFacts, SlotsForFacts
<1>5. /\ CellsOK' /\ HeadsOK'
      /\ \A st \in Stream : \A i \in Cell : v_cells[st].shift[i] = 0 => v_cells'[st].shift[i] = 0
      /\ \A st \in Stream : \A i \in DOMAIN sinfo[st] : v_cells'[st].shift[i] = 0
  <2> HIDE DEF ub, sinfo
  <2> QED
    BY <1>1, <1>4, ApplyOK DEF IInv
<1>6. \A st \in Stream : saved[st] \in SavedMap /\ DOMAIN saved[st] = DOMAIN sinfo[st]
  <2>1. \A st \in Stream : saved[st] = cp(v_cells[st], DOMAIN sinfo[st])
    OBVIOUS
  <2> HIDE DEF saved, sinfo
  <2> QED
    BY <1>4, <2>1, CpFacts DEF Places, IInv, CellsOK
<1>7. entry \in StackEntry /\ entry.cells = saved
  <2>1. saved \in [Stream -> SavedMap]
    BY <1>6
  <2> HIDE DEF saved
  <2> QED
    BY <2>1 DEF StackEntry, IInv, HeadsOK
<1> HIDE DEF ub, sinfo, saved, entry
<1>8. /\ stack' \in Seq(StackEntry) /\ Len(stack') = Len(stack) + 1
      /\ \A j \in 1 .. Len(stack) : stack'[j] = stack[j]
      /\ stack'[Len(stack) + 1] = entry
  BY <1>1, <1>2, <1>7, AppendProperties
<1>9. /\ sinfos' \in Seq([Stream -> SlotMap]) /\ Len(sinfos') = k
      /\ \A j \in 1 .. Len(sinfos) : sinfos'[j] = sinfos[j]
      /\ sinfos'[k] = sinfo
  BY <1>1, <1>2, <1>4, AppendProperties
<1>10. CallOK'
  <2>1. ASSUME NEW j \in 1 .. k, NEW st \in Stream, NEW i \in DOMAIN sinfos'[j][st]
        PROVE  sinfos'[j][st][i] \in 1 .. Len(ubatches[j][st])
    <3>1. CASE j = k
      BY <1>4, <1>9, <3>1 DEF Places, ub
    <3>2. CASE j # k
      <4>1. j \in 1 .. Len(sinfos)
        BY <1>2, <3>2
      <4> QED
        BY <1>9, <4>1 DEF IInv, CallOK
    <3> QED
      BY <3>1, <3>2
  <2>2. Len(sinfos') <= Len(ubatches)
    BY <1>3, <1>9
  <2> QED
    BY <1>1, <1>9, <2>1, <2>2 DEF IInv, CallOK
<1>11. StackOK'
  <2>1. ASSUME NEW j \in 1 .. Len(stack'), NEW st \in Stream,
               NEW i \in DOMAIN stack'[j].cells[st]
        PROVE  v_cells'[st].shift[i] = 0
    <3>1. CASE j = Len(stack) + 1
      BY <1>5, <1>6, <1>7, <1>8, <3>1
    <3>2. CASE j # Len(stack) + 1
      <4>1. j \in 1 .. Len(stack)
        BY <1>2, <1>8, <3>2
      <4>2. stack[j] \in StackEntry
        BY <1>2, <4>1, ElementOfSeq
      <4>3. DOMAIN stack[j].cells[st] \in SUBSET Cell
        BY <4>2 DEF StackEntry, SavedMap
      <4>4. i \in Cell /\ v_cells[st].shift[i] = 0
        BY <1>8, <4>1, <4>3 DEF IInv, StackOK
      <4> QED
        BY <1>5, <4>4
    <3> QED
      BY <3>1, <3>2
  <2> QED
    BY <1>1, <1>8, <2>1 DEF StackOK
<1>12. RowsOK'
  BY <1>1 DEF IInv, RowsOK
<1> QED
  BY <1>5, <1>10, <1>11, <1>12 DEF IInv

LEMMA PrepareEndIInv == IInv /\ PrepareEnd => IInv'
<1> SUFFICES ASSUME IInv, PrepareEnd
             PROVE  IInv'
  OBVIOUS
<1>1. /\ phase = "prepare" /\ phase' = "restore"
      /\ UNCHANGED <<v_cells, v_heads, k_rows, sc_info, ubatches, sinfos, stack, i_cur, did_optimize>>
  BY DEF PrepareEnd, memVars
<1>2. CellsOK' /\ HeadsOK' /\ RowsOK'
  BY <1>1 DEF IInv, CellsOK, HeadsOK, RowsOK
<1>3. CallOK'
  BY <1>1 DEF IInv, CallOK
<1>4. StackOK'
  BY <1>1 DEF IInv, StackOK
<1> QED
  BY <1>2, <1>3, <1>4 DEF IInv

(* The saved heads are read at the rank of a stream: some stream's head.   *)
LEMMA SlotRankType ==
  ASSUME NEW cells, NEW st \in Stream
  PROVE  SlotRank(cells, st) \in Stream
<1> DEFINE T == {t \in Stream : t < st /\ DOMAIN cells[t] # {}}
<1>1. Stream \in SUBSET Nat /\ st \in Nat
  BY NSeqMaxAssumption DEF Stream, SeqId
<1>2. T \subseteq 0 .. st - 1
  <2>1. \A t \in T : t \in Nat /\ t < st
    BY <1>1, Zenon
  <2> HIDE DEF T
  <2> QED
    BY <1>1, <2>1
<1>3. IsFiniteSet(0 .. st - 1) /\ Cardinality(0 .. st - 1) = st
  BY <1>1, FS_Interval
<1>4. Cardinality(T) \in Nat /\ Cardinality(T) <= st
  <2> HIDE DEF T
  <2> QED
    BY <1>2, <1>3, FS_Subset, FS_CardinalityType
<1>5. SlotRank(cells, st) = Cardinality(T)
  BY DEF SlotRank
<1> HIDE DEF T
<1> QED
  BY <1>1, <1>4, <1>5, NSeqMaxAssumption DEF Stream, SeqId

LEMMA RestoreSlotIInv == IInv /\ RestoreSlot => IInv'
<1> SUFFICES ASSUME IInv, RestoreSlot
             PROVE  IInv'
  OBVIOUS
<1> DEFINE n == Len(stack)
           top == stack[n]
<1>1. /\ phase = "restore" /\ stack # <<>>
      /\ v_cells' = [st \in Stream |-> set(v_cells[st], top.cells[st])]
      /\ v_heads' = [st \in Stream |-> IF DOMAIN top.cells[st] = {} THEN v_heads[st]
                                       ELSE top.heads[SlotRank(top.cells, st)]]
      /\ stack' = SubSeq(stack, 1, n - 1)
      /\ UNCHANGED <<k_rows, sc_info, phase, ubatches, sinfos, i_cur, did_optimize>>
  BY DEF RestoreSlot
<1>2. stack \in Seq(StackEntry) /\ n \in Nat \ {0}
  BY <1>1, EmptySeq DEF IInv, StackOK
<1>3. top \in StackEntry
  BY <1>2, ElementOfSeq
<1> HIDE DEF top
<1>4. \A st \in Stream : Sound(set(v_cells[st], top.cells[st]))
                         /\ set(v_cells[st], top.cells[st]).shift = v_cells[st].shift
  <2> TAKE st \in Stream
  <2>1. top.cells[st] \in SavedMap
    BY <1>3 DEF StackEntry
  <2>2. /\ DOMAIN top.cells[st] \in SUBSET Cell
        /\ \A i \in DOMAIN top.cells[st] : Proper(top.cells[st][i])
    BY <2>1 DEF SavedMap, ProperCell, Proper
  <2>3. \A i \in DOMAIN top.cells[st] : v_cells[st].shift[i] = 0
    BY <1>2 DEF top, IInv, StackOK
  <2> QED
    BY <2>2, <2>3, SetSound DEF IInv, CellsOK
<1>5. CellsOK'
  BY <1>1, <1>4 DEF CellsOK, Sound
<1>6. HeadsOK'
  <2>1. \A st \in Stream : v_heads[st] \in HeadRange /\ top.heads[SlotRank(top.cells, st)] \in HeadRange
    BY <1>3, SlotRankType DEF IInv, HeadsOK, StackEntry
  <2> QED
    BY <1>1, <2>1 DEF HeadsOK
<1>7. RowsOK'
  BY <1>1 DEF IInv, RowsOK
<1>8. CallOK'
  BY <1>1 DEF IInv, CallOK
<1>9. StackOK'
  <2>1. \A j \in 1 .. n - 1 : stack[j] \in StackEntry
    BY <1>2, ElementOfSeq
  <2>2. /\ stack' \in Seq(StackEntry)
        /\ Len(stack') = IF 1 <= n - 1 THEN n - 1 ELSE 0
        /\ \A j \in 1 .. n - 1 : stack'[j] = stack[j]
    <3> HIDE DEF n
    <3>1. /\ SubSeq(stack, 1, n - 1) \in Seq(StackEntry)
          /\ Len(SubSeq(stack, 1, n - 1)) = IF 1 <= n - 1 THEN n - 1 - 1 + 1 ELSE 0
          /\ \A j \in 1 .. n - 1 - 1 + 1 : SubSeq(stack, 1, n - 1)[j] = stack[1 + j - 1]
      BY <1>2, <2>1, SubSeqProperties
    <3> QED
      BY <1>1, <1>2, <3>1
  <2>3. ASSUME NEW j \in 1 .. Len(stack'), NEW st \in Stream, NEW i \in DOMAIN stack'[j].cells[st]
        PROVE  v_cells'[st].shift[i] = 0
    <3>1. j \in 1 .. n - 1 /\ j \in 1 .. n /\ stack'[j] = stack[j]
      BY <1>2, <2>2
    <3>2. v_cells[st].shift[i] = 0
      BY <3>1 DEF IInv, StackOK
    <3>3. v_cells'[st].shift = v_cells[st].shift
      BY <1>1, <1>4
    <3> QED
      BY <3>2, <3>3
  <2> QED
    BY <1>1, <2>2, <2>3 DEF StackOK
<1> QED
  BY <1>5, <1>6, <1>7, <1>8, <1>9 DEF IInv

LEMMA PreparedIInv == IInv /\ Prepared => IInv'
<1> SUFFICES ASSUME IInv, Prepared
             PROVE  IInv'
  OBVIOUS
<1>1. /\ phase = "restore" /\ phase' = "apply" /\ i_cur' = 1 /\ stack = <<>>
      /\ Len(sinfos) = Len(ubatches)
      /\ UNCHANGED <<v_cells, v_heads, k_rows, sc_info, ubatches, sinfos, stack, did_optimize>>
  BY DEF Prepared, memVars
<1>2. CellsOK' /\ HeadsOK' /\ RowsOK'
  BY <1>1 DEF IInv, CellsOK, HeadsOK, RowsOK
<1>3. CallOK'
  <2>1. Len(ubatches) \in Nat /\ Len(ubatches) >= 1
    BY <1>1, LenProperties DEF IInv, CallOK
  <2>2. i_cur' \in 1 .. Len(ubatches)
    BY <1>1, <2>1
  <2> QED
    BY <1>1, <2>2 DEF IInv, CallOK
<1>4. StackOK'
  BY <1>1 DEF IInv, StackOK
<1> QED
  BY <1>2, <1>3, <1>4 DEF IInv

LEMMA RetryIInv == IInv /\ Retry => IInv'
<1> SUFFICES ASSUME IInv, Retry
             PROVE  IInv'
  OBVIOUS
<1>1. /\ phase = "restore" /\ phase' = "update" /\ did_optimize' = TRUE /\ sinfos' = <<>>
      /\ stack = <<>>
      /\ UNCHANGED <<v_cells, v_heads, k_rows, sc_info, ubatches, stack, i_cur>>
  BY DEF Retry, memVars
<1>2. CellsOK' /\ HeadsOK' /\ RowsOK'
  BY <1>1 DEF IInv, CellsOK, HeadsOK, RowsOK
<1>3. CallOK'
  <2>1. /\ sinfos' \in Seq([Stream -> SlotMap]) /\ Len(sinfos') = 0
        /\ Len(ubatches') \in Nat
    BY <1>1, EmptySeq, LenProperties DEF IInv, CallOK
  <2>2. Len(sinfos') <= Len(ubatches') /\ \A k \in 1 .. Len(sinfos') : FALSE
    BY <2>1
  <2> QED
    BY <1>1, <2>1, <2>2 DEF IInv, CallOK
<1>4. StackOK'
  BY <1>1 DEF IInv, StackOK
<1> QED
  BY <1>2, <1>3, <1>4 DEF IInv

(* A call that returns leaves nothing behind.                              *)
LEMMA IdleFacts == Idle => CallOK' /\ StackOK'
<1> SUFFICES ASSUME Idle
             PROVE  CallOK' /\ StackOK'
  OBVIOUS
<1>1. /\ ubatches' = <<>> /\ ubatches' \in Seq(UBatch) /\ Len(ubatches') = 0
      /\ sinfos' = <<>> /\ sinfos' \in Seq([Stream -> SlotMap]) /\ Len(sinfos') = 0
      /\ stack' = <<>> /\ stack' \in Seq(StackEntry) /\ Len(stack') = 0
  BY EmptySeq DEF Idle
<1>2. phase' = "idle" /\ i_cur' = 0 /\ did_optimize' \in BOOLEAN
  BY DEF Idle
<1>3. /\ Len(sinfos') <= Len(ubatches')
      /\ \A k \in 1 .. Len(sinfos') : FALSE
      /\ \A k \in 1 .. Len(stack') : FALSE
  BY <1>1
<1>4. /\ phase' \in {"idle", "update", "prepare", "restore", "apply", "compute"}
      /\ phase' \notin {"apply", "compute"}
  BY <1>2
<1>5. CallOK'
  BY <1>1, <1>2, <1>3, <1>4, Zenon DEF CallOK
<1>6. StackOK'
  BY <1>1, <1>3, Zenon DEF StackOK
<1> QED
  BY <1>5, <1>6

LEMMA ReturnNoSlotIInv == IInv /\ ReturnNoSlot => IInv'
<1> SUFFICES ASSUME IInv, ReturnNoSlot
             PROVE  IInv'
  OBVIOUS
<1>1. CellsOK' /\ HeadsOK' /\ RowsOK'
  BY DEF ReturnNoSlot, memVars, IInv, CellsOK, HeadsOK, RowsOK
<1> QED
  BY <1>1, IdleFacts DEF ReturnNoSlot, IInv

(* The slot of the micro-batch being applied or computed.                  *)
LEMMA CurrentSlot ==
  ASSUME IInv, phase \in {"apply", "compute"}
  PROVE  /\ i_cur \in 1 .. Len(ubatches) /\ ubatches[i_cur] \in UBatch
         /\ sinfos[i_cur] \in [Stream -> SlotMap] /\ Places(sinfos[i_cur], ubatches[i_cur])
<1>1. i_cur \in 1 .. Len(ubatches) /\ i_cur \in 1 .. Len(sinfos)
  BY DEF IInv, CallOK
<1>2. ubatches[i_cur] \in UBatch /\ sinfos[i_cur] \in [Stream -> SlotMap]
  BY <1>1, ElementOfSeq DEF IInv, CallOK
<1>3. \A st \in Stream : DOMAIN sinfos[i_cur][st] \in SUBSET Cell
  BY <1>2 DEF SlotMap
<1>4. Places(sinfos[i_cur], ubatches[i_cur])
  BY <1>1, <1>3 DEF Places, IInv, CallOK
<1> QED
  BY <1>1, <1>2, <1>4

LEMMA ApplyUbatchIInv == IInv /\ ApplyUbatch => IInv'
<1> SUFFICES ASSUME IInv, ApplyUbatch
             PROVE  IInv'
  OBVIOUS
<1>1. /\ phase = "apply" /\ phase' = "compute"
      /\ Apply(sinfos[i_cur], ubatches[i_cur])
      /\ k_rows' = [st \in Stream |-> [i \in Cell |->
                      IF i \in DOMAIN sinfos[i_cur][st] THEN {} ELSE k_rows[st][i]]]
      /\ UNCHANGED <<sc_info, ubatches, sinfos, stack, i_cur, did_optimize>>
  BY DEF ApplyUbatch
<1>2. CellsOK' /\ HeadsOK'
  BY <1>1, CurrentSlot, ApplyOK DEF IInv
<1>3. RowsOK'
  BY <1>1 DEF IInv, RowsOK
<1>4. CallOK'
  BY <1>1 DEF IInv, CallOK
<1>5. StackOK'
  BY <1>1, EmptySeq DEF IInv, StackOK
<1> QED
  BY <1>2, <1>3, <1>4, <1>5 DEF IInv

LEMMA ComputeOkIInv == IInv /\ ComputeOk => IInv'
<1> SUFFICES ASSUME IInv, ComputeOk
             PROVE  IInv'
  OBVIOUS
<1> DEFINE slot == sinfos[i_cur]
           ub == ubatches[i_cur]
<1>1. /\ phase = "compute" /\ UNCHANGED <<v_cells, v_heads, sc_info>>
      /\ k_rows' = [st \in Stream |-> [i \in Cell |->
                      IF i \in DOMAIN slot[st] THEN {ub[st][slot[st][i]].pos} ELSE k_rows[st][i]]]
  BY DEF ComputeOk
<1>2. /\ i_cur \in 1 .. Len(ubatches) /\ ub \in UBatch /\ Places(slot, ub)
  BY <1>1, CurrentSlot
<1>3. RowsOK'
  <2>1. ASSUME NEW st \in Stream, NEW i \in DOMAIN slot[st]
        PROVE  ub[st][slot[st][i]].pos \in Int
    <3>1. ub[st] \in Seq(Token) /\ slot[st][i] \in 1 .. Len(ub[st])
      BY <1>2 DEF UBatch, Places
    <3>2. ub[st][slot[st][i]] \in Token
      BY <3>1, ElementOfSeq
    <3> QED
      BY <3>2, PosFacts DEF Token
  <2> HIDE DEF slot, ub
  <2> QED
    BY <1>1, <2>1 DEF IInv, RowsOK
<1>4. CellsOK' /\ HeadsOK'
  BY <1>1 DEF IInv, CellsOK, HeadsOK
<1>5. CallOK' /\ StackOK'
  <2>1. CASE i_cur < Len(ubatches)
    <3>1. /\ phase' = "apply" /\ i_cur' = i_cur + 1
          /\ UNCHANGED <<v_cells, ubatches, sinfos, stack, did_optimize>>
      BY <1>1, <2>1 DEF ComputeOk
    <3>2. i_cur' \in 1 .. Len(ubatches)
      <4>1. Len(ubatches) \in Nat
        BY LenProperties DEF IInv, CallOK
      <4> QED
        BY <1>2, <2>1, <3>1, <4>1
    <3>3. CallOK'
      BY <1>1, <3>1, <3>2 DEF IInv, CallOK
    <3>4. StackOK'
      BY <1>1, <3>1 DEF IInv, StackOK
    <3> QED
      BY <3>3, <3>4
  <2>2. CASE ~(i_cur < Len(ubatches))
    BY <2>2, IdleFacts DEF ComputeOk
  <2> QED
    BY <2>1, <2>2
<1> QED
  BY <1>3, <1>4, <1>5 DEF IInv

LEMMA ComputeFailIInv == IInv /\ ComputeFail => IInv'
<1> SUFFICES ASSUME IInv, ComputeFail
             PROVE  IInv'
  OBVIOUS
<1>1. /\ v_cells' = [st \in Stream |-> seq_rm(v_cells[st], RollBack(st))]
      /\ v_heads' = [st \in Stream |-> LowerHead(v_heads[st], Freed(v_cells[st], RollBack(st)))]
      /\ Idle /\ UNCHANGED <<k_rows, sc_info>>
  BY DEF ComputeFail
<1>2. \A st \in Stream : \A i \in Cell : RollBack(st)[i] \subseteq v_cells[st].seq[i]
  BY DEF RollBack
<1>3. \A st \in Stream : Sound(seq_rm(v_cells[st], RollBack(st)))
  BY <1>2, SeqRmSound DEF IInv, CellsOK
<1>4. \A st \in Stream : LowerHead(v_heads[st], Freed(v_cells[st], RollBack(st))) \in HeadRange
  <2>1. \A st \in Stream : Freed(v_cells[st], RollBack(st)) \in SUBSET Cell
    BY DEF Freed
  <2> QED
    BY <2>1, LowerHeadType DEF IInv, HeadsOK
<1>5. CellsOK'
  BY <1>1, <1>3 DEF CellsOK, Sound
<1>6. HeadsOK'
  BY <1>1, <1>4 DEF HeadsOK
<1>7. RowsOK'
  BY <1>1 DEF IInv, RowsOK
<1> QED
  BY <1>1, <1>5, <1>6, <1>7, IdleFacts DEF IInv

LEMMA DecodeStepIInv == IInv /\ DecodeStep => IInv'
BY UpdateCopyIInv, UpdateShiftIInv, PrepareSlotIInv, PrepareEndIInv, RestoreSlotIInv,
   PreparedIInv, RetryIInv, ReturnNoSlotIInv, ApplyUbatchIInv, ComputeOkIInv, ComputeFailIInv
   DEF DecodeStep

LEMMA StutterIInv == IInv /\ UNCHANGED vars => IInv'
<1> SUFFICES ASSUME IInv, UNCHANGED vars
             PROVE  IInv'
  OBVIOUS
<1>1. CellsOK' /\ HeadsOK' /\ RowsOK'
  BY DEF IInv, CellsOK, HeadsOK, RowsOK, vars, memVars
<1>2. CallOK' /\ StackOK'
  BY DEF IInv, CallOK, StackOK, vars, callVars, memVars
<1> QED
  BY <1>1, <1>2 DEF IInv

-----------------------------------------------------------------------------
(* The results.                                                            *)

(* IInv is an invariant of every run of the cache.                         *)
THEOREM Invariance == Spec => []IInv
<1>1. Init => IInv
  BY InitIInv
<1>2. IInv /\ [Next]_vars => IInv'
  BY MemoryOpIInv, BeginIInv, DecodeStepIInv, StutterIInv DEF Next
<1> QED
  BY <1>1, <1>2, PTL DEF Spec

(* The bookkeeping of every stream agrees with its cells at all times,     *)
(* whatever operations the application calls and whichever steps fail.     *)
THEOREM CellsAlwaysConsistent == Spec => []CellsConsistent
<1>1. IInv => CellsConsistent
  BY DEF IInv, CellsOK, Sound, CellsConsistent
<1> QED
  BY <1>1, Invariance, PTL

(* Every variable keeps its type; no head passes the end of its stream.    *)
THEOREM TypeSafety == Spec => []TypeOK
<1>1. IInv => TypeOK
  <2> SUFFICES ASSUME IInv
               PROVE  TypeOK
    OBVIOUS
  <2>1. /\ v_cells \in [Stream -> CellsType] /\ v_heads \in [Stream -> 0 .. Size]
        /\ k_rows \in [Stream -> [Cell -> SUBSET Int]]
        /\ sc_info \in Seq(Stream \X Stream)
    BY DEF IInv, CellsOK, HeadsOK, HeadRange, RowsOK
  <2>2. \A k \in DOMAIN sinfos : \A st \in Stream : IsSlot(sinfos[k][st])
    <3>1. \A k \in DOMAIN sinfos : sinfos[k] \in [Stream -> SlotMap]
      BY ElementOfSeq, LenProperties DEF IInv, CallOK
    <3>2. \A f \in SlotMap : IsSlot(f)
      BY DEF SlotMap, IsSlot
    <3> QED
      BY <3>1, <3>2
  <2>3. \A k \in DOMAIN stack : /\ stack[k].heads \in [Stream -> 0 .. Size]
                                /\ \A st \in Stream : IsSaved(stack[k].cells[st])
    <3>1. \A k \in DOMAIN stack : stack[k] \in StackEntry
      BY ElementOfSeq, LenProperties DEF IInv, StackOK
    <3>2. \A f \in SavedMap : IsSaved(f)
      BY DEF SavedMap, IsSaved, ProperCell, SavedCell
    <3> QED
      BY <3>1, <3>2 DEF StackEntry, HeadRange
  <2>4. i_cur \in 0 .. Len(ubatches)
    <3>1. Len(ubatches) \in Nat
      BY LenProperties DEF IInv, CallOK
    <3>2. i_cur = 0 \/ i_cur \in 1 .. Len(ubatches)
      BY DEF IInv, CallOK
    <3> QED
      BY <3>1, <3>2
  <2>5. /\ phase \in {"idle", "update", "prepare", "restore", "apply", "compute"}
        /\ ubatches \in Seq(UBatch) /\ Len(sinfos) <= Len(ubatches) /\ did_optimize \in BOOLEAN
    BY DEF IInv, CallOK
  <2> QED
    BY <2>1, <2>2, <2>3, <2>4, <2>5 DEF TypeOK
<1> QED
  BY <1>1, Invariance, PTL

(* What the cells of a sequence are to eden_memory_seq_pos_max(): the      *)
(* counts yield the greatest position of the sequence's cells, and -1      *)
(* exactly when it has none.                                               *)
IsMaxOf(m, c, s) ==
  IF Has(c, s) = {} THEN m = -1
  ELSE (\E i \in Has(c, s) : c.pos[i] = m) /\ \A i \in Has(c, s) : c.pos[i] <= m

LEMMA SeqPosMaxExact ==
  ASSUME NEW c, Sound(c), NEW s \in SeqId
  PROVE  IsMaxOf(seq_pos_max(c, s), c, s)
<1> DEFINE P == PosOf(c, s)
           H == Has(c, s)
<1>1. \A p \in Pos : p \in P <=> \E i \in H : c.pos[i] = p
  <2> TAKE p \in Pos
  <2>1. c.seq_pos[s][p] = Cardinality(CellsAt(c.pos, c.seq, s, p))
    BY DEF Sound, Consistent
  <2>2. IsFiniteSet(CellsAt(c.pos, c.seq, s, p)) /\ Cardinality(CellsAt(c.pos, c.seq, s, p)) \in Nat
    BY CellFinite DEF CellsAt
  <2>3. Cardinality(CellsAt(c.pos, c.seq, s, p)) = 0 <=> CellsAt(c.pos, c.seq, s, p) = {}
    BY <2>2, FS_EmptySet
  <2>4. p \in P <=> CellsAt(c.pos, c.seq, s, p) # {}
    BY <2>1, <2>2, <2>3 DEF PosOf
  <2> QED
    BY <2>4 DEF CellsAt, Has
<1>2. \A i \in H : c.pos[i] \in Pos
  BY DEF Has, Sound, Consistent, CellsType
<1>3. P \subseteq Pos
  BY DEF PosOf
<1>4. CASE P = {}
  <2>1. H = {}
    BY <1>1, <1>2, <1>4
  <2> QED
    BY <1>4, <2>1 DEF seq_pos_max, IsMaxOf
<1>5. CASE P # {}
  <2>1. \E x \in P : \A y \in P : x >= y
    <3>1. P \in SUBSET Int /\ MaxPos \in Int /\ \A x \in P : x <= MaxPos
      BY <1>3, MaxPosAssumption DEF Pos
    <3> HIDE DEF P
    <3> QED
      BY <1>5, <3>1, GreatestInt
  <2>2. seq_pos_max(c, s) = Most(P)
    BY <1>5 DEF seq_pos_max, Most
  <2>3. Most(P) \in P /\ \A y \in P : Most(P) >= y
    <3> HIDE DEF P
    <3> QED
      BY <2>1, Zenon DEF Most
  <2> DEFINE m == Most(P)
  <2> HIDE DEF m, P, H
  <2>4. m \in P /\ m \in Pos /\ \A y \in P : m >= y
    BY <1>3, <2>3 DEF m
  <2>5. \E i \in H : c.pos[i] = m
    BY <1>1, <2>4
  <2>6. \A i \in H : c.pos[i] <= m
    BY <1>1, <1>2, <2>4, PosFacts
  <2> QED
    BY <2>2, <2>5, <2>6 DEF IsMaxOf, H, m
<1> QED
  BY <1>4, <1>5

(* At all times, seq_pos_max() of every sequence is that of its cells.     *)
THEOREM SeqPosMaxRight ==
  Spec => [](\A st \in Stream : \A s \in SeqId :
               IsMaxOf(seq_pos_max(v_cells[st], s), v_cells[st], s))
<1>1. IInv => \A st \in Stream : \A s \in SeqId :
                IsMaxOf(seq_pos_max(v_cells[st], s), v_cells[st], s)
  BY SeqPosMaxExact DEF IInv, CellsOK
<1> QED
  BY <1>1, Invariance, PTL

-----------------------------------------------------------------------------
(* find_slot() without a window: the first empty cells from the head on.   *)

Rem(i) == i % Size

LEMMA RemFacts ==
  ASSUME NEW i \in Int
  PROVE  /\ Rem(i) \in 0 .. Size - 1
         /\ \E k \in Int : i = Size * k + Rem(i)
<1> DEFINE k == i \div Size
<1>1. k \in Int /\ i = Size * k + Rem(i) /\ Rem(i) \in 0 .. Size - 1
  BY SizeAssumption, SMT DEF Rem
<1> HIDE DEF k
<1> QED
  BY <1>1

(* Two cells are never equally far behind the start of the search.         *)
LEMMA RemInjective ==
  ASSUME NEW start \in Int, NEW i \in Cell, NEW j \in Cell, Rem(i - start) = Rem(j - start)
  PROVE  i = j
<1>1. PICK k \in Int : i - start = Size * k + Rem(i - start)
  BY RemFacts DEF Cell
<1>2. PICK l \in Int : j - start = Size * l + Rem(j - start)
  BY RemFacts DEF Cell
<1>3. Rem(i - start) \in Int
  BY RemFacts, SizeAssumption DEF Cell
<1>4. i - j = Size * k - Size * l
  BY <1>1, <1>2, <1>3, SizeAssumption, SMT DEF Cell
<1>5. i - j < Size /\ j - i < Size
  BY SizeAssumption DEF Cell
<1> DEFINE d == k - l
<1>6. d \in Int /\ i - j = Size * d
  BY <1>4, SizeAssumption, SMT
<1> HIDE DEF d
<1>7. d >= 1 => Size * d >= Size
  BY <1>6, SizeAssumption, SMT
<1>8. d <= -1 => Size * d <= -Size
  BY <1>6, SizeAssumption, SMT
<1>9. d = 0
  BY <1>5, <1>6, <1>7, <1>8, SizeAssumption DEF Cell
<1> QED
  BY <1>6, <1>9, SizeAssumption DEF Cell

LEMMA LeastOfSome ==
  ASSUME NEW S, S # {}, NEW f, \A i \in S : f[i] \in Nat
  PROVE  \E m \in S : \A j \in S : f[m] <= f[j]
<1> DEFINE V == {f[i] : i \in S}
<1>1. V \in SUBSET Nat /\ V # {}
  OBVIOUS
<1>2. Least(V) \in V /\ \A y \in V : Least(V) <= y
  BY <1>1, LeastNat
<1> QED
  BY <1>2

LEMMA GreatestOfSome ==
  ASSUME NEW S, S # {}, NEW N \in Int, NEW f, \A i \in S : f[i] \in Int /\ f[i] <= N
  PROVE  \E m \in S : \A j \in S : f[m] >= f[j]
<1> DEFINE V == {f[i] : i \in S}
<1>1. V \in SUBSET Int /\ V # {} /\ \A x \in V : x <= N
  OBVIOUS
<1> HIDE DEF V
<1>2. \E x \in V : \A y \in V : x >= y
  BY <1>1, GreatestInt
<1> QED
  BY <1>2 DEF V

(* The n first of the cells of S, in the order of a key.                   *)
Below(S, f, i) == {j \in S : f[j] < f[i]}
First(S, f, n) == {i \in S : Cardinality(Below(S, f, i)) < n}

LEMMA FirstOnes ==
  ASSUME NEW S \in SUBSET Cell, NEW n \in Nat, NEW f,
         \A i \in Cell : f[i] \in 0 .. Size - 1,
         \A i, j \in Cell : f[i] = f[j] => i = j
  PROVE  /\ Cardinality(First(S, f, n)) <= n
         /\ Cardinality(First(S, f, n)) < n => First(S, f, n) = S
<1> DEFINE less(i) == {j \in S : f[j] < f[i]}
           M == {i \in S : Cardinality(less(i)) < n}
<1>1. \A i \in S : less(i) \in SUBSET S /\ Cardinality(less(i)) \in Nat
  BY CellFinite
<1>2. M \in SUBSET S /\ M \in SUBSET Cell
  OBVIOUS
<1>3. IsFiniteSet(M) /\ Cardinality(M) \in Nat
  BY <1>2, CellFinite
<1>4. Cardinality(M) <= n
  <2>1. CASE M = {}
    <3> HIDE DEF M
    <3> QED
      BY <1>3, <2>1, FS_EmptySet
  <2>2. CASE M # {}
    <3>1. PICK m \in M : \A j \in M : f[m] >= f[j]
      <4>1. \A i \in M : f[i] \in Int /\ f[i] <= Size
        BY <1>2, SizeAssumption
      <4>2. Size \in Int
        BY SizeAssumption
      <4> HIDE DEF M
      <4> QED
        BY <2>2, <4>1, <4>2, GreatestOfSome
    <3>2. M \ {m} \subseteq less(m)
      <4> SUFFICES ASSUME NEW j \in M, j # m
                   PROVE  j \in S /\ f[j] < f[m]
        OBVIOUS
      <4>1. f[j] # f[m] /\ f[j] \in Int /\ f[m] \in Int /\ f[m] >= f[j]
        BY <1>2, <3>1, SizeAssumption
      <4> QED
        BY <1>2, <4>1
    <3>3. Cardinality(M \ {m}) = Cardinality(M) - 1
      BY <1>3, FS_RemoveElement
    <3>4. Cardinality(M \ {m}) <= Cardinality(less(m)) /\ Cardinality(less(m)) < n
      <4>1. IsFiniteSet(less(m)) /\ Cardinality(less(m)) < n
        BY <1>2, CellFinite
      <4> HIDE DEF M, less
      <4> QED
        BY <3>2, <4>1, FS_Subset
    <3>5. Cardinality(less(m)) \in Nat
      BY <1>1, <1>2
    <3> HIDE DEF M, less
    <3> QED
      BY <1>3, <3>3, <3>4, <3>5
  <2> QED
    BY <2>1, <2>2
<1>5. ASSUME M # S PROVE Cardinality(M) >= n
  <2>1. S \ M # {}
    BY <1>2, <1>5
  <2>2. PICK x \in S \ M : \A j \in S \ M : f[x] <= f[j]
    <3>1. \A i \in S \ M : f[i] \in Nat
      BY SizeAssumption
    <3> HIDE DEF M
    <3> QED
      BY <2>1, <3>1, LeastOfSome
  <2>3. less(x) \subseteq M
    <3> SUFFICES ASSUME NEW j \in less(x), j \notin M
                 PROVE  FALSE
      OBVIOUS
    <3>1. j \in S /\ f[j] < f[x]
      OBVIOUS
    <3>2. f[x] <= f[j]
      BY <2>2, <3>1
    <3>3. f[x] \in Int /\ f[j] \in Int
      BY <3>1, SizeAssumption
    <3> QED
      BY <3>1, <3>2, <3>3
  <2>4. Cardinality(less(x)) \in Nat /\ Cardinality(less(x)) >= n
    BY <1>1
  <2>5. Cardinality(less(x)) <= Cardinality(M)
    <3> HIDE DEF M, less
    <3> QED
      BY <1>3, <2>3, FS_Subset
  <2> HIDE DEF M, less
  <2> QED
    BY <1>3, <2>4, <2>5
<1>6. Cardinality(M) <= n /\ (Cardinality(M) < n => M = S)
  <2> HIDE DEF M
  <2> QED
    BY <1>3, <1>4, <1>5
<1>7. M = First(S, f, n)
  BY DEF First, Below
<1> QED
  BY <1>6, <1>7, Zenon

LEMMA OnlyEmpty ==
  ASSUME NSwa = 0, NEW c, NEW i \in Cell
  PROVE  CanUse(c, i) <=> c.pos[i] = Empty
BY DEF CanUse, is_empty, is_masked_swa

(* A slot consists of usable cells; it has one for each of the n tokens,   *)
(* or all the usable cells there are.                                      *)
Usable(c) == {i \in Cell : CanUse(c, i)}

LEMMA SlotFacts ==
  ASSUME NEW c, c.used \in SUBSET Cell, NEW head \in Int, NEW n \in Nat
  PROVE  LET M == DOMAIN find_slot(c, head, n)
             E == Usable(c)
         IN  /\ M \in SUBSET E
             /\ Cardinality(M) <= n
             /\ Cardinality(M) < n => M = E
<1> DEFINE start == ScanFrom(c, head, n)
           E == Usable(c)
           f == [i \in Cell |-> Rem(i - start)]
           less(i) == Below(E, f, i)
           M == First(E, f, n)
<1>1. start \in Int
  BY CellFinite DEF ScanFrom
<1> HIDE DEF start
<1>2. \A i \in Cell : i \in Int /\ i - start \in Int
  BY <1>1, SizeAssumption DEF Cell
<1>3. \A i \in Cell : f[i] \in 0 .. Size - 1
  BY <1>2, RemFacts
<1>4. \A i, j \in Cell : f[i] = f[j] => i = j
  BY <1>1, RemInjective
<1>5. \A i \in Cell : Rank(c, start, i) = Cardinality(less(i))
  <2> TAKE i \in Cell
  <2>1. {j \in Cell : CanUse(c, j) /\ (j - start) % Size < (i - start) % Size} = less(i)
    BY DEF Rem, Below, Usable
  <2> QED
    BY <2>1 DEF Rank
<1>6. DOMAIN find_slot(c, head, n) = {j \in Cell : CanUse(c, j) /\ Rank(c, start, j) < n}
  BY DEF find_slot, start
<1>7. DOMAIN find_slot(c, head, n) = M
  <2> DEFINE D == DOMAIN find_slot(c, head, n)
  <2>1. \A i \in Cell : i \in D <=> i \in E /\ Cardinality(less(i)) < n
    <3> HIDE DEF less
    <3> QED
      BY <1>5, <1>6 DEF Usable
  <2>2. D \subseteq Cell
    BY <1>6
  <2>3. M = {i \in E : Cardinality(less(i)) < n}
    BY DEF First
  <2> HIDE DEF D, less, M
  <2>4. D = M
    BY <2>1, <2>2, <2>3 DEF Usable
  <2> QED
    BY <2>4 DEF D
<1>8. E \in SUBSET Cell
  BY DEF Usable
<1>9. M \in SUBSET E
  BY DEF First
<1>10. Cardinality(M) <= n /\ (Cardinality(M) < n => M = E)
  <2> HIDE DEF E, f
  <2> QED
    BY <1>3, <1>4, <1>8, FirstOnes
<1> HIDE DEF M, E
<1>11. LET D == DOMAIN find_slot(c, head, n)
       IN  D \in SUBSET E /\ Cardinality(D) <= n /\ (Cardinality(D) < n => D = E)
  BY <1>7, <1>9, <1>10
<1> QED
  BY <1>11 DEF E

(* What Emplace() and seq_rm() do to every cell.                           *)
LEMMA EmplaceCells ==
  ASSUME NEW c, Sound(c), NEW slot, DOMAIN slot \in SUBSET Cell, NEW toks,
         \A i \in DOMAIN slot : toks[slot[i]] \in Token
  PROVE  LET p == Emplace(c, slot, toks)
         IN  /\ Sound(p)
             /\ \A i \in Cell :
                  /\ p.pos[i] = IF i \in DOMAIN slot THEN toks[slot[i]].pos ELSE c.pos[i]
                  /\ p.seq[i] = IF i \in DOMAIN slot THEN toks[slot[i]].seqs ELSE c.seq[i]
<1> DEFINE M == DOMAIN slot
           O == {i \in M : ~is_empty(c, i)}
           e == rm(c, O)
           P == [i \in M |-> toks[slot[i]].pos]
           S == [i \in M |-> toks[slot[i]].seqs]
           p == Emplace(c, slot, toks)
<1>1. p = pos_set(e, M, P, S)
  BY DEF Emplace
<1>2. \A i \in Cell \ M : e.pos[i] = c.pos[i] /\ e.seq[i] = c.seq[i]
  <2>0. O \in SUBSET M /\ O \in SUBSET Cell /\ c \in WideType
    BY WideFacts DEF Sound
  <2> HIDE DEF O
  <2>1. Vacate(c, O) \in WideType
        /\ Vacate(c, O).pos = [i \in Cell |-> IF i \in O THEN Empty ELSE c.pos[i]]
        /\ Vacate(c, O).seq = [i \in Cell |-> IF i \in O THEN {} ELSE c.seq[i]]
    BY <2>0, VacateFields
  <2>2. e.pos = Vacate(c, O).pos /\ e.seq = Vacate(c, O).seq
    BY <2>1, SetCounts DEF rm
  <2> QED
    BY <2>0, <2>1, <2>2
<1>3. Sound(p) /\ Sound(e)
  <2>1. Sound(p)
    BY EmplaceSound
  <2>2. O \in SUBSET Cell
    OBVIOUS
  <2> QED
    BY <2>1, <2>2, RmSound
<1>4. \A i \in Cell : /\ p.pos[i] = IF i \in M THEN P[i] ELSE e.pos[i]
                      /\ p.seq[i] = IF i \in M THEN S[i] ELSE e.seq[i]
  <2> HIDE DEF M, P, S, e, p
  <2> QED
    BY <1>1, <1>3 DEF pos_set, Sound, CellsType
<1>5. \A i \in Cell : /\ p.pos[i] = IF i \in M THEN toks[slot[i]].pos ELSE c.pos[i]
                      /\ p.seq[i] = IF i \in M THEN toks[slot[i]].seqs ELSE c.seq[i]
  <2>1. \A i \in M : P[i] = toks[slot[i]].pos /\ S[i] = toks[slot[i]].seqs
    OBVIOUS
  <2> HIDE DEF p, e, P, S, M
  <2> QED
    BY <1>2, <1>4, <2>1
<1> QED
  BY <1>3, <1>5, Zenon

LEMMA SeqRmCells ==
  ASSUME NEW p, Sound(p), NEW G, \A i \in Cell : G[i] \in SUBSET p.seq[i]
  PROVE  \A i \in Cell :
           /\ seq_rm(p, G).pos[i] = IF i \in Freed(p, G) THEN Empty ELSE p.pos[i]
           /\ seq_rm(p, G).seq[i] = p.seq[i] \ G[i]
<1> DEFINE F == Freed(p, G)
           sq == [i \in Cell |-> p.seq[i] \ G[i]]
           left == [p EXCEPT !.seq = sq]
           v == Vacate(left, F)
           cnt == seq_pos_dec(p.seq_pos, p.pos, G)
           d == seq_rm(p, G)
<1>1. d = [v EXCEPT !.seq_pos = cnt]
  BY DEF seq_rm
<1> HIDE DEF d
<1>2. F \in SUBSET Cell /\ \A i \in F : sq[i] = {}
  BY DEF Freed
<1>3. sq \in [Cell -> SUBSET SeqId] /\ p \in WideType
  BY WideFacts DEF Sound, CellsType
<1>4. \A i \in Cell : sq[i] = p.seq[i] \ G[i]
  OBVIOUS
<1> HIDE DEF F, sq, cnt
<1>5. left \in WideType /\ left.pos = p.pos /\ left.seq = sq
  BY <1>3 DEF WideType
<1> HIDE DEF left
<1>6. /\ v \in WideType
      /\ v.pos = [i \in Cell |-> IF i \in F THEN Empty ELSE left.pos[i]]
      /\ v.seq = [i \in Cell |-> IF i \in F THEN {} ELSE left.seq[i]]
  BY <1>2, <1>5, VacateFields
<1> HIDE DEF v
<1>7. d.pos = v.pos /\ d.seq = v.seq
  BY <1>1, <1>6, SetCounts
<1>8. \A i \in Cell : /\ d.pos[i] = IF i \in F THEN Empty ELSE p.pos[i]
                      /\ d.seq[i] = p.seq[i] \ G[i]
  BY <1>2, <1>4, <1>5, <1>6, <1>7
<1> QED
  BY <1>8, Zenon DEF d, F

(* apply_ubatch() fills the cells of the slot; of the others it may empty  *)
(* some, and with a slot of empty cells none.                              *)
LEMMA ApplyCells ==
  ASSUME NEW c, Sound(c), NEW slot, DOMAIN slot \in SUBSET Cell, NEW toks,
         \A i \in DOMAIN slot : toks[slot[i]] \in Token
  PROVE  LET p == Emplace(c, slot, toks)
             G == Purged(c, slot, p)
             d == apply_ubatch(c, slot, toks)
         IN  \A i \in Cell :
               /\ d.pos[i] = IF i \in Freed(p, G) THEN Empty ELSE p.pos[i]
               /\ d.seq[i] = p.seq[i] \ G[i]
<1> DEFINE p == Emplace(c, slot, toks)
           G == Purged(c, slot, p)
<1>1. Sound(p)
  BY EmplaceSound
<1>2. \A i \in Cell : G[i] \subseteq p.seq[i]
  BY DEF Purged
<1>3. apply_ubatch(c, slot, toks) = seq_rm(p, G)
  BY DEF apply_ubatch
<1>4. ASSUME NEW q, Sound(q), NEW H, \A i \in Cell : H[i] \subseteq q.seq[i]
      PROVE  \A i \in Cell : /\ seq_rm(q, H).pos[i] = IF i \in Freed(q, H) THEN Empty ELSE q.pos[i]
                             /\ seq_rm(q, H).seq[i] = q.seq[i] \ H[i]
  BY <1>4, SeqRmCells
<1> HIDE DEF p, G
<1>5. \A i \in Cell : /\ seq_rm(p, G).pos[i] = IF i \in Freed(p, G) THEN Empty ELSE p.pos[i]
                      /\ seq_rm(p, G).seq[i] = p.seq[i] \ G[i]
  BY <1>1, <1>2, <1>4
<1>6. \A i \in Cell :
        /\ apply_ubatch(c, slot, toks).pos[i] = IF i \in Freed(p, G) THEN Empty ELSE p.pos[i]
        /\ apply_ubatch(c, slot, toks).seq[i] = p.seq[i] \ G[i]
  BY <1>3, <1>5, Zenon
<1> QED
  BY <1>6, Zenon DEF p, G

LEMMA ApplyOthers ==
  ASSUME NEW c, Sound(c), NEW slot, DOMAIN slot \in SUBSET Cell, NEW toks,
         \A i \in DOMAIN slot : toks[slot[i]] \in Token, NEW i \in Cell, i \notin DOMAIN slot
  PROVE  apply_ubatch(c, slot, toks).pos[i] \in {c.pos[i], Empty}
<1> DEFINE p == Emplace(c, slot, toks)
<1>1. p.pos[i] = c.pos[i]
  BY EmplaceCells
<1>2. apply_ubatch(c, slot, toks).pos[i] \in {p.pos[i], Empty}
  BY ApplyCells
<1> QED
  BY <1>1, <1>2

LEMMA ApplyVacant ==
  ASSUME NEW c, Sound(c), NEW slot, DOMAIN slot \in SUBSET Cell, NEW toks,
         \A i \in DOMAIN slot : toks[slot[i]] \in Token /\ c.pos[i] = Empty
  PROVE  LET d == apply_ubatch(c, slot, toks)
         IN  \A i \in Cell :
               /\ d.pos[i] = IF i \in DOMAIN slot THEN toks[slot[i]].pos ELSE c.pos[i]
               /\ d.seq[i] = IF i \in DOMAIN slot THEN toks[slot[i]].seqs ELSE c.seq[i]
<1> DEFINE M == DOMAIN slot
           p == Emplace(c, slot, toks)
           G == Purged(c, slot, p)
           d == apply_ubatch(c, slot, toks)
<1>1. \A i \in Cell : /\ p.pos[i] = IF i \in M THEN toks[slot[i]].pos ELSE c.pos[i]
                      /\ p.seq[i] = IF i \in M THEN toks[slot[i]].seqs ELSE c.seq[i]
  BY EmplaceCells
<1>2. Sound(p)
  BY EmplaceSound
<1>3. \A s \in SeqId : PosMaxRm(c, M, s) = -1
  <2> TAKE s \in SeqId
  <2>1. \A i \in M : c.seq[i] = {}
    BY DEF Sound, Consistent
  <2> DEFINE J == {j \in M : c.seq[j] = {s}}
             Q == {c.pos[i] : i \in J}
  <2>2. J = {}
    BY <2>1
  <2>3. Q = {}
    <3> HIDE DEF J
    <3> QED
      BY <2>2
  <2> HIDE DEF M, Q
  <2> QED
    BY <2>3 DEF PosMaxRm, Q
<1>4. \A i \in Cell : G[i] = {}
  <2> SUFFICES ASSUME NEW i \in Cell, NEW s \in G[i]
               PROVE  FALSE
    OBVIOUS
  <2> HIDE DEF p, M
  <2>1. s \in p.seq[i] /\ p.pos[i] <= PosMaxRm(c, DOMAIN slot, s)
    BY DEF Purged
  <2>2. s \in SeqId /\ p.pos[i] \in Pos
    BY <1>2, <2>1 DEF Sound, Consistent, CellsType
  <2> QED
    BY <1>3, <2>1, <2>2, PosFacts DEF M
<1>5. \A i \in Cell : /\ d.pos[i] = IF i \in Freed(p, G) THEN Empty ELSE p.pos[i]
                      /\ d.seq[i] = p.seq[i] \ G[i]
  BY ApplyCells
<1> HIDE DEF d, p, G
<1>6. \A i \in Cell : d.pos[i] = p.pos[i] /\ d.seq[i] = p.seq[i]
  BY <1>4, <1>5 DEF Freed
<1>7. \A i \in Cell : /\ d.pos[i] = IF i \in M THEN toks[slot[i]].pos ELSE c.pos[i]
                      /\ d.seq[i] = IF i \in M THEN toks[slot[i]].seqs ELSE c.seq[i]
  BY <1>1, <1>6
<1> QED
  BY <1>7, Zenon DEF d

(* set() on a cell.                                                        *)
LEMMA SetCells ==
  ASSUME NEW c \in CellsType, NEW saved
  PROVE  \A i \in Cell :
           /\ set(c, saved).pos[i] = IF i \in DOMAIN saved THEN saved[i].pos ELSE c.pos[i]
           /\ set(c, saved).seq[i] = IF i \in DOMAIN saved THEN saved[i].seq ELSE c.seq[i]
BY DEF set, CellsType

-----------------------------------------------------------------------------
(* A decode tries to prepare, once or twice.  `before` are the cells and   *)
(* heads that it found; the cells that were free then stay so, but for     *)
(* those that the slots take.                                              *)

Slots(k, st) == DOMAIN sinfos[k][st]
Taken(n, st) == UNION {Slots(k, st) : k \in 1 .. n}

Trying == phase \in {"prepare", "restore"} \/ (phase = "update" /\ did_optimize)
Free(st) == {i \in Cell : before.cells[st].pos[i] = Empty}

Stacked ==
  /\ phase = "prepare" => Len(stack) = Len(sinfos)
  /\ Len(stack) <= Len(sinfos)
  /\ \A k \in 1 .. Len(stack) : \A st \in Stream : DOMAIN stack[k].cells[st] = Slots(k, st)

Untouched ==
  Trying => \A st \in Stream :
    /\ Sound(before.cells[st])
    /\ \A i \in Free(st) : v_cells[st].pos[i] = Empty \/ i \in Taken(Len(stack), st)

(* What restore puts into a free cell is empty, or another slot's.         *)
SavedFree ==
  \A k \in 1 .. Len(stack) : \A st \in Stream : \A i \in Slots(k, st) \cap Free(st) :
    stack[k].cells[st][i].pos = Empty \/ i \in Taken(k - 1, st)

(* The tokens of the first n micro-batches.                                *)
Wanted(n, st) == {x \in (1 .. n) \X (1 .. MaxBatch) : x[2] <= Len(ubatches[x[1]][st])}

Lens == \A k \in 1 .. Len(ubatches) : \A st \in Stream : Len(ubatches[k][st]) <= MaxBatch

TakenFew ==
  phase = "prepare" =>
    \A st \in Stream : Cardinality(Taken(Len(sinfos), st)) <= Cardinality(Wanted(Len(sinfos), st))

Lacks(st) == Needed(st) > Size - Cardinality(before.cells[st].used)

Lacking == phase = "restore" /\ Len(sinfos) < Len(ubatches) => \E st \in Stream : Lacks(st)

FirstTry == phase = "idle" => ~did_optimize

TryInv == Stacked /\ Untouched /\ SavedFree /\ Lens /\ TakenFew /\ Lacking /\ FirstTry

(* Nothing is placed, and nothing to go back to.                           *)
LEMMA QuietTry ==
  ASSUME sinfos' = <<>>, stack' = <<>>, ~Trying', Lens', FirstTry'
  PROVE  TryInv'
<1>1. /\ Len(sinfos') = 0 /\ Len(stack') = 0
      /\ \A k \in 1 .. Len(stack') : FALSE
      /\ phase' # "prepare" /\ phase' # "restore"
  BY DEF Trying
<1>2. Stacked' /\ Untouched' /\ SavedFree' /\ TakenFew' /\ Lacking'
  BY <1>1 DEF Stacked, Untouched, SavedFree, TakenFew, Lacking
<1> QED
  BY <1>2 DEF TryInv

LEMMA InitTry == Init => TryInv
<1> SUFFICES ASSUME Init
             PROVE  TryInv
  OBVIOUS
<1>1. /\ Len(sinfos) = 0 /\ Len(stack) = 0 /\ Len(ubatches) = 0
      /\ \A k \in 1 .. Len(stack) : FALSE
      /\ \A k \in 1 .. Len(ubatches) : FALSE
      /\ phase # "prepare" /\ phase # "restore" /\ ~Trying
  BY DEF Init, Trying
<1>2. Stacked /\ Untouched /\ SavedFree /\ Lens /\ TakenFew /\ Lacking
  BY <1>1 DEF Stacked, Untouched, SavedFree, Lens, TakenFew, Lacking
<1>3. FirstTry
  BY DEF Init, FirstTry
<1> QED
  BY <1>2, <1>3 DEF TryInv

LEMMA SlotCells ==
  ASSUME IInv, NEW k \in 1 .. Len(sinfos), NEW st \in Stream
  PROVE  Slots(k, st) \in SUBSET Cell
<1>1. sinfos[k] \in [Stream -> SlotMap]
  BY ElementOfSeq DEF IInv, CallOK
<1> QED
  BY <1>1 DEF Slots, SlotMap

LEMMA MemoryOpTry == IInv /\ TryInv /\ MemoryOp => TryInv'
<1> SUFFICES ASSUME IInv, TryInv, MemoryOp
             PROVE  TryInv'
  OBVIOUS
<1>1. phase = "idle" /\ UNCHANGED <<phase, ubatches, sinfos, stack, did_optimize>>
  BY DEF MemoryOp, clear, SeqRm, SeqRmAny, SeqCpSame, SeqCpCross, SeqKeep, SeqAdd, SeqDiv, callVars
<1>2. sinfos' = <<>> /\ stack' = <<>>
  BY <1>1 DEF IInv, CallOK, StackOK
<1>3. ~Trying' /\ Lens' /\ FirstTry'
  BY <1>1 DEF Trying, TryInv, Lens, FirstTry
<1> QED
  BY <1>2, <1>3, QuietTry

(* A decode of at most MaxBatch tokens begins.                             *)
LEMMA BeginTry == IInv /\ TryInv /\ Begin => TryInv'
<1> SUFFICES ASSUME NEW A \in SeqSets, NEW B \in SeqSets,
                    NEW n \in 1 .. MaxBatch, NEW m \in 0 .. MaxBatch,
                    n + m <= MaxBatch, m = 0 => B = A, IInv, TryInv, DecodeBegin(A, n, B, m)
             PROVE  TryInv'
  BY DEF Begin
<1>1. /\ phase = "idle" /\ Valid(A, n) /\ (m > 0 => Valid(B, m))
      /\ phase' = "update" /\ ubatches' = init_batch(A, n, B, m)
      /\ UNCHANGED <<sinfos, stack, did_optimize>>
  BY DEF DecodeBegin
<1>2. sinfos' = <<>> /\ stack' = <<>>
  BY <1>1 DEF IInv, CallOK, StackOK
<1>3. Lens'
  <2>1. n \in Nat \ {0} /\ m \in Nat
    OBVIOUS
  <2>2. ubatches' \in Seq(Short(n + m))
    BY <1>1, <2>1, InitBatchType
  <2>3. /\ ubatches' \in Seq(UBatch)
        /\ \A k \in 1 .. Len(ubatches') : \A st \in Stream : Len(ubatches'[k][st]) <= n + m
    BY <2>2, ShortFacts
  <2>4. \A k \in 1 .. Len(ubatches') : \A st \in Stream : Len(ubatches'[k][st]) \in Nat
    BY <2>3, ElementOfSeq, LenProperties DEF UBatch
  <2>5. \A k \in 1 .. Len(ubatches') : \A st \in Stream : Len(ubatches'[k][st]) <= MaxBatch
    BY <2>3, <2>4, MaxBatchAssumption
  <2> QED
    BY <2>5 DEF Lens
<1>4. ~did_optimize
  BY <1>1 DEF TryInv, FirstTry
<1> QED
  BY <1>1, <1>2, <1>3, <1>4, QuietTry DEF Trying, FirstTry

LEMMA IdleTry == Idle => TryInv'
<1> SUFFICES ASSUME Idle
             PROVE  TryInv'
  OBVIOUS
<1>1. /\ sinfos' = <<>> /\ stack' = <<>> /\ ubatches' = <<>> /\ phase' = "idle"
      /\ did_optimize' = FALSE
  BY DEF Idle
<1>2. \A k \in 1 .. Len(ubatches') : FALSE
  BY <1>1
<1> QED
  BY <1>1, <1>2, QuietTry DEF Trying, Lens, FirstTry

LEMMA UpdateCopyTry == IInv /\ TryInv /\ UpdateCopy => TryInv'
<1> SUFFICES ASSUME IInv, TryInv, UpdateCopy
             PROVE  TryInv'
  OBVIOUS
<1>1. /\ phase = "update"
      /\ UNCHANGED <<v_cells, v_heads, phase, ubatches, sinfos, stack, i_cur, did_optimize, before>>
  BY DEF UpdateCopy, callVars
<1>2. Stacked' /\ Lens' /\ FirstTry' /\ TakenFew' /\ Lacking'
  BY <1>1 DEF TryInv, Stacked, Lens, Slots, FirstTry, TakenFew, Lacking
<1>3. Untouched' /\ SavedFree'
  BY <1>1 DEF TryInv, Untouched, SavedFree, Trying, Taken, Slots, Free
<1> QED
  BY <1>2, <1>3 DEF TryInv

(* The update changes no position and no sequence of a cell.               *)
LEMMA UpdateShiftCells ==
  ASSUME IInv, IInv', UpdateShift
  PROVE  /\ phase = "update" /\ phase' = "prepare"
         /\ before' = IF did_optimize THEN before ELSE [cells |-> v_cells', heads |-> v_heads]
         /\ UNCHANGED <<v_heads, ubatches, sinfos, stack, i_cur, did_optimize>>
         /\ sinfos = <<>> /\ stack = <<>> /\ sinfos' = <<>> /\ stack' = <<>>
         /\ Len(stack) = 0 /\ Len(stack') = 0 /\ Len(sinfos') = 0
         /\ \A k \in 1 .. 0 : FALSE
         /\ \A st \in Stream :
              /\ Sound(v_cells'[st])
              /\ v_cells'[st].pos = v_cells[st].pos /\ v_cells'[st].seq = v_cells[st].seq
         /\ \A st : Taken(0, st) = {} /\ Taken(0, st)' = {}
<1>1. /\ phase = "update" /\ phase' = "prepare"
      /\ before' = IF did_optimize THEN before ELSE [cells |-> v_cells', heads |-> v_heads]
      /\ UNCHANGED <<v_heads, ubatches, sinfos, stack, i_cur, did_optimize>>
  BY DEF UpdateShift
<1>2. /\ sinfos = <<>> /\ stack = <<>> /\ sinfos' = <<>> /\ stack' = <<>>
      /\ Len(stack) = 0 /\ Len(stack') = 0 /\ Len(sinfos') = 0
      /\ \A k \in 1 .. 0 : FALSE
  BY <1>1 DEF IInv, CallOK, StackOK
<1>3. \A st \in Stream : Sound(v_cells'[st]) /\ Sound(v_cells[st])
  BY DEF IInv, CellsOK
<1>4. \A st \in Stream : v_cells'[st].pos = v_cells[st].pos /\ v_cells'[st].seq = v_cells[st].seq
  <2>1. CASE UNCHANGED v_cells
    BY <2>1
  <2>2. CASE v_cells' = [st \in Stream |-> reset_shift(v_cells[st])]
    <3>1. \A st \in Stream : /\ reset_shift(v_cells[st]).pos = v_cells[st].pos
                             /\ reset_shift(v_cells[st]).seq = v_cells[st].seq
      BY <1>3 DEF reset_shift, Sound, CellsType
    <3> QED
      BY <2>2, <3>1
  <2> QED
    BY <2>1, <2>2 DEF UpdateShift
<1>5. \A st : Taken(0, st) = {} /\ Taken(0, st)' = {}
  BY <1>2 DEF Taken
<1> QED
  BY <1>1, <1>2, <1>3, <1>4, <1>5

LEMMA UpdateShiftTry == IInv /\ IInv' /\ TryInv /\ UpdateShift => TryInv'
<1> SUFFICES ASSUME IInv, IInv', TryInv, UpdateShift
             PROVE  TryInv'
  OBVIOUS
<1>1. /\ phase = "update" /\ phase' = "prepare"
      /\ before' = IF did_optimize THEN before ELSE [cells |-> v_cells', heads |-> v_heads]
      /\ UNCHANGED <<v_heads, ubatches, sinfos, stack, i_cur, did_optimize>>
      /\ Len(stack) = 0 /\ Len(stack') = 0 /\ Len(sinfos') = 0
      /\ \A k \in 1 .. 0 : FALSE
      /\ \A st \in Stream : Sound(v_cells'[st]) /\ v_cells'[st].pos = v_cells[st].pos
  BY UpdateShiftCells
<1>2. \A st : Taken(0, st) = {} /\ Taken(0, st)' = {}
  BY UpdateShiftCells
<1>3. Untouched'
  <2> SUFFICES ASSUME NEW st \in Stream
               PROVE  /\ Sound(before'.cells[st])
                      /\ \A i \in Cell : before'.cells[st].pos[i] = Empty => v_cells'[st].pos[i] = Empty
    BY <1>1 DEF Untouched, Free
  <2>1. CASE did_optimize
    <3>1. /\ Sound(before.cells[st])
          /\ \A i \in Free(st) : v_cells[st].pos[i] = Empty \/ i \in Taken(0, st)
      BY <1>1, <2>1 DEF TryInv, Untouched, Trying
    <3> QED
      BY <1>1, <1>2, <2>1, <3>1 DEF Free
  <2>2. CASE ~did_optimize
    BY <1>1, <2>2
  <2> QED
    BY <2>1, <2>2
<1>4. TakenFew'
  <2>1. \A st : Taken(Len(sinfos), st)' = {}
    BY <1>1, <1>2 DEF Taken
  <2>2. \A st : Wanted(Len(sinfos), st)' = {}
    BY <1>1 DEF Wanted
  <2>3. Cardinality({}) <= Cardinality({})
    BY FS_EmptySet
  <2> QED
    BY <2>1, <2>2, <2>3 DEF TakenFew
<1>5. Stacked' /\ SavedFree' /\ Lens' /\ Lacking' /\ FirstTry'
  BY <1>1 DEF Stacked, SavedFree, Lens, Lacking, TryInv, FirstTry
<1> QED
  BY <1>3, <1>4, <1>5 DEF TryInv

LEMMA TakenSplit ==
  ASSUME NEW n \in Nat, NEW st
  PROVE  /\ Taken(n + 1, st) = Taken(n, st) \cup Slots(n + 1, st)
         /\ \A i : i \in Taken(n, st) <=> \E k \in 1 .. n : i \in Slots(k, st)
<1>1. \A k : k \in 1 .. n + 1 <=> k \in 1 .. n \/ k = n + 1
  OBVIOUS
<1> QED
  BY <1>1, Zenon DEF Taken

LEMMA WantedFinite ==
  ASSUME NEW n \in Nat, NEW st
  PROVE  IsFiniteSet(Wanted(n, st)) /\ Cardinality(Wanted(n, st)) \in Nat
<1>1. IsFiniteSet(1 .. n) /\ IsFiniteSet(1 .. MaxBatch)
  BY FS_Interval, MaxBatchAssumption
<1>2. IsFiniteSet((1 .. n) \X (1 .. MaxBatch))
  BY <1>1, FS_Product
<1> QED
  BY <1>2, FS_Subset, FS_CardinalityType DEF Wanted

LEMMA WantedSplit ==
  ASSUME NEW n \in Nat, NEW st, Len(ubatches[n + 1][st]) \in 0 .. MaxBatch
  PROVE  Cardinality(Wanted(n + 1, st)) = Cardinality(Wanted(n, st)) + Len(ubatches[n + 1][st])
<1> DEFINE m == Len(ubatches[n + 1][st])
           V == Wanted(n, st)
           W == {n + 1} \X (1 .. m)
<1> HIDE DEF m
<1>0. m \in 0 .. MaxBatch /\ m \in Nat /\ m = Len(ubatches[n + 1][st])
  BY MaxBatchAssumption DEF m
<1>1. Wanted(n + 1, st) = V \cup W
  <2>1. \A k \in Nat, j \in Int :
          <<k, j>> \in Wanted(n + 1, st) <=> <<k, j>> \in V \/ <<k, j>> \in W
    <3> TAKE k \in Nat, j \in Int
    <3>1. <<k, j>> \in Wanted(n + 1, st)
            <=> k \in 1 .. n + 1 /\ j \in 1 .. MaxBatch /\ j <= Len(ubatches[k][st])
      BY DEF Wanted
    <3>2. <<k, j>> \in V <=> k \in 1 .. n /\ j \in 1 .. MaxBatch /\ j <= Len(ubatches[k][st])
      BY DEF Wanted
    <3>3. <<k, j>> \in W <=> k = n + 1 /\ j \in 1 .. m
      OBVIOUS
    <3>4. j \in 1 .. m <=> j \in 1 .. MaxBatch /\ j <= m
      BY <1>0, MaxBatchAssumption
    <3> HIDE DEF V, W
    <3>5. CASE k = n + 1
      BY <1>0, <3>1, <3>2, <3>3, <3>4, <3>5
    <3>6. CASE k # n + 1
      BY <3>1, <3>2, <3>3, <3>6
    <3> QED
      BY <3>5, <3>6
  <2>2. Wanted(n + 1, st) \subseteq Nat \X Int /\ V \subseteq Nat \X Int /\ W \subseteq Nat \X Int
    BY DEF Wanted
  <2> HIDE DEF V, W
  <2>4. ASSUME NEW x \in Nat \X Int
        PROVE  x \in Wanted(n + 1, st) <=> x \in V \/ x \in W
    <3>1. PICK k \in Nat, j \in Int : x = <<k, j>>
      OBVIOUS
    <3> QED
      BY <2>1, <3>1, Zenon
  <2> QED
    BY <2>2, <2>4, Zenon
<1>2. V \cap W = {}
  <2> SUFFICES ASSUME NEW x \in V, x \in W
               PROVE  FALSE
    OBVIOUS
  <2>1. x[1] \in 1 .. n /\ x[1] = n + 1
    BY DEF Wanted
  <2> QED
    BY <2>1
<1>3. IsFiniteSet(W) /\ Cardinality(W) = m
  <2>1. IsFiniteSet(1 .. m) /\ Cardinality(1 .. m) = m
    <3>1. m \in Nat
      BY <1>0
    <3>2. 1 \in Int /\ m \in Int /\ (1 > m => m = 0) /\ m - 1 + 1 = m
      BY <3>1
    <3> QED
      BY <3>2, FS_Interval
  <2>2. IsFiniteSet({n + 1}) /\ Cardinality({n + 1}) = 1
    BY FS_Singleton
  <2>3. IsFiniteSet(W) /\ Cardinality(W) = 1 * m
    BY <2>1, <2>2, FS_Product
  <2> HIDE DEF W
  <2> QED
    BY <1>0, <2>3
<1>4. IsFiniteSet(V)
  BY WantedFinite
<1> HIDE DEF V, W
<1>5. Cardinality(V \cup W) = Cardinality(V) + Cardinality(W) - Cardinality(V \cap W)
  BY <1>3, <1>4, FS_Union
<1>6. Cardinality(V \cap W) = 0 /\ Cardinality(V) \in Nat
  BY <1>2, <1>4, FS_EmptySet, FS_CardinalityType
<1>7. Cardinality(Wanted(n + 1, st)) = Cardinality(V) + m
  <2>1. m \in Nat /\ Cardinality(V) \in Nat
    BY <1>0, <1>6
  <2>2. Cardinality(Wanted(n + 1, st)) = Cardinality(V) + m - 0
    BY <1>1, <1>3, <1>5, <1>6, Zenon
  <2>3. Cardinality(V) + m - 0 = Cardinality(V) + m
    BY <2>1
  <2> QED
    BY <2>2, <2>3, Zenon
<1> QED
  BY <1>7 DEF V, m

(* The slots that prepare finds for micro-batch k on the cells as they are.*)
LEMMA FoundFacts ==
  ASSUME IInv, NEW k \in 1 .. Len(ubatches), NEW st \in Stream
  PROVE  /\ DOMAIN SlotsFor(ubatches[k])[st] \in SUBSET Usable(v_cells[st])
         /\ Cardinality(DOMAIN SlotsFor(ubatches[k])[st]) <= Len(ubatches[k][st])
         /\ Cardinality(DOMAIN SlotsFor(ubatches[k])[st]) < Len(ubatches[k][st])
              => DOMAIN SlotsFor(ubatches[k])[st] = Usable(v_cells[st])
<1> DEFINE c == v_cells[st]
           head == v_heads[st]
           n == Len(ubatches[k][st])
<1>1. n \in Nat
  BY UbatchFacts, LenProperties DEF UBatch
<1>2. c.used \in SUBSET Cell /\ head \in Int
  BY SizeAssumption DEF IInv, CellsOK, CellsType, HeadsOK, HeadRange
<1>3. SlotsFor(ubatches[k])[st] = find_slot(c, head, n)
  BY DEF SlotsFor
<1> HIDE DEF c, head, n
<1>4. LET M == DOMAIN find_slot(c, head, n)
          E == Usable(c)
      IN  M \in SUBSET E /\ Cardinality(M) <= n /\ (Cardinality(M) < n => M = E)
  BY <1>1, <1>2, SlotFacts
<1>5. /\ DOMAIN find_slot(c, head, n) \in SUBSET Usable(c)
      /\ Cardinality(DOMAIN find_slot(c, head, n)) <= n
      /\ Cardinality(DOMAIN find_slot(c, head, n)) < n => DOMAIN find_slot(c, head, n) = Usable(c)
  BY <1>4, Zenon
<1> QED
  BY <1>3, <1>5, Zenon DEF n, c

(* A tentative placement: micro-batch n + 1 gets the slots sinfo.          *)
LEMMA PrepareSlotFacts ==
  ASSUME IInv, Stacked, PrepareSlot, NEW n, n = Len(sinfos),
         NEW sinfo, sinfo = SlotsFor(ubatches[n + 1])
  PROVE  /\ n \in Nat /\ n + 1 \in 1 .. Len(ubatches) /\ Len(stack) = n
         /\ phase = "prepare" /\ UNCHANGED <<phase, ubatches, i_cur, did_optimize, before>>
         /\ ubatches[n + 1] \in UBatch /\ Places(sinfo, ubatches[n + 1])
         /\ Apply(sinfo, ubatches[n + 1])
         /\ \A st \in Stream : Cardinality(DOMAIN sinfo[st]) = Len(ubatches[n + 1][st])
         /\ Len(sinfos') = n + 1 /\ Len(stack') = n + 1
         /\ \A k \in 1 .. n : stack'[k] = stack[k] /\ sinfos'[k] = sinfos[k]
         /\ sinfos'[n + 1] = sinfo
         /\ stack'[n + 1].heads = v_heads
         /\ \A st \in Stream : stack'[n + 1].cells[st] = cp(v_cells[st], DOMAIN sinfo[st])
<1> DEFINE ub == ubatches[n + 1]
           saved == [st \in Stream |-> cp(v_cells[st], DOMAIN sinfo[st])]
           entry == [heads |-> v_heads, cells |-> saved]
<1>1. /\ phase = "prepare" /\ n < Len(ubatches)
      /\ Fits(sinfo, ub)
      /\ sinfos' = Append(sinfos, sinfo) /\ stack' = Append(stack, entry)
      /\ Apply(sinfo, ub)
      /\ UNCHANGED <<phase, ubatches, i_cur, did_optimize, before>>
  BY DEF PrepareSlot
<1>2. /\ sinfos \in Seq([Stream -> SlotMap]) /\ n \in Nat
      /\ ubatches \in Seq(UBatch) /\ Len(ubatches) \in Nat
      /\ stack \in Seq(StackEntry) /\ Len(stack) = n
  BY <1>1, LenProperties DEF IInv, CallOK, StackOK, Stacked
<1>3. n + 1 \in 1 .. Len(ubatches)
  BY <1>1, <1>2
<1>4. ub \in UBatch /\ sinfo \in [Stream -> SlotMap] /\ Places(sinfo, ub)
  BY <1>3, UbatchFacts, SlotsForFacts
<1>5. \A st \in Stream : Cardinality(DOMAIN sinfo[st]) = Len(ub[st])
  BY <1>1 DEF Fits
<1>6. \A st \in Stream : saved[st] = cp(v_cells[st], DOMAIN sinfo[st])
  OBVIOUS
<1>7. entry.heads = v_heads /\ entry.cells = saved
  OBVIOUS
<1>8. entry \in StackEntry
  <2>1. saved \in [Stream -> SavedMap]
    <3>1. \A st \in Stream : cp(v_cells[st], DOMAIN sinfo[st]) \in SavedMap
      BY <1>4, CpFacts DEF IInv, CellsOK, Places
    <3> QED
      BY <3>1
  <2> HIDE DEF saved
  <2> QED
    BY <2>1 DEF StackEntry, IInv, HeadsOK
<1> HIDE DEF ub, saved, entry
<1>9. /\ Len(stack') = n + 1
      /\ \A j \in 1 .. n : stack'[j] = stack[j]
      /\ stack'[n + 1] = entry
  BY <1>1, <1>2, <1>8, AppendProperties
<1>10. /\ Len(sinfos') = n + 1
       /\ \A j \in 1 .. n : sinfos'[j] = sinfos[j]
       /\ sinfos'[n + 1] = sinfo
  BY <1>1, <1>2, <1>4, AppendProperties
<1> QED
  BY <1>1, <1>2, <1>3, <1>4, <1>5, <1>6, <1>7, <1>9, <1>10 DEF ub

(* The slots that it leaves behind.                                        *)
LEMMA AppendedSlots ==
  ASSUME NEW n \in Nat, NEW sinfo, \A k \in 1 .. n : sinfos'[k] = sinfos[k],
         sinfos'[n + 1] = sinfo, NEW st
  PROVE  /\ \A k \in 1 .. n : Slots(k, st)' = Slots(k, st) /\ Taken(k - 1, st)' = Taken(k - 1, st)
         /\ Slots(n + 1, st)' = DOMAIN sinfo[st]
         /\ Taken(n, st)' = Taken(n, st)
         /\ Taken(n + 1, st)' = Taken(n, st) \cup DOMAIN sinfo[st]
<1>1. \A k \in 1 .. n : Slots(k, st)' = Slots(k, st)
  BY DEF Slots
<1>2. Slots(n + 1, st)' = DOMAIN sinfo[st]
  BY DEF Slots
<1>3. ASSUME NEW j \in 0 .. n
      PROVE  Taken(j, st)' = Taken(j, st)
  <2>1. \A k \in 1 .. j : Slots(k, st)' = Slots(k, st)
    BY <1>1
  <2> QED
    BY <2>1 DEF Taken
<1>4. \A k : k \in 1 .. n + 1 <=> k \in 1 .. n \/ k = n + 1
  OBVIOUS
<1>5. Taken(n + 1, st)' = Taken(n, st) \cup DOMAIN sinfo[st]
  <2>1. \A i : i \in Taken(n + 1, st)' <=> \E k \in 1 .. n + 1 : i \in Slots(k, st)'
    BY DEF Taken
  <2>2. \A i : i \in Taken(n, st) <=> \E k \in 1 .. n : i \in Slots(k, st)
    BY DEF Taken
  <2>3. \A i : i \in Taken(n + 1, st)' <=> i \in Taken(n, st) \/ i \in DOMAIN sinfo[st]
    BY <1>1, <1>2, <1>4, <2>1, <2>2
  <2> QED
    BY <2>3
<1>6. \A k \in 1 .. n : k - 1 \in 0 .. n
  OBVIOUS
<1> QED
  BY <1>1, <1>2, <1>3, <1>5, <1>6

LEMMA PrepareSlotTry == IInv /\ TryInv /\ PrepareSlot => TryInv'
<1> SUFFICES ASSUME IInv, TryInv, PrepareSlot
             PROVE  TryInv'
  OBVIOUS
<1>0. PICK n, sinfo : n = Len(sinfos) /\ sinfo = SlotsFor(ubatches[n + 1])
  OBVIOUS
<1>1. /\ n \in Nat /\ n + 1 \in 1 .. Len(ubatches) /\ Len(stack) = n
      /\ phase = "prepare" /\ UNCHANGED <<phase, ubatches, i_cur, did_optimize, before>>
      /\ ubatches[n + 1] \in UBatch /\ Places(sinfo, ubatches[n + 1])
      /\ Apply(sinfo, ubatches[n + 1])
      /\ \A st \in Stream : Cardinality(DOMAIN sinfo[st]) = Len(ubatches[n + 1][st])
      /\ Len(sinfos') = n + 1 /\ Len(stack') = n + 1
      /\ \A k \in 1 .. n : stack'[k] = stack[k] /\ sinfos'[k] = sinfos[k]
      /\ sinfos'[n + 1] = sinfo
      /\ \A st \in Stream : stack'[n + 1].cells[st] = cp(v_cells[st], DOMAIN sinfo[st])
  BY <1>0, PrepareSlotFacts DEF TryInv
<1>2. ASSUME NEW st
      PROVE  /\ \A k \in 1 .. n : Slots(k, st)' = Slots(k, st) /\ Taken(k - 1, st)' = Taken(k - 1, st)
             /\ Slots(n + 1, st)' = DOMAIN sinfo[st]
             /\ Taken(n, st)' = Taken(n, st)
             /\ Taken(n + 1, st)' = Taken(n, st) \cup DOMAIN sinfo[st]
  <2>1. n \in Nat /\ sinfos'[n + 1] = sinfo /\ \A k \in 1 .. n : sinfos'[k] = sinfos[k]
    BY <1>1
  <2> QED
    BY <2>1, AppendedSlots, Zenon
<1>3. \A k : k \in 1 .. n + 1 <=> k \in 1 .. n \/ k = n + 1
  BY <1>1
<1>4. ASSUME NEW st \in Stream
      PROVE  DOMAIN cp(v_cells[st], DOMAIN sinfo[st]) = DOMAIN sinfo[st]
  BY DEF cp
<1>5. Stacked'
  <2>1. \A k \in 1 .. n + 1 : \A st \in Stream : DOMAIN stack'[k].cells[st] = Slots(k, st)'
    <3> SUFFICES ASSUME NEW k \in 1 .. n + 1, NEW st \in Stream
                 PROVE  DOMAIN stack'[k].cells[st] = Slots(k, st)'
      OBVIOUS
    <3>1. CASE k \in 1 .. n
      <4>1. stack'[k] = stack[k] /\ Slots(k, st)' = Slots(k, st)
        BY <1>1, <1>2, <3>1
      <4>2. DOMAIN stack[k].cells[st] = Slots(k, st)
        BY <1>1, <3>1 DEF TryInv, Stacked
      <4> QED
        BY <4>1, <4>2
    <3>2. CASE k = n + 1
      BY <1>1, <1>2, <1>4, <3>2
    <3> QED
      BY <1>3, <3>1, <3>2
  <2> QED
    BY <1>1, <2>1 DEF Stacked
<1>6. ASSUME NEW st \in Stream, NEW i \in Cell, i \notin DOMAIN sinfo[st], v_cells[st].pos[i] = Empty
      PROVE  v_cells'[st].pos[i] = Empty
  <2>1. v_cells'[st] = apply_ubatch(v_cells[st], sinfo[st], ubatches[n + 1][st])
    BY <1>1 DEF Apply
  <2>2. ubatches[n + 1][st] \in Seq(Token)
    BY <1>1 DEF UBatch
  <2>3. /\ \A j \in DOMAIN sinfo[st] : ubatches[n + 1][st][sinfo[st][j]] \in Token
        /\ DOMAIN sinfo[st] \in SUBSET Cell
    BY <1>1, <2>2, ElementOfSeq DEF Places
  <2>4. Sound(v_cells[st])
    BY DEF IInv, CellsOK
  <2>5. v_cells'[st].pos[i] \in {v_cells[st].pos[i], Empty}
    BY <1>6, <2>1, <2>3, <2>4, ApplyOthers
  <2> QED
    BY <1>6, <2>5
<1>7. Untouched'
  <2> SUFFICES ASSUME NEW st \in Stream
               PROVE  /\ Sound(before.cells[st])
                      /\ \A i \in Free(st) : v_cells'[st].pos[i] = Empty \/ i \in Taken(n + 1, st)'
    <3>1. \A st \in Stream : /\ Sound(before.cells[st])'
                             /\ \A i \in Free(st)' : v_cells'[st].pos[i] = Empty \/ i \in Taken(Len(stack), st)'
      BY <1>1 DEF Free, Taken, Sound
    <3> QED
      BY <3>1 DEF Untouched
  <2>1. /\ Sound(before.cells[st])
        /\ \A i \in Free(st) : v_cells[st].pos[i] = Empty \/ i \in Taken(n, st)
    BY <1>1 DEF TryInv, Untouched, Trying
  <2>2. \A i \in Free(st) : i \in Cell
    BY DEF Free
  <2> QED
    BY <1>2, <1>6, <2>1, <2>2
<1>8. SavedFree'
  <2> SUFFICES ASSUME NEW k \in 1 .. n + 1, NEW st \in Stream, NEW i \in Slots(k, st)', i \in Free(st)
               PROVE  stack'[k].cells[st][i].pos = Empty \/ i \in Taken(k - 1, st)'
    BY <1>1 DEF SavedFree, Free
  <2>1. CASE k \in 1 .. n
    <3>1. i \in Slots(k, st) /\ stack'[k] = stack[k] /\ Taken(k - 1, st)' = Taken(k - 1, st)
      BY <1>1, <1>2, <2>1
    <3>2. stack[k].cells[st][i].pos = Empty \/ i \in Taken(k - 1, st)
      BY <1>1, <2>1, <3>1 DEF TryInv, SavedFree
    <3> QED
      BY <3>1, <3>2
  <2>2. CASE k = n + 1
    <3>1. v_cells[st].pos[i] = Empty \/ i \in Taken(n, st)
      BY <1>1 DEF TryInv, Untouched, Trying
    <3>2. i \in DOMAIN sinfo[st] /\ stack'[k].cells[st] = cp(v_cells[st], DOMAIN sinfo[st])
      BY <1>1, <1>2, <2>2
    <3>3. stack'[k].cells[st][i].pos = v_cells[st].pos[i]
      BY <3>2 DEF cp
    <3>4. k - 1 = n
      BY <1>1, <2>2
    <3> QED
      BY <1>2, <3>1, <3>3, <3>4
  <2> QED
    BY <1>3, <2>1, <2>2
<1>9. TakenFew'
  <2>1. ASSUME NEW st \in Stream
        PROVE  Cardinality(Taken(n + 1, st)') <= Cardinality(Wanted(n + 1, st)')
    <3> DEFINE T == Taken(n, st)
               M == DOMAIN sinfo[st]
               L == Len(ubatches[n + 1][st])
    <3>1. T \in SUBSET Cell /\ M \in SUBSET Cell
      <4>1. \A k \in 1 .. n : Slots(k, st) \in SUBSET Cell
        BY <1>0, SlotCells
      <4> QED
        BY <1>1, <4>1 DEF Taken, Places
    <3>2. Cardinality(T) <= Cardinality(Wanted(n, st))
      BY <1>0, <1>1 DEF TryInv, TakenFew
    <3>3. Cardinality(M) = L /\ L \in 0 .. MaxBatch /\ L \in Nat
      <4>1. L \in Nat /\ L <= MaxBatch
        BY <1>1, UbatchFacts DEF TryInv, Lens
      <4> QED
        BY <1>1, <4>1, MaxBatchAssumption
    <3>4. Cardinality(Wanted(n + 1, st)) = Cardinality(Wanted(n, st)) + L
      BY <1>1, <3>3, WantedSplit
    <3> HIDE DEF T, M, L
    <3>5. Cardinality(T \cup M) <= Cardinality(T) + Cardinality(M)
      <4>1. /\ IsFiniteSet(T) /\ IsFiniteSet(M) /\ Cardinality(T) \in Nat /\ Cardinality(M) \in Nat
            /\ Cardinality(T \cap M) \in Nat
        <5>1. T \cap M \in SUBSET Cell
          BY <3>1
        <5> QED
          BY <3>1, <5>1, CellFinite
      <4>2. Cardinality(T \cup M) = Cardinality(T) + Cardinality(M) - Cardinality(T \cap M)
        BY <4>1, FS_Union
      <4> QED
        BY <4>1, <4>2
    <3>6. Cardinality(T \cup M) <= Cardinality(Wanted(n + 1, st))
      <4>1. /\ Cardinality(T) \in Nat /\ Cardinality(T \cup M) \in Nat
            /\ Cardinality(Wanted(n, st)) \in Nat
        <5>1. T \cup M \in SUBSET Cell
          BY <3>1
        <5> QED
          BY <1>1, <3>1, <5>1, CellFinite, WantedFinite
      <4> QED
        BY <3>2, <3>3, <3>4, <3>5, <4>1
    <3>7. Taken(n + 1, st)' = T \cup M
      BY <1>2 DEF T, M
    <3>8. Wanted(n + 1, st)' = Wanted(n + 1, st)
      BY <1>1 DEF Wanted
    <3> QED
      BY <3>6, <3>7, <3>8
  <2>2. \A st \in Stream :
          Cardinality(Taken(Len(sinfos), st))' <= Cardinality(Wanted(Len(sinfos), st))'
    BY <1>1, <2>1 DEF Taken, Wanted
  <2> QED
    BY <2>2 DEF TakenFew
<1>10. Lens' /\ Lacking' /\ FirstTry'
  BY <1>1 DEF TryInv, Lens, Lacking, FirstTry
<1> QED
  BY <1>5, <1>7, <1>8, <1>9, <1>10 DEF TryInv

(* Prepare gives up on a micro-batch only when some stream has not enough  *)
(* empty cells for it on top of what the earlier ones took.                *)
LEMMA GivesUp ==
  ASSUME IInv, TryInv, phase = "prepare", Len(sinfos) < Len(ubatches),
         ~Fits(SlotsFor(ubatches[Len(sinfos) + 1]), ubatches[Len(sinfos) + 1])
  PROVE  \E st \in Stream : Lacks(st)
<1>0. PICK n : n = Len(sinfos)
  OBVIOUS
<1> DEFINE ub == ubatches[n + 1]
           found(st) == DOMAIN SlotsFor(ub)[st]
<1>1. n \in Nat /\ Len(ubatches) \in Nat /\ n + 1 \in 1 .. Len(ubatches) /\ Len(stack) = n
  BY <1>0, LenProperties DEF IInv, CallOK, TryInv, Stacked
<1>2. ~Fits(SlotsFor(ub), ub)
  BY <1>0
<1>3. PICK st \in Stream : Cardinality(found(st)) # Len(ub[st])
  BY <1>2 DEF Fits
<1> DEFINE E == Usable(v_cells[st])
           T == Taken(n, st)
           b == before.cells[st]
           F == Free(st)
<1>4. Len(ub[st]) \in Nat /\ Len(ub[st]) <= MaxBatch
  BY <1>1, UbatchFacts DEF TryInv, Lens
<1>5. /\ found(st) \in SUBSET E
      /\ Cardinality(found(st)) <= Len(ub[st])
      /\ Cardinality(found(st)) < Len(ub[st]) => found(st) = E
  BY <1>1, FoundFacts
<1>6. E \in SUBSET Cell /\ T \in SUBSET Cell /\ F \in SUBSET Cell
  <2>1. \A k \in 1 .. n : Slots(k, st) \in SUBSET Cell
    BY <1>0, SlotCells
  <2> QED
    BY <2>1 DEF Usable, Taken, Free
<1>7. /\ Sound(b)
      /\ \A i \in F : v_cells[st].pos[i] = Empty \/ i \in T
  BY <1>1 DEF TryInv, Untouched, Trying
<1>8. F \subseteq E \cup T
  BY <1>7 DEF Free, Usable, CanUse, is_empty
<1>9. Cardinality(T) <= Cardinality(Wanted(n, st))
  BY <1>0 DEF TryInv, TakenFew
<1>10. Cardinality(Wanted(n + 1, st)) = Cardinality(Wanted(n, st)) + Len(ub[st])
  <2>1. Len(ubatches[n + 1][st]) \in 0 .. MaxBatch
    BY <1>4, MaxBatchAssumption
  <2> QED
    BY <1>1, <2>1, WantedSplit
<1>11. Needed(st) \in Nat /\ Cardinality(Wanted(n + 1, st)) <= Needed(st)
  <2> DEFINE N == {x \in (DOMAIN ubatches) \X (1 .. MaxBatch) : x[2] <= Len(ubatches[x[1]][st])}
  <2>1. DOMAIN ubatches = 1 .. Len(ubatches)
    BY LenProperties DEF IInv, CallOK
  <2>2. Wanted(Len(ubatches), st) = N
    BY <2>1 DEF Wanted
  <2>3. IsFiniteSet(N) /\ Cardinality(N) \in Nat
    BY <1>1, <2>2, WantedFinite
  <2>4. Wanted(n + 1, st) \subseteq N
    <3>1. 1 .. n + 1 \subseteq DOMAIN ubatches
      BY <1>1, <2>1
    <3> QED
      BY <3>1 DEF Wanted
  <2>5. Needed(st) = Cardinality(N)
    BY DEF Needed
  <2> HIDE DEF N
  <2> QED
    BY <2>3, <2>4, <2>5, FS_Subset
<1>12. b.used = Cell \ F
  <2>1. b.used = {i \in Cell : b.pos[i] # Empty} /\ b.used \in SUBSET Cell
    BY <1>7 DEF Sound, Consistent, CellsType
  <2> HIDE DEF b
  <2> QED
    BY <2>1 DEF Free, b
<1> HIDE DEF E, T, b, F
<1>13. Cardinality(E) < Len(ub[st])
  <2>1. Cardinality(found(st)) \in Nat /\ Cardinality(found(st)) < Len(ub[st])
    <3>1. found(st) \in SUBSET Cell
      BY <1>5, <1>6
    <3>2. Cardinality(found(st)) \in Nat
      BY <3>1, CellFinite
    <3> QED
      BY <1>3, <1>4, <1>5, <3>2
  <2> QED
    BY <1>5, <2>1
<1>14. Size - Cardinality(b.used) = Cardinality(F)
  <2>1. /\ IsFiniteSet(F) /\ IsFiniteSet(b.used)
        /\ Cardinality(F) \in Nat /\ Cardinality(b.used) \in Nat
    <3>1. b.used \in SUBSET Cell
      BY <1>12
    <3> QED
      BY <1>6, <3>1, CellFinite
  <2>2. Cardinality(F \cup b.used) = Cardinality(F) + Cardinality(b.used) - Cardinality(F \cap b.used)
    BY <2>1, FS_Union
  <2>3. F \cap b.used = {} /\ F \cup b.used = Cell
    BY <1>6, <1>12
  <2>4. Cardinality(F \cap b.used) = 0
    BY <2>3, FS_EmptySet
  <2>5. Cardinality(Cell) = Size
    <3>1. 0 \in Int /\ Size - 1 \in Int /\ ~(0 > Size - 1) /\ Size - 1 - 0 + 1 = Size
      BY SizeAssumption
    <3> QED
      BY <3>1, FS_Interval DEF Cell
  <2>6. Size = Cardinality(F) + Cardinality(b.used) - 0
    BY <2>2, <2>3, <2>4, <2>5, Zenon
  <2> QED
    BY <2>1, <2>6
<1>15. Cardinality(F) <= Cardinality(E) + Cardinality(T)
  <2>1. /\ IsFiniteSet(E) /\ IsFiniteSet(T) /\ IsFiniteSet(E \cup T)
        /\ Cardinality(E) \in Nat /\ Cardinality(T) \in Nat /\ Cardinality(E \cap T) \in Nat
        /\ Cardinality(E \cup T) \in Nat /\ Cardinality(F) \in Nat
    <3>1. E \cup T \in SUBSET Cell /\ E \cap T \in SUBSET Cell
      BY <1>6
    <3> QED
      BY <1>6, <3>1, CellFinite
  <2>2. Cardinality(E \cup T) = Cardinality(E) + Cardinality(T) - Cardinality(E \cap T)
    BY <2>1, FS_Union
  <2>3. Cardinality(F) <= Cardinality(E \cup T)
    BY <1>8, <2>1, FS_Subset
  <2> QED
    BY <2>1, <2>2, <2>3
<1>16. Needed(st) > Size - Cardinality(b.used)
  <2>1. Cardinality(E) \in Nat /\ Cardinality(T) \in Nat /\ Cardinality(F) \in Nat
    BY <1>6, CellFinite
  <2>2. Cardinality(Wanted(n, st)) \in Nat /\ Cardinality(Wanted(n + 1, st)) \in Nat
    BY <1>1, WantedFinite
  <2>3. Cardinality(Wanted(n + 1, st)) > Cardinality(F)
    BY <1>4, <1>9, <1>10, <1>13, <1>15, <2>1, <2>2
  <2> QED
    BY <1>11, <1>14, <2>1, <2>2, <2>3
<1> QED
  BY <1>16 DEF Lacks, b

LEMMA PrepareEndTry == IInv /\ TryInv /\ PrepareEnd => TryInv'
<1> SUFFICES ASSUME IInv, TryInv, PrepareEnd
             PROVE  TryInv'
  OBVIOUS
<1>1. /\ phase = "prepare" /\ phase' = "restore"
      /\ UNCHANGED <<v_cells, v_heads, ubatches, sinfos, stack, i_cur, did_optimize, before>>
  BY DEF PrepareEnd, memVars
<1>2. Stacked' /\ Lens' /\ FirstTry' /\ TakenFew'
  BY <1>1 DEF TryInv, Stacked, Lens, Slots, FirstTry, TakenFew
<1>3. Untouched' /\ SavedFree'
  BY <1>1 DEF TryInv, Untouched, SavedFree, Trying, Taken, Slots, Free
<1>4. Lacking'
  <2> SUFFICES ASSUME Len(sinfos) < Len(ubatches)
               PROVE  \E st \in Stream : Lacks(st)'
    BY <1>1 DEF Lacking
  <2>1. \E st \in Stream : Lacks(st)
    BY <1>1, GivesUp DEF PrepareEnd
  <2> QED
    BY <1>1, <2>1 DEF Lacks, Needed
<1> QED
  BY <1>2, <1>3, <1>4 DEF TryInv

(* The last tentative placement, the n-th, is taken back.                  *)
LEMMA RestoreSlotFacts ==
  ASSUME IInv, Stacked, RestoreSlot, NEW n, n = Len(stack)
  PROVE  /\ n \in Nat \ {0} /\ Len(sinfos) \in Nat /\ n <= Len(sinfos) /\ phase = "restore"
         /\ UNCHANGED <<phase, ubatches, sinfos, i_cur, did_optimize, before>>
         /\ Len(stack') = n - 1
         /\ \A j \in 1 .. n - 1 : stack'[j] = stack[j]
         /\ \A k, st : Slots(k, st)' = Slots(k, st) /\ Taken(k, st)' = Taken(k, st)
         /\ \A st \in Stream : Taken(n, st) = Taken(n - 1, st) \cup Slots(n, st)
         /\ \A st \in Stream : \A i \in Cell :
              /\ v_cells'[st].pos[i] = IF i \in Slots(n, st) THEN stack[n].cells[st][i].pos
                                                             ELSE v_cells[st].pos[i]
              /\ v_cells'[st].seq[i] = IF i \in Slots(n, st) THEN stack[n].cells[st][i].seq
                                                             ELSE v_cells[st].seq[i]
         /\ \A st \in Stream :
              v_heads'[st] = IF Slots(n, st) = {} THEN v_heads[st]
                             ELSE stack[n].heads[SlotRank(stack[n].cells, st)]
<1> DEFINE top == stack[n]
<1>1. /\ phase = "restore" /\ stack # <<>>
      /\ v_cells' = [st \in Stream |-> set(v_cells[st], top.cells[st])]
      /\ v_heads' = [st \in Stream |-> IF DOMAIN top.cells[st] = {} THEN v_heads[st]
                                       ELSE top.heads[SlotRank(top.cells, st)]]
      /\ stack' = SubSeq(stack, 1, n - 1)
      /\ UNCHANGED <<phase, ubatches, sinfos, i_cur, did_optimize, before>>
  BY DEF RestoreSlot
<1>2. /\ stack \in Seq(StackEntry) /\ n \in Nat \ {0} /\ Len(sinfos) \in Nat /\ n <= Len(sinfos)
  BY <1>1, EmptySeq, LenProperties DEF IInv, StackOK, CallOK, Stacked
<1>3. /\ Len(stack') = n - 1
      /\ \A j \in 1 .. n - 1 : stack'[j] = stack[j]
  <2>1. \A j \in 1 .. n - 1 : stack[j] \in StackEntry
    BY <1>2, ElementOfSeq
  <2>2. /\ Len(SubSeq(stack, 1, n - 1)) = IF 1 <= n - 1 THEN n - 1 - 1 + 1 ELSE 0
        /\ \A j \in 1 .. n - 1 - 1 + 1 : SubSeq(stack, 1, n - 1)[j] = stack[1 + j - 1]
    BY <1>2, <2>1, SubSeqProperties
  <2> QED
    BY <1>1, <1>2, <2>2
<1>4. \A st \in Stream : DOMAIN top.cells[st] = Slots(n, st)
  BY <1>2 DEF Stacked
<1>5. \A k, st : Slots(k, st)' = Slots(k, st) /\ Taken(k, st)' = Taken(k, st)
  BY <1>1 DEF Slots, Taken
<1>6. ASSUME NEW st \in Stream, NEW i \in Cell
      PROVE  /\ v_cells'[st].pos[i] = IF i \in Slots(n, st) THEN top.cells[st][i].pos
                                                            ELSE v_cells[st].pos[i]
             /\ v_cells'[st].seq[i] = IF i \in Slots(n, st) THEN top.cells[st][i].seq
                                                            ELSE v_cells[st].seq[i]
  <2>1. v_cells'[st] = set(v_cells[st], top.cells[st])
    BY <1>1
  <2>2. v_cells[st] \in CellsType
    BY DEF IInv, CellsOK
  <2> HIDE DEF top
  <2>3. /\ v_cells'[st].pos[i] = IF i \in DOMAIN top.cells[st] THEN top.cells[st][i].pos
                                                               ELSE v_cells[st].pos[i]
        /\ v_cells'[st].seq[i] = IF i \in DOMAIN top.cells[st] THEN top.cells[st][i].seq
                                                               ELSE v_cells[st].seq[i]
    BY <2>1, <2>2, SetCells
  <2> QED
    BY <1>4, <2>3
<1>7. \A st \in Stream : Taken(n, st) = Taken(n - 1, st) \cup Slots(n, st)
  <2>1. n - 1 \in Nat /\ n - 1 + 1 = n
    BY <1>2
  <2>2. \A st : Taken(n - 1 + 1, st) = Taken(n - 1, st) \cup Slots(n - 1 + 1, st)
    BY <2>1, TakenSplit
  <2> QED
    BY <2>1, <2>2, Zenon
<1>8. \A st \in Stream :
        v_heads'[st] = IF Slots(n, st) = {} THEN v_heads[st]
                       ELSE top.heads[SlotRank(top.cells, st)]
  <2> HIDE DEF top
  <2> QED
    BY <1>1, <1>4
<1> QED
  BY <1>1, <1>2, <1>3, <1>5, <1>6, <1>7, <1>8

LEMMA RestoreSlotTry == IInv /\ TryInv /\ RestoreSlot => TryInv'
<1> SUFFICES ASSUME IInv, TryInv, RestoreSlot
             PROVE  TryInv'
  OBVIOUS
<1>0. PICK n : n = Len(stack)
  OBVIOUS
<1>1. /\ n \in Nat \ {0} /\ Len(sinfos) \in Nat /\ n <= Len(sinfos) /\ phase = "restore"
      /\ UNCHANGED <<phase, ubatches, sinfos, i_cur, did_optimize, before>>
      /\ Len(stack') = n - 1
      /\ \A j \in 1 .. n - 1 : stack'[j] = stack[j]
      /\ \A k, st : Slots(k, st)' = Slots(k, st) /\ Taken(k, st)' = Taken(k, st)
      /\ \A st \in Stream : Taken(n, st) = Taken(n - 1, st) \cup Slots(n, st)
      /\ \A st \in Stream : \A i \in Cell :
           v_cells'[st].pos[i] = IF i \in Slots(n, st) THEN stack[n].cells[st][i].pos
                                                       ELSE v_cells[st].pos[i]
  BY <1>0, RestoreSlotFacts DEF TryInv
<1>2. \A k \in 1 .. n - 1 : k \in 1 .. Len(stack)
  BY <1>0, <1>1
<1>3. Stacked'
  <2>1. \A k \in 1 .. n - 1 : \A st \in Stream : DOMAIN stack'[k].cells[st] = Slots(k, st)'
    BY <1>1, <1>2 DEF TryInv, Stacked
  <2> QED
    BY <1>1, <2>1 DEF Stacked
<1>4. Untouched'
  <2> SUFFICES ASSUME NEW st \in Stream
               PROVE  /\ Sound(before.cells[st])
                      /\ \A i \in Free(st) : v_cells'[st].pos[i] = Empty \/ i \in Taken(n - 1, st)
    <3>1. \A st \in Stream : /\ Sound(before.cells[st])'
                             /\ \A i \in Free(st)' : v_cells'[st].pos[i] = Empty \/ i \in Taken(Len(stack), st)'
      BY <1>1 DEF Free, Taken, Slots, Sound
    <3> QED
      BY <3>1 DEF Untouched
  <2>1. /\ Sound(before.cells[st])
        /\ \A i \in Free(st) : v_cells[st].pos[i] = Empty \/ i \in Taken(n, st)
    BY <1>0, <1>1 DEF TryInv, Untouched, Trying
  <2>2. ASSUME NEW i \in Free(st)
        PROVE  v_cells'[st].pos[i] = Empty \/ i \in Taken(n - 1, st)
    <3>1. i \in Cell
      BY DEF Free
    <3>2. CASE i \in Slots(n, st)
      <4>1. stack[n].cells[st][i].pos = Empty \/ i \in Taken(n - 1, st)
        BY <1>0, <1>1, <3>2 DEF TryInv, SavedFree
      <4> QED
        BY <1>1, <3>1, <3>2, <4>1
    <3>3. CASE i \notin Slots(n, st)
      BY <1>1, <2>1, <3>1, <3>3
    <3> QED
      BY <3>2, <3>3
  <2> QED
    BY <2>1, <2>2
<1>5. SavedFree'
  <2> SUFFICES ASSUME NEW k \in 1 .. n - 1, NEW st \in Stream, NEW i \in Slots(k, st), i \in Free(st)
               PROVE  stack'[k].cells[st][i].pos = Empty \/ i \in Taken(k - 1, st)
    BY <1>1 DEF SavedFree, Free
  <2> QED
    BY <1>1, <1>2 DEF TryInv, SavedFree
<1>6. Lens' /\ TakenFew' /\ FirstTry' /\ Lacking'
  BY <1>1 DEF TryInv, Lens, TakenFew, FirstTry, Lacking, Lacks, Needed
<1> QED
  BY <1>3, <1>4, <1>5, <1>6 DEF TryInv

LEMMA PreparedTry == IInv /\ TryInv /\ Prepared => TryInv'
<1> SUFFICES ASSUME IInv, TryInv, Prepared
             PROVE  TryInv'
  OBVIOUS
<1>1. /\ phase = "restore" /\ stack = <<>> /\ phase' = "apply"
      /\ UNCHANGED <<ubatches, sinfos, stack>>
  BY DEF Prepared, memVars
<1>2. Stacked' /\ Lens' /\ FirstTry' /\ TakenFew' /\ Lacking'
  BY <1>1 DEF TryInv, Stacked, Lens, Slots, FirstTry, TakenFew, Lacking
<1>3. Untouched' /\ SavedFree'
  BY <1>1 DEF Untouched, SavedFree, Trying
<1> QED
  BY <1>2, <1>3 DEF TryInv

LEMMA RetryTry == IInv /\ TryInv /\ Retry => TryInv'
<1> SUFFICES ASSUME IInv, TryInv, Retry
             PROVE  TryInv'
  OBVIOUS
<1>1. /\ phase = "restore" /\ stack = <<>> /\ phase' = "update" /\ sinfos' = <<>>
      /\ UNCHANGED <<v_cells, ubatches, stack, before>>
  BY DEF Retry, memVars
<1>2. /\ Len(stack) = 0 /\ Len(stack') = 0 /\ Len(sinfos') = 0
      /\ \A k \in 1 .. 0 : FALSE
  BY <1>1
<1>3. Stacked' /\ SavedFree' /\ Lens' /\ FirstTry' /\ TakenFew' /\ Lacking'
  BY <1>1, <1>2 DEF TryInv, Stacked, SavedFree, Lens, FirstTry, TakenFew, Lacking
<1>4. Untouched'
  <2>1. \A st : Taken(0, st) = {}
    BY <1>2 DEF Taken
  <2> QED
    BY <1>1, <1>2, <2>1 DEF TryInv, Untouched, Trying, Free, Sound
<1> QED
  BY <1>3, <1>4 DEF TryInv

LEMMA ReturnNoSlotTry == ReturnNoSlot => TryInv'
BY IdleTry DEF ReturnNoSlot

LEMMA ApplyUbatchTry == IInv /\ TryInv /\ ApplyUbatch => TryInv'
<1> SUFFICES ASSUME IInv, TryInv, ApplyUbatch
             PROVE  TryInv'
  OBVIOUS
<1>1. phase' = "compute" /\ stack = <<>> /\ UNCHANGED <<ubatches, sinfos, stack>>
  BY DEF ApplyUbatch, IInv, StackOK
<1>2. Stacked' /\ Lens' /\ FirstTry' /\ TakenFew' /\ Lacking'
  BY <1>1 DEF TryInv, Stacked, Lens, Slots, FirstTry, TakenFew, Lacking
<1>3. Untouched' /\ SavedFree'
  BY <1>1 DEF Untouched, SavedFree, Trying
<1> QED
  BY <1>2, <1>3 DEF TryInv

LEMMA ComputeOkTry == IInv /\ TryInv /\ ComputeOk => TryInv'
<1> SUFFICES ASSUME IInv, TryInv, ComputeOk, ~Idle
             PROVE  TryInv'
  BY IdleTry
<1>1. phase' = "apply" /\ stack = <<>> /\ UNCHANGED <<ubatches, sinfos, stack>>
  BY DEF ComputeOk, IInv, StackOK
<1>2. Stacked' /\ Lens' /\ FirstTry' /\ TakenFew' /\ Lacking'
  BY <1>1 DEF TryInv, Stacked, Lens, Slots, FirstTry, TakenFew, Lacking
<1>3. Untouched' /\ SavedFree'
  BY <1>1 DEF Untouched, SavedFree, Trying
<1> QED
  BY <1>2, <1>3 DEF TryInv

LEMMA ComputeFailTry == ComputeFail => TryInv'
BY IdleTry DEF ComputeFail

LEMMA StutterTry == TryInv /\ UNCHANGED vars => TryInv'
<1> SUFFICES ASSUME TryInv, UNCHANGED vars
             PROVE  TryInv'
  OBVIOUS
<1>1. UNCHANGED <<v_cells, phase, ubatches, sinfos, stack, did_optimize, before>>
  BY DEF vars, memVars, callVars
<1>2. Stacked' /\ Lens' /\ FirstTry' /\ Untouched' /\ SavedFree'
  BY <1>1 DEF TryInv, Stacked, Lens, Slots, FirstTry, Untouched, SavedFree, Trying, Free, Taken, Sound
<1>3. TakenFew' /\ Lacking'
  BY <1>1 DEF TryInv, TakenFew, Lacking, Taken, Slots, Wanted, Lacks, Needed
<1> QED
  BY <1>2, <1>3 DEF TryInv

LEMMA NextTry == IInv /\ IInv' /\ TryInv /\ [Next]_vars => TryInv'
BY MemoryOpTry, BeginTry, UpdateCopyTry, UpdateShiftTry, PrepareSlotTry, PrepareEndTry,
   RestoreSlotTry, PreparedTry, RetryTry, ReturnNoSlotTry, ApplyUbatchTry, ComputeOkTry,
   ComputeFailTry, StutterTry
   DEF Next, DecodeStep

(* A tentative placement takes at most as many cells as it has tokens, and *)
(* neither placing nor restoring fills a cell that was free before and     *)
(* that no slot takes.                                                     *)
THEOREM TryInvariance == Spec => []TryInv
<1>1. Init => TryInv
  BY InitTry
<1>2. IInv /\ IInv' /\ TryInv /\ [Next]_vars => TryInv'
  BY NextTry
<1> QED
  BY Invariance, <1>1, <1>2, PTL DEF Spec

LEMMA OnlyReturnEnds ==
  ASSUME Next, phase = "restore", phase' = "idle"
  PROVE  ReturnNoSlot
BY DEF Next, MemoryOp, clear, SeqRm, SeqRmAny, SeqCpSame, SeqCpCross, SeqKeep, SeqAdd, SeqDiv,
       Begin, DecodeBegin, DecodeStep, UpdateCopy, UpdateShift, PrepareSlot, PrepareEnd,
       RestoreSlot, Prepared, Retry, ApplyUbatch, ComputeOk, ComputeFail

(* Decode gives up only when the tokens of some stream's micro-batches are *)
(* more than its empty cells were: find_slot's scan from the head, with    *)
(* its wrap-around, passes over no cell, with a sliding window or without, *)
(* and also the second time, after the K-shift was done.                   *)
THEOREM GivesUpRightly == Spec => NoSpuriousFailure
<1> DEFINE TooMany == \E st \in Stream : Needed(st) > Size - Cardinality(before.cells[st].used)
<1>1. TryInv /\ Next /\ phase = "restore" /\ phase' = "idle" => TooMany
  <2> SUFFICES ASSUME TryInv, Next, phase = "restore", phase' = "idle"
               PROVE  TooMany
    OBVIOUS
  <2>1. Len(sinfos) < Len(ubatches)
    BY OnlyReturnEnds DEF ReturnNoSlot
  <2> QED
    BY <2>1 DEF TryInv, Lacking, Lacks
<1>2. TryInv /\ [Next]_vars => [phase = "restore" /\ phase' = "idle" => TooMany]_vars
  BY <1>1
<1> QED
  BY TryInvariance, <1>2, PTL DEF Spec, NoSpuriousFailure

-----------------------------------------------------------------------------
(* Without a window.  The slots of a decode are disjoint sets of empty     *)
(* cells; prepare fills them and restore, which knows them from its stack, *)
(* empties them again, the last one first.                                 *)

Blank == [pos |-> Empty, seq |-> {}]
Blanks ==
  \A k \in 1 .. Len(stack) : \A st \in Stream : \A i \in Slots(k, st) :
    stack[k].cells[st][i] = Blank

SlotsApart ==
  \A j, k \in 1 .. Len(sinfos) : \A st \in Stream : j # k => Slots(j, st) \cap Slots(k, st) = {}

Occupied ==
  phase = "prepare" =>
    \A k \in 1 .. Len(sinfos) : \A st \in Stream : \A i \in Slots(k, st) :
      v_cells[st].pos[i] # Empty

(* The micro-batches that are yet to be placed for good.                   *)
ToCome(k) ==
  \/ phase = "restore" /\ k > Len(stack)
  \/ phase = "apply" /\ k >= i_cur
  \/ phase = "compute" /\ k > i_cur

Vacant ==
  \A k \in 1 .. Len(sinfos) : ToCome(k) =>
    \A st \in Stream : \A i \in Slots(k, st) : v_cells[st].pos[i] = Empty

(* `before` but for the cells of T, which were empty.                      *)
Undone(c, b, T) ==
  /\ Sound(b)
  /\ \A i \in Cell : /\ b.pos[i] = IF i \in T THEN Empty ELSE c.pos[i]
                     /\ b.seq[i] = IF i \in T THEN {} ELSE c.seq[i]

CellsBack ==
  Trying => \A st \in Stream : Undone(v_cells[st], before.cells[st], Taken(Len(stack), st))

(* With one stream; the rank of a stream among several may be wrong.       *)
HeadAt(k) == IF k <= Len(stack) THEN stack[k].heads[0] ELSE v_heads[0]

HeadsBack ==
  Trying /\ Unified =>
    /\ HeadAt(1) = before.heads[0]
    /\ \A k \in 1 .. Len(stack) : Slots(k, 0) = {} => HeadAt(k) = HeadAt(k + 1)

PrepInv == SlotsApart /\ Blanks /\ Occupied /\ Vacant /\ CellsBack /\ HeadsBack

LEMMA NothingTried ==
  ASSUME sinfos' = <<>>, stack' = <<>>, ~Trying'
  PROVE  PrepInv'
<1>1. /\ \A k \in 1 .. Len(sinfos') : FALSE
      /\ \A k \in 1 .. Len(stack') : FALSE
      /\ phase' # "prepare"
  BY DEF Trying
<1>2. SlotsApart' /\ Blanks' /\ Occupied' /\ Vacant' /\ CellsBack' /\ HeadsBack'
  BY <1>1 DEF SlotsApart, Blanks, Occupied, Vacant, CellsBack, HeadsBack
<1> QED
  BY <1>2 DEF PrepInv

LEMMA InitPrep == Init => PrepInv
<1> SUFFICES ASSUME Init
             PROVE  PrepInv
  OBVIOUS
<1>1. /\ \A k \in 1 .. Len(sinfos) : FALSE
      /\ \A k \in 1 .. Len(stack) : FALSE
      /\ phase # "prepare" /\ ~Trying
  BY DEF Init, Trying
<1>2. SlotsApart /\ Blanks /\ Occupied /\ Vacant /\ CellsBack /\ HeadsBack
  BY <1>1 DEF SlotsApart, Blanks, Occupied, Vacant, CellsBack, HeadsBack
<1> QED
  BY <1>2 DEF PrepInv

(* Between decodes, and when one begins.                                   *)
LEMMA OutsidePrep ==
  ASSUME IInv, TryInv, MemoryOp \/ Begin
  PROVE  PrepInv'
<1>1. phase = "idle" /\ phase' \in {"idle", "update"} /\ UNCHANGED <<sinfos, stack, did_optimize>>
  BY DEF MemoryOp, clear, SeqRm, SeqRmAny, SeqCpSame, SeqCpCross, SeqKeep, SeqAdd, SeqDiv, callVars,
         Begin, DecodeBegin
<1>2. sinfos' = <<>> /\ stack' = <<>>
  BY <1>1 DEF IInv, CallOK, StackOK
<1>3. ~Trying'
  BY <1>1 DEF Trying, TryInv, FirstTry
<1> QED
  BY <1>2, <1>3, NothingTried

LEMMA IdlePrep == Idle => PrepInv'
BY NothingTried DEF Idle, Trying

LEMMA UpdateCopyPrep == PrepInv /\ UpdateCopy => PrepInv'
<1> SUFFICES ASSUME PrepInv, UpdateCopy
             PROVE  PrepInv'
  OBVIOUS
<1>1. UNCHANGED <<v_cells, v_heads, phase, ubatches, sinfos, stack, i_cur, did_optimize, before>>
  BY DEF UpdateCopy, callVars
<1>2. SlotsApart' /\ Blanks' /\ Occupied' /\ Vacant'
  BY <1>1 DEF PrepInv, SlotsApart, Blanks, Occupied, Vacant, Slots, ToCome
<1>3. CellsBack' /\ HeadsBack'
  BY <1>1 DEF PrepInv, CellsBack, HeadsBack, Trying, Taken, Slots, HeadAt
<1> QED
  BY <1>2, <1>3 DEF PrepInv

LEMMA UpdateShiftPrep == IInv /\ IInv' /\ PrepInv /\ UpdateShift => PrepInv'
<1> SUFFICES ASSUME IInv, IInv', PrepInv, UpdateShift
             PROVE  PrepInv'
  OBVIOUS
<1>1. /\ phase = "update" /\ phase' = "prepare"
      /\ before' = IF did_optimize THEN before ELSE [cells |-> v_cells', heads |-> v_heads]
      /\ UNCHANGED <<v_heads, ubatches, sinfos, stack, i_cur, did_optimize>>
      /\ Len(stack) = 0 /\ Len(stack') = 0 /\ Len(sinfos') = 0
      /\ \A k \in 1 .. 0 : FALSE
      /\ \A st \in Stream :
           /\ Sound(v_cells'[st])
           /\ v_cells'[st].pos = v_cells[st].pos /\ v_cells'[st].seq = v_cells[st].seq
  BY UpdateShiftCells
<1>2. \A st : Taken(0, st) = {} /\ Taken(0, st)' = {}
  BY UpdateShiftCells
<1>3. CellsBack'
  <2> SUFFICES ASSUME NEW st \in Stream
               PROVE  Undone(v_cells'[st], before'.cells[st], Taken(Len(stack), st)')
    BY DEF CellsBack
  <2>1. Taken(Len(stack), st)' = {}
    BY <1>1 DEF Taken
  <2>2. CASE did_optimize
    <3>1. Undone(v_cells[st], before.cells[st], {})
      BY <1>1, <1>2, <2>2 DEF PrepInv, CellsBack, Trying
    <3> QED
      BY <1>1, <2>1, <2>2, <3>1 DEF Undone
  <2>3. CASE ~did_optimize
    BY <1>1, <2>1, <2>3 DEF Undone
  <2> QED
    BY <2>2, <2>3
<1>4. HeadsBack'
  <2> SUFFICES ASSUME Unified
               PROVE  HeadAt(1)' = before'.heads[0]
    BY <1>1 DEF HeadsBack
  <2>1. HeadAt(1)' = v_heads[0] /\ HeadAt(1) = v_heads[0]
    BY <1>1 DEF HeadAt
  <2>2. CASE did_optimize
    BY <1>1, <2>1, <2>2 DEF PrepInv, HeadsBack, Trying
  <2>3. CASE ~did_optimize
    BY <1>1, <2>1, <2>3
  <2> QED
    BY <2>2, <2>3
<1>5. SlotsApart' /\ Blanks' /\ Occupied' /\ Vacant'
  BY <1>1 DEF SlotsApart, Blanks, Occupied, Vacant
<1> QED
  BY <1>3, <1>4, <1>5 DEF PrepInv

(* Placing a micro-batch on empty cells, on every stream.                  *)
Vacates(sinfo) == \A st \in Stream : \A i \in DOMAIN sinfo[st] : v_cells[st].pos[i] = Empty

LEMMA ApplyFacts ==
  ASSUME IInv, NEW sinfo, NEW ub \in UBatch, Places(sinfo, ub), Vacates(sinfo), Apply(sinfo, ub),
         NEW st \in Stream, NEW i \in Cell
  PROVE  /\ i \in DOMAIN sinfo[st] => v_cells'[st].pos[i] # Empty
         /\ i \notin DOMAIN sinfo[st] => /\ v_cells'[st].pos[i] = v_cells[st].pos[i]
                                         /\ v_cells'[st].seq[i] = v_cells[st].seq[i]
<1>1. v_cells'[st] = apply_ubatch(v_cells[st], sinfo[st], ub[st])
  BY DEF Apply
<1>2. ub[st] \in Seq(Token)
  BY DEF UBatch
<1>3. \A j \in DOMAIN sinfo[st] : ub[st][sinfo[st][j]] \in Token /\ v_cells[st].pos[j] = Empty
  BY <1>2, ElementOfSeq DEF Places, Vacates
<1>4. Sound(v_cells[st]) /\ DOMAIN sinfo[st] \in SUBSET Cell
  BY DEF IInv, CellsOK, Places
<1>5. LET d == v_cells'[st]
          slot == sinfo[st]
      IN  /\ d.pos[i] = IF i \in DOMAIN slot THEN ub[st][slot[i]].pos ELSE v_cells[st].pos[i]
          /\ d.seq[i] = IF i \in DOMAIN slot THEN ub[st][slot[i]].seqs ELSE v_cells[st].seq[i]
  BY <1>1, <1>3, <1>4, ApplyVacant
<1>6. ASSUME i \in DOMAIN sinfo[st] PROVE v_cells'[st].pos[i] # Empty
  <2>1. ub[st][sinfo[st][i]].pos \in Pos
    BY <1>3, <1>6 DEF Token
  <2> QED
    BY <1>5, <1>6, <2>1, PosFacts
<1> QED
  BY <1>5, <1>6

LEMMA PrepareSlotPrep == NSwa = 0 /\ IInv /\ TryInv /\ PrepInv /\ PrepareSlot => PrepInv'
<1> SUFFICES ASSUME NSwa = 0, IInv, TryInv, PrepInv, PrepareSlot
             PROVE  PrepInv'
  OBVIOUS
<1>0. PICK n, sinfo : n = Len(sinfos) /\ sinfo = SlotsFor(ubatches[n + 1])
  OBVIOUS
<1>1. /\ n \in Nat /\ n + 1 \in 1 .. Len(ubatches) /\ Len(stack) = n
      /\ phase = "prepare" /\ UNCHANGED <<phase, ubatches, i_cur, did_optimize, before>>
      /\ ubatches[n + 1] \in UBatch /\ Places(sinfo, ubatches[n + 1])
      /\ Apply(sinfo, ubatches[n + 1])
      /\ Len(sinfos') = n + 1 /\ Len(stack') = n + 1
      /\ \A k \in 1 .. n : stack'[k] = stack[k] /\ sinfos'[k] = sinfos[k]
      /\ sinfos'[n + 1] = sinfo
      /\ stack'[n + 1].heads = v_heads
      /\ \A st \in Stream : stack'[n + 1].cells[st] = cp(v_cells[st], DOMAIN sinfo[st])
  BY <1>0, PrepareSlotFacts DEF TryInv
<1>2. \A st \in Stream : /\ DOMAIN sinfo[st] \in SUBSET Cell
                         /\ \A i \in DOMAIN sinfo[st] : v_cells[st].pos[i] = Empty
  BY <1>0, <1>1, FoundFacts, OnlyEmpty DEF Usable
<1>3. ASSUME NEW st
       PROVE  /\ \A k \in 1 .. n : Slots(k, st)' = Slots(k, st)
              /\ Slots(n + 1, st)' = DOMAIN sinfo[st]
              /\ Taken(n + 1, st)' = Taken(n, st) \cup DOMAIN sinfo[st]
  <2>1. n \in Nat /\ sinfos'[n + 1] = sinfo /\ \A k \in 1 .. n : sinfos'[k] = sinfos[k]
    BY <1>1
  <2> QED
    BY <2>1, AppendedSlots, Zenon
<1>4. \A k : k \in 1 .. n + 1 <=> k \in 1 .. n \/ k = n + 1
  BY <1>1
<1>5. ASSUME NEW st \in Stream, NEW i \in Cell
       PROVE  /\ i \in DOMAIN sinfo[st] => v_cells'[st].pos[i] # Empty
              /\ i \notin DOMAIN sinfo[st] => /\ v_cells'[st].pos[i] = v_cells[st].pos[i]
                                              /\ v_cells'[st].seq[i] = v_cells[st].seq[i]
  <2>1. Vacates(sinfo)
    BY <1>2 DEF Vacates
  <2> QED
    BY <1>1, <2>1, ApplyFacts
<1>6. ASSUME NEW k \in 1 .. n, NEW st \in Stream, NEW i \in Slots(k, st)
       PROVE  i \in Cell /\ v_cells[st].pos[i] # Empty /\ i \notin DOMAIN sinfo[st]
  <2>1. i \in Cell
    BY <1>0, <1>6, SlotCells
  <2>2. v_cells[st].pos[i] # Empty
    BY <1>0, <1>1, <1>6 DEF PrepInv, Occupied
  <2> QED
    BY <1>2, <2>1, <2>2
<1>7. SlotsApart'
  <2> SUFFICES ASSUME NEW j \in 1 .. n + 1, NEW k \in 1 .. n + 1, NEW st \in Stream, j # k,
                      NEW i, i \in Slots(j, st)', i \in Slots(k, st)'
               PROVE  FALSE
    BY <1>1 DEF SlotsApart
  <2>1. CASE j \in 1 .. n /\ k \in 1 .. n
    <3>1. Slots(j, st)' = Slots(j, st) /\ Slots(k, st)' = Slots(k, st)
      BY <1>3, <2>1
    <3>2. Slots(j, st) \cap Slots(k, st) = {}
      BY <1>0, <2>1 DEF PrepInv, SlotsApart
    <3> QED
      BY <3>1, <3>2
  <2>2. CASE j \in 1 .. n /\ k = n + 1
    BY <1>3, <1>6, <2>2
  <2>3. CASE k \in 1 .. n /\ j = n + 1
    BY <1>3, <1>6, <2>3
  <2> QED
    BY <1>4, <2>1, <2>2, <2>3
<1>8. Blanks'
  <2> SUFFICES ASSUME NEW k \in 1 .. n + 1, NEW st \in Stream, NEW i \in Slots(k, st)'
               PROVE  stack'[k].cells[st][i] = Blank
    BY <1>1 DEF Blanks, Blank
  <2>1. CASE k \in 1 .. n
    <3>1. stack'[k] = stack[k] /\ Slots(k, st)' = Slots(k, st)
      BY <1>1, <1>3, <2>1
    <3>2. \A j \in Slots(k, st) : stack[k].cells[st][j] = Blank
      BY <1>1, <2>1 DEF PrepInv, Blanks
    <3> QED
      BY <3>1, <3>2
  <2>2. CASE k = n + 1
    <3>1. stack'[k].cells[st] = cp(v_cells[st], DOMAIN sinfo[st]) /\ i \in DOMAIN sinfo[st]
      BY <1>1, <1>3, <2>2
    <3>2. v_cells[st].pos[i] = Empty /\ v_cells[st].seq[i] = {}
      BY <1>2, <3>1 DEF IInv, CellsOK, Sound, Consistent
    <3> QED
      BY <3>1, <3>2 DEF cp, Blank
  <2> QED
    BY <1>4, <2>1, <2>2
<1>9. Occupied'
  <2> SUFFICES ASSUME NEW k \in 1 .. n + 1, NEW st \in Stream, NEW i \in Slots(k, st)'
               PROVE  v_cells'[st].pos[i] # Empty
    BY <1>1 DEF Occupied
  <2>1. CASE k \in 1 .. n
    BY <1>3, <1>5, <1>6, <2>1
  <2>2. CASE k = n + 1
    BY <1>2, <1>3, <1>5, <2>2
  <2> QED
    BY <1>4, <2>1, <2>2
<1>10. CellsBack'
  <2>1. ASSUME NEW st \in Stream
        PROVE  Undone(v_cells'[st], before.cells[st], Taken(n + 1, st)')
    <3>1. Undone(v_cells[st], before.cells[st], Taken(n, st))
      BY <1>1 DEF PrepInv, CellsBack, Trying
    <3>2. \A i \in Taken(n, st) : i \notin DOMAIN sinfo[st]
      BY <1>6 DEF Taken
    <3>3. ASSUME NEW i \in Cell
          PROVE  LET b == before.cells[st]
                     T == Taken(n, st) \cup DOMAIN sinfo[st]
                 IN  /\ b.pos[i] = IF i \in T THEN Empty ELSE v_cells'[st].pos[i]
                     /\ b.seq[i] = IF i \in T THEN {} ELSE v_cells'[st].seq[i]
      <4>1. CASE i \in Taken(n, st)
        BY <3>1, <4>1 DEF Undone
      <4>2. CASE i \notin Taken(n, st) /\ i \in DOMAIN sinfo[st]
        <5>1. v_cells[st].pos[i] = Empty /\ v_cells[st].seq[i] = {}
          BY <1>2, <4>2 DEF IInv, CellsOK, Sound, Consistent
        <5> QED
          BY <3>1, <4>2, <5>1 DEF Undone
      <4>3. CASE i \notin Taken(n, st) /\ i \notin DOMAIN sinfo[st]
        BY <1>5, <3>1, <4>3 DEF Undone
      <4> QED
        BY <4>1, <4>2, <4>3
    <3> QED
      BY <1>3, <3>1, <3>3 DEF Undone
  <2>2. \A st \in Stream : Undone(v_cells[st], before.cells[st], Taken(Len(stack), st))'
    BY <1>1, <2>1 DEF Undone, Taken
  <2> QED
    BY <2>2 DEF CellsBack, Undone
<1>11. HeadsBack'
  <2> SUFFICES ASSUME Unified
               PROVE  /\ HeadAt(1)' = before.heads[0]
                      /\ \A k \in 1 .. n + 1 : Slots(k, 0)' = {} => HeadAt(k)' = HeadAt(k + 1)'
    BY <1>1 DEF HeadsBack
  <2>1. 0 \in Stream
    BY DEF Stream
  <2>2. /\ HeadAt(1) = before.heads[0]
        /\ \A k \in 1 .. n : Slots(k, 0) = {} => HeadAt(k) = HeadAt(k + 1)
    BY <1>1 DEF PrepInv, HeadsBack, Trying
  <2>3. \A k \in 1 .. n + 1 : HeadAt(k)' = HeadAt(k)
    <3> SUFFICES ASSUME NEW k \in 1 .. n + 1
                 PROVE  HeadAt(k)' = HeadAt(k)
      OBVIOUS
    <3>1. HeadAt(k)' = stack'[k].heads[0]
      BY <1>1 DEF HeadAt
    <3>2. CASE k \in 1 .. n
      BY <1>1, <3>1, <3>2 DEF HeadAt
    <3>3. CASE k = n + 1
      BY <1>1, <3>1, <3>3 DEF HeadAt
    <3> QED
      BY <1>4, <3>2, <3>3
  <2>4. HeadAt(n + 2)' = HeadAfter(v_heads[0], sinfo[0])
    BY <1>1, <2>1 DEF HeadAt, Apply
  <2>5. HeadAt(n + 1) = v_heads[0]
    BY <1>1 DEF HeadAt
  <2>6. ASSUME NEW k \in 1 .. n + 1, Slots(k, 0)' = {}
        PROVE  HeadAt(k)' = HeadAt(k + 1)'
    <3>1. CASE k \in 1 .. n
      <4>1. Slots(k, 0) = {} /\ k + 1 \in 1 .. n + 1
        <5>1. Slots(k, 0)' = Slots(k, 0)
          BY <1>3, <3>1
        <5>2. k + 1 \in 1 .. n + 1
          BY <1>1, <3>1
        <5> QED
          BY <2>6, <5>1, <5>2
      <4>2. HeadAt(k) = HeadAt(k + 1)
        BY <2>2, <3>1, <4>1
      <4>3. HeadAt(k)' = HeadAt(k) /\ HeadAt(k + 1)' = HeadAt(k + 1)
        BY <2>3, <4>1
      <4> QED
        BY <4>2, <4>3
    <3>2. CASE k = n + 1
      <4>1. DOMAIN sinfo[0] = {}
        BY <1>3, <2>1, <2>6, <3>2
      <4>2. HeadAt(n + 2)' = v_heads[0]
        BY <2>4, <4>1 DEF HeadAfter
      <4>3. HeadAt(k)' = v_heads[0]
        BY <2>3, <2>5, <3>2
      <4>4. k + 1 = n + 2
        BY <1>1, <3>2
      <4> QED
        BY <4>2, <4>3, <4>4
    <3> QED
      BY <1>4, <3>1, <3>2
  <2>7. HeadAt(1)' = before.heads[0]
    BY <1>1, <2>2, <2>3
  <2> QED
    BY <2>6, <2>7
<1>12. Vacant'
  BY <1>1 DEF Vacant, ToCome
<1> QED
  BY <1>7, <1>8, <1>9, <1>10, <1>11, <1>12 DEF PrepInv

LEMMA PrepareEndPrep == IInv /\ TryInv /\ PrepInv /\ PrepareEnd => PrepInv'
<1> SUFFICES ASSUME IInv, TryInv, PrepInv, PrepareEnd
             PROVE  PrepInv'
  OBVIOUS
<1>1. /\ phase = "prepare" /\ phase' = "restore"
      /\ UNCHANGED <<v_cells, v_heads, ubatches, sinfos, stack, i_cur, did_optimize, before>>
  BY DEF PrepareEnd, memVars
<1>2. SlotsApart' /\ Blanks' /\ Occupied'
  BY <1>1 DEF PrepInv, SlotsApart, Blanks, Occupied, Slots
<1>3. CellsBack' /\ HeadsBack'
  BY <1>1 DEF PrepInv, CellsBack, HeadsBack, Trying, Taken, Slots, HeadAt
<1>4. Vacant'
  <2>1. Len(stack') = Len(sinfos') /\ Len(sinfos') \in Nat
    BY <1>1, LenProperties DEF TryInv, Stacked, IInv, CallOK
  <2>2. \A k \in 1 .. Len(sinfos') : ~ToCome(k)'
    BY <1>1, <2>1 DEF ToCome
  <2> QED
    BY <2>2 DEF Vacant
<1> QED
  BY <1>2, <1>3, <1>4 DEF PrepInv

LEMMA RestoreSlotPrep == IInv /\ TryInv /\ PrepInv /\ RestoreSlot => PrepInv'
<1> SUFFICES ASSUME IInv, TryInv, PrepInv, RestoreSlot
             PROVE  PrepInv'
  OBVIOUS
<1>0. PICK n : n = Len(stack)
  OBVIOUS
<1>1. /\ n \in Nat \ {0} /\ Len(sinfos) \in Nat /\ n <= Len(sinfos) /\ phase = "restore"
      /\ UNCHANGED <<phase, ubatches, sinfos, i_cur, did_optimize, before>>
      /\ Len(stack') = n - 1
      /\ \A j \in 1 .. n - 1 : stack'[j] = stack[j]
      /\ \A k, st : Slots(k, st)' = Slots(k, st) /\ Taken(k, st)' = Taken(k, st)
      /\ \A st \in Stream : Taken(n, st) = Taken(n - 1, st) \cup Slots(n, st)
      /\ \A st \in Stream :
           v_heads'[st] = IF Slots(n, st) = {} THEN v_heads[st]
                          ELSE stack[n].heads[SlotRank(stack[n].cells, st)]
  BY <1>0, RestoreSlotFacts DEF TryInv
<1>2. ASSUME NEW st \in Stream, NEW i \in Cell
      PROVE  /\ v_cells'[st].pos[i] = IF i \in Slots(n, st) THEN Empty ELSE v_cells[st].pos[i]
             /\ v_cells'[st].seq[i] = IF i \in Slots(n, st) THEN {} ELSE v_cells[st].seq[i]
  <2>1. \A j \in Slots(n, st) : stack[n].cells[st][j] = Blank
    BY <1>0, <1>1 DEF PrepInv, Blanks
  <2>2. /\ v_cells'[st].pos[i] = IF i \in Slots(n, st) THEN stack[n].cells[st][i].pos
                                                       ELSE v_cells[st].pos[i]
        /\ v_cells'[st].seq[i] = IF i \in Slots(n, st) THEN stack[n].cells[st][i].seq
                                                       ELSE v_cells[st].seq[i]
    BY <1>0, RestoreSlotFacts DEF TryInv
  <2> QED
    BY <2>1, <2>2 DEF Blank
<1>3. SlotsApart' /\ Occupied'
  BY <1>1 DEF PrepInv, SlotsApart, Slots, Occupied
<1>4. Blanks'
  <2>1. ASSUME NEW k \in 1 .. n - 1, NEW st \in Stream, NEW i \in Slots(k, st)
        PROVE  stack'[k].cells[st][i] = Blank
    <3>1. k \in 1 .. Len(stack) /\ stack'[k] = stack[k]
      BY <1>0, <1>1
    <3> QED
      BY <3>1 DEF PrepInv, Blanks
  <2>2. \A k \in 1 .. Len(stack') : \A st \in Stream : \A i \in Slots(k, st)' :
          stack'[k].cells[st][i] = Blank
    BY <1>1, <2>1
  <2> QED
    BY <2>2 DEF Blanks, Blank
<1>5. Vacant'
  <2> SUFFICES ASSUME NEW k \in 1 .. Len(sinfos), k > n - 1, NEW st \in Stream, NEW i \in Slots(k, st)
               PROVE  v_cells'[st].pos[i] = Empty
    BY <1>1 DEF Vacant, ToCome
  <2>1. i \in Cell
    BY SlotCells
  <2>2. i \in Slots(n, st) \/ v_cells[st].pos[i] = Empty
    <3>1. CASE k = n
      BY <3>1
    <3>2. CASE k # n
      <4>1. ToCome(k)
        BY <1>0, <1>1, <3>2 DEF ToCome
      <4> QED
        BY <4>1 DEF PrepInv, Vacant
    <3> QED
      BY <3>1, <3>2
  <2> QED
    BY <1>2, <2>1, <2>2
<1>6. CellsBack'
  <2>1. ASSUME NEW st \in Stream
        PROVE  Undone(v_cells'[st], before.cells[st], Taken(n - 1, st))
    <3>1. Undone(v_cells[st], before.cells[st], Taken(n, st))
      BY <1>0, <1>1 DEF PrepInv, CellsBack, Trying
    <3> QED
      BY <1>1, <1>2, <3>1 DEF Undone
  <2>2. ASSUME NEW st \in Stream
        PROVE  Taken(n - 1, st)' = Taken(n - 1, st)
    BY <1>1 DEF Taken, Slots
  <2>3. \A st \in Stream : Undone(v_cells[st], before.cells[st], Taken(Len(stack), st))'
    BY <1>1, <2>1, <2>2 DEF Undone, Taken
  <2> QED
    BY <2>3 DEF CellsBack, Undone
<1>7. HeadsBack'
  <2> SUFFICES ASSUME Unified
               PROVE  /\ HeadAt(1)' = before.heads[0]
                      /\ \A k \in 1 .. n - 1 : Slots(k, 0) = {} => HeadAt(k)' = HeadAt(k + 1)'
    BY <1>1 DEF HeadsBack
  <2>1. 0 \in Stream
    BY DEF Stream
  <2>2. /\ HeadAt(1) = before.heads[0]
        /\ \A k \in 1 .. n : Slots(k, 0) = {} => HeadAt(k) = HeadAt(k + 1)
    BY <1>0, <1>1 DEF PrepInv, HeadsBack, Trying
  <2>3. HeadAt(n) = stack[n].heads[0] /\ HeadAt(n + 1) = v_heads[0]
    BY <1>0, <1>1 DEF HeadAt
  <2>4. v_heads'[0] = HeadAt(n)
    <3>1. CASE Slots(n, 0) = {}
      <4>1. v_heads'[0] = v_heads[0]
        BY <1>1, <2>1, <3>1
      <4>2. HeadAt(n) = HeadAt(n + 1)
        BY <1>1, <2>2, <3>1
      <4> QED
        BY <2>3, <4>1, <4>2
    <3>2. CASE Slots(n, 0) # {}
      <4>1. SlotRank(stack[n].cells, 0) = 0
        BY <2>1, SlotRankType DEF Stream
      <4>2. DOMAIN stack[n].cells[0] # {}
        BY <1>0, <1>1, <2>1, <3>2 DEF TryInv, Stacked
      <4>3. v_heads'[0] = IF Slots(n, 0) = {} THEN v_heads[0]
                          ELSE stack[n].heads[SlotRank(stack[n].cells, 0)]
        BY <1>1, <2>1
      <4> QED
        BY <2>3, <3>2, <4>1, <4>3
    <3> QED
      BY <3>1, <3>2
  <2>5. ASSUME NEW k \in 1 .. n
        PROVE  HeadAt(k)' = HeadAt(k)
    <3>1. CASE k = n
      BY <1>1, <2>4, <3>1 DEF HeadAt
    <3>2. CASE k # n
      BY <1>0, <1>1, <3>2 DEF HeadAt
    <3> QED
      BY <3>1, <3>2
  <2>6. HeadAt(1)' = before.heads[0]
    BY <1>1, <2>2, <2>5
  <2>7. ASSUME NEW k \in 1 .. n - 1, Slots(k, 0) = {}
        PROVE  HeadAt(k)' = HeadAt(k + 1)'
    <3>1. k \in 1 .. n /\ k + 1 \in 1 .. n
      BY <1>1
    <3>2. HeadAt(k) = HeadAt(k + 1)
      BY <2>2, <2>7, <3>1
    <3>3. HeadAt(k)' = HeadAt(k) /\ HeadAt(k + 1)' = HeadAt(k + 1)
      BY <2>5, <3>1
    <3> QED
      BY <3>2, <3>3
  <2> QED
    BY <2>6, <2>7
<1> QED
  BY <1>3, <1>4, <1>5, <1>6, <1>7 DEF PrepInv

LEMMA PreparedPrep == IInv /\ PrepInv /\ Prepared => PrepInv'
<1> SUFFICES ASSUME IInv, PrepInv, Prepared
             PROVE  PrepInv'
  OBVIOUS
<1>1. /\ phase = "restore" /\ stack = <<>> /\ phase' = "apply" /\ i_cur' = 1
      /\ UNCHANGED <<v_cells, v_heads, ubatches, sinfos, stack, did_optimize, before>>
  BY DEF Prepared, memVars
<1>2. SlotsApart' /\ Blanks' /\ Occupied'
  BY <1>1 DEF PrepInv, SlotsApart, Blanks, Occupied, Slots
<1>3. CellsBack' /\ HeadsBack'
  BY <1>1 DEF CellsBack, HeadsBack, Trying
<1>4. Vacant'
  <2>1. \A k \in 1 .. Len(sinfos) : ToCome(k)
    BY <1>1 DEF ToCome
  <2> QED
    BY <1>1, <2>1 DEF PrepInv, Vacant, Slots
<1> QED
  BY <1>2, <1>3, <1>4 DEF PrepInv

LEMMA RetryPrep == IInv /\ PrepInv /\ Retry => PrepInv'
<1> SUFFICES ASSUME IInv, PrepInv, Retry
             PROVE  PrepInv'
  OBVIOUS
<1>1. /\ phase = "restore" /\ stack = <<>> /\ phase' = "update"
      /\ did_optimize' = TRUE /\ sinfos' = <<>>
      /\ UNCHANGED <<v_cells, v_heads, ubatches, stack, i_cur, before>>
  BY DEF Retry, memVars
<1>2. /\ Len(stack) = 0 /\ Len(stack') = 0 /\ Len(sinfos') = 0
      /\ \A k \in 1 .. 0 : FALSE
  BY <1>1
<1>3. SlotsApart' /\ Blanks' /\ Occupied' /\ Vacant'
  BY <1>1, <1>2 DEF SlotsApart, Blanks, Occupied, Vacant
<1>4. CellsBack'
  <2>1. \A st : Taken(0, st) = {} /\ Taken(0, st)' = {}
    BY <1>2 DEF Taken
  <2>2. \A st \in Stream : Undone(v_cells[st], before.cells[st], Taken(0, st))
    BY <1>1, <1>2 DEF PrepInv, CellsBack, Trying
  <2>3. \A st \in Stream : Undone(v_cells[st], before.cells[st], Taken(Len(stack), st))'
    BY <1>1, <1>2, <2>1, <2>2 DEF Undone, Taken
  <2> QED
    BY <2>3 DEF CellsBack, Undone
<1>5. HeadsBack'
  BY <1>1, <1>2 DEF PrepInv, HeadsBack, Trying, HeadAt
<1> QED
  BY <1>3, <1>4, <1>5 DEF PrepInv

LEMMA ReturnNoSlotPrep == ReturnNoSlot => PrepInv'
BY IdlePrep DEF ReturnNoSlot

LEMMA ApplyUbatchPrep == IInv /\ PrepInv /\ ApplyUbatch => PrepInv'
<1> SUFFICES ASSUME IInv, PrepInv, ApplyUbatch
             PROVE  PrepInv'
  OBVIOUS
<1>1. /\ phase = "apply" /\ phase' = "compute"
      /\ Apply(sinfos[i_cur], ubatches[i_cur])
      /\ UNCHANGED <<ubatches, sinfos, stack, i_cur, did_optimize, before>>
  BY DEF ApplyUbatch
<1>2. SlotsApart' /\ Blanks' /\ Occupied'
  BY <1>1 DEF PrepInv, SlotsApart, Blanks, Occupied, Slots
<1>3. CellsBack' /\ HeadsBack'
  BY <1>1 DEF CellsBack, HeadsBack, Trying
<1>4. /\ i_cur \in 1 .. Len(sinfos) /\ Len(sinfos) \in Nat
      /\ ubatches[i_cur] \in UBatch /\ Places(sinfos[i_cur], ubatches[i_cur])
  BY <1>1, CurrentSlot, LenProperties DEF IInv, CallOK
<1>5. Vacates(sinfos[i_cur])
  <2>1. ToCome(i_cur)
    BY <1>1, <1>4 DEF ToCome
  <2> QED
    BY <1>4, <2>1 DEF PrepInv, Vacant, Vacates, Slots
<1>6. Vacant'
  <2> SUFFICES ASSUME NEW k \in 1 .. Len(sinfos), k > i_cur, NEW st \in Stream, NEW i \in Slots(k, st)
               PROVE  v_cells'[st].pos[i] = Empty
    BY <1>1 DEF Vacant, ToCome, Slots
  <2>1. i \in Cell
    BY SlotCells
  <2>2. v_cells[st].pos[i] = Empty
    <3>1. ToCome(k)
      BY <1>1, <1>4 DEF ToCome
    <3> QED
      BY <3>1 DEF PrepInv, Vacant
  <2>3. i \notin DOMAIN sinfos[i_cur][st]
    <3>1. k # i_cur
      BY <1>4
    <3> QED
      BY <1>4, <3>1 DEF PrepInv, SlotsApart, Slots
  <2> QED
    BY <1>1, <1>4, <1>5, <2>1, <2>2, <2>3, ApplyFacts
<1> QED
  BY <1>2, <1>3, <1>6 DEF PrepInv

LEMMA ComputeOkPrep == IInv /\ PrepInv /\ ComputeOk => PrepInv'
<1> SUFFICES ASSUME IInv, PrepInv, ComputeOk, ~Idle
             PROVE  PrepInv'
  BY IdlePrep
<1>1. /\ phase = "compute" /\ phase' = "apply" /\ i_cur' = i_cur + 1
      /\ UNCHANGED <<v_cells, v_heads, ubatches, sinfos, stack, did_optimize, before>>
  BY DEF ComputeOk
<1>2. SlotsApart' /\ Blanks' /\ Occupied'
  BY <1>1 DEF PrepInv, SlotsApart, Blanks, Occupied, Slots
<1>3. CellsBack' /\ HeadsBack'
  BY <1>1 DEF CellsBack, HeadsBack, Trying
<1>4. Vacant'
  <2>1. i_cur \in Nat
    BY <1>1 DEF IInv, CallOK
  <2>2. \A k \in 1 .. Len(sinfos) : k >= i_cur + 1 => ToCome(k)
    BY <1>1, <2>1 DEF ToCome
  <2> QED
    BY <1>1, <2>2 DEF PrepInv, Vacant, Slots, ToCome
<1> QED
  BY <1>2, <1>3, <1>4 DEF PrepInv

LEMMA ComputeFailPrep == ComputeFail => PrepInv'
BY IdlePrep DEF ComputeFail

LEMMA StutterPrep == PrepInv /\ UNCHANGED vars => PrepInv'
<1> SUFFICES ASSUME PrepInv, UNCHANGED vars
             PROVE  PrepInv'
  OBVIOUS
<1>1. UNCHANGED <<v_cells, v_heads, phase, ubatches, sinfos, stack, i_cur, did_optimize, before>>
  BY DEF vars, memVars, callVars
<1>2. SlotsApart' /\ Blanks' /\ Occupied' /\ Vacant'
  BY <1>1 DEF PrepInv, SlotsApart, Blanks, Occupied, Vacant, Slots, ToCome
<1>3. CellsBack' /\ HeadsBack'
  BY <1>1 DEF PrepInv, CellsBack, HeadsBack, Trying, Taken, Slots, HeadAt, Undone
<1> QED
  BY <1>2, <1>3 DEF PrepInv

LEMMA NextPrep == NSwa = 0 /\ IInv /\ IInv' /\ TryInv /\ PrepInv /\ [Next]_vars => PrepInv'
BY OutsidePrep, UpdateCopyPrep, UpdateShiftPrep, PrepareSlotPrep, PrepareEndPrep,
   RestoreSlotPrep, PreparedPrep, RetryPrep, ReturnNoSlotPrep, ApplyUbatchPrep, ComputeOkPrep,
   ComputeFailPrep, StutterPrep
   DEF Next, DecodeStep

(* prepare fills disjoint sets of empty cells, restore empties exactly     *)
(* these, and the later micro-batches' cells stay empty until their turn.  *)
THEOREM PrepareInvariance ==
  ASSUME NSwa = 0
  PROVE  Spec => []PrepInv
<1>1. Init => PrepInv
  BY InitPrep
<1>2. IInv /\ IInv' /\ TryInv /\ PrepInv /\ [Next]_vars => PrepInv'
  BY NextPrep
<1> QED
  BY Invariance, TryInvariance, <1>1, <1>2, PTL DEF Spec

(* A slot that prepare found (eden_kv_cache::prepare, find_slot) can still *)
(* be used when apply() comes to it, whatever the earlier micro-batches    *)
(* did.                                                                    *)
THEOREM SlotsHold ==
  ASSUME NSwa = 0
  PROVE  Spec => []SlotsStillValid
<1>1. ASSUME IInv, PrepInv, phase = "apply", NEW st \in Stream, NEW i \in DOMAIN sinfos[i_cur][st]
      PROVE  CanUse(v_cells[st], i)
  <2>1. i_cur \in 1 .. Len(sinfos) /\ i \in Cell
    BY <1>1, CurrentSlot DEF IInv, CallOK, Places
  <2>2. ToCome(i_cur)
    BY <1>1, <2>1, LenProperties DEF ToCome, IInv, CallOK
  <2>3. v_cells[st].pos[i] = Empty
    BY <1>1, <2>1, <2>2 DEF PrepInv, Vacant, Slots
  <2> QED
    BY <2>1, <2>3, OnlyEmpty
<1>2. IInv /\ PrepInv => SlotsStillValid
  BY <1>1 DEF SlotsStillValid
<1> QED
  BY Invariance, PrepareInvariance, <1>2, PTL

(* The cells of every stream are again what they were before prepare.      *)
CellsRestored ==
  \A st \in Stream : /\ v_cells'[st].pos = before.cells[st].pos
                     /\ v_cells'[st].seq = before.cells[st].seq

LEMMA ReturnRestores ==
  ASSUME IInv, PrepInv, Next, phase = "restore", phase' = "idle"
  PROVE  CellsRestored /\ (Unified => v_heads'[0] = before.heads[0])
<1>1. stack = <<>> /\ Len(stack) = 0 /\ v_cells' = v_cells /\ v_heads' = v_heads
  BY OnlyReturnEnds DEF ReturnNoSlot, memVars
<1>2. ASSUME NEW st \in Stream
      PROVE  v_cells[st].pos = before.cells[st].pos /\ v_cells[st].seq = before.cells[st].seq
  <2>1. Undone(v_cells[st], before.cells[st], Taken(0, st))
    BY <1>1 DEF PrepInv, CellsBack, Trying
  <2>2. Taken(0, st) = {}
    BY DEF Taken
  <2>3. v_cells[st] \in CellsType /\ before.cells[st] \in CellsType
    BY <2>1 DEF Undone, Sound, IInv, CellsOK
  <2> QED
    BY <2>1, <2>2, <2>3 DEF Undone, CellsType
<1>3. Unified => v_heads[0] = before.heads[0]
  BY <1>1 DEF PrepInv, HeadsBack, HeadAt, Trying
<1> QED
  BY <1>1, <1>2, <1>3 DEF CellsRestored

(* A decode that finds no slot returns 1 and leaves the positions and the  *)
(* sequences of every cell, and the head, as they were before it.          *)
THEOREM NoSlotKeeps ==
  ASSUME NSwa = 0, Unified
  PROVE  Spec => NoSlotRestores
<1> DEFINE Back == \A st \in Stream : /\ v_cells'[st].pos = before.cells[st].pos
                                      /\ v_cells'[st].seq = before.cells[st].seq
                                      /\ v_heads'[st] = before.heads[st]
<1>1. IInv /\ PrepInv /\ Next /\ phase = "restore" /\ phase' = "idle" => Back
  BY ReturnRestores DEF Stream, CellsRestored
<1>2. IInv /\ PrepInv /\ [Next]_vars => [phase = "restore" /\ phase' = "idle" => Back]_vars
  BY <1>1
<1> QED
  BY Invariance, PrepareInvariance, <1>2, PTL DEF Spec, NoSlotRestores

(* With a stream per sequence too, the cells are as before; of the heads,  *)
(* restore may confuse the streams.                                        *)
THEOREM NoSlotKeepsCells ==
  ASSUME NSwa = 0
  PROVE  Spec => [][phase = "restore" /\ phase' = "idle" => CellsRestored]_vars
<1>1. IInv /\ PrepInv /\ Next /\ phase = "restore" /\ phase' = "idle" => CellsRestored
  BY ReturnRestores
<1>2. IInv /\ PrepInv /\ [Next]_vars => [phase = "restore" /\ phase' = "idle" => CellsRestored]_vars
  BY <1>1
<1> QED
  BY Invariance, PrepareInvariance, <1>2, PTL DEF Spec

-----------------------------------------------------------------------------
(* With a window: a decode whose tokens are one micro-batch finds its      *)
(* window complete.  (With several, placing a later one in prepare() may   *)
(* purge what an earlier one still needs, and restore does not bring it    *)
(* back.)  What the tokens of the micro-batch may attend to is not in the  *)
(* cells of the slot, and whoever places a micro-batch purges only what    *)
(* they may not attend to any more.                                        *)

(* Some token of T attends to position q of sequence s.                    *)
Sees(T, s, q) == \E tok \in T : s \in tok.seqs /\ ~is_masked_swa(q, tok.pos)

(* Sequence s has position q in a cell of C.                               *)
Holds(c, C, s, q) == \E i \in C : s \in c.seq[i] /\ c.pos[i] = q

(* No token of T attends to what the cells of M hold.                      *)
Unseen(c, M, T) == \A i \in M : \A s \in c.seq[i] : ~Sees(T, s, c.pos[i])

LEMMA PosOfHolds ==
  ASSUME NEW c, Sound(c), NEW s \in SeqId, NEW p \in Pos
  PROVE  p \in PosOf(c, s) <=> Holds(c, Cell, s, p)
<1>1. c.seq_pos[s][p] = Cardinality(CellsAt(c.pos, c.seq, s, p))
  BY DEF Sound, Consistent
<1>2. IsFiniteSet(CellsAt(c.pos, c.seq, s, p)) /\ Cardinality(CellsAt(c.pos, c.seq, s, p)) \in Nat
  BY CellFinite DEF CellsAt
<1>3. Cardinality(CellsAt(c.pos, c.seq, s, p)) = 0 <=> CellsAt(c.pos, c.seq, s, p) = {}
  BY <1>2, FS_EmptySet
<1>4. p \in PosOf(c, s) <=> CellsAt(c.pos, c.seq, s, p) # {}
  BY <1>1, <1>2, <1>3 DEF PosOf
<1> QED
  BY <1>4 DEF CellsAt, Holds

(* An older position is masked whenever a newer one is.                    *)
LEMMA MaskedBelow ==
  ASSUME NEW q \in Int, NEW r \in Int, NEW p \in Int, q <= r, is_masked_swa(r, p)
  PROVE  is_masked_swa(q, p)
BY NSwaAssumption DEF is_masked_swa

(* The purge of a sequence goes up to a position that the slot overwrites, *)
(* or nowhere.                                                             *)
LEMMA PosMaxRmFacts ==
  ASSUME NEW c, Sound(c), NEW M \in SUBSET Cell, NEW s \in SeqId
  PROVE  \/ PosMaxRm(c, M, s) = -1
         \/ \E j \in M : /\ s \in c.seq[j] /\ c.pos[j] \in Pos
                         /\ PosMaxRm(c, M, s) = c.pos[j]
<1> DEFINE J == {j \in M : c.seq[j] = {s}}
           P == {c.pos[i] : i \in J}
<1>1. PosMaxRm(c, M, s) = IF P = {} THEN -1 ELSE Most(P)
  BY DEF PosMaxRm
<1>2. \A j \in J : s \in c.seq[j] /\ c.pos[j] \in Pos /\ j \in M
  BY DEF Sound, Consistent, CellsType
<1>3. CASE P = {}
  <2> HIDE DEF P
  <2> QED
    BY <1>1, <1>3
<1>4. CASE P # {}
  <2>1. P \in SUBSET Pos
    BY <1>2
  <2>2. P \in SUBSET Int /\ MaxPos \in Int /\ \A x \in P : x <= MaxPos
    <3> HIDE DEF P
    <3> QED
      BY <2>1, MaxPosAssumption DEF Pos
  <2>3. Most(P) \in P
    <3> HIDE DEF P
    <3>1. \E x \in P : \A y \in P : x >= y
      BY <1>4, <2>2, GreatestInt
    <3> QED
      BY <3>1, Zenon DEF Most
  <2>4. PICK j \in J : c.pos[j] = Most(P)
    <3>1. \A x \in P : \E j \in J : c.pos[j] = x
      OBVIOUS
    <3> HIDE DEF P, J
    <3> QED
      BY <2>3, <3>1
  <2>5. PosMaxRm(c, M, s) = c.pos[j]
    <3> HIDE DEF P
    <3> QED
      BY <1>1, <1>4, <2>4
  <2> QED
    BY <1>2, <2>5
<1> QED
  BY <1>3, <1>4

(* A placement on unseen cells leaves what its tokens attend to where it   *)
(* was, outside the slot.                                                  *)
LEMMA ApplyKeeps ==
  ASSUME NEW c, Sound(c), NEW slot, DOMAIN slot \in SUBSET Cell, NEW toks,
         \A i \in DOMAIN slot : toks[slot[i]] \in Token,
         NEW T \in SUBSET Token, Unseen(c, DOMAIN slot, T),
         NEW s \in SeqId, NEW q \in Pos, Sees(T, s, q), Holds(c, Cell, s, q)
  PROVE  Holds(apply_ubatch(c, slot, toks), Cell \ DOMAIN slot, s, q)
<1> DEFINE M == DOMAIN slot
           p == Emplace(c, slot, toks)
           G == Purged(c, slot, p)
           d == apply_ubatch(c, slot, toks)
<1>1. PICK i \in Cell : s \in c.seq[i] /\ c.pos[i] = q
  BY DEF Holds
<1>2. i \notin M
  BY <1>1 DEF Unseen
<1>3. p.pos[i] = q /\ p.seq[i] = c.seq[i]
  <2>1. \A j \in Cell : /\ p.pos[j] = IF j \in M THEN toks[slot[j]].pos ELSE c.pos[j]
                        /\ p.seq[j] = IF j \in M THEN toks[slot[j]].seqs ELSE c.seq[j]
    BY EmplaceCells
  <2> HIDE DEF p, M
  <2> QED
    BY <1>1, <1>2, <2>1
<1>4. PICK tok \in T : s \in tok.seqs /\ ~is_masked_swa(q, tok.pos)
  BY DEF Sees
<1>5. ~(q <= PosMaxRm(c, M, s))
  <2> SUFFICES ASSUME q <= PosMaxRm(c, M, s)
               PROVE  FALSE
    OBVIOUS
  <2>1. q \in Int /\ q >= 0 /\ tok.pos \in Int
    BY MaxPosAssumption DEF Pos, Token
  <2>2. PICK j \in M : s \in c.seq[j] /\ c.pos[j] \in Pos /\ PosMaxRm(c, M, s) = c.pos[j]
    <3>1. PosMaxRm(c, M, s) # -1
      BY <2>1
    <3> HIDE DEF M
    <3>2. M \in SUBSET Cell
      BY DEF M
    <3> QED
      BY <3>1, <3>2, PosMaxRmFacts
  <2>3. is_masked_swa(c.pos[j], tok.pos)
    BY <1>4, <2>2 DEF Unseen, Sees
  <2>4. c.pos[j] \in Int /\ q <= c.pos[j]
    BY <2>2, MaxPosAssumption DEF Pos
  <2>5. is_masked_swa(q, tok.pos)
    BY <2>1, <2>3, <2>4, MaskedBelow
  <2> QED
    BY <1>4, <2>5
<1>6. s \notin G[i]
  <2> HIDE DEF p
  <2> QED
    BY <1>3, <1>5 DEF Purged
<1>7. d.pos[i] = q /\ s \in d.seq[i]
  <2>1. /\ d.pos[i] = IF i \in Freed(p, G) THEN Empty ELSE p.pos[i]
        /\ d.seq[i] = p.seq[i] \ G[i]
    BY ApplyCells
  <2> HIDE DEF p, G, d
  <2>2. i \notin Freed(p, G)
    BY <1>1, <1>3, <1>6 DEF Freed
  <2> QED
    BY <1>1, <1>3, <1>6, <2>1, <2>2
<1> HIDE DEF d
<1> QED
  BY <1>2, <1>7 DEF Holds, d

(* find_slot takes only cells that no token beyond the sequences' ends     *)
(* attends to.                                                             *)
LEMMA UsableUnseen ==
  ASSUME NEW c, Sound(c), NEW T \in SUBSET Token,
         \A tok \in T : \A s \in tok.seqs : \A i \in Cell : s \in c.seq[i] => c.pos[i] < tok.pos
  PROVE  Unseen(c, Usable(c), T)
<1> SUFFICES ASSUME NEW i \in Usable(c), NEW s \in c.seq[i], NEW tok \in T, s \in tok.seqs
             PROVE  is_masked_swa(c.pos[i], tok.pos)
  BY DEF Unseen, Sees
<1>1. i \in Cell /\ CanUse(c, i)
  BY DEF Usable
<1>2. s \in SeqId /\ c.pos[i] \in Pos /\ c.pos[i] # Empty
  BY <1>1 DEF Sound, Consistent, CellsType
<1>3. is_masked_swa(c.pos[i], seq_pos_max(c, s) + 1)
  BY <1>1, <1>2 DEF CanUse, is_empty
<1>4. PICK j \in Cell : s \in c.seq[j] /\ c.pos[j] = seq_pos_max(c, s)
  BY <1>1, <1>2, SeqPosMaxExact DEF IsMaxOf, Has
<1>5. c.pos[j] < tok.pos
  BY <1>4
<1>6. c.pos[i] \in Int /\ tok.pos \in Int /\ seq_pos_max(c, s) \in Int
  <2>1. c.pos[j] \in Pos \cup {Empty}
    BY <1>4 DEF Sound, CellsType
  <2> QED
    BY <1>2, <1>4, <2>1, MaxPosAssumption DEF Pos, Token, Empty
<1> QED
  BY <1>3, <1>4, <1>5, <1>6, NSwaAssumption DEF is_masked_swa

(* The tokens that begin() gives to a stream come after its sequences'     *)
(* positions.                                                              *)
Fed(st) ==
  {tok \in Token : \A s \in tok.seqs : seq_to_stream(s) = st /\ seq_pos_max(v_cells[st], s) < tok.pos}

Feeds == UNION {Seq(Fed(st)) : st \in Stream}
Feed == {ub \in [Stream -> Feeds] : \A st \in Stream : ub[st] \in Seq(Fed(st))}

LEMMA ChunkOf ==
  ASSUME NEW S, NEW q \in Nat \ {0}, NEW k \in Nat \ {0}, NEW toks \in Seq(S)
  PROVE  Chunk(q, k, toks) \in Seq(S)
<1> DEFINE m == (k - 1) * q + 1
           n == Lesser(k * q, Len(toks))
<1>1. Len(toks) \in Nat
  BY LenProperties
<1>2. k * q \in Int /\ m \in Int /\ m >= 1
  BY SMT
<1>3. n \in Int /\ n <= Len(toks)
  BY <1>1, <1>2 DEF Lesser
<1> HIDE DEF m, n
<1>4. \A i \in m .. n : toks[i] \in S
  BY <1>1, <1>2, <1>3, ElementOfSeq
<1>5. SubSeq(toks, m, n) \in Seq(S)
  BY <1>2, <1>3, <1>4, SubSeqProperties
<1> QED
  BY <1>5 DEF Chunk, m, n

LEMMA SplitSimpleFeed ==
  ASSUME Unified, NEW toks \in Seq(Fed(0))
  PROVE  split_simple(toks) \in Seq(Feed)
<1> DEFINE n == NChunks(NUbatch, Len(toks))
           f == split_simple(toks)
<1>1. n \in Nat /\ Stream = {0}
  BY LenProperties, NChunksFacts, NUbatchAssumption DEF Stream
<1>2. f = [k \in 1 .. n |-> [st \in Stream |-> Chunk(NUbatch, k, toks)]]
  BY DEF split_simple
<1>3. \A k \in 1 .. n : \A st \in Stream : Chunk(NUbatch, k, toks) \in Seq(Fed(st))
  BY <1>1, ChunkOf, NUbatchAssumption
<1> HIDE DEF n, f
<1>4. \A k \in 1 .. n : [st \in Stream |-> Chunk(NUbatch, k, toks)] \in Feed
  <2> TAKE k \in 1 .. n
  <2>1. \A st \in Stream : Chunk(NUbatch, k, toks) \in Feeds
    BY <1>3 DEF Feeds
  <2> QED
    BY <1>3, <2>1 DEF Feed
<1>5. f \in [1 .. n -> Feed]
  BY <1>2, <1>4
<1> QED
  BY <1>1, <1>5, AsSeq DEF f

LEMMA OneStreamFeed ==
  ASSUME NEW s, NEW toks \in Seq(Fed(s))
  PROVE  OneStream(s, toks) \in Seq(Feed)
<1> DEFINE n == NChunks(NUbatch, Len(toks))
           f == OneStream(s, toks)
           e(k, st) == IF st = s THEN Chunk(NUbatch, k, toks) ELSE <<>>
<1>1. n \in Nat
  BY LenProperties, NChunksFacts, NUbatchAssumption
<1>2. f = [k \in 1 .. n |-> [st \in Stream |-> e(k, st)]]
  BY DEF OneStream
<1>3. \A k \in 1 .. n : \A st \in Stream : e(k, st) \in Seq(Fed(st))
  BY <1>1, ChunkOf, NUbatchAssumption, EmptySeq
<1> HIDE DEF n, f, e
<1>4. \A k \in 1 .. n : [st \in Stream |-> e(k, st)] \in Feed
  <2> TAKE k \in 1 .. n
  <2>1. \A st \in Stream : e(k, st) \in Feeds
    BY <1>3 DEF Feeds
  <2> QED
    BY <1>3, <2>1 DEF Feed
<1>5. f \in [1 .. n -> Feed]
  BY <1>2, <1>4
<1> QED
  BY <1>1, <1>5, AsSeq DEF f

LEMMA SplitEqualFeed ==
  ASSUME NEW a, NEW b, NEW toksA \in Seq(Fed(a)), NEW toksB \in Seq(Fed(b))
  PROVE  split_equal(a, toksA, b, toksB) \in Seq(Feed)
<1> DEFINE joint == IF b = a + 1 THEN Lesser(Len(toksA), Len(toksB)) ELSE 0
           q == IF NUbatch \div 2 = 0 THEN 1 ELSE NUbatch \div 2
           n == NChunks(q, joint)
           jA == SubSeq(toksA, 1, joint)
           jB == SubSeq(toksB, 1, joint)
           rA == SubSeq(toksA, joint + 1, Len(toksA))
           rB == SubSeq(toksB, joint + 1, Len(toksB))
           e(k, st) == IF st = a THEN Chunk(q, k, jA) ELSE IF st = b THEN Chunk(q, k, jB) ELSE <<>>
           both == [k \in 1 .. n |-> [st \in Stream |-> e(k, st)]]
           oA == OneStream(a, rA)
           oB == OneStream(b, rB)
<1>1. split_equal(a, toksA, b, toksB) = both \o oA \o oB
  BY DEF split_equal
<1>2. /\ Len(toksA) \in Nat /\ Len(toksB) \in Nat
      /\ joint \in Nat /\ joint <= Len(toksA) /\ (joint = 0 \/ joint <= Len(toksB))
  BY LenProperties DEF Lesser
<1>3. q \in Nat \ {0}
  BY DivFacts, NUbatchAssumption
<1> HIDE DEF joint
<1>4. jA \in Seq(Fed(a)) /\ jB \in Seq(Fed(b)) /\ rA \in Seq(Fed(a)) /\ rB \in Seq(Fed(b))
  <2>1. \A i \in 1 .. Len(toksA) : toksA[i] \in Fed(a)
    BY ElementOfSeq
  <2>2. \A i \in 1 .. Len(toksB) : toksB[i] \in Fed(b)
    BY ElementOfSeq
  <2>3. /\ \A i \in 1 .. joint : toksA[i] \in Fed(a)
        /\ \A i \in 1 .. joint : toksB[i] \in Fed(b)
        /\ \A i \in joint + 1 .. Len(toksA) : toksA[i] \in Fed(a)
        /\ \A i \in joint + 1 .. Len(toksB) : toksB[i] \in Fed(b)
    BY <1>2, <2>1, <2>2
  <2>4. 1 \in Int /\ joint \in Int /\ joint + 1 \in Int /\ Len(toksA) \in Int /\ Len(toksB) \in Int
    BY <1>2
  <2>5. jA \in Seq(Fed(a))
    BY <2>3, <2>4, SubSeqProperties
  <2>6. jB \in Seq(Fed(b))
    BY <2>3, <2>4, SubSeqProperties
  <2>7. rA \in Seq(Fed(a))
    BY <2>3, <2>4, SubSeqProperties
  <2>8. rB \in Seq(Fed(b))
    BY <2>3, <2>4, SubSeqProperties
  <2> QED
    BY <2>5, <2>6, <2>7, <2>8
<1> HIDE DEF q, jA, jB, rA, rB
<1>5. n \in Nat
  BY <1>2, <1>3, NChunksFacts
<1>6. \A k \in 1 .. n : \A st \in Stream : e(k, st) \in Seq(Fed(st))
  <2> HIDE DEF n
  <2> QED
    BY <1>3, <1>4, <1>5, ChunkOf, EmptySeq
<1>7. both \in [1 .. n -> Feed]
  <2> HIDE DEF n, e
  <2>1. \A k \in 1 .. n : [st \in Stream |-> e(k, st)] \in Feed
    <3> TAKE k \in 1 .. n
    <3>1. \A st \in Stream : e(k, st) \in Feeds
      BY <1>6 DEF Feeds
    <3> QED
      BY <1>6, <3>1 DEF Feed
  <2> QED
    BY <2>1
<1>8. both \in Seq(Feed)
  <2> HIDE DEF both, n
  <2> QED
    BY <1>5, <1>7, AsSeq
<1>9. oA \in Seq(Feed) /\ oB \in Seq(Feed)
  BY <1>4, OneStreamFeed
<1> HIDE DEF both, oA, oB
<1>10. both \o oA \in Seq(Feed)
  BY <1>8, <1>9, ConcatProperties
<1>11. both \o oA \o oB \in Seq(Feed)
  BY <1>9, <1>10, ConcatProperties
<1> QED
  BY <1>1, <1>11

(* A run of a valid batch continues all its sequences.                     *)
LEMMA RunOfFed ==
  ASSUME NEW A \in SeqSets, NEW n \in Nat, n >= 1 => Valid(A, n)
  PROVE  RunOf(A, n) \in Seq(Fed(seq_to_stream(Least(A))))
<1> DEFINE st == seq_to_stream(Least(A))
           p == StartPos(A)
           f == RunOf(A, n)
<1>1. f \in Seq(Token) /\ Len(f) = n
  BY RunOfType
<1>2. f = [k \in 1 .. n |-> [pos |-> p + k - 1, seqs |-> A]]
  BY Zenon DEF RunOf
<1>3. A \in SUBSET SeqId /\ A # {} /\ Least(A) \in A
  <2>1. A \in SUBSET SeqId /\ A # {}
    BY Zenon DEF SeqSets
  <2> QED
    BY <2>1, SeqIdFacts
<1>4. ASSUME NEW s \in A
      PROVE  seq_to_stream(s) = st
  <2>1. CASE Unified
    BY <2>1 DEF seq_to_stream
  <2>2. CASE ~Unified
    <3>1. Cardinality(A) <= 1
      BY <2>2, Zenon DEF SeqSets
    <3>2. IsFiniteSet(A)
      <4>1. IsFiniteSet(SeqId)
        BY FS_Interval, NSeqMaxAssumption DEF SeqId
      <4> QED
        BY <1>3, <4>1, FS_Subset
    <3>3. s = Least(A)
      <4> SUFFICES ASSUME s # Least(A)
                   PROVE  FALSE
        OBVIOUS
      <4>1. {s, Least(A)} \subseteq A
        BY <1>3
      <4>2. Cardinality({s, Least(A)}) <= Cardinality(A)
        BY <3>2, <4>1, FS_Subset
      <4>3. Cardinality({s, Least(A)}) = 2
        <5>1. IsFiniteSet({Least(A)}) /\ Cardinality({Least(A)}) = 1
          BY FS_Singleton
        <5>2. Cardinality({Least(A)} \cup {s}) = Cardinality({Least(A)}) + 1
          BY <5>1, FS_AddElement
        <5>3. {Least(A)} \cup {s} = {s, Least(A)}
          OBVIOUS
        <5> QED
          BY <5>1, <5>2, <5>3
      <4>4. Cardinality(A) \in Nat
        BY <3>2, FS_CardinalityType
      <4> QED
        BY <3>1, <4>2, <4>3, <4>4
    <3> QED
      BY <3>3
  <2> QED
    BY <2>1, <2>2
<1>5. ASSUME NEW s \in A, n >= 1
      PROVE  seq_pos_max(v_cells[st], s) = p - 1
  <2>1. seq_pos_max(v_cells[seq_to_stream(s)], s) = seq_pos_max(v_cells[st], Least(A))
    BY <1>3, <1>5, Zenon DEF Valid, Together
  <2>2. seq_to_stream(s) = st
    BY <1>4
  <2> DEFINE m == seq_pos_max(v_cells[st], Least(A))
  <2>3. m \in Int
    BY SeqPosMaxFacts, MaxPosAssumption DEF Pos
  <2>4. p = m + 1
    BY DEF StartPos
  <2>5. seq_pos_max(v_cells[st], s) = m
    BY <2>1, <2>2
  <2> HIDE DEF m, p, st
  <2> QED
    BY <2>3, <2>4, <2>5
<1>6. p \in Nat
  BY StartPosFacts
<1> HIDE DEF p, f, st
<1>7. ASSUME NEW k \in 1 .. n
      PROVE  f[k] \in Fed(st)
  <2>1. f[k] \in Token /\ f[k].seqs = A /\ f[k].pos = p + k - 1
    BY <1>1, <1>2, ElementOfSeq
  <2>2. ASSUME NEW s \in A
        PROVE  seq_to_stream(s) = st /\ seq_pos_max(v_cells[st], s) < p + k - 1
    <3>1. seq_pos_max(v_cells[st], s) = p - 1
      BY <1>5
    <3> QED
      BY <1>4, <1>6, <3>1
  <2> QED
    BY <2>1, <2>2 DEF Fed
<1>8. f \in [1 .. n -> Fed(st)]
  BY <1>2, <1>7
<1> QED
  BY <1>8, AsSeq DEF f, st

LEMMA InitBatchFeed ==
  ASSUME NEW A \in SeqSets, NEW B \in SeqSets, NEW n \in Nat \ {0}, NEW m \in Nat,
         Valid(A, n), m > 0 => Valid(B, m)
  PROVE  init_batch(A, n, B, m) \in Seq(Feed)
<1>1. /\ RunOf(A, n) \in Seq(Fed(seq_to_stream(Least(A))))
      /\ RunOf(B, m) \in Seq(Fed(seq_to_stream(Least(B))))
  BY RunOfFed
<1>2. CASE Unified
  <2>1. seq_to_stream(Least(A)) = 0 /\ seq_to_stream(Least(B)) = 0
    BY <1>2 DEF seq_to_stream
  <2>2. RunOf(A, n) \o RunOf(B, m) \in Seq(Fed(0))
    BY <1>1, <2>1, ConcatProperties
  <2> QED
    BY <1>2, <2>2, SplitSimpleFeed DEF init_batch
<1>3. CASE ~Unified
  <2>1. seq_to_stream(Least(A)) = Least(A) /\ seq_to_stream(Least(B)) = Least(B)
    BY <1>3 DEF seq_to_stream
  <2> QED
    BY <1>1, <1>3, <2>1, SplitEqualFeed DEF init_batch
<1> QED
  BY <1>2, <1>3

(* The tokens of the first micro-batch.                                    *)
Batch(st) == Toks(ubatches[1], st)

(* The split made one micro-batch of the batch.                            *)
Undivided == Len(ubatches) = 1

(* Until they are placed, they come after everything their sequences have. *)
Ahead ==
  phase \in {"update", "prepare", "restore"} /\ Len(sinfos) = 0 =>
    \A st \in Stream : \A tok \in Batch(st) : \A s \in tok.seqs : \A i \in Cell :
      s \in v_cells[st].seq[i] => v_cells[st].pos[i] < tok.pos

Unplaced ==
  Trying /\ Len(sinfos) = 0 =>
    \A st \in Stream : /\ v_cells[st].pos = before.cells[st].pos
                       /\ v_cells[st].seq = before.cells[st].seq

(* They do not attend to what their slot overwrites: what restore will put *)
(* back, ...                                                               *)
SavedUnseen ==
  Len(stack) >= 1 =>
    \A st \in Stream : \A i \in Slots(1, st) : \A s \in stack[1].cells[st][i].seq :
      ~Sees(Batch(st), s, stack[1].cells[st][i].pos)

(* ... or has put back.                                                    *)
SlotsUnseen ==
  phase \in {"restore", "apply"} /\ Len(stack) = 0 /\ Len(sinfos) >= 1 =>
    \A st \in Stream : Unseen(v_cells[st], Slots(1, st), Batch(st))

(* What they attend to stays where it was, in other cells.                 *)
SeenKept ==
  Len(sinfos) >= 1 =>
    \A st \in Stream : \A s \in SeqId : \A q \in PosOf(before.cells[st], s) :
      Sees(Batch(st), s, q) => Holds(v_cells[st], Cell \ Slots(1, st), s, q)

WinInv == Undivided => Ahead /\ Unplaced /\ SavedUnseen /\ SlotsUnseen /\ SeenKept

LEMMA FirstTokens ==
  ASSUME IInv, Len(ubatches) >= 1, NEW st \in Stream
  PROVE  Batch(st) \in SUBSET Token /\ ubatches[1] \in UBatch
<1>1. 1 \in 1 .. Len(ubatches)
  BY LenProperties DEF IInv, CallOK
<1>2. ubatches[1] \in UBatch
  BY <1>1, UbatchFacts
<1>3. ubatches[1][st] \in Seq(Token)
  BY <1>2 DEF UBatch
<1>4. \A k \in DOMAIN ubatches[1][st] : ubatches[1][st][k] \in Token
  BY <1>3, LenProperties, ElementOfSeq
<1> QED
  BY <1>2, <1>4 DEF Batch, Toks

LEMMA QuietWin ==
  ASSUME sinfos' = <<>>, stack' = <<>>, ~Trying', Ahead'
  PROVE  WinInv'
<1>1. Len(sinfos') = 0 /\ Len(stack') = 0 /\ ~(Len(sinfos') >= 1) /\ ~(Len(stack') >= 1)
  OBVIOUS
<1>2. Unplaced' /\ SavedUnseen' /\ SlotsUnseen' /\ SeenKept'
  BY <1>1 DEF Unplaced, SavedUnseen, SlotsUnseen, SeenKept
<1> QED
  BY <1>2 DEF WinInv

LEMMA InitWin == Init => WinInv
<1> SUFFICES ASSUME Init
             PROVE  WinInv
  OBVIOUS
<1>1. Len(ubatches) = 0
  BY DEF Init
<1> QED
  BY <1>1 DEF WinInv, Undivided

LEMMA IdleWin == Idle => WinInv'
<1> SUFFICES ASSUME Idle
             PROVE  WinInv'
  OBVIOUS
<1>1. Len(ubatches') = 0
  BY DEF Idle
<1> QED
  BY <1>1 DEF WinInv, Undivided

LEMMA MemoryOpWin == IInv /\ MemoryOp => WinInv'
<1> SUFFICES ASSUME IInv, MemoryOp
             PROVE  WinInv'
  OBVIOUS
<1>1. phase = "idle" /\ UNCHANGED <<phase, sinfos, stack>>
  BY DEF MemoryOp, clear, SeqRm, SeqRmAny, SeqCpSame, SeqCpCross, SeqKeep, SeqAdd, SeqDiv, callVars
<1>2. sinfos' = <<>> /\ stack' = <<>>
  BY <1>1 DEF IInv, CallOK, StackOK
<1>3. ~Trying' /\ Ahead'
  BY <1>1 DEF Trying, Ahead
<1> QED
  BY <1>2, <1>3, QuietWin

LEMMA BeginWin == IInv /\ TryInv /\ Begin => WinInv'
<1> SUFFICES ASSUME NEW A \in SeqSets, NEW B \in SeqSets,
                    NEW n \in 1 .. MaxBatch, NEW m \in 0 .. MaxBatch,
                    IInv, TryInv, DecodeBegin(A, n, B, m)
             PROVE  WinInv'
  BY DEF Begin
<1>1. /\ phase = "idle" /\ Valid(A, n) /\ (m > 0 => Valid(B, m))
      /\ phase' = "update" /\ ubatches' = init_batch(A, n, B, m)
      /\ UNCHANGED <<v_cells, sinfos, stack, did_optimize>>
  BY DEF DecodeBegin, memVars
<1>2. sinfos' = <<>> /\ stack' = <<>>
  BY <1>1 DEF IInv, CallOK, StackOK
<1>3. ubatches' \in Seq(Feed) /\ Len(ubatches') >= 1
  <2>1. n \in Nat \ {0} /\ m \in Nat
    OBVIOUS
  <2> QED
    BY <1>1, <2>1, InitBatchFeed, InitBatchType
<1>4. ubatches'[1] \in Feed
  <2>1. 1 \in 1 .. Len(ubatches')
    BY <1>3, LenProperties
  <2> QED
    BY <1>3, <2>1, ElementOfSeq
<1>5. Ahead'
  <2> SUFFICES ASSUME NEW st \in Stream, NEW tok \in Toks(ubatches'[1], st), NEW s \in tok.seqs,
                      NEW i \in Cell, s \in v_cells[st].seq[i]
               PROVE  v_cells[st].pos[i] < tok.pos
    BY <1>1 DEF Ahead, Batch, Toks
  <2>1. tok \in Fed(st)
    <3>1. ubatches'[1][st] \in Seq(Fed(st))
      BY <1>4 DEF Feed
    <3>2. \A k \in DOMAIN ubatches'[1][st] : ubatches'[1][st][k] \in Fed(st)
      BY <3>1, LenProperties, ElementOfSeq
    <3> QED
      BY <3>2 DEF Toks
  <2>2. tok \in Token /\ s \in SeqId /\ seq_pos_max(v_cells[st], s) < tok.pos
    BY <2>1 DEF Fed, Token
  <2>3. Sound(v_cells[st])
    BY DEF IInv, CellsOK
  <2>4. v_cells[st].pos[i] <= seq_pos_max(v_cells[st], s)
    BY <2>2, <2>3, SeqPosMaxExact DEF IsMaxOf, Has
  <2>5. v_cells[st].pos[i] \in Int /\ tok.pos \in Int
    BY <2>2, <2>3, MaxPosAssumption DEF Sound, CellsType, Pos, Token, Empty
  <2>6. seq_pos_max(v_cells[st], s) \in Int
    BY SeqPosMaxFacts, MaxPosAssumption DEF Pos
  <2> QED
    BY <2>2, <2>4, <2>5, <2>6
<1>6. ~Trying'
  BY <1>1 DEF Trying, TryInv, FirstTry
<1> QED
  BY <1>2, <1>5, <1>6, QuietWin

(* Nothing that the invariant speaks of changes but the phase.             *)
LEMMA UpdateCopyWin == WinInv /\ UpdateCopy => WinInv'
<1> SUFFICES ASSUME WinInv, UpdateCopy, Undivided
             PROVE  Ahead' /\ Unplaced' /\ SavedUnseen' /\ SlotsUnseen' /\ SeenKept'
  BY DEF WinInv, UpdateCopy, callVars, Undivided
<1>1. UNCHANGED <<v_cells, phase, ubatches, sinfos, stack, did_optimize, before>>
  BY DEF UpdateCopy, callVars
<1> QED
  BY <1>1 DEF WinInv, Ahead, Unplaced, SavedUnseen, SlotsUnseen, SeenKept, Trying, Batch, Toks,
              Slots, Sees, Unseen, Holds, PosOf, is_masked_swa

LEMMA UpdateShiftWin == IInv /\ IInv' /\ WinInv /\ UpdateShift => WinInv'
<1> SUFFICES ASSUME IInv, IInv', WinInv, UpdateShift, Undivided'
             PROVE  Ahead' /\ Unplaced' /\ SavedUnseen' /\ SlotsUnseen' /\ SeenKept'
  BY DEF WinInv
<1>1. /\ phase = "update" /\ phase' = "prepare"
      /\ before' = IF did_optimize THEN before ELSE [cells |-> v_cells', heads |-> v_heads]
      /\ UNCHANGED <<v_heads, ubatches, sinfos, stack, i_cur, did_optimize>>
      /\ Len(stack') = 0 /\ Len(sinfos') = 0
      /\ \A st \in Stream : v_cells'[st].pos = v_cells[st].pos /\ v_cells'[st].seq = v_cells[st].seq
  BY UpdateShiftCells
<1>2. Ahead /\ Unplaced /\ Len(sinfos) = 0
  BY <1>1 DEF WinInv, Undivided
<1>3. Ahead'
  BY <1>1, <1>2 DEF Ahead, Batch, Toks
<1>4. Unplaced'
  <2>1. CASE did_optimize
    BY <1>1, <1>2, <2>1 DEF Unplaced, Trying
  <2>2. CASE ~did_optimize
    <3>1. before'.cells = v_cells'
      BY <1>1, <2>2
    <3> QED
      BY <3>1 DEF Unplaced
  <2> QED
    BY <2>1, <2>2
<1>5. SavedUnseen' /\ SlotsUnseen' /\ SeenKept'
  BY <1>1 DEF SavedUnseen, SlotsUnseen, SeenKept
<1> QED
  BY <1>3, <1>4, <1>5

(* Placing the one micro-batch, tentatively or for good.                   *)
LEMMA PlacedKeeps ==
  ASSUME IInv, Len(ubatches) >= 1, NEW sinfo, Places(sinfo, ubatches[1]),
         Apply(sinfo, ubatches[1]), NEW st \in Stream,
         Unseen(v_cells[st], DOMAIN sinfo[st], Batch(st)),
         NEW s \in SeqId, NEW q \in Pos, Sees(Batch(st), s, q), Holds(v_cells[st], Cell, s, q)
  PROVE  Holds(v_cells'[st], Cell \ DOMAIN sinfo[st], s, q)
<1>1. v_cells'[st] = apply_ubatch(v_cells[st], sinfo[st], ubatches[1][st])
  BY DEF Apply
<1>2. Sound(v_cells[st])
  BY DEF IInv, CellsOK
<1>3. Batch(st) \in SUBSET Token /\ ubatches[1] \in UBatch
  BY FirstTokens
<1>4. /\ DOMAIN sinfo[st] \in SUBSET Cell
      /\ \A i \in DOMAIN sinfo[st] : ubatches[1][st][sinfo[st][i]] \in Token
  <2>1. ubatches[1][st] \in Seq(Token)
    BY <1>3 DEF UBatch
  <2>2. \A k \in 1 .. Len(ubatches[1][st]) : ubatches[1][st][k] \in Token
    BY <2>1, ElementOfSeq
  <2> QED
    BY <2>2 DEF Places
<1> DEFINE c == v_cells[st]
           slot == sinfo[st]
           toks == ubatches[1][st]
           T == Batch(st)
<1>5. Sound(c) /\ T \in SUBSET Token /\ DOMAIN slot \in SUBSET Cell
      /\ (\A i \in DOMAIN slot : toks[slot[i]] \in Token) /\ Unseen(c, DOMAIN slot, T)
      /\ Sees(T, s, q) /\ Holds(c, Cell, s, q)
  BY <1>2, <1>3, <1>4
<1>6. v_cells'[st] = apply_ubatch(c, slot, toks)
  BY <1>1
<1> HIDE DEF c, slot, toks, T
<1>7. Holds(apply_ubatch(c, slot, toks), Cell \ DOMAIN slot, s, q)
  BY <1>5, ApplyKeeps
<1> QED
  BY <1>6, <1>7 DEF slot

LEMMA PrepareSlotWin == IInv /\ TryInv /\ WinInv /\ PrepareSlot => WinInv'
<1> SUFFICES ASSUME IInv, TryInv, WinInv, PrepareSlot, Undivided'
             PROVE  Ahead' /\ Unplaced' /\ SavedUnseen' /\ SlotsUnseen' /\ SeenKept'
  BY DEF WinInv
<1>0. PICK n, sinfo : n = Len(sinfos) /\ sinfo = SlotsFor(ubatches[n + 1])
  OBVIOUS
<1>1. /\ n \in Nat /\ n + 1 \in 1 .. Len(ubatches) /\ Len(stack) = n
      /\ phase = "prepare" /\ UNCHANGED <<phase, ubatches, i_cur, did_optimize, before>>
      /\ ubatches[n + 1] \in UBatch /\ Places(sinfo, ubatches[n + 1])
      /\ Apply(sinfo, ubatches[n + 1])
      /\ \A st \in Stream : Cardinality(DOMAIN sinfo[st]) = Len(ubatches[n + 1][st])
      /\ Len(sinfos') = n + 1 /\ Len(stack') = n + 1
      /\ \A k \in 1 .. n : stack'[k] = stack[k] /\ sinfos'[k] = sinfos[k]
      /\ sinfos'[n + 1] = sinfo
      /\ stack'[n + 1].heads = v_heads
      /\ \A st \in Stream : stack'[n + 1].cells[st] = cp(v_cells[st], DOMAIN sinfo[st])
  BY <1>0, PrepareSlotFacts DEF TryInv
<1>2. n = 0 /\ Undivided
  <2>1. Len(ubatches) = 1
    BY <1>1 DEF Undivided
  <2>2. n \in Nat /\ n + 1 \in 1 .. 1
    BY <1>1, <2>1
  <2> QED
    BY <2>1, <2>2 DEF Undivided
<1>3. /\ Places(sinfo, ubatches[1]) /\ Apply(sinfo, ubatches[1]) /\ Len(ubatches) = 1
      /\ Len(sinfos') = 1 /\ Len(stack') = 1 /\ sinfos'[1] = sinfo
      /\ sinfo = SlotsFor(ubatches[1])
      /\ \A st \in Stream : stack'[1].cells[st] = cp(v_cells[st], DOMAIN sinfo[st])
  BY <1>0, <1>1, <1>2 DEF Undivided
<1>4. \A st : Slots(1, st)' = DOMAIN sinfo[st] /\ Batch(st)' = Batch(st)
  BY <1>1, <1>3 DEF Slots, Batch, Toks
<1>5. Ahead /\ Unplaced /\ Len(sinfos) = 0
  BY <1>0, <1>2 DEF WinInv
<1>6. ASSUME NEW st \in Stream
      PROVE  Unseen(v_cells[st], DOMAIN sinfo[st], Batch(st))
  <2>1. Sound(v_cells[st]) /\ Batch(st) \in SUBSET Token
    BY <1>3, FirstTokens DEF IInv, CellsOK
  <2>2. \A tok \in Batch(st) : \A s \in tok.seqs : \A i \in Cell :
          s \in v_cells[st].seq[i] => v_cells[st].pos[i] < tok.pos
    BY <1>1, <1>5 DEF Ahead
  <2>3. Unseen(v_cells[st], Usable(v_cells[st]), Batch(st))
    <3> DEFINE c == v_cells[st]
               T == Batch(st)
    <3>1. /\ Sound(c) /\ T \in SUBSET Token
          /\ \A tok \in T : \A s \in tok.seqs : \A i \in Cell : s \in c.seq[i] => c.pos[i] < tok.pos
      BY <2>1, <2>2
    <3> HIDE DEF c, T
    <3>2. Unseen(c, Usable(c), T)
      BY <3>1, UsableUnseen
    <3> QED
      BY <3>2 DEF c, T
  <2>4. DOMAIN sinfo[st] \in SUBSET Usable(v_cells[st])
    <3>1. 1 \in 1 .. Len(ubatches)
      BY <1>3
    <3> QED
      BY <1>3, <3>1, FoundFacts
  <2> QED
    BY <2>3, <2>4 DEF Unseen
<1>7. SeenKept'
  <2> SUFFICES ASSUME NEW st \in Stream, NEW s \in SeqId, NEW q \in PosOf(before.cells[st], s),
                      Sees(Batch(st), s, q)
               PROVE  Holds(v_cells'[st], Cell \ DOMAIN sinfo[st], s, q)
    <3>1. \A st \in Stream : \A s \in SeqId : \A q \in PosOf(before.cells[st], s) :
            Sees(Batch(st), s, q) => Holds(v_cells'[st], Cell \ DOMAIN sinfo[st], s, q)
      OBVIOUS
    <3>2. before' = before
      BY <1>1
    <3> QED
      BY <1>4, <3>1, <3>2 DEF SeenKept, Holds, PosOf, Sees, is_masked_swa
  <2>1. Sound(before.cells[st])
    BY <1>1 DEF TryInv, Untouched, Trying
  <2>2. q \in Pos
    BY DEF PosOf
  <2>3. Holds(before.cells[st], Cell, s, q)
    BY <2>1, <2>2, PosOfHolds
  <2>4. Holds(v_cells[st], Cell, s, q)
    BY <1>1, <1>5, <2>3 DEF Unplaced, Trying, Holds
  <2>5. Len(ubatches) >= 1
    BY <1>3
  <2> QED
    BY <1>3, <1>6, <2>2, <2>4, <2>5, PlacedKeeps
<1>8. SavedUnseen'
  <2> SUFFICES ASSUME NEW st \in Stream, NEW i \in DOMAIN sinfo[st],
                      NEW s \in stack'[1].cells[st][i].seq
               PROVE  ~Sees(Batch(st), s, stack'[1].cells[st][i].pos)
    BY <1>4 DEF SavedUnseen, Sees, is_masked_swa
  <2>1. stack'[1].cells[st][i].seq = v_cells[st].seq[i] /\ stack'[1].cells[st][i].pos = v_cells[st].pos[i]
    <3>1. stack'[1].cells[st] = cp(v_cells[st], DOMAIN sinfo[st])
      BY <1>3
    <3>2. stack'[1].cells[st][i] = [pos |-> v_cells[st].pos[i], seq |-> v_cells[st].seq[i]]
      BY <3>1 DEF cp
    <3> QED
      BY <3>2
  <2> QED
    BY <1>6, <2>1 DEF Unseen
<1>9. Ahead' /\ Unplaced' /\ SlotsUnseen'
  BY <1>3 DEF Ahead, Unplaced, SlotsUnseen
<1> QED
  BY <1>7, <1>8, <1>9

LEMMA PrepareEndWin == IInv /\ TryInv /\ WinInv /\ PrepareEnd => WinInv'
<1> SUFFICES ASSUME IInv, TryInv, WinInv, PrepareEnd, Undivided'
             PROVE  Ahead' /\ Unplaced' /\ SavedUnseen' /\ SlotsUnseen' /\ SeenKept'
  BY DEF WinInv
<1>1. /\ phase = "prepare" /\ phase' = "restore"
      /\ UNCHANGED <<v_cells, ubatches, sinfos, stack, did_optimize, before>>
  BY DEF PrepareEnd, memVars
<1>2. Ahead /\ Unplaced /\ SavedUnseen /\ SeenKept
  BY <1>1 DEF WinInv, Undivided
<1>3. Len(stack) = Len(sinfos) /\ Len(sinfos) \in Nat
  BY <1>1, LenProperties DEF TryInv, Stacked, IInv, CallOK
<1>4. SlotsUnseen'
  BY <1>1, <1>3 DEF SlotsUnseen
<1>5. Ahead' /\ Unplaced'
  BY <1>1, <1>2 DEF Ahead, Unplaced, Trying, Batch, Toks
<1>6. SavedUnseen' /\ SeenKept'
  BY <1>1, <1>2 DEF SavedUnseen, SeenKept, Batch, Toks, Slots, Sees, Holds, PosOf, is_masked_swa
<1> QED
  BY <1>4, <1>5, <1>6

LEMMA RestoreSlotWin == IInv /\ TryInv /\ WinInv /\ RestoreSlot => WinInv'
<1> SUFFICES ASSUME IInv, TryInv, WinInv, RestoreSlot, Undivided'
             PROVE  Ahead' /\ Unplaced' /\ SavedUnseen' /\ SlotsUnseen' /\ SeenKept'
  BY DEF WinInv
<1>0. PICK n : n = Len(stack)
  OBVIOUS
<1>1. /\ n \in Nat \ {0} /\ Len(sinfos) \in Nat /\ n <= Len(sinfos) /\ phase = "restore"
      /\ UNCHANGED <<phase, ubatches, sinfos, i_cur, did_optimize, before>>
      /\ Len(stack') = n - 1
      /\ \A st \in Stream : \A i \in Cell :
           /\ v_cells'[st].pos[i] = IF i \in Slots(n, st) THEN stack[n].cells[st][i].pos
                                                          ELSE v_cells[st].pos[i]
           /\ v_cells'[st].seq[i] = IF i \in Slots(n, st) THEN stack[n].cells[st][i].seq
                                                          ELSE v_cells[st].seq[i]
  BY <1>0, RestoreSlotFacts DEF TryInv
<1>2. Len(ubatches) = 1 /\ Len(sinfos) <= Len(ubatches)
  BY <1>1 DEF Undivided, IInv, CallOK
<1>3. /\ n = 1 /\ Len(sinfos) = 1 /\ Len(stack) = 1 /\ Len(stack') = 0
      /\ Len(sinfos) >= 1 /\ Len(stack) >= 1
  <2>1. Len(sinfos) <= 1
    BY <1>2
  <2>2. n = 1
    BY <1>1, <2>1
  <2>3. Len(sinfos) = 1
    <3> DEFINE l == Len(sinfos)
    <3>1. n <= l /\ l \in Nat /\ l <= 1
      BY <1>1, <2>1
    <3> HIDE DEF l
    <3>2. l = 1
      BY <2>2, <3>1
    <3> QED
      BY <3>2 DEF l
  <2> QED
    BY <1>0, <1>1, <2>2, <2>3
<1>4. SavedUnseen /\ SeenKept
  BY <1>2 DEF WinInv, Undivided
<1>5. \A st : Slots(1, st)' = Slots(1, st) /\ Batch(st)' = Batch(st)
  BY <1>1 DEF Slots, Batch, Toks
<1>6. \A st \in Stream : Slots(1, st) \in SUBSET Cell
  <2>1. 1 \in 1 .. Len(sinfos)
    BY <1>3
  <2> QED
    BY <2>1, SlotCells
<1>7. \A st \in Stream : \A i \in Cell :
        /\ v_cells'[st].pos[i] = IF i \in Slots(1, st) THEN stack[1].cells[st][i].pos
                                                       ELSE v_cells[st].pos[i]
        /\ v_cells'[st].seq[i] = IF i \in Slots(1, st) THEN stack[1].cells[st][i].seq
                                                       ELSE v_cells[st].seq[i]
  BY <1>1, <1>3
<1>8. SlotsUnseen'
  <2> SUFFICES ASSUME NEW st \in Stream, NEW i \in Slots(1, st), NEW s \in v_cells'[st].seq[i]
               PROVE  ~Sees(Batch(st), s, v_cells'[st].pos[i])
    BY <1>5 DEF SlotsUnseen, Unseen, Sees, is_masked_swa
  <2>1. /\ v_cells'[st].pos[i] = stack[1].cells[st][i].pos
        /\ v_cells'[st].seq[i] = stack[1].cells[st][i].seq
    BY <1>6, <1>7
  <2> QED
    BY <1>3, <1>4, <2>1 DEF SavedUnseen
<1>9. SeenKept'
  <2> SUFFICES ASSUME NEW st \in Stream, NEW s \in SeqId, NEW q \in PosOf(before.cells[st], s),
                      Sees(Batch(st), s, q)
               PROVE  Holds(v_cells'[st], Cell \ Slots(1, st), s, q)
    <3>1. \A st \in Stream : \A s \in SeqId : \A q \in PosOf(before.cells[st], s) :
            Sees(Batch(st), s, q) => Holds(v_cells'[st], Cell \ Slots(1, st), s, q)
      OBVIOUS
    <3>2. before' = before
      BY <1>1
    <3> QED
      BY <1>5, <3>1, <3>2 DEF SeenKept, Holds, PosOf, Sees, is_masked_swa
  <2>1. Holds(v_cells[st], Cell \ Slots(1, st), s, q)
    BY <1>3, <1>4 DEF SeenKept
  <2> QED
    BY <1>7, <2>1 DEF Holds
<1>10. Ahead' /\ Unplaced' /\ SavedUnseen'
  BY <1>1, <1>3 DEF Ahead, Unplaced, SavedUnseen
<1> QED
  BY <1>8, <1>9, <1>10

LEMMA PreparedWin == IInv /\ WinInv /\ Prepared => WinInv'
<1> SUFFICES ASSUME IInv, WinInv, Prepared, Undivided'
             PROVE  Ahead' /\ Unplaced' /\ SavedUnseen' /\ SlotsUnseen' /\ SeenKept'
  BY DEF WinInv
<1>1. /\ phase = "restore" /\ phase' = "apply" /\ stack = <<>>
      /\ UNCHANGED <<v_cells, ubatches, sinfos, stack, did_optimize, before>>
  BY DEF Prepared, memVars
<1>2. SavedUnseen /\ SlotsUnseen /\ SeenKept
  BY <1>1 DEF WinInv, Undivided
<1>3. Ahead' /\ Unplaced'
  BY <1>1 DEF Ahead, Unplaced, Trying
<1>4. SavedUnseen' /\ SlotsUnseen' /\ SeenKept'
  BY <1>1, <1>2 DEF SavedUnseen, SlotsUnseen, SeenKept, Batch, Toks, Slots, Sees, Unseen, Holds,
                    PosOf, is_masked_swa
<1> QED
  BY <1>3, <1>4

(* The one micro-batch found no slot: nothing was placed.                  *)
LEMMA RetryWin == IInv /\ WinInv /\ Retry => WinInv'
<1> SUFFICES ASSUME IInv, WinInv, Retry, Undivided'
             PROVE  Ahead' /\ Unplaced' /\ SavedUnseen' /\ SlotsUnseen' /\ SeenKept'
  BY DEF WinInv
<1>1. /\ phase = "restore" /\ phase' = "update" /\ stack = <<>> /\ sinfos' = <<>>
      /\ Len(sinfos) < Len(ubatches)
      /\ UNCHANGED <<v_cells, ubatches, stack, before>>
  BY DEF Retry, memVars
<1>2. Len(sinfos) = 0 /\ Ahead /\ Unplaced
  BY <1>1, LenProperties DEF WinInv, Undivided, IInv, CallOK
<1>3. Len(sinfos') = 0 /\ Len(stack') = 0
  BY <1>1
<1>4. Ahead' /\ Unplaced'
  BY <1>1, <1>2 DEF Ahead, Unplaced, Trying, Batch, Toks
<1>5. SavedUnseen' /\ SlotsUnseen' /\ SeenKept'
  BY <1>3 DEF SavedUnseen, SlotsUnseen, SeenKept
<1> QED
  BY <1>4, <1>5

LEMMA ApplyUbatchWin == IInv /\ WinInv /\ ApplyUbatch => WinInv'
<1> SUFFICES ASSUME IInv, WinInv, ApplyUbatch, Undivided'
             PROVE  Ahead' /\ Unplaced' /\ SavedUnseen' /\ SlotsUnseen' /\ SeenKept'
  BY DEF WinInv
<1>1. /\ phase = "apply" /\ phase' = "compute"
      /\ Apply(sinfos[i_cur], ubatches[i_cur])
      /\ UNCHANGED <<ubatches, sinfos, stack, did_optimize, before>>
  BY DEF ApplyUbatch
<1>2. /\ Len(ubatches) = 1 /\ Len(sinfos) = 1 /\ i_cur = 1 /\ stack = <<>> /\ Len(stack) = 0
      /\ Len(sinfos) >= 1
  <2>1. Len(ubatches) = 1 /\ i_cur \in 1 .. Len(ubatches) /\ Len(sinfos) = Len(ubatches)
    BY <1>1 DEF Undivided, IInv, CallOK
  <2>2. stack = <<>>
    BY <1>1 DEF IInv, StackOK
  <2>3. i_cur \in 1 .. 1
    BY <2>1
  <2> QED
    BY <2>1, <2>2, <2>3
<1>3. SlotsUnseen /\ SeenKept
  BY <1>2 DEF WinInv, Undivided
<1>4. Places(sinfos[1], ubatches[1]) /\ Apply(sinfos[1], ubatches[1])
  <2>1. Places(sinfos[i_cur], ubatches[i_cur])
    BY <1>1, CurrentSlot
  <2> QED
    BY <1>1, <1>2, <2>1
<1>5. \A st : Slots(1, st)' = Slots(1, st) /\ Batch(st)' = Batch(st) /\ Slots(1, st) = DOMAIN sinfos[1][st]
  BY <1>1 DEF Slots, Batch, Toks
<1>6. SeenKept'
  <2> SUFFICES ASSUME NEW st \in Stream, NEW s \in SeqId, NEW q \in PosOf(before.cells[st], s),
                      Sees(Batch(st), s, q)
               PROVE  Holds(v_cells'[st], Cell \ Slots(1, st), s, q)
    <3>1. \A st \in Stream : \A s \in SeqId : \A q \in PosOf(before.cells[st], s) :
            Sees(Batch(st), s, q) => Holds(v_cells'[st], Cell \ Slots(1, st), s, q)
      OBVIOUS
    <3>2. before' = before
      BY <1>1
    <3> QED
      BY <1>5, <3>1, <3>2 DEF SeenKept, Holds, PosOf, Sees, is_masked_swa
  <2>1. Holds(v_cells[st], Cell \ Slots(1, st), s, q)
    BY <1>2, <1>3 DEF SeenKept
  <2>2. Holds(v_cells[st], Cell, s, q)
    BY <2>1 DEF Holds
  <2>3. Unseen(v_cells[st], DOMAIN sinfos[1][st], Batch(st))
    BY <1>1, <1>2, <1>3, <1>5 DEF SlotsUnseen
  <2>4. q \in Pos /\ Len(ubatches) >= 1
    BY <1>2 DEF PosOf
  <2>5. Holds(v_cells'[st], Cell \ DOMAIN sinfos[1][st], s, q)
    BY <1>4, <2>2, <2>3, <2>4, PlacedKeeps
  <2> QED
    BY <1>5, <2>5
<1>7. Ahead' /\ Unplaced' /\ SavedUnseen' /\ SlotsUnseen'
  BY <1>1, <1>2 DEF Ahead, Unplaced, SavedUnseen, SlotsUnseen, Trying
<1> QED
  BY <1>6, <1>7

LEMMA ComputeOkWin == IInv /\ WinInv /\ ComputeOk => WinInv'
<1> SUFFICES ASSUME IInv, ComputeOk, ~Idle
             PROVE  WinInv'
  BY IdleWin
<1>1. phase = "compute" /\ i_cur < Len(ubatches) /\ ubatches' = ubatches
  BY DEF ComputeOk
<1>2. i_cur \in 1 .. Len(ubatches)
  BY <1>1 DEF IInv, CallOK
<1>3. Len(ubatches') # 1
  <2> SUFFICES ASSUME Len(ubatches) = 1
               PROVE  FALSE
    BY <1>1
  <2>1. i_cur \in 1 .. 1 /\ i_cur < 1
    BY <1>1, <1>2
  <2> QED
    BY <2>1
<1> QED
  BY <1>3 DEF WinInv, Undivided

LEMMA StutterWin == WinInv /\ UNCHANGED vars => WinInv'
<1> SUFFICES ASSUME WinInv, UNCHANGED vars, Undivided
             PROVE  Ahead' /\ Unplaced' /\ SavedUnseen' /\ SlotsUnseen' /\ SeenKept'
  BY DEF WinInv, vars, callVars, Undivided
<1>1. UNCHANGED <<v_cells, phase, ubatches, sinfos, stack, did_optimize, before>>
  BY DEF vars, memVars, callVars
<1> QED
  BY <1>1 DEF WinInv, Ahead, Unplaced, SavedUnseen, SlotsUnseen, SeenKept, Trying, Batch, Toks,
              Slots, Sees, Unseen, Holds, PosOf, is_masked_swa

LEMMA NextWin == IInv /\ IInv' /\ TryInv /\ WinInv /\ [Next]_vars => WinInv'
<1>1. ReturnNoSlot \/ ComputeFail => WinInv'
  BY IdleWin DEF ReturnNoSlot, ComputeFail
<1> QED
  BY <1>1, MemoryOpWin, BeginWin, UpdateCopyWin, UpdateShiftWin, PrepareSlotWin, PrepareEndWin,
     RestoreSlotWin, PreparedWin, RetryWin, ApplyUbatchWin, ComputeOkWin, StutterWin
     DEF Next, DecodeStep

(* The invariant of a decode with a window whose tokens are one            *)
(* micro-batch: from the batch, which comes after what its sequences hold, *)
(* over the tried and the restored slot to the applied one, the cells that *)
(* prepare() and apply_ubatch() reuse or purge are out of the window.      *)
THEOREM WindowInvariance == Spec => []WinInv
<1>1. Init => WinInv
  BY InitWin
<1>2. IInv /\ IInv' /\ TryInv /\ WinInv /\ [Next]_vars => WinInv'
  BY NextWin
<1> QED
  BY Invariance, TryInvariance, <1>1, <1>2, PTL DEF Spec

(* A decode whose tokens are one micro-batch finds, when it is computed,   *)
(* every position that its tokens attend to and that was there when the    *)
(* decode started: neither the slot search, which reuses masked cells, nor *)
(* the purge of apply_ubatch() loses one, also when a placement was tried  *)
(* before.                                                                 *)
THEOREM WindowStays == Spec => [](Undivided => WindowKept)
<1>1. IInv /\ WinInv => (Undivided => WindowKept)
  <2> SUFFICES ASSUME IInv, WinInv, Undivided, phase = "compute",
                      NEW st \in Stream, NEW tok \in Toks(ubatches[i_cur], st),
                      NEW s \in tok.seqs, NEW q \in PosOf(before.cells[st], s),
                      ~is_masked_swa(q, tok.pos)
               PROVE  q \in PosOf(v_cells[st], s)
    BY DEF WindowKept
  <2>1. i_cur = 1 /\ Len(sinfos) >= 1 /\ Len(ubatches) >= 1
    <3>1. Len(ubatches) = 1 /\ i_cur \in 1 .. Len(ubatches) /\ Len(sinfos) = Len(ubatches)
      BY DEF Undivided, IInv, CallOK
    <3>2. i_cur \in 1 .. 1
      BY <3>1
    <3> QED
      BY <3>1, <3>2
  <2>2. tok \in Batch(st) /\ Batch(st) \in SUBSET Token
    BY <2>1, FirstTokens DEF Batch
  <2>3. s \in SeqId /\ q \in Pos
    BY <2>2 DEF Token, PosOf
  <2>4. Sees(Batch(st), s, q)
    BY <2>2 DEF Sees
  <2>5. Holds(v_cells[st], Cell \ Slots(1, st), s, q)
    BY <2>1, <2>3, <2>4 DEF WinInv, SeenKept
  <2>6. Holds(v_cells[st], Cell, s, q) /\ Sound(v_cells[st])
    BY <2>5 DEF Holds, IInv, CellsOK
  <2> QED
    BY <2>3, <2>6, PosOfHolds
<1> QED
  BY <1>1, Invariance, WindowInvariance, PTL
=============================================================================
