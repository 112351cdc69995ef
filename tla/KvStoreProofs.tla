--------------------------- MODULE KvStoreProofs ---------------------------
(***************************************************************************)
(* The KV cache implements the store of sequences (module SeqStore), for   *)
(* every number of cells, sequences, streams and micro-batches: the cells  *)
(* that a running decode has not placed itself count the positions of each *)
(* sequence, a memory operation changes these counts as documented, and a  *)
(* decode changes them only when a graph succeeds, by the positions that   *)
(* follow the last one.  That no sequence has holes (NoHoles) follows.     *)
(* At the end: the deferred work completes the metadata (RowsMatch); once  *)
(* the queued stream copies are done, the K row of every cell, with the    *)
(* shift that is pending on it, is rotated to the cell's position.         *)
(* Section 5 of the README says why the theorems have their hypotheses.    *)
(***************************************************************************)
EXTENDS KvCacheProofs

-----------------------------------------------------------------------------
(* The cells that count.                                                   *)

(* A cell that is occupied, and not by the running decode.                 *)
Shows(st, i) == i \notin Tentative(st) /\ v_cells[st].pos[i] # Empty

(* The cells that hold position p of sequence s.                           *)
Kept(s, p) ==
  LET st == seq_to_stream(s)
  IN  CellsAt(v_cells[st].pos, v_cells[st].seq, s, p) \ Tentative(st)

LEMMA KeptFacts ==
  ASSUME NEW s \in SeqId, NEW p \in Pos
  PROVE  /\ Kept(s, p) \in SUBSET Cell /\ Committed[s][p] = Cardinality(Kept(s, p))
         /\ Committed[s][p] \in Nat
<1>1. Kept(s, p) \in SUBSET Cell
  BY DEF Kept, CellsAt
<1>2. Committed[s][p] = Cardinality(Kept(s, p))
  BY DEF Committed, Kept
<1> QED
  BY <1>1, <1>2, CellFinite

LEMMA CommittedType ==
  Committed = [s \in SeqId |-> [p \in Pos |-> Committed[s][p]]]
BY DEF Committed

(* What leaves the cells that show as they are cannot be noticed.          *)
Same ==
  \A st \in Stream : \A i \in Cell :
    /\ Shows(st, i)' = Shows(st, i)
    /\ Shows(st, i) => /\ v_cells'[st].pos[i] = v_cells[st].pos[i]
                       /\ v_cells'[st].seq[i] = v_cells[st].seq[i]

LEMMA SameCommitted ==
  ASSUME Same
  PROVE  Committed' = Committed
<1>1. ASSUME NEW s \in SeqId, NEW p \in Pos
      PROVE  Kept(s, p)' = Kept(s, p)
  <2> DEFINE st == seq_to_stream(s)
  <2>1. st \in Stream
    BY StreamFacts
  <2>2. p # Empty
    BY PosFacts
  <2>3. \A i \in Cell : i \in Kept(s, p) <=> Shows(st, i) /\ s \in v_cells[st].seq[i] /\ v_cells[st].pos[i] = p
    BY <2>2 DEF Kept, CellsAt, Shows
  <2>4. \A i \in Cell : i \in Kept(s, p)' <=> Shows(st, i)' /\ s \in v_cells'[st].seq[i] /\ v_cells'[st].pos[i] = p
    BY <2>2 DEF Kept, CellsAt, Shows, seq_to_stream
  <2>5. Kept(s, p) \subseteq Cell /\ Kept(s, p)' \subseteq Cell
    BY DEF Kept, CellsAt
  <2> HIDE DEF st
  <2> QED
    BY <2>1, <2>3, <2>4, <2>5 DEF Same
<1> QED
  BY <1>1 DEF Committed, Kept, seq_to_stream

(* Between decodes every occupied cell counts, and seq_pos counts them.    *)
Counts ==
  /\ \A st \in Stream : Tentative(st) = {}
  /\ \A s \in SeqId : \A p \in Pos : Committed[s][p] = v_cells[seq_to_stream(s)].seq_pos[s][p]

LEMMA NoneTentative ==
  ASSUME stack = <<>>, phase # "compute", NEW st
  PROVE  Tentative(st) = {}
BY DEF Tentative

Between == IInv /\ phase = "idle"

LEMMA IdleCounts == Between => Counts
<1> SUFFICES ASSUME IInv, phase = "idle" PROVE Counts
  BY DEF Between
<1>1. \A st \in Stream : Tentative(st) = {}
  <2>1. stack = <<>>
    BY DEF IInv, StackOK
  <2> QED
    BY <2>1, NoneTentative
<1>2. ASSUME NEW s \in SeqId, NEW p \in Pos
      PROVE  Committed[s][p] = v_cells[seq_to_stream(s)].seq_pos[s][p]
  <2> DEFINE st == seq_to_stream(s)
  <2>1. st \in Stream
    BY StreamFacts
  <2>2. Kept(s, p) = CellsAt(v_cells[st].pos, v_cells[st].seq, s, p)
    BY <1>1, <2>1 DEF Kept
  <2>3. Consistent(v_cells[st])
    BY <2>1 DEF IInv, CellsOK, Sound
  <2>4. v_cells[st].seq_pos[s][p] = Cardinality(CellsAt(v_cells[st].pos, v_cells[st].seq, s, p))
    BY <2>3 DEF Consistent
  <2> QED
    BY <2>2, <2>4, KeptFacts
<1> QED
  BY <1>1, <1>2 DEF Counts

LEMMA IdleCountsNext == Between' => Counts'
BY IdleCounts, PTL

(* What an operation does to the counts of the cells it works on.          *)
LEMMA CountsStep ==
  ASSUME IInv, IInv', phase = "idle", UNCHANGED callVars
  PROVE  /\ \A s \in SeqId : \A p \in Pos :
              /\ Committed[s][p] = v_cells[seq_to_stream(s)].seq_pos[s][p]
              /\ Committed'[s][p] = v_cells'[seq_to_stream(s)].seq_pos[s][p]
         /\ Committed' = [s \in SeqId |-> [p \in Pos |-> Committed'[s][p]]]
<1>1. phase' = "idle"
  BY DEF callVars
<1>2. Counts /\ Counts'
  BY <1>1, IdleCounts, IdleCountsNext DEF Between
<1>3. \A s \in SeqId : \A p \in Pos : Committed'[s][p] = v_cells'[seq_to_stream(s)].seq_pos[s][p]
  BY <1>2 DEF Counts, seq_to_stream
<1>4. Committed' = [s \in SeqId |-> [p \in Pos |-> Committed'[s][p]]]
  BY DEF Committed
<1> QED
  BY <1>2, <1>3, <1>4 DEF Counts

LEMMA CommittedIs ==
  ASSUME NEW F, F = [s \in SeqId |-> [p \in Pos |-> F[s][p]]],
         \A s \in SeqId : \A p \in Pos : Committed'[s][p] = F[s][p]
  PROVE  Committed' = F
<1>1. Committed' = [s \in SeqId |-> [p \in Pos |-> Committed'[s][p]]]
  BY DEF Committed
<1> QED
  BY <1>1, Zenon

(* One sequence changes.                                                   *)
LEMMA OneChanges ==
  ASSUME NEW s \in SeqId, NEW g, g = [p \in Pos |-> g[p]],
         \A p \in Pos : Committed'[s][p] = g[p],
         \A t \in SeqId \ {s} : \A p \in Pos : Committed'[t][p] = Committed[t][p]
  PROVE  Committed' = [Committed EXCEPT ![s] = g]
<1> DEFINE F == [t \in SeqId |-> IF t = s THEN g ELSE Committed[t]]
<1>1. Committed = [t \in SeqId |-> Committed[t]] /\ \A t \in SeqId : Committed[t] = [p \in Pos |-> Committed[t][p]]
  BY DEF Committed
<1>2. [Committed EXCEPT ![s] = g] = F
  BY <1>1
<1>3. \A t \in SeqId : F[t] = [p \in Pos |-> F[t][p]]
  BY <1>1
<1>4. \A t \in SeqId : \A p \in Pos : Committed'[t][p] = F[t][p]
  OBVIOUS
<1>5. F = [t \in SeqId |-> F[t]]
  OBVIOUS
<1> HIDE DEF F
<1>6. F = [t \in SeqId |-> [p \in Pos |-> F[t][p]]]
  BY <1>3, <1>5
<1> QED
  BY <1>2, <1>4, <1>6, CommittedIs

LEMMA CellsOfStream ==
  ASSUME IInv, NEW st \in Stream
  PROVE  /\ Sound(v_cells[st]) /\ v_cells[st] \in CellsType
         /\ \A i \in Cell : v_cells[st].pos[i] \in Pos \cup {Empty}
         /\ \A i \in Cell : v_cells[st].seq[i] \in SUBSET SeqId
         /\ \A i \in Cell : v_cells[st].pos[i] = Empty <=> v_cells[st].seq[i] = {}
         /\ \A s \in SeqId : \A p \in Pos :
              v_cells[st].seq_pos[s][p] = Cardinality(CellsAt(v_cells[st].pos, v_cells[st].seq, s, p))
<1>1. Sound(v_cells[st])
  BY DEF IInv, CellsOK
<1> QED
  BY <1>1 DEF Sound, CellsType, Consistent

(* The cells of a range are those whose positions are in its span.         *)
LEMMA RangeSpan ==
  ASSUME NEW c, NEW r \in Int \X Int, NEW i \in Cell, c.pos[i] \in Pos \cup {Empty}
  PROVE  i \in InRange(c, r) <=> c.pos[i] \in Store!Span(r)
<1>1. \A x \in Pos \cup {Empty} : x \in Int /\ x <= MaxPos /\ (x \in Pos <=> x >= 0)
  BY MaxPosAssumption DEF Pos, Empty
<1>2. r[1] \in Int /\ r[2] \in Int
  OBVIOUS
<1>3. i \in InRange(c, r) <=> c.pos[i] >= Lo(r) /\ c.pos[i] < Hi(r)
  BY DEF InRange, pos_in
<1>4. c.pos[i] \in Store!Span(r) <=> c.pos[i] \in Pos /\ c.pos[i] >= r[1] /\ (r[2] >= 0 => c.pos[i] < r[2])
  BY DEF Store!Span
<1> QED
  BY <1>1, <1>2, <1>3, <1>4, MaxPosAssumption DEF Lo, Hi

LEMMA SpanPos == \A r : Store!Span(r) \subseteq Pos
BY DEF Store!Span

LEMMA NoCells == Cardinality({}) = 0
BY FS_EmptySet

(***************************************************************************)
(* The memory operations.                                                  *)

LEMMA ClearStore ==
  ASSUME IInv, IInv', NEW data \in BOOLEAN, clear(data)
  PROVE  Store!Clear
<1>1. phase = "idle" /\ UNCHANGED callVars /\ v_cells' = [st \in Stream |-> reset]
  BY DEF clear
<1>2. \A s \in SeqId : \A p \in Pos : Committed'[s][p] = 0
  BY <1>1, CountsStep, StreamFacts DEF reset
<1> DEFINE F == [s \in SeqId |-> Store!Nothing]
<1>3. F = [s \in SeqId |-> [p \in Pos |-> F[s][p]]] /\ \A s \in SeqId : \A p \in Pos : F[s][p] = 0
  BY DEF Store!Nothing
<1> HIDE DEF F
<1>4. Committed' = F
  BY <1>2, <1>3, CommittedIs
<1> QED
  BY <1>4 DEF F, Store!Clear

LEMMA SetStream ==
  ASSUME IInv, NEW st \in Stream, NEW c, OnStream(st, c)
  PROVE  v_cells'[st] = c /\ \A x \in Stream \ {st} : v_cells'[x] = v_cells[x]
BY DEF IInv, CellsOK, OnStream

LEMMA SeqRmStore ==
  ASSUME IInv, IInv', NEW s \in SeqId, NEW r \in RmRanges, SeqRm(s, r)
  PROVE  Store!Remove(s, Store!Span(r))
<1> DEFINE st == seq_to_stream(s)
           c == v_cells[st]
           G == Selected(c, s, r)
           R == Store!Span(r)
<1>1. /\ phase = "idle" /\ UNCHANGED callVars /\ st \in Stream /\ r \in Int \X Int
      /\ v_cells'[st] = seq_rm(c, G) /\ \A x \in Stream \ {st} : v_cells'[x] = v_cells[x]
  BY StreamFacts, RangeConstants, SetStream DEF SeqRm
<1>2. v_cells'[st].seq_pos = seq_pos_dec(c.seq_pos, c.pos, G)
  BY <1>1, CellsOfStream DEF seq_rm, Vacate, CellsType
<1>20. \A t \in SeqId : \A p \in Pos :
         v_cells'[st].seq_pos[t][p] = c.seq_pos[t][p] - Cardinality(CellsAt(c.pos, G, t, p))
  BY <1>2 DEF seq_pos_dec
<1>3. /\ \A i \in Cell : i \in InRange(c, r) <=> c.pos[i] \in R
      /\ \A t \in SeqId : \A p \in Pos : c.seq_pos[t][p] = Cardinality(CellsAt(c.pos, c.seq, t, p))
      /\ \A t \in SeqId : \A p \in Pos : c.seq_pos[t][p] \in Nat
  BY <1>1, CellsOfStream, RangeSpan DEF CellsType
<1>4. \A p \in Pos : CellsAt(c.pos, G, s, p) = IF p \in R THEN CellsAt(c.pos, c.seq, s, p) ELSE {}
  BY <1>3 DEF CellsAt, Selected
<1>5. \A t \in SeqId \ {s} : \A p \in Pos : CellsAt(c.pos, G, t, p) = {}
  BY DEF CellsAt, Selected
<1> HIDE DEF st, c, G, R
<1>6. \A p \in Pos : v_cells'[st].seq_pos[s][p] = IF p \in R THEN 0 ELSE c.seq_pos[s][p]
  BY <1>20, <1>3, <1>4, NoCells
<1>7. \A t \in SeqId \ {s} : \A p \in Pos : v_cells'[st].seq_pos[t][p] = c.seq_pos[t][p]
  <2> SUFFICES ASSUME NEW t \in SeqId \ {s}, NEW p \in Pos
               PROVE  v_cells'[st].seq_pos[t][p] = c.seq_pos[t][p]
    OBVIOUS
  <2>1. Cardinality(CellsAt(c.pos, G, t, p)) = 0
    BY <1>5, NoCells
  <2>2. c.seq_pos[t][p] \in Nat /\ v_cells'[st].seq_pos[t][p] = c.seq_pos[t][p] - Cardinality(CellsAt(c.pos, G, t, p))
    BY <1>3, <1>20
  <2> QED
    BY <2>1, <2>2
<1>8. \A t \in SeqId \ {s} : \A p \in Pos : Committed'[t][p] = Committed[t][p]
  BY <1>1, <1>7, CountsStep, StreamFacts DEF c
<1>9. \A p \in Pos : Committed'[s][p] = Store!Without(s, R)[p]
  BY <1>1, <1>6, CountsStep DEF st, c, Store!Without
<1>10. Committed' = [Committed EXCEPT ![s] = Store!Without(s, R)]
  <2> DEFINE g == Store!Without(s, R)
  <2>1. g = [p \in Pos |-> g[p]]
    BY DEF Store!Without
  <2> HIDE DEF g
  <2>2. \A p \in Pos : Committed'[s][p] = g[p]
    BY <1>9 DEF g
  <2> QED
    BY <1>8, <2>1, <2>2, OneChanges DEF g
<1> QED
  BY <1>10 DEF R, Store!Remove

LEMMA SeqRmAnyStore ==
  ASSUME IInv, IInv', NEW r \in RmRanges, SeqRmAny(r)
  PROVE  Store!RemoveAny(Store!Span(r))
<1> DEFINE R == Store!Span(r)
           F == [s \in SeqId |-> Store!Without(s, R)]
<1>1. phase = "idle" /\ UNCHANGED callVars /\ r \in Int \X Int
  BY RangeConstants DEF SeqRmAny
<1>2. ASSUME NEW s \in SeqId, NEW p \in Pos
      PROVE  Committed'[s][p] = F[s][p]
  <2> DEFINE st == seq_to_stream(s)
             c == v_cells[st]
             G == Within(InRange(c, r), c.seq)
  <2>1. st \in Stream /\ v_cells'[st] = rm(c, InRange(c, r))
    BY StreamFacts DEF SeqRmAny
  <2>2. v_cells'[st].seq_pos = seq_pos_dec(c.seq_pos, c.pos, G)
    BY <2>1, CellsOfStream DEF rm, Vacate, CellsType
  <2>20. v_cells'[st].seq_pos[s][p] = c.seq_pos[s][p] - Cardinality(CellsAt(c.pos, G, s, p))
    BY <2>2 DEF seq_pos_dec
  <2>3. /\ \A i \in Cell : i \in InRange(c, r) <=> c.pos[i] \in R
        /\ c.seq_pos[s][p] = Cardinality(CellsAt(c.pos, c.seq, s, p))
        /\ c.seq_pos[s][p] \in Nat
    BY <1>1, <2>1, CellsOfStream, RangeSpan DEF CellsType
  <2>4. CellsAt(c.pos, G, s, p) = IF p \in R THEN CellsAt(c.pos, c.seq, s, p) ELSE {}
    BY <2>3 DEF CellsAt, Within
  <2>5. v_cells'[st].seq_pos[s][p] = IF p \in R THEN 0 ELSE c.seq_pos[s][p]
    <3> HIDE DEF G, R, c
    <3> QED
      BY <2>20, <2>3, <2>4, NoCells
  <2> QED
    BY <1>1, <2>5, CountsStep DEF Store!Without
<1>3. F = [s \in SeqId |-> [p \in Pos |-> F[s][p]]]
  BY DEF Store!Without
<1> HIDE DEF F
<1>4. Committed' = F
  BY <1>2, <1>3, CommittedIs
<1> QED
  BY <1>4 DEF F, R, Store!RemoveAny

LEMMA SeqCpSameStore ==
  ASSUME IInv, IInv', NEW src \in SeqId, NEW dst \in SeqId, NEW r \in CpRanges, SeqCpSame(src, dst, r)
  PROVE  src # dst /\ Store!Copy(src, dst, Store!Span(r))
<1> DEFINE c == v_cells[0]
           M == CpCells(src, r)
           A == Within(M, [i \in Cell |-> {dst}])
           R == Store!Span(r)
<1>1. /\ phase = "idle" /\ UNCHANGED callVars /\ 0 \in Stream /\ r \in Int \X Int /\ src # dst
      /\ v_cells'[0] = seq_add(c, M, dst) /\ \A s : seq_to_stream(s) = 0
  BY StreamFacts, RangeConstants, SetStream DEF SeqCpSame, seq_to_stream
<1>2. v_cells'[0].seq_pos = seq_pos_inc(c.seq_pos, c.pos, A)
  BY <1>1, CellsOfStream DEF seq_add, CellsType
<1>3. /\ \A i \in Cell : i \in InRange(c, r) <=> c.pos[i] \in R
      /\ \A t \in SeqId : \A p \in Pos : c.seq_pos[t][p] = Cardinality(CellsAt(c.pos, c.seq, t, p))
      /\ \A t \in SeqId : \A p \in Pos : c.seq_pos[t][p] \in Nat
  BY <1>1, CellsOfStream, RangeSpan DEF CellsType
<1>4. \A p \in Pos : CellsAt(c.pos, A, dst, p) = IF p \in R THEN CellsAt(c.pos, c.seq, src, p) ELSE {}
  BY <1>3 DEF CellsAt, Within, CpCells, Has
<1>5. \A t \in SeqId \ {dst} : \A p \in Pos : CellsAt(c.pos, A, t, p) = {}
  BY DEF CellsAt, Within
<1>6. \A t \in SeqId : \A p \in Pos :
         v_cells'[0].seq_pos[t][p] = c.seq_pos[t][p] + Cardinality(CellsAt(c.pos, A, t, p))
  BY <1>2 DEF seq_pos_inc
<1>7. \A t \in SeqId : \A p \in Pos :
         Committed[t][p] = c.seq_pos[t][p] /\ Committed'[t][p] = v_cells'[0].seq_pos[t][p]
  BY <1>1, CountsStep
<1> HIDE DEF c, A, R, M
<1>8. ASSUME NEW p \in Pos
      PROVE  Committed'[dst][p] = Committed[dst][p] + Store!Only(src, R)[p]
  <2>1. Cardinality(CellsAt(c.pos, A, dst, p)) = IF p \in R THEN c.seq_pos[src][p] ELSE 0
    BY <1>3, <1>4, NoCells
  <2>2. Store!Only(src, R)[p] = IF p \in R THEN c.seq_pos[src][p] ELSE 0
    BY <1>7 DEF Store!Only
  <2> QED
    BY <2>1, <2>2, <1>6, <1>7
<1>9. ASSUME NEW t \in SeqId \ {dst}, NEW p \in Pos
      PROVE  Committed'[t][p] = Committed[t][p]
  <2>1. Cardinality(CellsAt(c.pos, A, t, p)) = 0 /\ c.seq_pos[t][p] \in Nat
    BY <1>3, <1>5, NoCells
  <2> QED
    BY <2>1, <1>6, <1>7
<1>10. Committed' = [Committed EXCEPT ![dst] = [p \in Pos |-> Committed[dst][p] + Store!Only(src, R)[p]]]
  <2> DEFINE g == [p \in Pos |-> Committed[dst][p] + Store!Only(src, R)[p]]
  <2>1. g = [p \in Pos |-> g[p]] /\ \A p \in Pos : Committed'[dst][p] = g[p]
    BY <1>8
  <2> HIDE DEF g
  <2>2. Committed' = [Committed EXCEPT ![dst] = g]
    BY <1>9, <2>1, OneChanges
  <2> QED
    BY <2>2 DEF g
<1>11. dst \in DOMAIN Committed
  BY DEF Committed
<1> QED
  BY <1>1, <1>10, <1>11 DEF R, Store!Copy

LEMMA SeqCpCrossStore ==
  ASSUME IInv, IInv', NEW src \in SeqId, NEW dst \in SeqId, NEW r \in CpRanges, SeqCpCross(src, dst, r)
  PROVE  src # dst /\ Store!Clone(src, dst)
<1> DEFINE c == v_cells[src]
           M == Has(c, src)
           A == Within(M, [i \in Cell |-> {dst}])
<1>1. /\ phase = "idle" /\ UNCHANGED callVars /\ src \in Stream /\ dst \in Stream /\ src # dst
      /\ v_cells'[dst] = CopyCells(c, src, dst) /\ \A x \in Stream \ {dst} : v_cells'[x] = v_cells[x]
      /\ Stream = SeqId /\ \A s : seq_to_stream(s) = s
  BY StreamFacts, SetStream DEF SeqCpCross, seq_to_stream
<1>2. v_cells'[dst].seq_pos = seq_pos_inc(reset.seq_pos, c.pos, A)
  BY <1>1 DEF CopyCells
<1>3. \A p \in Pos : /\ c.seq_pos[src][p] = Cardinality(CellsAt(c.pos, c.seq, src, p))
                     /\ c.seq_pos[src][p] \in Nat
  BY <1>1, CellsOfStream DEF CellsType
<1>4. \A p \in Pos : CellsAt(c.pos, A, dst, p) = CellsAt(c.pos, c.seq, src, p)
  BY DEF CellsAt, Within, Has
<1>5. \A p \in Pos : v_cells'[dst].seq_pos[dst][p] = 0 + Cardinality(CellsAt(c.pos, A, dst, p))
  BY <1>2 DEF seq_pos_inc, reset
<1>6. \A p \in Pos : v_cells'[dst].seq_pos[dst][p] = c.seq_pos[src][p]
  <2> HIDE DEF c, A
  <2> QED
    BY <1>3, <1>4, <1>5
<1>7. \A p \in Pos : Committed'[dst][p] = Committed[src][p]
  BY <1>1, <1>6, CountsStep
<1>8. \A t \in SeqId \ {dst} : \A p \in Pos : Committed'[t][p] = Committed[t][p]
  BY <1>1, CountsStep
<1>9. Committed[src] = [p \in Pos |-> Committed[src][p]]
  BY DEF Committed
<1>10. Committed' = [Committed EXCEPT ![dst] = Committed[src]]
  BY <1>7, <1>8, <1>9, OneChanges
<1> QED
  BY <1>1, <1>10 DEF Store!Clone

LEMMA SeqKeepStore ==
  ASSUME Unified, IInv, IInv', NEW s \in SeqId, SeqKeep(s)
  PROVE  Store!Keep(s)
<1> DEFINE c == v_cells[0]
           kept == {i \in Cell : s \in c.seq[i]}
           only == [i \in Cell |-> IF i \in kept THEN {s} ELSE c.seq[i]]
           A == Within(kept, only)
           F == [t \in SeqId |-> IF t = s THEN Committed[s] ELSE Store!Nothing]
<1>1. /\ phase = "idle" /\ UNCHANGED callVars /\ 0 \in Stream
      /\ v_cells'[0] = seq_keep(c, s) /\ \A t : seq_to_stream(t) = 0
  BY StreamFacts, SetStream DEF SeqKeep, seq_to_stream
<1>2. v_cells'[0].seq_pos = seq_pos_inc(seq_pos_dec(c.seq_pos, c.pos, c.seq), c.pos, A)
  BY <1>1, CellsOfStream DEF seq_keep, Vacate, CellsType
<1>3. /\ \A t \in SeqId : \A p \in Pos : c.seq_pos[t][p] = Cardinality(CellsAt(c.pos, c.seq, t, p))
      /\ \A t \in SeqId : \A p \in Pos : c.seq_pos[t][p] \in Nat
  BY <1>1, CellsOfStream DEF CellsType
<1>4. \A p \in Pos : CellsAt(c.pos, A, s, p) = CellsAt(c.pos, c.seq, s, p)
  BY DEF CellsAt, Within
<1>5. \A t \in SeqId \ {s} : \A p \in Pos : CellsAt(c.pos, A, t, p) = {}
  BY DEF CellsAt, Within
<1>6. \A t \in SeqId : \A p \in Pos :
         v_cells'[0].seq_pos[t][p] = (c.seq_pos[t][p] - Cardinality(CellsAt(c.pos, c.seq, t, p)))
                                       + Cardinality(CellsAt(c.pos, A, t, p))
  BY <1>2 DEF seq_pos_inc, seq_pos_dec
<1>7. \A t \in SeqId : \A p \in Pos :
         Committed[t][p] = c.seq_pos[t][p] /\ Committed'[t][p] = v_cells'[0].seq_pos[t][p]
  BY <1>1, CountsStep
<1>8. ASSUME NEW t \in SeqId, NEW p \in Pos
      PROVE  Committed'[t][p] = IF t = s THEN Committed[s][p] ELSE 0
  <2> HIDE DEF c, A
  <2>1. Cardinality(CellsAt(c.pos, A, t, p)) = IF t = s THEN c.seq_pos[s][p] ELSE 0
    BY <1>3, <1>4, <1>5, NoCells
  <2>2. c.seq_pos[t][p] \in Nat /\ c.seq_pos[t][p] = Cardinality(CellsAt(c.pos, c.seq, t, p))
        /\ c.seq_pos[s][p] \in Nat
    BY <1>3
  <2> QED
    BY <2>1, <2>2, <1>6, <1>7
<1>9. F = [t \in SeqId |-> [p \in Pos |-> F[t][p]]]
      /\ \A t \in SeqId : \A p \in Pos : F[t][p] = IF t = s THEN Committed[s][p] ELSE 0
  BY DEF Store!Nothing, Committed
<1> HIDE DEF F
<1>10. Committed' = F
  BY <1>8, <1>9, CommittedIs
<1> QED
  BY <1>10 DEF F, Store!Keep

(* Shifts and divisions are promised for cells of one sequence: the code   *)
(* moves a cell for all its sequences.                                     *)
Alone(s, r) ==
  \A t \in SeqId \ {s} : seq_to_stream(t) = seq_to_stream(s) =>
    \A i \in Moved(s, r) : t \notin v_cells[seq_to_stream(s)].seq[i]

(* Where the cells of M are moved, and the sequences of those that stay.   *)
MovedTo(c, M, P) == [i \in Cell |-> IF i \in M THEN P[i] ELSE c.pos[i]]
Staying(c, M, P) == Within(M \ {i \in M : P[i] < 0}, c.seq)

LEMMA ReposCounts ==
  ASSUME NEW c \in CellsType, NEW M, NEW P, NEW D, NEW t \in SeqId, NEW p \in Pos
  PROVE  Repos(c, M, P, D).seq_pos[t][p] =
           (c.seq_pos[t][p] - Cardinality(CellsAt(c.pos, Within(M, c.seq), t, p)))
             + Cardinality(CellsAt(MovedTo(c, M, P), Staying(c, M, P), t, p))
<1> DEFINE gone == {i \in M : P[i] < 0}
           pos == [i \in Cell |-> IF i \in M THEN P[i] ELSE c.pos[i]]
           moved == [c EXCEPT !.pos = pos,
                              !.shift = [i \in Cell |-> IF i \in M THEN c.shift[i] + D[i] ELSE c.shift[i]]]
           cnt == seq_pos_inc(seq_pos_dec(c.seq_pos, c.pos, Within(M, c.seq)), pos, Within(M \ gone, c.seq))
<1>1. moved.pos = pos
  BY DEF CellsType
<1>2. Repos(c, M, P, D) =
        [Vacate(moved, gone) EXCEPT !.seq_pos = cnt, !.has_shift = c.has_shift \/ M # {}]
  BY <1>1 DEF Repos
<1>3. Repos(c, M, P, D).seq_pos = cnt
  <2> HIDE DEF cnt, pos, gone
  <2> QED
    BY <1>2 DEF Vacate, CellsType
<1> QED
  BY <1>3 DEF seq_pos_inc, seq_pos_dec, MovedTo, Staying

LEMMA SeqAddStore ==
  ASSUME IInv, IInv', NEW s \in SeqId, NEW r \in AddRanges, NEW d \in Deltas, SeqAdd(s, r, d), Alone(s, r)
  PROVE  Store!Shift(s, Store!Span(r), d)
<1> DEFINE st == seq_to_stream(s)
           c == v_cells[st]
           M == Moved(s, r)
           P == [i \in Cell |-> c.pos[i] + d]
           D == [i \in Cell |-> d]
           L == Within(M, c.seq)
           pos == MovedTo(c, M, P)
           A == Staying(c, M, P)
           R == Store!Span(r)
<1>1. /\ phase = "idle" /\ UNCHANGED callVars /\ st \in Stream /\ r \in Int \X Int /\ d \in Int
      /\ v_cells'[st] = Repos(c, M, P, D) /\ \A x \in Stream \ {st} : v_cells'[x] = v_cells[x]
  BY StreamFacts, RangeConstants, SetStream, DeltasAssumption DEF SeqAdd, pos_add
<1>2. c \in CellsType /\ R \subseteq Pos
  BY <1>1, CellsOfStream, SpanPos
<1>3. /\ \A i \in Cell : i \in M <=> c.pos[i] \in R /\ s \in c.seq[i]
      /\ \A t \in SeqId : \A p \in Pos : c.seq_pos[t][p] = Cardinality(CellsAt(c.pos, c.seq, t, p))
      /\ \A t \in SeqId : \A p \in Pos : c.seq_pos[t][p] \in Nat
      /\ M \subseteq Cell
  BY <1>1, CellsOfStream, RangeSpan DEF CellsType, Moved, Has
<1>4. \A t \in SeqId : \A p \in Pos :
         v_cells'[st].seq_pos[t][p] = (c.seq_pos[t][p] - Cardinality(CellsAt(c.pos, L, t, p)))
                                        + Cardinality(CellsAt(pos, A, t, p))
  <2> HIDE DEF st, c, M, P, D
  <2> SUFFICES ASSUME NEW t \in SeqId, NEW p \in Pos
               PROVE  Repos(c, M, P, D).seq_pos[t][p] =
                        (c.seq_pos[t][p] - Cardinality(CellsAt(c.pos, L, t, p)))
                          + Cardinality(CellsAt(pos, A, t, p))
    BY <1>1
  <2> QED
    BY <1>2, ReposCounts
<1>5. \A p \in Pos : CellsAt(c.pos, L, s, p) = IF p \in R THEN CellsAt(c.pos, c.seq, s, p) ELSE {}
  BY <1>3 DEF CellsAt, Within
<1>6. \A p \in Pos : CellsAt(pos, A, s, p) = IF p - d \in R THEN CellsAt(c.pos, c.seq, s, p - d) ELSE {}
  <2> SUFFICES ASSUME NEW p \in Pos
               PROVE  CellsAt(pos, A, s, p) = IF p - d \in R THEN CellsAt(c.pos, c.seq, s, p - d) ELSE {}
    OBVIOUS
  <2>1. p \in Int /\ p >= 0
    BY PosFacts
  <2>2. \A i \in Cell : c.pos[i] \in Int
    BY <1>1, CellsOfStream, PosFacts
  <2>3. \A i \in Cell : c.pos[i] + d = p <=> c.pos[i] = p - d
    BY <1>1, <2>1, <2>2
  <2>4. \A i \in Cell : i \in CellsAt(pos, A, s, p) <=> i \in M /\ c.pos[i] + d = p
    <3> SUFFICES ASSUME NEW i \in Cell
                 PROVE  i \in CellsAt(pos, A, s, p) <=> i \in M /\ c.pos[i] + d = p
      OBVIOUS
    <3>1. s \in A[i] <=> i \in M /\ ~(c.pos[i] + d < 0)
      BY <1>3 DEF Within, Staying
    <3>2. i \in M => pos[i] = c.pos[i] + d
      BY DEF MovedTo
    <3>3. i \in M /\ c.pos[i] + d = p => ~(c.pos[i] + d < 0)
      BY <2>1
    <3> HIDE DEF pos, A, M, c
    <3> QED
      BY <3>1, <3>2, <3>3 DEF CellsAt
  <2>5. \A i \in Cell : i \in CellsAt(c.pos, c.seq, s, p - d) <=> c.pos[i] = p - d /\ s \in c.seq[i]
    BY DEF CellsAt
  <2>6. CellsAt(pos, A, s, p) \subseteq Cell /\ CellsAt(c.pos, c.seq, s, p - d) \subseteq Cell
    BY DEF CellsAt
  <2> HIDE DEF pos, A, M, c
  <2> QED
    BY <2>3, <2>4, <2>5, <2>6, <1>3
<1>7. \A t \in SeqId \ {s} : seq_to_stream(t) = st =>
        \A p \in Pos : CellsAt(c.pos, L, t, p) = {} /\ CellsAt(pos, A, t, p) = {}
  BY DEF CellsAt, Within, Staying, Alone
<1>8. \A t \in SeqId : \A p \in Pos :
        /\ seq_to_stream(t) = st => Committed[t][p] = c.seq_pos[t][p]
        /\ Committed'[t][p] = v_cells'[seq_to_stream(t)].seq_pos[t][p]
        /\ Committed[t][p] = v_cells[seq_to_stream(t)].seq_pos[t][p]
  BY <1>1, CountsStep
<1> HIDE DEF st, c, M, P, D, L, pos, A, R
<1>9. ASSUME NEW p \in Pos
      PROVE  Committed'[s][p] = Store!Without(s, R)[p] + (IF p - d \in R THEN Committed[s][p - d] ELSE 0)
  <2>1. Cardinality(CellsAt(c.pos, L, s, p)) = IF p \in R THEN c.seq_pos[s][p] ELSE 0
    BY <1>3, <1>5, NoCells
  <2>2. Cardinality(CellsAt(pos, A, s, p)) = IF p - d \in R THEN c.seq_pos[s][p - d] ELSE 0
    BY <1>2, <1>3, <1>6, NoCells
  <2>3. Store!Without(s, R)[p] = IF p \in R THEN 0 ELSE c.seq_pos[s][p]
    BY <1>8 DEF Store!Without, st
  <2>4. p - d \in R => Committed[s][p - d] = c.seq_pos[s][p - d] /\ c.seq_pos[s][p - d] \in Nat
    BY <1>2, <1>3, <1>8 DEF st
  <2>5. Committed'[s][p] = (c.seq_pos[s][p] - Cardinality(CellsAt(c.pos, L, s, p)))
                                        + Cardinality(CellsAt(pos, A, s, p))
    BY <1>4, <1>8 DEF st
  <2>6. c.seq_pos[s][p] \in Nat
    BY <1>3
  <2> QED
    BY <2>1, <2>2, <2>3, <2>4, <2>5, <2>6
<1>10. ASSUME NEW t \in SeqId \ {s}, NEW p \in Pos
       PROVE  Committed'[t][p] = Committed[t][p]
  <2>1. CASE seq_to_stream(t) = st
    <3>1. Cardinality(CellsAt(c.pos, L, t, p)) = 0 /\ Cardinality(CellsAt(pos, A, t, p)) = 0
      BY <1>7, <2>1, NoCells
    <3>2. c.seq_pos[t][p] \in Nat /\ Committed[t][p] = c.seq_pos[t][p]
          /\ Committed'[t][p] = v_cells'[st].seq_pos[t][p]
      BY <1>3, <1>8, <2>1
    <3> QED
      BY <1>4, <3>1, <3>2
  <2>2. CASE seq_to_stream(t) # st
    BY <1>1, <1>8, <2>2, StreamFacts
  <2> QED
    BY <2>1, <2>2
<1>11. Committed' = [Committed EXCEPT ![s] = [p \in Pos |->
                       Store!Without(s, R)[p] + (IF p - d \in R THEN Committed[s][p - d] ELSE 0)]]
  <2> DEFINE g == [p \in Pos |-> Store!Without(s, R)[p] + (IF p - d \in R THEN Committed[s][p - d] ELSE 0)]
  <2>1. g = [p \in Pos |-> g[p]] /\ \A p \in Pos : Committed'[s][p] = g[p]
    BY <1>9
  <2> HIDE DEF g
  <2>2. Committed' = [Committed EXCEPT ![s] = g]
    BY <1>10, <2>1, OneChanges
  <2> QED
    BY <2>2 DEF g
<1> QED
  BY <1>11 DEF R, Store!Shift

(* The tokens <<q, k>> at the positions of Q, cnt[q] of them at q, are as  *)
(* many as the cells there.                                                *)
TokensAt(cnt, Q) == UNION {{q} \X (1 .. cnt[q]) : q \in Q}
CellsIn(M, pos, Q) == {i \in M : pos[i] \in Q}
CellsOn(M, pos, q) == CellsIn(M, pos, {q})

LEMMA CountTokens ==
  ASSUME NEW M \in SUBSET Cell, NEW pos, NEW Q, NEW cnt,
         \A q \in Q : cnt[q] = Cardinality(CellsOn(M, pos, q))
  PROVE  Cardinality(TokensAt(cnt, Q)) = Cardinality(CellsIn(M, pos, Q))
<1> DEFINE At(q) == CellsOn(M, pos, q)
           T == TokensAt(cnt, Q)
           S == CellsIn(M, pos, Q)
           g == [q \in Q |-> CHOOSE f : f \in Bijection(1 .. cnt[q], At(q))]
           h == [t \in T |-> g[t[1]][t[2]]]
<1>1. ASSUME NEW q \in Q
      PROVE  /\ g[q] \in Bijection(1 .. cnt[q], At(q))
  <2>1. At(q) \in SUBSET Cell
    BY DEF CellsIn, CellsOn
  <2>2. IsFiniteSet(At(q))
    BY <2>1, CellFinite
  <2>3. \E f : f \in Bijection(1 .. cnt[q], At(q))
    BY <2>2, FS_CardinalityType DEF ExistsBijection
  <2> QED
    BY <2>3
<1>2. \A t \in T : t[1] \in Q /\ t[2] \in 1 .. cnt[t[1]] /\ t = <<t[1], t[2]>>
  BY DEF TokensAt
<1>3. \A q \in Q : \A k \in 1 .. cnt[q] : <<q, k>> \in T
  BY DEF TokensAt
<1> HIDE DEF g, T
<1>4. \A t \in T : h[t] \in At(t[1]) /\ h[t] \in S /\ pos[h[t]] = t[1]
  <2> TAKE t \in T
  <2>1. g[t[1]] \in [1 .. cnt[t[1]] -> At(t[1])]
    BY <1>1, <1>2 DEF Bijection, Injection, IsInjective
  <2>2. h[t] \in At(t[1])
    BY <1>2, <2>1
  <2> QED
    BY <2>2, <1>2 DEF CellsIn, CellsOn
<1>5. \A t, u \in T : h[t] = h[u] => t = u
  <2> SUFFICES ASSUME NEW t \in T, NEW u \in T, h[t] = h[u] PROVE t = u
    OBVIOUS
  <2>1. t[1] = u[1]
    <3>1. pos[h[t]] = t[1] /\ pos[h[u]] = u[1]
      BY <1>4
    <3> HIDE DEF h
    <3> QED
      BY <3>1
  <2>2. g[t[1]][t[2]] = g[t[1]][u[2]] /\ t[2] \in 1 .. cnt[t[1]] /\ u[2] \in 1 .. cnt[t[1]]
    BY <2>1, <1>2
  <2>3. t[2] = u[2]
    <3>1. PICK G : G = g[t[1]]
      OBVIOUS
    <3>2. G \in Injection(1 .. cnt[t[1]], At(t[1]))
      BY <3>1, <1>1, <1>2 DEF Bijection
    <3>3. DOMAIN G = 1 .. cnt[t[1]] /\ \A a, b \in DOMAIN G : G[a] = G[b] => a = b
      BY <3>2 DEF Injection, IsInjective
    <3>4. G[t[2]] = G[u[2]]
      BY <2>2, <3>1
    <3> QED
      BY <2>2, <3>3, <3>4
  <2> QED
    BY <2>1, <2>3, <1>2
<1>6. \A i \in S : \E t \in T : h[t] = i
  <2> SUFFICES ASSUME NEW i \in S PROVE \E t \in T : h[t] = i
    OBVIOUS
  <2>1. pos[i] \in Q /\ i \in At(pos[i])
    BY DEF CellsIn, CellsOn
  <2>2. PICK k \in 1 .. cnt[pos[i]] : g[pos[i]][k] = i
    BY <2>1, <1>1 DEF Bijection, Surjection
  <2>3. <<pos[i], k>> \in T
    BY <2>1, <1>3
  <2>4. h[<<pos[i], k>>] = g[pos[i]][k]
    BY <2>3
  <2> QED
    BY <2>2, <2>3, <2>4
<1>7. S \in SUBSET Cell
  BY DEF CellsIn
<1> HIDE DEF h, S
<1>8. h \in [T -> S]
  <2>1. h = [t \in T |-> h[t]]
    BY DEF h
  <2> QED
    BY <2>1, <1>4
<1>9. h \in Injection(T, S) /\ h \in Surjection(T, S)
  BY <1>5, <1>6, <1>8 DEF Injection, Surjection, IsInjective
<1> QED
  BY <1>7, <1>9, CellFinite, FS_Injection DEF T, S

LEMMA SeqDivStore ==
  ASSUME IInv, IInv', NEW s \in SeqId, NEW r \in DivRanges, NEW d \in Divs, SeqDiv(s, r, d), Alone(s, r)
  PROVE  Store!Divide(s, Store!Span(r), d)
<1> DEFINE st == seq_to_stream(s)
           c == v_cells[st]
           M == Moved(s, r)
           P == [i \in Cell |-> c.pos[i] \div d]
           D == [i \in Cell |-> c.pos[i] - (c.pos[i] \div d)]
           L == Within(M, c.seq)
           pos == MovedTo(c, M, P)
           A == Staying(c, M, P)
           R == Store!Span(r)
           To(p) == {q \in R : q \div d = p}
<1>1. /\ phase = "idle" /\ UNCHANGED callVars /\ st \in Stream /\ r \in Int \X Int /\ d \in Nat \ {0}
      /\ v_cells'[st] = Repos(c, M, P, D) /\ \A x \in Stream \ {st} : v_cells'[x] = v_cells[x]
  BY StreamFacts, RangeConstants, SetStream, DivsAssumption DEF SeqDiv, pos_div
<1>2. c \in CellsType /\ R \subseteq Pos
  BY <1>1, CellsOfStream, SpanPos
<1>3. /\ \A i \in Cell : i \in M <=> c.pos[i] \in R /\ s \in c.seq[i]
      /\ \A t \in SeqId : \A p \in Pos : c.seq_pos[t][p] = Cardinality(CellsAt(c.pos, c.seq, t, p))
      /\ \A t \in SeqId : \A p \in Pos : c.seq_pos[t][p] \in Nat
      /\ M \subseteq Cell
  BY <1>1, CellsOfStream, RangeSpan DEF CellsType, Moved, Has
<1>4. \A t \in SeqId : \A p \in Pos :
         v_cells'[st].seq_pos[t][p] = (c.seq_pos[t][p] - Cardinality(CellsAt(c.pos, L, t, p)))
                                        + Cardinality(CellsAt(pos, A, t, p))
  <2> HIDE DEF st, c, M, P, D
  <2> SUFFICES ASSUME NEW t \in SeqId, NEW p \in Pos
               PROVE  Repos(c, M, P, D).seq_pos[t][p] =
                        (c.seq_pos[t][p] - Cardinality(CellsAt(c.pos, L, t, p)))
                          + Cardinality(CellsAt(pos, A, t, p))
    BY <1>1
  <2> QED
    BY <1>2, ReposCounts
<1>5. \A p \in Pos : CellsAt(c.pos, L, s, p) = IF p \in R THEN CellsAt(c.pos, c.seq, s, p) ELSE {}
  BY <1>3 DEF CellsAt, Within
<1>6. \A p \in Pos : CellsAt(pos, A, s, p) = CellsIn(M, c.pos, To(p))
  <2> SUFFICES ASSUME NEW p \in Pos
               PROVE  CellsAt(pos, A, s, p) = CellsIn(M, c.pos, To(p))
    OBVIOUS
  <2>1. \A i \in M : c.pos[i] \div d \in Nat /\ ~(c.pos[i] \div d < 0) /\ P[i] = c.pos[i] \div d
    <3> SUFFICES ASSUME NEW i \in M
                 PROVE  c.pos[i] \div d \in Nat /\ ~(c.pos[i] \div d < 0) /\ P[i] = c.pos[i] \div d
      OBVIOUS
    <3>1. c.pos[i] \in Nat
      BY <1>2, <1>3, PosFacts
    <3>2. c.pos[i] \div d \in Nat
      BY <1>1, <3>1, DivFacts
    <3>3. P[i] = c.pos[i] \div d
      BY <1>3
    <3> QED
      BY <3>2, <3>3
  <2>2. \A i \in Cell : s \in A[i] <=> i \in M
    BY <1>3, <2>1 DEF Within, Staying
  <2>3. \A i \in M : pos[i] = c.pos[i] \div d
    BY <1>3, <2>1 DEF MovedTo
  <2>4. \A i \in M : c.pos[i] \in To(p) <=> c.pos[i] \div d = p
    BY <1>3
  <2> HIDE DEF pos, A, M, c, To
  <2> QED
    BY <1>3, <2>2, <2>3, <2>4 DEF CellsAt, CellsIn
<1>7. \A t \in SeqId \ {s} : seq_to_stream(t) = st =>
        \A p \in Pos : CellsAt(c.pos, L, t, p) = {} /\ CellsAt(pos, A, t, p) = {}
  BY DEF CellsAt, Within, Staying, Alone
<1>8. \A t \in SeqId : \A p \in Pos :
        /\ seq_to_stream(t) = st => Committed[t][p] = c.seq_pos[t][p]
        /\ Committed'[t][p] = v_cells'[seq_to_stream(t)].seq_pos[t][p]
        /\ Committed[t][p] = v_cells[seq_to_stream(t)].seq_pos[t][p]
  BY <1>1, CountsStep
<1>9. ASSUME NEW p \in Pos
      PROVE  Cardinality(CellsIn(M, c.pos, To(p)))
               = Cardinality({t \in Store!Tokens(s, R) : t[1] \div d = p})
  <2>1. \A q \in To(p) : q \in R /\ q \in Pos
    BY <1>2
  <2>2. \A q \in R : CellsIn(M, c.pos, {q}) = CellsAt(c.pos, c.seq, s, q)
    BY <1>3 DEF CellsIn, CellsAt
  <2>3. \A q \in To(p) : Committed[s][q] = Cardinality(CellsIn(M, c.pos, {q}))
    BY <1>3, <1>8, <2>1, <2>2
  <2> DEFINE cnt == Committed[s]
  <2>4. \A q \in To(p) : cnt[q] = Cardinality(CellsIn(M, c.pos, {q}))
    BY <2>3
  <2>5. {t \in Store!Tokens(s, R) : t[1] \div d = p} = TokensAt(cnt, To(p))
    <3>1. \A q, k : <<q, k>>[1] = q
      OBVIOUS
    <3> QED
      BY <3>1 DEF Store!Tokens, TokensAt
  <2>6. Cardinality(TokensAt(cnt, To(p))) = Cardinality(CellsIn(M, c.pos, To(p)))
    <3>1. PICK K, Z, Q, n : K = M /\ Z = c.pos /\ Q = To(p) /\ n = cnt
      OBVIOUS
    <3>2. K \in SUBSET Cell /\ \A q \in Q : n[q] = Cardinality(CellsOn(K, Z, q))
      BY <3>1, <1>3, <2>4 DEF CellsOn
    <3> HIDE DEF cnt, To, M, c
    <3>3. Cardinality(TokensAt(n, Q)) = Cardinality(CellsIn(K, Z, Q))
      BY <3>2, CountTokens
    <3> QED
      BY <3>1, <3>3
  <2> QED
    BY <2>5, <2>6
<1> HIDE DEF st, c, M, P, D, L, pos, A, R, To
<1>10. ASSUME NEW p \in Pos
       PROVE  Committed'[s][p] = Store!Without(s, R)[p]
                                   + Cardinality({t \in Store!Tokens(s, R) : t[1] \div d = p})
  <2>1. Cardinality(CellsAt(c.pos, L, s, p)) = IF p \in R THEN c.seq_pos[s][p] ELSE 0
    BY <1>3, <1>5, NoCells
  <2>2. Cardinality(CellsAt(pos, A, s, p)) = Cardinality({t \in Store!Tokens(s, R) : t[1] \div d = p})
    BY <1>6, <1>9
  <2>3. Store!Without(s, R)[p] = IF p \in R THEN 0 ELSE c.seq_pos[s][p]
    BY <1>8 DEF Store!Without, st
  <2>4. Committed'[s][p] = (c.seq_pos[s][p] - Cardinality(CellsAt(c.pos, L, s, p)))
                                        + Cardinality(CellsAt(pos, A, s, p))
    BY <1>4, <1>8 DEF st
  <2>5. c.seq_pos[s][p] \in Nat
    BY <1>3
  <2>6. Cardinality(CellsAt(pos, A, s, p)) \in Nat
    <3>1. CellsAt(pos, A, s, p) \in SUBSET Cell
      BY DEF CellsAt
    <3> QED
      BY <3>1, CellFinite
  <2> QED
    BY <2>1, <2>2, <2>3, <2>4, <2>5, <2>6
<1>11. ASSUME NEW t \in SeqId \ {s}, NEW p \in Pos
       PROVE  Committed'[t][p] = Committed[t][p]
  <2>1. CASE seq_to_stream(t) = st
    <3>1. Cardinality(CellsAt(c.pos, L, t, p)) = 0 /\ Cardinality(CellsAt(pos, A, t, p)) = 0
      BY <1>7, <2>1, NoCells
    <3>2. c.seq_pos[t][p] \in Nat /\ Committed[t][p] = c.seq_pos[t][p]
          /\ Committed'[t][p] = v_cells'[st].seq_pos[t][p]
      BY <1>3, <1>8, <2>1
    <3> QED
      BY <1>4, <3>1, <3>2
  <2>2. CASE seq_to_stream(t) # st
    BY <1>1, <1>8, <2>2, StreamFacts
  <2> QED
    BY <2>1, <2>2
<1>12. Committed' = [Committed EXCEPT ![s] = [p \in Pos |->
                       Store!Without(s, R)[p] + Cardinality({t \in Store!Tokens(s, R) : t[1] \div d = p})]]
  <2> DEFINE g == [p \in Pos |-> Store!Without(s, R)[p]
                                   + Cardinality({t \in Store!Tokens(s, R) : t[1] \div d = p})]
  <2>1. g = [p \in Pos |-> g[p]] /\ \A p \in Pos : Committed'[s][p] = g[p]
    BY <1>10
  <2> HIDE DEF g
  <2>2. Committed' = [Committed EXCEPT ![s] = g]
    BY <1>11, <2>1, OneChanges
  <2> QED
    BY <2>2 DEF g
<1> QED
  BY <1>12, Zenon DEF R, Store!Divide, Store!Cardinality, Cardinality

(***************************************************************************)
(* The steps of a decode that change nothing.                              *)

Settled == IInv /\ TryInv

(* What the running decode has placed.                                     *)
TentativeIs ==
  \A st \in Stream :
    Tentative(st) = IF phase = "compute" THEN Slots(i_cur, st) ELSE Taken(Len(stack), st)

Saved(st) == UNION {DOMAIN stack[k].cells[st] : k \in DOMAIN stack}

LEMMA TentativeSplit ==
  ASSUME NEW st
  PROVE  /\ phase = "compute" => Tentative(st) = Saved(st) \cup Slots(i_cur, st)
         /\ phase # "compute" => Tentative(st) = Saved(st)
<1>1. phase = "compute" => Tentative(st) = Saved(st) \cup Slots(i_cur, st)
  <2>1. Tentative(st) = Saved(st) \cup (IF phase = "compute" THEN Slots(i_cur, st) ELSE {})
    BY Zenon DEF Tentative, Saved, Slots
  <2> QED
    BY <2>1
<1>2. phase # "compute" => Tentative(st) = Saved(st)
  BY DEF Tentative, Saved
<1> QED
  BY <1>1, <1>2

LEMMA TentativeFacts == Settled => TentativeIs
<1> SUFFICES ASSUME IInv, TryInv, NEW st \in Stream
             PROVE  Tentative(st) = IF phase = "compute" THEN Slots(i_cur, st) ELSE Taken(Len(stack), st)
  BY DEF Settled, TentativeIs
<1>1. stack \in Seq(StackEntry) /\ DOMAIN stack = 1 .. Len(stack)
  BY LenProperties DEF IInv, StackOK
<1>2. \A k \in DOMAIN stack : DOMAIN stack[k].cells[st] = Slots(k, st)
  BY <1>1 DEF TryInv, Stacked
<1>3. Saved(st) = Taken(Len(stack), st)
  BY <1>1, <1>2 DEF Taken, Saved
<1>4. phase = "compute" => Saved(st) = {}
  <2>1. phase = "compute" => stack = <<>>
    BY DEF IInv, StackOK
  <2> QED
    BY <2>1 DEF Saved
<1> QED
  BY <1>3, <1>4, TentativeSplit

LEMMA TentativeFactsNext == Settled' => TentativeIs'
BY TentativeFacts, PTL

LEMMA StaySame ==
  ASSUME \A st \in Stream : /\ Tentative(st)' = Tentative(st)
                            /\ \A i \in Cell : /\ v_cells'[st].pos[i] = v_cells[st].pos[i]
                                               /\ v_cells'[st].seq[i] = v_cells[st].seq[i]
  PROVE  Same
BY DEF Same, Shows

(* Nothing is placed before and after, and the cells keep positions and    *)
(* sequences.                                                              *)
LEMMA QuietSame ==
  ASSUME stack = <<>>, stack' = <<>>, phase # "compute", phase' # "compute",
         \A st \in Stream : \A i \in Cell : /\ v_cells'[st].pos[i] = v_cells[st].pos[i]
                                            /\ v_cells'[st].seq[i] = v_cells[st].seq[i]
  PROVE  Same
<1>1. \A st : Tentative(st) = {}
  BY NoneTentative
<1>2. \A st : Tentative(st)' = {}
  BY DEF Tentative
<1> QED
  BY <1>1, <1>2, StaySame

LEMMA QuietSteps ==
  ASSUME IInv, Begin \/ UpdateCopy \/ Prepared \/ Retry \/ ReturnNoSlot
  PROVE  Same
<1>1. v_cells' = v_cells
  BY DEF Begin, DecodeBegin, UpdateCopy, Prepared, Retry, ReturnNoSlot, memVars
<1>2. stack = <<>> /\ phase # "compute"
  <2>1. phase \in {"idle", "update"} => stack = <<>>
    BY DEF IInv, StackOK
  <2> QED
    BY <2>1 DEF Begin, DecodeBegin, UpdateCopy, Prepared, Retry, ReturnNoSlot
<1>3. stack' = <<>> /\ phase' # "compute"
  BY <1>2 DEF Begin, DecodeBegin, UpdateCopy, Prepared, Retry, ReturnNoSlot, Idle, callVars
<1> QED
  BY <1>1, <1>2, <1>3, QuietSame

LEMMA UpdateShiftSame ==
  ASSUME IInv, IInv', UpdateShift
  PROVE  Same
<1>1. \A st \in Stream : v_cells'[st].pos = v_cells[st].pos /\ v_cells'[st].seq = v_cells[st].seq
  BY UpdateShiftCells
<1>2. stack = <<>> /\ stack' = <<>> /\ phase # "compute" /\ phase' # "compute"
  BY UpdateShiftCells
<1> QED
  BY <1>1, <1>2, QuietSame

LEMMA PrepareEndSame == PrepareEnd => Same
<1> SUFFICES ASSUME PrepareEnd PROVE Same
  OBVIOUS
<1>1. v_cells' = v_cells /\ stack' = stack /\ phase = "prepare" /\ phase' = "restore"
  BY DEF PrepareEnd, memVars
<1>2. \A st : Tentative(st)' = Tentative(st)
  BY <1>1 DEF Tentative
<1> QED
  BY <1>1, <1>2, StaySame

LEMMA PrepareSlotSame ==
  ASSUME NSwa = 0, Settled, Settled', PrepareSlot
  PROVE  Same
<1>1. Stacked /\ IInv
  BY DEF Settled, TryInv
<1>0. PICK n, sinfo : n = Len(sinfos) /\ sinfo = SlotsFor(ubatches[n + 1])
  OBVIOUS
<1>2. /\ n \in Nat /\ n + 1 \in 1 .. Len(ubatches) /\ Len(stack) = n
      /\ phase = "prepare" /\ phase' = "prepare"
      /\ ubatches[n + 1] \in UBatch /\ Places(sinfo, ubatches[n + 1])
      /\ Apply(sinfo, ubatches[n + 1])
      /\ Len(stack') = n + 1
      /\ \A k \in 1 .. n : sinfos'[k] = sinfos[k]
      /\ sinfos'[n + 1] = sinfo
  BY <1>0, <1>1, PrepareSlotFacts
<1>3. Vacates(sinfo)
  <2>1. \A st \in Stream : DOMAIN sinfo[st] \in SUBSET Usable(v_cells[st])
    BY <1>0, <1>1, <1>2, FoundFacts
  <2> QED
    BY <2>1, OnlyEmpty DEF Vacates, Usable
<1>4. ASSUME NEW st \in Stream
      PROVE  Tentative(st) = Taken(n, st) /\ Tentative(st)' = Taken(n, st) \cup DOMAIN sinfo[st]
  <2>1. Tentative(st) = Taken(n, st)
    BY <1>2, TentativeFacts DEF TentativeIs
  <2>2. Tentative(st)' = Taken(Len(stack), st)'
    BY <1>2, TentativeFactsNext DEF TentativeIs, Stream
  <2>3. Taken(n + 1, st)' = Taken(n, st) \cup DOMAIN sinfo[st]
    BY <1>2, AppendedSlots
  <2>4. Taken(Len(stack), st)' = Taken(n + 1, st)'
    BY <1>2 DEF Taken
  <2> QED
    BY <2>1, <2>2, <2>3, <2>4
<1>5. ASSUME NEW st \in Stream, NEW i \in Cell
      PROVE  /\ i \in DOMAIN sinfo[st] => v_cells[st].pos[i] = Empty
             /\ i \notin DOMAIN sinfo[st] => /\ v_cells'[st].pos[i] = v_cells[st].pos[i]
                                             /\ v_cells'[st].seq[i] = v_cells[st].seq[i]
  BY <1>1, <1>2, <1>3, ApplyFacts DEF Vacates
<1> QED
  BY <1>4, <1>5 DEF Same, Shows

LEMMA RestoreSlotSame ==
  ASSUME Settled, Settled', PrepInv, RestoreSlot
  PROVE  Same
<1>1. Stacked /\ IInv /\ Blanks
  BY DEF Settled, TryInv, PrepInv
<1>0. PICK n : n = Len(stack)
  OBVIOUS
<1>2. /\ n \in Nat \ {0} /\ phase = "restore" /\ phase' = "restore" /\ Len(stack') = n - 1
      /\ \A k, st : Taken(k, st)' = Taken(k, st)
      /\ \A st \in Stream : Taken(n, st) = Taken(n - 1, st) \cup Slots(n, st)
      /\ \A st \in Stream : \A i \in Cell :
           /\ v_cells'[st].pos[i] = IF i \in Slots(n, st) THEN stack[n].cells[st][i].pos
                                                          ELSE v_cells[st].pos[i]
           /\ v_cells'[st].seq[i] = IF i \in Slots(n, st) THEN stack[n].cells[st][i].seq
                                                          ELSE v_cells[st].seq[i]
  BY <1>0, <1>1, RestoreSlotFacts
<1>3. ASSUME NEW st \in Stream
      PROVE  Tentative(st) = Taken(n, st) /\ Tentative(st)' = Taken(n - 1, st)
  <2>1. Tentative(st) = Taken(n, st)
    BY <1>0, <1>2, TentativeFacts DEF TentativeIs
  <2>2. Tentative(st)' = Taken(Len(stack), st)'
    BY <1>2, TentativeFactsNext DEF TentativeIs, Stream
  <2>3. Taken(Len(stack), st)' = Taken(n - 1, st)'
    BY <1>2 DEF Taken
  <2> QED
    BY <1>2, <2>1, <2>2, <2>3
<1>4. \A st \in Stream : \A i \in Slots(n, st) : stack[n].cells[st][i].pos = Empty
  BY <1>0, <1>1, <1>2 DEF Blanks, Blank
<1> QED
  BY <1>2, <1>3, <1>4 DEF Same, Shows

LEMMA ApplyUbatchSame ==
  ASSUME Settled, Settled', PrepInv, ApplyUbatch
  PROVE  Same
<1>0. PICK n, sinfo : n = i_cur /\ sinfo = sinfos[n]
  OBVIOUS
<1>1. /\ IInv /\ phase = "apply" /\ phase' = "compute" /\ stack = <<>>
      /\ i_cur' = n /\ sinfos' = sinfos /\ Apply(sinfo, ubatches[n])
  BY <1>0 DEF Settled, ApplyUbatch, IInv, StackOK
<1>2. /\ n \in 1 .. Len(sinfos) /\ ubatches[n] \in UBatch /\ Places(sinfo, ubatches[n])
  BY <1>0, <1>1, CurrentSlot DEF IInv, CallOK
<1>3. Vacates(sinfo)
  BY <1>0, <1>1, <1>2 DEF PrepInv, Vacant, ToCome, Vacates, Slots
<1>4. ASSUME NEW st \in Stream
      PROVE  Tentative(st) = {} /\ Tentative(st)' = DOMAIN sinfo[st]
  <2>1. Tentative(st) = {}
    BY <1>1, NoneTentative
  <2>2. Tentative(st)' = Slots(i_cur, st)'
    BY <1>1, TentativeFactsNext DEF TentativeIs, Stream
  <2>3. Slots(i_cur, st)' = DOMAIN sinfo[st]
    BY <1>0, <1>1 DEF Slots
  <2> QED
    BY <2>1, <2>2, <2>3
<1>5. ASSUME NEW st \in Stream, NEW i \in Cell
      PROVE  /\ i \in DOMAIN sinfo[st] => v_cells[st].pos[i] = Empty
             /\ i \notin DOMAIN sinfo[st] => /\ v_cells'[st].pos[i] = v_cells[st].pos[i]
                                             /\ v_cells'[st].seq[i] = v_cells[st].seq[i]
  BY <1>1, <1>2, <1>3, ApplyFacts DEF Vacates
<1> QED
  BY <1>4, <1>5 DEF Same, Shows

(* A decode is invisible but for the graphs.                               *)
LEMMA DecodeSame ==
  ASSUME NSwa = 0, Settled, Settled', PrepInv, Begin \/ (DecodeStep /\ ~ComputeOk /\ ~ComputeFail)
  PROVE  Same
<1>1. IInv /\ IInv'
  BY DEF Settled
<1> QED
  BY <1>1, QuietSteps, UpdateShiftSame, PrepareSlotSame, PrepareEndSame, RestoreSlotSame,
     ApplyUbatchSame DEF DecodeStep

-----------------------------------------------------------------------------
(* Where the code keeps the promises of include/eden.h: seq_keep looks at  *)
(* one stream only, and a cell is moved for all its sequences.             *)
Documented ==
  /\ Unified \/ KeepSeqs = {}
  /\ NSeqMax = 1 \/ ~Unified \/ AddRanges \cup DivRanges = {}

LEMMA NobodyElse ==
  ASSUME NSeqMax = 1 \/ ~Unified, NEW s \in SeqId, NEW r
  PROVE  Alone(s, r)
<1>1. CASE NSeqMax = 1
  <2>1. \A t \in SeqId : t = s
    BY <1>1 DEF SeqId
  <2> QED
    BY <2>1 DEF Alone
<1>2. CASE ~Unified
  BY <1>2 DEF Alone, seq_to_stream
<1> QED
  BY <1>1, <1>2

(* Every memory operation is one of the store's.                           *)
LEMMA MemoryOpStore ==
  ASSUME Documented, IInv, IInv', MemoryOp
  PROVE  Store!Next
<1>1. CASE \E data \in BOOLEAN : clear(data)
  BY <1>1, ClearStore DEF Store!Next
<1>2. CASE \E s \in SeqId, r \in RmRanges : SeqRm(s, r)
  BY <1>2, SeqRmStore DEF Store!Next
<1>3. CASE \E r \in RmRanges : SeqRmAny(r)
  BY <1>3, SeqRmAnyStore DEF Store!Next
<1>4. CASE \E src, dst \in SeqId, r \in CpRanges : Fresh(src, dst, r) /\ SeqCpSame(src, dst, r)
  BY <1>4, SeqCpSameStore DEF Store!Next
<1>5. CASE \E src, dst \in SeqId, r \in CpRanges : SeqCpCross(src, dst, r)
  BY <1>5, SeqCpCrossStore DEF Store!Next
<1>6. CASE \E s \in KeepSeqs : SeqKeep(s)
  <2>1. PICK s \in KeepSeqs : SeqKeep(s)
    BY <1>6
  <2>2. s \in SeqId /\ Unified
    BY KeepSeqsAssumption DEF Documented
  <2> QED
    BY <2>1, <2>2, SeqKeepStore DEF Store!Next
<1>7. CASE \E s \in SeqId, r \in AddRanges, d \in Deltas : SeqAdd(s, r, d)
  <2>1. PICK s \in SeqId, r \in AddRanges, d \in Deltas : SeqAdd(s, r, d)
    BY <1>7
  <2>2. Alone(s, r)
    BY NobodyElse DEF Documented
  <2> QED
    BY <2>1, <2>2, SeqAddStore DEF Store!Next
<1>8. CASE \E s \in SeqId, r \in DivRanges, d \in Divs : SeqDiv(s, r, d)
  <2>1. PICK s \in SeqId, r \in DivRanges, d \in Divs : SeqDiv(s, r, d)
    BY <1>8
  <2>2. Alone(s, r)
    BY NobodyElse DEF Documented
  <2> QED
    BY <2>1, <2>2, SeqDivStore DEF Store!Next
<1> QED
  BY <1>1, <1>2, <1>3, <1>4, <1>5, <1>6, <1>7, <1>8 DEF MemoryOp

-----------------------------------------------------------------------------
(* find_slot gives every token of the micro-batch a cell of its own.       *)

Fills(slot, n) ==
  /\ \A i, j \in DOMAIN slot : slot[i] = slot[j] => i = j
  /\ \A x \in 1 .. n : \E i \in DOMAIN slot : slot[i] = x

LEMMA RankLess ==
  ASSUME NEW c, NEW start \in Int, NEW i \in Cell, NEW j \in Cell, CanUse(c, i),
         Rem(i - start) < Rem(j - start)
  PROVE  Rank(c, start, i) < Rank(c, start, j)
<1> DEFINE L(x) == {y \in Cell : CanUse(c, y) /\ (y - start) % Size < (x - start) % Size}
<1>1. \A x \in Cell : Rem(x - start) \in Int
  <2> TAKE x \in Cell
  <2>1. x - start \in Int
    BY SizeAssumption DEF Cell
  <2> QED
    BY <2>1, RemFacts, SizeAssumption
<1>2. i \notin L(i)
  BY <1>1 DEF Rem
<1>3. L(i) \cup {i} \subseteq L(j)
  BY <1>1 DEF Rem
<1>4. L(i) \in SUBSET Cell /\ L(j) \in SUBSET Cell /\ L(i) \cup {i} \in SUBSET L(j)
  BY <1>3
<1>5. Rank(c, start, i) = Cardinality(L(i)) /\ Rank(c, start, j) = Cardinality(L(j))
  BY DEF Rank
<1> HIDE DEF L
<1>6. IsFiniteSet(L(i)) /\ IsFiniteSet(L(j)) /\ Cardinality(L(i)) \in Nat /\ Cardinality(L(j)) \in Nat
  BY <1>4, CellFinite
<1>7. Cardinality(L(i) \cup {i}) = Cardinality(L(i)) + 1
  BY <1>2, <1>6, FS_AddElement
<1>8. Cardinality(L(i) \cup {i}) <= Cardinality(L(j))
  BY <1>4, <1>6, FS_Subset
<1> QED
  BY <1>5, <1>6, <1>7, <1>8

LEMMA RankApart ==
  ASSUME NEW c, NEW start \in Int, NEW i \in Cell, NEW j \in Cell, CanUse(c, i), CanUse(c, j),
         Rank(c, start, i) = Rank(c, start, j)
  PROVE  i = j
<1>1. Rem(i - start) \in Int /\ Rem(j - start) \in Int
  <2>1. i - start \in Int /\ j - start \in Int
    BY SizeAssumption DEF Cell
  <2> QED
    BY <2>1, RemFacts, SizeAssumption
<1>2. Rank(c, start, i) \in Nat
  <2>1. {y \in Cell : CanUse(c, y) /\ (y - start) % Size < (i - start) % Size} \in SUBSET Cell
    OBVIOUS
  <2> QED
    BY <2>1, CellFinite DEF Rank
<1>3. ~(Rem(i - start) < Rem(j - start)) /\ ~(Rem(j - start) < Rem(i - start))
  BY <1>2, RankLess
<1>4. Rem(i - start) = Rem(j - start)
  BY <1>1, <1>3
<1> QED
  BY <1>4, RemInjective

LEMMA FindSlotFills ==
  ASSUME NEW c, c.used \in SUBSET Cell, NEW head \in Int, NEW n \in Nat,
         Cardinality(DOMAIN find_slot(c, head, n)) = n
  PROVE  Fills(find_slot(c, head, n), n)
<1> DEFINE start == ScanFrom(c, head, n)
           slot == find_slot(c, head, n)
           M == DOMAIN slot
<1>1. start \in Int
  BY CellFinite DEF ScanFrom
<1>2. \A i \in M : i \in Cell /\ CanUse(c, i) /\ slot[i] = Rank(c, start, i) + 1
  BY DEF find_slot
<1>3. \A i \in M : slot[i] \in 1 .. n
  BY FindSlotFacts
<1>4. M \in SUBSET Cell
  BY <1>2
<1>5. slot = [i \in M |-> slot[i]]
  BY DEF find_slot
<1>6. \A i \in M : Rank(c, start, i) \in Nat
  <2> TAKE i \in M
  <2>1. {y \in Cell : CanUse(c, y) /\ (y - start) % Size < (i - start) % Size} \in SUBSET Cell
    OBVIOUS
  <2> QED
    BY <2>1, CellFinite DEF Rank
<1> HIDE DEF slot, start
<1>7. \A i, j \in M : slot[i] = slot[j] => i = j
  <2> SUFFICES ASSUME NEW i \in M, NEW j \in M, slot[i] = slot[j] PROVE i = j
    OBVIOUS
  <2>1. Rank(c, start, i) = Rank(c, start, j)
    BY <1>2, <1>6
  <2> QED
    BY <1>1, <1>2, <2>1, RankApart
<1>8. slot \in Injection(M, 1 .. n)
  <2>1. slot \in [M -> 1 .. n]
    BY <1>3, <1>5
  <2> QED
    BY <2>1, <1>7 DEF Injection, IsInjective
<1>9. IsFiniteSet(1 .. n) /\ Cardinality(1 .. n) = n
  BY FS_Interval
<1>10. slot \in Surjection(M, 1 .. n)
  BY <1>8, <1>9, FS_Injection DEF slot
<1>11. \A x \in 1 .. n : \E i \in M : slot[i] = x
  BY <1>10 DEF Surjection
<1> QED
  BY <1>7, <1>11 DEF Fills, slot

-----------------------------------------------------------------------------
(* How a batch is cut into micro-batches: on a stream, they are the pieces *)
(* of its tokens toks from x to y, c[k] of which precede micro-batch k.    *)

IsCut(c, ubs, st, toks, x, y) ==
  /\ c \in [1 .. Len(ubs) + 1 -> Nat]
  /\ c[1] = x /\ c[Len(ubs) + 1] = y
  /\ \A k \in 1 .. Len(ubs) + 1 : c[k] <= y
  /\ \A k \in 1 .. Len(ubs) :
       /\ c[k] <= c[k + 1] /\ c[k + 1] <= c[k] + NUbatch
       /\ Len(ubs[k][st]) = c[k + 1] - c[k]
       /\ \A j \in 1 .. c[k + 1] - c[k] : ubs[k][st][j] = toks[c[k] + j]

Cut(ubs, st, toks, x, y) == \E c : IsCut(c, ubs, st, toks, x, y)

LEMMA CutNone ==
  ASSUME NEW S, NEW ubs \in Seq(S), NEW st, NEW toks, NEW x \in Nat,
         \A k \in 1 .. Len(ubs) : ubs[k][st] = <<>>
  PROVE  Cut(ubs, st, toks, x, x)
<1> DEFINE c == [k \in 1 .. Len(ubs) + 1 |-> x]
<1>1. Len(ubs) \in Nat
  BY LenProperties
<1>2. Len(<<>>) = 0
  BY EmptySeq
<1>3. \A k \in 1 .. Len(ubs) : k \in 1 .. Len(ubs) + 1 /\ k + 1 \in 1 .. Len(ubs) + 1
  BY <1>1
<1>4. c \in [1 .. Len(ubs) + 1 -> Nat] /\ \A k \in 1 .. Len(ubs) + 1 : c[k] = x
  OBVIOUS
<1> HIDE DEF c
<1>5. IsCut(c, ubs, st, toks, x, x)
  BY <1>1, <1>2, <1>3, <1>4, NUbatchAssumption DEF IsCut
<1> QED
  BY <1>5 DEF Cut

(* Pieces of q tokens, in numbers.                                         *)
LEMMA Pieces ==
  ASSUME NEW q \in Nat \ {0}, NEW len \in Nat
  PROVE  /\ NChunks(q, len) * q >= len
         /\ \A k \in 1 .. NChunks(q, len) : (k - 1) * q \in Nat /\ (k - 1) * q < len
<1> DEFINE N == NChunks(q, len)
<1>1. N \in Nat
  BY NChunksFacts
<1>2. q * N <= len + q - 1 /\ len + q - 1 < q * (N + 1)
  <2> DEFINE x == len + q - 1
             r == x \div q
  <2>1. x \in Nat
    OBVIOUS
  <2> HIDE DEF x
  <2>2. q * r <= x /\ x < q * (r + 1)
    BY <2>1, SMT
  <2> QED
    BY <2>2 DEF NChunks, x
<1> HIDE DEF N
<1>3. N * q >= len
  BY <1>1, <1>2, SMT
<1>4. ASSUME NEW k \in 1 .. N
      PROVE  (k - 1) * q \in Nat /\ (k - 1) * q < len
  <2>1. k - 1 \in Nat /\ N - k \in Nat
    BY <1>1
  <2>2. (k - 1) * q \in Nat /\ (N - k) * q \in Nat
    BY <2>1, SMT
  <2>3. q * N = (k - 1) * q + (N - k) * q + q
    BY <1>1, <2>1, SMT
  <2> QED
    BY <1>1, <1>2, <2>2, <2>3
<1> QED
  BY <1>3, <1>4 DEF N

LEMMA ChunkCells ==
  ASSUME NEW q \in Nat \ {0}, NEW t \in Seq(Token), NEW k \in 1 .. NChunks(q, Len(t))
  PROVE  LET a == (k - 1) * q
             b == Lesser(k * q, Len(t))
         IN  /\ a \in Nat /\ b \in Nat /\ a <= b /\ b <= a + q /\ b <= Len(t)
             /\ a = Lesser((k - 1) * q, Len(t))
             /\ Len(Chunk(q, k, t)) = b - a
             /\ \A j \in 1 .. b - a : Chunk(q, k, t)[j] = t[a + j]
<1> DEFINE a == (k - 1) * q
           b == Lesser(k * q, Len(t))
<1>1. Len(t) \in Nat /\ a \in Nat /\ a < Len(t)
  BY Pieces, LenProperties
<1>2. k * q = a + q
  <2>1. k \in Int
    BY NChunksFacts, LenProperties
  <2> QED
    BY <2>1, SMT
<1>3. Chunk(q, k, t) = SubSeq(t, a + 1, b)
  BY DEF Chunk
<1>4. a = Lesser(a, Len(t))
  BY <1>1 DEF Lesser
<1>5. b \in Nat /\ a <= b /\ b <= a + q /\ b <= Len(t)
  BY <1>1, <1>2 DEF Lesser
<1> HIDE DEF a, b
<1>6. Len(SubSeq(t, a + 1, b)) = b - a
  BY <1>1, <1>5, SubSeqType
<1>7. ASSUME NEW j \in 1 .. b - a
      PROVE  SubSeq(t, a + 1, b)[j] = t[a + j]
  <2>1. \A i \in a + 1 .. b : t[i] \in Token
    BY <1>1, <1>5, ElementOfSeq, LenProperties
  <2>2. SubSeq(t, a + 1, b)[j] = t[a + 1 + j - 1]
    BY <1>1, <1>5, <2>1, SubSeqProperties
  <2>3. a + 1 + j - 1 = a + j
    BY <1>1, <1>5
  <2> QED
    BY <2>2, <2>3
<1>8. /\ a \in Nat /\ b \in Nat /\ a <= b /\ b <= a + q /\ b <= Len(t)
      /\ a = Lesser(a, Len(t))
      /\ Len(Chunk(q, k, t)) = b - a
      /\ \A j \in 1 .. b - a : Chunk(q, k, t)[j] = t[a + j]
  BY <1>1, <1>3, <1>4, <1>5, <1>6, <1>7
<1> QED
  BY <1>8 DEF a, b

(* The pieces of t, which are the tokens of toks from x on.                *)
LEMMA CutChunks ==
  ASSUME NEW q \in Nat \ {0}, q <= NUbatch, NEW t \in Seq(Token), NEW S, NEW ubs \in Seq(S),
         Len(ubs) = NChunks(q, Len(t)), NEW st, NEW toks, NEW x \in Nat,
         \A k \in 1 .. Len(ubs) : ubs[k][st] = Chunk(q, k, t),
         \A j \in 1 .. Len(t) : t[j] = toks[x + j]
  PROVE  Cut(ubs, st, toks, x, x + Len(t))
<1> DEFINE N == Len(ubs)
           L == Len(t)
           w == [k \in 1 .. N + 1 |-> Lesser((k - 1) * q, L)]
           c == [k \in 1 .. N + 1 |-> x + w[k]]
<1>1. N \in Nat /\ L \in Nat /\ \A k \in 1 .. N : k \in 1 .. N + 1 /\ k + 1 \in 1 .. N + 1
  BY LenProperties
<1>2. ASSUME NEW k \in 1 .. N
      PROVE  /\ w[k] \in Nat /\ w[k + 1] \in Nat /\ w[k] <= w[k + 1] /\ w[k + 1] <= w[k] + q
             /\ w[k] <= L
             /\ Len(ubs[k][st]) = w[k + 1] - w[k]
             /\ \A j \in 1 .. w[k + 1] - w[k] : ubs[k][st][j] = t[w[k] + j]
  <2>1. w[k] = Lesser((k - 1) * q, L) /\ w[k + 1] = Lesser((k + 1 - 1) * q, L)
    BY <1>1
  <2>2. k + 1 - 1 = k
    BY <1>1
  <2>3. w[k + 1] = Lesser(k * q, L)
    BY <2>1, <2>2
  <2>4. k \in 1 .. NChunks(q, Len(t)) /\ ubs[k][st] = Chunk(q, k, t)
    OBVIOUS
  <2>5. w[k] = (k - 1) * q
    BY <2>1, <2>4, ChunkCells
  <2> HIDE DEF w
  <2>6. LET a == w[k]
            b == w[k + 1]
        IN  /\ a \in Nat /\ b \in Nat /\ a <= b /\ b <= a + q /\ b <= Len(t)
            /\ Len(Chunk(q, k, t)) = b - a
            /\ \A j \in 1 .. b - a : Chunk(q, k, t)[j] = t[a + j]
    BY <2>3, <2>4, <2>5, ChunkCells
  <2> QED
    BY <1>1, <2>4, <2>6
<1>3. w[1] = 0 /\ w[N + 1] = L
  <2>1. w[1] = Lesser((1 - 1) * q, L) /\ w[N + 1] = Lesser((N + 1 - 1) * q, L)
    BY <1>1
  <2>2. (1 - 1) * q = 0 /\ (N + 1 - 1) * q = N * q
    BY <1>1
  <2>3. N * q >= L /\ N * q \in Int
    BY <1>1, Pieces
  <2> QED
    BY <1>1, <2>1, <2>2, <2>3 DEF Lesser
<1>4. \A k \in 1 .. N + 1 : w[k] \in Nat /\ w[k] <= L
  <2> TAKE k \in 1 .. N + 1
  <2>1. k \in 1 .. N \/ k = N + 1
    BY <1>1
  <2> HIDE DEF w
  <2>2. CASE k \in 1 .. N
    BY <1>2, <2>2
  <2>3. CASE k = N + 1
    BY <1>1, <1>3, <2>3
  <2> QED
    BY <2>1, <2>2, <2>3
<1> HIDE DEF w
<1>5. \A k \in 1 .. N + 1 : c[k] = x + w[k] /\ c[k] \in Nat /\ c[k] <= x + L
  BY <1>1, <1>4
<1>6. c \in [1 .. N + 1 -> Nat]
  BY <1>5
<1>7. c[1] = x /\ c[N + 1] = x + L
  BY <1>1, <1>3, <1>5
<1> HIDE DEF c
<1>8. ASSUME NEW k \in 1 .. N
      PROVE  /\ c[k] <= c[k + 1] /\ c[k + 1] <= c[k] + NUbatch
             /\ Len(ubs[k][st]) = c[k + 1] - c[k]
             /\ \A j \in 1 .. c[k + 1] - c[k] : ubs[k][st][j] = toks[c[k] + j]
  <2>1. c[k] = x + w[k] /\ c[k + 1] = x + w[k + 1]
    BY <1>1, <1>5
  <2>2. c[k + 1] - c[k] = w[k + 1] - w[k] /\ c[k] <= c[k + 1] /\ c[k + 1] <= c[k] + NUbatch
    BY <1>2, <2>1, NUbatchAssumption
  <2>3. ASSUME NEW j \in 1 .. w[k + 1] - w[k]
        PROVE  ubs[k][st][j] = toks[c[k] + j]
    <3>0. w[k + 1] <= L
      <4>1. k + 1 \in 1 .. N \/ k + 1 = N + 1
        BY <1>1
      <4> QED
        BY <1>1, <1>2, <1>3, <4>1
    <3>1. PICK a, b, e : a = w[k] /\ b = w[k + 1] /\ e = c[k]
      OBVIOUS
    <3>2. a \in Nat /\ b \in Nat /\ b <= L /\ e = x + a
      BY <1>1, <1>4, <2>1, <3>0, <3>1
    <3>3. j \in 1 .. b - a
      BY <3>1
    <3>4. a + j \in 1 .. L /\ x + (a + j) = e + j
      BY <1>1, <3>2, <3>3
    <3>5. t[a + j] = toks[x + (a + j)]
      BY <3>4
    <3>6. ubs[k][st][j] = t[a + j]
      BY <1>2, <3>1
    <3>7. toks[x + (a + j)] = toks[c[k] + j]
      BY <3>1, <3>4, Zenon
    <3> QED
      BY <3>5, <3>6, <3>7
  <2> QED
    BY <1>2, <2>2, <2>3
<1>9. IsCut(c, ubs, st, toks, x, x + L)
  BY <1>5, <1>6, <1>7, <1>8 DEF IsCut
<1> QED
  BY <1>9 DEF Cut

(* A cut followed by another.                                              *)
LEMMA CutConcat ==
  ASSUME NEW S, NEW u \in Seq(S), NEW v \in Seq(S), NEW st, NEW toks, NEW x, NEW y, NEW z,
         Cut(u, st, toks, x, y), Cut(v, st, toks, y, z)
  PROVE  Cut(u \o v, st, toks, x, z)
<1>1. PICK a : IsCut(a, u, st, toks, x, y)
  BY DEF Cut
<1>2. PICK b : IsCut(b, v, st, toks, y, z)
  BY DEF Cut
<1> DEFINE M == Len(u)
           N == Len(v)
           ubs == u \o v
           c == [k \in 1 .. M + N + 1 |-> IF k <= M THEN a[k] ELSE b[k - M]]
<1>3. M \in Nat /\ N \in Nat /\ Len(ubs) = M + N
      /\ \A k \in 1 .. M + N : ubs[k] = IF k <= M THEN u[k] ELSE v[k - M]
  BY LenProperties, ConcatProperties
<1> HIDE DEF ubs
<1>4. /\ a \in [1 .. M + 1 -> Nat] /\ b \in [1 .. N + 1 -> Nat]
      /\ a[1] = x /\ a[M + 1] = y /\ b[1] = y /\ b[N + 1] = z
      /\ \A k \in 1 .. M + 1 : a[k] <= y
      /\ \A k \in 1 .. N + 1 : b[k] <= z
  BY <1>1, <1>2 DEF IsCut
<1>5. /\ \A k \in 1 .. M + 1 : c[k] = a[k]
      /\ \A k \in 1 .. N + 1 : c[M + k] = b[k]
  <2>1. \A k \in 1 .. M : c[k] = a[k]
    BY <1>3
  <2>2. ASSUME NEW k \in 1 .. N + 1
        PROVE  c[M + k] = b[k]
    <3>1. M + k \in 1 .. M + N + 1 /\ ~(M + k <= M) /\ M + k - M = k
      BY <1>3
    <3> QED
      BY <3>1
  <2>3. c[M + 1] = a[M + 1]
    <3>1. 1 \in 1 .. N + 1
      BY <1>3
    <3> HIDE DEF c
    <3> QED
      BY <3>1, <2>2, <1>4
  <2>4. \A k \in 1 .. M + 1 : k \in 1 .. M \/ k = M + 1
    BY <1>3
  <2> HIDE DEF c
  <2> QED
    BY <2>1, <2>2, <2>3, <2>4
<1>6. c \in [1 .. M + N + 1 -> Nat] /\ \A k \in 1 .. M + N + 1 : c[k] <= z
  <2>0. y \in Nat /\ z \in Nat /\ y <= z
    <3>1. 1 \in 1 .. N + 1 /\ N + 1 \in 1 .. N + 1
      BY <1>3
    <3> QED
      BY <3>1, <1>4
  <2>1. ASSUME NEW k \in 1 .. M + N + 1
        PROVE  c[k] \in Nat /\ c[k] <= z
    <3> HIDE DEF c
    <3>1. CASE k <= M
      <4>1. k \in 1 .. M + 1
        BY <1>3, <3>1
      <4>2. c[k] = a[k]
        BY <1>5, <4>1
      <4> QED
        BY <1>4, <2>0, <4>1, <4>2
    <3>2. CASE ~(k <= M)
      <4> DEFINE l == k - M
      <4>1. l \in 1 .. N + 1 /\ k = M + l
        BY <1>3, <3>2
      <4> HIDE DEF l
      <4>2. c[k] = b[l]
        BY <1>5, <4>1
      <4> QED
        BY <1>4, <4>1, <4>2
    <3> QED
      BY <3>1, <3>2
  <2> QED
    BY <2>1
<1> HIDE DEF c
<1>7. c[1] = x /\ c[M + N + 1] = z
  <2>1. 1 \in 1 .. M + 1 /\ N + 1 \in 1 .. N + 1 /\ M + N + 1 = M + (N + 1)
    BY <1>3
  <2> QED
    BY <2>1, <1>4, <1>5
<1>8. ASSUME NEW k \in 1 .. M + N
      PROVE  /\ c[k] <= c[k + 1] /\ c[k + 1] <= c[k] + NUbatch
             /\ Len(ubs[k][st]) = c[k + 1] - c[k]
             /\ \A j \in 1 .. c[k + 1] - c[k] : ubs[k][st][j] = toks[c[k] + j]
  <2>1. CASE k <= M
    <3>1. k \in 1 .. M /\ k \in 1 .. M + 1 /\ k + 1 \in 1 .. M + 1
      BY <1>3, <2>1
    <3>2. c[k] = a[k] /\ c[k + 1] = a[k + 1] /\ ubs[k] = u[k]
      BY <1>3, <1>5, <2>1, <3>1
    <3> QED
      BY <1>1, <3>1, <3>2 DEF IsCut
  <2>2. CASE ~(k <= M)
    <3> DEFINE l == k - M
    <3>1. l \in 1 .. N /\ l \in 1 .. N + 1 /\ l + 1 \in 1 .. N + 1 /\ k = M + l /\ k + 1 = M + (l + 1)
      BY <1>3, <2>2
    <3>2. ubs[k] = v[l]
      BY <1>3, <2>2
    <3> HIDE DEF l
    <3>3. c[k] = b[l] /\ c[k + 1] = b[l + 1]
      BY <1>5, <3>1
    <3> QED
      BY <1>2, <3>1, <3>2, <3>3 DEF IsCut
  <2> QED
    BY <2>1, <2>2
<1>9. IsCut(c, ubs, st, toks, x, z)
  BY <1>3, <1>6, <1>7, <1>8 DEF IsCut
<1> QED
  BY <1>9 DEF Cut, ubs

LEMMA OneStreamCut ==
  ASSUME NEW t \in Seq(Token), NEW s, NEW st \in Stream, NEW toks, NEW x \in Nat
  PROVE  /\ st # s \/ Len(t) = 0 => Cut(OneStream(s, t), st, toks, x, x)
         /\ st = s /\ (\A j \in 1 .. Len(t) : t[j] = toks[x + j])
              => Cut(OneStream(s, t), st, toks, x, x + Len(t))
<1> DEFINE N == NChunks(NUbatch, Len(t))
           f == OneStream(s, t)
<1>1. N \in Nat /\ Len(t) \in Nat
  BY LenProperties, NChunksFacts, NUbatchAssumption
<1>2. f = [k \in 1 .. N |-> [y \in Stream |-> IF y = s THEN Chunk(NUbatch, k, t) ELSE <<>>]]
  BY DEF OneStream
<1>3. Len(t) = 0 => N = 0
  BY NChunksNone, NUbatchAssumption
<1>4. f \in Seq(Short(Len(t)))
  BY <1>1, OneStreamType
<1> HIDE DEF N, f
<1>5. Len(f) = N
  BY <1>1, <1>2, <1>4, LenProperties
<1>6. \A k \in 1 .. N : f[k][st] = IF st = s THEN Chunk(NUbatch, k, t) ELSE <<>>
  BY <1>2
<1>7. st # s \/ Len(t) = 0 => Cut(f, st, toks, x, x)
  <2> SUFFICES ASSUME st # s \/ Len(t) = 0 PROVE Cut(f, st, toks, x, x)
    OBVIOUS
  <2>1. \A k \in 1 .. Len(f) : f[k][st] = <<>>
    BY <1>3, <1>5, <1>6
  <2> QED
    BY <1>4, <2>1, CutNone
<1>8. st = s /\ (\A j \in 1 .. Len(t) : t[j] = toks[x + j]) => Cut(f, st, toks, x, x + Len(t))
  <2> SUFFICES ASSUME st = s, \A j \in 1 .. Len(t) : t[j] = toks[x + j]
               PROVE  Cut(f, st, toks, x, x + Len(t))
    OBVIOUS
  <2>1. \A k \in 1 .. Len(f) : f[k][st] = Chunk(NUbatch, k, t)
    BY <1>5, <1>6
  <2>2. Len(f) = NChunks(NUbatch, Len(t))
    BY <1>5 DEF N
  <2>3. NUbatch \in Nat \ {0} /\ NUbatch <= NUbatch
    BY NUbatchAssumption
  <2> QED
    BY <1>4, <2>1, <2>2, <2>3, CutChunks
<1> QED
  BY <1>7, <1>8 DEF f

(* A unified cache: the micro-batches are the pieces of the batch.         *)
LEMMA SplitSimpleCut ==
  ASSUME NEW t \in Seq(Token), NEW st \in Stream
  PROVE  Cut(split_simple(t), st, t, 0, Len(t))
<1> DEFINE N == NChunks(NUbatch, Len(t))
           f == split_simple(t)
<1>1. N \in Nat /\ Len(t) \in Nat
  BY LenProperties, NChunksFacts, NUbatchAssumption
<1>2. f = [k \in 1 .. N |-> [y \in Stream |-> Chunk(NUbatch, k, t)]]
  BY DEF split_simple
<1>3. f \in Seq(Short(Len(t)))
  BY <1>1, SplitSimpleType
<1> HIDE DEF f
<1>4. Len(f) = N
  <2> HIDE DEF N
  <2> QED
    BY <1>1, <1>2, <1>3, LenProperties
<1>5. \A k \in 1 .. Len(f) : f[k][st] = Chunk(NUbatch, k, t)
  BY <1>2, <1>4
<1>6. \A j \in 1 .. Len(t) : t[j] = t[0 + j]
  BY <1>1
<1>7. NUbatch \in Nat \ {0} /\ NUbatch <= NUbatch /\ 0 \in Nat /\ 0 + Len(t) = Len(t)
  BY <1>1, NUbatchAssumption
<1>8. Cut(f, st, t, 0, 0 + Len(t))
  BY <1>3, <1>4, <1>5, <1>6, <1>7, CutChunks
<1> QED
  BY <1>7, <1>8 DEF f

LEMMA SubSeqCells ==
  ASSUME NEW t \in Seq(Token), NEW m \in Nat, NEW n \in Nat, m <= n, n <= Len(t)
  PROVE  /\ SubSeq(t, m + 1, n) \in Seq(Token) /\ Len(SubSeq(t, m + 1, n)) = n - m
         /\ \A j \in 1 .. n - m : SubSeq(t, m + 1, n)[j] = t[m + j]
<1>1. \A i \in m + 1 .. n : t[i] \in Token
  BY ElementOfSeq, LenProperties
<1>2. /\ SubSeq(t, m + 1, n) \in Seq(Token)
      /\ Len(SubSeq(t, m + 1, n)) = IF m + 1 <= n THEN n - (m + 1) + 1 ELSE 0
      /\ \A j \in 1 .. n - (m + 1) + 1 : SubSeq(t, m + 1, n)[j] = t[m + 1 + j - 1]
  BY <1>1, SubSeqProperties
<1>3. m + 1 <= n => n - (m + 1) + 1 = n - m
  OBVIOUS
<1>4. ~(m + 1 <= n) => n - m = 0
  OBVIOUS
<1>5. n - (m + 1) + 1 = n - m
  OBVIOUS
<1>6. Len(SubSeq(t, m + 1, n)) = n - m
  BY <1>2, <1>4, <1>5, Zenon
<1>7. ASSUME NEW j \in 1 .. n - m
      PROVE  SubSeq(t, m + 1, n)[j] = t[m + j]
  <2>1. m + 1 + j - 1 = m + j
    OBVIOUS
  <2>2. j \in 1 .. n - (m + 1) + 1
    BY <1>5, Zenon
  <2>3. SubSeq(t, m + 1, n)[j] = t[m + 1 + j - 1]
    BY <1>2, <2>2, Zenon
  <2> QED
    BY <2>1, <2>3, Zenon
<1> QED
  BY <1>2, <1>6, <1>7, Zenon

(* Streams of their own: a sequence gets its tokens in order, first        *)
(* together with the other one, then alone.                                *)
LEMMA SplitEqualCut ==
  ASSUME NEW toksA \in Seq(Token), NEW toksB \in Seq(Token), NEW a, NEW b, NEW st \in Stream,
         a # b \/ Len(toksB) = 0
  PROVE  LET t == IF st = a THEN toksA ELSE IF st = b THEN toksB ELSE <<>>
         IN  Cut(split_equal(a, toksA, b, toksB), st, t, 0, Len(t))
<1> DEFINE joint == IF b = a + 1 THEN Lesser(Len(toksA), Len(toksB)) ELSE 0
           q == IF NUbatch \div 2 = 0 THEN 1 ELSE NUbatch \div 2
           n == NChunks(q, joint)
           jA == SubSeq(toksA, 1, joint)
           jB == SubSeq(toksB, 1, joint)
           rA == SubSeq(toksA, joint + 1, Len(toksA))
           rB == SubSeq(toksB, joint + 1, Len(toksB))
           both == [k \in 1 .. n |->
                      [y \in Stream |-> IF y = a THEN Chunk(q, k, jA)
                                         ELSE IF y = b THEN Chunk(q, k, jB) ELSE <<>>]]
           oA == OneStream(a, rA)
           oB == OneStream(b, rB)
           t == IF st = a THEN toksA ELSE IF st = b THEN toksB ELSE <<>>
           S == [Stream -> Seq(Token)]
<1>1. split_equal(a, toksA, b, toksB) = both \o oA \o oB
  BY DEF split_equal
<1>2. /\ Len(toksA) \in Nat /\ Len(toksB) \in Nat
      /\ joint \in Nat /\ joint <= Len(toksA) /\ joint <= Len(toksB)
  BY LenProperties DEF Lesser
<1>3. q \in Nat \ {0} /\ q <= NUbatch
  BY DivFacts, NUbatchAssumption
<1>4. /\ jA \in Seq(Token) /\ Len(jA) = joint /\ \A j \in 1 .. joint : jA[j] = toksA[0 + j]
      /\ jB \in Seq(Token) /\ Len(jB) = joint /\ \A j \in 1 .. joint : jB[j] = toksB[0 + j]
  <2> HIDE DEF joint
  <2>1. 0 \in Nat /\ 0 + 1 = 1 /\ joint - 0 = joint /\ 0 <= joint
    BY <1>2
  <2>2. /\ SubSeq(toksA, 0 + 1, joint) \in Seq(Token) /\ Len(SubSeq(toksA, 0 + 1, joint)) = joint - 0
        /\ \A j \in 1 .. joint - 0 : SubSeq(toksA, 0 + 1, joint)[j] = toksA[0 + j]
    BY <1>2, <2>1, SubSeqCells
  <2>3. /\ SubSeq(toksB, 0 + 1, joint) \in Seq(Token) /\ Len(SubSeq(toksB, 0 + 1, joint)) = joint - 0
        /\ \A j \in 1 .. joint - 0 : SubSeq(toksB, 0 + 1, joint)[j] = toksB[0 + j]
    BY <1>2, <2>1, SubSeqCells
  <2> QED
    BY <2>1, <2>2, <2>3
<1>5. /\ rA \in Seq(Token) /\ Len(rA) = Len(toksA) - joint
      /\ \A j \in 1 .. Len(rA) : rA[j] = toksA[joint + j]
      /\ rB \in Seq(Token) /\ Len(rB) = Len(toksB) - joint
      /\ \A j \in 1 .. Len(rB) : rB[j] = toksB[joint + j]
  <2> HIDE DEF joint
  <2>1. /\ rA \in Seq(Token) /\ Len(rA) = Len(toksA) - joint
        /\ \A j \in 1 .. Len(toksA) - joint : rA[j] = toksA[joint + j]
    BY <1>2, SubSeqCells
  <2>2. /\ rB \in Seq(Token) /\ Len(rB) = Len(toksB) - joint
        /\ \A j \in 1 .. Len(toksB) - joint : rB[j] = toksB[joint + j]
    BY <1>2, SubSeqCells
  <2> HIDE DEF rA, rB
  <2> QED
    BY <2>1, <2>2
<1>6. n \in Nat
  <2> HIDE DEF joint, q
  <2> QED
    BY <1>2, <1>3, NChunksFacts
<1>7. a = b => joint = 0 /\ Len(toksB) = 0
  <2>1. a = b => Len(toksB) = 0
    OBVIOUS
  <2> QED
    BY <1>2, <2>1
<1>8. Len(<<>>) = 0 /\ <<>> \in Seq(Token)
  BY EmptySeq
<1> HIDE DEF joint, q, jA, jB, rA, rB
<1>9. both \in Seq(S) /\ Len(both) = n
  <2>1. \A k \in 1 .. n : Chunk(q, k, jA) \in Seq(Token) /\ Chunk(q, k, jB) \in Seq(Token)
    BY <1>3, <1>4, <1>6, ChunkType
  <2> HIDE DEF n
  <2>2. both \in [1 .. n -> S]
    BY <1>8, <2>1
  <2> HIDE DEF both, S
  <2> QED
    BY <1>6, <2>2, AsSeq
<1>10. oA \in Seq(S) /\ oB \in Seq(S)
  <2>1. oA \in Seq(UBatch) /\ oB \in Seq(UBatch)
    BY <1>2, <1>5, OneStreamType, ShortFacts
  <2> QED
    BY <2>1 DEF UBatch
<1>11. Cut(both, st, t, 0, IF st \in {a, b} THEN joint ELSE 0)
  <2>1. CASE st = a
    <3>1. \A k \in 1 .. Len(both) : both[k][st] = Chunk(q, k, jA)
      BY <1>9, <2>1
    <3>0. t = toksA
      BY <2>1
    <3>2. t = toksA /\ Len(both) = NChunks(q, Len(jA)) /\ 0 \in Nat /\ 0 + Len(jA) = joint
      <4> HIDE DEF both, t
      <4> QED
        BY <1>2, <1>4, <1>9, <3>0
    <3> HIDE DEF both, t, S
    <3>3. \A j \in 1 .. Len(jA) : jA[j] = t[0 + j]
      BY <1>4, <3>2
    <3>4. Cut(both, st, t, 0, 0 + Len(jA))
      BY <1>3, <1>4, <1>9, <3>1, <3>2, <3>3, CutChunks
    <3> QED
      BY <2>1, <3>2, <3>4
  <2>2. CASE st # a /\ st = b
    <3>1. \A k \in 1 .. Len(both) : both[k][st] = Chunk(q, k, jB)
      BY <1>9, <2>2
    <3>0. t = toksB
      BY <2>2
    <3>2. t = toksB /\ Len(both) = NChunks(q, Len(jB)) /\ 0 \in Nat /\ 0 + Len(jB) = joint
      <4> HIDE DEF both, t
      <4> QED
        BY <1>2, <1>4, <1>9, <3>0
    <3> HIDE DEF both, t, S
    <3>3. \A j \in 1 .. Len(jB) : jB[j] = t[0 + j]
      BY <1>4, <3>2
    <3>4. Cut(both, st, t, 0, 0 + Len(jB))
      BY <1>3, <1>4, <1>9, <3>1, <3>2, <3>3, CutChunks
    <3> QED
      BY <2>2, <3>2, <3>4
  <2>3. CASE st # a /\ st # b
    <3>1. \A k \in 1 .. Len(both) : both[k][st] = <<>>
      BY <1>9, <2>3
    <3> HIDE DEF both, t, S
    <3>2. Cut(both, st, t, 0, 0)
      BY <1>9, <3>1, CutNone
    <3> QED
      BY <2>3, <3>2
  <2> QED
    BY <2>1, <2>2, <2>3
<1>12. Cut(oA, st, t, IF st \in {a, b} THEN joint ELSE 0,
                      IF st = a THEN Len(toksA) ELSE IF st = b THEN joint ELSE 0)
  <2>1. CASE st = a
    <3>1. t = toksA /\ joint + Len(rA) = Len(toksA)
      BY <1>2, <1>5, <2>1
    <3>2. \A j \in 1 .. Len(rA) : rA[j] = t[joint + j]
      BY <1>5, <3>1
    <3> HIDE DEF t
    <3>3. Cut(oA, st, t, joint, joint + Len(rA))
      BY <1>2, <1>5, <2>1, <3>2, OneStreamCut
    <3> QED
      BY <2>1, <3>1, <3>3
  <2>2. CASE st # a
    <3> HIDE DEF t
    <3>1. \A x \in Nat : Cut(oA, st, t, x, x)
      BY <1>5, <2>2, OneStreamCut
    <3> QED
      BY <1>2, <2>2, <3>1
  <2> QED
    BY <2>1, <2>2
<1>13. Cut(oB, st, t, IF st = a THEN Len(toksA) ELSE IF st = b THEN joint ELSE 0, Len(t))
  <2>1. CASE st = a
    <3>1. st # b \/ Len(rB) = 0
      BY <1>2, <1>5, <1>7, <2>1
    <3>2. t = toksA
      BY <2>1
    <3> HIDE DEF t
    <3>3. Cut(oB, st, t, Len(toksA), Len(toksA))
      BY <1>2, <1>5, <3>1, OneStreamCut
    <3> QED
      BY <2>1, <3>2, <3>3
  <2>2. CASE st # a /\ st = b
    <3>1. t = toksB /\ joint + Len(rB) = Len(toksB)
      BY <1>2, <1>5, <2>2
    <3>2. \A j \in 1 .. Len(rB) : rB[j] = t[joint + j]
      BY <1>5, <3>1
    <3> HIDE DEF t
    <3>3. Cut(oB, st, t, joint, joint + Len(rB))
      BY <1>2, <1>5, <2>2, <3>2, OneStreamCut
    <3> QED
      BY <2>2, <3>1, <3>3
  <2>3. CASE st # a /\ st # b
    <3>1. t = <<>>
      BY <2>3
    <3> HIDE DEF t
    <3>2. Cut(oB, st, t, 0, 0)
      BY <1>5, <2>3, OneStreamCut
    <3> QED
      BY <1>8, <2>3, <3>1, <3>2
  <2> QED
    BY <2>1, <2>2, <2>3
<1> HIDE DEF n, both, oA, oB, t, S
<1>14. both \o oA \in Seq(S)
  BY <1>9, <1>10, ConcatProperties
<1>15. Cut(both \o oA, st, t, 0, IF st = a THEN Len(toksA) ELSE IF st = b THEN joint ELSE 0)
  BY <1>9, <1>10, <1>11, <1>12, CutConcat
<1>16. Cut(both \o oA \o oB, st, t, 0, Len(t))
  BY <1>10, <1>13, <1>14, <1>15, CutConcat
<1> QED
  BY <1>1, <1>16 DEF t

-----------------------------------------------------------------------------
(* The positions that a sequence gains in the micro-batches: b[k] is the   *)
(* first of micro-batch k, and each is that of one token.                  *)

LaysIn(ub, s, x, y) ==
  /\ \A j \in 1 .. Len(ub) : s \in ub[j].seqs => x <= ub[j].pos /\ ub[j].pos < y
  /\ \A i, j \in 1 .. Len(ub) :
       s \in ub[i].seqs /\ s \in ub[j].seqs /\ ub[i].pos = ub[j].pos => i = j
  /\ \A p \in x .. y - 1 : \E j \in 1 .. Len(ub) : s \in ub[j].seqs /\ ub[j].pos = p

Lays(b, s, ubs) ==
  /\ b \in [1 .. Len(ubs) + 1 -> Nat]
  /\ \A k \in 1 .. Len(ubs) :
       /\ b[k] <= b[k + 1] /\ b[k + 1] <= b[k] + NUbatch /\ b[k + 1] <= MaxPos + 1
       /\ LaysIn(ubs[k][seq_to_stream(s)], s, b[k], b[k + 1])

(* The tokens of s are those after lo, up to hi, at base and so on.        *)
RunIn(toks, s, base, lo, hi) ==
  /\ base \in Nat /\ lo \in Nat /\ hi \in Nat /\ lo <= hi /\ hi <= Len(toks)
  /\ base + (hi - lo) <= MaxPos + 1
  /\ \A j \in 1 .. Len(toks) :
       /\ s \in toks[j].seqs <=> lo < j /\ j <= hi
       /\ s \in toks[j].seqs => toks[j].pos = base + (j - lo) - 1

Clamp(x, lo, hi) == IF x < lo THEN lo ELSE IF x > hi THEN hi ELSE x

LEMMA ClampFacts ==
  ASSUME NEW x \in Nat, NEW y \in Nat, x <= y, NEW lo \in Nat, NEW hi \in Nat, lo <= hi
  PROVE  /\ Clamp(x, lo, hi) \in Nat /\ Clamp(y, lo, hi) \in Nat
         /\ Clamp(x, lo, hi) <= Clamp(y, lo, hi)
         /\ Clamp(y, lo, hi) <= Clamp(x, lo, hi) + (y - x)
         /\ Clamp(y, lo, hi) <= hi
  BY DEF Clamp

LEMMA BoundsApart ==
  ASSUME NEW base \in Nat, NEW lo \in Nat, NEW hi \in Nat, base + (hi - lo) <= MaxPos + 1,
         NEW u \in Nat, NEW v \in Nat, u <= v, NEW d \in Int, v <= u + d, d <= NUbatch, v <= hi
  PROVE  /\ base + u - lo <= base + v - lo
         /\ base + v - lo <= (base + u - lo) + NUbatch
         /\ base + v - lo <= MaxPos + 1
BY NUbatchAssumption, MaxPosAssumption

LEMMA WithinBounds ==
  ASSUME NEW x \in Nat, NEW y \in Nat, x <= y, NEW lo \in Nat, NEW hi \in Nat, lo <= hi,
         NEW base \in Nat, NEW g \in Int, x < g, g <= y, lo < g, g <= hi
  PROVE  /\ base + Clamp(x, lo, hi) - lo <= base + (g - lo) - 1
         /\ base + (g - lo) - 1 < base + Clamp(y, lo, hi) - lo
<1>1. Clamp(x, lo, hi) \in Nat /\ Clamp(y, lo, hi) \in Nat
  BY ClampFacts
<1>2. Clamp(x, lo, hi) < g
  BY DEF Clamp
<1>3. g <= Clamp(y, lo, hi)
  BY DEF Clamp
<1> QED
  BY <1>1, <1>2, <1>3

LEMMA CutLays ==
  ASSUME NEW s, NEW S, NEW ubs \in Seq(S), NEW toks, NEW base, NEW lo, NEW hi, Len(toks) \in Nat,
         Cut(ubs, seq_to_stream(s), toks, 0, Len(toks)), RunIn(toks, s, base, lo, hi)
  PROVE  \E b : Lays(b, s, ubs) /\ b[1] = base
<1> DEFINE st == seq_to_stream(s)
           N == Len(ubs)
<1>1. PICK c : IsCut(c, ubs, st, toks, 0, Len(toks))
  BY DEF Cut
<1> DEFINE b == [k \in 1 .. N + 1 |-> base + Clamp(c[k], lo, hi) - lo]
<1>2. /\ base \in Nat /\ lo \in Nat /\ hi \in Nat /\ lo <= hi /\ hi <= Len(toks) /\ N \in Nat
      /\ base + (hi - lo) <= MaxPos + 1
  BY LenProperties DEF RunIn
<1>3. \A k \in 1 .. N + 1 : c[k] \in Nat /\ c[k] <= Len(toks)
  BY <1>1 DEF IsCut
<1>4. \A k \in 1 .. N + 1 : b[k] = base + Clamp(c[k], lo, hi) - lo /\ b[k] \in Nat
  BY <1>2, <1>3 DEF Clamp
<1>5. b \in [1 .. N + 1 -> Nat]
  BY <1>4
<1> HIDE DEF b
<1>6. b[1] = base
  BY <1>1, <1>2, <1>4 DEF IsCut, Clamp
<1>7. ASSUME NEW k \in 1 .. N
      PROVE  /\ b[k] <= b[k + 1] /\ b[k + 1] <= b[k] + NUbatch /\ b[k + 1] <= MaxPos + 1
             /\ LaysIn(ubs[k][st], s, b[k], b[k + 1])
  <2> DEFINE ub == ubs[k][st]
  <2>0. k \in 1 .. N + 1 /\ k + 1 \in 1 .. N + 1
    BY <1>2
  <2>1. PICK x, y : x = c[k] /\ y = c[k + 1]
    OBVIOUS
  <2>2. /\ x \in Nat /\ y \in Nat /\ x <= y /\ y <= x + NUbatch /\ y <= Len(toks)
        /\ b[k] = base + Clamp(x, lo, hi) - lo /\ b[k + 1] = base + Clamp(y, lo, hi) - lo
        /\ Len(ub) = y - x
        /\ \A j \in 1 .. y - x : ub[j] = toks[x + j]
    BY <1>1, <1>3, <1>4, <2>0, <2>1 DEF IsCut
  <2> HIDE DEF ub
  <2>3. b[k] <= b[k + 1] /\ b[k + 1] <= b[k] + NUbatch /\ b[k + 1] <= MaxPos + 1
    <3>1. PICK u, v : u = Clamp(x, lo, hi) /\ v = Clamp(y, lo, hi)
      OBVIOUS
    <3>2. u \in Nat /\ v \in Nat /\ u <= v /\ v <= u + (y - x) /\ v <= hi
      BY <1>2, <2>2, <3>1, ClampFacts
    <3>3. b[k] = base + u - lo /\ b[k + 1] = base + v - lo
      BY <2>2, <3>1, Zenon
    <3>4. PICK d : d = y - x
      OBVIOUS
    <3>5. d \in Int /\ v <= u + d /\ d <= NUbatch
      BY <2>2, <3>2, <3>4, NUbatchAssumption
    <3>6. /\ base + u - lo <= base + v - lo
          /\ base + v - lo <= (base + u - lo) + NUbatch
          /\ base + v - lo <= MaxPos + 1
      BY <1>2, <3>2, <3>5, BoundsApart
    <3> QED
      BY <3>3, <3>6, Zenon
  <2>4. ASSUME NEW j \in 1 .. Len(ub)
        PROVE  /\ s \in ub[j].seqs <=> lo < x + j /\ x + j <= hi
               /\ s \in ub[j].seqs => ub[j].pos = base + (x + j - lo) - 1
    <3>1. PICK g : g = x + j
      OBVIOUS
    <3>2. ub[j] = toks[g] /\ g \in 1 .. Len(toks)
      BY <1>2, <2>2, <3>1
    <3>3. /\ s \in toks[g].seqs <=> lo < g /\ g <= hi
          /\ s \in toks[g].seqs => toks[g].pos = base + (g - lo) - 1
      BY <3>2 DEF RunIn
    <3>4. /\ s \in ub[j].seqs <=> lo < g /\ g <= hi
          /\ s \in ub[j].seqs => ub[j].pos = base + (g - lo) - 1
      BY <3>2, <3>3, Zenon
    <3>5. s \in ub[j].seqs <=> lo < x + j /\ x + j <= hi
      BY <3>1, <3>4
    <3>7. base + (g - lo) - 1 = base + (x + j - lo) - 1
      <4>1. j \in Nat
        BY <2>2
      <4> QED
        BY <1>2, <2>2, <3>1, <4>1
    <3>6. s \in ub[j].seqs => ub[j].pos = base + (x + j - lo) - 1
      BY <3>4, <3>7, Zenon
    <3> QED
      BY <3>5, <3>6
  <2>5. \A j \in 1 .. Len(ub) : s \in ub[j].seqs => b[k] <= ub[j].pos /\ ub[j].pos < b[k + 1]
    <3> SUFFICES ASSUME NEW j \in 1 .. Len(ub), s \in ub[j].seqs
                 PROVE  b[k] <= ub[j].pos /\ ub[j].pos < b[k + 1]
      OBVIOUS
    <3>1. lo < x + j /\ x + j <= hi /\ ub[j].pos = base + (x + j - lo) - 1 /\ j \in 1 .. y - x
      BY <2>2, <2>4
    <3>2. PICK g : g = x + j
      OBVIOUS
    <3>3. g \in Int /\ x < g /\ g <= y /\ lo < g /\ g <= hi
      BY <1>2, <2>2, <3>1, <3>2
    <3>6. j \in Nat
      BY <2>2
    <3>7. base + (g - lo) - 1 = base + (x + j - lo) - 1
      BY <1>2, <2>2, <3>2, <3>6
    <3>4. ub[j].pos = base + (g - lo) - 1
      BY <3>1, <3>7, Zenon
    <3>5. /\ base + Clamp(x, lo, hi) - lo <= base + (g - lo) - 1
          /\ base + (g - lo) - 1 < base + Clamp(y, lo, hi) - lo
      BY <1>2, <2>2, <3>3, WithinBounds
    <3> QED
      BY <2>2, <3>4, <3>5, Zenon
  <2>6. \A i, j \in 1 .. Len(ub) :
          s \in ub[i].seqs /\ s \in ub[j].seqs /\ ub[i].pos = ub[j].pos => i = j
    <3> SUFFICES ASSUME NEW i \in 1 .. Len(ub), NEW j \in 1 .. Len(ub),
                        s \in ub[i].seqs, s \in ub[j].seqs, ub[i].pos = ub[j].pos
                 PROVE  i = j
      OBVIOUS
    <3>1. base + (x + i - lo) - 1 = base + (x + j - lo) - 1
      BY <2>4
    <3>2. i \in Int /\ j \in Int /\ x \in Int
      BY <2>2
    <3> QED
      BY <1>2, <3>1, <3>2
  <2>7. ASSUME NEW p \in b[k] .. b[k + 1] - 1
        PROVE  \E j \in 1 .. Len(ub) : s \in ub[j].seqs /\ ub[j].pos = p
    <3> DEFINE j == p - base + lo + 1 - x
    <3>1. /\ j \in 1 .. y - x /\ lo < x + j /\ x + j <= hi /\ p = base + (x + j - lo) - 1
      BY <1>2, <2>2 DEF Clamp
    <3> HIDE DEF j
    <3>2. j \in 1 .. Len(ub)
      BY <2>2, <3>1
    <3> QED
      BY <2>4, <3>1, <3>2
  <2>8. LaysIn(ub, s, b[k], b[k + 1])
    BY <2>5, <2>6, <2>7 DEF LaysIn
  <2> QED
    BY <2>3, <2>8 DEF ub
<1>8. Lays(b, s, ubs)
  BY <1>5, <1>7 DEF Lays
<1> QED
  BY <1>6, <1>8

-----------------------------------------------------------------------------
(* The tokens of the batch that go to a stream.                            *)
Share(A, n, B, m, st) ==
  IF Unified THEN RunOf(A, n) \o RunOf(B, m)
  ELSE IF st = Least(A) THEN RunOf(A, n) ELSE IF st = Least(B) THEN RunOf(B, m) ELSE <<>>

(* A batch that decode accepts.                                            *)
Accepted(A, n, B, m) ==
  /\ A \in SeqSets /\ B \in SeqSets /\ n \in Nat \ {0} /\ m \in Nat
  /\ Valid(A, n) /\ (m > 0 => Valid(B, m) /\ A \cap B = {}) /\ (m = 0 => B = A)

LEMMA RunTokens ==
  ASSUME NEW A \in SeqSets, NEW n \in Nat, n >= 1 => Valid(A, n)
  PROVE  /\ RunOf(A, n) \in Seq(Token) /\ Len(RunOf(A, n)) = n
         /\ \A j \in 1 .. n : RunOf(A, n)[j].pos = StartPos(A) + j - 1 /\ RunOf(A, n)[j].seqs = A
<1>1. RunOf(A, n) \in Seq(Token) /\ Len(RunOf(A, n)) = n
  BY RunOfType
<1>2. \A j \in 1 .. n : RunOf(A, n)[j].pos = StartPos(A) + j - 1 /\ RunOf(A, n)[j].seqs = A
  BY DEF RunOf
<1> QED
  BY <1>1, <1>2

(* The sequences of a set are in step.                                     *)
LEMMA InStep ==
  ASSUME NEW A \in SeqSets, NEW n, Valid(A, n), NEW s \in A
  PROVE  seq_pos_max(v_cells[seq_to_stream(s)], s) + 1 = StartPos(A)
<1>1. A \in SUBSET SeqId /\ A # {}
  BY Zenon DEF SeqSets
<1>2. Least(A) \in A
  BY <1>1, SeqIdFacts
<1>3. seq_pos_max(v_cells[seq_to_stream(s)], s)
        = seq_pos_max(v_cells[seq_to_stream(Least(A))], Least(A))
  BY <1>2, Zenon DEF Valid, Together
<1> QED
  BY <1>3 DEF StartPos

LEMMA OwnSet ==
  ASSUME ~Unified, NEW A \in SeqSets, NEW s \in SeqId
  PROVE  s \in A <=> s = Least(A)
<1>1. A \in SUBSET SeqId /\ A # {} /\ Cardinality(A) <= 1
  BY DEF SeqSets
<1>2. Least(A) \in A
  BY <1>1, SeqIdFacts
<1>3. IsFiniteSet(A)
  <2>1. IsFiniteSet(SeqId)
    <3>1. 0 \in Int /\ NSeqMax - 1 \in Int
      BY NSeqMaxAssumption
    <3> QED
      BY <3>1, FS_Interval DEF SeqId
  <2> QED
    BY <1>1, <2>1, FS_Subset
<1>4. Cardinality(A) \in Nat
  BY <1>3, FS_CardinalityType
<1>5. Cardinality(A) = 0 \/ Cardinality(A) = 1
  BY <1>1, <1>4
<1>6. Cardinality(A) = 1
  BY <1>1, <1>3, <1>5, FS_EmptySet
<1>7. \E x : A = {x}
  BY <1>3, <1>6, FS_Singleton
<1> QED
  BY <1>2, <1>7

LEMMA BatchCut ==
  ASSUME NEW A, NEW n, NEW B, NEW m, Accepted(A, n, B, m), NEW st \in Stream
  PROVE  /\ Share(A, n, B, m, st) \in Seq(Token)
         /\ Cut(init_batch(A, n, B, m), st, Share(A, n, B, m, st), 0, Len(Share(A, n, B, m, st)))
<1>1. /\ RunOf(A, n) \in Seq(Token) /\ Len(RunOf(A, n)) = n
      /\ RunOf(B, m) \in Seq(Token) /\ Len(RunOf(B, m)) = m
  BY RunTokens DEF Accepted
<1>2. CASE Unified
  <2>1. RunOf(A, n) \o RunOf(B, m) \in Seq(Token)
    BY <1>1, ConcatProperties
  <2>2. Share(A, n, B, m, st) = RunOf(A, n) \o RunOf(B, m)
        /\ init_batch(A, n, B, m) = split_simple(RunOf(A, n) \o RunOf(B, m))
    BY <1>2 DEF Share, init_batch
  <2> QED
    BY <2>1, <2>2, SplitSimpleCut
<1>3. CASE ~Unified
  <2>1. Least(A) # Least(B) \/ Len(RunOf(B, m)) = 0
    <3>1. CASE m = 0
      BY <1>1, <3>1
    <3>2. CASE m > 0
      <4>1. /\ A \in SUBSET SeqId /\ A # {} /\ B \in SUBSET SeqId /\ B # {}
            /\ A \cap B = {}
        BY <3>2 DEF Accepted, SeqSets
      <4> QED
        BY <4>1, SeqIdFacts
    <3> QED
      BY <3>1, <3>2 DEF Accepted
  <2>2. PICK a, b : a = Least(A) /\ b = Least(B)
    OBVIOUS
  <2>3. init_batch(A, n, B, m) = split_equal(a, RunOf(A, n), b, RunOf(B, m))
    BY <1>3, <2>2 DEF init_batch
  <2>4. Share(A, n, B, m, st) = IF st = a THEN RunOf(A, n) ELSE IF st = b THEN RunOf(B, m) ELSE <<>>
    BY <1>3, <2>2 DEF Share
  <2>5. Share(A, n, B, m, st) \in Seq(Token)
    BY <1>1, <2>4, EmptySeq
  <2> QED
    BY <1>1, <2>1, <2>2, <2>3, <2>4, <2>5, SplitEqualCut
<1> QED
  BY <1>2, <1>3

(* Which sequences a token of a stream can have.                           *)
LEMMA ShareTokens ==
  ASSUME NEW A, NEW n, NEW B, NEW m, Accepted(A, n, B, m), NEW st \in Stream,
         NEW j \in 1 .. Len(Share(A, n, B, m, st))
  PROVE  LET tok == Share(A, n, B, m, st)[j]
         IN  tok.seqs \in SeqSets /\ \A s \in tok.seqs : seq_to_stream(s) = st
<1>1. /\ RunOf(A, n) \in Seq(Token) /\ Len(RunOf(A, n)) = n
      /\ RunOf(B, m) \in Seq(Token) /\ Len(RunOf(B, m)) = m
      /\ \A i \in 1 .. n : RunOf(A, n)[i].seqs = A
      /\ \A i \in 1 .. m : RunOf(B, m)[i].seqs = B
  <2>1. /\ A \in SeqSets /\ B \in SeqSets /\ n \in Nat /\ m \in Nat
        /\ n >= 1 => Valid(A, n)
        /\ m >= 1 => Valid(B, m)
    BY DEF Accepted
  <2>2. RunOf(A, n) \in Seq(Token) /\ Len(RunOf(A, n)) = n
        /\ \A i \in 1 .. n : RunOf(A, n)[i].seqs = A
    BY <2>1, RunTokens
  <2>3. RunOf(B, m) \in Seq(Token) /\ Len(RunOf(B, m)) = m
        /\ \A i \in 1 .. m : RunOf(B, m)[i].seqs = B
    BY <2>1, RunTokens
  <2> QED
    BY <2>2, <2>3
<1>2. A \in SeqSets /\ B \in SeqSets /\ A \subseteq SeqId /\ B \subseteq SeqId /\ n \in Nat /\ m \in Nat
  BY DEF Accepted, SeqSets
<1> DEFINE tok == Share(A, n, B, m, st)[j]
<1>3. CASE Unified
  <2>0. PICK f, g : f = RunOf(A, n) /\ g = RunOf(B, m)
    OBVIOUS
  <2>9. f \in Seq(Token) /\ g \in Seq(Token) /\ Len(f) = n /\ Len(g) = m
    BY <1>1, <2>0
  <2>8. /\ Len(f \o g) = n + m
        /\ \A i \in 1 .. n + m : (f \o g)[i] = IF i <= n THEN f[i] ELSE g[i - n]
    BY <2>9, ConcatProperties
  <2>1. /\ Len(RunOf(A, n) \o RunOf(B, m)) = n + m
        /\ \A i \in 1 .. n + m : (RunOf(A, n) \o RunOf(B, m))[i]
                                   = IF i <= n THEN RunOf(A, n)[i] ELSE RunOf(B, m)[i - n]
    BY <2>0, <2>8
  <2>2. j \in 1 .. n + m /\ tok = IF j <= n THEN RunOf(A, n)[j] ELSE RunOf(B, m)[j - n]
    BY <1>3, <2>1 DEF Share
  <2> HIDE DEF tok
  <2>3. tok.seqs = A \/ tok.seqs = B
    BY <1>1, <1>2, <2>2
  <2>4. \A s \in SeqId : seq_to_stream(s) = st
    BY <1>3 DEF seq_to_stream, Stream
  <2>5. tok.seqs \in SeqSets /\ \A s \in tok.seqs : seq_to_stream(s) = st
    BY <1>2, <2>3, <2>4, Zenon
  <2> QED
    BY <2>5 DEF tok
<1>4. CASE ~Unified
  <2>0. Len(<<>>) = 0
    BY EmptySeq
  <2>1. (st = Least(A) /\ tok.seqs = A) \/ (st = Least(B) /\ tok.seqs = B)
    BY <1>1, <1>4, <2>0 DEF Share
  <2> HIDE DEF tok
  <2>2. tok.seqs \in SeqSets /\ tok.seqs \subseteq SeqId /\ st = Least(tok.seqs)
    BY <1>2, <2>1, Zenon
  <2>3. \A s \in tok.seqs : s = st
    BY <1>4, <2>2, OwnSet
  <2>4. \A s \in tok.seqs : seq_to_stream(s) = st
    BY <1>4, <2>3 DEF seq_to_stream
  <2> QED
    BY <2>2, <2>4 DEF tok
<1> QED
  BY <1>3, <1>4

(* In its stream, a sequence owns a run of the tokens, which begins after  *)
(* the last position it has.                                               *)
LEMMA ShareRun ==
  ASSUME NEW A, NEW n, NEW B, NEW m, Accepted(A, n, B, m), NEW s \in SeqId
  PROVE  \E lo, hi : RunIn(Share(A, n, B, m, seq_to_stream(s)), s,
                           seq_pos_max(v_cells[seq_to_stream(s)], s) + 1, lo, hi)
<1> DEFINE st == seq_to_stream(s)
           base == seq_pos_max(v_cells[st], s) + 1
           f == RunOf(A, n)
           g == RunOf(B, m)
           toks == Share(A, n, B, m, st)
<1>1. /\ A \in SeqSets /\ B \in SeqSets /\ n \in Nat \ {0} /\ m \in Nat
      /\ n >= 1 => Valid(A, n)
      /\ m >= 1 => Valid(B, m)
      /\ m >= 1 => A \cap B = {}
      /\ m = 0 => B = A
  BY DEF Accepted
<1>2. f \in Seq(Token) /\ Len(f) = n
      /\ \A i \in 1 .. n : f[i].pos = StartPos(A) + i - 1 /\ f[i].seqs = A
  BY <1>1, RunTokens
<1>3. g \in Seq(Token) /\ Len(g) = m
      /\ \A i \in 1 .. m : g[i].pos = StartPos(B) + i - 1 /\ g[i].seqs = B
  BY <1>1, RunTokens
<1>4. base \in Nat /\ base <= MaxPos + 1 /\ MaxPos \in Nat
  <2>1. PICK x : x = seq_pos_max(v_cells[st], s)
    OBVIOUS
  <2>2. x \in Pos \cup {-1}
    BY <2>1, SeqPosMaxFacts
  <2> QED
    BY <2>1, <2>2, MaxPosAssumption DEF Pos
<1>5. s \in A => base = StartPos(A) /\ base + n <= MaxPos + 1
  <2> SUFFICES ASSUME s \in A PROVE base = StartPos(A) /\ base + n <= MaxPos + 1
    OBVIOUS
  <2>1. Valid(A, n)
    BY <1>1
  <2>2. base = StartPos(A)
    BY <1>1, <2>1, InStep
  <2>3. base + n - 1 <= MaxPos
    BY <2>1, <2>2 DEF Valid
  <2> HIDE DEF base
  <2> QED
    BY <1>1, <1>4, <2>2, <2>3
<1>6. s \in B /\ m >= 1 => base = StartPos(B) /\ base + m <= MaxPos + 1
  <2> SUFFICES ASSUME s \in B, m >= 1 PROVE base = StartPos(B) /\ base + m <= MaxPos + 1
    OBVIOUS
  <2>1. Valid(B, m)
    BY <1>1
  <2>2. base = StartPos(B)
    BY <1>1, <2>1, InStep
  <2>3. base + m - 1 <= MaxPos
    BY <2>1, <2>2 DEF Valid
  <2> HIDE DEF base
  <2> QED
    BY <1>1, <1>4, <2>2, <2>3
<1>7. s \in A => ~(s \in B /\ m >= 1)
  BY <1>1
<1>8. m = 0 => (s \in B <=> s \in A)
  BY <1>1
<1> HIDE DEF base, f, g
<1>9. CASE Unified
  <2>1. toks = f \o g
    BY <1>9 DEF Share, f, g
  <2> HIDE DEF toks
  <2>2. /\ Len(f \o g) = n + m
        /\ \A i \in 1 .. n + m : (f \o g)[i] = IF i <= n THEN f[i] ELSE g[i - n]
    BY <1>2, <1>3, ConcatProperties
  <2>3. Len(toks) = n + m
    BY <2>1, <2>2
  <2>4. \A i \in 1 .. n : toks[i].pos = StartPos(A) + i - 1 /\ toks[i].seqs = A
    <3> TAKE i \in 1 .. n
    <3>1. i \in 1 .. n + m /\ i <= n
      BY <1>1
    <3>2. toks[i] = f[i]
      BY <2>1, <2>2, <3>1
    <3> QED
      BY <1>2, <3>2
  <2>5. \A i \in n + 1 .. n + m : toks[i].pos = StartPos(B) + (i - n) - 1 /\ toks[i].seqs = B
    <3> TAKE i \in n + 1 .. n + m
    <3>1. i \in 1 .. n + m /\ ~(i <= n) /\ i - n \in 1 .. m
      BY <1>1
    <3>2. toks[i] = g[i - n]
      BY <2>1, <2>2, <3>1
    <3> QED
      BY <1>3, <3>1, <3>2
  <2>6. \A j \in 1 .. n + m : j \in 1 .. n \/ j \in n + 1 .. n + m
    BY <1>1
  <2> HIDE DEF st
  <2>7. CASE s \in A
    <3>1. ASSUME NEW j \in 1 .. n + m
          PROVE  /\ s \in toks[j].seqs <=> 0 < j /\ j <= n
                 /\ s \in toks[j].seqs => toks[j].pos = base + (j - 0) - 1
      <4>1. CASE j \in 1 .. n
        BY <1>5, <2>4, <2>7, <4>1
      <4>2. CASE j \in n + 1 .. n + m
        <5>1. m >= 1 /\ ~(j <= n)
          BY <1>1, <4>2
        <5> QED
          BY <1>7, <2>5, <2>7, <4>2, <5>1
      <4> QED
        BY <2>6, <4>1, <4>2
    <3>2. RunIn(toks, s, base, 0, n)
      BY <1>1, <1>4, <1>5, <2>3, <2>7, <3>1 DEF RunIn
    <3> QED
      BY <3>2 DEF toks, base, st
  <2>8. CASE s \notin A /\ s \in B
    <3>0. m >= 1
      BY <1>1, <1>8, <2>8
    <3>1. ASSUME NEW j \in 1 .. n + m
          PROVE  /\ s \in toks[j].seqs <=> n < j /\ j <= n + m
                 /\ s \in toks[j].seqs => toks[j].pos = base + (j - n) - 1
      <4>1. CASE j \in 1 .. n
        BY <1>1, <2>4, <2>8, <4>1
      <4>2. CASE j \in n + 1 .. n + m
        BY <1>1, <1>6, <2>5, <2>8, <3>0, <4>2
      <4> QED
        BY <2>6, <4>1, <4>2
    <3>2. base + (n + m - n) <= MaxPos + 1
      BY <1>1, <1>4, <1>6, <2>8, <3>0
    <3>4. PICK h : h = n + m
      OBVIOUS
    <3>5. /\ h \in Nat /\ n \in Nat /\ n <= h /\ Len(toks) = h /\ base + (h - n) <= MaxPos + 1
          /\ \A j \in 1 .. Len(toks) : /\ s \in toks[j].seqs <=> n < j /\ j <= h
                                       /\ s \in toks[j].seqs => toks[j].pos = base + (j - n) - 1
      BY <1>1, <2>3, <3>1, <3>2, <3>4
    <3>6. RunIn(toks, s, base, n, h)
      BY <1>4, <3>5 DEF RunIn
    <3>3. RunIn(toks, s, base, n, n + m)
      BY <3>4, <3>6
    <3> QED
      BY <3>3 DEF toks, base, st
  <2>9. CASE s \notin A /\ s \notin B
    <3>1. \A j \in 1 .. n + m : s \notin toks[j].seqs
      BY <2>4, <2>5, <2>6, <2>9
    <3>2. RunIn(toks, s, base, 0, 0)
      BY <1>1, <1>4, <2>3, <3>1 DEF RunIn
    <3> QED
      BY <3>2 DEF toks, base, st
  <2> QED
    BY <2>7, <2>8, <2>9
<1>10. CASE ~Unified
  <2>1. st = s
    BY <1>10 DEF seq_to_stream
  <2>2. (s \in A <=> s = Least(A)) /\ (s \in B <=> s = Least(B))
    BY <1>1, <1>10, OwnSet
  <2>3. toks = IF s \in A THEN f ELSE IF s \in B THEN g ELSE <<>>
    BY <1>10, <2>1, <2>2 DEF Share, f, g
  <2> HIDE DEF toks, st
  <2>4. CASE s \in A
    <3>1. toks = f
      BY <2>3, <2>4
    <3>2. \A j \in 1 .. n : /\ s \in toks[j].seqs /\ 0 < j /\ j <= n
                            /\ toks[j].pos = base + (j - 0) - 1
      BY <1>1, <1>2, <1>4, <1>5, <2>4, <3>1
    <3>3. RunIn(toks, s, base, 0, n)
      BY <1>1, <1>2, <1>4, <1>5, <2>4, <3>1, <3>2 DEF RunIn
    <3> QED
      BY <3>3 DEF toks, base, st
  <2>5. CASE s \notin A /\ s \in B
    <3>0. m >= 1
      BY <1>1, <1>8, <2>5
    <3>1. toks = g
      BY <2>3, <2>5
    <3>2. \A j \in 1 .. m : /\ s \in toks[j].seqs /\ 0 < j /\ j <= m
                            /\ toks[j].pos = base + (j - 0) - 1
      BY <1>1, <1>3, <1>4, <1>6, <2>5, <3>0, <3>1
    <3>3. RunIn(toks, s, base, 0, m)
      BY <1>1, <1>3, <1>4, <1>6, <2>5, <3>0, <3>1, <3>2 DEF RunIn
    <3> QED
      BY <3>3 DEF toks, base, st
  <2>6. CASE s \notin A /\ s \notin B
    <3>1. toks = <<>>
      BY <2>3, <2>6
    <3>2. Len(toks) = 0
      BY <3>1, EmptySeq
    <3>3. RunIn(toks, s, base, 0, 0)
      BY <1>4, <3>2 DEF RunIn
    <3> QED
      BY <3>3 DEF toks, base, st
  <2> QED
    BY <2>4, <2>5, <2>6
<1> QED
  BY <1>9, <1>10

(* The micro-batches continue every sequence.                              *)
LEMMA BatchLays ==
  ASSUME NEW A, NEW n, NEW B, NEW m, Accepted(A, n, B, m), NEW s \in SeqId
  PROVE  \E b : /\ Lays(b, s, init_batch(A, n, B, m))
                /\ b[1] = seq_pos_max(v_cells[seq_to_stream(s)], s) + 1
<1> DEFINE st == seq_to_stream(s)
           ubs == init_batch(A, n, B, m)
           toks == Share(A, n, B, m, st)
           base == seq_pos_max(v_cells[st], s) + 1
<1>1. st \in Stream
  BY StreamFacts
<1>2. toks \in Seq(Token) /\ Cut(ubs, st, toks, 0, Len(toks))
  BY <1>1, BatchCut
<1>3. Len(toks) \in Nat
  BY <1>2, LenProperties
<1>4. ubs \in Seq(Short(n + m))
  BY InitBatchType DEF Accepted
<1>5. PICK lo, hi : RunIn(toks, s, base, lo, hi)
  BY ShareRun
<1> HIDE DEF ubs, toks, base
<1>6. \E b : Lays(b, s, ubs) /\ b[1] = base
  BY <1>2, <1>3, <1>4, <1>5, CutLays
<1> QED
  BY <1>6 DEF ubs, base

(* The tokens of the micro-batches.                                        *)
TokensOK(ubs) ==
  \A k \in 1 .. Len(ubs) : \A st \in Stream : \A j \in 1 .. Len(ubs[k][st]) :
    ubs[k][st][j].seqs \in SeqSets /\ \A s \in ubs[k][st][j].seqs : seq_to_stream(s) = st

LEMMA BatchTokens ==
  ASSUME NEW A, NEW n, NEW B, NEW m, Accepted(A, n, B, m)
  PROVE  TokensOK(init_batch(A, n, B, m))
<1> DEFINE ubs == init_batch(A, n, B, m)
<1>0. Len(ubs) \in Nat
  BY InitBatchType, LenProperties DEF Accepted
<1> SUFFICES ASSUME NEW k \in 1 .. Len(ubs), NEW st \in Stream, NEW j \in 1 .. Len(ubs[k][st])
             PROVE  LET tok == ubs[k][st][j]
                    IN  tok.seqs \in SeqSets /\ \A s \in tok.seqs : seq_to_stream(s) = st
  BY DEF TokensOK
<1> DEFINE toks == Share(A, n, B, m, st)
<1>1. toks \in Seq(Token) /\ Cut(ubs, st, toks, 0, Len(toks))
  BY BatchCut
<1>2. PICK c : IsCut(c, ubs, st, toks, 0, Len(toks))
  BY <1>1 DEF Cut
<1> HIDE DEF ubs, toks
<1>3. PICK x, y : x = c[k] /\ y = c[k + 1]
  OBVIOUS
<1>4. k \in 1 .. Len(ubs) + 1 /\ k + 1 \in 1 .. Len(ubs) + 1
  BY <1>0
<1>5. /\ x \in Nat /\ y \in Nat /\ x <= y /\ y <= Len(toks) /\ Len(ubs[k][st]) = y - x
      /\ \A i \in 1 .. y - x : ubs[k][st][i] = toks[x + i]
  BY <1>2, <1>3, <1>4 DEF IsCut
<1>6. PICK g : g = x + j
  OBVIOUS
<1>7. g \in 1 .. Len(toks) /\ ubs[k][st][j] = toks[g]
  <2>1. Len(toks) \in Nat
    BY <1>1, LenProperties
  <2> QED
    BY <1>5, <1>6, <2>1
<1>8. toks[g].seqs \in SeqSets /\ \A s \in toks[g].seqs : seq_to_stream(s) = st
  BY <1>7, ShareTokens DEF toks
<1> QED
  BY <1>7, <1>8

-----------------------------------------------------------------------------
(* The slots of a running decode have a cell for every token, ...          *)
SlotsFull ==
  \A k \in 1 .. Len(sinfos) : \A st \in Stream : Fills(sinfos[k][st], Len(ubatches[k][st]))

(* ... and apply writes the tokens there.                                  *)
Placed ==
  phase = "compute" =>
    \A st \in Stream : \A i \in Slots(i_cur, st) :
      LET tok == ubatches[i_cur][st][sinfos[i_cur][st][i]]
      IN  v_cells[st].pos[i] = tok.pos /\ v_cells[st].seq[i] = tok.seqs

(* The positions of s that show are those below q.                         *)
Upto(s, q) ==
  /\ \A p \in Pos : Committed[s][p] > 0 => p < q
  /\ q > 0 => q - 1 \in Pos /\ Committed[s][q - 1] > 0

(* The next micro-batch to take effect.                                    *)
Turn == IF phase \in {"apply", "compute"} THEN i_cur ELSE 1

(* It continues every sequence, and the later ones follow.                 *)
Continues(s) == \E b : Lays(b, s, ubatches) /\ Upto(s, b[Turn])
Coming == phase # "idle" => TokensOK(ubatches) /\ \A s \in SeqId : Continues(s)

RunInv == SlotsFull /\ Placed /\ Coming

LEMMA NothingRuns ==
  ASSUME sinfos' = <<>>, phase' = "idle"
  PROVE  RunInv'
<1>1. Len(sinfos') = 0 /\ \A k \in 1 .. Len(sinfos') : FALSE
  BY EmptySeq
<1>2. SlotsFull' /\ Placed' /\ Coming'
  BY <1>1 DEF SlotsFull, Placed, Coming
<1> QED
  BY <1>2 DEF RunInv

LEMMA InitRun == Init => RunInv
<1> SUFFICES ASSUME Init PROVE RunInv
  OBVIOUS
<1>1. Len(sinfos) = 0 /\ phase = "idle" /\ \A k \in 1 .. Len(sinfos) : FALSE
  BY EmptySeq DEF Init
<1> QED
  BY <1>1 DEF RunInv, SlotsFull, Placed, Coming

(* A step that changes nothing that shows, nor whose turn it is.           *)
LEMMA SameComing ==
  ASSUME Same, Coming, phase # "idle", ubatches' = ubatches, Turn' = Turn
  PROVE  Coming'
<1>1. Committed' = Committed
  BY SameCommitted
<1>2. TokensOK(ubatches) /\ \A s \in SeqId : Continues(s)
  BY DEF Coming
<1>3. TokensOK(ubatches)'
  BY <1>2 DEF TokensOK, Stream, SeqSets, SeqId, seq_to_stream
<1>4. \A s \in SeqId : Continues(s)'
  <2> TAKE s \in SeqId
  <2>1. PICK b : Lays(b, s, ubatches) /\ Upto(s, b[Turn])
    BY <1>2 DEF Continues
  <2>2. PICK ubs : ubs = ubatches
    OBVIOUS
  <2>3. Lays(b, s, ubs)
    BY <2>1, <2>2
  <2>4. Lays(b, s, ubatches)'
    BY <2>2, <2>3 DEF Lays, seq_to_stream
  <2>5. Upto(s, b[Turn])'
    BY <1>1, <2>1 DEF Upto
  <2> QED
    BY <2>4, <2>5 DEF Continues
<1> QED
  BY <1>3, <1>4 DEF Coming

LEMMA UptoStart ==
  ASSUME IInv, phase = "idle", NEW s \in SeqId
  PROVE  Upto(s, seq_pos_max(v_cells[seq_to_stream(s)], s) + 1)
<1> DEFINE st == seq_to_stream(s)
           c == v_cells[st]
           x == seq_pos_max(c, s)
<1>1. st \in Stream
  BY StreamFacts
<1>2. /\ \A i \in Cell : c.pos[i] \in Pos \cup {Empty}
      /\ \A i \in Cell : c.pos[i] = Empty <=> c.seq[i] = {}
      /\ Sound(c)
  BY <1>1, CellsOfStream
<1>3. Tentative(st) = {}
  BY <1>1, IdleCounts DEF Between, Counts
<1>4. \A p \in Pos : Kept(s, p) = {i \in Cell : s \in c.seq[i] /\ c.pos[i] = p}
  BY <1>3 DEF Kept, CellsAt
<1>5. \A p \in Pos : Committed[s][p] > 0 <=> \E i \in Has(c, s) : c.pos[i] = p
  <2> TAKE p \in Pos
  <2>1. Kept(s, p) \in SUBSET Cell /\ Committed[s][p] = Cardinality(Kept(s, p)) /\ Committed[s][p] \in Nat
    BY KeptFacts
  <2>2. IsFiniteSet(Kept(s, p))
    BY <2>1, CellFinite
  <2>3. Committed[s][p] = 0 <=> Kept(s, p) = {}
    BY <2>1, <2>2, FS_EmptySet
  <2>4. Kept(s, p) = {} <=> ~\E i \in Has(c, s) : c.pos[i] = p
    BY <1>4 DEF Has
  <2> QED
    BY <2>1, <2>3, <2>4
<1>6. IsMaxOf(x, c, s)
  BY <1>2, SeqPosMaxExact
<1>7. \A i \in Has(c, s) : c.pos[i] \in Pos
  BY <1>2 DEF Has
<1> HIDE DEF x, c
<1>8. CASE Has(c, s) = {}
  <2>1. x = -1 /\ x + 1 = 0
    BY <1>6, <1>8 DEF IsMaxOf
  <2>2. \A p \in Pos : ~(Committed[s][p] > 0)
    BY <1>5, <1>8
  <2>3. Upto(s, x + 1)
    BY <2>1, <2>2 DEF Upto
  <2> QED
    BY <2>3 DEF x, c
<1>9. CASE Has(c, s) # {}
  <2>1. (\E i \in Has(c, s) : c.pos[i] = x) /\ \A i \in Has(c, s) : c.pos[i] <= x
    BY <1>6, <1>9 DEF IsMaxOf
  <2>2. x \in Pos /\ Committed[s][x] > 0
    BY <1>5, <1>7, <2>1
  <2>3. x \in Nat /\ x + 1 - 1 = x
    BY <2>2, MaxPosAssumption DEF Pos
  <2>4. \A p \in Pos : Committed[s][p] > 0 => p < x + 1
    BY <1>5, <2>1, <2>3, MaxPosAssumption DEF Pos
  <2>5. Upto(s, x + 1)
    BY <2>2, <2>3, <2>4 DEF Upto
  <2> QED
    BY <2>5 DEF x, c
<1> QED
  BY <1>8, <1>9

LEMMA BeginRun ==
  ASSUME IInv, Begin
  PROVE  RunInv'
<1>1. PICK A \in SeqSets, B \in SeqSets, n \in 1 .. MaxBatch, m \in 0 .. MaxBatch :
        n + m <= MaxBatch /\ (m = 0 => B = A) /\ DecodeBegin(A, n, B, m)
  BY DEF Begin
<1>2. /\ phase = "idle" /\ phase' = "update" /\ UNCHANGED sinfos
      /\ ubatches' = init_batch(A, n, B, m) /\ Accepted(A, n, B, m)
  BY <1>1 DEF DecodeBegin, Accepted
<1>3. PICK ubs : ubs = init_batch(A, n, B, m)
  OBVIOUS
<1>4. TokensOK(ubs) /\ \A s \in SeqId : \E b :
        /\ Lays(b, s, ubs)
        /\ b[1] = seq_pos_max(v_cells[seq_to_stream(s)], s) + 1
  BY <1>2, <1>3, BatchTokens, BatchLays
<1>5. Committed' = Committed
  BY QuietSteps, SameCommitted
<1>6. Turn' = 1
  BY <1>2 DEF Turn
<1>7. TokensOK(ubatches)'
  BY <1>2, <1>3, <1>4 DEF TokensOK, Stream, SeqSets, SeqId, seq_to_stream
<1>8. \A s \in SeqId : Continues(s)'
  <2> TAKE s \in SeqId
  <2>1. PICK b : Lays(b, s, ubs) /\ b[1] = seq_pos_max(v_cells[seq_to_stream(s)], s) + 1
    BY <1>4
  <2>2. Upto(s, b[1])
    BY <1>2, <2>1, UptoStart
  <2>3. Lays(b, s, ubatches)'
    BY <1>2, <1>3, <2>1 DEF Lays, seq_to_stream
  <2>4. Upto(s, b[Turn])'
    BY <1>5, <1>6, <2>2 DEF Upto
  <2> QED
    BY <2>3, <2>4 DEF Continues
<1>9. sinfos' = <<>>
  BY <1>2 DEF IInv, CallOK
<1>10. Len(sinfos') = 0 /\ \A k \in 1 .. Len(sinfos') : FALSE
  BY <1>9, EmptySeq
<1>11. SlotsFull' /\ Placed'
  BY <1>2, <1>10 DEF SlotsFull, Placed
<1> QED
  BY <1>7, <1>8, <1>11 DEF RunInv, Coming

LEMMA MemoryOpRun == IInv /\ MemoryOp => RunInv'
<1> SUFFICES ASSUME IInv, MemoryOp PROVE RunInv'
  OBVIOUS
<1>1. phase = "idle" /\ UNCHANGED <<phase, sinfos>>
  BY DEF MemoryOp, clear, SeqRm, SeqRmAny, SeqCpSame, SeqCpCross, SeqKeep, SeqAdd, SeqDiv, callVars
<1>2. sinfos' = <<>> /\ phase' = "idle"
  BY <1>1 DEF IInv, CallOK
<1> QED
  BY <1>2, NothingRuns

(* Steps that leave the slots alone, or forget them.                       *)
LEMMA SteadyRun ==
  ASSUME RunInv, Same, phase # "idle", phase' # "compute", ubatches' = ubatches, Turn' = Turn,
         sinfos' = sinfos \/ sinfos' = <<>>
  PROVE  RunInv'
<1>1. Coming'
  BY SameComing DEF RunInv
<1>2. SlotsFull'
  <2>1. CASE sinfos' = sinfos
    BY <2>1 DEF RunInv, SlotsFull, Stream
  <2>2. CASE sinfos' = <<>>
    <3>1. Len(sinfos') = 0 /\ \A k \in 1 .. Len(sinfos') : FALSE
      BY <2>2, EmptySeq
    <3> QED
      BY <3>1 DEF SlotsFull
  <2> QED
    BY <2>1, <2>2
<1>3. Placed'
  BY DEF Placed
<1> QED
  BY <1>1, <1>2, <1>3 DEF RunInv

LEMMA QuietRun ==
  ASSUME NSwa = 0, Settled, Settled', PrepInv, RunInv,
         UpdateCopy \/ UpdateShift \/ PrepareEnd \/ RestoreSlot \/ Prepared \/ Retry
  PROVE  RunInv'
<1>1. Same
  <2>1. ~ComputeOk /\ ~ComputeFail
    BY DEF UpdateCopy, UpdateShift, PrepareEnd, RestoreSlot, Prepared, Retry, ComputeOk, ComputeFail
  <2>2. DecodeStep
    BY DEF DecodeStep
  <2> QED
    BY <2>1, <2>2, DecodeSame
<1>2. /\ phase # "idle" /\ phase' # "compute" /\ ubatches' = ubatches
      /\ sinfos' = sinfos \/ sinfos' = <<>>
  BY DEF UpdateCopy, UpdateShift, PrepareEnd, RestoreSlot, Prepared, Retry, callVars
<1>3. Turn' = Turn
  BY DEF UpdateCopy, UpdateShift, PrepareEnd, RestoreSlot, Prepared, Retry, callVars, Turn
<1> QED
  BY <1>1, <1>2, <1>3, SteadyRun

LEMMA PrepareSlotRun ==
  ASSUME NSwa = 0, Settled, Settled', PrepInv, RunInv, PrepareSlot
  PROVE  RunInv'
<1>1. Stacked /\ IInv
  BY DEF Settled, TryInv
<1>0. PICK n, sinfo : n = Len(sinfos) /\ sinfo = SlotsFor(ubatches[n + 1])
  OBVIOUS
<1>2. /\ n \in Nat /\ n + 1 \in 1 .. Len(ubatches)
      /\ phase = "prepare" /\ phase' = "prepare" /\ ubatches' = ubatches
      /\ Len(sinfos') = n + 1
      /\ \A k \in 1 .. n : sinfos'[k] = sinfos[k]
      /\ sinfos'[n + 1] = sinfo
      /\ \A st \in Stream : Cardinality(DOMAIN sinfo[st]) = Len(ubatches[n + 1][st])
  BY <1>0, <1>1, PrepareSlotFacts
<1>3. Same
  BY PrepareSlotSame
<1>4. Coming'
  <2>1. Turn' = Turn
    BY <1>2 DEF Turn
  <2> QED
    BY <1>2, <1>3, <2>1, SameComing DEF RunInv
<1>5. \A st \in Stream : Fills(sinfo[st], Len(ubatches[n + 1][st]))
  <2> TAKE st \in Stream
  <2>1. PICK c, h, l : c = v_cells[st] /\ h = v_heads[st] /\ l = Len(ubatches[n + 1][st])
    OBVIOUS
  <2>2. sinfo[st] = find_slot(c, h, l)
    BY <1>0, <2>1 DEF SlotsFor
  <2>3. c.used \in SUBSET Cell /\ h \in Int
    BY <1>1, <2>1, SizeAssumption DEF IInv, CellsOK, CellsType, HeadsOK, HeadRange
  <2>4. l \in Nat
    BY <1>1, <1>2, <2>1, UbatchFacts
  <2>5. Cardinality(DOMAIN find_slot(c, h, l)) = l
    BY <1>2, <2>1, <2>2
  <2> QED
    BY <2>1, <2>2, <2>3, <2>4, <2>5, FindSlotFills
<1>6. SlotsFull'
  <2> SUFFICES ASSUME NEW k \in 1 .. n + 1, NEW st \in Stream
               PROVE  Fills(sinfos'[k][st], Len(ubatches[k][st]))
    BY <1>2 DEF SlotsFull, Stream
  <2>1. CASE k \in 1 .. n
    BY <1>0, <1>2, <2>1 DEF RunInv, SlotsFull
  <2>2. CASE k = n + 1
    BY <1>2, <1>5, <2>2
  <2> QED
    BY <1>2, <2>1, <2>2
<1>7. Placed'
  BY <1>2 DEF Placed
<1> QED
  BY <1>4, <1>6, <1>7 DEF RunInv

LEMMA ApplyUbatchRun ==
  ASSUME NSwa = 0, Settled, Settled', PrepInv, RunInv, ApplyUbatch
  PROVE  RunInv'
<1>0. PICK n, sinfo, ub : n = i_cur /\ sinfo = sinfos[n] /\ ub = ubatches[n]
  OBVIOUS
<1>1. /\ IInv /\ phase = "apply" /\ phase' = "compute"
      /\ i_cur' = n /\ sinfos' = sinfos /\ ubatches' = ubatches /\ Apply(sinfo, ub)
  BY <1>0 DEF Settled, ApplyUbatch
<1>2. n \in 1 .. Len(sinfos) /\ ub \in UBatch /\ Places(sinfo, ub)
  BY <1>0, <1>1, CurrentSlot DEF IInv, CallOK
<1>3. Vacates(sinfo)
  BY <1>0, <1>1, <1>2 DEF PrepInv, Vacant, ToCome, Vacates, Slots
<1>4. Coming'
  <2>1. Turn' = Turn
    BY <1>0, <1>1 DEF Turn
  <2>2. Same
    BY ApplyUbatchSame
  <2> QED
    BY <1>1, <2>1, <2>2, SameComing DEF RunInv
<1>5. SlotsFull'
  BY <1>1 DEF RunInv, SlotsFull, Stream
<1>6. ASSUME NEW st \in Stream, NEW i \in DOMAIN sinfo[st]
      PROVE  /\ v_cells'[st].pos[i] = ub[st][sinfo[st][i]].pos
             /\ v_cells'[st].seq[i] = ub[st][sinfo[st][i]].seqs
  <2>1. v_cells'[st] = apply_ubatch(v_cells[st], sinfo[st], ub[st])
    BY <1>1 DEF Apply
  <2>2. ub[st] \in Seq(Token)
    BY <1>2 DEF UBatch
  <2>3. \A j \in DOMAIN sinfo[st] : ub[st][sinfo[st][j]] \in Token /\ v_cells[st].pos[j] = Empty
    BY <1>2, <1>3, <2>2, ElementOfSeq DEF Places, Vacates
  <2>4. Sound(v_cells[st]) /\ DOMAIN sinfo[st] \in SUBSET Cell
    BY <1>1, <1>2 DEF IInv, CellsOK, Places
  <2>5. LET d == v_cells'[st]
            slot == sinfo[st]
        IN  /\ d.pos[i] = IF i \in DOMAIN slot THEN ub[st][slot[i]].pos ELSE v_cells[st].pos[i]
            /\ d.seq[i] = IF i \in DOMAIN slot THEN ub[st][slot[i]].seqs ELSE v_cells[st].seq[i]
    BY <2>1, <2>3, <2>4, ApplyVacant
  <2> QED
    BY <2>5
<1>7. Placed'
  BY <1>0, <1>1, <1>6 DEF Placed, Slots, Stream
<1> QED
  BY <1>4, <1>5, <1>7 DEF RunInv

LEMMA StutterRun == RunInv /\ UNCHANGED vars => RunInv'
<1> SUFFICES ASSUME RunInv, UNCHANGED vars PROVE RunInv'
  OBVIOUS
<1>1. UNCHANGED <<v_cells, phase, ubatches, sinfos, stack, i_cur>>
  BY DEF vars, memVars, callVars
<1>2. SlotsFull' /\ Placed'
  BY <1>1 DEF RunInv, SlotsFull, Placed, Slots, Stream
<1>3. Coming'
  <2>1. \A st : Tentative(st)' = Tentative(st)
    BY <1>1 DEF Tentative
  <2>2. Same
    BY <1>1, <2>1, StaySame
  <2>3. Turn' = Turn
    BY <1>1 DEF Turn
  <2>4. CASE phase = "idle"
    BY <1>1, <2>4 DEF Coming
  <2>5. CASE phase # "idle"
    BY <1>1, <2>2, <2>3, <2>5, SameComing DEF RunInv
  <2> QED
    BY <2>4, <2>5
<1> QED
  BY <1>2, <1>3 DEF RunInv

-----------------------------------------------------------------------------
(* A graph that succeeds.                                                  *)

(* The cells of the micro-batch at position p of s.                        *)
Gained(s, p) ==
  LET st == seq_to_stream(s)
  IN  CellsAt(v_cells[st].pos, v_cells[st].seq, s, p) \cap Slots(i_cur, st)

LEMMA GainedCount ==
  ASSUME IInv, RunInv, phase = "compute", NEW s \in SeqId, NEW p \in Pos,
         NEW x, NEW y, LaysIn(ubatches[i_cur][seq_to_stream(s)], s, x, y), x \in Nat, y \in Nat
  PROVE  /\ Gained(s, p) \in SUBSET Cell
         /\ Cardinality(Gained(s, p)) = IF x <= p /\ p < y THEN 1 ELSE 0
<1> DEFINE st == seq_to_stream(s)
<1>0. PICK slot, toks, k : slot = sinfos[i_cur][st] /\ toks = ubatches[i_cur][st] /\ k = i_cur
  OBVIOUS
<1>1. st \in Stream /\ k \in 1 .. Len(sinfos)
  BY <1>0, StreamFacts DEF IInv, CallOK
<1>2. Fills(slot, Len(toks)) /\ \A i \in DOMAIN slot : slot[i] \in 1 .. Len(toks)
  BY <1>0, <1>1, CurrentSlot DEF RunInv, SlotsFull, Places
<1>3. \A i \in DOMAIN slot : /\ v_cells[st].pos[i] = toks[slot[i]].pos
                             /\ v_cells[st].seq[i] = toks[slot[i]].seqs
  BY <1>0, <1>1 DEF RunInv, Placed, Slots
<1>4. DOMAIN slot \in SUBSET Cell /\ Slots(i_cur, st) = DOMAIN slot
  BY <1>0, <1>1, CurrentSlot DEF Slots, Places
<1>5. p # Empty
  BY PosFacts
<1>6. Gained(s, p) = {i \in DOMAIN slot : s \in toks[slot[i]].seqs /\ toks[slot[i]].pos = p}
  BY <1>3, <1>4 DEF Gained, CellsAt
<1>7. LaysIn(toks, s, x, y)
  BY <1>0
<1> HIDE DEF st
<1>8. CASE x <= p /\ p < y
  <2>1. p \in x .. y - 1
    BY <1>8, MaxPosAssumption DEF Pos
  <2>2. PICK j \in 1 .. Len(toks) : s \in toks[j].seqs /\ toks[j].pos = p
    BY <1>7, <2>1 DEF LaysIn
  <2>3. PICK i \in DOMAIN slot : slot[i] = j
    BY <1>2 DEF Fills
  <2>4. \A h \in DOMAIN slot : s \in toks[slot[h]].seqs /\ toks[slot[h]].pos = p => h = i
    <3> SUFFICES ASSUME NEW h \in DOMAIN slot, s \in toks[slot[h]].seqs, toks[slot[h]].pos = p
                 PROVE  h = i
      OBVIOUS
    <3>1. slot[h] \in 1 .. Len(toks)
      BY <1>2
    <3>2. slot[h] = j
      BY <1>7, <2>2, <3>1 DEF LaysIn
    <3> QED
      BY <1>2, <2>3, <3>2 DEF Fills
  <2>5. Gained(s, p) = {i}
    BY <1>6, <2>2, <2>3, <2>4
  <2>6. Cardinality({i}) = 1
    BY FS_Singleton
  <2> QED
    BY <1>4, <1>8, <2>5, <2>6
<1>9. CASE ~(x <= p /\ p < y)
  <2>1. Gained(s, p) = {}
    BY <1>2, <1>6, <1>7, <1>9 DEF LaysIn
  <2> QED
    BY <1>9, <2>1, NoCells
<1> QED
  BY <1>8, <1>9

LEMMA ComputeOkCounts ==
  ASSUME Settled, RunInv, ComputeOk, NEW s \in SeqId, NEW p \in Pos,
         NEW x, NEW y, LaysIn(ubatches[i_cur][seq_to_stream(s)], s, x, y), x \in Nat, y \in Nat
  PROVE  Committed'[s][p] = Committed[s][p] + (IF x <= p /\ p < y THEN 1 ELSE 0)
<1> DEFINE st == seq_to_stream(s)
<1>1. /\ IInv /\ phase = "compute" /\ phase' # "compute" /\ UNCHANGED v_cells /\ stack = <<>> /\ stack' = <<>>
  BY DEF Settled, ComputeOk, IInv, StackOK, Idle
<1>2. st \in Stream
  BY StreamFacts
<1>3. Tentative(st) = Slots(i_cur, st)
  BY <1>1, <1>2, TentativeFacts DEF TentativeIs
<1>4. Tentative(st)' = {}
  BY <1>1 DEF Tentative
<1>5. Kept(s, p)' = Kept(s, p) \cup Gained(s, p) /\ Kept(s, p) \cap Gained(s, p) = {}
  <2>1. Kept(s, p)' = CellsAt(v_cells[st].pos, v_cells[st].seq, s, p) \ Tentative(st)'
    BY <1>1 DEF Kept, seq_to_stream
  <2>2. Kept(s, p) = CellsAt(v_cells[st].pos, v_cells[st].seq, s, p) \ Slots(i_cur, st)
    BY <1>3 DEF Kept
  <2>3. Gained(s, p) = CellsAt(v_cells[st].pos, v_cells[st].seq, s, p) \cap Slots(i_cur, st)
    BY DEF Gained
  <2> QED
    BY <1>4, <2>1, <2>2, <2>3
<1>6. /\ Gained(s, p) \in SUBSET Cell
      /\ Cardinality(Gained(s, p)) = IF x <= p /\ p < y THEN 1 ELSE 0
  BY <1>1, GainedCount
<1>7. Kept(s, p) \in SUBSET Cell /\ Committed[s][p] = Cardinality(Kept(s, p))
      /\ Committed[s][p] \in Nat
  BY KeptFacts
<1>8. PICK K, G : K = Kept(s, p) /\ G = Gained(s, p)
  OBVIOUS
<1>9. IsFiniteSet(K) /\ IsFiniteSet(G)
  BY <1>6, <1>7, <1>8, CellFinite
<1>10. Cardinality(K \cup G) = Cardinality(K) + Cardinality(G) - Cardinality(K \cap G)
  BY <1>9, FS_Union
<1>11. Cardinality(K \cap G) = 0
  BY <1>5, <1>8, NoCells
<1>12. Committed'[s][p] = Cardinality(K \cup G)
  <2>1. Committed'[s][p] = Cardinality(Kept(s, p)')
    BY DEF Committed, Kept, seq_to_stream
  <2> QED
    BY <1>5, <1>8, <2>1
<1> QED
  BY <1>6, <1>7, <1>8, <1>10, <1>11, <1>12

-----------------------------------------------------------------------------
LEMMA LastIs ==
  ASSUME NEW s \in SeqId, NEW q \in Nat, Upto(s, q)
  PROVE  Store!Last(s) = q - 1
<1> DEFINE c == Committed[s]
           IsLast(p) == c[p] > 0 /\ \A r \in Pos : c[r] > 0 => r <= p
<1>1. c = [p \in Pos |-> c[p]] /\ \A p \in Pos : c[p] \in Nat
  BY KeptFacts DEF Committed
<1>2. \A p \in Pos : c[p] > 0 => p < q
  BY DEF Upto
<1>3. q > 0 => q - 1 \in Pos /\ c[q - 1] > 0
  BY DEF Upto
<1>4. Store!Last(s) = IF c = Store!Nothing THEN -1 ELSE CHOOSE p \in Pos : IsLast(p)
  BY DEF Store!Last
<1>5. Store!Nothing = [p \in Pos |-> 0]
  BY DEF Store!Nothing
<1> HIDE DEF c
<1>6. CASE q = 0
  <2>1. \A p \in Pos : c[p] = 0
    BY <1>1, <1>2, <1>6, MaxPosAssumption DEF Pos
  <2>2. c = [p \in Pos |-> 0]
    BY <1>1, <2>1, Zenon
  <2> QED
    BY <1>4, <1>5, <1>6, <2>2
<1>7. CASE q > 0
  <2>1. q - 1 \in Pos /\ c[q - 1] > 0
    BY <1>3, <1>7
  <2>2. c # Store!Nothing
    BY <1>5, <2>1
  <2>3. IsLast(q - 1)
    BY <1>2, <2>1, MaxPosAssumption DEF Pos
  <2>4. \A p \in Pos : IsLast(p) => p = q - 1
    <3> SUFFICES ASSUME NEW p \in Pos, IsLast(p) PROVE p = q - 1
      OBVIOUS
    <3>1. q - 1 <= p /\ p < q
      BY <1>2, <2>1
    <3>2. p \in Int
      BY MaxPosAssumption DEF Pos
    <3> QED
      BY <3>1, <3>2
  <2> HIDE DEF IsLast
  <2>5. (CHOOSE p \in Pos : IsLast(p)) = q - 1
    BY <2>1, <2>3, <2>4
  <2> QED
    BY <1>4, <2>2, <2>5
<1> QED
  BY <1>6, <1>7

(* The bounds of the micro-batches of a sequence.                          *)
Bounds(s) == CHOOSE b : Lays(b, s, ubatches) /\ Upto(s, b[Turn])

LEMMA BoundsFacts ==
  ASSUME IInv, RunInv, phase = "compute", NEW s \in SeqId
  PROVE  /\ Lays(Bounds(s), s, ubatches)
         /\ Bounds(s)[i_cur] \in Nat /\ Bounds(s)[i_cur + 1] \in Nat
         /\ Bounds(s)[i_cur] <= Bounds(s)[i_cur + 1]
         /\ Bounds(s)[i_cur + 1] <= Bounds(s)[i_cur] + NUbatch
         /\ Bounds(s)[i_cur + 1] <= MaxPos + 1
         /\ LaysIn(ubatches[i_cur][seq_to_stream(s)], s, Bounds(s)[i_cur], Bounds(s)[i_cur + 1])
         /\ Upto(s, Bounds(s)[i_cur])
<1>1. Continues(s)
  BY DEF RunInv, Coming
<1>2. PICK b : b = Bounds(s)
  OBVIOUS
<1>3. Lays(b, s, ubatches) /\ Upto(s, b[Turn])
  BY <1>1, <1>2, Zenon DEF Continues, Bounds
<1>4. Turn = i_cur
  BY DEF Turn
<1>5. PICK k : k = i_cur
  OBVIOUS
<1>6. k \in 1 .. Len(ubatches) /\ Len(ubatches) \in Nat
  BY <1>5, LenProperties DEF IInv, CallOK
<1>7. k \in 1 .. Len(ubatches) + 1 /\ k + 1 \in 1 .. Len(ubatches) + 1
  BY <1>6
<1>8. /\ b[k] \in Nat /\ b[k + 1] \in Nat
      /\ b[k] <= b[k + 1] /\ b[k + 1] <= b[k] + NUbatch /\ b[k + 1] <= MaxPos + 1
      /\ LaysIn(ubatches[k][seq_to_stream(s)], s, b[k], b[k + 1])
  BY <1>3, <1>6, <1>7 DEF Lays
<1> QED
  BY <1>2, <1>3, <1>4, <1>5, <1>8

(* The micro-batch extends every sequence at its end.                      *)
LEMMA ComputeOkStore ==
  ASSUME Settled, RunInv, ComputeOk
  PROVE  \E len \in [SeqId -> 0 .. NUbatch] : Store!Extend(len)
<1> DEFINE lo(s) == Bounds(s)[i_cur]
           hi(s) == Bounds(s)[i_cur + 1]
           len == [s \in SeqId |-> hi(s) - lo(s)]
<1>1. IInv /\ phase = "compute"
  BY DEF Settled, ComputeOk
<1>2. ASSUME NEW s \in SeqId
      PROVE  /\ lo(s) \in Nat /\ hi(s) \in Nat /\ lo(s) <= hi(s) /\ hi(s) <= lo(s) + NUbatch
             /\ LaysIn(ubatches[i_cur][seq_to_stream(s)], s, lo(s), hi(s))
             /\ Upto(s, lo(s))
  BY <1>1, BoundsFacts
<1>3. ASSUME NEW s \in SeqId
      PROVE  hi(s) - lo(s) \in 0 .. NUbatch
  <2>1. PICK x, y : x = lo(s) /\ y = hi(s)
    OBVIOUS
  <2>2. x \in Nat /\ y \in Nat /\ x <= y /\ y <= x + NUbatch
    BY <1>2, <2>1
  <2> QED
    BY <2>1, <2>2, NUbatchAssumption
<1>4. len \in [SeqId -> 0 .. NUbatch]
  BY <1>3
<1> DEFINE F == [s \in SeqId |-> [p \in Pos |->
                   Committed[s][p] + (IF p > Store!Last(s) /\ p <= Store!Last(s) + len[s] THEN 1 ELSE 0)]]
<1>5. ASSUME NEW s \in SeqId, NEW p \in Pos
      PROVE  Committed'[s][p] = F[s][p]
  <2>1. PICK x, y, z : x = lo(s) /\ y = hi(s) /\ z = Store!Last(s)
    OBVIOUS
  <2>2. /\ x \in Nat /\ y \in Nat /\ x <= y /\ y <= x + NUbatch
        /\ LaysIn(ubatches[i_cur][seq_to_stream(s)], s, x, y)
        /\ Upto(s, x)
    BY <1>2, <2>1
  <2>3. Committed'[s][p] = Committed[s][p] + (IF x <= p /\ p < y THEN 1 ELSE 0)
    BY <2>2, ComputeOkCounts
  <2>4. z = x - 1
    BY <2>1, <2>2, LastIs
  <2>5. len[s] = y - x
    BY <2>1
  <2>6. p \in Int
    BY MaxPosAssumption DEF Pos
  <2>7. (x <= p /\ p < y) <=> (p > z /\ p <= z + (y - x))
    BY <2>2, <2>4, <2>6
  <2>8. F[s][p] = Committed[s][p] + (IF p > z /\ p <= z + len[s] THEN 1 ELSE 0)
    BY <2>1
  <2> HIDE DEF F, len
  <2> QED
    BY <2>3, <2>5, <2>7, <2>8
<1>6. F = [s \in SeqId |-> [p \in Pos |-> F[s][p]]]
  OBVIOUS
<1>7. Committed' = F
  <2> HIDE DEF F
  <2> QED
    BY <1>5, <1>6, CommittedIs
<1> HIDE DEF len
<1>8. Store!Extend(len)
  BY <1>7 DEF Store!Extend
<1> QED
  BY <1>4, <1>8

LEMMA ComputeOkRun ==
  ASSUME Settled, RunInv, ComputeOk
  PROVE  RunInv'
<1>1. CASE Idle
  BY <1>1, NothingRuns DEF Idle
<1>2. CASE ~Idle
  <2>1. /\ IInv /\ phase = "compute" /\ phase' = "apply" /\ i_cur' = i_cur + 1
        /\ UNCHANGED <<ubatches, sinfos>>
    BY <1>2 DEF Settled, ComputeOk
  <2>2. SlotsFull' /\ Placed'
    BY <2>1 DEF RunInv, SlotsFull, Placed, Stream
  <2>3. TokensOK(ubatches)'
    BY <2>1 DEF RunInv, Coming, TokensOK, Stream, SeqSets, SeqId, seq_to_stream
  <2>4. ASSUME NEW s \in SeqId
        PROVE  Continues(s)'
    <3>1. PICK b, x, y, k : b = Bounds(s) /\ k = i_cur /\ x = b[k] /\ y = b[k + 1]
      OBVIOUS
    <3>2. /\ Lays(b, s, ubatches) /\ Upto(s, x)
          /\ x \in Nat /\ y \in Nat /\ x <= y /\ y <= MaxPos + 1
          /\ LaysIn(ubatches[i_cur][seq_to_stream(s)], s, x, y)
      BY <2>1, <3>1, BoundsFacts
    <3>3. \A p \in Pos : Committed'[s][p] = Committed[s][p] + (IF x <= p /\ p < y THEN 1 ELSE 0)
      BY <3>2, ComputeOkCounts
    <3>4. \A p \in Pos : p \in Nat /\ Committed[s][p] \in Nat
      BY KeptFacts, MaxPosAssumption DEF Pos
    <3>5. \A p \in Pos : Committed'[s][p] > 0 => p < y
      <4> TAKE p \in Pos
      <4>1. Committed[s][p] > 0 => p < x
        BY <3>2 DEF Upto
      <4> QED
        BY <3>2, <3>3, <3>4, <4>1
    <3>6. y > 0 => y - 1 \in Pos /\ Committed'[s][y - 1] > 0
      <4> SUFFICES ASSUME y > 0 PROVE y - 1 \in Pos /\ Committed'[s][y - 1] > 0
        OBVIOUS
      <4>1. PICK p : p = y - 1
        OBVIOUS
      <4>2. p \in Pos
        BY <3>2, <4>1, MaxPosAssumption DEF Pos
      <4>3. CASE x = y
        <5>1. Committed[s][p] > 0
          BY <3>2, <4>1, <4>3 DEF Upto
        <5> QED
          BY <3>3, <3>4, <4>1, <4>2, <5>1
      <4>4. CASE x # y
        <5>1. x <= p /\ p < y
          BY <3>2, <4>1, <4>4
        <5> QED
          BY <3>3, <3>4, <4>1, <4>2, <5>1
      <4> QED
        BY <4>3, <4>4
    <3>7. Turn' = k + 1
      BY <2>1, <3>1 DEF Turn
    <3>8. Upto(s, b[Turn])'
      BY <3>1, <3>5, <3>6, <3>7 DEF Upto
    <3>9. PICK ubs : ubs = ubatches
      OBVIOUS
    <3>10. Lays(b, s, ubatches)'
      BY <2>1, <3>2, <3>9 DEF Lays, seq_to_stream
    <3> QED
      BY <3>8, <3>10 DEF Continues
  <2> QED
    BY <2>2, <2>3, <2>4 DEF RunInv, Coming
<1> QED
  BY <1>1, <1>2

-----------------------------------------------------------------------------
(* A graph that fails: the rollback takes away what was placed.            *)

LEMMA LoneToken ==
  ASSUME MaxSeqs = 1 \/ ~Unified, NEW A \in SeqSets
  PROVE  \E s \in SeqId : A = {s} /\ Least(A) = s
<1>1. A \in SUBSET SeqId /\ A # {} /\ Cardinality(A) <= 1
  BY DEF SeqSets
<1>2. IsFiniteSet(A)
  <2>1. IsFiniteSet(SeqId)
    <3>1. 0 \in Int /\ NSeqMax - 1 \in Int
      BY NSeqMaxAssumption
    <3> QED
      BY <3>1, FS_Interval DEF SeqId
  <2> QED
    BY <1>1, <2>1, FS_Subset
<1>3. Cardinality(A) \in Nat
  BY <1>2, FS_CardinalityType
<1>4. Cardinality(A) = 0 \/ Cardinality(A) = 1
  BY <1>1, <1>3
<1>5. Cardinality(A) = 1
  BY <1>1, <1>2, <1>4, FS_EmptySet
<1>6. PICK x : A = {x}
  BY <1>2, <1>5, FS_Singleton
<1>7. Least(A) \in A /\ Least(A) \in SeqId
  BY <1>1, SeqIdFacts
<1> QED
  BY <1>6, <1>7

(* What decode removes from a cell, when tokens have one sequence each.    *)
LEMMA RolledBack ==
  ASSUME MaxSeqs = 1 \/ ~Unified, IInv, RunInv, phase = "compute",
         NEW st \in Stream, NEW i \in Cell
  PROVE  /\ RollBack(st)[i] \subseteq v_cells[st].seq[i]
         /\ i \in Slots(i_cur, st) => RollBack(st)[i] = v_cells[st].seq[i]
         /\ i \notin Tentative(st) /\ Slots(i_cur, st) \subseteq Tentative(st) => RollBack(st)[i] = {}
<1>0. PICK k, ub, slot, c : k = i_cur /\ ub = ubatches[k][st] /\ slot = sinfos[k][st] /\ c = v_cells[st]
  OBVIOUS
<1> DEFINE toks == Toks(ubatches[i_cur], st)
           posOf(s) == {t.pos : t \in {u \in toks : seq_id_0(u) = s}}
           lead == {seq_id_0(t) : t \in toks}
<1>1. RollBack(st)[i] = {s \in c.seq[i] \cap lead : c.pos[i] >= Least(posOf(s))}
  BY <1>0 DEF RollBack
<1>2. k \in 1 .. Len(ubatches) /\ ub \in Seq(Token) /\ Len(ub) \in Nat /\ DOMAIN ub = 1 .. Len(ub)
  <2>1. k \in 1 .. Len(ubatches) /\ ubatches[k] \in UBatch
    BY <1>0, CurrentSlot
  <2>2. ub \in Seq(Token)
    BY <1>0, <2>1 DEF UBatch
  <2> QED
    BY <2>1, <2>2, LenProperties
<1>3. toks = {ub[j] : j \in 1 .. Len(ub)}
  BY <1>0, <1>2 DEF Toks
<1>4. ASSUME NEW j \in 1 .. Len(ub)
      PROVE  /\ ub[j] \in Token /\ seq_id_0(ub[j]) \in SeqId
             /\ ub[j].seqs = {seq_id_0(ub[j])} /\ seq_to_stream(seq_id_0(ub[j])) = st
  <2>1. ub[j] \in Token
    BY <1>2, ElementOfSeq
  <2>2. ub[j].seqs \in SeqSets /\ \A s \in ub[j].seqs : seq_to_stream(s) = st
    BY <1>0, <1>2 DEF RunInv, Coming, TokensOK
  <2>3. PICK s \in SeqId : ub[j].seqs = {s} /\ Least(ub[j].seqs) = s
    BY <2>2, LoneToken
  <2> QED
    BY <2>1, <2>2, <2>3 DEF seq_id_0
<1>5. ASSUME NEW s \in SeqId
      PROVE  posOf(s) \in SUBSET Pos
  BY <1>3, <1>4 DEF Token
<1> HIDE DEF toks
<1>6. \A s \in lead : s \in SeqId /\ seq_to_stream(s) = st /\ posOf(s) # {}
  BY <1>3, <1>4
<1>7. \A s \in lead : Least(posOf(s)) \in posOf(s) /\ \A q \in posOf(s) : Least(posOf(s)) <= q
  <2> TAKE s \in lead
  <2>1. posOf(s) \in SUBSET Pos /\ posOf(s) # {}
    BY <1>5, <1>6
  <2> HIDE DEF posOf
  <2>2. posOf(s) \in SUBSET Nat
    BY <2>1, MaxPosAssumption DEF Pos
  <2> QED
    BY <2>1, <2>2, LeastNat
<1>8. RollBack(st)[i] \subseteq c.seq[i]
  BY <1>1
<1>9. ASSUME i \in Slots(k, st)
      PROVE  RollBack(st)[i] = c.seq[i]
  <2>1. PICK j : j = slot[i]
    OBVIOUS
  <2>2. j \in 1 .. Len(ub) /\ c.pos[i] = ub[j].pos /\ c.seq[i] = ub[j].seqs
    <3>1. j \in 1 .. Len(ub)
      BY <1>0, <1>9, <2>1, CurrentSlot DEF Places, Slots
    <3> QED
      BY <1>0, <1>9, <2>1, <3>1 DEF RunInv, Placed
  <2>3. PICK s : s = seq_id_0(ub[j])
    OBVIOUS
  <2>4. ub[j] \in toks /\ s \in lead /\ c.seq[i] = {s} /\ c.pos[i] \in posOf(s)
    BY <1>3, <1>4, <2>2, <2>3
  <2>5. Least(posOf(s)) <= c.pos[i] /\ Least(posOf(s)) \in Pos /\ c.pos[i] \in Pos
    BY <1>5, <1>6, <1>7, <2>4
  <2>6. c.pos[i] >= Least(posOf(s))
    BY <2>5, MaxPosAssumption DEF Pos
  <2> HIDE DEF lead, posOf
  <2> QED
    BY <1>1, <2>4, <2>6
<1>10. ASSUME i \notin Tentative(st), Slots(k, st) \subseteq Tentative(st)
       PROVE  RollBack(st)[i] = {}
  <2> SUFFICES ASSUME NEW s \in RollBack(st)[i] PROVE FALSE
    OBVIOUS
  <2>1. s \in c.seq[i] /\ s \in lead /\ c.pos[i] >= Least(posOf(s))
    BY <1>1
  <2>2. s \in SeqId /\ seq_to_stream(s) = st
    BY <1>6, <2>1
  <2>3. PICK b, x, y : b = Bounds(s) /\ x = b[k] /\ y = b[k + 1]
    OBVIOUS
  <2>4. x \in Nat /\ LaysIn(ub, s, x, y) /\ Upto(s, x)
    BY <1>0, <2>2, <2>3, BoundsFacts
  <2>5. \A q \in posOf(s) : x <= q
    <3> TAKE q \in posOf(s)
    <3>1. PICK t \in toks : seq_id_0(t) = s /\ q = t.pos
      OBVIOUS
    <3>2. PICK j \in 1 .. Len(ub) : t = ub[j]
      BY <1>3
    <3> QED
      BY <1>4, <2>4, <3>1, <3>2 DEF LaysIn
  <2>6. Least(posOf(s)) \in Pos /\ x <= Least(posOf(s))
    BY <1>5, <1>7, <2>1, <2>2, <2>5
  <2>7. PICK p : p = c.pos[i]
    OBVIOUS
  <2>8. p \in Pos
    <3>1. c.seq[i] # {} /\ c.pos[i] \in Pos \cup {Empty} /\ (c.pos[i] = Empty <=> c.seq[i] = {})
      BY <1>0, <2>1, CellsOfStream
    <3> QED
      BY <2>7, <3>1
  <2>9. i \in Kept(s, p)
    BY <1>0, <1>10, <2>1, <2>2, <2>7 DEF Kept, CellsAt
  <2>10. Committed[s][p] > 0
    <3>1. Kept(s, p) \in SUBSET Cell /\ Committed[s][p] = Cardinality(Kept(s, p)) /\ Committed[s][p] \in Nat
      BY <2>2, <2>8, KeptFacts
    <3>2. IsFiniteSet(Kept(s, p))
      BY <3>1, CellFinite
    <3>3. Committed[s][p] # 0
      BY <2>9, <3>1, <3>2, FS_EmptySet
    <3> QED
      BY <3>1, <3>3
  <2>11. p < x
    BY <2>4, <2>8, <2>10 DEF Upto
  <2>12. PICK l : l = Least(posOf(s))
    OBVIOUS
  <2> HIDE DEF posOf, lead
  <2>13. p \in Int /\ l \in Int /\ p >= l /\ x <= l
    BY <2>1, <2>6, <2>7, <2>8, <2>12, MaxPosAssumption DEF Pos
  <2> QED
    BY <2>4, <2>11, <2>13
<1> QED
  BY <1>0, <1>8, <1>9, <1>10

LEMMA ComputeFailSame ==
  ASSUME MaxSeqs = 1 \/ ~Unified, Settled, RunInv, ComputeFail
  PROVE  Same
<1>1. /\ IInv /\ phase = "compute" /\ phase' = "idle" /\ stack' = <<>>
      /\ v_cells' = [st \in Stream |-> seq_rm(v_cells[st], RollBack(st))]
  BY DEF Settled, ComputeFail, Idle
<1>2. ASSUME NEW st \in Stream, NEW i \in Cell
      PROVE  /\ Shows(st, i)' = Shows(st, i)
             /\ Shows(st, i) => /\ v_cells'[st].pos[i] = v_cells[st].pos[i]
                                /\ v_cells'[st].seq[i] = v_cells[st].seq[i]
  <2>1. PICK c, G, d : c = v_cells[st] /\ G = RollBack(st) /\ d = seq_rm(c, G)
    OBVIOUS
  <2>2. v_cells'[st] = d
    BY <1>1, <2>1
  <2>3. Tentative(st) = Slots(i_cur, st) /\ Tentative(st)' = {}
    <3>1. Tentative(st) = Slots(i_cur, st)
      BY <1>1, TentativeFacts DEF TentativeIs
    <3>2. Tentative(st)' = {}
      BY <1>1 DEF Tentative
    <3> QED
      BY <3>1, <3>2
  <2>4. \A j \in Cell : /\ G[j] \in SUBSET c.seq[j]
                        /\ j \in Slots(i_cur, st) => G[j] = c.seq[j]
                        /\ j \notin Slots(i_cur, st) => G[j] = {}
    BY <1>1, <2>1, <2>3, RolledBack
  <2>5. Sound(c) /\ (c.pos[i] = Empty <=> c.seq[i] = {})
    BY <1>1, <2>1, CellsOfStream
  <2>6. /\ d.pos[i] = IF i \in Freed(c, G) THEN Empty ELSE c.pos[i]
        /\ d.seq[i] = c.seq[i] \ G[i]
    <3>1. \A j \in Cell : G[j] \subseteq c.seq[j]
      BY <2>4
    <3>4. ASSUME NEW q, Sound(q), NEW H, \A j \in Cell : H[j] \subseteq q.seq[j]
          PROVE  \A j \in Cell : /\ seq_rm(q, H).pos[j] = IF j \in Freed(q, H) THEN Empty ELSE q.pos[j]
                                 /\ seq_rm(q, H).seq[j] = q.seq[j] \ H[j]
      BY <3>4, SeqRmCells
    <3>2. /\ seq_rm(c, G).pos[i] = IF i \in Freed(c, G) THEN Empty ELSE c.pos[i]
          /\ seq_rm(c, G).seq[i] = c.seq[i] \ G[i]
      BY <2>5, <3>1, <3>4
    <3>3. d = seq_rm(c, G)
      BY <2>1
    <3> QED
      BY <3>2, <3>3
  <2>7. Shows(st, i) <=> i \notin Slots(i_cur, st) /\ c.pos[i] # Empty
    BY <2>1, <2>3 DEF Shows
  <2>8. Shows(st, i)' <=> d.pos[i] # Empty
    BY <2>2, <2>3 DEF Shows
  <2>9. CASE i \in Slots(i_cur, st)
    <3>1. d.pos[i] = Empty
      BY <2>4, <2>5, <2>6, <2>9 DEF Freed
    <3> QED
      BY <2>7, <2>8, <2>9, <3>1 DEF Shows
  <2>10. CASE i \notin Slots(i_cur, st)
    <3>1. d.pos[i] = c.pos[i] /\ d.seq[i] = c.seq[i]
      BY <2>4, <2>6, <2>10 DEF Freed
    <3> QED
      BY <2>1, <2>2, <2>7, <2>8, <2>10, <3>1 DEF Shows
  <2> QED
    BY <2>9, <2>10
<1> QED
  BY <1>2 DEF Same

-----------------------------------------------------------------------------
(* The refinement.                                                         *)

StoreInv == Settled /\ PrepInv /\ RunInv

LEMMA NextRun ==
  ASSUME NSwa = 0, StoreInv, Settled', [Next]_vars
  PROVE  RunInv'
<1>1. Settled /\ PrepInv /\ RunInv /\ IInv
  BY DEF StoreInv, Settled
<1>2. ReturnNoSlot \/ ComputeFail => RunInv'
  BY NothingRuns DEF ReturnNoSlot, ComputeFail, Idle
<1> QED
  BY <1>1, <1>2, MemoryOpRun, BeginRun, QuietRun, PrepareSlotRun, ApplyUbatchRun, ComputeOkRun, StutterRun
     DEF Next, DecodeStep

(* While a decode runs, its tokens, the slots and the micro-batches to     *)
(* come are in order.                                                      *)
THEOREM RunInvariance ==
  ASSUME NSwa = 0
  PROVE  Spec => []StoreInv
<1>1. Init => RunInv
  BY InitRun
<1>2. IInv /\ TryInv /\ PrepInv /\ RunInv /\ IInv' /\ TryInv' /\ [Next]_vars => RunInv'
  BY NextRun DEF StoreInv, Settled
<1>3. IInv /\ TryInv /\ PrepInv /\ RunInv => StoreInv
  BY DEF StoreInv, Settled
<1> QED
  BY Invariance, TryInvariance, PrepareInvariance, <1>1, <1>2, <1>3, PTL DEF Spec

LEMMA StoreInit == Init => Store!Init
<1> SUFFICES ASSUME Init PROVE Store!Init
  OBVIOUS
<1>1. IInv /\ phase = "idle"
  BY InitIInv DEF Init
<1>2. \A s \in SeqId : \A p \in Pos : Committed[s][p] = 0
  <2> TAKE s \in SeqId
  <2> TAKE p \in Pos
  <2>1. Committed[s][p] = v_cells[seq_to_stream(s)].seq_pos[s][p]
    BY <1>1, IdleCounts DEF Between, Counts
  <2>2. seq_to_stream(s) \in Stream
    BY StreamFacts
  <2>3. v_cells[seq_to_stream(s)] = reset
    BY <2>2 DEF Init
  <2> QED
    BY <2>1, <2>3 DEF reset
<1>3. Committed = [s \in SeqId |-> [p \in Pos |-> 0]]
  BY <1>2, CommittedType, Zenon
<1> QED
  BY <1>3 DEF Store!Init, Store!Nothing

LEMMA StoreStep ==
  ASSUME NSwa = 0, Documented, MaxSeqs = 1 \/ ~Unified \/ "compute" \notin Faults,
         StoreInv, StoreInv', [Next]_vars
  PROVE  Store!Next \/ Committed' = Committed
<1>1. /\ Settled /\ PrepInv /\ RunInv /\ IInv
      /\ Settled' /\ IInv'
  BY DEF StoreInv, Settled
<1>2. CASE MemoryOp
  BY <1>1, <1>2, MemoryOpStore
<1>3. CASE Begin \/ (DecodeStep /\ ~ComputeOk /\ ~ComputeFail)
  BY <1>1, <1>3, DecodeSame, SameCommitted
<1>4. CASE ComputeOk
  BY <1>1, <1>4, ComputeOkStore DEF Store!Next
<1>5. CASE ComputeFail
  <2>1. MaxSeqs = 1 \/ ~Unified
    BY <1>5 DEF ComputeFail
  <2> QED
    BY <1>1, <1>5, <2>1, ComputeFailSame, SameCommitted
<1>6. CASE UNCHANGED vars
  <2>1. UNCHANGED <<v_cells, phase, sinfos, stack, i_cur>>
    BY <1>6 DEF vars, memVars, callVars
  <2>2. \A st : Tentative(st)' = Tentative(st)
    BY <2>1 DEF Tentative
  <2>3. Same
    BY <2>1, <2>2, StaySame
  <2> QED
    BY <2>3, SameCommitted
<1> QED
  BY <1>2, <1>3, <1>4, <1>5, <1>6 DEF Next

(* Every operation of the cache changes the sequences as include/eden.h    *)
(* documents, and a decode - its tentative placements, the restore, the    *)
(* rollback of a failed graph - cannot be noticed but for the micro-batches *)
(* that succeed.                                                           *)
THEOREM CacheImplementsStore ==
  ASSUME NSwa = 0, Documented, MaxSeqs = 1 \/ ~Unified \/ "compute" \notin Faults
  PROVE  Spec => ImplementsStore
<1>1. Init => Store!Init
  BY StoreInit
<1>2. StoreInv /\ StoreInv' /\ [Next]_vars => [Store!Next]_Committed
  BY StoreStep
<1> QED
  BY RunInvariance, <1>1, <1>2, PTL DEF Spec, ImplementsStore, Store!Spec

-----------------------------------------------------------------------------
(* No holes.  A sequence that only loses suffixes and gains prefixes of    *)
(* others holds an initial segment of the positions.                       *)

FromStart ==
  \A s \in SeqId : \A p, q \in Pos : q < p /\ Committed[s][p] > 0 => Committed[s][q] > 0

(* The cells of a stream of its own belong to that sequence.               *)
Owned ==
  \A st \in Stream : \A i \in Cell :
    Shows(st, i) => \A s \in v_cells[st].seq[i] : seq_to_stream(s) = st

Truncating ==
  /\ \A r \in RmRanges : r[2] < 0
  /\ \A r \in CpRanges : r[1] <= 0
  /\ AddRanges \cup DivRanges = {}

LEMMA SuffixSpan ==
  ASSUME NEW r \in Int \X Int, r[2] < 0, NEW p \in Pos, NEW q \in Pos, q < p, q \in Store!Span(r)
  PROVE  p \in Store!Span(r)
<1>1. p \in Int /\ q \in Int /\ r[1] \in Int /\ r[2] \in Int
  BY PosFacts
<1> QED
  BY <1>1 DEF Store!Span

LEMMA PrefixSpan ==
  ASSUME NEW r \in Int \X Int, r[1] <= 0, NEW p \in Pos, NEW q \in Pos, q < p, p \in Store!Span(r)
  PROVE  q \in Store!Span(r)
<1>1. p \in Int /\ q \in Nat /\ r[1] \in Int /\ r[2] \in Int
  BY PosFacts
<1> QED
  BY <1>1 DEF Store!Span

LEMMA CommittedNat == \A s \in SeqId : \A p \in Pos : Committed[s][p] \in Nat
BY KeptFacts

(* It is enough to know where the positions of each sequence come from.    *)
LEMMA StartKept ==
  ASSUME FromStart,
         \A s \in SeqId :
           \/ \A p \in Pos : Committed'[s][p] = 0
           \/ \E t \in SeqId : \A p \in Pos : Committed'[s][p] = Committed[t][p]
  PROVE  FromStart'
<1> SUFFICES ASSUME NEW s \in SeqId, NEW p \in Pos, NEW q \in Pos, q < p, Committed'[s][p] > 0
             PROVE  Committed'[s][q] > 0
  BY DEF FromStart
<1>1. CASE \A x \in Pos : Committed'[s][x] = 0
  BY <1>1
<1>2. CASE \E t \in SeqId : \A x \in Pos : Committed'[s][x] = Committed[t][x]
  BY <1>2 DEF FromStart
<1> QED
  BY <1>1, <1>2

LEMMA StartSame == FromStart /\ Committed' = Committed => FromStart'
BY DEF FromStart

-----------------------------------------------------------------------------
(* The memory operations.                                                  *)

LEMMA WithoutStart ==
  ASSUME FromStart, NEW r \in Int \X Int, r[2] < 0,
         \A s \in SeqId :
           \/ \A p \in Pos : Committed'[s][p] = Committed[s][p]
           \/ \A p \in Pos : Committed'[s][p] = IF p \in Store!Span(r) THEN 0 ELSE Committed[s][p]
  PROVE  FromStart'
<1> SUFFICES ASSUME NEW s \in SeqId, NEW p \in Pos, NEW q \in Pos, q < p, Committed'[s][p] > 0
             PROVE  Committed'[s][q] > 0
  BY DEF FromStart
<1>1. CASE \A x \in Pos : Committed'[s][x] = Committed[s][x]
  BY <1>1 DEF FromStart
<1>2. CASE \A x \in Pos : Committed'[s][x] = IF x \in Store!Span(r) THEN 0 ELSE Committed[s][x]
  <2>1. p \notin Store!Span(r) /\ Committed[s][p] > 0
    BY <1>2
  <2>2. q \notin Store!Span(r)
    BY <2>1, SuffixSpan
  <2>3. Committed[s][q] > 0
    BY <2>1 DEF FromStart
  <2> QED
    BY <1>2, <2>2, <2>3
<1> QED
  BY <1>1, <1>2

LEMMA RemoveStart ==
  ASSUME Truncating, FromStart, NEW s \in SeqId, NEW r \in RmRanges,
         Store!Remove(s, Store!Span(r)) \/ Store!RemoveAny(Store!Span(r))
  PROVE  FromStart'
<1>1. r \in Int \X Int /\ r[2] < 0
  BY RangeConstants DEF Truncating
<1>2. PICK R, c : R = Store!Span(r) /\ c = Committed
  OBVIOUS
<1>3. c = [x \in SeqId |-> c[x]]
  BY <1>2, CommittedType
<1>4. ASSUME NEW t \in SeqId
      PROVE  \/ \A p \in Pos : Committed'[t][p] = Committed[t][p]
             \/ \A p \in Pos : Committed'[t][p] = IF p \in R THEN 0 ELSE Committed[t][p]
  <2>1. CASE Store!Remove(s, R)
    <3>1. Committed' = [c EXCEPT ![s] = [p \in Pos |-> IF p \in R THEN 0 ELSE c[s][p]]]
      BY <1>2, <2>1 DEF Store!Remove, Store!Without
    <3> QED
      BY <1>2, <1>3, <3>1
  <2>2. CASE Store!RemoveAny(R)
    <3>1. Committed' = [x \in SeqId |-> [p \in Pos |-> IF p \in R THEN 0 ELSE c[x][p]]]
      BY <1>2, <2>2 DEF Store!RemoveAny, Store!Without
    <3> QED
      BY <1>2, <3>1
  <2> QED
    BY <1>2, <2>1, <2>2
<1> QED
  BY <1>1, <1>2, <1>4, WithoutStart

LEMMA CopyStart ==
  ASSUME Truncating, FromStart, NEW src \in SeqId, NEW dst \in SeqId, NEW r \in CpRanges,
         Store!Copy(src, dst, Store!Span(r))
  PROVE  FromStart'
<1>1. r \in Int \X Int /\ r[1] <= 0
  BY RangeConstants DEF Truncating
<1>2. PICK R, c : R = Store!Span(r) /\ c = Committed
  OBVIOUS
<1>3. c = [x \in SeqId |-> c[x]] /\ \A x \in SeqId : \A p \in Pos : c[x][p] \in Nat
  BY <1>2, CommittedType, CommittedNat
<1>4. Committed' = [c EXCEPT ![dst] = [p \in Pos |-> c[dst][p] + (IF p \in R THEN c[src][p] ELSE 0)]]
  <2>1. ASSUME NEW p \in Pos
        PROVE  Store!Only(src, R)[p] = IF p \in R THEN c[src][p] ELSE 0
    BY <1>2 DEF Store!Only
  <2> QED
    BY <1>2, <1>3, <2>1 DEF Store!Copy
<1>5. \A t \in SeqId : t # dst => Committed'[t] = c[t]
  BY <1>3, <1>4
<1>6. \A p \in Pos : Committed'[dst][p] = c[dst][p] + (IF p \in R THEN c[src][p] ELSE 0)
  BY <1>3, <1>4
<1> SUFFICES ASSUME NEW s \in SeqId, NEW p \in Pos, NEW q \in Pos, q < p, Committed'[s][p] > 0
             PROVE  Committed'[s][q] > 0
  BY DEF FromStart
<1>7. \A t \in SeqId : c[t][p] > 0 => c[t][q] > 0
  BY <1>2 DEF FromStart
<1>8. CASE s = dst
  <2>1. p \in R => q \in R
    BY <1>1, <1>2, PrefixSpan
  <2>2. /\ c[dst][p] \in Nat /\ c[src][p] \in Nat /\ c[dst][q] \in Nat /\ c[src][q] \in Nat
        /\ c[dst][p] > 0 => c[dst][q] > 0
        /\ c[src][p] > 0 => c[src][q] > 0
    BY <1>3, <1>7
  <2>3. /\ c[dst][p] + (IF p \in R THEN c[src][p] ELSE 0) > 0
        /\ Committed'[s][q] = c[dst][q] + (IF q \in R THEN c[src][q] ELSE 0)
    BY <1>6, <1>8
  <2> QED
    BY <2>1, <2>2, <2>3
<1>9. CASE s # dst
  BY <1>5, <1>7, <1>9
<1> QED
  BY <1>8, <1>9

LEMMA WholeStart ==
  ASSUME FromStart,
         \/ Store!Clear
         \/ \E src, dst \in SeqId : Store!Clone(src, dst)
         \/ \E s \in SeqId : Store!Keep(s)
  PROVE  FromStart'
<1>1. PICK c : c = Committed
  OBVIOUS
<1>2. c = [x \in SeqId |-> c[x]]
  BY <1>1, CommittedType
<1>3. \A p \in Pos : Store!Nothing[p] = 0
  BY DEF Store!Nothing
<1>4. CASE Store!Clear
  <2>1. \A s \in SeqId : Committed'[s] = Store!Nothing
    BY <1>4 DEF Store!Clear
  <2> QED
    BY <1>3, <2>1, StartKept
<1>5. CASE \E src, dst \in SeqId : Store!Clone(src, dst)
  <2>1. PICK src, dst \in SeqId : Committed' = [c EXCEPT ![dst] = c[src]]
    BY <1>1, <1>5 DEF Store!Clone
  <2>2. \A s \in SeqId : Committed'[s] = IF s = dst THEN c[src] ELSE c[s]
    BY <1>2, <2>1
  <2>3. \A s \in SeqId : \E t \in SeqId : Committed'[s] = Committed[t]
    BY <1>1, <2>2
  <2> QED
    BY <2>3, StartKept
<1>6. CASE \E s \in SeqId : Store!Keep(s)
  <2>1. PICK s \in SeqId : Store!Keep(s)
    BY <1>6
  <2>2. \A t \in SeqId : Committed'[t] = IF t = s THEN Committed[s] ELSE Store!Nothing
    BY <2>1 DEF Store!Keep
  <2>3. \A t \in SeqId : Committed'[t] = Committed[s] \/ Committed'[t] = Store!Nothing
    BY <2>2
  <2> QED
    BY <1>3, <2>3, StartKept
<1> QED
  BY <1>4, <1>5, <1>6

-----------------------------------------------------------------------------
(* A stream of its own keeps to its sequence.                              *)

LEMMA OwnedUnifiedNext == Unified => Owned'
BY DEF Owned, Stream, seq_to_stream

LEMMA NoneTentativeNext ==
  ASSUME stack' = <<>>, phase' # "compute", NEW st
  PROVE  Tentative(st)' = {}
BY DEF Tentative

LEMMA SameOwned ==
  ASSUME Owned, Same
  PROVE  Owned'
<1> SUFFICES ASSUME NEW st \in Stream, NEW i \in Cell, Shows(st, i)', NEW s \in v_cells'[st].seq[i]
             PROVE  seq_to_stream(s) = st
  BY DEF Owned, Stream, seq_to_stream
<1>1. Shows(st, i) /\ s \in v_cells[st].seq[i]
  BY DEF Same
<1> QED
  BY <1>1 DEF Owned

(* seq_keep finds no other sequence there.                                 *)
LEMMA KeepOwned ==
  ASSUME ~Unified, IInv, Owned, NEW s \in SeqId, SeqKeep(s)
  PROVE  Same
<1>1. PICK c, d : c = v_cells[s] /\ d = seq_keep(c, s)
  OBVIOUS
<1>2. /\ phase = "idle" /\ UNCHANGED callVars /\ s \in Stream /\ v_cells'[s] = d
      /\ \A x \in Stream \ {s} : v_cells'[x] = v_cells[x]
  BY <1>1, SetStream, StreamFacts DEF SeqKeep, seq_to_stream
<1>3. stack = <<>> /\ stack' = <<>> /\ phase' = "idle"
  BY <1>2 DEF IInv, StackOK, callVars
<1>4. \A st, i : /\ Shows(st, i) <=> v_cells[st].pos[i] # Empty
                 /\ Shows(st, i)' <=> v_cells'[st].pos[i] # Empty
  <2>1. \A st : Tentative(st) = {} /\ Tentative(st)' = {}
    BY <1>2, <1>3 DEF Tentative
  <2> QED
    BY <2>1 DEF Shows
<1>5. Sound(c) /\ \A i \in Cell : c.seq[i] \in SUBSET SeqId /\ (c.pos[i] = Empty <=> c.seq[i] = {})
  BY <1>1, <1>2, CellsOfStream
<1>6. \A i \in Cell : c.seq[i] = {} \/ c.seq[i] = {s}
  BY <1>1, <1>2, <1>4, <1>5 DEF Owned, seq_to_stream
<1>7. d.pos = c.pos /\ d.seq = c.seq
  <2> DEFINE kept == {i \in Cell : s \in c.seq[i]}
             only == [i \in Cell |-> IF i \in kept THEN {s} ELSE c.seq[i]]
             D == Dropped(c, s)
             left == [c EXCEPT !.seq = only]
             v == Vacate(left, D)
             cnt == seq_pos_inc(seq_pos_dec(c.seq_pos, c.pos, c.seq), c.pos, Within(kept, only))
  <2>1. d = [v EXCEPT !.seq_pos = cnt]
    BY <1>1 DEF seq_keep
  <2>2. c \in WideType /\ c.seq = [i \in Cell |-> c.seq[i]] /\ c.pos = [i \in Cell |-> c.pos[i]]
    BY <1>5, WideFacts DEF Sound, CellsType
  <2>3. D = {}
    BY <1>6 DEF Dropped
  <2>4. \A i \in Cell : only[i] = c.seq[i]
    BY <1>6
  <2>5. only = [i \in Cell |-> only[i]]
    OBVIOUS
  <2> HIDE DEF D, only, cnt
  <2>6. only = c.seq
    BY <2>2, <2>4, <2>5
  <2>7. left \in WideType /\ left.pos = c.pos /\ left.seq = c.seq
    BY <2>2, <2>6 DEF WideType
  <2> HIDE DEF left
  <2>8. /\ v \in WideType
        /\ v.pos = [i \in Cell |-> IF i \in D THEN Empty ELSE left.pos[i]]
        /\ v.seq = [i \in Cell |-> IF i \in D THEN {} ELSE left.seq[i]]
    <3>1. D \in SUBSET Cell
      BY <2>3
    <3> QED
      BY <2>7, <3>1, VacateFields
  <2> HIDE DEF v
  <2>9. d.pos = v.pos /\ d.seq = v.seq
    BY <2>1, <2>8, SetCounts
  <2>10. \A i \in Cell : v.pos[i] = c.pos[i] /\ v.seq[i] = c.seq[i]
    BY <2>3, <2>7, <2>8
  <2>11. v.pos = [i \in Cell |-> v.pos[i]] /\ v.seq = [i \in Cell |-> v.seq[i]]
    BY <2>8
  <2> QED
    BY <2>2, <2>9, <2>10, <2>11
<1>8. ASSUME NEW st \in Stream, NEW i \in Cell
      PROVE  v_cells'[st].pos[i] = v_cells[st].pos[i] /\ v_cells'[st].seq[i] = v_cells[st].seq[i]
  <2>1. CASE st = s
    BY <1>1, <1>2, <1>7, <2>1
  <2>2. CASE st # s
    BY <1>2, <2>2
  <2> QED
    BY <2>1, <2>2
<1>9. ASSUME NEW st \in Stream, NEW i \in Cell
      PROVE  Shows(st, i)' = Shows(st, i)
  <2>1. v_cells'[st].pos[i] = v_cells[st].pos[i]
    BY <1>8
  <2> QED
    BY <1>2, <1>3, <2>1, NoneTentative, NoneTentativeNext DEF Shows
<1> QED
  BY <1>8, <1>9 DEF Same

Lone == \A st \in Stream : \A i \in Cell : v_cells[st].seq[i] \subseteq {st}

(* A cell that moves keeps its sequences, or loses them.                   *)
LEMMA ReposSeq ==
  ASSUME NEW c \in CellsType, NEW M, NEW P, NEW D
  PROVE  \A i \in Cell : Repos(c, M, P, D).seq[i] \subseteq c.seq[i]
<1> DEFINE gone == {i \in M : P[i] < 0}
           moved == [c EXCEPT !.pos = [i \in Cell |-> IF i \in M THEN P[i] ELSE c.pos[i]],
                              !.shift = [i \in Cell |-> IF i \in M THEN c.shift[i] + D[i] ELSE c.shift[i]]]
           cnt == seq_pos_inc(seq_pos_dec(c.seq_pos, c.pos, Within(M, c.seq)), moved.pos, Within(M \ gone, c.seq))
           seq == [i \in Cell |-> IF i \in gone THEN {} ELSE moved.seq[i]]
<1>1. Repos(c, M, P, D) =
        [Vacate(moved, gone) EXCEPT !.seq_pos = cnt, !.has_shift = c.has_shift \/ M # {}]
  BY DEF Repos
<1>2. moved.seq = c.seq
  BY DEF CellsType
<1>3. Repos(c, M, P, D).seq = seq
  <2> HIDE DEF cnt
  <2> QED
    BY <1>1 DEF Vacate, CellsType
<1>4. \A i \in Cell : seq[i] \subseteq c.seq[i]
  <2> HIDE DEF moved, gone
  <2> QED
    BY <1>2
<1> HIDE DEF seq
<1> QED
  BY <1>3, <1>4

LEMMA OpOwned ==
  ASSUME ~Unified, IInv, Lone, MemoryOp, ~\E s \in KeepSeqs : SeqKeep(s)
  PROVE  Lone'
<1>1. Stream = SeqId /\ \A s : seq_to_stream(s) = s
  BY StreamFacts DEF seq_to_stream
<1>2. (\A st \in Stream : \A i \in Cell : v_cells'[st].seq[i] \subseteq {st}) => Lone'
  BY DEF Lone, Stream
<1>3. CASE \E data \in BOOLEAN : clear(data)
  BY <1>3 DEF Lone, clear, reset, Stream
<1>4. CASE \E s \in SeqId, r \in RmRanges : SeqRm(s, r)
  <2>1. PICK s \in SeqId, r \in RmRanges : SeqRm(s, r)
    BY <1>4
  <2>2. PICK c, G, d : c = v_cells[s] /\ G = Selected(c, s, r) /\ d = seq_rm(c, G)
    OBVIOUS
  <2>3. s \in Stream /\ v_cells'[s] = d /\ \A x \in Stream \ {s} : v_cells'[x] = v_cells[x]
    BY <1>1, <2>1, <2>2, SetStream DEF SeqRm
  <2>4. Sound(c) /\ \A i \in Cell : G[i] \in SUBSET c.seq[i]
    BY <2>2, <2>3, CellsOfStream DEF Selected
  <2>5. \A i \in Cell : d.seq[i] = c.seq[i] \ G[i]
    <3>1. ASSUME NEW q, Sound(q), NEW H, \A j \in Cell : H[j] \subseteq q.seq[j]
          PROVE  \A j \in Cell : /\ seq_rm(q, H).pos[j] = IF j \in Freed(q, H) THEN Empty ELSE q.pos[j]
                                 /\ seq_rm(q, H).seq[j] = q.seq[j] \ H[j]
      BY <3>1, SeqRmCells
    <3>2. \A j \in Cell : G[j] \subseteq c.seq[j]
      BY <2>4
    <3>3. ASSUME NEW i \in Cell
          PROVE  /\ seq_rm(c, G).pos[i] = IF i \in Freed(c, G) THEN Empty ELSE c.pos[i]
                 /\ seq_rm(c, G).seq[i] = c.seq[i] \ G[i]
      BY <2>4, <3>1, <3>2
    <3> QED
      BY <2>2, <3>3
  <2> QED
    BY <1>2, <2>2, <2>3, <2>5 DEF Lone
<1>5. CASE \E r \in RmRanges : SeqRmAny(r)
  <2>1. PICK r \in RmRanges : SeqRmAny(r)
    BY <1>5
  <2> SUFFICES ASSUME NEW st \in Stream, NEW i \in Cell PROVE v_cells'[st].seq[i] \subseteq {st}
    BY <1>2
  <2>2. PICK c, M, d : c = v_cells[st] /\ M = InRange(c, r) /\ d = rm(c, M)
    OBVIOUS
  <2>3. v_cells'[st] = d
    BY <2>1, <2>2 DEF SeqRmAny
  <2>4. c \in WideType /\ M \in SUBSET Cell
    BY <2>2, CellsOfStream, WideFacts DEF InRange, Sound
  <2>5. Vacate(c, M) \in WideType /\ Vacate(c, M).seq = [j \in Cell |-> IF j \in M THEN {} ELSE c.seq[j]]
    BY <2>4, VacateFields
  <2>6. d.seq = Vacate(c, M).seq
    BY <2>2, <2>5, SetCounts DEF rm
  <2>7. \A j \in Cell : d.seq[j] \subseteq c.seq[j]
    BY <2>5, <2>6
  <2> QED
    BY <2>2, <2>3, <2>7 DEF Lone
<1>6. CASE \E src, dst \in SeqId, r \in CpRanges : SeqCpCross(src, dst, r)
  <2>1. PICK src, dst \in SeqId, r \in CpRanges : SeqCpCross(src, dst, r)
    BY <1>6
  <2>2. /\ v_cells'[dst] = CopyCells(v_cells[src], src, dst)
        /\ \A x \in Stream \ {dst} : v_cells'[x] = v_cells[x]
    BY <1>1, <2>1, SetStream DEF SeqCpCross
  <2>3. \A i \in Cell : v_cells'[dst].seq[i] \subseteq {dst}
    BY <2>2 DEF CopyCells
  <2> QED
    BY <1>2, <2>2, <2>3 DEF Lone
<1>7. CASE \/ \E s \in SeqId, r \in AddRanges, d \in Deltas : SeqAdd(s, r, d)
           \/ \E s \in SeqId, r \in DivRanges, d \in Divs : SeqDiv(s, r, d)
  <2>0. PICK s \in SeqId : \E r, d : SeqAdd(s, r, d) \/ SeqDiv(s, r, d)
    BY <1>7
  <2>1. PICK r, d : SeqAdd(s, r, d) \/ SeqDiv(s, r, d)
    BY <2>0
  <2>2. PICK M, P, D : OnStream(s, Repos(v_cells[s], M, P, D))
    BY <1>1, <2>1 DEF SeqAdd, SeqDiv, pos_add, pos_div
  <2>3. PICK c, e : c = v_cells[s] /\ e = Repos(c, M, P, D)
    OBVIOUS
  <2>4. s \in Stream /\ v_cells'[s] = e /\ \A x \in Stream \ {s} : v_cells'[x] = v_cells[x]
    BY <1>1, <2>2, <2>3, SetStream
  <2>5. \A i \in Cell : e.seq[i] \subseteq c.seq[i]
    BY <2>3, <2>4, CellsOfStream, ReposSeq
  <2> QED
    BY <1>2, <2>3, <2>4, <2>5 DEF Lone
<1> QED
  BY <1>3, <1>4, <1>5, <1>6, <1>7 DEF MemoryOp, SeqCpSame

LEMMA MemoryOpOwned ==
  ASSUME ~Unified, IInv, Owned, MemoryOp
  PROVE  Owned'
<1>1. phase = "idle" /\ UNCHANGED callVars
  BY DEF MemoryOp, clear, SeqRm, SeqRmAny, SeqCpSame, SeqCpCross, SeqKeep, SeqAdd, SeqDiv
<1>2. \A st, i : /\ Shows(st, i) <=> v_cells[st].pos[i] # Empty
                 /\ Shows(st, i)' <=> v_cells'[st].pos[i] # Empty
  <2>1. stack = <<>> /\ stack' = <<>> /\ phase' = "idle"
    BY <1>1 DEF IInv, StackOK, callVars
  <2>2. \A st : Tentative(st) = {} /\ Tentative(st)' = {}
    BY <1>1, <2>1 DEF Tentative
  <2> QED
    BY <2>2 DEF Shows
<1>3. Stream = SeqId /\ \A s : seq_to_stream(s) = s
  BY StreamFacts DEF seq_to_stream
<1>4. Lone
  <2> SUFFICES ASSUME NEW st \in Stream, NEW i \in Cell, NEW s \in v_cells[st].seq[i] PROVE s = st
    BY DEF Lone
  <2>1. v_cells[st].pos[i] # Empty
    BY CellsOfStream
  <2> QED
    BY <1>2, <1>3, <2>1 DEF Owned
<1>5. CASE \E s \in KeepSeqs : SeqKeep(s)
  BY <1>5, KeepSeqsAssumption, KeepOwned, SameOwned
<1>6. CASE ~\E s \in KeepSeqs : SeqKeep(s)
  <2>1. Lone'
    BY <1>4, <1>6, OpOwned
  <2> SUFFICES ASSUME NEW st \in Stream, NEW i \in Cell, NEW s \in v_cells'[st].seq[i]
               PROVE  seq_to_stream(s) = st
    BY DEF Owned, Stream, seq_to_stream
  <2>2. v_cells'[st].seq[i] \subseteq {st}
    BY <2>1 DEF Lone, Stream
  <2> QED
    BY <1>3, <2>2
<1> QED
  BY <1>5, <1>6

-----------------------------------------------------------------------------
(* The decode.                                                             *)

LEMMA ComputeOkOwned ==
  ASSUME Settled, RunInv, Owned, ComputeOk
  PROVE  Owned'
<1>1. /\ IInv /\ phase = "compute" /\ v_cells' = v_cells
  BY DEF Settled, ComputeOk
<1> SUFFICES ASSUME NEW st \in Stream, NEW i \in Cell, Shows(st, i)', NEW s \in v_cells'[st].seq[i]
             PROVE  seq_to_stream(s) = st
  BY DEF Owned, Stream, seq_to_stream
<1>2. v_cells[st].pos[i] # Empty /\ s \in v_cells[st].seq[i]
  BY <1>1 DEF Shows
<1>3. Tentative(st) = Slots(i_cur, st)
  BY <1>1, TentativeFacts DEF TentativeIs
<1>4. CASE i \notin Slots(i_cur, st)
  BY <1>2, <1>3, <1>4 DEF Owned, Shows
<1>5. CASE i \in Slots(i_cur, st)
  <2>1. PICK slot, toks, k : slot = sinfos[i_cur][st] /\ toks = ubatches[i_cur][st] /\ k = i_cur
    OBVIOUS
  <2>2. v_cells[st].seq[i] = toks[slot[i]].seqs
    BY <1>1, <1>5, <2>1 DEF RunInv, Placed
  <2>3. /\ k \in 1 .. Len(ubatches) /\ slot[i] \in 1 .. Len(toks)
    BY <1>1, <1>5, <2>1, CurrentSlot DEF Places, Slots
  <2>4. TokensOK(ubatches)
    BY <1>1 DEF RunInv, Coming
  <2> QED
    BY <1>2, <2>1, <2>2, <2>3, <2>4 DEF TokensOK
<1> QED
  BY <1>4, <1>5

LEMMA ComputeOkStart ==
  ASSUME Settled, RunInv, FromStart, ComputeOk
  PROVE  FromStart'
<1>1. IInv /\ phase = "compute"
  BY DEF Settled, ComputeOk
<1> SUFFICES ASSUME NEW s \in SeqId, NEW p \in Pos, NEW q \in Pos, q < p, Committed'[s][p] > 0
             PROVE  Committed'[s][q] > 0
  BY DEF FromStart
<1>2. PICK x, y : x = Bounds(s)[i_cur] /\ y = Bounds(s)[i_cur + 1]
  OBVIOUS
<1>3. /\ x \in Nat /\ y \in Nat /\ Upto(s, x)
      /\ LaysIn(ubatches[i_cur][seq_to_stream(s)], s, x, y)
  BY <1>1, <1>2, BoundsFacts
<1>4. \A z \in Pos : Committed'[s][z] = Committed[s][z] + (IF x <= z /\ z < y THEN 1 ELSE 0)
  BY <1>3, ComputeOkCounts
<1>5. p \in Nat /\ q \in Nat /\ Committed[s][p] \in Nat /\ Committed[s][q] \in Nat
  BY CommittedNat, PosFacts
<1>6. CASE q >= x
  <2>1. p < y
    <3>1. Committed[s][p] > 0 => p < x
      BY <1>3 DEF Upto
    <3> QED
      BY <1>3, <1>4, <1>5, <1>6, <3>1
  <2> QED
    BY <1>3, <1>4, <1>5, <1>6, <2>1
<1>7. CASE q < x
  <2>1. PICK z : z = x - 1
    OBVIOUS
  <2>2. z \in Pos /\ Committed[s][z] > 0
    BY <1>3, <1>5, <1>7, <2>1 DEF Upto
  <2>3. q = z \/ q < z
    BY <1>3, <1>5, <1>7, <2>1
  <2>4. Committed[s][q] > 0
    BY <2>2, <2>3 DEF FromStart
  <2> QED
    BY <1>3, <1>4, <1>5, <2>4
<1> QED
  BY <1>3, <1>5, <1>6, <1>7

HolesInv == FromStart /\ Owned

LEMMA MemoryOpHoles ==
  ASSUME Truncating, IInv, IInv', HolesInv, MemoryOp
  PROVE  HolesInv'
<1>1. FromStart /\ Owned
  BY DEF HolesInv
<1>2. Owned'
  BY <1>1, MemoryOpOwned, OwnedUnifiedNext
<1>3. CASE ~Unified /\ \E s \in KeepSeqs : SeqKeep(s)
  <2>1. Same
    BY <1>1, <1>3, KeepOwned, KeepSeqsAssumption
  <2> QED
    BY <1>1, <1>2, <2>1, SameCommitted, StartSame DEF HolesInv
<1>4. CASE ~(~Unified /\ \E s \in KeepSeqs : SeqKeep(s))
  <2> SUFFICES FromStart'
    BY <1>2 DEF HolesInv
  <2>1. CASE \E data \in BOOLEAN : clear(data)
    BY <1>1, <2>1, ClearStore, WholeStart
  <2>2. CASE \E s \in SeqId, r \in RmRanges : SeqRm(s, r)
    BY <1>1, <2>2, SeqRmStore, RemoveStart
  <2>3. CASE \E r \in RmRanges : SeqRmAny(r)
    <3>1. PICK r \in RmRanges : SeqRmAny(r)
      BY <2>3
    <3>2. Store!RemoveAny(Store!Span(r))
      BY <3>1, SeqRmAnyStore
    <3>3. 0 \in SeqId
      BY NSeqMaxAssumption DEF SeqId
    <3> QED
      BY <1>1, <3>2, <3>3, RemoveStart
  <2>4. CASE \E src, dst \in SeqId, r \in CpRanges : Fresh(src, dst, r) /\ SeqCpSame(src, dst, r)
    BY <1>1, <2>4, SeqCpSameStore, CopyStart
  <2>5. CASE \E src, dst \in SeqId, r \in CpRanges : SeqCpCross(src, dst, r)
    BY <1>1, <2>5, SeqCpCrossStore, WholeStart
  <2>6. CASE \E s \in KeepSeqs : SeqKeep(s)
    <3>1. PICK s \in SeqId : SeqKeep(s)
      BY <2>6, KeepSeqsAssumption
    <3>2. Store!Keep(s)
      BY <1>4, <2>6, <3>1, SeqKeepStore
    <3> QED
      BY <1>1, <3>2, WholeStart
  <2> QED
    BY <2>1, <2>2, <2>3, <2>4, <2>5, <2>6 DEF MemoryOp, Truncating
<1> QED
  BY <1>3, <1>4

(* All steps but the operations and a successful graph are invisible.      *)
LEMMA OtherSteps ==
  ASSUME NSwa = 0, MaxSeqs = 1 \/ ~Unified \/ "compute" \notin Faults,
         StoreInv, StoreInv', [Next]_vars, ~MemoryOp, ~ComputeOk
  PROVE  Same
<1>1. Settled /\ PrepInv /\ RunInv /\ Settled'
  BY DEF StoreInv
<1>2. CASE Begin \/ (DecodeStep /\ ~ComputeOk /\ ~ComputeFail)
  BY <1>1, <1>2, DecodeSame, Zenon DEF Settled
<1>3. CASE ComputeFail
  <2>1. MaxSeqs = 1 \/ ~Unified
    BY <1>3 DEF ComputeFail
  <2> QED
    BY <1>1, <1>3, <2>1, ComputeFailSame
<1>4. CASE UNCHANGED vars
  <2>1. UNCHANGED <<v_cells, phase, sinfos, stack, i_cur>>
    BY <1>4 DEF vars, memVars, callVars
  <2>2. \A st : Tentative(st)' = Tentative(st)
    BY <2>1 DEF Tentative
  <2> QED
    BY <2>1, <2>2, StaySame
<1> QED
  BY <1>2, <1>3, <1>4 DEF Next

LEMMA NextOwned ==
  ASSUME NSwa = 0, MaxSeqs = 1 \/ ~Unified \/ "compute" \notin Faults,
         StoreInv, StoreInv', Owned, [Next]_vars
  PROVE  Owned'
<1>1. Settled /\ RunInv /\ IInv
  BY DEF StoreInv, Settled
<1>2. CASE MemoryOp
  BY <1>1, <1>2, MemoryOpOwned, OwnedUnifiedNext
<1>3. CASE ComputeOk
  BY <1>1, <1>3, ComputeOkOwned
<1>4. CASE ~MemoryOp /\ ~ComputeOk
  BY <1>4, OtherSteps, SameOwned
<1> QED
  BY <1>2, <1>3, <1>4

LEMMA NextHoles ==
  ASSUME NSwa = 0, Truncating, MaxSeqs = 1 \/ ~Unified \/ "compute" \notin Faults,
         StoreInv, StoreInv', HolesInv, [Next]_vars
  PROVE  HolesInv'
<1>1. /\ Settled /\ RunInv /\ IInv /\ IInv' /\ FromStart /\ Owned
  BY DEF StoreInv, Settled, HolesInv
<1>2. CASE MemoryOp
  BY <1>1, <1>2, MemoryOpHoles
<1>3. CASE ComputeOk
  BY <1>1, <1>3, ComputeOkOwned, ComputeOkStart DEF HolesInv
<1>4. CASE ~MemoryOp /\ ~ComputeOk
  <2>1. Same
    BY <1>4, OtherSteps
  <2> QED
    BY <1>1, <2>1, SameCommitted, SameOwned, StartSame DEF HolesInv
<1> QED
  BY <1>2, <1>3, <1>4

LEMMA InitHoles == Init => HolesInv
<1> SUFFICES ASSUME Init PROVE HolesInv
  OBVIOUS
<1>1. \A st \in Stream : v_cells[st].pos = [i \in Cell |-> Empty]
  BY DEF Init, reset
<1>2. Owned
  BY <1>1 DEF Owned, Shows
<1>3. \A s \in SeqId : \A p \in Pos : Committed[s][p] = 0
  BY StoreInit DEF Store!Init, Store!Nothing
<1> QED
  BY <1>2, <1>3 DEF HolesInv, FromStart

LEMMA HolesNone ==
  ASSUME IInv, HolesInv
  PROVE  NoHoles
<1> SUFFICES ASSUME phase = "idle", NEW st \in Stream, NEW s \in SeqId, NEW p \in Pos,
                    p <= seq_pos_max(v_cells[st], s), PosOf(v_cells[st], s) # {}
             PROVE  p \in PosOf(v_cells[st], s)
  BY DEF NoHoles
<1>1. PICK c, m : c = v_cells[st] /\ m = seq_pos_max(c, s)
  OBVIOUS
<1>2. \A x \in Pos : c.seq_pos[s][x] = Cardinality(CellsAt(c.pos, c.seq, s, x))
  BY <1>1, CellsOfStream
<1>3. PICK x \in Pos : c.seq_pos[s][x] > 0
  BY <1>1 DEF PosOf
<1>4. PICK i \in Cell : s \in c.seq[i] /\ c.pos[i] # Empty
  <2>1. CellsAt(c.pos, c.seq, s, x) # {}
    BY <1>2, <1>3, NoCells
  <2>2. PICK i \in Cell : s \in c.seq[i] /\ c.pos[i] = x
    BY <2>1 DEF CellsAt
  <2> QED
    BY <2>2, PosFacts
<1>5. Counts
  BY IdleCounts DEF Between
<1>6. seq_to_stream(s) = st
  BY <1>1, <1>4, <1>5 DEF HolesInv, Owned, Shows, Counts
<1>7. \A y \in Pos : Committed[s][y] = c.seq_pos[s][y]
  BY <1>1, <1>5, <1>6 DEF Counts
<1>8. m \in PosOf(c, s)
  <2>1. /\ Sound(c) /\ c \in CellsType
        /\ \A j \in Cell : c.pos[j] \in Pos \cup {Empty} /\ (c.pos[j] = Empty <=> c.seq[j] = {})
    BY <1>1, CellsOfStream
  <2>2. IsMaxOf(m, c, s)
    BY <1>1, <2>1, SeqPosMaxExact
  <2>3. PICK j \in Cell : s \in c.seq[j] /\ c.pos[j] = m
    BY <1>4, <2>2 DEF IsMaxOf, Has
  <2>4. m \in Pos
    BY <2>1, <2>3
  <2>5. CellsAt(c.pos, c.seq, s, m) # {} /\ CellsAt(c.pos, c.seq, s, m) \in SUBSET Cell
    BY <2>3 DEF CellsAt
  <2>6. Cardinality(CellsAt(c.pos, c.seq, s, m)) \in Nat \ {0}
    BY <2>5, CellFinite, FS_EmptySet
  <2>7. c.seq_pos[s][m] > 0
    BY <1>2, <2>4, <2>6
  <2> QED
    BY <2>4, <2>7 DEF PosOf
<1>9. p = m \/ p < m
  BY <1>1, <1>8, PosFacts DEF PosOf
<1> QED
  BY <1>1, <1>7, <1>8, <1>9 DEF PosOf, HolesInv, FromStart

(* All positions up to the largest of a sequence are in the cache between  *)
(* calls, and each stream holds its own sequences only: a decode that      *)
(* fails, or finds no slot, or continues copied sequences, leaves no hole, *)
(* as long as the application removes suffixes and copies prefixes.        *)
THEOREM NoHolesLeft ==
  ASSUME NSwa = 0, Truncating, MaxSeqs = 1 \/ ~Unified \/ "compute" \notin Faults
  PROVE  Spec => []NoHoles
<1>1. Init => HolesInv
  BY InitHoles
<1>2. StoreInv /\ StoreInv' /\ HolesInv /\ [Next]_vars => HolesInv'
  BY NextHoles
<1>3. StoreInv /\ HolesInv => NoHoles
  BY HolesNone DEF StoreInv, Settled
<1> QED
  BY RunInvariance, <1>1, <1>2, <1>3, PTL DEF Spec

-----------------------------------------------------------------------------
(* The queued copies, one after another.                                   *)

Copied(rows, e) == [rows EXCEPT ![e[2]] = rows[e[1]]]

IsRun(f, rows, q) ==
  f = [k \in 0 .. Len(q) |-> IF k = 0 THEN rows ELSE Copied(f[k - 1], q[k])]

After(rows, q) == LET f == CHOOSE f : IsRun(f, rows, q) IN f[Len(q)]

LEMMA RowsAfter == RowsAfterCopies = After(k_rows, sc_info)
BY Zenon DEF RowsAfterCopies, After, IsRun, Copied

LEMMA RunFacts ==
  ASSUME NEW q, Len(q) \in Nat, NEW rows, NEW f, IsRun(f, rows, q)
  PROVE  /\ f = [k \in 0 .. Len(q) |-> f[k]] /\ f[0] = rows
         /\ \A k \in 1 .. Len(q) : f[k] = Copied(f[k - 1], q[k])
<1> DEFINE F == [k \in 0 .. Len(q) |-> IF k = 0 THEN rows ELSE Copied(f[k - 1], q[k])]
<1>1. f = F
  BY DEF IsRun
<1>2. F = [k \in 0 .. Len(q) |-> F[k]] /\ F[0] = rows
      /\ \A k \in 1 .. Len(q) : F[k] = Copied(f[k - 1], q[k])
  OBVIOUS
<1> HIDE DEF F
<1> QED
  BY <1>1, <1>2

LEMMA RunFrom ==
  ASSUME NEW q, Len(q) \in Nat, NEW rows, NEW f, f = [k \in 0 .. Len(q) |-> f[k]], f[0] = rows,
         \A k \in 1 .. Len(q) : f[k] = Copied(f[k - 1], q[k])
  PROVE  IsRun(f, rows, q)
<1> DEFINE F == [k \in 0 .. Len(q) |-> IF k = 0 THEN rows ELSE Copied(f[k - 1], q[k])]
<1>1. \A k \in 0 .. Len(q) : F[k] = f[k]
  <2> TAKE k \in 0 .. Len(q)
  <2>1. CASE k = 0
    BY <2>1
  <2>2. CASE k # 0
    <3>1. k \in 1 .. Len(q)
      BY <2>2
    <3>2. F[k] = Copied(f[k - 1], q[k])
      BY <2>2
    <3> HIDE DEF F
    <3> QED
      BY <3>1, <3>2
  <2> QED
    BY <2>1, <2>2
<1>2. F = [k \in 0 .. Len(q) |-> F[k]]
  OBVIOUS
<1>3. F = f
  <2> HIDE DEF F
  <2> QED
    BY <1>1, <1>2
<1> QED
  BY <1>3 DEF IsRun

(* There is such a run, by induction on the number of copies.              *)
LEMMA RunExists ==
  ASSUME NEW q, Len(q) \in Nat, NEW rows
  PROVE  \E f : IsRun(f, rows, q)
<1> DEFINE Upward(f, n) == /\ f = [k \in 0 .. n |-> f[k]] /\ f[0] = rows
                           /\ \A k \in 1 .. n : f[k] = Copied(f[k - 1], q[k])
           Bad == {n \in Nat : ~\E f : Upward(f, n)}
<1>1. Bad = {}
  <2> SUFFICES ASSUME Bad # {} PROVE FALSE
    OBVIOUS
  <2>1. PICK n : n = Least(Bad)
    OBVIOUS
  <2>2. n \in Bad /\ \A y \in Bad : n <= y
    <3>1. Bad \in SUBSET Nat
      OBVIOUS
    <3> HIDE DEF Bad
    <3> QED
      BY <2>1, <3>1, LeastNat
  <2>3. n \in Nat /\ ~\E f : Upward(f, n)
    BY <2>2
  <2>4. CASE n = 0
    <3> DEFINE g == [k \in 0 .. 0 |-> rows]
    <3>1. g = [k \in 0 .. n |-> g[k]] /\ g[0] = rows /\ \A k \in 1 .. n : FALSE
      BY <2>4
    <3> HIDE DEF g
    <3>2. Upward(g, n)
      BY <3>1
    <3> QED
      BY <2>3, <3>2
  <2>5. CASE n # 0
    <3>1. n - 1 \in Nat /\ n - 1 \notin Bad
      BY <2>2, <2>3, <2>5
    <3>2. PICK f : Upward(f, n - 1)
      BY <3>1
    <3> DEFINE g == [k \in 0 .. n |-> IF k = n THEN Copied(f[n - 1], q[n]) ELSE f[k]]
    <3>3. /\ g = [k \in 0 .. n |-> g[k]] /\ g[n] = Copied(f[n - 1], q[n])
          /\ \A k \in 0 .. n - 1 : g[k] = f[k]
      BY <2>3, <2>5
    <3> HIDE DEF g
    <3>4. g[0] = rows
      <4>1. 0 \in 0 .. n - 1
        BY <2>3, <2>5
      <4>2. f[0] = rows
        BY <3>2
      <4> QED
        BY <3>3, <4>1, <4>2
    <3>5. ASSUME NEW k \in 1 .. n
          PROVE  g[k] = Copied(g[k - 1], q[k])
      <4>0. k - 1 \in 0 .. n - 1
        BY <2>3
      <4>1. g[k - 1] = f[k - 1]
        BY <3>3, <4>0
      <4>2. CASE k = n
        BY <3>3, <4>1, <4>2
      <4>3. CASE k # n
        <5>1. k \in 1 .. n - 1 /\ k \in 0 .. n - 1
          BY <2>3, <4>3
        <5>2. g[k] = f[k] /\ f[k] = Copied(f[k - 1], q[k])
          BY <3>2, <3>3, <5>1
        <5> QED
          BY <4>1, <5>2
      <4> QED
        BY <4>2, <4>3
    <3>6. Upward(g, n)
      BY <3>3, <3>4, <3>5
    <3> QED
      BY <2>3, <3>6
  <2> QED
    BY <2>4, <2>5
<1>2. PICK f : Upward(f, Len(q))
  BY <1>1
<1> QED
  BY <1>2, RunFrom

(* And only one.                                                           *)
LEMMA RunUnique ==
  ASSUME NEW q, Len(q) \in Nat, NEW rows, NEW f, NEW g, IsRun(f, rows, q), IsRun(g, rows, q)
  PROVE  f = g
<1>1. /\ f = [k \in 0 .. Len(q) |-> f[k]] /\ f[0] = rows
      /\ \A k \in 1 .. Len(q) : f[k] = Copied(f[k - 1], q[k])
  BY RunFacts
<1>2. /\ g = [k \in 0 .. Len(q) |-> g[k]] /\ g[0] = rows
      /\ \A k \in 1 .. Len(q) : g[k] = Copied(g[k - 1], q[k])
  BY RunFacts
<1> DEFINE Bad == {k \in 0 .. Len(q) : f[k] # g[k]}
<1>3. Bad = {}
  <2> SUFFICES ASSUME Bad # {} PROVE FALSE
    OBVIOUS
  <2>1. PICK n : n = Least(Bad)
    OBVIOUS
  <2>2. n \in Bad /\ \A y \in Bad : n <= y
    <3>1. Bad \in SUBSET Nat
      OBVIOUS
    <3> HIDE DEF Bad
    <3> QED
      BY <2>1, <3>1, LeastNat
  <2>3. n \in 0 .. Len(q) /\ f[n] # g[n] /\ n # 0
    BY <1>1, <1>2, <2>2
  <2>4. n - 1 \in 0 .. Len(q) /\ n - 1 \notin Bad /\ n \in 1 .. Len(q)
    BY <2>2, <2>3
  <2>5. f[n - 1] = g[n - 1]
    BY <2>4
  <2> QED
    BY <1>1, <1>2, <2>3, <2>4, <2>5
<1>4. \A k \in 0 .. Len(q) : f[k] = g[k]
  BY <1>3
<1> QED
  BY <1>1, <1>2, <1>4

LEMMA AfterIs ==
  ASSUME NEW q, Len(q) \in Nat, NEW rows, NEW f, IsRun(f, rows, q)
  PROVE  After(rows, q) = f[Len(q)]
<1>1. PICK g : g = CHOOSE x : IsRun(x, rows, q)
  OBVIOUS
<1>2. IsRun(g, rows, q)
  BY <1>1, Zenon
<1>3. g = f
  BY <1>2, RunUnique
<1> QED
  BY <1>1, <1>3 DEF After

LEMMA AfterRun ==
  ASSUME NEW q, Len(q) \in Nat, NEW rows
  PROVE  \E f : /\ f = [k \in 0 .. Len(q) |-> f[k]] /\ f[0] = rows
                /\ \A k \in 1 .. Len(q) : f[k] = Copied(f[k - 1], q[k])
                /\ f[Len(q)] = After(rows, q)
<1>1. PICK f : IsRun(f, rows, q)
  BY RunExists
<1>2. /\ f = [k \in 0 .. Len(q) |-> f[k]] /\ f[0] = rows
      /\ \A k \in 1 .. Len(q) : f[k] = Copied(f[k - 1], q[k])
  BY <1>1, RunFacts
<1>3. f[Len(q)] = After(rows, q)
  BY <1>1, AfterIs
<1> QED
  BY <1>2, <1>3

LEMMA AfterNone == \A rows : After(rows, <<>>) = rows
<1> SUFFICES ASSUME NEW rows PROVE After(rows, <<>>) = rows
  OBVIOUS
<1>1. PICK q : q = <<>> /\ Len(q) = 0
  BY EmptySeq
<1>2. PICK f : f[0] = rows /\ f[Len(q)] = After(rows, q)
  BY <1>1, AfterRun
<1> QED
  BY <1>1, <1>2

(* A copy that is queued is done after those before it.                    *)
LEMMA AfterAppend ==
  ASSUME NEW S, NEW q \in Seq(S), NEW e \in S, NEW rows
  PROVE  After(rows, Append(q, e)) = Copied(After(rows, q), e)
<1>1. PICK n, z : n = Len(q) /\ z = Append(q, e)
  OBVIOUS
<1>2. n \in Nat /\ Len(z) = n + 1 /\ z[n + 1] = e /\ \A k \in 1 .. n : z[k] = q[k]
  BY <1>1, LenProperties, AppendProperties
<1>3. PICK f : /\ f = [k \in 0 .. n |-> f[k]] /\ f[0] = rows
               /\ \A k \in 1 .. n : f[k] = Copied(f[k - 1], q[k])
               /\ f[n] = After(rows, q)
  BY <1>1, <1>2, AfterRun
<1> DEFINE g == [k \in 0 .. n + 1 |-> IF k = n + 1 THEN Copied(f[n], e) ELSE f[k]]
<1>4. /\ g = [k \in 0 .. n + 1 |-> g[k]] /\ g[n + 1] = Copied(f[n], e)
      /\ \A k \in 0 .. n : g[k] = f[k]
  BY <1>2
<1> HIDE DEF g
<1>5. ASSUME NEW k \in 1 .. n + 1
      PROVE  g[k] = Copied(g[k - 1], z[k])
  <2>0. k - 1 \in 0 .. n
    BY <1>2
  <2>1. g[k - 1] = f[k - 1]
    BY <1>4, <2>0
  <2>2. CASE k = n + 1
    <3>1. k - 1 = n
      BY <1>2, <2>2
    <3> QED
      BY <1>2, <1>4, <2>1, <2>2, <3>1
  <2>3. CASE k # n + 1
    <3>1. k \in 1 .. n /\ k \in 0 .. n
      BY <1>2, <2>3
    <3> QED
      BY <1>2, <1>3, <1>4, <2>1, <3>1
  <2> QED
    BY <2>2, <2>3
<1>6. 0 \in 0 .. n /\ n + 1 \in Nat
  BY <1>2
<1>7. IsRun(g, rows, z)
  BY <1>2, <1>3, <1>4, <1>5, <1>6, RunFrom
<1>8. After(rows, z) = g[n + 1]
  BY <1>2, <1>6, <1>7, AfterIs
<1> QED
  BY <1>1, <1>3, <1>4, <1>8

(* The first copy can be done at once.                                     *)
LEMMA AfterFirst ==
  ASSUME NEW S, NEW q \in Seq(S), q # <<>>, NEW rows
  PROVE  After(Copied(rows, Head(q)), Tail(q)) = After(rows, q)
<1>1. PICK n, t : n = Len(q) /\ t = Tail(q)
  OBVIOUS
<1>2. n \in Nat /\ n # 0 /\ Len(t) = n - 1 /\ n - 1 \in Nat /\ Head(q) = q[1]
      /\ \A k \in 1 .. n - 1 : t[k] = q[k + 1]
  BY <1>1, LenProperties, HeadTailProperties, EmptySeq
<1>3. PICK f : /\ f = [k \in 0 .. n |-> f[k]] /\ f[0] = rows
               /\ \A k \in 1 .. n : f[k] = Copied(f[k - 1], q[k])
               /\ f[n] = After(rows, q)
  BY <1>1, <1>2, AfterRun
<1> DEFINE g == [k \in 0 .. n - 1 |-> f[k + 1]]
<1>4. g = [k \in 0 .. n - 1 |-> g[k]] /\ \A k \in 0 .. n - 1 : g[k] = f[k + 1]
  OBVIOUS
<1> HIDE DEF g
<1>5. g[0] = Copied(rows, Head(q))
  <2>1. 0 \in 0 .. n - 1 /\ 1 \in 1 .. n
    BY <1>2
  <2>2. g[0] = f[1] /\ f[1] = Copied(f[0], q[1])
    <3>1. 0 + 1 = 1 /\ 1 - 1 = 0
      OBVIOUS
    <3>2. g[0] = f[0 + 1]
      BY <1>4, <2>1
    <3>3. f[1] = Copied(f[1 - 1], q[1])
      BY <1>3, <2>1
    <3> QED
      BY <3>1, <3>2, <3>3
  <2> QED
    BY <1>2, <1>3, <2>2
<1>6. ASSUME NEW k \in 1 .. n - 1
      PROVE  g[k] = Copied(g[k - 1], t[k])
  <2>1. PICK h, l : h = k - 1 /\ l = k + 1
    OBVIOUS
  <2>2. /\ h \in 0 .. n - 1 /\ k \in 0 .. n - 1 /\ l \in 1 .. n
        /\ h + 1 = k /\ l - 1 = k
    BY <1>2, <2>1
  <2>3. f[l] = Copied(f[k], q[l])
    BY <1>3, <2>2
  <2>4. g[k] = f[l] /\ g[h] = f[k]
    BY <1>4, <2>1, <2>2
  <2>5. t[k] = q[l]
    BY <1>2, <2>1
  <2>6. g[k] = Copied(g[h], t[k])
    BY <2>3, <2>4, <2>5
  <2> QED
    BY <2>1, <2>6
<1>7. IsRun(g, Copied(rows, Head(q)), t)
  BY <1>2, <1>4, <1>5, <1>6, RunFrom
<1>8. After(Copied(rows, Head(q)), t) = g[n - 1]
  BY <1>2, <1>7, AfterIs
<1>9. g[n - 1] = f[n]
  <2>1. n - 1 \in 0 .. n - 1 /\ n - 1 + 1 = n
    BY <1>2
  <2> QED
    BY <1>4, <2>1
<1> QED
  BY <1>1, <1>3, <1>8, <1>9

(* Copies keep the streams there are.                                      *)
LEMMA AfterDomain ==
  ASSUME NEW q, Len(q) \in Nat, NEW rows
  PROVE  DOMAIN After(rows, q) = DOMAIN rows
<1>1. PICK f : /\ f[0] = rows
               /\ \A k \in 1 .. Len(q) : f[k] = Copied(f[k - 1], q[k])
               /\ f[Len(q)] = After(rows, q)
  BY AfterRun
<1> DEFINE Bad == {k \in 0 .. Len(q) : DOMAIN f[k] # DOMAIN rows}
<1>2. Bad = {}
  <2> SUFFICES ASSUME Bad # {} PROVE FALSE
    OBVIOUS
  <2>1. PICK n : n = Least(Bad)
    OBVIOUS
  <2>2. n \in Bad /\ \A y \in Bad : n <= y
    <3>1. Bad \in SUBSET Nat
      OBVIOUS
    <3> HIDE DEF Bad
    <3> QED
      BY <2>1, <3>1, LeastNat
  <2>3. n \in 0 .. Len(q) /\ DOMAIN f[n] # DOMAIN rows /\ n # 0
    BY <1>1, <2>2
  <2>4. n - 1 \in 0 .. Len(q) /\ n - 1 \notin Bad /\ n \in 1 .. Len(q)
    BY <2>2, <2>3
  <2>5. DOMAIN f[n - 1] = DOMAIN rows
    BY <2>4
  <2>6. f[n] = Copied(f[n - 1], q[n])
    BY <1>1, <2>4
  <2>7. DOMAIN f[n] = DOMAIN f[n - 1]
    BY <2>6 DEF Copied
  <2> QED
    BY <2>3, <2>5, <2>7
<1>3. Len(q) \in 0 .. Len(q)
  OBVIOUS
<1>4. DOMAIN f[Len(q)] = DOMAIN rows
  BY <1>2, <1>3
<1> QED
  BY <1>1, <1>4

-----------------------------------------------------------------------------
(* The invariant: the cells that show have the right rows, nothing is      *)
(* copied while a decode places tokens, and no shift is pending on the     *)
(* cells of the micro-batch that is computed.                              *)

Good(st, i) == RowsAfterCopies[st][i] = {v_cells[st].pos[i] - v_cells[st].shift[i]}
Right == \A st \in Stream : \A i \in Cell : Shows(st, i) => Good(st, i)

NoneQueued == phase \notin {"idle", "update"} => sc_info = <<>>

Unshifted ==
  phase = "compute" => \A st \in Stream : \A i \in Slots(i_cur, st) : v_cells[st].shift[i] = 0

RowsInv == Right /\ NoneQueued /\ Unshifted

LEMMA RightRows == IInv /\ Right => RowsMatch
<1> SUFFICES ASSUME IInv, Right, NEW st \in Stream, NEW i \in v_cells[st].used \ Tentative(st)
             PROVE  Good(st, i)
  BY DEF RowsMatch, Good
<1>1. i \in Cell /\ v_cells[st].pos[i] # Empty
  BY DEF IInv, CellsOK, Sound, Consistent
<1> QED
  BY <1>1 DEF Right, Shows

(* The rows stay those that they are when neither rows nor queue change,   *)
(* and are those in memory when nothing is queued.                         *)
LEMMA RowsAfterNext == RowsAfterCopies' = After(k_rows', sc_info')
BY Zenon DEF RowsAfterCopies, After, IsRun, Copied

LEMMA RowsStay ==
  ASSUME UNCHANGED <<k_rows, sc_info>>
  PROVE  RowsAfterCopies' = RowsAfterCopies
BY RowsAfter, RowsAfterNext

LEMMA RowsNow == sc_info = <<>> => RowsAfterCopies = k_rows
BY RowsAfter, AfterNone

LEMMA RowsNowNext == sc_info' = <<>> => RowsAfterCopies' = k_rows'
BY RowsAfterNext, AfterNone

-----------------------------------------------------------------------------
(* What the methods of eden_kv_cells do to the shift that is pending.      *)

(* In a cell that stays occupied, position and shift move together.        *)
Keeps(d, c) ==
  \A i \in Cell : d.pos[i] # Empty =>
    c.pos[i] # Empty /\ d.pos[i] - d.shift[i] = c.pos[i] - c.shift[i]

LEMMA SeqRmShift ==
  ASSUME NEW p, Sound(p), NEW G
  PROVE  /\ \A i \in Cell : seq_rm(p, G).shift[i] = IF i \in Freed(p, G) THEN 0 ELSE p.shift[i]
         /\ \A i \in Cell : seq_rm(p, G).pos[i] = IF i \in Freed(p, G) THEN Empty ELSE p.pos[i]
<1> DEFINE F == Freed(p, G)
           sq == [i \in Cell |-> p.seq[i] \ G[i]]
           left == [p EXCEPT !.seq = sq]
           v == Vacate(left, F)
           cnt == seq_pos_dec(p.seq_pos, p.pos, G)
           d == seq_rm(p, G)
<1>1. d = [v EXCEPT !.seq_pos = cnt]
  BY DEF seq_rm
<1> HIDE DEF d
<1>2. F \in SUBSET Cell
  BY DEF Freed
<1>3. sq \in [Cell -> SUBSET SeqId] /\ p \in WideType
  BY WideFacts DEF Sound, CellsType
<1> HIDE DEF F, sq, cnt
<1>5. left \in WideType /\ left.pos = p.pos /\ left.shift = p.shift
  BY <1>3 DEF WideType
<1> HIDE DEF left
<1>6. /\ v \in WideType
      /\ v.pos = [i \in Cell |-> IF i \in F THEN Empty ELSE left.pos[i]]
      /\ v.shift = [i \in Cell |-> IF i \in F THEN 0 ELSE left.shift[i]]
  BY <1>2, <1>5, VacateFields
<1> HIDE DEF v
<1>7. d.pos = v.pos /\ d.shift = v.shift
  BY <1>1, <1>6, SetCounts
<1>8. \A i \in Cell : /\ d.shift[i] = IF i \in F THEN 0 ELSE p.shift[i]
                      /\ d.pos[i] = IF i \in F THEN Empty ELSE p.pos[i]
  BY <1>5, <1>6, <1>7
<1> QED
  BY <1>8, Zenon DEF d, F

LEMMA SeqRmKeeps ==
  ASSUME NEW c, Sound(c), NEW G
  PROVE  Keeps(seq_rm(c, G), c)
<1>1. PICK d, F : d = seq_rm(c, G) /\ F = Freed(c, G)
  OBVIOUS
<1>2. \A i \in Cell : /\ d.shift[i] = IF i \in F THEN 0 ELSE c.shift[i]
                      /\ d.pos[i] = IF i \in F THEN Empty ELSE c.pos[i]
  BY <1>1, SeqRmShift
<1>3. Keeps(d, c)
  BY <1>2 DEF Keeps
<1> QED
  BY <1>1, <1>3

LEMMA RmShift ==
  ASSUME NEW c, Sound(c), NEW M \in SUBSET Cell
  PROVE  /\ \A i \in Cell : rm(c, M).shift[i] = IF i \in M THEN 0 ELSE c.shift[i]
         /\ \A i \in Cell : rm(c, M).pos[i] = IF i \in M THEN Empty ELSE c.pos[i]
<1> DEFINE v == Vacate(c, M)
<1>1. c \in WideType
  BY WideFacts DEF Sound
<1>2. /\ v \in WideType
      /\ v.pos = [i \in Cell |-> IF i \in M THEN Empty ELSE c.pos[i]]
      /\ v.shift = [i \in Cell |-> IF i \in M THEN 0 ELSE c.shift[i]]
  BY <1>1, VacateFields
<1> HIDE DEF v
<1>3. rm(c, M).pos = v.pos /\ rm(c, M).shift = v.shift
  BY <1>2, SetCounts DEF rm, v
<1> QED
  BY <1>2, <1>3

LEMMA RmKeeps ==
  ASSUME NEW c, Sound(c), NEW M \in SUBSET Cell
  PROVE  Keeps(rm(c, M), c)
<1>1. PICK d : d = rm(c, M)
  OBVIOUS
<1>2. \A i \in Cell : /\ d.shift[i] = IF i \in M THEN 0 ELSE c.shift[i]
                      /\ d.pos[i] = IF i \in M THEN Empty ELSE c.pos[i]
  BY <1>1, RmShift
<1>3. Keeps(d, c)
  BY <1>2 DEF Keeps
<1> QED
  BY <1>1, <1>3

LEMMA SeqKeepKeeps ==
  ASSUME NEW c, Sound(c), NEW s \in SeqId
  PROVE  Keeps(seq_keep(c, s), c)
<1> DEFINE kept == {i \in Cell : s \in c.seq[i]}
           only == [i \in Cell |-> IF i \in kept THEN {s} ELSE c.seq[i]]
           D == Dropped(c, s)
           left == [c EXCEPT !.seq = only]
           v == Vacate(left, D)
           cnt == seq_pos_inc(seq_pos_dec(c.seq_pos, c.pos, c.seq), c.pos, Within(kept, only))
           d == seq_keep(c, s)
<1>1. d = [v EXCEPT !.seq_pos = cnt]
  BY DEF seq_keep
<1> HIDE DEF d
<1>2. D \in SUBSET Cell
  BY DEF Dropped
<1>3. only \in [Cell -> SUBSET SeqId] /\ c \in WideType
  BY WideFacts DEF Sound, CellsType
<1> HIDE DEF D, only, cnt
<1>5. left \in WideType /\ left.pos = c.pos /\ left.shift = c.shift
  BY <1>3 DEF WideType
<1> HIDE DEF left
<1>6. /\ v \in WideType
      /\ v.pos = [i \in Cell |-> IF i \in D THEN Empty ELSE left.pos[i]]
      /\ v.shift = [i \in Cell |-> IF i \in D THEN 0 ELSE left.shift[i]]
  BY <1>2, <1>5, VacateFields
<1> HIDE DEF v
<1>7. d.pos = v.pos /\ d.shift = v.shift
  BY <1>1, <1>6, SetCounts
<1>8. Keeps(d, c)
  BY <1>5, <1>6, <1>7 DEF Keeps
<1> QED
  BY <1>8 DEF d

LEMMA SeqAddKeeps ==
  ASSUME NEW c, Sound(c), NEW M, NEW s
  PROVE  Keeps(seq_add(c, M, s), c)
<1>1. seq_add(c, M, s).pos = c.pos /\ seq_add(c, M, s).shift = c.shift
  BY DEF seq_add, Sound, CellsType
<1> QED
  BY <1>1 DEF Keeps

LEMMA ResetKeeps == \A c : Keeps(reset, c)
BY DEF Keeps, reset

(* pos_add moves position and pending shift by the same.                   *)
LEMMA PosAddKeeps ==
  ASSUME NEW c, Sound(c), NEW M \in SUBSET Cell, NEW x \in Int, \A i \in M : c.pos[i] # Empty
  PROVE  Keeps(pos_add(c, M, x), c)
<1> DEFINE P == [i \in Cell |-> c.pos[i] + x]
           D == [i \in Cell |-> x]
           pos == [i \in Cell |-> IF i \in M THEN P[i] ELSE c.pos[i]]
           shift == [i \in Cell |-> IF i \in M THEN c.shift[i] + D[i] ELSE c.shift[i]]
           moved == [c EXCEPT !.pos = pos, !.shift = shift]
           F == {i \in M : P[i] < 0}
           v == Vacate(moved, F)
           cnt == seq_pos_inc(seq_pos_dec(c.seq_pos, c.pos, Within(M, c.seq)), moved.pos, Within(M \ F, c.seq))
           h == c.has_shift \/ M # {}
           d == pos_add(c, M, x)
<1>1. d = [v EXCEPT !.seq_pos = cnt, !.has_shift = h]
  BY DEF pos_add, Repos
<1> HIDE DEF d
<1>2. \A i \in Cell : c.pos[i] \in Int /\ c.shift[i] \in Int
  BY PosFacts DEF Sound, CellsType
<1>3. /\ \A i \in Cell : pos[i] \in Int /\ shift[i] \in Int /\ pos[i] - shift[i] = c.pos[i] - c.shift[i]
      /\ \A i \in Cell \ M : pos[i] = c.pos[i]
      /\ h \in BOOLEAN /\ F \in SUBSET Cell
  <2>1. \A i \in Cell : pos[i] \in Int /\ shift[i] \in Int /\ pos[i] - shift[i] = c.pos[i] - c.shift[i]
    <3> TAKE i \in Cell
    <3>1. CASE i \in M
      <4>1. pos[i] = c.pos[i] + x /\ shift[i] = c.shift[i] + x
        BY <3>1
      <4> QED
        BY <1>2, <4>1
    <3>2. CASE i \notin M
      BY <1>2, <3>2
    <3> QED
      BY <3>1, <3>2
  <2>2. h \in BOOLEAN
    BY DEF Sound, CellsType
  <2> QED
    BY <2>1, <2>2
<1>4. /\ pos = [i \in Cell |-> pos[i]] /\ shift = [i \in Cell |-> shift[i]] /\ c \in WideType
  BY WideFacts DEF Sound
<1> HIDE DEF pos, shift, F, h, cnt
<1>5. moved \in WideType /\ moved.pos = pos /\ moved.shift = shift
  BY <1>3, <1>4 DEF WideType
<1> HIDE DEF moved
<1>6. /\ v \in WideType
      /\ v.pos = [i \in Cell |-> IF i \in F THEN Empty ELSE moved.pos[i]]
      /\ v.shift = [i \in Cell |-> IF i \in F THEN 0 ELSE moved.shift[i]]
  BY <1>3, <1>5, VacateFields
<1> HIDE DEF v
<1>7. d.pos = v.pos /\ d.shift = v.shift
  <2>1. PICK w, y, g : w = v /\ y = cnt /\ g = h
    OBVIOUS
  <2>2. w \in WideType /\ g \in BOOLEAN /\ d = [w EXCEPT !.seq_pos = y, !.has_shift = g]
    BY <1>1, <1>3, <1>6, <2>1
  <2>3. d.pos = w.pos /\ d.shift = w.shift
    BY <2>2 DEF WideType
  <2> QED
    BY <2>1, <2>3
<1>8. Keeps(d, c)
  BY <1>3, <1>5, <1>6, <1>7 DEF Keeps
<1> QED
  BY <1>8 DEF d

(* apply_ubatch leaves no shift on the cells it fills, and any other cell  *)
(* its own.                                                                *)
LEMMA ApplyShift ==
  ASSUME NEW c, Sound(c), NEW slot, DOMAIN slot \in SUBSET Cell, NEW toks,
         \A i \in DOMAIN slot : toks[slot[i]] \in Token
  PROVE  LET d == apply_ubatch(c, slot, toks)
         IN  \A i \in Cell :
               /\ i \in DOMAIN slot => d.shift[i] = 0
               /\ i \notin DOMAIN slot /\ d.pos[i] # Empty => d.shift[i] = c.shift[i]
<1> DEFINE M == DOMAIN slot
           O == {i \in M : ~is_empty(c, i)}
           e == rm(c, O)
           P == [i \in M |-> toks[slot[i]].pos]
           S == [i \in M |-> toks[slot[i]].seqs]
           p == Emplace(c, slot, toks)
           G == Purged(c, slot, p)
<1>1. p = pos_set(e, M, P, S)
  BY DEF Emplace
<1>2. \A i \in Cell : e.shift[i] = IF i \in O THEN 0 ELSE c.shift[i]
  <2>1. O \in SUBSET Cell
    OBVIOUS
  <2> HIDE DEF O
  <2> QED
    BY <2>1, RmShift
<1>3. \A i \in M : i \notin O => c.shift[i] = 0
  BY DEF is_empty, Sound, Consistent
<1>4. Sound(p) /\ Sound(e)
  <2>1. Sound(p)
    BY EmplaceSound
  <2>2. O \in SUBSET Cell
    OBVIOUS
  <2> QED
    BY <2>1, <2>2, RmSound
<1>5. p.shift = e.shift
  <2> HIDE DEF M, P, S, e, p
  <2> QED
    BY <1>1, <1>4 DEF pos_set, Sound, CellsType
<1>6. \A i \in Cell : /\ i \in M => p.shift[i] = 0
                      /\ i \notin M => p.shift[i] = c.shift[i]
  <2>1. \A i \in Cell : i \notin M => i \notin O
    OBVIOUS
  <2> HIDE DEF p, e, O, M
  <2> QED
    BY <1>2, <1>3, <1>5, <2>1
<1>7. apply_ubatch(c, slot, toks) = seq_rm(p, G)
  BY DEF apply_ubatch
<1> HIDE DEF p, G
<1>8. /\ \A i \in Cell : seq_rm(p, G).shift[i] = IF i \in Freed(p, G) THEN 0 ELSE p.shift[i]
      /\ \A i \in Cell : seq_rm(p, G).pos[i] = IF i \in Freed(p, G) THEN Empty ELSE p.pos[i]
  BY <1>4, SeqRmShift
<1>9. PICK d : d = seq_rm(p, G)
  OBVIOUS
<1>10. \A i \in Cell :
         /\ i \in DOMAIN slot => d.shift[i] = 0
         /\ i \notin DOMAIN slot /\ d.pos[i] # Empty => d.shift[i] = c.shift[i]
  BY <1>6, <1>8, <1>9 DEF M
<1> QED
  BY <1>7, <1>9, <1>10

-----------------------------------------------------------------------------
(* The memory operations.                                                  *)

(* Every cell that shows afterwards showed before, with the same row and   *)
(* the same distance between position and pending shift.                   *)
LEMMA RightStays ==
  ASSUME Right,
         \A st \in Stream : \A i \in Cell : Shows(st, i)' =>
           /\ Shows(st, i)
           /\ v_cells'[st].pos[i] - v_cells'[st].shift[i] = v_cells[st].pos[i] - v_cells[st].shift[i]
           /\ RowsAfterCopies'[st][i] = RowsAfterCopies[st][i]
  PROVE  Right'
<1> SUFFICES ASSUME NEW st \in Stream, NEW i \in Cell, Shows(st, i)'
             PROVE  Good(st, i)'
  BY DEF Right, Stream
<1>1. Good(st, i)
  BY DEF Right
<1>2. PICK R, Q : R = RowsAfterCopies /\ Q = RowsAfterCopies'
  OBVIOUS
<1>3. Q[st][i] = {v_cells'[st].pos[i] - v_cells'[st].shift[i]}
  BY <1>1, <1>2 DEF Good
<1> QED
  BY <1>2, <1>3 DEF Good

(* Nothing is placed between decodes.                                      *)
LEMMA ShowsIdle ==
  ASSUME IInv, phase = "idle", UNCHANGED callVars
  PROVE  \A st, i : /\ Shows(st, i) <=> v_cells[st].pos[i] # Empty
                    /\ Shows(st, i)' <=> v_cells'[st].pos[i] # Empty
<1>1. stack = <<>> /\ stack' = <<>> /\ phase' = "idle"
  BY DEF IInv, StackOK, callVars
<1>2. \A st : Tentative(st) = {} /\ Tentative(st)' = {}
  BY <1>1 DEF Tentative
<1> QED
  BY <1>2 DEF Shows

LEMMA OpRight ==
  ASSUME IInv, Right, phase = "idle", UNCHANGED <<k_rows, sc_info, callVars>>,
         \A st \in Stream : Keeps(v_cells'[st], v_cells[st])
  PROVE  Right'
<1>1. RowsAfterCopies' = RowsAfterCopies
  BY RowsStay
<1>2. \A st, i : /\ Shows(st, i) <=> v_cells[st].pos[i] # Empty
                 /\ Shows(st, i)' <=> v_cells'[st].pos[i] # Empty
  BY ShowsIdle
<1>3. \A st \in Stream : \A i \in Cell : Shows(st, i)' =>
        /\ Shows(st, i)
        /\ v_cells'[st].pos[i] - v_cells'[st].shift[i] = v_cells[st].pos[i] - v_cells[st].shift[i]
        /\ RowsAfterCopies'[st][i] = RowsAfterCopies[st][i]
  BY <1>1, <1>2 DEF Keeps
<1> QED
  BY <1>3, RightStays

(* An operation on the cells of one stream.                                *)
LEMMA StreamRight ==
  ASSUME IInv, Right, phase = "idle", UNCHANGED <<k_rows, sc_info, callVars>>,
         NEW st \in Stream, NEW c, OnStream(st, c), Keeps(c, v_cells[st])
  PROVE  Right'
<1>1. v_cells'[st] = c /\ \A x \in Stream \ {st} : v_cells'[x] = v_cells[x]
  BY SetStream
<1>2. \A x \in Stream : Keeps(v_cells'[x], v_cells[x])
  BY <1>1 DEF Keeps
<1> QED
  BY <1>2, OpRight

LEMMA ClearRight ==
  ASSUME IInv, NEW data \in BOOLEAN, clear(data)
  PROVE  Right'
<1>1. phase = "idle" /\ UNCHANGED callVars /\ v_cells' = [st \in Stream |-> reset]
  BY DEF clear
<1>2. \A st \in Stream : \A i \in Cell : ~Shows(st, i)'
  BY <1>1, ShowsIdle DEF reset
<1> QED
  BY <1>2 DEF Right, Stream

LEMMA SeqRmRight ==
  ASSUME IInv, Right, NEW s \in SeqId, NEW r, SeqRm(s, r)
  PROVE  Right'
<1>1. PICK st : st = seq_to_stream(s)
  OBVIOUS
<1>2. /\ phase = "idle" /\ UNCHANGED <<k_rows, sc_info, callVars>> /\ st \in Stream
      /\ OnStream(st, seq_rm(v_cells[st], Selected(v_cells[st], s, r)))
  BY <1>1, StreamFacts DEF SeqRm
<1>3. Sound(v_cells[st])
  BY <1>2, CellsOfStream
<1>4. PICK c, G : c = v_cells[st] /\ G = Selected(v_cells[st], s, r)
  OBVIOUS
<1>5. Keeps(seq_rm(c, G), c)
  BY <1>3, <1>4, SeqRmKeeps
<1> QED
  BY <1>2, <1>4, <1>5, StreamRight

LEMMA SeqRmAnyRight ==
  ASSUME IInv, Right, NEW r, SeqRmAny(r)
  PROVE  Right'
<1>1. /\ phase = "idle" /\ UNCHANGED <<k_rows, sc_info, callVars>>
      /\ v_cells' = [st \in Stream |-> rm(v_cells[st], InRange(v_cells[st], r))]
  BY DEF SeqRmAny
<1>2. ASSUME NEW st \in Stream
      PROVE  Keeps(v_cells'[st], v_cells[st])
  <2>1. PICK c, M : c = v_cells[st] /\ M = InRange(v_cells[st], r)
    OBVIOUS
  <2>2. Sound(c) /\ M \in SUBSET Cell
    BY <2>1, CellsOfStream DEF InRange
  <2>3. Keeps(rm(c, M), c)
    BY <2>2, RmKeeps
  <2> QED
    BY <1>1, <2>1, <2>3
<1> QED
  BY <1>1, <1>2, OpRight

LEMMA SeqCpSameRight ==
  ASSUME IInv, Right, NEW src \in SeqId, NEW dst \in SeqId, NEW r, SeqCpSame(src, dst, r)
  PROVE  Right'
<1>1. PICK c, M : c = v_cells[0] /\ M = CpCells(src, r)
  OBVIOUS
<1>2. /\ phase = "idle" /\ UNCHANGED <<k_rows, sc_info, callVars>> /\ 0 \in Stream
      /\ OnStream(0, seq_add(c, M, dst))
  BY <1>1, StreamFacts DEF SeqCpSame
<1>3. Sound(c)
  BY <1>1, <1>2, CellsOfStream
<1>4. Keeps(seq_add(c, M, dst), c)
  BY <1>3, SeqAddKeeps
<1> QED
  BY <1>1, <1>2, <1>4, StreamRight

LEMMA SeqKeepRight ==
  ASSUME IInv, Right, NEW s \in SeqId, SeqKeep(s)
  PROVE  Right'
<1>1. PICK st, c : st = seq_to_stream(s) /\ c = v_cells[st]
  OBVIOUS
<1>2. /\ phase = "idle" /\ UNCHANGED <<k_rows, sc_info, callVars>> /\ st \in Stream
      /\ OnStream(st, seq_keep(c, s))
  BY <1>1, StreamFacts DEF SeqKeep
<1>3. Sound(c)
  BY <1>1, <1>2, CellsOfStream
<1>4. Keeps(seq_keep(c, s), c)
  BY <1>3, SeqKeepKeeps
<1> QED
  BY <1>1, <1>2, <1>4, StreamRight

LEMMA SeqAddRight ==
  ASSUME IInv, Right, NEW s \in SeqId, NEW r \in AddRanges, NEW d \in Deltas, SeqAdd(s, r, d)
  PROVE  Right'
<1>1. PICK st, c, M : st = seq_to_stream(s) /\ c = v_cells[st] /\ M = Moved(s, r)
  OBVIOUS
<1>2. /\ phase = "idle" /\ UNCHANGED <<k_rows, sc_info, callVars>> /\ st \in Stream
      /\ OnStream(st, pos_add(c, M, d)) /\ d \in Int
  BY <1>1, StreamFacts, DeltasAssumption DEF SeqAdd
<1>3. Sound(c) /\ \A i \in Cell : c.pos[i] = Empty <=> c.seq[i] = {}
  BY <1>1, <1>2, CellsOfStream
<1>4. M \in SUBSET Cell /\ \A i \in M : c.pos[i] # Empty
  BY <1>1, <1>3 DEF Moved, Has
<1>5. Keeps(pos_add(c, M, d), c)
  BY <1>2, <1>3, <1>4, PosAddKeeps
<1> QED
  BY <1>1, <1>2, <1>5, StreamRight

(* The destination of a copy between streams will have the rows of the     *)
(* source once those before it in the queue are done.                      *)
LEMMA SeqCpCrossRight ==
  ASSUME IInv, Right, NEW src \in SeqId, NEW dst \in SeqId, NEW r, SeqCpCross(src, dst, r)
  PROVE  Right'
<1>1. PICK e, R, Q, c, d :
        /\ e = <<src, dst>> /\ R = RowsAfterCopies /\ Q = RowsAfterCopies'
        /\ c = v_cells[src] /\ d = CopyCells(c, src, dst)
  OBVIOUS
<1>2. /\ phase = "idle" /\ UNCHANGED callVars /\ k_rows' = k_rows
      /\ src \in Stream /\ dst \in Stream
      /\ sc_info' = Append(sc_info, e) /\ OnStream(dst, d)
  BY <1>1, StreamFacts DEF SeqCpCross
<1>3. sc_info \in Seq(Stream \X Stream) /\ Len(sc_info) \in Nat /\ DOMAIN k_rows = Stream
  BY LenProperties DEF IInv, RowsOK
<1>4. Q = Copied(R, e) /\ DOMAIN R = Stream
  <2>1. PICK q, rows : q = sc_info /\ rows = k_rows
    OBVIOUS
  <2>2. q \in Seq(Stream \X Stream) /\ e \in Stream \X Stream /\ Len(q) \in Nat
    BY <1>1, <1>2, <1>3, <2>1
  <2>3. R = After(rows, q) /\ Q = After(rows, Append(q, e))
    BY <1>1, <1>2, <2>1, RowsAfter, RowsAfterNext
  <2>4. After(rows, Append(q, e)) = Copied(After(rows, q), e)
    BY <2>2, AfterAppend
  <2>5. DOMAIN After(rows, q) = DOMAIN rows
    BY <2>2, AfterDomain
  <2> QED
    BY <1>3, <2>1, <2>3, <2>4, <2>5
<1>5. e[1] = src /\ e[2] = dst
  BY <1>1
<1>6. Q[dst] = R[src] /\ \A st \in Stream \ {dst} : Q[st] = R[st]
  BY <1>2, <1>4, <1>5 DEF Copied
<1>7. v_cells'[dst] = d /\ \A st \in Stream \ {dst} : v_cells'[st] = v_cells[st]
  BY <1>2, SetStream
<1>8. \A i \in Cell : d.pos[i] # Empty => d.pos[i] = c.pos[i] /\ d.shift[i] = c.shift[i]
  BY <1>1 DEF CopyCells
<1>9. \A st, i : /\ Shows(st, i) <=> v_cells[st].pos[i] # Empty
                 /\ Shows(st, i)' <=> v_cells'[st].pos[i] # Empty
  BY <1>2, ShowsIdle
<1>10. \A st \in Stream : \A i \in Cell :
         v_cells[st].pos[i] # Empty => R[st][i] = {v_cells[st].pos[i] - v_cells[st].shift[i]}
  BY <1>1, <1>9 DEF Right, Good
<1>11. ASSUME NEW st \in Stream, NEW i \in Cell, v_cells'[st].pos[i] # Empty
       PROVE  Q[st][i] = {v_cells'[st].pos[i] - v_cells'[st].shift[i]}
  <2>1. CASE st = dst
    <3>1. d.pos[i] # Empty
      BY <1>7, <1>11, <2>1
    <3>2. R[src][i] = {c.pos[i] - c.shift[i]}
      BY <1>1, <1>2, <1>8, <1>10, <3>1
    <3> QED
      BY <1>6, <1>7, <1>8, <2>1, <3>1, <3>2
  <2>2. CASE st # dst
    BY <1>6, <1>7, <1>10, <1>11, <2>2
  <2> QED
    BY <2>1, <2>2
<1> QED
  BY <1>1, <1>9, <1>11 DEF Right, Good, Stream

(* No division.                                                            *)
LEMMA MemoryOpRight ==
  ASSUME DivRanges = {}, IInv, Right, MemoryOp
  PROVE  Right'
<1>1. CASE \E data \in BOOLEAN : clear(data)
  BY <1>1, ClearRight
<1>2. CASE \E s \in SeqId, r \in RmRanges : SeqRm(s, r)
  BY <1>2, SeqRmRight
<1>3. CASE \E r \in RmRanges : SeqRmAny(r)
  BY <1>3, SeqRmAnyRight
<1>4. CASE \E src, dst \in SeqId, r \in CpRanges : Fresh(src, dst, r) /\ SeqCpSame(src, dst, r)
  BY <1>4, SeqCpSameRight
<1>5. CASE \E src, dst \in SeqId, r \in CpRanges : SeqCpCross(src, dst, r)
  BY <1>5, SeqCpCrossRight
<1>6. CASE \E s \in KeepSeqs : SeqKeep(s)
  BY <1>6, SeqKeepRight, KeepSeqsAssumption
<1>7. CASE \E s \in SeqId, r \in AddRanges, d \in Deltas : SeqAdd(s, r, d)
  BY <1>7, SeqAddRight
<1> QED
  BY <1>1, <1>2, <1>3, <1>4, <1>5, <1>6, <1>7 DEF MemoryOp

-----------------------------------------------------------------------------
(* The steps of a decode.                                                  *)

LEMMA SameRight ==
  ASSUME Right, Same,
         \A st \in Stream : \A i \in Cell : Shows(st, i) =>
           /\ v_cells'[st].shift[i] = v_cells[st].shift[i]
           /\ RowsAfterCopies'[st][i] = RowsAfterCopies[st][i]
  PROVE  Right'
<1>1. \A st \in Stream : \A i \in Cell : Shows(st, i)' =>
        /\ Shows(st, i)
        /\ v_cells'[st].pos[i] - v_cells'[st].shift[i] = v_cells[st].pos[i] - v_cells[st].shift[i]
        /\ RowsAfterCopies'[st][i] = RowsAfterCopies[st][i]
  BY DEF Same
<1> QED
  BY <1>1, RightStays

LEMMA QuietRight ==
  ASSUME IInv, Right, Begin \/ PrepareEnd \/ Prepared \/ Retry \/ ReturnNoSlot
  PROVE  Right'
<1>1. UNCHANGED <<k_rows, sc_info>> /\ v_cells' = v_cells
  BY DEF Begin, DecodeBegin, PrepareEnd, Prepared, Retry, ReturnNoSlot, memVars
<1>2. RowsAfterCopies' = RowsAfterCopies
  BY <1>1, RowsStay
<1>3. Same
  BY QuietSteps, PrepareEndSame
<1> QED
  BY <1>1, <1>2, <1>3, SameRight

LEMMA UpdateCopyRight ==
  ASSUME IInv, Right, UpdateCopy
  PROVE  Right'
<1>1. PICK q, rows : q = sc_info /\ rows = k_rows
  OBVIOUS
<1>2. /\ q # <<>> /\ k_rows' = Copied(rows, Head(q)) /\ sc_info' = Tail(q) /\ v_cells' = v_cells
  BY <1>1 DEF UpdateCopy, Copied
<1>3. q \in Seq(Stream \X Stream)
  BY <1>1 DEF IInv, RowsOK
<1>4. After(Copied(rows, Head(q)), Tail(q)) = After(rows, q)
  BY <1>2, <1>3, AfterFirst
<1>5. RowsAfterCopies' = RowsAfterCopies
  BY <1>1, <1>2, <1>4, RowsAfter, RowsAfterNext
<1>6. Same
  BY QuietSteps
<1> QED
  BY <1>2, <1>5, <1>6, SameRight

(* The K-shift that is complete rotates the rows by what was pending.      *)
LEMMA UpdateShiftRight ==
  ASSUME "shift_abort" \notin Faults, IInv, IInv', Right, UpdateShift
  PROVE  Right'
<1>1. sc_info = <<>> /\ sc_info' = <<>> /\ phase = "update"
  BY DEF UpdateShift
<1>2. RowsAfterCopies = k_rows /\ RowsAfterCopies' = k_rows'
  BY <1>1, RowsNow, RowsNowNext
<1>3. Same
  BY UpdateShiftSame
<1>4. CASE UNCHANGED <<k_rows, v_cells>>
  BY <1>2, <1>3, <1>4, SameRight
<1>5. CASE /\ k_rows' = [st \in Stream |-> Shifted(st)]
           /\ v_cells' = [st \in Stream |-> reset_shift(v_cells[st])]
  <2> SUFFICES ASSUME NEW st \in Stream, NEW i \in Cell, Shows(st, i)'
               PROVE  Good(st, i)'
    BY DEF Right, Stream
  <2>1. PICK c, d : c = v_cells[st] /\ d = v_cells'[st]
    OBVIOUS
  <2>2. Shows(st, i) /\ d.pos[i] = c.pos[i]
    BY <1>3, <2>1 DEF Same
  <2>3. c.pos[i] \in Int /\ c.shift[i] \in Int /\ c \in CellsType
    <3>1. c \in CellsType
      BY <2>1, CellsOfStream
    <3> QED
      BY <3>1, PosFacts DEF CellsType
  <2>4. d = reset_shift(c)
    BY <1>5, <2>1
  <2>5. d.shift[i] = 0
    BY <2>3, <2>4 DEF reset_shift, CellsType
  <2>6. k_rows[st][i] = {c.pos[i] - c.shift[i]}
    BY <1>2, <2>1, <2>2 DEF Right, Good
  <2>7. k_rows'[st][i] = {p + c.shift[i] : p \in k_rows[st][i]}
    BY <1>5, <2>1 DEF Shifted
  <2>8. c.pos[i] - c.shift[i] + c.shift[i] = c.pos[i] /\ d.pos[i] - d.shift[i] = c.pos[i]
    BY <2>2, <2>3, <2>5
  <2>9. k_rows'[st][i] = {c.pos[i]}
    BY <2>6, <2>7, <2>8
  <2>10. k_rows'[st][i] = {d.pos[i] - d.shift[i]}
    BY <2>8, <2>9
  <2> QED
    BY <1>2, <2>1, <2>10 DEF Good
<1> QED
  BY <1>4, <1>5 DEF UpdateShift

(* Placing micro-batch tokens leaves the pending shift of other cells.     *)
LEMMA PlaceShift ==
  ASSUME IInv, NEW sinfo, NEW ub \in UBatch, Places(sinfo, ub), Apply(sinfo, ub),
         NEW st \in Stream, NEW i \in Cell
  PROVE  /\ i \in DOMAIN sinfo[st] => v_cells'[st].shift[i] = 0
         /\ i \notin DOMAIN sinfo[st] /\ v_cells'[st].pos[i] # Empty
              => v_cells'[st].shift[i] = v_cells[st].shift[i]
<1>1. PICK c, d, slot, toks :
        c = v_cells[st] /\ d = v_cells'[st] /\ slot = sinfo[st] /\ toks = ub[st]
  OBVIOUS
<1>2. d = apply_ubatch(c, slot, toks)
  BY <1>1 DEF Apply
<1>3. toks \in Seq(Token)
  BY <1>1 DEF UBatch
<1>4. DOMAIN slot \in SUBSET Cell /\ \A j \in DOMAIN slot : toks[slot[j]] \in Token
  BY <1>1, <1>3, ElementOfSeq DEF Places
<1>5. Sound(c)
  BY <1>1, CellsOfStream
<1>6. LET e == apply_ubatch(c, slot, toks)
      IN  \A j \in Cell :
            /\ j \in DOMAIN slot => e.shift[j] = 0
            /\ j \notin DOMAIN slot /\ e.pos[j] # Empty => e.shift[j] = c.shift[j]
  BY <1>4, <1>5, ApplyShift
<1> QED
  BY <1>1, <1>2, <1>6

LEMMA PrepareSlotRight ==
  ASSUME NSwa = 0, Settled, Settled', Right, PrepareSlot
  PROVE  Right'
<1>1. Stacked /\ IInv
  BY DEF Settled, TryInv
<1>2. PICK n, sinfo : n = Len(sinfos) /\ sinfo = SlotsFor(ubatches[n + 1])
  OBVIOUS
<1>3. /\ n \in Nat /\ n + 1 \in 1 .. Len(ubatches)
      /\ ubatches[n + 1] \in UBatch /\ Places(sinfo, ubatches[n + 1])
      /\ Apply(sinfo, ubatches[n + 1])
  BY <1>1, <1>2, PrepareSlotFacts
<1>4. \A st \in Stream : \A i \in DOMAIN sinfo[st] : v_cells[st].pos[i] = Empty
  <2>1. \A st \in Stream : DOMAIN sinfo[st] \in SUBSET Usable(v_cells[st])
    BY <1>1, <1>2, <1>3, FoundFacts
  <2> QED
    BY <2>1, OnlyEmpty DEF Usable
<1>5. Same
  BY PrepareSlotSame
<1>6. RowsAfterCopies' = RowsAfterCopies
  BY RowsStay DEF PrepareSlot
<1>7. ASSUME NEW st \in Stream, NEW i \in Cell, Shows(st, i)
      PROVE  v_cells'[st].shift[i] = v_cells[st].shift[i]
  <2>1. v_cells'[st].pos[i] # Empty /\ i \notin DOMAIN sinfo[st]
    BY <1>4, <1>5, <1>7 DEF Same, Shows
  <2> QED
    BY <1>1, <1>3, <2>1, PlaceShift
<1> QED
  BY <1>5, <1>6, <1>7, SameRight

(* set() writes position and sequences back and leaves the shift.          *)
LEMMA RestoreSlotRight ==
  ASSUME Settled, Settled', PrepInv, Right, RestoreSlot
  PROVE  Right'
<1>1. Same
  BY RestoreSlotSame
<1>2. RowsAfterCopies' = RowsAfterCopies
  BY RowsStay DEF RestoreSlot
<1>3. ASSUME NEW st \in Stream
      PROVE  v_cells'[st].shift = v_cells[st].shift
  <2>1. PICK c, saved : c = v_cells[st] /\ saved = stack[Len(stack)].cells[st]
    OBVIOUS
  <2>2. v_cells'[st] = set(c, saved)
    BY <2>1 DEF RestoreSlot
  <2>3. c \in CellsType
    BY <2>1, CellsOfStream DEF Settled
  <2>4. set(c, saved).shift = c.shift
    BY <2>3 DEF set, CellsType
  <2> QED
    BY <2>1, <2>2, <2>4
<1> QED
  BY <1>1, <1>2, <1>3, SameRight

LEMMA ApplyUbatchRight ==
  ASSUME Settled, Settled', PrepInv, RowsInv, ApplyUbatch
  PROVE  Right' /\ Unshifted'
<1>1. PICK n, sinfo : n = i_cur /\ sinfo = sinfos[n]
  OBVIOUS
<1>2. /\ IInv /\ phase = "apply" /\ phase' = "compute"
      /\ i_cur' = n /\ sinfos' = sinfos /\ Apply(sinfo, ubatches[n])
  BY <1>1 DEF Settled, ApplyUbatch
<1>3. ubatches[n] \in UBatch /\ Places(sinfo, ubatches[n])
  BY <1>1, <1>2, CurrentSlot
<1>4. sc_info = <<>> /\ sc_info' = <<>>
  BY <1>2 DEF RowsInv, NoneQueued, ApplyUbatch
<1>5. RowsAfterCopies = k_rows /\ RowsAfterCopies' = k_rows'
  BY <1>4, RowsNow, RowsNowNext
<1>6. Same
  BY ApplyUbatchSame
<1>7. \A st \in Stream : Tentative(st)' = DOMAIN sinfo[st]
  <2> TAKE st \in Stream
  <2>1. Tentative(st)' = Slots(i_cur, st)'
    BY <1>2, TentativeFactsNext DEF TentativeIs, Stream
  <2>2. Slots(i_cur, st)' = DOMAIN sinfo[st]
    BY <1>1, <1>2 DEF Slots
  <2> QED
    BY <2>1, <2>2
<1>8. ASSUME NEW st \in Stream, NEW i \in Cell, Shows(st, i)
      PROVE  /\ v_cells'[st].shift[i] = v_cells[st].shift[i]
             /\ RowsAfterCopies'[st][i] = RowsAfterCopies[st][i]
  <2>1. v_cells'[st].pos[i] # Empty /\ i \notin DOMAIN sinfo[st]
    BY <1>6, <1>7, <1>8 DEF Same, Shows
  <2>2. v_cells'[st].shift[i] = v_cells[st].shift[i]
    BY <1>2, <1>3, <2>1, PlaceShift
  <2>3. k_rows'[st][i] = k_rows[st][i]
    BY <1>1, <2>1 DEF ApplyUbatch
  <2> QED
    BY <1>5, <2>2, <2>3
<1>9. Right'
  BY <1>6, <1>8, SameRight DEF RowsInv
<1>10. ASSUME NEW st \in Stream, NEW i \in DOMAIN sinfo[st]
       PROVE  v_cells'[st].shift[i] = 0
  <2>1. i \in Cell
    BY <1>3 DEF Places
  <2> QED
    BY <1>2, <1>3, <2>1, PlaceShift
<1>11. Unshifted'
  BY <1>1, <1>2, <1>10 DEF Unshifted, Slots, Stream
<1> QED
  BY <1>9, <1>11

(* The graph stores the rows of the tokens where they were placed.         *)
LEMMA ComputeOkRight ==
  ASSUME Settled, RunInv, RowsInv, ComputeOk
  PROVE  Right'
<1>1. /\ IInv /\ phase = "compute" /\ phase' # "compute" /\ stack = <<>> /\ stack' = <<>>
      /\ v_cells' = v_cells
  BY DEF Settled, ComputeOk, IInv, StackOK, Idle
<1>2. sc_info = <<>> /\ sc_info' = <<>>
  BY <1>1 DEF RowsInv, NoneQueued, ComputeOk
<1>3. RowsAfterCopies = k_rows /\ RowsAfterCopies' = k_rows'
  BY <1>2, RowsNow, RowsNowNext
<1> SUFFICES ASSUME NEW st \in Stream, NEW i \in Cell, Shows(st, i)'
             PROVE  Good(st, i)'
  BY DEF Right, Stream
<1>4. PICK c, slot, ub : c = v_cells[st] /\ slot = sinfos[i_cur][st] /\ ub = ubatches[i_cur][st]
  OBVIOUS
<1>5. c.pos[i] # Empty
  BY <1>1, <1>4 DEF Shows
<1>6. k_rows'[st][i] = IF i \in DOMAIN slot THEN {ub[slot[i]].pos} ELSE k_rows[st][i]
  BY <1>4 DEF ComputeOk
<1>7. Tentative(st) = DOMAIN slot
  BY <1>1, <1>4, TentativeFacts DEF TentativeIs, Slots
<1>8. k_rows'[st][i] = {c.pos[i] - c.shift[i]}
  <2>1. CASE i \in DOMAIN slot
    <3>1. c.pos[i] = ub[slot[i]].pos
      BY <1>1, <1>4, <2>1 DEF RunInv, Placed, Slots
    <3>2. c.shift[i] = 0
      BY <1>1, <1>4, <2>1 DEF RowsInv, Unshifted, Slots
    <3>3. c.pos[i] \in Int
      <4>1. c.pos[i] \in Pos \cup {Empty}
        BY <1>1, <1>4, CellsOfStream
      <4> QED
        BY <4>1, PosFacts
    <3>4. c.pos[i] - c.shift[i] = c.pos[i]
      BY <3>2, <3>3
    <3> QED
      BY <1>6, <2>1, <3>1, <3>4
  <2>2. CASE i \notin DOMAIN slot
    <3>1. Good(st, i)
      BY <1>4, <1>5, <1>7, <2>2 DEF RowsInv, Right, Shows
    <3> QED
      BY <1>3, <1>4, <1>6, <2>2, <3>1 DEF Good
  <2> QED
    BY <2>1, <2>2
<1> QED
  BY <1>1, <1>3, <1>4, <1>8 DEF Good

LEMMA ComputeFailRight ==
  ASSUME MaxSeqs = 1 \/ ~Unified, Settled, RunInv, Right, ComputeFail
  PROVE  Right'
<1>1. Same
  BY ComputeFailSame
<1>2. RowsAfterCopies' = RowsAfterCopies
  BY RowsStay DEF ComputeFail
<1>3. ASSUME NEW st \in Stream, NEW i \in Cell, Shows(st, i)
      PROVE  v_cells'[st].shift[i] = v_cells[st].shift[i]
  <2>1. PICK c, G, d : c = v_cells[st] /\ G = RollBack(st) /\ d = v_cells'[st]
    OBVIOUS
  <2>2. d = seq_rm(c, G)
    BY <2>1 DEF ComputeFail
  <2>3. d.pos[i] # Empty
    BY <1>1, <1>3, <2>1 DEF Same, Shows
  <2>4. Sound(c)
    BY <2>1, CellsOfStream DEF Settled
  <2>5. /\ seq_rm(c, G).shift[i] = IF i \in Freed(c, G) THEN 0 ELSE c.shift[i]
        /\ seq_rm(c, G).pos[i] = IF i \in Freed(c, G) THEN Empty ELSE c.pos[i]
    BY <2>4, SeqRmShift
  <2> QED
    BY <2>1, <2>2, <2>3, <2>5
<1> QED
  BY <1>1, <1>2, <1>3, SameRight

-----------------------------------------------------------------------------
LEMMA NextQueued ==
  ASSUME NoneQueued, [Next]_vars
  PROVE  NoneQueued'
<1>1. CASE MemoryOp
  <2>1. phase' = "idle"
    BY <1>1 DEF MemoryOp, clear, SeqRm, SeqRmAny, SeqCpSame, SeqCpCross, SeqKeep, SeqAdd, SeqDiv, callVars
  <2> QED
    BY <2>1 DEF NoneQueued
<1>2. CASE Begin \/ UpdateCopy
  <2>1. phase' = "update"
    BY <1>2 DEF Begin, DecodeBegin, UpdateCopy, callVars
  <2> QED
    BY <2>1 DEF NoneQueued
<1>3. CASE UpdateShift
  BY <1>3 DEF UpdateShift, NoneQueued
<1>4. CASE PrepareSlot \/ PrepareEnd \/ RestoreSlot \/ Prepared \/ Retry \/ ReturnNoSlot
  <2>1. sc_info' = sc_info /\ phase \in {"prepare", "restore"}
    BY <1>4 DEF PrepareSlot, PrepareEnd, RestoreSlot, Prepared, Retry, ReturnNoSlot, memVars
  <2> QED
    BY <2>1 DEF NoneQueued
<1>5. CASE ApplyUbatch \/ ComputeOk \/ ComputeFail
  <2>1. sc_info' = sc_info /\ phase \in {"apply", "compute"}
    BY <1>5 DEF ApplyUbatch, ComputeOk, ComputeFail
  <2> QED
    BY <2>1 DEF NoneQueued
<1>6. CASE UNCHANGED vars
  BY <1>6 DEF NoneQueued, vars, memVars, callVars
<1> QED
  BY <1>1, <1>2, <1>3, <1>4, <1>5, <1>6 DEF Next, DecodeStep

(* Only apply() enters "compute".                                          *)
LEMMA NextUnshifted ==
  ASSUME Unshifted, [Next]_vars, ~ApplyUbatch
  PROVE  Unshifted'
<1>1. CASE UNCHANGED vars
  BY <1>1 DEF Unshifted, Slots, Stream, vars, memVars, callVars
<1>2. CASE MemoryOp
  <2>1. phase' = "idle"
    BY <1>2 DEF MemoryOp, clear, SeqRm, SeqRmAny, SeqCpSame, SeqCpCross, SeqKeep, SeqAdd, SeqDiv, callVars
  <2> QED
    BY <2>1 DEF Unshifted
<1>3. CASE Begin \/ DecodeStep
  <2>1. phase' # "compute"
    BY <1>3 DEF Begin, DecodeBegin, DecodeStep, UpdateCopy, UpdateShift, PrepareSlot, PrepareEnd,
                RestoreSlot, Prepared, Retry, ReturnNoSlot, ComputeOk, ComputeFail, Idle, callVars
  <2> QED
    BY <2>1 DEF Unshifted
<1> QED
  BY <1>1, <1>2, <1>3 DEF Next

LEMMA StutterRight ==
  ASSUME Right, UNCHANGED vars
  PROVE  Right'
<1>1. UNCHANGED <<v_cells, k_rows, sc_info, phase, sinfos, stack, i_cur>>
  BY DEF vars, memVars, callVars
<1>2. \A st : Tentative(st)' = Tentative(st)
  BY <1>1 DEF Tentative
<1>3. Same
  BY <1>1, <1>2, StaySame
<1>4. RowsAfterCopies' = RowsAfterCopies
  BY <1>1, RowsStay
<1> QED
  BY <1>1, <1>3, <1>4, SameRight

LEMMA InitRows == Init => RowsInv
<1> SUFFICES ASSUME Init PROVE RowsInv
  OBVIOUS
<1>1. Right
  BY DEF Init, Right, Shows, reset
<1>2. NoneQueued /\ Unshifted
  BY DEF Init, NoneQueued, Unshifted
<1> QED
  BY <1>1, <1>2 DEF RowsInv

(* Where the code keeps rows and positions in step: no division, no        *)
(* K-shift aborted between two layers, and no failing graph for tokens of  *)
(* several sequences.                                                      *)
RowsKept ==
  /\ DivRanges = {} /\ "shift_abort" \notin Faults
  /\ MaxSeqs = 1 \/ ~Unified \/ "compute" \notin Faults

LEMMA NextRows ==
  ASSUME NSwa = 0, RowsKept, StoreInv, StoreInv', RowsInv, [Next]_vars
  PROVE  RowsInv'
<1>1. /\ Settled /\ Settled' /\ PrepInv /\ RunInv /\ IInv /\ IInv'
      /\ Right /\ NoneQueued /\ Unshifted
  BY DEF StoreInv, Settled, RowsInv
<1>2. NoneQueued'
  BY <1>1, NextQueued
<1>3. Unshifted'
  BY <1>1, NextUnshifted, ApplyUbatchRight
<1>4. Right'
  <2>1. CASE MemoryOp
    BY <1>1, <2>1, MemoryOpRight DEF RowsKept
  <2>2. CASE Begin \/ PrepareEnd \/ Prepared \/ Retry \/ ReturnNoSlot
    BY <1>1, <2>2, QuietRight
  <2>3. CASE UpdateCopy \/ UpdateShift
    BY <1>1, <2>3, UpdateCopyRight, UpdateShiftRight DEF RowsKept
  <2>4. CASE PrepareSlot \/ RestoreSlot
    BY <1>1, <2>4, PrepareSlotRight, RestoreSlotRight
  <2>5. CASE ApplyUbatch \/ ComputeOk
    BY <1>1, <2>5, ApplyUbatchRight, ComputeOkRight
  <2>6. CASE ComputeFail
    <3>1. MaxSeqs = 1 \/ ~Unified
      BY <2>6 DEF RowsKept, ComputeFail
    <3> QED
      BY <1>1, <2>6, <3>1, ComputeFailRight
  <2>7. CASE UNCHANGED vars
    BY <1>1, <2>7, StutterRight
  <2> QED
    BY <2>1, <2>2, <2>3, <2>4, <2>5, <2>6, <2>7 DEF Next, DecodeStep
<1> QED
  BY <1>2, <1>3, <1>4 DEF RowsInv

(* In every cell that is not being placed, the K row - after the queued    *)
(* stream copies and the pending shift - is rotated to the position that   *)
(* the attention mask uses for the cell: seq_add, the copies between       *)
(* streams, prepare's simulation, the rollback of a failed graph and a     *)
(* K-shift that is put off never leave the two apart.                      *)
THEOREM RowsAlwaysMatch ==
  ASSUME NSwa = 0, RowsKept
  PROVE  Spec => []RowsMatch
<1>1. Init => RowsInv
  BY InitRows
<1>2. StoreInv /\ StoreInv' /\ RowsInv /\ [Next]_vars => RowsInv'
  BY NextRows
<1>3. StoreInv /\ RowsInv => RowsMatch
  BY RightRows DEF StoreInv, Settled, RowsInv
<1> QED
  BY RunInvariance, <1>1, <1>2, <1>3, PTL DEF Spec
=============================================================================
