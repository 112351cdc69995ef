--------------------------- MODULE KvStateProofs ---------------------------
(***************************************************************************)
(* Saving and restoring, for every number of cells, sequences and streams: *)
(* whatever the application saves and restores between the other           *)
(* operations, the bookkeeping of the cells stays right; without a window, *)
(* the restored rows are those of the positions they are restored at, and  *)
(* a restored sequence, or memory, holds what was saved (SavedStore).      *)
(***************************************************************************)
EXTENDS KvState, KvStoreProofs

-----------------------------------------------------------------------------
(* state_write: the cells of a stream in their order.                      *)

Under(M, i) == {j \in M : j < i}

(* Nth(M, .) meets every cell of M once.                                   *)
InOrder(M) ==
  /\ \A k \in 1 .. Cardinality(M) : Nth(M, k) \in M
  /\ \A k, l \in 1 .. Cardinality(M) : Nth(M, k) = Nth(M, l) => k = l
  /\ \A i \in M : \E k \in 1 .. Cardinality(M) : Nth(M, k) = i

LEMMA NthInOrder ==
  ASSUME NEW M \in SUBSET Cell
  PROVE  InOrder(M)
<1> DEFINE n == Cardinality(M)
           r == [i \in M |-> Cardinality(Under(M, i)) + 1]
<1>1. IsFiniteSet(M) /\ n \in Nat
  BY CellFinite
<1>2. \A i \in M : Under(M, i) \in SUBSET M /\ IsFiniteSet(Under(M, i)) /\ Cardinality(Under(M, i)) \in Nat
  <2> SUFFICES ASSUME NEW i \in M
               PROVE  Under(M, i) \in SUBSET M /\ IsFiniteSet(Under(M, i)) /\ Cardinality(Under(M, i)) \in Nat
    OBVIOUS
  <2>1. Under(M, i) \in SUBSET M
    BY DEF Under
  <2>2. Under(M, i) \in SUBSET Cell
    BY <2>1
  <2> QED
    BY <2>1, <2>2, CellFinite
<1>3. \A i \in M : i \in Int
  BY SizeAssumption DEF Cell
<1>4. ASSUME NEW i \in M
      PROVE  r[i] \in 1 .. n
  <2>1. Under(M, i) \in SUBSET (M \ {i})
    BY <1>3 DEF Under
  <2>2. IsFiniteSet(M \ {i}) /\ Cardinality(M \ {i}) = n - 1
    BY <1>1, FS_RemoveElement
  <2>3. Cardinality(Under(M, i)) <= n - 1
    BY <2>1, <2>2, FS_Subset
  <2>4. r[i] = Cardinality(Under(M, i)) + 1 /\ Cardinality(Under(M, i)) \in Nat
    BY <1>2
  <2> QED
    BY <1>1, <2>3, <2>4
<1>5. ASSUME NEW i \in M, NEW j \in M, i < j
      PROVE  r[i] < r[j]
  <2>1. i \in Under(M, j) /\ Under(M, i) \in SUBSET (Under(M, j) \ {i})
    BY <1>3, <1>5 DEF Under
  <2>2. IsFiniteSet(Under(M, j) \ {i}) /\ Cardinality(Under(M, j) \ {i}) = Cardinality(Under(M, j)) - 1
    BY <1>2, <2>1, FS_RemoveElement
  <2>3. Cardinality(Under(M, i)) <= Cardinality(Under(M, j)) - 1
    BY <2>1, <2>2, FS_Subset
  <2>4. /\ r[i] = Cardinality(Under(M, i)) + 1 /\ Cardinality(Under(M, i)) \in Nat
        /\ r[j] = Cardinality(Under(M, j)) + 1 /\ Cardinality(Under(M, j)) \in Nat
    BY <1>2
  <2> QED
    BY <2>3, <2>4
<1>6. r = [i \in M |-> r[i]]
  OBVIOUS
<1>7. \A i \in M : \A k \in 1 .. n : Cardinality(Under(M, i)) = k - 1 <=> r[i] = k
  BY <1>2
<1> HIDE DEF r
<1>8. ASSUME NEW i \in M, NEW j \in M, r[i] = r[j]
      PROVE  i = j
  <2>1. r[i] \in Int
    BY <1>1, <1>4
  <2>2. ~(i < j) /\ ~(j < i)
    BY <1>5, <1>8, <2>1
  <2> QED
    BY <1>3, <2>2
<1>9. r \in Injection(M, 1 .. n)
  BY <1>4, <1>6, <1>8 DEF Injection, IsInjective
<1>10. IsFiniteSet(1 .. n) /\ Cardinality(1 .. n) = n
  BY <1>1, FS_Interval
<1>11. \A k \in 1 .. n : \E i \in M : r[i] = k
  <2>1. r \in Surjection(M, 1 .. n)
    BY <1>1, <1>9, <1>10, FS_Injection
  <2> QED
    BY <2>1 DEF Surjection
<1>12. ASSUME NEW k \in 1 .. n
       PROVE  Nth(M, k) \in M /\ r[Nth(M, k)] = k
  <2>1. \E i \in M : Cardinality({j \in M : j < i}) = k - 1
    BY <1>7, <1>11 DEF Under
  <2>2. Nth(M, k) \in M /\ Cardinality({j \in M : j < Nth(M, k)}) = k - 1
    BY <2>1, Zenon DEF Nth
  <2> QED
    BY <1>7, <2>2 DEF Under
<1>13. \A i \in M : \E k \in 1 .. n : Nth(M, k) = i
  BY <1>4, <1>8, <1>12
<1>14. \A k, l \in 1 .. n : Nth(M, k) = Nth(M, l) => k = l
  BY <1>12
<1> QED
  BY <1>12, <1>13, <1>14 DEF InOrder

(* As many of the numbers lead to a cell of B as B has cells.              *)
LEMMA NthCount ==
  ASSUME NEW M \in SUBSET Cell, NEW B \in SUBSET M
  PROVE  Cardinality({k \in 1 .. Cardinality(M) : Nth(M, k) \in B}) = Cardinality(B)
<1> DEFINE n == Cardinality(M)
           K == {k \in 1 .. n : Nth(M, k) \in B}
           f == [k \in K |-> Nth(M, k)]
<1>1. /\ \A k, l \in 1 .. n : Nth(M, k) = Nth(M, l) => k = l
      /\ \A i \in M : \E k \in 1 .. n : Nth(M, k) = i
  BY NthInOrder DEF InOrder
<1>2. f \in [K -> B] /\ \A k, l \in K : f[k] = f[l] => k = l
  BY <1>1
<1>3. \A i \in B : \E k \in K : f[k] = i
  <2> SUFFICES ASSUME NEW i \in B PROVE \E k \in K : f[k] = i
    OBVIOUS
  <2>1. PICK k \in 1 .. n : Nth(M, k) = i
    BY <1>1
  <2> QED
    BY <2>1
<1> HIDE DEF f
<1>4. ExistsBijection(K, B)
  <2>1. f \in Bijection(K, B)
    BY <1>2, <1>3 DEF Bijection, Injection, Surjection, IsInjective
  <2> QED
    BY <2>1 DEF ExistsBijection
<1>5. IsFiniteSet(K)
  <2>1. IsFiniteSet(1 .. n)
    BY CellFinite, FS_Interval
  <2> QED
    BY <2>1, FS_Subset
<1>6. Cardinality(K) = Cardinality(B)
  BY <1>4, <1>5, FS_Bijection
<1> QED
  BY <1>6

(* The cells of a stream as they are in the buffer.                        *)
Item == [pos : Pos, seq : (SUBSET SeqId) \ {{}}, rows : SUBSET Int]
ItemOf(st, i, S) ==
  [pos |-> v_cells[st].pos[i], seq |-> v_cells[st].seq[i] \cap S, rows |-> k_rows[st][i]]

(* A list of items for the cells M, one each.                              *)
Lists(list, st, M, S) ==
  /\ list \in Seq(Item) /\ Len(list) = Cardinality(M) /\ Len(list) <= Size
  /\ DOMAIN list = 1 .. Cardinality(M)
  /\ \A k \in 1 .. Cardinality(M) : list[k] = ItemOf(st, Nth(M, k), S)

LEMMA WrittenLists ==
  ASSUME IInv, NEW st \in Stream, NEW M \in SUBSET Cell, NEW S,
         \A i \in M : v_cells[st].seq[i] \cap S # {}
  PROVE  Lists(Written(st, M, S), st, M, S)
<1> DEFINE n == Cardinality(M)
           list == [k \in 1 .. n |-> ItemOf(st, Nth(M, k), S)]
<1>1. Written(st, M, S) = list
  BY DEF Written, ItemOf
<1>2. \A i \in M : ItemOf(st, i, S) \in Item
  <2> SUFFICES ASSUME NEW i \in M PROVE ItemOf(st, i, S) \in Item
    OBVIOUS
  <2>1. /\ v_cells[st].pos[i] \in Pos \cup {Empty} /\ v_cells[st].seq[i] \in SUBSET SeqId
        /\ v_cells[st].pos[i] = Empty <=> v_cells[st].seq[i] = {}
    BY CellsOfStream
  <2>2. k_rows[st][i] \in SUBSET Int
    BY DEF IInv, RowsOK
  <2>3. v_cells[st].pos[i] \in Pos /\ v_cells[st].seq[i] \cap S \in (SUBSET SeqId) \ {{}}
    BY <2>1
  <2> QED
    BY <2>2, <2>3 DEF ItemOf, Item
<1>3. \A k \in 1 .. n : Nth(M, k) \in M
  BY NthInOrder DEF InOrder
<1>4. n \in Nat /\ n <= Size
  <2>1. IsFiniteSet(Cell) /\ Cardinality(Cell) = Size
    BY FS_Interval, SizeAssumption DEF Cell
  <2> QED
    BY <2>1, CellFinite, FS_Subset
<1>5. list \in [1 .. n -> Item]
  BY <1>2, <1>3
<1>6. list \in Seq(Item) /\ Len(list) = n
  <2> HIDE DEF list
  <2> QED
    BY <1>4, <1>5, AsSeq
<1>7. DOMAIN list = 1 .. n /\ \A k \in 1 .. n : list[k] = ItemOf(st, Nth(M, k), S)
  OBVIOUS
<1> HIDE DEF list
<1> QED
  BY <1>1, <1>4, <1>6, <1>7 DEF Lists

(* The buffer: what fits into the cells of a stream.                       *)
SavedOK ==
  /\ saved = [kind |-> saved.kind, cells |-> saved.cells] /\ saved.kind \in {"seq", "all"}
  /\ saved.cells = [st \in Stream |-> saved.cells[st]]
  /\ \A st \in Stream : saved.cells[st] \in Seq(Item) /\ Len(saved.cells[st]) <= Size

StateOK == IInv /\ SavedOK

LEMMA InitState == StateInit => StateOK
<1> SUFFICES ASSUME StateInit PROVE StateOK
  OBVIOUS
<1>1. IInv
  BY InitIInv DEF StateInit
<1>2. \A st \in Stream : saved.cells[st] = <<>>
  BY DEF StateInit, None
<1>3. SavedOK
  <2>1. <<>> \in Seq(Item) /\ Len(<<>>) <= Size
    BY EmptySeq, SizeAssumption
  <2>2. saved = [kind |-> "seq", cells |-> [st \in Stream |-> <<>>]]
    BY DEF StateInit, None
  <2>3. saved.kind = "seq" /\ saved.cells = [st \in Stream |-> <<>>]
    BY <2>2
  <2> QED
    BY <1>2, <2>1, <2>2, <2>3 DEF SavedOK
<1> QED
  BY <1>1, <1>3 DEF StateOK

LEMMA StreamNext == Stream' = Stream
BY DEF Stream

LEMMA WriteOK ==
  ASSUME NEW kind \in {"seq", "all"}, NEW L, saved' = [kind |-> kind, cells |-> L],
         L = [st \in Stream |-> L[st]],
         \A st \in Stream : L[st] \in Seq(Item) /\ Len(L[st]) <= Size
  PROVE  SavedOK'
<1>1. saved'.kind = kind /\ saved'.cells = L
  OBVIOUS
<1>2. /\ saved' = [kind |-> saved'.kind, cells |-> saved'.cells] /\ saved'.kind \in {"seq", "all"}
      /\ saved'.cells = [st \in Stream |-> saved'.cells[st]]
      /\ \A st \in Stream : saved'.cells[st] \in Seq(Item) /\ Len(saved'.cells[st]) <= Size
  BY <1>1
<1> QED
  BY <1>2, StreamNext, Zenon DEF SavedOK, Item

(* What the two ways to save write.                                        *)
LEMMA WriteSeqLists ==
  ASSUME IInv, NEW s \in SeqId, NEW st \in Stream
  PROVE  /\ Has(v_cells[st], s) \in SUBSET Cell
         /\ Lists(Written(st, Has(v_cells[st], s), {s}), st, Has(v_cells[st], s), {s})
<1>1. Has(v_cells[st], s) \in SUBSET Cell /\ \A i \in Has(v_cells[st], s) : v_cells[st].seq[i] \cap {s} # {}
  BY DEF Has
<1> QED
  BY <1>1, WrittenLists

LEMMA WriteAllLists ==
  ASSUME IInv, NEW st \in Stream
  PROVE  /\ v_cells[st].used \in SUBSET Cell
         /\ Lists(Written(st, v_cells[st].used, SeqId), st, v_cells[st].used, SeqId)
<1>1. v_cells[st].used = {i \in Cell : v_cells[st].pos[i] # Empty}
  BY CellsOfStream DEF Sound, Consistent
<1>2. \A i \in Cell : v_cells[st].pos[i] # Empty => v_cells[st].seq[i] \cap SeqId # {}
  BY CellsOfStream
<1>3. v_cells[st].used \in SUBSET Cell /\ \A i \in v_cells[st].used : v_cells[st].seq[i] \cap SeqId # {}
  BY <1>1, <1>2
<1> QED
  BY <1>3, WrittenLists

LEMMA StateWriteSeqOK ==
  ASSUME StateOK, NEW s \in SeqId, StateWriteSeq(s)
  PROVE  SavedOK'
<1> DEFINE L == [st \in Stream |-> Written(st, Has(v_cells[st], s), {s})]
<1>1. saved' = [kind |-> "seq", cells |-> L]
  BY DEF StateWriteSeq
<1>2. \A st \in Stream : L[st] \in Seq(Item) /\ Len(L[st]) <= Size
  BY WriteSeqLists DEF StateOK, Lists
<1>3. L = [st \in Stream |-> L[st]]
  OBVIOUS
<1> HIDE DEF L
<1> QED
  BY <1>1, <1>2, <1>3, WriteOK

LEMMA StateWriteAllOK ==
  ASSUME StateOK, StateWriteAll
  PROVE  SavedOK'
<1> DEFINE L == [st \in Stream |-> Written(st, v_cells[st].used, SeqId)]
<1>1. saved' = [kind |-> "all", cells |-> L]
  BY DEF StateWriteAll
<1>2. \A st \in Stream : L[st] \in Seq(Item) /\ Len(L[st]) <= Size
  BY WriteAllLists DEF StateOK, Lists
<1>3. L = [st \in Stream |-> L[st]]
  OBVIOUS
<1> HIDE DEF L
<1> QED
  BY <1>1, <1>2, <1>3, WriteOK

-----------------------------------------------------------------------------
(* state_read: the bookkeeping of the cells stays right.                   *)

LEMMA UsedFacts ==
  ASSUME SavedOK, Used # {}
  PROVE  /\ Used \in SUBSET Stream /\ Least(Used) \in Used /\ Most(Used) \in Used
         /\ \A st \in Used : saved.cells[st] \in Seq(Item) /\ Len(saved.cells[st]) \in 1 .. Size
<1>1. Used \in SUBSET Stream /\ Used \in SUBSET Nat /\ Used \in SUBSET Int
  BY NSeqMaxAssumption DEF Used, Stream, SeqId
<1>2. Least(Used) \in Used
  BY <1>1, LeastNat
<1>3. Most(Used) \in Used
  <2>1. \A x \in Used : x <= NSeqMax
    BY NSeqMaxAssumption DEF Used, Stream, SeqId
  <2>2. \E x \in Used : \A y \in Used : x >= y
    <3>1. NSeqMax \in Int
      BY NSeqMaxAssumption
    <3> QED
      BY <1>1, <2>1, <3>1, GreatestInt
  <2> QED
    BY <2>2, Zenon DEF Most
<1>4. ASSUME NEW st \in Used
      PROVE  saved.cells[st] \in Seq(Item) /\ Len(saved.cells[st]) \in 1 .. Size
  <2>1. saved.cells[st] \in Seq(Item) /\ Len(saved.cells[st]) <= Size /\ saved.cells[st] # <<>>
    BY <1>1, <1>4 DEF SavedOK, Used
  <2>2. Len(saved.cells[st]) \in Nat /\ Len(saved.cells[st]) # 0
    BY <2>1, EmptySeq
  <2> QED
    BY <2>1, <2>2, SizeAssumption
<1> QED
  BY <1>1, <1>2, <1>3, <1>4

LEMMA ItemsOf ==
  ASSUME NEW list \in Seq(Item), NEW k \in 1 .. Len(list)
  PROVE  /\ list[k] \in Item /\ list[k].pos \in Pos /\ list[k].seq \in (SUBSET SeqId) \ {{}}
         /\ list[k].rows \in SUBSET Int /\ DOMAIN list = 1 .. Len(list)
<1>1. list[k] \in Item /\ DOMAIN list = 1 .. Len(list)
  OBVIOUS
<1> QED
  BY <1>1 DEF Item

(* What state_read of sequence s works with.                               *)
List == saved.cells[Least(Used)]
ToClear(s) == Selected(v_cells[seq_to_stream(s)], s, <<-1, -1>>)
ReadCells(s) == Cleared(seq_to_stream(s), s)
ReadHead(s) == LowerHead(v_heads[seq_to_stream(s)], Freed(v_cells[seq_to_stream(s)], ToClear(s)))
ReadSlot(s) == find_slot(ReadCells(s), ReadHead(s), Len(List))
ReadToks(s) == [k \in DOMAIN List |-> [pos |-> List[k].pos, seqs |-> {s}]]

ReadPlaces(s) ==
  /\ Cardinality(DOMAIN ReadSlot(s)) = Len(List)
  /\ OnStream(seq_to_stream(s), apply_ubatch(ReadCells(s), ReadSlot(s), ReadToks(s)))
  /\ v_heads' = [v_heads EXCEPT ![seq_to_stream(s)] = HeadAfter(ReadHead(s), ReadSlot(s))]
  /\ k_rows' = [k_rows EXCEPT ![seq_to_stream(s)] =
                  RowsAt(k_rows[seq_to_stream(s)], ReadSlot(s), List)]

ReadFails(s) ==
  /\ Cardinality(DOMAIN ReadSlot(s)) < Len(List)
  /\ OnStream(seq_to_stream(s), ReadCells(s))
  /\ v_heads' = [v_heads EXCEPT ![seq_to_stream(s)] = ReadHead(s)]
  /\ UNCHANGED k_rows

LEMMA ReadSplit ==
  ASSUME IInv, NEW s \in SeqId, StateReadSeq(s)
  PROVE  /\ phase = "idle" /\ Quiet /\ saved.kind = "seq" /\ Used # {}
         /\ UNCHANGED <<sc_info, callVars, saved>>
         /\ ReadPlaces(s) \/ ReadFails(s)
BY DEF StateReadSeq, ReadPlaces, ReadFails, List, ToClear, ReadCells, ReadHead, ReadSlot, ReadToks

LEMMA ReadFacts ==
  ASSUME StateOK, NEW s \in SeqId, Used # {}
  PROVE  /\ List \in Seq(Item) /\ Len(List) \in 1 .. Size /\ DOMAIN List = 1 .. Len(List)
         /\ \A i \in Cell : ToClear(s)[i] \in SUBSET v_cells[seq_to_stream(s)].seq[i]
         /\ Sound(ReadCells(s)) /\ ReadHead(s) \in HeadRange /\ ReadSlot(s) \in SlotMap
         /\ DOMAIN ReadSlot(s) \in SUBSET Cell
         /\ \A i \in DOMAIN ReadSlot(s) : ReadSlot(s)[i] \in 1 .. Len(List)
         /\ \A i \in DOMAIN ReadSlot(s) : ReadToks(s)[ReadSlot(s)[i]] \in Token
         /\ \A k \in 1 .. Len(List) : ReadToks(s)[k] = [pos |-> List[k].pos, seqs |-> {s}]
<1> DEFINE st == seq_to_stream(s)
           c == v_cells[st]
           G == ToClear(s)
<1>1. st \in Stream /\ Sound(c) /\ v_heads[st] \in HeadRange
  BY StreamFacts DEF StateOK, IInv, CellsOK, HeadsOK
<1>2. List \in Seq(Item) /\ Len(List) \in 1 .. Size /\ DOMAIN List = 1 .. Len(List)
  BY UsedFacts DEF StateOK, List
<1>3. \A i \in Cell : G[i] \in SUBSET c.seq[i]
  BY DEF ToClear, Selected
<1>4. Sound(ReadCells(s))
  <2>1. ReadCells(s) = seq_rm(c, G)
    BY DEF ReadCells, Cleared, ToClear
  <2> HIDE DEF c, G
  <2> QED
    BY <1>1, <1>3, <2>1, SeqRmSound
<1>5. ReadHead(s) \in HeadRange
  <2>1. Freed(c, G) \in SUBSET Cell
    BY DEF Freed
  <2> QED
    BY <1>1, <2>1, LowerHeadType DEF ReadHead
<1>6. Len(List) \in Nat
  BY <1>2
<1>7. /\ ReadSlot(s) \in SlotMap /\ DOMAIN ReadSlot(s) \in SUBSET Cell
      /\ \A i \in DOMAIN ReadSlot(s) : ReadSlot(s)[i] \in 1 .. Len(List)
  BY <1>6, FindSlotFacts DEF ReadSlot
<1>8. \A k \in 1 .. Len(List) : ReadToks(s)[k] = [pos |-> List[k].pos, seqs |-> {s}]
  BY <1>2 DEF ReadToks
<1>9. \A k \in 1 .. Len(List) : ReadToks(s)[k] \in Token
  <2> SUFFICES ASSUME NEW k \in 1 .. Len(List) PROVE ReadToks(s)[k] \in Token
    OBVIOUS
  <2>1. List[k].pos \in Pos
    BY <1>2, ItemsOf
  <2> QED
    <3>1. ReadToks(s)[k] = [pos |-> List[k].pos, seqs |-> {s}]
      BY <1>8
    <3>2. {s} \in (SUBSET SeqId) \ {{}}
      OBVIOUS
    <3> QED
      BY <2>1, <3>1, <3>2, SMT DEF Token
<1> HIDE DEF st, c, G
<1> QED
  BY <1>2, <1>3, <1>4, <1>5, <1>7, <1>8, <1>9 DEF st, c, G

LEMMA StateReadSeqIInv ==
  ASSUME StateOK, NEW s \in SeqId, StateReadSeq(s)
  PROVE  IInv'
<1> DEFINE st == seq_to_stream(s)
<1>1. /\ phase = "idle" /\ UNCHANGED callVars /\ UNCHANGED sc_info /\ Used # {}
      /\ ReadPlaces(s) \/ ReadFails(s)
  BY ReadSplit DEF StateOK
<1>2. /\ st \in Stream /\ IInv /\ CellsOK /\ HeadsOK /\ RowsOK
  BY StreamFacts DEF StateOK, IInv
<1>3. CASE ReadPlaces(s)
  <2>1. Sound(apply_ubatch(ReadCells(s), ReadSlot(s), ReadToks(s)))
    BY <1>1, ReadFacts, ApplyUbatchSound
  <2>2. CellsOK'
    BY <1>2, <1>3, <2>1, OnStreamOK DEF ReadPlaces
  <2>3. Len(List) \in Nat
    BY <1>1, ReadFacts
  <2>4. HeadAfter(ReadHead(s), ReadSlot(s)) \in HeadRange
    BY <1>1, <2>3, ReadFacts, HeadAfterType
  <2>5. HeadsOK'
    BY <1>2, <1>3, <2>4, SetHeadOK DEF ReadPlaces
  <2>6. RowsAt(k_rows[st], ReadSlot(s), List) \in [Cell -> SUBSET Int]
    <3>1. ASSUME NEW i \in DOMAIN ReadSlot(s)
          PROVE  List[ReadSlot(s)[i]].rows \in SUBSET Int
      <4>1. List \in Seq(Item) /\ ReadSlot(s)[i] \in 1 .. Len(List)
        BY <1>1, ReadFacts
      <4> QED
        BY <4>1, ItemsOf
    <3>2. \A i \in Cell : k_rows[st][i] \in SUBSET Int
      BY <1>2 DEF RowsOK
    <3> QED
      BY <3>1, <3>2 DEF RowsAt
  <2>7. RowsOK'
    <3>1. k_rows' = [k_rows EXCEPT ![st] = RowsAt(k_rows[st], ReadSlot(s), List)]
      BY <1>3 DEF ReadPlaces
    <3> HIDE DEF st
    <3> QED
      BY <1>1, <1>2, <2>6, <3>1 DEF RowsOK
  <2> QED
    BY <1>1, <1>2, <2>2, <2>5, <2>7, IdleKeeps
<1>4. CASE ReadFails(s)
  <2>1. CellsOK'
    BY <1>1, <1>2, <1>4, ReadFacts, OnStreamOK DEF ReadFails
  <2>2. HeadsOK'
    BY <1>1, <1>2, <1>4, ReadFacts, SetHeadOK DEF ReadFails
  <2>3. RowsOK'
    BY <1>1, <1>2, <1>4 DEF RowsOK, ReadFails
  <2> QED
    BY <1>1, <1>2, <2>1, <2>2, <2>3, IdleKeeps
<1> QED
  BY <1>1, <1>3, <1>4

(* What state_read of a whole cache leaves.                                *)
AllList == saved.cells[Most(Used)]
Front(n) == 0 .. n - 1

LEMMA AllFacts ==
  ASSUME StateOK, Used # {}
  PROVE  /\ Most(Used) \in Stream /\ AllList \in Seq(Item) /\ Len(AllList) \in 1 .. Size
         /\ Front(Len(AllList)) \in SUBSET Cell
         /\ \A i \in Front(Len(AllList)) :
              /\ i + 1 \in 1 .. Len(AllList) /\ AllList[i + 1].pos \in Pos
              /\ AllList[i + 1].seq \in (SUBSET SeqId) \ {{}} /\ AllList[i + 1].rows \in SUBSET Int
         /\ Sound(Filled(Most(Used), AllList))
         /\ \A i \in Cell : Filled(Most(Used), AllList).shift[i] = 0
<1> DEFINE n == Len(AllList)
           P == [i \in Front(n) |-> AllList[i + 1].pos]
           S == [i \in Front(n) |-> AllList[i + 1].seq]
<1>1. Most(Used) \in Stream /\ AllList \in Seq(Item) /\ n \in 1 .. Size
  BY UsedFacts DEF StateOK, AllList
<1>2. Front(n) \in SUBSET Cell
  BY <1>1, SizeAssumption DEF Front, Cell
<1>3. ASSUME NEW i \in Front(n)
      PROVE  /\ i + 1 \in 1 .. n /\ AllList[i + 1].pos \in Pos
             /\ AllList[i + 1].seq \in (SUBSET SeqId) \ {{}} /\ AllList[i + 1].rows \in SUBSET Int
  <2>1. i + 1 \in 1 .. n
    BY <1>1, <1>3 DEF Front
  <2> QED
    BY <1>1, <2>1, ItemsOf
<1>4. Filled(Most(Used), AllList) = pos_set(reset, Front(n), P, S)
  BY <1>1 DEF Filled, ClearedAll, Front
<1>5. \A i \in Front(n) : P[i] \in Pos /\ S[i] \in SUBSET SeqId /\ S[i] # {}
  BY <1>3
<1>6. \A i \in Front(n) : reset.pos[i] = Empty
  BY <1>2 DEF reset
<1>7. \A i \in Cell : reset.shift[i] = 0
  BY DEF reset
<1> HIDE DEF P, S
<1>8. Sound(pos_set(reset, Front(n), P, S)) /\ \A i \in Cell : pos_set(reset, Front(n), P, S).shift[i] = 0
  BY <1>2, <1>5, <1>6, <1>7, ResetSound, PosSetSound
<1> QED
  BY <1>1, <1>2, <1>3, <1>4, <1>8

LEMMA StateReadAllIInv ==
  ASSUME StateOK, StateReadAll
  PROVE  IInv'
<1> DEFINE last == Most(Used)
<1>1. /\ phase = "idle" /\ UNCHANGED callVars /\ UNCHANGED sc_info /\ Used # {}
      /\ v_cells' = [ClearedAll EXCEPT ![last] = Filled(last, AllList)]
      /\ k_rows' = [st \in Stream |-> [i \in Cell |->
                       IF st = last /\ i < Len(AllList) THEN AllList[i + 1].rows ELSE {}]]
      /\ v_heads' = [st \in Stream |-> 0]
  BY DEF StateReadAll, AllList
<1>2. IInv /\ CellsOK /\ HeadsOK /\ RowsOK /\ last \in Stream /\ Sound(Filled(last, AllList))
  BY <1>1, AllFacts DEF StateOK, IInv
<1>3. CellsOK'
  <2>1. \A st \in Stream : v_cells'[st] = IF st = last THEN Filled(last, AllList) ELSE reset
    BY <1>1, <1>2 DEF ClearedAll
  <2>2. v_cells' = [st \in Stream |-> v_cells'[st]]
    BY <1>1 DEF ClearedAll
  <2>3. \A st \in Stream : Sound(v_cells'[st])
    BY <1>2, <2>1, ResetSound
  <2>4. \A st \in Stream : Sound(v_cells[st])' /\ v_cells'[st] \in CellsType
    BY <2>3 DEF Sound, Consistent, CellsType, CellsAt
  <2> QED
    BY <2>2, <2>4, StreamNext DEF CellsOK, CellsType
<1>4. HeadsOK'
  BY <1>1, SizeAssumption DEF HeadsOK, HeadRange, Stream
<1>5. RowsOK'
  <2>1. \A i \in Cell : i < Len(AllList) => AllList[i + 1].rows \in SUBSET Int
    <3> SUFFICES ASSUME NEW i \in Cell, i < Len(AllList) PROVE AllList[i + 1].rows \in SUBSET Int
      OBVIOUS
    <3>1. Len(AllList) \in 1 .. Size
      BY <1>1, AllFacts
    <3>2. i \in Front(Len(AllList))
      BY <3>1, SizeAssumption DEF Front, Cell
    <3> QED
      BY <1>1, <3>2, AllFacts
  <2>2. k_rows' \in [Stream -> [Cell -> SUBSET Int]]
    BY <1>1, <2>1
  <2> QED
    BY <1>1, <1>2, <2>2, StreamNext DEF RowsOK, Cell
<1> QED
  BY <1>1, <1>2, <1>3, <1>4, <1>5, IdleKeeps

LEMMA KeptSaved ==
  ASSUME SavedOK, UNCHANGED saved
  PROVE  SavedOK'
BY StreamNext, Zenon DEF SavedOK, Item

LEMMA WritesNothing ==
  ASSUME StateWriteAll \/ \E s \in SeqId : StateWriteSeq(s)
  PROVE  phase = "idle" /\ Quiet /\ UNCHANGED vars
BY DEF StateWriteAll, StateWriteSeq

LEMMA StateNextOK == StateOK /\ [StateNext]_<<vars, saved>> => StateOK'
<1> SUFFICES ASSUME StateOK, [StateNext]_<<vars, saved>>
             PROVE  StateOK'
  OBVIOUS
<1>1. IInv /\ SavedOK
  BY DEF StateOK
<1>2. ASSUME [Next]_vars /\ UNCHANGED saved
      PROVE  StateOK'
  <2>1. IInv'
    BY <1>1, <1>2, MemoryOpIInv, BeginIInv, DecodeStepIInv, StutterIInv DEF Next
  <2> QED
    BY <1>1, <1>2, <2>1, KeptSaved DEF StateOK
<1>3. CASE StateWriteAll \/ \E s \in SeqId : StateWriteSeq(s)
  <2>1. SavedOK'
    BY <1>3, StateWriteAllOK, StateWriteSeqOK
  <2>2. IInv'
    BY <1>1, <1>3, WritesNothing, StutterIInv
  <2> QED
    BY <2>1, <2>2 DEF StateOK
<1>4. CASE StateReadAll
  <2>1. UNCHANGED saved
    BY <1>4 DEF StateReadAll
  <2> QED
    BY <1>1, <1>4, <2>1, KeptSaved, StateReadAllIInv DEF StateOK
<1>5. CASE \E s \in SeqId : StateReadSeq(s)
  <2>1. PICK s \in SeqId : StateReadSeq(s)
    BY <1>5
  <2>2. UNCHANGED saved
    BY <2>1, <1>1, ReadSplit
  <2> QED
    BY <1>1, <2>1, <2>2, KeptSaved, StateReadSeqIInv DEF StateOK
<1> QED
  BY <1>2, <1>3, <1>4, <1>5 DEF StateNext, Next

(* Whatever is saved and restored when, the cache's own invariant holds,   *)
(* and the buffer holds as many items as a stream has cells, with          *)
(* positions and at least one sequence each (state_write, state_read).     *)
THEOREM StateInvariance == StateSpec => []StateOK
<1> QED
  BY InitState, StateNextOK, PTL DEF StateSpec

(* The bookkeeping of every stream agrees with its cells whatever is saved *)
(* and restored when, into whatever room there is, by an application that  *)
(* saves before pending shifts are applied as well.                        *)
THEOREM CellsConsistentSaved == StateSpec => []CellsConsistent
<1>1. StateOK => CellsConsistent
  BY DEF StateOK, IInv, CellsOK, Sound, CellsConsistent
<1> QED
  BY <1>1, StateInvariance, PTL

-----------------------------------------------------------------------------
(* Without a window, saving and restoring disturb nothing that a later     *)
(* decode relies on.                                                       *)

LEMMA BetweenCalls ==
  ASSUME IInv, TryInv, phase = "idle", UNCHANGED callVars
  PROVE  TryInv' /\ PrepInv' /\ RunInv'
<1>1. sinfos' = <<>> /\ stack' = <<>> /\ phase' = "idle"
  BY DEF IInv, CallOK, StackOK, callVars
<1>2. ~Trying' /\ Lens' /\ FirstTry'
  BY <1>1 DEF Trying, TryInv, Lens, FirstTry, callVars, Stream
<1> QED
  BY <1>1, <1>2, QuietTry, NothingTried, NothingRuns

Saving == StateWriteAll \/ \E s \in SeqId : StateWriteSeq(s)
Restoring == StateReadAll \/ \E s \in SeqId : StateReadSeq(s)

LEMMA StateSteps ==
  ASSUME [StateNext]_<<vars, saved>>
  PROVE  \/ [Next]_vars /\ UNCHANGED saved
         \/ Saving /\ phase = "idle" /\ Quiet /\ UNCHANGED vars
         \/ Restoring /\ phase = "idle" /\ Quiet /\ UNCHANGED <<sc_info, callVars, saved>>
<1>1. Saving => phase = "idle" /\ Quiet /\ UNCHANGED vars
  BY WritesNothing DEF Saving
<1>2. Restoring => phase = "idle" /\ Quiet /\ UNCHANGED <<sc_info, callVars, saved>>
  BY DEF Restoring, StateReadAll, StateReadSeq
<1> QED
  BY <1>1, <1>2 DEF StateNext, Next, Saving, Restoring

SavingInv == StoreInv /\ SavedOK

LEMMA SavingFacts == SavingInv => StateOK /\ IInv /\ TryInv /\ PrepInv /\ RunInv /\ Settled
BY DEF SavingInv, StoreInv, Settled, StateOK

LEMMA NextSaving ==
  ASSUME NSwa = 0, SavingInv, [StateNext]_<<vars, saved>>
  PROVE  SavingInv'
<1>1. StateOK' /\ IInv' /\ SavedOK'
  BY SavingFacts, StateNextOK DEF StateOK
<1>2. TryInv' /\ PrepInv' /\ RunInv'
  <2>1. CASE [Next]_vars /\ UNCHANGED saved
    <3>1. TryInv'
      BY <1>1, <2>1, SavingFacts, NextTry
    <3>2. PrepInv'
      BY <1>1, <2>1, SavingFacts, NextPrep
    <3>3. Settled'
      BY <1>1, <3>1 DEF Settled
    <3>4. RunInv'
      BY <2>1, <3>3, NextRun DEF SavingInv
    <3> QED
      BY <3>1, <3>2, <3>4
  <2>2. CASE phase = "idle" /\ UNCHANGED callVars
    BY <2>2, SavingFacts, BetweenCalls
  <2> QED
    BY <2>1, <2>2, StateSteps DEF vars
<1> QED
  BY <1>1, <1>2 DEF SavingInv, StoreInv, Settled

LEMMA InitSaving == StateInit => SavingInv
<1> SUFFICES ASSUME StateInit PROVE SavingInv
  OBVIOUS
<1>1. Init /\ SavedOK /\ IInv
  BY InitState DEF StateInit, StateOK
<1> QED
  BY <1>1, InitTry, InitPrep, InitRun DEF SavingInv, StoreInv, Settled

(* Between saving and restoring, a decode in progress is what it is        *)
(* without: state_write and state_read come only between decodes, so that  *)
(* the invariant of prepare and of the micro-batches holds.                *)
THEOREM SavingInvariance ==
  ASSUME NSwa = 0
  PROVE  StateSpec => []SavingInv
<1>1. SavingInv /\ [StateNext]_<<vars, saved>> => SavingInv'
  BY NextSaving
<1> QED
  BY <1>1, InitSaving, PTL DEF StateSpec

-----------------------------------------------------------------------------
(* The cells after the old ones of the sequence were removed, and after    *)
(* the saved ones were placed.                                             *)

LEMMA ClearedCells ==
  ASSUME StateOK, NEW s \in SeqId, Used # {}
  PROVE  LET v == v_cells[seq_to_stream(s)]
             c == ReadCells(s)
         IN  /\ Keeps(c, v)
             /\ \A i \in Cell : /\ c.seq[i] = v.seq[i] \ {s}
                                /\ c.seq[i] # {} => c.pos[i] = v.pos[i]
<1> DEFINE st == seq_to_stream(s)
           v == v_cells[st]
           G == ToClear(s)
           c == ReadCells(s)
<1>1. st \in Stream /\ IInv
  BY StreamFacts DEF StateOK
<1>2. /\ Sound(v)
      /\ \A i \in Cell : v.pos[i] \in Pos \cup {Empty} /\ (v.pos[i] = Empty <=> v.seq[i] = {})
  BY <1>1, CellsOfStream
<1>3. c = seq_rm(v, G)
  BY DEF ReadCells, Cleared, ToClear
<1>4. \A i \in Cell : G[i] = v.seq[i] \cap {s}
  <2> SUFFICES ASSUME NEW i \in Cell PROVE G[i] = v.seq[i] \cap {s}
    OBVIOUS
  <2>1. v.pos[i] # Empty => i \in InRange(v, <<-1, -1>>)
    BY <1>2, MaxPosAssumption DEF InRange, pos_in, Lo, Hi, Pos
  <2>2. v.pos[i] = Empty => v.seq[i] \cap {s} = {}
    BY <1>2
  <2> QED
    BY <2>1, <2>2 DEF ToClear, Selected
<1> HIDE DEF v, G
<1>5. \A i \in Cell : G[i] \subseteq v.seq[i]
  BY <1>4
<1>6. Keeps(seq_rm(v, G), v)
  BY <1>2, SeqRmKeeps
<1>7. \A i \in Cell : /\ seq_rm(v, G).pos[i] = IF i \in Freed(v, G) THEN Empty ELSE v.pos[i]
                      /\ seq_rm(v, G).seq[i] = v.seq[i] \ G[i]
  <2>1. Sound(v)
    BY <1>2
  <2>2. ASSUME NEW q, Sound(q), NEW H, \A j \in Cell : H[j] \subseteq q.seq[j]
        PROVE  \A j \in Cell : /\ seq_rm(q, H).pos[j] = IF j \in Freed(q, H) THEN Empty ELSE q.pos[j]
                               /\ seq_rm(q, H).seq[j] = q.seq[j] \ H[j]
    BY <2>2, SeqRmCells
  <2> QED
    BY <1>5, <2>1, <2>2
<1>8. \A i \in Cell : i \in Freed(v, G) => v.seq[i] \ G[i] = {}
  BY DEF Freed
<1>9. \A i \in Cell : /\ seq_rm(v, G).seq[i] = v.seq[i] \ {s}
                      /\ seq_rm(v, G).seq[i] # {} => seq_rm(v, G).pos[i] = v.pos[i]
  BY <1>4, <1>7, <1>8
<1> QED
  BY <1>3, <1>6, <1>9 DEF v

LEMMA ReadVacant ==
  ASSUME NSwa = 0, StateOK, NEW s \in SeqId, Used # {}
  PROVE  /\ \A i \in DOMAIN ReadSlot(s) : ReadCells(s).pos[i] = Empty
         /\ Cardinality(DOMAIN ReadSlot(s)) = Len(List) => Fills(ReadSlot(s), Len(List))
<1>1. /\ Sound(ReadCells(s)) /\ ReadHead(s) \in HeadRange /\ Len(List) \in 1 .. Size
  BY ReadFacts
<1>2. ReadCells(s).used \in SUBSET Cell /\ ReadHead(s) \in Int /\ Len(List) \in Nat
  BY <1>1, SizeAssumption DEF Sound, CellsType, HeadRange
<1>3. DOMAIN ReadSlot(s) \in SUBSET Usable(ReadCells(s))
  BY <1>2, SlotFacts DEF ReadSlot
<1>4. \A i \in Usable(ReadCells(s)) : ReadCells(s).pos[i] = Empty
  BY OnlyEmpty DEF Usable
<1>5. Cardinality(DOMAIN ReadSlot(s)) = Len(List) => Fills(ReadSlot(s), Len(List))
  BY <1>2, FindSlotFills DEF ReadSlot
<1> QED
  BY <1>3, <1>4, <1>5

LEMMA PlacedCells ==
  ASSUME NSwa = 0, StateOK, NEW s \in SeqId, Used # {}, ReadPlaces(s), NEW i \in Cell
  PROVE  /\ v_cells'[seq_to_stream(s)].pos[i] =
              IF i \in DOMAIN ReadSlot(s) THEN List[ReadSlot(s)[i]].pos ELSE ReadCells(s).pos[i]
         /\ v_cells'[seq_to_stream(s)].seq[i] =
              IF i \in DOMAIN ReadSlot(s) THEN {s} ELSE ReadCells(s).seq[i]
         /\ i \in DOMAIN ReadSlot(s) => v_cells'[seq_to_stream(s)].shift[i] = 0
         /\ i \notin DOMAIN ReadSlot(s) /\ ReadCells(s).pos[i] # Empty =>
              v_cells'[seq_to_stream(s)].shift[i] = ReadCells(s).shift[i]
<1> DEFINE st == seq_to_stream(s)
<1>1. PICK c, slot, toks : c = ReadCells(s) /\ slot = ReadSlot(s) /\ toks = ReadToks(s)
  OBVIOUS
<1>2. st \in Stream /\ IInv /\ OnStream(st, apply_ubatch(c, slot, toks))
  BY <1>1, StreamFacts DEF StateOK, ReadPlaces
<1>3. v_cells'[st] = apply_ubatch(c, slot, toks)
  BY <1>2, SetStream
<1>4. /\ Sound(c) /\ DOMAIN slot \in SUBSET Cell
      /\ \A j \in DOMAIN slot : slot[j] \in 1 .. Len(List) /\ toks[slot[j]] \in Token
      /\ \A k \in 1 .. Len(List) : toks[k] = [pos |-> List[k].pos, seqs |-> {s}]
  BY <1>1, ReadFacts
<1>5. \A j \in DOMAIN slot : c.pos[j] = Empty
  BY <1>1, ReadVacant
<1>6. ASSUME NEW j \in DOMAIN slot
      PROVE  toks[slot[j]].pos = List[slot[j]].pos /\ toks[slot[j]].seqs = {s}
  <2>1. toks[slot[j]] = [pos |-> List[slot[j]].pos, seqs |-> {s}]
    BY <1>4
  <2> QED
    BY <2>1
<1>7. /\ v_cells'[st].pos[i] = IF i \in DOMAIN slot THEN toks[slot[i]].pos ELSE c.pos[i]
      /\ v_cells'[st].seq[i] = IF i \in DOMAIN slot THEN toks[slot[i]].seqs ELSE c.seq[i]
  BY <1>3, <1>4, <1>5, ApplyVacant
<1>8. /\ i \in DOMAIN slot => v_cells'[st].shift[i] = 0
      /\ i \notin DOMAIN slot /\ v_cells'[st].pos[i] # Empty => v_cells'[st].shift[i] = c.shift[i]
  BY <1>3, <1>4, ApplyShift
<1> QED
  BY <1>1, <1>6, <1>7, <1>8

-----------------------------------------------------------------------------
(* The rows that are saved are those of their positions: when nothing is   *)
(* pending, the rows in memory are those of the cells.                     *)

OwnRows(list) == \A k \in 1 .. Len(list) : list[k].rows = {list[k].pos}
RowsSaved == \A st \in Stream : OwnRows(saved.cells[st])

PosInts == \A st \in Stream : \A i \in Cell : v_cells[st].pos[i] \in Int

LEMMA PosAreInts == IInv => PosInts
<1> SUFFICES ASSUME IInv, NEW st \in Stream, NEW i \in Cell
             PROVE  v_cells[st].pos[i] \in Int
  BY DEF PosInts
<1>1. v_cells[st].pos[i] \in Pos \cup {Empty}
  BY CellsOfStream
<1> QED
  BY <1>1, PosFacts

LEMMA PosAreIntsNext == IInv' => PosInts'
BY PosAreInts, PTL

AtRest ==
  \A st \in Stream : \A i \in Cell : v_cells[st].pos[i] # Empty =>
    v_cells[st].shift[i] = 0 /\ k_rows[st][i] = {v_cells[st].pos[i]}

LEMMA RestRows ==
  ASSUME Careful, Quiet, IInv, Right, phase = "idle", UNCHANGED callVars
  PROVE  AtRest /\ sc_info = <<>>
<1>1. sc_info = <<>> /\ \A st \in Stream : ~v_cells[st].has_shift
  BY DEF Quiet, get_has_shift
<1>2. RowsAfterCopies = k_rows
  BY <1>1, RowsNow
<1>3. ASSUME NEW st \in Stream, NEW i \in Cell, v_cells[st].pos[i] # Empty
      PROVE  v_cells[st].shift[i] = 0 /\ k_rows[st][i] = {v_cells[st].pos[i]}
  <2>1. v_cells[st].shift[i] = 0
    BY <1>1, CellsOfStream DEF Sound, Consistent
  <2>2. Good(st, i)
    BY <1>3, ShowsIdle DEF Right
  <2>3. v_cells[st].pos[i] - 0 = v_cells[st].pos[i]
    <3>1. v_cells[st].pos[i] \in Int
      BY PosAreInts DEF PosInts
    <3> QED
      BY <3>1
  <2> QED
    BY <1>2, <2>1, <2>2, <2>3 DEF Good
<1> QED
  BY <1>1, <1>3 DEF AtRest

LEMMA ListRows ==
  ASSUME AtRest, NEW st \in Stream, NEW M \in SUBSET Cell, NEW S, NEW list, Lists(list, st, M, S),
         \A i \in M : v_cells[st].pos[i] # Empty
  PROVE  OwnRows(list)
<1> SUFFICES ASSUME NEW k \in 1 .. Len(list) PROVE list[k].rows = {list[k].pos}
  BY DEF OwnRows
<1>1. k \in 1 .. Cardinality(M) /\ list[k] = ItemOf(st, Nth(M, k), S)
  BY DEF Lists
<1>2. Nth(M, k) \in M
  BY <1>1, NthInOrder DEF InOrder
<1>3. k_rows[st][Nth(M, k)] = {v_cells[st].pos[Nth(M, k)]}
  BY <1>2 DEF AtRest
<1> QED
  BY <1>1, <1>3 DEF ItemOf

LEMMA SavingRows ==
  ASSUME Careful, StateOK, Right, Saving
  PROVE  RowsSaved'
<1>1. phase = "idle" /\ Quiet /\ UNCHANGED callVars /\ IInv
  BY WritesNothing DEF Saving, vars, StateOK
<1>2. AtRest
  BY <1>1, RestRows
<1>3. CASE StateWriteAll
  <2>1. \A st \in Stream : saved'.cells[st] = Written(st, v_cells[st].used, SeqId)
    BY <1>3 DEF StateWriteAll
  <2>2. ASSUME NEW st \in Stream
        PROVE  OwnRows(saved'.cells[st])
    <3>1. PICK M : M = v_cells[st].used
      OBVIOUS
    <3>2. M \in SUBSET Cell /\ Lists(saved'.cells[st], st, M, SeqId)
      BY <1>1, <2>1, <3>1, WriteAllLists
    <3>3. \A i \in M : v_cells[st].pos[i] # Empty
      BY <1>1, <3>1, CellsOfStream DEF Sound, Consistent
    <3>4. PICK list : list = saved'.cells[st]
      OBVIOUS
    <3> QED
      BY <1>2, <3>2, <3>3, <3>4, ListRows
  <2> QED
    BY <2>2, StreamNext, Zenon DEF RowsSaved, OwnRows
<1>4. CASE \E s \in SeqId : StateWriteSeq(s)
  <2>1. PICK s \in SeqId : StateWriteSeq(s)
    BY <1>4
  <2>2. \A st \in Stream : saved'.cells[st] = Written(st, Has(v_cells[st], s), {s})
    BY <2>1 DEF StateWriteSeq
  <2>3. ASSUME NEW st \in Stream
        PROVE  OwnRows(saved'.cells[st])
    <3>1. PICK M : M = Has(v_cells[st], s)
      OBVIOUS
    <3>2. M \in SUBSET Cell /\ Lists(saved'.cells[st], st, M, {s})
      BY <1>1, <2>2, <3>1, WriteSeqLists
    <3>3. \A i \in M : v_cells[st].pos[i] # Empty
      BY <1>1, <3>1, CellsOfStream DEF Has
    <3>4. PICK list : list = saved'.cells[st]
      OBVIOUS
    <3> QED
      BY <1>2, <3>2, <3>3, <3>4, ListRows
  <2> QED
    BY <2>3, StreamNext, Zenon DEF RowsSaved, OwnRows
<1> QED
  BY <1>3, <1>4 DEF Saving

(* Restored cells have their rows, and no shift pending.                   *)
LEMMA ReadSeqRight ==
  ASSUME NSwa = 0, Careful, StateOK, RowsSaved, Right, NEW s \in SeqId, StateReadSeq(s)
  PROVE  Right'
<1> DEFINE st == seq_to_stream(s)
           v == v_cells[st]
<1>1. /\ phase = "idle" /\ Quiet /\ Used # {} /\ UNCHANGED sc_info /\ UNCHANGED callVars /\ IInv
      /\ ReadPlaces(s) \/ ReadFails(s)
  BY ReadSplit DEF StateOK
<1>2. st \in Stream /\ SavedOK
  BY StreamFacts DEF StateOK
<1>3. AtRest /\ sc_info = <<>>
  BY <1>1, RestRows
<1>4. RowsAfterCopies' = k_rows'
  BY <1>1, <1>3, RowsNowNext
<1>5. ASSUME NEW i \in Cell, ReadCells(s).pos[i] # Empty
      PROVE  /\ k_rows[st][i] = {ReadCells(s).pos[i]} /\ ReadCells(s).shift[i] = 0
  <2>1. /\ Sound(ReadCells(s)) /\ Keeps(ReadCells(s), v)
        /\ ReadCells(s).seq[i] # {} => ReadCells(s).pos[i] = v.pos[i]
    BY <1>1, ReadFacts, ClearedCells
  <2>2. ReadCells(s).pos[i] = v.pos[i] /\ v.pos[i] # Empty
    BY <1>5, <2>1 DEF Sound, Consistent
  <2>3. ReadCells(s).pos[i] - ReadCells(s).shift[i] = v.pos[i] - v.shift[i]
    BY <1>5, <2>1 DEF Keeps
  <2>4. ReadCells(s).shift[i] \in Int /\ v.pos[i] \in Int
    BY <1>1, <1>2, <2>1, CellsOfStream, PosFacts DEF Sound, CellsType
  <2>5. v.shift[i] = 0 /\ k_rows[st][i] = {v.pos[i]}
    BY <1>2, <1>3, <2>2 DEF AtRest
  <2> QED
    BY <2>2, <2>3, <2>4, <2>5
<1>6. ASSUME NEW i \in Cell, v_cells'[st].pos[i] # Empty
      PROVE  /\ v_cells'[st].shift[i] = 0 /\ k_rows'[st][i] = {v_cells'[st].pos[i]}
  <2>1. CASE ReadPlaces(s)
    <3>1. k_rows'[st][i] = IF i \in DOMAIN ReadSlot(s) THEN List[ReadSlot(s)[i]].rows ELSE k_rows[st][i]
      <4>1. k_rows'[st] = RowsAt(k_rows[st], ReadSlot(s), List)
        BY <1>1, <1>2, <2>1 DEF ReadPlaces, IInv, RowsOK
      <4> QED
        BY <4>1 DEF RowsAt
    <3>2. CASE i \in DOMAIN ReadSlot(s)
      <4>1. ReadSlot(s)[i] \in 1 .. Len(List)
        BY <1>1, <3>2, ReadFacts
      <4>2. List[ReadSlot(s)[i]].rows = {List[ReadSlot(s)[i]].pos}
        BY <1>1, <1>2, <4>1, UsedFacts DEF RowsSaved, OwnRows, List
      <4>3. v_cells'[st].shift[i] = 0 /\ v_cells'[st].pos[i] = List[ReadSlot(s)[i]].pos
        BY <1>1, <2>1, <3>2, PlacedCells
      <4> QED
        BY <3>1, <3>2, <4>2, <4>3
    <3>3. CASE i \notin DOMAIN ReadSlot(s)
      <4>1. v_cells'[st].pos[i] = ReadCells(s).pos[i]
        BY <1>1, <2>1, <3>3, PlacedCells
      <4>2. v_cells'[st].shift[i] = ReadCells(s).shift[i]
        BY <1>1, <1>6, <2>1, <3>3, <4>1, PlacedCells
      <4> QED
        BY <1>5, <1>6, <3>1, <3>3, <4>1, <4>2
    <3> QED
      BY <3>2, <3>3
  <2>2. CASE ReadFails(s)
    <3>1. v_cells'[st] = ReadCells(s) /\ k_rows' = k_rows
      BY <1>1, <1>2, <2>2, SetStream DEF ReadFails
    <3> QED
      BY <1>5, <1>6, <3>1
  <2> QED
    BY <1>1, <2>1, <2>2
<1>7. ASSUME NEW x \in Stream, x # st
      PROVE  v_cells'[x] = v_cells[x] /\ k_rows'[x] = k_rows[x]
  <2>1. \E c : OnStream(st, c)
    BY <1>1 DEF ReadPlaces, ReadFails
  <2>2. v_cells'[x] = v_cells[x]
    BY <1>1, <1>2, <1>7, <2>1, SetStream
  <2> QED
    BY <1>1, <1>7, <2>2 DEF ReadPlaces, ReadFails, IInv, RowsOK
<1>8. \A x \in Stream : \A i \in Cell : v_cells'[x].pos[i] # Empty =>
        v_cells'[x].shift[i] = 0 /\ k_rows'[x][i] = {v_cells'[x].pos[i]}
  BY <1>3, <1>6, <1>7 DEF AtRest
<1>9. ASSUME NEW x \in Stream, NEW i \in Cell, v_cells'[x].pos[i] # Empty
      PROVE  Good(x, i)'
  <2>1. v_cells'[x].shift[i] = 0 /\ k_rows'[x][i] = {v_cells'[x].pos[i]}
    BY <1>8, <1>9
  <2>2. v_cells'[x].pos[i] \in Int
    <3>1. IInv'
      BY StateReadSeqIInv
    <3> QED
      BY <3>1, PosAreIntsNext, StreamNext DEF PosInts, Cell
  <2>3. v_cells'[x].pos[i] - 0 = v_cells'[x].pos[i]
    BY <2>2
  <2> QED
    BY <1>4, <2>1, <2>3 DEF Good
<1> QED
  BY <1>1, <1>9, ShowsIdle, StreamNext DEF Right, Cell

(* The cells and rows after a whole cache was restored.                    *)
LEMMA AllCells ==
  ASSUME StateOK, StateReadAll, NEW st \in Stream, NEW i \in Cell
  PROVE  LET front == st = Most(Used) /\ i \in Front(Len(AllList))
         IN  /\ v_cells'[st].pos[i] = IF front THEN AllList[i + 1].pos ELSE Empty
             /\ v_cells'[st].seq[i] = IF front THEN AllList[i + 1].seq ELSE {}
             /\ v_cells'[st].shift[i] = 0
             /\ k_rows'[st][i] = IF front THEN AllList[i + 1].rows ELSE {}
<1> DEFINE last == Most(Used)
           n == Len(AllList)
<1>1. /\ Used # {}
      /\ v_cells' = [ClearedAll EXCEPT ![last] = Filled(last, AllList)]
      /\ k_rows' = [x \in Stream |-> [j \in Cell |->
                       IF x = last /\ j < n THEN AllList[j + 1].rows ELSE {}]]
  BY DEF StateReadAll, AllList
<1>2. last \in Stream /\ n \in 1 .. Size /\ \A j \in Cell : Filled(last, AllList).shift[j] = 0
  BY <1>1, AllFacts
<1>3. i \in Front(n) <=> i < n
  BY <1>2, SizeAssumption DEF Front, Cell
<1>4. /\ k_rows'[st][i] = IF st = last /\ i \in Front(n) THEN AllList[i + 1].rows ELSE {}
  BY <1>1, <1>3
<1>5. CASE st # last
  <2>1. v_cells'[st] = reset
    BY <1>1, <1>2, <1>5 DEF ClearedAll
  <2> QED
    BY <1>4, <1>5, <2>1 DEF reset
<1>6. CASE st = last
  <2>1. v_cells'[st] = Filled(last, AllList)
    BY <1>1, <1>2, <1>6 DEF ClearedAll
  <2> DEFINE P == [j \in Front(n) |-> AllList[j + 1].pos]
             S == [j \in Front(n) |-> AllList[j + 1].seq]
  <2>2. Filled(last, AllList) = pos_set(reset, Front(n), P, S)
    BY <1>2 DEF Filled, ClearedAll, Front
  <2>3. /\ pos_set(reset, Front(n), P, S).pos[i] = IF i \in Front(n) THEN P[i] ELSE Empty
        /\ pos_set(reset, Front(n), P, S).seq[i] = IF i \in Front(n) THEN S[i] ELSE {}
    <3> HIDE DEF P, S
    <3> QED
      BY DEF pos_set, reset
  <2>4. i \in Front(n) => P[i] = AllList[i + 1].pos /\ S[i] = AllList[i + 1].seq
    OBVIOUS
  <2> HIDE DEF P, S
  <2> QED
    BY <1>2, <1>4, <1>6, <2>1, <2>2, <2>3, <2>4
<1> QED
  BY <1>5, <1>6

LEMMA ReadAllRight ==
  ASSUME Careful, StateOK, RowsSaved, Right, StateReadAll
  PROVE  Right'
<1>1. phase = "idle" /\ Quiet /\ UNCHANGED sc_info /\ UNCHANGED callVars /\ IInv /\ Used # {}
  BY DEF StateReadAll, StateOK
<1>2. sc_info = <<>>
  BY <1>1, RestRows
<1>3. RowsAfterCopies' = k_rows'
  BY <1>1, <1>2, RowsNowNext
<1>4. OwnRows(AllList)
  BY <1>1, AllFacts DEF RowsSaved, AllList
<1>5. ASSUME NEW x \in Stream, NEW i \in Cell, v_cells'[x].pos[i] # Empty
      PROVE  Good(x, i)'
  <2>1. /\ x = Most(Used) /\ i \in Front(Len(AllList))
        /\ v_cells'[x].pos[i] = AllList[i + 1].pos /\ v_cells'[x].shift[i] = 0
        /\ k_rows'[x][i] = AllList[i + 1].rows
    BY <1>5, AllCells
  <2>2. i + 1 \in 1 .. Len(AllList) /\ AllList[i + 1].pos \in Pos
    BY <1>1, <2>1, AllFacts
  <2>3. AllList[i + 1].rows = {AllList[i + 1].pos}
    BY <1>4, <2>2 DEF OwnRows
  <2>4. AllList[i + 1].pos - 0 = AllList[i + 1].pos
    BY <2>2, MaxPosAssumption DEF Pos
  <2> QED
    BY <1>3, <2>1, <2>3, <2>4 DEF Good
<1> QED
  BY <1>1, <1>5, ShowsIdle, StreamNext DEF Right, Cell

SavingRowsInv == RowsInv /\ RowsSaved

LEMMA NextSavingRows ==
  ASSUME NSwa = 0, RowsKept, Careful, SavingInv, SavingInv', SavingRowsInv,
         [StateNext]_<<vars, saved>>
  PROVE  SavingRowsInv'
<1>1. /\ StateOK /\ StoreInv /\ StoreInv' /\ RowsInv /\ Right /\ NoneQueued /\ Unshifted /\ RowsSaved
      /\ IInv
  BY SavingFacts DEF SavingInv, SavingRowsInv, RowsInv
<1>2. UNCHANGED saved => RowsSaved'
  BY <1>1, StreamNext, Zenon DEF RowsSaved, OwnRows
<1>3. phase = "idle" /\ UNCHANGED callVars => NoneQueued' /\ Unshifted'
  BY DEF NoneQueued, Unshifted, callVars
<1>4. CASE [Next]_vars /\ UNCHANGED saved
  BY <1>1, <1>2, <1>4, NextRows DEF SavingRowsInv
<1>5. CASE Saving /\ phase = "idle" /\ UNCHANGED vars
  <2>1. RowsSaved'
    BY <1>1, <1>5, SavingRows
  <2>2. Right'
    BY <1>1, <1>5, StutterRight
  <2> QED
    BY <1>3, <1>5, <2>1, <2>2 DEF SavingRowsInv, RowsInv, vars
<1>6. CASE Restoring /\ phase = "idle" /\ UNCHANGED <<sc_info, callVars, saved>>
  <2>1. Right'
    BY <1>1, <1>6, ReadAllRight, ReadSeqRight DEF Restoring
  <2> QED
    BY <1>2, <1>3, <1>6, <2>1 DEF SavingRowsInv, RowsInv
<1> QED
  BY <1>4, <1>5, <1>6, StateSteps

LEMMA InitSavingRows == StateInit => SavingRowsInv
<1> SUFFICES ASSUME StateInit PROVE SavingRowsInv
  OBVIOUS
<1>1. RowsInv
  BY InitRows DEF StateInit
<1>2. RowsSaved
  <2>1. \A st \in Stream : saved.cells[st] = <<>>
    BY DEF StateInit, None
  <2>2. Len(<<>>) = 0 /\ \A k \in 1 .. 0 : FALSE
    BY EmptySeq
  <2>3. OwnRows(<<>>)
    BY <2>2 DEF OwnRows
  <2> QED
    BY <2>1, <2>3, Zenon DEF RowsSaved
<1> QED
  BY <1>1, <1>2 DEF SavingRowsInv

(* An application that saves and restores only when no copy and no K-shift *)
(* is pending gets the rows back that belong to the restored positions: in *)
(* every cell, the K row is - after what is still deferred - rotated to    *)
(* the position of the cell, wherever the restored cells were placed.      *)
THEOREM RowsMatchSaved ==
  ASSUME NSwa = 0, RowsKept, Careful
  PROVE  StateSpec => []RowsMatch
<1>1. SavingInv /\ SavingInv' /\ SavingRowsInv /\ [StateNext]_<<vars, saved>> => SavingRowsInv'
  BY NextSavingRows
<1>2. SavingInv /\ SavingRowsInv => RowsMatch
  BY RightRows, SavingFacts DEF SavingRowsInv, RowsInv
<1> QED
  BY SavingInvariance, InitSavingRows, <1>1, <1>2, PTL DEF StateSpec

-----------------------------------------------------------------------------
(* What restoring a sequence does to the sequences of the cells: no other  *)
(* sequence gains or loses a cell, and this one holds the saved positions. *)

LEMMA ReadSeqCells ==
  ASSUME NSwa = 0, StateOK, NEW s \in SeqId, StateReadSeq(s), NEW i \in Cell
  PROVE  LET w == v_cells'[seq_to_stream(s)]
             v == v_cells[seq_to_stream(s)]
         IN  /\ w.seq[i] \ {s} = v.seq[i] \ {s}
             /\ w.seq[i] \ {s} # {} => w.pos[i] = v.pos[i]
             /\ ReadFails(s) => s \notin w.seq[i]
             /\ ReadPlaces(s) => (s \in w.seq[i] <=> i \in DOMAIN ReadSlot(s))
             /\ ReadPlaces(s) /\ i \in DOMAIN ReadSlot(s) => w.pos[i] = List[ReadSlot(s)[i]].pos
<1> DEFINE w == v_cells'[seq_to_stream(s)]
           v == v_cells[seq_to_stream(s)]
           c == ReadCells(s)
<1>1. Used # {} /\ (ReadPlaces(s) \/ ReadFails(s))
  BY ReadSplit DEF StateOK
<1>2. Sound(c) /\ c.seq[i] = v.seq[i] \ {s} /\ (c.seq[i] # {} => c.pos[i] = v.pos[i])
  BY <1>1, ReadFacts, ClearedCells
<1>3. CASE ReadPlaces(s)
  <2>1. /\ w.pos[i] = IF i \in DOMAIN ReadSlot(s) THEN List[ReadSlot(s)[i]].pos ELSE c.pos[i]
        /\ w.seq[i] = IF i \in DOMAIN ReadSlot(s) THEN {s} ELSE c.seq[i]
    BY <1>1, <1>3, PlacedCells
  <2>2. i \in DOMAIN ReadSlot(s) => c.seq[i] = {}
    BY <1>1, <1>2, ReadVacant DEF Sound, Consistent
  <2>3. ~ReadFails(s)
    <3>1. Cardinality(DOMAIN ReadSlot(s)) = Len(List) /\ Len(List) \in 1 .. Size
      BY <1>1, <1>3, ReadFacts DEF ReadPlaces
    <3> QED
      BY <3>1, SizeAssumption DEF ReadFails
  <2> HIDE DEF c, v, w
  <2>4. /\ w.seq[i] \ {s} = v.seq[i] \ {s}
        /\ w.seq[i] \ {s} # {} => w.pos[i] = v.pos[i]
        /\ s \in w.seq[i] <=> i \in DOMAIN ReadSlot(s)
    BY <1>2, <2>1, <2>2
  <2> QED
    BY <2>1, <2>3, <2>4 DEF c, v, w
<1>4. CASE ReadFails(s)
  <2>1. w = c
    <3>1. seq_to_stream(s) \in Stream /\ IInv
      BY StreamFacts DEF StateOK
    <3> QED
      BY <1>4, <3>1, SetStream DEF ReadFails
  <2>2. ~ReadPlaces(s)
    <3>1. Cardinality(DOMAIN ReadSlot(s)) < Len(List) /\ Len(List) \in 1 .. Size
      BY <1>1, <1>4, ReadFacts DEF ReadFails
    <3> QED
      BY <3>1, SizeAssumption DEF ReadPlaces
  <2> HIDE DEF c, v, w
  <2>3. /\ w.seq[i] \ {s} = v.seq[i] \ {s}
        /\ w.seq[i] \ {s} # {} => w.pos[i] = v.pos[i]
        /\ s \notin w.seq[i]
    BY <1>2, <2>1
  <2> QED
    BY <2>2, <2>3 DEF c, v, w
<1> QED
  BY <1>1, <1>3, <1>4

LEMMA ReadSeqOthers ==
  ASSUME IInv, NEW s \in SeqId, StateReadSeq(s), NEW x \in Stream, x # seq_to_stream(s)
  PROVE  v_cells'[x] = v_cells[x]
<1>1. \E c : OnStream(seq_to_stream(s), c)
  BY ReadSplit DEF ReadPlaces, ReadFails
<1> QED
  BY <1>1, StreamFacts, SetStream

-----------------------------------------------------------------------------
(* The cells of a stream of its own, in memory and in the buffer, belong   *)
(* to its sequence; a buffer of one sequence has one stream.               *)

OwnCells ==
  \A st \in Stream : \A i \in Cell : \A s \in v_cells[st].seq[i] : seq_to_stream(s) = st
OwnSaved ==
  \A st \in Stream : \A k \in 1 .. Len(saved.cells[st]) :
    \A s \in saved.cells[st][k].seq : seq_to_stream(s) = st
OneSaved ==
  saved.kind = "seq" => \E h \in Stream : \A st \in Stream \ {h} : saved.cells[st] = <<>>

OwnedInv == Owned /\ OwnSaved /\ OneSaved

OwnAgree == Owned <=> OwnCells

LEMMA OwnIdle == Between => OwnAgree
<1> SUFFICES ASSUME IInv, phase = "idle" PROVE OwnAgree
  BY DEF Between
<1>1. stack = <<>>
  BY DEF IInv, StackOK
<1>2. \A st \in Stream : \A i \in Cell : Shows(st, i) <=> v_cells[st].pos[i] # Empty
  BY <1>1, NoneTentative DEF Shows
<1>3. \A st \in Stream : \A i \in Cell : v_cells[st].pos[i] = Empty => v_cells[st].seq[i] = {}
  BY CellsOfStream
<1> QED
  BY <1>2, <1>3 DEF OwnAgree, Owned, OwnCells

LEMMA OwnIdleNext == Between' => OwnAgree'
BY OwnIdle, PTL

LEMMA WrittenNone ==
  ASSUME NEW st, NEW S
  PROVE  Written(st, {}, S) = <<>>
<1>1. Cardinality({}) = 0
  BY NoCells
<1>2. 1 .. 0 = {}
  OBVIOUS
<1> DEFINE f == Written(st, {}, S)
<1>3. f = [k \in 1 .. 0 |-> f[k]]
  BY <1>1 DEF Written
<1> HIDE DEF f
<1>4. f \in Seq({}) /\ Len(f) = 0
  <2>1. f \in [1 .. 0 -> {}]
    BY <1>2, <1>3
  <2> QED
    BY <2>1, AsSeq
<1>5. f = <<>>
  BY <1>4, EmptySeq
<1> QED
  BY <1>5 DEF f

LEMMA ListOwn ==
  ASSUME OwnCells, NEW st \in Stream, NEW M \in SUBSET Cell, NEW S, NEW list, Lists(list, st, M, S),
         NEW k \in 1 .. Len(list), NEW s \in list[k].seq
  PROVE  seq_to_stream(s) = st
<1>1. k \in 1 .. Cardinality(M) /\ list[k] = ItemOf(st, Nth(M, k), S)
  BY DEF Lists
<1>2. Nth(M, k) \in Cell
  BY <1>1, NthInOrder DEF InOrder
<1>3. s \in v_cells[st].seq[Nth(M, k)]
  BY <1>1 DEF ItemOf
<1> QED
  BY <1>2, <1>3 DEF OwnCells

LEMMA OwnSavedIs ==
  ASSUME \A st \in Stream : \A k \in 1 .. Len(saved'.cells[st]) :
           \A s \in saved'.cells[st][k].seq : seq_to_stream(s) = st
  PROVE  OwnSaved'
BY StreamNext, Zenon DEF OwnSaved, seq_to_stream

LEMMA SaveOwn ==
  ASSUME StateOK, Owned, Saving
  PROVE  OwnSaved' /\ OneSaved'
<1>1. phase = "idle" /\ IInv /\ OwnCells
  BY WritesNothing, OwnIdle DEF Saving, StateOK, Between, OwnAgree
<1>2. CASE StateWriteAll
  <2>1. saved'.kind = "all" /\ \A st \in Stream : saved'.cells[st] = Written(st, v_cells[st].used, SeqId)
    BY <1>2 DEF StateWriteAll
  <2>2. ASSUME NEW st \in Stream, NEW k \in 1 .. Len(saved'.cells[st]), NEW s \in saved'.cells[st][k].seq
        PROVE  seq_to_stream(s) = st
    <3>1. PICK M, list : M = v_cells[st].used /\ list = saved'.cells[st]
      OBVIOUS
    <3>2. M \in SUBSET Cell /\ Lists(list, st, M, SeqId)
      BY <1>1, <2>1, <3>1, WriteAllLists
    <3>3. k \in 1 .. Len(list) /\ s \in list[k].seq
      BY <2>2, <3>1
    <3> QED
      BY <1>1, <3>2, <3>3, ListOwn
  <2> QED
    BY <2>1, <2>2, OwnSavedIs DEF OneSaved
<1>3. CASE \E s \in SeqId : StateWriteSeq(s)
  <2>1. PICK s \in SeqId : StateWriteSeq(s)
    BY <1>3
  <2>2. \A st \in Stream : saved'.cells[st] = Written(st, Has(v_cells[st], s), {s})
    BY <2>1 DEF StateWriteSeq
  <2>3. ASSUME NEW st \in Stream, NEW k \in 1 .. Len(saved'.cells[st]), NEW t \in saved'.cells[st][k].seq
        PROVE  seq_to_stream(t) = st
    <3>1. PICK M, list : M = Has(v_cells[st], s) /\ list = saved'.cells[st]
      OBVIOUS
    <3>2. M \in SUBSET Cell /\ Lists(list, st, M, {s})
      BY <1>1, <2>2, <3>1, WriteSeqLists
    <3>3. k \in 1 .. Len(list) /\ t \in list[k].seq
      BY <2>3, <3>1
    <3> QED
      BY <1>1, <3>2, <3>3, ListOwn
  <2>4. ASSUME NEW st \in Stream \ {seq_to_stream(s)}
        PROVE  saved'.cells[st] = <<>>
    <3>1. Has(v_cells[st], s) = {}
      BY <1>1 DEF Has, OwnCells
    <3> QED
      BY <2>2, <3>1, WrittenNone
  <2>5. OneSaved'
    BY <2>4, StreamFacts, StreamNext DEF OneSaved
  <2> QED
    BY <2>3, <2>5, OwnSavedIs
<1> QED
  BY <1>2, <1>3 DEF Saving

LEMMA RestoreOwn ==
  ASSUME NSwa = 0, StateOK, Owned, OwnSaved, Restoring, StateOK'
  PROVE  Owned'
<1>1. phase = "idle" /\ phase' = "idle" /\ IInv /\ IInv' /\ OwnCells
  BY OwnIdle DEF Restoring, StateReadAll, StateReadSeq, StateOK, Between, OwnAgree, callVars
<1>2. CASE StateReadAll
  <2>1. Used # {}
    BY <1>2 DEF StateReadAll
  <2>2. ASSUME NEW st \in Stream, NEW i \in Cell, NEW s \in v_cells'[st].seq[i]
        PROVE  seq_to_stream(s) = st
    <3>1. st = Most(Used) /\ i \in Front(Len(AllList)) /\ s \in AllList[i + 1].seq
      BY <1>2, <2>2, AllCells
    <3>2. i + 1 \in 1 .. Len(AllList)
      BY <2>1, <3>1, AllFacts
    <3> QED
      BY <3>1, <3>2 DEF OwnSaved, AllList
  <2>3. OwnCells'
    BY <2>2, StreamNext, Zenon DEF OwnCells, seq_to_stream, Cell
  <2> QED
    BY <1>1, <2>3, OwnIdleNext DEF Between, OwnAgree
<1>3. CASE \E s \in SeqId : StateReadSeq(s)
  <2>1. PICK s \in SeqId : StateReadSeq(s)
    BY <1>3
  <2>2. ASSUME NEW st \in Stream, NEW i \in Cell, NEW t \in v_cells'[st].seq[i]
        PROVE  seq_to_stream(t) = st
    <3>1. CASE st # seq_to_stream(s)
      BY <1>1, <2>1, <2>2, <3>1, ReadSeqOthers DEF OwnCells
    <3>2. CASE st = seq_to_stream(s) /\ t # s
      <4>1. t \in v_cells[st].seq[i]
        BY <2>1, <2>2, <3>2, ReadSeqCells
      <4> QED
        BY <1>1, <4>1 DEF OwnCells
    <3> QED
      BY <3>1, <3>2
  <2>3. OwnCells'
    BY <2>2, StreamNext, Zenon DEF OwnCells, seq_to_stream, Cell
  <2> QED
    BY <1>1, <2>3, OwnIdleNext DEF Between, OwnAgree
<1> QED
  BY <1>2, <1>3 DEF Restoring

LEMMA NextOwnedSaved ==
  ASSUME NSwa = 0, MaxSeqs = 1 \/ ~Unified \/ "compute" \notin Faults,
         SavingInv, SavingInv', OwnedInv, [StateNext]_<<vars, saved>>
  PROVE  OwnedInv'
<1>1. StateOK /\ StateOK' /\ StoreInv /\ StoreInv' /\ Owned /\ OwnSaved /\ OneSaved
  BY SavingFacts DEF SavingInv, OwnedInv, StateOK, StoreInv, Settled
<1>2. UNCHANGED saved => OwnSaved' /\ OneSaved'
  BY <1>1, StreamNext DEF OwnSaved, OneSaved, seq_to_stream
<1>3. CASE [Next]_vars /\ UNCHANGED saved
  BY <1>1, <1>2, <1>3, NextOwned DEF OwnedInv
<1>4. CASE Saving /\ UNCHANGED vars
  <2>1. Owned'
    <3>1. UNCHANGED <<v_cells, phase, sinfos, stack, i_cur>>
      BY <1>4 DEF vars, memVars, callVars
    <3>2. \A st : Tentative(st)' = Tentative(st)
      BY <3>1 DEF Tentative
    <3> QED
      BY <1>1, <3>1, <3>2, StaySame, SameOwned
  <2> QED
    BY <1>1, <1>4, <2>1, SaveOwn DEF OwnedInv
<1>5. CASE Restoring /\ UNCHANGED saved
  BY <1>1, <1>2, <1>5, RestoreOwn DEF OwnedInv
<1> QED
  BY <1>3, <1>4, <1>5, StateSteps

LEMMA InitOwnedSaved == StateInit => OwnedInv
<1> SUFFICES ASSUME StateInit PROVE OwnedInv
  OBVIOUS
<1>1. Owned
  BY InitHoles DEF StateInit, HolesInv
<1>2. \A st \in Stream : saved.cells[st] = <<>>
  BY DEF StateInit, None
<1>3. OwnSaved
  <2>1. Len(<<>>) = 0 /\ \A k \in 1 .. 0 : FALSE
    BY EmptySeq
  <2> QED
    BY <1>2, <2>1 DEF OwnSaved
<1>4. OneSaved
  <2>1. 0 \in SeqId
    BY NSeqMaxAssumption DEF SeqId
  <2> QED
    BY <1>2, <2>1, StreamFacts DEF OneSaved
<1> QED
  BY <1>1, <1>3, <1>4 DEF OwnedInv

-----------------------------------------------------------------------------
(* The buffer counts the saved items.                                      *)

LEMMA SameCount ==
  ASSUME NEW K, IsFiniteSet(K), NEW B, NEW f, f = [k \in K |-> f[k]],
         \A k \in K : f[k] \in B, \A k, l \in K : f[k] = f[l] => k = l,
         \A b \in B : \E k \in K : f[k] = b
  PROVE  Cardinality(B) = Cardinality(K)
<1>1. f \in Bijection(K, B)
  BY DEF Bijection, Injection, Surjection, IsInjective
<1>2. ExistsBijection(K, B)
  BY <1>1 DEF ExistsBijection
<1> QED
  BY <1>2, FS_Bijection

(* The items of a stream with position p.                                  *)
HomeItems(h, p) == {k \in DOMAIN saved.cells[h] : saved.cells[h][k].pos = p}
(* Those of them that sequence s holds.                                    *)
OwnItems(h, s, p) == {k \in HomeItems(h, p) : s \in saved.cells[h][k].seq}

LEMMA ItemsFinite ==
  ASSUME SavedOK, NEW h \in Stream, NEW K \in SUBSET DOMAIN saved.cells[h]
  PROVE  /\ DOMAIN saved.cells[h] = 1 .. Len(saved.cells[h]) /\ Len(saved.cells[h]) \in 0 .. Size
         /\ IsFiniteSet(K) /\ Cardinality(K) \in Nat
         /\ K # {} => Cardinality(K) # 0
<1>1. saved.cells[h] \in Seq(Item) /\ Len(saved.cells[h]) <= Size
  BY DEF SavedOK
<1>2. Len(saved.cells[h]) \in 0 .. Size /\ DOMAIN saved.cells[h] = 1 .. Len(saved.cells[h])
  BY <1>1, SizeAssumption
<1>3. IsFiniteSet(1 .. Len(saved.cells[h]))
  BY <1>2, FS_Interval
<1>4. IsFiniteSet(K)
  BY <1>2, <1>3, FS_Subset
<1> QED
  BY <1>2, <1>4, FS_CardinalityType, FS_EmptySet

(* When one stream has them all, Any counts its items.                     *)
LEMMA AnyHome ==
  ASSUME SavedOK, NEW h \in Stream, \A st \in Stream \ {h} : saved.cells[st] = <<>>, NEW p
  PROVE  Any(p) = Cardinality(HomeItems(h, p))
<1> DEFINE K == HomeItems(h, p)
           B == {x \in Stream \X (1 .. Size) :
                   x[2] \in DOMAIN saved.cells[x[1]] /\ saved.cells[x[1]][x[2]].pos = p}
           f == [k \in K |-> <<h, k>>]
<1>1. K \in SUBSET DOMAIN saved.cells[h]
  BY DEF HomeItems
<1>2. IsFiniteSet(K) /\ K \in SUBSET (1 .. Size)
  <2>1. PICK n : n = Len(saved.cells[h])
    OBVIOUS
  <2>2. DOMAIN saved.cells[h] = 1 .. n /\ n \in 0 .. Size /\ IsFiniteSet(K)
    BY <1>1, <2>1, ItemsFinite
  <2>3. 1 .. n \in SUBSET (1 .. Size)
    BY <2>2, SizeAssumption
  <2> QED
    BY <1>1, <2>2, <2>3
<1>3. ASSUME NEW k \in K
      PROVE  f[k] \in B
  <2>1. k \in 1 .. Size /\ k \in DOMAIN saved.cells[h] /\ saved.cells[h][k].pos = p
    BY <1>2 DEF HomeItems
  <2> QED
    BY <2>1
<1>4. \A k, l \in K : f[k] = f[l] => k = l
  OBVIOUS
<1>5. ASSUME NEW b \in B
      PROVE  \E k \in K : f[k] = b
  <2>1. b = <<b[1], b[2]>> /\ b[1] \in Stream /\ b[2] \in DOMAIN saved.cells[b[1]]
        /\ saved.cells[b[1]][b[2]].pos = p
    OBVIOUS
  <2>2. b[1] = h
    <3>1. DOMAIN <<>> = {}
      OBVIOUS
    <3> QED
      BY <2>1, <3>1
  <2>3. b[2] \in K /\ f[b[2]] = b
    BY <2>1, <2>2 DEF HomeItems
  <2> QED
    BY <2>3
<1>6. f = [k \in K |-> f[k]]
  OBVIOUS
<1> HIDE DEF f, K
<1>7. Cardinality(B) = Cardinality(K)
  BY <1>2, <1>3, <1>4, <1>5, <1>6, SameCount
<1> QED
  BY <1>7 DEF Any, K

(* What one stream holds of a sequence.                                    *)
LEMMA CountItems ==
  ASSUME NEW h, NEW s, NEW p
  PROVE  Count(h, s, p) = Cardinality(OwnItems(h, s, p))
<1>1. {k \in DOMAIN saved.cells[h] : saved.cells[h][k].pos = p /\ s \in saved.cells[h][k].seq}
        = OwnItems(h, s, p)
  BY DEF OwnItems, HomeItems
<1> QED
  BY <1>1 DEF Count

IsSum(f, s, p) ==
  f = [n \in 0 .. NSeqMax |-> IF n = 0 THEN 0
                              ELSE f[n - 1] + (IF n - 1 \in Stream THEN Count(n - 1, s, p) ELSE 0)]

LEMMA TotalIs ==
  ASSUME NEW s, NEW p \in Pos
  PROVE  Total(s)[p] = (CHOOSE f : IsSum(f, s, p))[NSeqMax]
BY Zenon DEF Total, IsSum

LEMMA SumFacts ==
  ASSUME NEW s, NEW p, NEW f, IsSum(f, s, p)
  PROVE  /\ f[0] = 0
         /\ \A n \in 1 .. NSeqMax :
              f[n] = f[n - 1] + (IF n - 1 \in Stream THEN Count(n - 1, s, p) ELSE 0)
<1> DEFINE F == [n \in 0 .. NSeqMax |-> IF n = 0 THEN 0
                              ELSE f[n - 1] + (IF n - 1 \in Stream THEN Count(n - 1, s, p) ELSE 0)]
<1>1. f = F
  BY DEF IsSum
<1>2. 0 \in 0 .. NSeqMax /\ \A n \in 1 .. NSeqMax : n \in 0 .. NSeqMax /\ n # 0
  BY NSeqMaxAssumption
<1>3. F[0] = 0 /\ \A n \in 1 .. NSeqMax :
              F[n] = f[n - 1] + (IF n - 1 \in Stream THEN Count(n - 1, s, p) ELSE 0)
  BY <1>2
<1> HIDE DEF F
<1> QED
  BY <1>1, <1>3

(* A sequence that one stream holds is counted there.                      *)
LEMMA TotalHome ==
  ASSUME SavedOK, OwnSaved, NEW s \in SeqId, NEW p \in Pos
  PROVE  /\ Total(s)[p] = Count(seq_to_stream(s), s, p)
         /\ Total(s) = [q \in Pos |-> Total(s)[q]]
<1> DEFINE h == seq_to_stream(s)
           c == Count(h, s, p)
           G == [n \in 0 .. NSeqMax |-> IF n > h THEN c ELSE 0]
           term(n) == IF n \in Stream THEN Count(n, s, p) ELSE 0
<1>1. h \in Stream /\ h \in 0 .. NSeqMax - 1 /\ NSeqMax \in Nat /\ NSeqMax > 0
  <2>1. Stream \in SUBSET SeqId
    BY NSeqMaxAssumption DEF Stream, SeqId
  <2>2. h \in Stream
    BY StreamFacts
  <2> HIDE DEF h
  <2>3. h \in SeqId
    BY <2>1, <2>2
  <2> QED
    BY <2>2, <2>3, NSeqMaxAssumption DEF SeqId
<1>2. c \in Nat
  <2>1. OwnItems(h, s, p) \in SUBSET DOMAIN saved.cells[h]
    BY DEF OwnItems, HomeItems
  <2> QED
    BY <1>1, <2>1, ItemsFinite, CountItems
<1>3. ASSUME NEW st \in Stream, st # h
      PROVE  Count(st, s, p) = 0
  <2>1. OwnItems(st, s, p) \in SUBSET DOMAIN saved.cells[st]
    BY DEF OwnItems, HomeItems
  <2>2. DOMAIN saved.cells[st] = 1 .. Len(saved.cells[st])
    BY <2>1, ItemsFinite
  <2>3. OwnItems(st, s, p) = {}
    <3> SUFFICES ASSUME NEW k \in OwnItems(st, s, p) PROVE FALSE
      OBVIOUS
    <3>1. k \in 1 .. Len(saved.cells[st]) /\ s \in saved.cells[st][k].seq
      BY <2>1, <2>2 DEF OwnItems
    <3> QED
      BY <1>3, <3>1 DEF OwnSaved
  <2> QED
    BY <2>3, NoCells, CountItems
<1> HIDE DEF c, h
<1>4. \A n \in 0 .. NSeqMax - 1 : term(n) = IF n = h THEN c ELSE 0
  BY <1>1, <1>3 DEF c
<1> HIDE DEF term
<1>5. \A n \in 1 .. NSeqMax : G[n] = G[n - 1] + term(n - 1)
  <2> SUFFICES ASSUME NEW n \in 1 .. NSeqMax PROVE G[n] = G[n - 1] + term(n - 1)
    OBVIOUS
  <2>1. n - 1 \in 0 .. NSeqMax - 1 /\ n - 1 \in 0 .. NSeqMax /\ n \in 0 .. NSeqMax /\ n \in Int /\ h \in Int
    BY <1>1
  <2>2. term(n - 1) = IF n - 1 = h THEN c ELSE 0
    BY <1>4, <2>1
  <2>3. G[n] = (IF n > h THEN c ELSE 0) /\ G[n - 1] = (IF n - 1 > h THEN c ELSE 0)
    BY <2>1
  <2> HIDE DEF G
  <2>4. CASE n - 1 = h
    <3>1. n > h /\ ~(n - 1 > h)
      BY <2>1, <2>4
    <3> QED
      BY <1>2, <2>2, <2>3, <2>4, <3>1
  <2>5. CASE n - 1 # h
    <3>1. n > h <=> n - 1 > h
      BY <2>1, <2>5
    <3> QED
      BY <1>2, <2>2, <2>3, <2>5, <3>1
  <2> QED
    BY <2>4, <2>5
<1>6. G[0] = 0 /\ G[NSeqMax] = c /\ G = [n \in 0 .. NSeqMax |-> G[n]]
  BY <1>1
<1> HIDE DEF G
<1>7. IsSum(G, s, p)
  <2>1. \A n \in 0 .. NSeqMax : G[n] = IF n = 0 THEN 0 ELSE G[n - 1] + term(n - 1)
    <3> SUFFICES ASSUME NEW n \in 0 .. NSeqMax PROVE G[n] = IF n = 0 THEN 0 ELSE G[n - 1] + term(n - 1)
      OBVIOUS
    <3>1. n # 0 => n \in 1 .. NSeqMax
      BY <1>1
    <3> QED
      BY <1>5, <1>6, <3>1
  <2>2. G = [n \in 0 .. NSeqMax |-> IF n = 0 THEN 0 ELSE G[n - 1] + term(n - 1)]
    BY <1>6, <2>1
  <2> QED
    BY <2>2, Zenon DEF IsSum, term
<1>8. PICK f : f = CHOOSE g : IsSum(g, s, p)
  OBVIOUS
<1>9. IsSum(f, s, p)
  BY <1>7, <1>8, Zenon
<1>10. f[0] = 0 /\ \A n \in 1 .. NSeqMax : f[n] = f[n - 1] + term(n - 1)
  BY <1>9, SumFacts DEF term
<1> DEFINE Bad == {n \in 0 .. NSeqMax : f[n] # G[n]}
<1>11. Bad = {}
  <2> SUFFICES ASSUME Bad # {} PROVE FALSE
    OBVIOUS
  <2>1. PICK n : n = Least(Bad)
    OBVIOUS
  <2>2. n \in Bad /\ \A y \in Bad : n <= y
    <3>1. Bad \in SUBSET Nat
      OBVIOUS
    <3> HIDE DEF Bad
    <3> QED
      BY <2>1, <3>1, LeastNat
  <2>3. n \in 0 .. NSeqMax /\ f[n] # G[n] /\ n # 0
    BY <1>6, <1>10, <2>2
  <2>4. n - 1 \in 0 .. NSeqMax /\ n \in 1 .. NSeqMax /\ n - 1 < n
    BY <1>1, <2>3
  <2>5. f[n - 1] = G[n - 1]
    BY <2>2, <2>4
  <2> QED
    BY <1>5, <1>10, <2>3, <2>4, <2>5
<1>12. f[NSeqMax] = c
  <2>1. NSeqMax \in 0 .. NSeqMax
    BY <1>1
  <2> QED
    BY <1>6, <1>11, <2>1
<1>13. Total(s)[p] = c
  BY <1>8, <1>12, TotalIs
<1>14. Total(s) = [q \in Pos |-> Total(s)[q]]
  BY DEF Total
<1> QED
  BY <1>13, <1>14 DEF c, h

(* The same of the next state.                                             *)
HomeCounts ==
  SavedOK => \A h \in Stream : (\A st \in Stream \ {h} : saved.cells[st] = <<>>) =>
               \A p \in Pos : Any(p) = Cardinality(HomeItems(h, p))
OwnCounts ==
  SavedOK /\ OwnSaved =>
    \A s \in SeqId : /\ Total(s) = [p \in Pos |-> Total(s)[p]]
                     /\ \A p \in Pos : Total(s)[p] = Cardinality(OwnItems(seq_to_stream(s), s, p))
CellCounts ==
  \A s \in SeqId : \A p \in Pos :
    LET c == v_cells[seq_to_stream(s)]
    IN  Committed[s][p] = Cardinality(CellsAt(c.pos, c.seq, s, p))

LEMMA HomeCounted == HomeCounts
BY AnyHome DEF HomeCounts

LEMMA OwnCounted == OwnCounts
<1> SUFFICES ASSUME SavedOK, OwnSaved, NEW s \in SeqId
             PROVE  /\ Total(s) = [p \in Pos |-> Total(s)[p]]
                    /\ \A p \in Pos : Total(s)[p] = Cardinality(OwnItems(seq_to_stream(s), s, p))
  BY DEF OwnCounts
<1>1. Total(s) = [p \in Pos |-> Total(s)[p]]
  BY DEF Total
<1>2. ASSUME NEW p \in Pos
      PROVE  Total(s)[p] = Cardinality(OwnItems(seq_to_stream(s), s, p))
  <2>1. Total(s)[p] = Count(seq_to_stream(s), s, p)
    BY TotalHome
  <2> QED
    BY <2>1, CountItems
<1> QED
  BY <1>1, <1>2

LEMMA CellsCounted == Between => CellCounts
<1> SUFFICES ASSUME Between, NEW s \in SeqId, NEW p \in Pos
             PROVE  LET c == v_cells[seq_to_stream(s)]
                    IN  Committed[s][p] = Cardinality(CellsAt(c.pos, c.seq, s, p))
  BY DEF CellCounts
<1>1. Committed[s][p] = v_cells[seq_to_stream(s)].seq_pos[s][p]
  BY IdleCounts DEF Counts
<1>2. seq_to_stream(s) \in Stream /\ IInv
  BY StreamFacts DEF Between
<1> QED
  BY <1>1, <1>2, CellsOfStream

LEMMA HomeCountedNext == HomeCounts'
BY HomeCounted, PTL
LEMMA OwnCountedNext == OwnCounts'
BY OwnCounted, PTL
LEMMA CellsCountedNext == Between' => CellCounts'
BY CellsCounted, PTL

LEMMA StutterCommitted == UNCHANGED vars => Committed' = Committed
<1> SUFFICES ASSUME UNCHANGED vars PROVE Committed' = Committed
  OBVIOUS
<1>1. UNCHANGED <<v_cells, phase, sinfos, stack, i_cur>>
  BY DEF vars, memVars, callVars
<1>2. \A st : Tentative(st)' = Tentative(st)
  BY <1>1 DEF Tentative
<1>3. Same
  BY <1>1, <1>2, StaySame
<1> QED
  BY <1>3, SameCommitted

-----------------------------------------------------------------------------
(* Saving: the buffer counts what the cells hold.                          *)

LEMMA SaveStore ==
  ASSUME StateOK, StateOK', Owned, OwnSaved', NEW s \in SeqId, StateWriteSeq(s)
  PROVE  SStore!Save(s)
<1> DEFINE h == seq_to_stream(s)
           M == Has(v_cells[h], s)
<1>1. /\ phase = "idle" /\ UNCHANGED vars /\ IInv /\ SavedOK' /\ OwnCells /\ CellCounts
      /\ saved'.kind = "seq" /\ \A st \in Stream : saved'.cells[st] = Written(st, Has(v_cells[st], s), {s})
  BY OwnIdle, CellsCounted DEF StateOK, Between, OwnAgree, StateWriteSeq
<1>2. h \in Stream
  BY StreamFacts
<1>3. PICK list : list = saved'.cells[h]
  OBVIOUS
<1>4. \A st \in Stream \ {h} : saved'.cells[st] = <<>>
  <2> SUFFICES ASSUME NEW st \in Stream \ {h} PROVE saved'.cells[st] = <<>>
    OBVIOUS
  <2>1. Has(v_cells[st], s) = {}
    BY <1>1 DEF Has, OwnCells
  <2> QED
    BY <1>1, <2>1, WrittenNone
<1>5. M \in SUBSET Cell /\ Lists(list, h, M, {s})
  BY <1>1, <1>2, <1>3, WriteSeqLists
<1>6. ASSUME NEW p \in Pos
      PROVE  Any(p)' = Committed[s][p]
  <2> DEFINE B == CellsAt(v_cells[h].pos, v_cells[h].seq, s, p)
  <2>1. Any(p)' = Cardinality(HomeItems(h, p)')
    BY <1>1, <1>2, <1>4, HomeCountedNext, StreamNext DEF HomeCounts, seq_to_stream, Pos, HomeItems
  <2>2. HomeItems(h, p)' = {k \in DOMAIN list : list[k].pos = p}
    BY <1>3 DEF HomeItems, seq_to_stream
  <2>3. \A k \in 1 .. Cardinality(M) : list[k].pos = p <=> Nth(M, k) \in B
    <3> SUFFICES ASSUME NEW k \in 1 .. Cardinality(M) PROVE list[k].pos = p <=> Nth(M, k) \in B
      OBVIOUS
    <3>1. list[k].pos = v_cells[h].pos[Nth(M, k)]
      BY <1>5 DEF Lists, ItemOf
    <3>2. Nth(M, k) \in M
      BY <1>5, NthInOrder DEF InOrder
    <3> QED
      BY <3>1, <3>2 DEF CellsAt, Has
  <2>4. DOMAIN list = 1 .. Cardinality(M)
    BY <1>5 DEF Lists
  <2>5. HomeItems(h, p)' = {k \in 1 .. Cardinality(M) : Nth(M, k) \in B}
    BY <2>2, <2>3, <2>4
  <2>6. B \in SUBSET M
    BY DEF CellsAt, Has
  <2>7. Committed[s][p] = Cardinality(B)
    BY <1>1 DEF CellCounts
  <2> HIDE DEF M, B
  <2> QED
    BY <1>5, <2>1, <2>5, <2>6, <2>7, NthCount
<1>7. Committed[s] = [p \in Pos |-> Committed[s][p]]
  BY CommittedType
<1>8. Buffer' = [kind |-> "seq", held |-> [t \in {0} |-> [p \in Pos |-> Any(p)']]]
  BY <1>1 DEF Buffer
<1>9. [p \in Pos |-> Any(p)'] = Committed[s]
  BY <1>6, <1>7, Zenon
<1>10. Committed' = Committed
  BY <1>1, StutterCommitted
<1> QED
  BY <1>8, <1>9, <1>10 DEF SStore!Save, SStore!One

LEMMA SaveAllStore ==
  ASSUME StateOK, StateOK', Owned, OwnSaved', StateWriteAll
  PROVE  SStore!SaveAll
<1>1. /\ phase = "idle" /\ UNCHANGED vars /\ IInv /\ SavedOK' /\ OwnCells /\ CellCounts
      /\ saved'.kind = "all" /\ \A st \in Stream : saved'.cells[st] = Written(st, v_cells[st].used, SeqId)
  BY OwnIdle, CellsCounted DEF StateOK, Between, OwnAgree, StateWriteAll
<1>2. ASSUME NEW s \in SeqId
      PROVE  Total(s)' = Committed[s]
  <2> DEFINE h == seq_to_stream(s)
             M == v_cells[h].used
  <2>1. h \in Stream
    BY StreamFacts
  <2>2. PICK list : list = saved'.cells[h]
    OBVIOUS
  <2>3. M \in SUBSET Cell /\ Lists(list, h, M, SeqId)
    BY <1>1, <2>1, <2>2, WriteAllLists
  <2>4. ASSUME NEW p \in Pos
        PROVE  Total(s)'[p] = Committed[s][p]
    <3> DEFINE B == CellsAt(v_cells[h].pos, v_cells[h].seq, s, p)
    <3>1. Total(s)'[p] = Cardinality(OwnItems(h, s, p)')
      BY <1>1, OwnCountedNext DEF OwnCounts, seq_to_stream, SeqId, Pos, OwnItems, HomeItems
    <3>2. OwnItems(h, s, p)' = {k \in DOMAIN list : list[k].pos = p /\ s \in list[k].seq}
      BY <2>2 DEF OwnItems, HomeItems, seq_to_stream
    <3>3. \A k \in 1 .. Cardinality(M) : list[k].pos = p /\ s \in list[k].seq <=> Nth(M, k) \in B
      <4> SUFFICES ASSUME NEW k \in 1 .. Cardinality(M)
                   PROVE  list[k].pos = p /\ s \in list[k].seq <=> Nth(M, k) \in B
        OBVIOUS
      <4>1. list[k].pos = v_cells[h].pos[Nth(M, k)] /\ list[k].seq = v_cells[h].seq[Nth(M, k)] \cap SeqId
        BY <2>3 DEF Lists, ItemOf
      <4>2. Nth(M, k) \in Cell
        BY <2>3, NthInOrder DEF InOrder
      <4> QED
        BY <4>1, <4>2 DEF CellsAt
    <3>4. DOMAIN list = 1 .. Cardinality(M)
      BY <2>3 DEF Lists
    <3>5. OwnItems(h, s, p)' = {k \in 1 .. Cardinality(M) : Nth(M, k) \in B}
      BY <3>2, <3>3, <3>4
    <3>6. B \in SUBSET M
      <4>1. /\ \A i \in Cell : v_cells[h].pos[i] = Empty <=> v_cells[h].seq[i] = {}
            /\ M = {i \in Cell : v_cells[h].pos[i] # Empty}
        BY <1>1, <2>1, CellsOfStream DEF Sound, Consistent
      <4> QED
        BY <4>1 DEF CellsAt
    <3>7. Committed[s][p] = Cardinality(B)
      BY <1>1 DEF CellCounts
    <3> HIDE DEF M, B
    <3> QED
      BY <2>3, <3>1, <3>5, <3>6, <3>7, NthCount
  <2>5. Committed[s] = [p \in Pos |-> Committed[s][p]]
    BY CommittedType
  <2>6. Total(s)' = [p \in Pos |-> Total(s)'[p]]
    BY <1>1, OwnCountedNext DEF OwnCounts, SeqId, Pos
  <2> QED
    BY <2>4, <2>5, <2>6, Zenon
<1>3. Buffer' = [kind |-> "all", held |-> [s \in SeqId |-> Total(s)']]
  BY <1>1 DEF Buffer, SeqId
<1>4. Committed = [s \in SeqId |-> Committed[s]]
  BY CommittedType
<1>5. [s \in SeqId |-> Total(s)'] = Committed
  BY <1>2, <1>4, Zenon
<1>6. Committed' = Committed
  BY <1>1, StutterCommitted
<1> QED
  BY <1>3, <1>5, <1>6 DEF SStore!SaveAll, SStore!All

-----------------------------------------------------------------------------
(* Restoring: the cells hold what the buffer counts.                       *)

LEMMA RestoreStore ==
  ASSUME NSwa = 0, StateOK, StateOK', OneSaved, NEW s \in SeqId, StateReadSeq(s)
  PROVE  Buffer' = Buffer => SStore!Restore(s)
<1> DEFINE h == Least(Used)
           st == seq_to_stream(s)
<1>1. /\ phase = "idle" /\ Used # {} /\ saved.kind = "seq" /\ UNCHANGED <<callVars, saved>>
      /\ ReadPlaces(s) \/ ReadFails(s)
      /\ IInv /\ IInv' /\ SavedOK
  BY ReadSplit DEF StateOK
<1>2. /\ h \in Stream /\ \A x \in Stream \ {h} : saved.cells[x] = <<>>
  <2>1. h \in Used /\ Used \in SUBSET Stream
    BY <1>1, UsedFacts
  <2>2. PICK g \in Stream : \A x \in Stream \ {g} : saved.cells[x] = <<>>
    BY <1>1 DEF OneSaved
  <2>3. h = g
    <3> HIDE DEF h
    <3> QED
      BY <2>1, <2>2 DEF Used
  <2> QED
    BY <2>2, <2>3
<1>3. /\ Len(List) \in 1 .. Size /\ DOMAIN List = 1 .. Len(List) /\ DOMAIN ReadSlot(s) \in SUBSET Cell
      /\ \A i \in DOMAIN ReadSlot(s) : ReadSlot(s)[i] \in 1 .. Len(List)
      /\ List \in Seq(Item)
  BY <1>1, ReadFacts
<1>4. \A p \in Pos : Any(p) = Cardinality(HomeItems(h, p))
  BY <1>1, <1>2, HomeCounted DEF HomeCounts
<1>5. st \in Stream /\ phase' = "idle"
  BY <1>1, StreamFacts DEF callVars
<1>6. CellCounts /\ CellCounts'
  BY <1>1, <1>5, CellsCounted, CellsCountedNext DEF Between
<1> DEFINE N(t, p) == CellsAt(v_cells'[seq_to_stream(t)].pos, v_cells'[seq_to_stream(t)].seq, t, p)
<1>7. \A t \in SeqId : \A p \in Pos : Committed'[t][p] = Cardinality(N(t, p))
  BY <1>6 DEF CellCounts, seq_to_stream, CellsAt, Cell, SeqId, Pos
<1>8. ASSUME NEW t \in SeqId \ {s}, NEW p \in Pos
      PROVE  Committed'[t][p] = Committed[t][p]
  <2> DEFINE v == v_cells[seq_to_stream(t)]
             w == v_cells'[seq_to_stream(t)]
  <2>1. seq_to_stream(t) \in Stream
    BY StreamFacts
  <2>2. \A i \in Cell : v.pos[i] = Empty <=> v.seq[i] = {}
    BY <1>1, <2>1, CellsOfStream
  <2>3. \A i \in Cell : t \in w.seq[i] /\ w.pos[i] = p <=> t \in v.seq[i] /\ v.pos[i] = p
    <3>1. CASE seq_to_stream(t) = st
      <4> SUFFICES ASSUME NEW i \in Cell
                   PROVE  t \in w.seq[i] /\ w.pos[i] = p <=> t \in v.seq[i] /\ v.pos[i] = p
        OBVIOUS
      <4>1. /\ w.seq[i] \ {s} = v.seq[i] \ {s}
            /\ w.seq[i] \ {s} # {} => w.pos[i] = v.pos[i]
        BY <3>1, ReadSeqCells
      <4> HIDE DEF v, w
      <4> QED
        BY <4>1
    <3>2. CASE seq_to_stream(t) # st
      BY <1>1, <2>1, <3>2, ReadSeqOthers
    <3> QED
      BY <3>1, <3>2
  <2> HIDE DEF v, w
  <2>4. CellsAt(w.pos, w.seq, t, p) = CellsAt(v.pos, v.seq, t, p)
    BY <2>3 DEF CellsAt
  <2>5. Committed[t][p] = Cardinality(CellsAt(v.pos, v.seq, t, p))
    BY <1>6 DEF CellCounts, v
  <2> QED
    BY <1>7, <2>4, <2>5 DEF w
<1>9. ASSUME ReadPlaces(s)
      PROVE  Committed' = [Committed EXCEPT ![s] = [p \in Pos |-> Any(p)]]
  <2>1. Fills(ReadSlot(s), Len(List))
    BY <1>1, <1>9, ReadVacant DEF ReadPlaces
  <2>2. ASSUME NEW p \in Pos
        PROVE  Committed'[s][p] = Any(p)
    <3> DEFINE D == N(s, p)
    <3>1. PICK slot, list : slot = ReadSlot(s) /\ list = List
      OBVIOUS
    <3>2. \A i \in Cell : i \in D <=> i \in DOMAIN slot /\ list[slot[i]].pos = p
      <4> SUFFICES ASSUME NEW i \in Cell PROVE i \in D <=> i \in DOMAIN slot /\ list[slot[i]].pos = p
        OBVIOUS
      <4>1. /\ s \in v_cells'[st].seq[i] <=> i \in DOMAIN slot
            /\ i \in DOMAIN slot => v_cells'[st].pos[i] = list[slot[i]].pos
        BY <1>9, <3>1, ReadSeqCells
      <4> QED
        BY <4>1 DEF CellsAt
    <3>3. D \in SUBSET Cell
      BY DEF CellsAt
    <3>4. D = {i \in DOMAIN slot : list[slot[i]].pos = p}
      BY <1>3, <3>1, <3>2, <3>3
    <3>5. HomeItems(h, p) = {k \in 1 .. Len(list) : list[k].pos = p}
      BY <1>3, <3>1 DEF HomeItems, List
    <3> DEFINE f == [i \in D |-> slot[i]]
               B == HomeItems(h, p)
    <3>6. \A i \in D : i \in DOMAIN slot /\ list[slot[i]].pos = p /\ slot[i] \in 1 .. Len(list)
      BY <1>3, <3>1, <3>4
    <3>7. f = [i \in D |-> f[i]] /\ \A i \in D : f[i] = slot[i]
      OBVIOUS
    <3>8. IsFiniteSet(D)
      BY <3>3, CellFinite
    <3>9. Committed'[s][p] = Cardinality(D)
      BY <1>7
    <3> HIDE DEF D, f
    <3>10. \A i \in D : f[i] \in B
      BY <3>5, <3>6, <3>7
    <3>11. \A i, j \in D : f[i] = f[j] => i = j
      BY <2>1, <3>1, <3>6, <3>7 DEF Fills
    <3>12. ASSUME NEW k \in B
           PROVE  \E i \in D : f[i] = k
      <4>1. k \in 1 .. Len(list) /\ list[k].pos = p
        BY <3>5
      <4>2. PICK i \in DOMAIN slot : slot[i] = k
        BY <2>1, <3>1, <4>1 DEF Fills
      <4>3. i \in D
        BY <3>4, <4>1, <4>2
      <4> QED
        BY <3>7, <4>2, <4>3
    <3> HIDE DEF B
    <3>13. Cardinality(B) = Cardinality(D)
      BY <3>7, <3>8, <3>10, <3>11, <3>12, SameCount
    <3> QED
      BY <1>4, <3>9, <3>13 DEF B
  <2> DEFINE g == [p \in Pos |-> Any(p)]
  <2>3. g = [p \in Pos |-> g[p]] /\ \A p \in Pos : Committed'[s][p] = g[p]
    BY <2>2
  <2> HIDE DEF g
  <2>4. Committed' = [Committed EXCEPT ![s] = g]
    BY <1>8, <2>3, OneChanges
  <2> QED
    BY <2>4 DEF g
<1>10. ASSUME ReadFails(s)
       PROVE  Committed' = [Committed EXCEPT ![s] = [p \in Pos |-> 0]]
  <2>1. ASSUME NEW p \in Pos
        PROVE  Committed'[s][p] = 0
    <3>1. \A i \in Cell : s \notin v_cells'[st].seq[i]
      BY <1>10, ReadSeqCells
    <3>2. N(s, p) = {}
      BY <3>1 DEF CellsAt
    <3> QED
      BY <1>7, <3>2, NoCells
  <2> DEFINE g == [p \in Pos |-> 0]
  <2>2. g = [p \in Pos |-> g[p]] /\ \A p \in Pos : Committed'[s][p] = g[p]
    BY <2>1
  <2> HIDE DEF g
  <2>3. Committed' = [Committed EXCEPT ![s] = g]
    BY <1>8, <2>2, OneChanges
  <2> QED
    BY <2>3 DEF g
<1>11. \/ Committed' = [Committed EXCEPT ![s] = [p \in Pos |-> Any(p)]]
       \/ Committed' = [Committed EXCEPT ![s] = [p \in Pos |-> 0]]
  BY <1>1, <1>9, <1>10
<1>12. [p \in Pos |-> Any(p)] # [p \in Pos |-> 0]
  <2>1. 1 \in DOMAIN List /\ List[1].pos \in Pos
    <3>1. 1 \in 1 .. Len(List)
      BY <1>3
    <3> QED
      BY <1>3, <3>1, ItemsOf
  <2>2. PICK p \in Pos : p = List[1].pos
    BY <2>1
  <2>3. 1 \in HomeItems(h, p) /\ HomeItems(h, p) \in SUBSET DOMAIN saved.cells[h]
    BY <2>1, <2>2 DEF HomeItems, List
  <2>4. Any(p) # 0
    BY <1>1, <1>2, <1>4, <2>3, ItemsFinite
  <2> QED
    BY <2>4
<1>13. Buffer.kind = "seq" /\ Buffer.held[0] = [p \in Pos |-> Any(p)]
  BY <1>1 DEF Buffer
<1> QED
  BY <1>11, <1>12, <1>13 DEF SStore!Restore, SStore!Nothing

LEMMA RestoreAllStore ==
  ASSUME ~Whole, StateOK, StateOK', OwnSaved, StateReadAll
  PROVE  Buffer' = Buffer => SStore!RestoreAll
<1> DEFINE last == Most(Used)
<1>1. /\ phase = "idle" /\ Used # {} /\ saved.kind = "all" /\ UNCHANGED <<callVars, saved>>
      /\ Cardinality(Used) = 1 /\ IInv' /\ SavedOK
  BY DEF StateReadAll, StateOK
<1>2. last \in Used /\ last \in Stream /\ \A x \in Stream \ {last} : saved.cells[x] = <<>>
  <2>1. last \in Used /\ Used \in SUBSET Stream
    BY <1>1, UsedFacts
  <2>2. IsFiniteSet(Used)
    <3>1. Stream \in SUBSET (0 .. NSeqMax - 1) /\ IsFiniteSet(0 .. NSeqMax - 1)
      BY NSeqMaxAssumption, FS_Interval DEF Stream, SeqId
    <3> QED
      BY <2>1, <3>1, FS_Subset
  <2>3. PICK x : Used = {x}
    BY <1>1, <2>2, FS_Singleton
  <2> HIDE DEF last
  <2> QED
    BY <2>1, <2>3 DEF Used
<1>3. Len(AllList) \in 1 .. Size /\ AllList \in Seq(Item) /\ Front(Len(AllList)) \in SUBSET Cell
  BY <1>1, AllFacts
<1>4. CellCounts'
  BY <1>1, CellsCountedNext DEF Between, callVars
<1>5. \A s \in SeqId : /\ Total(s) = [p \in Pos |-> Total(s)[p]]
                       /\ \A p \in Pos : Total(s)[p] = Cardinality(OwnItems(seq_to_stream(s), s, p))
  BY <1>1, OwnCounted DEF OwnCounts
<1>6. ASSUME NEW s \in SeqId, NEW p \in Pos
      PROVE  Committed'[s][p] = Total(s)[p]
  <2> DEFINE st == seq_to_stream(s)
             D == CellsAt(v_cells'[st].pos, v_cells'[st].seq, s, p)
             B == OwnItems(st, s, p)
  <2>1. Committed'[s][p] = Cardinality(D)
    BY <1>4 DEF CellCounts, seq_to_stream, CellsAt, Cell, SeqId, Pos
  <2>2. st \in Stream
    BY StreamFacts
  <2>3. PICK list : list = AllList
    OBVIOUS
  <2>4. \A i \in Cell : i \in D <=> /\ st = last /\ i \in Front(Len(list))
                                  /\ s \in list[i + 1].seq /\ list[i + 1].pos = p
    <3> SUFFICES ASSUME NEW i \in Cell
                 PROVE  i \in D <=> /\ st = last /\ i \in Front(Len(list))
                                   /\ s \in list[i + 1].seq /\ list[i + 1].pos = p
      OBVIOUS
    <3>1. LET front == st = last /\ i \in Front(Len(list))
          IN  /\ v_cells'[st].pos[i] = IF front THEN list[i + 1].pos ELSE Empty
              /\ v_cells'[st].seq[i] = IF front THEN list[i + 1].seq ELSE {}
      BY <2>2, <2>3, AllCells
    <3> HIDE DEF st, last
    <3> QED
      BY <3>1 DEF CellsAt
  <2>5. D \in SUBSET Cell
    BY DEF CellsAt
  <2>6. CASE st # last
    <3>1. D = {}
      BY <2>4, <2>5, <2>6
    <3>2. B = {}
      <4>1. saved.cells[st] = <<>> /\ DOMAIN <<>> = {}
        BY <1>2, <2>2, <2>6
      <4> QED
        BY <4>1 DEF OwnItems, HomeItems
    <3> QED
      BY <1>5, <2>1, <3>1, <3>2
  <2>7. CASE st = last
    <3> DEFINE f == [i \in D |-> i + 1]
    <3>1. list = saved.cells[st] /\ DOMAIN list = 1 .. Len(list) /\ Len(list) \in 1 .. Size
      BY <1>3, <2>3, <2>7 DEF AllList
    <3>2. B = {k \in 1 .. Len(list) : list[k].pos = p /\ s \in list[k].seq}
      BY <3>1 DEF OwnItems, HomeItems
    <3>3. D = {i \in 0 .. Len(list) - 1 : s \in list[i + 1].seq /\ list[i + 1].pos = p}
      <4>1. Front(Len(list)) \in SUBSET Cell
        BY <1>3, <2>3
      <4> HIDE DEF D
      <4> QED
        BY <2>4, <2>5, <2>7, <4>1 DEF Front
    <3>4. IsFiniteSet(D)
      BY <2>5, CellFinite
    <3>5. f = [i \in D |-> f[i]] /\ \A i \in D : f[i] = i + 1
      OBVIOUS
    <3> HIDE DEF D, B, f
    <3>6. \A i \in D : i \in Int /\ i + 1 \in B
      BY <3>1, <3>2, <3>3
    <3>7. \A i \in D : f[i] \in B
      BY <3>5, <3>6
    <3>8. \A i, j \in D : f[i] = f[j] => i = j
      BY <3>5, <3>6
    <3>9. ASSUME NEW k \in B
          PROVE  \E i \in D : f[i] = k
      <4>1. k - 1 \in 0 .. Len(list) - 1 /\ (k - 1) + 1 = k
        BY <3>1, <3>2
      <4>2. k - 1 \in D
        BY <3>2, <3>3, <4>1
      <4> QED
        BY <3>5, <4>1, <4>2
    <3>10. Cardinality(B) = Cardinality(D)
      BY <3>4, <3>5, <3>7, <3>8, <3>9, SameCount
    <3> QED
      BY <1>5, <2>1, <3>10 DEF B
  <2> QED
    BY <2>6, <2>7
<1> DEFINE F == [s \in SeqId |-> Total(s)]
<1>7. Committed' = F
  <2>1. F = [s \in SeqId |-> [p \in Pos |-> F[s][p]]]
    <3>1. \A s \in SeqId : F[s] = Total(s) /\ Total(s) = [p \in Pos |-> Total(s)[p]]
      BY <1>5
    <3>2. \A s \in SeqId : F[s] = [p \in Pos |-> F[s][p]]
      BY <3>1
    <3>3. F = [s \in SeqId |-> F[s]]
      OBVIOUS
    <3> HIDE DEF F
    <3> QED
      BY <3>2, <3>3
  <2>2. \A s \in SeqId : \A p \in Pos : Committed'[s][p] = F[s][p]
    BY <1>6
  <2> HIDE DEF F
  <2> QED
    BY <2>1, <2>2, CommittedIs
<1>8. \E s \in SeqId : Total(s) # [p \in Pos |-> 0]
  <2>1. 1 \in 1 .. Len(AllList)
    BY <1>3
  <2>2. PICK item : item = AllList[1]
    OBVIOUS
  <2>3. item.pos \in Pos /\ item.seq \in (SUBSET SeqId) \ {{}}
    BY <1>3, <2>1, <2>2, ItemsOf
  <2>4. PICK s \in SeqId : s \in item.seq
    BY <2>3
  <2>5. seq_to_stream(s) = last
    BY <1>2, <2>1, <2>2, <2>4 DEF OwnSaved, AllList
  <2>6. PICK p \in Pos : p = item.pos
    BY <2>3
  <2>7. 1 \in OwnItems(last, s, p) /\ OwnItems(last, s, p) \in SUBSET DOMAIN saved.cells[last]
    <3>1. DOMAIN AllList = 1 .. Len(AllList)
      BY <1>3
    <3> QED
      BY <2>1, <2>2, <2>4, <2>6, <3>1 DEF OwnItems, HomeItems, AllList
  <2>8. Total(s)[p] # 0
    BY <1>1, <1>2, <1>5, <2>5, <2>7, ItemsFinite
  <2> QED
    BY <2>8
<1>9. Buffer.kind = "all" /\ Buffer.held = F
  BY <1>1 DEF Buffer
<1> QED
  BY <1>7, <1>8, <1>9 DEF SStore!RestoreAll, SStore!Nothing

-----------------------------------------------------------------------------
(* The refinement of SavedStore.                                           *)

LEMMA BufferKept ==
  ASSUME UNCHANGED saved
  PROVE  Buffer' = Buffer
BY DEF Buffer, Any, Total, Count, Stream, SeqId, Pos

(* The store without a buffer is part of the one with it.                  *)
LEMMA SameStore == Store!Next => SStore!Next
<1>1. Store!Clear <=> SStore!Clear
  BY DEF Store!Clear, SStore!Clear, Store!Nothing, SStore!Nothing
<1>2. /\ \A r : Store!Span(r) = SStore!Span(r)
      /\ \A s, R : Store!Without(s, R) = SStore!Without(s, R) /\ Store!Only(s, R) = SStore!Only(s, R)
      /\ \A s, R : Store!Tokens(s, R) = SStore!Tokens(s, R)
      /\ \A s : Store!Last(s) = SStore!Last(s)
  BY DEF Store!Span, SStore!Span, Store!Without, SStore!Without, Store!Only, SStore!Only,
         Store!Tokens, SStore!Tokens, Store!Last, SStore!Last, Store!Nothing, SStore!Nothing
<1>3. \A s, R : /\ Store!Remove(s, R) <=> SStore!Remove(s, R)
                /\ Store!RemoveAny(R) <=> SStore!RemoveAny(R)
  BY <1>2 DEF Store!Remove, SStore!Remove, Store!RemoveAny, SStore!RemoveAny
<1>4. \A s, t, R : /\ Store!Copy(s, t, R) <=> SStore!Copy(s, t, R)
                   /\ Store!Clone(s, t) <=> SStore!Clone(s, t)
                   /\ Store!Keep(s) <=> SStore!Keep(s)
  BY <1>2 DEF Store!Copy, SStore!Copy, Store!Clone, SStore!Clone, Store!Keep, SStore!Keep,
              Store!Nothing, SStore!Nothing
<1>5. \A s, R, d : /\ Store!Shift(s, R, d) <=> SStore!Shift(s, R, d)
                   /\ Store!Divide(s, R, d) <=> SStore!Divide(s, R, d)
  <2>1. \A S : Store!Cardinality(S) = SStore!Cardinality(S)
    BY Zenon DEF Store!Cardinality, SStore!Cardinality
  <2>2. \A s, R, d : Store!Shift(s, R, d) <=> SStore!Shift(s, R, d)
    BY <1>2 DEF Store!Shift, SStore!Shift
  <2>3. \A s, R, d : Store!Divide(s, R, d) <=> SStore!Divide(s, R, d)
    BY <1>2, <2>1 DEF Store!Divide, SStore!Divide
  <2> QED
    BY <2>2, <2>3
<1>6. \A len : Store!Extend(len) <=> SStore!Extend(len)
  BY <1>2 DEF Store!Extend, SStore!Extend
<1> QED
  BY <1>1, <1>2, <1>3, <1>4, <1>5, <1>6 DEF Store!Next, SStore!Next

LEMMA InitSavedStore == StateInit => SStore!SaveInit
<1> SUFFICES ASSUME StateInit PROVE SStore!SaveInit
  OBVIOUS
<1>1. Store!Init
  BY StoreInit DEF StateInit
<1>2. SavedOK /\ saved.kind = "seq" /\ \A st \in Stream : saved.cells[st] = <<>>
  BY InitState DEF StateInit, StateOK, None
<1>3. ASSUME NEW p \in Pos
      PROVE  Any(p) = 0
  <2>1. {x \in Stream \X (1 .. Size) :
           x[2] \in DOMAIN saved.cells[x[1]] /\ saved.cells[x[1]][x[2]].pos = p} = {}
    <3>1. DOMAIN <<>> = {}
      OBVIOUS
    <3> QED
      BY <1>2, <3>1
  <2> QED
    BY <2>1, NoCells DEF Any
<1>4. Buffer = [kind |-> "seq", held |-> [t \in {0} |-> [p \in Pos |-> 0]]]
  <2>1. [p \in Pos |-> Any(p)] = [p \in Pos |-> 0]
    BY <1>3
  <2> QED
    BY <1>2, <2>1 DEF Buffer
<1>5. SStore!Init
  BY <1>1 DEF Store!Init, SStore!Init, Store!Nothing, SStore!Nothing
<1> QED
  BY <1>4, <1>5 DEF SStore!SaveInit, SStore!Nothing

LEMMA StepSavedStore ==
  ASSUME NSwa = 0, Documented, MaxSeqs = 1 \/ ~Unified \/ "compute" \notin Faults, ~Whole,
         SavingInv, SavingInv', OwnedInv, OwnedInv', [StateNext]_<<vars, saved>>
  PROVE  [SStore!SaveNext]_<<Committed, Buffer>>
<1>1. /\ StateOK /\ StateOK' /\ StoreInv /\ StoreInv' /\ Owned /\ OwnSaved /\ OneSaved
      /\ OwnSaved'
  BY SavingFacts DEF SavingInv, OwnedInv, StateOK, StoreInv, Settled
<1>2. UNCHANGED saved => Buffer' = Buffer
  BY BufferKept
<1>3. CASE [Next]_vars /\ UNCHANGED saved
  <2>1. Store!Next \/ Committed' = Committed
    BY <1>1, <1>3, StoreStep
  <2> QED
    BY <1>2, <1>3, <2>1, SameStore DEF SStore!SaveNext
<1>4. CASE StateWriteAll
  BY <1>1, <1>4, SaveAllStore DEF SStore!SaveNext
<1>5. CASE \E s \in SeqId : StateWriteSeq(s)
  BY <1>1, <1>5, SaveStore DEF SStore!SaveNext
<1>6. CASE StateReadAll /\ UNCHANGED saved
  BY <1>1, <1>2, <1>6, RestoreAllStore DEF SStore!SaveNext
<1>7. CASE (\E s \in SeqId : StateReadSeq(s)) /\ UNCHANGED saved
  <2>1. PICK s \in SeqId : StateReadSeq(s)
    BY <1>7
  <2>2. SStore!Restore(s)
    BY <1>1, <1>2, <1>7, <2>1, RestoreStore
  <2> QED
    BY <2>2 DEF SStore!SaveNext
<1> QED
  BY <1>3, <1>4, <1>5, <1>6, <1>7, StateSteps DEF Saving, Restoring

(* Saving notes what a sequence, or all of them, hold; restoring gives     *)
(* this back in whatever cells there is room - or leaves the sequence      *)
(* empty -, touches no other sequence, and all other operations go on as   *)
(* documented, for an application that restores whole caches of one used   *)
(* stream only.                                                            *)
THEOREM CacheImplementsSaved ==
  ASSUME NSwa = 0, Documented, MaxSeqs = 1 \/ ~Unified \/ "compute" \notin Faults, ~Whole
  PROVE  StateSpec => ImplementsSaved
<1>1. SavingInv /\ SavingInv' /\ OwnedInv /\ [StateNext]_<<vars, saved>> => OwnedInv'
  BY NextOwnedSaved
<1>2. SavingInv /\ SavingInv' /\ OwnedInv /\ OwnedInv' /\ [StateNext]_<<vars, saved>>
        => [SStore!SaveNext]_<<Committed, Buffer>>
  BY StepSavedStore
<1> QED
  BY SavingInvariance, InitOwnedSaved, InitSavedStore, <1>1, <1>2, PTL
     DEF StateSpec, ImplementsSaved, SStore!SaveSpec
=============================================================================
