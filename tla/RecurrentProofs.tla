-------------------------- MODULE RecurrentProofs --------------------------
(***************************************************************************)
(* Theorems about the memory of recurrent models, for every number of      *)
(* cells, snapshots and groups: its bookkeeping is right after every       *)
(* operation, restore and micro-batch, no assertion of find_slot fails,    *)
(* and every sequence has the state its own history gives it (StateStore). *)
(***************************************************************************)
EXTENDS RecurrentMemory, FiniteSetTheorems, SequenceTheorems, WellFoundedInduction, TLAPS

-----------------------------------------------------------------------------
(* Numbers, and functions defined by recursion on them.                    *)

LEMMA MinNat ==
  ASSUME NEW S \in SUBSET Nat, S # {}
  PROVE  Min(S) \in S /\ \A y \in S : Min(S) <= y
<1> DEFINE R == {ss \in Nat \X Nat : ss[1] < ss[2]}
<1>1. IsWellFoundedOn(R, Nat)
  BY NatLessThanWellFounded DEF OpToRel
<1>2. \A x, y \in Nat : <<y, x>> \in R <=> y < x
  OBVIOUS
<1> HIDE DEF R
<1>3. PICK x \in S : \A y \in S : ~(<<y, x>> \in R)
  BY <1>1, WFMin, Zenon
<1>4. \A y \in S : x <= y
  <2>1. \A y \in S : ~(y < x)
    BY <1>2, <1>3, Zenon
  <2> QED
    BY <2>1, SMT
<1> QED
  BY <1>4 DEF Min

LEMMA MaxInt ==
  ASSUME NEW N \in Int, NEW S \in SUBSET Int, S # {}, \A x \in S : x <= N
  PROVE  Max(S) \in S /\ \A y \in S : y <= Max(S)
<1> DEFINE T == {N - x : x \in S}
<1>1. T \in SUBSET Nat /\ T # {}
  <2>1. \A x \in S : N - x \in Nat
    BY SMT
  <2> QED
    BY <2>1, Zenon
<1>2. Min(T) \in T /\ \A y \in T : Min(T) <= y
  BY <1>1, MinNat
<1>3. PICK x \in S : Min(T) = N - x
  BY <1>2
<1>4. \A y \in S : N - x <= N - y
  BY <1>2, <1>3
<1>5. \A y \in S : x >= y
  BY <1>4
<1>6. Max(S) \in S /\ \A y \in S : Max(S) >= y
  BY <1>5 DEF Max
<1> QED
  BY <1>6

LEMMA Induct ==
  ASSUME NEW n \in Nat, NEW P, 0 \in P, \A k \in 1 .. n : k - 1 \in P => k \in P
  PROVE  \A k \in 0 .. n : k \in P
<1> DEFINE Bad == {k \in 0 .. n : k \notin P}
<1>1. SUFFICES ASSUME Bad # {} PROVE FALSE
  OBVIOUS
<1>2. Bad \in SUBSET Nat
  OBVIOUS
<1>3. PICK b \in Bad : \A y \in Bad : b <= y
  <2> HIDE DEF Bad
  <2> QED
    BY <1>1, <1>2, MinNat
<1>4. b # 0 /\ b \in 0 .. n /\ b - 1 \notin Bad
  BY <1>3
<1> QED
  BY <1>3, <1>4

(* A recursion whose step is a function has a solution.                    *)
IsRun(f, n, b, G) == f = [k \in 0 .. n |-> IF k = 0 THEN b ELSE G[<<k, f[k - 1]>>]]

LEMMA RunExists ==
  ASSUME NEW n \in Nat, NEW b, NEW G
  PROVE  \E f : IsRun(f, n, b, G)
<1> DEFINE Upward(f, m) == /\ f = [k \in 0 .. m |-> f[k]] /\ f[0] = b
                           /\ \A k \in 1 .. m : f[k] = G[<<k, f[k - 1]>>]
           P == {m \in 0 .. n : \E f : Upward(f, m)}
<1>1. 0 \in P
  <2> DEFINE g == [k \in 0 .. 0 |-> b]
  <2>1. g = [k \in 0 .. 0 |-> g[k]] /\ g[0] = b /\ \A k \in 1 .. 0 : FALSE
    OBVIOUS
  <2> HIDE DEF g
  <2>2. Upward(g, 0)
    BY <2>1
  <2> QED
    BY <2>2
<1>2. ASSUME NEW m \in 1 .. n, m - 1 \in P
      PROVE  m \in P
  <2>1. PICK f : Upward(f, m - 1)
    BY <1>2
  <2> DEFINE g == [k \in 0 .. m |-> IF k = m THEN G[<<m, f[m - 1]>>] ELSE f[k]]
  <2>2. /\ g = [k \in 0 .. m |-> g[k]] /\ g[m] = G[<<m, f[m - 1]>>]
        /\ \A k \in 0 .. m - 1 : g[k] = f[k]
    OBVIOUS
  <2> HIDE DEF g
  <2>3. g[0] = b
    <3>1. 0 \in 0 .. m - 1 /\ f[0] = b
      BY <2>1
    <3> QED
      BY <2>2, <3>1
  <2>4. ASSUME NEW k \in 1 .. m
        PROVE  g[k] = G[<<k, g[k - 1]>>]
    <3>1. k - 1 \in 0 .. m - 1
      OBVIOUS
    <3>2. g[k - 1] = f[k - 1]
      BY <2>2, <3>1
    <3>3. CASE k = m
      BY <2>2, <3>2, <3>3
    <3>4. CASE k # m
      <4>1. k \in 1 .. m - 1 /\ k \in 0 .. m - 1
        BY <3>4
      <4>2. g[k] = f[k] /\ f[k] = G[<<k, f[k - 1]>>]
        BY <2>1, <2>2, <4>1
      <4> QED
        BY <3>2, <4>2
    <3> QED
      BY <3>3, <3>4
  <2>5. \A k \in 1 .. m : g[k] = G[<<k, g[k - 1]>>]
    BY <2>4
  <2>6. Upward(g, m)
    BY <2>2, <2>3, <2>5, Zenon
  <2>7. m \in 0 .. n /\ \E h : Upward(h, m)
    <3> HIDE DEF Upward
    <3> QED
      BY <2>6
  <2> QED
    BY <2>7, Zenon
<1> HIDE DEF P
<1>3. n \in P
  BY <1>1, <1>2, Induct
<1>4. PICK f : Upward(f, n)
  BY <1>3 DEF P
<1> DEFINE F == [k \in 0 .. n |-> IF k = 0 THEN b ELSE G[<<k, f[k - 1]>>]]
<1>5. F = [k \in 0 .. n |-> F[k]] /\ \A k \in 0 .. n : F[k] = IF k = 0 THEN b ELSE G[<<k, f[k - 1]>>]
  OBVIOUS
<1> HIDE DEF F
<1>6. ASSUME NEW k \in 0 .. n
      PROVE  F[k] = f[k]
  <2>1. CASE k = 0
    BY <1>4, <1>5, <2>1
  <2>2. CASE k # 0
    <3>1. k \in 1 .. n
      BY <2>2
    <3>2. F[k] = G[<<k, f[k - 1]>>]
      BY <1>5, <2>2
    <3>3. f[k] = G[<<k, f[k - 1]>>]
      BY <1>4, <3>1
    <3> QED
      BY <3>2, <3>3
  <2> QED
    BY <2>1, <2>2
<1>7. F = f
  BY <1>4, <1>5, <1>6
<1> QED
  BY <1>7 DEF F, IsRun

-----------------------------------------------------------------------------
(* The cells between operations.                                           *)

Mem == [pos    : [Cell -> Pos \cup {-1}],
        src    : [Cell -> Cell \cup {Nowhere}],
        tail   : [SeqId -> Cell \cup {Nowhere}],
        seqs   : [Cell -> SUBSET SeqId],
        head   : Cell, used : Int,
        rs_idx : [SeqId -> Group],
        aborted : BOOLEAN]

Full(m) == {c \in Cell : m.seqs[c] # {}}

Tails(m) == \A s \in SeqId, c \in Cell : m.tail[s] = c <=> s \in m.seqs[c]
Positions(m) == \A c \in Cell : m.pos[c] = -1 <=> m.seqs[c] = {}
Counted(m) == m.used = Cardinality(Full(m))

(* Between graphs every row that is in use lies in its own cell.           *)
AtHome(m) == \A c \in Cell : m.src[c] \in {c, Nowhere} /\ (m.seqs[c] # {} => m.src[c] = c)

Sane(m) == m \in Mem /\ ~m.aborted /\ Tails(m) /\ Positions(m) /\ Counted(m) /\ AtHome(m)

LEMMA CellFacts ==
  /\ 0 \in Cell /\ Cell \in SUBSET Nat /\ Cell \in SUBSET Int /\ SeqId = Cell
  /\ Nowhere \notin Cell /\ IsFiniteSet(Cell) /\ Cardinality(Cell) = Size
  /\ 0 \in Group /\ Group \in SUBSET Nat
  /\ Pos \in SUBSET Int /\ -1 \notin Pos
<1>1. IsFiniteSet(0 .. Size - 1) /\ Cardinality(0 .. Size - 1) = Size
  BY SizesAssumption, FS_Interval
<1> QED
  BY <1>1, SizesAssumption, BoundsAssumption DEF Cell, SeqId, Nowhere, Group, Pos

LEMMA PartOfCells ==
  ASSUME NEW C \in SUBSET Cell
  PROVE  IsFiniteSet(C) /\ Cardinality(C) \in Nat /\ Cardinality(C) <= Size
BY CellFacts, FS_Subset, FS_CardinalityType

LEMMA SomeCell ==
  ASSUME NEW C \in SUBSET Cell, C # {}
  PROVE  Min(C) \in C /\ (\A c \in C : Min(C) <= c) /\ Max(C) \in C /\ (\A c \in C : c <= Max(C))
<1>1. C \in SUBSET Nat /\ C \in SUBSET Int /\ Size \in Int /\ \A c \in C : c <= Size
  BY SizesAssumption DEF Cell
<1> QED
  BY <1>1, MinNat, MaxInt

(* Fields of a changed record.                                             *)
LEMMA LowerHeadFacts ==
  ASSUME NEW m \in Mem, NEW C \in SUBSET Cell
  PROVE  LET h == LowerHead(m, C)
         IN  /\ h \in Mem /\ h.pos = m.pos /\ h.src = m.src /\ h.tail = m.tail /\ h.seqs = m.seqs
             /\ h.used = m.used /\ h.rs_idx = m.rs_idx /\ h.aborted = m.aborted
<1>1. C # {} => Min(C) \in Cell
  BY SomeCell
<1> QED
  BY <1>1 DEF LowerHead, Mem

Released(m, C, S, r) ==
  LET gone == Emptied(m, C, S)
  IN  /\ gone \in SUBSET C
      /\ r \in Mem /\ r.tail = m.tail /\ r.rs_idx = m.rs_idx /\ r.aborted = m.aborted
      /\ r.head = m.head
      /\ \A c \in Cell : r.seqs[c] = IF c \in C THEN m.seqs[c] \ S ELSE m.seqs[c]
      /\ \A c \in Cell : r.pos[c] = IF c \in gone THEN -1 ELSE m.pos[c]
      /\ \A c \in Cell : r.src[c] = IF c \in gone THEN Nowhere ELSE m.src[c]
      /\ r.used = m.used - Cardinality(gone)

LEMMA ReleaseFacts ==
  ASSUME NEW m \in Mem, NEW C \in SUBSET Cell, NEW S \in SUBSET SeqId
  PROVE  Released(m, C, S, Release(m, C, S))
<1> DEFINE gone == Emptied(m, C, S)
<1>1. gone \in SUBSET C /\ Cardinality(gone) \in Int
  BY PartOfCells DEF Emptied
<1> HIDE DEF gone
<1> DEFINE q == [c \in Cell |-> IF c \in C THEN m.seqs[c] \ S ELSE m.seqs[c]]
           p == [c \in Cell |-> IF c \in gone THEN -1 ELSE m.pos[c]]
           w == [c \in Cell |-> IF c \in gone THEN Nowhere ELSE m.src[c]]
           u == m.used - Cardinality(gone)
<1>2. Release(m, C, S) = [m EXCEPT !.seqs = q, !.pos = p, !.src = w, !.used = u]
  BY DEF Release, gone, Mem
<1>3. q \in [Cell -> SUBSET SeqId] /\ p \in [Cell -> Pos \cup {-1}]
      /\ w \in [Cell -> Cell \cup {Nowhere}] /\ u \in Int
  BY <1>1 DEF Mem
<1>4. /\ \A c \in Cell : q[c] = IF c \in C THEN m.seqs[c] \ S ELSE m.seqs[c]
      /\ \A c \in Cell : p[c] = IF c \in gone THEN -1 ELSE m.pos[c]
      /\ \A c \in Cell : w[c] = IF c \in gone THEN Nowhere ELSE m.src[c]
  OBVIOUS
<1>5. u = m.used - Cardinality(gone)
  OBVIOUS
<1> HIDE DEF q, p, w, u
<1>6. /\ Release(m, C, S) \in Mem /\ Release(m, C, S).tail = m.tail
      /\ Release(m, C, S).rs_idx = m.rs_idx /\ Release(m, C, S).aborted = m.aborted
      /\ Release(m, C, S).head = m.head
      /\ Release(m, C, S).seqs = q /\ Release(m, C, S).pos = p /\ Release(m, C, S).src = w
      /\ Release(m, C, S).used = u
  BY <1>2, <1>3 DEF Mem
<1> QED
  BY <1>1, <1>4, <1>5, <1>6 DEF Released, gone

(* Cells that become empty are taken off the counter.                      *)
LEMMA CountGone ==
  ASSUME NEW m \in Mem, NEW r \in Mem, Counted(m), NEW gone \in SUBSET Full(m),
         Full(r) = Full(m) \ gone, r.used = m.used - Cardinality(gone)
  PROVE  Counted(r)
<1>1. Full(m) \in SUBSET Cell /\ IsFiniteSet(Full(m)) /\ Full(m) \cap gone = gone
  BY PartOfCells DEF Full
<1>2. Cardinality(Full(r)) = Cardinality(Full(m)) - Cardinality(gone)
  BY <1>1, FS_Difference
<1> QED
  BY <1>2 DEF Counted

LEMMA SaneNoCells == Sane(NoCells)
<1>1. NoCells \in Mem
  BY CellFacts DEF NoCells, Mem
<1>2. Full(NoCells) = {} /\ NoCells.used = 0
  BY DEF Full, NoCells
<1>3. Counted(NoCells)
  BY <1>2, FS_EmptySet DEF Counted
<1>4. Tails(NoCells) /\ Positions(NoCells) /\ AtHome(NoCells) /\ ~NoCells.aborted
  BY CellFacts DEF Tails, Positions, AtHome, NoCells
<1> QED
  BY <1>1, <1>3, <1>4 DEF Sane

(* A sequence leaves its only cell.                                        *)
Left(m, s, r) ==
  LET gone == Emptied(m, {m.tail[s]}, {s})
  IN  /\ r \in Mem /\ r.aborted = m.aborted
      /\ \A t \in SeqId : r.tail[t] = IF t = s THEN Nowhere ELSE m.tail[t]
      /\ \A c \in Cell : r.seqs[c] = IF c = m.tail[s] THEN m.seqs[c] \ {s} ELSE m.seqs[c]
      /\ \A c \in Cell : r.pos[c] = IF c \in gone THEN -1 ELSE m.pos[c]
      /\ \A c \in Cell : r.src[c] = IF c \in gone THEN Nowhere ELSE m.src[c]
      /\ r.used = m.used - Cardinality(gone)

LEMMA LeaveTail ==
  ASSUME NEW m, Sane(m), NEW s \in SeqId, m.tail[s] \in Cell, NEW r, Left(m, s, r)
  PROVE  Sane(r)
<1> DEFINE gone == Emptied(m, {m.tail[s]}, {s})
<1>0. /\ r \in Mem /\ r.aborted = m.aborted
      /\ \A t \in SeqId : r.tail[t] = IF t = s THEN Nowhere ELSE m.tail[t]
      /\ \A c \in Cell : r.seqs[c] = IF c = m.tail[s] THEN m.seqs[c] \ {s} ELSE m.seqs[c]
      /\ \A c \in Cell : r.pos[c] = IF c \in gone THEN -1 ELSE m.pos[c]
      /\ \A c \in Cell : r.src[c] = IF c \in gone THEN Nowhere ELSE m.src[c]
      /\ r.used = m.used - Cardinality(gone)
  BY DEF Left
<1>1. gone \in SUBSET Full(m) /\ \A c \in gone : c = m.tail[s] /\ m.seqs[c] = {s}
  BY DEF Emptied, Full
<1>2. \A c \in Cell : r.seqs[c] = {} <=> m.seqs[c] = {} \/ c \in gone
  BY <1>0 DEF Emptied
<1> HIDE DEF gone
<1>3. Full(r) = Full(m) \ gone
  <2>1. \A c \in Cell : r.seqs[c] # {} <=> m.seqs[c] # {} /\ c \notin gone
    BY <1>2
  <2> QED
    BY <2>1 DEF Full
<1>4. Counted(r)
  BY <1>0, <1>1, <1>3, CountGone DEF Sane
<1>5. ASSUME NEW t \in SeqId, NEW c \in Cell
      PROVE  r.tail[t] = c <=> t \in r.seqs[c]
  <2>1. m.tail[t] = c <=> t \in m.seqs[c]
    BY DEF Sane, Tails
  <2>2. s \in m.seqs[c] <=> m.tail[s] = c
    BY DEF Sane, Tails
  <2>3. r.tail[t] = IF t = s THEN Nowhere ELSE m.tail[t]
    BY <1>0
  <2>4. t \in r.seqs[c] <=> t \in m.seqs[c] /\ ~(c = m.tail[s] /\ t = s)
    BY <1>0
  <2>5. c # Nowhere
    BY CellFacts
  <2> QED
    BY <2>1, <2>2, <2>3, <2>4, <2>5
<1>6. Positions(r) /\ AtHome(r)
  BY <1>0, <1>2 DEF Positions, AtHome, Sane
<1> QED
  BY <1>0, <1>4, <1>5, <1>6 DEF Sane, Tails

(* x is m when s has left its cell, if that is in the range.               *)
Gone(m, s, r, x) ==
  LET hit == m.tail[s] # Nowhere /\ InRange(m.pos[m.tail[s]], r)
  IN  /\ x.rs_idx = IF hit THEN [m.rs_idx EXCEPT ![s] = 0] ELSE m.rs_idx
      /\ x.tail = IF hit THEN [m.tail EXCEPT ![s] = Nowhere] ELSE m.tail
      /\ \A c \in Cell :
           /\ x.seqs[c] \in {m.seqs[c], m.seqs[c] \ {s}}
           /\ x.seqs[c] # {} => x.pos[c] = m.pos[c]
           /\ m.seqs[c] = {} => x.src[c] = m.src[c]
           /\ m.seqs[c] # {} /\ x.seqs[c] = {} => x.src[c] = Nowhere

LEMMA SaneRemoved ==
  ASSUME NEW m, Sane(m), NEW s \in SeqId, NEW r
  PROVE  Sane(Removed(m, s, r)) /\ Gone(m, s, r, Removed(m, s, r))
<1> DEFINE hit == m.tail[s] # Nowhere /\ InRange(m.pos[m.tail[s]], r)
           C == {c \in Cell : s \in m.seqs[c] /\ InRange(m.pos[c], r)}
           m1 == IF hit THEN set_rs_idx([m EXCEPT !.tail[s] = Nowhere], s, 0) ELSE m
           gone == Emptied(m, C, {s})
           x == Release(m1, C, {s})
<1>0. m \in Mem /\ m.tail[s] \in Cell \cup {Nowhere}
  BY DEF Sane, Mem
<1>1. C = IF hit THEN {m.tail[s]} ELSE {}
  <2>1. \A c \in Cell : m.tail[s] = c <=> s \in m.seqs[c]
    BY DEF Sane, Tails
  <2>2. m.tail[s] # Nowhere <=> m.tail[s] \in Cell
    BY <1>0, CellFacts
  <2>3. \A c : c \in C <=> c \in Cell /\ m.tail[s] = c /\ InRange(m.pos[c], r)
    BY <2>1
  <2>4. \A c : c \in C <=> hit /\ c = m.tail[s]
    BY <2>2, <2>3
  <2> HIDE DEF C, hit
  <2> QED
    BY <2>4
<1>2. /\ m1 \in Mem /\ m1.pos = m.pos /\ m1.src = m.src /\ m1.seqs = m.seqs /\ m1.head = m.head
      /\ m1.used = m.used /\ m1.aborted = m.aborted
      /\ m1.tail = IF hit THEN [m.tail EXCEPT ![s] = Nowhere] ELSE m.tail
      /\ m1.rs_idx = IF hit THEN [m.rs_idx EXCEPT ![s] = 0] ELSE m.rs_idx
  <2> DEFINE n1 == [m EXCEPT !.tail[s] = Nowhere]
  <2>1. /\ n1 \in Mem /\ n1.pos = m.pos /\ n1.src = m.src /\ n1.seqs = m.seqs /\ n1.head = m.head
        /\ n1.used = m.used /\ n1.aborted = m.aborted /\ n1.rs_idx = m.rs_idx
        /\ n1.tail = [m.tail EXCEPT ![s] = Nowhere]
    BY <1>0 DEF Mem
  <2>2. ~(0 > NRsSeq)
    BY SizesAssumption
  <2> HIDE DEF n1
  <2>3. set_rs_idx(n1, s, 0) = [n1 EXCEPT !.rs_idx[s] = 0]
    BY <2>2 DEF set_rs_idx
  <2> DEFINE n2 == set_rs_idx(n1, s, 0)
  <2>4. /\ n2 \in Mem /\ n2.pos = n1.pos /\ n2.src = n1.src /\ n2.seqs = n1.seqs /\ n2.head = n1.head
        /\ n2.used = n1.used /\ n2.aborted = n1.aborted /\ n2.tail = n1.tail
        /\ n2.rs_idx = [n1.rs_idx EXCEPT ![s] = 0]
    BY <2>1, <2>3, CellFacts DEF Mem
  <2>5. m1 = IF hit THEN n2 ELSE m
    BY DEF n1
  <2> HIDE DEF n2, hit, m1
  <2> QED
    BY <1>0, <2>1, <2>4, <2>5
<1>3. Removed(m, s, r) = LowerHead(x, gone)
  BY DEF Removed
<1>4. C \in SUBSET Cell /\ {s} \in SUBSET SeqId /\ Emptied(m1, C, {s}) = gone /\ gone \in SUBSET Cell
  BY <1>2 DEF Emptied
<1> HIDE DEF m1, C, gone
<1>5. /\ x \in Mem /\ x.tail = m1.tail /\ x.rs_idx = m1.rs_idx /\ x.aborted = m.aborted
      /\ \A c \in Cell : x.seqs[c] = IF c \in C THEN m.seqs[c] \ {s} ELSE m.seqs[c]
      /\ \A c \in Cell : x.pos[c] = IF c \in gone THEN -1 ELSE m.pos[c]
      /\ \A c \in Cell : x.src[c] = IF c \in gone THEN Nowhere ELSE m.src[c]
      /\ x.used = m.used - Cardinality(gone)
  <2>1. /\ x \in Mem /\ x.tail = m1.tail /\ x.rs_idx = m1.rs_idx /\ x.aborted = m1.aborted
        /\ \A c \in Cell : x.seqs[c] = IF c \in C THEN m1.seqs[c] \ {s} ELSE m1.seqs[c]
        /\ \A c \in Cell : x.pos[c] = IF c \in Emptied(m1, C, {s}) THEN -1 ELSE m1.pos[c]
        /\ \A c \in Cell : x.src[c] = IF c \in Emptied(m1, C, {s}) THEN Nowhere ELSE m1.src[c]
        /\ x.used = m1.used - Cardinality(Emptied(m1, C, {s}))
    <3>1. m1 \in Mem /\ C \in SUBSET Cell /\ {s} \in SUBSET SeqId /\ m1.aborted = m.aborted
      BY <1>2, <1>4
    <3>2. Released(m1, C, {s}, x)
      BY <3>1, ReleaseFacts, Zenon
    <3> HIDE DEF x
    <3> QED
      BY <3>1, <3>2 DEF Released
  <2> QED
    BY <1>2, <1>4, <2>1
<1> DEFINE y == LowerHead(x, gone)
<1> HIDE DEF x
<1>6. /\ y \in Mem /\ y.pos = x.pos /\ y.src = x.src /\ y.tail = x.tail /\ y.seqs = x.seqs
      /\ y.used = x.used /\ y.rs_idx = x.rs_idx /\ y.aborted = x.aborted
  BY <1>4, <1>5, LowerHeadFacts
<1> HIDE DEF y
<1>7. Sane(y)
  <2>1. CASE hit
    <3>1. C = {m.tail[s]} /\ m.tail[s] \in Cell
      BY <1>0, <1>1, <2>1
    <3>2. \A t \in SeqId : y.tail[t] = IF t = s THEN Nowhere ELSE m.tail[t]
      BY <1>0, <1>2, <1>5, <1>6, <2>1 DEF Mem
    <3>3. gone = Emptied(m, {m.tail[s]}, {s})
      BY <3>1 DEF gone
    <3>4. /\ y.aborted = m.aborted /\ y.used = m.used - Cardinality(gone)
          /\ \A c \in Cell : y.seqs[c] = IF c = m.tail[s] THEN m.seqs[c] \ {s} ELSE m.seqs[c]
          /\ \A c \in Cell : y.pos[c] = IF c \in gone THEN -1 ELSE m.pos[c]
          /\ \A c \in Cell : y.src[c] = IF c \in gone THEN Nowhere ELSE m.src[c]
      BY <1>5, <1>6, <3>1
    <3> HIDE DEF hit
    <3> QED
      <4>1. Left(m, s, y)
        BY <1>6, <3>2, <3>3, <3>4 DEF Left
      <4> QED
        BY <3>1, <4>1, LeaveTail, Zenon
  <2>2. CASE ~hit
    <3>1. C = {} /\ gone = {}
      BY <1>1, <2>2 DEF gone, Emptied
    <3>2. /\ y.tail = m.tail /\ y.used = m.used /\ y.aborted = m.aborted
          /\ \A c \in Cell : y.seqs[c] = m.seqs[c] /\ y.pos[c] = m.pos[c] /\ y.src[c] = m.src[c]
      BY <1>0, <1>2, <1>5, <1>6, <2>2, <3>1, FS_EmptySet DEF Mem
    <3>3. Full(y) = Full(m)
      BY <3>2 DEF Full
    <3> HIDE DEF hit
    <3> QED
      BY <1>6, <3>2, <3>3 DEF Sane, Tails, Positions, Counted, AtHome
  <2> QED
    BY <2>1, <2>2
<1>8. y.rs_idx = (IF hit THEN [m.rs_idx EXCEPT ![s] = 0] ELSE m.rs_idx)
      /\ y.tail = (IF hit THEN [m.tail EXCEPT ![s] = Nowhere] ELSE m.tail)
  BY <1>2, <1>5, <1>6
<1>9. ASSUME NEW c \in Cell
      PROVE  /\ y.seqs[c] \in {m.seqs[c], m.seqs[c] \ {s}}
             /\ y.seqs[c] # {} => y.src[c] = m.src[c] /\ y.pos[c] = m.pos[c]
             /\ y.src[c] \in {m.src[c], Nowhere}
             /\ m.seqs[c] = {} => y.src[c] = m.src[c]
             /\ m.seqs[c] # {} /\ y.seqs[c] = {} => y.src[c] = Nowhere
  <2>1. c \in gone <=> c \in C /\ m.seqs[c] # {} /\ m.seqs[c] \subseteq {s}
    BY DEF gone, Emptied
  <2> QED
    BY <1>5, <1>6, <2>1
<1>10. Gone(m, s, r, y)
  BY <1>8, <1>9 DEF Gone
<1> QED
  BY <1>3, <1>7, <1>10 DEF y

(* A cell that is in use gets another position.                            *)
LEMMA SaneMoved ==
  ASSUME NEW m, Sane(m), NEW t \in Cell, m.seqs[t] # {}, NEW p \in Pos
  PROVE  Sane([m EXCEPT !.pos[t] = p])
<1> DEFINE r == [m EXCEPT !.pos[t] = p]
<1>1. m \in Mem /\ p # -1
  BY CellFacts DEF Sane
<1>2. /\ r \in Mem /\ r.tail = m.tail /\ r.seqs = m.seqs /\ r.src = m.src
      /\ r.used = m.used /\ r.aborted = m.aborted
      /\ \A c \in Cell : r.pos[c] = IF c = t THEN p ELSE m.pos[c]
  BY <1>1 DEF Mem
<1> HIDE DEF r
<1>3. Full(r) = Full(m)
  BY <1>2 DEF Full
<1>4. Sane(r)
  BY <1>1, <1>2, <1>3 DEF Sane, Tails, Positions, Counted, AtHome
<1> QED
  BY <1>4 DEF r

TakenBack(m, s, r, x) ==
  /\ x.tail = m.tail /\ x.seqs = m.seqs /\ x.src = m.src
  /\ m.tail[s] \in Cell /\ Rollback(m, s, r) \in Group \ {0}
  /\ \A u \in SeqId : x.rs_idx[u] = IF u = s THEN Rollback(m, s, r) ELSE m.rs_idx[u]
  /\ \A c \in Cell : x.pos[c] = IF c = m.tail[s] THEN m.pos[c] - Rollback(m, s, r) ELSE m.pos[c]

LEMMA SaneRolledBack ==
  ASSUME NEW m, Sane(m), NEW s \in SeqId, NEW r \in Int \X Int,
         Cuts(m, s, r), Rollback(m, s, r) <= NRsSeq
  PROVE  Sane(RolledBack(m, s, r)) /\ TakenBack(m, s, r, RolledBack(m, s, r))
<1> DEFINE t == m.tail[s]
           m1 == set_rs_idx(m, s, Rollback(m, s, r))
<1>1. m \in Mem /\ t \in Cell /\ s \in m.seqs[t] /\ NRsSeq \in Nat
  BY SizesAssumption DEF Cuts, Sane, Mem, Tails
<1>2. m.pos[t] \in Pos /\ r[1] > 0 /\ r[1] <= m.pos[t] /\ r[1] \in Int
  <2>1. m.pos[t] # -1 /\ m.pos[t] \in Pos \cup {-1}
    BY <1>1 DEF Sane, Positions, Mem
  <2> QED
    BY <2>1 DEF Cuts, InRange
<1>3. r[1] - 1 \in Pos /\ Rollback(m, s, r) \in Group \ {0}
  BY <1>1, <1>2, BoundsAssumption DEF Pos, Rollback, Group
<1>4. m1 = [m EXCEPT !.rs_idx[s] = Rollback(m, s, r)]
  <2>1. ~(Rollback(m, s, r) > NRsSeq)
    BY <1>1, <1>3 DEF Group
  <2> QED
    BY <2>1 DEF set_rs_idx
<1>5. /\ m1 \in Mem /\ m1.tail = m.tail /\ m1.seqs = m.seqs /\ m1.src = m.src /\ m1.pos = m.pos
      /\ m1.used = m.used /\ m1.aborted = m.aborted
      /\ \A u \in SeqId : m1.rs_idx[u] = IF u = s THEN Rollback(m, s, r) ELSE m.rs_idx[u]
  BY <1>1, <1>3, <1>4 DEF Mem
<1> HIDE DEF m1
<1>6. Full(m1) = Full(m)
  BY <1>5 DEF Full
<1>7. Sane(m1)
  BY <1>5, <1>6 DEF Sane, Tails, Positions, Counted, AtHome
<1>8. Sane([m1 EXCEPT !.pos[t] = r[1] - 1])
  <2>1. m1.seqs[t] # {}
    BY <1>1, <1>5
  <2> HIDE DEF t
  <2> QED
    BY <1>1, <1>3, <1>7, <2>1, SaneMoved, Zenon
<1>9. RolledBack(m, s, r) = [m1 EXCEPT !.pos[t] = r[1] - 1]
  BY <1>5 DEF RolledBack, m1
<1> DEFINE x == [m1 EXCEPT !.pos[t] = r[1] - 1]
<1>10. /\ x.tail = m1.tail /\ x.seqs = m1.seqs /\ x.src = m1.src /\ x.rs_idx = m1.rs_idx
       /\ \A c \in Cell : x.pos[c] = IF c = t THEN r[1] - 1 ELSE m1.pos[c]
  BY <1>1, <1>3, <1>5 DEF Mem
<1>11. m.pos[t] - Rollback(m, s, r) = r[1] - 1
  BY <1>2, CellFacts DEF Rollback, Pos
<1> HIDE DEF x
<1>12. TakenBack(m, s, r, x)
  BY <1>1, <1>3, <1>5, <1>10, <1>11 DEF TakenBack
<1> QED
  BY <1>8, <1>9, <1>12 DEF x

(* A sequence without a cell joins another one.                            *)
LEMMA SaneJoined ==
  ASSUME NEW m, Sane(m), NEW d \in SeqId, m.tail[d] = Nowhere,
         NEW t \in Cell, m.seqs[t] # {}
  PROVE  Sane([m EXCEPT !.seqs[t] = @ \cup {d}, !.tail[d] = t])
<1> DEFINE r == [m EXCEPT !.seqs[t] = @ \cup {d}, !.tail[d] = t]
<1>1. m \in Mem
  BY DEF Sane
<1>2. /\ r \in Mem /\ r.pos = m.pos /\ r.src = m.src /\ r.used = m.used /\ r.aborted = m.aborted
      /\ \A c \in Cell : r.seqs[c] = IF c = t THEN m.seqs[c] \cup {d} ELSE m.seqs[c]
      /\ \A u \in SeqId : r.tail[u] = IF u = d THEN t ELSE m.tail[u]
  BY <1>1 DEF Mem
<1> HIDE DEF r
<1>3. \A c \in Cell : r.seqs[c] = {} <=> m.seqs[c] = {}
  BY <1>2
<1>4. Full(r) = Full(m)
  BY <1>3 DEF Full
<1>5. ASSUME NEW u \in SeqId, NEW c \in Cell
      PROVE  r.tail[u] = c <=> u \in r.seqs[c]
  <2>1. (m.tail[u] = c <=> u \in m.seqs[c]) /\ c # Nowhere
    BY CellFacts DEF Sane, Tails
  <2> QED
    BY <1>2, <2>1
<1>6. Sane(r)
  BY <1>2, <1>3, <1>4, <1>5 DEF Sane, Tails, Positions, Counted, AtHome
<1> QED
  BY <1>6 DEF r

(* x is m without the sequence d; then with it in the cell of src.         *)
Without(m, d, x) ==
  /\ x.rs_idx = m.rs_idx
  /\ \A u \in SeqId : x.tail[u] = IF u = d THEN Nowhere ELSE m.tail[u]
  /\ \A c \in Cell : /\ x.seqs[c] = m.seqs[c] \ {d}
                     /\ x.seqs[c] # {} => x.pos[c] = m.pos[c]
                     /\ x.src[c] = IF x.seqs[c] = {} /\ m.seqs[c] # {} THEN Nowhere ELSE m.src[c]

Joins(m, src, d, x) ==
  /\ x.rs_idx = m.rs_idx
  /\ \A u \in SeqId : x.tail[u] = IF u = d THEN m.tail[src] ELSE m.tail[u]
  /\ \A c \in Cell : /\ x.seqs[c] = IF c = m.tail[src] THEN m.seqs[c] \cup {d} ELSE m.seqs[c] \ {d}
                     /\ x.seqs[c] # {} => x.pos[c] = m.pos[c]
                     /\ x.seqs[c] = {} => x.src[c] = IF m.seqs[c] # {} THEN Nowhere ELSE m.src[c]

LEMMA SaneCopied ==
  ASSUME NEW m, Sane(m), NEW src \in SeqId, NEW dst \in SeqId, src # dst
  PROVE  Sane(Copied(m, src, dst)) /\ Joins(m, src, dst, Copied(m, src, dst))
<1> DEFINE rel == Release(m, {m.tail[dst]}, {dst})
           m1 == IF m.tail[dst] = Nowhere THEN m ELSE [rel EXCEPT !.tail[dst] = Nowhere]
<1>1. m \in Mem /\ m.tail[dst] \in Cell \cup {Nowhere}
  BY DEF Sane, Mem
<1>2. Sane(m1) /\ m1.tail[dst] = Nowhere /\ Without(m, dst, m1)
  <2>1. CASE m.tail[dst] = Nowhere
    <3>1. m1 = m
      BY <2>1
    <3>2. \A c \in Cell : dst \notin m.seqs[c]
      BY <2>1, CellFacts DEF Sane, Tails
    <3>3. Without(m, dst, m)
      BY <2>1, <3>2 DEF Without
    <3> HIDE DEF m1
    <3> QED
      BY <2>1, <3>1, <3>3
  <2>2. CASE m.tail[dst] # Nowhere
    <3>1. m.tail[dst] \in Cell /\ {m.tail[dst]} \in SUBSET Cell /\ {dst} \in SUBSET SeqId
      BY <1>1, <2>2
    <3>2. Released(m, {m.tail[dst]}, {dst}, rel)
      BY <1>1, <3>1, ReleaseFacts, Zenon
    <3> HIDE DEF rel
    <3>3. /\ rel \in Mem /\ rel.tail = m.tail /\ rel.aborted = m.aborted /\ rel.rs_idx = m.rs_idx
          /\ \A c \in Cell : rel.seqs[c] = IF c \in {m.tail[dst]} THEN m.seqs[c] \ {dst} ELSE m.seqs[c]
          /\ \A c \in Cell : rel.pos[c] = IF c \in Emptied(m, {m.tail[dst]}, {dst}) THEN -1 ELSE m.pos[c]
          /\ \A c \in Cell : rel.src[c] = IF c \in Emptied(m, {m.tail[dst]}, {dst}) THEN Nowhere ELSE m.src[c]
          /\ rel.used = m.used - Cardinality(Emptied(m, {m.tail[dst]}, {dst}))
      BY <3>2 DEF Released
    <3> DEFINE q == [rel EXCEPT !.tail[dst] = Nowhere]
    <3>4. /\ q \in Mem /\ q.pos = rel.pos /\ q.src = rel.src /\ q.seqs = rel.seqs
          /\ q.used = rel.used /\ q.aborted = rel.aborted /\ q.rs_idx = rel.rs_idx
          /\ \A t \in SeqId : q.tail[t] = IF t = dst THEN Nowhere ELSE m.tail[t]
      BY <3>3 DEF Mem
    <3>5. m1 = q
      BY <2>2
    <3> HIDE DEF q, m1
    <3>6. Left(m, dst, q)
      BY <3>3, <3>4 DEF Left
    <3>7. \A c \in Cell : dst \in m.seqs[c] <=> c = m.tail[dst]
      BY DEF Sane, Tails
    <3>8. \A c \in Cell : q.seqs[c] = m.seqs[c] \ {dst}
      <4> SUFFICES ASSUME NEW c \in Cell PROVE q.seqs[c] = m.seqs[c] \ {dst}
        OBVIOUS
      <4>1. CASE c = m.tail[dst]
        BY <3>3, <3>4, <4>1
      <4>2. CASE c # m.tail[dst]
        <5>1. dst \notin m.seqs[c]
          BY <3>7, <4>2
        <5>2. q.seqs[c] = m.seqs[c]
          BY <3>3, <3>4, <4>2
        <5> QED
          BY <5>1, <5>2
      <4> QED
        BY <4>1, <4>2
    <3>9. \A c \in Cell : c \in Emptied(m, {m.tail[dst]}, {dst}) <=> m.seqs[c] # {} /\ m.seqs[c] \ {dst} = {}
      BY <3>1, <3>7 DEF Emptied
    <3>10. ASSUME NEW c \in Cell
           PROVE  /\ q.seqs[c] # {} => q.pos[c] = m.pos[c]
                  /\ q.src[c] = IF q.seqs[c] = {} /\ m.seqs[c] # {} THEN Nowhere ELSE m.src[c]
      <4>1. q.seqs[c] = m.seqs[c] \ {dst}
        BY <3>8
      <4>2. c \in Emptied(m, {m.tail[dst]}, {dst}) <=> q.seqs[c] = {} /\ m.seqs[c] # {}
        BY <3>9, <4>1
      <4>3. /\ q.pos[c] = IF c \in Emptied(m, {m.tail[dst]}, {dst}) THEN -1 ELSE m.pos[c]
            /\ q.src[c] = IF c \in Emptied(m, {m.tail[dst]}, {dst}) THEN Nowhere ELSE m.src[c]
        BY <3>3, <3>4
      <4> QED
        BY <4>2, <4>3
    <3>11. q.rs_idx = m.rs_idx /\ \A t \in SeqId : q.tail[t] = IF t = dst THEN Nowhere ELSE m.tail[t]
      BY <3>3, <3>4
    <3>12. Without(m, dst, q)
      BY <3>8, <3>10, <3>11 DEF Without
    <3> QED
      BY <3>1, <3>4, <3>5, <3>6, <3>12, LeaveTail
  <2> QED
    BY <2>1, <2>2
<1> HIDE DEF m1
<1>0. m1 \in Mem /\ m1.tail[src] = m.tail[src]
  BY <1>2 DEF Sane, Without
<1>3. CASE m1.tail[src] = Nowhere
  <2>1. Copied(m, src, dst) = m1
    BY <1>3 DEF Copied, m1
  <2>2. Joins(m, src, dst, m1)
    <3>1. \A c \in Cell : c # m.tail[src]
      BY <1>0, <1>3, CellFacts
    <3> QED
      BY <1>0, <1>2, <1>3, <3>1 DEF Without, Joins
  <2> QED
    BY <1>2, <2>1, <2>2
<1>4. CASE m1.tail[src] # Nowhere
  <2>1. m1.tail[src] \in Cell /\ m1.seqs[m1.tail[src]] # {}
    BY <1>2, <1>4 DEF Sane, Mem, Tails
  <2>2. Sane([m1 EXCEPT !.seqs[m1.tail[src]] = @ \cup {dst}, !.tail[dst] = m1.tail[src]])
    BY <1>2, <2>1, SaneJoined, Zenon
  <2>3. Copied(m, src, dst) = [m1 EXCEPT !.seqs[m1.tail[src]] = @ \cup {dst}, !.tail[dst] = m1.tail[src]]
    BY <1>4 DEF Copied, m1
  <2> DEFINE t == m1.tail[src]
             x == [m1 EXCEPT !.seqs[t] = @ \cup {dst}, !.tail[dst] = t]
  <2>4. /\ x.pos = m1.pos /\ x.src = m1.src /\ x.rs_idx = m1.rs_idx
        /\ \A c \in Cell : x.seqs[c] = IF c = t THEN m1.seqs[c] \cup {dst} ELSE m1.seqs[c]
        /\ \A u \in SeqId : x.tail[u] = IF u = dst THEN t ELSE m1.tail[u]
    <3> HIDE DEF t
    <3> QED
      BY <1>0, <2>1 DEF Mem, t
  <2>5. t = m.tail[src] /\ src \in m.seqs[t] /\ src \in m1.seqs[t] /\ t \in Cell
    BY <1>0, <1>2, <2>1 DEF Sane, Tails
  <2> HIDE DEF x
  <2>6. /\ m1.rs_idx = m.rs_idx
        /\ \A u \in SeqId : m1.tail[u] = IF u = dst THEN Nowhere ELSE m.tail[u]
        /\ \A c \in Cell : /\ m1.seqs[c] = m.seqs[c] \ {dst}
                           /\ m1.seqs[c] # {} => m1.pos[c] = m.pos[c]
                           /\ m1.src[c] = IF m1.seqs[c] = {} /\ m.seqs[c] # {} THEN Nowhere ELSE m.src[c]
    BY <1>2 DEF Without
  <2> HIDE DEF t
  <2>7. ASSUME NEW c \in Cell
        PROVE  /\ x.seqs[c] = IF c = m.tail[src] THEN m.seqs[c] \cup {dst} ELSE m.seqs[c] \ {dst}
               /\ x.seqs[c] # {} => x.pos[c] = m.pos[c]
               /\ x.seqs[c] = {} => x.src[c] = IF m.seqs[c] # {} THEN Nowhere ELSE m.src[c]
    <3>1. CASE c = t
      <4>1. x.seqs[c] = (m.seqs[c] \ {dst}) \cup {dst}
        BY <2>4, <2>6, <3>1
      <4>2. x.seqs[c] = m.seqs[c] \cup {dst} /\ x.seqs[c] # {}
        BY <4>1
      <4>3. x.pos[c] = m.pos[c]
        BY <2>4, <2>5, <2>6, <3>1
      <4> QED
        BY <2>5, <3>1, <4>2, <4>3
    <3>2. CASE c # t
      <4>1. x.seqs[c] = m1.seqs[c] /\ x.pos[c] = m1.pos[c] /\ x.src[c] = m1.src[c]
        BY <2>4, <3>2
      <4> QED
        BY <2>5, <2>6, <3>2, <4>1
    <3> QED
      BY <3>1, <3>2
  <2>8. x.rs_idx = m.rs_idx /\ \A u \in SeqId : x.tail[u] = IF u = dst THEN m.tail[src] ELSE m.tail[u]
    BY <2>4, <2>5, <2>6
  <2>9. Joins(m, src, dst, x)
    BY <2>7, <2>8 DEF Joins
  <2> QED
    BY <2>2, <2>3, <2>9 DEF x, t
<1> QED
  BY <1>3, <1>4

(* x is m with the sequence s only.                                        *)
OnlyOne(m, s, x) ==
  /\ x.rs_idx = m.rs_idx
  /\ \A u \in SeqId : x.tail[u] = IF u = s THEN m.tail[u] ELSE Nowhere
  /\ \A c \in Cell : IF s \in m.seqs[c] THEN x.seqs[c] = {s} /\ x.pos[c] = m.pos[c]
                     ELSE x.seqs[c] = {} /\ x.src[c] = Nowhere

LEMMA SaneKept ==
  ASSUME NEW m, Sane(m), NEW s \in SeqId
  PROVE  Sane(KeptOnly(m, s)) /\ OnlyOne(m, s, KeptOnly(m, s))
<1> DEFINE others == {c \in Cell : s \notin m.seqs[c]}
           gone == {c \in others : m.pos[c] >= 0}
           l == [t \in SeqId |-> IF t = s THEN m.tail[t] ELSE Nowhere]
           p == [c \in Cell |-> IF c \in others THEN -1 ELSE m.pos[c]]
           w == [c \in Cell |-> IF c \in others THEN Nowhere ELSE m.src[c]]
           q == [c \in Cell |-> IF c \in others THEN {} ELSE {s}]
           u == m.used - Cardinality(gone)
           m1 == [m EXCEPT !.tail = l, !.pos = p, !.src = w, !.seqs = q, !.used = u]
<1>1. m \in Mem
  BY DEF Sane
<1>2. others \in SUBSET Cell /\ gone \in SUBSET Full(m) /\ Cardinality(gone) \in Int
  <2>1. gone \in SUBSET Cell /\ others \in SUBSET Cell
    OBVIOUS
  <2>2. \A c \in gone : m.pos[c] # -1 /\ c \in Cell
    OBVIOUS
  <2> HIDE DEF gone
  <2> QED
    BY <2>1, <2>2, PartOfCells DEF Full, Sane, Positions
<1>3. \A c \in Cell : c \in gone <=> c \in others /\ m.seqs[c] # {}
  BY <1>1, CellFacts DEF Sane, Positions, Mem, Pos
<1>4. KeptOnly(m, s) = LowerHead(m1, others)
  BY <1>1 DEF KeptOnly, Mem
<1>5. \A c \in Cell : c \in others <=> s \notin m.seqs[c]
  OBVIOUS
<1> HIDE DEF gone, others
<1>6. /\ m1 \in Mem /\ m1.aborted = m.aborted /\ m1.used = m.used - Cardinality(gone)
      /\ m1.rs_idx = m.rs_idx
      /\ \A t \in SeqId : m1.tail[t] = IF t = s THEN m.tail[t] ELSE Nowhere
      /\ \A c \in Cell : m1.pos[c] = IF c \in others THEN -1 ELSE m.pos[c]
      /\ \A c \in Cell : m1.src[c] = IF c \in others THEN Nowhere ELSE m.src[c]
      /\ \A c \in Cell : m1.seqs[c] = IF c \in others THEN {} ELSE {s}
  <2>1. /\ l \in [SeqId -> Cell \cup {Nowhere}] /\ p \in [Cell -> Pos \cup {-1}] /\ u \in Int
        /\ w \in [Cell -> Cell \cup {Nowhere}] /\ q \in [Cell -> SUBSET SeqId]
    BY <1>1, <1>2 DEF Mem
  <2>2. /\ \A t \in SeqId : l[t] = IF t = s THEN m.tail[t] ELSE Nowhere
        /\ \A c \in Cell : p[c] = IF c \in others THEN -1 ELSE m.pos[c]
        /\ \A c \in Cell : w[c] = IF c \in others THEN Nowhere ELSE m.src[c]
        /\ \A c \in Cell : q[c] = IF c \in others THEN {} ELSE {s}
        /\ u = m.used - Cardinality(gone)
    OBVIOUS
  <2> HIDE DEF l, p, w, q, u
  <2>3. /\ m1 \in Mem /\ m1.aborted = m.aborted /\ m1.used = u /\ m1.rs_idx = m.rs_idx
        /\ m1.tail = l /\ m1.pos = p /\ m1.src = w /\ m1.seqs = q
    BY <1>1, <2>1 DEF Mem
  <2> QED
    BY <2>2, <2>3
<1> DEFINE r == LowerHead(m1, others)
<1> HIDE DEF m1
<1>7. /\ r \in Mem /\ r.pos = m1.pos /\ r.src = m1.src /\ r.tail = m1.tail /\ r.seqs = m1.seqs
      /\ r.used = m1.used /\ r.aborted = m1.aborted /\ r.rs_idx = m1.rs_idx
  BY <1>2, <1>6, LowerHeadFacts
<1> HIDE DEF r
<1>8. \A c \in Cell : r.seqs[c] # {} <=> m.seqs[c] # {} /\ c \notin gone
  BY <1>3, <1>5, <1>6, <1>7
<1>9. Full(r) = Full(m) \ gone
  BY <1>8 DEF Full
<1>10. Counted(r)
  BY <1>1, <1>2, <1>6, <1>7, <1>9, CountGone DEF Sane
<1>11. ASSUME NEW t \in SeqId, NEW c \in Cell
       PROVE  r.tail[t] = c <=> t \in r.seqs[c]
  <2>1. (m.tail[s] = c <=> s \in m.seqs[c]) /\ c # Nowhere
    BY CellFacts DEF Sane, Tails
  <2> QED
    BY <1>5, <1>6, <1>7, <2>1
<1>12. Positions(r) /\ AtHome(r)
  <2>1. \A c \in Cell : c \notin others => m.seqs[c] # {}
    BY <1>5
  <2> QED
    BY <1>6, <1>7, <2>1 DEF Positions, AtHome, Sane
<1>13. OnlyOne(m, s, r)
  BY <1>5, <1>6, <1>7 DEF OnlyOne
<1> QED
  BY <1>13, <1>4, <1>6, <1>7, <1>10, <1>11, <1>12 DEF Sane, Tails, r

-----------------------------------------------------------------------------
(* What is saved.                                                          *)

LEMMA AsSeq ==
  ASSUME NEW S, NEW n \in Nat, NEW f, f \in [1 .. n -> S]
  PROVE  f \in Seq(S) /\ Len(f) = n
<1>1. f \in Seq(S)
  BY SeqDef
<1>2. DOMAIN f = 1 .. n /\ DOMAIN f = 1 .. Len(f) /\ Len(f) \in Nat
  BY <1>1, LenProperties
<1> QED
  BY <1>1, <1>2

Increasing(f, n, C) == f \in [1 .. n -> C] /\ \A i, j \in 1 .. n : i < j => f[i] < f[j]

LEMMA InOrderExists ==
  ASSUME NEW C \in SUBSET Cell
  PROVE  \E f : Increasing(f, Cardinality(C), C)
<1> DEFINE P == {k \in Nat : \A D \in SUBSET Cell : Cardinality(D) = k => \E f : Increasing(f, k, D)}
<1>1. 0 \in P
  <2>1. ASSUME NEW D \in SUBSET Cell
        PROVE  \E f : Increasing(f, 0, D)
    <3> DEFINE g == [i \in 1 .. 0 |-> 0]
    <3>1. Increasing(g, 0, D)
      BY DEF Increasing
    <3> QED
      BY <3>1
  <2> QED
    BY <2>1
<1>2. ASSUME NEW k \in 1 .. Size, k - 1 \in P
      PROVE  k \in P
  <2>1. ASSUME NEW D \in SUBSET Cell, Cardinality(D) = k
        PROVE  \E f : Increasing(f, k, D)
    <3>1. IsFiniteSet(D) /\ k \in Nat /\ D # {}
      BY <2>1, PartOfCells, FS_EmptySet
    <3> DEFINE top == Max(D)
    <3>2. top \in D /\ \A c \in D : c <= top
      BY <3>1, SomeCell
    <3> HIDE DEF top
    <3>3. D \ {top} \in SUBSET Cell /\ Cardinality(D \ {top}) = k - 1
      BY <2>1, <3>1, <3>2, FS_RemoveElement
    <3>4. PICK f : Increasing(f, k - 1, D \ {top})
      BY <1>2, <3>3
    <3> DEFINE g == [i \in 1 .. k |-> IF i = k THEN top ELSE f[i]]
    <3>5. \A i \in 1 .. k - 1 : f[i] \in D /\ f[i] # top
      BY <3>4 DEF Increasing
    <3>6. g \in [1 .. k -> D]
      <4>1. \A i \in 1 .. k : i # k => i \in 1 .. k - 1
        OBVIOUS
      <4> QED
        BY <3>2, <3>5, <4>1
    <3>7. ASSUME NEW i \in 1 .. k, NEW j \in 1 .. k, i < j
          PROVE  g[i] < g[j]
      <4>1. i \in 1 .. k - 1 /\ g[i] = f[i] /\ f[i] \in D /\ f[i] # top /\ f[i] <= top /\ f[i] \in Int /\ top \in Int
        <5>1. i \in 1 .. k - 1 /\ i # k
          BY <3>1, <3>7
        <5>2. g[i] = f[i] /\ f[i] \in D /\ f[i] # top
          BY <3>5, <5>1
        <5> HIDE DEF g
        <5> QED
          BY <3>2, <5>1, <5>2, CellFacts
      <4>2. CASE j = k
        BY <4>1, <4>2
      <4>3. CASE j # k
        <5>1. j \in 1 .. k - 1 /\ g[j] = f[j]
          BY <4>3
        <5> QED
          BY <3>4, <3>7, <4>1, <5>1 DEF Increasing
      <4> QED
        BY <4>2, <4>3
    <3> HIDE DEF g
    <3>8. Increasing(g, k, D)
      BY <3>6, <3>7 DEF Increasing
    <3> QED
      BY <3>8
  <2> QED
    BY <2>1, CellFacts
<1> HIDE DEF P
<1>3. \A k \in 0 .. Size : k \in P
  BY <1>1, <1>2, SizesAssumption, Induct
<1>4. Cardinality(C) \in 0 .. Size
  BY PartOfCells, SizesAssumption
<1> QED
  BY <1>3, <1>4 DEF P

LEMMA InOrderFacts ==
  ASSUME NEW C \in SUBSET Cell
  PROVE  /\ InOrder(C) \in [1 .. Cardinality(C) -> C]
         /\ \A i, j \in 1 .. Cardinality(C) : i < j => InOrder(C)[i] < InOrder(C)[j]
         /\ \A c \in C : \E i \in 1 .. Cardinality(C) : InOrder(C)[i] = c
<1> DEFINE n == Cardinality(C)
           f == InOrder(C)
<1>1. IsFiniteSet(C) /\ n \in Nat
  BY PartOfCells
<1>2. \E g \in [1 .. n -> C] : \A i, j \in DOMAIN g : i < j => g[i] < g[j]
  <2>1. PICK g : Increasing(g, n, C)
    BY InOrderExists
  <2> QED
    BY <2>1 DEF Increasing
<1>3. f \in [1 .. n -> C] /\ \A i, j \in DOMAIN f : i < j => f[i] < f[j]
  BY <1>2, Zenon DEF InOrder
<1> HIDE DEF f
<1>4. \A i, j \in 1 .. n : i < j => f[i] < f[j]
  BY <1>3
<1>5. \A i, j \in 1 .. n : f[i] = f[j] => i = j
  <2>1. \A i \in 1 .. n : f[i] \in Int
    BY <1>3, CellFacts
  <2>2. \A i, j \in 1 .. n : i < j \/ j < i \/ i = j
    BY <1>1
  <2> QED
    BY <1>4, <2>1, <2>2
<1>6. f \in Injection(1 .. n, C)
  BY <1>3, <1>5 DEF Injection, IsInjective
<1>7. Cardinality(1 .. n) = n
  BY <1>1, FS_Interval
<1>8. f \in Surjection(1 .. n, C)
  BY <1>1, <1>6, <1>7, FS_Injection
<1>9. \A c \in C : \E i \in 1 .. n : f[i] = c
  BY <1>8 DEF Surjection
<1> QED
  BY <1>3, <1>4, <1>9 DEF f

Row == Seq(SUBSET SeqId)
Rows == [Group -> [Cell -> Row]]
SavedCell == [pos : Pos, seqs : SUBSET SeqId, row : Row]

(* What is restored of all sequences fits into the cells, and gives every  *)
(* sequence one cell at most.                                              *)
SavedOK(v) ==
  /\ v.all \in BOOLEAN /\ v.cells \in Seq(SavedCell)
  /\ ~v.all => Len(v.cells) <= 1
  /\ v.all => /\ Len(v.cells) <= Size
              /\ \A i \in 1 .. Len(v.cells) : v.cells[i].seqs # {}
              /\ \A i, j \in 1 .. Len(v.cells) :
                   i # j => v.cells[i].seqs \cap v.cells[j].seqs = {}

(* The cells as StateReadAll leaves them.                                  *)
ReadCells(cells) ==
  LET count    == Len(cells)
      owner(s) == {c \in Cell : c < count /\ s \in cells[c + 1].seqs}
  IN  [NoCells EXCEPT
         !.pos  = [c \in Cell |-> IF c < count THEN cells[c + 1].pos ELSE -1],
         !.src  = [c \in Cell |-> IF c < count THEN c ELSE Nowhere],
         !.seqs = [c \in Cell |-> IF c < count THEN cells[c + 1].seqs ELSE {}],
         !.tail = [s \in SeqId |-> IF owner(s) = {} THEN Nowhere ELSE Min(owner(s))],
         !.used = count]

LEMMA SaneRead ==
  ASSUME NEW v, SavedOK(v), v.all
  PROVE  Sane(ReadCells(v.cells))
<1> DEFINE cells == v.cells
           count == Len(cells)
           owner(s) == {c \in Cell : c < count /\ s \in cells[c + 1].seqs}
           p == [c \in Cell |-> IF c < count THEN cells[c + 1].pos ELSE -1]
           w == [c \in Cell |-> IF c < count THEN c ELSE Nowhere]
           q == [c \in Cell |-> IF c < count THEN cells[c + 1].seqs ELSE {}]
           l == [s \in SeqId |-> IF owner(s) = {} THEN Nowhere ELSE Min(owner(s))]
           m == [NoCells EXCEPT !.pos = p, !.src = w, !.seqs = q, !.tail = l, !.used = count]
<1>1. /\ cells \in Seq(SavedCell) /\ count \in Nat /\ count <= Size
      /\ \A i \in 1 .. count : cells[i] \in SavedCell /\ cells[i].seqs # {}
      /\ \A i, j \in 1 .. count : i # j => cells[i].seqs \cap cells[j].seqs = {}
  BY ElementOfSeq, LenProperties DEF SavedOK
<1>2. \A c \in Cell : c \in Nat /\ (c < count => c + 1 \in 1 .. count)
  BY CellFacts, <1>1
<1>3. m = ReadCells(v.cells)
  BY DEF ReadCells, NoCells
<1>4. \A s \in SeqId : owner(s) \in SUBSET Cell
  OBVIOUS
<1>5. \A s \in SeqId : \A c \in owner(s) : Min(owner(s)) = c
  <2>1. SUFFICES ASSUME NEW s \in SeqId, NEW c \in owner(s)
                 PROVE  Min(owner(s)) = c
    OBVIOUS
  <2>2. \A d \in owner(s) : d = c
    <3>1. SUFFICES ASSUME NEW d \in owner(s), d # c PROVE FALSE
      OBVIOUS
    <3>2. /\ c \in Cell /\ d \in Cell /\ c + 1 \in 1 .. count /\ d + 1 \in 1 .. count
          /\ s \in cells[c + 1].seqs /\ s \in cells[d + 1].seqs /\ c + 1 # d + 1
      BY <1>2, <3>1
    <3> QED
      BY <1>1, <3>2
  <2>3. Min(owner(s)) \in owner(s)
    <3>1. owner(s) \in SUBSET Cell /\ owner(s) # {}
      OBVIOUS
    <3> HIDE DEF owner
    <3> QED
      BY <3>1, SomeCell
  <2> QED
    BY <2>2, <2>3
<1>6. /\ p \in [Cell -> Pos \cup {-1}] /\ w \in [Cell -> Cell \cup {Nowhere}]
      /\ q \in [Cell -> SUBSET SeqId] /\ l \in [SeqId -> Cell \cup {Nowhere}]
  <2>1. \A c \in Cell : c < count => cells[c + 1].pos \in Pos /\ cells[c + 1].seqs \in SUBSET SeqId
    BY <1>1, <1>2 DEF SavedCell
  <2>2. \A s \in SeqId : owner(s) # {} => Min(owner(s)) \in Cell
    BY <1>4, <1>5
  <2> HIDE DEF owner
  <2> QED
    BY <2>1, <2>2
<1>7. /\ \A c \in Cell : p[c] = IF c < count THEN cells[c + 1].pos ELSE -1
      /\ \A c \in Cell : w[c] = IF c < count THEN c ELSE Nowhere
      /\ \A c \in Cell : q[c] = IF c < count THEN cells[c + 1].seqs ELSE {}
      /\ \A s \in SeqId : l[s] = IF owner(s) = {} THEN Nowhere ELSE Min(owner(s))
  <2> HIDE DEF owner
  <2> QED
    OBVIOUS
<1> HIDE DEF p, w, q, l, count
<1>8. NoCells \in Mem /\ ~NoCells.aborted
  BY SaneNoCells DEF Sane
<1>9. /\ m \in Mem /\ ~m.aborted /\ m.pos = p /\ m.src = w /\ m.seqs = q /\ m.tail = l /\ m.used = count
  <2>1. count \in Int
    BY <1>1
  <2> DEFINE e == NoCells
  <2>2. e \in Mem /\ ~e.aborted /\ m = [e EXCEPT !.pos = p, !.src = w, !.seqs = q, !.tail = l, !.used = count]
    BY <1>8
  <2> HIDE DEF e, m
  <2> QED
    BY <1>6, <2>1, <2>2 DEF Mem
<1> HIDE DEF m
<1>10. Tails(m)
  <2>1. SUFFICES ASSUME NEW s \in SeqId, NEW c \in Cell
                 PROVE  m.tail[s] = c <=> s \in m.seqs[c]
    BY DEF Tails
  <2>2. c \in owner(s) <=> s \in m.seqs[c]
    BY <1>7, <1>9
  <2>3. m.tail[s] = IF owner(s) = {} THEN Nowhere ELSE Min(owner(s))
    BY <1>7, <1>9
  <2>4. c # Nowhere
    BY CellFacts
  <2>5. owner(s) # {} => Min(owner(s)) \in owner(s)
    BY <1>5
  <2>6. \A d \in owner(s) : Min(owner(s)) = d
    BY <1>5
  <2> HIDE DEF owner
  <2> QED
    BY <2>2, <2>3, <2>4, <2>5, <2>6
<1>11. \A c \in Cell : m.seqs[c] # {} <=> c < count
  BY <1>1, <1>2, <1>7, <1>9
<1>12. Positions(m)
  <2>1. \A c \in Cell : c < count => cells[c + 1].pos # -1
    BY <1>1, <1>2, CellFacts DEF SavedCell
  <2> QED
    BY <1>7, <1>9, <1>11, <2>1 DEF Positions
<1>13. AtHome(m)
  BY <1>7, <1>9, <1>11 DEF AtHome
<1>14. Counted(m)
  <2>1. Full(m) = 0 .. count - 1
    <3>1. Full(m) = {c \in Cell : c < count}
      BY <1>11 DEF Full
    <3> QED
      BY <1>1, <3>1, SizesAssumption DEF Cell
  <2> QED
    BY <1>1, <1>9, <2>1, FS_Interval DEF Counted
<1> QED
  BY <1>3, <1>9, <1>10, <1>12, <1>13, <1>14 DEF Sane

-----------------------------------------------------------------------------
(* Splitting a batch.                                                      *)

(* A recursion that stays within I, a set of pairs of a number and a value.*)
Stays(G, n, I) == \A k \in 1 .. n : \A x : <<k - 1, x>> \in I => <<k, G[<<k, x>>]>> \in I

LEMMA RunWithin ==
  ASSUME NEW n \in Nat, NEW b, NEW G, NEW I, <<0, b>> \in I, Stays(G, n, I)
  PROVE  \E f : IsRun(f, n, b, G) /\ \A k \in 0 .. n : <<k, f[k]>> \in I
<1>1. PICK f : IsRun(f, n, b, G)
  BY RunExists
<1> DEFINE F == [k \in 0 .. n |-> IF k = 0 THEN b ELSE G[<<k, f[k - 1]>>]]
<1>2. F[0] = b /\ \A k \in 1 .. n : F[k] = G[<<k, f[k - 1]>>]
  OBVIOUS
<1>3. F = f
  BY <1>1 DEF IsRun
<1> HIDE DEF F
<1> DEFINE P == {k \in 0 .. n : <<k, f[k]>> \in I}
<1>4. 0 \in P
  BY <1>2, <1>3
<1>5. ASSUME NEW k \in 1 .. n, k - 1 \in P
      PROVE  k \in P
  <2>1. <<k - 1, f[k - 1]>> \in I /\ k \in 0 .. n
    BY <1>5
  <2>2. <<k, G[<<k, f[k - 1]>>]>> \in I
    BY <2>1 DEF Stays
  <2> QED
    BY <1>2, <1>3, <2>1, <2>2
<1> HIDE DEF P
<1>6. \A k \in 0 .. n : k \in P
  BY <1>4, <1>5, Induct
<1>7. \A k \in 0 .. n : <<k, f[k]>> \in I
  BY <1>6 DEF P
<1> QED
  BY <1>1, <1>7

IsChoosing(f, batch, left) ==
  f = [k \in 0 .. Len(batch) |-> IF k = 0 THEN <<>> ELSE Chosen(batch, left, f[k - 1], k)]

LEMMA NextGroupsWithin ==
  ASSUME NEW batch, Len(batch) \in Nat, NEW left, NEW I, <<0, <<>> >> \in I,
         \A k \in 1 .. Len(batch) : \A x : <<k - 1, x>> \in I => <<k, Chosen(batch, left, x, k)>> \in I
  PROVE  <<Len(batch), NextGroups(batch, left)>> \in I
<1> DEFINE n == Len(batch)
           D == {<<q[1] + 1, q[2]>> : q \in I}
           G == [p \in D |-> Chosen(batch, left, p[2], p[1])]
<1>1. ASSUME NEW k \in 1 .. n, NEW x, <<k - 1, x>> \in I
      PROVE  G[<<k, x>>] = Chosen(batch, left, x, k)
  <2>1. <<(k - 1) + 1, x>> \in D /\ (k - 1) + 1 = k
    BY <1>1
  <2> HIDE DEF D
  <2> QED
    BY <2>1
<1> HIDE DEF G
<1>2. Stays(G, n, I)
  BY <1>1 DEF Stays
<1>3. PICK f : IsRun(f, n, <<>>, G) /\ \A k \in 0 .. n : <<k, f[k]>> \in I
  <2>1. n \in Nat
    OBVIOUS
  <2> HIDE DEF n
  <2> QED
    BY <1>2, <2>1, RunWithin
<1>4. \A k \in 0 .. n : k # 0 => G[<<k, f[k - 1]>>] = Chosen(batch, left, f[k - 1], k)
  <2>1. \A k \in 0 .. n : k # 0 => k \in 1 .. n /\ k - 1 \in 0 .. n
    OBVIOUS
  <2> QED
    BY <1>1, <1>3, <2>1
<1>5. IsChoosing(f, batch, left)
  BY <1>3, <1>4 DEF IsChoosing, IsRun
<1>6. PICK g : g = CHOOSE h : IsChoosing(h, batch, left)
  OBVIOUS
<1>7. IsChoosing(g, batch, left) /\ NextGroups(batch, left) = g[n]
  BY <1>5, <1>6, Zenon DEF NextGroups, IsChoosing
<1> DEFINE H == [k \in 0 .. n |-> IF k = 0 THEN <<>> ELSE Chosen(batch, left, g[k - 1], k)]
<1>8. H[0] = <<>> /\ \A k \in 1 .. n : H[k] = Chosen(batch, left, g[k - 1], k)
  OBVIOUS
<1>9. H = g
  BY <1>7 DEF IsChoosing
<1> HIDE DEF H
<1> DEFINE P == {k \in 0 .. n : <<k, g[k]>> \in I}
<1>10. 0 \in P /\ \A k \in 1 .. n : k - 1 \in P => k \in P
  BY <1>8, <1>9
<1> HIDE DEF P
<1>11. n \in P
  <2>1. n \in Nat /\ n \in 0 .. n
    OBVIOUS
  <2> HIDE DEF n
  <2> QED
    BY <1>10, <2>1, Induct, Zenon
<1> QED
  BY <1>7, <1>11 DEF P

BatchItem == [ids : Seq(SeqId) \ {<<>>}, len : 1 .. MaxBatch, from : Nat]

GoodBatch(b) ==
  /\ b \in Seq(BatchItem)
  /\ \A k \in 1 .. Len(b) : b[k].from + b[k].len - 1 \in Pos
  /\ \A j, k \in 1 .. Len(b) : j # k => ToSet(b[j].ids) \cap ToSet(b[k].ids) = {}

Lefts(b, left) == left \in [1 .. Len(b) -> Nat] /\ \A k \in 1 .. Len(b) : left[k] <= b[k].len

Picked(b, left, k, acc) ==
  /\ acc \in Seq(1 .. Len(b))
  /\ \A i \in 1 .. Len(acc) : acc[i] \in 1 .. k /\ left[acc[i]] > 0
  /\ \A i, j \in 1 .. Len(acc) : i # j => acc[i] # acc[j]
  /\ (\E j \in 1 .. k : left[j] > 0) => acc # <<>>

LEMMA ChosenPicks ==
  ASSUME NEW b, GoodBatch(b), NEW left, Lefts(b, left), NEW k \in 1 .. Len(b),
         NEW acc, Picked(b, left, k - 1, acc)
  PROVE  Picked(b, left, k, Chosen(b, left, acc, k))
<1>1. Len(b) \in Nat /\ left \in [1 .. Len(b) -> Nat]
  BY LenProperties DEF GoodBatch, Lefts
<1>2. /\ acc \in Seq(1 .. Len(b)) /\ Len(acc) \in Nat
      /\ \A i \in 1 .. Len(acc) : acc[i] \in 1 .. k - 1 /\ left[acc[i]] > 0
      /\ \A i, j \in 1 .. Len(acc) : i # j => acc[i] # acc[j]
      /\ (\E j \in 1 .. k - 1 : left[j] > 0) => acc # <<>>
  BY LenProperties DEF Picked
<1>3. CASE Chosen(b, left, acc, k) = acc
  <2>1. ~(left[k] > 0) \/ acc # <<>>
    <3>1. SUFFICES ASSUME left[k] > 0, acc = <<>> PROVE FALSE
      OBVIOUS
    <3>2. Len(acc) <= NUbatch
      BY <3>1, EmptySeq, SizesAssumption
    <3>3. acc = Append(acc, k)
      BY <1>3, <3>1, <3>2 DEF Chosen
    <3> QED
      BY <1>2, <3>1, <3>3, AppendProperties
  <2>2. (\E j \in 1 .. k : left[j] > 0) => acc # <<>>
    <3>1. \A j \in 1 .. k : j = k \/ j \in 1 .. k - 1
      OBVIOUS
    <3> QED
      BY <1>2, <2>1, <3>1
  <2>3. \A i \in 1 .. Len(acc) : acc[i] \in 1 .. k
    BY <1>1, <1>2
  <2> QED
    BY <1>2, <1>3, <2>2, <2>3 DEF Picked
<1>4. CASE Chosen(b, left, acc, k) # acc
  <2>1. left[k] > 0 /\ Chosen(b, left, acc, k) = Append(acc, k)
    BY <1>4 DEF Chosen
  <2> DEFINE a == Append(acc, k)
             N == 1 .. Len(b)
  <2>0. acc \in Seq(N) /\ k \in N
    BY <1>2
  <2> HIDE DEF N
  <2>2. /\ a \in Seq(N) /\ a # <<>> /\ Len(a) = Len(acc) + 1
        /\ \A i \in 1 .. Len(acc) : a[i] = acc[i]
        /\ a[Len(acc) + 1] = k
    <3>1. /\ a \in Seq(N) /\ a # <<>> /\ Len(a) = Len(acc) + 1
          /\ \A i \in 1 .. Len(acc) + 1 : a[i] = IF i = Len(acc) + 1 THEN k ELSE acc[i]
      BY <2>0, AppendProperties, LenProperties
    <3> HIDE DEF a
    <3> QED
      BY <1>2, <3>1
  <2> HIDE DEF a
  <2>3. ASSUME NEW i \in 1 .. Len(a)
        PROVE  i \in 1 .. Len(acc) \/ i = Len(acc) + 1
    BY <1>2, <2>2
  <2>4. ASSUME NEW i \in 1 .. Len(a)
        PROVE  a[i] \in 1 .. k /\ left[a[i]] > 0
    <3>1. CASE i \in 1 .. Len(acc)
      <4>1. a[i] = acc[i] /\ acc[i] \in 1 .. k - 1 /\ left[acc[i]] > 0
        BY <1>2, <2>2, <3>1
      <4> QED
        BY <1>1, <4>1
    <3>2. CASE i = Len(acc) + 1
      BY <1>1, <2>1, <2>2, <3>2
    <3> QED
      BY <2>3, <3>1, <3>2
  <2>5. ASSUME NEW i \in 1 .. Len(a), NEW j \in 1 .. Len(a), i # j
        PROVE  a[i] # a[j]
    <3>1. \A h \in 1 .. Len(acc) : a[h] # k
      BY <1>2, <2>2
    <3> QED
      BY <1>2, <2>2, <2>3, <2>5, <3>1
  <2>6. Picked(b, left, k, a)
    BY <2>2, <2>4, <2>5 DEF Picked, N
  <2> QED
    BY <2>1, <2>6 DEF a
<1> QED
  BY <1>3, <1>4

LEMMA NextGroupsPicks ==
  ASSUME NEW b, GoodBatch(b), NEW left, Lefts(b, left)
  PROVE  Picked(b, left, Len(b), NextGroups(b, left))
<1> DEFINE n == Len(b)
           I == {p \in Nat \X Seq(1 .. n) : Picked(b, left, p[1], p[2])}
<1>1. n \in Nat
  BY LenProperties DEF GoodBatch
<1>2. <<0, <<>> >> \in I
  <2>1. <<>> \in Seq(1 .. n) /\ Len(<<>>) = 0
    BY EmptySeq
  <2>2. Picked(b, left, 0, <<>>)
    BY <2>1 DEF Picked
  <2>3. \A e \in Seq(1 .. n) : Picked(b, left, 0, e) => <<0, e>> \in I
    OBVIOUS
  <2> QED
    BY <2>1, <2>2, <2>3, Zenon
<1>3. ASSUME NEW k \in 1 .. n, NEW x, <<k - 1, x>> \in I
      PROVE  <<k, Chosen(b, left, x, k)>> \in I
  <2>1. Picked(b, left, k - 1, x)
    BY <1>3
  <2>2. Picked(b, left, k, Chosen(b, left, x, k))
    BY <2>1, ChosenPicks
  <2> QED
    BY <2>2 DEF Picked
<1> HIDE DEF I
<1>4. <<n, NextGroups(b, left)>> \in I
  BY <1>1, <1>2, <1>3, NextGroupsWithin
<1> QED
  BY <1>4 DEF I

UBatch ==
  {ub \in [ids : Seq(Seq(SeqId)), len : Nat \ {0}, last : Seq(Pos)] :
     /\ ub.ids # <<>> /\ Len(ub.last) = Len(ub.ids)
     /\ \A k \in 1 .. Len(ub.ids) : ub.ids[k] # <<>>
     /\ \A j, k \in 1 .. Len(ub.ids) : j # k => Members(ub, j) \cap Members(ub, k) = {}}

LEMMA EqualLenFacts ==
  ASSUME NEW b, GoodBatch(b), NEW left, Lefts(b, left), NEW chosen,
         Picked(b, left, Len(b), chosen), chosen # <<>>
  PROVE  /\ EqualLen(left, chosen) \in Nat \ {0}
         /\ \A j \in 1 .. Len(chosen) : EqualLen(left, chosen) <= left[chosen[j]]
<1> DEFINE x == NUbatch \div Len(chosen)
           most == Max({1, x})
           A == {left[chosen[j]] : j \in DOMAIN chosen}
<1>1. /\ chosen \in Seq(1 .. Len(b)) /\ Len(chosen) \in Nat \ {0} /\ DOMAIN chosen = 1 .. Len(chosen)
      /\ \A j \in 1 .. Len(chosen) : left[chosen[j]] \in Nat \ {0}
  <2>1. chosen \in Seq(1 .. Len(b)) /\ Len(chosen) \in Nat \ {0} /\ DOMAIN chosen = 1 .. Len(chosen)
    BY EmptySeq, LenProperties DEF Picked
  <2>2. \A j \in 1 .. Len(chosen) : chosen[j] \in 1 .. Len(b) /\ left[chosen[j]] > 0
    BY DEF Picked
  <2> QED
    BY <2>1, <2>2 DEF Lefts
<1>2. x \in Int
  BY <1>1, SizesAssumption
<1> HIDE DEF x
<1>3. most \in {1, x} /\ 1 <= most
  <2>1. \E N \in Int : \A y \in {1, x} : y <= N
    <3>1. CASE x <= 1
      BY <1>2, <3>1
    <3>2. CASE x > 1
      BY <1>2, <3>2
    <3> QED
      BY <1>2, <3>1, <3>2
  <2>2. PICK N \in Int : \A y \in {1, x} : y <= N
    BY <2>1
  <2>3. {1, x} \in SUBSET Int /\ {1, x} # {}
    BY <1>2
  <2> DEFINE T == {1, x}
  <2>4. T \in SUBSET Int /\ T # {} /\ 1 \in T /\ \A y \in T : y <= N
    BY <2>2, <2>3
  <2> HIDE DEF T
  <2>5. Max(T) \in T /\ \A y \in T : y <= Max(T)
    BY <2>4, MaxInt
  <2> QED
    BY <2>4, <2>5 DEF T
<1>4. most \in Nat \ {0}
  BY <1>2, <1>3
<1> HIDE DEF most
<1>5. A \cup {most} \in SUBSET Nat /\ 0 \notin A \cup {most} /\ A \cup {most} # {}
  BY <1>1, <1>4
<1>6. Min(A \cup {most}) \in A \cup {most} /\ \A y \in A \cup {most} : Min(A \cup {most}) <= y
  <2> DEFINE T == A \cup {most}
  <2> HIDE DEF T
  <2>1. Min(T) \in T /\ \A y \in T : Min(T) <= y
    BY <1>5, MinNat DEF T
  <2> QED
    BY <2>1 DEF T
<1>7. EqualLen(left, chosen) = Min(A \cup {most})
  BY DEF EqualLen, most, x
<1>8. \A j \in 1 .. Len(chosen) : left[chosen[j]] \in A
  BY <1>1
<1> HIDE DEF A
<1> QED
  BY <1>5, <1>6, <1>7, <1>8

(* A micro-batch of the chosen groups.                                     *)
UbatchOf(b, left, chosen, len) ==
  [ids  |-> [j \in DOMAIN chosen |-> b[chosen[j]].ids],
   len  |-> len,
   last |-> [j \in DOMAIN chosen |-> b[chosen[j]].from + b[chosen[j]].len - left[chosen[j]] + len - 1]]

LeftAfter(b, left, chosen, len) ==
  [k \in DOMAIN b |-> IF k \in ToSet(chosen) THEN left[k] - len ELSE left[k]]

LEMMA UbatchFacts ==
  ASSUME NEW b, GoodBatch(b), NEW left, Lefts(b, left), NEW chosen,
         Picked(b, left, Len(b), chosen), chosen # <<>>,
         NEW len, len = EqualLen(left, chosen)
  PROVE  /\ UbatchOf(b, left, chosen, len) \in UBatch
         /\ Lefts(b, LeftAfter(b, left, chosen, len))
<1> DEFINE n == Len(chosen)
           ids == [j \in 1 .. n |-> b[chosen[j]].ids]
           last == [j \in 1 .. n |-> b[chosen[j]].from + b[chosen[j]].len - left[chosen[j]] + len - 1]
           ub == [ids |-> ids, len |-> len, last |-> last]
<1>1. /\ chosen \in Seq(1 .. Len(b)) /\ n \in Nat \ {0} /\ DOMAIN chosen = 1 .. n
      /\ \A j \in 1 .. n : chosen[j] \in 1 .. Len(b) /\ left[chosen[j]] > 0
      /\ \A i, j \in 1 .. n : i # j => chosen[i] # chosen[j]
  BY EmptySeq, LenProperties, ElementOfSeq DEF Picked
<1>2. len \in Nat \ {0} /\ \A j \in 1 .. n : len <= left[chosen[j]]
  BY EqualLenFacts
<1>3. /\ Len(b) \in Nat /\ DOMAIN b = 1 .. Len(b) /\ \A k \in 1 .. Len(b) : b[k] \in BatchItem
      /\ left \in [1 .. Len(b) -> Nat]
      /\ \A k \in 1 .. Len(b) : left[k] <= b[k].len /\ b[k].from + b[k].len - 1 \in Pos
      /\ \A j, k \in 1 .. Len(b) : j # k => ToSet(b[j].ids) \cap ToSet(b[k].ids) = {}
  BY LenProperties, ElementOfSeq DEF GoodBatch, Lefts
<1>4. ub = UbatchOf(b, left, chosen, len)
  BY <1>1 DEF UbatchOf
<1>5. \A j \in 1 .. n : last[j] \in Pos
  <2>1. SUFFICES ASSUME NEW j \in 1 .. n
                 PROVE  b[chosen[j]].from + b[chosen[j]].len - left[chosen[j]] + len - 1 \in Pos
    OBVIOUS
  <2> DEFINE f == b[chosen[j]].from
             t == b[chosen[j]].len
             r == left[chosen[j]]
  <2>2. /\ f \in Nat /\ t \in Nat /\ r \in Nat /\ r <= t /\ len <= r /\ len \in Nat \ {0}
        /\ f + t - 1 \in Pos
    BY <1>1, <1>2, <1>3, BoundsAssumption DEF BatchItem
  <2> HIDE DEF f, t, r
  <2>3. f + t - r + len - 1 \in Pos
    BY <2>2, BoundsAssumption DEF Pos
  <2> QED
    BY <2>3 DEF f, t, r
<1>6. \A j \in 1 .. n : ids[j] \in Seq(SeqId) /\ ids[j] # <<>> /\ ids[j] = b[chosen[j]].ids
  BY <1>1, <1>3 DEF BatchItem
<1>7. ids \in [1 .. n -> Seq(SeqId)] /\ last \in [1 .. n -> Pos]
  BY <1>5, <1>6
<1> HIDE DEF ids, last
<1>8. ids \in Seq(Seq(SeqId)) /\ Len(ids) = n /\ last \in Seq(Pos) /\ Len(last) = n
  BY <1>1, <1>7, AsSeq
<1>9. ids # <<>>
  BY <1>1, <1>8, EmptySeq
<1>10. /\ ub.ids = ids /\ ub.len = len /\ ub.last = last
       /\ ub \in [ids : Seq(Seq(SeqId)), len : Nat \ {0}, last : Seq(Pos)]
  BY <1>2, <1>8
<1> HIDE DEF ub
<1>11. ASSUME NEW j \in 1 .. n, NEW k \in 1 .. n, j # k
       PROVE  Members(ub, j) \cap Members(ub, k) = {}
  <2>1. Members(ub, j) = ToSet(b[chosen[j]].ids) /\ Members(ub, k) = ToSet(b[chosen[k]].ids)
    BY <1>6, <1>10 DEF Members, ToSet
  <2>2. chosen[j] # chosen[k] /\ chosen[j] \in 1 .. Len(b) /\ chosen[k] \in 1 .. Len(b)
    BY <1>1, <1>11
  <2> QED
    BY <1>3, <2>1, <2>2
<1>12. ub \in UBatch
  BY <1>6, <1>8, <1>9, <1>10, <1>11 DEF UBatch
<1>13. Lefts(b, LeftAfter(b, left, chosen, len))
  <2> DEFINE l == LeftAfter(b, left, chosen, len)
  <2>1. \A k \in ToSet(chosen) : len <= left[k]
    BY <1>1, <1>2 DEF ToSet
  <2>2. l = [k \in 1 .. Len(b) |-> IF k \in ToSet(chosen) THEN left[k] - len ELSE left[k]]
    BY <1>3 DEF LeftAfter
  <2> HIDE DEF l
  <2>3. \A k \in 1 .. Len(b) : left[k] \in Nat /\ b[k].len \in Nat /\ left[k] <= b[k].len
    BY <1>3, BoundsAssumption DEF BatchItem
  <2>4. \A k \in 1 .. Len(b) : l[k] \in Nat /\ l[k] <= b[k].len
    BY <1>2, <2>1, <2>2, <2>3
  <2>5. l \in [1 .. Len(b) -> Nat]
    BY <2>2, <2>4
  <2>6. Lefts(b, l)
    BY <2>4, <2>5 DEF Lefts
  <2> QED
    BY <2>6 DEF l
<1> QED
  BY <1>4, <1>12, <1>13

Splitting(b, acc) ==
  /\ acc = [left |-> acc.left, ubs |-> acc.ubs]
  /\ Lefts(b, acc.left) /\ acc.ubs \in Seq(UBatch)

(* What is left when there are tokens left, and the micro-batch.           *)
SplitsOff(b, acc, next) ==
  \E chosen, len :
    /\ Picked(b, acc.left, Len(b), chosen) /\ chosen # <<>> /\ len = EqualLen(acc.left, chosen)
    /\ next = [left |-> LeftAfter(b, acc.left, chosen, len),
               ubs  |-> Append(acc.ubs, UbatchOf(b, acc.left, chosen, len))]

LEMMA SplitOffIs ==
  ASSUME NEW b, GoodBatch(b), NEW acc, Splitting(b, acc), SplitOff(b, acc) # acc
  PROVE  SplitsOff(b, acc, SplitOff(b, acc))
<1> DEFINE chosen == NextGroups(b, acc.left)
           len == EqualLen(acc.left, chosen)
           next == SplitOff(b, acc)
<1>1. Lefts(b, acc.left) /\ DOMAIN b = 1 .. Len(b)
  BY LenProperties DEF Splitting, GoodBatch
<1>2. Picked(b, acc.left, Len(b), chosen)
  BY <1>1, NextGroupsPicks
<1>3. PICK k \in DOMAIN b : acc.left[k] # 0
  BY DEF SplitOff
<1>4. acc.left[k] > 0
  BY <1>1, <1>3 DEF Lefts
<1>5. chosen # <<>>
  <2> HIDE DEF chosen
  <2> QED
    BY <1>1, <1>2, <1>3, <1>4 DEF Picked
<1>6. next = NextUbatch(b, acc)
  BY DEF SplitOff
<1>7. NextUbatch(b, acc) = [left |-> LeftAfter(b, acc.left, chosen, len),
                            ubs  |-> Append(acc.ubs, UbatchOf(b, acc.left, chosen, len))]
  BY DEF NextUbatch, LeftAfter, UbatchOf
<1> HIDE DEF chosen, next
<1>8. SplitsOff(b, acc, next)
  BY <1>2, <1>5, <1>6, <1>7 DEF SplitsOff
<1> QED
  BY <1>8 DEF next

LEMMA SplitOffStays ==
  ASSUME NEW b, GoodBatch(b), NEW acc, Splitting(b, acc)
  PROVE  Splitting(b, SplitOff(b, acc))
<1> DEFINE next == SplitOff(b, acc)
<1>1. CASE next # acc
  <2>1. PICK chosen, len :
          /\ Picked(b, acc.left, Len(b), chosen) /\ chosen # <<>> /\ len = EqualLen(acc.left, chosen)
          /\ next = [left |-> LeftAfter(b, acc.left, chosen, len),
                     ubs  |-> Append(acc.ubs, UbatchOf(b, acc.left, chosen, len))]
    <3>1. SplitsOff(b, acc, next)
      BY <1>1, SplitOffIs, Zenon
    <3> HIDE DEF next
    <3> QED
      BY <3>1 DEF SplitsOff
  <2>2. Lefts(b, acc.left) /\ acc.ubs \in Seq(UBatch)
    BY DEF Splitting
  <2>3. UbatchOf(b, acc.left, chosen, len) \in UBatch /\ Lefts(b, LeftAfter(b, acc.left, chosen, len))
    BY <2>1, <2>2, UbatchFacts
  <2>4. Append(acc.ubs, UbatchOf(b, acc.left, chosen, len)) \in Seq(UBatch)
    BY <2>2, <2>3, AppendProperties
  <2>5. /\ next.left = LeftAfter(b, acc.left, chosen, len)
        /\ next.ubs = Append(acc.ubs, UbatchOf(b, acc.left, chosen, len))
        /\ next = [left |-> next.left, ubs |-> next.ubs]
    <3> DEFINE l == LeftAfter(b, acc.left, chosen, len)
               u == Append(acc.ubs, UbatchOf(b, acc.left, chosen, len))
    <3>1. next = [left |-> l, ubs |-> u]
      BY <2>1
    <3> HIDE DEF l, u, next
    <3>2. next.left = l /\ next.ubs = u
      BY <3>1
    <3> QED
      BY <3>1, <3>2 DEF l, u
  <2> HIDE DEF next
  <2>6. Splitting(b, next)
    BY <2>3, <2>4, <2>5 DEF Splitting
  <2> QED
    BY <2>6 DEF next
<1>2. CASE next = acc
  BY <1>2
<1> QED
  BY <1>1, <1>2

SplitFrom(b) == [left |-> [k \in DOMAIN b |-> b[k].len], ubs |-> <<>>]

IsSplitting(f, b) ==
  f = [i \in 0 .. MaxBatch * MaxGroups |-> IF i = 0 THEN SplitFrom(b) ELSE SplitOff(b, f[i - 1])]

LEMMA SplitWithin ==
  ASSUME NEW b, NEW I, <<0, SplitFrom(b)>> \in I,
         \A k \in 1 .. MaxBatch * MaxGroups : \A x : <<k - 1, x>> \in I => <<k, SplitOff(b, x)>> \in I
  PROVE  \E x : <<MaxBatch * MaxGroups, x>> \in I /\ Split(b) = x.ubs
<1> DEFINE n == MaxBatch * MaxGroups
           D == {<<q[1] + 1, q[2]>> : q \in I}
           G == [p \in D |-> SplitOff(b, p[2])]
           z == SplitFrom(b)
<1>0. n \in Nat
  BY BoundsAssumption
<1> HIDE DEF n, z
<1>1. ASSUME NEW k \in 1 .. n, NEW x, <<k - 1, x>> \in I
      PROVE  G[<<k, x>>] = SplitOff(b, x)
  <2>1. <<(k - 1) + 1, x>> \in D /\ (k - 1) + 1 = k
    BY <1>0, <1>1
  <2> HIDE DEF D
  <2> QED
    BY <2>1
<1> HIDE DEF G
<1>2. Stays(G, n, I)
  BY <1>1 DEF Stays, n
<1>3. PICK f : IsRun(f, n, z, G) /\ \A k \in 0 .. n : <<k, f[k]>> \in I
  <2>1. <<0, z>> \in I
    BY DEF z
  <2> QED
    BY <1>0, <1>2, <2>1, RunWithin
<1>4. \A k \in 0 .. n : k # 0 => G[<<k, f[k - 1]>>] = SplitOff(b, f[k - 1])
  <2>1. \A k \in 0 .. n : k # 0 => k \in 1 .. n /\ k - 1 \in 0 .. n
    BY <1>0
  <2> QED
    BY <1>1, <1>3, <2>1
<1>5. IsSplitting(f, b)
  <2>1. f = [k \in 0 .. n |-> IF k = 0 THEN z ELSE SplitOff(b, f[k - 1])]
    BY <1>3, <1>4 DEF IsRun
  <2> QED
    BY <2>1 DEF IsSplitting, n, z
<1>6. PICK g : g = CHOOSE h : IsSplitting(h, b)
  OBVIOUS
<1>7. IsSplitting(g, b) /\ Split(b) = g[n].ubs
  BY <1>5, <1>6, Zenon DEF Split, IsSplitting, SplitFrom, n
<1> DEFINE H == [k \in 0 .. n |-> IF k = 0 THEN z ELSE SplitOff(b, g[k - 1])]
<1>8. H[0] = z /\ \A k \in 1 .. n : H[k] = SplitOff(b, g[k - 1])
  BY <1>0
<1>9. H = g
  BY <1>7 DEF IsSplitting, n, z
<1> HIDE DEF H
<1> DEFINE P == {k \in 0 .. n : <<k, g[k]>> \in I}
<1>10. 0 \in P /\ \A k \in 1 .. n : k - 1 \in P => k \in P
  <2>1. <<0, z>> \in I /\ 0 \in 0 .. n
    BY <1>0 DEF z
  <2> QED
    BY <1>0, <1>8, <1>9, <2>1 DEF n
<1> HIDE DEF P
<1>11. n \in P
  <2>1. n \in 0 .. n
    BY <1>0
  <2> QED
    BY <1>0, <1>10, <2>1, Induct, Zenon
<1> QED
  BY <1>7, <1>11 DEF P, n

LEMMA SplitType ==
  ASSUME NEW b, GoodBatch(b)
  PROVE  Split(b) \in Seq(UBatch)
<1> DEFINE Accs == [left : [1 .. Len(b) -> Nat], ubs : Seq(UBatch)]
           I == {p \in Nat \X Accs : Splitting(b, p[2])}
<1>1. Splitting(b, SplitFrom(b))
  <2> DEFINE l == [k \in DOMAIN b |-> b[k].len]
             z == [left |-> l, ubs |-> <<>>]
  <2>1. \A k \in 1 .. Len(b) : b[k].len \in Nat
    <3>1. \A k \in 1 .. Len(b) : b[k] \in BatchItem
      BY ElementOfSeq DEF GoodBatch
    <3> QED
      BY <3>1, BoundsAssumption DEF BatchItem
  <2>2. Lefts(b, l)
    BY <2>1, LenProperties DEF GoodBatch, Lefts
  <2> HIDE DEF l
  <2>3. z.left = l /\ z.ubs = <<>>
    OBVIOUS
  <2>4. Splitting(b, z)
    BY <2>2, <2>3, EmptySeq DEF Splitting
  <2> QED
    BY <2>4 DEF SplitFrom, l
<1>2. \A x : Splitting(b, x) => x \in Accs
  BY DEF Splitting, Lefts
<1> HIDE DEF Accs
<1>3. \A k \in Nat : \A x : Splitting(b, x) => <<k, x>> \in I
  BY <1>2
<1>4. \A k, x : <<k, x>> \in I => Splitting(b, x)
  OBVIOUS
<1> HIDE DEF I
<1>5. \A k \in 1 .. MaxBatch * MaxGroups : \A x : <<k - 1, x>> \in I => <<k, SplitOff(b, x)>> \in I
  <2>1. MaxBatch * MaxGroups \in Nat
    BY BoundsAssumption
  <2>2. \A k \in 1 .. MaxBatch * MaxGroups : k \in Nat
    BY <2>1
  <2> QED
    BY <1>3, <1>4, <2>2, SplitOffStays, Zenon
<1>6. PICK x : <<MaxBatch * MaxGroups, x>> \in I /\ Split(b) = x.ubs
  <2>1. <<0, SplitFrom(b)>> \in I
    BY <1>1, <1>3
  <2> QED
    BY <1>5, <2>1, SplitWithin
<1> QED
  BY <1>4, <1>6 DEF Splitting

LEMMA PosMaxFacts ==
  ASSUME NEW m \in Mem, NEW s \in SeqId
  PROVE  seq_pos_max(m, s) \in Nat \cup {-1}
<1> DEFINE A == {-1} \cup {m.pos[c] : c \in {d \in Cell : s \in m.seqs[d]}}
<1>1. \A c \in Cell : m.pos[c] \in Pos \cup {-1}
  BY DEF Mem
<1>2. \A x \in A : x \in Pos \cup {-1}
  BY <1>1
<1>3. A # {}
  OBVIOUS
<1> HIDE DEF A
<1>4. A \in SUBSET Int /\ \A x \in A : x <= MaxLen
  BY <1>2, BoundsAssumption DEF Pos
<1>5. Max(A) \in A
  <2>1. MaxLen \in Int
    BY BoundsAssumption
  <2> QED
    BY <1>3, <1>4, <2>1, MaxInt, Zenon
<1>6. Max(A) \in Nat \cup {-1}
  BY <1>2, <1>5 DEF Pos
<1> QED
  BY <1>6 DEF seq_pos_max, A

LEMMA GroupFacts ==
  ASSUME NEW g \in Groups
  PROVE  g \in Seq(SeqId) \ {<<>>} /\ g[1] \in SeqId
<1>1. g \in Seq(SeqId) /\ g # <<>>
  <2>1. CASE g \in Pairs
    BY <2>1, PairsAssumption
  <2>2. CASE g \notin Pairs
    <3>1. PICK s \in SeqId : g = <<s>>
      BY <2>2 DEF Groups
    <3> QED
      BY <3>1
  <2> QED
    BY <2>1, <2>2
<1>2. 1 \in 1 .. Len(g)
  BY <1>1, EmptySeq
<1> QED
  BY <1>1, <1>2, ElementOfSeq

(* A batch goes on where the cells end.                                    *)
Continuing(b) ==
  \A k \in 1 .. Len(b) :
    /\ b[k].ids \in Groups /\ b[k].from = seq_pos_max(mem, b[k].ids[1]) + 1
    /\ \A s \in ToSet(b[k].ids) : mem.tail[s] = mem.tail[b[k].ids[1]]

LEMMA BatchesGood ==
  ASSUME mem \in Mem, NEW b \in Batches
  PROVE  GoodBatch(b) /\ Continuing(b)
<1> DEFINE options == {g \in [ids : Groups, len : 1 .. MaxBatch] : Continues(g)}
           from(g) == [ids |-> g.ids, len |-> g.len, from |-> seq_pos_max(mem, g.ids[1]) + 1]
<1>1. PICK q \in UNION {[1 .. n -> options] : n \in 1 .. MaxGroups} :
        /\ \A j, k \in DOMAIN q : j # k => ToSet(q[j].ids) \cap ToSet(q[k].ids) = {}
        /\ b = [k \in DOMAIN q |-> from(q[k])]
  BY DEF Batches
<1>2. PICK n \in 1 .. MaxGroups : q \in [1 .. n -> options]
  BY <1>1
<1>3. n \in Nat
  BY BoundsAssumption
<1>4. \A g \in options : /\ g.ids \in Groups /\ g.len \in 1 .. MaxBatch
                         /\ seq_pos_max(mem, g.ids[1]) + g.len \in Pos
                         /\ \A s \in ToSet(g.ids) : mem.tail[s] = mem.tail[g.ids[1]]
  BY DEF Continues
<1> HIDE DEF options
<1>5. \A k \in 1 .. n : /\ b[k].ids = q[k].ids /\ b[k].len = q[k].len
                        /\ b[k].from = seq_pos_max(mem, q[k].ids[1]) + 1
                        /\ b[k] = [ids |-> b[k].ids, len |-> b[k].len, from |-> b[k].from]
  <2>1. SUFFICES ASSUME NEW k \in 1 .. n
                 PROVE  /\ b[k].ids = q[k].ids /\ b[k].len = q[k].len
                        /\ b[k].from = seq_pos_max(mem, q[k].ids[1]) + 1
                        /\ b[k] = [ids |-> b[k].ids, len |-> b[k].len, from |-> b[k].from]
    OBVIOUS
  <2>2. b[k] = from(q[k])
    BY <1>1, <1>2
  <2> DEFINE x == seq_pos_max(mem, q[k].ids[1]) + 1
             i == q[k].ids
             l == q[k].len
  <2>3. b[k] = [ids |-> i, len |-> l, from |-> x]
    BY <2>2
  <2> HIDE DEF x, i, l
  <2>4. b[k].ids = i /\ b[k].len = l /\ b[k].from = x
    BY <2>3
  <2>5. b[k] = [ids |-> b[k].ids, len |-> b[k].len, from |-> b[k].from]
    BY <2>3, <2>4
  <2> QED
    BY <2>4, <2>5 DEF x, i, l
<1>6. \A k \in 1 .. n : b[k] \in BatchItem /\ b[k].from + b[k].len - 1 \in Pos
  <2>1. SUFFICES ASSUME NEW k \in 1 .. n
                 PROVE  b[k] \in BatchItem /\ b[k].from + b[k].len - 1 \in Pos
    OBVIOUS
  <2>2. /\ q[k].ids \in Groups /\ q[k].len \in 1 .. MaxBatch
        /\ seq_pos_max(mem, q[k].ids[1]) + q[k].len \in Pos
    BY <1>2, <1>4
  <2>3. q[k].ids \in Seq(SeqId) \ {<<>>} /\ seq_pos_max(mem, q[k].ids[1]) \in Nat \cup {-1}
    BY <2>2, GroupFacts, PosMaxFacts
  <2> DEFINE x == seq_pos_max(mem, q[k].ids[1])
  <2> HIDE DEF x
  <2>4. x \in Nat \cup {-1} /\ x + q[k].len \in Pos /\ b[k].from = x + 1
    BY <1>5, <2>2, <2>3 DEF x
  <2>5. x + 1 \in Nat /\ (x + 1) + q[k].len - 1 = x + q[k].len
    BY <2>2, <2>4
  <2>6. /\ b[k].ids \in Seq(SeqId) \ {<<>>} /\ b[k].len \in 1 .. MaxBatch /\ b[k].from \in Nat
        /\ b[k].from + b[k].len - 1 \in Pos
    BY <1>5, <2>2, <2>3, <2>4, <2>5
  <2>7. b[k] = [ids |-> b[k].ids, len |-> b[k].len, from |-> b[k].from]
    BY <1>5
  <2> QED
    BY <2>6, <2>7 DEF BatchItem
<1>7. b \in [1 .. n -> BatchItem]
  <2>1. DOMAIN b = 1 .. n /\ b = [k \in DOMAIN b |-> b[k]]
    BY <1>1, <1>2
  <2> QED
    BY <1>6, <2>1
<1>8. b \in Seq(BatchItem) /\ Len(b) = n
  BY <1>3, <1>7, AsSeq
<1>9. ASSUME NEW j \in 1 .. n, NEW k \in 1 .. n, j # k
      PROVE  ToSet(b[j].ids) \cap ToSet(b[k].ids) = {}
  BY <1>1, <1>2, <1>5, <1>9
<1>10. ASSUME NEW k \in 1 .. n
       PROVE  /\ b[k].ids \in Groups /\ b[k].from = seq_pos_max(mem, b[k].ids[1]) + 1
              /\ \A s \in ToSet(b[k].ids) : mem.tail[s] = mem.tail[b[k].ids[1]]
  <2>1. b[k].ids = q[k].ids /\ b[k].from = seq_pos_max(mem, q[k].ids[1]) + 1 /\ q[k] \in options
    BY <1>2, <1>5
  <2>2. q[k].ids \in Groups /\ \A s \in ToSet(q[k].ids) : mem.tail[s] = mem.tail[q[k].ids[1]]
    BY <1>4, <2>1
  <2> QED
    BY <2>1, <2>2
<1>11. Continuing(b)
  BY <1>8, <1>10 DEF Continuing
<1> QED
  BY <1>6, <1>8, <1>9, <1>11 DEF GoodBatch

LEMMA UBatchFacts ==
  ASSUME NEW ub \in UBatch
  PROVE  /\ Len(ub.ids) \in Nat \ {0} /\ DOMAIN ub.ids = 1 .. Len(ub.ids)
         /\ ub.len \in Nat \ {0}
         /\ \A k \in 1 .. Len(ub.ids) :
              /\ ub.last[k] \in Pos /\ Leader(ub, k) \in SeqId /\ Leader(ub, k) \in Members(ub, k)
              /\ Members(ub, k) \in SUBSET SeqId /\ Members(ub, k) # {}
         /\ \A j, k \in 1 .. Len(ub.ids) :
              j # k => Members(ub, j) \cap Members(ub, k) = {} /\ Leader(ub, j) # Leader(ub, k)
         /\ Followers(ub) \in SUBSET SeqId
         /\ \A k \in 1 .. Len(ub.ids) : Leader(ub, k) \notin Followers(ub)
<1>1. /\ ub.ids \in Seq(Seq(SeqId)) /\ ub.ids # <<>> /\ ub.len \in Nat \ {0}
      /\ ub.last \in Seq(Pos) /\ Len(ub.last) = Len(ub.ids)
      /\ \A k \in 1 .. Len(ub.ids) : ub.ids[k] # <<>>
      /\ \A j, k \in 1 .. Len(ub.ids) : j # k => Members(ub, j) \cap Members(ub, k) = {}
  BY DEF UBatch
<1>2. Len(ub.ids) \in Nat \ {0} /\ DOMAIN ub.ids = 1 .. Len(ub.ids)
  BY <1>1, EmptySeq, LenProperties
<1>3. ASSUME NEW k \in 1 .. Len(ub.ids)
      PROVE  /\ ub.last[k] \in Pos /\ Leader(ub, k) \in SeqId /\ Leader(ub, k) \in Members(ub, k)
             /\ Members(ub, k) \in SUBSET SeqId /\ Members(ub, k) # {}
  <2>1. ub.ids[k] \in Seq(SeqId) /\ ub.ids[k] # <<>> /\ ub.last[k] \in Pos
    BY <1>1, ElementOfSeq
  <2>2. Len(ub.ids[k]) \in Nat \ {0} /\ DOMAIN ub.ids[k] = 1 .. Len(ub.ids[k])
    BY <2>1, EmptySeq, LenProperties
  <2>3. 1 \in DOMAIN ub.ids[k] /\ \A j \in DOMAIN ub.ids[k] : ub.ids[k][j] \in SeqId
    BY <2>1, <2>2, ElementOfSeq
  <2> QED
    BY <2>1, <2>3 DEF Leader, Members
<1>4. \A j, k \in 1 .. Len(ub.ids) : j # k => Leader(ub, j) # Leader(ub, k)
  BY <1>1, <1>3
<1>5. Followers(ub) \in SUBSET SeqId
  BY <1>2, <1>3 DEF Followers
<1>6. ASSUME NEW k \in 1 .. Len(ub.ids)
      PROVE  Leader(ub, k) \notin Followers(ub)
  <2>1. SUFFICES ASSUME Leader(ub, k) \in Followers(ub) PROVE FALSE
    OBVIOUS
  <2>2. PICK j \in 1 .. Len(ub.ids) : Leader(ub, k) \in Members(ub, j) \ {Leader(ub, j)}
    BY <1>2, <2>1 DEF Followers
  <2> QED
    BY <1>1, <1>3, <2>2
<1> QED
  BY <1>1, <1>2, <1>3, <1>4, <1>5, <1>6

-----------------------------------------------------------------------------
(* find_slot: the cells that the leaders take.                             *)

(* x has moved the sequences of S into cells of their own; the tails of    *)
(* those that had no cell point to empty ones.                             *)
Consistent(S, x) ==
  /\ x \in Mem /\ ~x.aborted
  /\ \A u \in SeqId, c \in Cell : u \in x.seqs[c] => x.tail[u] = c
  /\ \A u \in SeqId \ S : x.tail[u] \in Cell => u \in x.seqs[x.tail[u]]
  /\ \A u \in S : x.tail[u] \in Cell /\ x.seqs[x.tail[u]] \subseteq {u}
  /\ \A u, v \in S : u # v => x.tail[u] # x.tail[v]
  /\ Positions(x)

(* Every sequence still refers to the row it had, and an empty cell to a   *)
(* row that was blank, or to none.                                         *)
Follows(m, S, x) ==
  /\ \A u \in SeqId : m.tail[u] \in Cell =>
       /\ x.tail[u] \in Cell
       /\ x.src[x.tail[u]] = m.src[m.tail[u]] /\ x.pos[x.tail[u]] = m.pos[m.tail[u]]
       /\ u \in x.seqs[x.tail[u]] /\ x.seqs[x.tail[u]] \subseteq m.seqs[m.tail[u]]
  /\ \A u \in SeqId : m.tail[u] = Nowhere =>
       IF u \in S THEN x.tail[u] \in Cell /\ x.seqs[x.tail[u]] = {} ELSE x.tail[u] = Nowhere
  /\ \A c \in Cell : x.seqs[c] = {} /\ x.src[c] # Nowhere =>
       m.seqs[x.src[c]] = {} /\ m.src[x.src[c]] = x.src[c]
  /\ x.rs_idx = m.rs_idx

HomeBut(A, x) ==
  \A c \in Cell \ A : x.src[c] \in {c, Nowhere} /\ (x.seqs[c] # {} => x.src[c] = c)

TailsOf(S, x) == {x.tail[u] : u \in S}

(* How many cells further c is, going round.                               *)
Dist(a, c) == IF c >= a THEN c - a ELSE c - a + Size

Blank(S, x) == {c \in Cell : x.seqs[c] = {} /\ c \notin TailsOf(S, x)}
Started(S, x) == {c \in Cell : x.seqs[c] = {} /\ c \in TailsOf(S, x)}

(* The search meets every free cell before it meets a cell taken.          *)
Ahead(S, x, e) ==
  /\ e \in Cell \cup {Nowhere}
  /\ Blank(S, x) # {} => /\ e \in Blank(S, x)
                         /\ \A c \in Blank(S, x), p \in Started(S, x) : Dist(e, c) < Dist(e, p)

LEMMA ModFacts ==
  ASSUME NEW a \in Int, -Size <= a, a < Size
  PROVE  a % Size = IF a >= 0 THEN a ELSE a + Size
<1> DEFINE q == a \div Size
           r == a % Size
<1>1. Size \in Nat \ {0}
  BY SizesAssumption
<1>2. q \in Int /\ r \in Int /\ a = Size * q + r /\ 0 <= r /\ r < Size
  BY <1>1, SMT
<1> HIDE DEF q, r
<1>3. q >= 1 => Size * q >= Size
  BY <1>1, <1>2, SMT
<1>4. q <= -2 => Size * q <= -2 * Size
  <2>1. SUFFICES ASSUME q <= -2 PROVE Size * q <= -2 * Size
    OBVIOUS
  <2>2. PICK p \in Nat : q = -2 - p
    <3>1. -2 - q \in Nat /\ q = -2 - (-2 - q)
      BY <1>2, <2>1
    <3> QED
      BY <3>1
  <2>3. Size * q = -2 * Size - Size * p /\ Size * p >= 0
    BY <1>1, <2>2, SMT
  <2> QED
    BY <1>1, <2>3, SMT
<1>5. q \in {-1, 0}
  BY <1>1, <1>2, <1>3, <1>4, SMT
<1>6. q = -1 => r = a + Size
  BY <1>1, <1>2, SMT
<1>7. q = 0 => r = a
  BY <1>1, <1>2, SMT
<1>8. r = IF a >= 0 THEN a ELSE a + Size
  BY <1>1, <1>2, <1>5, <1>6, <1>7, SMT
<1> QED
  BY <1>8 DEF r

LEMMA DistMod ==
  ASSUME NEW a \in Cell, NEW c \in Cell
  PROVE  (c - a) % Size = Dist(a, c) /\ Dist(a, c) \in 0 .. Size - 1
<1>1. a \in Int /\ c \in Int /\ Size \in Nat \ {0} /\ 0 <= a /\ a < Size /\ 0 <= c /\ c < Size
  BY SizesAssumption DEF Cell
<1>2. c - a \in Int /\ -Size <= c - a /\ c - a < Size
  BY <1>1
<1>3. (c - a) % Size = IF c - a >= 0 THEN c - a ELSE c - a + Size
  BY <1>2, ModFacts
<1> QED
  BY <1>1, <1>3 DEF Dist

LEMMA DistShift ==
  ASSUME NEW a \in Cell, NEW b \in Cell, NEW c \in Cell, Dist(a, b) <= Dist(a, c)
  PROVE  Dist(b, c) = Dist(a, c) - Dist(a, b)
BY SizesAssumption DEF Cell, Dist

LEMMA DistNext ==
  ASSUME NEW e \in Cell
  PROVE  /\ (e + 1) % Size \in Cell
         /\ \A c \in Cell : Dist((e + 1) % Size, c) = IF c = e THEN Size - 1 ELSE Dist(e, c) - 1
<1>1. Size \in Nat \ {0} /\ e \in Int /\ 0 <= e /\ e < Size
  BY SizesAssumption DEF Cell
<1> DEFINE n == (e + 1) % Size
<1>2. n = IF e = Size - 1 THEN 0 ELSE e + 1
  <2>1. CASE e = Size - 1
    <3>1. e + 1 = Size /\ Size % Size = 0
      BY <1>1, <2>1, SMT
    <3> QED
      BY <2>1, <3>1
  <2>2. CASE e # Size - 1
    <3>1. e + 1 \in Int /\ -Size <= e + 1 /\ e + 1 < Size /\ e + 1 >= 0
      BY <1>1, <2>2
    <3> QED
      BY <2>2, <3>1, ModFacts
  <2> QED
    BY <2>1, <2>2
<1> HIDE DEF n
<1>3. n \in Cell
  BY <1>1, <1>2 DEF Cell
<1>4. \A c \in Cell : Dist(n, c) = IF c = e THEN Size - 1 ELSE Dist(e, c) - 1
  BY <1>1, <1>2 DEF Cell, Dist
<1> QED
  BY <1>3, <1>4 DEF n

LEMMA EmptyCellFacts ==
  ASSUME NEW x \in Mem, NEW from \in Cell, NEW E, E = {c \in Cell : x.seqs[c] = {}}
  PROVE  /\ E = {} => EmptyCell(x, from) = Nowhere
         /\ E # {} => /\ EmptyCell(x, from) \in E
                      /\ \A d \in E : Dist(from, EmptyCell(x, from)) <= Dist(from, d)
<1>1. CASE E = {}
  BY <1>1 DEF EmptyCell
<1>2. CASE E # {}
  <2> DEFINE far == {Dist(from, c) : c \in E}
  <2>1. far \in SUBSET Nat /\ far # {}
    <3>1. \A c \in E : Dist(from, c) \in Nat
      BY DistMod, SizesAssumption
    <3> QED
      BY <1>2, <3>1
  <2>2. Min(far) \in far /\ \A y \in far : Min(far) <= y
    <3> HIDE DEF far
    <3> QED
      BY <2>1, MinNat
  <2>3. PICK b \in E : Min(far) = Dist(from, b)
    BY <2>2
  <2>4. \A d \in E : Dist(from, b) <= Dist(from, d)
    BY <2>2, <2>3
  <2>5. \A c, d \in E : (c - from) % Size = Dist(from, c) /\ (d - from) % Size = Dist(from, d)
    BY DistMod
  <2>6. \A d \in E : (b - from) % Size <= (d - from) % Size
    BY <2>4, <2>5
  <2> DEFINE e == CHOOSE c \in E : \A d \in E : (c - from) % Size <= (d - from) % Size
  <2>7. EmptyCell(x, from) = e
    BY <1>2 DEF EmptyCell
  <2>8. e \in E /\ \A d \in E : (e - from) % Size <= (d - from) % Size
    BY <2>6, Zenon
  <2> HIDE DEF e
  <2>9. \A d \in E : Dist(from, e) <= Dist(from, d)
    BY <2>5, <2>8
  <2> QED
    BY <1>2, <2>7, <2>8, <2>9
<1> QED
  BY <1>1, <1>2

(* There is a free cell for every leader that needs one.                   *)
LEMMA RoomLeft ==
  ASSUME NEW S \in SUBSET SeqId, NEW x, Consistent(S, x), NEW s \in SeqId \ S,
         ~(x.tail[s] \in Cell /\ x.seqs[x.tail[s]] = {s})
  PROVE  Blank(S, x) # {}
<1>1. SUFFICES ASSUME Blank(S, x) = {} PROVE FALSE
  OBVIOUS
<1>2. /\ x \in Mem
      /\ \A u \in SeqId, c \in Cell : u \in x.seqs[c] => x.tail[u] = c
  BY DEF Consistent
<1> DEFINE D == SeqId \ {s}
           f == [u \in D |-> IF x.tail[u] \in Cell THEN x.tail[u] ELSE 0]
<1>3. ASSUME NEW c \in Cell
      PROVE  \E u \in D : f[u] = c
  <2>1. \E u \in D : x.tail[u] = c
    <3>1. CASE c \in TailsOf(S, x)
      BY <3>1 DEF TailsOf
    <3>2. CASE c \notin TailsOf(S, x)
      <4>1. x.seqs[c] # {}
        BY <1>1, <3>2 DEF Blank
      <4>2. x.seqs[c] # {s}
        <5>1. SUFFICES ASSUME x.seqs[c] = {s} PROVE FALSE
          OBVIOUS
        <5>2. x.tail[s] = c
          BY <1>2, <5>1
        <5> QED
          BY <5>1, <5>2
      <4>3. PICK u \in x.seqs[c] : u # s
        BY <4>1, <4>2
      <4>4. u \in SeqId
        BY <1>2 DEF Mem
      <4> QED
        BY <1>2, <4>3, <4>4
    <3> QED
      BY <3>1, <3>2
  <2> QED
    BY <2>1
<1>4. f \in Surjection(D, Cell)
  <2>1. f \in [D -> Cell]
    BY CellFacts
  <2> HIDE DEF f
  <2> QED
    BY <1>3, <2>1 DEF Surjection
<1>5. IsFiniteSet(D) /\ Cardinality(D) = Size - 1
  BY CellFacts, FS_RemoveElement
<1>6. Cardinality(Cell) <= Cardinality(D)
  <2> HIDE DEF f, D
  <2> QED
    BY <1>4, <1>5, FS_Surjection
<1> QED
  BY <1>5, <1>6, CellFacts, SizesAssumption

(* The next free cell is found behind the one that is taken.               *)
LEMMA AheadNext ==
  ASSUME NEW S \in SUBSET SeqId, NEW s \in SeqId, NEW x, NEW e \in Cell, Ahead(S, x, e),
         e \in Blank(S, x), NEW y \in Mem, NEW T \in SUBSET SeqId,
         Blank(T, y) = Blank(S, x) \ {e},
         Started(T, y) \in SUBSET (Started(S, x) \cup {e})
  PROVE  Ahead(T, y, EmptyCell(y, (e + 1) % Size))
<1> DEFINE n == (e + 1) % Size
           E == {c \in Cell : y.seqs[c] = {}}
           b == EmptyCell(y, n)
<1>1. n \in Cell /\ \A c \in Cell : Dist(n, c) = IF c = e THEN Size - 1 ELSE Dist(e, c) - 1
  BY DistNext
<1>2. /\ E = {} => b = Nowhere
      /\ E # {} => b \in E /\ \A d \in E : Dist(n, b) <= Dist(n, d)
  <2> HIDE DEF n
  <2> QED
    BY <1>1, EmptyCellFacts
<1>3. \A c \in Blank(S, x), p \in Started(S, x) : Dist(e, c) < Dist(e, p)
  BY DEF Ahead
<1>4. \A a, c \in Cell : Dist(a, c) \in 0 .. Size - 1
  BY DistMod
<1>5. E = Blank(T, y) \cup Started(T, y) /\ E \in SUBSET Cell /\ Started(S, x) \in SUBSET Cell
      /\ Blank(S, x) \in SUBSET Cell
  BY DEF Blank, Started
<1>6. e \notin Started(S, x)
  BY DEF Blank, Started
<1> HIDE DEF n, E, b
<1>7. ASSUME NEW c \in Blank(T, y), NEW p \in Started(T, y)
      PROVE  Dist(n, c) < Dist(n, p)
  <2>1. c \in Blank(S, x) /\ c # e /\ c \in Cell /\ p \in Cell /\ (p = e \/ p \in Started(S, x))
    BY <1>5, <1>7
  <2>2. Dist(n, c) = Dist(e, c) - 1 /\ Dist(e, c) \in Int /\ Dist(e, c) <= Size - 1
    BY <1>1, <1>4, <2>1
  <2>3. CASE p = e
    BY <1>1, <2>1, <2>2, <2>3, SizesAssumption
  <2>4. CASE p # e
    <3>1. Dist(e, c) < Dist(e, p) /\ Dist(n, p) = Dist(e, p) - 1 /\ Dist(e, p) \in Int
      BY <1>1, <1>3, <1>4, <2>1, <2>4
    <3> QED
      BY <2>2, <3>1
  <2> QED
    BY <2>3, <2>4
<1>8. ASSUME Blank(T, y) = {} PROVE Ahead(T, y, b)
  <2>1. b \in Cell \cup {Nowhere}
    BY <1>2, <1>5
  <2> QED
    BY <1>8, <2>1 DEF Ahead
<1>9. ASSUME Blank(T, y) # {} PROVE Ahead(T, y, b)
  <2>1. b \in E /\ \A d \in E : Dist(n, b) <= Dist(n, d)
    BY <1>2, <1>5, <1>9
  <2>2. b \in Blank(T, y)
    <3>1. PICK c \in Blank(T, y) : TRUE
      BY <1>9
    <3>2. SUFFICES ASSUME b \in Started(T, y) PROVE FALSE
      BY <1>5, <2>1
    <3>3. c \in E /\ c \in Cell /\ b \in Cell /\ Dist(n, c) < Dist(n, b) /\ Dist(n, b) <= Dist(n, c)
      BY <1>5, <1>7, <2>1, <3>2
    <3>4. Dist(n, c) \in Int /\ Dist(n, b) \in Int
      BY <1>1, <1>4, <3>3
    <3> QED
      BY <3>3, <3>4
  <2>3. ASSUME NEW c \in E
        PROVE  Dist(b, c) = Dist(n, c) - Dist(n, b)
    BY <1>1, <1>5, <2>1, DistShift
  <2>4. ASSUME NEW c \in Blank(T, y), NEW p \in Started(T, y)
        PROVE  Dist(b, c) < Dist(b, p)
    <3>1. c \in E /\ p \in E /\ b \in E
      BY <1>5, <2>1
    <3>2. Dist(n, c) \in Int /\ Dist(n, p) \in Int /\ Dist(n, b) \in Int
      BY <1>1, <1>4, <1>5, <3>1
    <3> QED
      BY <1>7, <2>3, <3>1, <3>2
  <2> QED
    BY <1>5, <2>1, <2>2, <2>4 DEF Ahead
<1> QED
  BY <1>8, <1>9 DEF b, n

Taking(m, S, q) ==
  /\ Consistent(S, q.mem) /\ Follows(m, S, q.mem)
  /\ HomeBut(TailsOf(S, q.mem), q.mem) /\ Ahead(S, q.mem, q.empty)

LEMMA SameEmptyCell ==
  ASSUME NEW x, NEW y, y.seqs = x.seqs, NEW n
  PROVE  EmptyCell(y, n) = EmptyCell(x, n)
BY DEF EmptyCell

(* A leader that is alone in its cell keeps it.                            *)
LEMMA TakeOwn ==
  ASSUME NEW m, NEW S \in SUBSET SeqId, NEW q, Taking(m, S, q), NEW s \in SeqId \ S,
         m.tail \in [SeqId -> Cell \cup {Nowhere}],
         q.mem.tail[s] \in Cell, q.mem.seqs[q.mem.tail[s]] = {s}
  PROVE  Taking(m, S \cup {s}, q)
<1> DEFINE x == q.mem
           T == S \cup {s}
<1>1. /\ Consistent(S, x) /\ Follows(m, S, x) /\ HomeBut(TailsOf(S, x), x) /\ Ahead(S, x, q.empty)
  BY DEF Taking
<1>2. x.tail[s] \in Cell /\ x.seqs[x.tail[s]] = {s}
  OBVIOUS
<1> HIDE DEF x
<1>3. \A v \in S : x.tail[v] # x.tail[s]
  BY <1>1, <1>2 DEF Consistent
<1>4. Consistent(T, x)
  BY <1>1, <1>2, <1>3 DEF Consistent
<1>5. Follows(m, T, x)
  <2>1. m.tail[s] # Nowhere
    BY <1>1, <1>2, CellFacts DEF Follows
  <2>2. \A u \in SeqId : m.tail[u] = Nowhere => (u \in T <=> u \in S)
    BY <2>1
  <2> HIDE DEF T
  <2> QED
    BY <1>1, <2>2 DEF Follows
<1>6. TailsOf(T, x) = TailsOf(S, x) \cup {x.tail[s]}
  BY DEF TailsOf
<1>7. HomeBut(TailsOf(T, x), x)
  BY <1>1, <1>6 DEF HomeBut
<1>8. Blank(T, x) = Blank(S, x) /\ Started(T, x) = Started(S, x)
  BY <1>2, <1>6 DEF Blank, Started
<1>9. Ahead(T, x, q.empty)
  BY <1>1, <1>8 DEF Ahead
<1> QED
  BY <1>4, <1>5, <1>7, <1>9 DEF Taking, x

(* A leader without a cell takes an empty one.                             *)
LEMMA TakeFirst ==
  ASSUME NEW m, NEW S \in SUBSET SeqId, NEW q, Taking(m, S, q), NEW s \in SeqId \ S,
         m.tail \in [SeqId -> Cell \cup {Nowhere}],
         q.mem.tail[s] = Nowhere, q.empty \in Blank(S, q.mem),
         NEW y, y = [q.mem EXCEPT !.tail[s] = q.empty], NEW r,
         r = [mem |-> y, empty |-> EmptyCell(q.mem, (q.empty + 1) % Size)]
  PROVE  Taking(m, S \cup {s}, r)
<1> DEFINE x == q.mem
           e == q.empty
           T == S \cup {s}
<1>1. /\ Consistent(S, x) /\ Follows(m, S, x) /\ HomeBut(TailsOf(S, x), x) /\ Ahead(S, x, e)
      /\ x.tail[s] = Nowhere /\ e \in Blank(S, x) /\ y = [x EXCEPT !.tail[s] = e]
      /\ r = [mem |-> y, empty |-> EmptyCell(x, (e + 1) % Size)]
  BY DEF Taking
<1> HIDE DEF x, e
<1>2. x \in Mem /\ e \in Cell /\ x.seqs[e] = {} /\ e \notin TailsOf(S, x)
  BY <1>1 DEF Consistent, Blank
<1>3. /\ y \in Mem /\ y.pos = x.pos /\ y.src = x.src /\ y.seqs = x.seqs
      /\ y.rs_idx = x.rs_idx /\ y.aborted = x.aborted
      /\ \A u \in SeqId : y.tail[u] = IF u = s THEN e ELSE x.tail[u]
  BY <1>1, <1>2 DEF Mem
<1>4. \A u \in S : x.tail[u] # e
  BY <1>2 DEF TailsOf
<1>5. Consistent(T, y)
  <2>1. \A u \in SeqId, c \in Cell : u \in y.seqs[c] => y.tail[u] = c
    BY <1>1, <1>3, CellFacts DEF Consistent
  <2>2. \A u \in SeqId \ T : y.tail[u] \in Cell => u \in y.seqs[y.tail[u]]
    BY <1>1, <1>3 DEF Consistent
  <2>3. \A u \in T : y.tail[u] \in Cell /\ y.seqs[y.tail[u]] \subseteq {u}
    BY <1>1, <1>2, <1>3 DEF Consistent
  <2>4. \A u, v \in T : u # v => y.tail[u] # y.tail[v]
    BY <1>1, <1>3, <1>4 DEF Consistent
  <2>5. ~y.aborted /\ Positions(y)
    BY <1>1, <1>3 DEF Consistent, Positions
  <2> QED
    BY <1>3, <2>1, <2>2, <2>3, <2>4, <2>5 DEF Consistent
<1>6. Follows(m, T, y)
  <2>1. m.tail[s] = Nowhere
    BY <1>1, CellFacts DEF Follows
  <2>2. ASSUME NEW u \in SeqId, m.tail[u] \in Cell
        PROVE  /\ y.tail[u] \in Cell
               /\ y.src[y.tail[u]] = m.src[m.tail[u]] /\ y.pos[y.tail[u]] = m.pos[m.tail[u]]
               /\ u \in y.seqs[y.tail[u]] /\ y.seqs[y.tail[u]] \subseteq m.seqs[m.tail[u]]
    <3>1. u # s
      BY <2>1, <2>2, CellFacts
    <3> QED
      BY <1>1, <1>3, <2>2, <3>1 DEF Follows
  <2>3. ASSUME NEW u \in SeqId, m.tail[u] = Nowhere
        PROVE  IF u \in T THEN y.tail[u] \in Cell /\ y.seqs[y.tail[u]] = {} ELSE y.tail[u] = Nowhere
    <3>1. CASE u = s
      BY <1>2, <1>3, <3>1
    <3>2. CASE u # s
      BY <1>1, <1>3, <2>3, <3>2 DEF Follows
    <3> QED
      BY <3>1, <3>2
  <2>4. \A c \in Cell : y.seqs[c] = {} /\ y.src[c] # Nowhere =>
          m.seqs[y.src[c]] = {} /\ m.src[y.src[c]] = y.src[c]
    BY <1>1, <1>3 DEF Follows
  <2>5. y.rs_idx = m.rs_idx
    BY <1>1, <1>3 DEF Follows
  <2> QED
    BY <2>2, <2>3, <2>4, <2>5 DEF Follows
<1>7. TailsOf(T, y) = TailsOf(S, x) \cup {e}
  <2>1. \A u \in S : y.tail[u] = x.tail[u]
    BY <1>3
  <2> QED
    BY <1>3, <2>1 DEF TailsOf
<1>8. HomeBut(TailsOf(T, y), y)
  BY <1>1, <1>3, <1>7 DEF HomeBut
<1>9. Blank(T, y) = Blank(S, x) \ {e} /\ Started(T, y) \in SUBSET (Started(S, x) \cup {e})
  BY <1>3, <1>7 DEF Blank, Started
<1>10. Ahead(T, y, EmptyCell(y, (e + 1) % Size))
  <2>1. T \in SUBSET SeqId /\ s \in SeqId
    OBVIOUS
  <2> HIDE DEF T
  <2> QED
    BY <1>1, <1>2, <1>3, <1>9, <2>1, AheadNext, Zenon
<1>11. EmptyCell(y, (e + 1) % Size) = EmptyCell(x, (e + 1) % Size)
  BY <1>3, SameEmptyCell, Zenon
<1>12. r.mem = y /\ r.empty = EmptyCell(y, (e + 1) % Size)
  <2> DEFINE b == EmptyCell(x, (e + 1) % Size)
  <2>1. r = [mem |-> y, empty |-> b]
    BY <1>1
  <2> HIDE DEF b
  <2>2. r.mem = y /\ r.empty = b
    BY <2>1
  <2> QED
    BY <1>11, <2>2 DEF b
<1> QED
  BY <1>5, <1>6, <1>8, <1>10, <1>12 DEF Taking

(* A leader that shares its cell takes a copy along.                       *)
LEMMA TakeCopy ==
  ASSUME NEW m, NEW S \in SUBSET SeqId, NEW q, Taking(m, S, q), NEW s \in SeqId \ S,
         m.tail \in [SeqId -> Cell \cup {Nowhere}],
         q.mem.tail[s] \in Cell, q.mem.seqs[q.mem.tail[s]] # {s}, q.empty \in Blank(S, q.mem),
         NEW z, z = CopyTail(q.mem, s, q.empty),
         NEW y, y = [z EXCEPT !.tail[s] = q.empty], NEW r,
         r = [mem |-> y, empty |-> EmptyCell(z, (q.empty + 1) % Size)]
  PROVE  Taking(m, S \cup {s}, r)
<1> DEFINE x == q.mem
           e == q.empty
           t == x.tail[s]
           T == S \cup {s}
<1>1. /\ Consistent(S, x) /\ Follows(m, S, x) /\ HomeBut(TailsOf(S, x), x) /\ Ahead(S, x, e)
      /\ t \in Cell /\ x.seqs[t] # {s} /\ e \in Blank(S, x)
      /\ z = CopyTail(x, s, e) /\ y = [z EXCEPT !.tail[s] = e]
      /\ r = [mem |-> y, empty |-> EmptyCell(z, (e + 1) % Size)]
  BY DEF Taking
<1> HIDE DEF x, e
<1>2. /\ x \in Mem /\ e \in Cell /\ x.seqs[e] = {} /\ e \notin TailsOf(S, x)
      /\ s \in x.seqs[t] /\ e # t /\ t # Nowhere /\ x.seqs[t] \subseteq SeqId
  <2>1. x \in Mem /\ e \in Cell /\ x.seqs[e] = {} /\ e \notin TailsOf(S, x) /\ s \in x.seqs[t]
    BY <1>1 DEF Consistent, Blank
  <2> QED
    BY <1>1, <2>1, CellFacts DEF Mem
<1>3. /\ z \in Mem /\ z.tail = x.tail /\ z.rs_idx = x.rs_idx /\ z.aborted = x.aborted
      /\ \A c \in Cell : z.pos[c] = IF c = e THEN x.pos[t] ELSE x.pos[c]
      /\ \A c \in Cell : z.src[c] = IF c = e THEN x.src[t] ELSE x.src[c]
      /\ \A c \in Cell : z.seqs[c] = IF c = e THEN {s} ELSE IF c = t THEN x.seqs[t] \ {s} ELSE x.seqs[c]
  <2> DEFINE p == [x.pos EXCEPT ![e] = x.pos[t]]
             w == [x.src EXCEPT ![e] = x.src[t]]
             f == [x.seqs EXCEPT ![t] = @ \ {s}, ![e] = {s}]
  <2>1. p \in [Cell -> Pos \cup {-1}] /\ w \in [Cell -> Cell \cup {Nowhere}] /\ f \in [Cell -> SUBSET SeqId]
    BY <1>1, <1>2 DEF Mem
  <2>2. /\ \A c \in Cell : p[c] = IF c = e THEN x.pos[t] ELSE x.pos[c]
        /\ \A c \in Cell : w[c] = IF c = e THEN x.src[t] ELSE x.src[c]
        /\ \A c \in Cell : f[c] = IF c = e THEN {s} ELSE IF c = t THEN x.seqs[t] \ {s} ELSE x.seqs[c]
    BY <1>1, <1>2 DEF Mem
  <2>3. z = [x EXCEPT !.pos = p, !.src = w, !.seqs = f]
    <3>1. z = [x EXCEPT !.pos[e] = x.pos[t], !.src[e] = x.src[t], !.seqs = f]
      <4>1. z = CopyTail(x, s, e) /\ x.tail[s] # Nowhere
        BY <1>1, <1>2
      <4>2. z = [x EXCEPT !.pos[e] = x.pos[t], !.src[e] = x.src[t],
                          !.seqs = [x.seqs EXCEPT ![t] = @ \ {s}, ![e] = {s}]]
        BY <4>1 DEF CopyTail
      <4> QED
        BY <1>2, <4>2 DEF Mem
    <3> HIDE DEF f
    <3> QED
      BY <1>2, <3>1 DEF Mem
  <2> HIDE DEF p, w, f
  <2>4. /\ z \in Mem /\ z.tail = x.tail /\ z.rs_idx = x.rs_idx /\ z.aborted = x.aborted
        /\ z.pos = p /\ z.src = w /\ z.seqs = f
    BY <1>2, <2>1, <2>3 DEF Mem
  <2> QED
    BY <2>2, <2>4
<1>4. /\ y \in Mem /\ y.pos = z.pos /\ y.src = z.src /\ y.seqs = z.seqs
      /\ y.rs_idx = z.rs_idx /\ y.aborted = z.aborted
      /\ \A u \in SeqId : y.tail[u] = IF u = s THEN e ELSE x.tail[u]
  <2>1. y = [z EXCEPT !.tail[s] = e] /\ z \in Mem /\ z.tail = x.tail /\ e \in Cell
    BY <1>1, <1>2, <1>3
  <2> HIDE DEF t
  <2> QED
    BY <2>1 DEF Mem
<1>5. \A u \in S : x.tail[u] # e /\ x.tail[u] # t
  BY <1>1, <1>2 DEF TailsOf, Consistent
<1>6. x.src[t] = t /\ x.src[t] = m.src[m.tail[s]] /\ x.pos[t] = m.pos[m.tail[s]] /\ m.tail[s] \in Cell
      /\ x.seqs[t] \subseteq m.seqs[m.tail[s]]
  <2>1. t \notin TailsOf(S, x)
    BY <1>5 DEF TailsOf
  <2>2. x.src[t] = t
    BY <1>1, <1>2, <2>1 DEF HomeBut
  <2>3. m.tail[s] \in Cell
    BY <1>1, <1>2 DEF Follows
  <2> QED
    BY <1>1, <2>2, <2>3 DEF Follows
<1>7. Consistent(T, y)
  <2>1. ASSUME NEW u \in SeqId, NEW c \in Cell, u \in y.seqs[c]
        PROVE  y.tail[u] = c
    <3>1. CASE c = e
      BY <1>3, <1>4, <2>1, <3>1
    <3>2. CASE c # e
      <4>1. u \in x.seqs[c] /\ (c = t => u # s)
        BY <1>3, <1>4, <2>1, <3>2
      <4>2. x.tail[u] = c
        BY <1>1, <4>1 DEF Consistent
      <4> QED
        BY <1>4, <4>1, <4>2
    <3> QED
      BY <3>1, <3>2
  <2>2. ASSUME NEW u \in SeqId \ T, y.tail[u] \in Cell
        PROVE  u \in y.seqs[y.tail[u]]
    <3>1. y.tail[u] = x.tail[u] /\ u \in x.seqs[x.tail[u]] /\ u # s /\ x.tail[u] \in Cell
      BY <1>1, <1>4, <2>2 DEF Consistent
    <3>2. x.tail[u] # e
      BY <1>2, <3>1
    <3> QED
      BY <1>3, <1>4, <3>1, <3>2
  <2>3. ASSUME NEW u \in T
        PROVE  y.tail[u] \in Cell /\ y.seqs[y.tail[u]] \subseteq {u}
    <3>1. CASE u = s
      BY <1>2, <1>3, <1>4, <3>1
    <3>2. CASE u # s
      <4>1. u \in S /\ y.tail[u] = x.tail[u] /\ x.tail[u] \in Cell /\ x.seqs[x.tail[u]] \subseteq {u}
        BY <1>1, <1>4, <2>3, <3>2 DEF Consistent
      <4> QED
        BY <1>3, <1>4, <1>5, <4>1
    <3> QED
      BY <3>1, <3>2
  <2>4. \A u, v \in T : u # v => y.tail[u] # y.tail[v]
    BY <1>1, <1>4, <1>5 DEF Consistent
  <2>5. Positions(y)
    <3>1. SUFFICES ASSUME NEW c \in Cell PROVE y.pos[c] = -1 <=> y.seqs[c] = {}
      BY DEF Positions
    <3>2. x.pos[c] = -1 <=> x.seqs[c] = {}
      BY <1>1 DEF Consistent, Positions
    <3>3. x.pos[t] # -1
      BY <1>1, <1>2 DEF Consistent, Positions
    <3>4. x.seqs[t] \ {s} # {}
      BY <1>1, <1>2
    <3> QED
      BY <1>3, <1>4, <3>2, <3>3, <3>4
  <2>6. ~y.aborted
    BY <1>1, <1>3, <1>4 DEF Consistent
  <2> QED
    BY <1>4, <2>1, <2>2, <2>3, <2>4, <2>5, <2>6 DEF Consistent
<1>8. Follows(m, T, y)
  <2>1. ASSUME NEW u \in SeqId, m.tail[u] \in Cell
        PROVE  /\ y.tail[u] \in Cell
               /\ y.src[y.tail[u]] = m.src[m.tail[u]] /\ y.pos[y.tail[u]] = m.pos[m.tail[u]]
               /\ u \in y.seqs[y.tail[u]] /\ y.seqs[y.tail[u]] \subseteq m.seqs[m.tail[u]]
    <3>1. CASE u = s
      <4>1. y.tail[u] = e /\ y.src[e] = x.src[t] /\ y.pos[e] = x.pos[t] /\ y.seqs[e] = {s}
        BY <1>2, <1>3, <1>4, <3>1
      <4> QED
        BY <1>2, <1>6, <3>1, <4>1
    <3>2. CASE u # s
      <4>1. /\ x.tail[u] \in Cell /\ x.src[x.tail[u]] = m.src[m.tail[u]] /\ x.pos[x.tail[u]] = m.pos[m.tail[u]]
            /\ u \in x.seqs[x.tail[u]] /\ x.seqs[x.tail[u]] \subseteq m.seqs[m.tail[u]]
        BY <1>1, <2>1 DEF Follows
      <4>2. x.tail[u] # e /\ y.tail[u] = x.tail[u]
        BY <1>2, <1>4, <3>2, <4>1
      <4> QED
        BY <1>3, <1>4, <3>2, <4>1, <4>2
    <3> QED
      BY <3>1, <3>2
  <2>2. ASSUME NEW u \in SeqId, m.tail[u] = Nowhere
        PROVE  IF u \in T THEN y.tail[u] \in Cell /\ y.seqs[y.tail[u]] = {} ELSE y.tail[u] = Nowhere
    <3>1. u # s
      BY <1>6, <2>2, CellFacts
    <3>2. IF u \in S THEN x.tail[u] \in Cell /\ x.seqs[x.tail[u]] = {} ELSE x.tail[u] = Nowhere
      BY <1>1, <2>2 DEF Follows
    <3> QED
      BY <1>3, <1>4, <1>5, <3>1, <3>2
  <2>3. ASSUME NEW c \in Cell, y.seqs[c] = {}, y.src[c] # Nowhere
        PROVE  m.seqs[y.src[c]] = {} /\ m.src[y.src[c]] = y.src[c]
    <3>1. c # e /\ c # t
      BY <1>1, <1>2, <1>3, <1>4, <2>3
    <3>2. x.seqs[c] = {} /\ x.src[c] = y.src[c]
      BY <1>3, <1>4, <2>3, <3>1
    <3>3. \A d \in Cell : x.seqs[d] = {} /\ x.src[d] # Nowhere =>
            m.seqs[x.src[d]] = {} /\ m.src[x.src[d]] = x.src[d]
      BY <1>1 DEF Follows
    <3> QED
      BY <2>3, <3>2, <3>3
  <2>4. y.rs_idx = m.rs_idx
    BY <1>1, <1>3, <1>4 DEF Follows
  <2> QED
    BY <2>1, <2>2, <2>3, <2>4 DEF Follows
<1>9. TailsOf(T, y) = TailsOf(S, x) \cup {e}
  <2>1. \A u \in S : y.tail[u] = x.tail[u]
    BY <1>4
  <2> QED
    BY <1>4, <2>1 DEF TailsOf
<1>10. HomeBut(TailsOf(T, y), y)
  <2>1. SUFFICES ASSUME NEW c \in Cell, c \notin TailsOf(S, x), c # e
                 PROVE  y.src[c] \in {c, Nowhere} /\ (y.seqs[c] # {} => y.src[c] = c)
    BY <1>9 DEF HomeBut
  <2>2. x.src[c] \in {c, Nowhere} /\ (x.seqs[c] # {} => x.src[c] = c)
    BY <1>1, <2>1 DEF HomeBut
  <2> QED
    BY <1>3, <1>4, <2>1, <2>2
<1>11. \A c \in Cell : y.seqs[c] = {} <=> x.seqs[c] = {} /\ c # e
  BY <1>1, <1>2, <1>3, <1>4
<1>12. Blank(T, y) = Blank(S, x) \ {e} /\ Started(T, y) \in SUBSET (Started(S, x) \cup {e})
  BY <1>9, <1>11 DEF Blank, Started
<1>13. Ahead(T, y, EmptyCell(y, (e + 1) % Size))
  <2>1. T \in SUBSET SeqId /\ s \in SeqId
    OBVIOUS
  <2> HIDE DEF T
  <2> QED
    BY <1>1, <1>2, <1>4, <1>12, <2>1, AheadNext, Zenon
<1>14. EmptyCell(y, (e + 1) % Size) = EmptyCell(z, (e + 1) % Size)
  <2>1. y.seqs = z.seqs
    BY <1>4
  <2> QED
    BY <2>1, SameEmptyCell, Zenon
<1>15. r.mem = y /\ r.empty = EmptyCell(y, (e + 1) % Size)
  <2> DEFINE b == EmptyCell(z, (e + 1) % Size)
  <2>1. r = [mem |-> y, empty |-> b]
    BY <1>1
  <2> HIDE DEF b
  <2>2. r.mem = y /\ r.empty = b
    BY <2>1
  <2> QED
    BY <1>14, <2>2 DEF b
<1> QED
  BY <1>7, <1>8, <1>10, <1>13, <1>15 DEF Taking

(* Starting the search again only moves the head.                          *)
LEMMA RestartFacts ==
  ASSUME NEW m, Sane(m), NEW ub
  PROVE  LET h == RestartSearch(m, ub)
         IN  /\ Sane(h) /\ h.pos = m.pos /\ h.src = m.src /\ h.tail = m.tail /\ h.seqs = m.seqs
             /\ h.rs_idx = m.rs_idx
<1> DEFINE h == RestartSearch(m, ub)
           a == IF m.head > m.used + 2 * Len(ub.ids) THEN 0 ELSE m.head
<1>1. m \in Mem /\ a \in Cell
  BY CellFacts DEF Sane, Mem
<1>2. h = [m EXCEPT !.head = a]
  BY DEF RestartSearch
<1> HIDE DEF a, h
<1>3. /\ h \in Mem /\ h.pos = m.pos /\ h.src = m.src /\ h.tail = m.tail /\ h.seqs = m.seqs
      /\ h.used = m.used /\ h.rs_idx = m.rs_idx /\ h.aborted = m.aborted
  BY <1>1, <1>2 DEF Mem
<1>4. Full(h) = Full(m)
  BY <1>3 DEF Full
<1>5. Sane(h)
  BY <1>3, <1>4 DEF Sane, Tails, Positions, Counted, AtHome
<1> QED
  BY <1>3, <1>5 DEF h

(* The sequences of F have left their cells.                               *)
LeftBy(m, F, y) ==
  /\ Sane(y) /\ y.rs_idx = m.rs_idx
  /\ \A s \in SeqId : y.tail[s] = IF s \in F THEN Nowhere ELSE m.tail[s]
  /\ \A c \in Cell : /\ y.seqs[c] = m.seqs[c] \ F
                     /\ y.seqs[c] # {} => y.src[c] = m.src[c] /\ y.pos[c] = m.pos[c]
                     /\ y.src[c] \in {m.src[c], Nowhere}
                     /\ m.seqs[c] # {} /\ y.seqs[c] = {} => y.src[c] = Nowhere

LEMMA LeaveCellsFacts ==
  ASSUME NEW m, Sane(m), NEW F \in SUBSET SeqId
  PROVE  LeftBy(m, F, LeaveCells(m, F))
<1> DEFINE go(c) == {s \in F : m.tail[s] = c}
           gone == {c \in Cell : go(c) # {} /\ m.seqs[c] \subseteq go(c)}
           q == [c \in Cell |-> m.seqs[c] \ go(c)]
           p == [c \in Cell |-> IF c \in gone THEN -1 ELSE m.pos[c]]
           w == [c \in Cell |-> IF c \in gone THEN Nowhere ELSE m.src[c]]
           l == [s \in SeqId |-> IF s \in F THEN Nowhere ELSE m.tail[s]]
           u == m.used - Cardinality(gone)
           y == LeaveCells(m, F)
<1>1. m \in Mem
  BY DEF Sane
<1>2. \A c \in Cell : go(c) = m.seqs[c] \cap F
  BY <1>1 DEF Sane, Tails, Mem
<1>3. \A c \in Cell : c \in gone <=> m.seqs[c] # {} /\ m.seqs[c] \ F = {}
  <2>1. \A c \in Cell : c \in gone <=> go(c) # {} /\ m.seqs[c] \subseteq go(c)
    OBVIOUS
  <2> HIDE DEF gone, go
  <2> QED
    BY <1>2, <2>1
<1>4. gone \in SUBSET Cell
  OBVIOUS
<1>5. y = [m EXCEPT !.seqs = q, !.pos = p, !.src = w, !.used = u, !.tail = l]
  BY <1>1 DEF LeaveCells, Mem
<1>6. \A c \in Cell : q[c] = m.seqs[c] \ F
  <2>1. \A c \in Cell : q[c] = m.seqs[c] \ go(c)
    OBVIOUS
  <2> HIDE DEF q, go
  <2> QED
    BY <1>2, <2>1
<1>7. /\ \A c \in Cell : p[c] = IF c \in gone THEN -1 ELSE m.pos[c]
      /\ \A c \in Cell : w[c] = IF c \in gone THEN Nowhere ELSE m.src[c]
      /\ \A s \in SeqId : l[s] = IF s \in F THEN Nowhere ELSE m.tail[s]
      /\ u = m.used - Cardinality(gone)
  OBVIOUS
<1>8. q \in [Cell -> SUBSET SeqId]
  <2>1. \A c \in Cell : m.seqs[c] \ go(c) \in SUBSET SeqId
    BY <1>1 DEF Mem
  <2> HIDE DEF go
  <2> QED
    BY <2>1
<1> HIDE DEF gone, go
<1>9. /\ p \in [Cell -> Pos \cup {-1}] /\ w \in [Cell -> Cell \cup {Nowhere}]
      /\ l \in [SeqId -> Cell \cup {Nowhere}] /\ u \in Int
  BY <1>1, <1>4, PartOfCells DEF Mem
<1> HIDE DEF q, p, w, l, u, y
<1>10. /\ y \in Mem /\ y.seqs = q /\ y.pos = p /\ y.src = w /\ y.used = u /\ y.tail = l
       /\ y.rs_idx = m.rs_idx /\ y.aborted = m.aborted
  BY <1>1, <1>5, <1>8, <1>9 DEF Mem
<1>11. Tails(y)
  <2>1. SUFFICES ASSUME NEW s \in SeqId, NEW c \in Cell
                 PROVE  y.tail[s] = c <=> s \in y.seqs[c]
    BY DEF Tails
  <2>2. (m.tail[s] = c <=> s \in m.seqs[c]) /\ c # Nowhere
    BY CellFacts DEF Sane, Tails
  <2> QED
    BY <1>6, <1>7, <1>10, <2>2
<1>12. \A c \in Cell : y.seqs[c] = {} <=> m.seqs[c] = {} \/ c \in gone
  BY <1>3, <1>6, <1>10
<1>13. Positions(y) /\ AtHome(y)
  BY <1>7, <1>10, <1>12 DEF Positions, AtHome, Sane
<1>14. Full(y) = Full(m) \ gone /\ gone \in SUBSET Full(m)
  <2>1. \A c \in Cell : y.seqs[c] # {} <=> m.seqs[c] # {} /\ c \notin gone
    BY <1>12
  <2> QED
    BY <1>3, <1>4, <2>1 DEF Full
<1>15. Counted(y)
  BY <1>1, <1>7, <1>10, <1>14, CountGone DEF Sane
<1>16. Sane(y)
  BY <1>10, <1>11, <1>13, <1>15 DEF Sane
<1>17. \A c \in Cell : /\ y.seqs[c] = m.seqs[c] \ F
                       /\ y.seqs[c] # {} => y.src[c] = m.src[c] /\ y.pos[c] = m.pos[c]
                       /\ y.src[c] \in {m.src[c], Nowhere}
                       /\ m.seqs[c] # {} /\ y.seqs[c] = {} => y.src[c] = Nowhere
  BY <1>6, <1>7, <1>10, <1>12
<1>18. LeftBy(m, F, y)
  BY <1>7, <1>10, <1>16, <1>17 DEF LeftBy
<1> QED
  BY <1>18 DEF y

LEMMA TakingStart ==
  ASSUME NEW m, Sane(m), NEW q, q = [mem |-> m, empty |-> EmptyCell(m, m.head)]
  PROVE  Taking(m, {}, q)
<1> DEFINE e == EmptyCell(m, m.head)
           E == {c \in Cell : m.seqs[c] = {}}
<1>1. m \in Mem /\ m.head \in Cell
  BY DEF Sane, Mem
<1>2. (E = {} => e = Nowhere) /\ (E # {} => e \in E)
  BY <1>1, EmptyCellFacts
<1> HIDE DEF e
<1>3. q.mem = m /\ q.empty = e
  <2>1. q = [mem |-> m, empty |-> e]
    BY DEF e
  <2> QED
    BY <2>1
<1>4. TailsOf({}, m) = {}
  BY DEF TailsOf
<1>5. Blank({}, m) = E /\ Started({}, m) = {}
  BY <1>4 DEF Blank, Started
<1>6. Ahead({}, m, e)
  BY <1>2, <1>5 DEF Ahead
<1>7. Consistent({}, m)
  <2>1. \A u \in SeqId, c \in Cell : m.tail[u] = c <=> u \in m.seqs[c]
    BY DEF Sane, Tails
  <2>2. \A u \in SeqId : m.tail[u] \in Cell => u \in m.seqs[m.tail[u]]
    BY <2>1
  <2> QED
    BY <1>1, <2>1, <2>2 DEF Consistent, Sane
<1>8. Follows(m, {}, m)
  <2>1. \A u \in SeqId : m.tail[u] \in Cell => u \in m.seqs[m.tail[u]]
    BY DEF Sane, Tails
  <2>2. \A c \in Cell : m.src[c] \in {c, Nowhere}
    BY DEF Sane, AtHome
  <2>3. \A c \in Cell : m.seqs[c] = {} /\ m.src[c] # Nowhere =>
          m.seqs[m.src[c]] = {} /\ m.src[m.src[c]] = m.src[c]
    <3>1. SUFFICES ASSUME NEW c \in Cell, m.seqs[c] = {}, m.src[c] # Nowhere
                   PROVE  m.seqs[m.src[c]] = {} /\ m.src[m.src[c]] = m.src[c]
      OBVIOUS
    <3>2. m.src[c] = c
      BY <2>2, <3>1
    <3> QED
      BY <3>1, <3>2
  <2> QED
    BY <2>1, <2>3 DEF Follows
<1>9. HomeBut({}, m)
  BY DEF HomeBut, Sane, AtHome
<1> QED
  BY <1>3, <1>4, <1>6, <1>7, <1>8, <1>9 DEF Taking

(* A leader takes its cell, and no assertion fails.                        *)
LEMMA TakeStep ==
  ASSUME NEW m, m.tail \in [SeqId -> Cell \cup {Nowhere}], NEW S \in SUBSET SeqId,
         NEW q, Taking(m, S, q), NEW s \in SeqId \ S
  PROVE  Taking(m, S \cup {s}, TakeCell(q, s))
<1> DEFINE x == q.mem
           t == x.tail[s]
           e == q.empty
<1>1. Consistent(S, x) /\ Ahead(S, x, e) /\ t \in Cell \cup {Nowhere} /\ Nowhere \notin Cell
  BY CellFacts DEF Taking, Consistent, Mem
<1>2. CASE t \in Cell /\ x.seqs[t] = {s}
  <2>1. TakeCell(q, s) = q
    BY <1>1, <1>2 DEF TakeCell
  <2> QED
    BY <1>2, <2>1, TakeOwn
<1>3. CASE ~(t \in Cell /\ x.seqs[t] = {s})
  <2>1. Blank(S, x) # {}
    <3> HIDE DEF x, t
    <3>1. ~(x.tail[s] \in Cell /\ x.seqs[x.tail[s]] = {s})
      BY <1>3 DEF t
    <3> QED
      BY <1>1, <3>1, RoomLeft
  <2>2. e \in Blank(S, x) /\ e \in Cell /\ x.seqs[e] = {} /\ e # Nowhere
    BY <1>1, <2>1 DEF Ahead, Blank
  <2>3. t # Nowhere => s \in x.seqs[t]
    BY <1>1 DEF Consistent
  <2>4. TakeCell(q, s) = [mem   |-> [CopyTail(x, s, e) EXCEPT !.tail[s] = e],
                          empty |-> EmptyCell(CopyTail(x, s, e), (e + 1) % Size)]
    BY <1>1, <1>3, <2>2, <2>3 DEF TakeCell
  <2>5. CASE t = Nowhere
    <3>1. CopyTail(x, s, e) = x
      BY <2>5 DEF CopyTail
    <3>2. TakeCell(q, s) = [mem |-> [x EXCEPT !.tail[s] = e], empty |-> EmptyCell(x, (e + 1) % Size)]
      BY <2>4, <3>1
    <3> QED
      BY <2>2, <2>5, <3>2, TakeFirst
  <2>6. CASE t # Nowhere
    <3>1. t \in Cell /\ x.seqs[t] # {s}
      BY <1>1, <1>3, <2>6
    <3> QED
      BY <2>2, <2>4, <3>1, TakeCopy
  <2> QED
    BY <2>5, <2>6
<1> QED
  BY <1>2, <1>3

IsTaking(f, m, ub) ==
  f = [k \in 0 .. Len(ub.ids) |-> IF k = 0 THEN [mem |-> m, empty |-> EmptyCell(m, m.head)]
                                  ELSE TakeCell(f[k - 1], Leader(ub, k))]

LEMMA TakeCellsWithin ==
  ASSUME NEW ub, Len(ub.ids) \in Nat, NEW m, NEW I,
         <<0, [mem |-> m, empty |-> EmptyCell(m, m.head)]>> \in I,
         \A k \in 1 .. Len(ub.ids) : \A x : <<k - 1, x>> \in I => <<k, TakeCell(x, Leader(ub, k))>> \in I
  PROVE  \E x : <<Len(ub.ids), x>> \in I /\ TakeCells(m, ub) = x.mem
<1> DEFINE n == Len(ub.ids)
           D == {<<q[1] + 1, q[2]>> : q \in I}
           G == [p \in D |-> TakeCell(p[2], Leader(ub, p[1]))]
           z == [mem |-> m, empty |-> EmptyCell(m, m.head)]
<1>0. n \in Nat
  OBVIOUS
<1> HIDE DEF n, z
<1>1. ASSUME NEW k \in 1 .. n, NEW x, <<k - 1, x>> \in I
      PROVE  G[<<k, x>>] = TakeCell(x, Leader(ub, k))
  <2>1. <<(k - 1) + 1, x>> \in D /\ (k - 1) + 1 = k
    BY <1>0, <1>1
  <2> HIDE DEF D
  <2> QED
    BY <2>1
<1> HIDE DEF G
<1>2. Stays(G, n, I)
  BY <1>1 DEF Stays, n
<1>3. PICK f : IsRun(f, n, z, G) /\ \A k \in 0 .. n : <<k, f[k]>> \in I
  <2>1. <<0, z>> \in I
    BY DEF z
  <2> QED
    BY <1>0, <1>2, <2>1, RunWithin
<1>4. \A k \in 0 .. n : k # 0 => G[<<k, f[k - 1]>>] = TakeCell(f[k - 1], Leader(ub, k))
  <2>1. \A k \in 0 .. n : k # 0 => k \in 1 .. n /\ k - 1 \in 0 .. n
    BY <1>0
  <2> QED
    BY <1>1, <1>3, <2>1
<1>5. IsTaking(f, m, ub)
  <2>1. f = [k \in 0 .. n |-> IF k = 0 THEN z ELSE TakeCell(f[k - 1], Leader(ub, k))]
    BY <1>3, <1>4 DEF IsRun
  <2> QED
    BY <2>1 DEF IsTaking, n, z
<1>6. PICK g : g = CHOOSE h : IsTaking(h, m, ub)
  OBVIOUS
<1>7. IsTaking(g, m, ub) /\ TakeCells(m, ub) = g[n].mem
  BY <1>5, <1>6, Zenon DEF TakeCells, IsTaking, n
<1> DEFINE H == [k \in 0 .. n |-> IF k = 0 THEN z ELSE TakeCell(g[k - 1], Leader(ub, k))]
<1>8. H[0] = z /\ \A k \in 1 .. n : H[k] = TakeCell(g[k - 1], Leader(ub, k))
  BY <1>0
<1>9. H = g
  BY <1>7 DEF IsTaking, n, z
<1> HIDE DEF H
<1> DEFINE P == {k \in 0 .. n : <<k, g[k]>> \in I}
<1>10. 0 \in P /\ \A k \in 1 .. n : k - 1 \in P => k \in P
  <2>1. <<0, z>> \in I /\ 0 \in 0 .. n
    BY <1>0 DEF z
  <2> QED
    BY <1>0, <1>8, <1>9, <2>1 DEF n
<1> HIDE DEF P
<1>11. n \in P
  <2>1. n \in 0 .. n
    BY <1>0
  <2> QED
    BY <1>0, <1>10, <2>1, Induct, Zenon
<1> QED
  BY <1>7, <1>11 DEF P, n

Leaders(ub, n) == {Leader(ub, i) : i \in 1 .. n}

(* All leaders have cells of their own.                                    *)
Taken(m, S, x) == Consistent(S, x) /\ Follows(m, S, x) /\ HomeBut(TailsOf(S, x), x)

Searches == [mem : Mem, empty : Cell \cup {Nowhere}]

LEMMA SearchTyped ==
  ASSUME NEW m, NEW S, NEW a, NEW b, NEW r, r = [mem |-> a, empty |-> b], Taking(m, S, r)
  PROVE  r \in Searches
<1>1. r.mem = a /\ r.empty = b
  OBVIOUS
<1>2. r.mem \in Mem /\ r.empty \in Cell \cup {Nowhere}
  BY DEF Taking, Consistent, Ahead
<1> QED
  BY <1>1, <1>2 DEF Searches

LEMMA TakeTyped ==
  ASSUME NEW m, NEW S, NEW q \in Searches, NEW s, Taking(m, S, TakeCell(q, s))
  PROVE  TakeCell(q, s) \in Searches
<1> DEFINE r == TakeCell(q, s)
<1>1. CASE r = q
  BY <1>1
<1>2. CASE r # q
  <2>1. \E a, b : r = [mem |-> a, empty |-> b]
    <3>1. q = [mem |-> q.mem, empty |-> q.empty]
      BY DEF Searches
    <3> DEFINE a == [q.mem EXCEPT !.aborted = TRUE]
    <3>2. [q EXCEPT !.mem = a] = [mem |-> a, empty |-> q.empty]
      <4> HIDE DEF a
      <4> QED
        BY <3>1
    <3> QED
      BY <1>2, <3>2 DEF TakeCell
  <2> HIDE DEF r
  <2>2. Taking(m, S, r)
    BY DEF r
  <2>3. r \in Searches
    BY <2>1, <2>2, SearchTyped, Zenon
  <2> QED
    BY <2>3 DEF r
<1> QED
  BY <1>1, <1>2

LEMMA TakeCellsFacts ==
  ASSUME NEW m, Sane(m), NEW ub \in UBatch
  PROVE  Taken(m, Leaders(ub, Len(ub.ids)), TakeCells(m, ub))
<1> DEFINE n == Len(ub.ids)
           I == {p \in Nat \X Searches : Taking(m, Leaders(ub, p[1]), p[2])}
           z == [mem |-> m, empty |-> EmptyCell(m, m.head)]
<1>1. /\ n \in Nat /\ \A k \in 1 .. n : Leader(ub, k) \in SeqId
      /\ \A j, k \in 1 .. n : j # k => Leader(ub, j) # Leader(ub, k)
  BY UBatchFacts
<1>2. m.tail \in [SeqId -> Cell \cup {Nowhere}]
  BY DEF Sane, Mem
<1>3. <<0, z>> \in I
  <2>1. Leaders(ub, 0) = {}
    BY DEF Leaders
  <2>2. Taking(m, Leaders(ub, 0), z)
    BY <2>1, TakingStart
  <2>3. z \in Searches
    BY <2>2, SearchTyped
  <2> HIDE DEF z
  <2> QED
    BY <2>2, <2>3
<1>4. \A k, x : <<k, x>> \in I => x \in Searches /\ Taking(m, Leaders(ub, k), x)
  OBVIOUS
<1>5. \A k \in Nat, x \in Searches : Taking(m, Leaders(ub, k), x) => <<k, x>> \in I
  OBVIOUS
<1> HIDE DEF I
<1>6. ASSUME NEW k \in 1 .. n, NEW x, <<k - 1, x>> \in I
      PROVE  <<k, TakeCell(x, Leader(ub, k))>> \in I
  <2> DEFINE S == Leaders(ub, k - 1)
             s == Leader(ub, k)
  <2>1. x \in Searches /\ Taking(m, S, x)
    BY <1>4, <1>6
  <2>2. S \in SUBSET SeqId /\ s \in SeqId \ S
    <3>1. \A i \in 1 .. k - 1 : i \in 1 .. n /\ i # k
      BY <1>1
    <3> QED
      BY <1>1, <3>1 DEF Leaders
  <2>3. Leaders(ub, k) = S \cup {s}
    <3>1. 1 .. k = (1 .. k - 1) \cup {k}
      BY <1>1
    <3> QED
      BY <3>1 DEF Leaders
  <2> HIDE DEF S, s
  <2>4. Taking(m, S \cup {s}, TakeCell(x, s))
    BY <1>2, <2>1, <2>2, TakeStep
  <2>5. TakeCell(x, s) \in Searches
    BY <2>1, <2>4, TakeTyped, Zenon
  <2>6. k \in Nat
    BY <1>1
  <2> QED
    BY <1>5, <2>3, <2>4, <2>5, <2>6 DEF s
<1>7. PICK x : <<n, x>> \in I /\ TakeCells(m, ub) = x.mem
  <2>1. \A k \in 1 .. Len(ub.ids) : \A x : <<k - 1, x>> \in I => <<k, TakeCell(x, Leader(ub, k))>> \in I
    BY <1>6
  <2>2. Len(ub.ids) \in Nat
    BY <1>1
  <2> QED
    BY <1>3, <2>1, <2>2, TakeCellsWithin, Zenon
<1> QED
  BY <1>4, <1>7 DEF Taking, Taken

-----------------------------------------------------------------------------
(* find_slot: the groups move together.                                    *)

Turn(a, b, c) == IF c = a THEN b ELSE IF c = b THEN a ELSE c

Swapped(x, a, b, y) ==
  /\ y \in Mem /\ y.rs_idx = x.rs_idx /\ y.aborted = x.aborted
  /\ \A c \in Cell : /\ y.pos[c] = x.pos[Turn(a, b, c)] /\ y.src[c] = x.src[Turn(a, b, c)]
                     /\ y.seqs[c] = x.seqs[Turn(a, b, c)]
  /\ \A u \in SeqId : y.tail[u] = Turn(a, b, x.tail[u])

LEMMA SwapFacts ==
  ASSUME NEW x \in Mem, NEW a \in Cell, NEW b \in Cell
  PROVE  Swapped(x, a, b, SwapCells(x, a, b))
<1> DEFINE p == Swap(x.pos, a, b)
           w == Swap(x.src, a, b)
           q == Swap(x.seqs, a, b)
           l == [s \in SeqId |-> CASE x.tail[s] = a -> b [] x.tail[s] = b -> a [] OTHER -> x.tail[s]]
           y == SwapCells(x, a, b)
<1>1. y = [x EXCEPT !.pos = p, !.src = w, !.seqs = q, !.tail = l]
  BY DEF SwapCells, Mem
<1>2. ASSUME NEW V, NEW f \in [Cell -> V]
      PROVE  Swap(f, a, b) \in [Cell -> V] /\ \A c \in Cell : Swap(f, a, b)[c] = f[Turn(a, b, c)]
  BY DEF Swap, Turn
<1>3. /\ p \in [Cell -> Pos \cup {-1}] /\ \A c \in Cell : p[c] = x.pos[Turn(a, b, c)]
      /\ w \in [Cell -> Cell \cup {Nowhere}] /\ \A c \in Cell : w[c] = x.src[Turn(a, b, c)]
      /\ q \in [Cell -> SUBSET SeqId] /\ \A c \in Cell : q[c] = x.seqs[Turn(a, b, c)]
  BY <1>2 DEF Mem
<1>4. l \in [SeqId -> Cell \cup {Nowhere}] /\ \A u \in SeqId : l[u] = Turn(a, b, x.tail[u])
  BY DEF Mem, Turn
<1> HIDE DEF p, w, q, l, y
<1>5. /\ y \in Mem /\ y.rs_idx = x.rs_idx /\ y.aborted = x.aborted
      /\ y.pos = p /\ y.src = w /\ y.seqs = q /\ y.tail = l
  BY <1>1, <1>3, <1>4 DEF Mem
<1> QED
  BY <1>3, <1>4, <1>5 DEF Swapped, y

Placed(m, S, A, x) ==
  /\ Consistent(S, x) /\ Follows(m, S, x) /\ HomeBut(A, x)
  /\ \A u \in S : x.tail[u] \in A

LEMMA SwapPlaced ==
  ASSUME NEW m, NEW S \in SUBSET SeqId, NEW A \in SUBSET Cell, NEW x, Placed(m, S, A, x),
         NEW a \in A, NEW b \in A, NEW y, Swapped(x, a, b, y)
  PROVE  Placed(m, S, A, y)
<1> DEFINE turn(c) == Turn(a, b, c)
<1>1. /\ y \in Mem /\ y.rs_idx = x.rs_idx /\ y.aborted = x.aborted
      /\ \A c \in Cell : y.pos[c] = x.pos[turn(c)] /\ y.src[c] = x.src[turn(c)] /\ y.seqs[c] = x.seqs[turn(c)]
      /\ \A u \in SeqId : y.tail[u] = turn(x.tail[u])
  BY DEF Swapped
<1>2. /\ \A c \in Cell : turn(c) \in Cell /\ turn(turn(c)) = c
      /\ \A c : turn(turn(c)) = c
      /\ turn(Nowhere) = Nowhere
      /\ \A c : turn(c) \in Cell => c \in Cell
      /\ \A c \in A : turn(c) \in A
      /\ \A c \in Cell \ A : turn(c) = c
  BY CellFacts DEF Turn
<1> HIDE DEF turn
<1>3. Consistent(S, x) /\ Follows(m, S, x) /\ HomeBut(A, x) /\ \A u \in S : x.tail[u] \in A
  BY DEF Placed
<1>4. /\ \A u \in SeqId, c \in Cell : u \in x.seqs[c] => x.tail[u] = c
      /\ \A u \in SeqId \ S : x.tail[u] \in Cell => u \in x.seqs[x.tail[u]]
      /\ \A u \in S : x.tail[u] \in Cell /\ x.seqs[x.tail[u]] \subseteq {u}
      /\ \A u, v \in S : u # v => x.tail[u] # x.tail[v]
      /\ Positions(x) /\ ~x.aborted
  BY <1>3 DEF Consistent
<1>5. Consistent(S, y)
  <2>1. ASSUME NEW u \in SeqId, NEW c \in Cell, u \in y.seqs[c]
        PROVE  y.tail[u] = c
    <3>1. u \in x.seqs[turn(c)] /\ turn(c) \in Cell
      BY <1>1, <1>2, <2>1
    <3>2. x.tail[u] = turn(c)
      BY <1>4, <3>1
    <3> QED
      BY <1>1, <1>2, <3>2
  <2>2. ASSUME NEW u \in SeqId \ S, y.tail[u] \in Cell
        PROVE  u \in y.seqs[y.tail[u]]
    <3>1. x.tail[u] \in Cell /\ y.tail[u] = turn(x.tail[u])
      BY <1>1, <1>2, <2>2
    <3>2. u \in x.seqs[x.tail[u]]
      BY <1>4, <3>1
    <3> QED
      BY <1>1, <1>2, <2>2, <3>1, <3>2
  <2>3. ASSUME NEW u \in S
        PROVE  y.tail[u] \in Cell /\ y.seqs[y.tail[u]] \subseteq {u}
    <3>1. x.tail[u] \in Cell /\ x.seqs[x.tail[u]] \subseteq {u} /\ y.tail[u] = turn(x.tail[u])
      BY <1>1, <1>4
    <3>2. y.tail[u] \in Cell /\ turn(y.tail[u]) = x.tail[u]
      BY <1>2, <3>1
    <3> QED
      BY <1>1, <3>1, <3>2
  <2>4. \A u, v \in S : u # v => y.tail[u] # y.tail[v]
    <3>1. SUFFICES ASSUME NEW u \in S, NEW v \in S, u # v, y.tail[u] = y.tail[v] PROVE FALSE
      OBVIOUS
    <3>2. turn(x.tail[u]) = turn(x.tail[v])
      BY <1>1, <3>1
    <3>3. x.tail[u] = x.tail[v]
      BY <1>2, <3>2
    <3> QED
      BY <1>4, <3>1, <3>3
  <2>5. Positions(y)
    BY <1>1, <1>2, <1>4 DEF Positions
  <2>6. ~y.aborted
    BY <1>1, <1>4
  <2> QED
    BY <1>1, <2>1, <2>2, <2>3, <2>4, <2>5, <2>6 DEF Consistent
<1>6. Follows(m, S, y)
  <2>1. ASSUME NEW u \in SeqId, m.tail[u] \in Cell
        PROVE  /\ y.tail[u] \in Cell
               /\ y.src[y.tail[u]] = m.src[m.tail[u]] /\ y.pos[y.tail[u]] = m.pos[m.tail[u]]
               /\ u \in y.seqs[y.tail[u]] /\ y.seqs[y.tail[u]] \subseteq m.seqs[m.tail[u]]
    <3>1. /\ x.tail[u] \in Cell /\ x.src[x.tail[u]] = m.src[m.tail[u]] /\ x.pos[x.tail[u]] = m.pos[m.tail[u]]
          /\ u \in x.seqs[x.tail[u]] /\ x.seqs[x.tail[u]] \subseteq m.seqs[m.tail[u]]
      BY <1>3, <2>1 DEF Follows
    <3>2. y.tail[u] \in Cell /\ turn(y.tail[u]) = x.tail[u]
      BY <1>1, <1>2, <3>1
    <3> QED
      BY <1>1, <3>1, <3>2
  <2>2. ASSUME NEW u \in SeqId, m.tail[u] = Nowhere
        PROVE  IF u \in S THEN y.tail[u] \in Cell /\ y.seqs[y.tail[u]] = {} ELSE y.tail[u] = Nowhere
    <3>1. IF u \in S THEN x.tail[u] \in Cell /\ x.seqs[x.tail[u]] = {} ELSE x.tail[u] = Nowhere
      BY <1>3, <2>2 DEF Follows
    <3>2. CASE u \in S
      <4>1. y.tail[u] \in Cell /\ turn(y.tail[u]) = x.tail[u]
        BY <1>1, <1>2, <3>1, <3>2
      <4> QED
        BY <1>1, <3>1, <3>2, <4>1
    <3>3. CASE u \notin S
      BY <1>1, <1>2, <3>1, <3>3
    <3> QED
      BY <3>2, <3>3
  <2>3. ASSUME NEW c \in Cell, y.seqs[c] = {}, y.src[c] # Nowhere
        PROVE  m.seqs[y.src[c]] = {} /\ m.src[y.src[c]] = y.src[c]
    <3>1. turn(c) \in Cell /\ x.seqs[turn(c)] = {} /\ x.src[turn(c)] = y.src[c]
      BY <1>1, <1>2, <2>3
    <3>2. \A d \in Cell : x.seqs[d] = {} /\ x.src[d] # Nowhere =>
            m.seqs[x.src[d]] = {} /\ m.src[x.src[d]] = x.src[d]
      BY <1>3 DEF Follows
    <3>3. m.seqs[x.src[turn(c)]] = {} /\ m.src[x.src[turn(c)]] = x.src[turn(c)]
      BY <2>3, <3>1, <3>2
    <3> QED
      BY <3>1, <3>3
  <2>4. y.rs_idx = m.rs_idx
    BY <1>1, <1>3 DEF Follows
  <2> QED
    BY <2>1, <2>2, <2>3, <2>4 DEF Follows
<1>7. HomeBut(A, y)
  <2>1. SUFFICES ASSUME NEW c \in Cell \ A
                 PROVE  y.src[c] \in {c, Nowhere} /\ (y.seqs[c] # {} => y.src[c] = c)
    BY DEF HomeBut
  <2>2. x.src[c] \in {c, Nowhere} /\ (x.seqs[c] # {} => x.src[c] = c)
    BY <1>3 DEF HomeBut
  <2>3. y.src[c] = x.src[c] /\ y.seqs[c] = x.seqs[c]
    BY <1>1, <1>2
  <2> QED
    BY <2>2, <2>3
<1>8. \A u \in S : y.tail[u] \in A
  BY <1>1, <1>2, <1>3
<1> QED
  BY <1>5, <1>6, <1>7, <1>8 DEF Placed

IsPutting(f, m, ub, lo) ==
  f = [k \in 0 .. Len(ub.ids) |-> IF k = 0 THEN m ELSE PutAt(f[k - 1], lo + k - 1, Leader(ub, k))]

LEMMA GatherWithin ==
  ASSUME NEW ub, Len(ub.ids) \in Nat, NEW m, NEW lo, NEW I, <<0, m>> \in I,
         \A k \in 1 .. Len(ub.ids) : \A x :
           <<k - 1, x>> \in I => <<k, PutAt(x, lo + k - 1, Leader(ub, k))>> \in I
  PROVE  <<Len(ub.ids), Gather(m, ub, lo)>> \in I
<1> DEFINE n == Len(ub.ids)
           D == {<<q[1] + 1, q[2]>> : q \in I}
           G == [p \in D |-> PutAt(p[2], lo + p[1] - 1, Leader(ub, p[1]))]
<1>0. n \in Nat
  OBVIOUS
<1> HIDE DEF n
<1>1. ASSUME NEW k \in 1 .. n, NEW x, <<k - 1, x>> \in I
      PROVE  G[<<k, x>>] = PutAt(x, lo + k - 1, Leader(ub, k))
  <2>1. <<(k - 1) + 1, x>> \in D /\ (k - 1) + 1 = k
    BY <1>0, <1>1
  <2> HIDE DEF D
  <2> QED
    BY <2>1
<1> HIDE DEF G
<1>2. Stays(G, n, I)
  BY <1>1 DEF Stays, n
<1>3. PICK f : IsRun(f, n, m, G) /\ \A k \in 0 .. n : <<k, f[k]>> \in I
  BY <1>0, <1>2, RunWithin
<1>4. \A k \in 0 .. n : k # 0 => G[<<k, f[k - 1]>>] = PutAt(f[k - 1], lo + k - 1, Leader(ub, k))
  <2>1. \A k \in 0 .. n : k # 0 => k \in 1 .. n /\ k - 1 \in 0 .. n
    BY <1>0
  <2> QED
    BY <1>1, <1>3, <2>1
<1>5. IsPutting(f, m, ub, lo)
  <2>1. f = [k \in 0 .. n |-> IF k = 0 THEN m ELSE PutAt(f[k - 1], lo + k - 1, Leader(ub, k))]
    BY <1>3, <1>4 DEF IsRun
  <2> QED
    BY <2>1 DEF IsPutting, n
<1>6. PICK g : g = CHOOSE h : IsPutting(h, m, ub, lo)
  OBVIOUS
<1>7. IsPutting(g, m, ub, lo) /\ Gather(m, ub, lo) = g[n]
  BY <1>5, <1>6, Zenon DEF Gather, IsPutting, n
<1> DEFINE H == [k \in 0 .. n |-> IF k = 0 THEN m ELSE PutAt(g[k - 1], lo + k - 1, Leader(ub, k))]
<1>8. H[0] = m /\ \A k \in 1 .. n : H[k] = PutAt(g[k - 1], lo + k - 1, Leader(ub, k))
  BY <1>0
<1>9. H = g
  BY <1>7 DEF IsPutting, n
<1> HIDE DEF H
<1> DEFINE P == {k \in 0 .. n : <<k, g[k]>> \in I}
<1>10. 0 \in P /\ \A k \in 1 .. n : k - 1 \in P => k \in P
  BY <1>0, <1>8, <1>9 DEF n
<1> HIDE DEF P
<1>11. n \in P
  <2>1. n \in 0 .. n
    BY <1>0
  <2> QED
    BY <1>0, <1>10, <2>1, Induct, Zenon
<1> QED
  BY <1>7, <1>11 DEF P, n

(* As many cells as leaders lie between the tails of the leaders.          *)
LEMMA WideEnough ==
  ASSUME NEW ub \in UBatch, NEW x, Consistent(Leaders(ub, Len(ub.ids)), x),
         NEW lo \in Cell, NEW hi \in Cell,
         \A u \in Leaders(ub, Len(ub.ids)) : x.tail[u] \in lo .. hi
  PROVE  lo + Len(ub.ids) - 1 <= hi
<1> DEFINE n == Len(ub.ids)
           f == [k \in 1 .. n |-> x.tail[Leader(ub, k)]]
<1>1. /\ n \in Nat \ {0} /\ lo \in Int /\ hi \in Int
      /\ \A k \in 1 .. n : Leader(ub, k) \in Leaders(ub, n)
      /\ \A j, k \in 1 .. n : j # k => Leader(ub, j) # Leader(ub, k)
  BY UBatchFacts, CellFacts DEF Leaders
<1>2. f \in [1 .. n -> lo .. hi]
  BY <1>1
<1>3. \A j, k \in 1 .. n : f[j] = f[k] => j = k
  BY <1>1 DEF Consistent
<1> HIDE DEF f
<1>4. f \in Injection(1 .. n, lo .. hi)
  BY <1>2, <1>3 DEF Injection, IsInjective
<1>5. /\ IsFiniteSet(lo .. hi) /\ Cardinality(1 .. n) = n
      /\ Cardinality(lo .. hi) = IF lo > hi THEN 0 ELSE hi - lo + 1
  BY <1>1, FS_Interval
<1>6. Cardinality(1 .. n) <= Cardinality(lo .. hi)
  BY <1>4, <1>5, FS_Injection
<1> QED
  BY <1>1, <1>5, <1>6

PutUpTo(m, ub, lo, hi, k, x) ==
  /\ Placed(m, Leaders(ub, Len(ub.ids)), lo .. hi, x)
  /\ \A i \in 1 .. k : x.tail[Leader(ub, i)] = lo + i - 1

LEMMA PutStep ==
  ASSUME NEW m, NEW ub \in UBatch, NEW lo \in Cell, NEW hi \in Cell, NEW k \in 1 .. Len(ub.ids),
         NEW x, PutUpTo(m, ub, lo, hi, k - 1, x)
  PROVE  PutUpTo(m, ub, lo, hi, k, PutAt(x, lo + k - 1, Leader(ub, k)))
<1> DEFINE n == Len(ub.ids)
           S == Leaders(ub, n)
           A == lo .. hi
           a == lo + k - 1
           b == x.tail[Leader(ub, k)]
           y == SwapCells(x, a, b)
<1>1. /\ n \in Nat \ {0} /\ S \in SUBSET SeqId /\ A \in SUBSET Cell
      /\ lo \in Int /\ hi \in Int /\ k \in Int
      /\ \A i \in 1 .. n : Leader(ub, i) \in S
      /\ \A i, j \in 1 .. n : i # j => Leader(ub, i) # Leader(ub, j)
  BY UBatchFacts, SizesAssumption DEF Leaders, Cell
<1>2. Placed(m, S, A, x) /\ \A i \in 1 .. k - 1 : x.tail[Leader(ub, i)] = lo + i - 1
  BY DEF PutUpTo
<1>3. Consistent(S, x) /\ \A u \in S : x.tail[u] \in A
  BY <1>2 DEF Placed
<1>4. lo + n - 1 <= hi
  BY <1>3, WideEnough
<1>5. a \in A /\ b \in A
  BY <1>1, <1>3, <1>4
<1>6. Swapped(x, a, b, y)
  <2>1. x \in Mem /\ a \in Cell /\ b \in Cell
    BY <1>1, <1>3, <1>5 DEF Consistent
  <2> HIDE DEF a, b
  <2> QED
    BY <2>1, SwapFacts
<1> HIDE DEF y
<1>7. Placed(m, S, A, y)
  <2> HIDE DEF a, b, A, S
  <2> QED
    BY <1>1, <1>2, <1>5, <1>6, SwapPlaced
<1>8. ASSUME NEW i \in 1 .. k
      PROVE  y.tail[Leader(ub, i)] = lo + i - 1
  <2>1. i \in 1 .. n /\ Leader(ub, i) \in SeqId
    BY <1>1
  <2>2. y.tail[Leader(ub, i)] = Turn(a, b, x.tail[Leader(ub, i)])
    BY <1>6, <2>1 DEF Swapped
  <2>3. CASE i = k
    BY <2>2, <2>3 DEF Turn
  <2>4. CASE i # k
    <3>1. i \in 1 .. k - 1 /\ x.tail[Leader(ub, i)] = lo + i - 1
      BY <1>1, <1>2, <2>4
    <3>2. x.tail[Leader(ub, i)] # b
      BY <1>1, <1>3, <2>1, <2>4 DEF Consistent
    <3>3. lo + i - 1 # a
      BY <1>1, <2>4
    <3> QED
      BY <2>2, <3>1, <3>2, <3>3 DEF Turn
  <2> QED
    BY <2>3, <2>4
<1> QED
  BY <1>7, <1>8 DEF PutUpTo, PutAt, y

LeaderCells(ub, x) == {x.tail[Leader(ub, k)] : k \in DOMAIN ub.ids}

Gathered(m, ub, at, x) ==
  /\ Min(at) \in Cell /\ Max(at) \in Cell /\ Min(at) + Len(ub.ids) - 1 <= Max(at)
  /\ Len(ub.ids) = 1 => Max(at) = Min(at)
  /\ PutUpTo(m, ub, Min(at), Max(at), Len(ub.ids), Gather(x, ub, Min(at)))

(* The groups lie side by side, in their order.                            *)
LEMMA GatherFacts ==
  ASSUME NEW m, NEW ub \in UBatch, NEW x, Taken(m, Leaders(ub, Len(ub.ids)), x)
  PROVE  Gathered(m, ub, LeaderCells(ub, x), x)
<1> DEFINE n == Len(ub.ids)
           S == Leaders(ub, n)
           at == LeaderCells(ub, x)
           lo == Min(at)
           hi == Max(at)
           I == {p \in (0 .. n) \X Mem : PutUpTo(m, ub, lo, hi, p[1], p[2])}
<1>1. /\ n \in Nat \ {0} /\ DOMAIN ub.ids = 1 .. n
      /\ S \in SUBSET SeqId /\ S # {}
      /\ \A k \in 1 .. n : Leader(ub, k) \in S
  <2>1. /\ n \in Nat \ {0} /\ DOMAIN ub.ids = 1 .. n
        /\ \A k \in 1 .. n : Leader(ub, k) \in SeqId
    BY UBatchFacts
  <2>2. \A k \in 1 .. n : Leader(ub, k) \in S
    BY DEF Leaders
  <2>3. S \in SUBSET SeqId
    BY <2>1 DEF Leaders
  <2>4. 1 \in 1 .. n
    BY <2>1
  <2>5. S # {}
    BY <2>2, <2>4, Zenon
  <2> QED
    BY <2>1, <2>2, <2>3, <2>5
<1>2. Consistent(S, x) /\ Follows(m, S, x) /\ HomeBut(TailsOf(S, x), x)
  BY DEF Taken
<1>3. at = TailsOf(S, x) /\ at \in SUBSET Cell /\ at # {}
  <2>1. at = TailsOf(S, x)
    BY <1>1 DEF TailsOf, Leaders, LeaderCells
  <2>2. \A u \in S : x.tail[u] \in Cell
    BY <1>2 DEF Consistent
  <2> HIDE DEF S
  <2> QED
    BY <1>1, <2>1, <2>2 DEF TailsOf
<1>4. lo \in at /\ hi \in at /\ \A c \in at : lo <= c /\ c <= hi
  BY <1>3, SomeCell
<1>5. lo \in Cell /\ hi \in Cell
  BY <1>3, <1>4
<1>6. \A c \in at : c \in lo .. hi
  <2> HIDE DEF at, lo, hi
  <2>1. at \in SUBSET Int /\ lo \in Int /\ hi \in Int
    BY <1>3, <1>5, CellFacts
  <2> QED
    BY <1>4, <2>1
<1>7. n = 1 => hi = lo
  <2>1. SUFFICES ASSUME n = 1 PROVE hi = lo
    OBVIOUS
  <2>2. at = {x.tail[Leader(ub, 1)]}
    BY <1>1, <2>1 DEF LeaderCells
  <2> HIDE DEF lo, hi, at
  <2> QED
    BY <1>4, <2>2
<1> HIDE DEF lo, hi, at
<1>8. Placed(m, S, lo .. hi, x)
  <2>1. HomeBut(lo .. hi, x)
    BY <1>2, <1>3, <1>6 DEF HomeBut
  <2>2. \A u \in S : x.tail[u] \in lo .. hi
    BY <1>3, <1>6 DEF TailsOf
  <2> QED
    BY <1>2, <2>1, <2>2 DEF Placed
<1>9. lo + n - 1 <= hi
  BY <1>2, <1>5, <1>8, WideEnough DEF Placed
<1>10. \A y : Placed(m, S, lo .. hi, y) => y \in Mem
  BY DEF Placed, Consistent
<1>11. <<0, x>> \in I
  <2>1. PutUpTo(m, ub, lo, hi, 0, x) /\ x \in Mem
    BY <1>8, <1>10 DEF PutUpTo
  <2> QED
    BY <1>1, <2>1
<1>12. ASSUME NEW k \in 1 .. n, NEW y, <<k - 1, y>> \in I
       PROVE  <<k, PutAt(y, lo + k - 1, Leader(ub, k))>> \in I
  <2> DEFINE z == PutAt(y, lo + k - 1, Leader(ub, k))
  <2>1. PutUpTo(m, ub, lo, hi, k - 1, y)
    BY <1>12
  <2>2. PutUpTo(m, ub, lo, hi, k, z)
    BY <1>5, <2>1, PutStep
  <2>3. z \in Mem /\ k \in 0 .. n
    BY <1>1, <1>10, <2>2 DEF PutUpTo
  <2> HIDE DEF z
  <2> QED
    BY <2>2, <2>3 DEF z
<1>13. \A k, y : <<k, y>> \in I => PutUpTo(m, ub, lo, hi, k, y)
  OBVIOUS
<1> HIDE DEF I
<1>14. <<n, Gather(x, ub, lo)>> \in I
  <2>1. \A k \in 1 .. Len(ub.ids) : \A y :
          <<k - 1, y>> \in I => <<k, PutAt(y, lo + k - 1, Leader(ub, k))>> \in I
    BY <1>12
  <2>2. Len(ub.ids) \in Nat
    BY <1>1
  <2> QED
    BY <1>11, <2>1, <2>2, GatherWithin, Zenon
<1>15. PutUpTo(m, ub, lo, hi, n, Gather(x, ub, lo))
  BY <1>13, <1>14
<1> QED
  <2>1. /\ Min(at) \in Cell /\ Max(at) \in Cell /\ Min(at) + Len(ub.ids) - 1 <= Max(at)
        /\ Len(ub.ids) = 1 => Max(at) = Min(at)
        /\ PutUpTo(m, ub, Min(at), Max(at), Len(ub.ids), Gather(x, ub, Min(at)))
    BY <1>5, <1>7, <1>9, <1>15 DEF lo, hi
  <2> QED
    BY <2>1 DEF Gathered, at

-----------------------------------------------------------------------------
(* find_slot: positions, and the rows of the next graph.                   *)

(* What find_slot goes through: m1 when the followers have left their      *)
(* cells, g when the groups have moved to lo, lo + 1, ...                  *)
Placing(m, ub, lo, hi, m1, g) ==
  /\ Sane(m) /\ LeftBy(m, Followers(ub), m1)
  /\ lo \in Cell /\ hi \in Cell /\ lo + Len(ub.ids) - 1 <= hi
  /\ Len(ub.ids) = 1 => hi = lo
  /\ PutUpTo(m1, ub, lo, hi, Len(ub.ids), g)
  /\ find_slot(m, ub) = Stage(Advance(g, ub, lo), lo, hi)

LEMMA FindSlotPlaces ==
  ASSUME NEW m, Sane(m), NEW ub \in UBatch
  PROVE  \E lo, hi, m1, g : Placing(m, ub, lo, hi, m1, g)
<1> DEFINE n == Len(ub.ids)
           F == Followers(ub)
           h == RestartSearch(m, ub)
           m1 == LeaveCells(h, F)
           x == TakeCells(m1, ub)
           at == {x.tail[Leader(ub, k)] : k \in DOMAIN ub.ids}
           lo == Min(at)
           hi == Max(at)
           g == Gather(x, ub, lo)
<1>1. /\ Sane(h) /\ h.pos = m.pos /\ h.src = m.src /\ h.tail = m.tail /\ h.seqs = m.seqs
      /\ h.rs_idx = m.rs_idx
  BY RestartFacts
<1>2. F \in SUBSET SeqId
  BY UBatchFacts
<1> HIDE DEF h, F
<1>3. LeftBy(h, F, m1)
  BY <1>1, <1>2, LeaveCellsFacts
<1> HIDE DEF m1
<1>4. Sane(m1)
  BY <1>3 DEF LeftBy
<1>5. LeftBy(m, F, m1)
  BY <1>1, <1>3 DEF LeftBy
<1>6. Taken(m1, Leaders(ub, Len(ub.ids)), x)
  BY <1>4, TakeCellsFacts
<1>7. ~x.aborted
  <2> HIDE DEF x
  <2> QED
    BY <1>6 DEF Taken, Consistent
<1>8. find_slot(m, ub) = Stage(Advance(g, ub, lo), lo, hi)
  BY <1>7 DEF find_slot, h, m1, F
<1> HIDE DEF x
<1>9. /\ lo \in Cell /\ hi \in Cell /\ lo + n - 1 <= hi /\ (n = 1 => hi = lo)
      /\ PutUpTo(m1, ub, lo, hi, n, g)
  <2>1. Gathered(m1, ub, LeaderCells(ub, x), x)
    BY <1>6, GatherFacts
  <2>2. at = LeaderCells(ub, x)
    BY DEF LeaderCells
  <2> HIDE DEF at
  <2> QED
    BY <2>1, <2>2 DEF Gathered
<1>10. Placing(m, ub, lo, hi, m1, g)
  BY <1>5, <1>8, <1>9 DEF Placing, F
<1> QED
  BY <1>10

DecodedOf(ub) == UNION {Members(ub, k) : k \in DOMAIN ub.ids}

(* The fields of what find_slot returns.                                   *)
Staged(ub, lo, hi, g, f) ==
  LET n      == Len(ub.ids)
      starts == {c \in lo .. hi : g.src[c] = Nowhere}
      free   == (lo .. hi) \ {g.src[c] : c \in Cell}
  IN  /\ f.mem \in Mem /\ f.mem.rs_idx = g.rs_idx /\ f.mem.head = lo
      /\ \A c \in Cell : f.mem.seqs[c] = IF c \in lo .. lo + n - 1 THEN Members(ub, c - lo + 1) ELSE g.seqs[c]
      /\ \A c \in Cell : f.mem.pos[c] = IF c \in lo .. lo + n - 1 THEN ub.last[c - lo + 1] ELSE g.pos[c]
      /\ \A c \in Cell : f.mem.src[c] = IF c \in lo .. hi THEN c ELSE g.src[c]
      /\ \A k \in 1 .. n : \A s \in Members(ub, k) : f.mem.tail[s] = lo + k - 1
      /\ \A s \in SeqId \ DecodedOf(ub) : f.mem.tail[s] = g.tail[s]
      /\ Counted(f.mem)
      /\ f.mem.aborted = (starts # {} /\ free = {})
      /\ IF free = {} THEN f.rs_z = Nowhere ELSE f.rs_z \in free
      /\ DOMAIN f.src0 = lo .. hi
      /\ \A c \in lo .. hi : f.src0[c] = IF c \in starts THEN f.rs_z ELSE g.src[c]

LEMMA StagedFacts ==
  ASSUME NEW ub \in UBatch, NEW lo \in Cell, NEW hi \in Cell, lo + Len(ub.ids) - 1 <= hi,
         NEW g \in Mem
  PROVE  Staged(ub, lo, hi, g, Stage(Advance(g, ub, lo), lo, hi))
<1> DEFINE n == Len(ub.ids)
           at(k) == lo + k - 1
           in(c) == c - lo + 1 \in DOMAIN ub.ids
           p == [c \in Cell |-> IF in(c) THEN ub.last[c - lo + 1] ELSE g.pos[c]]
           q == [c \in Cell |-> IF in(c) THEN Members(ub, c - lo + 1) ELSE g.seqs[c]]
           l == [s \in SeqId |-> IF \E k \in DOMAIN ub.ids : s \in Members(ub, k)
                                 THEN at(CHOOSE k \in DOMAIN ub.ids : s \in Members(ub, k))
                                 ELSE g.tail[s]]
           a == Advance(g, ub, lo)
<1>1. /\ n \in Nat \ {0} /\ DOMAIN ub.ids = 1 .. n /\ lo \in Int /\ hi \in Int
      /\ \A k \in 1 .. n : ub.last[k] \in Pos /\ Members(ub, k) \in SUBSET SeqId /\ Members(ub, k) # {}
      /\ \A j, k \in 1 .. n : j # k => Members(ub, j) \cap Members(ub, k) = {}
  BY UBatchFacts, CellFacts
<1>2. \A c \in Cell : /\ in(c) <=> c \in lo .. lo + n - 1
                      /\ in(c) => c - lo + 1 \in 1 .. n
  BY <1>1, CellFacts
<1>3. lo .. lo + n - 1 \in SUBSET (lo .. hi) /\ lo .. hi \in SUBSET Cell
  BY <1>1, SizesAssumption DEF Cell
<1>4. a = [g EXCEPT !.pos = p, !.seqs = q, !.tail = l]
  BY DEF Advance, Mem
<1>5. /\ \A c \in Cell : p[c] = IF c \in lo .. lo + n - 1 THEN ub.last[c - lo + 1] ELSE g.pos[c]
      /\ \A c \in Cell : q[c] = IF c \in lo .. lo + n - 1 THEN Members(ub, c - lo + 1) ELSE g.seqs[c]
  <2>1. /\ \A c \in Cell : p[c] = IF in(c) THEN ub.last[c - lo + 1] ELSE g.pos[c]
        /\ \A c \in Cell : q[c] = IF in(c) THEN Members(ub, c - lo + 1) ELSE g.seqs[c]
    OBVIOUS
  <2> HIDE DEF p, q, in
  <2> QED
    BY <1>2, <2>1
<1>6. p \in [Cell -> Pos \cup {-1}] /\ q \in [Cell -> SUBSET SeqId]
  <2>1. \A c \in Cell : in(c) => ub.last[c - lo + 1] \in Pos /\ Members(ub, c - lo + 1) \in SUBSET SeqId
    BY <1>1, <1>2
  <2>2. \A c \in Cell : g.pos[c] \in Pos \cup {-1} /\ g.seqs[c] \in SUBSET SeqId
    BY DEF Mem
  <2> HIDE DEF in
  <2> QED
    BY <2>1, <2>2
<1>7. ASSUME NEW k \in 1 .. n, NEW s \in Members(ub, k)
      PROVE  l[s] = lo + k - 1
  <2>1. s \in SeqId /\ \E j \in DOMAIN ub.ids : s \in Members(ub, j)
    BY <1>1
  <2> DEFINE j == CHOOSE i \in DOMAIN ub.ids : s \in Members(ub, i)
  <2>2. l[s] = at(j)
    BY <2>1
  <2>3. j \in 1 .. n /\ s \in Members(ub, j)
    BY <1>1, <2>1, Zenon
  <2> HIDE DEF j, l
  <2>4. j = k
    BY <1>1, <1>7, <2>3
  <2> QED
    BY <2>2, <2>4
<1>8. \A s \in SeqId \ DecodedOf(ub) : l[s] = g.tail[s]
  BY DEF DecodedOf
<1>9. l \in [SeqId -> Cell \cup {Nowhere}]
  <2>1. \A s \in SeqId : g.tail[s] \in Cell \cup {Nowhere}
    BY DEF Mem
  <2>2. \A s \in SeqId : s \in DecodedOf(ub) => \E k \in 1 .. n : s \in Members(ub, k)
    BY <1>1 DEF DecodedOf
  <2>3. \A k \in 1 .. n : lo + k - 1 \in Cell
    BY <1>1, <1>3
  <2>4. \A s \in SeqId : l[s] \in Cell \cup {Nowhere}
    <3> HIDE DEF l
    <3> QED
      BY <1>7, <1>8, <2>1, <2>2, <2>3
  <2> QED
    BY <2>4
<1> HIDE DEF p, q, l, a
<1>10. /\ a \in Mem /\ a.pos = p /\ a.seqs = q /\ a.tail = l /\ a.src = g.src /\ a.rs_idx = g.rs_idx
  BY <1>4, <1>6, <1>9 DEF Mem
<1> DEFINE free   == (lo .. hi) \ {g.src[c] : c \in Cell}
           zero   == IF free = {} THEN Nowhere ELSE Min(free)
           starts == {c \in lo .. hi : g.src[c] = Nowhere}
           w == [c \in Cell |-> IF c \in lo .. hi THEN c ELSE g.src[c]]
           z == [c \in lo .. hi |-> IF c \in starts THEN zero ELSE g.src[c]]
           u == Cardinality({c \in Cell : q[c] # {}})
           bad == starts # {} /\ zero = Nowhere
           m == [a EXCEPT !.aborted = bad, !.src = w, !.head = lo, !.used = u]
           f == Stage(a, lo, hi)
           size == hi - lo + 1
<1>11. f = [mem |-> m, n |-> size, rs_z |-> zero, src0 |-> z]
  BY <1>10 DEF Stage, Mem
<1>12. IF free = {} THEN zero = Nowhere ELSE zero \in free
  <2>1. free \in SUBSET Cell
    BY <1>3
  <2>2. free # {} => Min(free) \in free
    <3> HIDE DEF free
    <3> QED
      BY <2>1, SomeCell
  <2> HIDE DEF free
  <2> QED
    BY <2>2
<1>13. bad = (starts # {} /\ free = {}) /\ bad \in BOOLEAN
  <2>1. free # {} => zero # Nowhere
    BY <1>3, <1>12, CellFacts
  <2>2. free = {} => zero = Nowhere
    BY <1>12
  <2> HIDE DEF free, zero, starts
  <2> QED
    BY <2>1, <2>2
<1>14. w \in [Cell -> Cell \cup {Nowhere}] /\ \A c \in Cell : w[c] = IF c \in lo .. hi THEN c ELSE g.src[c]
  BY DEF Mem
<1>15. DOMAIN z = lo .. hi /\ \A c \in lo .. hi : z[c] = IF c \in starts THEN zero ELSE g.src[c]
  <2> HIDE DEF starts, zero
  <2> QED
    OBVIOUS
<1>16. u \in Int
  <2>1. {c \in Cell : q[c] # {}} \in SUBSET Cell
    OBVIOUS
  <2> QED
    BY <2>1, PartOfCells
<1>17. u = Cardinality({c \in Cell : q[c] # {}})
  OBVIOUS
<1> HIDE DEF zero, w, z, u, bad, f, size
<1>18. /\ m \in Mem /\ m.aborted = bad /\ m.src = w /\ m.head = lo /\ m.used = u
       /\ m.pos = p /\ m.seqs = q /\ m.tail = l /\ m.rs_idx = g.rs_idx
  BY <1>10, <1>13, <1>14, <1>16 DEF Mem
<1> HIDE DEF m
<1>19. f.mem = m /\ f.rs_z = zero /\ f.src0 = z
  BY <1>11
<1>20. Counted(m)
  BY <1>17, <1>18 DEF Counted, Full
<1>21. Staged(ub, lo, hi, g, f)
  <2>1. /\ m \in Mem /\ m.rs_idx = g.rs_idx /\ m.head = lo
        /\ \A c \in Cell : m.seqs[c] = IF c \in lo .. lo + n - 1 THEN Members(ub, c - lo + 1) ELSE g.seqs[c]
        /\ \A c \in Cell : m.pos[c] = IF c \in lo .. lo + n - 1 THEN ub.last[c - lo + 1] ELSE g.pos[c]
        /\ \A c \in Cell : m.src[c] = IF c \in lo .. hi THEN c ELSE g.src[c]
    BY <1>5, <1>14, <1>18
  <2>2. /\ \A k \in 1 .. n : \A s \in Members(ub, k) : m.tail[s] = lo + k - 1
        /\ \A s \in SeqId \ DecodedOf(ub) : m.tail[s] = g.tail[s]
    BY <1>7, <1>8, <1>18
  <2>3. m.aborted = (starts # {} /\ free = {})
    BY <1>13, <1>18
  <2> HIDE DEF starts, free
  <2> QED
    BY <1>12, <1>15, <1>19, <1>20, <2>1, <2>2, <2>3 DEF Staged, starts, free
<1> QED
  BY <1>21 DEF f, a

(* Every sequence that starts finds a row to start from: a row of the      *)
(* range that no cell refers to.                                           *)
LEMMA FreeRow ==
  ASSUME NEW x \in Mem, NEW lo \in Cell, NEW hi \in Cell, HomeBut(lo .. hi, x),
         NEW c0 \in lo .. hi, x.src[c0] = Nowhere
  PROVE  (lo .. hi) \ {x.src[c] : c \in Cell} # {}
<1> DEFINE A == lo .. hi
           D == A \ {c0}
           f == [d \in D |-> IF x.src[d] \in A THEN x.src[d] ELSE lo]
<1>1. A \in SUBSET Cell /\ lo \in A /\ lo \in Int /\ hi \in Int
  BY CellFacts, SizesAssumption DEF Cell
<1>2. SUFFICES ASSUME A \ {x.src[c] : c \in Cell} = {} PROVE FALSE
  OBVIOUS
<1>3. ASSUME NEW r \in A
      PROVE  \E d \in D : f[d] = r
  <2>1. PICK c \in Cell : x.src[c] = r
    BY <1>2
  <2>2. r # Nowhere
    BY <1>1, CellFacts
  <2>3. c \in A
    BY <2>1, <2>2 DEF HomeBut
  <2>4. c \in D
    BY <2>1, <2>2, <2>3
  <2> QED
    BY <2>1, <2>4
<1>4. f \in Surjection(D, A)
  <2>1. f \in [D -> A]
    BY <1>1
  <2> HIDE DEF f, D, A
  <2> QED
    BY <1>3, <2>1 DEF Surjection
<1>5. IsFiniteSet(A) /\ c0 \in A
  BY <1>1, PartOfCells
<1>6. IsFiniteSet(D) /\ Cardinality(D) = Cardinality(A) - 1 /\ Cardinality(A) \in Nat
  <2> HIDE DEF A
  <2> QED
    BY <1>5, FS_RemoveElement, FS_CardinalityType
<1>7. Cardinality(A) <= Cardinality(D)
  <2> HIDE DEF f, D, A
  <2> QED
    BY <1>4, <1>6, FS_Surjection
<1> QED
  BY <1>6, <1>7

(* find_slot leaves the cells in order, and no assertion fails.            *)
LEMMA SaneStaged ==
  ASSUME NEW m, NEW ub \in UBatch, NEW lo, NEW hi, NEW m1, NEW g,
         Placing(m, ub, lo, hi, m1, g), NEW f, Staged(ub, lo, hi, g, f)
  PROVE  Sane(f.mem)
<1> DEFINE n == Len(ub.ids)
           S == Leaders(ub, n)
           x == f.mem
<1>1. /\ n \in Nat \ {0} /\ DOMAIN ub.ids = 1 .. n
      /\ \A k \in 1 .. n : /\ ub.last[k] \in Pos /\ Leader(ub, k) \in SeqId
                           /\ Leader(ub, k) \in Members(ub, k)
                           /\ Members(ub, k) \in SUBSET SeqId /\ Members(ub, k) # {}
                           /\ Leader(ub, k) \notin Followers(ub)
      /\ \A j, k \in 1 .. n : j # k => Members(ub, j) \cap Members(ub, k) = {}
  BY UBatchFacts
<1>2. /\ lo \in Cell /\ hi \in Cell /\ lo + n - 1 <= hi /\ lo \in Int /\ hi \in Int
      /\ LeftBy(m, Followers(ub), m1)
      /\ Consistent(S, g) /\ Follows(m1, S, g) /\ HomeBut(lo .. hi, g)
      /\ \A i \in 1 .. n : g.tail[Leader(ub, i)] = lo + i - 1
  BY CellFacts DEF Placing, PutUpTo, Placed
<1>3. /\ x \in Mem
      /\ \A c \in Cell : x.seqs[c] = IF c \in lo .. lo + n - 1 THEN Members(ub, c - lo + 1) ELSE g.seqs[c]
      /\ \A c \in Cell : x.pos[c] = IF c \in lo .. lo + n - 1 THEN ub.last[c - lo + 1] ELSE g.pos[c]
      /\ \A c \in Cell : x.src[c] = IF c \in lo .. hi THEN c ELSE g.src[c]
      /\ \A k \in 1 .. n : \A s \in Members(ub, k) : x.tail[s] = lo + k - 1
      /\ \A s \in SeqId \ DecodedOf(ub) : x.tail[s] = g.tail[s]
      /\ Counted(x)
      /\ x.aborted = ({c \in lo .. hi : g.src[c] = Nowhere} # {}
                       /\ (lo .. hi) \ {g.src[c] : c \in Cell} = {})
  BY DEF Staged
<1> HIDE DEF x
<1>4. /\ g \in Mem
      /\ \A u \in SeqId, c \in Cell : u \in g.seqs[c] => g.tail[u] = c
      /\ \A u \in SeqId \ S : g.tail[u] \in Cell => u \in g.seqs[g.tail[u]]
      /\ \A u \in S : g.seqs[g.tail[u]] \subseteq {u}
      /\ \A c \in Cell : g.pos[c] = -1 <=> g.seqs[c] = {}
  BY <1>2 DEF Consistent, Positions
<1>5. \A c \in lo .. lo + n - 1 : c \in Cell /\ c \in lo .. hi /\ c - lo + 1 \in 1 .. n
                                  /\ c = lo + (c - lo + 1) - 1
  BY <1>1, <1>2, SizesAssumption DEF Cell
<1>6. ~x.aborted
  <2>1. {c \in lo .. hi : g.src[c] = Nowhere} # {} => (lo .. hi) \ {g.src[c] : c \in Cell} # {}
    BY <1>2, <1>4, FreeRow
  <2> QED
    BY <1>3, <2>1
<1>7. ASSUME NEW k \in 1 .. n
      PROVE  lo + k - 1 \in Cell /\ lo + k - 1 \in lo .. lo + n - 1 /\ (lo + k - 1) - lo + 1 = k
  BY <1>1, <1>2, SizesAssumption DEF Cell
<1>8. \A s : s \in DecodedOf(ub) <=> \E k \in 1 .. n : s \in Members(ub, k)
  BY <1>1 DEF DecodedOf
<1>9. ASSUME NEW s \in DecodedOf(ub), NEW c \in Cell
      PROVE  x.tail[s] = c <=> s \in x.seqs[c]
  <2>1. PICK k \in 1 .. n : s \in Members(ub, k)
    BY <1>8
  <2>2. x.tail[s] = lo + k - 1 /\ s \in SeqId
    BY <1>1, <1>3, <2>1
  <2>3. CASE c \in lo .. lo + n - 1
    <3>1. x.seqs[c] = Members(ub, c - lo + 1) /\ c - lo + 1 \in 1 .. n /\ c = lo + (c - lo + 1) - 1
      BY <1>3, <1>5, <2>3
    <3>2. s \in Members(ub, c - lo + 1) <=> c - lo + 1 = k
      BY <1>1, <2>1, <3>1
    <3>3. c - lo + 1 = k <=> c = lo + k - 1
      BY <1>2, CellFacts
    <3> QED
      BY <2>2, <3>1, <3>2, <3>3
  <2>4. CASE c \notin lo .. lo + n - 1
    <3>1. x.tail[s] # c
      BY <1>7, <2>2, <2>4
    <3>2. x.seqs[c] = g.seqs[c]
      BY <1>3, <2>4
    <3>3. s \notin g.seqs[c]
      <4>1. SUFFICES ASSUME s \in g.seqs[c] PROVE FALSE
        OBVIOUS
      <4>2. g.tail[s] = c
        BY <1>4, <2>2, <4>1
      <4>3. CASE s = Leader(ub, k)
        BY <1>2, <1>7, <2>4, <4>2, <4>3
      <4>4. CASE s # Leader(ub, k)
        <5>1. s \in Followers(ub)
          BY <1>1, <2>1, <4>4 DEF Followers
        <5>2. m1.tail[s] = Nowhere
          BY <1>2, <2>2, <5>1 DEF LeftBy
        <5>3. s \notin S
          BY <1>1, <5>1 DEF Leaders
        <5>4. g.tail[s] = Nowhere
          BY <1>2, <2>2, <5>2, <5>3 DEF Follows
        <5> QED
          BY <4>2, <5>4, CellFacts
      <4> QED
        BY <4>3, <4>4
    <3> QED
      BY <3>1, <3>2, <3>3
  <2> QED
    BY <2>3, <2>4
<1>10. ASSUME NEW s \in SeqId \ DecodedOf(ub), NEW c \in Cell
       PROVE  x.tail[s] = c <=> s \in x.seqs[c]
  <2>1. x.tail[s] = g.tail[s] /\ s \notin S
    BY <1>1, <1>3, <1>8 DEF Leaders
  <2>2. CASE c \in lo .. lo + n - 1
    <3> DEFINE k == c - lo + 1
    <3>1. k \in 1 .. n /\ c = lo + k - 1 /\ x.seqs[c] = Members(ub, k)
      BY <1>3, <1>5, <2>2
    <3> HIDE DEF k
    <3>2. s \notin x.seqs[c]
      BY <1>8, <3>1
    <3>3. g.tail[Leader(ub, k)] = c /\ Leader(ub, k) \in S /\ Leader(ub, k) # s
      BY <1>1, <1>2, <2>1, <3>1 DEF Leaders
    <3>4. g.seqs[c] \subseteq {Leader(ub, k)}
      BY <1>4, <3>3
    <3>5. g.tail[s] # c
      BY <1>4, <2>1, <3>3, <3>4
    <3> QED
      BY <2>1, <3>2, <3>5
  <2>3. CASE c \notin lo .. lo + n - 1
    BY <1>3, <1>4, <2>1, <2>3
  <2> QED
    BY <2>2, <2>3
<1>11. Tails(x)
  BY <1>9, <1>10 DEF Tails
<1>12. Positions(x)
  <2>1. SUFFICES ASSUME NEW c \in Cell PROVE x.pos[c] = -1 <=> x.seqs[c] = {}
    BY DEF Positions
  <2>2. CASE c \in lo .. lo + n - 1
    <3>1. c - lo + 1 \in 1 .. n /\ x.pos[c] = ub.last[c - lo + 1] /\ x.seqs[c] = Members(ub, c - lo + 1)
      BY <1>3, <1>5, <2>2
    <3> QED
      BY <1>1, <3>1, CellFacts
  <2>3. CASE c \notin lo .. lo + n - 1
    BY <1>3, <1>4, <2>3
  <2> QED
    BY <2>2, <2>3
<1>13. AtHome(x)
  <2>1. SUFFICES ASSUME NEW c \in Cell
                 PROVE  x.src[c] \in {c, Nowhere} /\ (x.seqs[c] # {} => x.src[c] = c)
    BY DEF AtHome
  <2>2. CASE c \in lo .. hi
    BY <1>3, <2>2
  <2>3. CASE c \notin lo .. hi
    <3>1. x.src[c] = g.src[c] /\ x.seqs[c] = g.seqs[c]
      BY <1>3, <1>5, <2>3
    <3> QED
      BY <1>2, <2>3, <3>1 DEF HomeBut
  <2> QED
    BY <2>2, <2>3
<1> QED
  BY <1>3, <1>6, <1>11, <1>12, <1>13 DEF Sane, x

LEMMA FindSlotFacts ==
  ASSUME NEW m, Sane(m), NEW ub \in UBatch
  PROVE  \E lo, hi, m1, g : /\ Placing(m, ub, lo, hi, m1, g)
                            /\ Staged(ub, lo, hi, g, find_slot(m, ub)) /\ Sane(find_slot(m, ub).mem)
<1>1. PICK lo, hi, m1, g : Placing(m, ub, lo, hi, m1, g)
  BY FindSlotPlaces
<1>2. /\ lo \in Cell /\ hi \in Cell /\ lo + Len(ub.ids) - 1 <= hi /\ g \in Mem
      /\ find_slot(m, ub) = Stage(Advance(g, ub, lo), lo, hi)
  BY <1>1 DEF Placing, PutUpTo, Placed, Consistent
<1>3. Staged(ub, lo, hi, g, find_slot(m, ub))
  BY <1>2, StagedFacts
<1>4. Sane(find_slot(m, ub).mem)
  BY <1>1, <1>3, SaneStaged
<1> QED
  BY <1>1, <1>3, <1>4

-----------------------------------------------------------------------------
(* The inductive invariant.                                                *)

(* The cells are in order; rows, snapshots, micro-batches and what is saved *)
(* are what find_slot, the graph and a restore expect of them.             *)
IInv ==
  /\ Sane(mem)
  /\ rows \in Rows
  /\ kept \in [SeqId -> 0 .. NRsSeq]
  /\ todo \in Seq(UBatch)
  /\ SavedOK(saved)

LEMMA NoRows == [g \in Group |-> [c \in Cell |-> <<>>]] \in Rows
<1>1. <<>> \in Row
  BY EmptySeq DEF Row
<1> QED
  BY <1>1 DEF Rows

LEMMA IInvInit == Init => IInv
<1> SUFFICES ASSUME Init PROVE IInv
  OBVIOUS
<1>1. Sane(mem) /\ rows \in Rows
  BY SaneNoCells, NoRows DEF Init
<1>2. kept \in [SeqId -> 0 .. NRsSeq]
  BY SizesAssumption DEF Init
<1>3. todo \in Seq(UBatch)
  BY EmptySeq DEF Init
<1>4. SavedOK(saved)
  <2>1. <<>> \in Seq(SavedCell) /\ Len(<<>>) = 0
    BY EmptySeq
  <2> QED
    BY <2>1 DEF Init, SavedOK
<1> QED
  BY <1>1, <1>2, <1>3, <1>4 DEF IInv

LEMMA KeptZero ==
  ASSUME NEW k, k \in [SeqId -> 0 .. NRsSeq], NEW s \in SeqId
  PROVE  [k EXCEPT ![s] = 0] \in [SeqId -> 0 .. NRsSeq]
BY SizesAssumption

LEMMA ClearStep ==
  ASSUME IInv, NEW data \in BOOLEAN, clear(data)
  PROVE  IInv'
<1>1. Sane(mem')
  BY SaneNoCells DEF clear
<1>2. rows' \in Rows
  BY NoRows DEF clear, IInv
<1>3. kept' \in [SeqId -> 0 .. NRsSeq]
  BY SizesAssumption DEF clear
<1> QED
  BY <1>1, <1>2, <1>3 DEF IInv, clear

LEMMA SeqRmTailStep ==
  ASSUME IInv, NEW s \in SeqId, NEW r \in RmRanges, SeqRmTail(s, r)
  PROVE  IInv'
<1>1. Sane(mem')
  <2>1. Sane(mem) /\ r \in Int \X Int /\ Cuts(mem, s, r) /\ Rollback(mem, s, r) <= NRsSeq
    BY RangesAssumption DEF IInv, SeqRmTail
  <2>2. Sane(RolledBack(mem, s, r))
    BY <2>1, SaneRolledBack
  <2> QED
    BY <2>2 DEF SeqRmTail
<1>2. kept' \in [SeqId -> 0 .. NRsSeq]
  BY KeptZero DEF IInv, SeqRmTail
<1> QED
  BY <1>1, <1>2 DEF IInv, SeqRmTail

LEMMA SeqRmStep ==
  ASSUME IInv, NEW s \in SeqId, NEW r \in RmRanges, SeqRm(s, r)
  PROVE  IInv'
<1>1. Sane(mem')
  BY SaneRemoved DEF IInv, SeqRm
<1>2. kept' \in [SeqId -> 0 .. NRsSeq]
  BY KeptZero DEF IInv, SeqRm
<1> QED
  BY <1>1, <1>2 DEF IInv, SeqRm

LEMMA SeqCpStep ==
  ASSUME IInv, NEW src \in SeqId, NEW dst \in SeqId, SeqCp(src, dst)
  PROVE  IInv'
<1>1. Sane(mem')
  BY SaneCopied DEF IInv, SeqCp
<1>2. kept' \in [SeqId -> 0 .. NRsSeq]
  BY KeptZero DEF IInv, SeqCp
<1> QED
  BY <1>1, <1>2 DEF IInv, SeqCp

LEMMA SeqKeepStep ==
  ASSUME IInv, NEW s \in SeqId, SeqKeep(s)
  PROVE  IInv'
<1>1. Sane(mem')
  BY SaneKept DEF IInv, SeqKeep
<1>2. kept' \in [SeqId -> 0 .. NRsSeq]
  BY SizesAssumption DEF IInv, SeqKeep
<1> QED
  BY <1>1, <1>2 DEF IInv, SeqKeep

LEMMA AloneFacts ==
  ASSUME NEW s \in SeqId, Sane(mem), Alone(s)
  PROVE  /\ mem.tail[s] \in Cell /\ mem.seqs[mem.tail[s]] = {s}
         /\ mem.pos[mem.tail[s]] \in Pos /\ mem \in Mem
<1>1. mem.tail[s] \in Cell /\ mem.seqs[mem.tail[s]] = {s} /\ mem \in Mem
  BY DEF Alone, Sane, Mem
<1>2. mem.pos[mem.tail[s]] \in Pos \cup {-1} /\ mem.pos[mem.tail[s]] # -1
  BY <1>1 DEF Sane, Positions, Mem
<1> QED
  BY <1>1, <1>2

LEMMA SeqAddStep ==
  ASSUME IInv, NEW s \in SeqId, NEW r \in RmRanges, NEW d \in Deltas, SeqAdd(s, r, d)
  PROVE  IInv'
<1> DEFINE t == mem.tail[s]
<1>1. /\ Sane(mem) /\ Alone(s) /\ mem.pos[t] + d \in Pos
      /\ mem' = [mem EXCEPT !.pos[t] = @ + d]
  BY DEF IInv, SeqAdd
<1>2. t \in Cell /\ mem.seqs[t] # {} /\ mem \in Mem
  BY <1>1, AloneFacts
<1>3. mem' = [mem EXCEPT !.pos[t] = mem.pos[t] + d]
  BY <1>1, <1>2 DEF Mem
<1> HIDE DEF t
<1>4. Sane(mem')
  BY <1>1, <1>2, <1>3, SaneMoved
<1> QED
  BY <1>4 DEF IInv, SeqAdd

LEMMA DivFacts ==
  ASSUME NEW p \in Pos, NEW d \in Divs
  PROVE  p \div d \in Pos
<1>1. p \in Nat /\ p < MaxLen /\ d \in Nat \ {0} /\ MaxLen \in Nat
  BY DivsAssumption, BoundsAssumption DEF Pos
<1> DEFINE q == p \div d
           r == p % d
<1>2. q \in Int /\ r \in Int /\ p = d * q + r /\ 0 <= r /\ r < d
  BY <1>1, SMT
<1> HIDE DEF q, r
<1>3. q >= 0
  <2>1. SUFFICES ASSUME q <= -1 PROVE FALSE
    BY <1>2
  <2>2. PICK h \in Nat : q = -1 - h
    <3>1. -1 - q \in Nat /\ q = -1 - (-1 - q)
      BY <1>2, <2>1
    <3> QED
      BY <3>1
  <2>3. d * q = -d - d * h /\ d * h >= 0
    BY <1>1, <2>2, SMT
  <2> QED
    BY <1>1, <1>2, <2>3, SMT
<1>4. d * q >= q
  <2>1. PICK h \in Nat : d = h + 1
    <3>1. d - 1 \in Nat /\ d = (d - 1) + 1
      BY <1>1
    <3> QED
      BY <3>1
  <2>2. d * q = h * q + q /\ h * q >= 0
    BY <1>2, <1>3, <2>1, SMT
  <2> QED
    BY <1>2, <2>2, SMT
<1>5. q <= p
  BY <1>1, <1>2, <1>4, SMT
<1>6. q \in Pos
  BY <1>1, <1>2, <1>3, <1>5 DEF Pos
<1> QED
  BY <1>6 DEF q

LEMMA SeqDivStep ==
  ASSUME IInv, NEW s \in SeqId, NEW r \in RmRanges, NEW d \in Divs, SeqDiv(s, r, d)
  PROVE  IInv'
<1> DEFINE t == mem.tail[s]
<1>1. Sane(mem) /\ Alone(s) /\ mem' = [mem EXCEPT !.pos[t] = @ \div d]
  BY DEF IInv, SeqDiv
<1>2. t \in Cell /\ mem.seqs[t] # {} /\ mem.pos[t] \in Pos /\ mem \in Mem
  BY <1>1, AloneFacts
<1>3. mem' = [mem EXCEPT !.pos[t] = mem.pos[t] \div d] /\ mem.pos[t] \div d \in Pos
  BY <1>1, <1>2, DivFacts DEF Mem
<1> HIDE DEF t
<1>4. Sane(mem')
  BY <1>1, <1>2, <1>3, SaneMoved
<1> QED
  BY <1>4 DEF IInv, SeqDiv

(* Trying micro-batches fails for none.                                    *)
LEMMA TryFacts ==
  ASSUME NEW m, Sane(m), NEW ub \in UBatch
  PROVE  Sane(Try(m, ub))
<1>1. Sane(find_slot(m, ub).mem)
  BY FindSlotFacts
<1>2. ~m.aborted
  BY DEF Sane
<1> QED
  BY <1>1, <1>2 DEF Try

IsTrying(f, m, ubs) == f = [i \in 0 .. Len(ubs) |-> IF i = 0 THEN m ELSE Try(f[i - 1], ubs[i])]

LEMMA TriedFacts ==
  ASSUME NEW m, Sane(m), NEW ubs \in Seq(UBatch)
  PROVE  Tried(m, ubs) = m
<1> DEFINE n == Len(ubs)
           I == {p \in (0 .. n) \X Mem : Sane(p[2])}
           D == (1 .. n) \X Mem
           G == [p \in D |-> Try(p[2], ubs[p[1]])]
<1>0. n \in Nat /\ \A k \in 1 .. n : ubs[k] \in UBatch
  BY LenProperties, ElementOfSeq
<1>1. \A x : Sane(x) => x \in Mem
  BY DEF Sane
<1> HIDE DEF n
<1>2. \A k, x : <<k, x>> \in I <=> k \in 0 .. n /\ Sane(x)
  BY <1>1
<1> HIDE DEF I
<1>3. ASSUME NEW k \in 1 .. n, NEW x, <<k - 1, x>> \in I
      PROVE  G[<<k, x>>] = Try(x, ubs[k]) /\ <<k, Try(x, ubs[k])>> \in I
  <2>1. Sane(x) /\ x \in Mem /\ k \in 0 .. n
    BY <1>0, <1>1, <1>2, <1>3
  <2>2. Sane(Try(x, ubs[k]))
    BY <1>0, <2>1, TryFacts
  <2>3. <<k, x>> \in D
    BY <2>1
  <2> QED
    BY <1>2, <2>1, <2>2, <2>3
<1> HIDE DEF G
<1>4. Stays(G, n, I)
  BY <1>3 DEF Stays
<1>5. PICK f : IsRun(f, n, m, G) /\ \A k \in 0 .. n : <<k, f[k]>> \in I
  <2>1. <<0, m>> \in I
    BY <1>0, <1>2
  <2> QED
    BY <1>0, <1>4, <2>1, RunWithin
<1>6. \A k \in 0 .. n : k # 0 => G[<<k, f[k - 1]>>] = Try(f[k - 1], ubs[k])
  <2>1. \A k \in 0 .. n : k # 0 => k \in 1 .. n /\ k - 1 \in 0 .. n
    BY <1>0
  <2> QED
    BY <1>3, <1>5, <2>1
<1>7. IsTrying(f, m, ubs)
  BY <1>5, <1>6 DEF IsRun, IsTrying, n
<1>8. PICK g : g = CHOOSE h : IsTrying(h, m, ubs)
  OBVIOUS
<1>9. IsTrying(g, m, ubs) /\ Tried(m, ubs) = [m EXCEPT !.aborted = g[n].aborted]
  BY <1>7, <1>8, Zenon DEF Tried, IsTrying, n
<1> DEFINE H == [k \in 0 .. n |-> IF k = 0 THEN m ELSE Try(g[k - 1], ubs[k])]
<1>10. H[0] = m /\ \A k \in 1 .. n : H[k] = Try(g[k - 1], ubs[k])
  BY <1>0
<1>11. H = g
  BY <1>9 DEF IsTrying, n
<1> HIDE DEF H
<1> DEFINE P == {k \in 0 .. n : <<k, g[k]>> \in I}
<1>12. 0 \in P /\ \A k \in 1 .. n : k - 1 \in P => k \in P
  <2>1. <<0, m>> \in I /\ 0 \in 0 .. n /\ \A k \in 1 .. n : k \in 0 .. n
    BY <1>0, <1>2
  <2>2. 0 \in P
    BY <1>10, <1>11, <2>1
  <2>3. \A k \in 1 .. n : <<k - 1, g[k - 1]>> \in I => <<k, g[k]>> \in I
    BY <1>3, <1>10, <1>11
  <2> QED
    BY <2>1, <2>2, <2>3
<1> HIDE DEF P
<1>13. n \in P
  <2>1. n \in 0 .. n
    BY <1>0
  <2> QED
    BY <1>0, <1>12, <2>1, Induct, Zenon
<1>14. g[n].aborted = FALSE
  <2>1. Sane(g[n])
    BY <1>2, <1>13 DEF P
  <2>2. ~g[n].aborted /\ g[n].aborted \in BOOLEAN
    BY <2>1 DEF Sane, Mem
  <2> QED
    BY <2>2
<1>15. m.aborted = FALSE /\ m \in Mem
  BY DEF Sane, Mem
<1> QED
  BY <1>9, <1>14, <1>15 DEF Mem

LEMMA DecodeStep ==
  ASSUME IInv, NEW batch \in Batches, Decode(batch)
  PROVE  IInv'
<1> DEFINE ubs == Split(batch)
<1>1. Sane(mem) /\ mem \in Mem
  BY DEF IInv, Sane
<1>2. ubs \in Seq(UBatch)
  BY <1>1, BatchesGood, SplitType
<1>3. mem' = Tried(mem, ubs) /\ todo' = (IF mem'.aborted THEN <<>> ELSE ubs)
      /\ UNCHANGED <<rows, kept, saved>>
  BY DEF Decode
<1> HIDE DEF ubs
<1>4. mem' = mem
  BY <1>1, <1>2, <1>3, TriedFacts
<1>5. todo' \in Seq(UBatch)
  BY <1>2, <1>3, EmptySeq
<1> QED
  BY <1>1, <1>3, <1>4, <1>5 DEF IInv

(* The rows that a graph takes.                                            *)
LEMMA RunFacts ==
  ASSUME NEW m, NEW ub \in UBatch, NEW lo, NEW hi, NEW m1, NEW g,
         Placing(m, ub, lo, hi, m1, g), NEW f, Staged(ub, lo, hi, g, f)
  PROVE  /\ Sane(f.mem) /\ f.mem.head = lo /\ lo \in Cell
         /\ Run(f) = lo .. hi /\ lo .. hi \in SUBSET Cell
         /\ f.rs_z \in Cell \cup {Nowhere}
         /\ \A c \in lo .. hi : f.src0[c] \in Cell
<1>1. Sane(f.mem)
  BY SaneStaged
<1>2. lo \in Cell /\ hi \in Cell /\ g \in Mem
  BY DEF Placing, PutUpTo, Placed, Consistent
<1>3. lo .. hi \in SUBSET Cell
  BY <1>2, SizesAssumption DEF Cell
<1> DEFINE starts == {c \in lo .. hi : g.src[c] = Nowhere}
           free   == (lo .. hi) \ {g.src[c] : c \in Cell}
<1>4. /\ f.mem.head = lo /\ DOMAIN f.src0 = lo .. hi
      /\ f.mem.aborted = (starts # {} /\ free = {})
      /\ IF free = {} THEN f.rs_z = Nowhere ELSE f.rs_z \in free
      /\ \A c \in lo .. hi : f.src0[c] = IF c \in starts THEN f.rs_z ELSE g.src[c]
  BY DEF Staged
<1>5. free \in SUBSET Cell /\ \A c \in lo .. hi : c \notin starts => g.src[c] \in Cell
  BY <1>2, <1>3 DEF Mem
<1> HIDE DEF starts, free
<1>6. starts # {} => free # {}
  BY <1>1, <1>4 DEF Sane
<1>7. \A c \in lo .. hi : f.src0[c] \in Cell
  BY <1>4, <1>5, <1>6
<1> QED
  BY <1>1, <1>2, <1>3, <1>4, <1>5, <1>7 DEF Run

LEMMA SaneInputs ==
  ASSUME NEW f, Sane(f.mem)
  PROVE  /\ Sane(InputsSet(f)) /\ InputsSet(f).tail = f.mem.tail /\ InputsSet(f).src = f.mem.src
         /\ InputsSet(f).pos = f.mem.pos /\ InputsSet(f).seqs = f.mem.seqs
         /\ InputsSet(f).head = f.mem.head
         /\ \A s \in SeqId : InputsSet(f).rs_idx[s]
              = IF NRsSeq > 0 /\ \E c \in Run(f) : f.mem.seqs[c] # {} /\ s = Min(f.mem.seqs[c])
                THEN 0 ELSE f.mem.rs_idx[s]
<1> DEFINE m == f.mem
           hit(s) == NRsSeq > 0 /\ \E c \in Run(f) : m.seqs[c] # {} /\ s = Min(m.seqs[c])
           i == [s \in SeqId |-> IF hit(s) THEN 0 ELSE m.rs_idx[s]]
           x == InputsSet(f)
<1>1. Sane(m) /\ m \in Mem
  BY DEF Sane
<1>2. x = [m EXCEPT !.rs_idx = i]
  BY <1>1 DEF InputsSet, Mem
<1>3. \A s \in SeqId : i[s] = IF hit(s) THEN 0 ELSE m.rs_idx[s]
  OBVIOUS
<1> HIDE DEF hit
<1>4. i \in [SeqId -> Group]
  BY <1>1, CellFacts DEF Mem
<1> HIDE DEF i, m, x
<1>5. /\ x \in Mem /\ x.pos = m.pos /\ x.src = m.src /\ x.tail = m.tail /\ x.seqs = m.seqs
      /\ x.used = m.used /\ x.aborted = m.aborted /\ x.head = m.head /\ x.rs_idx = i
  BY <1>1, <1>2, <1>4 DEF Mem
<1>6. Full(x) = Full(m)
  BY <1>5 DEF Full
<1>7. Sane(x)
  BY <1>1, <1>5, <1>6 DEF Sane, Tails, Positions, Counted, AtHome
<1> QED
  BY <1>3, <1>5, <1>7 DEF m, hit, x

LEMMA MoreTokens ==
  ASSUME NEW r \in Row, NEW t \in Nat, NEW S \in SUBSET SeqId
  PROVE  LET a == [i \in 1 .. t |-> S]
         IN  r \o a \in Row /\ a \in Row /\ Len(a) = t
<1> DEFINE a == [i \in 1 .. t |-> S]
<1>1. a \in [1 .. t -> SUBSET SeqId]
  OBVIOUS
<1> HIDE DEF a
<1>2. a \in Seq(SUBSET SeqId) /\ Len(a) = t
  BY <1>1, AsSeq
<1>3. r \o a \in Seq(SUBSET SeqId)
  BY <1>2, ConcatProperties DEF Row
<1> QED
  BY <1>2, <1>3 DEF Row, a

Zeroed(f) == IF f.rs_z = Nowhere THEN rows ELSE [rows EXCEPT ![0][f.rs_z] = <<>>]

TakenRow(f, c) == Zeroed(f)[RollIdx(f.mem, c)][f.src0[c]]

AfterRow(f, ub, c, t) == TakenRow(f, c) \o [i \in 1 .. t |-> Members(ub, c - f.mem.head + 1)]

LEMMA ZeroedFacts ==
  ASSUME rows \in Rows, NEW f, f.rs_z \in Cell \cup {Nowhere}
  PROVE  /\ Zeroed(f) \in Rows
         /\ \A g \in Group, c \in Cell : Zeroed(f)[g][c] = IF g = 0 /\ c = f.rs_z THEN <<>> ELSE rows[g][c]
<1>1. CASE f.rs_z = Nowhere
  BY <1>1, CellFacts DEF Zeroed
<1>2. CASE f.rs_z # Nowhere
  <2>1. f.rs_z \in Cell /\ 0 \in Group /\ <<>> \in Row
    BY <1>2, CellFacts, EmptySeq DEF Row
  <2>2. Zeroed(f) = [rows EXCEPT ![0][f.rs_z] = <<>>]
    BY <1>2 DEF Zeroed
  <2> QED
    BY <2>1, <2>2 DEF Rows
<1> QED
  BY <1>1, <1>2

LEMMA RollIdxFacts ==
  ASSUME NEW m \in Mem, NEW c \in Cell
  PROVE  RollIdx(m, c) \in Group /\ (m.seqs[c] # {} => Min(m.seqs[c]) \in m.seqs[c] /\ RollIdx(m, c) = m.rs_idx[Min(m.seqs[c])])
<1>1. m.seqs[c] \in SUBSET Cell
  BY CellFacts DEF Mem
<1>2. m.seqs[c] # {} => Min(m.seqs[c]) \in m.seqs[c]
  BY <1>1, SomeCell
<1> QED
  BY <1>1, <1>2, CellFacts DEF RollIdx, Mem

(* The rows after a graph, one by one.                                     *)
RowsAfter(f, ub, lo, hi, w) ==
  \A h \in Group, c \in Cell : w[h][c]
    = IF c \notin lo .. hi THEN Zeroed(f)[h][c]
      ELSE IF c \in lo .. lo + Len(ub.ids) - 1
        THEN IF h = 0 \/ (KeepIntermediates(ub) /\ h < ub.len)
             THEN AfterRow(f, ub, c, ub.len - h) ELSE Zeroed(f)[h][c]
      ELSE IF h = 0 THEN TakenRow(f, c) ELSE Zeroed(f)[h][c]

LEMMA ComputedFacts ==
  ASSUME rows \in Rows, NEW m, NEW ub \in UBatch, NEW lo, NEW hi, NEW m1, NEW g,
         Placing(m, ub, lo, hi, m1, g), NEW f, Staged(ub, lo, hi, g, f)
  PROVE  /\ Computed(f, ub) \in Rows
         /\ RowsAfter(f, ub, lo, hi, Computed(f, ub))
         /\ \A c \in lo .. hi : TakenRow(f, c) \in Row
<1> DEFINE n == Len(ub.ids)
           ids == lo .. lo + n - 1
           val(h, c) == IF c \notin lo .. hi THEN Zeroed(f)[h][c]
                        ELSE IF c \in ids
                          THEN IF h = 0 \/ (KeepIntermediates(ub) /\ h < ub.len)
                               THEN AfterRow(f, ub, c, ub.len - h) ELSE Zeroed(f)[h][c]
                        ELSE IF h = 0 THEN TakenRow(f, c) ELSE Zeroed(f)[h][c]
<1>1. /\ Sane(f.mem) /\ f.mem.head = lo /\ lo \in Cell /\ lo \in Int
      /\ Run(f) = lo .. hi /\ lo .. hi \in SUBSET Cell
      /\ f.rs_z \in Cell \cup {Nowhere}
      /\ \A c \in lo .. hi : f.src0[c] \in Cell
  <2> HIDE DEF n, ids, val
  <2>1. /\ Sane(f.mem) /\ f.mem.head = lo /\ lo \in Cell
        /\ Run(f) = lo .. hi /\ lo .. hi \in SUBSET Cell
        /\ f.rs_z \in Cell \cup {Nowhere}
        /\ \A c \in lo .. hi : f.src0[c] \in Cell
    BY RunFacts
  <2>2. lo \in Int
    BY <2>1, CellFacts
  <2> QED
    BY <2>1, <2>2
<1>2. /\ n \in Nat \ {0} /\ DOMAIN ub.ids = 1 .. n /\ ub.len \in Nat \ {0}
      /\ \A k \in 1 .. n : Members(ub, k) \in SUBSET SeqId
  BY UBatchFacts
<1>3. Zeroed(f) \in Rows
  BY <1>1, ZeroedFacts
<1>4. \A c \in Cell : /\ c - lo + 1 \in DOMAIN ub.ids <=> c \in ids
                      /\ c \in ids => c - lo + 1 \in 1 .. n
  BY <1>1, <1>2, CellFacts
<1>5. ASSUME NEW c \in lo .. hi
      PROVE  TakenRow(f, c) \in Row
  <2>1. RollIdx(f.mem, c) \in Group /\ f.src0[c] \in Cell
    BY <1>1, RollIdxFacts DEF Sane
  <2> QED
    BY <1>3, <2>1 DEF TakenRow, Rows
<1>6. ASSUME NEW h \in Group, NEW c \in Cell
      PROVE  val(h, c) \in Row
  <2>1. Zeroed(f)[h][c] \in Row
    BY <1>3 DEF Rows
  <2>2. ASSUME c \in lo .. hi, c \in ids, h = 0 \/ h < ub.len
        PROVE  AfterRow(f, ub, c, ub.len - h) \in Row
    <3>1. ub.len - h \in Nat
      BY <1>2, <2>2, CellFacts
    <3>2. Members(ub, c - lo + 1) \in SUBSET SeqId /\ TakenRow(f, c) \in Row
      BY <1>2, <1>4, <1>5, <2>2
    <3> QED
      BY <1>1, <3>1, <3>2, MoreTokens DEF AfterRow
  <2> QED
    BY <1>5, <2>1, <2>2
<1>7. ASSUME NEW h \in Group, NEW c \in Cell
      PROVE  Computed(f, ub)[h][c] = val(h, c)
  <2> DEFINE cval(j, d) ==
        IF d \notin Run(f) THEN Zeroed(f)[j][d]
        ELSE IF d - f.mem.head + 1 \in DOMAIN ub.ids
          THEN IF j = 0 \/ (KeepIntermediates(ub) /\ j < ub.len)
               THEN AfterRow(f, ub, d, ub.len - j) ELSE Zeroed(f)[j][d]
        ELSE IF j = 0 THEN TakenRow(f, d) ELSE Zeroed(f)[j][d]
  <2>1. Computed(f, ub) = [j \in Group |-> [d \in Cell |-> cval(j, d)]]
    BY DEF Computed, Zeroed, TakenRow, AfterRow
  <2>2. cval(h, c) = val(h, c)
    BY <1>1, <1>4
  <2> HIDE DEF cval, val
  <2> QED
    BY <2>1, <2>2
<1>8. Computed(f, ub) \in Rows
  <2>1. Computed(f, ub) = [h \in Group |-> [c \in Cell |-> Computed(f, ub)[h][c]]]
    BY DEF Computed
  <2> HIDE DEF val
  <2>2. \A h \in Group, c \in Cell : Computed(f, ub)[h][c] \in Row
    BY <1>6, <1>7
  <2> DEFINE w == Computed(f, ub)
  <2> HIDE DEF w
  <2>3. w = [h \in Group |-> [c \in Cell |-> w[h][c]]] /\ \A h \in Group, c \in Cell : w[h][c] \in Row
    BY <2>1, <2>2 DEF w
  <2>4. w \in Rows
    BY <2>3 DEF Rows
  <2> QED
    BY <2>4 DEF w
<1>9. RowsAfter(f, ub, lo, hi, Computed(f, ub))
  BY <1>7 DEF RowsAfter
<1> QED
  BY <1>5, <1>8, <1>9

LEMMA KeptAfterType ==
  ASSUME kept \in [SeqId -> 0 .. NRsSeq], NEW ub \in UBatch, NEW f
  PROVE  KeptAfter(f, ub) \in [SeqId -> 0 .. NRsSeq]
<1>1. ub.len \in Nat \ {0} /\ NRsSeq \in Nat
  BY UBatchFacts, SizesAssumption
<1>2. (IF KeepIntermediates(ub) THEN ub.len - 1 ELSE 0) \in 0 .. NRsSeq
  BY <1>1 DEF KeepIntermediates
<1> QED
  BY <1>1, <1>2 DEF KeptAfter

LEMMA TodoFacts ==
  ASSUME todo \in Seq(UBatch), todo # <<>>
  PROVE  Head(todo) \in UBatch /\ Tail(todo) \in Seq(UBatch)
BY HeadTailProperties

LEMMA ProcessUbatchStep ==
  ASSUME IInv, ProcessUbatch
  PROVE  IInv'
<1> DEFINE ub == Head(todo)
           f == find_slot(mem, ub)
<1>1. /\ Sane(mem) /\ rows \in Rows /\ kept \in [SeqId -> 0 .. NRsSeq] /\ SavedOK(saved)
      /\ todo \in Seq(UBatch) /\ todo # <<>>
  BY DEF IInv, ProcessUbatch
<1>2. ub \in UBatch /\ Tail(todo) \in Seq(UBatch)
  BY <1>1, TodoFacts
<1>3. /\ IF f.mem.aborted THEN mem' = f.mem /\ UNCHANGED <<rows, kept>>
         ELSE mem' = InputsSet(f) /\ rows' = Computed(f, ub) /\ kept' = KeptAfter(f, ub)
      /\ todo' = Tail(todo) /\ UNCHANGED saved
  BY DEF ProcessUbatch
<1> HIDE DEF ub
<1>4. PICK lo, hi, m1, g : Placing(mem, ub, lo, hi, m1, g) /\ Staged(ub, lo, hi, g, f) /\ Sane(f.mem)
  BY <1>1, <1>2, FindSlotFacts
<1> HIDE DEF f
<1>5. mem' = InputsSet(f) /\ rows' = Computed(f, ub) /\ kept' = KeptAfter(f, ub)
  BY <1>3, <1>4 DEF Sane
<1>6. Sane(mem')
  BY <1>4, <1>5, SaneInputs
<1>7. rows' \in Rows
  BY <1>1, <1>2, <1>4, <1>5, ComputedFacts
<1>8. kept' \in [SeqId -> 0 .. NRsSeq]
  BY <1>1, <1>2, <1>5, KeptAfterType
<1> QED
  BY <1>1, <1>2, <1>3, <1>6, <1>7, <1>8 DEF IInv

LEMMA WrittenFacts ==
  ASSUME IInv, NEW c \in Cell, mem.seqs[c] # {}
  PROVE  /\ Written(c) \in SavedCell /\ Written(c).seqs = mem.seqs[c] /\ Written(c).pos = mem.pos[c]
         /\ Written(c).row = rows[0][c]
         /\ [Written(c) EXCEPT !.seqs = {}] \in SavedCell
         /\ [Written(c) EXCEPT !.seqs = {}].pos = mem.pos[c]
         /\ [Written(c) EXCEPT !.seqs = {}].row = rows[0][c]
<1>1. mem.pos[c] \in Pos /\ mem.seqs[c] \in SUBSET SeqId /\ rows[0][c] \in Row
  <2>1. mem \in Mem /\ mem.pos[c] # -1
    BY DEF IInv, Sane, Positions
  <2> QED
    BY <2>1, CellFacts DEF Mem, IInv, Rows
<1> DEFINE p == mem.pos[c]
           q == mem.seqs[c]
           w == rows[0][c]
<1>2. Written(c) = [pos |-> p, seqs |-> q, row |-> w]
  BY DEF Written
<1> HIDE DEF p, q, w
<1>3. p \in Pos /\ q \in SUBSET SeqId /\ w \in Row
  BY <1>1 DEF p, q, w
<1>4. /\ Written(c) \in SavedCell /\ Written(c).seqs = q /\ Written(c).pos = p /\ Written(c).row = w
      /\ [Written(c) EXCEPT !.seqs = {}] \in SavedCell
      /\ [Written(c) EXCEPT !.seqs = {}].pos = p /\ [Written(c) EXCEPT !.seqs = {}].row = w
  BY <1>2, <1>3 DEF SavedCell
<1> QED
  BY <1>4 DEF p, q, w

LEMMA StateWriteSeqStep ==
  ASSUME IInv, NEW s \in SeqId, StateWriteSeq(s)
  PROVE  IInv'
<1> DEFINE t == mem.tail[s]
           cells == IF t = Nowhere THEN <<>> ELSE <<[Written(t) EXCEPT !.seqs = {}]>>
<1>1. saved' = [all |-> FALSE, cells |-> cells] /\ UNCHANGED <<mem, rows, kept, todo>>
  BY DEF StateWriteSeq
<1>2. cells \in Seq(SavedCell) /\ Len(cells) <= 1
  <2>1. CASE t = Nowhere
    BY <2>1, EmptySeq
  <2>2. CASE t # Nowhere
    <3>1. t \in Cell /\ mem.seqs[t] # {}
      BY <2>2 DEF IInv, Sane, Mem, Tails
    <3> DEFINE w == [Written(t) EXCEPT !.seqs = {}]
    <3> HIDE DEF t
    <3>2. w \in SavedCell
      BY <3>1, WrittenFacts
    <3>3. cells = <<w>>
      BY <2>2
    <3> HIDE DEF w, cells
    <3> QED
      BY <3>2, <3>3
  <2> QED
    BY <2>1, <2>2
<1> HIDE DEF cells
<1>3. SavedOK(saved')
  <2>1. saved'.all = FALSE /\ saved'.cells = cells
    BY <1>1
  <2> QED
    BY <1>2, <2>1 DEF SavedOK
<1> QED
  BY <1>1, <1>3 DEF IInv

LEMMA StateWriteAllStep ==
  ASSUME IInv, StateWriteAll
  PROVE  IInv'
<1> DEFINE C == {c \in Cell : mem.seqs[c] # {}}
           n == Cardinality(C)
           u == InOrder(C)
           cells == [i \in DOMAIN u |-> Written(u[i])]
<1>1. saved' = [all |-> TRUE, cells |-> cells] /\ UNCHANGED <<mem, rows, kept, todo>>
  BY DEF StateWriteAll
<1>2. /\ C \in SUBSET Cell /\ n \in Nat /\ n <= Size
      /\ \A c \in C : c \in Cell /\ mem.seqs[c] # {}
  BY PartOfCells
<1> HIDE DEF C
<1>3. u \in [1 .. n -> C] /\ \A i, j \in 1 .. n : i < j => u[i] < u[j]
  BY <1>2, InOrderFacts
<1> HIDE DEF u, n
<1>4. \A i, j \in 1 .. n : i # j => u[i] # u[j]
  <2>1. \A i \in 1 .. n : u[i] \in Int
    BY <1>2, <1>3, CellFacts
  <2> QED
    BY <1>2, <1>3, <2>1
<1>5. \A i \in 1 .. n : cells[i] = Written(u[i]) /\ u[i] \in C /\ cells[i] \in SavedCell
                        /\ cells[i].seqs = mem.seqs[u[i]]
  <2>1. \A i \in 1 .. n : u[i] \in C /\ cells[i] = Written(u[i])
    BY <1>3
  <2> HIDE DEF cells
  <2> QED
    BY <1>2, <2>1, WrittenFacts
<1>6. cells \in [1 .. n -> SavedCell]
  <2>1. DOMAIN u = 1 .. n
    BY <1>3
  <2>2. \A i \in 1 .. n : Written(u[i]) \in SavedCell
    <3> HIDE DEF cells
    <3> QED
      BY <1>5
  <2> QED
    BY <2>1, <2>2
<1> HIDE DEF cells
<1>7. cells \in Seq(SavedCell) /\ Len(cells) = n
  BY <1>2, <1>6, AsSeq
<1>8. \A i, j \in 1 .. n : i # j => cells[i].seqs \cap cells[j].seqs = {}
  <2>1. \A s \in SeqId, c \in Cell : mem.tail[s] = c <=> s \in mem.seqs[c]
    BY DEF IInv, Sane, Tails
  <2>2. \A c \in Cell : mem.seqs[c] \in SUBSET SeqId
    BY DEF IInv, Sane, Mem
  <2>3. \A c, d \in Cell : c # d => mem.seqs[c] \cap mem.seqs[d] = {}
    BY <2>1, <2>2
  <2> QED
    BY <1>2, <1>4, <1>5, <2>3
<1>9. SavedOK(saved')
  <2>1. saved'.all = TRUE /\ saved'.cells = cells
    BY <1>1
  <2>2. \A i \in 1 .. n : cells[i].seqs # {}
    BY <1>2, <1>5
  <2>3. /\ Len(saved'.cells) <= Size
        /\ \A i \in 1 .. Len(saved'.cells) : saved'.cells[i].seqs # {}
        /\ \A i, j \in 1 .. Len(saved'.cells) : i # j => saved'.cells[i].seqs \cap saved'.cells[j].seqs = {}
    BY <1>2, <1>7, <1>8, <2>1, <2>2
  <2>4. saved'.all \in BOOLEAN /\ saved'.cells \in Seq(SavedCell)
    BY <1>7, <2>1
  <2> QED
    BY <2>1, <2>3, <2>4 DEF SavedOK
<1> QED
  BY <1>1, <1>9 DEF IInv

(* The batch that a restore makes up.                                      *)
RestoreBatch(s, p) == [ids |-> << <<s>> >>, len |-> 1, last |-> <<p>>]

LEMMA RestoreBatchFacts ==
  ASSUME NEW s \in SeqId, NEW p \in Pos
  PROVE  /\ RestoreBatch(s, p) \in UBatch /\ Len(RestoreBatch(s, p).ids) = 1
         /\ Members(RestoreBatch(s, p), 1) = {s} /\ RestoreBatch(s, p).last[1] = p
         /\ RestoreBatch(s, p).len = 1
<1> DEFINE g == <<s>>
           ids == <<g>>
           last == <<p>>
           ub == RestoreBatch(s, p)
<1>1. g \in Seq(SeqId) /\ Len(g) = 1 /\ DOMAIN g = {1} /\ g[1] = s /\ g # <<>>
  OBVIOUS
<1> HIDE DEF g
<1>2. ids \in Seq(Seq(SeqId)) /\ Len(ids) = 1 /\ ids[1] = g /\ ids # <<>>
  BY <1>1
<1>3. last \in Seq(Pos) /\ Len(last) = 1 /\ last[1] = p
  OBVIOUS
<1>4. ub = [ids |-> ids, len |-> 1, last |-> last]
  BY DEF RestoreBatch, g
<1> HIDE DEF ids, last, ub
<1>5. ub.ids = ids /\ ub.len = 1 /\ ub.last = last
  BY <1>4
<1>6. Members(ub, 1) = {s}
  BY <1>1, <1>2, <1>5 DEF Members
<1>7. ub \in [ids : Seq(Seq(SeqId)), len : Nat \ {0}, last : Seq(Pos)]
  BY <1>2, <1>3, <1>4
<1>0. 1 .. Len(ub.ids) = {1}
  <2>1. Len(ub.ids) = 1
    BY <1>2, <1>5
  <2>2. \A i : i \in 1 .. 1 <=> i = 1
    OBVIOUS
  <2>3. 1 .. 1 = {1}
    BY <2>2
  <2> QED
    BY <2>1, <2>3
<1>8. \A j, k \in 1 .. Len(ub.ids) : j = k
  BY <1>0
<1>9. \A k \in 1 .. Len(ub.ids) : ub.ids[k] # <<>>
  <2>1. ub.ids[1] # <<>>
    BY <1>1, <1>2, <1>5
  <2> QED
    BY <1>0, <2>1
<1>10. ub \in UBatch
  BY <1>2, <1>3, <1>5, <1>7, <1>8, <1>9 DEF UBatch
<1> QED
  BY <1>2, <1>3, <1>5, <1>6, <1>10 DEF ub

LEMMA StateReadSeqStep ==
  ASSUME IInv, NEW s \in SeqId, StateReadSeq(s)
  PROVE  IInv'
<1> DEFINE m1 == Removed(mem, s, <<0, -1>>)
           cell == saved.cells[1]
           ub == RestoreBatch(s, cell.pos)
           f == find_slot(m1, ub)
           m2 == f.mem
<1>1. /\ Sane(mem) /\ rows \in Rows /\ kept \in [SeqId -> 0 .. NRsSeq] /\ SavedOK(saved)
      /\ todo \in Seq(UBatch)
  BY DEF IInv
<1>2. Sane(m1)
  BY <1>1, SaneRemoved
<1>3. /\ IF saved.cells = <<>> THEN mem' = m1 /\ UNCHANGED rows
         ELSE IF m2.aborted THEN mem' = m2 /\ UNCHANGED rows
         ELSE mem' = [m2 EXCEPT !.src[m2.head] = m2.head] /\ rows' = [rows EXCEPT ![0][m2.head] = cell.row]
      /\ kept' = [kept EXCEPT ![s] = 0] /\ UNCHANGED <<todo, saved>>
  BY DEF StateReadSeq, RestoreBatch
<1>4. kept' \in [SeqId -> 0 .. NRsSeq]
  BY <1>1, <1>3, KeptZero
<1> HIDE DEF m1
<1>5. CASE saved.cells = <<>>
  BY <1>1, <1>2, <1>3, <1>4, <1>5 DEF IInv
<1>6. CASE saved.cells # <<>>
  <2>1. cell \in SavedCell
    <3>1. saved.cells \in Seq(SavedCell)
      BY <1>1 DEF SavedOK
    <3>2. 1 \in 1 .. Len(saved.cells)
      BY <1>6, <3>1, EmptySeq, LenProperties
    <3> QED
      BY <3>1, <3>2, ElementOfSeq
  <2>2. cell.pos \in Pos /\ cell.row \in Row
    BY <2>1 DEF SavedCell
  <2> HIDE DEF cell
  <2>3. ub \in UBatch
    BY <2>2, RestoreBatchFacts
  <2> HIDE DEF ub
  <2>4. PICK lo, hi, x, g : Placing(m1, ub, lo, hi, x, g) /\ Staged(ub, lo, hi, g, f) /\ Sane(f.mem)
    BY <1>2, <2>3, FindSlotFacts
  <2> HIDE DEF f
  <2>5. /\ m2 \in Mem /\ m2.head = lo /\ lo \in Cell /\ lo \in lo .. hi
        /\ \A c \in Cell : m2.src[c] = IF c \in lo .. hi THEN c ELSE g.src[c]
    <3>1. lo \in Cell /\ hi \in Cell /\ lo + Len(ub.ids) - 1 <= hi
      BY <2>4 DEF Placing
    <3>2. lo \in lo .. hi
      BY <2>3, <3>1, UBatchFacts, CellFacts
    <3> QED
      BY <2>4, <3>1, <3>2 DEF Staged
  <2> HIDE DEF m2
  <2>6. [m2 EXCEPT !.src[m2.head] = m2.head] = m2
    <3>1. m2.src[m2.head] = m2.head
      BY <2>5
    <3> QED
      BY <2>5, <3>1 DEF Mem
  <2>7. ~m2.aborted /\ Sane(m2)
    BY <2>4 DEF Sane, m2
  <2>8. Sane(mem')
    BY <1>3, <1>6, <2>6, <2>7
  <2>9. rows' \in Rows
    <3>1. rows' = [rows EXCEPT ![0][m2.head] = cell.row]
      BY <1>3, <1>6, <2>7
    <3> QED
      BY <1>1, <2>2, <2>5, <3>1, CellFacts DEF Rows
  <2> QED
    BY <1>1, <1>3, <1>4, <2>8, <2>9 DEF IInv
<1> QED
  BY <1>5, <1>6

LEMMA StateReadAllStep ==
  ASSUME IInv, StateReadAll
  PROVE  IInv'
<1>1. SavedOK(saved) /\ saved.all
  BY DEF IInv, StateReadAll
<1>2. mem' = ReadCells(saved.cells)
  BY DEF StateReadAll, ReadCells
<1>3. Sane(mem')
  BY <1>1, <1>2, SaneRead
<1>4. rows' \in Rows
  <2>1. rows' = [g \in Group |-> [c \in Cell |-> IF g = 0 /\ c < Len(saved.cells)
                                                   THEN saved.cells[c + 1].row ELSE <<>>]]
    BY DEF StateReadAll
  <2>2. saved.cells \in Seq(SavedCell) /\ Len(saved.cells) \in Nat
    BY <1>1, LenProperties DEF SavedOK
  <2>3. \A c \in Cell : c < Len(saved.cells) => saved.cells[c + 1].row \in Row
    <3>1. SUFFICES ASSUME NEW c \in Cell, c < Len(saved.cells) PROVE saved.cells[c + 1].row \in Row
      OBVIOUS
    <3>2. c + 1 \in 1 .. Len(saved.cells)
      BY <2>2, <3>1, CellFacts
    <3>3. saved.cells[c + 1] \in SavedCell
      BY <2>2, <3>2, ElementOfSeq
    <3> QED
      BY <3>3 DEF SavedCell
  <2>4. <<>> \in Row
    BY EmptySeq DEF Row
  <2> QED
    BY <2>1, <2>3, <2>4 DEF Rows
<1>5. kept' \in [SeqId -> 0 .. NRsSeq]
  BY SizesAssumption DEF StateReadAll
<1> QED
  BY <1>3, <1>4, <1>5 DEF IInv, StateReadAll

LEMMA IInvNext == IInv /\ [Next]_vars => IInv'
<1> SUFFICES ASSUME IInv, [Next]_vars PROVE IInv'
  OBVIOUS
<1>1. ASSUME NEW data \in BOOLEAN, clear(data) PROVE IInv'
  BY <1>1, ClearStep
<1>2. ASSUME NEW s \in SeqId, NEW r \in RmRanges, SeqRmTail(s, r) PROVE IInv'
  BY <1>2, SeqRmTailStep
<1>3. ASSUME NEW s \in SeqId, NEW r \in RmRanges, SeqRm(s, r) PROVE IInv'
  BY <1>3, SeqRmStep
<1>4. ASSUME NEW src \in SeqId, NEW dst \in SeqId, SeqCp(src, dst) PROVE IInv'
  BY <1>4, SeqCpStep
<1>5. ASSUME NEW s \in SeqId, SeqKeep(s) PROVE IInv'
  BY <1>5, SeqKeepStep
<1>6. ASSUME NEW s \in SeqId, NEW r \in RmRanges, NEW d \in Deltas, SeqAdd(s, r, d) PROVE IInv'
  BY <1>6, SeqAddStep
<1>7. ASSUME NEW s \in SeqId, NEW r \in RmRanges, NEW d \in Divs, SeqDiv(s, r, d) PROVE IInv'
  BY <1>7, SeqDivStep
<1>8. ASSUME NEW s \in SeqId, StateWriteSeq(s) PROVE IInv'
  BY <1>8, StateWriteSeqStep
<1>9. ASSUME NEW s \in SeqId, StateReadSeq(s) PROVE IInv'
  BY <1>9, StateReadSeqStep
<1>10. ASSUME StateWriteAll PROVE IInv'
  BY <1>10, StateWriteAllStep
<1>11. ASSUME StateReadAll PROVE IInv'
  BY <1>11, StateReadAllStep
<1>12. ASSUME NEW batch \in Batches, Decode(batch) PROVE IInv'
  BY <1>12, DecodeStep
<1>13. ASSUME ProcessUbatch PROVE IInv'
  BY <1>13, ProcessUbatchStep
<1>14. ASSUME UNCHANGED vars PROVE IInv'
  BY <1>14 DEF IInv, vars
<1> QED
  BY <1>1, <1>2, <1>3, <1>4, <1>5, <1>6, <1>7, <1>8, <1>9, <1>10, <1>11, <1>12, <1>13, <1>14 DEF Next

LEMMA IInvAlways == Spec => []IInv
BY IInvInit, IInvNext, PTL DEF Spec

(* After every operation and restore, and between the micro-batches of a   *)
(* decode, the fields of the cells are in their ranges.                    *)
THEOREM TypesKept == Spec => []TypeOK
<1>1. IInv => TypeOK
  <2> SUFFICES ASSUME IInv PROVE TypeOK
    OBVIOUS
  <2>1. mem \in Mem /\ Counted(mem) /\ kept \in [SeqId -> 0 .. NRsSeq]
    BY DEF IInv, Sane
  <2>2. mem.used \in 0 .. Size
    <3>1. Full(mem) \in SUBSET Cell
      BY DEF Full
    <3> QED
      BY <2>1, <3>1, PartOfCells, SizesAssumption DEF Counted
  <2> QED
    BY <2>1, <2>2, CellFacts DEF TypeOK, Mem
<1> QED
  BY <1>1, IInvAlways, PTL

(* The tails are the sequences' cells, a cell has a position exactly when  *)
(* it has a sequence, and `used` counts these cells.                       *)
THEOREM TailsAlwaysRight == Spec => []TailsRight
<1>1. IInv => TailsRight
  BY DEF IInv, Sane, Tails, Positions, Counted, Full, TailsRight
<1> QED
  BY <1>1, IInvAlways, PTL

(* find_slot finds a cell for every leader and a row for every sequence    *)
(* that starts: no assertion fails.                                        *)
THEOREM NoAbort == Spec => []NeverAborts
<1>1. IInv => NeverAborts
  BY DEF IInv, Sane, NeverAborts
<1> QED
  BY <1>1, IInvAlways, PTL

-----------------------------------------------------------------------------
(* The states of the sequences, told by the rows.                          *)

Hist(m, w, s) == IF m.tail[s] = Nowhere THEN <<>> ELSE w[m.rs_idx[s]][m.tail[s]]
At(m, s) == IF m.tail[s] = Nowhere THEN -1 ELSE m.pos[m.tail[s]]
Shown(m, w) == [s \in SeqId |-> [hist |-> Hist(m, w, s), pos |-> At(m, s)]]

(* A sequence whose roll-back waits for a graph shares its cell with no    *)
(* other and has no snapshots to take back more.                           *)
Lonely(m, k) ==
  \A s \in SeqId : m.rs_idx[s] # 0 => m.tail[s] \in Cell /\ m.seqs[m.tail[s]] = {s} /\ k[s] = 0

(* An empty cell that has a row has a blank one.                           *)
Clean(m, w) == \A c \in Cell : m.seqs[c] = {} /\ m.src[c] = c => w[0][c] = <<>>

(* Groups 1 to n hold what the state of cell c was 1 to n tokens ago.      *)
Snapped(w, c, n) ==
  /\ n < MaxBatch /\ n < Len(w[0][c])
  /\ \A h \in 1 .. n : w[h][c] = SubSeq(w[0][c], 1, Len(w[0][c]) - h)

Snaps(m, w, k) == \A s \in SeqId : k[s] > 0 => m.tail[s] \in Cell /\ Snapped(w, m.tail[s], k[s])

(* The micro-batches to come cut a batch to its end, from what is left of  *)
(* it; what a group has consumed is what is not left.                      *)
CutOff(b, left, ub, next) ==
  \E chosen, len :
    /\ Picked(b, left, Len(b), chosen) /\ chosen # <<>> /\ len = EqualLen(left, chosen)
    /\ ub = UbatchOf(b, left, chosen, len) /\ next = LeftAfter(b, left, chosen, len)

Chain(b, L, ubs) ==
  /\ \A i \in 0 .. Len(ubs) : Lefts(b, L[i])
  /\ \A i \in 1 .. Len(ubs) : CutOff(b, L[i - 1], ubs[i], L[i])

Agrees(b, left, m, w) ==
  \A k \in 1 .. Len(b) : left[k] > 0 =>
    \A s \in ToSet(b[k].ids) :
      /\ At(m, s) = b[k].from + b[k].len - left[k] - 1
      /\ Hist(m, w, s) = Hist(m, w, b[k].ids[1])
      /\ \A t \in ToSet(b[k].ids) : s # t => m.rs_idx[s] = 0

Offered(b) == \A k \in 1 .. Len(b) : b[k].ids \in Groups

Coming(m, w, ubs) ==
  ubs # <<>> => \E b, L : GoodBatch(b) /\ Offered(b) /\ Chain(b, L, ubs) /\ Agrees(b, L[0], m, w)

HistInv ==
  /\ Lonely(mem, kept) /\ Clean(mem, rows) /\ Snaps(mem, rows, kept)
  /\ Coming(mem, rows, todo)

Chained(b, acc) ==
  /\ Splitting(b, acc)
  /\ \E L : Chain(b, L, acc.ubs) /\ L[0] = SplitFrom(b).left /\ L[Len(acc.ubs)] = acc.left

LEMMA ChainGrows ==
  ASSUME NEW b, NEW ubs \in Seq(UBatch), NEW L, Chain(b, L, ubs), NEW ub \in UBatch, NEW next,
         CutOff(b, L[Len(ubs)], ub, next), Lefts(b, next)
  PROVE  \E M : Chain(b, M, Append(ubs, ub)) /\ M[0] = L[0] /\ M[Len(ubs) + 1] = next
<1> DEFINE n == Len(ubs)
           M == [i \in 0 .. n + 1 |-> IF i = n + 1 THEN next ELSE L[i]]
           v == Append(ubs, ub)
<1>1. n \in Nat /\ Len(v) = n + 1 /\ v[n + 1] = ub /\ \A i \in 1 .. n : v[i] = ubs[i]
  BY AppendProperties, LenProperties
<1>2. /\ \A i \in 0 .. n : Lefts(b, L[i])
      /\ \A i \in 1 .. n : CutOff(b, L[i - 1], ubs[i], L[i])
  BY DEF Chain
<1>3. M[n + 1] = next /\ \A i \in 0 .. n : M[i] = L[i]
  BY <1>1
<1> HIDE DEF M, v
<1>4. \A i \in 0 .. n + 1 : Lefts(b, M[i])
  <2>1. SUFFICES ASSUME NEW i \in 0 .. n + 1 PROVE Lefts(b, M[i])
    OBVIOUS
  <2>2. i = n + 1 \/ i \in 0 .. n
    BY <1>1
  <2> QED
    BY <1>2, <1>3, <2>2
<1>5. \A i \in 1 .. n + 1 : CutOff(b, M[i - 1], v[i], M[i])
  <2>1. SUFFICES ASSUME NEW i \in 1 .. n + 1 PROVE CutOff(b, M[i - 1], v[i], M[i])
    OBVIOUS
  <2>2. CASE i = n + 1
    <3>1. n \in 0 .. n /\ i - 1 = n
      BY <1>1, <2>2
    <3>2. M[i - 1] = L[n] /\ v[i] = ub /\ M[i] = next
      BY <1>1, <1>3, <2>2, <3>1
    <3> QED
      BY <3>2
  <2>3. CASE i # n + 1
    <3>1. i \in 1 .. n /\ i - 1 \in 0 .. n /\ i \in 0 .. n
      BY <1>1, <2>1, <2>3
    <3>2. M[i - 1] = L[i - 1] /\ v[i] = ubs[i] /\ M[i] = L[i]
      BY <1>1, <1>3, <3>1
    <3> QED
      BY <1>2, <3>1, <3>2
  <2> QED
    BY <2>2, <2>3
<1>6. Chain(b, M, v)
  BY <1>1, <1>4, <1>5 DEF Chain
<1>7. M[0] = L[0]
  BY <1>1, <1>3
<1> QED
  BY <1>3, <1>6, <1>7 DEF v

LEMMA SplitOffChains ==
  ASSUME NEW b, GoodBatch(b), NEW acc, Chained(b, acc)
  PROVE  Chained(b, SplitOff(b, acc))
<1> DEFINE next == SplitOff(b, acc)
<1>1. Splitting(b, acc) /\ acc.ubs \in Seq(UBatch) /\ Lefts(b, acc.left)
  BY DEF Chained, Splitting
<1>2. Splitting(b, next)
  BY <1>1, SplitOffStays
<1>3. PICK L : Chain(b, L, acc.ubs) /\ L[0] = SplitFrom(b).left /\ L[Len(acc.ubs)] = acc.left
  BY DEF Chained
<1>4. CASE next # acc
  <2>1. SplitsOff(b, acc, next)
    BY <1>1, <1>4, SplitOffIs, Zenon
  <2> HIDE DEF next
  <2>2. PICK chosen, len :
          /\ Picked(b, acc.left, Len(b), chosen) /\ chosen # <<>> /\ len = EqualLen(acc.left, chosen)
          /\ next = [left |-> LeftAfter(b, acc.left, chosen, len),
                     ubs  |-> Append(acc.ubs, UbatchOf(b, acc.left, chosen, len))]
    BY <2>1 DEF SplitsOff
  <2> DEFINE ub == UbatchOf(b, acc.left, chosen, len)
             l == LeftAfter(b, acc.left, chosen, len)
  <2>3. ub \in UBatch /\ Lefts(b, l)
    BY <1>1, <2>2, UbatchFacts
  <2>4. CutOff(b, L[Len(acc.ubs)], ub, l)
    BY <1>3, <2>2 DEF CutOff
  <2>5. next = [left |-> l, ubs |-> Append(acc.ubs, ub)]
    BY <2>2
  <2> HIDE DEF ub, l
  <2>6. PICK M : Chain(b, M, Append(acc.ubs, ub)) /\ M[0] = L[0] /\ M[Len(acc.ubs) + 1] = l
    BY <1>1, <1>3, <2>3, <2>4, ChainGrows
  <2>7. next.left = l /\ next.ubs = Append(acc.ubs, ub)
    BY <2>5
  <2>8. Len(next.ubs) = Len(acc.ubs) + 1
    BY <1>1, <2>3, <2>7, AppendProperties
  <2>9. Chain(b, M, next.ubs) /\ M[0] = SplitFrom(b).left /\ M[Len(next.ubs)] = next.left
    BY <1>3, <2>6, <2>7, <2>8
  <2>10. Chained(b, next)
    BY <1>2, <2>9 DEF Chained, next
  <2> QED
    BY <2>10 DEF next
<1>5. CASE next = acc
  BY <1>5
<1> QED
  BY <1>4, <1>5

LEMMA SplitFromChained ==
  ASSUME NEW b, GoodBatch(b)
  PROVE  Chained(b, SplitFrom(b))
<1> DEFINE l == [k \in DOMAIN b |-> b[k].len]
           z == [left |-> l, ubs |-> <<>>]
           L == [i \in 0 .. 0 |-> l]
<1>1. \A k \in 1 .. Len(b) : b[k].len \in Nat
  <2>1. \A k \in 1 .. Len(b) : b[k] \in BatchItem
    BY ElementOfSeq DEF GoodBatch
  <2> QED
    BY <2>1, BoundsAssumption DEF BatchItem
<1>2. Lefts(b, l)
  BY <1>1, LenProperties DEF GoodBatch, Lefts
<1>3. L[0] = l
  OBVIOUS
<1> HIDE DEF l
<1>4. z.left = l /\ z.ubs = <<>>
  OBVIOUS
<1>5. Splitting(b, z)
  BY <1>2, <1>4, EmptySeq DEF Splitting
<1> HIDE DEF L
<1>6. Chain(b, L, z.ubs)
  <2>1. Len(z.ubs) = 0 /\ \A i \in 0 .. 0 : i = 0
    BY <1>4, EmptySeq
  <2>2. \A i \in 1 .. 0 : FALSE
    OBVIOUS
  <2> QED
    BY <1>2, <1>3, <2>1, <2>2 DEF Chain
<1>7. L[Len(z.ubs)] = l
  BY <1>3, <1>4, EmptySeq
<1>8. z = SplitFrom(b)
  BY DEF SplitFrom, l
<1> QED
  BY <1>3, <1>4, <1>5, <1>6, <1>7, <1>8 DEF Chained

LEMMA SplitChain ==
  ASSUME NEW b, GoodBatch(b)
  PROVE  \E L : Chain(b, L, Split(b)) /\ L[0] = SplitFrom(b).left
<1> DEFINE Accs == [left : [1 .. Len(b) -> Nat], ubs : Seq(UBatch)]
           I == {p \in Nat \X Accs : Chained(b, p[2])}
<1>1. \A x : Chained(b, x) => x \in Accs
  BY DEF Chained, Splitting, Lefts
<1> HIDE DEF Accs
<1>2. \A k \in Nat : \A x : Chained(b, x) => <<k, x>> \in I
  BY <1>1
<1>3. \A k, x : <<k, x>> \in I => Chained(b, x)
  OBVIOUS
<1> HIDE DEF I
<1>4. \A k \in 1 .. MaxBatch * MaxGroups : \A x : <<k - 1, x>> \in I => <<k, SplitOff(b, x)>> \in I
  <2>1. MaxBatch * MaxGroups \in Nat
    BY BoundsAssumption
  <2>2. \A k \in 1 .. MaxBatch * MaxGroups : k \in Nat
    BY <2>1
  <2> QED
    BY <1>2, <1>3, <2>2, SplitOffChains, Zenon
<1>5. PICK x : <<MaxBatch * MaxGroups, x>> \in I /\ Split(b) = x.ubs
  <2>1. <<0, SplitFrom(b)>> \in I
    BY <1>2, SplitFromChained
  <2> QED
    BY <1>4, <2>1, SplitWithin
<1>6. Chained(b, x)
  BY <1>3, <1>5
<1> QED
  BY <1>5, <1>6 DEF Chained

-----------------------------------------------------------------------------
(* Operations that compute nothing.                                        *)

LEMMA AbsStateIs ==
  ASSUME Sane(mem)
  PROVE  AbsState = Shown(mem, rows)
<1>1. ASSUME NEW s \in SeqId, mem.tail[s] # Nowhere
      PROVE  mem.src[mem.tail[s]] = mem.tail[s]
  <2>1. mem.tail[s] \in Cell /\ s \in mem.seqs[mem.tail[s]]
    BY <1>1 DEF Sane, Mem, Tails
  <2> QED
    BY <2>1 DEF Sane, AtHome
<1>2. \A s \in SeqId : StateOf(s) = Hist(mem, rows, s)
  BY <1>1 DEF StateOf, Hist
<1> QED
  BY <1>2 DEF AbsState, Shown, At

LEMMA AbsStateIsNext ==
  ASSUME Sane(mem')
  PROVE  AbsState' = Shown(mem', rows')
<1>1. ASSUME NEW s \in SeqId, mem'.tail[s] # Nowhere
      PROVE  mem'.src[mem'.tail[s]] = mem'.tail[s]
  <2>1. mem'.tail[s] \in Cell /\ s \in mem'.seqs[mem'.tail[s]]
    BY <1>1 DEF Sane, Mem, Tails
  <2> QED
    BY <2>1 DEF Sane, AtHome
<1>2. \A s \in SeqId : StateOf(s)' = Hist(mem', rows', s)
  BY <1>1 DEF StateOf, Hist
<1> QED
  BY <1>2 DEF AbsState, Shown, At

LEMMA ShownFacts ==
  ASSUME NEW m, NEW w, NEW F, F = Shown(m, w)
  PROVE  /\ F = [s \in SeqId |-> F[s]]
         /\ \A s \in SeqId : F[s] = [hist |-> Hist(m, w, s), pos |-> At(m, s)]
BY DEF Shown

LEMMA OneChanges ==
  ASSUME NEW S, NEW F, NEW G, F = [u \in S |-> F[u]], G = [u \in S |-> G[u]], NEW s \in S,
         \A u \in S : u # s => G[u] = F[u]
  PROVE  G = [F EXCEPT ![s] = G[s]]
<1> DEFINE H == [F EXCEPT ![s] = G[s]]
<1>1. H = [u \in S |-> H[u]] /\ \A u \in S : H[u] = IF u = s THEN G[s] ELSE F[u]
  OBVIOUS
<1> HIDE DEF H
<1>2. \A u \in S : H[u] = G[u]
  BY <1>1
<1>3. H = G
  BY <1>1, <1>2
<1> QED
  BY <1>3 DEF H

(* A sequence keeps its place, or it has nothing to take back.             *)
Calm(m, k, x, l) ==
  \A u \in SeqId :
    \/ /\ x.tail[u] = m.tail[u] /\ x.rs_idx[u] = m.rs_idx[u] /\ l[u] \in {k[u], 0}
       /\ m.rs_idx[u] # 0 /\ m.seqs[m.tail[u]] = {u} => x.seqs[m.tail[u]] = {u}
    \/ /\ l[u] = 0
       /\ x.rs_idx[u] # 0 => x.tail[u] \in Cell /\ x.seqs[x.tail[u]] = {u}

Cleaner(m, x) ==
  \A c \in Cell : x.seqs[c] = {} /\ x.src[c] = c => m.seqs[c] = {} /\ m.src[c] = c

LEMMA QuietStep ==
  ASSUME HistInv, rows' = rows, todo' = <<>>, Calm(mem, kept, mem', kept'), Cleaner(mem, mem')
  PROVE  HistInv'
<1>1. Lonely(mem, kept) /\ Clean(mem, rows) /\ Snaps(mem, rows, kept)
  BY DEF HistInv
<1>2. Lonely(mem', kept')
  <2> SUFFICES ASSUME NEW u \in SeqId, mem'.rs_idx[u] # 0
               PROVE  mem'.tail[u] \in Cell /\ mem'.seqs[mem'.tail[u]] = {u} /\ kept'[u] = 0
    BY DEF Lonely
  <2>1. CASE /\ mem'.tail[u] = mem.tail[u] /\ mem'.rs_idx[u] = mem.rs_idx[u] /\ kept'[u] \in {kept[u], 0}
             /\ mem.rs_idx[u] # 0 /\ mem.seqs[mem.tail[u]] = {u} => mem'.seqs[mem.tail[u]] = {u}
    BY <1>1, <2>1 DEF Lonely
  <2>2. CASE /\ kept'[u] = 0
             /\ mem'.rs_idx[u] # 0 => mem'.tail[u] \in Cell /\ mem'.seqs[mem'.tail[u]] = {u}
    BY <2>2
  <2> QED
    BY <2>1, <2>2 DEF Calm
<1>3. Clean(mem', rows')
  BY <1>1 DEF Clean, Cleaner
<1>4. Snaps(mem', rows', kept')
  <2> SUFFICES ASSUME NEW u \in SeqId, kept'[u] > 0
               PROVE  mem'.tail[u] \in Cell /\ Snapped(rows', mem'.tail[u], kept'[u])
    BY DEF Snaps
  <2>1. kept'[u] # 0
    OBVIOUS
  <2>2. mem'.tail[u] = mem.tail[u] /\ kept'[u] = kept[u]
    BY <2>1 DEF Calm
  <2>3. mem.tail[u] \in Cell /\ Snapped(rows, mem.tail[u], kept[u])
    BY <1>1, <2>2 DEF Snaps
  <2> QED
    BY <2>2, <2>3
<1>5. Coming(mem', rows', todo')
  BY DEF Coming
<1> QED
  BY <1>2, <1>3, <1>4, <1>5 DEF HistInv

(* No sequence is rolled back, and no empty cell has a row.                *)
LEMMA AfreshStep ==
  ASSUME \A u \in SeqId : mem'.rs_idx[u] = 0 /\ kept'[u] = 0,
         \A c \in Cell : mem'.seqs[c] = {} => mem'.src[c] # c,
         todo' = <<>>
  PROVE  HistInv'
<1>1. Lonely(mem', kept') /\ Clean(mem', rows') /\ Snaps(mem', rows', kept')
  BY DEF Lonely, Clean, Snaps
<1>2. Coming(mem', rows', todo')
  BY DEF Coming
<1> QED
  BY <1>1, <1>2 DEF HistInv

LEMMA SavedStays == saved' = saved => AbsSaved' = AbsSaved
BY DEF AbsSaved

StoreNext == [Store!Next]_<<AbsState, AbsSaved>>

LEMMA HistInvInit == Init => HistInv
<1> SUFFICES ASSUME Init PROVE HistInv
  OBVIOUS
<1>1. /\ \A u \in SeqId : mem.rs_idx[u] = 0 /\ kept[u] = 0
      /\ \A c \in Cell : mem.src[c] = Nowhere /\ c # Nowhere
  BY CellFacts DEF Init, NoCells
<1>2. Lonely(mem, kept) /\ Clean(mem, rows) /\ Snaps(mem, rows, kept)
  BY <1>1 DEF Lonely, Clean, Snaps
<1>3. Coming(mem, rows, todo)
  BY DEF Init, Coming
<1> QED
  BY <1>2, <1>3 DEF HistInv

LEMMA StoreInit == Init => Store!Init
<1> SUFFICES ASSUME Init PROVE Store!Init
  OBVIOUS
<1>1. \A s \in SeqId : mem.tail[s] = Nowhere
  BY DEF Init, NoCells
<1>2. AbsState = [s \in SeqId |-> Store!Fresh]
  BY <1>1 DEF AbsState, StateOf, Store!Fresh
<1>3. saved.all = FALSE /\ DOMAIN saved.cells = {}
  BY DEF Init
<1>4. AbsSaved = [all |-> FALSE, of |-> [s \in SeqId |-> Store!Fresh]]
  BY <1>3 DEF AbsSaved, Store!Fresh
<1> QED
  BY <1>2, <1>4 DEF Store!Init

LEMMA ClearShows ==
  ASSUME IInv, NEW data \in BOOLEAN, clear(data)
  PROVE  HistInv' /\ StoreNext
<1>1. mem' = NoCells /\ todo' = <<>> /\ saved' = saved /\ kept' = [s \in SeqId |-> 0]
  BY DEF clear, Ready
<1>2. /\ \A u \in SeqId : mem'.rs_idx[u] = 0 /\ kept'[u] = 0 /\ mem'.tail[u] = Nowhere
      /\ \A c \in Cell : mem'.src[c] # c
  BY <1>1, CellFacts DEF NoCells
<1>3. HistInv'
  BY <1>1, <1>2, AfreshStep
<1>4. AbsState' = [s \in SeqId |-> Store!Fresh]
  BY <1>2 DEF AbsState, StateOf, Store!Fresh
<1>5. Store!Clear
  BY <1>1, <1>4, SavedStays DEF Store!Clear
<1> QED
  BY <1>3, <1>5 DEF StoreNext, Store!Next

(* A sequence that stays where it is keeps its state.                      *)
LEMMA StaysShown ==
  ASSUME NEW m, NEW x, Sane(x), NEW u \in SeqId, NEW w,
         x.tail[u] = m.tail[u], x.rs_idx[u] = m.rs_idx[u],
         \A c \in Cell : x.seqs[c] # {} => x.pos[c] = m.pos[c]
  PROVE  Hist(x, w, u) = Hist(m, w, u) /\ At(x, u) = At(m, u)
<1>1. x.tail[u] # Nowhere => x.pos[x.tail[u]] = m.pos[x.tail[u]]
  <2> SUFFICES ASSUME x.tail[u] # Nowhere PROVE x.pos[x.tail[u]] = m.pos[x.tail[u]]
    OBVIOUS
  <2>1. x.tail[u] \in Cell
    BY DEF Sane, Mem
  <2>2. u \in x.seqs[x.tail[u]]
    BY <2>1 DEF Sane, Tails
  <2> QED
    BY <2>1, <2>2
<1> QED
  BY <1>1 DEF Hist, At

LEMMA SeqRmTailShows ==
  ASSUME Careful, IInv, IInv', HistInv, NEW s \in SeqId, NEW r \in RmRanges, SeqRmTail(s, r)
  PROVE  HistInv' /\ StoreNext
<1> DEFINE k == Rollback(mem, s, r)
           t == mem.tail[s]
           F == Shown(mem, rows)
           G == Shown(mem', rows')
<1>1. /\ Sane(mem) /\ Sane(mem') /\ r \in Int \X Int /\ Cuts(mem, s, r) /\ k <= NRsSeq
      /\ k <= kept[s] /\ Alone(s) /\ mem' = RolledBack(mem, s, r)
      /\ kept' = [kept EXCEPT ![s] = 0] /\ rows' = rows /\ saved' = saved /\ todo' = <<>>
      /\ kept \in [SeqId -> 0 .. NRsSeq]
  BY RangesAssumption DEF IInv, SeqRmTail, Ready
<1>2. TakenBack(mem, s, r, mem')
  <2>1. TakenBack(mem, s, r, RolledBack(mem, s, r))
    BY <1>1, SaneRolledBack
  <2> QED
    BY <1>1, <2>1
<1> HIDE DEF k
<1>3. /\ mem'.tail = mem.tail /\ mem'.seqs = mem.seqs /\ mem'.src = mem.src
      /\ t \in Cell /\ k \in Group \ {0}
      /\ \A u \in SeqId : mem'.rs_idx[u] = IF u = s THEN k ELSE mem.rs_idx[u]
      /\ \A c \in Cell : mem'.pos[c] = IF c = t THEN mem.pos[c] - k ELSE mem.pos[c]
  BY <1>2 DEF TakenBack, k
<1>4. k \in Nat /\ k > 0 /\ kept[s] \in Nat /\ kept[s] > 0 /\ k \in 1 .. kept[s]
  BY <1>1, <1>3, SizesAssumption DEF Group
<1>5. mem.seqs[t] = {s} /\ \A u \in SeqId : u # s => mem.tail[u] # t
  BY <1>1, <1>3 DEF Alone, Sane, Tails
<1>6. mem.rs_idx[s] = 0 /\ Snapped(rows, t, kept[s])
  BY <1>4 DEF HistInv, Lonely, Snaps
<1>7. HistInv'
  <2>1. Calm(mem, kept, mem', kept')
    <3> SUFFICES ASSUME NEW u \in SeqId
                 PROVE  \/ /\ mem'.tail[u] = mem.tail[u] /\ mem'.rs_idx[u] = mem.rs_idx[u]
                           /\ kept'[u] \in {kept[u], 0}
                           /\ mem.rs_idx[u] # 0 /\ mem.seqs[mem.tail[u]] = {u} => mem'.seqs[mem.tail[u]] = {u}
                        \/ /\ kept'[u] = 0
                           /\ mem'.rs_idx[u] # 0 => mem'.tail[u] \in Cell /\ mem'.seqs[mem'.tail[u]] = {u}
      BY DEF Calm
    <3>1. CASE u = s
      <4>1. kept'[s] = 0
        BY <1>1
      <4> QED
        BY <1>3, <1>5, <3>1, <4>1
    <3>2. CASE u # s
      <4>1. kept'[u] = kept[u]
        BY <1>1, <3>2
      <4> QED
        BY <1>3, <3>2, <4>1
    <3> QED
      BY <3>1, <3>2
  <2>2. Cleaner(mem, mem')
    BY <1>3 DEF Cleaner
  <2> QED
    BY <1>1, <2>1, <2>2, QuietStep
<1>8. AbsState = F /\ AbsState' = G
  BY <1>1, AbsStateIs, AbsStateIsNext
<1>9. F = [u \in SeqId |-> F[u]] /\ G = [u \in SeqId |-> G[u]]
  BY DEF Shown
<1>10. ASSUME NEW u \in SeqId, u # s
       PROVE  G[u] = F[u]
  <2>1. Hist(mem', rows', u) = Hist(mem, rows, u)
    BY <1>1, <1>3, <1>10 DEF Hist
  <2>2. At(mem', u) = At(mem, u)
    <3>1. mem.tail[u] # t /\ mem.tail[u] \in Cell \cup {Nowhere}
      BY <1>1, <1>5, <1>10 DEF Sane, Mem
    <3> QED
      BY <1>3, <3>1 DEF At
  <2> QED
    BY <2>1, <2>2 DEF Shown
<1>11. G[s] = Store!Drop(F[s], k) /\ k < Len(F[s].hist)
  <2>1. t # Nowhere
    BY <1>3, CellFacts
  <2>2. Hist(mem, rows, s) = rows[0][t] /\ Hist(mem', rows', s) = rows[k][t]
    BY <1>1, <1>3, <1>6, <2>1 DEF Hist
  <2>3. At(mem, s) = mem.pos[t] /\ At(mem', s) = mem.pos[t] - k
    BY <1>3, <2>1 DEF At
  <2>4. rows[k][t] = SubSeq(rows[0][t], 1, Len(rows[0][t]) - k) /\ kept[s] < Len(rows[0][t])
    BY <1>4, <1>6 DEF Snapped
  <2>5. rows[0][t] \in Row
    BY <1>3, CellFacts DEF IInv, Rows
  <2>6. Len(rows[0][t]) \in Nat
    BY <2>5, LenProperties DEF Row
  <2>7. k < Len(rows[0][t])
    BY <1>4, <2>4, <2>6
  <2>8. F[s].hist = rows[0][t] /\ F[s].pos = mem.pos[t]
    BY <2>2, <2>3 DEF Shown
  <2>9. G[s] = [hist |-> rows[k][t], pos |-> mem.pos[t] - k]
    BY <2>2, <2>3 DEF Shown
  <2> HIDE DEF F, G
  <2> QED
    BY <2>4, <2>7, <2>8, <2>9 DEF Store!Drop
<1> HIDE DEF F, G
<1>12. G = [F EXCEPT ![s] = G[s]]
  BY <1>9, <1>10, OneChanges
<1>13. G = [F EXCEPT ![s] = Store!Drop(@, k)]
  BY <1>11, <1>12
<1>14. k \in 1 .. MaxBatch
  BY <1>4, <1>6, BoundsAssumption DEF Snapped
<1>15. Store!TakeBack(s, k)
  BY <1>1, <1>8, <1>11, <1>13, SavedStays DEF Store!TakeBack
<1> QED
  BY <1>7, <1>14, <1>15 DEF StoreNext, Store!Next

LEMMA SeqRmShows ==
  ASSUME IInv, IInv', HistInv, NEW s \in SeqId, NEW r \in RmRanges, SeqRm(s, r)
  PROVE  HistInv' /\ StoreNext
<1> DEFINE hit == mem.tail[s] # Nowhere /\ InRange(mem.pos[mem.tail[s]], r)
           F == Shown(mem, rows)
           G == Shown(mem', rows')
<1>1. /\ Sane(mem) /\ Sane(mem') /\ mem' = Removed(mem, s, r)
      /\ kept' = IF mem'.tail[s] = Nowhere THEN [kept EXCEPT ![s] = 0] ELSE kept
      /\ rows' = rows /\ saved' = saved /\ todo' = <<>>
      /\ kept \in [SeqId -> 0 .. NRsSeq]
  BY DEF IInv, SeqRm, Ready
<1>2. /\ mem'.rs_idx = IF hit THEN [mem.rs_idx EXCEPT ![s] = 0] ELSE mem.rs_idx
      /\ mem'.tail = IF hit THEN [mem.tail EXCEPT ![s] = Nowhere] ELSE mem.tail
      /\ \A c \in Cell :
           /\ mem'.seqs[c] \in {mem.seqs[c], mem.seqs[c] \ {s}}
           /\ mem'.seqs[c] # {} => mem'.pos[c] = mem.pos[c]
           /\ mem.seqs[c] = {} => mem'.src[c] = mem.src[c]
           /\ mem.seqs[c] # {} /\ mem'.seqs[c] = {} => mem'.src[c] = Nowhere
  <2> DEFINE x == Removed(mem, s, r)
  <2>1. Gone(mem, s, r, x)
    BY <1>1, SaneRemoved
  <2>3. mem' = x
    BY <1>1
  <2> HIDE DEF x
  <2> QED
    BY <2>1, <2>3 DEF Gone
<1> HIDE DEF hit
<1>3. mem \in Mem /\ mem' \in Mem
  BY <1>1 DEF Sane
<1>4. \A u \in SeqId : u # s \/ ~hit => mem'.tail[u] = mem.tail[u] /\ mem'.rs_idx[u] = mem.rs_idx[u]
  BY <1>2, <1>3 DEF Mem
<1>5. hit => mem'.tail[s] = Nowhere /\ mem'.rs_idx[s] = 0
  BY <1>2, <1>3 DEF Mem
<1>6. \A u \in SeqId : kept'[u] \in {kept[u], 0} /\ (mem'.tail[s] = Nowhere => kept'[s] = 0)
  BY <1>1
<1>7. ASSUME NEW u \in SeqId, u # s \/ ~hit, mem.rs_idx[u] # 0, mem.seqs[mem.tail[u]] = {u}
      PROVE  mem'.seqs[mem.tail[u]] = {u}
  <2>1. mem.tail[u] \in Cell
    BY <1>7 DEF HistInv, Lonely
  <2>2. u \in mem'.seqs[mem.tail[u]]
    BY <1>1, <1>4, <1>7, <2>1 DEF Sane, Tails
  <2>3. mem'.seqs[mem.tail[u]] \in {{u}, {u} \ {s}}
    BY <1>2, <1>7, <2>1
  <2> QED
    BY <2>2, <2>3
<1>8. HistInv'
  <2>1. Calm(mem, kept, mem', kept')
    <3> SUFFICES ASSUME NEW u \in SeqId
                 PROVE  \/ /\ mem'.tail[u] = mem.tail[u] /\ mem'.rs_idx[u] = mem.rs_idx[u]
                           /\ kept'[u] \in {kept[u], 0}
                           /\ mem.rs_idx[u] # 0 /\ mem.seqs[mem.tail[u]] = {u} => mem'.seqs[mem.tail[u]] = {u}
                        \/ /\ kept'[u] = 0
                           /\ mem'.rs_idx[u] # 0 => mem'.tail[u] \in Cell /\ mem'.seqs[mem'.tail[u]] = {u}
      BY DEF Calm
    <3>1. CASE u = s /\ hit
      BY <1>5, <1>6, <3>1
    <3>2. CASE u # s \/ ~hit
      BY <1>4, <1>6, <1>7, <3>2
    <3> QED
      BY <3>1, <3>2
  <2>2. Cleaner(mem, mem')
    BY <1>2, CellFacts DEF Cleaner
  <2> QED
    BY <1>1, <2>1, <2>2, QuietStep
<1>9. AbsState = F /\ AbsState' = G
  BY <1>1, AbsStateIs, AbsStateIsNext
<1>10. F = [u \in SeqId |-> F[u]] /\ G = [u \in SeqId |-> G[u]]
  BY DEF Shown
<1>11. \A u \in SeqId : u # s \/ ~hit => G[u] = F[u]
  <2> SUFFICES ASSUME NEW u \in SeqId, u # s \/ ~hit PROVE G[u] = F[u]
    OBVIOUS
  <2>1. mem'.tail[u] = mem.tail[u] /\ mem'.rs_idx[u] = mem.rs_idx[u]
    BY <1>4
  <2>2. \A c \in Cell : mem'.seqs[c] # {} => mem'.pos[c] = mem.pos[c]
    BY <1>2
  <2>3. Hist(mem', rows', u) = Hist(mem, rows', u) /\ At(mem', u) = At(mem, u)
    BY <1>1, <2>1, <2>2, StaysShown
  <2> QED
    BY <1>1, <2>3 DEF Shown
<1>12. hit => G[s] = Store!Fresh
  BY <1>5 DEF Shown, Hist, At, Store!Fresh
<1> HIDE DEF F, G
<1>13. CASE hit
  <2>1. G = [F EXCEPT ![s] = G[s]]
    BY <1>10, <1>11, OneChanges
  <2>2. Store!Forget(s)
    BY <1>1, <1>9, <1>12, <1>13, <2>1, SavedStays DEF Store!Forget
  <2> QED
    BY <1>8, <2>2 DEF StoreNext, Store!Next
<1>14. CASE ~hit
  <2>1. G = F
    BY <1>10, <1>11, <1>14
  <2>2. UNCHANGED <<AbsState, AbsSaved>>
    BY <1>1, <1>9, <2>1, SavedStays
  <2> QED
    BY <1>8, <2>2 DEF StoreNext
<1> QED
  BY <1>13, <1>14

LEMMA SeqCpShows ==
  ASSUME IInv, IInv', HistInv, NEW src \in SeqId, NEW dst \in SeqId, SeqCp(src, dst)
  PROVE  HistInv' /\ StoreNext
<1> DEFINE F == Shown(mem, rows)
           G == Shown(mem', rows')
           t == mem.tail[src]
<1>1. /\ Sane(mem) /\ Sane(mem') /\ mem' = Copied(mem, src, dst) /\ src # dst
      /\ mem.rs_idx[src] = 0 /\ mem.rs_idx[dst] = 0
      /\ kept' = [kept EXCEPT ![dst] = 0]
      /\ rows' = rows /\ saved' = saved /\ todo' = <<>>
      /\ kept \in [SeqId -> 0 .. NRsSeq]
  BY DEF IInv, SeqCp, Ready, Settled
<1>2. Joins(mem, src, dst, mem')
  <2>1. Joins(mem, src, dst, Copied(mem, src, dst))
    BY <1>1, SaneCopied
  <2> QED
    BY <1>1, <2>1
<1>3. /\ mem'.rs_idx = mem.rs_idx
      /\ \A u \in SeqId : mem'.tail[u] = IF u = dst THEN t ELSE mem.tail[u]
      /\ \A c \in Cell : mem'.seqs[c] = IF c = t THEN mem.seqs[c] \cup {dst} ELSE mem.seqs[c] \ {dst}
      /\ \A c \in Cell : mem'.seqs[c] # {} => mem'.pos[c] = mem.pos[c]
      /\ \A c \in Cell : mem'.seqs[c] = {} => mem'.src[c] = IF mem.seqs[c] # {} THEN Nowhere ELSE mem.src[c]
  BY <1>2 DEF Joins
<1>4. \A u \in SeqId : kept'[u] = IF u = dst THEN 0 ELSE kept[u]
  BY <1>1
<1>5. ASSUME NEW u \in SeqId, u # dst, mem.rs_idx[u] # 0, mem.seqs[mem.tail[u]] = {u}
      PROVE  mem'.seqs[mem.tail[u]] = {u}
  <2>1. mem.tail[u] \in Cell
    BY <1>5 DEF HistInv, Lonely
  <2>2. mem.tail[u] # t
    <3>1. SUFFICES ASSUME mem.tail[u] = t PROVE FALSE
      OBVIOUS
    <3>2. src \in mem.seqs[mem.tail[u]]
      BY <1>1, <2>1, <3>1 DEF Sane, Tails
    <3> QED
      BY <1>1, <1>5, <3>2
  <2>3. mem'.seqs[mem.tail[u]] = mem.seqs[mem.tail[u]] \ {dst}
    <3>1. \A c \in Cell : c # t => mem'.seqs[c] = mem.seqs[c] \ {dst}
      BY <1>3
    <3> QED
      BY <2>1, <2>2, <3>1
  <2> QED
    BY <1>5, <2>3
<1>6. HistInv'
  <2>1. Calm(mem, kept, mem', kept')
    <3> SUFFICES ASSUME NEW u \in SeqId
                 PROVE  \/ /\ mem'.tail[u] = mem.tail[u] /\ mem'.rs_idx[u] = mem.rs_idx[u]
                           /\ kept'[u] \in {kept[u], 0}
                           /\ mem.rs_idx[u] # 0 /\ mem.seqs[mem.tail[u]] = {u} => mem'.seqs[mem.tail[u]] = {u}
                        \/ /\ kept'[u] = 0
                           /\ mem'.rs_idx[u] # 0 => mem'.tail[u] \in Cell /\ mem'.seqs[mem'.tail[u]] = {u}
      BY DEF Calm
    <3>1. CASE u = dst
      BY <1>1, <1>3, <1>4, <3>1
    <3>2. CASE u # dst
      BY <1>3, <1>4, <1>5, <3>2
    <3> QED
      BY <3>1, <3>2
  <2>2. Cleaner(mem, mem')
    BY <1>3, CellFacts DEF Cleaner
  <2> QED
    BY <1>1, <2>1, <2>2, QuietStep
<1>7. AbsState = F /\ AbsState' = G
  BY <1>1, AbsStateIs, AbsStateIsNext
<1>8. F = [u \in SeqId |-> F[u]] /\ G = [u \in SeqId |-> G[u]]
  BY DEF Shown
<1>9. ASSUME NEW u \in SeqId, u # dst
      PROVE  G[u] = F[u]
  <2>1. mem'.tail[u] = mem.tail[u] /\ mem'.rs_idx[u] = mem.rs_idx[u]
    BY <1>3, <1>9
  <2>2. \A c \in Cell : mem'.seqs[c] # {} => mem'.pos[c] = mem.pos[c]
    BY <1>3
  <2>3. Sane(mem')
    BY <1>1
  <2>4. Hist(mem', rows', u) = Hist(mem, rows', u) /\ At(mem', u) = At(mem, u)
    BY <2>1, <2>2, <2>3, StaysShown
  <2> QED
    BY <1>1, <2>4 DEF Shown
<1>10. G[dst] = F[src]
  <2>1. mem'.tail[dst] = t /\ mem'.tail[src] = t /\ mem'.rs_idx[dst] = mem'.rs_idx[src]
    BY <1>1, <1>3
  <2>2. G[dst] = G[src]
    BY <2>1 DEF Shown, Hist, At
  <2> QED
    BY <1>1, <1>9, <2>2
<1> HIDE DEF F, G
<1>11. G = [F EXCEPT ![dst] = F[src]]
  BY <1>8, <1>9, <1>10, OneChanges
<1>12. Store!Copy(src, dst)
  BY <1>1, <1>7, <1>11, SavedStays DEF Store!Copy
<1> QED
  BY <1>6, <1>12 DEF StoreNext, Store!Next

LEMMA SeqKeepShows ==
  ASSUME IInv, IInv', HistInv, NEW s \in SeqId, SeqKeep(s)
  PROVE  HistInv' /\ StoreNext
<1> DEFINE F == Shown(mem, rows)
           G == Shown(mem', rows')
<1>1. /\ Sane(mem) /\ Sane(mem') /\ mem' = KeptOnly(mem, s)
      /\ \A u \in SeqId : u # s => mem.rs_idx[u] = 0
      /\ \A u \in SeqId : kept'[u] = IF u = s THEN kept[u] ELSE 0
      /\ rows' = rows /\ saved' = saved /\ todo' = <<>>
  BY DEF IInv, SeqKeep, Ready, Settled
<1>2. OnlyOne(mem, s, mem')
  <2>1. OnlyOne(mem, s, KeptOnly(mem, s))
    BY <1>1, SaneKept
  <2> QED
    BY <1>1, <2>1
<1>3. /\ mem'.rs_idx = mem.rs_idx
      /\ \A u \in SeqId : mem'.tail[u] = IF u = s THEN mem.tail[u] ELSE Nowhere
      /\ \A c \in Cell : mem'.seqs[c] # {} => mem'.pos[c] = mem.pos[c]
      /\ \A c \in Cell : s \in mem.seqs[c] => mem'.seqs[c] = {s}
      /\ \A c \in Cell : mem'.seqs[c] = {} => mem'.src[c] = Nowhere
  BY <1>2 DEF OnlyOne
<1>4. HistInv'
  <2>1. Calm(mem, kept, mem', kept')
    <3> SUFFICES ASSUME NEW u \in SeqId
                 PROVE  \/ /\ mem'.tail[u] = mem.tail[u] /\ mem'.rs_idx[u] = mem.rs_idx[u]
                           /\ kept'[u] \in {kept[u], 0}
                           /\ mem.rs_idx[u] # 0 /\ mem.seqs[mem.tail[u]] = {u} => mem'.seqs[mem.tail[u]] = {u}
                        \/ /\ kept'[u] = 0
                           /\ mem'.rs_idx[u] # 0 => mem'.tail[u] \in Cell /\ mem'.seqs[mem'.tail[u]] = {u}
      BY DEF Calm
    <3>1. CASE u = s
      <4>1. mem.rs_idx[u] # 0 /\ mem.seqs[mem.tail[u]] = {u} => mem'.seqs[mem.tail[u]] = {u}
        BY <1>3, <3>1 DEF HistInv, Lonely
      <4> QED
        BY <1>1, <1>3, <3>1, <4>1
    <3>2. CASE u # s
      BY <1>1, <1>3, <3>2
    <3> QED
      BY <3>1, <3>2
  <2>2. Cleaner(mem, mem')
    BY <1>3, CellFacts DEF Cleaner
  <2> QED
    BY <1>1, <2>1, <2>2, QuietStep
<1>5. AbsState = F /\ AbsState' = G
  BY <1>1, AbsStateIs, AbsStateIsNext
<1>6. G = [u \in SeqId |-> G[u]]
  BY DEF Shown
<1>7. G[s] = F[s]
  <2>1. mem'.tail[s] = mem.tail[s] /\ mem'.rs_idx[s] = mem.rs_idx[s]
    BY <1>3
  <2>2. Hist(mem', rows', s) = Hist(mem, rows', s) /\ At(mem', s) = At(mem, s)
    BY <1>1, <1>3, <2>1, StaysShown
  <2> QED
    BY <1>1, <2>2 DEF Shown
<1>8. ASSUME NEW u \in SeqId, u # s
      PROVE  G[u] = Store!Fresh
  BY <1>3, <1>8 DEF Shown, Hist, At, Store!Fresh
<1> HIDE DEF F, G
<1>9. G = [u \in SeqId |-> IF u = s THEN F[s] ELSE Store!Fresh]
  BY <1>6, <1>7, <1>8
<1>10. Store!Keep(s)
  BY <1>1, <1>5, <1>9, SavedStays DEF Store!Keep
<1> QED
  BY <1>4, <1>10 DEF StoreNext, Store!Next

(* Only the position of a sequence that is alone in its cell changes.      *)
LEMMA Repositioned ==
  ASSUME IInv, IInv', HistInv, Ready, NEW s \in SeqId, Alone(s), NEW p,
         mem' = [mem EXCEPT !.pos[mem.tail[s]] = p], UNCHANGED <<rows, kept, todo, saved>>
  PROVE  /\ HistInv' /\ UNCHANGED AbsSaved
         /\ AbsState' = [AbsState EXCEPT ![s].pos = p]
         /\ AbsState[s].pos = mem.pos[mem.tail[s]]
<1> DEFINE F == Shown(mem, rows)
           G == Shown(mem', rows')
           t == mem.tail[s]
<1>1. /\ Sane(mem) /\ Sane(mem') /\ t \in Cell /\ mem.seqs[t] = {s} /\ mem \in Mem
      /\ rows' = rows /\ kept' = kept /\ saved' = saved /\ todo' = <<>>
  BY AloneFacts DEF IInv, Ready
<1>2. /\ mem'.tail = mem.tail /\ mem'.seqs = mem.seqs /\ mem'.src = mem.src /\ mem'.rs_idx = mem.rs_idx
      /\ \A c \in Cell : mem'.pos[c] = IF c = t THEN p ELSE mem.pos[c]
  BY <1>1 DEF Mem
<1>3. HistInv'
  <2>1. Calm(mem, kept, mem', kept') /\ Cleaner(mem, mem')
    BY <1>1, <1>2 DEF Calm, Cleaner
  <2> QED
    BY <1>1, <2>1, QuietStep
<1>4. AbsState = F /\ AbsState' = G
  BY <1>1, AbsStateIs, AbsStateIsNext
<1>5. F = [u \in SeqId |-> F[u]] /\ G = [u \in SeqId |-> G[u]]
  BY DEF Shown
<1>6. ASSUME NEW u \in SeqId, u # s
      PROVE  G[u] = F[u]
  <2>1. mem.tail[u] # t /\ mem.tail[u] \in Cell \cup {Nowhere}
    BY <1>1, <1>6 DEF Sane, Mem, Tails
  <2>2. At(mem', u) = At(mem, u) /\ Hist(mem', rows', u) = Hist(mem, rows, u)
    BY <1>1, <1>2, <2>1 DEF At, Hist
  <2> QED
    BY <2>2 DEF Shown
<1>7. G[s] = [hist |-> Hist(mem, rows, s), pos |-> p]
  <2>1. At(mem', s) = p /\ Hist(mem', rows', s) = Hist(mem, rows, s)
    BY <1>1, <1>2, CellFacts DEF At, Hist
  <2> QED
    BY <2>1 DEF Shown
<1>8. F[s] = [hist |-> Hist(mem, rows, s), pos |-> mem.pos[t]]
  BY <1>1, CellFacts DEF Shown, At
<1> HIDE DEF F, G
<1>9. G[s] = [F[s] EXCEPT !.pos = p]
  BY <1>7, <1>8
<1>10. G = [F EXCEPT ![s] = G[s]]
  BY <1>5, <1>6, OneChanges
<1>11. G = [F EXCEPT ![s].pos = p]
  BY <1>9, <1>10
<1>12. F[s].pos = mem.pos[t]
  BY <1>8
<1> QED
  BY <1>1, <1>3, <1>4, <1>11, <1>12, SavedStays

LEMMA SeqAddShows ==
  ASSUME IInv, IInv', HistInv, NEW s \in SeqId, NEW r \in RmRanges, NEW d \in Deltas, SeqAdd(s, r, d)
  PROVE  HistInv' /\ StoreNext
<1> DEFINE p == mem.pos[mem.tail[s]] + d
<1>1. /\ Ready /\ Alone(s) /\ mem' = [mem EXCEPT !.pos[mem.tail[s]] = p]
      /\ UNCHANGED <<rows, kept, todo, saved>>
  BY DEF SeqAdd
<1>2. /\ HistInv' /\ UNCHANGED AbsSaved /\ AbsState' = [AbsState EXCEPT ![s].pos = p]
      /\ AbsState[s].pos = mem.pos[mem.tail[s]]
  BY <1>1, Repositioned
<1>3. AbsState' = [AbsState EXCEPT ![s].pos = @ + d]
  BY <1>2
<1>4. Store!Shift(s, d)
  BY <1>2, <1>3 DEF Store!Shift
<1> QED
  BY <1>2, <1>4 DEF StoreNext, Store!Next

LEMMA SeqDivShows ==
  ASSUME IInv, IInv', HistInv, NEW s \in SeqId, NEW r \in RmRanges, NEW d \in Divs, SeqDiv(s, r, d)
  PROVE  HistInv' /\ StoreNext
<1> DEFINE p == mem.pos[mem.tail[s]] \div d
<1>1. /\ Ready /\ Alone(s) /\ mem' = [mem EXCEPT !.pos[mem.tail[s]] = p]
      /\ UNCHANGED <<rows, kept, todo, saved>>
  BY DEF SeqDiv
<1>2. /\ HistInv' /\ UNCHANGED AbsSaved /\ AbsState' = [AbsState EXCEPT ![s].pos = p]
      /\ AbsState[s].pos = mem.pos[mem.tail[s]]
  BY <1>1, Repositioned
<1>3. AbsState' = [AbsState EXCEPT ![s].pos = @ \div d]
  BY <1>2
<1>4. Store!Divide(s, d)
  BY <1>2, <1>3 DEF Store!Divide
<1> QED
  BY <1>2, <1>4 DEF StoreNext, Store!Next

-----------------------------------------------------------------------------
(* What is saved is the state of a sequence, or of all.                    *)

Given(v, s) ==
  LET mine == {i \in DOMAIN v.cells : v.all => s \in v.cells[i].seqs}
  IN  IF mine = {} THEN [hist |-> <<>>, pos |-> -1]
      ELSE [hist |-> v.cells[Min(mine)].row, pos |-> v.cells[Min(mine)].pos]

LEMMA AbsSavedIs == AbsSaved = [all |-> saved.all, of |-> [s \in SeqId |-> Given(saved, s)]]
BY DEF AbsSaved, Given

LEMMA AbsSavedIsNext == AbsSaved' = [all |-> saved'.all, of |-> [s \in SeqId |-> Given(saved', s)]]
BY DEF AbsSaved, Given

LEMMA SavedFacts ==
  ASSUME NEW v, SavedOK(v)
  PROVE  /\ v.cells \in Seq(SavedCell) /\ Len(v.cells) \in Nat /\ DOMAIN v.cells = 1 .. Len(v.cells)
         /\ \A i \in 1 .. Len(v.cells) :
              v.cells[i].pos \in Pos /\ v.cells[i].seqs \in SUBSET SeqId /\ v.cells[i].row \in Row
<1>1. v.cells \in Seq(SavedCell) /\ Len(v.cells) \in Nat /\ DOMAIN v.cells = 1 .. Len(v.cells)
  BY LenProperties DEF SavedOK
<1>2. \A i \in 1 .. Len(v.cells) : v.cells[i] \in SavedCell
  BY <1>1, ElementOfSeq
<1> QED
  BY <1>1, <1>2 DEF SavedCell

LEMMA GivenOne ==
  ASSUME NEW v, SavedOK(v), ~v.all, NEW s
  PROVE  Given(v, s) = IF v.cells = <<>> THEN [hist |-> <<>>, pos |-> -1]
                       ELSE [hist |-> v.cells[1].row, pos |-> v.cells[1].pos]
<1> DEFINE mine == {i \in DOMAIN v.cells : v.all => s \in v.cells[i].seqs}
<1>1. v.cells \in Seq(SavedCell) /\ Len(v.cells) \in Nat /\ Len(v.cells) <= 1
      /\ DOMAIN v.cells = 1 .. Len(v.cells)
  BY SavedFacts DEF SavedOK
<1>2. mine = 1 .. Len(v.cells)
  BY <1>1
<1>3. Given(v, s) = IF mine = {} THEN [hist |-> <<>>, pos |-> -1]
                    ELSE [hist |-> v.cells[Min(mine)].row, pos |-> v.cells[Min(mine)].pos]
  BY DEF Given
<1> HIDE DEF mine
<1>4. CASE v.cells = <<>>
  <2>1. Len(v.cells) = 0
    BY <1>4, EmptySeq
  <2>2. mine = {}
    BY <1>2, <2>1
  <2> QED
    BY <1>3, <1>4, <2>2
<1>5. CASE v.cells # <<>>
  <2>1. Len(v.cells) = 1
    <3>1. Len(v.cells) # 0
      BY <1>1, <1>5, EmptySeq, Zenon
    <3>2. \A x \in Nat : x <= 1 /\ x # 0 => x = 1
      OBVIOUS
    <3>3. Len(v.cells) \in Nat /\ Len(v.cells) <= 1
      BY <1>1
    <3> QED
      BY <3>1, <3>2, <3>3, Zenon
  <2>2. \A i : i \in mine <=> i = 1
    BY <1>2, <2>1
  <2>3. mine \in SUBSET Nat /\ mine # {}
    BY <2>2
  <2>4. Min(mine) = 1
    BY <2>2, <2>3, MinNat
  <2> QED
    BY <1>3, <1>5, <2>3, <2>4
<1> QED
  BY <1>4, <1>5

LEMMA GivenOf ==
  ASSUME NEW v, SavedOK(v), v.all, NEW s, NEW i \in 1 .. Len(v.cells), s \in v.cells[i].seqs
  PROVE  Given(v, s) = [hist |-> v.cells[i].row, pos |-> v.cells[i].pos]
<1> DEFINE mine == {j \in DOMAIN v.cells : v.all => s \in v.cells[j].seqs}
<1>1. Len(v.cells) \in Nat /\ DOMAIN v.cells = 1 .. Len(v.cells)
  BY SavedFacts
<1>2. \A j, k \in 1 .. Len(v.cells) : j # k => v.cells[j].seqs \cap v.cells[k].seqs = {}
  BY DEF SavedOK
<1>3. Given(v, s) = IF mine = {} THEN [hist |-> <<>>, pos |-> -1]
                    ELSE [hist |-> v.cells[Min(mine)].row, pos |-> v.cells[Min(mine)].pos]
  BY DEF Given
<1>4. \A j : j \in mine <=> j = i
  BY <1>1, <1>2
<1> HIDE DEF mine
<1>5. mine \in SUBSET Nat /\ mine # {}
  <2>1. i \in Nat
    BY <1>1
  <2> QED
    BY <1>4, <2>1
<1>6. Min(mine) = i
  BY <1>4, <1>5, MinNat
<1> QED
  BY <1>3, <1>5, <1>6

LEMMA GivenNone ==
  ASSUME NEW v, SavedOK(v), v.all, NEW s, \A i \in 1 .. Len(v.cells) : s \notin v.cells[i].seqs
  PROVE  Given(v, s) = [hist |-> <<>>, pos |-> -1]
<1>1. DOMAIN v.cells = 1 .. Len(v.cells)
  BY SavedFacts
<1>2. {i \in DOMAIN v.cells : v.all => s \in v.cells[i].seqs} = {}
  BY <1>1
<1> QED
  BY <1>2 DEF Given

LEMMA UnchangedHist ==
  ASSUME HistInv, UNCHANGED <<mem, rows, kept, todo>>
  PROVE  HistInv' /\ UNCHANGED AbsState
<1>1. HistInv'
  BY DEF HistInv
<1>2. AbsState' = AbsState
  BY DEF AbsState, StateOf
<1> QED
  BY <1>1, <1>2

LEMMA StateWriteSeqShows ==
  ASSUME IInv, IInv', HistInv, NEW s \in SeqId, StateWriteSeq(s)
  PROVE  HistInv' /\ StoreNext
<1> DEFINE t == mem.tail[s]
           cell == [Written(t) EXCEPT !.seqs = {}]
           F == Shown(mem, rows)
<1>1. /\ Sane(mem) /\ SavedOK(saved') /\ mem.rs_idx[s] = 0
      /\ saved' = [all |-> FALSE, cells |-> IF t = Nowhere THEN <<>> ELSE <<cell>>]
      /\ UNCHANGED <<mem, rows, kept, todo>>
  BY DEF IInv, StateWriteSeq, Settled
<1>2. HistInv' /\ AbsState' = AbsState /\ AbsState = F
  BY <1>1, UnchangedHist, AbsStateIs
<1>3. F[s] = [hist |-> IF t = Nowhere THEN <<>> ELSE rows[0][t],
              pos  |-> IF t = Nowhere THEN -1 ELSE mem.pos[t]]
  BY <1>1 DEF Shown, Hist, At
<1>4. t # Nowhere => cell.row = rows[0][t] /\ cell.pos = mem.pos[t]
  <2> SUFFICES ASSUME t # Nowhere PROVE cell.row = rows[0][t] /\ cell.pos = mem.pos[t]
    OBVIOUS
  <2>1. t \in Cell /\ s \in mem.seqs[t]
    BY <1>1 DEF Sane, Mem, Tails
  <2> QED
    BY <2>1, WrittenFacts
<1> HIDE DEF cell, F
<1>5. saved'.all = FALSE /\ saved'.cells = IF t = Nowhere THEN <<>> ELSE <<cell>>
  BY <1>1
<1>6. \A u \in SeqId : Given(saved', u) = F[s]
  <2> SUFFICES ASSUME NEW u \in SeqId PROVE Given(saved', u) = F[s]
    OBVIOUS
  <2>1. Given(saved', u) = IF saved'.cells = <<>> THEN [hist |-> <<>>, pos |-> -1]
                           ELSE [hist |-> saved'.cells[1].row, pos |-> saved'.cells[1].pos]
    BY <1>1, <1>5, GivenOne
  <2> QED
    BY <1>3, <1>4, <1>5, <2>1
<1>7. AbsSaved' = [all |-> FALSE, of |-> [u \in SeqId |-> F[s]]]
  BY <1>5, <1>6, AbsSavedIsNext
<1>8. Store!SaveOne(s)
  BY <1>2, <1>7 DEF Store!SaveOne
<1> QED
  BY <1>2, <1>8 DEF StoreNext, Store!Next

LEMMA StateWriteAllShows ==
  ASSUME IInv, IInv', HistInv, StateWriteAll
  PROVE  HistInv' /\ StoreNext
<1> DEFINE C == {c \in Cell : mem.seqs[c] # {}}
           n == Cardinality(C)
           u == InOrder(C)
           cells == [i \in DOMAIN u |-> Written(u[i])]
           F == Shown(mem, rows)
<1>1. /\ saved' = [all |-> TRUE, cells |-> cells] /\ UNCHANGED <<mem, rows, kept, todo>>
      /\ Sane(mem) /\ SavedOK(saved') /\ \A s \in SeqId : mem.rs_idx[s] = 0
  BY DEF IInv, StateWriteAll, Settled
<1>2. /\ C \in SUBSET Cell /\ n \in Nat
      /\ \A c : c \in C <=> c \in Cell /\ mem.seqs[c] # {}
  BY PartOfCells
<1>3. HistInv' /\ AbsState' = AbsState /\ AbsState = F
  BY <1>1, UnchangedHist, AbsStateIs
<1> HIDE DEF C
<1>4. u \in [1 .. n -> C] /\ \A c \in C : \E i \in 1 .. n : u[i] = c
  BY <1>2, InOrderFacts
<1> HIDE DEF u, n
<1>5. DOMAIN cells = 1 .. n /\ \A i \in 1 .. n : cells[i] = Written(u[i])
  BY <1>4
<1> HIDE DEF cells
<1>6. saved'.all = TRUE /\ saved'.cells = cells
  BY <1>1
<1>7. 1 .. Len(cells) = 1 .. n
  <2>1. DOMAIN saved'.cells = 1 .. Len(saved'.cells)
    BY <1>1, SavedFacts
  <2> QED
    BY <1>5, <1>6, <2>1
<1>8. \A i \in 1 .. n : /\ u[i] \in Cell /\ cells[i].seqs = mem.seqs[u[i]]
                        /\ cells[i].pos = mem.pos[u[i]] /\ cells[i].row = rows[0][u[i]]
  BY <1>2, <1>4, <1>5, WrittenFacts
<1>9. \A s \in SeqId : Given(saved', s) = F[s]
  <2> SUFFICES ASSUME NEW s \in SeqId PROVE Given(saved', s) = F[s]
    OBVIOUS
  <2>1. F[s] = [hist |-> IF mem.tail[s] = Nowhere THEN <<>> ELSE rows[0][mem.tail[s]],
                pos  |-> IF mem.tail[s] = Nowhere THEN -1 ELSE mem.pos[mem.tail[s]]]
    BY <1>1 DEF Shown, Hist, At
  <2>2. mem.tail[s] \in Cell \cup {Nowhere} /\ \A c \in Cell : mem.tail[s] = c <=> s \in mem.seqs[c]
    BY <1>1 DEF Sane, Mem, Tails
  <2>3. CASE mem.tail[s] = Nowhere
    <3>1. \A c \in Cell : s \notin mem.seqs[c]
      BY <2>2, <2>3, CellFacts
    <3>2. \A i \in 1 .. Len(saved'.cells) : s \notin saved'.cells[i].seqs
      BY <1>6, <1>7, <1>8, <3>1
    <3>3. Given(saved', s) = [hist |-> <<>>, pos |-> -1]
      BY <1>1, <1>6, <3>2, GivenNone
    <3> QED
      BY <2>1, <2>3, <3>3
  <2>4. CASE mem.tail[s] # Nowhere
    <3>1. mem.tail[s] \in Cell /\ s \in mem.seqs[mem.tail[s]]
      BY <2>2, <2>4
    <3>2. PICK i \in 1 .. n : u[i] = mem.tail[s]
      BY <1>2, <1>4, <3>1
    <3>3. i \in 1 .. Len(saved'.cells) /\ s \in saved'.cells[i].seqs
      BY <1>6, <1>7, <1>8, <3>1, <3>2
    <3>4. Given(saved', s) = [hist |-> saved'.cells[i].row, pos |-> saved'.cells[i].pos]
      BY <1>1, <1>6, <3>3, GivenOf
    <3> QED
      BY <1>6, <1>8, <2>1, <2>4, <3>2, <3>4
  <2> QED
    BY <2>3, <2>4
<1>10. F = [s \in SeqId |-> F[s]]
  BY DEF Shown
<1> HIDE DEF F
<1>11. AbsSaved' = [all |-> TRUE, of |-> F]
  BY <1>6, <1>9, <1>10, AbsSavedIsNext
<1>12. Store!SaveAll
  BY <1>3, <1>11 DEF Store!SaveAll
<1> QED
  BY <1>3, <1>12 DEF StoreNext, Store!Next

LEMMA StateReadAllShows ==
  ASSUME IInv, IInv', StateReadAll
  PROVE  HistInv' /\ StoreNext
<1> DEFINE cells == saved.cells
           n == Len(cells)
           G == Shown(mem', rows')
<1>1. /\ SavedOK(saved) /\ saved.all /\ Sane(mem') /\ mem' = ReadCells(cells)
      /\ kept' = [s \in SeqId |-> 0] /\ todo' = <<>> /\ saved' = saved
      /\ rows' = [g \in Group |-> [c \in Cell |-> IF g = 0 /\ c < n THEN cells[c + 1].row ELSE <<>>]]
  BY DEF IInv, StateReadAll, Ready, ReadCells
<1>2. /\ n \in Nat /\ n <= Size /\ \A i \in 1 .. n : cells[i].seqs # {}
  BY <1>1, SavedFacts DEF SavedOK
<1>3. /\ \A c \in Cell : mem'.pos[c] = IF c < n THEN cells[c + 1].pos ELSE -1
      /\ \A c \in Cell : mem'.src[c] = IF c < n THEN c ELSE Nowhere
      /\ \A c \in Cell : mem'.seqs[c] = IF c < n THEN cells[c + 1].seqs ELSE {}
      /\ \A s \in SeqId : mem'.rs_idx[s] = 0
  BY <1>1 DEF ReadCells, NoCells
<1>4. \A c \in Cell : c < n => c + 1 \in 1 .. n
  BY <1>2, CellFacts
<1>5. \A i \in 1 .. n : i - 1 \in Cell /\ i - 1 < n /\ (i - 1) + 1 = i
  BY <1>2, SizesAssumption DEF Cell
<1>6. HistInv'
  <2>1. \A c \in Cell : mem'.seqs[c] = {} => mem'.src[c] # c
    BY <1>2, <1>3, <1>4, CellFacts
  <2>2. \A s \in SeqId : mem'.rs_idx[s] = 0 /\ kept'[s] = 0
    BY <1>1, <1>3
  <2> QED
    BY <1>1, <2>1, <2>2, AfreshStep
<1>7. \A s \in SeqId : G[s] = Given(saved, s)
  <2> SUFFICES ASSUME NEW s \in SeqId PROVE G[s] = Given(saved, s)
    OBVIOUS
  <2>1. G[s] = [hist |-> IF mem'.tail[s] = Nowhere THEN <<>> ELSE rows'[0][mem'.tail[s]],
                pos  |-> IF mem'.tail[s] = Nowhere THEN -1 ELSE mem'.pos[mem'.tail[s]]]
    BY <1>3 DEF Shown, Hist, At
  <2>2. mem'.tail[s] \in Cell \cup {Nowhere} /\ \A c \in Cell : mem'.tail[s] = c <=> s \in mem'.seqs[c]
    BY <1>1 DEF Sane, Mem, Tails
  <2>3. CASE mem'.tail[s] = Nowhere
    <3>1. \A c \in Cell : s \notin mem'.seqs[c]
      BY <2>2, <2>3, CellFacts
    <3>2. \A i \in 1 .. Len(saved.cells) : s \notin saved.cells[i].seqs
      <4> SUFFICES ASSUME NEW i \in 1 .. n PROVE s \notin cells[i].seqs
        OBVIOUS
      <4>1. mem'.seqs[i - 1] = cells[i].seqs
        BY <1>3, <1>5
      <4> QED
        BY <1>5, <3>1, <4>1
    <3>3. Given(saved, s) = [hist |-> <<>>, pos |-> -1]
      BY <1>1, <3>2, GivenNone
    <3> QED
      BY <2>1, <2>3, <3>3
  <2>4. CASE mem'.tail[s] # Nowhere
    <3> DEFINE c == mem'.tail[s]
    <3>1. c \in Cell /\ s \in mem'.seqs[c]
      BY <2>2, <2>4
    <3> HIDE DEF c
    <3>2. c < n /\ s \in cells[c + 1].seqs /\ c + 1 \in 1 .. n
      BY <1>3, <1>4, <3>1
    <3>3. Given(saved, s) = [hist |-> cells[c + 1].row, pos |-> cells[c + 1].pos]
      BY <1>1, <3>2, GivenOf
    <3>4. rows'[0][c] = cells[c + 1].row /\ mem'.pos[c] = cells[c + 1].pos
      BY <1>1, <1>3, <3>1, <3>2, CellFacts
    <3> QED
      BY <2>1, <2>4, <3>3, <3>4 DEF c
  <2> QED
    BY <2>3, <2>4
<1>8. G = [s \in SeqId |-> G[s]] /\ AbsState' = G
  BY <1>1, AbsStateIsNext DEF Shown
<1> HIDE DEF G
<1>9. AbsState' = AbsSaved.of /\ AbsSaved.all
  BY <1>1, <1>7, <1>8, AbsSavedIs
<1>10. Store!LoadAll
  BY <1>1, <1>9, SavedStays DEF Store!LoadAll
<1> QED
  BY <1>6, <1>10 DEF StoreNext, Store!Next

-----------------------------------------------------------------------------
(* A decode starts.                                                        *)

LEMMA PosMaxAt ==
  ASSUME NEW m, Sane(m), NEW s \in SeqId
  PROVE  seq_pos_max(m, s) = At(m, s) /\ At(m, s) \in Pos \cup {-1}
<1> DEFINE t == m.tail[s]
           A == {-1} \cup {m.pos[c] : c \in {d \in Cell : s \in m.seqs[d]}}
<1>1. t \in Cell \cup {Nowhere} /\ \A c \in Cell : t = c <=> s \in m.seqs[c]
  BY DEF Sane, Mem, Tails
<1>2. At(m, s) = IF t = Nowhere THEN -1 ELSE m.pos[t]
  BY DEF At
<1>3. seq_pos_max(m, s) = Max(A)
  BY DEF seq_pos_max
<1>4. {d \in Cell : s \in m.seqs[d]} = IF t = Nowhere THEN {} ELSE {t}
  BY <1>1, CellFacts
<1>5. t # Nowhere => m.pos[t] \in Pos
  <2>1. t # Nowhere => t \in Cell /\ m.seqs[t] # {}
    BY <1>1
  <2> QED
    BY <2>1 DEF Sane, Mem, Positions
<1> HIDE DEF t
<1>6. \A x : x \in A <=> x = -1 \/ (t # Nowhere /\ x = m.pos[t])
  BY <1>4
<1> HIDE DEF A
<1>7. A # {} /\ A \in SUBSET Int /\ \A x \in A : x <= MaxLen
  <2>1. \A x \in A : x = -1 \/ x \in Pos
    BY <1>5, <1>6
  <2>2. \A x \in Pos : x \in Int /\ x <= MaxLen
    BY BoundsAssumption DEF Pos
  <2>3. -1 \in Int /\ -1 <= MaxLen
    BY BoundsAssumption
  <2> QED
    BY <1>6, <2>1, <2>2, <2>3
<1>8. Max(A) \in A /\ \A y \in A : y <= Max(A)
  <2>1. MaxLen \in Int
    BY BoundsAssumption
  <2> QED
    BY <1>7, <2>1, MaxInt, Zenon
<1>9. CASE t = Nowhere
  BY <1>2, <1>3, <1>6, <1>8, <1>9
<1>10. CASE t # Nowhere
  <2>1. m.pos[t] \in A /\ m.pos[t] \in Pos
    BY <1>5, <1>6, <1>10
  <2>2. m.pos[t] >= 0 /\ m.pos[t] \in Int
    BY <2>1, BoundsAssumption DEF Pos
  <2>3. Max(A) # -1
    BY <1>8, <2>1, <2>2
  <2>4. Max(A) = m.pos[t]
    BY <1>6, <1>8, <2>3
  <2> QED
    BY <1>2, <1>3, <1>10, <2>1, <2>4
<1> QED
  BY <1>9, <1>10

(* Sequences that share a cell, or have none, share their state.           *)
LEMMA SharedHist ==
  ASSUME Sane(mem), Lonely(mem, kept), NEW s \in SeqId, NEW t \in SeqId, mem.tail[s] = mem.tail[t]
  PROVE  /\ At(mem, s) = At(mem, t) /\ Hist(mem, rows, s) = Hist(mem, rows, t)
         /\ s # t => mem.rs_idx[s] = 0
<1>1. ASSUME NEW u \in SeqId, NEW v \in SeqId, u # v, mem.tail[u] = mem.tail[v]
      PROVE  mem.rs_idx[u] = 0
  <2> SUFFICES ASSUME mem.rs_idx[u] # 0 PROVE FALSE
    OBVIOUS
  <2>1. mem.tail[u] \in Cell /\ mem.seqs[mem.tail[u]] = {u}
    BY DEF Lonely
  <2>2. v \in mem.seqs[mem.tail[u]]
    BY <1>1, <2>1 DEF Sane, Tails
  <2> QED
    BY <1>1, <2>1, <2>2
<1>2. mem.rs_idx[s] = mem.rs_idx[t]
  BY <1>1
<1> QED
  BY <1>1, <1>2 DEF At, Hist

LEMMA StartAgrees ==
  ASSUME Sane(mem), Lonely(mem, kept), NEW b, GoodBatch(b), Continuing(b)
  PROVE  Agrees(b, SplitFrom(b).left, mem, rows)
<1> DEFINE l == SplitFrom(b).left
<1>1. DOMAIN b = 1 .. Len(b) /\ \A k \in 1 .. Len(b) : b[k] \in BatchItem
  BY ElementOfSeq, LenProperties DEF GoodBatch
<1>2. \A k \in 1 .. Len(b) : l[k] = b[k].len
  BY <1>1 DEF SplitFrom
<1> HIDE DEF l
<1> SUFFICES ASSUME NEW k \in 1 .. Len(b), NEW s \in ToSet(b[k].ids)
             PROVE  /\ At(mem, s) = b[k].from + b[k].len - l[k] - 1
                    /\ Hist(mem, rows, s) = Hist(mem, rows, b[k].ids[1])
                    /\ \A t \in ToSet(b[k].ids) : s # t => mem.rs_idx[s] = 0
  BY DEF Agrees, l
<1> DEFINE g == b[k].ids
<1>3. /\ g \in Groups /\ b[k].from = seq_pos_max(mem, g[1]) + 1
      /\ \A t \in ToSet(g) : mem.tail[t] = mem.tail[g[1]]
  BY DEF Continuing
<1> HIDE DEF g
<1>4. g[1] \in SeqId /\ \A t \in ToSet(g) : t \in SeqId
  <2>1. g \in Seq(SeqId) /\ g[1] \in SeqId
    BY <1>3, GroupFacts
  <2>2. \A i \in 1 .. Len(g) : g[i] \in SeqId
    BY <2>1, ElementOfSeq
  <2> QED
    BY <2>1, <2>2, LenProperties DEF ToSet
<1>5. s \in SeqId /\ mem.tail[s] = mem.tail[g[1]]
  BY <1>3, <1>4 DEF g
<1>6. At(mem, s) = At(mem, g[1]) /\ Hist(mem, rows, s) = Hist(mem, rows, g[1])
  BY <1>4, <1>5, SharedHist
<1>7. At(mem, s) = b[k].from + b[k].len - l[k] - 1
  <2>1. seq_pos_max(mem, g[1]) = At(mem, g[1]) /\ At(mem, g[1]) \in Pos \cup {-1}
    BY <1>4, PosMaxAt
  <2>2. At(mem, g[1]) \in Int
    <3>1. \A x \in Pos \cup {-1} : x \in Int
      BY DEF Pos
    <3> QED
      BY <2>1, <3>1, Zenon
  <2>3. b[k].len \in Int
    BY <1>1, BoundsAssumption DEF BatchItem
  <2>4. \A x, y \in Int : x = (x + 1) + y - y - 1
    OBVIOUS
  <2> QED
    BY <1>2, <1>3, <1>6, <2>1, <2>2, <2>3, <2>4
<1>8. ASSUME NEW t \in ToSet(g), s # t
      PROVE  mem.rs_idx[s] = 0
  <2>1. t \in SeqId /\ mem.tail[t] = mem.tail[s]
    BY <1>3, <1>4, <1>5
  <2> QED
    BY <1>5, <1>8, <2>1, SharedHist
<1> QED
  BY <1>6, <1>7, <1>8 DEF g

LEMMA DecodeShows ==
  ASSUME IInv, HistInv, NEW batch \in Batches, Decode(batch)
  PROVE  HistInv' /\ StoreNext
<1> DEFINE ubs == Split(batch)
<1>1. Sane(mem) /\ mem \in Mem
  BY DEF IInv, Sane
<1>2. ubs \in Seq(UBatch) /\ GoodBatch(batch) /\ Continuing(batch)
  BY <1>1, BatchesGood, SplitType
<1>3. mem' = Tried(mem, ubs) /\ todo' = (IF mem'.aborted THEN <<>> ELSE ubs)
      /\ UNCHANGED <<rows, kept, saved>>
  BY DEF Decode
<1>4. PICK L : Chain(batch, L, ubs) /\ L[0] = SplitFrom(batch).left
  BY <1>2, SplitChain
<1> HIDE DEF ubs
<1>5. mem' = mem
  BY <1>1, <1>2, <1>3, TriedFacts
<1>6. Lonely(mem, kept) /\ Clean(mem, rows) /\ Snaps(mem, rows, kept)
  BY DEF HistInv
<1>7. Agrees(batch, L[0], mem, rows)
  BY <1>1, <1>2, <1>4, <1>6, StartAgrees
<1>8. Offered(batch)
  BY <1>2 DEF Continuing, Offered
<1>9. Coming(mem, rows, ubs)
  BY <1>2, <1>4, <1>7, <1>8 DEF Coming
<1>10. todo' = ubs
  BY <1>1, <1>3, <1>5 DEF Sane
<1>11. HistInv'
  BY <1>3, <1>5, <1>6, <1>9, <1>10 DEF HistInv
<1>12. AbsState' = AbsState
  BY <1>3, <1>5 DEF AbsState, StateOf
<1> QED
  BY <1>3, <1>11, <1>12, SavedStays DEF StoreNext

-----------------------------------------------------------------------------
(* A graph: where the rows of the sequences are, before and after.         *)

Heads(ub, lo) == lo .. lo + Len(ub.ids) - 1

(* A sequence that is not decoded: its row is told to the graph, or it     *)
(* stays.                                                                  *)
Beside(m, ub, lo, hi, f, u) ==
  /\ m.tail[u] = Nowhere => f.mem.tail[u] = Nowhere
  /\ m.tail[u] # Nowhere =>
       /\ m.tail[u] \in Cell /\ f.mem.tail[u] \in Cell \ Heads(ub, lo)
       /\ f.mem.pos[f.mem.tail[u]] = m.pos[m.tail[u]]
       /\ u \in f.mem.seqs[f.mem.tail[u]] /\ f.mem.seqs[f.mem.tail[u]] \subseteq m.seqs[m.tail[u]]
       /\ f.rs_z # m.tail[u]
       /\ f.mem.tail[u] \notin lo .. hi => f.mem.tail[u] = m.tail[u]
       /\ f.mem.tail[u] \in lo .. hi => f.src0[f.mem.tail[u]] = m.tail[u]

LEMMA PlacingFacts ==
  ASSUME NEW m, NEW ub \in UBatch, NEW lo, NEW hi, NEW m1, NEW g, Placing(m, ub, lo, hi, m1, g)
  PROVE  /\ Sane(m) /\ LeftBy(m, Followers(ub), m1) /\ g \in Mem
         /\ lo \in Cell /\ hi \in Cell /\ lo + Len(ub.ids) - 1 <= hi
         /\ Consistent(Leaders(ub, Len(ub.ids)), g) /\ Follows(m1, Leaders(ub, Len(ub.ids)), g)
         /\ HomeBut(lo .. hi, g)
         /\ \A k \in 1 .. Len(ub.ids) : g.tail[Leader(ub, k)] = lo + k - 1
<1>1. /\ Sane(m) /\ LeftBy(m, Followers(ub), m1)
      /\ lo \in Cell /\ hi \in Cell /\ lo + Len(ub.ids) - 1 <= hi
      /\ PutUpTo(m1, ub, lo, hi, Len(ub.ids), g)
  BY DEF Placing
<1>2. /\ Placed(m1, Leaders(ub, Len(ub.ids)), lo .. hi, g)
      /\ \A k \in 1 .. Len(ub.ids) : g.tail[Leader(ub, k)] = lo + k - 1
  BY <1>1 DEF PutUpTo
<1>3. /\ Consistent(Leaders(ub, Len(ub.ids)), g) /\ Follows(m1, Leaders(ub, Len(ub.ids)), g)
      /\ HomeBut(lo .. hi, g)
  BY <1>2 DEF Placed
<1> QED
  BY <1>1, <1>2, <1>3 DEF Consistent

(* The row of a sequence that is no follower is where g says.              *)
LEMMA RowFollows ==
  ASSUME NEW m, NEW ub \in UBatch, NEW lo, NEW hi, NEW m1, NEW g, Placing(m, ub, lo, hi, m1, g),
         NEW u \in SeqId \ Followers(ub), m.tail[u] # Nowhere
  PROVE  /\ m.tail[u] \in Cell /\ g.tail[u] \in Cell /\ g.src[g.tail[u]] = m.tail[u]
         /\ g.pos[g.tail[u]] = m.pos[m.tail[u]]
         /\ u \in g.seqs[g.tail[u]] /\ g.seqs[g.tail[u]] \subseteq m.seqs[m.tail[u]]
<1> DEFINE t == m.tail[u]
<1>1. Sane(m) /\ LeftBy(m, Followers(ub), m1) /\ Follows(m1, Leaders(ub, Len(ub.ids)), g)
  BY PlacingFacts
<1>2. t \in Cell /\ u \in m.seqs[t] /\ m.src[t] = t
  <2>1. t \in Cell /\ u \in m.seqs[t]
    BY <1>1 DEF Sane, Mem, Tails
  <2> QED
    BY <1>1, <2>1 DEF Sane, AtHome
<1> HIDE DEF t
<1>3. m1.tail[u] = t /\ m1.seqs[t] = m.seqs[t] \ Followers(ub) /\ m1.src[t] = t /\ m1.pos[t] = m.pos[t]
  <2>1. m1.tail[u] = t
    BY <1>1 DEF LeftBy, t
  <2>2. m1.seqs[t] = m.seqs[t] \ Followers(ub)
    BY <1>1, <1>2 DEF LeftBy
  <2>3. m1.seqs[t] # {}
    BY <1>2, <2>2
  <2> QED
    BY <1>1, <1>2, <2>1, <2>2, <2>3 DEF LeftBy
<1>4. /\ g.tail[u] \in Cell /\ g.src[g.tail[u]] = m1.src[t] /\ g.pos[g.tail[u]] = m1.pos[t]
      /\ u \in g.seqs[g.tail[u]] /\ g.seqs[g.tail[u]] \subseteq m1.seqs[t]
  BY <1>1, <1>2, <1>3 DEF Follows
<1> QED
  BY <1>2, <1>3, <1>4 DEF t

LEMMA StagedAt ==
  ASSUME NEW ub \in UBatch, NEW lo, NEW hi, NEW g, NEW f, Staged(ub, lo, hi, g, f)
  PROVE  /\ \A c \in Cell : f.rs_z # Nowhere => f.rs_z # g.src[c]
         /\ \A c \in lo .. hi : f.src0[c] = IF g.src[c] = Nowhere THEN f.rs_z ELSE g.src[c]
         /\ \A c \in Cell : c \notin Heads(ub, lo) => f.mem.seqs[c] = g.seqs[c] /\ f.mem.pos[c] = g.pos[c]
         /\ \A k \in 1 .. Len(ub.ids) : \A s \in Members(ub, k) : f.mem.tail[s] = lo + k - 1
         /\ \A s \in SeqId \ DecodedOf(ub) : f.mem.tail[s] = g.tail[s]
         /\ f.mem.rs_idx = g.rs_idx /\ f.mem.head = lo
         /\ \A c \in Cell : f.mem.src[c] = IF c \in lo .. hi THEN c ELSE g.src[c]
<1> DEFINE starts == {c \in lo .. hi : g.src[c] = Nowhere}
           free   == (lo .. hi) \ {g.src[c] : c \in Cell}
<1>1. /\ IF free = {} THEN f.rs_z = Nowhere ELSE f.rs_z \in free
      /\ \A c \in lo .. hi : f.src0[c] = IF c \in starts THEN f.rs_z ELSE g.src[c]
  BY DEF Staged
<1>2. \A c \in Cell : f.rs_z # Nowhere => f.rs_z # g.src[c]
  BY <1>1
<1>3. \A c \in lo .. hi : f.src0[c] = IF g.src[c] = Nowhere THEN f.rs_z ELSE g.src[c]
  BY <1>1
<1>4. \A c \in Cell : c \notin Heads(ub, lo) => f.mem.seqs[c] = g.seqs[c] /\ f.mem.pos[c] = g.pos[c]
  BY DEF Staged, Heads
<1>5. /\ \A k \in 1 .. Len(ub.ids) : \A s \in Members(ub, k) : f.mem.tail[s] = lo + k - 1
      /\ \A s \in SeqId \ DecodedOf(ub) : f.mem.tail[s] = g.tail[s]
      /\ f.mem.rs_idx = g.rs_idx /\ f.mem.head = lo
      /\ \A c \in Cell : f.mem.src[c] = IF c \in lo .. hi THEN c ELSE g.src[c]
  BY DEF Staged
<1> QED
  BY <1>2, <1>3, <1>4, <1>5

LEMMA BesideFacts ==
  ASSUME NEW m, NEW ub \in UBatch, NEW lo, NEW hi, NEW m1, NEW g, Placing(m, ub, lo, hi, m1, g),
         NEW f, Staged(ub, lo, hi, g, f), NEW u \in SeqId \ DecodedOf(ub)
  PROVE  Beside(m, ub, lo, hi, f, u)
<1> DEFINE t == m.tail[u]
           d == f.mem.tail[u]
<1>1. /\ Sane(m) /\ LeftBy(m, Followers(ub), m1) /\ Follows(m1, Leaders(ub, Len(ub.ids)), g)
      /\ HomeBut(lo .. hi, g) /\ lo \in Cell /\ hi \in Cell
  BY PlacingFacts
<1>2. u \notin Followers(ub) /\ u \notin Leaders(ub, Len(ub.ids))
  <2>1. \A k \in 1 .. Len(ub.ids) : u \notin Members(ub, k) /\ DOMAIN ub.ids = 1 .. Len(ub.ids)
    BY UBatchFacts DEF DecodedOf
  <2>2. \A k \in 1 .. Len(ub.ids) : Leader(ub, k) \in Members(ub, k)
    BY UBatchFacts
  <2>3. DOMAIN ub.ids = 1 .. Len(ub.ids)
    BY UBatchFacts
  <2> QED
    BY <2>1, <2>2, <2>3 DEF Followers, Leaders
<1>3. d = g.tail[u]
  BY StagedAt
<1>4. CASE t = Nowhere
  <2>1. m1.tail[u] = Nowhere
    BY <1>1, <1>2, <1>4 DEF LeftBy
  <2>2. g.tail[u] = Nowhere
    BY <1>1, <1>2, <2>1 DEF Follows
  <2> QED
    BY <1>3, <1>4, <2>2 DEF Beside
<1>5. CASE t # Nowhere
  <2>1. /\ t \in Cell /\ g.tail[u] \in Cell /\ g.src[g.tail[u]] = t
        /\ g.pos[g.tail[u]] = m.pos[t]
        /\ u \in g.seqs[g.tail[u]] /\ g.seqs[g.tail[u]] \subseteq m.seqs[t]
    BY <1>2, <1>5, RowFollows
  <2>2. /\ d \in Cell /\ g.src[d] = t /\ g.pos[d] = m.pos[t] /\ u \in g.seqs[d]
        /\ g.seqs[d] \subseteq m.seqs[t]
    BY <1>3, <2>1
  <2>3. d \notin Heads(ub, lo)
    <3> SUFFICES ASSUME d \in Heads(ub, lo) PROVE FALSE
      OBVIOUS
    <3>1. Sane(f.mem)
      BY SaneStaged
    <3>2. u \in f.mem.seqs[d]
      BY <2>2, <3>1 DEF Sane, Tails
    <3> DEFINE k == d - lo + 1
    <3>3. k \in 1 .. Len(ub.ids)
      BY <1>1, <2>2, CellFacts, UBatchFacts DEF Heads
    <3>4. f.mem.seqs[d] = Members(ub, k)
      <4>1. d \in lo .. lo + Len(ub.ids) - 1
        BY DEF Heads
      <4> QED
        BY <2>2, <4>1 DEF Staged
    <3>5. DOMAIN ub.ids = 1 .. Len(ub.ids)
      BY UBatchFacts
    <3> HIDE DEF k, d
    <3>6. u \in DecodedOf(ub)
      BY <3>2, <3>3, <3>4, <3>5 DEF DecodedOf
    <3> QED
      BY <3>6
  <2>4. f.mem.seqs[d] = g.seqs[d] /\ f.mem.pos[d] = g.pos[d]
    BY <2>2, <2>3, StagedAt
  <2>5. t # Nowhere /\ f.rs_z # t
    <3>1. f.rs_z # Nowhere => f.rs_z # g.src[d]
      BY <2>2, StagedAt
    <3> QED
      BY <1>5, <2>2, <3>1
  <2>6. d \notin lo .. hi => d = t
    BY <1>1, <1>5, <2>2 DEF HomeBut
  <2>7. d \in lo .. hi => f.src0[d] = t
    <3>1. d \in lo .. hi => f.src0[d] = IF g.src[d] = Nowhere THEN f.rs_z ELSE g.src[d]
      BY StagedAt
    <3> QED
      BY <1>5, <2>2, <3>1
  <2> QED
    BY <1>5, <2>1, <2>2, <2>3, <2>4, <2>5, <2>6, <2>7 DEF Beside
<1> QED
  BY <1>4, <1>5

(* What is told to the graph of an empty cell is a blank row.              *)
ToldBlank(w, g, c) == g.src[c] \in Cell /\ w[0][g.src[c]] = <<>>

LEMMA BlankRows ==
  ASSUME NEW m, NEW ub \in UBatch, NEW lo, NEW hi, NEW m1, NEW g, Placing(m, ub, lo, hi, m1, g),
         NEW w, Clean(m, w), NEW c \in Cell, g.seqs[c] = {}, g.src[c] # Nowhere
  PROVE  ToldBlank(w, g, c)
<1> DEFINE b == g.src[c]
<1>1. /\ Sane(m) /\ LeftBy(m, Followers(ub), m1) /\ Follows(m1, Leaders(ub, Len(ub.ids)), g) /\ g \in Mem
  BY PlacingFacts
<1>2. b \in Cell
  BY <1>1 DEF Mem
<1>3. m1.seqs[b] = {} /\ m1.src[b] = b
  BY <1>1 DEF Follows
<1> HIDE DEF b
<1>4. m.seqs[b] = {} /\ m.src[b] = b
  <2>1. b # Nowhere
    BY <1>2, CellFacts
  <2>2. /\ m1.src[b] \in {m.src[b], Nowhere}
        /\ m.seqs[b] # {} /\ m1.seqs[b] = {} => m1.src[b] = Nowhere
    BY <1>1, <1>2 DEF LeftBy
  <2> QED
    BY <1>3, <2>1, <2>2
<1>5. w[0][b] = <<>>
  BY <1>2, <1>4 DEF Clean
<1> QED
  BY <1>2, <1>5 DEF ToldBlank, b

(* What the graph leaves of the cells, rows and snapshots.                 *)
LEMMA GraphFacts ==
  ASSUME IInv, NEW ub \in UBatch, NEW lo, NEW hi, NEW m1, NEW g, Placing(mem, ub, lo, hi, m1, g),
         NEW f, Staged(ub, lo, hi, g, f)
  PROVE  /\ Sane(f.mem) /\ f.mem.rs_idx = mem.rs_idx /\ f.mem.head = lo
         /\ lo \in Cell /\ hi \in Cell /\ lo .. hi \in SUBSET Cell /\ Heads(ub, lo) \in SUBSET lo .. hi
         /\ InputsSet(f).tail = f.mem.tail /\ InputsSet(f).src = f.mem.src
         /\ InputsSet(f).pos = f.mem.pos /\ InputsSet(f).seqs = f.mem.seqs
         /\ \A s \in SeqId : InputsSet(f).rs_idx[s]
              = IF NRsSeq > 0 /\ \E c \in lo .. hi : f.mem.seqs[c] # {} /\ s = Min(f.mem.seqs[c])
                THEN 0 ELSE mem.rs_idx[s]
<1>1. /\ Sane(f.mem) /\ f.mem.head = lo /\ lo \in Cell
      /\ Run(f) = lo .. hi /\ lo .. hi \in SUBSET Cell
      /\ f.rs_z \in Cell \cup {Nowhere}
      /\ \A c \in lo .. hi : f.src0[c] \in Cell
  BY RunFacts
<1>2. /\ LeftBy(mem, Followers(ub), m1) /\ Follows(m1, Leaders(ub, Len(ub.ids)), g)
      /\ hi \in Cell /\ lo + Len(ub.ids) - 1 <= hi
  BY PlacingFacts
<1>3. f.mem.rs_idx = mem.rs_idx
  <2>1. f.mem.rs_idx = g.rs_idx
    BY StagedAt
  <2> QED
    BY <1>2, <2>1 DEF LeftBy, Follows
<1>4. Heads(ub, lo) \in SUBSET lo .. hi
  <2>1. lo \in Int /\ hi \in Int /\ Len(ub.ids) \in Int
    BY <1>1, <1>2, CellFacts, UBatchFacts
  <2> QED
    BY <1>2, <2>1 DEF Heads
<1>5. /\ InputsSet(f).tail = f.mem.tail /\ InputsSet(f).src = f.mem.src
      /\ InputsSet(f).pos = f.mem.pos /\ InputsSet(f).seqs = f.mem.seqs
      /\ \A s \in SeqId : InputsSet(f).rs_idx[s]
           = IF NRsSeq > 0 /\ \E c \in Run(f) : f.mem.seqs[c] # {} /\ s = Min(f.mem.seqs[c])
             THEN 0 ELSE f.mem.rs_idx[s]
  BY <1>1, SaneInputs
<1> QED
  BY <1>1, <1>2, <1>3, <1>4, <1>5

(* A sequence keeps its state, and its snapshots if it has any.            *)
Steady(x, w, k, u) ==
  /\ Hist(x, w, u) = Hist(mem, rows, u) /\ At(x, u) = At(mem, u)
  /\ x.rs_idx[u] \in {0, mem.rs_idx[u]}
  /\ x.rs_idx[u] # 0 => x.tail[u] \in Cell /\ x.seqs[x.tail[u]] = {u} /\ k[u] = 0
  /\ k[u] > 0 => x.tail[u] \in Cell /\ Snapped(w, x.tail[u], k[u])

(* The group that the graph takes the row of a cell from.                  *)
LEMMA TakenFrom ==
  ASSUME IInv, Lonely(mem, kept), NEW m, Sane(m), m.rs_idx = mem.rs_idx, NEW c \in Cell,
         NEW t \in Cell, NEW u \in m.seqs[c], m.seqs[c] \subseteq mem.seqs[t], u \in mem.seqs[t]
  PROVE  RollIdx(m, c) = mem.rs_idx[u] /\ (mem.rs_idx[u] # 0 => Min(m.seqs[c]) = u)
<1>1. m \in Mem /\ Sane(mem) /\ mem \in Mem
  BY DEF IInv, Sane
<1>2. Min(m.seqs[c]) \in m.seqs[c] /\ RollIdx(m, c) = m.rs_idx[Min(m.seqs[c])]
  BY <1>1, RollIdxFacts
<1> DEFINE v == Min(m.seqs[c])
<1>3. v \in mem.seqs[t] /\ v \in m.seqs[c]
  BY <1>2
<1> HIDE DEF v
<1>4. \A s \in mem.seqs[t] : s \in SeqId /\ mem.tail[s] = t
  BY <1>1 DEF Sane, Mem, Tails
<1>5. mem.rs_idx[u] # 0 => v = u
  BY <1>3, <1>4 DEF Lonely
<1>6. mem.rs_idx[v] # 0 => u = v
  BY <1>3, <1>4 DEF Lonely
<1>7. mem.rs_idx[v] = mem.rs_idx[u]
  BY <1>5, <1>6
<1> QED
  BY <1>2, <1>5, <1>7 DEF v

LEMMA BesideShown ==
  ASSUME IInv, HistInv, NEW ub \in UBatch, NEW lo, NEW hi, NEW m1, NEW g,
         Placing(mem, ub, lo, hi, m1, g), NEW f, Staged(ub, lo, hi, g, f),
         NEW u \in SeqId \ DecodedOf(ub)
  PROVE  Steady(InputsSet(f), Computed(f, ub), KeptAfter(f, ub), u)
<1> DEFINE x == InputsSet(f)
           w == Computed(f, ub)
           k == KeptAfter(f, ub)
           t == mem.tail[u]
           d == f.mem.tail[u]
<1>1. /\ Sane(mem) /\ rows \in Rows /\ kept \in [SeqId -> 0 .. NRsSeq]
      /\ Lonely(mem, kept) /\ Snaps(mem, rows, kept)
  BY DEF IInv, HistInv
<1>2. /\ Sane(f.mem) /\ f.mem.rs_idx = mem.rs_idx /\ lo .. hi \in SUBSET Cell
      /\ x.tail = f.mem.tail /\ x.pos = f.mem.pos /\ x.seqs = f.mem.seqs
      /\ \A s \in SeqId : x.rs_idx[s]
           = IF NRsSeq > 0 /\ \E c \in lo .. hi : f.mem.seqs[c] # {} /\ s = Min(f.mem.seqs[c])
             THEN 0 ELSE mem.rs_idx[s]
  BY GraphFacts
<1>3. Beside(mem, ub, lo, hi, f, u)
  BY BesideFacts
<1>4. \A h \in Group, c \in Cell : w[h][c]
        = IF c \notin lo .. hi THEN Zeroed(f)[h][c]
          ELSE IF c \in lo .. lo + Len(ub.ids) - 1
            THEN IF h = 0 \/ (KeepIntermediates(ub) /\ h < ub.len)
                 THEN AfterRow(f, ub, c, ub.len - h) ELSE Zeroed(f)[h][c]
          ELSE IF h = 0 THEN TakenRow(f, c) ELSE Zeroed(f)[h][c]
  <2>1. RowsAfter(f, ub, lo, hi, Computed(f, ub))
    BY <1>1, ComputedFacts
  <2> QED
    BY <2>1 DEF RowsAfter, w
<1>5. \A h \in Group, c \in Cell : c # f.rs_z => Zeroed(f)[h][c] = rows[h][c]
  <2>1. f.rs_z \in Cell \cup {Nowhere}
    BY RunFacts
  <2> QED
    BY <1>1, <2>1, ZeroedFacts
<1>6. k[u] = IF u \in UNION {f.mem.seqs[c] : c \in {e \in Run(f) : f.src0[e] # e}} THEN 0 ELSE kept[u]
  BY DEF KeptAfter, DecodedOf
<1>7. Run(f) = lo .. hi
  BY DEF Staged, Run
<1>8. mem.rs_idx[u] \in Group /\ kept[u] \in 0 .. NRsSeq /\ NRsSeq \in Nat
  BY <1>1, SizesAssumption DEF Sane, Mem
<1> HIDE DEF x, w, k
<1>9. CASE t = Nowhere
  <2>1. x.tail[u] = Nowhere
    BY <1>2, <1>3, <1>9 DEF Beside
  <2>2. mem.rs_idx[u] = 0 /\ x.rs_idx[u] = 0
    <3>1. mem.rs_idx[u] = 0
      BY <1>1, <1>9, CellFacts DEF Lonely
    <3> QED
      BY <1>2, <3>1
  <2>3. ~(k[u] > 0)
    <3>1. ~(kept[u] > 0)
      BY <1>1, <1>9, CellFacts DEF Snaps
    <3> QED
      BY <1>6, <3>1
  <2> QED
    BY <1>9, <2>1, <2>2, <2>3 DEF Steady, Hist, At, x, w, k
<1>10. CASE t # Nowhere
  <2>1. /\ t \in Cell /\ d \in Cell /\ d \notin Heads(ub, lo) /\ f.mem.pos[d] = mem.pos[t]
        /\ u \in f.mem.seqs[d] /\ f.mem.seqs[d] \subseteq mem.seqs[t] /\ f.rs_z # t
        /\ d \notin lo .. hi => d = t
        /\ d \in lo .. hi => f.src0[d] = t
    BY <1>3, <1>10 DEF Beside
  <2>2. u \in mem.seqs[t]
    BY <1>1, <2>1 DEF Sane, Tails
  <2>3. RollIdx(f.mem, d) = mem.rs_idx[u] /\ (mem.rs_idx[u] # 0 => Min(f.mem.seqs[d]) = u)
    BY <1>1, <1>2, <2>1, <2>2, TakenFrom
  <2>4. x.tail[u] = d /\ d # Nowhere
    BY <1>2, <2>1, CellFacts
  <2>5. At(x, u) = At(mem, u)
    BY <1>2, <1>10, <2>1, <2>4 DEF At
  <2>6. x.rs_idx[u] = IF d \in lo .. hi THEN 0 ELSE mem.rs_idx[u]
    <3>1. CASE d \in lo .. hi
      <4>1. mem.rs_idx[u] # 0 => NRsSeq > 0 /\ f.mem.seqs[d] # {} /\ u = Min(f.mem.seqs[d])
        BY <1>8, <2>1, <2>3 DEF Group
      <4>2. mem.rs_idx[u] # 0 => x.rs_idx[u] = 0
        BY <1>2, <3>1, <4>1
      <4>3. mem.rs_idx[u] = 0 => x.rs_idx[u] = 0
        BY <1>2
      <4> QED
        BY <3>1, <4>2, <4>3
    <3>2. CASE d \notin lo .. hi
      <4>1. \A c \in lo .. hi : f.mem.seqs[c] # {} => u # Min(f.mem.seqs[c])
        <5> SUFFICES ASSUME NEW c \in lo .. hi, f.mem.seqs[c] # {}, u = Min(f.mem.seqs[c]) PROVE FALSE
          OBVIOUS
        <5>1. c \in Cell /\ f.mem \in Mem
          BY <1>2 DEF Sane
        <5>2. u \in f.mem.seqs[c]
          BY <5>1, RollIdxFacts
        <5>3. f.mem.tail[u] = c
          BY <1>2, <5>1, <5>2 DEF Sane, Tails
        <5> QED
          BY <3>2, <5>3
      <4> QED
        BY <1>2, <3>2, <4>1
    <3> QED
      BY <3>1, <3>2
  <2>7. d \notin lo .. lo + Len(ub.ids) - 1
    BY <2>1 DEF Heads
  <2>8. 0 \in Group
    BY CellFacts
  <2>9. w[x.rs_idx[u]][d] = rows[mem.rs_idx[u]][t]
    <3>1. CASE d \in lo .. hi
      <4>1. w[0][d] = TakenRow(f, d)
        BY <1>4, <2>1, <2>7, <2>8, <3>1
      <4>2. TakenRow(f, d) = Zeroed(f)[mem.rs_idx[u]][t]
        BY <2>1, <2>3, <3>1 DEF TakenRow
      <4>3. Zeroed(f)[mem.rs_idx[u]][t] = rows[mem.rs_idx[u]][t]
        BY <1>5, <1>8, <2>1
      <4> QED
        BY <2>6, <3>1, <4>1, <4>2, <4>3
    <3>2. CASE d \notin lo .. hi
      <4>1. w[mem.rs_idx[u]][d] = Zeroed(f)[mem.rs_idx[u]][d]
        BY <1>4, <1>8, <2>1, <3>2
      <4>2. Zeroed(f)[mem.rs_idx[u]][d] = rows[mem.rs_idx[u]][t]
        BY <1>5, <1>8, <2>1, <3>2
      <4> QED
        BY <2>6, <3>2, <4>1, <4>2
    <3> QED
      BY <3>1, <3>2
  <2>10. Hist(x, w, u) = Hist(mem, rows, u)
    BY <1>10, <2>4, <2>9 DEF Hist
  <2>11. x.rs_idx[u] # 0 => x.tail[u] \in Cell /\ x.seqs[x.tail[u]] = {u} /\ k[u] = 0
    <3> SUFFICES ASSUME x.rs_idx[u] # 0 PROVE x.tail[u] \in Cell /\ x.seqs[x.tail[u]] = {u} /\ k[u] = 0
      OBVIOUS
    <3>1. mem.rs_idx[u] # 0 /\ d = t
      BY <2>1, <2>6
    <3>2. mem.seqs[t] = {u} /\ kept[u] = 0
      BY <1>1, <3>1 DEF Lonely
    <3>3. f.mem.seqs[d] = {u}
      BY <2>1, <3>2
    <3> QED
      BY <1>2, <1>6, <2>1, <2>4, <3>2, <3>3
  <2>12. k[u] > 0 => x.tail[u] \in Cell /\ Snapped(w, x.tail[u], k[u])
    <3> SUFFICES ASSUME k[u] > 0 PROVE x.tail[u] \in Cell /\ Snapped(w, x.tail[u], k[u])
      OBVIOUS
    <3>1. /\ u \notin UNION {f.mem.seqs[c] : c \in {e \in Run(f) : f.src0[e] # e}}
          /\ k[u] = kept[u] /\ kept[u] > 0
      BY <1>6
    <3>2. d \in lo .. hi => f.src0[d] = d
      BY <1>7, <2>1, <3>1
    <3>3. d = t
      BY <2>1, <3>2
    <3>4. Snapped(rows, t, kept[u]) /\ mem.rs_idx[u] = 0
      BY <1>1, <3>1 DEF Snaps, Lonely
    <3>5. w[0][t] = rows[0][t]
      BY <2>6, <2>9, <3>3, <3>4
    <3>6. \A h \in 1 .. kept[u] : w[h][t] = rows[h][t]
      <4> SUFFICES ASSUME NEW h \in 1 .. kept[u] PROVE w[h][t] = rows[h][t]
        OBVIOUS
      <4>1. h \in Group /\ h # 0
        BY <1>8 DEF Group
      <4>2. w[h][d] = Zeroed(f)[h][d]
        BY <1>4, <2>1, <2>7, <4>1
      <4> QED
        BY <1>5, <2>1, <3>3, <4>1, <4>2
    <3>7. Snapped(w, t, kept[u])
      BY <3>4, <3>5, <3>6 DEF Snapped
    <3> QED
      BY <2>1, <2>4, <3>1, <3>3, <3>7
  <2>13. x.rs_idx[u] \in {0, mem.rs_idx[u]}
    BY <2>6
  <2> QED
    BY <2>5, <2>10, <2>11, <2>12, <2>13 DEF Steady, x, w, k
<1> QED
  BY <1>9, <1>10

(* The groups of a micro-batch each share one state.                       *)
Together(ub) ==
  /\ ub.len <= MaxBatch
  /\ \A k \in 1 .. Len(ub.ids) : \A s \in Members(ub, k) :
       /\ Hist(mem, rows, s) = Hist(mem, rows, Leader(ub, k))
       /\ At(mem, s) + ub.len = ub.last[k]
       /\ \A t \in Members(ub, k) : s # t => mem.rs_idx[s] = 0

(* A sequence has consumed the tokens of its group, and may take back as   *)
(* many as it has snapshots.                                               *)
Extended(x, w, k, ub, j, v) ==
  /\ Hist(x, w, v) = Hist(mem, rows, v) \o [i \in 1 .. ub.len |-> Members(ub, j)]
  /\ At(x, v) = At(mem, v) + ub.len
  /\ x.rs_idx[v] = 0
  /\ k[v] > 0 => x.tail[v] \in Cell /\ Snapped(w, x.tail[v], k[v])

LEMMA FewerTokens ==
  ASSUME NEW r \in Row, NEW t \in Nat, NEW h \in 0 .. t, NEW S \in SUBSET SeqId
  PROVE  LET a == r \o [i \in 1 .. t |-> S]
         IN  Len(a) = Len(r) + t /\ SubSeq(a, 1, Len(a) - h) = r \o [i \in 1 .. t - h |-> S]
<1> DEFINE T == SUBSET SeqId
           b == [i \in 1 .. t |-> S]
           d == [i \in 1 .. t - h |-> S]
           a == r \o b
           c == r \o d
<1>1. t - h \in Nat /\ t - h <= t /\ h \in Nat
  OBVIOUS
<1>2. b \in Seq(T) /\ Len(b) = t /\ d \in Seq(T) /\ Len(d) = t - h
  BY <1>1, MoreTokens DEF Row
<1>3. (\A i \in 1 .. t : b[i] = S) /\ (\A i \in 1 .. t - h : d[i] = S)
  OBVIOUS
<1>4. r \in Seq(T) /\ Len(r) \in Nat
  BY LenProperties DEF Row
<1> HIDE DEF b, d, T
<1>5. /\ a \in Seq(T) /\ Len(a) = Len(r) + t
      /\ \A i \in 1 .. Len(r) + t : a[i] = IF i <= Len(r) THEN r[i] ELSE b[i - Len(r)]
  BY <1>2, <1>4, ConcatProperties
<1>6. /\ c \in Seq(T) /\ Len(c) = Len(r) + (t - h)
      /\ \A i \in 1 .. Len(r) + (t - h) : c[i] = IF i <= Len(r) THEN r[i] ELSE d[i - Len(r)]
  <2>1. /\ c \in Seq(T) /\ Len(c) = Len(r) + Len(d)
        /\ \A i \in 1 .. Len(r) + Len(d) : c[i] = IF i <= Len(r) THEN r[i] ELSE d[i - Len(r)]
    BY <1>2, <1>4, ConcatProperties
  <2>2. Len(r) + Len(d) = Len(r) + (t - h)
    BY <1>2
  <2> HIDE DEF c
  <2> QED
    BY <2>1, <2>2
<1> HIDE DEF a, c
<1> DEFINE n == Len(a) - h
           e == SubSeq(a, 1, n)
<1>7. n = Len(r) + (t - h) /\ n \in Nat /\ n <= Len(r) + t
  BY <1>1, <1>4, <1>5
<1> HIDE DEF n
<1>8. e \in Seq(T) /\ Len(e) = n /\ \A i \in 1 .. n : e[i] = a[i]
  <2>1. \A i \in 1 .. n : i \in 1 .. Len(a)
    BY <1>4, <1>5, <1>7
  <2>2. \A i \in 1 .. n : a[i] \in T
    BY <1>5, <2>1, ElementOfSeq
  <2>3. 1 \in Int /\ n \in Int
    BY <1>7
  <2>4. /\ SubSeq(a, 1, n) \in Seq(T) /\ Len(SubSeq(a, 1, n)) = IF 1 <= n THEN n - 1 + 1 ELSE 0
        /\ \A i \in 1 .. n - 1 + 1 : SubSeq(a, 1, n)[i] = a[1 + i - 1]
    BY <2>2, <2>3, SubSeqProperties
  <2> HIDE DEF e
  <2>5. Len(e) = n
    BY <1>7, <2>4 DEF e
  <2>6. \A i \in 1 .. n : e[i] = a[i]
    <3>1. n - 1 + 1 = n /\ \A i \in 1 .. n : 1 + i - 1 = i
      BY <1>7
    <3> QED
      BY <2>4, <3>1 DEF e
  <2> QED
    BY <2>4, <2>5, <2>6 DEF e
<1> HIDE DEF e
<1>9. \A i \in 1 .. n : a[i] = c[i]
  <2> SUFFICES ASSUME NEW i \in 1 .. n PROVE a[i] = c[i]
    OBVIOUS
  <2>1. i \in 1 .. Len(r) + t /\ i \in 1 .. Len(r) + (t - h)
    BY <1>1, <1>4, <1>7
  <2>2. CASE i <= Len(r)
    BY <1>5, <1>6, <2>1, <2>2
  <2>3. CASE ~(i <= Len(r))
    <3>1. i - Len(r) \in 1 .. t /\ i - Len(r) \in 1 .. t - h
      BY <1>1, <1>4, <2>1, <2>3
    <3> QED
      BY <1>3, <1>5, <1>6, <2>1, <2>3, <3>1
  <2> QED
    BY <2>2, <2>3
<1>10. e = c
  <2>1. Len(e) = Len(c) /\ \A i \in 1 .. Len(e) : e[i] = c[i]
    BY <1>6, <1>7, <1>8, <1>9
  <2> QED
    BY <1>6, <1>8, <2>1, SeqEqual
<1> QED
  BY <1>5, <1>10 DEF a, b, c, d, e, n

(* The graph takes a blank row for a cell of the run that was empty.       *)
LEMMA BlankTaken ==
  ASSUME IInv, HistInv, NEW ub \in UBatch, NEW lo, NEW hi, NEW m1, NEW g,
         Placing(mem, ub, lo, hi, m1, g), NEW f, Staged(ub, lo, hi, g, f),
         NEW c \in lo .. hi, g.seqs[c] = {}
  PROVE  Zeroed(f)[0][f.src0[c]] = <<>>
<1>1. rows \in Rows /\ Clean(mem, rows)
  BY DEF IInv, HistInv
<1>2. f.rs_z \in Cell \cup {Nowhere} /\ f.src0[c] \in Cell /\ c \in Cell
  <2>1. /\ f.rs_z \in Cell \cup {Nowhere} /\ \A e \in lo .. hi : f.src0[e] \in Cell
        /\ lo .. hi \in SUBSET Cell
    BY RunFacts
  <2> QED
    BY <2>1
<1>3. f.src0[c] = IF g.src[c] = Nowhere THEN f.rs_z ELSE g.src[c]
  BY StagedAt
<1>4. 0 \in Group /\ \A h \in Group, e \in Cell :
        Zeroed(f)[h][e] = IF h = 0 /\ e = f.rs_z THEN <<>> ELSE rows[h][e]
  BY <1>1, <1>2, ZeroedFacts, CellFacts
<1>5. CASE g.src[c] = Nowhere
  <2>1. f.src0[c] = f.rs_z
    BY <1>3, <1>5
  <2> QED
    BY <1>2, <1>4, <2>1
<1>6. CASE g.src[c] # Nowhere
  <2>1. ToldBlank(rows, g, c)
    BY <1>1, <1>2, <1>6, BlankRows
  <2>2. g.src[c] \in Cell /\ rows[0][g.src[c]] = <<>> /\ f.src0[c] = g.src[c]
    BY <1>3, <1>6, <2>1 DEF ToldBlank
  <2> QED
    BY <1>4, <2>2
<1> QED
  BY <1>5, <1>6

(* A head of the run takes the state of its leader.                        *)
LEMMA HeadTakes ==
  ASSUME IInv, HistInv, NEW ub \in UBatch, Together(ub), NEW lo, NEW hi, NEW m1, NEW g,
         Placing(mem, ub, lo, hi, m1, g), NEW f, Staged(ub, lo, hi, g, f),
         NEW j \in 1 .. Len(ub.ids)
  PROVE  LET c == lo + j - 1
         IN  /\ c \in Heads(ub, lo) /\ c \in lo .. hi /\ c \in Cell /\ f.mem.seqs[c] = Members(ub, j)
             /\ TakenRow(f, c) = Hist(mem, rows, Leader(ub, j))
<1> DEFINE c == lo + j - 1
           l == Leader(ub, j)
           t == mem.tail[l]
           M == Members(ub, j)
           p == Min(M)
<1>1. /\ Sane(mem) /\ rows \in Rows /\ Lonely(mem, kept) /\ Clean(mem, rows)
  BY DEF IInv, HistInv
<1>2. /\ l \in SeqId /\ l \in M /\ l \notin Followers(ub) /\ M \in SUBSET SeqId /\ M # {}
      /\ Len(ub.ids) \in Nat /\ DOMAIN ub.ids = 1 .. Len(ub.ids)
  BY UBatchFacts
<1>3. /\ LeftBy(mem, Followers(ub), m1) /\ g \in Mem /\ lo \in Cell /\ hi \in Cell
      /\ lo + Len(ub.ids) - 1 <= hi /\ Follows(m1, Leaders(ub, Len(ub.ids)), g)
      /\ g.tail[l] = c
  <2>1. /\ LeftBy(mem, Followers(ub), m1) /\ g \in Mem /\ lo \in Cell /\ hi \in Cell
        /\ lo + Len(ub.ids) - 1 <= hi /\ Follows(m1, Leaders(ub, Len(ub.ids)), g)
        /\ \A i \in 1 .. Len(ub.ids) : g.tail[Leader(ub, i)] = lo + i - 1
    <3>1. PutUpTo(m1, ub, lo, hi, Len(ub.ids), g)
      BY DEF Placing
    <3> QED
      BY <3>1 DEF Placing, PutUpTo, Placed, Consistent
  <2> QED
    BY <2>1
<1>4. c \in Heads(ub, lo) /\ c \in lo .. hi /\ (c - lo) + 1 = j
  <2>1. lo \in Int /\ hi \in Int
    BY <1>3, CellFacts
  <2> QED
    BY <1>2, <1>3, <2>1 DEF Heads
<1>5. /\ Sane(f.mem) /\ f.mem.rs_idx = mem.rs_idx /\ lo .. hi \in SUBSET Cell
  BY GraphFacts
<1>6. f.rs_z \in Cell \cup {Nowhere} /\ f.src0[c] \in Cell
  <2>1. f.rs_z \in Cell \cup {Nowhere} /\ \A e \in lo .. hi : f.src0[e] \in Cell
    BY RunFacts
  <2> QED
    BY <1>4, <2>1
<1>7. f.mem.seqs[c] = M
  <2>1. \A e \in Cell : e \in Heads(ub, lo) => f.mem.seqs[e] = Members(ub, (e - lo) + 1)
    BY DEF Staged, Heads
  <2> HIDE DEF c
  <2> QED
    BY <1>4, <1>5, <2>1
<1>8. /\ f.rs_z # Nowhere => f.rs_z # g.src[c]
      /\ f.src0[c] = IF g.src[c] = Nowhere THEN f.rs_z ELSE g.src[c]
  <2>1. c \in Cell
    BY <1>4, <1>5
  <2> HIDE DEF c
  <2> QED
    BY <1>4, <2>1, StagedAt
<1> HIDE DEF c, l, M
<1>9. c \in Cell
  BY <1>4, <1>5
<1>10. RollIdx(f.mem, c) = mem.rs_idx[l]
  <2>1. p \in M /\ RollIdx(f.mem, c) = mem.rs_idx[p]
    BY <1>2, <1>5, <1>7, <1>9, RollIdxFacts DEF Sane
  <2>2. \A s, u \in M : s # u => mem.rs_idx[s] = 0
    BY DEF Together, M
  <2> HIDE DEF p
  <2> QED
    BY <1>2, <2>1, <2>2
<1>11. \A h \in Group, e \in Cell : Zeroed(f)[h][e] = IF h = 0 /\ e = f.rs_z THEN <<>> ELSE rows[h][e]
  BY <1>1, <1>6, ZeroedFacts
<1>12. mem.rs_idx[l] \in Group /\ 0 \in Group
  BY <1>1, <1>2, CellFacts DEF Sane, Mem
<1>13. TakenRow(f, c) = Zeroed(f)[mem.rs_idx[l]][f.src0[c]]
  BY <1>10 DEF TakenRow
<1>14. ASSUME t # Nowhere PROVE TakenRow(f, c) = Hist(mem, rows, l)
  <2>1. l \in SeqId \ Followers(ub) /\ mem.tail[l] # Nowhere
    BY <1>2, <1>14
  <2>2. /\ mem.tail[l] \in Cell /\ g.tail[l] \in Cell /\ g.src[g.tail[l]] = mem.tail[l]
        /\ g.pos[g.tail[l]] = mem.pos[mem.tail[l]]
        /\ l \in g.seqs[g.tail[l]] /\ g.seqs[g.tail[l]] \subseteq mem.seqs[mem.tail[l]]
    BY <2>1, RowFollows
  <2>3. f.src0[c] = t /\ t # f.rs_z
    BY <1>3, <1>8, <1>14, <2>2
  <2>4. TakenRow(f, c) = rows[mem.rs_idx[l]][t]
    BY <1>11, <1>12, <1>13, <2>2, <2>3
  <2> QED
    BY <1>14, <2>4 DEF Hist
<1>15. ASSUME t = Nowhere PROVE TakenRow(f, c) = Hist(mem, rows, l)
  <2>1. mem.rs_idx[l] = 0
    BY <1>1, <1>2, <1>15, CellFacts DEF Lonely
  <2>2. g.seqs[c] = {}
    <3>1. m1.tail[l] = Nowhere
      BY <1>2, <1>3, <1>15 DEF LeftBy
    <3>2. l \in Leaders(ub, Len(ub.ids))
      BY DEF Leaders, l
    <3> QED
      BY <1>2, <1>3, <3>1, <3>2 DEF Follows
  <2>3. Zeroed(f)[0][f.src0[c]] = <<>>
    BY <1>4, <2>2, BlankTaken
  <2> QED
    BY <1>13, <1>15, <2>1, <2>3 DEF Hist
<1>16. TakenRow(f, c) = Hist(mem, rows, l)
  BY <1>14, <1>15
<1> QED
  BY <1>4, <1>7, <1>9, <1>16 DEF c, l, M

LEMMA DecodedShown ==
  ASSUME IInv, HistInv, NEW ub \in UBatch, Together(ub), NEW lo, NEW hi, NEW m1, NEW g,
         Placing(mem, ub, lo, hi, m1, g), NEW f, Staged(ub, lo, hi, g, f),
         NEW j \in 1 .. Len(ub.ids), NEW v \in Members(ub, j)
  PROVE  Extended(InputsSet(f), Computed(f, ub), KeptAfter(f, ub), ub, j, v)
<1> DEFINE x == InputsSet(f)
           w == Computed(f, ub)
           k == KeptAfter(f, ub)
           c == lo + j - 1
           M == Members(ub, j)
           T == TakenRow(f, c)
           n == ub.len
           row(i) == T \o [e \in 1 .. i |-> M]
<1>1. /\ Sane(mem) /\ rows \in Rows /\ kept \in [SeqId -> 0 .. NRsSeq]
  BY DEF IInv
<1>2. /\ M \in SUBSET SeqId /\ n \in Nat \ {0} /\ DOMAIN ub.ids = 1 .. Len(ub.ids)
      /\ ub.last[j] \in Pos /\ Len(ub.ids) \in Nat
  BY UBatchFacts
<1>3. /\ c \in Heads(ub, lo) /\ c \in lo .. hi /\ c \in Cell /\ f.mem.seqs[c] = M
      /\ T = Hist(mem, rows, Leader(ub, j))
  BY HeadTakes
<1>4. /\ Sane(f.mem) /\ f.mem.rs_idx = mem.rs_idx /\ f.mem.head = lo /\ lo \in Cell
      /\ x.tail = f.mem.tail /\ x.pos = f.mem.pos
      /\ \A s \in SeqId : x.rs_idx[s]
           = IF NRsSeq > 0 /\ \E e \in lo .. hi : f.mem.seqs[e] # {} /\ s = Min(f.mem.seqs[e])
             THEN 0 ELSE mem.rs_idx[s]
  BY GraphFacts
<1>5. /\ Hist(mem, rows, v) = T /\ At(mem, v) + n = ub.last[j] /\ n <= MaxBatch
      /\ \A s, u \in M : s # u => mem.rs_idx[s] = 0
  BY <1>3 DEF Together
<1>6. v \in SeqId
  BY <1>2
<1>7. x.tail[v] = c /\ x.pos[c] = ub.last[j]
  <2>1. f.mem.tail[v] = lo + j - 1
    BY StagedAt
  <2>2. (c - lo) + 1 = j
    BY <1>4, CellFacts
  <2>3. \A e \in Cell : e \in Heads(ub, lo) => f.mem.pos[e] = ub.last[(e - lo) + 1]
    BY DEF Staged, Heads
  <2>4. x.tail[v] = c
    BY <1>4, <2>1
  <2> HIDE DEF c
  <2> QED
    BY <1>3, <1>4, <2>2, <2>3, <2>4
<1>8. T \in Row /\ Len(T) \in Nat
  <2>1. \A e \in lo .. hi : TakenRow(f, e) \in Row
    BY <1>1, ComputedFacts
  <2>2. T \in Row
    BY <1>3, <2>1
  <2> QED
    BY <2>2, LenProperties DEF Row
<1>9. /\ w[0][c] = row(n)
      /\ \A h \in Group : KeepIntermediates(ub) /\ h < n => w[h][c] = row(n - h)
  <2>1. RowsAfter(f, ub, lo, hi, Computed(f, ub))
    BY <1>1, ComputedFacts
  <2>2. \A h \in Group : h = 0 \/ (KeepIntermediates(ub) /\ h < n) => w[h][c] = AfterRow(f, ub, c, n - h)
    <3>1. c \in lo .. lo + Len(ub.ids) - 1
      BY <1>3 DEF Heads
    <3> HIDE DEF w, c
    <3> QED
      BY <1>3, <2>1, <3>1 DEF RowsAfter, w
  <2>3. \A i : AfterRow(f, ub, c, i) = row(i)
    <3>1. c - f.mem.head + 1 = j
      BY <1>4, CellFacts
    <3> HIDE DEF c
    <3>2. \A i : AfterRow(f, ub, c, i) = TakenRow(f, c) \o [e \in 1 .. i |-> Members(ub, c - f.mem.head + 1)]
      BY DEF AfterRow
    <3> QED
      BY <3>1, <3>2
  <2>4. 0 \in Group /\ n - 0 = n
    BY <1>2, CellFacts
  <2> HIDE DEF w, c, row
  <2>5. w[0][c] = row(n)
    BY <2>2, <2>3, <2>4
  <2> QED
    BY <2>2, <2>3, <2>5
<1> HIDE DEF w, x
<1>10. x.rs_idx[v] = 0
  <2>1. CASE mem.rs_idx[v] = 0
    BY <1>4, <1>6, <2>1
  <2>2. CASE mem.rs_idx[v] # 0
    <3>1. M = {v}
      BY <1>5, <2>2
    <3>2. Min(M) \in M
      <4>1. f.mem \in Mem
        BY <1>4 DEF Sane
      <4> QED
        BY <1>3, <4>1, RollIdxFacts
    <3>3. v = Min(f.mem.seqs[c]) /\ f.mem.seqs[c] # {}
      BY <1>3, <3>1, <3>2
    <3>4. NRsSeq > 0
      <4>1. mem.rs_idx[v] \in Group
        BY <1>1, <1>6 DEF Sane, Mem
      <4> QED
        BY <2>2, <4>1, SizesAssumption DEF Group
    <3> QED
      BY <1>3, <1>4, <1>6, <3>3, <3>4
  <2> QED
    BY <2>1, <2>2
<1>11. c # Nowhere
  BY <1>3, CellFacts
<1> HIDE DEF c, T, n, k, M
<1>12. Hist(x, w, v) = Hist(mem, rows, v) \o [i \in 1 .. n |-> M]
  BY <1>5, <1>7, <1>9, <1>10, <1>11 DEF Hist
<1>13. At(x, v) = At(mem, v) + n
  BY <1>5, <1>7, <1>11 DEF At
<1>14. ASSUME k[v] > 0 PROVE Snapped(w, c, k[v])
  <2>1. k[v] = IF KeepIntermediates(ub) THEN n - 1 ELSE 0
    <3>1. v \in DecodedOf(ub)
      BY <1>2 DEF DecodedOf, M
    <3> QED
      BY <1>6, <3>1 DEF k, n, KeptAfter, DecodedOf
  <2>2. KeepIntermediates(ub) /\ k[v] = n - 1
    BY <1>14, <2>1
  <2>3. n <= 1 + NRsSeq /\ NRsSeq \in Nat
    BY <2>2, SizesAssumption DEF KeepIntermediates, n
  <2>4. Len(row(n)) = Len(T) + n
    <3>1. 0 \in 0 .. n
      BY <1>2
    <3> QED
      BY <1>2, <1>8, <3>1, FewerTokens
  <2>5. k[v] < MaxBatch /\ k[v] < Len(w[0][c])
    <3>1. Len(w[0][c]) = Len(T) + n
      BY <1>9, <2>4
    <3> QED
      BY <1>2, <1>5, <1>8, <2>2, <3>1, BoundsAssumption
  <2>6. ASSUME NEW h \in 1 .. k[v]
        PROVE  w[h][c] = SubSeq(w[0][c], 1, Len(w[0][c]) - h)
    <3>1. h \in Group /\ h < n /\ h \in 0 .. n
      BY <1>2, <2>2, <2>3 DEF Group
    <3>2. w[h][c] = row(n - h)
      BY <1>9, <2>2, <3>1
    <3>3. SubSeq(row(n), 1, Len(row(n)) - h) = row(n - h)
      BY <1>2, <1>8, <3>1, FewerTokens
    <3> QED
      BY <1>9, <3>2, <3>3
  <2> QED
    BY <2>5, <2>6 DEF Snapped
<1>15. k[v] > 0 => x.tail[v] \in Cell /\ Snapped(w, x.tail[v], k[v])
  BY <1>3, <1>7, <1>14
<1> QED
  BY <1>10, <1>12, <1>13, <1>15 DEF Extended, x, w, k, n, M

LEMMA CleanAfter ==
  ASSUME IInv, HistInv, NEW ub \in UBatch, NEW lo, NEW hi, NEW m1, NEW g,
         Placing(mem, ub, lo, hi, m1, g), NEW f, Staged(ub, lo, hi, g, f)
  PROVE  Clean(InputsSet(f), Computed(f, ub))
<1> DEFINE x == InputsSet(f)
           w == Computed(f, ub)
<1>1. rows \in Rows /\ Clean(mem, rows)
  BY DEF IInv, HistInv
<1>2. /\ Sane(f.mem) /\ x.src = f.mem.src /\ x.seqs = f.mem.seqs
      /\ lo \in Cell /\ hi \in Cell /\ lo .. hi \in SUBSET Cell
  BY GraphFacts
<1> SUFFICES ASSUME NEW c \in Cell, x.seqs[c] = {}, x.src[c] = c PROVE w[0][c] = <<>>
  BY DEF Clean
<1>3. c \notin Heads(ub, lo)
  <2> SUFFICES ASSUME c \in Heads(ub, lo) PROVE FALSE
    OBVIOUS
  <2>1. f.mem.seqs[c] = Members(ub, (c - lo) + 1)
    BY DEF Staged, Heads
  <2>2. (c - lo) + 1 \in 1 .. Len(ub.ids)
    BY <1>2, CellFacts, UBatchFacts DEF Heads
  <2>3. \A k \in 1 .. Len(ub.ids) : Members(ub, k) # {}
    BY UBatchFacts
  <2> QED
    BY <1>2, <2>1, <2>2, <2>3
<1>4. g.seqs[c] = {} /\ f.mem.src[c] = IF c \in lo .. hi THEN c ELSE g.src[c]
  <2>1. /\ \A e \in Cell : e \notin Heads(ub, lo) => f.mem.seqs[e] = g.seqs[e] /\ f.mem.pos[e] = g.pos[e]
        /\ \A e \in Cell : f.mem.src[e] = IF e \in lo .. hi THEN e ELSE g.src[e]
    BY StagedAt
  <2> QED
    BY <1>2, <1>3, <2>1
<1>5. f.rs_z \in Cell \cup {Nowhere}
  BY RunFacts
<1>6. 0 \in Group /\ \A h \in Group, e \in Cell :
        Zeroed(f)[h][e] = IF h = 0 /\ e = f.rs_z THEN <<>> ELSE rows[h][e]
  BY <1>1, <1>5, ZeroedFacts, CellFacts
<1>7. w[0][c] = IF c \in lo .. hi THEN TakenRow(f, c) ELSE Zeroed(f)[0][c]
  <2>1. RowsAfter(f, ub, lo, hi, Computed(f, ub))
    BY <1>1, ComputedFacts
  <2>2. c \notin lo .. lo + Len(ub.ids) - 1
    BY <1>3 DEF Heads
  <2> HIDE DEF w
  <2> QED
    BY <1>6, <2>1, <2>2 DEF RowsAfter, w
<1>8. CASE c \in lo .. hi
  <2>1. Zeroed(f)[0][f.src0[c]] = <<>>
    BY <1>4, <1>8, BlankTaken
  <2>2. RollIdx(f.mem, c) = 0
    BY <1>2 DEF RollIdx
  <2> QED
    BY <1>7, <1>8, <2>1, <2>2 DEF TakenRow
<1>9. CASE c \notin lo .. hi
  <2>1. g.src[c] = c /\ c # Nowhere
    BY <1>2, <1>4, <1>9, CellFacts
  <2>2. ToldBlank(rows, g, c)
    BY <1>1, <1>4, <2>1, BlankRows
  <2>3. rows[0][c] = <<>>
    BY <2>1, <2>2 DEF ToldBlank
  <2> QED
    BY <1>6, <1>7, <1>9, <2>3
<1> QED
  BY <1>8, <1>9

-----------------------------------------------------------------------------
(* A graph: what is left of the batch, and the step of the store.          *)

LEMMA CutFacts ==
  ASSUME NEW b, GoodBatch(b), NEW left, Lefts(b, left), NEW ub, NEW next, CutOff(b, left, ub, next)
  PROVE  \E chosen :
           /\ chosen \in [1 .. Len(ub.ids) -> 1 .. Len(b)] /\ Len(ub.ids) \in Nat
           /\ \A j \in 1 .. Len(ub.ids) :
                /\ Members(ub, j) = ToSet(b[chosen[j]].ids) /\ Leader(ub, j) = b[chosen[j]].ids[1]
                /\ left[chosen[j]] > 0 /\ ub.len <= left[chosen[j]]
                /\ ub.last[j] = b[chosen[j]].from + b[chosen[j]].len - left[chosen[j]] + ub.len - 1
           /\ \A k \in 1 .. Len(b) :
                next[k] = IF \E j \in 1 .. Len(ub.ids) : k = chosen[j] THEN left[k] - ub.len ELSE left[k]
<1>1. PICK chosen, len :
        /\ Picked(b, left, Len(b), chosen) /\ chosen # <<>> /\ len = EqualLen(left, chosen)
        /\ ub = UbatchOf(b, left, chosen, len) /\ next = LeftAfter(b, left, chosen, len)
  BY DEF CutOff
<1> DEFINE n == Len(chosen)
           ids == [j \in 1 .. n |-> b[chosen[j]].ids]
           last == [j \in 1 .. n |-> b[chosen[j]].from + b[chosen[j]].len - left[chosen[j]] + len - 1]
<1>2. /\ chosen \in [1 .. n -> 1 .. Len(b)] /\ n \in Nat /\ DOMAIN chosen = 1 .. n
      /\ \A j \in 1 .. n : left[chosen[j]] > 0
  BY <1>1, LenProperties DEF Picked
<1>3. \A j \in 1 .. n : len <= left[chosen[j]]
  BY <1>1, EqualLenFacts
<1>4. ub = [ids |-> ids, len |-> len, last |-> last]
  BY <1>1, <1>2 DEF UbatchOf
<1>5. \A j \in 1 .. n : b[chosen[j]].ids \in Seq(SeqId)
  <2>1. \A k \in 1 .. Len(b) : b[k] \in BatchItem
    BY ElementOfSeq DEF GoodBatch
  <2> QED
    BY <1>2, <2>1 DEF BatchItem
<1>6. /\ DOMAIN ids = 1 .. n /\ \A j \in 1 .. n : ids[j] = b[chosen[j]].ids
      /\ \A j \in 1 .. n : last[j] = b[chosen[j]].from + b[chosen[j]].len - left[chosen[j]] + len - 1
  OBVIOUS
<1>7. Len(ids) = n
  <2>1. ids \in [1 .. n -> Seq(SeqId)]
    BY <1>5, <1>6
  <2> HIDE DEF ids
  <2> QED
    BY <1>2, <2>1, AsSeq
<1> HIDE DEF ids, last
<1>8. ub.ids = ids /\ ub.len = len /\ ub.last = last
  BY <1>4
<1>9. ASSUME NEW j \in 1 .. n
      PROVE  Members(ub, j) = ToSet(b[chosen[j]].ids) /\ Leader(ub, j) = b[chosen[j]].ids[1]
  BY <1>6, <1>8 DEF Members, Leader, ToSet
<1>10. ASSUME NEW k \in 1 .. Len(b)
       PROVE  next[k] = IF \E j \in 1 .. n : k = chosen[j] THEN left[k] - len ELSE left[k]
  <2>1. DOMAIN b = 1 .. Len(b)
    BY LenProperties DEF GoodBatch
  <2>2. next[k] = IF k \in ToSet(chosen) THEN left[k] - len ELSE left[k]
    BY <1>1, <2>1 DEF LeftAfter
  <2>3. k \in ToSet(chosen) <=> \E j \in 1 .. n : k = chosen[j]
    BY <1>2 DEF ToSet
  <2> QED
    BY <2>2, <2>3
<1>11. Len(ub.ids) = n
  BY <1>7, <1>8
<1> HIDE DEF n
<1>12. /\ chosen \in [1 .. n -> 1 .. Len(b)] /\ n \in Nat
       /\ \A j \in 1 .. n :
            /\ Members(ub, j) = ToSet(b[chosen[j]].ids) /\ Leader(ub, j) = b[chosen[j]].ids[1]
            /\ left[chosen[j]] > 0 /\ len <= left[chosen[j]]
            /\ ub.last[j] = b[chosen[j]].from + b[chosen[j]].len - left[chosen[j]] + len - 1
       /\ \A k \in 1 .. Len(b) :
            next[k] = IF \E j \in 1 .. n : k = chosen[j] THEN left[k] - len ELSE left[k]
  <2>1. ASSUME NEW j \in 1 .. n
        PROVE  /\ Members(ub, j) = ToSet(b[chosen[j]].ids) /\ Leader(ub, j) = b[chosen[j]].ids[1]
               /\ left[chosen[j]] > 0 /\ len <= left[chosen[j]]
               /\ ub.last[j] = b[chosen[j]].from + b[chosen[j]].len - left[chosen[j]] + len - 1
    <3>1. Members(ub, j) = ToSet(b[chosen[j]].ids) /\ Leader(ub, j) = b[chosen[j]].ids[1]
      BY <1>9
    <3>2. left[chosen[j]] > 0 /\ len <= left[chosen[j]]
      BY <1>2, <1>3
    <3>3. ub.last[j] = b[chosen[j]].from + b[chosen[j]].len - left[chosen[j]] + len - 1
      <4>1. last[j] = b[chosen[j]].from + b[chosen[j]].len - left[chosen[j]] + len - 1
        BY <1>6
      <4> QED
        BY <4>1, <1>8
    <3> QED
      BY <3>1, <3>2, <3>3
  <2>2. chosen \in [1 .. n -> 1 .. Len(b)] /\ n \in Nat
    BY <1>2
  <2> QED
    BY <1>10, <2>1, <2>2
<1>13. ub.len = len /\ Len(ub.ids) = n
  BY <1>8, <1>11
<1> QED
  <2> SUFFICES /\ chosen \in [1 .. Len(ub.ids) -> 1 .. Len(b)] /\ Len(ub.ids) \in Nat
               /\ \A j \in 1 .. Len(ub.ids) :
                    /\ Members(ub, j) = ToSet(b[chosen[j]].ids)
                    /\ Leader(ub, j) = b[chosen[j]].ids[1]
                    /\ left[chosen[j]] > 0 /\ ub.len <= left[chosen[j]]
                    /\ ub.last[j] = b[chosen[j]].from + b[chosen[j]].len - left[chosen[j]]
                                     + ub.len - 1
               /\ \A k \in 1 .. Len(b) :
                    next[k] = IF \E j \in 1 .. Len(ub.ids) : k = chosen[j]
                                THEN left[k] - ub.len ELSE left[k]
    <3> WITNESS chosen
    <3> QED
      OBVIOUS
  <2>1. chosen \in [1 .. Len(ub.ids) -> 1 .. Len(b)] /\ Len(ub.ids) \in Nat
    BY <1>12, <1>13
  <2>2. ASSUME NEW j \in 1 .. Len(ub.ids)
        PROVE  /\ Members(ub, j) = ToSet(b[chosen[j]].ids)
               /\ Leader(ub, j) = b[chosen[j]].ids[1]
               /\ left[chosen[j]] > 0 /\ ub.len <= left[chosen[j]]
               /\ ub.last[j] = b[chosen[j]].from + b[chosen[j]].len - left[chosen[j]]
                                + ub.len - 1
    BY <1>12, <1>13
  <2>3. \A k \in 1 .. Len(b) :
          next[k] = IF \E j \in 1 .. Len(ub.ids) : k = chosen[j]
                      THEN left[k] - ub.len ELSE left[k]
    BY <1>12, <1>13
  <2> QED
    BY <2>1, <2>2, <2>3

LEMMA AtInt ==
  ASSUME NEW m, Sane(m), NEW s \in SeqId
  PROVE  At(m, s) \in Int
<1>1. At(m, s) \in Pos \cup {-1}
  BY PosMaxAt
<1>2. \A p \in Pos \cup {-1} : p \in Int
  BY DEF Pos
<1> QED
  BY <1>1, <1>2, Zenon

LEMMA BatchFacts ==
  ASSUME NEW b, GoodBatch(b), NEW left, Lefts(b, left), NEW k \in 1 .. Len(b)
  PROVE  /\ b[k].from \in Nat /\ b[k].len \in 1 .. MaxBatch /\ left[k] \in Nat /\ left[k] <= b[k].len
         /\ ToSet(b[k].ids) \in SUBSET SeqId /\ b[k].ids[1] \in ToSet(b[k].ids)
<1>1. b[k] \in BatchItem
  BY ElementOfSeq DEF GoodBatch
<1>2. b[k].ids \in Seq(SeqId) /\ b[k].ids # <<>>
  BY <1>1 DEF BatchItem
<1>3. DOMAIN b[k].ids = 1 .. Len(b[k].ids) /\ 1 \in 1 .. Len(b[k].ids)
  BY <1>2, EmptySeq, LenProperties
<1>4. \A i \in 1 .. Len(b[k].ids) : b[k].ids[i] \in SeqId
  BY <1>2, ElementOfSeq
<1> QED
  BY <1>1, <1>3, <1>4 DEF BatchItem, Lefts, ToSet

LEMMA CutTogether ==
  ASSUME Sane(mem), NEW b, GoodBatch(b), NEW left, Lefts(b, left), NEW ub \in UBatch, NEW next,
         CutOff(b, left, ub, next), Agrees(b, left, mem, rows)
  PROVE  Together(ub)
<1>1. PICK chosen :
        /\ chosen \in [1 .. Len(ub.ids) -> 1 .. Len(b)]
        /\ \A j \in 1 .. Len(ub.ids) :
             /\ Members(ub, j) = ToSet(b[chosen[j]].ids) /\ Leader(ub, j) = b[chosen[j]].ids[1]
             /\ left[chosen[j]] > 0 /\ ub.len <= left[chosen[j]]
             /\ ub.last[j] = b[chosen[j]].from + b[chosen[j]].len - left[chosen[j]] + ub.len - 1
  BY CutFacts
<1>2. Len(ub.ids) \in Nat \ {0} /\ ub.len \in Nat \ {0}
  BY UBatchFacts
<1>3. ub.len <= MaxBatch
  <2>1. 1 \in 1 .. Len(ub.ids)
    BY <1>2
  <2>2. chosen[1] \in 1 .. Len(b) /\ ub.len <= left[chosen[1]]
    BY <1>1, <2>1
  <2>3. left[chosen[1]] \in Nat /\ left[chosen[1]] <= b[chosen[1]].len /\ b[chosen[1]].len \in 1 .. MaxBatch
    BY <2>2, BatchFacts
  <2> QED
    BY <1>2, <2>2, <2>3, BoundsAssumption
<1>4. ASSUME NEW j \in 1 .. Len(ub.ids), NEW s \in Members(ub, j)
      PROVE  /\ Hist(mem, rows, s) = Hist(mem, rows, Leader(ub, j))
             /\ At(mem, s) + ub.len = ub.last[j]
             /\ \A t \in Members(ub, j) : s # t => mem.rs_idx[s] = 0
  <2> DEFINE k == chosen[j]
  <2>1. /\ k \in 1 .. Len(b) /\ s \in ToSet(b[k].ids) /\ left[k] > 0
        /\ Members(ub, j) = ToSet(b[k].ids) /\ Leader(ub, j) = b[k].ids[1]
        /\ ub.last[j] = b[k].from + b[k].len - left[k] + ub.len - 1
    BY <1>1
  <2> HIDE DEF k
  <2>2. /\ At(mem, s) = b[k].from + b[k].len - left[k] - 1
        /\ Hist(mem, rows, s) = Hist(mem, rows, b[k].ids[1])
        /\ \A t \in ToSet(b[k].ids) : s # t => mem.rs_idx[s] = 0
    BY <2>1 DEF Agrees
  <2>3. b[k].from \in Int /\ b[k].len \in Int /\ left[k] \in Int
    BY <2>1, BatchFacts
  <2>4. At(mem, s) + ub.len = ub.last[j]
    BY <1>2, <2>1, <2>2, <2>3
  <2> QED
    BY <2>1, <2>2, <2>4
<1> QED
  BY <1>3, <1>4 DEF Together

(* All sequences, after a graph.                                           *)
After(x, w, k, ub) ==
  /\ \A j \in 1 .. Len(ub.ids) : \A v \in Members(ub, j) : Extended(x, w, k, ub, j, v)
  /\ \A u \in SeqId \ DecodedOf(ub) : Steady(x, w, k, u)

LEMMA AgreesAfter ==
  ASSUME Sane(mem), NEW b, GoodBatch(b), NEW left, Lefts(b, left), NEW ub \in UBatch, NEW next,
         CutOff(b, left, ub, next), Agrees(b, left, mem, rows),
         NEW x, NEW w, NEW c, After(x, w, c, ub)
  PROVE  Agrees(b, next, x, w)
<1>1. PICK chosen :
        /\ chosen \in [1 .. Len(ub.ids) -> 1 .. Len(b)]
        /\ \A j \in 1 .. Len(ub.ids) :
             /\ Members(ub, j) = ToSet(b[chosen[j]].ids) /\ Leader(ub, j) = b[chosen[j]].ids[1]
             /\ left[chosen[j]] > 0 /\ ub.len <= left[chosen[j]]
        /\ \A k \in 1 .. Len(b) :
             next[k] = IF \E j \in 1 .. Len(ub.ids) : k = chosen[j] THEN left[k] - ub.len ELSE left[k]
  BY CutFacts
<1>2. DOMAIN ub.ids = 1 .. Len(ub.ids) /\ ub.len \in Nat \ {0}
  BY UBatchFacts
<1>3. SUFFICES ASSUME NEW k \in 1 .. Len(b), next[k] > 0, NEW s \in ToSet(b[k].ids)
               PROVE  /\ At(x, s) = b[k].from + b[k].len - next[k] - 1
                      /\ Hist(x, w, s) = Hist(x, w, b[k].ids[1])
                      /\ \A t \in ToSet(b[k].ids) : s # t => x.rs_idx[s] = 0
  BY DEF Agrees
<1> DEFINE a == b[k].ids[1]
<1>4. /\ b[k].from \in Int /\ b[k].len \in Int /\ left[k] \in Int
      /\ ToSet(b[k].ids) \in SUBSET SeqId /\ a \in ToSet(b[k].ids)
  BY <1>3, BatchFacts
<1> HIDE DEF a
<1>5. left[k] > 0
  BY <1>1, <1>2, <1>3, <1>4
<1>6. \A u \in ToSet(b[k].ids) :
        /\ At(mem, u) = b[k].from + b[k].len - left[k] - 1
        /\ Hist(mem, rows, u) = Hist(mem, rows, a)
        /\ \A t \in ToSet(b[k].ids) : u # t => mem.rs_idx[u] = 0
  BY <1>3, <1>5 DEF Agrees, a
<1>7. CASE \E j \in 1 .. Len(ub.ids) : k = chosen[j]
  <2>1. PICK j \in 1 .. Len(ub.ids) : k = chosen[j]
    BY <1>7
  <2>2. s \in Members(ub, j) /\ a \in Members(ub, j)
    BY <1>1, <1>3, <1>4, <2>1
  <2>3. Extended(x, w, c, ub, j, s) /\ Extended(x, w, c, ub, j, a)
    BY <2>2 DEF After
  <2>4. Hist(x, w, s) = Hist(x, w, a) /\ x.rs_idx[s] = 0 /\ At(x, s) = At(mem, s) + ub.len
    BY <1>3, <1>6, <2>3 DEF Extended
  <2>5. next[k] = left[k] - ub.len
    BY <1>1, <1>3, <2>1
  <2>6. At(x, s) = b[k].from + b[k].len - next[k] - 1
    BY <1>2, <1>3, <1>4, <1>6, <2>4, <2>5
  <2> QED
    BY <2>4, <2>6 DEF a
<1>8. CASE ~ \E j \in 1 .. Len(ub.ids) : k = chosen[j]
  <2>1. next[k] = left[k]
    BY <1>1, <1>3, <1>8
  <2>2. ASSUME NEW u \in ToSet(b[k].ids)
        PROVE  u \in SeqId \ DecodedOf(ub)
    <3> SUFFICES ASSUME u \in DecodedOf(ub) PROVE FALSE
      BY <1>4
    <3>1. PICK j \in 1 .. Len(ub.ids) : u \in Members(ub, j)
      BY <1>2 DEF DecodedOf
    <3>2. chosen[j] \in 1 .. Len(b) /\ chosen[j] # k /\ u \in ToSet(b[chosen[j]].ids)
      BY <1>1, <1>8, <3>1
    <3>3. ToSet(b[chosen[j]].ids) \cap ToSet(b[k].ids) = {}
      BY <1>3, <3>2 DEF GoodBatch
    <3> QED
      BY <2>2, <3>2, <3>3
  <2>3. Steady(x, w, c, s) /\ Steady(x, w, c, a)
    BY <1>3, <1>4, <2>2 DEF After
  <2>4. Hist(x, w, s) = Hist(x, w, a) /\ At(x, s) = At(mem, s) /\ x.rs_idx[s] \in {0, mem.rs_idx[s]}
    BY <1>3, <1>6, <2>3 DEF Steady
  <2> QED
    BY <1>3, <1>6, <2>1, <2>4 DEF a
<1> QED
  BY <1>7, <1>8

LEMMA LonelyAfter ==
  ASSUME NEW ub \in UBatch, NEW x, NEW w, NEW k, After(x, w, k, ub)
  PROVE  Lonely(x, k) /\ Snaps(x, w, k)
<1>1. ASSUME NEW u \in SeqId
      PROVE  /\ x.rs_idx[u] # 0 => x.tail[u] \in Cell /\ x.seqs[x.tail[u]] = {u} /\ k[u] = 0
             /\ k[u] > 0 => x.tail[u] \in Cell /\ Snapped(w, x.tail[u], k[u])
  <2>1. CASE u \in DecodedOf(ub)
    <3>1. DOMAIN ub.ids = 1 .. Len(ub.ids)
      BY UBatchFacts
    <3>2. PICK j \in 1 .. Len(ub.ids) : u \in Members(ub, j)
      BY <2>1, <3>1 DEF DecodedOf
    <3>3. Extended(x, w, k, ub, j, u)
      BY <3>2 DEF After
    <3> QED
      BY <3>3 DEF Extended
  <2>2. CASE u \notin DecodedOf(ub)
    <3>1. Steady(x, w, k, u)
      BY <2>2 DEF After
    <3> QED
      BY <3>1 DEF Steady
  <2> QED
    BY <2>1, <2>2
<1> QED
  BY <1>1 DEF Lonely, Snaps

(* The micro-batches that are left are those of the batch.                 *)
LEMMA ChainTail ==
  ASSUME NEW b, NEW ubs \in Seq(UBatch), ubs # <<>>, NEW L, Chain(b, L, ubs)
  PROVE  /\ CutOff(b, L[0], Head(ubs), L[1]) /\ Lefts(b, L[0])
         /\ \E M : Chain(b, M, Tail(ubs)) /\ M[0] = L[1]
<1> DEFINE n == Len(ubs)
           v == Tail(ubs)
           M == [i \in 0 .. n - 1 |-> L[i + 1]]
<1>1. n \in Nat \ {0} /\ Len(v) = n - 1 /\ \A i \in 1 .. n - 1 : v[i] = ubs[i + 1]
  <2>1. n \in Nat \ {0}
    BY EmptySeq
  <2>2. Len(v) = n - 1 /\ \A i \in 1 .. Len(v) : v[i] = ubs[i + 1]
    BY HeadTailProperties
  <2> HIDE DEF v
  <2> QED
    BY <2>1, <2>2
<1>2. Head(ubs) = ubs[1]
  BY <1>1
<1>3. /\ \A i \in 0 .. n : Lefts(b, L[i])
      /\ \A i \in 1 .. n : CutOff(b, L[i - 1], ubs[i], L[i])
  BY DEF Chain
<1>4. \A i \in 0 .. n - 1 : M[i] = L[i + 1]
  OBVIOUS
<1> HIDE DEF M, v, n
<1>5. CutOff(b, L[0], Head(ubs), L[1]) /\ Lefts(b, L[0])
  <2>1. 1 \in 1 .. n /\ 0 \in 0 .. n /\ 1 - 1 = 0
    BY <1>1
  <2>2. CutOff(b, L[1 - 1], ubs[1], L[1])
    BY <1>3, <2>1
  <2> QED
    BY <1>2, <1>3, <2>1, <2>2
<1>6. \A i \in 0 .. n - 1 : Lefts(b, M[i])
  <2>1. \A i \in 0 .. n - 1 : i + 1 \in 0 .. n
    BY <1>1
  <2> QED
    BY <1>3, <1>4, <2>1
<1>7. \A i \in 1 .. n - 1 : CutOff(b, M[i - 1], v[i], M[i])
  <2> SUFFICES ASSUME NEW i \in 1 .. n - 1 PROVE CutOff(b, M[i - 1], v[i], M[i])
    OBVIOUS
  <2>1. i - 1 \in 0 .. n - 1 /\ i \in 0 .. n - 1 /\ i + 1 \in 1 .. n /\ (i - 1) + 1 = i /\ (i + 1) - 1 = i
    BY <1>1
  <2>2. M[i - 1] = L[i] /\ M[i] = L[i + 1] /\ v[i] = ubs[i + 1]
    BY <1>1, <1>4, <2>1
  <2>3. CutOff(b, L[(i + 1) - 1], ubs[i + 1], L[i + 1])
    BY <1>3, <2>1
  <2> QED
    BY <2>1, <2>2, <2>3
<1>8. Chain(b, M, v)
  BY <1>1, <1>6, <1>7 DEF Chain
<1>9. M[0] = L[1]
  BY <1>1, <1>4
<1> QED
  BY <1>5, <1>8, <1>9 DEF v

LEMMA AfterExtends ==
  ASSUME Sane(mem), Sane(mem'), saved' = saved, NEW ub \in UBatch, ub.len <= MaxBatch,
         \A j \in 1 .. Len(ub.ids) : Members(ub, j) \in {ToSet(g) : g \in Groups},
         NEW k, After(mem', rows', k, ub)
  PROVE  StoreNext
<1> DEFINE F == Shown(mem, rows)
           G == Shown(mem', rows')
           S == {Members(ub, j) : j \in 1 .. Len(ub.ids)}
           of(u) == CHOOSE g \in S : u \in g
<1>1. /\ Len(ub.ids) \in Nat \ {0} /\ DOMAIN ub.ids = 1 .. Len(ub.ids) /\ ub.len \in Nat \ {0}
      /\ \A i, j \in 1 .. Len(ub.ids) : i # j => Members(ub, i) \cap Members(ub, j) = {}
  BY UBatchFacts
<1>2. AbsState = F /\ AbsState' = G
  BY AbsStateIs, AbsStateIsNext
<1>3. /\ G = [u \in SeqId |-> G[u]]
      /\ \A u \in SeqId : F[u] = [hist |-> Hist(mem, rows, u), pos |-> At(mem, u)]
      /\ \A u \in SeqId : G[u] = [hist |-> Hist(mem', rows', u), pos |-> At(mem', u)]
  BY DEF Shown
<1>4. S \in SUBSET {ToSet(g) : g \in Groups} /\ ub.len \in 1 .. MaxBatch
  BY <1>1, BoundsAssumption
<1>5. \A g, h \in S : g # h => g \cap h = {}
  BY <1>1
<1> HIDE DEF F, G
<1>6. ASSUME NEW u \in SeqId, \E g \in S : u \in g
      PROVE  G[u] = Store!Consume(F[u], of(u), ub.len)
  <2>1. PICK j \in 1 .. Len(ub.ids) : u \in Members(ub, j)
    BY <1>6
  <2>2. of(u) = Members(ub, j)
    <3>1. Members(ub, j) \in S /\ u \in Members(ub, j)
      BY <2>1
    <3> HIDE DEF S
    <3>2. of(u) \in S /\ u \in of(u)
      BY <3>1
    <3> QED
      BY <1>5, <3>1, <3>2
  <2>3. Extended(mem', rows', k, ub, j, u)
    BY <2>1 DEF After
  <2>4. /\ Hist(mem', rows', u) = Hist(mem, rows, u) \o [i \in 1 .. ub.len |-> Members(ub, j)]
        /\ At(mem', u) = At(mem, u) + ub.len
    BY <2>3 DEF Extended
  <2>5. F[u].hist = Hist(mem, rows, u) /\ F[u].pos = At(mem, u)
    <3>1. F[u] = [hist |-> Hist(mem, rows, u), pos |-> At(mem, u)]
      BY <1>3
    <3> QED
      BY <3>1
  <2> HIDE DEF of
  <2> QED
    BY <1>3, <2>2, <2>4, <2>5 DEF Store!Consume
<1>7. ASSUME NEW u \in SeqId, ~ \E g \in S : u \in g
      PROVE  G[u] = F[u]
  <2>1. u \in SeqId \ DecodedOf(ub)
    BY <1>1, <1>7 DEF DecodedOf
  <2>2. Steady(mem', rows', k, u)
    BY <2>1 DEF After
  <2> QED
    BY <1>3, <2>2 DEF Steady
<1> HIDE DEF S
<1>8. G = [u \in SeqId |-> IF \E g \in S : u \in g
                           THEN Store!Consume(F[u], CHOOSE g \in S : u \in g, ub.len) ELSE F[u]]
  BY <1>3, <1>6, <1>7
<1>9. AbsSaved' = AbsSaved
  BY SavedStays
<1>10. Store!Extend(S, ub.len)
  BY <1>2, <1>5, <1>8, <1>9 DEF Store!Extend
<1> QED
  BY <1>4, <1>10 DEF StoreNext, Store!Next

LEMMA ProcessUbatchShows ==
  ASSUME IInv, IInv', HistInv, ProcessUbatch
  PROVE  HistInv' /\ StoreNext
<1> DEFINE ub == Head(todo)
           f == find_slot(mem, ub)
<1>1. /\ Sane(mem) /\ Sane(mem') /\ todo \in Seq(UBatch) /\ todo # <<>>
  BY DEF IInv, ProcessUbatch
<1>2. ub \in UBatch /\ Tail(todo) \in Seq(UBatch)
  BY <1>1, TodoFacts
<1>3. /\ IF f.mem.aborted THEN mem' = f.mem /\ UNCHANGED <<rows, kept>>
         ELSE mem' = InputsSet(f) /\ rows' = Computed(f, ub) /\ kept' = KeptAfter(f, ub)
      /\ todo' = Tail(todo) /\ saved' = saved
  BY DEF ProcessUbatch
<1>4. PICK b, L : GoodBatch(b) /\ Offered(b) /\ Chain(b, L, todo) /\ Agrees(b, L[0], mem, rows)
  BY <1>1 DEF HistInv, Coming
<1>5. /\ CutOff(b, L[0], ub, L[1]) /\ Lefts(b, L[0])
      /\ \E M : Chain(b, M, Tail(todo)) /\ M[0] = L[1]
  BY <1>1, <1>4, ChainTail
<1> HIDE DEF ub
<1>6. PICK M : Chain(b, M, Tail(todo)) /\ M[0] = L[1]
  BY <1>5
<1>7. Together(ub)
  BY <1>1, <1>2, <1>4, <1>5, CutTogether
<1>8. PICK lo, hi, m1, g : Placing(mem, ub, lo, hi, m1, g) /\ Staged(ub, lo, hi, g, f) /\ Sane(f.mem)
  BY <1>1, <1>2, FindSlotFacts
<1> HIDE DEF f
<1>9. mem' = InputsSet(f) /\ rows' = Computed(f, ub) /\ kept' = KeptAfter(f, ub)
  BY <1>3, <1>8 DEF Sane
<1> DEFINE x == InputsSet(f)
           w == Computed(f, ub)
           k == KeptAfter(f, ub)
<1>10. After(x, w, k, ub)
  <2>1. \A j \in 1 .. Len(ub.ids) : \A v \in Members(ub, j) : Extended(x, w, k, ub, j, v)
    BY <1>2, <1>7, <1>8, DecodedShown
  <2>2. \A u \in SeqId \ DecodedOf(ub) : Steady(x, w, k, u)
    BY <1>2, <1>8, BesideShown
  <2> HIDE DEF x, w, k
  <2> QED
    BY <2>1, <2>2 DEF After
<1>11. Clean(x, w)
  BY <1>2, <1>8, CleanAfter
<1>12. mem' = x /\ rows' = w /\ kept' = k
  BY <1>9
<1> HIDE DEF x, w, k
<1>13. Lonely(x, k) /\ Snaps(x, w, k)
  BY <1>2, <1>10, LonelyAfter
<1>14. Agrees(b, L[1], x, w)
  BY <1>1, <1>2, <1>4, <1>5, <1>10, AgreesAfter
<1>15. Coming(x, w, Tail(todo))
  BY <1>4, <1>6, <1>14 DEF Coming
<1>16. HistInv'
  BY <1>3, <1>11, <1>12, <1>13, <1>15 DEF HistInv
<1>17. \A j \in 1 .. Len(ub.ids) : Members(ub, j) \in {ToSet(h) : h \in Groups}
  <2>1. PICK chosen :
          /\ chosen \in [1 .. Len(ub.ids) -> 1 .. Len(b)]
          /\ \A j \in 1 .. Len(ub.ids) : Members(ub, j) = ToSet(b[chosen[j]].ids)
    BY <1>4, <1>5, CutFacts
  <2> QED
    BY <1>4, <2>1 DEF Offered
<1>18. After(mem', rows', k, ub)
  BY <1>10, <1>12
<1>19. ub.len <= MaxBatch
  BY <1>7 DEF Together
<1>20. StoreNext
  BY <1>1, <1>2, <1>3, <1>17, <1>18, <1>19, AfterExtends
<1> QED
  BY <1>16, <1>20

-----------------------------------------------------------------------------
(* The state of one sequence is replaced by what was saved.                *)

LEMMA StaysSteady ==
  ASSUME IInv, HistInv, NEW x, Sane(x), NEW w, NEW k, NEW u \in SeqId,
         x.tail[u] = mem.tail[u], x.rs_idx[u] = mem.rs_idx[u], At(x, u) = At(mem, u), k[u] = kept[u],
         mem.tail[u] \in Cell => x.seqs[mem.tail[u]] \subseteq mem.seqs[mem.tail[u]],
         mem.tail[u] \in Cell => \A h \in Group : w[h][mem.tail[u]] = rows[h][mem.tail[u]]
  PROVE  Steady(x, w, k, u)
<1> DEFINE t == mem.tail[u]
<1>1. /\ Lonely(mem, kept) /\ Snaps(mem, rows, kept) /\ kept[u] \in 0 .. NRsSeq
      /\ t \in Cell \cup {Nowhere} /\ mem.rs_idx[u] \in Group
  BY DEF IInv, HistInv, Sane, Mem
<1>2. Hist(x, w, u) = Hist(mem, rows, u)
  BY <1>1 DEF Hist
<1>3. ASSUME x.rs_idx[u] # 0
      PROVE  x.tail[u] \in Cell /\ x.seqs[x.tail[u]] = {u} /\ k[u] = 0
  <2>1. t \in Cell /\ mem.seqs[t] = {u} /\ kept[u] = 0
    BY <1>1, <1>3 DEF Lonely
  <2>2. u \in x.seqs[t]
    BY <2>1 DEF Sane, Tails
  <2> QED
    BY <2>1, <2>2
<1>4. ASSUME k[u] > 0
      PROVE  x.tail[u] \in Cell /\ Snapped(w, x.tail[u], k[u])
  <2>1. t \in Cell /\ Snapped(rows, t, kept[u])
    BY <1>1, <1>4 DEF Snaps
  <2>2. 0 \in Group /\ \A h \in 1 .. kept[u] : h \in Group
    BY <1>1, SizesAssumption DEF Group
  <2>3. w[0][t] = rows[0][t] /\ \A h \in 1 .. kept[u] : w[h][t] = rows[h][t]
    BY <2>1, <2>2
  <2>4. Snapped(w, t, kept[u])
    BY <2>1, <2>3 DEF Snapped
  <2> QED
    BY <2>1, <2>4
<1> QED
  BY <1>2, <1>3, <1>4 DEF Steady

LEMMA OneLoaded ==
  ASSUME IInv, Sane(mem'), SavedOK(saved), ~saved.all, NEW s \in SeqId,
         \A u \in SeqId \ {s} : Steady(mem', rows', kept', u),
         mem'.rs_idx[s] = 0, kept'[s] = 0, Clean(mem', rows'),
         [hist |-> Hist(mem', rows', s), pos |-> At(mem', s)] = Given(saved, s),
         todo' = <<>>, saved' = saved
  PROVE  HistInv' /\ StoreNext
<1> DEFINE F == Shown(mem, rows)
           G == Shown(mem', rows')
<1>1. AbsState = F /\ AbsState' = G
  BY AbsStateIs, AbsStateIsNext DEF IInv
<1>2. /\ F = [u \in SeqId |-> F[u]] /\ G = [u \in SeqId |-> G[u]]
      /\ \A u \in SeqId : F[u] = [hist |-> Hist(mem, rows, u), pos |-> At(mem, u)]
      /\ \A u \in SeqId : G[u] = [hist |-> Hist(mem', rows', u), pos |-> At(mem', u)]
  BY DEF Shown
<1> HIDE DEF F, G
<1>3. \A u \in SeqId : u # s => G[u] = F[u]
  BY <1>2 DEF Steady
<1>4. G = [F EXCEPT ![s] = G[s]]
  BY <1>2, <1>3, OneChanges
<1>5. AbsSaved' = AbsSaved
  BY SavedStays
<1>6. AbsSaved.all = saved.all /\ AbsSaved.of[s] = Given(saved, s)
  <2>1. AbsSaved = [all |-> saved.all, of |-> [u \in SeqId |-> Given(saved, u)]]
    BY AbsSavedIs
  <2> QED
    BY <2>1
<1>7. G[s] = AbsSaved.of[s]
  BY <1>2, <1>6
<1>8. Store!LoadOne(s)
  BY <1>1, <1>4, <1>5, <1>6, <1>7 DEF Store!LoadOne
<1>9. Lonely(mem', kept') /\ Snaps(mem', rows', kept')
  <2>1. ASSUME NEW u \in SeqId
        PROVE  /\ mem'.rs_idx[u] # 0 => mem'.tail[u] \in Cell /\ mem'.seqs[mem'.tail[u]] = {u} /\ kept'[u] = 0
               /\ kept'[u] > 0 => mem'.tail[u] \in Cell /\ Snapped(rows', mem'.tail[u], kept'[u])
    BY DEF Steady
  <2> QED
    BY <2>1 DEF Lonely, Snaps
<1>10. Coming(mem', rows', todo')
  BY DEF Coming
<1>11. HistInv'
  BY <1>9, <1>10 DEF HistInv
<1> QED
  BY <1>8, <1>11 DEF StoreNext, Store!Next

(* x is mem without s.                                                     *)
Vacated(x, s) ==
  /\ Sane(x) /\ Clean(x, rows) /\ x.tail[s] = Nowhere /\ x.rs_idx[s] = 0
  /\ \A u \in SeqId \ {s} : /\ x.tail[u] = mem.tail[u] /\ x.rs_idx[u] = mem.rs_idx[u]
                            /\ At(x, u) = At(mem, u)
  /\ \A c \in Cell : x.seqs[c] \subseteq mem.seqs[c]

LEMMA RemovedVacates ==
  ASSUME IInv, HistInv, NEW s \in SeqId
  PROVE  Vacated(Removed(mem, s, <<0, -1>>), s)
<1> DEFINE r == <<0, -1>>
           x == Removed(mem, s, r)
           hit == mem.tail[s] # Nowhere /\ InRange(mem.pos[mem.tail[s]], r)
<1>1. Sane(mem) /\ mem \in Mem /\ Lonely(mem, kept) /\ Clean(mem, rows)
  BY DEF IInv, HistInv, Sane
<1>2. Sane(x) /\ Gone(mem, s, r, x)
  BY <1>1, SaneRemoved
<1>3. hit <=> mem.tail[s] # Nowhere
  <2>1. ASSUME mem.tail[s] # Nowhere
        PROVE  InRange(mem.pos[mem.tail[s]], r)
    <3>1. mem.tail[s] \in Cell /\ s \in mem.seqs[mem.tail[s]]
      BY <1>1, <2>1 DEF Sane, Mem, Tails
    <3>2. mem.pos[mem.tail[s]] \in Pos
      BY <1>1, <3>1 DEF Sane, Positions, Mem
    <3>3. r[1] = 0 /\ r[2] = -1
      OBVIOUS
    <3> HIDE DEF r
    <3>4. \A p \in Pos : p >= 0
      BY DEF Pos
    <3> QED
      BY <3>2, <3>3, <3>4 DEF InRange
  <2> QED
    BY <2>1
<1> HIDE DEF x
<1>4. /\ x.rs_idx = IF hit THEN [mem.rs_idx EXCEPT ![s] = 0] ELSE mem.rs_idx
      /\ x.tail = IF hit THEN [mem.tail EXCEPT ![s] = Nowhere] ELSE mem.tail
      /\ \A c \in Cell :
           /\ x.seqs[c] \in {mem.seqs[c], mem.seqs[c] \ {s}}
           /\ x.seqs[c] # {} => x.pos[c] = mem.pos[c]
           /\ mem.seqs[c] = {} => x.src[c] = mem.src[c]
           /\ mem.seqs[c] # {} /\ x.seqs[c] = {} => x.src[c] = Nowhere
  BY <1>2 DEF Gone
<1> HIDE DEF hit
<1>5. x.tail[s] = Nowhere /\ x.rs_idx[s] = 0
  <2>1. mem.tail[s] = Nowhere => mem.rs_idx[s] = 0
    BY <1>1, CellFacts DEF Lonely
  <2> QED
    BY <1>1, <1>3, <1>4, <2>1 DEF Mem
<1>6. \A u \in SeqId \ {s} : x.tail[u] = mem.tail[u] /\ x.rs_idx[u] = mem.rs_idx[u]
  BY <1>1, <1>4 DEF Mem
<1>7. \A u \in SeqId \ {s} : At(x, u) = At(mem, u)
  <2>1. \A c \in Cell : x.seqs[c] # {} => x.pos[c] = mem.pos[c]
    BY <1>4
  <2>2. ASSUME NEW u \in SeqId \ {s}
        PROVE  At(x, u) = At(mem, u)
    <3>1. x.tail[u] = mem.tail[u] /\ x.rs_idx[u] = mem.rs_idx[u]
      BY <1>6
    <3>2. Hist(x, rows, u) = Hist(mem, rows, u) /\ At(x, u) = At(mem, u)
      BY <1>2, <2>1, <3>1, StaysShown
    <3> QED
      BY <3>2
  <2> QED
    BY <2>2
<1>8. Clean(x, rows)
  BY <1>1, <1>4, CellFacts DEF Clean
<1>9. \A c \in Cell : x.seqs[c] \subseteq mem.seqs[c]
  BY <1>4
<1>10. Vacated(x, s)
  BY <1>2, <1>5, <1>6, <1>7, <1>8, <1>9 DEF Vacated
<1> QED
  BY <1>10 DEF x

LEMMA NothingLoaded ==
  ASSUME IInv, IInv', HistInv, NEW s \in SeqId, ~saved.all, saved.cells = <<>>,
         mem' = Removed(mem, s, <<0, -1>>), rows' = rows, kept' = [kept EXCEPT ![s] = 0],
         todo' = <<>>, saved' = saved
  PROVE  HistInv' /\ StoreNext
<1>1. Sane(mem') /\ SavedOK(saved) /\ kept \in [SeqId -> 0 .. NRsSeq]
  BY DEF IInv
<1>2. Vacated(mem', s)
  <2>1. Vacated(Removed(mem, s, <<0, -1>>), s)
    BY RemovedVacates
  <2> QED
    BY <2>1
<1>3. kept'[s] = 0 /\ \A u \in SeqId \ {s} : kept'[u] = kept[u]
  BY <1>1
<1>4. /\ Clean(mem', rows) /\ mem'.tail[s] = Nowhere /\ mem'.rs_idx[s] = 0
      /\ \A u \in SeqId \ {s} : /\ mem'.tail[u] = mem.tail[u] /\ mem'.rs_idx[u] = mem.rs_idx[u]
                                /\ At(mem', u) = At(mem, u)
      /\ \A c \in Cell : mem'.seqs[c] \subseteq mem.seqs[c]
  BY <1>2 DEF Vacated
<1>5. \A u \in SeqId \ {s} : Steady(mem', rows', kept', u)
  BY <1>1, <1>3, <1>4, StaysSteady
<1>6. Given(saved, s) = [hist |-> <<>>, pos |-> -1]
  BY <1>1, GivenOne
<1>7. [hist |-> Hist(mem', rows', s), pos |-> At(mem', s)] = Given(saved, s)
  BY <1>4, <1>6 DEF Hist, At
<1> QED
  BY <1>1, <1>3, <1>4, <1>5, <1>7, OneLoaded

(* The cell that s takes is a cell of its own; the others stay.            *)
Restored(m, f, s, p, lo) ==
  /\ f.mem \in Mem /\ f.mem.head = lo /\ lo \in Cell /\ f.mem.rs_idx = m.rs_idx
  /\ f.mem.tail[s] = lo /\ f.mem.pos[lo] = p /\ f.mem.src[lo] = lo
  /\ \A u \in SeqId \ {s} :
       /\ f.mem.tail[u] = m.tail[u] /\ At(f.mem, u) = At(m, u) /\ f.mem.tail[u] # lo
       /\ m.tail[u] \in Cell => f.mem.seqs[m.tail[u]] \subseteq m.seqs[m.tail[u]]
  /\ \A c \in Cell : f.mem.seqs[c] = {} /\ f.mem.src[c] = c => c # lo /\ rows[0][c] = <<>>

LEMMA RestoreFacts ==
  ASSUME NEW m, Sane(m), Clean(m, rows), NEW s \in SeqId, NEW p \in Pos,
         NEW f, f = find_slot(m, RestoreBatch(s, p))
  PROVE  Sane(f.mem) /\ \E lo : Restored(m, f, s, p, lo)
<1> DEFINE ub == RestoreBatch(s, p)
<1>1. /\ ub \in UBatch /\ Len(ub.ids) = 1 /\ Members(ub, 1) = {s} /\ ub.last[1] = p
  BY RestoreBatchFacts
<1> HIDE DEF ub
<1>2. PICK lo, hi, m1, g : Placing(m, ub, lo, hi, m1, g) /\ Staged(ub, lo, hi, g, f) /\ Sane(f.mem)
  <2>1. f = find_slot(m, ub)
    BY DEF ub
  <2> QED
    BY <1>1, <2>1, FindSlotFacts
<1>3. /\ lo \in Cell /\ hi = lo /\ g \in Mem /\ f.mem \in Mem
      /\ LeftBy(m, Followers(ub), m1) /\ Follows(m1, Leaders(ub, Len(ub.ids)), g)
  <2>1. /\ Sane(m) /\ LeftBy(m, Followers(ub), m1) /\ g \in Mem
        /\ lo \in Cell /\ hi \in Cell /\ lo + Len(ub.ids) - 1 <= hi
        /\ Consistent(Leaders(ub, Len(ub.ids)), g) /\ Follows(m1, Leaders(ub, Len(ub.ids)), g)
        /\ HomeBut(lo .. hi, g)
        /\ \A k \in 1 .. Len(ub.ids) : g.tail[Leader(ub, k)] = lo + k - 1
    <3>1. ub \in UBatch /\ Placing(m, ub, lo, hi, m1, g)
      BY <1>1, <1>2
    <3> QED
      BY <3>1, PlacingFacts
  <2>2. hi = lo
    BY <1>1, <1>2 DEF Placing
  <2>3. f.mem \in Mem
    BY <1>2 DEF Sane
  <2> QED
    BY <2>1, <2>2, <2>3
<1>4. lo .. hi = {lo} /\ Heads(ub, lo) = {lo} /\ (lo - lo) + 1 = 1 /\ 1 \in 1 .. Len(ub.ids)
  <2>1. lo \in Int
    BY <1>3, CellFacts
  <2>2. lo + 1 - 1 = lo /\ (lo - lo) + 1 = 1
    BY <2>1
  <2>3. \A i : i \in lo .. lo <=> i = lo
    BY <2>1
  <2>4. lo .. lo = {lo}
    BY <2>3
  <2>5. lo .. hi = {lo}
    BY <1>3, <2>4
  <2>6. Heads(ub, lo) = {lo}
    <3>1. lo + Len(ub.ids) - 1 = lo
      BY <1>1, <2>2
    <3> QED
      BY <2>4, <3>1 DEF Heads
  <2>7. 1 \in 1 .. Len(ub.ids)
    BY <1>1
  <2> QED
    BY <2>2, <2>5, <2>6, <2>7
<1>5. /\ \A c \in Cell : f.rs_z # Nowhere => f.rs_z # g.src[c]
      /\ \A c \in lo .. hi : f.src0[c] = IF g.src[c] = Nowhere THEN f.rs_z ELSE g.src[c]
      /\ \A c \in Cell : c \notin Heads(ub, lo) => f.mem.seqs[c] = g.seqs[c] /\ f.mem.pos[c] = g.pos[c]
      /\ \A k \in 1 .. Len(ub.ids) : \A v \in Members(ub, k) : f.mem.tail[v] = lo + k - 1
      /\ \A v \in SeqId \ DecodedOf(ub) : f.mem.tail[v] = g.tail[v]
      /\ f.mem.rs_idx = g.rs_idx /\ f.mem.head = lo
      /\ \A c \in Cell : f.mem.src[c] = IF c \in lo .. hi THEN c ELSE g.src[c]
  BY <1>1, <1>2, StagedAt
<1>6. f.mem.tail[s] = lo /\ s \in f.mem.seqs[lo] /\ f.mem.pos[lo] = p
  <2>1. f.mem.tail[s] = lo
    <3>1. f.mem.tail[s] = lo + 1 - 1
      BY <1>1, <1>4, <1>5
    <3> QED
      BY <1>3, <3>1, CellFacts
  <2>2. s \in f.mem.seqs[lo]
    BY <1>2, <1>3, <2>1 DEF Sane, Tails
  <2>3. lo \in lo .. lo + Len(ub.ids) - 1
    BY <1>4 DEF Heads
  <2>4. f.mem.pos[lo] = ub.last[(lo - lo) + 1]
    BY <1>2, <1>3, <2>3 DEF Staged
  <2> QED
    BY <1>1, <1>4, <2>1, <2>2, <2>4
<1>7. f.mem.rs_idx = m.rs_idx
  BY <1>3, <1>5 DEF LeftBy, Follows
<1>8. ASSUME NEW u \in SeqId \ {s}
      PROVE  /\ f.mem.tail[u] = m.tail[u] /\ At(f.mem, u) = At(m, u) /\ f.mem.tail[u] # lo
             /\ m.tail[u] \in Cell => f.mem.seqs[m.tail[u]] \subseteq m.seqs[m.tail[u]]
  <2>1. u \in SeqId \ DecodedOf(ub)
    <3>1. DOMAIN ub.ids = 1 .. Len(ub.ids)
      BY <1>1, UBatchFacts
    <3>2. \A k \in 1 .. Len(ub.ids) : k = 1
      BY <1>1
    <3> QED
      BY <1>1, <3>1, <3>2 DEF DecodedOf
  <2>2. Beside(m, ub, lo, hi, f, u)
    BY <1>1, <1>2, <2>1, BesideFacts
  <2>3. m.tail[u] \in Cell \cup {Nowhere}
    BY DEF Sane, Mem
  <2>4. CASE m.tail[u] = Nowhere
    <3>1. f.mem.tail[u] = Nowhere /\ m.tail[u] \notin Cell
      BY <2>2, <2>4, CellFacts DEF Beside
    <3> QED
      BY <1>3, <2>4, <3>1 DEF At
  <2>5. CASE m.tail[u] # Nowhere
    <3>1. /\ f.mem.tail[u] \in Cell \ Heads(ub, lo)
          /\ f.mem.pos[f.mem.tail[u]] = m.pos[m.tail[u]]
          /\ f.mem.seqs[f.mem.tail[u]] \subseteq m.seqs[m.tail[u]]
          /\ f.mem.tail[u] \notin lo .. hi => f.mem.tail[u] = m.tail[u]
      BY <2>2, <2>5 DEF Beside
    <3>2. f.mem.tail[u] = m.tail[u] /\ f.mem.tail[u] # lo
      BY <1>4, <3>1
    <3> QED
      BY <2>5, <3>1, <3>2 DEF At
  <2> QED
    BY <2>4, <2>5
<1>9. ASSUME NEW c \in Cell, f.mem.seqs[c] = {}, f.mem.src[c] = c
      PROVE  c # lo /\ rows[0][c] = <<>>
  <2>1. c # lo
    BY <1>6, <1>9
  <2>2. g.seqs[c] = {} /\ g.src[c] = c /\ c # Nowhere
    BY <1>4, <1>5, <1>9, <2>1, CellFacts
  <2>3. ToldBlank(rows, g, c)
    BY <1>1, <1>2, <2>2, BlankRows
  <2> QED
    BY <2>1, <2>2, <2>3 DEF ToldBlank
<1>10. f.mem.src[lo] = lo
  BY <1>3, <1>4, <1>5
<1>11. Restored(m, f, s, p, lo)
  BY <1>3, <1>5, <1>6, <1>7, <1>8, <1>9, <1>10 DEF Restored
<1> QED
  BY <1>2, <1>11

LEMMA OneRestored ==
  ASSUME IInv, IInv', HistInv, NEW s \in SeqId, ~saved.all, saved.cells # <<>>,
         NEW m, Vacated(m, s), NEW f, NEW lo, Restored(m, f, s, saved.cells[1].pos, lo),
         mem' = f.mem, rows' = [rows EXCEPT ![0][lo] = saved.cells[1].row],
         kept' = [kept EXCEPT ![s] = 0], todo' = <<>>, saved' = saved
  PROVE  HistInv' /\ StoreNext
<1> DEFINE row == saved.cells[1].row
           p == saved.cells[1].pos
<1>1. Sane(mem') /\ SavedOK(saved) /\ kept \in [SeqId -> 0 .. NRsSeq] /\ rows \in Rows
  BY DEF IInv
<1>2. /\ lo \in Cell /\ mem'.rs_idx = m.rs_idx
      /\ mem'.tail[s] = lo /\ mem'.pos[lo] = p /\ mem'.src[lo] = lo
      /\ \A u \in SeqId \ {s} :
           /\ mem'.tail[u] = m.tail[u] /\ At(mem', u) = At(m, u) /\ mem'.tail[u] # lo
           /\ m.tail[u] \in Cell => mem'.seqs[m.tail[u]] \subseteq m.seqs[m.tail[u]]
      /\ \A c \in Cell : mem'.seqs[c] = {} /\ mem'.src[c] = c => c # lo /\ rows[0][c] = <<>>
  BY DEF Restored
<1>3. /\ m.tail[s] = Nowhere /\ m.rs_idx[s] = 0
      /\ \A u \in SeqId \ {s} : /\ m.tail[u] = mem.tail[u] /\ m.rs_idx[u] = mem.rs_idx[u]
                                /\ At(m, u) = At(mem, u)
      /\ \A c \in Cell : m.seqs[c] \subseteq mem.seqs[c]
  BY DEF Vacated
<1>4. rows'[0][lo] = row /\ \A h \in Group, c \in Cell : c # lo => rows'[h][c] = rows[h][c]
  BY <1>1, <1>2, CellFacts DEF Rows
<1>5. kept'[s] = 0 /\ \A u \in SeqId \ {s} : kept'[u] = kept[u]
  BY <1>1
<1> HIDE DEF row, p
<1>6. ASSUME NEW u \in SeqId \ {s}
      PROVE  Steady(mem', rows', kept', u)
  <2>1. /\ mem'.tail[u] = mem.tail[u] /\ mem'.rs_idx[u] = mem.rs_idx[u] /\ At(mem', u) = At(mem, u)
        /\ kept'[u] = kept[u]
    BY <1>2, <1>3, <1>5
  <2>2. mem.tail[u] \in Cell => mem'.seqs[mem.tail[u]] \subseteq mem.seqs[mem.tail[u]]
    BY <1>2, <1>3
  <2>3. mem.tail[u] \in Cell => \A h \in Group : rows'[h][mem.tail[u]] = rows[h][mem.tail[u]]
    BY <1>2, <1>4, <2>1
  <2> QED
    BY <1>1, <2>1, <2>2, <2>3, StaysSteady
<1>7. mem'.rs_idx[s] = 0
  BY <1>2, <1>3
<1>8. Clean(mem', rows')
  BY <1>2, <1>4, CellFacts DEF Clean
<1>9. [hist |-> Hist(mem', rows', s), pos |-> At(mem', s)] = Given(saved, s)
  <2>1. Given(saved, s) = [hist |-> row, pos |-> p]
    BY <1>1, GivenOne DEF row, p
  <2>2. Hist(mem', rows', s) = row /\ At(mem', s) = p
    BY <1>2, <1>4, <1>7, CellFacts DEF Hist, At
  <2> QED
    BY <2>1, <2>2
<1> QED
  BY <1>1, <1>5, <1>6, <1>7, <1>8, <1>9, OneLoaded

LEMMA StateReadSeqShows ==
  ASSUME IInv, IInv', HistInv, NEW s \in SeqId, StateReadSeq(s)
  PROVE  HistInv' /\ StoreNext
<1> DEFINE m == Removed(mem, s, <<0, -1>>)
           cell == saved.cells[1]
           f == find_slot(m, RestoreBatch(s, cell.pos))
<1>1. Vacated(m, s) /\ SavedOK(saved)
  BY RemovedVacates DEF IInv
<1>2. /\ Ready /\ ~saved.all
      /\ IF saved.cells = <<>> THEN mem' = m /\ UNCHANGED rows
         ELSE IF f.mem.aborted THEN mem' = f.mem /\ UNCHANGED rows
         ELSE /\ mem' = [f.mem EXCEPT !.src[f.mem.head] = f.mem.head]
              /\ rows' = [rows EXCEPT ![0][f.mem.head] = cell.row]
      /\ kept' = [kept EXCEPT ![s] = 0] /\ todo' = todo /\ saved' = saved
  BY DEF StateReadSeq, RestoreBatch
<1>3. todo' = <<>>
  BY <1>2 DEF Ready
<1>4. CASE saved.cells = <<>>
  <2>1. mem' = Removed(mem, s, <<0, -1>>) /\ rows' = rows
    BY <1>2, <1>4
  <2> QED
    BY <1>2, <1>3, <1>4, <2>1, NothingLoaded
<1>5. CASE saved.cells # <<>>
  <2> HIDE DEF m
  <2>1. cell.pos \in Pos
    <3>1. Len(saved.cells) \in Nat /\ saved.cells \in Seq(SavedCell)
      BY <1>1, SavedFacts
    <3>2. 1 \in 1 .. Len(saved.cells)
      BY <1>5, <3>1, EmptySeq
    <3> QED
      BY <1>1, <3>2, SavedFacts
  <2>2. Sane(m) /\ Clean(m, rows)
    BY <1>1 DEF Vacated
  <2>3. Sane(f.mem) /\ \E lo : Restored(m, f, s, cell.pos, lo)
    BY <2>1, <2>2, RestoreFacts
  <2> HIDE DEF f
  <2>4. PICK lo : Restored(m, f, s, cell.pos, lo)
    BY <2>3
  <2>5. f.mem \in Mem /\ f.mem.head = lo /\ lo \in Cell /\ f.mem.src[lo] = lo
    BY <2>4 DEF Restored
  <2>6. mem' = f.mem /\ rows' = [rows EXCEPT ![0][lo] = cell.row]
    <3>1. ~f.mem.aborted
      BY <2>3 DEF Sane
    <3>2. mem' = [f.mem EXCEPT !.src[lo] = lo] /\ rows' = [rows EXCEPT ![0][lo] = cell.row]
      BY <1>2, <1>5, <2>5, <3>1
    <3> DEFINE y == f.mem
    <3>3. y \in Mem /\ y.src[lo] = lo /\ mem' = [y EXCEPT !.src[lo] = lo]
      BY <2>5, <3>2
    <3> HIDE DEF y
    <3>4. mem' = y
      BY <2>5, <3>3 DEF Mem
    <3> QED
      BY <3>2, <3>4 DEF y
  <2> QED
    BY <1>1, <1>2, <1>3, <1>5, <2>4, <2>6, OneRestored
<1> QED
  BY <1>4, <1>5

-----------------------------------------------------------------------------
(* Every step.                                                             *)

LEMMA StepShows ==
  ASSUME Careful, IInv, IInv', HistInv, [Next]_vars
  PROVE  HistInv' /\ StoreNext
<1>1. ASSUME NEW data \in BOOLEAN, clear(data) PROVE HistInv' /\ StoreNext
  BY <1>1, ClearShows
<1>2. ASSUME NEW s \in SeqId, NEW r \in RmRanges, SeqRmTail(s, r) PROVE HistInv' /\ StoreNext
  BY <1>2, SeqRmTailShows
<1>3. ASSUME NEW s \in SeqId, NEW r \in RmRanges, SeqRm(s, r) PROVE HistInv' /\ StoreNext
  BY <1>3, SeqRmShows
<1>4. ASSUME NEW src \in SeqId, NEW dst \in SeqId, SeqCp(src, dst) PROVE HistInv' /\ StoreNext
  BY <1>4, SeqCpShows
<1>5. ASSUME NEW s \in SeqId, SeqKeep(s) PROVE HistInv' /\ StoreNext
  BY <1>5, SeqKeepShows
<1>6. ASSUME NEW s \in SeqId, NEW r \in RmRanges, NEW d \in Deltas, SeqAdd(s, r, d)
      PROVE  HistInv' /\ StoreNext
  BY <1>6, SeqAddShows
<1>7. ASSUME NEW s \in SeqId, NEW r \in RmRanges, NEW d \in Divs, SeqDiv(s, r, d)
      PROVE  HistInv' /\ StoreNext
  BY <1>7, SeqDivShows
<1>8. ASSUME NEW s \in SeqId, StateWriteSeq(s) PROVE HistInv' /\ StoreNext
  BY <1>8, StateWriteSeqShows
<1>9. ASSUME NEW s \in SeqId, StateReadSeq(s) PROVE HistInv' /\ StoreNext
  BY <1>9, StateReadSeqShows
<1>10. ASSUME StateWriteAll PROVE HistInv' /\ StoreNext
  BY <1>10, StateWriteAllShows
<1>11. ASSUME StateReadAll PROVE HistInv' /\ StoreNext
  BY <1>11, StateReadAllShows
<1>12. ASSUME NEW batch \in Batches, Decode(batch) PROVE HistInv' /\ StoreNext
  BY <1>12, DecodeShows
<1>13. ASSUME ProcessUbatch PROVE HistInv' /\ StoreNext
  BY <1>13, ProcessUbatchShows
<1>14. ASSUME UNCHANGED vars PROVE HistInv' /\ StoreNext
  <2>1. UNCHANGED <<mem, rows, kept, todo>> /\ saved' = saved
    BY <1>14 DEF vars
  <2> QED
    BY <2>1, UnchangedHist, SavedStays DEF StoreNext
<1> QED
  BY <1>1, <1>2, <1>3, <1>4, <1>5, <1>6, <1>7, <1>8, <1>9, <1>10, <1>11, <1>12, <1>13, <1>14 DEF Next

(* When the application takes back only tokens of which the last           *)
(* micro-batch kept snapshots, the cells, the staged sources, the copies   *)
(* on demand and the rows of snapshots never show: every sequence has the  *)
(* state and the position that its own history gives it.                   *)
THEOREM MemoryImplementsStore ==
  ASSUME Careful
  PROVE  Spec => ImplementsStates
<1>1. Init => HistInv /\ Store!Init
  BY HistInvInit, StoreInit
<1>2. IInv /\ IInv' /\ HistInv /\ [Next]_vars => HistInv' /\ [Store!Next]_<<AbsState, AbsSaved>>
  BY StepShows DEF StoreNext
<1> QED
  BY <1>1, <1>2, IInvAlways, PTL DEF Spec, ImplementsStates, Store!Spec
=============================================================================
