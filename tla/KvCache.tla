------------------------------ MODULE KvCache ------------------------------
(***************************************************************************)
(* The KV cache of a context (class eden_kv_cache, src/eden-kv-cache.cpp)  *)
(* driven by eden_context::decode (src/eden-context.cpp).                  *)
(*                                                                         *)
(* An application calls the eden_memory_seq_* functions and eden_decode    *)
(* one after another.  A decode is several steps here, one per iteration   *)
(* of the loops of the code:                                               *)
(*   "update"   apply the queued stream copies, then the pending K-shift   *)
(*   "prepare"  find a slot for each micro-batch, placing it tentatively   *)
(*   "restore"  take the tentative placements back, last first             *)
(*   "apply"    place micro-batch i_cur for good                           *)
(*   "compute"  run its graph, which may fail or be aborted                *)
(* The K/V data of a cell is abstracted to the positions that the K rows   *)
(* of its layers are rotated to: k_rows[st][i] = {p}, or {} when the rows  *)
(* hold nothing meaningful.                                                *)
(***************************************************************************)
EXTENDS KvCells, Sequences

CONSTANTS Unified,    \* kv_unified: one stream for all sequences, or one per sequence
          NSwa,       \* sliding window (EDEN_SWA_TYPE_STANDARD); 0: none
          NUbatch,    \* n_ubatch
          MaxBatch,   \* bound: tokens of a batch
          MaxSeqs,    \* bound: sequences a token is assigned to
          MaxPending, \* bound: stream copies queued at once
          RmRanges,   \* the <<p0, p1>> given to seq_rm
          CpRanges,   \*   ... to seq_cp
          AddRanges, Deltas, \* ... to seq_add
          DivRanges, Divs,   \* ... to seq_div
          KeepSeqs,   \* the sequences given to seq_keep
          Faults      \* which of "shift" (its allocation), "shift_abort" and
                      \* "compute" may happen

ASSUME UnifiedAssumption == Unified \in BOOLEAN
ASSUME NSwaAssumption == NSwa \in Nat
ASSUME NUbatchAssumption == NUbatch \in Nat \ {0}
ASSUME MaxBatchAssumption == MaxBatch \in Nat
ASSUME RangesAssumption ==
  RmRanges \cup CpRanges \cup AddRanges \cup DivRanges \subseteq Int \X Int
ASSUME DeltasAssumption == Deltas \subseteq Int
ASSUME KeepSeqsAssumption == KeepSeqs \subseteq SeqId
ASSUME DivsAssumption == Divs \subseteq Nat \ {0}

VARIABLES v_cells,      \* cells of every stream
          v_heads,      \* where the next slot search starts
          k_rows,       \* K data of every stream
          sc_info,      \* queued stream copies <<source, destination>>
          phase,        \* "idle" or the step of the running decode
          ubatches,     \* micro-batches of the running decode
          sinfos,       \* slots found for the first micro-batches
          stack,        \* prepare's recovery stack
          i_cur,        \* micro-batch being applied
          did_optimize, \* the one retry of decode is used up
          before        \* history: cells and heads when prepare started

memVars == <<v_cells, v_heads, k_rows, sc_info>>
callVars == <<phase, ubatches, sinfos, stack, i_cur, did_optimize, before>>
vars == <<memVars, callVars>>

Stream == IF Unified THEN {0} ELSE SeqId
seq_to_stream(s) == IF Unified THEN 0 ELSE s

Least(S) == CHOOSE x \in S : \A y \in S : x <= y
Most(S) == CHOOSE x \in S : \A y \in S : x >= y

(* A token of a batch, and the micro-batches: the tokens of every stream.  *)
Token == [pos : Pos, seqs : (SUBSET SeqId) \ {{}}]
UBatch == [Stream -> Seq(Token)]
seq_id_0(tok) == Least(tok.seqs)
Toks(ub, st) == {ub[st][k] : k \in DOMAIN ub[st]}

-----------------------------------------------------------------------------
(* Ranges as every seq_* function normalises them.                         *)
Lo(r) == IF r[1] < 0 THEN 0 ELSE r[1]
Hi(r) == IF r[2] < 0 THEN MaxPos + 1 ELSE r[2]
InRange(c, r) == {i \in Cell : pos_in(c, i, Lo(r), Hi(r))}
Has(c, s) == {i \in Cell : s \in c.seq[i]}

(* The head moves down to the first freed cell, never up.                  *)
LowerHead(head, freed) ==
  IF freed # {} /\ Least(freed) < head THEN Least(freed) ELSE head

(* is_masked_swa: may position p0 no longer be seen from position p1?      *)
is_masked_swa(p0, p1) == NSwa > 0 /\ p1 - p0 >= NSwa

-----------------------------------------------------------------------------
(* find_slot for n tokens: the first n usable cells met when scanning      *)
(* cyclically from the head; the result maps each cell to its token.       *)
(* Mutant: the cell is masked only one token later.                        *)
CanUse_early(c, i) ==
  \/ is_empty(c, i)
  \/ \E s \in SeqId : c.seq[i] = {s} /\ is_masked_swa(c.pos[i], seq_pos_max(c, s) + 2)

CanUse(c, i) ==
  \/ is_empty(c, i)
  \/ \E s \in SeqId : c.seq[i] = {s} /\ is_masked_swa(c.pos[i], seq_pos_max(c, s) + 1)

ScanFrom(c, head, n) == IF head > Cardinality(c.used) + 2 * n THEN 0 ELSE head

Rank(c, start, i) ==
  Cardinality({j \in Cell : CanUse(c, j) /\ (j - start) % Size < (i - start) % Size})

(* Mutant: the search gives up one cell too soon.                          *)
find_slot_short(c, head, n) ==
  LET start == ScanFrom(c, head, n)
  IN  [i \in {j \in Cell : CanUse(c, j) /\ Rank(c, start, j) < n
                             /\ (j - start) % Size < Size - 1} |-> Rank(c, start, i) + 1]

find_slot(c, head, n) ==
  LET start == ScanFrom(c, head, n)
  IN  [i \in {j \in Cell : CanUse(c, j) /\ Rank(c, start, j) < n} |-> Rank(c, start, i) + 1]

SlotsFor(ub) == [st \in Stream |-> find_slot(v_cells[st], v_heads[st], Len(ub[st]))]
Fits(sinfo, ub) == \A st \in Stream : Cardinality(DOMAIN sinfo[st]) = Len(ub[st])

(* apply_ubatch on one stream.  Overwriting a masked cell of a sequence    *)
(* purges every lower position of that sequence.                           *)
PosMaxRm(c, M, s) ==
  LET P == {c.pos[i] : i \in {j \in M : c.seq[j] = {s}}} IN IF P = {} THEN -1 ELSE Most(P)

Emplace(c, slot, toks) ==
  LET M == DOMAIN slot
  IN  pos_set(rm(c, {i \in M : ~is_empty(c, i)}), M,
              [i \in M |-> toks[slot[i]].pos], [i \in M |-> toks[slot[i]].seqs])

Purged(c, slot, placed) ==
  [i \in Cell |-> {s \in placed.seq[i] : placed.pos[i] <= PosMaxRm(c, DOMAIN slot, s)}]

(* Mutant: no purge.                                                       *)
apply_ubatch_no_purge(c, slot, toks) == Emplace(c, slot, toks)

apply_ubatch(c, slot, toks) ==
  LET placed == Emplace(c, slot, toks) IN seq_rm(placed, Purged(c, slot, placed))

(* Mutant: one cell too far.                                               *)
HeadAfter_past(head, slot) ==
  IF DOMAIN slot = {} THEN head
  ELSE (CHOOSE i \in DOMAIN slot : \A j \in DOMAIN slot : slot[i] >= slot[j]) + 2

HeadAfter(head, slot) ==
  IF DOMAIN slot = {} THEN head
  ELSE (CHOOSE i \in DOMAIN slot : \A j \in DOMAIN slot : slot[i] >= slot[j]) + 1

Apply(sinfo, ub) ==
  /\ v_cells' = [st \in Stream |-> apply_ubatch(v_cells[st], sinfo[st], ub[st])]
  /\ v_heads' = [st \in Stream |-> HeadAfter(v_heads[st], sinfo[st])]

-----------------------------------------------------------------------------
(* eden_batch_allocr: the micro-batches of a batch of n tokens of the      *)
(* sequences A followed by m tokens of the sequences B.  Positions         *)
(* continue those in memory (init), or start at 0.                         *)
StartPos(A) == seq_pos_max(v_cells[seq_to_stream(Least(A))], Least(A)) + 1

RunOf(A, n) == [k \in 1 .. n |-> [pos |-> StartPos(A) + k - 1, seqs |-> A]]

(* Sequences coupled by a token must span the same positions.              *)
Together(A) ==
  \A s, t \in A : LET cs == v_cells[seq_to_stream(s)]
                      ct == v_cells[seq_to_stream(t)]
                  IN  /\ seq_pos_min(cs, s) = seq_pos_min(ct, t)
                      /\ seq_pos_max(cs, s) = seq_pos_max(ct, t)

Lesser(a, b) == IF a < b THEN a ELSE b
Chunk(q, k, toks) == SubSeq(toks, (k - 1) * q + 1, Lesser(k * q, Len(toks)))
NChunks(q, len) == (len + q - 1) \div q

split_simple(toks) ==
  [k \in 1 .. NChunks(NUbatch, Len(toks)) |-> [st \in Stream |-> Chunk(NUbatch, k, toks)]]

OneStream(s, toks) ==
  [k \in 1 .. NChunks(NUbatch, Len(toks)) |->
     [st \in Stream |-> IF st = s THEN Chunk(NUbatch, k, toks) ELSE <<>>]]

(* Sequential equal split: two sequences advance together while both have  *)
(* tokens and their ids are consecutive, then what is left alone.          *)
split_equal(a, toksA, b, toksB) ==
  LET joint == IF b = a + 1 THEN Lesser(Len(toksA), Len(toksB)) ELSE 0
      q     == IF NUbatch \div 2 = 0 THEN 1 ELSE NUbatch \div 2
      both  == [k \in 1 .. NChunks(q, joint) |->
                  [st \in Stream |-> IF st = a THEN Chunk(q, k, SubSeq(toksA, 1, joint))
                                     ELSE IF st = b THEN Chunk(q, k, SubSeq(toksB, 1, joint))
                                     ELSE <<>>]]
  IN  both \o OneStream(a, SubSeq(toksA, joint + 1, Len(toksA)))
           \o OneStream(b, SubSeq(toksB, joint + 1, Len(toksB)))

SeqSets == {A \in SUBSET SeqId : A # {} /\ Cardinality(A) <= (IF Unified THEN MaxSeqs ELSE 1)}

(* balloc->init accepts the batch: it continues the sequences.             *)
Valid(A, n) == Together(A) /\ StartPos(A) + n - 1 <= MaxPos

init_batch(A, n, B, m) ==
  IF Unified THEN split_simple(RunOf(A, n) \o RunOf(B, m))
             ELSE split_equal(Least(A), RunOf(A, n), Least(B), RunOf(B, m))

-----------------------------------------------------------------------------
Init ==
  /\ v_cells = [st \in Stream |-> reset]
  /\ v_heads = [st \in Stream |-> 0]
  /\ k_rows = [st \in Stream |-> [i \in Cell |-> {}]]
  /\ sc_info = <<>>
  /\ phase = "idle"
  /\ ubatches = <<>>
  /\ sinfos = <<>>
  /\ stack = <<>>
  /\ i_cur = 0
  /\ did_optimize = FALSE
  /\ before = <<>>

-----------------------------------------------------------------------------
(* The memory operations of the application, between decodes.              *)

clear(data) ==
  /\ phase = "idle"
  /\ v_cells' = [st \in Stream |-> reset]
  /\ v_heads' = [st \in Stream |-> 0]
  /\ k_rows' = IF data THEN [st \in Stream |-> [i \in Cell |-> {}]] ELSE k_rows
  /\ UNCHANGED <<sc_info, callVars>>

OnStream(st, c) == v_cells' = [v_cells EXCEPT ![st] = c]

(* The cells from which seq_rm(s, r) removes s, as a set per cell.         *)
Selected(c, s, r) == [i \in Cell |-> IF i \in InRange(c, r) THEN c.seq[i] \cap {s} ELSE {}]

SeqRm(s, r) ==
  LET st == seq_to_stream(s)
      G  == Selected(v_cells[st], s, r)
  IN  /\ phase = "idle"
      /\ OnStream(st, seq_rm(v_cells[st], G))
      /\ v_heads' = [v_heads EXCEPT ![st] = LowerHead(@, Freed(v_cells[st], G))]
      /\ UNCHANGED <<k_rows, sc_info, callVars>>

(* seq_rm with seq_id = -1: any sequence, every stream.                    *)
SeqRmAny(r) ==
  /\ phase = "idle"
  /\ v_cells' = [st \in Stream |-> rm(v_cells[st], InRange(v_cells[st], r))]
  /\ v_heads' = [st \in Stream |-> LowerHead(v_heads[st], InRange(v_cells[st], r))]
  /\ UNCHANGED <<k_rows, sc_info, callVars>>

(* seq_cp within a stream: the cells of src also join dst.  Only an        *)
(* assertion demands that dst is not in them already; the callers in the   *)
(* repository clear dst first, which Fresh states.                         *)
CpCells(src, r) == InRange(v_cells[0], r) \cap Has(v_cells[0], src)
Fresh(src, dst, r) == CpCells(src, r) \cap Has(v_cells[0], dst) = {}

SeqCpSame(src, dst, r) ==
  /\ phase = "idle" /\ Unified /\ src # dst
  /\ OnStream(0, seq_add(v_cells[0], CpCells(src, r), dst))
  /\ UNCHANGED <<v_heads, k_rows, sc_info, callVars>>

(* seq_cp across streams: the destination stream becomes the source's      *)
(* cells at once, its K/V data only at the next update.                    *)
CopyCells(c, src, dst) ==
  LET M == Has(c, src)
  IN  [pos       |-> [i \in Cell |-> IF i \in M THEN c.pos[i] ELSE Empty],
       shift     |-> [i \in Cell |-> IF i \in M THEN c.shift[i] ELSE 0],
       seq       |-> [i \in Cell |-> IF i \in M THEN {dst} ELSE {}],
       used      |-> M,
       seq_pos   |-> seq_pos_inc(reset.seq_pos, c.pos, Within(M, [i \in Cell |-> {dst}])),
       has_shift |-> \E i \in M : c.shift[i] # 0]

IsFull(r) == ~(r[1] > 0 /\ r[1] + 1 < Size) /\ ~(r[2] > 0 /\ r[2] + 1 < Size)

SeqCpCross(src, dst, r) ==
  /\ phase = "idle" /\ ~Unified /\ src # dst
  /\ IsFull(r)
  /\ Len(sc_info) < MaxPending
  /\ sc_info' = Append(sc_info, <<src, dst>>)
  /\ OnStream(dst, CopyCells(v_cells[src], src, dst))
  /\ v_heads' = [v_heads EXCEPT ![dst] = v_heads[src]]
  /\ UNCHANGED <<k_rows, callVars>>

SeqKeep(s) ==
  LET st == seq_to_stream(s)
  IN  /\ phase = "idle"
      /\ OnStream(st, seq_keep(v_cells[st], s))
      /\ v_heads' = [v_heads EXCEPT ![st] = LowerHead(@, Dropped(v_cells[st], s))]
      /\ UNCHANGED <<k_rows, sc_info, callVars>>

Moved(s, r) == InRange(v_cells[seq_to_stream(s)], r) \cap Has(v_cells[seq_to_stream(s)], s)

SeqAdd(s, r, d) ==
  LET st   == seq_to_stream(s)
      c    == v_cells[st]
      gone == {i \in Moved(s, r) : c.pos[i] + d < 0}
  IN  /\ phase = "idle"
      /\ d # 0 /\ Lo(r) # Hi(r)
      /\ \A i \in Moved(s, r) : c.pos[i] + d <= MaxPos
      /\ OnStream(st, pos_add(c, Moved(s, r), d))
      /\ v_heads' = [v_heads EXCEPT ![st] = IF gone # {} THEN Least(gone) ELSE 0]
      /\ UNCHANGED <<k_rows, sc_info, callVars>>

(* Bound: K rows rotated at most to 2 * MaxPos (seq_div and seq_add in     *)
(* turn can drive them up forever).                                        *)
RowsInReach(st, M, d) ==
  \A i \in M : \A p \in k_rows[st][i] :
    LET c == v_cells[st] IN p + c.shift[i] + c.pos[i] - (c.pos[i] \div d) <= 2 * MaxPos

SeqDiv(s, r, d) ==
  LET st == seq_to_stream(s)
  IN  /\ phase = "idle"
      /\ d # 1 /\ Lo(r) # Hi(r)
      /\ RowsInReach(st, Moved(s, r), d)
      /\ OnStream(st, pos_div(v_cells[st], Moved(s, r), d))
      /\ UNCHANGED <<v_heads, k_rows, sc_info, callVars>>

-----------------------------------------------------------------------------
(* decode.                                                                 *)

Idle ==
  /\ phase' = "idle"
  /\ ubatches' = <<>> /\ sinfos' = <<>> /\ stack' = <<>>
  /\ i_cur' = 0 /\ did_optimize' = FALSE /\ before' = <<>>

DecodeBegin(A, n, B, m) ==
  /\ phase = "idle"
  /\ Valid(A, n) /\ (m > 0 => Valid(B, m) /\ A \cap B = {})
  /\ phase' = "update"
  /\ ubatches' = init_batch(A, n, B, m)
  /\ UNCHANGED <<memVars, sinfos, stack, i_cur, did_optimize, before>>

(* update: one queued stream copy ...                                      *)
UpdateCopy ==
  /\ phase = "update" /\ sc_info # <<>>
  /\ k_rows' = [k_rows EXCEPT ![Head(sc_info)[2]] = k_rows[Head(sc_info)[1]]]
  /\ sc_info' = Tail(sc_info)
  /\ UNCHANGED <<v_cells, v_heads, callVars>>

get_has_shift == \E st \in Stream : v_cells[st].has_shift

(* ... then the K-shift.  When its graph cannot be allocated, or is        *)
(* aborted after some of the layers, the shifts stay pending, and decode   *)
(* goes on.                                                                *)
Shifted(st) ==
  [i \in Cell |-> {p + v_cells[st].shift[i] : p \in k_rows[st][i]}]

(* Bound: no second abort while layers disagree.                           *)
UnmixedRows == \A st \in Stream : \A i \in Cell : Cardinality(k_rows[st][i]) <= 1

UpdateShift ==
  /\ phase = "update" /\ sc_info = <<>>
  /\ \/ /\ get_has_shift
        /\ k_rows' = [st \in Stream |-> Shifted(st)]
        /\ v_cells' = [st \in Stream |-> reset_shift(v_cells[st])]
     \/ /\ get_has_shift => "shift" \in Faults
        /\ UNCHANGED <<k_rows, v_cells>>
     \/ /\ get_has_shift /\ "shift_abort" \in Faults /\ UnmixedRows
        /\ k_rows' = [st \in Stream |-> [i \in Cell |-> k_rows[st][i] \cup Shifted(st)[i]]]
        /\ UNCHANGED v_cells
  /\ phase' = "prepare"
  /\ before' = IF did_optimize THEN before ELSE [cells |-> v_cells', heads |-> v_heads]
  /\ UNCHANGED <<v_heads, sc_info, ubatches, sinfos, stack, i_cur, did_optimize>>

(* Mutant: the slots are remembered, but the cells not marked.             *)
PrepareSlot_unmarked ==
  LET ub    == ubatches[Len(sinfos) + 1]
      sinfo == SlotsFor(ub)
  IN  /\ phase = "prepare" /\ Len(sinfos) < Len(ubatches)
      /\ Fits(sinfo, ub)
      /\ sinfos' = Append(sinfos, sinfo)
      /\ UNCHANGED <<memVars, stack, phase, ubatches, i_cur, did_optimize, before>>

(* prepare: place the next micro-batch tentatively.                        *)
PrepareSlot ==
  LET ub    == ubatches[Len(sinfos) + 1]
      sinfo == SlotsFor(ub)
  IN  /\ phase = "prepare" /\ Len(sinfos) < Len(ubatches)
      /\ Fits(sinfo, ub)
      /\ sinfos' = Append(sinfos, sinfo)
      /\ stack' = Append(stack, [heads |-> v_heads,
                                 cells |-> [st \in Stream |-> cp(v_cells[st], DOMAIN sinfo[st])]])
      /\ Apply(sinfo, ub)
      /\ UNCHANGED <<k_rows, sc_info, phase, ubatches, i_cur, did_optimize, before>>

PrepareEnd ==
  /\ phase = "prepare"
  /\ Len(sinfos) < Len(ubatches) =>
       LET ub == ubatches[Len(sinfos) + 1] IN ~Fits(SlotsFor(ub), ub)
  /\ phase' = "restore"
  /\ UNCHANGED <<memVars, ubatches, sinfos, stack, i_cur, did_optimize, before>>

(* Mutant: the heads stay where the placement left them.                   *)
RestoreSlot_heads_stay ==
  LET top == stack[Len(stack)]
  IN  /\ phase = "restore" /\ stack # <<>>
      /\ v_cells' = [st \in Stream |-> set(v_cells[st], top.cells[st])]
      /\ stack' = SubSeq(stack, 1, Len(stack) - 1)
      /\ UNCHANGED <<v_heads, k_rows, sc_info, phase, ubatches, sinfos, i_cur, did_optimize, before>>

(* restore: take the last tentative placement back.  The saved heads are   *)
(* those of all streams, but the code indexes them by the rank of a stream *)
(* among the streams of the slot.                                          *)
SlotRank(cells, st) == Cardinality({t \in Stream : t < st /\ DOMAIN cells[t] # {}})

RestoreSlot ==
  LET top == stack[Len(stack)]
  IN  /\ phase = "restore" /\ stack # <<>>
      /\ v_cells' = [st \in Stream |-> set(v_cells[st], top.cells[st])]
      /\ v_heads' = [st \in Stream |-> IF DOMAIN top.cells[st] = {} THEN v_heads[st]
                                       ELSE top.heads[SlotRank(top.cells, st)]]
      /\ stack' = SubSeq(stack, 1, Len(stack) - 1)
      /\ UNCHANGED <<k_rows, sc_info, phase, ubatches, sinfos, i_cur, did_optimize, before>>

Prepared ==
  /\ phase = "restore" /\ stack = <<>>
  /\ Len(sinfos) = Len(ubatches)
  /\ phase' = "apply"
  /\ i_cur' = 1
  /\ UNCHANGED <<memVars, ubatches, sinfos, stack, did_optimize, before>>

(* Mutant: the retry is not remembered.                                    *)
Retry_forever ==
  /\ phase = "restore" /\ stack = <<>>
  /\ Len(sinfos) < Len(ubatches)
  /\ ~did_optimize /\ get_has_shift
  /\ phase' = "update"
  /\ sinfos' = <<>>
  /\ UNCHANGED <<memVars, ubatches, stack, i_cur, did_optimize, before>>

(* No slot: retry once if the update still has work to do (a K-shift that  *)
(* failed before), otherwise decode returns 1.                             *)
Retry ==
  /\ phase = "restore" /\ stack = <<>>
  /\ Len(sinfos) < Len(ubatches)
  /\ ~did_optimize /\ get_has_shift
  /\ phase' = "update"
  /\ did_optimize' = TRUE
  /\ sinfos' = <<>>
  /\ UNCHANGED <<memVars, ubatches, stack, i_cur, before>>

ReturnNoSlot ==
  /\ phase = "restore" /\ stack = <<>>
  /\ Len(sinfos) < Len(ubatches)
  /\ did_optimize \/ ~get_has_shift
  /\ Idle
  /\ UNCHANGED memVars

(* mctx->apply() for micro-batch i_cur.                                    *)
ApplyUbatch ==
  /\ phase = "apply"
  /\ Apply(sinfos[i_cur], ubatches[i_cur])
  /\ k_rows' = [st \in Stream |-> [i \in Cell |->
                  IF i \in DOMAIN sinfos[i_cur][st] THEN {} ELSE k_rows[st][i]]]
  /\ phase' = "compute"
  /\ UNCHANGED <<sc_info, ubatches, sinfos, stack, i_cur, did_optimize, before>>

(* The graph stores the rows of the micro-batch; next() or return 0.       *)
ComputeOk ==
  LET slot(st) == sinfos[i_cur][st]
  IN  /\ phase = "compute"
      /\ k_rows' = [st \in Stream |-> [i \in Cell |->
                      IF i \in DOMAIN slot(st) THEN {ubatches[i_cur][st][slot(st)[i]].pos}
                      ELSE k_rows[st][i]]]
      /\ IF i_cur < Len(ubatches)
           THEN /\ phase' = "apply" /\ i_cur' = i_cur + 1
                /\ UNCHANGED <<ubatches, sinfos, stack, did_optimize, before>>
           ELSE Idle
      /\ UNCHANGED <<v_cells, v_heads, sc_info>>

(* The graph fails or is aborted: decode removes the positions of the      *)
(* micro-batch, looking only at the first sequence of each token.          *)
RollBack(st) ==
  LET toks    == Toks(ubatches[i_cur], st)
      from(s) == Least({t.pos : t \in {u \in toks : seq_id_0(u) = s}})
      lead    == {seq_id_0(t) : t \in toks}
  IN  [i \in Cell |-> {s \in v_cells[st].seq[i] \cap lead : v_cells[st].pos[i] >= from(s)}]

ComputeFail ==
  /\ phase = "compute" /\ "compute" \in Faults
  /\ v_cells' = [st \in Stream |-> seq_rm(v_cells[st], RollBack(st))]
  /\ v_heads' = [st \in Stream |-> LowerHead(v_heads[st], Freed(v_cells[st], RollBack(st)))]
  /\ Idle
  /\ UNCHANGED <<k_rows, sc_info>>

-----------------------------------------------------------------------------
MemoryOp ==
  \/ \E data \in BOOLEAN : clear(data)
  \/ \E s \in SeqId, r \in RmRanges : SeqRm(s, r)
  \/ \E r \in RmRanges : SeqRmAny(r)
  \/ \E src, dst \in SeqId, r \in CpRanges : Fresh(src, dst, r) /\ SeqCpSame(src, dst, r)
  \/ \E src, dst \in SeqId, r \in CpRanges : SeqCpCross(src, dst, r)
  \/ \E s \in KeepSeqs : SeqKeep(s)
  \/ \E s \in SeqId, r \in AddRanges, d \in Deltas : SeqAdd(s, r, d)
  \/ \E s \in SeqId, r \in DivRanges, d \in Divs : SeqDiv(s, r, d)

Begin ==
  \E A, B \in SeqSets, n \in 1 .. MaxBatch, m \in 0 .. MaxBatch :
    n + m <= MaxBatch /\ (m = 0 => B = A) /\ DecodeBegin(A, n, B, m)

DecodeStep ==
  \/ UpdateCopy \/ UpdateShift
  \/ PrepareSlot \/ PrepareEnd \/ RestoreSlot \/ Prepared \/ Retry \/ ReturnNoSlot
  \/ ApplyUbatch \/ ComputeOk \/ ComputeFail

Next == MemoryOp \/ Begin \/ DecodeStep

(* A call that was started runs to its end.                                *)
Spec == Init /\ [][Next]_vars /\ WF_vars(DecodeStep)

-----------------------------------------------------------------------------
(* Properties.                                                             *)

(* Partial functions on the cells: a slot, and the cells prepare saves.    *)
IsSlot(f) == DOMAIN f \subseteq Cell /\ f \in [DOMAIN f -> Nat]
IsSaved(f) ==
  DOMAIN f \subseteq Cell /\ f \in [DOMAIN f -> [pos : Pos \cup {Empty}, seq : SUBSET SeqId]]

(* Every variable holds a value of its type; in particular no head lies    *)
(* beyond the cells (find_slot subtracts it from their number).            *)
TypeOK ==
  /\ v_cells \in [Stream -> CellsType]
  /\ v_heads \in [Stream -> 0 .. Size]
  /\ k_rows \in [Stream -> [Cell -> SUBSET Int]]
  /\ sc_info \in Seq(Stream \X Stream)
  /\ phase \in {"idle", "update", "prepare", "restore", "apply", "compute"}
  /\ ubatches \in Seq(UBatch)
  /\ Len(sinfos) <= Len(ubatches)
  /\ \A k \in DOMAIN sinfos : \A st \in Stream : IsSlot(sinfos[k][st])
  /\ \A k \in DOMAIN stack : /\ stack[k].heads \in [Stream -> 0 .. Size]
                             /\ \A st \in Stream : IsSaved(stack[k].cells[st])
  /\ i_cur \in 0 .. Len(ubatches)
  /\ did_optimize \in BOOLEAN

(* The incremental bookkeeping of every stream (used set, position counts, *)
(* pending-shift flag) agrees with its cells after every step: an          *)
(* application may call the operations and fail decodes in any order       *)
(* without seq_pos_min/max or the slot search going wrong.                 *)
CellsConsistent == \A st \in Stream : Consistent(v_cells[st])

(* Cells whose metadata a running decode has placed but not computed.      *)
Tentative(st) ==
  (UNION {DOMAIN stack[k].cells[st] : k \in DOMAIN stack})
    \cup (IF phase = "compute" THEN DOMAIN sinfos[i_cur][st] ELSE {})

(* The K data as it will be once the queued stream copies are done.        *)
RowsAfterCopies ==
  LET f[k \in 0 .. Len(sc_info)] ==
        IF k = 0 THEN k_rows ELSE [f[k - 1] EXCEPT ![sc_info[k][2]] = f[k - 1][sc_info[k][1]]]
  IN  f[Len(sc_info)]

(* The deferred work always completes the metadata: in every cell, the K   *)
(* row - after the queued stream copies and the pending shift - is rotated *)
(* to the position that the attention mask will use for the cell.          *)
RowsMatch ==
  \A st \in Stream : \A i \in v_cells[st].used \ Tentative(st) :
    RowsAfterCopies[st][i] = {v_cells[st].pos[i] - v_cells[st].shift[i]}

(* The slots that prepare found on a simulated cache are still usable when *)
(* the micro-batch is placed for good, after the earlier ones were         *)
(* computed.                                                               *)
SlotsStillValid ==
  phase = "apply" =>
    \A st \in Stream : \A i \in DOMAIN sinfos[i_cur][st] : CanUse(v_cells[st], i)

(* When a micro-batch is computed, every position that was in the cache    *)
(* when the decode started and that one of its tokens may still attend to  *)
(* is there: preparing the later micro-batches has not purged it.          *)
WindowKept ==
  phase = "compute" =>
    \A st \in Stream : \A tok \in Toks(ubatches[i_cur], st) : \A s \in tok.seqs :
      \A q \in PosOf(before.cells[st], s) :
        is_masked_swa(q, tok.pos) \/ q \in PosOf(v_cells[st], s)

(* All positions between the smallest and the largest of a sequence are in *)
(* the cache between calls, when the application itself only removes       *)
(* suffixes (eden_memory_seq_pos_min/max guarantee it).                    *)
NoHoles ==
  phase = "idle" =>
    \A st \in Stream : \A s \in SeqId : \A p \in Pos :
      p >= seq_pos_min(v_cells[st], s) /\ p <= seq_pos_max(v_cells[st], s)
        /\ PosOf(v_cells[st], s) # {} => p \in PosOf(v_cells[st], s)

(* A decode that finds no slot (return value 1) leaves every cell and head *)
(* as it was before.                                                       *)
NoSlotRestores ==
  [][phase = "restore" /\ phase' = "idle" =>
       \A st \in Stream : /\ v_cells'[st].pos = before.cells[st].pos
                          /\ v_cells'[st].seq = before.cells[st].seq
                          /\ v_heads'[st] = before.heads[st]]_vars

(* Decode gives up only when some stream really lacks empty cells for its  *)
(* share of the batch: the slot search overlooks none.                     *)
Needed(st) == Cardinality({x \in (DOMAIN ubatches) \X (1 .. MaxBatch) :
                             x[2] <= Len(ubatches[x[1]][st])})
NoSpuriousFailure ==
  [][phase = "restore" /\ phase' = "idle" =>
       \E st \in Stream : Needed(st) > Size - Cardinality(before.cells[st].used)]_vars

(* A decode returns, also when K-shift or the graphs fail: the retry of an *)
(* unsuccessful prepare does not go on forever.                            *)
DecodeReturns == phase # "idle" ~> phase = "idle"

-----------------------------------------------------------------------------
(* The cache implements the store.  A sequence holds the positions of its  *)
(* cells, except those a running decode has placed and not yet computed:   *)
(* a micro-batch takes effect when its graph succeeds.                     *)
Committed ==
  [s \in SeqId |-> [p \in Pos |->
     LET st == seq_to_stream(s)
     IN  Cardinality(CellsAt(v_cells[st].pos, v_cells[st].seq, s, p) \ Tentative(st))]]

Store == INSTANCE SeqStore WITH content <- Committed, MaxAppend <- NUbatch

(* Every operation changes the sequences as documented, and a decode - its *)
(* tentative placements, the restore, the rollback of a failed graph - is  *)
(* invisible but for the micro-batches that succeed.                       *)
ImplementsStore == Store!Spec

(* A graph that fails or is aborted leaves nothing of its micro-batch in   *)
(* any sequence: decode removes "all positions of that ubatch"             *)
(* (src/eden-context.cpp:1713).                                            *)
FailedGraphAddsNothing == [][ComputeFail => Committed' = Committed]_vars
=============================================================================
