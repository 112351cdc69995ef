------------------------------ MODULE KvState ------------------------------
(***************************************************************************)
(* Saving and restoring the state of a KV cache (state_write, state_read,  *)
(* src/eden-kv-cache.cpp), of one sequence or of all of it, between the    *)
(* other operations.  The application has one buffer; for every stream it  *)
(* holds the cells written, with their K rows.  The cells of one sequence  *)
(* are placed where find_slot finds room, those of a whole cache at its    *)
(* start.                                                                  *)
(***************************************************************************)
EXTENDS KvCache

CONSTANTS Careful, \* does the application save and restore only when no copy and
                   \* no K-shift is pending?
          Whole    \* may it restore a whole cache that has several used streams?

ASSUME CarefulAssumption == Careful \in BOOLEAN /\ Whole \in BOOLEAN

VARIABLE saved \* the buffer

None == [st \in Stream |-> <<>>]
StateInit == Init /\ saved = [kind |-> "seq", cells |-> None]

(* Nothing is pending: neither for the metadata nor for the rows.          *)
Quiet == Careful => sc_info = <<>> /\ ~get_has_shift

-----------------------------------------------------------------------------
(* state_write: the cells M of a stream in their order, with those of the  *)
(* sequences S that they hold.                                             *)
Nth(M, k) == CHOOSE i \in M : Cardinality({j \in M : j < i}) = k - 1

(* Mutant: the rows are those of the first cells of the stream.            *)
Written_head(st, M, S) ==
  [k \in 1 .. Cardinality(M) |->
     LET i == Nth(M, k)
     IN  [pos |-> v_cells[st].pos[i], seq |-> v_cells[st].seq[i] \cap S, rows |-> k_rows[st][k - 1]]]

Written(st, M, S) ==
  [k \in 1 .. Cardinality(M) |->
     LET i == Nth(M, k)
     IN  [pos |-> v_cells[st].pos[i], seq |-> v_cells[st].seq[i] \cap S, rows |-> k_rows[st][i]]]

StateWriteSeq(s) ==
  /\ phase = "idle" /\ Quiet
  /\ saved' = [kind |-> "seq", cells |->
                 [st \in Stream |-> Written(st, Has(v_cells[st], s), {s})]]
  /\ UNCHANGED vars

StateWriteAll ==
  /\ phase = "idle" /\ Quiet
  /\ saved' = [kind |-> "all", cells |->
                 [st \in Stream |-> Written(st, v_cells[st].used, SeqId)]]
  /\ UNCHANGED vars

-----------------------------------------------------------------------------
Used == {st \in Stream : saved.cells[st] # <<>>}

RowsAt(rows, slot, list) ==
  [i \in Cell |-> IF i \in DOMAIN slot THEN list[slot[i]].rows ELSE rows[i]]

(* The place for n cells of sequence s, its old ones removed.              *)
(* Mutant: the old cells of the sequence stay.                             *)
Cleared_not(st, s) == v_cells[st]

Cleared(st, s) == seq_rm(v_cells[st], Selected(v_cells[st], s, <<-1, -1>>))

(* state_read for one sequence.  Without room the sequence is left empty.  *)
StateReadSeq(s) ==
  LET st   == seq_to_stream(s)
      list == saved.cells[Least(Used)]
      c    == Cleared(st, s)
      head == LowerHead(v_heads[st], Freed(v_cells[st], Selected(v_cells[st], s, <<-1, -1>>)))
      slot == find_slot(c, head, Len(list))
      toks == [k \in DOMAIN list |-> [pos |-> list[k].pos, seqs |-> {s}]]
  IN  /\ phase = "idle" /\ Quiet
      /\ saved.kind = "seq" /\ Used # {}
      /\ \/ /\ Cardinality(DOMAIN slot) = Len(list)
            /\ OnStream(st, apply_ubatch(c, slot, toks))
            /\ v_heads' = [v_heads EXCEPT ![st] = HeadAfter(head, slot)]
            /\ k_rows' = [k_rows EXCEPT ![st] = RowsAt(@, slot, list)]
         \/ /\ Cardinality(DOMAIN slot) < Len(list)
            /\ OnStream(st, c)
            /\ v_heads' = [v_heads EXCEPT ![st] = head]
            /\ UNCHANGED k_rows
      /\ UNCHANGED <<sc_info, callVars, saved>>

(* state_read for all: the whole cache is cleared before each stream that  *)
(* is not empty is read, so that the last of them remains.                 *)
(* Mutant: it is not cleared.                                              *)
ClearedAll_not == v_cells

ClearedAll == [st \in Stream |-> reset]

Filled(st, list) ==
  LET taken == 0 .. Len(list) - 1
  IN  pos_set(ClearedAll[st], taken, [i \in taken |-> list[i + 1].pos],
              [i \in taken |-> list[i + 1].seq])

StateReadAll ==
  LET last == Most(Used)
      list == saved.cells[last]
  IN  /\ phase = "idle" /\ Quiet
      /\ saved.kind = "all" /\ Used # {}
      /\ ~Whole => Cardinality(Used) = 1
      /\ v_cells' = [ClearedAll EXCEPT ![last] = Filled(last, list)]
      /\ k_rows' = [st \in Stream |-> [i \in Cell |->
                       IF st = last /\ i < Len(list) THEN list[i + 1].rows ELSE {}]]
      /\ v_heads' = [st \in Stream |-> 0]
      /\ UNCHANGED <<sc_info, callVars, saved>>

-----------------------------------------------------------------------------
StateNext ==
  \/ MemoryOp /\ UNCHANGED saved
  \/ Begin /\ UNCHANGED saved
  \/ DecodeStep /\ UNCHANGED saved
  \/ StateWriteAll \/ StateReadAll
  \/ \E s \in SeqId : StateWriteSeq(s) \/ StateReadSeq(s)

StateSpec == StateInit /\ [][StateNext]_<<vars, saved>>

-----------------------------------------------------------------------------
(* Properties, besides RowsMatch and CellsConsistent of KvCache.           *)

(* The buffer as the store sees it.                                        *)
Count(st, s, p) == Cardinality({k \in DOMAIN saved.cells[st] :
                                  saved.cells[st][k].pos = p /\ s \in saved.cells[st][k].seq})

Total(s) ==
  [p \in Pos |-> LET sum[n \in 0 .. NSeqMax] ==
                       IF n = 0 THEN 0
                       ELSE sum[n - 1] + (IF n - 1 \in Stream THEN Count(n - 1, s, p) ELSE 0)
                 IN  sum[NSeqMax]]

Any(p) == Cardinality({x \in Stream \X (1 .. Size) :
                         x[2] \in DOMAIN saved.cells[x[1]] /\ saved.cells[x[1]][x[2]].pos = p})

Buffer ==
  IF saved.kind = "seq" THEN [kind |-> "seq", held |-> [t \in {0} |-> [p \in Pos |-> Any(p)]]]
  ELSE [kind |-> "all", held |-> [s \in SeqId |-> Total(s)]]

SStore == INSTANCE SavedStore WITH content <- Committed, MaxAppend <- NUbatch, buffer <- Buffer

(* A restored sequence holds what was saved, in whatever cells there was   *)
(* room, and the others are untouched; a restore that fails leaves the     *)
(* sequence empty; all other operations go on as documented.               *)
ImplementsSaved == SStore!SaveSpec
=============================================================================
