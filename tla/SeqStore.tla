------------------------------ MODULE SeqStore ------------------------------
(***************************************************************************)
(* What the memory of a context promises, as include/eden.h documents the  *)
(* eden_memory_seq_* functions and eden_decode: every sequence is a bag of *)
(* positions, an operation on a sequence changes that sequence only, and   *)
(* decoding a micro-batch extends sequences at their ends or does nothing. *)
(* There are no cells, slots, streams or steps of a decode here.           *)
(***************************************************************************)
EXTENDS Integers, FiniteSets

CONSTANTS SeqId, Pos, \* sequence ids, and the positions 0 .. some bound
          RmRanges,   \* the ranges <<p0, p1>> given to seq_rm, seq_cp, seq_add
          CpRanges,   \*   and seq_div
          AddRanges, DivRanges,
          Deltas,     \* shifts given to seq_add
          Divs,       \* factors given to seq_div
          MaxAppend   \* bound: tokens a sequence gains in one micro-batch

VARIABLE content  \* content[s][p]: how often sequence s holds position p

Nothing == [p \in Pos |-> 0]

(* The range [p0, p1), where a negative p0 means 0 and p1 infinity.        *)
Span(r) == {p \in Pos : p >= r[1] /\ (r[2] >= 0 => p < r[2])}

Last(s) == IF content[s] = Nothing THEN -1
           ELSE CHOOSE p \in Pos : content[s][p] > 0 /\ \A q \in Pos : content[s][q] > 0 => q <= p

Only(s, R) == [p \in Pos |-> IF p \in R THEN content[s][p] ELSE 0]
Without(s, R) == [p \in Pos |-> IF p \in R THEN 0 ELSE content[s][p]]

-----------------------------------------------------------------------------
Init == content = [s \in SeqId |-> Nothing]

Clear == content' = [s \in SeqId |-> Nothing]

Remove(s, R) == content' = [content EXCEPT ![s] = Without(s, R)]

RemoveAny(R) == content' = [s \in SeqId |-> Without(s, R)]

(* dst, which holds nothing of R yet, gains the tokens of src in R ...     *)
Copy(src, dst, R) ==
  content' = [content EXCEPT ![dst] = [p \in Pos |-> @[p] + Only(src, R)[p]]]

(* ... or becomes a copy of all of src.                                    *)
Clone(src, dst) == content' = [content EXCEPT ![dst] = content[src]]

Keep(s) == content' = [t \in SeqId |-> IF t = s THEN content[s] ELSE Nothing]

Shift(s, R, d) ==
  content' = [content EXCEPT ![s] = [p \in Pos |->
                Without(s, R)[p] + (IF p - d \in R THEN content[s][p - d] ELSE 0)]]

Tokens(s, R) == UNION {{q} \X (1 .. content[s][q]) : q \in R}

Divide(s, R, d) ==
  content' = [content EXCEPT ![s] = [p \in Pos |->
                Without(s, R)[p] + Cardinality({t \in Tokens(s, R) : t[1] \div d = p})]]

Extend(len) ==
  content' = [s \in SeqId |-> [p \in Pos |->
                content[s][p] + (IF p > Last(s) /\ p <= Last(s) + len[s] THEN 1 ELSE 0)]]

Next ==
  \/ Clear
  \/ \E s \in SeqId, r \in RmRanges : Remove(s, Span(r))
  \/ \E r \in RmRanges : RemoveAny(Span(r))
  \/ \E src, dst \in SeqId, r \in CpRanges : src # dst /\ Copy(src, dst, Span(r))
  \/ \E src, dst \in SeqId : src # dst /\ Clone(src, dst)
  \/ \E s \in SeqId : Keep(s)
  \/ \E s \in SeqId, r \in AddRanges, d \in Deltas : Shift(s, Span(r), d)
  \/ \E s \in SeqId, r \in DivRanges, d \in Divs : Divide(s, Span(r), d)
  \/ \E len \in [SeqId -> 0 .. MaxAppend] : Extend(len)

Spec == Init /\ [][Next]_content
=============================================================================
