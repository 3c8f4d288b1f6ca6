------------------------------- MODULE Filters -------------------------------
(***************************************************************************)
(* The list comprehension [x for x in q if ...]: what of a sequence is in  *)
(* a set, in order.                                                        *)
(***************************************************************************)
EXTENDS Integers, Sequences

Filter(q, S) ==
  LET kept[i \in 0..Len(q)] ==
        IF i = 0 THEN <<>>
        ELSE IF q[i] \in S THEN Append(kept[i - 1], q[i]) ELSE kept[i - 1]
  IN kept[Len(q)]
=============================================================================
