--------------------------- MODULE TemporalSplit ---------------------------
(***************************************************************************)
(* The chronological split of src/ml/splits.py.  A row is identified by    *)
(* its position in the chronological order of the sample table, so a set   *)
(* of rows is a set of naturals and its order is the order of naturals.    *)
(* Ratios are percentages: int(n * ratio) is (n * percent) \div 100.       *)
(***************************************************************************)
EXTENDS Integers, FiniteSets

AtLeast(a, b) == IF a >= b THEN a ELSE b
AtMost(a, b)  == IF a <= b THEN a ELSE b

\* int(n * ratio).
Share(n, percent) == (percent * n) \div 100

\* Number of leading rows in the training part.
TrainEnd(n, train) ==
  IF n > 1 THEN AtLeast(1, AtMost(Share(n, train), n)) ELSE Share(n, train)

\* Number of leading rows in the training and validation parts together.
ValEnd(n, train, val) ==
  AtLeast(TrainEnd(n, train), AtMost(Share(n, train + val), n))

\* The k first rows of S: X[:k] when X holds the rows of S in order.
Oldest(S, k) == {i \in S : Cardinality({j \in S : j <= i}) <= k}

\* What the split leaves after training and validation: X[val_end:].
TestPart(S, train, val) == S \ Oldest(S, ValEnd(Cardinality(S), train, val))
=============================================================================
