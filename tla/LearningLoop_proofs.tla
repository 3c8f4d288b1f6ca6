------------------------- MODULE LearningLoop_proofs -------------------------
(***************************************************************************)
(* Proofs about LearningLoop for every value of its constants.             *)
(***************************************************************************)
EXTENDS LearningLoop, SequenceTheorems, FiniteSetTheorems, TLAPS

(***************************************************************************)
(* The operators that rewrite the table keep its type.                     *)
(***************************************************************************)
LEMMA RowsAreFinite ==
  ASSUME NEW c \in Seq(Row)
  PROVE  /\ Rows(c) = 1..Len(c) /\ Rows(c) \subseteq Nat /\ IsFiniteSet(Rows(c))
         /\ Len(c) \in Nat
  <1>1. Len(c) \in Nat /\ DOMAIN c = 1..Len(c)
    BY LenProperties
  <1>2. IsFiniteSet(1..Len(c))
    BY <1>1, FS_Interval
  <1> QED
    BY <1>1, <1>2 DEF Rows

\* A table rewritten row by row keeps its length and its type.
LEMMA RewriteType ==
  ASSUME NEW c \in Seq(Row), NEW f, f = [i \in Rows(c) |-> f[i]],
         \A i \in Rows(c) : f[i] \in Row
  PROVE  f \in Seq(Row) /\ Len(f) = Len(c)
  <1>1. Len(c) \in Nat /\ f = [i \in 1..Len(c) |-> f[i]] /\ f \in [1..Len(c) -> Row]
    BY RowsAreFinite
  <1>2. f \in Seq(Row)
    BY <1>1, SeqDef
  <1> QED
    BY <1>1, <1>2, LenProperties

LEMMA RefreshRowsType ==
  ASSUME NEW c \in Seq(Row), NEW S
  PROVE  /\ RefreshRows(c, S) \in Seq(Row) /\ Len(RefreshRows(c, S)) = Len(c)
         /\ Rows(RefreshRows(c, S)) = Rows(c)
  <1>1. \A i \in Rows(c) : c[i] \in Row
    BY ElementOfSeq, RowsAreFinite
  <1>2. \A i \in Rows(c) : RefreshRows(c, S)[i] \in Row
    BY <1>1 DEF RefreshRows, Row
  <1>3. RefreshRows(c, S) = [i \in Rows(c) |-> RefreshRows(c, S)[i]]
    BY DEF RefreshRows
  <1> QED
    BY <1>2, <1>3, RewriteType, RowsAreFinite

LEMMA RefreshType ==
  ASSUME NEW c \in Seq(Row)
  PROVE  Refresh(c) \in Seq(Row) /\ Len(Refresh(c)) = Len(c) /\ Rows(Refresh(c)) = Rows(c)
  BY RefreshRowsType DEF Refresh

LEMMA ImportType ==
  ASSUME NEW c \in Seq(Row), NEW k \in Nat
  PROVE  /\ Imported(c, k) \in Seq(Row) /\ Len(Imported(c, k)) = Len(c) + k
         /\ \A i \in 1..Len(c) : Imported(c, k)[i] = c[i]
         /\ \A i \in (Len(c) + 1)..(Len(c) + k) :
              Imported(c, k)[i] = NewRow(0)
  <1> DEFINE t == [n \in 1..k |-> NewRow(0)]
  <1>1. NewRow(0) \in Row
    BY DEF NewRow, Row
  <1>2. t \in Seq(Row) /\ Len(t) = k
    <2>1. t \in [1..k -> Row]
      BY <1>1
    <2>2. t \in Seq(Row)
      BY <2>1, SeqDef
    <2> QED
      BY <2>1, <2>2, LenProperties
  <1>3. Len(c) \in Nat
    BY LenProperties
  <1>6. \A n \in 1..k : t[n] = NewRow(0)
    OBVIOUS
  <1> HIDE DEF t
  <1>4. /\ c \o t \in Seq(Row)
        /\ Len(c \o t) = Len(c) + Len(t)
        /\ \A i \in 1..Len(c) + Len(t) : (c \o t)[i] = IF i <= Len(c) THEN c[i] ELSE t[i - Len(c)]
    BY <1>2, ConcatProperties
  <1>5. /\ c \o t \in Seq(Row) /\ Len(c \o t) = Len(c) + k
        /\ \A i \in 1..Len(c) : (c \o t)[i] = c[i]
        /\ \A i \in (Len(c) + 1)..(Len(c) + k) : (c \o t)[i] = t[i - Len(c)]
    BY <1>2, <1>3, <1>4
  <1>7. \A i \in (Len(c) + 1)..(Len(c) + k) : (c \o t)[i] = NewRow(0)
    <2>1. \A i \in (Len(c) + 1)..(Len(c) + k) : i - Len(c) \in 1..k
      BY <1>3
    <2> QED
      BY <1>5, <1>6, <2>1
  <1> QED
    BY <1>5, <1>7 DEF Imported, t

LEMMA IngestType ==
  ASSUME NEW c \in Seq(Row), localLeft \in Nat
  PROVE  /\ IngestBenign(c) \in Seq(Row) /\ Len(IngestBenign(c)) = Len(c) + localLeft
         /\ \A i \in 1..Len(c) : IngestBenign(c)[i] = c[i]
  BY ImportType DEF IngestBenign

\* What a failed pass leaves of the import and of the re-extraction.
LEMMA PartsType ==
  ASSUME NEW c \in Seq(Row), NEW k \in Nat, NEW S
  PROVE  /\ RefreshRows(Imported(c, k), S) \in Seq(Row)
         /\ Rows(RefreshRows(Imported(c, k), S)) = 1..(Len(c) + k)
  <1>1. Imported(c, k) \in Seq(Row) /\ Len(Imported(c, k)) = Len(c) + k
    BY ImportType
  <1>2. Rows(Imported(c, k)) = 1..(Len(c) + k)
    BY <1>1, RowsAreFinite
  <1> QED
    BY <1>1, <1>2, RefreshRowsType

LEMMA FilesAreLocal ==
  ASSUME localLeft \in Nat, NEW files \in ImportedFiles
  PROVE  files \in Nat /\ localLeft - files \in Nat
  BY DEF ImportedFiles

LEMMA CountsType ==
  ASSUME NEW c, NEW S, IsFiniteSet(S)
  PROVE  ClassCounts(c, S) \in [0..1 -> Nat]
  <1>1. \A label \in 0..1 : OfClass(c, S, label) \in SUBSET S
    BY DEF OfClass
  <1>2. \A label \in 0..1 : Cardinality(OfClass(c, S, label)) \in Nat
    BY <1>1, FS_Subset, FS_CardinalityType
  <1> QED
    BY <1>2 DEF ClassCounts
-----------------------------------------------------------------------------
LEMMA TypeInit == Init => TypeOK
  <1> SUFFICES ASSUME Init PROVE TypeOK
    OBVIOUS
  <1>1. corpus \in Seq(Row) /\ Rows(corpus) = {}
    BY EmptySeq, LenProperties DEF Init, Rows
  <1>2. NoBundle \in Bundle /\ NoUpdate \in Update
    BY DEF NoBundle, Bundle, Triggers, NoUpdate, Update
  <1> QED
    BY <1>1, <1>2, LearningAssumption DEF Init, TypeOK

\* Collect appends featured rows to the table.
LEMMA CollectType ==
  ASSUME NEW c \in Seq(Row), NEW fresh \in NewRows(MaxBatch)
  PROVE  /\ Len(c) \in Nat /\ Len(fresh) \in Nat
         /\ c \o fresh \in Seq(Row) /\ Rows(c \o fresh) = 1..(Len(c) + Len(fresh))
         /\ \A i \in Rows(c) : (c \o fresh)[i] = c[i]
  <1>1. PICK j \in 0..MaxBatch : fresh \in [1..j -> {NewRow(0), NewRow(1)}]
    BY DEF NewRows
  <1>8. NewRow(0) \in Row /\ NewRow(1) \in Row
    BY DEF NewRow, Row
  <1>2. j \in Nat /\ fresh \in [1..j -> Row]
    BY <1>1, <1>8, LearningAssumption
  <1>3. fresh \in Seq(Row)
    BY <1>2, SeqDef
  <1>4. Len(c) \in Nat /\ Len(fresh) \in Nat /\ Rows(c) = 1..Len(c)
    BY <1>3, LenProperties, RowsAreFinite
  <1>5. /\ c \o fresh \in Seq(Row) /\ Len(c \o fresh) = Len(c) + Len(fresh)
        /\ \A i \in 1..Len(c) + Len(fresh) :
             (c \o fresh)[i] = IF i <= Len(c) THEN c[i] ELSE fresh[i - Len(c)]
    BY <1>3, ConcatProperties
  <1>6. Rows(c \o fresh) = 1..(Len(c) + Len(fresh))
    BY <1>5, LenProperties DEF Rows
  <1>7. \A i \in Rows(c) : (c \o fresh)[i] = c[i]
    BY <1>4, <1>5
  <1> QED
    BY <1>4, <1>5, <1>6, <1>7
-----------------------------------------------------------------------------
LEMMA OldestSubset ==
  ASSUME NEW S, NEW k
  PROVE  Oldest(S, k) \subseteq S
  BY DEF Oldest

LEMMA FitPartSubset ==
  ASSUME NEW replay, NEW new
  PROVE  FitPart(replay, new) \subseteq replay \cup new
  BY OldestSubset DEF FitPart

LEMMA ReplaySubset ==
  ASSUME NEW c, NEW hist, NEW replay \in Replays(c, hist)
  PROVE  replay \subseteq hist
  <1>1. \A S, b : \A P \in ReplayOfClass(S, b) \cup ReplayMalware(S) : P \subseteq S
    BY DEF ReplayMalware, ReplayOfClass, kSubset
  <1>2. PICK G \in ReplayOfClass(OfClass(c, hist, 0), GoodwareBudget),
            M \in ReplayMalware(OfClass(c, hist, 1)) : replay = G \cup M
    BY DEF Replays
  <1>3. G \subseteq OfClass(c, hist, 0) /\ M \subseteq OfClass(c, hist, 1)
    BY <1>1
  <1> QED
    BY <1>2, <1>3 DEF OfClass

LEMMA ColdSplitsSubset ==
  ASSUME NEW c, NEW s \in ColdSplits(c)
  PROVE  s[1] \subseteq Arrays(c) /\ s[2] \subseteq Arrays(c)
  <1>1. PICK fit \in StratifiedParts(c, Arrays(c), Share(Cardinality(Arrays(c)), 70)) :
          \E k : \E calib \in StratifiedParts(c, Arrays(c) \ fit, k) : s = <<fit, calib>>
    BY DEF ColdSplits
  <1>2. \A S, k : \A P \in StratifiedParts(c, S, k) : P \subseteq S
    BY DEF StratifiedParts, kSubset
  <1> QED
    BY <1>1, <1>2

LEMMA RetrainedBundleType ==
  ASSUME NEW c \in Seq(Row), NEW replay \in SUBSET Rows(c), NEW new \in SUBSET Rows(c),
         NEW trigger \in Triggers
  PROVE  RetrainedBundle(c, replay, new, trigger) \in Bundle
  <1>1. IsFiniteSet(replay \cup new) /\ replay \cup new \in SUBSET Nat
    BY RowsAreFinite, FS_Subset
  <1>2. ClassCounts(c, replay \cup new) \in [0..1 -> Nat]
    BY <1>1, CountsType
  <1>3. FitPart(replay, new) \in SUBSET Nat
    BY <1>1, FitPartSubset
  <1> QED
    BY <1>1, <1>2, <1>3 DEF RetrainedBundle, Bundle

LEMMA ColdBundleType ==
  ASSUME NEW c \in Seq(Row), NEW fit \in SUBSET Arrays(c), NEW calib \in SUBSET Arrays(c)
  PROVE  ColdBundle(c, fit, calib) \in Bundle
  <1>1. Arrays(c) \in SUBSET Rows(c)
    BY RowsAreFinite DEF Arrays
  <1>2. IsFiniteSet(Arrays(c)) /\ Arrays(c) \in SUBSET Nat
    BY <1>1, RowsAreFinite, FS_Subset
  <1>3. ClassCounts(c, Arrays(c)) \in [0..1 -> Nat]
    BY <1>2, CountsType
  <1> QED
    BY <1>2, <1>3 DEF ColdBundle, Bundle, Triggers

LEMMA HoldoutSubset ==
  ASSUME NEW c \in Seq(Row)
  PROVE  StrictHoldout(c) \subseteq Rows(c)
  BY RowsAreFinite DEF StrictHoldout, TestPart, Arrays

LEMMA EmptyBundleTypes == NoBundle \in Bundle /\ NoUpdate \in Update
  BY DEF NoBundle, Bundle, Triggers, NoUpdate, Update
-----------------------------------------------------------------------------
\* The rows of the table never leave it.
LEMMA TypeStep == TypeOK /\ [Next]_vars => TypeOK'
  <1> SUFFICES ASSUME TypeOK, [Next]_vars PROVE TypeOK'
    OBVIOUS
  <1> USE LearningAssumption
  <1>0. Len(corpus) \in Nat /\ Rows(corpus) = 1..Len(corpus) /\ Rows(corpus) \subseteq Nat
    BY RowsAreFinite DEF TypeOK
  <1>1. CASE Collect
    <2>1. PICK fresh \in NewRows(MaxBatch) :
            /\ corpus' = corpus \o fresh
            /\ vectors' = (Len(corpus) + 1)..(Len(corpus) + Len(fresh))
      BY <1>1 DEF Collect
    <2>2. /\ corpus' \in Seq(Row) /\ Rows(corpus') = 1..(Len(corpus) + Len(fresh))
          /\ Len(fresh) \in Nat
      BY <2>1, CollectType DEF TypeOK
    <2>3. vectors' \subseteq Rows(corpus')
      BY <2>1, <2>2, <1>0
    <2>4. phase0' \in {"bootstrap", "steady"}
      BY <1>1 DEF Collect, Phase
    <2>5. /\ corpus' \in Seq(Row) /\ Rows(corpus) \subseteq Rows(corpus)'
          /\ vectors' \subseteq Rows(corpus)'
      BY <2>2, <2>3, <1>0 DEF Rows
    <2> QED
      BY <1>1, <2>5, <2>4, EmptyBundleTypes DEF Collect, TypeOK, updateLocal
  <1>2. CASE DriftQuiet
    BY <1>2 DEF DriftQuiet, TypeOK, passLocal, updateLocal, Rows
  <1>3. CASE DriftDetected
    <2>1. batch' \subseteq Rows(corpus)
      BY <1>3 DEF DriftDetected, TypeOK
    <2> QED
      BY <1>3, <2>1 DEF DriftDetected, TypeOK, passLocal, updateLocal, Rows
  <1>4. CASE ThresholdRetrain
    <2>1. batch' \subseteq Rows(corpus)
      BY <1>4 DEF ThresholdRetrain, Untrained
    <2> QED
      BY <1>4, <2>1 DEF ThresholdRetrain, TypeOK, passLocal, updateLocal, Rows
  <1>5. CASE RetrainPrepare
    <2> DEFINE c == IngestBenign(corpus)
    <2>1. c \in Seq(Row) /\ Len(c) = Len(corpus) + localLeft
      BY IngestType DEF TypeOK
    <2> HIDE DEF c
    <2>2. /\ Refresh(c) \in Seq(Row) /\ Rows(Refresh(c)) = 1..(Len(corpus) + localLeft)
      BY <2>1, RefreshType, RowsAreFinite
    <2>3. corpus' = Refresh(c) /\ holdout' = StrictHoldout(corpus')
      BY <1>5 DEF RetrainPrepare, c
    <2>4. holdout' \subseteq Rows(corpus)' /\ Rows(corpus) \subseteq Rows(corpus)'
      BY <2>2, <2>3, <1>0, HoldoutSubset DEF TypeOK
    <2> QED
      BY <1>5, <2>2, <2>3, <2>4 DEF RetrainPrepare, TypeOK, passLocal
  <1>6. CASE RetrainFit
    <2>1. PICK replay \in Replays(corpus, Historical) :
            bundle' = RetrainedBundle(corpus, replay, Fresh, Trigger)
      BY <1>6 DEF RetrainFit
    <2>2. replay \in SUBSET Rows(corpus) /\ Fresh \in SUBSET Rows(corpus)
      BY ReplaySubset DEF Historical, Fresh, TypeOK
    <2>3. bundle' \in Bundle
      BY <2>1, <2>2, RetrainedBundleType DEF TypeOK, Trigger, Triggers
    <2> QED
      BY <1>6, <2>3 DEF RetrainFit, TypeOK, passLocal, Rows
  <1>7. CASE RetrainSkip
    BY <1>7 DEF RetrainSkip, TypeOK, Rows
  <1>8. CASE MarkAllTrained
    <2>1. corpus' = [i \in Rows(corpus) |-> corpus'[i]]
      BY <1>8 DEF MarkAllTrained
    <2>2. \A i \in Rows(corpus) : corpus'[i] \in Row
      <3> SUFFICES ASSUME NEW i \in Rows(corpus) PROVE corpus'[i] \in Row
        OBVIOUS
      <3>1. corpus[i] \in Row
        BY <1>0, ElementOfSeq DEF TypeOK
      <3> QED
        BY <1>8, <3>1 DEF MarkAllTrained, Row
    <2>3. corpus' \in Seq(Row) /\ Len(corpus') = Len(corpus)
      BY <2>1, <2>2, RewriteType DEF TypeOK
    <2>4. Rows(corpus)' = Rows(corpus)
      BY <2>3, <1>0, RowsAreFinite
    <2> QED
      BY <1>8, <2>3, <2>4 DEF MarkAllTrained, TypeOK, passLocal, updateLocal
  <1>9. CASE RecordUpdate
    <2>1. holdout \in SUBSET Nat
      BY <1>0 DEF TypeOK
    <2>2. \A b \in Bundle : Seen(b) \in SUBSET Nat /\ b.strict \in BOOLEAN
      BY DEF Bundle, Seen
    <2>3. UpdateStatus \in {"none", "skipped", "baseline", "ok"}
      BY DEF UpdateStatus
    <2>4. update' \in Update
      BY <1>9, <2>1, <2>2, <2>3 DEF RecordUpdate, Update, TypeOK
    <2> QED
      BY <1>9, <2>4, EmptyBundleTypes DEF RecordUpdate, TypeOK, Rows
  <1>10. CASE Infer
    BY <1>10 DEF Infer, TypeOK, passLocal, updateLocal, Rows
  <1>11. CASE ColdStart
    <2> DEFINE c == IngestBenign(corpus)
    <2>1. c \in Seq(Row) /\ Len(c) = Len(corpus) + localLeft
      BY IngestType DEF TypeOK
    <2> HIDE DEF c
    <2>2. /\ Refresh(c) \in Seq(Row) /\ Rows(Refresh(c)) = 1..(Len(corpus) + localLeft)
      BY <2>1, RefreshType, RowsAreFinite
    <2>3. PICK s \in ColdSplits(Refresh(c)) :
            /\ bundle' = ColdBundle(Refresh(c), s[1], s[2])
            /\ corpus' = Refresh(c) /\ holdout' = StrictHoldout(Refresh(c))
      BY <1>11 DEF ColdStart, c
    <2>4. Rows(corpus) \subseteq Rows(corpus)'
      BY <2>2, <2>3, <1>0 DEF TypeOK
    <2>6. holdout' \subseteq Rows(corpus)'
      BY <2>2, <2>3, HoldoutSubset
    <2>5. bundle' \in Bundle
      BY <2>2, <2>3, ColdSplitsSubset, ColdBundleType
    <2> QED
      BY <1>11, <2>2, <2>3, <2>4, <2>5, <2>6, EmptyBundleTypes DEF ColdStart, TypeOK, passLocal
  <1>12. CASE ColdStartSkip
    <2> DEFINE c == IngestBenign(corpus)
    <2>1. c \in Seq(Row) /\ Len(c) = Len(corpus) + localLeft
      BY IngestType DEF TypeOK
    <2> HIDE DEF c
    <2>2. /\ Refresh(c) \in Seq(Row) /\ Rows(Refresh(c)) = 1..(Len(corpus) + localLeft)
      BY <2>1, RefreshType, RowsAreFinite
    <2>3. corpus' = Refresh(c)
      BY <1>12 DEF ColdStartSkip, c
    <2>4. Rows(corpus) \subseteq Rows(corpus)'
      BY <2>2, <2>3, <1>0 DEF TypeOK
    <2> QED
      BY <1>12, <2>2, <2>3, <2>4 DEF ColdStartSkip, TypeOK, passLocal, updateLocal
  <1>13. CASE Evaluate
    <2>1. corpus' \in {corpus, Refresh(corpus)}
      BY <1>13 DEF Evaluate
    <2>2. corpus' \in Seq(Row) /\ Rows(corpus)' = Rows(corpus)
      BY <2>1, RefreshType DEF TypeOK
    <2> QED
      BY <1>13, <2>2 DEF Evaluate, TypeOK, passLocal, updateLocal
  <1>14. CASE Abort
    <2>1. PICK files \in ImportedFiles : \E reread \in RereadRows(files) :
            /\ corpus' = RefreshRows(Imported(corpus, files), reread)
            /\ localLeft' = localLeft - files
      BY <1>14 DEF Abort
    <2>2. files \in Nat /\ localLeft' \in Nat
      BY <2>1, FilesAreLocal DEF TypeOK
    <2>3. corpus' \in Seq(Row) /\ Rows(corpus)' = 1..(Len(corpus) + files)
      BY <2>1, <2>2, PartsType DEF TypeOK
    <2>4. Rows(corpus) \subseteq Rows(corpus)'
      BY <2>2, <2>3, <1>0
    <2> QED
      BY <1>14, <2>2, <2>3, <2>4, EmptyBundleTypes DEF Abort, TypeOK, passLocal
  <1>15. CASE Upgrade
    <2>1. corpus' = [i \in Rows(corpus) |-> corpus'[i]]
      BY <1>15 DEF Upgrade
    <2>2. \A i \in Rows(corpus) : corpus'[i] \in Row
      <3> SUFFICES ASSUME NEW i \in Rows(corpus) PROVE corpus'[i] \in Row
        OBVIOUS
      <3>1. corpus[i] \in Row
        BY <1>0, ElementOfSeq DEF TypeOK
      <3>2. PICK feat \in {"current", "stale", "lost"} :
              corpus'[i] = [corpus[i] EXCEPT !.feat = feat]
        BY <1>15 DEF Upgrade
      <3> QED
        BY <3>1, <3>2 DEF Row
    <2>3. corpus' \in Seq(Row) /\ Len(corpus') = Len(corpus)
      BY <2>1, <2>2, RewriteType DEF TypeOK
    <2>4. Rows(corpus)' = Rows(corpus)
      BY <2>3, <1>0, RowsAreFinite
    <2>5. bundle' \in Bundle
      BY <1>15 DEF Upgrade, TypeOK, Bundle
    <2>6. upgrades' \in Nat /\ UNCHANGED <<localLeft, pc, passLocal, updateLocal, update, aborts>>
      BY <1>15 DEF Upgrade, TypeOK
    <2> QED
      BY <2>3, <2>4, <2>5, <2>6 DEF TypeOK, passLocal, updateLocal
  <1>16. CASE UNCHANGED vars
    BY <1>16 DEF vars, TypeOK, passLocal, updateLocal, Rows
  <1> QED
    BY <1>1, <1>2, <1>3, <1>4, <1>5, <1>6, <1>7, <1>8, <1>9, <1>10, <1>11, <1>12,
       <1>13, <1>14, <1>15, <1>16 DEF Next

\* Every variable keeps its type, and what a pass holds are rows of the table.
THEOREM TypeCorrect == Spec => []TypeOK
  BY TypeInit, TypeStep, PTL DEF Spec
-----------------------------------------------------------------------------
(***************************************************************************)
(* What passes do to the rows of the table: a usable model keeps its       *)
(* corpus steady, and a row is marked as trained only if the new model     *)
(* considered it.                                                          *)
(***************************************************************************)

\* Every row of c is kept in d, with its label and mark, and current if it was.
Kept(c, d) ==
  /\ c \in Seq(Row) /\ d \in Seq(Row) /\ Rows(c) \subseteq Rows(d)
  /\ \A i \in Rows(c) : /\ d[i].label = c[i].label /\ d[i].trained = c[i].trained
                        /\ c[i].feat = "current" => d[i].feat = "current"

LEMMA RefreshRowsKeeps ==
  ASSUME NEW c \in Seq(Row), NEW S
  PROVE  /\ Kept(c, RefreshRows(c, S))
         /\ \A i \in Rows(c) \cap S : RefreshRows(c, S)[i].feat # "stale"
  <1> DEFINE d == RefreshRows(c, S)
  <1>1. d \in Seq(Row) /\ Rows(d) = Rows(c)
    BY RefreshRowsType
  <1>2. ASSUME NEW i \in Rows(c)
        PROVE  /\ d[i].label = c[i].label /\ d[i].trained = c[i].trained
               /\ c[i].feat = "current" => d[i].feat = "current"
               /\ i \in S => d[i].feat # "stale"
    <2>1. c[i] \in Row
      BY ElementOfSeq, RowsAreFinite
    <2>2. d[i] = IF i \in S /\ c[i].feat = "stale" THEN [c[i] EXCEPT !.feat = "current"] ELSE c[i]
      BY DEF RefreshRows
    <2> QED
      BY <2>1, <2>2 DEF Row
  <1> QED
    BY <1>1, <1>2 DEF Kept

LEMMA ImportKeeps ==
  ASSUME NEW c \in Seq(Row), NEW k \in Nat
  PROVE  Kept(c, Imported(c, k)) /\ Imported(c, k) \in Seq(Row)
  <1> DEFINE d == Imported(c, k)
  <1>1. d \in Seq(Row) /\ Len(d) = Len(c) + k /\ \A i \in 1..Len(c) : d[i] = c[i]
    BY ImportType
  <1> HIDE DEF d
  <1>2. Rows(c) = 1..Len(c) /\ Rows(d) = 1..Len(d) /\ Len(c) \in Nat
    BY <1>1, RowsAreFinite
  <1>3. Kept(c, d)
    BY <1>1, <1>2 DEF Kept
  <1> QED
    BY <1>1, <1>3 DEF d

LEMMA PartsKeep ==
  ASSUME NEW c \in Seq(Row), NEW k \in Nat, NEW S
  PROVE  Kept(c, RefreshRows(Imported(c, k), S))
  <1> DEFINE d == Imported(c, k)
  <1>1. d \in Seq(Row) /\ Kept(c, d)
    BY ImportKeeps
  <1> HIDE DEF d
  <1>2. Kept(d, RefreshRows(d, S))
    BY <1>1, RefreshRowsKeeps
  <1>3. Kept(c, RefreshRows(d, S))
    BY <1>1, <1>2 DEF Kept
  <1> QED
    BY <1>3 DEF d

LEMMA RefreshKeeps ==
  ASSUME NEW c \in Seq(Row)
  PROVE  Kept(c, Refresh(c)) /\ \A i \in Rows(Refresh(c)) : Refresh(c)[i].feat # "stale"
  <1>1. Rows(Refresh(c)) = Rows(c)
    BY RefreshType
  <1> QED
    BY <1>1, RefreshRowsKeeps DEF Refresh

LEMMA RefreshIngestKeeps ==
  ASSUME NEW c \in Seq(Row), localLeft \in Nat
  PROVE  /\ Kept(c, Refresh(IngestBenign(c)))
         /\ \A i \in Rows(Refresh(IngestBenign(c))) : Refresh(IngestBenign(c))[i].feat # "stale"
  <1>1. IngestBenign(c) \in Seq(Row) /\ Kept(c, IngestBenign(c))
    BY ImportKeeps DEF IngestBenign
  <1>2. Kept(c, Refresh(IngestBenign(c)))
    BY <1>1, RefreshKeeps DEF Kept
  <1> QED
    BY <1>1, <1>2, RefreshKeeps

LEMMA CollectKeeps ==
  ASSUME TypeOK, Collect
  PROVE  Kept(corpus, corpus')
  <1>1. PICK fresh \in NewRows(MaxBatch) : corpus' = corpus \o fresh
    BY DEF Collect
  <1>2. corpus \in Seq(Row)
    BY DEF TypeOK
  <1>3. /\ corpus' \in Seq(Row) /\ Rows(corpus') = 1..(Len(corpus) + Len(fresh))
        /\ Len(corpus) \in Nat /\ Len(fresh) \in Nat
        /\ \A i \in Rows(corpus) : corpus'[i] = corpus[i]
    BY <1>1, <1>2, CollectType
  <1>4. Rows(corpus) \subseteq Rows(corpus')
    BY <1>2, <1>3, RowsAreFinite
  <1> QED
    BY <1>2, <1>3, <1>4 DEF Kept

\* Every step but the mark and an upgrade keeps the rows.
LEMMA RowsAreKept ==
  ASSUME TypeOK, [Next]_vars, ~MarkAllTrained, ~Upgrade
  PROVE  Kept(corpus, corpus')
  <1>0. corpus \in Seq(Row) /\ localLeft \in Nat
    BY DEF TypeOK
  <1>1. CASE UNCHANGED corpus
    BY <1>0, <1>1 DEF Kept
  <1>2. CASE Collect
    BY <1>2, CollectKeeps
  <1>3. CASE RetrainPrepare \/ ColdStart \/ ColdStartSkip
    <2>1. corpus' = Refresh(IngestBenign(corpus))
      BY <1>3 DEF RetrainPrepare, ColdStart, ColdStartSkip
    <2> QED
      BY <1>0, <2>1, RefreshIngestKeeps
  <1>4. CASE Evaluate
    <2>1. corpus' = corpus \/ corpus' = Refresh(corpus)
      BY <1>4 DEF Evaluate
    <2> QED
      BY <1>0, <1>1, <2>1, RefreshKeeps
  <1>5. CASE Abort
    <2>1. PICK files \in ImportedFiles : \E reread \in RereadRows(files) :
            corpus' = RefreshRows(Imported(corpus, files), reread)
      BY <1>5 DEF Abort
    <2>2. files \in Nat
      BY <1>0, FilesAreLocal
    <2> QED
      BY <1>0, <2>1, <2>2, PartsKeep
  <1> QED
    BY <1>1, <1>2, <1>3, <1>4, <1>5 DEF Next, vars, DriftQuiet, DriftDetected, ThresholdRetrain,
      RetrainFit, RetrainSkip, RecordUpdate, Infer
-----------------------------------------------------------------------------
(***************************************************************************)
(* A usable model keeps its corpus steady.  The counts a bundle carries    *)
(* say nothing of the rows of today; what carries the proof is that a      *)
(* bundle is made only when the table meets the targets, that current rows *)
(* only become more, and that an upgrade, which takes them back, takes the *)
(* bundle back too.                                                        *)
(***************************************************************************)
Current(c) == {i \in Rows(c) : c[i].feat = "current"}
Steady == Phase(corpus) = "steady"

LEMMA MoreRows ==
  ASSUME NEW c, NEW d, NEW S, NEW T, IsFiniteSet(T), S \subseteq T,
         \A i \in S : d[i].label = c[i].label, TargetsMet(ClassCounts(c, S))
  PROVE  TargetsMet(ClassCounts(d, T))
  <1>1. \A label \in 0..1 : OfClass(c, S, label) \in SUBSET OfClass(d, T, label)
    BY DEF OfClass
  <1>2. \A label \in 0..1 : IsFiniteSet(OfClass(d, T, label))
    <2>1. \A label \in 0..1 : OfClass(d, T, label) \in SUBSET T
      BY DEF OfClass
    <2> QED
      BY <2>1, FS_Subset
  <1>3. \A label \in 0..1 :
          /\ Cardinality(OfClass(c, S, label)) \in Nat /\ Cardinality(OfClass(d, T, label)) \in Nat
          /\ Cardinality(OfClass(c, S, label)) <= Cardinality(OfClass(d, T, label))
    BY <1>1, <1>2, FS_Subset, FS_CardinalityType
  <1> QED
    BY <1>3, LearningAssumption DEF TargetsMet, ClassCounts

LEMMA SteadyStays ==
  ASSUME NEW c, NEW d, Kept(c, d), Phase(c) = "steady"
  PROVE  Phase(d) = "steady"
  <1>1. Current(c) \subseteq Current(d) /\ \A i \in Current(c) : d[i].label = c[i].label
    BY DEF Kept, Current
  <1>2. Current(d) \in SUBSET Rows(d) /\ IsFiniteSet(Rows(d))
    BY RowsAreFinite DEF Kept, Current
  <1>3. IsFiniteSet(Current(d))
    BY <1>2, FS_Subset
  <1>4. TargetsMet(ClassCounts(c, Current(c)))
    BY DEF Phase, CountByLabel, Current
  <1>5. TargetsMet(ClassCounts(d, Current(d)))
    BY <1>1, <1>3, <1>4, MoreRows
  <1> QED
    BY <1>5 DEF Phase, CountByLabel, Current

\* A cold start needs the targets among the rows that a refresh left current.
LEMMA ColdIsSteady ==
  ASSUME TypeOK, ColdStart
  PROVE  Phase(corpus') = "steady"
  <1>1. /\ corpus' = Refresh(IngestBenign(corpus))
        /\ TargetsMet(ClassCounts(corpus', Arrays(corpus')))
    BY DEF ColdStart
  <1>2. corpus' \in Seq(Row) /\ \A i \in Rows(corpus') : corpus'[i].feat # "stale"
    BY <1>1, RefreshIngestKeeps DEF TypeOK, Kept
  <1>3. \A i \in Rows(corpus') : corpus'[i].feat \in {"current", "stale", "lost"}
    <2> SUFFICES ASSUME NEW i \in Rows(corpus') PROVE corpus'[i].feat \in {"current", "stale", "lost"}
      OBVIOUS
    <2>1. corpus'[i] \in Row
      BY <1>2, ElementOfSeq, RowsAreFinite
    <2> QED
      BY <2>1 DEF Row
  <1>4. Arrays(corpus') = Current(corpus')
    BY <1>2, <1>3 DEF Arrays, Current
  <1> QED
    BY <1>1, <1>4 DEF Phase, CountByLabel, Current

SteadyInv ==
  /\ bundle.compatible => Steady
  /\ pc \in {"retrain", "train"} => Steady

LEMMA SteadyInit == Init => SteadyInv
  BY DEF Init, NoBundle, SteadyInv

LEMMA SteadyStep == TypeOK /\ SteadyInv /\ [Next]_vars => SteadyInv'
  <1> SUFFICES ASSUME TypeOK, SteadyInv, [Next]_vars PROVE SteadyInv'
    OBVIOUS
  <1>0. ~MarkAllTrained /\ ~Upgrade => (Steady => Steady')
    BY RowsAreKept, SteadyStays DEF Steady, Phase, CountByLabel, ClassCounts, OfClass, Rows
  <1>1. CASE Collect \/ RecordUpdate \/ Infer \/ ColdStartSkip \/ Evaluate \/ Abort \/ DriftQuiet \/ RetrainSkip
    <2>1. ~MarkAllTrained /\ ~Upgrade
      BY <1>1 DEF Collect, RecordUpdate, Infer, ColdStartSkip, Evaluate, Abort, DriftQuiet, RetrainSkip,
        MarkAllTrained, Upgrade, updateLocal, passLocal
    <2>2. bundle' = bundle /\ pc' \notin {"retrain", "train"}
      BY <1>1 DEF Collect, RecordUpdate, Infer, ColdStartSkip, Evaluate, Abort, DriftQuiet, RetrainSkip
    <2> QED
      BY <1>0, <2>1, <2>2 DEF SteadyInv
  <1>2. CASE DriftDetected \/ ThresholdRetrain
    <2>1. Steady /\ corpus' = corpus /\ bundle' = bundle
      BY <1>2 DEF DriftDetected, ThresholdRetrain, SteadyPass, Steady
    <2> QED
      BY <2>1 DEF SteadyInv, Steady, Phase, CountByLabel, ClassCounts, OfClass, Rows
  <1>3. CASE RetrainPrepare
    <2>1. ~MarkAllTrained /\ ~Upgrade /\ Steady
      BY <1>3 DEF RetrainPrepare, MarkAllTrained, Upgrade, SteadyInv
    <2> QED
      BY <1>0, <2>1 DEF SteadyInv
  <1>4. CASE RetrainFit
    <2>1. Steady /\ corpus' = corpus
      BY <1>4 DEF RetrainFit, SteadyInv
    <2> QED
      BY <2>1 DEF SteadyInv, Steady, Phase, CountByLabel, ClassCounts, OfClass, Rows
  <1>5. CASE MarkAllTrained
    <2>1. bundle' = bundle /\ pc' = "record"
      BY <1>5 DEF MarkAllTrained
    <2>2. CountByLabel(corpus') = CountByLabel(corpus)
      <3>1. corpus' = [i \in Rows(corpus) |-> [corpus[i] EXCEPT !.trained = TRUE]]
        BY <1>5 DEF MarkAllTrained
      <3>2. Rows(corpus') = Rows(corpus)
        BY <3>1 DEF Rows
      <3>3. \A i \in Rows(corpus) : corpus[i] \in Row
        BY ElementOfSeq, RowsAreFinite DEF TypeOK
      <3>4. \A i \in Rows(corpus) : corpus'[i].label = corpus[i].label /\ corpus'[i].feat = corpus[i].feat
        BY <3>1, <3>3 DEF Row
      <3>5. Current(corpus') = Current(corpus)
        BY <3>2, <3>4 DEF Current
      <3>6. \A label \in 0..1 : OfClass(corpus', Current(corpus'), label) = OfClass(corpus, Current(corpus), label)
        BY <3>4, <3>5 DEF OfClass, Current
      <3> QED
        BY <3>6 DEF CountByLabel, ClassCounts, Current
    <2>3. Steady => Steady'
      BY <2>2 DEF Steady, Phase, CountByLabel, ClassCounts, OfClass, Rows
    <2> QED
      BY <2>1, <2>3 DEF SteadyInv
  <1>6. CASE ColdStart
    <2>1. Phase(corpus') = "steady"
      BY <1>6, ColdIsSteady
    <2>2. Steady'
      BY <2>1 DEF Steady, Phase, CountByLabel, ClassCounts, OfClass, Rows
    <2> QED
      BY <2>2 DEF SteadyInv
  <1>7. CASE Upgrade
    <2>1. bundle' = [bundle EXCEPT !.compatible = FALSE] /\ pc' = "select"
      BY <1>7 DEF Upgrade
    <2>2. bundle'.compatible = FALSE
      BY <2>1 DEF TypeOK, Bundle
    <2> QED
      BY <2>1, <2>2 DEF SteadyInv
  <1>8. CASE UNCHANGED vars
    BY <1>8 DEF vars, SteadyInv, Steady, Phase, CountByLabel, ClassCounts, OfClass, Rows
  <1> QED
    BY <1>1, <1>2, <1>3, <1>4, <1>5, <1>6, <1>7, <1>8 DEF Next

\* model_bundle_ready implies that the collection phase, computed from the table alone, is steady:
\* a corpus with a usable model never falls back to bootstrap, not even over an upgrade.
THEOREM ReadyIsSteady == Spec => []ReadyMeansSteady
  <1>1. SteadyInv => ReadyMeansSteady
    BY DEF SteadyInv, Steady, ReadyMeansSteady, Ready
  <1> QED
    BY <1>1, SteadyInit, SteadyStep, TypeCorrect, PTL DEF Spec
-----------------------------------------------------------------------------
(***************************************************************************)
(* mark_all_trained stamps every row of the table.  At that moment a row   *)
(* is held out, or in the batch, or history.  History that replay left out *)
(* is of a class that fills its budget; what replay took, and the batch of *)
(* a drift retrain, the model saw with its features.                       *)
(***************************************************************************)
Accounted == Learned \cup holdout \cup Crowded \cup Spent
MarkInv == pc = "mark" => Rows(corpus) \subseteq Accounted

\* Replay leaves a row of a class out only if the class has more rows than its budget.
LEMMA LeftOut ==
  ASSUME NEW S, IsFiniteSet(S), NEW budget \in Nat, NEW P \in ReplayOfClass(S, budget), NEW i \in S \ P
  PROVE  Cardinality(S) > budget
  <1>1. P \in SUBSET S /\ Cardinality(P) = AtMost(Cardinality(S), budget)
    BY DEF ReplayOfClass, kSubset
  <1>2. Cardinality(P) # Cardinality(S)
    BY <1>1, FS_Subset
  <1>3. Cardinality(S) \in Nat
    BY FS_CardinalityType
  <1> QED
    BY <1>1, <1>2, <1>3 DEF AtMost

LEMMA HistoryIsConsidered ==
  ASSUME TypeOK, NEW replay \in Replays(corpus, Historical), NEW i \in Historical, i \notin replay
  PROVE  i \in Crowded
  <1> DEFINE S(label) == OfClass(corpus, Historical, label)
  <1>1. PICK G \in ReplayOfClass(S(0), GoodwareBudget), M \in ReplayMalware(S(1)) : replay = G \cup M
    BY DEF Replays
  <1>2. \A label \in 0..1 : IsFiniteSet(S(label)) /\ Cardinality(S(label)) \in Nat
    <2>1. \A label \in 0..1 : S(label) \in SUBSET Rows(corpus)
      BY DEF OfClass, Historical
    <2>2. IsFiniteSet(Rows(corpus))
      BY RowsAreFinite DEF TypeOK
    <2> QED
      BY <2>1, <2>2, FS_Subset, FS_CardinalityType
  <1>3. corpus[i].label \in 0..1
    <2>1. corpus[i] \in Row
      BY ElementOfSeq, RowsAreFinite DEF TypeOK, Historical
    <2> QED
      BY <2>1 DEF Row
  <1>4. GoodwareBudget \in Nat /\ MalwareBudget \in Nat
    BY LearningAssumption
  <1>5. CASE corpus[i].label = 0
    <2>1. i \in S(0) \ G
      BY <1>1, <1>5 DEF OfClass
    <2>2. Cardinality(S(0)) > GoodwareBudget
      BY <1>1, <1>2, <1>4, <2>1, LeftOut
    <2> QED
      BY <1>5, <2>2 DEF Crowded
  <1>6. CASE corpus[i].label = 1
    <2>1. i \in S(1) \ M
      BY <1>1, <1>6 DEF OfClass
    <2>2. CASE M \in ReplayOfClass(S(1), MalwareBudget)
      <3>1. Cardinality(S(1)) > MalwareBudget
        BY <1>2, <1>4, <2>1, <2>2, LeftOut
      <3>2. Cardinality(S(1)) >= MalwareBudget
        BY <1>2, <1>4, <3>1
      <3> QED
        BY <1>6, <3>2 DEF Crowded
    <2>3. CASE M \notin ReplayOfClass(S(1), MalwareBudget)
      <3>1. Cardinality(S(1)) = MalwareBudget
        BY <1>1, <2>3 DEF ReplayMalware
      <3>2. Cardinality(S(1)) >= MalwareBudget
        BY <1>4, <3>1
      <3> QED
        BY <1>6, <3>2 DEF Crowded
    <2> QED
      BY <2>2, <2>3
  <1> QED
    BY <1>3, <1>5, <1>6

LEMMA MarkStep == TypeOK /\ MarkInv /\ [Next]_vars => MarkInv'
  <1> SUFFICES ASSUME TypeOK, MarkInv, [Next]_vars PROVE MarkInv'
    OBVIOUS
  <1>1. CASE RetrainFit
    <2>1. PICK replay \in Replays(corpus, Historical) :
            bundle' = RetrainedBundle(corpus, replay, Fresh, Trigger)
      BY <1>1 DEF RetrainFit
    <2>2. Seen(bundle') = replay \cup Fresh
      BY <2>1, FitPartSubset DEF RetrainedBundle, Seen
    <2>3. bundle'.blank = IF drift THEN {} ELSE Fresh
      BY <2>1 DEF RetrainedBundle, Trigger
    <2>4. UNCHANGED <<corpus, drift, batch, holdout>>
      BY <1>1 DEF RetrainFit, passLocal
    <2>5. Crowded' = Crowded /\ Spent' = Spent /\ Learned' = Seen(bundle') \ bundle'.blank
      BY <2>4 DEF Crowded, Historical, Seen, Rows, OfClass, Spent, Learned
    <2>6. Rows(corpus) \subseteq Learned' \cup holdout \cup Crowded \cup Spent
      <3> SUFFICES ASSUME NEW i \in Rows(corpus)
                   PROVE  i \in Learned' \cup holdout \cup Crowded \cup Spent
        OBVIOUS
      <3>1. CASE i \in holdout \/ (i \in batch /\ ~drift)
        BY <3>1 DEF Spent
      <3>2. CASE i \in batch /\ i \notin holdout /\ drift
        BY <2>2, <2>3, <2>5, <3>2 DEF Fresh
      <3>3. CASE i \in Historical
        <4>1. i \notin Fresh
          BY <3>3 DEF Historical, Fresh
        <4>2. CASE i \in replay
          BY <2>2, <2>3, <2>5, <4>1, <4>2
        <4>3. CASE i \notin replay
          BY <3>3, <4>3, HistoryIsConsidered
        <4> QED
          BY <4>2, <4>3
      <3> QED
        BY <3>1, <3>2, <3>3 DEF Historical
    <2> QED
      BY <2>4, <2>5, <2>6 DEF MarkInv, Accounted, Rows
  <1>2. CASE UNCHANGED vars
    BY <1>2 DEF vars, passLocal, updateLocal, MarkInv, Accounted, Crowded, Historical, Learned, Spent,
      Seen, Rows, OfClass
  <1>3. CASE ~RetrainFit /\ Next
    <2>1. pc' # "mark"
      BY <1>3 DEF Next, Collect, DriftQuiet, DriftDetected, ThresholdRetrain, RetrainPrepare, RetrainSkip,
        MarkAllTrained, RecordUpdate, Infer, ColdStart, ColdStartSkip, Evaluate, Abort, Upgrade
    <2> QED
      BY <2>1 DEF MarkInv
  <1> QED
    BY <1>1, <1>2, <1>3

LEMMA MarksAreAccounted ==
  TypeOK /\ MarkInv /\ [Next]_vars =>
    {i \in Rows(corpus) : corpus'[i].trained /\ ~corpus[i].trained} \subseteq Accounted
  <1> SUFFICES ASSUME TypeOK, MarkInv, [Next]_vars,
                      NEW i \in Rows(corpus), corpus'[i].trained, ~corpus[i].trained
               PROVE  i \in Accounted
    OBVIOUS
  <1>1. CASE MarkAllTrained
    BY <1>1 DEF MarkAllTrained, MarkInv
  <1>2. CASE Upgrade
    <2>1. PICK feat : corpus'[i] = [corpus[i] EXCEPT !.feat = feat]
      BY <1>2 DEF Upgrade
    <2>2. corpus[i] \in Row
      BY ElementOfSeq, RowsAreFinite DEF TypeOK
    <2>3. corpus'[i].trained = corpus[i].trained
      BY <2>1, <2>2 DEF Row
    <2> QED
      BY <2>3
  <1>3. CASE ~MarkAllTrained /\ ~Upgrade
    BY <1>3, RowsAreKept DEF Kept
  <1> QED
    BY <1>1, <1>2, <1>3

\* A drift retrain marks a row as trained only if the new model saw its features, or it is held
\* out, or its class fills the replay budget; a threshold retrain marks besides only its batch.
THEOREM MarksSpendNothing == Spec => MarkedRowsWereLearned
  <1>1. Init => MarkInv
    BY DEF Init, MarkInv
  <1>2. TypeOK /\ MarkInv /\ [Next]_vars =>
          [{i \in Rows(corpus) : corpus'[i].trained /\ ~corpus[i].trained}
             \subseteq Learned \cup holdout \cup Crowded \cup Spent]_vars
    BY MarksAreAccounted DEF Accounted
  <1> QED
    BY <1>1, <1>2, MarkStep, TypeCorrect, PTL DEF Spec, MarkedRowsWereLearned
=============================================================================
