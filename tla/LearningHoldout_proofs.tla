----------------------- MODULE LearningHoldout_proofs -----------------------
(***************************************************************************)
(* The strict temporal holdout, proved for every value of the constants:   *)
(* neither the updated model nor a previous model called strict saw it.    *)
(***************************************************************************)
EXTENDS LearningLoop_proofs

\* The model waiting to be compared, and the one compared last, against its holdout.
HoldoutInv ==
  /\ pc \in {"mark", "record"} /\ bundle.strict => Seen(bundle) \cap holdout = {}
  /\ StrictHoldoutExcluded

\* A retrained bundle has seen what it was given, and nothing else.
LEMMA RetrainedSeen ==
  ASSUME NEW c, NEW replay, NEW new, NEW trigger
  PROVE  Seen(RetrainedBundle(c, replay, new, trigger)) = replay \cup new
  BY FitPartSubset DEF RetrainedBundle, Seen

\* The rows given to retrain_model are history and fresh rows outside the holdout.
LEMMA RetrainedOutsideHoldout ==
  ASSUME RetrainFit
  PROVE  Seen(bundle') \cap holdout = {} /\ Seen(bundle') \subseteq Rows(corpus) \cup batch
  <1>1. PICK replay \in Replays(corpus, Historical) :
          bundle' = RetrainedBundle(corpus, replay, Fresh, Trigger)
    BY DEF RetrainFit
  <1>2. Seen(bundle') = replay \cup Fresh
    BY <1>1, RetrainedSeen
  <1>3. replay \subseteq Historical
    BY ReplaySubset
  <1> QED
    BY <1>2, <1>3 DEF Historical, Fresh

LEMMA HoldoutStep == HoldoutInv /\ [Next]_vars => HoldoutInv'
  <1> SUFFICES ASSUME HoldoutInv, [Next]_vars PROVE HoldoutInv'
    OBVIOUS
  <1> USE DEF HoldoutInv, StrictHoldoutExcluded
  <1>1. CASE Collect
    BY <1>1 DEF Collect, NoUpdate
  <1>2. CASE DriftQuiet \/ DriftDetected \/ ThresholdRetrain \/ RetrainPrepare
    BY <1>2 DEF DriftQuiet, DriftDetected, ThresholdRetrain, RetrainPrepare
  <1>3. CASE RetrainFit
    <2>1. Seen(bundle)' \cap holdout = {}
      BY <1>3, RetrainedOutsideHoldout DEF Seen
    <2> QED
      BY <1>3, <2>1 DEF RetrainFit
  <1>4. CASE RetrainSkip \/ Infer \/ ColdStartSkip \/ Evaluate \/ Abort \/ Upgrade
    BY <1>4 DEF RetrainSkip, Infer, ColdStartSkip, Evaluate, Abort, Upgrade
  <1>5. CASE MarkAllTrained
    BY <1>5 DEF MarkAllTrained, Seen, updateLocal
  <1>6. CASE RecordUpdate
    BY <1>6 DEF RecordUpdate
  <1>7. CASE ColdStart
    <2>1. ~bundle'.strict
      BY <1>7 DEF ColdStart, ColdBundle
    <2> QED
      BY <1>7, <2>1 DEF ColdStart
  <1>8. CASE UNCHANGED vars
    BY <1>8 DEF vars, updateLocal, Seen
  <1> QED
    BY <1>1, <1>2, <1>3, <1>4, <1>5, <1>6, <1>7, <1>8 DEF Next

\* Every update that is logged as strict compares a model with a holdout it never saw:
\* model_retrain keeps holdout_hashes out of the history and out of the new batch.
THEOREM StrictHoldoutIsExcluded == Spec => []StrictHoldoutExcluded
  <1>1. Init => HoldoutInv
    BY DEF Init, HoldoutInv, StrictHoldoutExcluded, NoUpdate
  <1>2. HoldoutInv => StrictHoldoutExcluded
    BY DEF HoldoutInv
  <1> QED
    BY <1>1, <1>2, HoldoutStep, PTL DEF Spec
-----------------------------------------------------------------------------
(***************************************************************************)
(* The holdout is a tail: when rows are only ever appended, a row that was *)
(* before the cut stays before it.                                         *)
(***************************************************************************)
LEMMA ShareMonotone ==
  ASSUME NEW n \in Nat, NEW m \in Nat, n <= m, NEW percent \in 0..100
  PROVE  /\ Share(n, percent) \in Int /\ Share(m, percent) \in Int
         /\ Share(n, percent) <= Share(m, percent)
         /\ 0 <= Share(n, percent) /\ Share(n, percent) <= n
  <1>1. percent * n <= percent * m /\ percent * n <= 100 * n /\ 0 <= percent * n
    <2>1. percent * (m - n) >= 0 /\ (100 - percent) * n >= 0 /\ percent * n >= 0
      OBVIOUS
    <2> QED
      BY <2>1
  <1>2. percent * n \in Int /\ percent * m \in Int
    OBVIOUS
  <1>3. \A x, y \in Int : x <= y => x \div 100 <= y \div 100
    OBVIOUS
  <1>4. (100 * n) \div 100 = n /\ 0 \div 100 = 0
    OBVIOUS
  <1> DEFINE x == percent * n
             y == percent * m
  <1> HIDE DEF x, y
  <1>5. x \in Int /\ y \in Int /\ x <= y /\ x <= 100 * n /\ 0 <= x
    BY <1>1, <1>2 DEF x, y
  <1>6. x \div 100 \in Int /\ y \div 100 \in Int /\ x \div 100 <= y \div 100
        /\ 0 <= x \div 100 /\ x \div 100 <= n
    BY <1>3, <1>4, <1>5
  <1> QED
    BY <1>6 DEF Share, x, y

LEMMA ValEndMonotone ==
  ASSUME NEW n \in Nat, NEW m \in Nat, n <= m
  PROVE  /\ ValEnd(n, HoldoutTrain, HoldoutVal) \in Int
         /\ ValEnd(m, HoldoutTrain, HoldoutVal) \in Int
         /\ ValEnd(n, HoldoutTrain, HoldoutVal) <= ValEnd(m, HoldoutTrain, HoldoutVal)
  <1>1. HoldoutTrain \in 0..100 /\ HoldoutTrain + HoldoutVal \in 0..100
    BY LearningAssumption
  <1> DEFINE a == Share(n, HoldoutTrain)
             b == Share(m, HoldoutTrain)
             d == Share(n, HoldoutTrain + HoldoutVal)
             e == Share(m, HoldoutTrain + HoldoutVal)
  <1> HIDE DEF a, b, d, e
  <1>2. a \in Int /\ b \in Int /\ 0 <= a /\ a <= b /\ a <= n
    BY <1>1, ShareMonotone DEF a, b
  <1>3. d \in Int /\ e \in Int /\ d <= e
    BY <1>1, ShareMonotone DEF d, e
  <1> QED
    BY <1>2, <1>3 DEF ValEnd, TrainEnd, AtLeast, AtMost, a, b, d, e

\* A set that grows by later elements only keeps its first elements out of the tail.
LEMMA TailMoves ==
  ASSUME NEW A, NEW B \in SUBSET Nat, IsFiniteSet(B), A \subseteq B,
         \A i \in A, j \in B \ A : i < j
  PROVE  TestPart(B, HoldoutTrain, HoldoutVal) \cap A
           \subseteq TestPart(A, HoldoutTrain, HoldoutVal)
  <1> DEFINE n == Cardinality(A)
             m == Cardinality(B)
  <1>1. IsFiniteSet(A) /\ n \in Nat /\ m \in Nat /\ n <= m
    BY FS_Subset, FS_CardinalityType
  <1>2. SUFFICES ASSUME NEW i \in A, i \in Oldest(A, ValEnd(n, HoldoutTrain, HoldoutVal))
                 PROVE  i \in Oldest(B, ValEnd(m, HoldoutTrain, HoldoutVal))
    BY DEF TestPart
  <1>3. {j \in B : j <= i} = {j \in A : j <= i}
    <2>1. \A j \in B : j <= i => j \in A
      OBVIOUS
    <2> QED
      BY <2>1
  <1>4. Cardinality({j \in A : j <= i}) \in Nat
    BY <1>1, FS_Subset, FS_CardinalityType
  <1> HIDE DEF n, m
  <1>5. Cardinality({j \in A : j <= i}) <= ValEnd(n, HoldoutTrain, HoldoutVal)
    BY <1>2 DEF Oldest
  <1>6. Cardinality({j \in B : j <= i}) <= ValEnd(m, HoldoutTrain, HoldoutVal)
    BY <1>1, <1>3, <1>4, <1>5, ValEndMonotone
  <1> QED
    BY <1>6 DEF Oldest

\* The table d is c with rows appended, and with no vector of c lost or found.
Grows(c, d) ==
  /\ c \in Seq(Row) /\ d \in Seq(Row) /\ Rows(c) \subseteq Rows(d)
  /\ Arrays(d) \cap Rows(c) = Arrays(c)

LEMMA HoldoutMoves ==
  ASSUME NEW c, NEW d, Grows(c, d)
  PROVE  StrictHoldout(d) \cap Rows(c) \subseteq StrictHoldout(c)
  <1>1. /\ Rows(c) = 1..Len(c) /\ Rows(d) = 1..Len(d) /\ Len(c) \in Nat /\ Len(d) \in Nat
        /\ IsFiniteSet(Rows(d))
    BY RowsAreFinite DEF Grows
  <1>2. Arrays(d) \subseteq Rows(d) /\ Arrays(c) \subseteq Rows(c)
    BY DEF Arrays
  <1>3. IsFiniteSet(Arrays(d)) /\ Arrays(d) \in SUBSET Nat /\ Arrays(c) \subseteq Arrays(d)
    BY <1>1, <1>2, FS_Subset DEF Grows
  <1>4. \A i \in Arrays(c), j \in Arrays(d) \ Arrays(c) : i < j
    <2> SUFFICES ASSUME NEW i \in Arrays(c), NEW j \in Arrays(d), j \notin Arrays(c)
                 PROVE  i < j
      OBVIOUS
    <2>1. j \in Rows(d) \ Rows(c) /\ i \in Rows(c)
      BY <1>2 DEF Grows
    <2> QED
      BY <2>1, <1>1
  <1>5. TestPart(Arrays(d), HoldoutTrain, HoldoutVal) \cap Arrays(c)
          \subseteq TestPart(Arrays(c), HoldoutTrain, HoldoutVal)
    BY <1>3, <1>4, TailMoves
  <1>6. StrictHoldout(d) \subseteq Arrays(d)
    BY DEF StrictHoldout, TestPart
  <1> QED
    BY <1>5, <1>6 DEF StrictHoldout, Grows
-----------------------------------------------------------------------------
(***************************************************************************)
(* How the table grows.                                                    *)
(***************************************************************************)
LEMMA RefreshRowsGrows ==
  ASSUME NEW c \in Seq(Row), NEW S
  PROVE  Grows(c, RefreshRows(c, S))
  <1> DEFINE d == RefreshRows(c, S)
  <1>1. Rows(d) = Rows(c) /\ d \in Seq(Row)
    BY RefreshRowsType
  <1>2. \A i \in Rows(c) : d[i].feat = "lost" <=> c[i].feat = "lost"
    <2> SUFFICES ASSUME NEW i \in Rows(c)
                 PROVE  d[i].feat = "lost" <=> c[i].feat = "lost"
      OBVIOUS
    <2>1. c[i] \in Row
      BY ElementOfSeq, RowsAreFinite
    <2> QED
      BY <2>1 DEF RefreshRows, Row
  <1> QED
    BY <1>1, <1>2 DEF Grows, Arrays

LEMMA RefreshGrows ==
  ASSUME NEW c \in Seq(Row)
  PROVE  Grows(c, Refresh(c))
  BY RefreshRowsGrows DEF Refresh

LEMMA ImportGrows ==
  ASSUME NEW c \in Seq(Row), NEW k \in Nat
  PROVE  Grows(c, Imported(c, k))
  <1> DEFINE d == Imported(c, k)
  <1>1. /\ d \in Seq(Row) /\ Len(d) = Len(c) + k
        /\ \A i \in 1..Len(c) : d[i] = c[i]
    BY ImportType
  <1> HIDE DEF d
  <1>2. Rows(c) = 1..Len(c) /\ Rows(d) = 1..(Len(c) + k) /\ Len(c) \in Nat
    BY <1>1, RowsAreFinite
  <1>3. Rows(c) \subseteq Rows(d) /\ \A i \in Rows(c) : d[i] = c[i]
    BY <1>1, <1>2
  <1>4. Arrays(d) \cap Rows(c) = Arrays(c)
    BY <1>3 DEF Arrays
  <1>5. Grows(c, d)
    BY <1>1, <1>3, <1>4 DEF Grows
  <1> QED
    BY <1>5 DEF d

\* All of the import and the re-extraction, or what a failure leaves of them.
LEMMA PartsGrow ==
  ASSUME NEW c \in Seq(Row), NEW k \in Nat, NEW S
  PROVE  Grows(c, RefreshRows(Imported(c, k), S))
  <1> DEFINE d == Imported(c, k)
             e == RefreshRows(d, S)
  <1>1. Grows(c, d)
    BY ImportGrows
  <1> HIDE DEF d
  <1>2. Grows(d, e)
    BY <1>1, RefreshRowsGrows DEF Grows
  <1> HIDE DEF e
  <1>3. Grows(c, e)
    BY <1>1, <1>2 DEF Grows
  <1> QED
    BY <1>3 DEF d, e

LEMMA RefreshIngestGrows ==
  ASSUME NEW c \in Seq(Row), localLeft \in Nat
  PROVE  Grows(c, Refresh(IngestBenign(c)))
  BY PartsGrow DEF Refresh, IngestBenign

\* A pass only appends rows.
LEMMA CollectGrows ==
  ASSUME TypeOK, Collect
  PROVE  Grows(corpus, corpus')
  <1>1. PICK fresh \in NewRows(MaxBatch) : corpus' = corpus \o fresh
    BY DEF Collect
  <1>2. /\ corpus \in Seq(Row) /\ corpus' \in Seq(Row) /\ Rows(corpus) = 1..Len(corpus)
        /\ Rows(corpus') = 1..(Len(corpus) + Len(fresh))
        /\ Len(corpus) \in Nat /\ Len(fresh) \in Nat
    BY <1>1, CollectType, RowsAreFinite DEF TypeOK
  <1>3. \A i \in Rows(corpus) : corpus'[i] = corpus[i]
    BY <1>1, CollectType DEF TypeOK
  <1>4. Rows(corpus) \subseteq Rows(corpus')
    BY <1>2
  <1>5. Arrays(corpus') \cap Rows(corpus) = Arrays(corpus)
    BY <1>3, <1>4 DEF Arrays
  <1> QED
    BY <1>2, <1>4, <1>5 DEF Grows

\* MarkAllTrained changes no vector.
LEMMA MarkGrows ==
  ASSUME TypeOK, MarkAllTrained
  PROVE  /\ StrictHoldout(corpus') = StrictHoldout(corpus) /\ Rows(corpus') = Rows(corpus)
  <1>1. Rows(corpus') = Rows(corpus)
    BY DEF MarkAllTrained, Rows
  <1>2. \A i \in Rows(corpus) : corpus'[i].feat = corpus[i].feat
    <2> SUFFICES ASSUME NEW i \in Rows(corpus) PROVE corpus'[i].feat = corpus[i].feat
      OBVIOUS
    <2>1. corpus[i] \in Row
      BY ElementOfSeq, RowsAreFinite DEF TypeOK
    <2> QED
      BY <2>1 DEF MarkAllTrained, Row
  <1>3. Arrays(corpus') = Arrays(corpus)
    BY <1>1, <1>2 DEF Arrays
  <1> QED
    BY <1>1, <1>3 DEF StrictHoldout
-----------------------------------------------------------------------------
(***************************************************************************)
(* The inductive invariant behind StrictBaselineHonest: a strict model     *)
(* never saw what is the holdout now, so it has not seen the holdout of    *)
(* the update in which it becomes the previous model.                      *)
(***************************************************************************)
Unseen(b, c) == b.strict /\ b.compatible => /\ Seen(b) \subseteq Rows(c)
                                           /\ Seen(b) \cap StrictHoldout(c) = {}
BaselineInv ==
  /\ Unseen(bundle, corpus)
  /\ pc = "train" => holdout = StrictHoldout(corpus)
  /\ pc \in {"mark", "record"} /\ prev.strict /\ prev.compatible => Seen(prev) \cap holdout = {}
  /\ StrictBaselineHonest

LEMMA UnseenGrows ==
  ASSUME NEW b, NEW c, NEW d, Unseen(b, c), Grows(c, d)
  PROVE  Unseen(b, d)
  BY HoldoutMoves DEF Unseen, Grows

LEMMA BaselineInit == Init => BaselineInv
  BY DEF Init, BaselineInv, Unseen, NoBundle, NoUpdate, StrictBaselineHonest

\* An action that leaves alone the pass's update may only grow the table.
LEMMA BaselineFrame ==
  ASSUME BaselineInv, Grows(corpus, corpus'),
         bundle' = bundle, pc' \notin {"train", "mark", "record"},
         update' = update \/ update' = NoUpdate
  PROVE  BaselineInv'
  <1>1. Unseen(bundle, corpus)'
    BY UnseenGrows DEF BaselineInv, Unseen, Seen, StrictHoldout, Arrays, Rows
  <1>2. StrictBaselineHonest'
    BY DEF BaselineInv, StrictBaselineHonest, NoUpdate
  <1> QED
    BY <1>1, <1>2 DEF BaselineInv

LEMMA BaselineStep == TypeOK /\ BaselineInv /\ [Next]_vars => BaselineInv'
  <1> SUFFICES ASSUME TypeOK, BaselineInv, [Next]_vars PROVE BaselineInv'
    OBVIOUS
  <1>0. corpus \in Seq(Row) /\ localLeft \in Nat /\ Grows(corpus, corpus)
    BY DEF TypeOK, Grows, Arrays
  <1>1. CASE Collect
    <2>1. Grows(corpus, corpus')
      BY <1>1, CollectGrows DEF BaselineInv
    <2> QED
      BY <1>1, <2>1, BaselineFrame DEF Collect
  <1>2. CASE DriftQuiet \/ DriftDetected \/ ThresholdRetrain \/ Infer
    <2>1. corpus' = corpus /\ bundle' = bundle /\ update' = update
          /\ pc' \notin {"train", "mark", "record"}
      BY <1>2 DEF DriftQuiet, DriftDetected, ThresholdRetrain, Infer
    <2> QED
      BY <1>0, <2>1, BaselineFrame DEF BaselineInv
  <1>3. CASE RetrainPrepare
    <2>1. corpus' = Refresh(IngestBenign(corpus)) /\ holdout' = StrictHoldout(corpus')
      BY <1>3 DEF RetrainPrepare
    <2>2. Grows(corpus, corpus')
      BY <1>0, <2>1, RefreshIngestGrows DEF BaselineInv
    <2>3. Unseen(bundle, corpus')
      BY <2>2, UnseenGrows DEF BaselineInv
    <2> QED
      BY <1>3, <2>1, <2>2, <2>3
      DEF RetrainPrepare, BaselineInv, StrictBaselineHonest, Unseen
  <1>4. CASE RetrainFit
    <2>1. Seen(bundle') \cap holdout = {} /\ Seen(bundle') \subseteq Rows(corpus)
      BY <1>4, RetrainedOutsideHoldout DEF TypeOK
    <2>2. UNCHANGED <<corpus, holdout, update>> /\ prev' = bundle /\ pc = "train" /\ pc' = "mark"
      BY <1>4 DEF RetrainFit
    <2>3. Unseen(bundle, corpus)'
      BY <2>1, <2>2 DEF BaselineInv, Unseen
    <2>4. prev'.strict /\ prev'.compatible => Seen(prev') \cap holdout' = {}
      BY <2>2 DEF BaselineInv, Unseen
    <2> QED
      BY <2>2, <2>3, <2>4 DEF BaselineInv, StrictBaselineHonest
  <1>5. CASE RetrainSkip
    BY <1>0, <1>5, BaselineFrame DEF RetrainSkip, BaselineInv
  <1>6. CASE MarkAllTrained
    <2>1. /\ StrictHoldout(corpus') = StrictHoldout(corpus) /\ Rows(corpus') = Rows(corpus)
      BY <1>6, MarkGrows
    <2>2. UNCHANGED <<bundle, prev, holdout, update>> /\ pc = "mark" /\ pc' = "record"
      BY <1>6 DEF MarkAllTrained, updateLocal
    <2> QED
      BY <2>1, <2>2 DEF BaselineInv, Unseen, StrictBaselineHonest
  <1>7. CASE RecordUpdate
    <2>1. UNCHANGED <<corpus, bundle>> /\ pc = "record" /\ pc' = "evaluate"
      BY <1>7 DEF RecordUpdate
    <2>2. StrictBaselineHonest'
      <3>1. /\ update'.status = UpdateStatus /\ update'.prevStrict = prev.strict
            /\ update'.prevSeen = Seen(prev) /\ update'.holdout = holdout
        BY <1>7 DEF RecordUpdate
      <3>2. UpdateStatus = "ok" => prev.compatible
        BY DEF UpdateStatus, Ready
      <3> QED
        BY <2>1, <3>1, <3>2 DEF BaselineInv, StrictBaselineHonest
    <2> QED
      BY <2>1, <2>2 DEF BaselineInv
  <1>8. CASE ColdStart
    <2>1. PICK s : /\ corpus' = Refresh(IngestBenign(corpus))
                   /\ bundle' = ColdBundle(corpus', s[1], s[2])
                   /\ prev' = NoBundle /\ pc' = "record" /\ update' = update
      BY <1>8 DEF ColdStart
    <2>2. Unseen(bundle, corpus)'
      BY <2>1 DEF ColdBundle, Unseen
    <2> QED
      BY <2>1, <2>2 DEF BaselineInv, StrictBaselineHonest, NoBundle
  <1>9. CASE ColdStartSkip
    <2>1. corpus' = Refresh(IngestBenign(corpus)) /\ bundle' = bundle /\ update' = update
          /\ pc' = "evaluate"
      BY <1>9 DEF ColdStartSkip
    <2>2. Grows(corpus, corpus')
      BY <1>0, <2>1, RefreshIngestGrows DEF BaselineInv
    <2> QED
      BY <2>1, <2>2, BaselineFrame
  <1>10. CASE Evaluate
    <2>1. corpus' \in {corpus, Refresh(corpus)} /\ bundle' = bundle /\ update' = update
          /\ pc' = "select"
      BY <1>10 DEF Evaluate
    <2>2. Grows(corpus, corpus')
      BY <1>0, <2>1, RefreshGrows DEF BaselineInv
    <2> QED
      BY <2>1, <2>2, BaselineFrame
  <1>11. CASE Abort
    <2>1. PICK files \in ImportedFiles : \E reread \in RereadRows(files) :
            corpus' = RefreshRows(Imported(corpus, files), reread)
      BY <1>11 DEF Abort
    <2>2. files \in Nat
      BY <1>0, FilesAreLocal
    <2>3. Grows(corpus, corpus')
      BY <1>0, <2>1, <2>2, PartsGrow
    <2>4. bundle' = bundle /\ update' = update /\ pc' = "select"
      BY <1>11 DEF Abort
    <2> QED
      BY <2>3, <2>4, BaselineFrame
  <1>12. CASE Upgrade
    <2>1. ~bundle'.compatible /\ UNCHANGED <<pc, update>> /\ pc = "select"
      BY <1>12 DEF Upgrade, TypeOK, Bundle
    <2>2. Unseen(bundle, corpus)'
      BY <2>1 DEF Unseen
    <2> QED
      BY <2>1, <2>2 DEF BaselineInv, StrictBaselineHonest
  <1>13. CASE UNCHANGED vars
    BY <1>13 DEF vars, updateLocal, BaselineInv, Unseen, Seen, StrictBaselineHonest,
       Rows, StrictHoldout, Arrays
  <1> QED
    BY <1>1, <1>2, <1>3, <1>4, <1>5, <1>6, <1>7, <1>8, <1>9, <1>10, <1>11, <1>12, <1>13
    DEF Next

\* The previous model of a comparison, when it is called strict, saw no row of the
\* holdout it is scored on, although it was trained passes earlier against another one.
\* Rows only join the table at its end, so yesterday's training rows stay out of the tail.
THEOREM StrictBaselineIsHonest == Spec => []StrictBaselineHonest
  <1>1. BaselineInv => StrictBaselineHonest
    BY DEF BaselineInv
  <1> QED
    BY <1>1, BaselineStep, BaselineInit, TypeCorrect, PTL DEF Spec
=============================================================================
