---------------------------- MODULE LearningLoop ----------------------------
(***************************************************************************)
(* One graph pass of AMD-Agent as the learning side sees it: a batch of    *)
(* featured samples joins the corpus, the drift monitor decides between    *)
(* inference and retraining, a cold start or a MADAR retrain replaces the  *)
(* production bundle, and the update is compared with its predecessor on a *)
(* strict temporal holdout.  Passes follow one another; any node may raise *)
(* (the scheduler swallows the exception), and the process may restart     *)
(* with a new feature schema.                                              *)
(*                                                                         *)
(* A row of the corpus is a labelled row of the sample table that has its  *)
(* features; its index is its rank by ingested_at.  Its vector is          *)
(* "current", "stale" (older schema, its file can be re-read) or "lost"    *)
(* (older schema, its file is gone).  task_log and the rows' task_id, read *)
(* by retrograde evaluation only, are left out.                            *)
(***************************************************************************)
EXTENDS Integers, FiniteSetsExt, Sequences, TemporalSplit

CONSTANTS
  MinMalware, MinBenign,       \* MIN_TRAIN_MALWARE, MIN_TRAIN_BENIGN
  RetrainThreshold,            \* THRESHOLD_RETRAIN_MIN_NEW_SAMPLES
  GoodwareBudget,              \* benign share of REPLAY_BUDGET
  MalwareBudget,               \* malware share of REPLAY_BUDGET
  HoldoutTrain, HoldoutVal,    \* train_ratio, val_ratio of the holdout, in %
  FitPercent,                  \* train ratio of retrain_model, in %
  LocalBenign,                 \* files in data/benign when ALLOW_LOCAL_BENIGN
  MaxBatch,                    \* bound: samples one pass adds
  MaxRows,                     \* bound: rows of the corpus
  MaxAborts, MaxUpgrades       \* bounds: failed passes, schema changes

ASSUME LearningAssumption ==
  /\ {RetrainThreshold, GoodwareBudget, MalwareBudget, LocalBenign,
      MaxBatch, MaxRows, MaxAborts, MaxUpgrades} \subseteq Nat
  /\ {MinMalware, MinBenign} \subseteq Nat \ {0, 1}
  /\ {HoldoutTrain, HoldoutVal, FitPercent} \subseteq 0..100
  /\ HoldoutTrain + HoldoutVal <= 100 /\ LocalBenign <= MaxRows

VARIABLES
  corpus,        \* labelled rows by ingested_at
  localLeft,     \* files of data/benign not yet ingested
  bundle,        \* model.pkl
  pc,            \* node about to run, or the next write of model_retrain
  phase0,        \* collection_phase, fixed by source_selector for the pass
  vectors,       \* rows featured in this pass
  drift,         \* drift_detected
  batch,         \* new_labeled_batch
  prev,          \* previous_bundle of the update in progress
  holdout,       \* strict_holdout of the update in progress
  update,        \* the record this pass appended to model_update_log
  aborts, upgrades

passLocal == <<phase0, vectors, drift, batch>>
updateLocal == <<prev, holdout>>
vars == <<corpus, localLeft, bundle, pc, passLocal, updateLocal, update,
          aborts, upgrades>>
-----------------------------------------------------------------------------
NoBundle == [trigger |-> "none", strict |-> FALSE, fit |-> {}, calib |-> {},
             blank |-> {}, counts |-> [c \in 0..1 |-> 0], compatible |-> FALSE]
NoUpdate == [status |-> "none", prevStrict |-> FALSE, strict |-> FALSE,
             prevSeen |-> {}, seen |-> {}, holdout |-> {}]

Rows(c) == DOMAIN c
NewRow(label) == [label |-> label, feat |-> "current", trained |-> FALSE]

\* Rows of S with label c.
OfClass(c, S, label) == {i \in S : c[i].label = label}
TwoClasses(c, S) == \A label \in 0..1 : OfClass(c, S, label) # {}
ClassCounts(c, S) == [label \in 0..1 |-> Cardinality(OfClass(c, S, label))]

TargetsMet(counts) == counts[1] >= MinMalware /\ counts[0] >= MinBenign
Ready(b) == b.compatible /\ TargetsMet(b.counts)
Seen(b) == b.fit \cup b.calib

\* SampleRepository.count_by_label and CollectionContext.phase.
CountByLabel(c) == ClassCounts(c, {i \in Rows(c) : c[i].feat = "current"})
Phase(c) == IF TargetsMet(CountByLabel(c)) THEN "steady" ELSE "bootstrap"

Untrained(c) == {i \in Rows(c) : ~c[i].trained}

\* build_training_arrays: stale rows are re-extracted in place, lost rows skipped.
RefreshRows(c, S) == [i \in Rows(c) |-> IF i \in S /\ c[i].feat = "stale"
                                        THEN [c[i] EXCEPT !.feat = "current"] ELSE c[i]]
RefreshInMemory(c) == c      \* variant: the new features are not saved
Refresh(c) == RefreshRows(c, Rows(c))
Arrays(c) == {i \in Rows(c) : c[i].feat # "lost"}

\* ingest_benign_corpus: every file not in the table becomes a benign row.
Imported(c, k) == c \o [j \in 1..k |-> NewRow(0)]
IngestBenign(c) == Imported(c, localLeft)

\* variant: the slice taken at the wrong end
OldestHoldout(c) ==
  Oldest(Arrays(c), Cardinality(Arrays(c)) - ValEnd(Cardinality(Arrays(c)), HoldoutTrain, HoldoutVal))
StrictHoldout(c) == TestPart(Arrays(c), HoldoutTrain, HoldoutVal)
Healthy(c, H) == Cardinality(Arrays(c)) >= 5 /\ TwoClasses(c, H)
-----------------------------------------------------------------------------
(***************************************************************************)
(* Replay keeps a whole class when it fits its budget, and otherwise       *)
(* exactly the budget: random benign rows, malware rows picked family by   *)
(* family.  Which rows are picked is left open.  When the malware rows are *)
(* exactly the budget, the floor of a family's floating-point share can    *)
(* fall below its size (27 of 1500) and the slot goes to a full family.    *)
(***************************************************************************)
ReplayOfClass(S, budget) == kSubset(AtMost(Cardinality(S), budget), S)

ReplayMalware(S) ==
  ReplayOfClass(S, MalwareBudget)
    \cup (IF Cardinality(S) = MalwareBudget /\ MalwareBudget > 1 THEN kSubset(MalwareBudget - 1, S) ELSE {})

Replays(c, hist) ==
  {G \cup M : G \in ReplayOfClass(OfClass(c, hist, 0), GoodwareBudget),
              M \in ReplayMalware(OfClass(c, hist, 1))}

\* temporal_split of retrain_model over replay rows followed by new rows.
FitPart(replay, new) ==
  LET k == TrainEnd(Cardinality(replay) + Cardinality(new), FitPercent)
  IN Oldest(replay, k) \cup Oldest(new, k - Cardinality(replay))

RetrainedBundle(c, replay, new, trigger) ==
  [trigger |-> trigger, strict |-> TRUE,
   fit |-> FitPart(replay, new), calib |-> (replay \cup new) \ FitPart(replay, new),
   blank |-> IF trigger = "threshold_retrain" THEN new ELSE {},
   counts |-> ClassCounts(c, replay \cup new), compatible |-> TRUE]
-----------------------------------------------------------------------------
Init ==
  /\ corpus = <<>> /\ localLeft = LocalBenign
  /\ bundle = NoBundle /\ pc = "select"
  /\ phase0 = "bootstrap" /\ vectors = {} /\ drift = FALSE /\ batch = {}
  /\ prev = NoBundle /\ holdout = {} /\ update = NoUpdate
  /\ aborts = 0 /\ upgrades = 0

(***************************************************************************)
(* source_selector fixes the phase and clears the pass fields; collection, *)
(* validation and extraction then add the featured samples of the pass,    *)
(* stamped with their ingested_at, after every row of the table.           *)
(***************************************************************************)
NewRows(k) == UNION {[1..j -> {NewRow(0), NewRow(1)}] : j \in 0..k}

Collect ==
  /\ pc = "select"
  /\ \E fresh \in NewRows(MaxBatch) :
       /\ Len(corpus) + Len(fresh) + localLeft <= MaxRows
       /\ corpus' = corpus \o fresh
       /\ vectors' = (Len(corpus) + 1)..(Len(corpus) + Len(fresh))
  /\ phase0' = Phase(corpus)
  /\ drift' = FALSE /\ batch' = {}
  /\ update' = NoUpdate
  /\ pc' = "drift"
  /\ UNCHANGED <<localLeft, bundle, updateLocal, aborts, upgrades>>

\* Both the phase the pass started in and the phase the table is in now.
SteadyPassNow == Phase(corpus) = "steady"     \* variant: the phase of now alone
SteadyPass == phase0 = "steady" /\ Phase(corpus) = "steady"

\* drift_monitor outside the steady phase, or with nothing to react to.
DriftQuiet ==
  /\ pc = "drift"
  /\ ~SteadyPass \/ Cardinality(Untrained(corpus)) < RetrainThreshold
  /\ pc' = "infer"
  /\ UNCHANGED <<corpus, localLeft, bundle, passLocal, updateLocal, update,
                 aborts, upgrades>>

\* The detector fires on some samples of the pass: they are the labelled batch.
DriftDetected ==
  /\ pc = "drift"
  /\ SteadyPass
  /\ \E fired \in SUBSET vectors \ {{}} : batch' = fired
  /\ drift' = TRUE
  /\ pc' = "retrain"
  /\ UNCHANGED <<corpus, localLeft, bundle, phase0, vectors, updateLocal,
                 update, aborts, upgrades>>

\* No drift, and enough rows that carry no trained_at: the whole set is the batch.
ThresholdRetrain ==
  /\ pc = "drift"
  /\ SteadyPass
  /\ Cardinality(Untrained(corpus)) >= RetrainThreshold
  /\ batch' = Untrained(corpus)
  /\ pc' = "retrain"
  /\ UNCHANGED <<corpus, localLeft, bundle, phase0, vectors, drift,
                 updateLocal, update, aborts, upgrades>>
-----------------------------------------------------------------------------
TriggerByNode == IF drift THEN "explain_drift_context" ELSE "drift_monitor"  \* variant
Trigger == IF drift THEN "drift_detected" ELSE "threshold_retrain"
\* variant: history made of rows trained before
TrainedHistory == {i \in Rows(corpus) \ (batch \cup holdout) : corpus[i].trained}
Historical == Rows(corpus) \ (batch \cup holdout)
FreshWithHoldout == batch     \* variant: the holdout test forgotten
Fresh == batch \ holdout

\* model_retrain up to the training call: ingest, refresh, fix the holdout.
RetrainPrepare ==
  /\ pc = "retrain"
  /\ corpus' = Refresh(IngestBenign(corpus))
  /\ holdout' = StrictHoldout(corpus')
  /\ localLeft' = 0
  /\ pc' = "train"
  /\ UNCHANGED <<bundle, passLocal, prev, update, aborts, upgrades>>

\* Both classes must be present in the rows and in their training part.
BothClasses(replay, new) ==
  TwoClasses(corpus, replay \cup new) /\ TwoClasses(corpus, FitPart(replay, new))

\* madar_retrain and retrain_model succeed: model.pkl is replaced.
RetrainFit ==
  /\ pc = "train"
  /\ \E replay \in Replays(corpus, Historical) :
       /\ BothClasses(replay, Fresh)
       /\ bundle' = RetrainedBundle(corpus, replay, Fresh, Trigger)
  /\ prev' = bundle
  /\ pc' = "mark"
  /\ UNCHANGED <<corpus, localLeft, passLocal, holdout, update, aborts, upgrades>>

\* Nothing to train on, or one class only: the old bundle stays and the node returns.
RetrainSkip ==
  /\ pc = "train"
  /\ \E replay \in Replays(corpus, Historical) : ~BothClasses(replay, Fresh)
  /\ batch' = {} /\ drift' = FALSE
  /\ holdout' = {}
  /\ pc' = "evaluate"
  /\ UNCHANGED <<corpus, localLeft, bundle, phase0, vectors, prev,
                 update, aborts, upgrades>>

\* mark_all_trained stamps every row without trained_at, batch or not.
MarkAllTrained ==
  /\ pc = "mark"
  /\ corpus' = [i \in Rows(corpus) |-> [corpus[i] EXCEPT !.trained = TRUE]]
  /\ pc' = "record"
  /\ UNCHANGED <<localLeft, bundle, passLocal, updateLocal, update, aborts, upgrades>>

UpdateStatus == IF ~Healthy(corpus, holdout) THEN "skipped"
                ELSE IF Ready(prev) THEN "ok" ELSE "baseline"

\* record_model_update_comparison, and the return of the node.
RecordUpdate ==
  /\ pc = "record"
  /\ update' = [status |-> UpdateStatus, prevStrict |-> prev.strict,
                strict |-> bundle.strict, prevSeen |-> Seen(prev), seen |-> Seen(bundle),
                holdout |-> holdout]
  /\ batch' = {} /\ drift' = FALSE /\ prev' = NoBundle /\ holdout' = {}
  /\ pc' = "evaluate"
  /\ UNCHANGED <<corpus, localLeft, bundle, phase0, vectors, aborts, upgrades>>
-----------------------------------------------------------------------------
\* classifier_inference with a usable bundle only scores the batch.
Infer ==
  /\ pc = "infer"
  /\ Ready(bundle)
  /\ pc' = "evaluate"
  /\ UNCHANGED <<corpus, localLeft, bundle, passLocal, updateLocal, update,
                 aborts, upgrades>>

(***************************************************************************)
(* stratified_split: 30% of the rows, rounded up, are held out, half of    *)
(* them for validation; each class is spread over the parts in proportion. *)
(* With the targets met no class is too small for it, so the fallback to a *)
(* split by position and the single-class return cannot happen.            *)
(***************************************************************************)
InProportion(c, S, part) ==
  \A label \in 0..1 :
    LET exact == Cardinality(OfClass(c, S, label)) * Cardinality(part)
        got   == Cardinality(OfClass(c, part, label)) * Cardinality(S)
    IN got - exact \in (1 - Cardinality(S))..(Cardinality(S) - 1)

StratifiedParts(c, S, k) == {P \in kSubset(k, S) : InProportion(c, S, P)}

ColdSplits(c) ==
  LET A == Arrays(c)
      k == Share(Cardinality(A), 70)
  IN UNION {{<<fit, calib>> : calib \in StratifiedParts(c, A \ fit, (Cardinality(A) - k) \div 2)}
            : fit \in StratifiedParts(c, A, k)}

ColdBundle(c, fit, calib) ==
  [trigger |-> "cold_start", strict |-> FALSE, fit |-> fit, calib |-> calib,
   blank |-> {}, counts |-> ClassCounts(c, Arrays(c)), compatible |-> TRUE]

\* classifier_inference without a usable bundle, once the arrays meet the targets.
ColdStart ==
  /\ pc = "infer"
  /\ ~Ready(bundle)
  /\ LET c == Refresh(IngestBenign(corpus))
     IN /\ TargetsMet(ClassCounts(c, Arrays(c)))
        /\ \E s \in ColdSplits(c) : bundle' = ColdBundle(c, s[1], s[2])
        /\ corpus' = c
        /\ holdout' = StrictHoldout(c)
  /\ localLeft' = 0
  /\ prev' = NoBundle
  /\ pc' = "record"
  /\ UNCHANGED <<passLocal, update, aborts, upgrades>>

\* Too few rows for a cold start: the pass goes on without a model.
ColdStartSkip ==
  /\ pc = "infer"
  /\ ~Ready(bundle)
  /\ LET c == Refresh(IngestBenign(corpus))
     IN ~TargetsMet(ClassCounts(c, Arrays(c))) /\ corpus' = c
  /\ localLeft' = 0
  /\ pc' = "evaluate"
  /\ UNCHANGED <<bundle, passLocal, updateLocal, update, aborts, upgrades>>

\* evaluation_node may run TESSERACT outside bootstrap: it re-extracts stale rows.
Evaluate ==
  /\ pc = "evaluate"
  /\ corpus' \in {corpus} \cup (IF phase0 = "steady" THEN {Refresh(corpus)} ELSE {})
  /\ pc' = "select"
  /\ UNCHANGED <<localLeft, bundle, passLocal, updateLocal, update, aborts, upgrades>>
-----------------------------------------------------------------------------
(***************************************************************************)
(* A node raises: the pass is lost, the database and model.pkl are not.    *)
(* The benign import commits file by file and then, like an evaluation     *)
(* outside bootstrap, the re-extraction row by row, so that a failure      *)
(* leaves any part of them done.                                           *)
(***************************************************************************)
Importing == pc = "retrain" \/ (pc = "infer" /\ ~Ready(bundle))
ImportedFiles == IF Importing THEN 0..localLeft ELSE {0}
RereadRows(files) ==
  IF (Importing /\ files = localLeft) \/ (pc = "evaluate" /\ phase0 = "steady")
  THEN SUBSET {i \in Rows(corpus) : corpus[i].feat = "stale"} ELSE {{}}

Abort ==
  /\ pc # "select"
  /\ aborts < MaxAborts
  /\ aborts' = aborts + 1
  /\ \E files \in ImportedFiles : \E reread \in RereadRows(files) :
       /\ corpus' = RefreshRows(Imported(corpus, files), reread)
       /\ localLeft' = localLeft - files
  /\ pc' = "select"
  /\ prev' = NoBundle /\ holdout' = {}
  /\ UNCHANGED <<bundle, passLocal, update, upgrades>>

\* A new FEATURE_SET_VERSION is deployed; some sandbox files did not survive.
Upgrade ==
  /\ pc = "select"
  /\ upgrades < MaxUpgrades
  /\ upgrades' = upgrades + 1
  /\ \E gone \in SUBSET Rows(corpus) :
       corpus' = [i \in Rows(corpus) |->
                    [corpus[i] EXCEPT !.feat = IF i \in gone \/ @ = "lost"
                                               THEN "lost" ELSE "stale"]]
  /\ bundle' = [bundle EXCEPT !.compatible = FALSE]
  /\ UNCHANGED <<localLeft, pc, passLocal, updateLocal, update, aborts>>

Next ==
  \/ Collect \/ DriftQuiet \/ DriftDetected \/ ThresholdRetrain
  \/ RetrainPrepare \/ RetrainFit \/ RetrainSkip \/ MarkAllTrained \/ RecordUpdate
  \/ Infer \/ ColdStart \/ ColdStartSkip \/ Evaluate
  \/ Abort \/ Upgrade

Spec == Init /\ [][Next]_vars

\* The scheduler keeps running passes; it owes neither drift, failures nor upgrades.
FairSpec == Spec /\ WF_vars(Collect \/ DriftQuiet \/ ThresholdRetrain \/ RetrainPrepare
              \/ RetrainFit \/ RetrainSkip \/ MarkAllTrained \/ RecordUpdate
              \/ Infer \/ ColdStart \/ ColdStartSkip \/ Evaluate)
-----------------------------------------------------------------------------
Row == [label : 0..1, feat : {"current", "stale", "lost"}, trained : BOOLEAN]
Triggers == {"none", "cold_start", "drift_detected", "threshold_retrain"}
Bundle == [trigger : Triggers, strict : BOOLEAN, fit : SUBSET Nat, calib : SUBSET Nat,
           blank : SUBSET Nat, counts : [0..1 -> Nat], compatible : BOOLEAN]
Update == [status : {"none", "skipped", "baseline", "ok"}, prevStrict : BOOLEAN,
           strict : BOOLEAN, prevSeen : SUBSET Nat, seen : SUBSET Nat, holdout : SUBSET Nat]

\* Every variable has its type, and what the pass holds are rows of the table.
TypeOK ==
  /\ corpus \in Seq(Row) /\ localLeft \in Nat
  /\ bundle \in Bundle /\ prev \in Bundle /\ update \in Update
  /\ pc \in {"select", "drift", "retrain", "train", "mark", "record", "infer", "evaluate"}
  /\ phase0 \in {"bootstrap", "steady"} /\ drift \in BOOLEAN
  /\ {vectors, batch, holdout} \subseteq SUBSET Rows(corpus)
  /\ aborts \in Nat /\ upgrades \in Nat

\* A model logged as strict saw no row of the holdout it is compared on
\* (model_retrain leaves holdout_hashes out of history and out of the batch).
StrictHoldoutExcluded ==
  update.strict => update.seen \cap update.holdout = {}

\* When a comparison with metrics calls the previous model strict, that model,
\* trained passes ago against an older holdout, saw no row of today's holdout.
StrictBaselineHonest ==
  update.status = "ok" /\ update.prevStrict => update.prevSeen \cap update.holdout = {}

\* A usable bundle implies a steady corpus: the collection phase, computed from the
\* table alone, never falls back to bootstrap while model_bundle_ready holds.
ReadyMeansSteady == Ready(bundle) => Phase(corpus) = "steady"

\* A row gets its trained_at only if the new model saw its features, or it is held out, or
\* its class fills the replay budget.  Threshold retrains spend their batch, which enters
\* as empty vectors; a drift retrain spends no row, not even of the batches before it that
\* never reached a retrain, and neither kind spends a benign file imported meanwhile.
Crowded ==
  {i \in Historical : \/ corpus[i].label = 0 /\ Cardinality(OfClass(corpus, Historical, 0)) > GoodwareBudget
                      \/ corpus[i].label = 1 /\ Cardinality(OfClass(corpus, Historical, 1)) >= MalwareBudget}
Learned == Seen(bundle) \ bundle.blank
Spent == IF drift THEN {} ELSE batch
MarkedRowsWereLearned ==
  [][ {i \in Rows(corpus) : corpus'[i].trained /\ ~corpus[i].trained}
        \subseteq Learned \cup holdout \cup Crowded \cup Spent ]_vars

\* Rows enough to meet the targets, counting those a refresh can bring back, lead to a
\* usable bundle unless files are lost meanwhile: no pass keeps going round the cold start.
Trainable(c) == TargetsMet(ClassCounts(c, Arrays(c)))
TargetsLeadToModel ==
  [](aborts = 0) => (Trainable(corpus) ~> Ready(bundle) \/ ~Trainable(corpus))
-----------------------------------------------------------------------------
\* What the documentation says of the same program.

\* The retrain learns from the samples' features: no row enters as an empty vector.
NoBlankVectors == bundle.blank = {}
=============================================================================
