--------------------------- MODULE Runtime_proofs ---------------------------
(***************************************************************************)
(* Proofs about Runtime for any settings and bounds.  RuntimeInv says what *)
(* the pass under way owes to the logs: the number, the task, the drift    *)
(* and the evaluation it holds come after all that is written down.        *)
(***************************************************************************)
EXTENDS Runtime, FiniteSetTheorems, TLAPS

LEMMA NextCount ==
  ASSUME NEW n \in 0..(EvalEvery - 1)
  PROVE  (n + 1) % EvalEvery = IF n + 1 = EvalEvery THEN 0 ELSE n + 1
  BY RuntimeAssumption

\* What the three files have in common: they are read by index and added to at the end.
LEMMA ElementType ==
  ASSUME NEW S, NEW s \in Seq(S), NEW i \in DOMAIN s
  PROVE  s[i] \in S /\ i \in 1..Len(s)
  OBVIOUS

LEMMA Appended ==
  ASSUME NEW S, NEW s \in Seq(S), NEW e \in S
  PROVE  /\ Append(s, e) \in Seq(S) /\ DOMAIN Append(s, e) = 1..(Len(s) + 1)
         /\ Append(s, e)[Len(s) + 1] = e
         /\ \A i \in 1..Len(s) : Append(s, e)[i] = s[i]
  OBVIOUS

LEMMA Concatenated ==
  ASSUME NEW S, NEW s \in Seq(S), NEW t \in Seq(S)
  PROVE  /\ s \o t \in Seq(S) /\ DOMAIN (s \o t) = 1..(Len(s) + Len(t))
         /\ \A i \in 1..Len(s) : (s \o t)[i] = s[i]
         /\ \A i \in (Len(s) + 1)..(Len(s) + Len(t)) : i - Len(s) \in 1..Len(t) /\ (s \o t)[i] = t[i - Len(s)]
  OBVIOUS

\* While a pass runs, the bootstrap has passes left; without a process there is no pass.
ProcInv ==
  /\ proc = "bootstrap" => runs < BootstrapMax
  /\ proc = "down" => at = "sleep"

\* The gate has let go no more passes than are counted, and EvalEvery - 1 for each count that was
\* lost; so when an evaluation is due, and its count starts again, there are as many more.
Allowed == (EvalEvery - 1) * lost
GateInv ==
  /\ skipped <= counter + Allowed \/ (at = "measure" /\ ~Forced)
  /\ skipped <= (EvalEvery - 1) + Allowed

\* What is written down is in the past.
Written ==
  /\ \A i \in DOMAIN evalLog : evalLog[i].eval <= evals /\ evalLog[i].from \in 0..Len(history)
  /\ \A i \in DOMAIN history : history[i].number = i /\ history[i].task <= tasks /\ history[i].eval <= evals
  /\ \A i \in DOMAIN driftLog : driftLog[i].event <= events

\* What the pass holds is in the past as well.
Held ==
  /\ pass.event <= events /\ pass.pre <= evals /\ pass.eval <= evals
  /\ at \in {"collect", "drift", "infer"} => pass.event = 0
  /\ at \in {"collect", "drift", "infer", "retrain", "train"} => pass.retrained = "no"

\* A retrain that is under way is the next to be written down.
Opened ==
  at = "train" \/ (at \in {"gate", "measure", "history"} /\ pass.retrained = "done") =>
    /\ pass.number = Len(history) + 1 /\ pass.task <= tasks
    /\ \A i \in DOMAIN history : history[i].task < pass.task

\* So is a drift, and an evaluation that was just measured.
Detected ==
  at \in {"retrain", "train", "gate", "measure", "history", "driftlog"} /\ pass.event # 0 =>
    \A i \in DOMAIN driftLog : driftLog[i].event < pass.event
JustMeasured ==
  /\ at = "history" /\ pass.metrics = "full" => \A i \in DOMAIN history : history[i].eval < pass.eval
  /\ at \in {"history", "driftlog"} => pass.eval = 0 \/ pass.pre < pass.eval

RuntimeInv ==
  /\ TypeOK /\ ProcInv /\ GateInv /\ Written /\ Held /\ Opened /\ Detected /\ JustMeasured
  /\ HistoryFits /\ DriftLogFits /\ BackfilledOnce

LEMMA NoPassIsAPass == NoPass \in Passes
  BY DEF NoPass, Passes

LEMMA RuntimeInit == Init => RuntimeInv
  <1> SUFFICES ASSUME Init PROVE RuntimeInv
    OBVIOUS
  <1> USE RuntimeAssumption DEF Init
  <1>1. TypeOK
    <2>1. 0 \in 0..BootstrapMax /\ 0 \in 0..(EvalEvery - 1)
      OBVIOUS
    <2>2. evalLog \in Seq([eval : Nat, from : Nat]) /\ history \in Seq([number : Nat, task : Nat, eval : Nat])
          /\ driftLog \in Seq([event : Nat, pre : Nat, post : Nat])
      OBVIOUS
    <2>3. proc \in {"down", "bootstrap", "daemon"} /\ runs \in 0..BootstrapMax
          /\ at \in Nodes \cup {"sleep"} /\ pass \in Passes
      BY <2>1, NoPassIsAPass
    <2>4. steady \in BOOLEAN /\ ready \in BOOLEAN
      BY Zenon
    <2>5. tasks \in Nat /\ {evals, events, skipped, lost, faults} \subseteq Nat
      OBVIOUS
    <2> QED
      BY <2>1, <2>2, <2>3, <2>4, <2>5 DEF TypeOK
  <1>2. ProcInv /\ GateInv /\ Held /\ Opened
    BY DEF ProcInv, GateInv, Allowed, Held, Opened, NoPass
  <1>3. Written /\ Detected /\ JustMeasured
    BY DEF Written, Detected, JustMeasured, NoPass
  <1>4. HistoryFits /\ DriftLogFits /\ BackfilledOnce
    BY DEF HistoryFits, DriftLogFits, BackfilledOnce, Increasing
  <1> QED
    BY <1>1, <1>2, <1>3, <1>4 DEF RuntimeInv
-----------------------------------------------------------------------------
\* The type invariant in three parts, each kept by every step.
ControlOK ==
  /\ proc \in {"down", "bootstrap", "daemon"} /\ runs \in 0..BootstrapMax
  /\ at \in Nodes \cup {"sleep"} /\ pass \in Passes
  /\ ProcInv
TablesOK ==
  /\ steady \in BOOLEAN /\ ready \in BOOLEAN /\ tasks \in Nat
  /\ counter \in 0..(EvalEvery - 1)
  /\ evals \in Nat /\ events \in Nat /\ skipped \in Nat /\ lost \in Nat /\ faults \in Nat
EvalLines == [eval : Nat, from : Nat]
HistoryRecords == [number : Nat, task : Nat, eval : Nat]
DriftRecords == [event : Nat, pre : Nat, post : Nat]
LogsOK == evalLog \in Seq(EvalLines) /\ history \in Seq(HistoryRecords) /\ driftLog \in Seq(DriftRecords)

LEMMA TypeParts == TypeOK /\ ProcInv <=> ControlOK /\ TablesOK /\ LogsOK
  <1>1. TypeOK /\ ProcInv => ControlOK
    BY DEF TypeOK, ControlOK, ProcInv
  <1>2. TypeOK => TablesOK /\ LogsOK
    BY DEF TypeOK, TablesOK, LogsOK, EvalLines, HistoryRecords, DriftRecords
  <1>3. ControlOK /\ TablesOK /\ LogsOK => TypeOK /\ ProcInv
    BY DEF TypeOK, ControlOK, TablesOK, LogsOK, EvalLines, HistoryRecords, DriftRecords, ProcInv
  <1> QED
    BY <1>1, <1>2, <1>3

LEMMA LogElements ==
  ASSUME LogsOK
  PROVE  /\ \A i \in DOMAIN evalLog : evalLog[i] \in EvalLines /\ evalLog[i].eval \in Nat /\ evalLog[i].from \in Nat
         /\ \A i \in DOMAIN history : /\ i \in Nat /\ history[i].number \in Nat
                                      /\ history[i].task \in Nat /\ history[i].eval \in Nat
         /\ \A i \in DOMAIN driftLog : /\ driftLog[i].event \in Nat
                                       /\ driftLog[i].pre \in Nat /\ driftLog[i].post \in Nat
  <1>1. /\ \A i \in DOMAIN evalLog : evalLog[i] \in EvalLines
        /\ \A i \in DOMAIN history : history[i] \in HistoryRecords /\ i \in Nat
        /\ \A i \in DOMAIN driftLog : driftLog[i] \in DriftRecords
    BY ElementType DEF LogsOK
  <1> QED
    BY <1>1 DEF EvalLines, HistoryRecords, DriftRecords

LEMMA LatestIsAnEvaluation ==
  ASSUME LogsOK
  PROVE  Latest \in Nat /\ (Latest = 0 \/ \E i \in DOMAIN evalLog : Latest = evalLog[i].eval)
  <1>1. CASE evalLog = <<>>
    BY <1>1 DEF Latest
  <1>2. CASE evalLog # <<>>
    <2>1. Len(evalLog) \in DOMAIN evalLog
      BY <1>2 DEF LogsOK
    <2>3. evalLog[Len(evalLog)].eval \in Nat
      BY <2>1, LogElements
    <2>2. Latest = evalLog[Len(evalLog)].eval
      BY <1>2 DEF Latest, Last
    <2> QED
      BY <2>1, <2>2, <2>3
  <1> QED
    BY <1>1, <1>2

\* The end of a pass, and the start and the loss of a process.
LEMMA PassDoneControl ==
  ASSUME ControlOK, at # "sleep", NEW final \in Passes, PassDone(final)
  PROVE  ControlOK'
  BY RuntimeAssumption, NoPassIsAPass
    DEF ControlOK, ProcInv, PassDone, BootstrapDone, Counted, NewProcess

LEMMA SurvivesControl ==
  ASSUME ControlOK, Survives, at' = "sleep"
  PROVE  ControlOK'
  BY RuntimeAssumption, NoPassIsAPass DEF ControlOK, ProcInv, Survives, NewProcess

LEMMA ControlNext ==
  ASSUME ControlOK, TablesOK, LogsOK, Next
  PROVE  ControlOK'
  <1> USE DEF Nodes
  <1>1. ASSUME NEW node \in Nodes, at # "sleep", at' = node, pass' \in Passes, UNCHANGED <<proc, runs>>
        PROVE  ControlOK'
    BY <1>1 DEF ControlOK, ProcInv
  <1>2. CASE Start
    BY <1>2, RuntimeAssumption, NoPassIsAPass DEF Start, NewProcess, ControlOK, ProcInv
  <1>3. CASE Select
    <2>1. pass' \in Passes
      BY <1>3, NoPassIsAPass DEF Select, Cleared, TablesOK, Passes
    <2> QED
      BY <1>1, <1>3, <2>1 DEF Select
  <1>4. CASE Collect \/ ThresholdRetrain \/ NoRetrain \/ Infer
    <2>1. pass \in Passes /\ NoDrift \in Passes
      BY DEF ControlOK, NoDrift, Passes
    <2> QED
      BY <1>1, <1>4, <2>1 DEF Collect, ThresholdRetrain, NoRetrain, Infer
  <1>5. CASE DriftDetected
    <2>1. events' \in Nat /\ Latest \in Nat
      BY <1>5, LatestIsAnEvaluation DEF DriftDetected, TablesOK
    <2>2. pass' \in Passes
      BY <1>5, <2>1 DEF DriftDetected, ControlOK, Passes
    <2> QED
      BY <1>1, <1>5, <2>2 DEF DriftDetected
  <1>6. CASE OpenTask
    <2>1. RetrainNumber \in Nat /\ tasks' \in Nat
      BY <1>6 DEF OpenTask, RetrainNumber, TablesOK, LogsOK
    <2>2. pass' \in Passes
      BY <1>6, <2>1 DEF OpenTask, ControlOK, Passes
    <2> QED
      BY <1>1, <1>6, <2>2 DEF OpenTask
  <1>7. CASE Retrain
    <2>1. pass' \in Passes
      BY <1>7 DEF Retrain, ControlOK, Passes
    <2> QED
      BY <1>1, <1>7, <2>1 DEF Retrain
  <1>8. CASE SkipRetrain
    <2>1. pass' \in Passes
      BY <1>8 DEF SkipRetrain, ControlOK, Passes
    <2> QED
      BY <1>1, <1>8, <2>1 DEF SkipRetrain
  <1>9. CASE GateForced
    BY <1>1, <1>9 DEF GateForced, ControlOK
  <1>10. CASE GateBootstrap
    BY <1>10, PassDoneControl DEF GateBootstrap, ControlOK
  <1>11. CASE GatePeriodic
    <2>1. CASE PassDone(pass)
      BY <1>11, <2>1, PassDoneControl DEF GatePeriodic, ControlOK
    <2>2. CASE at' = "measure" /\ UNCHANGED <<proc, runs, pass>>
      BY <1>1, <1>11, <2>2 DEF GatePeriodic, ControlOK
    <2> QED
      BY <1>11, <2>1, <2>2 DEF GatePeriodic
  <1>12. CASE Measure
    <2>1. PICK metrics \in {"none", "retro", "full", "apart"} : Measured(metrics)
      BY <1>12 DEF Measure
    <2>2. evals' \in Nat
      BY <2>1 DEF Measured, TablesOK
    <2>3. pass' \in Passes
      BY <2>1, <2>2 DEF Measured, ControlOK, Passes
    <2> QED
      BY <1>1, <1>12, <2>3 DEF Measure
  <1>13. CASE RecordHistory
    BY <1>1, <1>13 DEF RecordHistory, ControlOK
  <1>14. CASE RecordDrift
    <2>1. pass \in Passes /\ [pass EXCEPT !.event = 0] \in Passes
      BY DEF ControlOK, Passes
    <2> QED
      BY <1>14, <2>1, PassDoneControl DEF RecordDrift
  <1>15. CASE Wake
    BY <1>15 DEF Wake, ControlOK, ProcInv
  <1>16. CASE Fail \/ SaveFails
    BY <1>16, SurvivesControl DEF Fail, SaveFails
  <1>17. CASE Stop
    BY <1>17, RuntimeAssumption, NoPassIsAPass DEF Stop, NewProcess, ControlOK, ProcInv
  <1>18. CASE Backfill \/ LiveEvaluation \/ Upgrade
    BY <1>18 DEF Backfill, LiveEvaluation, Upgrade, ControlOK, ProcInv
  <1> QED
    BY <1>2, <1>3, <1>4, <1>5, <1>6, <1>7, <1>8, <1>9, <1>10, <1>11, <1>12, <1>13, <1>14, <1>15,
      <1>16, <1>17, <1>18 DEF Next, Step, Gate
-----------------------------------------------------------------------------
LEMMA TornTables ==
  ASSUME TablesOK, Torn
  PROVE  counter' \in 0..(EvalEvery - 1) /\ lost' \in {lost, lost + 1}
  BY RuntimeAssumption DEF TablesOK, Torn

LEMMA TablesNext ==
  ASSUME TablesOK, Next
  PROVE  TablesOK'
  <1>1. counter' \in 0..(EvalEvery - 1) /\ skipped' \in Nat /\ lost' \in Nat
    <2>1. CASE Stop \/ SaveFails
      BY <2>1, TornTables DEF Stop, SaveFails, TablesOK
    <2>2. CASE GatePeriodic
      <3>1. NextEvalRun \in 0..(EvalEvery - 1)
        BY NextCount, RuntimeAssumption DEF NextEvalRun, TablesOK
      <3> QED
        BY <2>2, <3>1 DEF GatePeriodic, Saved, TablesOK
    <2>3. CASE Measure
      BY <2>3 DEF Measure, TablesOK
    <2>4. CASE UNCHANGED <<counter, skipped, lost>>
      BY <2>4 DEF TablesOK
    <2> QED
      BY <2>1, <2>2, <2>3, <2>4 DEF Next, Step, Gate, Start, Upgrade, Select, Collect, DriftDetected,
        ThresholdRetrain, NoRetrain, Infer, OpenTask, Retrain, SkipRetrain, GateForced, GateBootstrap,
        RecordHistory, RecordDrift, Wake, Fail, Backfill, LiveEvaluation, ghostVars
  <1>2. evals' \in Nat
    <2>1. CASE Measure
      BY <2>1 DEF Measure, Measured, TablesOK
    <2>2. CASE LiveEvaluation
      BY <2>2 DEF LiveEvaluation, TablesOK
    <2>3. CASE UNCHANGED evals
      BY <2>3 DEF TablesOK
    <2> QED
      BY <2>1, <2>2, <2>3 DEF Next, Step, Gate, Start, Upgrade, Select, Collect, DriftDetected, ThresholdRetrain,
        NoRetrain, Infer, OpenTask, Retrain, SkipRetrain, GateForced, GateBootstrap, GatePeriodic,
        RecordHistory, RecordDrift, Wake, Fail, Stop, SaveFails, Backfill, ghostVars
  <1>5. events' \in Nat /\ faults' \in Nat /\ tasks' \in Nat
    <2>1. CASE DriftDetected
      BY <2>1 DEF DriftDetected, worldVars, TablesOK
    <2>2. CASE OpenTask
      BY <2>2 DEF OpenTask, ghostVars, TablesOK
    <2>3. CASE Stop \/ SaveFails
      BY <2>3 DEF Stop, SaveFails, worldVars, TablesOK
    <2>4. CASE UNCHANGED <<events, faults, tasks>>
      BY <2>4 DEF TablesOK
    <2> QED
      BY <2>1, <2>2, <2>3, <2>4 DEF Next, Step, Gate, Start, Upgrade, Select, Collect, ThresholdRetrain,
        NoRetrain, Infer, Retrain, SkipRetrain, GateForced, GateBootstrap, GatePeriodic, Measure,
        RecordHistory, RecordDrift, Wake, Fail, Backfill, LiveEvaluation, ghostVars, worldVars
  <1>3. steady' \in BOOLEAN
    BY Zenon DEF Next, Step, Gate, Start, Upgrade, Select, Collect, DriftDetected, ThresholdRetrain, NoRetrain,
      Infer, OpenTask, Retrain, SkipRetrain, GateForced, GateBootstrap, GatePeriodic, Measure,
      RecordHistory, RecordDrift, Wake, Fail, Stop, SaveFails, Backfill, LiveEvaluation,
      worldVars, TablesOK
  <1>4. ready' \in BOOLEAN
    BY Zenon DEF Next, Step, Gate, Start, Upgrade, Select, Collect, DriftDetected, ThresholdRetrain, NoRetrain,
      Infer, OpenTask, Retrain, SkipRetrain, GateForced, GateBootstrap, GatePeriodic, Measure,
      RecordHistory, RecordDrift, Wake, Fail, Stop, SaveFails, Backfill, LiveEvaluation,
      worldVars, TablesOK
  <1> QED
    BY <1>1, <1>2, <1>3, <1>4, <1>5 DEF TablesOK

\* What one report adds to the evaluation log: copies of records of the history, in their order.
Copies(order) == [k \in DOMAIN order |-> Line(history[order[k]].eval, order[k])]

LEMMA BackfillAdds ==
  ASSUME LogsOK, Backfill
  PROVE  \E order \in Seq(Missing) :
           /\ \A j, k \in DOMAIN order : j < k => order[j] < order[k]
           /\ evalLog' = evalLog \o Copies(order)
  <1>1. Cardinality(Missing) \in Nat
    <2>1. IsFiniteSet(1..Len(history))
      BY FS_Interval DEF LogsOK
    <2>2. IsFiniteSet(Missing)
      BY <2>1, FS_Subset DEF Missing, LogsOK
    <2> QED
      BY <2>2, FS_CardinalityType
  <1>2. PICK order \in [1..Cardinality(Missing) -> Missing] :
          /\ \A j, k \in DOMAIN order : j < k => order[j] < order[k]
          /\ evalLog' = evalLog \o Copies(order)
    BY DEF Backfill, Copies
  <1>3. order \in Seq(Missing)
    BY <1>1, <1>2
  <1> QED
    BY <1>2, <1>3

LEMMA CopiesType ==
  ASSUME LogsOK, NEW order \in Seq(Missing)
  PROVE  /\ Copies(order) \in Seq(EvalLines) /\ Len(Copies(order)) = Len(order)
         /\ \A k \in 1..Len(order) :
              /\ order[k] \in DOMAIN history /\ order[k] \notin Backfilled
              /\ Copies(order)[k].from = order[k] /\ Copies(order)[k].eval = history[order[k]].eval
  <1>1. \A k \in 1..Len(order) : order[k] \in DOMAIN history /\ order[k] \notin Backfilled
    BY DEF Missing
  <1>2. \A k \in 1..Len(order) : history[order[k]].eval \in Nat /\ order[k] \in Nat
    BY <1>1, LogElements
  <1>3. Copies(order) = [k \in 1..Len(order) |-> Line(history[order[k]].eval, order[k])]
    BY DEF Copies
  <1>4. \A k \in 1..Len(order) : Line(history[order[k]].eval, order[k]) \in EvalLines
    BY <1>2 DEF Line, EvalLines
  <1>5. Copies(order) \in Seq(EvalLines) /\ Len(Copies(order)) = Len(order)
    BY <1>3, <1>4
  <1>6. \A k \in 1..Len(order) : Copies(order)[k] = Line(history[order[k]].eval, order[k])
    BY <1>3
  <1>7. \A k \in 1..Len(order) : Copies(order)[k].from = order[k] /\ Copies(order)[k].eval = history[order[k]].eval
    <2>1. \A eval, from : Line(eval, from).eval = eval /\ Line(eval, from).from = from
      BY DEF Line
    <2> QED
      BY <1>6, <2>1
  <1> QED
    BY <1>1, <1>5, <1>7

LEMMA LogsNext ==
  ASSUME ControlOK, TablesOK, LogsOK, Next
  PROVE  LogsOK'
  <1>1. CASE UNCHANGED logVars
    BY <1>1 DEF logVars, LogsOK
  <1>2. CASE Measure
    <2>1. PICK metrics \in {"none", "retro", "full", "apart"} : Measured(metrics)
      BY <1>2 DEF Measure
    <2>2. pass'.eval \in Nat
      BY <2>1 DEF Measured, TablesOK, ControlOK, Passes
    <2>3. UNCHANGED evalLog \/ evalLog' = Append(evalLog, Line(pass'.eval, 0))
      BY <1>2 DEF Measure
    <2>4. evalLog' \in Seq(EvalLines)
      <3>1. Line(pass'.eval, 0) \in EvalLines
        BY <2>2 DEF Line, EvalLines
      <3> QED
        BY <2>3, <3>1, Appended DEF LogsOK
    <2> QED
      BY <1>2, <2>4 DEF Measure, LogsOK
  <1>3. CASE RecordHistory
    <2>1. HistoryRecord \in HistoryRecords
      BY DEF HistoryRecord, HistoryRecords, ControlOK, Passes
    <2> QED
      BY <1>3, <2>1, Appended DEF RecordHistory, LogsOK
  <1>4. CASE RecordDrift
    <2>1. DriftRecord \in DriftRecords
      BY DEF DriftRecord, DriftRecords, ControlOK, Passes
    <2>2. UNCHANGED driftLog \/ driftLog' = Append(driftLog, DriftRecord)
      BY <1>4 DEF RecordDrift
    <2>3. UNCHANGED <<evalLog, history>>
      BY <1>4 DEF RecordDrift
    <2>4. driftLog' \in Seq(DriftRecords)
      BY <2>1, <2>2, Appended DEF LogsOK
    <2> QED
      BY <2>3, <2>4 DEF LogsOK
  <1>5. CASE Backfill
    <2>1. PICK order \in Seq(Missing) : evalLog' = evalLog \o Copies(order)
      BY <1>5, BackfillAdds
    <2>2. evalLog' \in Seq(EvalLines)
      BY <2>1, CopiesType, Concatenated DEF LogsOK
    <2> QED
      BY <1>5, <2>2 DEF Backfill, LogsOK
  <1>6. CASE LiveEvaluation
    <2>1. Line(evals', 0) \in EvalLines
      BY <1>6 DEF LiveEvaluation, Line, EvalLines, TablesOK
    <2> QED
      BY <1>6, <2>1, Appended DEF LiveEvaluation, LogsOK
  <1> QED
    BY <1>1, <1>2, <1>3, <1>4, <1>5, <1>6 DEF Next, Step, Gate, Start, Upgrade, Select, Collect, DriftDetected,
      ThresholdRetrain, NoRetrain, Infer, OpenTask, Retrain, SkipRetrain, GateForced, GateBootstrap,
      GatePeriodic, Wake, Fail, Stop, SaveFails, logVars
-----------------------------------------------------------------------------
LEMMA OneMoreLost ==
  ASSUME NEW k \in Nat
  PROVE  /\ (EvalEvery - 1) * k \in Nat
         /\ (EvalEvery - 1) * (k + 1) = (EvalEvery - 1) * k + (EvalEvery - 1)
         /\ (EvalEvery - 1) * (1 + k) = (EvalEvery - 1) + (EvalEvery - 1) * k
         /\ (EvalEvery - 1) * 0 = 0
  BY RuntimeAssumption

LEMMA GateNext ==
  ASSUME ControlOK, TablesOK, GateInv, Next
  PROVE  GateInv'
  <1>1. Allowed \in Nat /\ EvalEvery - 1 \in Nat /\ counter \in 0..(EvalEvery - 1) /\ skipped \in Nat
    <2>1. (EvalEvery - 1) * lost \in Nat
      BY OneMoreLost DEF TablesOK
    <2> QED
      BY <2>1, RuntimeAssumption DEF Allowed, TablesOK
  <1>2. CASE GateForced
    BY <1>2 DEF GateForced, GateInv, Allowed, ghostVars
  <1>3. CASE GatePeriodic
    <2>1. Allowed' = Allowed /\ counter' = NextEvalRun /\ at = "gate"
      BY <1>3 DEF GatePeriodic, Saved, Allowed
    <2>2. skipped <= counter + Allowed
      BY <2>1 DEF GateInv
    <2>3. NextEvalRun = IF counter + 1 = EvalEvery THEN 0 ELSE counter + 1
      BY <1>1, NextCount DEF NextEvalRun
    <2>4. CASE NextEvalRun = 0 /\ at' = "measure" /\ UNCHANGED <<pass, skipped>>
      <3>1. ~Forced'
        BY <1>3, <2>4 DEF GatePeriodic, Forced
      <3>2. skipped' <= (EvalEvery - 1) + Allowed'
        BY <1>1, <2>1, <2>2, <2>4
      <3> QED
        BY <2>4, <3>1, <3>2 DEF GateInv
    <2>5. CASE NextEvalRun # 0 /\ skipped' = skipped + 1
      <3>1. EvalEvery \in Nat /\ counter + 1 # EvalEvery /\ counter' = counter + 1
        BY <2>1, <2>3, <2>5, RuntimeAssumption
      <3>2. counter + 1 <= EvalEvery - 1
        BY <1>1, <3>1
      <3>3. skipped' <= counter' + Allowed'
        BY <1>1, <2>1, <2>2, <2>5, <3>1
      <3>4. skipped' <= (EvalEvery - 1) + Allowed'
        BY <1>1, <2>1, <2>2, <2>5, <3>2
      <3> QED
        BY <3>3, <3>4 DEF GateInv
    <2> QED
      BY <1>3, <2>4, <2>5 DEF GatePeriodic
  <1>4. CASE Measure
    <2>1. skipped' = 0 /\ lost' = 0 /\ counter' = counter
      BY <1>4 DEF Measure
    <2>2. Allowed' = 0
      BY <2>1, OneMoreLost DEF Allowed
    <2> QED
      BY <1>1, <2>1, <2>2 DEF GateInv
  <1>5. CASE Stop \/ SaveFails
    <2>1. at' = "sleep" /\ skipped' = skipped /\ Torn
      BY <1>5 DEF Stop, SaveFails
    <2>2. CASE lost' = lost + 1
      <3>1. Allowed' = Allowed + (EvalEvery - 1)
        BY <2>2, OneMoreLost DEF Allowed, TablesOK
      <3>2. counter' \in Nat
        BY <1>1, <2>1 DEF Torn
      <3> QED
        BY <1>1, <2>1, <3>1, <3>2 DEF GateInv
    <2>3. CASE lost' = lost /\ counter' = counter /\ ~(at = "measure" /\ ~Forced)
      BY <2>1, <2>3 DEF GateInv, Allowed
    <2> QED
      BY <2>1, <2>2, <2>3 DEF Torn
  <1>6. CASE UNCHANGED <<counter, skipped, lost>> /\ at # "measure"
    BY <1>6 DEF GateInv, Allowed
  <1>7. CASE UNCHANGED <<counter, skipped, lost, at, pass>>
    BY <1>7 DEF GateInv, Allowed, Forced
  <1> QED
    <2>1. CASE Start \/ Select \/ Collect \/ DriftDetected \/ ThresholdRetrain \/ NoRetrain \/ Infer \/ OpenTask
               \/ Retrain \/ SkipRetrain \/ GateBootstrap \/ RecordHistory \/ RecordDrift \/ Wake \/ Fail
      <3>1. UNCHANGED <<counter, skipped, lost>>
        BY <2>1 DEF Start, Select, Collect, DriftDetected, ThresholdRetrain, NoRetrain, Infer, OpenTask,
          Retrain, SkipRetrain, GateBootstrap, RecordHistory, RecordDrift, Wake, Fail, ghostVars
      <3>2. at # "measure"
        BY <2>1 DEF Start, Select, Collect, DriftDetected, ThresholdRetrain, NoRetrain, Infer, OpenTask,
          Retrain, SkipRetrain, GateBootstrap, RecordHistory, RecordDrift, Wake, Fail, ControlOK, ProcInv
      <3> QED
        BY <1>6, <3>1, <3>2
    <2>2. CASE Upgrade \/ Backfill \/ LiveEvaluation
      BY <1>7, <2>2 DEF Upgrade, Backfill, LiveEvaluation, ghostVars
    <2> QED
      BY <1>2, <1>3, <1>4, <1>5, <2>1, <2>2 DEF Next, Step, Gate

\* The two logs of the past say what they say in terms of each record before each later one.
LEMMA OrderedLogs ==
  /\ HistoryFits <=> /\ \A i \in DOMAIN history : history[i].number = i
                     /\ \A i, j \in DOMAIN history :
                          i < j => history[i].task < history[j].task /\ history[i].eval < history[j].eval
  /\ DriftLogFits <=> /\ \A i, j \in DOMAIN driftLog : i < j => driftLog[i].event < driftLog[j].event
                      /\ \A i \in DOMAIN driftLog : driftLog[i].post = 0 \/ driftLog[i].pre < driftLog[i].post
  BY DEF HistoryFits, DriftLogFits, Increasing

PastInv == Written /\ HistoryFits /\ DriftLogFits /\ BackfilledOnce
PassInv == Held /\ Opened /\ Detected /\ JustMeasured
TypesInv == ControlOK /\ TablesOK /\ LogsOK

LEMMA Quiet ==
  ASSUME TypesInv, PastInv, UNCHANGED <<logVars, evals>>, events' \in {events, events + 1}, tasks' \in {tasks, tasks + 1}
  PROVE  PastInv'
  <1>1. HistoryFits' /\ DriftLogFits' /\ BackfilledOnce'
    BY DEF logVars, PastInv, HistoryFits, DriftLogFits, BackfilledOnce, Increasing
  <1>2. Written'
    BY LogElements DEF logVars, PastInv, Written, TypesInv, TablesOK
  <1> QED
    BY <1>1, <1>2 DEF PastInv

LEMMA PassOver ==
  ASSUME TypesInv, PassInv, at' \in {"sleep", "select"}, pass' \in {pass, NoPass, [pass EXCEPT !.event = 0]},
         UNCHANGED <<evals, events>>
  PROVE  PassInv'
  BY DEF TypesInv, ControlOK, TablesOK, Passes, PassInv, Held, Opened, Detected, JustMeasured, NoPass

LEMMA PassDoneOver ==
  ASSUME NEW final, PassDone(final)
  PROVE  at' = "sleep" /\ pass' \in {final, NoPass}
  BY DEF PassDone, NewProcess

\* Of the steps that leave the three logs alone, those between two passes, and those of a pass.
LEMMA BetweenNext ==
  ASSUME TypesInv, PastInv, PassInv,
         Start \/ Upgrade \/ GateBootstrap \/ (GatePeriodic /\ at' # "measure") \/ Wake \/ Fail \/ Stop \/ SaveFails
  PROVE  PastInv' /\ PassInv'
  <1>1. at' \in {"sleep", "select"} /\ pass' \in {pass, NoPass}
    BY PassDoneOver DEF Start, Upgrade, GateBootstrap, GatePeriodic, Wake, Fail, Stop, SaveFails, Survives,
      NewProcess, TypesInv, ControlOK, ProcInv
  <1>2. UNCHANGED <<logVars, evals, events, tasks>>
    BY DEF Start, Upgrade, GateBootstrap, GatePeriodic, Wake, Fail, Stop, SaveFails, ghostVars, worldVars
  <1> QED
    BY <1>1, <1>2, Quiet, PassOver

LEMMA UnderWayNext ==
  ASSUME TypesInv, PastInv, PassInv,
         Select \/ Collect \/ ThresholdRetrain \/ NoRetrain \/ Infer \/ Retrain \/ SkipRetrain
           \/ GateForced \/ (GatePeriodic /\ at' = "measure")
  PROVE  PastInv' /\ PassInv'
  <1>1. UNCHANGED <<logVars, history, driftLog, evals, events, tasks>>
    BY DEF Select, Collect, ThresholdRetrain, NoRetrain, Infer, Retrain, SkipRetrain, GateForced,
      GatePeriodic, logVars, ghostVars, worldVars
  <1>2. PastInv'
    BY <1>1, Quiet
  <1> SUFFICES PassInv'
    BY <1>2
  <1>3. CASE Select
    <2>1. at' = "collect" /\ pass'.event = 0 /\ pass'.pre = 0 /\ pass'.eval = 0 /\ pass'.retrained = "no"
      BY <1>3 DEF Select, Cleared, NoPass
    <2> QED
      BY <1>1, <2>1 DEF TypesInv, TablesOK, PassInv, Held, Opened, Detected, JustMeasured
  <1>8. CASE ThresholdRetrain \/ NoRetrain
    <2>1. /\ at = "drift" /\ at' \in {"retrain", "infer"}
          /\ pass'.event = 0 /\ pass'.pre = 0 /\ pass'.eval = pass.eval /\ pass'.retrained = pass.retrained
      BY <1>8 DEF ThresholdRetrain, NoRetrain, NoDrift, TypesInv, ControlOK, Passes
    <2> QED
      BY <1>1, <2>1 DEF TypesInv, TablesOK, PassInv, Held, Opened, Detected, JustMeasured
  <1>4. CASE pass' = pass /\ ~Select
    <2>1. \/ at = "collect" /\ at' = "drift"
          \/ at = "drift" /\ at' \in {"retrain", "infer"}
          \/ at = "infer" /\ at' = "gate"
          \/ at = "gate" /\ at' = "measure"
      <3>1. CASE Collect \/ ThresholdRetrain \/ NoRetrain \/ Infer
        BY <3>1 DEF Collect, ThresholdRetrain, NoRetrain, Infer
      <3>2. CASE Retrain \/ SkipRetrain
        <4>1. pass.retrained = "no"
          BY <3>2 DEF Retrain, SkipRetrain, PassInv, Held
        <4>2. pass'.retrained # "no"
          BY <3>2 DEF Retrain, SkipRetrain, TypesInv, ControlOK, Passes
        <4> QED
          BY <1>4, <4>1, <4>2
      <3>3. CASE GateForced \/ (GatePeriodic /\ at' = "measure")
        BY <3>3 DEF GateForced, GatePeriodic
      <3> QED
        BY <1>4, <3>1, <3>2, <3>3
    <2>2. Held'
      BY <1>1, <1>4, <2>1 DEF PassInv, Held
    <2>3. Opened'
      BY <1>1, <1>4, <2>1 DEF logVars, PassInv, Held, Opened
    <2>4. Detected' /\ JustMeasured'
      BY <1>1, <1>4, <2>1 DEF logVars, PassInv, Held, Detected, JustMeasured
    <2> QED
      BY <2>2, <2>3, <2>4 DEF PassInv
  <1>5. CASE Retrain
    <2>1. /\ at = "train" /\ at' = "gate"
          /\ pass'.event = pass.event /\ pass'.pre = pass.pre /\ pass'.eval = pass.eval
          /\ pass'.number = pass.number /\ pass'.task = pass.task
      BY <1>5 DEF Retrain, TypesInv, ControlOK, Passes
    <2>2. Held' /\ Opened'
      BY <1>1, <2>1 DEF logVars, PassInv, Held, Opened
    <2>3. Detected' /\ JustMeasured'
      BY <1>1, <2>1 DEF logVars, PassInv, Detected, JustMeasured
    <2> QED
      BY <2>2, <2>3 DEF PassInv
  <1>6. CASE SkipRetrain
    <2>1. /\ at = "train" /\ at' = "gate" /\ pass'.retrained = "skipped"
          /\ pass'.event = pass.event /\ pass'.pre = pass.pre /\ pass'.eval = pass.eval
      BY <1>6 DEF SkipRetrain, TypesInv, ControlOK, Passes
    <2>2. Held' /\ Opened'
      BY <1>1, <2>1 DEF logVars, PassInv, Held, Opened
    <2>3. Detected' /\ JustMeasured'
      BY <1>1, <2>1 DEF logVars, PassInv, Detected, JustMeasured
    <2> QED
      BY <2>2, <2>3 DEF PassInv
  <1>9. CASE Collect \/ Infer \/ GateForced \/ (GatePeriodic /\ at' = "measure")
    <2>1. pass' = pass /\ at # "select"
      BY <1>9, PassDoneOver DEF Collect, Infer, GateForced, GatePeriodic
    <2> QED
      BY <1>4, <2>1 DEF Select
  <1> QED
    BY <1>3, <1>5, <1>6, <1>8, <1>9

LEMMA DriftDetectedNext ==
  ASSUME TypesInv, PastInv, PassInv, DriftDetected
  PROVE  PastInv' /\ PassInv'
  <1>1. UNCHANGED <<logVars, evals, tasks>> /\ events' = events + 1
    BY DEF DriftDetected, worldVars
  <1>2. pass' = [pass EXCEPT !.event = events', !.pre = Latest] /\ at = "drift" /\ at' = "retrain"
    BY DEF DriftDetected
  <1>3. Latest <= evals
    BY LatestIsAnEvaluation DEF TypesInv, TablesOK, PastInv, Written
  <1>4. Detected'
    BY <1>1, <1>2, LogElements DEF logVars, TypesInv, ControlOK, TablesOK, Passes, PastInv, Written, Detected
  <1>5. Held'
    BY <1>1, <1>2, <1>3 DEF TypesInv, ControlOK, TablesOK, Passes, PassInv, Held
  <1>6. Opened' /\ JustMeasured'
    BY <1>2 DEF Opened, JustMeasured
  <1> QED
    BY <1>1, <1>4, <1>5, <1>6, Quiet DEF PassInv

LEMMA OpenTaskNext ==
  ASSUME TypesInv, PastInv, PassInv, OpenTask
  PROVE  PastInv' /\ PassInv'
  <1>1. UNCHANGED <<logVars, evals, events>> /\ tasks' = tasks + 1
    BY DEF OpenTask, ghostVars
  <1>2. pass' = [pass EXCEPT !.number = Len(history) + 1, !.task = tasks'] /\ at = "retrain" /\ at' = "train"
    BY DEF OpenTask, RetrainNumber
  <1>3. Opened'
    BY <1>1, <1>2, LogElements DEF logVars, TypesInv, ControlOK, TablesOK, Passes, PastInv, Written, Opened
  <1>4. Held' /\ Detected' /\ JustMeasured'
    BY <1>1, <1>2 DEF logVars, TypesInv, ControlOK, Passes, PassInv, Held, Detected, JustMeasured
  <1> QED
    BY <1>1, <1>3, <1>4, Quiet DEF PassInv

LEMMA LineAdded ==
  ASSUME TypesInv, PastInv, NEW eval \in Nat, evalLog' = Append(evalLog, Line(eval, 0)),
         evals' \in Nat, evals <= evals', eval <= evals', UNCHANGED <<history, driftLog, events, tasks>>
  PROVE  Written' /\ BackfilledOnce'
  <1>1. Line(eval, 0) \in EvalLines /\ Line(eval, 0).eval = eval /\ Line(eval, 0).from = 0
    BY DEF Line, EvalLines
  <1>2. /\ DOMAIN evalLog' = 1..(Len(evalLog) + 1) /\ DOMAIN evalLog = 1..Len(evalLog) /\ Len(evalLog) \in Nat
        /\ evalLog'[Len(evalLog) + 1] = Line(eval, 0)
        /\ \A i \in DOMAIN evalLog : evalLog'[i] = evalLog[i]
    BY <1>1, Appended DEF TypesInv, LogsOK
  <1>3. 0 \in 0..Len(history)
    BY DEF TypesInv, LogsOK
  <1>4. Written'
    <2>1. \A i \in DOMAIN evalLog' : evalLog'[i].eval <= evals' /\ evalLog'[i].from \in 0..Len(history)
      BY <1>1, <1>2, <1>3, LogElements DEF TypesInv, TablesOK, PastInv, Written
    <2>2. \A i \in DOMAIN history : history[i].number = i /\ history[i].task <= tasks /\ history[i].eval <= evals'
      BY LogElements DEF TypesInv, TablesOK, PastInv, Written
    <2>3. \A i \in DOMAIN driftLog : driftLog[i].event <= events
      BY DEF PastInv, Written
    <2> QED
      BY <2>1, <2>2, <2>3 DEF Written
  <1>5. BackfilledOnce'
    BY <1>1, <1>2 DEF PastInv, BackfilledOnce
  <1> QED
    BY <1>4, <1>5

\* An evaluation is later than all before it, and so is what becomes of it.
LEMMA MeasureNext ==
  ASSUME TypesInv, PastInv, PassInv, Measure
  PROVE  PastInv' /\ PassInv'
  <1>1. UNCHANGED <<history, driftLog, events, tasks>> /\ at = "measure" /\ at' = "history"
    BY DEF Measure, worldVars
  <1>2. PICK metrics \in {"none", "retro", "full", "apart"} :
          /\ evals' = IF metrics \in {"full", "apart"} THEN evals + 1 ELSE evals
          /\ pass' = [pass EXCEPT !.metrics = metrics, !.eval = IF metrics \in {"full", "apart"} THEN evals' ELSE 0]
    BY DEF Measure, Measured
  <1>3. /\ evals' \in Nat /\ evals <= evals'
        /\ pass'.eval \in Nat /\ pass'.eval <= evals' /\ (pass'.eval = 0 \/ evals < pass'.eval)
        /\ pass'.event = pass.event /\ pass'.pre = pass.pre /\ pass'.retrained = pass.retrained
        /\ pass'.number = pass.number /\ pass'.task = pass.task
        /\ (pass'.metrics = "full" => evals < pass'.eval)
    BY <1>2 DEF TypesInv, ControlOK, TablesOK, Passes
  <1>4. pass.pre \in Nat /\ pass.event \in Nat /\ pass.eval \in Nat
    BY DEF TypesInv, ControlOK, Passes
  <1>5. Held'
    BY <1>1, <1>3, <1>4 DEF TypesInv, TablesOK, PassInv, Held
  <1>6. Opened' /\ Detected'
    BY <1>1, <1>3 DEF PassInv, Opened, Detected
  <1>7. JustMeasured'
    BY <1>1, <1>3, <1>4, LogElements DEF TypesInv, TablesOK, PastInv, Written, PassInv, Held, JustMeasured
  <1>8. HistoryFits' /\ DriftLogFits'
    BY <1>1 DEF PastInv, HistoryFits, DriftLogFits, Increasing
  <1>9. Written' /\ BackfilledOnce'
    <2>1. CASE UNCHANGED evalLog
      BY <1>1, <1>3, <2>1, LogElements DEF TypesInv, TablesOK, PastInv, Written, BackfilledOnce
    <2>2. CASE evalLog' = Append(evalLog, Line(pass'.eval, 0))
      BY <1>1, <1>3, <2>2, LineAdded
    <2> QED
      BY <2>1, <2>2 DEF Measure
  <1> QED
    BY <1>5, <1>6, <1>7, <1>8, <1>9 DEF PastInv, PassInv

LEMMA LiveEvaluationNext ==
  ASSUME TypesInv, PastInv, PassInv, LiveEvaluation
  PROVE  PastInv' /\ PassInv'
  <1>1. /\ UNCHANGED <<history, driftLog, events, tasks, pass, at>>
        /\ evals' = evals + 1 /\ evalLog' = Append(evalLog, Line(evals', 0))
    BY DEF LiveEvaluation, worldVars
  <1>2. evals' \in Nat /\ evals <= evals'
    BY <1>1 DEF TypesInv, TablesOK
  <1>3. Written' /\ BackfilledOnce'
    BY <1>1, <1>2, LineAdded
  <1>4. HistoryFits' /\ DriftLogFits'
    BY <1>1 DEF PastInv, HistoryFits, DriftLogFits, Increasing
  <1>5. pass.pre \in Nat /\ pass.eval \in Nat
    BY DEF TypesInv, ControlOK, Passes
  <1>6. PassInv'
    BY <1>1, <1>5 DEF TypesInv, TablesOK, PassInv, Held, Opened, Detected, JustMeasured
  <1> QED
    BY <1>3, <1>4, <1>6 DEF PastInv

\* The record of a retrain is the next, of the last task and of the last evaluation.
LEMMA RecordHistoryNext ==
  ASSUME TypesInv, PastInv, PassInv, RecordHistory
  PROVE  PastInv' /\ PassInv'
  <1>1. /\ UNCHANGED <<evalLog, driftLog, evals, events, tasks, pass>>
        /\ at = "history" /\ at' = "driftlog"
    BY DEF RecordHistory, worldVars, ghostVars
  <1>2. PassInv'
    BY <1>1 DEF PassInv, Held, Opened, Detected, JustMeasured
  <1>3. CASE UNCHANGED history
    BY <1>1, <1>2, <1>3, Quiet DEF TypesInv, TablesOK, logVars
  <1>4. CASE pass.retrained = "done" /\ pass.metrics = "full" /\ history' = Append(history, HistoryRecord)
    <2>1. HistoryRecord \in HistoryRecords
      BY DEF HistoryRecord, HistoryRecords, TypesInv, ControlOK, Passes
    <2>2. HistoryRecord.number = pass.number /\ HistoryRecord.task = pass.task /\ HistoryRecord.eval = pass.eval
      BY DEF HistoryRecord
    <2>3. /\ DOMAIN history' = 1..(Len(history) + 1) /\ DOMAIN history = 1..Len(history) /\ Len(history) \in Nat
          /\ history'[Len(history) + 1] = HistoryRecord
          /\ \A i \in DOMAIN history : history'[i] = history[i]
      BY <1>4, <2>1, Appended DEF TypesInv, LogsOK
    <2>4. /\ pass.number = Len(history) + 1 /\ pass.task <= tasks /\ pass.eval <= evals
          /\ \A i \in DOMAIN history : history[i].task < pass.task /\ history[i].eval < pass.eval
      BY <1>1, <1>4 DEF PassInv, Held, Opened, JustMeasured
    <2>5. Len(history') = Len(history) + 1
      BY <1>4, <2>1 DEF TypesInv, LogsOK
    <2>6. Written'
      <3>1. \A i \in DOMAIN evalLog : evalLog[i].eval <= evals /\ evalLog[i].from \in 0..Len(history')
        BY <2>3, <2>5 DEF PastInv, Written
      <3>2. \A i \in DOMAIN history' : history'[i].number = i /\ history'[i].task <= tasks /\ history'[i].eval <= evals
        BY <2>2, <2>3, <2>4 DEF PastInv, Written
      <3> QED
        BY <1>1, <3>1, <3>2 DEF PastInv, Written
    <2>7. HistoryFits'
      <3>1. \A i \in DOMAIN history' : history'[i].number = i
        BY <2>2, <2>3, <2>4 DEF PastInv, HistoryFits
      <3>2. \A i, j \in DOMAIN history' :
              i < j => history'[i].task < history'[j].task /\ history'[i].eval < history'[j].eval
        <4>1. \A i, j \in DOMAIN history : i < j => history[i].task < history[j].task /\ history[i].eval < history[j].eval
          BY OrderedLogs DEF PastInv
        <4> QED
          BY <4>1, <2>2, <2>3, <2>4
      <3> QED
        BY <3>1, <3>2 DEF HistoryFits, Increasing
    <2>8. DriftLogFits' /\ BackfilledOnce'
      BY <1>1 DEF PastInv, DriftLogFits, BackfilledOnce, Increasing
    <2> QED
      BY <1>2, <2>6, <2>7, <2>8 DEF PastInv
  <1> QED
    BY <1>3, <1>4 DEF RecordHistory

LEMMA RecordDriftNext ==
  ASSUME TypesInv, PastInv, PassInv, RecordDrift
  PROVE  PastInv' /\ PassInv'
  <1>1. /\ UNCHANGED <<evalLog, history, evals, events, tasks>> /\ at = "driftlog"
        /\ at' = "sleep" /\ pass' \in {pass, NoPass, [pass EXCEPT !.event = 0]}
    BY PassDoneOver DEF RecordDrift, worldVars, ghostVars
  <1>2. PassInv'
    BY <1>1, PassOver
  <1>3. CASE UNCHANGED driftLog
    BY <1>1, <1>2, <1>3, Quiet DEF TypesInv, TablesOK, logVars
  <1>4. CASE pass.event # 0 /\ driftLog' = Append(driftLog, DriftRecord)
    <2>1. DriftRecord \in DriftRecords
      BY DEF DriftRecord, DriftRecords, TypesInv, ControlOK, Passes
    <2>2. DriftRecord.event = pass.event /\ DriftRecord.pre = pass.pre /\ DriftRecord.post = pass.eval
      BY DEF DriftRecord
    <2>3. /\ DOMAIN driftLog' = 1..(Len(driftLog) + 1) /\ DOMAIN driftLog = 1..Len(driftLog) /\ Len(driftLog) \in Nat
          /\ driftLog'[Len(driftLog) + 1] = DriftRecord
          /\ \A i \in DOMAIN driftLog : driftLog'[i] = driftLog[i]
      BY <1>4, <2>1, Appended DEF TypesInv, LogsOK
    <2>4. /\ pass.event <= events /\ (pass.eval = 0 \/ pass.pre < pass.eval)
          /\ \A i \in DOMAIN driftLog : driftLog[i].event < pass.event
      BY <1>1, <1>4 DEF PassInv, Held, Detected, JustMeasured
    <2>5. Written'
      <3>1. \A i \in DOMAIN driftLog' : driftLog'[i].event <= events
        BY <2>2, <2>3, <2>4 DEF PastInv, Written
      <3> QED
        BY <1>1, <3>1 DEF PastInv, Written
    <2>6. DriftLogFits'
      <3>1. \A i, j \in DOMAIN driftLog' : i < j => driftLog'[i].event < driftLog'[j].event
        <4>1. \A i, j \in DOMAIN driftLog : i < j => driftLog[i].event < driftLog[j].event
          BY OrderedLogs DEF PastInv
        <4> QED
          BY <4>1, <2>2, <2>3, <2>4
      <3>2. \A i \in DOMAIN driftLog' : driftLog'[i].post = 0 \/ driftLog'[i].pre < driftLog'[i].post
        BY <2>2, <2>3, <2>4 DEF PastInv, DriftLogFits
      <3> QED
        BY <3>1, <3>2 DEF DriftLogFits, Increasing
    <2>7. HistoryFits' /\ BackfilledOnce'
      BY <1>1 DEF PastInv, HistoryFits, BackfilledOnce, Increasing
    <2> QED
      BY <1>2, <2>5, <2>6, <2>7 DEF PastInv
  <1> QED
    BY <1>3, <1>4 DEF RecordDrift

\* The records that are copied are none that were copied before, and no two the same.
LEMMA BackfillNext ==
  ASSUME TypesInv, PastInv, PassInv, Backfill
  PROVE  PastInv' /\ PassInv'
  <1>1. UNCHANGED <<history, driftLog, evals, events, tasks, pass, at>>
    BY DEF Backfill, worldVars, ghostVars
  <1>2. PICK order \in Seq(Missing) :
          /\ \A j, k \in DOMAIN order : j < k => order[j] < order[k]
          /\ evalLog' = evalLog \o Copies(order)
    BY BackfillAdds DEF TypesInv
  <1>3. /\ DOMAIN evalLog' = 1..(Len(evalLog) + Len(order))
        /\ DOMAIN evalLog = 1..Len(evalLog) /\ Len(evalLog) \in Nat
        /\ DOMAIN order = 1..Len(order) /\ Len(order) \in Nat
        /\ \A i \in DOMAIN evalLog : evalLog'[i] = evalLog[i]
        /\ \A i \in (Len(evalLog) + 1)..(Len(evalLog) + Len(order)) :
             i - Len(evalLog) \in DOMAIN order /\ evalLog'[i] = Copies(order)[i - Len(evalLog)]
    <2>1. Copies(order) \in Seq(EvalLines) /\ Len(Copies(order)) = Len(order)
      BY <1>2, CopiesType DEF TypesInv
    <2>2. evalLog \in Seq(EvalLines)
      BY DEF TypesInv, LogsOK
    <2>3. DOMAIN evalLog = 1..Len(evalLog) /\ Len(evalLog) \in Nat /\ DOMAIN order = 1..Len(order) /\ Len(order) \in Nat
      BY <1>2, <2>2
    <2>4. /\ DOMAIN (evalLog \o Copies(order)) = 1..(Len(evalLog) + Len(Copies(order)))
          /\ \A i \in 1..Len(evalLog) : (evalLog \o Copies(order))[i] = evalLog[i]
          /\ \A i \in (Len(evalLog) + 1)..(Len(evalLog) + Len(Copies(order))) :
               /\ i - Len(evalLog) \in 1..Len(Copies(order))
               /\ (evalLog \o Copies(order))[i] = Copies(order)[i - Len(evalLog)]
      BY <2>1, <2>2, Concatenated
    <2> QED
      BY <1>2, <2>1, <2>3, <2>4
  <1>4. \A k \in DOMAIN order : /\ order[k] \in DOMAIN history /\ order[k] \notin Backfilled
                                /\ Copies(order)[k].from = order[k] /\ Copies(order)[k].eval = history[order[k]].eval
    BY <1>3, CopiesType DEF TypesInv
  <1>5. DOMAIN history = 1..Len(history) /\ Len(history) \in Nat
    BY DEF TypesInv, LogsOK
  <1>6. Written'
    <2>1. \A i \in DOMAIN evalLog : evalLog'[i].eval <= evals /\ evalLog'[i].from \in 0..Len(history)
      BY <1>3 DEF PastInv, Written
    <2>2. \A k \in DOMAIN order : Copies(order)[k].eval <= evals /\ Copies(order)[k].from \in 0..Len(history)
      BY <1>4, <1>5 DEF PastInv, Written
    <2>3. \A i \in DOMAIN evalLog' : i \in DOMAIN evalLog \/ i \in (Len(evalLog) + 1)..(Len(evalLog) + Len(order))
      BY <1>3
    <2>4. \A i \in DOMAIN evalLog' : evalLog'[i].eval <= evals /\ evalLog'[i].from \in 0..Len(history)
      BY <1>3, <2>1, <2>2, <2>3
    <2> QED
      BY <1>1, <2>4 DEF PastInv, Written
  <1>7. BackfilledOnce'
    <2>1. \A i \in DOMAIN evalLog, k \in DOMAIN order : evalLog[i].from # order[k]
      BY <1>4 DEF Backfilled, Range
    <2>2. \A j, k \in DOMAIN order : j # k => order[j] # order[k]
      BY <1>2, <1>3, <1>4, <1>5
    <2>3. SUFFICES ASSUME NEW i \in DOMAIN evalLog', NEW j \in DOMAIN evalLog', i # j,
                          evalLog'[i].from = evalLog'[j].from
                   PROVE  evalLog'[i].from = 0
      BY DEF BackfilledOnce
    <2> DEFINE new(k) == k \in (Len(evalLog) + 1)..(Len(evalLog) + Len(order))
    <2>4. (i \in DOMAIN evalLog \/ new(i)) /\ (j \in DOMAIN evalLog \/ new(j))
      BY <1>3
    <2>5. CASE i \in DOMAIN evalLog /\ j \in DOMAIN evalLog
      BY <1>3, <2>3, <2>5 DEF PastInv, BackfilledOnce
    <2>6. CASE i \in DOMAIN evalLog /\ new(j)
      BY <1>3, <1>4, <2>1, <2>3, <2>6
    <2>7. CASE new(i) /\ j \in DOMAIN evalLog
      BY <1>3, <1>4, <2>1, <2>3, <2>7
    <2>8. CASE new(i) /\ new(j)
      <3>1. i - Len(evalLog) \in DOMAIN order /\ j - Len(evalLog) \in DOMAIN order /\ i - Len(evalLog) # j - Len(evalLog)
        BY <1>3, <2>3, <2>8
      <3>2. order[i - Len(evalLog)] = order[j - Len(evalLog)]
        BY <1>3, <1>4, <2>3, <2>8, <3>1
      <3> QED
        BY <2>2, <3>1, <3>2
    <2> QED
      BY <2>4, <2>5, <2>6, <2>7, <2>8
  <1>8. HistoryFits' /\ DriftLogFits' /\ PassInv'
    BY <1>1 DEF PastInv, PassInv, HistoryFits, DriftLogFits, Increasing, Held, Opened, Detected, JustMeasured
  <1> QED
    BY <1>6, <1>7, <1>8 DEF PastInv
-----------------------------------------------------------------------------
LEMMA RuntimeNext == RuntimeInv /\ [Next]_vars => RuntimeInv'
  <1> SUFFICES ASSUME RuntimeInv, [Next]_vars PROVE RuntimeInv'
    OBVIOUS
  <1>1. TypesInv /\ GateInv /\ PastInv /\ PassInv
    BY TypeParts DEF RuntimeInv, TypesInv, PastInv, PassInv
  <1>2. CASE Next
    <2>1. TypesInv'
      BY <1>1, <1>2, ControlNext, TablesNext, LogsNext DEF TypesInv
    <2>2. GateInv'
      BY <1>1, <1>2, GateNext DEF TypesInv
    <2>3. PastInv' /\ PassInv'
      <3>1. CASE Select \/ Collect \/ ThresholdRetrain \/ NoRetrain \/ Infer \/ Retrain \/ SkipRetrain \/ GateForced
                   \/ (GatePeriodic /\ at' = "measure")
        BY <1>1, <3>1, UnderWayNext
      <3>2. CASE Start \/ Upgrade \/ GateBootstrap \/ (GatePeriodic /\ at' # "measure") \/ Wake \/ Fail \/ Stop \/ SaveFails
        BY <1>1, <3>2, BetweenNext
      <3>3. CASE DriftDetected \/ OpenTask \/ Measure \/ LiveEvaluation
        BY <1>1, <3>3, DriftDetectedNext, OpenTaskNext, MeasureNext, LiveEvaluationNext
      <3>4. CASE RecordHistory \/ RecordDrift \/ Backfill
        BY <1>1, <3>4, RecordHistoryNext, RecordDriftNext, BackfillNext
      <3> QED
        BY <1>2, <3>1, <3>2, <3>3, <3>4 DEF Next, Step, Gate
    <2>4. TypeOK' /\ ProcInv'
      BY <2>1, TypeParts, PTL DEF TypesInv
    <2> QED
      BY <2>2, <2>3, <2>4 DEF RuntimeInv, PastInv, PassInv
  <1>3. CASE UNCHANGED vars
    <2>1. UNCHANGED <<proc, runs, at, pass, steady, ready, tasks, counter, evalLog, history, driftLog,
                      evals, events, skipped, lost, faults>>
      BY <1>3 DEF vars, worldVars, logVars, ghostVars
    <2>2. TypesInv' /\ GateInv'
      BY <1>1, <2>1 DEF TypesInv, ControlOK, TablesOK, LogsOK, ProcInv, GateInv, Allowed, Forced
    <2>3. PastInv' /\ PassInv'
      BY <1>1, <2>1 DEF PastInv, PassInv, Written, HistoryFits, DriftLogFits, BackfilledOnce, Increasing,
        Held, Opened, Detected, JustMeasured
    <2>4. TypeOK' /\ ProcInv'
      BY <2>2, TypeParts, PTL DEF TypesInv
    <2> QED
      BY <2>2, <2>3, <2>4 DEF RuntimeInv, PastInv, PassInv
  <1> QED
    BY <1>2, <1>3

LEMMA RuntimeIsInvariant == Spec => []RuntimeInv
  BY RuntimeInit, RuntimeNext, PTL DEF Spec

\* Every variable keeps its type: the saved evaluation counter is below EvalEvery whatever a
\* stopped container leaves of its file, and the bootstrap never runs more than BootstrapMax passes.
THEOREM TypeCorrect == Spec => []TypeOK
  <1>1. RuntimeInv => TypeOK
    BY DEF RuntimeInv
  <1> QED
    BY <1>1, RuntimeIsInvariant, PTL

\* training_history counts from 1 without a gap and runs forward in tasks and evaluations.
THEOREM HistoryIsRight == Spec => []HistoryFits
  <1>1. RuntimeInv => HistoryFits
    BY DEF RuntimeInv
  <1> QED
    BY <1>1, RuntimeIsInvariant, PTL

\* drift_log has each drift once, and the metrics before it are older than those after it.
THEOREM DriftLogIsRight == Spec => []DriftLogFits
  <1>1. RuntimeInv => DriftLogFits
    BY DEF RuntimeInv
  <1> QED
    BY <1>1, RuntimeIsInvariant, PTL

\* Between two attempts at an evaluation at most EvalEvery - 1 steady passes go by at the gate,
\* and as many again for each time a fault cost the counter or an evaluation that was due.
THEOREM EvaluationComesDue == Spec => []EvaluationIsDue
  <1>1. RuntimeInv => EvaluationIsDue
    <2> SUFFICES ASSUME RuntimeInv PROVE EvaluationIsDue
      OBVIOUS
    <2>1. lost \in Nat /\ skipped <= (EvalEvery - 1) + (EvalEvery - 1) * lost
      BY DEF RuntimeInv, TypeOK, GateInv, Allowed
    <2> QED
      BY <2>1, OneMoreLost DEF EvaluationIsDue
  <1> QED
    BY <1>1, RuntimeIsInvariant, PTL

\* The report copies no record of training_history into evaluation_log twice.
THEOREM BackfillsOnce == Spec => []BackfilledOnce
  <1>1. RuntimeInv => BackfilledOnce
    BY DEF RuntimeInv
  <1> QED
    BY <1>1, RuntimeIsInvariant, PTL
=============================================================================
