------------------------------ MODULE Runtime ------------------------------
(***************************************************************************)
(* The container runs bootstrap passes until a model is ready, then the    *)
(* daemon's passes for ever; a pass ends in the evaluation gate, which     *)
(* writes the logs the reports are made of: evaluation_log, in which       *)
(* drift_monitor also looks up how the model did before a drift,           *)
(* training_history and drift_log.  A report script adds to the first of   *)
(* them from the second.                                                   *)
(*                                                                         *)
(* An evaluation is its number in time.  How long the loop sleeps is left  *)
(* open, and what collection and training do is in the other modules.      *)
(***************************************************************************)
EXTENDS Integers, SequencesExt

CONSTANTS
  EvalEvery,         \* EVAL_EVERY_RUNS
  BootstrapMax,      \* BOOTSTRAP_MAX_RUNS
  MinRows,           \* min_rows of the backfill
  MaxEvals, MaxEvents, MaxTasks, MaxLines, MaxFaults     \* bounds

ASSUME RuntimeAssumption ==
  /\ {EvalEvery, BootstrapMax} \subseteq Nat \ {0}
  /\ {MinRows, MaxEvals, MaxEvents, MaxTasks, MaxLines, MaxFaults} \subseteq Nat

VARIABLES
  proc, runs,      \* "down", "bootstrap", "daemon"; passes the bootstrap is past
  at,              \* node of the present pass, or "sleep"
  pass,            \* AgentState, as far as the gate reads it
  steady, ready,   \* the corpus meets the targets; so does the production bundle
  tasks,           \* rows of task_log
  counter,         \* evaluation_state.json, modulo EvalEvery
  evalLog, history, driftLog,    \* the three JSONL files
  evals, events,   \* history: evaluations measured and drifts detected so far
  skipped,         \* history: steady passes the gate let go since the last evaluation
  lost,            \* history: faults since then that cost a count or a due evaluation
  faults

worldVars == <<steady, ready, tasks>>
logVars == <<evalLog, history, driftLog>>
ghostVars == <<evals, events, skipped, lost, faults>>
vars == <<proc, runs, at, pass, worldVars, counter, logVars, ghostVars>>

NoPass == [steady |-> FALSE, event |-> 0, pre |-> 0, retrained |-> "no",
           number |-> 0, task |-> 0, metrics |-> "none", eval |-> 0]

Init ==
  /\ proc = "down" /\ runs = 0 /\ at = "sleep" /\ pass = NoPass
  /\ steady = FALSE /\ ready = FALSE /\ tasks = 0 /\ counter = 0
  /\ evalLog = <<>> /\ history = <<>> /\ driftLog = <<>>
  /\ evals = 0 /\ events = 0 /\ skipped = 0 /\ lost = 0 /\ faults = 0
-----------------------------------------------------------------------------
\* The state of a pass and the count of passes are in memory.
NewProcess(p) == proc' = p /\ runs' = 0 /\ pass' = NoPass

\* amd-agent-run.sh: the daemon at once if there is a model, else the bootstrap first.
Start ==
  /\ proc = "down"
  /\ NewProcess(IF steady /\ ready THEN "daemon" ELSE "bootstrap")
  /\ at' = "select"
  /\ UNCHANGED <<worldVars, counter, logVars, ghostVars>>

\* A container with another feature schema: no row and no bundle fits it yet.
Upgrade ==
  /\ proc = "down"
  /\ steady' = FALSE /\ ready' = FALSE
  /\ UNCHANGED <<proc, runs, at, pass, tasks, counter, logVars, ghostVars>>

\* source_selector clears the state of the pass before and fixes the phase.
KeepMetrics == [pass EXCEPT !.steady = steady, !.event = 0, !.pre = 0]     \* variant
Cleared == [NoPass EXCEPT !.steady = steady]
Select ==
  /\ at = "select"
  /\ at' = "collect" /\ pass' = Cleared
  /\ UNCHANGED <<proc, runs, worldVars, counter, logVars, ghostVars>>

\* Discovery, download, validation and extraction; the corpus may reach its targets.
Collect ==
  /\ at = "collect"
  /\ at' = "drift" /\ steady' \in {steady, TRUE}
  /\ UNCHANGED <<proc, runs, pass, ready, tasks, counter, logVars, ghostVars>>

\* latest_eval_metrics: the last line of the log.
Latest == IF evalLog = <<>> THEN 0 ELSE Last(evalLog).eval

DriftDetected ==
  /\ at = "drift" /\ pass.steady /\ steady /\ events < MaxEvents /\ tasks < MaxTasks
  /\ events' = events + 1
  /\ pass' = [pass EXCEPT !.event = events', !.pre = Latest]
  /\ at' = "retrain"
  /\ UNCHANGED <<proc, runs, worldVars, counter, logVars, evals, skipped, lost, faults>>

\* Without a drift the node says so, whatever the state of the pass before said.
NoDrift == [pass EXCEPT !.event = 0, !.pre = 0]
ThresholdRetrain ==
  /\ at = "drift" /\ pass.steady /\ steady /\ tasks < MaxTasks
  /\ at' = "retrain" /\ pass' = NoDrift
  /\ UNCHANGED <<proc, runs, worldVars, counter, logVars, ghostVars>>

NoRetrain ==
  /\ at = "drift"
  /\ at' = "infer" /\ pass' = NoDrift
  /\ UNCHANGED <<proc, runs, worldVars, counter, logVars, ghostVars>>

\* classifier_inference: without a usable bundle stale rows are read again, which may be enough
\* for the targets, and then a cold start; it may give none all the same.
Infer ==
  /\ at = "infer"
  /\ at' = "gate" /\ steady' \in {steady, TRUE} /\ ready' \in {ready, ready \/ steady'}
  /\ UNCHANGED <<proc, runs, pass, tasks, counter, logVars, ghostVars>>

\* model_retrain numbers the retrain and opens a task before it trains.
TaskNumber == tasks + 1       \* variant: retrains are counted by their tasks
RetrainNumber == Len(history) + 1
OpenTask ==
  /\ at = "retrain"
  /\ tasks' = tasks + 1
  /\ pass' = [pass EXCEPT !.number = RetrainNumber, !.task = tasks']
  /\ at' = "train"
  /\ UNCHANGED <<proc, runs, steady, ready, counter, logVars, ghostVars>>

\* The new bundle may have fewer samples of a class than the targets.
Retrain ==
  /\ at = "train"
  /\ pass' = [pass EXCEPT !.retrained = "done"]
  /\ ready' \in BOOLEAN
  /\ at' = "gate"
  /\ UNCHANGED <<proc, runs, steady, tasks, counter, logVars, ghostVars>>

SkipRetrain ==
  /\ at = "train"
  /\ pass' = [pass EXCEPT !.retrained = "skipped", !.number = 0, !.task = 0]
  /\ at' = "gate"
  /\ UNCHANGED <<proc, runs, worldVars, counter, logVars, ghostVars>>
-----------------------------------------------------------------------------
(***************************************************************************)
(* evaluation_node.  A pass with a drift or a retrain is always evaluated; *)
(* of the others in the steady phase every EvalEvery-th is, and the count  *)
(* is saved before.                                                        *)
(***************************************************************************)
Forced == pass.event # 0 \/ pass.retrained # "no"

NextEvalRunLate == (counter + 1) % (EvalEvery + 1)     \* variant: off by one
NextEvalRun == (counter + 1) % EvalEvery
SavedIfDue(n) == IF n = 0 THEN counter' = n ELSE UNCHANGED counter     \* variant
Saved(n) == counter' = n

\* The node returns, and with it the pass: the bootstrap asks if it is complete.
CountedIfReady == IF ready THEN runs + 1 ELSE runs     \* variant
Counted == runs + 1
BootstrapDone == (steady /\ ready) \/ Counted >= BootstrapMax
PassDone(final) ==
  /\ at' = "sleep"
  /\ \/ proc # "bootstrap" /\ pass' = final /\ UNCHANGED <<proc, runs>>
     \/ proc = "bootstrap" /\ ~BootstrapDone /\ runs' = Counted /\ pass' = final /\ UNCHANGED proc
     \/ proc = "bootstrap" /\ BootstrapDone /\ NewProcess("daemon")

GateForced ==
  /\ at = "gate" /\ Forced
  /\ at' = "measure"
  /\ UNCHANGED <<proc, runs, pass, worldVars, counter, logVars, ghostVars>>

GateBootstrap ==
  /\ at = "gate" /\ ~Forced /\ ~pass.steady
  /\ PassDone(pass)
  /\ UNCHANGED <<worldVars, counter, logVars, ghostVars>>

GatePeriodic ==
  /\ at = "gate" /\ ~Forced /\ pass.steady
  /\ Saved(NextEvalRun)
  /\ \/ NextEvalRun = 0 /\ at' = "measure" /\ UNCHANGED <<proc, runs, pass, skipped>>
     \/ NextEvalRun # 0 /\ PassDone(pass) /\ skipped' = skipped + 1
  /\ UNCHANGED <<worldVars, logVars, evals, events, lost, faults>>

\* run_tesseract_eval needs a healthy split and a bundle, run_retrograde_eval a bundle and a
\* task; either may raise, and when the second does, the result of the first is kept apart.
Measured(metrics) ==
  /\ metrics \in {"full", "apart"} => ready /\ steady /\ evals < MaxEvals
  /\ metrics = "retro" => ready /\ tasks > 0
  /\ evals' = IF metrics \in {"full", "apart"} THEN evals + 1 ELSE evals
  /\ pass' = [pass EXCEPT !.metrics = metrics,
                !.eval = IF metrics \in {"full", "apart"} THEN evals' ELSE 0]

\* append_eval_log, which may fail; it does not say what the evaluation was made for.  "from"
\* is the history record a line is a copy of, 0 for one that was measured.
Line(eval, from) == [eval |-> eval, from |-> from]
Measure ==
  /\ at = "measure"
  /\ \E metrics \in {"none", "retro", "full", "apart"} :
       /\ Measured(metrics)
       /\ \/ UNCHANGED evalLog
          \/ /\ metrics \in {"retro", "full"} /\ Len(evalLog) < MaxLines
             /\ evalLog' = Append(evalLog, Line(pass'.eval, 0))
  /\ at' = "history" /\ skipped' = 0 /\ lost' = 0
  /\ UNCHANGED <<proc, runs, worldVars, counter, history, driftLog, events, faults>>

\* _record_training_history of a retrain that was measured; it may fail.
HistoryRecord == [number |-> pass.number, task |-> pass.task, eval |-> pass.eval]
RecordHistory ==
  /\ at = "history"
  /\ \/ UNCHANGED history
     \/ /\ pass.retrained = "done" /\ pass.metrics = "full"
        /\ history' = Append(history, HistoryRecord)
  /\ at' = "driftlog"
  /\ UNCHANGED <<proc, runs, pass, worldVars, counter, evalLog, driftLog, ghostVars>>

\* append_drift_log, if a drift is to be logged, which then is not to be logged any more; it
\* may fail, and the pass is over.
LateRecord == [event |-> pass.event, pre |-> Latest, post |-> pass.eval]     \* variant
DriftRecord == [event |-> pass.event, pre |-> pass.pre, post |-> pass.eval]
RecordDrift ==
  /\ at = "driftlog"
  /\ \/ UNCHANGED driftLog /\ PassDone(pass)
     \/ /\ pass.event # 0
        /\ driftLog' = Append(driftLog, DriftRecord)
        /\ PassDone([pass EXCEPT !.event = 0])
  /\ UNCHANGED <<worldVars, counter, evalLog, history, ghostVars>>
-----------------------------------------------------------------------------
\* SchedulerLoop.run, run_bootstrap: the next pass, sooner or later.
Wake ==
  /\ at = "sleep" /\ proc # "down"
  /\ at' = "select"
  /\ UNCHANGED <<proc, runs, pass, worldVars, counter, logVars, ghostVars>>

\* A node raises: the daemon sleeps and goes on, the bootstrap is over and so is the container.
StopAtError == NewProcess("down")     \* variant: the daemon does not survive it either
Survives == IF proc = "daemon" THEN UNCHANGED <<proc, runs, pass>> ELSE NewProcess("down")
Fail ==
  /\ at \in {"select", "collect", "drift", "infer", "retrain", "train"}
  /\ Survives /\ at' = "sleep"
  /\ UNCHANGED <<worldVars, counter, logVars, ghostVars>>

\* Stop: the container is stopped, before an evaluation that was due perhaps.  SaveFails: the
\* gate cannot write the counter.  The file is rewritten in place, so either may leave one that
\* counts as none.
Counting == at = "gate" /\ ~Forced /\ pass.steady
Torn ==
  \/ UNCHANGED counter /\ lost' = IF at = "measure" /\ ~Forced THEN lost + 1 ELSE lost
  \/ Counting /\ counter' = 0 /\ lost' = lost + 1

Stop ==
  /\ proc # "down" /\ faults < MaxFaults
  /\ faults' = faults + 1
  /\ NewProcess("down") /\ at' = "sleep"
  /\ Torn
  /\ UNCHANGED <<worldVars, logVars, evals, events, skipped>>

SaveFails ==
  /\ Counting /\ faults < MaxFaults
  /\ faults' = faults + 1
  /\ Survives /\ at' = "sleep"
  /\ Torn
  /\ UNCHANGED <<worldVars, logVars, evals, events, skipped>>

\* generate_report_figures, at any time: what the history has and, judging by the time it was
\* written, the log has not; and while there are few lines, one more evaluation.
Backfilled == {l.from : l \in Range(evalLog)}
MissingForgetful == DOMAIN history     \* variant: nothing is remembered
Missing == DOMAIN history \ Backfilled
Backfill ==
  /\ Missing # {}
  /\ Len(evalLog) + Cardinality(Missing) <= MaxLines
  /\ \E order \in [1..Cardinality(Missing) -> Missing] :
       /\ \A j, k \in DOMAIN order : j < k => order[j] < order[k]
       /\ evalLog' = evalLog \o [k \in DOMAIN order |-> Line(history[order[k]].eval, order[k])]
  /\ UNCHANGED <<proc, runs, at, pass, worldVars, counter, history, driftLog, ghostVars>>

LiveEvaluation ==
  /\ history # <<>> /\ Missing = {} /\ Len(evalLog) < MinRows
  /\ ready /\ steady /\ evals < MaxEvals /\ Len(evalLog) < MaxLines
  /\ evals' = evals + 1
  /\ evalLog' = Append(evalLog, Line(evals', 0))
  /\ UNCHANGED <<proc, runs, at, pass, worldVars, counter, history, driftLog, events, skipped, lost, faults>>

Gate == GateForced \/ GateBootstrap \/ GatePeriodic
Step ==
  \/ Select \/ Collect \/ ThresholdRetrain \/ NoRetrain \/ Infer
  \/ OpenTask \/ Retrain \/ SkipRetrain \/ Gate \/ Measure \/ RecordHistory \/ RecordDrift
  \/ Wake

Next == Start \/ Upgrade \/ Step \/ DriftDetected \/ Fail \/ Stop \/ SaveFails \/ Backfill \/ LiveEvaluation

Spec == Init /\ [][Next]_vars

\* Passes go on; nobody owes a drift, a fault, a report or a restart of the container.
FairSpec == Spec /\ WF_vars(Step)
-----------------------------------------------------------------------------
Nodes == {"select", "collect", "drift", "infer", "retrain", "train", "gate",
          "measure", "history", "driftlog"}
Passes == [steady : BOOLEAN, event : Nat, pre : Nat, retrained : {"no", "done", "skipped"},
           number : Nat, task : Nat, metrics : {"none", "retro", "full", "apart"}, eval : Nat]

\* Every variable keeps its type, and no pass is under way when no process is.
TypeOK ==
  /\ proc \in {"down", "bootstrap", "daemon"} /\ runs \in 0..BootstrapMax
  /\ at \in Nodes \cup {"sleep"} /\ (proc = "down" => at = "sleep") /\ pass \in Passes
  /\ steady \in BOOLEAN /\ ready \in BOOLEAN /\ tasks \in Nat
  /\ counter \in 0..(EvalEvery - 1)
  /\ evalLog \in Seq([eval : Nat, from : Nat])
  /\ history \in Seq([number : Nat, task : Nat, eval : Nat])
  /\ driftLog \in Seq([event : Nat, pre : Nat, post : Nat])
  /\ {evals, events, skipped, lost, faults} \subseteq Nat

Increasing(s, f(_)) == \A i, j \in DOMAIN s : i < j => f(s[i]) < f(s[j])

\* training_history numbers its records from 1 without a gap, and they follow one another in
\* time: each is of a later task and a later evaluation, whatever pass failed, whichever retrain
\* was skipped or could not be measured, and however often the container was stopped.
HistoryFits ==
  /\ \A i \in DOMAIN history : history[i].number = i
  /\ Increasing(history, LAMBDA r : r.task)
  /\ Increasing(history, LAMBDA r : r.eval)

\* drift_log has each drift once and in order, and its two metrics are of different times: the
\* evaluation after the drift is later than the one before it.
DriftLogFits ==
  /\ Increasing(driftLog, LAMBDA r : r.event)
  /\ \A i \in DOMAIN driftLog : driftLog[i].post = 0 \/ driftLog[i].pre < driftLog[i].post

\* EVAL_EVERY_RUNS: between two attempts at an evaluation the gate lets go at most EvalEvery - 1
\* steady passes, with passes that fail and restarts of the container among them, and as many
\* again for each time the counter was torn or a stop came between the count and the evaluation.
EvaluationIsDue == skipped <= (EvalEvery - 1) * (1 + lost)

\* However often the report is made, it copies no record of the history twice.
BackfilledOnce ==
  \A i, j \in DOMAIN evalLog : evalLog[i].from = evalLog[j].from /\ i # j => evalLog[i].from = 0

\* SchedulerLoop: a daemon begins another pass, whatever node raised in the last, unless somebody
\* stops the container or the disk fails.
PassesGoOn == \A n \in 0..MaxFaults : proc = "daemon" /\ faults = n ~> at = "select" \/ faults > n

\* run_bootstrap is over at some time, even if the targets are never reached.
BootstrapStops == proc = "bootstrap" ~> proc # "bootstrap"
=============================================================================
