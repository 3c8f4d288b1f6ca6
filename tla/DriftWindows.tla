---------------------------- MODULE DriftWindows ----------------------------
(***************************************************************************)
(* The windowed shift check of the drift monitor, over many passes.  Each  *)
(* featured sample of a steady pass is projected on the features the       *)
(* production model selects and appended to a window that is saved sample  *)
(* by sample; its last two halves are compared.  A retrain ranks the       *)
(* features again and leaves the window alone: reset_detector has no       *)
(* caller in the program.                                                  *)
(* ADWIN, which watches the entropies beside it, keeps its own state and   *)
(* can only end a pass in a retrain, as the threshold can.                 *)
(*                                                                         *)
(* A vector is abstracted to the concept its sample was drawn from and the *)
(* selection it was projected on.  A score can exceed its threshold only   *)
(* when the compared vectors are not all alike; a statistical false alarm  *)
(* within one concept and one selection is left out.  Samples of bootstrap *)
(* passes never reach the monitor, and DRIFT_WINDOW_DAYS is 0, its default.*)
(***************************************************************************)
EXTENDS Integers, Sequences

CONSTANTS
  Concepts,
  Selections,       \* feature rankings a fit can produce
  FirstFeatures,    \* the first 64 features, used without a ready bundle
  Window,           \* DRIFT_MIN_WINDOW_SAMPLES
  MaxBatch,         \* bound: featured samples of a pass
  MaxAborts         \* bound: failed passes

ASSUME DriftAssumption ==
  /\ FirstFeatures \notin Selections /\ Selections # {} /\ Concepts # {}
  /\ Window \in Nat \ {0, 1}
  /\ {MaxBatch, MaxAborts} \subseteq Nat

VARIABLES
  vectors,       \* the saved window
  selection,     \* what _selected_drift_indices returns
  pc,
  left,          \* samples of the pass still to be observed
  shifted,       \* the shift check raised an alarm in this pass
  last,          \* history: the vector observed last
  run,           \* history: how many like it were observed in a row
  before,        \* history: the length of the run before that one
  aborts

history == <<last, run, before>>
vars == <<vectors, selection, pc, left, shifted, history, aborts>>

AllSelections == Selections \cup {FirstFeatures}
Vector == [concept : Concepts, selection : AllSelections]
Nothing == [concept |-> "none"]
Many == 2 * Window      \* longer runs are not told apart
-----------------------------------------------------------------------------
\* The newest vectors, four windows of them.
KeptAll(v) == v     \* variant: never cut
KeptOne(v) == IF Len(v) > Many THEN SubSeq(v, Len(v) - Many + 2, Len(v)) ELSE v     \* variant: one too few
Kept(v) == IF Len(v) > 4 * Window THEN SubSeq(v, Len(v) - 4 * Window + 1, Len(v)) ELSE v

\* The two windows compared: sets of vectors, for all that matters is which occur.
OldestFirst(v) == 1     \* variant: slices from the wrong end
From(v) == Len(v) - Many + 1
Previous(v) == {v[i] : i \in From(v)..(From(v) + Window - 1)}
Current(v) == {v[i] : i \in (From(v) + Window)..(From(v) + Many - 1)}
CanShift(v) == Len(v) >= Many /\ \E x, y \in Previous(v) \cup Current(v) : x # y
-----------------------------------------------------------------------------
Init ==
  /\ vectors = <<>> /\ selection = FirstFeatures
  /\ pc = "collect" /\ left = 0 /\ shifted = FALSE
  /\ last = Nothing /\ run = 0 /\ before = 0
  /\ aborts = 0

\* A steady pass reaches drift_monitor with some featured samples.
Collect ==
  /\ pc = "collect"
  /\ left' \in 0..MaxBatch
  /\ shifted' = FALSE
  /\ pc' = "observe"
  /\ UNCHANGED <<vectors, selection, history, aborts>>

Remember(vec) ==
  /\ last' = vec
  /\ run' = IF vec # last THEN 1 ELSE IF run < Many THEN run + 1 ELSE run
  /\ before' = IF vec # last THEN run ELSE before

\* DriftMonitor.update on one sample: append, cut, compare, save.
Observe ==
  /\ pc = "observe" /\ left > 0
  /\ left' = left - 1
  /\ \E c \in Concepts :
       LET vec == [concept |-> c, selection |-> selection]
       IN /\ vectors' = Kept(Append(vectors, vec))
          /\ Remember(vec)
  /\ shifted' \in {shifted} \cup (IF CanShift(vectors') THEN {TRUE} ELSE {})
  /\ UNCHANGED <<selection, pc, aborts>>

\* The pass ends with the bundle it had: it only scored, or its retrain was skipped.
Keep ==
  /\ pc = "observe" /\ left = 0
  /\ pc' = "collect"
  /\ UNCHANGED <<vectors, selection, left, shifted, history, aborts>>

\* Drift retrain, threshold retrain or cold start: the features are ranked again.  A
\* bundle that is not ready has the monitor fall back to the first features.
Fit ==
  /\ pc = "observe" /\ left = 0
  /\ selection' \in AllSelections
  /\ pc' = "collect"
  /\ UNCHANGED <<vectors, left, shifted, history, aborts>>

\* A node raises: what was observed is saved, the rest of the batch is never observed.
Abort ==
  /\ pc = "observe"
  /\ aborts < MaxAborts
  /\ aborts' = aborts + 1
  /\ left' = 0
  /\ pc' = "collect"
  /\ UNCHANGED <<vectors, selection, shifted, history>>

\* The process dies while the file is written: it cannot be loaded and is made anew.
TornFile ==
  /\ pc = "observe" /\ left > 0
  /\ aborts < MaxAborts
  /\ aborts' = aborts + 1
  /\ vectors' = <<>>
  /\ left' = 0 /\ shifted' = FALSE
  /\ last' = Nothing /\ run' = 0 /\ before' = 0
  /\ pc' = "collect"
  /\ UNCHANGED selection

Next == Collect \/ Observe \/ Keep \/ Fit \/ Abort \/ TornFile

Spec == Init /\ [][Next]_vars
-----------------------------------------------------------------------------
\* Every variable has its type, and the window is bounded.
TypeOK ==
  /\ vectors \in Seq(Vector) /\ Len(vectors) <= 4 * Window
  /\ selection \in AllSelections
  /\ pc \in {"collect", "observe"} /\ left \in 0..MaxBatch
  /\ shifted \in BOOLEAN
  /\ last \in Vector \cup {Nothing}
  /\ run \in 0..Many /\ before \in 0..Many
  /\ aborts \in Nat

\* A change that lasts for a window after a stable window is compared at full contrast
\* at some sample, however the samples were spread over passes and failures.
FullContrast ==
  run = Window /\ before >= Window =>
    /\ Len(vectors) >= Many
    /\ Current(vectors) = {last}
    /\ \E x \in Vector \ {last} : Previous(vectors) = {x}

\* Two windows after the last change of concept or selection the shift check cannot
\* raise an alarm: the monitor forgets a change in bounded time.
QuietOnceSettled == run = Many => ~CanShift(vectors)
=============================================================================
