------------------------- MODULE DriftWindows_proofs -------------------------
(***************************************************************************)
(* Proofs about DriftWindows for windows, batches and concepts of any      *)
(* number.  RunInv ties the history of runs to the saved window: its end   *)
(* is the present run, before it lies the run before that one.             *)
(***************************************************************************)
EXTENDS DriftWindows, TLAPS

\* Cutting the window keeps its newest vectors in their order.
LEMMA KeptIsSuffix ==
  ASSUME NEW S, NEW v \in Seq(S)
  PROVE  /\ Kept(v) \in Seq(S)
         /\ Len(Kept(v)) = IF Len(v) > 4 * Window THEN 4 * Window ELSE Len(v)
         /\ \A i \in 1..Len(Kept(v)) : Kept(v)[i] = v[i + Len(v) - Len(Kept(v))]
  <1>1. Window \in Nat \ {0, 1}
    BY DriftAssumption
  <1>2. CASE Len(v) > 4 * Window
    <2>1. Kept(v) = SubSeq(v, Len(v) - 4 * Window + 1, Len(v))
      BY <1>2 DEF Kept
    <2> QED
      BY <1>1, <1>2, <2>1
  <1>3. CASE ~(Len(v) > 4 * Window)
    <2>1. Kept(v) = v
      BY <1>3 DEF Kept
    <2> QED
      BY <1>1, <1>3, <2>1
  <1> QED
    BY <1>2, <1>3

LEMMA NothingIsNoVector == Nothing \notin Vector
  <1>1. \A x \in Vector : DOMAIN x = {"concept", "selection"}
    BY DEF Vector
  <1>2. DOMAIN Nothing = {"concept"}
    BY DEF Nothing
  <1> QED
    BY <1>1, <1>2

Tail1 == \A i \in 1..Len(vectors) : i > Len(vectors) - run => vectors[i] = last
Run1 ==
  run \in 1..(Many - 1) =>
    \E x \in Vector \cup {Nothing} :
      /\ x # last
      /\ \A i \in 1..Len(vectors) :
           i > Len(vectors) - run - before /\ i <= Len(vectors) - run => vectors[i] = x

RunInv ==
  /\ run + before <= Len(vectors)
  /\ run = 0 => last = Nothing
  /\ Tail1
  /\ Run1

DriftInv == TypeOK /\ RunInv

LEMMA DriftInit == Init => DriftInv
  <1> SUFFICES ASSUME Init PROVE DriftInv
    OBVIOUS
  <1>1. Window \in Nat /\ MaxBatch \in Nat /\ Many = 2 * Window
    BY DriftAssumption DEF Many
  <1>2. vectors = <<>> /\ Len(vectors) = 0 /\ vectors \in Seq(Vector)
    BY DEF Init
  <1>3. TypeOK
    <2>1. shifted \in BOOLEAN
      BY DEF Init
    <2>2. run \in 0..Many /\ before \in 0..Many /\ left \in 0..MaxBatch
      BY <1>1 DEF Init
    <2>3. Len(vectors) <= 4 * Window /\ vectors \in Seq(Vector)
      BY <1>1, <1>2
    <2> QED
      BY <2>1, <2>2, <2>3 DEF Init, TypeOK, AllSelections
  <1>4. RunInv
    BY <1>1, <1>2 DEF Init, RunInv, Tail1, Run1
  <1> QED
    BY <1>3, <1>4 DEF DriftInv

\* A sample that repeats the present run lengthens it; another one starts a run.
LEMMA ObserveKeepsRuns ==
  ASSUME DriftInv, Observe
  PROVE  DriftInv'
  <1> USE DEF DriftInv, RunInv
  <1>1. Window \in Nat \ {0, 1} /\ Many = 2 * Window /\ Many \in Nat
    BY DriftAssumption DEF Many
  <1>2. PICK vec \in Vector :
          /\ vectors' = Kept(Append(vectors, vec))
          /\ Remember(vec)
    BY DEF Observe, Vector, TypeOK
  <1> DEFINE w == Append(vectors, vec)
  <1>3. /\ vectors \in Seq(Vector) /\ Len(vectors) \in Nat /\ Len(vectors) <= 4 * Window
        /\ run \in 0..Many /\ before \in 0..Many
        /\ last \in Vector \cup {Nothing} /\ selection \in AllSelections
    BY DEF TypeOK
  <1>4. /\ w \in Seq(Vector) /\ Len(w) = Len(vectors) + 1
        /\ w[Len(w)] = vec
        /\ \A i \in 1..Len(vectors) : w[i] = vectors[i]
    BY <1>3
  <1>5. /\ vectors' \in Seq(Vector)
        /\ Len(vectors') = IF Len(w) > 4 * Window THEN 4 * Window ELSE Len(w)
        /\ \A i \in 1..Len(vectors') : vectors'[i] = w[i + Len(w) - Len(vectors')]
    BY <1>2, <1>4, KeptIsSuffix
  <1>6. TypeOK'
    <2>1. Len(vectors') <= 4 * Window
      BY <1>1, <1>3, <1>4, <1>5
    <2>2. last' \in Vector /\ run' \in 0..Many /\ before' \in 0..Many
      BY <1>1, <1>2, <1>3 DEF Remember
    <2>3. left' \in 0..MaxBatch
      BY DriftAssumption DEF Observe, TypeOK
    <2>5. shifted' \in BOOLEAN
      BY DEF Observe, TypeOK
    <2>4. pc' = pc /\ selection' = selection /\ aborts' = aborts
      BY DEF Observe
    <2> HIDE DEF w
    <2> QED
      BY <1>5, <2>1, <2>2, <2>3, <2>4, <2>5 DEF TypeOK
  <1> HIDE DEF w
  <1>7. run' + before' <= Len(vectors')
    BY <1>1, <1>2, <1>3, <1>4, <1>5 DEF Remember
  <1>9. /\ Len(vectors') \in Nat /\ Len(w) - Len(vectors') \in 0..1
        /\ Len(w) = Len(vectors) + 1
    <2>1. Len(w) = Len(vectors) + 1
      BY <1>4
    <2>2. Len(vectors') = IF Len(w) > 4 * Window THEN 4 * Window ELSE Len(w)
      BY <1>5
    <2> QED
      BY <1>1, <1>3, <2>1, <2>2
  <1>8. ASSUME NEW i \in 1..Len(vectors')
        PROVE  /\ i = Len(vectors') => vectors'[i] = vec
               /\ i < Len(vectors') =>
                    /\ i + Len(w) - Len(vectors') \in 1..Len(vectors)
                    /\ vectors'[i] = vectors[i + Len(w) - Len(vectors')]
    <2>1. vectors'[i] = w[i + Len(w) - Len(vectors')]
      BY <1>5
    <2>2. i = Len(vectors') => i + Len(w) - Len(vectors') = Len(w)
      BY <1>3, <1>9
    <2>3. i < Len(vectors') => i + Len(w) - Len(vectors') \in 1..Len(vectors)
      BY <1>3, <1>9
    <2> QED
      BY <1>4, <2>1, <2>2, <2>3
  <1>12. run' # 0
    BY <1>1, <1>2, <1>3 DEF Remember
  <1>10. CASE vec = last
    <2>1. /\ last' = last /\ before' = before
          /\ run' = IF run < Many THEN run + 1 ELSE run
      BY <1>2, <1>10 DEF Remember
    <2>2. Tail1'
      <3> SUFFICES ASSUME NEW i \in 1..Len(vectors'), i > Len(vectors') - run'
                   PROVE  vectors'[i] = last
        BY <2>1 DEF Tail1
      <3>1. CASE i = Len(vectors')
        BY <1>8, <1>10, <3>1
      <3>2. CASE i < Len(vectors')
        <4>1. i + Len(w) - Len(vectors') > Len(vectors) - run
          BY <1>1, <1>3, <1>4, <1>9, <2>1
        <4> QED
          BY <1>8, <3>2, <4>1 DEF Tail1
      <3> QED
        BY <1>9, <3>1, <3>2
    <2>3. Run1'
      <3> SUFFICES ASSUME run' \in 1..(Many - 1)
                   PROVE  \E x \in Vector \cup {Nothing} :
                            /\ x # last
                            /\ \A i \in 1..Len(vectors') :
                                 i > Len(vectors') - run' - before' /\ i <= Len(vectors') - run'
                                   => vectors'[i] = x
        BY <2>1 DEF Run1
      <3>1. run \in 1..(Many - 1) /\ run' = run + 1
        <4>1. run # 0
          BY <1>10, NothingIsNoVector
        <4> QED
          BY <1>1, <1>3, <2>1, <4>1
      <3>2. PICK x \in Vector \cup {Nothing} :
              /\ x # last
              /\ \A i \in 1..Len(vectors) :
                   i > Len(vectors) - run - before /\ i <= Len(vectors) - run => vectors[i] = x
        BY <3>1 DEF Run1
      <3>3. ASSUME NEW i \in 1..Len(vectors'),
                   i > Len(vectors') - run' - before', i <= Len(vectors') - run'
            PROVE  vectors'[i] = x
        <4>1. i < Len(vectors') /\ run' = run + 1
          BY <1>1, <1>3, <1>9, <2>1, <3>1, <3>3
        <4>2. /\ i + Len(w) - Len(vectors') > Len(vectors) - run - before
              /\ i + Len(w) - Len(vectors') <= Len(vectors) - run
          BY <1>1, <1>3, <1>4, <1>9, <2>1, <3>3, <4>1
        <4> QED
          BY <1>8, <3>2, <4>1, <4>2
      <3> QED
        BY <3>2, <3>3
    <2> QED
      BY <1>6, <1>7, <1>12, <2>2, <2>3
  <1>11. CASE vec # last
    <2>1. last' = vec /\ before' = run /\ run' = 1
      BY <1>2, <1>11 DEF Remember
    <2>2. Tail1'
      BY <1>8, <1>9, <2>1 DEF Tail1
    <2>3. ASSUME NEW i \in 1..Len(vectors'),
                 i > Len(vectors') - 1 - run, i <= Len(vectors') - 1
          PROVE  vectors'[i] = last
      <3>1. i < Len(vectors') /\ i + Len(w) - Len(vectors') > Len(vectors) - run
        BY <1>3, <1>4, <1>9, <2>3
      <3> QED
        BY <1>8, <3>1 DEF Tail1
    <2>4. Run1'
      BY <1>3, <1>11, <2>1, <2>3 DEF Run1
    <2> QED
      BY <1>6, <1>7, <1>12, <2>2, <2>4
  <1> QED
    BY <1>10, <1>11

\* The other steps leave the window and its history alone, or begin both anew.
LEMMA DriftStep == DriftInv /\ [Next]_vars => DriftInv'
  <1> SUFFICES ASSUME DriftInv, [Next]_vars PROVE DriftInv'
    OBVIOUS
  <1>1. Window \in Nat \ {0, 1} /\ Many = 2 * Window /\ MaxBatch \in Nat
    BY DriftAssumption DEF Many
  <1>2. ASSUME UNCHANGED <<vectors, history>>, TypeOK'
        PROVE  DriftInv'
    BY <1>2 DEF DriftInv, RunInv, Tail1, Run1, history
  <1>3. CASE Collect
    <2>1. TypeOK'
      BY <1>1, <1>3 DEF Collect, TypeOK, DriftInv, history
    <2> QED
      BY <1>2, <1>3, <2>1 DEF Collect
  <1>4. CASE Observe
    BY <1>4, ObserveKeepsRuns
  <1>5. CASE Keep
    <2>1. TypeOK'
      BY <1>5 DEF Keep, TypeOK, DriftInv, history
    <2> QED
      BY <1>2, <1>5, <2>1 DEF Keep
  <1>6. CASE Fit
    <2>1. TypeOK'
      BY <1>6 DEF Fit, TypeOK, DriftInv, history
    <2> QED
      BY <1>2, <1>6, <2>1 DEF Fit
  <1>7. CASE Abort
    <2>1. TypeOK'
      BY <1>1, <1>7 DEF Abort, TypeOK, DriftInv, history
    <2> QED
      BY <1>2, <1>7, <2>1 DEF Abort
  <1>8. CASE TornFile
    <2>1. /\ vectors' = <<>> /\ Len(vectors') = 0 /\ vectors' \in Seq(Vector)
          /\ run' = 0 /\ before' = 0 /\ last' = Nothing
      BY <1>8 DEF TornFile
    <2>2. run' \in 0..Many /\ before' \in 0..Many /\ Len(vectors') <= 4 * Window
      BY <1>1, <2>1
    <2>3. left' \in 0..MaxBatch /\ aborts' \in Nat
      BY <1>1, <1>8 DEF TornFile, DriftInv, TypeOK
    <2>4. shifted' \in BOOLEAN /\ pc' \in {"collect", "observe"} /\ selection' \in AllSelections
      BY <1>8 DEF TornFile, DriftInv, TypeOK
    <2>5. TypeOK'
      BY <2>1, <2>2, <2>3, <2>4 DEF TypeOK
    <2>6. RunInv'
      BY <1>1, <2>1 DEF RunInv, Tail1, Run1
    <2> QED
      BY <2>5, <2>6 DEF DriftInv
  <1>9. CASE UNCHANGED vars
    <2>1. TypeOK'
      BY <1>9 DEF vars, TypeOK, DriftInv, history
    <2> QED
      BY <1>2, <1>9, <2>1 DEF vars
  <1> QED
    BY <1>3, <1>4, <1>5, <1>6, <1>7, <1>8, <1>9 DEF Next

\* The saved window and its history have their types, and the window is bounded.
THEOREM TypeCorrect == Spec => []TypeOK
  <1>1. Spec => []DriftInv
    BY DriftInit, DriftStep, PTL DEF Spec
  <1>2. DriftInv => TypeOK
    BY DEF DriftInv
  <1> QED
    BY <1>1, <1>2, PTL

\* Two windows after the last change the shift check is quiet.
THEOREM Quiet == Spec => []QuietOnceSettled
  <1>1. Spec => []DriftInv
    BY DriftInit, DriftStep, PTL DEF Spec
  <1>2. DriftInv => QuietOnceSettled
    <2> SUFFICES ASSUME DriftInv, run = Many PROVE ~CanShift(vectors)
      BY DEF QuietOnceSettled
    <2>1. Window \in Nat \ {0, 1} /\ Many = 2 * Window /\ Len(vectors) \in Nat
      BY DriftAssumption DEF Many, DriftInv, TypeOK
    <2>2. run + before <= Len(vectors) /\ before \in Nat /\ Tail1
      BY <2>1 DEF DriftInv, RunInv, TypeOK
    <2>3. \A x \in Previous(vectors) : x = last
      <3>1. \A i \in From(vectors)..(From(vectors) + Window - 1) :
              i \in 1..Len(vectors) /\ i > Len(vectors) - run
        BY <2>1, <2>2 DEF From
      <3> QED
        BY <2>2, <3>1 DEF Previous, Tail1
    <2>4. \A x \in Current(vectors) : x = last
      BY <2>1, <2>2 DEF Current, From, Tail1
    <2> QED
      BY <2>3, <2>4 DEF CanShift
  <1> QED
    BY <1>1, <1>2, PTL

\* A change that lasts for a window after a stable window is compared at full contrast.
THEOREM ChangesAreSeen == Spec => []FullContrast
  <1>1. Spec => []DriftInv
    BY DriftInit, DriftStep, PTL DEF Spec
  <1>2. DriftInv => FullContrast
    <2> SUFFICES ASSUME DriftInv, run = Window, before >= Window
                 PROVE  /\ Len(vectors) >= Many
                        /\ Current(vectors) = {last}
                        /\ \E x \in Vector \ {last} : Previous(vectors) = {x}
      BY DEF FullContrast
    <2>1. /\ Window \in Nat \ {0, 1} /\ Many = 2 * Window /\ Len(vectors) \in Nat
          /\ before \in Nat /\ vectors \in Seq(Vector)
      BY DriftAssumption DEF Many, DriftInv, TypeOK
    <2>2. run + before <= Len(vectors) /\ Tail1 /\ Run1
      BY DEF DriftInv, RunInv
    <2>3. Len(vectors) >= Many
      BY <2>1, <2>2
    <2>4. \A i \in (From(vectors) + Window)..(From(vectors) + Many - 1) : vectors[i] = last
      BY <2>1, <2>2, <2>3 DEF From, Tail1
    <2>5. Current(vectors) = {last}
      <3>1. From(vectors) + Window \in (From(vectors) + Window)..(From(vectors) + Many - 1)
        BY <2>1 DEF From
      <3> QED
        BY <2>4, <3>1 DEF Current
    <2>6. PICK x \in Vector \cup {Nothing} :
            /\ x # last
            /\ \A i \in 1..Len(vectors) :
                 i > Len(vectors) - run - before /\ i <= Len(vectors) - run => vectors[i] = x
      <3>1. run \in 1..(Many - 1)
        BY <2>1
      <3> QED
        BY <2>2, <3>1 DEF Run1
    <2>7. \A i \in From(vectors)..(From(vectors) + Window - 1) : vectors[i] = x
      BY <2>1, <2>3, <2>6 DEF From
    <2>8. /\ From(vectors) \in 1..Len(vectors)
          /\ From(vectors) \in From(vectors)..(From(vectors) + Window - 1)
      BY <2>1, <2>3 DEF From
    <2>9. x \in Vector
      BY <2>1, <2>7, <2>8
    <2>10. Previous(vectors) = {x}
      BY <2>7, <2>8 DEF Previous
    <2> QED
      BY <2>3, <2>5, <2>6, <2>9, <2>10
  <1> QED
    BY <1>1, <1>2, PTL
=============================================================================
