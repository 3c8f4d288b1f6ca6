------------------------- MODULE CtiProviders_proofs -------------------------
(***************************************************************************)
(* Proofs about the providers and the client they share, for any hashes,   *)
(* listings, settings and bounds: what the cache of verdicts, the table of *)
(* downloads and the circuit say of what the service did.  None of them    *)
(* needs to know which hash a call is about.                               *)
(***************************************************************************)
EXTENDS CtiProviders, SequenceFacts

\* The cache is disturbed by few steps; the others leave its variables alone.
VerdictVars == <<cache, knows, answered, misled>>

Verdicts == {"none", "yes", "no"}
VerdictType ==
  /\ cache \in [Shas -> [verdict : Verdicts, age : Nat]]
  /\ knows \in [Shas -> Knowledge] /\ answered \in [Shas -> Knowledge \cup {"nothing"}]

LEMMA VerdictSteps ==
  ASSUME Next
  PROVE  UNCHANGED VerdictVars \/ InfoAnswered \/ ErrorInAnswer \/ NewDay \/ Upload
  <1> USE DEF VerdictVars, clientVars, tables, service, history, bounds, scanVars
  <1>1. CASE StartRound \/ Fetch \/ Fetched \/ Restart
    BY <1>1 DEF StartRound, Fetch, Fetched, Restart, ClientRestart
  <1>2. CASE Scan
    BY <1>2 DEF Scan, StartProvider, SendList, List, ListResult, ListIocs, TagRows, ThreatFoxRaises,
      MalShareRow, ThreatFoxTakes, TwitterStops, Judge, IsPeHash, Judged, EndProvider
  <1>3. CASE Client
    BY <1>3 DEF Client, ClientStep, TryAgain, ServerError, TransportError, RateLimited, Refused, Garbled,
      ListAnswered, FileUnknown, FileAnswered, Unzip, UnzipFails, MalShare, AskProvider
  <1>4. CASE Environment
    BY <1>4 DEF Environment, World, TimePasses, Outage, Recovery
  <1> QED
    BY <1>1, <1>2, <1>3, <1>4 DEF Next
-----------------------------------------------------------------------------
VerdictInv == VerdictType /\ VerdictsWereAnswered

LEMMA VerdictInit == Init => VerdictInv
  BY BazaarAssumption DEF Init, BazaarInit, VerdictInv, VerdictType, VerdictsWereAnswered, Verdicts

LEMMA VerdictNext == VerdictInv /\ [Next]_vars => VerdictInv'
  <1> SUFFICES ASSUME VerdictInv, [Next]_vars PROVE VerdictInv'
    OBVIOUS
  <1>1. CASE UNCHANGED VerdictVars
    BY <1>1 DEF VerdictVars, VerdictInv, VerdictType, VerdictsWereAnswered
  <1>2. CASE InfoAnswered
    <2>1. UNCHANGED knows
      BY <1>2 DEF InfoAnswered, service
    <2>2. PICK v \in {"yes", "no"} :
            /\ v = IF knows[call.sha] = "pe" THEN "yes" ELSE "no"
            /\ cache' = [cache EXCEPT ![call.sha] = [verdict |-> v, age |-> 0]]
      BY <1>2 DEF InfoAnswered
    <2>3. answered' = [answered EXCEPT ![call.sha] = knows[call.sha]]
      BY <1>2 DEF InfoAnswered
    <2>4. [verdict |-> v, age |-> 0] \in [verdict : Verdicts, age : Nat]
      BY DEF Verdicts
    <2>5. call.sha \in Shas => knows[call.sha] \in Knowledge
      BY DEF VerdictInv, VerdictType
    <2>6. VerdictType'
      BY <2>1, <2>2, <2>3, <2>4, <2>5 DEF VerdictInv, VerdictType
    <2>7. VerdictsWereAnswered'
      <3> SUFFICES ASSUME NEW s \in Shas
                   PROVE  /\ cache'[s].verdict = "yes" => answered'[s] = "pe"
                          /\ cache'[s].verdict = "no" => \/ answered'[s] \in {"other", "unknown"}
                                                         \/ s \in misled'
        BY DEF VerdictsWereAnswered
      <3>1. CASE s = call.sha
        <4>1. cache'[s].verdict = v /\ answered'[s] = knows[s]
          BY <2>2, <2>3, <3>1 DEF VerdictInv, VerdictType
        <4> QED
          BY <2>2, <2>5, <3>1, <4>1 DEF Knowledge
      <3>2. CASE s # call.sha
        <4>1. misled' = misled \ {call.sha}
          BY <1>2 DEF InfoAnswered
        <4> QED
          BY <2>2, <2>3, <3>2, <4>1 DEF VerdictInv, VerdictType, VerdictsWereAnswered
      <3> QED
        BY <3>1, <3>2
    <2> QED
      BY <2>6, <2>7 DEF VerdictInv
  <1>3. CASE NewDay
    <2>1. /\ cache' = [s \in Shas |-> IF cache[s].age <= TtlDays THEN [cache[s] EXCEPT !.age = @ + 1] ELSE cache[s]]
          /\ UNCHANGED <<knows, answered, misled>>
      BY <1>3 DEF NewDay, service
    <2>2. \A s \in Shas : cache'[s] \in [verdict : Verdicts, age : Nat] /\ cache'[s].verdict = cache[s].verdict
      BY <2>1 DEF VerdictInv, VerdictType
    <2>3. cache' \in [Shas -> [verdict : Verdicts, age : Nat]]
      BY <2>1, <2>2
    <2>4. VerdictType'
      BY <2>1, <2>3 DEF VerdictInv, VerdictType
    <2>5. VerdictsWereAnswered'
      BY <2>1, <2>2 DEF VerdictInv, VerdictsWereAnswered
    <2> QED
      BY <2>4, <2>5 DEF VerdictInv
  <1>4. CASE Upload
    <2>1. UNCHANGED <<cache, answered, misled>> /\ \E s \in Shas : knows' = [knows EXCEPT ![s] = "pe"]
      BY <1>4 DEF Upload, tables, history
    <2> QED
      BY <2>1 DEF VerdictInv, VerdictType, VerdictsWereAnswered, Knowledge
  <1>5. CASE UNCHANGED vars
    BY <1>1, <1>5 DEF vars, clientVars, tables, service, history, VerdictVars
  <1>6. CASE ErrorInAnswer
    <2>1. UNCHANGED <<knows, answered>>
      BY <1>6 DEF ErrorInAnswer, service
    <2>2. CASE call.op = "info"
      <3>1. /\ cache' = [cache EXCEPT ![call.sha] = [verdict |-> "no", age |-> 0]]
            /\ misled' = misled \cup {call.sha}
        BY <1>6, <2>2 DEF ErrorInAnswer
      <3>2. [verdict |-> "no", age |-> 0] \in [verdict : Verdicts, age : Nat]
        BY DEF Verdicts
      <3>3. VerdictType'
        BY <2>1, <3>1, <3>2 DEF VerdictInv, VerdictType
      <3>4. \A s \in Shas : \/ s = call.sha /\ cache'[s].verdict = "no" /\ s \in misled'
                            \/ cache'[s] = cache[s] /\ (s \in misled => s \in misled')
        BY <3>1 DEF VerdictInv, VerdictType
      <3>5. VerdictsWereAnswered'
        BY <2>1, <3>4 DEF VerdictInv, VerdictsWereAnswered
      <3> QED
        BY <3>3, <3>5 DEF VerdictInv
    <2>3. CASE call.op # "info"
      BY <1>1, <1>6, <2>1, <2>3 DEF ErrorInAnswer, VerdictVars
    <2> QED
      BY <2>2, <2>3
  <1> QED
    BY <1>1, <1>2, <1>3, <1>4, <1>5, <1>6, VerdictSteps

\* The cache of verdicts says "program" of a hash only if MalwareBazaar said so, and "no program"
\* only if it said so, did not know the hash, or answered with an error inside a good answer.
THEOREM VerdictsAreAnswers == Spec => []VerdictsWereAnswered
  <1>1. VerdictInv => VerdictsWereAnswered
    BY DEF VerdictInv
  <1> QED
    BY <1>1, VerdictInit, VerdictNext, PTL DEF Spec
-----------------------------------------------------------------------------
Fields == {"op", "sha", "from", "attempt", "round", "depth", "result"}
FileOps == {"file", "again"}
ArchiveOps == {"unzip", "unzipAgain"}
QuotaType ==
  /\ used \in 0..DailyLimit /\ served \in Nat /\ spoiled \in Nat
  /\ DOMAIN call = Fields

\* A download under way began with quota left, and nothing else counts until it ends.
QuotaInv ==
  /\ QuotaType /\ QuotaAccounts
  /\ call.op \in FileOps \cup ArchiveOps => used < DailyLimit

\* A call that begins, goes on or ends without an archive.
Uncounted ==
  /\ UNCHANGED <<used, served, spoiled>>
  /\ \/ UNCHANGED call
     \/ /\ DOMAIN call' = Fields
        /\ {call.op, call'.op} \cap ArchiveOps = {}
        /\ call'.op \in FileOps => call.op \in FileOps \/ used < DailyLimit

LEMMA Calls ==
  ASSUME DOMAIN call = Fields
  PROVE  /\ DOMAIN NoCall = Fields /\ NoCall.op = "none"
         /\ \A r : Done(r) => DOMAIN call' = Fields /\ call'.op = "done"
         /\ \A s, p, d : Download(s, p, d) =>
              DOMAIN call' = Fields /\ (call'.op = "malshare" \/ (call'.op = "file" /\ used < DailyLimit))
         /\ \A r : Fails(r) => /\ DOMAIN call' = Fields /\ call'.op \in {"done", "malshare"} \cup FileOps
                               /\ call'.op \in FileOps => call.op = "file"
  <1>1. DOMAIN NoCall = Fields /\ NoCall.op = "none"
    BY DEF NoCall, Fields
  <1>2. \A r : Done(r) => DOMAIN call' = Fields /\ call'.op = "done"
    BY DEF Done, Fields
  <1>3. \A s, p, d : Download(s, p, d) =>
          DOMAIN call' = Fields /\ (call'.op = "malshare" \/ (call'.op = "file" /\ used < DailyLimit))
    <2> SUFFICES ASSUME NEW s, NEW p, NEW d, Download(s, p, d)
                 PROVE  DOMAIN call' = Fields /\ (call'.op = "malshare" \/ (call'.op = "file" /\ used < DailyLimit))
      OBVIOUS
    <2>1. DOMAIN call' = Fields
      BY <1>1 DEF Download
    <2>2. call'.op = IF QuotaLeft /\ Available(circuit) THEN "file" ELSE "malshare"
      BY <1>1 DEF Download, Fields
    <2> QED
      <3>1. CASE QuotaLeft /\ Available(circuit)
        BY <2>1, <2>2, <3>1 DEF QuotaLeft
      <3>2. CASE ~(QuotaLeft /\ Available(circuit))
        <4>1. call'.op = "malshare"
          BY <2>2, <3>2, Zenon
        <4> QED
          BY <2>1, <4>1
      <3> QED
        BY <3>1, <3>2
  <1>4. \A r : Fails(r) => /\ DOMAIN call' = Fields /\ call'.op \in {"done", "malshare"} \cup FileOps
                           /\ call'.op \in FileOps => call.op = "file"
    BY <1>2 DEF Fails, Fields, FileOps
  <1> QED
    BY <1>1, <1>2, <1>3, <1>4

LEMMA QuotaSteps ==
  ASSUME DOMAIN call = Fields, Next
  PROVE  Uncounted \/ FileAnswered \/ Unzip \/ UnzipFails \/ NewDay \/ Restart
  <1> USE Calls DEF Uncounted, FileOps, ArchiveOps, clientVars, tables, service, history, bounds, scanVars
  <1>1. CASE StartRound \/ Environment
    BY <1>1 DEF StartRound, Environment, World, TimePasses, Outage, Recovery, Upload
  <1>2. CASE Fetch
    BY <1>2 DEF Fetch, Idle
  <1>3. CASE Fetched
    BY <1>3 DEF Fetched
  <1>4. CASE StartProvider \/ ListIocs \/ TagRows \/ ThreatFoxRaises \/ MalShareRow \/ ThreatFoxTakes
               \/ TwitterStops \/ EndProvider
    BY <1>4 DEF StartProvider, ListIocs, TagRows, ThreatFoxRaises, MalShareRow, ThreatFoxTakes,
      TwitterStops, EndProvider
  <1>5. CASE ListResult \/ Judged
    BY <1>5 DEF ListResult, Judged
  <1>6. CASE SendList
    BY <1>6 DEF SendList, OnTask, List, Post, Fields
  <1>7. CASE Judge
    BY <1>7 DEF Judge, OnTask, IsPeHash, Post, Fields
  <1>8. CASE TryAgain
    BY <1>8 DEF TryAgain, Asking, Fields
  <1>9. CASE ServerError \/ TransportError \/ RateLimited \/ Refused \/ Garbled \/ ErrorInAnswer
    BY <1>9 DEF ServerError, TransportError, RateLimited, Refused, Garbled, ErrorInAnswer, LastAttempt, Asking
  <1>10. CASE ListAnswered \/ InfoAnswered \/ FileUnknown
    BY <1>10 DEF ListAnswered, InfoAnswered, FileUnknown, Answered
  <1>11. CASE MalShare
    BY <1>11 DEF MalShare, Fields
  <1>12. CASE AskProvider
    BY <1>12 DEF AskProvider, ProviderDownload, QuotaLeft, Fields
  <1> QED
    BY <1>1, <1>2, <1>3, <1>4, <1>5, <1>6, <1>7, <1>8, <1>9, <1>10, <1>11, <1>12
      DEF Next, Scan, Client, ClientStep

LEMMA QuotaNext == QuotaInv /\ [Next]_vars => QuotaInv'
  <1> SUFFICES ASSUME QuotaInv, [Next]_vars PROVE QuotaInv'
    OBVIOUS
  <1>0. DailyLimit \in Nat /\ DailyLimit > 0
    BY BazaarAssumption
  <1> USE DEF FileOps, ArchiveOps
  <1>1. CASE Uncounted
    BY <1>1 DEF Uncounted, QuotaInv, QuotaType, QuotaAccounts, InHand
  <1>2. CASE FileAnswered
    <2>1. /\ served' = served + 1 /\ UNCHANGED <<used, spoiled>>
          /\ call' = [call EXCEPT !.op = IF @ = "file" THEN "unzip" ELSE "unzipAgain"]
          /\ call.op \in {"file", "again"}
      BY <1>2 DEF FileAnswered, Answered, tables
    <2> QED
      BY <1>0, <2>1 DEF QuotaInv, QuotaType, QuotaAccounts, InHand, Fields
  <1>3. CASE Unzip
    <2>1. /\ used' = used + 1 /\ UNCHANGED <<served, spoiled>>
          /\ call.op \in ArchiveOps /\ call'.op = "done" /\ DOMAIN call' = Fields
      BY <1>3, Calls DEF Unzip, history, QuotaInv, QuotaType
    <2> QED
      BY <1>0, <2>1 DEF QuotaInv, QuotaType, QuotaAccounts, InHand
  <1>4. CASE UnzipFails
    <2>1. /\ spoiled' = spoiled + 1 /\ UNCHANGED <<served, used>>
          /\ call.op \in ArchiveOps /\ call'.op \in {"malshare", "done"} /\ DOMAIN call' = Fields
      BY <1>4 DEF UnzipFails, tables, QuotaInv, QuotaType, Fields
    <2> QED
      BY <1>0, <2>1 DEF QuotaInv, QuotaType, QuotaAccounts, InHand
  <1>5. CASE NewDay
    <2>1. used' = 0 /\ served' = 0 /\ spoiled' = 0 /\ UNCHANGED call
      BY <1>5 DEF NewDay
    <2> QED
      BY <1>0, <2>1 DEF QuotaInv, QuotaType, QuotaAccounts, InHand
  <1>6. CASE Restart
    <2>1. call' = NoCall /\ UNCHANGED <<used, served>>
      BY <1>6 DEF Restart, ClientRestart, tables
    <2>3. spoiled' = spoiled + InHand
      BY <1>6 DEF Restart, ClientRestart, QuotaInv, QuotaType, InHand
    <2>2. InHand' = 0 /\ call'.op = "none" /\ DOMAIN call' = Fields
      BY <2>1, Calls DEF InHand, QuotaInv, QuotaType
    <2>4. QuotaType'
      BY <1>0, <2>1, <2>2, <2>3 DEF QuotaInv, QuotaType, InHand
    <2>5. QuotaAccounts'
      BY <2>1, <2>2, <2>3 DEF QuotaInv, QuotaType, QuotaAccounts, InHand
    <2>6. call'.op \notin FileOps \cup ArchiveOps
      BY <2>2
    <2> QED
      BY <2>4, <2>5, <2>6 DEF QuotaInv
  <1>7. CASE UNCHANGED vars
    BY <1>1, <1>7 DEF Uncounted, vars, clientVars, tables, history
  <1> QED
    BY <1>1, <1>2, <1>3, <1>4, <1>5, <1>6, <1>7, QuotaSteps DEF QuotaInv, QuotaType

LEMMA QuotaInit == Init => QuotaInv
  BY BazaarAssumption DEF Init, BazaarInit, NoCall, QuotaInv, QuotaType, QuotaAccounts, InHand, Fields,
    FileOps, ArchiveOps

\* The day's row of mb_api_usage accounts for every archive MalwareBazaar sent, but for those that
\* could not be unpacked and those a restart lost.
THEOREM QuotaIsAccounted == Spec => []QuotaAccounts
  <1>1. QuotaInv => QuotaAccounts
    BY DEF QuotaInv
  <1> QED
    BY <1>1, QuotaInit, QuotaNext, PTL DEF Spec
-----------------------------------------------------------------------------
(***************************************************************************)
(* A failed call counts one or two failures, so a circuit that opens by    *)
(* counting needs two failed calls as soon as the threshold is more than   *)
(* two (it is 3).                                                          *)
(***************************************************************************)
CircuitInv ==
  /\ DOMAIN call = Fields
  /\ circuit \in [failures : 0..Threshold, openFor : Nat] /\ failedCalls \in 0..Threshold
  /\ Asking => circuit.openFor = 0
  /\ circuit.failures <= 2 * failedCalls
  /\ OneFailureIsForgiven

LEMMA CircuitInit == Init => CircuitInv
  BY BazaarAssumption DEF Init, BazaarInit, Closed, NoCall, Asking, CircuitInv, OneFailureIsForgiven, Fields

\* One failed call of a closed circuit, by status or by transport.
LEMMA CallIsCounted ==
  ASSUME Threshold \in Nat, Threshold > 2, OpenTicks \in Nat, NEW n \in 0..Threshold,
         circuit = [failures |-> n, openFor |-> 0], failedCalls \in 0..Threshold, n <= 2 * failedCalls,
         CountFailedCall, circuit' \in {RecordFailure(circuit), StatusFailure(circuit)}
  PROVE  /\ circuit' \in [failures : 0..Threshold, openFor : Nat] /\ failedCalls' \in 0..Threshold
         /\ circuit'.failures <= 2 * failedCalls' /\ OneFailureIsForgiven'
  <1> DEFINE up(k) == IF k < Threshold THEN k + 1 ELSE Threshold
  <1>1. failedCalls' = up(failedCalls)
    BY DEF CountFailedCall
  <1>2. \E k \in {up(n), up(up(n))} : circuit' = [failures |-> k, openFor |-> IF k = Threshold THEN OpenTicks ELSE 0]
    <2>1. RecordFailure(circuit) = [failures |-> up(n), openFor |-> IF up(n) = Threshold THEN OpenTicks ELSE 0]
      BY DEF RecordFailure
    <2>2. CASE circuit' = RecordFailure(circuit)
      BY <2>1, <2>2
    <2>3. CASE circuit' = StatusFailure(circuit) /\ circuit' # RecordFailure(circuit)
      <3>1. circuit' = RecordFailure(RecordFailure(circuit)) /\ RecordFailure(circuit).openFor = 0
        BY <2>3 DEF StatusFailure, Available
      <3>2. RecordFailure(circuit) = [failures |-> up(n), openFor |-> 0]
        BY <2>1, <3>1
      <3>3. circuit' = RecordFailure([failures |-> up(n), openFor |-> 0])
        BY <3>1, <3>2
      <3>4. circuit' = [failures |-> up(up(n)), openFor |-> IF up(up(n)) = Threshold THEN OpenTicks ELSE 0]
        BY <3>3 DEF RecordFailure
      <3> QED
        BY <3>4
    <2> QED
      BY <2>2, <2>3
  <1>3. PICK k \in {up(n), up(up(n))} :
          circuit' = [failures |-> k, openFor |-> IF k = Threshold THEN OpenTicks ELSE 0]
    BY <1>2
  <1>4. k \in 0..Threshold /\ k <= n + 2
    OBVIOUS
  <1>5. circuit'.failures = k /\ circuit'.openFor = IF k = Threshold THEN OpenTicks ELSE 0
    BY <1>3
  <1>6. circuit' \in [failures : 0..Threshold, openFor : Nat]
    BY <1>3, <1>4
  <1>7. k <= 2 * failedCalls' /\ failedCalls' \in 0..Threshold
    BY <1>1, <1>4
  <1>8. k = Threshold => failedCalls' > 1
    BY <1>1, <1>4
  <1>9. circuit'.openFor \in Nat /\ (circuit'.openFor > 0 => k = Threshold)
    BY <1>5
  <1>10. OneFailureIsForgiven'
    BY <1>8, <1>9 DEF OneFailureIsForgiven
  <1> QED
    BY <1>4, <1>5, <1>6, <1>7, <1>9, <1>10

\* What a step makes of the circuit: it leaves it alone, clears or counts, opens it, or forgets.
Kept == UNCHANGED <<circuit, failedCalls>> /\ DOMAIN call' = Fields /\ (Asking' => circuit.openFor = 0)
Cleared == /\ circuit' = RecordSuccess(circuit) /\ failedCalls' = 0
           /\ DOMAIN call' = Fields /\ (Asking' => circuit.openFor = 0)
CountedOnce == /\ circuit.openFor = 0 /\ circuit' \in {RecordFailure(circuit), StatusFailure(circuit)} /\ CountFailedCall
               /\ DOMAIN call' = Fields /\ (Asking' => circuit'.openFor = 0)
Opened == circuit' = OpenForRateLimit(circuit) /\ failedCalls' = 0 /\ DOMAIN call' = Fields /\ ~Asking'
Forgotten == circuit' = Closed /\ failedCalls' = 0 /\ call' = NoCall

LEMMA FailedCalls ==
  ASSUME DOMAIN call = Fields
  PROVE  \A r : Fails(r) => (r # "status" => ~Asking')
  BY Calls DEF Fails, Done, Asking, Fields

LEMMA CircuitSteps ==
  ASSUME CircuitInv, Next
  PROVE  Kept \/ Cleared \/ CountedOnce \/ Opened \/ Forgotten \/ TimePasses
  <1>0. DOMAIN call = Fields /\ (Asking => circuit.openFor = 0)
    BY DEF CircuitInv
  <1> USE <1>0, Calls DEF clientVars, tables, service, history, bounds, scanVars
  <1>1. CASE StartRound \/ Environment
    BY <1>1 DEF StartRound, Environment, World, NewDay, Outage, Recovery, Upload, Asking, Kept
  <1>2. CASE Fetch
    BY <1>2 DEF Fetch, Download, Idle, Available, NoCall, Fields, Asking, Kept
  <1>3. CASE Fetched \/ ListResult \/ Judged
    BY <1>3 DEF Fetched, ListResult, Judged, Asking, Kept
  <1>4. CASE StartProvider \/ ListIocs \/ TagRows \/ ThreatFoxRaises \/ MalShareRow \/ ThreatFoxTakes
               \/ TwitterStops \/ EndProvider
    BY <1>4 DEF StartProvider, ListIocs, TagRows, ThreatFoxRaises, MalShareRow, ThreatFoxTakes,
      TwitterStops, EndProvider, Asking, Kept
  <1>5. CASE SendList
    BY <1>5 DEF SendList, OnTask, List, Post, Available, Fields, Asking, Kept
  <1>6. CASE Judge
    BY <1>6 DEF Judge, OnTask, IsPeHash, Post, Available, Fields, Asking, Kept
  <1>7. CASE TryAgain
    BY <1>7 DEF TryAgain, Asking, Fields, Kept
  <1>8. CASE ServerError
    BY <1>8, FailedCalls DEF ServerError, LastAttempt, Available, CountedOnce
  <1>9. CASE TransportError
    BY <1>9, FailedCalls DEF TransportError, LastAttempt, Available, CountedOnce
  <1>10. CASE RateLimited
    BY <1>10, FailedCalls DEF RateLimited, Opened
  <1>11. CASE Refused \/ Garbled
    BY <1>11, FailedCalls DEF Refused, Garbled, Kept, Cleared
  <1>18. CASE ErrorInAnswer
    BY <1>18, FailedCalls DEF ErrorInAnswer, Asking, Cleared
  <1>12. CASE ListAnswered \/ InfoAnswered \/ FileUnknown
    BY <1>12, FailedCalls DEF ListAnswered, InfoAnswered, FileUnknown, Answered, Asking, Cleared
  <1>13. CASE FileAnswered
    BY <1>13 DEF FileAnswered, Answered, Asking, Fields, Cleared
  <1>14. CASE Unzip \/ UnzipFails
    BY <1>14 DEF Unzip, UnzipFails, Asking, Fields, Kept
  <1>15. CASE MalShare
    BY <1>15 DEF MalShare, Asking, Fields, Kept
  <1>16. CASE AskProvider
    BY <1>16 DEF AskProvider, ProviderDownload, Download, NoCall, Available, Asking, Fields, Kept
  <1>17. CASE Restart
    BY <1>17 DEF Restart, ClientRestart, Forgotten
  <1> QED
    BY <1>1, <1>2, <1>3, <1>4, <1>5, <1>6, <1>7, <1>8, <1>9, <1>10, <1>11, <1>12, <1>13, <1>14, <1>15,
      <1>16, <1>17, <1>18 DEF Next, Scan, Client, ClientStep

LEMMA CircuitNext == Threshold > 2 => (CircuitInv /\ [Next]_vars => CircuitInv')
  <1> SUFFICES ASSUME Threshold > 2, CircuitInv, [Next]_vars PROVE CircuitInv'
    OBVIOUS
  <1>0. Threshold \in Nat /\ OpenTicks \in Nat /\ OpenTicks429 \in Nat
    BY BazaarAssumption
  <1>1. circuit.openFor = 0 => circuit = [failures |-> circuit.failures, openFor |-> 0]
    BY DEF CircuitInv
  <1>2. CASE Kept
    <2>1. circuit' = circuit /\ failedCalls' = failedCalls /\ DOMAIN call' = Fields
      BY <1>2 DEF Kept
    <2>2. Asking' => circuit'.openFor = 0
      BY <1>2, <2>1 DEF Kept
    <2> QED
      BY <2>1, <2>2 DEF CircuitInv, OneFailureIsForgiven
  <1>3. CASE Cleared
    <2>1. circuit' = [circuit EXCEPT !.failures = 0] /\ failedCalls' = 0 /\ DOMAIN call' = Fields
      BY <1>3 DEF Cleared, RecordSuccess
    <2>2. Asking' => circuit.openFor = 0
      BY <1>3 DEF Cleared
    <2>3. circuit'.failures = 0 /\ circuit'.openFor = circuit.openFor /\ circuit' \in [failures : 0..Threshold, openFor : Nat]
      BY <1>0, <2>1 DEF CircuitInv
    <2> QED
      BY <1>0, <2>1, <2>2, <2>3 DEF CircuitInv, OneFailureIsForgiven
  <1>4. CASE CountedOnce
    <2>1. circuit = [failures |-> circuit.failures, openFor |-> 0]
      BY <1>1, <1>4 DEF CountedOnce
    <2>2. CountFailedCall /\ circuit' \in {RecordFailure(circuit), StatusFailure(circuit)}
      BY <1>4 DEF CountedOnce
    <2>3. /\ circuit' \in [failures : 0..Threshold, openFor : Nat] /\ failedCalls' \in 0..Threshold
          /\ circuit'.failures <= 2 * failedCalls' /\ OneFailureIsForgiven'
      BY <1>0, <2>1, <2>2, CallIsCounted DEF CircuitInv
    <2>4. DOMAIN call' = Fields /\ (Asking' => circuit'.openFor = 0)
      BY <1>4 DEF CountedOnce
    <2> QED
      BY <2>3, <2>4 DEF CircuitInv
  <1>5. CASE Opened
    <2>1. circuit' = [failures |-> 0, openFor |-> OpenTicks429] /\ failedCalls' = 0
      BY <1>5 DEF Opened, OpenForRateLimit
    <2>2. DOMAIN call' = Fields /\ ~Asking'
      BY <1>5 DEF Opened
    <2> QED
      BY <1>0, <2>1, <2>2 DEF CircuitInv, OneFailureIsForgiven
  <1>6. CASE Forgotten
    <2>1. circuit' = [failures |-> 0, openFor |-> 0] /\ failedCalls' = 0 /\ call' = NoCall
      BY <1>6 DEF Forgotten, Closed
    <2>2. DOMAIN call' = Fields
      BY <2>1 DEF NoCall, Fields
    <2> QED
      BY <1>0, <2>1, <2>2 DEF CircuitInv, OneFailureIsForgiven
  <1>7. CASE TimePasses
    <2>1. circuit' = [circuit EXCEPT !.openFor = @ - 1] /\ circuit.openFor \in Nat /\ circuit.openFor > 0
      BY <1>7 DEF TimePasses, Elapsed, Available, CircuitInv
    <2>2. call' = call /\ failedCalls' = failedCalls /\ ~Asking'
      BY <1>7 DEF TimePasses, history, Asking
    <2>3. /\ circuit'.failures = circuit.failures /\ circuit'.openFor = circuit.openFor - 1
          /\ circuit' \in [failures : 0..Threshold, openFor : Nat]
      BY <2>1 DEF CircuitInv
    <2> QED
      BY <2>1, <2>2, <2>3 DEF CircuitInv, OneFailureIsForgiven
  <1>8. CASE UNCHANGED vars
    BY <1>8 DEF vars, clientVars, history, CircuitInv, OneFailureIsForgiven, Asking
  <1> QED
    BY <1>2, <1>3, <1>4, <1>5, <1>6, <1>7, <1>8, CircuitSteps

\* With the threshold of three that the code uses, one failed call never opens the circuit: only a
\* rate limit does at once.
THEOREM OneFailureForgiven == Threshold > 2 => (Spec => []OneFailureIsForgiven)
  <1> SUFFICES ASSUME Threshold > 2 PROVE Spec => []OneFailureIsForgiven
    OBVIOUS
  <1>1. CircuitInv => OneFailureIsForgiven
    BY DEF CircuitInv
  <1>2. CircuitInv /\ [Next]_vars => CircuitInv'
    BY CircuitNext
  <1> QED
    BY <1>1, <1>2, CircuitInit, PTL DEF Spec
-----------------------------------------------------------------------------
(***************************************************************************)
(* Calls by what they are about.  A call about a hash keeps it until it is *)
(* done; a call that ends in a yes ends in what MalwareBazaar said.        *)
(***************************************************************************)
HashOps == {"info", "file", "again", "unzip", "unzipAgain", "malshare", "provider"}
Results == {"none", "rows", "yes", "no", "bytes", "status", "error", "unavailable"}
Failures == {"status", "error", "unavailable"}
CallRecords ==
  [op : Ops, sha : Shas \cup {NoSha}, from : Providers \cup {"none"}, attempt : 1..Attempts,
   round : 1..Retries, depth : 0..MaxDepth, result : Results]
GoodCalls ==
  {c \in CallRecords : (c.op \in HashOps \/ c.result \in {"yes", "bytes"}) => c.sha \in Shas}

AnswersStayYes == \A s \in Shas : answered[s] = "pe" => knows[s] = "pe"

LEMMA AnswersStay ==
  ASSUME VerdictInv, AnswersStayYes, [Next]_vars
  PROVE  AnswersStayYes' /\ \A s \in Shas : answered[s] = "pe" => answered'[s] = "pe"
  <1>1. CASE UNCHANGED VerdictVars
    BY <1>1 DEF VerdictVars, AnswersStayYes
  <1>2. CASE InfoAnswered
    <2>1. knows' = knows /\ answered' = [answered EXCEPT ![call.sha] = knows[call.sha]]
      BY <1>2 DEF InfoAnswered, service
    <2> QED
      BY <2>1 DEF AnswersStayYes, VerdictInv, VerdictType
  <1>3. CASE NewDay
    BY <1>3 DEF NewDay, service, AnswersStayYes
  <1>4. CASE Upload
    <2>1. answered' = answered /\ \E s \in Shas : knows' = [knows EXCEPT ![s] = "pe"]
      BY <1>4 DEF Upload, history
    <2> QED
      BY <2>1 DEF AnswersStayYes, VerdictInv, VerdictType
  <1>5. CASE UNCHANGED vars
    BY <1>1, <1>5 DEF vars, clientVars, tables, service, history, VerdictVars
  <1>6. CASE ErrorInAnswer
    BY <1>6 DEF ErrorInAnswer, service, AnswersStayYes
  <1> QED
    BY <1>1, <1>2, <1>3, <1>4, <1>5, <1>6, VerdictSteps

LEMMA CallFacts ==
  /\ NoCall \in GoodCalls /\ NoCall.op = "none" /\ NoCall.result = "none" /\ NoCall.sha = NoSha
  /\ \A c \in GoodCalls :
       /\ c.op \in Ops /\ c.sha \in Shas \cup {NoSha} /\ c.from \in Providers \cup {"none"}
       /\ c.attempt \in 1..Attempts /\ c.round \in 1..Retries /\ c.depth \in 0..MaxDepth
       /\ c.result \in Results /\ DOMAIN c = Fields
       /\ c.op \in HashOps \/ c.result \in {"yes", "bytes"} => c.sha \in Shas
  BY BazaarAssumption DEF NoCall, GoodCalls, CallRecords, Retries, Ops, Results, Fields, HashOps

\* How a call changes: one field or two at a time.
LEMMA CallMoves ==
  ASSUME NEW c \in GoodCalls, NEW o \in Ops, o \in HashOps => c.sha \in Shas
  PROVE  /\ [c EXCEPT !.op = o] \in GoodCalls /\ [c EXCEPT !.op = o].sha = c.sha
         /\ [c EXCEPT !.op = o].op = o /\ [c EXCEPT !.op = o].result = c.result
  BY DEF GoodCalls, CallRecords

LEMMA CallIsDone ==
  ASSUME NEW c \in GoodCalls, NEW r \in Results, r \in {"yes", "bytes"} => c.sha \in Shas
  PROVE  /\ [c EXCEPT !.op = "done", !.result = r] \in GoodCalls
         /\ [c EXCEPT !.op = "done", !.result = r].sha = c.sha
         /\ [c EXCEPT !.op = "done", !.result = r].op = "done"
         /\ [c EXCEPT !.op = "done", !.result = r].result = r
  BY DEF GoodCalls, CallRecords, HashOps, Ops

LEMMA CallIsRetried ==
  ASSUME NEW c \in GoodCalls, NEW a \in 1..Attempts, NEW n \in 1..Retries
  PROVE  /\ [c EXCEPT !.attempt = a, !.round = n] \in GoodCalls
         /\ [c EXCEPT !.attempt = a, !.round = n].sha = c.sha
         /\ [c EXCEPT !.attempt = a, !.round = n].op = c.op
         /\ [c EXCEPT !.attempt = a, !.round = n].result = c.result
  BY DEF GoodCalls, CallRecords

\* What a step does to the call: a hash call keeps its hash until it is done, and a yes is the
\* service's word.
Goes ==
  /\ call' \in GoodCalls
  /\ call.op # "none" => call'.op = "none" \/ call'.sha = call.sha
  /\ call'.result = "yes" => answered'[call'.sha] = "pe"

Vouched == call.result = "yes" => answered[call.sha] = "pe"

LEMMA CallsGo ==
  ASSUME call \in GoodCalls, Vouched, \A s \in Shas : answered[s] = "pe" => answered'[s] = "pe"
  PROVE  /\ call' = call => Goes
         /\ call' = NoCall => Goes
         /\ \A r \in Results \ {"yes"} : (r = "bytes" => call.sha \in Shas) /\ Done(r) => Goes
         /\ \A o \in Ops : (o \in HashOps => call.sha \in Shas) /\ call' = [call EXCEPT !.op = o] => Goes
         /\ \A r \in Failures : Fails(r) => Goes
  <1>0. call.result = "yes" => call.sha \in Shas /\ answered'[call.sha] = "pe"
    BY CallFacts DEF Vouched
  <1>1. call' = call => Goes
    BY <1>0 DEF Goes
  <1>2. call' = NoCall => Goes
    BY CallFacts DEF Goes
  <1>3. ASSUME NEW r \in Results \ {"yes"}, r = "bytes" => call.sha \in Shas, Done(r) PROVE Goes
    <2>1. call' = [call EXCEPT !.op = "done", !.result = r]
      BY <1>3 DEF Done
    <2>2. call' \in GoodCalls /\ call'.sha = call.sha /\ call'.result = r
      BY <1>3, <2>1, CallIsDone
    <2> QED
      BY <2>2 DEF Goes
  <1>4. ASSUME NEW o \in Ops, o \in HashOps => call.sha \in Shas, call' = [call EXCEPT !.op = o] PROVE Goes
    <2>1. call' \in GoodCalls /\ call'.sha = call.sha /\ call'.result = call.result
      BY <1>4, CallMoves
    <2> QED
      BY <1>0, <2>1 DEF Goes
  <1>5. ASSUME NEW r \in Failures, Fails(r) PROVE Goes
    <2>1. CASE Done(r)
      BY <1>3, <2>1 DEF Failures, Results
    <2>2. CASE call.op = "file" /\ call.round < Retries /\ call' = [call EXCEPT !.attempt = 1, !.round = @ + 1]
      <3>1. 1 \in 1..Attempts /\ call.round + 1 \in 1..Retries
        BY <2>2, CallFacts, BazaarAssumption DEF Retries
      <3>2. call' = [call EXCEPT !.attempt = 1, !.round = call.round + 1]
        BY <2>2
      <3>3. call' \in GoodCalls /\ call'.sha = call.sha /\ call'.result = call.result
        BY <3>1, <3>2, CallIsRetried
      <3> QED
        BY <1>0, <3>3 DEF Goes
    <2>3. CASE call.op = "file" /\ call' = [call EXCEPT !.op = "malshare"]
      <3>1. call.sha \in Shas /\ "malshare" \in Ops
        BY <2>3, CallFacts DEF HashOps, Ops
      <3> QED
        BY <1>4, <2>3, <3>1
    <2> QED
      BY <1>5, <2>1, <2>2, <2>3 DEF Fails
  <1> QED
    BY <1>1, <1>2, <1>3, <1>4, <1>5
-----------------------------------------------------------------------------
(***************************************************************************)
(* The work of the provider whose turn it is: MalwareBazaar has queries of *)
(* its own only, the others have hashes to judge and, ThreatFox, queries.  *)
(***************************************************************************)
TasksOf(p) ==
  IF p = "malwarebazaar" THEN [stage : LoopNames, sha : {NoSha}]
  ELSE [stage : {"iocs", "tag"}, sha : {NoSha}] \cup [stage : {"hash"}, sha : Shas]

ScanType ==
  /\ round \in Seq(Providers) /\ at \in Providers \cup {"none"}
  /\ todo \in Seq(TasksOf(at)) /\ (at = "none" => todo = <<>>)
  /\ kept \in SUBSET Shas /\ stored \in SUBSET Shas
  /\ offered \in [Shas -> Providers \cup {"none"}]

\* The call of a hash under judgement is about that hash.
CallIsForTask == at # "none" /\ call.op # "none" /\ Head1.stage = "hash" => call.sha = Head1.sha

ProviderInv ==
  /\ VerdictInv /\ AnswersStayYes /\ QuotaInv
  /\ call \in GoodCalls /\ Vouched
  /\ ScanType /\ CallIsForTask /\ KeptIsVouchedFor

LEMMA Tasks ==
  ASSUME ScanType, todo # <<>>
  PROVE  /\ Head1 \in TasksOf(at) /\ Tail(todo) \in Seq(TasksOf(at))
         /\ Head1.stage = "hash" => Head1.sha \in Shas
         /\ Head1.stage \in LoopNames => at = "malwarebazaar"
         /\ at # "none"
  <1>1. Head1 \in TasksOf(at) /\ Tail(todo) \in Seq(TasksOf(at)) /\ at # "none"
    BY HeadTailProperties DEF ScanType, Head1
  <1>2. \A t \in TasksOf(at) : (t.stage = "hash" => t.sha \in Shas)
                               /\ (t.stage \in LoopNames => at = "malwarebazaar")
    BY DEF TasksOf, LoopNames
  <1> QED
    BY <1>1, <1>2

LEMMA JudgeAsks ==
  ASSUME ProviderInv, Judge
  PROVE  Goes /\ call'.sha = Head1.sha
  <1>1. PICK s \in Shas : s = Head1.sha
    BY Tasks DEF ProviderInv, Judge, OnTask
  <1>2. call.op = "none" /\ IsPeHash(s) /\ answered' = answered
    BY <1>1 DEF Judge, OnTask, IsPeHash, history
  <1>3. cache[s].verdict \in Verdicts /\ (cache[s].verdict = "yes" => answered[s] = "pe")
    BY DEF ProviderInv, VerdictInv, VerdictType, VerdictsWereAnswered
  <1>4. Verdict(s) \in Verdicts /\ (Verdict(s) = "yes" => answered[s] = "pe")
    BY <1>3 DEF Verdict, Verdicts
  <1>5. PICK fresh : fresh = [NoCall EXCEPT !.sha = s]
    OBVIOUS
  <1>6. fresh \in GoodCalls /\ fresh.sha = s /\ fresh.op = "none" /\ fresh.result = "none"
    BY <1>5, BazaarAssumption DEF NoCall, GoodCalls, CallRecords, Retries, Ops, Results, HashOps
  <1>7. \/ \E r \in {"yes", "no", "unavailable"} :
             call' = [fresh EXCEPT !.op = "done", !.result = r] /\ (r = "yes" => answered[s] = "pe")
        \/ call' = [fresh EXCEPT !.op = "info"]
    <2>1. CASE Verdict(s) # "none"
      <3>1. call' = [NoCall EXCEPT !.op = "done", !.sha = s, !.result = Verdict(s)]
        BY <1>2, <2>1 DEF IsPeHash
      <3>2. call' = [fresh EXCEPT !.op = "done", !.result = Verdict(s)]
        BY <1>5, <3>1 DEF NoCall
      <3> QED
        BY <1>4, <2>1, <3>2 DEF Verdicts
    <2>2. CASE Verdict(s) = "none"
      <3>1. \/ call' = [NoCall EXCEPT !.op = "done", !.sha = s, !.result = "unavailable"]
            \/ Post([NoCall EXCEPT !.op = "info", !.sha = s])
        BY <1>2, <2>2 DEF IsPeHash
      <3>2. [NoCall EXCEPT !.op = "done", !.sha = s, !.result = "unavailable"]
              = [fresh EXCEPT !.op = "done", !.result = "unavailable"]
        BY <1>5 DEF NoCall
      <3>3. [NoCall EXCEPT !.op = "info", !.sha = s] = [fresh EXCEPT !.op = "info"]
        BY <1>5 DEF NoCall
      <3>4. [[NoCall EXCEPT !.op = "info", !.sha = s] EXCEPT !.op = "done", !.result = "unavailable"]
              = [fresh EXCEPT !.op = "done", !.result = "unavailable"]
        BY <1>5 DEF NoCall
      <3> QED
        BY <3>1, <3>2, <3>3, <3>4 DEF Post
    <2> QED
      BY <2>1, <2>2
  <1>8. ASSUME NEW r \in {"yes", "no", "unavailable"}, r = "yes" => answered[s] = "pe",
               call' = [fresh EXCEPT !.op = "done", !.result = r]
        PROVE  Goes /\ call'.sha = s
    <2>1. call' \in GoodCalls /\ call'.sha = s /\ call'.result = r
      <3>1. r \in Results /\ fresh.sha \in Shas
        BY <1>6 DEF Results
      <3> QED
        BY <1>6, <1>8, <3>1, CallIsDone
    <2> QED
      BY <1>2, <1>8, <2>1 DEF Goes
  <1>9. ASSUME call' = [fresh EXCEPT !.op = "info"] PROVE Goes /\ call'.sha = s
    <2>1. call' \in GoodCalls /\ call'.sha = s /\ call'.result = "none"
      BY <1>6, <1>9, CallMoves DEF Ops
    <2> QED
      BY <1>2, <2>1 DEF Goes
  <1> QED
    BY <1>1, <1>7, <1>8, <1>9

LEMMA ListAsks ==
  ASSUME ProviderInv, SendList
  PROVE  Goes
  <1>1. call.op = "none" /\ Post([NoCall EXCEPT !.op = "list"])
    BY DEF SendList, OnTask, List
  <1>2. PICK asked : asked = [NoCall EXCEPT !.op = "list"]
    OBVIOUS
  <1>3. asked \in GoodCalls /\ asked.result = "none"
    BY <1>2, CallFacts, CallMoves DEF Ops, HashOps
  <1>4. call' = asked \/ call' = [asked EXCEPT !.op = "done", !.result = "unavailable"]
    BY <1>1, <1>2 DEF Post
  <1>5. call' \in GoodCalls /\ call'.result \in {"none", "unavailable"}
    <2>1. "unavailable" \in Results /\ "unavailable" \notin {"yes", "bytes"}
      BY DEF Results
    <2>2. PICK r : r = "unavailable"
      OBVIOUS
    <2>3. r \in Results /\ (r \in {"yes", "bytes"} => asked.sha \in Shas)
      BY <2>1, <2>2
    <2>4. [asked EXCEPT !.op = "done", !.result = r] \in GoodCalls
          /\ [asked EXCEPT !.op = "done", !.result = r].result = r
      BY <1>3, <2>3, CallIsDone
    <2> QED
      BY <1>3, <1>4, <2>2, <2>4
  <1> QED
    BY <1>1, <1>5 DEF Goes

LEMMA DownloadGoes ==
  ASSUME NEW s \in Shas, NEW p \in Providers \cup {"none"}, NEW d \in 0..MaxDepth, Download(s, p, d)
  PROVE  call' \in GoodCalls /\ call'.sha = s /\ call'.result = "none"
  <1>1. PICK o \in {"file", "malshare"} :
          call' = [NoCall EXCEPT !.op = o, !.sha = s, !.from = p, !.depth = d]
    <2>1. call' = [NoCall EXCEPT !.op = IF QuotaLeft /\ Available(circuit) THEN "file" ELSE "malshare",
                                 !.sha = s, !.from = p, !.depth = d]
      BY DEF Download
    <2> QED
      BY <2>1
  <1>2. call' = [op |-> o, sha |-> s, from |-> p, attempt |-> 1, round |-> 1, depth |-> d, result |-> "none"]
    BY <1>1 DEF NoCall
  <1>3. /\ o \in Ops /\ 1 \in 1..Attempts /\ 1 \in 1..Retries /\ "none" \in Results
    BY BazaarAssumption DEF Retries, Ops, Results
  <1>4. call' \in CallRecords
    BY <1>2, <1>3 DEF CallRecords
  <1> QED
    BY <1>2, <1>4 DEF GoodCalls

LEMMA ProviderAsks ==
  ASSUME call \in GoodCalls, Vouched, \A s \in Shas : answered[s] = "pe" => answered'[s] = "pe", AskProvider
  PROVE  Goes
  <1>1. call.op = "provider" /\ call.sha \in Shas /\ answered' = answered
    BY CallFacts DEF AskProvider, HashOps, history
  <1>2. CASE call' = [call EXCEPT !.op = "again", !.attempt = 1]
    <2>1. 1 \in 1..Attempts /\ "again" \in Ops
      BY BazaarAssumption DEF Ops
    <2>2. call' \in GoodCalls /\ call'.sha = call.sha /\ call'.result = call.result
      BY <1>1, <1>2, <2>1 DEF GoodCalls, CallRecords
    <2> QED
      BY <1>1, <2>2 DEF Goes, Vouched
  <1>3. CASE call.depth < MaxDepth /\ Download(call.sha, call.from, call.depth + 1)
    <2>1. call.depth + 1 \in 0..MaxDepth /\ call.from \in Providers \cup {"none"}
      BY <1>3, CallFacts, BazaarAssumption
    <2>2. call' \in GoodCalls /\ call'.sha = call.sha /\ call'.result = "none"
      BY <1>1, <1>3, <2>1, DownloadGoes
    <2> QED
      BY <2>2 DEF Goes
  <1>4. CASE Done("error")
    BY <1>4, CallsGo DEF Results
  <1> QED
    BY <1>2, <1>3, <1>4 DEF AskProvider, ProviderDownload

LEMMA GoesNext ==
  ASSUME ProviderInv, [Next]_vars
  PROVE  Goes
  <1>0. /\ call \in GoodCalls /\ Vouched /\ \A s \in Shas : answered[s] = "pe" => answered'[s] = "pe"
        /\ call.op \in HashOps => call.sha \in Shas
    BY AnswersStay, CallFacts DEF ProviderInv
  <1>same. call' = call => Goes
    BY <1>0, CallsGo
  <1>no. call' = NoCall => Goes
    BY <1>0, CallsGo
  <1>fails. \A r \in Failures : Fails(r) => Goes
    BY <1>0, CallsGo
  <1>done. \A r \in Results \ {"yes"} : (r = "bytes" => call.sha \in Shas) /\ Done(r) => Goes
    BY <1>0, CallsGo
  <1>moves. \A o \in Ops : (o \in HashOps => call.sha \in Shas) /\ call' = [call EXCEPT !.op = o] => Goes
    BY <1>0, CallsGo
  <1>1. CASE StartRound \/ Environment
    BY <1>1, <1>same DEF StartRound, Environment, World, TimePasses, NewDay, Outage, Recovery, Upload
  <1>2. CASE StartProvider \/ ListIocs \/ TagRows \/ ThreatFoxRaises \/ MalShareRow \/ ThreatFoxTakes
               \/ TwitterStops \/ EndProvider
    BY <1>2, <1>same DEF StartProvider, ListIocs, TagRows, ThreatFoxRaises, MalShareRow, ThreatFoxTakes,
      TwitterStops, EndProvider, clientVars
  <1>3. CASE ListResult \/ Judged \/ Fetched \/ Restart
    BY <1>3, <1>no DEF ListResult, Judged, Fetched, Restart, ClientRestart
  <1>4. CASE Fetch
    <2>1. PICK s \in Shas : offered[s] # "none" /\ Download(s, offered[s], 0)
      BY <1>4 DEF Fetch
    <2>2. offered[s] \in Providers \cup {"none"} /\ 0 \in 0..MaxDepth
      BY BazaarAssumption DEF ProviderInv, ScanType
    <2>3. call' \in GoodCalls /\ call'.result = "none" /\ call.op = "none"
      BY <1>4, <2>1, <2>2, DownloadGoes DEF Fetch, Idle
    <2> QED
      BY <2>3 DEF Goes
  <1>5. CASE TryAgain
    <2>1. call.attempt + 1 \in 1..Attempts /\ call.round \in 1..Retries
      BY <1>0, <1>5, CallFacts, BazaarAssumption DEF TryAgain
    <2>2. call' = [call EXCEPT !.attempt = call.attempt + 1, !.round = call.round]
      <3>1. call' = [call EXCEPT !.attempt = call.attempt + 1]
        BY <1>5 DEF TryAgain
      <3> QED
        BY <1>0, <3>1 DEF GoodCalls, CallRecords
    <2>3. call' \in GoodCalls /\ call'.sha = call.sha /\ call'.result = call.result
      BY <1>0, <2>1, <2>2, CallIsRetried
    <2>4. call.result = "yes" => call.sha \in Shas
      BY <1>0, CallFacts
    <2> QED
      BY <1>0, <2>3, <2>4 DEF Goes, Vouched
  <1>6. CASE ServerError \/ TransportError \/ RateLimited \/ Refused \/ Garbled \/ FileUnknown
    BY <1>6, <1>fails DEF ServerError, TransportError, RateLimited, Refused, Garbled, FileUnknown, Failures
  <1>7. CASE ListAnswered
    BY <1>7, <1>done DEF ListAnswered, Results
  <1>8. CASE InfoAnswered
    <2>1. call.sha \in Shas
      BY <1>0, <1>8 DEF InfoAnswered, Answered, HashOps
    <2>2. PICK v \in {"yes", "no"} :
            (v = IF knows[call.sha] = "pe" THEN "yes" ELSE "no") /\ Done(v)
      BY <1>8 DEF InfoAnswered
    <2>3. answered' = [answered EXCEPT ![call.sha] = knows[call.sha]]
      BY <1>8 DEF InfoAnswered
    <2>4. answered'[call.sha] = knows[call.sha]
      BY <2>1, <2>3 DEF ProviderInv, VerdictInv, VerdictType
    <2>5. v \in Results /\ call' = [call EXCEPT !.op = "done", !.result = v]
      BY <2>2 DEF Done, Results
    <2>6. call' \in GoodCalls /\ call'.sha = call.sha /\ call'.result = v
      BY <1>0, <2>1, <2>5, CallIsDone
    <2> QED
      BY <2>2, <2>4, <2>6 DEF Goes
  <1>9. CASE FileAnswered
    <2>1. call.sha \in Shas
      BY <1>0, <1>9 DEF FileAnswered, Answered, HashOps
    <2>2. call' = [call EXCEPT !.op = "unzip"] \/ call' = [call EXCEPT !.op = "unzipAgain"]
      BY <1>9 DEF FileAnswered
    <2> QED
      BY <2>1, <2>2, <1>moves DEF Ops
  <1>10. CASE Unzip
    <2>1. call.sha \in Shas /\ Done("bytes")
      BY <1>0, <1>10 DEF Unzip, HashOps
    <2> QED
      BY <2>1, <1>done DEF Results
  <1>11. CASE UnzipFails
    <2>1. call.sha \in Shas
      BY <1>0, <1>11 DEF UnzipFails, HashOps
    <2>2. call' = [call EXCEPT !.op = "malshare"] \/ Done("error")
      BY <1>11 DEF UnzipFails, Done
    <2> QED
      BY <2>1, <2>2, <1>moves, <1>done DEF Ops, Results
  <1>12. CASE MalShare
    <2>1. call.sha \in Shas
      BY <1>0, <1>12 DEF MalShare, HashOps
    <2>2. call' = [call EXCEPT !.op = "provider"] \/ Done("bytes")
      BY <1>12 DEF MalShare
    <2> QED
      BY <2>1, <2>2, <1>moves, <1>done DEF Ops, Results
  <1>13. CASE AskProvider
    BY <1>0, <1>13, ProviderAsks
  <1>14. CASE SendList \/ Judge
    BY <1>14, ListAsks, JudgeAsks
  <1>15. CASE UNCHANGED vars
    BY <1>15, <1>same DEF vars, clientVars
  <1>16. CASE ErrorInAnswer
    <2>1. Done("no") \/ Done("rows") \/ Fails("error")
      BY <1>16 DEF ErrorInAnswer
    <2> QED
      BY <2>1, <1>done, <1>fails DEF Results, Failures
  <1> QED
    BY <1>1, <1>2, <1>3, <1>4, <1>5, <1>6, <1>7, <1>8, <1>9, <1>10, <1>11, <1>12, <1>13, <1>14, <1>15, <1>16
      DEF Next, Scan, Client, ClientStep
-----------------------------------------------------------------------------
(***************************************************************************)
(* The round of providers.                                                 *)
(***************************************************************************)
LEMMA HashesType ==
  ASSUME NEW q \in Seq(Shas)
  PROVE  Hashes(q) \in Seq([stage : {"hash"}, sha : Shas])
  <1>1. Len(q) \in Nat /\ DOMAIN q = 1..Len(q) /\ \A i \in 1..Len(q) : q[i] \in Shas
    BY LenProperties, ElementOfSeq
  <1>2. PICK T : T = [stage : {"hash"}, sha : Shas]
    OBVIOUS
  <1>3. Hashes(q) \in [1..Len(q) -> T]
    BY <1>1, <1>2 DEF Hashes, Hash
  <1>4. Hashes(q) \in Seq(T)
    BY <1>1, <1>3, SeqDef
  <1> QED
    BY <1>2, <1>4

LEMMA ListingType ==
  ASSUME NEW p \in Providers
  PROVE  Listing(p) \in Seq(TasksOf(p))
  <1>1. CASE p = "malwarebazaar"
    <2>1. Len(ListStages) \in Nat /\ DOMAIN ListStages = 1..Len(ListStages)
          /\ \A i \in 1..Len(ListStages) : ListStages[i] \in LoopNames
      BY ProviderAssumption, LenProperties, ElementOfSeq DEF LoopNames
    <2>2. ListQueries \in [1..Len(ListStages) -> [stage : LoopNames, sha : {NoSha}]]
      BY <2>1 DEF ListQueries, Query
    <2>3. ListQueries \in Seq([stage : LoopNames, sha : {NoSha}])
      BY <2>1, <2>2, SeqDef
    <2> QED
      BY <1>1, <2>3 DEF Listing, TasksOf
  <1>2. CASE p = "threatfox"
    <2>1. Query("iocs") \in TasksOf(p)
      BY <1>2 DEF Query, TasksOf
    <2> QED
      BY <1>2, <2>1 DEF Listing
  <1>3. CASE p \notin {"malwarebazaar", "threatfox"}
    <2>1. [stage : {"hash"}, sha : Shas] \subseteq TasksOf(p)
      BY <1>3 DEF TasksOf
    <2>2. Feed[p] \in Seq(Shas)
      BY ProviderAssumption
    <2>3. OtxEvidence \in Seq(Shas)
      <3>1. Feed["otx_pulse_cti"] \in Seq(Shas)
        BY ProviderAssumption DEF Providers
      <3>2. PICK S : OtxEvidence = Filter(Feed["otx_pulse_cti"], S)
        BY DEF OtxEvidence
      <3>3. OtxEvidence \in Seq(Shas \cap S)
        BY <3>1, <3>2, FilterType
      <3> QED
        BY <3>3, SeqMonotonic
    <2>4. Hashes(Feed[p]) \in Seq(TasksOf(p)) /\ Hashes(OtxEvidence) \in Seq(TasksOf(p))
      BY <2>1, <2>2, <2>3, HashesType, SeqMonotonic
    <2> QED
      BY <1>3, <2>4 DEF Listing
  <1> QED
    BY <1>1, <1>2, <1>3

\* What is left to do after an answer, and what is kept.
LEMMA WorkType ==
  ASSUME ScanType, NEW rest \in Seq(TasksOf(at)), NEW more \in SUBSET Shas, Work(rest, more),
         at # "none", UNCHANGED <<round, at, offered, stored>>
  PROVE  ScanType' /\ kept' = kept \cup more
  <1>1. kept' = kept \cup more /\ (todo' = <<>> \/ todo' = rest)
    BY DEF Work
  <1>2. todo' \in Seq(TasksOf(at))
    <2>1. <<>> \in Seq(TasksOf(at))
      OBVIOUS
    <2> QED
      BY <1>1, <2>1
  <1> QED
    BY <1>1, <1>2 DEF ScanType

MayTake(s) ==
  \/ answered'[s] = "pe" \/ at \in {"malwarebazaar", "malshare"}
  \/ at = "threatfox" /\ s \in Linked \cup Likely

\* A provider whose turn goes on: what it keeps grows by hashes it may keep, or is thrown away.
Takes ==
  /\ ScanType' /\ UNCHANGED at
  /\ \E more \in SUBSET Shas :
       (kept' = {} \/ kept' = kept \cup more) /\ \A s \in more : MayTake(s)

LEMMA TakesNothing == ScanType' /\ UNCHANGED at /\ kept' \in {{}, kept} => Takes
  <1> SUFFICES ASSUME ScanType', UNCHANGED at, kept' \in {{}, kept} PROVE Takes
    OBVIOUS
  <1>1. PICK more \in SUBSET Shas : more = {}
    OBVIOUS
  <1>2. (kept' = {} \/ kept' = kept \cup more) /\ \A s \in more : FALSE
    BY <1>1
  <1> QED
    BY <1>2 DEF Takes

LEMMA TakesOne ==
  ASSUME ScanType', UNCHANGED at, NEW s \in Shas, kept' = kept \cup {s}, MayTake(s)
  PROVE  Takes
  <1>1. PICK more \in SUBSET Shas : more = {s}
    OBVIOUS
  <1>2. kept' = kept \cup more /\ \A t \in more : MayTake(t)
    BY <1>1
  <1> QED
    BY <1>2 DEF Takes

LEMMA ListResultTakes ==
  ASSUME ProviderInv, ListResult
  PROVE  Takes
  <1>1. /\ Tail(todo) \in Seq(TasksOf(at)) /\ at = "malwarebazaar" /\ at # "none"
        /\ UNCHANGED <<round, at, offered, stored>> /\ ScanType
    BY Tasks DEF ProviderInv, ListResult
  <1>2. ASSUME NEW rest \in Seq(TasksOf(at)), NEW more \in SUBSET Shas, Work(rest, more)
        PROVE  Takes
    <2>1. ScanType' /\ kept' = kept \cup more
      BY <1>1, <1>2, WorkType
    <2>2. \A s \in more : MayTake(s)
      BY <1>1 DEF MayTake
    <2> QED
      BY <1>1, <2>1, <2>2 DEF Takes
  <1>3. CASE \E S \in SUBSET {s \in Shas : knows[s] = "pe"} : Work(Tail(todo), S)
    <2>1. PICK S \in SUBSET Shas : Work(Tail(todo), S)
      BY <1>3
    <2> QED
      BY <1>1, <1>2, <2>1
  <1>4. CASE Work(Filter(Tail(todo), {t \in Range(todo) : t.stage # Head1.stage}), {})
    <2>1. PICK S : Work(Filter(Tail(todo), S), {})
      BY <1>4
    <2>2. Filter(Tail(todo), S) \in Seq(TasksOf(at) \cap S)
      BY <1>1, FilterType
    <2>3. Filter(Tail(todo), S) \in Seq(TasksOf(at))
      BY <2>2, SeqMonotonic
    <2> QED
      BY <1>2, <2>1, <2>3
  <1>5. CASE Work(Tail(todo), {})
    BY <1>1, <1>2, <1>5
  <1> QED
    BY <1>3, <1>4, <1>5 DEF ListResult

LEMMA JudgedTakes ==
  ASSUME ProviderInv, Judged
  PROVE  Takes
  <1>1. /\ Head1.sha \in Shas /\ Tail(todo) \in Seq(TasksOf(at)) /\ at # "none"
        /\ UNCHANGED <<round, at, offered, stored, answered>> /\ ScanType /\ <<>> \in Seq(TasksOf(at))
    BY Tasks DEF ProviderInv, Judged, history
  <1>2. \/ Accepts(call.result) /\ Work(Tail(todo), {Head1.sha})
        \/ Work(<<>>, {}) \/ Work(Tail(todo), {})
        \/ kept' = {} /\ todo' = <<>>
    BY DEF Judged
  <1>3. CASE Accepts(call.result) /\ Work(Tail(todo), {Head1.sha})
    <2>1. ScanType' /\ kept' = kept \cup {Head1.sha}
      BY <1>1, <1>3, WorkType
    <2>2. call.sha = Head1.sha
      BY <1>1 DEF Judged, ProviderInv, CallIsForTask
    <2>3. answered[Head1.sha] = "pe"
      BY <1>3, <2>2 DEF Accepts, ProviderInv, Vouched
    <2>4. MayTake(Head1.sha)
      BY <1>1, <2>3 DEF MayTake
    <2> QED
      BY <1>1, <2>1, <2>4, TakesOne
  <1>4. CASE Work(<<>>, {}) \/ Work(Tail(todo), {})
    <2>1. ScanType' /\ kept' = kept \cup {}
      BY <1>1, <1>4, WorkType
    <2> QED
      BY <1>1, <2>1, TakesNothing
  <1>5. CASE kept' = {} /\ todo' = <<>>
    <2>1. ScanType'
      BY <1>1, <1>5 DEF ScanType
    <2> QED
      BY <1>1, <1>5, <2>1, TakesNothing
  <1> QED
    BY <1>2, <1>3, <1>4, <1>5

LEMMA RowTakes ==
  ASSUME ProviderInv, MalShareRow \/ ThreatFoxTakes \/ TwitterStops
  PROVE  Takes
  <1>1. /\ Head1.sha \in Shas /\ Tail(todo) \in Seq(TasksOf(at)) /\ at # "none"
        /\ UNCHANGED <<round, at, offered, stored>> /\ ScanType /\ <<>> \in Seq(TasksOf(at))
    BY Tasks DEF ProviderInv, MalShareRow, ThreatFoxTakes, TwitterStops, OnTask
  <1>2. \/ (at = "malshare" \/ (at = "threatfox" /\ AcceptWithoutCheck(Head1.sha)))
           /\ Work(Tail(todo), {Head1.sha})
        \/ Work(<<>>, {}) \/ Work(Tail(todo), {})
    BY DEF MalShareRow, ThreatFoxTakes, TwitterStops
  <1>3. CASE (at = "malshare" \/ (at = "threatfox" /\ AcceptWithoutCheck(Head1.sha)))
             /\ Work(Tail(todo), {Head1.sha})
    <2>1. ScanType' /\ kept' = kept \cup {Head1.sha}
      BY <1>1, <1>3, WorkType
    <2>2. MayTake(Head1.sha)
      BY <1>3 DEF AcceptWithoutCheck, MayTake
    <2> QED
      BY <1>1, <2>1, <2>2, TakesOne
  <1>4. CASE Work(<<>>, {}) \/ Work(Tail(todo), {})
    <2>1. ScanType' /\ kept' = kept \cup {}
      BY <1>1, <1>4, WorkType
    <2> QED
      BY <1>1, <2>1, TakesNothing
  <1> QED
    BY <1>2, <1>3, <1>4

LEMMA ThreatFoxLists ==
  ASSUME ProviderInv, ListIocs \/ TagRows \/ ThreatFoxRaises
  PROVE  Takes
  <1>1. /\ Tail(todo) \in Seq(TasksOf(at)) /\ at # "none" /\ Head1 \in TasksOf(at)
        /\ Head1.stage \in {"iocs", "tag"} /\ UNCHANGED <<round, at, offered, stored>> /\ ScanType
    BY Tasks DEF ProviderInv, ListIocs, TagRows, ThreatFoxRaises, OnTask
  <1>2. at # "malwarebazaar"
    BY <1>1 DEF TasksOf, LoopNames
  <1>3. [stage : {"hash"}, sha : Shas] \subseteq TasksOf(at) /\ Query("tag") \in TasksOf(at)
    BY <1>2 DEF TasksOf, Query
  <1>4. \A q \in Seq(Shas) : Hashes(q) \in Seq(TasksOf(at))
    BY <1>3, HashesType, SeqMonotonic
  <1>5. Feed["threatfox"] \in Seq(Shas) /\ <<>> \in Seq(Shas)
    BY ProviderAssumption DEF Providers
  <1>6. todo' \in Seq(TasksOf(at)) /\ (kept' = kept \/ kept' = {})
    <2>1. CASE ListIocs
      <3>1. TagList \in Seq(TasksOf(at))
        <4>1. TagQueries \in Nat /\ TagList \in [1..TagQueries -> TasksOf(at)]
          BY <1>3, ProviderAssumption DEF TagList
        <4> QED
          BY <4>1, SeqDef
      <3> QED
        BY <1>4, <1>5, <2>1, <3>1 DEF ListIocs
    <2>2. CASE TagRows
      <3>1. PICK rows \in {<<>>, Feed["threatfox"]} :
              \E S : todo' = Tail(todo) \o Filter(Hashes(rows), S)
        BY <2>2 DEF TagRows
      <3>2. PICK S : todo' = Tail(todo) \o Filter(Hashes(rows), S)
        BY <3>1
      <3>3. Filter(Hashes(rows), S) \in Seq(TasksOf(at) \cap S)
        BY <1>4, <1>5, FilterType
      <3>4. Filter(Hashes(rows), S) \in Seq(TasksOf(at))
        BY <3>3, SeqMonotonic
      <3>5. todo' \in Seq(TasksOf(at))
        BY <1>1, <3>2, <3>4, ConcatProperties
      <3> QED
        BY <2>2, <3>5 DEF TagRows
    <2>3. CASE ThreatFoxRaises
      BY <2>3 DEF ThreatFoxRaises
    <2> QED
      BY <2>1, <2>2, <2>3
  <1>7. ScanType'
    BY <1>1, <1>6 DEF ScanType
  <1> QED
    BY <1>1, <1>6, <1>7, TakesNothing

\* The other steps of a round, and those that leave it alone.
Rests == UNCHANGED <<round, at, todo, kept, offered, stored>>
Turns == ScanType' /\ (kept' = {} \/ UNCHANGED <<at, kept>>)

LEMMA StartProviderTurns ==
  ASSUME ProviderInv, StartProvider
  PROVE  Turns
  <1>1. /\ round # <<>> /\ at' = Head(round) /\ round' = Tail(round) /\ kept' = {}
        /\ todo' = Listing(at') \/ todo' = <<>>
        /\ UNCHANGED <<offered, stored>> /\ ScanType
    BY DEF StartProvider, ProviderInv
  <1>2. at' \in Providers /\ round' \in Seq(Providers) /\ at' # "none"
    <2>1. Head(round) \in Providers /\ Tail(round) \in Seq(Providers)
      BY <1>1, HeadTailProperties DEF ScanType
    <2> QED
      BY <1>1, <2>1 DEF Providers
  <1>3. todo' \in Seq(TasksOf(at'))
    <2>1. PICK p \in Providers : p = at'
      BY <1>2
    <2>2. Listing(p) \in Seq(TasksOf(p)) /\ <<>> \in Seq(TasksOf(p))
      BY ListingType
    <2> QED
      BY <1>1, <2>1, <2>2
  <1> QED
    BY <1>1, <1>2, <1>3 DEF ScanType, Turns

LEMMA OthersTurn ==
  ASSUME ProviderInv, StartRound \/ Fetch \/ EndProvider \/ Fetched \/ Restart
  PROVE  Turns
  <1>0. ScanType
    BY DEF ProviderInv
  <1>1. CASE StartRound
    <2>1. round' \in Seq(Providers) /\ UNCHANGED <<at, todo, kept, stored>>
          /\ offered' \in [Shas -> Providers \cup {"none"}]
      BY <1>1, ProviderAssumption DEF StartRound
    <2> QED
      BY <1>0, <2>1 DEF ScanType, Turns
  <1>2. CASE Fetch
    <2>1. UNCHANGED <<round, at, todo, kept, stored>> /\ offered' \in [Shas -> Providers \cup {"none"}]
      BY <1>0, <1>2 DEF Fetch, ScanType
    <2> QED
      BY <1>0, <2>1 DEF ScanType, Turns
  <1>3. CASE EndProvider
    <2>1. at' = "none" /\ kept' = {} /\ todo' = <<>> /\ UNCHANGED <<round, stored>>
      BY <1>3 DEF EndProvider
    <2>2. PICK S : offered' = [s \in Shas |-> IF s \in S /\ offered[s] = "none" /\ s \notin stored
                                              THEN at ELSE offered[s]]
      BY <1>3 DEF EndProvider
    <2>3. offered' \in [Shas -> Providers \cup {"none"}]
      BY <1>0, <2>2 DEF ScanType
    <2>4. todo' \in Seq(TasksOf(at'))
      BY <2>1
    <2> QED
      BY <1>0, <2>1, <2>3, <2>4 DEF ScanType, Turns
  <1>4. CASE Fetched
    <2>1. call.result = "bytes" => call.sha \in Shas
      BY CallFacts DEF ProviderInv
    <2>2. stored' \in SUBSET Shas /\ UNCHANGED <<round, at, todo, kept, offered>>
      BY <1>0, <1>4, <2>1 DEF Fetched, scanVars, ScanType
    <2> QED
      BY <1>0, <2>2 DEF ScanType, Turns
  <1>5. CASE Restart
    <2>1. /\ at' = "none" /\ kept' = {} /\ todo' = <<>> /\ round' = <<>> /\ UNCHANGED stored
          /\ offered' \in [Shas -> Providers \cup {"none"}]
      BY <1>5 DEF Restart
    <2>2. todo' \in Seq(TasksOf(at')) /\ round' \in Seq(Providers)
      BY <2>1
    <2> QED
      BY <1>0, <2>1, <2>2 DEF ScanType, Turns
  <1> QED
    BY <1>1, <1>2, <1>3, <1>4, <1>5

LEMMA ScanSteps ==
  ASSUME ProviderInv, [Next]_vars
  PROVE  Rests \/ Turns \/ Takes
  <1>1. CASE Client \/ Environment \/ SendList \/ Judge \/ UNCHANGED vars
    BY <1>1 DEF Client, Environment, SendList, Judge, vars, scanVars, Rests
  <1>2. CASE StartRound \/ Fetch \/ EndProvider \/ Fetched \/ Restart \/ StartProvider
    BY <1>2, OthersTurn, StartProviderTurns
  <1>3. CASE ListResult \/ Judged \/ MalShareRow \/ ThreatFoxTakes \/ TwitterStops
               \/ ListIocs \/ TagRows \/ ThreatFoxRaises
    BY <1>3, ListResultTakes, JudgedTakes, RowTakes, ThreatFoxLists
  <1> QED
    BY <1>1, <1>2, <1>3 DEF Next, Scan

LEMMA ScanNext ==
  ASSUME ProviderInv, [Next]_vars
  PROVE  ScanType' /\ KeptIsVouchedFor'
  <1>0. /\ \A s \in Shas : answered[s] = "pe" => answered'[s] = "pe"
        /\ ScanType /\ KeptIsVouchedFor /\ kept \subseteq Shas
    BY AnswersStay DEF ProviderInv, ScanType
  <1>1. CASE Rests
    BY <1>0, <1>1 DEF Rests, ScanType, KeptIsVouchedFor
  <1>2. CASE Turns
    BY <1>0, <1>2 DEF Turns, KeptIsVouchedFor
  <1>3. CASE Takes
    <2>1. PICK more \in SUBSET Shas :
            (kept' = {} \/ kept' = kept \cup more) /\ \A s \in more : MayTake(s)
      BY <1>3 DEF Takes
    <2> QED
      BY <1>0, <1>3, <2>1 DEF Takes, KeptIsVouchedFor, MayTake
  <1> QED
    BY <1>1, <1>2, <1>3, ScanSteps

LEMMA TaskNext ==
  ASSUME ProviderInv, [Next]_vars
  PROVE  CallIsForTask'
  <1>1. CASE call'.op = "none"
    BY <1>1 DEF CallIsForTask
  <1>2. CASE at' = "none"
    BY <1>2 DEF CallIsForTask
  <1>3. CASE call.op # "none" /\ call'.op # "none" /\ UNCHANGED <<at, todo>>
    <2>1. call'.sha = call.sha
      BY <1>3, GoesNext DEF Goes
    <2> QED
      BY <1>3, <2>1 DEF ProviderInv, CallIsForTask, Head1
  <1>4. CASE Client
    <2>1. call.op # "none" /\ UNCHANGED <<at, todo>>
      BY <1>4 DEF Client, ClientStep, scanVars, TryAgain, ServerError, TransportError, RateLimited, Refused,
        Garbled, ErrorInAnswer, ListAnswered, InfoAnswered, FileUnknown, FileAnswered, Unzip, UnzipFails,
        MalShare, AskProvider, LastAttempt, Asking, Answered
    <2> QED
      BY <1>1, <1>3, <2>1
  <1>5. CASE Environment \/ UNCHANGED vars
    <2>1. UNCHANGED <<call, at, todo>>
      BY <1>5 DEF Environment, World, TimePasses, NewDay, Outage, Recovery, Upload, scanVars, vars, clientVars
    <2> QED
      BY <2>1 DEF ProviderInv, CallIsForTask, Head1
  <1>6. CASE SendList
    <2>1. UNCHANGED todo /\ Head1.stage # "hash"
      BY <1>6 DEF SendList, OnTask, LoopNames, scanVars
    <2> QED
      BY <2>1 DEF CallIsForTask, Head1
  <1>7. CASE Judge
    <2>1. UNCHANGED todo /\ call'.sha = Head1.sha
      BY <1>7, JudgeAsks DEF Judge, scanVars
    <2> QED
      BY <2>1 DEF CallIsForTask, Head1
  <1>8. CASE Fetch \/ EndProvider \/ Fetched \/ Restart
    BY <1>2, <1>8 DEF Fetch, Idle, EndProvider, Fetched, Restart, scanVars
  <1>9. CASE ListResult \/ Judged
    BY <1>1, <1>9, CallFacts DEF ListResult, Judged
  <1>10. CASE StartRound \/ StartProvider \/ ListIocs \/ TagRows \/ ThreatFoxRaises \/ MalShareRow
                \/ ThreatFoxTakes \/ TwitterStops
    BY <1>1, <1>10 DEF StartRound, Idle, StartProvider, ListIocs, TagRows, ThreatFoxRaises, MalShareRow,
      ThreatFoxTakes, TwitterStops, OnTask, clientVars
  <1> QED
    BY <1>4, <1>5, <1>6, <1>7, <1>8, <1>9, <1>10 DEF Next, Scan

LEMMA ProviderInit == Init => ProviderInv
  <1> SUFFICES ASSUME Init PROVE ProviderInv
    OBVIOUS
  <1>1. AnswersStayYes /\ call \in GoodCalls /\ Vouched /\ CallIsForTask
    BY CallFacts DEF Init, BazaarInit, AnswersStayYes, Vouched, CallIsForTask
  <1>2. ScanType /\ KeptIsVouchedFor
    BY DEF Init, ScanType, KeptIsVouchedFor
  <1> QED
    BY <1>1, <1>2, VerdictInit, QuotaInit DEF ProviderInv

LEMMA ProviderNext == ProviderInv /\ [Next]_vars => ProviderInv'
  <1> SUFFICES ASSUME ProviderInv, [Next]_vars PROVE ProviderInv'
    OBVIOUS
  <1>1. VerdictInv' /\ QuotaInv' /\ AnswersStayYes'
    BY VerdictNext, QuotaNext, AnswersStay DEF ProviderInv
  <1>2. call' \in GoodCalls /\ Vouched'
    BY GoesNext DEF Goes, Vouched
  <1> QED
    BY <1>1, <1>2, ScanNext, TaskNext DEF ProviderInv

\* What a provider keeps was vouched for: by a listing of programs, by ThreatFox itself, or by
\* MalwareBazaar's own word for this very hash; an outage, an open circuit or a spent budget never
\* lets a hash through.
THEOREM KeptVouchedFor == Spec => []KeptIsVouchedFor
  <1>1. ProviderInv => KeptIsVouchedFor
    BY DEF ProviderInv
  <1> QED
    BY <1>1, ProviderInit, ProviderNext, PTL DEF Spec
-----------------------------------------------------------------------------
(***************************************************************************)
(* Types: the counters and clocks, which no other invariant bounds.        *)
(***************************************************************************)
Circuits == [failures : 0..Threshold, openFor : Nat]
CircuitType == circuit \in Circuits /\ failedCalls \in 0..Threshold
ClockType ==
  /\ infoCalls \in 0..MaxInfoCalls + 1
  /\ cache \in [Shas -> [verdict : Verdicts, age : 0..TtlDays + 1]]
  /\ health \in {"up", "down", "throttling"}
  /\ {outages, days, restarts, uploads} \subseteq Nat

LEMMA CircuitsType ==
  ASSUME NEW c \in Circuits
  PROVE  /\ RecordFailure(c) \in Circuits /\ StatusFailure(c) \in Circuits
         /\ OpenForRateLimit(c) \in Circuits /\ RecordSuccess(c) \in Circuits /\ Closed \in Circuits
         /\ Elapsed(c) \in Circuits
  <1>0. /\ Threshold \in Nat /\ Threshold > 0 /\ OpenTicks \in Nat /\ OpenTicks429 \in Nat
        /\ c.failures \in 0..Threshold /\ c.openFor \in Nat
    BY BazaarAssumption DEF Circuits
  <1>1. ASSUME NEW d \in Circuits PROVE RecordFailure(d) \in Circuits
    <2>1. d.failures \in 0..Threshold /\ d.openFor \in Nat
      BY DEF Circuits
    <2> QED
      BY <1>0, <2>1 DEF RecordFailure, Circuits
  <1>2. StatusFailure(c) \in Circuits
    BY <1>1 DEF StatusFailure
  <1>3. OpenForRateLimit(c) \in Circuits /\ Closed \in Circuits
    BY <1>0 DEF OpenForRateLimit, Closed, Circuits
  <1>4. RecordSuccess(c) \in Circuits /\ Elapsed(c) \in Circuits
    BY <1>0 DEF RecordSuccess, Elapsed, Circuits
  <1> QED
    BY <1>1, <1>2, <1>3, <1>4

LEMMA CircuitTypeNext == CircuitType /\ [Next]_vars => CircuitType'
  <1> SUFFICES ASSUME CircuitType, [Next]_vars PROVE CircuitType'
    OBVIOUS
  <1>0. /\ circuit \in Circuits /\ failedCalls \in 0..Threshold /\ Threshold \in Nat /\ 0 \in 0..Threshold
        /\ CountFailedCall => failedCalls' \in 0..Threshold
    BY BazaarAssumption DEF CircuitType, CountFailedCall
  <1> USE DEF clientVars, tables, service, history, bounds, scanVars
  <1>1. CASE UNCHANGED <<circuit, failedCalls>>
    BY <1>1 DEF CircuitType
  <1>2. CASE StartRound \/ Fetch \/ Fetched \/ Scan \/ UNCHANGED vars
    BY <1>1, <1>2 DEF StartRound, Fetch, Fetched, Scan, StartProvider, SendList, List, ListResult, ListIocs,
      TagRows, ThreatFoxRaises, MalShareRow, ThreatFoxTakes, TwitterStops, Judge, IsPeHash, Judged,
      EndProvider, vars
  <1>3. CASE Client
    <2>1. CASE TryAgain \/ Refused \/ Unzip \/ UnzipFails \/ MalShare \/ AskProvider
      BY <1>1, <2>1 DEF TryAgain, Refused, Unzip, UnzipFails, MalShare, AskProvider
    <2>2. CASE ServerError \/ TransportError \/ RateLimited
      BY <1>0, <2>2, CircuitsType DEF ServerError, TransportError, RateLimited, CircuitType
    <2>3. CASE Garbled \/ ErrorInAnswer \/ ListAnswered \/ InfoAnswered \/ FileUnknown \/ FileAnswered
      BY <1>0, <2>3, CircuitsType DEF Garbled, ErrorInAnswer, ListAnswered, InfoAnswered, FileUnknown, FileAnswered, Answered,
        CircuitType
    <2> QED
      BY <1>3, <2>1, <2>2, <2>3 DEF Client, ClientStep
  <1>4. CASE Environment
    BY <1>0, <1>1, <1>4, CircuitsType DEF Environment, World, TimePasses, NewDay, Outage, Recovery, Upload, CircuitType
  <1>5. CASE Restart
    BY <1>0, <1>5, CircuitsType DEF Restart, ClientRestart, CircuitType
  <1> QED
    BY <1>2, <1>3, <1>4, <1>5 DEF Next

LEMMA ClockTypeNext == ClockType /\ [Next]_vars => ClockType'
  <1> SUFFICES ASSUME ClockType, [Next]_vars PROVE ClockType'
    OBVIOUS
  <1>0. MaxInfoCalls \in Nat /\ TtlDays \in Nat
    BY BazaarAssumption
  <1> USE DEF clientVars, tables, service, history, bounds, scanVars
  <1>1. CASE UNCHANGED <<infoCalls, cache, health, outages, days, restarts, uploads>>
    BY <1>1 DEF ClockType
  <1>2. CASE /\ UNCHANGED <<cache, health, outages, days, uploads>>
             /\ infoCalls' \in {0, infoCalls} \/ (infoCalls <= MaxInfoCalls /\ infoCalls' = infoCalls + 1)
             /\ restarts' \in {restarts, restarts + 1}
    BY <1>0, <1>2 DEF ClockType
  <1>3. CASE StartRound \/ Restart
    BY <1>2, <1>3 DEF StartRound, Restart, ClientRestart
  <1>4. CASE Judge
    <2>1. /\ UNCHANGED <<cache, health, outages, days, uploads, restarts>>
          /\ infoCalls' = infoCalls \/ infoCalls' = IF infoCalls > MaxInfoCalls THEN infoCalls ELSE infoCalls + 1
      BY <1>4 DEF Judge, IsPeHash
    <2> QED
      BY <1>0, <2>1 DEF ClockType
  <1>5. CASE Fetch \/ Fetched \/ (Scan /\ ~Judge) \/ UNCHANGED vars
    BY <1>1, <1>5 DEF Fetch, Fetched, Scan, StartProvider, SendList, List, ListResult, ListIocs,
      TagRows, ThreatFoxRaises, MalShareRow, ThreatFoxTakes, TwitterStops, Judged, EndProvider, vars
  <1>6. CASE InfoAnswered
    <2>1. UNCHANGED <<infoCalls, health, outages, days, restarts, uploads>>
      BY <1>6 DEF InfoAnswered
    <2>2. PICK v \in {"yes", "no"} : cache' = [cache EXCEPT ![call.sha] = [verdict |-> v, age |-> 0]]
      BY <1>6 DEF InfoAnswered
    <2>3. [verdict |-> v, age |-> 0] \in [verdict : Verdicts, age : 0..TtlDays + 1]
      BY <1>0 DEF Verdicts
    <2> QED
      BY <2>1, <2>2, <2>3 DEF ClockType
  <1>10. CASE ErrorInAnswer
    <2>1. UNCHANGED <<infoCalls, health, outages, days, restarts, uploads>>
      BY <1>10 DEF ErrorInAnswer
    <2>2. \/ cache' = cache
          \/ cache' = [cache EXCEPT ![call.sha] = [verdict |-> "no", age |-> 0]]
      BY <1>10 DEF ErrorInAnswer
    <2>3. [verdict |-> "no", age |-> 0] \in [verdict : Verdicts, age : 0..TtlDays + 1]
      BY <1>0 DEF Verdicts
    <2> QED
      BY <2>1, <2>2, <2>3 DEF ClockType
  <1>7. CASE Client /\ ~InfoAnswered /\ ~ErrorInAnswer
    BY <1>1, <1>7 DEF Client, ClientStep, TryAgain, ServerError, TransportError, RateLimited, Refused, Garbled,
      ListAnswered, FileUnknown, FileAnswered, Unzip, UnzipFails, MalShare, AskProvider
  <1>8. CASE NewDay
    <2>1. /\ cache' = [s \in Shas |-> IF cache[s].age <= TtlDays THEN [cache[s] EXCEPT !.age = @ + 1] ELSE cache[s]]
          /\ days' = days + 1 /\ UNCHANGED <<infoCalls, health, outages, restarts, uploads>>
      BY <1>8 DEF NewDay
    <2>2. ASSUME NEW s \in Shas
          PROVE  (IF cache[s].age <= TtlDays THEN [cache[s] EXCEPT !.age = @ + 1] ELSE cache[s])
                   \in [verdict : Verdicts, age : 0..TtlDays + 1]
      BY <1>0 DEF ClockType
    <2> QED
      BY <2>1, <2>2 DEF ClockType
  <1>9. CASE TimePasses \/ Outage \/ Recovery \/ Upload
    BY <1>9 DEF TimePasses, Outage, Recovery, Upload, ClockType
  <1> QED
    BY <1>3, <1>4, <1>5, <1>6, <1>7, <1>8, <1>9, <1>10 DEF Next, Environment, World

\* Only calls about a hash can be misled.
MisledType == misled \in SUBSET Shas

LEMMA MisledNext == ProviderInv /\ MisledType /\ [Next]_vars => MisledType'
  <1> SUFFICES ASSUME ProviderInv, MisledType, [Next]_vars PROVE MisledType'
    OBVIOUS
  <1>1. CASE UNCHANGED misled
    BY <1>1 DEF MisledType
  <1>2. CASE InfoAnswered
    BY <1>2 DEF InfoAnswered, MisledType
  <1>3. CASE ErrorInAnswer
    <2>1. call.op = "info" => call.sha \in Shas
      BY CallFacts DEF ProviderInv, HashOps
    <2> QED
      BY <1>1, <1>3, <2>1 DEF ErrorInAnswer, MisledType
  <1>4. CASE NewDay \/ Upload \/ UNCHANGED vars \/ UNCHANGED VerdictVars
    BY <1>1, <1>4 DEF NewDay, Upload, vars, clientVars, history, VerdictVars
  <1> QED
    BY <1>2, <1>3, <1>4, VerdictSteps

LEMMA ClockInit == Init => CircuitType /\ ClockType /\ MisledType
  BY BazaarAssumption DEF Init, BazaarInit, Closed, CircuitType, Circuits, ClockType, MisledType, Verdicts

\* Every variable has its type, whatever the threshold: a call stays within its attempts, rounds and
\* depth, the budget within one more than it allows, and what is to do is what its provider can do.
THEOREM ProviderTypes == Spec => []TypeOK
  <1>1. ProviderInv /\ CircuitType /\ ClockType /\ MisledType => TypeOK
    <2> SUFFICES ASSUME ProviderInv, CircuitType, ClockType, MisledType PROVE TypeOK
      OBVIOUS
    <2>1. call \in CallRecords
      BY DEF ProviderInv, GoodCalls
    <2>2. todo \in Seq([stage : Stages, sha : Shas \cup {NoSha}])
      <3>1. TasksOf(at) \subseteq [stage : Stages, sha : Shas \cup {NoSha}]
        BY DEF TasksOf, Stages
      <3> QED
        BY <3>1, SeqMonotonic DEF ProviderInv, ScanType
    <2> QED
      BY <2>1, <2>2 DEF TypeOK, ProviderInv, VerdictInv, VerdictType, QuotaInv, QuotaType, ScanType,
        CallRecords, Results, CircuitType, Circuits, ClockType, MisledType, Verdicts
  <1> QED
    BY <1>1, ProviderInit, ProviderNext, ClockInit, CircuitTypeNext, ClockTypeNext, MisledNext, PTL DEF Spec
=============================================================================
