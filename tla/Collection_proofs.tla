-------------------------- MODULE Collection_proofs --------------------------
(***************************************************************************)
(* Proofs about a collection pass for any providers, listings and          *)
(* settings: the rotation that refreshes benign programs, the candidates   *)
(* table, and what a pass is about to fetch.                               *)
(***************************************************************************)
EXTENDS Collection, SequenceFacts

(***************************************************************************)
(* The rotation.  The counter is kept in a table and wraps at EveryN; the  *)
(* malware passes since the last one for benign programs never outnumber   *)
(* it, because a pass that does not rotate moves neither or clears them.   *)
(***************************************************************************)
RotationInv == counter \in 0..EveryN - 1 /\ streak \in Nat /\ streak <= counter

LEMMA Wraps ==
  ASSUME NEW n \in Nat \ {0}, NEW c \in 0..n - 1
  PROVE  (c + 1) % n = IF c + 1 = n THEN 0 ELSE c + 1
  <1>1. CASE c + 1 = n
    BY <1>1
  <1>2. CASE c + 1 < n
    BY <1>2
  <1> QED
    BY <1>1, <1>2

LEMMA RotationNext == RotationInv /\ [Next]_vars => RotationInv'
  <1> SUFFICES ASSUME RotationInv, [Next]_vars PROVE RotationInv'
    OBVIOUS
  <1>0. EveryN \in Nat \ {0} /\ 0 \in 0..EveryN - 1
    BY CollectionAssumption
  <1>1. CASE UNCHANGED <<counter, streak>>
    BY <1>1 DEF RotationInv
  <1>2. CASE UNCHANGED counter /\ streak' = 0
    BY <1>2 DEF RotationInv
  <1>3. CASE Rotation
    <2>1. counter' = IF counter + 1 = EveryN THEN 0 ELSE counter + 1
      BY <1>0, <1>3, Wraps DEF Rotation, NextInRotation, RotationInv
    <2>2. streak' = 0 \/ (counter' # 0 /\ streak' = streak + 1)
      BY <1>3 DEF Rotation, RefreshDue
    <2>3. counter' \in 0..EveryN - 1
      BY <1>0, <2>1 DEF RotationInv
    <2> QED
      BY <2>1, <2>2, <2>3 DEF RotationInv
  <1>4. CASE Select /\ ~Rotation
    BY <1>1, <1>2, <1>4 DEF Select, BootstrapSelect, SteadyMixed, MalwareCorrection, BenignBalance
  <1>5. CASE Discover \/ Fetch \/ Abort \/ Publish \/ (\E p \in Range(BenignPool) : CooldownLapses(p))
    BY <1>1, <1>5 DEF Discover, Answers, Raises, TopUp, EndPart, Fetch, Abort, Publish, CooldownLapses, tableVars
  <1>6. CASE UNCHANGED vars
    BY <1>1, <1>6 DEF vars, tableVars
  <1> QED
    BY <1>3, <1>4, <1>5, <1>6 DEF Next

\* However passes fail and balance comes and goes, fewer than STEADY_BENIGN_EVERY_N rotations in a
\* row go by without benign programs being wanted.
THEOREM BenignComesRound == Spec => []BenignIsRefreshed
  <1>1. Init => RotationInv
    BY CollectionAssumption DEF Init, RotationInv
  <1>2. RotationInv => BenignIsRefreshed
    BY CollectionAssumption DEF RotationInv, BenignIsRefreshed
  <1> QED
    BY <1>1, <1>2, RotationNext, PTL DEF Spec
-----------------------------------------------------------------------------
(***************************************************************************)
(* The candidates.  What the table calls returned is in the batch under    *)
(* way, in the batch that waits while it is topped up, or among what the   *)
(* pass has found; and none of the three holds a key that is known.        *)
(***************************************************************************)
Gathered == found \cup batch \cup held.batch
BatchInv ==
  /\ ledger \in [Providers -> [Keys -> Statuses]]
  /\ mode # "topup" => held = NoBatch
  /\ at # "discover" => batch = {} /\ mode # "topup"
  /\ at = "idle" => found = {} /\ ledger = NoLedger
  /\ \A p \in Providers, k \in Keys : ledger[p][k] = "returned" => [key |-> k, from |-> p] \in Gathered
  /\ \A c \in Gathered : c.key \notin known

LEMMA BatchInit == Init => BatchInv
  BY DEF Init, BatchInv, Gathered, NoBatch, NoLedger, Statuses

\* What every beginning of a discovery has in common.
LEMMA Begins == \A p : Begin(p) => mode' \in {"slots", "chain"}
  BY DEF Begin

LEMMA PassEnds == EndPass => BatchInv'
  <1> SUFFICES ASSUME EndPass PROVE BatchInv'
    OBVIOUS
  <1>1. /\ at' = "idle" /\ mode' = "none" /\ batch' = {} /\ held' = NoBatch /\ found' = {}
        /\ ledger' = NoLedger
    BY DEF EndPass
  <1>2. Gathered' = {}
    BY <1>1 DEF Gathered, NoBatch
  <1> QED
    BY <1>1, <1>2 DEF BatchInv, NoLedger, Statuses

LEMMA BatchAnswers == BatchInv /\ Answers => BatchInv'
  <1> SUFFICES ASSUME BatchInv, Answers PROVE BatchInv'
    OBVIOUS
  <1> DEFINE P == Ask.from
  <1>1. PICK keys \in SUBSET Lists[P] :
          \E taken \in kSubset(AtMost(Room, Cardinality(Fresh(keys))), Fresh(keys)) :
            /\ batch' = batch \cup {[key |-> k, from |-> P] : k \in taken}
            /\ ledger' = Noted(P, keys, taken, Fresh(keys))
    BY DEF Answers
  <1>2. PICK taken \in kSubset(AtMost(Room, Cardinality(Fresh(keys))), Fresh(keys)) :
          /\ batch' = batch \cup {[key |-> k, from |-> P] : k \in taken}
          /\ ledger' = Noted(P, keys, taken, Fresh(keys))
    BY <1>1
  <1>3. taken \subseteq Fresh(keys)
    BY <1>2 DEF kSubset
  <1>4. at = "discover" /\ UNCHANGED <<at, mode, held, found, known>>
    BY DEF Answers, tableVars
  <1>5. \A k \in taken : k \notin known
    BY <1>3 DEF Fresh
  <1>6. Gathered' = Gathered \cup {[key |-> k, from |-> P] : k \in taken}
    BY <1>2, <1>4 DEF Gathered
  <1>7. ledger' = [ledger EXCEPT ![P] = [k \in Keys |->
                     CASE k \in taken -> "returned" [] k \in Fresh(keys) -> "seen"
                       [] k \in keys -> "duplicate" [] OTHER -> ledger[P][k]]]
    BY <1>2 DEF Noted
  <1>8. ledger' \in [Providers -> [Keys -> Statuses]]
    <2>1. [k \in Keys |-> CASE k \in taken -> "returned" [] k \in Fresh(keys) -> "seen"
                            [] k \in keys -> "duplicate" [] OTHER -> ledger[P][k]]
            \in [Keys -> Statuses] \/ P \notin Providers
      BY DEF BatchInv, Statuses
    <2> QED
      BY <1>7, <2>1 DEF BatchInv
  <1>9. ASSUME NEW p \in Providers, NEW k \in Keys, ledger'[p][k] = "returned"
        PROVE  [key |-> k, from |-> p] \in Gathered'
    <2>1. CASE p = P /\ k \in taken
      BY <1>6, <2>1
    <2>2. CASE ~(p = P /\ k \in taken)
      <3>1. ledger[p][k] = "returned"
        BY <1>7, <1>9, <2>2 DEF BatchInv
      <3> QED
        BY <1>6, <3>1 DEF BatchInv
    <2> QED
      BY <2>1, <2>2
  <1>10. \A c \in Gathered' : c.key \notin known'
    BY <1>4, <1>5, <1>6 DEF BatchInv
  <1> QED
    BY <1>4, <1>8, <1>9, <1>10 DEF BatchInv

LEMMA BatchEndsPart == BatchInv /\ EndPart => BatchInv'
  <1> SUFFICES ASSUME BatchInv, EndPart PROVE BatchInv'
    OBVIOUS
  <1> DEFINE new == {c \in batch : c.key \notin held.seen}
  <1>1. at = "discover" /\ batch' = {} /\ held' = NoBatch /\ UNCHANGED known
    BY DEF EndPart, tableVars
  <1>2. at' \in {"discover", "fetch"} /\ mode' # "topup"
    BY <1>1, Begins DEF EndPart
  <1>3. Gathered' = found'
    BY <1>1 DEF Gathered, NoBatch
  <1>4. CASE mode \in {"slots", "chain"} /\ found' = found \cup batch /\ UNCHANGED ledger
    <2>1. Gathered' = Gathered
      BY <1>3, <1>4 DEF Gathered, BatchInv, NoBatch
    <2> QED
      BY <1>1, <1>2, <1>4, <2>1 DEF BatchInv
  <1>5. CASE ToppedUp
    <2>1. found' = found \cup held.batch \cup new
      BY <1>5 DEF ToppedUp
    <2>2. ledger' = [p \in Providers |-> [k \in Keys |->
                       IF [key |-> k, from |-> p] \in batch \ new THEN "duplicate" ELSE ledger[p][k]]]
      BY <1>5 DEF ToppedUp
    <2>3. Gathered' \subseteq Gathered /\ Gathered \subseteq Gathered' \cup (batch \ new)
      BY <1>3, <2>1 DEF Gathered
    <2>4. ledger' \in [Providers -> [Keys -> Statuses]]
      BY <2>2 DEF BatchInv, Statuses
    <2>5. \A p \in Providers, k \in Keys : ledger'[p][k] = "returned" =>
            [key |-> k, from |-> p] \notin batch \ new /\ ledger[p][k] = "returned"
      BY <2>2
    <2>6. \A p \in Providers, k \in Keys : ledger'[p][k] = "returned" => [key |-> k, from |-> p] \in Gathered'
      BY <2>3, <2>5 DEF BatchInv
    <2> QED
      BY <1>1, <1>2, <2>3, <2>4, <2>6 DEF BatchInv
  <1> QED
    BY <1>4, <1>5 DEF EndPart

LEMMA BatchNext == BatchInv /\ [Next]_vars => BatchInv'
  <1> SUFFICES ASSUME BatchInv, [Next]_vars PROVE BatchInv'
    OBVIOUS
  <1>1. CASE Select
    <2>1. /\ at' = "discover" /\ mode' # "topup" /\ at = "idle"
          /\ UNCHANGED <<known, batch, held, found, ledger>>
      BY <1>1, Begins DEF Select
    <2> QED
      BY <2>1 DEF BatchInv, Gathered
  <1>2. CASE Answers
    BY <1>2, BatchAnswers
  <1>3. CASE Raises
    BY <1>3 DEF Raises, tableVars, BatchInv, Gathered
  <1>4. CASE TopUp
    <2>1. /\ at = "discover" /\ at' = at /\ mode = "slots" /\ mode' = "topup"
          /\ held' = [batch |-> batch, seen |-> seen] /\ batch' = {} /\ UNCHANGED <<found, ledger, known>>
      BY <1>4 DEF TopUp, tableVars
    <2>2. Gathered' = Gathered
      BY <2>1 DEF Gathered, BatchInv, NoBatch
    <2> QED
      BY <2>1, <2>2 DEF BatchInv
  <1>5. CASE EndPart
    BY <1>5, BatchEndsPart
  <1>6. CASE Fetch \/ Abort
    BY <1>6, PassEnds DEF Fetch, Abort
  <1>7. CASE Publish
    <2>1. UNCHANGED <<at, mode, batch, held, found, ledger>> /\ known' \subseteq known
      BY <1>7 DEF Publish, passVars
    <2> QED
      BY <2>1 DEF BatchInv, Gathered
  <1>8. CASE (\E p \in Range(BenignPool) : CooldownLapses(p)) \/ UNCHANGED vars
    <2>1. UNCHANGED <<at, mode, batch, held, found, ledger, known>>
      BY <1>8 DEF CooldownLapses, passVars, vars, tableVars
    <2> QED
      BY <2>1 DEF BatchInv, Gathered
  <1> QED
    BY <1>1, <1>2, <1>3, <1>4, <1>5, <1>6, <1>7, <1>8 DEF Next, Discover

LEMMA BatchAlways == Spec => []BatchInv
  BY BatchInit, BatchNext, PTL DEF Spec

\* What the candidates table calls returned is fetched in the pass that returned it: the second
\* filter of a top-up takes back what it drops.
THEOREM ReturnedReachesFetch == Spec => []ReturnedIsFetched
  <1>1. BatchInv => ReturnedIsFetched
    BY DEF BatchInv, ReturnedIsFetched, Gathered, NoBatch
  <1> QED
    BY <1>1, BatchAlways, PTL

\* What a pass is about to fetch is new: no key is stored, refused or remembered as a duplicate.
THEOREM FetchedIsNew == Spec => [](at = "fetch" => \A c \in found : c.key \notin known)
  <1>1. BatchInv => (at = "fetch" => \A c \in found : c.key \notin known)
    BY DEF BatchInv, Gathered
  <1> QED
    BY <1>1, BatchAlways, PTL
-----------------------------------------------------------------------------
(***************************************************************************)
(* The pass under way.  Each discovery asks providers of one class only;   *)
(* what it gathers is within its share of the limit, one candidate for a   *)
(* key, and of keys it has met.                                            *)
(***************************************************************************)
Side(class) == IF class = "benign" THEN Range(BenignPool) ELSE Providers \ Range(BenignPool)
AsksOf(class) == [from : Side(class), slot : Nat, primary : BOOLEAN]
OfSide(class) == [key : Keys, from : Side(class)]
GoodParts == {p \in PartType : p.names # <<>> /\ Range(p.names) \subseteq Side(p.class) /\ p.limit > 0}

\* The first d of n slots share this much of the limit.
Share(limit, n, i) == limit \div n + (IF i <= limit % n THEN 1 ELSE 0)
Given(limit, n, d) == d * (limit \div n) + AtMost(d, limit % n)
Slotted(p) == Len(IF p.class = "malware" THEN Active ELSE p.names)

PlanInv ==
  /\ parts \in Seq(GoodParts)
  /\ at = "discover" <=> parts # <<>>
  /\ at = "discover" => mode \in {"slots", "chain", "topup"}
  /\ at # "discover" => batch = {} /\ seen = {} /\ held = NoBatch
  /\ Len(parts) <= 2
  /\ Len(parts) = 2 => parts[1].class = "malware" /\ parts[2].class = "benign"

OneEach(C) == \A c, d \in C : c.key = d.key => c = d
Gathers(b, s, class) ==
  /\ b \subseteq OfSide(class) /\ IsFiniteSet(b) /\ OneEach(b) /\ \A c \in b : c.key \in s

WorkInv ==
  at = "discover" =>
    /\ todo \in Seq(AsksOf(part.class))
    /\ Gathers(batch, seen, part.class) /\ Gathers(held.batch, held.seen, part.class)
    /\ IF mode = "topup" THEN Cardinality(held.batch) < part.limit ELSE held = NoBatch
    /\ mode # "slots" => Cardinality(batch) <= Limit
    /\ mode = "slots" =>
         LET n == Slotted(part)   total == AtMost(part.limit, n)   d == total - Len(todo) IN
         /\ n > 0 /\ d \in 0..total /\ Cardinality(batch) <= Given(part.limit, n, d)
         /\ \A i \in 1..Len(todo) : todo[i].slot = Share(part.limit, n, d + i)

Planned == CASE Len(parts) = 1 -> part.limit [] Len(parts) = 2 -> part.limit + parts[2].limit [] OTHER -> 0
FoundInv ==
  /\ found \subseteq Candidates /\ IsFiniteSet(found)
  /\ \A c, d \in found : c.key = d.key /\ ClassOf(c) = ClassOf(d) => c = d
  /\ \A i \in 1..Len(parts) : \A c \in found : ClassOf(c) # parts[i].class
  /\ Cardinality(found) + Planned <= FetchLimit

AskedInv ==
  at # "idle" /\ plan.wants \in {"benign", "mixed"} =>
    \/ \E p \in Range(BenignPool) : requested[p] > 0
    \/ Len(parts) = 2
    \/ at = "discover" /\ part.class = "benign" /\ todo # <<>> /\ batch = {} /\ mode # "topup"

-----------------------------------------------------------------------------
(***************************************************************************)
(* What the operators return.                                              *)
(***************************************************************************)
LEMMA ElementsAre ==
  ASSUME NEW S, NEW q \in Seq(S)
  PROVE  /\ Range(q) \subseteq S /\ IsFiniteSet(Range(q)) /\ q \in Seq(Range(q))
         /\ q # <<>> => q[1] \in Range(q)
  <1>1. Len(q) \in Nat /\ DOMAIN q = 1..Len(q) /\ q \in [1..Len(q) -> S]
    BY LenProperties
  <1>2. q \in Surjection(1..Len(q), Range(q))
    BY <1>1 DEF Range, Surjection
  <1>3. IsFiniteSet(1..Len(q))
    BY <1>1, FS_Interval
  <1>4. IsFiniteSet(Range(q))
    BY <1>2, <1>3, FS_Surjection
  <1>5. q \in [1..Len(q) -> Range(q)]
    BY <1>1 DEF Range
  <1>6. q \in Seq(Range(q))
    BY <1>1, <1>5, SeqDef
  <1>7. q # <<>> => 1 \in 1..Len(q)
    BY <1>1, EmptySeq
  <1> QED
    BY <1>1, <1>4, <1>6, <1>7 DEF Range

LEMMA SeqInRange ==
  ASSUME NEW S, NEW T, NEW q \in Seq(S), Range(q) \subseteq T
  PROVE  q \in Seq(T)
  BY ElementsAre, SeqMonotonic

\* Every order of a finite set is a sequence of it, empty only if the set is.
LEMMA OrdersOf ==
  ASSUME NEW S, IsFiniteSet(S), NEW q \in SetToSeqs(S)
  PROVE  q \in Seq(S) /\ (S # {} => q # <<>>)
  <1>1. Cardinality(S) \in Nat
    BY FS_CardinalityType
  <1>2. q \in [1..Cardinality(S) -> S]
    BY DEF SetToSeqs
  <1>3. q \in Seq(S)
    BY <1>1, <1>2, SeqDef
  <1>4. DOMAIN q = 1..Cardinality(S)
    BY <1>2
  <1>5. ASSUME S # {} PROVE q # <<>>
    <2>1. 1 \in DOMAIN q
      BY <1>1, <1>4, <1>5, FS_EmptySet
    <2> QED
      BY <2>1
  <1> QED
    BY <1>3, <1>5

LEMMA ConstantTypes ==
  /\ FetchLimit \in Nat /\ FetchLimit > 1 /\ MinAttempts \in Nat \ {0} /\ ZeroRuns \in Nat \ {0}
  /\ EveryN \in Nat \ {0} /\ MaxSamples \in Nat /\ MaxAborts \in Nat
  /\ Active \in Seq(Providers) /\ MalwareFallback \in Seq(Providers) /\ BenignPool \in Seq(Providers)
  /\ LlmChoices \subseteq Seq(Providers) /\ <<>> \notin LlmChoices
  /\ Active # <<>> /\ BenignPool # <<>> /\ IsFiniteSet(Range(BenignPool)) /\ Range(BenignPool) # {}
  /\ Range(BenignPool) \subseteq Providers
  /\ Active \in Seq(Side("malware")) /\ MalwareFallback \in Seq(Side("malware"))
  /\ BenignPool \in Seq(Side("benign")) /\ "malwarebazaar" \in Side("malware")
  <1>1. /\ FetchLimit \in Nat /\ FetchLimit > 1 /\ MinAttempts \in Nat \ {0} /\ ZeroRuns \in Nat \ {0}
        /\ EveryN \in Nat \ {0} /\ MaxSamples \in Nat /\ MaxAborts \in Nat
    BY CollectionAssumption
  <1>2. /\ Active \in Seq(Providers) /\ MalwareFallback \in Seq(Providers) /\ BenignPool \in Seq(Providers)
        /\ LlmChoices \subseteq Seq(Providers) /\ <<>> \notin LlmChoices
    BY CollectionAssumption
  <1>3. "malwarebazaar" \in Range(Active) /\ Range(BenignPool) # {}
    BY CollectionAssumption
  <1>4. Active # <<>> /\ BenignPool # <<>>
    BY <1>3 DEF Range
  <1>5. Range(BenignPool) \cap (Range(Active) \cup Range(MalwareFallback)) = {}
    BY CollectionAssumption
  <1>6. /\ Range(Active) \subseteq Providers /\ Range(MalwareFallback) \subseteq Providers
        /\ Range(BenignPool) \subseteq Providers /\ IsFiniteSet(Range(BenignPool))
    BY <1>2, ElementsAre
  <1>7. Range(Active) \subseteq Side("malware") /\ Range(MalwareFallback) \subseteq Side("malware")
    BY <1>5, <1>6 DEF Side
  <1>8. Active \in Seq(Side("malware")) /\ MalwareFallback \in Seq(Side("malware"))
    BY <1>2, <1>7, SeqInRange
  <1>9. BenignPool \in Seq(Side("benign"))
    BY <1>2, ElementsAre DEF Side
  <1> QED
    BY <1>1, <1>2, <1>3, <1>4, <1>6, <1>7, <1>8, <1>9

LEMMA BenignChoice ==
  ASSUME NEW names \in BenignSources
  PROVE  names \in Seq(Range(BenignPool)) /\ names # <<>>
  <1> DEFINE awake == {p \in Range(BenignPool) : ~Cooled(p)}
  <1> DEFINE asked == IF awake = {} THEN Range(BenignPool) ELSE awake
  <1>1. asked \subseteq Range(BenignPool) /\ asked # {}
    BY ConstantTypes
  <1>2. IsFiniteSet(asked)
    BY <1>1, ConstantTypes, FS_Subset
  <1>3. names \in SetToSeqs(asked)
    BY DEF BenignSources
  <1> HIDE DEF asked
  <1>4. names \in Seq(asked) /\ names # <<>>
    BY <1>1, <1>2, <1>3, OrdersOf
  <1> QED
    BY <1>1, <1>4, SeqMonotonic

\* The names a discovery may start with.
GoodNames(wants) ==
  {q \in Seq(Side(IF wants = "malware" THEN "malware" ELSE "benign")) : q # <<>>}
Wants == {"malware", "benign", "mixed"}

\* The strategy's sources, or those a language model names instead, are of the wanted class.
LEMMA ChoiceIsGood ==
  ASSUME NEW wants \in Wants, NEW choices \in SUBSET GoodNames(wants), Choose(wants, choices)
  PROVE  \E names \in GoodNames(wants) :
           /\ parts' = Parts(wants, names) /\ plan'.wants = wants
           /\ plan' \in [wants : Classes \cup {"mixed", "none"}, byLlm : BOOLEAN]
  <1>1. ASSUME NEW names \in GoodNames(wants), NEW byLlm \in BOOLEAN, Start(wants, names, byLlm)
        PROVE  /\ parts' = Parts(wants, names) /\ plan'.wants = wants
               /\ plan' \in [wants : Classes \cup {"mixed", "none"}, byLlm : BOOLEAN]
    BY <1>1 DEF Start, Wants, Classes
  <1>2. ASSUME NEW names \in LlmChoices, wants # "mixed",
               (wants = "benign") = (Range(names) \subseteq Range(BenignPool))
        PROVE  names \in GoodNames(wants)
    <2>1. names \in Seq(Providers) /\ names # <<>> /\ Range(names) \subseteq Providers
      BY ConstantTypes, ElementsAre
    <2>2. Range(names) \subseteq Range(BenignPool) \/ Range(names) \cap Range(BenignPool) = {}
      BY CollectionAssumption
    <2>3. wants = "benign" => Range(names) \subseteq Side("benign")
      BY <1>2 DEF Side
    <2>4. wants = "malware" => Range(names) \subseteq Side("malware")
      BY <1>2, <2>1, <2>2 DEF Side
    <2>5. Range(names) \subseteq Side(IF wants = "malware" THEN "malware" ELSE "benign")
      BY <1>2, <2>3, <2>4 DEF Wants
    <2> QED
      BY <2>1, <2>5, SeqInRange DEF GoodNames
  <1>3. CASE \E names \in choices : Start(wants, names, FALSE)
    BY <1>1, <1>3
  <1>4. CASE \E names \in LlmChoices :
               /\ wants # "mixed" /\ (wants = "benign") = (Range(names) \subseteq Range(BenignPool))
               /\ Start(wants, names, TRUE)
    BY <1>1, <1>2, <1>4
  <1> QED
    BY <1>3, <1>4 DEF Choose

LEMMA SelectIsGood ==
  ASSUME Select
  PROVE  \E wants \in Wants : \E names \in GoodNames(wants) :
           /\ parts' = Parts(wants, names) /\ plan'.wants = wants
           /\ plan' \in [wants : Classes \cup {"mixed", "none"}, byLlm : BOOLEAN]
  <1>1. BenignSources \subseteq GoodNames("benign") /\ BenignSources \subseteq GoodNames("mixed")
    BY BenignChoice DEF GoodNames, Side
  <1>2. {Active} \subseteq GoodNames("malware")
    BY ConstantTypes DEF GoodNames
  <1>3. {<<"malwarebazaar">>} \subseteq GoodNames("malware")
    BY ConstantTypes DEF GoodNames
  <1>4. \/ Choose("mixed", BenignSources) \/ Choose("benign", BenignSources)
        \/ Choose("malware", {Active}) \/ Choose("malware", {<<"malwarebazaar">>})
    BY DEF Select, BootstrapSelect, SteadyMixed, MalwareCorrection, BenignBalance, Rotation
  <1>5. {"mixed", "benign", "malware"} = Wants
    BY DEF Wants
  <1> QED
    BY <1>1, <1>2, <1>3, <1>4, <1>5, ChoiceIsGood

LEMMA PartIsGood ==
  ASSUME NEW class \in Classes, NEW names \in Seq(Side(class)), names # <<>>, NEW limit \in Nat, limit > 0
  PROVE  Part(class, names, limit) \in GoodParts
  <1>1. Side(class) \subseteq Providers
    BY ConstantTypes DEF Side
  <1>2. names \in Seq(Providers) /\ Range(names) \subseteq Side(class)
    BY <1>1, ElementsAre, SeqMonotonic
  <1>3. (IF class = "malware" THEN "malwarebazaar" \in Range(names) ELSE Len(names) > 1) \in BOOLEAN
    <2>1. ("malwarebazaar" \in Range(names)) \in BOOLEAN
      BY LenProperties
    <2>2. (Len(names) > 1) \in BOOLEAN
      BY LenProperties
    <2> QED
      BY <2>1, <2>2, Zenon
  <1>4. Part(class, names, limit) \in PartType
    BY <1>2, <1>3 DEF Part, PartType
  <1>5. /\ Part(class, names, limit).names = names /\ Part(class, names, limit).class = class
        /\ Part(class, names, limit).limit = limit
    BY DEF Part
  <1> QED
    BY <1>2, <1>4, <1>5 DEF GoodParts

\* A pass has one discovery or, if it is mixed, one for either class, within the limit together.
LEMMA PartsAreGood ==
  ASSUME NEW wants \in Wants, NEW names \in GoodNames(wants)
  PROVE  LET ps == Parts(wants, names) IN
         /\ ps \in Seq(GoodParts)
         /\ \/ /\ Len(ps) = 1 /\ ps[1].limit = FetchLimit /\ (wants # "malware" => ps[1].class = "benign")
            \/ /\ Len(ps) = 2 /\ ps[1].limit + ps[2].limit = FetchLimit
               /\ ps[1].class = "malware" /\ ps[2].class = "benign"
  <1>1. CASE wants = "mixed"
    <2> DEFINE m == Part("malware", Active, (FetchLimit + 1) \div 2)
    <2> DEFINE b == Part("benign", names, FetchLimit \div 2)
    <2>1. Parts(wants, names) = <<m, b>>
      BY <1>1 DEF Parts
    <2>2. /\ (FetchLimit + 1) \div 2 \in Nat /\ (FetchLimit + 1) \div 2 > 0
          /\ FetchLimit \div 2 \in Nat /\ FetchLimit \div 2 > 0
          /\ (FetchLimit + 1) \div 2 + FetchLimit \div 2 = FetchLimit
      BY ConstantTypes
    <2>3. names \in Seq(Side("benign")) /\ names # <<>>
      BY <1>1 DEF GoodNames
    <2>4. m \in GoodParts
      BY <2>2, ConstantTypes, PartIsGood DEF Classes
    <2>5. b \in GoodParts
      BY <2>2, <2>3, PartIsGood DEF Classes
    <2>6. m.limit + b.limit = FetchLimit /\ m.class = "malware" /\ b.class = "benign"
      BY <2>2 DEF Part
    <2> HIDE DEF m, b
    <2>7. /\ <<m, b>> \in Seq(GoodParts) /\ Len(<<m, b>>) = 2 /\ <<m, b>>[1] = m /\ <<m, b>>[2] = b
      BY <2>4, <2>5
    <2> QED
      BY <2>1, <2>6, <2>7
  <1>2. CASE wants # "mixed"
    <2> DEFINE p == Part(wants, names, FetchLimit)
    <2>1. Parts(wants, names) = <<p>>
      BY <1>2 DEF Parts
    <2>2. wants \in Classes /\ names \in Seq(Side(wants)) /\ names # <<>>
      BY <1>2 DEF Wants, Classes, GoodNames
    <2>3. p \in GoodParts
      BY <2>2, ConstantTypes, PartIsGood
    <2>4. p.limit = FetchLimit /\ p.class = wants
      BY DEF Part
    <2> HIDE DEF p
    <2>5. <<p>> \in Seq(GoodParts) /\ Len(<<p>>) = 1 /\ <<p>>[1] = p
      BY <2>3
    <2> QED
      BY <1>2, <2>1, <2>4, <2>5 DEF Wants
  <1> QED
    BY <1>1, <1>2
-----------------------------------------------------------------------------
(***************************************************************************)
(* What a discovery asks: a chain asks providers of its class, at least    *)
(* one; the slots of a slotted one share its limit.                        *)
(***************************************************************************)
LEMMA AsksType ==
  ASSUME NEW class, NEW q \in Seq(Side(class)), NEW b \in BOOLEAN
  PROVE  LET a == [i \in DOMAIN q |-> [from |-> q[i], slot |-> 0, primary |-> b]] IN
         a \in Seq(AsksOf(class)) /\ Len(a) = Len(q)
  <1> DEFINE a == [i \in DOMAIN q |-> [from |-> q[i], slot |-> 0, primary |-> b]]
  <1>1. Len(q) \in Nat /\ DOMAIN q = 1..Len(q) /\ \A i \in 1..Len(q) : q[i] \in Side(class)
    BY LenProperties, ElementOfSeq
  <1>2. a \in [1..Len(q) -> AsksOf(class)]
    BY <1>1 DEF AsksOf
  <1>3. a \in Seq(AsksOf(class))
    BY <1>1, <1>2, SeqDef
  <1>4. Len(a) = Len(q)
    BY <1>1, <1>2, <1>3
  <1> QED
    BY <1>3, <1>4

LEMMA ChainType ==
  ASSUME NEW p \in GoodParts
  PROVE  ChainOf(p) \in Seq(AsksOf(p.class)) /\ ChainOf(p) # <<>>
  <1> DEFINE own == IF p.slots /\ p.class = "malware"
                    THEN Active \o Filter(p.names, Providers \ Range(Active)) ELSE p.names
  <1> DEFINE others == Filter(Pool(p.class), Providers \ Range(own))
  <1> DEFINE first == [i \in DOMAIN own |-> [from |-> own[i], slot |-> 0, primary |-> TRUE]]
  <1> DEFINE last == [i \in DOMAIN others |-> [from |-> others[i], slot |-> 0, primary |-> FALSE]]
  <1>1. ChainOf(p) = first \o last
    BY DEF ChainOf
  <1>2. p.names \in Seq(Side(p.class)) /\ p.names # <<>> /\ p.class \in Classes
    BY SeqInRange DEF GoodParts, PartType
  <1>3. own \in Seq(Side(p.class)) /\ own # <<>>
    <2>1. CASE p.slots /\ p.class = "malware"
      <3> DEFINE more == Filter(p.names, Providers \ Range(Active))
      <3>1. more \in Seq(Side("malware") \cap (Providers \ Range(Active)))
        BY <1>2, <2>1, FilterType
      <3>2. more \in Seq(Side("malware"))
        BY <3>1, SeqMonotonic
      <3>3. Active \o more \in Seq(Side("malware")) /\ Active \o more # <<>>
        BY <3>2, ConstantTypes, ConcatProperties, ConcatSimplifications
      <3> QED
        BY <2>1, <3>3
    <2>2. CASE ~(p.slots /\ p.class = "malware")
      BY <1>2, <2>2
    <2> QED
      BY <2>1, <2>2
  <1>4. others \in Seq(Side(p.class))
    <2>1. Pool(p.class) \in Seq(Side(p.class))
      BY <1>2, ConstantTypes DEF Pool, Classes
    <2>2. others \in Seq(Side(p.class) \cap (Providers \ Range(own)))
      BY <2>1, FilterType
    <2> QED
      BY <2>2, SeqMonotonic
  <1> HIDE DEF own, others
  <1>5. first \in Seq(AsksOf(p.class)) /\ Len(first) = Len(own)
    BY <1>3, AsksType
  <1>6. last \in Seq(AsksOf(p.class))
    BY <1>4, AsksType
  <1>7. first # <<>>
    BY <1>3, <1>5, EmptySeq
  <1> HIDE DEF first, last
  <1> QED
    BY <1>1, <1>5, <1>6, <1>7, ConcatProperties, ConcatSimplifications

\* Division with rest, as far as the slots need it.
LEMMA DivMod ==
  ASSUME NEW a \in Nat, NEW n \in Nat, n > 0
  PROVE  /\ a \div n \in Nat /\ a % n \in 0..n - 1 /\ a = (n * (a \div n)) + (a % n)
         /\ a < n => a \div n = 0 /\ a % n = a
  OBVIOUS

\* The slots together are the limit, and none of them is empty.
LEMMA SlotsShareLimit ==
  ASSUME NEW limit \in Nat, limit > 0, NEW n \in Nat, n > 0
  PROVE  /\ AtMost(limit, n) \in 1..n
         /\ Given(limit, n, 0) = 0 /\ Given(limit, n, AtMost(limit, n)) = limit
         /\ \A i \in 1..AtMost(limit, n) :
              /\ Share(limit, n, i) \in Nat /\ Share(limit, n, i) > 0
              /\ Given(limit, n, i - 1) \in Nat
              /\ Given(limit, n, i) = Given(limit, n, i - 1) + Share(limit, n, i)
  <1> DEFINE base == limit \div n
  <1> DEFINE rest == limit % n
  <1>1. /\ base \in Nat /\ rest \in 0..n - 1 /\ limit = n * base + rest
        /\ limit < n => base = 0 /\ rest = limit
    BY DivMod
  <1>2. n <= limit => base > 0
    <2>1. n <= limit /\ base = 0 => FALSE
      BY <1>1
    <2> QED
      BY <1>1, <2>1
  <1> HIDE DEF base, rest
  <1>3. \A i : /\ Share(limit, n, i) = base + (IF i <= rest THEN 1 ELSE 0)
               /\ Given(limit, n, i) = i * base + AtMost(i, rest)
    BY DEF Share, Given, base, rest
  <1>4. CASE limit < n
    BY <1>1, <1>3, <1>4 DEF AtMost
  <1>5. CASE n <= limit
    <2>1. AtMost(limit, n) = n
      BY <1>5 DEF AtMost
    <2>2. Given(limit, n, 0) = 0 /\ Given(limit, n, n) = limit
      BY <1>1, <1>3 DEF AtMost
    <2>3. ASSUME NEW i \in 1..n
          PROVE  /\ Share(limit, n, i) \in Nat /\ Share(limit, n, i) > 0
                 /\ Given(limit, n, i - 1) \in Nat
                 /\ Given(limit, n, i) = Given(limit, n, i - 1) + Share(limit, n, i)
      <3>1. i * base = (i - 1) * base + base /\ (i - 1) * base \in Nat
        BY <1>1
      <3>2. AtMost(i, rest) = AtMost(i - 1, rest) + (IF i <= rest THEN 1 ELSE 0)
        BY <1>1 DEF AtMost
      <3>3. AtMost(i - 1, rest) \in Nat
        BY <1>1 DEF AtMost
      <3> QED
        BY <1>1, <1>2, <1>3, <1>5, <3>1, <3>2, <3>3
    <2> QED
      BY <2>1, <2>2, <2>3
  <1> QED
    BY <1>4, <1>5

LEMMA SlotsType ==
  ASSUME NEW p \in GoodParts
  PROVE  /\ Slotted(p) \in Nat /\ Slotted(p) > 0
         /\ SlotsOf(p) \in Seq(AsksOf(p.class)) /\ Len(SlotsOf(p)) = AtMost(p.limit, Slotted(p))
         /\ \A i \in 1..Len(SlotsOf(p)) : SlotsOf(p)[i].slot = Share(p.limit, Slotted(p), i)
  <1> DEFINE names == IF p.class = "malware" THEN Active ELSE p.names
  <1> DEFINE n == Slotted(p)
  <1> DEFINE total == AtMost(p.limit, n)
  <1>1. p.names \in Seq(Side(p.class)) /\ p.names # <<>> /\ p.limit \in Nat /\ p.limit > 0
    BY SeqInRange DEF GoodParts, PartType
  <1>2. names \in Seq(Side(p.class)) /\ names # <<>>
    BY <1>1, ConstantTypes
  <1>3. n = Len(names)
    BY DEF Slotted
  <1> HIDE DEF names
  <1>4. n \in Nat /\ n > 0 /\ \A i \in 1..n : names[i] \in Side(p.class)
    BY <1>2, <1>3, EmptySeq, ElementOfSeq
  <1>5. SlotsOf(p) = [i \in 1..total |-> [from |-> names[i], slot |-> Share(p.limit, n, i), primary |-> TRUE]]
    BY <1>3 DEF SlotsOf, Share, names
  <1> HIDE DEF n
  <1>6. total \in 1..n /\ \A i \in 1..total : Share(p.limit, n, i) \in Nat
    BY <1>1, <1>4, SlotsShareLimit
  <1> HIDE DEF total
  <1>7. SlotsOf(p) \in [1..total -> AsksOf(p.class)]
    BY <1>4, <1>5, <1>6 DEF AsksOf
  <1>8. total \in Nat
    BY <1>4, <1>6
  <1>9. SlotsOf(p) \in Seq(AsksOf(p.class)) /\ Len(SlotsOf(p)) = total
    BY <1>7, <1>8, SeqDef
  <1>10. \A i \in 1..total : SlotsOf(p)[i].slot = Share(p.limit, n, i)
    BY <1>5
  <1> QED
    BY <1>4, <1>9, <1>10 DEF total, n

LEMMA Begun ==
  ASSUME NEW p \in GoodParts, Begin(p)
  PROVE  /\ mode' \in {"slots", "chain"} /\ todo' \in Seq(AsksOf(p.class)) /\ todo' # <<>>
         /\ mode' = "slots" => todo' = SlotsOf(p)
  <1>1. p.names # <<>> /\ p.limit \in Nat /\ p.limit > 0
    BY DEF GoodParts, PartType
  <1>2. SlotsOf(p) # <<>>
    <2>1. AtMost(p.limit, Slotted(p)) > 0
      BY <1>1, SlotsType DEF AtMost
    <2> QED
      BY <2>1, SlotsType, EmptySeq
  <1>3. \/ mode' = "slots" /\ todo' = SlotsOf(p)
        \/ mode' = "chain" /\ todo' = ChainOf(p)
    BY <1>1 DEF Begin
  <1> QED
    BY <1>2, <1>3, SlotsType, ChainType

LEMMA NothingGathered ==
  ASSUME NEW class
  PROVE  Gathers({}, {}, class) /\ Gathers(NoBatch.batch, NoBatch.seen, class)
  BY FS_EmptySet DEF Gathers, OneEach, NoBatch

\* A discovery that begins is in order.
LEMMA Starts ==
  ASSUME at' = "discover", parts' \in Seq(GoodParts), parts' # <<>>, Begin(Head(parts')),
         batch' = {}, seen' = {}, held' = NoBatch
  PROVE  WorkInv' /\ mode' \in {"slots", "chain"} /\ todo' # <<>>
  <1>1. PICK p \in GoodParts : p = Head(parts')
    BY HeadTailProperties
  <1>2. part' = p
    BY <1>1 DEF part
  <1>3. /\ mode' \in {"slots", "chain"} /\ todo' \in Seq(AsksOf(p.class)) /\ todo' # <<>>
        /\ mode' = "slots" => todo' = SlotsOf(p)
    BY <1>1, Begun
  <1>4. p.limit \in Nat /\ p.limit > 0
    BY DEF GoodParts, PartType
  <1>5. Gathers(batch', seen', p.class) /\ Gathers(held'.batch, held'.seen, p.class)
    BY NothingGathered
  <1>6. Cardinality(batch') = 0
    BY FS_EmptySet
  <1>7. mode' # "slots" => Cardinality(batch') <= Limit'
    BY <1>2, <1>3, <1>4, <1>6 DEF Limit
  <1>8. ASSUME mode' = "slots"
        PROVE  LET n == Slotted(p)   total == AtMost(p.limit, n)   d == total - Len(todo') IN
               /\ n > 0 /\ d \in 0..total /\ Cardinality(batch') <= Given(p.limit, n, d)
               /\ \A i \in 1..Len(todo') : todo'[i].slot = Share(p.limit, n, d + i)
    <2>1. Slotted(p) \in Nat /\ Slotted(p) > 0 /\ Len(todo') = AtMost(p.limit, Slotted(p))
      BY <1>3, <1>8, SlotsType
    <2>2. /\ AtMost(p.limit, Slotted(p)) \in 1..Slotted(p) /\ Given(p.limit, Slotted(p), 0) = 0
      BY <1>4, <2>1, SlotsShareLimit
    <2>3. \A i \in 1..Len(todo') : todo'[i].slot = Share(p.limit, Slotted(p), i)
      BY <1>3, <1>8, SlotsType
    <2> QED
      BY <1>6, <2>1, <2>2, <2>3
  <1> QED
    BY <1>2, <1>3, <1>5, <1>7, <1>8 DEF WorkInv
-----------------------------------------------------------------------------
(***************************************************************************)
(* One answer: what is taken is fresh, and no more than there is room for. *)
(***************************************************************************)
LEMMA UnionSize ==
  ASSUME NEW S, NEW T, IsFiniteSet(S), IsFiniteSet(T)
  PROVE  /\ IsFiniteSet(S \cup T) /\ {Cardinality(S \cup T), Cardinality(S), Cardinality(T)} \subseteq Nat
         /\ Cardinality(S \cup T) <= Cardinality(S) + Cardinality(T)
  <1>1. IsFiniteSet(S \cap T) /\ Cardinality(S \cap T) \in Nat
    BY FS_Subset, FS_CardinalityType
  <1>2. /\ IsFiniteSet(S \cup T)
        /\ Cardinality(S \cup T) = Cardinality(S) + Cardinality(T) - Cardinality(S \cap T)
    BY FS_Union
  <1>3. Cardinality(S) \in Nat /\ Cardinality(T) \in Nat /\ Cardinality(S \cup T) \in Nat
    BY <1>2, FS_CardinalityType
  <1> QED
    BY <1>1, <1>2, <1>3

LEMMA CandidatesSize ==
  ASSUME NEW keys \in SUBSET Keys, NEW from, NEW new \in SUBSET [key : keys, from : {from}]
  PROVE  /\ IsFiniteSet(new) /\ Cardinality(keys) \in Nat /\ Cardinality(new) \in Nat
         /\ Cardinality(new) <= Cardinality(keys)
  <1>1. IsFiniteSet(keys)
    BY CollectionAssumption, FS_Subset
  <1>2. [c \in new |-> c.key] \in Injection(new, keys)
    BY DEF Injection, IsInjective
  <1>3. IsFiniteSet(new) /\ Cardinality(new) <= Cardinality(keys)
    BY <1>1, <1>2, FS_Injection
  <1> QED
    BY <1>1, <1>3, FS_CardinalityType

\* What is asked of the next provider of a discovery is more than nothing.
LEMMA NextAsk ==
  ASSUME PlanInv, WorkInv, at = "discover", todo # <<>>, ~Full
  PROVE  /\ part \in GoodParts /\ Ask \in AsksOf(part.class) /\ Ask = todo[1]
         /\ Tail(todo) \in Seq(AsksOf(part.class)) /\ Len(Tail(todo)) = Len(todo) - 1
         /\ \A i \in 1..Len(Tail(todo)) : Tail(todo)[i] = todo[i + 1]
         /\ Len(todo) \in Nat /\ Len(todo) > 0
         /\ Limit \in Nat /\ Cardinality(batch) \in Nat
         /\ Request \in Nat /\ Request > 0 /\ Room \in Nat
         /\ mode # "slots" => Room = Limit - Cardinality(batch)
  <1>1. part \in GoodParts
    BY HeadTailProperties DEF PlanInv, part
  <1>2. part.limit \in Nat /\ part.limit > 0
    BY <1>1 DEF GoodParts, PartType
  <1>3. /\ todo \in Seq(AsksOf(part.class)) /\ IsFiniteSet(batch)
        /\ IF mode = "topup" THEN Cardinality(held.batch) < part.limit ELSE held = NoBatch
        /\ IsFiniteSet(held.batch)
    BY DEF WorkInv, Gathers
  <1>4. /\ Ask \in AsksOf(part.class) /\ Tail(todo) \in Seq(AsksOf(part.class))
        /\ Len(Tail(todo)) = Len(todo) - 1 /\ Ask = todo[1]
        /\ \A i \in 1..Len(Tail(todo)) : Tail(todo)[i] = todo[i + 1]
    BY <1>3, HeadTailProperties DEF Ask
  <1>5. Len(todo) \in Nat /\ Len(todo) > 0
    BY <1>3, EmptySeq
  <1>6. Cardinality(batch) \in Nat /\ Cardinality(held.batch) \in Nat
    BY <1>3, FS_CardinalityType
  <1>7. Limit \in Nat /\ Limit > 0
    BY <1>2, <1>3, <1>6 DEF Limit
  <1>8. Ask.slot \in Nat /\ Ask.primary \in BOOLEAN
    BY <1>4 DEF AsksOf
  <1>9. CASE mode = "slots"
    <2>1. PICK n, total, d :
            /\ n = Slotted(part) /\ total = AtMost(part.limit, n) /\ d = total - Len(todo)
            /\ n > 0 /\ d \in 0..total
            /\ \A i \in 1..Len(todo) : todo[i].slot = Share(part.limit, n, d + i)
      BY <1>9 DEF WorkInv
    <2>2. n \in Nat /\ total \in 1..n
      BY <1>1, <1>2, <2>1, SlotsType, SlotsShareLimit
    <2>3. d + 1 \in 1..total
      BY <1>5, <2>1, <2>2
    <2>4. Share(part.limit, n, d + 1) > 0
      BY <1>2, <2>1, <2>2, <2>3, SlotsShareLimit
    <2>5. Ask.slot > 0
      BY <1>4, <1>5, <2>1, <2>4
    <2> QED
      BY <1>1, <1>4, <1>5, <1>6, <1>7, <1>8, <1>9, <2>5 DEF Request, Room
  <1>10. CASE mode # "slots"
    <2>1. Cardinality(batch) < Limit
      BY <1>6, <1>7, <1>10 DEF Full
    <2>2. Request = IF Ask.primary THEN 5 * Limit ELSE Limit - Cardinality(batch)
      BY <1>10 DEF Request
    <2>3. Room = Limit - Cardinality(batch)
      BY <1>10 DEF Room
    <2> QED
      BY <1>1, <1>4, <1>5, <1>6, <1>7, <1>8, <1>10, <2>1, <2>2, <2>3
  <1> QED
    BY <1>9, <1>10

\* A slot that was used up, by an answer or by an error.
LEMMA SlotUsed ==
  ASSUME PlanInv, WorkInv, at = "discover", todo # <<>>, mode = "slots",
         NEW b \in Nat, b <= Cardinality(batch) + Ask.slot
  PROVE  LET n == Slotted(part)   total == AtMost(part.limit, n)   d == total - Len(Tail(todo)) IN
         /\ n > 0 /\ d \in 0..total /\ b <= Given(part.limit, n, d)
         /\ \A i \in 1..Len(Tail(todo)) : Tail(todo)[i].slot = Share(part.limit, n, d + i)
  <1>0. ~Full
    BY DEF Full
  <1>1. PICK n, total, d :
          /\ n = Slotted(part) /\ total = AtMost(part.limit, n) /\ d = total - Len(todo)
          /\ n > 0 /\ d \in 0..total /\ Cardinality(batch) <= Given(part.limit, n, d)
          /\ \A i \in 1..Len(todo) : todo[i].slot = Share(part.limit, n, d + i)
    BY DEF WorkInv
  <1>2. /\ part \in GoodParts /\ Ask = todo[1] /\ Len(todo) \in Nat /\ Len(todo) > 0
        /\ Len(Tail(todo)) = Len(todo) - 1 /\ \A i \in 1..Len(Tail(todo)) : Tail(todo)[i] = todo[i + 1]
        /\ Cardinality(batch) \in Nat
    BY <1>0, NextAsk
  <1>3. part.limit \in Nat /\ part.limit > 0
    BY <1>2 DEF GoodParts, PartType
  <1>4. n \in Nat /\ total \in 1..n
    BY <1>1, <1>2, <1>3, SlotsType, SlotsShareLimit
  <1>5. d + 1 \in 1..total /\ total - Len(Tail(todo)) = d + 1
    BY <1>1, <1>2, <1>4
  <1>6. /\ Share(part.limit, n, d + 1) \in Nat /\ Given(part.limit, n, (d + 1) - 1) \in Nat
        /\ Given(part.limit, n, d + 1) = Given(part.limit, n, (d + 1) - 1) + Share(part.limit, n, d + 1)
    <2>1. \A i \in 1..AtMost(part.limit, n) :
            /\ Share(part.limit, n, i) \in Nat /\ Given(part.limit, n, i - 1) \in Nat
            /\ Given(part.limit, n, i) = Given(part.limit, n, i - 1) + Share(part.limit, n, i)
      <3>1. part.limit \in Nat /\ part.limit > 0 /\ n \in Nat /\ n > 0
        BY <1>1, <1>3, <1>4
      <3> QED
        BY <3>1, SlotsShareLimit
    <2> QED
      BY <1>1, <1>5, <2>1
  <1>7. Given(part.limit, n, d) \in Nat
        /\ Given(part.limit, n, d + 1) = Given(part.limit, n, d) + Share(part.limit, n, d + 1)
    <2>1. (d + 1) - 1 = d
      BY <1>1, <1>4
    <2> QED
      BY <1>6, <2>1
  <1>8. Ask.slot = Share(part.limit, n, d + 1)
    BY <1>1, <1>2
  <1>9. b <= Given(part.limit, n, d + 1)
    BY <1>1, <1>2, <1>6, <1>7, <1>8
  <1>10. \A i \in 1..Len(Tail(todo)) : Tail(todo)[i].slot = Share(part.limit, n, (d + 1) + i)
    <2> SUFFICES ASSUME NEW i \in 1..Len(Tail(todo))
                 PROVE  Tail(todo)[i].slot = Share(part.limit, n, (d + 1) + i)
      OBVIOUS
    <2>1. i + 1 \in 1..Len(todo) /\ Tail(todo)[i] = todo[i + 1]
      BY <1>2
    <2>2. d + (i + 1) = (d + 1) + i
      BY <1>1, <1>2, <1>4
    <2> QED
      BY <1>1, <2>1, <2>2
  <1> QED
    BY <1>1, <1>4, <1>5, <1>9, <1>10
-----------------------------------------------------------------------------
(***************************************************************************)
(* The discovery under way stays in order, step by step.                   *)
(***************************************************************************)
LEMMA WorkAnswers == PlanInv /\ WorkInv /\ Answers => WorkInv'
  <1> SUFFICES ASSUME PlanInv, WorkInv, Answers PROVE WorkInv'
    OBVIOUS
  <1>1. /\ at = "discover" /\ todo # <<>> /\ ~Full /\ todo' = Tail(todo)
        /\ UNCHANGED <<known, at, parts, mode, held>>
    BY DEF Answers, tableVars
  <1>2. PICK keys \in SUBSET Lists[Ask.from] :
          /\ \E taken \in kSubset(AtMost(Room, Cardinality(Fresh(keys))), Fresh(keys)) :
               batch' = batch \cup {[key |-> k, from |-> Ask.from] : k \in taken}
          /\ seen' = seen \cup Fresh(keys)
    BY DEF Answers
  <1>3. PICK from, fresh : from = Ask.from /\ fresh = Fresh(keys)
    OBVIOUS
  <1>4. PICK taken \in kSubset(AtMost(Room, Cardinality(fresh)), fresh) :
          batch' = batch \cup {[key |-> k, from |-> from] : k \in taken}
    BY <1>2, <1>3
  <1>5. PICK class : class = part.class
    OBVIOUS
  <1>6. /\ Ask \in AsksOf(class) /\ Tail(todo) \in Seq(AsksOf(class))
        /\ Room \in Nat /\ Limit \in Nat /\ (mode # "slots" => Room = Limit - Cardinality(batch))
        /\ part.class = class /\ part' = part /\ Limit' = Limit
    BY <1>1, <1>5, NextAsk DEF part, Limit
  <1>7. from \in Side(class) /\ Side(class) \subseteq Providers
    BY <1>3, <1>6, ConstantTypes DEF AsksOf, Side
  <1>8. Lists[from] \subseteq Keys
    BY <1>7 DEF Keys, Range, Providers
  <1>9. fresh \subseteq Keys /\ fresh \cap seen = {} /\ seen' = seen \cup fresh
    BY <1>2, <1>3, <1>8 DEF Fresh
  <1>10. taken \subseteq fresh /\ Cardinality(taken) <= Room
    <2>1. taken \subseteq fresh /\ Cardinality(taken) = AtMost(Room, Cardinality(fresh))
      BY <1>4 DEF kSubset
    <2>2. Cardinality(fresh) \in Nat
      BY <1>9, CollectionAssumption, FS_Subset, FS_CardinalityType
    <2> QED
      BY <1>6, <2>1, <2>2 DEF AtMost
  <1>11. Gathers(batch, seen, class) /\ Gathers(held.batch, held.seen, class)
    BY <1>1, <1>5 DEF WorkInv
  <1>12. /\ Gathers(batch', seen', class) /\ Cardinality(batch') <= Cardinality(batch) + Cardinality(taken)
         /\ Cardinality(batch') \in Nat /\ Cardinality(batch) \in Nat /\ Cardinality(taken) \in Nat
    <2> DEFINE new == {[key |-> k, from |-> from] : k \in taken}
    <2>1. batch' = batch \cup new /\ seen' = seen \cup fresh
      BY <1>4, <1>9
    <2>2. new \in SUBSET [key : taken, from : {from}] /\ taken \in SUBSET Keys
      BY <1>9, <1>10
    <2> HIDE DEF new
    <2>3. /\ IsFiniteSet(new) /\ Cardinality(taken) \in Nat /\ Cardinality(new) \in Nat
          /\ Cardinality(new) <= Cardinality(taken)
      BY <2>2, CandidatesSize
    <2>4. /\ batch \subseteq OfSide(class) /\ IsFiniteSet(batch) /\ OneEach(batch)
          /\ \A c \in batch : c.key \in seen
      BY <1>11 DEF Gathers
    <2>5. /\ IsFiniteSet(batch') /\ Cardinality(batch') \in Nat /\ Cardinality(batch) \in Nat
          /\ Cardinality(batch') <= Cardinality(batch) + Cardinality(new)
      BY <2>1, <2>3, <2>4, UnionSize
    <2>6. \A c \in new : c.key \in fresh /\ c.from = from /\ c = [key |-> c.key, from |-> from]
      BY <1>10, <2>2
    <2>7. OneEach(batch')
      BY <1>9, <2>1, <2>4, <2>6 DEF OneEach
    <2>8. batch' \subseteq OfSide(class)
      BY <1>7, <1>9, <2>1, <2>4, <2>6 DEF OfSide
    <2>9. Gathers(batch', seen', class)
      BY <1>9, <2>1, <2>4, <2>5, <2>6, <2>7, <2>8 DEF Gathers
    <2> QED
      BY <2>3, <2>5, <2>9
  <1>13. Cardinality(batch') <= Cardinality(batch) + Room
    BY <1>6, <1>10, <1>12
  <1>14. mode' # "slots" => Cardinality(batch') <= Limit'
    BY <1>1, <1>6, <1>12, <1>13
  <1>15. ASSUME mode' = "slots"
         PROVE  LET n == Slotted(part)   total == AtMost(part.limit, n)   d == total - Len(todo') IN
                /\ n > 0 /\ d \in 0..total /\ Cardinality(batch') <= Given(part.limit, n, d)
                /\ \A i \in 1..Len(todo') : todo'[i].slot = Share(part.limit, n, d + i)
    <2>1. Cardinality(batch') <= Cardinality(batch) + Ask.slot /\ mode = "slots"
      BY <1>1, <1>13, <1>15 DEF Room
    <2> QED
      BY <1>1, <1>12, <2>1, SlotUsed
  <1>16. IF mode' = "topup" THEN Cardinality(held'.batch) < part'.limit ELSE held' = NoBatch
    BY <1>1, <1>6 DEF WorkInv
  <1> QED
    BY <1>1, <1>6, <1>11, <1>12, <1>14, <1>15, <1>16 DEF WorkInv

LEMMA WorkRaises == PlanInv /\ WorkInv /\ Raises => WorkInv'
  <1> SUFFICES ASSUME PlanInv, WorkInv, Raises PROVE WorkInv'
    OBVIOUS
  <1>1. /\ at = "discover" /\ todo # <<>> /\ ~Full /\ todo' = Tail(todo)
        /\ UNCHANGED <<at, parts, mode, held, batch, seen>>
    BY DEF Raises
  <1>2. /\ Tail(todo) \in Seq(AsksOf(part.class)) /\ part' = part /\ Limit' = Limit
        /\ Cardinality(batch) \in Nat /\ Ask \in AsksOf(part.class)
    BY <1>1, NextAsk DEF part, Limit
  <1>3. Cardinality(batch) <= Cardinality(batch) + Ask.slot
    BY <1>2 DEF AsksOf
  <1>4. ASSUME mode' = "slots"
        PROVE  LET n == Slotted(part)   total == AtMost(part.limit, n)   d == total - Len(todo') IN
               /\ n > 0 /\ d \in 0..total /\ Cardinality(batch') <= Given(part.limit, n, d)
               /\ \A i \in 1..Len(todo') : todo'[i].slot = Share(part.limit, n, d + i)
    BY <1>1, <1>2, <1>3, <1>4, SlotUsed
  <1> QED
    BY <1>1, <1>2, <1>4 DEF WorkInv

LEMMA WorkTopUp == PlanInv /\ WorkInv /\ TopUp => WorkInv'
  <1> SUFFICES ASSUME PlanInv, WorkInv, TopUp PROVE WorkInv'
    OBVIOUS
  <1>1. /\ at = "discover" /\ at' = at /\ mode = "slots" /\ mode' = "topup"
        /\ Cardinality(batch) < part.limit /\ todo' = ChainOf(part)
        /\ held' = [batch |-> batch, seen |-> seen] /\ batch' = {} /\ seen' = {} /\ UNCHANGED parts
    BY DEF TopUp
  <1>2. part \in GoodParts /\ part' = part
    BY <1>1, HeadTailProperties DEF PlanInv, part
  <1>3. todo' \in Seq(AsksOf(part.class))
    BY <1>1, <1>2, ChainType
  <1>4. Gathers(batch, seen, part.class) /\ IsFiniteSet(batch)
    BY <1>1 DEF WorkInv, Gathers
  <1>5. held'.batch = batch /\ held'.seen = seen
    BY <1>1
  <1>6. Gathers(batch', seen', part.class)
    BY <1>1, NothingGathered
  <1>7. Cardinality(batch') = 0 /\ Cardinality(batch) \in Nat /\ part.limit \in Nat
    BY <1>1, <1>2, <1>4, FS_EmptySet, FS_CardinalityType DEF GoodParts, PartType
  <1>8. Limit' = part.limit - Cardinality(batch)
    BY <1>1, <1>2, <1>5 DEF Limit
  <1>9. Cardinality(batch') <= Limit'
    BY <1>1, <1>7, <1>8
  <1> QED
    BY <1>1, <1>2, <1>3, <1>4, <1>5, <1>6, <1>9 DEF WorkInv

LEMMA WorkEndsPart == PlanInv /\ WorkInv /\ EndPart => WorkInv'
  <1> SUFFICES ASSUME PlanInv, WorkInv, EndPart PROVE WorkInv'
    OBVIOUS
  <1>1. at = "discover" /\ batch' = {} /\ seen' = {} /\ held' = NoBatch /\ parts' = Tail(parts)
    BY DEF EndPart
  <1>2. parts' \in Seq(GoodParts)
    BY <1>1, HeadTailProperties DEF PlanInv
  <1>3. CASE parts' = <<>>
    <2>1. at' = "fetch"
      BY <1>3 DEF EndPart
    <2> QED
      BY <2>1 DEF WorkInv
  <1>4. CASE parts' # <<>>
    <2>1. at' = "discover" /\ Begin(Head(parts'))
      BY <1>1, <1>4 DEF EndPart
    <2> QED
      BY <1>1, <1>2, <1>4, <2>1, Starts
  <1> QED
    BY <1>3, <1>4

LEMMA WorkSelect == PlanInv /\ Select => WorkInv' /\ mode' \in {"slots", "chain"} /\ todo' # <<>>
  <1> SUFFICES ASSUME PlanInv, Select PROVE WorkInv' /\ mode' \in {"slots", "chain"} /\ todo' # <<>>
    OBVIOUS
  <1>1. at = "idle" /\ at' = "discover" /\ Begin(Head(parts')) /\ UNCHANGED <<batch, seen, held>>
    BY DEF Select
  <1>2. batch = {} /\ seen = {} /\ held = NoBatch
    BY <1>1 DEF PlanInv
  <1>3. parts' \in Seq(GoodParts) /\ parts' # <<>>
    BY SelectIsGood, PartsAreGood, EmptySeq
  <1> QED
    BY <1>1, <1>2, <1>3, Starts

\* What leaves the discovery as it is, or ends the pass.
LEMMA WorkRests ==
  WorkInv /\ (at' = "idle" \/ at' = "fetch" \/ UNCHANGED <<at, passVars>>) => WorkInv'
  BY DEF WorkInv, passVars, part, Limit

LEMMA Idles ==
  ASSUME EndPass
  PROVE  PlanInv' /\ WorkInv' /\ AskedInv'
  <1>1. at' = "idle" /\ parts' = <<>> /\ batch' = {} /\ seen' = {} /\ held' = NoBatch
    BY DEF EndPass
  <1>2. parts' \in Seq(GoodParts) /\ Len(parts') = 0
    BY <1>1
  <1> QED
    BY <1>1, <1>2 DEF PlanInv, WorkInv, AskedInv

LEMMA WorkNext == PlanInv /\ WorkInv /\ [Next]_vars => WorkInv'
  <1> SUFFICES ASSUME PlanInv, WorkInv, [Next]_vars PROVE WorkInv'
    OBVIOUS
  <1>1. CASE Discover
    BY <1>1, WorkAnswers, WorkRaises, WorkTopUp, WorkEndsPart DEF Discover
  <1>2. CASE Fetch \/ Abort
    BY <1>2, Idles DEF Fetch, Abort
  <1>3. CASE Publish \/ (\E p \in Range(BenignPool) : CooldownLapses(p)) \/ UNCHANGED vars
    BY <1>3, WorkRests DEF Publish, CooldownLapses, vars
  <1> QED
    BY <1>1, <1>2, <1>3, WorkSelect DEF Next

(***************************************************************************)
(* The discoveries still to do.                                            *)
(***************************************************************************)
LEMMA PlanSelect == PlanInv /\ Select => PlanInv'
  <1> SUFFICES ASSUME PlanInv, Select PROVE PlanInv'
    OBVIOUS
  <1>1. at' = "discover" /\ mode' \in {"slots", "chain"}
    BY WorkSelect DEF Select
  <1>2. /\ parts' \in Seq(GoodParts)
        /\ Len(parts') = 1 \/ (Len(parts') = 2 /\ parts'[1].class = "malware" /\ parts'[2].class = "benign")
    BY SelectIsGood, PartsAreGood
  <1>3. parts' # <<>>
    BY <1>2, EmptySeq
  <1>4. Len(parts') <= 2
    <2>1. PICK n \in Nat : n = Len(parts')
      BY <1>2, LenProperties
    <2>2. n = 1 \/ n = 2
      BY <1>2, <2>1
    <2> QED
      BY <2>1, <2>2
  <1>5. Len(parts') = 2 => parts'[1].class = "malware" /\ parts'[2].class = "benign"
    BY <1>2
  <1> QED
    BY <1>1, <1>2, <1>3, <1>4, <1>5, Zenon DEF PlanInv

LEMMA PlanEndsPart == PlanInv /\ EndPart => PlanInv'
  <1> SUFFICES ASSUME PlanInv, EndPart PROVE PlanInv'
    OBVIOUS
  <1>1. at = "discover" /\ batch' = {} /\ seen' = {} /\ held' = NoBatch /\ parts' = Tail(parts)
    BY DEF EndPart
  <1>2. parts \in Seq(GoodParts) /\ parts # <<>> /\ Len(parts) \in Nat /\ Len(parts) <= 2
    BY <1>1 DEF PlanInv
  <1>3. parts' \in Seq(GoodParts) /\ Len(parts') = Len(parts) - 1 /\ Len(parts') \in Nat
    BY <1>1, <1>2, HeadTailProperties
  <1>4. Len(parts') <= 1
    BY <1>2, <1>3
  <1>5. parts' = <<>> => at' = "fetch"
    BY DEF EndPart
  <1>6. parts' # <<>> => at' = "discover" /\ mode' \in {"slots", "chain"}
    BY <1>1, Begins DEF EndPart
  <1> QED
    BY <1>1, <1>3, <1>4, <1>5, <1>6 DEF PlanInv

LEMMA PlanNext == PlanInv /\ [Next]_vars => PlanInv'
  <1> SUFFICES ASSUME PlanInv, [Next]_vars PROVE PlanInv'
    OBVIOUS
  <1>1. CASE Answers \/ Raises \/ TopUp
    <2>1. at = "discover" /\ at' = at /\ parts' = parts /\ mode' \in {mode, "topup"}
      BY <1>1 DEF Answers, Raises, TopUp
    <2> QED
      BY <2>1 DEF PlanInv
  <1>2. CASE Fetch \/ Abort
    BY <1>2, Idles DEF Fetch, Abort
  <1>3. CASE Publish \/ (\E p \in Range(BenignPool) : CooldownLapses(p)) \/ UNCHANGED vars
    <2>1. UNCHANGED <<at, passVars>>
      BY <1>3 DEF Publish, CooldownLapses, vars
    <2> QED
      BY <2>1 DEF PlanInv, passVars
  <1> QED
    BY <1>1, <1>2, <1>3, PlanSelect, PlanEndsPart DEF Next, Discover
-----------------------------------------------------------------------------
(***************************************************************************)
(* What the pass has found: each discovery that ends adds candidates of    *)
(* its own class, no more than its share of the limit.                     *)
(***************************************************************************)
LEMMA PartGathers ==
  ASSUME PlanInv, WorkInv, EndPart
  PROVE  \E A : /\ found' = found \cup A /\ A \subseteq OfSide(part.class)
                /\ IsFiniteSet(A) /\ OneEach(A) /\ Cardinality(A) <= part.limit
  <1>1. at = "discover" /\ part \in GoodParts
    BY HeadTailProperties DEF PlanInv, part, EndPart
  <1>2. part.limit \in Nat /\ part.limit > 0
    BY <1>1 DEF GoodParts, PartType
  <1>3. Gathers(batch, seen, part.class) /\ Gathers(held.batch, held.seen, part.class)
    BY <1>1 DEF WorkInv
  <1>4. Cardinality(batch) \in Nat /\ Cardinality(held.batch) \in Nat
    BY <1>3, FS_CardinalityType DEF Gathers
  <1>5. CASE mode = "slots"
    <2>1. found' = found \cup batch
      BY <1>5 DEF EndPart
    <2>2. Len(todo) = 0
      BY <1>5 DEF EndPart, Full
    <2>3. PICK n, total :
            /\ n = Slotted(part) /\ total = AtMost(part.limit, n) /\ n > 0
            /\ Cardinality(batch) <= Given(part.limit, n, total - Len(todo))
      BY <1>1, <1>5 DEF WorkInv
    <2>4. n \in Nat /\ total \in 1..n /\ Given(part.limit, n, total) = part.limit
      BY <1>1, <1>2, <2>3, SlotsType, SlotsShareLimit
    <2>5. total - Len(todo) = total
      BY <2>2, <2>4
    <2>6. Cardinality(batch) <= part.limit
      BY <2>3, <2>4, <2>5
    <2> QED
      BY <1>3, <2>1, <2>6 DEF Gathers
  <1>6. CASE mode = "chain"
    <2>1. found' = found \cup batch
      BY <1>6 DEF EndPart
    <2>2. Cardinality(batch) <= part.limit
      BY <1>1, <1>6 DEF WorkInv, Limit
    <2> QED
      BY <1>3, <2>1, <2>2 DEF Gathers
  <1>7. CASE mode = "topup"
    <2> DEFINE new == {c \in batch : c.key \notin held.seen}
    <2> DEFINE A == held.batch \cup new
    <2>1. found' = found \cup A
      BY <1>7 DEF EndPart, ToppedUp
    <2>2. /\ IsFiniteSet(new) /\ Cardinality(new) \in Nat /\ Cardinality(new) <= Cardinality(batch)
      BY <1>3, FS_Subset, FS_CardinalityType DEF Gathers
    <2>3. Cardinality(batch) <= part.limit - Cardinality(held.batch)
      BY <1>1, <1>7 DEF WorkInv, Limit
    <2>4. IsFiniteSet(held.batch)
      BY <1>3 DEF Gathers
    <2>5. A \subseteq OfSide(part.class) /\ OneEach(A)
      BY <1>3 DEF Gathers, OneEach
    <2>6. /\ IsFiniteSet(A) /\ Cardinality(A) \in Nat
          /\ Cardinality(A) <= Cardinality(held.batch) + Cardinality(new)
      BY <2>2, <2>4, UnionSize
    <2>7. Cardinality(A) <= part.limit
      BY <1>2, <1>4, <2>2, <2>3, <2>6
    <2> QED
      BY <2>1, <2>5, <2>6, <2>7
  <1> QED
    BY <1>1, <1>5, <1>6, <1>7 DEF PlanInv

LEMMA ClassOfSide ==
  ASSUME NEW class \in Classes, NEW c \in OfSide(class)
  PROVE  ClassOf(c) = class /\ c \in Candidates
  BY ConstantTypes DEF OfSide, Side, ClassOf, Classes, Candidates

\* What the discoveries still to do may add to what is found.
LEMMA PlannedParts ==
  ASSUME PlanInv, parts # <<>>
  PROVE  /\ part = parts[1] /\ part \in GoodParts /\ part.limit \in Nat /\ part.class \in Classes
         /\ \/ Len(parts) = 1 /\ Tail(parts) = <<>> /\ Planned = part.limit
            \/ /\ Len(parts) = 2 /\ Len(Tail(parts)) = 1 /\ Tail(parts)[1] = parts[2]
               /\ parts[2] \in GoodParts /\ parts[2].limit \in Nat /\ parts[2].class # part.class
               /\ Planned = part.limit + parts[2].limit
  <1>1. parts \in Seq(GoodParts) /\ Len(parts) \in Nat /\ Len(parts) > 0 /\ Len(parts) <= 2
    BY EmptySeq DEF PlanInv
  <1>2. /\ part = parts[1] /\ part \in GoodParts /\ Tail(parts) \in Seq(GoodParts)
        /\ Len(Tail(parts)) = Len(parts) - 1 /\ \A i \in 1..Len(Tail(parts)) : Tail(parts)[i] = parts[i + 1]
    BY <1>1, HeadTailProperties DEF part
  <1>3. \A p \in GoodParts : p.limit \in Nat /\ p.class \in Classes
    BY DEF GoodParts, PartType
  <1>4. CASE Len(parts) = 1
    <2>1. Len(Tail(parts)) = 0
      BY <1>2, <1>4
    <2>2. Tail(parts) = <<>>
      BY <1>2, <2>1, EmptySeq
    <2> QED
      BY <1>2, <1>3, <1>4, <2>2 DEF Planned
  <1>5. CASE Len(parts) = 2
    <2>0. Len(Tail(parts)) = 1 /\ parts[2] \in GoodParts
      BY <1>1, <1>2, <1>5, ElementOfSeq
    <2>1. Len(Tail(parts)) = 1 /\ Tail(parts)[1] = parts[2] /\ parts[2] \in GoodParts
      <3>1. 1 \in 1..Len(Tail(parts)) /\ 1 + 1 = 2
        BY <2>0
      <3>2. Tail(parts)[1] = parts[1 + 1]
        BY <1>2, <3>1
      <3> QED
        BY <2>0, <3>1, <3>2
    <2>2. parts[2].class # part.class
      BY <1>2, <1>5 DEF PlanInv
    <2> QED
      BY <1>2, <1>3, <1>5, <2>1, <2>2 DEF Planned
  <1>6. Len(parts) = 1 \/ Len(parts) = 2
    <2>1. PICK n \in Nat : n = Len(parts)
      BY <1>1
    <2>2. n = 1 \/ n = 2
      BY <1>1, <2>1
    <2> QED
      BY <2>1, <2>2
  <1> QED
    BY <1>2, <1>3, <1>4, <1>5, <1>6

LEMMA FoundEndsPart == PlanInv /\ WorkInv /\ FoundInv /\ EndPart => FoundInv'
  <1> SUFFICES ASSUME PlanInv, WorkInv, FoundInv, EndPart PROVE FoundInv'
    OBVIOUS
  <1>1. parts # <<>> /\ parts' = Tail(parts)
    BY DEF PlanInv, EndPart
  <1>2. PICK A : /\ found' = found \cup A /\ A \subseteq OfSide(part.class)
                 /\ IsFiniteSet(A) /\ OneEach(A) /\ Cardinality(A) <= part.limit
    BY PartGathers
  <1>3. /\ part = parts[1] /\ part.limit \in Nat /\ part.class \in Classes
        /\ \/ Len(parts) = 1 /\ Tail(parts) = <<>> /\ Planned = part.limit
           \/ /\ Len(parts) = 2 /\ Len(Tail(parts)) = 1 /\ Tail(parts)[1] = parts[2]
              /\ parts[2].limit \in Nat /\ parts[2].class # part.class
              /\ Planned = part.limit + parts[2].limit
    BY <1>1, PlannedParts
  <1>4. \A c \in A : ClassOf(c) = part.class /\ c \in Candidates
    BY <1>2, <1>3, ClassOfSide
  <1>5. /\ found \subseteq Candidates /\ IsFiniteSet(found) /\ Cardinality(found) + Planned <= FetchLimit
        /\ \A c, d \in found : c.key = d.key /\ ClassOf(c) = ClassOf(d) => c = d
        /\ \A i \in 1..Len(parts) : \A c \in found : ClassOf(c) # parts[i].class
    BY DEF FoundInv
  <1>6. /\ IsFiniteSet(found') /\ Cardinality(found') \in Nat /\ Cardinality(found) \in Nat
        /\ Cardinality(A) \in Nat /\ Cardinality(found') <= Cardinality(found) + Cardinality(A)
    BY <1>2, <1>5, UnionSize
  <1>7. found' \subseteq Candidates
    BY <1>2, <1>4, <1>5
  <1>8. \A c \in found : ClassOf(c) # part.class
    BY <1>3, <1>5
  <1>9. \A c, d \in found' : c.key = d.key /\ ClassOf(c) = ClassOf(d) => c = d
    <2> SUFFICES ASSUME NEW c \in found', NEW d \in found', c.key = d.key, ClassOf(c) = ClassOf(d)
                 PROVE  c = d
      BY DEF ClassOf
    <2>1. CASE c \in A /\ d \in A
      BY <1>2, <2>1 DEF OneEach
    <2>2. CASE c \in found /\ d \in found
      BY <1>5, <2>2
    <2> QED
      BY <1>2, <1>4, <1>8, <2>1, <2>2
  <1>10. CASE Len(parts) = 1
    <2>0. Len(parts') = 0
      BY <1>1, <1>3, <1>10
    <2>1. Len(parts') = 0 /\ Planned' = 0
      BY <2>0 DEF Planned
    <2>2. Cardinality(found') + Planned' <= FetchLimit
      BY <1>2, <1>3, <1>5, <1>6, <1>10, <2>1, ConstantTypes
    <2>3. \A i \in 1..Len(parts') : \A c \in found' : ClassOf(c) # parts'[i].class
      BY <2>1
    <2> QED
      BY <1>6, <1>7, <1>9, <2>2, <2>3 DEF FoundInv, ClassOf
  <1>11. CASE Len(parts) = 2
    <2>1. Len(parts') = 1 /\ parts'[1] = parts[2]
      <3>1. Len(parts) # 1
        BY <1>11
      <3> QED
        BY <1>1, <1>3, <3>1, Zenon
    <2>0. part' = parts[2]
      <3>1. Head(parts') = parts'[1]
        BY DEF Head
      <3> QED
        BY <2>1, <3>1 DEF part
    <2>2. Planned' = parts[2].limit
      BY <2>0, <2>1 DEF Planned
    <2>3. Cardinality(found') + Planned' <= FetchLimit
      BY <1>2, <1>3, <1>5, <1>6, <1>11, <2>2, ConstantTypes
    <2>4. \A c \in found' : ClassOf(c) # parts[2].class
      BY <1>2, <1>3, <1>4, <1>5, <1>11
    <2>5. \A i \in 1..Len(parts') : \A c \in found' : ClassOf(c) # parts'[i].class
      BY <2>1, <2>4
    <2> QED
      BY <1>6, <1>7, <1>9, <2>3, <2>5 DEF FoundInv, ClassOf
  <1> QED
    BY <1>3, <1>10, <1>11

LEMMA FoundSelect == BatchInv /\ Select => FoundInv'
  <1> SUFFICES ASSUME BatchInv, Select PROVE FoundInv'
    OBVIOUS
  <1>1. found' = {}
    BY DEF Select, BatchInv
  <1>2. PICK ps : ps = parts'
    OBVIOUS
  <1>3. /\ ps \in Seq(GoodParts)
        /\ \/ Len(ps) = 1 /\ ps[1].limit = FetchLimit
           \/ Len(ps) = 2 /\ ps[1].limit + ps[2].limit = FetchLimit
    BY <1>2, SelectIsGood, PartsAreGood
  <1>4. part' = ps[1]
    BY <1>2 DEF part, Head
  <1>5. Planned' = FetchLimit
    <2>1. Planned' = CASE Len(ps) = 1 -> ps[1].limit [] Len(ps) = 2 -> ps[1].limit + ps[2].limit
                       [] OTHER -> 0
      BY <1>2, <1>4 DEF Planned
    <2> QED
      BY <1>3, <2>1
  <1>6. IsFiniteSet(found') /\ Cardinality(found') = 0
    BY <1>1, FS_EmptySet
  <1>7. Cardinality(found') + Planned' <= FetchLimit
    BY <1>5, <1>6, ConstantTypes
  <1> QED
    BY <1>1, <1>6, <1>7 DEF FoundInv

LEMMA FoundEndsPass == EndPass => FoundInv'
  <1> SUFFICES ASSUME EndPass PROVE FoundInv'
    OBVIOUS
  <1>1. found' = {} /\ parts' = <<>>
    BY DEF EndPass
  <1>2. Len(parts') = 0
    BY <1>1
  <1>3. Planned' = 0
    BY <1>2 DEF Planned
  <1>4. IsFiniteSet(found') /\ Cardinality(found') = 0
    BY <1>1, FS_EmptySet
  <1>5. Cardinality(found') + Planned' <= FetchLimit
    BY <1>3, <1>4, ConstantTypes
  <1> QED
    BY <1>1, <1>4, <1>5 DEF FoundInv

LEMMA FoundNext == BatchInv /\ PlanInv /\ WorkInv /\ FoundInv /\ [Next]_vars => FoundInv'
  <1> SUFFICES ASSUME BatchInv, PlanInv, WorkInv, FoundInv, [Next]_vars PROVE FoundInv'
    OBVIOUS
  <1>1. CASE UNCHANGED <<found, parts>>
    BY <1>1 DEF FoundInv, Planned, part, ClassOf
  <1>2. CASE Answers \/ Raises \/ TopUp
    BY <1>1, <1>2 DEF Answers, Raises, TopUp
  <1>3. CASE Fetch \/ Abort
    BY <1>3, FoundEndsPass DEF Fetch, Abort
  <1>4. CASE Publish \/ (\E p \in Range(BenignPool) : CooldownLapses(p)) \/ UNCHANGED vars
    BY <1>1, <1>4 DEF Publish, CooldownLapses, vars, passVars
  <1> QED
    BY <1>2, <1>3, <1>4, FoundSelect, FoundEndsPart DEF Next, Discover
-----------------------------------------------------------------------------
(***************************************************************************)
(* Who was asked.  A pass that wants benign programs has asked for them,   *)
(* has not come to their discovery yet, or is there and asks next: an      *)
(* empty batch is not full, so it cannot end before it has asked.          *)
(***************************************************************************)
LEMMA RequestGrows ==
  ASSUME requested \in [Providers -> 0..MinAttempts], PlanInv, WorkInv,
         at = "discover", todo # <<>>, ~Full, Asked
  PROVE  /\ requested' \in [Providers -> 0..MinAttempts] /\ requested'[Ask.from] > 0
         /\ \A p \in Providers : requested[p] > 0 => requested'[p] > 0
         /\ Ask.from \in Side(part.class) /\ Ask.from \in Providers
  <1>1. Ask \in AsksOf(part.class) /\ Request \in Nat /\ Request > 0
    BY NextAsk
  <1>2. Ask.from \in Side(part.class) /\ Ask.from \in Providers
    BY <1>1, ConstantTypes DEF AsksOf, Side
  <1>3. requested' = [requested EXCEPT ![Ask.from] = AtMost(MinAttempts, requested[Ask.from] + Request)]
    BY DEF Asked
  <1>4. requested[Ask.from] \in 0..MinAttempts /\ MinAttempts \in Nat /\ MinAttempts > 0
    BY <1>2, ConstantTypes
  <1>5. /\ AtMost(MinAttempts, requested[Ask.from] + Request) \in 0..MinAttempts
        /\ AtMost(MinAttempts, requested[Ask.from] + Request) > 0
    BY <1>1, <1>4 DEF AtMost
  <1> QED
    BY <1>2, <1>3, <1>5

LEMMA AskedGoesOn ==
  TypeOK /\ PlanInv /\ WorkInv /\ AskedInv /\ (Answers \/ Raises) => AskedInv'
  <1> SUFFICES ASSUME TypeOK, PlanInv, WorkInv, AskedInv, Answers \/ Raises,
                      plan.wants \in {"benign", "mixed"}
               PROVE  \/ \E p \in Range(BenignPool) : requested'[p] > 0
                      \/ Len(parts) = 2
    BY DEF Answers, Raises, AskedInv
  <1>1. at = "discover" /\ todo # <<>> /\ ~Full /\ Asked
    BY DEF Answers, Raises
  <1>2. /\ requested'[Ask.from] > 0 /\ Ask.from \in Side(part.class)
        /\ \A p \in Providers : requested[p] > 0 => requested'[p] > 0
    <2>1. requested \in [Providers -> 0..MinAttempts]
      BY DEF TypeOK
    <2> QED
      BY <1>1, <2>1, RequestGrows
  <1>3. CASE \E p \in Range(BenignPool) : requested[p] > 0
    BY <1>2, <1>3, ConstantTypes
  <1>4. CASE part.class = "benign"
    BY <1>2, <1>4 DEF Side
  <1> QED
    BY <1>1, <1>3, <1>4 DEF AskedInv

LEMMA AskedEndsPart == PlanInv /\ WorkInv /\ AskedInv /\ EndPart => AskedInv'
  <1> SUFFICES ASSUME PlanInv, WorkInv, AskedInv, EndPart, plan.wants \in {"benign", "mixed"}
               PROVE  \/ \E p \in Range(BenignPool) : requested[p] > 0
                      \/ at' = "discover" /\ part'.class = "benign" /\ todo' # <<>> /\ batch' = {}
                         /\ mode' # "topup"
    BY DEF EndPart, AskedInv
  <1>1. at = "discover" /\ parts # <<>> /\ parts' = Tail(parts) /\ (todo = <<>> \/ Full)
    BY DEF EndPart, PlanInv
  <1>2. CASE Len(parts) = 2
    <2>1. Len(Tail(parts)) = 1 /\ Tail(parts)[1] = parts[2] /\ parts[2] \in GoodParts
      <3>1. Len(parts) # 1
        BY <1>2
      <3> QED
        BY <1>1, <3>1, PlannedParts, Zenon
    <2>2. parts[2].class = "benign"
      BY <1>2 DEF PlanInv
    <2>3. parts' # <<>> /\ Head(parts') = parts[2] /\ part' = parts[2]
      <3>1. parts' # <<>>
        BY <1>1, <2>1
      <3>2. Head(parts') = parts[2]
        BY <1>1, <2>1 DEF Head
      <3> QED
        BY <3>1, <3>2 DEF part
    <2>4. at' = "discover" /\ Begin(parts[2]) /\ batch' = {}
      BY <1>1, <2>3 DEF EndPart
    <2>5. mode' \in {"slots", "chain"} /\ todo' # <<>>
      BY <2>1, <2>4, Begun
    <2> QED
      BY <2>2, <2>3, <2>4, <2>5
  <1>3. ~(todo # <<>> /\ batch = {} /\ mode # "topup")
    <2> SUFFICES ASSUME todo # <<>>, batch = {}, mode # "topup" PROVE FALSE
      OBVIOUS
    <2>1. part \in GoodParts
      BY <1>1, PlannedParts
    <2>2. part.limit \in Nat /\ part.limit > 0 /\ Cardinality(batch) = 0
      BY <2>1, FS_EmptySet DEF GoodParts, PartType
    <2> QED
      BY <1>1, <2>2 DEF Full, Limit
  <1> QED
    BY <1>1, <1>2, <1>3 DEF AskedInv

LEMMA AskedSelect == PlanInv /\ Select => AskedInv'
  <1> SUFFICES ASSUME PlanInv, Select, plan'.wants \in {"benign", "mixed"}
               PROVE  \/ Len(parts') = 2
                      \/ at' = "discover" /\ part'.class = "benign" /\ todo' # <<>> /\ batch' = {}
                         /\ mode' # "topup"
    BY DEF AskedInv
  <1>1. at' = "discover" /\ todo' # <<>> /\ mode' # "topup" /\ batch' = {}
    BY WorkSelect DEF Select, PlanInv
  <1>2. Len(parts') = 2 \/ (Len(parts') = 1 /\ parts'[1].class = "benign")
    BY SelectIsGood, PartsAreGood
  <1>3. part' = parts'[1]
    BY DEF part, Head
  <1> QED
    BY <1>1, <1>2, <1>3

LEMMA AskedNext == TypeOK /\ PlanInv /\ WorkInv /\ AskedInv /\ [Next]_vars => AskedInv'
  <1> SUFFICES ASSUME TypeOK, PlanInv, WorkInv, AskedInv, [Next]_vars PROVE AskedInv'
    OBVIOUS
  <1>1. CASE TopUp
    BY <1>1 DEF TopUp, AskedInv
  <1>2. CASE Fetch \/ Abort
    BY <1>2, Idles DEF Fetch, Abort
  <1>3. CASE Publish \/ (\E p \in Range(BenignPool) : CooldownLapses(p)) \/ UNCHANGED vars
    BY <1>3 DEF Publish, CooldownLapses, vars, passVars, AskedInv, part
  <1> QED
    BY <1>1, <1>2, <1>3, AskedGoesOn, AskedEndsPart, AskedSelect DEF Next, Discover
-----------------------------------------------------------------------------
(***************************************************************************)
(* Types, with what the invariant of the pass says of its parts.           *)
(***************************************************************************)
LEMMA IngestType ==
  ASSUME TypeOK, FoundInv, NEW rows \in SUBSET found, NEW refused \in SUBSET found, Ingest(rows, refused)
  PROVE  counts' \in [Classes -> 0..MaxSamples] /\ known' \in SUBSET Keys
  <1>1. known' \in SUBSET Keys
    BY DEF TypeOK, FoundInv, Ingest, Candidates
  <1>2. ASSUME NEW class \in Classes
        PROVE  AtMost(MaxSamples, counts[class] + Cardinality({c \in rows : ClassOf(c) = class}))
                 \in 0..MaxSamples
    <2>1. PICK n \in Nat : n = Cardinality({c \in rows : ClassOf(c) = class})
      <3>1. IsFiniteSet(found) /\ {c \in rows : ClassOf(c) = class} \subseteq found
        BY DEF FoundInv
      <3>2. IsFiniteSet({c \in rows : ClassOf(c) = class})
        BY <3>1, FS_Subset
      <3> QED
        BY <3>2, FS_CardinalityType
    <2>2. counts[class] \in 0..MaxSamples
      BY DEF TypeOK
    <2> QED
      BY <2>1, <2>2, ConstantTypes DEF AtMost
  <1> QED
    BY <1>1, <1>2 DEF Ingest

LEMMA RunsType ==
  ASSUME TypeOK, NEW rows, RecordRuns(rows)
  PROVE  barren' \in [Range(BenignPool) -> 0..ZeroRuns] /\ lapsed' \in [Range(BenignPool) -> BOOLEAN]
  <1>1. /\ barren \in [Range(BenignPool) -> 0..ZeroRuns] /\ lapsed \in [Range(BenignPool) -> BOOLEAN]
        /\ ZeroRuns \in Nat
    BY ConstantTypes DEF TypeOK
  <1>2. PICK fruitful : barren' = [p \in DOMAIN barren |->
                  CASE requested[p] = 0 -> barren[p]
                    [] p \in fruitful \/ requested[p] < MinAttempts -> 0
                    [] OTHER -> AtMost(ZeroRuns, barren[p] + 1)]
    BY DEF RecordRuns
  <1>3. \A n \in 0..ZeroRuns : AtMost(ZeroRuns, n + 1) \in 0..ZeroRuns /\ 0 \in 0..ZeroRuns
    BY <1>1 DEF AtMost
  <1>4. barren' \in [Range(BenignPool) -> 0..ZeroRuns]
    BY <1>1, <1>2, <1>3
  <1>5. lapsed' = [p \in Range(BenignPool) |-> requested[p] = 0 /\ lapsed[p]]
    BY <1>1 DEF RecordRuns
  <1> QED
    BY <1>4, <1>5

TablesType ==
  /\ counts \in [Classes -> 0..MaxSamples] /\ known \in SUBSET Keys
  /\ barren \in [Range(BenignPool) -> 0..ZeroRuns] /\ lapsed \in [Range(BenignPool) -> BOOLEAN]

LEMMA TablesNext == TypeOK /\ FoundInv /\ [Next]_vars => TablesType'
  <1> SUFFICES ASSUME TypeOK, FoundInv, [Next]_vars PROVE TablesType'
    OBVIOUS
  <1>0. TablesType
    BY DEF TypeOK, TablesType
  <1>1. CASE UNCHANGED <<counts, known, barren, lapsed>>
    BY <1>0, <1>1 DEF TablesType
  <1>2. CASE Select \/ Discover \/ UNCHANGED vars
    BY <1>1, <1>2 DEF Select, Discover, Answers, Raises, TopUp, EndPart, vars, tableVars
  <1>3. CASE Fetch
    <2>1. PICK rows \in SUBSET found : \E refused \in SUBSET found : Ingest(rows, refused) /\ RecordRuns(rows)
      BY <1>3 DEF Fetch
    <2> QED
      BY <2>1, IngestType, RunsType DEF TablesType
  <1>4. CASE Abort
    <2>1. PICK rows \in SUBSET found : Ingest(rows, {})
      BY <1>4 DEF Abort
    <2>2. counts' \in [Classes -> 0..MaxSamples] /\ known' \in SUBSET Keys
      BY <2>1, IngestType
    <2>3. UNCHANGED <<barren, lapsed>>
      BY <1>4 DEF Abort
    <2> QED
      BY <1>0, <2>2, <2>3 DEF TablesType
  <1>5. CASE Publish
    BY <1>0, <1>5 DEF Publish, TablesType
  <1>6. CASE \E p \in Range(BenignPool) : CooldownLapses(p)
    BY <1>0, <1>6 DEF CooldownLapses, TablesType
  <1> QED
    BY <1>2, <1>3, <1>4, <1>5, <1>6 DEF Next

\* The variables of the pass whose type no other invariant gives.
PassType ==
  /\ at \in {"idle", "discover", "fetch"}
  /\ plan \in [wants : Classes \cup {"mixed", "none"}, byLlm : BOOLEAN]
  /\ mode \in {"none", "slots", "chain", "topup"}
  /\ at # "discover" => todo = <<>>
  /\ {seen, held.seen} \subseteq SUBSET Keys
  /\ requested \in [Providers -> 0..MinAttempts]
  /\ aborts \in Nat

LEMMA PassTypeDiscovers ==
  ASSUME PassType, PlanInv, WorkInv, Discover
  PROVE  PassType'
  <1>1. CASE Answers \/ Raises
    <2>1. /\ at = "discover" /\ todo # <<>> /\ ~Full /\ Asked
          /\ UNCHANGED <<at, plan, mode, held, aborts>>
      BY <1>1 DEF Answers, Raises
    <2>2. requested \in [Providers -> 0..MinAttempts]
      BY DEF PassType
    <2>3. requested' \in [Providers -> 0..MinAttempts] /\ Ask.from \in Providers
      BY <2>1, <2>2, RequestGrows
    <2>4. seen' \in SUBSET Keys
      <3>1. Lists[Ask.from] \subseteq Keys
        BY <2>3 DEF Keys, Range, Providers
      <3> QED
        BY <1>1, <3>1 DEF Answers, Raises, Fresh, PassType
    <2> QED
      BY <2>1, <2>3, <2>4 DEF PassType
  <1>2. CASE TopUp
    <2>1. held'.seen = seen /\ seen' = {}
      BY <1>2 DEF TopUp
    <2> QED
      BY <1>2, <2>1 DEF TopUp, PassType
  <1>3. CASE EndPart
    <2>1. /\ at = "discover" /\ held'.seen = {} /\ seen' = {} /\ UNCHANGED <<plan, requested, aborts>>
      BY <1>3 DEF EndPart, NoBatch
    <2>2. \/ at' = "fetch" /\ mode' = "none" /\ todo' = <<>>
          \/ at' = "discover" /\ mode' \in {"slots", "chain"}
      BY <1>3, Begins DEF EndPart
    <2> QED
      BY <2>1, <2>2 DEF PassType
  <1> QED
    BY <1>1, <1>2, <1>3 DEF Discover

LEMMA PassTypeNext ==
  ASSUME PassType, PlanInv, WorkInv, [Next]_vars
  PROVE  PassType'
  <1>1. CASE Select
    <2>1. at' = "discover" /\ UNCHANGED <<seen, held, requested, aborts>>
      BY <1>1 DEF Select
    <2>2. mode' \in {"slots", "chain"}
      BY <1>1, Begins DEF Select
    <2>3. plan' \in [wants : Classes \cup {"mixed", "none"}, byLlm : BOOLEAN]
      BY <1>1, SelectIsGood
    <2> QED
      BY <2>1, <2>2, <2>3 DEF PassType
  <1>2. CASE Discover
    BY <1>2, PassTypeDiscovers
  <1>3. CASE Fetch \/ Abort
    <2>1. EndPass /\ aborts' \in {aborts, aborts + 1}
      BY <1>3 DEF Fetch, Abort
    <2>2. /\ at' = "idle" /\ plan' = [wants |-> "none", byLlm |-> FALSE] /\ mode' = "none" /\ todo' = <<>>
          /\ seen' = {} /\ held'.seen = {} /\ requested' = [p \in Providers |-> 0]
      BY <2>1 DEF EndPass, NoPlan, NoBatch
    <2>3. requested' \in [Providers -> 0..MinAttempts]
      BY <2>2, ConstantTypes
    <2> QED
      BY <2>1, <2>2, <2>3 DEF PassType
  <1>4. CASE Publish \/ (\E p \in Range(BenignPool) : CooldownLapses(p)) \/ UNCHANGED vars
    BY <1>4 DEF Publish, CooldownLapses, vars, passVars, PassType
  <1> QED
    BY <1>1, <1>2, <1>3, <1>4 DEF Next

\* The parts of the invariant are the types.
LEMMA PartsAreTypes ==
  ASSUME TablesType, PassType, RotationInv, BatchInv, PlanInv, WorkInv, FoundInv
  PROVE  TypeOK
  <1>1. parts \in Seq(PartType)
    <2>1. GoodParts \subseteq PartType
      BY DEF GoodParts
    <2> QED
      BY <2>1, SeqMonotonic DEF PlanInv
  <1>2. todo \in Seq(Asks) /\ {batch, held.batch} \subseteq SUBSET Candidates
    <2>1. CASE at = "discover"
      <3>1. Side(part.class) \subseteq Providers
        BY ConstantTypes DEF Side
      <3>2. AsksOf(part.class) \subseteq Asks /\ OfSide(part.class) \subseteq Candidates
        BY <3>1 DEF AsksOf, OfSide, Asks, Candidates
      <3>3. todo \in Seq(AsksOf(part.class)) /\ {batch, held.batch} \subseteq SUBSET OfSide(part.class)
        BY <2>1 DEF WorkInv, Gathers
      <3> QED
        BY <3>2, <3>3, SeqMonotonic
    <2>2. CASE at # "discover"
      BY <2>2 DEF PassType, PlanInv, NoBatch
    <2> QED
      BY <2>1, <2>2
  <1> QED
    BY <1>1, <1>2 DEF TypeOK, TablesType, PassType, RotationInv, BatchInv, FoundInv

-----------------------------------------------------------------------------
(***************************************************************************)
(* The invariant of the pass, inductive as a whole.                        *)
(***************************************************************************)
PassInv ==
  /\ TablesType /\ PassType
  /\ RotationInv /\ BatchInv /\ PlanInv /\ WorkInv /\ FoundInv /\ AskedInv

LEMMA PassInit == Init => PassInv
  <1> SUFFICES ASSUME Init PROVE PassInv
    OBVIOUS
  <1>1. TablesType
    BY ConstantTypes DEF Init, TablesType, Classes
  <1>2. PassType
    <2>1. requested \in [Providers -> 0..MinAttempts]
      BY ConstantTypes DEF Init
    <2> QED
      BY <2>1 DEF Init, PassType, NoPlan, NoBatch
  <1>3. RotationInv
    BY CollectionAssumption DEF Init, RotationInv
  <1>4. parts = <<>> /\ at = "idle" /\ Len(parts) = 0 /\ parts \in Seq(GoodParts)
    BY DEF Init
  <1>5. PlanInv /\ WorkInv /\ AskedInv
    BY <1>4 DEF Init, PlanInv, WorkInv, AskedInv
  <1>6. FoundInv
    <2>1. found = {} /\ IsFiniteSet(found) /\ Cardinality(found) = 0
      BY FS_EmptySet DEF Init
    <2>2. Planned = 0
      BY <1>4 DEF Planned
    <2>3. Cardinality(found) + Planned <= FetchLimit
      BY <2>1, <2>2, ConstantTypes
    <2> QED
      BY <1>4, <2>1, <2>3 DEF FoundInv
  <1> QED
    BY <1>1, <1>2, <1>3, <1>5, <1>6, BatchInit DEF PassInv

LEMMA PassNext == PassInv /\ [Next]_vars => PassInv'
  <1> SUFFICES ASSUME PassInv, [Next]_vars PROVE PassInv'
    OBVIOUS
  <1>1. TypeOK /\ PassType /\ RotationInv /\ BatchInv /\ PlanInv /\ WorkInv /\ FoundInv /\ AskedInv
    BY PartsAreTypes DEF PassInv
  <1>2. TablesType' /\ PassType'
    BY <1>1, TablesNext, PassTypeNext
  <1>3. RotationInv' /\ BatchInv' /\ PlanInv' /\ WorkInv' /\ FoundInv' /\ AskedInv'
    BY <1>1, RotationNext, BatchNext, PlanNext, WorkNext, FoundNext, AskedNext
  <1> QED
    BY <1>2, <1>3 DEF PassInv

LEMMA PassAlways == Spec => []PassInv
  BY PassInit, PassNext, PTL DEF Spec

\* Every variable has its type: the request counters, the slots and the batches of either round.
THEOREM CollectionTypes == Spec => []TypeOK
  <1>1. PassInv => TypeOK
    BY PartsAreTypes DEF PassInv
  <1> QED
    BY <1>1, PassAlways, PTL

\* What a pass is about to fetch is new, offered once within its class, and no more than
\* PE_FETCH_LIMIT, whatever the providers answer: the slots share the limit, and a top-up asks
\* only for what its slots left open.
THEOREM CandidatesFresh == Spec => []CandidatesAreFresh
  <1>1. PassInv => CandidatesAreFresh
    <2> SUFFICES ASSUME PassInv, at = "fetch" PROVE
                   /\ Cardinality(found) <= FetchLimit
                   /\ \A c \in found : c.key \notin known
                   /\ \A c, d \in found : c.key = d.key /\ ClassOf(c) = ClassOf(d) => c = d
      BY DEF CandidatesAreFresh
    <2>1. parts = <<>>
      BY DEF PassInv, PlanInv
    <2>2. Len(parts) = 0
      BY <2>1
    <2>3. Planned = 0 /\ Cardinality(found) \in Nat
      BY <2>2, FS_CardinalityType DEF Planned, PassInv, FoundInv
    <2>4. Cardinality(found) <= FetchLimit
      BY <2>3, ConstantTypes DEF PassInv, FoundInv
    <2> QED
      BY <2>4 DEF PassInv, FoundInv, BatchInv, Gathered
  <1> QED
    BY <1>1, PassAlways, PTL

\* A pass that wants benign programs has asked a benign provider when it comes to fetch, also when
\* all of them cool down and whatever their answers or errors were.
THEOREM BenignAsked == Spec => []BenignIsAsked
  <1>1. PassInv => BenignIsAsked
    <2>1. PassInv /\ at = "fetch" => parts = <<>>
      BY DEF PassInv, PlanInv
    <2>2. parts = <<>> => Len(parts) # 2
      OBVIOUS
    <2> QED
      BY <2>1, <2>2 DEF PassInv, AskedInv, BenignIsAsked
  <1> QED
    BY <1>1, PassAlways, PTL
=============================================================================
