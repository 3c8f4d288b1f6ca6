----------------------------- MODULE Collection -----------------------------
(***************************************************************************)
(* Which class a pass collects, which providers it asks for it and what it *)
(* makes of their answers: selection by class balance, slots for every     *)
(* provider, the top-up through the fallback chain, and the record of each *)
(* provider's runs that decides which benign provider cools down.          *)
(*                                                                         *)
(* A key stands for what a provider lists at present.  The order of a      *)
(* listing, the rates of success that rank benign providers and the health *)
(* of the temporal split are left open.                                    *)
(***************************************************************************)
EXTENDS Filters, FiniteSetsExt, SequencesExt

CONSTANTS
  Lists,             \* the keys each provider lists
  Active,            \* bootstrap_malware_sources
  MalwareFallback, BenignPool,     \* MALWARE_FALLBACK_PROVIDERS, BENIGN_PROVIDER_NAMES
  LlmChoices,        \* sources a language model may name instead of the strategy's
  FetchLimit,        \* PE_FETCH_LIMIT
  MinMalware, MinBenign,
  EveryN,            \* STEADY_BENIGN_EVERY_N
  ZeroRuns, MinAttempts,           \* PROVIDER_COOLDOWN_ZERO_RUNS, _MIN_ATTEMPTS
  MaxSamples, MaxAborts            \* bounds

Providers == DOMAIN Lists
Keys == UNION Range(Lists)
Classes == {"malware", "benign"}

\* A limit of one would leave a mixed pass no benign half; the setting is 25.  A language model
\* that names no source is not followed.
ASSUME CollectionAssumption ==
  /\ {FetchLimit, MinMalware, MinBenign, EveryN, ZeroRuns, MinAttempts} \subseteq Nat \ {0}
  /\ FetchLimit > 1
  /\ {MaxSamples, MaxAborts} \subseteq Nat
  /\ IsFiniteSet(Keys)
  /\ {Active, MalwareFallback, BenignPool} \cup LlmChoices \subseteq Seq(Providers)
  /\ Range(BenignPool) \cap (Range(Active) \cup Range(MalwareFallback)) = {}
  /\ "malwarebazaar" \in Range(Active) /\ Range(BenignPool) # {}
  /\ <<>> \notin LlmChoices
  /\ \A q \in LlmChoices : Range(q) \subseteq Range(BenignPool)
                           \/ Range(q) \cap Range(BenignPool) = {}

VARIABLES
  counts,        \* active rows with features, by class
  known,         \* keys stored, refused or remembered as duplicates
  counter,       \* collection_counters.steady_selection, as far as it is read
  barren,        \* provider_runs: each provider's last runs without yield, up to ZeroRuns
  lapsed,        \* whether the newest of them is older than the cooldown
  at,            \* "idle", "discover", "fetch"
  plan,          \* the pass: class wanted, and whether a language model named the sources
  parts,         \* the discoveries of the pass still to do
  mode,          \* how the present one goes: by slots, as a chain, or topping up
  todo,          \* its providers still to ask
  batch, seen,   \* its candidates, and the keys met
  held,          \* while it is topped up: the batch and keys from before
  found,         \* the candidates of the discoveries that are over
  requested,     \* how much each provider was asked for in this pass
  ledger,        \* candidates table, as far as this pass wrote it
  streak, aborts \* history: passes for malware by rotation, in a row

passVars == <<plan, parts, mode, todo, batch, seen, held, found, requested, ledger>>
tableVars == <<counts, known, counter, barren, lapsed>>
vars == <<tableVars, at, passVars, streak, aborts>>
-----------------------------------------------------------------------------
AtMost(a, b) == IF a < b THEN a ELSE b
Deficit(class) ==
  LET min == IF class = "malware" THEN MinMalware ELSE MinBenign
  IN IF counts[class] < min THEN min - counts[class] ELSE 0
Bootstrap == \E c \in Classes : Deficit(c) > 0

\* The last runs asked for enough and brought nothing, the newest of them lately.
CooledForGood(p) == barren[p] = ZeroRuns     \* variant: the age of the newest run is not read
Cooled(p) == barren[p] = ZeroRuns /\ ~lapsed[p]

\* choose_benign_sources: providers that do not cool down, or all if all do; in any order.
AwakeOnly ==     \* variant: when every provider cools down, nobody is asked
  SetToSeqs({p \in Range(BenignPool) : ~Cooled(p)})
BenignSources ==
  LET awake == {p \in Range(BenignPool) : ~Cooled(p)}
  IN SetToSeqs(IF awake = {} THEN Range(BenignPool) ELSE awake)

NoPlan == [wants |-> "none", byLlm |-> FALSE]
NoBatch == [batch |-> {}, seen |-> {}]
NoLedger == [p \in Providers |-> [k \in Keys |-> "none"]]

Init ==
  /\ counts = [c \in Classes |-> 0] /\ known = {} /\ counter = 0
  /\ barren = [p \in Range(BenignPool) |-> 0] /\ lapsed = [p \in Range(BenignPool) |-> FALSE]
  /\ at = "idle" /\ plan = NoPlan
  /\ parts = <<>> /\ mode = "none" /\ todo = <<>>
  /\ batch = {} /\ seen = {} /\ held = NoBatch /\ found = {}
  /\ requested = [p \in Providers |-> 0] /\ ledger = NoLedger
  /\ streak = 0 /\ aborts = 0
-----------------------------------------------------------------------------
\* A discovery: what it may ask, how many candidates it wants, whether by slots.
Part(class, names, limit) ==
  [class |-> class, names |-> names, limit |-> limit,
   slots |-> IF class = "malware" THEN "malwarebazaar" \in Range(names) ELSE Len(names) > 1]

\* source_discovery; a mixed pass asks the active malware providers for the larger half.
Parts(wants, names) ==
  IF wants = "mixed"
  THEN <<Part("malware", Active, (FetchLimit + 1) \div 2), Part("benign", names, FetchLimit \div 2)>>
  ELSE <<Part(wants, names, FetchLimit)>>

Start(wants, names, byLlm) ==
  /\ plan' = [wants |-> wants, byLlm |-> byLlm]
  /\ parts' = Parts(wants, names)

\* In the steady phase a language model may name other sources of the same class.
Choose(wants, choices) ==
  \/ \E names \in choices : Start(wants, names, FALSE)
  \/ /\ ~Bootstrap /\ wants # "mixed"
     /\ \E names \in LlmChoices :
          /\ (wants = "benign") = (Range(names) \subseteq Range(BenignPool))
          /\ Start(wants, names, TRUE)

Ahead(a, b) == Deficit(b) > 0 /\ Deficit(a) = 0     \* variant: the classes are swapped
Behind(a, b) == Deficit(a) > 0 /\ Deficit(b) = 0

BootstrapSelect ==
  /\ Bootstrap
  /\ \/ /\ \A c \in Classes : Deficit(c) > 0
        /\ Choose("mixed", BenignSources)
     \/ Behind("malware", "benign") /\ Choose("malware", {Active})
     \/ Behind("benign", "malware") /\ Choose("benign", BenignSources)
  /\ UNCHANGED <<counter, streak>>

\* The split over time is not healthy: both classes are collected.
SteadyMixed ==
  /\ ~Bootstrap
  /\ Choose("mixed", BenignSources)
  /\ streak' = 0 /\ UNCHANGED counter

FarAhead(a, b) == counts[a] > 0 /\ counts[b] > 0 /\ counts[a] > 2 * counts[b]
TenPercentAhead == 10 * counts["malware"] > 11 * counts["benign"]

MalwareCorrection ==
  /\ ~Bootstrap /\ FarAhead("benign", "malware")
  /\ Choose("malware", {<<"malwarebazaar">>})
  /\ UNCHANGED <<counter, streak>>

BenignBalance ==
  /\ ~Bootstrap /\ ~FarAhead("benign", "malware")
  /\ FarAhead("malware", "benign") \/ TenPercentAhead
  /\ Choose("benign", BenignSources)
  /\ streak' = 0 /\ UNCHANGED counter

\* Otherwise malware, and benign programs every so many passes.
NextUnwrapped == counter + 1     \* variant: the counter is kept whole
NextInRotation == (counter + 1) % EveryN
RefreshDueNever(n) == n = EveryN     \* variant: the counter is compared after it wrapped
RefreshDue(n) == n = 0
Rotation ==
  /\ ~Bootstrap /\ ~FarAhead("benign", "malware")
  /\ ~FarAhead("malware", "benign") /\ ~TenPercentAhead
  /\ counter' = NextInRotation
  /\ \/ RefreshDue(counter') /\ Choose("benign", BenignSources) /\ streak' = 0
     \/ ~RefreshDue(counter') /\ Choose("malware", {<<"malwarebazaar">>}) /\ streak' = streak + 1

\* The providers of a slotted discovery that get a slot, the first so many if the limit does not
\* reach for all, and those of a chain.
SlotsOf(part) ==
  LET names == IF part.class = "malware" THEN Active ELSE part.names
      slot(i) == part.limit \div Len(names) + (IF i <= part.limit % Len(names) THEN 1 ELSE 0)
  IN [i \in 1..AtMost(part.limit, Len(names)) |->
        [from |-> names[i], slot |-> slot(i), primary |-> TRUE]]

Pool(class) == IF class = "malware" THEN MalwareFallback ELSE BenignPool
ChainOf(part) ==
  LET own == IF part.slots /\ part.class = "malware"
             THEN Active \o Filter(part.names, Providers \ Range(Active))
             ELSE part.names
      others == Filter(Pool(part.class), Providers \ Range(own))
      asks(q, isPrimary) == [i \in DOMAIN q |-> [from |-> q[i], slot |-> 0, primary |-> isPrimary]]
  IN asks(own, TRUE) \o asks(others, FALSE)

Begin(part) ==
  IF part.names = <<>>
  THEN mode' = "slots" /\ todo' = <<>>     \* no active source: nothing is found
  ELSE IF part.slots THEN mode' = "slots" /\ todo' = SlotsOf(part)
       ELSE mode' = "chain" /\ todo' = ChainOf(part)

Select ==
  /\ at = "idle" /\ at' = "discover"
  /\ BootstrapSelect \/ SteadyMixed \/ MalwareCorrection \/ BenignBalance \/ Rotation
  /\ Begin(Head(parts'))
  /\ UNCHANGED <<counts, known, barren, lapsed, batch, seen, held, found, requested, ledger, aborts>>
-----------------------------------------------------------------------------
part == Head(parts)
Limit == IF mode = "topup" THEN part.limit - Cardinality(held.batch) ELSE part.limit
Full == mode # "slots" /\ Cardinality(batch) >= Limit

\* How much the next provider is asked for, and how much of it may be used.
Ask == Head(todo)
Request ==
  CASE mode = "slots" -> 5 * Ask.slot
    [] Ask.primary    -> 5 * Limit
    [] OTHER          -> Limit - Cardinality(batch)
Room == IF mode = "slots" THEN Ask.slot ELSE Limit - Cardinality(batch)

Asked ==
  requested' = [requested EXCEPT ![Ask.from] = AtMost(MinAttempts, @ + Request)]

\* _append_fresh_candidates.  A fresh key is met even when there is no room for it.
Noted(p, keys, taken, fresh) ==
  [ledger EXCEPT ![p] = [k \in Keys |->
     CASE k \in taken -> "returned" [] k \in fresh -> "seen"
       [] k \in keys  -> "duplicate" [] OTHER -> ledger[p][k]]]

FreshUnlessStored(keys) == keys \ known     \* variant: keys met in this discovery count again
Fresh(keys) == keys \ (seen \cup known)

Answers ==
  /\ at = "discover" /\ todo # <<>> /\ ~Full
  /\ \E keys \in SUBSET Lists[Ask.from] :
       /\ Cardinality(keys) <= Request
       /\ \E taken \in kSubset(AtMost(Room, Cardinality(Fresh(keys))), Fresh(keys)) :
            /\ batch' = batch \cup {[key |-> k, from |-> Ask.from] : k \in taken}
            /\ ledger' = Noted(Ask.from, keys, taken, Fresh(keys))
       /\ seen' = seen \cup Fresh(keys)
  /\ Asked
  /\ todo' = Tail(todo)
  /\ UNCHANGED <<tableVars, at, plan, parts, mode, held, found, streak, aborts>>

Raises ==
  /\ at = "discover" /\ todo # <<>> /\ ~Full
  /\ Asked
  /\ todo' = Tail(todo)
  /\ UNCHANGED <<tableVars, at, plan, parts, mode, batch, seen, held, found, ledger, streak, aborts>>

\* Slots that left the batch short are followed by a chain of its own.
TopUp ==
  /\ at = "discover" /\ mode = "slots" /\ todo = <<>>
  /\ part.names # <<>> /\ Cardinality(batch) < part.limit
  /\ mode' = "topup" /\ todo' = ChainOf(part)
  /\ held' = [batch |-> batch, seen |-> seen]
  /\ batch' = {} /\ seen' = {}
  /\ UNCHANGED <<tableVars, at, plan, parts, found, requested, ledger, streak, aborts>>

\* What the chain of a top-up found is filtered again, by what the slots had met.
ToppedUpQuietly ==     \* variant: what is dropped stays marked as returned
  found' = found \cup held.batch \cup {c \in batch : c.key \notin held.seen} /\ UNCHANGED ledger
ToppedUp ==
  LET new == {c \in batch : c.key \notin held.seen} IN
  /\ found' = found \cup held.batch \cup new
  /\ ledger' = [p \in Providers |-> [k \in Keys |->
                  IF [key |-> k, from |-> p] \in batch \ new THEN "duplicate" ELSE ledger[p][k]]]

EndPart ==
  /\ at = "discover"
  /\ todo = <<>> \/ Full
  /\ \/ mode = "slots" /\ (part.names = <<>> \/ Cardinality(batch) >= part.limit)
        /\ found' = found \cup batch /\ UNCHANGED ledger
     \/ mode = "chain" /\ found' = found \cup batch /\ UNCHANGED ledger
     \/ mode = "topup" /\ ToppedUp
  /\ batch' = {} /\ seen' = {} /\ held' = NoBatch
  /\ parts' = Tail(parts)
  /\ IF parts' = <<>> THEN at' = "fetch" /\ mode' = "none" /\ todo' = <<>>
     ELSE at' = at /\ Begin(Head(parts'))
  /\ UNCHANGED <<tableVars, plan, requested, streak, aborts>>
-----------------------------------------------------------------------------
ClassOf(c) == IF c.from \in Range(BenignPool) THEN "benign" ELSE "malware"

\* The candidates are fetched, validated and extracted: some become rows, some are known
\* from now on for what they are, some fail and may be met again.
Ingest(rows, refused) ==
  /\ known' = known \cup {c.key : c \in rows \cup refused}
  /\ counts' = [class \in Classes |->
                  AtMost(MaxSamples, counts[class] + Cardinality({c \in rows : ClassOf(c) = class}))]

\* record_provider_runs, at the end of the extraction: one run for each provider asked.
RecordRuns(rows) ==
  LET fruitful == {c.from : c \in rows} IN
  /\ barren' = [p \in DOMAIN barren |->
                  CASE requested[p] = 0 -> barren[p]
                    [] p \in fruitful \/ requested[p] < MinAttempts -> 0
                    [] OTHER -> AtMost(ZeroRuns, barren[p] + 1)]
  /\ lapsed' = [p \in DOMAIN lapsed |-> requested[p] = 0 /\ lapsed[p]]

EndPass ==
  /\ at' = "idle" /\ plan' = NoPlan /\ parts' = <<>> /\ mode' = "none" /\ todo' = <<>>
  /\ batch' = {} /\ seen' = {} /\ held' = NoBatch /\ found' = {}
  /\ requested' = [p \in Providers |-> 0] /\ ledger' = NoLedger

Fetch ==
  /\ at = "fetch"
  /\ \E rows \in SUBSET found : \E refused \in SUBSET (found \ rows) :
       Ingest(rows, refused) /\ RecordRuns(rows)
  /\ EndPass
  /\ UNCHANGED <<counter, streak, aborts>>

\* A pass that raises records no runs; what it stored before stays.
Abort ==
  /\ at \in {"discover", "fetch"} /\ aborts < MaxAborts
  /\ aborts' = aborts + 1
  /\ \E rows \in SUBSET found : (at = "discover" => rows = {}) /\ Ingest(rows, {})
  /\ EndPass
  /\ UNCHANGED <<counter, barren, lapsed, streak>>

\* A publisher replaces a program by a new one under a new name.
Publish ==
  /\ \E k \in known : known' = known \ {k}
  /\ at = "idle"
  /\ UNCHANGED <<counts, counter, barren, lapsed, at, passVars, streak, aborts>>

\* Hours later the newest run of a provider is too old to hold it back.
CooldownLapses(p) ==
  /\ at = "idle" /\ Cooled(p)
  /\ lapsed' = [lapsed EXCEPT ![p] = TRUE]
  /\ UNCHANGED <<counts, known, counter, barren, at, passVars, streak, aborts>>

Discover == Answers \/ Raises \/ TopUp \/ EndPart

Next ==
  \/ Select \/ Discover \/ Fetch \/ Abort \/ Publish
  \/ \E p \in Range(BenignPool) : CooldownLapses(p)

Spec == Init /\ [][Next]_vars

\* The scheduler starts pass after pass and a pass goes on; hours pass; publishers renew what
\* they list; and of a class that is asked again and again something is stored in the end.
Stores(class) ==
  \E c \in found : ClassOf(c) = class /\ Fetch /\ c.key \in known'
                   /\ (counts'[class] > counts[class] \/ counts[class] = MaxSamples)
FreshAnswer(class) == Answers /\ part.class = class /\ Fresh(Lists[Ask.from]) # {} /\ batch' # batch
FairSpec ==
  /\ Spec
  /\ WF_vars(Select) /\ WF_vars(Discover) /\ WF_vars(Fetch) /\ SF_vars(Publish)
  /\ \A class \in Classes : SF_vars(FreshAnswer(class)) /\ SF_vars(Stores(class))
  /\ \A p \in Range(BenignPool) : SF_vars(CooldownLapses(p))
-----------------------------------------------------------------------------
Statuses == {"none", "seen", "duplicate", "returned"}
Candidates == [key : Keys, from : Providers]
Asks == [from : Providers, slot : Nat, primary : BOOLEAN]
PartType == [class : Classes, names : Seq(Providers), limit : Nat, slots : BOOLEAN]

\* Every variable has its type.
TypeOK ==
  /\ counts \in [Classes -> 0..MaxSamples] /\ known \in SUBSET Keys
  /\ counter \in 0..EveryN - 1
  /\ barren \in [Range(BenignPool) -> 0..ZeroRuns] /\ lapsed \in [Range(BenignPool) -> BOOLEAN]
  /\ at \in {"idle", "discover", "fetch"}
  /\ plan \in [wants : Classes \cup {"mixed", "none"}, byLlm : BOOLEAN]
  /\ parts \in Seq(PartType) /\ mode \in {"none", "slots", "chain", "topup"} /\ todo \in Seq(Asks)
  /\ {batch, held.batch, found} \subseteq SUBSET Candidates
  /\ {seen, held.seen} \subseteq SUBSET Keys
  /\ requested \in [Providers -> 0..MinAttempts]
  /\ ledger \in [Providers -> [Keys -> Statuses]]
  /\ streak \in Nat /\ aborts \in Nat

\* What a pass is about to fetch is new, offered once within its class, and no more than it
\* may fetch, although two rounds of asking have filtered it.
CandidatesAreFresh ==
  at = "fetch" =>
    /\ Cardinality(found) <= FetchLimit
    /\ \A c \in found : c.key \notin known
    /\ \A c, d \in found : c.key = d.key /\ ClassOf(c) = ClassOf(d) => c = d

\* What the candidates table calls returned is fetched in this pass: nothing is left behind
\* between the round that took it and the round that filtered it.
ReturnedIsFetched ==
  at = "fetch" =>
    \A p \in Providers, k \in Keys : ledger[p][k] = "returned" => [key |-> k, from |-> p] \in found

\* A pass that wants benign programs asks a benign provider, also when all of them cool down.
BenignIsAsked ==
  at = "fetch" /\ plan.wants \in {"benign", "mixed"} =>
    \E p \in Range(BenignPool) : requested[p] > 0

\* However passes fail and balance comes and goes, fewer than EveryN rotations in a row go by
\* without benign programs being wanted.
BenignIsRefreshed == streak < EveryN

\* A benign provider that cooled down is asked again, as long as the strategy goes on wanting
\* benign programs.
CooledProvidersReturn ==
  \A p \in Range(BenignPool) :
    []<>(at = "fetch" /\ plan.wants \in {"benign", "mixed"} /\ ~plan.byLlm) => []<>(requested[p] > 0)

\* The bootstrap phase ends: neither class is forgotten for the other.
BootstrapEnds == <>[]~Bootstrap
-----------------------------------------------------------------------------
\* What the documentation says of the same program.

\* discover_with_fallback: "keep filling malware batches via fallbacks": a batch of malware is
\* short only when every fallback was asked.
ShortBatchAskedAll ==
  at = "fetch" /\ plan.wants = "malware" /\ Cardinality(found) < FetchLimit =>
    \A p \in Range(MalwareFallback) : requested[p] > 0
=============================================================================
