---------------------------- MODULE CtiProviders ----------------------------
(***************************************************************************)
(* The malware providers, one after the other in a discovery round, over   *)
(* the MalwareBazaar client they share: MalwareBazaar lists programs;      *)
(* ThreatFox, Twitter and OTX list hashes and ask MalwareBazaar whether    *)
(* they are programs; MalShare lists programs of its own.  Between rounds  *)
(* the offered hashes are downloaded.                                      *)
(***************************************************************************)
EXTENDS BazaarClient, Filters, SequencesExt

CONSTANTS
  Rounds,            \* orders in which a round asks the providers
  Feed,              \* what each provider lists: a sequence of hashes
  Linked, Likely,    \* hashes ThreatFox links to MalwareBazaar, or tags as programs
  ListStages,        \* the queries of list_recent_pe, by the loop they are sent in
  Limit,             \* how many candidates a provider may return
  TagQueries         \* number of ThreatFox tag queries

Providers == {"malwarebazaar", "malshare", "threatfox", "twitter", "otx_pulse_cti"}

ASSUME ProviderAssumption ==
  /\ \A r \in Rounds : r \in Seq(Providers)
  /\ Feed \in [Providers -> Seq(Shas)]
  /\ ListStages \in Seq({"recent", "type", "siginfo", "taginfo"})
  /\ Linked \subseteq Shas /\ Likely \subseteq Shas
  /\ {Limit, TagQueries} \subseteq Nat \ {0}

VARIABLES
  round,      \* providers the round has still to ask
  at,         \* provider being asked
  todo,       \* its work: queries to send, then hashes to judge
  kept,       \* its candidates so far
  offered,    \* candidates of the round, each under the provider that came first
  stored      \* hashes in the sample table

scanVars == <<round, at, todo, kept, offered>>
vars == <<clientVars, scanVars, stored>>
-----------------------------------------------------------------------------
Query(stage) == [stage |-> stage, sha |-> NoSha]
Hash(s) == [stage |-> "hash", sha |-> s]
Hashes(q) == [i \in DOMAIN q |-> Hash(q[i])]

\* list_recent_pe: get_recent, then file types, signatures and tags.
LoopNames == {"recent", "type", "siginfo", "taginfo"}
ListQueries == [i \in DOMAIN ListStages |-> Query(ListStages[i])]

Init ==
  /\ BazaarInit
  /\ round = <<>> /\ at = "none" /\ todo = <<>> /\ kept = {}
  /\ offered = [s \in Shas |-> "none"]
  /\ stored = {}

Idle == call.op = "none" /\ at = "none" /\ round = <<>>
Head1 == Head(todo)
OnTask(stages) == call.op = "none" /\ todo # <<>> /\ Head1.stage \in stages

\* A discovery starts with reset_mb_run_budget.
StartRound ==
  /\ Idle
  /\ round' \in Rounds
  /\ offered' = [s \in Shas |-> "none"]
  /\ infoCalls' = 0
  /\ UNCHANGED <<circuit, tables, call, service, history, bounds, at, todo, kept, stored>>

\* OTX leaves out what is cached as no program and what is already in the tables.
OtxEvidence == Filter(Feed["otx_pulse_cti"], {s \in Shas \ stored : Verdict(s) # "no"})

Listing(p) ==
  CASE p = "malwarebazaar" -> ListQueries
    [] p = "threatfox"     -> <<Query("iocs")>>
    [] p = "otx_pulse_cti" -> Hashes(OtxEvidence)
    [] OTHER               -> Hashes(Feed[p])

\* The next provider's turn; MalShare's, OTX's and Twitter's listing may fail.
StartProvider ==
  /\ call.op = "none" /\ at = "none" /\ round # <<>>
  /\ at' = Head(round) /\ round' = Tail(round)
  /\ \/ todo' = Listing(at')
     \/ at' \in {"malshare", "otx_pulse_cti", "twitter"} /\ todo' = <<>>
  /\ kept' = {}
  /\ UNCHANGED <<clientVars, offered, stored>>

\* OTX judges all its evidence and applies the limit at the end.
Work(rest, more) ==
  /\ kept' = kept \cup more
  /\ todo' = IF Cardinality(kept') >= Limit /\ at # "otx_pulse_cti" THEN <<>> ELSE rest

\* One query of MalwareBazaar's list; rows already kept are not added again.
SendList ==
  /\ OnTask(LoopNames)
  /\ List
  /\ UNCHANGED <<scanVars, stored>>

ListResult ==
  /\ call.op = "done" /\ todo # <<>> /\ Head1.stage \in LoopNames
  /\ call' = NoCall
  /\ CASE call.result = "rows" ->
            \E S \in SUBSET {s \in Shas : knows[s] = "pe"} : Work(Tail(todo), S)
       [] call.result = "unavailable" ->
            Work(Filter(Tail(todo), {t \in Range(todo) : t.stage # Head1.stage}), {})
       [] OTHER -> Work(Tail(todo), {})
  /\ UNCHANGED <<circuit, infoCalls, tables, service, history, bounds,
                 round, at, offered, stored>>

\* ThreatFox's own client: the bulk get_iocs once, then tag queries if it gave nothing.
TagList == [i \in 1..TagQueries |-> Query("tag")]

ListIocs ==
  /\ OnTask({"iocs"})
  /\ \E rows \in BOOLEAN :
       todo' = IF rows THEN Hashes(Feed["threatfox"]) ELSE TagList
  /\ UNCHANGED <<clientVars, round, at, kept, offered, stored>>

\* A tag's rows; the hashes are judged when the last tag was asked.
TagRows ==
  /\ OnTask({"tag"})
  /\ \E rows \in {<<>>, Feed["threatfox"]} :
       todo' = Tail(todo) \o Filter(Hashes(rows), Range(Hashes(rows)) \ Range(todo))
  /\ UNCHANGED <<clientVars, round, at, kept, offered, stored>>

\* A status error of ThreatFox is caught by nobody in the client: discover() raises.
ThreatFoxRaises ==
  /\ OnTask({"iocs", "tag"})
  /\ kept' = {} /\ todo' = <<>>
  /\ UNCHANGED <<clientVars, round, at, offered, stored>>
-----------------------------------------------------------------------------
\* MalShare's own rows need no second opinion.
MalShareRow ==
  /\ at = "malshare" /\ OnTask({"hash"})
  /\ Work(Tail(todo), {Head1.sha})
  /\ UNCHANGED <<clientVars, round, at, offered, stored>>

\* _accept_without_mb_check
AcceptWithoutCheck(s) == s \in Linked \/ (~Available(circuit) /\ s \in Likely)

ThreatFoxTakes ==
  /\ at = "threatfox" /\ OnTask({"hash"})
  /\ \/ AcceptWithoutCheck(Head1.sha) /\ Work(Tail(todo), {Head1.sha})
     \/ ~AcceptWithoutCheck(Head1.sha) /\ ~Available(circuit) /\ Work(Tail(todo), {})
  /\ UNCHANGED <<clientVars, round, at, offered, stored>>

TwitterStops ==
  /\ at = "twitter" /\ OnTask({"hash"}) /\ ~Available(circuit)
  /\ Work(<<>>, {})
  /\ UNCHANGED <<clientVars, round, at, offered, stored>>

Judge ==
  /\ OnTask({"hash"})
  /\ \/ at = "otx_pulse_cti"
     \/ at = "twitter" /\ Available(circuit)
     \/ at = "threatfox" /\ Available(circuit) /\ ~AcceptWithoutCheck(Head1.sha)
  /\ IsPeHash(Head1.sha)
  /\ UNCHANGED <<scanVars, stored>>

AcceptsUnlessNo(r) == r # "no"     \* variant: no answer counts as a good one
Accepts(r) == r = "yes"

\* A hash without an answer is passed over: Twitter gives up when the service is away, and
\* any other error of OTX's question throws away what it had already judged.
Judged ==
  /\ call.op = "done" /\ todo # <<>> /\ Head1.stage = "hash"
  /\ call' = NoCall
  /\ CASE Accepts(call.result) -> Work(Tail(todo), {Head1.sha})
       [] call.result = "unavailable" /\ at = "twitter" -> Work(<<>>, {})
       [] call.result \in {"status", "error"} /\ at = "otx_pulse_cti" -> kept' = {} /\ todo' = <<>>
       [] OTHER -> Work(Tail(todo), {})
  /\ UNCHANGED <<circuit, infoCalls, tables, service, history, bounds,
                 round, at, offered, stored>>

\* OTX's candidates pass a language model that may refuse any of them.
EndProvider ==
  /\ at # "none" /\ todo = <<>> /\ call.op = "none"
  /\ \E S \in {T \in SUBSET kept : at = "otx_pulse_cti" /\ Cardinality(T) <= Limit} \cup
              {T \in {kept} : at # "otx_pulse_cti"} :
       offered' = [s \in Shas |-> IF s \in S /\ offered[s] = "none" /\ s \notin stored
                                  THEN at ELSE offered[s]]
  /\ at' = "none" /\ kept' = {}
  /\ UNCHANGED <<clientVars, round, todo, stored>>
-----------------------------------------------------------------------------
\* binary_fetch takes the candidates in turn, once each.
Fetch ==
  /\ Idle
  /\ \E s \in Shas :
       /\ offered[s] # "none"
       /\ Download(s, offered[s], 0)
       /\ offered' = [offered EXCEPT ![s] = "none"]
  /\ UNCHANGED <<circuit, infoCalls, tables, service, history, bounds,
                 round, at, todo, kept, stored>>

Fetched ==
  /\ call.op = "done" /\ at = "none"
  /\ stored' = IF call.result = "bytes" THEN stored \cup {call.sha} ELSE stored
  /\ call' = NoCall
  /\ UNCHANGED <<circuit, infoCalls, tables, service, history, bounds, scanVars>>

Client == ClientStep /\ UNCHANGED <<scanVars, stored>>
Environment == World /\ UNCHANGED <<scanVars, stored>>

Restart ==
  /\ restarts < MaxRestarts
  /\ restarts' = restarts + 1
  /\ ClientRestart
  /\ round' = <<>> /\ at' = "none" /\ todo' = <<>> /\ kept' = {}
  /\ offered' = [s \in Shas |-> "none"]
  /\ UNCHANGED stored

Scan ==
  \/ StartProvider \/ SendList \/ ListResult \/ ListIocs \/ TagRows \/ ThreatFoxRaises
  \/ MalShareRow \/ ThreatFoxTakes \/ TwitterStops \/ Judge \/ Judged \/ EndProvider

Next == StartRound \/ Scan \/ Fetch \/ Fetched \/ Client \/ Environment \/ Restart

Spec == Init /\ [][Next]_vars
-----------------------------------------------------------------------------
\* The scheduler starts a round again and again and the process goes on with its work; time
\* passes; a ThreatFox listing that is asked for again and again succeeds again and again.
FairSpec ==
  /\ Spec
  /\ WF_vars(Scan) /\ WF_vars(Fetched) /\ WF_vars(Client) /\ WF_vars(TimePasses /\ UNCHANGED <<scanVars, stored>>)
  /\ \A r \in Rounds : SF_vars(StartRound /\ round' = r)
  /\ SF_vars(ListIocs /\ Len(todo') > 0 /\ Head(todo').stage = "hash")
-----------------------------------------------------------------------------
Ops == {"none", "list", "info", "file", "again", "unzip", "unzipAgain", "malshare",
        "provider", "done"}
Stages == LoopNames \cup {"iocs", "tag", "hash"}

\* Every variable has its type.
TypeOK ==
  /\ circuit \in [failures : 0..Threshold, openFor : Nat]
  /\ infoCalls \in 0..MaxInfoCalls + 1
  /\ cache \in [Shas -> [verdict : {"none", "yes", "no"}, age : 0..TtlDays + 1]]
  /\ used \in 0..DailyLimit
  /\ call \in [op : Ops, sha : Shas \cup {NoSha}, from : Providers \cup {"none"},
               attempt : 1..Attempts, round : 1..Retries, depth : 0..MaxDepth,
               result : {"none", "rows", "yes", "no", "bytes", "status", "error", "unavailable"}]
  /\ knows \in [Shas -> Knowledge] /\ health \in {"up", "down", "throttling"}
  /\ answered \in [Shas -> Knowledge \cup {"nothing"}] /\ misled \in SUBSET Shas
  /\ failedCalls \in 0..Threshold /\ {served, spoiled, outages, days, restarts, uploads} \subseteq Nat
  /\ round \in Seq(Providers) /\ at \in Providers \cup {"none"}
  /\ todo \in Seq([stage : Stages, sha : Shas \cup {NoSha}])
  /\ kept \in SUBSET Shas /\ stored \in SUBSET Shas
  /\ offered \in [Shas -> Providers \cup {"none"}]

\* A verdict that is_pe_hash gives without asking was once read from an answer: no HTTP error,
\* lost connection, rate limit, open circuit or spent budget becomes "this hash is no program".
\* Only an error inside a well-formed answer does, which get_file_info cannot tell from it.
VerdictsWereAnswered ==
  \A s \in Shas :
    /\ cache[s].verdict = "yes" => answered[s] = "pe"
    /\ cache[s].verdict = "no" => answered[s] \in {"other", "unknown"} \/ s \in misled

\* The table counts every archive the service sent today, but for those that could not be
\* unpacked: the day's count is never refused once a download was allowed.
InHand == IF call.op \in {"unzip", "unzipAgain"} THEN 1 ELSE 0
QuotaAccounts == served <= used + spoiled + InHand

\* What a provider keeps was vouched for, by MalwareBazaar or by the listing itself.
KeptIsVouchedFor ==
  \A s \in kept :
    \/ answered[s] = "pe" \/ at \in {"malwarebazaar", "malshare"}
    \/ at = "threatfox" /\ s \in Linked \cup Likely

\* A single failed call after a success does not open the circuit, unless it was a rate limit.
OneFailureIsForgiven ==
  circuit.openFor > 0 /\ circuit.failures > 0 => failedCalls > 1

\* Every call ends, whatever the service answers: no chain of retries and fallbacks goes on
\* for ever.
CallsEnd == call.op # "none" ~> call.op = "none"

\* Once the service is well for good, the client forgets that it was not.
OutageIsForgotten == <>[](health = "up") => <>[](circuit = Closed)

\* A hash ThreatFox lists is reached if fewer hashes than the limit that may be accepted are
\* listed before it.  Once the service is well for good, and verdicts read from its errors
\* have expired, every reached hash gets an answer, although a round may ask for fewer.
Ahead(s) ==
  LET feed == Feed["threatfox"]
      before == {feed[i] : i \in {j \in DOMAIN feed : \A k \in 1..j : feed[k] # s}}
  IN {t \in before : knows[t] = "pe" \/ t \in Linked \cup Likely}
EveryHashIsJudged ==
  <>[](health = "up" /\ \A s \in misled : Verdict(s) = "none") =>
    <>(\A s \in Range(Feed["threatfox"]) \ Linked :
         Cardinality(Ahead(s)) < Limit => answered[s] # "nothing")
=============================================================================
