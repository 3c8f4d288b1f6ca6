# AMD-Agent in TLA+

AMD-Agent collects Windows programs, labels them by where they came from,
projects each one to a feature vector, and keeps a LightGBM model of malware up
to date as the stream drifts. The code is a LangGraph of eleven nodes that a
scheduler runs again and again; what outlives a pass is one SQLite database,
one model file and a few JSON files.

This directory holds TLA+ modules for the parts of that program whose
correctness depends on the order of things, the TLC configurations that check
them on small instances, and TLAPS proofs of what matters most for instances of
every size. Paths below are those of the repository.

## 1. Inventory

### The pass

    source_selector -> source_discovery -> binary_fetch -> data_validation
      -> feature_extraction -> drift_monitor
           |- drift ------> explain_drift_context -> model_retrain -> evaluation
           |- threshold --> model_retrain -------------------------> evaluation
           `- neither ----> classifier_inference ------------------> evaluation

`src/graph.py:106-158` builds it; `_wrap` merges what a node returns into the
state of the pass (`src/state.py`). `SchedulerLoop` (`src/runtime/scheduler.py`)
runs passes for ever, swallows whatever a pass raises and backs off. A pass
that raises loses its state; the tables and files keep what was written.

| component | state it keeps | operations | what can go wrong | what makes it correct |
|---|---|---|---|---|
| sample tables (`db/repositories/sample_repository.py`, `ml_metadata_repository.py`) | `samples`: status, label, features, `trained_at`, URL; `sample_sources`: URL to content | insert, mark corrupted, record a source, update features, mark trained | rows written by one node and completed by another; a URL that serves something new | a content is stored once, featured once, and quarantine is final |
| ingestion (`nodes/source_discovery.py` to `feature_extraction.py`) | candidates, downloaded paths, `hash_metadata` of the pass | filter, download, gate, insert, extract | failed downloads, answers that are no program, one content under two names, a failed pass | no valid file is lost or stored twice; downloads settle |
| continual learning (`ml/classifier.py`, `ml/madar.py`, `nodes/model_retrain.py`, `nodes/classifier_inference.py`, `evaluation/model_update.py`) | `model.pkl` with its class counts, feature version, update metadata; `trained_at` | cold start, retrain on drift or on a threshold, mark, compare | the holdout moves between updates; targets are tested on different counts; a failed pass; a new feature version | models are graded on rows they never saw; a corpus that is large enough gets a model; what spends a sample is known |
| drift windows (`ml/drift.py`) | an ADWIN detector and the last 80 vectors, in a joblib file saved after every sample | append, cut, compare, save | vectors of two feature selections in one comparison, a torn file, slices at the wrong end | a lasting change is seen at full contrast, a past one is forgotten |
| provider clients (`tools/clients`, `tools/pe_download.py`) | a circuit, and the `get_info` budget of the round, in memory | request with retries and back-off, judge a hash, download with fallbacks | one call counted twice, a circuit or a counter that is never cleared, fallbacks that call each other | a service that answers again is used again; every call ends; one failure is forgiven |
| quota, cooldown, statistics (`db/repositories/quota_repository.py`, `collection_repository.py`) | downloads of the day, verdict cache, rotation counter, runs of each provider, candidates of each pass | check, record, rank, cool down | check and record around a download; verdicts nobody gave; every provider cooled down; rotation under failing passes | what the tables say happened is what happened; no class and no provider is starved |
| providers (`sources/`) | none of their own | list, judge, download | an error in the middle of a listing, a budget that ends before the list | only hashes that somebody vouched for are offered |
| discovery and balance (`collection/`, `nodes/source_selector.py`) | none of its own | choose the class and the sources, share out slots, top up by the fallback chain | two filters with two sets of met keys, room that is used up by what is dropped | what is fetched is new and offered once; both classes stay wanted |
| evaluation (`nodes/evaluation_node.py`, `evaluation/tesseract.py`, `training_history.py`, `drift_log.py`) | counter of passes, three JSONL logs | gate, measure, append | a counter saved before the work it counts, state carried over from a failed pass, records out of step | evaluations come due; every record says of a retrain or drift what was so |
| runtime (`runtime/scheduler.py`, `graph.py:193-242`, `docker/amd-agent-run.sh`) | passes of the bootstrap | bootstrap, run, sleep, stop | any node raises, the container is stopped | passes go on; the bootstrap ends |
| tasks (`db/repositories/task_repository.py`) | `task_log`, `task_id` of rows | open, assign, read back | read only by retrograde evaluation | tasks are numbered in order |
| LLM client (`llm/client.py`) | none | name sources, keep or reject a candidate | a name that is no source, or of the other class | its answers stay within what the strategy allows |
| reports (`evaluation/report_figures.py`) | adds to the evaluation log | backfill, live evaluation | runs beside the agent, again and again | no record is copied twice |
| threat-intelligence collector (`intel/`) | feed sources, pending hashes | ingest pass | - | reached by no node of the graph apart from `record_download_outcome` |
| PE features and profiles, page discovery, configuration, logging, scripts | none that steers the above | numeric or textual work | - | - |

Nodes call each other only through the state of the pass. Components share the
tables: ingestion writes rows and features, learning reads them and writes
`trained_at`, evaluation may re-extract features, and local benign files enter
from the learning side (`ingest_benign_corpus`). All providers share one
MalwareBazaar client, its budget and its circuit. The report script is another
process and shares the logs.

What is hard here is not parallelism (a pass is sequential) but that every pass
may stop anywhere while its writes remain, that services fail in the middle of
a listing, that the same thing is counted or filtered in two places, and that
memory, tables and files outlive each other differently.

## 2. Modules

| module | models | theorems in |
|---|---|---|
| `TemporalSplit` | `temporal_split` of `ml/splits.py`: integer arithmetic of the cut points | `LearningHoldout_proofs` |
| `LearningLoop` | the learning half of a pass, from the drift monitor to the update record | `LearningLoop_proofs`, `LearningHoldout_proofs` |
| `SampleLifecycle` | the abstract specification: what the sample table promises of one content | - |
| `IngestPipeline` | the collecting half of a pass; refines `SampleLifecycle` | `IngestPipeline_proofs` |
| `DriftWindows` | the windowed shift check across passes, retrains and restarts | `DriftWindows_proofs` |
| `BazaarClient` | the MalwareBazaar client: circuit, retries, budget, verdict cache, quota, download chain | - |
| `CtiProviders` | the five malware providers over that client, and the downloads between rounds; extends `BazaarClient` | `CtiProviders_proofs` |
| `Collection` | selection of class and sources, slots, chain, top-up, and the record that cools providers down | `Collection_proofs` |
| `Runtime` | container, bootstrap loop, daemon, evaluation gate, the three logs and the report script | `Runtime_proofs` |
| `Filters` | list comprehensions over a set, which discovery and clients filter by | `SequenceFacts` |
| `SequenceFacts` | none: lemmas about sequences, queues and `Filter`, and induction over naturals, for the proof modules | itself |
| `MCLearningLoop`, `MCIngestPipeline`, `MCDriftWindows`, `MCCtiProviders`, `MCCollection` | instances for TLC | - |

The modules cut the program where little crosses: `Collection` leaves open what
a provider answers, `CtiProviders` is one reason why; `IngestPipeline` starts
from offers, which `Collection` ends with; `LearningLoop` adds rows from
nowhere; `Runtime` knows of all of them only whether the corpus and the bundle
meet the targets. Each of these openings allows more than the module on the
other side does.

### LearningLoop

A row of `corpus` is a labelled row of the sample table with features; its
index is its rank by `ingested_at`, so "newest" is "largest". A vector is
`current`, `stale` (older feature version, its file can be read again) or
`lost`. The bundle is reduced to what later code reads of it: class counts,
feature version, the trigger and `strict_holdout_excluded` metadata, and, as
history, the rows it was fitted and calibrated on and the rows that entered as
empty vectors.

| action | code |
|---|---|
| `Collect` | `source_selector` fixes the phase and clears the pass; the ingestion nodes add rows |
| `DriftQuiet`, `DriftDetected`, `ThresholdRetrain` | `nodes/drift_monitor.py` and the route it decides |
| `RetrainPrepare` | `model_retrain` up to the training call: benign import, holdout, stale rows |
| `RetrainFit`, `RetrainSkip` | `madar_retrain` and `retrain_model` succeed, or keep the old bundle |
| `MarkAllTrained`, `RecordUpdate` | the two writes that follow, with a possible failure before each |
| `Infer`, `ColdStart`, `ColdStartSkip` | `classifier_inference` with and without a usable bundle |
| `Evaluate` | `evaluation_node`, which may re-extract stale features |
| `Abort` | a node raises and the scheduler goes on (or the process restarts) |
| `Upgrade` | a new feature version is deployed between passes |

A retrain is split into four steps because a failure between any two of them
leaves different things behind: a new model with unmarked rows, marked rows
without a record. Two loops commit row by row, and a step does them whole: the
import of local benign files (`classifier.py:604-623`) and the re-extraction of
stale rows (`classifier.py:656-664`). A failure inside them leaves a part of the
files imported, or all of them and a part of the rows read again; `Abort` allows
every such part (`ImportedFiles`, `RereadRows`), at every node that runs the
loops. Nothing else reads the tables while they run. What the model leaves open:
which samples drift fires on, which rows replay samples (any set of the size
the code takes), which rows a stratified split sends where (any parts in
proportion). Which features a training run selects is left out.

### IngestPipeline

A content stands for a file and its SHA-256; an offer names either a digest or
a URL (or repository path). A row is found by its key, which is the SHA-256 of
what was downloaded, but for a file of `data/benign` its name without the
extension, whatever the file holds (`classifier.py:607`): a local file is a
record of name and content, two copies of one program under two names become two
rows, and a file named after a digest takes that digest's row. A name that is no
digest is one more content, which nobody serves. The assumption says that a name
is of the same kind as what the file holds; without it a file could be named after
the digest of one that is no program. `Kind` says what the gates see: `pe` passes, `mz`
has a DOS header only, `odd` passes the gates and breaks pefile. Files without a
DOS header need no kind: they never enter the sandbox and appear as the
`FetchNothing` and `FetchJunk` steps. One action per exit of each node's loop,
in the order of its `continue`s; one action for the end of each loop. The
early digest tests of `binary_fetch` (50-67) are absorbed by the guards:
`FetchCorrupted` and `FetchDuplicate` have the effect those branches have, and
`FetchJunk` needs a digest that is not in the table. Three
branches of the source cannot be taken and are left out: the digest-mismatch
branch of `data_validation` (the sandbox file is named after its content), its
pending-row branch, and `is_pending` in the filter (nothing in the graph inserts
pending rows). The candidate table, which records statistics of every offer, is
not part of this module: none of the guards reads it.

The import commits file by file, so `Abort` at that node leaves any part of it.
`fetched` is a history variable: how often the present content of a URL was
downloaded, up to 3. An answer that is no program is no content and is not
counted.

### DriftWindows

`vectors` is the saved window of `DriftMonitor`. Because `update` saves after
every sample, memory and file agree between samples, and one variable stands
for both. A vector is reduced to the concept its sample came from and the
feature selection it was projected on; a score can pass its threshold only when
the compared vectors are not all alike. `Observe` is `update` on one sample
(append, cut to four windows, compare, save); `Fit` is any training that puts a
new bundle into production and so changes `_selected_drift_indices`; `Keep` is
the end of a pass that did not; `TornFile` is a process that dies while the file
is written, after which `_load` starts anew. `last`, `run` and `before` are
history: the vector observed last, how many like it came in a row, and the
length of the run before. ADWIN is a library; its alarm can only lead to a
retrain, which `Fit` allows at the end of any pass.

### BazaarClient and CtiProviders

Time is how many ticks the circuit still stays open, and the day. A call is a
record that says what is asked and how often it was tried; its steps are the
attempts of `post_form` (`http_client_base.py:135-234`) and of what is wrapped
around it. The service answers, throttles or is down in any of the ways the
client tells apart.

| action | code |
|---|---|
| `StartRound`, `StartProvider`, `EndProvider` | a discovery resets the budget and asks its providers in order; candidates are kept under the first |
| `List`, `IsPeHash`, `Download` | the three kinds of call, with the tests before the first request |
| `TryAgain`, `ServerError`, `TransportError`, `RateLimited`, `Refused`, `Garbled` | the exits of `post_form`, with what each does to the circuit |
| `ErrorInAnswer` | HTTP 200 with another `query_status` than ok, or without data: a verdict "no program", an empty list, a failed download |
| `ListAnswered`, `InfoAnswered`, `FileUnknown`, `FileAnswered`, `Unzip`, `UnzipFails` | the answers, the cache and the quota they write |
| `MalShare`, `AskProvider` | the fallbacks of `download_pe_candidate` |
| `SendList`, `ListResult`, `ListIocs`, `TagRows`, `ThreatFoxRaises`, `MalShareRow`, `ThreatFoxTakes`, `TwitterStops`, `Judge`, `Judged` | the loops of the five `discover()` methods, one step per query or hash |
| `Fetch`, `Fetched` | `binary_fetch` takes a candidate; the content is stored |
| `TimePasses`, `NewDay`, `Outage`, `Recovery`, `Upload`, `Restart` | the world |

The clients of ThreatFox, OTX, Twitter's search and MalShare are reduced to
whether they answer, fail or raise: they share nothing. `Feed` is what a
provider's loop goes through, after its client has sorted it and cut it to a
multiple of the limit. The loops of ThreatFox and Twitter are left when `Limit`
candidates are kept (`threatfox.py:111`), OTX judges all its evidence. A verdict
is read for `MB_INFO_CACHE_TTL_DAYS` days and then asked for again. `failedCalls`,
`answered`, `misled`, `served` and `spoiled` are history. OTX's language model may
refuse any candidate.

### Collection

A key stands for the digest or URL a provider lists; what is stored, refused or
a remembered duplicate is `known`. A pass is `Select` (the strategies under
`collection/strategies`, with the choice of a language model), then one
`Answers` or `Raises` per provider asked, `TopUp` between the slots and the
chain, `EndPart` with the second filter (`discovery_chain.py:212-231`), and
`Fetch`, which stores some candidates, refuses others and writes
`provider_runs`. `Abort` is a pass that raises anywhere: no runs are recorded.
`Publish` lets a key be new again, `CooldownLapses` is time. A mixed pass has
two discoveries, of different classes. `ledger` is the part of the candidates
table this pass wrote; `streak` is history. The rates of success that rank
benign providers only order them, and every order is allowed.

### Runtime

An evaluation is its number in time, a drift its number, a line of a log what
it says about them. `skipped` counts the steady passes the gate let go since an
evaluation was last attempted (`Measure`, also when it raises, which the node
survives), and `lost` what cost a count since then: a counter file that was torn,
or a stop between the count and an evaluation that was due. The counter is
`evaluation_state.json`, and when that file cannot be read only the counter goes
back, not `skipped`. `pass` is the part of `AgentState` the gate reads.

| action | code |
|---|---|
| `Start`, `Wake`, `PassDone` | `docker/amd-agent-run.sh`, `run_bootstrap`, `SchedulerLoop.run` |
| `Upgrade` | the container comes back with another feature schema: no row counts and no bundle fits (`context.py:20`, `classifier.py:62`) |
| `Select`, `Collect`, `DriftDetected`, `ThresholdRetrain`, `NoRetrain`, `Infer`, `OpenTask`, `Retrain`, `SkipRetrain` | the nodes, by what they put into the state |
| `GateForced`, `GateBootstrap`, `GatePeriodic` | the gate of `evaluation_node`, with the counter file |
| `Measure`, `RecordHistory`, `RecordDrift` | the three appends, each of which may fail and is survived |
| `Fail`, `Stop`, `SaveFails` | a node raises; the container is stopped, at any point; the counter file cannot be written |
| `Backfill`, `LiveEvaluation` | `report_figures.py`, another process, at any time |

## 3. Runs

All bounds are constants of the modules and begin with `Max`: `MaxBatch` rows or
offers of a pass, `MaxRows`, `MaxAborts` failed passes, `MaxUpgrades`,
`MaxPublishes`, `MaxOutages`, `MaxDays`, `MaxRestarts`, `MaxUploads`,
`MaxSpoiled`, `MaxSamples`, `MaxEvals`, `MaxEvents`, `MaxTasks`, `MaxLines`,
`MaxFaults`. (`MaxInfoCalls` is a setting, and `MaxDepth` stands for the
interpreter's limit of nested calls.) Deadlock is checked in every run.

| run | checks | states | shows |
|---|---|---|---|
| `learning_steady` | `StrictHoldoutExcluded`, `StrictBaselineHonest`, `MarkedRowsWereLearned` | 1.1 million | comparisons are honest on both sides; a drift retrain marks no row but what it learned, held out or had no room for |
| `learning_upgrade` | `TypeOK`, `ReadyMeansSteady` | 1.2 million | with an upgrade, a local file and a failure, a usable model means a steady corpus |
| `learning_live` | `TargetsLeadToModel` | 259 000 | enough rows lead to a model, also after an upgrade with lost files |
| `ingest_life` | `TypeOK`, `NothingStranded`, `ProvenanceAgrees`, `DownloadsSettle`, `ImplementsLifecycle` | 300 000 | refinement of `SampleLifecycle`; nothing lost; a program that is stored is not downloaded for ever |
| `drift_settles` | `TypeOK`, `FullContrast`, `QuietOnceSettled` | 2.1 million | a lasting change is seen, a past one is forgotten |
| `providers_shared` | `TypeOK`, `VerdictsWereAnswered`, `QuotaAccounts`, `KeptIsVouchedFor`, `OneFailureIsForgiven` | 1.8 million | what the client believes of a hash, of its quota and of the service is what the service said, sent and did |
| `providers_recover` | `CallsEnd`, `OutageIsForgotten`, `EveryHashIsJudged` | 227 000 | no chain of retries is endless, an outage leaves no trace, a small budget starves no hash that the limit lets through |
| `collection` | `TypeOK`, `CandidatesAreFresh`, `ReturnedIsFetched`, `BenignIsAsked`, `BenignIsRefreshed` | 2.3 million | what is fetched was filtered against everything; benign programs stay wanted and asked for |
| `collection_live` | `CooledProvidersReturn`, `BootstrapEnds` | 57 000 | a provider that cooled down is asked again; neither class is forgotten |
| `runtime` | `TypeOK`, `HistoryFits`, `DriftLogFits`, `EvaluationIsDue`, `BackfilledOnce`, `PassesGoOn`, `BootstrapStops` | 1.2 million | the logs agree, evaluations come due, passes go on |
| `learning_blank` | `NoBlankVectors` (violated) | - | see below |
| `collection_topup` | `ShortBatchAskedAll` (violated) | - | see below |

Why the bounds are enough:

- The learning runs keep the code's ratios (70/15 and 85); the targets are 2 and
  2 in place of 25 and 25, the threshold 2 in place of 50, the replay budgets 2
  and 3, small enough that a class outgrows its budget within seven rows. With
  a batch of four a single pass can go from an empty table to the cold start;
  with seven rows there is room for a cold start, a first retrain that produces
  a strict model and a second one that compares it on a holdout that has moved.
- `ingest_life` has four contents of the three kinds and a name that is no
  digest, two URLs and two promised digests, so one content can come under both
  names in one batch of three; three local files, one named after the digest of
  an offered program and two that are copies of one program; a URL may be
  overwritten once, and a pass may fail once at any point.
- `drift_settles` uses windows of two vectors (20 in the code), so eight are
  kept; a pass of up to two samples can fail, or its file be torn, between them.
- The provider runs have a program, and a program that nobody has uploaded yet;
  ThreatFox lists both, MalwareBazaar and MalShare the first, Twitter and OTX the
  second; orders of providers in which one
  that uses MalwareBazaar follows another; a threshold of 3 as in the code, two
  attempts, one question a round although two or three hashes are listed, a limit
  of one candidate, so that a listing is left behind the first that is kept, and
  a quota of one. `providers_shared` adds one outage, one midnight, one restart,
  one upload and one archive that cannot be unpacked, at any point. In
  `providers_recover` ThreatFox lists an unknown hash, a program and something
  else, in that order: the limit is reached at the second, so the third need
  not be judged and the first two must be. One outage, with errors inside answers, and
  one midnight, after which verdicts are no longer read, come at any point.
- `collection` has a malware and a fallback provider that list the same hash and
  two publishers that share a program, a pass of four candidates (so a mixed
  pass has two discoveries with two slots) and cooldown after two barren runs;
  `collection_live` lets a single barren run cool a provider down, so all can
  cool down at once.
- `runtime` has an evaluation every second pass, a bootstrap of two passes, two
  drifts, two retrains, two evaluations, two lines of the log, a fault and an
  upgrade whenever the container is down: enough for a backfill between two
  appends, for a record that is skipped before one that is not, and for a counter
  that is torn one pass before its evaluation. A retrain that is skipped between
  two that are recorded needs a third task, which takes TLC longer than is
  reasonable; `HistoryIsRight` covers it.

Two runs look for the violation of a sentence of the documentation, and find it:

| run | the sentence | what the code does |
|---|---|---|
| `learning_blank` | the retrain learns from the new samples (`README.md:156`) | in a threshold retrain the batch's features are nested one level too deep and read as zeros |
| `collection_topup` | "keep filling malware batches via fallbacks" (`discovery_chain.py:438`) | the top-up fills its room with candidates that are in the batch already, stops before the fallbacks, and drops them afterwards |

More disagreements were met while reading. They are visible in the definitions
and have no run of their own.

Learning:
- the counts of a retrained bundle leave the holdout out, can miss the targets,
  and then the bundle that "becomes production" (`README.md:156`) is never used
  (`RetrainFit`, `Ready`);
- a pass that fails before the cold start is followed by steady passes whose
  retrain branch bypasses it (`ThresholdRetrain`), against `README.md:155`;
- a threshold retrain marks its batch as trained although those rows entered as
  empty vectors (`learning_blank`): `MarkedRowsWereLearned` names them `Spent`.
  They stay in the history, from which later retrains may replay them with their
  features, but no later threshold retrain counts them;
- a cold start sets no `trained_at` (`classifier.py:691-776`), so the rows it was
  fitted on still count as "never been trained on"
  (`ml_metadata_repository.py:18`);
- the "chronological validation split" of a retrain (`classifier.py:788`) cuts
  replay rows followed by the batch (`madar.py:186`, `FitPart`), not rows in
  order of time;
- `init_model=None` (`model_retrain.py:101`) ranks the features again on every
  retrain, although `_force_feature_reselection` promises to "reuse the previous
  selected set" (`model_retrain.py:24`); nothing clears the drift window when
  they are (`reset_detector` has no caller), so a retrain can raise the next
  alarm by itself (`Fit` of `DriftWindows`); `QuietOnceSettled` does not exclude
  that, it bounds it by two windows.

Ingestion and providers:
- an error text answered with status 200 for a digest quarantines the digest
  (`FetchJunk`);
- a failure between validation and extraction leaves a row nobody completes
  (`NothingStranded` is about passes that were not cut short), although
  `README.md:82` says that each validated file is projected to a vector;
- a URL whose answer is no program (`binary_fetch.py:71-95`) is remembered
  nowhere, and is downloaded again in every pass in which a provider lists it
  (`FetchNothing`); `DownloadsSettle` is about programs only;
- an error of MalwareBazaar inside a well-formed answer, any `query_status` but
  ok, is taken for a hash it does not know (`malwarebazaar_api_client.py:289-298`)
  and kept as "no program" for 30 days (`ErrorInAnswer`). `VerdictsWereAnswered`
  names these hashes (`misled`); no other failure becomes a verdict;
- the ThreatFox listing is left at the limit (`threatfox.py:111`), and a hash
  that was accepted before is accepted from the cache again: with as many such
  hashes in front as the limit, those behind are never judged (`Accepts`, `Work`).
  `EveryHashIsJudged` is about the others, and about hashes whose place in the
  listing stays;
- a server error is counted when the attempts end and again by the handler
  around them (`http_client_base.py:177-230`), so the threshold of three
  "consecutive failures" (`:25`) is reached by two calls (`StatusFailure`);
- OTX's `download` is `download_pe_candidate`, which ends in the provider's
  `download` (`AskProvider`): the nesting ends only with the interpreter's
  patience;
- a status error of ThreatFox's bulk query is not caught, so the fallback to tag
  queries is for empty answers only (`ThreatFoxRaises`); an error other than
  "unavailable" while OTX judges throws away what it had judged (`Judged`).

Collection and runtime:
- `README.md:131` says the agent "downloads more of whichever class is behind";
  the rotation asks for benign programs every so often also when they are not
  (`Rotation`);
- `run_bootstrap` runs "until the initial model is ready or safety limit is
  hit" (`graph.py:194`), but an exception of any pass ends it, and with it the
  container's script (`Survives`);
- the backfill appends old evaluations at the end of the log, so
  `latest_eval_metrics`, "the last persisted" record (`tesseract.py:199`), can be
  an older one (`Latest`); it is meant for a log that is sparse
  (`report_figures.py:48`) and looks at no length (`Backfill`);
- a counter file that cannot be read counts as none (`evaluation_node.py:36-40`),
  so with one torn file twice as many steady passes go by unevaluated as
  `EVAL_EVERY_RUNS` says (`Torn`; `EvaluationIsDue` counts what was lost);
- a drift record that could not be written sets `pending_drift_log` again
  (`evaluation_node.py:241`), but the next `source_selector` clears it
  (`Cleared`): it is not tried again.

### Fairness

`FairSpec` of `LearningLoop` is weak fairness of the disjunction of the pass's
own steps: the scheduler starts the next pass (`SchedulerLoop.run`), and a
started node returns or raises. It owes no drift, no failure and no upgrade, so
these stay possible but are never required. `Collect` may always add nothing,
so the environment owes no samples either. Drift fires only on samples of the
pass, and `MaxRows` bounds how many there are: in the model drift cannot keep a
steady corpus away from the cold start for ever. With an unbounded stream it
could, as the threshold branch does.

`FairSpec` of `CtiProviders`: weak fairness of the client's, the scan's and the
fetch's steps (code that runs goes on) and of time; strong fairness of starting
a round, for each order of providers, because the choice of sources rotates and
downloads come between; and strong fairness of one external answer, ThreatFox's
listing, without which no hash would ever be looked at. It owes no recovery:
`OutageIsForgotten` and `EveryHashIsJudged` say what follows if the service is
well for good.

`FairSpec` of `Collection`: weak fairness of the steps of a pass; strong
fairness of what the world does again and again: hours pass (`CooldownLapses`),
publishers renew what they list (`Publish`), and a class that is asked for again
and again yields something new (`FreshAnswer`) that is stored in the end
(`Stores`). The last two are assumptions about providers that no code
guarantees; without them no strategy could end the bootstrap phase.
`CooledProvidersReturn` needs the source's own choice infinitely often: a
language model may name the same other source for ever.

`FairSpec` of `Runtime` is weak fairness of the steps of a pass and of waking
up. Nobody owes a drift, a fault, a report or a restart of the container, so
`PassesGoOn` holds for a daemon whose nodes raise whenever they like.

## 4. Proofs

The proofs assume only the named assumptions of the modules
(`LearningAssumption`, `IngestAssumption`, `DriftAssumption`, `BazaarAssumption`,
`ProviderAssumption`, `CollectionAssumption`, `RuntimeAssumption`): naturals for
targets, budgets, settings and bounds, percentages that sum to at most 100,
targets and windows of at least two, providers that are benign or not, a fetch
limit above one (25 in the code; a mixed pass halves it, and half of one would
leave the benign discovery nothing to ask for) and a language model that names
some source if it is followed at all (`_coerce_source_decision`). The runs
evaluate all of them. No bound is used. One theorem has an assumption of its
own, which the code's constant meets.

- `LearningLoop_proofs!TypeCorrect`: `TypeOK`, including that batch, holdout
  and vectors are rows of the table although rows are added in between.
- `LearningHoldout_proofs!StrictHoldoutIsExcluded`: the new model of a record
  never saw the holdout: `Historical` and `Fresh` both subtract it, and replay
  and the split only choose among these.
- `LearningHoldout_proofs!StrictBaselineIsHonest`: the harder half. The
  previous model was trained passes ago, against an older holdout, and nothing
  in the code looks at that holdout again. The invariant `BaselineInv` says that
  the rows a strict model saw lie outside the holdout the table would have now;
  it is inductive because the holdout is a suffix whose start never moves back
  (`ShareMonotone`, `ValEndMonotone`, `TailMoves`, `HoldoutMoves`) as the arrays
  grow at the new end. Upgrades can remove rows from the middle of the arrays
  (lost files) and move the start back, but they also make the bundle
  incompatible, so no comparison with metrics uses it; hence the invariant is
  conditional on compatibility and the property on the status `ok`.
- `IngestPipeline_proofs!TypeCorrect`, `NothingIsStranded` and
  `LifecycleIsImplemented`: the last is the refinement of `SampleLifecycle`. Its
  invariant `IngestInv` joins the type with three facts: what is queued for
  extraction was stored by this pass and is active without features, every row
  without features is such a row or does not parse or belongs to a failed pass,
  and a row that passed the gates is not of kind `mz`.
- `IngestPipeline_proofs!SourcesAgree` and `DownloadsAreFew`: two columns that
  record URLs, written at different times. `SettleInv` says what is known of a
  URL while it is under way, as a candidate (`Left`) or as the provenance of a
  content that is not stored yet (`Held`): it is `Free`, with no row in
  `sample_sources` or one that names a rejected content. That was so when
  discovery kept it, only its own candidate could change it, and keys are
  distinct within a batch; quarantine being final, it stays so. `CountInv` adds
  that a URL whose present content was downloaded once has found a row for it
  or a place in the queue, and that a second download leaves a source behind.
- `LearningLoop_proofs!ReadyIsSteady`: `SteadyInv` carries the class counts that
  made the phase steady through the pass: a compatible bundle, or a retrain
  under way, implies a steady phase. Current rows only grow in number, except by
  an upgrade, which also makes the bundle incompatible.
- `LearningLoop_proofs!MarksSpendNothing`: `MarkInv` says that when the rows are
  to be marked, each is held out, was given to the new model with its features,
  is of a class that fills its replay budget (`Crowded`), or is of the batch of a
  threshold retrain (`Spent`); the action property follows from it at the single
  step that marks. What a drift retrain learned is its history and batch whole,
  since only a threshold retrain has rows that enter empty.
- `DriftWindows_proofs!TypeCorrect`, `Quiet` and `ChangesAreSeen`: for every
  window size. The invariant `RunInv` says where the history lies in the saved
  window: its end is the present run, before it comes the run before that one,
  and both fit because a run is counted up to two windows and four are kept.
  Without the second part a change could be seen but not at full contrast.
- `CtiProviders_proofs!VerdictsAreAnswers`, `QuotaIsAccounted`,
  `OneFailureForgiven`: each invariant is disturbed by few of the thirty actions,
  so a lemma first sorts the actions by what they do to its variables
  (`VerdictSteps`, `QuotaSteps`, `CircuitSteps`) and the induction treats the
  rest. The quota needs that a download under way began with quota left
  (`QuotaInv`), since it is recorded only after the archive was unpacked. The
  circuit needs that failures are at most twice the failed calls, and that
  nothing is asked while it is open (`CircuitInv`); the theorem assumes a
  threshold above two (it is three), because with two a single call would open
  it.
- `CtiProviders_proofs!KeptVouchedFor`, `ProviderTypes`: a hash is kept when a
  call comes back with a yes, many steps after the call was made, and by then
  only the call and the head of the provider's work say which hash and which
  provider it was about. `ProviderInv` ties these together: a call about a hash
  keeps it through every retry and fallback (`GoodCalls`), and it is the hash at
  the head of the work (`CallIsForTask`); a yes in hand is what MalwareBazaar
  answered of that hash (`Vouched`), from the service or from a cache that holds
  only its answers (`VerdictInv`), and that answer never changes back, since a
  program that was uploaded stays one (`AnswersStayYes`); and the work of a
  provider is of the kinds its `discover()` produces (`TasksOf` in `ScanType`),
  so that rows of a listing are taken without a question only under the provider
  whose listing vouches for them. The type of circuit and clock is proved apart
  (`CircuitType`, `ClockType`), for any threshold.
- `Collection_proofs!BenignComesRound`: a pass that does not rotate moves neither
  counter nor streak or clears the streak, so the streak never exceeds the
  counter, which wraps.
- `Collection_proofs!ReturnedReachesFetch`, `FetchedIsNew`: `BatchInv` says that
  whatever the candidates table calls returned is in one of three places, the
  batch, the batch held while it is topped up, or the finds, that the second is
  empty outside a top-up, and that none of them holds a known key.
- `Collection_proofs!CandidatesFresh`, `BenignAsked`, `CollectionTypes`: none of
  the three is near to inductive. `PassInv` says of the pass under way that each
  discovery asks and gathers on one side only, benign or not (`PlanInv`,
  `WorkInv`), so the two discoveries of a mixed pass cannot offer a key twice
  within a class; that what the first n slots may give is n times the quotient
  and the rest spread over them (`Given`, `SlotsShareLimit`), so the last slot
  ends at the limit exactly; that a top-up, whose batch starts empty, has room
  left by the batch that is held; and that what the discoveries so far found
  and what the rest may still find fit into `PE_FETCH_LIMIT` (`FoundInv`).
  `AskedInv` carries the promise to ask for benign programs: while nobody was
  asked, the benign discovery is still to come, or under way with somebody left
  to ask and room to ask for. The sources the strategies choose among are
  cooled-down or not, ranked in any order (`OrdersOf`, `ChoiceIsGood`), and
  never none.
- `Runtime_proofs!EvaluationComesDue`: `GateInv` says that the steady passes let
  go since the last attempt are at most the counter and a full round for each
  count that was lost, but in a pass on its way to an evaluation that was due,
  whose count is back at zero and whose passes a full round still bounds; a torn file puts the counter back and adds one to
  `lost`, so the bound grows by what the code lets go, `2 * (EvalEvery - 1)` for
  one torn file.
- `Runtime_proofs!TypeCorrect`, `BackfillsOnce`,
  `HistoryIsRight`, `DriftLogIsRight`: the last two rest on `RuntimeInv`, which
  says that what the pass under way holds (its retrain's number and task, its
  drift, its evaluation) comes after everything the logs say, at exactly the
  nodes between taking it and writing it down. A failed pass keeps its state in
  memory, and the invariant does not cover that state: `Select` clears it before
  anything reads it.

What a filter over a list returns needs induction over its length. The
library's induction theorems take the property as an operator, which the provers
cannot instantiate, so `SequenceFacts` takes it as a set: the numbers below n
that lack the property would have a least one (`LeastElement`, from the
well-foundedness of the naturals; `SetInduction`). With it, `FilterIsDefined`
shows that the recursive function inside `Filter` exists, and `FilterType` what
its values are sequences of. This is why the modules filter with `Filter` and
not with `SelectSeq`, whose test is an operator.

Model-checked only: liveness (`TargetsLeadToModel`, `CallsEnd`,
`OutageIsForgotten`, `EveryHashIsJudged`, `CooledProvidersReturn`,
`BootstrapEnds`, `PassesGoOn`, `BootstrapStops`), which is out of the prover's
reach. Every invariant, every action property and the refinement that a passing
run checks is stated by a theorem.

## 5. Plan

Done: `TemporalSplit`, `LearningLoop`, `SampleLifecycle`, `IngestPipeline` and
`DriftWindows`; then `BazaarClient` with `CtiProviders`, `Collection` and
`Runtime`; proofs for each of them. Left, in this order:

1. Composition of `IngestPipeline` and `LearningLoop` on one table, with
   `CtiProviders` as the source of offers.
2. `task_log` and retrograde evaluation, composed from `LearningLoop` and
   `Runtime`.
3. The replay allocation as a pure algorithm against a reference definition.

## 6. Not modelled

- The numeric side: feature extraction, LightGBM, thresholds, metrics, figures.
  It carries no state that the modelled control reads back.
- Prompts and parsing of LLM answers: the models allow any answer the checks of
  the code let through.
- Page discovery (`sources/pe_source_discovery`, `run_pe_source_discovery`) is
  off by default and starts from an empty list of URLs.
- The collector of `intel/` and the pending queue (`insert_pending_hash`,
  `update_file_path`) have no caller in the running program: the tools bound to
  the LLM are described to it but never executed (`llm/client.py:193-206`).
- The continuation branch of `madar_retrain` needs an `init_model`, which its
  only caller sets to `None`.
- Files by their bytes: a process stopped inside an append can leave half a line
  of a JSONL log, which the next append continues, so both records are lost to
  readers while `count_retrains` still counts the line. `Runtime` appends whole
  lines; only the counter file, which is rewritten in place, may be torn.
- Sleeping times: `SchedulerLoop`'s back-off (60 seconds after the first error,
  the regular interval being 300) is left open.
- Configuration, logging, operator scripts.
