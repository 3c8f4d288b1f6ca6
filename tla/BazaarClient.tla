---------------------------- MODULE BazaarClient ----------------------------
(***************************************************************************)
(* The MalwareBazaar client: a circuit breaker around every request, a     *)
(* budget of get_info questions, a cache of verdicts and a daily download  *)
(* quota.  Cache and quota are tables and outlive the process; circuit,    *)
(* budget and the call under way do not.  A download that fails goes on to *)
(* MalShare and to the provider of its candidate.                          *)
(*                                                                         *)
(* Time is the time the circuit still stays open, and the day.             *)
(***************************************************************************)
EXTENDS Integers

CONSTANTS
  Shas, NoSha,
  Attempts,        \* requests one call may send: the back-offs and one more
  Threshold, OpenTicks, OpenTicks429,      \* circuit breaker settings
  MaxInfoCalls,    \* MB_MAX_INFO_CALLS_PER_RUN
  DailyLimit,      \* MB_DAILY_DOWNLOAD_LIMIT
  TtlDays,         \* MB_INFO_CACHE_TTL_DAYS
  MaxDepth,        \* stands for the interpreter's recursion limit
  FirstKnown,      \* what the service knows of each hash at first
  MaxOutages, MaxDays, MaxRestarts, MaxUploads, MaxSpoiled      \* bounds

Retries == 3       \* _MB_RETRIES
Knowledge == {"pe", "other", "unknown"}

ASSUME BazaarAssumption ==
  /\ NoSha \notin Shas
  /\ {Attempts, Threshold, OpenTicks, OpenTicks429, DailyLimit, MaxInfoCalls} \subseteq Nat \ {0}
  /\ {TtlDays, MaxDepth, MaxOutages, MaxDays, MaxRestarts, MaxUploads, MaxSpoiled} \subseteq Nat
  /\ FirstKnown \in [Shas -> Knowledge]

VARIABLES
  circuit,       \* failures counted, ticks it stays open
  infoCalls,     \* get_info questions since the budget was reset
  cache,         \* mb_hash_cache: verdict and its age in days
  used,          \* mb_api_usage: today's downloads
  call,          \* the call under way, and its result when it is done
  knows, health, \* the service: what it knows, whether it answers
  answered,      \* history: what the service last said of a hash
  misled,        \* history: hashes it has answered with an error since
  failedCalls,   \* history: failed calls since the last success or HTTP 429
  served, spoiled,     \* history: today's archives sent, and those that were no use
  outages, days, restarts, uploads

tables == <<cache, used>>
service == <<knows, health, outages, uploads>>
history == <<answered, misled, failedCalls, served, spoiled>>
bounds == <<days, restarts>>
clientVars == <<circuit, infoCalls, tables, call, service, history, bounds>>
-----------------------------------------------------------------------------
Available(c) == c.openFor = 0
Closed == [failures |-> 0, openFor |-> 0]

\* The counter is only compared with the threshold, so it stops there.
RecordFailureForever(c) ==     \* variant: an open circuit counts as one more failure
  [failures |-> IF c.failures < Threshold THEN c.failures + 1 ELSE Threshold,
   openFor  |-> OpenTicks]
RecordFailure(c) ==
  LET n == IF c.failures < Threshold THEN c.failures + 1 ELSE Threshold
  IN [failures |-> n, openFor |-> IF n = Threshold THEN OpenTicks ELSE c.openFor]

OpenForRateLimit(c) == [failures |-> 0, openFor |-> OpenTicks429]
KeepCounting(c) == c     \* variant: an answer does not clear the counter
RecordSuccess(c) == [c EXCEPT !.failures = 0]

\* The status error of the last attempt is raised inside the try, whose general handler
\* counts it once more unless the first count opened the circuit.
StatusFailure(c) ==
  IF Available(RecordFailure(c)) THEN RecordFailure(RecordFailure(c)) ELSE RecordFailure(c)

NoCallCountedFromZero ==     \* variant: attempts are counted from zero
  [op |-> "none", sha |-> NoSha, from |-> "none", attempt |-> 0, round |-> 1,
   depth |-> 0, result |-> "none"]
NoCall == [op |-> "none", sha |-> NoSha, from |-> "none", attempt |-> 1, round |-> 1,
           depth |-> 0, result |-> "none"]
Done(r) == call' = [call EXCEPT !.op = "done", !.result = r]

VerdictForgotten(s) == "none"     \* variant: the cache is not read
Verdict(s) == IF cache[s].age <= TtlDays THEN cache[s].verdict ELSE "none"

BazaarInit ==
  /\ circuit = Closed /\ infoCalls = 0
  /\ cache = [s \in Shas |-> [verdict |-> "none", age |-> 0]]
  /\ used = 0
  /\ call = NoCall
  /\ knows = FirstKnown /\ health = "up"
  /\ answered = [s \in Shas |-> "nothing"] /\ misled = {}
  /\ failedCalls = 0 /\ served = 0 /\ spoiled = 0
  /\ outages = 0 /\ days = 0 /\ restarts = 0 /\ uploads = 0
-----------------------------------------------------------------------------
\* A new call fails at once while the circuit is open.
Post(c) ==
  call' = IF Available(circuit) THEN c ELSE [c EXCEPT !.op = "done", !.result = "unavailable"]

\* One query of a list (get_recent, get_file_type, get_siginfo, get_taginfo).
List ==
  /\ Post([NoCall EXCEPT !.op = "list"])
  /\ UNCHANGED <<circuit, infoCalls, tables, service, history, bounds>>

\* is_pe_hash: the cached verdict, or a question if the budget allows one.
IsPeHash(s) ==
  /\ IF Verdict(s) # "none"
     THEN /\ call' = [NoCall EXCEPT !.op = "done", !.sha = s, !.result = Verdict(s)]
          /\ UNCHANGED infoCalls
     ELSE /\ infoCalls' = IF infoCalls > MaxInfoCalls THEN infoCalls ELSE infoCalls + 1
          /\ IF infoCalls' > MaxInfoCalls
             THEN call' = [NoCall EXCEPT !.op = "done", !.sha = s, !.result = "unavailable"]
             ELSE Post([NoCall EXCEPT !.op = "info", !.sha = s])
  /\ UNCHANGED <<circuit, tables, service, history, bounds>>

QuotaLeftOneMore == used <= DailyLimit     \* variant: off by one
QuotaLeft == used < DailyLimit

\* download_pe_candidate: without quota, or while the circuit is open, MalShare is next.
Download(s, p, depth) ==
  call' = [NoCall EXCEPT !.op = IF QuotaLeft /\ Available(circuit) THEN "file" ELSE "malshare",
                         !.sha = s, !.from = p, !.depth = depth]
-----------------------------------------------------------------------------
\* The attempts of one call.
Asking == call.op \in {"list", "info", "file", "again"}

\* 429, 5xx and transport errors are tried again after a back-off.
TryAgain ==
  /\ Asking /\ health # "up" /\ call.attempt < Attempts
  /\ call' = [call EXCEPT !.attempt = @ + 1]
  /\ UNCHANGED <<circuit, infoCalls, tables, service, history, bounds>>

\* What the caller of a failed call gets; _download_mb_with_retry starts a call that ended
\* in a 502 once more, any other failure of a download leads to MalShare.
Fails(r) ==
  \/ call.op \in {"list", "info", "again"} /\ Done(r)
  \/ /\ call.op = "file"
     /\ \/ /\ r = "status" /\ call.round < Retries
           /\ call' = [call EXCEPT !.attempt = 1, !.round = @ + 1]
        \/ call' = [call EXCEPT !.op = "malshare"]

LastAttempt == Asking /\ call.attempt = Attempts
CountFailedCall ==
  failedCalls' = IF failedCalls < Threshold THEN failedCalls + 1 ELSE failedCalls

ServerError ==
  /\ LastAttempt /\ health = "down"
  /\ circuit' = StatusFailure(circuit)
  /\ CountFailedCall
  /\ Fails(IF Available(circuit') THEN "status" ELSE "unavailable")
  /\ UNCHANGED <<infoCalls, tables, service, answered, misled, served, spoiled, bounds>>

TransportError ==
  /\ LastAttempt /\ health = "down"
  /\ circuit' = RecordFailure(circuit)
  /\ CountFailedCall
  /\ Fails(IF Available(circuit') THEN "error" ELSE "unavailable")
  /\ UNCHANGED <<infoCalls, tables, service, answered, misled, served, spoiled, bounds>>

RateLimited ==
  /\ LastAttempt /\ health = "throttling"
  /\ circuit' = OpenForRateLimit(circuit)
  /\ failedCalls' = 0
  /\ Fails("unavailable")
  /\ UNCHANGED <<infoCalls, tables, service, answered, misled, served, spoiled, bounds>>

\* A client error, never tried again and not counted.
Refused ==
  /\ Asking /\ health = "down"
  /\ Fails("error")
  /\ UNCHANGED <<circuit, infoCalls, tables, service, history, bounds>>

\* An answer that is no JSON.
Garbled ==
  /\ Asking /\ health = "down"
  /\ circuit' = RecordSuccess(circuit) /\ failedCalls' = 0
  /\ Fails("error")
  /\ UNCHANGED <<infoCalls, tables, service, answered, misled, served, spoiled, bounds>>

\* An error inside an answer of HTTP 200, or an answer without data: get_file_info takes it
\* for a hash the service does not know and remembers "no program", a list is empty, and a
\* download fails.
ErrorInAnswer ==
  /\ Asking /\ health = "down"
  /\ circuit' = RecordSuccess(circuit) /\ failedCalls' = 0
  /\ IF call.op = "info"
     THEN /\ cache' = [cache EXCEPT ![call.sha] = [verdict |-> "no", age |-> 0]]
          /\ misled' = misled \cup {call.sha}
          /\ Done("no")
     ELSE /\ IF call.op = "list" THEN Done("rows") ELSE Fails("error")
          /\ UNCHANGED <<cache, misled>>
  /\ UNCHANGED <<infoCalls, used, service, answered, served, spoiled, bounds>>

Answered(op) ==
  /\ call.op \in op /\ health = "up"
  /\ circuit' = RecordSuccess(circuit) /\ failedCalls' = 0

ListAnswered ==
  /\ Answered({"list"})
  /\ Done("rows")
  /\ UNCHANGED <<infoCalls, tables, service, answered, misled, served, spoiled, bounds>>

\* get_file_info: a hash the service does not know is remembered as no program, like one it
\* knows to be something else.
InfoAnsweredBlindly ==     \* variant: the question itself is taken for a "no"
  /\ call.op = "info" /\ cache' = [cache EXCEPT ![call.sha] = [verdict |-> "no", age |-> 0]]
  /\ Done("no")
  /\ UNCHANGED <<circuit, infoCalls, used, service, history, bounds>>
InfoAnswered ==
  /\ Answered({"info"})
  /\ LET v == IF knows[call.sha] = "pe" THEN "yes" ELSE "no"
     IN /\ cache' = [cache EXCEPT ![call.sha] = [verdict |-> v, age |-> 0]]
        /\ Done(v)
  /\ answered' = [answered EXCEPT ![call.sha] = knows[call.sha]]
  /\ misled' = misled \ {call.sha}
  /\ UNCHANGED <<infoCalls, used, service, served, spoiled, bounds>>

FileUnknown ==
  /\ Answered({"file", "again"}) /\ knows[call.sha] = "unknown"
  /\ Fails("error")
  /\ UNCHANGED <<infoCalls, tables, service, answered, misled, served, spoiled, bounds>>

FileAnswered ==
  /\ Answered({"file", "again"}) /\ knows[call.sha] # "unknown"
  /\ served' = served + 1
  /\ call' = [call EXCEPT !.op = IF @ = "file" THEN "unzip" ELSE "unzipAgain"]
  /\ UNCHANGED <<infoCalls, tables, service, answered, misled, spoiled, bounds>>
-----------------------------------------------------------------------------
\* record_mb_download, on the row of the day it is by then.
Unzip ==
  /\ call.op \in {"unzip", "unzipAgain"}
  /\ used' = IF used < DailyLimit THEN used + 1 ELSE used
  /\ Done("bytes")
  /\ UNCHANGED <<circuit, infoCalls, cache, service, history, bounds>>

UnzipFails ==
  /\ call.op \in {"unzip", "unzipAgain"} /\ spoiled < MaxSpoiled
  /\ spoiled' = spoiled + 1
  /\ call' = IF call.op = "unzip" THEN [call EXCEPT !.op = "malshare"]
             ELSE [call EXCEPT !.op = "done", !.result = "error"]
  /\ UNCHANGED <<circuit, infoCalls, tables, service, answered, misled, failedCalls, served, bounds>>

\* _download_malshare; no candidate of these providers carries a fallback_url, so the
\* provider itself is next.
MalShare ==
  /\ call.op = "malshare"
  /\ Done("bytes") \/ call' = [call EXCEPT !.op = "provider"]
  /\ UNCHANGED <<circuit, infoCalls, tables, service, history, bounds>>

\* The provider's own download(): ThreatFox and Twitter ask MalwareBazaar once more, OTX
\* calls download_pe_candidate again, until the interpreter refuses to nest any deeper.
NestForever ==     \* variant: a nested download starts afresh each time
  IF call.from = "otx_pulse_cti" THEN Download(call.sha, call.from, 1) ELSE Done("error")
ProviderDownload ==
  CASE call.from \in {"threatfox", "twitter"} ->
         IF QuotaLeft /\ Available(circuit)
         THEN call' = [call EXCEPT !.op = "again", !.attempt = 1]
         ELSE Done("error")
    [] call.from = "otx_pulse_cti" /\ call.depth < MaxDepth ->
         Download(call.sha, call.from, call.depth + 1)
    [] OTHER -> Done("error")

AskProvider ==
  /\ call.op = "provider"
  /\ ProviderDownload
  /\ UNCHANGED <<circuit, infoCalls, tables, service, history, bounds>>

ClientStep ==
  \/ TryAgain \/ ServerError \/ TransportError \/ RateLimited \/ Refused \/ Garbled \/ ErrorInAnswer
  \/ ListAnswered \/ InfoAnswered \/ FileUnknown \/ FileAnswered
  \/ Unzip \/ UnzipFails \/ MalShare \/ AskProvider
-----------------------------------------------------------------------------
Elapsed(c) == IF c.openFor > 0 THEN [c EXCEPT !.openFor = @ - 1] ELSE c

\* Nothing is asked for a while.
TimePasses ==
  /\ ~Available(circuit) /\ ~Asking
  /\ circuit' = Elapsed(circuit)
  /\ UNCHANGED <<infoCalls, tables, call, service, history, bounds>>

\* Midnight, UTC: the table has no row for the new day, and verdicts age.
NewDay ==
  /\ days < MaxDays
  /\ days' = days + 1
  /\ used' = 0 /\ served' = 0 /\ spoiled' = 0
  /\ cache' = [s \in Shas |-> IF cache[s].age <= TtlDays THEN [cache[s] EXCEPT !.age = @ + 1]
                              ELSE cache[s]]
  /\ UNCHANGED <<circuit, infoCalls, call, service, answered, misled, failedCalls, restarts>>

Outage ==
  /\ health = "up" /\ outages < MaxOutages
  /\ outages' = outages + 1
  /\ health' \in {"down", "throttling"}
  /\ UNCHANGED <<circuit, infoCalls, tables, call, knows, uploads, history, bounds>>

Recovery ==
  /\ health # "up"
  /\ health' = "up"
  /\ UNCHANGED <<circuit, infoCalls, tables, call, knows, outages, uploads, history, bounds>>

\* Somebody uploads a program the service did not know.
Upload ==
  /\ uploads < MaxUploads
  /\ uploads' = uploads + 1
  /\ \E s \in Shas : knows[s] = "unknown" /\ knows' = [knows EXCEPT ![s] = "pe"]
  /\ UNCHANGED <<circuit, infoCalls, tables, call, health, outages, history, bounds>>

\* A new process has a new client; an archive it had not yet unpacked is lost.
ClientRestart ==
  /\ circuit' = Closed /\ infoCalls' = 0 /\ call' = NoCall
  /\ spoiled' = IF call.op \in {"unzip", "unzipAgain"} THEN spoiled + 1 ELSE spoiled
  /\ failedCalls' = 0
  /\ UNCHANGED <<tables, service, answered, misled, served, days>>

World == TimePasses \/ NewDay \/ Outage \/ Recovery \/ Upload
=============================================================================
