--------------------------- MODULE IngestPipeline ---------------------------
(***************************************************************************)
(* The collecting half of a graph pass: discovery filters what providers   *)
(* offer, binary_fetch downloads it, data_validation stores or quarantines *)
(* it, feature_extraction gives it its features, and the learning nodes    *)
(* may import the files of data/benign.  The sample and sample_sources     *)
(* tables outlive a pass; everything else is lost when a node raises.      *)
(*                                                                         *)
(* A content stands for a file and for its SHA-256.  An offer names either *)
(* the SHA-256 it promises (MalwareBazaar, MalShare, ThreatFox, OTX,       *)
(* Twitter) or a URL or repository path (Sysinternals, GitHub, Benign-NET).*)
(*                                                                         *)
(* A row of the sample table is found by its key.  That is the SHA-256 of  *)
(* what was downloaded, but for a file of data/benign its name, whatever   *)
(* the file holds; a name that is no SHA-256 is a content nobody serves.   *)
(***************************************************************************)
EXTENDS Integers, Sequences

CONSTANTS
  Contents, Urls,
  NoContent, NoUrl,
  Kind,            \* "pe", "mz" (DOS header only) or "odd" (pefile fails on it)
  FirstServed,     \* the content each URL serves at first
  Offers,          \* what providers list: [sha, url, label]
  LocalFiles,      \* files of data/benign: [name, content]
  MaxBatch,        \* PE_FETCH_LIMIT
  MaxPublishes, MaxAborts      \* bounds: URLs overwritten, failed passes

Offer == [sha : Contents \cup {NoContent}, url : Urls \cup {NoUrl}, label : 0..1]

ASSUME IngestAssumption ==
  /\ NoContent \notin Contents /\ NoUrl \notin Urls
  /\ Kind \in [Contents -> {"pe", "mz", "odd"}]
  /\ FirstServed \in [Urls -> Contents]
  /\ Offers \subseteq Offer
  /\ \A o \in Offers : (o.sha = NoContent) # (o.url = NoUrl)
  /\ LocalFiles \subseteq [name : Contents, content : Contents]
  /\ \A f \in LocalFiles : Kind[f.name] = Kind[f.content]
  /\ {MaxBatch, MaxPublishes, MaxAborts} \subseteq Nat

VARIABLES
  rows,          \* samples: status, label, source_url, features_json or not
  sources,       \* sample_sources: the content first recorded for a URL
  serves,        \* what a URL serves now
  pc,            \* node running
  cands,         \* sample_candidates not yet handled
  paths,         \* downloaded_paths not yet validated
  meta,          \* hash_metadata
  valid,         \* validated paths not yet extracted
  fetched,       \* history: downloads of a URL's present content, up to 3
  publishes, aborts

tables == <<rows, sources>>
pass == <<cands, paths, meta, valid>>
world == <<serves, publishes>>
vars == <<tables, world, pc, pass, fetched, aborts>>
-----------------------------------------------------------------------------
NoRow == [status |-> "absent", label |-> 0, url |-> NoUrl, feat |-> FALSE]
NoMeta == [label |-> 0, url |-> NoUrl]

\* is_downloaded (no stored row has an empty file_path), is_corrupted, hash_exists.
Active(c) == rows[c].status = "active"
Corrupted(c) == rows[c].status = "corrupted"
Exists(c) == rows[c].status # "absent"

\* is_source_url_seen: through the row's own source_url, or through sample_sources.
SourceSeen(u) ==
  \/ \E c \in Contents : rows[c].url = u /\ Active(c)
  \/ sources[u] # NoContent /\ Active(sources[u])

\* _known_bad_or_downloaded
Known(o) ==
  \/ o.sha # NoContent /\ Exists(o.sha)
  \/ o.url # NoUrl /\ SourceSeen(o.url)

\* mark_corrupted: a new row, or the old one with its label and features kept.
MarkCorrupted(c, label) ==
  rows' = [rows EXCEPT ![c] =
             IF Exists(c) THEN [@ EXCEPT !.status = "corrupted"]
             ELSE [NoRow EXCEPT !.status = "corrupted", !.label = label]]

\* INSERT OR IGNORE INTO sample_sources: the first content of a URL stays.
RememberNothing(u, c) == UNCHANGED sources     \* variant: the URL is not written
Remember(u, c) ==
  sources' = IF u # NoUrl /\ sources[u] = NoContent
             THEN [sources EXCEPT ![u] = c] ELSE sources

\* record_sample_source
RecordNothing(u, c) == UNCHANGED tables     \* variant: a duplicate is just skipped
RecordSampleSource(u, c) ==
  /\ Remember(u, c)
  /\ rows' = IF u # NoUrl /\ rows[c].url = NoUrl
             THEN [rows EXCEPT ![c].url = u] ELSE rows
-----------------------------------------------------------------------------
Init ==
  /\ rows = [c \in Contents |-> NoRow]
  /\ sources = [u \in Urls |-> NoContent]
  /\ serves = FirstServed
  /\ pc = "discover"
  /\ cands = <<>> /\ paths = <<>> /\ valid = <<>>
  /\ meta = [c \in Contents |-> NoMeta]
  /\ fetched = [u \in Urls |-> 0]
  /\ publishes = 0 /\ aborts = 0

\* _candidate_key: two offers of one batch never share it.
Key(o) == IF o.sha # NoContent THEN <<"sha", o.sha>> ELSE <<"url", o.url>>

Batches ==
  LET fresh == {o \in Offers : ~Known(o)}
  IN {q \in UNION {[1..k -> fresh] : k \in 0..MaxBatch} :
        \A i, j \in DOMAIN q : Key(q[i]) = Key(q[j]) => i = j}

\* source_selector clears the pass fields; discovery keeps some fresh offers, in the
\* order the providers and their slots happen to give.
Discover ==
  /\ pc = "discover"
  /\ cands' \in Batches
  /\ paths' = <<>> /\ valid' = <<>> /\ meta' = [c \in Contents |-> NoMeta]
  /\ pc' = "fetch"
  /\ UNCHANGED <<tables, world, fetched, aborts>>

Content(o) == IF o.sha # NoContent THEN o.sha ELSE serves[o.url]

CountFetch(o) ==
  fetched' = IF o.url # NoUrl /\ fetched[o.url] < 3
             THEN [fetched EXCEPT ![o.url] = @ + 1] ELSE fetched

\* What hash_metadata keeps of the offer a content came from.
ProvenanceByKey(o) == [label |-> o.label, url |-> Key(o)[2]]     \* variant: the key as URL
Provenance(o) == [label |-> o.label, url |-> o.url]

NextCandidate == pc = "fetch" /\ cands # <<>> /\ cands' = Tail(cands)

\* The download raises, or a URL answers with something that is not a program: nothing is
\* remembered of either, and the offer is fresh again in the next pass.
FetchNothing ==
  /\ NextCandidate
  /\ UNCHANGED <<tables, world, pc, paths, meta, valid, fetched, aborts>>

\* The answer for a promised SHA-256 is not a program: that SHA-256 is quarantined.
FetchJunk ==
  /\ NextCandidate
  /\ LET o == Head(cands)
     IN /\ o.sha # NoContent /\ ~Exists(o.sha)
        /\ MarkCorrupted(o.sha, o.label)
  /\ UNCHANGED <<sources, world, pc, paths, meta, valid, fetched, aborts>>

\* The content is one that was quarantined before.
FetchCorrupted ==
  /\ NextCandidate
  /\ Corrupted(Content(Head(cands)))
  /\ CountFetch(Head(cands))
  /\ UNCHANGED <<tables, world, pc, paths, meta, valid, aborts>>

\* The content is already stored: the other URL it came from is remembered.
FetchDuplicate ==
  /\ NextCandidate
  /\ LET o == Head(cands)
     IN /\ Active(Content(o))
        /\ RecordSampleSource(o.url, Content(o))
        /\ CountFetch(o)
  /\ UNCHANGED <<world, pc, paths, meta, valid, aborts>>

\* A new content is saved in the sandbox; a second download in the batch saves it again.
FetchNew ==
  /\ NextCandidate
  /\ LET o == Head(cands)
     IN /\ ~Exists(Content(o))
        /\ paths' = Append(paths, Content(o))
        /\ meta' = [meta EXCEPT ![Content(o)] = Provenance(o)]
        /\ CountFetch(o)
  /\ UNCHANGED <<tables, world, pc, valid, aborts>>

FetchDone ==
  /\ pc = "fetch" /\ cands = <<>>
  /\ pc' = "validate"
  /\ UNCHANGED <<tables, world, pass, fetched, aborts>>
-----------------------------------------------------------------------------
NextPath == pc = "validate" /\ paths # <<>> /\ paths' = Tail(paths)

\* Both tests are made again on the table as it is when the file's turn comes.
InsertableUnlessStored(c) == ~Active(c)     \* variant: the quarantine is not looked up
Insertable(c) == ~Corrupted(c) /\ ~Active(c)

\* Quarantined meanwhile, or a second copy of a file of this batch.
ValidateSkip ==
  /\ NextPath
  /\ Kind[Head(paths)] # "mz" \/ Corrupted(Head(paths))
  /\ ~Insertable(Head(paths))
  /\ UNCHANGED <<tables, world, pc, cands, meta, valid, fetched, aborts>>

\* A DOS header without a PE signature.
ValidateReject ==
  /\ NextPath
  /\ Kind[Head(paths)] = "mz" /\ ~Corrupted(Head(paths))
  /\ MarkCorrupted(Head(paths), meta[Head(paths)].label)
  /\ UNCHANGED <<sources, world, pc, cands, meta, valid, fetched, aborts>>

\* insert_sample (INSERT OR REPLACE), with its row of sample_sources.
ValidateInsert ==
  /\ NextPath
  /\ Kind[Head(paths)] # "mz" /\ Insertable(Head(paths))
  /\ LET c == Head(paths)
     IN /\ rows' = [rows EXCEPT ![c] = [status |-> "active", label |-> meta[c].label,
                                        url |-> meta[c].url, feat |-> FALSE]]
        /\ Remember(meta[c].url, c)
        /\ valid' = Append(valid, c)
  /\ UNCHANGED <<world, pc, cands, meta, fetched, aborts>>

ValidateDone ==
  /\ pc = "validate" /\ paths = <<>>
  /\ pc' = "extract"
  /\ UNCHANGED <<tables, world, pass, fetched, aborts>>
-----------------------------------------------------------------------------
\* feature_extraction goes on to the next file after a parse failure.
StopAtFailure == <<>>     \* variant: the loop ends there
AfterFailure == Tail(valid)

Extract ==
  /\ pc = "extract" /\ valid # <<>>
  /\ Kind[Head(valid)] = "pe"
  /\ rows' = [rows EXCEPT ![Head(valid)].feat = TRUE]
  /\ valid' = Tail(valid)
  /\ UNCHANGED <<sources, world, pc, cands, paths, meta, fetched, aborts>>

\* pefile fails, and triage_pe_error answers "reject", as it does without an LLM.
ExtractReject ==
  /\ pc = "extract" /\ valid # <<>>
  /\ Kind[Head(valid)] # "pe"
  /\ MarkCorrupted(Head(valid), meta[Head(valid)].label)
  /\ valid' = AfterFailure
  /\ UNCHANGED <<sources, world, pc, cands, paths, meta, fetched, aborts>>

\* pefile fails, and the LLM answers "keep": the row stays active, without features.
ExtractKeep ==
  /\ pc = "extract" /\ valid # <<>>
  /\ Kind[Head(valid)] # "pe"
  /\ valid' = AfterFailure
  /\ UNCHANGED <<tables, world, pc, cands, paths, meta, fetched, aborts>>

ExtractDone ==
  /\ pc = "extract" /\ valid = <<>>
  /\ pc' = "learn"
  /\ UNCHANGED <<tables, world, pass, fetched, aborts>>

\* ingest_benign_corpus, when a learning node calls it: what parses and whose name has no row.
Importable == {f.name : f \in {g \in LocalFiles : ~Exists(g.name) /\ Kind[g.content] = "pe"}}
ImportedRow == [status |-> "active", label |-> 0, url |-> NoUrl, feat |-> TRUE]
Import(names) == rows' = [c \in Contents |-> IF c \in names THEN ImportedRow ELSE rows[c]]

Learn ==
  /\ pc = "learn"
  /\ \E names \in {{}, Importable} : Import(names)
  /\ pc' = "discover"
  /\ UNCHANGED <<sources, world, pass, fetched, aborts>>
-----------------------------------------------------------------------------
\* A node raises, or the process restarts: the pass is lost, the tables are not.  The import
\* commits file by file, so that any part of it may be done.
Abort ==
  /\ pc # "discover"
  /\ aborts < MaxAborts
  /\ aborts' = aborts + 1
  /\ pc' = "discover"
  /\ \E names \in SUBSET Importable : (pc # "learn" => names = {}) /\ Import(names)
  /\ cands' = <<>> /\ paths' = <<>> /\ valid' = <<>>
  /\ meta' = [c \in Contents |-> NoMeta]
  /\ UNCHANGED <<sources, world, fetched>>

\* A publisher overwrites the file behind a URL.
Publish ==
  /\ publishes < MaxPublishes
  /\ publishes' = publishes + 1
  /\ \E u \in Urls, c \in Contents :
       /\ c # serves[u]
       /\ serves' = [serves EXCEPT ![u] = c]
       /\ fetched' = [fetched EXCEPT ![u] = 0]
  /\ UNCHANGED <<tables, pc, pass, aborts>>

Next ==
  \/ Discover
  \/ FetchNothing \/ FetchJunk \/ FetchCorrupted \/ FetchDuplicate \/ FetchNew \/ FetchDone
  \/ ValidateSkip \/ ValidateReject \/ ValidateInsert \/ ValidateDone
  \/ Extract \/ ExtractReject \/ ExtractKeep \/ ExtractDone
  \/ Learn \/ Abort \/ Publish

Spec == Init /\ [][Next]_vars
-----------------------------------------------------------------------------
Row == [status : {"absent", "active", "corrupted"}, label : 0..1,
        url : Urls \cup {NoUrl}, feat : BOOLEAN]

\* Every variable has its type.
TypeOK ==
  /\ rows \in [Contents -> Row]
  /\ sources \in [Urls -> Contents \cup {NoContent}]
  /\ serves \in [Urls -> Contents]
  /\ pc \in {"discover", "fetch", "validate", "extract", "learn"}
  /\ cands \in Seq(Offers) /\ paths \in Seq(Contents) /\ valid \in Seq(Contents)
  /\ meta \in [Contents -> [label : 0..1, url : Urls \cup {NoUrl}]]
  /\ fetched \in [Urls -> 0..3]
  /\ publishes \in Nat /\ aborts \in Nat

Life(r) ==
  CASE r.status = "absent"    -> "unknown"
    [] r.status = "corrupted" -> "quarantined"
    [] OTHER                  -> IF r.feat THEN "featured" ELSE "stored"

L == INSTANCE SampleLifecycle WITH
       life  <- [c \in Contents |-> Life(rows[c])],
       label <- [c \in Contents |-> IF Exists(c) THEN rows[c].label ELSE -1]

\* Whatever providers offer, in whatever order and with whatever failures, each row of
\* the sample table lives the life SampleLifecycle promises.
ImplementsLifecycle == L!Spec

\* A pass that was not cut short leaves no row without features but those whose file
\* cannot be parsed: nothing it stored is lost between validation and extraction.
NothingStranded ==
  pc = "discover" /\ aborts = 0
    => \A c \in Contents : Active(c) /\ ~rows[c].feat => Kind[c] # "pe"

PinnedToRejected(u) == sources[u] # NoContent /\ Corrupted(sources[u])

\* A sample found through a URL is found through sample_sources too, unless what that
\* URL served first is in quarantine: is_source_url_seen's two queries agree.
ProvenanceAgrees ==
  \A c \in Contents :
    LET u == rows[c].url
    IN u # NoUrl => sources[u] = c \/ PinnedToRejected(u)

\* The same program is downloaded from a URL at most twice, unless it was rejected or the
\* URL is pinned in sample_sources to a rejected one: deduplication settles.  An answer that
\* is no program is no content here, and is asked for again in every pass.
DownloadsSettle ==
  aborts = 0 =>
    \A u \in Urls : fetched[u] > 2 =>
      Corrupted(serves[u]) \/ PinnedToRejected(u)
=============================================================================
