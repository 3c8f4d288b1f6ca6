------------------------ MODULE IngestPipeline_proofs ------------------------
(***************************************************************************)
(* Proofs about IngestPipeline for every value of its constants.           *)
(***************************************************************************)
EXTENDS IngestPipeline, SequenceFacts

(***************************************************************************)
(* The operators that write the tables keep their types.                   *)
(***************************************************************************)
LEMMA TableTypes ==
  ASSUME TypeOK, NEW c \in Contents, NEW u \in Urls \cup {NoUrl}, NEW l \in 0..1
  PROVE  /\ MarkCorrupted(c, l) => rows' \in [Contents -> Row]
         /\ Remember(u, c) => sources' \in [Urls -> Contents \cup {NoContent}]
         /\ RecordSampleSource(u, c) =>
              rows' \in [Contents -> Row] /\ sources' \in [Urls -> Contents \cup {NoContent}]
  <1>1. rows \in [Contents -> Row] /\ sources \in [Urls -> Contents \cup {NoContent}]
    BY DEF TypeOK
  <1>2. [NoRow EXCEPT !.status = "corrupted", !.label = l] \in Row
    BY DEF NoRow, Row
  <1>3. [rows[c] EXCEPT !.status = "corrupted"] \in Row
    BY <1>1 DEF Row
  <1>4. MarkCorrupted(c, l) => rows' \in [Contents -> Row]
    BY <1>1, <1>2, <1>3 DEF MarkCorrupted
  <1>5. Remember(u, c) => sources' \in [Urls -> Contents \cup {NoContent}]
    BY <1>1 DEF Remember
  <1>6. [rows[c] EXCEPT !.url = u] \in Row
    BY <1>1 DEF Row
  <1>7. RecordSampleSource(u, c) => rows' \in [Contents -> Row]
    BY <1>1, <1>6 DEF RecordSampleSource
  <1> QED
    BY <1>4, <1>5, <1>7 DEF RecordSampleSource

LEMMA OfferTypes ==
  ASSUME TypeOK, NEW o \in Offers
  PROVE  /\ o.url \in Urls \cup {NoUrl} /\ o.label \in 0..1
         /\ o.sha # NoContent => o.sha \in Contents
         /\ Content(o) \in Contents
         /\ CountFetch(o) => fetched' \in [Urls -> 0..3]
         /\ Provenance(o) \in [label : 0..1, url : Urls \cup {NoUrl}]
  <1>1. o \in Offer /\ (o.sha = NoContent) # (o.url = NoUrl)
    BY IngestAssumption
  <1>2. o.sha \in Contents \cup {NoContent} /\ o.url \in Urls \cup {NoUrl} /\ o.label \in 0..1
    BY <1>1 DEF Offer
  <1>3. Content(o) \in Contents
    BY <1>1, <1>2 DEF Content, TypeOK
  <1>4. CountFetch(o) => fetched' \in [Urls -> 0..3]
    <2> SUFFICES ASSUME CountFetch(o), o.url # NoUrl, fetched[o.url] < 3
                 PROVE  [fetched EXCEPT ![o.url] = fetched[o.url] + 1] \in [Urls -> 0..3]
      BY DEF CountFetch, TypeOK
    <2>1. fetched \in [Urls -> 0..3] /\ o.url \in Urls
      BY <1>2 DEF TypeOK
    <2>2. fetched[o.url] \in 0..3
      BY <2>1
    <2>3. fetched[o.url] + 1 \in 0..3
      BY <2>2
    <2> QED
      BY <2>1, <2>3
  <1>5. Provenance(o) \in [label : 0..1, url : Urls \cup {NoUrl}]
    BY <1>2 DEF Provenance
  <1> QED
    BY <1>2, <1>3, <1>4, <1>5

LEMMA BatchTypes ==
  ASSUME NEW q \in Batches
  PROVE  q \in Seq(Offers)
  <1>1. PICK k \in 0..MaxBatch : q \in [1..k -> Offers]
    BY DEF Batches
  <1>2. k \in Nat
    BY <1>1, IngestAssumption
  <1> QED
    BY <1>1, <1>2, SeqDef

LEMMA NextKeepsTypes == TypeOK /\ [Next]_vars => TypeOK'
  <1> SUFFICES ASSUME TypeOK, [Next]_vars PROVE TypeOK'
    OBVIOUS
  <1>0. /\ rows \in [Contents -> Row] /\ sources \in [Urls -> Contents \cup {NoContent}]
        /\ cands \in Seq(Offers) /\ paths \in Seq(Contents) /\ valid \in Seq(Contents)
        /\ meta \in [Contents -> [label : 0..1, url : Urls \cup {NoUrl}]]
        /\ aborts \in Nat /\ publishes \in Nat
        /\ <<>> \in Seq(Contents) /\ <<>> \in Seq(Offers)
    BY EmptySeq DEF TypeOK
  <1>1. [c \in Contents |-> NoMeta] \in [Contents -> [label : 0..1, url : Urls \cup {NoUrl}]]
    BY DEF NoMeta
  <1>2. CASE Discover
    <2>1. cands' \in Seq(Offers)
      BY <1>2, BatchTypes DEF Discover
    <2> QED
      BY <1>0, <1>1, <1>2, <2>1 DEF Discover, TypeOK, tables, world
  <1>3. ASSUME NextCandidate
        PROVE  cands' \in Seq(Offers) /\ Head(cands) \in Offers /\ pc = "fetch"
    BY <1>0, <1>3, HeadAndTail DEF NextCandidate
  <1>4. CASE FetchNothing
    BY <1>3, <1>4 DEF FetchNothing, TypeOK, tables, world
  <1>5. CASE FetchJunk
    <2>1. Head(cands) \in Offers /\ cands' \in Seq(Offers)
      BY <1>3, <1>5 DEF FetchJunk
    <2>2. rows' \in [Contents -> Row]
      BY <1>5, <2>1, OfferTypes, TableTypes DEF FetchJunk
    <2> QED
      BY <1>5, <2>1, <2>2 DEF FetchJunk, TypeOK, world
  <1>6. CASE FetchCorrupted
    <2>1. Head(cands) \in Offers /\ cands' \in Seq(Offers)
      BY <1>3, <1>6 DEF FetchCorrupted
    <2>2. fetched' \in [Urls -> 0..3]
      BY <1>6, <2>1, OfferTypes DEF FetchCorrupted
    <2> QED
      BY <1>6, <2>1, <2>2 DEF FetchCorrupted, TypeOK, tables, world
  <1>7. CASE FetchDuplicate
    <2>1. Head(cands) \in Offers /\ cands' \in Seq(Offers)
      BY <1>3, <1>7 DEF FetchDuplicate
    <2>2. fetched' \in [Urls -> 0..3]
      BY <1>7, <2>1, OfferTypes DEF FetchDuplicate
    <2>3. rows' \in [Contents -> Row] /\ sources' \in [Urls -> Contents \cup {NoContent}]
      BY <1>7, <2>1, OfferTypes, TableTypes DEF FetchDuplicate
    <2> QED
      BY <1>7, <2>1, <2>2, <2>3 DEF FetchDuplicate, TypeOK, world
  <1>8. CASE FetchNew
    <2>1. Head(cands) \in Offers /\ cands' \in Seq(Offers)
      BY <1>3, <1>8 DEF FetchNew
    <2>2. fetched' \in [Urls -> 0..3] /\ Content(Head(cands)) \in Contents
      BY <1>8, <2>1, OfferTypes DEF FetchNew
    <2>3. paths' \in Seq(Contents)
      BY <1>0, <1>8, <2>2, Appended DEF FetchNew
    <2>4. meta' \in [Contents -> [label : 0..1, url : Urls \cup {NoUrl}]]
      BY <1>0, <1>8, <2>1, OfferTypes DEF FetchNew
    <2> QED
      BY <1>8, <2>1, <2>2, <2>3, <2>4 DEF FetchNew, TypeOK, tables, world
  <1>9. ASSUME NextPath
        PROVE  /\ paths' \in Seq(Contents) /\ Head(paths) \in Contents /\ pc = "validate"
               /\ meta[Head(paths)] \in [label : 0..1, url : Urls \cup {NoUrl}]
    BY <1>0, <1>9, HeadAndTail DEF NextPath
  <1>10. CASE ValidateSkip
    BY <1>9, <1>10 DEF ValidateSkip, TypeOK, tables, world
  <1>11. CASE ValidateReject
    <2>1. rows' \in [Contents -> Row] /\ paths' \in Seq(Contents)
      BY <1>9, <1>11, TableTypes DEF ValidateReject
    <2> QED
      BY <1>11, <2>1 DEF ValidateReject, TypeOK, world
  <1>12. CASE ValidateInsert
    <2> DEFINE c == Head(paths)
    <2>1. /\ c \in Contents /\ paths' \in Seq(Contents)
          /\ meta[c].label \in 0..1 /\ meta[c].url \in Urls \cup {NoUrl}
      BY <1>9, <1>12 DEF ValidateInsert
    <2>2. rows' \in [Contents -> Row]
      BY <1>0, <1>12, <2>1 DEF ValidateInsert, Row
    <2>3. sources' \in [Urls -> Contents \cup {NoContent}]
      BY <1>12, <2>1, TableTypes DEF ValidateInsert
    <2>4. valid' \in Seq(Contents)
      BY <1>0, <1>12, <2>1, Appended DEF ValidateInsert
    <2> QED
      BY <1>12, <2>1, <2>2, <2>3, <2>4 DEF ValidateInsert, TypeOK, world
  <1>13. ASSUME valid # <<>>
         PROVE  /\ Head(valid) \in Contents /\ AfterFailure \in Seq(Contents)
                /\ Tail(valid) \in Seq(Contents) /\ meta[Head(valid)].label \in 0..1
    BY <1>0, <1>13, HeadAndTail DEF AfterFailure
  <1>14. CASE Extract
    <2>1. rows' \in [Contents -> Row] /\ valid' \in Seq(Contents)
      BY <1>0, <1>13, <1>14 DEF Extract, Row
    <2> QED
      BY <1>14, <2>1 DEF Extract, TypeOK, world
  <1>15. CASE ExtractReject
    <2>1. rows' \in [Contents -> Row] /\ valid' \in Seq(Contents)
      BY <1>13, <1>15, TableTypes DEF ExtractReject
    <2> QED
      BY <1>15, <2>1 DEF ExtractReject, TypeOK, world
  <1>16. CASE ExtractKeep
    BY <1>13, <1>16 DEF ExtractKeep, TypeOK, tables, world
  <1>17. CASE Learn
    <2>1. ImportedRow \in Row
      BY DEF ImportedRow, Row
    <2>2. rows' \in [Contents -> Row]
      BY <1>0, <1>17, <2>1 DEF Learn, Import
    <2> QED
      BY <1>17, <2>2 DEF Learn, TypeOK, world, pass
  <1>18. CASE Abort
    <2>1. ImportedRow \in Row
      BY DEF ImportedRow, Row
    <2>2. rows' \in [Contents -> Row]
      BY <1>0, <1>18, <2>1 DEF Abort, Import
    <2> QED
      BY <1>0, <1>1, <1>18, <2>2 DEF Abort, TypeOK, world
  <1>19. CASE Publish
    BY <1>0, <1>19 DEF Publish, TypeOK, tables, pass
  <1>20. CASE FetchDone \/ ValidateDone \/ ExtractDone
    BY <1>20 DEF FetchDone, ValidateDone, ExtractDone, TypeOK, tables, world, pass
  <1>21. CASE UNCHANGED vars
    BY <1>21 DEF vars, TypeOK, tables, world, pass
  <1> QED
    BY <1>2, <1>4, <1>5, <1>6, <1>7, <1>8, <1>10, <1>11, <1>12, <1>14, <1>15, <1>16,
       <1>17, <1>18, <1>19, <1>20, <1>21 DEF Next

LEMMA InitTypes == Init => TypeOK
  <1> SUFFICES ASSUME Init PROVE TypeOK
    OBVIOUS
  <1>1. NoRow \in Row /\ NoMeta \in [label : 0..1, url : Urls \cup {NoUrl}]
    BY DEF NoRow, NoMeta, Row
  <1> QED
    BY <1>1, IngestAssumption, EmptySeq DEF Init, TypeOK

(***************************************************************************)
(* Every variable keeps its type.                                          *)
(***************************************************************************)
THEOREM TypeCorrect == Spec => []TypeOK
  BY InitTypes, NextKeepsTypes, PTL DEF Spec
-----------------------------------------------------------------------------
(***************************************************************************)
(* What the lifecycle and the absence of stranded rows rest on: the files  *)
(* waiting for extraction are distinct, stored and without features, they  *)
(* are there only while validation or extraction runs, and, as long as no  *)
(* pass was cut short, every stored row that parses and has no features    *)
(* waits among them.  No active row is a file without a PE signature.       *)
(***************************************************************************)
Waiting(c) == Active(c) /\ ~rows[c].feat
QueueInv ==
  /\ Distinct(valid)
  /\ \A c \in ElementsOf(valid) : Waiting(c)
  /\ pc \in {"discover", "fetch", "learn"} => valid = <<>>
StrandInv ==
  aborts = 0 => \A c \in Contents : Waiting(c) /\ Kind[c] = "pe" => c \in ElementsOf(valid)
GateInv == \A c \in Contents : Active(c) => Kind[c] # "mz"
IngestInv == TypeOK /\ QueueInv /\ StrandInv /\ GateInv

LEMMA InitInv == Init => IngestInv
  <1> SUFFICES ASSUME Init PROVE IngestInv
    OBVIOUS
  <1>1. \A c \in Contents : rows[c].status = "absent"
    BY DEF Init, NoRow
  <1> QED
    BY <1>1, InitTypes, Emptied DEF Init, IngestInv, QueueInv, StrandInv, GateInv, Waiting, Active

\* A step that leaves the queue alone keeps the invariant when waiting rows stay as they are.
LEMMA QueueUntouched ==
  ASSUME IngestInv, valid' = valid, aborts' = aborts,
         pc' = pc \/ pc' \in {"validate", "extract"} \/ valid = <<>>,
         \A c \in Contents : Waiting(c)' <=> Waiting(c)
  PROVE  QueueInv' /\ StrandInv'
  <1>1. ElementsOf(valid) \subseteq Contents
    <2>1. valid \in Seq(Contents)
      BY DEF IngestInv, TypeOK
    <2> QED
      BY <2>1, ElementOfSeq, LenProperties DEF ElementsOf
  <1>2. (ElementsOf(valid))' = ElementsOf(valid) /\ (Distinct(valid))' = Distinct(valid)
    BY DEF ElementsOf, Distinct
  <1> QED
    BY <1>1, <1>2 DEF IngestInv, QueueInv, StrandInv
-----------------------------------------------------------------------------
(***************************************************************************)
(* One changed row is one changed life.                                    *)
(***************************************************************************)
Lives == [c \in Contents |-> Life(rows[c])]
Labels == [c \in Contents |-> IF Exists(c) THEN rows[c].label ELSE -1]
LabelOf(r) == IF r.status # "absent" THEN r.label ELSE -1

LEMMA OneRow ==
  ASSUME TypeOK, NEW c \in Contents, NEW r \in Row, rows' = [rows EXCEPT ![c] = r]
  PROVE  /\ Lives' = [Lives EXCEPT ![c] = Life(r)]
         /\ Labels' = [Labels EXCEPT ![c] = LabelOf(r)]
  <1>1. rows \in [Contents -> Row]
    BY DEF TypeOK
  <1>2. \A d \in Contents : rows'[d] = IF d = c THEN r ELSE rows[d]
    BY <1>1
  <1>3. Lives' = [d \in Contents |-> IF d = c THEN Life(r) ELSE Life(rows[d])]
    BY <1>2 DEF Lives
  <1>4. Labels' = [d \in Contents |-> IF d = c THEN LabelOf(r) ELSE
                                       IF rows[d].status # "absent" THEN rows[d].label ELSE -1]
    BY <1>2 DEF Labels, Exists, LabelOf
  <1>5. Labels' = [Labels EXCEPT ![c] = LabelOf(r)]
    BY <1>4 DEF Labels, Exists
  <1> QED
    BY <1>3, <1>5 DEF Lives

\* Rows that keep status, label and features keep their lives.
LEMMA SameLives ==
  ASSUME \A c \in Contents : /\ rows'[c].status = rows[c].status
                             /\ rows'[c].label = rows[c].label
                             /\ rows'[c].feat = rows[c].feat
  PROVE  Lives' = Lives /\ Labels' = Labels /\ \A c \in Contents : Waiting(c)' <=> Waiting(c)
  BY DEF Lives, Labels, Life, Exists, Waiting, Active

\* The two ways mark_corrupted changes a row that has no features.
LEMMA Marked ==
  ASSUME TypeOK, NEW c \in Contents, NEW l \in 0..1, MarkCorrupted(c, l)
  PROVE  \E r \in Row :
           /\ rows' = [rows EXCEPT ![c] = r] /\ r.status = "corrupted"
           /\ r.label = IF Exists(c) THEN rows[c].label ELSE l
  <1>1. rows \in [Contents -> Row]
    BY DEF TypeOK
  <1>2. CASE Exists(c)
    <2> DEFINE r == [rows[c] EXCEPT !.status = "corrupted"]
    <2>1. r \in Row /\ r.status = "corrupted" /\ r.label = rows[c].label
      BY <1>1 DEF Row
    <2>2. rows' = [rows EXCEPT ![c] = r]
      BY <1>2 DEF MarkCorrupted
    <2> QED
      BY <1>2, <2>1, <2>2
  <1>3. CASE ~Exists(c)
    <2> DEFINE r == [NoRow EXCEPT !.status = "corrupted", !.label = l]
    <2>1. r \in Row /\ r.status = "corrupted" /\ r.label = l
      BY DEF NoRow, Row
    <2>2. rows' = [rows EXCEPT ![c] = r]
      BY <1>3 DEF MarkCorrupted
    <2> QED
      BY <1>3, <2>1, <2>2
  <1> QED
    BY <1>2, <1>3
-----------------------------------------------------------------------------
(***************************************************************************)
(* The abstract step each kind of write maps to.                           *)
(***************************************************************************)
LStep == L!Next \/ UNCHANGED <<Lives, Labels>>

LEMMA RefuseStep ==
  ASSUME TypeOK, NEW c \in Contents, NEW l \in 0..1, ~Exists(c), MarkCorrupted(c, l)
  PROVE  LStep
  <1>1. PICK r \in Row : /\ rows' = [rows EXCEPT ![c] = r] /\ r.status = "corrupted"
                         /\ r.label = l
    BY Marked
  <1>2. Life(r) = "quarantined" /\ LabelOf(r) = l
    BY <1>1 DEF Life, LabelOf
  <1>3. Lives[c] = "unknown"
    BY DEF Lives, Life, Exists
  <1>4. Lives' = [Lives EXCEPT ![c] = "quarantined"] /\ Labels' = [Labels EXCEPT ![c] = l]
    BY <1>1, <1>2, OneRow
  <1>5. L!Refuse(c, l)
    BY <1>3, <1>4 DEF L!Refuse, Lives, Labels
  <1> QED
    BY <1>5 DEF LStep, L!Next

LEMMA QuarantineStep ==
  ASSUME TypeOK, NEW c \in Contents, NEW l \in 0..1, Waiting(c), MarkCorrupted(c, l)
  PROVE  LStep
  <1>0. rows[c] \in Row /\ Exists(c)
    BY DEF TypeOK, Waiting, Active, Exists
  <1>1. PICK r \in Row : /\ rows' = [rows EXCEPT ![c] = r] /\ r.status = "corrupted"
                         /\ r.label = rows[c].label
    BY <1>0, Marked
  <1>2. Life(r) = "quarantined" /\ LabelOf(r) = rows[c].label
    BY <1>1 DEF Life, LabelOf
  <1>3. Lives[c] = "stored" /\ Labels[c] = rows[c].label
    BY <1>0 DEF Lives, Labels, Life, Waiting, Active
  <1>4. Lives' = [Lives EXCEPT ![c] = "quarantined"] /\ Labels' = Labels
    <2>1. Labels' = [Labels EXCEPT ![c] = Labels[c]]
      BY <1>1, <1>2, <1>3, OneRow
    <2>2. [Labels EXCEPT ![c] = Labels[c]] = Labels
      BY DEF Labels
    <2>3. Lives' = [Lives EXCEPT ![c] = Life(r)]
      BY <1>1, OneRow
    <2> QED
      BY <1>2, <2>1, <2>2, <2>3
  <1>5. L!Quarantine(c)
    BY <1>3, <1>4 DEF L!Quarantine, Lives, Labels
  <1> QED
    BY <1>5 DEF LStep, L!Next

\* Steps that change neither a life nor the queue.
LEMMA QuietStep ==
  ASSUME IngestInv, valid' = valid, aborts' = aborts,
         pc' = pc \/ pc' \in {"validate", "extract"} \/ valid = <<>>,
         \A c \in Contents : /\ rows'[c].status = rows[c].status
                             /\ rows'[c].label = rows[c].label
                             /\ rows'[c].feat = rows[c].feat
  PROVE  QueueInv' /\ StrandInv' /\ LStep
  <1>1. Lives' = Lives /\ Labels' = Labels /\ \A c \in Contents : Waiting(c)' <=> Waiting(c)
    BY SameLives
  <1> QED
    BY <1>1, QueueUntouched DEF LStep

LEMMA FetchSteps ==
  ASSUME IngestInv,
         FetchNothing \/ FetchJunk \/ FetchCorrupted \/ FetchDuplicate \/ FetchNew
  PROVE  QueueInv' /\ StrandInv' /\ LStep
  <1>0. TypeOK /\ rows \in [Contents -> Row]
    BY DEF IngestInv, TypeOK
  <1>1. CASE FetchNothing \/ FetchCorrupted \/ FetchNew
    BY <1>1, QuietStep DEF FetchNothing, FetchCorrupted, FetchNew, tables
  <1>2. ASSUME NextCandidate
        PROVE  Head(cands) \in Offers
    BY <1>2, HeadAndTail DEF NextCandidate, IngestInv, TypeOK
  <1>3. CASE FetchDuplicate
    <2> DEFINE o == Head(cands)
    <2>1. o \in Offers /\ o.url \in Urls \cup {NoUrl} /\ Content(o) \in Contents
      BY <1>0, <1>2, <1>3, OfferTypes DEF FetchDuplicate
    <2>2. \A c \in Contents : /\ rows'[c].status = rows[c].status
                              /\ rows'[c].label = rows[c].label
                              /\ rows'[c].feat = rows[c].feat
      BY <1>0, <1>3, <2>1 DEF FetchDuplicate, RecordSampleSource, Row
    <2> QED
      BY <1>3, <2>2, QuietStep DEF FetchDuplicate
  <1>4. CASE FetchJunk
    <2> DEFINE o == Head(cands)
    <2>1. /\ o.sha \in Contents /\ o.label \in 0..1
          /\ ~Exists(o.sha) /\ MarkCorrupted(o.sha, o.label)
      BY <1>0, <1>2, <1>4, OfferTypes DEF FetchJunk
    <2>2. LStep
      BY <1>0, <2>1, RefuseStep
    <2>3. PICK r \in Row : rows' = [rows EXCEPT ![o.sha] = r] /\ r.status = "corrupted"
      BY <1>0, <2>1, Marked
    <2>4. \A c \in Contents : Waiting(c)' <=> Waiting(c)
      BY <1>0, <2>1, <2>3 DEF Waiting, Active, Exists
    <2> QED
      BY <1>4, <2>2, <2>4, QueueUntouched DEF FetchJunk
  <1> QED
    BY <1>1, <1>3, <1>4
-----------------------------------------------------------------------------
LEMMA InsertStep ==
  ASSUME IngestInv, ValidateInsert
  PROVE  QueueInv' /\ StrandInv' /\ LStep
  <1>0. /\ TypeOK /\ rows \in [Contents -> Row] /\ Head(paths) \in Contents
        /\ meta \in [Contents -> [label : 0..1, url : Urls \cup {NoUrl}]]
        /\ valid \in Seq(Contents)
    BY HeadAndTail DEF IngestInv, TypeOK, ValidateInsert, NextPath
  <1>a. PICK c \in Contents, l \in 0..1, u \in Urls \cup {NoUrl} :
          c = Head(paths) /\ l = meta[c].label /\ u = meta[c].url
    BY <1>0
  <1> DEFINE r == [status |-> "active", label |-> l, url |-> u, feat |-> FALSE]
  <1>1. TypeOK /\ rows \in [Contents -> Row] /\ valid \in Seq(Contents)
    BY <1>0
  <1>2. rows' = [rows EXCEPT ![c] = r] /\ ~Exists(c) /\ r \in Row /\ pc' = "validate"
    BY <1>0, <1>a DEF ValidateInsert, NextPath, Insertable, Exists, Active, Corrupted, Row
  <1>3. c \notin ElementsOf(valid)
    BY <1>2 DEF IngestInv, QueueInv, Waiting, Active, Exists
  <1>4. ElementsOf(valid') = ElementsOf(valid) \cup {c} /\ Distinct(valid')
    BY <1>1, <1>3, <1>a, Appended DEF ValidateInsert, IngestInv, QueueInv
  <1>5. \A d \in Contents : Waiting(d)' <=> d = c \/ Waiting(d)
    BY <1>1, <1>2 DEF Waiting, Active
  <1>6. ElementsOf(valid) \subseteq Contents
    BY <1>1, ElementOfSeq, LenProperties DEF ElementsOf
  <1>7. QueueInv'
    <2>1. \A d \in ElementsOf(valid') : Waiting(d)'
      BY <1>1, <1>4, <1>5, <1>6 DEF IngestInv, QueueInv
    <2> QED
      BY <1>2, <1>4, <2>1 DEF QueueInv, ElementsOf, Distinct
  <1>8. StrandInv'
    <2>1. ASSUME aborts' = 0, NEW d \in Contents, Waiting(d)', Kind[d] = "pe"
          PROVE  d \in ElementsOf(valid')
      BY <1>4, <1>5, <2>1 DEF IngestInv, StrandInv, ValidateInsert
    <2> QED
      BY <2>1 DEF StrandInv, ElementsOf
  <1>9. LStep
    <2>1. Life(r) = "stored" /\ LabelOf(r) = l
      BY DEF Life, LabelOf
    <2>2. Lives[c] = "unknown"
      BY <1>1, <1>2 DEF Lives, Life, Exists
    <2>3. /\ Lives' = [Lives EXCEPT ![c] = Life(r)]
          /\ Labels' = [Labels EXCEPT ![c] = LabelOf(r)]
      BY <1>1, <1>2, OneRow
    <2>4. L!Store(c, l)
      BY <2>1, <2>2, <2>3 DEF L!Store, Lives, Labels
    <2> QED
      BY <2>4 DEF LStep, L!Next
  <1> QED
    BY <1>7, <1>8, <1>9

LEMMA RejectStep ==
  ASSUME IngestInv, ValidateReject
  PROVE  QueueInv' /\ StrandInv' /\ LStep
  <1> DEFINE c == Head(paths)
  <1>1. /\ TypeOK /\ rows \in [Contents -> Row] /\ c \in Contents /\ meta[c].label \in 0..1
    BY HeadAndTail DEF IngestInv, TypeOK, ValidateReject, NextPath
  <1>2. MarkCorrupted(c, meta[c].label) /\ ~Exists(c)
    BY <1>1 DEF ValidateReject, Exists, Active, Corrupted, Row, IngestInv, GateInv
  <1>3. LStep
    BY <1>1, <1>2, RefuseStep
  <1>4. PICK r \in Row : rows' = [rows EXCEPT ![c] = r] /\ r.status = "corrupted"
    BY <1>1, <1>2, Marked
  <1>5. \A d \in Contents : Waiting(d)' <=> Waiting(d)
    BY <1>1, <1>2, <1>4 DEF Waiting, Active, Exists
  <1> QED
    BY <1>3, <1>5, QueueUntouched DEF ValidateReject, NextPath

\* Taking the head off the queue when only that row changes, and stops waiting or is
\* a file that does not parse.
LEMMA QueueAdvances ==
  ASSUME IngestInv, pc = "extract", pc' = pc, valid # <<>>, valid' = Tail(valid),
         aborts' = aborts,
         \A c \in Contents : c # Head(valid) => (Waiting(c)' <=> Waiting(c)),
         \A c \in Contents : c = Head(valid) /\ Waiting(c)' => Kind[c] # "pe"
  PROVE  QueueInv' /\ StrandInv'
  <1>1. valid \in Seq(Contents) /\ Distinct(valid)
    BY DEF IngestInv, QueueInv, TypeOK
  <1>2. /\ ElementsOf(valid') \subseteq ElementsOf(valid)
        /\ ElementsOf(valid) \subseteq ElementsOf(valid') \cup {Head(valid)}
        /\ Distinct(valid') /\ Head(valid) \notin ElementsOf(valid')
    BY <1>1, HeadAndTail
  <1>3. ElementsOf(valid) \subseteq Contents
    BY <1>1, ElementOfSeq, LenProperties DEF ElementsOf
  <1>4. (ElementsOf(valid))' = ElementsOf(valid') /\ (Distinct(valid))' = Distinct(valid')
    BY DEF ElementsOf, Distinct
  <1>5. QueueInv'
    BY <1>2, <1>3, <1>4 DEF IngestInv, QueueInv
  <1>6. StrandInv'
    <2>1. ASSUME aborts' = 0, NEW d \in Contents, Waiting(d)', Kind[d] = "pe"
          PROVE  d \in ElementsOf(valid')
      BY <1>2, <2>1 DEF IngestInv, StrandInv
    <2> QED
      BY <1>4, <2>1 DEF StrandInv
  <1> QED
    BY <1>5, <1>6

LEMMA ExtractSteps ==
  ASSUME IngestInv, Extract \/ ExtractReject \/ ExtractKeep
  PROVE  QueueInv' /\ StrandInv' /\ LStep
  <1>1. /\ TypeOK /\ rows \in [Contents -> Row] /\ valid \in Seq(Contents)
        /\ valid # <<>> /\ pc = "extract" /\ pc' = pc /\ aborts' = aborts
        /\ meta \in [Contents -> [label : 0..1, url : Urls \cup {NoUrl}]]
    BY DEF IngestInv, TypeOK, Extract, ExtractReject, ExtractKeep
  <1>2. PICK c \in Contents : c = Head(valid) /\ Waiting(c) /\ meta[c].label \in 0..1
    BY <1>1, HeadAndTail DEF IngestInv, QueueInv
  <1>3. valid' = Tail(valid)
    BY DEF Extract, ExtractReject, ExtractKeep, AfterFailure
  <1>4. CASE Extract
    <2> DEFINE r == [rows[c] EXCEPT !.feat = TRUE]
    <2>1. /\ r \in Row /\ r.status = rows[c].status /\ r.label = rows[c].label
          /\ r.feat = TRUE /\ rows' = [rows EXCEPT ![c] = r]
      BY <1>1, <1>2, <1>4 DEF Extract, Row
    <2> HIDE DEF r
    <2>2. \A d \in Contents : d # c => (Waiting(d)' <=> Waiting(d))
      BY <1>1, <1>2, <2>1 DEF Waiting, Active
    <2>3. ~Waiting(c)'
      BY <1>1, <1>2, <2>1 DEF Waiting, Active
    <2>4. QueueInv' /\ StrandInv'
      BY <1>1, <1>2, <1>3, <2>2, <2>3, QueueAdvances
    <2>5. Life(r) = "featured" /\ LabelOf(r) = rows[c].label
      BY <1>2, <2>1 DEF Life, LabelOf, Waiting, Active
    <2>6. Lives[c] = "stored" /\ Labels[c] = rows[c].label
      BY <1>2 DEF Lives, Labels, Life, Waiting, Active, Exists
    <2>7. Lives' = [Lives EXCEPT ![c] = "featured"] /\ Labels' = Labels
      <3>1. /\ Lives' = [Lives EXCEPT ![c] = Life(r)]
            /\ Labels' = [Labels EXCEPT ![c] = LabelOf(r)]
        BY <1>1, <1>2, <2>1, OneRow
      <3>2. [Labels EXCEPT ![c] = Labels[c]] = Labels
        BY DEF Labels
      <3> QED
        BY <2>5, <2>6, <3>1, <3>2
    <2>8. L!Feature(c)
      BY <2>6, <2>7 DEF L!Feature, Lives, Labels
    <2>9. \E d \in Contents : L!Feature(d)
      BY <1>2, <2>8
    <2> QED
      BY <2>4, <2>9 DEF LStep, L!Next
  <1>5. CASE ExtractReject
    <2>1. MarkCorrupted(c, meta[c].label)
      BY <1>2, <1>5 DEF ExtractReject
    <2>2. LStep
      BY <1>1, <1>2, <2>1, QuarantineStep
    <2>3. PICK r \in Row : rows' = [rows EXCEPT ![c] = r] /\ r.status = "corrupted"
      BY <1>1, <1>2, <2>1, Marked
    <2>4. \A d \in Contents : d # c => (Waiting(d)' <=> Waiting(d))
      BY <1>1, <1>2, <2>3 DEF Waiting, Active
    <2>5. ~Waiting(c)'
      BY <1>1, <1>2, <2>3 DEF Waiting, Active
    <2> QED
      BY <1>1, <1>2, <1>3, <2>2, <2>4, <2>5, QueueAdvances
  <1>6. CASE ExtractKeep
    <2>1. rows' = rows /\ Kind[c] # "pe"
      BY <1>2, <1>6 DEF ExtractKeep, tables
    <2>2. Lives' = Lives /\ Labels' = Labels /\ \A d \in Contents : Waiting(d)' <=> Waiting(d)
      BY <2>1, SameLives
    <2> QED
      BY <1>1, <1>2, <1>3, <2>1, <2>2, QueueAdvances DEF LStep
  <1> QED
    BY <1>4, <1>5, <1>6
-----------------------------------------------------------------------------
\* What the import of local files may be called with.
LEMMA ImportableRows == \A c \in Importable : c \in Contents /\ ~Exists(c) /\ Kind[c] = "pe"
  BY IngestAssumption DEF Importable

LEMMA ImportSteps ==
  ASSUME IngestInv, NEW S \in SUBSET Importable, Import(S)
  PROVE  /\ \A c \in Contents : Waiting(c)' <=> Waiting(c)
         /\ L!Next
  <1>1. rows \in [Contents -> Row]
    BY DEF IngestInv, TypeOK
  <1>2. rows' = [c \in Contents |-> IF c \in S THEN ImportedRow ELSE rows[c]]
    BY DEF Import
  <1>3. \A c \in S : c \in Contents /\ ~Exists(c)
    BY ImportableRows
  <1>4. \A c \in Contents : Waiting(c)' <=> Waiting(c)
    BY <1>1, <1>2, <1>3 DEF Waiting, Active, Exists, ImportedRow
  <1>6. Life(ImportedRow) = "featured" /\ LabelOf(ImportedRow) = 0
    BY DEF Life, LabelOf, ImportedRow
  <1>7. Lives' = [c \in Contents |-> IF c \in S THEN "featured" ELSE Lives[c]]
    BY <1>2, <1>6 DEF Lives
  <1>8. Labels' = [c \in Contents |-> IF c \in S THEN 0 ELSE Labels[c]]
    BY <1>2, <1>6 DEF Labels, LabelOf, Exists
  <1>9. \A c \in S : Lives[c] = "unknown"
    BY <1>3 DEF Lives, Life, Exists
  <1>10. L!Import(S)
    BY <1>7, <1>8, <1>9 DEF L!Import, Lives, Labels
  <1>11. \E T \in SUBSET Contents : L!Import(T)
    BY <1>3, <1>10
  <1> QED
    BY <1>4, <1>11 DEF L!Next

LEMMA LearnStep ==
  ASSUME IngestInv, Learn
  PROVE  QueueInv' /\ StrandInv' /\ LStep
  <1>1. /\ pc = "learn" /\ valid = <<>> /\ valid' = valid /\ aborts' = aborts
    BY DEF IngestInv, QueueInv, Learn, pass
  <1>2. PICK S \in SUBSET Importable : Import(S)
    BY DEF Learn
  <1>3. (\A c \in Contents : Waiting(c)' <=> Waiting(c)) /\ L!Next
    BY <1>2, ImportSteps
  <1> QED
    BY <1>1, <1>3, QueueUntouched DEF LStep

LEMMA PassSteps ==
  ASSUME IngestInv,
         Discover \/ FetchDone \/ ValidateSkip \/ ValidateDone \/ ExtractDone
           \/ Publish \/ UNCHANGED vars
  PROVE  QueueInv' /\ StrandInv' /\ LStep
  <1>1. CASE Discover
    <2>1. valid' = valid
      BY <1>1 DEF Discover, IngestInv, QueueInv
    <2> QED
      BY <1>1, <2>1, QuietStep DEF Discover, tables, IngestInv, QueueInv
  <1>2. CASE FetchDone \/ ValidateDone \/ ExtractDone
    BY <1>2, QuietStep DEF FetchDone, ValidateDone, ExtractDone, tables, pass
  <1>3. CASE ValidateSkip \/ Publish \/ UNCHANGED vars
    BY <1>3, QuietStep DEF ValidateSkip, Publish, vars, tables, pass
  <1> QED
    BY <1>1, <1>2, <1>3

\* An aborted pass empties the queue; what waited in it stays, as aborts records.
LEMMA AbortStep ==
  ASSUME IngestInv, Abort
  PROVE  QueueInv' /\ StrandInv' /\ LStep
  <1>1. valid' = <<>> /\ aborts' # 0
    BY DEF Abort, IngestInv, TypeOK
  <1>2. L!Next
    <2>1. PICK S \in SUBSET Importable : Import(S)
      BY DEF Abort
    <2> QED
      BY <2>1, ImportSteps
  <1>3. QueueInv'
    BY <1>1 DEF QueueInv, ElementsOf, Distinct
  <1> QED
    BY <1>1, <1>2, <1>3 DEF StrandInv, LStep

\* A row becomes active only when its file has passed the gates.
LEMMA GateStep ==
  ASSUME IngestInv, [Next]_vars
  PROVE  GateInv'
  <1>0. TypeOK /\ rows \in [Contents -> Row]
    BY DEF IngestInv, TypeOK
  <1>1. CASE rows' = rows
    BY <1>1 DEF IngestInv, GateInv, Active
  <1>2. ASSUME NEW c \in Contents, NEW l \in 0..1, MarkCorrupted(c, l)
        PROVE  GateInv'
    <2>1. PICK r \in Row : rows' = [rows EXCEPT ![c] = r] /\ r.status = "corrupted"
      BY <1>0, <1>2, Marked
    <2> QED
      BY <1>0, <2>1 DEF IngestInv, GateInv, Active
  <1>3. CASE FetchJunk
    <2>1. Head(cands) \in Offers
      BY <1>0, <1>3, HeadAndTail DEF FetchJunk, NextCandidate, TypeOK
    <2> QED
      BY <1>0, <1>2, <1>3, <2>1, OfferTypes DEF FetchJunk
  <1>4. CASE FetchDuplicate
    <2>1. Head(cands) \in Offers
      BY <1>0, <1>4, HeadAndTail DEF FetchDuplicate, NextCandidate, TypeOK
    <2>2. Content(Head(cands)) \in Contents
      BY <1>0, <2>1, OfferTypes
    <2>3. \A c \in Contents : rows'[c].status = rows[c].status
      BY <1>0, <1>4, <2>2 DEF FetchDuplicate, RecordSampleSource, Row
    <2> QED
      BY <2>3 DEF IngestInv, GateInv, Active
  <1>5. CASE ValidateReject
    <2>1. Head(paths) \in Contents /\ meta[Head(paths)].label \in 0..1
      BY <1>0, <1>5, HeadAndTail DEF ValidateReject, NextPath, TypeOK
    <2> QED
      BY <1>2, <1>5, <2>1 DEF ValidateReject
  <1>6. CASE ValidateInsert
    BY <1>0, <1>6 DEF ValidateInsert, IngestInv, GateInv, Active
  <1>7. CASE Extract
    <2>1. \A c \in Contents : rows'[c].status = rows[c].status
      BY <1>0, <1>7 DEF Extract, Row
    <2> QED
      BY <2>1 DEF IngestInv, GateInv, Active
  <1>8. CASE ExtractReject
    <2>1. Head(valid) \in Contents /\ meta[Head(valid)].label \in 0..1
      BY <1>0, <1>8, HeadAndTail DEF ExtractReject, TypeOK
    <2> QED
      BY <1>2, <1>8, <2>1 DEF ExtractReject
  <1>9. CASE Learn \/ Abort
    <2>1. PICK S \in SUBSET Importable : Import(S)
      BY <1>9 DEF Learn, Abort
    <2>2. \A c \in Contents : rows'[c] = rows[c] \/ Kind[c] = "pe"
      BY <1>0, <2>1, ImportableRows DEF Import
    <2> QED
      BY <1>0, <2>2 DEF IngestInv, GateInv, Active
  <1> QED
    BY <1>1, <1>3, <1>4, <1>5, <1>6, <1>7, <1>8, <1>9
    DEF Next, vars, tables, Discover, FetchNothing, FetchCorrupted, FetchNew, FetchDone,
        ValidateSkip, ValidateDone, ExtractKeep, ExtractDone, Publish
-----------------------------------------------------------------------------
LEMMA NextInv == IngestInv /\ [Next]_vars => IngestInv' /\ LStep
  <1> SUFFICES ASSUME IngestInv, [Next]_vars PROVE IngestInv' /\ LStep
    OBVIOUS
  <1>1. TypeOK' /\ GateInv'
    BY NextKeepsTypes, GateStep DEF IngestInv
  <1>2. QueueInv' /\ StrandInv' /\ LStep
    BY FetchSteps, InsertStep, RejectStep, ExtractSteps, LearnStep, PassSteps, AbortStep DEF Next
  <1> QED
    BY <1>1, <1>2 DEF IngestInv

\* No row of the sample table is active unless its file has a PE signature, and none that
\* parses is left without features by a pass that ran to its end.
THEOREM NothingIsStranded == Spec => []NothingStranded
  <1>1. IngestInv => NothingStranded
    BY Emptied DEF IngestInv, QueueInv, StrandInv, NothingStranded, Waiting
  <1> QED
    BY <1>1, InitInv, NextInv, PTL DEF Spec

(***************************************************************************)
(* Collection implements the lifecycle: in every execution, whatever the   *)
(* contents, the offers, the batch size and the failures, each row is      *)
(* stored once, keeps its label, gains its features once, and never leaves *)
(* quarantine.                                                             *)
(***************************************************************************)
THEOREM LifecycleIsImplemented == Spec => ImplementsLifecycle
  <1>1. Init => L!Init
    BY DEF Init, L!Init, L!NoLabel, NoRow, Life, Exists
  <1>2. LStep => [L!Next]_<<Lives, Labels>>
    BY DEF LStep
  <1>3. IngestInv /\ [Next]_vars => [L!Next]_<<Lives, Labels>>
    BY <1>2, NextInv
  <1> QED
    BY <1>1, <1>3, InitInv, NextInv, PTL DEF Spec, L!Spec, ImplementsLifecycle, Lives, Labels
-----------------------------------------------------------------------------
(***************************************************************************)
(* Provenance and downloads.  The two queries of is_source_url_seen agree  *)
(* because what discovery found out about a URL stays so until the URL's   *)
(* one candidate is handled: it has no row in sample_sources, or is pinned *)
(* to a rejected content, which stays rejected.  A content whose download  *)
(* did not settle the URL is stored by then, so the second download does.  *)
(***************************************************************************)
Left(u) == \E o \in ElementsOf(cands) : o.url = u
Held(u) == \E c \in Contents : meta[c].url = u /\ ~Exists(c)
Free(u) == sources[u] = NoContent \/ PinnedToRejected(u)

BatchInv ==
  /\ Distinct(cands)
  /\ \A o, p \in ElementsOf(cands) : o.url = p.url /\ o.url # NoUrl => o = p
  /\ \A c \in Contents : meta[c].url # NoUrl => ~Left(meta[c].url)
  /\ \A c, d \in Contents : meta[c].url = meta[d].url /\ meta[c].url # NoUrl => c = d
SourceInv ==
  /\ \A u \in Urls : sources[u] # NoContent => Exists(sources[u])
  /\ \A u \in Urls : Left(u) \/ Held(u) => Free(u)
  /\ ProvenanceAgrees
PathsInv == pc \in {"extract", "learn", "discover"} => paths = <<>>
CountInv ==
  aborts = 0 =>
    \A u \in Urls :
      /\ fetched[u] > 0 => Exists(serves[u]) \/ (serves[u] \in ElementsOf(paths) /\ ~Left(u))
      /\ fetched[u] > 1 => sources[u] # NoContent \/ Corrupted(serves[u])
      /\ fetched[u] > 2 => Corrupted(serves[u]) \/ PinnedToRejected(u)
SettleInv == TypeOK /\ BatchInv /\ SourceInv /\ PathsInv /\ CountInv

\* What a step may do to the tables: a row never leaves the table or quarantine, ...
Grown == \A c \in Contents : (Exists(c) => Exists(c)') /\ (Corrupted(c) => Corrupted(c)')
\* ... names no URL it did not name, ...
NoNewUrl == \A c \in Contents : rows'[c].url = rows[c].url \/ rows'[c].url = NoUrl
\* ... or names the URL it was downloaded from.
OneNewUrl(u, c) ==
  \A d \in Contents : \/ rows'[d].url = rows[d].url \/ rows'[d].url = NoUrl
                      \/ d = c /\ rows'[d].url = u

LEMMA MarkGrows ==
  ASSUME TypeOK, NEW c \in Contents, NEW l \in 0..1, MarkCorrupted(c, l)
  PROVE  Grown /\ NoNewUrl /\ Corrupted(c)'
  <1>1. rows \in [Contents -> Row]
    BY DEF TypeOK
  <1>2. \A d \in Contents : d # c => rows'[d] = rows[d]
    BY <1>1 DEF MarkCorrupted
  <1>3. rows'[c].status = "corrupted" /\ (rows'[c].url = rows[c].url \/ rows'[c].url = NoUrl)
    <2>1. CASE Exists(c)
      BY <1>1, <2>1 DEF MarkCorrupted, Row
    <2>2. CASE ~Exists(c)
      BY <1>1, <2>2 DEF MarkCorrupted, NoRow
    <2> QED
      BY <2>1, <2>2
  <1> QED
    BY <1>2, <1>3 DEF Grown, NoNewUrl, Exists, Corrupted

LEMMA RecordGrows ==
  ASSUME TypeOK, NEW c \in Contents, NEW u, RecordSampleSource(u, c)
  PROVE  Grown /\ OneNewUrl(u, c) /\ \A d \in Contents : rows'[d].status = rows[d].status
  <1>1. rows \in [Contents -> Row]
    BY DEF TypeOK
  <1>2. \A d \in Contents : d # c => rows'[d] = rows[d]
    BY <1>1 DEF RecordSampleSource
  <1>3. rows'[c].status = rows[c].status /\ (rows'[c].url = rows[c].url \/ rows'[c].url = u)
    BY <1>1 DEF RecordSampleSource, Row
  <1> QED
    BY <1>2, <1>3 DEF Grown, OneNewUrl, Exists, Corrupted

LEMMA InsertGrows ==
  ASSUME TypeOK, ValidateInsert, NEW c, c = Head(paths)
  PROVE  /\ Grown /\ OneNewUrl(meta[c].url, c)
         /\ c \in Contents /\ ~Exists(c) /\ Exists(c)'
  <1>1. rows \in [Contents -> Row] /\ c \in Contents
    BY HeadAndTail DEF TypeOK, ValidateInsert, NextPath
  <1>2. ~Exists(c)
    BY <1>1 DEF ValidateInsert, Insertable, Exists, Active, Corrupted, Row
  <1>3. /\ \A d \in Contents : d # c => rows'[d] = rows[d]
        /\ rows'[c].status = "active" /\ rows'[c].url = meta[c].url
    BY <1>1 DEF ValidateInsert
  <1> QED
    BY <1>1, <1>2, <1>3 DEF Grown, OneNewUrl, Exists, Corrupted

LEMMA OthersGrow ==
  ASSUME TypeOK, [Next]_vars, ~FetchDuplicate, ~ValidateInsert
  PROVE  Grown /\ NoNewUrl /\ sources' = sources
  <1>0. rows \in [Contents -> Row]
    BY DEF TypeOK
  <1>1. CASE UNCHANGED tables
    BY <1>1 DEF tables, Grown, NoNewUrl, Exists, Corrupted
  <1>2. CASE FetchJunk
    <2>1. Head(cands) \in Offers
      BY <1>2, HeadAndTail DEF FetchJunk, NextCandidate, TypeOK
    <2> QED
      BY <1>2, <2>1, MarkGrows, OfferTypes DEF FetchJunk
  <1>3. CASE ValidateReject
    <2>1. Head(paths) \in Contents /\ meta[Head(paths)].label \in 0..1
      BY <1>3, HeadAndTail DEF ValidateReject, NextPath, TypeOK
    <2> QED
      BY <1>3, <2>1, MarkGrows DEF ValidateReject
  <1>4. CASE ExtractReject
    <2>1. Head(valid) \in Contents /\ meta[Head(valid)].label \in 0..1
      BY <1>4, HeadAndTail DEF ExtractReject, TypeOK
    <2> QED
      BY <1>4, <2>1, MarkGrows DEF ExtractReject
  <1>5. CASE Extract
    <2>1. \A c \in Contents : rows'[c].status = rows[c].status /\ rows'[c].url = rows[c].url
      BY <1>0, <1>5 DEF Extract, Row
    <2> QED
      BY <1>5, <2>1 DEF Extract, Grown, NoNewUrl, Exists, Corrupted
  <1>6. CASE Learn \/ Abort
    <2>1. PICK S \in SUBSET Importable : Import(S)
      BY <1>6 DEF Learn, Abort
    <2>2. \A c \in Contents : \/ rows'[c] = rows[c]
                              \/ ~Exists(c) /\ rows'[c] = ImportedRow
      BY <1>0, <2>1, ImportableRows DEF Import
    <2> QED
      BY <1>6, <2>2 DEF Learn, Abort, Grown, NoNewUrl, ImportedRow, Exists, Corrupted
  <1> QED
    BY <1>1, <1>2, <1>3, <1>4, <1>5, <1>6
    DEF Next, vars, Discover, FetchNothing, FetchCorrupted, FetchNew, FetchDone,
        ValidateSkip, ValidateDone, ExtractKeep, ExtractDone, Publish
-----------------------------------------------------------------------------
\* What is known of a URL: is kept where sample_sources is not written, ...
LEMMA SourcesKept ==
  ASSUME TypeOK, SourceInv, Grown, NoNewUrl, sources' = sources,
         \A u \in Urls : Left(u)' \/ Held(u)' => Free(u)
  PROVE  SourceInv'
  <1>1. /\ sources \in [Urls -> Contents \cup {NoContent}]
        /\ \A c \in Contents : rows[c].url \in Urls \cup {NoUrl}
    BY DEF TypeOK, Row
  <1>2. \A u \in Urls : PinnedToRejected(u) => PinnedToRejected(u)'
    BY <1>1 DEF PinnedToRejected, Grown
  <1>3. \A u \in Urls : sources'[u] # NoContent => Exists(sources[u])'
    BY <1>1 DEF SourceInv, Grown
  <1>4. \A u \in Urls : Left(u)' \/ Held(u)' => Free(u)'
    BY <1>2 DEF Free
  <1>5. ProvenanceAgrees'
    <2> SUFFICES ASSUME NEW c \in Contents, NEW v, v = rows'[c].url, v # NoUrl
                 PROVE  sources'[v] = c \/ PinnedToRejected(v)'
      BY DEF ProvenanceAgrees, PinnedToRejected
    <2>1. v = rows[c].url /\ v \in Urls
      BY <1>1 DEF NoNewUrl
    <2> QED
      BY <1>2, <2>1 DEF SourceInv, ProvenanceAgrees
  <1> QED
    BY <1>3, <1>4, <1>5 DEF SourceInv, Exists

\* ... and is written for a URL that was free, and whose candidate is handled thereby.
LEMMA SourceRecorded ==
  ASSUME TypeOK, SourceInv, Grown, NEW c \in Contents, NEW u \in Urls \cup {NoUrl},
         OneNewUrl(u, c), Remember(u, c), Exists(c)',
         u # NoUrl => Free(u) /\ ~Left(u)' /\ ~Held(u)',
         \A v \in Urls : Left(v)' \/ Held(v)' => Left(v) \/ Held(v)
  PROVE  SourceInv'
  <1>1. /\ sources \in [Urls -> Contents \cup {NoContent}] /\ NoContent \notin Contents
        /\ \A d \in Contents : rows[d].url \in Urls \cup {NoUrl}
    BY IngestAssumption DEF TypeOK, Row
  <1>2. \A v \in Urls : \/ sources'[v] = sources[v]
                        \/ v = u /\ sources[v] = NoContent /\ sources'[v] = c
    BY <1>1 DEF Remember
  <1>3. \A v \in Urls : PinnedToRejected(v) => PinnedToRejected(v)'
    BY <1>1, <1>2 DEF PinnedToRejected, Grown, Corrupted
  <1>4. \A v \in Urls : sources'[v] # NoContent => rows'[sources'[v]].status # "absent"
    BY <1>1, <1>2 DEF SourceInv, Grown, Exists
  <1>5. \A v \in Urls : Left(v)' \/ Held(v)' => Free(v)'
    <2> SUFFICES ASSUME NEW v \in Urls, Left(v)' \/ Held(v)' PROVE Free(v)'
      OBVIOUS
    <2>1. v # u
      BY IngestAssumption
    <2>2. Free(v)
      BY DEF SourceInv
    <2> QED
      BY <1>2, <1>3, <2>1, <2>2 DEF Free
  <1>6. ProvenanceAgrees'
    <2> SUFFICES ASSUME NEW d \in Contents, NEW v, v = rows'[d].url, v # NoUrl
                 PROVE  sources'[v] = d \/ PinnedToRejected(v)'
      BY DEF ProvenanceAgrees, PinnedToRejected
    <2>1. CASE v = rows[d].url
      <3>1. v \in Urls /\ (sources[v] = d \/ PinnedToRejected(v))
        BY <1>1, <2>1 DEF SourceInv, ProvenanceAgrees
      <3> QED
        BY <1>1, <1>2, <1>3, <3>1
    <2>2. CASE d = c /\ v = u
      <3>1. v \in Urls /\ Free(v)
        BY <2>2
      <3>2. CASE sources[v] = NoContent
        BY <1>1, <2>2, <3>1, <3>2 DEF Remember
      <3>3. CASE PinnedToRejected(v)
        BY <1>3, <3>1, <3>3
      <3> QED
        BY <3>1, <3>2, <3>3 DEF Free
    <2> QED
      BY <2>1, <2>2 DEF OneNewUrl
  <1> QED
    BY <1>4, <1>5, <1>6 DEF SourceInv, Exists
-----------------------------------------------------------------------------
\* A batch that only shrinks, while hash_metadata stays, keeps one candidate a URL.
LEMMA BatchShrinks ==
  ASSUME BatchInv, meta' = meta, Distinct(cands'),
         ElementsOf(cands') \subseteq ElementsOf(cands)
  PROVE  BatchInv' /\ \A u : Left(u)' => Left(u)
  <1>1. \A u : Left(u)' => Left(u)
    BY DEF Left
  <1> QED
    BY <1>1 DEF BatchInv, Left, Distinct, ElementsOf

\* The candidate at hand, and what is left of the batch without it.
LEMMA OneTaken ==
  ASSUME TypeOK, BatchInv, NextCandidate, NEW o, o = Head(cands)
  PROVE  /\ o \in Offers /\ Content(o) \in Contents /\ o.url \in Urls \cup {NoUrl}
         /\ o.url # NoUrl => Content(o) = serves[o.url] /\ Left(o.url)
         /\ Distinct(cands') /\ ElementsOf(cands') \subseteq ElementsOf(cands)
         /\ o.url # NoUrl => ~Left(o.url)'
         /\ \A u : Left(u) => Left(u)' \/ u = o.url
  <1>1. cands \in Seq(Offers) /\ cands # <<>> /\ cands' = Tail(cands)
    BY DEF TypeOK, NextCandidate
  <1>2. /\ o \in Offers /\ o \in ElementsOf(cands)
        /\ ElementsOf(cands') \subseteq ElementsOf(cands)
        /\ ElementsOf(cands) \subseteq ElementsOf(cands') \cup {o}
        /\ Distinct(cands') /\ o \notin ElementsOf(cands')
    BY <1>1, HeadAndTail DEF BatchInv
  <1>3. (o.sha = NoContent) # (o.url = NoUrl)
    BY <1>2, IngestAssumption
  <1>4. o.url # NoUrl => Content(o) = serves[o.url] /\ Left(o.url)
    BY <1>2, <1>3 DEF Content, Left
  <1>5. o.url # NoUrl => ~Left(o.url)'
    <2> SUFFICES ASSUME o.url # NoUrl, NEW p \in ElementsOf(cands'), p.url = o.url
                 PROVE  FALSE
      BY DEF Left, ElementsOf
    <2> QED
      BY <1>2 DEF BatchInv
  <1>6. \A u : Left(u) => Left(u)' \/ u = o.url
    BY <1>2 DEF Left, ElementsOf
  <1> QED
    BY <1>2, <1>4, <1>5, <1>6, OfferTypes
-----------------------------------------------------------------------------
\* A new batch: what discovery keeps is fresh, and hash_metadata is empty.
LEMMA DiscoverSettles ==
  ASSUME SettleInv, Discover
  PROVE  BatchInv' /\ SourceInv'
  <1>1. TypeOK /\ cands' \in Batches /\ rows' = rows /\ sources' = sources
    BY DEF SettleInv, Discover, tables
  <1>2. \A c \in Contents : meta'[c].url = NoUrl
    BY DEF Discover, NoMeta
  <1>3. \A o \in ElementsOf(cands') : o \in Offers /\ ~Known(o)
    <2>1. PICK k \in 0..MaxBatch : cands' \in [1..k -> {o \in Offers : ~Known(o)}]
      BY <1>1 DEF Batches
    <2> QED
      BY <2>1 DEF ElementsOf
  <1>4. \A i, j \in DOMAIN cands' : Key(cands'[i]) = Key(cands'[j]) => i = j
    BY <1>1 DEF Batches
  <1>5. \A o, p \in Offers : o = p \/ (o.url = p.url /\ o.url # NoUrl => Key(o) = Key(p))
    BY IngestAssumption DEF Key
  <1>6. \A o, p \in ElementsOf(cands') : o.url = p.url /\ o.url # NoUrl => o = p
    BY <1>3, <1>4, <1>5 DEF ElementsOf
  <1>7. Distinct(cands')
    BY <1>4 DEF Distinct
  <1>8. BatchInv'
    BY <1>2, <1>6, <1>7 DEF BatchInv, Distinct, ElementsOf
  <1>9. \A u \in Urls : Left(u)' \/ Held(u)' => Free(u)
    <2> SUFFICES ASSUME NEW u \in Urls, Left(u)' \/ Held(u)' PROVE Free(u)
      OBVIOUS
    <2>1. u # NoUrl /\ ~Held(u)'
      BY <1>2, IngestAssumption DEF Held
    <2>2. PICK o \in ElementsOf(cands') : o.url = u
      BY <2>1 DEF Left, ElementsOf
    <2>3. sources[u] = NoContent \/ ~Active(sources[u])
      BY <1>3, <2>1, <2>2 DEF Known, SourceSeen
    <2>4. sources[u] # NoContent => sources[u] \in Contents /\ Exists(sources[u])
      BY <1>1 DEF SettleInv, SourceInv, TypeOK
    <2> QED
      BY <1>1, <2>3, <2>4 DEF Free, PinnedToRejected, TypeOK, Row, Exists, Active, Corrupted
  <1> QED
    BY <1>1, <1>8, <1>9, SourcesKept DEF SettleInv, Grown, NoNewUrl, Exists, Corrupted

\* Handling a candidate records its URL at once, or hands it over to hash_metadata.
LEMMA FetchSettles ==
  ASSUME SettleInv,
         FetchNothing \/ FetchJunk \/ FetchCorrupted \/ FetchDuplicate \/ FetchNew
  PROVE  BatchInv' /\ SourceInv'
  <1> DEFINE o == Head(cands)
  <1>0. TypeOK /\ BatchInv /\ SourceInv /\ NextCandidate
    BY DEF SettleInv, FetchNothing, FetchJunk, FetchCorrupted, FetchDuplicate, FetchNew
  <1>1. PICK p : p = o
    OBVIOUS
  <1>2. /\ p \in Offers /\ Content(p) \in Contents /\ p.url \in Urls \cup {NoUrl}
        /\ p.url # NoUrl => Left(p.url) /\ ~Left(p.url)'
        /\ Distinct(cands') /\ ElementsOf(cands') \subseteq ElementsOf(cands)
    BY <1>0, <1>1, OneTaken
  <1>3. CASE FetchNew
    <2>0. PICK c \in Contents : c = Content(p)
      BY <1>2
    <2>1. /\ meta' = [meta EXCEPT ![c] = Provenance(p)] /\ ~Exists(c)
          /\ rows' = rows /\ sources' = sources
      BY <1>1, <1>3, <2>0 DEF FetchNew, tables
    <2>2. /\ meta'[c].url = p.url
          /\ \A d \in Contents : d # c => meta'[d] = meta[d]
      BY <1>0, <2>1 DEF TypeOK, Provenance
    <2>3. \A u : Left(u)' => Left(u)
      BY <1>2 DEF Left
    <2>4. \A u : \A d \in Contents : meta'[d].url = u /\ u # NoUrl => ~Left(u)'
      <3> SUFFICES ASSUME NEW u, NEW d \in Contents, meta'[d].url = u, u # NoUrl
                   PROVE  ~Left(u)'
        OBVIOUS
      <3>1. CASE d = c
        BY <1>2, <2>2, <3>1
      <3>2. CASE d # c
        BY <1>0, <2>2, <2>3, <3>2 DEF BatchInv
      <3> QED
        BY <3>1, <3>2
    <2>5. \A d, e \in Contents : meta'[d].url = meta'[e].url /\ meta'[d].url # NoUrl => d = e
      BY <1>0, <1>2, <2>2 DEF BatchInv
    <2>6. BatchInv'
      BY <1>0, <1>2, <2>4, <2>5 DEF BatchInv, Left, Distinct, ElementsOf
    <2>7. \A u \in Urls : Left(u)' \/ Held(u)' => Free(u)
      <3> SUFFICES ASSUME NEW u \in Urls, Left(u)' \/ Held(u)' PROVE Left(u) \/ Held(u)
        BY <1>0 DEF SourceInv
      <3>1. CASE Held(u)'
        <4>1. PICK d \in Contents : meta'[d].url = u /\ ~Exists(d)
          BY <2>1, <3>1 DEF Held, Exists
        <4>2. u # NoUrl
          BY IngestAssumption
        <4>3. CASE d = c
          BY <1>2, <2>2, <4>1, <4>2, <4>3
        <4>4. CASE d # c
          BY <2>2, <4>1, <4>4 DEF Held
        <4> QED
          BY <4>3, <4>4
      <3> QED
        BY <2>3, <3>1
    <2>8. SourceInv'
      BY <1>0, <2>1, <2>7, SourcesKept DEF Grown, NoNewUrl, Exists, Corrupted
    <2> QED
      BY <2>6, <2>8
  <1>4. CASE ~FetchNew
    <2>1. meta' = meta
      BY <1>4 DEF FetchNothing, FetchJunk, FetchCorrupted, FetchDuplicate
    <2>2. BatchInv' /\ \A u : Left(u)' => Left(u)
      BY <1>0, <1>2, <2>1, BatchShrinks
    <2>3. Grown => \A u : Held(u)' => Held(u)
      BY <2>1 DEF Held, Grown, Exists
    <2>4. CASE FetchDuplicate
      <3>1. PICK c \in Contents : c = Content(p)
        BY <1>2
      <3>2. RecordSampleSource(p.url, c) /\ Active(c)
        BY <1>1, <2>4, <3>1 DEF FetchDuplicate
      <3>3. /\ Grown /\ OneNewUrl(p.url, c) /\ Exists(c)' /\ Remember(p.url, c)
        BY <1>0, <3>1, <3>2, RecordGrows DEF RecordSampleSource, Active, Exists
      <3>4. p.url # NoUrl => Free(p.url) /\ ~Left(p.url)' /\ ~Held(p.url)'
        <4>1. ASSUME p.url # NoUrl PROVE Free(p.url) /\ ~Left(p.url)'
          BY <1>0, <1>2, <4>1 DEF SourceInv
        <4>2. ASSUME p.url # NoUrl PROVE ~Held(p.url)
          BY <1>0, <1>2, <4>2 DEF BatchInv, Held
        <4> QED
          BY <2>3, <3>3, <4>1, <4>2
      <3> QED
        BY <1>0, <1>2, <2>2, <2>3, <3>3, <3>4, SourceRecorded
    <2>5. CASE ~FetchDuplicate
      <3>1. Grown /\ NoNewUrl /\ sources' = sources
        BY <1>0, <2>5, OthersGrow DEF Next, SettleInv, FetchNothing, FetchJunk, FetchCorrupted,
             FetchNew, ValidateInsert, NextCandidate, NextPath
      <3> QED
        BY <1>0, <2>2, <2>3, <3>1, SourcesKept DEF SourceInv
    <2> QED
      BY <2>4, <2>5
  <1> QED
    BY <1>3, <1>4

\* An insertion records the URL its content was held for.
LEMMA InsertSettles ==
  ASSUME SettleInv, ValidateInsert
  PROVE  BatchInv' /\ SourceInv'
  <1>1. PICK c : c = Head(paths)
    OBVIOUS
  <1>2. TypeOK /\ BatchInv /\ SourceInv /\ meta' = meta /\ cands' = cands
    BY DEF SettleInv, ValidateInsert
  <1>3. /\ Grown /\ OneNewUrl(meta[c].url, c) /\ c \in Contents /\ ~Exists(c) /\ Exists(c)'
        /\ Remember(meta[c].url, c)
    BY <1>1, <1>2, InsertGrows DEF ValidateInsert
  <1>4. meta[c].url \in Urls \cup {NoUrl}
    BY <1>2, <1>3 DEF TypeOK
  <1>5. BatchInv' /\ \A u : Left(u)' => Left(u)
    BY <1>2, BatchShrinks DEF BatchInv
  <1>6. \A u : Held(u)' => Held(u)
    BY <1>2, <1>3 DEF Held, Grown, Exists
  <1>7. ASSUME meta[c].url # NoUrl
        PROVE  Free(meta[c].url) /\ ~Left(meta[c].url)' /\ ~Held(meta[c].url)'
    <2>1. PICK u \in Urls : u = meta[c].url
      BY <1>4, <1>7
    <2>2. Free(u) /\ ~Left(u)
      BY <1>2, <1>3, <1>7, <2>1 DEF SourceInv, BatchInv, Held
    <2>3. ~Held(u)'
      <3> SUFFICES ASSUME NEW d \in Contents, meta[d].url = u, ~Exists(d)' PROVE FALSE
        BY <1>2 DEF Held, Exists
      <3>1. d = c
        BY <1>2, <1>3, <1>7, <2>1 DEF BatchInv
      <3> QED
        BY <1>3, <3>1 DEF Exists
    <2>4. ~Left(u)' /\ Left(u)' = Left(meta[c].url)'
      BY <1>2, <1>5, <2>1, <2>2 DEF Left
    <2>5. Held(u)' = Held(meta[c].url)'
      BY <1>2, <2>1 DEF Held
    <2> QED
      BY <2>1, <2>2, <2>3, <2>4, <2>5
  <1>8. SourceInv'
    <2>1. PICK u \in Urls \cup {NoUrl} : u = meta[c].url /\ u = (meta[c].url)'
      BY <1>2, <1>4
    <2>2. u # NoUrl => Free(u) /\ ~Left(u)' /\ ~Held(u)'
      BY <1>2, <1>7, <2>1 DEF Left, Held
    <2>3. OneNewUrl(u, c) /\ Remember(u, c)
      BY <1>3, <2>1
    <2> QED
      BY <1>2, <1>3, <1>5, <1>6, <2>2, <2>3, SourceRecorded
  <1> QED
    BY <1>5, <1>8

\* The rest of a pass touches neither.
LEMMA RestSettles ==
  ASSUME SettleInv, [Next]_vars, ~Discover, ~ValidateInsert,
         ~FetchNothing, ~FetchJunk, ~FetchCorrupted, ~FetchDuplicate, ~FetchNew
  PROVE  BatchInv' /\ SourceInv'
  <1>1. TypeOK /\ BatchInv /\ SourceInv /\ Grown /\ NoNewUrl /\ sources' = sources
    BY OthersGrow DEF SettleInv
  <1>2. CASE Abort
    <2>1. cands' = <<>> /\ \A c \in Contents : meta'[c].url = NoUrl
      BY <1>2 DEF Abort, NoMeta
    <2>2. ElementsOf(cands') = {} /\ Distinct(cands')
      BY <2>1, Emptied
    <2>3. BatchInv'
      BY <2>1, <2>2 DEF BatchInv, ElementsOf, Distinct
    <2>4. \A u \in Urls : ~Left(u)' /\ ~Held(u)'
      BY <2>1, <2>2, IngestAssumption DEF Left, Held, ElementsOf
    <2> QED
      BY <1>1, <2>3, <2>4, SourcesKept
  <1>3. CASE ~Abort
    <2>1. cands' = cands /\ meta' = meta
      BY <1>3 DEF Next, vars, pass, FetchDone, ValidateSkip, ValidateReject, ValidateDone,
         Extract, ExtractReject, ExtractKeep, ExtractDone, Learn, Publish
    <2>2. BatchInv' /\ \A u : Left(u)' => Left(u)
      BY <1>1, <2>1, BatchShrinks DEF BatchInv
    <2>3. \A u : Held(u)' => Held(u)
      BY <1>1, <2>1 DEF Held, Grown, Exists
    <2> QED
      BY <1>1, <2>2, <2>3, SourcesKept DEF SourceInv
  <1> QED
    BY <1>2, <1>3
-----------------------------------------------------------------------------
LEMMA TablesGrow ==
  ASSUME TypeOK, [Next]_vars
  PROVE  Grown /\ \A u \in Urls : sources[u] # NoContent => sources'[u] = sources[u]
  <1>1. sources \in [Urls -> Contents \cup {NoContent}]
    BY DEF TypeOK
  <1>2. CASE FetchDuplicate
    <2>1. PICK o : o = Head(cands)
      OBVIOUS
    <2>2. o \in Offers /\ RecordSampleSource(o.url, Content(o))
      BY <1>2, <2>1, HeadAndTail DEF FetchDuplicate, NextCandidate, TypeOK
    <2>3. PICK c \in Contents : c = Content(o)
      BY <2>2, OfferTypes
    <2> QED
      BY <1>1, <2>2, <2>3, RecordGrows DEF RecordSampleSource, Remember
  <1>3. CASE ValidateInsert
    <2>1. PICK c : c = Head(paths)
      OBVIOUS
    <2> QED
      BY <1>1, <1>3, <2>1, InsertGrows DEF ValidateInsert, Remember
  <1> QED
    BY <1>2, <1>3, OthersGrow

\* Downloads that are not counted anew stay settled where they were.
LEMMA CountsKept ==
  ASSUME SettleInv, [Next]_vars, aborts' = aborts, serves' = serves, fetched' = fetched,
         \A u \in Urls : serves[u] \in ElementsOf(paths) /\ ~Left(u)
                           => \/ rows'[serves[u]].status # "absent"
                              \/ serves[u] \in ElementsOf(paths') /\ ~Left(u)'
  PROVE  CountInv'
  <1>1. TypeOK /\ Grown /\ \A u \in Urls : sources[u] # NoContent => sources'[u] = sources[u]
    BY TablesGrow DEF SettleInv
  <1>2. \A u \in Urls : serves[u] \in Contents /\ (sources[u] # NoContent => sources[u] \in Contents)
    BY <1>1 DEF TypeOK
  <1> SUFFICES ASSUME aborts = 0, NEW u \in Urls
               PROVE  /\ fetched[u] > 0 =>
                           \/ rows'[serves[u]].status # "absent"
                           \/ serves[u] \in ElementsOf(paths') /\ ~Left(u)'
                      /\ fetched[u] > 1 => sources'[u] # NoContent \/ rows'[serves[u]].status = "corrupted"
                      /\ fetched[u] > 2 => \/ rows'[serves[u]].status = "corrupted"
                                           \/ PinnedToRejected(u)'
    BY DEF CountInv, Exists, Corrupted, ElementsOf
  <1>3. /\ fetched[u] > 0 => Exists(serves[u]) \/ (serves[u] \in ElementsOf(paths) /\ ~Left(u))
        /\ fetched[u] > 1 => sources[u] # NoContent \/ Corrupted(serves[u])
        /\ fetched[u] > 2 => Corrupted(serves[u]) \/ PinnedToRejected(u)
    BY DEF SettleInv, CountInv
  <1>4. fetched[u] > 0 => \/ rows'[serves[u]].status # "absent"
                          \/ serves[u] \in ElementsOf(paths') /\ ~Left(u)'
    BY <1>1, <1>2, <1>3 DEF Grown, Exists
  <1>5. fetched[u] > 1 => sources'[u] # NoContent \/ rows'[serves[u]].status = "corrupted"
    BY <1>1, <1>2, <1>3 DEF Grown, Corrupted
  <1>6. fetched[u] > 2 => rows'[serves[u]].status = "corrupted" \/ PinnedToRejected(u)'
    BY <1>1, <1>2, <1>3 DEF Grown, Corrupted, PinnedToRejected
  <1> QED
    BY <1>4, <1>5, <1>6

\* A download that is counted has found, after its step, a row or a place in the queue; if it
\* found a row before, it leaves a source or a quarantined content behind.
LEMMA CountsTaken ==
  ASSUME SettleInv, [Next]_vars, NextCandidate, aborts' = aborts, serves' = serves,
         NEW o, o = Head(cands), NEW c, c = Content(o), CountFetch(o),
         ElementsOf(paths) \subseteq ElementsOf(paths'),
         rows'[c].status # "absent" \/ c \in ElementsOf(paths'),
         Exists(c) => \/ rows'[c].status = "corrupted"
                      \/ o.url # NoUrl => sources'[o.url] # NoContent
  PROVE  CountInv'
  <1>1. TypeOK /\ Grown /\ \A u \in Urls : sources[u] # NoContent => sources'[u] = sources[u]
    BY TablesGrow DEF SettleInv
  <1>2. \A u \in Urls : serves[u] \in Contents /\ (sources[u] # NoContent => sources[u] \in Contents)
    BY <1>1 DEF TypeOK
  <1>3. /\ o.url # NoUrl => o.url \in Urls /\ c = serves[o.url] /\ Left(o.url) /\ ~Left(o.url)'
        /\ ElementsOf(cands') \subseteq ElementsOf(cands)
    BY <1>1, OneTaken DEF SettleInv
  <1> SUFFICES ASSUME aborts = 0, NEW u \in Urls
               PROVE  /\ fetched'[u] > 0 =>
                           \/ rows'[serves[u]].status # "absent"
                           \/ serves[u] \in ElementsOf(paths') /\ ~Left(u)'
                      /\ fetched'[u] > 1 => sources'[u] # NoContent \/ rows'[serves[u]].status = "corrupted"
                      /\ fetched'[u] > 2 => \/ rows'[serves[u]].status = "corrupted"
                                            \/ PinnedToRejected(u)'
    BY DEF CountInv, Exists, Corrupted, ElementsOf
  <1>4. /\ fetched[u] > 0 => Exists(serves[u]) \/ (serves[u] \in ElementsOf(paths) /\ ~Left(u))
        /\ fetched[u] > 1 => sources[u] # NoContent \/ Corrupted(serves[u])
        /\ fetched[u] > 2 => Corrupted(serves[u]) \/ PinnedToRejected(u)
    BY DEF SettleInv, CountInv
  <1>5. fetched \in [Urls -> 0..3]
    BY <1>1 DEF TypeOK
  <1>6. PinnedToRejected(u) => PinnedToRejected(u)'
    BY <1>1, <1>2 DEF Grown, Corrupted, PinnedToRejected
  <1>7. CASE u # o.url
    <2>1. fetched'[u] = fetched[u]
      BY <1>1, <1>3, <1>7 DEF CountFetch, TypeOK
    <2>2. Left(u)' => Left(u)
      BY <1>3 DEF Left, ElementsOf
    <2>3. fetched[u] > 0 => \/ rows'[serves[u]].status # "absent"
                            \/ serves[u] \in ElementsOf(paths') /\ ~Left(u)'
      BY <1>1, <1>2, <1>4, <2>2 DEF Grown, Exists
    <2>4. fetched[u] > 1 => sources'[u] # NoContent \/ rows'[serves[u]].status = "corrupted"
      BY <1>1, <1>2, <1>4 DEF Grown, Corrupted
    <2>5. fetched[u] > 2 => rows'[serves[u]].status = "corrupted" \/ PinnedToRejected(u)'
      BY <1>1, <1>2, <1>4, <1>6 DEF Grown, Corrupted
    <2> QED
      BY <2>1, <2>3, <2>4, <2>5
  <1>8. CASE u = o.url
    <2>1. c = serves[u] /\ c \in Contents /\ Left(u) /\ ~Left(u)' /\ u # NoUrl
      BY <1>2, <1>3, <1>8, IngestAssumption
    <2>2. /\ fetched[u] \in 0..3
          /\ \/ fetched'[u] = fetched[u] + 1
             \/ fetched'[u] = fetched[u] /\ fetched[u] = 3
      <3>1. fetched[u] \in 0..3
        BY <1>5
      <3>2. fetched' = IF fetched[u] < 3 THEN [fetched EXCEPT ![u] = fetched[u] + 1] ELSE fetched
        BY <1>8, <2>1 DEF CountFetch
      <3>3. [fetched EXCEPT ![u] = fetched[u] + 1][u] = fetched[u] + 1
        BY <1>5
      <3>4. CASE fetched[u] < 3
        BY <3>1, <3>2, <3>3, <3>4
      <3>5. CASE ~(fetched[u] < 3)
        BY <3>1, <3>2, <3>5
      <3> QED
        BY <3>1, <3>4, <3>5
    <2>3. (fetched'[u] > 1 => fetched[u] > 0) /\ (fetched'[u] > 2 => fetched[u] > 1)
      BY <2>2
    <2>4. Free(u)
      BY <2>1 DEF SettleInv, SourceInv
    <2>5. fetched'[u] > 1 => sources'[u] # NoContent \/ rows'[c].status = "corrupted"
      BY <1>4, <1>8, <2>1, <2>3
    <2>6. fetched'[u] > 2 => rows'[c].status = "corrupted" \/ PinnedToRejected(u)'
      <3>1. fetched'[u] > 2 => Corrupted(c) \/ PinnedToRejected(u)
        BY <1>4, <2>1, <2>3, <2>4 DEF Free
      <3> QED
        BY <1>1, <1>6, <2>1, <3>1 DEF Grown, Corrupted
    <2> QED
      BY <2>1, <2>5, <2>6
  <1> QED
    BY <1>7, <1>8

LEMMA FetchCounts ==
  ASSUME SettleInv, [Next]_vars,
         FetchNothing \/ FetchJunk \/ FetchCorrupted \/ FetchDuplicate \/ FetchNew
  PROVE  PathsInv' /\ CountInv'
  <1>0. TypeOK /\ BatchInv /\ SourceInv /\ NextCandidate
    BY DEF SettleInv, FetchNothing, FetchJunk, FetchCorrupted, FetchDuplicate, FetchNew
  <1>1. PathsInv' /\ aborts' = aborts /\ serves' = serves
    BY DEF PathsInv, NextCandidate, world, FetchNothing, FetchJunk, FetchCorrupted, FetchDuplicate,
       FetchNew
  <1>2. PICK o : o = Head(cands)
    OBVIOUS
  <1>3. /\ Content(o) \in Contents /\ o.url \in Urls \cup {NoUrl}
        /\ ElementsOf(cands') \subseteq ElementsOf(cands)
    BY <1>0, <1>2, OneTaken
  <1>4. PICK c \in Contents : c = Content(o)
    BY <1>3
  <1>5. CASE FetchNothing \/ FetchJunk
    <2>1. fetched' = fetched /\ paths' = paths
      BY <1>5 DEF FetchNothing, FetchJunk
    <2>2. \A u : Left(u)' => Left(u)
      BY <1>3 DEF Left, ElementsOf
    <2> QED
      BY <1>1, <2>1, <2>2, CountsKept
  <1>6. CASE FetchCorrupted
    <2>1. CountFetch(o) /\ paths' = paths /\ rows'[c].status = "corrupted"
      BY <1>2, <1>4, <1>6 DEF FetchCorrupted, tables, Corrupted
    <2> QED
      BY <1>0, <1>1, <1>2, <1>4, <2>1, CountsTaken
  <1>7. CASE FetchDuplicate
    <2>1. CountFetch(o) /\ paths' = paths /\ RecordSampleSource(o.url, c) /\ Active(c)
      BY <1>2, <1>4, <1>7 DEF FetchDuplicate
    <2>2. rows'[c].status # "absent"
      BY <1>0, <2>1, RecordGrows DEF Active
    <2>3. o.url # NoUrl => sources'[o.url] # NoContent
      BY <1>0, <1>3, <2>1, IngestAssumption DEF RecordSampleSource, Remember, TypeOK
    <2> QED
      BY <1>0, <1>1, <1>2, <1>4, <2>1, <2>2, <2>3, CountsTaken
  <1>8. CASE FetchNew
    <2>1. CountFetch(o) /\ paths' = Append(paths, c) /\ ~Exists(c)
      BY <1>2, <1>4, <1>8 DEF FetchNew
    <2>2. ElementsOf(paths') = ElementsOf(paths) \cup {c}
      <3>1. paths \in Seq(Contents)
        BY <1>0 DEF TypeOK
      <3> QED
        BY <2>1, <3>1, Appended
    <2> QED
      BY <1>0, <1>1, <1>2, <1>4, <2>1, <2>2, CountsTaken
  <1> QED
    BY <1>5, <1>6, <1>7, <1>8

\* Validation takes a file off the queue only when its content has a row.
LEMMA ValidateCounts ==
  ASSUME SettleInv, [Next]_vars, ValidateSkip \/ ValidateReject \/ ValidateInsert
  PROVE  PathsInv' /\ CountInv'
  <1>0. TypeOK /\ NextPath /\ rows \in [Contents -> Row]
    BY DEF SettleInv, TypeOK, ValidateSkip, ValidateReject, ValidateInsert
  <1>1. /\ PathsInv' /\ aborts' = aborts /\ serves' = serves /\ fetched' = fetched
        /\ cands' = cands
    BY DEF PathsInv, NextPath, world, ValidateSkip, ValidateReject, ValidateInsert
  <1>2. PICK c : c = Head(paths)
    OBVIOUS
  <1>3. c \in Contents /\ ElementsOf(paths) \subseteq ElementsOf(paths') \cup {c}
    BY <1>0, <1>2, HeadAndTail DEF NextPath, TypeOK
  <1>4. rows'[c].status # "absent"
    <2>1. CASE ValidateSkip
      BY <1>2, <2>1 DEF ValidateSkip, Insertable, Active, Corrupted, tables
    <2>2. CASE ValidateReject
      <3>1. meta[c].label \in 0..1 /\ MarkCorrupted(c, meta[c].label)
        BY <1>0, <1>2, <1>3, <2>2 DEF TypeOK, ValidateReject
      <3> QED
        BY <1>0, <1>3, <3>1, MarkGrows DEF Corrupted
    <2>3. CASE ValidateInsert
      BY <1>0, <1>2, <2>3, InsertGrows DEF Exists
    <2> QED
      BY <2>1, <2>2, <2>3
  <1>5. \A u : Left(u)' <=> Left(u)
    BY <1>1 DEF Left, ElementsOf
  <1>6. \A u \in Urls : serves[u] \in ElementsOf(paths) /\ ~Left(u)
                         => \/ rows'[serves[u]].status # "absent"
                            \/ serves[u] \in ElementsOf(paths') /\ ~Left(u)'
    BY <1>3, <1>4, <1>5
  <1> QED
    BY <1>1, <1>6, CountsKept

\* The rest of a pass, its failure, and a publisher count nothing.
LEMMA RestCounts ==
  ASSUME SettleInv, [Next]_vars,
         ~FetchNothing, ~FetchJunk, ~FetchCorrupted, ~FetchDuplicate, ~FetchNew,
         ~ValidateSkip, ~ValidateReject, ~ValidateInsert
  PROVE  PathsInv' /\ CountInv'
  <1>0. TypeOK /\ PathsInv
    BY DEF SettleInv
  <1>1. CASE Discover
    <2>1. paths = <<>> /\ paths' = <<>>
      BY <1>0, <1>1 DEF Discover, PathsInv
    <2>2. ElementsOf(paths) = {}
      BY <2>1, Emptied
    <2> QED
      BY <1>1, <2>1, <2>2, CountsKept DEF Discover, PathsInv, world
  <1>2. CASE Abort
    BY <1>0, <1>2 DEF Abort, PathsInv, CountInv, TypeOK
  <1>3. CASE Publish
    <2>1. PathsInv'
      BY <1>0, <1>3 DEF Publish, PathsInv, pass
    <2>2. PICK v \in Urls, c \in Contents :
            serves' = [serves EXCEPT ![v] = c] /\ fetched' = [fetched EXCEPT ![v] = 0]
      BY <1>3 DEF Publish
    <2>3. \A u \in Urls : IF u = v THEN fetched'[u] = 0
                          ELSE fetched'[u] = fetched[u] /\ serves'[u] = serves[u]
      BY <1>0, <2>2 DEF TypeOK
    <2>4. rows' = rows /\ sources' = sources /\ paths' = paths /\ cands' = cands /\ aborts' = aborts
      BY <1>3 DEF Publish, tables, pass
    <2>5. CountInv'
      <3> SUFFICES ASSUME aborts = 0, NEW u \in Urls
                   PROVE  /\ fetched'[u] > 0 => \/ rows[serves'[u]].status # "absent"
                                                \/ serves'[u] \in ElementsOf(paths) /\ ~Left(u)
                          /\ fetched'[u] > 1 => \/ sources[u] # NoContent
                                                \/ rows[serves'[u]].status = "corrupted"
                          /\ fetched'[u] > 2 => rows[serves'[u]].status = "corrupted" \/ PinnedToRejected(u)
        BY <2>4 DEF CountInv, Exists, Corrupted, ElementsOf, Left, PinnedToRejected
      <3>1. CASE u = v
        BY <2>3, <3>1
      <3>2. CASE u # v
        <4>1. fetched'[u] = fetched[u] /\ serves'[u] = serves[u]
          BY <2>3, <3>2
        <4> QED
          BY <4>1 DEF SettleInv, CountInv, Exists, Corrupted
      <3> QED
        BY <3>1, <3>2
    <2> QED
      BY <2>1, <2>5
  <1>4. CASE ~Discover /\ ~Abort /\ ~Publish
    <2>1. /\ paths' = paths /\ cands' = cands /\ aborts' = aborts /\ serves' = serves
          /\ fetched' = fetched /\ PathsInv'
      BY <1>0, <1>4 DEF Next, vars, world, pass, PathsInv, FetchDone, ValidateDone, Extract,
         ExtractReject, ExtractKeep, ExtractDone, Learn
    <2>2. \A u : Left(u)' <=> Left(u)
      BY <2>1 DEF Left, ElementsOf
    <2> QED
      BY <2>1, <2>2, CountsKept
  <1> QED
    BY <1>1, <1>2, <1>3, <1>4

LEMMA InitSettles == Init => SettleInv
  <1> SUFFICES ASSUME Init PROVE SettleInv
    OBVIOUS
  <1>1. /\ \A c \in Contents : rows[c].url = NoUrl /\ meta[c].url = NoUrl
        /\ \A u \in Urls : sources[u] = NoContent /\ fetched[u] = 0
        /\ ElementsOf(cands) = {} /\ Distinct(cands) /\ paths = <<>>
    BY Emptied DEF Init, NoRow, NoMeta
  <1>2. BatchInv
    BY <1>1 DEF BatchInv
  <1>3. SourceInv /\ PathsInv /\ CountInv
    BY <1>1 DEF SourceInv, PathsInv, CountInv, Free, ProvenanceAgrees
  <1> QED
    BY <1>2, <1>3, InitTypes DEF SettleInv

LEMMA NextSettles == SettleInv /\ [Next]_vars => SettleInv'
  <1> SUFFICES ASSUME SettleInv, [Next]_vars PROVE SettleInv'
    OBVIOUS
  <1>1. TypeOK'
    BY NextKeepsTypes DEF SettleInv
  <1>2. BatchInv' /\ SourceInv'
    BY DiscoverSettles, FetchSettles, InsertSettles, RestSettles
  <1>3. PathsInv' /\ CountInv'
    BY FetchCounts, ValidateCounts, RestCounts
  <1> QED
    BY <1>1, <1>2, <1>3 DEF SettleInv

\* is_source_url_seen's two queries agree on every active sample, unless the URL is pinned to a
\* rejected content: whatever duplicates, overwritten URLs and failed passes come between.
THEOREM SourcesAgree == Spec => []ProvenanceAgrees
  <1>1. SettleInv => ProvenanceAgrees
    BY DEF SettleInv, SourceInv
  <1> QED
    BY <1>1, InitSettles, NextSettles, PTL DEF Spec

\* binary_fetch downloads what a URL serves at most twice, unless it was rejected or the URL is
\* pinned to a rejected content: is_source_url_seen ends the repetition.
THEOREM DownloadsAreFew == Spec => []DownloadsSettle
  <1>1. SettleInv => DownloadsSettle
    BY DEF SettleInv, CountInv, DownloadsSettle
  <1> QED
    BY <1>1, InitSettles, NextSettles, PTL DEF Spec
=============================================================================
