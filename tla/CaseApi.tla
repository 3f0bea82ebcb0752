------------------------------- MODULE CaseApi -------------------------------
(***************************************************************************)
(* How cases and their documents come into the system: the two services    *)
(* behind the case routes (apps/api/src/cases-runtime.ts picks one).  The  *)
(* production service keeps cases and document rows in PostgreSQL and      *)
(* document bytes in object storage, one awaited call after the other, so  *)
(* that requests interleave and a crash may fall between any two of them.  *)
(* The demo service keeps everything in memory: its handlers interleave    *)
(* only where they await the validation of a file.                         *)
(*                                                                         *)
(* A client sends a call once more after an error or a crash, with the     *)
(* same idempotency key.  What the worker does to a queued case is in      *)
(* CaseJobs.                                                               *)
(***************************************************************************)
EXTENDS Naturals, FiniteSets, SequencesExt

CONSTANTS
  Calls,       \* the calls clients make
  Call,        \* [Calls -> [op, key, files, to]], op intake, create, or upload to a case
  File,        \* file -> what validation finds in it
  MaxDocuments,\* WORKER_MAX_DOCUMENTS
  SeedFiles,   \* the sequence of files of the seeded case
  PageSize,
  MaxSends, MaxCrashes, MaxFaults, MaxEdits

ASSUME CallAssumption ==
  /\ "startup" \notin Calls
  /\ \A c \in Calls : Call[c].op \in {"intake", "create", "upload"}
  /\ PageSize \in Nat \ {0} /\ MaxDocuments \in Nat

(* What arrives as a file; only the inspection of a PDF finds one corrupt or encrypted. *)
ASSUME FileAssumption ==
  /\ \A name \in DOMAIN File :
       /\ File[name].bytes \in {"none", "some", "many"}
       /\ File[name].declared # "none"
       /\ File[name].corrupt \/ File[name].encrypted => File[name].signature = "pdf"
  /\ SeedFiles \in Seq(DOMAIN File)
  /\ \A c \in Calls : /\ Call[c].files \in Seq(DOMAIN File)
                      /\ Call[c].op = "upload" => Len(Call[c].files) = 1

(* A client makes a key for each request it sends, and none is one of the services' own. *)
ASSUME KeyAssumption ==
  /\ \A c \in Calls : Call[c].key \notin {"seed", "none", "rules", "pack"}
  /\ \A c, d \in Calls : Call[c].key = Call[d].key => Call[c].op = Call[d].op /\ Call[c].to = Call[d].to

VARIABLES
  deployment,  \* which service serves the routes
  api,         \* "seeding", "serving", or "stuck" when a start has failed
  cases,       \* case id -> [version, docs, status, open]
  order,       \* the ids of the cases, the last updated first
  rows,        \* the document rows: <<case, document>>
  objects,     \* the stored bytes: <<case, document, file>>
  jobs,        \* the processing jobs: <<case, key>>
  handler,     \* call, or Startup -> where its handler is, and what it holds
  answers,     \* demo only: the answered requests, each with its case
  reader,      \* a client that pages through the cases
  desk,        \* demo only: the case as a reviewer last saw it
  used         \* how much of each bound is used

vars == <<deployment, api, cases, order, rows, objects, jobs, handler, answers, reader, desk, used>>

-----------------------------------------------------------------------------
(* Validation: packages/document-pipeline/src/validation.ts.  A file is     *)
(* [bytes, declared, signature, corrupt, encrypted, pages, scan].           *)

DetectMediaType(f) ==
  IF <<f.signature, f.declared>> \in {<<"docx", "office">>, <<"none", "text">>}
  THEN f.declared ELSE f.signature

ScanIssues(f) ==
  CASE f.scan = "clean" -> {} [] f.scan = "infected" -> {"infected"}
    [] f.scan = "inconclusive" -> {"scan_inconclusive"} [] OTHER -> {"scan_unavailable"}

PdfIssues(f, maxPages) ==
  {c \in {"corrupt", "encrypted", "too_many_pages"} :
     \/ c = "corrupt" /\ f.corrupt
     \/ c = "encrypted" /\ f.encrypted
     \/ c = "too_many_pages" /\ f.pages > maxPages}

(* The codes of the issues of a file; it is accepted when there are none. *)
ValidateFile(f, supported, maxPages) ==
  LET detected == IF f.bytes = "none" THEN "none" ELSE DetectMediaType(f)
      size == CASE f.bytes = "none" -> {"empty"} [] f.bytes = "many" -> {"too_large"} [] OTHER -> {}
      kind == IF f.declared \in supported THEN {} ELSE {"unsupported_media_type"}
      content == CASE f.bytes = "none" \/ detected = f.declared -> {}
                   [] f.bytes # "none" /\ detected = "none" -> {"corrupt"}
                   [] OTHER -> {"signature_mismatch"}
      pdf == IF detected = "pdf" THEN PdfIssues(f, maxPages) ELSE {}
  IN size \cup kind \cup content \cup pdf \cup (IF size = {} THEN ScanIssues(f) ELSE {})

(* Mutant: the batch is accepted once its first file is. *)
FirstFileOnly(files) ==
  /\ 0 < Len(files) /\ Len(files) <= MaxDocuments
  /\ ValidateFile(File[files[1]], {"pdf"}, 500) = {}

ValidateIntakeFiles(files) ==
  /\ 0 < Len(files) /\ Len(files) <= MaxDocuments
  /\ \A i \in DOMAIN files : ValidateFile(File[files[i]], {"pdf"}, 500) = {}

Accepted(c) ==
  CASE Call[c].op = "intake" -> ValidateIntakeFiles(Call[c].files)
    [] Call[c].op = "upload" -> ValidateFile(File[Call[c].files[1]], {"pdf", "text"}, 250) = {}
    [] OTHER -> TRUE

-----------------------------------------------------------------------------
(* Handlers, cases and the reader. *)

Startup == "startup"
NoCase == <<"none", 0>>
SeedCase == <<"seed", 0>>

Resting == [pc |-> "idle", case |-> NoCase, version |-> 0, docs |-> <<>>, at |-> 0]

Goto(c, pc) == handler' = [handler EXCEPT ![c].pc = pc]
Answered(c, id) == handler' = [handler EXCEPT ![c] = [Resting EXCEPT !.pc = "answered", !.case = id]]
Refused(c) == handler' = [handler EXCEPT ![c] = [Resting EXCEPT !.pc = "failed"]]

(* f with another value, or a further one. *)
With(f, k, value) == [x \in DOMAIN f \cup {k} |-> IF x = k THEN value ELSE f[x]]

(* A row belongs to a case; its id is made of the key of the call and the place in its batch. *)
Ids == ({Call[c].key : c \in Calls} \cup {"seed"}) \X Nat
DocumentRow == Ids \X Ids

SeedDocs == [i \in DOMAIN SeedFiles |-> [id |-> <<"seed", i>>, file |-> SeedFiles[i]]]

NewCase(docs) == [version |-> 1, docs |-> docs, status |-> "processing", open |-> 0]

(* The seeded case has been worked on; one open finding stands for those it comes with. *)
ReviewedCase(docs) == [version |-> 3, docs |-> docs, status |-> "needs_review", open |-> 1]

(* Mutant: an updated case is put in front and stays in its place as well. *)
UpdatedInPlace(id) == order' = <<id>> \o order /\ reader' = [reader EXCEPT !.watch = @ \ {id}]

(* The case was written: it is the last updated one. *)
Updated(id) ==
  /\ order' = <<id>> \o RemoveFirst(order, id)
  /\ reader' = [reader EXCEPT !.watch = @ \ {id}]

Write(id, record) == cases' = With(cases, id, record) /\ Updated(id)

NotUpdated == UNCHANGED <<cases, order, reader>>

Use(bound, max) == used[bound] < max /\ used' = [used EXCEPT ![bound] = @ + 1]

Init ==
  /\ deployment \in {"demo", "production"}
  /\ api = IF deployment = "demo" THEN "serving" ELSE "seeding"
  (* production starts on an empty database or on one seeded by an earlier release *)
  /\ \E n \in IF deployment = "demo" THEN {Len(SeedFiles)} ELSE 0..(Len(SeedFiles) - 1) :
       LET docs == SubSeq(SeedDocs, 1, n)
           known == n > 0
       IN /\ cases = [id \in IF known THEN {SeedCase} ELSE {} |-> ReviewedCase(docs)]
          /\ order = IF known THEN <<SeedCase>> ELSE <<>>
          /\ rows = {<<SeedCase, docs[i].id>> : i \in DOMAIN docs}
          /\ objects = {<<SeedCase, docs[i].id, docs[i].file>> : i \in DOMAIN docs}
  /\ jobs = <<>> /\ answers = <<>> /\ desk = [case |-> NoCase, version |-> 0, docs |-> <<>>, open |-> 0]
  /\ handler = [c \in Calls \cup {Startup} |-> Resting]
  /\ reader = [pc |-> "off", cursor |-> NoCase, seen |-> {}, watch |-> {}]
  /\ used = [sends |-> [c \in Calls |-> 0], crashes |-> 0, faults |-> 0, edits |-> 0]

(* A client sends a call, for the first time or once more. *)
Send(c) ==
  /\ api = "serving" /\ used.sends[c] < MaxSends
  /\ handler[c].pc \in {"idle", "failed", "answered"}
  /\ used' = [used EXCEPT !.sends[c] = @ + 1]
  /\ handler' = [handler EXCEPT ![c] = [Resting EXCEPT !.pc = "sent"]]
  /\ UNCHANGED <<deployment, api, rows, objects, jobs, answers, desk>> /\ NotUpdated

(* A client pages through the cases, newest first; the cursor is the last case it saw.  (The
   demo service's list is the same; it is left to the production service here.) *)
(* Mutant: the page after a cursor begins one case late. *)
NextButOne(cursor) ==
  IF cursor = NoCase THEN 0 ELSE 1 + CHOOSE i \in DOMAIN order : order[i] = cursor

Start(cursor) ==
  IF cursor = NoCase THEN 0 ELSE CHOOSE i \in DOMAIN order : order[i] = cursor

ReadPage ==
  /\ deployment = "production" /\ api = "serving" /\ reader.pc # "done"
  /\ LET start == Start(reader.cursor)
         page == SubSeq(order, start + 1, IF start + PageSize < Len(order) THEN start + PageSize ELSE Len(order))
     IN reader' = [ pc |-> IF start + Len(page) < Len(order) THEN "paging" ELSE "done",
                    cursor |-> IF page = <<>> THEN reader.cursor ELSE Last(page),
                    seen |-> reader.seen \cup ToSet(page),
                    watch |-> IF reader.pc = "off" THEN DOMAIN cases ELSE reader.watch ]
  /\ UNCHANGED <<deployment, api, cases, order, rows, objects, jobs, handler, answers, desk, used>>

-----------------------------------------------------------------------------
(* The production service (apps/api/src/production-cases.service.ts).      *)

Serving == deployment = "production" /\ api = "serving"

Static == UNCHANGED <<deployment, api, answers, desk>>

(* Validation and the first read: an intake or a create that has a case is answered with it,
   an upload of bytes the case has already is answered with that document. *)
Receive(c) ==
  LET id == <<Call[c].key, 0>>
      has(k) == \E i \in DOMAIN cases[k].docs : cases[k].docs[i].file = Call[c].files[1]
  IN /\ Serving /\ handler[c].pc = "sent"
     /\ CASE ~Accepted(c) -> Refused(c)
          [] Accepted(c) /\ Call[c].op # "upload" ->
               IF id \in DOMAIN cases THEN Answered(c, id)
               ELSE handler' = [handler EXCEPT ![c].pc = "insert", ![c].case = id]
          [] OTHER ->
               IF Call[c].to \notin DOMAIN cases THEN Refused(c)
               ELSE IF has(Call[c].to) THEN Answered(c, Call[c].to)
               ELSE handler' = [handler EXCEPT ![c] =
                      [pc |-> "put", case |-> Call[c].to, at |-> 1,
                       version |-> cases[Call[c].to].version, docs |-> cases[Call[c].to].docs]]
     /\ Static /\ NotUpdated /\ UNCHANGED <<rows, objects, jobs, used>>

(* insert into cases ... on conflict do nothing: the loser answers with the winner's case. *)
Insert(c) ==
  LET id == handler[c].case
  IN /\ Serving /\ handler[c].pc = "insert"
     /\ IF id \in DOMAIN cases
        THEN Answered(c, id) /\ NotUpdated
        ELSE /\ Write(id, NewCase(<<>>))
             /\ IF Call[c].op = "create" THEN Answered(c, id)
                ELSE handler' = [handler EXCEPT ![c].pc = "put", ![c].version = 1, ![c].at = 1]
     /\ Static /\ UNCHANGED <<rows, objects, jobs, used>>

(* The document a handler works on: its id is derived from the idempotency key. *)
Document(c) ==
  IF c = Startup THEN SeedDocs[handler[c].at]
  ELSE [id |-> <<Call[c].key, IF Call[c].op = "intake" THEN handler[c].at ELSE 0>>,
        file |-> Call[c].files[handler[c].at]]

Bytes(c) == <<handler[c].case, Document(c).id, Document(c).file>>

(* What storage.put leaves: an object is never overwritten (IfNoneMatch). *)
(* Mutant: the result of storage.put is not looked at. *)
PutIgnored(c) ==
  \/ objects' = objects \cup {Bytes(c)} /\ Goto(c, "record") /\ UNCHANGED used
  \/ Use("faults", MaxFaults) /\ Goto(c, "record") /\ UNCHANGED objects

PutObject(c) ==
  \/ /\ Bytes(c) \notin objects
     /\ objects' = objects \cup {Bytes(c)} /\ Goto(c, "record") /\ UNCHANGED used
  \/ Bytes(c) \in objects /\ Refused(c) /\ UNCHANGED <<objects, used>>
  \/ Use("faults", MaxFaults) /\ Refused(c) /\ UNCHANGED objects

Put(c) ==
  /\ Serving /\ handler[c].pc = "put" /\ PutObject(c)
  /\ Static /\ NotUpdated /\ UNCHANGED <<rows, jobs>>

(* The row of a document is inserted once: its id is the primary key. *)
RecordDocument(c) ==
  LET row == <<handler[c].case, Document(c).id>>
      h == [handler[c] EXCEPT !.docs = Append(@, Document(c)), !.at = @ + 1]
  IN /\ Serving /\ handler[c].pc = "record"
     /\ IF row \in rows THEN Refused(c) /\ UNCHANGED rows
        ELSE /\ rows' = rows \cup {row}
             /\ handler' = [handler EXCEPT ![c] =
                              [h EXCEPT !.pc = IF h.at <= Len(Call[c].files) THEN "put" ELSE "save"]]
     /\ Static /\ NotUpdated /\ UNCHANGED <<objects, jobs, used>>

(* Mutant: a case is saved whatever version it has. *)
UnchangedAnyway(c) == TRUE

Unchanged(c) == cases[handler[c].case].version = handler[c].version

(* The documents are listed: the case is written as the handler holds it, one version further
   for every document it touched the case for. *)
Save(c) ==
  LET id == handler[c].case
      intake == Call[c].op = "intake"
  IN /\ Serving /\ handler[c].pc = "save"
     /\ IF Unchanged(c)
        THEN /\ Write(id, [cases[id] EXCEPT !.docs = handler[c].docs,
                              !.version = handler[c].version + Len(Call[c].files)])
             /\ IF intake THEN Goto(c, "process") ELSE Answered(c, id)
        ELSE Refused(c) /\ NotUpdated
     /\ Static /\ UNCHANGED <<rows, objects, jobs, used>>

(* process: the job is created and queued (failed when the queue is not there), then the case is
   touched if nobody wrote it since. *)
Process(c) ==
  LET id == handler[c].case
      Job(status) == jobs' = With(jobs, <<id, Call[c].key>>, status)
  IN /\ Serving /\ handler[c].pc = "process"
     /\ \/ /\ Job("queued") /\ UNCHANGED used
           /\ handler' = [handler EXCEPT ![c].pc = "announce", ![c].version = cases[id].version]
        \/ Use("faults", MaxFaults) /\ Job("failed") /\ Refused(c)
     /\ Static /\ NotUpdated /\ UNCHANGED <<rows, objects>>

Announce(c) ==
  LET id == handler[c].case
  IN /\ Serving /\ handler[c].pc = "announce"
     /\ IF Unchanged(c)
        THEN Write(id, [cases[id] EXCEPT !.version = @ + 1]) /\ Answered(c, id)
        ELSE Refused(c) /\ NotUpdated
     /\ Static /\ UNCHANGED <<rows, objects, jobs, used>>

(* onModuleInit: the seeded case is inserted with its documents listed, unless it is there;
   then every document without a row is stored and recorded. *)
(* Mutant: documents that have a row are stored again. *)
AllOfThem == DOMAIN SeedDocs

Unrecorded == {i \in DOMAIN SeedDocs : <<SeedCase, SeedDocs[i].id>> \notin rows}

Seeding == deployment = "production" /\ api = "seeding"

(* The next of these documents, in the order of the list, and then the case. *)
SeedNext(missing) ==
  handler' = [handler EXCEPT ![Startup] =
    [Resting EXCEPT !.case = SeedCase, !.pc = IF missing = {} THEN "save" ELSE "put",
                    !.at = IF missing = {} THEN 0 ELSE Min(missing)]]

Seed ==
  /\ Seeding /\ handler[Startup].pc = "idle"
  /\ IF SeedCase \in DOMAIN cases THEN NotUpdated ELSE Write(SeedCase, ReviewedCase(SeedDocs))
  /\ SeedNext(Unrecorded)
  /\ Static /\ UNCHANGED <<rows, objects, jobs, used>>

(* A document that cannot be stored, or is stored already, fails the start. *)
SeedPut ==
  /\ Seeding /\ handler[Startup].pc = "put" /\ PutObject(Startup)
  /\ api' = IF handler'[Startup].pc = "failed" THEN "stuck" ELSE api
  /\ UNCHANGED <<deployment, answers, desk, rows, jobs>> /\ NotUpdated

SeedRecord ==
  LET h == handler[Startup]
  IN /\ Seeding /\ h.pc = "record"
     /\ rows' = rows \cup {<<SeedCase, Document(Startup).id>>}
     /\ SeedNext(Unrecorded \ {h.at})
     /\ Static /\ NotUpdated /\ UNCHANGED <<objects, jobs, used>>

(* Documents a newer release seeds are added to a case that was there; its version stays. *)
SeedSave ==
  LET listed == {cases[SeedCase].docs[i].id : i \in DOMAIN cases[SeedCase].docs}
      additions == {SeedDocs[i] : i \in {k \in DOMAIN SeedDocs : SeedDocs[k].id \notin listed}}
  IN /\ Seeding /\ handler[Startup].pc = "save"
     /\ IF additions = {} THEN NotUpdated
        ELSE Write(SeedCase, [cases[SeedCase] EXCEPT !.docs = @ \o SetToSeq(additions)])
     /\ api' = "serving" /\ handler' = [handler EXCEPT ![Startup] = Resting]
     /\ UNCHANGED <<deployment, answers, desk, rows, objects, jobs, used>>

(* The API process dies between two calls; the next start seeds before it serves. *)
Crash ==
  /\ deployment = "production" /\ Use("crashes", MaxCrashes)
  /\ api' = "seeding"
  /\ handler' = [c \in DOMAIN handler |->
                   IF c = Startup THEN Resting
                   ELSE IF handler[c].pc \in {"idle", "answered"} THEN handler[c]
                   ELSE [Resting EXCEPT !.pc = "failed"]]
  /\ UNCHANGED <<deployment, rows, objects, jobs, answers, desk>> /\ NotUpdated

-----------------------------------------------------------------------------
(* The demo service (apps/api/src/cases.service.ts): nothing survives the process, and a        *)
(* handler runs to its end but for the validation it awaits.                                   *)

Demo == deployment = "demo"

Request(c) == <<Call[c].op, Call[c].key, Call[c].to>>

Replayed(c) == Request(c) \in DOMAIN answers

(* Mutant: an answer is not kept. *)
Forget(c, id) == UNCHANGED answers

Remember(c, id) == answers' = With(answers, Request(c), id)

(* A new case or document has an id of its own (a ULID), whatever the key. *)
NewId(key, taken) == <<key, CHOOSE n \in 0..Cardinality(taken) : <<key, n>> \notin taken>>
Mint(key) == NewId(key, DOMAIN cases)

DemoCreate(c) ==
  /\ Demo /\ handler[c].pc = "sent" /\ Call[c].op = "create"
  /\ IF Replayed(c) THEN Answered(c, answers[Request(c)]) /\ NotUpdated /\ UNCHANGED answers
     ELSE LET id == Mint(Call[c].key)
          IN Write(id, NewCase(<<>>)) /\ Answered(c, id) /\ Remember(c, id)
  /\ UNCHANGED <<deployment, api, rows, objects, jobs, desk, used>>

(* An intake looks for an earlier answer once its files are validated, an upload before. *)
DemoReceive(c) ==
  LET upload == Call[c].op = "upload"
  IN /\ Demo /\ handler[c].pc = "sent" /\ Call[c].op # "create"
     /\ IF upload /\ Call[c].to \notin DOMAIN cases THEN Refused(c)
        ELSE IF upload /\ Replayed(c) THEN Answered(c, Call[c].to)
        ELSE IF Accepted(c) THEN Goto(c, "validated")
        ELSE Refused(c)
     /\ Static /\ NotUpdated /\ UNCHANGED <<rows, objects, jobs, used>>

DemoIntake(c) ==
  LET id == Mint(Call[c].key)
      docs == [i \in DOMAIN Call[c].files |-> [id |-> <<Call[c].key, i>>, file |-> Call[c].files[i]]]
  IN /\ Demo /\ handler[c].pc = "validated" /\ Call[c].op = "intake"
     /\ IF Replayed(c)
        THEN /\ Answered(c, answers[Request(c)])
             /\ UNCHANGED <<objects, jobs, answers>> /\ NotUpdated
        ELSE /\ Write(id, [NewCase(docs) EXCEPT !.version = 2])
             /\ objects' = objects \cup {<<id, docs[i].id, docs[i].file>> : i \in DOMAIN docs}
             /\ jobs' = With(jobs, <<id, Call[c].key>>, "queued")
             /\ Answered(c, id) /\ Remember(c, id)
     /\ UNCHANGED <<deployment, api, rows, desk, used>>

Touched(id, record) == Write(id, [record EXCEPT !.version = @ + 1])

DemoUpload(c) ==
  LET id == Call[c].to
      taken == {cases[id].docs[i].id : i \in DOMAIN cases[id].docs}
      doc == [id |-> NewId(Call[c].key, taken), file |-> Call[c].files[1]]
  IN /\ Demo /\ handler[c].pc = "validated" /\ Call[c].op = "upload"
     /\ Touched(id, [cases[id] EXCEPT !.docs = Append(@, doc)])
     /\ objects' = objects \cup {<<id, doc.id, doc.file>>}
     /\ Answered(c, id) /\ Remember(c, id)
     /\ UNCHANGED <<deployment, api, rows, jobs, desk, used>>

(* The reviewer's calls.  The seeded case has a fact and an open material finding. *)
Edit(id) == Demo /\ id \in DOMAIN cases /\ Use("edits", MaxEdits)

Kept == UNCHANGED <<deployment, api, rows, objects, handler, answers>>

Look(id) ==
  /\ Edit(id)
  /\ desk' = [case |-> id, version |-> cases[id].version, docs |-> cases[id].docs,
              open |-> cases[id].open]
  /\ Kept /\ NotUpdated /\ UNCHANGED jobs

CorrectFact(id) ==
  Edit(id) /\ id = SeedCase /\ Touched(id, cases[id]) /\ Kept /\ UNCHANGED <<jobs, desk>>

ResolveFinding(id) ==
  /\ Edit(id) /\ cases[id].open > 0
  /\ Touched(id, [cases[id] EXCEPT !.open = @ - 1]) /\ Kept /\ UNCHANGED <<jobs, desk>>

(* A decision on the version the reviewer saw; on another it is refused. *)
(* Mutant: a decision is taken on any version. *)
FreshAnyway(id) == desk.case = id

Fresh(id) == desk.case = id /\ desk.version = cases[id].version

(* Mutant: an approval does not look at the findings. *)
MayDecideAnyway(id, outcome) == TRUE

MayDecide(id, outcome) == outcome = "approved" => cases[id].open = 0

Decide(id, outcome) ==
  /\ Edit(id) /\ Fresh(id) /\ MayDecide(id, outcome)
  /\ Touched(id, [cases[id] EXCEPT !.status = outcome]) /\ Kept /\ UNCHANGED <<jobs, desk>>

(* process under a key of its own: once per case and key, a job and a touch. *)
Queue(id, key, record) ==
  IF <<id, key>> \in DOMAIN jobs
  THEN UNCHANGED jobs /\ (IF record = cases[id] THEN NotUpdated ELSE Write(id, record))
  ELSE jobs' = With(jobs, <<id, key>>, "queued") /\ Touched(id, record)

ReEvaluate(id) ==
  /\ Edit(id)
  /\ Queue(id, "rules", [cases[id] EXCEPT !.status = "needs_review", !.version = @ + 1])
  /\ Kept /\ UNCHANGED desk

Reprocess(id) == Edit(id) /\ Queue(id, "pack", cases[id]) /\ Kept /\ UNCHANGED desk

CancelJob(j) ==
  /\ Edit(j[1]) /\ jobs[j] = "queued" /\ jobs' = [jobs EXCEPT ![j] = "cancelled"]
  /\ Kept /\ NotUpdated /\ UNCHANGED desk

-----------------------------------------------------------------------------
Next ==
  \/ \E c \in Calls :
       \/ Send(c) \/ Receive(c) \/ Insert(c) \/ Put(c) \/ RecordDocument(c) \/ Save(c)
       \/ Process(c) \/ Announce(c)
       \/ DemoCreate(c) \/ DemoReceive(c) \/ DemoIntake(c) \/ DemoUpload(c)
  \/ Seed \/ SeedPut \/ SeedRecord \/ SeedSave \/ Crash \/ ReadPage
  \/ \E id \in DOMAIN cases :
       \/ Look(id) \/ CorrectFact(id) \/ ResolveFinding(id) \/ ReEvaluate(id) \/ Reprocess(id)
       \/ \E outcome \in {"approved", "rejected", "request_information"} : Decide(id, outcome)
  \/ \E j \in DOMAIN jobs : CancelJob(j)

Spec == Init /\ [][Next]_vars

Listed(id) == ToSet(cases[id].docs)

(* Every case of the list exists once; a document id names one file of a case. *)
TypeOK ==
  /\ api \in {"seeding", "serving", "stuck"}
  /\ rows \subseteq DocumentRow
  /\ ToSet(order) = DOMAIN cases /\ IsInjective(order)
  /\ \A id \in DOMAIN cases : IsInjective([i \in DOMAIN cases[id].docs |-> cases[id].docs[i].id])
  /\ \A j \in DOMAIN jobs : j[1] \in DOMAIN cases

(* A document a case lists has its bytes in storage and its row in the database, however the    *)
(* requests interleave and wherever the API died: put, recordDocument and save come in this     *)
(* order, and a failed one ends the request.  The seeded case lists its documents first.        *)
ListedIsStored ==
  \A id \in DOMAIN cases : \A d \in Listed(id) :
    \/ id = SeedCase /\ d \in ToSet(SeedDocs) /\ (deployment = "demo" \/ api # "serving")
    \/ /\ <<id, d.id, d.file>> \in objects
       /\ deployment = "production" => <<id, d.id>> \in rows

(* No write takes a document out of a case: an upload, an intake and the seed of a newer        *)
(* release that were served from an older copy of the case are refused instead.                 *)
DocumentsStay == [][\A id \in DOMAIN cases : Listed(id) \subseteq ToSet(cases'[id].docs)]_vars

(* Evidence that reached a case passed validation: nothing infected, encrypted or corrupt, and  *)
(* the bytes are of the declared type, in a batch as well as alone.                             *)
OnlyCleanEvidence ==
  \A id \in DOMAIN cases : \A d \in Listed(id) \ ToSet(SeedDocs) :
    LET f == File[d.file]
    IN /\ f.scan = "clean" /\ f.bytes = "some" /\ ~f.corrupt /\ ~f.encrypted
       /\ f.signature = f.declared \/ f.declared = "text"

(* An idempotency key of an intake or a create names one case and one job, whatever was sent    *)
(* twice, at once or again after an error or a crash.                                           *)
OncePerKey ==
  \A c \in Calls : Call[c].op # "upload" =>
    /\ Cardinality({id \in DOMAIN cases : id[1] = Call[c].key}) <= 1
    /\ Cardinality({j \in DOMAIN jobs : j[2] = Call[c].key}) <= 1

(* A client that follows the cursor to the end has seen every case that was there when it began *)
(* and was not written meanwhile, though others moved to the front of the list.                 *)
UntouchedAreListed == reader.pc = "done" => reader.watch \subseteq reader.seen

(* A start repeats: it fails only when storage failed or an earlier start died after it had     *)
(* stored a document and before it had recorded it.                                             *)
SeedIsRepeatable ==
  api = "stuck" /\ used.faults = 0 =>
    \E o \in objects : o[1] = SeedCase /\ <<o[1], o[2]>> \notin rows

(* An approved case has no open material finding, in the demo as in production. *)
ApprovedIsResolved ==
  \A id \in DOMAIN cases : cases[id].status = "approved" => cases[id].open = 0

(* A decision is on what its reviewer saw: every call that changes the documents or the findings *)
(* of a case also moves its version on.                                                          *)
DecidedOnWhatWasSeen ==
  [][\A id \in DOMAIN cases :
       cases'[id].status \in {"approved", "rejected", "request_information"} \ {cases[id].status} =>
         cases[id].docs = desk.docs /\ cases[id].open = desk.open]_vars

(* What a case lists exists, was clean when it was accepted, and an approved case is resolved,  *)
(* whichever service wrote it.                                                                  *)
CasesAreSound == TypeOK /\ ListedIsStored /\ OnlyCleanEvidence /\ ApprovedIsResolved

(* Sent again, or started again, a request has its effect once. *)
RepeatsAreHarmless == OncePerKey /\ SeedIsRepeatable
=============================================================================
