---------------------------- MODULE CaseApiProofs ----------------------------
(***************************************************************************)
(* Proofs about the case API: for any number of clients, calls, files and  *)
(* pages, however often anyone repeats a call, wherever the process dies   *)
(* and whichever calls to storage fail.                                    *)
(***************************************************************************)
EXTENDS CaseApi, ListLemmas

Files == DOMAIN File
Keys == {Call[c].key : c \in Calls}
Docs == [id : Ids, file : Files]
Records == [version : Nat \ {0}, docs : Seq(Docs), open : Nat,
            status : {"processing", "needs_review", "approved", "rejected", "request_information"}]
CallSteps == {"insert", "put", "record", "save", "process", "announce"}
Handlers == [pc : CallSteps \cup {"idle", "sent", "validated", "answered", "failed"},
             case : Ids \cup {NoCase}, version : Nat, docs : Seq(Docs), at : Nat]

\* The case, the document and the service a handler is at: what it has checked before, and what
\* it leaves to be done.  d and a are the deployment and the phase of the process, known the cases.
CallAt(c, h, d, a, known) ==
    /\ h.pc \in CallSteps => d = "production" /\ a = "serving" /\ Accepted(c)
    /\ h.pc \in {"sent", "insert"} => h.docs = <<>>
    /\ h.pc = "insert" => Call[c].op # "upload" /\ h.case = <<Call[c].key, 0>>
    /\ h.pc \in CallSteps \ {"insert"} =>
         /\ Call[c].op # "create" /\ h.case \in known
         /\ Call[c].op = "intake" => h.case = <<Call[c].key, 0>>
    /\ h.pc \in {"put", "record"} => h.at \in 1..Len(Call[c].files)
    /\ h.pc \in {"process", "announce"} => Call[c].op = "intake"
    /\ h.pc = "validated" =>
         /\ d = "demo" /\ Accepted(c) /\ Call[c].op # "create"
         /\ Call[c].op = "upload" => Call[c].to \in known

\* The same of a start: the row of the document it stores is not there.
StartAt(h, d, a, known, unrecorded) ==
    /\ h.pc \in {"idle", "put", "record", "save", "failed"}
    /\ h.pc \in {"put", "record", "save"} =>
         d = "production" /\ a = "seeding" /\ h.case = SeedCase /\ SeedCase \in known
    /\ h.pc \in {"put", "record"} => h.at \in unrecorded
    /\ h.pc = "save" => unrecorded = {}

CasesTyped ==
    /\ DOMAIN cases \subseteq Ids /\ IsFiniteSet(DOMAIN cases)
    /\ \A id \in DOMAIN cases : cases[id] \in Records

HandlersTyped ==
    /\ handler \in [Calls \cup {Startup} -> Handlers]
    /\ \A c \in Calls : CallAt(c, handler[c], deployment, api, DOMAIN cases)
    /\ StartAt(handler[Startup], deployment, api, DOMAIN cases, Unrecorded)

TypedInv ==
    /\ deployment \in {"demo", "production"} /\ api \in {"seeding", "serving", "stuck"}
    /\ deployment = "demo" => api = "serving"
    /\ CasesTyped /\ HandlersTyped
    /\ rows \subseteq DocumentRow
    /\ DOMAIN jobs \subseteq (DOMAIN cases) \X (Keys \cup {"rules", "pack"})
    /\ \A r \in DOMAIN answers : answers[r] \in DOMAIN cases
    /\ desk \in [case : Ids \cup {NoCase}, version : Nat, docs : Seq(Docs), open : Nat]
    /\ used \in [sends : [Calls -> Nat], crashes : Nat, faults : Nat, edits : Nat]

-----------------------------------------------------------------------------
(* The list and the client that pages through it. *)

\* What the client has still to see lies behind its cursor.
ReaderInv ==
    /\ reader \in [pc : {"off", "paging", "done"}, cursor : Ids \cup {NoCase},
                   seen : SUBSET Ids, watch : SUBSET DOMAIN cases]
    /\ reader.pc = "off" => reader.cursor = NoCase /\ reader.watch = {}
    /\ reader.pc = "paging" =>
         /\ reader.cursor \in DOMAIN cases
         /\ \A i, k \in DOMAIN order :
              order[i] = reader.cursor /\ order[k] \in reader.watch \ reader.seen => i < k
    /\ reader.pc = "done" => reader.watch \subseteq reader.seen

ListInv ==
    /\ order \in Seq(Ids) /\ IsInjective(order) /\ ToSet(order) = DOMAIN cases
    /\ ReaderInv

-----------------------------------------------------------------------------
(* The documents of the cases. *)

Clean(name) ==
    LET f == File[name]
    IN /\ f.scan = "clean" /\ f.bytes = "some" /\ ~f.corrupt /\ ~f.encrypted
       /\ f.signature = f.declared \/ f.declared = "text"

\* The documents of a list are told apart by their ids.
DistinctIds(docs) == \A i, j \in DOMAIN docs : docs[i].id = docs[j].id => i = j

Stored(id, d) ==
    /\ <<id, d.id, d.file>> \in objects
    /\ deployment = "production" => <<id, d.id>> \in rows

\* A document of the seed may be listed before it is stored.
Listable(id, d) ==
    \/ id = SeedCase /\ d \in ToSet(SeedDocs) /\ (deployment = "demo" \/ api # "serving")
    \/ Stored(id, d)

DocsSound(id, docs) ==
    /\ DistinctIds(docs)
    /\ \A d \in ToSet(docs) : Listable(id, d) /\ (d \in ToSet(SeedDocs) \/ Clean(d.file))

\* A handler that will write the case holds all the documents of the version it has read.
HeldSound(c) ==
    LET h == handler[c]
    IN /\ h.pc \in {"put", "record", "save"} =>
            /\ DocsSound(h.case, h.docs)
            /\ h.version <= cases[h.case].version
            /\ h.version = cases[h.case].version => Listed(h.case) \subseteq ToSet(h.docs)
       /\ h.pc = "record" => Bytes(c) \in objects

\* A document of the seed that has its row is stored.
SeedStored ==
    /\ handler[Startup].pc = "record" => Bytes(Startup) \in objects
    /\ \A i \in DOMAIN SeedDocs \ Unrecorded : <<SeedCase, SeedDocs[i].id, SeedDocs[i].file>> \in objects

DocsInv ==
    /\ \A id \in DOMAIN cases : DocsSound(id, cases[id].docs)
    /\ \A c \in Calls : HeldSound(c)
    /\ SeedStored

-----------------------------------------------------------------------------
(* The reviewer's desk. *)

\* A case that is still at the version on the desk has the documents and the findings it shows.
DeskInv ==
    /\ desk.case \in DOMAIN cases \cup {NoCase}
    /\ deployment = "production" => desk.case = NoCase
    /\ desk.case # NoCase =>
         /\ desk.version <= cases[desk.case].version
         /\ desk.version = cases[desk.case].version =>
              desk.docs = cases[desk.case].docs /\ desk.open = cases[desk.case].open

-----------------------------------------------------------------------------
(* Keys. *)

\* The id of a case tells the request it was made for: it is derived from the key, or, in the
\* demo, it is the answer that is kept for the request.
KeysInv ==
    /\ deployment = "production" => \A id \in DOMAIN cases : id[2] = 0
    /\ deployment = "demo" =>
         \A id \in DOMAIN cases :
           id = SeedCase \/ \E r \in DOMAIN answers : answers[r] = id /\ r[2] = id[1] /\ r[1] # "upload"
    /\ DOMAIN answers \subseteq {Request(c) : c \in Calls}
    /\ \A j \in DOMAIN jobs : j[2] \in {"rules", "pack"} \/ j[1][1] = j[2]

-----------------------------------------------------------------------------
(* The constants, and how a case and a handler are written. *)

LEMMA IdsFacts ==
    /\ SeedCase \in Ids /\ NoCase \notin Ids /\ Startup \notin Calls
    /\ \A c \in Calls : \A n \in Nat : <<Call[c].key, n>> \in Ids
    /\ \A n \in Nat : <<"seed", n>> \in Ids
    /\ \A c \in Calls : Call[c].key # "seed"
BY KeyAssumption, CallAssumption DEF Ids, SeedCase, NoCase, Startup

LEMMA SeedTyped ==
    /\ SeedDocs \in Seq(Docs) /\ DOMAIN SeedDocs = 1..Len(SeedFiles) /\ Len(SeedFiles) \in Nat
    /\ \A i \in DOMAIN SeedDocs : SeedDocs[i].id = <<"seed", i>> /\ SeedDocs[i] \in Docs
<1>1. SeedFiles \in Seq(Files) /\ Len(SeedFiles) \in Nat
  BY FileAssumption DEF Files
<1>2. ASSUME NEW i \in 1..Len(SeedFiles)
      PROVE  [id |-> <<"seed", i>>, file |-> SeedFiles[i]] \in Docs
  BY <1>1, IdsFacts DEF Docs
<1>3. DOMAIN SeedFiles = 1..Len(SeedFiles)
  BY <1>1
<1>4. SeedDocs = [i \in 1..Len(SeedFiles) |-> [id |-> <<"seed", i>>, file |-> SeedFiles[i]]]
  BY <1>3 DEF SeedDocs
<1>5. SeedDocs \in Seq(Docs)
  BY <1>1, <1>2, <1>4
<1> QED  BY <1>2, <1>4, <1>5

LEMMA RestingTyped ==
    /\ Resting \in Handlers
    /\ \A id \in Ids \cup {NoCase} : [Resting EXCEPT !.pc = "answered", !.case = id] \in Handlers
    /\ [Resting EXCEPT !.pc = "failed"] \in Handlers /\ [Resting EXCEPT !.pc = "sent"] \in Handlers
<1>1. <<>> \in Seq(Docs)
  OBVIOUS
<1> QED  BY <1>1 DEF Resting, Handlers, NoCase, CallSteps

LEMMA WriteTyped ==
    ASSUME CasesTyped, NEW id \in Ids, NEW record \in Records, Write(id, record)
    PROVE  /\ CasesTyped' /\ DOMAIN cases' = DOMAIN cases \cup {id}
           /\ cases'[id] = record
           /\ \A x \in DOMAIN cases : x # id => cases'[x] = cases[x]
<1>1. cases' = [x \in DOMAIN cases \cup {id} |-> IF x = id THEN record ELSE cases[x]]
  BY DEF Write, With
<1>2. IsFiniteSet(DOMAIN cases \cup {id})
  BY FS_AddElement DEF CasesTyped
<1> QED  BY <1>1, <1>2 DEF CasesTyped

\* The handler of a call goes on; the others stay where they are, as a case is never taken away.
LEMMA OneHandler ==
    ASSUME TypedInv, NEW c \in Calls, NEW h \in Handlers,
           handler' = [handler EXCEPT ![c] = h], UNCHANGED <<deployment, api>>,
           DOMAIN cases \subseteq DOMAIN cases',
           CallAt(c, h, deployment, api, DOMAIN cases'),
           UNCHANGED rows \/ api = "serving"
    PROVE  HandlersTyped'
<1>1. handler' \in [Calls \cup {Startup} -> Handlers]
  BY DEF TypedInv, HandlersTyped
<1>2. ASSUME NEW d \in Calls
      PROVE  CallAt(d, handler'[d], deployment, api, DOMAIN cases')
  <2>1. CASE d = c
    BY <2>1 DEF TypedInv, HandlersTyped
  <2>2. CASE d # c
    <3>1. handler'[d] = handler[d] /\ CallAt(d, handler[d], deployment, api, DOMAIN cases)
      BY <2>2 DEF TypedInv, HandlersTyped
    <3> QED  BY <3>1 DEF CallAt
  <2> QED  BY <2>1, <2>2
<1>3. StartAt(handler'[Startup], deployment, api, DOMAIN cases', Unrecorded')
  <2>1. handler'[Startup] = handler[Startup]
    BY IdsFacts DEF TypedInv, HandlersTyped
  <2>2. StartAt(handler[Startup], deployment, api, DOMAIN cases, Unrecorded)
    BY DEF TypedInv, HandlersTyped
  <2>3. CASE UNCHANGED rows
    <3>1. Unrecorded' = Unrecorded
      BY <2>3 DEF Unrecorded
    <3> QED  BY <2>1, <2>2, <3>1 DEF StartAt
  <2>4. CASE api = "serving"
    BY <2>1, <2>2, <2>4 DEF StartAt
  <2> QED  BY <2>3, <2>4
<1> QED  BY <1>1, <1>2, <1>3 DEF HandlersTyped

\* No handler moves.
LEMMA SameHandlers ==
    ASSUME TypedInv, UNCHANGED <<handler, deployment, api, rows>>, DOMAIN cases \subseteq DOMAIN cases'
    PROVE  HandlersTyped'
<1>1. Unrecorded' = Unrecorded
  BY DEF Unrecorded
<1>2. ASSUME NEW d \in Calls
      PROVE  CallAt(d, handler'[d], deployment, api, DOMAIN cases')
  BY DEF TypedInv, HandlersTyped, CallAt
<1>3. StartAt(handler'[Startup], deployment, api, DOMAIN cases', Unrecorded')
  BY <1>1 DEF TypedInv, HandlersTyped, StartAt
<1> QED  BY <1>2, <1>3 DEF TypedInv, HandlersTyped

\* A call is answered or refused.
LEMMA HandlerEnds ==
    ASSUME TypedInv, NEW c \in Calls, NEW id \in Ids \cup {NoCase}, Answered(c, id) \/ Refused(c),
           UNCHANGED <<deployment, api>>, DOMAIN cases \subseteq DOMAIN cases',
           UNCHANGED rows \/ api = "serving"
    PROVE  HandlersTyped'
<1>1. CASE Answered(c, id)
  <2>1. PICK h \in Handlers : h = [Resting EXCEPT !.pc = "answered", !.case = id]
    BY RestingTyped
  <2>2. h.pc = "answered"
    BY <2>1 DEF Resting
  <2>3. CallAt(c, h, deployment, api, DOMAIN cases')
    BY <2>2 DEF CallAt, CallSteps
  <2> QED  BY <1>1, <2>1, <2>3, OneHandler DEF Answered
<1>2. CASE Refused(c)
  <2>1. PICK h \in Handlers : h = [Resting EXCEPT !.pc = "failed"]
    BY RestingTyped
  <2>2. h.pc = "failed"
    BY <2>1 DEF Resting
  <2>3. CallAt(c, h, deployment, api, DOMAIN cases')
    BY <2>2 DEF CallAt, CallSteps
  <2> QED  BY <1>2, <2>1, <2>3, OneHandler DEF Refused
<1> QED  BY <1>1, <1>2

LEMMA SendTyped ==
    ASSUME TypedInv, NEW c \in Calls, Send(c)
    PROVE  TypedInv'
<1>1. PICK h \in Handlers : h = [Resting EXCEPT !.pc = "sent"]
  BY RestingTyped
<1>2. h.pc = "sent" /\ h.docs = <<>>
  BY <1>1 DEF Resting
<1>3. CallAt(c, h, deployment, api, DOMAIN cases')
  BY <1>2 DEF CallAt, CallSteps
<1>4. HandlersTyped'
  BY <1>1, <1>3, OneHandler DEF Send, NotUpdated
<1>5. used' \in [sends : [Calls -> Nat], crashes : Nat, faults : Nat, edits : Nat]
  <2>1. PICK n \in Nat : n = used.sends[c] + 1
    BY DEF TypedInv
  <2> QED  BY <2>1 DEF Send, TypedInv
<1> QED  BY <1>4, <1>5 DEF Send, NotUpdated, TypedInv, CasesTyped

LEMMA UseTyped ==
    ASSUME TypedInv, NEW b \in {"crashes", "faults", "edits"}, NEW max, Use(b, max)
    PROVE  /\ used' \in [sends : [Calls -> Nat], crashes : Nat, faults : Nat, edits : Nat]
           /\ used'[b] # 0 /\ (b # "faults" => used'.faults = used.faults)
<1>1. used[b] \in Nat
  BY DEF TypedInv
<1>2. PICK n \in Nat : n = used[b] + 1 /\ n # 0
  BY <1>1
<1> QED  BY <1>2 DEF Use, TypedInv

\* The case an intake makes, and the case an upload goes to.
LEMMA ReceiveTyped ==
    ASSUME TypedInv, NEW c \in Calls, Receive(c)
    PROVE  TypedInv'
<1> SUFFICES HandlersTyped'
  BY DEF Receive, Static, NotUpdated, TypedInv, CasesTyped
<1> DEFINE id == <<Call[c].key, 0>>
<1>1. id \in Ids /\ handler[c] \in Handlers /\ handler[c].pc = "sent"
  BY IdsFacts DEF Receive, Static, NotUpdated, TypedInv, HandlersTyped
<1>f. /\ UNCHANGED deployment /\ UNCHANGED api /\ UNCHANGED rows /\ UNCHANGED <<deployment, api>>
      /\ UNCHANGED cases /\ DOMAIN cases \subseteq DOMAIN cases'
  BY DEF Receive, Static, NotUpdated
<1>2. CASE Refused(c)
  BY <1>2, <1>f, HandlerEnds
<1>3. CASE Answered(c, id)
  BY <1>1, <1>3, <1>f, HandlerEnds
<1>4. CASE Accepted(c) /\ Call[c].op # "upload" /\ handler' = [handler EXCEPT ![c].pc = "insert", ![c].case = id]
  <2>1. PICK h \in [pc : {"insert"}, case : {id}, version : Nat, docs : Seq(Docs), at : Nat] :
          h = [handler[c] EXCEPT !.pc = "insert", !.case = id]
    BY <1>1 DEF Handlers
  <2>2. h.pc = "insert" /\ h.case = id /\ h.docs = handler[c].docs /\ h \in Handlers
    BY <1>1, <2>1 DEF Handlers, CallSteps
  <2>3. handler' = [handler EXCEPT ![c] = h]
    BY <1>4, <2>1 DEF TypedInv, HandlersTyped
  <2>4. CallAt(c, h, deployment, api, DOMAIN cases')
    BY <1>1, <1>4, <1>f, <2>2 DEF CallAt, CallSteps, TypedInv, HandlersTyped, Receive, Serving
  <2>5. HandlersTyped'
    BY <1>f, <2>2, <2>3, <2>4, OneHandler
  <2> QED  BY <2>5
<1>5. CASE Accepted(c) /\ Call[c].op = "upload" /\ Call[c].to \notin DOMAIN cases /\ Refused(c)
  BY <1>5, <1>f, HandlerEnds
<1>6. CASE Accepted(c) /\ Call[c].op = "upload" /\ Call[c].to \in DOMAIN cases /\ Answered(c, Call[c].to)
  <2>1. Call[c].to \in Ids
    BY <1>6 DEF TypedInv, CasesTyped
  <2> QED  BY <1>6, <1>f, <2>1, HandlerEnds
<1>7. CASE /\ Accepted(c) /\ Call[c].op = "upload" /\ Call[c].to \in DOMAIN cases
           /\ handler' = [handler EXCEPT ![c] =
                [pc |-> "put", case |-> Call[c].to, at |-> 1,
                 version |-> cases[Call[c].to].version, docs |-> cases[Call[c].to].docs]]
  <2>1. Call[c].to \in Ids /\ cases[Call[c].to] \in Records
    BY <1>7 DEF TypedInv, CasesTyped
  <2>2. PICK h : h = [pc |-> "put", case |-> Call[c].to, at |-> 1,
                      version |-> cases[Call[c].to].version, docs |-> cases[Call[c].to].docs]
    OBVIOUS
  <2>3. h \in Handlers /\ h.pc = "put" /\ h.case = Call[c].to /\ h.at = 1
    BY <2>1, <2>2 DEF Handlers, Records, CallSteps
  <2>4. Len(Call[c].files) = 1
    BY <1>7, FileAssumption
  <2>5. CallAt(c, h, deployment, api, DOMAIN cases')
    BY <1>1, <1>7, <1>f, <2>3, <2>4 DEF CallAt, CallSteps, Receive, Serving
  <2>6. handler' = [handler EXCEPT ![c] = h]
    BY <1>7, <2>2
  <2> QED  BY <1>f, <2>3, <2>5, <2>6, OneHandler
<1>8. CASE ~ Accepted(c)
  BY <1>2, <1>8 DEF Receive
<1>9. CASE Accepted(c) /\ Call[c].op # "upload"
  BY <1>3, <1>4, <1>9 DEF Receive
<1>10. CASE Accepted(c) /\ Call[c].op = "upload"
  BY <1>5, <1>6, <1>7, <1>10 DEF Receive
<1> QED  BY <1>8, <1>9, <1>10

Bounds == [sends : [Calls -> Nat], crashes : Nat, faults : Nat, edits : Nat]

\* What is left when the cases and the handlers are in order.
LEMMA RestTyped ==
    ASSUME TypedInv, CasesTyped', HandlersTyped', DOMAIN cases \subseteq DOMAIN cases',
           UNCHANGED <<deployment, api, jobs, answers, desk>>, rows' \subseteq DocumentRow,
           used' \in Bounds
    PROVE  TypedInv'
BY DEF TypedInv, Bounds

LEMMA NewCaseTyped ==
    ASSUME NEW docs \in Seq(Docs)
    PROVE  /\ NewCase(docs) \in Records /\ ReviewedCase(docs) \in Records
           /\ [NewCase(docs) EXCEPT !.version = 2] \in Records
BY DEF NewCase, ReviewedCase, Records

LEMMA InsertTyped ==
    ASSUME TypedInv, NEW c \in Calls, Insert(c)
    PROVE  TypedInv'
<1> DEFINE id == handler[c].case
<1>1. handler[c] \in Handlers /\ handler[c].pc = "insert" /\ CallAt(c, handler[c], deployment, api, DOMAIN cases)
  BY DEF Insert, TypedInv, HandlersTyped
<1>2. /\ Accepted(c) /\ Call[c].op # "upload" /\ id = <<Call[c].key, 0>> /\ id \in Ids
      /\ handler[c].docs = <<>> /\ deployment = "production" /\ api = "serving"
  BY <1>1, IdsFacts DEF CallAt, CallSteps
<1>f. /\ UNCHANGED <<deployment, api>> /\ UNCHANGED rows /\ UNCHANGED <<deployment, api, jobs, answers, desk>>
      /\ rows' \subseteq DocumentRow /\ used' \in Bounds
  BY DEF Insert, Static, TypedInv, Bounds
<1>3. CASE id \in DOMAIN cases
  <2>1. Answered(c, id) /\ UNCHANGED cases /\ CasesTyped' /\ DOMAIN cases \subseteq DOMAIN cases'
    BY <1>3 DEF Insert, NotUpdated, TypedInv, CasesTyped
  <2> QED  BY <1>2, <1>f, <2>1, HandlerEnds, RestTyped
<1>4. CASE id \notin DOMAIN cases
  <2>1. <<>> \in Seq(Docs)
    OBVIOUS
  <2>2. Write(id, NewCase(<<>>)) /\ NewCase(<<>>) \in Records /\ CasesTyped
    BY <1>4, <2>1, NewCaseTyped DEF Insert, TypedInv
  <2>3. CasesTyped' /\ DOMAIN cases' = DOMAIN cases \cup {id}
    BY <1>2, <2>2, WriteTyped
  <2>4. CASE Call[c].op = "create"
    <3>1. Answered(c, id)
      BY <1>4, <2>4 DEF Insert
    <3> QED  BY <1>2, <1>f, <2>3, <3>1, HandlerEnds, RestTyped
  <2>5. CASE Call[c].op # "create"
    <3>1. Call[c].op = "intake"
      BY <1>2, <2>5, CallAssumption
    <3>2. Len(Call[c].files) \in Nat /\ 0 < Len(Call[c].files)
      BY <1>2, <3>1, FileAssumption DEF Accepted, ValidateIntakeFiles
    <3>3. PICK h \in [pc : {"put"}, case : {id}, version : {1}, docs : {<<>>}, at : {1}] :
            h = [handler[c] EXCEPT !.pc = "put", !.version = 1, !.at = 1]
      BY <1>1, <1>2 DEF Handlers
    <3>4. handler' = [handler EXCEPT ![c].pc = "put", ![c].version = 1, ![c].at = 1]
      BY <1>4, <2>5 DEF Insert
    <3>5. handler' = [handler EXCEPT ![c] = h]
      BY <3>3, <3>4 DEF TypedInv, HandlersTyped
    <3>6. h \in Handlers
      BY <1>2, <2>1, <3>3 DEF Handlers, CallSteps
    <3>7. CallAt(c, h, deployment, api, DOMAIN cases')
      BY <1>2, <2>3, <3>1, <3>2, <3>3 DEF CallAt, CallSteps
    <3>8. HandlersTyped'
      BY <1>f, <2>3, <3>5, <3>6, <3>7, OneHandler
    <3> QED  BY <1>f, <2>3, <3>8, RestTyped
  <2> QED  BY <2>4, <2>5
<1> QED  BY <1>3, <1>4

\* What storage answers leaves the handler ready to record the document, or failed.
LEMMA PutTyped ==
    ASSUME TypedInv, NEW c \in Calls, Put(c)
    PROVE  TypedInv'
<1>1. handler[c] \in Handlers /\ handler[c].pc = "put" /\ CallAt(c, handler[c], deployment, api, DOMAIN cases)
  BY DEF Put, TypedInv, HandlersTyped
<1>f. /\ UNCHANGED <<deployment, api>> /\ UNCHANGED rows /\ UNCHANGED <<deployment, api, jobs, answers, desk>>
      /\ rows' \subseteq DocumentRow /\ CasesTyped' /\ DOMAIN cases \subseteq DOMAIN cases'
  BY DEF Put, Static, NotUpdated, TypedInv, CasesTyped
<1>2. used' \in Bounds
  <2>1. CASE UNCHANGED used
    BY <2>1 DEF TypedInv, Bounds
  <2>2. CASE Use("faults", MaxFaults)
    BY <2>2, UseTyped DEF Bounds
  <2> QED  BY <2>1, <2>2 DEF Put, PutObject
<1>3. CASE Refused(c)
  <2>1. NoCase \in Ids \cup {NoCase}
    OBVIOUS
  <2> QED  BY <1>3, <1>f, <1>2, <2>1, HandlerEnds, RestTyped
<1>4. CASE Goto(c, "record")
  <2>1. PICK h \in [pc : {"record"}, case : Ids \cup {NoCase}, version : Nat, docs : Seq(Docs), at : Nat] :
          h = [handler[c] EXCEPT !.pc = "record"]
    BY <1>1 DEF Handlers
  <2>2. h \in Handlers /\ h.case = handler[c].case /\ h.at = handler[c].at
    BY <1>1, <2>1 DEF Handlers, CallSteps
  <2>3. handler' = [handler EXCEPT ![c] = h]
    BY <1>4, <2>1 DEF Goto, TypedInv, HandlersTyped
  <2>4. CallAt(c, h, deployment, api, DOMAIN cases')
    BY <1>1, <1>f, <2>1, <2>2 DEF CallAt, CallSteps
  <2>5. HandlersTyped'
    BY <1>f, <2>2, <2>3, <2>4, OneHandler
  <2> QED  BY <1>2, <1>f, <2>5, RestTyped
<1> QED  BY <1>3, <1>4 DEF Put, PutObject

\* The document a handler is at.
LEMMA DocumentTyped ==
    ASSUME TypedInv, NEW c \in Calls, handler[c].pc \in {"put", "record"}
    PROVE  /\ Document(c) \in Docs /\ handler[c].case \in Ids /\ handler[c].at \in 1..Len(Call[c].files)
           /\ Document(c) = [id |-> <<Call[c].key, IF Call[c].op = "intake" THEN handler[c].at ELSE 0>>,
                             file |-> Call[c].files[handler[c].at]]
<1>1. CallAt(c, handler[c], deployment, api, DOMAIN cases) /\ handler[c] \in Handlers
  BY DEF TypedInv, HandlersTyped
<1>2. handler[c].at \in 1..Len(Call[c].files) /\ handler[c].case \in DOMAIN cases
  BY <1>1 DEF CallAt, CallSteps
<1>3. Call[c].files[handler[c].at] \in Files /\ handler[c].at \in Nat
  BY <1>2, FileAssumption DEF Files
<1>4. Document(c) = [id |-> <<Call[c].key, IF Call[c].op = "intake" THEN handler[c].at ELSE 0>>,
                     file |-> Call[c].files[handler[c].at]]
  BY IdsFacts DEF Document
<1>5. <<Call[c].key, IF Call[c].op = "intake" THEN handler[c].at ELSE 0>> \in Ids
  BY <1>3, IdsFacts
<1> QED  BY <1>2, <1>3, <1>4, <1>5 DEF Docs, TypedInv, CasesTyped

LEMMA RecordTyped ==
    ASSUME TypedInv, NEW c \in Calls, RecordDocument(c)
    PROVE  TypedInv'
<1>1. handler[c] \in Handlers /\ handler[c].pc = "record" /\ CallAt(c, handler[c], deployment, api, DOMAIN cases)
  BY DEF RecordDocument, TypedInv, HandlersTyped
<1>2. Document(c) \in Docs /\ handler[c].case \in Ids /\ handler[c].at \in 1..Len(Call[c].files)
  BY <1>1, DocumentTyped
<1>3. <<handler[c].case, Document(c).id>> \in DocumentRow
  BY <1>2 DEF Docs, DocumentRow
<1>f. /\ UNCHANGED <<deployment, api>> /\ api = "serving" /\ UNCHANGED <<deployment, api, jobs, answers, desk>>
      /\ rows' \subseteq DocumentRow /\ CasesTyped' /\ DOMAIN cases \subseteq DOMAIN cases'
      /\ used' \in Bounds
  BY <1>3 DEF RecordDocument, Static, Serving, NotUpdated, TypedInv, CasesTyped, Bounds
<1>4. CASE Refused(c)
  <2>1. NoCase \in Ids \cup {NoCase}
    OBVIOUS
  <2> QED  BY <1>4, <1>f, <2>1, HandlerEnds, RestTyped
<1>5. CASE <<handler[c].case, Document(c).id>> \notin rows
  <2>1. PICK n \in Nat : n = handler[c].at + 1 /\ n \in 2..(Len(Call[c].files) + 1)
    BY <1>2, FileAssumption
  <2>2. Append(handler[c].docs, Document(c)) \in Seq(Docs)
    BY <1>1, <1>2 DEF Handlers
  <2>p. PICK p \in {"put", "save"} : p = IF n <= Len(Call[c].files) THEN "put" ELSE "save"
    OBVIOUS
  <2>a. PICK g \in Handlers : g = [handler[c] EXCEPT !.docs = Append(@, Document(c)), !.at = @ + 1]
    BY <1>1, <2>1, <2>2 DEF Handlers
  <2>b. g.case = handler[c].case /\ g.at = n
    BY <1>1, <2>1, <2>a DEF Handlers
  <2>3. PICK h \in [pc : {"put", "save"}, case : Ids \cup {NoCase}, version : Nat, docs : Seq(Docs), at : Nat] :
          h = [g EXCEPT !.pc = p]
    BY <2>p, <2>a DEF Handlers
  <2>c. h.case = handler[c].case /\ h.at = n /\ (h.pc = "put" => n <= Len(Call[c].files))
    BY <2>p, <2>b, <2>3 DEF Handlers
  <2>4. h \in Handlers
    BY <2>3 DEF Handlers, CallSteps
  <2>5. handler' = [handler EXCEPT ![c] = h]
    BY <1>5, <2>p, <2>a, <2>b, <2>3 DEF RecordDocument
  <2>6. CallAt(c, h, deployment, api, DOMAIN cases')
    BY <1>1, <1>f, <2>1, <2>3, <2>c DEF CallAt, CallSteps
  <2>7. HandlersTyped'
    BY <1>f, <2>4, <2>5, <2>6, OneHandler
  <2> QED  BY <1>f, <2>7, RestTyped
<1> QED  BY <1>4, <1>5 DEF RecordDocument

\* An accepted intake or upload brings a file at least.
LEMMA FilesSent ==
    ASSUME NEW c \in Calls, Accepted(c), Call[c].op \in {"intake", "upload"}
    PROVE  Len(Call[c].files) \in Nat \ {0}
<1>1. Call[c].files \in Seq(Files) /\ (Call[c].op = "upload" => Len(Call[c].files) = 1)
  BY FileAssumption DEF Files
<1>2. Call[c].op = "intake" => ValidateIntakeFiles(Call[c].files)
  BY DEF Accepted
<1>3. Call[c].op = "intake" => 0 < Len(Call[c].files)
  BY <1>2 DEF ValidateIntakeFiles
<1>4. CASE Call[c].op = "intake"
  BY <1>1, <1>3, <1>4
<1>5. CASE Call[c].op = "upload"
  <2>1. Len(Call[c].files) = 1 /\ 1 \in Nat \ {0}
    BY <1>1, <1>5
  <2> QED  BY <2>1, Zenon
<1> QED  BY <1>4, <1>5

\* A handler that has the case as it read it leaves it one version further at least.
LEMMA SaveTyped ==
    ASSUME TypedInv, NEW c \in Calls, Save(c)
    PROVE  /\ TypedInv'
           /\ \/ NotUpdated
              \/ /\ cases[handler[c].case].version = handler[c].version
                 /\ Write(handler[c].case, [cases[handler[c].case] EXCEPT !.docs = handler[c].docs,
                            !.version = handler[c].version + Len(Call[c].files)])
                 /\ [cases[handler[c].case] EXCEPT !.docs = handler[c].docs,
                       !.version = handler[c].version + Len(Call[c].files)] \in Records
                 /\ handler[c].case \in DOMAIN cases
<1> DEFINE id == handler[c].case
<1>1. handler[c] \in Handlers /\ handler[c].pc = "save" /\ CallAt(c, handler[c], deployment, api, DOMAIN cases)
  BY DEF Save, TypedInv, HandlersTyped
<1>2. id \in DOMAIN cases /\ id \in Ids /\ cases[id] \in Records /\ Accepted(c) /\ Call[c].op \in {"intake", "upload"}
  BY <1>1, CallAssumption DEF CallAt, CallSteps, TypedInv, CasesTyped
<1>3. Len(Call[c].files) \in Nat \ {0}
  BY <1>2, FilesSent
<1>f. /\ UNCHANGED <<deployment, api>> /\ UNCHANGED rows /\ UNCHANGED <<deployment, api, jobs, answers, desk>>
      /\ rows' \subseteq DocumentRow /\ used' \in Bounds
  BY DEF Save, Static, TypedInv, Bounds
<1>4. CASE Refused(c) /\ NotUpdated
  <2>1. NoCase \in Ids \cup {NoCase} /\ CasesTyped' /\ UNCHANGED cases /\ DOMAIN cases \subseteq DOMAIN cases'
    BY <1>4 DEF NotUpdated, TypedInv, CasesTyped
  <2> QED  BY <1>4, <1>f, <2>1, HandlerEnds, RestTyped
<1>5. CASE Unchanged(c)
  <2>1. PICK n \in Nat \ {0} : n = handler[c].version + Len(Call[c].files)
    BY <1>1, <1>3 DEF Handlers
  <2>2. [cases[id] EXCEPT !.docs = handler[c].docs, !.version = n] \in Records
    BY <1>1, <1>2 DEF Records, Handlers
  <2>3. Write(id, [cases[id] EXCEPT !.docs = handler[c].docs, !.version = n]) /\ CasesTyped
    BY <1>5, <2>1 DEF Save, TypedInv
  <2>r. PICK record \in Records : record = [cases[id] EXCEPT !.docs = handler[c].docs, !.version = n]
    BY <2>2
  <2>4. CasesTyped' /\ DOMAIN cases' = DOMAIN cases \cup {id}
    BY <1>2, <2>r, <2>3, WriteTyped
  <2>5. CASE Answered(c, id)
    <3>1. HandlersTyped'
      BY <1>2, <1>f, <2>4, <2>5, HandlerEnds
    <3> QED  BY <1>2, <1>5, <1>f, <2>1, <2>2, <2>3, <2>4, <3>1, RestTyped DEF Unchanged
  <2>6. CASE Call[c].op = "intake" /\ Goto(c, "process")
    <3>1. PICK h \in [pc : {"process"}, case : {id}, version : Nat, docs : Seq(Docs), at : Nat] :
            h = [handler[c] EXCEPT !.pc = "process"]
      BY <1>1 DEF Handlers
    <3>2. handler' = [handler EXCEPT ![c] = h]
      BY <2>6, <3>1 DEF Goto, TypedInv, HandlersTyped
    <3>3. h \in Handlers /\ h.case = id
      BY <1>2, <3>1 DEF Handlers, CallSteps
    <3>4. CallAt(c, h, deployment, api, DOMAIN cases')
      BY <1>1, <2>4, <2>6, <3>1, <3>3 DEF CallAt, CallSteps
    <3>5. HandlersTyped'
      BY <1>f, <2>4, <3>2, <3>3, <3>4, OneHandler
    <3> QED  BY <1>2, <1>5, <1>f, <2>1, <2>2, <2>3, <2>4, <3>5, RestTyped DEF Unchanged
  <2> QED  BY <1>5, <2>5, <2>6 DEF Save
<1> QED  BY <1>4, <1>5 DEF Save

LEMMA ProcessTyped ==
    ASSUME TypedInv, NEW c \in Calls, Process(c)
    PROVE  TypedInv'
<1> DEFINE id == handler[c].case
<1>1. handler[c] \in Handlers /\ handler[c].pc = "process" /\ CallAt(c, handler[c], deployment, api, DOMAIN cases)
  BY DEF Process, TypedInv, HandlersTyped
<1>2. id \in DOMAIN cases /\ cases[id] \in Records /\ cases[id].version \in Nat
  BY <1>1 DEF CallAt, CallSteps, TypedInv, CasesTyped, Records
<1>f. /\ UNCHANGED <<deployment, api>> /\ UNCHANGED rows /\ UNCHANGED <<deployment, api, answers, desk>>
      /\ rows' \subseteq DocumentRow /\ CasesTyped' /\ UNCHANGED cases /\ DOMAIN cases \subseteq DOMAIN cases'
  BY DEF Process, Static, NotUpdated, TypedInv, CasesTyped
<1>3. DOMAIN jobs' \subseteq (DOMAIN cases') \X (Keys \cup {"rules", "pack"})
  <2>1. DOMAIN jobs' = DOMAIN jobs \cup {<<id, Call[c].key>>}
    BY DEF Process, With
  <2> QED  BY <1>2, <1>f, <2>1 DEF TypedInv, Keys
<1>4. used' \in Bounds
  <2>1. CASE UNCHANGED used
    BY <2>1 DEF TypedInv, Bounds
  <2>2. CASE Use("faults", MaxFaults)
    BY <2>2, UseTyped DEF Bounds
  <2> QED  BY <2>1, <2>2 DEF Process
<1> SUFFICES HandlersTyped'
  BY <1>f, <1>3, <1>4 DEF TypedInv, Bounds
<1>5. CASE Refused(c)
  <2>1. NoCase \in Ids \cup {NoCase}
    OBVIOUS
  <2> QED  BY <1>5, <1>f, <2>1, HandlerEnds
<1>6. CASE handler' = [handler EXCEPT ![c].pc = "announce", ![c].version = cases[id].version]
  <2>1. PICK h \in [pc : {"announce"}, case : Ids \cup {NoCase}, version : Nat, docs : Seq(Docs), at : Nat] :
          h = [handler[c] EXCEPT !.pc = "announce", !.version = cases[id].version]
    BY <1>1, <1>2 DEF Handlers
  <2>2. h \in Handlers /\ h.case = id
    BY <1>1, <2>1 DEF Handlers, CallSteps
  <2>3. handler' = [handler EXCEPT ![c] = h]
    BY <1>6, <2>1 DEF TypedInv, HandlersTyped
  <2>4. CallAt(c, h, deployment, api, DOMAIN cases')
    BY <1>1, <1>f, <2>1, <2>2 DEF CallAt, CallSteps
  <2> QED  BY <1>f, <2>2, <2>3, <2>4, OneHandler
<1> QED  BY <1>5, <1>6 DEF Process

LEMMA AnnounceTyped ==
    ASSUME TypedInv, NEW c \in Calls, Announce(c)
    PROVE  TypedInv'
<1> DEFINE id == handler[c].case
<1>1. handler[c] \in Handlers /\ handler[c].pc = "announce" /\ CallAt(c, handler[c], deployment, api, DOMAIN cases)
  BY DEF Announce, TypedInv, HandlersTyped
<1>2. id \in DOMAIN cases /\ id \in Ids /\ cases[id] \in Records /\ cases[id].version + 1 \in Nat \ {0}
  BY <1>1 DEF CallAt, CallSteps, TypedInv, CasesTyped, Records
<1>f. /\ UNCHANGED <<deployment, api>> /\ UNCHANGED rows /\ UNCHANGED <<deployment, api, jobs, answers, desk>>
      /\ rows' \subseteq DocumentRow /\ used' \in Bounds
  BY DEF Announce, Static, TypedInv, Bounds
<1>4. CASE Refused(c) /\ NotUpdated
  <2>1. NoCase \in Ids \cup {NoCase} /\ CasesTyped' /\ DOMAIN cases \subseteq DOMAIN cases'
    BY <1>4 DEF NotUpdated, TypedInv, CasesTyped
  <2> QED  BY <1>4, <1>f, <2>1, HandlerEnds, RestTyped
<1>5. CASE Write(id, [cases[id] EXCEPT !.version = @ + 1]) /\ Answered(c, id)
  <2>1. [cases[id] EXCEPT !.version = @ + 1] \in Records /\ CasesTyped
    BY <1>2 DEF Records, TypedInv
  <2>2. CasesTyped' /\ DOMAIN cases' = DOMAIN cases \cup {id}
    BY <1>2, <1>5, <2>1, WriteTyped
  <2> QED  BY <1>2, <1>5, <1>f, <2>2, HandlerEnds, RestTyped
<1> QED  BY <1>4, <1>5 DEF Announce

-----------------------------------------------------------------------------
(* The demo service. *)

LEMMA AnswersTyped ==
    ASSUME TypedInv, NEW c \in Calls, NEW id, Remember(c, id) \/ UNCHANGED answers,
           DOMAIN cases' = DOMAIN cases \cup {id}
    PROVE  \A r \in DOMAIN answers' : answers'[r] \in DOMAIN cases'
<1>1. CASE Remember(c, id)
  <2>1. answers' = [x \in DOMAIN answers \cup {Request(c)} |-> IF x = Request(c) THEN id ELSE answers[x]]
    BY <1>1 DEF Remember, With
  <2> QED  BY <2>1 DEF TypedInv
<1>2. CASE UNCHANGED answers
  BY <1>2 DEF TypedInv
<1> QED  BY <1>1, <1>2

LEMMA MintIsNew ==
    ASSUME TypedInv, NEW c \in Calls
    PROVE  /\ Mint(Call[c].key) \in Ids /\ Mint(Call[c].key) \notin DOMAIN cases
           /\ Mint(Call[c].key)[1] = Call[c].key
<1>1. PICK n \in 0..Cardinality(DOMAIN cases) : <<Call[c].key, n>> \notin DOMAIN cases
  BY OneIsFree DEF TypedInv, CasesTyped
<1>2. Cardinality(DOMAIN cases) \in Nat
  BY FS_CardinalityType DEF TypedInv, CasesTyped
<1>3. PICK m \in Nat : Mint(Call[c].key) = <<Call[c].key, m>> /\ <<Call[c].key, m>> \notin DOMAIN cases
  BY <1>1, <1>2 DEF Mint, NewId
<1> QED  BY <1>3, IdsFacts

LEMMA DemoCreateTyped ==
    ASSUME TypedInv, NEW c \in Calls, DemoCreate(c)
    PROVE  TypedInv'
<1>f. /\ UNCHANGED <<deployment, api>> /\ UNCHANGED rows /\ UNCHANGED <<deployment, api, jobs, desk, used>>
  BY DEF DemoCreate
<1>1. CASE Replayed(c)
  <2>1. /\ Answered(c, answers[Request(c)]) /\ UNCHANGED answers /\ CasesTyped' /\ UNCHANGED cases
        /\ answers[Request(c)] \in Ids /\ DOMAIN cases \subseteq DOMAIN cases'
    BY <1>1 DEF DemoCreate, NotUpdated, Replayed, TypedInv, CasesTyped
  <2>2. HandlersTyped'
    BY <1>f, <2>1, HandlerEnds
  <2> QED  BY <1>f, <2>1, <2>2 DEF TypedInv
<1>2. CASE ~ Replayed(c)
  <2>1. PICK id : id = Mint(Call[c].key)
    OBVIOUS
  <2>2. Write(id, NewCase(<<>>)) /\ Answered(c, id) /\ Remember(c, id)
    BY <1>2, <2>1 DEF DemoCreate
  <2>3. id \in Ids /\ CasesTyped /\ NewCase(<<>>) \in Records
    <3>1. <<>> \in Seq(Docs)
      OBVIOUS
    <3> QED  BY <2>1, <3>1, MintIsNew, NewCaseTyped DEF TypedInv
  <2>4. CasesTyped' /\ DOMAIN cases' = DOMAIN cases \cup {id}
    BY <2>2, <2>3, WriteTyped
  <2>5. HandlersTyped'
    BY <1>f, <2>2, <2>3, <2>4, HandlerEnds
  <2>6. \A r \in DOMAIN answers' : answers'[r] \in DOMAIN cases'
    BY <2>2, <2>4, AnswersTyped
  <2> QED  BY <1>f, <2>4, <2>5, <2>6 DEF TypedInv
<1> QED  BY <1>1, <1>2

LEMMA DemoReceiveTyped ==
    ASSUME TypedInv, NEW c \in Calls, DemoReceive(c)
    PROVE  TypedInv'
<1> SUFFICES HandlersTyped'
  BY DEF DemoReceive, Static, NotUpdated, TypedInv, CasesTyped
<1>1. handler[c] \in Handlers /\ deployment = "demo" /\ Call[c].op # "create"
  BY DEF DemoReceive, Demo, TypedInv, HandlersTyped
<1>f. /\ UNCHANGED <<deployment, api>> /\ UNCHANGED rows /\ DOMAIN cases \subseteq DOMAIN cases' /\ UNCHANGED cases
  BY DEF DemoReceive, Static, NotUpdated
<1>2. CASE Refused(c)
  <2>1. NoCase \in Ids \cup {NoCase}
    OBVIOUS
  <2> QED  BY <1>2, <1>f, <2>1, HandlerEnds
<1>3. CASE Call[c].to \in DOMAIN cases /\ Answered(c, Call[c].to)
  <2>1. Call[c].to \in Ids
    BY <1>3 DEF TypedInv, CasesTyped
  <2> QED  BY <1>3, <1>f, <2>1, HandlerEnds
<1>4. CASE Accepted(c) /\ (Call[c].op = "upload" => Call[c].to \in DOMAIN cases) /\ Goto(c, "validated")
  <2>1. PICK h \in [pc : {"validated"}, case : Ids \cup {NoCase}, version : Nat, docs : Seq(Docs), at : Nat] :
          h = [handler[c] EXCEPT !.pc = "validated"]
    BY <1>1 DEF Handlers
  <2>2. h \in Handlers
    BY <2>1 DEF Handlers, CallSteps
  <2>3. handler' = [handler EXCEPT ![c] = h]
    BY <1>4, <2>1 DEF Goto, TypedInv, HandlersTyped
  <2>4. CallAt(c, h, deployment, api, DOMAIN cases')
    BY <1>1, <1>4, <1>f, <2>1 DEF CallAt, CallSteps
  <2> QED  BY <1>f, <2>2, <2>3, <2>4, OneHandler
<1>5. CASE Call[c].op = "upload" /\ Call[c].to \notin DOMAIN cases
  <2>1. Refused(c)
    BY <1>5 DEF DemoReceive
  <2> QED  BY <1>2, <2>1
<1>6. CASE ~ (Call[c].op = "upload" /\ Call[c].to \notin DOMAIN cases) /\ Call[c].op = "upload" /\ Replayed(c)
  BY <1>2, <1>3, <1>6 DEF DemoReceive
<1>7. CASE /\ ~ (Call[c].op = "upload" /\ Call[c].to \notin DOMAIN cases)
           /\ ~ (Call[c].op = "upload" /\ Replayed(c))
  BY <1>2, <1>4, <1>7 DEF DemoReceive
<1> QED  BY <1>5, <1>6, <1>7

\* The documents of an intake, in the demo.
LEMMA BatchTyped ==
    ASSUME NEW c \in Calls
    PROVE  \E docs \in Seq(Docs) :
             /\ docs = [i \in DOMAIN Call[c].files |-> [id |-> <<Call[c].key, i>>, file |-> Call[c].files[i]]]
             /\ DOMAIN docs = DOMAIN Call[c].files
             /\ \A i \in DOMAIN docs : docs[i] = [id |-> <<Call[c].key, i>>, file |-> Call[c].files[i]]
<1>1. PICK files \in Seq(Files) : files = Call[c].files
  BY FileAssumption DEF Files
<1>2. ASSUME NEW i \in 1..Len(files)
      PROVE  [id |-> <<Call[c].key, i>>, file |-> files[i]] \in Docs
  BY <1>1, IdsFacts DEF Docs
<1>b. Len(files) \in Nat
  OBVIOUS
<1>a. [i \in 1..Len(files) |-> [id |-> <<Call[c].key, i>>, file |-> files[i]]] \in [1..Len(files) -> Docs]
  BY <1>2
<1>c. PICK docs \in [1..Len(files) -> Docs] :
        docs = [i \in 1..Len(files) |-> [id |-> <<Call[c].key, i>>, file |-> files[i]]]
  BY <1>a
<1>3. docs \in Seq(Docs) /\ DOMAIN docs = 1..Len(files)
  BY <1>b, <1>c
<1>4. DOMAIN files = 1..Len(files) /\ DOMAIN docs = 1..Len(files)
  BY <1>3
<1>5. \A i \in 1..Len(files) : docs[i] = [id |-> <<Call[c].key, i>>, file |-> files[i]]
  BY <1>c
<1> QED  BY <1>1, <1>c, <1>3, <1>4, <1>5

LEMMA DemoIntakeTyped ==
    ASSUME TypedInv, NEW c \in Calls, DemoIntake(c)
    PROVE  TypedInv'
<1>f. /\ UNCHANGED <<deployment, api>> /\ UNCHANGED rows /\ UNCHANGED <<deployment, api, desk, used>>
  BY DEF DemoIntake
<1>1. CASE Replayed(c)
  <2>1. /\ Answered(c, answers[Request(c)]) /\ UNCHANGED answers /\ CasesTyped' /\ UNCHANGED cases /\ UNCHANGED jobs
        /\ answers[Request(c)] \in Ids /\ DOMAIN cases \subseteq DOMAIN cases'
    BY <1>1 DEF DemoIntake, NotUpdated, Replayed, TypedInv, CasesTyped
  <2>2. HandlersTyped'
    BY <1>f, <2>1, HandlerEnds
  <2> QED  BY <1>f, <2>1, <2>2 DEF TypedInv
<1>2. CASE ~ Replayed(c)
  <2>1. PICK id : id = Mint(Call[c].key)
    OBVIOUS
  <2>2. PICK docs \in Seq(Docs) :
          docs = [i \in DOMAIN Call[c].files |-> [id |-> <<Call[c].key, i>>, file |-> Call[c].files[i]]]
    BY BatchTyped
  <2>3. PICK record \in Records : record = [NewCase(docs) EXCEPT !.version = 2]
    BY NewCaseTyped
  <2>4. Write(id, record) /\ Answered(c, id) /\ Remember(c, id) /\ jobs' = With(jobs, <<id, Call[c].key>>, "queued")
    BY <1>2, <2>1, <2>2, <2>3 DEF DemoIntake
  <2>5. id \in Ids /\ CasesTyped
    BY <2>1, MintIsNew DEF TypedInv
  <2>6. CasesTyped' /\ DOMAIN cases' = DOMAIN cases \cup {id}
    BY <2>4, <2>5, WriteTyped
  <2>7. HandlersTyped'
    BY <1>f, <2>4, <2>5, <2>6, HandlerEnds
  <2>8. \A r \in DOMAIN answers' : answers'[r] \in DOMAIN cases'
    BY <2>4, <2>6, AnswersTyped
  <2>9. DOMAIN jobs' \subseteq (DOMAIN cases') \X (Keys \cup {"rules", "pack"})
    <3>1. DOMAIN jobs' = DOMAIN jobs \cup {<<id, Call[c].key>>}
      BY <2>4 DEF With
    <3> QED  BY <2>6, <3>1 DEF TypedInv, Keys
  <2> QED  BY <1>f, <2>6, <2>7, <2>8, <2>9 DEF TypedInv
<1> QED  BY <1>1, <1>2

LEMMA TouchedTyped ==
    ASSUME CasesTyped, NEW id \in DOMAIN cases, NEW record \in Records, Touched(id, record)
    PROVE  /\ CasesTyped' /\ DOMAIN cases' = DOMAIN cases
           /\ cases'[id] = [record EXCEPT !.version = @ + 1] /\ cases'[id].version = record.version + 1
           /\ cases'[id].docs = record.docs /\ cases'[id].open = record.open
           /\ cases'[id].status = record.status
           /\ \A x \in DOMAIN cases : x # id => cases'[x] = cases[x]
<1>1. record.version + 1 \in Nat \ {0}
  BY DEF Records
<1>2. PICK next \in Records : next = [record EXCEPT !.version = @ + 1]
  BY <1>1 DEF Records
<1>3. /\ next.version = record.version + 1 /\ next.docs = record.docs /\ next.open = record.open
      /\ next.status = record.status
  BY <1>2 DEF Records
<1>4. Write(id, next) /\ id \in Ids
  BY <1>2 DEF Touched, CasesTyped
<1>5. /\ CasesTyped' /\ DOMAIN cases' = DOMAIN cases \cup {id} /\ cases'[id] = next
      /\ \A x \in DOMAIN cases : x # id => cases'[x] = cases[x]
  BY <1>4, WriteTyped
<1> QED  BY <1>2, <1>3, <1>5

\* The document an upload adds in the demo has an id no other document of the case has.
LEMMA UploadedDocument ==
    ASSUME TypedInv, NEW c \in Calls, NEW id \in DOMAIN cases, Call[c].op = "upload"
    PROVE  LET taken == {cases[id].docs[i].id : i \in DOMAIN cases[id].docs}
               doc == [id |-> NewId(Call[c].key, taken), file |-> Call[c].files[1]]
           IN doc \in Docs /\ doc.id \notin taken /\ doc.id[1] = Call[c].key
<1> DEFINE taken == {cases[id].docs[i].id : i \in DOMAIN cases[id].docs}
<1>1. PICK docs \in Seq(Docs) : docs = cases[id].docs
  BY DEF TypedInv, CasesTyped, Records
<1>2. IsFiniteSet(taken)
  <2>1. [i \in 1..Len(docs) |-> docs[i].id] \in Surjection(1..Len(docs), taken)
    BY <1>1 DEF Surjection
  <2>2. IsFiniteSet(1..Len(docs))
    BY FS_Interval
  <2> QED  BY <2>1, <2>2, FS_Surjection
<1>3. PICK m \in 0..Cardinality(taken) : <<Call[c].key, m>> \notin taken
  BY <1>2, OneIsFree
<1>4. Cardinality(taken) \in Nat
  BY <1>2, FS_CardinalityType
<1>5. PICK n \in Nat : NewId(Call[c].key, taken) = <<Call[c].key, n>> /\ <<Call[c].key, n>> \notin taken
  <2> HIDE DEF taken
  <2>1. PICK top \in Nat : top = Cardinality(taken)
    BY <1>4
  <2>2. PICK n : n = CHOOSE k \in 0..top : <<Call[c].key, k>> \notin taken
    OBVIOUS
  <2>3. n \in 0..top /\ <<Call[c].key, n>> \notin taken
    BY <1>3, <2>1, <2>2
  <2>4. NewId(Call[c].key, taken) = <<Call[c].key, n>>
    BY <2>1, <2>2 DEF NewId
  <2>5. n \in Nat
    BY <2>1, <2>3
  <2> QED  BY <2>3, <2>4, <2>5, Zenon
<1>6. Call[c].files[1] \in Files
  BY FileAssumption DEF Files
<1>7. <<Call[c].key, n>> \in Ids
  BY IdsFacts
<1> HIDE DEF taken
<1>8. [id |-> NewId(Call[c].key, taken), file |-> Call[c].files[1]] \in Docs
  BY <1>5, <1>6, <1>7 DEF Docs
<1>9. [id |-> NewId(Call[c].key, taken), file |-> Call[c].files[1]].id = <<Call[c].key, n>>
  BY <1>5
<1> QED  BY <1>5, <1>8, <1>9 DEF taken

\* An upload in the demo adds one document to a case, and moves its version on.
LEMMA DemoUploadTyped ==
    ASSUME TypedInv, NEW c \in Calls, DemoUpload(c)
    PROVE  /\ TypedInv' /\ Call[c].to \in DOMAIN cases /\ Call[c].op = "upload" /\ Accepted(c)
           /\ \E doc \in Docs, record \in Records :
                /\ doc.id \notin {cases[Call[c].to].docs[i].id : i \in DOMAIN cases[Call[c].to].docs}
                /\ doc.file = Call[c].files[1]
                /\ record = [cases[Call[c].to] EXCEPT !.docs = Append(@, doc)]
                /\ Touched(Call[c].to, record)
                /\ objects' = objects \cup {<<Call[c].to, doc.id, doc.file>>}
<1> DEFINE id == Call[c].to
           taken == {cases[id].docs[i].id : i \in DOMAIN cases[id].docs}
<1>1. /\ handler[c].pc = "validated" /\ CallAt(c, handler[c], deployment, api, DOMAIN cases) /\ Call[c].op = "upload"
  BY DEF DemoUpload, TypedInv, HandlersTyped
<1>2. id \in DOMAIN cases /\ id \in Ids /\ cases[id] \in Records /\ CasesTyped /\ Accepted(c)
  BY <1>1 DEF CallAt, TypedInv, CasesTyped
<1>3. PICK doc \in Docs : /\ doc = [id |-> NewId(Call[c].key, taken), file |-> Call[c].files[1]]
                          /\ doc.id \notin taken /\ doc.file = Call[c].files[1]
  BY <1>1, <1>2, UploadedDocument
<1>f. /\ UNCHANGED <<deployment, api>> /\ UNCHANGED rows /\ UNCHANGED <<deployment, api, jobs, desk, used>>
      /\ Touched(id, [cases[id] EXCEPT !.docs = Append(@, doc)]) /\ Answered(c, id) /\ Remember(c, id)
      /\ objects' = objects \cup {<<id, doc.id, doc.file>>}
  BY <1>3 DEF DemoUpload
<1>4. PICK record \in Records : record = [cases[id] EXCEPT !.docs = Append(@, doc)]
  <2>1. Append(cases[id].docs, doc) \in Seq(Docs)
    BY <1>2 DEF Records
  <2> QED  BY <1>2, <2>1 DEF Records
<1>5. CasesTyped' /\ DOMAIN cases' = DOMAIN cases /\ DOMAIN cases' = DOMAIN cases \cup {id}
  BY <1>2, <1>f, <1>4, TouchedTyped
<1>6. HandlersTyped'
  BY <1>2, <1>f, <1>5, HandlerEnds
<1>7. \A r \in DOMAIN answers' : answers'[r] \in DOMAIN cases'
  BY <1>f, <1>5, AnswersTyped
<1>8. TypedInv'
  BY <1>f, <1>5, <1>6, <1>7 DEF TypedInv
<1> QED  BY <1>1, <1>2, <1>3, <1>4, <1>f, <1>8

\* The calls of the reviewer, at the level of what they write: nothing, or a case one version
\* further at least, with its documents, and no more open findings than it had.
Reviewed(id) ==
    /\ UNCHANGED <<deployment, api, rows, objects, handler, answers>> /\ deployment = "demo"
    /\ \/ NotUpdated
       \/ \E record \in Records :
            /\ Write(id, record)
            /\ record.version > cases[id].version /\ record.docs = cases[id].docs
            /\ record.open = cases[id].open \/ (record.open = cases[id].open - 1 /\ cases[id].open > 0)
            /\ \/ record.status = cases[id].status \/ record.status = "needs_review"
               \/ /\ record.status \in {"approved", "rejected", "request_information"}
                  /\ Fresh(id) /\ MayDecide(id, record.status) /\ record.open = cases[id].open

ReviewStep(id) ==
    \/ Look(id) \/ CorrectFact(id) \/ ResolveFinding(id) \/ ReEvaluate(id) \/ Reprocess(id)
    \/ \E outcome \in {"approved", "rejected", "request_information"} : Decide(id, outcome)

LEMMA TouchIsReview ==
    ASSUME TypedInv, NEW id \in DOMAIN cases, NEW record \in Records, Touched(id, record)
    PROVE  \E next \in Records :
             /\ Write(id, next) /\ next.version = record.version + 1 /\ next.docs = record.docs
             /\ next.open = record.open /\ next.status = record.status
<1>1. record.version + 1 \in Nat \ {0}
  BY DEF Records
<1>2. PICK next \in Records : next = [record EXCEPT !.version = @ + 1]
  BY <1>1 DEF Records
<1>3. /\ next.version = record.version + 1 /\ next.docs = record.docs /\ next.open = record.open
      /\ next.status = record.status
  BY <1>2 DEF Records
<1> QED  BY <1>2, <1>3 DEF Touched

LEMMA ReviewTyped ==
    ASSUME TypedInv, NEW id \in DOMAIN cases, ReviewStep(id)
    PROVE  TypedInv' /\ Reviewed(id)
<1> PICK old \in Records : old = cases[id]
  BY DEF TypedInv, CasesTyped
<1>1. /\ id \in Ids /\ CasesTyped /\ old.version \in Nat /\ old.docs \in Seq(Docs) /\ old.open \in Nat
      /\ old.version + 1 > old.version /\ old.version + 1 \in Nat \ {0} /\ old.version + 2 > old.version
  BY DEF TypedInv, CasesTyped, Records
<1>u. ASSUME Edit(id) PROVE deployment = "demo" /\ used' \in Bounds
  BY <1>u, UseTyped DEF Edit, Demo, Bounds
<1>h. ASSUME CasesTyped', DOMAIN cases \subseteq DOMAIN cases', Kept
      PROVE  /\ HandlersTyped'
             /\ \A r \in DOMAIN answers' : answers'[r] \in DOMAIN cases'
             /\ UNCHANGED <<deployment, api, rows, objects, handler, answers>>
             /\ deployment' = deployment /\ api' = api /\ rows' = rows
  BY <1>h, SameHandlers DEF Kept, TypedInv
<1>w. ASSUME NEW record \in Records, Write(id, record)
      PROVE  CasesTyped' /\ DOMAIN cases' = DOMAIN cases
  BY <1>1, <1>w, WriteTyped
<1>n. ASSUME NotUpdated PROVE CasesTyped' /\ DOMAIN cases' = DOMAIN cases
  BY <1>1, <1>n DEF NotUpdated, CasesTyped
<1>j. ASSUME NEW key \in {"rules", "pack"}, jobs' = With(jobs, <<id, key>>, "queued") \/ UNCHANGED jobs,
             DOMAIN cases' = DOMAIN cases
      PROVE  DOMAIN jobs' \subseteq (DOMAIN cases') \X (Keys \cup {"rules", "pack"})
  BY <1>j DEF With, TypedInv
<1>d. ASSUME UNCHANGED desk PROVE desk' \in [case : Ids \cup {NoCase}, version : Nat, docs : Seq(Docs), open : Nat]
  BY <1>d DEF TypedInv
<1>2. CASE Look(id)
  <2>1. Edit(id) /\ NotUpdated /\ Kept /\ UNCHANGED jobs
        /\ desk' = [case |-> id, version |-> old.version, docs |-> old.docs, open |-> old.open]
    BY <1>2 DEF Look
  <2>2. desk' \in [case : Ids \cup {NoCase}, version : Nat, docs : Seq(Docs), open : Nat]
    BY <1>1, <2>1
  <2>3. DOMAIN jobs' \subseteq (DOMAIN cases') \X (Keys \cup {"rules", "pack"})
    BY <1>n, <1>j, <2>1
  <2> QED  BY <1>u, <1>h, <1>n, <2>1, <2>2, <2>3 DEF TypedInv, Reviewed, Bounds
<1>3. CASE CorrectFact(id)
  <2>1. Edit(id) /\ Touched(id, old) /\ Kept /\ UNCHANGED jobs /\ UNCHANGED desk
    BY <1>3 DEF CorrectFact
  <2>2. PICK next \in Records :
          /\ Write(id, next) /\ next.version = old.version + 1 /\ next.docs = old.docs
          /\ next.open = old.open /\ next.status = old.status
    BY <2>1, TouchIsReview
  <2>3. CasesTyped' /\ DOMAIN cases' = DOMAIN cases
    BY <1>w, <2>2
  <2>4. TypedInv'
    BY <1>u, <1>h, <1>d, <1>j, <2>1, <2>3 DEF TypedInv, Bounds
  <2> QED  BY <1>u, <1>h, <1>1, <2>1, <2>2, <2>3, <2>4 DEF Reviewed
<1>4. CASE ResolveFinding(id)
  <2>1. PICK record \in Records : /\ record = [old EXCEPT !.open = @ - 1] /\ record.version = old.version
                                  /\ record.docs = old.docs /\ record.status = old.status
                                  /\ record.open = old.open - 1
    <3>1. old.open - 1 \in Nat
      BY <1>1, <1>4 DEF ResolveFinding
    <3>2. PICK n \in Nat : n = old.open - 1
      BY <3>1
    <3>3. PICK record \in Records : record = [old EXCEPT !.open = n]
      BY DEF Records
    <3>4. record = [old EXCEPT !.open = @ - 1]
      BY <3>2, <3>3
    <3> QED  BY <3>2, <3>3, <3>4 DEF Records
  <2>2. Edit(id) /\ Touched(id, record) /\ Kept /\ UNCHANGED jobs /\ UNCHANGED desk /\ old.open > 0
    BY <1>4, <2>1 DEF ResolveFinding
  <2>3. PICK next \in Records :
          /\ Write(id, next) /\ next.version = record.version + 1 /\ next.docs = record.docs
          /\ next.open = record.open /\ next.status = record.status
    BY <2>2, TouchIsReview
  <2>4. CasesTyped' /\ DOMAIN cases' = DOMAIN cases
    BY <1>w, <2>3
  <2>5. TypedInv'
    BY <1>u, <1>h, <1>d, <1>j, <2>2, <2>4 DEF TypedInv, Bounds
  <2> QED  BY <1>u, <1>h, <1>1, <2>1, <2>2, <2>3, <2>4, <2>5 DEF Reviewed
<1>5. ASSUME NEW outcome \in {"approved", "rejected", "request_information"}, Decide(id, outcome)
      PROVE  TypedInv' /\ Reviewed(id)
  <2>1. PICK record \in Records : /\ record = [old EXCEPT !.status = outcome] /\ record.version = old.version
                                  /\ record.docs = old.docs /\ record.status = outcome
                                  /\ record.open = old.open
    <3>1. PICK record \in Records : record = [old EXCEPT !.status = outcome]
      BY DEF Records
    <3> QED  BY <3>1 DEF Records
  <2>2. /\ Edit(id) /\ Touched(id, record) /\ Kept /\ UNCHANGED jobs /\ UNCHANGED desk
        /\ Fresh(id) /\ MayDecide(id, outcome)
    BY <1>5, <2>1 DEF Decide
  <2>3. PICK next \in Records :
          /\ Write(id, next) /\ next.version = record.version + 1 /\ next.docs = record.docs
          /\ next.open = record.open /\ next.status = record.status
    BY <2>2, TouchIsReview
  <2>4. CasesTyped' /\ DOMAIN cases' = DOMAIN cases
    BY <1>w, <2>3
  <2>5. TypedInv'
    BY <1>u, <1>h, <1>d, <1>j, <2>2, <2>4 DEF TypedInv, Bounds
  <2> QED  BY <1>u, <1>h, <1>1, <1>5, <2>1, <2>2, <2>3, <2>4, <2>5 DEF Reviewed
<1>6. CASE ReEvaluate(id)
  <2>1. PICK record \in Records : /\ record = [old EXCEPT !.status = "needs_review", !.version = @ + 1]
                                  /\ record.version = old.version + 1 /\ record.docs = old.docs
                                  /\ record.status = "needs_review" /\ record.open = old.open /\ record # old
    <3>1. PICK n \in Nat \ {0} : n = old.version + 1 /\ n # old.version
      BY <1>1
    <3>2. PICK record \in Records : record = [old EXCEPT !.status = "needs_review", !.version = n]
      BY DEF Records
    <3>3. record = [old EXCEPT !.status = "needs_review", !.version = @ + 1]
      BY <3>1, <3>2
    <3> QED  BY <3>1, <3>2, <3>3 DEF Records
  <2>2. Edit(id) /\ Queue(id, "rules", record) /\ Kept /\ UNCHANGED desk
    BY <1>6, <2>1 DEF ReEvaluate
  <2>3. PICK next \in Records :
          /\ Write(id, next) /\ next.version > old.version /\ next.docs = old.docs
          /\ next.open = old.open /\ next.status = "needs_review"
    <3>1. CASE Touched(id, record)
      <4>1. PICK next \in Records :
              /\ Write(id, next) /\ next.version = record.version + 1 /\ next.docs = record.docs
              /\ next.open = record.open /\ next.status = record.status
        BY <3>1, TouchIsReview
      <4>2. next.version > old.version
        BY <1>1, <2>1, <4>1
      <4> QED  BY <2>1, <4>1, <4>2
    <3>2. CASE Write(id, record)
      BY <1>1, <2>1, <3>2
    <3> QED  BY <2>1, <2>2, <3>1, <3>2 DEF Queue
  <2>4. CasesTyped' /\ DOMAIN cases' = DOMAIN cases
    BY <1>w, <2>3
  <2>5. jobs' = With(jobs, <<id, "rules">>, "queued") \/ UNCHANGED jobs
    BY <2>2 DEF Queue
  <2>6. DOMAIN jobs' \subseteq (DOMAIN cases') \X (Keys \cup {"rules", "pack"})
    BY <1>j, <2>4, <2>5
  <2>7. TypedInv'
    BY <1>u, <1>h, <1>d, <2>2, <2>4, <2>6 DEF TypedInv, Bounds
  <2> QED  BY <1>u, <1>h, <2>2, <2>3, <2>4, <2>7 DEF Reviewed
<1>7. CASE Reprocess(id)
  <2>1. Edit(id) /\ Queue(id, "pack", old) /\ Kept /\ UNCHANGED desk
    BY <1>7 DEF Reprocess
  <2>2. jobs' = With(jobs, <<id, "pack">>, "queued") \/ UNCHANGED jobs
    BY <2>1 DEF Queue
  <2>3. CASE NotUpdated
    <3>1. DOMAIN jobs' \subseteq (DOMAIN cases') \X (Keys \cup {"rules", "pack"})
      BY <1>j, <1>n, <2>2, <2>3
    <3> QED  BY <1>u, <1>h, <1>d, <1>n, <2>1, <2>3, <3>1 DEF TypedInv, Reviewed, Bounds
  <2>4. CASE Touched(id, old)
    <3>1. PICK next \in Records :
            /\ Write(id, next) /\ next.version = old.version + 1 /\ next.docs = old.docs
            /\ next.open = old.open /\ next.status = old.status
      BY <2>4, TouchIsReview
    <3>2. CasesTyped' /\ DOMAIN cases' = DOMAIN cases
      BY <1>w, <3>1
    <3>3. DOMAIN jobs' \subseteq (DOMAIN cases') \X (Keys \cup {"rules", "pack"})
      BY <1>j, <2>2, <3>2
    <3>4. TypedInv'
      BY <1>u, <1>h, <1>d, <2>1, <3>2, <3>3 DEF TypedInv, Bounds
    <3> QED  BY <1>u, <1>h, <1>1, <2>1, <3>1, <3>2, <3>4 DEF Reviewed
  <2> QED  BY <2>1, <2>3, <2>4 DEF Queue
<1> QED  BY <1>2, <1>3, <1>4, <1>5, <1>6, <1>7 DEF ReviewStep

LEMMA CancelTyped ==
    ASSUME TypedInv, NEW j \in DOMAIN jobs, CancelJob(j)
    PROVE  TypedInv'
<1>1. /\ UNCHANGED <<deployment, api, rows>> /\ UNCHANGED <<handler, deployment, api, rows>> /\ UNCHANGED answers
      /\ UNCHANGED cases /\ UNCHANGED desk /\ Use("edits", MaxEdits) /\ DOMAIN jobs' = DOMAIN jobs
  BY DEF CancelJob, Edit, Kept, NotUpdated
<1>2. HandlersTyped'
  BY <1>1, SameHandlers
<1>3. used' \in Bounds
  BY <1>1, UseTyped DEF Bounds
<1> QED  BY <1>1, <1>2, <1>3 DEF TypedInv, CasesTyped, Bounds

-----------------------------------------------------------------------------
(* The start of the production service. *)

LEMMA MissingNext ==
    ASSUME TypedInv, NEW missing, missing \subseteq DOMAIN SeedDocs, SeedNext(missing),
           UNCHANGED <<deployment, api>>, DOMAIN cases \subseteq DOMAIN cases', SeedCase \in DOMAIN cases',
           deployment = "production", api = "seeding", Unrecorded' = missing
    PROVE  HandlersTyped' /\ handler'[Startup].pc # "record"
           /\ \A c \in Calls : handler'[c] = handler[c]
<1>1. missing # {} => Min(missing) \in missing /\ Min(missing) \in Nat
  BY SeedTyped, MinIsLeast
<1>2. PICK h : h = [Resting EXCEPT !.case = SeedCase, !.pc = IF missing = {} THEN "save" ELSE "put",
                                   !.at = IF missing = {} THEN 0 ELSE Min(missing)]
  OBVIOUS
<1>p. PICK p \in {"save", "put"} : p = IF missing = {} THEN "save" ELSE "put"
  OBVIOUS
<1>a. PICK at \in Nat : at = (IF missing = {} THEN 0 ELSE Min(missing)) /\ (missing # {} => at \in missing)
  BY <1>1
<1>3. h = [pc |-> p, case |-> SeedCase, version |-> 0, docs |-> <<>>, at |-> at]
  BY <1>2, <1>p, <1>a DEF Resting
<1>4. h \in Handlers
  <2>1. <<>> \in Seq(Docs)
    OBVIOUS
  <2> QED  BY <1>3, <2>1, IdsFacts DEF Handlers, CallSteps
<1>5. handler' = [handler EXCEPT ![Startup] = h]
  BY <1>2 DEF SeedNext
<1>6. handler' \in [Calls \cup {Startup} -> Handlers] /\ handler'[Startup] = h
      /\ \A c \in Calls : handler'[c] = handler[c]
  BY <1>4, <1>5, IdsFacts DEF TypedInv, HandlersTyped
<1>7. StartAt(h, deployment, api, DOMAIN cases', Unrecorded')
  BY <1>3, <1>p, <1>a DEF StartAt
<1>8. ASSUME NEW d \in Calls
      PROVE  CallAt(d, handler[d], deployment, api, DOMAIN cases')
  BY DEF TypedInv, HandlersTyped, CallAt
<1>9. handler'[Startup].pc # "record"
  BY <1>3, <1>6
<1> QED  BY <1>6, <1>7, <1>8, <1>9 DEF HandlersTyped

LEMMA SeedTypes ==
    ASSUME TypedInv, Seed
    PROVE  /\ TypedInv' /\ handler'[Startup].pc # "record" /\ \A c \in Calls : handler'[c] = handler[c]
           /\ \/ NotUpdated
              \/ SeedCase \notin DOMAIN cases /\ Write(SeedCase, ReviewedCase(SeedDocs))
<1>f. /\ UNCHANGED <<deployment, api>> /\ UNCHANGED rows /\ UNCHANGED <<deployment, api, jobs, answers, desk>>
      /\ rows' \subseteq DocumentRow /\ used' \in Bounds /\ deployment = "production" /\ api = "seeding"
      /\ Unrecorded' = Unrecorded /\ Unrecorded \subseteq DOMAIN SeedDocs /\ SeedNext(Unrecorded)
  BY DEF Seed, Seeding, Static, TypedInv, Bounds, Unrecorded
<1>1. CASE NotUpdated /\ SeedCase \in DOMAIN cases
  <2>1. CasesTyped' /\ DOMAIN cases \subseteq DOMAIN cases' /\ SeedCase \in DOMAIN cases'
    BY <1>1 DEF NotUpdated, TypedInv, CasesTyped
  <2>2. HandlersTyped' /\ handler'[Startup].pc # "record" /\ \A c \in Calls : handler'[c] = handler[c]
    BY <1>f, <2>1, MissingNext
  <2> QED  BY <1>1, <1>f, <2>1, <2>2, RestTyped
<1>2. CASE SeedCase \notin DOMAIN cases /\ Write(SeedCase, ReviewedCase(SeedDocs))
  <2>1. PICK record \in Records : record = ReviewedCase(SeedDocs)
    BY SeedTyped, NewCaseTyped
  <2>2. CasesTyped' /\ DOMAIN cases' = DOMAIN cases \cup {SeedCase}
    BY <1>2, <2>1, WriteTyped, IdsFacts DEF TypedInv
  <2>3. HandlersTyped' /\ handler'[Startup].pc # "record" /\ \A c \in Calls : handler'[c] = handler[c]
    BY <1>f, <2>2, MissingNext
  <2> QED  BY <1>2, <1>f, <2>2, <2>3, RestTyped
<1> QED  BY <1>1, <1>2 DEF Seed

\* The document the start is at.
LEMMA SeedDocument ==
    ASSUME TypedInv, handler[Startup].pc \in {"put", "record"}
    PROVE  /\ handler[Startup].at \in Unrecorded /\ handler[Startup].at \in DOMAIN SeedDocs
           /\ Document(Startup) = SeedDocs[handler[Startup].at] /\ handler[Startup].case = SeedCase
           /\ deployment = "production" /\ api = "seeding" /\ SeedCase \in DOMAIN cases
           /\ <<SeedCase, Document(Startup).id>> \notin rows
           /\ <<SeedCase, Document(Startup).id>> \in DocumentRow
           /\ Bytes(Startup) = <<SeedCase, Document(Startup).id, Document(Startup).file>>
<1>1. StartAt(handler[Startup], deployment, api, DOMAIN cases, Unrecorded)
  BY DEF TypedInv, HandlersTyped
<1>2. handler[Startup].at \in Unrecorded /\ handler[Startup].case = SeedCase
      /\ deployment = "production" /\ api = "seeding" /\ SeedCase \in DOMAIN cases
  BY <1>1 DEF StartAt
<1>3. Document(Startup) = SeedDocs[handler[Startup].at]
  BY DEF Document
<1>4. handler[Startup].at \in DOMAIN SeedDocs /\ <<SeedCase, SeedDocs[handler[Startup].at].id>> \notin rows
  BY <1>2 DEF Unrecorded
<1>5. SeedDocs[handler[Startup].at].id \in Ids
  BY <1>4, SeedTyped DEF Docs
<1> QED  BY <1>2, <1>3, <1>4, <1>5, IdsFacts DEF Bytes, DocumentRow

\* The start goes on.
LEMMA StartMoves ==
    ASSUME TypedInv, NEW h \in Handlers, handler' = [handler EXCEPT ![Startup] = h],
           DOMAIN cases \subseteq DOMAIN cases', deployment' = deployment,
           deployment = "production", api = "seeding",
           StartAt(h, deployment, api', DOMAIN cases', Unrecorded')
    PROVE  HandlersTyped' /\ \A c \in Calls : handler'[c] = handler[c]
<1>1. handler' \in [Calls \cup {Startup} -> Handlers] /\ handler'[Startup] = h
      /\ \A c \in Calls : handler'[c] = handler[c]
  BY IdsFacts DEF TypedInv, HandlersTyped
<1>2. ASSUME NEW d \in Calls
      PROVE  CallAt(d, handler[d], deployment, api', DOMAIN cases')
  BY DEF TypedInv, HandlersTyped, CallAt
<1> QED  BY <1>1, <1>2 DEF HandlersTyped

LEMMA SeedPutTyped ==
    ASSUME TypedInv, SeedPut
    PROVE  TypedInv' /\ \A c \in Calls : handler'[c] = handler[c]
<1>1. handler[Startup] \in Handlers /\ handler[Startup].pc = "put"
      /\ StartAt(handler[Startup], deployment, api, DOMAIN cases, Unrecorded)
  BY DEF SeedPut, TypedInv, HandlersTyped
<1>f. /\ UNCHANGED <<deployment, rows, jobs, answers, desk>> /\ CasesTyped' /\ DOMAIN cases \subseteq DOMAIN cases'
      /\ UNCHANGED cases /\ Unrecorded' = Unrecorded /\ deployment = "production" /\ api = "seeding"
      /\ deployment' = deployment /\ api' = IF handler'[Startup].pc = "failed" THEN "stuck" ELSE api
  BY DEF SeedPut, Seeding, NotUpdated, TypedInv, CasesTyped, Unrecorded
<1>2. used' \in Bounds
  <2>1. CASE UNCHANGED used
    BY <2>1 DEF TypedInv, Bounds
  <2>2. CASE Use("faults", MaxFaults)
    BY <2>2, UseTyped DEF Bounds
  <2> QED  BY <2>1, <2>2 DEF SeedPut, PutObject
<1> SUFFICES HandlersTyped' /\ \A c \in Calls : handler'[c] = handler[c]
  BY <1>f, <1>2 DEF TypedInv, Bounds
<1>3. CASE Refused(Startup)
  <2>1. PICK h \in Handlers : h = [Resting EXCEPT !.pc = "failed"]
    BY RestingTyped
  <2>2. h.pc = "failed"
    BY <2>1 DEF Resting
  <2>3. StartAt(h, deployment, api', DOMAIN cases', Unrecorded')
    BY <2>2 DEF StartAt
  <2>4. handler' = [handler EXCEPT ![Startup] = h]
    BY <1>3, <2>1 DEF Refused
  <2> QED  BY <1>f, <2>3, <2>4, StartMoves
<1>4. CASE Goto(Startup, "record")
  <2>1. PICK h \in Handlers : h = [handler[Startup] EXCEPT !.pc = "record"]
    BY <1>1 DEF Handlers, CallSteps
  <2>2. h.pc = "record" /\ h.case = handler[Startup].case /\ h.at = handler[Startup].at
    BY <1>1, <2>1 DEF Handlers
  <2>3. handler' = [handler EXCEPT ![Startup] = h] /\ handler'[Startup] = h
    BY <1>4, <2>1 DEF Goto, TypedInv, HandlersTyped
  <2>4. StartAt(h, deployment, api', DOMAIN cases', Unrecorded')
    BY <1>1, <1>f, <2>2, <2>3 DEF StartAt
  <2> QED  BY <1>f, <2>3, <2>4, StartMoves
<1> QED  BY <1>3, <1>4 DEF SeedPut, PutObject

LEMMA SeedRecordTyped ==
    ASSUME TypedInv, SeedRecord
    PROVE  /\ TypedInv' /\ handler'[Startup].pc # "record" /\ \A c \in Calls : handler'[c] = handler[c]
           /\ Unrecorded' = Unrecorded \ {handler[Startup].at}
<1> DEFINE at == handler[Startup].at
<1>1. handler[Startup].pc = "record" /\ rows' = rows \cup {<<SeedCase, Document(Startup).id>>}
      /\ SeedNext(Unrecorded \ {at})
  BY DEF SeedRecord
<1>2. at \in DOMAIN SeedDocs /\ Document(Startup) = SeedDocs[at] /\ SeedCase \in DOMAIN cases
      /\ <<SeedCase, Document(Startup).id>> \in DocumentRow /\ deployment = "production" /\ api = "seeding"
  BY <1>1, SeedDocument
<1>3. \A i, k \in DOMAIN SeedDocs : SeedDocs[i].id = SeedDocs[k].id => i = k
  BY SeedTyped
<1>4. Unrecorded' = Unrecorded \ {at}
  BY <1>1, <1>2, <1>3 DEF Unrecorded
<1>f. /\ UNCHANGED <<deployment, api>> /\ UNCHANGED <<deployment, api, jobs, answers, desk>>
      /\ rows' \subseteq DocumentRow /\ CasesTyped' /\ DOMAIN cases \subseteq DOMAIN cases' /\ used' \in Bounds
      /\ SeedCase \in DOMAIN cases' /\ Unrecorded \ {at} \subseteq DOMAIN SeedDocs
  BY <1>1, <1>2 DEF SeedRecord, Static, NotUpdated, TypedInv, CasesTyped, Bounds, Unrecorded
<1>5. HandlersTyped' /\ handler'[Startup].pc # "record" /\ \A c \in Calls : handler'[c] = handler[c]
  BY <1>1, <1>2, <1>4, <1>f, MissingNext
<1> QED  BY <1>4, <1>5, <1>f, RestTyped

\* The documents a newer release adds to the seeded case.
Additions == {SeedDocs[i] : i \in {k \in DOMAIN SeedDocs :
                SeedDocs[k].id \notin {cases[SeedCase].docs[i].id : i \in DOMAIN cases[SeedCase].docs}}}

LEMMA AdditionsInOrder ==
    /\ SetToSeq(Additions) \in Seq(Docs) /\ ToSet(SetToSeq(Additions)) = Additions
    /\ IsInjective(SetToSeq(Additions))
<1>1. Additions \subseteq {SeedDocs[i] : i \in DOMAIN SeedDocs} /\ Additions \subseteq Docs
  BY SeedTyped DEF Additions
<1>2. PICK docs \in Seq(Docs) : docs = SeedDocs
  BY SeedTyped
<1>3. IsFiniteSet({SeedDocs[i] : i \in DOMAIN SeedDocs})
  <2>1. [i \in 1..Len(docs) |-> docs[i]] \in Surjection(1..Len(docs), {SeedDocs[i] : i \in DOMAIN SeedDocs})
    BY <1>2 DEF Surjection
  <2>2. IsFiniteSet(1..Len(docs))
    BY FS_Interval
  <2> QED  BY <2>1, <2>2, FS_Surjection
<1>4. IsFiniteSet(Additions)
  BY <1>1, <1>3, FS_Subset
<1>5. SetToSeq(Additions) \in Seq(Additions) /\ ToSet(SetToSeq(Additions)) = Additions
      /\ IsInjective(SetToSeq(Additions))
  BY <1>4, SetInOrder
<1>6. SetToSeq(Additions) \in Seq(Docs)
  BY <1>1, <1>5, SeqMonotonic
<1> QED  BY <1>5, <1>6

LEMMA SeedSaveTyped ==
    ASSUME TypedInv, SeedSave
    PROVE  /\ TypedInv' /\ (\A c \in Calls : handler'[c] = handler[c]) /\ Unrecorded = {}
           /\ handler'[Startup].pc # "record" /\ SeedCase \in DOMAIN cases
           /\ \/ NotUpdated
              \/ \E record \in Records :
                   /\ record = [cases[SeedCase] EXCEPT !.docs = cases[SeedCase].docs \o SetToSeq(Additions)]
                   /\ Write(SeedCase, record)
<1>1. handler[Startup].pc = "save" /\ StartAt(handler[Startup], deployment, api, DOMAIN cases, Unrecorded)
  BY DEF SeedSave, TypedInv, HandlersTyped
<1>2. SeedCase \in DOMAIN cases /\ cases[SeedCase] \in Records /\ SeedCase \in Ids /\ Unrecorded = {}
  BY <1>1 DEF StartAt, TypedInv, CasesTyped
<1>f. /\ UNCHANGED <<deployment, rows, jobs, answers, desk, used>> /\ rows' = rows /\ deployment' = deployment
      /\ deployment = "production" /\ api = "seeding" /\ api' = "serving"
      /\ handler' = [handler EXCEPT ![Startup] = Resting]
  BY DEF SeedSave, Seeding
<1>3. PICK record \in Records :
        record = [cases[SeedCase] EXCEPT !.docs = cases[SeedCase].docs \o SetToSeq(Additions)]
  <2>1. PICK docs \in Seq(Docs) : docs = SetToSeq(Additions)
    BY AdditionsInOrder
  <2>2. cases[SeedCase].docs \o docs \in Seq(Docs)
    BY <1>2, ConcatProperties DEF Records
  <2> QED  BY <1>2, <2>1, <2>2 DEF Records
<1>4. NotUpdated \/ Write(SeedCase, record)
  BY <1>3 DEF SeedSave, Additions
<1>5. CasesTyped' /\ DOMAIN cases \subseteq DOMAIN cases'
  <2>1. CASE NotUpdated
    BY <2>1 DEF NotUpdated, TypedInv, CasesTyped
  <2>2. CASE Write(SeedCase, record)
    BY <1>2, <2>2, WriteTyped DEF TypedInv
  <2> QED  BY <1>4, <2>1, <2>2
<1>6. Resting \in Handlers /\ Resting.pc = "idle"
  BY RestingTyped DEF Resting
<1>7. StartAt(Resting, deployment, api', DOMAIN cases', Unrecorded')
  BY <1>6 DEF StartAt
<1>8. HandlersTyped' /\ \A c \in Calls : handler'[c] = handler[c]
  BY <1>5, <1>6, <1>7, <1>f, StartMoves
<1>9. TypedInv'
  BY <1>5, <1>8, <1>f DEF TypedInv
<1>10. handler'[Startup].pc # "record"
  BY <1>6, <1>f DEF TypedInv, HandlersTyped
<1> QED  BY <1>2, <1>3, <1>4, <1>8, <1>9, <1>10

LEMMA CrashTyped ==
    ASSUME TypedInv, Crash
    PROVE  /\ TypedInv' /\ UNCHANGED <<rows, objects>> /\ NotUpdated /\ deployment = "production" /\ api' = "seeding"
           /\ \A c \in Calls : handler'[c].pc \notin CallSteps /\ handler'[c].pc # "validated"
           /\ handler'[Startup].pc = "idle"
<1>1. handler' = [c \in Calls \cup {Startup} |->
                   IF c = Startup THEN Resting
                   ELSE IF handler[c].pc \in {"idle", "answered"} THEN handler[c]
                   ELSE [Resting EXCEPT !.pc = "failed"]]
  BY DEF Crash, TypedInv, HandlersTyped
<1>2. PICK failed \in Handlers : failed = [Resting EXCEPT !.pc = "failed"]
  BY RestingTyped
<1>3. failed.pc = "failed" /\ Resting \in Handlers /\ Resting.pc = "idle"
  BY <1>2, RestingTyped DEF Resting
<1>4. ASSUME NEW c \in Calls
      PROVE  handler'[c] = failed \/ (handler'[c] = handler[c] /\ handler[c].pc \in {"idle", "answered"})
  BY <1>1, <1>2, IdsFacts
<1>5. handler' \in [Calls \cup {Startup} -> Handlers] /\ handler'[Startup] = Resting
  BY <1>1, <1>2, <1>3 DEF TypedInv, HandlersTyped
<1>6. \A c \in Calls : handler'[c].pc \in {"idle", "answered", "failed"}
  BY <1>3, <1>4
<1>f. /\ UNCHANGED <<deployment, rows, objects, jobs, answers, desk>> /\ NotUpdated /\ deployment = "production"
      /\ api' = "seeding" /\ Use("crashes", MaxCrashes) /\ CasesTyped' /\ UNCHANGED cases /\ Unrecorded' = Unrecorded
  BY DEF Crash, NotUpdated, TypedInv, CasesTyped, Unrecorded
<1>7. \A c \in Calls : CallAt(c, handler'[c], deployment', api', DOMAIN cases')
  BY <1>6 DEF CallAt, CallSteps
<1>8. StartAt(handler'[Startup], deployment', api', DOMAIN cases', Unrecorded')
  BY <1>3, <1>5 DEF StartAt
<1>9. used' \in Bounds
  BY <1>f, UseTyped DEF Bounds
<1>10. TypedInv'
  BY <1>5, <1>7, <1>8, <1>9, <1>f DEF TypedInv, HandlersTyped, Bounds
<1> QED  BY <1>3, <1>5, <1>6, <1>10, <1>f DEF CallSteps

LEMMA PageTypes ==
    ASSUME TypedInv, ReadPage \/ UNCHANGED vars
    PROVE  TypedInv' /\ UNCHANGED <<deployment, api, cases, rows, objects, jobs, handler, answers, desk, used>>
<1>1. UNCHANGED <<deployment, api, cases, rows, objects, jobs, handler, answers, desk, used>>
  BY DEF ReadPage, vars
<1>2. HandlersTyped'
  BY <1>1, SameHandlers
<1> QED  BY <1>1, <1>2 DEF TypedInv, CasesTyped

LEMMA TypedInitially == Init => TypedInv
<1> SUFFICES ASSUME Init PROVE TypedInv
  OBVIOUS
<1>a. PICK n \in IF deployment = "demo" THEN {Len(SeedFiles)} ELSE 0..(Len(SeedFiles) - 1) :
        /\ cases = [id \in IF n > 0 THEN {SeedCase} ELSE {} |-> ReviewedCase(SubSeq(SeedDocs, 1, n))]
        /\ rows = {<<SeedCase, SubSeq(SeedDocs, 1, n)[i].id>> : i \in DOMAIN SubSeq(SeedDocs, 1, n)}
  BY DEF Init
<1>1. n \in 0..Len(SeedFiles)
  BY SeedTyped
<1>2. PICK docs \in Seq(Docs) : docs = SubSeq(SeedDocs, 1, n)
  <2>1. n \in Nat /\ n <= Len(SeedDocs)
    BY <1>1, SeedTyped
  <2> QED  BY <2>1, SeedTyped, PrefixTyped
<1>3. CasesTyped
  <2>1. PICK known : known = IF n > 0 THEN {SeedCase} ELSE {}
    OBVIOUS
  <2>2. cases = [id \in known |-> ReviewedCase(docs)] /\ known \subseteq {SeedCase}
    BY <1>a, <1>2, <2>1
  <2>3. IsFiniteSet(known)
    BY <2>2, FS_Singleton, FS_Subset
  <2>4. ReviewedCase(docs) \in Records
    BY NewCaseTyped
  <2> QED  BY <2>2, <2>3, <2>4, IdsFacts DEF CasesTyped
<1>4. rows \subseteq DocumentRow
  <2>1. rows = {<<SeedCase, docs[i].id>> : i \in DOMAIN docs}
    BY <1>a, <1>2
  <2>2. ASSUME NEW i \in DOMAIN docs PROVE docs[i].id \in Ids
    <3>1. docs[i] \in Docs
      OBVIOUS
    <3> QED  BY <3>1 DEF Docs
  <2> QED  BY <2>1, <2>2, IdsFacts DEF DocumentRow
<1>5. Resting \in Handlers /\ Resting.pc = "idle" /\ Resting.docs = <<>>
  BY RestingTyped DEF Resting
<1>6. HandlersTyped
  <2>1. handler = [c \in Calls \cup {Startup} |-> Resting]
    BY DEF Init
  <2>2. \A c \in Calls : CallAt(c, Resting, deployment, api, DOMAIN cases)
    BY <1>5 DEF CallAt, CallSteps
  <2>3. StartAt(Resting, deployment, api, DOMAIN cases, Unrecorded)
    BY <1>5 DEF StartAt
  <2> QED  BY <1>5, <2>1, <2>2, <2>3 DEF HandlersTyped
<1>7. desk \in [case : Ids \cup {NoCase}, version : Nat, docs : Seq(Docs), open : Nat]
  <2>1. <<>> \in Seq(Docs)
    OBVIOUS
  <2> QED  BY <2>1 DEF Init
<1>8. DOMAIN jobs = {} /\ DOMAIN answers = {}
  BY DEF Init
<1> QED  BY <1>3, <1>4, <1>6, <1>7, <1>8 DEF Init, TypedInv

\* A step of a call, of the start, of a reviewer, or one that leaves the cases alone.
CallStep(c) ==
    \/ Send(c) \/ Receive(c) \/ Insert(c) \/ Put(c) \/ RecordDocument(c) \/ Save(c)
    \/ Process(c) \/ Announce(c)
    \/ DemoCreate(c) \/ DemoReceive(c) \/ DemoIntake(c) \/ DemoUpload(c)
StartStep == Seed \/ SeedPut \/ SeedRecord \/ SeedSave \/ Crash

LEMMA StepsOfNext ==
    ASSUME [Next]_vars
    PROVE  \/ \E c \in Calls : CallStep(c)
           \/ StartStep
           \/ \E id \in DOMAIN cases : ReviewStep(id)
           \/ \E j \in DOMAIN jobs : CancelJob(j)
           \/ ReadPage \/ UNCHANGED vars
BY DEF Next, CallStep, StartStep, ReviewStep

LEMMA StepTyped ==
    ASSUME TypedInv, [Next]_vars
    PROVE  TypedInv'
<1>1. ASSUME NEW c \in Calls, CallStep(c) PROVE TypedInv'
  BY <1>1, SendTyped, ReceiveTyped, InsertTyped, PutTyped, RecordTyped, SaveTyped, ProcessTyped,
     AnnounceTyped, DemoCreateTyped, DemoReceiveTyped, DemoIntakeTyped, DemoUploadTyped DEF CallStep
<1>2. CASE StartStep
  BY <1>2, SeedTypes, SeedPutTyped, SeedRecordTyped, SeedSaveTyped, CrashTyped DEF StartStep
<1> QED  BY <1>1, <1>2, ReviewTyped, CancelTyped, PageTypes, StepsOfNext

LEMMA CasesAreTyped == Spec => []TypedInv
BY TypedInitially, StepTyped, PTL DEF Spec

-----------------------------------------------------------------------------
(* Every step writes one case, or none. *)

\* The write of a step that is not the reviewer's: a new case, or one that is as decided and as
\* open as before, in the demo at a further version.
Written(id, record) ==
    /\ id \in Ids /\ record \in Records /\ Write(id, record)
    /\ \/ id \notin DOMAIN cases /\ record.status \in {"processing", "needs_review"}
       \/ /\ id \in DOMAIN cases
          /\ record.status = cases[id].status /\ record.open = cases[id].open
          /\ deployment = "demo" => record.version > cases[id].version

LEMMA NewIsWritten ==
    ASSUME NEW id \in Ids, id \notin DOMAIN cases, NEW docs \in Seq(Docs)
    PROVE  /\ Write(id, NewCase(docs)) => Written(id, NewCase(docs))
           /\ Write(id, ReviewedCase(docs)) => Written(id, ReviewedCase(docs))
           /\ Write(id, [NewCase(docs) EXCEPT !.version = 2]) => Written(id, [NewCase(docs) EXCEPT !.version = 2])
<1>1. /\ NewCase(docs).status = "processing" /\ ReviewedCase(docs).status = "needs_review"
      /\ [NewCase(docs) EXCEPT !.version = 2].status = "processing"
  BY DEF NewCase, ReviewedCase
<1> QED  BY <1>1, NewCaseTyped DEF Written

LEMMA CallWrites ==
    ASSUME TypedInv, NEW c \in Calls, CallStep(c)
    PROVE  UNCHANGED desk /\ (NotUpdated \/ \E id, record : Written(id, record))
<1> <<>> \in Seq(Docs)
  OBVIOUS
<1>1. UNCHANGED desk
  BY DEF CallStep, Send, Receive, Insert, Put, RecordDocument, Save, Process, Announce, DemoCreate, DemoReceive,
     DemoIntake, DemoUpload, Static
<1>2. CASE Send(c) \/ Receive(c) \/ Put(c) \/ RecordDocument(c) \/ Process(c) \/ DemoReceive(c)
  BY <1>1, <1>2 DEF Send, Receive, Put, RecordDocument, Process, DemoReceive
<1>3. CASE Insert(c)
  <2>1. handler[c] \in Handlers /\ CallAt(c, handler[c], deployment, api, DOMAIN cases) /\ handler[c].pc = "insert"
    BY <1>3 DEF Insert, TypedInv, HandlersTyped
  <2>2. handler[c].case \in Ids
    BY <2>1, IdsFacts DEF CallAt
  <2>3. NotUpdated \/ (handler[c].case \notin DOMAIN cases /\ Write(handler[c].case, NewCase(<<>>)))
    BY <1>3 DEF Insert
  <2> QED  BY <1>1, <2>2, <2>3, NewIsWritten
<1>4. CASE Save(c)
  <2> DEFINE id == handler[c].case
  <2>1. CASE NotUpdated
    BY <1>1, <2>1
  <2>2. CASE ~ NotUpdated
    <3>1. /\ Write(id, [cases[id] EXCEPT !.docs = handler[c].docs,
                          !.version = handler[c].version + Len(Call[c].files)])
          /\ id \in DOMAIN cases
          /\ [cases[id] EXCEPT !.docs = handler[c].docs,
                !.version = handler[c].version + Len(Call[c].files)] \in Records
      BY <1>4, <2>2, SaveTyped
    <3>2. PICK record \in Records : record = [cases[id] EXCEPT !.docs = handler[c].docs,
                                                !.version = handler[c].version + Len(Call[c].files)]
      BY <3>1
    <3>3. record.status = cases[id].status /\ record.open = cases[id].open /\ id \in Ids /\ cases[id] \in Records
      BY <3>1, <3>2 DEF Records, TypedInv, CasesTyped
    <3>4. deployment = "production"
      BY <1>4 DEF Save, Serving
    <3> QED  BY <1>1, <3>1, <3>2, <3>3, <3>4 DEF Written
  <2> QED  BY <2>1, <2>2
<1>5. CASE Announce(c)
  <2> DEFINE id == handler[c].case
  <2>1. CASE NotUpdated
    BY <1>1, <2>1
  <2>2. CASE Write(id, [cases[id] EXCEPT !.version = @ + 1])
    <3>1. /\ CallAt(c, handler[c], deployment, api, DOMAIN cases)
          /\ handler[c].pc = "announce" /\ deployment = "production"
      BY <1>5 DEF Announce, Serving, TypedInv, HandlersTyped
    <3>2. id \in DOMAIN cases /\ id \in Ids /\ cases[id] \in Records
      BY <3>1 DEF CallAt, CallSteps, TypedInv, CasesTyped
    <3>3. cases[id].version + 1 \in Nat \ {0}
      BY <3>2 DEF Records
    <3>4. PICK record \in Records : record = [cases[id] EXCEPT !.version = @ + 1]
      BY <3>2, <3>3 DEF Records
    <3>5. record.status = cases[id].status /\ record.open = cases[id].open
      BY <3>2, <3>4 DEF Records
    <3> QED  BY <1>1, <2>2, <3>1, <3>2, <3>4, <3>5 DEF Written
  <2> QED  BY <1>5, <2>1, <2>2 DEF Announce
<1>6. CASE DemoCreate(c)
  <2>1. PICK id \in Ids : id = Mint(Call[c].key) /\ id \notin DOMAIN cases
    BY MintIsNew
  <2>2. NotUpdated \/ Write(id, NewCase(<<>>))
    BY <1>6, <2>1 DEF DemoCreate
  <2> QED  BY <1>1, <2>1, <2>2, NewIsWritten
<1>7. CASE DemoIntake(c)
  <2>1. PICK id \in Ids : id = Mint(Call[c].key) /\ id \notin DOMAIN cases
    BY MintIsNew
  <2>2. PICK docs \in Seq(Docs) :
          docs = [i \in DOMAIN Call[c].files |-> [id |-> <<Call[c].key, i>>, file |-> Call[c].files[i]]]
    BY BatchTyped
  <2>3. NotUpdated \/ Write(id, [NewCase(docs) EXCEPT !.version = 2])
    BY <1>7, <2>1, <2>2 DEF DemoIntake
  <2> QED  BY <1>1, <2>1, <2>2, <2>3, NewIsWritten
<1>8. CASE DemoUpload(c)
  <2> DEFINE id == Call[c].to
  <2>1. PICK doc \in Docs, record \in Records :
          record = [cases[id] EXCEPT !.docs = Append(@, doc)] /\ Touched(id, record) /\ id \in DOMAIN cases
    BY <1>8, DemoUploadTyped
  <2>2. PICK next \in Records :
             /\ Write(id, next) /\ next.version = record.version + 1 /\ next.docs = record.docs
             /\ next.open = record.open /\ next.status = record.status
    BY <2>1, TouchIsReview
  <2>3. cases[id] \in Records /\ id \in Ids
    BY <2>1 DEF TypedInv, CasesTyped
  <2>4. record.status = cases[id].status /\ record.open = cases[id].open /\ record.version = cases[id].version
        /\ cases[id].version \in Nat
    BY <2>1, <2>3 DEF Records
  <2>5. next.version > cases[id].version
    BY <2>2, <2>4
  <2> QED  BY <1>1, <2>1, <2>2, <2>3, <2>4, <2>5 DEF Written
<1> QED  BY <1>2, <1>3, <1>4, <1>5, <1>6, <1>7, <1>8 DEF CallStep

LEMMA StartWrites ==
    ASSUME TypedInv, StartStep
    PROVE  UNCHANGED desk /\ deployment = "production" /\ (NotUpdated \/ \E id, record : Written(id, record))
<1>1. UNCHANGED desk /\ deployment = "production"
  BY DEF StartStep, Seed, SeedPut, SeedRecord, SeedSave, Crash, Static, Seeding
<1>2. CASE SeedPut \/ SeedRecord \/ Crash
  BY <1>1, <1>2 DEF SeedPut, SeedRecord, Crash
<1>3. CASE Seed
  BY <1>1, <1>3, SeedTypes, SeedTyped, IdsFacts, NewIsWritten
<1>4. CASE SeedSave
  <2>1. CASE NotUpdated
    BY <1>1, <2>1
  <2>2. CASE ~ NotUpdated
    <3>1. PICK record \in Records :
            /\ record = [cases[SeedCase] EXCEPT !.docs = cases[SeedCase].docs \o SetToSeq(Additions)]
            /\ Write(SeedCase, record)
      BY <1>4, <2>2, SeedSaveTyped
    <3>2. SeedCase \in DOMAIN cases /\ cases[SeedCase] \in Records
      BY <1>4, SeedSaveTyped DEF TypedInv, CasesTyped
    <3>3. record.status = cases[SeedCase].status /\ record.open = cases[SeedCase].open
      BY <3>1, <3>2 DEF Records
    <3> QED  BY <1>1, <3>1, <3>2, <3>3, IdsFacts DEF Written
  <2> QED  BY <2>1, <2>2
<1> QED  BY <1>2, <1>3, <1>4 DEF StartStep

LEMMA StepWrites ==
    ASSUME TypedInv, [Next]_vars
    PROVE  \/ UNCHANGED desk /\ (NotUpdated \/ ReadPage \/ \E id, record : Written(id, record))
           \/ \E id \in DOMAIN cases : ReviewStep(id) /\ Reviewed(id)
<1>1. CASE UNCHANGED vars
  BY <1>1 DEF vars, NotUpdated
<1>2. ASSUME NEW j \in DOMAIN jobs, CancelJob(j) PROVE UNCHANGED desk /\ NotUpdated
  BY <1>2 DEF CancelJob
<1>3. CASE ReadPage
  BY <1>3 DEF ReadPage
<1> QED  BY <1>1, <1>2, <1>3, StepsOfNext, CallWrites, StartWrites, ReviewTyped

-----------------------------------------------------------------------------
(* The list, and the client that pages through it. *)

\* A case that is written goes to the front, and is no longer one of those the client must see.
LEMMA WriteKeepsList ==
    ASSUME CasesTyped, ListInv, NEW id \in Ids, NEW record \in Records, Write(id, record)
    PROVE  ListInv'
<1> USE DEF ListInv
<1>1. DOMAIN cases' = DOMAIN cases \cup {id}
  BY WriteTyped
<1>o. order \in Seq(Ids) /\ IsInjective(order)
  OBVIOUS
<1>f. PICK t \in Seq(Ids) : IsFronted(order, id, t)
  BY <1>o, MovedToFront
<1>2. /\ t = <<id>> \o RemoveFirst(order, id) /\ Len(t) > 0 /\ t[1] = id
      /\ IsInjective(t)
      /\ ToSet(t) = ToSet(order) \cup {id}
      /\ \A i, j \in 1..Len(order) : order[i] # id /\ order[j] # id /\ i < j =>
           \E a, b \in 1..Len(t) : t[a] = order[i] /\ t[b] = order[j] /\ a < b
  BY <1>f DEF IsFronted
<1>e. \A i, j \in 1..Len(t) : t[i] = t[j] => i = j
  BY <1>2, Elements
<1>3. order' = t /\ reader' = [reader EXCEPT !.watch = @ \ {id}]
  BY <1>2 DEF Write, Updated
<1>4. order' \in Seq(Ids) /\ IsInjective(order') /\ ToSet(order') = DOMAIN cases'
  BY <1>1, <1>2, <1>3
<1>5. /\ reader' \in [pc : {"off", "paging", "done"}, cursor : Ids \cup {NoCase},
                     seen : SUBSET Ids, watch : SUBSET DOMAIN cases']
      /\ reader'.pc = reader.pc /\ reader'.cursor = reader.cursor /\ reader'.seen = reader.seen
      /\ reader'.watch = reader.watch \ {id}
  BY <1>1, <1>3 DEF ReaderInv
<1>6. ASSUME reader.pc = "paging", NEW a \in DOMAIN t, NEW b \in DOMAIN t,
             t[a] = reader.cursor, t[b] \in (reader.watch \ {id}) \ reader.seen
      PROVE  a < b
  <2>1. a \in 1..Len(t) /\ b \in 1..Len(t) /\ 1 \in 1..Len(t)
    BY <1>2
  <2>2. t[b] # id /\ t[b] \in ToSet(order) /\ reader.cursor \in ToSet(order)
    BY <1>6 DEF ReaderInv
  <2>3. CASE reader.cursor = id
    <3>1. a = 1
      BY <1>2, <1>6, <1>e, <2>1, <2>3
    <3>2. b # 1
      BY <1>2, <2>2
    <3> QED  BY <2>1, <3>1, <3>2
  <2>4. CASE reader.cursor # id
    <3>1. PICK i \in 1..Len(order) : order[i] = reader.cursor
      BY <2>2, Elements
    <3>2. PICK j \in 1..Len(order) : order[j] = t[b]
      BY <2>2, Elements
    <3>3. i < j
      <4>1. i \in DOMAIN order /\ j \in DOMAIN order
        OBVIOUS
      <4> QED  BY <1>6, <3>1, <3>2, <4>1 DEF ReaderInv
    <3>4. PICK p \in 1..Len(t), q \in 1..Len(t) : t[p] = order[i] /\ t[q] = order[j] /\ p < q
      BY <1>2, <2>2, <2>4, <3>1, <3>2, <3>3
    <3>5. p = a /\ q = b
      BY <1>6, <1>e, <2>1, <3>1, <3>2, <3>4
    <3> QED  BY <3>4, <3>5
  <2> QED  BY <2>3, <2>4
<1>7. ReaderInv'
  <2>1. reader.pc = "off" => reader'.cursor = NoCase /\ reader'.watch = {}
    BY <1>5 DEF ReaderInv
  <2>2. reader.pc = "paging" => reader'.cursor \in DOMAIN cases'
    BY <1>1, <1>5 DEF ReaderInv
  <2>3. reader.pc = "done" => reader'.watch \subseteq reader'.seen
    BY <1>5 DEF ReaderInv
  <2> QED  BY <1>3, <1>5, <1>6, <2>1, <2>2, <2>3 DEF ReaderInv
<1> QED  BY <1>4, <1>7

\* A page: what the client has still to see is what comes after it.
LEMMA PageKeepsList ==
    ASSUME CasesTyped, ListInv, ReadPage
    PROVE  ListInv'
<1> USE DEF ListInv
<1> DEFINE start == Start(reader.cursor)
           end == IF start + PageSize < Len(order) THEN start + PageSize ELSE Len(order)
<1>1. UNCHANGED <<cases, order>> /\ reader.pc \in {"off", "paging"}
  BY DEF ReadPage, ReaderInv
<1>2. PICK s \in Nat : /\ s = start /\ s <= Len(order)
                       /\ reader.pc = "off" => s = 0
                       /\ reader.pc = "paging" => s \in 1..Len(order) /\ order[s] = reader.cursor
  <2>1. CASE reader.pc = "off"
    BY <2>1 DEF ReaderInv, Start
  <2>2. CASE reader.pc = "paging"
    <3>1. reader.cursor \in Ids /\ reader.cursor \in ToSet(order)
      BY <2>2 DEF ReaderInv, CasesTyped
    <3>2. PICK i \in 1..Len(order) : order[i] = reader.cursor
      BY <3>1, Elements
    <3>3. start = CHOOSE j \in DOMAIN order : order[j] = reader.cursor
      BY <3>1, IdsFacts DEF Start
    <3>4. start \in DOMAIN order /\ order[start] = reader.cursor
      <4>1. i \in DOMAIN order
        OBVIOUS
      <4> QED  BY <3>2, <3>3, <4>1
    <3> QED  BY <2>2, <3>4
  <2> QED  BY <1>1, <2>1, <2>2
<1>3. PICK e \in Nat : e = end /\ s <= e /\ e <= Len(order) /\ (e < Len(order) => e = s + PageSize /\ s < e)
  BY <1>2, CallAssumption
<1>4. /\ SubSeq(order, s + 1, e) \in Seq(Ids) /\ Len(SubSeq(order, s + 1, e)) = e - s
      /\ \A i \in 1..(e - s) : SubSeq(order, s + 1, e)[i] = order[s + i]
  <2>1. \A i \in (s + 1)..e : order[i] \in Ids
    BY <1>3
  <2> QED  BY <1>2, <1>3, <2>1, SubSeqProperties
<1>5. PICK p \in Seq(Ids) : /\ p = SubSeq(order, s + 1, e) /\ Len(p) = e - s
                            /\ \A i \in 1..(e - s) : p[i] = order[s + i]
  BY <1>4
<1>6. reader' = [pc |-> IF e < Len(order) THEN "paging" ELSE "done",
                 cursor |-> IF p = <<>> THEN reader.cursor ELSE Last(p),
                 seen |-> reader.seen \cup ToSet(p),
                 watch |-> IF reader.pc = "off" THEN DOMAIN cases ELSE reader.watch]
  <2>1. s + Len(p) = e
    BY <1>3, <1>5
  <2> QED  BY <1>2, <1>3, <1>5, <2>1 DEF ReadPage
<1>7. \A k \in (s + 1)..e : order[k] \in ToSet(p)
  <2> SUFFICES ASSUME NEW k \in (s + 1)..e PROVE order[k] \in ToSet(p)
    OBVIOUS
  <2>1. k - s \in 1..(e - s) /\ s + (k - s) = k /\ k - s \in 1..Len(p)
    BY <1>3, <1>5
  <2>2. p[k - s] = order[k]
    BY <1>5, <2>1
  <2>3. p[k - s] \in ToSet(p)
    BY <2>1, Elements
  <2> QED  BY <2>2, <2>3
<1>8. ASSUME NEW k \in 1..Len(order), order[k] \in (IF reader.pc = "off" THEN DOMAIN cases ELSE reader.watch),
             order[k] \notin reader.seen \cup ToSet(p)
      PROVE  e < k
  <2>1. s < k
    <3>1. CASE reader.pc = "off"
      BY <1>2, <3>1
    <3>2. CASE reader.pc = "paging"
      <4>1. s \in DOMAIN order /\ k \in DOMAIN order /\ order[s] = reader.cursor
        BY <1>2, <3>2
      <4> QED  BY <1>8, <3>2, <4>1 DEF ReaderInv
    <3> QED  BY <1>1, <3>1, <3>2
  <2>2. k \notin (s + 1)..e
    BY <1>7, <1>8
  <2> QED  BY <1>2, <1>3, <2>1, <2>2
<1>9. ToSet(p) \subseteq DOMAIN cases
  <2> SUFFICES ASSUME NEW y \in ToSet(p) PROVE y \in DOMAIN cases
    OBVIOUS
  <2>1. PICK i \in 1..Len(p) : p[i] = y
    BY Elements
  <2>2. s + i \in 1..Len(order) /\ order[s + i] = y
    BY <1>3, <1>5, <2>1
  <2> QED  BY <2>2, Elements
<1>10. ASSUME e < Len(order)
       PROVE  p # <<>> /\ Last(p) = order[e] /\ e \in 1..Len(order)
  <2>1. e - s \in 1..Len(p) /\ Len(p) = e - s /\ s + (e - s) = e /\ e \in 1..Len(order)
    <3>1. s < e
      BY <1>3, <1>10
    <3>2. s \in Nat /\ e \in Nat /\ Len(order) \in Nat /\ Len(p) = e - s
      BY <1>5
    <3> HIDE <1>2, <1>3, <1>5
    <3> QED  BY <1>10, <3>1, <3>2
  <2>2. p # <<>>
    BY <2>1
  <2> QED  BY <1>5, <2>1, <2>2 DEF Last
<1>11. reader'.seen = reader.seen \cup ToSet(p) /\ reader'.seen \subseteq Ids
       /\ reader'.watch = (IF reader.pc = "off" THEN DOMAIN cases ELSE reader.watch)
       /\ reader'.watch \subseteq DOMAIN cases
  BY <1>6, <1>9 DEF ReaderInv, CasesTyped
<1>12. CASE e < Len(order)
  <2>1. reader'.pc = "paging" /\ reader'.cursor = order[e] /\ order[e] \in DOMAIN cases
    BY <1>6, <1>10, <1>12, Elements
  <2>2. ASSUME NEW i \in DOMAIN order, NEW k \in DOMAIN order, order[i] = order[e],
               order[k] \in reader'.watch \ reader'.seen
        PROVE  i < k
    <3>1. i \in 1..Len(order) /\ k \in 1..Len(order)
      OBVIOUS
    <3>2. i = e
      BY <1>10, <1>12, <2>2, <3>1, Elements
    <3>3. e < k
      BY <1>8, <1>11, <2>2, <3>1
    <3> QED  BY <3>2, <3>3
  <2>3. reader' \in [pc : {"off", "paging", "done"}, cursor : Ids \cup {NoCase},
                     seen : SUBSET Ids, watch : SUBSET DOMAIN cases]
    BY <1>6, <1>10, <1>11, <1>12, <2>1 DEF CasesTyped
  <2> QED  BY <1>1, <2>1, <2>2, <2>3 DEF ReaderInv
<1>13. CASE ~ (e < Len(order))
  <2>1. reader'.pc = "done" /\ e = Len(order)
    BY <1>3, <1>6, <1>13
  <2>2. reader'.watch \subseteq reader'.seen
    <3> SUFFICES ASSUME NEW w \in reader'.watch, w \notin reader'.seen PROVE FALSE
      OBVIOUS
    <3>1. PICK k \in 1..Len(order) : order[k] = w
      BY <1>11, Elements
    <3>2. e < k
      BY <1>8, <1>11, <3>1
    <3> QED  BY <2>1, <3>2
  <2>3. reader'.cursor \in Ids \cup {NoCase}
    <3>1. CASE p = <<>>
      BY <1>6, <3>1 DEF ReaderInv
    <3>2. CASE p # <<>>
      <4>1. Last(p) \in Ids
        BY <3>2 DEF Last
      <4> QED  BY <1>6, <3>2, <4>1
    <3> QED  BY <3>1, <3>2
  <2>4. reader' \in [pc : {"off", "paging", "done"}, cursor : Ids \cup {NoCase},
                     seen : SUBSET Ids, watch : SUBSET DOMAIN cases]
    BY <1>6, <1>11, <2>1, <2>3
  <2> QED  BY <1>1, <2>1, <2>2, <2>4 DEF ReaderInv
<1> QED  BY <1>12, <1>13

LEMMA ListInitially == Init => ListInv
<1> SUFFICES ASSUME Init PROVE ListInv
  OBVIOUS
<1>1. reader = [pc |-> "off", cursor |-> NoCase, seen |-> {}, watch |-> {}]
  BY DEF Init
<1>2. \/ DOMAIN cases = {} /\ order = <<>>
      \/ DOMAIN cases = {SeedCase} /\ order = <<SeedCase>>
  BY DEF Init
<1>3. order \in Seq(Ids) /\ IsInjective(order) /\ ToSet(order) = DOMAIN cases
  <2>1. CASE DOMAIN cases = {} /\ order = <<>>
    BY <2>1 DEF IsInjective, ToSet
  <2>2. CASE DOMAIN cases = {SeedCase} /\ order = <<SeedCase>>
    <3>1. <<SeedCase>> \in Seq(Ids) /\ DOMAIN <<SeedCase>> = {1} /\ <<SeedCase>>[1] = SeedCase
      BY IdsFacts
    <3>2. IsInjective(<<SeedCase>>) /\ ToSet(<<SeedCase>>) = {SeedCase}
      BY <3>1 DEF IsInjective, ToSet
    <3> QED  BY <2>2, <3>1, <3>2
  <2> QED  BY <1>2, <2>1, <2>2
<1> QED  BY <1>1, <1>3 DEF ListInv, ReaderInv

LEMMA StepKeepsList ==
    ASSUME TypedInv, ListInv, [Next]_vars
    PROVE  ListInv'
<1>1. CASE NotUpdated
  BY <1>1 DEF NotUpdated, ListInv, ReaderInv
<1>2. CASE ReadPage
  BY <1>2, PageKeepsList DEF TypedInv
<1>3. ASSUME NEW id \in Ids, NEW record \in Records, Write(id, record) PROVE ListInv'
  BY <1>3, WriteKeepsList DEF TypedInv
<1>4. ASSUME NEW id, NEW record, Written(id, record) PROVE ListInv'
  BY <1>3, <1>4 DEF Written
<1>5. ASSUME NEW id \in DOMAIN cases, Reviewed(id) PROVE ListInv'
  <2>1. id \in Ids
    BY DEF TypedInv, CasesTyped
  <2> QED  BY <1>1, <1>3, <1>5, <2>1 DEF Reviewed
<1> QED  BY <1>1, <1>2, <1>4, <1>5, StepWrites

\* A client that follows the cursor to the end has seen every case that was there when it began
\* and was not written meanwhile, though others moved to the front of the list, whatever the
\* size of a page and the number of cases (listPage).
THEOREM PagesMissNothing == Spec => []UntouchedAreListed
<1>1. Init => TypedInv /\ ListInv
  BY TypedInitially, ListInitially
<1>2. TypedInv /\ ListInv /\ [Next]_vars => (TypedInv /\ ListInv)'
  BY StepTyped, StepKeepsList
<1>3. TypedInv /\ ListInv => UntouchedAreListed
  BY DEF ListInv, ReaderInv, UntouchedAreListed
<1> QED  BY <1>1, <1>2, <1>3, PTL DEF Spec

-----------------------------------------------------------------------------
(* What a reviewer has seen and decides. *)

LEMMA ServiceStays ==
    ASSUME [Next]_vars
    PROVE  UNCHANGED deployment
<1>1. ASSUME NEW c \in Calls, CallStep(c) PROVE UNCHANGED deployment
  BY <1>1 DEF CallStep, Send, Receive, Insert, Put, RecordDocument, Save, Process, Announce, DemoCreate,
     DemoReceive, DemoIntake, DemoUpload, Static
<1>2. CASE StartStep
  BY <1>2 DEF StartStep, Seed, SeedPut, SeedRecord, SeedSave, Crash, Static
<1>3. ASSUME NEW id, ReviewStep(id) PROVE UNCHANGED deployment
  BY <1>3 DEF ReviewStep, Look, CorrectFact, ResolveFinding, ReEvaluate, Reprocess, Decide, Kept
<1>4. ASSUME NEW j, CancelJob(j) PROVE UNCHANGED deployment
  BY <1>4 DEF CancelJob, Kept
<1>5. CASE ReadPage \/ UNCHANGED vars
  BY <1>5 DEF ReadPage, vars
<1> QED  BY <1>1, <1>2, <1>3, <1>4, <1>5, StepsOfNext

\* Nothing, a case of its own, or a further version of a case: what is on the desk stays true.
LEMMA FurtherKeepsDesk ==
    ASSUME CasesTyped, DeskInv, UNCHANGED <<deployment, desk>>,
           NEW id \in Ids, NEW record \in Records, Write(id, record),
           id \in DOMAIN cases /\ deployment = "demo" => record.version > cases[id].version,
           deployment \in {"demo", "production"},
           desk \in [case : Ids \cup {NoCase}, version : Nat, docs : Seq(Docs), open : Nat]
    PROVE  DeskInv'
<1>1. /\ DOMAIN cases' = DOMAIN cases \cup {id} /\ cases'[id] = record
      /\ \A x \in DOMAIN cases : x # id => cases'[x] = cases[x]
  BY WriteTyped
<1>2. CASE desk.case = NoCase
  BY <1>1, <1>2 DEF DeskInv
<1>3. CASE desk.case # NoCase /\ desk.case # id
  BY <1>1, <1>3 DEF DeskInv
<1>4. CASE desk.case # NoCase /\ desk.case = id
  <2>1. id \in DOMAIN cases /\ deployment = "demo" /\ desk.version <= cases[id].version
    BY <1>4 DEF DeskInv, CasesTyped
  <2>2. cases[id].version \in Nat /\ record.version \in Nat /\ desk.version \in Nat
    BY <2>1 DEF CasesTyped, Records
  <2>3. desk.version <= record.version /\ desk.version # record.version
    BY <2>1, <2>2
  <2> QED  BY <1>1, <1>4, <2>1, <2>3 DEF DeskInv
<1> QED  BY <1>2, <1>3, <1>4

LEMMA StepKeepsDesk ==
    ASSUME TypedInv, DeskInv, [Next]_vars
    PROVE  DeskInv'
<1>1. UNCHANGED deployment /\ CasesTyped /\ deployment \in {"demo", "production"}
      /\ desk \in [case : Ids \cup {NoCase}, version : Nat, docs : Seq(Docs), open : Nat]
  BY ServiceStays DEF TypedInv
<1>2. CASE UNCHANGED desk /\ UNCHANGED cases
  BY <1>1, <1>2 DEF DeskInv
<1>3. CASE UNCHANGED desk /\ \E id, record : Written(id, record)
  BY <1>1, <1>3, FurtherKeepsDesk DEF Written
<1>4. ASSUME NEW id \in DOMAIN cases, ReviewStep(id), Reviewed(id) PROVE DeskInv'
  <2>1. CASE Look(id)
    <3>1. /\ desk' = [case |-> id, version |-> cases[id].version, docs |-> cases[id].docs, open |-> cases[id].open]
          /\ UNCHANGED cases /\ deployment = "demo" /\ cases[id] \in Records
      BY <1>1, <2>1 DEF Look, NotUpdated, Edit, Demo, CasesTyped
    <3>2. cases[id].version <= cases[id].version
      BY <3>1 DEF Records
    <3> QED  BY <1>1, <3>1, <3>2 DEF DeskInv
  <2>2. CASE ~ Look(id)
    <3>1. UNCHANGED desk
      BY <1>4, <2>2 DEF ReviewStep, CorrectFact, ResolveFinding, ReEvaluate, Reprocess, Decide
    <3>2. CASE NotUpdated
      BY <1>2, <3>1, <3>2 DEF NotUpdated
    <3>3. CASE ~ NotUpdated
      <4>1. PICK record \in Records : Write(id, record) /\ record.version > cases[id].version
        BY <1>4, <3>3 DEF Reviewed
      <4>2. id \in Ids
        BY <1>1 DEF CasesTyped
      <4> QED  BY <1>1, <3>1, <4>1, <4>2, FurtherKeepsDesk
    <3> QED  BY <3>2, <3>3
  <2> QED  BY <2>1, <2>2
<1> QED  BY <1>2, <1>3, <1>4, StepWrites DEF NotUpdated, ReadPage

\* A decision is on the documents and the findings the reviewer was shown.
LEMMA StepIsSeen ==
    ASSUME TypedInv, DeskInv, [Next]_vars, NEW x \in DOMAIN cases,
           cases'[x].status \in {"approved", "rejected", "request_information"} \ {cases[x].status}
    PROVE  cases[x].docs = desk.docs /\ cases[x].open = desk.open
<1>1. CASE UNCHANGED cases
  BY <1>1
<1>2. ASSUME NEW id, NEW record, Written(id, record) PROVE FALSE
  <2>1. /\ cases'[id] = record /\ \A y \in DOMAIN cases : y # id => cases'[y] = cases[y]
    BY <1>2, WriteTyped DEF Written, TypedInv
  <2> QED  BY <1>2, <2>1 DEF Written
<1>3. ASSUME NEW id \in DOMAIN cases, Reviewed(id)
      PROVE  cases[x].docs = desk.docs /\ cases[x].open = desk.open
  <2>1. CASE NotUpdated
    BY <1>1, <2>1 DEF NotUpdated
  <2>2. CASE ~ NotUpdated
    <3>1. PICK record \in Records :
            /\ Write(id, record)
            /\ \/ record.status = cases[id].status \/ record.status = "needs_review"
               \/ /\ record.status \in {"approved", "rejected", "request_information"}
                  /\ Fresh(id)
      BY <1>3, <2>2 DEF Reviewed
    <3>2. /\ cases'[id] = record /\ \A y \in DOMAIN cases : y # id => cases'[y] = cases[y]
      BY <3>1, WriteTyped DEF TypedInv, CasesTyped
    <3>3. x = id /\ Fresh(id)
      BY <3>1, <3>2
    <3>4. desk.case = id /\ desk.version = cases[id].version /\ desk.case # NoCase
      BY <3>3, IdsFacts DEF Fresh, TypedInv, CasesTyped
    <3> QED  BY <3>3, <3>4 DEF DeskInv
  <2> QED  BY <2>1, <2>2
<1> QED  BY <1>1, <1>2, <1>3, StepWrites DEF NotUpdated, ReadPage

LEMMA DeskInitially == Init => DeskInv
BY DEF Init, DeskInv

\* A decision is on what its reviewer saw: whatever reached the case since the reviewer looked
\* moved its version on, and the decision is refused (the version check of decide).
THEOREM DecisionsAreInformed == Spec => DecidedOnWhatWasSeen
<1>1. Init => TypedInv /\ DeskInv
  BY TypedInitially, DeskInitially
<1>2. TypedInv /\ DeskInv /\ [Next]_vars => (TypedInv /\ DeskInv)'
  BY StepTyped, StepKeepsDesk DEF TypedInv
<1>3. TypedInv /\ DeskInv /\ [Next]_vars =>
        [\A id \in DOMAIN cases :
           cases'[id].status \in {"approved", "rejected", "request_information"} \ {cases[id].status} =>
             cases[id].docs = desk.docs /\ cases[id].open = desk.open]_vars
  BY StepIsSeen
<1> QED  BY <1>1, <1>2, <1>3, PTL DEF Spec, DecidedOnWhatWasSeen

\* Only a decision approves, and it looks at the findings.
LEMMA StepKeepsResolved ==
    ASSUME TypedInv, ApprovedIsResolved, [Next]_vars
    PROVE  ApprovedIsResolved'
<1> SUFFICES ASSUME NEW x \in DOMAIN cases', cases'[x].status = "approved"
             PROVE  cases'[x].open = 0
  BY DEF ApprovedIsResolved
<1>1. CASE UNCHANGED cases
  BY <1>1 DEF ApprovedIsResolved
<1>2. ASSUME NEW id, NEW record, Written(id, record) PROVE cases'[x].open = 0
  <2>1. /\ DOMAIN cases' = DOMAIN cases \cup {id}
        /\ cases'[id] = record /\ \A y \in DOMAIN cases : y # id => cases'[y] = cases[y]
    BY <1>2, WriteTyped DEF Written, TypedInv
  <2> QED  BY <1>2, <2>1 DEF Written, ApprovedIsResolved
<1>3. ASSUME NEW id \in DOMAIN cases, Reviewed(id) PROVE cases'[x].open = 0
  <2>1. CASE NotUpdated
    BY <1>1, <2>1 DEF NotUpdated
  <2>2. CASE ~ NotUpdated
    <3>1. PICK record \in Records :
            /\ Write(id, record)
            /\ record.open = cases[id].open \/ (record.open = cases[id].open - 1 /\ cases[id].open > 0)
            /\ \/ record.status = cases[id].status \/ record.status = "needs_review"
               \/ /\ record.status \in {"approved", "rejected", "request_information"}
                  /\ MayDecide(id, record.status) /\ record.open = cases[id].open
      BY <1>3, <2>2 DEF Reviewed
    <3>2. /\ DOMAIN cases' = DOMAIN cases \cup {id}
          /\ cases'[id] = record /\ \A y \in DOMAIN cases : y # id => cases'[y] = cases[y]
      BY <3>1, WriteTyped DEF TypedInv, CasesTyped
    <3>3. CASE x # id
      BY <3>2, <3>3 DEF ApprovedIsResolved
    <3>4. CASE x = id
      BY <3>1, <3>2, <3>4 DEF ApprovedIsResolved, MayDecide
    <3> QED  BY <3>3, <3>4
  <2> QED  BY <2>1, <2>2
<1> QED  BY <1>1, <1>2, <1>3, StepWrites DEF NotUpdated, ReadPage

LEMMA ResolvedInitially == Init => ApprovedIsResolved
BY DEF Init, ApprovedIsResolved, ReviewedCase

-----------------------------------------------------------------------------
(* The documents of the cases are stored, clean, and stay. *)

\* A validated file is clean.
LEMMA AcceptedIsClean ==
    ASSUME NEW c \in Calls, Accepted(c), Call[c].op # "create", NEW i \in DOMAIN Call[c].files
    PROVE  Clean(Call[c].files[i])
<1>1. \E supported \in {{"pdf"}, {"pdf", "text"}}, maxPages \in {250, 500} :
        ValidateFile(File[Call[c].files[i]], supported, maxPages) = {}
  <2>1. CASE Call[c].op = "intake"
    <3>1. ValidateFile(File[Call[c].files[i]], {"pdf"}, 500) = {}
      BY <2>1 DEF Accepted, ValidateIntakeFiles
    <3> QED  BY <3>1
  <2>2. CASE Call[c].op = "upload"
    <3>1. i = 1
      BY <2>2, FileAssumption
    <3> QED  BY <2>2, <3>1 DEF Accepted
  <2> QED  BY <2>1, <2>2, CallAssumption
<1>2. Call[c].files[i] \in DOMAIN File
  BY FileAssumption
<1>3. PICK f : f = File[Call[c].files[i]]
  OBVIOUS
<1>4. /\ f.bytes \in {"none", "some", "many"} /\ f.declared # "none"
      /\ f.corrupt \/ f.encrypted => f.signature = "pdf"
  BY <1>2, <1>3, FileAssumption
<1>5. PICK supported \in {{"pdf"}, {"pdf", "text"}}, maxPages \in {250, 500} :
        ValidateFile(f, supported, maxPages) = {}
  BY <1>1, <1>3
<1>6. f.bytes = "some"
  BY <1>4, <1>5 DEF ValidateFile
<1>7. /\ f.declared \in {"pdf", "text"} /\ ScanIssues(f) = {}
      /\ DetectMediaType(f) = "pdf" => PdfIssues(f, maxPages) = {}
  BY <1>5, <1>6 DEF ValidateFile
<1>8. f.scan = "clean"
  BY <1>7 DEF ScanIssues
<1>9. DetectMediaType(f) = f.declared
  <2>1. (CASE f.bytes = "none" \/ DetectMediaType(f) = f.declared -> {}
           [] f.bytes # "none" /\ DetectMediaType(f) = "none" -> {"corrupt"}
           [] OTHER -> {"signature_mismatch"}) = {}
    BY <1>5, <1>6 DEF ValidateFile
  <2> QED  BY <1>6, <2>1
<1>10. f.signature = f.declared \/ (f.signature = "none" /\ f.declared = "text")
  BY <1>7, <1>9 DEF DetectMediaType
<1>11. f.declared = "pdf" => ~ f.corrupt /\ ~ f.encrypted
  BY <1>7, <1>9 DEF PdfIssues
<1>12. ~ f.corrupt /\ ~ f.encrypted
  BY <1>4, <1>7, <1>10, <1>11
<1> QED  BY <1>3, <1>6, <1>8, <1>10, <1>12 DEF Clean

\* Rows and objects are not taken away, and a serving process was serving.
StorageGrows ==
    /\ rows \subseteq rows' /\ objects \subseteq objects'
    /\ deployment' = deployment /\ (api' = "serving" => api = "serving")

LEMMA SoundStays ==
    ASSUME StorageGrows, NEW id, NEW docs, DocsSound(id, docs)
    PROVE  DocsSound(id, docs)'
BY DEF StorageGrows, DocsSound, Listable, Stored

\* No document is taken out of a case.
Keeps == \A id \in DOMAIN cases : Listed(id) \subseteq ToSet(cases'[id].docs)

CasesSound == \A id \in DOMAIN cases : DocsSound(id, cases[id].docs)

LEMMA SameCasesSound ==
    ASSUME StorageGrows, CasesSound, UNCHANGED cases
    PROVE  CasesSound' /\ Keeps
BY SoundStays DEF CasesSound, Keeps, Listed

LEMMA WrittenCaseSound ==
    ASSUME StorageGrows, CasesTyped, CasesSound, NEW id \in Ids, NEW record \in Records, Write(id, record),
           DocsSound(id, record.docs)', id \in DOMAIN cases => Listed(id) \subseteq ToSet(record.docs)
    PROVE  CasesSound' /\ Keeps
<1>1. /\ DOMAIN cases' = DOMAIN cases \cup {id} /\ cases'[id] = record
      /\ \A x \in DOMAIN cases : x # id => cases'[x] = cases[x]
  BY WriteTyped
<1>2. ASSUME NEW x \in DOMAIN cases, x # id PROVE DocsSound(x, cases[x].docs)'
  <2>1. PICK docs : docs = cases[x].docs /\ docs = cases'[x].docs
    BY <1>1, <1>2
  <2>2. DocsSound(x, docs)
    BY <2>1 DEF CasesSound
  <2>3. DocsSound(x, docs)'
    BY <2>2, SoundStays
  <2> QED  BY <2>1, <2>3 DEF DocsSound, Listable, Stored
<1>3. CasesSound'
  <2> SUFFICES ASSUME NEW x \in DOMAIN cases'
               PROVE  DocsSound(x, cases[x].docs)'
    BY DEF CasesSound
  <2>1. CASE x = id
    BY <1>1, <2>1 DEF DocsSound, Listable, Stored
  <2>2. CASE x # id
    BY <1>1, <1>2, <2>2
  <2> QED  BY <2>1, <2>2
<1>4. Keeps
  BY <1>1 DEF Keeps, Listed
<1> QED  BY <1>3, <1>4

\* What a handler holds stays as good as it was, whoever writes a case further.
LEMMA HeldStays ==
    ASSUME TypedInv, StorageGrows, NEW c \in Calls, HeldSound(c), handler'[c] = handler[c],
           \/ UNCHANGED cases
           \/ \E id \in Ids, record \in Records :
                Write(id, record) /\ (id \in DOMAIN cases => record.version > cases[id].version)
    PROVE  HeldSound(c)'
<1>1. PICK h \in Handlers : h = handler[c] /\ h = handler'[c]
  BY DEF TypedInv, HandlersTyped
<1>2. Bytes(c)' = Bytes(c)
  BY IdsFacts DEF Bytes, Document
<1>3. h.pc = "record" => Bytes(c)' \in objects'
  BY <1>1, <1>2 DEF HeldSound, StorageGrows
<1>4. ASSUME h.pc \in {"put", "record", "save"}
      PROVE  /\ DocsSound(h.case, h.docs)' /\ h.version <= cases'[h.case].version
             /\ h.version = cases'[h.case].version => ToSet(cases'[h.case].docs) \subseteq ToSet(h.docs)
  <2>1. h.case \in DOMAIN cases /\ cases[h.case] \in Records
    BY <1>1, <1>4 DEF TypedInv, HandlersTyped, CallAt, CallSteps, CasesTyped
  <2>2. /\ DocsSound(h.case, h.docs) /\ h.version <= cases[h.case].version
        /\ h.version = cases[h.case].version => ToSet(cases[h.case].docs) \subseteq ToSet(h.docs)
    BY <1>1, <1>4 DEF HeldSound, Listed
  <2>3. DocsSound(h.case, h.docs)'
    BY <2>2, SoundStays
  <2>4. CASE UNCHANGED cases
    BY <2>2, <2>3, <2>4
  <2>5. ASSUME NEW id \in Ids, NEW record \in Records, Write(id, record),
               id \in DOMAIN cases => record.version > cases[id].version
        PROVE  /\ h.version <= cases'[h.case].version
               /\ h.version = cases'[h.case].version => ToSet(cases'[h.case].docs) \subseteq ToSet(h.docs)
    <3>1. cases'[id] = record /\ \A x \in DOMAIN cases : x # id => cases'[x] = cases[x]
      BY <2>5, WriteTyped DEF TypedInv
    <3>2. CASE h.case # id
      BY <2>1, <2>2, <3>1, <3>2
    <3>3. CASE h.case = id
      <4>1. record.version > cases[id].version /\ cases'[h.case].version = record.version
        BY <2>1, <2>5, <3>1, <3>3
      <4>2. record.version \in Nat /\ cases[id].version \in Nat /\ h.version \in Nat
        BY <2>1, <3>3 DEF Records, Handlers
      <4>3. h.version < record.version
        BY <2>2, <3>3, <4>1, <4>2
      <4> QED  BY <4>1, <4>2, <4>3
    <3> QED  BY <3>2, <3>3
  <2> QED  BY <2>3, <2>4, <2>5
<1> QED  BY <1>1, <1>3, <1>4 DEF HeldSound, Listed

LEMMA SeedStoredStays ==
    ASSUME StorageGrows, SeedStored, UNCHANGED <<handler[Startup]>>,
           \A i \in DOMAIN SeedDocs : <<SeedCase, SeedDocs[i].id>> \in rows' => <<SeedCase, SeedDocs[i].id>> \in rows
    PROVE  SeedStored'
<1>1. Bytes(Startup)' = Bytes(Startup)
  BY DEF Bytes, Document
<1>2. \A i \in DOMAIN SeedDocs \ Unrecorded' : i \in DOMAIN SeedDocs \ Unrecorded
  BY DEF Unrecorded
<1> QED  BY <1>1, <1>2 DEF SeedStored, StorageGrows

\* A step of a call is sound when what it writes is, and what its own handler holds after it.
LEMMA CallKeepsDocs ==
    ASSUME TypedInv, DocsInv, StorageGrows, NEW c \in Calls,
           \A d \in Calls \cup {Startup} : d # c => handler'[d] = handler[d],
           \A i \in DOMAIN SeedDocs : <<SeedCase, SeedDocs[i].id>> \in rows' => <<SeedCase, SeedDocs[i].id>> \in rows,
           \/ UNCHANGED cases
           \/ \E id \in Ids, record \in Records :
                /\ Write(id, record) /\ DocsSound(id, record.docs)'
                /\ id \in DOMAIN cases =>
                     record.version > cases[id].version /\ Listed(id) \subseteq ToSet(record.docs),
           HeldSound(c)'
    PROVE  DocsInv' /\ Keeps
<1>1. CasesSound /\ (\A d \in Calls : HeldSound(d)) /\ SeedStored /\ CasesTyped
  BY DEF DocsInv, CasesSound, TypedInv
<1>2. CasesSound' /\ Keeps
  <2>1. CASE UNCHANGED cases
    BY <1>1, <2>1, SameCasesSound
  <2>2. ASSUME NEW id \in Ids, NEW record \in Records, Write(id, record), DocsSound(id, record.docs)',
               id \in DOMAIN cases => Listed(id) \subseteq ToSet(record.docs)
        PROVE  CasesSound' /\ Keeps
    BY <1>1, <2>2, WrittenCaseSound
  <2> QED  BY <2>1, <2>2
<1>3. ASSUME NEW d \in Calls PROVE HeldSound(d)'
  <2>1. CASE d = c
    BY <2>1 DEF HeldSound, Bytes, Document
  <2>2. CASE d # c
    <3>1. \/ UNCHANGED cases
          \/ \E id \in Ids, record \in Records :
               Write(id, record) /\ (id \in DOMAIN cases => record.version > cases[id].version)
      OBVIOUS
    <3>2. handler'[d] = handler[d] /\ HeldSound(d)
      BY <1>1, <2>2
    <3> QED  BY <3>1, <3>2, HeldStays
  <2> QED  BY <2>1, <2>2
<1>4. SeedStored'
  <2>1. UNCHANGED <<handler[Startup]>>
    BY IdsFacts
  <2> QED  BY <1>1, <2>1, SeedStoredStays
<1> QED  BY <1>2, <1>3, <1>4 DEF DocsInv, CasesSound

\* A handler that does not hold a case has nothing to be sound about.
LEMMA NothingHeld ==
    ASSUME NEW c, handler'[c].pc \notin {"put", "record", "save"}
    PROVE  HeldSound(c)'
BY DEF HeldSound

LEMMA OthersWait ==
    ASSUME TypedInv, NEW c \in Calls, NEW h, handler' = [handler EXCEPT ![c] = h]
    PROVE  handler'[c] = h /\ \A d \in Calls \cup {Startup} : d # c => handler'[d] = handler[d]
BY DEF TypedInv, HandlersTyped

LEMMA HandlerAway ==
    ASSUME TypedInv, NEW c \in Calls, NEW id, Answered(c, id) \/ Refused(c)
    PROVE  HeldSound(c)' /\ \A d \in Calls \cup {Startup} : d # c => handler'[d] = handler[d]
<1>1. PICK h : handler' = [handler EXCEPT ![c] = h] /\ h.pc \in {"answered", "failed"}
  <2>1. /\ [Resting EXCEPT !.pc = "answered", !.case = id].pc = "answered"
        /\ [Resting EXCEPT !.pc = "failed"].pc = "failed"
    BY DEF Resting
  <2>2. CASE Answered(c, id)
    <3>1. handler' = [handler EXCEPT ![c] = [Resting EXCEPT !.pc = "answered", !.case = id]]
      BY <2>2 DEF Answered
    <3> QED  BY <2>1, <3>1
  <2>3. CASE Refused(c)
    <3>1. handler' = [handler EXCEPT ![c] = [Resting EXCEPT !.pc = "failed"]]
      BY <2>3 DEF Refused
    <3> QED  BY <2>1, <3>1
  <2> QED  BY <2>2, <2>3
<1>2. handler'[c] = h /\ \A d \in Calls \cup {Startup} : d # c => handler'[d] = handler[d]
  BY <1>1, OthersWait
<1> QED  BY <1>1, <1>2, NothingHeld

LEMMA HandlerGoesTo ==
    ASSUME TypedInv, NEW c \in Calls, NEW pc, Goto(c, pc)
    PROVE  /\ handler'[c].pc = pc /\ handler'[c] = [handler[c] EXCEPT !.pc = pc]
           /\ \A d \in Calls \cup {Startup} : d # c => handler'[d] = handler[d]
<1>1. handler[c] \in Handlers
  BY DEF TypedInv, HandlersTyped
<1>2. PICK h : h = [handler[c] EXCEPT !.pc = pc]
  OBVIOUS
<1>3. h.pc = pc
  BY <1>1, <1>2 DEF Handlers
<1>4. handler' = [handler EXCEPT ![c] = h]
  BY <1>2 DEF Goto
<1>5. handler'[c] = h /\ \A d \in Calls \cup {Startup} : d # c => handler'[d] = handler[d]
  BY <1>4, OthersWait
<1> QED  BY <1>2, <1>3, <1>5

\* In the demo, and before the process serves, no handler holds a case.
LEMMA DemoHoldsNothing ==
    ASSUME TypedInv, deployment # "production" \/ api # "serving", NEW c \in Calls
    PROVE  handler[c].pc \notin CallSteps
BY DEF TypedInv, HandlersTyped, CallAt

LEMMA SendKeepsDocs ==
    ASSUME TypedInv, DocsInv, NEW c \in Calls, Send(c)
    PROVE  DocsInv' /\ Keeps
<1>1. PICK h : h = [Resting EXCEPT !.pc = "sent"] /\ handler' = [handler EXCEPT ![c] = h]
  BY DEF Send
<1>2. h.pc = "sent"
  BY <1>1 DEF Resting
<1>3. handler'[c] = h /\ \A d \in Calls \cup {Startup} : d # c => handler'[d] = handler[d]
  BY <1>1, OthersWait
<1>4. HeldSound(c)'
  BY <1>2, <1>3, NothingHeld
<1>5. StorageGrows /\ UNCHANGED cases /\ rows' = rows
  BY DEF Send, NotUpdated, StorageGrows
<1> QED  BY <1>3, <1>4, <1>5, CallKeepsDocs

LEMMA ReceiveKeepsDocs ==
    ASSUME TypedInv, DocsInv, NEW c \in Calls, Receive(c)
    PROVE  DocsInv' /\ Keeps
<1>1. StorageGrows /\ UNCHANGED cases /\ rows' = rows
  BY DEF Receive, Static, NotUpdated, StorageGrows
<1>2. HeldSound(c)' /\ \A d \in Calls \cup {Startup} : d # c => handler'[d] = handler[d]
  <2>1. CASE Refused(c) \/ Answered(c, <<Call[c].key, 0>>) \/ Answered(c, Call[c].to)
    BY <2>1, HandlerAway
  <2>2. CASE handler' = [handler EXCEPT ![c].pc = "insert", ![c].case = <<Call[c].key, 0>>]
    <3>1. PICK h : h = [handler[c] EXCEPT !.pc = "insert", !.case = <<Call[c].key, 0>>]
      OBVIOUS
    <3>2. handler' = [handler EXCEPT ![c] = h] /\ h.pc = "insert"
      BY <2>2, <3>1 DEF TypedInv, HandlersTyped, Handlers
    <3>3. handler'[c] = h /\ \A d \in Calls \cup {Startup} : d # c => handler'[d] = handler[d]
      BY <3>2, OthersWait
    <3> QED  BY <3>2, <3>3, NothingHeld
  <2>3. CASE /\ Call[c].to \in DOMAIN cases
             /\ handler' = [handler EXCEPT ![c] =
                  [pc |-> "put", case |-> Call[c].to, at |-> 1,
                   version |-> cases[Call[c].to].version, docs |-> cases[Call[c].to].docs]]
    <3>1. PICK h : h = [pc |-> "put", case |-> Call[c].to, at |-> 1,
                        version |-> cases[Call[c].to].version, docs |-> cases[Call[c].to].docs]
      OBVIOUS
    <3>2. handler' = [handler EXCEPT ![c] = h]
      BY <2>3, <3>1
    <3>3. handler'[c] = h /\ \A d \in Calls \cup {Startup} : d # c => handler'[d] = handler[d]
      BY <3>2, OthersWait
    <3>4. DocsSound(h.case, h.docs)
      BY <2>3, <3>1 DEF DocsInv
    <3>5. DocsSound(h.case, h.docs)'
      BY <1>1, <3>4, SoundStays
    <3>6. /\ h.version <= cases[h.case].version
          /\ ToSet(cases[h.case].docs) \subseteq ToSet(h.docs)
      BY <2>3, <3>1 DEF TypedInv, CasesTyped, Records
    <3>7. HeldSound(c)'
      BY <1>1, <3>1, <3>3, <3>5, <3>6 DEF HeldSound, Listed
    <3> QED  BY <3>3, <3>7
  <2> QED  BY <2>1, <2>2, <2>3 DEF Receive
<1> QED  BY <1>1, <1>2, CallKeepsDocs

LEMMA InsertKeepsDocs ==
    ASSUME TypedInv, DocsInv, NEW c \in Calls, Insert(c)
    PROVE  DocsInv' /\ Keeps
<1>0. PICK id : id = handler[c].case
  OBVIOUS
<1>1. StorageGrows /\ rows' = rows /\ handler[c].pc = "insert"
  BY DEF Insert, Static, StorageGrows
<1>2. id \in Ids /\ handler[c] \in Handlers /\ handler[c].docs = <<>>
  <2>1. CallAt(c, handler[c], deployment, api, DOMAIN cases) /\ handler[c] \in Handlers
    BY DEF TypedInv, HandlersTyped
  <2>2. handler[c].docs = <<>> /\ handler[c].case = <<Call[c].key, 0>>
    BY <1>1, <2>1 DEF CallAt, CallSteps
  <2> QED  BY <1>0, <2>1, <2>2, IdsFacts
<1>3. CASE id \in DOMAIN cases
  <2>1. Answered(c, id) /\ UNCHANGED cases
    BY <1>0, <1>3 DEF Insert, NotUpdated
  <2> QED  BY <1>1, <2>1, HandlerAway, CallKeepsDocs
<1>4. CASE id \notin DOMAIN cases
  <2>1. Write(id, NewCase(<<>>))
    BY <1>0, <1>4 DEF Insert
  <2>2. NewCase(<<>>) \in Records /\ NewCase(<<>>).docs = <<>> /\ NewCase(<<>>).version = 1
    <3>1. <<>> \in Seq(Docs)
      OBVIOUS
    <3> QED  BY <3>1, NewCaseTyped DEF NewCase
  <2>3. DocsSound(id, <<>>)'
    BY DEF DocsSound, DistinctIds, ToSet
  <2>4. cases'[id] = NewCase(<<>>)
    BY <1>2, <2>1, <2>2, WriteTyped DEF TypedInv
  <2>5. HeldSound(c)' /\ \A d \in Calls \cup {Startup} : d # c => handler'[d] = handler[d]
    <3>1. CASE Answered(c, id)
      BY <3>1, HandlerAway
    <3>2. CASE handler' = [handler EXCEPT ![c].pc = "put", ![c].version = 1, ![c].at = 1]
      <4>1. PICK h : h = [handler[c] EXCEPT !.pc = "put", !.version = 1, !.at = 1]
        OBVIOUS
      <4>2. handler' = [handler EXCEPT ![c] = h] /\ h.pc = "put" /\ h.version = 1 /\ h.docs = <<>> /\ h.case = id
        BY <1>0, <1>2, <3>2, <4>1 DEF TypedInv, HandlersTyped, Handlers
      <4>3. handler'[c] = h /\ \A d \in Calls \cup {Startup} : d # c => handler'[d] = handler[d]
        BY <4>2, OthersWait
      <4>4. DocsSound(h.case, h.docs)'
        BY <2>3, <4>2 DEF DocsSound, Listable, Stored
      <4>5. HeldSound(c)'
        BY <2>2, <2>4, <4>2, <4>3, <4>4 DEF HeldSound, Listed
      <4> QED  BY <4>3, <4>5
    <3> QED  BY <1>0, <1>4, <3>1, <3>2 DEF Insert
  <2>6. DocsSound(id, NewCase(<<>>).docs)'
    BY <2>2, <2>3 DEF DocsSound, Listable, Stored
  <2> QED  BY <1>1, <1>2, <1>4, <2>1, <2>2, <2>5, <2>6, CallKeepsDocs
<1> QED  BY <1>3, <1>4

LEMMA PutKeepsDocs ==
    ASSUME TypedInv, DocsInv, NEW c \in Calls, Put(c)
    PROVE  DocsInv' /\ Keeps
<1>1. StorageGrows /\ UNCHANGED cases /\ rows' = rows
  BY DEF Put, PutObject, Static, NotUpdated, StorageGrows
<1>2. CASE Refused(c)
  BY <1>1, <1>2, HandlerAway, CallKeepsDocs
<1>3. CASE Goto(c, "record") /\ Bytes(c) \in objects'
  <2>1. PICK h : h = handler[c] /\ h.pc = "put" /\ h \in Handlers
    BY DEF Put, TypedInv, HandlersTyped
  <2>2. PICK g : g = [h EXCEPT !.pc = "record"]
    OBVIOUS
  <2>3. /\ handler'[c] = g /\ \A d \in Calls \cup {Startup} : d # c => handler'[d] = handler[d]
    BY <1>3, <2>1, <2>2, HandlerGoesTo
  <2>4. g.pc = "record" /\ g.case = h.case /\ g.version = h.version /\ g.docs = h.docs /\ g.at = h.at
    BY <2>1, <2>2 DEF Handlers
  <2>5. Bytes(c)' = Bytes(c)
    BY <2>1, <2>3, <2>4, IdsFacts DEF Bytes, Document
  <2>6. /\ DocsSound(h.case, h.docs) /\ h.version <= cases[h.case].version
        /\ h.version = cases[h.case].version => Listed(h.case) \subseteq ToSet(h.docs)
    BY <2>1 DEF DocsInv, HeldSound
  <2>7. DocsSound(h.case, h.docs)'
    BY <1>1, <2>6, SoundStays
  <2>8. DocsSound(g.case, g.docs)'
    BY <2>4, <2>7
  <2>9. HeldSound(c)'
    BY <1>1, <1>3, <2>3, <2>4, <2>5, <2>6, <2>8 DEF HeldSound, Listed
  <2> QED  BY <1>1, <2>3, <2>9, CallKeepsDocs
<1> QED  BY <1>2, <1>3 DEF Put, PutObject

\* A document is stored before it is recorded, and recorded before it is held.
LEMMA RecordKeepsDocs ==
    ASSUME TypedInv, DocsInv, NEW c \in Calls, RecordDocument(c)
    PROVE  DocsInv' /\ Keeps
<1>1. StorageGrows /\ UNCHANGED cases /\ UNCHANGED objects
  BY DEF RecordDocument, Static, NotUpdated, StorageGrows
<1>2. CASE Refused(c) /\ UNCHANGED rows
  BY <1>1, <1>2, HandlerAway, CallKeepsDocs
<1>3. CASE <<handler[c].case, Document(c).id>> \notin rows
  <2>1. PICK h, doc : h = handler[c] /\ doc = Document(c)
    OBVIOUS
  <2>2. h \in Handlers /\ h.pc = "record" /\ CallAt(c, h, deployment, api, DOMAIN cases) /\ doc \in Docs
    BY <2>1, DocumentTyped DEF RecordDocument, TypedInv, HandlersTyped
  <2>3. /\ deployment = "production" /\ api = "serving" /\ Accepted(c) /\ Call[c].op # "create"
        /\ h.at \in 1..Len(Call[c].files) /\ h.at \in DOMAIN Call[c].files
    BY <2>2, FileAssumption DEF CallAt, CallSteps
  <2>4. /\ doc = [id |-> <<Call[c].key, IF Call[c].op = "intake" THEN h.at ELSE 0>>,
                  file |-> Call[c].files[h.at]]
        /\ doc.id[1] = Call[c].key /\ doc.file = Call[c].files[h.at]
    BY <2>1, <2>2, DocumentTyped
  <2>5. Clean(doc.file)
    BY <2>3, <2>4, AcceptedIsClean
  <2>6. rows' = rows \cup {<<h.case, doc.id>>}
    BY <1>3, <2>1 DEF RecordDocument
  <2>7. <<h.case, doc.id, doc.file>> \in objects
    BY <2>1, <2>2 DEF DocsInv, HeldSound, Bytes
  <2>8. /\ DocsSound(h.case, h.docs) /\ h.version <= cases[h.case].version
        /\ h.version = cases[h.case].version => Listed(h.case) \subseteq ToSet(h.docs)
    BY <2>1, <2>2 DEF DocsInv, HeldSound
  <2>9. PICK docs \in Seq(Docs) : docs = Append(h.docs, doc)
    <3>1. h.docs \in Seq(Docs) /\ doc \in Docs
      BY <2>2 DEF Handlers
    <3>2. Append(h.docs, doc) \in Seq(Docs)
      BY <3>1
    <3> QED  BY <3>2
  <2>10. /\ Len(docs) = Len(h.docs) + 1 /\ docs[Len(h.docs) + 1] = doc
         /\ \A i \in 1..Len(h.docs) : docs[i] = h.docs[i]
         /\ h.docs \in Seq(Docs) /\ Len(h.docs) \in Nat
    BY <2>2, <2>9 DEF Handlers
  <2>11. ToSet(docs) = ToSet(h.docs) \cup {doc}
    BY <2>9, <2>10 DEF ToSet
  <2>12. \A d \in ToSet(h.docs) : d.id # doc.id
    BY <1>3, <2>1, <2>3, <2>8 DEF DocsSound, Listable, Stored
  <2>13. DistinctIds(docs)
    <3> SUFFICES ASSUME NEW i \in 1..Len(docs), NEW j \in 1..Len(docs), docs[i].id = docs[j].id
                 PROVE  i = j
      BY <2>9 DEF DistinctIds
    <3>1. \A k \in 1..Len(h.docs) : h.docs[k] \in ToSet(h.docs)
      BY <2>10, Elements
    <3>2. CASE i \in 1..Len(h.docs) /\ j \in 1..Len(h.docs)
      <4>1. h.docs[i].id = h.docs[j].id /\ DOMAIN h.docs = 1..Len(h.docs)
        BY <2>10, <3>2
      <4> QED  BY <2>8, <3>2, <4>1 DEF DocsSound, DistinctIds
    <3>3. CASE i = Len(h.docs) + 1 /\ j \in 1..Len(h.docs)
      BY <2>10, <2>12, <3>1, <3>3
    <3>4. CASE j = Len(h.docs) + 1 /\ i \in 1..Len(h.docs)
      BY <2>10, <2>12, <3>1, <3>4
    <3>5. CASE i = Len(h.docs) + 1 /\ j = Len(h.docs) + 1
      BY <3>5
    <3> QED  BY <2>10, <3>2, <3>3, <3>4, <3>5
  <2>14. DocsSound(h.case, h.docs)'
    BY <1>1, <2>8, SoundStays
  <2>15. Listable(h.case, doc)'
    BY <1>1, <2>6, <2>7 DEF Listable, Stored
  <2>16. DocsSound(h.case, docs)'
    BY <2>5, <2>11, <2>13, <2>14, <2>15 DEF DocsSound
  <2>17. PICK g : /\ g.pc \in {"put", "save"} /\ g.case = h.case /\ g.version = h.version /\ g.docs = docs
                  /\ handler' = [handler EXCEPT ![c] = g]
    <3>1. PICK k : k = [h EXCEPT !.docs = Append(@, doc), !.at = @ + 1]
      OBVIOUS
    <3>2. PICK p \in {"put", "save"} : p = IF k.at <= Len(Call[c].files) THEN "put" ELSE "save"
      OBVIOUS
    <3>3. k.case = h.case /\ k.version = h.version /\ k.docs = docs /\ DOMAIN k = DOMAIN h
      BY <2>2, <2>9, <3>1 DEF Handlers
    <3>4. PICK g : g = [k EXCEPT !.pc = p]
      OBVIOUS
    <3>5. g.pc = p /\ g.case = h.case /\ g.version = h.version /\ g.docs = docs
      BY <2>2, <3>3, <3>4 DEF Handlers
    <3>6. handler' = [handler EXCEPT ![c] = g]
      BY <1>3, <2>1, <3>1, <3>2, <3>4 DEF RecordDocument
    <3> QED  BY <3>5, <3>6
  <2>18. handler'[c] = g /\ \A d \in Calls \cup {Startup} : d # c => handler'[d] = handler[d]
    BY <2>17, OthersWait
  <2>19. DocsSound(g.case, g.docs)'
    BY <2>16, <2>17
  <2>20. g.version = cases[g.case].version => ToSet(cases[g.case].docs) \subseteq ToSet(g.docs)
    BY <2>8, <2>11, <2>17 DEF Listed
  <2>21. HeldSound(c)'
    BY <1>1, <2>8, <2>17, <2>18, <2>19, <2>20 DEF HeldSound, Listed
  <2>22. \A i \in DOMAIN SeedDocs : <<SeedCase, SeedDocs[i].id>> \in rows' => <<SeedCase, SeedDocs[i].id>> \in rows
    <3>1. \A i \in DOMAIN SeedDocs : SeedDocs[i].id[1] = "seed"
      BY SeedTyped
    <3> QED  BY <2>4, <2>6, <3>1, IdsFacts
  <2> QED  BY <1>1, <2>18, <2>21, <2>22, CallKeepsDocs
<1> QED  BY <1>2, <1>3 DEF RecordDocument

\* The case is saved as it was read, with what its handler stored since: nothing is lost.
LEMMA SaveKeepsDocs ==
    ASSUME TypedInv, DocsInv, NEW c \in Calls, Save(c)
    PROVE  DocsInv' /\ Keeps
<1>1. StorageGrows /\ rows' = rows
  BY DEF Save, Static, StorageGrows
<1>2. PICK h : h = handler[c] /\ h \in Handlers /\ h.pc = "save" /\ CallAt(c, h, deployment, api, DOMAIN cases)
  BY DEF Save, TypedInv, HandlersTyped
<1>3. HeldSound(c)' /\ \A d \in Calls \cup {Startup} : d # c => handler'[d] = handler[d]
  <2>1. CASE Refused(c) \/ Answered(c, handler[c].case)
    BY <2>1, HandlerAway
  <2>2. CASE Goto(c, "process")
    <3>1. handler'[c].pc = "process" /\ \A d \in Calls \cup {Startup} : d # c => handler'[d] = handler[d]
      BY <2>2, HandlerGoesTo
    <3> QED  BY <3>1, NothingHeld
  <2> QED  BY <2>1, <2>2 DEF Save
<1>4. CASE NotUpdated
  BY <1>1, <1>3, <1>4, CallKeepsDocs DEF NotUpdated
<1>5. CASE ~ NotUpdated
  <2>1. PICK record \in Records :
          /\ record = [cases[h.case] EXCEPT !.docs = h.docs, !.version = h.version + Len(Call[c].files)]
          /\ cases[h.case].version = h.version /\ Write(h.case, record) /\ h.case \in DOMAIN cases
    BY <1>2, <1>5, SaveTyped
  <2>2. cases[h.case] \in Records /\ h.case \in Ids
    BY <2>1 DEF TypedInv, CasesTyped
  <2>3. record.docs = h.docs /\ record.version = h.version + Len(Call[c].files)
    BY <2>1, <2>2 DEF Records
  <2>4. Len(Call[c].files) \in Nat \ {0}
    BY <1>2, FilesSent, CallAssumption DEF CallAt, CallSteps
  <2>5. record.version > cases[h.case].version
    BY <1>2, <2>1, <2>3, <2>4 DEF Handlers
  <2>6. DocsSound(h.case, h.docs) /\ Listed(h.case) \subseteq ToSet(record.docs)
    BY <1>2, <2>1, <2>3 DEF DocsInv, HeldSound
  <2>7. DocsSound(h.case, h.docs)'
    BY <1>1, <2>6, SoundStays
  <2>8. DocsSound(h.case, record.docs)'
    BY <2>3, <2>7
  <2> QED  BY <1>1, <1>3, <2>1, <2>2, <2>5, <2>6, <2>8, CallKeepsDocs
<1> QED  BY <1>4, <1>5

LEMMA ProcessKeepsDocs ==
    ASSUME TypedInv, DocsInv, NEW c \in Calls, Process(c)
    PROVE  DocsInv' /\ Keeps
<1>1. StorageGrows /\ UNCHANGED cases /\ rows' = rows
  BY DEF Process, Static, NotUpdated, StorageGrows
<1>2. HeldSound(c)' /\ \A d \in Calls \cup {Startup} : d # c => handler'[d] = handler[d]
  <2>1. CASE Refused(c)
    BY <2>1, HandlerAway
  <2>2. CASE handler' = [handler EXCEPT ![c].pc = "announce", ![c].version = cases[handler[c].case].version]
    <3>1. PICK h : h = [handler[c] EXCEPT !.pc = "announce", !.version = cases[handler[c].case].version]
      OBVIOUS
    <3>2. handler' = [handler EXCEPT ![c] = h] /\ h.pc = "announce"
      BY <2>2, <3>1 DEF TypedInv, HandlersTyped, Handlers
    <3>3. handler'[c] = h /\ \A d \in Calls \cup {Startup} : d # c => handler'[d] = handler[d]
      BY <3>2, OthersWait
    <3> QED  BY <3>2, <3>3, NothingHeld
  <2> QED  BY <2>1, <2>2 DEF Process
<1> QED  BY <1>1, <1>2, CallKeepsDocs

\* A case that goes one version further with the documents it has.
LEMMA AnnounceKeepsDocs ==
    ASSUME TypedInv, DocsInv, NEW c \in Calls, Announce(c)
    PROVE  DocsInv' /\ Keeps
<1>1. StorageGrows /\ rows' = rows
  BY DEF Announce, Static, StorageGrows
<1>2. PICK h : h = handler[c] /\ h \in Handlers /\ h.pc = "announce" /\ CallAt(c, h, deployment, api, DOMAIN cases)
  BY DEF Announce, TypedInv, HandlersTyped
<1>3. HeldSound(c)' /\ \A d \in Calls \cup {Startup} : d # c => handler'[d] = handler[d]
  BY HandlerAway DEF Announce
<1>4. CASE NotUpdated
  BY <1>1, <1>3, <1>4, CallKeepsDocs DEF NotUpdated
<1>5. CASE ~ NotUpdated
  <2>1. h.case \in DOMAIN cases /\ cases[h.case] \in Records /\ h.case \in Ids
    BY <1>2 DEF CallAt, CallSteps, TypedInv, CasesTyped
  <2>2. PICK record \in Records : record = [cases[h.case] EXCEPT !.version = @ + 1]
    <3>1. cases[h.case].version + 1 \in Nat \ {0}
      BY <2>1 DEF Records
    <3> QED  BY <2>1, <3>1 DEF Records
  <2>3. record.docs = cases[h.case].docs /\ record.version > cases[h.case].version
    BY <2>1, <2>2 DEF Records
  <2>4. Write(h.case, record)
    BY <1>2, <1>5, <2>2 DEF Announce
  <2>5. DocsSound(h.case, record.docs)
    BY <2>1, <2>3 DEF DocsInv
  <2>6. DocsSound(h.case, record.docs)'
    BY <1>1, <2>5, SoundStays
  <2> QED  BY <1>1, <1>3, <2>1, <2>3, <2>4, <2>6, CallKeepsDocs DEF Listed
<1> QED  BY <1>4, <1>5

LEMMA DemoCreateKeepsDocs ==
    ASSUME TypedInv, DocsInv, NEW c \in Calls, DemoCreate(c)
    PROVE  DocsInv' /\ Keeps
<1>1. StorageGrows /\ rows' = rows
  BY DEF DemoCreate, StorageGrows
<1>2. HeldSound(c)' /\ \A d \in Calls \cup {Startup} : d # c => handler'[d] = handler[d]
  BY HandlerAway DEF DemoCreate
<1>3. CASE Replayed(c)
  BY <1>1, <1>2, <1>3, CallKeepsDocs DEF DemoCreate, NotUpdated
<1>4. CASE ~ Replayed(c)
  <2>1. PICK id : id = Mint(Call[c].key)
    OBVIOUS
  <2>2. Write(id, NewCase(<<>>)) /\ id \in Ids /\ id \notin DOMAIN cases
    BY <1>4, <2>1, MintIsNew DEF DemoCreate
  <2>3. NewCase(<<>>) \in Records /\ NewCase(<<>>).docs = <<>>
    <3>1. <<>> \in Seq(Docs)
      OBVIOUS
    <3> QED  BY <3>1, NewCaseTyped DEF NewCase
  <2>4. DocsSound(id, NewCase(<<>>).docs)'
    BY <2>3 DEF DocsSound, DistinctIds, ToSet
  <2> QED  BY <1>1, <1>2, <2>2, <2>3, <2>4, CallKeepsDocs
<1> QED  BY <1>3, <1>4

LEMMA DemoReceiveKeepsDocs ==
    ASSUME TypedInv, DocsInv, NEW c \in Calls, DemoReceive(c)
    PROVE  DocsInv' /\ Keeps
<1>1. StorageGrows /\ UNCHANGED cases /\ rows' = rows
  BY DEF DemoReceive, Static, NotUpdated, StorageGrows
<1>2. HeldSound(c)' /\ \A d \in Calls \cup {Startup} : d # c => handler'[d] = handler[d]
  <2>1. CASE Refused(c) \/ Answered(c, Call[c].to)
    BY <2>1, HandlerAway
  <2>2. CASE Goto(c, "validated")
    <3>1. handler'[c].pc = "validated" /\ \A d \in Calls \cup {Startup} : d # c => handler'[d] = handler[d]
      BY <2>2, HandlerGoesTo
    <3> QED  BY <3>1, NothingHeld
  <2> QED  BY <2>1, <2>2 DEF DemoReceive
<1> QED  BY <1>1, <1>2, CallKeepsDocs

LEMMA DemoIntakeKeepsDocs ==
    ASSUME TypedInv, DocsInv, NEW c \in Calls, DemoIntake(c)
    PROVE  DocsInv' /\ Keeps
<1>1. StorageGrows /\ rows' = rows /\ deployment = "demo"
  BY DEF DemoIntake, Demo, StorageGrows
<1>2. HeldSound(c)' /\ \A d \in Calls \cup {Startup} : d # c => handler'[d] = handler[d]
  BY HandlerAway DEF DemoIntake
<1>3. CASE Replayed(c)
  BY <1>1, <1>2, <1>3, CallKeepsDocs DEF DemoIntake, NotUpdated
<1>4. CASE ~ Replayed(c)
  <2>1. PICK id, docs : /\ id = Mint(Call[c].key) /\ docs \in Seq(Docs)
                        /\ docs = [i \in DOMAIN Call[c].files |->
                                     [id |-> <<Call[c].key, i>>, file |-> Call[c].files[i]]]
    BY BatchTyped
  <2>2. /\ DOMAIN docs = DOMAIN Call[c].files
        /\ \A i \in DOMAIN docs : docs[i].id = <<Call[c].key, i>> /\ docs[i].file = Call[c].files[i]
    BY <2>1
  <2>3. id \in Ids /\ id \notin DOMAIN cases
    BY <2>1, MintIsNew
  <2>4. PICK record \in Records : record = [NewCase(docs) EXCEPT !.version = 2]
    BY <2>1, NewCaseTyped
  <2>5. record.docs = docs
    BY <2>4 DEF NewCase
  <2>6. /\ Write(id, record)
        /\ objects' = objects \cup {<<id, docs[i].id, docs[i].file>> : i \in DOMAIN docs}
    BY <1>4, <2>1, <2>4 DEF DemoIntake
  <2>7. Accepted(c) /\ Call[c].op # "create"
    BY DEF DemoIntake, TypedInv, HandlersTyped, CallAt
  <2>8. \A i \in DOMAIN docs : Clean(docs[i].file)
    BY <2>2, <2>7, AcceptedIsClean
  <2>9. \A i \in DOMAIN docs : Listable(id, docs[i])'
    BY <1>1, <2>6 DEF Listable, Stored, StorageGrows
  <2>10. DistinctIds(docs)
    BY <2>2 DEF DistinctIds
  <2>11. DocsSound(id, docs)'
    <3>1. ToSet(docs) = {docs[i] : i \in DOMAIN docs}
      BY DEF ToSet
    <3> QED  BY <2>8, <2>9, <2>10, <3>1 DEF DocsSound
  <2>12. DocsSound(id, record.docs)'
    BY <2>5, <2>11
  <2> QED  BY <1>1, <1>2, <2>3, <2>6, <2>12, CallKeepsDocs
<1> QED  BY <1>3, <1>4

LEMMA DemoUploadKeepsDocs ==
    ASSUME TypedInv, DocsInv, NEW c \in Calls, DemoUpload(c)
    PROVE  DocsInv' /\ Keeps
<1>1. StorageGrows /\ rows' = rows /\ deployment = "demo"
  BY DEF DemoUpload, Demo, StorageGrows
<1>2. HeldSound(c)' /\ \A d \in Calls \cup {Startup} : d # c => handler'[d] = handler[d]
  BY HandlerAway DEF DemoUpload
<1>3. PICK id : id = Call[c].to /\ id \in DOMAIN cases /\ Call[c].op = "upload" /\ Accepted(c)
                /\ cases[id] \in Records /\ id \in Ids
  BY DemoUploadTyped DEF TypedInv, CasesTyped
<1>4. PICK doc \in Docs, touched \in Records :
        /\ doc.id \notin {cases[id].docs[i].id : i \in DOMAIN cases[id].docs}
        /\ doc.file = Call[c].files[1]
        /\ touched = [cases[id] EXCEPT !.docs = Append(@, doc)]
        /\ Touched(id, touched) /\ objects' = objects \cup {<<id, doc.id, doc.file>>}
  BY <1>3, DemoUploadTyped
<1>5. PICK record \in Records : Write(id, record) /\ record.version = touched.version + 1 /\ record.docs = touched.docs
  <2>1. id \in DOMAIN cases /\ Touched(id, touched)
    BY <1>3, <1>4
  <2> QED  BY <2>1, TouchIsReview
<1>6. PICK old \in Seq(Docs), docs \in Seq(Docs) :
        old = cases[id].docs /\ docs = Append(old, doc) /\ record.docs = docs
  BY <1>3, <1>4, <1>5 DEF Records
<1>7. record.version > cases[id].version
  <2>1. touched.version = cases[id].version /\ cases[id].version \in Nat
    BY <1>3, <1>4 DEF Records
  <2> QED  BY <1>5, <2>1
<1>8. /\ Len(docs) = Len(old) + 1 /\ docs[Len(old) + 1] = doc /\ Len(old) \in Nat
      /\ \A i \in 1..Len(old) : docs[i] = old[i] /\ docs[i].id # doc.id
  BY <1>4, <1>6
<1>9. ToSet(docs) = ToSet(old) \cup {doc}
  <2>1. DOMAIN old = 1..Len(old) /\ DOMAIN docs = 1..(Len(old) + 1)
    BY <1>6, <1>8
  <2>2. \A i \in 1..Len(old) : docs[i] = old[i]
    BY <1>8
  <2> QED  BY <1>8, <2>1, <2>2 DEF ToSet
<1>10. DocsSound(id, old)
  BY <1>3, <1>6 DEF DocsInv
<1>11. DocsSound(id, old)'
  BY <1>1, <1>10, SoundStays
<1>12. DistinctIds(docs)
  <2> SUFFICES ASSUME NEW i \in 1..Len(docs), NEW j \in 1..Len(docs), docs[i].id = docs[j].id
               PROVE  i = j
    BY <1>6 DEF DistinctIds
  <2>1. CASE i \in 1..Len(old) /\ j \in 1..Len(old)
    <3>1. old[i].id = old[j].id /\ DOMAIN old = 1..Len(old)
      BY <1>6, <1>8, <2>1
    <3> QED  BY <1>10, <2>1, <3>1 DEF DocsSound, DistinctIds
  <2>2. CASE ~ (i \in 1..Len(old) /\ j \in 1..Len(old))
    BY <1>8, <2>2
  <2> QED  BY <2>1, <2>2
<1>13. Clean(doc.file)
  <2>1. 1 \in DOMAIN Call[c].files
    BY <1>3, FileAssumption
  <2> QED  BY <1>3, <1>4, <2>1, AcceptedIsClean
<1>14. Listable(id, doc)'
  BY <1>1, <1>4 DEF Listable, Stored, StorageGrows
<1>15. DocsSound(id, docs)'
  BY <1>9, <1>11, <1>12, <1>13, <1>14 DEF DocsSound
<1>16. DocsSound(id, record.docs)' /\ Listed(id) \subseteq ToSet(record.docs)
  BY <1>6, <1>9, <1>15 DEF Listed
<1> QED  BY <1>1, <1>2, <1>3, <1>5, <1>7, <1>16, CallKeepsDocs

\* Before the process serves no handler holds a case: only the cases and the seed matter.
LEMMA StartKeepsDocs ==
    ASSUME TypedInv, TypedInv', api' # "serving", CasesSound' /\ Keeps, SeedStored'
    PROVE  DocsInv' /\ Keeps
<1>1. ASSUME NEW c \in Calls PROVE HeldSound(c)'
  <2>1. CallAt(c, handler'[c], deployment', api', DOMAIN cases')
    BY DEF TypedInv, HandlersTyped
  <2>2. handler'[c].pc \notin {"put", "record", "save"}
    BY <2>1 DEF CallAt, CallSteps
  <2> QED  BY <2>2, NothingHeld
<1> QED  BY <1>1 DEF DocsInv, CasesSound

\* The seeded case lists its documents before they are stored.
LEMMA SeedKeepsDocs ==
    ASSUME TypedInv, DocsInv, Seed
    PROVE  DocsInv' /\ Keeps
<1>1. /\ StorageGrows /\ api' = "seeding" /\ rows' = rows /\ objects' = objects /\ deployment' = "production"
      /\ TypedInv' /\ handler'[Startup].pc # "record"
  BY SeedTypes DEF Seed, Seeding, Static, StorageGrows
<1>2. CasesSound /\ SeedStored /\ CasesTyped
  BY DEF DocsInv, CasesSound, TypedInv
<1>3. CASE NotUpdated
  <2>1. CasesSound' /\ Keeps
    BY <1>1, <1>2, <1>3, SameCasesSound DEF NotUpdated
  <2>2. SeedStored'
    BY <1>1, <1>2 DEF SeedStored, Unrecorded
  <2> QED  BY <1>1, <2>1, <2>2, StartKeepsDocs
<1>4. CASE SeedCase \notin DOMAIN cases /\ Write(SeedCase, ReviewedCase(SeedDocs))
  <2>1. ReviewedCase(SeedDocs) \in Records /\ ReviewedCase(SeedDocs).docs = SeedDocs
    BY SeedTyped, NewCaseTyped DEF ReviewedCase
  <2>2. DistinctIds(SeedDocs)
    BY SeedTyped DEF DistinctIds
  <2>3. DocsSound(SeedCase, SeedDocs)'
    BY <1>1, <2>2 DEF DocsSound, Listable
  <2>4. DocsSound(SeedCase, ReviewedCase(SeedDocs).docs)'
    BY <2>1, <2>3
  <2>5. CasesSound' /\ Keeps
    BY <1>1, <1>2, <1>4, <2>1, <2>4, IdsFacts, WrittenCaseSound
  <2>6. SeedStored'
    BY <1>1, <1>2 DEF SeedStored, Unrecorded
  <2> QED  BY <1>1, <2>5, <2>6, StartKeepsDocs
<1> QED  BY <1>3, <1>4, SeedTypes

LEMMA SeedPutKeepsDocs ==
    ASSUME TypedInv, DocsInv, SeedPut
    PROVE  DocsInv' /\ Keeps
<1>1. /\ StorageGrows /\ rows' = rows /\ UNCHANGED cases /\ TypedInv'
      /\ CasesSound /\ SeedStored
  BY SeedPutTyped DEF SeedPut, PutObject, NotUpdated, StorageGrows, Seeding, DocsInv, CasesSound
<1>2. api' # "serving"
  BY DEF SeedPut, Seeding
<1>3. handler'[Startup].pc = "record" => Bytes(Startup)' \in objects'
  <2>1. CASE Refused(Startup)
    <3>1. handler'[Startup] = [Resting EXCEPT !.pc = "failed"]
      BY <2>1 DEF Refused, TypedInv, HandlersTyped
    <3>2. [Resting EXCEPT !.pc = "failed"].pc = "failed"
      BY DEF Resting
    <3> QED  BY <3>1, <3>2
  <2>2. CASE Goto(Startup, "record") /\ Bytes(Startup) \in objects'
    <3>1. handler[Startup] \in Handlers
      BY DEF TypedInv, HandlersTyped
    <3>2. handler'[Startup] = [handler[Startup] EXCEPT !.pc = "record"]
      BY <2>2 DEF Goto, TypedInv, HandlersTyped
    <3>3. handler'[Startup].case = handler[Startup].case /\ handler'[Startup].at = handler[Startup].at
      BY <3>1, <3>2 DEF Handlers
    <3>4. Bytes(Startup)' = Bytes(Startup)
      BY <3>3 DEF Bytes, Document
    <3> QED  BY <2>2, <3>4
  <2> QED  BY <2>1, <2>2 DEF SeedPut, PutObject
<1>4. SeedStored'
  BY <1>1, <1>3 DEF SeedStored, Unrecorded, StorageGrows
<1>5. CasesSound' /\ Keeps
  BY <1>1, SameCasesSound
<1> QED  BY <1>1, <1>2, <1>4, <1>5, StartKeepsDocs

LEMMA SeedRecordKeepsDocs ==
    ASSUME TypedInv, DocsInv, SeedRecord
    PROVE  DocsInv' /\ Keeps
<1>1. /\ StorageGrows /\ UNCHANGED cases /\ UNCHANGED objects /\ api' = "seeding" /\ TypedInv'
      /\ handler'[Startup].pc # "record" /\ handler[Startup].pc = "record"
      /\ Unrecorded' = Unrecorded \ {handler[Startup].at}
  BY SeedRecordTyped DEF SeedRecord, Static, NotUpdated, StorageGrows, Seeding
<1>2. CasesSound /\ SeedStored
  BY DEF DocsInv, CasesSound
<1>3. <<SeedCase, SeedDocs[handler[Startup].at].id, SeedDocs[handler[Startup].at].file>> \in objects
  BY <1>1, <1>2, SeedDocument DEF SeedStored
<1>4. SeedStored'
  BY <1>1, <1>2, <1>3 DEF SeedStored
<1>5. CasesSound' /\ Keeps
  BY <1>1, <1>2, SameCasesSound
<1> QED  BY <1>1, <1>4, <1>5, StartKeepsDocs

\* The process serves once every document of the seed has its row, and so its bytes.
LEMMA SeedSaveKeepsDocs ==
    ASSUME TypedInv, DocsInv, SeedSave
    PROVE  DocsInv' /\ Keeps
<1>1. /\ UNCHANGED <<deployment, rows, objects>> /\ deployment = "production" /\ api = "seeding"
      /\ (\A c \in Calls : handler'[c] = handler[c]) /\ Unrecorded = {}
      /\ handler'[Startup].pc # "record" /\ SeedCase \in DOMAIN cases /\ TypedInv'
  BY SeedSaveTyped DEF SeedSave, Seeding
<1>2. CasesSound /\ SeedStored /\ CasesTyped /\ cases[SeedCase] \in Records
  BY <1>1 DEF DocsInv, CasesSound, TypedInv, CasesTyped
<1>3. \A d \in ToSet(SeedDocs) : Stored(SeedCase, d)
  <2>1. \A i \in DOMAIN SeedDocs :
          /\ <<SeedCase, SeedDocs[i].id, SeedDocs[i].file>> \in objects
          /\ <<SeedCase, SeedDocs[i].id>> \in rows
    BY <1>1, <1>2 DEF SeedStored, Unrecorded
  <2> QED  BY <2>1 DEF Stored, ToSet
<1>4. ASSUME NEW id, NEW docs, DocsSound(id, docs) PROVE DocsSound(id, docs)'
  BY <1>1, <1>3, <1>4 DEF DocsSound, Listable, Stored
<1>5. CasesSound' /\ Keeps
  <2>1. CASE NotUpdated
    BY <1>2, <1>4, <2>1 DEF NotUpdated, CasesSound, Keeps, Listed
  <2>2. CASE ~ NotUpdated
    <3>1. PICK record \in Records, added \in Seq(Docs) :
            /\ record = [cases[SeedCase] EXCEPT !.docs = cases[SeedCase].docs \o added]
            /\ Write(SeedCase, record)
            /\ added = SetToSeq(Additions) /\ ToSet(added) = Additions /\ IsInjective(added)
      BY <2>2, SeedSaveTyped, AdditionsInOrder
    <3>2. PICK old \in Seq(Docs), docs \in Seq(Docs) :
            old = cases[SeedCase].docs /\ docs = old \o added /\ record.docs = docs
      <4>1. cases[SeedCase].docs \in Seq(Docs) /\ record.docs = cases[SeedCase].docs \o added
        BY <1>2, <3>1 DEF Records
      <4>2. cases[SeedCase].docs \o added \in Seq(Docs)
        BY <3>1, <4>1, ConcatProperties
      <4> QED  BY <4>1, <4>2
    <3>3. /\ Len(docs) = Len(old) + Len(added) /\ Len(old) \in Nat /\ Len(added) \in Nat
          /\ \A i \in 1..Len(docs) : docs[i] = IF i <= Len(old) THEN old[i] ELSE added[i - Len(old)]
          /\ DOMAIN old = 1..Len(old) /\ DOMAIN added = 1..Len(added) /\ DOMAIN docs = 1..Len(docs)
      BY <3>1, <3>2, ConcatProperties
    <3>4. /\ \A i \in 1..Len(added) : added[i] \in Additions
          /\ \A i, j \in 1..Len(added) : added[i] = added[j] => i = j
          /\ \A i \in 1..Len(old) : old[i] \in ToSet(old)
      BY <3>1, <3>2, Elements
    <3>5. \A d \in Additions :
            /\ d \in ToSet(SeedDocs) /\ \A i \in 1..Len(old) : old[i].id # d.id
            /\ \A e \in Additions : d.id = e.id => d = e
      <4>1. \A i, j \in DOMAIN SeedDocs : SeedDocs[i].id = SeedDocs[j].id => SeedDocs[i] = SeedDocs[j]
        BY SeedTyped
      <4>2. \A d \in Additions : \E i \in DOMAIN SeedDocs :
              d = SeedDocs[i] /\ d.id \notin {cases[SeedCase].docs[k].id : k \in DOMAIN cases[SeedCase].docs}
        BY DEF Additions
      <4>3. \A d \in Additions : \A i \in 1..Len(old) : old[i].id # d.id
        BY <3>2, <3>3, <4>2
      <4>4. \A d \in Additions : d \in ToSet(SeedDocs)
        BY <4>2 DEF ToSet
      <4> QED  BY <4>1, <4>2, <4>3, <4>4
    <3>6. DocsSound(SeedCase, old)
      BY <1>1, <1>2, <3>2 DEF CasesSound
    <3>7. DocsSound(SeedCase, old)'
      BY <1>4, <3>6
    <3>a. ASSUME NEW i \in 1..Len(docs), i > Len(old)
          PROVE  \E a \in 1..Len(added) : a = i - Len(old) /\ docs[i] = added[a]
      <4>1. i - Len(old) \in 1..Len(added)
        BY <3>3, <3>a
      <4>2. docs[i] = added[i - Len(old)]
        BY <3>3, <3>a
      <4> QED  BY <4>1, <4>2
    <3>8. DistinctIds(docs)
      <4> SUFFICES ASSUME NEW i \in 1..Len(docs), NEW j \in 1..Len(docs), docs[i].id = docs[j].id
                   PROVE  i = j
        BY <3>3 DEF DistinctIds
      <4>1. CASE i <= Len(old) /\ j <= Len(old)
        <5>1. i \in DOMAIN old /\ j \in DOMAIN old /\ old[i].id = old[j].id
          BY <3>3, <4>1
        <5> QED  BY <3>6, <5>1 DEF DocsSound, DistinctIds
      <4>2. CASE i > Len(old) /\ j > Len(old)
        <5>1. PICK a \in 1..Len(added) : a = i - Len(old) /\ docs[i] = added[a]
          BY <3>a, <4>2
        <5>2. PICK b \in 1..Len(added) : b = j - Len(old) /\ docs[j] = added[b]
          BY <3>a, <4>2
        <5>3. a = b
          BY <3>4, <3>5, <5>1, <5>2
        <5> QED  BY <3>3, <5>1, <5>2, <5>3
      <4>3. CASE i <= Len(old) /\ j > Len(old)
        <5>1. PICK b \in 1..Len(added) : b = j - Len(old) /\ docs[j] = added[b]
          BY <3>a, <4>3
        <5>2. docs[i] = old[i] /\ docs[j] = added[b] /\ i \in 1..Len(old)
          BY <3>3, <4>3, <5>1
        <5> QED  BY <3>4, <3>5, <5>2
      <4>4. CASE i > Len(old) /\ j <= Len(old)
        <5>1. PICK a \in 1..Len(added) : a = i - Len(old) /\ docs[i] = added[a]
          BY <3>a, <4>4
        <5>2. docs[j] = old[j] /\ docs[i] = added[a] /\ j \in 1..Len(old)
          BY <3>3, <4>4, <5>1
        <5> QED  BY <3>4, <3>5, <5>2
      <4> QED  BY <3>3, <4>1, <4>2, <4>3, <4>4
    <3>9. ToSet(docs) \subseteq ToSet(old) \cup Additions /\ ToSet(old) \subseteq ToSet(docs)
      <4>1. ASSUME NEW i \in 1..Len(docs) PROVE docs[i] \in ToSet(old) \cup Additions
        <5>1. CASE i <= Len(old)
          BY <3>3, <3>4, <5>1
        <5>2. CASE i > Len(old)
          <6>1. PICK a \in 1..Len(added) : a = i - Len(old) /\ docs[i] = added[a]
            BY <3>a, <5>2
          <6> QED  BY <3>4, <6>1
        <5> QED  BY <3>3, <5>1, <5>2
      <4>2. ToSet(docs) \subseteq ToSet(old) \cup Additions
        BY <3>3, <4>1 DEF ToSet
      <4>3. \A i \in 1..Len(old) : docs[i] = old[i] /\ i \in 1..Len(docs)
        BY <3>3
      <4> QED  BY <3>3, <4>2, <4>3 DEF ToSet
    <3>10. \A d \in Additions : Listable(SeedCase, d)'
      BY <1>1, <1>3, <3>5 DEF Listable, Stored
    <3>11. DocsSound(SeedCase, docs)'
      BY <3>5, <3>7, <3>8, <3>9, <3>10 DEF DocsSound
    <3>12. /\ DOMAIN cases' = DOMAIN cases /\ cases'[SeedCase] = record
           /\ \A x \in DOMAIN cases : x # SeedCase => cases'[x] = cases[x]
      BY <1>1, <1>2, <3>1, IdsFacts, WriteTyped
    <3>13. CasesSound'
      <4> SUFFICES ASSUME NEW x \in DOMAIN cases PROVE DocsSound(x, cases[x].docs)'
        BY <3>12 DEF CasesSound
      <4>1. CASE x = SeedCase
        BY <3>2, <3>11, <3>12, <4>1
      <4>2. CASE x # SeedCase
        <5>1. PICK own : own = cases[x].docs /\ own = cases'[x].docs /\ DocsSound(x, own)
          BY <1>2, <3>12, <4>2 DEF CasesSound
        <5>2. DocsSound(x, own)'
          BY <1>4, <5>1
        <5> QED  BY <5>1, <5>2
      <4> QED  BY <4>1, <4>2
    <3>14. Keeps
      BY <3>2, <3>9, <3>12 DEF Keeps, Listed
    <3> QED  BY <3>13, <3>14
  <2> QED  BY <2>1, <2>2
<1>6. ASSUME NEW c \in Calls PROVE HeldSound(c)'
  <2>1. handler[c].pc \notin CallSteps /\ handler'[c] = handler[c]
    BY <1>1, DemoHoldsNothing
  <2> QED  BY <2>1, NothingHeld DEF CallSteps
<1>7. SeedStored'
  BY <1>1, <1>2 DEF SeedStored, Unrecorded
<1> QED  BY <1>5, <1>6, <1>7 DEF DocsInv, CasesSound

LEMMA CrashKeepsDocs ==
    ASSUME TypedInv, DocsInv, Crash
    PROVE  DocsInv' /\ Keeps
<1>1. /\ StorageGrows /\ UNCHANGED <<rows, objects, cases>> /\ api' = "seeding" /\ TypedInv'
      /\ handler'[Startup].pc = "idle"
  <2>1. /\ UNCHANGED <<deployment, rows, objects, cases>> /\ api' = "seeding"
    BY DEF Crash, NotUpdated
  <2> QED  BY <2>1, CrashTyped DEF StorageGrows
<1>2. CasesSound /\ SeedStored
  BY DEF DocsInv, CasesSound
<1>3. CasesSound' /\ Keeps
  BY <1>1, <1>2, SameCasesSound
<1>4. SeedStored'
  BY <1>1, <1>2 DEF SeedStored, Unrecorded
<1> QED  BY <1>1, <1>3, <1>4, StartKeepsDocs

\* The reviewer writes no documents.
LEMMA ReviewKeepsDocs ==
    ASSUME TypedInv, DocsInv, NEW id \in DOMAIN cases, ReviewStep(id)
    PROVE  DocsInv' /\ Keeps
<1>1. /\ TypedInv' /\ Reviewed(id) /\ StorageGrows /\ UNCHANGED <<deployment, api, rows, objects, handler>>
      /\ deployment = "demo"
  BY ReviewTyped DEF Reviewed, StorageGrows
<1>2. CasesSound /\ SeedStored /\ CasesTyped /\ id \in Ids
  BY DEF DocsInv, CasesSound, TypedInv, CasesTyped
<1>3. CasesSound' /\ Keeps
  <2>1. CASE NotUpdated
    BY <1>1, <1>2, <2>1, SameCasesSound DEF NotUpdated
  <2>2. CASE ~ NotUpdated
    <3>1. PICK record \in Records : Write(id, record) /\ record.docs = cases[id].docs
      BY <1>1, <2>2 DEF Reviewed
    <3>2. DocsSound(id, record.docs)
      BY <1>2, <3>1 DEF CasesSound
    <3>3. DocsSound(id, record.docs)'
      BY <1>1, <3>2, SoundStays
    <3> QED  BY <1>1, <1>2, <3>1, <3>3, WrittenCaseSound DEF Listed
  <2> QED  BY <2>1, <2>2
<1>4. ASSUME NEW c \in Calls PROVE HeldSound(c)'
  <2>1. handler'[c].pc \notin CallSteps
    BY <1>1, DemoHoldsNothing
  <2> QED  BY <2>1, NothingHeld DEF CallSteps
<1>5. SeedStored'
  <2>1. UNCHANGED <<handler[Startup]>>
    BY <1>1
  <2> QED  BY <1>1, <1>2, <2>1, SeedStoredStays
<1> QED  BY <1>3, <1>4, <1>5 DEF DocsInv, CasesSound

LEMMA StepKeepsDocs ==
    ASSUME TypedInv, DocsInv, [Next]_vars
    PROVE  DocsInv' /\ Keeps
<1>1. ASSUME NEW c \in Calls, CallStep(c) PROVE DocsInv' /\ Keeps
  BY <1>1, SendKeepsDocs, ReceiveKeepsDocs, InsertKeepsDocs, PutKeepsDocs, RecordKeepsDocs, SaveKeepsDocs,
     ProcessKeepsDocs, AnnounceKeepsDocs, DemoCreateKeepsDocs, DemoReceiveKeepsDocs, DemoIntakeKeepsDocs,
     DemoUploadKeepsDocs DEF CallStep
<1>2. CASE StartStep
  BY <1>2, SeedKeepsDocs, SeedPutKeepsDocs, SeedRecordKeepsDocs, SeedSaveKeepsDocs, CrashKeepsDocs
     DEF StartStep
<1>3. CASE UNCHANGED <<deployment, api, cases, rows, objects, handler>>
  <2>1. StorageGrows /\ CasesSound /\ SeedStored
    BY <1>3 DEF StorageGrows, DocsInv, CasesSound
  <2>2. CasesSound' /\ Keeps
    BY <1>3, <2>1, SameCasesSound
  <2>3. \A c \in Calls : HeldSound(c)'
    BY <1>3, <2>1, HeldStays DEF DocsInv
  <2>4. SeedStored'
    <3>1. UNCHANGED <<handler[Startup]>> /\ rows' = rows
      BY <1>3
    <3> QED  BY <2>1, <3>1, SeedStoredStays
  <2> QED  BY <2>2, <2>3, <2>4 DEF DocsInv, CasesSound
<1>4. ASSUME NEW j \in DOMAIN jobs, CancelJob(j) PROVE UNCHANGED <<deployment, api, cases, rows, objects, handler>>
  BY <1>4 DEF CancelJob, Kept, NotUpdated
<1>5. CASE ReadPage \/ UNCHANGED vars
  BY <1>3, <1>5, PageTypes
<1> QED  BY <1>1, <1>2, <1>3, <1>4, <1>5, ReviewKeepsDocs, StepsOfNext

LEMMA DocsInitially == Init => DocsInv
<1> SUFFICES ASSUME Init PROVE DocsInv
  OBVIOUS
<1>1. PICK n \in Nat :
        /\ n <= Len(SeedFiles)
        /\ cases = [id \in IF n > 0 THEN {SeedCase} ELSE {} |-> ReviewedCase(SubSeq(SeedDocs, 1, n))]
        /\ rows = {<<SeedCase, SubSeq(SeedDocs, 1, n)[i].id>> : i \in DOMAIN SubSeq(SeedDocs, 1, n)}
        /\ objects = {<<SeedCase, SubSeq(SeedDocs, 1, n)[i].id, SubSeq(SeedDocs, 1, n)[i].file>> :
                        i \in DOMAIN SubSeq(SeedDocs, 1, n)}
  <2>1. PICK n \in IF deployment = "demo" THEN {Len(SeedFiles)} ELSE 0..(Len(SeedFiles) - 1) :
          /\ cases = [id \in IF n > 0 THEN {SeedCase} ELSE {} |-> ReviewedCase(SubSeq(SeedDocs, 1, n))]
          /\ rows = {<<SeedCase, SubSeq(SeedDocs, 1, n)[i].id>> : i \in DOMAIN SubSeq(SeedDocs, 1, n)}
          /\ objects = {<<SeedCase, SubSeq(SeedDocs, 1, n)[i].id, SubSeq(SeedDocs, 1, n)[i].file>> :
                          i \in DOMAIN SubSeq(SeedDocs, 1, n)}
    BY DEF Init
  <2>2. n \in Nat /\ n <= Len(SeedFiles)
    BY SeedTyped
  <2> QED  BY <2>1, <2>2
<1>2. PICK docs \in Seq(Docs) : docs = SubSeq(SeedDocs, 1, n)
  <2>1. Len(SeedDocs) = Len(SeedFiles)
    BY SeedTyped
  <2> QED  BY <1>1, <2>1, SeedTyped, PrefixTyped
<1>3. Len(docs) = n /\ DOMAIN docs = 1..n /\ \A i \in 1..n : docs[i] = SeedDocs[i] /\ i \in DOMAIN SeedDocs
  <2>1. PICK s \in Seq(Docs) : s = SeedDocs /\ Len(s) = Len(SeedFiles) /\ DOMAIN SeedDocs = 1..Len(SeedFiles)
    BY SeedTyped
  <2> QED  BY <1>1, <1>2, <2>1, SubSeqProperties
<1>4. deployment = "demo" \/ api # "serving"
  BY DEF Init
<1>5. \A id \in DOMAIN cases : id = SeedCase /\ cases[id].docs = docs
  BY <1>1, <1>2 DEF ReviewedCase
<1>6. DocsSound(SeedCase, docs)
  <2>1. DistinctIds(docs)
    BY <1>3, SeedTyped DEF DistinctIds
  <2>2. \A d \in ToSet(docs) : d \in ToSet(SeedDocs)
    BY <1>3 DEF ToSet
  <2> QED  BY <1>4, <2>1, <2>2 DEF DocsSound, Listable
<1>7. \A c \in Calls \cup {Startup} : handler[c].pc = "idle"
  BY DEF Init, Resting
<1>8. SeedStored
  <2>1. ASSUME NEW i \in DOMAIN SeedDocs, <<SeedCase, SeedDocs[i].id>> \in rows PROVE i \in 1..n
    <3>1. PICK k \in 1..n : SeedDocs[i].id = SeedDocs[k].id /\ k \in DOMAIN SeedDocs
      BY <1>1, <1>2, <1>3, <2>1
    <3> QED  BY <3>1, SeedTyped
  <2>2. \A i \in 1..n : <<SeedCase, SeedDocs[i].id, SeedDocs[i].file>> \in objects
    BY <1>1, <1>2, <1>3
  <2> QED  BY <1>7, <2>1, <2>2 DEF SeedStored, Unrecorded
<1> QED  BY <1>5, <1>6, <1>7, <1>8 DEF DocsInv, HeldSound

\* Whichever service wrote it: what a case lists is stored and recorded, was clean when it was
\* accepted, and an approved case is resolved (production-cases.service.ts, cases.service.ts).
THEOREM CasesStaySound == Spec => []CasesAreSound
<1>1. Init => TypedInv /\ ListInv /\ DocsInv /\ ApprovedIsResolved
  BY TypedInitially, ListInitially, DocsInitially, ResolvedInitially
<1>2. TypedInv /\ ListInv /\ DocsInv /\ ApprovedIsResolved /\ [Next]_vars
        => (TypedInv /\ ListInv /\ DocsInv /\ ApprovedIsResolved)'
  BY StepTyped, StepKeepsList, StepKeepsDocs, StepKeepsResolved
<1>3. TypedInv /\ ListInv /\ DocsInv /\ ApprovedIsResolved => CasesAreSound
  <2> SUFFICES ASSUME TypedInv, ListInv, DocsInv, ApprovedIsResolved PROVE CasesAreSound
    OBVIOUS
  <2>1. TypeOK
    <3>1. \A j \in DOMAIN jobs : j[1] \in DOMAIN cases
      BY DEF TypedInv
    <3>2. ASSUME NEW id \in DOMAIN cases
          PROVE  IsInjective([i \in DOMAIN cases[id].docs |-> cases[id].docs[i].id])
      BY DEF DocsInv, DocsSound, DistinctIds, IsInjective
    <3> QED  BY <3>1, <3>2 DEF TypeOK, TypedInv, ListInv
  <2>2. ListedIsStored
    BY DEF ListedIsStored, DocsInv, DocsSound, Listed, Listable, Stored
  <2>3. OnlyCleanEvidence
    BY DEF OnlyCleanEvidence, DocsInv, DocsSound, Listed, Clean
  <2> QED  BY <2>1, <2>2, <2>3 DEF CasesAreSound
<1> QED  BY <1>1, <1>2, <1>3, PTL DEF Spec

\* No write takes a document out of a case: a save from an older copy is refused (the version
\* check of updateCase).
THEOREM NoDocumentIsLost == Spec => DocumentsStay
<1>1. Init => TypedInv /\ DocsInv
  BY TypedInitially, DocsInitially
<1>2. TypedInv /\ DocsInv /\ [Next]_vars => (TypedInv /\ DocsInv)'
  BY StepTyped, StepKeepsDocs
<1>3. TypedInv /\ DocsInv /\ [Next]_vars => [\A id \in DOMAIN cases : Listed(id) \subseteq ToSet(cases'[id].docs)]_vars
  BY StepKeepsDocs DEF Keeps
<1> QED  BY <1>1, <1>2, <1>3, PTL DEF Spec, DocumentsStay

-----------------------------------------------------------------------------
(* A key names one case and one job, and a start repeats. *)

LEMMA WriteAdds ==
    ASSUME NEW id, NEW record, Write(id, record)
    PROVE  DOMAIN cases' = DOMAIN cases \cup {id}
BY DEF Write, With

\* Whatever a step adds tells its request; only the answer to an upload is ever replaced.
LEMMA AddedKeys ==
    ASSUME KeysInv, deployment' = deployment,
           \A id \in DOMAIN cases' \ DOMAIN cases :
             /\ deployment = "production" => id[2] = 0
             /\ deployment = "demo" => \E r \in DOMAIN answers' : answers'[r] = id /\ r[2] = id[1] /\ r[1] # "upload",
           \A r \in DOMAIN answers : r \in DOMAIN answers' /\ (r[1] # "upload" => answers'[r] = answers[r]),
           DOMAIN answers' \subseteq DOMAIN answers \cup {Request(c) : c \in Calls},
           \A j \in DOMAIN jobs' \ DOMAIN jobs : j[2] \in {"rules", "pack"} \/ j[1][1] = j[2]
    PROVE  KeysInv'
<1>1. \A c \in Calls : Request(c)' = Request(c)
  BY DEF Request
<1>2. deployment' = "demo" =>
        \A id \in DOMAIN cases' :
          id = SeedCase \/ \E r \in DOMAIN answers' : answers'[r] = id /\ r[2] = id[1] /\ r[1] # "upload"
  <2> SUFFICES ASSUME deployment = "demo", NEW id \in DOMAIN cases, id # SeedCase
               PROVE  \E r \in DOMAIN answers' : answers'[r] = id /\ r[2] = id[1] /\ r[1] # "upload"
    OBVIOUS
  <2>1. PICK r \in DOMAIN answers : answers[r] = id /\ r[2] = id[1] /\ r[1] # "upload"
    BY DEF KeysInv
  <2> QED  BY <2>1
<1> QED  BY <1>1, <1>2 DEF KeysInv

LEMMA SameKeys ==
    ASSUME KeysInv, deployment' = deployment, UNCHANGED answers,
           DOMAIN cases' = DOMAIN cases, DOMAIN jobs' = DOMAIN jobs
    PROVE  KeysInv'
BY AddedKeys

LEMMA CallKeepsKeys ==
    ASSUME TypedInv, KeysInv, NEW c \in Calls, CallStep(c)
    PROVE  KeysInv'
<1>0. deployment' = deployment
  BY ServiceStays DEF Next, CallStep
<1>1. CASE Send(c) \/ Receive(c) \/ Put(c) \/ RecordDocument(c) \/ DemoReceive(c)
  BY <1>0, <1>1, SameKeys DEF Send, Receive, Put, RecordDocument, DemoReceive, Static, NotUpdated
<1>2. CASE Insert(c)
  <2>1. PICK id : id = handler[c].case /\ id = <<Call[c].key, 0>>
    BY <1>2 DEF Insert, TypedInv, HandlersTyped, CallAt, CallSteps
  <2>2. DOMAIN cases' \subseteq DOMAIN cases \cup {id} /\ deployment = "production" /\ UNCHANGED <<answers, jobs>>
    BY <1>2, <2>1, WriteAdds DEF Insert, NotUpdated, Static, Serving
  <2> QED  BY <1>0, <2>1, <2>2, AddedKeys
<1>3. CASE Save(c) \/ Announce(c)
  <2>1. PICK id : id = handler[c].case /\ id \in DOMAIN cases
    BY <1>3 DEF Save, Announce, TypedInv, HandlersTyped, CallAt, CallSteps
  <2>2. DOMAIN cases' = DOMAIN cases /\ UNCHANGED <<answers, jobs>>
    BY <1>3, <2>1, WriteAdds DEF Save, Announce, NotUpdated, Static
  <2> QED  BY <1>0, <2>2, SameKeys
<1>4. CASE Process(c)
  <2>1. PICK id : id = handler[c].case /\ id = <<Call[c].key, 0>>
    BY <1>4 DEF Process, TypedInv, HandlersTyped, CallAt, CallSteps
  <2>2. DOMAIN jobs' = DOMAIN jobs \cup {<<id, Call[c].key>>} /\ UNCHANGED <<answers, cases>>
    BY <1>4, <2>1 DEF Process, With, NotUpdated, Static
  <2> QED  BY <1>0, <2>1, <2>2, AddedKeys
<1>5. CASE DemoCreate(c) \/ DemoIntake(c)
  <2>1. /\ deployment = "demo" /\ Call[c].op # "upload"
    BY <1>5, CallAssumption DEF DemoCreate, DemoIntake, Demo
  <2>2. CASE Replayed(c)
    <3>1. UNCHANGED <<cases, answers, jobs>>
      BY <1>5, <2>2 DEF DemoCreate, DemoIntake, NotUpdated
    <3> QED  BY <1>0, <3>1, SameKeys
  <2>3. CASE ~ Replayed(c)
    <3>1. PICK id : id = Mint(Call[c].key) /\ id[1] = Call[c].key
      BY MintIsNew
    <3>2. DOMAIN cases' = DOMAIN cases \cup {id}
      BY <1>5, <2>3, <3>1, WriteAdds DEF DemoCreate, DemoIntake
    <3>3. answers' = With(answers, Request(c), id)
      BY <1>5, <2>3, <3>1 DEF DemoCreate, DemoIntake, Remember
    <3>4. /\ DOMAIN answers' = DOMAIN answers \cup {Request(c)} /\ answers'[Request(c)] = id
          /\ \A r \in DOMAIN answers : answers'[r] = answers[r]
      BY <2>3, <3>3 DEF With, Replayed
    <3>5. Request(c)[1] # "upload" /\ Request(c)[2] = id[1]
      BY <2>1, <3>1 DEF Request
    <3>6. DOMAIN jobs' \subseteq DOMAIN jobs \cup {<<id, Call[c].key>>}
      BY <1>5, <2>3, <3>1 DEF DemoCreate, DemoIntake, With
    <3> QED  BY <1>0, <2>1, <3>1, <3>2, <3>4, <3>5, <3>6, AddedKeys
  <2> QED  BY <2>2, <2>3
<1>6. CASE DemoUpload(c)
  <2>1. Call[c].to \in DOMAIN cases /\ Call[c].op = "upload"
    BY <1>6, DemoUploadTyped
  <2>2. DOMAIN cases' = DOMAIN cases /\ UNCHANGED jobs /\ answers' = With(answers, Request(c), Call[c].to)
    BY <1>6, <2>1, WriteAdds DEF DemoUpload, Touched, Remember
  <2>3. /\ DOMAIN answers' = DOMAIN answers \cup {Request(c)} /\ Request(c)[1] = "upload"
        /\ \A r \in DOMAIN answers : r # Request(c) => answers'[r] = answers[r]
    BY <2>1, <2>2 DEF With, Request
  <2> QED  BY <1>0, <2>2, <2>3, AddedKeys
<1> QED  BY <1>1, <1>2, <1>3, <1>4, <1>5, <1>6 DEF CallStep

LEMMA StartKeepsKeys ==
    ASSUME TypedInv, KeysInv, StartStep
    PROVE  KeysInv'
<1>0. deployment' = deployment /\ UNCHANGED <<answers, jobs>>
  BY DEF StartStep, Seed, SeedPut, SeedRecord, SeedSave, Crash, Static
<1>1. CASE SeedPut \/ SeedRecord \/ Crash
  BY <1>0, <1>1, SameKeys DEF SeedPut, SeedRecord, Crash, NotUpdated
<1>2. CASE Seed
  <2>1. DOMAIN cases' \subseteq DOMAIN cases \cup {SeedCase} /\ deployment = "production"
    BY <1>2, WriteAdds DEF Seed, Seeding, NotUpdated
  <2> QED  BY <1>0, <2>1, AddedKeys DEF SeedCase
<1>3. CASE SeedSave
  <2>1. SeedCase \in DOMAIN cases
    BY <1>3, SeedSaveTyped
  <2>2. DOMAIN cases' = DOMAIN cases
    BY <1>3, <2>1, WriteAdds DEF SeedSave, NotUpdated
  <2> QED  BY <1>0, <2>2, SameKeys
<1> QED  BY <1>1, <1>2, <1>3 DEF StartStep

\* The reviewer's jobs have keys of their own.
LEMMA ReviewKeepsKeys ==
    ASSUME TypedInv, KeysInv, NEW id \in DOMAIN cases, ReviewStep(id)
    PROVE  KeysInv'
<1>1. UNCHANGED <<deployment, answers>>
  BY ReviewTyped DEF Reviewed
<1>2. DOMAIN cases' = DOMAIN cases
  <2>1. Reviewed(id)
    BY ReviewTyped
  <2> QED  BY <2>1, WriteAdds DEF Reviewed, NotUpdated
<1>3. \A j \in DOMAIN jobs' \ DOMAIN jobs : j[2] \in {"rules", "pack"}
  <2>1. ASSUME NEW key \in {"rules", "pack"}, NEW record, Queue(id, key, record)
        PROVE  DOMAIN jobs' \subseteq DOMAIN jobs \cup {<<id, key>>}
    BY <2>1 DEF Queue, With
  <2>2. CASE ReEvaluate(id)
    BY <2>1, <2>2 DEF ReEvaluate
  <2>3. CASE Reprocess(id)
    BY <2>1, <2>3 DEF Reprocess
  <2>4. CASE ~ ReEvaluate(id) /\ ~ Reprocess(id)
    BY <2>4 DEF ReviewStep, Look, CorrectFact, ResolveFinding, Decide
  <2> QED  BY <2>2, <2>3, <2>4
<1>4. \A r \in DOMAIN answers : r \in DOMAIN answers' /\ answers'[r] = answers[r]
  BY <1>1
<1> QED  BY <1>1, <1>2, <1>3, <1>4, AddedKeys

LEMMA StepKeepsKeys ==
    ASSUME TypedInv, KeysInv, [Next]_vars
    PROVE  KeysInv'
<1>1. ASSUME NEW j \in DOMAIN jobs, CancelJob(j) PROVE KeysInv'
  BY <1>1, SameKeys DEF CancelJob, Kept, NotUpdated
<1>2. CASE ReadPage \/ UNCHANGED vars
  BY <1>2, PageTypes, SameKeys
<1> QED  BY <1>1, <1>2, CallKeepsKeys, StartKeepsKeys, ReviewKeepsKeys, StepsOfNext

LEMMA KeysInitially == Init => KeysInv
BY DEF Init, KeysInv, SeedCase

\* A start that storage did not fail fails on an object without its row.
LEMMA StepKeepsRepeatable ==
    ASSUME TypedInv, SeedIsRepeatable, [Next]_vars
    PROVE  SeedIsRepeatable'
<1>1. CASE UNCHANGED <<api, used, objects, rows>>
  BY <1>1 DEF SeedIsRepeatable
<1>2. CASE api' # "stuck"
  BY <1>2 DEF SeedIsRepeatable
<1>3. ASSUME NEW c \in Calls, CallStep(c) PROVE api' # "stuck"
  <2>1. api' = api /\ (api = "serving" \/ deployment = "demo")
    BY <1>3 DEF CallStep, Send, Receive, Insert, Put, RecordDocument, Save, Process, Announce, DemoCreate,
       DemoReceive, DemoIntake, DemoUpload, Static, Serving, Demo
  <2> QED  BY <2>1 DEF TypedInv
<1>4. CASE SeedPut
  <2>1. UNCHANGED rows /\ handler[Startup].pc = "put"
    BY <1>4 DEF SeedPut
  <2>2. /\ <<SeedCase, Document(Startup).id>> \notin rows
        /\ Bytes(Startup) = <<SeedCase, Document(Startup).id, Document(Startup).file>>
    BY <2>1, SeedDocument
  <2>3. CASE Bytes(Startup) \in objects'
    BY <2>1, <2>2, <2>3 DEF SeedIsRepeatable
  <2>4. CASE Use("faults", MaxFaults)
    BY <2>4, UseTyped DEF SeedIsRepeatable
  <2> QED  BY <1>4, <2>3, <2>4 DEF SeedPut, PutObject
<1>5. CASE StartStep /\ ~ SeedPut
  BY <1>2, <1>5 DEF StartStep, Seed, SeedRecord, SeedSave, Crash, Seeding, Static
<1>6. ASSUME NEW id, ReviewStep(id) PROVE api' # "stuck"
  <2>1. api' = api /\ deployment = "demo"
    BY <1>6 DEF ReviewStep, Look, CorrectFact, ResolveFinding, ReEvaluate, Reprocess, Decide, Kept, Edit, Demo
  <2> QED  BY <2>1 DEF TypedInv
<1>7. ASSUME NEW j, CancelJob(j) PROVE api' # "stuck"
  <2>1. api' = api /\ deployment = "demo"
    BY <1>7 DEF CancelJob, Kept, Edit, Demo
  <2> QED  BY <2>1 DEF TypedInv
<1>8. CASE ReadPage \/ UNCHANGED vars
  BY <1>1, <1>8, PageTypes
<1> QED  BY <1>2, <1>3, <1>4, <1>5, <1>6, <1>7, <1>8, StepsOfNext

\* A set whose members are all the same has one at most.
LEMMA AtMostOne ==
    ASSUME NEW S, \A x, y \in S : x = y
    PROVE  Cardinality(S) <= 1
<1>1. CASE S = {}
  BY <1>1, FS_EmptySet
<1>2. CASE S # {}
  <2>1. PICK x : S = {x}
    BY <1>2
  <2> QED  BY <2>1, FS_Singleton
<1> QED  BY <1>1, <1>2

LEMMA KeysAreUnique ==
    ASSUME TypedInv, KeysInv
    PROVE  OncePerKey
<1> SUFFICES ASSUME NEW c \in Calls, Call[c].op # "upload"
             PROVE  /\ Cardinality({id \in DOMAIN cases : id[1] = Call[c].key}) <= 1
                    /\ Cardinality({j \in DOMAIN jobs : j[2] = Call[c].key}) <= 1
  BY DEF OncePerKey
<1>1. ASSUME NEW x \in DOMAIN cases, NEW y \in DOMAIN cases, x[1] = Call[c].key, y[1] = Call[c].key
      PROVE  x = y
  <2>1. x \in Ids /\ y \in Ids
    BY DEF TypedInv, CasesTyped
  <2>2. x = <<x[1], x[2]>> /\ y = <<y[1], y[2]>>
    BY <2>1 DEF Ids
  <2>3. CASE deployment = "production"
    BY <1>1, <2>2, <2>3 DEF KeysInv
  <2>4. CASE deployment = "demo"
    <3>1. x # SeedCase /\ y # SeedCase
      BY <1>1, IdsFacts DEF SeedCase
    <3>2. PICK r \in DOMAIN answers : answers[r] = x /\ r[2] = x[1]
      BY <2>4, <3>1 DEF KeysInv
    <3>3. PICK s \in DOMAIN answers : answers[s] = y /\ s[2] = y[1]
      BY <2>4, <3>1 DEF KeysInv
    <3>4. PICK d \in Calls, e \in Calls : r = Request(d) /\ s = Request(e)
      BY <3>2, <3>3 DEF KeysInv
    <3>5. Call[d].key = Call[e].key
      BY <1>1, <3>2, <3>3, <3>4 DEF Request
    <3>6. r = s
      BY <3>4, <3>5, KeyAssumption DEF Request
    <3> QED  BY <3>2, <3>3, <3>6
  <2> QED  BY <2>3, <2>4 DEF TypedInv
<1>2. ASSUME NEW j \in DOMAIN jobs, NEW k \in DOMAIN jobs, j[2] = Call[c].key, k[2] = Call[c].key
      PROVE  j = k
  <2>1. j[1] \in DOMAIN cases /\ k[1] \in DOMAIN cases /\ j = <<j[1], j[2]>> /\ k = <<k[1], k[2]>>
    BY DEF TypedInv
  <2>2. j[1][1] = Call[c].key /\ k[1][1] = Call[c].key
    BY <1>2, KeyAssumption DEF KeysInv
  <2> QED  BY <1>1, <1>2, <2>1, <2>2
<1> QED  BY <1>1, <1>2, AtMostOne

\* A request sent again, or a start made again, has its effect once: an idempotency key names
\* one case and one job, and only a fault of storage or a start that died between the object and
\* its row makes a start fail.
THEOREM RepeatsStayHarmless == Spec => []RepeatsAreHarmless
<1>1. Init => TypedInv /\ KeysInv /\ SeedIsRepeatable
  BY TypedInitially, KeysInitially DEF Init, SeedIsRepeatable
<1>2. TypedInv /\ KeysInv /\ SeedIsRepeatable /\ [Next]_vars => (TypedInv /\ KeysInv /\ SeedIsRepeatable)'
  BY StepTyped, StepKeepsKeys, StepKeepsRepeatable
<1>3. TypedInv /\ KeysInv /\ SeedIsRepeatable => RepeatsAreHarmless
  BY KeysAreUnique DEF RepeatsAreHarmless
<1> QED  BY <1>1, <1>2, <1>3, PTL DEF Spec

=============================================================================
