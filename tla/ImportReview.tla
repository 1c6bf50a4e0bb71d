---------------------------- MODULE ImportReview ----------------------------
(***************************************************************************)
(* The import of receipts: OcrProcessingService (upload, approve, reject), *)
(* the BullMQ queue "ocr-processing" and OcrWorker, over one table of      *)
(* ImportBatchItem rows that all of them update without a lock.            *)
(*                                                                         *)
(* An approval books its lines through TransactionService.  That service   *)
(* is a clerk that books a line at once or refuses it (Ledger implements   *)
(* AccountBook), and its transactions are its own: nothing the approval    *)
(* does later takes a booked line back.                                    *)
(***************************************************************************)
EXTENDS Integers, Sequences, FiniteSets

CONSTANTS
    Item,         \* ImportBatchItem ids, one for each upload
    Call,         \* invocations of the service
    Workload,     \* the assignments of a request to every call that are explored
    NoRow,        \* a null transactionId
    Concurrency,  \* jobs the worker processes side by side
    MaxStalls,    \* times BullMQ takes a job back from a worker that died
    MaxCrashes,   \* bound on the crashes of a behaviour
    Faults        \* what may go wrong: "crash", "database" (a failing update)

ImportStatus == {"PROCESSING", "PENDING_REVIEW", "APPROVED", "REJECTED", "ERROR"}

\* A line of an approval: one the ledger books, one it refuses (balance, account,
\* category), or one the validation of selectedItems would refuse.
Line == {"good", "refused", "invalid"}

\* The pipe takes a JPEG, PNG or WebP of 5 MB at most.
UploadRequest == [op: {"upload"}, item: Item, file: {"image", "other"}]
ApproveRequest == [op: {"approve"}, item: Item, multi: BOOLEAN, lines: Seq(Line)]
RejectRequest == [op: {"reject"}, item: Item]

ASSUME ReviewAssumption ==
    /\ \A w \in Workload : /\ w \in [Call -> UploadRequest \cup ApproveRequest \cup RejectRequest]
                           /\ \A c \in Call : w[c].op = "approve" => w[c].lines # <<>>
    /\ {Concurrency, MaxStalls, MaxCrashes} \subseteq Nat
    /\ Faults \subseteq {"crash", "database"}
    /\ NoRow \notin [by: Call, line: Nat]

VARIABLES
    req,        \* the request of each call
    pc,         \* how far each call has come
    status,     \* ImportBatchItem.status, ABSENT before the upload
    link,       \* ImportBatchItem.transactionId
    parsed,     \* whether parsedData is there
    job,        \* the BullMQ job of each item
    stalls,     \* its stalled counter
    worker,     \* how far the worker has come with it
    booked,     \* the committed Transaction rows, each with the line it is of
    crashes,    \* crashes so far
    mute,       \* history: the items whose ERROR could not be written
    hurried     \* history: the items on which a call met another, or the worker

calls == <<req, pc>>
rows == <<status, link, parsed>>
queue == <<job, stalls, worker, mute>>
vars == <<req, pc, status, link, parsed, job, stalls, worker, booked, crashes, mute, hurried>>

Terminal == {"ok", "failed", "lost"}
Row == [by: Call, line: Nat]

Init ==
    /\ req \in Workload
    /\ pc = [c \in Call |-> "idle"]
    /\ status = [i \in Item |-> "ABSENT"]
    /\ link = [i \in Item |-> NoRow]
    /\ parsed = [i \in Item |-> FALSE]
    /\ job = [i \in Item |-> "none"]
    /\ stalls = [i \in Item |-> 0]
    /\ worker = [i \in Item |-> "idle"]
    /\ booked = {}
    /\ crashes = 0
    /\ mute = {} /\ hurried = {}

GoTo(c, p) == pc' = [pc EXCEPT ![c] = p]
Asks(c, op) == pc[c] = "idle" /\ req[c].op = op

-----------------------------------------------------------------------------
(* processImportRequest *)

\* The file is stored, the batch and its item are created.
Upload(c) ==
    /\ Asks(c, "upload") /\ req[c].file = "image" /\ status[req[c].item] = "ABSENT"
    /\ GoTo(c, "created")
    /\ status' = [status EXCEPT ![req[c].item] = "PROCESSING"]
    /\ UNCHANGED <<req, link, parsed, queue, booked, crashes>>

\* The file is refused, the storage or the database fails.
RefuseUpload(c) ==
    /\ Asks(c, "upload")
    /\ GoTo(c, "failed")
    /\ UNCHANGED <<req, rows, queue, booked, crashes>>

\* The job is added once the item is committed, without options.
Enqueue(c) ==
    /\ pc[c] = "created"
    /\ GoTo(c, "ok")
    /\ job' = [job EXCEPT ![req[c].item] = "waiting"]
    /\ UNCHANGED <<req, rows, stalls, worker, mute, booked, crashes>>

\* Redis does not take it: the caller gets an error, the item stays as it is.
EnqueueFails(c) ==
    /\ pc[c] = "created"
    /\ GoTo(c, "failed")
    /\ UNCHANGED <<req, rows, queue, booked, crashes>>

-----------------------------------------------------------------------------
(* OcrWorker.process and the queue around it *)

TakeUp(i) ==
    /\ job[i] = "waiting"
    /\ Cardinality({j \in Item : job[j] = "active"}) < Concurrency
    /\ job' = [job EXCEPT ![i] = "active"]
    /\ worker' = [worker EXCEPT ![i] = "reading"]
    /\ UNCHANGED <<calls, rows, stalls, mute, booked, crashes>>

WorkerTo(i, w) == worker' = [worker EXCEPT ![i] = w]

\* Some provider of the chain reads the image; or the download or all of them fail.
Recognise(i) ==
    /\ worker[i] = "reading"
    /\ \E w \in {"parsed", "failing"} : WorkerTo(i, w)
    /\ UNCHANGED <<calls, rows, job, stalls, mute, booked, crashes>>

\* Variant: the result is stored, the status is forgotten.
StoreWithoutStatus(i) ==
    /\ worker[i] = "parsed"
    /\ WorkerTo(i, "finished")
    /\ parsed' = [parsed EXCEPT ![i] = TRUE]
    /\ UNCHANGED <<calls, status, link, job, stalls, mute, booked, crashes>>

\* The result is written whatever the status has become meanwhile.
StoreResult(i) ==
    /\ worker[i] = "parsed"
    /\ WorkerTo(i, "finished")
    /\ status' = [status EXCEPT ![i] = "PENDING_REVIEW"]
    /\ parsed' = [parsed EXCEPT ![i] = TRUE]
    /\ UNCHANGED <<calls, link, job, stalls, mute, booked, crashes>>

StoreResultFails(i) ==
    /\ worker[i] = "parsed" /\ "database" \in Faults
    /\ WorkerTo(i, "failing")
    /\ UNCHANGED <<calls, rows, job, stalls, mute, booked, crashes>>

\* Variant: the error is thrown without a word to the item.
ThrowOnly(i) ==
    /\ worker[i] = "failing"
    /\ WorkerTo(i, "thrown")
    /\ UNCHANGED <<calls, rows, job, stalls, mute, booked, crashes>>

StoreError(i) ==
    /\ worker[i] = "failing"
    /\ WorkerTo(i, "thrown")
    /\ status' = [status EXCEPT ![i] = "ERROR"]
    /\ UNCHANGED <<calls, link, parsed, job, stalls, mute, booked, crashes>>

StoreErrorFails(i) ==
    /\ worker[i] = "failing" /\ "database" \in Faults
    /\ WorkerTo(i, "thrown")
    /\ mute' = mute \cup {i}
    /\ UNCHANGED <<calls, rows, job, stalls, booked, crashes>>

\* The queue learns the outcome.  A job added without `attempts` has one.
Acknowledge(i) ==
    /\ worker[i] \in {"finished", "thrown"}
    /\ job' = [job EXCEPT ![i] = IF worker[i] = "finished" THEN "completed" ELSE "failed"]
    /\ WorkerTo(i, "idle")
    /\ UNCHANGED <<calls, rows, stalls, mute, booked, crashes>>

-----------------------------------------------------------------------------
(* approveImport *)

RowsOf(c) == {r \in booked : r.by = c}
NextLine(c) == Cardinality(RowsOf(c)) + 1
AllBooked(c) == NextLine(c) > Len(req[c].lines)

\* With selectedItems every line is validated before the first is booked.
Valid(c) == req[c].multi => \A n \in DOMAIN req[c].lines : req[c].lines[n] # "invalid"

\* Variant: the status of the item is not looked at.
ReadAnyForApproval(c) ==
    /\ Asks(c, "approve") /\ Valid(c)
    /\ status[req[c].item] # "ABSENT"
    /\ GoTo(c, "booking")
    /\ UNCHANGED <<req, rows, queue, booked, crashes>>

\* The status is read once, before anything is booked.
ReadForApproval(c) ==
    /\ Asks(c, "approve") /\ Valid(c)
    /\ status[req[c].item] = "PENDING_REVIEW"
    /\ GoTo(c, "booking")
    /\ UNCHANGED <<req, rows, queue, booked, crashes>>

RefuseApproval(c) ==
    /\ Asks(c, "approve")
    /\ status[req[c].item] # "PENDING_REVIEW" \/ ~Valid(c)
    /\ GoTo(c, "failed")
    /\ UNCHANGED <<req, rows, queue, booked, crashes>>

\* createTransaction with an idempotency key of its own.  An amount that the
\* validation of selectedItems would refuse passes in the other flow.
BookLine(c) ==
    /\ pc[c] = "booking" /\ ~AllBooked(c)
    /\ req[c].lines[NextLine(c)] # "refused"
    /\ booked' = booked \cup {[by |-> c, line |-> NextLine(c)]}
    /\ UNCHANGED <<calls, rows, queue, crashes>>

\* createTransaction throws: a rule, or a conflict with another transaction.
\* The surrounding $transaction holds none of the rows already booked.
LineFails(c) ==
    /\ pc[c] = "booking" /\ ~AllBooked(c)
    /\ GoTo(c, "failed")
    /\ UNCHANGED <<req, rows, queue, booked, crashes>>

\* Variant: the item is marked when the first line is on its way.
MarkEarly(c) ==
    /\ pc[c] = "booking"
    /\ GoTo(c, IF req[c].multi THEN "closing" ELSE "ok")
    /\ status' = [status EXCEPT ![req[c].item] = "APPROVED"]
    /\ link' = [link EXCEPT ![req[c].item] = [by |-> c, line |-> Len(req[c].lines)]]
    /\ UNCHANGED <<req, parsed, queue, booked, crashes>>

\* The item is linked to the last row, whatever its status is by now.
MarkApproved(c) ==
    /\ pc[c] = "booking" /\ AllBooked(c)
    /\ GoTo(c, IF req[c].multi THEN "closing" ELSE "ok")
    /\ status' = [status EXCEPT ![req[c].item] = "APPROVED"]
    /\ \E r \in RowsOf(c) : /\ r.line = Len(req[c].lines)
                            /\ link' = [link EXCEPT ![req[c].item] = r]
    /\ UNCHANGED <<req, parsed, queue, booked, crashes>>

MarkFails(c) ==
    /\ pc[c] = "booking" /\ AllBooked(c) /\ "database" \in Faults
    /\ GoTo(c, "failed")
    /\ UNCHANGED <<req, rows, queue, booked, crashes>>

\* The surrounding $transaction ends; after its 5 s it can only fail.
Close(c) ==
    /\ pc[c] = "closing"
    /\ \E p \in {"ok", "failed"} : GoTo(c, p)
    /\ UNCHANGED <<req, rows, queue, booked, crashes>>

-----------------------------------------------------------------------------
(* rejectImport *)

\* Variant: the status of the item is not looked at.
ReadAnyForRejection(c) ==
    /\ Asks(c, "reject") /\ status[req[c].item] # "ABSENT"
    /\ GoTo(c, "rejecting")
    /\ UNCHANGED <<req, rows, queue, booked, crashes>>

ReadForRejection(c) ==
    /\ Asks(c, "reject")
    /\ status[req[c].item] \in {"PROCESSING", "PENDING_REVIEW", "ERROR"}
    /\ GoTo(c, "rejecting")
    /\ UNCHANGED <<req, rows, queue, booked, crashes>>

RefuseRejection(c) ==
    /\ Asks(c, "reject")
    /\ status[req[c].item] \in {"ABSENT", "APPROVED", "REJECTED"}
    /\ GoTo(c, "failed")
    /\ UNCHANGED <<req, rows, queue, booked, crashes>>

MarkRejected(c) ==
    /\ pc[c] = "rejecting"
    /\ GoTo(c, "ok")
    /\ status' = [status EXCEPT ![req[c].item] = "REJECTED"]
    /\ UNCHANGED <<req, link, parsed, queue, booked, crashes>>

RejectFails(c) ==
    /\ pc[c] = "rejecting" /\ "database" \in Faults
    /\ GoTo(c, "failed")
    /\ UNCHANGED <<req, rows, queue, booked, crashes>>

-----------------------------------------------------------------------------

Active(c) == pc[c] \notin {"idle"} \cup Terminal

\* The process, which runs the service and the worker, stops.  BullMQ finds
\* the jobs it was at stalled and gives each of them back, MaxStalls times.
Crash ==
    /\ "crash" \in Faults /\ crashes < MaxCrashes
    /\ crashes' = crashes + 1
    /\ pc' = [c \in Call |-> IF Active(c) THEN "lost" ELSE pc[c]]
    /\ job' = [i \in Item |-> IF job[i] # "active" THEN job[i]
                              ELSE IF stalls[i] < MaxStalls THEN "waiting" ELSE "failed"]
    /\ stalls' = [i \in Item |-> IF job[i] = "active" THEN stalls[i] + 1 ELSE stalls[i]]
    /\ worker' = [i \in Item |-> "idle"]
    /\ UNCHANGED <<req, rows, mute, booked>>

CallStep(c) ==
    \/ Upload(c) \/ RefuseUpload(c) \/ Enqueue(c) \/ EnqueueFails(c)
    \/ ReadForApproval(c) \/ RefuseApproval(c) \/ BookLine(c) \/ LineFails(c)
    \/ MarkApproved(c) \/ MarkFails(c) \/ Close(c)
    \/ ReadForRejection(c) \/ RefuseRejection(c) \/ MarkRejected(c) \/ RejectFails(c)

\* The steps of the worker that wait for nobody but the queue and the database.
OwnStep(i) ==
    \/ TakeUp(i) \/ StoreResult(i) \/ StoreResultFails(i)
    \/ StoreError(i) \/ StoreErrorFails(i) \/ Acknowledge(i)

WorkerStep(i) == Recognise(i) \/ OwnStep(i)

\* Reviewers who wait, for each other's answers and for the worker to be done,
\* never meet anybody at an item.
Busy(i) == {c \in Call : Active(c) /\ req[c].item = i}
Crowded(i) == \/ \E c, d \in Busy(i) : c # d
              \/ job[i] \in {"waiting", "active"} /\ Busy(i) # {}
Remember == hurried' = hurried \cup {i \in Item : Crowded(i)'}

Next == \/ \E c \in Call : CallStep(c) /\ Remember
        \/ \E i \in Item : WorkerStep(i) /\ Remember
        \/ Crash /\ Remember

Spec == Init /\ [][Next]_vars

\* BullMQ hands out every job and the worker goes on after each of its own
\* steps.  The services it asks owe it no answer, and there is no time-out.
FairSpec == Spec /\ WF_vars(\E i \in Item : OwnStep(i) /\ Remember)

-----------------------------------------------------------------------------
(* Properties. *)

\* Every variable keeps its type.
TypeOK ==
    /\ req \in Workload
    /\ pc \in [Call -> {"idle", "created", "booking", "closing", "rejecting"} \cup Terminal]
    /\ status \in [Item -> ImportStatus \cup {"ABSENT"}]
    /\ link \in [Item -> Row \cup {NoRow}]
    /\ parsed \in [Item -> BOOLEAN]
    /\ job \in [Item -> {"none", "waiting", "active", "completed", "failed"}]
    /\ stalls \in [Item -> Nat]
    /\ worker \in [Item -> {"idle", "reading", "parsed", "failing", "finished", "thrown"}]
    /\ booked \subseteq Row
    /\ crashes \in Nat
    /\ mute \subseteq Item /\ hurried \subseteq Item

\* The transaction an item names is a committed one, booked by an approval of
\* that item, and an approved item names one, whoever else writes the row.
ApprovedIsBooked ==
    \A i \in Item :
        /\ link[i] # NoRow => link[i] \in booked /\ req[link[i].by].item = i
        /\ status[i] = "APPROVED" => link[i] # NoRow

\* Nothing is booked from an item before its image has been read.
OnlyReviewed == \A r \in booked : parsed[req[r.by].item]

\* An approval that answers has booked each of its lines exactly once.
AnsweredIsComplete ==
    \A c \in Call : req[c].op = "approve" /\ pc[c] = "ok" =>
        \A n \in DOMAIN req[c].lines : \E r \in RowsOf(c) :
            r.line = n /\ \A q \in RowsOf(c) : q.line = n => q = r

\* What ends a job without a status for the item: it stalled too often, or the
\* error itself could not be written.
GivenUp(i) == job[i] = "failed" /\ (stalls[i] > MaxStalls \/ i \in mute)

\* An item whose upload was answered is in PROCESSING only while the queue
\* works at it or after the queue gave it up; an upload that ended between the
\* item and its job leaves one that nobody works at.
ProcessingIsWatched ==
    \A i \in Item : status[i] = "PROCESSING" =>
        \/ job[i] \in {"waiting", "active"}
        \/ job[i] = "none" /\ \E c \in Call : /\ req[c].op = "upload" /\ req[c].item = i
                                             /\ pc[c] \in {"created", "failed", "lost"}
        \/ GivenUp(i)

\* At most one decision on an item, approval or rejection, succeeds.
DecidedOnce(i) ==
    \A c, d \in Call :
        /\ {req[c].op, req[d].op} \subseteq {"approve", "reject"}
        /\ req[c].item = i /\ req[d].item = i
        /\ pc[c] = "ok" /\ pc[d] = "ok"
        => c = d

\* What the status check before an approval and a rejection is there for.
OneDecision == \A i \in Item : DecidedOnce(i)

\* It does that for reviewers who wait, through crashes and failing updates.
PatientDecideOnce == \A i \in Item \ hurried : DecidedOnce(i)

\* What they decided, APPROVED or REJECTED, stays.
TerminalStays ==
    [][\A i \in Item \ hurried' :
          status[i] \in {"APPROVED", "REJECTED"} => status'[i] = status[i]]_vars

\* An approval of several lines that fails leaves none of them behind.
AllOrNothing ==
    \A c \in Call : req[c].op = "approve" /\ req[c].multi /\ pc[c] = "failed" => RowsOf(c) = {}
=============================================================================
