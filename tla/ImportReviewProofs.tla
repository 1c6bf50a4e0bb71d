------------------------- MODULE ImportReviewProofs -------------------------
(***************************************************************************)
(* What holds of the import whatever the calls, the worker, the database   *)
(* and crashes do (the first parts: the rows and the items, the lines of   *)
(* an approval, the queue), and what reviewers gain who wait (the last).   *)
(***************************************************************************)
EXTENDS ImportReview, FiniteSetTheorems, FunctionTheorems, TLAPS

\* Only an item whose image was read can be approved, and the booked rows
\* stay countable, so that the next line has a number.
ReadInv ==
    /\ IsFiniteSet(booked)
    /\ \A i \in Item : status[i] = "PENDING_REVIEW" => parsed[i]
    /\ \A c \in Call : pc[c] = "booking" => req[c].op = "approve" /\ parsed[req[c].item]

IInv == TypeOK /\ ReadInv /\ ApprovedIsBooked /\ OnlyReviewed

\* Every call names an item.
LEMMA ItemType ==
  ASSUME TypeOK, NEW c \in Call
  PROVE  req[c].item \in Item
BY ReviewAssumption DEF TypeOK, UploadRequest, ApproveRequest, RejectRequest

LEMMA LinesType ==
  ASSUME TypeOK, NEW c \in Call, req[c].op = "approve"
  PROVE  req[c].lines \in Seq(Line) /\ req[c].multi \in BOOLEAN
BY ReviewAssumption DEF TypeOK, UploadRequest, ApproveRequest, RejectRequest

LEMMA NextLineType ==
  ASSUME IsFiniteSet(booked), NEW c \in Call
  PROVE  NextLine(c) \in Nat
<1>1. IsFiniteSet(RowsOf(c))
  BY FS_Subset DEF RowsOf
<1> QED  BY <1>1, FS_CardinalityType DEF NextLine

LEMMA InitInv == ASSUME Init PROVE IInv
BY ReviewAssumption, FS_EmptySet
   DEF Init, IInv, TypeOK, ReadInv, ApprovedIsBooked, OnlyReviewed, ImportStatus, Terminal

LEMMA BookLineInv ==
  ASSUME IInv, NEW c \in Call, BookLine(c), Remember
  PROVE  IInv'
<1> DEFINE n == NextLine(c)
           row == [by |-> c, line |-> n]
<1>1. n \in Nat
  BY NextLineType DEF IInv, ReadInv
<1>2. booked' = booked \cup {row} /\ UNCHANGED <<req, pc, status, link, parsed, job, stalls,
                                                 worker, crashes, mute>>
  BY DEF BookLine, calls, rows, queue
<1>3. row.by = c /\ row \in Row
  BY <1>1 DEF Row
<1>4. parsed[req[c].item]
  BY DEF BookLine, IInv, ReadInv
<1> HIDE DEF row
<1>5. TypeOK'
  BY <1>2, <1>3 DEF IInv, TypeOK, Remember
<1>6. IsFiniteSet(booked')
  BY <1>2, FS_AddElement DEF IInv, ReadInv
<1>7. ReadInv'
  BY <1>2, <1>6 DEF IInv, ReadInv
<1>8. ApprovedIsBooked' /\ OnlyReviewed'
  BY <1>2, <1>3, <1>4 DEF IInv, ApprovedIsBooked, OnlyReviewed
<1> QED  BY <1>5, <1>7, <1>8 DEF IInv

LEMMA MarkApprovedInv ==
  ASSUME IInv, NEW c \in Call, MarkApproved(c), Remember
  PROVE  IInv'
<1> DEFINE i == req[c].item
           p == IF req[c].multi THEN "closing" ELSE "ok"
<1>0. i \in Item
  BY ItemType DEF IInv
<1>1. PICK r \in RowsOf(c) : link' = [link EXCEPT ![i] = r]
  BY DEF MarkApproved
<1>2. /\ pc' = [pc EXCEPT ![c] = p] /\ status' = [status EXCEPT ![i] = "APPROVED"]
      /\ UNCHANGED <<req, parsed, job, stalls, worker, booked, crashes, mute>>
  BY DEF MarkApproved, GoTo, queue
<1>3. r \in booked /\ r.by = c /\ r # NoRow
  BY ReviewAssumption DEF RowsOf, IInv, TypeOK, Row
<1>4. p \in {"closing", "ok"}
  OBVIOUS
<1> HIDE DEF p
<1>5. TypeOK'
  BY <1>0, <1>1, <1>2, <1>3, <1>4 DEF IInv, TypeOK, ImportStatus, Terminal, Remember
<1>6. ReadInv'
  BY <1>0, <1>2, <1>4 DEF IInv, TypeOK, ReadInv
<1>7. ApprovedIsBooked' /\ OnlyReviewed'
  BY <1>0, <1>1, <1>2, <1>3 DEF IInv, TypeOK, ApprovedIsBooked, OnlyReviewed
<1> QED  BY <1>5, <1>6, <1>7 DEF IInv

\* The other steps of a call leave the rows booked and the links alone.
LEMMA CallInv ==
  ASSUME IInv, NEW c \in Call, CallStep(c), Remember
  PROVE  IInv'
<1> USE ItemType DEF IInv, GoTo, Asks, rows, queue, Remember
<1>1. CASE Upload(c)
  BY <1>1 DEF Upload, TypeOK, ReadInv, ApprovedIsBooked, OnlyReviewed, ImportStatus
<1>2. CASE RefuseUpload(c)
  BY <1>2 DEF RefuseUpload, TypeOK, ReadInv, ApprovedIsBooked, OnlyReviewed, Terminal
<1>3. CASE Enqueue(c)
  BY <1>3 DEF Enqueue, TypeOK, ReadInv, ApprovedIsBooked, OnlyReviewed, Terminal
<1>4. CASE ReadForApproval(c)
  BY <1>4 DEF ReadForApproval, TypeOK, ReadInv, ApprovedIsBooked, OnlyReviewed
<1>5. CASE RefuseApproval(c)
  BY <1>5 DEF RefuseApproval, TypeOK, ReadInv, ApprovedIsBooked, OnlyReviewed, Terminal
<1>6. CASE BookLine(c)
  BY <1>6, BookLineInv
<1>7. CASE LineFails(c)
  BY <1>7 DEF LineFails, TypeOK, ReadInv, ApprovedIsBooked, OnlyReviewed, Terminal
<1>8. CASE MarkApproved(c)
  BY <1>8, MarkApprovedInv
<1>9. CASE MarkFails(c)
  BY <1>9 DEF MarkFails, TypeOK, ReadInv, ApprovedIsBooked, OnlyReviewed, Terminal
<1>10. CASE Close(c)
  BY <1>10 DEF Close, TypeOK, ReadInv, ApprovedIsBooked, OnlyReviewed, Terminal
<1>11. CASE ReadForRejection(c)
  BY <1>11 DEF ReadForRejection, TypeOK, ReadInv, ApprovedIsBooked, OnlyReviewed
<1>12. CASE RefuseRejection(c)
  BY <1>12 DEF RefuseRejection, TypeOK, ReadInv, ApprovedIsBooked, OnlyReviewed, Terminal
<1>13. CASE MarkRejected(c)
  BY <1>13 DEF MarkRejected, TypeOK, ReadInv, ApprovedIsBooked, OnlyReviewed, ImportStatus, Terminal
<1>14. CASE RejectFails(c)
  BY <1>14 DEF RejectFails, TypeOK, ReadInv, ApprovedIsBooked, OnlyReviewed, Terminal
<1>15. CASE EnqueueFails(c)
  BY <1>15 DEF EnqueueFails, TypeOK, ReadInv, ApprovedIsBooked, OnlyReviewed, Terminal
<1> QED  BY <1>1, <1>2, <1>3, <1>4, <1>5, <1>6, <1>7, <1>8, <1>9, <1>10, <1>11, <1>12,
            <1>13, <1>14, <1>15 DEF CallStep

LEMMA WorkerInv ==
  ASSUME IInv, NEW i \in Item, WorkerStep(i), Remember
  PROVE  IInv'
<1> USE DEF IInv, WorkerTo, calls, rows, Remember
<1>1. CASE TakeUp(i)
  BY <1>1 DEF TakeUp, TypeOK, ReadInv, ApprovedIsBooked, OnlyReviewed
<1>2. CASE Recognise(i)
  BY <1>2 DEF Recognise, TypeOK, ReadInv, ApprovedIsBooked, OnlyReviewed
<1>3. CASE StoreResult(i)
  BY <1>3 DEF StoreResult, TypeOK, ReadInv, ApprovedIsBooked, OnlyReviewed, ImportStatus
<1>4. CASE StoreResultFails(i)
  BY <1>4 DEF StoreResultFails, TypeOK, ReadInv, ApprovedIsBooked, OnlyReviewed
<1>5. CASE StoreError(i)
  BY <1>5 DEF StoreError, TypeOK, ReadInv, ApprovedIsBooked, OnlyReviewed, ImportStatus
<1>6. CASE StoreErrorFails(i)
  BY <1>6 DEF StoreErrorFails, TypeOK, ReadInv, ApprovedIsBooked, OnlyReviewed
<1>7. CASE Acknowledge(i)
  BY <1>7 DEF Acknowledge, TypeOK, ReadInv, ApprovedIsBooked, OnlyReviewed
<1> QED  BY <1>1, <1>2, <1>3, <1>4, <1>5, <1>6, <1>7 DEF WorkerStep, OwnStep

LEMMA NextInv == ASSUME IInv, [Next]_vars PROVE IInv'
<1>1. CASE Crash /\ Remember
  BY <1>1 DEF Crash, Remember, Active, IInv, TypeOK, ReadInv, ApprovedIsBooked, OnlyReviewed, rows, Terminal
<1>2. CASE UNCHANGED vars
  BY <1>2 DEF vars, IInv, TypeOK, ReadInv, ApprovedIsBooked, OnlyReviewed, RowsOf
<1> QED  BY <1>1, <1>2, CallInv, WorkerInv DEF Next

LEMMA Invariance == Spec => []IInv
BY InitInv, NextInv, PTL DEF Spec

\* Every variable keeps its type.
THEOREM TypeCorrect == Spec => []TypeOK
BY Invariance, PTL DEF IInv

\* The transaction an item names was committed by an approval of that item,
\* and every approved item names one.
THEOREM ApprovedBooked == Spec => []ApprovedIsBooked
BY Invariance, PTL DEF IInv

\* Nothing is booked from an image nobody has read.
THEOREM BookedIsRead == Spec => []OnlyReviewed
BY Invariance, PTL DEF IInv

-----------------------------------------------------------------------------
(* The lines of an approval. *)

\* The first k lines of call c, as rows.
LineRows(c, k) == {[by |-> c, line |-> n] : n \in 1..k}

\* A call books its lines one after the other, from the first on, and answers,
\* or leaves the surrounding transaction, with all of them booked.
LinesInv ==
    /\ \A c \in Call : \E k \in Nat :
           /\ RowsOf(c) = LineRows(c, k)
           /\ req[c].op = "approve" => k <= Len(req[c].lines)
    /\ \A c \in Call : pc[c] = "created" => req[c].op = "upload"
    /\ \A c \in Call : pc[c] = "rejecting" => req[c].op = "reject"
    /\ \A c \in Call : req[c].op = "approve" /\ pc[c] \in {"closing", "ok"} =>
           RowsOf(c) = LineRows(c, Len(req[c].lines))

(* The next line after k lines is line k + 1. *)
LEMMA LineRowsCount ==
  ASSUME NEW c \in Call, NEW k \in Nat, RowsOf(c) = LineRows(c, k)
  PROVE  NextLine(c) = k + 1
<1> DEFINE f == [n \in 1..k |-> [by |-> c, line |-> n]]
<1>1. f \in Bijection(1..k, LineRows(c, k))
  <2>1. f \in [1..k -> LineRows(c, k)]
    BY DEF LineRows
  <2>2. \A m, n \in 1..k : f[m] = f[n] => m = n
    OBVIOUS
  <2>3. \A r \in LineRows(c, k) : \E n \in 1..k : f[n] = r
    BY DEF LineRows
  <2> HIDE DEF f
  <2> QED  BY <2>1, <2>2, <2>3, Fun_IsBij
<1>2. IsFiniteSet(1..k) /\ Cardinality(1..k) = k
  BY FS_Interval
<1>3. Cardinality(LineRows(c, k)) = k
  <2> HIDE DEF f
  <2>1. ExistsBijection(1..k, LineRows(c, k))
    BY <1>1 DEF ExistsBijection
  <2> QED  BY <1>2, <2>1, FS_Bijection
<1> QED  BY <1>3 DEF NextLine

LEMMA LinesBook ==
  ASSUME IInv, LinesInv, NEW c \in Call, BookLine(c)
  PROVE  LinesInv'
<1> USE DEF IInv
<1>1. PICK k \in Nat : /\ RowsOf(c) = LineRows(c, k)
                       /\ req[c].op = "approve" => k <= Len(req[c].lines)
  BY DEF LinesInv
<1>2. NextLine(c) = k + 1
  BY <1>1, LineRowsCount
<1>3. req[c].op = "approve" /\ pc[c] = "booking" /\ Len(req[c].lines) \in Nat
  <2>1. req[c].op = "approve" /\ pc[c] = "booking"
    BY DEF BookLine, ReadInv
  <2> QED  BY <2>1, LinesType
<1>4. k + 1 <= Len(req[c].lines)
  BY <1>2, <1>3 DEF BookLine, AllBooked
<1>5. booked' = booked \cup {[by |-> c, line |-> k + 1]} /\ req' = req /\ pc' = pc
  BY <1>2 DEF BookLine, calls
<1>6. \A d \in Call : d # c => RowsOf(d)' = RowsOf(d)
  BY <1>5 DEF RowsOf
<1>7. RowsOf(c)' = LineRows(c, k + 1)
  <2>1. 1..k + 1 = 1..k \cup {k + 1}
    OBVIOUS
  <2>2. RowsOf(c)' = RowsOf(c) \cup {[by |-> c, line |-> k + 1]}
    BY <1>5 DEF RowsOf
  <2> QED  BY <1>1, <2>1, <2>2 DEF LineRows
<1>8. k + 1 \in Nat
  OBVIOUS
<1> QED  BY <1>3, <1>4, <1>5, <1>6, <1>7, <1>8 DEF LinesInv

LEMMA LinesMark ==
  ASSUME IInv, LinesInv, NEW c \in Call, MarkApproved(c)
  PROVE  LinesInv'
<1> USE DEF IInv
<1>1. PICK k \in Nat : /\ RowsOf(c) = LineRows(c, k)
                       /\ req[c].op = "approve" => k <= Len(req[c].lines)
  BY DEF LinesInv
<1>2. NextLine(c) = k + 1
  BY <1>1, LineRowsCount
<1>3. req[c].op = "approve" /\ Len(req[c].lines) \in Nat
  <2>1. req[c].op = "approve"
    BY DEF MarkApproved, ReadInv
  <2> QED  BY <2>1, LinesType
<1>4. k = Len(req[c].lines)
  BY <1>1, <1>2, <1>3 DEF MarkApproved, AllBooked
<1>5. /\ req' = req /\ booked' = booked
      /\ \E p \in {"closing", "ok"} : pc' = [pc EXCEPT ![c] = p]
  BY DEF MarkApproved, GoTo
<1>6. \A d \in Call : RowsOf(d)' = RowsOf(d)
  BY <1>5 DEF RowsOf
<1> QED  BY <1>1, <1>3, <1>4, <1>5, <1>6 DEF LinesInv, TypeOK

LEMMA LinesStep == ASSUME IInv, LinesInv, [Next]_vars PROVE LinesInv'
<1> USE DEF IInv, TypeOK
<1>1. ASSUME NEW c \in Call, BookLine(c) PROVE LinesInv'
  BY <1>1, LinesBook
<1>2. ASSUME NEW c \in Call, MarkApproved(c) PROVE LinesInv'
  BY <1>2, LinesMark
<1>3. CASE /\ UNCHANGED <<req, booked>>
           /\ \A d \in Call : /\ pc'[d] = "created" => pc[d] = "created" \/ req[d].op = "upload"
                              /\ pc'[d] = "rejecting" => pc[d] = "rejecting" \/ req[d].op = "reject"
                              /\ pc'[d] \in {"closing", "ok"} =>
                                     \/ pc[d] \in {"closing", "ok", "created", "rejecting"}
                                     \/ req[d].op # "approve"
  <2>1. \A d \in Call : RowsOf(d)' = RowsOf(d)
    BY <1>3 DEF RowsOf
  <2> QED  BY <1>3, <2>1 DEF LinesInv
<1>4. ASSUME NEW c \in Call, CallStep(c) PROVE LinesInv'
  BY <1>1, <1>2, <1>3, <1>4
     DEF CallStep, Upload, RefuseUpload, Enqueue, EnqueueFails, ReadForApproval, RefuseApproval,
         LineFails, MarkFails, Close, ReadForRejection, RefuseRejection, MarkRejected, RejectFails,
         GoTo, Asks
<1>5. ASSUME NEW i \in Item, WorkerStep(i) PROVE LinesInv'
  BY <1>3, <1>5
     DEF WorkerStep, OwnStep, TakeUp, Recognise, StoreResult, StoreResultFails, StoreError,
         StoreErrorFails, Acknowledge, calls
<1>6. CASE Crash
  BY <1>3, <1>6 DEF Crash, Active, Terminal
<1>7. CASE UNCHANGED vars
  BY <1>3, <1>7 DEF vars
<1> QED  BY <1>4, <1>5, <1>6, <1>7 DEF Next

\* An approval that answers has booked every line it was given, once.
THEOREM AnsweredComplete == Spec => []AnsweredIsComplete
<1>1. Init => LinesInv
  <2> SUFFICES ASSUME Init PROVE LinesInv
    OBVIOUS
  <2>1. \A c \in Call : RowsOf(c) = LineRows(c, 0)
    BY DEF Init, RowsOf, LineRows
  <2>2. \A c \in Call : req[c].op = "approve" => Len(req[c].lines) \in Nat
    BY InitInv, LinesType DEF IInv
  <2> QED  BY <2>1, <2>2 DEF Init, LinesInv
<1>2. IInv /\ LinesInv /\ [Next]_vars => LinesInv'
  BY LinesStep
<1>3. IInv /\ LinesInv => AnsweredIsComplete
  <2> SUFFICES ASSUME IInv, LinesInv, NEW c \in Call, req[c].op = "approve", pc[c] = "ok",
                      NEW n \in DOMAIN req[c].lines
               PROVE  \E r \in RowsOf(c) : /\ r.line = n
                                           /\ \A q \in RowsOf(c) : q.line = n => q = r
    BY DEF AnsweredIsComplete
  <2>1. RowsOf(c) = LineRows(c, Len(req[c].lines))
    BY DEF LinesInv
  <2>2. n \in 1..Len(req[c].lines)
    BY LinesType DEF IInv
  <2>3. [by |-> c, line |-> n] \in RowsOf(c)
    BY <2>1, <2>2 DEF LineRows
  <2>4. \A q \in RowsOf(c) : q = [by |-> c, line |-> q.line]
    BY <2>1 DEF LineRows
  <2> QED  BY <2>3, <2>4
<1> QED  BY <1>1, <1>2, <1>3, Invariance, PTL DEF Spec

-----------------------------------------------------------------------------
(* The queue and the item. *)

\* The worker has written a status before it reports to the queue, or failed to
\* write that of an error, and there is no job before the upload is answered.
WatchInv ==
    /\ ProcessingIsWatched
    /\ \A i \in Item : status[i] = "ABSENT" => job[i] = "none" /\ worker[i] = "idle"
    /\ \A c \in Call : pc[c] = "created" =>
           req[c].op = "upload" /\ status[req[c].item] # "ABSENT"
    /\ \A i \in Item : worker[i] = "finished" => status[i] # "PROCESSING"
    /\ \A i \in Item : worker[i] = "thrown" => status[i] # "PROCESSING" \/ i \in mute

LEMMA WatchCall ==
  ASSUME IInv, WatchInv, NEW c \in Call, CallStep(c)
  PROVE  WatchInv'
<1> USE ItemType DEF IInv, TypeOK, WatchInv, ProcessingIsWatched, GivenUp, GoTo, Asks, rows, queue
<1>1. CASE Upload(c)
  BY <1>1 DEF Upload
<1>2. CASE Enqueue(c)
  BY <1>2 DEF Enqueue
<1>3. CASE EnqueueFails(c)
  BY <1>3 DEF EnqueueFails
<1>4. CASE /\ UNCHANGED <<req, queue>>
           /\ \A d \in Call : pc'[d] # pc[d] => /\ pc[d] \notin {"created", "failed", "lost"}
                                                /\ pc'[d] # "created"
           /\ \A i \in Item : status'[i] # status[i] =>
                  status[i] # "ABSENT" /\ status'[i] \notin {"ABSENT", "PROCESSING"}
  BY <1>4
<1>5. CASE MarkApproved(c)
  BY <1>5 DEF MarkApproved
<1>6. CASE MarkRejected(c)
  BY <1>4, <1>6 DEF MarkRejected
<1> QED  BY <1>1, <1>2, <1>3, <1>4, <1>5, <1>6
            DEF CallStep, RefuseUpload, ReadForApproval, RefuseApproval, BookLine, LineFails,
                MarkFails, Close, ReadForRejection, RefuseRejection, RejectFails, calls

LEMMA WatchWorker ==
  ASSUME IInv, WatchInv, NEW i \in Item, WorkerStep(i)
  PROVE  WatchInv'
<1> USE ItemType DEF IInv, TypeOK, WatchInv, ProcessingIsWatched, GivenUp, WorkerTo, calls, rows
<1>1. CASE TakeUp(i)
  BY <1>1 DEF TakeUp
<1>2. CASE Recognise(i)
  BY <1>2 DEF Recognise
<1>3. CASE StoreResult(i)
  BY <1>3 DEF StoreResult
<1>4. CASE StoreResultFails(i)
  BY <1>4 DEF StoreResultFails
<1>5. CASE StoreError(i)
  BY <1>5 DEF StoreError
<1>6. CASE StoreErrorFails(i)
  BY <1>6 DEF StoreErrorFails
<1>7. CASE Acknowledge(i)
  BY <1>7 DEF Acknowledge
<1> QED  BY <1>1, <1>2, <1>3, <1>4, <1>5, <1>6, <1>7 DEF WorkerStep, OwnStep

LEMMA WatchStep == ASSUME IInv, WatchInv, [Next]_vars PROVE WatchInv'
<1>1. CASE Crash
  BY <1>1, ReviewAssumption
     DEF Crash, Active, Terminal, IInv, TypeOK, WatchInv, ProcessingIsWatched, GivenUp, rows
<1>2. CASE UNCHANGED vars
  BY <1>2 DEF vars, WatchInv, ProcessingIsWatched, GivenUp
<1> QED  BY <1>1, <1>2, WatchCall, WatchWorker DEF Next

\* Whatever is uploaded, decided on, failing and restarted: an item whose upload
\* was answered is in PROCESSING only while the queue works at it or after the
\* queue gave it up, having stalled too often or failed to write its error.
THEOREM ProcessingWatched == Spec => []ProcessingIsWatched
<1>1. Init => WatchInv
  BY DEF Init, WatchInv, ProcessingIsWatched
<1>2. IInv /\ WatchInv /\ [Next]_vars => WatchInv'
  BY WatchStep
<1>3. WatchInv => ProcessingIsWatched
  BY DEF WatchInv
<1> QED  BY <1>1, <1>2, <1>3, Invariance, PTL DEF Spec

-----------------------------------------------------------------------------
(* Reviewers who wait. *)

Final == {"APPROVED", "REJECTED"}

\* A decision on item i whose status is written.
Decided(c, i) == /\ req[c].op \in {"approve", "reject"} /\ req[c].item = i
                 /\ pc[c] \in {"closing", "ok"}

\* Once an item on which nobody met is final, nobody is left who could write
\* its status.
PatientInv ==
    /\ \A i \in Item : Crowded(i) => i \in hurried
    /\ \A i \in Item \ hurried : worker[i] # "idle" => job[i] = "active"
    /\ \A c \in Call : /\ pc[c] = "created" => req[c].op = "upload"
                       /\ pc[c] = "rejecting" => req[c].op = "reject"
    /\ \A i \in Item \ hurried : status[i] \in Final =>
           /\ job[i] \notin {"waiting", "active"}
           /\ \A c \in Call : req[c].item = i => pc[c] \notin {"created", "booking", "rejecting"}
    /\ \A i \in Item \ hurried, c \in Call : Decided(c, i) => status[i] \in Final
    /\ \A i \in Item \ hurried, c, d \in Call : Decided(c, i) /\ Decided(d, i) => c = d

LEMMA PatientInit == ASSUME Init PROVE PatientInv
BY DEF Init, PatientInv, Crowded, Busy, Active, Final, Decided

\* Who is at an item on which nobody met is there alone.
LEMMA Alone ==
  ASSUME PatientInv, NEW c \in Call, NEW i \in Item \ hurried, req[c].item = i,
         pc[c] \in {"created", "booking", "closing", "rejecting"}
  PROVE  /\ job[i] \notin {"waiting", "active"}
         /\ \A d \in Call : req[d].item = i /\ d # c =>
                pc[d] \notin {"created", "booking", "closing", "rejecting"}
BY DEF PatientInv, Crowded, Busy, Active, Terminal

LEMMA PatientCall ==
  ASSUME IInv, PatientInv, NEW c \in Call, CallStep(c), Remember
  PROVE  PatientInv'
<1> DEFINE i == req[c].item
<1>1. /\ \A k \in Item : Crowded(k)' => k \in hurried'
      /\ hurried \subseteq hurried' /\ i \in Item
  BY ItemType DEF Remember, IInv
<1>2. pc[c] \in {"created", "booking", "closing", "rejecting"} /\ i \notin hurried =>
        /\ job[i] \notin {"waiting", "active"}
        /\ \A d \in Call : req[d].item = i /\ d # c =>
                pc[d] \notin {"created", "booking", "closing", "rejecting"}
  BY <1>1, Alone
<1> USE <1>1 DEF IInv, TypeOK, PatientInv, Final, Decided, GoTo, Asks, rows, queue
<1>3. CASE Upload(c)
  BY <1>3 DEF Upload
<1>4. CASE RefuseUpload(c)
  BY <1>4 DEF RefuseUpload
<1>5. CASE Enqueue(c)
  BY <1>2, <1>5 DEF Enqueue
<1>6. CASE EnqueueFails(c)
  BY <1>6 DEF EnqueueFails
<1>7. CASE ReadForApproval(c)
  BY <1>7 DEF ReadForApproval
<1>8. CASE RefuseApproval(c)
  BY <1>8 DEF RefuseApproval
<1>9. CASE BookLine(c)
  BY <1>9 DEF BookLine, calls
<1>10. CASE LineFails(c)
  BY <1>10 DEF LineFails
<1>11. CASE MarkApproved(c)
  <2>1. PICK p \in {"closing", "ok"} :
          /\ pc[c] = "booking" /\ pc' = [pc EXCEPT ![c] = p]
          /\ status' = [status EXCEPT ![i] = "APPROVED"]
          /\ UNCHANGED <<req, job, worker>>
    BY <1>11 DEF MarkApproved
  <2> QED  BY <1>2, <2>1
<1>12. CASE MarkFails(c)
  BY <1>12 DEF MarkFails
<1>13. CASE Close(c)
  BY <1>13 DEF Close
<1>14. CASE ReadForRejection(c)
  BY <1>14 DEF ReadForRejection
<1>15. CASE RefuseRejection(c)
  BY <1>15 DEF RefuseRejection
<1>16. CASE MarkRejected(c)
  <2>1. /\ pc[c] = "rejecting" /\ pc' = [pc EXCEPT ![c] = "ok"]
        /\ status' = [status EXCEPT ![i] = "REJECTED"]
        /\ UNCHANGED <<req, job, worker>>
    BY <1>16 DEF MarkRejected
  <2> QED  BY <1>2, <2>1
<1>17. CASE RejectFails(c)
  BY <1>17 DEF RejectFails
<1> QED  BY <1>3, <1>4, <1>5, <1>6, <1>7, <1>8, <1>9, <1>10, <1>11, <1>12,
            <1>13, <1>14, <1>15, <1>16, <1>17 DEF CallStep

LEMMA PatientWorker ==
  ASSUME IInv, PatientInv, NEW i \in Item, WorkerStep(i), Remember
  PROVE  PatientInv'
<1>1. /\ \A k \in Item : Crowded(k)' => k \in hurried'
      /\ hurried \subseteq hurried'
  BY DEF Remember
<1> USE <1>1 DEF IInv, TypeOK, PatientInv, Final, Decided, WorkerTo, calls, rows
<1>2. CASE TakeUp(i)
  BY <1>2 DEF TakeUp
<1>3. CASE Recognise(i)
  BY <1>3 DEF Recognise
<1>4. CASE StoreResult(i)
  BY <1>4 DEF StoreResult
<1>5. CASE StoreResultFails(i)
  BY <1>5 DEF StoreResultFails
<1>6. CASE StoreError(i)
  BY <1>6 DEF StoreError
<1>7. CASE StoreErrorFails(i)
  BY <1>7 DEF StoreErrorFails
<1>8. CASE Acknowledge(i)
  BY <1>8 DEF Acknowledge
<1> QED  BY <1>2, <1>3, <1>4, <1>5, <1>6, <1>7, <1>8 DEF WorkerStep, OwnStep

LEMMA PatientStep ==
  ASSUME IInv, PatientInv, [Next]_vars
  PROVE  PatientInv'
<1>1. CASE Crash /\ Remember
  <2>1. /\ \A k \in Item : Crowded(k)' => k \in hurried'
        /\ hurried \subseteq hurried'
    BY <1>1 DEF Remember
  <2> QED  BY <1>1, <2>1 DEF Crash, Active, IInv, TypeOK, PatientInv, Final, Decided, rows, Terminal
<1>2. CASE UNCHANGED vars
  BY <1>2 DEF vars, PatientInv, Crowded, Busy, Active, Decided
<1> QED  BY <1>1, <1>2, PatientCall, PatientWorker DEF Next

LEMMA PatientInvariance == Spec => [](IInv /\ PatientInv)
BY Invariance, PatientInit, PatientStep, PTL DEF Spec

\* On an item on which reviewers waited for each other and for the worker at
\* most one decision succeeds, through crashes, failing updates and jobs that
\* run again.
THEOREM PatientOneDecision == Spec => []PatientDecideOnce
<1>1. IInv /\ PatientInv => PatientDecideOnce
  <2> SUFFICES ASSUME IInv, PatientInv, NEW i \in Item \ hurried, NEW c \in Call, NEW d \in Call,
                      {req[c].op, req[d].op} \subseteq {"approve", "reject"},
                      req[c].item = i, req[d].item = i, pc[c] = "ok", pc[d] = "ok"
               PROVE  c = d
    BY DEF PatientDecideOnce, DecidedOnce
  <2> QED  BY DEF PatientInv, Decided
<1> QED  BY <1>1, PatientInvariance, PTL

LEMMA FinalStays ==
  ASSUME IInv, PatientInv, [Next]_vars, NEW i \in Item \ hurried, status[i] \in Final
  PROVE  status'[i] = status[i]
<1> USE ItemType DEF IInv, TypeOK, PatientInv, Final, Asks, rows, queue
<1>1. ASSUME NEW c \in Call, CallStep(c) PROVE status'[i] = status[i]
  BY <1>1 DEF CallStep, Upload, RefuseUpload, Enqueue, EnqueueFails, ReadForApproval,
     RefuseApproval, BookLine, LineFails, MarkApproved, MarkFails, Close, ReadForRejection,
     RefuseRejection, MarkRejected, RejectFails
<1>2. ASSUME NEW j \in Item, WorkerStep(j) PROVE status'[i] = status[i]
  BY <1>2 DEF WorkerStep, OwnStep, TakeUp, Recognise, StoreResult, StoreResultFails, StoreError,
     StoreErrorFails, Acknowledge
<1>3. CASE Crash
  BY <1>3 DEF Crash
<1>4. CASE UNCHANGED vars
  BY <1>4 DEF vars
<1> QED  BY <1>1, <1>2, <1>3, <1>4 DEF Next

\* And what was decided there stays decided.
THEOREM PatientTerminalStays == Spec => TerminalStays
<1>1. [Next]_vars => hurried \subseteq hurried'
  BY DEF Next, Remember, vars
<1>2. IInv /\ PatientInv /\ [Next]_vars =>
        [\A i \in Item \ hurried' :
            status[i] \in {"APPROVED", "REJECTED"} => status'[i] = status[i]]_vars
  BY <1>1, FinalStays DEF Final
<1> QED  BY <1>2, PatientInvariance, PTL DEF Spec, TerminalStays
=============================================================================
