----------------------------- MODULE ExportJob -----------------------------
(***************************************************************************)
(* Exports: a row the client polls, a BullMQ job that is attempted up to   *)
(* Attempts times, and a worker that sums the confirmed transactions in    *)
(* two statements, uploads a file and writes the outcome into the row.     *)
(* Row, job and file are three systems, written one after the other.       *)
(***************************************************************************)
EXTENDS Business, Functions

CONSTANTS
    Attempts,    \* 3 in the code
    MaxStalls,   \* BullMQ's maxStalledCount, 1 unless it is set
    NoFile

ExportRequest == [op: {"export"}, type: {"PROFIT_LOSS", "ASSET_POSITION"}]

ASSUME ExportAssumption == Attempts \in Nat \ {0} /\ MaxStalls \in Nat

VARIABLES
    jobs,    \* ExportJob
    queue,   \* the BullMQ job of each row; mute is history: its last attempt
             \* ended without a word in the row
    sheet,   \* what the worker has at hand; seen is history: the rows when it began
    files    \* the storage

exportVars == <<jobs, queue, sheet, files>>

NoSums == [y \in Currency |-> 0]
EmptySheet == [at |-> "idle", income |-> NoSums, expense |-> NoSums, seen |-> <<>>]

ExportInit ==
    /\ jobs = [c \in Call |-> [status |-> "ABSENT", url |-> NoFile, error |-> FALSE]]
    /\ queue = [c \in Call |-> [state |-> "none", made |-> 0, stalls |-> 0, mute |-> FALSE]]
    /\ sheet = [c \in Call |-> EmptySheet]
    /\ files = {}

-----------------------------------------------------------------------------
(* createExportJob *)

CreateRow(c) ==
    /\ req[c].op = "export" /\ Arrive(c, "enqueueing")
    /\ jobs' = [jobs EXCEPT ![c].status = "PROCESSING"]
    /\ UNCHANGED <<req, book, clock, queue, sheet, files>>

Enqueue(c) ==
    /\ pc[c] = "enqueueing" /\ Go(c, "ok")
    /\ queue' = [queue EXCEPT ![c].state = "waiting"]
    /\ UNCHANGED <<req, book, clock, jobs, sheet, files>>

\* Redis is away, or the process stops: the row stays.
EnqueueFails(c) ==
    /\ pc[c] = "enqueueing" /\ Go(c, "failed")
    /\ UNCHANGED <<req, book, clock, exportVars>>

-----------------------------------------------------------------------------
(* ReportService.getProfitLoss *)

\* Variant: the status is not asked for.
SumAll(type, y) ==
    LET those == {i \in DOMAIN rows : rows[i].type = type /\ accounts[rows[i].acc].ccy = y}
    IN  SumFunction([i \in those |-> rows[i].amt])

\* The confirmed rows of a type in currency y; the range of dates holds them all.
Booked(type, y) == {i \in Confirmed : rows[i].type = type /\ accounts[rows[i].acc].ccy = y}
Sum(type, y) == SumFunction([i \in Booked(type, y) |-> rows[i].amt])

Sums(type) == [y \in Currency |-> Sum(type, y)]

-----------------------------------------------------------------------------
(* The worker, which handles one job at a time. *)

\* The worker of job c goes from one place to the next.
Work(c, from, to) ==
    /\ sheet[c].at = from
    /\ sheet' = [sheet EXCEPT ![c].at = to]
    /\ UNCHANGED <<req, pc, met, book, clock>>

TakeUp(c) ==
    /\ queue[c].state = "waiting" /\ \A d \in Call : queue[d].state # "active"
    /\ queue' = [queue EXCEPT ![c] = [@ EXCEPT !.state = "active", !.mute = FALSE]]
    /\ sheet' = [sheet EXCEPT ![c] = [EmptySheet EXCEPT
                    !.at = IF req[c].type = "PROFIT_LOSS" THEN "reading" ELSE "failing",
                    !.seen = rows]]
    /\ UNCHANGED <<req, pc, met, book, clock, jobs, files>>

SumIncome(c) ==
    /\ sheet[c].at = "reading"
    /\ sheet' = [sheet EXCEPT ![c] = [@ EXCEPT !.at = "halfway", !.income = Sums("MASUK")]]
    /\ UNCHANGED <<req, pc, met, book, clock, jobs, queue, files>>

SumExpense(c) ==
    /\ sheet[c].at = "halfway"
    /\ sheet' = [sheet EXCEPT ![c] = [@ EXCEPT !.at = "summed", !.expense = Sums("KELUAR")]]
    /\ UNCHANGED <<req, pc, met, book, clock, jobs, queue, files>>

\* The name of a file holds the millisecond, so every upload makes a new one.
File(c) == [job |-> c, run |-> queue[c].made + queue[c].stalls,
            income |-> sheet[c].income, expense |-> sheet[c].expense]

Upload(c) ==
    /\ Work(c, "summed", "uploaded")
    /\ files' = files \cup {File(c)}
    /\ UNCHANGED <<jobs, queue>>

\* An errorMessage of an earlier attempt stays.
Complete(c) ==
    /\ Work(c, "uploaded", "succeeded")
    /\ jobs' = [jobs EXCEPT ![c] = [@ EXCEPT !.status = "COMPLETED", !.url = File(c)]]
    /\ UNCHANGED <<queue, files>>

\* Whatever throws before that is caught.
Throws(c) ==
    /\ \E place \in {"reading", "halfway", "summed", "uploaded"} : Work(c, place, "failing")
    /\ UNCHANGED <<jobs, queue, files>>

MarkFailed(c) ==
    /\ Work(c, "failing", "thrown")
    /\ jobs' = [jobs EXCEPT ![c] = [@ EXCEPT !.status = "FAILED", !.error = TRUE]]
    /\ UNCHANGED <<queue, files>>

\* The update in the catch block fails as well.
MarkFails(c) ==
    /\ Work(c, "failing", "thrown")
    /\ queue' = [queue EXCEPT ![c].mute = TRUE]
    /\ UNCHANGED <<jobs, files>>

\* Variant: what was thrown does not reach BullMQ.
AcknowledgeAlways(c) ==
    /\ sheet[c].at \in {"succeeded", "thrown"}
    /\ queue' = [queue EXCEPT ![c] = [@ EXCEPT !.made = queue[c].made + 1, !.state = "completed"]]
    /\ sheet' = [sheet EXCEPT ![c] = EmptySheet]
    /\ UNCHANGED <<req, pc, met, book, clock, jobs, files>>

\* Variant: one attempt too many.
AcknowledgeOneMore(c) ==
    /\ sheet[c].at \in {"succeeded", "thrown"}
    /\ queue' = [queue EXCEPT ![c] = [@ EXCEPT
                    !.made = queue[c].made + 1,
                    !.state = IF sheet[c].at = "succeeded" THEN "completed"
                              ELSE IF queue[c].made < Attempts THEN "waiting" ELSE "failed"]]
    /\ sheet' = [sheet EXCEPT ![c] = EmptySheet]
    /\ UNCHANGED <<req, pc, met, book, clock, jobs, files>>

\* BullMQ learns how the attempt ended.
Acknowledge(c) ==
    /\ sheet[c].at \in {"succeeded", "thrown"}
    /\ queue' = [queue EXCEPT ![c] = [@ EXCEPT
                    !.made = queue[c].made + 1,
                    !.state = IF sheet[c].at = "succeeded" THEN "completed"
                              ELSE IF queue[c].made + 1 < Attempts THEN "waiting" ELSE "failed"]]
    /\ sheet' = [sheet EXCEPT ![c] = EmptySheet]
    /\ UNCHANGED <<req, pc, met, book, clock, jobs, files>>

\* The process of the worker stops: the job stalls and is given back, or given up.
WorkerStops(c) ==
    /\ queue[c].state = "active"
    /\ queue' = [queue EXCEPT ![c] = [@ EXCEPT
                    !.stalls = queue[c].stalls + 1, !.mute = TRUE,
                    !.state = IF queue[c].stalls < MaxStalls THEN "waiting" ELSE "failed"]]
    /\ sheet' = [sheet EXCEPT ![c] = EmptySheet]
    /\ UNCHANGED <<req, pc, met, book, clock, jobs, files>>

ClientStep(c) == CreateRow(c) \/ Enqueue(c) \/ EnqueueFails(c)

WorkerStep(c) ==
    \/ TakeUp(c) \/ SumIncome(c) \/ SumExpense(c) \/ Upload(c) \/ Complete(c)
    \/ Throws(c) \/ MarkFailed(c) \/ MarkFails(c) \/ Acknowledge(c) \/ WorkerStops(c)

ExportStep(c) == ClientStep(c) \/ WorkerStep(c)

-----------------------------------------------------------------------------
(* Properties. *)

FileType == [job: Call, run: Nat, income: [Currency -> Nat], expense: [Currency -> Nat]]

ExportType ==
    /\ jobs \in [Call -> [status: {"ABSENT", "PROCESSING", "COMPLETED", "FAILED"},
                          url: FileType \cup {NoFile}, error: BOOLEAN]]
    /\ queue \in [Call -> [state: {"none", "waiting", "active", "completed", "failed"},
                           made: 0..Attempts, stalls: 0..MaxStalls + 1, mute: BOOLEAN]]
    /\ \A c \in Call :
         /\ sheet[c].at \in {"idle", "reading", "halfway", "summed", "uploaded", "failing",
                             "succeeded", "thrown"}
         /\ sheet[c].income \in [Currency -> Nat] /\ sheet[c].expense \in [Currency -> Nat]
    /\ files \subseteq FileType

\* What became of export c, as the queue has it.  A row without a job is
\* one that is still waiting for it, or whose enqueueing failed.
FateOf(c) ==
    CASE queue[c].state \in {"waiting", "active"}   -> "open"
      [] queue[c].state = "completed"               -> "done"
      [] queue[c].state = "failed" /\ queue[c].mute -> "silent"
      [] queue[c].state = "failed" /\ ~queue[c].mute -> "given up"
      [] OTHER -> IF jobs[c].status = "ABSENT" THEN "unknown"
                  ELSE IF pc[c] = "enqueueing" THEN "asked" ELSE "refused"

\* The exports keep their contract, through every failure, retry and restart.
Promise == INSTANCE ExportContract WITH
    Export <- Call,
    told <- [c \in Call |-> jobs[c].status],
    fate <- [c \in Call |-> FateOf(c)],
    restarted <- [c \in Call |-> queue[c].stalls > 0]
KeepsContract == Promise!Contract

AccountsIn(y) == {a \in DOMAIN accounts : accounts[a].ccy = y}

\* While nothing is booked or voided, the profit a report has summed from the
\* transactions is what the accounts of the currency hold, for all that was
\* booked before; webhooks that overlap may void a row twice and are excepted.
ProfitIsBalance ==
    \A c \in Call :
        /\ sheet[c].at \in {"summed", "uploaded", "succeeded"}
        /\ sheet[c].seen = rows
        /\ \A d, e \in Call : req[d].op = "deliver" /\ req[e].op = "deliver" => e \notin met[d]
        => \A y \in Currency :
               sheet[c].income[y] - sheet[c].expense[y] =
                   SumFunction([a \in AccountsIn(y) |-> accounts[a].balance])
=============================================================================
