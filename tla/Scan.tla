-------------------------------- MODULE Scan --------------------------------
(***************************************************************************)
(* The scan as a whole: what ImportReview takes for one step of the worker *)
(* reading an image is the chain of providers of ReadingChain.  Service    *)
(* and worker run in one process and stop together.                        *)
(***************************************************************************)
EXTENDS ImportReview

CONSTANTS
    InputOf, Configured, Pages, Responses, Predictions, NoResult,  \* of ReadingChain
    NoAmount, NoNumber                                             \* of ReceiptText

VARIABLES place, at, found, saved, threw                           \* of ReadingChain

Reader == INSTANCE ReadingChain

ASSUME ScanAssumption ==
    /\ InputOf \in [Item -> {"HANDWRITTEN", "RECEIPT"}]
    /\ Configured \subseteq {"gemini", "gcv", "mindee", "azure"}
    /\ Pages \in [Item -> SUBSET Seq(Reader!Printed)]
    /\ Responses \subseteq Reader!GeminiResponse
    /\ Predictions \subseteq Reader!Prediction
    /\ NoAmount \notin Nat

readingVars == <<place, at, found, saved, threw>>
scanVars == <<vars, readingVars>>

ScanInit == Init /\ Reader!ChainInit

-----------------------------------------------------------------------------
(* OcrWorker.process *)

StartReading(i) == TakeUp(i) /\ Reader!Begin(i)

\* A step of the chain that does not end it.
KeepReading(i) ==
    /\ worker[i] = "reading"
    /\ Reader!ReadStep(i) /\ UNCHANGED vars

\* Variant: nobody listens to the error of a download or of the last provider.
RecognisedAnswer(i) ==
    /\ Recognise(i)
    /\ place[i] = "answered" /\ worker'[i] = "parsed"
    /\ UNCHANGED readingVars

\* The loop is over: with a result, or with none, or there was no image.
Recognised(i) ==
    /\ Recognise(i)
    /\ \/ place[i] = "answered" /\ worker'[i] = "parsed"
       \/ place[i] \in {"cut", "exhausted"} /\ worker'[i] = "failing"
    /\ UNCHANGED readingVars

\* Variant: what was read is stored, the status is forgotten.
SaveQuietly(i) == StoreWithoutStatus(i) /\ Reader!Save(i)

SaveResult(i) == StoreResult(i) /\ Reader!Save(i)

FailItem(i) ==
    /\ StoreResultFails(i) \/ StoreError(i) \/ StoreErrorFails(i)
    /\ UNCHANGED readingVars

EndJob(i) == Acknowledge(i) /\ Reader!Finish({i})

-----------------------------------------------------------------------------

ServeCall(c) == CallStep(c) /\ UNCHANGED readingVars

Stop == Crash /\ Reader!Finish(Item)

\* The steps of the worker that wait for no service outside.
OwnScanStep(i) ==
    \/ StartReading(i) \/ Recognised(i)
    \/ SaveResult(i) \/ FailItem(i) \/ EndJob(i)

ScanNext == \/ \E c \in Call : ServeCall(c) /\ Remember
            \/ \E i \in Item : KeepReading(i) \/ (OwnScanStep(i) /\ Remember)
            \/ Stop /\ Remember

ScanSpec == ScanInit /\ [][ScanNext]_scanVars

\* The worker goes on after each step of its own.  The storage and the
\* providers owe it nothing: no request has a time-out, and the poll of Azure
\* has no limit.
FairScan == ScanSpec /\ WF_scanVars(\E i \in Item : OwnScanStep(i) /\ Remember)

-----------------------------------------------------------------------------
(* Properties. *)

\* Every variable keeps its type, and the reading goes on where the worker is.
ScanTypeOK ==
    /\ TypeOK /\ Reader!ChainType
    /\ \A i \in Item : (place[i] = "idle") = (worker[i] = "idle")

\* What is stored, for whatever the worker reads.
StoredAsPrinted == Reader!StoredAsPrinted

\* What the requirements say of a response of Gemini that is no JSON.
JsonOrNextProvider == Reader!JsonOrNextProvider

\* The storage and the providers answer one day, or throw.
AnswersCome == \A i \in Item : []<>(place[i] \notin {"downloading", "asking"})

\* If they do, every image the queue has is read or marked unreadable, through
\* a crash and failing updates, unless the queue gives it up.  If one of them
\* does not, the worker waits with it for ever: that is what the code does.
EveryImageIsRead ==
    AnswersCome => \A i \in Item : job[i] = "waiting" ~> (status[i] # "PROCESSING" \/ GivenUp(i))

\* The scan implements the review: however the chain of providers goes, it ends
\* in one of the two outcomes the review leaves open, and what the worker does
\* with it does not wait.
RefinesReview == FairSpec
=============================================================================
