---------------------------- MODULE ReadingChain ----------------------------
(***************************************************************************)
(* How OcrWorker gets an image read: it downloads it, asks the providers   *)
(* of OcrProviderFactory one after the other until one answers, validates  *)
(* the answer and stores it.  The quotas of Gemini and Google Vision are   *)
(* counted or offered, and nobody asks for them.                           *)
(***************************************************************************)
EXTENDS ReceiptText

CONSTANTS
    Item,        \* images, one for each job
    InputOf,     \* ImportBatchItem.inputType of each
    Configured,  \* the providers that have their keys
    Pages,       \* what may be written on each image, line by line
    Responses,   \* what Gemini may respond to an image
    Predictions, \* what Mindee may find in an image
    NoResult     \* nothing read, nothing stored

VARIABLES
    place,  \* how far the reading of each image has come
    at,     \* the provider of the chain it is at
    found,  \* result, and usedProviderName
    saved,  \* parsedItems, confidence and providerUsed of the row
    threw   \* history: the providers that threw in this attempt

chainVars == <<place, at, found, saved, threw>>

\* getProvidersForInputType: the last of each chain needs no key.
IfConfigured(p) == IF p \in Configured THEN <<p>> ELSE <<>>
Chain(i) ==
    IF InputOf[i] = "HANDWRITTEN"
    THEN IfConfigured("gemini") \o IfConfigured("gcv") \o <<"tesseract">>
    ELSE IfConfigured("mindee") \o IfConfigured("azure") \o <<"dummy">>

Asked(i) == Chain(i)[at[i]]

ChainInit ==
    /\ place = [i \in Item |-> "idle"]
    /\ at = [i \in Item |-> 1]
    /\ found = [i \in Item |-> NoResult]
    /\ saved = [i \in Item |-> NoResult]
    /\ threw = [i \in Item |-> {}]

PlaceTo(i, p) == place' = [place EXCEPT ![i] = p]

\* The queue hands the job out.
Begin(i) ==
    /\ place[i] = "idle"
    /\ PlaceTo(i, "downloading")
    /\ UNCHANGED <<at, found, saved, threw>>

Download(i) ==
    /\ place[i] = "downloading"
    /\ PlaceTo(i, "asking")
    /\ UNCHANGED <<at, found, saved, threw>>

\* The storage does not answer, or not with 200: nobody is asked.
DownloadFails(i) ==
    /\ place[i] = "downloading"
    /\ PlaceTo(i, "cut")
    /\ UNCHANGED <<at, found, saved, threw>>

-----------------------------------------------------------------------------
(* The providers *)

\* Tesseract catches everything, and Dummy makes its answer up.
MayThrow(p) == p \notin {"tesseract", "dummy"}

\* What provider p may make of image i;
\* Tesseract returns no text when it fails.
Answers(i, p) ==
    CASE p = "gemini"    -> {GeminiResult(r) : r \in Responses}
      [] p = "gcv"       -> {VisionResult(text) : text \in Pages[i]}
      [] p = "tesseract" -> {TesseractResult(text) : text \in Pages[i] \cup {<<>>}}
      [] p = "mindee"    -> {MindeeResult(r) : r \in Predictions}
      [] p = "azure"     -> {AzureResult(text) : text \in Pages[i]}
      [] p = "dummy"     -> {Receipt(150000000, 95)}

\* A provider throws and the loop goes on to the next.
Throws(i) ==
    /\ place[i] = "asking" /\ MayThrow(Asked(i))
    /\ threw' = [threw EXCEPT ![i] = @ \cup {Asked(i)}]
    /\ IF at[i] < Len(Chain(i))
       THEN at' = [at EXCEPT ![i] = @ + 1] /\ UNCHANGED place
       ELSE PlaceTo(i, "exhausted") /\ UNCHANGED at
    /\ UNCHANGED <<found, saved>>

\* The provider has read image i, as result says.
Found(i, result) ==
    found' = [found EXCEPT ![i] = [by |-> Asked(i), after |-> threw[i], result |-> result]]

\* The first answer ends the loop.
Answer(i) ==
    /\ place[i] = "asking"
    /\ \E result \in Answers(i, Asked(i)) : Found(i, result)
    /\ PlaceTo(i, "answered")
    /\ UNCHANGED <<at, saved, threw>>

-----------------------------------------------------------------------------

\* The worker writes the validated items.
Save(i) ==
    /\ place[i] = "answered"
    /\ saved' = [saved EXCEPT ![i] =
                   [found[i] EXCEPT !.result.items = ValidateParsedItems(@)]]
    /\ UNCHANGED <<place, at, found, threw>>

\* The jobs of these images end, with or without a result, or with the process.
Finish(images) ==
    /\ place' = [i \in Item |-> IF i \in images THEN "idle" ELSE place[i]]
    /\ at' = [i \in Item |-> IF i \in images THEN 1 ELSE at[i]]
    /\ found' = [i \in Item |-> IF i \in images THEN NoResult ELSE found[i]]
    /\ threw' = [i \in Item |-> IF i \in images THEN {} ELSE threw[i]]
    /\ UNCHANGED saved

ReadStep(i) == Download(i) \/ DownloadFails(i) \/ Throws(i) \/ Answer(i)

ChainNext ==
    \/ \E i \in Item : Begin(i) \/ ReadStep(i) \/ Save(i)
    \/ \E images \in SUBSET Item : Finish(images)

ChainSpec == ChainInit /\ [][ChainNext]_chainVars

-----------------------------------------------------------------------------
(* Properties. *)

OnlyIfConfigured == {"gemini", "gcv", "mindee", "azure"}
ResultType == [text: Seq(Printed), items: Seq(ParsedLineItem),
               total: Nat \cup {NoAmount}, confidence: 0..100]
ReadingType == [by: OnlyIfConfigured \cup {"tesseract", "dummy"},
                after: SUBSET OnlyIfConfigured, result: ResultType]

ChainType ==
    /\ place \in [Item -> {"idle", "downloading", "asking", "answered", "cut", "exhausted"}]
    /\ \A i \in Item : at[i] \in DOMAIN Chain(i)
    /\ found \in [Item -> ReadingType \cup {NoResult}]
    /\ saved \in [Item -> ReadingType \cup {NoResult}]
    /\ threw \in [Item -> SUBSET OnlyIfConfigured]

\* What is stored came from a provider whose predecessors in the chain threw in
\* that attempt, as the loop of the worker takes it: also a response without
\* JSON is an answer.  The chain never runs out.
AskedInTurn ==
    \A i \in Item :
        /\ place[i] # "exhausted"
        /\ saved[i] # NoResult =>
               \E k \in DOMAIN Chain(i) : /\ saved[i].by = Chain(i)[k]
                                          /\ saved[i].after = {Chain(i)[j] : j \in 1..k - 1}

\* A response of Gemini that is no JSON is never what the worker goes on with.
JsonOrNextProvider ==
    \A i \in Item : found[i] # NoResult /\ found[i].by = "gemini" =>
        \E r \in Responses : r.valid /\ found[i].result = GeminiResult(r)

\* A text of well written lines is stored line by line, each with its amount in
\* rupiah and its direction; and whoever read the page, no stored date is more
\* than 24 h ahead and an item without an amount says it is not to be trusted.
StoredAsPrinted ==
    \A i \in Item : saved[i] # NoResult =>
        LET items == saved[i].result.items
            text == saved[i].result.text
        IN  /\ \A k \in DOMAIN items :
                   /\ items[k].date # "future"
                   /\ items[k].amount = 0 => items[k].confidence = 0
            /\ text # <<>> /\ (\A k \in DOMAIN text : WellWritten(text[k].amount))
               => /\ Len(items) = Len(text)
                  /\ \A k \in DOMAIN text :
                        /\ items[k].amount = Meant(text[k].amount)
                        /\ items[k].type = IF text[k].income THEN "MASUK" ELSE "KELUAR"
=============================================================================
