---------------------------- MODULE ReceiptText -----------------------------
(***************************************************************************)
(* What the OCR providers make of a page.  GoogleVisionOcrProvider and     *)
(* TesseractOcrProvider get text and parse it line by line with the same   *)
(* patterns; GeminiOcrProvider gets JSON and checks its fields;            *)
(* MindeeOcrProvider gets a total, AzureOcrProvider looks for one.         *)
(* OcrWorker validates what it stores.                                     *)
(*                                                                         *)
(* A line of text is what those patterns can tell apart: an amount as it   *)
(* is written, whether a keyword of income occurs in it, whether "total"   *)
(* does, and its date.  Confidences are in percent.                        *)
(***************************************************************************)
EXTENDS Integers, FiniteSets, SequencesExt

CONSTANTS
    NoAmount,  \* no amount in the line, or nothing a pattern finds
    NoNumber   \* a JSON value that is not a number

\* An amount as it is written: its digits in pieces between dots, n / of behind
\* a comma (of is 1 without one), and a unit "rb", glued to it or not.
\*   "Rp 1.500.000"  pieces <<1, 500, 0>>          "50rb"    pieces <<50>>, unit rb
\*   "50,000"        pieces <<50>>, n 0, of 1000   "50 ribu" the same, not glued
Amount ==
    {a \in [rp: BOOLEAN, pieces: Seq(Nat) \ {<<>>}, n: Nat, of: {1, 10, 100, 1000},
            unit: {"none", "rb"}, glued: BOOLEAN] :
        /\ a.n < a.of
        /\ Len(a.pieces) > 1 => \A k \in DOMAIN a.pieces : a.pieces[k] < 1000}

\* A date may be missing, be one that no calendar has, or lie more than 24 h ahead.
Date == {"none", "broken", "past", "future"}

Printed == [amount: Amount \cup {NoAmount}, income: BOOLEAN, total: BOOLEAN, date: Date]

ParsedLineItem == [amount: Nat, type: {"MASUK", "KELUAR"}, date: Date, confidence: 0..100]

-----------------------------------------------------------------------------
(* normaliseAmount, extractAmount *)

\* Groups of thousands as one number.
Number(pieces) ==
    LET upTo[k \in 0..Len(pieces)] == IF k = 0 THEN 0 ELSE 1000 * upTo[k - 1] + pieces[k]
    IN  upTo[Len(pieces)]

\* Variant: replace without the flag g removes the first dot alone, and the next
\* one ends the number.
JoinedOnce(pieces) == IF Len(pieces) > 2 THEN 1000 * pieces[1] + pieces[2] ELSE Number(pieces)

\* Dots removed.
Joined(pieces) == Number(pieces)

\* The comma is a decimal point, and Math.round rounds the half up.
Normalised(pieces, n, of) == Joined(pieces) + IF 2 * n >= of THEN 1 ELSE 0

\* The groups of three a word boundary ends: letters behind the last one cost it.
Grouped(a) == IF a.unit = "rb" /\ a.glued /\ a.of = 1 THEN Front(a.pieces) ELSE a.pieces

\* The first pattern that matches: "Rp" and a number, groups of three between
\* dots, a number and a unit.  None of them multiplies by the unit.
ExtractAmount(a) ==
    IF a = NoAmount THEN NoAmount
    ELSE IF a.rp THEN Normalised(a.pieces, a.n, a.of)
    ELSE IF Len(Grouped(a)) > 1 THEN Normalised(Grouped(a), 0, 1)
    ELSE IF a.unit = "rb" THEN Normalised(a.pieces, a.n, a.of)
    ELSE NoAmount

-----------------------------------------------------------------------------
(* parseLine, parseTextToLineItems *)

\* The elements a loop over s does not skip, in their order.
Kept(s, Test(_)) ==
    LET upTo[k \in 0..Len(s)] ==
          IF k = 0 THEN <<>>
          ELSE IF Test(s[k]) THEN Append(upTo[k - 1], s[k]) ELSE upTo[k - 1]
    IN  upTo[Len(s)]

ParseLine(line, confidence) ==
    [amount |-> ExtractAmount(line.amount),
     type |-> IF line.income THEN "MASUK" ELSE "KELUAR",
     date |-> IF line.date = "broken" THEN "none" ELSE line.date,
     confidence |-> confidence]

\* Lines without an amount, or with one of zero, are skipped.
ParseText(text, confidence) ==
    LET Worth(line) == ExtractAmount(line.amount) \notin {NoAmount, 0}
        kept == Kept(text, Worth)
    IN  [k \in DOMAIN kept |-> ParseLine(kept[k], confidence)]

\* What extractReceipt returns: the lines it has parsed as rawOcrText, and items,
\* or the total of a receipt, in thousandths.
Parsed(text, items, confidence) ==
    [text |-> text, items |-> items, total |-> NoAmount, confidence |-> confidence]
Receipt(total, confidence) ==
    [text |-> <<>>, items |-> <<>>, total |-> total, confidence |-> confidence]

VisionResult(text) ==
    LET items == ParseText(text, 60) IN Parsed(text, items, IF items = <<>> THEN 40 ELSE 60)

TesseractResult(text) ==
    LET items == ParseText(text, 40) IN Parsed(text, items, IF items = <<>> THEN 30 ELSE 40)

-----------------------------------------------------------------------------
(* parseGeminiResponse, mapItem *)

\* An element of the array "items", each field of it of any type; and a response,
\* which may be no JSON, or JSON of another shape.
GeminiItem == [described: BOOLEAN, amount: Int \cup {NoNumber}, type: {"MASUK", "KELUAR", "other"},
               date: Date \cup {"shapeless"}, confidence: Int \cup {NoNumber}]
GeminiResponse == [valid: BOOLEAN, items: Seq(GeminiItem), overall: Int \cup {NoNumber}]

Clamped(x) == IF x < 0 THEN 0 ELSE IF x > 100 THEN 100 ELSE x

\* A date that looks like one is kept, whatever the calendar says.
MapItem(g) ==
    [amount |-> IF g.amount = NoNumber \/ g.amount < 0 THEN 0 ELSE g.amount,
     type |-> IF g.type = "MASUK" THEN "MASUK" ELSE "KELUAR",
     date |-> IF g.date = "shapeless" THEN "none" ELSE g.date,
     confidence |-> IF g.confidence = NoNumber THEN 50 ELSE Clamped(g.confidence)]

GeminiResult(response) ==
    LET Described(g) == g.described
        kept == Kept(response.items, Described)
    IN  IF ~response.valid THEN Parsed(<<>>, <<>>, 0)
        ELSE Parsed(<<>>, [k \in DOMAIN kept |-> MapItem(kept[k])],
                    IF response.overall = NoNumber THEN 0 ELSE Clamped(response.overall))

-----------------------------------------------------------------------------
(* MindeeOcrProvider *)

\* The total of a prediction, and how sure it is of the supplier and of the total.
Prediction == [total: Nat \cup {NoAmount}, sure: Seq(0..100)]

\* A total of zero counts as none.
MindeeResult(p) ==
    Receipt(IF p.total = 0 THEN NoAmount ELSE p.total,
            IF p.sure = <<>> THEN 50 ELSE SumFunction(p.sure) \div Len(p.sure))

-----------------------------------------------------------------------------
(* AzureOcrProvider *)

\* Digits, one dot or comma, digits: of "1.500.000" the first two pieces, as a
\* decimal number; nothing of "50000".
AzureAmount(a) ==
    IF a = NoAmount THEN NoAmount
    ELSE IF Len(a.pieces) > 1 THEN 1000 * a.pieces[1] + a.pieces[2]
    ELSE IF a.of > 1 THEN 1000 * a.pieces[1] + (1000 \div a.of) * a.n
    ELSE NoAmount

\* The last line with "total" in it that has such a number.
AzureResult(text) ==
    LET totals == {k \in DOMAIN text : text[k].total /\ AzureAmount(text[k].amount) # NoAmount}
    IN  Receipt(IF totals = {} THEN NoAmount ELSE AzureAmount(text[Max(totals)].amount), 80)

-----------------------------------------------------------------------------
(* OcrWorker.validateParsedItems *)

\* Variant: the minimum of zero is forgotten.
ValidateUnclamped(item) ==
    LET sure == IF item.amount <= 0 THEN 0 ELSE item.confidence
    IN  IF item.date = "future"
        THEN [item EXCEPT !.date = "none", !.confidence = sure - 20]
        ELSE [item EXCEPT !.confidence = sure]

ValidateItem(item) ==
    LET sure == IF item.amount <= 0 THEN 0 ELSE item.confidence
    IN  IF item.date = "future"
        THEN [item EXCEPT !.date = "none", !.confidence = IF sure < 20 THEN 0 ELSE sure - 20]
        ELSE [item EXCEPT !.confidence = sure]

ValidateParsedItems(items) == [k \in DOMAIN items |-> ValidateItem(items[k])]

-----------------------------------------------------------------------------
(* What a person reads. *)

\* Rupiah, for an amount without decimals.
Meant(a) == Number(a.pieces) * IF a.unit = "rb" THEN 1000 ELSE 1

\* The forms the patterns are right about: a number behind "Rp" or with its
\* thousands in groups, and no unit, decimals or comma.
WellWritten(a) == /\ a # NoAmount /\ a.unit = "none" /\ a.of = 1
                  /\ a.rp \/ Len(a.pieces) > 1
                  /\ Meant(a) > 0
=============================================================================
