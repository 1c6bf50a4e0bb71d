------------------------------- MODULE MCScan -------------------------------
(* Instances of Scan for TLC: decisions on a handwritten page and a receipt   *)
(* that the chain of providers has read, well or badly.                       *)
EXTENDS Scan, TLC

CONSTANTS c1, c2, c3, c4, i1, i2, i3

UploadOf(i) == [op |-> "upload", item |-> i, file |-> "image"]
RejectOf(i) == [op |-> "reject", item |-> i]
Approval(i, many, ls) == [op |-> "approve", item |-> i, multi |-> many, lines |-> ls]

\* A page that people wrote, approved or rejected or both.
Handwriting == c1 :> UploadOf(i1) @@ c2 :> Approval(i1, TRUE, <<"good", "invalid">>)
               @@ c3 :> Approval(i1, FALSE, <<"good">>) @@ c4 :> RejectOf(i1)
\* Both flows of approval and a rejection, on a receipt.
Decisions == c1 :> UploadOf(i2) @@ c2 :> Approval(i2, TRUE, <<"good", "good">>)
             @@ c3 :> Approval(i2, FALSE, <<"good">>) @@ c4 :> RejectOf(i2)
\* Lines that are refused before or after others are booked.
Refusals == c1 :> UploadOf(i2) @@ c2 :> Approval(i2, TRUE, <<"good", "refused">>)
            @@ c3 :> Approval(i2, TRUE, <<"good", "invalid">>)
            @@ c4 :> Approval(i2, FALSE, <<"invalid">>)
\* Two receipts that wait for each other and are decided on.
Uploads == c1 :> UploadOf(i2) @@ c2 :> UploadOf(i3) @@ c3 :> Approval(i2, FALSE, <<"good">>)
           @@ c4 :> RejectOf(i3)

ScanWorkload == {Handwriting, Decisions, Refusals, Uploads}
OneUpload == {c1 :> UploadOf(i1)}

MCInputOf == i1 :> "HANDWRITTEN" @@ i2 :> "RECEIPT" @@ i3 :> "RECEIPT"

Plain == [rp |-> FALSE, pieces |-> <<50>>, n |-> 0, of |-> 1, unit |-> "none", glued |-> TRUE]
\* "Rp 1.500.000", "25.000", "50 rb", "50,000", "1.500.000rb".
OneAndAHalfMillion == [Plain EXCEPT !.rp = TRUE, !.pieces = <<1, 500, 0>>]
TwentyFiveThousand == [Plain EXCEPT !.pieces = <<25, 0>>]
FiftyRb == [Plain EXCEPT !.unit = "rb", !.glued = FALSE]
FiftyComma == [Plain EXCEPT !.of = 1000]
MillionRb == [Plain EXCEPT !.pieces = <<1, 500, 0>>, !.unit = "rb"]

Line0 == [amount |-> NoAmount, income |-> FALSE, total |-> FALSE, date |-> "none"]
Written(a, income, date) == [Line0 EXCEPT !.amount = a, !.income = income, !.date = date]

\* A tidy page, and one as people write; a receipt with a total.
Tidy == <<Written(OneAndAHalfMillion, TRUE, "past"), Written(TwentyFiveThousand, FALSE, "future")>>
Untidy == <<Line0, Written(FiftyRb, TRUE, "broken"), Written(FiftyComma, FALSE, "none"),
            Written(MillionRb, FALSE, "none")>>
Till == <<Written(TwentyFiveThousand, FALSE, "past"),
          [Line0 EXCEPT !.amount = TwentyFiveThousand, !.total = TRUE]>>
MCPages == i1 :> {Tidy, Untidy} @@ i2 :> {Till} @@ i3 :> {Till}

Json(amount, type, date, confidence) ==
    [described |-> TRUE, amount |-> amount, type |-> type, date |-> date, confidence |-> confidence]
\* Two items with a date ahead, one of them without a readable amount; no JSON at all.
MCResponses == {
    [valid |-> TRUE, overall |-> 90,
     items |-> <<Json(50000, "MASUK", "future", 95), Json(0, "other", "future", NoNumber)>>],
    [valid |-> FALSE, overall |-> NoNumber, items |-> <<>>]}
\* A receipt that is read well, and one without a total.
MCPredictions == {[total |-> 150000000, sure |-> <<80, 91>>], [total |-> 0, sure |-> <<>>]}
=============================================================================
