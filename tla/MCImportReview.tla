--------------------------- MODULE MCImportReview ---------------------------
(* Instances of ImportReview for TLC: two approvals of an item that meet, and *)
(* one whose second line is refused.                                          *)
EXTENDS ImportReview, TLC

CONSTANTS c1, c2, c3, i1

UploadOf(i) == [op |-> "upload", item |-> i, file |-> "image"]
Approval(i, many, ls) == [op |-> "approve", item |-> i, multi |-> many, lines |-> ls]

\* The workloads of the runs that find a promise broken.
TwoApprovals == {c1 :> UploadOf(i1) @@ c2 :> Approval(i1, FALSE, <<"good">>)
                 @@ c3 :> Approval(i1, FALSE, <<"good">>)}
SecondRefused == {c1 :> UploadOf(i1) @@ c2 :> Approval(i1, TRUE, <<"good", "refused">>)}
=============================================================================
