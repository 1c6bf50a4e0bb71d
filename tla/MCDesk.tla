------------------------------- MODULE MCDesk -------------------------------
(* Instances of Desk for TLC: webhooks that are repeated and overlap the     *)
(* web application, owners who edit categories, exports that are retried.    *)
EXTENDS Desk, TLC

CONSTANTS c1, c2, c3, c4, u1, u2, p1, p2, p3, d1

MCUserOf == p1 :> u1 @@ p2 :> u2 @@ p3 :> NoUser
MCOpening == {<<>>, <<[kind |-> "BANK", ccy |-> "IDR", balance |-> 0]>>}
MCName == {"kopi", "Kopi", "teh", "sewa", "Sewa"}
MCLower == [n \in MCName |-> IF n = "Kopi" THEN "kopi" ELSE IF n = "Sewa" THEN "sewa" ELSE n]
MCNameOf == [k \in DefaultCategory |-> "Sewa"]

Word(w) == [word |-> w]
Written == [verb |-> "masuk", amountFirst |-> FALSE, note |-> TRUE, lead |-> 2, sep |-> "none",
            tail |-> 0, digits |-> 0, unit |-> "none", glued |-> TRUE]
\* "masuk 500rb dari jual nasi", "keluar 1,5jt untuk bayar supplier",
\* "masuk 500.000 dari jual nasi", "300rb masuk dari pelanggan", "masuk 1.5jt ...",
\* and "masuk 2 juta transfer", which the parser does not read as it is meant.
FiveHundredRb == [Written EXCEPT !.lead = 500, !.unit = "rb"]
OneAndAHalfJt == [Written EXCEPT !.verb = "keluar", !.lead = 1, !.sep = "comma", !.tail = 5,
                                 !.digits = 1, !.unit = "jt"]
FiveHundredDots == [Written EXCEPT !.lead = 500, !.sep = "dot", !.digits = 3]
ThreeHundredFirst == [Written EXCEPT !.amountFirst = TRUE, !.lead = 300, !.unit = "rb"]
TwoSpaceJuta == [Written EXCEPT !.unit = "jt", !.glued = FALSE]
OneHalfDotJt == [Written EXCEPT !.lead = 1, !.sep = "dot", !.tail = 5, !.digits = 1, !.unit = "jt"]

\* In cents, as docs/idea/01-whatsapp-bot.md (lines 84 to 95) and
\* nominal-parser.spec.ts give them.
MCDocumented == FiveHundredRb :> 50000000 @@ OneAndAHalfJt :> 150000000
                @@ FiveHundredDots :> 50000000 @@ ThreeHundredFirst :> 30000000
                @@ OneHalfDotJt :> 150000000 @@ TwoSpaceJuta :> 200000000

From(p, t) == [from |-> p, text |-> t]
WebhookOf(c, b) == [op |-> "deliver", of |-> c, batch |-> b]
EnterBy(u, type, m, k) == [op |-> "enter", user |-> u, acc |-> 1, type |-> type, amt |-> m, cat |-> k]
NewName(n) == [op |-> "create", name |-> n]
RenameTo(k, n) == [op |-> "rename", cat |-> k, name |-> n]
DropOf(k) == [op |-> "remove", cat |-> k]
ExportOf(t) == [op |-> "export", type |-> t]
NewAccount(k, y) == [op |-> "account", kind |-> k, ccy |-> y]

Nothing == [op |-> "none"]

\* A batch that Meta repeats, and a message it repeats next to a BATAL.
Repeats == {c1 :> WebhookOf(c1, batch) @@ c2 :> WebhookOf(c1, batch) @@ c3 :> call
            @@ c4 :> Nothing :
               <<batch, call>> \in
                 {<<<<From(p1, FiveHundredRb), From(p1, OneAndAHalfJt)>>, Nothing>>,
                  <<<<From(p1, FiveHundredRb)>>, WebhookOf(c3, <<From(p1, Word("batal"))>>)>>}}
\* Two users who book, a BATAL that is repeated.
Undo == c1 :> WebhookOf(c1, <<From(p1, FiveHundredDots), From(p2, ThreeHundredFirst)>>)
        @@ c2 :> WebhookOf(c2, <<From(p1, Word("batal"))>>)
        @@ c3 :> WebhookOf(c2, <<From(p1, Word("batal"))>>)
        @@ c4 :> Nothing
\* Everything else the bot is asked while an account of cash is opened and
\* something is spent.
Questions == c1 :> WebhookOf(c1, <<From(p3, FiveHundredRb), From(p1, Word("saldo"))>>)
             @@ c2 :> WebhookOf(c2, <<From(p1, Word("laporan")), From(p1, OneHalfDotJt)>>)
             @@ c3 :> NewAccount("CASH", "IDR") @@ c4 :> EnterBy(u1, "KELUAR", 20, d1)
\* One name for several categories, one of them deleted, or the other renamed.
Names == {c1 :> NewName("kopi") @@ c2 :> NewName("Kopi") @@ c3 :> RenameTo(c1, "teh")
          @@ c4 :> call : call \in {DropOf(c1), RenameTo(c2, "sewa")}}
\* A category that is used, by a row that is voided, while it is deleted.
Used == c1 :> NewName("kopi") @@ c2 :> EnterBy(u1, "MASUK", 10, c1) @@ c3 :> DropOf(c1)
        @@ c4 :> WebhookOf(c4, <<From(p1, Word("batal"))>>)
\* An export while the bot books and voids, or while the owner books and
\* spends, and one that is not supported.
Voided == c1 :> ExportOf("PROFIT_LOSS")
          @@ c2 :> WebhookOf(c2, <<From(p1, OneHalfDotJt), From(p1, Word("batal"))>>)
          @@ c3 :> Nothing @@ c4 :> Nothing
Spent == c1 :> ExportOf("PROFIT_LOSS") @@ c2 :> EnterBy(u1, "MASUK", 30, d1)
         @@ c3 :> EnterBy(u1, "KELUAR", 20, d1) @@ c4 :> Nothing
Unsupported == c1 :> ExportOf("ASSET_POSITION") @@ c2 :> ExportOf("PROFIT_LOSS")
               @@ c3 :> Nothing @@ c4 :> Nothing

RecordOfKind(kind, v) == [op |-> "record", kind |-> kind, val |-> v]
RevalueTo(kind, c, v) == [op |-> "revalue", kind |-> kind, of |-> c, val |-> v]
DiscardOf(kind, c) == [op |-> "discard", kind |-> kind, of |-> c]
MCStandard == "baseCurrency" :> "old" @@ "defaultExportFormat" :> "old"
SettingsTo(choices) == [op |-> "settings", set |-> choices]

\* An asset that is revalued twice, or revalued, deleted and also asked for
\* as a liability.
Revalued == c1 :> RecordOfKind("asset", 1) @@ c2 :> RevalueTo("asset", c1, 2)
Assets == {Revalued @@ c3 :> RevalueTo("asset", c1, 3) @@ c4 :> Nothing,
           Revalued @@ c3 :> DiscardOf("liability", c1) @@ c4 :> DiscardOf("asset", c1)}
\* Three owners who change the settings.
Owners == c1 :> SettingsTo("baseCurrency" :> "new") @@ c2 :> SettingsTo("defaultExportFormat" :> "new")
          @@ c3 :> SettingsTo("baseCurrency" :> "other" @@ "defaultExportFormat" :> "other")
          @@ c4 :> Nothing
\* Messages that ask for no booking, and an owner who tries a default category.
Asides == c1 :> WebhookOf(c1, <<From(p1, Word("help")), From(p1, Word("other"))>>)
          @@ c2 :> RenameTo(d1, "teh") @@ c3 :> Nothing @@ c4 :> Nothing

\* One message of a spaced amount.
SpacedAmount == {c1 :> WebhookOf(c1, <<From(p2, TwoSpaceJuta)>>) @@ c2 :> Nothing @@ c3 :> Nothing
                 @@ c4 :> Nothing}

DeskWorkload == {Undo, Questions, Used, Voided, Spent, Unsupported, Owners, Asides}
                \cup Names \cup Repeats \cup Assets
=============================================================================
