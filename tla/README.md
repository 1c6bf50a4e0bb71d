# CatUang: a verification project for the backend

CatUang is the NestJS backend of a bookkeeping service for small businesses:
accounts and transactions, receipts read by OCR, sessions, a WhatsApp bot,
reports and exports, over PostgreSQL (Prisma), Redis and BullMQ. This directory
holds TLA+ models of it, the configurations that check them with TLC and proofs
that TLAPS checks. Paths below are relative to the repository (`src/…` is its
source directory, `TS`, `OCR`, … are named in the tables). Every definition that
models code is listed with its lines in `PROJECT.json` under `map`.

    tlc -workers 2 -config LedgerCore.cfg MCLedger      # one run
    tlapm LedgerProofs.tla                              # one module of proofs

## 1. Inventory

| component | state | operations | who it talks to |
|---|---|---|---|
| TransactionService (`modules/transaction`) | Transaction, Account.balance, AuditLog, `idempotency:<key>` in Redis | createTransaction, voidTransaction, findAll | locks Account rows in PostgreSQL; called by the HTTP controller, the import and the bot; emits to SyncService |
| OcrProcessingService, OcrWorker (`modules/ocr-processing`) | ImportBatch, ImportBatchItem, the BullMQ queue `ocr-processing` | upload, approve (one or many lines), reject; the worker's job | books through TransactionService; asks the providers |
| OCR providers and factory (`ocr-processing/providers`) | none that anything reads | extractReceipt of six providers, in two chains | called by the worker; the services behind them are external |
| AuthService, AuthController (`modules/auth`) | User, Business, RefreshToken, the cookie jars | register, login, refresh, logout | seeds CategoryService after register |
| SettingsService (`modules/settings`) | Business settings; User.whatsappPhone, waVerified; Business.waLinked; `wa_otp`, `wa_otp_attempts` in Redis | updateSettings; link, verify, unlink | sends through WhatsappBotService |
| WhatsappBotService and parsers (`modules/whatsapp-bot`) | none of its own | one webhook message: book, balance, report, BATAL, help | finds the user by verified number; calls TransactionService |
| CategoryService (`modules/category`) | Category | seedDefaults, create, update, remove | counted against Transaction |
| ExportService, ExportWorker, ReportService (`modules/report`) | ExportJob, the queue of exports | create job, process (3 attempts), profit and loss | reads Transaction |
| UploadRateLimiterGuard, RedisService | `rate:upload:<business>` | incr with a time to live | guards the upload |
| AssetLiabilityService | Asset, Liability | create, update, soft delete, list | emits to SyncService |
| AccountService, ExchangeRateService | Account, ExchangeRate | create, update, list | nothing else moves a balance |
| SyncService, NotificationService, AuditLogInterceptor, guards, filter, validators | none that lasts | events to browsers, reminders, audit rows after a response | read only, or append |

What makes each of them correct, and what is hard about it:

* **Ledger.** A balance is the sum of the confirmed transactions, a key books once,
  nobody overdraws, nothing is told before it is committed. Hard because calls
  interleave under SERIALIZABLE snapshots and row locks, answer from a cache that
  forgets, and may stop between the commit, the cache and the event; because
  `voidTransaction` decides on a status it read before its transaction; and because
  decimals are rounded by the column and not by the service.
* **Import.** One decision per receipt, booked completely or not at all, no image
  forgotten. Hard because service and worker update one row without a lock, the
  bookings are transactions of their own inside what looks like one, and BullMQ may
  deliver a job again.
* **Sessions.** Refresh tokens rotate in families; an old one that comes back ends
  its family. Hard because tabs share a cookie, answers get lost and a JWT of the
  same second is the same string.
* **WhatsApp linking.** Only a proven number is verified, it is one user's, and the
  flag of the business follows. Hard because a link or verify is up to six awaits over Redis and
  the database with nothing around them.
* **Bot.** A text books the amount it means, BATAL takes
  back what its sender was last told. Hard because Meta repeats a webhook it got no 200
  for, perhaps while the first is still being handled, because every delivery books
  under a key of its own, and because the database knows "the latest row" and not
  what the sender has seen.
* **Categories.** Names are distinct whatever their case, a category in use stays, the
  defaults stay. Hard because each rule is a query before the write, with no index and
  no lock shared with the bookings.
* **Exports and reports.** What a client polls is what became of the job; a profit is that
  of some moment. Hard because row, job and file are in three systems, every attempt
  writes the status, a stalled job runs again, and a report is two statements.
* **Reading.** What a reviewer sees is the answer of the first provider that did not throw, which for
  Gemini may be one without JSON and so without items, with the amounts that are on the page. Hard because there are two chains of providers that fail
  each in its own way, three parsers, and a validation that is applied to one of the three copies stored.
* **Rate limit.** Few uploads in a minute, and no business locked out for ever. Hard because
  the window is opened by INCR, closed by an EXPIRE that may never come, and does not slide.
* **Master data.** Browsers that follow the events show what the tables hold; no change of the settings
  is lost and the audit log tells of each. Hard because every update is a read, a write by id and an
  event, with awaits in between.

`PROJECT.json` lists every component with its status and every hazard at its line.

## 2. Plan

Done, in this order: the data and effects of money (`LedgerData`); the abstract book
(`AccountBook`) and the concurrent service that implements it (`Ledger`); the import
over it (`ImportReview`); `Session`; `WhatsappLink`; the desk of a business (`Business`
and, over it, `WhatsappBot`, `CategoryBook`, `ExportJob`, composed by `Desk`); the rate limit
(`UploadWindow`); what providers make of a page (`ReceiptText`), the chain of them
(`ReadingChain`) and the scan that composes it with the import and implements it (`Scan`);
the contract of an export (`ExportContract`), which `ExportJob` implements; and the master data of
a business (`Registry`), part of the desk.

Next, in order of what could go wrong:

1. `WhatsappBot` composed with `WhatsappLink`: the user of a number while it is unlinked
   and proven again, instead of the constant `UserOf`.
2. The filters of `ReportService` by date, account and currency, and a report against a
   booking that is dated back.
3. The amount of an approval as a string that may be negative (`approve-import.dto.ts` 60),
   through to the ledger.
4. The audit interceptor, whose rows are appended after the response.

Theorems: every invariant and action property of the runs that pass is proved (section 5). What
is left for TLC is liveness; what could be proved further are the components above once they are modelled,
and that a desk whose bookings go through `Ledger` is one whose bookings are a clerk's.

## 3. Modules

All models share some conventions. A *call* is one invocation of the service, its request is fixed
by `Workload` and its place in the code is `pc[c]`. What one call does between two awaits
that others can notice is one action. A failed call ends in `"failed"`, one whose
process stopped in `"lost"`. Definitions commented *Variant* are the same code with a
plausible bug; no specification uses them, they show that a property has teeth.

### Ledger: `LedgerData`, `AccountBook`, `Ledger`, `MCLedger`

`TS` = `src/modules/transaction/transaction.service.ts`.

| TLA+ | code |
|---|---|
| `CacheHit`, `CacheMiss`, `CacheError`, `RejectEarly` | TS 61–99: key, cached response, date, distinct accounts |
| `FindExisting`, `RejectVoid` | TS 370–383: the status read before the transaction |
| `Begin`, `Lock`, `LockConflict` | TS 99–109, 384–398, `lockAccounts` 490–512: the ids in order, `FOR UPDATE`, a row changed since the snapshot raises 40001 |
| `Accepted`, `Refuse`, `Insert`, `KeyTaken`, `KeyPending` | TS 111–222 and the unique index on idempotencyKey |
| `LinkCounter`, `LinkConflict` | the foreign key check of a counterAccountId that no lock was taken for |
| `MarkVoid` | TS 400–424 |
| `Commit`, `NewBalance` | TS 224–273, 425–470: increments, audit row, commit |
| `CacheSet`, `Emit`, `Expire` | TS 275–298, RedisService.set |
| `Abort`, `Crash` | the 10 s limit or a serialization failure; the node process |

Money is counted in mills so that rounding to the cent can be seen (`Round`,
`CreateDelta`, `VoidDelta`). One business is enough: every query filters by businessId, so
another business's account is an id not in `Account`. `AccountBook` is what the
service promises, a clerk who posts and reverses in one step; `RefinesBook` says that
`Ledger` implements it with the same `req`, `balance` and `status`.

### Import: `ImportReview`, `MCImportReview`

`OCR` = `modules/ocr-processing/ocr-processing.service.ts`, `WRK` = `ocr.worker.ts`.

| TLA+ | code |
|---|---|
| `Upload`, `RefuseUpload`, `Enqueue`, `EnqueueFails` | OCR 25–61: item, then job, which Redis may not take |
| `ReadForApproval`, `RefuseApproval`, `BookLine`, `LineFails`, `MarkApproved`, `MarkFails`, `Close` | OCR 107–241, both flows |
| `ReadForRejection`, `RefuseRejection`, `MarkRejected`, `RejectFails` | OCR 249–275 |
| `TakeUp`, `Recognise`, `StoreResult(Fails)`, `StoreError(Fails)`, `Acknowledge` | WRK 117–188 |
| `Crash` | the process; BullMQ gives stalled jobs back `MaxStalls` times |

The ledger is a clerk here (`Ledger` implements `AccountBook`): a line is booked or refused at once
and stays booked. `OwnStep` are the steps of the worker that wait for nobody but the queue and the database;
`Recognise` waits for the storage and the providers. Two variables are history, which no guard reads: `mute` holds the
items whose status ERROR could not be written, `hurried` those at which a call met another call, or the worker
(`Crowded`, recorded after each step by `Remember`). The reviewers of an item that is not in `hurried` waited for each other's answers
and for the worker.

### Reading: `ReceiptText`, `ReadingChain`, `Scan`, `MCScan`

`ocr-processing/providers/*.ts` and `ocr.worker.ts` 56–188.

| TLA+ | code |
|---|---|
| `Number`, `Joined`, `Normalised`, `Grouped`, `ExtractAmount` | the three patterns and `normaliseAmount`, the same in `google-vision-ocr.provider.ts` 69–73, 297–316 and `tesseract-ocr.provider.ts` 83–90, 220–248 |
| `ParseLine`, `Kept`, `ParseText`, `VisionResult`, `TesseractResult` | their parseLine, parseText and extractReceipt with the fixed confidences |
| `MapItem`, `GeminiResult` | `gemini-ocr.provider.ts` 190–267: every field of the JSON checked and defaulted |
| `MindeeResult` | `mindee-ocr.provider.ts` 25–84: the total and the mean of two confidences |
| `AzureAmount`, `AzureResult` | `azure-ocr.provider.ts` 57–93: the last line with "total" and a decimal number |
| `ValidateItem` | WRK 90–113 |
| `Chain`, `Throws`, `Answer` | `ocr-provider.factory.ts` 35–89, the loop of WRK 125–145 |
| `Download`, `DownloadFails`, `Save` | WRK 56–78, 147–169 |

A line of text is an amount as it is written, whether a keyword of income or "total" stands in it, and
its date; so `ReceiptText` can say what each pattern makes of "1.500.000rb" without strings. `Scan` runs
the chain inside `ImportReview`: `StartReading`, `SaveResult`, `EndJob` and `Stop` are steps of both,
`KeepReading` one of the chain alone, and `Recognised` is where the review learns how the loop ended.
`OwnScanStep` is `OwnStep` with `Recognised`: what the worker does when the chain is over.

### Rate limit: `UploadWindow`

`guards/upload-rate-limiter.guard.ts` 33–67 and `redis.service.ts` 91–98. `Incr` and `SetTtl` are the two commands,
`Decide` the comparison, `Wave` and `WaveCounted` the catch that lets a request through (the server
may have carried out the command), `StopGate` the process, `Tick` the clock that expires the key.
Its `.cfg` instantiates the module itself, with requests as model values.

### Sessions: `Session`, `MCSession`

`modules/auth/auth.service.ts` and `auth.controller.ts`. A token is the pair of its
user and the second of signing, since the JWT holds nothing else that changes; the
table maps it to a family and a revoked flag. `CheckEmail`, `CreateUser`, `Seed`
are register 25–66, `Issue` is generateTokens 180–222 with the unique index deciding
(`IssueTaken`), `Send`, `Refuse`, `FindToken`, `RevokeFamily`, `Rotate` are refresh
97–164, `Answer` and `LoseAnswer` write the cookie jar or not.

### WhatsApp linking: `WhatsappLink`, `MCWhatsappLink`

`modules/settings/settings.service.ts` 153–280, one action per await: `CheckPhone`,
`SetCode`, `ResetAttempts`, `NamePhone`, `Send` for link; `ReadCode`, `ReadAttempts`,
`StoreAttempts`, `DropCode`, `ResetAttempts`, `Prove` for verify; `ReadUser`, `Unlink`,
`CountUsers`, `ClearFlag` for unlink. `Deliver` is Meta's, `ExpireCode` and
`ExpireAttempts` are Redis's. A code is named after the call that drew it: two draws of
the same six digits, and a guess that hits, are left out. `ExpireAttempts` assumes what the
times to live say, that a count renewed under a code outlives it. `Fail` at any step
is a crash as well as a statement that fails: either way the call ends there. The
index on whatsappPhone is the schema's; no migration in the repository creates it.

### The desk: `Business`, `WhatsappBot`, `CategoryBook`, `ExportJob`, `ExportContract`, `Registry`, `Desk`, `MCDesk`

One business with what its bot, its categories, its exports and its master data share: accounts,
transactions, the calls under way, a clock in minutes. A booking is one step of a clerk, as `Ledger` is
proved to allow; amounts are in cents. `met` is history: which calls overlapped, so
that a property can say what is promised to calls that did not. `Next` interleaves
the steps of the four components, an account that is opened and the clock.

| TLA+ | code |
|---|---|
| `Deliver`, `Proceed` | `whatsapp-bot.controller.ts` 23–48: the messages of a webhook one after the other, then the 200; a webhook comes again only while the first has none |
| `Intent`, `Matches`, `ParseNominal`, `Number`, `Tens` | `nlp-parser.service.ts` 23–56, `nominal-parser.ts` |
| `FindUser`, `FindAccount`, `Report` | `whatsapp-bot.service.ts` 24–62, 71–78, 115–179 |
| `Book`, `CannotAfford`, `ReadBack`, `Apologise` | 80–112: the booking, the balance read for the answer, the catch around both |
| `FindLast`, `FindExisting`, `Void` | 181–207 and the two halves of voidTransaction |
| `Say`, `Drop` | sendReply, which swallows its errors; the process, or a query outside the try blocks |
| `CheckName`, `InsertCategory` | `category.service.ts` 45–79 |
| `FindCategory`, `FindDuplicate`, `Rename` | 112–166 |
| `FindCategory`, `CountUses`, `SoftDelete` | 173–214 |
| `Enter`, `Commit` | createTransaction with a categoryId, which holds the lock of its account in between |
| `CreateRow`, `Enqueue`, `EnqueueFails` | `export.service.ts` 15–41 |
| `TakeUp`, `SumIncome`, `SumExpense`, `Upload`, `Complete`, `Throws`, `MarkFailed`, `MarkFails` | `export.worker.ts` 28–103 with `report.service.ts` 10–79 |
| `Acknowledge`, `WorkerStops` | BullMQ: attempts, and jobs that stall `MaxStalls` times |
| `CreateRecord`, `FindRecord`, `NotFound`, `Revalue`, `Discard`, `Announce` | `asset-liability.service.ts` 18–217, assets and liabilities alike; `sync.service.ts` 42–45 |
| `ReadSettings`, `Merged`, `SaveSettings` | `settings.service.ts` 54–126: the row for the audit log, then the update with its entry |

A text is a command or a record of what the patterns look at: the verb, the amount and
where it stands, its separator, digits and unit, and whether a note follows. A reply is
what was sent to Meta, which may lose it. The user of a number is the constant
`UserOf`: `WhatsappLink` models how it changes. `CategoryBook` keeps a category that was
deleted, and renames it, as the code does by id. The sheet of an export is its two sums;
at most one worker has a job in hand, so a stalled job whose first worker lives on is not
modelled. `ExportContract` is what an export promises to the client that polls it: `Ask`, `Accept`, `Tell`,
`Restart`, `Settle` over a status, a fate and whether a worker was restarted; a status that said
COMPLETED is taken back only by a worker that did not know of it. `KeepsContract` maps the row, the
job's state in BullMQ (`FateOf`) and its stalls to them.

## 4. Runs

| run | asks | bounds | distinct states |
|---|---|---|---|
| `ledger_core` | balances, audit, locks, overdraft, refinement of the book | 3 workloads of 5 calls, 3 accounts in 2 currencies | about 0.6 million |
| `ledger_any` | refused requests next to accepted ones, one key for several calls, stray counters, and that every call that began ends | 5 workloads of 5 calls | about 0.22 million |
| `ledger_two_voids` | finds a promise broken | 3 calls | small |
| `scan_any` | upload, reading, approval and rejection whatever overlaps; what is stored of an image; what holds at items whose reviewers wait; refinement of the review | 4 workloads of up to 4 calls, 3 items, chains of 3 providers, what each may find in the images, 1 crash, 1 stall, failing updates, worker of 1 | 0.54 million |
| `scan_garbled` | finds a promise broken | 1 upload | small |
| `upload_window` | how many uploads pass, and whether the window reopens | 4 requests, limit 2, window of 2 ticks | 0.18 million |
| `import_two_approvals`, `import_rollback` | find a promise broken | 3 and 2 calls | small |
| `session_any` | rotation, families, cookies, registration | 5 calls, 2 browsers, 2 users, 3 seconds, tokens live 2 | 0.6 million |
| `whatsapp_any` | proof, uniqueness, flag, attempts, codes | 3 workloads of 5 calls, 2 users, 2 numbers, limit 2 | 4.5 million |
| `desk_any` | BATAL, names, categories in use, events, settings, profit, and the contract of an export | 14 workloads of up to 4 calls, batches of up to 2 messages, with and without an account, 2 minutes with a window of 0, 2 attempts, 1 stall | 0.53 million |
| `desk_spaced_unit` | finds a promise broken | 1 webhook | small |

Why these bounds are enough to see the cases: every hazard listed needs at most two
calls in conflict, a third that repeats or observes, and for a void the create
before it; four or five calls leave room for one conflict on top of another. Three accounts
give a cycle longer than two and two currencies the transfers that change the
amount. Of the three items of the scan one takes the chain of handwriting, and two receipts queue behind one worker. Three seconds hold a token
that expires, one that does not, and two that are equal. With a limit of two attempts
the third verify finds it spent. On the desk a clock of two minutes and a window of none
lets a row be too old for BATAL; two attempts and one stall give an export its last attempt
in both ways, and the code's third adds a repetition of the second; five names fold into
three, so that a clash can differ by case alone. The pages of a scan hold each form the patterns know, well and
badly written, and both kinds of chain with every provider configured, so that each of them answers in
some behaviour and throws in another. With a limit of two uploads, three requests fill a window
and four fill two halves of one. Deadlock is not checked by TLC: every
behaviour ends when its calls have, and waiting on one another is a property
of its own (`NoWaitCycle`, `EveryCallEnds`).

What the violations show, each against a sentence of the repository quoted in
`PROJECT.json`:

* two voids that overlap reverse a balance twice (TS 379 is outside the transaction);
* two approvals that overlap book a receipt twice (OCR 114 against 230);
* a refused line leaves the lines before it booked (the bookings ignore the outer transaction);
* an answer of Gemini that is no JSON is stored as a result with a confidence of 0 and no items, where
  `src/.kiro/specs/handwritten-scan/requirements.md` wants it ignored and the next provider asked (8.3);
* "masuk 2 juta transfer" is booked as two rupiah, since the pattern ends the amount at the blank
  (nlp-parser.service.ts 35, against `src/docs/idea/01-whatsapp-bot.md` 95).

Differences met on the way that no run shows: two deposits that each carry the other's account
as counterAccountId, which the contract wants empty and the service stores (TS 217), wait for
each other in the foreign key check, outside the ordered locking; a TRANSFER stores any currency it is sent
(TS 120, schema.prisma 185); the void of an amount with half a cent leaves a cent behind
(TS 408); the single-receipt approval checks its amount as a string only
(`approve-import.dto.ts` 60); a rejection before the worker is done is overwritten by
its result (WRK 160), which is why `TerminalStays` is stated of reviewers who wait; an upload whose job
Redis does not take (OCR 52) answers with an error and leaves an item in PROCESSING that nothing works at and nothing
finds again, as does a crash there, which `ProcessingIsWatched` says; that approval books its row as MANUAL (OCR 226); jobs have one attempt where the comment says
three (OCR 52, WRK 37); asking for a new code leaves waLinked set with no verified user
(settings.service.ts 172); a verify that commits between the count and the write of
a colleague's unlink ends with its business unflagged (272), which `late` excepts from
`VerifiedIsLinked`; a number that was asked for and never verified stays under the unique index,
so the request of its owner fails with a database error (175); a booking whose balance cannot be
read afterwards is answered as one that failed (whatsapp-bot.service.ts 98, 111), and the sender
who writes again books twice; "report", which the bot's document lists next to "laporan", is
not recognised, and the sums of "laporan" mix currencies (161); an export is attempted three times
(export.service.ts 33) where the backend guide says twice, keeps the errorMessage of an earlier
attempt when it completes, and calls a text file .pdf or .xlsx (export.worker.ts 71); a transaction
booked between the two sums of a report is in one of them, so the profit is that of no moment,
which is why `ProfitIsBalance` speaks of reports under which no row changed.

Of sessions: a refresh in the second of the login invalidates the old token and then cannot store the
new one, which is the same string (auth.service.ts 204, against `src/docs/master/06-api-contract.md` 41); `Session`
lets two tokens of a second be equal.

Of the reading: the comment of `normaliseAmount` (tesseract-ocr.provider.ts 230–236) has "50,000" become
50000 and a unit multiplied by the caller, but the code reads "50,000" and "50rb" as 50, and "1.500.000rb" as
1500; "50000" without Rp, which line 80 lists, matches no pattern, nor does the date "DD MM YYYY" of line 291.
Azure's total of "150.000" is 150 and of "1.500.000" is 1.5. Of the requirements in
`src/.kiro/specs/handwritten-scan/requirements.md`: a page without text gets a confidence of 0.3 or 0.4 where they want 0 (9.4); a
provider over its rate limit or quota is to be skipped (4.1, 4.3, 4.6), but the rate limit of Gemini and the quota of Google
Vision are counted and never consulted, so it is asked and its answer counts; a reading is to have a time-out (3.7, and the comment of
ocr.worker.ts 40), but no request has one and Azure's poll has no end (azure-ocr.provider.ts 45). `parsedData` keeps the items
as they were before the validation, and the confidence of the page is not lowered by it. When Mindee and Azure fail, the receipt that `DummyOcrProvider` makes up (150000, confidence 0.95)
goes to review like any other. `StoredAsPrinted` promises the amounts of the forms that are read right, so it holds
next to all of these.

Of the rest: both comments on the rate limiter say that its window slides (upload-rate-limiter.guard.ts 20,
redis.service.ts 85), but it is fixed, and nearly 20 uploads pass within a minute, which is the bound of
`UploadsBounded`; updates and deletions of assets and liabilities are not in the audit log that
`src/docs/master/01-architecture (1).md` 220 requires; an update of an asset that overlaps its deletion
answers 200 and announces an asset that is gone (asset-liability.service.ts 75), which is why `FeedIsTable`
excepts calls that overlapped.

**Fairness.** `FairSpec` of `Ledger` gives weak fairness to `Progress`, the steps of the
service and the database once a call is in: the event loop runs every continuation and
PostgreSQL grants a lock that is free. Clients, the time limit and the deadlock detector
owe nothing, so `EveryCallEnds` does not lean on them. `FairSpec` of `ImportReview` and
`FairScan` of `Scan` give it to the steps the worker takes by itself (`OwnStep`, `OwnScanStep`): BullMQ hands out a waiting job, the
continuation after an answer runs, and a statement sent to the database succeeds or fails. Neither assumes that a download or a
provider returns: no request has a time-out and Azure's poll no end, so an image may be in PROCESSING, and hold up the
others, for ever. `EveryImageIsRead` therefore has that as its condition (`AnswersCome`, that no reading stays where it waits for a
service), in the formula and not in the specification, and what it adds is that nothing else keeps an image in PROCESSING: not a
crash, a stalled job, a failing update or a reviewer, unless the queue gave the job up (`GivenUp`). Calls of reviewers have no fairness. `FairSpec` of `Desk` gives it to
the worker of the exports, which BullMQ starts again, gives its stalled jobs and hands those that wait; `FairWindow` to the
continuation of a request between INCR and EXPIRE and to time. The other specifications state safety alone.

## 5. Proofs

All theorems hold for any number of calls, accounts, items, users, tokens and codes, from the named
assumptions on the constants (`DataAssumption`, `ReviewAssumption`, `SessionAssumption`,
`LinkAssumption`, `BusinessAssumption`, `BotAssumption`, `CategoryAssumption`,
`ExportAssumption`, `RegistryAssumption`, `DeskAssumption`, `ScanAssumption`, `WindowAssumption`) that TLC evaluates in the runs.

The hypotheses that a theorem has beyond them are named with it below, and hold in every
run that checks the property.

Values that are computed along a sequence or over a set (a balance replayed from the log, a text parsed line by
line, the sum of a report) are recursive functions or folds, and the induction theorems of the library
take the claim as an operator, which the provers cannot instantiate. `FoldLemmas` does without: of the
numbers, or finite sets, at which a claim fails there is a least one (`WFMin` takes a set, not an operator), and just
below it the claim holds. From that come `UpTo` and `Table` (what a function along a sequence yields at each
place), `Kept*` (what a loop that skips elements leaves), `Greatest`, and for `SumFunctionOnSet` that a
sum does not depend on the order, what adding, removing or changing one element does to it (`SumAdd`,
`SumRemove`, `SumChange`) and what bounds it (`SumAtMost`, `MeanType`).

* `LedgerProofs`: `IInv = TypeOK /\ LockInv /\ RowInv`. `LockInv` says that locks
  exclude each other, that a call in its transaction holds or wants exactly its
  accounts, and that an account not marked stale is as in the snapshot: `HeldIsCurrent`
  is not inductive without it, since a commit changes a balance that others have read. `RowInv`
  says what a call that came so far has checked. From it: `TypeCorrect`, `HeldCurrent`,
  `KeyBuysOneRow`, and, for requests with positive amounts (`PositiveAmounts`), `NeverOverdrawn`.
  On top of it, each with what it adds:
  * `Implements`, that every step of the service is a step of the
    book or a stutter, for whole cents and at most one void per row (`WholeCents`,
    `OneVoidPerRow`: both needed, by half a cent and by `ledger_two_voids`). `VoidInv`: a row
    that is VOID has a call that voided it and committed, so the one void of a row finds it confirmed.
  * `DeadlockFree` for workloads where only transfers name a counter
    account (`CounterOnlyOnTransfer`, which is needed: see the deposits in the differences above).
    What a call holds is below what it waits for (`OrderInv`), so the call that waits for the
    largest account of a set waits for nobody in it.
  * `AuditTellsBalance` for whole cents, and `BalanceFromRows` for whole cents and one void per row. The log is
    finite and the author of an entry has committed (`AuditInv`), so a commit adds an entry that was not there and
    moves the replayed sum by what it moves the balance; likewise for the confirmed rows (`ConfirmedInv`),
    where a void takes out a row that `VoidInv` knows to be in.
  * `CommitComesFirst` and `SameKeySameAnswer`. A row that is there stays and a VOID one stays VOID; a call that
    has committed a void left it VOID, and every answer is a row of the key of the request (`AnswerInv`), of
    which `KeyBuysOneRow` knows one.
* `ImportReviewProofs`: `TypeCorrect`, `ApprovedBooked`, `BookedIsRead` for `Spec`;
  `PatientOneDecision` and `PatientTerminalStays`, also for `Spec`, from `PatientInv`: at an item at which nobody met anybody, one call
  at a time is at work and not while the worker is, so once the item is final nobody is left who could write its status, whatever goes
  on at the other items. `AnsweredComplete` from `LinesInv`: what a call
  has booked are the first lines of its request, however many, and all of them when it gets to its answer.
  `ProcessingWatched` from `WatchInv`: a worker that is done has written a status or the item is `mute`, and an item without
  a job has the upload that made it, which is on its way to the queue or ended before it.
* `ScanProofs`: `ScanIsReview`, that every step of the scan is a step of the review or a stutter, from
  which `ScanOneDecision` and `ScanTerminalStays` follow without another induction; and
  `AskedInTurnAlways`, from `ChainInv`: where the reading of an image is, all providers before have thrown and no other has, and since the
  last provider of a chain cannot throw the chain never runs out. `StoredIsPrinted` holds for pages of any length
  and any content: each provider's result is typed and, of well written lines, what is printed (`Sound`, one
  lemma per provider); the validation keeps amount and direction and takes dates ahead and trust in an amount of zero away
  (`Shown`); `ResultInv` says so of the answer in hand and of what is stored. It needs
  the value for "no amount" not to be a number, which `ScanAssumption` says. `ScanTyped` adds
  `WorkInv`, that an image is being read exactly while the worker has its job.
* `UploadWindowProofs`: `WindowTyped`, `LockoutExplained`, from `WInv`: a key that is there has an opener, and one
  without a time to live an opener that did not get past EXPIRE. `StretchBounded` from `StretchInv`: the requests
  admitted in the last `Window` ticks are at most `MaxRequests - 1` of earlier windows and those of the current one, of
  which the first came before its EXPIRE. The bound alone is not inductive: time passes over the end of a window, and
  what may then still be admitted depends on when the window began.
* `SessionProofs`: `TypeCorrect`, `OneLive`, `EndedStaysDead`, `TokensDistinct`,
  `BrowserKeepsSession`, `OneAccount`. The families grow at one end (`ForkInv`): of the tokens no
  refresh has invalidated and the calls about to store one there is at most one, unless
  the family was forked by two refreshes with one cookie.
* `WhatsappLinkProofs`: `TypeCorrect`, `NumberProven`, `NumberOfOne`, `FlagFollows`. A call past
  the comparison has proven the number of the code it *saw* (`ProofInv`), which no other
  call can take away; numbers are distinct before they are verified (`PhoneInv`); an unlink about
  to clear the flag leaves no verified user behind but late ones (`FlagInv`).
* `DeskProofs`: `Spec_NamesDistinct`, `Spec_DefaultsStand` and `Spec_UsedCategoryLives` of the whole
  desk, with the bot and the exports as steps that leave the categories alone. Calls that run
  together have met (`MetInv`); whoever holds the name a call is about to write got it from
  a call it met (`WriterInv`); a row a deletion has not counted, and a category a booking has
  lost since it read it, are due to calls that met (`UseInv`). No promise depends on the number of calls.
  `ExportKeepsContract` is the safety half of `KeepsContract`: every step of the desk is a step of the export contract or a
  stutter, from `ExportInv`, which says for each place of the worker what the row and the queue hold: an attempt that
  ended without a word is known to be mute, and a row that says COMPLETED while the job goes on was
  written by this attempt or before a stall.
  * `Spec_FeedIsTable` from `FeedInv`: if the writers of a record neither met nor were cut off, the table is ahead
    of the events only while its one writer has the written row in hand.
  * `Spec_ChangesStand` from `TrailInv`: the settings are those after the last entry, each column is what the last entry
    that set it asked for, and what a call has read are the settings after some entry since when it met all who wrote.
  * `Spec_BatalReachesLastTold` from `BotInv`: rows are in the order of their times, what
    senders were told of is in the book, a row of the bot has the amount its message parses to, and the row a BATAL has found
    is not before one its sender was told of.
  * `ReportIsBalance` from `ProfitInv`: the rows only grow and are only voided, so a report whose rows stand as when
    it began has their sums (`SheetTells`); and if no webhooks overlap, a row is voided once and the accounts of
    a currency hold the difference of the two sums (`BalanceInv`). It has the hypothesis that accounts open with a balance of zero,
    which is the default of the column (`src/prisma/schema.prisma` 143) and cannot be set by `CreateAccountDto`.
  * `Spec_TypeOK`, from the invariants above and `FileInv`, which counts attempts and stalls.

Only model-checked: liveness, which is `EveryCallEnds`, `EveryImageIsRead`, `WindowReopens` and the fair halves of
`RefinesReview` and `KeepsContract`, since fairness and ENABLED are out of the prover's reach. Which of the documented texts
the parser of the bot reads as documented is a matter of constants: `desk_spaced_unit` has one that it does not.

## 6. Not modelled

The filters of reports, and the audit interceptor, are on the plan above. Left out for good: descriptions, keywords
and the layout of dates in the text of a receipt (strings; a line says what the patterns found of them), the counters of
provider quotas (nothing reads them), what the services behind the providers, the storage and Meta do (external,
by their outcomes only), the lists and details of every module and the reminders (they change nothing), exchange rates
(appended and listed; the ledger takes the rate of its request), password hashing and JWT signing (by what they depend
on), configuration and wiring. Weak memory and data races do not occur: the process runs one event
loop, several processes are several sets of calls.
