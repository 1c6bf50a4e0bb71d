----------------------------- MODULE ScanProofs ------------------------------
(***************************************************************************)
(* The scan implements the review, so that what was proved of the review   *)
(* holds of it; the chain of providers is asked in turn and never runs     *)
(* out, whatever the calls and crashes around; and what the parsers make   *)
(* of pages of any length is stored as it is printed.                      *)
(***************************************************************************)
EXTENDS Scan, ImportReviewProofs, SequenceTheorems, FoldLemmas

\* A reading that is under way has asked the providers before the one it is at,
\* and all of them threw; the answer it holds was given by that one.
AskedInOrder(i) ==
    /\ place[i] # "exhausted"
    /\ at[i] \in 1..Len(Reader!Chain(i))
    /\ threw[i] = {Reader!Chain(i)[j] : j \in 1..at[i] - 1}
    /\ place[i] = "answered" =>
           \E result : found[i] = [by |-> Reader!Asked(i), after |-> threw[i], result |-> result]

\* What is stored came from a provider behind those that threw, and no other.
SavedInOrder(i) ==
    saved[i] # NoResult =>
        \E k \in DOMAIN Reader!Chain(i) :
            /\ saved[i].by = Reader!Chain(i)[k]
            /\ saved[i].after = {Reader!Chain(i)[j] : j \in 1..k - 1}

ChainInv ==
    /\ DOMAIN place = Item /\ DOMAIN at = Item /\ DOMAIN found = Item
    /\ DOMAIN saved = Item /\ DOMAIN threw = Item
    /\ place = [i \in Item |-> place[i]] /\ at = [i \in Item |-> at[i]]
    /\ found = [i \in Item |-> found[i]] /\ saved = [i \in Item |-> saved[i]]
    /\ threw = [i \in Item |-> threw[i]]
    /\ \A i \in Item : AskedInOrder(i) /\ SavedInOrder(i)

-----------------------------------------------------------------------------
(* Every chain ends with a provider that does not throw. *)

LEMMA OneLink ==
  ASSUME NEW S, NEW last \in S
  PROVE  <<last>> \in Seq(S) /\ Len(<<last>>) = 1 /\ <<last>>[1] = last
OBVIOUS

LEMMA LastLink ==
  ASSUME NEW S, NEW s \in Seq(S), NEW last \in S
  PROVE  /\ s \o <<last>> \in Seq(S)
         /\ Len(s \o <<last>>) \in Nat \ {0}
         /\ (s \o <<last>>)[Len(s \o <<last>>)] = last
<1> DEFINE one == <<last>>
<1>1. one \in Seq(S) /\ Len(one) = 1 /\ one[1] = last
  BY OneLink
<1> HIDE DEF one
<1>2. Len(s) \in Nat
  OBVIOUS
<1>3. /\ s \o one \in Seq(S)
      /\ Len(s \o one) = Len(s) + 1
      /\ \A n \in 1..Len(s) + 1 : (s \o one)[n] = IF n <= Len(s) THEN s[n] ELSE one[n - Len(s)]
  <2>1. one \in Seq(S) /\ Len(one) = 1
    BY <1>1
  <2>2. /\ s \o one \in Seq(S)
        /\ Len(s \o one) = Len(s) + Len(one)
        /\ \A n \in 1..Len(s) + Len(one) :
               (s \o one)[n] = IF n <= Len(s) THEN s[n] ELSE one[n - Len(s)]
    BY <2>1, ConcatProperties, Zenon
  <2> QED  BY <2>1, <2>2, Zenon
<1>4. Len(s) + 1 \in 1..Len(s) + 1 /\ ~(Len(s) + 1 <= Len(s)) /\ Len(s) + 1 - Len(s) = 1
  BY <1>2
<1>5. (s \o one)[Len(s) + 1] = one[1]
  BY <1>3, <1>4
<1> QED  BY <1>1, <1>2, <1>3, <1>5 DEF one

Provider == {"gemini", "gcv", "mindee", "azure", "tesseract", "dummy"}

LEMMA ChainType ==
  ASSUME NEW i \in Item
  PROVE  /\ Reader!Chain(i) \in Seq(Provider)
         /\ Len(Reader!Chain(i)) \in Nat \ {0}
         /\ Reader!Chain(i)[Len(Reader!Chain(i))] \in {"tesseract", "dummy"}
<1>1. \A p, q \in Provider :
        Reader!IfConfigured(p) \o Reader!IfConfigured(q) \in Seq(Provider)
  <2>1. \A p \in Provider : Reader!IfConfigured(p) \in Seq(Provider)
    BY OneLink, EmptySeq DEF Reader!IfConfigured
  <2> QED  BY <2>1, ConcatProperties
<1>2. CASE InputOf[i] = "HANDWRITTEN"
  <2>1. /\ "tesseract" \in Provider
        /\ Reader!IfConfigured("gemini") \o Reader!IfConfigured("gcv") \in Seq(Provider)
    BY <1>1 DEF Provider
  <2>2. Reader!Chain(i) = (Reader!IfConfigured("gemini") \o Reader!IfConfigured("gcv"))
                          \o <<"tesseract">>
    BY <1>2 DEF Reader!Chain
  <2> QED  BY <2>1, <2>2, LastLink
<1>3. CASE InputOf[i] # "HANDWRITTEN"
  <2>1. /\ "dummy" \in Provider
        /\ Reader!IfConfigured("mindee") \o Reader!IfConfigured("azure") \in Seq(Provider)
    BY <1>1 DEF Provider
  <2>2. Reader!Chain(i) = (Reader!IfConfigured("mindee") \o Reader!IfConfigured("azure"))
                          \o <<"dummy">>
    BY <1>3 DEF Reader!Chain
  <2> QED  BY <2>1, <2>2, LastLink
<1> QED  BY <1>2, <1>3

-----------------------------------------------------------------------------

LEMMA ChainInitInv == ASSUME Reader!ChainInit PROVE ChainInv
BY ChainType DEF Reader!ChainInit, ChainInv, AskedInOrder, SavedInOrder

\* A provider throws: the chain goes on, since the last one never does.
LEMMA ThrowsInv == ASSUME ChainInv, NEW i \in Item, Reader!Throws(i) PROVE ChainInv'
<1> DEFINE C == Reader!Chain(i)
<1>1. /\ Len(C) \in Nat \ {0} /\ at[i] \in 1..Len(C)
      /\ C[Len(C)] \in {"tesseract", "dummy"} /\ C[at[i]] \notin {"tesseract", "dummy"}
  BY ChainType DEF ChainInv, AskedInOrder, Reader!Throws, Reader!Asked, Reader!MayThrow
<1>2. at[i] < Len(C)
  BY <1>1
<1>3. /\ place[i] = "asking" /\ at' = [at EXCEPT ![i] = @ + 1]
      /\ threw' = [threw EXCEPT ![i] = @ \cup {C[at[i]]}]
      /\ UNCHANGED <<place, found, saved>>
  BY <1>2 DEF Reader!Throws, Reader!Asked
<1>4. {C[j] : j \in 1..at[i] - 1} \cup {C[at[i]]} = {C[j] : j \in 1..at[i] + 1 - 1}
  BY <1>1
<1>5. AskedInOrder(i)'
  BY <1>1, <1>2, <1>3, <1>4 DEF ChainInv, AskedInOrder
<1>6. \A k \in Item \ {i} : AskedInOrder(k)'
  BY <1>3 DEF ChainInv, AskedInOrder, Reader!Asked
<1>7. \A k \in Item : SavedInOrder(k)'
  BY <1>3 DEF ChainInv, SavedInOrder
<1> QED  BY <1>3, <1>5, <1>6, <1>7 DEF ChainInv

LEMMA AnswerInv == ASSUME ChainInv, NEW i \in Item, Reader!Answer(i) PROVE ChainInv'
<1>1. PICK result : found' = [found EXCEPT ![i] =
                        [by |-> Reader!Asked(i), after |-> threw[i], result |-> result]]
  BY DEF Reader!Answer, Reader!Found
<1>2. place' = [place EXCEPT ![i] = "answered"] /\ UNCHANGED <<at, saved, threw>>
  BY DEF Reader!Answer, Reader!PlaceTo
<1>3. \A k \in Item : AskedInOrder(k)'
  BY <1>1, <1>2 DEF ChainInv, AskedInOrder, Reader!Asked
<1>4. \A k \in Item : SavedInOrder(k)'
  BY <1>2 DEF ChainInv, SavedInOrder
<1> QED  BY <1>1, <1>2, <1>3, <1>4 DEF ChainInv

LEMMA SaveInv == ASSUME ChainInv, NEW i \in Item, Reader!Save(i) PROVE ChainInv'
<1>1. PICK result : found[i] = [by |-> Reader!Asked(i), after |-> threw[i], result |-> result]
  BY DEF Reader!Save, ChainInv, AskedInOrder
<1>2. PICK items : saved' = [saved EXCEPT ![i] = [found[i] EXCEPT !.result.items = items]]
  BY DEF Reader!Save
<1>3. UNCHANGED <<place, at, found, threw>>
  BY DEF Reader!Save
<1>4. saved'[i].by = Reader!Asked(i) /\ saved'[i].after = threw[i]
  BY <1>1, <1>2 DEF ChainInv
<1>5. at[i] \in DOMAIN Reader!Chain(i)
  BY ChainType DEF ChainInv, AskedInOrder
<1>6. SavedInOrder(i)'
  BY <1>4, <1>5 DEF ChainInv, AskedInOrder, SavedInOrder, Reader!Asked
<1>7. \A k \in Item \ {i} : SavedInOrder(k)'
  BY <1>2 DEF ChainInv, SavedInOrder
<1>8. \A k \in Item : AskedInOrder(k)'
  BY <1>3 DEF ChainInv, AskedInOrder, Reader!Asked
<1> QED  BY <1>2, <1>3, <1>6, <1>7, <1>8 DEF ChainInv

LEMMA FinishInv ==
  ASSUME ChainInv, NEW images \in SUBSET Item, Reader!Finish(images)
  PROVE  ChainInv'
<1>1. \A i \in Item : AskedInOrder(i)'
  BY ChainType DEF Reader!Finish, ChainInv, AskedInOrder, Reader!Asked
<1>2. \A i \in Item : SavedInOrder(i)'
  BY DEF Reader!Finish, ChainInv, SavedInOrder
<1>3. /\ DOMAIN place' = Item /\ DOMAIN at' = Item /\ DOMAIN found' = Item
      /\ DOMAIN threw' = Item /\ saved' = saved
  BY DEF Reader!Finish
<1>4. /\ place' = [i \in Item |-> place'[i]] /\ at' = [i \in Item |-> at'[i]]
      /\ found' = [i \in Item |-> found'[i]] /\ threw' = [i \in Item |-> threw'[i]]
  BY DEF Reader!Finish
<1> QED  BY <1>1, <1>2, <1>3, <1>4 DEF ChainInv

\* The steps that only move on.
LEMMA MoveInv ==
  ASSUME ChainInv, NEW i \in Item,
         Reader!Begin(i) \/ Reader!Download(i) \/ Reader!DownloadFails(i)
  PROVE  ChainInv'
<1>1. PICK p \in {"downloading", "asking", "cut"} :
        place' = [place EXCEPT ![i] = p] /\ UNCHANGED <<at, found, saved, threw>>
  BY DEF Reader!Begin, Reader!Download, Reader!DownloadFails, Reader!PlaceTo
<1>2. \A k \in Item : AskedInOrder(k)'
  BY <1>1 DEF ChainInv, AskedInOrder, Reader!Asked
<1>3. \A k \in Item : SavedInOrder(k)'
  BY <1>1 DEF ChainInv, SavedInOrder
<1> QED  BY <1>1, <1>2, <1>3 DEF ChainInv

LEMMA ChainStepInv == ASSUME ChainInv, [ScanNext]_scanVars PROVE ChainInv'
<1>1. CASE UNCHANGED readingVars
  BY <1>1 DEF readingVars, ChainInv, AskedInOrder, SavedInOrder, Reader!Asked
<1>2. ASSUME NEW i \in Item, KeepReading(i) \/ OwnScanStep(i) PROVE ChainInv'
  BY <1>1, <1>2, MoveInv, ThrowsInv, AnswerInv, SaveInv, FinishInv
     DEF OwnScanStep, StartReading, KeepReading, Recognised, SaveResult, FailItem, EndJob,
         Reader!ReadStep
<1>3. CASE Stop
  BY <1>3, FinishInv DEF Stop
<1> QED  BY <1>1, <1>2, <1>3 DEF ScanNext, ServeCall, scanVars, readingVars

LEMMA ChainInvariance == ScanSpec => []ChainInv
<1>1. ScanInit => ChainInv
  BY ChainInitInv DEF ScanInit
<1> QED  BY <1>1, ChainStepInv, PTL DEF ScanSpec

\* What is stored came from a provider whose predecessors in the chain all threw,
\* and some provider always answers, whatever is uploaded, decided or restarted.
THEOREM AskedInTurnAlways == ScanSpec => []Reader!AskedInTurn
<1>1. ChainInv => Reader!AskedInTurn
  BY DEF ChainInv, AskedInOrder, SavedInOrder, Reader!AskedInTurn
<1> QED  BY <1>1, ChainInvariance, PTL

-----------------------------------------------------------------------------
(* The scan is a review. *)

LEMMA StepIsReview == ScanNext => [Next]_vars
<1>1. ASSUME NEW c \in Call, ServeCall(c), Remember PROVE Next
  BY <1>1 DEF ServeCall, Next
<1>2. ASSUME NEW i \in Item, OwnScanStep(i), Remember PROVE Next
  BY <1>2 DEF OwnScanStep, StartReading, Recognised, SaveResult, FailItem, EndJob,
     WorkerStep, OwnStep, Next
<1>3. ASSUME NEW i \in Item, KeepReading(i) PROVE UNCHANGED vars
  BY <1>3 DEF KeepReading
<1>4. Stop /\ Remember => Next
  BY DEF Stop, Next
<1> QED  BY <1>1, <1>2, <1>3, <1>4 DEF ScanNext

\* Every step of the scan is one of the review or leaves it alone; that what is
\* the worker's own goes on, as FairSpec asks, stays with TLC.
THEOREM ScanIsReview == ScanSpec => Spec
<1>1. ScanInit => Init
  BY DEF ScanInit
<1>2. [ScanNext]_scanVars => [Next]_vars
  BY StepIsReview DEF scanVars, vars
<1> QED  BY <1>1, <1>2, PTL DEF ScanSpec, Spec

\* So reviewers who wait take one decision on an image, however it was read,
\* and that decision is final.
THEOREM ScanOneDecision == ScanSpec => []PatientDecideOnce
BY ScanIsReview, PatientOneDecision

THEOREM ScanTerminalStays == ScanSpec => TerminalStays
BY ScanIsReview, PatientTerminalStays

-----------------------------------------------------------------------------
(* What the parsers make of a page. *)

(* Groups of thousands make a natural number. *)
LEMMA NumberType ==
  ASSUME NEW p \in Seq(Nat)
  PROVE  Reader!Number(p) \in Nat
<1> DEFINE IsTable(g) == g = [k \in 0..Len(p) |-> IF k = 0 THEN 0 ELSE 1000 * g[k - 1] + p[k]]
           t == CHOOSE g : IsTable(g)
<1>1. Reader!Number(p) = t[Len(p)]
  BY DEF Reader!Number
<1>2. Len(p) \in Nat /\ \A k \in 1..Len(p) : p[k] \in Nat
  OBVIOUS
<1>3. \E g : IsTable(g)
  <2> DEFINE St == [k \in 1..Len(p) |-> [v \in Nat |-> 1000 * v + p[k]]]
  <2>1. Closed(St, Len(p), Nat)
    BY <1>2 DEF Closed
  <2> HIDE DEF St
  <2>2. 0 \in Nat /\ Len(p) \in Nat
    OBVIOUS
  <2>3. PICK g \in [0..Len(p) -> Nat] : Table(St, Len(p), 0, g)
    BY ONLY <2>1, <2>2, TableUpTo
  <2>4. \A k \in 1..Len(p) : g[k - 1] \in Nat /\ g[k] = St[k][g[k - 1]]
    <3>1. \A k \in 1..Len(p) : k - 1 \in 0..Len(p)
      BY <1>2
    <3> QED  BY <2>3, <3>1 DEF Table
  <2>5. \A k \in 1..Len(p) : St[k][g[k - 1]] = 1000 * g[k - 1] + p[k]
    BY <2>4 DEF St
  <2>6. \A k \in 0..Len(p) : g[k] = IF k = 0 THEN 0 ELSE 1000 * g[k - 1] + p[k]
    BY <1>2, <2>3, <2>4, <2>5 DEF Table
  <2>7. g = [k \in 0..Len(p) |-> g[k]]
    BY <2>3
  <2>8. IsTable(g)
    BY <2>6, <2>7
  <2> QED  BY <2>8
<1>4. IsTable(t)
  BY <1>3
<1> HIDE DEF t
<1> DEFINE G == {k \in 0..Len(p) : t[k] \in Nat}
<1>5. 0 \in G
  BY <1>2, <1>4
<1>6. \A k \in 1..Len(p) : k - 1 \in G => k \in G
  BY <1>2, <1>4
<1>7. \A k \in 0..Len(p) : k \in G
  <2> HIDE DEF G
  <2> QED  BY ONLY <1>2, <1>5, <1>6, UpTo
<1> QED  BY <1>1, <1>2, <1>7


(* An amount that is found is a natural number. *)
LEMMA ExtractType ==
  ASSUME NEW a \in Reader!Amount \cup {NoAmount}
  PROVE  Reader!ExtractAmount(a) \in Nat \cup {NoAmount}
<1>1. \A p \in Seq(Nat) : \A n \in Nat, of \in Nat : Reader!Normalised(p, n, of) \in Nat
  BY NumberType DEF Reader!Normalised, Reader!Joined
<1>2. ASSUME a # NoAmount
      PROVE  /\ a.pieces \in Seq(Nat) /\ a.n \in Nat /\ a.of \in Nat
             /\ Reader!Grouped(a) \in Seq(Nat)
  <2>1. a.pieces \in Seq(Nat) /\ a.pieces # <<>> /\ a.n \in Nat /\ a.of \in Nat
    BY <1>2 DEF Reader!Amount
  <2>2. SubSeq(a.pieces, 1, Len(a.pieces) - 1) \in Seq(Nat)
    BY <2>1
  <2> QED  BY <2>1, <2>2 DEF Reader!Grouped, Reader!Front
<1> QED  BY <1>1, <1>2 DEF Reader!ExtractAmount

(* A well written amount is read as it is meant. *)
LEMMA WellRead ==
  ASSUME NEW a \in Reader!Amount \cup {NoAmount}, Reader!WellWritten(a)
  PROVE  /\ Reader!ExtractAmount(a) = Reader!Meant(a)
         /\ Reader!ExtractAmount(a) \notin {NoAmount, 0}
<1>1. /\ a.pieces \in Seq(Nat) /\ a.n = 0 /\ a.of = 1 /\ a.unit = "none" /\ a # NoAmount
      /\ a.rp \/ Len(a.pieces) > 1
      /\ Reader!Meant(a) > 0
  BY DEF Reader!Amount, Reader!WellWritten
<1>2. Reader!Number(a.pieces) \in Nat
  BY <1>1, NumberType
<1>3. Reader!Meant(a) = Reader!Number(a.pieces)
  BY <1>1, <1>2 DEF Reader!Meant
<1>4. Reader!Normalised(a.pieces, 0, 1) = Reader!Number(a.pieces)
  BY <1>2 DEF Reader!Normalised, Reader!Joined
<1>5. Reader!Grouped(a) = a.pieces
  BY <1>1 DEF Reader!Grouped
<1>6. Reader!ExtractAmount(a) = Reader!Number(a.pieces)
  BY <1>1, <1>4, <1>5 DEF Reader!ExtractAmount
<1> QED  BY <1>1, <1>2, <1>3, <1>6, ScanAssumption


\* What StoredAsPrinted asks of an answer before it is validated.
AsPrinted(result) ==
    result.text # <<>> /\ (\A k \in DOMAIN result.text : Reader!WellWritten(result.text[k].amount))
    => /\ Len(result.items) = Len(result.text)
       /\ \A k \in DOMAIN result.text :
             /\ result.items[k].amount = Reader!Meant(result.text[k].amount)
             /\ result.items[k].type = IF result.text[k].income THEN "MASUK" ELSE "KELUAR"

Sound(result) == result \in Reader!ResultType /\ AsPrinted(result)

LEMMA ParsedLines ==
  ASSUME NEW text \in Seq(Reader!Printed), NEW c \in 0..100
  PROVE  /\ Reader!ParseText(text, c) \in Seq(Reader!ParsedLineItem)
         /\ (\A k \in 1..Len(text) : Reader!WellWritten(text[k].amount))
            => Reader!ParseText(text, c) = [k \in 1..Len(text) |-> Reader!ParseLine(text[k], c)]
<1> DEFINE Worth(line) == Reader!ExtractAmount(line.amount) \notin {NoAmount, 0}
           W == {line \in Reader!Printed : Worth(line)}
           IsTable(g) == g = [k \in 0..Len(text) |->
                               IF k = 0 THEN <<>>
                               ELSE IF Worth(text[k]) THEN Append(g[k - 1], text[k]) ELSE g[k - 1]]
           t == CHOOSE g : IsTable(g)
           kept == t[Len(text)]
<1>1. Reader!ParseText(text, c) = [k \in DOMAIN kept |-> Reader!ParseLine(kept[k], c)]
  BY DEF Reader!ParseText, Reader!Kept
<1>2. \A k \in 1..Len(text) : text[k] \in Reader!Printed
  OBVIOUS
<1>3. \A k \in 1..Len(text) : Worth(text[k]) = (text[k] \in W)
  BY <1>2
<1>4. ASSUME NEW g PROVE IsTable(g) = KeptTable(text, W, g)
  <2> HIDE DEF W, Worth
  <2>1. \A k \in 0..Len(text) :
          (IF k = 0 THEN <<>> ELSE IF Worth(text[k]) THEN Append(g[k - 1], text[k]) ELSE g[k - 1])
          = (IF k = 0 THEN <<>> ELSE IF text[k] \in W THEN Append(g[k - 1], text[k]) ELSE g[k - 1])
    <3>1. \A k \in 0..Len(text) : k = 0 \/ k \in 1..Len(text)
      OBVIOUS
    <3> QED  BY ONLY <1>3, <3>1
  <2>2. [k \in 0..Len(text) |-> IF k = 0 THEN <<>>
           ELSE IF Worth(text[k]) THEN Append(g[k - 1], text[k]) ELSE g[k - 1]]
        = [k \in 0..Len(text) |-> IF k = 0 THEN <<>>
           ELSE IF text[k] \in W THEN Append(g[k - 1], text[k]) ELSE g[k - 1]]
    BY <2>1
  <2> QED  BY <2>2 DEF KeptTable
<1>5. \E g : KeptTable(text, W, g)
  <2>1. W \in SUBSET Reader!Printed
    OBVIOUS
  <2> HIDE DEF W
  <2> QED  BY <2>1, KeptExists
<1>6. KeptTable(text, W, t)
  <2>1. \E g : IsTable(g)
    BY <1>4, <1>5
  <2>2. IsTable(t)
    BY <2>1
  <2> HIDE DEF t
  <2> QED  BY <1>4, <2>2
<1>7. kept \in Seq(W) /\ ((\A k \in 1..Len(text) : text[k] \in W) => kept = text)
  <2>1. W \in SUBSET Reader!Printed
    OBVIOUS
  <2> HIDE DEF W, t
  <2> QED  BY <1>6, <2>1, KeptLast
<1> HIDE DEF kept, t
<1>8. \A line \in W : Reader!ParseLine(line, c) \in Reader!ParsedLineItem
  BY ExtractType DEF Reader!ParseLine, Reader!ParsedLineItem, Reader!Printed, Reader!Date
<1>9. [k \in DOMAIN kept |-> Reader!ParseLine(kept[k], c)] \in Seq(Reader!ParsedLineItem)
  <2>1. Len(kept) \in Nat /\ DOMAIN kept = 1..Len(kept) /\ \A k \in 1..Len(kept) : kept[k] \in W
    BY <1>7
  <2> HIDE DEF W
  <2> QED  BY <1>8, <2>1
<1>10. ASSUME \A k \in 1..Len(text) : Reader!WellWritten(text[k].amount)
       PROVE  [k \in DOMAIN kept |-> Reader!ParseLine(kept[k], c)]
              = [k \in 1..Len(text) |-> Reader!ParseLine(text[k], c)]
  <2>1. \A k \in 1..Len(text) : text[k].amount \in Reader!Amount \cup {NoAmount}
    BY <1>2 DEF Reader!Printed
  <2>2. \A k \in 1..Len(text) : Worth(text[k])
    BY <1>10, <2>1, WellRead
  <2>3. kept = text
    <3> HIDE DEF W, Worth
    <3> QED  BY <1>3, <1>7, <2>2
  <2>4. DOMAIN text = 1..Len(text)
    OBVIOUS
  <2> QED  BY <2>3, <2>4
<1> HIDE DEF Worth, W
<1> QED  BY <1>1, <1>9, <1>10

\* A text that was read line by line.
LEMMA TextSound ==
  ASSUME NEW text \in Seq(Reader!Printed), NEW c \in 0..100, NEW d \in 0..100
  PROVE  Sound(Reader!Parsed(text, Reader!ParseText(text, c), d))
<1> DEFINE items == Reader!ParseText(text, c)
           r == Reader!Parsed(text, items, d)
<1>1. r.text = text /\ r.items = items
  BY DEF Reader!Parsed
<1>2. r \in Reader!ResultType
  BY ParsedLines DEF Reader!Parsed, Reader!ResultType
<1>3. ASSUME \A k \in 1..Len(text) : Reader!WellWritten(text[k].amount)
      PROVE  /\ Len(items) = Len(text)
             /\ \A k \in 1..Len(text) :
                   /\ items[k].amount = Reader!Meant(text[k].amount)
                   /\ items[k].type = IF text[k].income THEN "MASUK" ELSE "KELUAR"
  <2>1. /\ items \in Seq(Reader!ParsedLineItem)
        /\ items = [k \in 1..Len(text) |-> Reader!ParseLine(text[k], c)]
    BY <1>3, ParsedLines
  <2>2. Len(items) = Len(text)
    <3>1. DOMAIN items = 1..Len(items) /\ DOMAIN items = 1..Len(text) /\ Len(items) \in Nat
      BY <2>1
    <3> HIDE DEF items
    <3> QED  BY <3>1
  <2>3. ASSUME NEW k \in 1..Len(text)
        PROVE  /\ items[k].amount = Reader!Meant(text[k].amount)
               /\ items[k].type = IF text[k].income THEN "MASUK" ELSE "KELUAR"
    <3>1. text[k] \in Reader!Printed /\ items[k] = Reader!ParseLine(text[k], c)
      BY <2>1
    <3>2. Reader!ExtractAmount(text[k].amount) = Reader!Meant(text[k].amount)
      BY <1>3, <3>1, WellRead DEF Reader!Printed
    <3> HIDE DEF items
    <3> QED  BY <3>1, <3>2 DEF Reader!ParseLine
  <2> QED  BY <2>2, <2>3
<1>4. DOMAIN text = 1..Len(text)
  OBVIOUS
<1>5. (\A k \in DOMAIN text : Reader!WellWritten(text[k].amount))
      => /\ Len(items) = Len(text)
         /\ \A k \in DOMAIN text :
               /\ items[k].amount = Reader!Meant(text[k].amount)
               /\ items[k].type = IF text[k].income THEN "MASUK" ELSE "KELUAR"
  <2> HIDE DEF items
  <2> QED  BY <1>3, <1>4
<1>6. AsPrinted(r)
  <2> HIDE DEF items, r
  <2> QED  BY ONLY <1>1, <1>5 DEF AsPrinted
<1>7. Sound(r)
  <2> HIDE DEF r
  <2> QED  BY <1>2, <1>6 DEF Sound
<1> QED  BY <1>7

\* A receipt has a total and no lines.
LEMMA ReceiptSound ==
  ASSUME NEW total \in Nat \cup {NoAmount}, NEW c \in 0..100
  PROVE  Sound(Reader!Receipt(total, c))
BY EmptySeq DEF Reader!Receipt, Reader!ResultType, Sound, AsPrinted

LEMMA GeminiSound ==
  ASSUME NEW response \in Reader!GeminiResponse
  PROVE  Sound(Reader!GeminiResult(response))
<1> DEFINE items == response.items
           W == {g \in Reader!GeminiItem : g.described}
           IsTable(g) == g = [k \in 0..Len(items) |->
                               IF k = 0 THEN <<>>
                               ELSE IF items[k].described THEN Append(g[k - 1], items[k]) ELSE g[k - 1]]
           t == CHOOSE g : IsTable(g)
           kept == t[Len(items)]
           mapped == [k \in DOMAIN kept |-> Reader!MapItem(kept[k])]
<1>1. items \in Seq(Reader!GeminiItem) /\ response.overall \in Int \cup {NoNumber}
  BY DEF Reader!GeminiResponse
<1>2. Reader!GeminiResult(response) \in
        {Reader!Parsed(<<>>, <<>>, 0),
         Reader!Parsed(<<>>, mapped, IF response.overall = NoNumber THEN 0
                                     ELSE Reader!Clamped(response.overall))}
  BY DEF Reader!GeminiResult, Reader!Kept
<1>3. \A k \in 1..Len(items) : items[k].described <=> items[k] \in W
  BY <1>1
<1> HIDE DEF items, mapped
<1>4. ASSUME NEW g PROVE IsTable(g) = KeptTable(items, W, g)
  <2> HIDE DEF W
  <2>1. \A k \in 0..Len(items) :
          (IF k = 0 THEN <<>> ELSE IF items[k].described THEN Append(g[k - 1], items[k]) ELSE g[k - 1])
          = (IF k = 0 THEN <<>> ELSE IF items[k] \in W THEN Append(g[k - 1], items[k]) ELSE g[k - 1])
    <3>1. \A k \in 0..Len(items) : k = 0 \/ k \in 1..Len(items)
      BY <1>1
    <3> QED  BY ONLY <1>3, <3>1
  <2>2. [k \in 0..Len(items) |-> IF k = 0 THEN <<>>
           ELSE IF items[k].described THEN Append(g[k - 1], items[k]) ELSE g[k - 1]]
        = [k \in 0..Len(items) |-> IF k = 0 THEN <<>>
           ELSE IF items[k] \in W THEN Append(g[k - 1], items[k]) ELSE g[k - 1]]
    BY <2>1
  <2> QED  BY <2>2 DEF KeptTable
<1>5. W \in SUBSET Reader!GeminiItem
  OBVIOUS
<1>6. KeptTable(items, W, t)
  <2>1. \E g : KeptTable(items, W, g)
    <3> HIDE DEF W
    <3> QED  BY <1>1, <1>5, KeptExists
  <2>2. \E g : IsTable(g)
    BY <1>4, <2>1
  <2>3. IsTable(t)
    BY <2>2
  <2> HIDE DEF t
  <2> QED  BY <1>4, <2>3
<1>7. kept \in Seq(W)
  <2> HIDE DEF W, t
  <2> QED  BY <1>1, <1>5, <1>6, KeptLast
<1> HIDE DEF kept, t
<1>8. \A x \in Int : Reader!Clamped(x) \in 0..100
  BY DEF Reader!Clamped
<1>9. \A g \in W : Reader!MapItem(g) \in Reader!ParsedLineItem
  BY <1>8 DEF Reader!MapItem, Reader!ParsedLineItem, Reader!GeminiItem, Reader!Date
<1>10. mapped \in Seq(Reader!ParsedLineItem)
  <2>1. Len(kept) \in Nat /\ DOMAIN kept = 1..Len(kept) /\ \A k \in 1..Len(kept) : kept[k] \in W
    BY <1>7
  <2> HIDE DEF W
  <2> QED  BY <1>9, <2>1 DEF mapped
<1>11. \A its \in Seq(Reader!ParsedLineItem), c \in 0..100 : Sound(Reader!Parsed(<<>>, its, c))
  BY EmptySeq DEF Reader!Parsed, Reader!ResultType, Sound, AsPrinted
<1>12. <<>> \in Seq(Reader!ParsedLineItem)
  BY EmptySeq
<1>13. (IF response.overall = NoNumber THEN 0 ELSE Reader!Clamped(response.overall)) \in 0..100
  <2>1. response.overall # NoNumber => response.overall \in Int
    BY <1>1
  <2>2. response.overall # NoNumber => Reader!Clamped(response.overall) \in 0..100
    BY ONLY <1>8, <2>1
  <2> QED  BY ONLY <2>2
<1>14. /\ Sound(Reader!Parsed(<<>>, <<>>, 0))
       /\ Sound(Reader!Parsed(<<>>, mapped, IF response.overall = NoNumber THEN 0
                                            ELSE Reader!Clamped(response.overall)))
  <2>1. 0 \in 0..100
    OBVIOUS
  <2> QED  BY ONLY <1>10, <1>11, <1>12, <1>13, <2>1
<1> QED  BY ONLY <1>2, <1>14

LEMMA MindeeSound ==
  ASSUME NEW p \in Reader!Prediction
  PROVE  Sound(Reader!MindeeResult(p))
<1> DEFINE s == p.sure
           n == Len(s)
           sum == SumFunctionOnSet(s, 1..n)
<1>1. s \in Seq(0..100) /\ n \in Nat /\ p.total \in Nat \cup {NoAmount}
  BY DEF Reader!Prediction
<1>2. DOMAIN s = 1..n /\ \A k \in 1..n : s[k] \in 0..100
  <2> DEFINE C == 0..100
  <2>1. s \in Seq(C)
    BY <1>1
  <2> HIDE DEF s, C
  <2>2. DOMAIN s = 1..Len(s) /\ \A k \in 1..Len(s) : s[k] \in C
    BY ONLY <2>1
  <2> QED  BY <2>2 DEF C
<1>3. Reader!SumFunction(s) = sum
  BY <1>2 DEF Reader!SumFunction, Reader!SumFunctionOnSet, Reader!FoldFunctionOnSet,
     Reader!MapThenFoldSet, SumFunctionOnSet, FoldFunctionOnSet, MapThenFoldSet
<1>4. s # <<>> => n # 0
  <2> HIDE DEF s
  <2> QED  BY <1>1
<1> HIDE DEF s, n
<1>5. sum \in Nat /\ sum <= 100 * n
  <2>1. IsFiniteSet(1..n) /\ Cardinality(1..n) = n
    <3>1. 1 \in Int /\ n \in Int
      BY <1>1
    <3>2. IsFiniteSet(1..n) /\ Cardinality(1..n) = IF 1 > n THEN 0 ELSE n - 1 + 1
      BY ONLY <3>1, FS_Interval
    <3> QED  BY <1>1, <3>2
  <2>2. 100 \in Nat /\ (1..n) \in SUBSET (1..n) /\ \A k \in 1..n : s[k] \in Nat
    <3>1. \A k \in 0..100 : k \in Nat
      OBVIOUS
    <3> QED  BY ONLY <1>2, <3>1
  <2>3. sum \in Nat
    BY ONLY <2>1, <2>2, SumNat
  <2>4. SumFunctionOnSet(s, 1..n) <= 100 * Cardinality(1..n)
    BY ONLY <1>2, <2>1, <2>2, SumAtMost
  <2> QED  BY <2>1, <2>3, <2>4
<1>6. s # <<>> => sum \div n \in 0..100
  <2>1. 100 \in Nat
    OBVIOUS
  <2> HIDE DEF sum
  <2> QED  BY <1>1, <1>4, <1>5, <2>1, MeanType
<1> HIDE DEF sum
<1> DEFINE total == IF p.total = 0 THEN NoAmount ELSE p.total
           c == IF s = <<>> THEN 50 ELSE sum \div n
<1>7. total \in Nat \cup {NoAmount} /\ c \in 0..100
  BY <1>1, <1>6
<1>8. Reader!MindeeResult(p) = Reader!Receipt(total, c)
  BY <1>3 DEF Reader!MindeeResult, s, n
<1> HIDE DEF total, c
<1> QED  BY <1>7, <1>8, ReceiptSound

LEMMA AzureSound ==
  ASSUME NEW text \in Seq(Reader!Printed)
  PROVE  Sound(Reader!AzureResult(text))
<1> DEFINE totals == {k \in DOMAIN text :
                        text[k].total /\ Reader!AzureAmount(text[k].amount) # NoAmount}
           total == IF totals = {} THEN NoAmount
                    ELSE Reader!AzureAmount(text[Reader!Max(totals)].amount)
<1>1. ASSUME NEW a \in Reader!Amount \cup {NoAmount}
      PROVE  Reader!AzureAmount(a) \in Nat \cup {NoAmount}
  <2>1. CASE a = NoAmount
    BY <2>1 DEF Reader!AzureAmount
  <2>2. CASE a # NoAmount
    <3>1. /\ a.pieces \in Seq(Nat) /\ Len(a.pieces) \in Nat \ {0}
          /\ a.n \in Nat /\ a.of \in {1, 10, 100, 1000}
      <4>1. a.pieces \in Seq(Nat) /\ a.pieces # <<>> /\ a.n \in Nat /\ a.of \in {1, 10, 100, 1000}
        BY <2>2 DEF Reader!Amount
      <4> QED  BY <4>1
    <3>2. (1000 \div a.of) * a.n \in Nat
      <4>1. 1000 \div a.of \in Nat
        BY <3>1
      <4> QED  BY <3>1, <4>1
    <3>3. a.pieces[1] \in Nat /\ (Len(a.pieces) > 1 => a.pieces[2] \in Nat)
      BY <3>1
    <3> QED  BY <3>2, <3>3 DEF Reader!AzureAmount
  <2> QED  BY <2>1, <2>2
<1>2. \A k \in 1..Len(text) : text[k].amount \in Reader!Amount \cup {NoAmount}
  <2>1. \A k \in 1..Len(text) : text[k] \in Reader!Printed
    OBVIOUS
  <2> QED  BY <2>1 DEF Reader!Printed
<1>3. DOMAIN text = 1..Len(text) /\ Len(text) \in Nat
  OBVIOUS
<1>4. totals # {} => Reader!Max(totals) \in 1..Len(text)
  <2>1. SUFFICES ASSUME totals # {} PROVE Reader!Max(totals) \in totals
    BY <1>3
  <2>2. totals \subseteq 1..Len(text)
    BY <1>3
  <2> HIDE DEF totals
  <2>3. PICK m \in totals : \A x \in totals : x <= m
    BY ONLY <1>3, <2>1, <2>2, Greatest
  <2>4. \A x \in totals : m >= x
    BY <1>3, <2>2, <2>3
  <2> QED  BY ONLY <2>4, m \in totals DEF Reader!Max
<1>5. total \in Nat \cup {NoAmount}
  <2> HIDE DEF totals
  <2> QED  BY ONLY <1>1, <1>2, <1>4
<1>6. Reader!AzureResult(text) = Reader!Receipt(total, 80)
  BY DEF Reader!AzureResult
<1> HIDE DEF total
<1>7. 80 \in 0..100
  OBVIOUS
<1> QED  BY ONLY <1>5, <1>6, <1>7, ReceiptSound

\* Whatever a provider answers can be stored and shown.
LEMMA AnswerSound ==
  ASSUME NEW i \in Item, NEW p \in Provider, NEW result \in Reader!Answers(i, p)
  PROVE  Sound(result)
<1>1. /\ \A text \in Pages[i] : text \in Seq(Reader!Printed)
      /\ <<>> \in Seq(Reader!Printed)
      /\ Responses \subseteq Reader!GeminiResponse /\ Predictions \subseteq Reader!Prediction
  BY ScanAssumption, EmptySeq
<1>2. CASE p = "gemini"
  BY <1>1, <1>2, GeminiSound DEF Reader!Answers
<1>3. ASSUME NEW text \in Seq(Reader!Printed)
      PROVE  Sound(Reader!VisionResult(text)) /\ Sound(Reader!TesseractResult(text))
  <2>1. \A c \in 0..100, d \in 0..100 : Sound(Reader!Parsed(text, Reader!ParseText(text, c), d))
    BY ONLY <1>3, TextSound, text \in Seq(Reader!Printed)
  <2>2. 60 \in 0..100 /\ 40 \in 0..100 /\ 30 \in 0..100
    OBVIOUS
  <2>3. /\ Sound(Reader!Parsed(text, Reader!ParseText(text, 60), 60))
        /\ Sound(Reader!Parsed(text, Reader!ParseText(text, 60), 40))
        /\ Sound(Reader!Parsed(text, Reader!ParseText(text, 40), 40))
        /\ Sound(Reader!Parsed(text, Reader!ParseText(text, 40), 30))
    BY ONLY <2>1, <2>2
  <2>4. Sound(Reader!VisionResult(text))
    <3>1. CASE Reader!ParseText(text, 60) = <<>>
      BY ONLY <2>3, <3>1 DEF Reader!VisionResult
    <3>2. CASE Reader!ParseText(text, 60) # <<>>
      BY ONLY <2>3, <3>2 DEF Reader!VisionResult
    <3> QED  BY <3>1, <3>2
  <2>5. Sound(Reader!TesseractResult(text))
    <3>1. CASE Reader!ParseText(text, 40) = <<>>
      BY ONLY <2>3, <3>1 DEF Reader!TesseractResult
    <3>2. CASE Reader!ParseText(text, 40) # <<>>
      BY ONLY <2>3, <3>2 DEF Reader!TesseractResult
    <3> QED  BY <3>1, <3>2
  <2> QED  BY <2>4, <2>5
<1>4. CASE p = "gcv"
  BY <1>1, <1>3, <1>4 DEF Reader!Answers
<1>5. CASE p = "tesseract"
  <2>1. PICK text \in Pages[i] \cup {<<>>} : result = Reader!TesseractResult(text)
    BY <1>5 DEF Reader!Answers
  <2>2. text \in Seq(Reader!Printed)
    BY ONLY <1>1, <2>1
  <2> QED  BY ONLY <1>3, <2>1, <2>2
<1>6. CASE p = "mindee"
  BY <1>1, <1>6, MindeeSound DEF Reader!Answers
<1>7. CASE p = "azure"
  BY <1>1, <1>7, AzureSound DEF Reader!Answers
<1>8. CASE p = "dummy"
  <2>1. result = Reader!Receipt(150000000, 95)
    BY <1>8 DEF Reader!Answers
  <2> QED  BY <2>1, ReceiptSound
<1> QED  BY <1>2, <1>4, <1>5, <1>6, <1>7, <1>8 DEF Provider

-----------------------------------------------------------------------------
(* What is stored. *)

\* What StoredAsPrinted asks of a result that is stored.
Shown(result) ==
    /\ \A k \in DOMAIN result.items : /\ result.items[k].date # "future"
                                      /\ result.items[k].amount = 0 => result.items[k].confidence = 0
    /\ AsPrinted(result)

\* The validation touches neither amount nor direction.
LEMMA Validated ==
  ASSUME NEW item \in Reader!ParsedLineItem
  PROVE  LET v == Reader!ValidateItem(item)
         IN  /\ v \in Reader!ParsedLineItem
             /\ v.amount = item.amount /\ v.type = item.type
             /\ v.date # "future" /\ (v.amount = 0 => v.confidence = 0)
<1> DEFINE sure == IF item.amount <= 0 THEN 0 ELSE item.confidence
           less == IF sure < 20 THEN 0 ELSE sure - 20
<1>1. /\ item.amount \in Nat /\ item.type \in {"MASUK", "KELUAR"} /\ item.date \in Reader!Date
      /\ item.confidence \in 0..100
      /\ item = [amount |-> item.amount, type |-> item.type, date |-> item.date,
                 confidence |-> item.confidence]
  BY DEF Reader!ParsedLineItem
<1>2. sure \in 0..100 /\ less \in 0..100 /\ (item.amount = 0 => sure = 0 /\ less = 0)
  BY <1>1
<1>3. Reader!ValidateItem(item) = IF item.date = "future"
        THEN [item EXCEPT !.date = "none", !.confidence = less] ELSE [item EXCEPT !.confidence = sure]
  BY DEF Reader!ValidateItem
<1> HIDE DEF sure, less
<1>4. CASE item.date = "future"
  <2>1. Reader!ValidateItem(item) = [item EXCEPT !.date = "none", !.confidence = less]
    BY <1>3, <1>4
  <2> QED  BY <1>1, <1>2, <2>1 DEF Reader!ParsedLineItem, Reader!Date
<1>5. CASE item.date # "future"
  <2>1. Reader!ValidateItem(item) = [item EXCEPT !.confidence = sure]
    BY <1>3, <1>5
  <2> QED  BY <1>1, <1>2, <1>5, <2>1 DEF Reader!ParsedLineItem, Reader!Date
<1> QED  BY <1>4, <1>5

LEMMA ValidatedAll ==
  ASSUME NEW r, Sound(r)
  PROVE  LET v == [r EXCEPT !.items = Reader!ValidateParsedItems(@)]
         IN  v \in Reader!ResultType /\ Shown(v)
<1> DEFINE items == r.items
           val == [k \in DOMAIN items |-> Reader!ValidateItem(items[k])]
           v == [r EXCEPT !.items = val]
<1>1. r \in Reader!ResultType /\ AsPrinted(r) /\ items \in Seq(Reader!ParsedLineItem)
  BY DEF Sound, Reader!ResultType
<1>2. /\ Len(items) \in Nat /\ DOMAIN items = 1..Len(items)
      /\ \A k \in 1..Len(items) : items[k] \in Reader!ParsedLineItem
  BY <1>1
<1>3. [r EXCEPT !.items = Reader!ValidateParsedItems(@)] = v
  BY DEF Reader!ValidateParsedItems
<1> HIDE DEF items
<1>4. \A k \in 1..Len(items) :
        /\ val[k] \in Reader!ParsedLineItem
        /\ val[k].amount = items[k].amount /\ val[k].type = items[k].type
        /\ val[k].date # "future" /\ (val[k].amount = 0 => val[k].confidence = 0)
  <2>1. \A k \in 1..Len(items) : val[k] = Reader!ValidateItem(items[k])
    BY <1>2
  <2> HIDE DEF val
  <2> QED  BY <1>2, <2>1, Validated
<1>5. val \in Seq(Reader!ParsedLineItem) /\ Len(val) = Len(items) /\ DOMAIN val = 1..Len(items)
  <2>1. val = [k \in 1..Len(items) |-> val[k]]
    BY <1>2
  <2> HIDE DEF val
  <2>2. val \in Seq(Reader!ParsedLineItem)
    BY ONLY <1>2, <1>4, <2>1
  <2>3. DOMAIN val = 1..Len(items)
    BY <2>1
  <2>4. DOMAIN val = 1..Len(val) /\ Len(val) \in Nat
    BY <2>2
  <2> QED  BY <1>2, <2>2, <2>3, <2>4
<1> HIDE DEF val
<1>6. v \in Reader!ResultType
  BY <1>1, <1>5 DEF Reader!ResultType
<1>7. v.items = val /\ v.text = r.text
  BY <1>1 DEF Reader!ResultType
<1> HIDE DEF v
<1>8. AsPrinted(v)
  <2>1. SUFFICES ASSUME v.text # <<>>, \A k \in DOMAIN v.text : Reader!WellWritten(v.text[k].amount)
                 PROVE  /\ Len(v.items) = Len(v.text)
                        /\ \A k \in DOMAIN v.text :
                              /\ v.items[k].amount = Reader!Meant(v.text[k].amount)
                              /\ v.items[k].type = IF v.text[k].income THEN "MASUK" ELSE "KELUAR"
    BY DEF AsPrinted
  <2>2. /\ Len(items) = Len(r.text)
        /\ \A k \in DOMAIN r.text :
              /\ items[k].amount = Reader!Meant(r.text[k].amount)
              /\ items[k].type = IF r.text[k].income THEN "MASUK" ELSE "KELUAR"
    BY <1>1, <1>7, <2>1 DEF AsPrinted, items
  <2>3. DOMAIN r.text = 1..Len(items)
    <3>1. r.text \in Seq(Reader!Printed)
      BY <1>1 DEF Reader!ResultType
    <3>2. DOMAIN r.text = 1..Len(r.text)
      BY ONLY <3>1
    <3> QED  BY <2>2, <3>2
  <2> QED  BY <1>4, <1>5, <1>7, <2>2, <2>3
<1>9. Shown(v)
  BY <1>4, <1>5, <1>7, <1>8 DEF Shown
<1> QED  BY <1>3, <1>6, <1>9

\* The answer a reading holds, and what is stored of an earlier one.
ResultInv ==
    /\ place \in [Item -> {"idle", "downloading", "asking", "answered", "cut", "exhausted"}]
    /\ DOMAIN found = Item /\ DOMAIN saved = Item
    /\ found = [i \in Item |-> found[i]] /\ saved = [i \in Item |-> saved[i]]
    /\ threw \in [Item -> SUBSET Reader!OnlyIfConfigured]
    /\ \A i \in Item :
          /\ found[i] \in Reader!ReadingType \cup {NoResult}
          /\ place[i] = "answered" => found[i] \in Reader!ReadingType /\ Sound(found[i].result)
          /\ saved[i] # NoResult => saved[i] \in Reader!ReadingType /\ Shown(saved[i].result)

LEMMA AskedIs ==
  ASSUME ChainInv, NEW i \in Item
  PROVE  Reader!Asked(i) \in Provider
<1>1. Reader!Chain(i) \in Seq(Provider) /\ at[i] \in 1..Len(Reader!Chain(i))
  BY ChainType DEF ChainInv, AskedInOrder
<1> QED  BY <1>1 DEF Reader!Asked

LEMMA ReadInit == ASSUME Reader!ChainInit PROVE ResultInv
BY DEF Reader!ChainInit, ResultInv

LEMMA MoveRead ==
  ASSUME ResultInv, NEW i \in Item,
         Reader!Begin(i) \/ Reader!Download(i) \/ Reader!DownloadFails(i)
  PROVE  ResultInv'
<1>1. PICK p \in {"downloading", "asking", "cut"} :
        place' = [place EXCEPT ![i] = p] /\ UNCHANGED <<at, found, saved, threw>>
  BY DEF Reader!Begin, Reader!Download, Reader!DownloadFails, Reader!PlaceTo
<1> QED  BY <1>1 DEF ResultInv

LEMMA ThrowsRead == ASSUME ResultInv, ChainInv, NEW i \in Item, Reader!Throws(i) PROVE ResultInv'
<1>1. Reader!Asked(i) \in Reader!OnlyIfConfigured
  BY AskedIs DEF Reader!Throws, Reader!MayThrow, Provider, Reader!OnlyIfConfigured
<1>2. PICK p \in {"exhausted", place[i]} :
        place' = [place EXCEPT ![i] = p] /\ place[i] = "asking"
  BY DEF Reader!Throws, Reader!PlaceTo, ResultInv
<1>3. threw' = [threw EXCEPT ![i] = @ \cup {Reader!Asked(i)}] /\ UNCHANGED <<found, saved>>
  BY DEF Reader!Throws
<1>4. place' \in [Item -> {"idle", "downloading", "asking", "answered", "cut", "exhausted"}]
  BY <1>2 DEF ResultInv
<1>5. threw' \in [Item -> SUBSET Reader!OnlyIfConfigured]
  BY <1>1, <1>3 DEF ResultInv
<1>6. \A k \in Item : place'[k] = "answered" => place[k] = "answered"
  BY <1>2 DEF ResultInv
<1> QED  BY <1>3, <1>4, <1>5, <1>6 DEF ResultInv

LEMMA AnswerRead == ASSUME ResultInv, ChainInv, NEW i \in Item, Reader!Answer(i) PROVE ResultInv'
<1>1. PICK result \in Reader!Answers(i, Reader!Asked(i)) :
        found' = [found EXCEPT ![i] =
                    [by |-> Reader!Asked(i), after |-> threw[i], result |-> result]]
  BY DEF Reader!Answer, Reader!Found
<1>2. place' = [place EXCEPT ![i] = "answered"] /\ UNCHANGED <<at, saved, threw>>
  BY DEF Reader!Answer, Reader!PlaceTo
<1>3. Sound(result) /\ Reader!Asked(i) \in Provider
  BY AskedIs, AnswerSound
<1> DEFINE reading == [by |-> Reader!Asked(i), after |-> threw[i], result |-> result]
<1>4. reading \in Reader!ReadingType /\ Sound(reading.result)
  <2>1. /\ Reader!Asked(i) \in Reader!OnlyIfConfigured \cup {"tesseract", "dummy"}
        /\ threw[i] \in SUBSET Reader!OnlyIfConfigured
        /\ result \in Reader!ResultType
    BY <1>3 DEF ResultInv, Provider, Reader!OnlyIfConfigured, Sound
  <2>2. reading.result = result
    OBVIOUS
  <2>3. reading \in Reader!ReadingType
    BY ONLY <2>1 DEF Reader!ReadingType
  <2> HIDE DEF reading
  <2> QED  BY <1>3, <2>2, <2>3
<1> HIDE DEF reading
<1>5. found' = [found EXCEPT ![i] = reading]
  BY <1>1 DEF reading
<1>6. \A k \in Item : /\ found'[k] = IF k = i THEN reading ELSE found[k]
                      /\ place'[k] = IF k = i THEN "answered" ELSE place[k]
  BY <1>2, <1>5 DEF ResultInv
<1>7. DOMAIN found' = Item /\ found' = [k \in Item |-> found'[k]]
  BY <1>5 DEF ResultInv
<1>8. place' \in [Item -> {"idle", "downloading", "asking", "answered", "cut", "exhausted"}]
  BY <1>2 DEF ResultInv
<1>9. \A k \in Item :
          /\ found'[k] \in Reader!ReadingType \cup {NoResult}
          /\ place'[k] = "answered" => found'[k] \in Reader!ReadingType /\ Sound(found'[k].result)
  BY <1>4, <1>6 DEF ResultInv
<1> QED  BY <1>2, <1>7, <1>8, <1>9 DEF ResultInv

LEMMA SaveRead == ASSUME ResultInv, NEW i \in Item, Reader!Save(i) PROVE ResultInv'
<1> DEFINE r == found[i].result
           v == [r EXCEPT !.items = Reader!ValidateParsedItems(@)]
           reading == [found[i] EXCEPT !.result.items = Reader!ValidateParsedItems(@)]
<1>1. saved' = [saved EXCEPT ![i] = reading] /\ UNCHANGED <<place, at, found, threw>>
  BY DEF Reader!Save
<1>2. found[i] \in Reader!ReadingType /\ Sound(r)
  BY DEF Reader!Save, ResultInv
<1>3. v \in Reader!ResultType /\ Shown(v)
  <2> HIDE DEF r
  <2> QED  BY <1>2, ValidatedAll
<1>4. reading = [found[i] EXCEPT !.result = v]
  OBVIOUS
<1> HIDE DEF v, reading
<1>5. reading \in Reader!ReadingType /\ reading.result = v
  BY <1>2, <1>3, <1>4 DEF Reader!ReadingType
<1>6. \A k \in Item : saved'[k] = IF k = i THEN reading ELSE saved[k]
  BY <1>1 DEF ResultInv
<1>7. DOMAIN saved' = Item /\ saved' = [k \in Item |-> saved'[k]]
  BY <1>1 DEF ResultInv
<1>8. \A k \in Item : saved'[k] # NoResult => saved'[k] \in Reader!ReadingType /\ Shown(saved'[k].result)
  BY <1>3, <1>5, <1>6 DEF ResultInv
<1> QED  BY <1>1, <1>7, <1>8 DEF ResultInv

LEMMA FinishRead ==
  ASSUME ResultInv, NEW images \in SUBSET Item, Reader!Finish(images)
  PROVE  ResultInv'
<1>1. /\ place' \in [Item -> {"idle", "downloading", "asking", "answered", "cut", "exhausted"}]
      /\ threw' \in [Item -> SUBSET Reader!OnlyIfConfigured]
      /\ DOMAIN found' = Item /\ found' = [k \in Item |-> found'[k]] /\ saved' = saved
  BY DEF Reader!Finish, ResultInv
<1>2. \A k \in Item : \/ place'[k] = "idle" /\ found'[k] = NoResult
                      \/ place'[k] = place[k] /\ found'[k] = found[k]
  BY DEF Reader!Finish
<1> QED  BY <1>1, <1>2 DEF ResultInv

LEMMA ResultStepInv == ASSUME ResultInv, ChainInv, [ScanNext]_scanVars PROVE ResultInv'
<1>1. CASE UNCHANGED readingVars
  BY <1>1 DEF readingVars, ResultInv
<1>2. ASSUME NEW i \in Item, KeepReading(i) \/ OwnScanStep(i) PROVE ResultInv'
  BY <1>1, <1>2, MoveRead, ThrowsRead, AnswerRead, SaveRead, FinishRead
     DEF OwnScanStep, StartReading, KeepReading, Recognised, SaveResult, FailItem, EndJob,
         Reader!ReadStep
<1>3. CASE Stop
  BY <1>3, FinishRead DEF Stop
<1> QED  BY <1>1, <1>2, <1>3 DEF ScanNext, ServeCall, scanVars, readingVars

LEMMA ResultInvariance == ScanSpec => []ResultInv
<1>1. ScanInit => ResultInv
  BY ReadInit DEF ScanInit
<1> QED  BY <1>1, ResultStepInv, ChainInvariance, PTL DEF ScanSpec

\* Whoever has read a page and whatever is on it: of well written lines every
\* amount is stored, no date lies ahead, and an item without an amount is
\* stored as one not to be trusted.
THEOREM StoredIsPrinted == ScanSpec => []StoredAsPrinted
<1>1. ResultInv => StoredAsPrinted
  <2>1. SUFFICES ASSUME ResultInv, NEW i \in Item, saved[i] # NoResult
                 PROVE  Shown(saved[i].result)
    BY DEF StoredAsPrinted, Reader!StoredAsPrinted, Shown, AsPrinted
  <2> QED  BY <2>1 DEF ResultInv
<1> QED  BY <1>1, ResultInvariance, PTL

-----------------------------------------------------------------------------
(* Types. *)

\* An image is being read exactly while the worker has its job.
WorkInv == \A i \in Item : (place[i] = "idle") = (worker[i] = "idle")

LEMMA WorkStepInv ==
  ASSUME WorkInv, TypeOK, ResultInv, [ScanNext]_scanVars
  PROVE  WorkInv'
<1> DEFINE Same(k) == worker'[k] = worker[k] /\ place'[k] = place[k]
           Idle(k) == worker'[k] = "idle" /\ place'[k] = "idle"
           Busier(k) == worker'[k] # "idle" /\ place'[k] # "idle"
<1>1. ASSUME NEW c \in Call, ServeCall(c) PROVE worker' = worker /\ place' = place
  BY <1>1 DEF ServeCall, readingVars, CallStep, Upload, RefuseUpload, Enqueue,
     EnqueueFails, ReadForApproval, RefuseApproval, BookLine, LineFails, MarkApproved, MarkFails, Close,
     ReadForRejection, RefuseRejection, MarkRejected, RejectFails, queue
<1>2. ASSUME NEW i \in Item, KeepReading(i) \/ OwnScanStep(i)
      PROVE  \A k \in Item : Same(k) \/ Idle(k) \/ Busier(k)
  <2>1. CASE StartReading(i)
    BY <2>1 DEF StartReading, TakeUp, Reader!Begin, Reader!PlaceTo, TypeOK, ResultInv
  <2>2. CASE KeepReading(i)
    <3>1. worker' = worker /\ worker[i] = "reading"
      BY <2>2 DEF KeepReading, vars
    <3>2. place'[i] # "idle" /\ \A k \in Item \ {i} : place'[k] = place[k]
      BY <2>2 DEF KeepReading, Reader!ReadStep, Reader!Download, Reader!DownloadFails,
         Reader!Throws, Reader!Answer, Reader!PlaceTo, ResultInv
    <3> QED  BY <3>1, <3>2
  <2>3. CASE Recognised(i)
    BY <2>3 DEF Recognised, Recognise, WorkerTo, readingVars, WorkInv, TypeOK
  <2>4. CASE SaveResult(i)
    BY <2>4 DEF SaveResult, StoreResult, WorkerTo, Reader!Save, WorkInv, TypeOK
  <2>5. CASE FailItem(i)
    BY <2>5 DEF FailItem, StoreResultFails, StoreError, StoreErrorFails, WorkerTo, readingVars,
       WorkInv, TypeOK
  <2>6. CASE EndJob(i)
    BY <2>6 DEF EndJob, Acknowledge, WorkerTo, Reader!Finish, TypeOK
  <2> QED  BY <1>2, <2>1, <2>2, <2>3, <2>4, <2>5, <2>6 DEF OwnScanStep
<1>3. CASE Stop
  BY <1>3 DEF Stop, Crash, Reader!Finish, WorkInv
<1>4. CASE UNCHANGED scanVars
  BY <1>4 DEF scanVars, vars, readingVars, WorkInv
<1> QED  BY <1>1, <1>2, <1>3, <1>4 DEF ScanNext, WorkInv

\* Every variable of the scan keeps its type, and the reading goes on where
\* the worker is.
THEOREM ScanTyped == ScanSpec => []ScanTypeOK
<1>1. ScanInit => WorkInv
  BY DEF ScanInit, Init, Reader!ChainInit, WorkInv
<1>2. ScanSpec => []TypeOK
  BY ScanIsReview, TypeCorrect
<1>3. ScanSpec => []WorkInv
  BY <1>1, <1>2, WorkStepInv, ResultInvariance, PTL DEF ScanSpec
<1>4. ResultInv /\ ChainInv => Reader!ChainType
  <2>1. SUFFICES ASSUME ResultInv, ChainInv PROVE Reader!ChainType
    OBVIOUS
  <2>2. \A i \in Item : at[i] \in DOMAIN Reader!Chain(i)
    BY <2>1, ChainType DEF ChainInv, AskedInOrder
  <2>3. found \in [Item -> Reader!ReadingType \cup {NoResult}]
    BY <2>1 DEF ResultInv
  <2>4. saved \in [Item -> Reader!ReadingType \cup {NoResult}]
    BY <2>1 DEF ResultInv
  <2> QED  BY <2>1, <2>2, <2>3, <2>4 DEF ResultInv, Reader!ChainType
<1>5. TypeOK /\ ResultInv /\ ChainInv /\ WorkInv => ScanTypeOK
  BY <1>4 DEF ScanTypeOK, WorkInv
<1> QED  BY <1>2, <1>3, <1>5, ResultInvariance, ChainInvariance, PTL
=============================================================================
