----------------------------- MODULE DeskProofs -----------------------------
(***************************************************************************)
(* What holds of the desk for any number of calls, users, accounts and     *)
(* names, whatever of it is at work beside what a theorem is about.  In    *)
(* this order: the names of the categories; the use of a category that is  *)
(* deleted; the contract of the exports; the master data and its events;   *)
(* the settings and their audit log; the bot, and what a step of anyone    *)
(* does to the book; the sums of a report and the types of all variables;  *)
(* the profit of a report and the balances.                                *)
(*                                                                         *)
(* Each part has its invariant, and one lemma for each component of the    *)
(* desk: those the invariant is not about are shown to leave it alone by   *)
(* one lemma on steps made elsewhere.                                      *)
(***************************************************************************)
EXTENDS Desk, SequenceTheorems, FoldLemmas

CategoryPlace == {"naming", "comparing", "renaming", "counting", "deleting", "booking"}

Shape == [state: {"absent", "live", "deleted"}, name: Name, default: BOOLEAN,
          by: Call \cup {NoCall}, dropper: Call \cup {NoCall}]

\* Calls that are under way together have met, and meeting is mutual.
MetInv ==
    /\ pc \in [Call -> Place]
    /\ met \in [Call -> SUBSET Call]
    /\ \A c, d \in Call : c \in met[d] => d \in met[c] /\ pc[c] # "idle"
    /\ \A c, d \in Running : c # d => c \in met[d]

\* A call that is about to write has been let through to a place its request
\* leads to, and never writes to a default category.
PlaceInv ==
    \A c \in Call :
        /\ pc[c] = "naming" => req[c].op = "create"
        /\ pc[c] \in {"comparing", "renaming"} => req[c].op = "rename"
        /\ pc[c] \in {"comparing", "renaming", "counting", "deleting"} =>
               req[c].cat \in Category \ DefaultCategory

Target(c) == IF req[c].op = "create" THEN c ELSE req[c].cat

\* Whoever has the name a call is about to write got it from a call it met.
WriterInv ==
    \A c \in Call : pc[c] \in {"naming", "renaming"} =>
        \A d \in Live \ {Target(c)} :
            Lower[cats[d].name] = Lower[req[c].name] => cats[d].by \in met[c]

NameInv ==
    /\ req \in Workload
    /\ cats \in [Category -> Shape]
    /\ MetInv /\ PlaceInv /\ WriterInv
    /\ DefaultsStand
    /\ NamesDistinct

-----------------------------------------------------------------------------
(* What a step of another component is for the categories. *)

\* Call c comes, goes on or ends, at places that are not the categories'.
Elsewhere(c) ==
    /\ UNCHANGED <<req, cats>>
    /\ \E p \in Place \ (CategoryPlace \cup {"idle"}) :
         \/ Arrive(c, p)
         \/ pc[c] \notin CategoryPlace \cup Terminal \cup {"idle"} /\ Go(c, p)

\* The same, and not where the exports are either.
Aside(c) ==
    /\ UNCHANGED req
    /\ \E p \in Place \ (CategoryPlace \cup {"idle", "enqueueing"}) :
         \/ Arrive(c, p)
         \/ pc[c] \notin CategoryPlace \cup Terminal \cup {"idle", "enqueueing"} /\ Go(c, p)

\* Nothing the categories look at changes.
Apart == UNCHANGED <<req, pc, met, cats>>

LEMMA BotIsAside ==
    ASSUME NEW c \in Call, BotStep(c)
    PROVE  Aside(c)
<1> DEFINE P == Place \ (CategoryPlace \cup {"idle", "enqueueing"})
<1>a. {"user", "account", "report", "last", "posting", "reading back", "cancelling", "voiding",
       "ok", "lost"} \subseteq P
  BY DEF CategoryPlace, Place, Terminal
<1>p. ASSUME Proceed(c) PROVE \E p \in P : Go(c, p)
  BY <1>p, <1>a DEF Proceed
<1>n. ASSUME NEW w, NEW i, Answer(c, w, i) PROVE \E p \in P : Go(c, p)
  BY <1>n, <1>p DEF Answer
<1>1. CASE Deliver(c)
  BY <1>1, <1>a DEF Deliver, Aside
<1>2. CASE FindUser(c)
  BY <1>2, <1>a, <1>n DEF FindUser, Aside, CategoryPlace, Terminal
<1>3. CASE FindAccount(c)
  BY <1>3, <1>a, <1>n DEF FindAccount, Aside, CategoryPlace, Terminal
<1>4. CASE Report(c)
  BY <1>4, <1>a, <1>n DEF Report, Aside, CategoryPlace, Terminal
<1>5. CASE Book(c)
  BY <1>5, <1>a DEF Book, Aside, CategoryPlace, Terminal
<1>6. CASE CannotAfford(c)
  BY <1>6, <1>a, <1>n DEF CannotAfford, Aside, CategoryPlace, Terminal
<1>7. CASE ReadBack(c)
  BY <1>7, <1>a, <1>n DEF ReadBack, Aside, CategoryPlace, Terminal
<1>8. CASE FindLast(c)
  BY <1>8, <1>a, <1>n DEF FindLast, Aside, CategoryPlace, Terminal
<1>9. CASE FindExisting(c)
  BY <1>9, <1>a, <1>n DEF FindExisting, Aside, CategoryPlace, Terminal
<1>10. CASE Void(c)
  BY <1>10, <1>a, <1>n DEF Void, Aside, CategoryPlace, Terminal
<1>11. CASE Apologise(c)
  BY <1>11, <1>a, <1>n DEF Apologise, Aside, CategoryPlace, Terminal
<1>12. CASE Drop(c)
  BY <1>12, <1>a DEF Drop, Aside, CategoryPlace, Terminal
<1> QED BY <1>1, <1>2, <1>3, <1>4, <1>5, <1>6, <1>7, <1>8, <1>9, <1>10, <1>11, <1>12 DEF BotStep

LEMMA AsideIsElsewhere ==
    ASSUME NEW c \in Call, Aside(c), UNCHANGED cats
    PROVE  Elsewhere(c)
BY DEF Aside, Elsewhere

LEMMA ExportIsElsewhere ==
    ASSUME NEW c \in Call, ExportStep(c), UNCHANGED cats
    PROVE  Elsewhere(c) \/ Apart
<1>a. {"enqueueing", "ok", "failed"} \subseteq Place \ (CategoryPlace \cup {"idle"})
  BY DEF CategoryPlace, Place, Terminal
<1>1. CASE CreateRow(c)
  BY <1>1, <1>a DEF CreateRow, Elsewhere
<1>2. CASE Enqueue(c)
  BY <1>2, <1>a DEF Enqueue, Elsewhere, CategoryPlace, Terminal
<1>3. CASE EnqueueFails(c)
  BY <1>3, <1>a DEF EnqueueFails, Elsewhere, CategoryPlace, Terminal
<1>4. CASE WorkerStep(c)
  <2>1. UNCHANGED <<req, pc, met>>
    BY <1>4 DEF WorkerStep, TakeUp, SumIncome, SumExpense, Upload, Complete, Throws, MarkFailed,
                MarkFails, Acknowledge, WorkerStops, Work
  <2> QED BY <2>1 DEF Apart
<1> QED BY <1>1, <1>2, <1>3, <1>4 DEF ExportStep, ClientStep

LEMMA RegistryIsAside ==
    ASSUME NEW c \in Call, RegistryStep(c)
    PROVE  Aside(c)
<1>a. {"announcing", "revaluing", "discarding", "saving", "ok", "failed", "lost"}
          \subseteq Place \ (CategoryPlace \cup {"idle", "enqueueing"})
  BY DEF CategoryPlace, Place, Terminal
<1>1. CASE CreateRecord(c)
  BY <1>1, <1>a DEF CreateRecord, Write, Aside, ownVars
<1>2. CASE FindRecord(c)
  BY <1>2, <1>a DEF FindRecord, Aside, ownVars
<1>3. CASE NotFound(c)
  BY <1>3, <1>a DEF NotFound, Aside, ownVars
<1>4. CASE Revalue(c)
  BY <1>4, <1>a DEF Revalue, Write, Aside, ownVars, CategoryPlace, Terminal
<1>5. CASE Discard(c)
  BY <1>5, <1>a DEF Discard, Write, Aside, ownVars, CategoryPlace, Terminal
<1>6. CASE Announce(c)
  BY <1>6, <1>a DEF Announce, Aside, ownVars, CategoryPlace, Terminal
<1>7. CASE ReadSettings(c)
  BY <1>7, <1>a DEF ReadSettings, Aside, ownVars
<1>8. CASE SaveSettings(c)
  BY <1>8, <1>a DEF SaveSettings, Aside, ownVars, CategoryPlace, Terminal
<1>9. CASE Abandon(c)
  BY <1>9, <1>a DEF Abandon, Aside, ownVars, CategoryPlace, Terminal
<1> QED BY <1>1, <1>2, <1>3, <1>4, <1>5, <1>6, <1>7, <1>8, <1>9 DEF RegistryStep

LEMMA OthersAreElsewhere ==
    ASSUME Next, \A c \in Call : ~(CategoryStep(c) /\ UNCHANGED <<botVars, exportVars, registryVars>>)
    PROVE  (\E c \in Call : Elsewhere(c)) \/ Apart
<1>1. ASSUME NEW c \in Call, BotStep(c), UNCHANGED cats PROVE Elsewhere(c)
  BY <1>1, BotIsAside, AsideIsElsewhere
<1>2. ASSUME NEW c \in Call, ExportStep(c), UNCHANGED cats PROVE Elsewhere(c) \/ Apart
  BY <1>2, ExportIsElsewhere
<1>3. ASSUME NEW c \in Call, OpenAccount(c), UNCHANGED cats PROVE Elsewhere(c)
  BY <1>3 DEF OpenAccount, Elsewhere, CategoryPlace, Place, Terminal
<1>4. ASSUME Tick, UNCHANGED cats PROVE Apart
  BY <1>4 DEF Tick, Apart
<1>5. ASSUME NEW c \in Call, RegistryStep(c), UNCHANGED cats PROVE Elsewhere(c)
  BY <1>5, RegistryIsAside, AsideIsElsewhere
<1> QED BY <1>1, <1>2, <1>3, <1>4, <1>5 DEF Next

-----------------------------------------------------------------------------
(* The meetings of the calls. *)

LEMMA ArriveMeets ==
    ASSUME MetInv, NEW c \in Call, NEW p \in Place \ {"idle"}, Arrive(c, p)
    PROVE  /\ MetInv'
           /\ \A d \in Call : met[d] \subseteq met'[d]
           /\ \A d \in Call \ {c} : pc'[d] = pc[d]
           /\ pc'[c] = p
<1>1. /\ pc' = [pc EXCEPT ![c] = p] /\ pc[c] = "idle"
      /\ pc' \in [Call -> Place] /\ pc'[c] = p
      /\ \A d \in Call \ {c} : pc'[d] = pc[d]
  BY DEF Arrive, MetInv
<1>2. /\ met' \in [Call -> SUBSET Call]
      /\ met'[c] = Running
      /\ \A d \in Call \ {c} : met'[d] = IF d \in Running THEN met[d] \cup {c} ELSE met[d]
  BY DEF Arrive, MetInv, Running
<1>3. met[c] = {} /\ c \notin Running
  BY <1>1 DEF MetInv, Running
<1>4. \A d \in Call : met[d] \subseteq met'[d]
  BY <1>2, <1>3
<1>5. ASSUME NEW d \in Call, NEW e \in Call, d \in met'[e] PROVE e \in met'[d] /\ pc'[d] # "idle"
  <2>1. CASE e = c
    BY <1>1, <1>2, <1>3, <1>5, <2>1 DEF Running
  <2>2. CASE e # c /\ d = c
    BY <1>1, <1>2, <1>3, <1>5, <2>2 DEF Running, MetInv
  <2>3. CASE e # c /\ d # c
    <3>1. d \in met[e]
      BY <1>2, <1>5, <2>3
    <3>2. e \in met[d] /\ pc[d] # "idle"
      BY <3>1 DEF MetInv
    <3> QED BY <1>1, <1>4, <2>3, <3>2
  <2> QED BY <2>1, <2>2, <2>3
<1>6. ASSUME NEW d \in Running', NEW e \in Running', d # e PROVE d \in met'[e]
  <2>1. d \in Call /\ e \in Call /\ (d # c => d \in Running) /\ (e # c => e \in Running)
    BY <1>1, <1>6 DEF Running
  <2>2. CASE d # c /\ e # c
    BY <1>4, <2>1, <2>2, <1>6 DEF MetInv
  <2>3. CASE d = c \/ e = c
    BY <1>2, <2>1, <2>3, <1>6
  <2> QED BY <2>2, <2>3
<1> QED BY <1>1, <1>2, <1>4, <1>5, <1>6 DEF MetInv

LEMMA GoMeets ==
    ASSUME MetInv, NEW c \in Running, NEW p \in Place \ {"idle"}, Go(c, p)
    PROVE  /\ MetInv'
           /\ \A d \in Call : met[d] \subseteq met'[d]
           /\ \A d \in Call \ {c} : pc'[d] = pc[d]
           /\ pc'[c] = p
<1>1. /\ c \in Call /\ pc[c] # "idle" /\ met' = met
      /\ pc' \in [Call -> Place] /\ pc'[c] = p
      /\ \A d \in Call \ {c} : pc'[d] = pc[d]
  BY DEF Go, MetInv, Running
<1>2. Running' \subseteq Running
  BY <1>1 DEF Running
<1>3. ASSUME NEW d \in Call, NEW e \in Call, d \in met[e] PROVE e \in met[d] /\ pc'[d] # "idle"
  BY <1>1, <1>3 DEF MetInv
<1> QED BY <1>1, <1>2, <1>3 DEF MetInv

-----------------------------------------------------------------------------
(* Steps that leave the categories as they are. *)

\* What call c must know to be at place p.
Entitled(c, p) ==
    /\ p = "naming" => req[c].op = "create"
    /\ p \in {"comparing", "renaming"} => req[c].op = "rename"
    /\ p \in {"comparing", "renaming", "counting", "deleting"} =>
           req[c].cat \in Category \ DefaultCategory
    /\ p \in {"naming", "renaming"} =>
           \A d \in Live \ {Target(c)} :
               Lower[cats[d].name] = Lower[req[c].name] => cats[d].by \in met[c]

LEMMA LookingKeeps ==
    ASSUME NameInv, NEW c \in Call, NEW p \in Place \ {"idle"}, UNCHANGED <<req, cats>>,
           Entitled(c, p), Arrive(c, p) \/ (c \in Running /\ Go(c, p))
    PROVE  NameInv'
<1>1. /\ MetInv'
      /\ \A d \in Call : met[d] \subseteq met'[d]
      /\ \A d \in Call \ {c} : pc'[d] = pc[d]
      /\ pc'[c] = p
  BY ArriveMeets, GoMeets DEF NameInv
<1>2. Live' = Live
  BY DEF Live
<1>3. \A d \in Call : Target(d)' = Target(d)
  BY DEF Target
<1>4. PlaceInv'
  BY <1>1 DEF PlaceInv, NameInv, Entitled
<1>5. WriterInv'
  <2> SUFFICES ASSUME NEW e \in Call, pc'[e] \in {"naming", "renaming"}, NEW d \in Live \ {Target(e)},
                      Lower[cats[d].name] = Lower[req[e].name]
               PROVE  cats[d].by \in met'[e]
    BY <1>2, <1>3 DEF WriterInv
  <2>1. CASE e = c
    BY <1>1, <2>1 DEF Entitled
  <2>2. CASE e # c
    BY <1>1, <2>2 DEF NameInv, WriterInv
  <2> QED BY <2>1, <2>2
<1>6. DefaultsStand'
  BY DEF NameInv, DefaultsStand, Seeded
<1>7. NamesDistinct'
  BY <1>1, <1>2 DEF NameInv, NamesDistinct
<1> QED BY <1>1, <1>4, <1>5, <1>6, <1>7 DEF NameInv

LEMMA ElsewhereKeeps ==
    ASSUME NameInv, NEW c \in Call, Elsewhere(c)
    PROVE  NameInv'
<1>1. PICK p \in Place \ (CategoryPlace \cup {"idle"}) :
        \/ Arrive(c, p)
        \/ pc[c] \notin CategoryPlace \cup Terminal \cup {"idle"} /\ Go(c, p)
  BY DEF Elsewhere
<1>2. Entitled(c, p)
  BY DEF Entitled, CategoryPlace
<1>3. Arrive(c, p) \/ (c \in Running /\ Go(c, p))
  BY <1>1 DEF Running
<1> QED BY <1>2, <1>3, LookingKeeps DEF Elsewhere

LEMMA ApartKeeps ==
    ASSUME NameInv, Apart
    PROVE  NameInv'
BY DEF NameInv, Apart, MetInv, Running, PlaceInv, WriterInv, Target, Live, DefaultsStand, Seeded,
       NamesDistinct

-----------------------------------------------------------------------------
(* Steps that write a category. *)

LEMMA NamingKeeps ==
    ASSUME NameInv, NEW c \in Call, pc[c] \in {"naming", "renaming"}, Go(c, "ok"),
           Target(c) \in Category \ DefaultCategory, UNCHANGED req,
           cats' \in [Category -> Shape],
           \A d \in Category \ {Target(c)} : cats'[d] = cats[d],
           cats'[Target(c)].by = c, cats'[Target(c)].name = req[c].name
    PROVE  NameInv'
<1>1. c \in Running /\ "ok" \in Place \ {"idle"}
  BY DEF Running, Place, Terminal
<1>2. /\ MetInv'
      /\ \A d \in Call : met[d] \subseteq met'[d]
      /\ \A d \in Call \ {c} : pc'[d] = pc[d]
      /\ pc'[c] = "ok"
      /\ met' = met
  BY <1>1, GoMeets DEF NameInv, Go
<1>3. Live' \subseteq Live \cup {Target(c)}
  BY DEF Live
<1>4. \A d \in Call : Target(d)' = Target(d)
  BY DEF Target
<1>5. PlaceInv'
  BY <1>2 DEF NameInv, PlaceInv
<1>6. WriterInv'
  <2> SUFFICES ASSUME NEW e \in Call, pc'[e] \in {"naming", "renaming"},
                      NEW d \in Live' \ {Target(e)},
                      Lower[cats'[d].name] = Lower[req[e].name]
               PROVE  cats'[d].by \in met[e]
    BY <1>2, <1>4 DEF WriterInv
  <2>1. e # c /\ e \in Running /\ pc[e] \in {"naming", "renaming"}
    BY <1>2 DEF Running, Terminal
  <2>2. CASE d = Target(c)
    BY <1>1, <2>1, <2>2 DEF NameInv, MetInv
  <2>3. CASE d # Target(c)
    BY <1>3, <2>1, <2>3 DEF NameInv, WriterInv, Live
  <2> QED BY <2>2, <2>3
<1>7. DefaultsStand'
  BY DEF NameInv, DefaultsStand, Seeded, Category
<1>8. NamesDistinct'
  <2> SUFFICES ASSUME NEW k \in Live', NEW d \in Live', k # d,
                      Lower[cats'[k].name] = Lower[cats'[d].name]
               PROVE  cats'[d].by \in Call /\ cats'[k].by \in met[cats'[d].by]
    BY <1>2 DEF NamesDistinct
  <2>1. \A b \in met[c] : b \in Call /\ c \in met[b]
    BY DEF NameInv, MetInv
  <2>2. CASE k = Target(c)
    <3>1. d \in Live \ {Target(c)} /\ cats'[d] = cats[d]
      BY <1>3, <2>2 DEF Live
    <3>2. cats[d].by \in met[c]
      BY <2>2, <3>1 DEF NameInv, WriterInv
    <3> QED BY <2>1, <2>2, <3>1, <3>2
  <2>3. CASE d = Target(c)
    <3>1. k \in Live \ {Target(c)} /\ cats'[k] = cats[k]
      BY <1>3, <2>3 DEF Live
    <3>2. cats[k].by \in met[c]
      BY <2>3, <3>1 DEF NameInv, WriterInv
    <3> QED BY <2>3, <3>1, <3>2
  <2>4. CASE k # Target(c) /\ d # Target(c)
    BY <1>3, <2>4 DEF NameInv, NamesDistinct, Live
  <2> QED BY <2>2, <2>3, <2>4
<1> QED BY <1>2, <1>5, <1>6, <1>7, <1>8 DEF NameInv

LEMMA DeletingKeeps ==
    ASSUME NameInv, NEW c \in Call, SoftDelete(c)
    PROVE  NameInv'
<1>1. c \in Running /\ "ok" \in Place \ {"idle"}
  BY DEF SoftDelete, Running, Place, Terminal
<1>2. /\ MetInv'
      /\ \A d \in Call \ {c} : pc'[d] = pc[d]
      /\ pc'[c] = "ok" /\ met' = met /\ req' = req
  BY <1>1, GoMeets DEF NameInv, Go, SoftDelete
<1> DEFINE k == req[c].cat
<1>3. k \in Category \ DefaultCategory
  BY DEF NameInv, PlaceInv, SoftDelete
<1>4. /\ cats' \in [Category -> Shape]
      /\ cats'[k].state = "deleted"
      /\ \A d \in Category \ {k} : cats'[d] = cats[d]
  BY <1>3 DEF SoftDelete, NameInv, Shape
<1>5. Live' \subseteq Live \ {k}
  BY <1>4 DEF Live
<1>6. \A d \in Live' : cats'[d] = cats[d] /\ d \in Live
  BY <1>4, <1>5 DEF Live
<1>7. PlaceInv'
  BY <1>2 DEF NameInv, PlaceInv
<1>8. \A d \in Call : Target(d)' = Target(d)
  BY <1>2 DEF Target
<1>9. WriterInv'
  BY <1>2, <1>6, <1>8 DEF NameInv, WriterInv
<1>10. DefaultsStand'
  BY <1>3, <1>4 DEF NameInv, DefaultsStand, Seeded, Category
<1>11. NamesDistinct'
  BY <1>2, <1>6 DEF NameInv, NamesDistinct
<1> QED BY <1>2, <1>4, <1>7, <1>9, <1>10, <1>11 DEF NameInv

LEMMA CategoryKeeps ==
    ASSUME NameInv, NEW c \in Call, CategoryStep(c)
    PROVE  NameInv'
<1> DEFINE Ends == {"failed", "ok"}
<1>a. CategoryPlace \cup Ends \subseteq Place \ {"idle"}
  BY DEF CategoryPlace, Place, Terminal
<1>e. \A p \in Ends \cup {"booking"} : Entitled(c, p)
  BY DEF Entitled
<1>1. CASE CheckName(c)
  <2>1. ASSUME ~Taken(req[c].name, c) PROVE Entitled(c, "naming")
    BY <1>1, <2>1 DEF CheckName, Entitled, Taken, Target
  <2> QED BY <1>1, <1>a, <1>e, <2>1, LookingKeeps DEF CheckName, CategoryPlace
<1>2. CASE InsertCategory(c)
  <2>1. Target(c) = c /\ req[c].op = "create" /\ c \in Category \ DefaultCategory
    BY <1>2, BusinessAssumption DEF InsertCategory, NameInv, PlaceInv, Target, Category
  <2>2. req[c].name \in Name
    BY <2>1, CategoryAssumption DEF NameInv, NameRequest
  <2>3. /\ cats' \in [Category -> Shape]
        /\ cats'[c].by = c /\ cats'[c].name = req[c].name
        /\ \A d \in Category \ {c} : cats'[d] = cats[d]
    BY <1>2, <2>1, <2>2 DEF InsertCategory, NameInv, Shape
  <2> QED BY <1>2, <2>1, <2>3, NamingKeeps DEF InsertCategory
<1>3. CASE FindCategory(c)
  <2>1. ASSUME req[c].cat \in Live, ~cats[req[c].cat].default
        PROVE  req[c].cat \in Category \ DefaultCategory
    <3>1. \A k \in DefaultCategory : Seeded(k).default
      BY Zenon DEF Seeded
    <3>2. ~(req[c].cat \in DefaultCategory)
      BY <2>1, <3>1 DEF NameInv, DefaultsStand
    <3> QED BY <2>1, <3>2 DEF Live
  <2>2. ASSUME req[c].cat \in Live, ~cats[req[c].cat].default
        PROVE  Entitled(c, IF req[c].op = "rename" THEN "comparing" ELSE "counting")
    BY <2>1, <2>2 DEF Entitled
  <2> QED BY <1>3, <1>a, <1>e, <2>2, LookingKeeps DEF FindCategory, CategoryPlace
<1>4. CASE FindDuplicate(c)
  <2>1. c \in Running /\ req[c].op = "rename" /\ req[c].cat \in Category \ DefaultCategory
    BY <1>4 DEF FindDuplicate, Running, Terminal, NameInv, PlaceInv
  <2>2. ASSUME ~Taken(req[c].name, req[c].cat) PROVE Entitled(c, "renaming")
    BY <2>1, <2>2 DEF Entitled, Taken, Target
  <2> QED BY <1>4, <1>a, <1>e, <2>1, <2>2, LookingKeeps DEF FindDuplicate, CategoryPlace
<1>5. CASE Rename(c)
  <2>1. /\ req[c].op = "rename" /\ Target(c) = req[c].cat
        /\ req[c].cat \in Category \ DefaultCategory
    BY <1>5 DEF Rename, NameInv, PlaceInv, Target
  <2>2. req[c].name \in Name
    BY <2>1, CategoryAssumption DEF NameInv, NameRequest
  <2>3. /\ cats' \in [Category -> Shape]
        /\ cats'[req[c].cat].by = c /\ cats'[req[c].cat].name = req[c].name
        /\ \A d \in Category \ {req[c].cat} : cats'[d] = cats[d]
    BY <1>5, <2>1, <2>2 DEF Rename, NameInv, Shape
  <2> QED BY <1>5, <2>1, <2>3, NamingKeeps DEF Rename
<1>6. CASE CountUses(c)
  <2>1. c \in Running /\ req[c].cat \in Category \ DefaultCategory
    BY <1>6 DEF CountUses, Running, Terminal, NameInv, PlaceInv
  <2>2. Entitled(c, "deleting")
    BY <2>1 DEF Entitled
  <2> QED BY <1>6, <1>a, <1>e, <2>1, <2>2, LookingKeeps DEF CountUses, CategoryPlace
<1>7. CASE SoftDelete(c)
  BY <1>7, DeletingKeeps
<1>8. CASE Enter(c)
  BY <1>8, <1>a, <1>e, LookingKeeps DEF Enter, CategoryPlace
<1>9. CASE Commit(c)
  <2>1. c \in Running
    BY <1>9 DEF Commit, Running, Terminal
  <2> QED BY <1>9, <1>a, <1>e, <2>1, LookingKeeps DEF Commit
<1>10. CASE GiveUp(c)
  <2>1. c \in Running
    BY <1>10 DEF GiveUp, Running, Terminal
  <2> QED BY <1>10, <1>a, <1>e, <2>1, LookingKeeps DEF GiveUp
<1> QED BY <1>1, <1>2, <1>3, <1>4, <1>5, <1>6, <1>7, <1>8, <1>9, <1>10 DEF CategoryStep

-----------------------------------------------------------------------------
LEMMA NameInvInit ==
    ASSUME Init
    PROVE  NameInv
<1>1. Running = {}
  BY DEF Init, Open, Running
<1>2. MetInv
  BY <1>1 DEF Init, Open, MetInv, Place
<1>3. PlaceInv /\ WriterInv
  BY DEF Init, Open, PlaceInv, WriterInv
<1>4. /\ cats \in [Category -> Shape]
      /\ \A k \in DefaultCategory : cats[k] = Seeded(k)
      /\ Live = DefaultCategory
  <2>1. Unborn \in Shape
    BY CategoryAssumption DEF Unborn, Shape
  <2>2. \A k \in DefaultCategory : Seeded(k) \in Shape
    BY CategoryAssumption DEF Seeded, Shape
  <2>3. cats = [k \in Category |-> IF k \in DefaultCategory THEN Seeded(k) ELSE Unborn]
    BY DEF Init, SeedDefaults
  <2>4. \A k \in Category : (IF k \in DefaultCategory THEN Seeded(k) ELSE Unborn).state =
                                 IF k \in DefaultCategory THEN "live" ELSE "absent"
    BY DEF Seeded, Unborn
  <2> QED BY <2>1, <2>2, <2>3, <2>4 DEF Live, Category
<1>5. NamesDistinct
  <2>0. \A k \in DefaultCategory : Seeded(k).name = NameOf[k]
    BY DEF Seeded
  <2>1. \A k \in DefaultCategory : cats[k].name = NameOf[k]
    BY <1>4, <2>0
  <2>2. SUFFICES ASSUME NEW k \in Live, NEW d \in Live, k # d,
                        Lower[cats[k].name] = Lower[cats[d].name]
                 PROVE  FALSE
    BY DEF NamesDistinct
  <2>3. k \in DefaultCategory /\ d \in DefaultCategory
    BY <1>4
  <2>4. Lower[NameOf[k]] = Lower[NameOf[d]]
    BY <2>1, <2>2, <2>3
  <2> QED BY <2>2, <2>3, <2>4, CategoryAssumption
<1> QED BY <1>2, <1>3, <1>4, <1>5 DEF NameInv, DefaultsStand, Init, Open

LEMMA NameInvNext ==
    ASSUME NameInv, [Next]_vars
    PROVE  NameInv'
<1>1. ASSUME NEW c \in Call, CategoryStep(c) PROVE NameInv'
  BY <1>1, CategoryKeeps
<1>2. CASE Next /\ \A c \in Call : ~(CategoryStep(c) /\ UNCHANGED <<botVars, exportVars, registryVars>>)
  BY <1>2, OthersAreElsewhere, ElsewhereKeeps, ApartKeeps
<1>3. CASE UNCHANGED vars
  BY <1>3, ApartKeeps DEF vars, Apart
<1> QED BY <1>1, <1>2, <1>3

THEOREM Spec_NameInv == Spec => []NameInv
BY NameInvInit, NameInvNext, PTL DEF Spec

\* Two live categories share a name only if two calls that overlapped gave it
\* to them: create and update refuse every name an earlier answer has given,
\* with any number of calls between the check and the write.
THEOREM Spec_NamesDistinct == Spec => []NamesDistinct
<1>1. NameInv => NamesDistinct
  BY DEF NameInv
<1> QED BY <1>1, Spec_NameInv, PTL

\* No sequence of calls renames or deletes a category the system made.
THEOREM Spec_DefaultsStand == Spec => []DefaultsStand
<1>1. NameInv => DefaultsStand
  BY DEF NameInv
<1> QED BY <1>1, Spec_NameInv, PTL

-----------------------------------------------------------------------------
(* The transactions under a category. *)

\* A transaction, with any values U in the fields the categories do not look at.
Shaped(U) == [by: U, acc: U, type: U, amt: U, cat: Category \cup {NoCategory}, at: U, status: U,
              call: Call, k: U]

RowsShaped == \E U : rows \in Seq(Shaped(U))

\* The rows a call about to delete a category has not counted, and the category
\* a booking has read and lost, are each due to a call it met.
UseInv ==
    /\ RowsShaped
    /\ \A c \in Call : pc[c] = "deleting" =>
           \A i \in DOMAIN rows : rows[i].cat = req[c].cat => c \in met[rows[i].call]
    /\ \A c \in Call : pc[c] = "booking" =>
           /\ req[c].cat \in Category \cup {NoCategory}
           /\ req[c].cat \in Category /\ cats[req[c].cat].state = "deleted"
              => cats[req[c].cat].dropper \in met[c]
    /\ UsedCategoryLives

\* Rows stay under their category, and those that come are under none.
RowsStay ==
    /\ RowsShaped'
    /\ \A i \in DOMAIN rows' :
         \/ i \in DOMAIN rows /\ rows'[i].cat = rows[i].cat /\ rows'[i].call = rows[i].call
         \/ rows'[i].cat = NoCategory

LEMMA LargerSeq ==
    ASSUME NEW A, NEW B, A \subseteq B, NEW s \in Seq(A)
    PROVE  s \in Seq(B)
OBVIOUS

LEMMA UpdatedSeq ==
    ASSUME NEW A, NEW s \in Seq(A), NEW i, NEW v, i \in DOMAIN s => v \in A
    PROVE  LET t == [s EXCEPT ![i] = v]
           IN /\ t \in Seq(A) /\ DOMAIN t = DOMAIN s
              /\ \A j \in DOMAIN s : t[j] = IF j = i THEN v ELSE s[j]
<1>1. CASE i \in DOMAIN s
  BY <1>1, ExceptSeq
<1>2. CASE i \notin DOMAIN s
  <2>1. [s EXCEPT ![i] = v] = s
    BY <1>2
  <2> QED BY <1>2, <2>1
<1> QED BY <1>1, <1>2

LEMMA PostAppends ==
    ASSUME RowsShaped, NEW U, NEW r \in Shaped(U), Post(r)
    PROVE  /\ RowsShaped'
           /\ DOMAIN rows' = DOMAIN rows \cup {Len(rows) + 1}
           /\ \A i \in DOMAIN rows : rows'[i] = rows[i]
           /\ rows'[Len(rows) + 1] = r
<1>1. PICK V : rows \in Seq(Shaped(V))
  BY DEF RowsShaped
<1>2. Shaped(U) \subseteq Shaped(V \cup U) /\ Shaped(V) \subseteq Shaped(V \cup U)
  BY DEF Shaped
<1> DEFINE S == Shaped(V \cup U)
<1>3. rows \in Seq(S) /\ r \in S
  BY <1>1, <1>2, LargerSeq
<1> HIDE DEF S
<1>4. rows' = Append(rows, r)
  BY DEF Post
<1>5. /\ rows' \in Seq(S)
      /\ DOMAIN rows' = DOMAIN rows \cup {Len(rows) + 1}
      /\ \A i \in DOMAIN rows : rows'[i] = rows[i]
      /\ rows'[Len(rows) + 1] = r
  BY <1>3, <1>4
<1>6. RowsShaped'
  BY <1>5 DEF RowsShaped, S
<1> QED BY <1>5, <1>6

LEMMA ReverseStays ==
    ASSUME RowsShaped, NEW i, Reverse(i)
    PROVE  RowsStay
<1>1. PICK U : rows \in Seq(Shaped(U))
  BY DEF RowsShaped
<1> DEFINE V == U \cup {"VOID"}
           v == [rows[i] EXCEPT !.status = "VOID"]
<1>2. rows \in Seq(Shaped(V))
  <2>1. Shaped(U) \subseteq Shaped(V)
    BY DEF Shaped
  <2> QED BY <1>1, <2>1, LargerSeq
<1>3. rows' = [rows EXCEPT ![i] = v]
  BY DEF Reverse
<1>4. ASSUME NEW r \in Shaped(V)
      PROVE  LET u == [r EXCEPT !.status = "VOID"]
             IN u \in Shaped(V) /\ u.cat = r.cat /\ u.call = r.call
  BY <1>4 DEF Shaped
<1>5. i \in DOMAIN rows => v \in Shaped(V) /\ v.cat = rows[i].cat /\ v.call = rows[i].call
  <2> HIDE DEF V
  <2>1. i \in DOMAIN rows => rows[i] \in Shaped(V)
    BY <1>2
  <2> QED BY <1>4, <2>1
<1> HIDE DEF V, v
<1>6. /\ rows' \in Seq(Shaped(V)) /\ DOMAIN rows' = DOMAIN rows
      /\ \A j \in DOMAIN rows : rows'[j] = IF j = i THEN v ELSE rows[j]
  BY <1>2, <1>3, <1>5, UpdatedSeq
<1> QED BY <1>5, <1>6 DEF RowsStay, RowsShaped

LEMMA RowsOfCalls ==
    ASSUME RowsShaped
    PROVE  \A i \in DOMAIN rows : rows[i].call \in Call
<1>1. PICK U : rows \in Seq(Shaped(U))
  BY DEF RowsShaped
<1>2. \A i \in DOMAIN rows : rows[i] \in Shaped(U)
  BY <1>1
<1>3. \A r \in Shaped(U) : r.call \in Call
  BY DEF Shaped
<1> QED BY <1>2, <1>3

LEMMA NoRowsStay ==
    ASSUME RowsShaped, UNCHANGED rows
    PROVE  RowsStay
BY DEF RowsShaped, RowsStay

LEMMA BotRowsStay ==
    ASSUME RowsShaped, NEW c \in Call, BotStep(c)
    PROVE  RowsStay
<1>1. CASE Book(c)
  <2> DEFINE r == Booking(c)
             U == {mem[c].user, mem[c].acc, r.type, r.amt, clock, "CONFIRMED", mem[c].k}
  <2>1. r \in Shaped(U) /\ r.cat = NoCategory
    BY DEF Booking, Shaped
  <2> HIDE DEF U, r
  <2>2. Post(r)
    BY <1>1 DEF Book, r
  <2>3. /\ RowsShaped'
        /\ DOMAIN rows' = DOMAIN rows \cup {Len(rows) + 1}
        /\ \A i \in DOMAIN rows : rows'[i] = rows[i]
        /\ rows'[Len(rows) + 1] = r
    BY <2>1, <2>2, PostAppends
  <2> QED BY <2>1, <2>3 DEF RowsStay
<1>2. CASE Void(c)
  BY <1>2, ReverseStays DEF Void
<1>3. CASE ~Book(c) /\ ~Void(c)
  <2>1. UNCHANGED rows
    BY <1>3 DEF BotStep, Deliver, FindUser, FindAccount, Report, CannotAfford, ReadBack, FindLast,
                FindExisting, Apologise, Drop, book
  <2> QED BY <2>1, NoRowsStay
<1> QED BY <1>1, <1>2, <1>3

LEMMA QuietKeeps ==
    ASSUME NameInv, UseInv, RowsStay, UNCHANGED req,
           \A d \in Call : met[d] \subseteq met'[d],
           \A d \in Call : pc'[d] \in {"deleting", "booking"} => pc'[d] = pc[d],
           \A k \in Category : cats'[k].state = "deleted" =>
               cats[k].state = "deleted" /\ cats'[k].dropper = cats[k].dropper
    PROVE  UseInv'
<1>1. \A i \in DOMAIN rows : rows[i].call \in Call
  BY RowsOfCalls DEF UseInv
<1>2. ASSUME NEW c \in Call, pc'[c] = "deleting", NEW i \in DOMAIN rows', rows'[i].cat = req[c].cat
      PROVE  c \in met'[rows'[i].call]
  <2>1. pc[c] = "deleting" /\ req[c].cat \in Category
    BY <1>2 DEF NameInv, PlaceInv
  <2>2. i \in DOMAIN rows /\ rows'[i].cat = rows[i].cat /\ rows'[i].call = rows[i].call
    BY <1>2, <2>1, BusinessAssumption DEF RowsStay
  <2> QED BY <1>1, <1>2, <2>1, <2>2 DEF UseInv
<1>3. ASSUME NEW c \in Call, pc'[c] = "booking"
      PROVE  /\ req[c].cat \in Category \cup {NoCategory}
             /\ req[c].cat \in Category /\ cats'[req[c].cat].state = "deleted"
                => cats'[req[c].cat].dropper \in met'[c]
  BY <1>3 DEF UseInv
<1>4. ASSUME NEW i \in DOMAIN rows', rows'[i].cat \in Category, cats'[rows'[i].cat].state = "deleted"
      PROVE  cats'[rows'[i].cat].dropper \in met'[rows'[i].call]
  <2>1. i \in DOMAIN rows /\ rows'[i].cat = rows[i].cat /\ rows'[i].call = rows[i].call
    BY <1>4, BusinessAssumption DEF RowsStay
  <2> QED BY <1>1, <1>4, <2>1 DEF UseInv, UsedCategoryLives
<1> QED BY <1>2, <1>3, <1>4 DEF UseInv, UsedCategoryLives, RowsStay

LEMMA ElsewhereKeepsUse ==
    ASSUME NameInv, UseInv, RowsStay, NEW c \in Call, Elsewhere(c)
    PROVE  UseInv'
<1>1. PICK p \in Place \ (CategoryPlace \cup {"idle"}) :
        \/ Arrive(c, p)
        \/ pc[c] \notin CategoryPlace \cup Terminal \cup {"idle"} /\ Go(c, p)
  BY DEF Elsewhere
<1>2. Arrive(c, p) \/ (c \in Running /\ Go(c, p))
  BY <1>1 DEF Running
<1>3. /\ \A d \in Call : met[d] \subseteq met'[d]
      /\ \A d \in Call \ {c} : pc'[d] = pc[d]
      /\ pc'[c] = p
  BY <1>2, ArriveMeets, GoMeets DEF NameInv
<1>4. \A d \in Call : pc'[d] \in {"deleting", "booking"} => pc'[d] = pc[d]
  BY <1>3 DEF CategoryPlace
<1> QED BY <1>3, <1>4, QuietKeeps DEF Elsewhere

LEMMA ApartKeepsUse ==
    ASSUME NameInv, UseInv, Apart, UNCHANGED rows
    PROVE  UseInv'
<1>1. RowsStay
  BY NoRowsStay DEF UseInv
<1> QED BY <1>1, QuietKeeps DEF Apart

LEMMA CommitKeepsUse ==
    ASSUME NameInv, UseInv, NEW c \in Call, Commit(c)
    PROVE  UseInv'
<1> DEFINE q == req[c]
           r == [by |-> q.user, acc |-> q.acc, type |-> q.type, amt |-> q.amt, cat |-> q.cat,
                 at |-> clock, status |-> "CONFIRMED", call |-> c, k |-> 0]
           U == {q.user, q.acc, q.type, q.amt, clock, "CONFIRMED", 0}
<1>1. q.cat \in Category \cup {NoCategory}
  BY DEF Commit, UseInv
<1>2. r \in Shaped(U) /\ r.cat = q.cat /\ r.call = c
  BY <1>1 DEF Shaped
<1>3. Post(r) /\ Go(c, "ok") /\ pc[c] = "booking" /\ UNCHANGED <<req, cats>>
  BY DEF Commit
<1> HIDE DEF U, r
<1>4. /\ RowsShaped'
      /\ DOMAIN rows' = DOMAIN rows \cup {Len(rows) + 1}
      /\ \A i \in DOMAIN rows : rows'[i] = rows[i]
      /\ rows'[Len(rows) + 1] = r
  BY <1>2, <1>3, PostAppends DEF UseInv
<1>5. c \in Running /\ "ok" \in Place \ {"idle"}
  BY <1>3 DEF Running, Place, Terminal
<1>6. met' = met /\ pc'[c] = "ok" /\ \A d \in Call \ {c} : pc'[d] = pc[d]
  BY <1>3, <1>5, GoMeets DEF NameInv, Go
<1>7. ASSUME NEW d \in Call, pc'[d] = "deleting", NEW i \in DOMAIN rows', rows'[i].cat = req[d].cat
      PROVE  d \in met[rows'[i].call]
  <2>1. d # c /\ pc[d] = "deleting" /\ d \in Running
    BY <1>6, <1>7 DEF Running, Terminal
  <2>2. d \in met[c]
    BY <1>5, <2>1 DEF NameInv, MetInv
  <2>3. CASE i \in DOMAIN rows
    BY <1>4, <1>7, <2>1, <2>3 DEF UseInv
  <2>4. CASE i = Len(rows) + 1
    BY <1>2, <1>4, <2>2, <2>4
  <2> QED BY <1>4, <2>3, <2>4
<1>8. ASSUME NEW d \in Call, pc'[d] = "booking"
      PROVE  /\ req[d].cat \in Category \cup {NoCategory}
             /\ req[d].cat \in Category /\ cats[req[d].cat].state = "deleted"
                => cats[req[d].cat].dropper \in met[d]
  <2>1. pc[d] = "booking"
    BY <1>6, <1>8
  <2> QED BY <2>1 DEF UseInv
<1>9. ASSUME NEW i \in DOMAIN rows', rows'[i].cat \in Category, cats[rows'[i].cat].state = "deleted"
      PROVE  cats[rows'[i].cat].dropper \in met[rows'[i].call]
  <2>1. CASE i \in DOMAIN rows
    BY <1>4, <1>9, <2>1 DEF UseInv, UsedCategoryLives
  <2>2. CASE i = Len(rows) + 1
    BY <1>2, <1>3, <1>4, <1>9, <2>2 DEF UseInv
  <2> QED BY <1>4, <2>1, <2>2
<1> QED BY <1>3, <1>4, <1>6, <1>7, <1>8, <1>9 DEF UseInv, UsedCategoryLives

LEMMA SoftDeleteKeepsUse ==
    ASSUME NameInv, UseInv, NEW c \in Call, SoftDelete(c)
    PROVE  UseInv'
<1> DEFINE k == req[c].cat
<1>1. /\ c \in Running /\ "ok" \in Place \ {"idle"} /\ pc[c] = "deleting"
      /\ Go(c, "ok") /\ UNCHANGED <<req, rows>>
  BY DEF SoftDelete, Running, Place, Terminal, book
<1>2. met' = met /\ pc'[c] = "ok" /\ \A d \in Call \ {c} : pc'[d] = pc[d]
  BY <1>1, GoMeets DEF NameInv, Go
<1>3. /\ k \in Category /\ cats'[k].dropper = c
      /\ \A d \in Category \ {k} : cats'[d] = cats[d]
  BY DEF NameInv, PlaceInv, SoftDelete, Shape
<1>4. RowsShaped'
  BY <1>1 DEF UseInv, RowsShaped
<1>5. ASSUME NEW d \in Call, pc'[d] = "deleting", NEW i \in DOMAIN rows, rows[i].cat = req[d].cat
      PROVE  d \in met[rows[i].call]
  <2>1. pc[d] = "deleting"
    BY <1>2, <1>5
  <2> QED BY <1>5, <2>1 DEF UseInv
<1>6. ASSUME NEW d \in Call, pc'[d] = "booking"
      PROVE  /\ req[d].cat \in Category \cup {NoCategory}
             /\ req[d].cat \in Category /\ cats'[req[d].cat].state = "deleted"
                => cats'[req[d].cat].dropper \in met[d]
  <2>1. pc[d] = "booking" /\ d # c /\ d \in Running
    BY <1>2, <1>6 DEF Running, Terminal
  <2>2. c \in met[d]
    BY <1>1, <2>1 DEF NameInv, MetInv
  <2> QED BY <1>3, <2>1, <2>2 DEF UseInv
<1>7. ASSUME NEW i \in DOMAIN rows, rows[i].cat \in Category, cats'[rows[i].cat].state = "deleted"
      PROVE  cats'[rows[i].cat].dropper \in met[rows[i].call]
  <2>1. CASE rows[i].cat = k
    BY <1>1, <1>3, <1>7, <2>1 DEF UseInv
  <2>2. CASE rows[i].cat # k
    BY <1>3, <1>7, <2>2 DEF UseInv, UsedCategoryLives
  <2> QED BY <2>1, <2>2
<1> QED BY <1>1, <1>2, <1>4, <1>5, <1>6, <1>7 DEF UseInv, UsedCategoryLives

LEMMA CountUsesKeepsUse ==
    ASSUME NameInv, UseInv, NEW c \in Call, CountUses(c)
    PROVE  UseInv'
<1>1. /\ c \in Running /\ UNCHANGED <<req, rows, cats>>
      /\ Go(c, IF Uses(req[c].cat) # {} THEN "failed" ELSE "deleting")
      /\ {"failed", "deleting"} \subseteq Place \ {"idle"}
  BY DEF CountUses, Running, Place, Terminal, book
<1>2. /\ met' = met /\ \A d \in Call \ {c} : pc'[d] = pc[d]
      /\ pc'[c] = IF Uses(req[c].cat) # {} THEN "failed" ELSE "deleting"
  BY <1>1, GoMeets DEF NameInv, Go
<1>3. ASSUME NEW d \in Call, pc'[d] = "deleting", NEW i \in DOMAIN rows, rows[i].cat = req[d].cat
      PROVE  d \in met[rows[i].call]
  <2>1. d # c
    BY <1>2, <1>3 DEF Uses
  <2> QED BY <1>2, <1>3, <2>1 DEF UseInv
<1>4. \A d \in Call : pc'[d] = "booking" => pc[d] = "booking"
  BY <1>2
<1>5. RowsShaped'
  BY <1>1 DEF UseInv, RowsShaped
<1> QED BY <1>1, <1>2, <1>3, <1>4, <1>5 DEF UseInv, UsedCategoryLives

LEMMA EnterKeepsUse ==
    ASSUME NameInv, UseInv, NEW c \in Call, Enter(c)
    PROVE  UseInv'
<1>1. /\ UNCHANGED <<req, rows, cats>>
      /\ Arrive(c, IF Accepted(req[c]) THEN "booking" ELSE "failed")
      /\ {"failed", "booking"} \subseteq Place \ {"idle"}
  BY DEF Enter, Place, Terminal, book
<1>2. /\ \A d \in Call : met[d] \subseteq met'[d]
      /\ \A d \in Call \ {c} : pc'[d] = pc[d]
      /\ pc'[c] = IF Accepted(req[c]) THEN "booking" ELSE "failed"
  BY <1>1, ArriveMeets DEF NameInv
<1>3. ASSUME NEW d \in Call, pc'[d] = "booking"
      PROVE  /\ req[d].cat \in Category \cup {NoCategory}
             /\ req[d].cat \in Category /\ cats[req[d].cat].state = "deleted"
                => cats[req[d].cat].dropper \in met'[d]
  <2>1. CASE d = c
    <3>1. req[d].cat \in Live \cup {NoCategory}
      BY <1>2, <1>3, <2>1 DEF Accepted
    <3> QED BY <3>1, BusinessAssumption DEF Live
  <2>2. CASE d # c
    BY <1>2, <1>3, <2>2 DEF UseInv
  <2> QED BY <2>1, <2>2
<1>4. ASSUME NEW d \in Call, pc'[d] = "deleting", NEW i \in DOMAIN rows, rows[i].cat = req[d].cat
      PROVE  d \in met'[rows[i].call]
  <2>1. pc[d] = "deleting"
    BY <1>2, <1>4
  <2> QED BY <1>2, <1>4, <2>1, RowsOfCalls DEF UseInv
<1>5. UsedCategoryLives'
  BY <1>1, <1>2, RowsOfCalls DEF UseInv, UsedCategoryLives
<1>6. RowsShaped'
  BY <1>1 DEF UseInv, RowsShaped
<1> QED BY <1>1, <1>3, <1>4, <1>5, <1>6 DEF UseInv

LEMMA CategoryKeepsUse ==
    ASSUME NameInv, UseInv, NEW c \in Call, CategoryStep(c)
    PROVE  UseInv'
<1> DEFINE Moves(p) ==
             /\ \A d \in Call : met[d] \subseteq met'[d]
             /\ \A d \in Call \ {c} : pc'[d] = pc[d]
             /\ pc'[c] = p
           CatsStay == \A k \in Category : cats'[k].state = "deleted" =>
                           cats[k].state = "deleted" /\ cats'[k].dropper = cats[k].dropper
<1>a. ASSUME NEW p \in Place \ {"idle"}, Arrive(c, p) PROVE Moves(p)
  BY <1>a, ArriveMeets DEF NameInv
<1>g. ASSUME NEW p \in Place \ {"idle"}, pc[c] \in CategoryPlace, Go(c, p) PROVE Moves(p)
  <2>1. c \in Running
    BY <1>g DEF CategoryPlace, Running, Terminal
  <2> QED BY <1>g, <2>1, GoMeets DEF NameInv
<1>q. ASSUME UNCHANGED <<req, rows>>, CatsStay,
             NEW p \in Place \ {"idle", "deleting", "booking"}, Moves(p)
      PROVE  UseInv'
  <2>1. RowsStay
    BY <1>q, NoRowsStay DEF UseInv
  <2> QED BY <1>q, <2>1, QuietKeeps
<1> HIDE DEF Moves
<1>p. {"naming", "comparing", "renaming", "counting", "ok", "failed"} \subseteq
          Place \ {"idle", "deleting", "booking"}
  BY DEF Place, Terminal
<1>s. cats' = cats => CatsStay
  OBVIOUS
<1>1. CASE CheckName(c)
  BY <1>1, <1>a, <1>q, <1>p, <1>s DEF CheckName, book
<1>2. CASE InsertCategory(c)
  <2>1. CatsStay
    BY <1>2 DEF InsertCategory, NameInv, Shape, Category
  <2> QED BY <1>2, <1>g, <1>q, <1>p, <2>1 DEF InsertCategory, book, CategoryPlace
<1>3. CASE FindCategory(c)
  BY <1>3, <1>a, <1>q, <1>p, <1>s DEF FindCategory, book
<1>4. CASE FindDuplicate(c)
  BY <1>4, <1>g, <1>q, <1>p, <1>s DEF FindDuplicate, book, CategoryPlace
<1>5. CASE Rename(c)
  <2>1. CatsStay
    BY <1>5 DEF Rename, NameInv, Shape
  <2> QED BY <1>5, <1>g, <1>q, <1>p, <2>1 DEF Rename, book, CategoryPlace
<1>6. CASE CountUses(c)
  BY <1>6, CountUsesKeepsUse
<1>7. CASE SoftDelete(c)
  BY <1>7, SoftDeleteKeepsUse
<1>8. CASE Enter(c)
  BY <1>8, EnterKeepsUse
<1>9. CASE Commit(c)
  BY <1>9, CommitKeepsUse
<1>10. CASE GiveUp(c)
  BY <1>10, <1>g, <1>q, <1>p, <1>s DEF GiveUp, book, CategoryPlace
<1> QED BY <1>1, <1>2, <1>3, <1>4, <1>5, <1>6, <1>7, <1>8, <1>9, <1>10 DEF CategoryStep

LEMMA UseInvInit ==
    ASSUME Init
    PROVE  UseInv
<1>1. rows \in Seq(Shaped({})) /\ DOMAIN rows = {}
  BY DEF Init, Open
<1> QED BY <1>1 DEF Init, Open, UseInv, RowsShaped, UsedCategoryLives

LEMMA UseInvNext ==
    ASSUME NameInv, UseInv, [Next]_vars
    PROVE  UseInv'
<1>1. ASSUME NEW c \in Call, CategoryStep(c) PROVE UseInv'
  BY <1>1, CategoryKeepsUse
<1>2. ASSUME NEW c \in Call, BotStep(c), UNCHANGED cats PROVE UseInv'
  BY <1>2, BotIsAside, AsideIsElsewhere, BotRowsStay, ElsewhereKeepsUse DEF UseInv
<1>3. ASSUME NEW c \in Call, ExportStep(c), UNCHANGED cats PROVE UseInv'
  <2>1. UNCHANGED rows
    BY <1>3 DEF ExportStep, ClientStep, CreateRow, Enqueue, EnqueueFails, WorkerStep, TakeUp,
                SumIncome, SumExpense, Upload, Complete, Throws, MarkFailed, MarkFails, Acknowledge,
                WorkerStops, Work, book
  <2> QED BY <1>3, <2>1, ExportIsElsewhere, NoRowsStay, ElsewhereKeepsUse, ApartKeepsUse DEF UseInv
<1>4. ASSUME NEW c \in Call, OpenAccount(c), UNCHANGED cats PROVE UseInv'
  <2>1. Elsewhere(c) /\ UNCHANGED rows
    BY <1>4 DEF OpenAccount, Elsewhere, CategoryPlace, Place, Terminal
  <2> QED BY <2>1, NoRowsStay, ElsewhereKeepsUse DEF UseInv
<1>5. ASSUME Tick, UNCHANGED cats PROVE UseInv'
  BY <1>5, ApartKeepsUse DEF Tick, Apart, book
<1>6. CASE UNCHANGED vars
  BY <1>6, ApartKeepsUse DEF vars, Apart
<1>7. ASSUME NEW c \in Call, RegistryStep(c), UNCHANGED cats PROVE UseInv'
  <2>1. UNCHANGED rows
    BY <1>7 DEF RegistryStep, CreateRecord, FindRecord, NotFound, Write, Revalue, Discard, Announce,
                ReadSettings, SaveSettings, Abandon, ownVars, book
  <2> QED BY <1>7, <2>1, RegistryIsAside, AsideIsElsewhere, NoRowsStay, ElsewhereKeepsUse DEF UseInv
<1> QED BY <1>1, <1>2, <1>3, <1>4, <1>5, <1>6, <1>7 DEF Next

\* A category is deleted only when no transaction is under it, voided ones
\* counted, and none comes under it afterwards, but for a booking that was
\* under way at the same time: remove and createTransaction share no lock.
THEOREM Spec_UsedCategoryLives == Spec => []UsedCategoryLives
<1>1. Init => UseInv
  BY UseInvInit
<1>2. NameInv /\ UseInv /\ [Next]_vars => UseInv'
  BY UseInvNext
<1>3. UseInv => UsedCategoryLives
  BY DEF UseInv
<1> QED BY <1>1, <1>2, <1>3, Spec_NameInv, PTL DEF Spec

-----------------------------------------------------------------------------
(* The exports keep the safety half of their contract. *)

\* Whatever else a field holds, the record is there.
JobShape(U) == [status: {"ABSENT", "PROCESSING", "COMPLETED", "FAILED"}, url: U, error: BOOLEAN]
JobsShaped == \E U : jobs \in [Call -> JobShape(U)]
QueueShape == [state: {"none", "waiting", "active", "completed", "failed"},
               made: Nat, stalls: Nat, mute: BOOLEAN]
QueueShaped == queue \in [Call -> QueueShape]
SheetShape(U) == [at: {"idle", "reading", "halfway", "summed", "uploaded", "failing",
                       "succeeded", "thrown"},
                  income: U, expense: U, seen: U]
SheetShaped == \E U : sheet \in [Call -> SheetShape(U)]

\* A row comes before its job and a job before its worker; what the worker
\* has told is in the row, or is known not to be.
Followed(c) ==
    /\ jobs[c].status = "ABSENT" => pc[c] # "enqueueing" /\ queue[c].state = "none"
    /\ pc[c] = "idle" => jobs[c].status = "ABSENT"
    /\ pc[c] = "enqueueing" => queue[c].state = "none"
    /\ queue[c].state = "none" => jobs[c].status \in {"ABSENT", "PROCESSING"} /\ queue[c].stalls = 0
    /\ queue[c].state = "active" <=> sheet[c].at # "idle"
    /\ sheet[c].at = "succeeded" => jobs[c].status = "COMPLETED"
    /\ sheet[c].at = "thrown" => jobs[c].status = "FAILED" \/ queue[c].mute
    /\ queue[c].state \in {"waiting", "active"} /\ jobs[c].status = "COMPLETED" =>
           sheet[c].at = "succeeded" \/ queue[c].stalls > 0

ExportInv ==
    /\ JobsShaped /\ QueueShaped /\ SheetShaped
    /\ \A c \in Call : Followed(c)

PromiseNext == [\E e \in Call : Promise!ContractStep(e)]_(Promise!contractVars)

\* Nothing of another export changes.
OthersStay(c) == \A d \in Call \ {c} : /\ jobs'[d] = jobs[d] /\ queue'[d] = queue[d]
                                       /\ sheet'[d] = sheet[d] /\ pc'[d] = pc[d]

LEMMA QuietForExports ==
    ASSUME ExportInv, pc \in [Call -> Place], UNCHANGED exportVars,
           \A c \in Call : /\ pc'[c] = "idle" => pc[c] = "idle"
                           /\ pc'[c] = "enqueueing" <=> pc[c] = "enqueueing"
    PROVE  ExportInv' /\ PromiseNext
<1>1. UNCHANGED <<jobs, queue, sheet, files>>
  BY DEF exportVars
<1>2. \A c \in Call : FateOf(c)' = FateOf(c)
  BY <1>1 DEF FateOf
<1>3. UNCHANGED Promise!contractVars
  BY <1>1, <1>2 DEF Promise!contractVars
<1>4. ExportInv'
  BY <1>1 DEF ExportInv, JobsShaped, QueueShaped, SheetShaped, Followed
<1> QED BY <1>3, <1>4 DEF PromiseNext

LEMMA AsideIsQuiet ==
    ASSUME pc \in [Call -> Place], NEW c \in Call, NEW p \in Place \ {"idle", "enqueueing"},
           \/ Arrive(c, p)
           \/ pc[c] \notin {"idle", "enqueueing"} /\ Go(c, p)
    PROVE  \A d \in Call : /\ pc'[d] = "idle" => pc[d] = "idle"
                           /\ pc'[d] = "enqueueing" <=> pc[d] = "enqueueing"
<1>1. pc' = [pc EXCEPT ![c] = p] /\ pc[c] # "enqueueing"
  BY DEF Arrive, Go
<1> QED BY <1>1

LEMMA CategoryIsQuiet ==
    ASSUME pc \in [Call -> Place], NEW c \in Call, CategoryStep(c)
    PROVE  \A d \in Call : /\ pc'[d] = "idle" => pc[d] = "idle"
                           /\ pc'[d] = "enqueueing" <=> pc[d] = "enqueueing"
<1>p. CategoryPlace \cup Terminal \subseteq Place \ {"idle", "enqueueing"}
  BY DEF CategoryPlace, Place, Terminal
<1>1. \E p \in CategoryPlace \cup Terminal :
        \/ Arrive(c, p)
        \/ pc[c] \notin {"idle", "enqueueing"} /\ Go(c, p)
  BY DEF CategoryStep, CheckName, InsertCategory, FindCategory, FindDuplicate, Rename, CountUses,
         SoftDelete, Enter, Commit, GiveUp, CategoryPlace, Terminal
<1> QED BY <1>p, <1>1, AsideIsQuiet

LEMMA RowWritten ==
    ASSUME JobsShaped, NEW c \in Call, NEW st \in {"ABSENT", "PROCESSING", "COMPLETED", "FAILED"},
           \/ jobs' = [jobs EXCEPT ![c].status = st]
           \/ \E u : jobs' = [jobs EXCEPT ![c] = [@ EXCEPT !.status = st, !.url = u]]
           \/ jobs' = [jobs EXCEPT ![c] = [@ EXCEPT !.status = st, !.error = TRUE]]
    PROVE  /\ JobsShaped' /\ jobs'[c].status = st
           /\ \A d \in Call \ {c} : jobs'[d] = jobs[d]
<1>1. PICK U : jobs \in [Call -> JobShape(U)]
  BY DEF JobsShaped
<1>2. ASSUME NEW u, jobs' = [jobs EXCEPT ![c] = [@ EXCEPT !.status = st, !.url = u]]
      PROVE  JobsShaped' /\ jobs'[c].status = st /\ \A d \in Call \ {c} : jobs'[d] = jobs[d]
  <2>1. jobs \in [Call -> JobShape(U \cup {u})]
    BY <1>1 DEF JobShape
  <2>2. jobs' \in [Call -> JobShape(U \cup {u})]
    BY <1>2, <2>1 DEF JobShape
  <2> QED BY <1>1, <1>2, <2>2 DEF JobsShaped, JobShape
<1>3. ASSUME \/ jobs' = [jobs EXCEPT ![c].status = st]
             \/ jobs' = [jobs EXCEPT ![c] = [@ EXCEPT !.status = st, !.error = TRUE]]
      PROVE  JobsShaped' /\ jobs'[c].status = st /\ \A d \in Call \ {c} : jobs'[d] = jobs[d]
  <2>1. jobs' \in [Call -> JobShape(U)]
    BY <1>1, <1>3 DEF JobShape
  <2> QED BY <1>1, <1>3, <2>1 DEF JobsShaped, JobShape
<1> QED BY <1>2, <1>3

LEMMA SheetWritten ==
    ASSUME SheetShaped, NEW c \in Call,
           NEW to \in {"idle", "reading", "halfway", "summed", "uploaded", "failing", "succeeded",
                      "thrown"},
           \/ sheet' = [sheet EXCEPT ![c].at = to]
           \/ \E u : \/ sheet' = [sheet EXCEPT ![c] = [@ EXCEPT !.at = to, !.income = u]]
                    \/ sheet' = [sheet EXCEPT ![c] = [@ EXCEPT !.at = to, !.expense = u]]
                    \/ sheet' = [sheet EXCEPT ![c] = [EmptySheet EXCEPT !.at = to, !.seen = u]]
           \/ to = "idle" /\ sheet' = [sheet EXCEPT ![c] = EmptySheet]
    PROVE  /\ SheetShaped' /\ sheet'[c].at = to
           /\ \A d \in Call \ {c} : sheet'[d] = sheet[d]
<1>1. PICK U : sheet \in [Call -> SheetShape(U)]
  BY DEF SheetShaped
<1>2. ASSUME NEW u,
             \/ sheet' = [sheet EXCEPT ![c].at = to]
             \/ sheet' = [sheet EXCEPT ![c] = [@ EXCEPT !.at = to, !.income = u]]
             \/ sheet' = [sheet EXCEPT ![c] = [@ EXCEPT !.at = to, !.expense = u]]
             \/ sheet' = [sheet EXCEPT ![c] = [EmptySheet EXCEPT !.at = to, !.seen = u]]
             \/ to = "idle" /\ sheet' = [sheet EXCEPT ![c] = EmptySheet]
      PROVE  SheetShaped' /\ sheet'[c].at = to /\ \A d \in Call \ {c} : sheet'[d] = sheet[d]
  <2> DEFINE V == U \cup {u, NoSums, <<>>}
  <2>1. sheet \in [Call -> SheetShape(V)] /\ EmptySheet \in SheetShape(V)
    BY <1>1 DEF SheetShape, EmptySheet
  <2>2. u \in V
    OBVIOUS
  <2> HIDE DEF V
  <2>r. ASSUME NEW r \in SheetShape(V)
        PROVE  /\ [r EXCEPT !.at = to] \in SheetShape(V)
               /\ [r EXCEPT !.at = to, !.income = u] \in SheetShape(V)
               /\ [r EXCEPT !.at = to, !.expense = u] \in SheetShape(V)
               /\ [r EXCEPT !.at = to, !.seen = u] \in SheetShape(V)
               /\ [r EXCEPT !.at = to].at = to
               /\ [r EXCEPT !.at = to, !.income = u].at = to
               /\ [r EXCEPT !.at = to, !.expense = u].at = to
               /\ [r EXCEPT !.at = to, !.seen = u].at = to
    BY <2>2, <2>r DEF SheetShape
  <2>e. EmptySheet.at = "idle"
    BY DEF EmptySheet
  <2>x. PICK x \in SheetShape(V) : sheet' = [sheet EXCEPT ![c] = x] /\ x.at = to
    <3> HIDE DEF EmptySheet
    <3>1. sheet[c] \in SheetShape(V)
      BY <2>1
    <3> QED BY <1>2, <2>1, <2>r, <2>e, <3>1
  <2>3. sheet' \in [Call -> SheetShape(V)] /\ sheet'[c].at = to
    BY <2>1, <2>x
  <2>4. \A d \in Call \ {c} : sheet'[d] = sheet[d]
    BY <1>1, <1>2
  <2> QED BY <2>3, <2>4 DEF SheetShaped
<1> QED BY <1>2

\* A job after one more attempt, and after its worker has stopped once more.
Attempted(q, n, st) == [q EXCEPT !.made = n, !.state = st]
Stalled(q, n, st) == [q EXCEPT !.stalls = n, !.mute = TRUE, !.state = st]

\* Where a step concerns one export, so does its image.
LEMMA Mapped ==
    ASSUME NEW c \in Call, OthersStay(c)
    PROVE  /\ [d \in Call |-> jobs[d].status]' =
                  [[d \in Call |-> jobs[d].status] EXCEPT ![c] = jobs'[c].status]
           /\ [d \in Call |-> FateOf(d)]' = [[d \in Call |-> FateOf(d)] EXCEPT ![c] = FateOf(c)']
           /\ [d \in Call |-> queue[d].stalls > 0]' =
                  [[d \in Call |-> queue[d].stalls > 0] EXCEPT ![c] = (queue'[c].stalls > 0)]
<1>1. \A d \in Call \ {c} : FateOf(d)' = FateOf(d)
  BY DEF OthersStay, FateOf
<1> QED BY <1>1 DEF OthersStay

\* What a step means for its export, as the contract has it.
Means(c) ==
    LET told == jobs[c].status
        fate == FateOf(c)
        restarted == queue[c].stalls > 0
        Becomes(s, f, r) == told' = s /\ fate' = f /\ restarted' = r
    IN  \/ Becomes(told, fate, restarted)
        \/ fate = "unknown" /\ Becomes("PROCESSING", "asked", restarted)
        \/ fate = "asked" /\ (Becomes(told, "open", restarted) \/ Becomes(told, "refused", restarted))
        \/ fate = "open" /\ Becomes("COMPLETED", fate, restarted)
        \/ /\ fate = "open" /\ (told = "COMPLETED" => restarted)
           /\ Becomes("FAILED", fate, restarted)
        \/ fate = "open" /\ (Becomes(told, "open", TRUE) \/ Becomes(told, "silent", TRUE))
        \/ fate = "open" /\ told = "COMPLETED" /\ Becomes(told, "done", restarted)
        \/ fate = "open" /\ told = "FAILED" /\ Becomes(told, "given up", restarted)
        \/ fate = "open" /\ Becomes(told, "silent", restarted)

LEMMA MeaningMaps ==
    ASSUME ExportInv, NEW c \in Call, OthersStay(c), Means(c),
           JobsShaped', QueueShaped', SheetShaped', Followed(c)'
    PROVE  ExportInv' /\ PromiseNext
<1> DEFINE T == [d \in Call |-> jobs[d].status]
           F == [d \in Call |-> FateOf(d)]
           R == [d \in Call |-> queue[d].stalls > 0]
<1>1. /\ T' = [T EXCEPT ![c] = jobs'[c].status]
      /\ F' = [F EXCEPT ![c] = FateOf(c)']
      /\ R' = [R EXCEPT ![c] = (queue'[c].stalls > 0)]
  BY Mapped
<1>2. T[c] = jobs[c].status /\ F[c] = FateOf(c) /\ R[c] = (queue[c].stalls > 0)
  OBVIOUS
<1>3. /\ jobs'[c].status = jobs[c].status => T' = T
      /\ FateOf(c)' = FateOf(c) => F' = F
      /\ (queue'[c].stalls > 0) = (queue[c].stalls > 0) => R' = R
  BY <1>1
<1>4. ExportInv'
  BY DEF ExportInv, OthersStay, Followed
<1>5. PromiseNext
  BY <1>1, <1>2, <1>3 DEF Means, PromiseNext, Promise!contractVars, Promise!ContractStep, Promise!Ask,
     Promise!Accept, Promise!Restart, Promise!Settle, Promise!Tell, Promise!Fate
<1> QED BY <1>4, <1>5

LEMMA ClientKeeps ==
    ASSUME ExportInv, pc \in [Call -> Place], NEW c \in Call, ClientStep(c)
    PROVE  ExportInv' /\ PromiseNext
<1> USE DEF ExportInv
<1>p. {"enqueueing", "ok", "failed"} \subseteq Place
  BY DEF Place, Terminal
<1>1. CASE CreateRow(c)
  <2>1. /\ pc[c] = "idle" /\ pc'[c] = "enqueueing" /\ \A d \in Call \ {c} : pc'[d] = pc[d]
        /\ UNCHANGED <<queue, sheet>>
    BY <1>1 DEF CreateRow, Arrive
  <2>2. /\ JobsShaped' /\ jobs'[c].status = "PROCESSING"
        /\ \A d \in Call \ {c} : jobs'[d] = jobs[d]
    BY <1>1, RowWritten DEF CreateRow
  <2>3. OthersStay(c) /\ QueueShaped' /\ SheetShaped'
    BY <2>1, <2>2 DEF OthersStay, QueueShaped, SheetShaped
  <2>4. jobs[c].status = "ABSENT" /\ queue[c].state = "none"
    BY <2>1 DEF Followed
  <2>5. FateOf(c) = "unknown" /\ FateOf(c)' = "asked"
    BY <2>1, <2>2, <2>4 DEF FateOf
  <2>6. Followed(c)'
    BY <2>1, <2>2, <2>4 DEF Followed
  <2>7. Means(c)
    BY <2>1, <2>2, <2>5 DEF Means
  <2> QED BY <2>2, <2>3, <2>6, <2>7, MeaningMaps
<1>2. CASE Enqueue(c) \/ EnqueueFails(c)
  <2>1. /\ pc[c] = "enqueueing" /\ pc'[c] \in {"ok", "failed"}
        /\ \A d \in Call \ {c} : pc'[d] = pc[d]
        /\ UNCHANGED <<jobs, sheet>>
    BY <1>2 DEF Enqueue, EnqueueFails, Go, exportVars
  <2>2. /\ QueueShaped'
        /\ \A d \in Call \ {c} : queue'[d] = queue[d]
        /\ queue'[c].stalls = queue[c].stalls
        /\ queue'[c].state = IF Enqueue(c) THEN "waiting" ELSE queue[c].state
    BY <1>2 DEF Enqueue, EnqueueFails, exportVars, QueueShaped, QueueShape
  <2>3. OthersStay(c) /\ JobsShaped' /\ SheetShaped'
    BY <2>1, <2>2 DEF OthersStay, JobsShaped, SheetShaped
  <2>4. queue[c].state = "none" /\ jobs[c].status = "PROCESSING" /\ sheet[c].at = "idle"
    BY <2>1 DEF Followed
  <2>5. FateOf(c) = "asked" /\ FateOf(c)' \in {"open", "refused"}
    BY <2>1, <2>2, <2>4 DEF FateOf
  <2>6. Followed(c)'
    BY <2>1, <2>2, <2>4 DEF Followed
  <2>7. Means(c)
    BY <2>1, <2>2, <2>5 DEF Means
  <2> QED BY <2>2, <2>3, <2>6, <2>7, MeaningMaps
<1> QED BY <1>1, <1>2 DEF ClientStep

LEMMA WorkerKeeps ==
    ASSUME ExportInv, NEW c \in Call, WorkerStep(c)
    PROVE  ExportInv' /\ PromiseNext
<1> USE DEF ExportInv
<1>a. UNCHANGED pc
  BY DEF WorkerStep, TakeUp, SumIncome, SumExpense, Upload, Complete, Throws, MarkFailed, MarkFails,
         Acknowledge, WorkerStops, Work
<1>f. Followed(c)
  OBVIOUS
\* The worker goes on with a job that stays its own, and tells nothing.
<1>w. ASSUME UNCHANGED jobs, sheet[c].at \notin {"idle", "succeeded"},
             NEW to \in {"reading", "halfway", "summed", "uploaded", "failing", "thrown"},
             SheetShaped', sheet'[c].at = to, \A d \in Call \ {c} : sheet'[d] = sheet[d],
             \/ to # "thrown" /\ UNCHANGED queue
             \/ queue' = [queue EXCEPT ![c].mute = TRUE]
      PROVE  ExportInv' /\ PromiseNext
  <2>1. /\ QueueShaped' /\ \A d \in Call \ {c} : queue'[d] = queue[d]
        /\ queue'[c].state = queue[c].state /\ queue'[c].stalls = queue[c].stalls
        /\ to = "thrown" => queue'[c].mute
    BY <1>w DEF QueueShaped, QueueShape
  <2>2. queue[c].state = "active"
    BY <1>w, <1>f DEF Followed
  <2>3. FateOf(c) = "open" /\ FateOf(c)' = "open"
    BY <2>1, <2>2 DEF FateOf
  <2>4. Followed(c)'
    BY <1>a, <1>f, <1>w, <2>1, <2>2 DEF Followed
  <2>5. OthersStay(c) /\ JobsShaped'
    BY <1>a, <1>w, <2>1 DEF OthersStay, JobsShaped
  <2>6. Means(c)
    BY <1>w, <2>1, <2>3 DEF Means
  <2> QED BY <1>w, <2>1, <2>4, <2>5, <2>6, MeaningMaps
\* The worker writes the row.
<1>t. ASSUME UNCHANGED queue, sheet[c].at \notin {"idle", "succeeded"},
             NEW to \in {"succeeded", "thrown"}, NEW st \in {"COMPLETED", "FAILED"},
             st = (IF to = "succeeded" THEN "COMPLETED" ELSE "FAILED"),
             SheetShaped', sheet'[c].at = to, \A d \in Call \ {c} : sheet'[d] = sheet[d],
             JobsShaped', jobs'[c].status = st, \A d \in Call \ {c} : jobs'[d] = jobs[d]
      PROVE  ExportInv' /\ PromiseNext
  <2>1. queue[c].state = "active"
    BY <1>t, <1>f DEF Followed
  <2>2. FateOf(c) = "open" /\ FateOf(c)' = "open"
    BY <1>t, <2>1 DEF FateOf
  <2>3. Followed(c)'
    BY <1>a, <1>f, <1>t, <2>1 DEF Followed
  <2>4. OthersStay(c) /\ QueueShaped'
    BY <1>a, <1>t DEF OthersStay, QueueShaped
  <2>5. jobs[c].status = "COMPLETED" => queue[c].stalls > 0
    BY <1>f, <1>t, <2>1 DEF Followed
  <2>6. Means(c)
    BY <1>t, <2>2, <2>5 DEF Means
  <2> QED BY <1>t, <2>3, <2>4, <2>6, MeaningMaps
<1>1. CASE TakeUp(c)
  <2>1. /\ queue[c].state = "waiting" /\ UNCHANGED jobs
        /\ QueueShaped' /\ \A d \in Call \ {c} : queue'[d] = queue[d]
        /\ queue'[c].state = "active" /\ queue'[c].stalls = queue[c].stalls
    BY <1>1 DEF TakeUp, QueueShaped, QueueShape
  <2>2. PICK to \in {"reading", "failing"} :
          sheet' = [sheet EXCEPT ![c] = [EmptySheet EXCEPT !.at = to, !.seen = rows]]
    BY <1>1 DEF TakeUp
  <2>3. /\ SheetShaped' /\ sheet'[c].at = to
        /\ \A d \in Call \ {c} : sheet'[d] = sheet[d]
    BY <2>2, SheetWritten
  <2>4. FateOf(c) = "open" /\ FateOf(c)' = "open"
    BY <2>1 DEF FateOf
  <2>5. Followed(c)'
    BY <1>a, <1>f, <2>1, <2>3 DEF Followed
  <2>6. OthersStay(c) /\ JobsShaped'
    BY <1>a, <2>1, <2>3 DEF OthersStay, JobsShaped
  <2>7. Means(c)
    BY <2>1, <2>4 DEF Means
  <2> QED BY <2>1, <2>3, <2>5, <2>6, <2>7, MeaningMaps
<1>2. CASE SumIncome(c) \/ SumExpense(c)
  <2>1. PICK to \in {"halfway", "summed"} :
          /\ sheet[c].at \in {"reading", "halfway"} /\ UNCHANGED <<jobs, queue>>
          /\ \E u : \/ sheet' = [sheet EXCEPT ![c] = [@ EXCEPT !.at = to, !.income = u]]
                   \/ sheet' = [sheet EXCEPT ![c] = [@ EXCEPT !.at = to, !.expense = u]]
    BY <1>2 DEF SumIncome, SumExpense
  <2>2. /\ SheetShaped' /\ sheet'[c].at = to
        /\ \A d \in Call \ {c} : sheet'[d] = sheet[d]
    BY <2>1, SheetWritten
  <2> QED BY <1>w, <2>1, <2>2
<1>3. CASE Upload(c) \/ Throws(c)
  <2>1. PICK to \in {"uploaded", "failing"} :
          /\ sheet[c].at \in {"reading", "halfway", "summed", "uploaded"}
          /\ UNCHANGED <<jobs, queue>>
          /\ sheet' = [sheet EXCEPT ![c].at = to]
    BY <1>3 DEF Upload, Throws, Work
  <2>2. /\ SheetShaped' /\ sheet'[c].at = to
        /\ \A d \in Call \ {c} : sheet'[d] = sheet[d]
    BY <2>1, SheetWritten
  <2> QED BY <1>w, <2>1, <2>2
<1>4. CASE Complete(c)
  <2>1. /\ sheet[c].at = "uploaded" /\ UNCHANGED queue
        /\ sheet' = [sheet EXCEPT ![c].at = "succeeded"]
        /\ jobs' = [jobs EXCEPT ![c] = [@ EXCEPT !.status = "COMPLETED", !.url = File(c)]]
    BY <1>4 DEF Complete, Work
  <2>2. /\ SheetShaped' /\ sheet'[c].at = "succeeded"
        /\ \A d \in Call \ {c} : sheet'[d] = sheet[d]
    BY <2>1, SheetWritten
  <2>3. /\ JobsShaped' /\ jobs'[c].status = "COMPLETED"
        /\ \A d \in Call \ {c} : jobs'[d] = jobs[d]
    BY <2>1, RowWritten
  <2> QED BY <1>t, <2>1, <2>2, <2>3
<1>5. CASE MarkFailed(c)
  <2>1. /\ sheet[c].at = "failing" /\ UNCHANGED queue
        /\ sheet' = [sheet EXCEPT ![c].at = "thrown"]
        /\ jobs' = [jobs EXCEPT ![c] = [@ EXCEPT !.status = "FAILED", !.error = TRUE]]
    BY <1>5 DEF MarkFailed, Work
  <2>2. /\ SheetShaped' /\ sheet'[c].at = "thrown"
        /\ \A d \in Call \ {c} : sheet'[d] = sheet[d]
    BY <2>1, SheetWritten
  <2>3. /\ JobsShaped' /\ jobs'[c].status = "FAILED"
        /\ \A d \in Call \ {c} : jobs'[d] = jobs[d]
    BY <2>1, RowWritten
  <2> QED BY <1>t, <2>1, <2>2, <2>3
<1>6. CASE MarkFails(c)
  <2>1. /\ sheet[c].at = "failing" /\ UNCHANGED jobs
        /\ sheet' = [sheet EXCEPT ![c].at = "thrown"]
        /\ queue' = [queue EXCEPT ![c].mute = TRUE]
    BY <1>6 DEF MarkFails, Work
  <2>2. /\ SheetShaped' /\ sheet'[c].at = "thrown"
        /\ \A d \in Call \ {c} : sheet'[d] = sheet[d]
    BY <2>1, SheetWritten
  <2> QED BY <1>w, <2>1, <2>2
<1>7. CASE Acknowledge(c) \/ WorkerStops(c)
  <2>1. /\ UNCHANGED jobs /\ sheet' = [sheet EXCEPT ![c] = EmptySheet]
        /\ WorkerStops(c) \/ sheet[c].at \in {"succeeded", "thrown"}
    BY <1>7 DEF Acknowledge, WorkerStops
  <2>2. /\ SheetShaped' /\ sheet'[c].at = "idle"
        /\ \A d \in Call \ {c} : sheet'[d] = sheet[d]
    BY <2>1, SheetWritten
  <2>3. queue[c].state = "active" /\ FateOf(c) = "open"
    BY <1>7, <1>f DEF Acknowledge, WorkerStops, Followed, FateOf
  <2>w. /\ queue[c].made \in Nat /\ queue[c].stalls \in Nat /\ queue[c].mute \in BOOLEAN
    BY DEF QueueShaped, QueueShape
  <2>q. PICK q \in QueueShape :
          /\ queue' = [queue EXCEPT ![c] = q]
          /\ q.state \in {"waiting", "completed", "failed"}
          /\ WorkerStops(c) => q.stalls = queue[c].stalls + 1 /\ q.mute /\ q.state # "completed"
          /\ ~WorkerStops(c) => /\ q.stalls = queue[c].stalls /\ (queue[c].mute => q.mute)
                                /\ q.state = "completed" <=> sheet[c].at = "succeeded"
    <3>0. queue[c] \in QueueShape
      BY DEF QueueShaped
    <3>1. CASE WorkerStops(c)
      <4> DEFINE st == IF queue[c].stalls < MaxStalls THEN "waiting" ELSE "failed"
                 n == queue[c].stalls + 1
                 r == Stalled(queue[c], n, st)
      <4>1. queue' = [queue EXCEPT ![c] = r]
        BY <3>1 DEF WorkerStops, Stalled
      <4>2. st \in {"waiting", "failed"} /\ n \in Nat
        BY <2>w
      <4> HIDE DEF st, n
      <4>3. r \in QueueShape
        BY <3>0, <4>2 DEF QueueShape, Stalled
      <4>4. r.state = st /\ r.stalls = n
        BY <3>0, <4>2 DEF QueueShape, Stalled
      <4>5. r.mute
        BY <3>0, Zenon DEF QueueShape, Stalled
      <4> HIDE DEF r
      <4> QED BY <3>1, <4>1, <4>2, <4>3, <4>4, <4>5 DEF n
    <3>2. CASE ~WorkerStops(c)
      <4> DEFINE st == IF sheet[c].at = "succeeded" THEN "completed"
                       ELSE IF queue[c].made + 1 < Attempts THEN "waiting" ELSE "failed"
                 n == queue[c].made + 1
                 r == Attempted(queue[c], n, st)
      <4>1. queue' = [queue EXCEPT ![c] = r]
        BY <1>7, <3>2 DEF Acknowledge, Attempted
      <4>2. /\ st \in {"waiting", "completed", "failed"} /\ n \in Nat
            /\ st = "completed" <=> sheet[c].at = "succeeded"
        BY <2>w
      <4> HIDE DEF st, n
      <4>3. r \in QueueShape
        BY <3>0, <4>2 DEF QueueShape, Attempted
      <4>4. r.state = st /\ r.stalls = queue[c].stalls
        BY <3>0, <4>2 DEF QueueShape, Attempted
      <4>5. queue[c].mute => r.mute
        BY <3>0, Zenon DEF QueueShape, Attempted
      <4> HIDE DEF r
      <4> QED BY <3>2, <4>1, <4>2, <4>3, <4>4, <4>5
    <3> QED BY <3>1, <3>2
  <2>4. /\ QueueShaped' /\ \A d \in Call \ {c} : queue'[d] = queue[d]
        /\ queue'[c] = q
    BY <2>q DEF QueueShaped
  <2>5. OthersStay(c) /\ JobsShaped'
    BY <1>a, <2>1, <2>2, <2>4 DEF OthersStay, JobsShaped
  <2>7. Followed(c)'
    <3>1. WorkerStops(c) => queue'[c].stalls > 0
      BY <2>q, <2>4, <2>w
    <3>2. ~WorkerStops(c) => queue'[c].stalls = queue[c].stalls
      BY <2>q, <2>4, <2>w
    <3> QED BY <1>a, <1>f, <2>1, <2>2, <2>3, <2>4, <2>q, <3>1, <3>2 DEF Followed
  <2>8. Means(c)
    <3>1. /\ q.state = "waiting" => FateOf(c)' = "open"
          /\ q.state = "completed" => FateOf(c)' = "done"
          /\ q.state = "failed" => FateOf(c)' = IF q.mute THEN "silent" ELSE "given up"
      BY <2>4 DEF FateOf
    <3>2. CASE WorkerStops(c)
      <4>1. queue'[c].stalls > 0
        BY <2>q, <2>4, <2>w, <3>2
      <4>2. FateOf(c)' \in {"open", "silent"}
        BY <2>q, <3>1, <3>2
      <4> QED BY <2>1, <2>3, <4>1, <4>2 DEF Means
    <3>3. CASE ~WorkerStops(c)
      <4>1. queue'[c].stalls = queue[c].stalls
        BY <2>q, <2>4, <2>w, <3>3
      <4>2. sheet[c].at = "thrown" => jobs[c].status = "FAILED" \/ q.mute
        BY <1>f, <2>q, <3>3 DEF Followed
      <4>3. sheet[c].at = "succeeded" => jobs[c].status = "COMPLETED" /\ q.state = "completed"
        BY <1>f, <2>q, <3>3 DEF Followed
      <4>4. sheet[c].at = "thrown" => q.state # "completed"
        BY <2>q, <3>3
      <4> QED BY <2>1, <2>3, <2>q, <3>1, <3>3, <4>1, <4>2, <4>3, <4>4 DEF Means
    <3> QED BY <3>2, <3>3
  <2> QED BY <2>2, <2>4, <2>5, <2>7, <2>8, MeaningMaps
<1> QED BY <1>1, <1>2, <1>3, <1>4, <1>5, <1>6, <1>7 DEF WorkerStep

LEMMA ExportInvInit ==
    ASSUME Init
    PROVE  ExportInv /\ Promise!Start
<1> DEFINE U == {NoFile, NoSums, <<>>}
<1>1. jobs \in [Call -> JobShape(U)]
  BY DEF Init, ExportInit, JobShape
<1>2. queue \in [Call -> QueueShape]
  BY DEF Init, ExportInit, QueueShape
<1>3. sheet \in [Call -> SheetShape(U)]
  BY DEF Init, ExportInit, SheetShape, EmptySheet
<1>4. \A c \in Call : /\ jobs[c].status = "ABSENT" /\ pc[c] = "idle" /\ sheet[c].at = "idle"
                     /\ queue[c].state = "none" /\ queue[c].stalls = 0
  BY DEF Init, Open, ExportInit, EmptySheet
<1>5. ExportInv
  BY <1>1, <1>2, <1>3, <1>4 DEF ExportInv, JobsShaped, QueueShaped, SheetShaped, Followed
<1>6. \A c \in Call : FateOf(c) = "unknown"
  BY <1>4 DEF FateOf
<1>7. /\ [c \in Call |-> jobs[c].status] = [e \in Call |-> "ABSENT"]
      /\ [c \in Call |-> FateOf(c)] = [e \in Call |-> "unknown"]
  BY <1>4, <1>6
<1>8. [c \in Call |-> queue[c].stalls > 0] = [e \in Call |-> FALSE]
  <2>1. \A c \in Call : (queue[c].stalls > 0) = FALSE
    BY <1>4
  <2> QED BY <2>1, Zenon
<1> QED BY <1>5, <1>7, <1>8 DEF Promise!Start

LEMMA ExportInvNext ==
    ASSUME ExportInv, pc \in [Call -> Place], [Next]_vars
    PROVE  ExportInv' /\ PromiseNext
<1>a. ASSUME NEW c \in Call, Aside(c), UNCHANGED exportVars PROVE ExportInv' /\ PromiseNext
  <2>1. PICK p \in Place \ {"idle", "enqueueing"} :
          \/ Arrive(c, p)
          \/ pc[c] \notin {"idle", "enqueueing"} /\ Go(c, p)
    BY <1>a DEF Aside
  <2> QED BY <1>a, <2>1, AsideIsQuiet, QuietForExports
<1>1. ASSUME NEW c \in Call, BotStep(c), UNCHANGED exportVars PROVE ExportInv' /\ PromiseNext
  BY <1>1, <1>a, BotIsAside
<1>2. ASSUME NEW c \in Call, CategoryStep(c), UNCHANGED exportVars PROVE ExportInv' /\ PromiseNext
  BY <1>2, CategoryIsQuiet, QuietForExports
<1>3. ASSUME NEW c \in Call, ExportStep(c) PROVE ExportInv' /\ PromiseNext
  BY <1>3, ClientKeeps, WorkerKeeps DEF ExportStep
<1>4. ASSUME NEW c \in Call, RegistryStep(c), UNCHANGED exportVars PROVE ExportInv' /\ PromiseNext
  BY <1>4, <1>a, RegistryIsAside
<1>5. ASSUME NEW c \in Call, OpenAccount(c), UNCHANGED exportVars PROVE ExportInv' /\ PromiseNext
  <2>1. "ok" \in Place \ {"idle", "enqueueing"} /\ Arrive(c, "ok")
    BY <1>5 DEF OpenAccount, Place, Terminal
  <2> QED BY <1>5, <2>1, AsideIsQuiet, QuietForExports
<1>6. ASSUME Tick \/ UNCHANGED vars, UNCHANGED exportVars PROVE ExportInv' /\ PromiseNext
  BY <1>6, QuietForExports DEF Tick, vars
<1> QED BY <1>1, <1>2, <1>3, <1>4, <1>5, <1>6 DEF Next, vars

\* The exports implement their contract but for its liveness: whatever fails,
\* is retried or restarts, and whatever the bot, the owners and the other
\* exports do meanwhile, a settled export never changes what it says, and says
\* what became of it unless its last attempt ended without a word.
THEOREM ExportKeepsContract == Spec => Promise!Safe
<1>1. Init => ExportInv /\ Promise!Start
  BY ExportInvInit
<1>2. NameInv => pc \in [Call -> Place]
  BY DEF NameInv, MetInv
<1>3. ExportInv /\ pc \in [Call -> Place] /\ [Next]_vars => ExportInv' /\ PromiseNext
  BY ExportInvNext
<1>4. PromiseNext => [\E e \in Call : Promise!ContractStep(e)]_(Promise!contractVars)
  BY DEF PromiseNext
<1> QED BY <1>1, <1>2, <1>3, <1>4, Spec_NameInv, PTL DEF Spec, Promise!Safe

-----------------------------------------------------------------------------
(* The greatest of some indices. *)

LEMMA MaxIn ==
    ASSUME NEW n \in Nat, NEW S, S \subseteq 1..n, S # {}
    PROVE  Max(S) \in S /\ \A x \in S : x <= Max(S)
<1>0. \A x \in S : x \in Int
  OBVIOUS
<1>1. PICK m \in S : \A x \in S : x <= m
  BY Greatest
<1>2. \A x \in S : m >= x
  BY <1>0, <1>1
<1>3. Max(S) \in S /\ \A x \in S : Max(S) >= x
  BY ONLY <1>2, m \in S DEF Max
<1> QED BY ONLY <1>0, <1>3

LEMMA MaxIs ==
    ASSUME NEW n \in Nat, NEW S, S \subseteq 1..n, NEW m \in S, \A x \in S : x <= m
    PROVE  Max(S) = m
<1>1. Max(S) \in S /\ m <= Max(S)
  BY MaxIn
<1>0. \A x \in S : x \in Int
  OBVIOUS
<1>2. Max(S) <= m /\ Max(S) \in Int /\ m \in Int
  BY ONLY <1>0, <1>1, m \in S, \A x \in S : x <= m
<1> QED BY ONLY <1>1, <1>2

\* The last of some elements, J, when the newest is one of them.
LEMMA LastAppended ==
    ASSUME NEW n \in Nat, NEW k, k = n + 1, NEW J, J \subseteq 1..k, k \in J
    PROVE  Max(J) = k
<1>1. \A x \in J : x <= k
  OBVIOUS
<1>2. k \in Nat
  OBVIOUS
<1> QED BY ONLY <1>1, <1>2, MaxIs, J \subseteq 1..k, k \in J

-----------------------------------------------------------------------------
(* The master data *)

RegistryOp == {"record", "revalue", "discard", "settings"}
RegistryPlace == {"announcing", "revaluing", "discarding", "saving"}

LEMMA RegistryRequests ==
    ASSUME req \in Workload, NEW c \in Call
    PROVE  /\ req[c].op = "record" => req[c].kind \in Kind /\ req[c].val \in Value
           /\ req[c].op = "revalue" => req[c].kind \in Kind /\ req[c].val \in Value /\ req[c].of \in Call
           /\ req[c].op = "discard" => req[c].kind \in Kind /\ req[c].of \in Call
           /\ req[c].op = "settings" => \A k \in DOMAIN req[c].set : req[c].set[k] \in Choice
<1>1. req[c] \in Request
  BY DeskAssumption
<1>2. req[c].op = "record" => req[c] \in RecordRequest
  BY <1>1 DEF Request, AccountRequest, Webhook, NameRequest, RemoveRequest, EnterRequest,
     ExportRequest, RecordRequest, RevalueRequest, DiscardRequest, SettingsRequest, NoRequest
<1>3. req[c].op = "revalue" => req[c] \in RevalueRequest
  BY <1>1 DEF Request, AccountRequest, Webhook, NameRequest, RemoveRequest, EnterRequest,
     ExportRequest, RecordRequest, RevalueRequest, DiscardRequest, SettingsRequest, NoRequest
<1>4. req[c].op = "discard" => req[c] \in DiscardRequest
  BY <1>1 DEF Request, AccountRequest, Webhook, NameRequest, RemoveRequest, EnterRequest,
     ExportRequest, RecordRequest, RevalueRequest, DiscardRequest, SettingsRequest, NoRequest
<1>5. req[c].op = "settings" => req[c] \in SettingsRequest
  BY <1>1 DEF Request, AccountRequest, Webhook, NameRequest, RemoveRequest, EnterRequest,
     ExportRequest, RecordRequest, RevalueRequest, DiscardRequest, SettingsRequest, NoRequest
<1> QED BY <1>2, <1>3, <1>4, <1>5 DEF RecordRequest, RevalueRequest, DiscardRequest, SettingsRequest

\* Call c belongs to another component.
Foreign(c) ==
    /\ UNCHANGED <<req, registryVars>>
    /\ \E p \in Place \ (RegistryPlace \cup {"idle"}) :
         \/ req[c].op \notin RegistryOp /\ Arrive(c, p)
         \/ pc[c] \notin RegistryPlace \cup Terminal \cup {"idle"} /\ Go(c, p)

LEMMA BotIsForeign ==
    ASSUME NEW c \in Call, BotStep(c), UNCHANGED registryVars
    PROVE  Foreign(c)
<1> DEFINE P == Place \ (RegistryPlace \cup {"idle"})
<1>a. {"user", "account", "report", "last", "posting", "reading back", "cancelling", "voiding",
       "ok", "lost"} \subseteq P
  BY DEF RegistryPlace, Place, Terminal
<1>p. ASSUME Proceed(c) PROVE \E p \in P : Go(c, p)
  BY <1>p, <1>a DEF Proceed
<1>n. ASSUME NEW w, NEW i, Answer(c, w, i) PROVE \E p \in P : Go(c, p)
  BY <1>n, <1>p DEF Answer
<1>1. CASE Deliver(c)
  BY <1>1, <1>a DEF Deliver, Foreign, RegistryOp
<1>2. CASE FindUser(c) \/ FindAccount(c) \/ Report(c)
  BY <1>2, <1>a, <1>n DEF FindUser, FindAccount, Report, Foreign, RegistryPlace, Terminal
<1>3. CASE Book(c) \/ CannotAfford(c) \/ ReadBack(c)
  BY <1>3, <1>a, <1>n DEF Book, CannotAfford, ReadBack, Foreign, RegistryPlace, Terminal
<1>4. CASE FindLast(c) \/ FindExisting(c) \/ Void(c)
  BY <1>4, <1>a, <1>n DEF FindLast, FindExisting, Void, Foreign, RegistryPlace, Terminal
<1>5. CASE Apologise(c) \/ Drop(c)
  BY <1>5, <1>a, <1>n DEF Apologise, Drop, Foreign, RegistryPlace, Terminal
<1> QED BY <1>1, <1>2, <1>3, <1>4, <1>5 DEF BotStep

LEMMA CategoryIsForeign ==
    ASSUME NEW c \in Call, CategoryStep(c), UNCHANGED registryVars
    PROVE  Foreign(c)
<1>a. CategoryPlace \cup Terminal \subseteq Place \ (RegistryPlace \cup {"idle"})
  BY DEF CategoryPlace, RegistryPlace, Place, Terminal
<1>1. \E p \in CategoryPlace \cup Terminal :
        \/ req[c].op \notin RegistryOp /\ Arrive(c, p)
        \/ pc[c] \notin RegistryPlace \cup Terminal \cup {"idle"} /\ Go(c, p)
  BY DEF CategoryStep, CheckName, InsertCategory, FindCategory, FindDuplicate, Rename, CountUses,
         SoftDelete, Enter, Commit, GiveUp, CategoryPlace, Terminal, RegistryOp, RegistryPlace
<1>2. UNCHANGED req
  BY DEF CategoryStep, CheckName, InsertCategory, FindCategory, FindDuplicate, Rename, CountUses,
         SoftDelete, Enter, Commit, GiveUp
<1> QED BY <1>a, <1>1, <1>2 DEF Foreign

\* What a step of another component is for the master data.
LEMMA OthersAreForeign ==
    ASSUME [Next]_vars, \A c \in Call : ~RegistryStep(c)
    PROVE  (\E c \in Call : Foreign(c)) \/ UNCHANGED <<req, pc, met, registryVars>>
<1>1. ASSUME NEW c \in Call, ExportStep(c), UNCHANGED registryVars
      PROVE  Foreign(c) \/ UNCHANGED <<req, pc, met, registryVars>>
  <2>a. {"enqueueing", "ok", "failed"} \subseteq Place \ (RegistryPlace \cup {"idle"})
    BY DEF RegistryPlace, Place, Terminal
  <2>1. CASE ClientStep(c)
    BY <1>1, <2>1, <2>a DEF ClientStep, CreateRow, Enqueue, EnqueueFails, Foreign, RegistryOp,
       RegistryPlace, Terminal
  <2>2. CASE WorkerStep(c)
    BY <1>1, <2>2 DEF WorkerStep, TakeUp, SumIncome, SumExpense, Upload, Complete, Throws,
       MarkFailed, MarkFails, Acknowledge, WorkerStops, Work
  <2> QED BY <1>1, <2>1, <2>2 DEF ExportStep
<1>2. ASSUME NEW c \in Call, OpenAccount(c), UNCHANGED registryVars PROVE Foreign(c)
  BY <1>2 DEF OpenAccount, Foreign, RegistryOp, RegistryPlace, Place, Terminal
<1>3. CASE Tick /\ UNCHANGED registryVars
  BY <1>3 DEF Tick
<1>4. CASE UNCHANGED vars
  BY <1>4 DEF vars
<1> QED BY <1>1, <1>2, <1>3, <1>4, BotIsForeign, CategoryIsForeign DEF Next

Writing == {"record", "revalue", "discard"}
RecordRow == [state: {"absent", "live", "deleted"}, kind: Kind, val: Value \cup {0}]

\* Where the calls on the master data may be.
RegistryPlaced ==
    /\ req \in Workload
    /\ \A c \in Call :
         /\ req[c].op \in RegistryOp => pc[c] \in RegistryPlace \cup Terminal \cup {"idle"}
         /\ pc[c] = "announcing" => req[c].op \in Writing
         /\ pc[c] = "revaluing" => req[c].op = "revalue"
         /\ pc[c] = "discarding" => req[c].op = "discard"
         /\ pc[c] = "saving" => req[c].op = "settings"

\* A record that was found stays in the table, and what is in it has a value.
RecordsShaped ==
    /\ records \in [Call -> RecordRow]
    /\ \A r \in Call : records[r].state # "absent" => records[r].val \in Value
    /\ \A c \in Call : pc[c] \in {"revaluing", "discarding"} =>
           records[req[c].of].state # "absent"
    /\ hand = [c \in Call |-> hand[c]]
    /\ \A c \in Call : pc[c] = "announcing" => hand[c].val \in Value
    /\ feed \in Seq([of: Call, op: Writing, val: Value])

\* Nobody who writes record r was cut off or met another who does.
Clean(r) ==
    /\ \A c \in Writers(r) : pc[c] # "lost"
    /\ \A c, d \in Writers(r) : c \notin met[d]

\* Then the table is ahead of the events only while its one writer has still
\* to announce what it wrote, and has it in hand.
Told(r) ==
    Clean(r) =>
        /\ (\A c \in Writers(r) : pc[c] # "announcing")
           => Shown(r) = IF records[r].state = "live" THEN {records[r].val} ELSE {}
        /\ \A c \in Writers(r) :
             /\ pc[c] = "announcing" =>
                   /\ hand[c] = records[r]
                   /\ records[r].state = IF req[c].op = "discard" THEN "deleted" ELSE "live"
             /\ pc[c] \in {"revaluing", "discarding"} => records[r].state = "live"

FeedInv == RegistryPlaced /\ RecordsShaped /\ \A r \in Call : Told(r)

\* Call c, which had not ended, gets to place p; the others stay where they are.
Moved(c, p) ==
    /\ UNCHANGED req
    /\ MetInv'
    /\ \A d \in Call : met[d] \subseteq met'[d]
    /\ \A d \in Call \ {c} : pc'[d] = pc[d]
    /\ pc[c] \notin Terminal /\ pc'[c] = p

LEMMA StepMoves ==
    ASSUME MetInv, NEW c \in Call, NEW p \in Place \ {"idle"}, UNCHANGED req,
           Arrive(c, p) \/ (pc[c] \notin Terminal \cup {"idle"} /\ Go(c, p))
    PROVE  Moved(c, p)
<1>1. CASE Arrive(c, p)
  BY <1>1, ArriveMeets DEF Moved, Arrive, Terminal
<1>2. CASE pc[c] \notin Terminal \cup {"idle"} /\ Go(c, p)
  <2>1. c \in Running
    BY <1>2 DEF Running
  <2> QED BY <1>2, <2>1, GoMeets DEF Moved
<1> QED BY <1>1, <1>2

LEMMA ShownAppended ==
    ASSUME NEW U, feed \in Seq(U), NEW e \in U, feed' = Append(feed, e), NEW r
    PROVE  Shown(r)' = IF e.of = r THEN IF e.op = "discard" THEN {} ELSE {e.val} ELSE Shown(r)
<1> DEFINE n == Len(feed)
           k == n + 1
           I == {i \in DOMAIN feed : feed[i].of = r}
           J == {i \in DOMAIN feed' : feed'[i].of = r}
<1>1. /\ n \in Nat /\ k = n + 1 /\ DOMAIN feed = 1..n /\ DOMAIN feed' = 1..k
      /\ \A i \in 1..n : i # k /\ feed'[i] = feed[i]
      /\ feed'[k] = e
  OBVIOUS
<1>2. /\ I \subseteq 1..n /\ J \subseteq 1..k /\ k \in J <=> e.of = r
  BY <1>1
<1>3. I # {} => Max(I) \in 1..n
  <2>1. n \in Nat /\ I \subseteq 1..n
    BY <1>1, <1>2
  <2> HIDE DEF I, n
  <2> QED BY ONLY <2>1, MaxIn
<1>4. ASSUME k \in J PROVE Max(J) = k
  <2>1. n \in Nat /\ k = n + 1
    BY <1>1
  <2>2. J \subseteq 1..k /\ k \in J
    BY <1>2, <1>4
  <2> HIDE DEF J, n, k
  <2>3. \A S : S \subseteq 1..k /\ k \in S => Max(S) = k
    BY ONLY <2>1, LastAppended
  <2> QED BY ONLY <2>2, <2>3
<1>5. /\ Shown(r) = IF I = {} \/ feed[Max(I)].op = "discard" THEN {} ELSE {feed[Max(I)].val}
      /\ Shown(r)' = IF J = {} \/ feed'[Max(J)].op = "discard" THEN {} ELSE {feed'[Max(J)].val}
  BY DEF Shown
<1> HIDE DEF I, J, n, k
<1>6. CASE e.of = r
  BY <1>1, <1>2, <1>4, <1>5, <1>6
<1>7. CASE e.of # r
  <2>1. J = I
    BY <1>1, <1>7 DEF I, J
  <2>2. I # {} => feed'[Max(I)] = feed[Max(I)]
    BY <1>1, <1>3
  <2> QED BY <1>5, <1>7, <2>1, <2>2
<1> QED BY <1>6, <1>7

\* A step of a call that does not write record r.
LEMMA ToldStays ==
    ASSUME RegistryPlaced, NEW r \in Call, Told(r), NEW c \in Call, NEW p, Moved(c, p),
           \/ req[c].op \notin Writing
           \/ RecordOf(c) # r
           \/ pc[c] = "idle" /\ p = "failed",
           records'[r] = records[r], Shown(r)' = Shown(r),
           \A d \in Call \ {c} : hand'[d] = hand[d]
    PROVE  Told(r)'
<1>1. Writers(r)' = Writers(r) /\ c \notin Writers(r)
  BY DEF Writers, RecordOf, Moved, Writing, Terminal
<1>2. \A d \in Writers(r) : d \in Call /\ pc'[d] = pc[d] /\ hand'[d] = hand[d]
  BY <1>1 DEF Moved, Writers
<1>3. Clean(r)' => Clean(r)
  BY <1>1, <1>2 DEF Clean, Moved
<1>4. UNCHANGED req
  BY DEF Moved
<1> QED BY <1>1, <1>2, <1>3, <1>4 DEF Told

\* A step of a call that does.
LEMMA WriterMoves ==
    ASSUME MetInv, RegistryPlaced, NEW r \in Call, NEW c \in Call, NEW p, Moved(c, p),
           req[c].op \in Writing, RecordOf(c) = r, p \notin {"failed", "idle"},
           pc[c] = "idle" => p # "ok", Clean(r)'
    PROVE  /\ Clean(r) /\ p # "lost"
           /\ Writers(r)' = Writers(r) \cup {c}
           /\ \A d \in Writers(r)' \ {c} : pc'[d] = "ok" /\ pc[d] = "ok"
<1>1. Writers(r)' = Writers(r) \cup {c}
  BY DEF Writers, RecordOf, Moved, Writing
<1>2. \A d \in Writers(r)' : d \in Call
  BY DEF Writers
<1>3. \A d \in Writers(r) \ {c} : pc'[d] = pc[d]
  BY <1>1, <1>2 DEF Moved
<1>4. pc[c] # "lost" /\ p # "lost"
  BY <1>1 DEF Clean, Moved, Terminal
<1>5. Clean(r)
  BY <1>1, <1>2, <1>3, <1>4 DEF Clean, Moved
<1>6. ASSUME NEW d \in Writers(r)' \ {c} PROVE pc'[d] = "ok" /\ pc[d] = "ok"
  <2>1. d \in Writers(r) /\ d \in Call /\ pc'[d] = pc[d] /\ pc[d] \notin {"idle", "failed", "lost"}
    BY <1>1, <1>2, <1>3, <1>5, <1>6 DEF Clean, Writers
  <2>2. d \notin met'[c] /\ c \notin met'[d]
    BY <1>1, <1>6 DEF Clean
  <2>3. CASE pc[d] # "ok" /\ pc[c] # "idle"
    <3>1. c \in Running /\ d \in Running
      BY <2>1, <2>3 DEF Running, Terminal, Moved
    <3>2. c \in met[d]
      BY <1>6, <3>1 DEF MetInv
    <3> QED BY <2>2, <2>1, <3>2 DEF Moved
  <2>4. CASE pc[d] # "ok" /\ pc[c] = "idle" /\ p # "ok"
    <3>1. c \in Running' /\ d \in Running'
      BY <1>4, <2>1, <2>4 DEF Running, Terminal, Moved
    <3>2. c \in met'[d]
      BY <1>6, <3>1 DEF MetInv, Moved
    <3> QED BY <2>2, <3>2
  <2> QED BY <2>1, <2>3, <2>4
<1> QED BY <1>1, <1>4, <1>5, <1>6

-----------------------------------------------------------------------------

LEMMA ForeignMoves ==
    ASSUME MetInv, NEW c \in Call, Foreign(c)
    PROVE  \E p \in Place \ (RegistryPlace \cup {"idle"}) :
             /\ Moved(c, p)
             /\ req[c].op \notin RegistryOp \/ pc[c] \notin RegistryPlace \cup Terminal \cup {"idle"}
<1>1. PICK p \in Place \ (RegistryPlace \cup {"idle"}) :
         \/ req[c].op \notin RegistryOp /\ Arrive(c, p)
         \/ pc[c] \notin RegistryPlace \cup Terminal \cup {"idle"} /\ Go(c, p)
  BY DEF Foreign
<1>2. Moved(c, p)
  BY <1>1, StepMoves DEF Foreign
<1> QED BY <1>1, <1>2

\* What a call that does not touch the table and the events leaves in place.
LEMMA PlacedStays ==
    ASSUME RegistryPlaced, NEW c \in Call, NEW p, Moved(c, p),
           \/ p \in Place \ (RegistryPlace \cup {"idle"}) /\ req[c].op \notin RegistryOp
           \/ p \in Terminal
           \/ p = "announcing" /\ req[c].op \in Writing
           \/ p = "revaluing" /\ req[c].op = "revalue"
           \/ p = "discarding" /\ req[c].op = "discard"
           \/ p = "saving" /\ req[c].op = "settings"
    PROVE  RegistryPlaced'
<1>1. UNCHANGED req /\ pc'[c] = p /\ \A d \in Call \ {c} : pc'[d] = pc[d]
  BY DEF Moved
<1> SUFFICES ASSUME NEW d \in Call
             PROVE  /\ req[d].op \in RegistryOp => pc'[d] \in RegistryPlace \cup Terminal \cup {"idle"}
                    /\ pc'[d] = "announcing" => req[d].op \in Writing
                    /\ pc'[d] = "revaluing" => req[d].op = "revalue"
                    /\ pc'[d] = "discarding" => req[d].op = "discard"
                    /\ pc'[d] = "saving" => req[d].op = "settings"
  BY <1>1 DEF RegistryPlaced
<1>2. CASE d = c
  BY <1>1, <1>2 DEF RegistryPlace, RegistryOp, Writing, Terminal
<1>3. CASE d # c
  BY <1>1, <1>3 DEF RegistryPlaced
<1> QED BY <1>2, <1>3

LEMMA ForeignKeepsFeed ==
    ASSUME MetInv, FeedInv, NEW c \in Call, Foreign(c)
    PROVE  FeedInv'
<1>1. PICK p \in Place \ (RegistryPlace \cup {"idle"}) :
             /\ Moved(c, p)
             /\ req[c].op \notin RegistryOp \/ pc[c] \notin RegistryPlace \cup Terminal \cup {"idle"}
  BY ForeignMoves
<1>2. req[c].op \notin RegistryOp
  BY <1>1 DEF FeedInv, RegistryPlaced
<1>3. UNCHANGED registryVars
  BY DEF Foreign
<1>4. RegistryPlaced'
  BY <1>1, <1>2, PlacedStays DEF FeedInv
<1>5. RecordsShaped'
  <2>1. UNCHANGED <<records, feed, hand, req>>
    BY <1>1, <1>3 DEF registryVars, Moved
  <2>2. \A d \in Call : pc'[d] \in RegistryPlace => pc[d] = pc'[d]
    BY <1>1 DEF Moved
  <2> QED BY <2>1, <2>2 DEF RecordsShaped, FeedInv, RegistryPlace
<1>6. \A r \in Call : Told(r)'
  <2> SUFFICES ASSUME NEW r \in Call PROVE Told(r)'
    OBVIOUS
  <2>1. Shown(r)' = Shown(r) /\ records'[r] = records[r] /\ hand' = hand
    BY <1>3 DEF Shown, registryVars
  <2>2. req[c].op \notin Writing /\ Told(r) /\ RegistryPlaced
    BY <1>2 DEF FeedInv, RegistryOp, Writing
  <2> QED BY <1>1, <2>1, <2>2, ToldStays
<1> QED BY <1>4, <1>5, <1>6 DEF FeedInv

LEMMA RecordStepMoves ==
    ASSUME MetInv, NEW c \in Call, RegistryStep(c)
    PROVE  \E p \in Place \ {"idle"} : Moved(c, p)
<1> DEFINE P == {"announcing", "revaluing", "discarding", "saving", "ok", "failed", "lost"}
<1>1. P \subseteq Place \ {"idle"}
  BY DEF Place, Terminal
<1>2. UNCHANGED req
  BY DEF RegistryStep, CreateRecord, FindRecord, NotFound, Revalue, Discard, Announce, ReadSettings,
         SaveSettings, Abandon, Write, ownVars
<1>3. \E p \in P : Arrive(c, p) \/ (pc[c] \notin Terminal \cup {"idle"} /\ Go(c, p))
  BY DEF RegistryStep, CreateRecord, FindRecord, NotFound, Revalue, Discard, Announce, ReadSettings,
         SaveSettings, Abandon, Terminal
<1> QED BY <1>1, <1>2, <1>3, StepMoves

\* The writing of a record, from where its call is to where it announces it.
LEMMA WriteKeepsFeed ==
    ASSUME MetInv, FeedInv, NEW c \in Call, req[c].op \in Writing, Moved(c, "announcing"),
           NEW row \in RecordRow, Write(c, row), RecordOf(c) \in Call, row.val \in Value,
           row.state # "absent",
           Clean(RecordOf(c)) => row.state = IF req[c].op = "discard" THEN "deleted" ELSE "live"
    PROVE  FeedInv'
<1> DEFINE s == RecordOf(c)
<1>1. /\ records' = [records EXCEPT ![s] = row] /\ hand' = [hand EXCEPT ![c] = row]
      /\ UNCHANGED feed /\ UNCHANGED req
  BY DEF Write, Moved
<1>2. /\ records' \in [Call -> RecordRow] /\ records'[s] = row
      /\ \A r \in Call \ {s} : records'[r] = records[r]
      /\ hand' = [d \in Call |-> hand'[d]] /\ hand'[c] = row
      /\ \A d \in Call \ {c} : hand'[d] = hand[d]
  BY <1>1 DEF FeedInv, RecordsShaped
<1>3. pc'[c] = "announcing" /\ \A d \in Call \ {c} : pc'[d] = pc[d]
  BY DEF Moved
<1>4. RegistryPlaced'
  BY PlacedStays DEF FeedInv
<1>5. RecordsShaped'
  <2>1. \A r \in Call : /\ records[r].state # "absent" => records'[r].state # "absent"
                        /\ records'[r].state # "absent" => records'[r].val \in Value
    BY <1>2 DEF FeedInv, RecordsShaped
  <2>2. \A d \in Call : pc'[d] \in {"revaluing", "discarding"} => records'[req[d].of].state # "absent"
    <3> SUFFICES ASSUME NEW d \in Call, pc'[d] \in {"revaluing", "discarding"}
                 PROVE  records'[req[d].of].state # "absent"
      OBVIOUS
    <3>1. pc[d] \in {"revaluing", "discarding"}
      BY <1>3
    <3>2. req[d].of \in Call /\ records[req[d].of].state # "absent"
      BY <3>1, RegistryRequests DEF FeedInv, RegistryPlaced, RecordsShaped
    <3> QED BY <2>1, <3>2
  <2>3. \A d \in Call : pc'[d] = "announcing" => hand'[d].val \in Value
    BY <1>2, <1>3 DEF FeedInv, RecordsShaped
  <2> QED BY <1>1, <1>2, <2>1, <2>2, <2>3 DEF FeedInv, RecordsShaped
<1>6. ASSUME NEW r \in Call PROVE Told(r)'
  <2>1. Shown(r)' = Shown(r)
    BY <1>1 DEF Shown
  <2>2. CASE r # s
    BY <1>2, <2>1, <2>2, ToldStays DEF FeedInv
  <2>3. CASE r = s /\ Clean(r)'
    <3>1. Clean(r) /\ Writers(r)' = Writers(r) \cup {c}
          /\ \A d \in Writers(r)' \ {c} : pc'[d] = "ok"
      BY <2>3, WriterMoves DEF FeedInv
    <3>2. hand'[c] = records'[r]
          /\ records'[r].state = IF req'[c].op = "discard" THEN "deleted" ELSE "live"
      BY <1>1, <1>2, <2>3, <3>1
    <3> QED BY <1>3, <3>1, <3>2 DEF Told
  <2>4. CASE ~Clean(r)'
    BY <2>4 DEF Told
  <2> QED BY <2>2, <2>3, <2>4
<1> QED BY <1>4, <1>5, <1>6 DEF FeedInv

LEMMA AnnounceKeepsFeed ==
    ASSUME MetInv, FeedInv, NEW c \in Call, Announce(c), Moved(c, "ok")
    PROVE  FeedInv'
<1> DEFINE s == RecordOf(c)
<1>0. pc[c] = "announcing" /\ req[c].op \in Writing
  BY DEF Announce, FeedInv, RegistryPlaced
<1>1. s \in Call /\ hand[c].val \in Value
  BY <1>0, RegistryRequests DEF FeedInv, RegistryPlaced, RecordsShaped, RecordOf, Writing
<1>2. /\ feed' = Append(feed, Event(c))
      /\ UNCHANGED <<records, hand, req>>
  BY DEF Announce, Moved
<1>3. Event(c) \in [of: Call, op: Writing, val: Value] /\ Event(c).of = s
      /\ Event(c).op = req[c].op /\ Event(c).val = hand[c].val
  BY <1>0, <1>1 DEF Event
<1>4. pc'[c] = "ok" /\ \A d \in Call \ {c} : pc'[d] = pc[d]
  BY DEF Moved
<1>5. RegistryPlaced'
  BY PlacedStays DEF FeedInv, Terminal
<1>6. RecordsShaped'
  <2>1. feed' \in Seq([of: Call, op: Writing, val: Value])
    BY <1>2, <1>3 DEF FeedInv, RecordsShaped
  <2> QED BY <1>2, <1>4, <2>1 DEF FeedInv, RecordsShaped
<1>7. ASSUME NEW r \in Call PROVE Told(r)'
  <2>1. Shown(r)' = IF s = r THEN IF req[c].op = "discard" THEN {} ELSE {hand[c].val} ELSE Shown(r)
    <3>1. feed \in Seq([of: Call, op: Writing, val: Value])
      BY DEF FeedInv, RecordsShaped
    <3> QED BY ONLY <1>2, <1>3, <3>1, ShownAppended
  <2>2. CASE r # s
    BY <1>2, <2>1, <2>2, ToldStays DEF FeedInv
  <2>3. CASE r = s /\ Clean(r)'
    <3>1. Clean(r) /\ Writers(r)' = Writers(r) \cup {c}
          /\ \A d \in Writers(r)' \ {c} : pc'[d] = "ok"
      BY <1>0, <2>3, WriterMoves DEF FeedInv
    <3>2. c \in Writers(r)
      BY <1>0, <2>3 DEF Writers, Writing
    <3>3. /\ hand[c] = records[r]
          /\ records[r].state = IF req[c].op = "discard" THEN "deleted" ELSE "live"
      BY <1>0, <3>1, <3>2 DEF FeedInv, Told
    <3>4. Shown(r)' = IF records'[r].state = "live" THEN {records'[r].val} ELSE {}
      BY <1>2, <2>1, <2>3, <3>3
    <3> QED BY <1>4, <3>1, <3>4 DEF Told
  <2>4. CASE ~Clean(r)'
    BY <2>4 DEF Told
  <2> QED BY <2>2, <2>3, <2>4
<1> QED BY <1>5, <1>6, <1>7 DEF FeedInv

\* A step that leaves the table, the events and what the calls to write have in
\* hand alone.
LEMMA LookKeepsFeed ==
    ASSUME MetInv, FeedInv, NEW c \in Call, NEW p \in Place \ {"idle"}, Moved(c, p), RegistryPlaced',
           UNCHANGED <<records, feed>>, \A d \in Call \ {c} : hand'[d] = hand[d],
           hand' = [d \in Call |-> hand'[d]],
           p # "announcing",
           p \in {"revaluing", "discarding"} => /\ req[c].of \in Call
                                               /\ records[req[c].of].state = "live",
           req[c].op \in Writing => p \in {"revaluing", "discarding", "failed", "lost"},
           p \in {"revaluing", "discarding", "failed"} => pc[c] = "idle"
    PROVE  FeedInv'
<1>1. pc'[c] = p /\ (\A d \in Call \ {c} : pc'[d] = pc[d]) /\ UNCHANGED req
  BY DEF Moved
<1>2. RecordsShaped'
  <2>1. \A d \in Call : pc'[d] = "announcing" => hand'[d].val \in Value
    BY <1>1 DEF FeedInv, RecordsShaped
  <2>2. \A d \in Call : pc'[d] \in {"revaluing", "discarding"} => records'[req'[d].of].state # "absent"
    BY <1>1 DEF FeedInv, RecordsShaped
  <2> QED BY <1>1, <2>1, <2>2 DEF FeedInv, RecordsShaped
<1>3. ASSUME NEW r \in Call PROVE Told(r)'
  <2>1. Shown(r)' = Shown(r)
    BY DEF Shown
  <2>2. CASE req[c].op \notin Writing \/ RecordOf(c) # r \/ p = "failed"
    BY <2>1, <2>2, ToldStays DEF FeedInv
  <2>3. CASE req[c].op \in Writing /\ RecordOf(c) = r /\ p # "failed" /\ Clean(r)'
    <3>1. /\ Clean(r) /\ p # "lost" /\ Writers(r)' = Writers(r) \cup {c}
          /\ \A d \in Writers(r)' \ {c} : pc'[d] = "ok" /\ pc[d] = "ok"
      BY <2>3, WriterMoves DEF FeedInv
    <3>2. p \in {"revaluing", "discarding"}
      BY <2>3, <3>1
    <3>3. req[c].op # "record" /\ r = req[c].of
      BY <1>1, <2>3, <3>2 DEF RegistryPlaced, RecordOf
    <3>4. pc[c] # "announcing"
      BY <3>2
    <3>5. \A d \in Writers(r) : pc[d] # "announcing"
      BY <3>1, <3>4
    <3> QED BY <1>1, <2>1, <3>1, <3>2, <3>3, <3>5 DEF FeedInv, Told
  <2>4. CASE ~Clean(r)'
    BY <2>4 DEF Told
  <2> QED BY <2>2, <2>3, <2>4
<1> QED BY <1>2, <1>3 DEF FeedInv

LEMMA RegistryKeepsFeed ==
    ASSUME MetInv, FeedInv, NEW c \in Call, RegistryStep(c)
    PROVE  FeedInv'
<1>m. ASSUME NEW p \in {"announcing", "revaluing", "discarding", "saving", "ok", "failed", "lost"},
             Arrive(c, p) \/ (pc[c] \in RegistryPlace /\ Go(c, p))
      PROVE  p \in Place \ {"idle"} /\ Moved(c, p)
  <2>1. p \in Place \ {"idle"}
    BY DEF Place, Terminal
  <2>2. UNCHANGED req
    BY DEF RegistryStep, CreateRecord, FindRecord, NotFound, Revalue, Discard, Announce, ReadSettings,
           SaveSettings, Abandon, Write, ownVars
  <2>3. Arrive(c, p) \/ (pc[c] \notin Terminal \cup {"idle"} /\ Go(c, p))
    BY <1>m DEF RegistryPlace, Terminal
  <2> QED BY <2>1, <2>2, <2>3, StepMoves
<1>h. hand = [d \in Call |-> hand[d]]
  BY DEF FeedInv, RecordsShaped
<1>1. CASE CreateRecord(c)
  <2> DEFINE row == [state |-> "live", kind |-> req[c].kind, val |-> req[c].val]
  <2>1. req[c].op = "record" /\ Arrive(c, "announcing") /\ Write(c, row) /\ RecordOf(c) = c
    BY <1>1 DEF CreateRecord, RecordOf
  <2>2. row \in RecordRow /\ row.val \in Value /\ row.state = "live"
    BY <2>1, RegistryRequests DEF FeedInv, RegistryPlaced, RecordRow
  <2>3. req[c].op \in Writing /\ Moved(c, "announcing")
    BY <1>m, <2>1 DEF Writing
  <2> HIDE DEF row
  <2> QED BY <2>1, <2>2, <2>3, WriteKeepsFeed
<1>2. CASE Revalue(c) \/ Discard(c)
  <2> DEFINE s == req[c].of
             row == IF pc[c] = "revaluing" THEN [records[s] EXCEPT !.val = req[c].val]
                    ELSE [records[s] EXCEPT !.state = "deleted"]
  <2>1. /\ \/ pc[c] = "revaluing" /\ req[c].op = "revalue"
           \/ pc[c] = "discarding" /\ req[c].op = "discard"
        /\ Go(c, "announcing") /\ Write(c, row)
    BY <1>2 DEF Revalue, Discard, FeedInv, RegistryPlaced
  <2>2. s \in Call /\ RecordOf(c) = s /\ req[c].op \in Writing
    BY <2>1, RegistryRequests DEF FeedInv, RegistryPlaced, RecordOf, Writing
  <2>3. records[s] \in RecordRow /\ records[s].state # "absent" /\ records[s].val \in Value
    BY <2>1, <2>2 DEF FeedInv, RecordsShaped
  <2>4. req[c].op = "revalue" => req[c].val \in Value
    BY <2>1, RegistryRequests DEF FeedInv, RegistryPlaced
  <2>5. row \in RecordRow /\ row.val \in Value /\ row.state # "absent"
        /\ row.state = IF req[c].op = "revalue" THEN records[s].state ELSE "deleted"
    BY <2>1, <2>3, <2>4 DEF RecordRow
  <2>6. Clean(s) => records[s].state = "live"
    <3>1. c \in Writers(s)
      BY <2>1, <2>2 DEF Writers, Writing
    <3> QED BY <2>1, <2>2, <3>1 DEF FeedInv, Told
  <2>7. Clean(s) => row.state = IF req[c].op = "discard" THEN "deleted" ELSE "live"
    BY <2>1, <2>5, <2>6
  <2>8. Moved(c, "announcing")
    BY <1>m, <2>1 DEF RegistryPlace
  <2> HIDE DEF row, s
  <2> QED BY <2>1, <2>2, <2>5, <2>7, <2>8, WriteKeepsFeed
<1>3. CASE Announce(c)
  BY <1>3, <1>m, AnnounceKeepsFeed DEF Announce, RegistryPlace
<1>4. CASE FindRecord(c) \/ NotFound(c)
  <2>1. /\ req[c].op \in {"revalue", "discard"} /\ pc[c] = "idle"
        /\ UNCHANGED <<records, feed, hand>>
        /\ FindRecord(c) => records[req[c].of].state = "live"
    BY <1>4 DEF FindRecord, NotFound, Findable, Arrive, registryVars
  <2>2. req[c].of \in Call
    BY <2>1, RegistryRequests DEF FeedInv, RegistryPlaced
  <2>3. PICK p \in {"revaluing", "discarding", "failed"} :
          /\ Arrive(c, p)
          /\ p = "revaluing" => req[c].op = "revalue" /\ FindRecord(c)
          /\ p = "discarding" => req[c].op = "discard" /\ FindRecord(c)
    BY <1>4 DEF FindRecord, NotFound
  <2>4. p \in Place \ {"idle"} /\ Moved(c, p)
    BY <1>m, <2>3
  <2>5. RegistryPlaced'
    BY <2>3, <2>4, PlacedStays DEF FeedInv, Terminal
  <2> QED BY <1>h, <2>1, <2>2, <2>3, <2>4, <2>5, LookKeepsFeed
<1>5. CASE ReadSettings(c) \/ SaveSettings(c)
  <2>1. PICK p \in {"saving", "ok"} :
          /\ req[c].op = "settings"
          /\ Arrive(c, p) \/ (pc[c] \in RegistryPlace /\ Go(c, p))
    BY <1>5 DEF ReadSettings, SaveSettings, RegistryPlace, FeedInv, RegistryPlaced
  <2>2. p \in Place \ {"idle"} /\ Moved(c, p) /\ req[c].op \notin Writing
    BY <1>m, <2>1 DEF Writing
  <2>3. RegistryPlaced'
    BY <2>1, <2>2, PlacedStays DEF FeedInv, Terminal
  <2>4. UNCHANGED <<records, feed>> /\ hand' = [d \in Call |-> hand'[d]]
        /\ \A d \in Call \ {c} : hand'[d] = hand[d]
    BY <1>5, <1>h DEF ReadSettings, SaveSettings
  <2> QED BY <2>1, <2>2, <2>3, <2>4, LookKeepsFeed
<1>6. CASE Abandon(c)
  <2>1. Moved(c, "lost") /\ "lost" \in Place \ {"idle"} /\ UNCHANGED <<records, feed, hand>>
    BY <1>6, <1>m DEF Abandon, RegistryPlace, registryVars
  <2>2. RegistryPlaced'
    BY <2>1, PlacedStays DEF FeedInv, Terminal
  <2> QED BY <1>h, <2>1, <2>2, LookKeepsFeed
<1> QED BY <1>1, <1>2, <1>3, <1>4, <1>5, <1>6 DEF RegistryStep

LEMMA FeedInvInit == Init => FeedInv
<1> SUFFICES ASSUME Init PROVE FeedInv
  OBVIOUS
<1>1. /\ req \in Workload /\ records = [c \in Call |-> NoRecord] /\ feed = <<>>
      /\ hand = [c \in Call |-> <<>>] /\ \A c \in Call : pc[c] = "idle"
  BY DEF Init, Open, OpenRegistry
<1>2. RegistryPlaced
  BY <1>1 DEF RegistryPlaced
<1>3. RecordsShaped
  BY <1>1 DEF RecordsShaped, NoRecord, RecordRow, Kind
<1>4. ASSUME NEW r \in Call PROVE Told(r)
  <2>1. Shown(r) = {}
    BY <1>1 DEF Shown
  <2>2. Writers(r) = {} /\ records[r].state = "absent"
    BY <1>1 DEF Writers, NoRecord
  <2> QED BY <2>1, <2>2 DEF Told
<1> QED BY <1>2, <1>3, <1>4 DEF FeedInv

LEMMA FeedInvNext ==
    ASSUME MetInv, FeedInv, [Next]_vars
    PROVE  FeedInv'
<1>1. ASSUME UNCHANGED <<req, pc, met, registryVars>> PROVE FeedInv'
  <2>1. RegistryPlaced' /\ RecordsShaped'
    BY <1>1 DEF FeedInv, RegistryPlaced, RecordsShaped, registryVars
  <2>2. ASSUME NEW r \in Call PROVE Told(r)'
    <3>1. Shown(r)' = Shown(r) /\ Writers(r)' = Writers(r)
      BY <1>1 DEF Shown, Writers, RecordOf, registryVars
    <3> QED BY <1>1, <3>1 DEF FeedInv, Told, Clean, registryVars
  <2> QED BY <2>1, <2>2 DEF FeedInv
<1> QED BY <1>1, OthersAreForeign, ForeignKeepsFeed, RegistryKeepsFeed

\* A record keeps its shape, and one whose writers never met is what was
\* announced of it, but for the write whose announcement is still to come.
THEOREM Spec_FeedInv == Spec => []FeedInv
<1>1. Init => FeedInv
  BY FeedInvInit
<1>2. NameInv => MetInv
  BY DEF NameInv
<1>3. MetInv /\ FeedInv /\ [Next]_vars => FeedInv'
  BY FeedInvNext
<1> QED BY <1>1, <1>2, <1>3, Spec_NameInv, PTL DEF Spec

\* A browser that follows the events shows every asset and liability as the
\* table has it: the event is emitted after the write, with the row that came
\* back, so only calls that overlap on one record, or one cut off between the
\* two, can leave it behind.
THEOREM Spec_FeedIsTable == Spec => []FeedIsTable
<1>1. FeedInv => FeedIsTable
  BY DEF FeedInv, FeedIsTable, Told, Clean
<1> QED BY <1>1, Spec_FeedInv, PTL

-----------------------------------------------------------------------------
(* The settings and their audit log. *)

SettingsRow == [Column -> Choice]
TrailEntry == [by: Call, before: SettingsRow, after: SettingsRow]

\* The settings after the first m entries.
After(m) == IF m = 0 THEN Standard ELSE trail[m].after

\* What is in row was read before call c met those who wrote entries m + 1 to n.
ReadBefore(c, row, n) ==
    \E m \in 0..n : /\ \A k \in m + 1..n : trail[k].by \in met[c]
                    /\ row = After(m)

\* The last who set column k asked for what it holds.
Set(k) == {n \in DOMAIN trail : k \in DOMAIN req[trail[n].by].set}
LastSet(k) == Set(k) # {} => settings[k] = req[trail[Max(Set(k))].by].set[k]

TrailInv ==
    /\ settings \in SettingsRow
    /\ trail \in Seq(TrailEntry)
    /\ settings = After(Len(trail))
    /\ \A k \in Column : LastSet(k)
    /\ \A n \in 1..Len(trail) : ReadBefore(trail[n].by, trail[n].before, n - 1)
    /\ \A c \in Call : pc[c] = "saving" => ReadBefore(c, hand[c], Len(trail))

LEMMA TrailTells ==
    ASSUME TrailInv
    PROVE  ChangesStand
<1>1. Len(trail) \in Nat /\ DOMAIN trail = 1..Len(trail)
  BY DEF TrailInv
<1>2. ASSUME NEW k \in Column
      PROVE  LET those == {n \in DOMAIN trail : k \in DOMAIN req[trail[n].by].set}
             IN  those # {} => settings[k] = req[trail[Max(those)].by].set[k]
  BY DEF TrailInv, LastSet, Set
<1>3. trail # <<>> => trail[Len(trail)].after = settings
  <2>1. trail # <<>> => Len(trail) # 0
    BY DEF TrailInv
  <2> QED BY <2>1 DEF TrailInv, After
<1>4. \A n \in DOMAIN trail : \E m \in 0..n - 1 :
          /\ \A k \in m + 1..n - 1 : trail[k].by \in met[trail[n].by]
          /\ trail[n].before = IF m = 0 THEN Standard ELSE trail[m].after
  BY <1>1 DEF TrailInv, ReadBefore, After
<1> QED BY <1>2, <1>3, <1>4 DEF ChangesStand

\* A step that does not touch the settings.
LEMMA TrailStays ==
    ASSUME TrailInv, UNCHANGED <<settings, trail, req>>,
           \A d \in Call : met[d] \subseteq met'[d],
           \A d \in Call : pc'[d] = "saving" =>
               \/ pc[d] = "saving" /\ hand'[d] = hand[d]
               \/ hand'[d] = settings
    PROVE  TrailInv'
<1>0. /\ Len(trail) \in Nat /\ DOMAIN trail = 1..Len(trail)
      /\ \A n \in 1..Len(trail) : trail[n].by \in Call
  <2>1. \A e \in TrailEntry : e.by \in Call
    BY DEF TrailEntry
  <2>2. trail \in Seq(TrailEntry)
    BY DEF TrailInv
  <2> QED BY <2>1, <2>2
<1>1. \A m : After(m)' = After(m)
  BY DEF After
<1>2. \A k : Set(k)' = Set(k)
  BY DEF Set
<1>3. trail' = trail /\ \A c \in Call : met[c] \subseteq met'[c]
  OBVIOUS
<1>4. ASSUME NEW c \in Call, pc'[c] = "saving" PROVE (ReadBefore(c, hand[c], Len(trail)))'
  <2>1. CASE pc[c] = "saving" /\ hand'[c] = hand[c]
    <3>1. PICK m \in 0..Len(trail) : /\ \A k \in m + 1..Len(trail) : trail[k].by \in met[c]
                                    /\ hand[c] = After(m)
      BY <2>1 DEF TrailInv, ReadBefore
    <3>2. \A k \in m + 1..Len(trail) : trail[k].by \in met'[c]
      BY <1>3, <3>1
    <3>3. hand'[c] = After(m)'
      BY <1>1, <2>1, <3>1
    <3> QED BY <1>3, <3>2, <3>3 DEF ReadBefore
  <2>2. CASE hand'[c] = settings
    <3>1. hand'[c] = After(Len(trail))' /\ Len(trail) \in 0..Len(trail)
          /\ \A k \in Len(trail) + 1..Len(trail) : FALSE
      BY <1>0, <1>1, <2>2 DEF TrailInv
    <3> QED BY <3>1 DEF ReadBefore
  <2> QED BY <1>4, <2>1, <2>2
<1>5. ASSUME NEW n \in 1..Len(trail) PROVE (ReadBefore(trail[n].by, trail[n].before, n - 1))'
  <2>1. trail[n].by \in Call
    BY <1>0
  <2>2. PICK m \in 0..n - 1 : /\ \A k \in m + 1..n - 1 : trail[k].by \in met[trail[n].by]
                              /\ trail[n].before = After(m)
    BY DEF TrailInv, ReadBefore
  <2>3. \A k \in m + 1..n - 1 : trail[k].by \in met'[trail[n].by]
    BY <1>3, <2>1, <2>2
  <2>4. trail[n].before = After(m)'
    BY <1>1, <2>2
  <2> QED BY <1>3, <2>3, <2>4 DEF ReadBefore
<1>6. \A k \in Column : LastSet(k)'
  BY <1>2 DEF LastSet, TrailInv
<1>7. (settings = After(Len(trail)))'
  BY <1>1 DEF TrailInv
<1> QED BY <1>4, <1>5, <1>6, <1>7 DEF TrailInv

\* Settings saved by call c.
LEMMA SavedSettings ==
    ASSUME MetInv, RegistryPlaced, TrailInv, NEW c \in Call, SaveSettings(c)
    PROVE  TrailInv'
<1> DEFINE n == Len(trail)
           e == [by |-> c, before |-> hand[c], after |-> Merged(c)]
<1>z. PICK z : z = n + 1
  OBVIOUS
<1>0. pc[c] = "saving" /\ req[c].op = "settings" /\ UNCHANGED <<req, met, hand>>
      /\ trail' = Append(trail, e) /\ settings' = Merged(c)
      /\ pc' = [pc EXCEPT ![c] = "ok"]
  BY DEF SaveSettings, Go, RegistryPlaced, ownVars
<1>1. Merged(c) \in SettingsRow
  <2>1. \A k \in DOMAIN req[c].set : req[c].set[k] \in Choice
    BY <1>0, RegistryRequests DEF RegistryPlaced
  <2> QED BY <2>1 DEF Merged, SettingsRow, TrailInv
<1>2. PICK m \in 0..n : /\ \A k \in m + 1..n : trail[k].by \in met[c]
                        /\ hand[c] = After(m)
  BY <1>0 DEF TrailInv, ReadBefore
<1>3. /\ n \in Nat /\ DOMAIN trail = 1..n
      /\ \A i \in 1..n : trail[i] \in TrailEntry
  BY DEF TrailInv
<1>4. hand[c] \in SettingsRow
  <2>1. CASE m = 0
    BY <1>2, <2>1, RegistryAssumption DEF After, SettingsRow
  <2>2. CASE m # 0
    <3>1. trail[m] \in TrailEntry
      BY <1>2, <1>3, <2>2
    <3> QED BY <1>2, <2>2, <3>1 DEF After, TrailEntry
  <2> QED BY <2>1, <2>2
<1>5. e \in TrailEntry
  BY <1>1, <1>4 DEF TrailEntry
<1>6. /\ trail' \in Seq(TrailEntry) /\ Len(trail') = n + 1 /\ DOMAIN trail' = 1..n + 1
      /\ trail'[n + 1] = e /\ \A i \in 1..n : trail'[i] = trail[i] /\ i # n + 1
  <2>1. trail \in Seq(TrailEntry)
    BY DEF TrailInv
  <2> HIDE DEF e
  <2> QED BY <1>0, <1>3, <1>5, <2>1
<1>7. /\ \A i \in 0..n : After(i)' = After(i)
      /\ After(z)' = Merged(c)
  <2>1. ASSUME NEW i \in 0..n PROVE After(i)' = After(i)
    <3>1. i # 0 => trail'[i] = trail[i]
      BY <1>3, <1>6
    <3> QED BY <3>1 DEF After
  <2>2. trail'[z].after = Merged(c) /\ z # 0
    BY <1>3, <1>6, <1>z
  <2> QED BY <2>1, <2>2 DEF After
<1>8. (settings = After(Len(trail)))'
  <2>1. After(z)' = settings'
    BY <1>0, <1>7
  <2>2. Len(trail') = z
    BY <1>6, <1>z
  <2> QED BY ONLY <2>1, <2>2 DEF After
<1>9. ASSUME NEW k \in Column PROVE LastSet(k)'
  <2>1. Set(k) \subseteq 1..n /\ Set(k)' \subseteq 1..n + 1
    BY <1>3, <1>6 DEF Set
  <2>2. settings'[k] = IF k \in DOMAIN req[c].set THEN req[c].set[k] ELSE settings[k]
    BY <1>0 DEF Merged
  <2>3. CASE k \in DOMAIN req[c].set
    <3>1. n + 1 \in Set(k)'
      BY <1>0, <1>3, <1>6, <2>3 DEF Set
    <3>2. Max(Set(k)') = n + 1
      <4> DEFINE J == Set(k)'
                 l == n + 1
      <4>1. n \in Nat /\ l = n + 1 /\ J \subseteq 1..l /\ l \in J
        BY <1>3, <2>1, <3>1
      <4> HIDE DEF J, l, n
      <4>2. \A S : S \subseteq 1..l /\ l \in S => Max(S) = l
        BY ONLY <4>1, LastAppended
      <4> QED BY ONLY <4>1, <4>2 DEF J, l
    <3> QED BY <1>0, <1>6, <2>2, <2>3, <3>2 DEF LastSet
  <2>4. CASE k \notin DOMAIN req[c].set
    <3>1. Set(k)' = Set(k)
      BY <1>0, <1>3, <1>6, <2>4 DEF Set
    <3>2. Set(k) # {} => Max(Set(k)) \in 1..n
      <4>1. n \in Nat
        BY <1>3
      <4> HIDE DEF n
      <4> QED BY ONLY <2>1, <4>1, MaxIn
    <3>3. LastSet(k)
      BY DEF TrailInv
    <3>4. Set(k) # {} => trail'[Max(Set(k))] = trail[Max(Set(k))]
      BY <1>6, <3>2
    <3> QED BY <1>0, <2>2, <2>4, <3>1, <3>3, <3>4 DEF LastSet
  <2> QED BY <2>3, <2>4
<1>10. ASSUME NEW i \in 1..n + 1 PROVE (ReadBefore(trail[i].by, trail[i].before, i - 1))'
  <2>1. CASE i = n + 1
    <3>1. /\ m \in 0..i - 1
          /\ \A k \in m + 1..i - 1 : trail'[k].by \in met[c]
          /\ hand[c] = After(m)'
      BY <1>2, <1>3, <1>6, <1>7, <2>1
    <3>2. trail'[i].by = c /\ trail'[i].before = hand[c] /\ met' = met
      BY <1>0, <1>6, <2>1
    <3> QED BY <3>1, <3>2 DEF ReadBefore
  <2>2. CASE i \in 1..n
    <3>1. PICK l \in 0..i - 1 : /\ \A k \in l + 1..i - 1 : trail[k].by \in met[trail[i].by]
                                /\ trail[i].before = After(l)
      BY <2>2 DEF TrailInv, ReadBefore
    <3>2. /\ \A k \in l + 1..i - 1 : trail'[k].by \in met[trail[i].by]
          /\ trail[i].before = After(l)'
      BY <1>3, <1>6, <1>7, <2>2, <3>1
    <3>3. trail'[i] = trail[i] /\ met' = met
      BY <1>0, <1>6, <2>2
    <3> QED BY <3>2, <3>3 DEF ReadBefore
  <2> QED BY <1>3, <2>1, <2>2
<1>11. ASSUME NEW d \in Call, pc'[d] = "saving" PROVE (ReadBefore(d, hand[d], Len(trail)))'
  <2>1. pc[d] = "saving" /\ d # c
    BY <1>0, <1>11 DEF MetInv
  <2>2. c \in met[d]
    BY <1>0, <2>1 DEF MetInv, Running, Terminal
  <2>3. PICK l \in 0..n : /\ \A k \in l + 1..n : trail[k].by \in met[d]
                          /\ hand[d] = After(l)
    BY <2>1 DEF TrailInv, ReadBefore
  <2>4. /\ l \in 0..n + 1
        /\ \A k \in l + 1..n + 1 : trail'[k].by \in met[d]
        /\ hand[d] = After(l)'
    BY <1>3, <1>6, <1>7, <2>2, <2>3
  <2> QED BY <1>0, <1>6, <2>4 DEF ReadBefore
<1>12. (\A i \in 1..Len(trail) : ReadBefore(trail[i].by, trail[i].before, i - 1))'
  BY <1>6, <1>10
<1> QED BY <1>0, <1>1, <1>6, <1>8, <1>9, <1>11, <1>12 DEF TrailInv

LEMMA TrailInvNext ==
    ASSUME MetInv, FeedInv, TrailInv, [Next]_vars
    PROVE  TrailInv'
<1>1. ASSUME UNCHANGED <<req, pc, met, registryVars>> PROVE TrailInv'
  BY <1>1, TrailStays DEF registryVars
<1>2. ASSUME NEW c \in Call, NEW p, Moved(c, p), UNCHANGED <<settings, trail>>,
             \A d \in Call \ {c} : hand'[d] = hand[d],
             p = "saving" => hand'[c] = settings
      PROVE  TrailInv'
  <2>1. /\ \A d \in Call : met[d] \subseteq met'[d]
        /\ UNCHANGED req
        /\ pc'[c] = p
        /\ \A d \in Call \ {c} : pc'[d] = pc[d]
    BY <1>2 DEF Moved
  <2> QED BY <1>2, <2>1, TrailStays
<1>3. ASSUME NEW c \in Call, Foreign(c) PROVE TrailInv'
  <2>1. UNCHANGED <<settings, trail, hand>>
    BY <1>3 DEF Foreign, registryVars
  <2>2. PICK p \in Place \ (RegistryPlace \cup {"idle"}) : Moved(c, p)
    BY <1>3, ForeignMoves
  <2> QED BY <1>2, <2>1, <2>2 DEF RegistryPlace
<1>4. ASSUME NEW c \in Call, RegistryStep(c), ~SaveSettings(c) PROVE TrailInv'
  <2>1. UNCHANGED <<settings, trail>> /\ \A d \in Call \ {c} : hand'[d] = hand[d]
    <3>1. hand = [d \in Call |-> hand[d]]
      BY DEF FeedInv, RecordsShaped
    <3> QED BY <1>4, <3>1 DEF RegistryStep, CreateRecord, FindRecord, NotFound, Revalue, Discard,
               Announce, ReadSettings, Abandon, Write, registryVars
  <2>2. PICK p \in Place \ {"idle"} : Moved(c, p)
    BY <1>4, RecordStepMoves
  <2>3. p = "saving" => hand'[c] = settings
    <3>1. CASE ReadSettings(c)
      BY <3>1 DEF ReadSettings, FeedInv, RecordsShaped
    <3>2. CASE ~ReadSettings(c)
      <4>1. pc'[c] # "saving"
        BY <1>4, <3>2 DEF RegistryStep, CreateRecord, FindRecord, NotFound, Revalue, Discard,
               Announce, Abandon, Arrive, Go, MetInv
      <4> QED BY <2>2, <4>1 DEF Moved
    <3> QED BY <3>1, <3>2
  <2> QED BY <1>2, <2>1, <2>2, <2>3
<1> QED BY <1>1, <1>3, <1>4, OthersAreForeign, SavedSettings DEF FeedInv

LEMMA TrailInvInit == Init => TrailInv
<1> SUFFICES ASSUME Init PROVE TrailInv
  OBVIOUS
<1>1. settings = Standard /\ trail = <<>> /\ \A c \in Call : pc[c] = "idle"
  BY DEF Init, Open, OpenRegistry
<1>2. Len(trail) = 0 /\ DOMAIN trail = {} /\ trail \in Seq(TrailEntry)
  BY <1>1
<1>3. \A k : Set(k) = {}
  BY <1>2 DEF Set
<1> QED BY <1>1, <1>2, <1>3, RegistryAssumption DEF TrailInv, SettingsRow, After, LastSet

\* Whoever saves settings has read them after the changes of all but the calls
\* it met.
THEOREM Spec_TrailInv == Spec => []TrailInv
<1>1. Init => TrailInv
  BY TrailInvInit
<1>2. NameInv => MetInv
  BY DEF NameInv
<1>3. MetInv /\ FeedInv /\ TrailInv /\ [Next]_vars => TrailInv'
  BY TrailInvNext
<1> QED BY <1>1, <1>2, <1>3, Spec_NameInv, Spec_FeedInv, PTL DEF Spec

\* No change of the settings is lost: only the columns that were given are
\* written, so each holds what the last of those who set it asked for, and the
\* audit log says how it came about, whoever overlapped.
THEOREM Spec_ChangesStand == Spec => []ChangesStand
<1>1. TrailInv => ChangesStand
  BY TrailTells
<1> QED BY <1>1, Spec_TrailInv, PTL

-----------------------------------------------------------------------------
(* The bot: what its calls know, and what they book. *)

BotPlace == {"user", "account", "report", "last", "posting", "reading back", "cancelling",
             "voiding"}
Text == Command \cup Entry
Sent == [from: Phone, text: Text]

\* Where a webhook is, and what it has found there.
BotAt(c) ==
    /\ pc[c] = "idle" => mem[c].k = 1
    /\ pc[c] \in BotPlace =>
        /\ req[c].op = "deliver" /\ mem[c].k \in 1..Len(req[c].batch)
        /\ pc[c] # "user" => mem[c].user = UserOf[Message(c).from] /\ mem[c].user # NoUser
        /\ pc[c] = "account" =>
               Intent(Message(c).text) \notin {"bantuan", "other", "laporan", "batal"}
        /\ pc[c] = "posting" => /\ Intent(Message(c).text) \in {"masuk", "keluar"}
                                /\ mem[c].acc \in DOMAIN accounts
        /\ pc[c] \in {"reading back", "cancelling", "voiding"} => mem[c].row \in DOMAIN rows

\* Rows are in the order of their times, and none is of the future.
RowsTimed ==
    /\ \A i, j \in DOMAIN rows : i <= j => rows[i].at <= rows[j].at
    /\ \A i \in DOMAIN rows : rows[i].at <= clock

\* What its senders were told of is in the book.
RowsTold ==
    /\ \A r \in replies : r.what = "booked" => r.row \in DOMAIN rows
    /\ \A c \in Call : mem[c].heard \subseteq DOMAIN rows

\* A row of the bot has the amount of its message.
RowsSent ==
    \A i \in DOMAIN rows :
        /\ rows[i].acc \in DOMAIN accounts
        /\ rows[i].k > 0 => LET q == req[rows[i].call]
                            IN /\ q.op = "deliver" /\ rows[i].k \in 1..Len(q.batch)
                               /\ q.batch[rows[i].k].text \in Entry
                               /\ rows[i].amt = ParseNominal(q.batch[rows[i].k].text)

\* BATAL has gone past nothing its sender was told of.
Reaches(c) ==
    pc[c] \in {"cancelling", "voiding"} =>
        \A i \in mem[c].heard \cap Confirmed :
            rows[i].by = mem[c].user => i <= mem[c].row

BookShaped ==
    /\ req \in Workload
    /\ accounts \in Seq(Account)
    /\ rows \in Seq(Row)
    /\ clock \in 0..MaxClock
    /\ \A c \in Call : pc[c] = "booking" => req[c].op = "enter" /\ req[c].acc \in DOMAIN accounts

BotInv ==
    /\ BookShaped /\ BotType
    /\ RowsTimed /\ RowsTold /\ RowsSent
    /\ \A c \in Call : BotAt(c) /\ Reaches(c)

LEMMA DeskRequests ==
    ASSUME req \in Workload, NEW c \in Call
    PROVE  /\ req[c].op = "deliver" => req[c].of \in Call /\ req[c].batch \in Seq(Sent) \ {<<>>}
           /\ req[c].op = "enter" => req[c] \in EnterRequest
           /\ req[c].op = "account" => req[c].kind \in AccountType /\ req[c].ccy \in Currency
<1>1. req[c] \in Request
  BY DeskAssumption
<1>2. req[c].op = "deliver" => req[c] \in Webhook
  BY <1>1 DEF Request, AccountRequest, Webhook, NameRequest, RemoveRequest, EnterRequest,
     ExportRequest, RecordRequest, RevalueRequest, DiscardRequest, SettingsRequest, NoRequest
<1>3. req[c].op = "enter" => req[c] \in EnterRequest
  BY <1>1 DEF Request, AccountRequest, Webhook, NameRequest, RemoveRequest, EnterRequest,
     ExportRequest, RecordRequest, RevalueRequest, DiscardRequest, SettingsRequest, NoRequest
<1>4. req[c].op = "account" => req[c] \in AccountRequest
  BY <1>1 DEF Request, AccountRequest, Webhook, NameRequest, RemoveRequest, EnterRequest,
     ExportRequest, RecordRequest, RevalueRequest, DiscardRequest, SettingsRequest, NoRequest
<1> QED BY <1>2, <1>3, <1>4 DEF Webhook, AccountRequest, Sent, Text

LEMMA Commands ==
    ASSUME NEW t \in Text
    PROVE  /\ IsCommand(t) <=> t \in Command
           /\ ~IsCommand(t) => t \in Entry
           /\ Intent(t) \in {"masuk", "keluar", "saldo", "batal", "bantuan", "laporan", "other"}
           /\ Intent(t) \in {"masuk", "keluar"} => t \in Entry
<1>1. t \in Command => /\ IsCommand(t)
                       /\ t.word \in {"saldo", "batal", "bantuan", "help", "laporan", "other"}
  BY DEF Command, IsCommand
<1>2. t \in Entry => ~IsCommand(t) /\ t.verb \in {"masuk", "keluar"}
  BY DEF Entry, IsCommand
<1>3. t \in Command \/ t \in Entry
  BY DEF Text
<1> QED BY <1>1, <1>2, <1>3 DEF Intent

LEMMA Amounts ==
    ASSUME NEW t \in Entry
    PROVE  ParseNominal(t) \in Nat
<1>1. /\ t.lead \in Nat /\ t.tail \in Nat /\ t.digits \in 0..3
      /\ t.glued \in BOOLEAN /\ t.unit \in {"none", "rb", "jt"}
  BY DEF Entry
<1>2. (100 * t.tail) \div Tens[t.digits] \in Nat
  <2>1. 100 * t.tail \in Nat
    BY <1>1
  <2>2. Tens[t.digits] \in {1, 10, 100, 1000}
    BY <1>1 DEF Tens
  <2>3. \A m \in Nat : m \div 1 \in Nat /\ m \div 10 \in Nat /\ m \div 100 \in Nat /\ m \div 1000 \in Nat
    OBVIOUS
  <2> QED BY <2>1, <2>2, <2>3
<1>3. Number(t) \in Nat
  <2>1. 100 * t.lead \in Nat /\ 100 * (1000 * t.lead + t.tail) \in Nat
    BY <1>1
  <2> QED BY <1>2, <2>1 DEF Number
<1>4. Factor(t.unit) \in Nat
  BY DEF Factor
<1>5. \A m, n \in Nat : m * n \in Nat
  OBVIOUS
<1> QED BY <1>3, <1>4, <1>5 DEF ParseNominal

-----------------------------------------------------------------------------
(* What a step does to the book. *)

\* Rows are added and voided, and otherwise stay as they are.
RowsGrow ==
    /\ rows' \in Seq(Row)
    /\ DOMAIN rows \subseteq DOMAIN rows'
    /\ \A i \in DOMAIN rows :
         /\ rows'[i].by = rows[i].by /\ rows'[i].acc = rows[i].acc /\ rows'[i].at = rows[i].at
         /\ rows'[i].type = rows[i].type /\ rows'[i].amt = rows[i].amt
         /\ rows'[i].k = rows[i].k /\ rows'[i].call = rows[i].call
         /\ rows'[i].status = rows[i].status \/ rows'[i].status = "VOID"

LEMMA RowsAreSeq ==
    ASSUME BookShaped
    PROVE  /\ Len(rows) \in Nat /\ DOMAIN rows = 1..Len(rows)
           /\ \A i \in DOMAIN rows : rows[i] \in Row
           /\ Len(accounts) \in Nat /\ DOMAIN accounts = 1..Len(accounts)
           /\ \A a \in DOMAIN accounts : accounts[a] \in Account
BY DEF BookShaped

LEMMA Effects ==
    ASSUME NEW r \in Row
    PROVE  Effect(r) \in Int
BY DEF Row, Effect

\* Account a gets balance x.
Rebalanced(s, a, x) == [s EXCEPT ![a] = [s[a] EXCEPT !.balance = x]]

LEMMA Balanced ==
    ASSUME NEW s \in Seq(Account), NEW a, NEW x \in Int
    PROVE  /\ Rebalanced(s, a, x) \in Seq(Account) /\ DOMAIN Rebalanced(s, a, x) = DOMAIN s
           /\ \A b \in DOMAIN s : /\ Rebalanced(s, a, x)[b].ccy = s[b].ccy
                                  /\ Rebalanced(s, a, x)[b].balance = IF b = a THEN x ELSE s[b].balance
<1> DEFINE v == [s[a] EXCEPT !.balance = x]
           t == Rebalanced(s, a, x)
<1>1. ASSUME NEW u \in Account
      PROVE  /\ [u EXCEPT !.balance = x] \in Account
             /\ [u EXCEPT !.balance = x].ccy = u.ccy /\ [u EXCEPT !.balance = x].balance = x
  BY <1>1 DEF Account
<1>2. a \in DOMAIN s => s[a] \in Account
  OBVIOUS
<1>3. a \in DOMAIN s => v \in Account /\ v.ccy = s[a].ccy /\ v.balance = x
  BY <1>1, <1>2
<1> HIDE DEF v
<1>4. t = [s EXCEPT ![a] = v]
  BY DEF v, Rebalanced
<1>5. /\ t \in Seq(Account) /\ DOMAIN t = DOMAIN s
      /\ \A b \in DOMAIN s : t[b] = IF b = a THEN v ELSE s[b]
  BY <1>3, <1>4, UpdatedSeq
<1> HIDE DEF t
<1>6. /\ t \in Seq(Account) /\ DOMAIN t = DOMAIN s
      /\ \A b \in DOMAIN s : t[b].ccy = s[b].ccy /\ t[b].balance = IF b = a THEN x ELSE s[b].balance
  BY <1>3, <1>5
<1> QED BY <1>6 DEF t

LEMMA PostBook ==
    ASSUME BookShaped, NEW r \in Row, r.acc \in DOMAIN accounts, Post(r)
    PROVE  /\ RowsGrow
           /\ Len(rows') = Len(rows) + 1 /\ DOMAIN rows' = 1..Len(rows) + 1
           /\ rows'[Len(rows) + 1] = r
           /\ \A i \in DOMAIN rows : rows'[i] = rows[i]
           /\ accounts' \in Seq(Account) /\ DOMAIN accounts' = DOMAIN accounts
           /\ \A b \in DOMAIN accounts :
                /\ accounts'[b].ccy = accounts[b].ccy
                /\ accounts'[b].balance = IF b = r.acc THEN accounts[b].balance + Effect(r)
                                          ELSE accounts[b].balance
<1>1. /\ rows' \in Seq(Row) /\ Len(rows') = Len(rows) + 1 /\ DOMAIN rows' = 1..Len(rows) + 1
      /\ rows'[Len(rows) + 1] = r /\ DOMAIN rows = 1..Len(rows) /\ Len(rows) \in Nat
      /\ \A i \in DOMAIN rows : rows'[i] = rows[i]
  BY DEF Post, BookShaped
<1>2. RowsGrow
  BY <1>1 DEF RowsGrow
<1> DEFINE x == accounts[r.acc].balance + Effect(r)
<1>3. x \in Int
  <2>1. accounts[r.acc] \in Account
    BY RowsAreSeq
  <2> QED BY <2>1, Effects DEF Account
<1>4. accounts' = Rebalanced(accounts, r.acc, x)
  BY DEF Post, Rebalanced
<1>5. accounts \in Seq(Account)
  BY DEF BookShaped
<1> HIDE DEF x
<1>6. /\ accounts' \in Seq(Account) /\ DOMAIN accounts' = DOMAIN accounts
      /\ \A b \in DOMAIN accounts :
           /\ accounts'[b].ccy = accounts[b].ccy
           /\ accounts'[b].balance = IF b = r.acc THEN x ELSE accounts[b].balance
  BY ONLY <1>3, <1>4, <1>5, Balanced
<1> QED BY <1>1, <1>2, <1>6 DEF x

LEMMA ReverseBook ==
    ASSUME BookShaped, NEW i \in DOMAIN rows, Reverse(i)
    PROVE  /\ RowsGrow
           /\ DOMAIN rows' = DOMAIN rows
           /\ \A j \in DOMAIN rows \ {i} : rows'[j] = rows[j]
           /\ rows'[i].status = "VOID"
           /\ accounts' \in Seq(Account) /\ DOMAIN accounts' = DOMAIN accounts
           /\ \A b \in DOMAIN accounts :
                /\ accounts'[b].ccy = accounts[b].ccy
                /\ rows[i].acc \in DOMAIN accounts =>
                    accounts'[b].balance = IF b = rows[i].acc THEN accounts[b].balance - Effect(rows[i])
                                           ELSE accounts[b].balance
<1>1. /\ Len(rows) \in Nat /\ rows \in Seq(Row) /\ rows[i] \in Row
  BY RowsAreSeq DEF BookShaped
<1> DEFINE v == [rows[i] EXCEPT !.status = "VOID"]
<1>2. ASSUME NEW r \in Row
      PROVE  LET u == [r EXCEPT !.status = "VOID"]
             IN  /\ u \in Row /\ u.status = "VOID" /\ u.by = r.by /\ u.acc = r.acc /\ u.at = r.at
                 /\ u.type = r.type /\ u.amt = r.amt /\ u.k = r.k /\ u.call = r.call
  BY <1>2 DEF Row
<1>3. /\ v \in Row /\ v.status = "VOID" /\ v.by = rows[i].by /\ v.acc = rows[i].acc
      /\ v.at = rows[i].at /\ v.type = rows[i].type /\ v.amt = rows[i].amt
      /\ v.k = rows[i].k /\ v.call = rows[i].call
  BY <1>1, <1>2
<1>4. rows' = [rows EXCEPT ![i] = v]
  BY DEF Reverse
<1> HIDE DEF v
<1>5. /\ rows' \in Seq(Row) /\ DOMAIN rows' = DOMAIN rows
      /\ \A j \in DOMAIN rows : rows'[j] = IF j = i THEN v ELSE rows[j]
  BY <1>1, <1>3, <1>4, UpdatedSeq
<1>6. RowsGrow
  BY <1>3, <1>5 DEF RowsGrow
<1> DEFINE a == rows[i].acc
           x == accounts[a].balance - Effect(rows[i])
<1>7. accounts' = Rebalanced(accounts, a, x) /\ accounts \in Seq(Account)
  BY DEF Reverse, Rebalanced, BookShaped
<1>8. CASE a \in DOMAIN accounts
  <2>1. x \in Int
    <3>1. accounts[a] \in Account /\ Effect(rows[i]) \in Int
      BY <1>1, <1>8, RowsAreSeq, Effects
    <3> QED BY <3>1 DEF Account
  <2> HIDE DEF x, a
  <2>2. /\ accounts' \in Seq(Account) /\ DOMAIN accounts' = DOMAIN accounts
        /\ \A b \in DOMAIN accounts :
             /\ accounts'[b].ccy = accounts[b].ccy
             /\ accounts'[b].balance = IF b = a THEN x ELSE accounts[b].balance
    BY ONLY <1>7, <2>1, Balanced
  <2> QED BY <1>3, <1>5, <1>6, <2>2 DEF x, a
<1>9. CASE a \notin DOMAIN accounts
  <2>1. accounts' = accounts
    BY <1>7, <1>9 DEF Rebalanced
  <2> QED BY <1>3, <1>5, <1>6, <1>7, <1>9, <2>1
<1> QED BY <1>8, <1>9

\* A step of call c leaves the others where they are and know what they knew.
LEMMA OthersKeepPlace ==
    ASSUME BotInv, NEW c, UNCHANGED req, RowsGrow, DOMAIN accounts \subseteq DOMAIN accounts',
           NEW d \in Call, pc'[d] = pc[d], mem'[d] = mem[d]
    PROVE  BotAt(d)' /\ Reaches(d)'
<1>1. BotAt(d)'
  <2>1. Message(d)' = Message(d)
    BY DEF Message
  <2> QED BY <2>1 DEF BotInv, BotAt, RowsGrow
<1>2. Reaches(d)'
  <2> SUFFICES ASSUME pc[d] \in {"cancelling", "voiding"}, NEW i \in mem[d].heard \cap Confirmed',
                      rows'[i].by = mem[d].user
               PROVE  i <= mem[d].row
    BY DEF Reaches
  <2>1. i \in DOMAIN rows
    BY DEF BotInv, RowsTold
  <2>2. i \in Confirmed /\ rows[i].by = mem[d].user
    BY <2>1 DEF RowsGrow, Confirmed
  <2> QED BY <2>2 DEF BotInv, Reaches
<1> QED BY <1>1, <1>2

LEMMA RowIndices ==
    ASSUME BookShaped, NEW i \in DOMAIN rows
    PROVE  i \in Nat
<1>1. i \in 1..Len(rows) /\ Len(rows) \in Nat
  BY RowsAreSeq
<1> QED BY ONLY <1>1

LEMMA NoNewRow ==
    ASSUME BotInv, UNCHANGED req, RowsGrow, DOMAIN rows' = DOMAIN rows,
           DOMAIN accounts \subseteq DOMAIN accounts', clock' \in 0..MaxClock, clock <= clock'
    PROVE  RowsTimed' /\ RowsSent'
<1>1. RowsTimed'
  <2>1. \A i \in DOMAIN rows : rows[i].at \in Int
    BY RowsAreSeq DEF BotInv, Row
  <2>2. clock \in Int /\ clock' \in Int
    BY DEF BotInv, BookShaped
  <2> QED BY <2>1, <2>2 DEF RowsTimed, BotInv, RowsGrow
<1>2. RowsSent'
  BY DEF RowsSent, BotInv, RowsGrow
<1> QED BY <1>1, <1>2

LEMMA NewRow ==
    ASSUME BotInv, UNCHANGED <<req, clock>>, NEW r \in Row, r.acc \in DOMAIN accounts, Post(r),
           r.at = clock,
           r.k > 0 => /\ req[r.call].op = "deliver" /\ r.k \in 1..Len(req[r.call].batch)
                      /\ req[r.call].batch[r.k].text \in Entry
                      /\ r.amt = ParseNominal(req[r.call].batch[r.k].text)
    PROVE  RowsTimed' /\ RowsSent'
<1> DEFINE n == Len(rows) + 1
<1>1. /\ DOMAIN rows = 1..Len(rows) /\ Len(rows) \in Nat
      /\ DOMAIN rows' = 1..n /\ rows'[n] = r
      /\ \A i \in DOMAIN rows : rows'[i] = rows[i]
      /\ DOMAIN accounts' = DOMAIN accounts
  BY RowsAreSeq, PostBook DEF BotInv
<1>2. \A i \in DOMAIN rows' : i = n \/ i \in DOMAIN rows
  BY <1>1
<1>3. RowsTimed'
  <2>1. ASSUME NEW i \in DOMAIN rows', NEW j \in DOMAIN rows', i <= j PROVE rows'[i].at <= rows'[j].at
    <3>1. CASE j = n
      <4>1. CASE i = n
        BY <1>1, <3>1, <4>1 DEF BotInv, BookShaped
      <4>2. CASE i \in DOMAIN rows
        BY <1>1, <3>1, <4>2 DEF BotInv, RowsTimed
      <4> QED BY <1>2, <4>1, <4>2
    <3>2. CASE j \in DOMAIN rows
      <4>1. i \in DOMAIN rows
        BY <1>1, <2>1, <3>2
      <4> QED BY <1>1, <2>1, <3>2, <4>1 DEF BotInv, RowsTimed
    <3> QED BY <1>2, <3>1, <3>2
  <2>2. ASSUME NEW i \in DOMAIN rows' PROVE rows'[i].at <= clock'
    BY <1>1, <1>2 DEF BotInv, RowsTimed, BookShaped
  <2> QED BY <2>1, <2>2 DEF RowsTimed
<1>4. RowsSent'
  <2> SUFFICES ASSUME NEW i \in DOMAIN rows'
               PROVE  /\ rows'[i].acc \in DOMAIN accounts'
                      /\ rows'[i].k > 0 =>
                            /\ req[rows'[i].call].op = "deliver"
                            /\ rows'[i].k \in 1..Len(req[rows'[i].call].batch)
                            /\ req[rows'[i].call].batch[rows'[i].k].text \in Entry
                            /\ rows'[i].amt = ParseNominal(req[rows'[i].call].batch[rows'[i].k].text)
    BY DEF RowsSent
  <2>1. CASE i = n
    BY <1>1, <2>1
  <2>2. CASE i \in DOMAIN rows
    BY <1>1, <2>2 DEF BotInv, RowsSent
  <2> QED BY <1>2, <2>1, <2>2
<1> QED BY <1>3, <1>4

LEMMA NothingBooked ==
    ASSUME BookShaped, UNCHANGED rows
    PROVE  RowsGrow
BY DEF BookShaped, RowsGrow

\* A step that the bot has no part in.
LEMMA QuietForBot ==
    ASSUME BotInv, UNCHANGED <<req, botVars>>, RowsGrow, RowsTimed', RowsSent', BookShaped',
           DOMAIN accounts \subseteq DOMAIN accounts',
           \A c \in Call : pc'[c] = pc[c] \/ pc'[c] \notin BotPlace \cup {"idle"}
    PROVE  BotInv'
<1>1. BotType' /\ RowsTold'
  BY DEF BotInv, botVars, BotType, RowsTold, RowsGrow
<1>2. ASSUME NEW c \in Call PROVE BotAt(c)' /\ Reaches(c)'
  <2>1. CASE pc'[c] = pc[c]
    BY <2>1, OthersKeepPlace DEF botVars
  <2>2. CASE pc'[c] \notin BotPlace \cup {"idle"}
    BY <2>2 DEF BotAt, Reaches, BotPlace
  <2> QED BY <2>1, <2>2
<1> QED BY <1>1, <1>2 DEF BotInv

LEMMA BookStays ==
    ASSUME BotInv, UNCHANGED <<req, book, clock, botVars>>,
           \A c \in Call : pc'[c] = pc[c] \/ pc'[c] \notin BotPlace \cup {"idle", "booking"}
    PROVE  BotInv'
<1>1. RowsGrow
  BY NothingBooked DEF BotInv, book
<1>2. RowsTimed' /\ RowsSent'
  BY <1>1, NoNewRow DEF BotInv, book, BookShaped
<1>3. BookShaped'
  BY DEF BotInv, BookShaped, book
<1> QED BY <1>1, <1>2, <1>3, QuietForBot DEF book

LEMMA ExportKeepsBot ==
    ASSUME MetInv, BotInv, NEW c \in Call, ExportStep(c), UNCHANGED botVars
    PROVE  BotInv'
<1>1. UNCHANGED <<req, book, clock>>
  BY DEF ExportStep, ClientStep, CreateRow, Enqueue, EnqueueFails, WorkerStep, TakeUp, SumIncome,
     SumExpense, Upload, Complete, Throws, MarkFailed, MarkFails, Acknowledge, WorkerStops, Work
<1>2. ASSUME NEW d \in Call PROVE pc'[d] = pc[d] \/ pc'[d] \notin BotPlace \cup {"idle", "booking"}
  BY DEF ExportStep, ClientStep, CreateRow, Enqueue, EnqueueFails, WorkerStep, TakeUp, SumIncome,
     SumExpense, Upload, Complete, Throws, MarkFailed, MarkFails, Acknowledge, WorkerStops, Work,
     Arrive, Go, MetInv, BotPlace
<1> QED BY <1>1, <1>2, BookStays

LEMMA RegistryKeepsBot ==
    ASSUME MetInv, BotInv, NEW c \in Call, RegistryStep(c), UNCHANGED botVars
    PROVE  BotInv'
<1>1. UNCHANGED <<req, book, clock>>
  BY DEF RegistryStep, CreateRecord, FindRecord, NotFound, Revalue, Discard, Announce, ReadSettings,
         SaveSettings, Abandon, Write, ownVars
<1>2. ASSUME NEW d \in Call PROVE pc'[d] = pc[d] \/ pc'[d] \notin BotPlace \cup {"idle", "booking"}
  BY DEF RegistryStep, CreateRecord, FindRecord, NotFound, Revalue, Discard, Announce, ReadSettings,
         SaveSettings, Abandon, Arrive, Go, MetInv, BotPlace
<1> QED BY <1>1, <1>2, BookStays

LEMMA CommitKeepsBot ==
    ASSUME MetInv, BotInv, NEW c \in Call, Commit(c), UNCHANGED botVars
    PROVE  BotInv'
<1> DEFINE q == req[c]
           r == [by |-> q.user, acc |-> q.acc, type |-> q.type, amt |-> q.amt, cat |-> q.cat,
                 at |-> clock, status |-> "CONFIRMED", call |-> c, k |-> 0]
<1>1. pc[c] = "booking" /\ q \in EnterRequest /\ q.acc \in DOMAIN accounts
  BY DeskRequests DEF Commit, BotInv, BookShaped
<1>2. r \in Row /\ r.at = clock /\ ~(r.k > 0) /\ r.acc = q.acc
  BY <1>1 DEF EnterRequest, Row, BotInv, BookShaped
<1>3. Post(r) /\ UNCHANGED <<req, clock>>
  BY DEF Commit
<1> HIDE DEF r
<1>4. /\ RowsGrow /\ accounts' \in Seq(Account) /\ DOMAIN accounts' = DOMAIN accounts
      /\ RowsTimed' /\ RowsSent'
  BY <1>1, <1>2, <1>3, PostBook, NewRow DEF BotInv
<1>5. pc' = [pc EXCEPT ![c] = "ok"]
  BY DEF Commit, Go
<1>6. \A d \in Call : pc'[d] = pc[d] \/ pc'[d] = "ok"
  BY <1>5 DEF MetInv
<1>7. BookShaped'
  BY <1>3, <1>4, <1>6 DEF BotInv, BookShaped, RowsGrow
<1> QED BY <1>3, <1>4, <1>6, <1>7, QuietForBot DEF BotPlace

LEMMA CategoryKeepsBot ==
    ASSUME MetInv, BotInv, NEW c \in Call, CategoryStep(c), UNCHANGED botVars
    PROVE  BotInv'
<1>1. CASE Enter(c)
  <2>1. /\ UNCHANGED <<req, book, clock>>
        /\ req[c].op = "enter" /\ (Accepted(req[c]) => req[c].acc \in DOMAIN accounts)
        /\ pc' = [pc EXCEPT ![c] = IF Accepted(req[c]) THEN "booking" ELSE "failed"]
    BY <1>1 DEF Enter, Accepted, Arrive
  <2>2. \A d \in Call : pc'[d] = pc[d] \/ pc'[d] \notin BotPlace \cup {"idle"}
    BY <2>1 DEF BotPlace, MetInv
  <2>3. ASSUME NEW d \in Call, pc'[d] = "booking"
        PROVE  req[d].op = "enter" /\ req[d].acc \in DOMAIN accounts
    BY <2>1, <2>3 DEF MetInv, BotInv, BookShaped
  <2>4. BookShaped'
    BY <2>1, <2>3 DEF BookShaped, BotInv, book
  <2>5. RowsGrow
    BY <2>1, NothingBooked DEF BotInv, book
  <2>6. RowsTimed' /\ RowsSent'
    BY <2>1, <2>5, NoNewRow DEF BotInv, book, BookShaped
  <2> QED BY <2>1, <2>2, <2>4, <2>5, <2>6, QuietForBot DEF book
<1>2. CASE Commit(c)
  BY <1>2, CommitKeepsBot
<1>3. CASE ~Enter(c) /\ ~Commit(c)
  <2>1. UNCHANGED <<req, book, clock>>
    BY <1>3 DEF CategoryStep, CheckName, InsertCategory, FindCategory, FindDuplicate, Rename, CountUses,
         SoftDelete, GiveUp
  <2>2. ASSUME NEW d \in Call PROVE pc'[d] = pc[d] \/ pc'[d] \notin BotPlace \cup {"idle", "booking"}
    BY <1>3 DEF CategoryStep, CheckName, InsertCategory, FindCategory, FindDuplicate, Rename, CountUses,
         SoftDelete, GiveUp, Arrive, Go, MetInv, BotPlace
  <2> QED BY <2>1, <2>2, BookStays
<1> QED BY <1>1, <1>2, <1>3

LEMMA OpenAccountKeepsBot ==
    ASSUME MetInv, BotInv, NEW c \in Call, OpenAccount(c), UNCHANGED botVars
    PROVE  BotInv'
<1> DEFINE e == [kind |-> req[c].kind, ccy |-> req[c].ccy, balance |-> 0]
<1>1. e \in Account
  BY DeskRequests DEF OpenAccount, BotInv, BookShaped, Account
<1>2. accounts' = Append(accounts, e) /\ UNCHANGED <<req, rows, clock>>
      /\ pc' = [pc EXCEPT ![c] = "ok"]
  BY DEF OpenAccount, Arrive
<1>3. accounts' \in Seq(Account) /\ DOMAIN accounts \subseteq DOMAIN accounts'
  <2>1. accounts \in Seq(Account)
    BY DEF BotInv, BookShaped
  <2> HIDE DEF e
  <2> QED BY <1>1, <1>2, <2>1
<1>4. \A d \in Call : pc'[d] = pc[d] \/ pc'[d] = "ok"
  BY <1>2 DEF MetInv
<1>5. RowsGrow
  BY <1>2, NothingBooked DEF BotInv
<1>6. RowsTimed' /\ RowsSent'
  BY <1>2, <1>3, <1>5, NoNewRow DEF BotInv, BookShaped
<1>7. BookShaped'
  BY <1>2, <1>3, <1>4 DEF BotInv, BookShaped
<1> QED BY <1>2, <1>3, <1>4, <1>5, <1>6, <1>7, QuietForBot DEF BotPlace

LEMMA TickKeepsBot ==
    ASSUME BotInv, Tick, UNCHANGED botVars
    PROVE  BotInv'
<1>1. UNCHANGED <<req, pc, book, met>> /\ clock' \in 0..MaxClock /\ clock <= clock'
  BY BusinessAssumption DEF Tick, BotInv, BookShaped
<1>2. RowsGrow
  BY <1>1, NothingBooked DEF BotInv, book
<1>3. RowsTimed' /\ RowsSent'
  BY <1>1, <1>2, NoNewRow DEF book
<1>4. BookShaped'
  BY <1>1 DEF BotInv, BookShaped, book
<1> QED BY <1>1, <1>2, <1>3, <1>4, QuietForBot DEF book

-----------------------------------------------------------------------------
(* The steps of the bot. *)

MemRow == [k: Nat, user: User \cup {NoUser}, acc: Nat, row: Nat, heard: SUBSET Nat]
Said == {"unregistered", "no account", "balances", "report", "booked", "not booked", "cancelled",
         "not cancelled", "nothing to cancel", "bantuan", "other"}

\* What a step of webhook c leaves of everything but what it is at itself.
BotFrame(c) ==
    /\ UNCHANGED <<req, clock>>
    /\ RowsGrow /\ RowsTimed' /\ RowsSent'
    /\ accounts' \in Seq(Account) /\ DOMAIN accounts \subseteq DOMAIN accounts'
    /\ \A d \in Call \ {c} : mem'[d] = mem[d]

LEMMA BotGoes ==
    ASSUME BotInv, NEW c \in Call, BotFrame(c),
           \A d \in Call \ {c} : pc'[d] = pc[d],
           pc'[c] # "booking",
           mem' \in [Call -> MemRow], mem'[c].heard \subseteq DOMAIN rows,
           replies' \subseteq Reply,
           \A r \in replies' \ replies : r.what = "booked" => r.row \in DOMAIN rows,
           BotAt(c)', Reaches(c)'
    PROVE  BotInv'
<1>1. BookShaped'
  BY DEF BotFrame, BotInv, BookShaped, RowsGrow
<1>2. BotType'
  BY DEF BotType, MemRow
<1>3. RowsTold'
  <2>1. \A d \in Call : mem'[d].heard \subseteq DOMAIN rows
    BY DEF BotFrame, BotInv, RowsTold
  <2>2. \A r \in replies' : r.what = "booked" => r.row \in DOMAIN rows
    BY DEF BotInv, RowsTold
  <2> QED BY <2>1, <2>2 DEF RowsTold, BotFrame, RowsGrow
<1>4. ASSUME NEW d \in Call PROVE BotAt(d)' /\ Reaches(d)'
  <2>1. CASE d = c
    BY <2>1
  <2>2. CASE d # c
    BY <2>2, OthersKeepPlace DEF BotFrame
  <2> QED BY <2>1, <2>2
<1> QED BY <1>1, <1>2, <1>3, <1>4 DEF BotInv, BotFrame

LEMMA BotKnows ==
    ASSUME BotInv, NEW c \in Call, pc[c] \in BotPlace
    PROVE  /\ req[c].op = "deliver" /\ mem[c] \in MemRow
           /\ mem[c].k \in 1..Len(req[c].batch) /\ Len(req[c].batch) \in Nat
           /\ Message(c).from \in Phone /\ Message(c).text \in Text
           /\ mem = [d \in Call |-> mem[d]]
<1>1. req[c].op = "deliver" /\ mem[c].k \in 1..Len(req[c].batch)
  BY DEF BotInv, BotAt
<1>2. req[c].batch \in Seq(Sent)
  BY <1>1, DeskRequests DEF BotInv, BookShaped
<1>3. req[c].batch[mem[c].k] \in Sent
  BY <1>1, <1>2
<1> QED BY <1>1, <1>2, <1>3 DEF Sent, Message, BotInv, BotType, MemRow

\* The message is answered.
LEMMA AnswerKeepsBot ==
    ASSUME MetInv, BotInv, NEW c \in Call, pc[c] \in BotPlace,
           NEW what \in Said, NEW row \in Nat, what = "booked" => row \in DOMAIN rows,
           Answer(c, what, row), UNCHANGED <<req, clock>>,
           RowsGrow, RowsTimed', RowsSent',
           accounts' \in Seq(Account), DOMAIN accounts \subseteq DOMAIN accounts'
    PROVE  BotInv'
<1>k. /\ req[c].op = "deliver" /\ mem[c] \in MemRow
      /\ mem[c].k \in 1..Len(req[c].batch) /\ Len(req[c].batch) \in Nat
      /\ Message(c).from \in Phone
      /\ mem \in [Call -> MemRow] /\ mem[c].heard \subseteq DOMAIN rows
  BY BotKnows DEF BotInv, BotType, MemRow, RowsTold
<1> DEFINE n == [to |-> Message(c).from, call |-> c, k |-> mem[c].k, what |-> what, row |-> row]
<1>1. replies' = replies \cup {n}
  BY DEF Answer, Say
<1>2. n \in Reply /\ n.what = what /\ n.row = row
  BY <1>k DEF Reply, MemRow, Said
<1> HIDE DEF n
<1>3. /\ replies' \subseteq Reply
      /\ \A r \in replies' \ replies : r.what = "booked" => r.row \in DOMAIN rows
  BY <1>1, <1>2 DEF BotInv, BotType
<1> DEFINE on == mem[c].k < Len(req[c].batch)
           m == [mem[c] EXCEPT !.k = mem[c].k + 1]
<1>4. /\ on => mem' = [mem EXCEPT ![c] = m] /\ pc' = [pc EXCEPT ![c] = "user"]
      /\ ~on => mem' = mem /\ pc' = [pc EXCEPT ![c] = "ok"]
  <2>1. Proceed(c)
    BY DEF Answer
  <2> HIDE DEF n
  <2>2. CASE on
    BY <2>1, <2>2 DEF Proceed, Go
  <2>3. CASE ~on
    BY <2>1, <2>3 DEF Proceed, Go
  <2> QED BY <2>2, <2>3
<1>5. ASSUME NEW u \in MemRow, NEW k \in Nat
      PROVE  /\ [u EXCEPT !.k = k] \in MemRow /\ [u EXCEPT !.k = k].k = k
             /\ [u EXCEPT !.k = k].heard = u.heard
  BY <1>5 DEF MemRow
<1>6. m \in MemRow /\ m.k = mem[c].k + 1 /\ m.heard = mem[c].heard
  <2>1. mem[c].k + 1 \in Nat
    BY <1>k
  <2> QED BY <1>5, <1>k, <2>1
<1> HIDE DEF m
<1>7. /\ mem' \in [Call -> MemRow] /\ mem'[c].heard \subseteq DOMAIN rows
      /\ \A d \in Call \ {c} : mem'[d] = mem[d]
      /\ on => mem'[c].k \in 1..Len(req[c].batch)
  BY <1>4, <1>6, <1>k
<1>8. /\ \A d \in Call \ {c} : pc'[d] = pc[d]
      /\ pc'[c] = IF on THEN "user" ELSE "ok"
  BY <1>4 DEF MetInv
<1> HIDE DEF on
<1>9. BotAt(c)' /\ Reaches(c)'
  BY <1>k, <1>7, <1>8 DEF BotAt, Reaches, BotPlace
<1>10. BotFrame(c)
  BY <1>7 DEF BotFrame
<1> QED BY <1>3, <1>7, <1>8, <1>9, <1>10, BotGoes

\* The same, when nothing is written.
LEMMA MereAnswerKeepsBot ==
    ASSUME MetInv, BotInv, NEW c \in Call, pc[c] \in BotPlace,
           NEW what \in Said, NEW row \in Nat, what = "booked" => row \in DOMAIN rows,
           Answer(c, what, row), UNCHANGED <<req, book, clock>>
    PROVE  BotInv'
<1>1. RowsGrow
  BY NothingBooked DEF BotInv, book
<1>2. RowsTimed' /\ RowsSent'
  BY <1>1, NoNewRow DEF BotInv, book, BookShaped
<1>3. accounts' \in Seq(Account) /\ DOMAIN accounts \subseteq DOMAIN accounts'
  BY DEF BotInv, BookShaped, book
<1> QED BY <1>1, <1>2, <1>3, AnswerKeepsBot

LEMMA MinIn ==
    ASSUME NEW n \in Nat, NEW S, S \subseteq 1..n, S # {}
    PROVE  Min(S) \in S
<1> DEFINE Below(m) == {y \in S : y < m}
           B == {Below(m) : m \in S}
<1>0. \A x \in S : x \in Int
  OBVIOUS
<1>1. IsFiniteSet(S)
  <2>1. IsFiniteSet(1..n)
    BY FS_Interval
  <2> QED BY <2>1, FS_Subset
<1>2. PICK T \in B : \A U \in B : U \subseteq T => U = T
  <2>1. B \subseteq SUBSET S /\ B # {}
    OBVIOUS
  <2> HIDE DEF B
  <2> QED BY ONLY <1>1, <2>1, LeastSet
<1>3. PICK m \in S : T = Below(m)
  BY <1>2
<1>4. ASSUME NEW y \in S, y < m PROVE FALSE
  <2>1. /\ \A z \in S : z < y => z < m
        /\ ~(y < y)
    BY <1>0, <1>4
  <2>2. Below(y) \subseteq Below(m) /\ Below(y) # Below(m)
    BY ONLY <1>4, <2>1
  <2>3. Below(y) \in B
    OBVIOUS
  <2> HIDE DEF Below, B
  <2> QED BY <1>2, <1>3, <2>2, <2>3
<1>5. \A x \in S : m <= x
  BY <1>0, <1>4
<1> QED BY ONLY <1>5, m \in S DEF Min

LEMMA DeliverKeepsBot ==
    ASSUME MetInv, BotInv, NEW c \in Call, Deliver(c)
    PROVE  BotInv'
<1> DEFINE told == {r.row : r \in {r \in replies : r.what = "booked"}}
<1>1. /\ req[c].op = "deliver" /\ pc[c] = "idle" /\ pc' = [pc EXCEPT ![c] = "user"]
      /\ mem' = [mem EXCEPT ![c].heard = told]
      /\ UNCHANGED <<req, book, clock, replies>>
  BY DEF Deliver, Arrive
<1>2. told \subseteq DOMAIN rows /\ told \in SUBSET Nat
  <2>1. \A i \in DOMAIN rows : i \in Nat
    BY RowsAreSeq DEF BotInv
  <2>2. told \subseteq DOMAIN rows
    BY DEF BotInv, RowsTold
  <2> HIDE DEF told
  <2> QED BY <2>1, <2>2
<1> HIDE DEF told
<1>3. /\ req[c].batch \in Seq(Sent) \ {<<>>} /\ mem[c].k = 1 /\ mem \in [Call -> MemRow]
  BY <1>1, DeskRequests DEF BotInv, BotAt, BookShaped, BotType, MemRow
<1>4. 1 \in 1..Len(req[c].batch)
  BY <1>3
<1>5. /\ mem' \in [Call -> MemRow] /\ mem'[c].k = 1 /\ mem'[c].heard = told
      /\ \A d \in Call \ {c} : mem'[d] = mem[d]
  BY <1>1, <1>2, <1>3 DEF MemRow
<1>6. pc'[c] = "user" /\ \A d \in Call \ {c} : pc'[d] = pc[d]
  BY <1>1 DEF MetInv
<1>7. BotAt(c)' /\ Reaches(c)'
  BY <1>1, <1>4, <1>5, <1>6 DEF BotAt, Reaches
<1>8. RowsGrow
  BY <1>1, NothingBooked DEF BotInv, book
<1>9. RowsTimed' /\ RowsSent'
  BY <1>1, <1>8, NoNewRow DEF BotInv, book, BookShaped
<1>10. BotFrame(c)
  BY <1>1, <1>5, <1>8, <1>9 DEF BotFrame, BotInv, BookShaped, book
<1> QED BY <1>1, <1>2, <1>5, <1>6, <1>7, <1>10, BotGoes DEF BotInv, BotType

\* A step that only looks, and puts what it found into m.
LEMMA LookKeepsBot ==
    ASSUME MetInv, BotInv, NEW c \in Call, pc[c] \in BotPlace, NEW p, p \notin {"idle", "booking"},
           pc' = [pc EXCEPT ![c] = p], UNCHANGED <<req, book, clock, replies>>,
           NEW m \in MemRow, mem' = [mem EXCEPT ![c] = m], m.heard = mem[c].heard,
           BotAt(c)', Reaches(c)'
    PROVE  BotInv'
<1>1. /\ mem' \in [Call -> MemRow] /\ mem'[c].heard \subseteq DOMAIN rows
      /\ \A d \in Call \ {c} : mem'[d] = mem[d]
  BY DEF BotInv, BotType, MemRow, RowsTold
<1>2. pc'[c] = p /\ \A d \in Call \ {c} : pc'[d] = pc[d]
  BY DEF MetInv
<1>3. RowsGrow
  BY NothingBooked DEF BotInv, book
<1>4. RowsTimed' /\ RowsSent'
  BY <1>3, NoNewRow DEF BotInv, book, BookShaped
<1>5. BotFrame(c)
  BY <1>1, <1>3, <1>4 DEF BotFrame, BotInv, BookShaped, book
<1> QED BY <1>1, <1>2, <1>5, BotGoes DEF BotInv, BotType

LEMMA FindUserKeepsBot ==
    ASSUME MetInv, BotInv, NEW c \in Call, FindUser(c)
    PROVE  BotInv'
<1> DEFINE t == Message(c).text
           u == UserOf[Message(c).from]
           m == [mem[c] EXCEPT !.user = u]
<1>1. pc[c] = "user" /\ pc[c] \in BotPlace /\ UNCHANGED <<req, book, clock>>
  BY DEF FindUser, BotPlace
<1>k. /\ req[c].op = "deliver" /\ mem[c] \in MemRow
      /\ mem[c].k \in 1..Len(req[c].batch)
      /\ Message(c).from \in Phone /\ t \in Text
  BY <1>1, BotKnows
<1>2. u \in User \cup {NoUser}
  BY <1>k, BotAssumption
<1>3. ASSUME u = NoUser PROVE BotInv'
  <2>1. Answer(c, "unregistered", 0)
    BY <1>3 DEF FindUser
  <2> QED BY <1>1, <2>1, MereAnswerKeepsBot DEF Said
<1>4. ASSUME u # NoUser, Intent(t) \in {"bantuan", "other"} PROVE BotInv'
  <2>1. Answer(c, Intent(t), 0)
    BY <1>4 DEF FindUser
  <2> QED BY <1>1, <1>4, <2>1, MereAnswerKeepsBot DEF Said
<1>5. ASSUME u # NoUser, Intent(t) \notin {"bantuan", "other"} PROVE BotInv'
  <2> DEFINE p == IF Intent(t) = "laporan" THEN "report" ELSE IF Intent(t) = "batal" THEN "last"
                  ELSE "account"
  <2>1. mem' = [mem EXCEPT ![c] = m] /\ pc' = [pc EXCEPT ![c] = p] /\ UNCHANGED replies
    BY <1>5 DEF FindUser, Go
  <2>2. m \in MemRow /\ m.user = u /\ m.k = mem[c].k /\ m.heard = mem[c].heard
    BY <1>2, <1>k DEF MemRow
  <2>3. pc'[c] = p /\ mem'[c] = m /\ p \in {"report", "last", "account"}
    BY <2>1 DEF MetInv, BotInv, BotType
  <2>4. Message(c)' = Message(c)
    BY <1>1, <2>2, <2>3 DEF Message
  <2>5. BotAt(c)' /\ Reaches(c)'
    BY <1>1, <1>5, <1>k, <2>2, <2>3, <2>4 DEF BotAt, Reaches
  <2> HIDE DEF m, p
  <2> QED BY <1>1, <2>1, <2>2, <2>3, <2>5, LookKeepsBot
<1> QED BY <1>3, <1>4, <1>5

LEMMA FindAccountKeepsBot ==
    ASSUME MetInv, BotInv, NEW c \in Call, FindAccount(c)
    PROVE  BotInv'
<1> DEFINE t == Message(c).text
           m == [mem[c] EXCEPT !.acc = Default]
<1>1. pc[c] = "account" /\ pc[c] \in BotPlace /\ UNCHANGED <<req, book, clock>>
  BY DEF FindAccount, BotPlace
<1>k. /\ mem[c] \in MemRow /\ t \in Text
      /\ req[c].op = "deliver" /\ mem[c].k \in 1..Len(req[c].batch)
      /\ mem[c].user = UserOf[Message(c).from] /\ mem[c].user # NoUser
      /\ Intent(t) \notin {"bantuan", "other", "laporan", "batal"}
  BY <1>1, BotKnows DEF BotInv, BotAt
<1>2. CASE accounts = <<>>
  <2>1. Answer(c, "no account", 0)
    BY <1>2 DEF FindAccount
  <2> QED BY <1>1, <2>1, MereAnswerKeepsBot DEF Said
<1>3. CASE accounts # <<>> /\ Intent(t) = "saldo"
  <2>1. Answer(c, "balances", 0)
    BY <1>3 DEF FindAccount
  <2> QED BY <1>1, <2>1, MereAnswerKeepsBot DEF Said
<1>4. CASE accounts # <<>> /\ Intent(t) # "saldo"
  <2>1. mem' = [mem EXCEPT ![c] = m] /\ pc' = [pc EXCEPT ![c] = "posting"] /\ UNCHANGED replies
    BY <1>4 DEF FindAccount, Go
  <2>2. Default \in DOMAIN accounts /\ Default \in Nat
    <3> DEFINE cash == {a \in DOMAIN accounts : accounts[a].kind = "CASH"}
               S == IF cash # {} THEN cash ELSE DOMAIN accounts
               n == Len(accounts)
    <3>1. n \in Nat /\ DOMAIN accounts = 1..n /\ n # 0
      BY <1>4, RowsAreSeq DEF BotInv, BookShaped
    <3>2. S \subseteq 1..n /\ S # {}
      BY <3>1
    <3>3. Default = Min(S)
      BY DEF Default
    <3> HIDE DEF S, n
    <3>4. Min(S) \in S
      BY ONLY <3>1, <3>2, MinIn
    <3>5. Default \in 1..n
      BY ONLY <3>2, <3>3, <3>4
    <3> QED BY ONLY <3>1, <3>5
  <2>3. m \in MemRow /\ m.user = mem[c].user /\ m.k = mem[c].k /\ m.heard = mem[c].heard
        /\ m.acc = Default
    BY <1>k, <2>2 DEF MemRow
  <2>4. pc'[c] = "posting" /\ mem'[c] = m
    BY <2>1 DEF MetInv, BotInv, BotType
  <2>5. Message(c)' = Message(c)
    BY <1>1, <2>3, <2>4 DEF Message
  <2>6. Intent(t) \in {"masuk", "keluar"}
    BY <1>k, <1>4, Commands
  <2>7. BotAt(c)' /\ Reaches(c)'
    BY <1>1, <1>k, <2>2, <2>3, <2>4, <2>5, <2>6 DEF BotAt, Reaches, book
  <2> HIDE DEF m
  <2> QED BY <1>1, <2>1, <2>3, <2>7, LookKeepsBot
<1> QED BY <1>2, <1>3, <1>4

\* A webhook that stays at what it has found, or is gone.
LEMMA PlaceKeepsBot ==
    ASSUME MetInv, BotInv, NEW c \in Call, pc[c] \in BotPlace, NEW p \in {"lost", "voiding"},
           pc' = [pc EXCEPT ![c] = p], UNCHANGED <<req, book, clock, botVars>>,
           p = "voiding" => pc[c] = "cancelling"
    PROVE  BotInv'
<1>1. mem[c] \in MemRow /\ mem' = [mem EXCEPT ![c] = mem[c]] /\ UNCHANGED replies
  BY BotKnows DEF botVars
<1>2. pc'[c] = p
  BY DEF MetInv
<1>3. BotAt(c)' /\ Reaches(c)'
  <2>1. Message(c)' = Message(c) /\ Confirmed' = Confirmed /\ rows' = rows /\ mem' = mem
    BY DEF Message, botVars, Confirmed, book
  <2> QED BY <1>2, <2>1 DEF BotInv, BotAt, Reaches, BotPlace, book
<1> QED BY <1>1, <1>3, LookKeepsBot

LEMMA AnswersKeepBot ==
    ASSUME MetInv, BotInv, NEW c \in Call,
           Report(c) \/ CannotAfford(c) \/ ReadBack(c) \/ FindExisting(c) \/ Apologise(c) \/ Drop(c)
    PROVE  BotInv'
<1>1. CASE Report(c)
  BY <1>1, MereAnswerKeepsBot DEF Report, BotPlace, Said
<1>2. CASE CannotAfford(c)
  BY <1>2, MereAnswerKeepsBot DEF CannotAfford, BotPlace, Said
<1>3. CASE ReadBack(c)
  <2>1. mem[c].row \in DOMAIN rows /\ mem[c].row \in Nat
    <3>1. mem[c].row \in DOMAIN rows
      BY <1>3 DEF ReadBack, BotInv, BotAt, BotPlace
    <3> QED BY <3>1, RowIndices DEF BotInv
  <2> QED BY <1>3, <2>1, MereAnswerKeepsBot DEF ReadBack, BotPlace, Said
<1>4. CASE FindExisting(c)
  <2>1. pc[c] = "cancelling" /\ pc[c] \in BotPlace /\ UNCHANGED <<req, book, clock>>
    BY <1>4 DEF FindExisting, BotPlace
  <2>2. CASE rows[mem[c].row].status = "VOID"
    BY <1>4, <2>1, <2>2, MereAnswerKeepsBot DEF FindExisting, Said
  <2>3. CASE rows[mem[c].row].status # "VOID"
    BY <1>4, <2>1, <2>3, PlaceKeepsBot DEF FindExisting, Go
  <2> QED BY <2>2, <2>3
<1>5. CASE Apologise(c)
  <2>1. PICK what \in {"not booked", "not cancelled"} : Answer(c, what, 0)
    BY <1>5 DEF Apologise
  <2>2. what \in Said /\ what # "booked"
    BY DEF Said
  <2> QED BY <1>5, <2>1, <2>2, MereAnswerKeepsBot DEF Apologise, BotPlace
<1>6. CASE Drop(c)
  BY <1>6, PlaceKeepsBot DEF Drop, Go, BotPlace
<1> QED BY <1>1, <1>2, <1>3, <1>4, <1>5, <1>6

\* What the bot books is shaped like a row.
LEMMA BookingShaped ==
    ASSUME BotInv, NEW c \in Call, pc[c] = "posting"
    PROVE  /\ Booking(c) \in Row /\ Booking(c).acc \in DOMAIN accounts
           /\ Booking(c).status = "CONFIRMED"
<1> DEFINE t == Message(c).text
<1>1. pc[c] \in BotPlace /\ pc[c] # "user"
  BY DEF BotPlace
<1>2. /\ mem[c] \in MemRow /\ t \in Text /\ Message(c).from \in Phone
      /\ mem[c].user = UserOf[Message(c).from] /\ mem[c].user # NoUser
      /\ Intent(t) \in {"masuk", "keluar"} /\ mem[c].acc \in DOMAIN accounts
  BY <1>1, BotKnows DEF BotInv, BotAt
<1>3. t \in Entry /\ ParseNominal(t) \in Nat
  BY <1>2, Commands, Amounts
<1>4. mem[c].user \in User
  BY <1>2, BotAssumption
<1>5. clock \in 0..MaxClock
  BY DEF BotInv, BookShaped
<1>6. mem[c].acc \in Nat /\ mem[c].k \in Nat
  BY <1>2 DEF MemRow
<1> QED BY <1>2, <1>3, <1>4, <1>5, <1>6 DEF Booking, Row

LEMMA BookKeepsBot ==
    ASSUME MetInv, BotInv, NEW c \in Call, Book(c)
    PROVE  BotInv'
<1> DEFINE t == Message(c).text
           r == Booking(c)
           n == Len(rows) + 1
           m == [mem[c] EXCEPT !.row = n]
<1>1. /\ pc[c] = "posting" /\ pc[c] \in BotPlace /\ Post(r)
      /\ mem' = [mem EXCEPT ![c] = m] /\ pc' = [pc EXCEPT ![c] = "reading back"]
      /\ UNCHANGED <<req, clock, replies>>
  BY DEF Book, BotPlace, Go
<1>k. /\ mem[c] \in MemRow /\ t \in Text /\ Message(c).from \in Phone
      /\ req[c].op = "deliver" /\ mem[c].k \in 1..Len(req[c].batch)
      /\ mem[c].user = UserOf[Message(c).from] /\ mem[c].user # NoUser
      /\ Intent(t) \in {"masuk", "keluar"} /\ mem[c].acc \in DOMAIN accounts
  BY <1>1, BotKnows DEF BotInv, BotAt
<1>2. t \in Entry /\ ParseNominal(t) \in Nat
  BY <1>k, Commands, Amounts
<1>3. r \in Row /\ r.acc = mem[c].acc /\ r.at = clock /\ r.k = mem[c].k /\ r.call = c
      /\ r.amt = ParseNominal(t)
  BY <1>1, BookingShaped DEF Booking
<1>4. r.k > 0 => /\ req[r.call].op = "deliver" /\ r.k \in 1..Len(req[r.call].batch)
                 /\ req[r.call].batch[r.k].text \in Entry
                 /\ r.amt = ParseNominal(req[r.call].batch[r.k].text)
  BY <1>2, <1>3, <1>k DEF Message
<1> HIDE DEF r
<1>5. /\ RowsGrow /\ accounts' \in Seq(Account) /\ DOMAIN accounts' = DOMAIN accounts
      /\ DOMAIN rows' = 1..n /\ RowsTimed' /\ RowsSent' /\ n \in 1..n /\ n \in Nat
  <2>1. BookShaped /\ UNCHANGED <<req, clock>> /\ Post(r) /\ r \in Row /\ r.acc \in DOMAIN accounts
        /\ r.at = clock
    BY <1>1, <1>3, <1>k DEF BotInv
  <2>2. RowsTimed' /\ RowsSent'
    BY <1>4, <2>1, NewRow
  <2>3. /\ RowsGrow /\ accounts' \in Seq(Account) /\ DOMAIN accounts' = DOMAIN accounts
        /\ DOMAIN rows' = 1..n
    BY <2>1, PostBook
  <2>4. Len(rows) \in Nat
    BY <2>1, RowsAreSeq
  <2> QED BY <2>2, <2>3, <2>4
<1> HIDE DEF n
<1>6. m \in MemRow /\ m.user = mem[c].user /\ m.k = mem[c].k /\ m.heard = mem[c].heard /\ m.row = n
  BY <1>k, <1>5 DEF MemRow
<1>7. /\ mem' \in [Call -> MemRow] /\ mem'[c] = m /\ \A d \in Call \ {c} : mem'[d] = mem[d]
      /\ mem'[c].heard \subseteq DOMAIN rows
  BY <1>1, <1>6 DEF BotInv, BotType, MemRow, RowsTold
<1>8. pc'[c] = "reading back" /\ \A d \in Call \ {c} : pc'[d] = pc[d]
  BY <1>1 DEF MetInv
<1>9. BotAt(c)' /\ Reaches(c)'
  <2>1. Message(c)' = Message(c)
    BY <1>1, <1>6, <1>7 DEF Message
  <2> QED BY <1>1, <1>k, <1>5, <1>6, <1>7, <1>8, <2>1 DEF BotAt, Reaches
<1>10. BotFrame(c)
  BY <1>1, <1>5, <1>7 DEF BotFrame
<1> QED BY <1>1, <1>7, <1>8, <1>9, <1>10, BotGoes DEF BotInv, BotType

\* The row BATAL takes is not before any its sender was told of: those of a
\* greater index that are left out are of a time the window does not reach.
LEMMA FindLastKeepsBot ==
    ASSUME MetInv, BotInv, NEW c \in Call, FindLast(c)
    PROVE  BotInv'
<1> DEFINE l == Max(Recent(c))
           m == [mem[c] EXCEPT !.row = l]
<1>1. pc[c] = "last" /\ pc[c] \in BotPlace /\ UNCHANGED <<req, book, clock>>
  BY DEF FindLast, BotPlace
<1>k. /\ mem[c] \in MemRow
      /\ req[c].op = "deliver" /\ mem[c].k \in 1..Len(req[c].batch)
      /\ mem[c].user = UserOf[Message(c).from] /\ mem[c].user # NoUser
  BY <1>1, BotKnows DEF BotInv, BotAt
<1>2. CASE Recent(c) = {}
  <2>1. Answer(c, "nothing to cancel", 0)
    BY <1>2 DEF FindLast
  <2> QED BY <1>1, <2>1, MereAnswerKeepsBot DEF Said
<1>3. CASE Recent(c) # {}
  <2>1. mem' = [mem EXCEPT ![c] = m] /\ pc' = [pc EXCEPT ![c] = "cancelling"] /\ UNCHANGED replies
    BY <1>3 DEF FindLast, Go
  <2>2. l \in Recent(c) /\ \A i \in Recent(c) : i <= l
    <3>1. Len(rows) \in Nat /\ Recent(c) \subseteq 1..Len(rows)
      BY RowsAreSeq DEF Recent, Confirmed, BotInv
    <3> QED BY ONLY <1>3, <3>1, MaxIn
  <2>3. l \in DOMAIN rows /\ l \in Nat
    BY <2>2, RowsAreSeq DEF Recent, Confirmed, BotInv
  <2> HIDE DEF l
  <2>4. m \in MemRow /\ m.user = mem[c].user /\ m.k = mem[c].k /\ m.heard = mem[c].heard /\ m.row = l
    BY <1>k, <2>3 DEF MemRow
  <2>5. pc'[c] = "cancelling" /\ mem'[c] = m
    BY <2>1 DEF MetInv, BotInv, BotType
  <2>6. BotAt(c)'
    <3>1. Message(c)' = Message(c)
      BY <1>1, <2>4, <2>5 DEF Message
    <3> QED BY <1>1, <1>k, <2>3, <2>4, <2>5, <3>1 DEF BotAt, book
  <2>7. ASSUME NEW i \in Confirmed, rows[i].by = mem[c].user PROVE i <= l
    <3>1. CASE i \in Recent(c)
      BY <2>2, <3>1
    <3>2. CASE i \notin Recent(c)
      <4>1. i \in DOMAIN rows /\ i \in Int /\ l \in Int
            /\ rows[i].at \in Int /\ rows[l].at \in Int /\ clock \in Int /\ Window \in Int
        BY <2>3, RowsAreSeq, BotAssumption DEF Confirmed, BotInv, BookShaped, Row
      <4>2. ~(rows[i].at >= clock - Window) /\ rows[l].at >= clock - Window
        BY <2>2, <2>7, <3>2 DEF Recent
      <4>3. l <= i => rows[l].at <= rows[i].at
        BY <2>3, <4>1 DEF BotInv, RowsTimed
      <4> QED BY <4>1, <4>2, <4>3
    <3> QED BY <3>1, <3>2
  <2>8. Reaches(c)'
    <3>1. Confirmed' = Confirmed /\ rows' = rows
      BY <1>1 DEF Confirmed, book
    <3> QED BY <2>4, <2>5, <2>7, <3>1 DEF Reaches
  <2> HIDE DEF m
  <2> QED BY <1>1, <2>1, <2>4, <2>6, <2>8, LookKeepsBot
<1> QED BY <1>2, <1>3

LEMMA VoidKeepsBot ==
    ASSUME MetInv, BotInv, NEW c \in Call, Void(c)
    PROVE  BotInv'
<1> DEFINE i == mem[c].row
<1>1. /\ pc[c] = "voiding" /\ pc[c] \in BotPlace /\ Reverse(i) /\ Answer(c, "cancelled", i)
      /\ UNCHANGED <<req, clock>>
  BY DEF Void, BotPlace
<1>2. i \in DOMAIN rows /\ i \in Nat
  <2>1. i \in DOMAIN rows
    BY <1>1 DEF BotInv, BotAt
  <2> HIDE DEF i
  <2> QED BY <2>1, RowIndices DEF BotInv
<1>3. /\ RowsGrow /\ DOMAIN rows' = DOMAIN rows
      /\ accounts' \in Seq(Account) /\ DOMAIN accounts' = DOMAIN accounts
  BY <1>1, <1>2, ReverseBook DEF BotInv
<1>4. RowsTimed' /\ RowsSent'
  BY <1>1, <1>3, NoNewRow DEF BotInv, BookShaped
<1> HIDE DEF i
<1> QED BY <1>1, <1>2, <1>3, <1>4, AnswerKeepsBot DEF Said

LEMMA BotInvNext ==
    ASSUME MetInv, BotInv, [Next]_vars
    PROVE  BotInv'
<1>1. ASSUME NEW c \in Call, BotStep(c) PROVE BotInv'
  BY <1>1, DeliverKeepsBot, FindUserKeepsBot, FindAccountKeepsBot, AnswersKeepBot, BookKeepsBot,
     FindLastKeepsBot, VoidKeepsBot DEF BotStep
<1>2. CASE UNCHANGED vars
  BY <1>2, BookStays DEF vars, book
<1> QED BY <1>1, <1>2, CategoryKeepsBot, ExportKeepsBot, RegistryKeepsBot, OpenAccountKeepsBot,
           TickKeepsBot DEF Next

LEMMA BotInvInit == Init => BotInv
<1> SUFFICES ASSUME Init PROVE BotInv
  OBVIOUS
<1>1. /\ req \in Workload /\ accounts \in Seq(Account) /\ rows = <<>> /\ clock = 0
      /\ mem = [c \in Call |-> Blank] /\ replies = {} /\ \A c \in Call : pc[c] = "idle"
  BY BusinessAssumption DEF Init, Open, BotInit
<1>2. rows \in Seq(Row) /\ DOMAIN rows = {}
  BY <1>1
<1>3. Blank \in MemRow /\ Blank.k = 1 /\ Blank.heard = {}
  BY DEF Blank, MemRow
<1>4. BookShaped
  BY <1>1, <1>2, BusinessAssumption DEF BookShaped
<1>5. BotType
  BY <1>1, <1>3 DEF BotType, MemRow
<1>6. \A c \in Call : BotAt(c) /\ Reaches(c)
  BY <1>1, <1>3 DEF BotAt, Reaches, BotPlace
<1> QED BY <1>1, <1>2, <1>3, <1>4, <1>5, <1>6 DEF BotInv, RowsTimed, RowsTold, RowsSent

THEOREM Spec_BotInv == Spec => []BotInv
<1>1. NameInv => MetInv
  BY DEF NameInv
<1>2. Init => BotInv
  BY BotInvInit
<1>3. MetInv /\ BotInv /\ [Next]_vars => BotInv'
  BY BotInvNext
<1> QED BY <1>1, <1>2, <1>3, Spec_NameInv, PTL DEF Spec

\* "Salah? Balas batal": BATAL never reaches past a booking its sender has been
\* told of to an older one, whoever books and voids meanwhile.
THEOREM Spec_BatalReachesLastTold == Spec => []BatalReachesLastTold
<1>1. BotInv => BatalReachesLastTold
  BY DEF BotInv, Reaches, BatalReachesLastTold
<1> QED BY <1>1, Spec_BotInv, PTL

-----------------------------------------------------------------------------
(* The sums of a report, and the type of every variable. *)

SumRow == [Currency -> Nat]
SheetRow == [at: {"idle", "reading", "halfway", "summed", "uploaded", "failing", "succeeded",
                  "thrown"},
             income: SumRow, expense: SumRow, seen: Seq(Row)]

\* What the attempts and stalls of a job may still become.
Counted(c) ==
    /\ queue[c].state = "none" => queue[c].made = 0 /\ queue[c].stalls = 0
    /\ queue[c].state \in {"waiting", "active"} =>
           queue[c].made < Attempts /\ queue[c].stalls <= MaxStalls
    /\ queue[c].made <= Attempts /\ queue[c].stalls <= MaxStalls + 1

FileInv ==
    /\ jobs \in [Call -> JobShape(FileType \cup {NoFile})]
    /\ queue \in [Call -> QueueShape]
    /\ sheet \in [Call -> SheetRow]
    /\ files \subseteq FileType
    /\ \A c \in Call : Counted(c)

LEMMA BookedRows ==
    ASSUME BookShaped, NEW type, NEW y
    PROVE  /\ IsFiniteSet(Booked(type, y)) /\ Booked(type, y) \subseteq DOMAIN rows
           /\ \A i \in Booked(type, y) : rows[i].amt \in Nat
           /\ Sum(type, y) = SumFunctionOnSet([i \in Booked(type, y) |-> rows[i].amt], Booked(type, y))
<1>1. IsFiniteSet(DOMAIN rows) /\ \A i \in DOMAIN rows : rows[i].amt \in Nat
  <2>1. DOMAIN rows = 1..Len(rows) /\ Len(rows) \in Nat
    BY RowsAreSeq
  <2>2. \A i \in DOMAIN rows : rows[i].amt \in Nat
    BY RowsAreSeq DEF Row
  <2> QED BY <2>1, <2>2, FS_Interval
<1>2. Booked(type, y) \subseteq DOMAIN rows
  BY DEF Booked, Confirmed
<1>3. IsFiniteSet(Booked(type, y))
  BY <1>1, <1>2, FS_Subset
<1> QED BY <1>1, <1>2, <1>3 DEF Sum, SumFunction

LEMMA SumsAreNat ==
    ASSUME BookShaped, NEW type
    PROVE  Sums(type) \in SumRow
<1>1. ASSUME NEW y \in Currency PROVE Sum(type, y) \in Nat
  <2> DEFINE S == Booked(type, y)
             f == [i \in S |-> rows[i].amt]
  <2>1. IsFiniteSet(S) /\ \A i \in S : f[i] \in Nat
    BY BookedRows
  <2>2. Sum(type, y) = SumFunctionOnSet(f, S)
    BY BookedRows
  <2> HIDE DEF f, S
  <2>3. SumFunctionOnSet(f, S) \in Nat
    <3>1. \A T \in SUBSET S : SumFunctionOnSet(f, T) \in Nat
      BY ONLY <2>1, SumNat
    <3> QED BY <3>1
  <2> QED BY <2>2, <2>3
<1> QED BY <1>1 DEF Sums, SumRow

LEMMA FileInvInit == Init => FileInv
<1> SUFFICES ASSUME Init PROVE FileInv
  OBVIOUS
<1>1. NoSums \in SumRow /\ <<>> \in Seq(Row)
  BY DEF NoSums, SumRow
<1>2. EmptySheet \in SheetRow
  BY <1>1 DEF EmptySheet, SheetRow
<1> QED BY <1>2, ExportAssumption DEF FileInv, Init, ExportInit, JobShape, QueueShape, Counted

LEMMA FileInvNext ==
    ASSUME ExportInv, BookShaped, FileInv, [Next]_vars
    PROVE  FileInv'
<1>0. Attempts \in Nat \ {0} /\ MaxStalls \in Nat
  BY ExportAssumption
<1>e. EmptySheet \in SheetRow
  <2>1. NoSums \in SumRow /\ <<>> \in Seq(Row)
    BY DEF NoSums, SumRow
  <2> QED BY <2>1 DEF EmptySheet, SheetRow
<1>u. ASSUME UNCHANGED exportVars PROVE FileInv'
  BY <1>u DEF exportVars, FileInv, Counted
<1>q. ASSUME NEW c \in Call, NEW r \in QueueShape, queue' = [queue EXCEPT ![c] = r],
             r.state = "none" => r.made = 0 /\ r.stalls = 0,
             r.state \in {"waiting", "active"} => r.made < Attempts /\ r.stalls <= MaxStalls,
             r.made <= Attempts, r.stalls <= MaxStalls + 1
      PROVE  queue' \in [Call -> QueueShape] /\ \A d \in Call : Counted(d)'
  BY <1>q DEF FileInv, Counted
<1>1. ASSUME NEW c \in Call, ExportStep(c) PROVE FileInv'
  <2>0. /\ queue[c] \in QueueShape /\ sheet[c] \in SheetRow /\ Counted(c) /\ Followed(c)
        /\ jobs[c] \in JobShape(FileType \cup {NoFile})
    BY DEF FileInv, ExportInv
  <2>f. File(c) \in FileType
    BY <2>0 DEF File, FileType, SheetRow, QueueShape, SumRow
  <2>1. CASE CreateRow(c) \/ EnqueueFails(c)
    BY <2>0, <2>1 DEF CreateRow, EnqueueFails, exportVars, FileInv, JobShape, Counted
  <2>2. CASE Enqueue(c)
    <3> DEFINE r == [queue[c] EXCEPT !.state = "waiting"]
    <3>1. queue' = [queue EXCEPT ![c] = r] /\ UNCHANGED <<jobs, sheet, files>>
      BY <2>2 DEF Enqueue
    <3>2. r \in QueueShape /\ r.made = 0 /\ r.stalls = 0 /\ r.state = "waiting"
      BY <2>0, <2>2 DEF Enqueue, QueueShape, Followed, Counted
    <3> HIDE DEF r
    <3>3. r.made < Attempts /\ r.stalls <= MaxStalls /\ r.made <= Attempts /\ r.stalls <= MaxStalls + 1
      BY <1>0, <3>2
    <3>4. queue' \in [Call -> QueueShape] /\ \A d \in Call : Counted(d)'
      BY <1>q, <3>1, <3>2, <3>3
    <3> QED BY <3>1, <3>4 DEF FileInv
  <2>3. CASE TakeUp(c)
    <3> DEFINE r == [queue[c] EXCEPT !.state = "active", !.mute = FALSE]
               s == [EmptySheet EXCEPT !.at = IF req[c].type = "PROFIT_LOSS" THEN "reading" ELSE "failing",
                                       !.seen = rows]
    <3>1. queue' = [queue EXCEPT ![c] = r] /\ sheet' = [sheet EXCEPT ![c] = s]
          /\ UNCHANGED <<jobs, files>>
      BY <2>3 DEF TakeUp
    <3>2. r \in QueueShape /\ r.made = queue[c].made /\ r.stalls = queue[c].stalls /\ r.state = "active"
      BY <2>0 DEF QueueShape
    <3>3. s \in SheetRow
      BY <1>e DEF SheetRow, BookShaped
    <3>4. r.made < Attempts /\ r.stalls <= MaxStalls /\ r.made <= Attempts /\ r.stalls <= MaxStalls + 1
      BY <1>0, <2>0, <2>3, <3>2 DEF TakeUp, Counted, QueueShape
    <3> HIDE DEF r, s
    <3>5. queue' \in [Call -> QueueShape] /\ \A d \in Call : Counted(d)'
      BY <1>q, <3>1, <3>2, <3>4
    <3>6. sheet' \in [Call -> SheetRow]
      BY <3>1, <3>3 DEF FileInv
    <3> QED BY <3>1, <3>5, <3>6 DEF FileInv
  <2>4. CASE SumIncome(c) \/ SumExpense(c)
    <3>1. Sums("MASUK") \in SumRow /\ Sums("KELUAR") \in SumRow
      BY SumsAreNat
    <3>2. PICK s \in SheetRow : sheet' = [sheet EXCEPT ![c] = s]
      <4>1. [sheet[c] EXCEPT !.at = "halfway", !.income = Sums("MASUK")] \in SheetRow
        BY <2>0, <3>1 DEF SheetRow
      <4>2. [sheet[c] EXCEPT !.at = "summed", !.expense = Sums("KELUAR")] \in SheetRow
        BY <2>0, <3>1 DEF SheetRow
      <4> QED BY <2>4, <4>1, <4>2 DEF SumIncome, SumExpense
    <3>3. UNCHANGED <<jobs, queue, files>>
      BY <2>4 DEF SumIncome, SumExpense
    <3> QED BY <3>2, <3>3 DEF FileInv, Counted
  <2>5. CASE Upload(c) \/ Complete(c) \/ Throws(c) \/ MarkFailed(c) \/ MarkFails(c)
    <3>1. PICK at \in {"uploaded", "succeeded", "failing", "thrown"} :
            sheet' = [sheet EXCEPT ![c].at = at]
      BY <2>5 DEF Upload, Complete, Throws, MarkFailed, MarkFails, Work
    <3>2. sheet' \in [Call -> SheetRow]
      BY <3>1 DEF FileInv, SheetRow
    <3>3. jobs' \in [Call -> JobShape(FileType \cup {NoFile})]
      <4>1. /\ [jobs[c] EXCEPT !.status = "COMPLETED", !.url = File(c)] \in JobShape(FileType \cup {NoFile})
            /\ [jobs[c] EXCEPT !.status = "FAILED", !.error = TRUE] \in JobShape(FileType \cup {NoFile})
        BY <2>0, <2>f DEF JobShape
      <4>2. CASE Complete(c) \/ MarkFailed(c)
        <5>1. PICK j \in JobShape(FileType \cup {NoFile}) : jobs' = [jobs EXCEPT ![c] = j]
          BY <4>1, <4>2 DEF Complete, MarkFailed
        <5> QED BY <5>1 DEF FileInv
      <4>3. CASE UNCHANGED jobs
        BY <4>3 DEF FileInv
      <4> QED BY <2>5, <4>2, <4>3 DEF Upload, Throws, MarkFails
    <3>4. files' \subseteq FileType
      BY <2>5, <2>f DEF FileInv, Upload, Complete, Throws, MarkFailed, MarkFails
    <3>5. queue' \in [Call -> QueueShape] /\ \A d \in Call : Counted(d)'
      <4>1. CASE MarkFails(c)
        <5> DEFINE r == [queue[c] EXCEPT !.mute = TRUE]
        <5>1. queue' = [queue EXCEPT ![c] = r]
          BY <4>1 DEF MarkFails
        <5>2. r \in QueueShape /\ r.made = queue[c].made /\ r.stalls = queue[c].stalls
              /\ r.state = queue[c].state
          BY <2>0 DEF QueueShape
        <5> HIDE DEF r
        <5> QED BY <1>q, <2>0, <5>1, <5>2 DEF Counted
      <4>2. CASE UNCHANGED queue
        BY <4>2 DEF FileInv, Counted
      <4> QED BY <2>5, <4>1, <4>2 DEF Upload, Complete, Throws, MarkFailed
    <3> QED BY <3>2, <3>3, <3>4, <3>5 DEF FileInv
  <2>6. CASE Acknowledge(c) \/ WorkerStops(c)
    <3>1. UNCHANGED <<jobs, files>> /\ sheet' = [sheet EXCEPT ![c] = EmptySheet]
      BY <2>6 DEF Acknowledge, WorkerStops
    <3>2. sheet' \in [Call -> SheetRow]
      BY <1>e, <3>1 DEF FileInv
    <3>3. queue[c].state = "active" /\ queue[c].made < Attempts /\ queue[c].stalls <= MaxStalls
      BY <2>0, <2>6 DEF Acknowledge, WorkerStops, Followed, Counted
    <3>4. queue[c].made \in Nat /\ queue[c].stalls \in Nat
      BY <2>0 DEF QueueShape
    <3>5. CASE Acknowledge(c)
      <4> DEFINE m == queue[c].made + 1
                 st == IF sheet[c].at = "succeeded" THEN "completed"
                       ELSE IF m < Attempts THEN "waiting" ELSE "failed"
                 r == [queue[c] EXCEPT !.made = m, !.state = st]
      <4>1. queue' = [queue EXCEPT ![c] = r]
        BY <3>5 DEF Acknowledge
      <4>2. m \in Nat /\ m <= Attempts /\ st \in {"completed", "waiting", "failed"}
            /\ (st = "waiting" => m < Attempts)
        BY <1>0, <3>3, <3>4
      <4> HIDE DEF m, st
      <4>3. r \in QueueShape /\ r.made = m /\ r.stalls = queue[c].stalls /\ r.state = st
        BY <2>0, <4>2 DEF QueueShape
      <4>4. queue[c].stalls <= MaxStalls + 1
        BY <1>0, <3>3, <3>4
      <4> HIDE DEF r
      <4>5. queue' \in [Call -> QueueShape] /\ \A d \in Call : Counted(d)'
        BY <1>q, <3>3, <4>1, <4>2, <4>3, <4>4
      <4> QED BY <3>1, <3>2, <4>5 DEF FileInv
    <3>6. CASE WorkerStops(c)
      <4> DEFINE m == queue[c].stalls + 1
                 st == IF queue[c].stalls < MaxStalls THEN "waiting" ELSE "failed"
                 r == [queue[c] EXCEPT !.stalls = m, !.mute = TRUE, !.state = st]
      <4>1. queue' = [queue EXCEPT ![c] = r]
        BY <3>6 DEF WorkerStops
      <4>2. m \in Nat /\ m <= MaxStalls + 1 /\ st \in {"waiting", "failed"}
            /\ (st = "waiting" => m <= MaxStalls)
        BY <1>0, <3>3, <3>4
      <4> HIDE DEF m, st
      <4>3. r \in QueueShape /\ r.made = queue[c].made /\ r.stalls = m /\ r.state = st
        BY <2>0, <4>2 DEF QueueShape
      <4>4. queue[c].made <= Attempts
        BY <1>0, <3>3, <3>4
      <4> HIDE DEF r
      <4>5. queue' \in [Call -> QueueShape] /\ \A d \in Call : Counted(d)'
        BY <1>q, <3>3, <4>1, <4>2, <4>3, <4>4
      <4> QED BY <3>1, <3>2, <4>5 DEF FileInv
    <3> QED BY <2>6, <3>5, <3>6
  <2> QED BY <1>1, <2>1, <2>2, <2>3, <2>4, <2>5, <2>6 DEF ExportStep, ClientStep, WorkerStep
<1> QED BY <1>1, <1>u DEF Next, vars

THEOREM Spec_FileInv == Spec => []FileInv
<1>1. BotInv => BookShaped
  BY DEF BotInv
<1>2. Init => ExportInv
  BY ExportInvInit
<1>3. NameInv => pc \in [Call -> Place]
  BY DEF NameInv, MetInv
<1>4. ExportInv /\ pc \in [Call -> Place] /\ [Next]_vars => ExportInv'
  BY ExportInvNext
<1>5. Init => FileInv
  BY FileInvInit
<1>6. ExportInv /\ BookShaped /\ FileInv /\ [Next]_vars => FileInv'
  BY FileInvNext
<1> QED BY <1>1, <1>2, <1>3, <1>4, <1>5, <1>6, Spec_NameInv, Spec_BotInv, PTL DEF Spec

\* Every variable of the desk keeps its type, the queue its limits of attempts
\* and stalls among them.
THEOREM Spec_TypeOK == Spec => []TypeOK
<1>1. NameInv /\ BotInv /\ FileInv /\ FeedInv /\ TrailInv => TypeOK
  <2> SUFFICES ASSUME NameInv, BotInv, FileInv, FeedInv, TrailInv PROVE TypeOK
    OBVIOUS
  <2>1. pc \in [Call -> Place] /\ BusinessType /\ BotType /\ CategoryType
    BY DEF NameInv, MetInv, BotInv, BookShaped, BusinessType, CategoryType, Shape
  <2>2. ExportType
    <3>1. queue \in [Call -> [state: {"none", "waiting", "active", "completed", "failed"},
                              made: 0..Attempts, stalls: 0..MaxStalls + 1, mute: BOOLEAN]]
      BY ExportAssumption DEF FileInv, Counted, QueueShape
    <3> QED BY <3>1 DEF FileInv, ExportType, JobShape, SheetRow, SumRow
  <2>3. RegistryType
    BY DEF FeedInv, RecordsShaped, TrailInv, RegistryType, RecordRow, Writing, SettingsRow, TrailEntry
  <2> QED BY <2>1, <2>2, <2>3 DEF TypeOK
<1> QED BY <1>1, Spec_NameInv, Spec_BotInv, Spec_FileInv, Spec_FeedInv, Spec_TrailInv, PTL

-----------------------------------------------------------------------------
(* The profit of a report and the balances. *)

\* Book t is book s with rows added and voided.
Grown(s, t) ==
    /\ DOMAIN s \subseteq DOMAIN t
    /\ \A i \in DOMAIN s : t[i].status = s[i].status \/ t[i].status = "VOID"

\* The rows stay, or become such as they never were.
RowsMove ==
    /\ Grown(rows, rows')
    /\ \/ rows' = rows
       \/ DOMAIN rows' # DOMAIN rows
       \/ \E i \in DOMAIN rows : rows[i].status # "VOID" /\ rows'[i].status = "VOID"

\* While its rows stand as they were when it began, a report has their sums.
SheetTells(c) ==
    /\ sheet[c].at # "idle" => Grown(sheet[c].seen, rows)
    /\ sheet[c].seen = rows =>
        /\ sheet[c].at \in {"halfway", "summed", "uploaded", "succeeded"} =>
               sheet[c].income = Sums("MASUK")
        /\ sheet[c].at \in {"summed", "uploaded", "succeeded"} => sheet[c].expense = Sums("KELUAR")

Alone == \A d, e \in Call : req[d].op = "deliver" /\ req[e].op = "deliver" => e \notin met[d]
Held(y) == SumFunction([a \in AccountsIn(y) |-> accounts[a].balance])

\* With no webhooks that overlap, a row is voided once, and the accounts of a
\* currency hold what the confirmed rows brought in less what they took out.
BalanceInv ==
    Alone =>
        /\ \A c \in Call : pc[c] = "voiding" => rows[mem[c].row].status = "CONFIRMED"
        /\ \A y \in Currency : Held(y) = Sum("MASUK", y) - Sum("KELUAR", y)

ProfitInv == (\A c \in Call : SheetTells(c)) /\ BalanceInv

LEMMA GrownBack ==
    ASSUME RowsMove, NEW s, Grown(s, rows), s = rows'
    PROVE  rows' = rows
BY DEF RowsMove, Grown

LEMMA GrownOn ==
    ASSUME RowsMove, NEW s, Grown(s, rows)
    PROVE  Grown(s, rows')
BY DEF RowsMove, Grown

\* Rows and the currencies of their accounts are all that a sum depends on.
LEMMA SumsStay ==
    ASSUME BotInv, UNCHANGED rows, \A a \in DOMAIN accounts : accounts'[a].ccy = accounts[a].ccy
    PROVE  \A type, y : Sum(type, y)' = Sum(type, y)
<1> SUFFICES ASSUME NEW type, NEW y PROVE Sum(type, y)' = Sum(type, y)
  OBVIOUS
<1>1. Booked(type, y)' = Booked(type, y)
  BY DEF Booked, Confirmed, BotInv, RowsSent
<1> QED BY <1>1 DEF Sum

LEMMA QuietSheet ==
    ASSUME BotInv, RowsMove, \A a \in DOMAIN accounts : accounts'[a].ccy = accounts[a].ccy,
           NEW c \in Call, SheetTells(c), sheet'[c] = sheet[c]
    PROVE  SheetTells(c)'
<1>1. sheet[c].at # "idle" => Grown(sheet[c].seen, rows')
  BY GrownOn DEF SheetTells
<1>2. CASE rows' = rows
  <2>1. \A type : Sums(type)' = Sums(type)
    BY <1>2, SumsStay DEF Sums
  <2> QED BY <1>1, <1>2, <2>1 DEF SheetTells
<1>3. CASE rows' # rows
  <2>1. sheet[c].at # "idle" => sheet[c].seen # rows'
    BY <1>3, GrownBack DEF SheetTells
  <2> QED BY <1>1, <2>1 DEF SheetTells
<1> QED BY <1>2, <1>3

\* A row is booked.
LEMMA PostMoves ==
    ASSUME BookShaped, NEW r \in Row, r.acc \in DOMAIN accounts, Post(r)
    PROVE  /\ RowsMove /\ \A a \in DOMAIN accounts : accounts'[a].ccy = accounts[a].ccy
           /\ \A i \in DOMAIN rows : rows'[i].status = rows[i].status
<1>1. /\ RowsGrow /\ DOMAIN rows' = 1..Len(rows) + 1 /\ \A i \in DOMAIN rows : rows'[i] = rows[i]
      /\ \A a \in DOMAIN accounts : accounts'[a].ccy = accounts[a].ccy
  BY PostBook
<1>2. DOMAIN rows' # DOMAIN rows
  <2>1. DOMAIN rows = 1..Len(rows) /\ Len(rows) \in Nat
    BY RowsAreSeq
  <2>2. Len(rows) + 1 \in DOMAIN rows' /\ Len(rows) + 1 \notin DOMAIN rows
    BY <1>1, <2>1
  <2> QED BY <2>2
<1> QED BY <1>1, <1>2 DEF RowsMove, RowsGrow, Grown

LEMMA ReverseMoves ==
    ASSUME BookShaped, NEW i \in DOMAIN rows, Reverse(i)
    PROVE  RowsMove /\ \A a \in DOMAIN accounts : accounts'[a].ccy = accounts[a].ccy
<1>1. /\ RowsGrow /\ DOMAIN rows' = DOMAIN rows /\ rows'[i].status = "VOID"
      /\ \A a \in DOMAIN accounts : accounts'[a].ccy = accounts[a].ccy
  BY ReverseBook
<1>2. Grown(rows, rows')
  BY <1>1 DEF RowsGrow, Grown
<1>3. CASE rows[i].status # "VOID"
  BY <1>1, <1>2, <1>3 DEF RowsMove
<1>4. CASE rows[i].status = "VOID"
  <2>1. rows[i] \in Row /\ rows \in Seq(Row)
    BY RowsAreSeq DEF BookShaped
  <2>2. \A r \in Row : r.status = "VOID" => [r EXCEPT !.status = "VOID"] = r
    BY DEF Row
  <2>3. rows' = [rows EXCEPT ![i] = rows[i]]
    BY <1>4, <2>1, <2>2 DEF Reverse
  <2>4. rows' = rows
    BY <2>1, <2>3
  <2> QED BY <1>1, <1>2, <2>4 DEF RowsMove
<1> QED BY <1>3, <1>4

-----------------------------------------------------------------------------
(* What a booking and its reversal do to the two sides. *)

LEMMA HeldIsSum ==
    ASSUME BookShaped, NEW y
    PROVE  /\ IsFiniteSet(AccountsIn(y)) /\ AccountsIn(y) \subseteq DOMAIN accounts
           /\ \A a \in AccountsIn(y) : accounts[a].balance \in Int
           /\ Held(y) = SumFunctionOnSet([a \in AccountsIn(y) |-> accounts[a].balance], AccountsIn(y))
<1>1. IsFiniteSet(DOMAIN accounts)
  <2>1. DOMAIN accounts = 1..Len(accounts) /\ Len(accounts) \in Nat
    BY RowsAreSeq
  <2> QED BY <2>1, FS_Interval
<1>2. \A a \in DOMAIN accounts : accounts[a].balance \in Int
  BY RowsAreSeq DEF Account
<1>3. AccountsIn(y) \subseteq DOMAIN accounts
  BY DEF AccountsIn
<1>4. IsFiniteSet(AccountsIn(y))
  BY <1>1, <1>3, FS_Subset
<1> QED BY <1>2, <1>3, <1>4 DEF Held, SumFunction

\* The sum over S of g, which is f but for y that is d more.
LEMMA SumShifted ==
    ASSUME NEW S, IsFiniteSet(S), NEW f, NEW g, NEW y, NEW d \in Int,
           \A x \in S : f[x] \in Int, \A x \in S \ {y} : g[x] = f[x],
           y \in S => g[y] = f[y] + d
    PROVE  /\ y \in S => SumFunctionOnSet(g, S) = SumFunctionOnSet(f, S) + d
           /\ y \notin S => SumFunctionOnSet(g, S) = SumFunctionOnSet(f, S)
<1>1. ASSUME y \in S PROVE SumFunctionOnSet(g, S) = SumFunctionOnSet(f, S) + d
  <2>1. \A x \in S : g[x] \in Int
    BY <1>1
  <2>2. SumFunctionOnSet(g, S) = SumFunctionOnSet(f, S) + (g[y] - f[y])
    BY ONLY IsFiniteSet(S), <1>1, \A x \in S : f[x] \in Int, <2>1, \A x \in S \ {y} : g[x] = f[x],
            SumChange
  <2>3. g[y] - f[y] = d
    BY <1>1
  <2> QED BY <2>2, <2>3
<1>2. ASSUME y \notin S PROVE SumFunctionOnSet(g, S) = SumFunctionOnSet(f, S)
  <2>1. \A x \in S : f[x] = g[x]
    BY <1>2
  <2> QED BY <2>1, SumAgree
<1> QED BY <1>1, <1>2

\* The sum over what is S once y has come or gone.
LEMMA SumJoined ==
    ASSUME NEW S, IsFiniteSet(S), NEW y, y \notin S, NEW f, NEW g,
           \A x \in S : f[x] \in Int, \A x \in S : g[x] = f[x], g[y] \in Int
    PROVE  SumFunctionOnSet(g, S \cup {y}) = SumFunctionOnSet(f, S) + g[y]
<1>1. SumFunctionOnSet(g, S \cup {y}) = SumFunctionOnSet(g, S) + g[y]
  <2>1. \A x \in S \cup {y} : g[x] \in Int
    OBVIOUS
  <2> QED BY <2>1, SumAdd
<1>2. SumFunctionOnSet(f, S) = SumFunctionOnSet(g, S)
  BY SumAgree
<1> QED BY <1>1, <1>2

LEMMA SumIsInt ==
    ASSUME BookShaped, NEW type, NEW y
    PROVE  Sum(type, y) \in Int
<1> DEFINE S == Booked(type, y)
           f == [i \in S |-> rows[i].amt]
<1>0. IsFiniteSet(S) /\ \A i \in S : rows[i].amt \in Nat
  BY BookedRows
<1>1. IsFiniteSet(S) /\ \A i \in S : f[i] \in Int
  BY ONLY <1>0
<1>2. Sum(type, y) = SumFunctionOnSet(f, S)
  BY BookedRows
<1> HIDE DEF f, S
<1>3. \A T \in SUBSET S : SumFunctionOnSet(f, T) \in Int
  BY ONLY <1>1, SumType
<1> QED BY <1>2, <1>3

LEMMA PostHeld ==
    ASSUME BotInv, NEW r \in Row, r.acc \in DOMAIN accounts, Post(r), NEW y
    PROVE  Held(y)' = Held(y) + IF r.acc \in AccountsIn(y) THEN Effect(r) ELSE 0
<1> DEFINE A == AccountsIn(y)
           f == [a \in A |-> accounts[a].balance]
           g == [a \in A |-> accounts'[a].balance]
<1>1. /\ DOMAIN accounts' = DOMAIN accounts
      /\ \A a \in DOMAIN accounts :
           /\ accounts'[a].ccy = accounts[a].ccy
           /\ accounts'[a].balance = IF a = r.acc THEN accounts[a].balance + Effect(r)
                                     ELSE accounts[a].balance
  BY PostBook DEF BotInv
<1>2. AccountsIn(y)' = A
  BY <1>1 DEF AccountsIn
<1>3. Held(y)' = SumFunctionOnSet(g, A)
  BY <1>2 DEF Held, SumFunction
<1>4. /\ IsFiniteSet(A) /\ A \subseteq DOMAIN accounts
      /\ \A a \in A : f[a] \in Int
      /\ Held(y) = SumFunctionOnSet(f, A)
  BY HeldIsSum DEF BotInv
<1>5. (\A a \in A \ {r.acc} : g[a] = f[a]) /\ (r.acc \in A => g[r.acc] = f[r.acc] + Effect(r))
  BY <1>1, <1>4
<1>6. Effect(r) \in Int
  BY Effects
<1> HIDE DEF A, f, g
<1>7. /\ r.acc \in A => SumFunctionOnSet(g, A) = SumFunctionOnSet(f, A) + Effect(r)
      /\ r.acc \notin A => SumFunctionOnSet(g, A) = SumFunctionOnSet(f, A)
  <2>1. \A y1, d1, g1 : /\ d1 \in Int /\ (\A a \in A \ {y1} : g1[a] = f[a])
                        /\ y1 \in A => g1[y1] = f[y1] + d1
        => /\ y1 \in A => SumFunctionOnSet(g1, A) = SumFunctionOnSet(f, A) + d1
           /\ y1 \notin A => SumFunctionOnSet(g1, A) = SumFunctionOnSet(f, A)
    BY ONLY <1>4, SumShifted
  <2> QED BY ONLY <1>5, <1>6, <2>1
<1>8. SumFunctionOnSet(f, A) \in Int
  <2>1. \A T \in SUBSET A : SumFunctionOnSet(f, T) \in Int
    BY ONLY <1>4, SumType
  <2> QED BY <2>1
<1> QED BY <1>3, <1>4, <1>7, <1>8 DEF A

LEMMA PostSum ==
    ASSUME BotInv, NEW r \in Row, r.status = "CONFIRMED", r.acc \in DOMAIN accounts, Post(r),
           NEW type, NEW y
    PROVE  Sum(type, y)' = Sum(type, y) + IF r.type = type /\ r.acc \in AccountsIn(y) THEN r.amt ELSE 0
<1> DEFINE n == Len(rows) + 1
           S == Booked(type, y)
           f == [i \in S |-> rows[i].amt]
<1>1. /\ DOMAIN rows = 1..Len(rows) /\ Len(rows) \in Nat
      /\ DOMAIN rows' = 1..n /\ rows'[n] = r /\ \A i \in DOMAIN rows : rows'[i] = rows[i]
      /\ \A a \in DOMAIN accounts : accounts'[a].ccy = accounts[a].ccy
  BY PostBook, RowsAreSeq DEF BotInv
<1>2. n \notin DOMAIN rows /\ \A i : i \in DOMAIN rows' <=> i = n \/ i \in DOMAIN rows
  BY <1>1
<1> HIDE DEF n
<1>3. \A i \in DOMAIN rows : accounts'[rows[i].acc].ccy = accounts[rows[i].acc].ccy
  BY <1>1 DEF BotInv, RowsSent
<1>4. S \subseteq DOMAIN rows /\ IsFiniteSet(S) /\ \A i \in S : f[i] \in Int
  <2>1. S \subseteq DOMAIN rows /\ IsFiniteSet(S) /\ \A i \in S : rows[i].amt \in Nat
    BY BookedRows DEF BotInv
  <2> QED BY ONLY <2>1
<1>5. Sum(type, y) = SumFunctionOnSet(f, S)
  BY BookedRows DEF BotInv
<1>6. ASSUME NEW i PROVE i \in Booked(type, y)' <=>
                           i \in S \/ (i = n /\ r.type = type /\ r.acc \in AccountsIn(y))
  <2>1. CASE i \in DOMAIN rows
    BY <1>1, <1>2, <1>3, <2>1 DEF Booked, Confirmed
  <2>2. CASE i = n
    BY <1>1, <1>2, <1>4, <2>2 DEF Booked, Confirmed, AccountsIn
  <2>3. CASE i \notin DOMAIN rows'
    BY <1>2, <1>4, <2>3 DEF Booked, Confirmed
  <2> QED BY <1>2, <2>1, <2>2, <2>3
<1>7. CASE r.type = type /\ r.acc \in AccountsIn(y)
  <2> DEFINE g == [i \in S \cup {n} |-> rows'[i].amt]
  <2>1. Booked(type, y)' = S \cup {n}
    BY <1>6, <1>7
  <2>2. Sum(type, y)' = SumFunctionOnSet(g, S \cup {n})
    BY <2>1 DEF Sum, SumFunction
  <2>3. n \notin S /\ g[n] = r.amt /\ \A i \in S : g[i] = f[i]
    BY <1>1, <1>2, <1>4
  <2>4. r.amt \in Int
    BY DEF Row
  <2> HIDE DEF S, f, g
  <2>5. g[n] \in Int
    BY <2>3, <2>4
  <2>6. SumFunctionOnSet(g, S \cup {n}) = SumFunctionOnSet(f, S) + g[n]
    <3>1. \A m, h : /\ m \notin S /\ h[m] \in Int
                    /\ \A i \in S : h[i] = f[i]
                    => SumFunctionOnSet(h, S \cup {m}) = SumFunctionOnSet(f, S) + h[m]
      BY ONLY <1>4, SumJoined
    <3> QED BY ONLY <2>3, <2>5, <3>1
  <2> QED BY <1>5, <1>7, <2>2, <2>3, <2>6
<1>8. CASE ~(r.type = type /\ r.acc \in AccountsIn(y))
  <2> DEFINE g == [i \in S |-> rows'[i].amt]
  <2>1. Booked(type, y)' = S
    BY <1>6, <1>8
  <2>2. Sum(type, y)' = SumFunction(g)
    BY <2>1 DEF Sum
  <2>3. g = f
    BY <1>1, <1>4
  <2>4. Sum(type, y) = SumFunction(f)
    BY DEF Sum
  <2>5. Sum(type, y) \in Int
    BY SumIsInt DEF BotInv
  <2> QED BY <1>8, <2>2, <2>3, <2>4, <2>5
<1> QED BY <1>7, <1>8

\* A booking keeps the two sides equal.
LEMMA PostBalances ==
    ASSUME BotInv, NEW r \in Row, r.status = "CONFIRMED", r.acc \in DOMAIN accounts, Post(r),
           NEW y, Held(y) = Sum("MASUK", y) - Sum("KELUAR", y)
    PROVE  Held(y)' = Sum("MASUK", y)' - Sum("KELUAR", y)'
<1>1. /\ Held(y)' = Held(y) + IF r.acc \in AccountsIn(y) THEN Effect(r) ELSE 0
      /\ Sum("MASUK", y)' =
            Sum("MASUK", y) + IF r.type = "MASUK" /\ r.acc \in AccountsIn(y) THEN r.amt ELSE 0
      /\ Sum("KELUAR", y)' =
            Sum("KELUAR", y) + IF r.type = "KELUAR" /\ r.acc \in AccountsIn(y) THEN r.amt ELSE 0
  BY PostHeld, PostSum
<1>2. Sum("MASUK", y) \in Int /\ Sum("KELUAR", y) \in Int
  BY SumIsInt DEF BotInv
<1>3. r.amt \in Int /\ r.type \in {"MASUK", "KELUAR"}
  BY DEF Row
<1>4. Effect(r) = IF r.type = "MASUK" THEN r.amt ELSE -r.amt
  BY DEF Effect
<1> QED BY <1>1, <1>2, <1>3, <1>4

LEMMA ReverseHeld ==
    ASSUME BotInv, NEW i \in DOMAIN rows, Reverse(i), NEW y
    PROVE  Held(y)' = Held(y) + IF rows[i].acc \in AccountsIn(y) THEN -Effect(rows[i]) ELSE 0
<1> DEFINE A == AccountsIn(y)
           f == [a \in A |-> accounts[a].balance]
           g == [a \in A |-> accounts'[a].balance]
           r == rows[i]
           d == -Effect(r)
<1>0. r.acc \in DOMAIN accounts /\ Effect(r) \in Int /\ d \in Int
  <2>1. r.acc \in DOMAIN accounts /\ r \in Row
    BY RowsAreSeq DEF BotInv, RowsSent
  <2>2. Effect(r) \in Int
    BY <2>1, Effects
  <2> QED BY <2>1, <2>2
<1>1. /\ DOMAIN accounts' = DOMAIN accounts
      /\ \A a \in DOMAIN accounts :
           /\ accounts'[a].ccy = accounts[a].ccy
           /\ accounts'[a].balance = IF a = r.acc THEN accounts[a].balance - Effect(r)
                                     ELSE accounts[a].balance
  BY <1>0, ReverseBook DEF BotInv
<1>2. AccountsIn(y)' = A
  BY <1>1 DEF AccountsIn
<1>3. Held(y)' = SumFunctionOnSet(g, A)
  BY <1>2 DEF Held, SumFunction
<1>4. /\ IsFiniteSet(A) /\ A \subseteq DOMAIN accounts
      /\ \A a \in A : f[a] \in Int
      /\ Held(y) = SumFunctionOnSet(f, A)
  BY HeldIsSum DEF BotInv
<1>5. (\A a \in A \ {r.acc} : g[a] = f[a]) /\ (r.acc \in A => g[r.acc] = f[r.acc] + d)
  BY <1>0, <1>1, <1>4
<1> HIDE DEF A, f, g, d
<1>7. /\ r.acc \in A => SumFunctionOnSet(g, A) = SumFunctionOnSet(f, A) + d
      /\ r.acc \notin A => SumFunctionOnSet(g, A) = SumFunctionOnSet(f, A)
  <2>1. \A y1, d1, g1 : /\ d1 \in Int /\ (\A a \in A \ {y1} : g1[a] = f[a])
                        /\ y1 \in A => g1[y1] = f[y1] + d1
        => /\ y1 \in A => SumFunctionOnSet(g1, A) = SumFunctionOnSet(f, A) + d1
           /\ y1 \notin A => SumFunctionOnSet(g1, A) = SumFunctionOnSet(f, A)
    BY ONLY <1>4, SumShifted
  <2> QED BY ONLY <1>0, <1>5, <2>1
<1>8. SumFunctionOnSet(f, A) \in Int
  <2>1. \A T \in SUBSET A : SumFunctionOnSet(f, T) \in Int
    BY ONLY <1>4, SumType
  <2> QED BY <2>1
<1> QED BY <1>3, <1>4, <1>7, <1>8 DEF A, d

LEMMA ReverseSum ==
    ASSUME BotInv, NEW i \in Confirmed, Reverse(i), NEW type, NEW y
    PROVE  Sum(type, y)' = Sum(type, y)
               - IF rows[i].type = type /\ rows[i].acc \in AccountsIn(y) THEN rows[i].amt ELSE 0
<1> DEFINE S == Booked(type, y)
           R == S \ {i}
           f == [j \in S |-> rows[j].amt]
           g == [j \in R |-> rows'[j].amt]
<1>0. i \in DOMAIN rows
  BY DEF Confirmed
<1>1. /\ DOMAIN rows' = DOMAIN rows /\ rows'[i].status = "VOID"
      /\ \A j \in DOMAIN rows \ {i} : rows'[j] = rows[j]
      /\ \A a \in DOMAIN accounts : accounts'[a].ccy = accounts[a].ccy
  BY <1>0, ReverseBook DEF BotInv
<1>2. S \subseteq DOMAIN rows /\ IsFiniteSet(S) /\ \A j \in S : f[j] \in Int
  <2>1. S \subseteq DOMAIN rows /\ IsFiniteSet(S) /\ \A j \in S : rows[j].amt \in Nat
    BY BookedRows DEF BotInv
  <2> QED BY ONLY <2>1
<1>3. Sum(type, y) = SumFunctionOnSet(f, S) /\ Sum(type, y) \in Int
  BY BookedRows, SumIsInt DEF BotInv
<1>4. \A j \in DOMAIN rows : rows[j].acc \in DOMAIN accounts
                            /\ accounts'[rows[j].acc].ccy = accounts[rows[j].acc].ccy
  BY <1>1 DEF BotInv, RowsSent
<1>5. Booked(type, y)' = R
  <2> SUFFICES ASSUME NEW j PROVE j \in Booked(type, y)' <=> j \in R
    OBVIOUS
  <2>1. CASE j = i
    BY <1>1, <2>1 DEF Booked, Confirmed
  <2>2. CASE j # i
    BY <1>1, <1>4, <2>2 DEF Booked, Confirmed
  <2> QED BY <2>1, <2>2
<1>6. Sum(type, y)' = SumFunctionOnSet(g, R)
  BY <1>5 DEF Sum, SumFunction
<1>7. \A j \in R : f[j] = g[j]
  BY <1>1, <1>2
<1>8. i \in S <=> rows[i].type = type /\ rows[i].acc \in AccountsIn(y)
  BY <1>0, <1>4 DEF Booked, AccountsIn
<1>9. IsFiniteSet(R)
  BY <1>2, FS_Subset
<1>a. f[i] = rows[i].amt \/ i \notin S
  OBVIOUS
<1>b. rows[i].amt \in Int
  BY <1>0, RowsAreSeq DEF BotInv, Row
<1>c. R = S \ {i}
  OBVIOUS
<1> HIDE DEF S, R, f, g
<1>d. SumFunctionOnSet(f, R) = SumFunctionOnSet(g, R)
  BY ONLY <1>7, <1>9, SumAgree
<1>e. CASE i \in S
  <2>1. SumFunctionOnSet(f, S) = SumFunctionOnSet(f, R) + f[i]
    <3>1. \A j \in S : SumFunctionOnSet(f, S) = SumFunctionOnSet(f, S \ {j}) + f[j]
      BY ONLY <1>2, SumRemove
    <3> QED BY ONLY <1>c, <1>e, <3>1
  <2>2. SumFunctionOnSet(f, R) \in Int
    <3>1. \A T \in SUBSET S : SumFunctionOnSet(f, T) \in Int
      BY ONLY <1>2, SumType
    <3> QED BY <1>c, <3>1
  <2> QED BY <1>3, <1>6, <1>8, <1>a, <1>b, <1>d, <1>e, <2>1, <2>2
<1>f. CASE i \notin S
  <2>1. R = S
    BY <1>c, <1>f
  <2> QED BY <1>3, <1>6, <1>8, <1>d, <1>f, <2>1
<1> QED BY <1>e, <1>f

\* So does the reversal of a row that counts.
LEMMA ReverseBalances ==
    ASSUME BotInv, NEW i \in Confirmed, Reverse(i),
           NEW y, Held(y) = Sum("MASUK", y) - Sum("KELUAR", y)
    PROVE  Held(y)' = Sum("MASUK", y)' - Sum("KELUAR", y)'
<1>0. i \in DOMAIN rows
  BY DEF Confirmed
<1> DEFINE r == rows[i]
<1>1. /\ Held(y)' = Held(y) + IF r.acc \in AccountsIn(y) THEN -Effect(r) ELSE 0
      /\ Sum("MASUK", y)' =
            Sum("MASUK", y) - IF r.type = "MASUK" /\ r.acc \in AccountsIn(y) THEN r.amt ELSE 0
      /\ Sum("KELUAR", y)' =
            Sum("KELUAR", y) - IF r.type = "KELUAR" /\ r.acc \in AccountsIn(y) THEN r.amt ELSE 0
  BY <1>0, ReverseHeld, ReverseSum
<1>2. Sum("MASUK", y) \in Int /\ Sum("KELUAR", y) \in Int
  BY SumIsInt DEF BotInv
<1>3. r.amt \in Int /\ r.type \in {"MASUK", "KELUAR"}
  BY <1>0, RowsAreSeq DEF BotInv, Row
<1>4. Effect(r) = IF r.type = "MASUK" THEN r.amt ELSE -r.amt
  BY DEF Effect
<1> HIDE DEF r
<1> QED BY <1>1, <1>2, <1>3, <1>4

\* And a new account, which is empty.
LEMMA OpenBalances ==
    ASSUME BotInv, NEW c \in Call, OpenAccount(c),
           NEW y, Held(y) = Sum("MASUK", y) - Sum("KELUAR", y)
    PROVE  /\ Held(y)' = Sum("MASUK", y)' - Sum("KELUAR", y)'
           /\ \A a \in DOMAIN accounts : accounts'[a].ccy = accounts[a].ccy
<1> DEFINE n == Len(accounts) + 1
           e == [kind |-> req[c].kind, ccy |-> req[c].ccy, balance |-> 0]
           A == AccountsIn(y)
           f == [a \in A |-> accounts[a].balance]
<1>1. accounts \in Seq(Account) /\ accounts' = Append(accounts, e) /\ UNCHANGED rows
      /\ Len(accounts) \in Nat /\ DOMAIN accounts = 1..Len(accounts)
  BY RowsAreSeq DEF OpenAccount, BotInv, BookShaped
<1>2. e \in Account /\ e.balance = 0
  BY DeskRequests DEF OpenAccount, BotInv, BookShaped, Account
<1> HIDE DEF e
<1>3. /\ DOMAIN accounts' = 1..n /\ accounts'[n] = e
      /\ \A a \in DOMAIN accounts : accounts'[a] = accounts[a]
  BY <1>1, <1>2
<1>4. n \notin DOMAIN accounts /\ \A a : a \in DOMAIN accounts' <=> a = n \/ a \in DOMAIN accounts
  BY <1>1, <1>3
<1> HIDE DEF n
<1>5. Sum("MASUK", y)' = Sum("MASUK", y) /\ Sum("KELUAR", y)' = Sum("KELUAR", y)
  BY <1>1, <1>3, SumsStay
<1>6. /\ IsFiniteSet(A) /\ A \subseteq DOMAIN accounts
      /\ \A a \in A : f[a] \in Int
      /\ Held(y) = SumFunctionOnSet(f, A)
  BY HeldIsSum DEF BotInv
<1>7. Held(y)' = Held(y)
  <2>1. CASE e.ccy = y
    <3> DEFINE g == [a \in A \cup {n} |-> accounts'[a].balance]
    <3>1. AccountsIn(y)' = A \cup {n}
      BY <1>3, <1>4, <2>1 DEF AccountsIn
    <3>2. Held(y)' = SumFunctionOnSet(g, A \cup {n})
      BY <3>1 DEF Held, SumFunction
    <3>3. n \notin A /\ g[n] = 0 /\ \A a \in A : g[a] = f[a]
      BY <1>2, <1>3, <1>4, <1>6
    <3> HIDE DEF A, f, g
    <3>4. SumFunctionOnSet(g, A \cup {n}) = SumFunctionOnSet(f, A) + g[n]
      <4>1. \A m, h : /\ m \notin A /\ h[m] \in Int
                      /\ \A a \in A : h[a] = f[a]
                      => SumFunctionOnSet(h, A \cup {m}) = SumFunctionOnSet(f, A) + h[m]
        <5>1. IsFiniteSet(A) /\ \A a \in A : f[a] \in Int
          BY ONLY <1>6
        <5> QED BY ONLY <5>1, SumJoined
      <4>2. g[n] \in Int
        BY <3>3
      <4> QED BY ONLY <3>3, <4>1, <4>2
    <3>5. SumFunctionOnSet(f, A) \in Int
      <4>1. \A T \in SUBSET A : SumFunctionOnSet(f, T) \in Int
        BY ONLY <1>6, SumType
      <4> QED BY <4>1
    <3> QED BY <1>6, <3>2, <3>3, <3>4, <3>5
  <2>2. CASE e.ccy # y
    <3>1. AccountsIn(y)' = A
      BY <1>3, <1>4, <2>2 DEF AccountsIn
    <3>2. [a \in A |-> accounts'[a].balance] = f
      BY <1>3, <1>6
    <3> QED BY <3>1, <3>2 DEF Held
  <2> QED BY <2>1, <2>2
<1> QED BY <1>3, <1>5, <1>7

-----------------------------------------------------------------------------
(* Every step keeps what a report has and what the accounts hold together. *)

LEMMA ArriveGrows ==
    ASSUME MetInv, NEW c \in Call, NEW p, Arrive(c, p)
    PROVE  \A d \in Call : met[d] \subseteq met'[d]
<1>1. met[c] = {}
  BY DEF MetInv, Arrive
<1>2. \A d \in Call : met'[d] = IF d = c THEN Running ELSE IF d \in Running THEN met[d] \cup {c} ELSE met[d]
  BY DEF Arrive
<1> QED BY <1>1, <1>2

LEMMA QuietProfit ==
    ASSUME BotInv, ProfitInv, UNCHANGED <<req, book, sheet>>,
           \A d \in Call : met[d] \subseteq met'[d],
           \A d \in Call : pc'[d] = "voiding" =>
               \/ pc[d] = "voiding" /\ mem'[d] = mem[d]
               \/ rows[mem'[d].row].status = "CONFIRMED"
    PROVE  ProfitInv'
<1>1. rows' = rows /\ accounts' = accounts
  BY DEF book
<1>2. RowsMove
  BY <1>1 DEF RowsMove, Grown
<1>3. ASSUME NEW c \in Call PROVE SheetTells(c)'
  BY <1>1, <1>2, QuietSheet DEF ProfitInv
<1>4. Alone' => Alone
  BY DEF Alone
<1>5. BalanceInv'
  <2> SUFFICES ASSUME Alone PROVE BalanceInv'
    BY <1>4 DEF BalanceInv
  <2>1. \A c \in Call : pc'[c] = "voiding" => rows'[mem'[c].row].status = "CONFIRMED"
    BY <1>1 DEF ProfitInv, BalanceInv
  <2>2. \A y \in Currency : Held(y)' = Sum("MASUK", y)' - Sum("KELUAR", y)'
    <3>1. \A y : Held(y)' = Held(y)
      BY <1>1 DEF Held, AccountsIn
    <3>2. \A type, y : Sum(type, y)' = Sum(type, y)
      BY <1>1, SumsStay
    <3> QED BY <3>1, <3>2 DEF ProfitInv, BalanceInv
  <2> QED BY <2>1, <2>2 DEF BalanceInv
<1> QED BY <1>3, <1>5 DEF ProfitInv

LEMMA PostProfit ==
    ASSUME BotInv, ProfitInv, NEW r \in Row, r.status = "CONFIRMED", r.acc \in DOMAIN accounts, Post(r),
           UNCHANGED <<req, met, sheet>>,
           \A d \in Call : pc'[d] = "voiding" => pc[d] = "voiding" /\ mem'[d] = mem[d]
    PROVE  ProfitInv'
<1>1. /\ RowsMove /\ \A a \in DOMAIN accounts : accounts'[a].ccy = accounts[a].ccy
      /\ \A i \in DOMAIN rows : rows'[i].status = rows[i].status
  BY PostMoves DEF BotInv
<1>2. ASSUME NEW c \in Call PROVE SheetTells(c)'
  BY <1>1, QuietSheet DEF ProfitInv
<1>3. Alone' = Alone
  BY DEF Alone
<1>4. BalanceInv'
  <2> SUFFICES ASSUME Alone PROVE BalanceInv'
    BY <1>3 DEF BalanceInv
  <2>1. ASSUME NEW c \in Call, pc'[c] = "voiding" PROVE rows'[mem'[c].row].status = "CONFIRMED"
    <3>1. pc[c] = "voiding" /\ mem'[c] = mem[c]
      BY <2>1
    <3>2. mem[c].row \in DOMAIN rows
      BY <3>1 DEF BotInv, BotAt, BotPlace
    <3> QED BY <1>1, <3>1, <3>2 DEF ProfitInv, BalanceInv
  <2>2. ASSUME NEW y \in Currency PROVE Held(y)' = Sum("MASUK", y)' - Sum("KELUAR", y)'
    BY PostBalances DEF ProfitInv, BalanceInv
  <2> QED BY <2>1, <2>2 DEF BalanceInv
<1> QED BY <1>2, <1>4 DEF ProfitInv

\* Two webhooks that are about to void have met.
LEMMA VoidProfit ==
    ASSUME MetInv, BotInv, ProfitInv, NEW c \in Call, Void(c), UNCHANGED sheet
    PROVE  ProfitInv'
<1> DEFINE i == mem[c].row
<1>1. /\ pc[c] = "voiding" /\ Reverse(i) /\ UNCHANGED <<req, met>>
      /\ pc'[c] # "voiding" /\ \A d \in Call \ {c} : pc'[d] = pc[d]
  BY DEF Void, Answer, Proceed, Go, MetInv
<1>2. i \in DOMAIN rows /\ req[c].op = "deliver"
  BY <1>1 DEF BotInv, BotAt, BotPlace
<1> HIDE DEF i
<1>3. RowsMove /\ \A a \in DOMAIN accounts : accounts'[a].ccy = accounts[a].ccy
  BY <1>1, <1>2, ReverseMoves DEF BotInv
<1>4. ASSUME NEW d \in Call PROVE SheetTells(d)'
  BY <1>3, QuietSheet DEF ProfitInv
<1>5. Alone' = Alone
  BY <1>1 DEF Alone
<1>6. BalanceInv'
  <2> SUFFICES ASSUME Alone PROVE BalanceInv'
    BY <1>5 DEF BalanceInv
  <2>1. ASSUME NEW d \in Call, pc'[d] = "voiding" PROVE FALSE
    <3>1. pc[d] = "voiding" /\ d # c
      BY <1>1, <2>1
    <3>2. req[d].op = "deliver"
      BY <3>1 DEF BotInv, BotAt, BotPlace
    <3>3. c \in met[d]
      BY <1>1, <3>1 DEF MetInv, Running, Terminal
    <3> QED BY <1>2, <3>2, <3>3 DEF Alone
  <2>2. i \in Confirmed
    BY <1>1, <1>2 DEF ProfitInv, BalanceInv, Confirmed, i
  <2>3. ASSUME NEW y \in Currency PROVE Held(y)' = Sum("MASUK", y)' - Sum("KELUAR", y)'
    BY <1>1, <2>2, ReverseBalances DEF ProfitInv, BalanceInv
  <2> QED BY <2>1, <2>3 DEF BalanceInv
<1> QED BY <1>4, <1>6 DEF ProfitInv

\* The other steps of the bot look, or answer.
LEMMA BotKeepsProfit ==
    ASSUME MetInv, BotInv, ProfitInv, NEW c \in Call, BotStep(c), UNCHANGED sheet
    PROVE  ProfitInv'
<1>k. mem \in [Call -> MemRow] /\ pc \in [Call -> Place]
  BY DEF BotInv, BotType, MemRow, MetInv
<1>a. ASSUME NEW what, NEW row, Answer(c, what, row)
      PROVE  /\ met' = met
             /\ pc'[c] # "voiding" /\ \A d \in Call \ {c} : pc'[d] = pc[d] /\ mem'[d] = mem[d]
  BY <1>k, <1>a DEF Answer, Proceed, Go
<1>q. ASSUME UNCHANGED <<req, book>>, \A d \in Call : met[d] \subseteq met'[d],
             pc'[c] = "voiding" => rows[mem'[c].row].status = "CONFIRMED",
             \A d \in Call \ {c} : pc'[d] = pc[d] /\ mem'[d] = mem[d]
      PROVE  ProfitInv'
  <2>1. \A d \in Call : pc'[d] = "voiding" =>
            \/ pc[d] = "voiding" /\ mem'[d] = mem[d]
            \/ rows[mem'[d].row].status = "CONFIRMED"
    BY <1>q
  <2> QED BY <1>q, <2>1, QuietProfit
<1>b. ASSUME NEW what, NEW row, Answer(c, what, row), UNCHANGED <<req, book>> PROVE ProfitInv'
  BY <1>a, <1>b, <1>q
<1>g. ASSUME NEW p, p # "voiding", Go(c, p), UNCHANGED <<req, book>>,
             \A d \in Call \ {c} : mem'[d] = mem[d]
      PROVE  ProfitInv'
  <2>1. met' = met /\ pc'[c] # "voiding" /\ \A d \in Call \ {c} : pc'[d] = pc[d]
    BY <1>k, <1>g DEF Go
  <2> QED BY <1>g, <1>q, <2>1
<1>1. CASE Deliver(c)
  <2>1. Arrive(c, "user") /\ UNCHANGED <<req, book>> /\ \A d \in Call \ {c} : mem'[d] = mem[d]
    BY <1>k, <1>1 DEF Deliver
  <2>2. pc'[c] = "user" /\ \A d \in Call \ {c} : pc'[d] = pc[d]
    BY <1>k, <2>1 DEF Arrive
  <2> QED BY <1>q, <2>1, <2>2, ArriveGrows
<1>2. CASE FindUser(c)
  <2> DEFINE p == IF Intent(Message(c).text) = "laporan" THEN "report"
                  ELSE IF Intent(Message(c).text) = "batal" THEN "last" ELSE "account"
  <2>1. UNCHANGED <<req, book>>
    BY <1>2 DEF FindUser
  <2>2. CASE \E what : Answer(c, what, 0)
    BY <1>b, <2>1, <2>2
  <2>3. CASE Go(c, p) /\ \E u : mem' = [mem EXCEPT ![c].user = u]
    <3>1. p # "voiding" /\ \A d \in Call \ {c} : mem'[d] = mem[d]
      BY <1>k, <2>3
    <3> HIDE DEF p
    <3> QED BY <1>g, <2>1, <2>3, <3>1
  <2> QED BY <1>2, <2>2, <2>3 DEF FindUser
<1>3. CASE FindAccount(c)
  <2>1. UNCHANGED <<req, book>>
    BY <1>3 DEF FindAccount
  <2>2. CASE \E what : Answer(c, what, 0)
    BY <1>b, <2>1, <2>2
  <2>3. CASE Go(c, "posting") /\ mem' = [mem EXCEPT ![c].acc = Default]
    BY <1>g, <1>k, <2>1, <2>3
  <2> QED BY <1>3, <2>2, <2>3 DEF FindAccount
<1>4. CASE Report(c) \/ CannotAfford(c) \/ ReadBack(c)
  BY <1>4, <1>b DEF Report, CannotAfford, ReadBack
<1>5. CASE Apologise(c)
  BY <1>5, <1>b DEF Apologise
<1>6. CASE Drop(c)
  BY <1>6, <1>g DEF Drop, botVars
<1>7. CASE FindLast(c)
  <2>1. UNCHANGED <<req, book>>
    BY <1>7 DEF FindLast
  <2>2. CASE Answer(c, "nothing to cancel", 0)
    BY <1>b, <2>1, <2>2
  <2>3. CASE Go(c, "cancelling") /\ mem' = [mem EXCEPT ![c].row = Max(Recent(c))]
    BY <1>g, <1>k, <2>1, <2>3
  <2> QED BY <1>7, <2>2, <2>3 DEF FindLast
<1>8. CASE FindExisting(c)
  <2>1. UNCHANGED <<req, book>> /\ pc[c] = "cancelling"
    BY <1>8 DEF FindExisting
  <2>2. CASE Answer(c, "not cancelled", 0)
    BY <1>b, <2>1, <2>2
  <2>3. CASE rows[mem[c].row].status # "VOID" /\ Go(c, "voiding") /\ UNCHANGED botVars
    <3>1. met' = met /\ mem' = mem /\ \A d \in Call \ {c} : pc'[d] = pc[d]
      BY <1>k, <2>3 DEF Go, botVars
    <3>2. rows[mem[c].row] \in Row
      BY <2>1, RowsAreSeq DEF BotInv, BotAt, BotPlace
    <3>3. rows[mem[c].row].status = "CONFIRMED"
      BY <2>3, <3>2 DEF Row
    <3> QED BY <1>q, <2>1, <3>1, <3>3
  <2> QED BY <1>8, <2>2, <2>3 DEF FindExisting
<1>9. CASE Void(c)
  BY <1>9, VoidProfit
<1>10. CASE Book(c)
  <2> DEFINE r == Booking(c)
  <2>1. /\ pc[c] = "posting" /\ Post(r) /\ UNCHANGED <<req, clock, met>>
        /\ mem' = [mem EXCEPT ![c].row = Len(rows) + 1] /\ pc' = [pc EXCEPT ![c] = "reading back"]
    BY <1>10 DEF Book, Go
  <2>2. r \in Row /\ r.acc \in DOMAIN accounts /\ r.status = "CONFIRMED"
    BY <2>1, BookingShaped
  <2>3. \A d \in Call : pc'[d] = "voiding" => pc[d] = "voiding" /\ mem'[d] = mem[d]
    BY <1>k, <2>1
  <2> HIDE DEF r
  <2> QED BY <2>1, <2>2, <2>3, PostProfit
<1> QED BY <1>1, <1>2, <1>3, <1>4, <1>5, <1>6, <1>7, <1>8, <1>9, <1>10 DEF BotStep

LEMMA CategoryKeepsProfit ==
    ASSUME MetInv, BotInv, ProfitInv, NEW c \in Call, CategoryStep(c), UNCHANGED <<sheet, botVars>>
    PROVE  ProfitInv'
<1>m. mem' = mem
  BY DEF botVars
<1>p. ASSUME NEW d \in Call, pc'[d] = "voiding" PROVE pc[d] = "voiding"
  BY <1>p DEF CategoryStep, CheckName, InsertCategory, FindCategory, FindDuplicate, Rename, CountUses,
     SoftDelete, Enter, Commit, GiveUp, Arrive, Go, MetInv
<1>1. CASE Commit(c)
  <2> DEFINE q == req[c]
             r == [by |-> q.user, acc |-> q.acc, type |-> q.type, amt |-> q.amt, cat |-> q.cat,
                   at |-> clock, status |-> "CONFIRMED", call |-> c, k |-> 0]
  <2>1. Post(r) /\ UNCHANGED <<req, met>>
    BY <1>1 DEF Commit, Go
  <2>2. q \in EnterRequest /\ q.acc \in DOMAIN accounts
    BY <1>1, DeskRequests DEF Commit, BotInv, BookShaped
  <2>3. r \in Row /\ r.status = "CONFIRMED" /\ r.acc \in DOMAIN accounts
    BY <2>2 DEF EnterRequest, Row, BotInv, BookShaped
  <2> HIDE DEF r
  <2> QED BY <1>m, <1>p, <2>1, <2>3, PostProfit
<1>2. CASE ~Commit(c)
  <2>1. UNCHANGED <<req, book>>
    BY <1>2 DEF CategoryStep, CheckName, InsertCategory, FindCategory, FindDuplicate, Rename,
       CountUses, SoftDelete, Enter, GiveUp
  <2>2. met' = met \/ \E p : Arrive(c, p)
    BY <1>2 DEF CategoryStep, CheckName, InsertCategory, FindCategory, FindDuplicate, Rename,
       CountUses, SoftDelete, Enter, GiveUp, Go
  <2>3. \A d \in Call : met[d] \subseteq met'[d]
    BY <2>2, ArriveGrows
  <2> QED BY <1>m, <1>p, <2>1, <2>3, QuietProfit
<1> QED BY <1>1, <1>2

LEMMA RegistryKeepsProfit ==
    ASSUME MetInv, BotInv, ProfitInv, NEW c \in Call, RegistryStep(c), UNCHANGED <<sheet, botVars>>
    PROVE  ProfitInv'
<1>1. UNCHANGED <<req, book, mem>>
  BY DEF RegistryStep, CreateRecord, FindRecord, NotFound, Revalue, Discard, Announce, ReadSettings,
         SaveSettings, Abandon, Write, ownVars, botVars
<1>2. ASSUME NEW d \in Call, pc'[d] = "voiding" PROVE pc[d] = "voiding"
  BY <1>2 DEF RegistryStep, CreateRecord, FindRecord, NotFound, Revalue, Discard, Announce, ReadSettings,
     SaveSettings, Abandon, Arrive, Go, MetInv
<1>3. met' = met \/ \E p : Arrive(c, p)
  BY DEF RegistryStep, CreateRecord, FindRecord, NotFound, Revalue, Discard, Announce, ReadSettings,
     SaveSettings, Abandon, Go
<1>4. \A d \in Call : met[d] \subseteq met'[d]
  BY <1>3, ArriveGrows
<1> QED BY <1>1, <1>2, <1>4, QuietProfit

LEMMA OpenKeepsProfit ==
    ASSUME MetInv, BotInv, ProfitInv, NEW c \in Call, OpenAccount(c), UNCHANGED <<sheet, botVars>>
    PROVE  ProfitInv'
<1>1. /\ rows' = rows /\ mem' = mem /\ req' = req /\ Arrive(c, "ok")
      /\ \A d \in Call : pc'[d] = "voiding" => pc[d] = "voiding"
  BY DEF OpenAccount, Arrive, botVars, MetInv
<1>2. \A a \in DOMAIN accounts : accounts'[a].ccy = accounts[a].ccy
  <2>1. accounts \in Seq(Account)
    BY DEF BotInv, BookShaped
  <2> QED BY <2>1 DEF OpenAccount
<1>3. RowsMove
  BY <1>1 DEF RowsMove, Grown
<1>4. ASSUME NEW d \in Call PROVE SheetTells(d)'
  BY <1>2, <1>3, QuietSheet DEF ProfitInv
<1>5. Alone' => Alone
  BY <1>1, ArriveGrows DEF Alone
<1>6. BalanceInv'
  <2> SUFFICES ASSUME Alone PROVE BalanceInv'
    BY <1>5 DEF BalanceInv
  <2>1. \A d \in Call : pc'[d] = "voiding" => rows'[mem'[d].row].status = "CONFIRMED"
    BY <1>1 DEF ProfitInv, BalanceInv
  <2>2. ASSUME NEW y \in Currency PROVE Held(y)' = Sum("MASUK", y)' - Sum("KELUAR", y)'
    BY OpenBalances DEF ProfitInv, BalanceInv
  <2> QED BY <2>1, <2>2 DEF BalanceInv
<1> QED BY <1>4, <1>6 DEF ProfitInv

\* A worker takes the rows as they are when it begins, and sums up what they are
\* when it sums.
LEMMA ExportKeepsProfit ==
    ASSUME MetInv, BotInv, FileInv, ProfitInv, NEW c \in Call, ExportStep(c), UNCHANGED botVars
    PROVE  ProfitInv'
<1> USE DEF ExportStep, ClientStep, WorkerStep
<1>1. CASE ClientStep(c)
  <2>1. UNCHANGED <<req, book, sheet, mem>>
    BY <1>1 DEF CreateRow, Enqueue, EnqueueFails, exportVars, botVars
  <2>2. ASSUME NEW d \in Call, pc'[d] = "voiding" PROVE pc[d] = "voiding"
    BY <1>1, <2>2 DEF CreateRow, Enqueue, EnqueueFails, Arrive, Go, MetInv
  <2>3. met' = met \/ \E p : Arrive(c, p)
    BY <1>1 DEF CreateRow, Enqueue, EnqueueFails, Go
  <2>4. \A d \in Call : met[d] \subseteq met'[d]
    BY <2>3, ArriveGrows
  <2> QED BY <2>1, <2>2, <2>4, QuietProfit
<1>2. CASE WorkerStep(c)
  <2>1. UNCHANGED <<req, pc, met, rows, accounts, mem>>
    BY <1>2 DEF TakeUp, SumIncome, SumExpense, Upload, Complete, Throws, MarkFailed, MarkFails,
       Acknowledge, WorkerStops, Work, book, botVars
  <2>2. BalanceInv'
    <3>1. Alone' = Alone
      BY <2>1 DEF Alone
    <3>2. \A y : Held(y)' = Held(y)
      BY <2>1 DEF Held, AccountsIn
    <3>3. \A type, y : Sum(type, y)' = Sum(type, y)
      BY <2>1, SumsStay
    <3> QED BY <2>1, <3>1, <3>2, <3>3 DEF ProfitInv, BalanceInv
  <2>3. RowsMove
    BY <2>1 DEF RowsMove, Grown
  <2>4. \A d \in Call \ {c} : sheet'[d] = sheet[d]
    BY <1>2 DEF TakeUp, SumIncome, SumExpense, Upload, Complete, Throws, MarkFailed, MarkFails,
       Acknowledge, WorkerStops, Work, FileInv
  <2>5. ASSUME NEW d \in Call \ {c} PROVE SheetTells(d)'
    BY <2>1, <2>3, <2>4, QuietSheet DEF ProfitInv
  <2>6. \A type : Sums(type)' = Sums(type)
    BY <2>1, SumsStay DEF Sums
  <2>7. sheet \in [Call -> SheetRow] /\ sheet[c] \in SheetRow /\ SheetTells(c)
    BY DEF FileInv, ProfitInv
  <2>8. SheetTells(c)'
    <3>1. CASE TakeUp(c)
      <4>1. sheet'[c].at \in {"reading", "failing"} /\ sheet'[c].seen = rows
        BY <2>7, <3>1 DEF TakeUp, EmptySheet
      <4> QED BY <2>1, <4>1 DEF SheetTells, Grown
    <3>2. CASE SumIncome(c)
      <4>1. /\ sheet'[c].at = "halfway" /\ sheet'[c].seen = sheet[c].seen
            /\ sheet'[c].income = Sums("MASUK") /\ sheet[c].at = "reading"
        BY <2>7, <3>2 DEF SumIncome, SheetRow
      <4> QED BY <2>1, <2>6, <2>7, <4>1 DEF SheetTells, Grown
    <3>3. CASE SumExpense(c)
      <4>1. /\ sheet'[c].at = "summed" /\ sheet'[c].seen = sheet[c].seen
            /\ sheet'[c].income = sheet[c].income
            /\ sheet'[c].expense = Sums("KELUAR") /\ sheet[c].at = "halfway"
        BY <2>7, <3>3 DEF SumExpense, SheetRow
      <4> QED BY <2>1, <2>6, <2>7, <4>1 DEF SheetTells, Grown
    <3>4. CASE Upload(c) \/ Complete(c) \/ Throws(c) \/ MarkFailed(c) \/ MarkFails(c)
      <4>1. PICK to \in {"uploaded", "succeeded", "failing", "thrown"} :
              /\ sheet' = [sheet EXCEPT ![c].at = to] /\ sheet[c].at # "idle"
              /\ to \in {"uploaded", "succeeded"} => sheet[c].at \in {"summed", "uploaded"}
        BY <3>4 DEF Upload, Complete, Throws, MarkFailed, MarkFails, Work
      <4>2. /\ sheet'[c].at = to /\ sheet'[c].seen = sheet[c].seen
            /\ sheet'[c].income = sheet[c].income /\ sheet'[c].expense = sheet[c].expense
        BY <2>7, <4>1 DEF SheetRow
      <4> QED BY <2>1, <2>6, <2>7, <4>1, <4>2 DEF SheetTells, Grown
    <3>5. CASE Acknowledge(c) \/ WorkerStops(c)
      <4>1. sheet'[c].at = "idle"
        BY <2>7, <3>5 DEF Acknowledge, WorkerStops, EmptySheet
      <4> QED BY <4>1 DEF SheetTells
    <3> QED BY <1>2, <3>1, <3>2, <3>3, <3>4, <3>5
  <2> QED BY <2>2, <2>5, <2>8 DEF ProfitInv
<1> QED BY <1>1, <1>2

LEMMA ProfitInvNext ==
    ASSUME MetInv, BotInv, FileInv, ProfitInv, [Next]_vars
    PROVE  ProfitInv'
<1>1. ASSUME NEW c \in Call, UNCHANGED exportVars,
             BotStep(c) \/ ((CategoryStep(c) \/ RegistryStep(c) \/ OpenAccount(c)) /\ UNCHANGED botVars)
      PROVE  ProfitInv'
  <2>1. UNCHANGED sheet
    BY <1>1 DEF exportVars
  <2> QED BY <1>1, <2>1, BotKeepsProfit, CategoryKeepsProfit, RegistryKeepsProfit, OpenKeepsProfit
<1>2. CASE Tick /\ UNCHANGED <<botVars, exportVars>>
  BY <1>2, QuietProfit DEF Tick, botVars, exportVars
<1>3. CASE UNCHANGED vars
  BY <1>3, QuietProfit DEF vars, book, botVars, exportVars
<1> QED BY <1>1, <1>2, <1>3, ExportKeepsProfit DEF Next

LEMMA ProfitInvInit ==
    ASSUME \A s \in Opening : \A a \in DOMAIN s : s[a].balance = 0, Init
    PROVE  ProfitInv
<1>1. /\ rows = <<>> /\ accounts \in Opening /\ \A c \in Call : pc[c] = "idle" /\ sheet[c].at = "idle"
  BY DEF Init, Open, ExportInit, EmptySheet
<1>2. BookShaped
  BY BotInvInit DEF BotInv
<1>3. ASSUME NEW y PROVE Held(y) = 0 /\ \A type : Sum(type, y) = 0
  <2> DEFINE A == AccountsIn(y)
  <2>1. IsFiniteSet(A) /\ A \subseteq DOMAIN accounts
    BY <1>2, HeldIsSum
  <2>2. [a \in A |-> accounts[a].balance] = [a \in A |-> 0]
    BY <1>1, <2>1
  <2>3. Held(y) = SumFunctionOnSet([a \in A |-> 0], A)
    BY <1>2, <2>2, HeldIsSum
  <2>4. SumFunctionOnSet([a \in A |-> 0], A) = 0
    <3> HIDE DEF A
    <3> QED BY <2>1, SumZero
  <2>5. ASSUME NEW type PROVE Sum(type, y) = 0
    <3>1. Booked(type, y) = {}
      BY <1>1 DEF Booked, Confirmed
    <3>2. Sum(type, y) = SumFunctionOnSet([i \in Booked(type, y) |-> rows[i].amt], Booked(type, y))
      BY <1>2, BookedRows
    <3>3. \A f : SumFunctionOnSet(f, {}) = 0
      BY SumEmpty
    <3> QED BY <3>1, <3>2, <3>3
  <2> QED BY <2>3, <2>4, <2>5
<1> QED BY <1>1, <1>3 DEF ProfitInv, SheetTells, BalanceInv

\* The profit of a report is what the accounts of the currency hold, for all
\* that was booked before, if they were opened empty: whatever ran when the
\* report was summed in its two statements.
THEOREM ReportIsBalance ==
    ASSUME \A s \in Opening : \A a \in DOMAIN s : s[a].balance = 0
    PROVE  Spec => []ProfitIsBalance
<1>1. NameInv => MetInv
  BY DEF NameInv
<1>2. Init => ProfitInv
  BY ProfitInvInit
<1>3. MetInv /\ BotInv /\ FileInv /\ ProfitInv /\ [Next]_vars => ProfitInv'
  BY ProfitInvNext
<1>4. ProfitInv => ProfitIsBalance
  <2> SUFFICES ASSUME ProfitInv, Alone, NEW c \in Call, NEW y \in Currency, sheet[c].seen = rows,
                      sheet[c].at \in {"summed", "uploaded", "succeeded"}
               PROVE  sheet[c].income[y] - sheet[c].expense[y] = Held(y)
    BY DEF ProfitIsBalance, Alone, Held
  <2>1. sheet[c].income = Sums("MASUK") /\ sheet[c].expense = Sums("KELUAR")
    BY DEF ProfitInv, SheetTells
  <2>2. Held(y) = Sum("MASUK", y) - Sum("KELUAR", y)
    BY DEF ProfitInv, BalanceInv
  <2> QED BY <2>1, <2>2 DEF Sums
<1> QED BY <1>1, <1>2, <1>3, <1>4, Spec_NameInv, Spec_BotInv, Spec_FileInv, PTL DEF Spec
=============================================================================
