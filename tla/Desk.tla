-------------------------------- MODULE Desk --------------------------------
(***************************************************************************)
(* The desk of one business: its bot, its categories and its exports work  *)
(* on the same accounts and transactions, next to its master data, each as *)
(* its own module says, interleaved step by step.                          *)
(***************************************************************************)
EXTENDS WhatsappBot, CategoryBook, ExportJob, Registry

Request == AccountRequest \cup Webhook \cup NameRequest \cup RemoveRequest \cup EnterRequest
           \cup ExportRequest \cup RecordRequest \cup RevalueRequest \cup DiscardRequest
           \cup SettingsRequest \cup NoRequest

\* What the validation pipe and the signature guard let through.
ASSUME DeskAssumption == Workload \subseteq [Call -> Request]

vars == <<req, pc, accounts, rows, clock, met, botVars, cats, exportVars, registryVars>>

Init == Open /\ BotInit /\ SeedDefaults /\ ExportInit /\ OpenRegistry

Next ==
    \/ \E c \in Call :
        \/ BotStep(c) /\ UNCHANGED <<cats, exportVars, registryVars>>
        \/ CategoryStep(c) /\ UNCHANGED <<botVars, exportVars, registryVars>>
        \/ ExportStep(c) /\ UNCHANGED <<botVars, cats, registryVars>>
        \/ RegistryStep(c) /\ UNCHANGED <<botVars, cats, exportVars>>
        \/ OpenAccount(c) /\ UNCHANGED <<botVars, cats, exportVars, registryVars>>
    \/ Tick /\ UNCHANGED <<botVars, cats, exportVars, registryVars>>

Spec == Init /\ [][Next]_vars

\* BullMQ hands out every job, gives a stalled one back, and the worker that
\* took it goes on; nobody has to call.
FairSpec ==
    Spec /\ WF_vars(\E c \in Call : WorkerStep(c) /\ UNCHANGED <<botVars, cats, registryVars>>)

Place == Terminal \cup
    {"idle", "user", "account", "report", "last", "posting", "reading back", "cancelling",
     "voiding", "naming", "comparing", "renaming", "counting", "deleting", "booking",
     "enqueueing", "announcing", "revaluing", "discarding", "saving"}

\* Every variable of the desk keeps its type.
TypeOK ==
    /\ pc \in [Call -> Place]
    /\ BusinessType /\ BotType /\ CategoryType /\ ExportType /\ RegistryType
=============================================================================
