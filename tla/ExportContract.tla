--------------------------- MODULE ExportContract ---------------------------
(***************************************************************************)
(* What an export promises to the client that polls it, whatever the       *)
(* worker, the queue and the storage go through: every export the queue    *)
(* has taken is settled one day; from then on the status says the same     *)
(* thing for ever; and what it says is what became of the export, unless   *)
(* the last attempt ended without a word.                                  *)
(***************************************************************************)
CONSTANT Export

VARIABLES
    told,      \* the status a poll of each export answers with
    fate,      \* what has become of each
    restarted  \* whether the worker has stopped while it was at it

contractVars == <<told, fate, restarted>>

Settled == {"done", "given up", "silent"}

Start ==
    /\ told = [e \in Export |-> "ABSENT"]
    /\ fate = [e \in Export |-> "unknown"]
    /\ restarted = [e \in Export |-> FALSE]

Fate(e, f) == fate' = [fate EXCEPT ![e] = f]

\* The row is there, the job is not.
Ask(e) ==
    /\ fate[e] = "unknown" /\ Fate(e, "asked")
    /\ told' = [told EXCEPT ![e] = "PROCESSING"]
    /\ UNCHANGED restarted

\* The queue has it, or never will.
Accept(e) ==
    /\ fate[e] = "asked"
    /\ Fate(e, "open") \/ Fate(e, "refused")
    /\ UNCHANGED <<told, restarted>>

\* A file, or a failure that may be the last; a file is taken back only by a
\* worker that did not know of it.
Tell(e, status) ==
    /\ fate[e] = "open"
    /\ told[e] = "COMPLETED" /\ status = "FAILED" => restarted[e]
    /\ told' = [told EXCEPT ![e] = status]
    /\ UNCHANGED <<fate, restarted>>

Restart(e) ==
    /\ fate[e] = "open"
    /\ Fate(e, "open") \/ Fate(e, "silent")
    /\ restarted' = [restarted EXCEPT ![e] = TRUE]
    /\ UNCHANGED told

Settle(e) ==
    /\ fate[e] = "open"
    /\ \/ told[e] = "COMPLETED" /\ Fate(e, "done")
       \/ told[e] = "FAILED" /\ Fate(e, "given up")
       \/ Fate(e, "silent")
    /\ UNCHANGED <<told, restarted>>

ContractStep(e) ==
    \/ Ask(e) \/ Accept(e) \/ Restart(e) \/ Settle(e)
    \/ \E status \in {"COMPLETED", "FAILED"} : Tell(e, status)

Safe == Start /\ [][\E e \in Export : ContractStep(e)]_contractVars

Contract == Safe /\ \A e \in Export : fate[e] = "open" ~> fate[e] \in Settled
=============================================================================
