------------------------------ MODULE Registry -------------------------------
(***************************************************************************)
(* The master data of a business: its assets and liabilities, which go     *)
(* through the same code in two tables and are announced to the browsers   *)
(* that follow the event stream, and its settings, whose changes go into   *)
(* the audit log.                                                          *)
(***************************************************************************)
EXTENDS Business

CONSTANTS
    Value,          \* of an asset, and the amount of a liability
    Column, Choice, \* the columns of the settings, and what an owner may choose
    Standard        \* what the settings are when the business is created

ASSUME RegistryAssumption == Standard \in [Column -> Choice] /\ Value \subseteq Nat

Kind == {"asset", "liability"}
RecordRequest == [op: {"record"}, kind: Kind, val: Value]
RevalueRequest == [op: {"revalue"}, kind: Kind, of: Call, val: Value]
DiscardRequest == [op: {"discard"}, kind: Kind, of: Call]

\* UpdateSettingsDto: a choice for each of the columns it names.
SettingsRequest == [op: {"settings"}, set: UNION {[K -> Choice] : K \in SUBSET Column}]

VARIABLES
    records,   \* Asset and Liability; the call that creates a record is its id
    feed,      \* the events emitted, in their order
    settings,  \* the columns of Business
    trail,     \* AuditLog of the settings; by is history
    hand       \* the row a call has got from the database

registryVars == <<records, feed, settings, trail, hand>>
ownVars == <<req, book, clock>>

NoRecord == [state |-> "absent", kind |-> "asset", val |-> 0]

OpenRegistry ==
    /\ records = [c \in Call |-> NoRecord]
    /\ feed = <<>>
    /\ settings = Standard
    /\ trail = <<>>
    /\ hand = [c \in Call |-> <<>>]

-----------------------------------------------------------------------------
(* AssetLiabilityService *)

\* The record call c is about: the one it makes, or the one it names.
RecordOf(c) == IF req[c].op = "record" THEN c ELSE req[c].of

\* The row is written, and comes back.
Write(c, row) ==
    /\ records' = [records EXCEPT ![RecordOf(c)] = row]
    /\ hand' = [hand EXCEPT ![c] = row]
    /\ UNCHANGED <<ownVars, feed, settings, trail>>

CreateRecord(c) ==
    /\ req[c].op = "record" /\ Arrive(c, "announcing")
    /\ Write(c, [state |-> "live", kind |-> req[c].kind, val |-> req[c].val])

Findable(c) == /\ records[req[c].of].state = "live"
               /\ records[req[c].of].kind = req[c].kind

FindRecord(c) ==
    /\ req[c].op \in {"revalue", "discard"} /\ Findable(c)
    /\ Arrive(c, IF req[c].op = "revalue" THEN "revaluing" ELSE "discarding")
    /\ UNCHANGED <<ownVars, registryVars>>

NotFound(c) ==
    /\ req[c].op \in {"revalue", "discard"} /\ ~Findable(c)
    /\ Arrive(c, "failed")
    /\ UNCHANGED <<ownVars, registryVars>>

\* By the id alone: a record deleted meanwhile is written all the same.
Revalue(c) ==
    /\ pc[c] = "revaluing" /\ Go(c, "announcing")
    /\ Write(c, [records[req[c].of] EXCEPT !.val = req[c].val])

Discard(c) ==
    /\ pc[c] = "discarding" /\ Go(c, "announcing")
    /\ Write(c, [records[req[c].of] EXCEPT !.state = "deleted"])

Event(c) == [of |-> RecordOf(c), op |-> req[c].op, val |-> hand[c].val]

\* Variant: a deletion is not announced.
AnnounceRows(c) ==
    /\ pc[c] = "announcing" /\ Go(c, "ok")
    /\ feed' = IF hand[c].state = "live" THEN Append(feed, Event(c)) ELSE feed
    /\ UNCHANGED <<ownVars, records, settings, trail, hand>>

\* emitEvent, in the continuation of the write, with the row that came back.
Announce(c) ==
    /\ pc[c] = "announcing" /\ Go(c, "ok")
    /\ feed' = Append(feed, Event(c))
    /\ UNCHANGED <<ownVars, records, settings, trail, hand>>

-----------------------------------------------------------------------------
(* SettingsService.updateSettings *)

\* existing is read for the audit log.
ReadSettings(c) ==
    /\ req[c].op = "settings" /\ Arrive(c, "saving")
    /\ hand' = [hand EXCEPT ![c] = settings]
    /\ UNCHANGED <<ownVars, records, feed, settings, trail>>

\* Variant: the row is written as it was read, with the choices in it.
MergeIntoRead(c) == [k \in Column |-> IF k \in DOMAIN req[c].set THEN req[c].set[k] ELSE hand[c][k]]

\* Only the columns that were given are written.
Merged(c) == [k \in Column |-> IF k \in DOMAIN req[c].set THEN req[c].set[k] ELSE settings[k]]

\* Update and audit entry in one transaction.
SaveSettings(c) ==
    /\ pc[c] = "saving" /\ Go(c, "ok")
    /\ settings' = Merged(c)
    /\ trail' = Append(trail, [by |-> c, before |-> hand[c], after |-> Merged(c)])
    /\ UNCHANGED <<ownVars, records, feed, hand>>

-----------------------------------------------------------------------------

\* The database refuses a statement, or the process stops.
Abandon(c) ==
    /\ pc[c] \in {"revaluing", "discarding", "saving", "announcing"}
    /\ Go(c, "lost")
    /\ UNCHANGED <<ownVars, registryVars>>

RegistryStep(c) ==
    \/ CreateRecord(c) \/ FindRecord(c) \/ NotFound(c) \/ Revalue(c) \/ Discard(c) \/ Announce(c)
    \/ ReadSettings(c) \/ SaveSettings(c) \/ Abandon(c)

-----------------------------------------------------------------------------
(* Properties. *)

RegistryType ==
    /\ records \in [Call -> [state: {"absent", "live", "deleted"}, kind: Kind, val: Value \cup {0}]]
    /\ feed \in Seq([of: Call, op: {"record", "revalue", "discard"}, val: Value])
    /\ settings \in [Column -> Choice]
    /\ trail \in Seq([by: Call, before: [Column -> Choice], after: [Column -> Choice]])

\* What a browser shows of record r that applies the events one by one.
Shown(r) ==
    LET about == {n \in DOMAIN feed : feed[n].of = r}
    IN  IF about = {} \/ feed[Max(about)].op = "discard" THEN {} ELSE {feed[Max(about)].val}

\* The calls that wrote record r, or are about to.
Writers(r) == {c \in Call : /\ req[c].op \in {"record", "revalue", "discard"} /\ RecordOf(c) = r
                            /\ pc[c] \notin {"idle", "failed"}}

\* A browser that follows the events shows each record as the table has it,
\* once those who write it have answered, unless two of them overlapped or one
\* was cut off.
FeedIsTable ==
    \A r \in Call :
        /\ \A c \in Writers(r) : pc[c] = "ok"
        /\ \A c, d \in Writers(r) : c \notin met[d]
        => Shown(r) = IF records[r].state = "live" THEN {records[r].val} ELSE {}

\* No change of the settings is lost: each column holds what the last of those
\* who set it asked for, however they overlapped; and the audit log tells the
\* whole story, in which only entries of calls that overlapped come between
\* a beforeState and the afterState it repeats.
ChangesStand ==
    /\ \A k \in Column :
          LET those == {n \in DOMAIN trail : k \in DOMAIN req[trail[n].by].set}
          IN  those # {} => settings[k] = req[trail[Max(those)].by].set[k]
    /\ trail # <<>> => trail[Len(trail)].after = settings
    /\ \A n \in DOMAIN trail : \E m \in 0..n - 1 :
          /\ \A k \in m + 1..n - 1 : trail[k].by \in met[trail[n].by]
          /\ trail[n].before = IF m = 0 THEN Standard ELSE trail[m].after
=============================================================================
