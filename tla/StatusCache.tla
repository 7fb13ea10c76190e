---------------------------- MODULE StatusCache ----------------------------
(***************************************************************************)
(* The public status page is served from a snapshot in memory              *)
(* (internal/web/status_cache.go).  Handlers and finished inspections      *)
(* change the database and then leave a notice in a channel of capacity    *)
(* one; one worker goroutine takes the notice, sleeps 300 ms, drains the   *)
(* channel and rebuilds the snapshot, query by query.  A ticker rebuilds   *)
(* it every minute as well.                                                *)
(*                                                                         *)
(* A part of the page is what one group of queries reads; its content is   *)
(* a version number, which every change of the part increases.             *)
(***************************************************************************)
EXTENDS Integers

CONSTANTS
    Handlers,           \* requests and inspections that change the page
    MaxChanges          \* bound: versions a part goes through

ASSUME CacheAssumption == MaxChanges \in Nat \ {0}

\* The incidents of the page are rows, and their progress entries rows of another table.
Parts == {"page", "targets", "incidents", "updates"}

VARIABLES
    enabled,            \* the setting status_page_enabled
    content,            \* content[p]: the version of part p in the database
    notices,            \* notices waiting in statusInvalidateCh
    cachePc,            \* cachePc[h]: the next write of handler h, or its notice
    at,                 \* what the worker does next
    draft,              \* what its rebuild has read so far
    snapshot,           \* the snapshot that requests are answered from
    missed              \* history: a change or a failed query went by without notice

db        == <<enabled, content>>
worker    == <<at, draft>>
cacheVars == <<db, notices, cachePc, worker, snapshot, missed>>

Phase == {"idle", "texts", "entry", "first", "parent", "notify"}

\* A query of incidents or of their entries that fails leaves the list empty: version 0.
Version  == 0..MaxChanges
Snapshot == [disabled : BOOLEAN, seen : [Parts -> Version]]
Empty    == [p \in Parts |-> 0]
Disabled == [disabled |-> TRUE, seen |-> Empty]
Page(c)  == [disabled |-> FALSE, seen |-> c]

\* The snapshot that the database calls for.
Current == IF enabled THEN Page(content) ELSE Disabled

CacheTypeOK ==
    /\ enabled \in BOOLEAN
    /\ content \in [Parts -> Version]
    /\ notices \in 0..1
    /\ cachePc \in [Handlers -> Phase]
    /\ at \in {"wait", "sleep", "drain", "check"} \cup Parts \cup {"store"}
    /\ draft \in [Parts -> Version]
    /\ snapshot \in Snapshot
    /\ missed \in BOOLEAN

\* NewServer has built a snapshot; the worker starts with another.
CacheInit ==
    /\ enabled \in BOOLEAN
    /\ content = [p \in Parts |-> 1]
    /\ notices = 0
    /\ cachePc = [h \in Handlers |-> "idle"]
    /\ at = "check"
    /\ draft = Empty
    /\ snapshot = Current
    /\ missed = FALSE

-----------------------------------------------------------------------------
(* The handlers.                                                            *)

StepTo(h, l) == cachePc' = [cachePc EXCEPT ![h] = l]

Change(p) ==
    /\ content[p] < MaxChanges
    /\ content' = [content EXCEPT ![p] = @ + 1]

\* POST /api/settings/status-page writes the switch first ...
Switch(h, on) ==
    /\ cachePc[h] = "idle"
    /\ content["page"] < MaxChanges
    /\ enabled' = on
    /\ StepTo(h, "texts")
    /\ UNCHANGED <<content, notices, worker, snapshot, missed>>

\* ... then the texts.
SaveTexts(h) ==
    /\ cachePc[h] = "texts"
    /\ IF content["page"] < MaxChanges THEN Change("page") ELSE UNCHANGED content
    /\ StepTo(h, "notify")
    /\ UNCHANGED <<enabled, notices, worker, snapshot, missed>>

\* A target is saved, an incident saved or deleted with its entries, or an inspection has
\* written its verdict and counted it in the daily rollups.
Save(h, p) ==
    /\ cachePc[h] = "idle"
    /\ p \in {"targets", "incidents"}
    /\ Change(p)
    /\ StepTo(h, "notify")
    /\ UNCHANGED <<enabled, notices, worker, snapshot, missed>>

\* An incident is created, and its message is to become the first entry.
CreateIncident(h) ==
    /\ cachePc[h] = "idle"
    /\ Change("incidents")
    /\ StepTo(h, "entry")
    /\ UNCHANGED <<enabled, notices, worker, snapshot, missed>>

\* AddStatusPageIncidentUpdate inserts the entry ...
AddEntry(h) ==
    /\ cachePc[h] \in {"idle", "entry"}
    /\ Change("updates")
    /\ StepTo(h, IF cachePc[h] = "entry" THEN "first" ELSE "parent")
    /\ UNCHANGED <<enabled, notices, worker, snapshot, missed>>

\* ... then updates its incident ...
UpdateParent(h) ==
    /\ cachePc[h] \in {"first", "parent"}
    /\ IF content["incidents"] < MaxChanges THEN Change("incidents") ELSE UNCHANGED content
    /\ StepTo(h, "notify")
    /\ UNCHANGED <<enabled, notices, worker, snapshot, missed>>

\* ... unless one of the two fails: an error is answered and nobody told, but the error
\* of a first entry is dropped and its incident announced.
AddFails(h) ==
    \/ /\ cachePc[h] = "parent"
       /\ missed' = TRUE
       /\ StepTo(h, "idle")
       /\ UNCHANGED <<db, notices, worker, snapshot>>
    \/ /\ cachePc[h] \in {"entry", "first"}
       /\ StepTo(h, "notify")
       /\ UNCHANGED <<db, notices, worker, snapshot, missed>>

\* A change nobody is told of: a host or a rule is deleted and its target with it, a
\* snapshot is restored, old rollups are pruned.
SaveSilently ==
    /\ Change("targets")
    /\ missed' = TRUE
    /\ UNCHANGED <<enabled, notices, cachePc, worker, snapshot>>

\* A notice is left unless one is waiting already.
InvalidateStatusPageCache(h) ==
    /\ cachePc[h] = "notify"
    /\ notices' = 1
    /\ StepTo(h, "idle")
    /\ UNCHANGED <<db, worker, snapshot, missed>>

-----------------------------------------------------------------------------
(* The worker.                                                              *)

Ticker ==
    /\ at = "wait"
    /\ at' = "check"
    /\ UNCHANGED <<db, notices, cachePc, draft, snapshot, missed>>

TakeNotice ==
    /\ at = "wait"
    /\ notices > 0
    /\ notices' = notices - 1
    /\ at' = "sleep"
    /\ UNCHANGED <<db, cachePc, draft, snapshot, missed>>

Wake ==
    /\ at = "sleep"
    /\ at' = "drain"
    /\ UNCHANGED <<db, notices, cachePc, draft, snapshot, missed>>

Drain ==
    /\ at = "drain"
    /\ IF notices > 0 THEN notices' = notices - 1 /\ UNCHANGED at
       ELSE at' = "check" /\ UNCHANGED notices
    /\ UNCHANGED <<db, cachePc, draft, snapshot, missed>>

\* The order of the queries of rebuildStatusPageSnapshot.
After(p) == CASE p = "page" -> "targets"
              [] p = "targets" -> "incidents"
              [] p = "incidents" -> "updates"
              [] OTHER -> "store"

\* The switch is off: the disabled snapshot is stored at once.
CheckEnabled ==
    /\ at = "check"
    /\ missed' = FALSE
    /\ IF enabled THEN at' = "page" /\ UNCHANGED snapshot
       ELSE at' = "wait" /\ snapshot' = Disabled
    /\ UNCHANGED <<db, notices, cachePc, draft>>

Read(p) ==
    /\ at = p
    /\ draft' = [draft EXCEPT ![p] = content[p]]
    /\ at' = After(p)
    /\ UNCHANGED <<db, notices, cachePc, snapshot, missed>>

\* A query fails.  Without targets there is no new snapshot; without incidents or their
\* entries (whose errors are dropped) there is one that has none.
ReadFails ==
    /\ \/ at = "targets" /\ at' = "wait" /\ UNCHANGED draft
       \/ /\ at \in {"incidents", "updates"}
          /\ at' = After(at)
          /\ draft' = [draft EXCEPT ![at] = 0]
    /\ missed' = TRUE
    /\ UNCHANGED <<db, notices, cachePc, snapshot>>

\* Mutant of StoreSnapshot: the notices of the meantime are taken for served.
StoreAndDrain ==
    /\ at = "store"
    /\ snapshot' = Page(draft)
    /\ notices' = 0
    /\ at' = "wait"
    /\ UNCHANGED <<db, cachePc, draft, missed>>

\* Mutant of StoreSnapshot: a page that is disabled stays so until the next start.
StoreIfEnabled ==
    /\ at = "store"
    /\ snapshot' = IF snapshot.disabled THEN snapshot ELSE Page(draft)
    /\ at' = "wait"
    /\ UNCHANGED <<db, notices, cachePc, draft, missed>>

StoreSnapshot ==
    /\ at = "store"
    /\ snapshot' = Page(draft)
    /\ at' = "wait"
    /\ UNCHANGED <<db, notices, cachePc, draft, missed>>

Rebuild == CheckEnabled \/ (\E p \in Parts : Read(p)) \/ StoreSnapshot
Worker  == TakeNotice \/ Wake \/ Drain \/ Rebuild

CacheNext ==
    \/ \E h \in Handlers :
          \/ \E on \in BOOLEAN : Switch(h, on)
          \/ SaveTexts(h)
          \/ \E p \in Parts : Save(h, p)
          \/ CreateIncident(h) \/ AddEntry(h) \/ UpdateParent(h) \/ AddFails(h)
          \/ InvalidateStatusPageCache(h)
    \/ SaveSilently
    \/ Ticker \/ Worker \/ ReadFails

CacheSpec == CacheInit /\ [][CacheNext]_cacheVars

\* Handlers and worker run, and the ticker ticks.
CacheFairness ==
    /\ \A h \in Handlers :
        /\ WF_cacheVars(SaveTexts(h)) /\ WF_cacheVars(UpdateParent(h))
        /\ WF_cacheVars(InvalidateStatusPageCache(h))
    /\ WF_cacheVars(Worker) /\ WF_cacheVars(Ticker)

FairCacheSpec == CacheSpec /\ CacheFairness

-----------------------------------------------------------------------------
(* Properties.                                                              *)

\* While nothing is under way the snapshot is what the database calls for, however
\* changes, entries and their incidents written in two statements, notices and a rebuild
\* that is reading query by query have overlapped:
\* no notice is lost.  A change nobody was told of, or a failed query, since the last
\* rebuild began (missed) is the exception.
SettledIsCurrent ==
    at = "wait" /\ notices = 0 /\ (\A h \in Handlers : cachePc[h] = "idle") /\ ~missed
        => snapshot = Current

\* Unless queries fail for ever, the page catches up with every change, silent ones
\* included (the ticker), whatever has failed and been published before.
CatchesUp == []<><<ReadFails>>_cacheVars \/ []<>(snapshot = Current)
=============================================================================
