---------------------------- MODULE BackupProofs ----------------------------
(***************************************************************************)
(* Proofs about Backup.tla, for any hosts, goroutines and bounds.           *)
(***************************************************************************)
EXTENDS Backup, TLAPS

\* The steps of a backup: before its export, from then on, and until it is stored.
Early   == {"idle", "wait", "hosts"}
Unsent  == {"rules", "rest", "pull", "put", "await", "repull"}
Started == Unsent \cup {"stamp"}

\* Whoever is past the mutex has it; backups and restores have different steps.
Turns ==
    /\ \A c \in Goroutines : pc[c] \notin {"idle", "wait"} => mu = c
    /\ pc[Restorer] \in {"idle", "wait", "pull", "import", "settings"}
    /\ \A c \in Pushers : pc[c] \in Early \cup Started

\* A backup has the number of the last export that was started.
Numbers ==
    \A c \in Pushers :
        /\ pc[c] \in Early => snap[c].no = 0
        /\ pc[c] \in Started => snap[c].no = exports /\ exports > 0
        /\ pc[c] \in Unsent => snap[c].no \notin stored
        /\ pc[c] = "stamp" => snap[c].no \in stored

\* While the file has the version sha, nothing later than export no has been stored.
Fresh(sha, no) == sha <= remote.sha /\ (sha = remote.sha => \A n \in stored : n < no)

\* A PUT that replaces the present version has the latest export; at most one PUT of an
\* export is under way, and the goroutine that made the export, if it still runs, waits for it.
Wires ==
    /\ \A p \in wire : p.snap.no \in 1..exports /\ Fresh(p.sha, p.snap.no)
    /\ \A p, q \in wire : p.snap.no = q.snap.no => p = q
    /\ \A p \in wire, c \in Pushers : snap[c].no = p.snap.no => AnswersTo(p, c)
    /\ \A c \in Pushers : pc[c] = "put" => Fresh(base[c], snap[c].no)
    /\ \A c \in Pushers : pc[c] \in Early \cup {"rules", "rest", "pull"} => base[c] = 0

\* The file has an export of its own, the last that was stored, or that of another instance.
File ==
    /\ remote.sha = 0 => stored = {}
    /\ remote.snap.no \in stored \cup {0}
    /\ Ours => \A n \in stored : n <= remote.snap.no
    /\ last \in stored \cup {0}

Fit(s) == s.crossed \/ Fits(s)

\* The tables have the rules of their own hosts.
OwnRules == Fit(db) /\ \A i \in Ids \ used : db.host[i] = "none"

\* So has what is exported or pulled; the ids that an export has yet to ask the rules of
\* are not given to other hosts.
Asks(c) ==
    pc[c] = "rules" =>
        \/ snap[c].crossed
        \/ /\ ~db.crossed
           /\ \A i \in todo[c] : i \in used /\ db.host[i] \in {"none", snap[c].host[i]}

Content ==
    /\ OwnRules
    /\ Fit(remote.snap)
    /\ \A p \in wire : Fit(p.snap)
    /\ \A c \in Goroutines : Fit(snap[c]) /\ Asks(c)

Inv == TypeOK /\ Turns /\ Numbers /\ Wires /\ File /\ Content

-----------------------------------------------------------------------------
(* Types.                                                                   *)

Types ==
    /\ db \in Tables
    /\ used \subseteq Ids
    /\ enabled \in BOOLEAN /\ due \in BOOLEAN
    /\ pc \in [Goroutines -> Steps]
    /\ snap \in [Goroutines -> Snapshots]
    /\ todo \in [Goroutines -> SUBSET Ids]
    /\ base \in [Goroutines -> Nat]
    /\ try \in [Goroutines -> 1..2]
    /\ wire \subseteq [try : 1..2, sha : Nat, snap : Snapshots]
    /\ remote \in [sha : Nat, snap : Snapshots]
    /\ exports \in Nat /\ stored \subseteq 1..exports /\ last \in 0..exports
    /\ faults \in 0..MaxFaults /\ foreign \in 0..MaxForeign /\ calls \in 0..MaxCalls

Holder == mu \in {c \in Goroutines : pc[c] \notin {"idle", "wait"}} \cup {Nobody}

LEMMA TypeSplit == TypeOK <=> Types /\ Holder
BY DEF TypeOK, Types, Holder

LEMMA Members ==
    /\ Pushers \subseteq Goroutines /\ Restorer \in Goroutines /\ Restorer \notin Pushers
    /\ Scheduler \in Pushers /\ Nobody \notin Goroutines
    /\ \A c \in Goroutines : c \in Pushers \/ c = Restorer
BY BackupAssumption DEF Goroutines, Nobody

LEMMA EmptyIs ==
    /\ Empty \in Snapshots /\ Theirs \in Snapshots
    /\ Empty.no = 0 /\ Empty.host = Nowhere /\ Empty.rule = Nowhere /\ ~Empty.crossed
    /\ Theirs.no = 0 /\ Fits(Empty) /\ Fits(Theirs)
<1>1. Nowhere \in [Ids -> Who] /\ [i \in Ids |-> "theirs"] \in [Ids -> Who]
  BY DEF Nowhere, Who
<1>2. /\ Empty \in Snapshots /\ Empty.no = 0 /\ Empty.host = Nowhere /\ Empty.rule = Nowhere
      /\ ~Empty.crossed
  BY <1>1 DEF Empty, Snapshots
<1>3. /\ Theirs \in Snapshots /\ Theirs.no = 0
      /\ Theirs.host = [i \in Ids |-> "theirs"] /\ Theirs.rule = [i \in Ids |-> "theirs"]
  BY <1>1 DEF Theirs, Empty, Snapshots
<1>4. Fits(Empty) /\ Fits(Theirs)
  BY <1>2, <1>3 DEF Fits, Nowhere
<1> QED BY <1>2, <1>3, <1>4

\* A field of a snapshot is replaced.
LEMMA SnapIs ==
    ASSUME NEW s \in Snapshots
    PROVE  /\ s.no \in Nat /\ s.host \in [Ids -> Who] /\ s.rule \in [Ids -> Who]
           /\ s.preset \in SUBSET Ids /\ s.enabled \in BOOLEAN /\ s.due \in BOOLEAN
           /\ s.crossed \in BOOLEAN
BY DEF Snapshots

LEMMA WithRule ==
    ASSUME NEW s \in Snapshots, NEW i \in Ids, NEW w \in Who, NEW t,
           t = [s EXCEPT !.rule[i] = w]
    PROVE  /\ t \in Snapshots /\ t.no = s.no /\ t.host = s.host /\ t.crossed = s.crossed
           /\ t.rule[i] = w /\ \A j \in Ids \ {i} : t.rule[j] = s.rule[j]
BY DEF Snapshots

LEMMA WithSettings ==
    ASSUME NEW s \in Snapshots, NEW e \in BOOLEAN, NEW d \in BOOLEAN, NEW t,
           t = [s EXCEPT !.enabled = e, !.due = d]
    PROVE  /\ t \in Snapshots /\ t.no = s.no /\ t.host = s.host /\ t.crossed = s.crossed
           /\ t.rule = s.rule
BY DEF Snapshots

LEMMA WithPresets ==
    ASSUME NEW s \in Snapshots, NEW ps \in SUBSET Ids, NEW t, t = [s EXCEPT !.preset = ps]
    PROVE  /\ t \in Snapshots /\ t.no = s.no /\ t.host = s.host /\ t.crossed = s.crossed
           /\ t.rule = s.rule
BY DEF Snapshots

LEMMA WithCrossing ==
    ASSUME NEW s \in Snapshots, NEW b \in BOOLEAN, NEW t, t = [s EXCEPT !.crossed = @ \/ b]
    PROVE  /\ t \in Snapshots /\ t.no = s.no /\ t.host = s.host /\ t.rule = s.rule
           /\ t.crossed = (s.crossed \/ b)
BY DEF Snapshots

LEMMA WithHosts ==
    ASSUME NEW h \in [Ids -> Who], NEW b \in BOOLEAN, NEW n \in Nat
    PROVE  LET t == [Empty EXCEPT !.host = h, !.crossed = b, !.no = n]
           IN  t \in Snapshots /\ t.no = n /\ t.host = h /\ t.crossed = b /\ t.rule = Nowhere
BY EmptyIs DEF Snapshots, Empty

\* What the actions on the tables leave.
LEMMA EditIs ==
    ASSUME db \in Tables, NEW i \in Ids, used \subseteq Ids,
           AddHost(i) \/ DeleteHost(i) \/ SaveRule(i) \/ SavePreset(i)
    PROVE  /\ db' \in Tables /\ used' \subseteq Ids /\ db'.crossed = db.crossed
           /\ \A j \in Ids \ {i} : db'.host[j] = db.host[j] /\ db'.rule[j] = db.rule[j]
           /\ \/ /\ \A j \in used : j < i
                 /\ db'.rule[i] = db.rule[i] /\ used' = {j \in Ids : j <= i}
              \/ /\ used' = used /\ db'.host[i] \in {"none", db.host[i]}
                 /\ db.host[i] # "none"
                 /\ \/ db'.rule[i] \in {"none", db'.host[i]}
                    \/ db'.rule[i] = db.rule[i] /\ db'.host[i] = db.host[i]
<1>1. db.host \in [Ids -> Who] /\ db.rule \in [Ids -> Who] /\ db.preset \in SUBSET Ids /\ db.crossed \in BOOLEAN
  BY DEF Tables
<1>2. CASE AddHost(i)
  BY <1>1, <1>2 DEF AddHost, Tables, Who
<1>3. CASE DeleteHost(i)
  <2>1. /\ db'.host = [db.host EXCEPT ![i] = "none"] /\ db'.rule = [db.rule EXCEPT ![i] = "none"]
        /\ db'.preset = db.preset \ {i} /\ db'.crossed = db.crossed /\ db' \in Tables
        /\ used' = used /\ db.host[i] # "none"
    BY <1>1, <1>3 DEF DeleteHost, Tables, Who
  <2> QED BY <1>1, <2>1
<1>4. CASE SaveRule(i)
  <2>1. /\ db'.host = db.host /\ db'.rule = [db.rule EXCEPT ![i] = db.host[i]]
        /\ db'.crossed = db.crossed /\ db' \in Tables /\ used' = used /\ db.host[i] # "none"
    BY <1>1, <1>4 DEF SaveRule, Tables, Who
  <2> QED BY <1>1, <2>1
<1>5. CASE SavePreset(i)
  <2>1. /\ db'.host = db.host /\ db'.rule = db.rule
        /\ db'.crossed = db.crossed /\ db' \in Tables /\ used' = used /\ db.host[i] # "none"
    BY <1>1, <1>5 DEF SavePreset, Tables, Who
  <2> QED BY <1>1, <2>1
<1> QED BY <1>2, <1>3, <1>4, <1>5

\* What a goroutine that returns leaves.
LEMMA ReturnIs ==
    ASSUME Types, NEW c \in Goroutines, Return(c)
    PROVE  /\ pc' \in [Goroutines -> Steps] /\ snap' \in [Goroutines -> Snapshots]
           /\ todo' \in [Goroutines -> SUBSET Ids] /\ base' \in [Goroutines -> Nat]
           /\ try' \in [Goroutines -> 1..2]
           /\ pc'[c] = "idle" /\ snap'[c] = Empty /\ base'[c] = 0
           /\ \A d \in Goroutines \ {c} : /\ pc'[d] = pc[d] /\ snap'[d] = snap[d]
                                          /\ todo'[d] = todo[d] /\ base'[d] = base[d]
                                          /\ try'[d] = try[d]
           /\ mu' = IF mu = c THEN Nobody ELSE mu
<1>1. "idle" \in Steps
  BY DEF Steps
<1>2. pc' \in [Goroutines -> Steps] /\ pc'[c] = "idle" /\ \A d \in Goroutines \ {c} : pc'[d] = pc[d]
  BY <1>1 DEF Types, Return, Goto
<1>3. /\ snap' \in [Goroutines -> Snapshots] /\ snap'[c] = Empty
      /\ \A d \in Goroutines \ {c} : snap'[d] = snap[d]
  BY EmptyIs DEF Types, Return
<1>4. /\ todo' \in [Goroutines -> SUBSET Ids] /\ base' \in [Goroutines -> Nat]
      /\ try' \in [Goroutines -> 1..2] /\ base'[c] = 0
      /\ \A d \in Goroutines \ {c} : todo'[d] = todo[d] /\ base'[d] = base[d] /\ try'[d] = try[d]
  BY DEF Types, Return
<1> QED BY <1>2, <1>3, <1>4 DEF Return

LEMMA GotoIs ==
    ASSUME Types, NEW c \in Goroutines, NEW l \in Steps, Goto(c, l)
    PROVE  /\ pc' \in [Goroutines -> Steps] /\ pc'[c] = l
           /\ \A d \in Goroutines \ {c} : pc'[d] = pc[d]
BY DEF Types, Goto

LEMMA ImportIs ==
    ASSUME Types, NEW s \in Snapshots, Import(s)
    PROVE  /\ db' \in Tables /\ db'.host = s.host /\ db'.rule = s.rule /\ db'.crossed = s.crossed
           /\ used' \subseteq Ids /\ due' \in BOOLEAN /\ last' = 0
           /\ used \subseteq used' /\ \A i \in Ids : s.host[i] # "none" => i \in used'
           /\ UNCHANGED <<exports, stored>>
<1>1. \A i \in Ids : i <= i
  BY BackupAssumption
<1>2. db' = [host |-> s.host, rule |-> s.rule, preset |-> {i \in s.preset : s.host[i] # "none"},
             crossed |-> s.crossed]
  BY DEF Import
<1>3. s.preset \subseteq Ids
  BY SnapIs
<1>4. {i \in s.preset : s.host[i] # "none"} \in SUBSET Ids
  BY <1>3
<1>5. db' \in Tables /\ db'.host = s.host /\ db'.rule = s.rule /\ db'.crossed = s.crossed
  BY <1>2, <1>4, SnapIs DEF Tables
<1>6. used' \subseteq Ids /\ used \subseteq used' /\ \A i \in Ids : s.host[i] # "none" => i \in used'
  BY <1>1 DEF Types, Import
<1>7. due' \in BOOLEAN /\ last' = 0 /\ UNCHANGED <<exports, stored>>
  BY SnapIs DEF Import
<1> QED BY <1>5, <1>6, <1>7

LEMMA CountIs ==
    ASSUME Types
    PROVE  /\ Fault => UNCHANGED <<foreign, calls>> /\ faults' \in 0..MaxFaults
           /\ Call => UNCHANGED <<faults, foreign>> /\ calls' \in 0..MaxCalls
BY BackupAssumption DEF Types, Fault, Call

\* The types of the groups of variables.
HostTypes == db \in Tables /\ used \subseteq Ids /\ enabled \in BOOLEAN /\ due \in BOOLEAN
CallTypes ==
    /\ pc \in [Goroutines -> Steps]
    /\ snap \in [Goroutines -> Snapshots]
    /\ todo \in [Goroutines -> SUBSET Ids]
    /\ base \in [Goroutines -> Nat]
    /\ try \in [Goroutines -> 1..2]
NetTypes ==
    /\ wire \subseteq [try : 1..2, sha : Nat, snap : Snapshots]
    /\ remote \in [sha : Nat, snap : Snapshots]
PastTypes == exports \in Nat /\ stored \subseteq 1..exports /\ last \in 0..exports
BoundTypes == faults \in 0..MaxFaults /\ foreign \in 0..MaxForeign /\ calls \in 0..MaxCalls

LEMMA TypeParts == Types <=> HostTypes /\ CallTypes /\ NetTypes /\ PastTypes /\ BoundTypes
BY DEF Types, HostTypes, CallTypes, NetTypes, PastTypes, BoundTypes

LEMMA TypeFrames ==
    ASSUME Types
    PROVE  /\ UNCHANGED <<tables, config>> => HostTypes'
           /\ UNCHANGED <<pc, snap, todo, base, try>> => CallTypes'
           /\ UNCHANGED github => NetTypes'
           /\ UNCHANGED history => PastTypes'
           /\ UNCHANGED bounds => BoundTypes'
           /\ Fault \/ Call => BoundTypes'
           /\ \A c \in Goroutines : Return(c) => CallTypes'
           /\ \A c \in Goroutines, l \in Steps :
                 Goto(c, l) /\ UNCHANGED <<snap, todo, base, try>> => CallTypes'
<1>0. HostTypes /\ CallTypes /\ NetTypes /\ PastTypes /\ BoundTypes
  BY TypeParts
<1>1. UNCHANGED <<tables, config>> => HostTypes'
  BY <1>0 DEF HostTypes, tables, config
<1>2. UNCHANGED <<pc, snap, todo, base, try>> => CallTypes'
  BY <1>0 DEF CallTypes
<1>3. UNCHANGED github => NetTypes'
  BY <1>0 DEF NetTypes, github
<1>4. UNCHANGED history => PastTypes'
  BY <1>0 DEF PastTypes, history
<1>5. UNCHANGED bounds => BoundTypes'
  BY <1>0 DEF BoundTypes, bounds
<1>6. Fault \/ Call => BoundTypes'
  BY <1>0, CountIs DEF BoundTypes
<1>7. \A c \in Goroutines : Return(c) => CallTypes'
  BY ReturnIs DEF CallTypes
<1>8. \A c \in Goroutines, l \in Steps :
         Goto(c, l) /\ UNCHANGED <<snap, todo, base, try>> => CallTypes'
  BY <1>0, GotoIs DEF CallTypes
<1> QED BY <1>1, <1>2, <1>3, <1>4, <1>5, <1>6, <1>7, <1>8

\* Every step of Next keeps the types.
LEMMA TypeStep == Inv /\ [Next]_vars => Types'
<1> SUFFICES ASSUME Inv, [Next]_vars PROVE HostTypes' /\ CallTypes' /\ NetTypes' /\ PastTypes' /\ BoundTypes'
  BY DEF Types, HostTypes, CallTypes, NetTypes, PastTypes, BoundTypes
<1>0. /\ Types /\ Turns /\ Numbers /\ Wires
      /\ HostTypes /\ CallTypes /\ NetTypes /\ PastTypes /\ BoundTypes
  BY TypeSplit, TypeParts DEF Inv
<1>s. {"idle", "wait", "hosts", "rules", "rest", "pull", "put", "await", "repull", "stamp",
       "import", "settings"} \subseteq Steps
  BY DEF Steps
<1>1. CASE UNCHANGED vars
  BY <1>0, <1>1, TypeFrames DEF vars, tables, config, calling
<1>2. CASE Edit
  <2>1. PICK i \in Ids : AddHost(i) \/ DeleteHost(i) \/ SaveRule(i) \/ SavePreset(i)
    BY <1>2 DEF Edit
  <2>2. HostTypes'
    BY <1>0, <1>2, <2>1, EditIs DEF Edit, HostTypes, config
  <2> QED BY <1>0, <1>2, <2>2, TypeFrames DEF Edit, calling
<1>3. CASE Configure \/ Tick
  <2>1. HostTypes'
    BY <1>0, <1>3 DEF Configure, Tick, HostTypes, tables
  <2> QED BY <1>0, <1>3, <2>1, TypeFrames DEF Configure, Tick, calling
<1>4. CASE Foreign
  <2>1. NetTypes'
    BY <1>0, <1>4, EmptyIs DEF Foreign, NetTypes
  <2>2. BoundTypes'
    BY <1>0, <1>4, BackupAssumption DEF Foreign, BoundTypes
  <2> QED BY <1>0, <1>4, <2>1, <2>2, TypeFrames DEF Foreign, calling
<1>5. CASE Crash
  <2>1. CallTypes'
    BY <1>5, <1>s, EmptyIs DEF Crash, CallTypes
  <2> QED BY <1>0, <1>5, <2>1, TypeFrames DEF Crash
<1>6. CASE CheckAndBackup
  BY <1>0, <1>6, <1>s, TypeFrames, Members DEF CheckAndBackup
<1>7. CASE Upload
  <2>1. HostTypes' /\ PastTypes'
    <3>1. FALSE \in BOOLEAN /\ Theirs.enabled \in BOOLEAN
      BY EmptyIs, SnapIs
    <3> QED BY <1>0, <1>7, <3>1, EmptyIs, ImportIs DEF Upload, HostTypes, PastTypes
  <2>2. CallTypes'
    <3>1. ASSUME NEW c \in Goroutines PROVE snap'[c] \in Snapshots
      <4>1. Exporting(c) \in BOOLEAN /\ snap[c] \in Snapshots
        BY <1>0 DEF Exporting, CallTypes
      <4>2. snap'[c] = [snap[c] EXCEPT !.crossed = @ \/ Exporting(c)]
        BY <1>7 DEF Upload
      <4> HIDE DEF Exporting
      <4> QED BY <4>1, <4>2, WithCrossing
    <3> QED BY <1>0, <1>7, <3>1 DEF Upload, CallTypes
  <2> QED BY <1>0, <1>7, <2>1, <2>2, TypeFrames DEF Upload
<1>8. CASE Restore
  <2>1. CASE PullSnapshot
    <3>1. CallTypes'
      <4>1. remote.snap \in Snapshots
        BY <1>0 DEF NetTypes
      <4> QED BY <1>0, <1>s, <2>1, <4>1, GotoIs, Members DEF PullSnapshot, CallTypes
    <3> QED BY <1>0, <2>1, <3>1, TypeFrames DEF PullSnapshot
  <2>2. CASE RestoreFails
    <3>1. Return(Restorer) /\ (UNCHANGED bounds \/ Fault)
      BY <2>2 DEF RestoreFails
    <3> QED BY <1>0, <2>2, <3>1, TypeFrames, Members DEF RestoreFails
  <2>3. CASE ImportPulled
    <3>1. snap[Restorer] \in Snapshots /\ snap[Restorer].enabled \in BOOLEAN
      BY <1>0, Members, SnapIs DEF CallTypes
    <3>2. HostTypes' /\ PastTypes'
      BY <1>0, <2>3, <3>1, ImportIs DEF ImportPulled, HostTypes, PastTypes
    <3>3. CallTypes'
      BY <1>0, <1>s, <2>3, TypeFrames, Members DEF ImportPulled
    <3> QED BY <1>0, <2>3, <3>2, <3>3, TypeFrames DEF ImportPulled
  <2>4. CASE SaveSettings
    <3>1. HostTypes'
      BY <1>0, <2>4 DEF SaveSettings, HostTypes, tables
    <3> QED BY <1>0, <2>4, <3>1, TypeFrames, Members DEF SaveSettings
  <2> QED BY <1>8, <2>1, <2>2, <2>3, <2>4 DEF Restore
<1>9. ASSUME NEW c \in Goroutines, Request(c) \/ Lock(c)
      PROVE  HostTypes' /\ CallTypes' /\ NetTypes' /\ PastTypes' /\ BoundTypes'
  BY <1>0, <1>9, <1>s, TypeFrames DEF Request, Lock, Begin
<1>10. ASSUME NEW c \in Goroutines, Export(c)
       PROVE  HostTypes' /\ CallTypes' /\ NetTypes' /\ PastTypes' /\ BoundTypes'
  <2>1. CASE ListHosts(c)
    <3> DEFINE t == [Empty EXCEPT !.host = db.host, !.crossed = db.crossed, !.no = exports + 1]
    <3>1. snap' = [snap EXCEPT ![c] = t]
      BY <2>1 DEF ListHosts
    <3>2. db.host \in [Ids -> Who] /\ db.crossed \in BOOLEAN /\ exports + 1 \in Nat
      BY <1>0 DEF HostTypes, Tables, PastTypes
    <3>3. t \in Snapshots
      BY <3>2, WithHosts
    <3> HIDE DEF t
    <3>4. snap' \in [Goroutines -> Snapshots]
      BY <1>0, <3>1, <3>3 DEF CallTypes
    <3>5. CallTypes'
      BY <1>0, <1>s, <2>1, <3>4, GotoIs DEF ListHosts, CallTypes
    <3>6. PastTypes'
      BY <1>0, <2>1 DEF ListHosts, PastTypes
    <3> QED BY <1>0, <2>1, <3>5, <3>6, TypeFrames DEF ListHosts
  <2>2. CASE ListDesiredRules(c)
    <3>1. PICK i \in todo[c] : /\ snap' = [snap EXCEPT ![c].rule[i] = db.rule[i]]
                               /\ todo' = [todo EXCEPT ![c] = @ \ {i}]
      BY <2>2 DEF ListDesiredRules
    <3>2. i \in Ids /\ db.rule[i] \in Who /\ snap[c] \in Snapshots
      BY <1>0 DEF HostTypes, Tables, CallTypes
    <3>3. [snap[c] EXCEPT !.rule[i] = db.rule[i]] \in Snapshots
      BY <3>2, WithRule
    <3>4. snap' \in [Goroutines -> Snapshots]
      BY <1>0, <3>1, <3>3 DEF CallTypes
    <3>5. CallTypes'
      BY <1>0, <2>2, <3>1, <3>4 DEF ListDesiredRules, CallTypes
    <3> QED BY <1>0, <2>2, <3>5, TypeFrames DEF ListDesiredRules
  <2>3. CASE ReadSettings(c)
    <3>1. snap[c] \in Snapshots /\ enabled \in BOOLEAN /\ due \in BOOLEAN
      BY <1>0 DEF CallTypes, HostTypes
    <3>2. [snap[c] EXCEPT !.enabled = enabled, !.due = due] \in Snapshots
      BY <3>1, WithSettings
    <3>3. snap' \in [Goroutines -> Snapshots]
      BY <1>0, <2>3, <3>2 DEF ReadSettings, CallTypes
    <3>4. CallTypes'
      BY <1>0, <1>s, <2>3, <3>3, GotoIs DEF ReadSettings, CallTypes
    <3> QED BY <1>0, <2>3, <3>4, TypeFrames DEF ReadSettings
  <2>4. CASE ReadPresets(c)
    <3>1. snap[c] \in Snapshots /\ db.preset \in SUBSET Ids
      BY <1>0 DEF CallTypes, HostTypes, Tables
    <3>2. [snap[c] EXCEPT !.preset = db.preset] \in Snapshots
      BY <3>1, WithPresets
    <3>3. snap' \in [Goroutines -> Snapshots]
      BY <1>0, <2>4, <3>2 DEF ReadPresets, CallTypes
    <3>4. CallTypes'
      BY <1>0, <1>s, <2>4, <3>3, GotoIs DEF ReadPresets, CallTypes
    <3> QED BY <1>0, <2>4, <3>4, TypeFrames DEF ReadPresets
  <2>5. CASE ReadPresetsFails(c)
    BY <1>0, <1>s, <2>5, TypeFrames DEF ReadPresetsFails
  <2>6. CASE ExportFails(c)
    BY <1>0, <2>6, TypeFrames DEF ExportFails
  <2> QED BY <1>10, <2>1, <2>2, <2>3, <2>4, <2>5, <2>6 DEF Export
<1>11. ASSUME NEW c \in Goroutines, Push(c)
       PROVE  HostTypes' /\ CallTypes' /\ NetTypes' /\ PastTypes' /\ BoundTypes'
  <2>0. remote.sha \in Nat /\ remote.snap \in Snapshots
    BY <1>0 DEF NetTypes
  <2>1. CASE Pull(c)
    <3>1. CallTypes'
      BY <1>0, <1>s, <2>0, <2>1, GotoIs DEF Pull, CallTypes
    <3> QED BY <1>0, <2>1, <3>1, TypeFrames DEF Pull
  <2>2. CASE PullFails(c)
    BY <1>0, <1>s, <2>2, TypeFrames DEF PullFails
  <2>3. CASE Put(c)
    <3>1. try[c] \in 1..2 /\ base[c] \in Nat /\ snap[c] \in Snapshots
      BY <1>0 DEF CallTypes
    <3>2. NetTypes'
      BY <1>0, <2>3, <3>1 DEF Put, NetTypes
    <3> QED BY <1>0, <1>s, <2>3, <3>2, TypeFrames DEF Put
  <2>4. CASE TimeOut(c) \/ RepullFails(c)
    BY <1>0, <2>4, TypeFrames DEF TimeOut, RepullFails
  <2>5. CASE Repull(c)
    <3>1. CallTypes'
      BY <1>0, <1>s, <2>0, <2>5, GotoIs DEF Repull, CallTypes
    <3> QED BY <1>0, <2>5, <3>1, TypeFrames DEF Repull
  <2>6. CASE Stamp(c)
    <3>1. c \in Pushers
      BY <1>0, <2>6, Members DEF Stamp, Turns
    <3>2. snap[c].no = exports
      BY <1>0, <2>6, <3>1 DEF Stamp, Numbers, Started
    <3>3. PastTypes'
      BY <1>0, <2>6, <3>2 DEF Stamp, PastTypes
    <3>4. HostTypes'
      BY <1>0, <2>6 DEF Stamp, HostTypes, tables
    <3> QED BY <1>0, <2>6, <3>3, <3>4, TypeFrames DEF Stamp
  <2> QED BY <1>11, <2>1, <2>2, <2>3, <2>4, <2>5, <2>6 DEF Push
<1>12. ASSUME NEW p \in wire, Serve(p)
       PROVE  HostTypes' /\ CallTypes' /\ NetTypes' /\ PastTypes' /\ BoundTypes'
  <2>1. p \in [try : 1..2, sha : Nat, snap : Snapshots] /\ remote.sha \in Nat
    BY <1>0 DEF NetTypes
  <2>2. NetTypes'
    BY <1>0, <1>12, <2>1 DEF Serve, NetTypes
  <2>3. PastTypes'
    <3>1. p.snap.no \in 1..exports
      BY <1>0 DEF Wires
    <3> QED BY <1>0, <1>12, <3>1 DEF Serve, PastTypes
  <2>4. CallTypes'
    <3>1. ASSUME NEW c \in Goroutines, Conflict(c) PROVE CallTypes'
      BY <1>0, <1>s, <3>1, TypeFrames DEF Conflict
    <3> QED BY <1>0, <1>s, <1>12, <3>1, TypeFrames DEF Serve, calling
  <2> QED BY <1>0, <1>12, <2>2, <2>3, <2>4, TypeFrames DEF Serve
<1>13. ASSUME NEW p \in wire, Lose(p)
       PROVE  HostTypes' /\ CallTypes' /\ NetTypes' /\ PastTypes' /\ BoundTypes'
  <2>1. NetTypes'
    BY <1>0, <1>13 DEF Lose, NetTypes
  <2>2. CallTypes'
    BY <1>0, <1>13, TypeFrames DEF Lose, calling
  <2> QED BY <1>0, <1>13, <2>1, <2>2, TypeFrames DEF Lose
<1> QED BY <1>1, <1>2, <1>3, <1>4, <1>5, <1>6, <1>7, <1>8, <1>9, <1>10, <1>11, <1>12, <1>13
        DEF Next

-----------------------------------------------------------------------------
(* The mutex.                                                               *)

\* While a goroutine is past the mutex the others are not.
LEMMA Alone ==
    ASSUME Turns, NEW c \in Goroutines, pc[c] \notin {"idle", "wait"}
    PROVE  mu = c /\ \A d \in Goroutines \ {c} : pc[d] \in {"idle", "wait"}
BY DEF Turns

LEMMA TurnStep == Inv /\ [Next]_vars => Turns' /\ Holder'
<1> SUFFICES ASSUME Inv, [Next]_vars PROVE Turns' /\ Holder'
  OBVIOUS
<1>0. Types /\ Turns /\ Holder /\ pc \in [Goroutines -> Steps]
  BY TypeSplit DEF Inv, Types
<1>a. ASSUME UNCHANGED <<pc, mu>> PROVE Turns' /\ Holder'
  BY <1>0, <1>a DEF Turns, Holder
<1>b. ASSUME NEW c \in Pushers, NEW l \in Started, Goto(c, l), pc[c] \notin {"idle", "wait"},
             UNCHANGED mu
      PROVE  Turns' /\ Holder'
  <2>1. c \in Goroutines /\ pc'[c] = l /\ \A d \in Goroutines \ {c} : pc'[d] = pc[d]
    BY <1>0, <1>b, GotoIs, Members DEF Goto
  <2>2. mu = c /\ l \notin {"idle", "wait"}
    BY <1>0, <1>b, <2>1, Alone DEF Started, Unsent
  <2>3. Turns'
    BY <1>0, <1>b, <2>1, <2>2, Members DEF Turns
  <2>4. Holder'
    BY <1>b, <2>1, <2>2 DEF Holder
  <2> QED BY <2>3, <2>4
<1>c. ASSUME NEW c \in Goroutines, Return(c) PROVE Turns' /\ Holder'
  <2>1. /\ pc'[c] = "idle" /\ \A d \in Goroutines \ {c} : pc'[d] = pc[d]
        /\ mu' = IF mu = c THEN Nobody ELSE mu
    BY <1>0, <1>c, ReturnIs
  <2>2. Turns'
    BY <1>0, <2>1, Members DEF Turns, Early
  <2>3. Holder'
    BY <1>0, <2>1 DEF Holder
  <2> QED BY <2>2, <2>3
<1>d. ASSUME NEW c \in Goroutines, pc[c] = "idle", Goto(c, "wait"), UNCHANGED mu
      PROVE  Turns' /\ Holder'
  <2>1. pc'[c] = "wait" /\ \A d \in Goroutines \ {c} : pc'[d] = pc[d]
    BY <1>0, <1>d DEF Goto
  <2>2. Turns'
    BY <1>0, <1>d, <2>1, Members DEF Turns, Early
  <2>3. Holder'
    BY <1>0, <1>d, <2>1 DEF Holder
  <2> QED BY <2>2, <2>3
<1>1. CASE UNCHANGED vars
  BY <1>1, <1>a DEF vars, calling
<1>2. CASE Edit \/ Configure \/ Tick \/ Foreign \/ Upload
  BY <1>2, <1>a DEF Edit, Configure, Tick, Foreign, Upload, calling
<1>3. CASE Crash
  <2>1. mu' = Nobody /\ \A c \in Goroutines : pc'[c] = "idle"
    BY <1>3 DEF Crash
  <2> QED BY <2>1, Members DEF Turns, Holder, Early
<1>4. CASE CheckAndBackup
  BY <1>4, <1>d, Members DEF CheckAndBackup
<1>5. CASE Restore
  <2>1. CASE PullSnapshot \/ ImportPulled
    <3>1. PICK l \in {"import", "settings"} :
             Goto(Restorer, l) /\ pc[Restorer] \in {"pull", "import"} /\ UNCHANGED mu
      BY <2>1 DEF PullSnapshot, ImportPulled
    <3>2. pc'[Restorer] = l /\ \A d \in Goroutines \ {Restorer} : pc'[d] = pc[d]
      BY <1>0, <3>1, Members DEF Goto
    <3>3. mu = Restorer
      BY <1>0, <3>1, Alone, Members
    <3>4. Turns'
      BY <1>0, <3>1, <3>2, <3>3, Members DEF Turns
    <3>5. Holder'
      BY <3>1, <3>2, <3>3, Members DEF Holder
    <3> QED BY <3>4, <3>5
  <2>2. CASE RestoreFails \/ SaveSettings
    BY <1>c, <2>2, Members DEF RestoreFails, SaveSettings
  <2> QED BY <1>5, <2>1, <2>2 DEF Restore
<1>6. ASSUME NEW c \in Goroutines, Request(c) PROVE Turns' /\ Holder'
  BY <1>6, <1>d DEF Request
<1>7. ASSUME NEW c \in Goroutines, Lock(c) PROVE Turns' /\ Holder'
  <2>1. /\ mu = Nobody /\ mu' = c /\ pc'[c] = IF c = Restorer THEN "pull" ELSE "hosts"
        /\ \A d \in Goroutines \ {c} : pc'[d] = pc[d]
    BY <1>0, <1>7 DEF Lock, Begin, Goto
  <2>2. \A d \in Goroutines : pc[d] \in {"idle", "wait"}
    BY <1>0, <2>1, Members DEF Turns
  <2>3. Turns'
    BY <1>0, <2>1, <2>2, Members DEF Turns, Early
  <2>4. Holder'
    BY <2>1 DEF Holder
  <2> QED BY <2>3, <2>4
<1>8. ASSUME NEW c \in Goroutines, Export(c) PROVE Turns' /\ Holder'
  <2>1. CASE ExportFails(c)
    BY <1>c, <2>1 DEF ExportFails
  <2>2. CASE ListHosts(c) \/ ReadSettings(c) \/ ReadPresets(c) \/ ReadPresetsFails(c)
    <3>1. c \in Pushers
      BY <1>0, <2>2, Members DEF Turns, ListHosts, ReadSettings, ReadPresets, ReadPresetsFails
    <3> QED BY <1>b, <2>2, <3>1
            DEF ListHosts, ReadSettings, ReadPresets, ReadPresetsFails, Started, Unsent
  <2>3. CASE ListDesiredRules(c)
    BY <1>a, <2>3 DEF ListDesiredRules
  <2> QED BY <1>8, <2>1, <2>2, <2>3 DEF Export
<1>9. ASSUME NEW c \in Goroutines, Push(c) PROVE Turns' /\ Holder'
  <2>1. CASE TimeOut(c) \/ RepullFails(c) \/ Stamp(c)
    BY <1>c, <2>1 DEF TimeOut, RepullFails, Stamp
  <2>2. CASE Pull(c) \/ PullFails(c) \/ Put(c) \/ Repull(c)
    <3>1. c \in Pushers
      BY <1>0, <2>2, Members DEF Turns, Pull, PullFails, Put, Repull
    <3> QED BY <1>b, <2>2, <3>1 DEF Pull, PullFails, Put, Repull, Started, Unsent
  <2> QED BY <1>9, <2>1, <2>2 DEF Push
<1>10. ASSUME NEW p \in wire, Serve(p) PROVE Turns' /\ Holder'
  <2>1. ASSUME NEW c \in Goroutines, AnswersTo(p, c),
               \/ Goto(c, "stamp") /\ UNCHANGED mu
               \/ Conflict(c)
               \/ Return(c)
        PROVE  Turns' /\ Holder'
    <3>1. pc[c] = "await" /\ c \in Pushers
      BY <1>0, <2>1, Members DEF Turns, AnswersTo
    <3> QED BY <1>b, <1>c, <2>1, <3>1 DEF Conflict, Started, Unsent
  <2>2. CASE UNCHANGED calling
    BY <1>a, <2>2 DEF calling
  <2> QED BY <1>10, <2>1, <2>2 DEF Serve
<1>11. ASSUME NEW p \in wire, Lose(p) PROVE Turns' /\ Holder'
  BY <1>11, <1>a, <1>c DEF Lose, calling
<1> QED BY <1>1, <1>2, <1>3, <1>4, <1>5, <1>6, <1>7, <1>8, <1>9, <1>10, <1>11 DEF Next

-----------------------------------------------------------------------------
(* Exports and PUTs.                                                        *)

\* A backup stays where it is, is not there or not begun, or goes on with its export.
Stays(d) == /\ pc'[d] = pc[d] /\ snap'[d].no = snap[d].no
            /\ base'[d] = base[d] /\ try'[d] = try[d]
Resets(d) == pc'[d] \in Early /\ snap'[d].no = 0 /\ base'[d] = 0
Reads(d) == /\ pc[d] \in {"rules", "rest"} /\ pc'[d] \in {"rules", "rest", "pull"}
            /\ snap'[d].no = snap[d].no /\ base'[d] = base[d]

LEMMA WireTypes ==
    ASSUME Types
    PROVE  /\ \A p \in wire : p \in [try : 1..2, sha : Nat, snap : Snapshots]
                              /\ p.sha \in Nat /\ p.snap \in Snapshots /\ p.snap.no \in Nat
           /\ remote.sha \in Nat /\ remote.snap \in Snapshots /\ remote.snap.no \in Nat
           /\ \A c \in Goroutines : snap[c] \in Snapshots /\ snap[c].no \in Nat /\ base[c] \in Nat
           /\ \A n \in stored : n \in Nat /\ n <= exports
           /\ exports \in Nat
<1>1. \A s \in Snapshots : s.no \in Nat
  BY SnapIs
<1> QED BY <1>1 DEF Types

\* As long as nothing is stored or sent the numbers stay in order.
LEMMA CountFrame ==
    ASSUME Inv, UNCHANGED <<exports, stored>>, wire' \subseteq wire, remote'.sha = remote.sha,
           \A d \in Pushers : Stays(d) \/ Resets(d) \/ Reads(d)
    PROVE  Numbers' /\ Wires'
<1>0. Numbers /\ Wires /\ Turns
  BY DEF Inv
<1>1. \A no, sha : Fresh(sha, no)' <=> Fresh(sha, no)
  BY DEF Fresh
<1>2. Numbers'
  <2> SUFFICES ASSUME NEW d \in Pushers
               PROVE  /\ pc'[d] \in Early => snap'[d].no = 0
                      /\ pc'[d] \in Started => snap'[d].no = exports /\ exports > 0
                      /\ pc'[d] \in Unsent => snap'[d].no \notin stored
                      /\ pc'[d] = "stamp" => snap'[d].no \in stored
    BY DEF Numbers
  <2>1. CASE Stays(d)
    BY <1>0, <2>1 DEF Stays, Numbers
  <2>2. CASE Resets(d)
    BY <2>2 DEF Resets, Early, Started, Unsent
  <2>3. CASE Reads(d)
    BY <1>0, <2>3 DEF Reads, Numbers, Early, Started, Unsent
  <2> QED BY <2>1, <2>2, <2>3
<1>3. \A p \in wire' : p.snap.no \in 1..exports' /\ Fresh(p.sha, p.snap.no)'
  BY <1>0, <1>1 DEF Wires
<1>4. \A p, q \in wire' : p.snap.no = q.snap.no => p = q
  BY <1>0 DEF Wires
<1>5. ASSUME NEW p \in wire, NEW d \in Pushers, snap'[d].no = p.snap.no PROVE AnswersTo(p, d)'
  <2>1. p.snap.no \in 1..exports /\ exports \in Nat
    BY <1>0, TypeSplit, WireTypes DEF Wires, Inv
  <2>2. CASE Stays(d)
    <3>1. AnswersTo(p, d)
      BY <1>0, <1>5, <2>2 DEF Wires, Stays
    <3> QED BY <2>2, <3>1 DEF AnswersTo, Stays
  <2>3. CASE Resets(d)
    BY <1>5, <2>1, <2>3 DEF Resets
  <2>4. CASE Reads(d)
    <3>1. AnswersTo(p, d)
      BY <1>0, <1>5, <2>4 DEF Wires, Reads
    <3> QED BY <2>4, <3>1 DEF AnswersTo, Reads
  <2> QED BY <2>2, <2>3, <2>4
<1>6. ASSUME NEW d \in Pushers
      PROVE  /\ pc'[d] = "put" => Fresh(base[d], snap[d].no) /\ base'[d] = base[d]
                                  /\ snap'[d].no = snap[d].no
             /\ pc'[d] \in Early \cup {"rules", "rest", "pull"} => base'[d] = 0
  <2>1. CASE Stays(d)
    BY <1>0, <2>1 DEF Wires, Stays
  <2>2. CASE Resets(d)
    BY <2>2 DEF Resets, Early
  <2>3. CASE Reads(d)
    BY <1>0, <2>3 DEF Reads, Wires
  <2> QED BY <2>1, <2>2, <2>3
<1>7. Wires'
  BY <1>3, <1>4, <1>5, <1>6 DEF Wires, Fresh
<1> QED BY <1>2, <1>7

\* What an action of an export does to the snapshot.
LEMMA ExportIs ==
    ASSUME Types, NEW c \in Goroutines
    PROVE  /\ ListHosts(c) => /\ snap'[c].no = exports + 1 /\ snap'[c].host = db.host
                              /\ snap'[c].rule = Nowhere /\ snap'[c].crossed = db.crossed
           /\ \A i \in todo[c] :
                 snap' = [snap EXCEPT ![c].rule[i] = db.rule[i]] =>
                   /\ snap'[c].no = snap[c].no /\ snap'[c].host = snap[c].host
                   /\ snap'[c].crossed = snap[c].crossed /\ snap'[c].rule[i] = db.rule[i]
                   /\ \A j \in Ids \ {i} : snap'[c].rule[j] = snap[c].rule[j]
           /\ ReadSettings(c) \/ ReadPresets(c) \/ ReadPresetsFails(c) =>
                   /\ snap'[c].no = snap[c].no /\ snap'[c].host = snap[c].host
                   /\ snap'[c].crossed = snap[c].crossed /\ snap'[c].rule = snap[c].rule
           /\ Export(c) => \A d \in Goroutines \ {c} :
                   /\ pc'[d] = pc[d] /\ snap'[d] = snap[d] /\ todo'[d] = todo[d]
                   /\ base'[d] = base[d] /\ try'[d] = try[d]
<1>0. /\ pc \in [Goroutines -> Steps] /\ snap \in [Goroutines -> Snapshots] /\ snap[c] \in Snapshots
      /\ todo \in [Goroutines -> SUBSET Ids] /\ db.host \in [Ids -> Who] /\ db.crossed \in BOOLEAN
      /\ db.rule \in [Ids -> Who] /\ db.preset \in SUBSET Ids
      /\ exports + 1 \in Nat /\ enabled \in BOOLEAN /\ due \in BOOLEAN
  BY DEF Types, Tables
<1>1. ListHosts(c) => /\ snap'[c].no = exports + 1 /\ snap'[c].host = db.host
                      /\ snap'[c].rule = Nowhere /\ snap'[c].crossed = db.crossed
  <2> DEFINE t == [Empty EXCEPT !.host = db.host, !.crossed = db.crossed, !.no = exports + 1]
  <2>1. t.no = exports + 1 /\ t.host = db.host /\ t.rule = Nowhere /\ t.crossed = db.crossed
    BY EmptyIs DEF Empty
  <2>2. ListHosts(c) => snap' = [snap EXCEPT ![c] = t]
    BY DEF ListHosts
  <2> HIDE DEF t
  <2> QED BY <1>0, <2>1, <2>2
<1>2. ASSUME NEW i \in todo[c], snap' = [snap EXCEPT ![c].rule[i] = db.rule[i]]
      PROVE  /\ snap'[c].no = snap[c].no /\ snap'[c].host = snap[c].host
             /\ snap'[c].crossed = snap[c].crossed /\ snap'[c].rule[i] = db.rule[i]
             /\ \A j \in Ids \ {i} : snap'[c].rule[j] = snap[c].rule[j]
  <2>1. i \in Ids /\ db.rule[i] \in Who
    BY <1>0
  <2>2. snap'[c] = [snap[c] EXCEPT !.rule[i] = db.rule[i]]
    BY <1>0, <1>2
  <2> QED BY <1>0, <2>1, <2>2 DEF Snapshots
<1>3. ReadSettings(c) \/ ReadPresets(c) \/ ReadPresetsFails(c) =>
        /\ snap'[c].no = snap[c].no /\ snap'[c].host = snap[c].host
        /\ snap'[c].crossed = snap[c].crossed /\ snap'[c].rule = snap[c].rule
  <2>1. CASE ReadSettings(c)
    <3>1. snap'[c] = [snap[c] EXCEPT !.enabled = enabled, !.due = due]
      BY <1>0, <2>1 DEF ReadSettings
    <3> QED BY <1>0, <3>1 DEF Snapshots
  <2>2. CASE ReadPresets(c)
    <3>1. snap'[c] = [snap[c] EXCEPT !.preset = db.preset]
      BY <1>0, <2>2 DEF ReadPresets
    <3> QED BY <1>0, <3>1 DEF Snapshots
  <2>3. CASE ReadPresetsFails(c)
    BY <2>3 DEF ReadPresetsFails
  <2> QED BY <2>1, <2>2, <2>3
<1>4. ASSUME Export(c), NEW d \in Goroutines \ {c}
      PROVE  /\ pc'[d] = pc[d] /\ snap'[d] = snap[d] /\ todo'[d] = todo[d]
             /\ base'[d] = base[d] /\ try'[d] = try[d]
  <2>1. CASE ExportFails(c)
    BY <2>1, ReturnIs DEF ExportFails
  <2>2. CASE ListDesiredRules(c)
    BY <1>0, <2>2 DEF ListDesiredRules
  <2>3. CASE ListHosts(c)
    BY <1>0, <2>3 DEF ListHosts, Goto
  <2>4. CASE ReadSettings(c)
    BY <1>0, <2>4 DEF ReadSettings, Goto
  <2>5. CASE ReadPresets(c) \/ ReadPresetsFails(c)
    BY <1>0, <2>5 DEF ReadPresets, ReadPresetsFails, Goto
  <2> QED BY <1>4, <2>1, <2>2, <2>3, <2>4, <2>5 DEF Export
<1> QED BY <1>1, <1>2, <1>3, <1>4

LEMMA CountStep == Inv /\ [Next]_vars => Numbers' /\ Wires'
<1> SUFFICES ASSUME Inv, [Next]_vars PROVE Numbers' /\ Wires'
  OBVIOUS
<1>0. /\ Types /\ Turns /\ Numbers /\ Wires /\ File
      /\ pc \in [Goroutines -> Steps] /\ base \in [Goroutines -> Nat] /\ try \in [Goroutines -> 1..2]
      /\ snap \in [Goroutines -> Snapshots]
  BY TypeSplit DEF Inv, Types
<1>a. ASSUME UNCHANGED <<pc, snap, base, try, github, exports, stored>> PROVE Numbers' /\ Wires'
  BY <1>a, CountFrame DEF Stays, github
<1>b. ASSUME NEW c \in Goroutines, Return(c), UNCHANGED <<exports, stored>>,
             wire' \subseteq wire, remote'.sha = remote.sha
      PROVE  Numbers' /\ Wires'
  <2>1. ASSUME NEW d \in Pushers PROVE Stays(d) \/ Resets(d)
    <3>1. CASE d = c
      BY <1>0, <1>b, <3>1, ReturnIs, EmptyIs, Members DEF Resets, Early
    <3>2. CASE d # c
      BY <1>0, <1>b, <3>2, ReturnIs, Members DEF Stays
    <3> QED BY <3>1, <3>2
  <2> QED BY <1>b, <2>1, CountFrame
<1>c. ASSUME NEW c \in Goroutines, pc[c] \in Early \/ c = Restorer, NEW l \in Steps, Goto(c, l),
             c # Restorer => l \in Early,
             UNCHANGED <<base, try, github, exports, stored>>,
             \A d \in Pushers : snap'[d] = snap[d]
      PROVE  Numbers' /\ Wires'
  <2>1. pc'[c] = l /\ \A d \in Goroutines \ {c} : pc'[d] = pc[d]
    BY <1>0, <1>c, GotoIs
  <2>2. ASSUME NEW d \in Pushers PROVE Stays(d) \/ Resets(d)
    <3>1. CASE d = c
      BY <1>0, <1>c, <2>1, <3>1, Members DEF Resets, Numbers, Wires
    <3>2. CASE d # c
      BY <1>c, <2>1, <3>2, Members DEF Stays
    <3> QED BY <3>1, <3>2
  <2> QED BY <1>c, <2>2, CountFrame DEF github
<1>1. CASE UNCHANGED vars
  BY <1>1, <1>a DEF vars, calling, history
<1>2. CASE Edit \/ Configure \/ Tick
  BY <1>2, <1>a DEF Edit, Configure, Tick, calling, history
<1>3. CASE Foreign
  <2>1. /\ remote'.sha = remote.sha + 1 /\ remote.sha \in Nat
        /\ UNCHANGED <<pc, snap, base, try, wire, exports, stored>>
    BY <1>0, <1>3, WireTypes DEF Foreign, calling, history
  <2>2. Numbers'
    BY <1>0, <2>1 DEF Numbers
  <2>3. \A sha \in Nat : \A no : Fresh(sha, no) => Fresh(sha, no)'
    BY <2>1 DEF Fresh
  <2>4. Wires'
    <3>1. \A p \in wire : p.snap.no \in 1..exports /\ Fresh(p.sha, p.snap.no)'
      BY <1>0, <2>3, WireTypes DEF Wires
    <3>2. ASSUME NEW c \in Pushers, pc'[c] = "put" PROVE Fresh(base[c], snap[c].no)'
      <4>1. /\ base[c] \in Nat /\ base[c] <= remote.sha
            /\ base[c] = remote.sha => \A n \in stored : n < snap[c].no
        BY <1>0, <2>1, <3>2, Members DEF Wires, Fresh
      <4> QED BY <2>1, <4>1 DEF Fresh
    <3> QED BY <1>0, <2>1, <3>1, <3>2 DEF Wires, AnswersTo
  <2> QED BY <2>2, <2>4
<1>4. CASE Crash
  <2>1. \A d \in Pushers : Resets(d)
    BY <1>4, Members, EmptyIs DEF Crash, Resets, Early
  <2> QED BY <1>4, <2>1, CountFrame DEF Crash, github, history
<1>5. CASE CheckAndBackup
  BY <1>5, <1>c, Members DEF CheckAndBackup, Early, Steps, github, history
<1>6. CASE Upload
  <2>1. ASSUME NEW d \in Pushers PROVE Stays(d)
    <3>1. Exporting(d) \in BOOLEAN /\ snap[d] \in Snapshots /\ d \in Goroutines
      BY <1>0, Members DEF Exporting
    <3>2. snap'[d] = [snap[d] EXCEPT !.crossed = @ \/ Exporting(d)]
      BY <1>6, <3>1 DEF Upload
    <3>3. snap'[d].no = snap[d].no
      <4> HIDE DEF Exporting
      <4> QED BY <3>1, <3>2, WithCrossing
    <3> QED BY <1>6, <3>3 DEF Upload, Stays
  <2>2. UNCHANGED <<exports, stored, github>>
    BY <1>0, <1>6 DEF Upload, Import
  <2> QED BY <2>1, <2>2, CountFrame DEF github
<1>7. CASE Restore
  <2>1. CASE PullSnapshot
    BY <1>0, <1>c, <2>1, Members DEF PullSnapshot, Steps, history, github
  <2>2. CASE RestoreFails \/ SaveSettings
    BY <1>b, <2>2, Members DEF RestoreFails, SaveSettings, history, github
  <2>3. CASE ImportPulled
    BY <1>c, <2>3, Members DEF ImportPulled, Import, Steps, github
  <2> QED BY <1>7, <2>1, <2>2, <2>3 DEF Restore
<1>8. ASSUME NEW c \in Goroutines, Request(c) PROVE Numbers' /\ Wires'
  BY <1>8, <1>c DEF Request, Early, Steps, github, history
<1>9. ASSUME NEW c \in Goroutines, Lock(c) PROVE Numbers' /\ Wires'
  BY <1>9, <1>c DEF Lock, Begin, Early, Steps, github, history
<1>10. ASSUME NEW c \in Goroutines, Export(c) PROVE Numbers' /\ Wires'
  <2>1. CASE ExportFails(c)
    BY <1>b, <2>1 DEF ExportFails, history, github
  <2>2. CASE ListHosts(c)
    <3>1. /\ pc[c] = "hosts" /\ pc'[c] = "rules" /\ exports' = exports + 1
          /\ UNCHANGED <<base, try, github, stored>>
      BY <1>0, <2>2 DEF ListHosts, Goto
    <3>2. c \in Pushers /\ \A d \in Pushers \ {c} : pc[d] \in {"idle", "wait"}
      BY <1>0, <3>1, Alone, Members DEF Turns
    <3>3. snap'[c].no = exports + 1 /\ \A d \in Pushers \ {c} : Stays(d)
      BY <1>0, <1>10, <2>2, ExportIs, Members DEF Stays
    <3>4. Numbers'
      <4>1. exports + 1 \notin stored /\ exports + 1 > 0 /\ exports \in Nat
        BY <1>0, WireTypes
      <4>2. \A d \in Pushers \ {c} : pc'[d] \in {"idle", "wait"} /\ snap'[d].no = 0
        BY <1>0, <3>2, <3>3 DEF Numbers, Stays, Early
      <4> QED BY <3>1, <3>3, <4>1, <4>2 DEF Numbers, Early, Started, Unsent
    <3>5. Wires'
      <4>1. UNCHANGED wire /\ UNCHANGED remote
        BY <3>1 DEF github
      <4>2. \A p \in wire : p.snap.no \in 1..exports' /\ p.snap.no # exports' /\ Fresh(p.sha, p.snap.no)'
        BY <1>0, <3>1, <4>1, WireTypes DEF Wires, Fresh
      <4>3. ASSUME NEW p \in wire, NEW d \in Pushers, snap'[d].no = p.snap.no PROVE AnswersTo(p, d)'
        <5>1. d # c
          BY <3>1, <3>3, <4>2, <4>3
        <5> QED BY <1>0, <3>3, <4>3, <5>1 DEF Wires, AnswersTo, Stays
      <4>4. \A d \in Pushers : pc'[d] # "put" /\ base'[d] = base[d]
        BY <3>1, <3>2, <3>3 DEF Stays
      <4>5. \A d \in Pushers : pc[d] \in Early
        BY <3>1, <3>2 DEF Early
      <4> QED BY <1>0, <4>1, <4>2, <4>3, <4>4, <4>5 DEF Wires
    <3> QED BY <3>4, <3>5
  <2>3. CASE ListDesiredRules(c)
    <3>1. PICK i \in todo[c] : snap' = [snap EXCEPT ![c].rule[i] = db.rule[i]]
      BY <2>3 DEF ListDesiredRules
    <3>2. snap'[c].no = snap[c].no
      BY <1>0, <3>1, ExportIs
    <3>3. \A d \in Pushers : Stays(d)
      BY <1>0, <1>10, <2>3, <3>2, ExportIs, Members DEF Stays, ListDesiredRules
    <3> QED BY <2>3, <3>3, CountFrame DEF ListDesiredRules, github, history
  <2>4. CASE ReadSettings(c) \/ ReadPresets(c) \/ ReadPresetsFails(c)
    <3>1. /\ pc[c] \in {"rules", "rest"} /\ pc'[c] \in {"rest", "pull"} /\ snap'[c].no = snap[c].no
          /\ UNCHANGED <<base, github, history>>
      BY <1>0, <2>4, ExportIs DEF ReadSettings, ReadPresets, ReadPresetsFails, Goto
    <3>2. \A d \in Pushers : Stays(d) \/ Reads(d)
      BY <1>0, <1>10, <3>1, ExportIs, Members DEF Stays, Reads
    <3> QED BY <3>1, <3>2, CountFrame DEF github, history
  <2> QED BY <1>10, <2>1, <2>2, <2>3, <2>4 DEF Export
<1>11. ASSUME NEW c \in Goroutines, Push(c) PROVE Numbers' /\ Wires'
  <2>1. CASE TimeOut(c) \/ RepullFails(c) \/ Stamp(c)
    BY <1>b, <2>1 DEF TimeOut, RepullFails, Stamp, history, github
  <2>2. CASE Pull(c) \/ PullFails(c) \/ Repull(c)
    <3>1. /\ pc[c] \in {"pull", "repull"} /\ pc'[c] = "put" /\ UNCHANGED <<snap, github, history>>
          /\ base'[c] = remote.sha \/ (pc[c] = "pull" /\ base'[c] = base[c])
          /\ \A d \in Goroutines \ {c} : pc'[d] = pc[d] /\ base'[d] = base[d] /\ try'[d] = try[d]
      BY <1>0, <2>2 DEF Pull, PullFails, Repull, Goto
    <3>0. c \in Pushers
      <4>1. pc[Restorer] # "repull"
        BY <1>0 DEF Turns
      <4> QED BY <2>2, <4>1, Members DEF Pull, PullFails, Repull
    <3>2. c \in Pushers /\ \A d \in Pushers \ {c} : pc[d] \in {"idle", "wait"}
      BY <1>0, <3>0, <3>1, Alone, Members
    <3>3. snap[c].no = exports /\ exports \in Nat /\ exports > 0 /\ snap[c].no \notin stored
      BY <1>0, <3>1, <3>2, WireTypes DEF Numbers, Started, Unsent
    <3>4. Numbers'
      <4>1. UNCHANGED <<snap, exports, stored>>
        BY <3>1 DEF history
      <4>2. \A d \in Pushers \ {c} : pc'[d] \in {"idle", "wait"} /\ snap[d].no = 0
        BY <1>0, <3>1, <3>2, Members DEF Numbers, Early
      <4> QED BY <3>1, <3>3, <4>1, <4>2 DEF Numbers, Early, Started, Unsent
    <3>5. \A n \in stored : n < snap[c].no
      BY <1>0, <3>3, WireTypes
    <3>6. base'[c] <= remote.sha /\ (base'[c] = remote.sha => \A n \in stored : n < snap[c].no)
      <4>1. pc[c] = "pull" => base[c] = 0
        BY <1>0, <3>2 DEF Wires
      <4> QED BY <1>0, <3>1, <3>5, <4>1, WireTypes
    <3>7. Wires'
      <4>1. UNCHANGED <<wire, remote, stored, exports>>
        BY <3>1 DEF github, history
      <4>2. \A p \in wire : p.snap.no # snap[c].no
        BY <1>0, <3>1, <3>2 DEF Wires, AnswersTo
      <4>3. ASSUME NEW p \in wire, NEW d \in Pushers, snap[d].no = p.snap.no PROVE AnswersTo(p, d)'
        <5>1. d # c /\ d \in Goroutines /\ AnswersTo(p, d)
          BY <1>0, <4>2, <4>3, Members DEF Wires
        <5> QED BY <3>1, <5>1 DEF AnswersTo
      <4>4. \A d \in Pushers \ {c} : pc'[d] \in {"idle", "wait"} /\ base'[d] = 0
        BY <1>0, <3>1, <3>2, Members DEF Wires, Early
      <4> QED BY <1>0, <3>1, <3>6, <4>1, <4>3, <4>4 DEF Wires, Fresh, Early
    <3> QED BY <3>4, <3>7
  <2>3. CASE Put(c)
    <3> DEFINE q == [try |-> try[c], sha |-> base[c], snap |-> snap[c]]
    <3>1. /\ pc[c] = "put" /\ pc'[c] = "await" /\ wire' = wire \cup {q}
          /\ UNCHANGED <<snap, base, try, remote, exports, stored>>
          /\ \A d \in Goroutines \ {c} : pc'[d] = pc[d]
      BY <1>0, <2>3 DEF Put, Goto, history
    <3>2. c \in Pushers /\ \A d \in Pushers \ {c} : pc[d] \in {"idle", "wait"} /\ snap[d].no = 0
      BY <1>0, <3>1, Alone, Members DEF Turns, Numbers, Early
    <3>3. snap[c].no = exports /\ exports \in Nat /\ exports > 0
      BY <1>0, <3>1, <3>2, WireTypes DEF Numbers, Started, Unsent
    <3>4. Numbers'
      BY <1>0, <3>1, <3>2, <3>3, Members DEF Numbers, Early, Started, Unsent
    <3>5. q.snap.no = snap[c].no /\ q.sha = base[c] /\ q.try = try[c]
      OBVIOUS
    <3> HIDE DEF q
    <3>6. Fresh(base[c], snap[c].no) /\ \A p \in wire : p.snap.no # snap[c].no
      BY <1>0, <3>1, <3>2 DEF Wires, AnswersTo
    <3>7. \A p \in wire' : /\ p.snap.no \in 1..exports
                           /\ p.sha <= remote.sha
                           /\ p.sha = remote.sha => \A n \in stored : n < p.snap.no
      BY <1>0, <3>1, <3>3, <3>5, <3>6 DEF Wires, Fresh
    <3>8. \A x, y \in wire' : x.snap.no = y.snap.no => x = y
      BY <1>0, <3>1, <3>5, <3>6 DEF Wires
    <3>9. ASSUME NEW p \in wire', NEW d \in Pushers, snap[d].no = p.snap.no PROVE AnswersTo(p, d)'
      <4>1. d = c
        <5>1. p.snap.no # 0
          BY <3>3, <3>7, <3>9
        <5> QED BY <3>2, <3>9, <5>1
      <4>2. p = q
        BY <3>1, <3>6, <3>9, <4>1
      <4> QED BY <3>1, <3>5, <4>1, <4>2 DEF AnswersTo
    <3>10. \A d \in Pushers : /\ pc'[d] # "put"
                              /\ pc'[d] \in Early \cup {"rules", "rest", "pull"} => base[d] = 0
      BY <1>0, <3>1, <3>2, Members DEF Wires, Early
    <3>11. Wires'
      BY <3>1, <3>7, <3>8, <3>9, <3>10 DEF Wires, Fresh
    <3> QED BY <3>4, <3>11
  <2> QED BY <1>11, <2>1, <2>2, <2>3 DEF Push
<1>12. ASSUME NEW p \in wire, Serve(p) PROVE Numbers' /\ Wires'
  <2>0. /\ UNCHANGED exports /\ wire' = wire \ {p} /\ p.sha \in Nat /\ remote.sha \in Nat
        /\ p.snap.no \in 1..exports
    BY <1>0, <1>12, WireTypes DEF Serve, Wires
  <2>1. ASSUME p.sha # remote.sha
        PROVE  remote' = remote /\ stored' = stored
    BY <1>12, <2>1 DEF Serve
  <2>2. ASSUME p.sha # remote.sha, NEW c \in Goroutines, AnswersTo(p, c), Return(c)
        PROVE  Numbers' /\ Wires'
    BY <1>b, <2>0, <2>1, <2>2
  <2>3. ASSUME p.sha # remote.sha, NEW c \in Goroutines, AnswersTo(p, c),
               Goto(c, "repull"), UNCHANGED <<mu, snap, todo, base, try>>
        PROVE  Numbers' /\ Wires'
    <3>1. /\ pc[c] = "await" /\ snap[c].no = p.snap.no
          /\ pc'[c] = "repull" /\ \A d \in Goroutines \ {c} : pc'[d] = pc[d]
      BY <1>0, <2>3 DEF AnswersTo, Goto
    <3>2. c \in Pushers /\ \A d \in Pushers \ {c} : pc[d] \in {"idle", "wait"}
      BY <1>0, <3>1, Alone, Members DEF Turns
    <3>3. Numbers'
      BY <1>0, <2>0, <2>1, <2>3, <3>1, <3>2, Members DEF Numbers, Early, Started, Unsent
    <3>4. ASSUME NEW x \in wire', NEW d \in Pushers, snap[d].no = x.snap.no PROVE AnswersTo(x, d)'
      <4>1. x # p /\ x.snap.no # p.snap.no /\ AnswersTo(x, d)
        BY <1>0, <2>0, <3>4 DEF Wires
      <4>2. d # c /\ d \in Goroutines
        BY <3>1, <3>4, <4>1, Members
      <4> QED BY <2>3, <3>1, <4>1, <4>2 DEF AnswersTo
    <3>5. \A d \in Pushers : /\ pc'[d] # "put"
                             /\ pc'[d] \in Early \cup {"rules", "rest", "pull"} => base[d] = 0
      BY <1>0, <3>1, <3>2, Members DEF Wires, Early
    <3>6. Wires'
      BY <1>0, <2>0, <2>1, <2>3, <3>4, <3>5 DEF Wires, Fresh
    <3> QED BY <3>3, <3>6
  <2>4. ASSUME p.sha # remote.sha, UNCHANGED calling PROVE Numbers' /\ Wires'
    <3>1. \A d \in Pushers : Stays(d)
      BY <2>4 DEF Stays, calling
    <3> QED BY <2>0, <2>1, <2>4, <3>1, CountFrame
  <2>5. ASSUME p.sha = remote.sha
        PROVE  /\ remote'.sha = remote.sha + 1 /\ stored' = stored \cup {p.snap.no}
               /\ \A x \in wire : x.sha <= remote.sha /\ x.sha # remote'.sha /\ x.sha <= remote'.sha
               /\ \A d \in Pushers : pc[d] = "put" => base[d] <= remote.sha /\ base[d] # remote'.sha
                                                      /\ base[d] <= remote'.sha
    <3>1. remote'.sha = remote.sha + 1 /\ stored' = stored \cup {p.snap.no}
      BY <1>12, <2>5 DEF Serve
    <3>2. \A x \in wire : x.sha <= remote.sha /\ x.sha \in Nat
      BY <1>0, WireTypes DEF Wires, Fresh
    <3>3. \A d \in Pushers : pc[d] = "put" => base[d] <= remote.sha /\ base[d] \in Nat
      BY <1>0, WireTypes, Members DEF Wires, Fresh
    <3> QED BY <2>0, <3>1, <3>2, <3>3
  <2>6. ASSUME p.sha = remote.sha, NEW c \in Goroutines, AnswersTo(p, c), Goto(c, "stamp"),
               UNCHANGED <<mu, snap, todo, base, try>>
        PROVE  Numbers' /\ Wires'
    <3>1. /\ pc[c] = "await" /\ snap[c].no = p.snap.no
          /\ pc'[c] = "stamp" /\ \A d \in Goroutines \ {c} : pc'[d] = pc[d]
      BY <1>0, <2>6 DEF AnswersTo, Goto
    <3>2. c \in Pushers /\ \A d \in Pushers \ {c} : pc[d] \in {"idle", "wait"}
      BY <1>0, <3>1, Alone, Members DEF Turns
    <3>3. Numbers'
      BY <1>0, <2>0, <2>5, <2>6, <3>1, <3>2, Members DEF Numbers, Early, Started, Unsent
    <3>4. ASSUME NEW x \in wire', NEW d \in Pushers, snap[d].no = x.snap.no PROVE AnswersTo(x, d)'
      <4>1. x # p /\ x.snap.no # p.snap.no /\ AnswersTo(x, d)
        BY <1>0, <2>0, <3>4 DEF Wires
      <4>2. d # c /\ d \in Goroutines
        BY <3>1, <3>4, <4>1, Members
      <4> QED BY <2>6, <3>1, <4>1, <4>2 DEF AnswersTo
    <3>5. \A d \in Pushers : /\ pc'[d] # "put"
                             /\ pc'[d] \in Early \cup {"rules", "rest", "pull"} => base[d] = 0
      BY <1>0, <3>1, <3>2, Members DEF Wires, Early
    <3>6. Wires'
      BY <1>0, <2>0, <2>5, <2>6, <3>4, <3>5 DEF Wires, Fresh
    <3> QED BY <3>3, <3>6
  <2>7. ASSUME p.sha = remote.sha, ~(\E c \in Goroutines : AnswersTo(p, c)), UNCHANGED calling
        PROVE  Numbers' /\ Wires'
    <3>1. UNCHANGED <<pc, snap, base, try>>
      BY <2>7 DEF calling
    <3>2. \A d \in Pushers : snap[d].no # p.snap.no
      BY <1>0, <2>7, Members DEF Wires
    <3>3. Numbers'
      BY <1>0, <2>0, <2>5, <2>7, <3>1, <3>2 DEF Numbers
    <3>4. \A x \in wire', d \in Pushers : snap[d].no = x.snap.no => AnswersTo(x, d)'
      BY <1>0, <2>0, <3>1 DEF Wires, AnswersTo
    <3>5. Wires'
      BY <1>0, <2>0, <2>5, <2>7, <3>1, <3>4 DEF Wires, Fresh
    <3> QED BY <3>3, <3>5
  <2>8. CASE p.sha = remote.sha
    BY <1>12, <2>6, <2>7, <2>8 DEF Serve
  <2>9. CASE p.sha # remote.sha
    <3>1. ASSUME NEW c \in Goroutines, AnswersTo(p, c), Conflict(c) PROVE Numbers' /\ Wires'
      BY <2>2, <2>3, <2>9, <3>1 DEF Conflict
    <3> QED BY <1>12, <2>2, <2>4, <2>9, <3>1 DEF Serve
  <2> QED BY <2>8, <2>9
<1>13. ASSUME NEW p \in wire, Lose(p) PROVE Numbers' /\ Wires'
  <2>1. UNCHANGED <<remote, exports, stored>> /\ wire' \subseteq wire
    BY <1>13 DEF Lose, history
  <2>2. CASE UNCHANGED calling
    <3>1. \A d \in Pushers : Stays(d)
      BY <2>2 DEF Stays, calling
    <3> QED BY <2>1, <3>1, CountFrame
  <2>3. CASE \E c \in Goroutines : Return(c)
    BY <1>b, <2>1, <2>3
  <2> QED BY <1>13, <2>2, <2>3 DEF Lose
<1> QED BY <1>1, <1>2, <1>3, <1>4, <1>5, <1>6, <1>7, <1>8, <1>9, <1>10, <1>11, <1>12, <1>13
        DEF Next

-----------------------------------------------------------------------------
(* The file at GitHub.                                                      *)

LEMMA FileStep == Inv /\ [Next]_vars => File'
<1> SUFFICES ASSUME Inv, [Next]_vars PROVE File'
  OBVIOUS
<1>0. /\ Types /\ Turns /\ Numbers /\ Wires /\ File
      /\ remote.sha \in Nat /\ remote.snap.no \in Nat /\ exports \in Nat
  BY TypeSplit, WireTypes DEF Inv
<1>a. ASSUME UNCHANGED <<remote, stored>>, last' = last \/ last' \in stored \cup {0} PROVE File'
  BY <1>0, <1>a DEF File, Ours
<1>1. CASE UNCHANGED vars
  BY <1>1, <1>a DEF vars, github, history
<1>2. CASE Edit \/ Configure \/ Tick \/ Crash \/ CheckAndBackup
  BY <1>2, <1>a DEF Edit, Configure, Tick, Crash, CheckAndBackup, github, history
<1>3. CASE Foreign
  <2>1. remote'.sha = remote.sha + 1 /\ remote'.snap = Theirs /\ UNCHANGED <<stored, last>>
    BY <1>3 DEF Foreign, history
  <2> QED BY <1>0, <2>1, EmptyIs DEF File, Ours
<1>4. CASE Upload
  BY <1>4, <1>a DEF Upload, Import, github
<1>5. CASE Restore
  BY <1>5, <1>a
     DEF Restore, PullSnapshot, RestoreFails, ImportPulled, SaveSettings, Import, github, history
<1>6. ASSUME NEW c \in Goroutines, Request(c) \/ Lock(c) PROVE File'
  BY <1>6, <1>a DEF Request, Lock, Begin, github, history
<1>7. ASSUME NEW c \in Goroutines, Export(c) PROVE File'
  BY <1>7, <1>a DEF Export, ListHosts, ListDesiredRules, ReadSettings, ReadPresets,
                    ReadPresetsFails, ExportFails, github, history
<1>8. ASSUME NEW c \in Goroutines, Push(c) PROVE File'
  <2>1. CASE Stamp(c)
    <3>1. c \in Pushers /\ pc[c] = "stamp"
      BY <1>0, <2>1, Members DEF Stamp, Turns
    <3>2. last' = snap[c].no /\ snap[c].no \in stored /\ UNCHANGED <<remote, stored>>
      BY <1>0, <2>1, <3>1 DEF Stamp, Numbers, github
    <3> QED BY <3>2, <1>a
  <2>2. CASE Put(c)
    BY <2>2, <1>a DEF Put, history
  <2>3. CASE Pull(c) \/ PullFails(c) \/ TimeOut(c) \/ Repull(c) \/ RepullFails(c)
    BY <2>3, <1>a DEF Pull, PullFails, TimeOut, Repull, RepullFails, github, history
  <2> QED BY <1>8, <2>1, <2>2, <2>3 DEF Push
<1>9. ASSUME NEW p \in wire, Serve(p) PROVE File'
  <2>1. CASE p.sha # remote.sha
    BY <1>9, <1>a, <2>1 DEF Serve
  <2>2. CASE p.sha = remote.sha
    <3>1. /\ remote'.sha = remote.sha + 1 /\ remote'.snap = p.snap
          /\ stored' = stored \cup {p.snap.no} /\ last' = last
      BY <1>9, <2>2 DEF Serve
    <3>2. p.snap.no \in 1..exports /\ \A n \in stored : n \in Nat /\ n < p.snap.no
      BY <1>0, <2>2, WireTypes DEF Wires, Fresh
    <3> QED BY <1>0, <3>1, <3>2 DEF File, Ours
  <2> QED BY <2>1, <2>2
<1>10. ASSUME NEW p \in wire, Lose(p) PROVE File'
  BY <1>10, <1>a DEF Lose, history
<1> QED BY <1>1, <1>2, <1>3, <1>4, <1>5, <1>6, <1>7, <1>8, <1>9, <1>10 DEF Next

-----------------------------------------------------------------------------
(* What backups contain.                                                    *)

LEMMA FitIs ==
    ASSUME NEW s, NEW t, Fit(s), t.host = s.host, t.rule = s.rule, s.crossed => t.crossed
    PROVE  Fit(t)
BY DEF Fit, Fits

\* As long as the tables stay, and nothing else is sent or exported.
LEMMA ContentFrame ==
    ASSUME Inv, UNCHANGED tables,
           remote'.snap = remote.snap \/ Fit(remote'.snap),
           \A p \in wire' : p \in wire \/ Fit(p.snap),
           \A c \in Goroutines : snap'[c] = snap[c] \/ Fit(snap'[c]),
           \A c \in Goroutines :
              pc'[c] = "rules" => pc[c] = "rules" /\ snap'[c] = snap[c] /\ todo'[c] = todo[c]
    PROVE  Content'
<1>0. OwnRules /\ Content
  BY DEF Inv, Content
<1>1. OwnRules'
  BY <1>0 DEF OwnRules, tables
<1>2. Fit(remote'.snap) /\ \A p \in wire' : Fit(p.snap)
  BY <1>0 DEF Content
<1>3. ASSUME NEW c \in Goroutines PROVE Fit(snap'[c]) /\ Asks(c)'
  BY <1>0, <1>3 DEF Content, Asks, tables
<1> QED BY <1>1, <1>2, <1>3 DEF Content

\* The tables are replaced by a snapshot that fits.
LEMMA ImportFits ==
    ASSUME Inv, NEW s \in Snapshots, Fit(s), Import(s) PROVE OwnRules'
<1>1. Types
  BY TypeSplit DEF Inv
<1>2. /\ db'.host = s.host /\ db'.rule = s.rule /\ db'.crossed = s.crossed
      /\ \A i \in Ids : s.host[i] # "none" => i \in used'
  BY <1>1, ImportIs
<1>3. Fit(db')
  BY <1>2, FitIs
<1> QED BY <1>2, <1>3 DEF OwnRules

\* An edit gives no host the id of another one, and keeps the rules of a host its own.
LEMMA EditFits ==
    ASSUME Types, OwnRules, NEW i \in Ids,
           AddHost(i) \/ DeleteHost(i) \/ SaveRule(i) \/ SavePreset(i)
    PROVE  /\ OwnRules' /\ db'.crossed = db.crossed
           /\ \A j \in used : j \in used' /\ db'.host[j] \in {"none", db.host[j]}
<1>0. db \in Tables /\ used \subseteq Ids /\ \A j \in Ids : j \in Nat
  BY BackupAssumption DEF Types
<1>1. /\ db'.crossed = db.crossed
      /\ \A j \in Ids \ {i} : db'.host[j] = db.host[j] /\ db'.rule[j] = db.rule[j]
  BY <1>0, EditIs
<1>2. CASE /\ \A j \in used : j < i
           /\ db'.rule[i] = db.rule[i] /\ used' = {j \in Ids : j <= i}
  <2>1. i \notin used /\ \A j \in used : j # i /\ j \in used'
    BY <1>0, <1>2
  <2>2. db.host[i] = "none" /\ (db.crossed \/ db.rule[i] = "none")
    BY <2>1 DEF OwnRules, Fit, Fits
  <2>3. Fit(db')
    BY <1>1, <1>2, <2>2 DEF OwnRules, Fit, Fits
  <2>4. ASSUME NEW j \in Ids \ used' PROVE db'.host[j] = "none"
    <3>1. j # i /\ j \notin used
      BY <1>0, <1>2, <2>1
    <3> QED BY <1>1, <3>1 DEF OwnRules
  <2> QED BY <1>0, <1>1, <2>1, <2>3, <2>4 DEF OwnRules
<1>3. CASE /\ used' = used /\ db'.host[i] \in {"none", db.host[i]}
           /\ db.host[i] # "none"
           /\ \/ db'.rule[i] \in {"none", db'.host[i]}
              \/ db'.rule[i] = db.rule[i] /\ db'.host[i] = db.host[i]
  <2>1. i \in used
    BY <1>3 DEF OwnRules
  <2>2. Fit(db')
    BY <1>1, <1>3 DEF OwnRules, Fit, Fits
  <2>3. \A j \in Ids \ used' : db'.host[j] = "none"
    BY <1>1, <1>3, <2>1 DEF OwnRules
  <2> QED BY <1>0, <1>1, <1>3, <2>2, <2>3 DEF OwnRules
<1> QED BY <1>0, <1>2, <1>3, EditIs

LEMMA ContentStep == Inv /\ [Next]_vars => Content'
<1> SUFFICES ASSUME Inv, [Next]_vars PROVE Content'
  OBVIOUS
<1>0. /\ Types /\ Turns /\ Numbers /\ Content /\ OwnRules
      /\ pc \in [Goroutines -> Steps] /\ snap \in [Goroutines -> Snapshots]
      /\ todo \in [Goroutines -> SUBSET Ids]
  BY TypeSplit DEF Inv, Types, Content
<1>a. ASSUME UNCHANGED <<tables, calling, remote>>, wire' \subseteq wire PROVE Content'
  BY <1>a, ContentFrame DEF calling
<1>b. ASSUME NEW c \in Goroutines, Return(c), UNCHANGED <<tables, remote>>, wire' \subseteq wire
      PROVE  Content'
  <2>1. Fit(Empty)
    BY EmptyIs DEF Fit
  <2>2. pc'[c] = "idle" /\ snap'[c] = Empty
    BY <1>0, <1>b, ReturnIs
  <2>3. \A d \in Goroutines \ {c} : pc'[d] = pc[d] /\ snap'[d] = snap[d] /\ todo'[d] = todo[d]
    BY <1>0, <1>b, ReturnIs
  <2> QED BY <1>b, <2>1, <2>2, <2>3, ContentFrame
<1>c. ASSUME NEW c \in Goroutines, NEW l \in Steps \ {"rules"}, Goto(c, l),
             UNCHANGED <<tables, snap, todo, github>>
      PROVE  Content'
  <2>1. pc'[c] = l /\ \A d \in Goroutines \ {c} : pc'[d] = pc[d]
    BY <1>0, <1>c, GotoIs
  <2> QED BY <1>c, <2>1, ContentFrame DEF github
<1>1. CASE UNCHANGED vars
  BY <1>1, <1>a DEF vars, github
<1>2. CASE Edit
  <2>1. PICK i \in Ids : AddHost(i) \/ DeleteHost(i) \/ SaveRule(i) \/ SavePreset(i)
    BY <1>2 DEF Edit
  <2>2. UNCHANGED <<pc, snap, todo, github>>
    BY <1>2 DEF Edit, calling
  <2>3. /\ OwnRules' /\ db'.crossed = db.crossed
        /\ \A j \in used : j \in used' /\ db'.host[j] \in {"none", db.host[j]}
    BY <1>0, <2>1, EditFits
  <2>4. ASSUME NEW c \in Goroutines PROVE Asks(c)'
    <3>1. Asks(c)
      BY <1>0 DEF Content
    <3> QED BY <2>2, <2>3, <3>1 DEF Asks
  <2> QED BY <1>0, <2>2, <2>3, <2>4 DEF Content, github
<1>3. CASE Configure \/ Tick
  BY <1>3, <1>a DEF Configure, Tick, github
<1>4. CASE Foreign
  <2>1. Fit(Theirs) /\ remote'.snap = Theirs
    BY <1>4, EmptyIs DEF Foreign, Fit
  <2> QED BY <1>4, <2>1, ContentFrame DEF Foreign, calling
<1>5. CASE Crash
  <2>1. Fit(Empty)
    BY EmptyIs DEF Fit
  <2> QED BY <1>5, <2>1, ContentFrame DEF Crash, github
<1>6. CASE CheckAndBackup
  BY <1>6, <1>c, Members DEF CheckAndBackup, Steps
<1>7. CASE Upload
  <2>1. Theirs \in Snapshots /\ Fit(Theirs)
    BY EmptyIs DEF Fit
  <2>2. OwnRules' /\ UNCHANGED <<pc, todo, github>>
    BY <1>7, <2>1, ImportFits DEF Upload, github
  <2>3. ASSUME NEW c \in Goroutines PROVE Fit(snap'[c]) /\ Asks(c)'
    <3>1. Exporting(c) \in BOOLEAN /\ snap[c] \in Snapshots /\ Fit(snap[c])
      BY <1>0 DEF Exporting, Content
    <3>2. snap'[c] = [snap[c] EXCEPT !.crossed = @ \/ Exporting(c)]
      BY <1>7 DEF Upload
    <3>3. /\ snap'[c].host = snap[c].host /\ snap'[c].rule = snap[c].rule
          /\ snap'[c].crossed = (snap[c].crossed \/ Exporting(c))
      <4> HIDE DEF Exporting
      <4> QED BY <3>1, <3>2, WithCrossing
    <3>4. Fit(snap'[c])
      BY <3>1, <3>3, FitIs
    <3>5. Asks(c)'
      BY <2>2, <3>3 DEF Asks, Exporting
    <3> QED BY <3>4, <3>5
  <2> QED BY <1>0, <2>2, <2>3 DEF Content, github
<1>8. CASE Restore
  <2>1. CASE PullSnapshot
    <3>1. Fit(remote.snap) /\ pc'[Restorer] = "import" /\ snap'[Restorer] = remote.snap
      BY <1>0, <2>1, Members DEF PullSnapshot, Content, Goto
    <3>2. \A d \in Goroutines \ {Restorer} : pc'[d] = pc[d] /\ snap'[d] = snap[d]
      BY <1>0, <2>1, Members DEF PullSnapshot, Goto
    <3> QED BY <2>1, <3>1, <3>2, ContentFrame DEF PullSnapshot, github
  <2>2. CASE RestoreFails
    BY <2>2, <1>b, Members DEF RestoreFails, github
  <2>3. CASE ImportPulled
    <3>1. snap[Restorer] \in Snapshots /\ Fit(snap[Restorer]) /\ UNCHANGED <<snap, github>>
      BY <1>0, <2>3, Members DEF Content, ImportPulled
    <3>2. OwnRules'
      BY <2>3, <3>1, ImportFits DEF ImportPulled
    <3>3. ASSUME NEW c \in Goroutines PROVE pc'[c] # "rules"
      <4>1. pc[Restorer] = "import" /\ Goto(Restorer, "settings")
        BY <2>3 DEF ImportPulled
      <4>2. c # Restorer => pc[c] \in {"idle", "wait"}
        BY <1>0, <4>1, Alone, Members
      <4> QED BY <1>0, <4>1, <4>2 DEF Goto
    <3> QED BY <1>0, <3>1, <3>2, <3>3 DEF Content, Asks, github
  <2>4. CASE SaveSettings
    BY <2>4, <1>b, Members DEF SaveSettings, github
  <2> QED BY <1>8, <2>1, <2>2, <2>3, <2>4 DEF Restore
<1>9. ASSUME NEW c \in Goroutines, Request(c) PROVE Content'
  BY <1>9, <1>c DEF Request, Steps
<1>10. ASSUME NEW c \in Goroutines, Lock(c) PROVE Content'
  BY <1>10, <1>c DEF Lock, Begin, Steps
<1>11. ASSUME NEW c \in Goroutines, Export(c) PROVE Content'
  <2>0. /\ \A d \in Goroutines \ {c} : pc'[d] = pc[d] /\ snap'[d] = snap[d] /\ todo'[d] = todo[d]
        /\ Fit(snap[c]) /\ Asks(c)
    BY <1>0, <1>11, ExportIs DEF Content
  <2>1. CASE ExportFails(c)
    BY <1>b, <2>1 DEF ExportFails, github
  <2>2. CASE ReadSettings(c) \/ ReadPresets(c) \/ ReadPresetsFails(c)
    <3>1. /\ snap'[c].host = snap[c].host /\ snap'[c].crossed = snap[c].crossed
          /\ snap'[c].rule = snap[c].rule
      BY <1>0, <2>2, ExportIs
    <3>2. Fit(snap'[c])
      BY <2>0, <3>1, FitIs
    <3>3. pc'[c] # "rules" /\ UNCHANGED <<tables, github>>
      BY <1>0, <2>2 DEF ReadSettings, ReadPresets, ReadPresetsFails, Goto
    <3> QED BY <2>0, <3>2, <3>3, ContentFrame DEF github
  <2>3. CASE ListHosts(c)
    <3>1. /\ snap'[c].host = db.host /\ snap'[c].rule = Nowhere /\ snap'[c].crossed = db.crossed
          /\ UNCHANGED <<tables, github>> /\ todo'[c] = {i \in Ids : db.host[i] # "none"}
      BY <1>0, <2>3, ExportIs DEF ListHosts
    <3>2. Fit(snap'[c])
      BY <3>1 DEF Fit, Fits, Nowhere
    <3>3. Asks(c)'
      BY <1>0, <3>1 DEF Asks, OwnRules, tables
    <3>4. ASSUME NEW d \in Goroutines \ {c} PROVE Fit(snap'[d]) /\ Asks(d)'
      BY <1>0, <2>0, <3>1 DEF Content, Asks, tables
    <3> QED BY <1>0, <3>1, <3>2, <3>3, <3>4 DEF Content, OwnRules, tables, github
  <2>4. CASE ListDesiredRules(c)
    <3>1. PICK i \in todo[c] : /\ snap' = [snap EXCEPT ![c].rule[i] = db.rule[i]]
                               /\ todo' = [todo EXCEPT ![c] = @ \ {i}]
      BY <2>4 DEF ListDesiredRules
    <3>2. /\ pc[c] = "rules" /\ pc' = pc /\ UNCHANGED <<tables, github>>
          /\ todo'[c] \subseteq todo[c] /\ i \in Ids
      BY <1>0, <2>4, <3>1 DEF ListDesiredRules
    <3>3. /\ snap'[c].host = snap[c].host /\ snap'[c].crossed = snap[c].crossed
          /\ snap'[c].rule[i] = db.rule[i]
          /\ \A j \in Ids \ {i} : snap'[c].rule[j] = snap[c].rule[j]
      BY <1>0, <3>1, ExportIs
    <3>4. ~snap[c].crossed => db.rule[i] \in {"none", snap[c].host[i]}
      BY <1>0, <2>0, <3>1, <3>2 DEF Asks, OwnRules, Fit, Fits
    <3>5. Fit(snap'[c])
      BY <2>0, <3>3, <3>4 DEF Fit, Fits
    <3>6. Asks(c)'
      BY <2>0, <3>2, <3>3 DEF Asks, tables
    <3>7. ASSUME NEW d \in Goroutines \ {c} PROVE Fit(snap'[d]) /\ Asks(d)'
      BY <1>0, <2>0, <3>2 DEF Content, Asks, tables
    <3> QED BY <1>0, <3>2, <3>5, <3>6, <3>7 DEF Content, OwnRules, tables, github
  <2> QED BY <1>11, <2>1, <2>2, <2>3, <2>4 DEF Export
<1>12. ASSUME NEW c \in Goroutines, Push(c) PROVE Content'
  <2>1. CASE TimeOut(c) \/ RepullFails(c) \/ Stamp(c)
    BY <1>b, <2>1 DEF TimeOut, RepullFails, Stamp, github
  <2>2. CASE Pull(c) \/ PullFails(c) \/ Repull(c)
    BY <1>c, <2>2 DEF Pull, PullFails, Repull, Steps
  <2>3. CASE Put(c)
    <3>1. pc'[c] = "await" /\ \A d \in Goroutines \ {c} : pc'[d] = pc[d]
      BY <1>0, <2>3 DEF Put, Goto
    <3>2. \A p \in wire' : p \in wire \/ p.snap = snap[c]
      BY <2>3 DEF Put
    <3>3. Fit(snap[c])
      BY <1>0 DEF Content
    <3>4. \A p \in wire' : p \in wire \/ Fit(p.snap)
      BY <3>2, <3>3
    <3> QED BY <2>3, <3>1, <3>4, ContentFrame DEF Put
  <2> QED BY <1>12, <2>1, <2>2, <2>3 DEF Push
<1>13. ASSUME NEW p \in wire, Serve(p) PROVE Content'
  <2>1. wire' \subseteq wire /\ UNCHANGED tables /\ Fit(p.snap)
    BY <1>0, <1>13 DEF Serve, Content
  <2>2. Fit(remote'.snap)
    BY <1>0, <1>13, <2>1 DEF Serve, Content
  <2>3. ASSUME NEW c \in Goroutines, Goto(c, "stamp") \/ Goto(c, "repull"),
               UNCHANGED <<snap, todo>>
        PROVE  Content'
    <3>1. pc'[c] # "rules" /\ \A d \in Goroutines \ {c} : pc'[d] = pc[d]
      BY <1>0, <2>3 DEF Goto
    <3> QED BY <2>1, <2>2, <2>3, <3>1, ContentFrame
  <2>4. ASSUME NEW c \in Goroutines, Return(c) PROVE Content'
    <3>1. Fit(Empty)
      BY EmptyIs DEF Fit
    <3>2. /\ pc'[c] = "idle" /\ snap'[c] = Empty
          /\ \A d \in Goroutines \ {c} : pc'[d] = pc[d] /\ snap'[d] = snap[d] /\ todo'[d] = todo[d]
      BY <1>0, <2>4, ReturnIs
    <3> QED BY <2>1, <2>2, <3>1, <3>2, ContentFrame
  <2>5. CASE UNCHANGED calling
    BY <2>1, <2>2, <2>5, ContentFrame DEF calling
  <2> QED BY <1>13, <2>3, <2>4, <2>5 DEF Serve, Conflict
<1>14. ASSUME NEW p \in wire, Lose(p) PROVE Content'
  BY <1>14, <1>a, <1>b DEF Lose
<1> QED BY <1>1, <1>2, <1>3, <1>4, <1>5, <1>6, <1>7, <1>8, <1>9, <1>10, <1>11, <1>12, <1>13, <1>14
        DEF Next

-----------------------------------------------------------------------------
(* The theorems.                                                            *)

LEMMA InitInv == Init => Inv
<1> SUFFICES ASSUME Init PROVE Inv
  OBVIOUS
<1>1. PICK h \in [Ids -> {"none", "ours"}], r \in [Ids -> {"none", "ours"}], ps \in SUBSET Ids :
         db = [host |-> h, rule |-> r, preset |-> ps, crossed |-> FALSE]
  BY DEF Init
<1>2. db.host \in [Ids -> Who] /\ db.rule \in [Ids -> Who] /\ db \in Tables /\ ~db.crossed
  BY <1>1 DEF Tables, Who
<1>3. /\ mu = Nobody /\ \A c \in Goroutines : /\ pc[c] = "idle" /\ snap[c] = Empty
                                              /\ base[c] = 0 /\ todo[c] = {}
      /\ wire = {} /\ remote.sha = 0 /\ remote.snap = Empty
      /\ exports = 0 /\ stored = {} /\ last = 0
  BY DEF Init
<1>4. HostTypes
  BY <1>2 DEF Init, HostTypes
<1>5. CallTypes /\ NetTypes
  <2>1. "idle" \in Steps /\ Empty \in Snapshots
    BY EmptyIs DEF Steps
  <2> QED BY <2>1 DEF Init, CallTypes, NetTypes
<1>6. PastTypes /\ BoundTypes
  BY BackupAssumption DEF Init, PastTypes, BoundTypes
<1>7. Holder /\ Turns
  BY <1>3, Members DEF Holder, Turns, Early
<1>8. Numbers /\ Wires
  BY <1>3, EmptyIs, Members DEF Numbers, Wires, Early, Started, Unsent
<1>9. File
  BY <1>3, EmptyIs DEF File, Ours
<1>10. OwnRules
  <2>1. \A i \in Ids : db.host[i] = "none" => db.rule[i] = "none"
    BY DEF Init
  <2>2. \A i \in Ids : db.rule[i] \in {"none", "ours"} /\ db.host[i] \in {"none", "ours"}
    BY <1>1
  <2>3. \A i \in Ids \ used : db.host[i] = "none"
    BY DEF Init
  <2> QED BY <2>1, <2>2, <2>3 DEF OwnRules, Fit, Fits
<1>11. Content
  <2>1. Fit(Empty)
    BY EmptyIs DEF Fit
  <2> QED BY <1>3, <1>10, <2>1 DEF Content, Asks
<1> QED BY <1>4, <1>5, <1>6, <1>7, <1>8, <1>9, <1>11, TypeParts, TypeSplit DEF Inv

LEMMA InvStep == Inv /\ [Next]_vars => Inv'
<1>1. TypeOK' <=> Types' /\ Holder'
  BY DEF TypeOK, Types, Holder
<1> QED BY <1>1, TypeStep, TurnStep, CountStep, FileStep, ContentStep DEF Inv

LEMMA Invariance == Spec => []Inv
BY InitInv, InvStep, PTL DEF Spec

\* The manager's state, the file at GitHub and the tables have their types, and whoever has
\* Manager.mu is past its Lock.
THEOREM TypeCorrect == Spec => []TypeOK
<1>1. Inv => TypeOK
  BY DEF Inv
<1> QED BY <1>1, Invariance, PTL

\* SyncNow sets last_backup_time only for an export that GitHub has stored, and unless
\* somebody else has written the file since, it or a later one is there.
THEOREM RecordedStored == Spec => []RecordedIsStored
<1>1. Inv => RecordedIsStored
  <2> SUFFICES ASSUME Inv PROVE RecordedIsStored
    OBVIOUS
  <2>1. File /\ Types /\ remote.snap.no \in Nat
    BY TypeSplit, WireTypes DEF Inv
  <2> QED BY <2>1 DEF File, RecordedIsStored, Ours
<1> QED BY <1>1, Invariance, PTL

\* What ExportSnapshot has made and RestoreFromGitHub or an upload has imported gives each
\* host its own rules, unless an upload came in the middle of the export.
THEOREM SnapshotsAreFit == Spec => []SnapshotsFit
<1>1. Inv => SnapshotsFit
  BY DEF Inv, Content, OwnRules, Fit, SnapshotsFit
<1> QED BY <1>1, Invariance, PTL

\* pushWithSHA replaces an export only with a later one: a PUT that was given up carries the
\* sha of a version that is gone, and the second PUT after a conflict the latest export.
THEOREM BackupsInOrder == Spec => BackupsAreInOrder
<1>1. Inv /\ [Next]_vars => [Ours /\ Ours' => remote'.snap.no >= remote.snap.no]_vars
  <2> SUFFICES ASSUME Inv, Next PROVE Ours /\ Ours' => remote'.snap.no >= remote.snap.no
    OBVIOUS
  <2>0. /\ Wires /\ File /\ Types /\ remote.snap.no \in Nat
    BY TypeSplit, WireTypes DEF Inv
  <2>1. CASE UNCHANGED remote
    BY <2>0, <2>1
  <2>2. CASE Foreign
    BY <2>2, EmptyIs DEF Foreign, Ours
  <2>3. ASSUME NEW p \in wire, Serve(p)
        PROVE  Ours /\ Ours' => remote'.snap.no >= remote.snap.no
    <3>1. CASE p.sha # remote.sha
      BY <2>0, <2>3, <3>1 DEF Serve
    <3>2. CASE p.sha = remote.sha
      <4>1. /\ remote'.snap = p.snap /\ p.snap.no \in Nat
            /\ \A n \in stored : n < p.snap.no
        BY <2>0, <2>3, <3>2, WireTypes DEF Serve, Wires, Fresh
      <4> QED BY <2>0, <4>1 DEF File, Ours
    <3> QED BY <3>1, <3>2
  <2> QED BY <2>1, <2>2, <2>3
          DEF Next, Edit, Configure, Tick, Crash, CheckAndBackup, Upload, Restore, Request,
              Lock, Begin, Export, ListHosts, ListDesiredRules, ReadSettings, ReadPresets,
              ReadPresetsFails, ExportFails, Push, Pull, PullFails, Put, TimeOut, Repull,
              RepullFails, Stamp, PullSnapshot, RestoreFails, ImportPulled, SaveSettings,
              Lose, github
<1> QED BY <1>1, Invariance, PTL DEF Spec, BackupsAreInOrder
-----------------------------------------------------------------------------
(* A backup that is due is not held up, as far as that can be said without  *)
(* fairness.                                                                *)

\* A goroutine that has sent its PUT waits for an answer that GitHub can still give.
Awaited == \A c \in Goroutines : pc[c] = "await" => \E p \in wire : AnswersTo(p, c)

\* A goroutine that has the mutex can take its next step, whatever that depends on.
CanGo(c) ==
    \/ c \in Pushers /\ pc[c] \in {"hosts", "rules", "rest", "pull", "put", "repull", "stamp"}
    \/ c \in Pushers /\ pc[c] = "await" /\ (\E p \in wire : AnswersTo(p, c))
    \/ c = Restorer /\ pc[c] \in {"pull", "import", "settings"}

\* The mutex is free for whoever waits for it, or the goroutine that has it can go on.
MutexMoves == mu # Nobody => mu \in Goroutines /\ CanGo(mu)

\* When a backup is due, the scheduler can ask for the mutex, or get it, or who has it can
\* go on.
BackupMoves ==
    enabled /\ due =>
        \/ pc[Scheduler] = "idle"
        \/ pc[Scheduler] = "wait" /\ mu = Nobody
        \/ mu \in Goroutines /\ CanGo(mu)

LEMMA AwaitFrame ==
    ASSUME Awaited, wire \subseteq wire',
           \A c \in Goroutines :
              pc'[c] = "await" => pc[c] = "await" /\ snap'[c].no = snap[c].no /\ try'[c] = try[c]
    PROVE  Awaited'
<1> SUFFICES ASSUME NEW c \in Goroutines, pc'[c] = "await"
             PROVE  \E p \in wire' : AnswersTo(p, c)'
  BY DEF Awaited
<1>1. PICK p \in wire : AnswersTo(p, c)
  BY DEF Awaited
<1> QED BY <1>1 DEF AnswersTo

\* Every step keeps an answer for whoever still waits.
LEMMA AwaitStep == Inv /\ Awaited /\ [Next]_vars => Awaited'
<1> SUFFICES ASSUME Inv, Awaited, [Next]_vars PROVE Awaited'
  OBVIOUS
<1>0. /\ Types /\ Turns /\ pc \in [Goroutines -> Steps] /\ snap \in [Goroutines -> Snapshots]
      /\ try \in [Goroutines -> 1..2]
  BY TypeSplit DEF Inv, Types
<1>a. ASSUME UNCHANGED <<pc, snap, try, wire>> PROVE Awaited'
  BY <1>a, AwaitFrame
<1>b. ASSUME NEW c \in Goroutines, Return(c), UNCHANGED wire PROVE Awaited'
  <2>1. /\ pc'[c] = "idle"
        /\ \A d \in Goroutines \ {c} : pc'[d] = pc[d] /\ snap'[d] = snap[d] /\ try'[d] = try[d]
    BY <1>0, <1>b, ReturnIs
  <2> QED BY <1>b, <2>1, AwaitFrame
<1>c. ASSUME NEW c \in Goroutines, pc'[c] # "await", UNCHANGED wire,
             \A d \in Goroutines \ {c} : pc'[d] = pc[d] /\ snap'[d] = snap[d] /\ try'[d] = try[d]
      PROVE  Awaited'
  BY <1>c, AwaitFrame
<1>d. ASSUME NEW c \in Goroutines, NEW l \in Steps \ {"await"}, Goto(c, l), UNCHANGED wire,
             \A d \in Goroutines \ {c} : snap'[d] = snap[d] /\ try'[d] = try[d]
      PROVE  Awaited'
  <2>1. pc'[c] = l /\ \A d \in Goroutines \ {c} : pc'[d] = pc[d]
    BY <1>0, <1>d, GotoIs
  <2> QED BY <1>c, <1>d, <2>1
<1>s. {"idle", "wait", "hosts", "rules", "rest", "pull", "put", "repull", "stamp", "import",
       "settings"} \subseteq Steps \ {"await"}
  BY DEF Steps
<1>1. CASE UNCHANGED vars
  BY <1>1, <1>a DEF vars, calling, github
<1>2. CASE Edit \/ Configure \/ Tick \/ Foreign
  BY <1>2, <1>a DEF Edit, Configure, Tick, Foreign, calling, github
<1>3. CASE Crash
  BY <1>3 DEF Crash, Awaited
<1>4. CASE CheckAndBackup
  BY <1>4, <1>d, <1>s, Members DEF CheckAndBackup, github
<1>5. CASE Upload
  <2>1. ASSUME NEW c \in Goroutines PROVE snap'[c].no = snap[c].no
    <3>1. Exporting(c) \in BOOLEAN /\ snap[c] \in Snapshots
      BY <1>0 DEF Exporting
    <3>2. snap'[c] = [snap[c] EXCEPT !.crossed = @ \/ Exporting(c)]
      BY <1>5 DEF Upload
    <3> HIDE DEF Exporting
    <3> QED BY <3>1, <3>2, WithCrossing
  <2> QED BY <1>5, <2>1, AwaitFrame DEF Upload, github
<1>6. CASE Restore
  <2>1. CASE PullSnapshot
    <3>1. UNCHANGED <<try, wire>> /\ \A d \in Goroutines \ {Restorer} : snap'[d] = snap[d]
      BY <1>0, <2>1 DEF PullSnapshot, github
    <3> QED BY <1>d, <1>s, <2>1, <3>1, Members DEF PullSnapshot
  <2>2. CASE ImportPulled
    BY <1>d, <1>s, <2>2, Members DEF ImportPulled, github
  <2>3. CASE RestoreFails \/ SaveSettings
    BY <1>b, <2>3, Members DEF RestoreFails, SaveSettings, github
  <2> QED BY <1>6, <2>1, <2>2, <2>3 DEF Restore
<1>7. ASSUME NEW c \in Goroutines, Request(c) PROVE Awaited'
  BY <1>7, <1>d, <1>s DEF Request, github
<1>8. ASSUME NEW c \in Goroutines, Lock(c) PROVE Awaited'
  BY <1>8, <1>d, <1>s DEF Lock, Begin, github
<1>9. ASSUME NEW c \in Goroutines, Export(c) PROVE Awaited'
  <2>1. CASE ListDesiredRules(c)
    <3>1. pc'[c] # "await" /\ UNCHANGED <<pc, try, wire>>
      BY <2>1 DEF ListDesiredRules, github
    <3>2. \A d \in Goroutines \ {c} : snap'[d] = snap[d]
      BY <1>0, <2>1 DEF ListDesiredRules
    <3> QED BY <1>c, <3>1, <3>2
  <2>2. CASE ExportFails(c)
    BY <1>b, <2>2 DEF ExportFails, github
  <2>3. CASE ListHosts(c) \/ ReadSettings(c) \/ ReadPresets(c) \/ ReadPresetsFails(c)
    <3>1. PICK l \in {"rules", "rest", "pull"} : Goto(c, l)
      BY <2>3 DEF ListHosts, ReadSettings, ReadPresets, ReadPresetsFails
    <3>2. \A d \in Goroutines \ {c} : snap'[d] = snap[d] /\ try'[d] = try[d]
      BY <1>0, <2>3 DEF ListHosts, ReadSettings, ReadPresets, ReadPresetsFails
    <3> QED BY <1>d, <1>s, <2>3, <3>1, <3>2
            DEF ListHosts, ReadSettings, ReadPresets, ReadPresetsFails, github
  <2> QED BY <1>9, <2>1, <2>2, <2>3 DEF Export
<1>10. ASSUME NEW c \in Goroutines, Push(c) PROVE Awaited'
  <2>1. CASE TimeOut(c) \/ RepullFails(c) \/ Stamp(c)
    BY <1>b, <2>1 DEF TimeOut, RepullFails, Stamp, github
  <2>2. CASE Pull(c) \/ PullFails(c)
    BY <1>d, <1>s, <2>2 DEF Pull, PullFails, github
  <2>3. CASE Repull(c)
    <3>1. \A d \in Goroutines \ {c} : snap'[d] = snap[d] /\ try'[d] = try[d]
      BY <1>0, <2>3 DEF Repull
    <3> QED BY <1>d, <1>s, <2>3, <3>1 DEF Repull, github
  <2>4. CASE Put(c)
    <3>1. pc'[c] = "await" /\ \A d \in Goroutines \ {c} : pc'[d] = pc[d]
      BY <1>0, <2>4 DEF Put, Goto
    <3>2. UNCHANGED <<snap, try>> /\ wire \subseteq wire'
      BY <2>4 DEF Put
    <3>3. [try |-> try[c], sha |-> base[c], snap |-> snap[c]] \in wire'
      BY <2>4 DEF Put
    <3>4. \E p \in wire' : AnswersTo(p, c)'
      BY <3>1, <3>2, <3>3 DEF AnswersTo
    <3>5. ASSUME NEW d \in Goroutines \ {c}, pc'[d] = "await"
          PROVE  \E p \in wire' : AnswersTo(p, d)'
      <4>1. PICK p \in wire : AnswersTo(p, d)
        BY <3>1, <3>5 DEF Awaited
      <4> QED BY <3>1, <3>2, <4>1 DEF AnswersTo
    <3> QED BY <3>4, <3>5 DEF Awaited
  <2> QED BY <1>10, <2>1, <2>2, <2>3, <2>4 DEF Push
<1>11. ASSUME NEW p \in wire, Serve(p) \/ Lose(p) PROVE Awaited'
  <2>1. wire' = wire \ {p}
    BY <1>11 DEF Serve, Lose
  <2>2. \/ UNCHANGED calling /\ ~(\E c \in Goroutines : AnswersTo(p, c))
        \/ \E c \in Goroutines :
              /\ AnswersTo(p, c)
              /\ \/ Return(c)
                 \/ /\ Goto(c, "stamp") \/ Goto(c, "repull")
                    /\ UNCHANGED <<mu, snap, todo, base, try>>
    BY <1>11 DEF Serve, Lose, Conflict
  <2>3. CASE UNCHANGED calling /\ ~(\E c \in Goroutines : AnswersTo(p, c))
    <3>1. ASSUME NEW c \in Goroutines, pc'[c] = "await"
          PROVE  \E q \in wire' : AnswersTo(q, c)'
      <4>1. PICK q \in wire : AnswersTo(q, c)
        BY <2>3, <3>1 DEF Awaited, calling
      <4>2. q \in wire'
        BY <2>1, <2>3, <4>1
      <4> QED BY <2>3, <4>1, <4>2 DEF AnswersTo, calling
    <3> QED BY <3>1 DEF Awaited
  <2>4. ASSUME NEW c \in Goroutines, AnswersTo(p, c),
               \/ Return(c)
               \/ /\ Goto(c, "stamp") \/ Goto(c, "repull")
                  /\ UNCHANGED <<mu, snap, todo, base, try>>
        PROVE  Awaited'
    <3>1. pc'[c] # "await" /\ \A d \in Goroutines \ {c} : pc'[d] = pc[d]
      BY <1>0, <1>s, <2>4, ReturnIs, GotoIs
    <3>2. \A d \in Goroutines \ {c} : pc[d] # "await"
      BY <1>0, <2>4, Alone DEF AnswersTo
    <3> QED BY <3>1, <3>2 DEF Awaited
  <2> QED BY <2>2, <2>3, <2>4
<1> QED BY <1>1, <1>2, <1>3, <1>4, <1>5, <1>6, <1>7, <1>8, <1>9, <1>10, <1>11 DEF Next

LEMMA MutexIs == Inv /\ Awaited => MutexMoves
<1> SUFFICES ASSUME Inv, Awaited, mu # Nobody PROVE mu \in Goroutines /\ CanGo(mu)
  BY DEF MutexMoves
<1>1. Types /\ Turns /\ Holder
  BY TypeSplit DEF Inv
<1>2. mu \in Goroutines /\ pc[mu] \notin {"idle", "wait"}
  BY <1>1 DEF Holder
<1>3. CASE mu = Restorer
  BY <1>1, <1>2, <1>3 DEF Turns, CanGo
<1>4. CASE mu \in Pushers
  BY <1>1, <1>2, <1>4 DEF Turns, CanGo, Awaited, Early, Started, Unsent
<1> QED BY <1>2, <1>3, <1>4, Members

\* Manager.mu is never lost: whoever has it can take its next step, and one that waits for
\* the answer to its PUT waits for one that is still on the wire, however many PUTs were
\* given up, lost, or refused for their sha before.
THEOREM MutexIsNotLost == Spec => []MutexMoves
<1>1. Init => Awaited
  BY DEF Init, Awaited
<1>2. Inv /\ Awaited => MutexMoves
  BY MutexIs
<1> QED BY <1>1, <1>2, Invariance, AwaitStep, PTL DEF Spec

\* While backups are enabled and one is due, the scheduler can ask for the mutex, or get it,
\* or is kept from it by somebody who can go on; what BackupHappens adds is that they do.
THEOREM BackupGoesOn == Spec => []BackupMoves
<1>1. Inv /\ MutexMoves => BackupMoves
  <2> SUFFICES ASSUME Turns, MutexMoves, pc[Scheduler] \notin {"idle", "wait"}
               PROVE  mu \in Goroutines /\ CanGo(mu)
    BY DEF Inv, MutexMoves, BackupMoves
  <2>1. mu = Scheduler /\ mu # Nobody
    BY Members DEF Turns
  <2> QED BY <2>1 DEF MutexMoves
<1> QED BY <1>1, Invariance, MutexIsNotLost, PTL
=============================================================================
