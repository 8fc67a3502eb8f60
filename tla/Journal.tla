------------------------------ MODULE Journal ------------------------------
(***************************************************************************)
(* The durable session journal of internal/session/jsonl: one events.jsonl *)
(* with its metadata.json, recovery manifests and quarantined tails, used  *)
(* by several operating-system processes that may fail, die or lose power  *)
(* at any step.                                                            *)
(*                                                                         *)
(* A file is a sequence of lines of which a prefix is on stable storage; a *)
(* directory maps names to files and is itself only stable once it has     *)
(* been synchronised.  Mutations exclude each other with the flock on      *)
(* journal.lock; reads take no flock.  Within one process the keyed lock   *)
(* lets one journal operation run at a time, so a process has one pc.      *)
(***************************************************************************)
EXTENDS Naturals, Sequences, FiniteSets

CONSTANTS
  Proc,        \* processes that have the data root open, one Store each
  Txn,         \* transaction IDs of callers' appends
  Op,          \* recovery operations; o also names o's diagnostic transaction
  None,
  MaxFaults,   \* bound on failing system calls and injected faults
  MaxKills,    \* bound on process deaths
  MaxOutages   \* bound on power losses

ASSUME NamesAssumption ==
  /\ None \notin Proc /\ None \notin Txn /\ None \notin Op
  /\ Txn \cap Op = {}
ASSUME BoundsAssumption ==
  MaxFaults \in Nat /\ MaxKills \in Nat /\ MaxOutages \in Nat

ID == Txn \cup Op

(***************************************************************************)
(* Lines.  "legacy" is the v1 session.created line every session starts    *)
(* with, "declared" and "events" stand for the event lines of one          *)
(* transaction (with and without the compatibility declaration in front),  *)
(* "marker" is transaction.committed, and "torn" is an incomplete fragment.*)
(***************************************************************************)
Line == [kind : {"legacy", "declared", "events", "marker", "torn"},
         txn  : ID \cup {None}]

Mk(kind, t) == [kind |-> kind, txn |-> t]
Opens(line) == line.kind \in {"declared", "events"}
Commits(line) == line.kind \in {"legacy", "marker"}
MarkerAt(lines, i, t) == i \in 1 .. Len(lines) /\ lines[i] = Mk("marker", t)
Prefix(lines, n) == SubSeq(lines, 1, n)
Extends(long, short) == Len(short) <= Len(long) /\ Prefix(long, Len(short)) = short

\* validateCompatibilityTransition: exactly the first v2 transaction after the
\* legacy lines declares compatibility.
TransitionOK(lines, i) ==
  lines[i - 1].kind = "declared" <=> \A j \in 1 .. i - 1 : lines[j].kind # "marker"

\* scanJournal cannot pass line i: it is torn, out of place, repeats an ID, or
\* is a marker that does not close the transaction in front of it.
Rejected(lines, i) ==
  \/ lines[i].kind = "torn"
  \/ lines[i].kind = "legacy" /\ \E j \in 1 .. i - 1 : lines[j].kind # "legacy"
  \/ Opens(lines[i]) /\ \E j \in 1 .. i - 1 :
       \/ j = i - 1 /\ Opens(lines[j])
       \/ lines[j].kind # "legacy" /\ lines[j].txn = lines[i].txn
  \/ lines[i].kind = "marker" /\
       ~ (i > 1 /\ Opens(lines[i - 1]) /\ lines[i - 1].txn = lines[i].txn
                /\ TransitionOK(lines, i))

Scanned(lines, i) == \A j \in 1 .. i : ~ Rejected(lines, j)

\* Data before the final fragment is invalid: no append and no recovery can
\* make such a journal writable again.
Fatal(lines) ==
  \E i \in 1 .. Len(lines) : Rejected(lines, i) /\ ~ (i = Len(lines) /\ lines[i].kind = "torn")

\* h is the line of the committed head: the last commit the scan reaches.
IsHead(lines, h) ==
  /\ h \in 1 .. Len(lines) /\ Commits(lines[h]) /\ Scanned(lines, h)
  /\ \A j \in h + 1 .. Len(lines) : ~ (Commits(lines[j]) /\ Scanned(lines, j))

Writable(lines) == IsHead(lines, Len(lines))
RecoveryEligible(lines) == ~ Fatal(lines) /\ ~ Writable(lines)
IsCommitted(lines, t) == \E i \in 1 .. Len(lines) : MarkerAt(lines, i, t) /\ Scanned(lines, i)
Committed(lines) == {t \in ID : IsCommitted(lines, t)}

\* An append that declares compatibility in front of every transaction.
OpenLineDeclared(lines, t) == Mk("declared", t)

\* The event lines AppendBatch writes for t behind a journal's lines.
OpenLine(lines, t) ==
  Mk(IF \A j \in 1 .. Len(lines) : lines[j].kind # "marker" THEN "declared" ELSE "events", t)

-----------------------------------------------------------------------------
VARIABLES
  files,      \* inodes: their lines, and how many are on stable storage
  dir,        \* the session directory as processes see it
  disk,       \* the session directory as power loss would leave it
  vault,      \* artifacts/: quarantined tails
  holder,     \* the process that holds the flock on journal.lock
  uncertain,  \* process -> rootState.markerUncertainty: transaction and inode
  pc,         \* process -> the step of its journal operation
  job,        \* process -> what that operation works on
  view,       \* process -> the head and tail it last observed
  tried,      \* callers' transactions AppendBatch was called with
  acked,      \* transactions whose own AppendBatch or RecoverSession returned success
  reported,   \* transactions a read reported as committed
  denied,     \* transactions a process was told are not committed
  faults, kills, outages

durable  == <<files, dir, disk, vault>>
memory   == <<uncertain, pc, job, view, holder>>
told     == <<acked, reported, denied>>
counters == <<faults, kills, outages>>
vars == <<durable, memory, tried, told, counters>>

Manifest == [op : Op, prefix : Seq(Line), tail : Seq(Line)]
Directory == [events : Nat \ {0}, lastSeq : Nat, manifests : SUBSET Manifest]
NoJob == [txn |-> None, ino |-> 0, upto |-> 0, settled |-> {}, man |-> None]
AppendJob(t) == [NoJob EXCEPT !.txn = t]
NoView == [seq |-> 0, txn |-> None, tail |-> <<>>]

Active == files[dir.events].lines
Quarantined(tail) == \E q \in vault : q.tail = tail
Put(f, x, v) == [f EXCEPT ![x] = v]

AppendSteps == {"write_events", "sync_events", "write_marker", "sync_marker",
                "write_metadata", "sync_directory"}
ReadSteps == {"sync_view"}
RecoverySteps == {"manifest", "sync_manifest", "quarantine", "sync_quarantine",
                  "candidate", "sync_candidate", "activate_metadata", "activate_events",
                  "sync_activation", "diagnostic"}
ResetSteps == {"keep_partial", "reset_candidate", "reset_events", "sync_reset"}

Init ==
  /\ files = << [lines |-> << Mk("legacy", None) >>, synced |-> 1] >>
  /\ dir = [events |-> 1, lastSeq |-> 1, manifests |-> {}]
  /\ disk = dir
  /\ vault = {}
  /\ holder = None
  /\ uncertain = [p \in Proc |-> {}]
  /\ pc = [p \in Proc |-> "idle"]
  /\ job = [p \in Proc |-> NoJob]
  /\ view = [p \in Proc |-> NoView]
  /\ tried = {} /\ acked = {} /\ reported = {} /\ denied = {}
  /\ faults = 0 /\ kills = 0 /\ outages = 0

\* The operation of p returns: the flock and the keyed lock are released.
End(p) ==
  /\ pc' = Put(pc, p, "idle")
  /\ job' = Put(job, p, NoJob)
  /\ holder' = IF holder = p THEN None ELSE holder

Goto(p, step) == pc' = Put(pc, p, step) /\ UNCHANGED holder
SpendFault == faults < MaxFaults /\ faults' = faults + 1 /\ UNCHANGED <<kills, outages>>

\* A write to or a sync of the file the name events.jsonl refers to.
Write(lines) == files' = [files EXCEPT ![dir.events].lines = lines]
SyncFile(ino) == files' = [files EXCEPT ![ino].synced = Len(files[ino].lines)]

-----------------------------------------------------------------------------
(***************************************************************************)
(* AppendBatch.  Early returns (conflict, recovery_required, a duplicate   *)
(* transaction, metadata that leads the head) leave everything unchanged,  *)
(* so only the call that passes them all is an action.                     *)
(***************************************************************************)
ReadyToAppend(p, t) ==
  /\ uncertain[p] = {}
  /\ Writable(Active)
  /\ ~ IsCommitted(Active, t)
  /\ dir.lastSeq <= Len(Active)

EnterAppend(p, t) ==
  /\ pc[p] = "idle"
  /\ t \notin tried                            \* callers draw fresh IDs
  /\ ReadyToAppend(p, t)
  /\ view[p].seq = Len(Active) /\ view[p].txn = Active[Len(Active)].txn
  /\ tried' = tried \cup {t}
  /\ holder' = p
  /\ pc' = Put(pc, p, "write_events")
  /\ job' = Put(job, p, AppendJob(t))
  /\ UNCHANGED <<durable, uncertain, view, told, counters>>

\* The flock is waited for until it is free, or until the context ends.
FlockFree == holder = None

BeginAppend(p, t) == FlockFree /\ EnterAppend(p, t)

WriteEvents(p) ==
  LET line == OpenLine(Active, job[p].txn) IN
  /\ pc[p] = "write_events"
  /\ \/ Write(Append(Active, line)) /\ Goto(p, "sync_events") /\ UNCHANGED <<job, counters>>
     \/ /\ SpendFault
        /\ \E part \in { <<>>, << Mk("torn", job[p].txn) >>, << line >> } : Write(Active \o part)
        /\ End(p)
  /\ UNCHANGED <<dir, disk, vault, uncertain, view, tried, told>>

SyncEvents(p) ==
  /\ pc[p] = "sync_events"
  /\ SyncFile(dir.events)
  /\ Goto(p, "write_marker")
  /\ UNCHANGED <<dir, disk, vault, uncertain, job, view, tried, told, counters>>

WriteMarker(p) ==
  LET t == job[p].txn IN
  /\ pc[p] = "write_marker"
  /\ uncertain' = Put(uncertain, p, uncertain[p] \cup {[txn |-> t, ino |-> dir.events]})
  /\ \/ Write(Append(Active, Mk("marker", t))) /\ Goto(p, "sync_marker") /\ UNCHANGED <<job, counters>>
     \/ /\ SpendFault
        /\ \E part \in { <<>>, << Mk("torn", t) >>, << Mk("marker", t) >> } : Write(Active \o part)
        /\ End(p)
  /\ UNCHANGED <<dir, disk, vault, view, tried, told>>

\* A commit that skips the sync of its marker.
SkipMarkerSync(p) ==
  /\ pc[p] = "sync_marker"
  /\ Goto(p, "write_metadata")
  /\ UNCHANGED <<durable, uncertain, job, view, tried, told, counters>>

SyncMarker(p) ==
  /\ pc[p] = "sync_marker"
  /\ SyncFile(dir.events)
  /\ Goto(p, "write_metadata")
  /\ UNCHANGED <<dir, disk, vault, uncertain, job, view, tried, told, counters>>

\* writeJSONAtomicRooted: the new metadata is complete and synced before the rename.
WriteMetadata(p) ==
  /\ pc[p] = "write_metadata"
  /\ dir' = [dir EXCEPT !.lastSeq = Len(Active)]
  /\ Goto(p, "sync_directory")
  /\ UNCHANGED <<files, disk, vault, uncertain, job, view, tried, told, counters>>

\* The directory sync, the return of "committed" and the release of the locks.
FinishAppend(p) ==
  LET t == job[p].txn IN
  /\ pc[p] = "sync_directory"
  /\ disk' = dir
  /\ uncertain' = Put(uncertain, p, {u \in uncertain[p] : u.txn # t})
  /\ view' = Put(view, p, [seq |-> Len(Active), txn |-> t, tail |-> <<>>])
  /\ acked' = acked \cup {t}
  /\ End(p)
  /\ UNCHANGED <<files, dir, vault, tried, reported, denied, counters>>

-----------------------------------------------------------------------------
(***************************************************************************)
(* Inspect, ReadRange and LookupTransaction scan without the flock, then   *)
(* syncCommittedView resolves the process's uncertain markers against that *)
(* scan, synchronises the file and checks the name still refers to it.     *)
(***************************************************************************)
Scan(p, settled) ==
  /\ pc[p] = "idle"
  /\ pc' = Put(pc, p, "sync_view")
  /\ job' = Put(job, p, [NoJob EXCEPT !.ino = dir.events, !.upto = Len(Active),
                                     !.settled = settled])
  /\ UNCHANGED <<durable, uncertain, view, holder, tried, told, counters>>

\* Callers look up a transaction after its append has returned or died.
BeginRead(p) == Scan(p, {t \in tried : \A q \in Proc : job[q].txn # t})

\* What a scan has read: a scan that was remembered counts only while its digest
\* is that of the prefix it was made of, and is continued behind it.
Snapshot(p) == Prefix(files[job[p].ino].lines, job[p].upto)

Resolved(p) ==
  \A u \in uncertain[p] : u.ino = job[p].ino /\ IsCommitted(Snapshot(p), u.txn)

ViewCurrent(p) ==
  /\ pc[p] = "sync_view" /\ Resolved(p) /\ dir.events = job[p].ino
  /\ uncertain' = Put(uncertain, p, {})

\* A read that reports what it scanned without synchronising it.
ViewUnsynced(p) == ViewCurrent(p) /\ UNCHANGED files

\* syncCommittedView returned no error; what the scan found may be reported.
ViewSynced(p) == ViewCurrent(p) /\ SyncFile(job[p].ino)

FinishInspect(p) ==
  /\ ViewSynced(p)
  /\ \E h \in 1 .. job[p].upto :
       /\ IsHead(Snapshot(p), h)
       /\ view' = Put(view, p, [seq |-> h, txn |-> Snapshot(p)[h].txn,
                                tail |-> SubSeq(Snapshot(p), h + 1, job[p].upto)])
  /\ reported' = reported \cup Committed(Snapshot(p))
  /\ End(p)
  /\ UNCHANGED <<dir, disk, vault, tried, acked, denied, counters>>

FinishLookup(p, t) ==
  /\ ViewSynced(p)
  /\ IF IsCommitted(Snapshot(p), t)
       THEN reported' = reported \cup {t} /\ UNCHANGED denied
       ELSE /\ Writable(Snapshot(p)) /\ t \in job[p].settled   \* otherwise "unknown"
            /\ denied' = denied \cup {t} /\ UNCHANGED reported
  /\ End(p)
  /\ UNCHANGED <<dir, disk, vault, view, tried, acked, counters>>

ReadReplaced(p) ==
  /\ pc[p] = "sync_view" /\ Resolved(p) /\ dir.events # job[p].ino
  /\ SyncFile(job[p].ino)
  /\ End(p)
  /\ UNCHANGED <<dir, disk, vault, uncertain, view, tried, told, counters>>

\* The journal was replaced while it was read, or an uncertainty is unresolved.
FailRead(p) ==
  \/ ReadReplaced(p)
  \/ /\ pc[p] = "sync_view" /\ ~ Resolved(p)
     /\ End(p)
     /\ UNCHANGED <<durable, uncertain, view, tried, told, counters>>

-----------------------------------------------------------------------------
(***************************************************************************)
(* RecoverSession.  A fresh operation binds the head and tail its process  *)
(* inspected; one that finds its manifest resumes where the files say it   *)
(* stopped.  Conflicts change nothing and are not actions.                 *)
(***************************************************************************)
StartRecovery(p, m, step) ==
  /\ pc[p] = "idle" /\ FlockFree
  /\ holder' = p
  /\ pc' = Put(pc, p, step)
  /\ job' = Put(job, p, [NoJob EXCEPT !.txn = m.op, !.man = m])

BeginRecovery(p, o) ==
  /\ \A m \in dir.manifests : m.op # o
  /\ RecoveryEligible(Active) /\ ~ IsCommitted(Active, o)
  /\ \E h \in 1 .. Len(Active) :
       LET m == [op |-> o, prefix |-> Prefix(Active, h),
                 tail |-> SubSeq(Active, h + 1, Len(Active))] IN
       /\ IsHead(Active, h)
       /\ view[p] = [seq |-> h, txn |-> Active[h].txn, tail |-> m.tail]
       /\ StartRecovery(p, m, "manifest")
  /\ UNCHANGED <<durable, uncertain, view, tried, told, counters>>

\* validatePersistedRecoveryManifest
BoundToManifest(m) ==
  Extends(Active, m.prefix) /\ (Active = m.prefix \o m.tail \/ Quarantined(m.tail))

\* buildRecoveryDiagnosticAppend: the event lines of m's diagnostic transaction
\* follow from the prefix alone, so that a repetition writes the same bytes.
Diagnostic(m) == OpenLine(m.prefix, m.op)

\* The strict, non-empty prefixes of the bytes of m's diagnostic transaction.
PartialDiagnostic(m) ==
  LET open == Diagnostic(m)  torn == Mk("torn", m.op) IN
  { << torn >>, << open >>, << open, torn >> }

ResumeStep(m) ==
  IF \E part \in PartialDiagnostic(m) : Active = m.prefix \o part THEN "keep_partial"
  ELSE IF Active = m.prefix \o m.tail THEN "quarantine" ELSE "sync_activation"

ResumeRecovery(p, m) ==
  /\ m \in dir.manifests /\ BoundToManifest(m)
  /\ ~ IsCommitted(Active, m.op)
  /\ IsHead(Active, Len(m.prefix))
  /\ ResumeStep(m) = "sync_activation" => Active = m.prefix
  /\ StartRecovery(p, m, ResumeStep(m))
  /\ UNCHANGED <<durable, uncertain, view, tried, told, counters>>

\* The diagnostic is already committed: only a marker this process itself is
\* uncertain about is synchronised, and metadata that is current is left alone.
Repaired(p, o) == uncertain' = Put(uncertain, p, {u \in uncertain[p] : u.txn # o})

RepairCommitted(p, m) ==
  /\ m \in dir.manifests /\ BoundToManifest(m)
  /\ IsCommitted(Active, m.op)
  /\ \A u \in uncertain[p] : u.txn = m.op => u.ino = dir.events
  /\ IF \E u \in uncertain[p] : u.txn = m.op THEN SyncFile(dir.events) ELSE UNCHANGED files
  /\ \E h \in 1 .. Len(Active) :
       /\ IsHead(Active, h)
       /\ dir' = [dir EXCEPT !.lastSeq = h]
       /\ IF dir.lastSeq # h
            THEN StartRecovery(p, m, "sync_repair") /\ UNCHANGED uncertain
            ELSE pc[p] = "idle" /\ FlockFree /\ End(p) /\ Repaired(p, m.op)
  /\ UNCHANGED <<disk, vault, view, tried, acked, reported, denied, counters>>

\* The directory sync of the repair and the return of "already_recovered".
FinishRepair(p) ==
  /\ pc[p] = "sync_repair"
  /\ disk' = dir
  /\ Repaired(p, job[p].txn)
  /\ End(p)
  /\ UNCHANGED <<files, dir, vault, view, tried, acked, reported, denied, counters>>

\* persistExplicitRecoveryManifest: rename, then directory sync.
PersistManifest(p) ==
  /\ \/ /\ pc[p] = "manifest" /\ Goto(p, "sync_manifest")
        /\ dir' = [dir EXCEPT !.manifests = @ \cup {job[p].man}] /\ UNCHANGED disk
     \/ pc[p] = "sync_manifest" /\ Goto(p, "quarantine") /\ disk' = dir /\ UNCHANGED dir
  /\ UNCHANGED <<files, vault, uncertain, job, view, tried, told, counters>>

Keep(tail, synced) == vault' = {q \in vault : q.tail # tail} \cup {[tail |-> tail, synced |-> synced]}

\* A quarantine that does not synchronise what it keeps.
QuarantineUnsynced(p) ==
  /\ pc[p] = "quarantine" /\ Goto(p, "candidate") /\ Keep(job[p].man.tail, FALSE)
  /\ UNCHANGED <<files, dir, disk, uncertain, job, view, tried, told, counters>>

Quarantine(p) ==
  /\ \/ pc[p] = "quarantine" /\ Goto(p, "sync_quarantine")
        /\ IF Quarantined(job[p].man.tail) THEN UNCHANGED vault ELSE Keep(job[p].man.tail, FALSE)
     \/ pc[p] = "sync_quarantine" /\ Goto(p, "candidate") /\ Keep(job[p].man.tail, TRUE)
  /\ UNCHANGED <<files, dir, disk, uncertain, job, view, tried, told, counters>>

Candidate(p, lines) ==
  /\ files' = Append(files, [lines |-> lines, synced |-> 0])
  /\ job' = Put(job, p, [job[p] EXCEPT !.ino = Len(files) + 1])

NewCandidate(p) == Candidate(p, job[p].man.prefix)

\* A candidate that is activated before it is synchronised.
BuildUnsynced(p) ==
  /\ pc[p] = "candidate" /\ Goto(p, "activate_metadata") /\ NewCandidate(p)
  /\ UNCHANGED <<dir, disk, vault, uncertain, view, tried, told, counters>>

BuildCandidate(p) ==
  /\ \/ pc[p] = "candidate" /\ Goto(p, "sync_candidate") /\ NewCandidate(p)
     \/ /\ pc[p] = "sync_candidate" /\ Goto(p, "activate_metadata")
        /\ SyncFile(job[p].ino) /\ UNCHANGED job
  /\ UNCHANGED <<dir, disk, vault, uncertain, view, tried, told, counters>>

\* activateRecoveryCandidate: the rebuilt metadata, then the journal, by rename.
Activate(p) ==
  /\ \/ pc[p] = "activate_metadata" /\ Goto(p, "activate_events")
        /\ dir' = [dir EXCEPT !.lastSeq = Len(job[p].man.prefix)]
     \/ pc[p] = "activate_events" /\ Goto(p, "sync_activation")
        /\ dir' = [dir EXCEPT !.events = job[p].ino]
  /\ UNCHANGED <<files, disk, vault, uncertain, job, view, tried, told, counters>>

SyncActivation(p) ==
  /\ pc[p] = "sync_activation"
  /\ disk' = dir
  /\ Goto(p, "diagnostic")
  /\ UNCHANGED <<files, dir, vault, uncertain, job, view, tried, told, counters>>

\* commitRecoveryDiagnostic appends the diagnostic through the ordinary append.
BeginDiagnostic(p) ==
  /\ pc[p] = "diagnostic"
  /\ IF ReadyToAppend(p, job[p].txn) /\ Active = job[p].man.prefix
       THEN Goto(p, "write_events") /\ UNCHANGED job
       ELSE End(p)
  /\ UNCHANGED <<durable, uncertain, view, tried, told, counters>>

\* preserveAndResetPartialRecoveryDiagnostic; the recursive call that follows it
\* finds the bare prefix, so it goes straight to the activation's directory sync.
ResetDiagnostic(p) ==
  /\ \/ /\ pc[p] = "keep_partial" /\ Goto(p, "reset_candidate")
        /\ Keep(SubSeq(Active, Len(job[p].man.prefix) + 1, Len(Active)), TRUE)
        /\ UNCHANGED <<files, dir, disk, uncertain, job>>
     \/ /\ pc[p] = "reset_candidate" /\ Goto(p, "reset_events")
        /\ files' = Append(files, [lines |-> job[p].man.prefix, synced |-> Len(job[p].man.prefix)])
        /\ job' = Put(job, p, [job[p] EXCEPT !.ino = Len(files) + 1])
        /\ UNCHANGED <<dir, disk, vault, uncertain>>
     \/ /\ pc[p] = "reset_events" /\ Goto(p, "sync_reset")
        /\ dir' = [dir EXCEPT !.events = job[p].ino]
        /\ UNCHANGED <<files, disk, vault, uncertain, job>>
     \/ /\ pc[p] = "sync_reset" /\ Goto(p, "sync_activation")
        /\ disk' = dir
        /\ uncertain' = Put(uncertain, p, {u \in uncertain[p] : u.txn # job[p].txn})
        /\ UNCHANGED <<files, dir, vault, job>>
  /\ UNCHANGED <<view, tried, told, counters>>

-----------------------------------------------------------------------------
(***************************************************************************)
(* Failures.  A system call may fail without effect; a process may die; a  *)
(* power loss keeps, of everything not yet synchronised, any part.         *)
(***************************************************************************)
\* Any call of an operation fails (or its context ends) before its effect.
Fail(p) ==
  /\ pc[p] \notin {"idle", "write_events", "write_marker"}
  /\ SpendFault
  /\ End(p)
  /\ UNCHANGED <<durable, uncertain, view, tried, told>>

Kill(p) ==
  /\ kills < MaxKills /\ kills' = kills + 1
  /\ pc[p] # "idle" \/ uncertain[p] # {}
  /\ uncertain' = Put(uncertain, p, {})
  /\ view' = Put(view, p, NoView)
  /\ End(p)
  /\ UNCHANGED <<durable, tried, told, faults, outages>>

\* What may be left of a file: every synced line, then any part of the rest.
Remains(file) ==
  { Prefix(file.lines, n) : n \in file.synced .. Len(file.lines) } \cup
  { Append(Prefix(file.lines, n), Mk("torn", file.lines[n + 1].txn)) :
      n \in file.synced .. Len(file.lines) - 1 }

\* What may be left of the journal: either directory entry, any remains.
Survivors == UNION { Remains(files[e]) : e \in {dir.events, disk.events} }

PowerLoss ==
  /\ outages < MaxOutages /\ outages' = outages + 1
  /\ \E lines \in Survivors : files' = << [lines |-> lines, synced |-> Len(lines)] >>
  /\ \E seq \in {dir.lastSeq, disk.lastSeq}, ms \in SUBSET (dir.manifests \ disk.manifests) :
       dir' = [events |-> 1, lastSeq |-> seq, manifests |-> disk.manifests \cup ms]
  /\ disk' = dir'
  /\ \E lost \in SUBSET {q \in vault : ~ q.synced} :
       vault' = {[q EXCEPT !.synced = TRUE] : q \in vault \ lost}
  /\ holder' = None
  /\ uncertain' = [p \in Proc |-> {}]
  /\ pc' = [p \in Proc |-> "idle"]
  /\ job' = [p \in Proc |-> NoJob]
  /\ view' = [p \in Proc |-> NoView]
  /\ UNCHANGED <<tried, told, faults, kills>>

-----------------------------------------------------------------------------
AppendStep(p) ==
  \/ WriteEvents(p) \/ SyncEvents(p) \/ WriteMarker(p) \/ SyncMarker(p)
  \/ WriteMetadata(p) \/ FinishAppend(p)

ReadStep(p) == FinishInspect(p) \/ FailRead(p) \/ \E t \in Txn : FinishLookup(p, t)

RecoveryStep(p) ==
  \/ PersistManifest(p) \/ Quarantine(p) \/ BuildCandidate(p) \/ Activate(p)
  \/ SyncActivation(p) \/ BeginDiagnostic(p) \/ ResetDiagnostic(p) \/ FinishRepair(p)

Begin(p) ==
  \/ \E t \in Txn : BeginAppend(p, t)
  \/ BeginRead(p)
  \/ \E o \in Op : BeginRecovery(p, o)
  \/ \E m \in dir.manifests : ResumeRecovery(p, m) \/ RepairCommitted(p, m)

Proceed(p) == AppendStep(p) \/ ReadStep(p) \/ RecoveryStep(p)

Next ==
  \/ \E p \in Proc : Begin(p) \/ Proceed(p) \/ Fail(p) \/ Kill(p)
  \/ PowerLoss

Spec == Init /\ [][Next]_vars

\* A call that has started keeps running until it returns.
FairSpec == Spec /\ \A p \in Proc : WF_vars(Proceed(p))

-----------------------------------------------------------------------------
(***************************************************************************)
(* Properties.                                                             *)
(***************************************************************************)
\* Every variable stays in its type; at most one process is past the flock.
TypeOK ==
  /\ files \in Seq([lines : Seq(Line), synced : Nat])
  /\ dir \in Directory /\ disk \in Directory
  /\ vault \subseteq [tail : Seq(Line), synced : BOOLEAN]
  /\ holder \in Proc \cup {None}
  /\ \A p \in Proc : pc[p] \notin {"idle"} \cup ReadSteps => holder = p
  /\ uncertain \in [Proc -> SUBSET [txn : ID, ino : Nat]]
  /\ pc \in [Proc -> {"idle", "sync_repair"} \cup AppendSteps \cup ReadSteps
                       \cup RecoverySteps \cup ResetSteps]
  /\ job \in [Proc -> [txn : ID \cup {None}, ino : Nat, upto : Nat,
                       settled : SUBSET Txn, man : Manifest \cup {None}]]
  /\ view \in [Proc -> [seq : Nat, txn : ID \cup {None}, tail : Seq(Line)]]
  /\ tried \subseteq Txn /\ acked \subseteq ID /\ reported \subseteq ID
  /\ denied \subseteq Txn
  /\ faults \in Nat /\ kills \in Nat /\ outages \in Nat

\* AppendBatch, syncCommittedView and LookupTransaction: a transaction that an
\* append returned or a read reported as committed is so in whatever a power loss
\* at this moment leaves, and one that was reported as not committed never turns
\* up again, there or in what processes see.
ReportsHold ==
  \A lines \in Survivors :
    /\ \A t \in acked \cup reported : IsCommitted(lines, t)
    /\ \A t \in denied : ~ IsCommitted(lines, t)

\* Appends, resets and recoveries of all processes never leave a journal that
\* neither AppendBatch nor RecoverSession accepts.
NeverFatal == \A lines \in Survivors : ~ Fatal(lines)

\* A recovery or a reset replaces the journal by a prefix of it, and only once
\* every byte it drops is on stable storage in artifacts/.
DroppedTailIsKept ==
  [][ outages' = outages /\ dir'.events # dir.events =>
        LET new == files'[dir'.events].lines IN
        /\ Extends(Active, new)
        /\ [tail |-> SubSeq(Active, Len(new) + 1, Len(Active)), synced |-> TRUE] \in vault ]_vars

\* Every call on the journal returns.
CallsReturn == \A p \in Proc : pc[p] # "idle" ~> pc[p] = "idle"

-----------------------------------------------------------------------------
(***************************************************************************)
(* Refinement.  The abstract log is the part of the journal that no power  *)
(* loss can take away: the synced lines behind the synced directory entry. *)
(***************************************************************************)
DurableLines == Prefix(files[disk.events].lines, files[disk.events].synced)

DurableLog == {[seq |-> i, txn |-> DurableLines[i].txn] :
                 i \in {j \in 1 .. Len(DurableLines) : DurableLines[j].kind = "marker"}}

Log == INSTANCE JournalLog WITH log <- DurableLog

\* AppendBatch, LookupTransaction and RecoverSession together implement the log
\* their callers rely on.
ImplementsLog == Log!Spec
=============================================================================
