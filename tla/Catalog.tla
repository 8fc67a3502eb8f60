------------------------------- MODULE Catalog -------------------------------
(***************************************************************************)
(* The catalog of sessions of one workspace (internal/session/jsonl:       *)
(* store.go, rootfs.go, control.go, lineage.go): EnsureWorkspaceControl    *)
(* with which every process starts, Create, CreateWithIdentity and List.   *)
(* Processes share the directories and one flock, workspace.lock; actors   *)
(* of one process also share the lock of a requested identity and the      *)
(* count of running creates.  Any step may be the last of its process, a   *)
(* write or a sync may fail, and after a power loss a directory holds what *)
(* was synchronised and any part of what was not.  The directory of the    *)
(* workspace itself is there and durable.                                  *)
(***************************************************************************)
EXTENDS Integers, FiniteSets

CONSTANTS
    Actor,          \* goroutines that call the store
    Home,           \* Home[a]: the process of an actor
    Identity,       \* identities a caller may have reserved
    Terms,          \* mode, selection and lineage a session is created with
    ParentOf,       \* ParentOf[t]: the parent named by the lineage, or Nil
    Nil,
    MaxLineage,     \* maxLineageDepth
    MaxCalls,       \* bound on the calls of a behaviour
    MaxMishaps,     \* bound on failed calls, cancellations and deaths
    MaxOutages      \* bound on power losses

VARIABLES
    ws, wsDisk,         \* entries of the workspace directory, and the durable ones
    sess, sessDisk,     \* entries of its sessions directory, and the durable ones
    flock,              \* who holds workspace.lock
    ready,              \* processes that finished EnsureWorkspaceControl
    pc, req,            \* where each actor is, in which call
    seen,               \* what a List has read, and what it had to find
    acked,              \* what creates returned
    disturbed,          \* a call has failed or missed something through another one
    calls, mishaps, outages

disks == <<ws, wsDisk, sess, sessDisk>>
told == <<acked, disturbed>>
bounds == <<calls, mishaps, outages>>
cvars == <<disks, flock, ready, pc, req, seen, told, bounds>>

Proc == {Home[a] : a \in Actor}
\* Names, as tuples that can be told apart.
WorkspaceFile == <<"workspace.json">>
SessionsDirectory == <<"sessions">>
ControlDirectory == <<"control">>
Temp(a) == <<"workspace.tmp", a>>
ControlStaging(a) == <<"control.tmp", a>>
Staging(a) == <<"create.tmp", a>>
Temps == {Temp(a) : a \in Actor}
ControlStagings == {ControlStaging(a) : a \in Actor}
Stagings == {Staging(a) : a \in Actor}
Visible(e) == e.name \notin Stagings
NamedIn(entries, id) == {e \in entries : e.name = id}
Named(id) == NamedIn(sess, id)

\* The name of a session whose create was the nth call.
NewName(n) == <<"new", n>>

\* Reserved identities, names the store draws and names it makes up do not meet, and no
\* session has a staging directory for its parent.
ASSUME CatalogAssumption ==
    /\ MaxLineage \in Nat /\ MaxCalls \in Nat /\ MaxMishaps \in Nat /\ MaxOutages \in Nat
    /\ Nil \notin Actor \cup Identity \cup Stagings \cup {NewName(n) : n \in 0..MaxCalls}
    /\ Identity \cap (Stagings \cup {NewName(n) : n \in 0..MaxCalls}) = {}
    /\ \A t \in Terms : ParentOf[t] \notin Stagings

\* What a create was asked for; without an identity the store takes a new one.
Call(kind, id, t) == [kind |-> kind, id |-> id, terms |-> t, own |-> id = Nil]
NoCall == Call("none", Nil, Nil)
Calls == {Call("ensure", Nil, Nil), Call("list", Nil, Nil)}
         \cup {Call("create", id, t) : id \in Identity \cup {Nil}, t \in Terms}

\* The lock of an identity and the count of creates live as long as the call.
Creating(a) == req[a].kind = "create" /\ pc[a] \notin {"idle", "name"}
HoldsName(a) == Creating(a) /\ ~req[a].own

-----------------------------------------------------------------------------
CatalogInit ==
    /\ ws = {} /\ wsDisk = {} /\ sess = {} /\ sessDisk = {}
    /\ flock = Nil /\ ready = {}
    /\ pc = [a \in Actor |-> "idle"] /\ req = [a \in Actor |-> NoCall]
    /\ seen = [a \in Actor |-> {}]
    /\ acked = {} /\ disturbed = FALSE
    /\ calls = 0 /\ mishaps = 0 /\ outages = 0

Goto(a, step) == pc' = [pc EXCEPT ![a] = step]
Leave(a) == /\ pc' = [pc EXCEPT ![a] = "idle"] /\ req' = [req EXCEPT ![a] = NoCall]
            /\ seen' = [seen EXCEPT ![a] = {}]
            /\ flock' = IF flock = a THEN Nil ELSE flock
Mishap == mishaps < MaxMishaps /\ mishaps' = mishaps + 1 /\ UNCHANGED <<calls, outages>>
Fail(a) == Leave(a) /\ UNCHANGED <<ready, told>>
Disturbed(a) == Leave(a) /\ disturbed' = TRUE /\ UNCHANGED <<ready, acked>>
Acknowledge(a, by) ==
    /\ Leave(a)
    /\ acked' = acked \cup {[id |-> req[a].id, terms |-> req[a].terms, by |-> by]}
    /\ UNCHANGED <<ready, disturbed>>

\* A step of a call that goes on.
Step(a, from, to) == pc[a] = from /\ Goto(a, to) /\ UNCHANGED <<flock, ready, req, seen, told>>

\* A process calls EnsureWorkspaceControl before it opens, lists or creates sessions.
Begin(a) ==
    /\ pc[a] = "idle"
    /\ \E r \in Calls :
         /\ (r.kind = "ensure") = (Home[a] \notin ready)
         /\ r.kind # "ensure" => calls < MaxCalls
         /\ r.kind = "ensure" => \A b \in Actor \ {a} : Home[b] = Home[a] => pc[b] = "idle"
         /\ req' = [req EXCEPT ![a] = IF r.kind = "create" /\ r.own
                                      THEN [r EXCEPT !.id = NewName(calls)] ELSE r]
         /\ seen' = [seen EXCEPT ![a] = IF r.kind = "list" THEN {k.id : k \in acked} ELSE {}]
         /\ Goto(a, CASE r.kind = "list" -> "wait"
                      [] r.kind = "create" /\ ~r.own -> "name"
                      [] OTHER -> "flock")
         /\ calls' = IF r.kind = "ensure" THEN calls ELSE calls + 1
    /\ UNCHANGED <<disks, flock, ready, told, mishaps, outages>>

LockIdentity(a) ==
    /\ Step(a, "name", "flock")
    /\ \A b \in Actor : Home[b] = Home[a] /\ HoldsName(b) => req[b].id # req[a].id
    /\ UNCHANGED <<disks, bounds>>

\* Mutant: a create goes on without the flock once the layout is there.
TakeFlockOnce(a) ==
    /\ flock = Nil
    /\ \/ pc[a] = "flock" /\ Goto(a, "layout") /\ flock' = a
       \/ pc[a] = "flock2" /\ Goto(a, "reconcile") /\ UNCHANGED flock
    /\ UNCHANGED <<disks, ready, req, seen, told, bounds>>

TakeFlock(a) ==
    /\ flock = Nil /\ flock' = a
    /\ \/ pc[a] = "flock" /\ Goto(a, "layout")
       \/ pc[a] = "flock2" /\ Goto(a, "reconcile")
    /\ UNCHANGED <<disks, ready, req, seen, told, bounds>>

-----------------------------------------------------------------------------
(* openWorkspaceLayout with create, under the flock. *)

\* cleanupRootTemporaries synchronises only when it removed something.
Cleaned == /\ ws' = ws \ Temps
           /\ wsDisk' = IF ws \cap Temps # {} THEN ws' ELSE wsDisk

DropTemp(a) == ws' = ws \ {Temp(a)} /\ wsDisk' = ws' /\ UNCHANGED <<sess, sessDisk>>

OpenIdentity(a) ==
    \/ /\ WorkspaceFile \in ws /\ Cleaned /\ Step(a, "layout", "sessions")
       /\ UNCHANGED <<sess, sessDisk, bounds>>
    \/ /\ WorkspaceFile \notin ws /\ Step(a, "layout", "identity")
       /\ ws' = (ws \ Temps) \cup {Temp(a)}
       /\ wsDisk' = IF ws \cap Temps # {} THEN ws \ Temps ELSE wsDisk
       /\ UNCHANGED <<sess, sessDisk, bounds>>

WriteIdentity(a) ==
    \/ /\ pc[a] = "identity" /\ UNCHANGED <<wsDisk, sess, sessDisk, bounds>>
       /\ IF Temp(a) \in ws
          THEN /\ Step(a, "identity", "identity sync")
               /\ ws' = (ws \ {Temp(a)}) \cup {WorkspaceFile}
          ELSE Disturbed(a) /\ UNCHANGED ws
    \/ /\ pc[a] = "identity" /\ DropTemp(a) /\ Fail(a) /\ Mishap

\* After a failed sync the file is read back and taken as it is.
SyncIdentity(a) ==
    /\ Step(a, "identity sync", "sessions")
    /\ \/ wsDisk' = ws /\ UNCHANGED bounds
       \/ Mishap /\ UNCHANGED wsDisk
    /\ UNCHANGED <<ws, sess, sessDisk>>

OpenSessions(a) ==
    \/ /\ SessionsDirectory \in ws /\ Step(a, "sessions", "control") /\ UNCHANGED <<disks, bounds>>
    \/ /\ SessionsDirectory \notin ws /\ Step(a, "sessions", "sessions sync")
       /\ ws' = ws \cup {SessionsDirectory} /\ UNCHANGED <<wsDisk, sess, sessDisk, bounds>>

SyncWorkspace(a, at, next) ==
    \/ Step(a, at, next) /\ wsDisk' = ws /\ UNCHANGED <<ws, sess, sessDisk, bounds>>
    \/ pc[a] = at /\ Fail(a) /\ Mishap /\ UNCHANGED disks

SyncSessions(a) == SyncWorkspace(a, "sessions sync", "control")

OpenControl(a) ==
    \/ /\ ControlDirectory \in ws /\ Step(a, "control", "laid") /\ UNCHANGED <<disks, bounds>>
    \/ /\ ControlDirectory \notin ws /\ Step(a, "control", "control rename")
       /\ ws' = (ws \ ControlStagings) \cup {ControlStaging(a)}
       /\ wsDisk' = IF ws \cap ControlStagings # {} THEN ws \ ControlStagings ELSE wsDisk
       /\ UNCHANGED <<sess, sessDisk, bounds>>

\* A failure leaves the staging directory, which is not empty any more.
PublishControl(a) ==
    \/ /\ Step(a, "control rename", "control sync")
       /\ ws' = (ws \ {ControlStaging(a)}) \cup {ControlDirectory}
       /\ UNCHANGED <<wsDisk, sess, sessDisk, bounds>>
    \/ /\ pc[a] = "control rename" /\ Fail(a) /\ Mishap
       /\ wsDisk' = ws /\ UNCHANGED <<ws, sess, sessDisk>>

SyncControl(a) == SyncWorkspace(a, "control sync", "laid")

\* The layout gives the flock back; a create takes it again.
Laid(a) ==
    /\ pc[a] = "laid" /\ UNCHANGED <<disks, told, bounds>>
    /\ \/ /\ req[a].kind = "ensure" /\ Leave(a) /\ ready' = ready \cup {Home[a]}
       \/ /\ req[a].kind = "create" /\ Goto(a, "flock2") /\ flock' = Nil
          /\ UNCHANGED <<ready, req, seen>>

-----------------------------------------------------------------------------
(* create, under the flock. *)

\* The staging directories of dead creates go; this synchronises the directory.
Reconcile(a) ==
    LET left == {e \in sess : Visible(e)}
        next == IF req[a].own THEN "anchor" ELSE "find"
    IN  /\ sess' = left /\ UNCHANGED <<ws, wsDisk>>
        /\ \/ /\ left = sess /\ Step(a, "reconcile", next) /\ UNCHANGED <<sessDisk, bounds>>
           \/ /\ left # sess /\ Step(a, "reconcile", next)
              /\ sessDisk' = left /\ UNCHANGED bounds
           \/ /\ left # sess /\ pc[a] = "reconcile" /\ Fail(a)
              /\ Mishap /\ UNCHANGED sessDisk

\* Mutant: whoever repeats an identity gets the session, whatever it asked for.
FindAnyIdentity(a) ==
    /\ UNCHANGED <<disks, bounds>>
    /\ \/ Named(req[a].id) = {} /\ Step(a, "find", "anchor")
       \/ pc[a] = "find" /\ Named(req[a].id) # {} /\ Acknowledge(a, "finder")

\* An identity that is taken is returned when it was created with the same terms.
FindIdentity(a) ==
    /\ UNCHANGED <<disks, bounds>>
    /\ \/ Named(req[a].id) = {} /\ Step(a, "find", "anchor")
       \/ /\ pc[a] = "find"
          /\ \E e \in Named(req[a].id) :
               IF e.terms = req[a].terms THEN Acknowledge(a, "finder") ELSE Fail(a)

\* The session above one: Nil above a root; a missing session has nothing above it.
Above(entries, id) ==
    IF NamedIn(entries, id) = {} THEN id
    ELSE ParentOf[(CHOOSE e \in NamedIn(entries, id) : TRUE).terms]

AncestorIn(entries, id, n) ==
    LET Up[k \in 0..n] == IF k = 0 THEN id ELSE Above(entries, Up[k - 1])
    IN  Up[n]

Ancestor(id, n) == AncestorIn(sess, id, n)

\* The parent's chain is read up to its root, which must lie MaxLineage sessions up at most.
ValidateLineage(a) ==
    LET Anchored == Ancestor(ParentOf[req[a].terms], MaxLineage) = Nil
    IN  /\ pc[a] = "anchor" /\ UNCHANGED <<disks, bounds>>
        /\ \/ Anchored /\ Step(a, "anchor", "stage")
           \/ ~Anchored /\ Fail(a)

Stage(a) ==
    /\ Step(a, "stage", "write")
    /\ sess' = sess \cup {[name |-> Staging(a), terms |-> req[a].terms, whole |-> FALSE]}
    /\ UNCHANGED <<ws, wsDisk, sessDisk, bounds>>

Unstaged(a) == {e \in sess : e.name # Staging(a)}
Discard(a) == sess' = Unstaged(a) /\ sessDisk' = sess' /\ UNCHANGED <<ws, wsDisk>>

\* Mutant: the files of the staging directory are not synchronised.
WriteStagedUnsynced(a) == Step(a, "write", "rename") /\ UNCHANGED <<disks, bounds>>

\* Journal, metadata, locks and lineage are written and synchronised with their directory.
WriteStaged(a) ==
    \/ /\ Step(a, "write", "rename")
       /\ sess' = Unstaged(a)
                  \cup {[e EXCEPT !.whole = TRUE] : e \in Named(Staging(a))}
       /\ UNCHANGED <<ws, wsDisk, sessDisk, bounds>>
    \/ pc[a] = "write" /\ Discard(a) /\ Fail(a) /\ Mishap

Publish(a) ==
    /\ pc[a] = "rename" /\ UNCHANGED <<ws, wsDisk, bounds>>
    /\ IF Named(req[a].id) = {} /\ Named(Staging(a)) # {}
       THEN /\ Step(a, "rename", "publish sync") /\ UNCHANGED sessDisk
            /\ sess' = Unstaged(a)
                       \cup {[e EXCEPT !.name = req[a].id] : e \in Named(Staging(a))}
       ELSE Discard(a) /\ Disturbed(a)

\* Mutant: the sessions directory is not synchronised behind the rename.
ReportPublished(a) == pc[a] = "publish sync" /\ Acknowledge(a, "publisher") /\ UNCHANGED <<disks, bounds>>

\* A failed sync is reported, but the session stays where it was renamed to.
SyncPublished(a) ==
    /\ pc[a] = "publish sync" /\ UNCHANGED <<ws, wsDisk, sess>>
    /\ \/ sessDisk' = sess /\ Acknowledge(a, "publisher") /\ UNCHANGED bounds
       \/ Fail(a) /\ Mishap /\ UNCHANGED sessDisk

\* The context ends: the waits and the steps that ask it return.
CancelCall(a) ==
    /\ pc[a] \notin {"idle", "identity sync", "sessions sync", "control sync", "laid", "publish sync"}
    /\ CASE pc[a] = "identity" -> DropTemp(a)
         [] pc[a] \in {"write", "rename"} -> Discard(a)
         [] OTHER -> UNCHANGED disks
    /\ Fail(a) /\ Mishap

-----------------------------------------------------------------------------
(* List waits for the creates of its own process and takes no flock. *)

AwaitCreates(a) ==
    /\ Step(a, "wait", "list layout")
    /\ \A b \in Actor : Home[b] = Home[a] => ~Creating(b)
    /\ UNCHANGED <<disks, bounds>>

ListLayout(a) ==
    /\ Step(a, "list layout", "list read") /\ Cleaned
    /\ UNCHANGED <<sess, sessDisk, bounds>>

\* Metadata, identity and event log of a session verify (openSessionAtWorkspace).
Readable(e) == e.whole

\* No append runs here: one that replaces metadata.json meanwhile can fail a List.
ReadCatalog(a) ==
    /\ pc[a] = "list read" /\ UNCHANGED <<disks, bounds>>
    /\ LET listed == {e \in sess : Visible(e)}
       IN  \/ /\ seen[a] \subseteq {e.name : e \in listed} /\ \A e \in listed : Readable(e)
              /\ Leave(a) /\ UNCHANGED <<ready, told>>
           \/ /\ ~seen[a] \subseteq {e.name : e \in listed} \/ \E e \in listed : ~Readable(e)
              /\ Disturbed(a)

-----------------------------------------------------------------------------
Die(dead) ==
    /\ pc' = [a \in Actor |-> IF Home[a] \in dead THEN "idle" ELSE pc[a]]
    /\ req' = [a \in Actor |-> IF Home[a] \in dead THEN NoCall ELSE req[a]]
    /\ seen' = [a \in Actor |-> IF Home[a] \in dead THEN {} ELSE seen[a]]
    /\ flock' = IF flock # Nil /\ Home[flock] \in dead THEN Nil ELSE flock
    /\ ready' = ready \ dead

Kill(p) ==
    /\ \E a \in Actor : Home[a] = p /\ pc[a] # "idle"
    /\ Die({p}) /\ Mishap /\ UNCHANGED <<disks, told>>

\* What a directory may hold after a power loss.
Survivors(durable, now) == {durable \cup kept : kept \in SUBSET (now \ durable)}

PowerLoss ==
    /\ outages < MaxOutages /\ outages' = outages + 1
    /\ Die(Proc) /\ UNCHANGED <<disturbed, calls, mishaps>>
    /\ ws' \in Survivors(wsDisk \cap ws, ws \cup wsDisk) /\ wsDisk' = ws'
    /\ \E kept \in Survivors(sessDisk \cap sess, sess \cup sessDisk) :
         sess' = IF SessionsDirectory \in ws' THEN kept ELSE {}
    /\ sessDisk' = sess'
    /\ acked' = {k \in acked : k.by = "publisher" \/ \E e \in sess' : e.name = k.id}

CatalogNext ==
    \/ \E a \in Actor :
         \/ Begin(a) \/ LockIdentity(a) \/ TakeFlock(a)
         \/ OpenIdentity(a) \/ WriteIdentity(a) \/ SyncIdentity(a)
         \/ OpenSessions(a) \/ SyncSessions(a)
         \/ OpenControl(a) \/ PublishControl(a) \/ SyncControl(a) \/ Laid(a)
         \/ Reconcile(a) \/ FindIdentity(a) \/ ValidateLineage(a)
         \/ Stage(a) \/ WriteStaged(a) \/ Publish(a) \/ SyncPublished(a)
         \/ CancelCall(a) \/ AwaitCreates(a) \/ ListLayout(a) \/ ReadCatalog(a)
    \/ \E p \in Proc : Kill(p)
    \/ PowerLoss

CatalogSpec == CatalogInit /\ [][CatalogNext]_cvars

-----------------------------------------------------------------------------
(***************************************************************************)
(* No session is visible before it is whole: a session under its own name  *)
(* has its journal, metadata, locks and lineage, also after a power loss   *)
(* and whatever create died or failed (createStagedSession).               *)
(***************************************************************************)
NoHalfSession == \A e \in sess : Visible(e) => e.whole

(***************************************************************************)
(* An identity means one session: whoever is told that it was created gets *)
(* the session that is there, with the terms asked for, however many       *)
(* creates of two processes repeated it (CreateWithIdentity).              *)
(***************************************************************************)
OneSessionPerIdentity ==
    \A k \in acked : \A other \in acked :
      /\ k.id = other.id => k.terms = other.terms
      /\ \A e \in Named(k.id) : e.terms = k.terms

(***************************************************************************)
(* A session that its creator returned survives a power loss with its      *)
(* directory and with every session of its lineage, although directories   *)
(* that a dead process made are used without another sync.                 *)
(***************************************************************************)
PublishedIsDurable ==
    \A k \in acked :
      k.by = "publisher" =>
        /\ SessionsDirectory \in wsDisk
        /\ \E e \in sessDisk : e.name = k.id
        /\ Ancestor(k.id, MaxLineage + 1) = Nil
        /\ \A n \in 0..MaxLineage :
             Ancestor(k.id, n) \in {Nil} \cup {e.name : e \in sessDisk}

(***************************************************************************)
(* Calls do not disturb each other: a create fails for a reason of its     *)
(* own, never because another call removed its temporary or its staging    *)
(* directory or took its name, and a List reports every session that was   *)
(* returned before it began, and whole ones only.                          *)
(***************************************************************************)
CallsDoNotDisturb == ~disturbed

=============================================================================
