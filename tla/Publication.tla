----------------------------- MODULE Publication -----------------------------
(***************************************************************************)
(* How the stores beside the journal publish files: evidence (a blob, then *)
(* its record, then the alias of a migrated artifact; internal/evidence),  *)
(* artifacts of a session (session/jsonl/artifact.go), recovery containers *)
(* (internal/recovery) and the configuration (config/save.go).  All write  *)
(* a temporary, synchronise it and link or rename it to its final name;    *)
(* they differ in their locks, in who may adopt what is already there, and *)
(* in when the directory is synchronised.  The stores share no directory,  *)
(* so one behaviour uses one of them.  The directories are there.          *)
(***************************************************************************)
EXTENDS Integers, FiniteSets

CONSTANTS
    Actor,          \* goroutines
    Home,           \* Home[a]: the process of an actor
    User,           \* User[store]: the actors that use it
    Id,             \* identities of evidence, of legacy artifacts and of containers
    ContentOf,      \* ContentOf[id]: the content that is put under an identity
    None,
    MaxCalls,       \* bound on the calls of a behaviour
    MaxMishaps,     \* bound on failed steps, cancellations and deaths
    MaxOutages      \* bound on power losses

ASSUME BoundsAssumption == MaxCalls \in Nat

VARIABLES
    store,          \* the store this behaviour uses
    dir, disk,      \* what each name stands for, and what it durably stands for
    mu, flock,      \* the lock of each process, and the one between processes
    pc, req,        \* where each actor is, in which call
    promised,       \* names that returned calls have promised
    loose,          \* a file was linked whose directory could not be synchronised
    calls, mishaps, outages

locks == <<mu, flock>>
bounds == <<calls, mishaps, outages>>
vars == <<store, dir, disk, locks, pc, req, promised, loose, bounds>>

Proc == {Home[a] : a \in Actor}
Stores == {"evidence", "artifacts", "materials", "config"}
Temp(d, a) == <<d, "temporary", a>>
Blob(id) == <<"blobs", "final", ContentOf[id]>>
Named(d, id) == <<d, "final", id>>
Config == <<"config", "final", None>>
Directories == {"blobs", "records", "aliases", "artifacts", "materials", "config"}
Final == {Blob(id) : id \in Id} \cup {Config}
         \cup {Named(d, id) : d \in {"records", "aliases", "materials"}, id \in Id}
         \cup {Named("artifacts", n) : n \in 1..MaxCalls}
Name == Final \cup {Temp(d, a) : d \in Directories, a \in Actor}
File == [n : Nat, whole : BOOLEAN]

ASSUME NamesAssumption == None \notin Actor /\ None \notin Directories /\ None \notin File

\* What a call is about: its directory, whether its name was there when the
\* directory was synchronised, and the names it can vouch for.
NoCall == [kind |-> "none", id |-> None, n |-> 0, d |-> None, there |-> FALSE, sure |-> {}]
Call(kind, id, d) == [kind |-> kind, id |-> id, n |-> calls + 1, d |-> d, there |-> FALSE, sure |-> {}]
TargetOf(r) == CASE r.d = "blobs" -> Blob(r.id)
                 [] r.d = "config" -> Config
                 [] r.d = "artifacts" -> Named(r.d, r.n)
                 [] OTHER -> Named(r.d, r.id)
Target(a) == TargetOf(req[a])
Mine(a) == Temp(req[a].d, a)
Temps(d) == {Temp(d, a) : a \in Actor}
\* The directory a call goes on to.
Behind(r) == CASE r.d = "blobs" -> "records"
               [] r.d = "records" /\ r.kind = "migrate" -> "aliases"
               [] OTHER -> None

-----------------------------------------------------------------------------
Init == /\ store \in Stores
        /\ dir = [n \in Name |-> None] /\ disk = dir
        /\ mu = [p \in Proc |-> None] /\ flock = None
        /\ pc = [a \in Actor |-> "idle"] /\ req = [a \in Actor |-> NoCall]
        /\ promised = {} /\ loose = FALSE
        /\ calls = 0 /\ mishaps = 0 /\ outages = 0

Goto(a, step) == pc' = [pc EXCEPT ![a] = step]
Put(n, file) == dir' = [dir EXCEPT ![n] = file]
Gone(names) == dir' = [n \in Name |-> IF n \in names THEN None ELSE dir[n]]
Synced(d) == disk' = [n \in Name |-> IF n[1] = d THEN dir'[n] ELSE disk[n]]
Free(a) == mu[Home[a]] \in {None, a}
Unlock(a) == mu' = [p \in Proc |-> IF mu[p] = a THEN None ELSE mu[p]]
Mishap == mishaps < MaxMishaps /\ mishaps' = mishaps + 1 /\ UNCHANGED <<store, calls, outages>>
Fine == UNCHANGED <<store, bounds>>
Leave(a) == /\ pc' = [pc EXCEPT ![a] = "idle"] /\ req' = [req EXCEPT ![a] = NoCall]
            /\ Unlock(a) /\ flock' = IF flock = a THEN None ELSE flock
Fail(a) == Leave(a) /\ UNCHANGED promised
Keep == UNCHANGED <<locks, req, promised>>

\* A directory is done with: the call vouches for more names and goes on, or returns.
Settle(a, sure) ==
    LET r == [req[a] EXCEPT !.d = Behind(req[a]), !.sure = @ \cup sure, !.there = FALSE]
    IN  \/ /\ r.d = None /\ Leave(a) /\ promised' = promised \cup r.sure
        \/ /\ r.d # None /\ req' = [req EXCEPT ![a] = r] /\ Goto(a, "open")
           /\ Unlock(a) /\ UNCHANGED <<flock, promised>>
\* Whoever comes behind a publication that could not be synchronised vouches for nothing.
Adopt(a) == Settle(a, IF loose /\ ~req[a].there THEN {} ELSE {Target(a)})

Begin(a) ==
    /\ pc[a] = "idle" /\ a \in User[store] /\ calls < MaxCalls
    /\ \/ /\ store = "evidence" /\ UNCHANGED mu
          /\ \E id \in Id :
               \/ Goto(a, "open") /\ req' = [req EXCEPT ![a] = Call("put", id, "blobs")]
               \/ Goto(a, "alias") /\ req' = [req EXCEPT ![a] = Call("migrate", id, "blobs")]
       \/ /\ store # "evidence" /\ mu[Home[a]] = None /\ mu' = [mu EXCEPT ![Home[a]] = a]
          /\ \/ /\ store = "artifacts" /\ Goto(a, "open")
                /\ req' = [req EXCEPT ![a] = Call("artifact", None, "artifacts")]
             \/ /\ store = "materials" /\ Goto(a, "look")
                /\ \E id \in Id : req' = [req EXCEPT ![a] = Call("material", id, "materials")]
             \/ /\ store = "config" /\ Goto(a, "look")
                /\ req' = [req EXCEPT ![a] = Call("ensure", None, "config")]
             \/ /\ store = "config" /\ Goto(a, "temporary")
                /\ req' = [req EXCEPT ![a] = Call("save", None, "config")]
    /\ calls' = calls + 1
    /\ UNCHANGED <<store, dir, disk, flock, promised, loose, mishaps, outages>>

\* A migration whose alias is there reads its record, and vouches for nothing.
ReadAlias(a) ==
    /\ pc[a] = "alias" /\ Free(a) /\ Fine /\ UNCHANGED <<dir, disk, loose>>
    /\ \/ dir[Named("aliases", req[a].id)] # None /\ Fail(a)
       \/ dir[Named("aliases", req[a].id)] = None /\ Goto(a, "open") /\ Keep

\* Mutant: a directory that is there is not synchronised again.
OpenUnsynced(a) ==
    /\ pc[a] = "open" /\ Free(a) /\ Fine /\ UNCHANGED <<dir, disk, locks, promised, loose>>
    /\ req' = [req EXCEPT ![a].there = dir[Target(a)] # None]
    /\ Goto(a, CASE req[a].d = "blobs" -> "look" [] req[a].d = "materials" -> "flock"
                  [] OTHER -> "temporary")

\* EnsureDirectory synchronises the directory; opening artifacts only when it removed something.
OpenDirectory(a) ==
    LET d == req[a].d
        left == {t \in Temps(d) : dir[t] # None}
    IN  /\ pc[a] = "open" /\ Free(a) /\ Fine /\ UNCHANGED <<locks, promised, loose>>
        /\ req' = [req EXCEPT ![a].there = dir[Target(a)] # None]
        /\ Goto(a, CASE d = "blobs" -> "look" [] d = "materials" -> "flock" [] OTHER -> "temporary")
        /\ IF d = "artifacts" THEN Gone(left) ELSE UNCHANGED dir
        /\ IF d = "artifacts" /\ left = {} THEN UNCHANGED disk ELSE Synced(d)

\* What is there is adopted: a blob as it is, a container behind the lock of the store.
Look(a) ==
    LET found == dir[Target(a)] # None
        absent == IF req[a].d = "materials" THEN "open" ELSE "temporary"
    IN  /\ pc[a] = "look" /\ Free(a) /\ Fine /\ UNCHANGED <<dir, disk, loose>>
        /\ \/ ~found /\ Goto(a, absent) /\ Keep
           \/ found /\ req[a].d = "blobs" /\ Adopt(a)
           \/ found /\ req[a].d = "materials" /\ Goto(a, "flock") /\ Keep
           \/ found /\ req[a].d = "config" /\ Fail(a)

TakeFlock(a) ==
    /\ pc[a] = "flock" /\ flock = None /\ flock' = a /\ Goto(a, "reconcile")
    /\ Fine /\ UNCHANGED <<dir, disk, mu, req, promised, loose>>

\* Under the flock every temporary is of a dead process.
Reconcile(a) ==
    LET left == {t \in Temps("materials") : dir[t] # None}
    IN  /\ pc[a] = "reconcile" /\ Fine /\ UNCHANGED loose
        /\ Gone(left) /\ IF left = {} THEN UNCHANGED disk ELSE Synced("materials")
        /\ \/ dir[Target(a)] # None /\ Fail(a)
           \/ dir[Target(a)] = None /\ Goto(a, "temporary") /\ Keep

\* The context ends, or a step fails that has changed nothing.
GiveUp(a) ==
    /\ pc[a] \in {"alias", "open", "look", "flock", "reconcile", "temporary"}
    /\ Fail(a) /\ Mishap /\ UNCHANGED <<dir, disk, loose>>

-----------------------------------------------------------------------------
(* A file is written, synchronised, linked to its name, and its directory synchronised. *)

\* Mutant: the evidence store does not hold its lock.
CreateUnlocked(a) ==
    /\ pc[a] = "temporary" /\ Free(a)
    /\ Put(Mine(a), [n |-> req[a].n, whole |-> FALSE]) /\ Goto(a, "write")
    /\ Fine /\ UNCHANGED <<disk, locks, req, promised, loose>>

\* The evidence store holds its lock from here to the synchronised directory.
CreateTemporary(a) ==
    /\ pc[a] = "temporary" /\ Free(a) /\ mu' = [mu EXCEPT ![Home[a]] = a]
    /\ Put(Mine(a), [n |-> req[a].n, whole |-> FALSE]) /\ Goto(a, "write")
    /\ Fine /\ UNCHANGED <<disk, flock, req, promised, loose>>

\* What a failure removes; the artifact store and the configuration synchronise that.
Clean(a, names) ==
    /\ Gone(names)
    /\ IF req[a].d \in {"artifacts", "config"} THEN Synced(req[a].d) ELSE UNCHANGED disk

WriteTemporary(a) ==
    /\ pc[a] = "write" /\ UNCHANGED loose
    /\ \/ /\ dir[Mine(a)] # None /\ Put(Mine(a), [n |-> req[a].n, whole |-> TRUE])
          /\ Goto(a, "link") /\ Fine /\ Keep /\ UNCHANGED disk
       \/ Clean(a, {Mine(a)}) /\ Fail(a) /\ Mishap

\* Another process may open the artifacts of the session and take the temporary for an abandoned one.
LoseTemporary(a) ==
    /\ pc[a] \in {"write", "link", "unlink"} /\ dir[Mine(a)] = None
    /\ Clean(a, IF pc[a] = "unlink" THEN {Target(a)} ELSE {})
    /\ Fail(a) /\ Fine /\ UNCHANGED loose

\* Mutant: the name is looked at before, and the file renamed over what came meanwhile.
LinkOver(a) ==
    /\ pc[a] = "link" /\ dir[Mine(a)] # None /\ req[a].kind # "save"
    /\ Put(Target(a), dir[Mine(a)]) /\ Goto(a, "unlink") /\ Fine /\ Keep /\ UNCHANGED <<disk, loose>>

\* link refuses a name that is there.
LinkNew(a) ==
    /\ pc[a] = "link" /\ dir[Mine(a)] # None /\ req[a].kind # "save" /\ dir[Target(a)] = None
    /\ Put(Target(a), dir[Mine(a)]) /\ Goto(a, "unlink") /\ Fine /\ Keep /\ UNCHANGED <<disk, loose>>

LinkExists(a) ==
    /\ pc[a] = "link" /\ dir[Mine(a)] # None /\ req[a].kind # "save" /\ dir[Target(a)] # None
    /\ Clean(a, {Mine(a)}) /\ Fine /\ UNCHANGED loose
    /\ IF req[a].d = "blobs" \/ req[a].kind = "migrate" THEN Adopt(a) ELSE Fail(a)

\* rename replaces the configuration.
Rename(a) ==
    /\ pc[a] = "link" /\ req[a].kind = "save"
    /\ dir' = [dir EXCEPT ![Target(a)] = dir[Mine(a)], ![Mine(a)] = None]
    /\ Goto(a, "sync") /\ Fine /\ Keep /\ UNCHANGED <<disk, loose>>

LinkFails(a) ==
    /\ pc[a] = "link" /\ Clean(a, {Mine(a)}) /\ Fail(a) /\ Mishap /\ UNCHANGED loose

Unlink(a) ==
    /\ pc[a] = "unlink" /\ dir[Mine(a)] # None
    /\ Gone({Mine(a)}) /\ Goto(a, "sync") /\ Fine /\ Keep /\ UNCHANGED <<disk, loose>>

\* The linked file is not the one that was written: it goes again.
LinkUnverified(a) ==
    /\ pc[a] = "unlink" /\ req[a].d # "config"
    /\ Clean(a, {Target(a), Mine(a)}) /\ Fail(a) /\ Mishap /\ UNCHANGED loose

\* Only the artifact store takes its file back.
UnlinkFails(a) ==
    /\ pc[a] = "unlink" /\ Clean(a, IF req[a].d = "artifacts" THEN {Target(a), Mine(a)} ELSE {})
    /\ loose' = (loose \/ req[a].d \notin {"artifacts", "config"})
    /\ Fail(a) /\ Mishap

SyncDirectory(a) ==
    /\ pc[a] = "sync" /\ UNCHANGED dir /\ Synced(req[a].d)
    /\ Settle(a, {Target(a)}) /\ Fine /\ UNCHANGED loose

SyncFails(a) ==
    /\ pc[a] = "sync" /\ Fail(a) /\ Mishap
    /\ IF req[a].d = "artifacts" THEN Clean(a, {Target(a)}) /\ UNCHANGED loose
       ELSE loose' = TRUE /\ UNCHANGED <<dir, disk>>

-----------------------------------------------------------------------------
Die(dead) ==
    /\ pc' = [a \in Actor |-> IF Home[a] \in dead THEN "idle" ELSE pc[a]]
    /\ req' = [a \in Actor |-> IF Home[a] \in dead THEN NoCall ELSE req[a]]
    /\ mu' = [p \in Proc |-> IF p \in dead THEN None ELSE mu[p]]
    /\ flock' = IF flock # None /\ Home[flock] \in dead THEN None ELSE flock

Kill(p) == /\ \E a \in Actor : Home[a] = p /\ pc[a] # "idle"
           /\ Die({p}) /\ Mishap /\ UNCHANGED <<dir, disk, promised, loose>>

\* Each name stands for what it durably stood for, or for what it stood for last.
PowerLoss ==
    /\ outages < MaxOutages /\ outages' = outages + 1 /\ Die(Proc)
    /\ \E lost \in SUBSET {n \in Name : dir[n] # disk[n]} :
         dir' = [n \in Name |-> IF n \in lost THEN disk[n] ELSE dir[n]]
    /\ disk' = dir' /\ UNCHANGED <<store, promised, loose, calls, mishaps>>

Step(a) == \/ Begin(a) \/ ReadAlias(a) \/ OpenDirectory(a) \/ Look(a) \/ TakeFlock(a)
           \/ Reconcile(a) \/ GiveUp(a) \/ CreateTemporary(a) \/ WriteTemporary(a)
           \/ LoseTemporary(a) \/ LinkNew(a) \/ LinkExists(a) \/ Rename(a) \/ LinkFails(a)
           \/ Unlink(a) \/ LinkUnverified(a) \/ UnlinkFails(a)
           \/ SyncDirectory(a) \/ SyncFails(a)

Next == (\E a \in Actor : Step(a)) \/ (\E p \in Proc : Kill(p)) \/ PowerLoss

Spec == Init /\ [][Next]_vars

-----------------------------------------------------------------------------
(***************************************************************************)
(* What a return vouched for survives every death and power loss: the      *)
(* record and the blob of a put, also when the blob was adopted, an        *)
(* artifact, a published container, a configuration that was created or    *)
(* saved (publishBlob, writeArtifactTransactional, publishContainer,       *)
(* SaveGlobal).                                                            *)
(***************************************************************************)
PromisesSurvive == \A n \in promised : dir[n] # None /\ disk[n] # None

(***************************************************************************)
(* What has its final name is whole and rests on something: a record has   *)
(* its blob and an alias its record, wherever a put died or the power went *)
(* off between the two publications, unless a directory could not be       *)
(* synchronised.                                                           *)
(***************************************************************************)
NothingDangles ==
    /\ \A n \in Final : dir[n] # None => dir[n].whole
    /\ \A id \in Id :
         /\ dir[Named("records", id)] # None => dir[Blob(id)] # None \/ loose
         /\ dir[Named("aliases", id)] # None => dir[Named("records", id)] # None \/ loose

(***************************************************************************)
(* Publication never replaces: a final name keeps the file it was linked   *)
(* to, except that its own call takes it back when it fails, that a saved  *)
(* configuration replaces the one before, and that the power fails         *)
(* (publishNoReplace, ensureGlobal).                                       *)
(***************************************************************************)
NothingReplaced ==
    [][\A n \in Final :
         dir[n] # None /\ dir'[n] # dir[n] =>
           \/ outages' # outages
           \/ \E a \in Actor : /\ Target(a) = n
                               /\ \/ req[a].kind = "save" /\ dir'[n].n = req[a].n
                                  \/ dir[n].n = req[a].n /\ dir'[n] = None]_vars
=============================================================================
