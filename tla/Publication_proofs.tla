------------------------- MODULE Publication_proofs -------------------------
(***************************************************************************)
(* Publication beside the journal, for any number of actors, processes,    *)
(* calls, failures, deaths and power losses: nothing is replaced but what  *)
(* may be, and with one process per evidence store, what a return vouched  *)
(* for survives and what has its final name rests on something.            *)
(***************************************************************************)
EXTENDS Publication, TLAPS

\* Places of a call: it is past the opening of its directory, it has a file
\* under its final name that is not synchronised yet.
Places == {"idle", "alias", "open", "look", "flock", "reconcile", "temporary", "write", "link", "unlink", "sync"}
Past == {"look", "temporary", "write", "link", "unlink", "sync"}
Linked(a) == pc[a] \in {"unlink", "sync"}
Writing(a) == pc[a] \in {"write", "link", "unlink"}

Requests == [kind : {"none", "put", "migrate", "artifact", "material", "ensure", "save"},
             id : Id \cup {None}, n : 0..MaxCalls, d : Directories \cup {None},
             there : BOOLEAN, sure : SUBSET Final]

TypeOK ==
  /\ store \in Stores
  /\ dir \in [Name -> File \cup {None}] /\ disk \in [Name -> File \cup {None}]
  /\ mu \in [Proc -> Actor \cup {None}] /\ flock \in Actor \cup {None}
  /\ pc \in [Actor -> Places] /\ req \in [Actor -> Requests]
  /\ promised \subseteq Final /\ loose \in BOOLEAN
  /\ calls \in 0..MaxCalls /\ mishaps \in Nat /\ outages \in Nat

\* What a call of each store is about.
Asks(s, r) ==
  \/ s = "evidence" /\ r.kind \in {"put", "migrate"} /\ r.id \in Id /\ r.d \in {"blobs", "records"}
  \/ s = "evidence" /\ r.kind = "migrate" /\ r.id \in Id /\ r.d = "aliases"
  \/ s = "artifacts" /\ r.kind = "artifact" /\ r.n \in 1..MaxCalls /\ r.d = "artifacts"
  \/ s = "materials" /\ r.kind = "material" /\ r.id \in Id /\ r.d = "materials"
  \/ s = "config" /\ r.kind \in {"ensure", "save"} /\ r.d = "config"

CallInv ==
  \A a \in Actor :
    /\ pc[a] = "idle" => req[a] = NoCall
    /\ pc[a] # "idle" => a \in User[store] /\ Asks(store, req[a])
    /\ pc[a] = "alias" => req[a].kind = "migrate" /\ req[a].d = "blobs"
    /\ pc[a] \in {"flock", "reconcile"} => req[a].d = "materials"
    /\ pc[a] = "unlink" => req[a].kind # "save"

\* The evidence store holds its lock from the temporary to the synchronised directory.
LockInv ==
  store = "evidence" => \A a \in Actor : Writing(a) \/ Linked(a) => mu[Home[a]] = a

\* What a temporary holds; that of a configuration nobody removes.
TemporaryInv ==
  \A a \in Actor :
    /\ pc[a] \in {"write", "link"} /\ dir[Mine(a)] # None => dir[Mine(a)].n = req[a].n
    /\ pc[a] = "link" /\ dir[Mine(a)] # None => dir[Mine(a)].whole
    /\ Writing(a) /\ req[a].d = "config" => dir[Mine(a)] # None

WholeInv == \A n \in Final : /\ dir[n] # None => dir[n].whole
                             /\ disk[n] # None => disk[n].whole

\* A file that was linked is there, and no two calls have linked the same name.
LinkedInv ==
  /\ \A a \in Actor :
       Linked(a) => /\ dir[Target(a)] # None
                    /\ req[a].d # "config" => dir[Target(a)].n = req[a].n
  /\ \A a, b \in Actor :
       a # b /\ Linked(a) /\ Linked(b) /\ req[a].d # "config" => Target(a) # Target(b)

\* A record rests on its blob, an alias on its record.
RestsOn(m, n) ==
  \E id \in Id : \/ m = Named("records", id) /\ n = Blob(id)
                 \/ m = Named("aliases", id) /\ n = Named("records", id)

\* Names that must not go any more: what was promised, what a running call
\* vouches for or has found in a synchronised directory, what something rests on.
Vouched(n) ==
  \/ n \in promised
  \/ \E a \in Actor : n \in req[a].sure
  \/ store = "evidence" /\ \E a \in Actor : pc[a] \in Past /\ req[a].there /\ n = Target(a)
Rested(n) == ~ loose /\ \E m \in Final : RestsOn(m, n) /\ (dir[m] # None \/ disk[m] # None)

\* A name is durable and no running call will take it back.
Safe(n) ==
  /\ dir[n] # None /\ disk[n] # None
  /\ \A a \in Actor : Linked(a) /\ req[a].d # "config" => Target(a) # n

NeededInv == \A n \in Final : Vouched(n) \/ Rested(n) => Safe(n)

\* Behind the opening of a directory of the evidence store, what is in it is
\* durable, or just being linked, or a sync has failed.
CaughtInv ==
  store = "evidence" =>
    \A b \in Actor : pc[b] \in Past =>
      \A n \in Final : n[1] = req[b].d /\ dir[n] # None =>
        disk[n] # None \/ loose \/ \E c \in Actor : Linked(c) /\ Target(c) = n

\* Whoever goes on to a record has its blob, to an alias its record.
GoesOnInv ==
  \A a \in Actor :
    /\ req[a].d = "records" => Blob(req[a].id) \in req[a].sure \/ loose
    /\ req[a].d = "aliases" => Named("records", req[a].id) \in req[a].sure \/ loose

PublicationInv == TypeOK /\ CallInv /\ LockInv /\ TemporaryInv /\ WholeInv /\ LinkedInv
NeedsInv == NeededInv /\ CaughtInv /\ GoesOnInv

\* The lock of the evidence store is its process's: two processes that publish
\* evidence in one directory may adopt what the other has not synchronised.
OneProcess == store = "evidence" => \A a, b \in User["evidence"] : Home[a] = Home[b]

-----------------------------------------------------------------------------
(* Names. *)

\* A final name is not a temporary's.
LEMMA FinalIsNoTemporary ==
  /\ Final \subseteq Name
  /\ \A d \in Directories, a \in Actor : Temp(d, a) \in Name \ Final
<1>1. Final \subseteq Name
  BY DEF Name
<1>2. ASSUME NEW n \in Final PROVE n[2] = "final"
  BY DEF Final, Blob, Config, Named
<1>3. ASSUME NEW d \in Directories, NEW a \in Actor PROVE Temp(d, a) \in Name /\ Temp(d, a) \notin Final
  <2>1. Temp(d, a)[2] = "temporary"
    BY DEF Temp
  <2> QED BY <2>1, <1>2 DEF Name
<1> QED BY <1>1, <1>3

\* A call has a final name of its own directory to publish.
LEMMA TargetIsFinal ==
  ASSUME NEW s, NEW r, Asks(s, r)
  PROVE  TargetOf(r) \in Final /\ TargetOf(r)[1] = r.d /\ r.d \in Directories
<1>1. CASE r.d = "blobs"
  BY <1>1 DEF Asks, TargetOf, Final, Blob, Directories
<1>2. CASE r.d = "config"
  BY <1>2 DEF Asks, TargetOf, Final, Config, Directories
<1>3. CASE r.d = "artifacts"
  BY <1>3 DEF Asks, TargetOf, Final, Named, Directories
<1>4. CASE r.d \in {"records", "aliases", "materials"}
  BY <1>4 DEF Asks, TargetOf, Final, Named, Directories
<1> QED BY <1>1, <1>2, <1>3, <1>4 DEF Asks

LEMMA ConfigIsFinal == Config \in Final /\ Config[1] = "config"
BY DEF Final, Config

\* What rests on what: each name on one, in another directory.
LEMMA Rests ==
  ASSUME NEW m, NEW n, RestsOn(m, n)
  PROVE  /\ m \in Final /\ n \in Final /\ m # n
         /\ m[1] \in {"records", "aliases"} /\ m # Config
         /\ n[1] \in {"blobs", "records"}
<1>1. ASSUME NEW id \in Id PROVE /\ Blob(id) \in Final /\ Blob(id)[1] = "blobs"
                                 /\ Named("records", id) \in Final /\ Named("records", id)[1] = "records"
                                 /\ Named("aliases", id) \in Final /\ Named("aliases", id)[1] = "aliases"
  BY DEF Final, Blob, Named
<1> QED BY <1>1, ConfigIsFinal DEF RestsOn

LEMMA RestsOfRecord ==
  ASSUME NEW id \in Id, NEW n, RestsOn(Named("records", id), n) PROVE n = Blob(id)
<1>1. PICK other \in Id : \/ Named("records", id) = Named("records", other) /\ n = Blob(other)
                          \/ Named("records", id) = Named("aliases", other) /\ n = Named("records", other)
  BY DEF RestsOn
<1>2. Named("records", id)[1] = "records" /\ Named("aliases", other)[1] = "aliases"
  BY DEF Named
<1>3. Named("records", id)[3] = id /\ Named("records", other)[3] = other
  BY DEF Named
<1> QED BY <1>1, <1>2, <1>3

LEMMA RestsOfAlias ==
  ASSUME NEW id \in Id, NEW n, RestsOn(Named("aliases", id), n) PROVE n = Named("records", id)
<1>1. PICK other \in Id : \/ Named("aliases", id) = Named("records", other) /\ n = Blob(other)
                          \/ Named("aliases", id) = Named("aliases", other) /\ n = Named("records", other)
  BY DEF RestsOn
<1>2. Named("records", other)[1] = "records" /\ Named("aliases", id)[1] = "aliases"
  BY DEF Named
<1>3. Named("aliases", id)[3] = id /\ Named("aliases", other)[3] = other
  BY DEF Named
<1> QED BY <1>1, <1>2, <1>3

-----------------------------------------------------------------------------
(* Types. *)

LEMMA NoCallIsRequest == NoCall \in Requests
BY BoundsAssumption DEF NoCall, Requests

LEMMA CallIsRequest ==
  ASSUME calls \in 0..MaxCalls, calls < MaxCalls,
         NEW kind \in {"put", "migrate", "artifact", "material", "ensure", "save"},
         NEW id \in Id \cup {None}, NEW d \in Directories
  PROVE  /\ Call(kind, id, d) \in Requests
         /\ Call(kind, id, d) = [kind |-> kind, id |-> id, n |-> calls + 1, d |-> d, there |-> FALSE, sure |-> {}]
         /\ Call(kind, id, d).n \in 1..MaxCalls
<1>1. Call(kind, id, d) = [kind |-> kind, id |-> id, n |-> calls + 1, d |-> d, there |-> FALSE, sure |-> {}]
  BY DEF Call
<1>2. calls + 1 \in 1..MaxCalls
  BY BoundsAssumption
<1> QED BY <1>1, <1>2, BoundsAssumption DEF Requests

\* Leaving and dying.
LEMMA LeaveTypes ==
  ASSUME TypeOK, NEW a \in Actor, Leave(a)
  PROVE  /\ pc' \in [Actor -> Places] /\ req' \in [Actor -> Requests]
         /\ mu' \in [Proc -> Actor \cup {None}] /\ flock' \in Actor \cup {None}
<1>1. pc' \in [Actor -> Places]
  BY DEF Leave, TypeOK, Places
<1>2. req' \in [Actor -> Requests]
  BY NoCallIsRequest DEF Leave, TypeOK
<1>3. mu' \in [Proc -> Actor \cup {None}] /\ flock' \in Actor \cup {None}
  BY DEF Leave, Unlock, TypeOK
<1> QED BY <1>1, <1>2, <1>3

LEMMA DieTypes ==
  ASSUME TypeOK, NEW dead, Die(dead)
  PROVE  /\ pc' \in [Actor -> Places] /\ req' \in [Actor -> Requests]
         /\ mu' \in [Proc -> Actor \cup {None}] /\ flock' \in Actor \cup {None}
<1>1. pc' \in [Actor -> Places]
  BY DEF Die, TypeOK, Places
<1>2. req' \in [Actor -> Requests]
  BY NoCallIsRequest DEF Die, TypeOK
<1>3. mu' \in [Proc -> Actor \cup {None}] /\ flock' \in Actor \cup {None}
  BY DEF Die, TypeOK
<1> QED BY <1>1, <1>2, <1>3

\* Directories.
LEMMA GoneTypes ==
  ASSUME TypeOK, NEW names, Gone(names)
  PROVE  dir' \in [Name -> File \cup {None}]
BY DEF Gone, TypeOK

LEMMA SyncedTypes ==
  ASSUME TypeOK, dir' \in [Name -> File \cup {None}], NEW d, Synced(d)
  PROVE  disk' \in [Name -> File \cup {None}]
BY DEF Synced, TypeOK

LEMMA CleanTypes ==
  ASSUME TypeOK, NEW a \in Actor, NEW names, Clean(a, names)
  PROVE  dir' \in [Name -> File \cup {None}] /\ disk' \in [Name -> File \cup {None}]
<1>1. Gone(names)
  BY DEF Clean
<1>2. dir' \in [Name -> File \cup {None}]
  BY <1>1, GoneTypes
<1>3. CASE Synced(req[a].d)
  BY <1>2, <1>3, SyncedTypes
<1>4. CASE UNCHANGED disk
  BY <1>2, <1>4 DEF TypeOK
<1> QED BY <1>2, <1>3, <1>4 DEF Clean

\* A call vouches for final names.
LEMMA SettleTypes ==
  ASSUME TypeOK, NEW a \in Actor, NEW sure \in SUBSET Final, Settle(a, sure)
  PROVE  /\ pc' \in [Actor -> Places] /\ req' \in [Actor -> Requests]
         /\ mu' \in [Proc -> Actor \cup {None}] /\ flock' \in Actor \cup {None}
         /\ promised' \subseteq Final
<1> DEFINE r == [req[a] EXCEPT !.d = Behind(req[a]), !.sure = @ \cup sure, !.there = FALSE]
<1>1. Behind(req[a]) \in Directories \cup {None}
  BY DEF Behind, Directories
<1>2. r \in Requests /\ r.sure \subseteq Final
  <2>1. req[a] \in Requests
    BY DEF TypeOK
  <2> QED BY <1>1, <2>1 DEF Requests
<1>3. CASE Leave(a) /\ promised' = promised \cup r.sure
  BY <1>2, <1>3, LeaveTypes DEF TypeOK
<1>4. CASE req' = [req EXCEPT ![a] = r] /\ Goto(a, "open") /\ Unlock(a) /\ UNCHANGED <<flock, promised>>
  <2>1. pc' \in [Actor -> Places]
    BY <1>4 DEF Goto, TypeOK, Places
  <2>2. req' \in [Actor -> Requests]
    BY <1>2, <1>4 DEF TypeOK
  <2>3. mu' \in [Proc -> Actor \cup {None}]
    BY <1>4 DEF Unlock, TypeOK
  <2> QED BY <1>4, <2>1, <2>2, <2>3 DEF TypeOK
<1> QED BY <1>3, <1>4 DEF Settle

LEMMA Bounded ==
  ASSUME TypeOK
  PROVE  /\ Fine => store' \in Stores /\ calls' \in 0..MaxCalls /\ mishaps' \in Nat /\ outages' \in Nat
         /\ Mishap => store' \in Stores /\ calls' \in 0..MaxCalls /\ mishaps' \in Nat /\ outages' \in Nat
BY DEF TypeOK, Fine, Mishap, bounds

LEMMA PutTypes ==
  ASSUME TypeOK, NEW n \in Name, NEW file \in File \cup {None}, Put(n, file)
  PROVE  dir' \in [Name -> File \cup {None}]
BY DEF Put, TypeOK

LEMMA MineIsName ==
  ASSUME NEW a \in Actor, req[a].d \in Directories
  PROVE  Mine(a) \in Name \ Final /\ Mine(a) = Temp(req[a].d, a)
BY FinalIsNoTemporary DEF Mine

LEMMA GotoTypes ==
  ASSUME TypeOK, NEW a \in Actor, NEW step \in Places, Goto(a, step)
  PROVE  pc' \in [Actor -> Places]
BY DEF Goto, TypeOK

LEMMA BeginTypes == ASSUME TypeOK, NEW a \in Actor, Begin(a) PROVE TypeOK'
<1>1. calls \in 0..MaxCalls /\ calls < MaxCalls /\ calls' = calls + 1
  BY DEF Begin, TypeOK
<1>2. calls' \in 0..MaxCalls
  BY <1>1, BoundsAssumption
<1>3. PICK kind \in {"put", "migrate", "artifact", "material", "ensure", "save"}, id \in Id \cup {None},
           d \in Directories, step \in {"open", "alias", "look", "temporary"} :
        Goto(a, step) /\ req' = [req EXCEPT ![a] = Call(kind, id, d)]
  BY DEF Begin, Directories
<1>4. Call(kind, id, d) \in Requests
  BY <1>1, CallIsRequest
<1>5. req' \in [Actor -> Requests]
  BY <1>3, <1>4 DEF TypeOK
<1>6. pc' \in [Actor -> Places]
  BY <1>3, GotoTypes DEF Places
<1>7. mu' \in [Proc -> Actor \cup {None}]
  BY DEF Begin, TypeOK
<1> QED BY <1>2, <1>5, <1>6, <1>7 DEF Begin, TypeOK

\* Steps of a call between its beginning and its file.
LEMMA LookTypes ==
  ASSUME TypeOK, NEW a \in Actor,
         ReadAlias(a) \/ Look(a) \/ TakeFlock(a) \/ Reconcile(a) \/ GiveUp(a), CallInv
  PROVE  TypeOK'
<1>1. pc[a] # "idle"
  BY DEF ReadAlias, Look, TakeFlock, Reconcile, GiveUp
<1>2. Asks(store, req[a])
  BY <1>1 DEF CallInv
<1>3. Target(a) \in Final
  BY <1>2, TargetIsFinal DEF Target
<1>4. CASE ReadAlias(a)
  <2>1. CASE Fail(a)
    BY <1>4, <2>1, LeaveTypes, Bounded DEF ReadAlias, Fail, TypeOK
  <2>2. CASE Goto(a, "open") /\ Keep
    BY <1>4, <2>2, GotoTypes, Bounded DEF ReadAlias, Keep, locks, TypeOK, Places
  <2> QED BY <1>4, <2>1, <2>2 DEF ReadAlias
<1>5. CASE Look(a)
  <2>1. CASE Adopt(a)
    <3>1. PICK sure \in SUBSET Final : Settle(a, sure)
      BY <1>3, <2>1 DEF Adopt
    <3>2. /\ pc' \in [Actor -> Places] /\ req' \in [Actor -> Requests]
          /\ mu' \in [Proc -> Actor \cup {None}] /\ flock' \in Actor \cup {None}
          /\ promised' \subseteq Final
      BY <3>1, SettleTypes
    <3> QED BY <1>5, <3>2, Bounded DEF Look, TypeOK
  <2>2. CASE Fail(a)
    BY <1>5, <2>2, LeaveTypes, Bounded DEF Look, Fail, TypeOK
  <2>3. CASE (\E step \in {"open", "temporary", "flock"} : Goto(a, step)) /\ Keep
    BY <1>5, <2>3, GotoTypes, Bounded DEF Look, Keep, locks, TypeOK, Places
  <2> QED BY <1>5, <2>1, <2>2, <2>3 DEF Look
<1>6. CASE TakeFlock(a)
  BY <1>6, GotoTypes, Bounded DEF TakeFlock, TypeOK, Places
<1>7. CASE Reconcile(a)
  <2>1. dir' \in [Name -> File \cup {None}]
    BY <1>7, GoneTypes DEF Reconcile
  <2>2. disk' \in [Name -> File \cup {None}]
    BY <1>7, <2>1, SyncedTypes DEF Reconcile, TypeOK
  <2>3. CASE Fail(a)
    BY <1>7, <2>1, <2>2, <2>3, LeaveTypes, Bounded DEF Reconcile, Fail, TypeOK
  <2>4. CASE Goto(a, "temporary") /\ Keep
    BY <1>7, <2>1, <2>2, <2>4, GotoTypes, Bounded DEF Reconcile, Keep, locks, TypeOK, Places
  <2> QED BY <1>7, <2>3, <2>4 DEF Reconcile
<1>8. CASE GiveUp(a)
  BY <1>8, LeaveTypes, Bounded DEF GiveUp, Fail, TypeOK
<1> QED BY <1>4, <1>5, <1>6, <1>7, <1>8

LEMMA OpenTypes == ASSUME TypeOK, CallInv, NEW a \in Actor, OpenDirectory(a) PROVE TypeOK'
<1>1. req' \in [Actor -> Requests]
  <2>1. [req[a] EXCEPT !.there = dir[Target(a)] # None] \in Requests
    BY DEF TypeOK, Requests
  <2> QED BY <2>1 DEF OpenDirectory, TypeOK
<1>2. pc' \in [Actor -> Places]
  <2>1. PICK step \in {"look", "flock", "temporary"} : Goto(a, step)
    BY DEF OpenDirectory
  <2> QED BY <2>1, GotoTypes DEF Places
<1>3. dir' \in [Name -> File \cup {None}]
  BY GoneTypes DEF OpenDirectory, TypeOK
<1>4. disk' \in [Name -> File \cup {None}]
  BY <1>3, SyncedTypes DEF OpenDirectory, TypeOK
<1> QED BY <1>1, <1>2, <1>3, <1>4, Bounded DEF OpenDirectory, locks, TypeOK

\* Steps of a call with its file.
LEMMA FileTypes ==
  ASSUME TypeOK, CallInv, NEW a \in Actor,
         CreateTemporary(a) \/ WriteTemporary(a) \/ LinkNew(a) \/ Rename(a) \/ Unlink(a)
  PROVE  TypeOK'
<1>1. pc[a] # "idle"
  BY DEF CreateTemporary, WriteTemporary, LinkNew, Rename, Unlink
<1>2. Target(a) \in Final /\ req[a].d \in Directories
  BY <1>1, TargetIsFinal DEF CallInv, Target
<1>3. Target(a) \in Name /\ Mine(a) \in Name
  BY <1>2, FinalIsNoTemporary, MineIsName
<1>4. req[a].n \in Nat
  BY BoundsAssumption DEF TypeOK, Requests
<1>5. CASE CreateTemporary(a)
  <2>1. dir' \in [Name -> File \cup {None}]
    BY <1>3, <1>4, <1>5, PutTypes DEF CreateTemporary, File
  <2>2. mu' \in [Proc -> Actor \cup {None}]
    BY <1>5 DEF CreateTemporary, TypeOK
  <2> QED BY <1>5, <2>1, <2>2, GotoTypes, Bounded DEF CreateTemporary, TypeOK, Places
<1>6. CASE WriteTemporary(a)
  <2>1. CASE Put(Mine(a), [n |-> req[a].n, whole |-> TRUE]) /\ Goto(a, "link") /\ Fine /\ Keep /\ UNCHANGED disk
    <3>1. dir' \in [Name -> File \cup {None}]
      BY <1>3, <1>4, <2>1, PutTypes DEF File
    <3> QED BY <1>6, <2>1, <3>1, GotoTypes, Bounded DEF WriteTemporary, Keep, locks, TypeOK, Places
  <2>2. CASE Clean(a, {Mine(a)}) /\ Fail(a) /\ Mishap
    BY <1>6, <2>2, CleanTypes, LeaveTypes, Bounded DEF WriteTemporary, Fail, TypeOK
  <2> QED BY <1>6, <2>1, <2>2 DEF WriteTemporary
<1>7. CASE LinkNew(a)
  <2>1. dir' \in [Name -> File \cup {None}]
    BY <1>3, <1>7, PutTypes DEF LinkNew, TypeOK
  <2> QED BY <1>7, <2>1, GotoTypes, Bounded DEF LinkNew, Keep, locks, TypeOK, Places
<1>8. CASE Rename(a)
  <2>1. dir' \in [Name -> File \cup {None}]
    BY <1>3, <1>8 DEF Rename, TypeOK
  <2> QED BY <1>8, <2>1, GotoTypes, Bounded DEF Rename, Keep, locks, TypeOK, Places
<1>9. CASE Unlink(a)
  <2>1. dir' \in [Name -> File \cup {None}]
    BY <1>9, GoneTypes DEF Unlink
  <2> QED BY <1>9, <2>1, GotoTypes, Bounded DEF Unlink, Keep, locks, TypeOK, Places
<1> QED BY <1>5, <1>6, <1>7, <1>8, <1>9

\* Steps with which a call ends, or goes on to its next directory.
LEMMA EndTypes ==
  ASSUME TypeOK, CallInv, NEW a \in Actor,
         \/ LoseTemporary(a) \/ LinkExists(a) \/ LinkFails(a) \/ LinkUnverified(a)
         \/ UnlinkFails(a) \/ SyncDirectory(a) \/ SyncFails(a)
  PROVE  TypeOK'
<1>1. pc[a] # "idle"
  BY DEF LoseTemporary, LinkExists, LinkFails, LinkUnverified, UnlinkFails, SyncDirectory, SyncFails
<1>2. Target(a) \in Final
  BY <1>1, TargetIsFinal DEF CallInv, Target
<1>3. /\ store' \in Stores /\ calls' \in 0..MaxCalls /\ mishaps' \in Nat /\ outages' \in Nat
  BY Bounded DEF LoseTemporary, LinkExists, LinkFails, LinkUnverified, UnlinkFails, SyncDirectory, SyncFails
<1>4. loose' \in BOOLEAN
  BY DEF LoseTemporary, LinkExists, LinkFails, LinkUnverified, UnlinkFails, SyncDirectory, SyncFails, TypeOK
<1>5. dir' \in [Name -> File \cup {None}] /\ disk' \in [Name -> File \cup {None}]
  <2>1. CASE \E names : Clean(a, names)
    BY <2>1, CleanTypes
  <2>2. CASE SyncDirectory(a)
    BY <2>2, SyncedTypes DEF SyncDirectory, TypeOK
  <2>3. CASE UNCHANGED <<dir, disk>>
    BY <2>3 DEF TypeOK
  <2> QED BY <2>1, <2>2, <2>3 DEF LoseTemporary, LinkExists, LinkFails, LinkUnverified, UnlinkFails, SyncFails
<1>6. CASE Fail(a)
  BY <1>3, <1>4, <1>5, <1>6, LeaveTypes DEF Fail, TypeOK
<1>7. CASE Adopt(a) \/ Settle(a, {Target(a)})
  <2>1. PICK sure \in SUBSET Final : Settle(a, sure)
    BY <1>2, <1>7 DEF Adopt
  <2>2. /\ pc' \in [Actor -> Places] /\ req' \in [Actor -> Requests]
        /\ mu' \in [Proc -> Actor \cup {None}] /\ flock' \in Actor \cup {None}
        /\ promised' \subseteq Final
    BY <2>1, SettleTypes
  <2> QED BY <1>3, <1>4, <1>5, <2>2 DEF TypeOK
<1> QED BY <1>6, <1>7 DEF LoseTemporary, LinkExists, LinkFails, LinkUnverified, UnlinkFails, SyncDirectory, SyncFails

LEMMA PowerTypes == ASSUME TypeOK, PowerLoss PROVE TypeOK'
<1>1. Die(Proc) /\ outages' = outages + 1 /\ disk' = dir' /\ UNCHANGED <<store, promised, loose, calls, mishaps>>
  BY DEF PowerLoss
<1>2. PICK lost : dir' = [n \in Name |-> IF n \in lost THEN disk[n] ELSE dir[n]]
  BY DEF PowerLoss
<1>3. dir' \in [Name -> File \cup {None}]
  BY <1>2 DEF TypeOK
<1>4. /\ pc' \in [Actor -> Places] /\ req' \in [Actor -> Requests]
      /\ mu' \in [Proc -> Actor \cup {None}] /\ flock' \in Actor \cup {None}
  BY <1>1, DieTypes
<1> QED BY <1>1, <1>3, <1>4 DEF TypeOK

LEMMA TypeStep == TypeOK /\ CallInv /\ [Next]_vars => TypeOK'
<1> SUFFICES ASSUME TypeOK, CallInv, [Next]_vars PROVE TypeOK'
  OBVIOUS
<1>1. ASSUME NEW a \in Actor, Step(a) PROVE TypeOK'
  BY <1>1, BeginTypes, LookTypes, OpenTypes, FileTypes, EndTypes DEF Step
<1>2. ASSUME NEW p \in Proc, Kill(p) PROVE TypeOK'
  BY <1>2, DieTypes, Bounded DEF Kill, TypeOK
<1>3. CASE PowerLoss
  BY <1>3, PowerTypes
<1>4. CASE UNCHANGED vars
  BY <1>4 DEF TypeOK, vars, locks, bounds
<1> QED BY <1>1, <1>2, <1>3, <1>4 DEF Next

-----------------------------------------------------------------------------
(* What a step does to the calls. *)

Others(a) == \A b \in Actor : b # a => pc'[b] = pc[b] /\ req'[b] = req[b]
Ended(a) == pc'[a] = "idle" /\ req'[a] = NoCall
Same(a, step) == pc'[a] = step /\ req'[a] = req[a]

LEMMA Leaves ==
  ASSUME TypeOK, NEW a \in Actor, Leave(a)
  PROVE  /\ Others(a) /\ Ended(a)
         /\ \A p \in Proc : mu'[p] = IF mu[p] = a THEN None ELSE mu[p]
BY DEF Leave, Unlock, Others, Ended, TypeOK

LEMMA Goes ==
  ASSUME TypeOK, NEW a \in Actor, NEW step, Goto(a, step), req' = req
  PROVE  Others(a) /\ Same(a, step)
BY DEF Goto, Others, Same, TypeOK

\* A call that is done with a directory returns, or goes on behind it.
Returns(a, sure) == Ended(a) /\ promised' = promised \cup req[a].sure \cup sure
GoesBehind(a, sure) ==
  /\ pc'[a] = "open" /\ promised' = promised
  /\ req'[a].kind = req[a].kind /\ req'[a].id = req[a].id /\ req'[a].n = req[a].n
  /\ req'[a].d = Behind(req[a]) /\ Behind(req[a]) # None
  /\ req'[a].there = FALSE /\ req'[a].sure = req[a].sure \cup sure

LEMMA Settles ==
  ASSUME TypeOK, NEW a \in Actor, NEW sure, Settle(a, sure)
  PROVE  /\ Others(a)
         /\ Returns(a, sure) \/ GoesBehind(a, sure)
         /\ \A p \in Proc : mu'[p] = IF mu[p] = a THEN None ELSE mu[p]
<1> DEFINE r == [req[a] EXCEPT !.d = Behind(req[a]), !.sure = @ \cup sure, !.there = FALSE]
<1>1. req[a] \in Requests
  BY DEF TypeOK
<1>2. /\ r.kind = req[a].kind /\ r.id = req[a].id /\ r.n = req[a].n
      /\ r.d = Behind(req[a]) /\ r.there = FALSE /\ r.sure = req[a].sure \cup sure
  BY <1>1 DEF Requests
<1>3. CASE r.d = None /\ Leave(a) /\ promised' = promised \cup r.sure
  BY <1>2, <1>3, Leaves DEF Returns
<1>4. CASE r.d # None /\ req' = [req EXCEPT ![a] = r] /\ Goto(a, "open") /\ Unlock(a) /\ UNCHANGED <<flock, promised>>
  <2> HIDE DEF r
  <2>1. req'[a] = r /\ pc'[a] = "open" /\ Others(a)
    BY <1>4 DEF TypeOK, Goto, Others
  <2>2. \A p \in Proc : mu'[p] = IF mu[p] = a THEN None ELSE mu[p]
    BY <1>4 DEF Unlock
  <2> QED BY <1>2, <1>4, <2>1, <2>2 DEF GoesBehind
<1> QED BY <1>3, <1>4 DEF Settle

\* The names that a call which adopts its target vouches for.
Sure(a) == IF loose /\ ~ req[a].there THEN {} ELSE {Target(a)}

LEMMA StepsAlone ==
  ASSUME TypeOK, NEW a \in Actor, Step(a)
  PROVE  Others(a) /\ UNCHANGED <<store, outages>>
<1>1. UNCHANGED <<store, outages>>
  BY DEF Step, Begin, ReadAlias, OpenDirectory, Look, TakeFlock, Reconcile, GiveUp, CreateTemporary, WriteTemporary,
         LoseTemporary, LinkNew, LinkExists, Rename, LinkFails, Unlink, LinkUnverified, UnlinkFails, SyncDirectory,
         SyncFails, Fine, Mishap, bounds
<1>2. CASE Fail(a)
  BY <1>1, <1>2, Leaves DEF Fail
<1>3. CASE \E sure : Settle(a, sure)
  BY <1>1, <1>3, Settles
<1>4. CASE (\E step : Goto(a, step)) /\ (req' = req \/ \E r : req' = [req EXCEPT ![a] = r])
  BY <1>1, <1>4 DEF Goto, Others, TypeOK
<1>5. CASE Begin(a)
  BY <1>4, <1>5 DEF Begin
<1>6. CASE OpenDirectory(a)
  BY <1>4, <1>6 DEF OpenDirectory
<1>7. CASE ReadAlias(a) \/ Look(a) \/ TakeFlock(a) \/ Reconcile(a) \/ GiveUp(a)
  BY <1>2, <1>3, <1>4, <1>7 DEF ReadAlias, Look, TakeFlock, Reconcile, GiveUp, Adopt, Keep
<1>8. CASE CreateTemporary(a) \/ WriteTemporary(a) \/ LinkNew(a) \/ Rename(a) \/ Unlink(a)
  BY <1>2, <1>4, <1>8 DEF CreateTemporary, WriteTemporary, LinkNew, Rename, Unlink, Keep
<1>9. CASE \/ LoseTemporary(a) \/ LinkExists(a) \/ LinkFails(a) \/ LinkUnverified(a)
           \/ UnlinkFails(a) \/ SyncDirectory(a) \/ SyncFails(a)
  BY <1>2, <1>3, <1>9
  DEF LoseTemporary, LinkExists, LinkFails, LinkUnverified, UnlinkFails, SyncDirectory, SyncFails, Adopt
<1> QED BY <1>1, <1>5, <1>6, <1>7, <1>8, <1>9 DEF Step

\* A death, or a power loss, ends the calls of its processes.
LEMMA Deaths ==
  ASSUME TypeOK, NEW dead, Die(dead)
  PROVE  /\ \A a \in Actor : IF Home[a] \in dead THEN Ended(a) ELSE pc'[a] = pc[a] /\ req'[a] = req[a]
         /\ \A p \in Proc : mu'[p] = IF p \in dead THEN None ELSE mu[p]
BY DEF Die, Ended, TypeOK

-----------------------------------------------------------------------------
(* Where a call is. *)

\* What CallInv says of one call.
Placed(s, a, step, r) ==
  /\ step = "idle" => r = NoCall
  /\ step # "idle" => a \in User[s] /\ Asks(s, r)
  /\ step = "alias" => r.kind = "migrate" /\ r.d = "blobs"
  /\ step \in {"flock", "reconcile"} => r.d = "materials"
  /\ step = "unlink" => r.kind # "save"

LEMMA CallInvIs == CallInv <=> \A a \in Actor : Placed(store, a, pc[a], req[a])
BY DEF CallInv, Placed

LEMMA BehindAsks ==
  ASSUME NEW s, NEW r, NEW q, Asks(s, r), Behind(r) # None,
         q.kind = r.kind, q.id = r.id, q.n = r.n, q.d = Behind(r)
  PROVE  Asks(s, q)
<1>1. CASE r.d = "blobs"
  BY <1>1 DEF Asks, Behind
<1>2. CASE r.d = "records" /\ r.kind = "migrate"
  BY <1>2 DEF Asks, Behind
<1> QED BY <1>1, <1>2 DEF Behind

LEMMA SettlePlaces ==
  ASSUME TypeOK, CallInv, NEW a \in Actor, NEW sure, Settle(a, sure), pc[a] # "idle"
  PROVE  Placed(store, a, pc'[a], req'[a])
<1>1. CASE Returns(a, sure)
  BY <1>1 DEF Returns, Ended, Placed
<1>2. CASE GoesBehind(a, sure)
  <2>1. a \in User[store] /\ Asks(store, req[a])
    BY DEF CallInv
  <2>2. Asks(store, req'[a])
    BY <1>2, <2>1, BehindAsks DEF GoesBehind
  <2> QED BY <1>2, <2>1, <2>2 DEF GoesBehind, Placed
<1> QED BY <1>1, <1>2, Settles

LEMMA BeginPlaces ==
  ASSUME TypeOK, NEW a \in Actor, Begin(a)
  PROVE  Placed(store, a, pc'[a], req'[a])
<1>1. calls \in 0..MaxCalls /\ calls < MaxCalls /\ a \in User[store]
  BY DEF Begin, TypeOK
<1>2. \A kind \in {"put", "migrate", "artifact", "material", "ensure", "save"}, id \in Id \cup {None}, d \in Directories :
        /\ Call(kind, id, d).kind = kind /\ Call(kind, id, d).id = id /\ Call(kind, id, d).d = d
        /\ Call(kind, id, d).n \in 1..MaxCalls
  BY <1>1, CallIsRequest
<1>3. CASE store = "evidence"
  <2>1. PICK id \in Id : \/ Goto(a, "open") /\ req' = [req EXCEPT ![a] = Call("put", id, "blobs")]
                         \/ Goto(a, "alias") /\ req' = [req EXCEPT ![a] = Call("migrate", id, "blobs")]
    BY <1>3 DEF Begin
  <2>2. \/ pc'[a] = "open" /\ req'[a] = Call("put", id, "blobs")
        \/ pc'[a] = "alias" /\ req'[a] = Call("migrate", id, "blobs")
    BY <2>1 DEF Goto, TypeOK
  <2>3. "blobs" \in Directories
    BY DEF Directories
  <2> QED BY <1>1, <1>2, <1>3, <2>2, <2>3 DEF Placed, Asks
<1>4. CASE store = "artifacts"
  <2>1. pc'[a] = "open" /\ req'[a] = Call("artifact", None, "artifacts")
    BY <1>4 DEF Begin, Goto, TypeOK
  <2>2. "artifacts" \in Directories
    BY DEF Directories
  <2> QED BY <1>1, <1>2, <1>4, <2>1, <2>2 DEF Placed, Asks
<1>5. CASE store = "materials"
  <2>1. PICK id \in Id : pc'[a] = "look" /\ req'[a] = Call("material", id, "materials")
    BY <1>5 DEF Begin, Goto, TypeOK
  <2>2. "materials" \in Directories
    BY DEF Directories
  <2> QED BY <1>1, <1>2, <1>5, <2>1, <2>2 DEF Placed, Asks
<1>6. CASE store = "config"
  <2>1. \/ pc'[a] = "look" /\ req'[a] = Call("ensure", None, "config")
        \/ pc'[a] = "temporary" /\ req'[a] = Call("save", None, "config")
    BY <1>6 DEF Begin, Goto, TypeOK
  <2>2. "config" \in Directories
    BY DEF Directories
  <2> QED BY <1>1, <1>2, <1>6, <2>1, <2>2 DEF Placed, Asks
<1> QED BY <1>3, <1>4, <1>5, <1>6 DEF Begin

LEMMA OpenPlaces ==
  ASSUME TypeOK, CallInv, NEW a \in Actor, OpenDirectory(a)
  PROVE  /\ Placed(store, a, pc'[a], req'[a])
         /\ req'[a].sure = req[a].sure /\ req'[a].d = req[a].d /\ req'[a].id = req[a].id /\ req'[a].n = req[a].n
         /\ req'[a].there = (dir[Target(a)] # None)
<1>1. pc[a] = "open" /\ a \in User[store] /\ Asks(store, req[a])
  BY DEF OpenDirectory, CallInv
<1>2. /\ req'[a].kind = req[a].kind /\ req'[a].id = req[a].id /\ req'[a].n = req[a].n
      /\ req'[a].d = req[a].d /\ req'[a].sure = req[a].sure
      /\ req'[a].there = (dir[Target(a)] # None)
  BY DEF OpenDirectory, TypeOK, Requests
<1>3. Asks(store, req'[a])
  BY <1>1, <1>2 DEF Asks
<1>4. pc'[a] = CASE req[a].d = "blobs" -> "look" [] req[a].d = "materials" -> "flock" [] OTHER -> "temporary"
  BY DEF OpenDirectory, Goto, TypeOK
<1>5. pc'[a] \in {"look", "flock", "temporary"} /\ (pc'[a] = "flock" => req[a].d = "materials")
  BY <1>4
<1> QED BY <1>1, <1>2, <1>3, <1>5 DEF Placed

LEMMA CallStep == TypeOK /\ CallInv /\ [Next]_vars => CallInv'
<1> SUFFICES ASSUME TypeOK, CallInv, [Next]_vars PROVE \A a \in Actor : Placed(store', a, pc'[a], req'[a])
  BY DEF CallInv, Placed
<1>0. \A a \in Actor : Placed(store, a, pc[a], req[a])
  BY CallInvIs
<1>1. ASSUME NEW a \in Actor, Step(a) PROVE \A b \in Actor : Placed(store', b, pc'[b], req'[b])
  <2>1. Others(a) /\ store' = store
    BY <1>1, StepsAlone
  <2>2. CASE Ended(a)
    BY <1>0, <2>1, <2>2 DEF Others, Ended, Placed
  <2>3. CASE Begin(a)
    BY <1>0, <2>1, <2>3, BeginPlaces DEF Others
  <2>4. CASE OpenDirectory(a)
    BY <1>0, <2>1, <2>4, OpenPlaces DEF Others
  <2>5. CASE (\E sure : Settle(a, sure)) /\ pc[a] # "idle"
    BY <1>0, <2>1, <2>5, SettlePlaces DEF Others
  <2>6. CASE Fail(a)
    BY <2>2, <2>6, Leaves DEF Fail
  <2>7. ASSUME pc[a] # "idle", NEW step \in Places \ {"idle", "alias"}, Goto(a, step), req' = req,
               step \in {"flock", "reconcile"} => req[a].d = "materials",
               step = "unlink" => req[a].kind # "save"
        PROVE  \A b \in Actor : Placed(store', b, pc'[b], req'[b])
    <3>1. Same(a, step)
      BY <2>7, Goes
    <3>2. Placed(store, a, pc'[a], req'[a])
      BY <1>0, <2>7, <3>1 DEF Same, Placed
    <3> QED BY <1>0, <2>1, <3>2 DEF Others
  <2>8. CASE ReadAlias(a) \/ TakeFlock(a) \/ Reconcile(a) \/ GiveUp(a)
    <3>1. pc[a] = "flock" => req[a].d = "materials"
      BY DEF CallInv
    <3> QED BY <2>6, <2>7, <2>8, <3>1 DEF ReadAlias, TakeFlock, Reconcile, GiveUp, Keep, Places
  <2>9. CASE Look(a)
    BY <2>5, <2>6, <2>7, <2>9 DEF Look, Keep, Adopt, Places
  <2>10. CASE CreateTemporary(a) \/ WriteTemporary(a) \/ LinkNew(a) \/ Rename(a) \/ Unlink(a)
    BY <2>6, <2>7, <2>10 DEF CreateTemporary, WriteTemporary, LinkNew, Rename, Unlink, Keep, Places
  <2>11. CASE \/ LoseTemporary(a) \/ LinkExists(a) \/ LinkFails(a) \/ LinkUnverified(a)
              \/ UnlinkFails(a) \/ SyncDirectory(a) \/ SyncFails(a)
    BY <2>5, <2>6, <2>11
    DEF LoseTemporary, LinkExists, LinkFails, LinkUnverified, UnlinkFails, SyncDirectory, SyncFails, Adopt
  <2> QED BY <1>1, <2>3, <2>4, <2>8, <2>9, <2>10, <2>11 DEF Step
<1>2. ASSUME NEW dead, Die(dead), store' = store PROVE \A b \in Actor : Placed(store', b, pc'[b], req'[b])
  <2>1. \A a \in Actor : Ended(a) \/ (pc'[a] = pc[a] /\ req'[a] = req[a])
    BY <1>2, Deaths
  <2> QED BY <1>0, <1>2, <2>1 DEF Ended, Placed
<1>3. ASSUME NEW p \in Proc, Kill(p) PROVE \A b \in Actor : Placed(store', b, pc'[b], req'[b])
  BY <1>2, <1>3 DEF Kill, Mishap
<1>4. CASE PowerLoss
  BY <1>2, <1>4 DEF PowerLoss
<1>5. CASE UNCHANGED vars
  BY <1>0, <1>5 DEF vars
<1> QED BY <1>1, <1>3, <1>4, <1>5 DEF Next

-----------------------------------------------------------------------------
(* The lock of the evidence store. *)

Busy(a) == Writing(a) \/ Linked(a)

LEMMA LockStep == TypeOK /\ CallInv /\ LockInv /\ [Next]_vars => LockInv'
<1> SUFFICES ASSUME TypeOK, CallInv, LockInv, [Next]_vars, store' = "evidence"
             PROVE  \A a \in Actor : Busy(a)' => mu'[Home[a]] = a
  BY DEF LockInv, Busy
<1>0. ASSUME NEW a \in Actor, store = "evidence", Busy(a) PROVE mu[Home[a]] = a
  BY <1>0 DEF LockInv, Busy
<1>h. \A a \in Actor : Home[a] \in Proc
  BY DEF Proc
<1>1. ASSUME NEW a \in Actor, Step(a) PROVE \A b \in Actor : Busy(b)' => mu'[Home[b]] = b
  <2>1. Others(a) /\ store = "evidence"
    BY <1>1, StepsAlone
  <2>2. ASSUME pc'[a] \in {"idle", "open"}, \A p \in Proc : mu'[p] = IF mu[p] = a THEN None ELSE mu[p]
        PROVE  \A b \in Actor : Busy(b)' => mu'[Home[b]] = b
    BY <1>0, <1>h, <2>1, <2>2 DEF Others, Busy, Writing, Linked
  <2>3. ASSUME mu' = mu, Busy(a)' => Busy(a)
        PROVE  \A b \in Actor : Busy(b)' => mu'[Home[b]] = b
    BY <1>0, <2>1, <2>3 DEF Others, Busy, Writing, Linked
  <2>4. CASE Fail(a)
    BY <2>2, <2>4, Leaves DEF Fail, Ended
  <2>5. CASE \E sure : Settle(a, sure)
    BY <2>2, <2>5, Settles DEF Returns, GoesBehind, Ended
  <2>6. CASE Begin(a)
    <3>1. mu' = mu /\ pc'[a] \in {"open", "alias"}
      BY <2>1, <2>6 DEF Begin, Goto, TypeOK
    <3> QED BY <2>3, <3>1 DEF Busy, Writing, Linked
  <2>7. CASE OpenDirectory(a)
    <3>1. mu' = mu
      BY <2>7 DEF OpenDirectory, locks
    <3>2. pc'[a] \in {"look", "flock", "temporary"}
      BY <2>7 DEF OpenDirectory, Goto, TypeOK
    <3> QED BY <2>3, <3>1, <3>2 DEF Busy, Writing, Linked
  <2>8. CASE CreateTemporary(a)
    <3>1. mu[Home[a]] \in {None, a} /\ mu' = [mu EXCEPT ![Home[a]] = a]
      BY <2>8 DEF CreateTemporary, Free
    <3>2. \A b \in Actor : b # a /\ Busy(b) => Home[b] # Home[a]
      BY <1>0, <2>1, <3>1, NamesAssumption
    <3>3. mu'[Home[a]] = a /\ \A p \in Proc : p # Home[a] => mu'[p] = mu[p]
      BY <1>h, <3>1 DEF TypeOK
    <3> QED BY <1>0, <1>h, <2>1, <3>2, <3>3 DEF Others, Busy, Writing, Linked
  <2>9. ASSUME NEW step, Goto(a, step), req' = req, mu' = mu, step \in {"write", "link", "unlink", "sync"} => Busy(a)
        PROVE  \A b \in Actor : Busy(b)' => mu'[Home[b]] = b
    BY <2>3, <2>9, Goes DEF Same, Busy, Writing, Linked
  <2>10. CASE ReadAlias(a) \/ Look(a) \/ TakeFlock(a) \/ Reconcile(a) \/ GiveUp(a)
    BY <2>4, <2>5, <2>9, <2>10 DEF ReadAlias, Look, TakeFlock, Reconcile, GiveUp, Keep, locks, Adopt
  <2>11. CASE WriteTemporary(a) \/ LinkNew(a) \/ Rename(a) \/ Unlink(a)
    <3>1. Busy(a)
      BY <2>11 DEF WriteTemporary, LinkNew, Rename, Unlink, Busy, Writing, Linked
    <3> QED BY <2>4, <2>9, <2>11, <3>1 DEF WriteTemporary, LinkNew, Rename, Unlink, Keep, locks
  <2>12. CASE \/ LoseTemporary(a) \/ LinkExists(a) \/ LinkFails(a) \/ LinkUnverified(a)
              \/ UnlinkFails(a) \/ SyncDirectory(a) \/ SyncFails(a)
    BY <2>4, <2>5, <2>12
    DEF LoseTemporary, LinkExists, LinkFails, LinkUnverified, UnlinkFails, SyncDirectory, SyncFails, Adopt
  <2> QED BY <1>1, <2>6, <2>7, <2>8, <2>10, <2>11, <2>12 DEF Step
<1>2. ASSUME NEW dead, Die(dead), store' = store PROVE \A b \in Actor : Busy(b)' => mu'[Home[b]] = b
  BY <1>0, <1>h, <1>2, Deaths DEF Ended, Busy, Writing, Linked
<1>3. CASE \E p \in Proc : Kill(p)
  BY <1>2, <1>3 DEF Kill, Mishap
<1>4. CASE PowerLoss
  BY <1>2, <1>4 DEF PowerLoss
<1>5. CASE UNCHANGED vars
  BY <1>0, <1>5 DEF vars, locks, Busy, Writing, Linked
<1> QED BY <1>1, <1>3, <1>4, <1>5 DEF Next

\* Beside a call of the evidence store that may take the lock nobody is busy.
LEMMA NobodyElse ==
  ASSUME OneProcess, CallInv, LockInv, store = "evidence", NEW a \in Actor, pc[a] # "idle", Free(a) \/ Busy(a),
         NEW b \in Actor, b # a
  PROVE  ~ Busy(b)
<1>1. SUFFICES ASSUME Busy(b) PROVE FALSE
  OBVIOUS
<1>2. pc[b] # "idle"
  BY <1>1 DEF Busy, Writing, Linked
<1>3. Home[a] = Home[b]
  BY <1>2 DEF CallInv, OneProcess
<1>4. mu[Home[b]] = b /\ mu[Home[a]] \in {None, a}
  BY <1>1 DEF LockInv, Busy, Free
<1> QED BY <1>3, <1>4, NamesAssumption

-----------------------------------------------------------------------------
(* What a step does to the files. *)

\* Final names keep their files; a directory may be synchronised.
Kept == \A n \in Final : dir'[n] = dir[n] /\ (disk'[n] = disk[n] \/ disk'[n] = dir[n])

LEMMA GoneKeeps ==
  ASSUME TypeOK, NEW names, Gone(names), names \cap Final = {}
  PROVE  \A n \in Final : dir'[n] = dir[n]
BY FinalIsNoTemporary DEF Gone

LEMMA SyncedIs ==
  ASSUME TypeOK, NEW d, Synced(d)
  PROVE  \A n \in Final : disk'[n] = IF n[1] = d THEN dir'[n] ELSE disk[n]
BY FinalIsNoTemporary DEF Synced

LEMMA CleanKeeps ==
  ASSUME TypeOK, NEW a \in Actor, NEW names, Clean(a, names), names \cap Final = {}
  PROVE  Kept
<1>1. \A n \in Final : dir'[n] = dir[n]
  BY GoneKeeps DEF Clean
<1>2. CASE Synced(req[a].d)
  BY <1>1, <1>2, SyncedIs DEF Kept
<1>3. CASE UNCHANGED disk
  BY <1>1, <1>3 DEF Kept
<1> QED BY <1>2, <1>3 DEF Clean

LEMMA PutKeeps ==
  ASSUME TypeOK, NEW n \in Name \ Final, NEW file, Put(n, file)
  PROVE  \A m \in Final : dir'[m] = dir[m]
BY FinalIsNoTemporary DEF Put, TypeOK

-----------------------------------------------------------------------------
(* Temporaries. *)

LEMMA TemporariesDiffer ==
  ASSUME NEW d, NEW e, NEW a, NEW b, Temp(d, a) = Temp(e, b) PROVE d = e /\ a = b
<1>1. Temp(d, a)[1] = d /\ Temp(d, a)[3] = a /\ Temp(e, b)[1] = e /\ Temp(e, b)[3] = b
  BY DEF Temp
<1> QED BY <1>1

\* A step of another call leaves a temporary alone, or removes it; that of a
\* configuration it leaves alone.
LEMMA TemporariesKept ==
  ASSUME TypeOK, CallInv, NEW b \in Actor, Step(b), NEW a \in Actor, a # b, NEW d \in Directories
  PROVE  /\ dir'[Temp(d, a)] \in {dir[Temp(d, a)], None}
         /\ d = "config" => dir'[Temp(d, a)] = dir[Temp(d, a)]
<1> DEFINE m == Temp(d, a)
<1>1. m \in Name /\ m \notin Final /\ m # Mine(b)
  BY FinalIsNoTemporary, TemporariesDiffer DEF Mine
<1> HIDE DEF m
<1>2. pc[b] # "idle" => Target(b) \in Final
  BY TargetIsFinal DEF CallInv, Target
<1>3. ASSUME UNCHANGED dir PROVE dir'[m] = dir[m]
  BY <1>3
<1>4. ASSUME NEW names, Gone(names), m \notin names PROVE dir'[m] = dir[m]
  BY <1>1, <1>4 DEF Gone
<1>5. ASSUME NEW names, Gone(names) PROVE dir'[m] \in {dir[m], None}
  BY <1>1, <1>5 DEF Gone
<1>6. ASSUME NEW n, NEW file, Put(n, file), m # n PROVE dir'[m] = dir[m]
  BY <1>1, <1>6 DEF Put, TypeOK
<1>7. ASSUME NEW other, other \in {"artifacts", "materials"}, d = "config" PROVE m \notin Temps(other)
  BY <1>7, TemporariesDiffer DEF Temps, m
<1>8. CASE OpenDirectory(b)
  <2>1. CASE req[b].d = "artifacts"
    BY <1>4, <1>5, <1>7, <1>8, <2>1 DEF OpenDirectory, m
  <2>2. CASE req[b].d # "artifacts"
    BY <1>3, <1>8, <2>2 DEF OpenDirectory, m
  <2> QED BY <2>1, <2>2
<1>9. CASE Reconcile(b)
  BY <1>4, <1>5, <1>7, <1>9 DEF Reconcile, m
<1>10. CASE Begin(b) \/ ReadAlias(b) \/ Look(b) \/ TakeFlock(b) \/ GiveUp(b) \/ SyncDirectory(b)
  BY <1>3, <1>10 DEF Begin, ReadAlias, Look, TakeFlock, GiveUp, SyncDirectory, m
<1>11. CASE CreateTemporary(b) \/ LinkNew(b)
  BY <1>1, <1>2, <1>6, <1>11 DEF CreateTemporary, LinkNew, m
<1>12. CASE Rename(b)
  BY <1>1, <1>2, <1>12 DEF Rename, TypeOK, m
<1>13. CASE Unlink(b)
  BY <1>1, <1>4, <1>13 DEF Unlink, m
<1>14. CASE WriteTemporary(b)
  BY <1>1, <1>4, <1>6, <1>14 DEF WriteTemporary, Clean, m
<1>15. CASE \/ LoseTemporary(b) \/ LinkExists(b) \/ LinkFails(b) \/ LinkUnverified(b) \/ UnlinkFails(b) \/ SyncFails(b)
  <2>1. pc[b] # "idle"
    BY <1>15 DEF LoseTemporary, LinkExists, LinkFails, LinkUnverified, UnlinkFails, SyncFails
  <2>2. \A names : names \subseteq {Target(b), Mine(b)} => m \notin names
    BY <1>1, <1>2, <2>1
  <2>3. (\E names : names \subseteq {Target(b), Mine(b)} /\ Gone(names)) \/ UNCHANGED dir
    BY <1>15 DEF LoseTemporary, LinkExists, LinkFails, LinkUnverified, UnlinkFails, SyncFails, Clean
  <2> QED BY <1>3, <1>4, <2>2, <2>3 DEF m
<1> QED BY <1>8, <1>9, <1>10, <1>11, <1>12, <1>13, <1>14, <1>15 DEF Step

\* What TemporaryInv says of one call.
Held(step, r, file) ==
  /\ step \in {"write", "link"} /\ file # None => file.n = r.n
  /\ step = "link" /\ file # None => file.whole
  /\ step \in {"write", "link", "unlink"} /\ r.d = "config" => file # None

LEMMA TemporaryInvIs == TemporaryInv <=> \A a \in Actor : Held(pc[a], req[a], dir[Mine(a)])
BY DEF TemporaryInv, Held, Writing

LEMMA WrittenHeld ==
  ASSUME NEW step, NEW r, NEW whole, NEW file, file = [n |-> r.n, whole |-> whole], file # None,
         step = "link" => whole
  PROVE  Held(step, r, file)
<1>1. file.n = r.n /\ file.whole = whole
  OBVIOUS
<1> QED BY <1>1 DEF Held

\* A call's own steps.
LEMMA OwnTemporary ==
  ASSUME TypeOK, CallInv, TemporaryInv, NEW a \in Actor, Step(a)
  PROVE  Held(pc'[a], req'[a], dir'[Mine(a)'])
<1>0. Held(pc[a], req[a], dir[Mine(a)])
  BY TemporaryInvIs
<1>1. ASSUME pc'[a] \notin {"write", "link", "unlink"} PROVE Held(pc'[a], req'[a], dir'[Mine(a)'])
  BY <1>1 DEF Held
<1>2. CASE Fail(a)
  BY <1>1, <1>2, Leaves DEF Fail, Ended
<1>3. CASE \E sure : Settle(a, sure)
  BY <1>1, <1>3, Settles DEF Returns, GoesBehind, Ended
<1>4. CASE \E step : step \notin {"write", "link", "unlink"} /\ Goto(a, step)
  BY <1>1, <1>4 DEF Goto, TypeOK
<1>5. CASE Begin(a) \/ OpenDirectory(a)
  BY <1>4, <1>5 DEF Begin, OpenDirectory
<1>6. CASE ReadAlias(a) \/ Look(a) \/ TakeFlock(a) \/ Reconcile(a) \/ GiveUp(a)
  BY <1>2, <1>3, <1>4, <1>6 DEF ReadAlias, Look, TakeFlock, Reconcile, GiveUp, Adopt
<1>7. CASE Rename(a) \/ Unlink(a)
  BY <1>4, <1>7 DEF Rename, Unlink
<1>8. CASE \/ LoseTemporary(a) \/ LinkExists(a) \/ LinkFails(a) \/ LinkUnverified(a)
           \/ UnlinkFails(a) \/ SyncDirectory(a) \/ SyncFails(a)
  BY <1>2, <1>3, <1>8
  DEF LoseTemporary, LinkExists, LinkFails, LinkUnverified, UnlinkFails, SyncDirectory, SyncFails, Adopt
<1>9. pc[a] # "idle" => Target(a) \in Final /\ Mine(a) \in Name \ Final
  BY TargetIsFinal, MineIsName DEF CallInv, Target
<1>10. \A whole \in BOOLEAN : None # [n |-> req[a].n, whole |-> whole]
  <2>1. req[a].n \in Nat
    BY BoundsAssumption DEF TypeOK, Requests
  <2> QED BY <2>1, NamesAssumption DEF File
<1>11. CASE CreateTemporary(a)
  <2>1. pc'[a] = "write" /\ req'[a] = req[a] /\ Mine(a)' = Mine(a)
    BY <1>11 DEF CreateTemporary, Goto, TypeOK, Mine
  <2>2. dir'[Mine(a)] = [n |-> req[a].n, whole |-> FALSE]
    BY <1>9, <1>11 DEF CreateTemporary, Put, TypeOK
  <2> QED BY <1>10, <2>1, <2>2, WrittenHeld
<1>12. CASE WriteTemporary(a)
  <2>1. CASE Put(Mine(a), [n |-> req[a].n, whole |-> TRUE]) /\ Goto(a, "link") /\ Keep
    <3>1. pc'[a] = "link" /\ req'[a] = req[a] /\ Mine(a)' = Mine(a)
      BY <2>1 DEF Keep, Goto, TypeOK, Mine
    <3>2. dir'[Mine(a)] = [n |-> req[a].n, whole |-> TRUE]
      BY <1>9, <1>12, <2>1 DEF WriteTemporary, Put, TypeOK
    <3> QED BY <1>10, <3>1, <3>2, WrittenHeld
  <2> QED BY <1>2, <1>12, <2>1 DEF WriteTemporary
<1>13. CASE LinkNew(a)
  <2>1. pc[a] = "link" /\ pc'[a] = "unlink" /\ req'[a] = req[a] /\ Mine(a)' = Mine(a)
    BY <1>13 DEF LinkNew, Keep, Goto, TypeOK, Mine
  <2>2. dir'[Mine(a)] = dir[Mine(a)]
    BY <1>9, <1>13, <2>1 DEF LinkNew, Put, TypeOK
  <2> QED BY <1>0, <2>1, <2>2 DEF Held
<1> QED BY <1>5, <1>6, <1>7, <1>8, <1>11, <1>12, <1>13 DEF Step

LEMMA TemporaryStep == TypeOK /\ CallInv /\ TemporaryInv /\ [Next]_vars => TemporaryInv'
<1> SUFFICES ASSUME TypeOK, CallInv, TemporaryInv, [Next]_vars
             PROVE  \A a \in Actor : Held(pc'[a], req'[a], dir'[Mine(a)'])
  BY DEF TemporaryInv, Held, Writing
<1>0. \A a \in Actor : Held(pc[a], req[a], dir[Mine(a)])
  BY TemporaryInvIs
<1>1. ASSUME NEW b \in Actor, Step(b), NEW a \in Actor PROVE Held(pc'[a], req'[a], dir'[Mine(a)'])
  <2>1. CASE a = b
    BY <1>1, <2>1, OwnTemporary
  <2>2. CASE a # b
    <3>1. pc'[a] = pc[a] /\ req'[a] = req[a] /\ Mine(a)' = Mine(a)
      BY <1>1, <2>2, StepsAlone DEF Others, Mine
    <3>2. CASE pc[a] = "idle"
      BY <3>1, <3>2 DEF Held
    <3>3. CASE pc[a] # "idle"
      <4>1. req[a].d \in Directories
        BY <3>3, TargetIsFinal DEF CallInv
      <4>2. /\ dir'[Mine(a)] \in {dir[Mine(a)], None}
            /\ req[a].d = "config" => dir'[Mine(a)] = dir[Mine(a)]
        BY <1>1, <2>2, <4>1, TemporariesKept DEF Mine
      <4> QED BY <1>0, <3>1, <4>2 DEF Held
    <3> QED BY <3>2, <3>3
  <2> QED BY <2>1, <2>2
<1>2. ASSUME NEW p \in Proc, Kill(p), NEW a \in Actor PROVE Held(pc'[a], req'[a], dir'[Mine(a)'])
  <2>1. /\ Ended(a) \/ (pc'[a] = pc[a] /\ req'[a] = req[a] /\ Mine(a)' = Mine(a))
        /\ dir' = dir
    BY <1>2, Deaths DEF Kill, Mine
  <2> QED BY <1>0, <1>2, <2>1 DEF Held, Ended
<1>3. ASSUME PowerLoss, NEW a \in Actor PROVE Held(pc'[a], req'[a], dir'[Mine(a)'])
  <2>1. Ended(a)
    BY <1>3, Deaths DEF PowerLoss, Proc
  <2> QED BY <2>1 DEF Held, Ended
<1>4. ASSUME UNCHANGED vars, NEW a \in Actor PROVE Held(pc'[a], req'[a], dir'[Mine(a)'])
  BY <1>0, <1>4 DEF vars, Mine
<1> QED BY <1>1, <1>2, <1>3, <1>4 DEF Next

-----------------------------------------------------------------------------
(* The kinds of steps, by what they do to final names and promises. *)

Quiet(a) ==
  /\ Kept /\ UNCHANGED <<promised, loose>>
  /\ req'[a] = req[a] \/ (req'[a].sure = {} /\ req'[a].there = FALSE /\ req'[a].d \notin {"records", "aliases"})
  /\ Linked(a)' <=> Linked(a)
  /\ Linked(a) => req'[a] = req[a]
  /\ store = "evidence" /\ pc'[a] \in Past => pc[a] \in Past /\ req'[a] = req[a]

\* A call finds its target in the evidence store and takes it as it is.
Adopts(a) ==
  /\ Kept /\ UNCHANGED loose
  /\ store = "evidence" /\ pc[a] \in {"look", "link"} /\ (Free(a) \/ Busy(a))
  /\ dir[Target(a)] # None
  /\ Returns(a, Sure(a)) \/ GoesBehind(a, Sure(a))

\* A call synchronises the directory of its target.
Synchronises(a) ==
  /\ pc[a] = "sync" /\ UNCHANGED <<dir, loose>> /\ Synced(req[a].d)
  /\ Returns(a, {Target(a)}) \/ GoesBehind(a, {Target(a)})

\* A call takes back what it has linked.
TakesBack(a) ==
  /\ Linked(a) /\ req[a].d # "config" /\ Ended(a) /\ UNCHANGED <<promised, loose>>
  /\ dir'[Target(a)] = None
  /\ \A n \in Final : /\ n # Target(a) => dir'[n] = dir[n]
                      /\ disk'[n] = disk[n] \/ disk'[n] = dir'[n]

\* A call leaves what it has linked, which may not be durable.
Slips(a) ==
  /\ Kept /\ Linked(a) /\ Ended(a) /\ UNCHANGED promised
  /\ loose' = TRUE \/ (store # "evidence" /\ loose' = loose)

Links(a) ==
  /\ pc[a] = "link" /\ Same(a, "unlink") /\ UNCHANGED <<promised, loose>>
  /\ dir[Target(a)] = None /\ dir[Mine(a)] # None /\ dir'[Target(a)] = dir[Mine(a)]
  /\ \A n \in Final : (n # Target(a) => dir'[n] = dir[n]) /\ disk'[n] = disk[n]

Replaces(a) ==
  /\ pc[a] = "link" /\ Same(a, "sync") /\ UNCHANGED <<promised, loose>>
  /\ req[a].d = "config" /\ req[a].kind = "save" /\ Target(a) = Config
  /\ dir[Mine(a)] # None /\ dir'[Config] = dir[Mine(a)]
  /\ \A n \in Final : (n # Config => dir'[n] = dir[n]) /\ disk'[n] = disk[n]

Change(a) ==
  Quiet(a) \/ OpenDirectory(a) \/ Adopts(a) \/ Synchronises(a) \/ TakesBack(a) \/ Slips(a) \/ Links(a) \/ Replaces(a)

\* A call that is not linked leaves, or moves on, and nothing else happens.
LEMMA EndQuiet ==
  ASSUME TypeOK, CallInv, NEW a \in Actor, Kept, UNCHANGED loose, Fail(a), ~ Linked(a)
  PROVE  Quiet(a)
<1>1. Ended(a) /\ promised' = promised
  BY Leaves DEF Fail
<1>2. req'[a].sure = {} /\ req'[a].there = FALSE /\ req'[a].d = None
  BY <1>1 DEF Ended, NoCall
<1>3. None \notin {"records", "aliases"}
  BY NamesAssumption DEF Directories
<1> QED BY <1>1, <1>2, <1>3 DEF Quiet, Ended, Linked, Past

LEMMA MoveQuiet ==
  ASSUME TypeOK, NEW a \in Actor, NEW step, Goto(a, step), req' = req, Kept, UNCHANGED <<promised, loose>>,
         step \in {"unlink", "sync"} <=> Linked(a),
         store = "evidence" /\ step \in Past => pc[a] \in Past
  PROVE  Quiet(a)
<1>1. Same(a, step)
  BY Goes
<1> QED BY <1>1 DEF Same, Quiet, Linked

LEMMA UnchangedKept == UNCHANGED <<dir, disk>> => Kept
BY DEF Kept

LEMMA BeginQuiet == ASSUME TypeOK, CallInv, NEW a \in Actor, Begin(a) PROVE Quiet(a)
<1>1. calls \in 0..MaxCalls /\ calls < MaxCalls /\ pc[a] = "idle"
  BY DEF Begin, TypeOK
<1>2. PICK kind \in {"put", "migrate", "artifact", "material", "ensure", "save"}, id \in Id \cup {None},
           d \in Directories \ {"records", "aliases"}, step \in {"open", "alias", "look", "temporary"} :
        /\ Goto(a, step) /\ req' = [req EXCEPT ![a] = Call(kind, id, d)]
        /\ store = "evidence" => step \in {"open", "alias"}
  BY DEF Begin, Directories
<1>3. pc'[a] = step /\ req'[a] = Call(kind, id, d)
  BY <1>2 DEF Goto, TypeOK
<1>4. req'[a].sure = {} /\ req'[a].there = FALSE /\ req'[a].d = d
  BY <1>1, <1>3, CallIsRequest
<1>5. Kept /\ UNCHANGED <<promised, loose>>
  BY UnchangedKept DEF Begin
<1> QED BY <1>1, <1>2, <1>3, <1>4, <1>5 DEF Quiet, Linked, Past

LEMMA TempsAreNotFinal == \A d \in Directories : Temps(d) \cap Final = {}
BY FinalIsNoTemporary DEF Temps

LEMMA EvidenceOf ==
  ASSUME CallInv, NEW a \in Actor, pc[a] # "idle", req[a].d = "blobs" \/ req[a].kind = "migrate"
  PROVE  store = "evidence"
BY DEF CallInv, Asks

LEMMA LookIs ==
  ASSUME TypeOK, CallInv, NEW a \in Actor,
         ReadAlias(a) \/ Look(a) \/ TakeFlock(a) \/ Reconcile(a) \/ GiveUp(a)
  PROVE  Change(a)
<1>1. CASE ReadAlias(a)
  <2>1. Kept /\ UNCHANGED loose /\ ~ Linked(a)
    BY <1>1, UnchangedKept DEF ReadAlias, Linked
  <2>2. CASE Goto(a, "open") /\ Keep
    BY <2>1, <2>2, MoveQuiet DEF Keep, Past, Change
  <2> QED BY <1>1, <2>1, <2>2, EndQuiet DEF ReadAlias, Change
<1>2. CASE Look(a)
  <2>1. Kept /\ UNCHANGED loose /\ ~ Linked(a) /\ pc[a] = "look" /\ Free(a)
    BY <1>2, UnchangedKept DEF Look, Linked
  <2>2. CASE Adopt(a) /\ dir[Target(a)] # None /\ req[a].d = "blobs"
    <3>1. Returns(a, Sure(a)) \/ GoesBehind(a, Sure(a))
      BY <2>2, Settles DEF Adopt, Sure
    <3> QED BY <2>1, <2>2, <3>1, EvidenceOf DEF Adopts, Change
  <2>3. ASSUME NEW step \in {"open", "temporary", "flock"}, Goto(a, step), Keep PROVE Change(a)
    BY <2>1, <2>3, MoveQuiet DEF Keep, Past, Change
  <2> QED BY <1>2, <2>1, <2>2, <2>3, EndQuiet DEF Look, Change
<1>3. CASE TakeFlock(a)
  BY <1>3, UnchangedKept, MoveQuiet DEF TakeFlock, Linked, Past, Change
<1>4. CASE Reconcile(a)
  <2>1. ~ Linked(a) /\ UNCHANGED loose /\ req[a].d = "materials" /\ store # "evidence"
    BY <1>4 DEF Reconcile, Linked, CallInv, Asks
  <2>2. Kept
    <3>1. "materials" \in Directories
      BY DEF Directories
    <3>2. \A n \in Final : dir'[n] = dir[n]
      BY <1>4, <3>1, TempsAreNotFinal, GoneKeeps DEF Reconcile
    <3> QED BY <1>4, <3>2, SyncedIs DEF Reconcile, Kept
  <2>3. CASE Goto(a, "temporary") /\ Keep
    BY <2>1, <2>2, <2>3, MoveQuiet DEF Keep, Change
  <2> QED BY <1>4, <2>1, <2>2, <2>3, EndQuiet DEF Reconcile, Change
<1>5. CASE GiveUp(a)
  BY <1>5, UnchangedKept, EndQuiet DEF GiveUp, Linked, Change
<1> QED BY <1>1, <1>2, <1>3, <1>4, <1>5

LEMMA FileIs ==
  ASSUME TypeOK, CallInv, TemporaryInv, NEW a \in Actor,
         CreateTemporary(a) \/ WriteTemporary(a) \/ LinkNew(a) \/ Rename(a) \/ Unlink(a)
  PROVE  Change(a)
<1>1. pc[a] # "idle"
  BY DEF CreateTemporary, WriteTemporary, LinkNew, Rename, Unlink
<1>2. Target(a) \in Final /\ Mine(a) \in Name \ Final
  BY <1>1, TargetIsFinal, MineIsName DEF CallInv, Target
<1>3. CASE CreateTemporary(a)
  <2>1. Kept
    BY <1>2, <1>3, PutKeeps DEF CreateTemporary, Kept
  <2> QED BY <1>3, <2>1, MoveQuiet DEF CreateTemporary, Linked, Past, Change
<1>4. CASE WriteTemporary(a)
  <2>1. CASE Put(Mine(a), [n |-> req[a].n, whole |-> TRUE]) /\ Goto(a, "link") /\ Keep /\ UNCHANGED disk
    <3>1. Kept
      BY <1>2, <2>1, PutKeeps DEF Kept
    <3> QED BY <1>4, <2>1, <3>1, MoveQuiet DEF WriteTemporary, Keep, Linked, Past, Change
  <2>2. CASE Clean(a, {Mine(a)}) /\ Fail(a)
    <3>1. Kept
      BY <1>2, <2>2, CleanKeeps
    <3> QED BY <1>4, <2>2, <3>1, EndQuiet DEF WriteTemporary, Linked, Change
  <2> QED BY <1>4, <2>1, <2>2 DEF WriteTemporary
<1>5. CASE LinkNew(a)
  <2>1. dir' = [dir EXCEPT ![Target(a)] = dir[Mine(a)]] /\ disk' = disk
    BY <1>5 DEF LinkNew, Put
  <2>2. dir'[Target(a)] = dir[Mine(a)] /\ \A n \in Final : n # Target(a) => dir'[n] = dir[n]
    BY <1>2, <2>1, FinalIsNoTemporary DEF TypeOK
  <2>3. Same(a, "unlink")
    BY <1>5, Goes DEF LinkNew, Keep
  <2> QED BY <1>5, <2>1, <2>2, <2>3 DEF LinkNew, Keep, Links, Change
<1>6. CASE Rename(a)
  <2>1. req[a].kind = "save" /\ pc[a] = "link" /\ req[a].d = "config"
    BY <1>1, <1>6 DEF Rename, CallInv, Asks
  <2>2. Target(a) = Config
    BY <2>1 DEF Target, TargetOf
  <2>3. dir[Mine(a)] # None
    BY <2>1 DEF TemporaryInv, Writing
  <2>4. dir'[Config] = dir[Mine(a)] /\ \A n \in Final : n # Config => dir'[n] = dir[n]
    BY <1>2, <1>6, <2>2, FinalIsNoTemporary DEF Rename, TypeOK
  <2>5. Same(a, "sync")
    BY <1>6, Goes DEF Rename, Keep
  <2> QED BY <1>6, <2>1, <2>2, <2>3, <2>4, <2>5 DEF Rename, Keep, Replaces, Change
<1>7. CASE Unlink(a)
  <2>1. Kept
    BY <1>2, <1>7, GoneKeeps DEF Unlink, Kept
  <2> QED BY <1>7, <2>1, MoveQuiet DEF Unlink, Keep, Linked, Past, Change
<1> QED BY <1>3, <1>4, <1>5, <1>6, <1>7

\* A call removes what it has linked, and its temporary, or not.
LEMMA CleanTakesBack ==
  ASSUME TypeOK, NEW a \in Actor, Target(a) \in Final, Linked(a), req[a].d # "config", Fail(a), UNCHANGED loose,
         NEW names, Clean(a, names), Target(a) \in names, \A n \in Final : n \in names => n = Target(a)
  PROVE  TakesBack(a)
<1>1. Ended(a) /\ promised' = promised
  BY Leaves DEF Fail
<1>2. dir' = [n \in Name |-> IF n \in names THEN None ELSE dir[n]]
  BY DEF Clean, Gone
<1>3. dir'[Target(a)] = None /\ \A n \in Final : n # Target(a) => dir'[n] = dir[n]
  BY <1>2, FinalIsNoTemporary
<1>4. \A n \in Final : disk'[n] = disk[n] \/ disk'[n] = dir'[n]
  BY SyncedIs DEF Clean
<1> QED BY <1>1, <1>3, <1>4 DEF TakesBack

LEMMA EndIs ==
  ASSUME TypeOK, CallInv, LockInv, TemporaryInv, NEW a \in Actor,
         \/ LoseTemporary(a) \/ LinkExists(a) \/ LinkFails(a) \/ LinkUnverified(a)
         \/ UnlinkFails(a) \/ SyncDirectory(a) \/ SyncFails(a)
  PROVE  Change(a)
<1>1. pc[a] # "idle"
  BY DEF LoseTemporary, LinkExists, LinkFails, LinkUnverified, UnlinkFails, SyncDirectory, SyncFails
<1>2. Target(a) \in Final /\ Mine(a) \in Name \ Final
  BY <1>1, TargetIsFinal, MineIsName DEF CallInv, Target
<1>3. CASE LoseTemporary(a)
  <2>1. CASE pc[a] \in {"write", "link"}
    <3>1. Clean(a, {}) /\ Fail(a) /\ UNCHANGED loose /\ ~ Linked(a)
      BY <1>3, <2>1 DEF LoseTemporary, Linked
    <3> QED BY <3>1, CleanKeeps, EndQuiet DEF Change
  <2>2. CASE pc[a] = "unlink"
    <3>1. req[a].d # "config"
      BY <1>3, <2>2 DEF LoseTemporary, TemporaryInv, Writing
    <3>2. Clean(a, {Target(a)}) /\ Fail(a) /\ UNCHANGED loose /\ Linked(a)
      BY <1>3, <2>2 DEF LoseTemporary, Linked
    <3> QED BY <1>2, <3>1, <3>2, CleanTakesBack DEF Change
  <2> QED BY <1>3, <2>1, <2>2 DEF LoseTemporary
<1>4. CASE LinkExists(a)
  <2>1. pc[a] = "link" /\ ~ Linked(a) /\ UNCHANGED loose /\ dir[Target(a)] # None
    BY <1>4 DEF LinkExists, Linked
  <2>2. Kept
    BY <1>2, <1>4, CleanKeeps DEF LinkExists
  <2>3. CASE Adopt(a) /\ (req[a].d = "blobs" \/ req[a].kind = "migrate")
    <3>1. Returns(a, Sure(a)) \/ GoesBehind(a, Sure(a))
      BY <2>3, Settles DEF Adopt, Sure
    <3> QED BY <1>1, <2>1, <2>2, <2>3, <3>1, EvidenceOf DEF Adopts, Busy, Writing, Change
  <2>4. CASE Fail(a)
    BY <2>1, <2>2, <2>4, EndQuiet DEF Change
  <2> QED BY <1>4, <2>3, <2>4 DEF LinkExists
<1>5. CASE LinkFails(a)
  BY <1>2, <1>5, CleanKeeps, EndQuiet DEF LinkFails, Linked, Change
<1>6. CASE LinkUnverified(a)
  BY <1>2, <1>6, CleanTakesBack DEF LinkUnverified, Linked, Change
<1>7. CASE UnlinkFails(a)
  <2>1. CASE req[a].d = "artifacts"
    <3>1. Clean(a, {Target(a), Mine(a)}) /\ Fail(a) /\ loose' = loose /\ Linked(a)
      BY <1>7, <2>1 DEF UnlinkFails, Linked, TypeOK
    <3> QED BY <1>2, <2>1, <3>1, CleanTakesBack DEF Change
  <2>2. CASE req[a].d # "artifacts"
    <3>1. Kept /\ Fail(a) /\ Linked(a)
      BY <1>7, <2>2, CleanKeeps DEF UnlinkFails, Linked
    <3>2. loose' = TRUE \/ (store # "evidence" /\ loose' = loose)
      BY <1>1, <1>7, <2>2 DEF UnlinkFails, TypeOK, CallInv, Asks
    <3>3. Ended(a) /\ promised' = promised
      BY <3>1, Leaves DEF Fail
    <3> QED BY <3>1, <3>2, <3>3 DEF Slips, Change
  <2> QED BY <2>1, <2>2
<1>8. CASE SyncDirectory(a)
  <2>1. Returns(a, {Target(a)}) \/ GoesBehind(a, {Target(a)})
    BY <1>8, Settles DEF SyncDirectory
  <2> QED BY <1>8, <2>1 DEF SyncDirectory, Synchronises, Change
<1>9. CASE SyncFails(a)
  <2>1. CASE req[a].d = "artifacts"
    BY <1>2, <1>9, <2>1, CleanTakesBack DEF SyncFails, Linked, Change
  <2>2. CASE req[a].d # "artifacts"
    <3>1. Kept /\ Fail(a) /\ Linked(a) /\ loose' = TRUE
      BY <1>9, <2>2, UnchangedKept DEF SyncFails, Linked
    <3>2. Ended(a) /\ promised' = promised
      BY <3>1, Leaves DEF Fail
    <3> QED BY <3>1, <3>2 DEF Slips, Change
  <2> QED BY <2>1, <2>2
<1> QED BY <1>3, <1>4, <1>5, <1>6, <1>7, <1>8, <1>9

LEMMA StepIs ==
  ASSUME TypeOK, CallInv, LockInv, TemporaryInv, NEW a \in Actor, Step(a)
  PROVE  Change(a) /\ Others(a) /\ UNCHANGED <<store, outages>>
<1>1. Others(a) /\ UNCHANGED <<store, outages>>
  BY StepsAlone
<1>2. Change(a)
  BY BeginQuiet, LookIs, FileIs, EndIs DEF Step, Change
<1> QED BY <1>1, <1>2

-----------------------------------------------------------------------------
(* Files under final names. *)

LEMMA OpenKept ==
  ASSUME TypeOK, CallInv, NEW a \in Actor, OpenDirectory(a)
  PROVE  /\ Kept /\ UNCHANGED <<promised, loose>> /\ ~ Linked(a) /\ ~ Linked(a)' /\ Free(a) /\ pc[a] # "idle"
         /\ store = "evidence" => \A n \in Final : n[1] = req[a].d => disk'[n] = dir[n]
<1>1. pc[a] = "open" /\ pc'[a] \in {"look", "flock", "temporary"} /\ Asks(store, req[a])
  BY DEF OpenDirectory, Goto, TypeOK, CallInv
<1>2. \A n \in Final : dir'[n] = dir[n]
  <2>1. CASE req[a].d = "artifacts"
    <3>1. "artifacts" \in Directories
      BY DEF Directories
    <3> QED BY <2>1, <3>1, TempsAreNotFinal, GoneKeeps DEF OpenDirectory
  <2>2. CASE req[a].d # "artifacts"
    BY <2>2 DEF OpenDirectory
  <2> QED BY <2>1, <2>2
<1>3. Kept
  BY <1>2, SyncedIs DEF OpenDirectory, Kept
<1>4. ASSUME store = "evidence", NEW n \in Final, n[1] = req[a].d PROVE disk'[n] = dir[n]
  <2>1. req[a].d # "artifacts"
    BY <1>1, <1>4 DEF Asks
  <2>2. Synced(req[a].d)
    BY <2>1 DEF OpenDirectory
  <2> QED BY <1>2, <1>4, <2>2, SyncedIs
<1> QED BY <1>1, <1>3, <1>4 DEF OpenDirectory, Linked, locks

LEMMA SyncKept ==
  ASSUME TypeOK, NEW a \in Actor, Synchronises(a)
  PROVE  /\ Kept /\ \A n \in Final : n[1] = req[a].d => disk'[n] = dir[n]
         /\ Linked(a) /\ ~ Linked(a)'
<1>1. \A n \in Final : disk'[n] = IF n[1] = req[a].d THEN dir[n] ELSE disk[n]
  BY SyncedIs DEF Synchronises
<1> QED BY <1>1 DEF Synchronises, Kept, Linked, Returns, GoesBehind, Ended

LEMMA AdoptEnds ==
  ASSUME NEW a \in Actor, Adopts(a)
  PROVE  ~ Linked(a) /\ ~ Linked(a)' /\ pc[a] # "idle" /\ pc[a] \in Past /\ pc'[a] \notin Past
BY DEF Adopts, Linked, Returns, GoesBehind, Ended, Past

\* A file stays under its name, but for the one that is taken back, linked or
\* replaced; what is durable was there.
LEMMA FilesFollow ==
  ASSUME TypeOK, CallInv, NEW a \in Actor, Change(a), NEW n \in Final
  PROVE  /\ \/ dir'[n] = dir[n]
            \/ TakesBack(a) /\ n = Target(a)
            \/ Links(a) /\ n = Target(a)
            \/ Replaces(a) /\ n = Config
         /\ disk'[n] = disk[n] \/ disk'[n] = dir'[n]
<1>1. CASE Kept
  BY <1>1 DEF Kept
<1>2. CASE OpenDirectory(a) \/ Synchronises(a)
  BY <1>1, <1>2, OpenKept, SyncKept
<1>3. CASE Quiet(a) \/ Adopts(a) \/ Slips(a)
  BY <1>1, <1>3 DEF Quiet, Adopts, Slips
<1>4. CASE TakesBack(a)
  BY <1>4 DEF TakesBack
<1>5. CASE Links(a)
  BY <1>5 DEF Links
<1>6. CASE Replaces(a)
  BY <1>6 DEF Replaces
<1> QED BY <1>2, <1>3, <1>4, <1>5, <1>6 DEF Change

LEMMA WholeKept ==
  ASSUME TypeOK, CallInv, TemporaryInv, WholeInv, NEW a \in Actor, Change(a)
  PROVE  WholeInv'
<1>1. \A n \in Final : /\ dir[n] # None => dir[n].whole
                       /\ disk[n] # None => disk[n].whole
  BY DEF WholeInv
<1>2. ASSUME NEW n \in Final, dir'[n] # None PROVE dir'[n].whole
  <2>1. CASE dir'[n] = dir[n]
    BY <1>1, <1>2, <2>1
  <2>2. CASE TakesBack(a) /\ n = Target(a)
    BY <1>2, <2>2 DEF TakesBack
  <2>3. CASE (Links(a) /\ n = Target(a)) \/ (Replaces(a) /\ n = Config)
    <3>1. pc[a] = "link" /\ dir[Mine(a)] # None /\ dir'[n] = dir[Mine(a)]
      BY <2>3 DEF Links, Replaces
    <3> QED BY <3>1 DEF TemporaryInv
  <2> QED BY <2>1, <2>2, <2>3, FilesFollow
<1>3. ASSUME NEW n \in Final, disk'[n] # None PROVE disk'[n].whole
  BY <1>1, <1>2, <1>3, FilesFollow
<1> QED BY <1>2, <1>3 DEF WholeInv

-----------------------------------------------------------------------------
(* Linked files. *)

\* Who is linked behind a step was before, or has just linked or replaced.
LEMMA LinkedBefore ==
  ASSUME TypeOK, CallInv, NEW a \in Actor, Change(a), Others(a), NEW b \in Actor, Linked(b)'
  PROVE  /\ req'[b] = req[b] /\ Target(b)' = Target(b)
         /\ Linked(b) \/ (b = a /\ (Links(a) \/ Replaces(a)))
<1>1. CASE b # a
  BY <1>1 DEF Others, Linked, Target
<1>2. CASE b = a /\ Quiet(a)
  BY <1>2 DEF Quiet, Target
<1>3. CASE b = a /\ (Links(a) \/ Replaces(a))
  BY <1>3 DEF Links, Replaces, Same, Target
<1>4. CASE b = a /\ (OpenDirectory(a) \/ Adopts(a) \/ Synchronises(a) \/ TakesBack(a) \/ Slips(a))
  BY <1>4, OpenKept, AdoptEnds, SyncKept DEF TakesBack, Slips, Ended, Linked
<1> QED BY <1>1, <1>2, <1>3, <1>4 DEF Change

LEMMA LinkedHasTarget ==
  ASSUME CallInv, NEW a \in Actor, pc[a] # "idle"
  PROVE  Target(a) \in Final /\ Target(a)[1] = req[a].d
BY TargetIsFinal DEF CallInv, Target

LEMMA LinkedKept ==
  ASSUME TypeOK, CallInv, TemporaryInv, LinkedInv, NEW a \in Actor, Change(a), Others(a)
  PROVE  LinkedInv'
<1>1. ASSUME NEW b \in Actor, Linked(b)'
      PROVE  dir'[Target(b)] # None /\ (req[b].d # "config" => dir'[Target(b)].n = req[b].n)
  <2>1. /\ req'[b] = req[b] /\ Target(b)' = Target(b)
        /\ Linked(b) \/ (b = a /\ (Links(a) \/ Replaces(a)))
    BY <1>1, LinkedBefore
  <2>2. pc[b] # "idle"
    BY <2>1 DEF Linked, Links, Replaces
  <2>3. Target(b) \in Final /\ Target(b)[1] = req[b].d
    BY <2>2, LinkedHasTarget
  <2>4. CASE b = a /\ (Links(a) \/ Replaces(a))
    <3>1. pc[a] = "link" /\ dir[Mine(a)] # None /\ dir'[Target(a)] = dir[Mine(a)]
      BY <2>4 DEF Links, Replaces
    <3>2. dir[Mine(a)].n = req[a].n
      BY <3>1 DEF TemporaryInv
    <3> QED BY <2>4, <3>1, <3>2
  <2>5. CASE Linked(b) /\ ~ (b = a /\ (Links(a) \/ Replaces(a)))
    <3>1. dir[Target(b)] # None /\ (req[b].d # "config" => dir[Target(b)].n = req[b].n)
      BY <2>5 DEF LinkedInv
    <3>2. CASE dir'[Target(b)] = dir[Target(b)]
      BY <3>1, <3>2
    <3>3. CASE TakesBack(a) /\ Target(b) = Target(a)
      <4>1. a # b
        BY <1>1, <3>3 DEF TakesBack, Ended, Linked
      <4>2. Linked(a) /\ req[a].d # "config"
        BY <3>3 DEF TakesBack
      <4> QED BY <2>5, <3>3, <4>1, <4>2 DEF LinkedInv
    <3>4. CASE Links(a) /\ Target(b) = Target(a)
      BY <3>1, <3>4 DEF Links
    <3>5. CASE Replaces(a) /\ Target(b) = Config
      BY <2>3, <3>5, ConfigIsFinal DEF Replaces
    <3> QED BY <2>3, <3>2, <3>3, <3>4, <3>5, FilesFollow
  <2> QED BY <2>1, <2>4, <2>5
<1>2. ASSUME NEW b \in Actor, NEW c \in Actor, b # c, Linked(b)', Linked(c)', req'[b].d # "config"
      PROVE  Target(b)' # Target(c)'
  <2>1. /\ req'[b] = req[b] /\ Target(b)' = Target(b)
        /\ Linked(b) \/ (b = a /\ (Links(a) \/ Replaces(a)))
    BY <1>2, LinkedBefore
  <2>2. /\ req'[c] = req[c] /\ Target(c)' = Target(c)
        /\ Linked(c) \/ (c = a /\ (Links(a) \/ Replaces(a)))
    BY <1>2, LinkedBefore
  <2>3. CASE Linked(b) /\ Linked(c)
    BY <1>2, <2>1, <2>2, <2>3 DEF LinkedInv
  <2>4. CASE b = a /\ Links(a) /\ Linked(c)
    BY <2>1, <2>2, <2>4 DEF Links, LinkedInv
  <2>5. CASE c = a /\ Links(a) /\ Linked(b)
    BY <2>1, <2>2, <2>5 DEF Links, LinkedInv
  <2>6. CASE b = a /\ Replaces(a)
    BY <1>2, <2>1, <2>6 DEF Replaces
  <2>7. CASE c = a /\ Replaces(a) /\ Linked(b)
    <3>1. Target(b)[1] = req[b].d
      BY <2>7, LinkedHasTarget DEF Linked
    <3> QED BY <1>2, <2>1, <2>2, <2>7, <3>1, ConfigIsFinal DEF Replaces
  <2> QED BY <1>2, <2>1, <2>2, <2>3, <2>4, <2>5, <2>6, <2>7
<1>3. \A b \in Actor : Linked(b)' => req'[b] = req[b] /\ Target(b)' = Target(b)
  BY LinkedBefore
<1> QED BY <1>1, <1>2, <1>3 DEF LinkedInv

-----------------------------------------------------------------------------
(* Names that are needed. *)

\* What is safe stays so: only what is not safe is taken back or linked.
LEMMA SafeKept ==
  ASSUME TypeOK, CallInv, NEW a \in Actor, Change(a), Others(a), NEW n \in Final, Safe(n)
  PROVE  Safe(n)'
<1>1. dir[n] # None /\ disk[n] # None /\ \A b \in Actor : Linked(b) /\ req[b].d # "config" => Target(b) # n
  BY DEF Safe
<1>2. dir'[n] # None
  <2>1. CASE dir'[n] = dir[n]
    BY <1>1, <2>1
  <2>2. CASE TakesBack(a) /\ n = Target(a)
    BY <1>1, <2>2 DEF TakesBack
  <2>3. CASE Links(a) /\ n = Target(a)
    BY <1>1, <2>3 DEF Links
  <2>4. CASE Replaces(a) /\ n = Config
    BY <2>4 DEF Replaces
  <2> QED BY <2>1, <2>2, <2>3, <2>4, FilesFollow
<1>3. disk'[n] # None
  BY <1>1, <1>2, FilesFollow
<1>4. ASSUME NEW b \in Actor, Linked(b)', req'[b].d # "config" PROVE Target(b)' # n
  <2>1. /\ req'[b] = req[b] /\ Target(b)' = Target(b)
        /\ Linked(b) \/ (b = a /\ (Links(a) \/ Replaces(a)))
    BY <1>4, LinkedBefore
  <2>2. CASE Linked(b)
    BY <1>1, <1>4, <2>1, <2>2
  <2>3. CASE b = a /\ Links(a)
    BY <1>1, <2>1, <2>3 DEF Links
  <2>4. CASE b = a /\ Replaces(a)
    BY <1>4, <2>1, <2>4 DEF Replaces
  <2> QED BY <2>1, <2>2, <2>3, <2>4
<1> QED BY <1>2, <1>3, <1>4 DEF Safe

\* What a step adds to the names that are vouched for.
LEMMA VouchedBefore ==
  ASSUME TypeOK, CallInv, NEW a \in Actor, Change(a), Others(a), store' = store, NEW n, Vouched(n)'
  PROVE  \/ Vouched(n)
         \/ OpenDirectory(a) /\ store = "evidence" /\ n = Target(a) /\ dir[n] # None
         \/ Adopts(a) /\ n \in Sure(a)
         \/ Synchronises(a) /\ n = Target(a)
<1>1. ASSUME NEW b \in Actor, b # a
      PROVE  /\ n \in req'[b].sure => Vouched(n)
             /\ store' = "evidence" /\ pc'[b] \in Past /\ req'[b].there /\ n = Target(b)' => Vouched(n)
  BY <1>1 DEF Others, Vouched, Target
<1>2. SUFFICES ASSUME \/ n \in promised' \/ n \in req'[a].sure
                      \/ store' = "evidence" /\ pc'[a] \in Past /\ req'[a].there /\ n = Target(a)',
                      ~ Vouched(n)
               PROVE  \/ OpenDirectory(a) /\ store = "evidence" /\ n = Target(a) /\ dir[n] # None
                      \/ Adopts(a) /\ n \in Sure(a)
                      \/ Synchronises(a) /\ n = Target(a)
  BY <1>1 DEF Vouched
<1>3. /\ n \notin promised /\ n \notin req[a].sure
      /\ ~ (store = "evidence" /\ pc[a] \in Past /\ req[a].there /\ n = Target(a))
  BY <1>2 DEF Vouched
<1>4. ASSUME req'[a].sure = {}, promised' = promised, pc'[a] \notin Past PROVE FALSE
  BY <1>2, <1>3, <1>4
<1>5. CASE Quiet(a)
  <2>1. promised' = promised /\ (req'[a] = req[a] \/ req'[a].sure = {})
    BY <1>5 DEF Quiet
  <2>2. store = "evidence" /\ pc'[a] \in Past => pc[a] \in Past /\ req'[a] = req[a] /\ Target(a)' = Target(a)
    BY <1>5 DEF Quiet, Target
  <2> QED BY <1>2, <1>3, <2>1, <2>2
<1>6. CASE OpenDirectory(a)
  <2>1. req'[a].sure = req[a].sure /\ req'[a].there = (dir[Target(a)] # None) /\ promised' = promised
    BY <1>6, OpenPlaces DEF OpenDirectory
  <2>2. Target(a)' = Target(a)
    <3>1. req'[a].d = req[a].d /\ req'[a].id = req[a].id /\ req'[a].n = req[a].n
      BY <1>6, OpenPlaces
    <3> QED BY <3>1 DEF Target, TargetOf
  <2> QED BY <1>2, <1>3, <1>6, <2>1, <2>2
<1>7. ASSUME NEW sure, Returns(a, sure) \/ GoesBehind(a, sure), n \notin sure PROVE FALSE
  <2>1. CASE Returns(a, sure)
    BY <1>2, <1>3, <1>7, <2>1 DEF Returns, Ended, NoCall, Past
  <2>2. CASE GoesBehind(a, sure)
    BY <1>2, <1>3, <1>7, <2>2 DEF GoesBehind, Past
  <2> QED BY <1>7, <2>1, <2>2
<1>8. CASE Adopts(a)
  BY <1>7, <1>8 DEF Adopts
<1>9. CASE Synchronises(a)
  BY <1>7, <1>9 DEF Synchronises
<1>10. CASE TakesBack(a) \/ Slips(a)
  BY <1>4, <1>10 DEF TakesBack, Slips, Ended, NoCall, Past
<1>11. CASE Links(a) \/ Replaces(a)
  <2>1. promised' = promised /\ req'[a] = req[a] /\ Target(a)' = Target(a) /\ pc[a] \in Past
    BY <1>11 DEF Links, Replaces, Same, Target, Past
  <2> QED BY <1>2, <1>3, <2>1
<1> QED BY <1>5, <1>6, <1>8, <1>9, <1>10, <1>11 DEF Change

\* What rests on something did before, or has just been linked.
LEMMA RestedBefore ==
  ASSUME TypeOK, CallInv, NEW a \in Actor, Change(a), NEW n, Rested(n)'
  PROVE  Rested(n) \/ (Links(a) /\ ~ loose /\ RestsOn(Target(a), n))
<1>1. PICK m \in Final : RestsOn(m, n) /\ (dir'[m] # None \/ disk'[m] # None)
  BY DEF Rested
<1>2. ~ loose
  BY OpenKept DEF Rested, Change, Quiet, Adopts, Synchronises, TakesBack, Slips, Links, Replaces
<1>3. m # Config
  BY <1>1, Rests
<1>4. CASE Links(a) /\ m = Target(a)
  BY <1>1, <1>2, <1>4
<1>5. CASE ~ (Links(a) /\ m = Target(a))
  <2>1. dir'[m] # None => dir[m] # None
    BY <1>3, <1>5, FilesFollow DEF TakesBack
  <2>2. dir[m] # None \/ disk[m] # None
    BY <1>1, <2>1, FilesFollow
  <2> QED BY <1>1, <1>2, <2>2 DEF Rested
<1> QED BY <1>4, <1>5

\* The names that a step adds are safe behind it.
LEMMA OpenedSafe ==
  ASSUME OneProcess, TypeOK, CallInv, LockInv, NEW a \in Actor, OpenDirectory(a), Others(a), store = "evidence",
         NEW n, n = Target(a), dir[n] # None
  PROVE  Safe(n)'
<1>1. /\ Kept /\ ~ Linked(a)' /\ Free(a) /\ pc[a] # "idle"
      /\ \A m \in Final : m[1] = req[a].d => disk'[m] = dir[m]
  BY OpenKept
<1>2. n \in Final /\ n[1] = req[a].d
  BY <1>1, LinkedHasTarget
<1>3. dir'[n] # None /\ disk'[n] # None
  BY <1>1, <1>2 DEF Kept
<1>4. \A b \in Actor : ~ Linked(b)'
  BY <1>1, NobodyElse DEF Others, Busy, Linked
<1> QED BY <1>3, <1>4 DEF Safe

LEMMA AdoptedSafe ==
  ASSUME OneProcess, TypeOK, CallInv, LockInv, NeededInv, CaughtInv, NEW a \in Actor, Adopts(a), Others(a), NEW n, n \in Sure(a)
  PROVE  n \in Final /\ Safe(n)'
<1>1. /\ ~ Linked(a) /\ ~ Linked(a)' /\ pc[a] # "idle" /\ pc[a] \in Past
      /\ store = "evidence" /\ (Free(a) \/ Busy(a)) /\ Kept
  BY AdoptEnds DEF Adopts
<1>2. n = Target(a) /\ (~ loose \/ req[a].there) /\ dir[n] # None
  BY DEF Sure, Adopts
<1>3. n \in Final /\ n[1] = req[a].d
  BY <1>1, <1>2, LinkedHasTarget
<1>4. \A b \in Actor : ~ Linked(b) /\ ~ Linked(b)'
  BY <1>1, NobodyElse DEF Others, Busy, Linked
<1>5. disk[n] # None
  <2>1. CASE req[a].there
    BY <1>1, <1>2, <1>3, <2>1 DEF NeededInv, Vouched, Safe
  <2>2. CASE ~ req[a].there
    BY <1>1, <1>2, <1>3, <1>4, <2>2 DEF CaughtInv
  <2> QED BY <2>1, <2>2
<1>6. dir'[n] # None /\ disk'[n] # None
  BY <1>1, <1>2, <1>3, <1>5 DEF Kept
<1> QED BY <1>3, <1>4, <1>6 DEF Safe

LEMMA SynchronisedSafe ==
  ASSUME TypeOK, CallInv, LinkedInv, NEW a \in Actor, Synchronises(a), Others(a), NEW n, n = Target(a)
  PROVE  n \in Final /\ Safe(n)'
<1>1. Kept /\ Linked(a) /\ ~ Linked(a)' /\ \A m \in Final : m[1] = req[a].d => disk'[m] = dir[m]
  BY SyncKept
<1>2. n \in Final /\ n[1] = req[a].d
  BY <1>1, LinkedHasTarget DEF Linked
<1>3. dir[n] # None
  BY <1>1 DEF LinkedInv
<1>4. dir'[n] # None /\ disk'[n] # None
  BY <1>1, <1>2, <1>3 DEF Kept
<1>5. ASSUME NEW b \in Actor, Linked(b)', req'[b].d # "config" PROVE Target(b)' # n
  <2>1. b # a /\ Linked(b) /\ req'[b] = req[b] /\ Target(b)' = Target(b)
    BY <1>1, <1>5 DEF Others, Linked, Target
  <2> QED BY <1>1, <1>5, <2>1 DEF LinkedInv
<1> QED BY <1>2, <1>4, <1>5 DEF Safe

\* What a record or an alias is linked to rest on is vouched for.
LEMMA LinkedRests ==
  ASSUME TypeOK, CallInv, GoesOnInv, NEW a \in Actor, Links(a), ~ loose, NEW n, RestsOn(Target(a), n)
  PROVE  Vouched(n)
<1>1. Target(a)[1] = req[a].d /\ Asks(store, req[a])
  BY LinkedHasTarget DEF Links, CallInv
<1>2. req[a].d \in {"records", "aliases"} /\ req[a].id \in Id
  BY <1>1, Rests DEF Asks
<1>3. Target(a) = Named(req[a].d, req[a].id)
  BY <1>2 DEF Target, TargetOf
<1>4. n \in req[a].sure
  <2>1. CASE req[a].d = "records"
    BY <1>2, <1>3, <2>1, RestsOfRecord DEF GoesOnInv
  <2>2. CASE req[a].d = "aliases"
    BY <1>2, <1>3, <2>2, RestsOfAlias DEF GoesOnInv
  <2> QED BY <1>2, <2>1, <2>2
<1> QED BY <1>4 DEF Vouched

LEMMA NeededKept ==
  ASSUME OneProcess, TypeOK, CallInv, LockInv, LinkedInv, NeededInv, CaughtInv, GoesOnInv,
         NEW a \in Actor, Change(a), Others(a), store' = store
  PROVE  NeededInv'
<1> SUFFICES ASSUME NEW n \in Final, Vouched(n)' \/ Rested(n)' PROVE Safe(n)'
  BY DEF NeededInv
<1>1. CASE Vouched(n) \/ Rested(n)
  BY <1>1, SafeKept DEF NeededInv
<1>2. CASE Links(a) /\ ~ loose /\ RestsOn(Target(a), n)
  BY <1>1, <1>2, LinkedRests
<1>3. CASE OpenDirectory(a) /\ store = "evidence" /\ n = Target(a) /\ dir[n] # None
  BY <1>3, OpenedSafe
<1>4. CASE Adopts(a) /\ n \in Sure(a)
  BY <1>4, AdoptedSafe
<1>5. CASE Synchronises(a) /\ n = Target(a)
  BY <1>5, SynchronisedSafe
<1> QED BY <1>1, <1>2, <1>3, <1>4, <1>5, VouchedBefore, RestedBefore

-----------------------------------------------------------------------------
(* Directories of the evidence store. *)

LEMMA LooseStays ==
  ASSUME TypeOK, CallInv, NEW a \in Actor, Change(a), loose PROVE loose'
BY OpenKept DEF TypeOK, Change, Quiet, Adopts, Synchronises, TakesBack, Slips, Links, Replaces

\* Who is past the opening of a directory was before, or has just opened it.
LEMMA PastBefore ==
  ASSUME TypeOK, CallInv, NEW a \in Actor, Change(a), Others(a), store = "evidence", NEW b \in Actor, pc'[b] \in Past
  PROVE  /\ req'[b].d = req[b].d
         /\ pc[b] \in Past \/ (b = a /\ OpenDirectory(a))
<1>1. CASE b # a
  BY <1>1 DEF Others
<1>2. CASE b = a /\ OpenDirectory(a)
  BY <1>2, OpenPlaces
<1>3. CASE b = a /\ Quiet(a)
  BY <1>3 DEF Quiet
<1>4. CASE b = a /\ (Links(a) \/ Replaces(a))
  BY <1>4 DEF Links, Replaces, Same, Past
<1>5. CASE b = a /\ (Adopts(a) \/ Synchronises(a) \/ TakesBack(a) \/ Slips(a))
  BY <1>5, AdoptEnds DEF Synchronises, Returns, GoesBehind, TakesBack, Slips, Ended, Past
<1> QED BY <1>1, <1>2, <1>3, <1>4, <1>5 DEF Change

\* A file that is linked stays so, or is durable, or has slipped, or is gone.
LEMMA LinkedAfter ==
  ASSUME TypeOK, CallInv, NEW a \in Actor, Change(a), Others(a), store = "evidence",
         NEW c \in Actor, Linked(c), NEW n \in Final, n = Target(c), dir'[n] # None
  PROVE  disk'[n] # None \/ loose' \/ (Linked(c)' /\ Target(c)' = n)
<1>1. CASE c # a
  BY <1>1 DEF Others, Linked, Target
<1>2. CASE c = a /\ Quiet(a)
  BY <1>2 DEF Quiet, Target
<1>3. CASE c = a /\ Synchronises(a)
  <2>1. n[1] = req[a].d
    BY <1>3, LinkedHasTarget DEF Linked
  <2> QED BY <1>3, <2>1, SyncKept DEF Kept
<1>4. CASE c = a /\ TakesBack(a)
  BY <1>4 DEF TakesBack
<1>5. CASE c = a /\ Slips(a)
  BY <1>5 DEF Slips
<1>6. CASE c = a /\ (OpenDirectory(a) \/ Adopts(a) \/ Links(a) \/ Replaces(a))
  BY <1>6, OpenKept, AdoptEnds DEF Links, Replaces, Linked
<1> QED BY <1>1, <1>2, <1>3, <1>4, <1>5, <1>6 DEF Change

LEMMA CaughtKept ==
  ASSUME TypeOK, CallInv, CaughtInv, NEW a \in Actor, Change(a), Others(a), store' = store
  PROVE  CaughtInv'
<1> SUFFICES ASSUME store = "evidence", NEW b \in Actor, pc'[b] \in Past,
                    NEW n \in Final, n[1] = req'[b].d, dir'[n] # None
             PROVE  disk'[n] # None \/ loose' \/ \E c \in Actor : Linked(c)' /\ Target(c)' = n
  BY DEF CaughtInv
<1>1. /\ req'[b].d = req[b].d
      /\ pc[b] \in Past \/ (b = a /\ OpenDirectory(a))
  BY PastBefore
<1>2. CASE b = a /\ OpenDirectory(a)
  BY <1>1, <1>2, OpenKept DEF Kept
<1>3. CASE Links(a) /\ n = Target(a)
  BY <1>3 DEF Links, Same, Linked, Target
<1>4. ~ Replaces(a)
  BY DEF Replaces, CallInv, Asks
<1>5. CASE pc[b] \in Past /\ dir'[n] = dir[n]
  <2>1. disk[n] # None \/ loose \/ \E c \in Actor : Linked(c) /\ Target(c) = n
    BY <1>1, <1>5 DEF CaughtInv
  <2>2. CASE disk[n] # None
    BY <2>2, FilesFollow
  <2>3. CASE loose
    BY <2>3, LooseStays
  <2>4. CASE \E c \in Actor : Linked(c) /\ Target(c) = n
    BY <2>4, LinkedAfter
  <2> QED BY <2>1, <2>2, <2>3, <2>4
<1>6. CASE TakesBack(a) /\ n = Target(a)
  BY <1>6 DEF TakesBack
<1> QED BY <1>1, <1>2, <1>3, <1>4, <1>5, <1>6, FilesFollow

\* Whoever goes on has what it comes from, or a file has slipped.
LEMMA BehindHas ==
  ASSUME TypeOK, CallInv, NEW a \in Actor, pc[a] # "idle", NEW sure, GoesBehind(a, sure), sure = {Target(a)} \/ loose
  PROVE  /\ req'[a].d = "records" => Blob(req'[a].id) \in req'[a].sure \/ loose
         /\ req'[a].d = "aliases" => Named("records", req'[a].id) \in req'[a].sure \/ loose
<1>1. /\ req'[a].id = req[a].id /\ req'[a].d = Behind(req[a]) /\ Behind(req[a]) # None
      /\ req'[a].sure = req[a].sure \cup sure
  BY DEF GoesBehind
<1>2. CASE req[a].d = "blobs"
  <2>1. Behind(req[a]) = "records" /\ Target(a) = Blob(req[a].id)
    BY <1>2 DEF Behind, Target, TargetOf
  <2> QED BY <1>1, <2>1
<1>3. CASE req[a].d = "records" /\ req[a].kind = "migrate"
  <2>1. Behind(req[a]) = "aliases" /\ Target(a) = Named("records", req[a].id)
    BY <1>3 DEF Behind, Target, TargetOf
  <2> QED BY <1>1, <2>1
<1>4. req[a].d = "blobs" \/ (req[a].d = "records" /\ req[a].kind = "migrate")
  BY <1>1 DEF Behind
<1> QED BY <1>2, <1>3, <1>4

LEMMA GoesOnKept ==
  ASSUME TypeOK, CallInv, GoesOnInv, NEW a \in Actor, Change(a), Others(a)
  PROVE  GoesOnInv'
<1> SUFFICES ASSUME NEW b \in Actor
             PROVE  /\ req'[b].d = "records" => Blob(req'[b].id) \in req'[b].sure \/ loose'
                    /\ req'[b].d = "aliases" => Named("records", req'[b].id) \in req'[b].sure \/ loose'
  BY DEF GoesOnInv
<1>1. /\ req[b].d = "records" => Blob(req[b].id) \in req[b].sure \/ loose'
      /\ req[b].d = "aliases" => Named("records", req[b].id) \in req[b].sure \/ loose'
  BY LooseStays DEF GoesOnInv
<1>2. CASE req'[b] = req[b]
  BY <1>1, <1>2
<1>3. ASSUME Ended(a), b = a
      PROVE  req'[b].d \notin {"records", "aliases"}
  <2>1. req'[b].d = None
    BY <1>3 DEF Ended, NoCall
  <2> QED BY <2>1, NamesAssumption DEF Directories
<1>4. CASE b = a /\ Quiet(a)
  BY <1>2, <1>4 DEF Quiet
<1>5. CASE b = a /\ OpenDirectory(a)
  BY <1>1, <1>5, OpenPlaces
<1>6. CASE b = a /\ Adopts(a)
  <2>1. pc[a] # "idle" /\ loose' = loose /\ (Sure(a) = {Target(a)} \/ loose)
    BY <1>6 DEF Adopts, Sure
  <2>2. CASE Returns(a, Sure(a))
    BY <1>3, <1>6, <2>2 DEF Returns
  <2>3. CASE GoesBehind(a, Sure(a))
    BY <1>6, <2>1, <2>3, BehindHas
  <2> QED BY <1>6, <2>2, <2>3 DEF Adopts
<1>7. CASE b = a /\ Synchronises(a)
  <2>1. pc[a] # "idle" /\ loose' = loose
    BY <1>7 DEF Synchronises
  <2>2. CASE Returns(a, {Target(a)})
    BY <1>3, <1>7, <2>2 DEF Returns
  <2>3. CASE GoesBehind(a, {Target(a)})
    BY <1>7, <2>1, <2>3, BehindHas
  <2> QED BY <1>7, <2>2, <2>3 DEF Synchronises
<1>8. CASE b = a /\ (TakesBack(a) \/ Slips(a))
  BY <1>3, <1>8 DEF TakesBack, Slips
<1>9. CASE b = a /\ (Links(a) \/ Replaces(a))
  BY <1>2, <1>9 DEF Links, Replaces, Same
<1>10. CASE b # a
  BY <1>2, <1>10 DEF Others
<1> QED BY <1>4, <1>5, <1>6, <1>7, <1>8, <1>9, <1>10 DEF Change

-----------------------------------------------------------------------------
(* Deaths and power losses. *)

\* What ended is nowhere; what did not is where it was.
LEMMA DeadOrSame ==
  ASSUME TypeOK, NEW dead, Die(dead), NEW b \in Actor
  PROVE  /\ Home[b] \in dead => Ended(b)
         /\ Home[b] \notin dead => pc'[b] = pc[b] /\ req'[b] = req[b] /\ Target(b)' = Target(b)
         /\ Linked(b)' => Linked(b) /\ Home[b] \notin dead
         /\ pc'[b] \in Past => pc[b] \in Past /\ Home[b] \notin dead
BY Deaths DEF Ended, Linked, Past, Target

LEMMA VouchedDies ==
  ASSUME TypeOK, NEW dead, Die(dead), UNCHANGED <<store, promised>>, NEW n, Vouched(n)'
  PROVE  Vouched(n)
<1>1. CASE n \in promised'
  BY <1>1 DEF Vouched
<1>2. ASSUME NEW b \in Actor, n \in req'[b].sure PROVE Vouched(n)
  BY <1>2, DeadOrSame DEF Ended, NoCall, Vouched
<1>3. ASSUME NEW b \in Actor, store = "evidence", pc'[b] \in Past, req'[b].there, n = Target(b)' PROVE Vouched(n)
  BY <1>3, DeadOrSame DEF Vouched
<1> QED BY <1>1, <1>2, <1>3 DEF Vouched

LEMMA GoesOnDies ==
  ASSUME TypeOK, GoesOnInv, NEW dead, Die(dead), UNCHANGED loose
  PROVE  GoesOnInv'
<1> SUFFICES ASSUME NEW b \in Actor
             PROVE  /\ req'[b].d = "records" => Blob(req'[b].id) \in req'[b].sure \/ loose'
                    /\ req'[b].d = "aliases" => Named("records", req'[b].id) \in req'[b].sure \/ loose'
  BY DEF GoesOnInv
<1>1. CASE Ended(b)
  <2>1. req'[b].d = None
    BY <1>1 DEF Ended, NoCall
  <2> QED BY <2>1, NamesAssumption DEF Directories
<1>2. CASE req'[b] = req[b]
  BY <1>2 DEF GoesOnInv
<1> QED BY <1>1, <1>2, DeadOrSame

\* A process dies, and nothing else changes.
LEMMA KillKeeps ==
  ASSUME TypeOK, WholeInv, LinkedInv, NEW p \in Proc, Kill(p)
  PROVE  /\ Die({p}) /\ UNCHANGED <<store, dir, disk, promised, loose>>
         /\ \A b \in Actor : Linked(b)' => Linked(b) /\ req'[b] = req[b] /\ Target(b)' = Target(b)
         /\ WholeInv' /\ LinkedInv'
<1>1. Die({p}) /\ UNCHANGED <<store, dir, disk, promised, loose>>
  BY DEF Kill, Mishap
<1>2. \A b \in Actor : Linked(b)' => Linked(b) /\ req'[b] = req[b] /\ Target(b)' = Target(b)
  BY <1>1, DeadOrSame
<1>3. WholeInv'
  BY <1>1 DEF WholeInv
<1>4. LinkedInv'
  BY <1>1, <1>2 DEF LinkedInv
<1> QED BY <1>1, <1>2, <1>3, <1>4

LEMMA KillNeeds ==
  ASSUME OneProcess, TypeOK, CallInv, WholeInv, LinkedInv, NeedsInv, NEW p \in Proc, Kill(p)
  PROVE  NeedsInv'
<1>1. Die({p}) /\ UNCHANGED <<store, dir, disk, promised, loose>>
  BY KillKeeps
<1>2. \A b \in Actor : Linked(b)' => Linked(b) /\ req'[b] = req[b] /\ Target(b)' = Target(b)
  BY KillKeeps
<1>3. NeededInv'
  <2> SUFFICES ASSUME NEW n \in Final, Vouched(n)' \/ Rested(n)' PROVE Safe(n)'
    BY DEF NeededInv
  <2>1. Vouched(n) \/ Rested(n)
    BY <1>1, VouchedDies DEF Rested
  <2>2. Safe(n)
    BY <2>1 DEF NeedsInv, NeededInv
  <2> QED BY <1>1, <1>2, <2>2 DEF Safe
<1>4. CaughtInv'
  <2> SUFFICES ASSUME store = "evidence", NEW b \in Actor, pc'[b] \in Past,
                      NEW n \in Final, n[1] = req'[b].d, dir[n] # None
               PROVE  disk[n] # None \/ loose \/ \E c \in Actor : Linked(c)' /\ Target(c)' = n
    BY <1>1 DEF CaughtInv
  <2>1. pc[b] \in Past /\ Home[b] # p /\ req'[b] = req[b]
    BY <1>1, DeadOrSame
  <2>2. disk[n] # None \/ loose \/ \E c \in Actor : Linked(c) /\ Target(c) = n
    BY <2>1 DEF NeedsInv, CaughtInv
  <2>3. ASSUME NEW c \in Actor, Linked(c), Target(c) = n PROVE Linked(c)' /\ Target(c)' = n
    <3>1. b \in User["evidence"] /\ c \in User["evidence"]
      BY <2>1, <2>3 DEF CallInv, Linked, Past
    <3>2. Home[c] # p
      BY <2>1, <3>1 DEF OneProcess
    <3> QED BY <1>1, <2>3, <3>2, DeadOrSame DEF Linked
  <2> QED BY <2>2, <2>3
<1>5. GoesOnInv'
  BY <1>1, GoesOnDies DEF NeedsInv
<1> QED BY <1>3, <1>4, <1>5 DEF NeedsInv

\* The power fails: each name falls back on the disk, or does not.
LEMMA PowerKeeps ==
  ASSUME TypeOK, WholeInv, PowerLoss
  PROVE  /\ Die(Proc) /\ UNCHANGED <<store, promised, loose>> /\ disk' = dir'
         /\ \A n \in Final : dir'[n] = dir[n] \/ dir'[n] = disk[n]
         /\ \A b \in Actor : ~ Linked(b)' /\ pc'[b] \notin Past
         /\ WholeInv' /\ LinkedInv'
<1>1. Die(Proc) /\ UNCHANGED <<store, promised, loose>> /\ disk' = dir'
  BY DEF PowerLoss
<1>2. \A n \in Final : dir'[n] = dir[n] \/ dir'[n] = disk[n]
  BY FinalIsNoTemporary DEF PowerLoss
<1>3. \A b \in Actor : ~ Linked(b)' /\ pc'[b] \notin Past
  BY <1>1, DeadOrSame DEF Proc
<1>4. WholeInv'
  BY <1>1, <1>2 DEF WholeInv
<1>5. LinkedInv'
  BY <1>3 DEF LinkedInv
<1> QED BY <1>1, <1>2, <1>3, <1>4, <1>5

LEMMA PowerNeeds ==
  ASSUME TypeOK, WholeInv, NeedsInv, PowerLoss
  PROVE  NeedsInv'
<1>1. /\ Die(Proc) /\ UNCHANGED <<store, promised, loose>> /\ disk' = dir'
      /\ \A n \in Final : dir'[n] = dir[n] \/ dir'[n] = disk[n]
      /\ \A b \in Actor : ~ Linked(b)' /\ pc'[b] \notin Past
  BY PowerKeeps
<1>2. CaughtInv'
  BY <1>1 DEF CaughtInv
<1>3. NeededInv'
  <2> SUFFICES ASSUME NEW n \in Final, Vouched(n)' \/ Rested(n)' PROVE Safe(n)'
    BY DEF NeededInv
  <2>1. Rested(n)' => Rested(n)
    BY <1>1 DEF Rested
  <2>2. Safe(n)
    BY <1>1, <2>1, VouchedDies DEF NeedsInv, NeededInv
  <2> QED BY <1>1, <2>2 DEF Safe
<1>4. GoesOnInv'
  BY <1>1, GoesOnDies DEF NeedsInv
<1> QED BY <1>2, <1>3, <1>4 DEF NeedsInv

-----------------------------------------------------------------------------
(* The invariants. *)

LEMMA PublicationInvInit == Init => PublicationInv /\ NeedsInv
<1> SUFFICES ASSUME Init PROVE PublicationInv /\ NeedsInv
  OBVIOUS
<1>1. /\ store \in Stores /\ promised = {} /\ loose = FALSE /\ calls = 0 /\ mishaps = 0 /\ outages = 0
      /\ mu = [p \in Proc |-> None] /\ flock = None
      /\ pc = [a \in Actor |-> "idle"] /\ req = [a \in Actor |-> NoCall]
      /\ dir = [n \in Name |-> None] /\ disk = dir
  BY DEF Init
<1>2. \A n \in Final : dir[n] = None /\ disk[n] = None
  BY <1>1, FinalIsNoTemporary
<1>3. \A a \in Actor : pc[a] = "idle" /\ req[a] = NoCall
  BY <1>1
<1>4. TypeOK
  <2>1. pc \in [Actor -> Places] /\ req \in [Actor -> Requests]
    BY <1>1, NoCallIsRequest DEF Places
  <2>2. 0 \in 0..MaxCalls
    BY BoundsAssumption
  <2> QED BY <1>1, <2>1, <2>2 DEF TypeOK
<1>5. CallInv /\ LockInv /\ TemporaryInv
  BY <1>3 DEF CallInv, LockInv, TemporaryInv, Writing, Linked
<1>6. WholeInv
  BY <1>2 DEF WholeInv
<1>7. LinkedInv /\ CaughtInv
  BY <1>3 DEF LinkedInv, Linked, CaughtInv, Past
<1>8. NeededInv
  <2>1. ASSUME NEW n \in Final PROVE ~ Vouched(n) /\ ~ Rested(n)
    BY <1>1, <1>2, <1>3 DEF Vouched, Rested, Past, NoCall
  <2> QED BY <2>1 DEF NeededInv
<1>9. GoesOnInv
  <2>1. \A a \in Actor : req[a].d = None
    BY <1>3 DEF NoCall
  <2> QED BY <2>1, NamesAssumption DEF GoesOnInv, Directories
<1> QED BY <1>4, <1>5, <1>6, <1>7, <1>8, <1>9 DEF PublicationInv, NeedsInv

LEMMA PublicationInvNext == PublicationInv /\ [Next]_vars => PublicationInv'
<1> SUFFICES ASSUME PublicationInv, [Next]_vars PROVE PublicationInv'
  OBVIOUS
<1> USE DEF PublicationInv
<1>1. TypeOK' /\ CallInv' /\ LockInv' /\ TemporaryInv'
  BY TypeStep, CallStep, LockStep, TemporaryStep
<1>2. ASSUME NEW a \in Actor, Step(a) PROVE WholeInv' /\ LinkedInv'
  <2>1. Change(a) /\ Others(a)
    BY <1>2, StepIs
  <2> QED BY <2>1, WholeKept, LinkedKept
<1>3. ASSUME NEW p \in Proc, Kill(p) PROVE WholeInv' /\ LinkedInv'
  BY <1>3, KillKeeps
<1>4. PowerLoss => WholeInv' /\ LinkedInv'
  BY PowerKeeps
<1>5. UNCHANGED vars => WholeInv' /\ LinkedInv'
  BY DEF WholeInv, LinkedInv, Linked, Target, vars
<1> QED BY <1>1, <1>2, <1>3, <1>4, <1>5 DEF Next

LEMMA NeedsInvNext ==
  OneProcess /\ PublicationInv /\ NeedsInv /\ [Next]_vars => OneProcess' /\ NeedsInv'
<1> SUFFICES ASSUME OneProcess, PublicationInv, NeedsInv, [Next]_vars PROVE OneProcess' /\ NeedsInv'
  OBVIOUS
<1> USE DEF PublicationInv
<1>1. ASSUME NEW a \in Actor, Step(a) PROVE OneProcess' /\ NeedsInv'
  <2>1. Change(a) /\ Others(a) /\ store' = store
    BY <1>1, StepIs
  <2>2. NeededInv' /\ CaughtInv' /\ GoesOnInv'
    BY <2>1, NeededKept, CaughtKept, GoesOnKept DEF NeedsInv
  <2> QED BY <2>1, <2>2 DEF OneProcess, NeedsInv
<1>2. ASSUME NEW p \in Proc, Kill(p) PROVE OneProcess' /\ NeedsInv'
  BY <1>2, KillKeeps, KillNeeds DEF OneProcess
<1>3. CASE PowerLoss
  BY <1>3, PowerKeeps, PowerNeeds DEF OneProcess
<1>4. CASE UNCHANGED vars
  <2>1. UNCHANGED <<store, dir, disk, pc, req, promised, loose>>
    BY <1>4 DEF vars
  <2>2. NeededInv'
    BY <2>1 DEF NeedsInv, NeededInv, Vouched, Rested, Safe, Linked, Target
  <2>3. CaughtInv' /\ GoesOnInv'
    BY <2>1 DEF NeedsInv, CaughtInv, GoesOnInv, Linked, Target
  <2> QED BY <2>1, <2>2, <2>3 DEF OneProcess, NeedsInv
<1> QED BY <1>1, <1>2, <1>3, <1>4 DEF Next

(***************************************************************************)
(* Whatever the stores and their processes, publication keeps its types,   *)
(* the lock of the evidence store is held around everything it links, what *)
(* has a final name is whole, and a call that has linked a file finds it   *)
(* there and nobody else's (evidence/store.go, session/jsonl/artifact.go,  *)
(* recovery/store.go, config/save.go).                                     *)
(***************************************************************************)
THEOREM PublicationSound == Spec => []PublicationInv
<1> QED BY PublicationInvInit, PublicationInvNext, PTL DEF Spec

(***************************************************************************)
(* Where one process publishes evidence, and any number of processes use   *)
(* the other stores, what is needed is durable and no running call takes   *)
(* it back.                                                                *)
(***************************************************************************)
THEOREM NeededStays == Spec /\ OneProcess => []NeedsInv
<1> QED BY PublicationInvInit, NeedsInvNext, PublicationSound, PTL DEF Spec

-----------------------------------------------------------------------------
(* What publication promises. *)

(***************************************************************************)
(* What a returned call vouched for survives every death, failed step and  *)
(* power loss, with one process per evidence store: nobody takes back a    *)
(* file that another call has adopted, and who adopts has synchronised the *)
(* directory first (publishBlob, writeArtifactTransactional,               *)
(* publishContainer, SaveGlobal).                                          *)
(***************************************************************************)
THEOREM Survive == Spec /\ OneProcess => []PromisesSurvive
<1>1. PublicationInv /\ NeedsInv => PromisesSurvive
  BY DEF PublicationInv, TypeOK, NeedsInv, NeededInv, Vouched, Safe, PromisesSurvive
<1> QED BY <1>1, PublicationSound, NeededStays, PTL

LEMMA FromIdentity ==
  ASSUME NEW id \in Id
  PROVE  /\ Named("records", id) \in Final /\ Named("aliases", id) \in Final /\ Blob(id) \in Final
         /\ RestsOn(Named("records", id), Blob(id)) /\ RestsOn(Named("aliases", id), Named("records", id))
BY DEF Final, RestsOn

(***************************************************************************)
(* What has its final name is whole, a record has its blob and an alias    *)
(* its record, whatever dies or fails between the publications, with one   *)
(* process per evidence store and unless a directory could not be          *)
(* synchronised (Put, PutLegacy).                                          *)
(***************************************************************************)
THEOREM Dangles == Spec /\ OneProcess => []NothingDangles
<1>1. ASSUME NeedsInv, NEW m \in Final, NEW n \in Final, RestsOn(m, n), dir[m] # None, ~ loose
      PROVE  dir[n] # None
  BY <1>1 DEF NeedsInv, NeededInv, Rested, Safe
<1>2. ASSUME PublicationInv, NeedsInv PROVE NothingDangles
  <2>1. \A n \in Final : dir[n] # None => dir[n].whole
    BY <1>2 DEF PublicationInv, WholeInv
  <2>2. ASSUME NEW id \in Id
        PROVE  /\ dir[Named("records", id)] # None => dir[Blob(id)] # None \/ loose
               /\ dir[Named("aliases", id)] # None => dir[Named("records", id)] # None \/ loose
    BY <1>1, <1>2, FromIdentity
  <2> QED BY <2>1, <2>2 DEF NothingDangles
<1>3. PublicationInv /\ NeedsInv => NothingDangles
  BY <1>2
<1> QED BY <1>3, PublicationSound, NeededStays, PTL

(***************************************************************************)
(* No call replaces the file of another, also of another process: a final  *)
(* name keeps its file, or its own call takes it back, or a saved          *)
(* configuration takes its place, or the power fails (publishNoReplace,    *)
(* ensureGlobal).                                                          *)
(***************************************************************************)
THEOREM Replaced == Spec => NothingReplaced
<1> DEFINE Fits(n) == \/ outages' # outages
                      \/ \E a \in Actor : /\ Target(a) = n
                                          /\ \/ req[a].kind = "save" /\ dir'[n].n = req[a].n
                                             \/ dir[n].n = req[a].n /\ dir'[n] = None
<1>1. ASSUME PublicationInv, [Next]_vars, NEW n \in Final, dir[n] # None, dir'[n] # dir[n]
      PROVE  Fits(n)
  <2> USE DEF PublicationInv
  <2>1. ASSUME NEW a \in Actor, Step(a) PROVE Fits(n)
    <3>1. Change(a)
      BY <1>1, <2>1, StepIs
    <3>2. CASE TakesBack(a) /\ n = Target(a)
      <4>1. dir[n].n = req[a].n /\ dir'[n] = None
        BY <1>1, <3>2 DEF TakesBack, LinkedInv
      <4> QED BY <3>2, <4>1
    <3>3. CASE Links(a) /\ n = Target(a)
      BY <1>1, <3>3 DEF Links
    <3>4. CASE Replaces(a) /\ n = Config
      <4>1. /\ Target(a) = Config /\ req[a].kind = "save" /\ pc[a] = "link" /\ dir[Mine(a)] # None
            /\ dir'[Config] = dir[Mine(a)]
        BY <3>4 DEF Replaces
      <4>2. dir'[n].n = req[a].n
        BY <1>1, <3>4, <4>1 DEF TemporaryInv
      <4> QED BY <3>4, <4>1, <4>2
    <3> QED BY <1>1, <3>1, <3>2, <3>3, <3>4, FilesFollow
  <2>2. CASE \E p \in Proc : Kill(p)
    BY <1>1, <2>2 DEF Kill
  <2>3. CASE PowerLoss
    BY <1>1, <2>3 DEF PowerLoss, TypeOK
  <2>4. CASE UNCHANGED vars
    BY <1>1, <2>4 DEF vars
  <2> QED BY <1>1, <2>1, <2>2, <2>3, <2>4 DEF Next
<1>2. PublicationInv /\ [Next]_vars => [\A n \in Final : dir[n] # None /\ dir'[n] # dir[n] => Fits(n)]_vars
  BY <1>1
<1> QED BY <1>2, PublicationSound, PTL DEF Spec, NothingReplaced
=============================================================================
