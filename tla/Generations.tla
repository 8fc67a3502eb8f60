----------------------------- MODULE Generations -----------------------------
(***************************************************************************)
(* Runtime generations and their secrets.  A generation is built from the  *)
(* configuration with the API keys it may use; internal/secret keeps the   *)
(* encoded variants of those keys for as long as some producer may still   *)
(* write text, and the lifecycle of internal/app/runtime_support.go keeps  *)
(* the stores of the generation open for as long as a turn works on them.  *)
(*                                                                         *)
(* Registry.mu and runtimeLifecycle.mu make every step on a generation     *)
(* atomic.  Lease.Close has two such steps; a new Lease, stream or user is *)
(* a new object, whose name is used again when the last one is gone.       *)
(***************************************************************************)
EXTENDS Naturals, FiniteSets

CONSTANTS
  Generation,     \* runtime generations
  Lease,          \* producers' leases
  Stream,         \* admission and redaction streams
  User,           \* operations that acquire a generation's lifecycle
  None

ASSUME NamesAssumption == None \notin Generation \cup Lease

ASSUME FiniteAssumption == IsFiniteSet(Lease) /\ IsFiniteSet(Stream) /\ IsFiniteSet(User)

VARIABLES
  entry,      \* Registry.generations
  lease,      \* lease -> its generation, whether it is counted, and still open
  stream,     \* stream -> its generation and the lease that closes it
  life,       \* generation -> its runtimeLifecycle
  user        \* user -> the generation it has acquired, or None

generations == <<entry, lease, stream, life, user>>

\* "known" until Retire; held tells whether the variants are still kept.
Entry == [known : BOOLEAN, retired : BOOLEAN, held : BOOLEAN, leases : Nat, streams : Nat]
NoEntry == [known |-> FALSE, retired |-> FALSE, held |-> FALSE, leases |-> 0, streams |-> 0]
NewEntry == [known |-> TRUE, retired |-> FALSE, held |-> TRUE, leases |-> 1, streams |-> 0]

\* stage of a lease: "free", "open", or "closing" between the two steps of Close.
NoLease == [gen |-> None, stage |-> "free"]
NoStream == [gen |-> None, owner |-> None]

\* "none" before build, "closing" while the close function runs, then "closed".
Life == [active : Nat, retired : BOOLEAN, stores : {"none", "open", "closing", "closed"}]

GenerationsTypeOK ==
  /\ entry \in [Generation -> Entry]
  /\ lease \in [Lease -> [gen : Generation, stage : {"open", "closing"}] \cup {NoLease}]
  /\ stream \in [Stream -> [gen : Generation, owner : Lease \cup {None}] \cup {NoStream}]
  /\ life \in [Generation -> Life]
  /\ user \in [User -> Generation \cup {None}]

GenerationsInit ==
  /\ entry = [g \in Generation |-> NoEntry]
  /\ lease = [l \in Lease |-> NoLease]
  /\ stream = [s \in Stream |-> NoStream]
  /\ life = [g \in Generation |-> [active |-> 0, retired |-> FALSE, stores |-> "none"]]
  /\ user = [u \in User |-> None]

secrets == <<entry, lease, stream>>
lifecycle == <<life, user>>

-----------------------------------------------------------------------------
(* The registry. *)

releaseRetiredLocked(e) ==
  IF e.retired /\ e.leases = 0 /\ e.streams = 0 THEN [e EXCEPT !.held = FALSE] ELSE e

LessStream(e) == [e EXCEPT !.streams = @ - 1]
LessLease(e) == [e EXCEPT !.leases = @ - 1]

Free(l) == lease[l].stage = "free"
Open(l) == lease[l].stage = "open"
Bind(l, g) == lease' = [lease EXCEPT ![l] = [gen |-> g, stage |-> "open"]]

\* Registry.AcquireExisting, and Lease.Derive, which calls it without its lock.
AcquireExisting(g, l) ==
  /\ Free(l)
  /\ entry[g].known /\ ~ entry[g].retired
  /\ entry' = [entry EXCEPT ![g].leases = @ + 1]
  /\ Bind(l, g)
  /\ UNCHANGED <<stream, lifecycle>>

\* Lease.Stream and RedactionStream; only the latter is closed with its lease.
OpenStream(l, s, owner) ==
  /\ Open(l) /\ owner \in {l, None} /\ stream[s] = NoStream
  /\ entry' = [entry EXCEPT ![lease[l].gen].streams = @ + 1]
  /\ stream' = [stream EXCEPT ![s] = [gen |-> lease[l].gen, owner |-> owner]]
  /\ UNCHANGED <<lease, lifecycle>>

\* AdmissionStream.Close and its onStreamClose, once for each stream.
CloseStream(s) ==
  /\ stream[s] # NoStream
  /\ entry' = [entry EXCEPT ![stream[s].gen] = releaseRetiredLocked(LessStream(@))]
  /\ stream' = [stream EXCEPT ![s] = NoStream]
  /\ UNCHANGED <<lease, lifecycle>>

Owned(l) == {s \in Stream : stream[s].owner = l}

\* Lease.Close under Lease.mu: the lease is closed with the streams it tracks.
\* Its generation still counts it, so nothing can be released here.
CloseLease(l) ==
  /\ Open(l)
  /\ lease' = [lease EXCEPT ![l].stage = "closing"]
  /\ entry' = [entry EXCEPT ![lease[l].gen].streams = @ - Cardinality(Owned(l))]
  /\ stream' = [s \in Stream |-> IF s \in Owned(l) THEN NoStream ELSE stream[s]]
  /\ UNCHANGED lifecycle

\* A lease that is closed last and leaves the secrets behind.
DropLeaseQuietly(l) ==
  /\ lease[l].stage = "closing"
  /\ entry' = [entry EXCEPT ![lease[l].gen].leases = @ - 1]
  /\ lease' = [lease EXCEPT ![l] = NoLease]
  /\ UNCHANGED <<stream, lifecycle>>

\* Lease.Close, its second half under Registry.mu.
DropLease(l) ==
  /\ lease[l].stage = "closing"
  /\ entry' = [entry EXCEPT ![lease[l].gen] = releaseRetiredLocked(LessLease(@))]
  /\ lease' = [lease EXCEPT ![l] = NoLease]
  /\ UNCHANGED <<stream, lifecycle>>

-----------------------------------------------------------------------------
(* The lifecycle of a generation. *)

\* runtimeBuilder.build: Registry.Acquire on a new generation, the stores, the
\* lifecycle.  The leases of all its producers are one.
Build(g, l) ==
  /\ ~ entry[g].known /\ Free(l)
  /\ entry' = [entry EXCEPT ![g] = NewEntry]
  /\ Bind(l, g)
  /\ life' = [life EXCEPT ![g].stores = "open"]
  /\ UNCHANGED <<stream, user>>

\* A build that fails: its deferred retire gives everything back.
BuildFails(g) ==
  /\ ~ entry[g].known
  /\ entry' = [entry EXCEPT ![g] =
                 releaseRetiredLocked([NewEntry EXCEPT !.leases = 0, !.retired = TRUE])]
  /\ life' = [life EXCEPT ![g].stores = "closed", ![g].retired = TRUE]
  /\ UNCHANGED <<lease, stream, user>>

acquire(u, g) ==
  /\ user[u] = None
  /\ life[g].stores # "none" /\ ~ life[g].retired
  /\ life' = [life EXCEPT ![g].active = @ + 1]
  /\ user' = [user EXCEPT ![u] = g]
  /\ UNCHANGED secrets

\* The close function starts, once.
Closes(f) == IF f.retired /\ f.active = 0 /\ f.stores = "open" THEN [f EXCEPT !.stores = "closing"] ELSE f

LessUser(f) == [f EXCEPT !.active = @ - 1]

release(u) ==
  /\ user[u] # None
  /\ life' = [life EXCEPT ![user[u]] = Closes(LessUser(@))]
  /\ user' = [user EXCEPT ![u] = None]
  /\ UNCHANGED secrets

retire(g) ==
  /\ life[g].stores # "none"
  /\ life' = [life EXCEPT ![g] = Closes([@ EXCEPT !.retired = TRUE])]
  /\ UNCHANGED <<secrets, user>>

\* The close function closes the stores and calls Registry.Retire; it then
\* closes the generation's own leases, each a CloseLease and a DropLease.
Retire(g) ==
  /\ life[g].stores = "closing" /\ ~ entry[g].retired
  /\ entry' = [entry EXCEPT ![g] = releaseRetiredLocked([@ EXCEPT !.retired = TRUE])]
  /\ life' = [life EXCEPT ![g].stores = "closed"]
  /\ UNCHANGED <<lease, stream, user>>

GenerationsNext ==
  \/ \E g \in Generation : BuildFails(g) \/ retire(g) \/ Retire(g)
  \/ \E g \in Generation, l \in Lease : Build(g, l) \/ AcquireExisting(g, l)
  \/ \E g \in Generation, u \in User : acquire(u, g)
  \/ \E u \in User : release(u)
  \/ \E l \in Lease : CloseLease(l) \/ DropLease(l)
  \/ \E l \in Lease, s \in Stream, owner \in Lease \cup {None} : OpenStream(l, s, owner)
  \/ \E s \in Stream : CloseStream(s)

GenerationsSpec == GenerationsInit /\ [][GenerationsNext]_generations

-----------------------------------------------------------------------------
Leases(g) == {l \in Lease : lease[l].gen = g}
Streams(g) == {s \in Stream : stream[s].gen = g}
Users(g) == {u \in User : user[u] = g}

\* Registry.releaseRetiredLocked, called from three places under one lock: the
\* variants of a generation are kept exactly as long as it may be acquired, or
\* some lease or stream over it is open; nothing that could still write a
\* secret loses them, and a retired generation leaves none behind.
SecretsMatchUse ==
  \A g \in Generation :
    entry[g].known => (entry[g].held <=> (~ entry[g].retired \/ Leases(g) # {} \/ Streams(g) # {}))

\* runtimeLifecycle: a generation that an operation has acquired keeps its
\* stores and its secrets, whoever retires it meanwhile.
UsedStaysOpen ==
  \A u \in User : user[u] # None => life[user[u]].stores = "open" /\ entry[user[u]].held
=============================================================================
