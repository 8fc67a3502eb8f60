------------------------- MODULE App_proofs ---------------------------------
(***************************************************************************)
(* The application loop and the runtime generations it works on, for every *)
(* set of generations, leases, streams, users, sessions, modes and models  *)
(* and every bound.                                                        *)
(*                                                                         *)
(* First the generations by themselves: the registry counts and never      *)
(* looks at who holds what, so their invariant GInv says what is counted,  *)
(* and that a stream which goes with a lease is gone before the lease is.  *)
(* Then the loop: each of its steps is a step of the generations or leaves *)
(* them alone, so GInv carries over, and to it AppInv adds what the order  *)
(* of the loop guarantees about the operation that runs, the approvals it  *)
(* waits for and the settings of the session.                              *)
(*                                                                         *)
(* At the end the catalog of sessions, which shares nothing with the loop  *)
(* here: what its flock and its syncs protect, for every set of actors,    *)
(* processes, identities and terms and every bound.                        *)
(***************************************************************************)
EXTENDS App, Catalog, SequenceTheorems, FiniteSetTheorems, WellFoundedInduction, TLAPS

\* Registry.generations and runtimeLifecycle.active count their holders.
Counted ==
  \A g \in Generation :
    /\ entry[g].leases = Cardinality(Leases(g))
    /\ entry[g].streams = Cardinality(Streams(g))
    /\ life[g].active = Cardinality(Users(g))

\* Every holder has a generation that was built, and the lease that closes a
\* stream is an open lease of the same generation.
Bound ==
  /\ \A l \in Lease : lease[l].gen # None => entry[lease[l].gen].known
  /\ \A s \in Stream :
       /\ stream[s].gen # None => entry[stream[s].gen].known
       /\ stream[s].owner # None =>
            Open(stream[s].owner) /\ lease[stream[s].owner].gen = stream[s].gen

\* The registry and the lifecycle of a generation agree.
Agree ==
  \A g \in Generation :
    /\ entry[g].known <=> life[g].stores # "none"
    /\ entry[g].known => (entry[g].retired <=> life[g].stores = "closed")
    /\ life[g].stores \in {"closing", "closed"} => life[g].retired

\* releaseRetiredLocked keeps the variants by the counts.
Held ==
  \A g \in Generation :
    entry[g].known =>
      (entry[g].held <=> (~ entry[g].retired \/ entry[g].leases > 0 \/ entry[g].streams > 0))

\* The close function waits for the last user.
Used == \A g \in Generation : Users(g) # {} => life[g].stores = "open"

GInv == GenerationsTypeOK /\ Counted /\ Bound /\ Agree /\ Held /\ Used

-----------------------------------------------------------------------------
(* Counting. *)

\* The holders of a generation are finitely many.
LEMMA HoldersFinite ==
  ASSUME NEW g
  PROVE  /\ IsFiniteSet(Leases(g)) /\ IsFiniteSet(Streams(g)) /\ IsFiniteSet(Users(g))
         /\ Cardinality(Leases(g)) \in Nat /\ Cardinality(Streams(g)) \in Nat
         /\ Cardinality(Users(g)) \in Nat
<1>1. Leases(g) \subseteq Lease /\ Streams(g) \subseteq Stream /\ Users(g) \subseteq User
  BY DEF Leases, Streams, Users
<1>2. IsFiniteSet(Leases(g)) /\ IsFiniteSet(Streams(g)) /\ IsFiniteSet(Users(g))
  BY <1>1, FiniteAssumption, FS_Subset
<1> QED
  BY <1>2, FS_CardinalityType

\* A count is zero exactly when nobody holds the generation.
LEMMA NobodyIsZero ==
  ASSUME NEW g
  PROVE  /\ Cardinality(Leases(g)) = 0 <=> Leases(g) = {}
         /\ Cardinality(Streams(g)) = 0 <=> Streams(g) = {}
         /\ Cardinality(Users(g)) = 0 <=> Users(g) = {}
BY HoldersFinite, FS_EmptySet

\* One more holder is one more in the count.
LEMMA OneMore ==
  ASSUME NEW S, NEW T, IsFiniteSet(S), NEW x, x \notin S, T = S \cup {x}
  PROVE  Cardinality(T) = Cardinality(S) + 1
BY FS_AddElement

\* One holder less is one less, and there was at least one.
LEMMA OneLess ==
  ASSUME NEW S, NEW T, IsFiniteSet(S), NEW x \in S, T = S \ {x}
  PROVE  Cardinality(T) = Cardinality(S) - 1 /\ Cardinality(S) > 0
<1>1. Cardinality(T) = Cardinality(S) - 1
  BY FS_RemoveElement
<1>2. S # {} /\ Cardinality(S) \in Nat
  BY FS_CardinalityType
<1> QED
  BY <1>1, <1>2, FS_EmptySet

\* The streams that go with a lease are among those of its generation.
LEMMA OwnedLess ==
  ASSUME NEW S, NEW T, NEW U, IsFiniteSet(S), U \subseteq S, T = S \ U
  PROVE  /\ Cardinality(T) = Cardinality(S) - Cardinality(U)
         /\ Cardinality(T) \in Nat
<1>1. S \cap U = U
  OBVIOUS
<1>2. IsFiniteSet(T) /\ Cardinality(T) = Cardinality(S) - Cardinality(S \cap U)
  BY FS_Difference
<1> QED
  BY <1>1, <1>2, FS_CardinalityType

-----------------------------------------------------------------------------
\* The invariant holds before anything is built.
LEMMA InitInv == GenerationsInit => GInv
<1> SUFFICES ASSUME GenerationsInit PROVE GInv
  OBVIOUS
<1> USE DEF GenerationsInit
<1>1. GenerationsTypeOK
  BY DEF GenerationsTypeOK, Entry, NoEntry, NoLease, NoStream, Life
<1>2. \A g \in Generation : Leases(g) = {} /\ Streams(g) = {} /\ Users(g) = {}
  BY NamesAssumption DEF Leases, Streams, Users, NoLease, NoStream
<1>3. Counted
  BY <1>2, FS_EmptySet DEF Counted, NoEntry
<1>4. Bound
  BY DEF Bound, NoLease, NoStream
<1>5. Agree /\ Held
  BY DEF Agree, Held, NoEntry
<1> QED
  BY <1>1, <1>2, <1>3, <1>4, <1>5 DEF GInv, Used

-----------------------------------------------------------------------------
(* The steps of the registry. *)

\* AcquireExisting: one more lease of a generation that is not retired.
LEMMA AcquireExistingInv ==
  ASSUME GInv, NEW g \in Generation, NEW l \in Lease, AcquireExisting(g, l)
  PROVE  GInv'
<1> USE DEF GInv
<1>1. /\ lease[l] = NoLease /\ entry[g].known /\ ~ entry[g].retired
      /\ entry' = [entry EXCEPT ![g].leases = @ + 1]
      /\ lease' = [lease EXCEPT ![l] = [gen |-> g, stage |-> "open"]]
      /\ stream' = stream /\ life' = life /\ user' = user
  BY DEF AcquireExisting, Free, Bind, lifecycle, GenerationsTypeOK, NoLease
<1>2. GenerationsTypeOK'
  BY <1>1 DEF GenerationsTypeOK, Entry
<1>3. /\ Leases(g)' = Leases(g) \cup {l} /\ l \notin Leases(g)
      /\ \A h \in Generation : h # g => Leases(h)' = Leases(h)
      /\ \A h \in Generation : Streams(h)' = Streams(h) /\ Users(h)' = Users(h)
  BY <1>1, NamesAssumption DEF Leases, Streams, Users, GenerationsTypeOK, NoLease
<1>4. Cardinality(Leases(g)') = Cardinality(Leases(g)) + 1
  BY <1>3, HoldersFinite, OneMore
<1>5. Counted'
  BY <1>1, <1>3, <1>4 DEF Counted, GenerationsTypeOK, Entry
<1>6. Bound'
  BY <1>1, NamesAssumption DEF Bound, Open, GenerationsTypeOK, Entry, NoLease
<1>7. Agree' /\ Held' /\ Used'
  BY <1>1, <1>3 DEF Agree, Held, Used, GenerationsTypeOK, Entry
<1> QED
  BY <1>2, <1>5, <1>6, <1>7

\* Lease.Stream, RedactionStream: one more stream of a generation that an open
\* lease holds, so its variants are still kept.
LEMMA OpenStreamInv ==
  ASSUME GInv, NEW l \in Lease, NEW s \in Stream, NEW owner \in Lease \cup {None},
         OpenStream(l, s, owner)
  PROVE  GInv'
<1> USE DEF GInv
<1>0. PICK g \in Generation : g = lease[l].gen
  BY DEF OpenStream, Open, GenerationsTypeOK, NoLease
<1>1. /\ lease[l] = [gen |-> g, stage |-> "open"] /\ owner \in {l, None} /\ stream[s] = NoStream
      /\ entry' = [entry EXCEPT ![g].streams = @ + 1]
      /\ stream' = [stream EXCEPT ![s] = [gen |-> g, owner |-> owner]]
      /\ lease' = lease /\ life' = life /\ user' = user
  BY <1>0 DEF OpenStream, Open, lifecycle, GenerationsTypeOK, NoLease
<1>2. entry[g].known /\ g # None
  BY <1>1, NamesAssumption DEF Bound
<1>3. GenerationsTypeOK'
  BY <1>1 DEF GenerationsTypeOK, Entry
<1>4. /\ Streams(g)' = Streams(g) \cup {s} /\ s \notin Streams(g)
      /\ \A h \in Generation : h # g => Streams(h)' = Streams(h)
      /\ \A h \in Generation : Leases(h)' = Leases(h) /\ Users(h)' = Users(h)
  <2>1. stream[s].gen = None /\ stream'[s].gen = g
        /\ \A r \in Stream : r # s => stream'[r] = stream[r]
    BY <1>1 DEF GenerationsTypeOK, NoStream
  <2>2. s \notin Streams(g) /\ Streams(g)' = Streams(g) \cup {s}
    BY <1>2, <2>1 DEF Streams
  <2>3. \A h \in Generation : h # g => Streams(h)' = Streams(h)
    BY <2>1, NamesAssumption DEF Streams
  <2> QED
    BY <1>1, <2>2, <2>3 DEF Leases, Users
<1>5. Cardinality(Streams(g)') = Cardinality(Streams(g)) + 1
  BY <1>4, HoldersFinite, OneMore
<1>6. Counted'
  BY <1>1, <1>4, <1>5 DEF Counted, GenerationsTypeOK, Entry
<1>7. Bound'
  BY <1>1, <1>2 DEF Bound, Open, GenerationsTypeOK, Entry, NoStream
<1>8. entry[g].leases > 0
  <2>1. Leases(g) # {}
    BY <1>1 DEF Leases
  <2> QED
    BY <2>1, HoldersFinite, NobodyIsZero DEF Counted
<1>9. Agree' /\ Held' /\ Used'
  BY <1>1, <1>2, <1>4, <1>8 DEF Agree, Held, Used, GenerationsTypeOK, Entry
<1> QED
  BY <1>3, <1>6, <1>7, <1>9

\* releaseRetiredLocked drops the variants exactly when the counts say so, and
\* changes nothing else.
LEMMA ReleaseRetired ==
  ASSUME NEW e \in Entry, e.held
  PROVE  /\ releaseRetiredLocked(e) \in Entry
         /\ releaseRetiredLocked(e).known = e.known
         /\ releaseRetiredLocked(e).retired = e.retired
         /\ releaseRetiredLocked(e).leases = e.leases
         /\ releaseRetiredLocked(e).streams = e.streams
         /\ releaseRetiredLocked(e).held <=> (~ e.retired \/ e.leases > 0 \/ e.streams > 0)
<1>1. CASE e.retired /\ e.leases = 0 /\ e.streams = 0
  <2>1. releaseRetiredLocked(e) = [e EXCEPT !.held = FALSE]
    BY <1>1 DEF releaseRetiredLocked
  <2>2. releaseRetiredLocked(e) \in Entry /\ releaseRetiredLocked(e).held = FALSE
    BY <2>1 DEF Entry
  <2>3. /\ releaseRetiredLocked(e).known = e.known /\ releaseRetiredLocked(e).retired = e.retired
        /\ releaseRetiredLocked(e).leases = e.leases /\ releaseRetiredLocked(e).streams = e.streams
    BY <2>1 DEF Entry
  <2> QED
    BY <1>1, <2>2, <2>3
<1>2. CASE ~ (e.retired /\ e.leases = 0 /\ e.streams = 0)
  <2>1. releaseRetiredLocked(e) = e
    BY <1>2 DEF releaseRetiredLocked
  <2>2. e.leases \in Nat /\ e.streams \in Nat
    BY DEF Entry
  <2> QED
    BY <1>2, <2>1, <2>2
<1> QED
  BY <1>1, <1>2

\* AdmissionStream.Close: the stream was counted, so its generation still holds
\* the variants, and drops them if it was the last.
LEMMA CloseStreamInv ==
  ASSUME GInv, NEW s \in Stream, CloseStream(s)
  PROVE  GInv'
<1> USE DEF GInv
<1>0. PICK g \in Generation : g = stream[s].gen
  BY DEF CloseStream, GenerationsTypeOK
<1>1. /\ stream[s].gen = g /\ g # None /\ entry[g].known
  BY <1>0, NamesAssumption DEF Bound
<1>2. Streams(g) # {} /\ s \in Streams(g)
  BY <1>1 DEF Streams
<1>3. entry[g].streams > 0
  BY <1>2, HoldersFinite, NobodyIsZero DEF Counted
<1> DEFINE e == LessStream(entry[g])
<1>4. /\ e \in Entry /\ e.held /\ e.known /\ e.retired = entry[g].retired
      /\ e.leases = entry[g].leases /\ e.streams = entry[g].streams - 1
  BY <1>1, <1>3 DEF GenerationsTypeOK, Entry, Held, LessStream
<1>5. /\ entry' = [entry EXCEPT ![g] = releaseRetiredLocked(e)]
      /\ stream' = [stream EXCEPT ![s] = NoStream]
      /\ lease' = lease /\ life' = life /\ user' = user
  BY <1>0 DEF CloseStream, lifecycle
<1> HIDE DEF e
<1>6. /\ entry'[g] \in Entry /\ entry'[g].known /\ entry'[g].retired = entry[g].retired
      /\ entry'[g].leases = entry[g].leases /\ entry'[g].streams = entry[g].streams - 1
      /\ entry'[g].held <=> (~ entry'[g].retired \/ entry'[g].leases > 0 \/ entry'[g].streams > 0)
  <2>1. entry'[g] = releaseRetiredLocked(e)
    BY <1>5 DEF GenerationsTypeOK
  <2> QED
    BY <1>4, <2>1, ReleaseRetired
<1>7. \A h \in Generation : h # g => entry'[h] = entry[h]
  BY <1>5 DEF GenerationsTypeOK
<1>8. GenerationsTypeOK'
  BY <1>5, <1>6 DEF GenerationsTypeOK
<1>9. /\ Streams(g)' = Streams(g) \ {s}
      /\ \A h \in Generation : h # g => Streams(h)' = Streams(h)
      /\ \A h \in Generation : Leases(h)' = Leases(h) /\ Users(h)' = Users(h)
  <2>1. stream'[s].gen = None /\ \A r \in Stream : r # s => stream'[r] = stream[r]
    BY <1>5 DEF GenerationsTypeOK, NoStream
  <2>2. Streams(g)' = Streams(g) \ {s}
    BY <1>1, <2>1 DEF Streams
  <2>3. \A h \in Generation : h # g => Streams(h)' = Streams(h)
    BY <1>1, <2>1, NamesAssumption DEF Streams
  <2> QED
    BY <1>5, <2>2, <2>3 DEF Leases, Users
<1>10. Cardinality(Streams(g)') = Cardinality(Streams(g)) - 1
  BY <1>2, <1>9, HoldersFinite, OneLess
<1>11. Counted'
  BY <1>5, <1>6, <1>7, <1>9, <1>10 DEF Counted
<1>12. Bound'
  BY <1>5, <1>6, <1>7, <1>1 DEF Bound, Open, GenerationsTypeOK, NoStream
<1>13. Agree' /\ Held' /\ Used'
  BY <1>1, <1>5, <1>6, <1>7, <1>9 DEF Agree, Held, Used
<1> QED
  BY <1>8, <1>11, <1>12, <1>13

\* Lease.Close, first half: the lease still counts, so the variants stay.
LEMMA CloseLeaseInv ==
  ASSUME GInv, NEW l \in Lease, CloseLease(l)
  PROVE  GInv'
<1> USE DEF GInv
<1>0. PICK g \in Generation : g = lease[l].gen
  BY DEF CloseLease, Open, GenerationsTypeOK, NoLease
<1>1. /\ lease[l] = [gen |-> g, stage |-> "open"] /\ g # None /\ entry[g].known
      /\ lease' = [lease EXCEPT ![l].stage = "closing"]
      /\ entry' = [entry EXCEPT ![g].streams = @ - Cardinality(Owned(l))]
      /\ stream' = [s \in Stream |-> IF s \in Owned(l) THEN NoStream ELSE stream[s]]
      /\ life' = life /\ user' = user
  BY <1>0, NamesAssumption DEF CloseLease, Open, Bound, lifecycle, GenerationsTypeOK, NoLease
<1>2. Owned(l) \subseteq Streams(g)
  BY <1>1, NamesAssumption DEF Owned, Streams, Bound
<1>3. /\ Streams(g)' = Streams(g) \ Owned(l)
      /\ \A h \in Generation : h # g => Streams(h)' = Streams(h)
  <2>1. \A s \in Stream : s \in Owned(l) => stream'[s].gen = None /\ stream[s].gen = g
    BY <1>1, <1>2 DEF NoStream, Streams, Owned
  <2>2. \A s \in Stream : s \notin Owned(l) => stream'[s] = stream[s]
    BY <1>1
  <2>3. Streams(g)' = Streams(g) \ Owned(l)
    BY <1>1, <2>1, <2>2 DEF Streams
  <2>4. \A h \in Generation : h # g => Streams(h)' = Streams(h)
    BY <2>1, <2>2, NamesAssumption DEF Streams
  <2> QED
    BY <2>3, <2>4
<1>4. /\ Cardinality(Streams(g)') = entry[g].streams - Cardinality(Owned(l))
      /\ Cardinality(Streams(g)') \in Nat
  BY <1>2, <1>3, HoldersFinite, OwnedLess DEF Counted
<1>5. /\ entry'[g] = [entry[g] EXCEPT !.streams = @ - Cardinality(Owned(l))]
      /\ \A h \in Generation : h # g => entry'[h] = entry[h]
  BY <1>1 DEF GenerationsTypeOK
<1>6. /\ entry'[g] \in Entry /\ entry'[g].streams = Cardinality(Streams(g)')
      /\ entry'[g].known = entry[g].known /\ entry'[g].retired = entry[g].retired
      /\ entry'[g].held = entry[g].held /\ entry'[g].leases = entry[g].leases
  <2>1. entry[g] \in Entry
    BY DEF GenerationsTypeOK
  <2>2. entry'[g] = [entry[g] EXCEPT !.streams = Cardinality(Streams(g)')]
    BY <1>4, <1>5
  <2> QED
    BY <1>4, <2>1, <2>2 DEF Entry
<1>7. /\ lease' \in [Lease -> [gen : Generation, stage : {"open", "closing"}] \cup {NoLease}]
      /\ \A k \in Lease : lease'[k].gen = lease[k].gen /\ (k # l => lease'[k] = lease[k])
  BY <1>1 DEF GenerationsTypeOK
<1>8. GenerationsTypeOK'
  BY <1>1, <1>5, <1>6, <1>7 DEF GenerationsTypeOK
<1>9. \A h \in Generation : Leases(h)' = Leases(h) /\ Users(h)' = Users(h)
  BY <1>1, <1>7 DEF Leases, Users
<1>10. Counted'
  <2> SUFFICES ASSUME NEW h \in Generation
               PROVE  /\ entry'[h].leases = Cardinality(Leases(h)')
                      /\ entry'[h].streams = Cardinality(Streams(h)')
                      /\ life'[h].active = Cardinality(Users(h)')
    BY DEF Counted
  <2>1. CASE h = g
    BY <1>1, <1>6, <1>9, <2>1 DEF Counted
  <2>2. CASE h # g
    BY <1>1, <1>3, <1>5, <1>9, <2>2 DEF Counted
  <2> QED
    BY <2>1, <2>2
<1>11. Bound'
  <2>1. \A k \in Lease : lease'[k].gen # None => entry'[lease'[k].gen].known
    <3>1. \A k \in Lease : lease[k].gen # None => lease[k].gen \in Generation
      BY DEF GenerationsTypeOK, NoLease
    <3>2. \A h \in Generation : entry'[h].known = entry[h].known
      BY <1>5, <1>6
    <3> QED
      BY <1>7, <3>1, <3>2 DEF Bound
  <2>2. \A s \in Stream : stream'[s].gen # None => entry'[stream'[s].gen].known
    BY <1>1, <1>5, <1>6 DEF Bound, NoStream
  <2>3. \A s \in Stream : stream'[s].owner # None =>
          stream'[s] = stream[s] /\ stream[s].owner \in Lease /\ stream[s].owner # l
    BY <1>1 DEF NoStream, Owned, GenerationsTypeOK
  <2> QED
    BY <1>7, <2>1, <2>2, <2>3 DEF Bound, Open
<1>12. entry[g].leases > 0
  <2>1. Leases(g) # {}
    BY <1>1 DEF Leases
  <2> QED
    BY <2>1, HoldersFinite, NobodyIsZero DEF Counted
<1>13. Agree' /\ Held' /\ Used'
  BY <1>1, <1>5, <1>6, <1>9, <1>12 DEF Agree, Held, Used
<1> QED
  BY <1>8, <1>10, <1>11, <1>13

\* Lease.Close, second half: no stream goes with the lease any more, and the last
\* holder of a retired generation drops its variants.
LEMMA DropLeaseInv ==
  ASSUME GInv, NEW l \in Lease, DropLease(l)
  PROVE  GInv'
<1> USE DEF GInv
<1>0. PICK g \in Generation : g = lease[l].gen
  BY DEF DropLease, GenerationsTypeOK, NoLease
<1>1. lease[l] = [gen |-> g, stage |-> "closing"] /\ g # None /\ entry[g].known
  BY <1>0, NamesAssumption DEF DropLease, Bound, GenerationsTypeOK, NoLease
<1>2. l \in Leases(g)
  BY <1>1 DEF Leases
<1>3. entry[g].leases > 0
  BY <1>2, HoldersFinite, NobodyIsZero DEF Counted
<1> DEFINE e == LessLease(entry[g])
<1>4. /\ e \in Entry /\ e.held /\ e.known /\ e.retired = entry[g].retired
      /\ e.leases = entry[g].leases - 1 /\ e.streams = entry[g].streams
  BY <1>1, <1>3 DEF GenerationsTypeOK, Entry, Held, LessLease
<1>5. /\ entry' = [entry EXCEPT ![g] = releaseRetiredLocked(e)]
      /\ lease' = [lease EXCEPT ![l] = NoLease]
      /\ stream' = stream /\ life' = life /\ user' = user
  BY <1>0 DEF DropLease, lifecycle
<1> HIDE DEF e
<1>6. /\ entry'[g] \in Entry /\ entry'[g].known /\ entry'[g].retired = entry[g].retired
      /\ entry'[g].leases = entry[g].leases - 1 /\ entry'[g].streams = entry[g].streams
      /\ entry'[g].held <=> (~ entry'[g].retired \/ entry'[g].leases > 0 \/ entry'[g].streams > 0)
  <2>1. entry'[g] = releaseRetiredLocked(e)
    BY <1>5 DEF GenerationsTypeOK
  <2> QED
    BY <1>4, <2>1, ReleaseRetired
<1>7. \A h \in Generation : h # g => entry'[h] = entry[h]
  BY <1>5 DEF GenerationsTypeOK
<1>8. lease'[l].gen = None /\ \A k \in Lease : k # l => lease'[k] = lease[k]
  BY <1>5 DEF GenerationsTypeOK, NoLease
<1>9. GenerationsTypeOK'
  BY <1>5, <1>6 DEF GenerationsTypeOK
<1>10. /\ Leases(g)' = Leases(g) \ {l}
       /\ \A h \in Generation : h # g => Leases(h)' = Leases(h)
       /\ \A h \in Generation : Streams(h)' = Streams(h) /\ Users(h)' = Users(h)
  <2>1. Leases(g)' = Leases(g) \ {l}
    BY <1>1, <1>8 DEF Leases
  <2>2. \A h \in Generation : h # g => Leases(h)' = Leases(h)
    BY <1>1, <1>8, NamesAssumption DEF Leases
  <2> QED
    BY <1>5, <2>1, <2>2 DEF Streams, Users
<1>11. Cardinality(Leases(g)') = Cardinality(Leases(g)) - 1
  BY <1>2, <1>10, HoldersFinite, OneLess
<1>12. Counted'
  BY <1>5, <1>6, <1>7, <1>10, <1>11 DEF Counted
<1>13. Bound'
  <2>1. \A k \in Lease : lease[k].gen # None => lease[k].gen \in Generation
    BY DEF GenerationsTypeOK, NoLease
  <2>2. \A s \in Stream : stream[s].gen # None => stream[s].gen \in Generation
    BY DEF GenerationsTypeOK, NoStream
  <2>3. \A h \in Generation : entry'[h].known <=> entry[h].known
    BY <1>1, <1>6, <1>7
  <2>4. \A s \in Stream : stream[s].owner # None => stream[s].owner \in Lease \ {l}
    BY <1>1 DEF Bound, Open, GenerationsTypeOK, NoStream
  <2> QED
    BY <1>5, <1>8, <2>1, <2>2, <2>3, <2>4 DEF Bound, Open
<1>14. Agree' /\ Held' /\ Used'
  BY <1>1, <1>5, <1>6, <1>7, <1>10 DEF Agree, Held, Used
<1> QED
  BY <1>9, <1>12, <1>13, <1>14

-----------------------------------------------------------------------------
(* The steps of the lifecycle. *)

\* build: the first lease of a generation nobody holds yet.
LEMMA BuildInv ==
  ASSUME GInv, NEW g \in Generation, NEW l \in Lease, Build(g, l)
  PROVE  GInv'
<1> USE DEF GInv
<1>1. /\ ~ entry[g].known /\ lease[l] = NoLease
      /\ entry' = [entry EXCEPT ![g] = NewEntry]
      /\ lease' = [lease EXCEPT ![l] = [gen |-> g, stage |-> "open"]]
      /\ life' = [life EXCEPT ![g].stores = "open"]
      /\ stream' = stream /\ user' = user
  BY DEF Build, Free, Bind, GenerationsTypeOK, NoLease
<1>2. GenerationsTypeOK'
  BY <1>1 DEF GenerationsTypeOK, Entry, NewEntry, Life
<1>3. Leases(g) = {} /\ Streams(g) = {} /\ Users(g) = {}
  BY <1>1, NamesAssumption DEF Leases, Streams, Users, Bound, Agree, Used
<1>4. lease'[l].gen = g /\ \A k \in Lease : k # l => lease'[k] = lease[k]
  BY <1>1 DEF GenerationsTypeOK
<1>5. /\ Leases(g)' = {l} /\ \A h \in Generation : h # g => Leases(h)' = Leases(h)
      /\ \A h \in Generation : Streams(h)' = Streams(h) /\ Users(h)' = Users(h)
  <2>1. Leases(g)' = {l}
    BY <1>3, <1>4 DEF Leases
  <2>2. \A h \in Generation : h # g => Leases(h)' = Leases(h)
    BY <1>1, <1>4, NamesAssumption DEF Leases, NoLease
  <2> QED
    BY <1>1, <2>1, <2>2 DEF Streams, Users
<1>6. /\ Cardinality(Leases(g)') = 1 /\ Cardinality(Streams(g)') = 0
      /\ Cardinality(Users(g)') = 0
  BY <1>3, <1>5, FS_Singleton, FS_EmptySet
<1>7. /\ entry'[g] = NewEntry /\ \A h \in Generation : h # g => entry'[h] = entry[h]
      /\ life'[g] = [life[g] EXCEPT !.stores = "open"]
      /\ \A h \in Generation : h # g => life'[h] = life[h]
  BY <1>1 DEF GenerationsTypeOK
<1>8. /\ life'[g].active = life[g].active /\ life'[g].stores = "open"
      /\ entry'[g].known /\ entry'[g].held /\ ~ entry'[g].retired
      /\ entry'[g].leases = 1 /\ entry'[g].streams = 0
  BY <1>7 DEF GenerationsTypeOK, Life, NewEntry
<1>9. life[g].active = 0
  BY <1>3, FS_EmptySet DEF Counted
<1>10. Counted'
  <2> SUFFICES ASSUME NEW h \in Generation
               PROVE  /\ entry'[h].leases = Cardinality(Leases(h)')
                      /\ entry'[h].streams = Cardinality(Streams(h)')
                      /\ life'[h].active = Cardinality(Users(h)')
    BY DEF Counted
  <2>1. CASE h = g
    BY <1>6, <1>8, <1>9, <2>1 DEF Counted
  <2>2. CASE h # g
    BY <1>5, <1>7, <2>2 DEF Counted
  <2> QED
    BY <2>1, <2>2
<1>11. Bound'
  BY <1>1, <1>4, <1>7, NamesAssumption DEF Bound, Open, NewEntry, NoLease, GenerationsTypeOK
<1>12. Agree' /\ Held' /\ Used'
  <2>1. Agree'
    <3> SUFFICES ASSUME NEW h \in Generation
                 PROVE  /\ entry'[h].known <=> life'[h].stores # "none"
                        /\ entry'[h].known => (entry'[h].retired <=> life'[h].stores = "closed")
                        /\ life'[h].stores \in {"closing", "closed"} => life'[h].retired
      BY DEF Agree
    <3>1. CASE h = g
      BY <1>8, <3>1
    <3>2. CASE h # g
      BY <1>7, <3>2 DEF Agree
    <3> QED
      BY <3>1, <3>2
  <2>2. Held'
    BY <1>7, <1>8 DEF Held
  <2>3. Used'
    BY <1>5, <1>7, <1>8 DEF Used
  <2> QED
    BY <2>1, <2>2, <2>3
<1> QED
  BY <1>2, <1>10, <1>11, <1>12

\* A failing build gives everything back: the generation is known, retired and
\* held by nobody.
LEMMA BuildFailsInv ==
  ASSUME GInv, NEW g \in Generation, BuildFails(g)
  PROVE  GInv'
<1> USE DEF GInv
<1> DEFINE e == [NewEntry EXCEPT !.leases = 0, !.retired = TRUE]
<1>1. /\ ~ entry[g].known
      /\ entry' = [entry EXCEPT ![g] = releaseRetiredLocked(e)]
      /\ life' = [life EXCEPT ![g].stores = "closed", ![g].retired = TRUE]
      /\ lease' = lease /\ stream' = stream /\ user' = user
  BY DEF BuildFails
<1>2. /\ e \in Entry /\ e.held /\ e.known /\ e.retired /\ e.leases = 0 /\ e.streams = 0
  BY DEF Entry, NewEntry
<1> HIDE DEF e
<1>3. /\ entry'[g] \in Entry /\ entry'[g].known /\ entry'[g].retired /\ ~ entry'[g].held
      /\ entry'[g].leases = 0 /\ entry'[g].streams = 0
  <2>1. entry'[g] = releaseRetiredLocked(e)
    BY <1>1 DEF GenerationsTypeOK
  <2> QED
    BY <1>2, <2>1, ReleaseRetired
<1>4. /\ \A h \in Generation : h # g => entry'[h] = entry[h] /\ life'[h] = life[h]
      /\ life'[g].active = life[g].active /\ life'[g].stores = "closed" /\ life'[g].retired
      /\ life' \in [Generation -> Life]
  BY <1>1 DEF GenerationsTypeOK, Life
<1>5. GenerationsTypeOK'
  BY <1>1, <1>3, <1>4 DEF GenerationsTypeOK
<1>6. Leases(g) = {} /\ Streams(g) = {} /\ Users(g) = {}
  BY <1>1, NamesAssumption DEF Leases, Streams, Users, Bound, Agree, Used
<1>7. \A h \in Generation :
        Leases(h)' = Leases(h) /\ Streams(h)' = Streams(h) /\ Users(h)' = Users(h)
  BY <1>1 DEF Leases, Streams, Users
<1>8. /\ Cardinality(Leases(g)) = 0 /\ Cardinality(Streams(g)) = 0 /\ life[g].active = 0
      /\ Cardinality(Users(g)) = 0
  BY <1>6, FS_EmptySet DEF Counted
<1>9. Counted'
  BY <1>3, <1>4, <1>7, <1>8 DEF Counted
<1>10. Bound'
  BY <1>1, <1>3, <1>4 DEF Bound, Open, GenerationsTypeOK, NoLease, NoStream
<1>11. Agree'
  <2> SUFFICES ASSUME NEW h \in Generation
               PROVE  /\ entry'[h].known <=> life'[h].stores # "none"
                      /\ entry'[h].known => (entry'[h].retired <=> life'[h].stores = "closed")
                      /\ life'[h].stores \in {"closing", "closed"} => life'[h].retired
    BY DEF Agree
  <2>1. CASE h = g
    BY <1>3, <1>4, <2>1
  <2>2. CASE h # g
    BY <1>4, <2>2 DEF Agree
  <2> QED
    BY <2>1, <2>2
<1>12. Held' /\ Used'
  BY <1>3, <1>4, <1>6, <1>7 DEF Held, Used
<1> QED
  BY <1>5, <1>9, <1>10, <1>11, <1>12

\* The registry rests while the lifecycle of one generation changes.
LEMMA LifecycleInv ==
  ASSUME GInv, NEW g \in Generation, UNCHANGED secrets,
         life' \in [Generation -> Life], user' \in [User -> Generation \cup {None}],
         \A h \in Generation : h # g => life'[h] = life[h] /\ Users(h)' = Users(h),
         life'[g].active = Cardinality(Users(g)'),
         life'[g].stores = "none" <=> life[g].stores = "none",
         life'[g].stores = "closed" <=> life[g].stores = "closed",
         life'[g].stores \in {"closing", "closed"} => life'[g].retired,
         Users(g)' # {} => life'[g].stores = "open"
  PROVE  GInv'
<1> USE DEF GInv
<1>1. entry' = entry /\ lease' = lease /\ stream' = stream
  BY DEF secrets
<1>2. GenerationsTypeOK'
  BY <1>1 DEF GenerationsTypeOK
<1>3. \A h \in Generation : Leases(h)' = Leases(h) /\ Streams(h)' = Streams(h)
  BY <1>1 DEF Leases, Streams
<1>4. Counted'
  BY <1>1, <1>3 DEF Counted
<1>5. Bound' /\ Held'
  BY <1>1 DEF Bound, Open, Held
<1>6. Agree' /\ Used'
  BY <1>1 DEF Agree, Used
<1> QED
  BY <1>2, <1>4, <1>5, <1>6

\* acquire: the generation is not retired, so its stores are open.
LEMMA AcquireInv ==
  ASSUME GInv, NEW g \in Generation, NEW u \in User, acquire(u, g)
  PROVE  GInv'
<1> USE DEF GInv
<1>1. /\ user[u] = None /\ life[g].stores # "none" /\ ~ life[g].retired
      /\ life' = [life EXCEPT ![g].active = @ + 1] /\ user' = [user EXCEPT ![u] = g]
      /\ UNCHANGED secrets
  BY DEF acquire
<1>2. life[g].stores = "open"
  BY <1>1 DEF Agree, GenerationsTypeOK, Life
<1>3. /\ life' \in [Generation -> Life]
      /\ life'[g].active = life[g].active + 1 /\ life'[g].stores = "open"
      /\ life'[g].retired = life[g].retired
      /\ \A h \in Generation : h # g => life'[h] = life[h]
  BY <1>1, <1>2 DEF GenerationsTypeOK, Life
<1>4. /\ user' \in [User -> Generation \cup {None}]
      /\ user'[u] = g /\ \A v \in User : v # u => user'[v] = user[v]
  BY <1>1 DEF GenerationsTypeOK
<1>5. /\ Users(g)' = Users(g) \cup {u} /\ u \notin Users(g)
      /\ \A h \in Generation : h # g => Users(h)' = Users(h)
  BY <1>1, <1>4, NamesAssumption DEF Users
<1>6. Cardinality(Users(g)') = Cardinality(Users(g)) + 1
  BY <1>5, HoldersFinite, OneMore
<1>7. life'[g].active = Cardinality(Users(g)')
  BY <1>3, <1>6 DEF Counted
<1> QED
  BY <1>1, <1>2, <1>3, <1>4, <1>5, <1>7, LifecycleInv

\* release: the close function starts behind the last user of a retired one.
LEMMA ReleaseInv ==
  ASSUME GInv, NEW u \in User, release(u)
  PROVE  GInv'
<1> USE DEF GInv
<1>0. PICK g \in Generation : g = user[u]
  BY DEF release, GenerationsTypeOK
<1> DEFINE f == LessUser(life[g])
<1>1. /\ user[u] = g /\ g # None
      /\ life' = [life EXCEPT ![g] = Closes(f)] /\ user' = [user EXCEPT ![u] = None]
      /\ UNCHANGED secrets
  BY <1>0 DEF release
<1>2. u \in Users(g) /\ life[g].stores = "open"
  BY <1>1 DEF Users, Used
<1>3. /\ user' \in [User -> Generation \cup {None}]
      /\ user'[u] = None /\ \A v \in User : v # u => user'[v] = user[v]
  BY <1>1 DEF GenerationsTypeOK
<1>4. /\ Users(g)' = Users(g) \ {u}
      /\ \A h \in Generation : h # g => Users(h)' = Users(h)
  BY <1>1, <1>3, NamesAssumption DEF Users
<1>5. Cardinality(Users(g)') = Cardinality(Users(g)) - 1 /\ Cardinality(Users(g)) > 0
  BY <1>2, <1>4, HoldersFinite, OneLess
<1>6. /\ f \in Life /\ f.active = Cardinality(Users(g)') /\ f.stores = "open"
  BY <1>2, <1>5 DEF GenerationsTypeOK, Life, LessUser, Counted
<1> HIDE DEF f
<1>7. /\ life' \in [Generation -> Life] /\ life'[g].active = f.active
      /\ life'[g].stores \in {"open", "closing"}
      /\ life'[g].stores = "closing" => life'[g].retired /\ f.active = 0
  <2>1. CASE f.retired /\ f.active = 0
    <3>1. Closes(f) = [f EXCEPT !.stores = "closing"]
      BY <1>6, <2>1 DEF Closes
    <3>2. /\ Closes(f) \in Life /\ Closes(f).active = f.active
          /\ Closes(f).stores = "closing" /\ Closes(f).retired = f.retired
      BY <1>6, <3>1 DEF Life
    <3>3. life'[g] = Closes(f)
      BY <1>1 DEF GenerationsTypeOK
    <3> QED
      BY <1>1, <2>1, <3>2, <3>3 DEF GenerationsTypeOK
  <2>2. CASE ~ (f.retired /\ f.active = 0)
    <3>1. Closes(f) = f
      BY <2>2 DEF Closes
    <3> QED
      BY <1>1, <1>6, <3>1 DEF GenerationsTypeOK
  <2> QED
    BY <2>1, <2>2
<1>8. f.active = 0 => Users(g)' = {}
  BY <1>4, <1>6, HoldersFinite, FS_EmptySet, FS_RemoveElement
<1>9. \A h \in Generation : h # g => life'[h] = life[h]
  BY <1>1 DEF GenerationsTypeOK
<1>10. Users(g)' # {} => life'[g].stores = "open"
  BY <1>7, <1>8
<1> QED
  BY <1>1, <1>2, <1>3, <1>4, <1>6, <1>7, <1>9, <1>10, LifecycleInv

\* retire: the close function starts at once when nobody uses the generation.
LEMMA RetireLifecycleInv ==
  ASSUME GInv, NEW g \in Generation, retire(g)
  PROVE  GInv'
<1> USE DEF GInv
<1> DEFINE f == [life[g] EXCEPT !.retired = TRUE]
<1>1. /\ life[g].stores # "none" /\ life' = [life EXCEPT ![g] = Closes(f)]
      /\ UNCHANGED secrets /\ user' = user
  BY DEF retire
<1>2. /\ f \in Life /\ f.active = life[g].active /\ f.stores = life[g].stores /\ f.retired
  BY DEF GenerationsTypeOK, Life
<1> HIDE DEF f
<1>3. \A h \in Generation : Users(h)' = Users(h)
  BY <1>1 DEF Users
<1>4. \A h \in Generation : h # g => life'[h] = life[h]
  BY <1>1 DEF GenerationsTypeOK
<1>5. CASE f.active = 0 /\ f.stores = "open"
  <2>1. Closes(f) = [f EXCEPT !.stores = "closing"]
    BY <1>2, <1>5 DEF Closes
  <2>2. /\ Closes(f) \in Life /\ Closes(f).active = f.active
        /\ Closes(f).stores = "closing" /\ Closes(f).retired
    BY <1>2, <2>1 DEF Life
  <2>3. life'[g] = Closes(f) /\ life' \in [Generation -> Life]
    BY <1>1, <2>2 DEF GenerationsTypeOK
  <2>4. Users(g) = {}
    BY <1>2, <1>5, NobodyIsZero DEF Counted
  <2>5. life'[g].active = Cardinality(Users(g)')
    BY <1>2, <1>3, <2>2, <2>3 DEF Counted
  <2>6. user' \in [User -> Generation \cup {None}] /\ Users(g)' = {}
    BY <1>1, <1>3, <2>4 DEF GenerationsTypeOK
  <2> QED
    BY <1>1, <1>2, <1>3, <1>4, <1>5, <2>2, <2>3, <2>5, <2>6, LifecycleInv
<1>6. CASE ~ (f.active = 0 /\ f.stores = "open")
  <2>1. Closes(f) = f
    BY <1>6 DEF Closes
  <2>2. life'[g] = f /\ life' \in [Generation -> Life]
    BY <1>1, <1>2, <2>1 DEF GenerationsTypeOK
  <2>3. life'[g].active = Cardinality(Users(g)')
    BY <1>2, <1>3, <2>2 DEF Counted
  <2>4. /\ user' \in [User -> Generation \cup {None}]
        /\ Users(g)' # {} => life'[g].stores = "open"
    BY <1>1, <1>2, <1>3, <2>2 DEF Used, GenerationsTypeOK
  <2> QED
    BY <1>1, <1>2, <1>3, <1>4, <2>2, <2>3, <2>4, LifecycleInv
<1> QED
  BY <1>5, <1>6

\* Registry.Retire, from the close function: nobody uses the generation, and its
\* variants go unless a lease or a stream over it is still open.
LEMMA RetireInv ==
  ASSUME GInv, NEW g \in Generation, Retire(g)
  PROVE  GInv'
<1> USE DEF GInv
<1> DEFINE e == [entry[g] EXCEPT !.retired = TRUE]
<1>1. /\ life[g].stores = "closing" /\ ~ entry[g].retired
      /\ entry' = [entry EXCEPT ![g] = releaseRetiredLocked(e)]
      /\ life' = [life EXCEPT ![g].stores = "closed"]
      /\ lease' = lease /\ stream' = stream /\ user' = user
  BY DEF Retire
<1>2. /\ e \in Entry /\ e.held /\ e.known /\ e.retired
      /\ e.leases = entry[g].leases /\ e.streams = entry[g].streams
  BY <1>1 DEF GenerationsTypeOK, Entry, Agree, Held
<1> HIDE DEF e
<1>3. /\ entry'[g] \in Entry /\ entry'[g].known /\ entry'[g].retired
      /\ entry'[g].leases = entry[g].leases /\ entry'[g].streams = entry[g].streams
      /\ entry'[g].held <=> (~ entry'[g].retired \/ entry'[g].leases > 0 \/ entry'[g].streams > 0)
  <2>1. entry'[g] = releaseRetiredLocked(e)
    BY <1>1 DEF GenerationsTypeOK
  <2> QED
    BY <1>2, <2>1, ReleaseRetired
<1>4. /\ \A h \in Generation : h # g => entry'[h] = entry[h] /\ life'[h] = life[h]
      /\ life'[g].active = life[g].active /\ life'[g].stores = "closed"
      /\ life'[g].retired = life[g].retired /\ life' \in [Generation -> Life]
  BY <1>1 DEF GenerationsTypeOK, Life
<1>5. GenerationsTypeOK'
  BY <1>1, <1>3, <1>4 DEF GenerationsTypeOK
<1>6. Users(g) = {} /\ life[g].retired
  BY <1>1 DEF Used, Agree
<1>7. \A h \in Generation :
        Leases(h)' = Leases(h) /\ Streams(h)' = Streams(h) /\ Users(h)' = Users(h)
  BY <1>1 DEF Leases, Streams, Users
<1>8. Counted'
  BY <1>3, <1>4, <1>7 DEF Counted
<1>9. Bound'
  BY <1>1, <1>3, <1>4 DEF Bound, Open, GenerationsTypeOK, NoLease, NoStream
<1>10. Agree'
  <2> SUFFICES ASSUME NEW h \in Generation
               PROVE  /\ entry'[h].known <=> life'[h].stores # "none"
                      /\ entry'[h].known => (entry'[h].retired <=> life'[h].stores = "closed")
                      /\ life'[h].stores \in {"closing", "closed"} => life'[h].retired
    BY DEF Agree
  <2>1. CASE h = g
    BY <1>3, <1>4, <1>6, <2>1
  <2>2. CASE h # g
    BY <1>4, <2>2 DEF Agree
  <2> QED
    BY <2>1, <2>2
<1>11. Held' /\ Used'
  BY <1>3, <1>4, <1>6, <1>7 DEF Held, Used
<1> QED
  BY <1>5, <1>8, <1>9, <1>10, <1>11

-----------------------------------------------------------------------------
\* A stutter of the generations.
LEMMA StutterInv == GInv /\ UNCHANGED generations => GInv'
<1> SUFFICES ASSUME GInv, UNCHANGED generations PROVE GInv'
  OBVIOUS
<1>1. entry' = entry /\ lease' = lease /\ stream' = stream /\ life' = life /\ user' = user
  BY DEF generations
<1>2. GenerationsTypeOK'
  BY <1>1 DEF GInv, GenerationsTypeOK
<1>3. \A g : Leases(g)' = Leases(g) /\ Streams(g)' = Streams(g) /\ Users(g)' = Users(g)
  BY <1>1 DEF Leases, Streams, Users
<1>4. Counted'
  BY <1>1, <1>3 DEF GInv, Counted
<1>5. Bound' /\ Agree'
  BY <1>1 DEF GInv, Bound, Open, Agree
<1>6. Held' /\ Used'
  BY <1>1, <1>3 DEF GInv, Held, Used
<1> QED
  BY <1>2, <1>4, <1>5, <1>6 DEF GInv

\* Every step of the registry and of the lifecycles keeps the invariant.
LEMMA NextInv == GInv /\ [GenerationsNext]_generations => GInv'
<1> SUFFICES ASSUME GInv, [GenerationsNext]_generations PROVE GInv'
  OBVIOUS
<1>1. CASE \E g \in Generation : BuildFails(g) \/ retire(g) \/ Retire(g)
  BY <1>1, BuildFailsInv, RetireLifecycleInv, RetireInv
<1>2. CASE \E g \in Generation, l \in Lease : Build(g, l) \/ AcquireExisting(g, l)
  BY <1>2, BuildInv, AcquireExistingInv
<1>3. CASE \E g \in Generation, u \in User : acquire(u, g)
  BY <1>3, AcquireInv
<1>4. CASE \E u \in User : release(u)
  BY <1>4, ReleaseInv
<1>5. CASE \E l \in Lease : CloseLease(l) \/ DropLease(l)
  BY <1>5, CloseLeaseInv, DropLeaseInv
<1>6. CASE \E l \in Lease, s \in Stream, owner \in Lease \cup {None} : OpenStream(l, s, owner)
  BY <1>6, OpenStreamInv
<1>7. CASE \E s \in Stream : CloseStream(s)
  BY <1>7, CloseStreamInv
<1>8. CASE UNCHANGED generations
  BY <1>8, StutterInv
<1> QED
  BY <1>1, <1>2, <1>3, <1>4, <1>5, <1>6, <1>7, <1>8 DEF GenerationsNext

\* The counts of the invariant say who holds a generation.
LEMMA InvSecrets == GInv => SecretsMatchUse
<1> SUFFICES ASSUME GInv, NEW g \in Generation, entry[g].known
             PROVE  entry[g].held <=> (~ entry[g].retired \/ Leases(g) # {} \/ Streams(g) # {})
  BY DEF SecretsMatchUse
<1>1. entry[g].leases = Cardinality(Leases(g)) /\ entry[g].streams = Cardinality(Streams(g))
  BY DEF GInv, Counted
<1>2. (entry[g].leases > 0 <=> Leases(g) # {}) /\ (entry[g].streams > 0 <=> Streams(g) # {})
  BY <1>1, HoldersFinite, NobodyIsZero
<1> QED
  BY <1>2 DEF GInv, Held

\* A generation in use is open, so it is not retired in the registry.
LEMMA InvUsed == GInv => UsedStaysOpen
<1> SUFFICES ASSUME GInv, NEW u \in User, user[u] # None
             PROVE  life[user[u]].stores = "open" /\ entry[user[u]].held
  BY DEF UsedStaysOpen
<1>1. user[u] \in Generation /\ u \in Users(user[u])
  BY DEF GInv, GenerationsTypeOK, Users
<1> QED
  BY <1>1 DEF GInv, Used, Agree, Held

\* The invariant of the registry and the lifecycles together.
LEMMA GenerationsInv == GenerationsSpec => []GInv
<1> QED
  BY InitInv, NextInv, PTL DEF GenerationsSpec

\* The types of the registry and of the lifecycles: no count falls below zero.
THEOREM TypeCorrect == GenerationsSpec => []GenerationsTypeOK
<1>1. GInv => GenerationsTypeOK
  BY DEF GInv
<1> QED
  BY <1>1, GenerationsInv, PTL

\* Registry: the variants of a generation's keys are kept exactly as long as it
\* may be acquired or somebody holds a lease or a stream over it.
THEOREM SecretsKept == GenerationsSpec => []SecretsMatchUse
<1> QED
  BY InvSecrets, GenerationsInv, PTL

\* runtimeLifecycle: a generation that an operation has acquired keeps its
\* stores and its secrets until the operation releases it.
THEOREM InUseStaysOpen == GenerationsSpec => []UsedStaysOpen
<1> QED
  BY InvUsed, GenerationsInv, PTL

-----------------------------------------------------------------------------
(* The application loop. *)

\* A generation whose stores nobody has begun to close.
Fresh(g) == life[g].stores = "open" /\ ~ life[g].retired

\* A turn holds the lifecycle of its generation from acquire to release.
Holding == op.kind = "turn" /\ op.stage \in {"working", "asking", "waiting"}

\* A reload that has built its generation, which is not current yet.
Candidate == op.kind = "reload" /\ op.stage = "finished" /\ op.out = "ok"

\* Only a generation that was built is retired.
Unbuilt == \A g \in Generation : life[g].stores = "none" => ~ life[g].retired

\* The operation: its kind says which stages it goes through and on which
\* generation, Run returns only when there is none, and until then nobody has
\* retired the current generation, or a candidate.
OperationInv ==
  /\ {running, cancelled, armed, shutdown} \subseteq BOOLEAN
  /\ op \in [kind : Kinds, gen : Generation \cup {None}, stopped : BOOLEAN, stage : Stages, out : Outcomes]
  /\ current \in Generation
  /\ op.kind = "none" <=> op.stage = "none"
  /\ op.kind \in {"compact", "reload"} => op.stage \in {"working", "finished"}
  /\ op.kind \in {"turn", "compact"} => op.gen = current
  /\ ~ running => op.kind = "none"
  /\ running => Fresh(current)
  /\ Candidate => op.gen \in Generation \ {current} /\ Fresh(op.gen)
  /\ user[Turn] = IF Holding THEN op.gen ELSE None

\* newDisplayedPermissionCallID: what is displayed identifies the request.
Displayed == {p \in Prompt : p.id = p.request}

\* What the loop may be about to commit: it acknowledges what was displayed.
Waits == [mode : Mode \cup {None}, model : Model \cup {None}, shell : Displayed \cup {Other, None}]

\* The settings: the journal of the selected session exists, and its mode is the
\* one that is shown and enforced unless a refresh failed.
SettingsInv ==
  /\ {stale, doubt} \subseteq BOOLEAN
  /\ {queued, applying} \subseteq Waits
  /\ session \in [id : Session, mode : Mode, model : Model]
  /\ journal \in [Session -> [mode : Mode, model : Model \cup {None}]]
  /\ policy \in Mode
  /\ Exists(session.id)
  /\ PolicyFollowsSession

\* The approvals: only the request that is waited for is pending or answered.
ApprovalInv ==
  /\ asked \in 0 .. MaxPrompts
  /\ answer \in 0 .. MaxPrompts
  /\ pending \subseteq Displayed
  /\ op.stage \in {"asking", "waiting"} => asked # 0
  /\ AnswersTheRightRequest

\* The events on their way to the terminal, and the prompts it has shown.
QueueInv ==
  /\ queue \in Seq(Displayed \cup {Other}) /\ Len(queue) <= Capacity + 1
  /\ shown \subseteq Displayed

\* Every event that is on its way was counted as an incident.
SpentInv ==
  /\ spent \in [commands : 0 .. MaxCommands, incidents : 0 .. MaxIncidents]
  /\ arriving \in [{"runtime", "protocol"} -> Nat]
  /\ \A channel \in {"runtime", "protocol"} : arriving[channel] <= spent.incidents

AppInv ==
  /\ GInv /\ Unbuilt /\ OperationInv /\ SettingsInv /\ ModelFollowsSession
  /\ ApprovalInv /\ QueueInv /\ SpentInv

-----------------------------------------------------------------------------
\* What bootstrap has built is what the generations reach in one step, with one
\* lease that is counted.
LEMMA AppInitGenerations == Init => GInv
<1> SUFFICES ASSUME Init PROVE GInv
  OBVIOUS
<1>1. /\ entry = [g \in Generation |-> IF g = Initial THEN NewEntry ELSE NoEntry]
      /\ lease = [l \in Lease |-> IF l = Initial THEN [gen |-> Initial, stage |-> "open"] ELSE NoLease]
      /\ stream = [s \in Stream |-> NoStream]
      /\ life = [g \in Generation |->
                   [active |-> 0, retired |-> FALSE, stores |-> IF g = Initial THEN "open" ELSE "none"]]
      /\ user = [u \in User |-> None]
  BY DEF Init
<1>2. Initial \in Generation /\ Initial \in Lease /\ None \notin Generation /\ Initial # None
  BY AppAssumption, NamesAssumption
<1>3. GenerationsTypeOK
  <2>1. entry \in [Generation -> Entry]
    BY <1>1 DEF Entry, NewEntry, NoEntry
  <2>2. lease \in [Lease -> [gen : Generation, stage : {"open", "closing"}] \cup {NoLease}]
    BY <1>1, <1>2
  <2>3. life \in [Generation -> Life]
    BY <1>1 DEF Life
  <2> QED
    BY <1>1, <2>1, <2>2, <2>3 DEF GenerationsTypeOK
<1>4. /\ \A g \in Generation : Streams(g) = {} /\ Users(g) = {}
      /\ \A g \in Generation : g # Initial => Leases(g) = {}
      /\ Leases(Initial) = {Initial}
  BY <1>1, <1>2, NamesAssumption DEF Leases, Streams, Users, NoLease, NoStream
<1>5. Cardinality({}) = 0 /\ Cardinality({Initial}) = 1
  BY FS_EmptySet, FS_Singleton
<1>6. Counted
  <2> SUFFICES ASSUME NEW g \in Generation
               PROVE  /\ entry[g].leases = Cardinality(Leases(g))
                      /\ entry[g].streams = Cardinality(Streams(g))
                      /\ life[g].active = Cardinality(Users(g))
    BY DEF Counted
  <2>1. entry[g].streams = 0 /\ life[g].active = 0 /\ Streams(g) = {} /\ Users(g) = {}
    BY <1>1, <1>4 DEF NewEntry, NoEntry
  <2>2. CASE g = Initial
    BY <1>1, <1>4, <1>5, <2>1, <2>2 DEF NewEntry
  <2>3. CASE g # Initial
    BY <1>1, <1>4, <1>5, <2>1, <2>3 DEF NoEntry
  <2> QED
    BY <2>2, <2>3
<1>7. Bound
  BY <1>1, <1>2 DEF Bound, NewEntry, NoLease, NoStream
<1>8. Agree /\ Held /\ Used
  BY <1>1, <1>4 DEF Agree, Held, Used, NewEntry, NoEntry
<1> QED
  BY <1>3, <1>6, <1>7, <1>8 DEF GInv

LEMMA AppInitInv == Init => AppInv
<1> SUFFICES ASSUME Init PROVE AppInv
  OBVIOUS
<1>1. GInv
  BY AppInitGenerations
<1>0. Unbuilt
  BY DEF Init, Unbuilt
<1>2. OperationInv
  <2>1. Fresh(current) /\ current \in Generation /\ user[Turn] = None
    BY AppAssumption DEF Init, Fresh
  <2>2. /\ op = NoOperation /\ op.kind = "none" /\ op.stage = "none" /\ running
        /\ {running, cancelled, armed, shutdown} \subseteq BOOLEAN
    BY DEF Init, NoOperation
  <2> QED
    BY <2>1, <2>2 DEF OperationInv, NoOperation, Kinds, Stages, Outcomes, Holding, Candidate
<1>3. SettingsInv
  <2>1. /\ queued = NoSettings /\ applying = NoSettings /\ stale = FALSE /\ doubt = FALSE
        /\ journal = [s \in Session |->
             [mode |-> FirstMode, model |-> IF s = FirstSession THEN DefaultOf[Initial] ELSE None]]
        /\ session = [id |-> FirstSession, mode |-> FirstMode, model |-> DefaultOf[Initial]]
        /\ policy = FirstMode
    BY DEF Init
  <2>2. DefaultOf[Initial] \in Model /\ DefaultOf[Initial] # None
    BY AppAssumption
  <2>3. {queued, applying} \subseteq Waits
    BY <2>1 DEF NoSettings, Waits
  <2>4. /\ session \in [id : Session, mode : Mode, model : Model] /\ policy \in Mode
        /\ journal \in [Session -> [mode : Mode, model : Model \cup {None}]]
    BY <2>1, <2>2, AppAssumption
  <2>5. /\ journal[session.id].model = DefaultOf[Initial]
        /\ journal[session.id].mode = FirstMode /\ session.mode = FirstMode
    BY <2>1, AppAssumption
  <2> QED
    BY <2>1, <2>2, <2>3, <2>4, <2>5 DEF SettingsInv, PolicyFollowsSession, Exists
<1>4. ApprovalInv
  <2>1. pending = {} /\ asked = 0 /\ answer = 0 /\ op.stage = "none" /\ MaxPrompts \in Nat
    BY AppAssumption DEF Init, NoOperation
  <2> QED
    BY <2>1 DEF ApprovalInv, AnswersTheRightRequest
<1>5. QueueInv
  <2>1. queue = <<>> /\ shown = {} /\ Capacity \in Nat
    BY AppAssumption DEF Init
  <2> QED
    BY <2>1, EmptySeq DEF QueueInv
<1>6. SpentInv
  <2>1. /\ spent = [commands |-> 0, incidents |-> 0]
        /\ arriving = [c \in {"runtime", "protocol"} |-> 0]
        /\ MaxCommands \in Nat /\ MaxIncidents \in Nat
    BY AppAssumption DEF Init
  <2> QED
    BY <2>1 DEF SpentInv
<1>7. ModelFollowsSession
  BY AppAssumption DEF Init, ModelFollowsSession
<1> QED
  BY <1>0, <1>1, <1>2, <1>3, <1>4, <1>5, <1>6, <1>7 DEF AppInv


-----------------------------------------------------------------------------
(* What the steps of the generations mean to the loop. *)

\* runtimeLifecycle.retire of another generation.
LEMMA OthersStayFresh ==
  ASSUME GInv, NEW g \in Generation, NEW h \in Generation, retire(h), g # h, Fresh(g)
  PROVE  Fresh(g)' /\ user' = user
<1>1. life'[g] = life[g] /\ user' = user
  BY DEF retire, GInv, GenerationsTypeOK
<1> QED
  BY <1>1 DEF Fresh

\* build, whether it fails or not, changes no generation that exists.
LEMMA BuiltStaysFresh ==
  ASSUME GInv, NEW g \in Generation, NEW h \in Generation, NEW l \in Lease,
         BuildFails(h) \/ Build(h, l), Fresh(g)
  PROVE  Fresh(g)' /\ user' = user /\ g # h
<1>1. g # h
  BY DEF BuildFails, Build, Fresh, GInv, Agree
<1>2. life'[g] = life[g] /\ user' = user
  BY <1>1 DEF BuildFails, Build, GInv, GenerationsTypeOK
<1> QED
  BY <1>1, <1>2 DEF Fresh

\* acquire counts a user of a generation that stays as it is.
LEMMA AcquiredStaysFresh ==
  ASSUME GInv, NEW g \in Generation, NEW h \in Generation, NEW u \in User,
         acquire(u, h), Fresh(g)
  PROVE  Fresh(g)' /\ user'[u] = h /\ user[u] = None
<1>1. /\ life' = [life EXCEPT ![h].active = @ + 1] /\ user[u] = None /\ user'[u] = h
      /\ life[g] \in Life /\ life \in [Generation -> Life]
  BY DEF acquire, GInv, GenerationsTypeOK
<1>2. life'[g].stores = life[g].stores /\ life'[g].retired = life[g].retired
  BY <1>1 DEF Life
<1> QED
  BY <1>1, <1>2 DEF Fresh

\* release closes nothing that is not retired.
LEMMA ReleasedStaysFresh ==
  ASSUME GInv, NEW g \in Generation, NEW u \in User, release(u), Fresh(g)
  PROVE  Fresh(g)' /\ user'[u] = None
<1>1. PICK h \in Generation : h = user[u]
  BY DEF release, GInv, GenerationsTypeOK
<1>2. /\ life' = [life EXCEPT ![h] = Closes(LessUser(@))] /\ user'[u] = None
      /\ life[h] \in Life /\ life \in [Generation -> Life]
  BY <1>1 DEF release, GInv, GenerationsTypeOK
<1>3. CASE g = h
  <2>1. LessUser(life[h]).retired = FALSE /\ LessUser(life[h]).stores = "open"
    BY <1>2, <1>3 DEF LessUser, Life, Fresh
  <2>2. Closes(LessUser(life[h])) = LessUser(life[h])
    BY <2>1 DEF Closes
  <2> QED
    BY <1>2, <1>3, <2>1, <2>2 DEF Fresh
<1>4. CASE g # h
  <2>1. life'[g] = life[g]
    BY <1>2, <1>4
  <2> QED
    BY <1>2, <2>1 DEF Fresh
<1> QED
  BY <1>3, <1>4

\* The close function of a generation that is retired.
LEMMA ClosingStaysFresh ==
  ASSUME GInv, NEW g \in Generation, NEW h \in Generation, NEW l \in Lease,
         Retire(h) \/ CloseLease(l) \/ DropLease(l), Fresh(g)
  PROVE  Fresh(g)' /\ user' = user
<1>1. CASE Retire(h)
  <2>1. g # h
    BY <1>1 DEF Retire, Fresh
  <2>2. life'[g] = life[g] /\ user' = user
    BY <1>1, <2>1 DEF Retire, GInv, GenerationsTypeOK
  <2> QED
    BY <2>2 DEF Fresh
<1>2. CASE CloseLease(l) \/ DropLease(l)
  BY <1>2 DEF CloseLease, DropLease, lifecycle, Fresh
<1> QED
  BY <1>1, <1>2

\* A new generation is fresh: nobody retires what was not built.
LEMMA NewIsFresh ==
  ASSUME GInv, Unbuilt, NEW g \in Generation, NEW l \in Lease, Build(g, l)
  PROVE  Fresh(g)'
<1>1. life[g].stores = "none" /\ life[g] \in Life /\ life \in [Generation -> Life]
  BY DEF Build, GInv, Agree, GenerationsTypeOK
<1>2. life' = [life EXCEPT ![g].stores = "open"] /\ ~ life[g].retired
  BY <1>1 DEF Build, Unbuilt
<1>3. life'[g].stores = "open" /\ life'[g].retired = life[g].retired
  BY <1>1, <1>2 DEF Life
<1> QED
  BY <1>2, <1>3 DEF Fresh

\* Only acquire, release, retire, build and the close function touch lifecycles.
LEMMA UnbuiltStep == GInv /\ Unbuilt /\ [GenerationsNext]_generations => Unbuilt'
<1> SUFFICES ASSUME GInv, Unbuilt, [GenerationsNext]_generations, NEW g \in Generation,
                    life'[g].stores = "none"
             PROVE  ~ life'[g].retired
  BY DEF Unbuilt
<1>0. life \in [Generation -> Life] /\ life[g] \in Life
  BY DEF GInv, GenerationsTypeOK
<1>1. CASE \E h \in Generation, l \in Lease : BuildFails(h) \/ Build(h, l) \/ Retire(h)
  <2>1. PICK h \in Generation, l \in Lease : BuildFails(h) \/ Build(h, l) \/ Retire(h)
    BY <1>1
  <2>2. h # g
    BY <1>0, <2>1 DEF BuildFails, Build, Retire, Life
  <2>3. life'[g] = life[g]
    BY <1>0, <2>1, <2>2 DEF BuildFails, Build, Retire
  <2> QED
    BY <2>3 DEF Unbuilt
<1>2. CASE \E h \in Generation : retire(h)
  <2>1. PICK h \in Generation : retire(h)
    BY <1>2
  <2>2. CASE h = g
    <3>1. life[g].stores # "none" /\ life'[g] = Closes([life[g] EXCEPT !.retired = TRUE])
      BY <1>0, <2>1, <2>2 DEF retire
    <3>2. life'[g].stores # "none"
      BY <1>0, <3>1 DEF Closes, Life
    <3> QED
      BY <3>2
  <2>3. CASE h # g
    <3>1. life'[g] = life[g]
      BY <1>0, <2>1, <2>3 DEF retire
    <3> QED
      BY <3>1 DEF Unbuilt
  <2> QED
    BY <2>2, <2>3
<1>3. CASE \E h \in Generation, u \in User : acquire(u, h)
  <2>1. PICK h \in Generation, u \in User : acquire(u, h)
    BY <1>3
  <2>2. life'[g].stores = life[g].stores /\ life'[g].retired = life[g].retired
    BY <1>0, <2>1 DEF acquire, Life
  <2> QED
    BY <2>2 DEF Unbuilt
<1>4. CASE \E u \in User : release(u)
  <2>1. PICK u \in User : release(u)
    BY <1>4
  <2>2. PICK h \in Generation : h = user[u]
    BY <2>1 DEF release, GInv, GenerationsTypeOK
  <2>3. life[h].stores = "open" /\ life' = [life EXCEPT ![h] = Closes(LessUser(@))]
    BY <2>1, <2>2 DEF release, GInv, Used, Users
  <2>4. CASE h = g
    <3>1. life'[g].stores # "none"
      BY <1>0, <2>3, <2>4 DEF Closes, LessUser, Life
    <3> QED
      BY <3>1
  <2>5. CASE h # g
    BY <1>0, <2>3, <2>5 DEF Unbuilt
  <2> QED
    BY <2>4, <2>5
<1>5. CASE UNCHANGED lifecycle
  BY <1>5 DEF lifecycle, Unbuilt
<1>6. CASE UNCHANGED generations
  BY <1>6 DEF generations, Unbuilt
<1>7. ASSUME NEW h \in Generation, NEW l \in Lease, AcquireExisting(h, l)
      PROVE  UNCHANGED lifecycle
  BY <1>7 DEF AcquireExisting
<1>8. ASSUME NEW l \in Lease, CloseLease(l) \/ DropLease(l)
      PROVE  UNCHANGED lifecycle
  BY <1>8 DEF CloseLease, DropLease
<1>9. ASSUME NEW l \in Lease, NEW s \in Stream, NEW owner \in Lease \cup {None}, OpenStream(l, s, owner)
      PROVE  UNCHANGED lifecycle
  BY <1>9 DEF OpenStream
<1>10. ASSUME NEW s \in Stream, CloseStream(s)
       PROVE  UNCHANGED lifecycle
  BY <1>10 DEF CloseStream
<1>11. Lease # {}
  BY AppAssumption
<1> QED
  BY <1>1, <1>2, <1>3, <1>4, <1>5, <1>6, <1>7, <1>8, <1>9, <1>10, <1>11 DEF GenerationsNext


-----------------------------------------------------------------------------
(* The operation, action by action. *)

\* What is asked of an operation that stays: it may be told to stop, and a turn
\* that works may wait for an approval and go on.
SameOperation ==
  /\ op' \in [kind : Kinds, gen : Generation \cup {None}, stopped : BOOLEAN, stage : Stages, out : Outcomes]
  /\ op'.kind = op.kind /\ op'.gen = op.gen
  /\ \/ op'.stage = op.stage /\ op'.out = op.out
     \/ Holding /\ Holding'

LEMMA OperationStays ==
  ASSUME OperationInv, SameOperation, UNCHANGED <<running, current, life, user>>,
         {cancelled, armed, shutdown}' \subseteq BOOLEAN
  PROVE  OperationInv'
<1>1. /\ running' = running /\ current' = current /\ life' = life /\ user' = user
      /\ running \in BOOLEAN /\ current' \in Generation
  BY DEF OperationInv
<1>2. Holding' <=> Holding
  BY DEF SameOperation, Holding
<1>3. op'.kind = "none" <=> op'.stage = "none"
  BY DEF SameOperation, OperationInv, Holding
<1>4. op'.kind \in {"compact", "reload"} => op'.stage \in {"working", "finished"}
  BY DEF SameOperation, OperationInv, Holding
<1>5. Candidate' <=> Candidate
  BY DEF SameOperation, Candidate, Holding
<1>6. Candidate => op'.gen \in Generation \ {current} /\ Fresh(op.gen)
  BY DEF SameOperation, OperationInv
<1>7. (op.kind \in {"turn", "compact"} => op'.gen = current) /\ op'.kind = op.kind
  BY DEF SameOperation, OperationInv
<1>8. user[Turn] = IF Holding' THEN op'.gen ELSE None
  BY <1>2 DEF SameOperation, OperationInv
<1>9. (~ running => op.kind = "none") /\ (running => Fresh(current))
  BY DEF OperationInv
<1>10. {running, cancelled, armed, shutdown}' \subseteq BOOLEAN
  BY <1>1
<1>11. op' \in [kind : Kinds, gen : Generation \cup {None}, stopped : BOOLEAN, stage : Stages, out : Outcomes]
  BY DEF SameOperation
<1>12. \A g : Fresh(g)' <=> Fresh(g)
  BY <1>1 DEF Fresh
<1>13. (running => Fresh(current))' /\ (Candidate => op.gen \in Generation \ {current} /\ Fresh(op.gen))'
  BY <1>1, <1>5, <1>6, <1>9, <1>12 DEF SameOperation
<1> QED
  BY <1>1, <1>3, <1>4, <1>7, <1>8, <1>9, <1>10, <1>11, <1>13 DEF OperationInv

\* op and Stop are the same operation.
LEMMA StopIsSame ==
  ASSUME OperationInv, op' = op \/ op' = Stop
  PROVE  SameOperation
<1>1. op \in [kind : Kinds, gen : Generation \cup {None}, stopped : BOOLEAN, stage : Stages, out : Outcomes]
  BY DEF OperationInv
<1>2. op' = op \/ op' = [op EXCEPT !.stopped = TRUE]
  BY DEF Stop
<1> QED
  BY <1>1, <1>2 DEF SameOperation

\* Run returns: nothing runs beside it, and nobody uses the generation it
\* retires.
LEMMA OperationReturns ==
  ASSUME OperationInv, running' = FALSE, UNCHANGED <<current, user>>,
         ~ Holding, op' = NoOperation \/ (op' = op /\ ~ Busy),
         {cancelled, armed, shutdown}' \subseteq BOOLEAN
  PROVE  OperationInv'
<1>1. op'.kind = "none" /\ op'.stage = "none"
  BY DEF NoOperation, Busy, OperationInv
<1>2. op' \in [kind : Kinds, gen : Generation \cup {None}, stopped : BOOLEAN, stage : Stages, out : Outcomes]
  <2>1. NoOperation \in [kind : Kinds, gen : Generation \cup {None}, stopped : BOOLEAN, stage : Stages, out : Outcomes]
    BY DEF NoOperation, Kinds, Stages, Outcomes
  <2> QED
    BY <2>1 DEF OperationInv
<1>3. ~ Holding' /\ ~ Candidate'
  BY <1>1 DEF Holding, Candidate
<1>4. user'[Turn] = None /\ current' \in Generation
  BY DEF OperationInv
<1> QED
  BY <1>1, <1>2, <1>3, <1>4 DEF OperationInv

\* An operation that is not there is the empty one as far as the loop can see.
LEMMA NotBusy ==
  ASSUME OperationInv, ~ Busy
  PROVE  op.kind = "none" /\ op.stage = "none" /\ ~ Holding /\ ~ Candidate
BY DEF OperationInv, Busy, Holding, Candidate


\* The steps that leave the operation, its generation and Run alone.
LEMMA OperationRests ==
  ASSUME OperationInv,
         \/ Show \/ Cancel \/ ApplyMode \/ ApplyModel \/ CommitAcknowledgement
         \/ \E view \in shown : ResolvePermission(view)
         \/ \E view \in shown \cup {Other} : AcknowledgeAutoShell(view)
         \/ \E m \in Mode : ChangeMode(m)
         \/ \E m \in Model : ChangeModel(m)
         \/ \E s \in Session : OpenSession(s) \/ NewSession(s)
         \/ \E channel \in {"runtime", "protocol"} : Emits(channel)
         \/ WorkBegins \/ WorkFlushes \/ WorkCloses \/ WorkDrops
  PROVE  OperationInv'
<1> SUFFICES op' = op /\ UNCHANGED <<running, current, life, user>>
             /\ {cancelled, armed, shutdown}' \subseteq BOOLEAN
  BY OperationStays, StopIsSame
<1> USE DEF OperationInv, loopVars, generations, lifecycle
<1>1. CASE Show \/ Cancel
  BY <1>1 DEF Show, Cancel
<1>2. CASE ApplyMode \/ ApplyModel \/ CommitAcknowledgement
  BY <1>2 DEF ApplyMode, ApplyModel, CommitAcknowledgement
<1>3. CASE \/ \E view \in shown : ResolvePermission(view)
          \/ \E view \in shown \cup {Other} : AcknowledgeAutoShell(view)
  BY <1>3 DEF ResolvePermission, AcknowledgeAutoShell, Reject
<1>4. CASE (\E m \in Mode : ChangeMode(m)) \/ \E m \in Model : ChangeModel(m)
  BY <1>4 DEF ChangeMode, ChangeModel, Reject
<1>5. CASE \E s \in Session : OpenSession(s) \/ NewSession(s)
  BY <1>5 DEF OpenSession, NewSession, Reject
<1>6. CASE \E channel \in {"runtime", "protocol"} : Emits(channel)
  BY <1>6 DEF Emits, Stays
<1>7. CASE WorkBegins \/ WorkFlushes \/ WorkCloses \/ WorkDrops
  BY <1>7 DEF WorkBegins, WorkFlushes, WorkCloses, WorkDrops, Works, Stays,
              AcquireExisting, OpenStream, CloseStream, CloseLease, DropLease
<1> QED
  BY <1>1, <1>2, <1>3, <1>4, <1>5, <1>6, <1>7

\* The end of the context and a shutdown: Run returns if nothing runs.
LEMMA NoticeShutdownOperation ==
  ASSUME OperationInv, Notice \/ Shutdown
  PROVE  OperationInv'
<1>1. /\ op' = Stop /\ UNCHANGED <<cancelled, current>>
      /\ {cancelled, armed, shutdown}' \subseteq BOOLEAN
  <2>1. CASE Notice
    BY <2>1 DEF Notice, OperationInv
  <2>2. CASE Shutdown
    BY <2>2 DEF Shutdown, OperationInv
  <2> QED
    BY <2>1, <2>2
<1>2. CASE Busy
  <2>1. UNCHANGED <<running, life, user>>
    BY <1>2 DEF Notice, Shutdown, generations
  <2> QED
    BY <1>1, <2>1, StopIsSame, OperationStays
<1>3. CASE ~ Busy
  <2>1. running' = FALSE /\ UNCHANGED <<current, user>> /\ op' = op
    BY <1>1, <1>3 DEF Notice, Shutdown, Return, retire, Stop
  <2> QED
    BY <1>1, <1>3, <2>1, NotBusy, OperationReturns
<1> QED
  BY <1>2, <1>3

\* An event that reaches the loop, and a cancellation of the turn.
LEMMA ForwardCancelOperation ==
  ASSUME OperationInv, CancelTurn \/ \E channel \in {"runtime", "protocol"} : Forward(channel)
  PROVE  OperationInv'
<1>1. CASE CancelTurn
  <2>1. op' = Stop /\ UNCHANGED <<running, cancelled, armed, shutdown, current, life, user>>
    BY <1>1 DEF CancelTurn, loopVars, generations
  <2>2. {cancelled, armed, shutdown}' \subseteq BOOLEAN
    BY <2>1 DEF OperationInv
  <2> QED
    BY <2>1, <2>2, StopIsSame, OperationStays
<1>2. CASE \E channel \in {"runtime", "protocol"} : Forward(channel)
  <2>1. (op' = op \/ op' = Stop) /\ UNCHANGED <<running, current, life, user>>
    BY <1>2 DEF Forward, loopVars, generations
  <2>2. {cancelled, armed, shutdown}' \subseteq BOOLEAN
    BY <1>2 DEF Forward, loopVars, OperationInv
  <2> QED
    BY <2>1, <2>2, StopIsSame, OperationStays
<1> QED
  BY <1>1, <1>2

\* A turn, a compaction or a reload starts only when nothing runs.
LEMMA StartOperation ==
  ASSUME OperationInv, StartTurn \/ Compact \/ ReloadConfig
  PROVE  OperationInv'
<1>1. UNCHANGED <<running, cancelled, armed, shutdown, current, life, user>>
  BY DEF StartTurn, Compact, StartOn, ReloadConfig, Reject, loopVars, generations
<1>2. {cancelled, armed, shutdown}' \subseteq BOOLEAN
  BY <1>1 DEF OperationInv
<1>3. CASE op' = op
  BY <1>1, <1>2, <1>3, StopIsSame, OperationStays
<1>4. ASSUME NEW kind \in {"turn", "compact", "reload"}, Start(kind), ~ Busy, running
      PROVE  OperationInv'
  <2>1. /\ op' \in [kind : Kinds, gen : Generation \cup {None}, stopped : BOOLEAN, stage : Stages, out : Outcomes]
        /\ op'.kind = kind /\ op'.out = "ok"
        /\ kind # "reload" => op'.gen = current
        /\ op'.stage = IF kind = "turn" THEN "starting" ELSE "working"
    BY <1>4 DEF Start, Kinds, Stages, Outcomes, OperationInv
  <2>2. ~ Holding' /\ ~ Candidate' /\ op'.kind # "none" /\ op'.stage # "none"
    BY <2>1 DEF Holding, Candidate
  <2>3. user'[Turn] = None
    BY <1>1, <1>4, NotBusy DEF OperationInv
  <2>4. running' /\ Fresh(current)' /\ current' \in Generation /\ running' \in BOOLEAN
    BY <1>1, <1>4 DEF OperationInv, Fresh
  <2> QED
    BY <1>1, <1>2, <2>1, <2>2, <2>3, <2>4 DEF OperationInv
<1>5. \/ op' = op
      \/ running /\ ~ Busy /\ \E kind \in {"turn", "compact", "reload"} : Start(kind)
  BY DEF StartTurn, Compact, StartOn, ReloadConfig, Reject, CanCommand, Selecting
<1> QED
  BY <1>3, <1>4, <1>5


\* The dispatcher acquires the lifecycle for the turn, or finds it retired.
LEMMA TurnAcquiresOperation ==
  ASSUME GInv, OperationInv, TurnAcquires
  PROVE  OperationInv'
<1>1. /\ UNCHANGED <<running, cancelled, armed, shutdown, current>>
      /\ op.kind = "turn" /\ op.stage = "starting" /\ op.gen = current /\ running
      /\ Fresh(current) /\ current \in Generation /\ Turn \in User /\ ~ Holding
  BY AppAssumption DEF TurnAcquires, At, Stays, loopVars, OperationInv, Holding
<1>2. CASE acquire(Turn, op.gen) /\ Goes("working")
  <2>1. Fresh(current)' /\ user'[Turn] = current
    BY <1>1, <1>2, AcquiredStaysFresh DEF Fresh
  <2>2. /\ op' \in [kind : Kinds, gen : Generation \cup {None}, stopped : BOOLEAN, stage : Stages, out : Outcomes]
        /\ op'.kind = "turn" /\ op'.gen = current /\ op'.stage = "working"
    BY <1>1, <1>2 DEF Goes, OperationInv, Stages
  <2>3. Holding' /\ ~ Candidate'
    BY <2>2 DEF Holding, Candidate
  <2> QED
    BY <1>1, <2>1, <2>2, <2>3 DEF OperationInv
<1>3. CASE life[op.gen].retired
  BY <1>1, <1>3 DEF Fresh
<1> QED
  BY <1>2, <1>3 DEF TurnAcquires

\* A turn that waits for an approval keeps what it holds.
LEMMA ApprovalOperation ==
  ASSUME OperationInv, TurnAsks \/ TurnPrompts \/ ResolveAnswered \/ ResolveCancelled
  PROVE  OperationInv'
<1>1. UNCHANGED <<running, cancelled, armed, shutdown, current, life, user>>
  BY DEF TurnAsks, TurnPrompts, ResolveAnswered, ResolveCancelled, Stays, loopVars, generations
<1>2. /\ op.kind = "turn" /\ op.stage \in {"working", "asking", "waiting"}
      /\ \E stage \in {"working", "asking", "waiting"} : op' = [op EXCEPT !.stage = stage]
  BY DEF TurnAsks, TurnPrompts, ResolveAnswered, ResolveCancelled, At, Goes
<1>3. SameOperation
  BY <1>2 DEF SameOperation, Holding, OperationInv, Stages
<1>4. {cancelled, armed, shutdown}' \subseteq BOOLEAN
  BY <1>1 DEF OperationInv
<1> QED
  BY <1>1, <1>3, <1>4, OperationStays

\* The goroutine of a turn or of a compaction ends; a turn releases first.
LEMMA FinishesOperation ==
  ASSUME GInv, OperationInv, OperationFinishes
  PROVE  OperationInv'
<1>1. /\ UNCHANGED <<running, cancelled, armed, shutdown, current>>
      /\ op.kind \in {"turn", "compact"} /\ op.stage = "working" /\ op.gen = current /\ running
      /\ Fresh(current) /\ current \in Generation /\ Turn \in User
  BY AppAssumption DEF OperationFinishes, At, Stays, loopVars, OperationInv
<1>2. /\ op' \in [kind : Kinds, gen : Generation \cup {None}, stopped : BOOLEAN, stage : Stages, out : Outcomes]
      /\ op'.kind = op.kind /\ op'.gen = current /\ op'.stage = "finished"
  <2>1. PICK out \in Outcomes : Finishes(out)
    BY DEF OperationFinishes
  <2>2. op \in [kind : Kinds, gen : Generation \cup {None}, stopped : BOOLEAN, stage : Stages, out : Outcomes]
    BY DEF OperationInv
  <2> QED
    BY <1>1, <2>1, <2>2 DEF Finishes, Stages
<1>3. ~ Holding' /\ ~ Candidate'
  BY <1>1, <1>2 DEF Holding, Candidate
<1>4. Fresh(current)' /\ user'[Turn] = None
  <2>1. CASE op.kind = "turn"
    BY <1>1, <2>1, ReleasedStaysFresh DEF OperationFinishes
  <2>2. CASE op.kind # "turn"
    BY <1>1, <2>2 DEF OperationFinishes, generations, Fresh, OperationInv, Holding
  <2> QED
    BY <2>1, <2>2
<1> QED
  BY <1>1, <1>2, <1>3, <1>4 DEF OperationInv

\* reloadRuntime: a candidate beside the current generation, or none.
LEMMA ReloadsOperation ==
  ASSUME GInv, Unbuilt, OperationInv, NEW g \in Generation, Reloads(g)
  PROVE  OperationInv'
<1>1. /\ UNCHANGED <<running, cancelled, armed, shutdown, current>>
      /\ op.kind = "reload" /\ op.stage = "working" /\ running /\ g \in Lease
      /\ Fresh(current) /\ current \in Generation /\ ~ Holding /\ user[Turn] = None
  BY AppAssumption DEF Reloads, At, Stays, loopVars, OperationInv, Holding
<1>2. CASE Build(g, g) /\ op' = [op EXCEPT !.stage = "finished", !.gen = g]
  <2>1. Fresh(current)' /\ Fresh(g)' /\ user' = user /\ current # g
    BY <1>1, <1>2, BuiltStaysFresh, NewIsFresh
  <2>2. /\ op' \in [kind : Kinds, gen : Generation \cup {None}, stopped : BOOLEAN, stage : Stages, out : Outcomes]
        /\ op'.kind = "reload" /\ op'.gen = g /\ op'.stage = "finished"
    BY <1>1, <1>2 DEF OperationInv, Stages
  <2>3. ~ Holding'
    BY <2>2 DEF Holding
  <2>4. Fresh(op.gen)' /\ op'.gen \in Generation \ {current'}
    BY <1>1, <2>1, <2>2 DEF Fresh
  <2> QED
    BY <1>1, <2>1, <2>2, <2>3, <2>4 DEF OperationInv
<1>3. CASE (BuildFails(g) \/ UNCHANGED generations) /\ Finishes("failed")
  <2>1. Fresh(current)' /\ user' = user
    <3>1. CASE BuildFails(g)
      BY <1>1, <3>1, BuiltStaysFresh
    <3>2. CASE UNCHANGED generations
      BY <1>1, <3>2 DEF generations, Fresh
    <3> QED
      BY <1>3, <3>1, <3>2
  <2>2. /\ op' \in [kind : Kinds, gen : Generation \cup {None}, stopped : BOOLEAN, stage : Stages, out : Outcomes]
        /\ op'.kind = "reload" /\ op'.stage = "finished" /\ op'.out = "failed"
    BY <1>1, <1>3 DEF OperationInv, Stages, Outcomes, Finishes
  <2>3. ~ Holding' /\ ~ Candidate'
    BY <2>2 DEF Holding, Candidate
  <2> QED
    BY <1>1, <2>1, <2>2, <2>3 DEF OperationInv
<1> QED
  BY <1>2, <1>3 DEF Reloads

\* A result that ends Run, or that the loop goes on after.
LEMMA ResultOperation ==
  ASSUME OperationInv, LastResult \/ OperationDone
  PROVE  OperationInv'
<1>1. /\ UNCHANGED <<cancelled, armed, shutdown, current>> /\ op' = NoOperation
      /\ running /\ op.stage = "finished" /\ ~ Holding
  BY DEF LastResult, OperationDone, Ended, Selecting, Holding
<1>2. {cancelled, armed, shutdown}' \subseteq BOOLEAN
  BY <1>1 DEF OperationInv
<1>3. CASE Return
  <2>1. running' = FALSE /\ user' = user
    BY <1>3 DEF Return, retire
  <2> QED
    BY <1>1, <1>2, <2>1, OperationReturns
<1>4. CASE UNCHANGED <<running, generations>>
  <2>1. /\ op' \in [kind : Kinds, gen : Generation \cup {None}, stopped : BOOLEAN, stage : Stages, out : Outcomes]
        /\ op'.kind = "none" /\ op'.stage = "none"
    BY <1>1 DEF NoOperation, Kinds, Stages, Outcomes
  <2>2. ~ Holding' /\ ~ Candidate'
    BY <2>1 DEF Holding, Candidate
  <2>3. Fresh(current)' /\ user'[Turn] = None
    BY <1>1, <1>4 DEF OperationInv, generations, Fresh
  <2> QED
    BY <1>1, <1>2, <1>4, <2>1, <2>2, <2>3 DEF OperationInv
<1> QED
  BY <1>3, <1>4 DEF LastResult, OperationDone

\* completeReload: the candidate is retired, or the current generation for it.
LEMMA CompleteReloadOperation ==
  ASSUME GInv, OperationInv, CompleteReload
  PROVE  OperationInv'
<1>1. /\ UNCHANGED <<running, cancelled, armed, shutdown>> /\ op' = NoOperation
      /\ running /\ op.kind = "reload" /\ op.stage = "finished" /\ ~ Holding
      /\ current \in Generation /\ Fresh(current) /\ user[Turn] = None
  BY DEF CompleteReload, Ended, Selecting, Holding, loopVars, OperationInv
<1>2. /\ op' \in [kind : Kinds, gen : Generation \cup {None}, stopped : BOOLEAN, stage : Stages, out : Outcomes]
      /\ op'.kind = "none" /\ op'.stage = "none"
  BY <1>1 DEF NoOperation, Kinds, Stages, Outcomes
<1>3. ~ Holding' /\ ~ Candidate'
  BY <1>2 DEF Holding, Candidate
<1>4. op.out # "failed" => op.gen \in Generation \ {current} /\ Fresh(op.gen)
  BY <1>1 DEF OperationInv, Candidate, Outcomes
<1>5. current' \in Generation /\ Fresh(current)' /\ user' = user
  <2>1. CASE op.out = "failed"
    BY <1>1, <2>1 DEF CompleteReload, generations, Fresh
  <2>2. CASE op.out # "failed" /\ GiveUp(op.gen)
    <3>1. retire(op.gen) /\ current' = current
      BY <2>2 DEF GiveUp
    <3>2. \A g \in Generation : g = current => Fresh(g)' /\ user' = user
      BY <1>1, <1>4, <2>2, <3>1, OthersStayFresh
    <3> QED
      BY <1>1, <3>1, <3>2 DEF Fresh
  <2>3. CASE op.out # "failed" /\ TakeOver(op.gen)
    <3>1. retire(current) /\ current' = op.gen
      BY <2>3 DEF TakeOver
    <3>2. \A g \in Generation : g = op.gen => Fresh(g)' /\ user' = user
      BY <1>1, <1>4, <2>3, <3>1, OthersStayFresh
    <3> QED
      BY <1>4, <2>3, <3>1, <3>2 DEF Fresh
  <2> QED
    BY <2>1, <2>2, <2>3 DEF CompleteReload
<1> QED
  BY <1>1, <1>2, <1>3, <1>5 DEF OperationInv

\* The goroutine that closes a retired generation.
LEMMA ClosingOperation ==
  ASSUME GInv, OperationInv, NEW g \in Generation, Closing(g)
  PROVE  OperationInv'
<1>1. /\ UNCHANGED <<running, cancelled, armed, shutdown, op, current>>
      /\ Retire(g) \/ CloseLease(g) \/ DropLease(g)
      /\ g \in Lease /\ current \in Generation
  BY AppAssumption DEF Closing, app, loopVars, OperationInv
<1>2. \A h \in Generation : Fresh(h) => Fresh(h)' /\ user' = user
  BY <1>1, ClosingStaysFresh
<1>3. user' = user
  BY <1>1 DEF Retire, CloseLease, DropLease, lifecycle
<1>4. (Holding' <=> Holding) /\ (Candidate' <=> Candidate)
  BY <1>1 DEF Holding, Candidate
<1>5. \A h \in Generation : Fresh(h) => (life'[h].stores = "open" /\ ~ life'[h].retired)
  BY <1>2 DEF Fresh
<1>6. running' => Fresh(current)'
  BY <1>1, <1>5 DEF OperationInv, Fresh
<1>7. Candidate' => op'.gen \in Generation \ {current'} /\ Fresh(op.gen)'
  BY <1>1, <1>4, <1>5 DEF OperationInv, Fresh
<1> QED
  BY <1>1, <1>3, <1>4, <1>6, <1>7 DEF OperationInv

\* No step of the loop, of the operation or of a close function breaks it.
LEMMA OperationStep == GInv /\ Unbuilt /\ OperationInv /\ [Next]_vars => OperationInv'
<1> SUFFICES ASSUME GInv, Unbuilt, OperationInv, [Next]_vars PROVE OperationInv'
  OBVIOUS
<1>1. CASE Loop
  BY <1>1, OperationRests, NoticeShutdownOperation, ForwardCancelOperation, ResultOperation,
     CompleteReloadOperation DEF Loop
<1>2. CASE Commands
  BY <1>2, OperationRests, NoticeShutdownOperation, ForwardCancelOperation, StartOperation DEF Commands
<1>3. CASE Operation
  BY <1>3, OperationRests, TurnAcquiresOperation, ApprovalOperation, FinishesOperation,
     ReloadsOperation DEF Operation
<1>4. CASE Show \/ Cancel
  BY <1>4, OperationRests
<1>5. CASE \E g \in Generation : Closing(g)
  BY <1>5, ClosingOperation
<1>6. CASE UNCHANGED vars
  <2>1. op' = op /\ UNCHANGED <<running, cancelled, armed, shutdown, current, life, user>>
    BY <1>6 DEF vars, app, loopVars, generations
  <2>2. {cancelled, armed, shutdown}' \subseteq BOOLEAN
    BY <2>1 DEF OperationInv
  <2> QED
    BY <2>1, <2>2, StopIsSame, OperationStays
<1> QED
  BY <1>1, <1>2, <1>3, <1>4, <1>5, <1>6 DEF Next


-----------------------------------------------------------------------------
\* Whatever the loop, the operation and the close functions do to a generation,
\* they do by the steps of the registry and of the lifecycle.
LEMMA StepOfGenerations == OperationInv /\ [Next]_vars => [GenerationsNext]_generations
<1> SUFFICES ASSUME OperationInv, [Next]_vars PROVE [GenerationsNext]_generations
  OBVIOUS
<1> DEFINE Rest == UNCHANGED generations
<1>1. Turn \in User /\ Work \in Lease /\ \A g \in Generation : g \in Lease
  BY AppAssumption
<1>2. current \in Generation /\ (op.kind \in {"turn", "compact"} => op.gen \in Generation)
  BY DEF OperationInv
<1>3. ASSUME Return \/ retire(current) PROVE GenerationsNext
  BY <1>2, <1>3 DEF Return, GenerationsNext
<1>4. CASE Loop
  <2>1. CASE Notice \/ LastResult \/ OperationDone
    BY <1>3, <2>1 DEF Notice, LastResult, OperationDone
  <2>2. CASE CompleteReload
    <3>1. CASE op.out = "failed"
      BY <2>2, <3>1 DEF CompleteReload
    <3>2. CASE op.out # "failed"
      <4>1. op.gen \in Generation
        BY <2>2, <3>2 DEF CompleteReload, Ended, OperationInv, Candidate, Outcomes
      <4>2. retire(op.gen) \/ retire(current)
        BY <2>2, <3>2 DEF CompleteReload, GiveUp, TakeOver
      <4> QED
        BY <1>2, <4>1, <4>2 DEF GenerationsNext
    <3> QED
      BY <3>1, <3>2
  <2>3. CASE ApplyMode \/ ApplyModel \/ CommitAcknowledgement \/ \E channel \in {"runtime", "protocol"} : Forward(channel)
    BY <2>3 DEF ApplyMode, ApplyModel, CommitAcknowledgement, Forward
  <2> QED
    BY <1>4, <2>1, <2>2, <2>3 DEF Loop
<1>5. CASE Commands
  <2>1. CASE StartTurn \/ Compact \/ ReloadConfig \/ CancelTurn
    BY <2>1 DEF StartTurn, Compact, StartOn, Reject, ReloadConfig, CancelTurn
  <2>2. CASE Shutdown
    BY <1>3, <2>2 DEF Shutdown
  <2>3. CASE \/ \E view \in shown : ResolvePermission(view)
             \/ \E view \in shown \cup {Other} : AcknowledgeAutoShell(view)
             \/ \E m \in Mode : ChangeMode(m)
             \/ \E m \in Model : ChangeModel(m)
             \/ \E s \in Session : OpenSession(s) \/ NewSession(s)
    BY <2>3 DEF ResolvePermission, AcknowledgeAutoShell, ChangeMode, ChangeModel, OpenSession, NewSession, Reject
  <2> QED
    BY <1>5, <2>1, <2>2, <2>3 DEF Commands
<1>6. CASE Operation
  <2>1. CASE TurnAcquires
    BY <1>1, <1>2, <2>1 DEF TurnAcquires, At, GenerationsNext
  <2>2. CASE WorkBegins
    <3>1. op.gen \in Generation
      BY <1>2, <2>2 DEF WorkBegins, Works, At
    <3>2. AcquireExisting(op.gen, Work) \/ \E s \in Stream : OpenStream(Work, s, Work)
      BY <2>2 DEF WorkBegins, Works
    <3> QED
      BY <1>1, <3>1, <3>2 DEF GenerationsNext
  <2>3. CASE WorkFlushes \/ WorkCloses \/ WorkDrops
    BY <1>1, <2>3 DEF WorkFlushes, WorkCloses, WorkDrops, Works, GenerationsNext
  <2>4. CASE TurnAsks \/ TurnPrompts \/ ResolveAnswered \/ ResolveCancelled
             \/ \E channel \in {"runtime", "protocol"} : Emits(channel)
    BY <2>4 DEF TurnAsks, TurnPrompts, ResolveAnswered, ResolveCancelled, Emits
  <2>5. CASE OperationFinishes
    BY <1>1, <2>5 DEF OperationFinishes, GenerationsNext
  <2>6. CASE \E g \in Generation : Reloads(g)
    BY <1>1, <2>6 DEF Reloads, GenerationsNext
  <2> QED
    BY <1>6, <2>1, <2>2, <2>3, <2>4, <2>5, <2>6 DEF Operation
<1>7. CASE Show \/ Cancel
  BY <1>7 DEF Show, Cancel
<1>8. CASE \E g \in Generation : Closing(g)
  BY <1>1, <1>8 DEF Closing, GenerationsNext
<1>9. CASE UNCHANGED vars
  BY <1>9 DEF vars, generations
<1> QED
  BY <1>4, <1>5, <1>6, <1>7, <1>8, <1>9 DEF Next

-----------------------------------------------------------------------------
(* The approvals. *)

\* While the operation stays at its stage, a prompt or an answer may only go.
LEMMA ApprovalsStay ==
  ASSUME ApprovalInv, pending' \subseteq pending, UNCHANGED <<asked, answer>>,
         \/ op'.stage = op.stage
         \/ pending' = {} /\ answer = 0 /\ op'.stage \notin {"asking", "waiting"}
  PROVE  ApprovalInv'
BY DEF ApprovalInv, AnswersTheRightRequest

\* removePending: nothing is pending, and no answer is left behind.
LEMMA RemovePendingApprovals ==
  ASSUME ApprovalInv, removePending, op'.stage \notin {"asking", "waiting"}
  PROVE  ApprovalInv'
<1>1. asked' = asked /\ answer' = 0 /\ pending' = {}
  BY DEF removePending, ApprovalInv, AnswersTheRightRequest
<1>2. 0 \in 0 .. MaxPrompts
  BY AppAssumption
<1> QED
  BY <1>1, <1>2 DEF ApprovalInv, AnswersTheRightRequest

\* Resolve registers one prompt, after the last one is gone.
LEMMA TurnAsksApprovals ==
  ASSUME ApprovalInv, TurnAsks
  PROVE  ApprovalInv'
<1>1. /\ op.stage = "working" /\ op'.stage = "asking"
      /\ asked' = asked + 1 /\ asked < MaxPrompts /\ answer' = answer
      /\ pending' = pending \cup {[id |-> asked + 1, request |-> asked + 1]}
  <2>1. op' = [op EXCEPT !.stage = "asking"]
    BY DEF TurnAsks, Goes
  <2> QED
    BY <2>1 DEF TurnAsks, At, displayedCallID
<1>2. pending = {} /\ answer = 0
  BY <1>1 DEF ApprovalInv, AnswersTheRightRequest
<1>3. asked + 1 \in 1 .. MaxPrompts
  BY <1>1, AppAssumption DEF ApprovalInv
<1>4. [id |-> asked + 1, request |-> asked + 1] \in Displayed
  BY <1>3 DEF Displayed, Prompt
<1> QED
  BY <1>1, <1>2, <1>3, <1>4 DEF ApprovalInv, AnswersTheRightRequest

\* resolvePermission: what the user saw identifies the request that is pending.
LEMMA ResolveApprovals ==
  ASSUME ApprovalInv, NEW view \in Displayed \cup {Other}, resolve(view), op' = op
  PROVE  ApprovalInv'
<1>1. PICK p \in pending : p.id = view.id /\ pending' = pending \ {p}
  BY DEF resolve
<1>2. answer' = view.request /\ asked' = asked
  BY DEF resolve
<1>3. p \in Displayed /\ p.id # 0
  BY <1>1 DEF ApprovalInv, Displayed, Prompt
<1>4. view.request = p.request /\ view.request \in 0 .. MaxPrompts
  BY <1>1, <1>3, AppAssumption DEF Displayed, Prompt, Other
<1>5. op.stage \in {"asking", "waiting"} /\ p.request = asked
  BY DEF ApprovalInv, AnswersTheRightRequest
<1> QED
  BY <1>1, <1>2, <1>4, <1>5 DEF ApprovalInv, AnswersTheRightRequest


\* The approvals under every step.
LEMMA ApprovalStep ==
  OperationInv /\ SettingsInv /\ ApprovalInv /\ QueueInv /\ [Next]_vars => ApprovalInv'
<1> SUFFICES ASSUME OperationInv, SettingsInv, ApprovalInv, QueueInv, [Next]_vars PROVE ApprovalInv'
  OBVIOUS
<1>0. /\ op \in [kind : Kinds, gen : Generation \cup {None}, stopped : BOOLEAN, stage : Stages, out : Outcomes]
      /\ Stop.stage = op.stage
      /\ ~ Busy => op.stage = "none"
  BY DEF OperationInv, Stop, Busy
<1>1. op.stage \notin {"asking", "waiting"} => pending = {} /\ answer = 0
  BY DEF ApprovalInv, AnswersTheRightRequest
<1>2. CASE Loop
  <2>1. CASE Notice \/ \E channel \in {"runtime", "protocol"} : Forward(channel)
    <3>1. /\ op' = op \/ op' = Stop
          /\ (pending' = {} /\ UNCHANGED <<asked, answer>>) \/ UNCHANGED prompts
      BY <2>1 DEF Notice, Forward, clearPending
    <3> QED
      BY <1>0, <3>1, ApprovalsStay DEF prompts
  <2>2. CASE LastResult \/ OperationDone \/ CompleteReload
    <3>1. op.stage = "finished" /\ UNCHANGED prompts /\ op'.stage = "none"
      BY <2>2 DEF LastResult, OperationDone, CompleteReload, Ended, NoOperation
    <3> QED
      BY <1>1, <3>1, ApprovalsStay DEF prompts
  <2>3. CASE ApplyMode \/ ApplyModel
    <3>1. op' = op /\ UNCHANGED prompts
      BY <2>3 DEF ApplyMode, ApplyModel
    <3> QED
      BY <3>1, ApprovalsStay DEF prompts
  <2>4. CASE CommitAcknowledgement
    <3>1. op' = op /\ (UNCHANGED prompts \/ resolve(applying.shell)) /\ applying.shell # None
      BY <2>4 DEF CommitAcknowledgement
    <3>2. applying.shell \in Displayed \cup {Other}
      BY <3>1 DEF SettingsInv, Waits
    <3> QED
      BY <3>1, <3>2, ApprovalsStay, ResolveApprovals DEF prompts
  <2> QED
    BY <1>2, <2>1, <2>2, <2>3, <2>4 DEF Loop
<1>3. CASE Commands
  <2>1. CASE StartTurn \/ Compact \/ ReloadConfig
    <3>1. UNCHANGED prompts /\ (op' = op \/ (~ Busy /\ \E kind : Start(kind)))
      BY <2>1 DEF StartTurn, Compact, StartOn, ReloadConfig, Reject
    <3>2. ASSUME NEW kind, Start(kind) PROVE op'.stage \in {"starting", "working"}
      BY <3>2 DEF Start
    <3> QED
      BY <1>0, <1>1, <3>1, <3>2, ApprovalsStay DEF prompts
  <2>2. CASE CancelTurn \/ Shutdown
    <3>1. /\ op' = Stop
          /\ (pending' = {} /\ UNCHANGED <<asked, answer>>) \/ UNCHANGED prompts
      BY <2>2 DEF CancelTurn, Shutdown, clearPending
    <3> QED
      BY <1>0, <3>1, ApprovalsStay DEF prompts
  <2>3. CASE \E view \in shown : ResolvePermission(view)
    <3>1. PICK view \in shown : ResolvePermission(view)
      BY <2>3
    <3>2. op' = op /\ (UNCHANGED prompts \/ resolve(view)) /\ view \in Displayed
      BY <3>1 DEF ResolvePermission, Reject, QueueInv
    <3> QED
      BY <3>2, ApprovalsStay, ResolveApprovals DEF prompts
  <2>4. CASE \/ \E view \in shown \cup {Other} : AcknowledgeAutoShell(view)
             \/ \E m \in Mode : ChangeMode(m)
             \/ \E m \in Model : ChangeModel(m)
             \/ \E s \in Session : OpenSession(s) \/ NewSession(s)
    <3>1. op' = op /\ UNCHANGED prompts
      BY <2>4 DEF AcknowledgeAutoShell, ChangeMode, ChangeModel, OpenSession, NewSession, Reject
    <3> QED
      BY <3>1, ApprovalsStay DEF prompts
  <2> QED
    BY <1>3, <2>1, <2>2, <2>3, <2>4 DEF Commands
<1>4. CASE Operation
  <2>1. CASE TurnAcquires \/ OperationFinishes \/ \E g \in Generation : Reloads(g)
    <3>1. CASE TurnAcquires
      <4>1. op.stage = "starting" /\ UNCHANGED prompts
        BY <3>1 DEF TurnAcquires, At
      <4>2. Goes("working") \/ Finishes("failed")
        BY <3>1 DEF TurnAcquires
      <4>3. op'.stage \in {"working", "finished"}
        BY <1>0, <4>2 DEF Goes, Finishes
      <4> QED
        BY <1>1, <4>1, <4>3, ApprovalsStay DEF prompts
    <3>2. CASE OperationFinishes
      <4>1. op.stage = "working" /\ UNCHANGED prompts
        BY <3>2 DEF OperationFinishes, At
      <4>2. \E out \in Outcomes : Finishes(out)
        BY <3>2 DEF OperationFinishes
      <4>3. op'.stage = "finished"
        BY <1>0, <4>2 DEF Finishes
      <4> QED
        BY <1>1, <4>1, <4>3, ApprovalsStay DEF prompts
    <3>3. ASSUME NEW g \in Generation, Reloads(g) PROVE ApprovalInv'
      <4>1. op.stage = "working" /\ UNCHANGED prompts
        BY <3>3 DEF Reloads, At
      <4>2. op' = [op EXCEPT !.stage = "finished", !.gen = g] \/ Finishes("failed")
        BY <3>3 DEF Reloads
      <4>3. op'.stage = "finished"
        BY <1>0, <4>2 DEF Finishes
      <4> QED
        BY <1>1, <4>1, <4>3, ApprovalsStay DEF prompts
    <3> QED
      BY <2>1, <3>1, <3>2, <3>3
  <2>2. CASE WorkBegins \/ WorkFlushes \/ WorkCloses \/ WorkDrops
             \/ \E channel \in {"runtime", "protocol"} : Emits(channel)
    <3>1. op' = op /\ UNCHANGED prompts
      BY <2>2 DEF WorkBegins, WorkFlushes, WorkCloses, WorkDrops, Works, Emits
    <3> QED
      BY <3>1, ApprovalsStay DEF prompts
  <2>3. CASE TurnAsks
    BY <2>3, TurnAsksApprovals
  <2>4. CASE TurnPrompts
    <3>1. CASE removePending /\ Goes("working")
      BY <1>0, <3>1, RemovePendingApprovals DEF Goes
    <3>2. CASE UNCHANGED prompts /\ Goes("waiting")
      <4>1. op.stage = "asking" /\ op'.stage = "waiting"
        BY <1>0, <2>4, <3>2 DEF TurnPrompts, At, Goes
      <4> QED
        BY <3>2, <4>1 DEF prompts, ApprovalInv, AnswersTheRightRequest
    <3> QED
      BY <2>4, <3>1, <3>2 DEF TurnPrompts
  <2>5. CASE ResolveAnswered \/ ResolveCancelled
    BY <1>0, <2>5, RemovePendingApprovals DEF ResolveAnswered, ResolveCancelled, Goes
  <2> QED
    BY <1>4, <2>1, <2>2, <2>3, <2>4, <2>5 DEF Operation
<1>5. CASE Show \/ Cancel \/ (\E g \in Generation : Closing(g)) \/ UNCHANGED vars
  <2>1. op' = op /\ UNCHANGED prompts
    BY <1>5 DEF Show, Cancel, Closing, vars, app
  <2> QED
    BY <2>1, ApprovalsStay DEF prompts
<1> QED
  BY <1>2, <1>3, <1>4, <1>5 DEF Next


-----------------------------------------------------------------------------
(* The queue to the terminal. *)

\* publish, whether there is room or not.
LEMMA PublishQueue ==
  ASSUME QueueInv, NEW kind \in {"terminal", "state", "progress"}, publish(kind), shown' = shown
  PROVE  QueueInv'
<1>1. /\ queue \in Seq(Displayed \cup {Other}) /\ Other \in Displayed \cup {Other}
      /\ Len(queue) \in Nat /\ Capacity \in Nat /\ Len(queue) <= Capacity + 1
  BY AppAssumption, LenProperties DEF QueueInv
<1>2. CASE queue' = queue
  BY <1>2 DEF QueueInv
<1>3. CASE queue' = Append(queue, Other) /\ Fits(kind)
  <2>1. Len(queue) < Capacity + 1
    BY <1>1, <1>3 DEF Fits, Room
  <2>2. queue' \in Seq(Displayed \cup {Other}) /\ Len(queue') = Len(queue) + 1
    BY <1>1, <1>3, AppendProperties
  <2> QED
    BY <1>1, <2>1, <2>2 DEF QueueInv
<1> QED
  BY <1>2, <1>3 DEF publish, Publishes

\* The terminal takes the first event, and learns it if it is a prompt.
LEMMA ShowQueue ==
  ASSUME QueueInv, Show
  PROVE  QueueInv'
<1>1. /\ queue \in Seq(Displayed \cup {Other}) /\ queue # <<>> /\ Capacity \in Nat
      /\ Len(queue) <= Capacity + 1 /\ shown \subseteq Displayed
  BY AppAssumption DEF QueueInv, Show
<1>2. /\ Tail(queue) \in Seq(Displayed \cup {Other}) /\ Len(Tail(queue)) = Len(queue) - 1
      /\ Head(queue) \in Displayed \cup {Other} /\ Len(queue) \in Nat
  BY <1>1, HeadTailProperties, LenProperties
<1>3. queue' = Tail(queue) /\ shown' = shown \cup ({Head(queue)} \ {Other})
  BY DEF Show
<1> QED
  BY <1>1, <1>2, <1>3 DEF QueueInv

\* Resolve's prompt, of the request it waits for.
LEMMA TurnPromptsQueue ==
  ASSUME ApprovalInv, QueueInv, TurnPrompts
  PROVE  QueueInv'
<1>1. /\ queue \in Seq(Displayed \cup {Other}) /\ shown' = shown
      /\ Len(queue) \in Nat /\ Capacity \in Nat /\ Len(queue) <= Capacity + 1
  BY AppAssumption, LenProperties DEF QueueInv, TurnPrompts, Stays
<1>2. CASE queue' = queue
  BY <1>1, <1>2 DEF QueueInv
<1>3. CASE Fits("prompt") /\ queue' = Append(queue, [id |-> displayedCallID(asked), request |-> asked])
  <2>1. asked \in 1 .. MaxPrompts
    BY AppAssumption DEF ApprovalInv, TurnPrompts, At
  <2>2. [id |-> displayedCallID(asked), request |-> asked] \in Displayed \cup {Other}
    BY <2>1 DEF displayedCallID, Displayed, Prompt
  <2>3. Len(queue) < Capacity + 1
    BY <1>1, <1>3 DEF Fits, Room
  <2>4. queue' \in Seq(Displayed \cup {Other}) /\ Len(queue') = Len(queue) + 1
    BY <1>1, <1>3, <2>2, AppendProperties
  <2> QED
    BY <1>1, <2>3, <2>4 DEF QueueInv
<1> QED
  BY <1>2, <1>3 DEF TurnPrompts


\* drainRuntimeEvents fills the room there is, if there is any, and the terminal
\* event of the result has its own place.
LEMMA OperationDoneQueue ==
  ASSUME QueueInv, SpentInv, OperationDone
  PROVE  QueueInv'
<1> DEFINE room == IF cancelled THEN 0 ELSE Capacity - Len(queue)
           n == IF room < arriving["runtime"] THEN room ELSE arriving["runtime"]
           more == [i \in 1 .. n |-> Other]
<1>1. /\ queue \in Seq(Displayed \cup {Other}) /\ Len(queue) \in Nat /\ Capacity \in Nat
      /\ Len(queue) <= Capacity + 1 /\ arriving["runtime"] \in Nat /\ shown \subseteq Displayed
  BY AppAssumption, LenProperties DEF QueueInv, SpentInv
<1>2. n \in Int /\ (0 < n => Len(queue) + n <= Capacity \/ cancelled) /\ (cancelled => n <= 0)
  BY <1>1
<1>3. more \in Seq(Displayed \cup {Other}) /\ Len(more) = IF 0 < n THEN n ELSE 0
  <2> HIDE DEF n
  <2>1. CASE 0 < n
    <3>1. more \in [1 .. n -> Displayed \cup {Other}] /\ n \in Nat
      BY <1>2, <2>1
    <3> QED
      BY <2>1, <3>1
  <2>2. CASE ~ (0 < n)
    <3>1. more \in [1 .. 0 -> Displayed \cup {Other}] /\ 1 .. n = 1 .. 0
      BY <1>2, <2>2
    <3>2. more = <<>>
      BY <3>1
    <3> QED
      BY <2>2, <3>2, EmptySeq
  <2> QED
    BY <2>1, <2>2
<1>4. drained = queue \o more
  BY DEF drained
<1> HIDE DEF more, n, room
<1>5. drained \in Seq(Displayed \cup {Other}) /\ Len(drained) = Len(queue) + Len(more)
  BY <1>1, <1>3, <1>4, ConcatProperties
<1>6. Len(drained) <= Capacity + 1 /\ Len(drained) \in Nat
  BY <1>1, <1>2, <1>3, <1>5
<1>7. shown' = shown /\ (queue' = drained \/ (Len(drained) <= Capacity /\ queue' = Append(drained, Other)))
  <2>1. \A kind : Len(drained) < Room(kind) => Len(drained) <= Capacity
    BY <1>1, <1>6 DEF Room
  <2> QED
    BY <2>1 DEF OperationDone
<1>8. CASE queue' = drained
  BY <1>1, <1>5, <1>6, <1>7, <1>8 DEF QueueInv
<1>9. CASE Len(drained) <= Capacity /\ queue' = Append(drained, Other)
  <2>1. queue' \in Seq(Displayed \cup {Other}) /\ Len(queue') = Len(drained) + 1
    BY <1>5, <1>9, AppendProperties
  <2> QED
    BY <1>1, <1>6, <1>7, <1>9, <2>1 DEF QueueInv
<1> QED
  BY <1>7, <1>8, <1>9

\* The queue under every step.
LEMMA QueueStep ==
  ApprovalInv /\ QueueInv /\ SpentInv /\ [Next]_vars => QueueInv'
<1> SUFFICES ASSUME ApprovalInv, QueueInv, SpentInv, [Next]_vars PROVE QueueInv'
  OBVIOUS
<1> DEFINE Kind == {"terminal", "state", "progress"}
           Told == shown' = shown /\ \E kind \in Kind : publish(kind)
           Quiet == UNCHANGED <<queue, shown>>
<1>1. Quiet => QueueInv'
  BY DEF QueueInv
<1>2. Told => QueueInv'
  BY PublishQueue
<1>3. CASE Loop
  <2>1. CASE Notice \/ LastResult
    BY <1>1, <2>1 DEF Notice, LastResult, events
  <2>2. CASE OperationDone
    BY <2>2, OperationDoneQueue
  <2>3. CASE CompleteReload
    BY <1>2, <2>3 DEF CompleteReload
  <2>4. CASE ApplyMode \/ ApplyModel \/ CommitAcknowledgement
    BY <1>2, <2>4 DEF ApplyMode, ApplyModel, CommitAcknowledgement, Commit
  <2>5. CASE \E channel \in {"runtime", "protocol"} : Forward(channel)
    BY <1>1, <1>2, <2>5 DEF Forward
  <2> QED
    BY <1>3, <2>1, <2>2, <2>3, <2>4, <2>5 DEF Loop
<1>4. CASE Commands
  <2>1. CASE StartTurn \/ Compact
    BY <1>2, <2>1 DEF StartTurn, Compact, StartOn, Reject
  <2>2. CASE ReloadConfig \/ CancelTurn \/ Shutdown
    <3>1. CASE ReloadConfig
      BY <1>1, <1>2, <3>1 DEF ReloadConfig, Reject, events
    <3>2. CASE CancelTurn \/ Shutdown
      BY <1>1, <3>2 DEF CancelTurn, Shutdown, events
    <3> QED
      BY <2>2, <3>1, <3>2
  <2>3. CASE \/ \E view \in shown : ResolvePermission(view)
             \/ \E m \in Mode : ChangeMode(m)
             \/ \E m \in Model : ChangeModel(m)
    <3>1. CASE \E view \in shown : ResolvePermission(view)
      BY <1>1, <1>2, <3>1 DEF ResolvePermission, Reject, events
    <3>2. CASE \E m \in Mode : ChangeMode(m)
      BY <1>1, <3>2 DEF ChangeMode, events
    <3>3. CASE \E m \in Model : ChangeModel(m)
      BY <1>1, <1>2, <3>3 DEF ChangeModel, Reject, events
    <3> QED
      BY <2>3, <3>1, <3>2, <3>3
  <2>4. CASE \E s \in Session : OpenSession(s) \/ NewSession(s)
    BY <1>2, <2>4 DEF OpenSession, NewSession, Reject
  <2>5. CASE \E view \in shown \cup {Other} : AcknowledgeAutoShell(view)
    BY <1>1, <1>2, <2>5 DEF AcknowledgeAutoShell, Reject, events
  <2> QED
    BY <1>4, <2>1, <2>2, <2>3, <2>4, <2>5 DEF Commands
<1>5. CASE Operation
  <2>1. CASE TurnPrompts
    BY <2>1, TurnPromptsQueue
  <2>2. CASE \/ TurnAcquires \/ WorkBegins \/ WorkFlushes \/ WorkCloses \/ WorkDrops \/ TurnAsks
             \/ ResolveAnswered \/ ResolveCancelled \/ OperationFinishes
             \/ \E channel \in {"runtime", "protocol"} : Emits(channel)
             \/ \E g \in Generation : Reloads(g)
    <3>1. CASE TurnAcquires \/ TurnAsks \/ ResolveAnswered \/ ResolveCancelled \/ OperationFinishes
      BY <1>1, <3>1 DEF TurnAcquires, TurnAsks, ResolveAnswered, ResolveCancelled, OperationFinishes, Stays
    <3>2. CASE WorkBegins \/ WorkFlushes \/ WorkCloses \/ WorkDrops
      BY <1>1, <3>2 DEF WorkBegins, WorkFlushes, WorkCloses, WorkDrops, Works, Stays
    <3>3. CASE \E channel \in {"runtime", "protocol"} : Emits(channel)
      BY <1>1, <3>3 DEF Emits, Stays
    <3>4. CASE \E g \in Generation : Reloads(g)
      BY <1>1, <3>4 DEF Reloads, Stays
    <3> QED
      BY <2>2, <3>1, <3>2, <3>3, <3>4
  <2> QED
    BY <1>5, <2>1, <2>2 DEF Operation
<1>6. CASE Show
  BY <1>6, ShowQueue
<1>7. CASE Cancel \/ (\E g \in Generation : Closing(g)) \/ UNCHANGED vars
  BY <1>1, <1>7 DEF Cancel, Closing, vars, app, events
<1> QED
  BY <1>3, <1>4, <1>5, <1>6, <1>7 DEF Next

-----------------------------------------------------------------------------
(* The events that are counted. *)

\* spent only grows, within its bounds, and events leave.
LEMMA LessArrives ==
  ASSUME SpentInv,
         spent' \in [commands : 0 .. MaxCommands, incidents : 0 .. MaxIncidents],
         spent'.incidents >= spent.incidents,
         arriving' \in [{"runtime", "protocol"} -> Nat],
         \A channel \in {"runtime", "protocol"} : arriving'[channel] <= arriving[channel]
  PROVE  SpentInv'
BY AppAssumption DEF SpentInv

\* One more command, with or without an incident, or only an incident.
LEMMA SpendsWithin ==
  ASSUME SpentInv, UNCHANGED arriving,
         \/ spent' = spent
         \/ spent.commands < MaxCommands /\ Use(0)
         \/ spent.commands < MaxCommands /\ Use(1) /\ Faulty
         \/ Faulty /\ spent' = [spent EXCEPT !.incidents = @ + 1]
  PROVE  SpentInv'
<1>1. /\ spent \in [commands : 0 .. MaxCommands, incidents : 0 .. MaxIncidents]
      /\ MaxCommands \in Nat /\ MaxIncidents \in Nat
      /\ arriving' \in [{"runtime", "protocol"} -> Nat]
      /\ \A channel \in {"runtime", "protocol"} :
           arriving'[channel] <= spent.incidents /\ arriving'[channel] \in Nat
  BY AppAssumption DEF SpentInv
<1>2. /\ spent' \in [commands : 0 .. MaxCommands, incidents : 0 .. MaxIncidents]
      /\ spent'.incidents >= spent.incidents
  <2>1. CASE spent' = spent
    BY <1>1, <2>1
  <2>2. ASSUME NEW d \in {0, 1}, Use(d), spent.commands < MaxCommands, spent.incidents + d <= MaxIncidents
        PROVE  /\ spent' \in [commands : 0 .. MaxCommands, incidents : 0 .. MaxIncidents]
               /\ spent'.incidents >= spent.incidents
    <3>1. spent.commands + 1 \in 0 .. MaxCommands /\ spent.incidents + d \in 0 .. MaxIncidents
      BY <1>1, <2>2
    <3>2. /\ spent' = [spent EXCEPT !.commands = @ + 1, !.incidents = @ + d]
          /\ spent = [commands |-> spent.commands, incidents |-> spent.incidents]
      BY <1>1, <2>2 DEF Use
    <3>3. spent' = [commands |-> spent.commands + 1, incidents |-> spent.incidents + d]
      BY <3>2
    <3> QED
      BY <1>1, <3>1, <3>3
  <2>3. CASE Faulty /\ spent' = [spent EXCEPT !.incidents = @ + 1]
    <3>1. spent.incidents + 1 \in 0 .. MaxIncidents
      BY <1>1, <2>3 DEF Faulty
    <3> QED
      BY <1>1, <2>3, <3>1
  <2>4. Faulty => spent.incidents + 1 <= MaxIncidents
    BY <1>1 DEF Faulty
  <2> QED
    BY <1>1, <2>1, <2>2, <2>3, <2>4
<1>3. \A channel \in {"runtime", "protocol"} : arriving'[channel] <= spent'.incidents
  BY <1>1, <1>2
<1> QED
  BY <1>1, <1>2, <1>3 DEF SpentInv


\* The counters under every step.
LEMMA SpentStep == SpentInv /\ [Next]_vars => SpentInv'
<1> SUFFICES ASSUME SpentInv, [Next]_vars PROVE SpentInv'
  OBVIOUS
<1> DEFINE Costs == /\ arriving' = arriving
                    /\ \/ spent' = spent
                       \/ spent.commands < MaxCommands /\ Use(0)
                       \/ spent.commands < MaxCommands /\ Use(1) /\ Faulty
                       \/ Faulty /\ spent' = [spent EXCEPT !.incidents = @ + 1]
<1>0. Costs => SpentInv'
  BY SpendsWithin
<1> HIDE DEF Costs
<1>t. /\ spent \in [commands : 0 .. MaxCommands, incidents : 0 .. MaxIncidents]
      /\ arriving \in [{"runtime", "protocol"} -> Nat] /\ MaxIncidents \in Nat
      /\ \A channel \in {"runtime", "protocol"} :
           arriving[channel] \in Nat /\ arriving[channel] <= spent.incidents
      /\ spent.incidents \in Nat
  BY AppAssumption DEF SpentInv
<1>1. CASE Loop
  <2>1. CASE Notice \/ LastResult
    BY <1>0, <2>1 DEF Notice, LastResult, events, Costs
  <2>2. CASE CompleteReload
    BY <1>0, <2>2 DEF CompleteReload, GiveUp, TakeOver, Fault, Costs
  <2>3. CASE ApplyMode \/ ApplyModel \/ CommitAcknowledgement
    BY <1>0, <2>3 DEF ApplyMode, ApplyModel, CommitAcknowledgement, Commit, Costs
  <2>4. CASE OperationDone
    <3>1. arriving' = [arriving EXCEPT !["runtime"] = 0]
      BY <2>4 DEF OperationDone
    <3>2. spent' = spent \/ (Faulty /\ spent' = [spent EXCEPT !.incidents = @ + 1])
      BY <2>4 DEF OperationDone, Refresh, Fault
    <3>3. /\ spent' \in [commands : 0 .. MaxCommands, incidents : 0 .. MaxIncidents]
          /\ spent'.incidents >= spent.incidents
      <4>1. CASE spent' = spent
        BY <1>t, <4>1
      <4>2. CASE Faulty /\ spent' = [spent EXCEPT !.incidents = @ + 1]
        <5>1. spent.incidents + 1 \in 0 .. MaxIncidents
          BY <1>t, <4>2 DEF Faulty
        <5> QED
          BY <1>t, <4>2, <5>1
      <4> QED
        BY <3>2, <4>1, <4>2
    <3>4. /\ arriving' \in [{"runtime", "protocol"} -> Nat]
          /\ \A channel \in {"runtime", "protocol"} : arriving'[channel] <= arriving[channel]
      BY <1>t, <3>1
    <3> QED
      BY <3>3, <3>4, LessArrives
  <2>5. ASSUME NEW channel \in {"runtime", "protocol"}, Forward(channel) PROVE SpentInv'
    <3>1. spent' = spent /\ arriving[channel] > 0 /\ arriving' = [arriving EXCEPT ![channel] = @ - 1]
      BY <2>5 DEF Forward
    <3>2. /\ arriving' \in [{"runtime", "protocol"} -> Nat]
          /\ \A c \in {"runtime", "protocol"} : arriving'[c] <= arriving[c]
      BY <1>t, <3>1
    <3> QED
      BY <1>t, <3>1, <3>2, LessArrives
  <2> QED
    BY <1>1, <2>1, <2>2, <2>3, <2>4, <2>5 DEF Loop
<1>2. CASE Commands
  <2>1. CASE StartTurn \/ Compact
    BY <1>0, <2>1 DEF StartTurn, Compact, StartOn, CanCommand, Reject, Costs
  <2>2. CASE ReloadConfig
    BY <1>0, <2>2 DEF ReloadConfig, CanCommand, Reject, events, Costs
  <2>3. CASE CancelTurn \/ Shutdown
    BY <1>0, <2>3 DEF CancelTurn, Shutdown, CanCommand, events, Costs
  <2>4. CASE \E view \in shown : ResolvePermission(view)
    BY <1>0, <2>4 DEF ResolvePermission, CanCommand, Reject, events, Costs
  <2>5. CASE \E m \in Mode : ChangeMode(m)
    BY <1>0, <2>5 DEF ChangeMode, CanCommand, events, Costs
  <2>6. CASE \E m \in Model : ChangeModel(m)
    BY <1>0, <2>6 DEF ChangeModel, CanCommand, Reject, events, Costs
  <2>7. CASE \E s \in Session : OpenSession(s)
    BY <1>0, <2>7 DEF OpenSession, CanCommand, Reject, Costs
  <2>8. CASE \E s \in Session : NewSession(s)
    BY <1>0, <2>8 DEF NewSession, CanCommand, Reject, Costs
  <2>9. CASE \E view \in shown \cup {Other} : AcknowledgeAutoShell(view)
    BY <1>0, <2>9 DEF AcknowledgeAutoShell, CanCommand, Reject, events, Costs
  <2> QED
    BY <1>2, <2>1, <2>2, <2>3, <2>4, <2>5, <2>6, <2>7, <2>8, <2>9 DEF Commands
<1>3. CASE Operation
  <2>1. CASE TurnAcquires \/ TurnAsks \/ TurnPrompts \/ ResolveAnswered \/ ResolveCancelled \/ OperationFinishes
    BY <1>0, <2>1 DEF TurnAcquires, TurnAsks, TurnPrompts, ResolveAnswered, ResolveCancelled,
         OperationFinishes, Costs
  <2>2. CASE WorkBegins \/ WorkFlushes \/ WorkCloses \/ WorkDrops
    BY <1>0, <2>2 DEF WorkBegins, WorkFlushes, WorkCloses, WorkDrops, Works, Costs
  <2>3. ASSUME NEW channel \in {"runtime", "protocol"}, Emits(channel) PROVE SpentInv'
    <3>1. /\ spent.incidents < MaxIncidents
          /\ spent' = [spent EXCEPT !.incidents = @ + 1]
          /\ arriving' = [arriving EXCEPT ![channel] = @ + 1]
      BY <2>3 DEF Emits
    <3>2. spent.incidents + 1 \in 0 .. MaxIncidents
      BY <1>t, <3>1
    <3>3. /\ spent' \in [commands : 0 .. MaxCommands, incidents : 0 .. MaxIncidents]
          /\ spent'.incidents = spent.incidents + 1
      BY <1>t, <3>1, <3>2
    <3>4. /\ arriving' \in [{"runtime", "protocol"} -> Nat]
          /\ \A c \in {"runtime", "protocol"} : arriving'[c] <= spent.incidents + 1
      BY <1>t, <3>1
    <3> QED
      BY <3>3, <3>4 DEF SpentInv
  <2>4. CASE \E g \in Generation : Reloads(g)
    BY <1>0, <2>4 DEF Reloads, Costs
  <2> QED
    BY <1>3, <2>1, <2>2, <2>3, <2>4 DEF Operation
<1>4. CASE Show \/ Cancel \/ (\E g \in Generation : Closing(g)) \/ UNCHANGED vars
  BY <1>0, <1>4 DEF Show, Cancel, Closing, vars, app, events, Costs
<1> QED
  BY <1>1, <1>2, <1>3, <1>4 DEF Next

-----------------------------------------------------------------------------
(* The settings. *)

\* A commit of one setting leaves the other, and every other journal, as it is.
LEMMA WrittenIs ==
  ASSUME SettingsInv, NEW s \in Session, Exists(s), NEW field \in {"mode", "model"}, NEW value,
         IF field = "mode" THEN value \in Mode ELSE value \in Model,
         Written(s, field, value)
  PROVE  /\ journal' \in [Session -> [mode : Mode, model : Model \cup {None}]]
         /\ \A t \in Session : Exists(t) => journal'[t].model # None
         /\ \A t \in Session : t # s => journal'[t] = journal[t]
         /\ field = "mode" => journal'[s].mode = value /\ journal'[s].model = journal[s].model
         /\ field = "model" => /\ journal'[s].model = value
                               /\ \A t \in Session : journal'[t].mode = journal[t].mode
<1>1. /\ journal \in [Session -> [mode : Mode, model : Model \cup {None}]]
      /\ journal[s] \in [mode : Mode, model : Model \cup {None}] /\ journal[s].model # None
      /\ None \notin Model
  BY AppAssumption DEF SettingsInv, Exists
<1>2. CASE field = "mode"
  <2>1. journal' = [journal EXCEPT ![s].mode = value] /\ value \in Mode
    BY <1>2 DEF Written
  <2>2. journal'[s] \in [mode : Mode, model : Model \cup {None}]
        /\ journal'[s].mode = value /\ journal'[s].model = journal[s].model
    BY <1>1, <2>1
  <2> QED
    BY <1>1, <1>2, <2>1, <2>2 DEF Exists
<1>3. CASE field = "model"
  <2>1. journal' = [journal EXCEPT ![s].model = value] /\ value \in Model
    BY <1>3 DEF Written
  <2>2. journal'[s] \in [mode : Mode, model : Model \cup {None}]
        /\ journal'[s].mode = journal[s].mode /\ journal'[s].model = value
    BY <1>1, <2>1
  <2>3. \A t \in Session : t # s => journal'[t] = journal[t]
    BY <1>1, <2>1
  <2>4. \A t \in Session : journal'[t].mode = journal[t].mode
    BY <2>2, <2>3
  <2> QED
    BY <1>1, <1>3, <2>1, <2>2, <2>3, <2>4 DEF Exists
<1> QED
  BY <1>2, <1>3


\* The settings that wait, and those that are about to be committed.
Waiting == {queued, applying} \subseteq Waits

\* Nothing but the model of the journal and of the session may have changed.
LEMMA ModelSettings ==
  ASSUME SettingsInv, Waiting', {stale', doubt'} \subseteq BOOLEAN, policy' = policy,
         doubt' = doubt \/ doubt',
         journal' \in [Session -> [mode : Mode, model : Model \cup {None}]],
         \A t \in Session : (Exists(t) => journal'[t].model # None) /\ journal'[t].mode = journal[t].mode,
         session' \in [id : Session, mode : Mode, model : Model],
         session'.id = session.id, session'.mode = session.mode
  PROVE  SettingsInv'
<1>1. session.id \in Session /\ Exists(session.id) /\ PolicyFollowsSession
  BY DEF SettingsInv
<1>2. Exists(session.id)'
  BY <1>1 DEF Exists
<1>3. PolicyFollowsSession'
  BY <1>1 DEF PolicyFollowsSession
<1> QED
  BY <1>2, <1>3 DEF SettingsInv, Waiting

\* commitSettingUsing: the refresh and the policy follow the journal, or the
\* commit failed, or the session is in doubt.
LEMMA CommitSettings ==
  ASSUME SettingsInv, Waiting', NEW field \in {"mode", "model"}, NEW value,
         IF field = "mode" THEN value \in Mode ELSE value \in Model,
         Commit(field, value)
  PROVE  SettingsInv'
<1>1. /\ session \in [id : Session, mode : Mode, model : Model] /\ session.id \in Session
      /\ Exists(session.id) /\ policy \in Mode /\ {stale, doubt} \subseteq BOOLEAN
      /\ journal \in [Session -> [mode : Mode, model : Model \cup {None}]]
      /\ PolicyFollowsSession
  BY DEF SettingsInv
<1>2. CASE UNCHANGED <<session, stale, journal, policy, doubt>>
  BY <1>1, <1>2 DEF SettingsInv, Waiting, Exists, PolicyFollowsSession
<1>3. CASE Written(session.id, field, value) /\ doubt' = TRUE /\ UNCHANGED <<session, stale, policy>>
  <2>1. /\ journal' \in [Session -> [mode : Mode, model : Model \cup {None}]]
        /\ journal'[session.id].model # None
    BY <1>1, <1>3, WrittenIs
  <2> QED
    BY <1>1, <1>3, <2>1 DEF SettingsInv, Waiting, Exists, PolicyFollowsSession
<1>4. CASE /\ Written(session.id, field, value)
           /\ session' = IF field = "mode" THEN [session EXCEPT !.mode = value]
                         ELSE [session EXCEPT !.model = value]
           /\ policy' = IF field = "mode" THEN value ELSE policy
           /\ stale' = FALSE /\ doubt' = doubt
  <2>1. /\ journal' \in [Session -> [mode : Mode, model : Model \cup {None}]]
        /\ \A t \in Session : Exists(t) => journal'[t].model # None
        /\ field = "mode" => journal'[session.id].mode = value
        /\ field = "model" => \A t \in Session : journal'[t].mode = journal[t].mode
    BY <1>1, <1>4, WrittenIs
  <2>2. CASE field = "mode"
    <3>1. /\ session' \in [id : Session, mode : Mode, model : Model]
          /\ session'.id = session.id /\ session'.mode = value
      BY <1>1, <1>4, <2>2
    <3>2. Exists(session.id)' /\ PolicyFollowsSession'
      BY <1>1, <1>4, <2>1, <2>2, <3>1 DEF Exists, PolicyFollowsSession
    <3> QED
      BY <1>1, <1>4, <2>1, <2>2, <3>1, <3>2 DEF SettingsInv, Waiting
  <2>3. CASE field = "model"
    <3>1. /\ session' \in [id : Session, mode : Mode, model : Model]
          /\ session'.id = session.id /\ session'.mode = session.mode
      BY <1>1, <1>4, <2>3
    <3>2. policy' = policy /\ {stale', doubt'} \subseteq BOOLEAN
      BY <1>1, <1>4, <2>3
    <3> QED
      BY <1>4, <2>1, <2>3, <3>1, <3>2, ModelSettings
  <2> QED
    BY <2>2, <2>3
<1> QED
  BY <1>2, <1>3, <1>4 DEF Commit

\* A session that exists is adopted with the mode of its own replay.
LEMMA AdoptSettings ==
  ASSUME SettingsInv, Waiting', NEW s \in Session, NEW model \in Model, Adopt(s, model),
         journal' \in [Session -> [mode : Mode, model : Model \cup {None}]],
         journal'[s].model # None
  PROVE  SettingsInv'
<1>1. /\ session' = [id |-> s, mode |-> journal'[s].mode, model |-> model]
      /\ policy' = journal'[s].mode /\ stale' = FALSE /\ doubt' = FALSE
      /\ journal'[s].mode \in Mode
  BY DEF Adopt
<1>2. session' \in [id : Session, mode : Mode, model : Model] /\ session'.id = s
      /\ session'.mode = journal'[s].mode
  BY <1>1
<1>3. Exists(session.id)' /\ PolicyFollowsSession'
  BY <1>1, <1>2 DEF Exists, PolicyFollowsSession
<1> QED
  BY <1>1, <1>2, <1>3 DEF SettingsInv, Waiting

\* The settings do not change at all, or only those that wait do.
LEMMA SettingsRest ==
  ASSUME SettingsInv, Waiting', UNCHANGED <<session, stale, journal, policy, doubt>>
  PROVE  SettingsInv'
BY DEF SettingsInv, Waiting, Exists, PolicyFollowsSession


\* applyMode and applyModel.
LEMMA ApplySettings ==
  ASSUME SettingsInv, ApplyMode \/ ApplyModel
  PROVE  SettingsInv'
<1>1. {queued, applying} \subseteq Waits
  BY DEF SettingsInv
<1>2. CASE ApplyMode
  <2>1. Waiting' /\ applying.mode \in Mode /\ Commit("mode", applying.mode)
    BY <1>1, <1>2 DEF ApplyMode, Waiting, Waits
  <2> QED
    BY <2>1, CommitSettings
<1>3. CASE ApplyModel
  <2>1. Waiting' /\ applying.model \in Model /\ Commit("model", applying.model)
    BY <1>1, <1>3 DEF ApplyModel, Waiting, Waits
  <2> QED
    BY <2>1, CommitSettings
<1> QED
  BY <1>2, <1>3

\* CommandChangeMode and CommandChangeModel only put a setting down.
LEMMA ChangeSettings ==
  ASSUME SettingsInv,
         (\E m \in Mode : ChangeMode(m)) \/ \E m \in Model : ChangeModel(m)
  PROVE  SettingsInv'
<1>1. {queued, applying} \subseteq Waits
  BY DEF SettingsInv
<1>2. UNCHANGED <<session, stale, journal, policy, doubt>>
  BY DEF ChangeMode, ChangeModel, Reject, settings
<1>3. Waiting'
  <2>1. ASSUME NEW m \in Mode, ChangeMode(m) PROVE Waiting'
    <3>1. /\ queued' = queued \/ queued' = [queued EXCEPT !.mode = m]
          /\ applying' = applying \/ applying' = [applying EXCEPT !.mode = m]
      BY <2>1 DEF ChangeMode
    <3> QED
      BY <1>1, <3>1 DEF Waiting, Waits
  <2>2. ASSUME NEW m \in Model, ChangeModel(m) PROVE Waiting'
    <3>1. /\ queued' = queued \/ queued' = [queued EXCEPT !.model = m]
          /\ applying' = applying \/ applying' = [applying EXCEPT !.model = m]
      BY <2>2 DEF ChangeModel, Reject, settings
    <3> QED
      BY <1>1, <3>1 DEF Waiting, Waits
  <2> QED
    BY <2>1, <2>2
<1> QED
  BY <1>2, <1>3, SettingsRest

\* acknowledgeAutoShell, of a prompt that was displayed or of none, changes no
\* setting.
LEMMA AcknowledgeSettings ==
  ASSUME SettingsInv, QueueInv,
         CommitAcknowledgement \/ \E view \in shown \cup {Other} : AcknowledgeAutoShell(view)
  PROVE  SettingsInv'
<1>1. {queued, applying} \subseteq Waits /\ stale \in BOOLEAN
  BY DEF SettingsInv
<1>2. CASE CommitAcknowledgement
  <2>1. /\ applying' = NoSettings /\ UNCHANGED <<queued, session, journal, policy, doubt>>
        /\ stale' = stale \/ stale' = FALSE
    BY <1>2 DEF CommitAcknowledgement
  <2>2. NoSettings \in Waits
    BY DEF NoSettings, Waits
  <2>3. Waiting' /\ stale' \in BOOLEAN
    BY <1>1, <2>1, <2>2 DEF Waiting, Waits
  <2> QED
    BY <2>1, <2>3 DEF SettingsInv, Waiting, Exists, PolicyFollowsSession
<1>3. ASSUME NEW view \in shown \cup {Other}, AcknowledgeAutoShell(view) PROVE SettingsInv'
  <2>1. /\ applying' = applying \/ applying' = [applying EXCEPT !.shell = view]
        /\ UNCHANGED <<queued, session, stale, journal, policy, doubt>>
    BY <1>3 DEF AcknowledgeAutoShell, Reject, settings
  <2>2. view \in Displayed \cup {Other}
    BY DEF QueueInv
  <2>3. Waiting'
    BY <1>1, <2>1, <2>2 DEF Waiting, Waits
  <2> QED
    BY <2>1, <2>3, SettingsRest
<1> QED
  BY <1>2, <1>3

\* openSession, whose fallback is written to the journal of another session.
LEMMA OpenSessionSettings ==
  ASSUME OperationInv, SettingsInv, NEW s \in Session, OpenSession(s)
  PROVE  SettingsInv'
<1>1. /\ session \in [id : Session, mode : Mode, model : Model] /\ session.id \in Session
      /\ Exists(session.id) /\ Exists(s) /\ {stale, doubt} \subseteq BOOLEAN
      /\ journal \in [Session -> [mode : Mode, model : Model \cup {None}]]
      /\ {queued, applying} \subseteq Waits
      /\ DefaultOf[current] \in Model
  BY AppAssumption DEF SettingsInv, OpenSession, OperationInv
<1>2. Waiting'
  BY <1>1 DEF OpenSession, Reject, settings, Waiting
<1>3. CASE UNCHANGED <<session, stale, journal, policy, doubt>>
  BY <1>2, <1>3, SettingsRest
<1>4. CASE /\ Written(session.id, "model", DefaultOf[current]) /\ doubt' = TRUE
           /\ UNCHANGED <<session, stale, policy>>
  <2>1. /\ journal' \in [Session -> [mode : Mode, model : Model \cup {None}]]
        /\ \A t \in Session : (Exists(t) => journal'[t].model # None) /\ journal'[t].mode = journal[t].mode
    BY <1>1, <1>4, WrittenIs
  <2> QED
    BY <1>1, <1>2, <1>4, <2>1, ModelSettings
<1>5. CASE Written(session.id, "model", DefaultOf[current]) /\ Adopt(s, DefaultOf[current])
  <2>1. /\ journal' \in [Session -> [mode : Mode, model : Model \cup {None}]]
        /\ \A t \in Session : Exists(t) => journal'[t].model # None
    BY <1>1, <1>5, WrittenIs
  <2> QED
    BY <1>1, <1>2, <1>5, <2>1, AdoptSettings
<1>6. CASE UNCHANGED journal /\ Adopt(s, journal[s].model)
  <2>1. journal[s].model \in Model /\ journal' = journal /\ journal'[s].model # None
    BY <1>1, <1>6 DEF Exists
  <2> QED
    BY <1>1, <1>2, <1>6, <2>1, AdoptSettings
<1>7. CASE Busy /\ Reject
  BY <1>3, <1>7 DEF Reject, settings
<1> QED
  BY <1>3, <1>4, <1>5, <1>6, <1>7 DEF OpenSession

\* newSession writes the settings of the session it comes from.
LEMMA NewSessionSettings ==
  ASSUME OperationInv, SettingsInv, NEW s \in Session, NewSession(s)
  PROVE  SettingsInv'
<1>1. /\ session \in [id : Session, mode : Mode, model : Model]
      /\ journal \in [Session -> [mode : Mode, model : Model \cup {None}]]
      /\ {queued, applying} \subseteq Waits
      /\ DefaultOf[current] \in Model /\ None \notin Model
  BY AppAssumption DEF SettingsInv, OperationInv
<1>2. Waiting'
  BY <1>1 DEF NewSession, Reject, settings, Waiting
<1>3. CASE Reject
  BY <1>2, <1>3, SettingsRest DEF Reject, settings
<1>4. ASSUME NEW model \in Model, Adopt(s, model),
             journal' = [journal EXCEPT ![s] = [mode |-> session.mode, model |-> model]]
      PROVE  SettingsInv'
  <2>1. /\ journal' \in [Session -> [mode : Mode, model : Model \cup {None}]]
        /\ journal'[s].model # None
    BY <1>1, <1>4
  <2> QED
    BY <1>2, <1>4, <2>1, AdoptSettings
<1>5. session.model \in Model
  BY <1>1
<1> QED
  BY <1>1, <1>3, <1>4, <1>5 DEF NewSession

\* The refresh after a turn or a compaction reads the journal.
LEMMA OperationDoneSettings ==
  ASSUME SettingsInv, OperationDone
  PROVE  SettingsInv'
<1>1. /\ session \in [id : Session, mode : Mode, model : Model] /\ session.id \in Session
      /\ Exists(session.id) /\ {stale, doubt} \subseteq BOOLEAN
      /\ journal \in [Session -> [mode : Mode, model : Model \cup {None}]]
      /\ {queued, applying} \subseteq Waits
      /\ PolicyFollowsSession
      /\ UNCHANGED <<journal, policy, doubt>>
  BY DEF SettingsInv, OperationDone
<1>2. NoSettings \in Waits
  BY DEF NoSettings, Waits
<1>3. Waiting'
  BY <1>1, <1>2 DEF OperationDone, TakeQueued, Waiting
<1>4. \/ session' = [session EXCEPT !.mode = journal[session.id].mode, !.model = journal[session.id].model]
      \/ session' = session
  BY DEF OperationDone, Refresh
<1>5. stale' \in BOOLEAN
  BY <1>1 DEF OperationDone, Refresh
<1>6. /\ session' \in [id : Session, mode : Mode, model : Model] /\ session'.id = session.id
      /\ session'.mode \in {session.mode, journal[session.id].mode}
  <2>1. journal[session.id].mode \in Mode /\ journal[session.id].model \in Model
    BY <1>1 DEF Exists
  <2> QED
    BY <1>1, <1>4, <2>1
<1>7. Exists(session.id)' /\ PolicyFollowsSession'
  BY <1>1, <1>6 DEF Exists, PolicyFollowsSession
<1> QED
  BY <1>1, <1>3, <1>5, <1>6, <1>7 DEF SettingsInv, Waiting

\* completeReload changes the selection at most.
LEMMA CompleteReloadSettings ==
  ASSUME OperationInv, SettingsInv, CompleteReload
  PROVE  SettingsInv'
<1>1. /\ session \in [id : Session, mode : Mode, model : Model] /\ session.id \in Session
      /\ Exists(session.id) /\ {stale, doubt} \subseteq BOOLEAN
      /\ journal \in [Session -> [mode : Mode, model : Model \cup {None}]]
      /\ UNCHANGED <<queued, applying, stale, policy>>
  BY DEF SettingsInv, CompleteReload
<1>2. Waiting'
  BY <1>1 DEF SettingsInv, Waiting
<1>3. CASE UNCHANGED <<session, journal, doubt>>
  BY <1>1, <1>2, <1>3, SettingsRest
<1>4. CASE op.out # "failed"
  <2>1. DefaultOf[op.gen] \in Model
    BY <1>4, AppAssumption DEF CompleteReload, Ended, OperationInv, Candidate, Outcomes
  <2>2. \/ UNCHANGED <<session, journal, doubt>>
        \/ /\ Written(session.id, "model", DefaultOf[op.gen])
           /\ session' \in {session, [session EXCEPT !.model = DefaultOf[op.gen]]}
           /\ doubt' = doubt \/ doubt' = TRUE
    BY <1>4 DEF CompleteReload, GiveUp, TakeOver
  <2>3. CASE /\ Written(session.id, "model", DefaultOf[op.gen])
             /\ session' \in {session, [session EXCEPT !.model = DefaultOf[op.gen]]}
             /\ doubt' = doubt \/ doubt' = TRUE
    <3>1. /\ journal' \in [Session -> [mode : Mode, model : Model \cup {None}]]
          /\ \A t \in Session : (Exists(t) => journal'[t].model # None) /\ journal'[t].mode = journal[t].mode
      BY <1>1, <2>1, <2>3, WrittenIs
    <3>2. /\ session' \in [id : Session, mode : Mode, model : Model]
          /\ session'.id = session.id /\ session'.mode = session.mode
      BY <1>1, <2>1, <2>3
    <3>3. policy' = policy /\ {stale', doubt'} \subseteq BOOLEAN
      BY <1>1, <2>3
    <3> QED
      BY <1>2, <2>3, <3>1, <3>2, <3>3, ModelSettings
  <2> QED
    BY <1>3, <2>2, <2>3
<1> QED
  BY <1>3, <1>4 DEF CompleteReload

\* The settings under every step.
LEMMA SettingsStep == OperationInv /\ SettingsInv /\ QueueInv /\ [Next]_vars => SettingsInv'
<1> SUFFICES ASSUME OperationInv, SettingsInv, QueueInv, [Next]_vars PROVE SettingsInv'
  OBVIOUS
<1>1. UNCHANGED settings => SettingsInv'
  <2>1. UNCHANGED settings => Waiting' /\ UNCHANGED <<session, stale, journal, policy, doubt>>
    BY DEF settings, SettingsInv, Waiting
  <2> QED
    BY <2>1, SettingsRest
<1>2. CASE Loop
  <2>1. CASE Notice \/ LastResult \/ \E channel \in {"runtime", "protocol"} : Forward(channel)
    BY <1>1, <2>1 DEF Notice, LastResult, Forward
  <2> QED
    BY <1>2, <2>1, ApplySettings, AcknowledgeSettings, OperationDoneSettings, CompleteReloadSettings DEF Loop
<1>3. CASE Commands
  <2>1. CASE StartTurn \/ Compact \/ ReloadConfig
    BY <1>1, <2>1 DEF StartTurn, Compact, StartOn, ReloadConfig, Reject
  <2>2. CASE CancelTurn \/ Shutdown
    BY <1>1, <2>2 DEF CancelTurn, Shutdown
  <2>3. CASE \E view \in shown : ResolvePermission(view)
    BY <1>1, <2>3 DEF ResolvePermission, Reject
  <2> QED
    BY <1>3, <2>1, <2>2, <2>3, ChangeSettings, AcknowledgeSettings, OpenSessionSettings, NewSessionSettings DEF Commands
<1>4. CASE Operation
  <2>1. CASE TurnAcquires \/ TurnAsks \/ TurnPrompts \/ ResolveAnswered \/ ResolveCancelled \/ OperationFinishes
    BY <1>1, <2>1 DEF TurnAcquires, TurnAsks, TurnPrompts, ResolveAnswered, ResolveCancelled,
         OperationFinishes, Stays
  <2>2. CASE WorkBegins \/ WorkFlushes \/ WorkCloses \/ WorkDrops
    BY <1>1, <2>2 DEF WorkBegins, WorkFlushes, WorkCloses, WorkDrops, Works, Stays
  <2>3. CASE \E channel \in {"runtime", "protocol"} : Emits(channel)
    BY <1>1, <2>3 DEF Emits, Stays
  <2>4. CASE \E g \in Generation : Reloads(g)
    BY <1>1, <2>4 DEF Reloads, Stays
  <2> QED
    BY <1>4, <2>1, <2>2, <2>3, <2>4 DEF Operation
<1>5. CASE Show \/ Cancel \/ (\E g \in Generation : Closing(g)) \/ UNCHANGED vars
  BY <1>1, <1>5 DEF Show, Cancel, Closing, vars, app
<1> QED
  BY <1>2, <1>3, <1>4, <1>5 DEF Next


\* A generation that was built stays known.
LEMMA KnownStays ==
  ASSUME GInv, [GenerationsNext]_generations, NEW g \in Generation, entry[g].known
  PROVE  entry'[g].known
<1>0. /\ entry \in [Generation -> Entry] /\ entry[g] \in Entry
      /\ \A e : releaseRetiredLocked(e) \in {e, [e EXCEPT !.held = FALSE]}
  BY DEF GInv, GenerationsTypeOK, releaseRetiredLocked
<1>1. ASSUME NEW h \in Generation, BuildFails(h) \/ \E l \in Lease : Build(h, l) PROVE entry'[g].known
  <2>1. h # g /\ \E e : entry' = [entry EXCEPT ![h] = e]
    BY <1>1 DEF BuildFails, Build
  <2> QED
    BY <1>0, <2>1
<1>2. ASSUME NEW h \in Generation, retire(h) \/ \E u \in User : acquire(u, h) PROVE entry'[g].known
  BY <1>2 DEF retire, acquire, secrets
<1>3. ASSUME NEW h \in Generation, Retire(h) PROVE entry'[g].known
  <2>1. entry' = [entry EXCEPT ![h] = releaseRetiredLocked([entry[h] EXCEPT !.retired = TRUE])]
    BY <1>3 DEF Retire
  <2>2. CASE h = g
    <3>1. entry'[g] \in {[entry[g] EXCEPT !.retired = TRUE],
                         [[entry[g] EXCEPT !.retired = TRUE] EXCEPT !.held = FALSE]}
      BY <1>0, <2>1, <2>2
    <3> QED
      BY <1>0, <3>1 DEF Entry
  <2> QED
    BY <1>0, <2>1, <2>2
<1>4. ASSUME NEW u \in User, release(u) PROVE entry'[g].known
  BY <1>4 DEF release, secrets
<1>5. ASSUME NEW h \in Generation, NEW l \in Lease, AcquireExisting(h, l) PROVE entry'[g].known
  BY <1>0, <1>5 DEF AcquireExisting, Entry
<1>6. ASSUME NEW l \in Lease, CloseLease(l) PROVE entry'[g].known
  BY <1>0, <1>6 DEF CloseLease, Entry
<1>7. ASSUME NEW l \in Lease, DropLease(l) PROVE entry'[g].known
  <2>1. entry' = [entry EXCEPT ![lease[l].gen] = releaseRetiredLocked(LessLease(entry[lease[l].gen]))]
    BY <1>7 DEF DropLease
  <2>2. CASE lease[l].gen = g
    <3>1. entry'[g] \in {LessLease(entry[g]), [LessLease(entry[g]) EXCEPT !.held = FALSE]}
      BY <1>0, <2>1, <2>2
    <3> QED
      BY <1>0, <3>1 DEF LessLease, Entry
  <2> QED
    BY <1>0, <2>1, <2>2
<1>8. ASSUME NEW l \in Lease, NEW s \in Stream, NEW owner, OpenStream(l, s, owner) PROVE entry'[g].known
  BY <1>0, <1>8 DEF OpenStream, Entry
<1>9. ASSUME NEW s \in Stream, CloseStream(s) PROVE entry'[g].known
  <2>1. entry' = [entry EXCEPT ![stream[s].gen] = releaseRetiredLocked(LessStream(entry[stream[s].gen]))]
    BY <1>9 DEF CloseStream
  <2>2. CASE stream[s].gen = g
    <3>1. entry'[g] \in {LessStream(entry[g]), [LessStream(entry[g]) EXCEPT !.held = FALSE]}
      BY <1>0, <2>1, <2>2
    <3> QED
      BY <1>0, <3>1 DEF LessStream, Entry
  <2> QED
    BY <1>0, <2>1, <2>2
<1>10. CASE UNCHANGED generations
  BY <1>10 DEF generations
<1> QED
  BY <1>1, <1>2, <1>3, <1>4, <1>5, <1>6, <1>7, <1>8, <1>9, <1>10 DEF GenerationsNext

\* The selection that is shown and the one in the journal of the session stay.
LEMMA ModelRests ==
  ASSUME GInv, [GenerationsNext]_generations, ModelFollowsSession, doubt' = doubt \/ doubt',
         session'.id = session.id, session'.model = session.model,
         journal'[session.id].model = journal[session.id].model
  PROVE  ModelFollowsSession'
BY KnownStays DEF ModelFollowsSession, FellBack

\* The journal of the session holds the selection that is shown, or a commit
\* went through whose refresh failed.
LEMMA ModelAgrees ==
  ASSUME doubt' \/ session'.model = journal'[session'.id].model
  PROVE  ModelFollowsSession'
BY DEF ModelFollowsSession

\* commitSettingUsing, of a mode or of a selection.
LEMMA CommitModel ==
  ASSUME GInv, [GenerationsNext]_generations, SettingsInv, ModelFollowsSession,
         NEW field \in {"mode", "model"}, NEW value,
         IF field = "mode" THEN value \in Mode ELSE value \in Model,
         Commit(field, value)
  PROVE  ModelFollowsSession'
<1>1. session \in [id : Session, mode : Mode, model : Model] /\ session.id \in Session /\ Exists(session.id)
  BY DEF SettingsInv
<1>2. CASE UNCHANGED <<session, journal, doubt>>
  BY <1>2, ModelRests
<1>3. CASE doubt' = TRUE
  BY <1>3, ModelAgrees
<1>4. CASE /\ Written(session.id, field, value) /\ doubt' = doubt
           /\ session' = IF field = "mode" THEN [session EXCEPT !.mode = value]
                         ELSE [session EXCEPT !.model = value]
  <2>1. /\ field = "mode" => journal'[session.id].model = journal[session.id].model
        /\ field = "model" => journal'[session.id].model = value
    BY <1>1, <1>4, WrittenIs
  <2>2. CASE field = "mode"
    <3>1. session'.id = session.id /\ session'.model = session.model
      BY <1>1, <1>4, <2>2
    <3> QED
      BY <1>4, <2>1, <2>2, <3>1, ModelRests
  <2>3. CASE field = "model"
    <3>1. session'.id = session.id /\ session'.model = value
      BY <1>1, <1>4, <2>3
    <3> QED
      BY <2>1, <2>3, <3>1, ModelAgrees
  <2> QED
    BY <2>2, <2>3
<1> QED
  BY <1>2, <1>3, <1>4 DEF Commit

\* openSession: the fallback is committed to the session selected before, so the
\* journal of the one that is opened still holds what is not configured.
LEMMA OpenSessionModel ==
  ASSUME GInv, OperationInv, [GenerationsNext]_generations, SettingsInv, ModelFollowsSession,
         NEW s \in Session, OpenSession(s)
  PROVE  ModelFollowsSession'
<1>1. /\ session.id \in Session /\ Exists(session.id)
      /\ current \in Generation /\ Fresh(current) /\ DefaultOf[current] \in Model
  BY AppAssumption DEF SettingsInv, OperationInv, OpenSession, CanCommand, Selecting
<1>2. entry[current].known
  BY <1>1 DEF GInv, Agree, Fresh
<1>3. CASE UNCHANGED <<session, journal, doubt>>
  BY <1>3, ModelRests
<1>4. CASE doubt' = TRUE
  BY <1>4, ModelAgrees
<1>5. CASE UNCHANGED journal /\ Adopt(s, journal[s].model)
  BY <1>5, ModelAgrees DEF Adopt
<1>6. CASE /\ Fallback(s) /\ Written(session.id, "model", DefaultOf[current])
           /\ Adopt(s, DefaultOf[current])
  <2>1. /\ journal'[session.id].model = DefaultOf[current]
        /\ s # session.id => journal'[s] = journal[s]
    BY <1>1, <1>6, WrittenIs
  <2>2. session'.id = s /\ session'.model = DefaultOf[current]
    BY <1>6 DEF Adopt
  <2>3. CASE s = session.id
    BY <2>1, <2>2, <2>3, ModelAgrees
  <2>4. CASE s # session.id
    <3>1. journal'[s].model \notin ModelsOf[current]
      BY <1>6, <2>1, <2>4 DEF Fallback, configured
    <3>2. entry'[current].known
      BY <1>1, <1>2, KnownStays
    <3> QED
      BY <1>1, <2>2, <3>1, <3>2 DEF ModelFollowsSession, FellBack
  <2> QED
    BY <2>3, <2>4
<1>7. CASE Reject
  BY <1>3, <1>7 DEF Reject, settings
<1> QED
  BY <1>3, <1>4, <1>5, <1>6, <1>7 DEF OpenSession

\* newSession writes what it shows.
LEMMA NewSessionModel ==
  ASSUME GInv, [GenerationsNext]_generations, SettingsInv, ModelFollowsSession,
         NEW s \in Session, NewSession(s)
  PROVE  ModelFollowsSession'
<1>1. CASE Reject
  BY <1>1, ModelRests DEF Reject, settings
<1>2. ASSUME NEW model, Adopt(s, model),
             journal' = [journal EXCEPT ![s] = [mode |-> session.mode, model |-> model]]
      PROVE  ModelFollowsSession'
  <2>1. journal'[s].model = model
    BY <1>2 DEF SettingsInv
  <2> QED
    BY <1>2, <2>1, ModelAgrees DEF Adopt
<1> QED
  BY <1>1, <1>2 DEF NewSession

\* The refresh after an operation, and the selection a reload commits.
LEMMA ResultModel ==
  ASSUME GInv, [GenerationsNext]_generations, OperationInv, SettingsInv, ModelFollowsSession,
         OperationDone \/ CompleteReload
  PROVE  ModelFollowsSession'
<1>1. session \in [id : Session, mode : Mode, model : Model] /\ session.id \in Session /\ Exists(session.id)
  BY DEF SettingsInv
<1>2. CASE UNCHANGED <<session, journal, doubt>>
  BY <1>2, ModelRests
<1>3. CASE doubt' = TRUE
  BY <1>3, ModelAgrees
<1>4. CASE OperationDone
  <2>1. CASE session' = [session EXCEPT !.mode = journal[session.id].mode, !.model = journal[session.id].model]
    <3>1. session'.id = session.id /\ session'.model = journal[session.id].model /\ journal' = journal
      BY <1>1, <1>4, <2>1 DEF OperationDone
    <3> QED
      BY <3>1, ModelAgrees
  <2>2. UNCHANGED <<journal, doubt>>
    BY <1>4 DEF OperationDone
  <2> QED
    BY <1>2, <1>4, <2>1, <2>2 DEF OperationDone, Refresh
<1>5. CASE CompleteReload
  <2>1. CASE op.out = "failed"
    BY <1>2, <1>5, <2>1 DEF CompleteReload
  <2>2. CASE op.out # "failed"
    <3>1. DefaultOf[op.gen] \in Model
      BY <1>5, <2>2, AppAssumption DEF CompleteReload, Ended, OperationInv, Candidate, Outcomes
    <3>2. CASE /\ Written(session.id, "model", DefaultOf[op.gen])
               /\ session' = [session EXCEPT !.model = DefaultOf[op.gen]]
      <4>1. session'.id = session.id /\ session'.model = DefaultOf[op.gen]
        BY <1>1, <3>2
      <4>2. journal'[session.id].model = DefaultOf[op.gen]
        BY <1>1, <3>1, <3>2, WrittenIs
      <4> QED
        BY <4>1, <4>2, ModelAgrees
    <3> QED
      BY <1>2, <1>3, <1>5, <2>2, <3>2 DEF CompleteReload, GiveUp, TakeOver
  <2> QED
    BY <2>1, <2>2
<1> QED
  BY <1>4, <1>5

\* The selection under every step.
LEMMA ModelStep ==
  GInv /\ OperationInv /\ SettingsInv /\ ModelFollowsSession /\ [Next]_vars => ModelFollowsSession'
<1> SUFFICES ASSUME GInv, OperationInv, SettingsInv, ModelFollowsSession, [Next]_vars
             PROVE  ModelFollowsSession'
  OBVIOUS
<1>0. [GenerationsNext]_generations
  BY StepOfGenerations
<1>1. UNCHANGED <<session, journal, doubt>> => ModelFollowsSession'
  BY <1>0, ModelRests
<1>2. UNCHANGED settings => ModelFollowsSession'
  BY <1>1 DEF settings
<1>3. CASE Loop
  <2>1. CASE Notice \/ LastResult \/ CommitAcknowledgement \/ \E channel \in {"runtime", "protocol"} : Forward(channel)
    BY <1>1, <1>2, <2>1 DEF Notice, LastResult, CommitAcknowledgement, Forward
  <2>2. CASE ApplyMode
    <3>1. applying.mode \in Mode /\ Commit("mode", applying.mode)
      BY <2>2 DEF ApplyMode, SettingsInv, Waits
    <3> QED
      BY <1>0, <3>1, CommitModel
  <2>3. CASE ApplyModel
    <3>1. applying.model \in Model /\ Commit("model", applying.model)
      BY <2>3 DEF ApplyModel, SettingsInv, Waits
    <3> QED
      BY <1>0, <3>1, CommitModel
  <2> QED
    BY <1>0, <1>3, <2>1, <2>2, <2>3, ResultModel DEF Loop
<1>4. CASE Commands
  <2>1. CASE StartTurn \/ Compact \/ ReloadConfig
    BY <1>2, <2>1 DEF StartTurn, Compact, StartOn, ReloadConfig, Reject
  <2>2. CASE CancelTurn \/ Shutdown
    BY <1>2, <2>2 DEF CancelTurn, Shutdown
  <2>3. CASE \/ \E view \in shown : ResolvePermission(view)
             \/ \E view \in shown \cup {Other} : AcknowledgeAutoShell(view)
             \/ \E m \in Mode : ChangeMode(m)
             \/ \E m \in Model : ChangeModel(m)
    BY <1>1, <1>2, <2>3 DEF ResolvePermission, AcknowledgeAutoShell, ChangeMode, ChangeModel, Reject
  <2> QED
    BY <1>0, <1>4, <2>1, <2>2, <2>3, OpenSessionModel, NewSessionModel DEF Commands
<1>5. CASE Operation
  <2>1. CASE TurnAcquires \/ TurnAsks \/ TurnPrompts \/ ResolveAnswered \/ ResolveCancelled \/ OperationFinishes
    BY <1>2, <2>1 DEF TurnAcquires, TurnAsks, TurnPrompts, ResolveAnswered, ResolveCancelled,
         OperationFinishes, Stays
  <2>2. CASE WorkBegins \/ WorkFlushes \/ WorkCloses \/ WorkDrops
    BY <1>2, <2>2 DEF WorkBegins, WorkFlushes, WorkCloses, WorkDrops, Works, Stays
  <2>3. CASE \E channel \in {"runtime", "protocol"} : Emits(channel)
    BY <1>2, <2>3 DEF Emits, Stays
  <2>4. CASE \E g \in Generation : Reloads(g)
    BY <1>2, <2>4 DEF Reloads, Stays
  <2> QED
    BY <1>5, <2>1, <2>2, <2>3, <2>4 DEF Operation
<1>6. CASE Show \/ Cancel \/ (\E g \in Generation : Closing(g)) \/ UNCHANGED vars
  BY <1>2, <1>6 DEF Show, Cancel, Closing, vars, app
<1> QED
  BY <1>3, <1>4, <1>5, <1>6 DEF Next

-----------------------------------------------------------------------------
(* The application loop as a whole. *)

\* Every step of the application keeps its invariant.
LEMMA AppNextInv == AppInv /\ [Next]_vars => AppInv'
<1> SUFFICES ASSUME AppInv, [Next]_vars PROVE AppInv'
  OBVIOUS
<1> USE DEF AppInv
<1>1. [GenerationsNext]_generations
  BY StepOfGenerations
<1>2. GInv' /\ Unbuilt'
  BY <1>1, NextInv, UnbuiltStep
<1>3. OperationInv' /\ ApprovalInv' /\ QueueInv'
  BY OperationStep, ApprovalStep, QueueStep
<1>4. SettingsInv' /\ SpentInv'
  BY SettingsStep, SpentStep
<1>5. ModelFollowsSession'
  BY ModelStep
<1> QED
  BY <1>2, <1>3, <1>4, <1>5

LEMMA AppInvariant == Spec => []AppInv
<1> QED
  BY AppInitInv, AppNextInv, PTL DEF Spec

\* A turn holds the lifecycle; a compaction works on the current generation,
\* which nobody retires as long as Run has not returned.
LEMMA InvKeepsRuntime == AppInv => OperationKeepsItsRuntime
<1> SUFFICES ASSUME AppInv, At({"turn", "compact"}, "working")
             PROVE  life[op.gen].stores = "open" /\ entry[op.gen].held
  BY DEF OperationKeepsItsRuntime
<1>1. op.gen \in Generation /\ op.kind \in {"turn", "compact"} /\ op.stage = "working"
  BY DEF At, AppInv, OperationInv
<1>2. CASE op.kind = "turn"
  <2>1. user[Turn] = op.gen /\ user[Turn] # None /\ Turn \in User
    BY <1>1, <1>2, AppAssumption, NamesAssumption DEF AppInv, OperationInv, Holding
  <2> QED
    BY <2>1, InvUsed DEF AppInv, UsedStaysOpen
<1>3. CASE op.kind = "compact"
  <2>1. Fresh(op.gen)
    BY <1>1, <1>3 DEF AppInv, OperationInv
  <2>2. entry[op.gen].known /\ ~ entry[op.gen].retired
    BY <1>1, <2>1 DEF AppInv, GInv, Agree, Fresh
  <2> QED
    BY <1>1, <2>1, <2>2 DEF AppInv, GInv, Held, Fresh
<1> QED
  BY <1>1, <1>2, <1>3

\* The parts of the invariant have the types of every variable.
LEMMA InvTypes == AppInv => TypeOK
<1> SUFFICES ASSUME AppInv PROVE TypeOK
  OBVIOUS
<1>1. Displayed \subseteq Prompt
  BY DEF Displayed
<1>2. pending \subseteq Prompt /\ shown \subseteq Prompt
  BY <1>1 DEF AppInv, ApprovalInv, QueueInv
<1>3. queue \in Seq(Prompt \cup {Other}) /\ Len(queue) <= Capacity + 1
  <2>1. /\ queue \in [1 .. Len(queue) -> Displayed \cup {Other}] /\ Len(queue) \in Nat
        /\ Len(queue) <= Capacity + 1
    BY LenProperties DEF AppInv, QueueInv
  <2>2. queue \in [1 .. Len(queue) -> Prompt \cup {Other}]
    BY <1>1, <2>1
  <2> QED
    BY <2>1, <2>2
<1>4. arriving \in [{"runtime", "protocol"} -> 0 .. MaxIncidents]
  <2>1. /\ arriving \in [{"runtime", "protocol"} -> Nat] /\ spent.incidents \in 0 .. MaxIncidents
        /\ \A channel \in {"runtime", "protocol"} : arriving[channel] <= spent.incidents
        /\ MaxIncidents \in Nat
    BY AppAssumption DEF AppInv, SpentInv
  <2>2. \A channel \in {"runtime", "protocol"} : arriving[channel] \in 0 .. MaxIncidents
    BY <2>1
  <2> QED
    BY <2>1, <2>2
<1>5. /\ GenerationsTypeOK
      /\ {running, cancelled, armed, shutdown, stale, doubt} \subseteq BOOLEAN
      /\ current \in Generation
      /\ op \in [kind : Kinds, gen : Generation \cup {None}, stopped : BOOLEAN, stage : Stages, out : Outcomes]
  BY DEF AppInv, GInv, OperationInv, SettingsInv
<1>6. /\ {queued, applying} \subseteq Settings
      /\ session \in [id : Session, mode : Mode, model : Model]
      /\ journal \in [Session -> [mode : Mode, model : Model \cup {None}]]
      /\ policy \in Mode
  <2>1. Waits \subseteq Settings
    BY <1>1 DEF Waits, Settings
  <2> QED
    BY <2>1 DEF AppInv, SettingsInv
<1>7. /\ asked \in 0 .. MaxPrompts /\ answer \in 0 .. MaxPrompts
      /\ spent \in [commands : 0 .. MaxCommands, incidents : 0 .. MaxIncidents]
  BY DEF AppInv, ApprovalInv, SpentInv
<1> QED
  BY <1>2, <1>3, <1>4, <1>5, <1>6, <1>7 DEF TypeOK

\* The types of the application: the queue never holds more than its capacity
\* and the place kept for a terminal event.
THEOREM AppTypeCorrect == Spec => []TypeOK
<1> QED
  BY InvTypes, AppInvariant, PTL

\* App.Run and completeReload: the stores and the secrets of the generation a
\* turn or a compaction works on stay until it has ended, for the turn because
\* it acquired the lifecycle, for the compaction by the order of the loop.
THEOREM RuntimeKept == Spec => []OperationKeepsItsRuntime
<1> QED
  BY InvKeepsRuntime, AppInvariant, PTL

\* resolvePermission and Resolve: a decision reaches the request the user saw,
\* whatever was cancelled, cleared or asked again meanwhile.
THEOREM RightRequestAnswered == Spec => []AnswersTheRightRequest
<1>1. AppInv => AnswersTheRightRequest
  BY DEF AppInv, ApprovalInv
<1> QED
  BY <1>1, AppInvariant, PTL

\* applyMode, applyModel, openSession, completeReload and the refreshes: what is
\* shown of the selected session is what is enforced and what its own journal
\* holds, but for a commit whose refresh failed and for openSession's fallback.
THEOREM SettingsFollow == Spec => []SettingsFollowSession
<1>1. AppInv => SettingsFollowSession
  BY DEF AppInv, SettingsInv, SettingsFollowSession
<1> QED
  BY <1>1, AppInvariant, PTL

\* The registry and the lifecycles under the application loop: it never closes,
\* retires or counts in any other way than they do.
THEOREM AppStepsGenerations == Spec => [][GenerationsNext]_generations
<1>1. AppInv /\ [Next]_vars => [GenerationsNext]_generations
  BY StepOfGenerations DEF AppInv
<1> QED
  BY <1>1, AppInvariant, PTL DEF Spec

\* Registry.releaseRetiredLocked under the application loop: the secrets of a
\* generation are kept exactly as long as something may still write them.
THEOREM AppSecretsKept == Spec => []SecretsMatchUse
<1>1. AppInv => SecretsMatchUse
  BY InvSecrets DEF AppInv
<1> QED
  BY <1>1, AppInvariant, PTL

-----------------------------------------------------------------------------
(* The catalog of sessions: its invariant.                                 *)

\* While an actor is at one of these it holds workspace.lock.
LayoutSteps == {"layout", "identity", "identity sync", "sessions", "sessions sync",
                "control", "control rename", "control sync", "laid"}
StoreSteps == {"reconcile", "find", "anchor", "stage", "write", "rename", "publish sync"}
UnderFlock == LayoutSteps \cup StoreSteps
ListSteps == {"wait", "list layout", "list read"}
CatalogSteps == UnderFlock \cup ListSteps \cup {"idle", "name", "flock", "flock2"}

NewNames == {NewName(n) : n \in 0..MaxCalls}
SessionIds == Identity \cup NewNames
CreateCalls == [kind : {"create"}, id : SessionIds, terms : Terms, own : BOOLEAN]
CatalogCalls == CreateCalls \cup {NoCall, Call("ensure", Nil, Nil), Call("list", Nil, Nil)}
Entries == [name : SessionIds \cup Stagings, terms : Terms, whole : BOOLEAN]
Returned == [id : SessionIds, terms : Terms, by : {"publisher", "finder"}]

CatalogTypeOK ==
    /\ sess \subseteq Entries /\ sessDisk \subseteq Entries
    /\ flock \in Actor \cup {Nil} /\ ready \subseteq Proc
    /\ pc \in [Actor -> CatalogSteps] /\ req \in [Actor -> CatalogCalls]
    /\ seen \in [Actor -> SUBSET SessionIds] /\ acked \subseteq Returned
    /\ disturbed \in BOOLEAN
    /\ calls \in 0..MaxCalls /\ mishaps \in 0..MaxMishaps /\ outages \in 0..MaxOutages

\* Who holds the flock, and which call an actor is in where.
FlockIsHeld == \A a \in Actor : pc[a] \in UnderFlock <=> flock = a

InItsCall(a) ==
    /\ pc[a] = "idle" <=> req[a].kind = "none"
    /\ pc[a] \in ListSteps <=> req[a].kind = "list"
    /\ pc[a] \in StoreSteps \cup {"name", "flock2"} => req[a].kind = "create"
    /\ pc[a] \in {"name", "find"} => ~req[a].own
    /\ req[a].kind \in {"list", "create"} => Home[a] \in ready

\* What of the layout is there for the actor that lays it out, and for all once a process is ready.
LaidForReady == ready # {} => {WorkspaceFile, SessionsDirectory} \subseteq ws
LaidFor(a) ==
    /\ pc[a] = "identity" => Temp(a) \in ws /\ WorkspaceFile \notin ws
    /\ pc[a] \in LayoutSteps \ {"layout", "identity"} => WorkspaceFile \in ws
    /\ pc[a] \in LayoutSteps \ {"layout", "identity", "identity sync", "sessions"} =>
         SessionsDirectory \in ws

\* A visible session is whole and alone under its name; its name is reserved or was drawn.
Drawn == {NewName(n) : n \in 0..(calls - 1)}
OneEach ==
    /\ \A e \in sess : Visible(e) => e.whole /\ e.name \in Identity \cup Drawn
    /\ \A e, f \in sess : Visible(e) /\ e.name = f.name => e = f
    /\ \A e \in sessDisk : Visible(e) => e \in sess

\* A name the store drew is no other's, and not there before the rename; a reserved one
\* is not there from the look on.
Unused(a) ==
    req[a].kind = "create" =>
      /\ ~req[a].own => req[a].id \in Identity
      /\ req[a].own => /\ req[a].id \in Drawn
                       /\ \A b \in Actor \ {a} : req[b].id # req[a].id
      /\ req[a].own /\ pc[a] # "publish sync" => Named(req[a].id) = {}
      /\ pc[a] \in {"anchor", "stage", "write", "rename"} => Named(req[a].id) = {}

\* The staging directories that are there under the flock.
Staged(a, whole) == [name |-> Staging(a), terms |-> req[a].terms, whole |-> whole]
StagedOne(a) ==
    /\ pc[a] \in {"find", "anchor", "stage", "publish sync"} => \A e \in sess : Visible(e)
    /\ pc[a] = "write" => {e \in sess : ~Visible(e)} = {Staged(a, FALSE)}
    /\ pc[a] = "rename" => {e \in sess : ~Visible(e)} = {Staged(a, TRUE)}
    /\ pc[a] = "publish sync" =>
         [name |-> req[a].id, terms |-> req[a].terms, whole |-> TRUE] \in sess

\* What was returned is there; what its creator returned is durable with its directory.
OutageFree == MaxOutages = 0
Delivered ==
    \A k \in acked :
      \E e \in sess : /\ e.name = k.id /\ e.terms = k.terms
                      /\ k.by = "publisher" =>
                           e \in sessDisk /\ (OutageFree \/ SessionsDirectory \in ws \cap wsDisk)

Expected == \A a \in Actor : seen[a] \subseteq {k.id : k \in acked}

CatalogCore ==
    /\ CatalogTypeOK /\ FlockIsHeld /\ LaidForReady /\ OneEach
    /\ \A a \in Actor : InItsCall(a) /\ LaidFor(a) /\ Unused(a) /\ StagedOne(a)

CatalogInv == CatalogCore /\ Delivered /\ Expected /\ ~disturbed

LayoutIsDurable == ready # {} => SessionsDirectory \in wsDisk
NothingLost == OutageFree \/ LayoutIsDurable

\* With one mishap a sessions directory that nobody synchronised is still without a control
\* directory, or someone is about to synchronise both.
OneSync ==
    /\ SessionsDirectory \in wsDisk => SessionsDirectory \in ws
    /\ ControlDirectory \in ws \cup wsDisk /\ mishaps = 0 => SessionsDirectory \in wsDisk
    /\ \A a \in Actor :
         /\ pc[a] \in {"control", "control rename", "control sync"} /\ mishaps = 0 =>
              SessionsDirectory \in wsDisk
         /\ pc[a] = "laid" => SessionsDirectory \in wsDisk
    /\ SessionsDirectory \in ws \ wsDisk /\ (ControlDirectory \in ws \/ mishaps = 0) =>
         \E a \in Actor : pc[a] \in {"sessions sync", "control sync"}
    /\ LayoutIsDurable

\* Names of different kinds, and of different actors or calls, are different.
LEMMA NamesApart ==
  /\ \A a, b \in Actor : Staging(a) = Staging(b) => a = b
  /\ \A a \in Actor : Staging(a) \in Stagings /\ Staging(a) \notin SessionIds
  /\ SessionIds \cap Stagings = {} /\ Nil \notin SessionIds \cup Stagings
  /\ \A m, n \in Nat : NewName(m) = NewName(n) => m = n
  /\ \A m \in 0..MaxCalls : NewName(m) \in SessionIds /\ NewName(m) \notin Identity
  /\ \A a \in Actor : Temp(a) \in Temps /\ ControlStaging(a) \in ControlStagings
  /\ {WorkspaceFile, SessionsDirectory, ControlDirectory} \cap (Temps \cup ControlStagings) = {}
  /\ WorkspaceFile # SessionsDirectory /\ WorkspaceFile # ControlDirectory
  /\ SessionsDirectory # ControlDirectory
  /\ Temps \cap ControlStagings = {}
BY CatalogAssumption DEF Staging, Stagings, SessionIds, NewNames, NewName, Temp, Temps, ControlStaging,
     ControlStagings, WorkspaceFile, SessionsDirectory, ControlDirectory

\* What a step leaves alone: the other actors.
OthersStay(a) == \A b \in Actor \ {a} : pc'[b] = pc[b] /\ req'[b] = req[b] /\ seen'[b] = seen[b]
CountsOK == calls' \in 0..MaxCalls /\ mishaps' \in 0..MaxMishaps /\ outages' \in 0..MaxOutages

LEMMA StepEffect ==
  ASSUME CatalogTypeOK, NEW a \in Actor, NEW from, NEW to \in CatalogSteps, Step(a, from, to)
  PROVE  /\ pc[a] = from /\ pc'[a] = to /\ pc' \in [Actor -> CatalogSteps]
         /\ OthersStay(a) /\ req' = req /\ seen' = seen
         /\ flock' = flock /\ ready' = ready /\ acked' = acked /\ disturbed' = disturbed
BY DEF Step, Goto, told, OthersStay, CatalogTypeOK

LEMMA LeaveEffect ==
  ASSUME CatalogTypeOK, NEW a \in Actor, Leave(a)
  PROVE  /\ pc'[a] = "idle" /\ pc' \in [Actor -> CatalogSteps]
         /\ req'[a] = NoCall /\ req' \in [Actor -> CatalogCalls]
         /\ seen'[a] = {} /\ seen' \in [Actor -> SUBSET SessionIds]
         /\ OthersStay(a) /\ flock' = IF flock = a THEN Nil ELSE flock
<1>1. "idle" \in CatalogSteps /\ NoCall \in CatalogCalls
  BY DEF CatalogSteps, CatalogCalls
<1> QED
  BY <1>1 DEF Leave, OthersStay, CatalogTypeOK

LEMMA CallShape ==
  ASSUME NEW r \in CatalogCalls
  PROVE  /\ r.kind \in {"none", "ensure", "list", "create"}
         /\ r.kind = "create" => r \in CreateCalls
         /\ r.kind # "create" => r.id = Nil
         /\ NoCall.kind = "none" /\ NoCall.id = Nil
BY DEF CatalogCalls, CreateCalls, Call, NoCall

\* The flock is held by who was holding it before.
LEMMA FlockKept ==
  ASSUME CatalogTypeOK, FlockIsHeld, NEW a \in Actor, OthersStay(a),
         \/ flock' = flock /\ (pc'[a] \in UnderFlock <=> pc[a] \in UnderFlock)
         \/ flock' = (IF flock = a THEN Nil ELSE flock) /\ pc'[a] = "idle"
         \/ flock = a /\ flock' = Nil /\ pc'[a] \notin UnderFlock
         \/ flock = Nil /\ flock' = a /\ pc'[a] \in UnderFlock
  PROVE  FlockIsHeld' /\ flock' \in Actor \cup {Nil}
<1>1. Nil \notin Actor /\ "idle" \notin UnderFlock
  BY CatalogAssumption DEF UnderFlock, LayoutSteps, StoreSteps
<1> QED
  BY <1>1 DEF CatalogTypeOK, FlockIsHeld, OthersStay

LEMMA OthersKeepCalls ==
  ASSUME NEW a \in Actor, OthersStay(a), ready \subseteq ready', InItsCall(a)',
         \A b \in Actor : InItsCall(b)
  PROVE  \A b \in Actor : InItsCall(b)'
BY DEF OthersStay, InItsCall

\* Whoever lays out the workspace finds it as it left it: others change it under the flock,
\* or remove temporaries when the layout is complete.
LEMMA OthersKeepLayout ==
  ASSUME CatalogTypeOK, FlockIsHeld, NEW a \in Actor, OthersStay(a), LaidFor(a)',
         \A b \in Actor : LaidFor(b),
         ws \cap {WorkspaceFile, SessionsDirectory} \subseteq ws',
         \/ ws' = ws
         \/ pc[a] \in UnderFlock
         \/ WorkspaceFile \in ws
  PROVE  \A b \in Actor : LaidFor(b)'
<1> SUFFICES ASSUME NEW b \in Actor, b # a PROVE LaidFor(b)'
  OBVIOUS
<1>1. pc'[b] = pc[b]
  BY DEF OthersStay
<1>2. pc[b] = "identity" => pc[b] \in UnderFlock
  BY DEF UnderFlock, LayoutSteps
<1>3. pc[a] \in UnderFlock => pc[b] # "identity"
  BY <1>2 DEF FlockIsHeld
<1>4. WorkspaceFile \in ws => pc[b] # "identity"
  BY DEF LaidFor
<1>5. pc[b] = "identity" => ws' = ws
  BY <1>3, <1>4
<1> QED
  BY <1>1, <1>5 DEF LaidFor

LEMMA LongerRange ==
  ASSUME NEW m \in Int, NEW n \in Int, m <= n
  PROVE  \A i \in 0..(m - 1) : i \in 0..(n - 1)
OBVIOUS

LEMMA OthersKeepNames ==
  ASSUME CatalogTypeOK, CatalogTypeOK', NEW a \in Actor, OthersStay(a), Unused(a)',
         req'[a] = req[a] \/ req'[a].id \notin {req[b].id : b \in Actor \ {a}}
           \/ (req'[a].kind # "create"),
         \A b \in Actor : Unused(b), calls <= calls',
         \A b \in Actor \ {a} : req[b].kind = "create" /\ Named(req[b].id) = {} =>
            NamedIn(sess', req[b].id) = {} \/ (pc[a] \in UnderFlock /\ flock = a /\ FlockIsHeld /\ ~req[b].own)
  PROVE  \A b \in Actor : Unused(b)'
<1> SUFFICES ASSUME NEW b \in Actor, b # a PROVE Unused(b)'
  OBVIOUS
<1>1. pc'[b] = pc[b] /\ req'[b] = req[b]
  BY DEF OthersStay
<1>2. req[b].kind = "create" => req[b].id # Nil
  BY CallShape, NamesApart DEF CatalogTypeOK, CreateCalls
<1>3. req'[a].kind # "create" => req'[a].id = Nil
  BY CallShape DEF CatalogTypeOK
<1>4. Drawn \subseteq Drawn'
  <2>1. calls \in Int /\ calls' \in Int
    BY CatalogAssumption DEF CatalogTypeOK
  <2>2. \A i \in 0..(calls - 1) : i \in 0..(calls' - 1)
    BY <2>1, LongerRange
  <2> QED
    BY <2>2 DEF Drawn
<1>5. pc[a] \in UnderFlock /\ flock = a /\ FlockIsHeld => pc[b] \notin {"anchor", "stage", "write", "rename"}
  BY DEF FlockIsHeld, UnderFlock, StoreSteps
<1>6. Unused(b)
  OBVIOUS
<1>7. \A c \in Actor \ {b} : req[b].kind = "create" /\ req[b].own => req'[c].id # req[b].id
  <2> SUFFICES ASSUME NEW c \in Actor \ {b}, req[b].kind = "create", req[b].own
               PROVE  req'[c].id # req[b].id
    OBVIOUS
  <2>1. req[c].id # req[b].id
    BY <1>6 DEF Unused
  <2>2. CASE c # a
    BY <2>1, <2>2 DEF OthersStay
  <2>3. CASE c = a
    BY <2>1, <2>3, <1>2, <1>3
  <2> QED
    BY <2>2, <2>3
<1> QED
  BY <1>1, <1>4, <1>5, <1>6, <1>7 DEF Unused, Named

LEMMA OthersKeepStagings ==
  ASSUME CatalogTypeOK, FlockIsHeld, NEW a \in Actor, OthersStay(a), StagedOne(a)',
         \A b \in Actor : StagedOne(b), sess' = sess \/ pc[a] \in UnderFlock
  PROVE  \A b \in Actor : StagedOne(b)'
<1> SUFFICES ASSUME NEW b \in Actor, b # a PROVE StagedOne(b)'
  OBVIOUS
<1>1. pc'[b] = pc[b] /\ req'[b] = req[b]
  BY DEF OthersStay
<1>2. pc[a] \in UnderFlock => pc[b] \notin StoreSteps
  BY DEF FlockIsHeld, UnderFlock
<1>3. pc[b] \notin StoreSteps => StagedOne(b)'
  BY <1>1 DEF StagedOne, StoreSteps
<1>4. sess' = sess => StagedOne(b)'
  BY <1>1 DEF StagedOne, Staged
<1> QED
  BY <1>2, <1>3, <1>4

\* The names that others have drawn stay unused when a store adds the one it was asked for.
LEMMA NamesGrow ==
  ASSUME CatalogTypeOK, FlockIsHeld, NEW a \in Actor, \A b \in Actor : Unused(b),
         sess' = sess \/ pc[a] \in UnderFlock,
         \A e \in sess' : Visible(e) => e \in sess \/ e.name = req[a].id,
         NEW b \in Actor \ {a}, req[b].kind = "create", Named(req[b].id) = {}
  PROVE  NamedIn(sess', req[b].id) = {}  \/ (pc[a] \in UnderFlock /\ flock = a /\ FlockIsHeld /\ ~req[b].own)
<1>1. CASE sess' = sess
  BY <1>1 DEF Named, NamedIn
<1>2. CASE pc[a] \in UnderFlock /\ req[b].own
  <2>1. req[b].id \notin Stagings /\ req[b].id # req[a].id
    BY <1>2, CallShape, NamesApart DEF Unused, CatalogTypeOK, CreateCalls
  <2> SUFFICES ASSUME NEW e \in sess', e.name = req[b].id PROVE FALSE
    BY DEF Named, NamedIn
  <2>2. e \in sess
    BY <2>1 DEF Visible
  <2> QED
    BY <2>2 DEF Named, NamedIn
<1>3. CASE pc[a] \in UnderFlock /\ ~req[b].own
  BY <1>3 DEF FlockIsHeld
<1> QED
  BY <1>1, <1>2, <1>3

\* A call that goes on: what each action has to show of its own.
LEMMA GoOnCore ==
  ASSUME CatalogCore, NEW a \in Actor, NEW from, NEW to \in CatalogSteps \ {"idle"}, Step(a, from, to),
         CountsOK, calls' = calls, from # "idle",
         from \in UnderFlock <=> to \in UnderFlock, from \in ListSteps <=> to \in ListSteps,
         to \in {"name", "find"} => ~req[a].own,
         to \in StoreSteps \cup {"name", "flock2"} => req[a].kind = "create",
         LaidFor(a)', ws \cap {WorkspaceFile, SessionsDirectory} \subseteq ws',
         ws' = ws \/ from \in UnderFlock \/ WorkspaceFile \in ws,
         sess' \subseteq Entries, sessDisk' \subseteq Entries, OneEach',
         sess' = sess \/ from \in UnderFlock, Unused(a)', StagedOne(a)',
         \A e \in sess' : Visible(e) => e \in sess \/ e.name = req[a].id
  PROVE  CatalogCore'
<1> USE DEF CatalogCore
<1>1. /\ pc[a] = from /\ pc'[a] = to /\ pc' \in [Actor -> CatalogSteps]
      /\ OthersStay(a) /\ req' = req /\ seen' = seen
      /\ flock' = flock /\ ready' = ready /\ acked' = acked /\ disturbed' = disturbed
  BY StepEffect
<1>2. CatalogTypeOK'
  BY <1>1 DEF CatalogTypeOK, CountsOK
<1>3. FlockIsHeld'
  BY <1>1, FlockKept
<1>4. LaidForReady'
  BY <1>1 DEF LaidForReady
<1>5. \A b \in Actor : InItsCall(b)'
  <2>1. InItsCall(a)'
    BY <1>1 DEF InItsCall, ListSteps
  <2> QED
    BY <2>1, <1>1, OthersKeepCalls
<1>6. \A b \in Actor : LaidFor(b)'
  BY <1>1, OthersKeepLayout
<1>7. \A b \in Actor : Unused(b)'
  <2>1. \A b \in Actor \ {a} : req[b].kind = "create" /\ Named(req[b].id) = {} =>
          NamedIn(sess', req[b].id) = {} \/ (pc[a] \in UnderFlock /\ flock = a /\ FlockIsHeld /\ ~req[b].own)
    BY <1>1, NamesGrow
  <2>2. calls <= calls'
    BY CatalogAssumption DEF CatalogTypeOK
  <2> QED
    BY <1>1, <1>2, <2>1, <2>2, OthersKeepNames
<1>8. \A b \in Actor : StagedOne(b)'
  BY <1>1, OthersKeepStagings
<1> QED
  BY <1>2, <1>3, <1>4, <1>5, <1>6, <1>7, <1>8

\* A call that ends.
LEMMA LeaveCore ==
  ASSUME CatalogCore, NEW a \in Actor, Leave(a), CountsOK, calls' = calls,
         ready \subseteq ready', ready' \subseteq Proc, LaidForReady',
         acked' \subseteq Returned, disturbed' \in BOOLEAN,
         ws \cap {WorkspaceFile, SessionsDirectory} \subseteq ws',
         ws' = ws \/ pc[a] \in UnderFlock,
         sess' \subseteq Entries, sessDisk' \subseteq Entries, OneEach',
         sess' = sess \/ pc[a] \in UnderFlock,
         \A e \in sess' : Visible(e) => e \in sess
  PROVE  CatalogCore'
<1> USE DEF CatalogCore
<1>1. /\ pc'[a] = "idle" /\ pc' \in [Actor -> CatalogSteps]
      /\ req'[a] = NoCall /\ req' \in [Actor -> CatalogCalls]
      /\ seen'[a] = {} /\ seen' \in [Actor -> SUBSET SessionIds]
      /\ OthersStay(a) /\ flock' = IF flock = a THEN Nil ELSE flock
  BY LeaveEffect
<1>a. NoCall.kind = "none"
  BY DEF NoCall, Call
<1>2. FlockIsHeld' /\ flock' \in Actor \cup {Nil}
  BY <1>1, FlockKept
<1>3. CatalogTypeOK'
  BY <1>1, <1>2 DEF CatalogTypeOK, CountsOK
<1>5. \A b \in Actor : InItsCall(b)'
  <2>1. InItsCall(a)'
    BY <1>1, <1>a DEF InItsCall, ListSteps, StoreSteps
  <2> QED
    BY <2>1, <1>1, OthersKeepCalls
<1>6. \A b \in Actor : LaidFor(b)'
  <2>1. LaidFor(a)'
    BY <1>1 DEF LaidFor, LayoutSteps
  <2> QED
    BY <2>1, <1>1, OthersKeepLayout
<1>7. \A b \in Actor : Unused(b)'
  <2>1. \A b \in Actor \ {a} : req[b].kind = "create" /\ Named(req[b].id) = {} =>
          NamedIn(sess', req[b].id) = {} \/ (pc[a] \in UnderFlock /\ flock = a /\ FlockIsHeld /\ ~req[b].own)
    BY <1>1, NamesGrow
  <2>2. calls <= calls'
    BY CatalogAssumption DEF CatalogTypeOK
  <2>3. Unused(a)' /\ req'[a].kind # "create"
    BY <1>1, <1>a DEF Unused
  <2> QED
    BY <1>1, <1>3, <2>1, <2>2, <2>3, OthersKeepNames
<1>8. \A b \in Actor : StagedOne(b)'
  <2>1. StagedOne(a)'
    BY <1>1 DEF StagedOne
  <2> QED
    BY <2>1, <1>1, OthersKeepStagings
<1> QED
  BY <1>2, <1>3, <1>5, <1>6, <1>7, <1>8

LEMMA CountsKept ==
  ASSUME CatalogTypeOK, UNCHANGED bounds \/ Mishap
  PROVE  CountsOK /\ calls' = calls
BY CatalogAssumption DEF CatalogTypeOK, bounds, Mishap, CountsOK

LEMMA SessionsKept ==
  ASSUME CatalogCore, UNCHANGED <<sess, sessDisk, calls>>
  PROVE  sess' \subseteq Entries /\ sessDisk' \subseteq Entries /\ OneEach'
BY DEF CatalogCore, CatalogTypeOK, OneEach, Drawn

LEMMA LayoutStepCore ==
  ASSUME CatalogCore, NEW a \in Actor, NEW from \in LayoutSteps, NEW to \in LayoutSteps, Step(a, from, to),
         UNCHANGED bounds \/ Mishap, UNCHANGED <<sess, sessDisk>>,
         LaidFor(a)', ws \cap {WorkspaceFile, SessionsDirectory} \subseteq ws'
  PROVE  CatalogCore'
<1>1. CatalogTypeOK /\ Unused(a)
  BY DEF CatalogCore
<1>2. CountsOK /\ calls' = calls
  BY <1>1, CountsKept
<1>3. sess' \subseteq Entries /\ sessDisk' \subseteq Entries /\ OneEach'
  BY <1>2, SessionsKept
<1>4. /\ from \in UnderFlock /\ to \in UnderFlock /\ from \notin ListSteps /\ to \notin ListSteps
      /\ from # "idle" /\ to \in CatalogSteps \ {"idle"}
      /\ to \notin StoreSteps \cup {"name", "flock2"} /\ from \notin StoreSteps
  BY DEF UnderFlock, LayoutSteps, StoreSteps, ListSteps, CatalogSteps
<1>5. pc[a] = from /\ pc'[a] = to /\ req' = req
  BY <1>1, <1>4, StepEffect
<1>6. Unused(a)'
  BY <1>1, <1>2, <1>4, <1>5 DEF Unused, StoreSteps, Drawn, Named, NamedIn
<1>7. StagedOne(a)'
  BY <1>4, <1>5 DEF StagedOne, StoreSteps
<1>8. to \notin {"name", "find"}
  BY <1>4 DEF StoreSteps
<1> QED
  BY <1>2, <1>3, <1>4, <1>5, <1>6, <1>7, <1>8, GoOnCore

\* A call that ends and leaves the directories of the sessions as they are.
LEMMA LayoutLeaveCore ==
  ASSUME CatalogCore, NEW a \in Actor, Leave(a), UNCHANGED bounds \/ Mishap,
         UNCHANGED <<sess, sessDisk>>,
         ready \subseteq ready', ready' \subseteq Proc, LaidForReady',
         acked' \subseteq Returned, disturbed' \in BOOLEAN,
         ws \cap {WorkspaceFile, SessionsDirectory} \subseteq ws',
         ws' = ws \/ pc[a] \in UnderFlock
  PROVE  CatalogCore'
<1>1. CountsOK /\ calls' = calls
  BY CountsKept DEF CatalogCore
<1>2. sess' \subseteq Entries /\ sessDisk' \subseteq Entries /\ OneEach'
  BY <1>1, SessionsKept
<1> QED
  BY <1>1, <1>2, LeaveCore

\* What a failed or a disturbed call leaves as it is.
LEMMA FailedLeave ==
  ASSUME CatalogCore, NEW a \in Actor, Fail(a) \/ Disturbed(a),
         ws \cap {WorkspaceFile, SessionsDirectory} \subseteq ws'
  PROVE  /\ Leave(a) /\ ready \subseteq ready' /\ ready' \subseteq Proc /\ LaidForReady'
         /\ acked' \subseteq Returned /\ disturbed' \in BOOLEAN
BY DEF CatalogCore, CatalogTypeOK, LaidForReady, Fail, Disturbed, told

LEMMA OpenIdentityCore ==
  ASSUME CatalogCore, NEW a \in Actor, OpenIdentity(a)
  PROVE  CatalogCore'
<1>1. "layout" \in LayoutSteps /\ "sessions" \in LayoutSteps /\ "identity" \in LayoutSteps
  BY DEF LayoutSteps
<1>t. CatalogTypeOK
  BY DEF CatalogCore
<1>2. CASE WorkspaceFile \in ws /\ Cleaned /\ Step(a, "layout", "sessions")
  <2>1. pc'[a] = "sessions"
    BY <1>1, <1>2, <1>t, StepEffect DEF CatalogSteps, UnderFlock
  <2>2. ws \cap {WorkspaceFile, SessionsDirectory} \subseteq ws'
    BY <1>2, NamesApart DEF Cleaned
  <2>3. LaidFor(a)'
    BY <1>2, <2>1, <2>2 DEF LaidFor
  <2> QED
    BY <1>1, <1>2, <2>2, <2>3, LayoutStepCore DEF OpenIdentity, bounds
<1>3. CASE WorkspaceFile \notin ws /\ Step(a, "layout", "identity")
  <2>1. pc'[a] = "identity"
    BY <1>1, <1>3, <1>t, StepEffect DEF CatalogSteps, UnderFlock
  <2>2. /\ ws' = (ws \ Temps) \cup {Temp(a)}
        /\ UNCHANGED <<sess, sessDisk, bounds>>
    BY <1>3 DEF OpenIdentity
  <2>3. ws \cap {WorkspaceFile, SessionsDirectory} \subseteq ws'
    BY <2>2, NamesApart
  <2>4. LaidFor(a)'
    BY <1>3, <2>1, <2>2, NamesApart DEF LaidFor
  <2> QED
    BY <1>1, <1>3, <2>2, <2>3, <2>4, LayoutStepCore
<1> QED
  BY <1>2, <1>3 DEF OpenIdentity

LEMMA WriteIdentityCore ==
  ASSUME CatalogCore, NEW a \in Actor, WriteIdentity(a)
  PROVE  CatalogCore'
<1>1. "identity" \in LayoutSteps /\ "identity sync" \in LayoutSteps /\ "identity" \in UnderFlock
  BY DEF LayoutSteps, UnderFlock
<1>t. CatalogTypeOK /\ LaidFor(a) /\ pc[a] = "identity" /\ Temp(a) \in ws /\ UNCHANGED <<sess, sessDisk>>
  BY DEF CatalogCore, WriteIdentity, LaidFor, DropTemp
<1>2. CASE /\ Step(a, "identity", "identity sync")
           /\ ws' = (ws \ {Temp(a)}) \cup {WorkspaceFile} /\ UNCHANGED bounds
  <2>1. pc'[a] = "identity sync"
    BY <1>1, <1>2, <1>t, StepEffect DEF CatalogSteps, UnderFlock
  <2>2. ws \cap {WorkspaceFile, SessionsDirectory} \subseteq ws'
    BY <1>2, NamesApart
  <2>3. LaidFor(a)'
    BY <1>2, <2>1 DEF LaidFor
  <2> QED
    BY <1>1, <1>t, <1>2, <2>2, <2>3, LayoutStepCore
<1>3. CASE DropTemp(a) /\ Fail(a) /\ Mishap
  <2>1. ws \cap {WorkspaceFile, SessionsDirectory} \subseteq ws'
    BY <1>3, NamesApart DEF DropTemp
  <2> QED
    BY <1>1, <1>t, <1>3, <2>1, FailedLeave, LayoutLeaveCore
<1> QED
  BY <1>t, <1>2, <1>3 DEF WriteIdentity

LEMMA SyncIdentityCore ==
  ASSUME CatalogCore, NEW a \in Actor, SyncIdentity(a)
  PROVE  CatalogCore'
<1>1. "identity sync" \in LayoutSteps /\ "sessions" \in LayoutSteps /\ "sessions" \in CatalogSteps
  BY DEF LayoutSteps, CatalogSteps, UnderFlock
<1>2. CatalogTypeOK /\ LaidFor(a)
  BY DEF CatalogCore
<1>3. /\ Step(a, "identity sync", "sessions") /\ UNCHANGED <<ws, sess, sessDisk>>
      /\ UNCHANGED bounds \/ Mishap
  BY DEF SyncIdentity
<1>4. pc[a] = "identity sync" /\ pc'[a] = "sessions"
  BY <1>1, <1>2, <1>3, StepEffect
<1>5. LaidFor(a)'
  BY <1>1, <1>2, <1>3, <1>4 DEF LaidFor
<1> QED
  BY <1>1, <1>3, <1>5, LayoutStepCore

LEMMA OpenSessionsCore ==
  ASSUME CatalogCore, NEW a \in Actor, OpenSessions(a)
  PROVE  CatalogCore'
<1>1. {"sessions", "sessions sync", "control"} \subseteq LayoutSteps \cap CatalogSteps
  BY DEF LayoutSteps, CatalogSteps, UnderFlock
<1>2. CatalogTypeOK /\ LaidFor(a)
  BY DEF CatalogCore
<1>3. \E to \in {"control", "sessions sync"} :
        Step(a, "sessions", to) /\ SessionsDirectory \in ws' /\ ws \subseteq ws'
        /\ UNCHANGED <<sess, sessDisk, bounds>>
  BY DEF OpenSessions, disks
<1>4. PICK to \in {"control", "sessions sync"} :
        Step(a, "sessions", to) /\ SessionsDirectory \in ws' /\ ws \subseteq ws'
        /\ UNCHANGED <<sess, sessDisk, bounds>>
  BY <1>3
<1>5. pc[a] = "sessions" /\ pc'[a] = to
  BY <1>1, <1>2, <1>4, StepEffect
<1>6. LaidFor(a)'
  BY <1>1, <1>2, <1>4, <1>5 DEF LaidFor, LayoutSteps
<1> QED
  BY <1>1, <1>4, <1>6, LayoutStepCore

LEMMA SyncWorkspaceCore ==
  ASSUME CatalogCore, NEW a \in Actor, NEW at \in LayoutSteps \ {"layout", "identity", "identity sync", "sessions"},
         NEW next \in LayoutSteps \ {"layout", "identity", "identity sync", "sessions"},
         SyncWorkspace(a, at, next)
  PROVE  CatalogCore'
<1>1. next \in CatalogSteps /\ at \in LayoutSteps /\ next \in LayoutSteps
  BY DEF CatalogSteps, UnderFlock
<1>2. CatalogTypeOK /\ LaidFor(a)
  BY DEF CatalogCore
<1>3. CASE Step(a, at, next) /\ UNCHANGED <<ws, sess, sessDisk, bounds>>
  <2>1. pc[a] = at /\ pc'[a] = next
    BY <1>1, <1>2, <1>3, StepEffect
  <2>2. LaidFor(a)'
    BY <1>2, <1>3, <2>1 DEF LaidFor
  <2> QED
    BY <1>1, <1>3, <2>2, LayoutStepCore
<1>4. CASE Fail(a) /\ Mishap /\ UNCHANGED disks
  <2>1. UNCHANGED <<ws, sess, sessDisk>>
    BY <1>4 DEF disks
  <2> QED
    BY <1>4, <2>1, FailedLeave, LayoutLeaveCore
<1> QED
  BY <1>3, <1>4 DEF SyncWorkspace

LEMMA OpenControlCore ==
  ASSUME CatalogCore, NEW a \in Actor, OpenControl(a)
  PROVE  CatalogCore'
<1>1. {"control", "control rename", "laid"} \subseteq LayoutSteps \cap CatalogSteps
  BY DEF LayoutSteps, CatalogSteps, UnderFlock
<1>2. CatalogTypeOK /\ LaidFor(a)
  BY DEF CatalogCore
<1>3. \E to \in {"control rename", "laid"} :
        Step(a, "control", to) /\ ws \ ControlStagings \subseteq ws'
        /\ UNCHANGED <<sess, sessDisk, bounds>>
  BY DEF OpenControl, disks
<1>4. PICK to \in {"control rename", "laid"} :
        Step(a, "control", to) /\ ws \ ControlStagings \subseteq ws'
        /\ UNCHANGED <<sess, sessDisk, bounds>>
  BY <1>3
<1>5. pc[a] = "control" /\ pc'[a] = to
  BY <1>1, <1>2, <1>4, StepEffect
<1>6. ws \cap {WorkspaceFile, SessionsDirectory} \subseteq ws'
  BY <1>4, NamesApart
<1>7. LaidFor(a)'
  BY <1>2, <1>5, <1>6 DEF LaidFor, LayoutSteps
<1> QED
  BY <1>1, <1>4, <1>6, <1>7, LayoutStepCore

LEMMA PublishControlCore ==
  ASSUME CatalogCore, NEW a \in Actor, PublishControl(a)
  PROVE  CatalogCore'
<1>1. /\ {"control rename", "control sync"} \subseteq LayoutSteps \cap CatalogSteps
      /\ "control rename" \in UnderFlock
  BY DEF LayoutSteps, CatalogSteps, UnderFlock
<1>2. CatalogTypeOK /\ LaidFor(a)
  BY DEF CatalogCore
<1>3. CASE /\ Step(a, "control rename", "control sync")
           /\ ws' = (ws \ {ControlStaging(a)}) \cup {ControlDirectory}
           /\ UNCHANGED <<wsDisk, sess, sessDisk, bounds>>
  <2>1. pc[a] = "control rename" /\ pc'[a] = "control sync"
    BY <1>1, <1>2, <1>3, StepEffect
  <2>2. ws \cap {WorkspaceFile, SessionsDirectory} \subseteq ws'
    BY <1>3, NamesApart
  <2>3. LaidFor(a)'
    BY <1>2, <2>1, <2>2 DEF LaidFor, LayoutSteps
  <2> QED
    BY <1>1, <1>3, <2>2, <2>3, LayoutStepCore
<1>4. CASE pc[a] = "control rename" /\ Fail(a) /\ Mishap /\ UNCHANGED <<ws, sess, sessDisk>>
  BY <1>1, <1>4, FailedLeave, LayoutLeaveCore
<1> QED
  BY <1>3, <1>4 DEF PublishControl

\* No call means no name: what is drawn next is nobody's.
LEMMA FreshName ==
  ASSUME CatalogCore, calls < MaxCalls
  PROVE  /\ NewName(calls) \in SessionIds \ Drawn /\ NewName(calls) \notin Identity
         /\ \A e \in sess : Visible(e) => e.name # NewName(calls)
         /\ \A b \in Actor : req[b].id # NewName(calls)
<1>1. calls \in 0..MaxCalls /\ calls \in Nat
  BY CatalogAssumption DEF CatalogCore, CatalogTypeOK
<1>2. NewName(calls) \in SessionIds /\ NewName(calls) \notin Identity
  BY <1>1, NamesApart
<1>3. \A i \in 0..(calls - 1) : NewName(i) # NewName(calls)
  BY <1>1, NamesApart
<1>4. NewName(calls) \notin Drawn
  BY <1>3 DEF Drawn
<1>5. \A b \in Actor : req[b].id # NewName(calls)
  <2> SUFFICES ASSUME NEW b \in Actor PROVE req[b].id # NewName(calls)
    OBVIOUS
  <2>1. CASE req[b].kind = "create"
    BY <2>1, <1>2, <1>4, CallShape DEF CatalogCore, CatalogTypeOK, CreateCalls, Unused
  <2>2. CASE req[b].kind # "create"
    BY <2>2, <1>2, CallShape, NamesApart DEF CatalogCore, CatalogTypeOK
  <2> QED
    BY <2>1, <2>2
<1> QED
  BY <1>2, <1>4, <1>5 DEF CatalogCore, OneEach

\* What Begin asks for.
ReqOf(r) == IF r.kind = "create" /\ r.own THEN [r EXCEPT !.id = NewName(calls)] ELSE r

LEMMA ReqShape ==
  ASSUME CatalogCore, NEW r \in Calls, r.kind # "ensure" => calls < MaxCalls
  PROVE  /\ ReqOf(r) \in CatalogCalls /\ ReqOf(r).kind = r.kind /\ (ReqOf(r).own <=> r.own)
         /\ r.kind \in {"ensure", "list", "create"}
         /\ r.kind = "create" /\ ~r.own => ReqOf(r).id \in Identity
         /\ r.kind = "create" /\ r.own => ReqOf(r).id = NewName(calls)
<1>1. CASE r \in {Call("ensure", Nil, Nil), Call("list", Nil, Nil)}
  BY <1>1 DEF ReqOf, Call, CatalogCalls
<1>2. CASE r \in {Call("create", id, t) : id \in Identity \cup {Nil}, t \in Terms}
  <2>1. PICK id \in Identity \cup {Nil}, t \in Terms : r = Call("create", id, t)
    BY <1>2
  <2>2. r = [kind |-> "create", id |-> id, terms |-> t, own |-> id = Nil]
    BY <2>1 DEF Call
  <2>3. CASE id = Nil
    <3>1. ReqOf(r) = [kind |-> "create", id |-> NewName(calls), terms |-> t, own |-> TRUE]
      BY <2>2, <2>3 DEF ReqOf
    <3>2. NewName(calls) \in SessionIds
      BY <2>2, FreshName
    <3>3. ReqOf(r) \in CreateCalls
      BY <3>1, <3>2 DEF CreateCalls
    <3>4. r.kind = "create" /\ r.own
      BY <2>2, <2>3
    <3> QED
      BY <3>1, <3>3, <3>4 DEF CatalogCalls
  <2>4. CASE id # Nil
    BY <2>2, <2>4 DEF ReqOf, CatalogCalls, CreateCalls, SessionIds
  <2> QED
    BY <2>3, <2>4
<1> QED
  BY <1>1, <1>2 DEF Calls

LEMMA BeginCore ==
  ASSUME CatalogCore, NEW a \in Actor, Begin(a)
  PROVE  CatalogCore'
<1>1. PICK r \in Calls :
         /\ (r.kind = "ensure") = (Home[a] \notin ready)
         /\ r.kind # "ensure" => calls < MaxCalls
         /\ req' = [req EXCEPT ![a] = ReqOf(r)]
         /\ seen' = [seen EXCEPT ![a] = IF r.kind = "list" THEN {k.id : k \in acked} ELSE {}]
         /\ Goto(a, CASE r.kind = "list" -> "wait"
                      [] r.kind = "create" /\ ~r.own -> "name"
                      [] OTHER -> "flock")
         /\ calls' = IF r.kind = "ensure" THEN calls ELSE calls + 1
  BY DEF Begin, ReqOf
<1>2. /\ ReqOf(r) \in CatalogCalls /\ ReqOf(r).kind = r.kind /\ (ReqOf(r).own <=> r.own)
      /\ r.kind \in {"ensure", "list", "create"}
      /\ r.kind = "create" /\ ~r.own => ReqOf(r).id \in Identity
      /\ r.kind = "create" /\ r.own => ReqOf(r).id = NewName(calls)
  BY <1>1, ReqShape
<1>3. pc[a] = "idle" /\ UNCHANGED <<disks, flock, ready, told, mishaps, outages>>
  BY DEF Begin
<1>4. PICK to \in {"wait", "name", "flock"} :
         /\ pc' = [pc EXCEPT ![a] = to]
         /\ to = "wait" <=> r.kind = "list"
         /\ to = "name" => r.kind = "create" /\ ~r.own
  BY <1>1, <1>2 DEF Goto
<1>t. CatalogTypeOK /\ FlockIsHeld
  BY DEF CatalogCore
<1>5. /\ pc' \in [Actor -> CatalogSteps] /\ pc'[a] = to /\ req'[a] = ReqOf(r)
      /\ req' \in [Actor -> CatalogCalls] /\ OthersStay(a)
      /\ seen' \in [Actor -> SUBSET SessionIds]
  <2>1. to \in CatalogSteps
    BY DEF CatalogSteps, ListSteps
  <2>2. pc' \in [Actor -> CatalogSteps] /\ pc'[a] = to /\ \A b \in Actor \ {a} : pc'[b] = pc[b]
    BY <1>4, <1>t, <2>1 DEF CatalogTypeOK
  <2>3. /\ req' \in [Actor -> CatalogCalls] /\ req'[a] = ReqOf(r)
        /\ \A b \in Actor \ {a} : req'[b] = req[b]
    BY <1>1, <1>2, <1>t DEF CatalogTypeOK
  <2>4. {k.id : k \in acked} \in SUBSET SessionIds
    BY <1>t DEF CatalogTypeOK, Returned
  <2>5. seen' \in [Actor -> SUBSET SessionIds] /\ \A b \in Actor \ {a} : seen'[b] = seen[b]
    BY <1>1, <1>t, <2>4 DEF CatalogTypeOK
  <2> QED
    BY <2>2, <2>3, <2>5 DEF OthersStay
<1>6. calls \in 0..MaxCalls /\ calls' \in 0..MaxCalls /\ calls <= calls'
  BY <1>1, <1>2, <1>t, CatalogAssumption DEF CatalogTypeOK
<1>7. CatalogTypeOK'
  BY <1>3, <1>5, <1>6, <1>t DEF CatalogTypeOK, disks, told
<1>8. FlockIsHeld'
  <2>1. pc[a] \notin UnderFlock /\ to \notin UnderFlock
    BY <1>3 DEF UnderFlock, LayoutSteps, StoreSteps
  <2> QED
    BY <2>1, <1>3, <1>5, <1>t, FlockKept
<1>9. LaidForReady' /\ \A b \in Actor : LaidFor(b)'
  <2>1. LaidFor(a)'
    BY <1>5 DEF LaidFor, LayoutSteps
  <2> QED
    BY <2>1, <1>3, <1>5, <1>t, OthersKeepLayout DEF CatalogCore, LaidForReady, disks
<1>10. \A i \in 0..(calls - 1) : i \in 0..(calls' - 1)
  <2>1. calls \in Int /\ calls' \in Int
    BY <1>6, CatalogAssumption
  <2> QED
    BY <2>1, <1>6, LongerRange
<1>11. OneEach'
  BY <1>3, <1>10 DEF CatalogCore, OneEach, Drawn, disks
<1>12. \A b \in Actor : InItsCall(b)'
  <2>1. InItsCall(a)'
    BY <1>1, <1>2, <1>3, <1>4, <1>5 DEF InItsCall, ListSteps, StoreSteps
  <2> QED
    BY <2>1, <1>3, <1>5, OthersKeepCalls DEF CatalogCore
<1>13. \A b \in Actor : Unused(b)'
  <2>1. CASE r.kind = "create" /\ r.own
    <3>1. calls < MaxCalls /\ calls' = calls + 1
      BY <1>1, <2>1
    <3>2. /\ \A e \in sess : Visible(e) => e.name # NewName(calls)
          /\ \A b \in Actor : req[b].id # NewName(calls)
          /\ NewName(calls) \in SessionIds
      BY <3>1, FreshName
    <3>3. NewName(calls) \in Drawn'
      <4>1. calls \in 0..(calls' - 1)
        BY <3>1, <1>6
      <4> QED
        BY <4>1 DEF Drawn
    <3>4. NamedIn(sess', NewName(calls)) = {}
      BY <3>2, <1>3, NamesApart DEF NamedIn, Visible, disks
    <3>5. Unused(a)'
      BY <1>2, <1>4, <1>5, <2>1, <3>2, <3>3, <3>4 DEF Unused, Named, OthersStay
    <3>6. req'[a].id \notin {req[b].id : b \in Actor \ {a}}
      BY <1>2, <1>5, <2>1, <3>2
    <3> QED
      BY <3>5, <3>6, <1>3, <1>5, <1>6, <1>7, <1>t, OthersKeepNames DEF CatalogCore, Named, disks
  <2>2. CASE r.kind = "create" /\ ~r.own
    <3>1. Unused(a)'
      BY <1>2, <1>4, <1>5, <2>2 DEF Unused
    <3>2. \A b \in Actor \ {a} : req'[b] = req[b] /\ pc'[b] = pc[b]
      BY <1>5 DEF OthersStay
    <3>3. \A b \in Actor \ {a} : Unused(b)'
      <4> SUFFICES ASSUME NEW b \in Actor \ {a}, req[b].kind = "create" PROVE Unused(b)'
        BY <3>2 DEF Unused
      <4>1. Unused(b)
        BY DEF CatalogCore
      <4>2. Drawn \subseteq Drawn'
        BY <1>10 DEF Drawn
      <4>3. Identity \cap Drawn = {}
        <5>1. \A i \in 0..(calls - 1) : i \in 0..MaxCalls
          BY <1>6, CatalogAssumption
        <5> QED
          BY <5>1, NamesApart DEF Drawn
      <4>4. req[b].own => req'[a].id # req[b].id
        BY <1>2, <1>5, <2>2, <4>1, <4>3 DEF Unused
      <4> QED
        BY <3>2, <4>1, <4>2, <4>4, <1>3, <1>5 DEF Unused, Named, NamedIn, disks
    <3> QED
      BY <3>1, <3>3
  <2>3. CASE r.kind # "create"
    <3>1. Unused(a)' /\ req'[a].kind # "create"
      BY <1>2, <1>5, <2>3 DEF Unused
    <3> QED
      BY <3>1, <1>3, <1>5, <1>6, <1>7, <1>t, OthersKeepNames DEF CatalogCore, Named, disks
  <2> QED
    BY <2>1, <2>2, <2>3
<1>14. \A b \in Actor : StagedOne(b)'
  <2>1. StagedOne(a)'
    BY <1>5 DEF StagedOne
  <2> QED
    BY <2>1, <1>3, <1>5, <1>t, OthersKeepStagings DEF CatalogCore, disks
<1> QED
  BY <1>7, <1>8, <1>9, <1>11, <1>12, <1>13, <1>14 DEF CatalogCore

\* A step of a call that leaves all directories alone.
LEMMA QuietStepCore ==
  ASSUME CatalogCore, NEW a \in Actor, NEW from, NEW to \in CatalogSteps \ {"idle"}, Step(a, from, to),
         from # "idle", UNCHANGED <<disks, bounds>>,
         from \in UnderFlock <=> to \in UnderFlock, from \in ListSteps <=> to \in ListSteps,
         to \in {"name", "find"} => ~req[a].own,
         to \in StoreSteps \cup {"name", "flock2"} => req[a].kind = "create",
         to \in LayoutSteps => from \in LayoutSteps /\ LaidFor(a)', Unused(a)', StagedOne(a)'
  PROVE  CatalogCore'
<1>1. UNCHANGED <<ws, wsDisk, sess, sessDisk>> /\ UNCHANGED bounds
  BY DEF disks
<1>2. CountsOK /\ calls' = calls
  BY <1>1, CountsKept DEF CatalogCore
<1>3. sess' \subseteq Entries /\ sessDisk' \subseteq Entries /\ OneEach'
  BY <1>1, <1>2, SessionsKept
<1>4. pc[a] = from /\ pc'[a] = to
  BY StepEffect DEF CatalogCore
<1>5. LaidFor(a)'
  BY <1>4 DEF LaidFor, LayoutSteps
<1> QED
  BY <1>1, <1>2, <1>3, <1>5, GoOnCore

LEMMA LockIdentityCore ==
  ASSUME CatalogCore, NEW a \in Actor, LockIdentity(a)
  PROVE  CatalogCore'
<1>1. Step(a, "name", "flock") /\ UNCHANGED <<disks, bounds>>
  BY DEF LockIdentity
<1>2. "flock" \in CatalogSteps \ {"idle"} /\ {"name", "flock"} \cap (UnderFlock \cup ListSteps) = {}
      /\ "flock" \notin StoreSteps \cup {"name", "flock2", "find"} /\ "flock" \notin LayoutSteps
  BY DEF CatalogSteps, UnderFlock, LayoutSteps, StoreSteps, ListSteps
<1>3. pc[a] = "name" /\ pc'[a] = "flock" /\ req' = req /\ calls' = calls /\ sess' = sess
  BY <1>1, <1>2, StepEffect DEF CatalogCore, bounds, disks
<1>4. Unused(a)' /\ StagedOne(a)'
  BY <1>3 DEF CatalogCore, Unused, StagedOne, Named, NamedIn, Drawn
<1> QED
  BY <1>1, <1>2, <1>4, QuietStepCore

LEMMA TakeFlockCore ==
  ASSUME CatalogCore, NEW a \in Actor, TakeFlock(a)
  PROVE  CatalogCore'
<1> USE DEF CatalogCore
<1>1. PICK to \in {"layout", "reconcile"} :
         /\ pc[a] = (IF to = "layout" THEN "flock" ELSE "flock2") /\ pc' = [pc EXCEPT ![a] = to]
  BY DEF TakeFlock, Goto
<1>2. /\ flock = Nil /\ flock' = a
      /\ UNCHANGED <<disks, ready, req, seen, told, bounds>>
  BY DEF TakeFlock
<1>3. to \in CatalogSteps /\ to \in UnderFlock /\ to \notin ListSteps
  BY DEF CatalogSteps, UnderFlock, LayoutSteps, StoreSteps, ListSteps
<1>4. pc'[a] = to /\ pc' \in [Actor -> CatalogSteps] /\ OthersStay(a)
  BY <1>1, <1>2, <1>3 DEF CatalogTypeOK, OthersStay
<1>5. UNCHANGED <<ws, wsDisk, sess, sessDisk, calls>> /\ UNCHANGED bounds
  BY <1>2 DEF disks, bounds
<1>6. FlockIsHeld' /\ flock' \in Actor \cup {Nil}
  BY <1>2, <1>3, <1>4, FlockKept
<1>7. CatalogTypeOK' /\ CountsOK
  BY <1>2, <1>4, <1>5, <1>6, CountsKept DEF CatalogTypeOK, told, CountsOK
<1>8. InItsCall(a)' /\ LaidFor(a)' /\ Unused(a)' /\ StagedOne(a)'
  BY <1>1, <1>2, <1>4, <1>5 DEF InItsCall, LaidFor, Unused, StagedOne, ListSteps, LayoutSteps, StoreSteps,
     Named, NamedIn, Drawn
<1>9. \A b \in Actor : InItsCall(b)' /\ LaidFor(b)' /\ StagedOne(b)'
  BY <1>2, <1>4, <1>5, <1>8, OthersKeepCalls, OthersKeepLayout, OthersKeepStagings
<1>10. \A b \in Actor : Unused(b)'
  <2>1. calls <= calls'
    BY <1>5, CatalogAssumption DEF CatalogTypeOK
  <2> QED
    BY <2>1, <1>2, <1>4, <1>5, <1>7, <1>8, OthersKeepNames DEF Named, NamedIn
<1> QED
  BY <1>2, <1>5, <1>6, <1>7, <1>9, <1>10, SessionsKept DEF LaidForReady

LEMMA LaidCore ==
  ASSUME CatalogCore, NEW a \in Actor, Laid(a)
  PROVE  CatalogCore'
<1> USE DEF CatalogCore
<1>1. pc[a] = "laid" /\ UNCHANGED <<disks, told, bounds>>
  BY DEF Laid
<1>2. "laid" \in LayoutSteps /\ "laid" \in UnderFlock
  BY DEF LayoutSteps, UnderFlock
<1>3. {WorkspaceFile, SessionsDirectory} \subseteq ws
  BY <1>1, <1>2 DEF LaidFor
<1>4. UNCHANGED <<ws, wsDisk, sess, sessDisk, calls>> /\ UNCHANGED bounds
  BY <1>1 DEF disks, bounds
<1>5. CASE Leave(a) /\ ready' = ready \cup {Home[a]}
  <2>1. /\ LaidForReady' /\ ready \subseteq ready' /\ ready' \subseteq Proc
        /\ acked' \subseteq Returned /\ disturbed' \in BOOLEAN
    BY <1>1, <1>3, <1>4, <1>5 DEF LaidForReady, Proc, told, CatalogTypeOK
  <2> QED
    BY <2>1, <1>4, <1>5, LayoutLeaveCore
<1>6. CASE /\ req[a].kind = "create" /\ Goto(a, "flock2") /\ flock' = Nil
           /\ UNCHANGED <<ready, req, seen>>
  <2>1. "flock2" \in CatalogSteps /\ "flock2" \notin UnderFlock \cup ListSteps
    BY DEF CatalogSteps, UnderFlock, LayoutSteps, StoreSteps, ListSteps
  <2>2. pc'[a] = "flock2" /\ pc' \in [Actor -> CatalogSteps] /\ OthersStay(a)
    BY <1>6, <2>1 DEF CatalogTypeOK, OthersStay, Goto
  <2>3. flock = a
    BY <1>1, <1>2 DEF FlockIsHeld
  <2>4. FlockIsHeld' /\ flock' \in Actor \cup {Nil}
    BY <1>6, <2>1, <2>2, <2>3, FlockKept
  <2>5. CatalogTypeOK'
    BY <1>1, <1>4, <1>6, <2>2, <2>4, CountsKept DEF CatalogTypeOK, told, CountsOK
  <2>6. InItsCall(a)' /\ LaidFor(a)' /\ Unused(a)' /\ StagedOne(a)'
    BY <1>1, <1>4, <1>6, <2>1, <2>2 DEF InItsCall, LaidFor, Unused, StagedOne, ListSteps, LayoutSteps, StoreSteps,
       Named, NamedIn, Drawn
  <2>7. \A b \in Actor : InItsCall(b)' /\ LaidFor(b)' /\ StagedOne(b)'
    BY <1>4, <1>6, <2>2, <2>6, OthersKeepCalls, OthersKeepLayout, OthersKeepStagings
  <2>8. \A b \in Actor : Unused(b)'
    <3>1. calls <= calls'
      BY <1>4, CatalogAssumption DEF CatalogTypeOK
    <3> QED
      BY <3>1, <1>4, <1>6, <2>2, <2>5, <2>6, OthersKeepNames DEF Named, NamedIn
  <2> QED
    BY <1>4, <1>6, <2>4, <2>5, <2>7, <2>8, SessionsKept DEF LaidForReady
<1> QED
  BY <1>5, <1>6 DEF Laid

LEMMA AwaitCreatesCore ==
  ASSUME CatalogCore, NEW a \in Actor, AwaitCreates(a)
  PROVE  CatalogCore'
<1>1. Step(a, "wait", "list layout") /\ UNCHANGED <<disks, bounds>>
  BY DEF AwaitCreates
<1>2. /\ "list layout" \in CatalogSteps \ {"idle"} /\ {"wait", "list layout"} \subseteq ListSteps
      /\ {"wait", "list layout"} \cap (UnderFlock \cup StoreSteps \cup LayoutSteps) = {}
  BY DEF CatalogSteps, UnderFlock, LayoutSteps, StoreSteps, ListSteps
<1>3. pc[a] = "wait" /\ pc'[a] = "list layout" /\ req' = req /\ calls' = calls /\ sess' = sess
  BY <1>1, <1>2, StepEffect DEF CatalogCore, bounds, disks
<1>4. Unused(a)' /\ StagedOne(a)'
  BY <1>3 DEF CatalogCore, Unused, StagedOne, Named, NamedIn, Drawn
<1> QED
  BY <1>1, <1>2, <1>4, QuietStepCore

LEMMA ListLayoutCore ==
  ASSUME CatalogCore, NEW a \in Actor, ListLayout(a)
  PROVE  CatalogCore'
<1> USE DEF CatalogCore
<1>1. Step(a, "list layout", "list read") /\ Cleaned /\ UNCHANGED <<sess, sessDisk>> /\ UNCHANGED bounds
  BY DEF ListLayout
<1>2. /\ "list read" \in CatalogSteps \ {"idle"} /\ {"list layout", "list read"} \subseteq ListSteps
      /\ {"list layout", "list read"} \cap (UnderFlock \cup StoreSteps \cup LayoutSteps) = {}
  BY DEF CatalogSteps, UnderFlock, LayoutSteps, StoreSteps, ListSteps
<1>3. pc[a] = "list layout" /\ pc'[a] = "list read" /\ req' = req
  BY <1>1, <1>2, StepEffect
<1>4. CountsOK /\ calls' = calls
  BY <1>1, CountsKept
<1>5. Unused(a)' /\ StagedOne(a)' /\ LaidFor(a)'
  BY <1>1, <1>3, <1>4 DEF Unused, StagedOne, Named, NamedIn, Drawn, LaidFor, LayoutSteps
<1>6. WorkspaceFile \in ws
  BY <1>2, <1>3 DEF InItsCall, LaidForReady
<1>7. ws \cap {WorkspaceFile, SessionsDirectory} \subseteq ws'
  BY <1>1, NamesApart DEF Cleaned
<1>8. sess' \subseteq Entries /\ sessDisk' \subseteq Entries /\ OneEach'
  BY <1>1, <1>4, SessionsKept
<1>9. "list read" \notin StoreSteps \cup {"name", "flock2", "find"} /\ "list layout" # "idle"
  BY <1>2 DEF StoreSteps
<1> QED
  BY <1>1, <1>2, <1>4, <1>5, <1>6, <1>7, <1>8, <1>9, GoOnCore

LEMMA ReadCatalogCore ==
  ASSUME CatalogCore, NEW a \in Actor, ReadCatalog(a)
  PROVE  CatalogCore'
<1>1. UNCHANGED <<ws, wsDisk, sess, sessDisk>> /\ UNCHANGED bounds
  BY DEF ReadCatalog, disks
<1>2. CASE Disturbed(a)
  BY <1>1, <1>2, FailedLeave, LayoutLeaveCore
<1>3. CASE Leave(a) /\ UNCHANGED <<ready, told>>
  BY <1>1, <1>3, FailedLeave, LayoutLeaveCore DEF Fail
<1> QED
  BY <1>2, <1>3 DEF ReadCatalog

LEMMA FindIdentityCore ==
  ASSUME CatalogCore, NEW a \in Actor, FindIdentity(a)
  PROVE  CatalogCore'
<1> USE DEF CatalogCore
<1>1. UNCHANGED <<disks, bounds>> /\ UNCHANGED <<ws, wsDisk, sess, sessDisk, calls>> /\ UNCHANGED bounds
  BY DEF FindIdentity, disks, bounds
<1>2. CASE Named(req[a].id) = {} /\ Step(a, "find", "anchor")
  <2>1. /\ "anchor" \in CatalogSteps \ {"idle"} /\ {"find", "anchor"} \subseteq UnderFlock \cap StoreSteps
        /\ {"find", "anchor"} \cap (ListSteps \cup LayoutSteps) = {}
    BY DEF CatalogSteps, UnderFlock, LayoutSteps, StoreSteps, ListSteps
  <2>2. pc[a] = "find" /\ pc'[a] = "anchor" /\ req' = req
    BY <1>2, <2>1, StepEffect
  <2>3. req[a].kind = "create"
    BY <2>1, <2>2 DEF InItsCall
  <2>4. Unused(a)' /\ StagedOne(a)'
    BY <1>1, <1>2, <2>2 DEF Unused, StagedOne, Named, NamedIn, Drawn
  <2> QED
    BY <1>1, <1>2, <2>1, <2>3, <2>4, QuietStepCore
<1>3. CASE pc[a] = "find" /\ Acknowledge(a, "finder")
  <2>1. req[a] \in CreateCalls
    BY <1>3, CallShape DEF InItsCall, StoreSteps, CatalogTypeOK
  <2>2. acked' \subseteq Returned /\ ready' = ready /\ disturbed' = disturbed /\ Leave(a)
    BY <1>3, <2>1 DEF Acknowledge, CatalogTypeOK, Returned, CreateCalls
  <2> QED
    BY <1>1, <2>2, LayoutLeaveCore DEF LaidForReady, CatalogTypeOK
<1>4. CASE Fail(a)
  BY <1>1, <1>4, FailedLeave, LayoutLeaveCore
<1> QED
  BY <1>2, <1>3, <1>4 DEF FindIdentity

LEMMA ValidateLineageCore ==
  ASSUME CatalogCore, NEW a \in Actor, ValidateLineage(a)
  PROVE  CatalogCore'
<1> USE DEF CatalogCore
<1>1. UNCHANGED <<disks, bounds>> /\ UNCHANGED <<ws, wsDisk, sess, sessDisk, calls>> /\ UNCHANGED bounds
  BY DEF ValidateLineage, disks, bounds
<1>2. CASE Step(a, "anchor", "stage")
  <2>1. /\ "stage" \in CatalogSteps \ {"idle"} /\ {"anchor", "stage"} \subseteq UnderFlock \cap StoreSteps
        /\ {"anchor", "stage"} \cap (ListSteps \cup LayoutSteps) = {}
    BY DEF CatalogSteps, UnderFlock, LayoutSteps, StoreSteps, ListSteps
  <2>2. pc[a] = "anchor" /\ pc'[a] = "stage" /\ req' = req
    BY <1>2, <2>1, StepEffect
  <2>3. req[a].kind = "create"
    BY <2>1, <2>2 DEF InItsCall
  <2>4. Unused(a)' /\ StagedOne(a)'
    BY <1>1, <2>2 DEF Unused, StagedOne, Named, NamedIn, Drawn
  <2> QED
    BY <1>1, <1>2, <2>1, <2>3, <2>4, QuietStepCore
<1>3. CASE Fail(a)
  BY <1>1, <1>3, FailedLeave, LayoutLeaveCore
<1> QED
  BY <1>2, <1>3 DEF ValidateLineage

\* A step of create that changes the sessions directory under the flock.
LEMMA StoreStepCore ==
  ASSUME CatalogCore, NEW a \in Actor, NEW from \in StoreSteps, NEW to \in StoreSteps \ {"find"},
         Step(a, from, to), UNCHANGED <<ws, wsDisk>>, UNCHANGED bounds,
         sess' \subseteq Entries, sessDisk' \subseteq Entries, OneEach', Unused(a)', StagedOne(a)',
         \A e \in sess' : Visible(e) => e \in sess \/ e.name = req[a].id
  PROVE  CatalogCore'
<1>1. /\ to \in CatalogSteps \ {"idle"} /\ {from, to} \subseteq UnderFlock /\ from # "idle"
      /\ {from, to} \cap (ListSteps \cup LayoutSteps) = {} /\ to \notin {"name", "find"}
  BY DEF CatalogSteps, UnderFlock, LayoutSteps, StoreSteps, ListSteps
<1>2. pc[a] = from /\ pc'[a] = to
  BY <1>1, StepEffect DEF CatalogCore
<1>3. CountsOK /\ calls' = calls
  BY CountsKept DEF CatalogCore
<1>4. req[a].kind = "create"
  BY <1>2 DEF CatalogCore, InItsCall
<1>5. LaidFor(a)'
  BY <1>1, <1>2 DEF LaidFor, LayoutSteps
<1> QED
  BY <1>1, <1>3, <1>4, <1>5, GoOnCore

\* Steps that only touch staging directories.
LEMMA VisibleKept ==
  ASSUME CatalogCore, calls' = calls,
         \A e \in sess' : Visible(e) => e \in sess,
         \A e \in sessDisk' : Visible(e) => e \in sess'
  PROVE  OneEach'
BY DEF CatalogCore, OneEach, Drawn, Visible, Stagings

LEMMA UnusedKept ==
  ASSUME CatalogCore, NEW a \in Actor, calls' = calls, req' = req, pc[a] \in StoreSteps \ {"publish sync"},
         pc'[a] \in StoreSteps \ {"publish sync"},
         pc'[a] \in {"anchor", "stage", "write", "rename"} =>
            req[a].own \/ pc[a] \in {"anchor", "stage", "write", "rename"},
         \A e \in sess' : Visible(e) => e \in sess
  PROVE  Unused(a)'
<1>1. Unused(a) /\ req[a] \in CatalogCalls
  BY DEF CatalogCore, CatalogTypeOK
<1>2. req[a].kind = "create" => \A e \in sess' : e.name = req[a].id => Visible(e)
  BY <1>1, CallShape, NamesApart DEF Visible, CreateCalls
<1>3. req[a].kind = "create" /\ Named(req[a].id) = {} => NamedIn(sess', req[a].id) = {}
  BY <1>2 DEF Named, NamedIn
<1> QED
  BY <1>1, <1>3 DEF Unused, Named, Drawn

\* What is staged, in the steps between Stage and Publish.
LEMMA StagedAlone ==
  ASSUME CatalogCore, NEW a \in Actor, NEW w \in BOOLEAN, {e \in sess : ~Visible(e)} = {Staged(a, w)}
  PROVE  /\ Named(Staging(a)) = {Staged(a, w)}
         /\ Unstaged(a) = {e \in sess : Visible(e)}
<1>1. \A e \in sess : e.name = Staging(a) => ~Visible(e)
  BY NamesApart DEF Visible
<1>2. Staged(a, w) \in sess /\ Staged(a, w).name = Staging(a)
  BY DEF Staged
<1> QED
  BY <1>1, <1>2 DEF Named, NamedIn, Unstaged

LEMMA EntryIs ==
  ASSUME NEW e \in Entries, NEW f \in Entries, e.name = f.name, e.terms = f.terms, e.whole = f.whole
  PROVE  e = f
BY DEF Entries

LEMMA EntryWhole ==
  ASSUME NEW e \in Entries, NEW f, f = [e EXCEPT !.whole = TRUE]
  PROVE  f \in Entries /\ f.name = e.name /\ f.terms = e.terms /\ f.whole
BY DEF Entries

LEMMA EntryRenamed ==
  ASSUME NEW e \in Entries, NEW m \in SessionIds
  PROVE  [e EXCEPT !.name = m] = [name |-> m, terms |-> e.terms, whole |-> e.whole]
BY DEF Entries

LEMMA StagedAltered ==
  ASSUME NEW a \in Actor, req[a].terms \in Terms
  PROVE  /\ \A w \in BOOLEAN : Staged(a, w) \in Entries
         /\ [Staged(a, FALSE) EXCEPT !.whole = TRUE] = Staged(a, TRUE)
         /\ \A m \in SessionIds : [Staged(a, TRUE) EXCEPT !.name = m]
                = [name |-> m, terms |-> req[a].terms, whole |-> TRUE]
<1>1. \A w \in BOOLEAN : Staged(a, w) \in Entries
  BY NamesApart DEF Staged, Entries
<1> DEFINE e == Staged(a, FALSE)
           f == [e EXCEPT !.whole = TRUE]
           g == Staged(a, TRUE)
<1>2. e \in Entries /\ g \in Entries
  BY <1>1
<1>3. e.name = g.name /\ e.terms = g.terms /\ g.whole = TRUE /\ g.terms = req[a].terms
  BY DEF Staged
<1>4. f = g
  <2> HIDE DEF e, g
  <2>1. f \in Entries /\ f.name = e.name /\ f.terms = e.terms /\ f.whole
    BY <1>2, EntryWhole
  <2>2. f.whole = g.whole
    BY <2>1, <1>2, <1>3 DEF Entries
  <2> HIDE DEF f
  <2> QED
    BY <1>2, <1>3, <2>1, <2>2, EntryIs
<1>5. \A m \in SessionIds : [g EXCEPT !.name = m] = [name |-> m, terms |-> req[a].terms, whole |-> TRUE]
  <2> HIDE DEF g
  <2> QED
    BY <1>2, <1>3, EntryRenamed
<1> QED
  BY <1>1, <1>4, <1>5

LEMMA ReconcileCore ==
  ASSUME CatalogCore, NEW a \in Actor, Reconcile(a)
  PROVE  CatalogCore'
<1> USE DEF CatalogCore
<1> DEFINE left == {e \in sess : Visible(e)}
           next == IF req[a].own THEN "anchor" ELSE "find"
<1>1. /\ sess' = left /\ UNCHANGED <<ws, wsDisk>> /\ pc[a] = "reconcile"
      /\ UNCHANGED bounds \/ Mishap
      /\ sessDisk' \in {sessDisk, left}
  BY DEF Reconcile, Step
<1>2. CountsOK /\ calls' = calls
  BY <1>1, CountsKept
<1>3. OneEach'
  BY <1>1, <1>2, VisibleKept DEF OneEach
<1>4. sess' \subseteq Entries /\ sessDisk' \subseteq Entries
  BY <1>1 DEF CatalogTypeOK
<1>5. "reconcile" \in StoreSteps /\ "reconcile" \in UnderFlock
  BY DEF StoreSteps, UnderFlock
<1>6. CASE Step(a, "reconcile", next) /\ UNCHANGED bounds
  <2>1. /\ next \in {"find", "anchor"} /\ next \in StoreSteps \ {"publish sync"} /\ next \in CatalogSteps \ {"idle"}
        /\ next \in UnderFlock /\ {"reconcile", next} \cap (ListSteps \cup LayoutSteps) = {}
    BY DEF StoreSteps, UnderFlock, CatalogSteps, ListSteps, LayoutSteps
  <2>2. pc'[a] = next /\ req' = req
    BY <1>6, <2>1, StepEffect
  <2>3. Unused(a)'
    BY <1>1, <1>2, <1>5, <2>1, <2>2, UnusedKept
  <2>4. StagedOne(a)'
    BY <1>1, <2>2 DEF StagedOne, Visible, Stagings
  <2>5. next = "find" => ~req[a].own
    OBVIOUS
  <2>6. req[a].kind = "create"
    BY <1>1, <1>5 DEF InItsCall
  <2>7. LaidFor(a)'
    BY <2>1, <2>2 DEF LaidFor, LayoutSteps
  <2> HIDE DEF next
  <2>8. Step(a, "reconcile", next) /\ next # "name" /\ next # "flock2"
    BY <1>6, <2>1
  <2> QED
    BY <1>1, <1>2, <1>3, <1>4, <1>5, <2>1, <2>3, <2>4, <2>5, <2>6, <2>7, <2>8, GoOnCore
<1>7. CASE Fail(a)
  BY <1>1, <1>2, <1>3, <1>4, <1>5, <1>7, FailedLeave, LeaveCore
<1> QED
  BY <1>6, <1>7 DEF Reconcile

LEMMA StageCore ==
  ASSUME CatalogCore, NEW a \in Actor, Stage(a)
  PROVE  CatalogCore'
<1> USE DEF CatalogCore
<1>1. /\ Step(a, "stage", "write") /\ sess' = sess \cup {Staged(a, FALSE)}
      /\ UNCHANGED <<ws, wsDisk, sessDisk>> /\ UNCHANGED bounds
  BY DEF Stage, Staged
<1>2. {"stage", "write"} \subseteq StoreSteps \ {"find", "publish sync"} /\ "write" \in CatalogSteps
  BY DEF StoreSteps, CatalogSteps, UnderFlock
<1>3. pc[a] = "stage" /\ pc'[a] = "write" /\ req' = req
  BY <1>1, <1>2, StepEffect
<1>4. calls' = calls /\ req[a].kind = "create"
  BY <1>1, <1>2, <1>3, CountsKept DEF InItsCall
<1>5. ~Visible(Staged(a, FALSE)) /\ Staged(a, FALSE) \in Entries
  <2>1. req[a].terms \in Terms
    BY <1>4, CallShape DEF CatalogTypeOK, CreateCalls
  <2> QED
    BY <2>1, NamesApart DEF Staged, Visible, Entries
<1>6. \A e \in sess' : Visible(e) => e \in sess
  BY <1>1, <1>5
<1>7. OneEach'
  BY <1>1, <1>4, <1>6, VisibleKept DEF OneEach
<1>8. Unused(a)'
  BY <1>2, <1>3, <1>4, <1>6, UnusedKept
<1>9. StagedOne(a)'
  <2>1. {e \in sess' : ~Visible(e)} = {Staged(a, FALSE)}
    BY <1>1, <1>3, <1>5 DEF StagedOne
  <2> QED
    BY <1>3, <2>1 DEF StagedOne, Staged, Visible, Stagings
<1> QED
  BY <1>1, <1>2, <1>5, <1>6, <1>7, <1>8, <1>9, StoreStepCore DEF CatalogTypeOK

\* A create gives up and takes its staging directory back.
LEMMA DiscardCore ==
  ASSUME CatalogCore, NEW a \in Actor, Discard(a), Fail(a) \/ Disturbed(a),
         UNCHANGED bounds \/ Mishap, pc[a] \in {"write", "rename"}
  PROVE  CatalogCore'
<1> USE DEF CatalogCore
<1>1. /\ sess' \subseteq sess /\ sessDisk' = sess' /\ UNCHANGED <<ws, wsDisk>>
      /\ pc[a] \in UnderFlock
  BY DEF Discard, Unstaged, UnderFlock, StoreSteps
<1>2. CountsOK /\ calls' = calls
  BY CountsKept
<1>3. OneEach'
  BY <1>1, <1>2, VisibleKept
<1> QED
  BY <1>1, <1>2, <1>3, FailedLeave, LeaveCore DEF CatalogTypeOK

LEMMA WriteStagedCore ==
  ASSUME CatalogCore, NEW a \in Actor, WriteStaged(a)
  PROVE  CatalogCore'
<1> USE DEF CatalogCore
<1>1. CASE /\ Step(a, "write", "rename") /\ UNCHANGED <<ws, wsDisk, sessDisk>> /\ UNCHANGED bounds
           /\ sess' = Unstaged(a) \cup {[e EXCEPT !.whole = TRUE] : e \in Named(Staging(a))}
  <2>1. {"write", "rename"} \subseteq StoreSteps \ {"find", "publish sync"} /\ "rename" \in CatalogSteps
    BY DEF StoreSteps, CatalogSteps, UnderFlock
  <2>2. pc[a] = "write" /\ pc'[a] = "rename" /\ req' = req
    BY <1>1, <2>1, StepEffect
  <2>3. calls' = calls /\ req[a].kind = "create"
    BY <1>1, <2>1, <2>2, CountsKept DEF InItsCall
  <2>4. {e \in sess : ~Visible(e)} = {Staged(a, FALSE)}
    BY <2>2 DEF StagedOne
  <2>5. [Staged(a, FALSE) EXCEPT !.whole = TRUE] = Staged(a, TRUE)
    <3>1. req[a].terms \in Terms
      BY <2>3, CallShape DEF CatalogTypeOK, CreateCalls
    <3> QED
      BY <3>1, StagedAltered
  <2>6. sess' = {e \in sess : Visible(e)} \cup {Staged(a, TRUE)}
    BY <1>1, <2>4, <2>5, StagedAlone
  <2>7. ~Visible(Staged(a, TRUE)) /\ Staged(a, TRUE) \in Entries
    <3>1. req[a].terms \in Terms
      BY <2>3, CallShape DEF CatalogTypeOK, CreateCalls
    <3> QED
      BY <3>1, NamesApart DEF Staged, Visible, Entries
  <2>8. \A e \in sess' : Visible(e) => e \in sess
    BY <2>6, <2>7
  <2>9. OneEach'
    BY <1>1, <2>3, <2>6, <2>8, VisibleKept DEF OneEach
  <2>10. Unused(a)'
    BY <2>1, <2>2, <2>3, <2>8, UnusedKept
  <2>11. StagedOne(a)'
    <3>1. {e \in sess' : ~Visible(e)} = {Staged(a, TRUE)}
      BY <2>6, <2>7
    <3> QED
      BY <2>2, <3>1 DEF StagedOne, Staged, Visible, Stagings
  <2> QED
    BY <1>1, <2>1, <2>6, <2>7, <2>8, <2>9, <2>10, <2>11, StoreStepCore DEF CatalogTypeOK
<1>2. CASE pc[a] = "write" /\ Discard(a) /\ Fail(a) /\ Mishap
  BY <1>2, DiscardCore
<1> QED
  BY <1>1, <1>2 DEF WriteStaged

\* Nothing takes a staging directory or a name away before its rename.
LEMMA PublishFinds ==
  ASSUME CatalogCore, NEW a \in Actor, pc[a] = "rename"
  PROVE  /\ Named(req[a].id) = {} /\ Named(Staging(a)) = {Staged(a, TRUE)}
         /\ req[a] \in CreateCalls
<1>1. req[a].kind = "create"
  BY DEF CatalogCore, InItsCall, StoreSteps
<1>2. req[a] \in CreateCalls
  BY <1>1, CallShape DEF CatalogCore, CatalogTypeOK
<1>3. Named(req[a].id) = {}
  BY <1>1 DEF CatalogCore, Unused
<1>4. {e \in sess : ~Visible(e)} = {Staged(a, TRUE)}
  BY DEF CatalogCore, StagedOne
<1> QED
  BY <1>2, <1>3, <1>4, StagedAlone

LEMMA PublishRenames ==
  ASSUME CatalogCore, NEW a \in Actor, Publish(a)
  PROVE  /\ Step(a, "rename", "publish sync") /\ UNCHANGED <<ws, wsDisk, sessDisk>> /\ UNCHANGED bounds
         /\ sess' = {e \in sess : Visible(e)}
                    \cup {[name |-> req[a].id, terms |-> req[a].terms, whole |-> TRUE]}
<1>1. pc[a] = "rename" /\ UNCHANGED <<ws, wsDisk>> /\ UNCHANGED bounds
  BY DEF Publish
<1>2. Named(req[a].id) = {} /\ Named(Staging(a)) = {Staged(a, TRUE)} /\ req[a] \in CreateCalls
  BY <1>1, PublishFinds
<1>3. /\ Step(a, "rename", "publish sync") /\ UNCHANGED sessDisk
      /\ sess' = Unstaged(a) \cup {[e EXCEPT !.name = req[a].id] : e \in Named(Staging(a))}
  BY <1>2 DEF Publish
<1>4. Unstaged(a) = {e \in sess : Visible(e)}
  BY <1>1, StagedAlone DEF CatalogCore, StagedOne
<1>5. [Staged(a, TRUE) EXCEPT !.name = req[a].id]
      = [name |-> req[a].id, terms |-> req[a].terms, whole |-> TRUE]
  BY <1>2, StagedAltered DEF CreateCalls
<1>6. {[e EXCEPT !.name = req[a].id] : e \in Named(Staging(a))}
      = {[name |-> req[a].id, terms |-> req[a].terms, whole |-> TRUE]}
  BY <1>2, <1>5
<1> QED
  BY <1>1, <1>3, <1>4, <1>6

LEMMA PublishCore ==
  ASSUME CatalogCore, NEW a \in Actor, Publish(a)
  PROVE  CatalogCore'
<1> DEFINE new == [name |-> req[a].id, terms |-> req[a].terms, whole |-> TRUE]
<1>1. /\ Step(a, "rename", "publish sync") /\ UNCHANGED <<ws, wsDisk, sessDisk>> /\ UNCHANGED bounds
      /\ sess' = {e \in sess : Visible(e)} \cup {new}
  BY PublishRenames
<1>2. {"rename", "publish sync"} \subseteq StoreSteps \ {"find"} /\ "publish sync" \in CatalogSteps
  BY DEF StoreSteps, CatalogSteps, UnderFlock
<1>3. pc[a] = "rename" /\ pc'[a] = "publish sync" /\ req' = req
  BY <1>1, <1>2, StepEffect DEF CatalogCore
<1>4. Named(req[a].id) = {} /\ req[a] \in CreateCalls
  BY <1>3, PublishFinds
<1>5. calls' = calls /\ Unused(a)
  BY <1>1, CountsKept DEF CatalogCore
<1>6. new \in Entries /\ Visible(new) /\ new.whole
  BY <1>4, NamesApart DEF CreateCalls, Entries, Visible
<1>7. new.name \in Identity \cup Drawn
  BY <1>4, <1>5 DEF Unused, CreateCalls
<1>8. OneEach'
  <2>1. \A e \in sess' : Visible(e) /\ e.whole /\ e.name \in Identity \cup Drawn
    BY <1>1, <1>6, <1>7 DEF CatalogCore, OneEach
  <2>2. \A e \in sess : e.name # new.name
    BY <1>4 DEF Named, NamedIn
  <2>3. \A e, f \in sess' : e.name = f.name => e = f
    BY <1>1, <2>2 DEF CatalogCore, OneEach
  <2>4. \A e \in sessDisk' : Visible(e) => e \in sess'
    BY <1>1 DEF CatalogCore, OneEach
  <2> QED
    BY <2>1, <2>3, <2>4, <1>5 DEF OneEach, Drawn, Visible, Stagings
<1>9. Unused(a)'
  BY <1>3, <1>5 DEF Unused, Drawn
<1>10. StagedOne(a)'
  BY <1>1, <1>3, <1>6 DEF StagedOne, Visible, Stagings
<1>11. sess' \subseteq Entries /\ sessDisk' \subseteq Entries
  BY <1>1, <1>6 DEF CatalogCore, CatalogTypeOK
<1>12. \A e \in sess' : Visible(e) => e \in sess \/ e.name = req[a].id
  <2>1. new.name = req[a].id
    OBVIOUS
  <2> HIDE DEF new
  <2> QED
    BY <1>1, <2>1
<1> QED
  BY <1>1, <1>2, <1>8, <1>9, <1>10, <1>11, <1>12, StoreStepCore

LEMMA SyncPublishedCore ==
  ASSUME CatalogCore, NEW a \in Actor, SyncPublished(a)
  PROVE  CatalogCore'
<1> USE DEF CatalogCore
<1>1. pc[a] = "publish sync" /\ UNCHANGED <<ws, wsDisk, sess>> /\ sessDisk' \in {sess, sessDisk}
      /\ (UNCHANGED bounds \/ Mishap)
  BY DEF SyncPublished
<1>2. CountsOK /\ calls' = calls
  BY <1>1, CountsKept
<1>3. OneEach' /\ sess' \subseteq Entries /\ sessDisk' \subseteq Entries
  BY <1>1, <1>2, VisibleKept DEF OneEach, CatalogTypeOK
<1>4. CASE Acknowledge(a, "publisher")
  <2>1. req[a] \in CreateCalls
    BY <1>1, CallShape DEF InItsCall, StoreSteps, CatalogTypeOK
  <2>2. acked' \subseteq Returned /\ ready' = ready /\ disturbed' = disturbed /\ Leave(a)
    BY <1>4, <2>1 DEF Acknowledge, CatalogTypeOK, Returned, CreateCalls
  <2> QED
    BY <1>1, <1>2, <1>3, <2>2, LeaveCore DEF LaidForReady, CatalogTypeOK
<1>5. CASE Fail(a)
  BY <1>1, <1>2, <1>3, <1>5, FailedLeave, LeaveCore
<1> QED
  BY <1>4, <1>5 DEF SyncPublished

LEMMA CancelCallCore ==
  ASSUME CatalogCore, NEW a \in Actor, CancelCall(a)
  PROVE  CatalogCore'
<1>1. Fail(a) /\ Mishap
  BY DEF CancelCall
<1>2. CASE pc[a] = "identity"
  <2>1. DropTemp(a)
    BY <1>2 DEF CancelCall
  <2>2. ws \cap {WorkspaceFile, SessionsDirectory} \subseteq ws' /\ UNCHANGED <<sess, sessDisk>>
    BY <2>1, NamesApart DEF DropTemp
  <2>3. pc[a] \in UnderFlock
    BY <1>2 DEF UnderFlock, LayoutSteps
  <2> QED
    BY <1>1, <2>2, <2>3, FailedLeave, LayoutLeaveCore
<1>3. CASE pc[a] \in {"write", "rename"}
  <2>1. Discard(a)
    BY <1>3 DEF CancelCall
  <2> QED
    BY <1>1, <1>3, <2>1, DiscardCore
<1>4. CASE pc[a] \notin {"identity", "write", "rename"}
  <2>1. UNCHANGED <<ws, wsDisk, sess, sessDisk>>
    BY <1>4 DEF CancelCall, disks
  <2> QED
    BY <1>1, <2>1, FailedLeave, LayoutLeaveCore
<1> QED
  BY <1>2, <1>3, <1>4

\* A process dies, or all of them: what they held is let go and nothing else changes.
LEMMA DieEffect ==
  ASSUME CatalogCore, NEW dead \in SUBSET Proc, Die(dead)
  PROVE  /\ pc' \in [Actor -> CatalogSteps] /\ req' \in [Actor -> CatalogCalls]
         /\ seen' \in [Actor -> SUBSET SessionIds] /\ flock' \in Actor \cup {Nil}
         /\ FlockIsHeld' /\ ready' = ready \ dead
         /\ \A b \in Actor : Home[b] \notin dead => pc'[b] = pc[b] /\ req'[b] = req[b] /\ seen'[b] = seen[b]
         /\ \A b \in Actor : Home[b] \in dead => pc'[b] = "idle" /\ req'[b] = NoCall /\ seen'[b] = {}
<1>t. CatalogTypeOK /\ FlockIsHeld
  BY DEF CatalogCore
<1>1. "idle" \in CatalogSteps \ UnderFlock /\ NoCall \in CatalogCalls
  BY DEF CatalogSteps, CatalogCalls, UnderFlock, LayoutSteps, StoreSteps
<1>2. /\ pc' \in [Actor -> CatalogSteps]
      /\ \A b \in Actor : pc'[b] = IF Home[b] \in dead THEN "idle" ELSE pc[b]
  BY <1>1, <1>t DEF Die, CatalogTypeOK
<1>3. /\ req' \in [Actor -> CatalogCalls]
      /\ \A b \in Actor : req'[b] = IF Home[b] \in dead THEN NoCall ELSE req[b]
  BY <1>1, <1>t DEF Die, CatalogTypeOK
<1>4. /\ seen' \in [Actor -> SUBSET SessionIds]
      /\ \A b \in Actor : seen'[b] = IF Home[b] \in dead THEN {} ELSE seen[b]
  BY <1>t DEF Die, CatalogTypeOK
<1>5. flock' = IF flock # Nil /\ Home[flock] \in dead THEN Nil ELSE flock
  BY DEF Die
<1>6. FlockIsHeld' /\ flock' \in Actor \cup {Nil}
  BY <1>1, <1>2, <1>5, <1>t, CatalogAssumption DEF FlockIsHeld, CatalogTypeOK
<1> QED
  BY <1>2, <1>3, <1>4, <1>6 DEF Die

LEMMA KillCore ==
  ASSUME CatalogCore, NEW p \in Proc, Kill(p)
  PROVE  CatalogCore'
<1>1. Die({p}) /\ Mishap /\ UNCHANGED <<ws, wsDisk, sess, sessDisk>> /\ UNCHANGED told
  BY DEF Kill, disks
<1>2. /\ pc' \in [Actor -> CatalogSteps] /\ req' \in [Actor -> CatalogCalls]
      /\ seen' \in [Actor -> SUBSET SessionIds] /\ flock' \in Actor \cup {Nil}
      /\ FlockIsHeld' /\ ready' = ready \ {p}
      /\ \A b \in Actor : Home[b] # p => pc'[b] = pc[b] /\ req'[b] = req[b]
      /\ \A b \in Actor : Home[b] = p => pc'[b] = "idle" /\ req'[b] = NoCall
  BY <1>1, DieEffect
<1>3. CountsOK /\ calls' = calls
  BY <1>1, CountsKept DEF CatalogCore
<1>4. CatalogTypeOK'
  BY <1>1, <1>2, <1>3 DEF CatalogCore, CatalogTypeOK, CountsOK, told
<1>5. LaidForReady'
  BY <1>1, <1>2 DEF CatalogCore, LaidForReady
<1>6. OneEach'
  BY <1>1, <1>3, SessionsKept
<1>7. NoCall.kind = "none" /\ NoCall.id = Nil
  BY DEF NoCall, Call
<1>8. ASSUME NEW b \in Actor PROVE InItsCall(b)' /\ LaidFor(b)' /\ Unused(b)' /\ StagedOne(b)'
  <2>1. CASE Home[b] = p
    BY <1>2, <1>7, <2>1 DEF InItsCall, LaidFor, Unused, StagedOne, StoreSteps, ListSteps, LayoutSteps
  <2>2. CASE Home[b] # p
    <3>1. pc'[b] = pc[b] /\ req'[b] = req[b]
      BY <1>2, <2>2
    <3>2. InItsCall(b)'
      BY <1>2, <2>2, <3>1 DEF CatalogCore, InItsCall
    <3>3. LaidFor(b)' /\ StagedOne(b)'
      BY <1>1, <3>1 DEF CatalogCore, LaidFor, StagedOne, Staged
    <3>4. \A c \in Actor : req'[c] = req[c] \/ req'[c].id = Nil
      BY <1>2, <1>7
    <3>5. req[b].kind = "create" => req[b].id # Nil
      BY CallShape, NamesApart DEF CatalogCore, CatalogTypeOK, CreateCalls
    <3>6. Unused(b)'
      BY <1>1, <1>3, <3>1, <3>4, <3>5 DEF CatalogCore, Unused, Named, NamedIn, Drawn
    <3> QED
      BY <3>2, <3>3, <3>6
  <2> QED
    BY <2>1, <2>2
<1> QED
  BY <1>2, <1>4, <1>5, <1>6, <1>8 DEF CatalogCore

LEMMA PowerLossCore ==
  ASSUME CatalogCore, PowerLoss
  PROVE  CatalogCore'
<1>1. Die(Proc) /\ outages < MaxOutages /\ outages' = outages + 1 /\ UNCHANGED <<disturbed, calls, mishaps>>
      /\ sessDisk' = sess'
  BY DEF PowerLoss
<1>2. /\ pc' \in [Actor -> CatalogSteps] /\ req' \in [Actor -> CatalogCalls]
      /\ seen' \in [Actor -> SUBSET SessionIds] /\ flock' \in Actor \cup {Nil}
      /\ FlockIsHeld' /\ ready' = ready \ Proc
      /\ \A b \in Actor : Home[b] \in Proc => pc'[b] = "idle" /\ req'[b] = NoCall /\ seen'[b] = {}
  BY <1>1, DieEffect
<1>3. ready' = {} /\ \A b \in Actor : pc'[b] = "idle" /\ req'[b] = NoCall /\ seen'[b] = {}
  BY <1>2 DEF Proc, CatalogCore, CatalogTypeOK
<1>4. sess' \subseteq sess \cup sessDisk
  <2>1. \E kept \in Survivors(sessDisk \cap sess, sess \cup sessDisk) : sess' \in {kept, {}}
    BY DEF PowerLoss
  <2> QED
    BY <2>1 DEF Survivors
<1>5. acked' \subseteq acked
  BY DEF PowerLoss
<1>6. outages' \in 0..MaxOutages
  BY <1>1, CatalogAssumption DEF CatalogCore, CatalogTypeOK
<1>7. CatalogTypeOK'
  BY <1>1, <1>2, <1>3, <1>4, <1>5, <1>6 DEF CatalogCore, CatalogTypeOK
<1>8. OneEach'
  <2>1. \A e \in sess' : Visible(e) => e \in sess
    BY <1>4 DEF CatalogCore, OneEach
  <2> QED
    BY <1>1, <2>1, VisibleKept
<1>9. NoCall.kind = "none" /\ NoCall.id = Nil
  BY DEF NoCall, Call
<1>10. ASSUME NEW b \in Actor PROVE InItsCall(b)' /\ LaidFor(b)' /\ Unused(b)' /\ StagedOne(b)'
  BY <1>3, <1>9 DEF InItsCall, LaidFor, Unused, StagedOne, StoreSteps, ListSteps, LayoutSteps
<1> QED
  BY <1>2, <1>3, <1>7, <1>8, <1>10 DEF CatalogCore, LaidForReady

LEMMA CatalogInitCore == CatalogInit => CatalogCore
<1> SUFFICES ASSUME CatalogInit PROVE CatalogCore
  OBVIOUS
<1>1. NoCall.kind = "none" /\ NoCall \in CatalogCalls /\ "idle" \in CatalogSteps
  BY DEF NoCall, Call, CatalogCalls, CatalogSteps
<1>2. CatalogTypeOK
  <2>1. calls \in 0..MaxCalls /\ mishaps \in 0..MaxMishaps /\ outages \in 0..MaxOutages
    BY CatalogAssumption DEF CatalogInit
  <2>2. /\ pc \in [Actor -> CatalogSteps] /\ req \in [Actor -> CatalogCalls]
        /\ seen \in [Actor -> SUBSET SessionIds]
    BY <1>1 DEF CatalogInit
  <2> QED
    BY <2>1, <2>2 DEF CatalogInit, CatalogTypeOK
<1>3. FlockIsHeld /\ LaidForReady /\ OneEach
  BY CatalogAssumption DEF CatalogInit, FlockIsHeld, LaidForReady, OneEach, UnderFlock, LayoutSteps, StoreSteps
<1>4. \A a \in Actor : pc[a] = "idle" /\ req[a] = NoCall
  BY DEF CatalogInit
<1>5. \A a \in Actor : InItsCall(a) /\ LaidFor(a) /\ Unused(a) /\ StagedOne(a)
  BY <1>1, <1>4 DEF InItsCall, LaidFor, Unused, StagedOne, StoreSteps, ListSteps, LayoutSteps
<1> QED
  BY <1>2, <1>3, <1>5 DEF CatalogCore

LEMMA CatalogNextCore ==
  ASSUME CatalogCore, [CatalogNext]_cvars
  PROVE  CatalogCore'
<1>1. CASE UNCHANGED cvars
  <2>1. /\ UNCHANGED <<ws, wsDisk, sess, sessDisk, flock, ready, pc, req, seen>>
        /\ UNCHANGED <<acked, disturbed, calls, mishaps, outages>>
    BY <1>1 DEF cvars, disks, told, bounds
  <2>2. CatalogTypeOK' /\ FlockIsHeld' /\ LaidForReady'
    BY <2>1 DEF CatalogCore, CatalogTypeOK, FlockIsHeld, LaidForReady
  <2>3. OneEach'
    BY <2>1, SessionsKept
  <2>4. \A a \in Actor : InItsCall(a)' /\ LaidFor(a)' /\ Unused(a)' /\ StagedOne(a)'
    BY <2>1 DEF CatalogCore, InItsCall, LaidFor, Unused, StagedOne, Staged, Named, NamedIn, Drawn
  <2> QED
    BY <2>2, <2>3, <2>4 DEF CatalogCore
<1>2. ASSUME NEW a \in Actor, SyncSessions(a) \/ SyncControl(a) PROVE CatalogCore'
  BY <1>2, SyncWorkspaceCore DEF SyncSessions, SyncControl, LayoutSteps
<1> QED
  BY <1>1, <1>2, BeginCore, LockIdentityCore, TakeFlockCore, OpenIdentityCore, WriteIdentityCore,
     SyncIdentityCore, OpenSessionsCore, OpenControlCore, PublishControlCore, LaidCore, ReconcileCore,
     FindIdentityCore, ValidateLineageCore, StageCore, WriteStagedCore, PublishCore, SyncPublishedCore,
     CancelCallCore, AwaitCreatesCore, ListLayoutCore, ReadCatalogCore, KillCore, PowerLossCore
     DEF CatalogNext

\* Sessions become visible whole, in one rename, and stay so through deaths and power losses
\* (createStagedSession, reconcileStaging): what a list or a finder meets is never half made.
THEOREM NoHalfSessionAlways == CatalogSpec => []NoHalfSession
<1>1. CatalogCore => NoHalfSession
  BY DEF CatalogCore, OneEach, NoHalfSession
<1> QED
  BY <1>1, CatalogInitCore, CatalogNextCore, PTL DEF CatalogSpec

-----------------------------------------------------------------------------
(* What callers were told, as long as the sessions directory is not lost. *)

CatalogPromises == Delivered /\ Expected /\ ~disturbed

\* A step that takes no session away, returns nothing new and disturbs nobody.
LEMMA PromisesKept ==
  ASSUME CatalogInv, \A e \in sess : Visible(e) => e \in sess',
         \A e \in sessDisk : Visible(e) => e \in sessDisk',
         acked' = acked, disturbed' = disturbed, \A a \in Actor : seen'[a] \in {seen[a], {}},
         SessionsDirectory \in ws \cap wsDisk => SessionsDirectory \in ws' \cap wsDisk'
  PROVE  CatalogPromises'
<1>1. \A k \in acked : \E e \in sess :
         /\ e.name = k.id /\ e.terms = k.terms /\ Visible(e)
         /\ k.by = "publisher" => e \in sessDisk /\ (OutageFree \/ SessionsDirectory \in ws \cap wsDisk)
  BY NamesApart DEF CatalogInv, CatalogCore, CatalogTypeOK, Delivered, Returned, Visible
<1>2. Delivered'
  BY <1>1 DEF Delivered, OutageFree
<1>3. Expected'
  BY DEF CatalogInv, Expected
<1> QED
  BY <1>2, <1>3 DEF CatalogPromises, CatalogInv

\* What the actions of a call do to what was told.
LEMMA LeaveSeen ==
  ASSUME CatalogTypeOK, NEW a \in Actor, Leave(a)
  PROVE  \A b \in Actor : seen'[b] \in {seen[b], {}}
BY LeaveEffect DEF OthersStay

\* What every action of a call does to the workspace directory: it keeps a durable sessions
\* directory.
WorkspaceStays == SessionsDirectory \in ws \cap wsDisk => SessionsDirectory \in ws' \cap wsDisk'
\* And to the sessions: a visible one stays where it is, and durable where it was.
SessionsStay ==
    /\ \A e \in sess : Visible(e) => e \in sess'
    /\ \A e \in sessDisk : Visible(e) => e \in sessDisk'

LayoutAction(a) ==
    \/ OpenIdentity(a) \/ WriteIdentity(a) \/ SyncIdentity(a) \/ OpenSessions(a) \/ SyncSessions(a)
    \/ OpenControl(a) \/ PublishControl(a) \/ SyncControl(a) \/ ListLayout(a)
StoreAction(a) ==
    \/ Reconcile(a) \/ Stage(a) \/ WriteStaged(a) \/ Publish(a) \/ SyncPublished(a)
QuietAction(a) ==
    \/ Begin(a) \/ LockIdentity(a) \/ TakeFlock(a) \/ Laid(a) \/ FindIdentity(a) \/ ValidateLineage(a)
    \/ AwaitCreates(a) \/ ReadCatalog(a)

LEMMA LayoutStays ==
  ASSUME NEW a \in Actor, LayoutAction(a)
  PROVE  WorkspaceStays /\ UNCHANGED <<sess, sessDisk>>
<1> USE NamesApart DEF WorkspaceStays, disks
<1>1. ASSUME OpenIdentity(a) \/ ListLayout(a) PROVE WorkspaceStays /\ UNCHANGED <<sess, sessDisk>>
  BY <1>1 DEF OpenIdentity, ListLayout, Cleaned
<1>2. ASSUME WriteIdentity(a) PROVE WorkspaceStays /\ UNCHANGED <<sess, sessDisk>>
  BY <1>2 DEF WriteIdentity, DropTemp
<1>3. ASSUME SyncIdentity(a) \/ OpenSessions(a) PROVE WorkspaceStays /\ UNCHANGED <<sess, sessDisk>>
  BY <1>3 DEF SyncIdentity, OpenSessions
<1>4. ASSUME SyncSessions(a) \/ SyncControl(a) PROVE WorkspaceStays /\ UNCHANGED <<sess, sessDisk>>
  BY <1>4 DEF SyncSessions, SyncControl, SyncWorkspace
<1>5. ASSUME OpenControl(a) PROVE WorkspaceStays /\ UNCHANGED <<sess, sessDisk>>
  BY <1>5 DEF OpenControl
<1>6. ASSUME PublishControl(a) PROVE WorkspaceStays /\ UNCHANGED <<sess, sessDisk>>
  BY <1>6 DEF PublishControl
<1> QED
  BY <1>1, <1>2, <1>3, <1>4, <1>5, <1>6 DEF LayoutAction

LEMMA QuietStays ==
  ASSUME NEW a \in Actor, QuietAction(a)
  PROVE  UNCHANGED <<ws, wsDisk, sess, sessDisk>>
BY DEF QuietAction, Begin, LockIdentity, TakeFlock, Laid, FindIdentity, ValidateLineage, AwaitCreates, ReadCatalog, disks

LEMMA DiscardStays ==
  ASSUME CatalogCore, NEW a \in Actor, Discard(a)
  PROVE  UNCHANGED <<ws, wsDisk>> /\ SessionsStay
BY NamesApart DEF Discard, Unstaged, SessionsStay, CatalogCore, OneEach, Visible

LEMMA StoreStays ==
  ASSUME CatalogCore, NEW a \in Actor, StoreAction(a)
  PROVE  UNCHANGED <<ws, wsDisk>> /\ SessionsStay
<1>1. CASE Reconcile(a)
  BY <1>1 DEF Reconcile, SessionsStay, CatalogCore, OneEach
<1>2. CASE Stage(a)
  BY <1>2 DEF Stage, SessionsStay
<1>3. CASE WriteStaged(a)
  <2>1. \A e \in sess : Visible(e) => e \in Unstaged(a)
    BY NamesApart DEF Visible, Unstaged
  <2> QED
    BY <1>3, <2>1, DiscardStays DEF WriteStaged, SessionsStay
<1>4. CASE Publish(a)
  BY <1>4, PublishRenames DEF SessionsStay
<1>5. CASE SyncPublished(a)
  BY <1>5 DEF SyncPublished, SessionsStay, CatalogCore, OneEach
<1> QED
  BY <1>1, <1>2, <1>3, <1>4, <1>5 DEF StoreAction

LEMMA CancelStays ==
  ASSUME CatalogCore, NEW a \in Actor, CancelCall(a)
  PROVE  WorkspaceStays /\ SessionsStay
<1>1. CASE pc[a] = "identity"
  BY <1>1, NamesApart DEF CancelCall, DropTemp, WorkspaceStays, SessionsStay
<1>2. CASE pc[a] \in {"write", "rename"}
  BY <1>2, DiscardStays DEF CancelCall, WorkspaceStays
<1>3. CASE pc[a] \notin {"identity", "write", "rename"}
  BY <1>3 DEF CancelCall, disks, WorkspaceStays, SessionsStay
<1> QED
  BY <1>1, <1>2, <1>3

LEMMA DisksStay ==
  ASSUME CatalogCore, [CatalogNext]_cvars, ~PowerLoss
  PROVE  WorkspaceStays /\ SessionsStay
<1>1. CASE UNCHANGED cvars
  BY <1>1 DEF cvars, disks, WorkspaceStays, SessionsStay
<1>2. CASE \E p \in Proc : Kill(p)
  BY <1>2 DEF Kill, disks, WorkspaceStays, SessionsStay
<1>3. ASSUME NEW a \in Actor, LayoutAction(a) \/ QuietAction(a) \/ StoreAction(a) \/ CancelCall(a)
      PROVE  WorkspaceStays /\ SessionsStay
  BY <1>3, LayoutStays, QuietStays, StoreStays, CancelStays DEF WorkspaceStays, SessionsStay
<1> QED
  BY <1>1, <1>2, <1>3 DEF CatalogNext, LayoutAction, QuietAction, StoreAction

\* What was told changes only where a call returns a session, or would meet another's traces.
ToldStays == acked' = acked /\ disturbed' = disturbed /\ \A b \in Actor : seen'[b] \in {seen[b], {}}

LEMMA StepTells ==
  ASSUME CatalogTypeOK, NEW a \in Actor, NEW from, NEW to, Step(a, from, to)
  PROVE  ToldStays
BY DEF Step, told, ToldStays

LEMMA FailTells ==
  ASSUME CatalogTypeOK, NEW a \in Actor, Fail(a)
  PROVE  ToldStays
BY LeaveSeen DEF Fail, told, ToldStays

LEMMA LayoutTells ==
  ASSUME CatalogCore, NEW a \in Actor, LayoutAction(a)
  PROVE  ToldStays
<1> USE StepTells, FailTells DEF CatalogCore
<1>1. CASE OpenIdentity(a) \/ ListLayout(a) \/ SyncIdentity(a) \/ OpenSessions(a) \/ OpenControl(a)
  BY <1>1 DEF OpenIdentity, ListLayout, SyncIdentity, OpenSessions, OpenControl
<1>2. CASE WriteIdentity(a)
  <2>1. Temp(a) \in ws
    BY <1>2 DEF WriteIdentity, LaidFor
  <2> QED
    BY <1>2, <2>1 DEF WriteIdentity
<1>3. CASE SyncSessions(a) \/ SyncControl(a) \/ PublishControl(a)
  BY <1>3 DEF SyncSessions, SyncControl, SyncWorkspace, PublishControl
<1> QED
  BY <1>1, <1>2, <1>3 DEF LayoutAction

\* A list finds what had been returned before it began, and whole sessions only.
LEMMA ListFinds ==
  ASSUME CatalogInv, NEW a \in Actor
  PROVE  LET listed == {e \in sess : Visible(e)}
         IN  seen[a] \subseteq {e.name : e \in listed} /\ \A e \in listed : Readable(e)
<1>1. \A k \in acked : \E e \in sess : e.name = k.id /\ Visible(e)
  BY NamesApart DEF CatalogInv, CatalogCore, CatalogTypeOK, Delivered, Returned, Visible
<1>2. seen[a] \subseteq {k.id : k \in acked}
  BY DEF CatalogInv, Expected
<1> QED
  BY <1>1, <1>2 DEF CatalogInv, CatalogCore, OneEach, Readable

LEMMA QuietTells ==
  ASSUME CatalogInv, NEW a \in Actor, QuietAction(a), ~Begin(a)
  PROVE  \/ ToldStays
         \/ /\ pc[a] = "find" /\ Acknowledge(a, "finder")
            /\ \E e \in Named(req[a].id) : e.terms = req[a].terms
<1> USE StepTells, FailTells
<1>t. CatalogTypeOK
  BY DEF CatalogInv, CatalogCore
<1>1. CASE LockIdentity(a) \/ AwaitCreates(a) \/ ValidateLineage(a)
  BY <1>1, <1>t DEF LockIdentity, AwaitCreates, ValidateLineage
<1>2. CASE TakeFlock(a)
  BY <1>2 DEF TakeFlock, told, ToldStays
<1>3. CASE Laid(a)
  BY <1>3, <1>t, LeaveSeen DEF Laid, told, ToldStays
<1>4. CASE FindIdentity(a)
  BY <1>4, <1>t DEF FindIdentity
<1>5. CASE ReadCatalog(a)
  BY <1>5, <1>t, ListFinds, LeaveSeen DEF ReadCatalog, told, ToldStays
<1> QED
  BY <1>1, <1>2, <1>3, <1>4, <1>5 DEF QuietAction

LEMMA StoreTells ==
  ASSUME CatalogCore, NEW a \in Actor, StoreAction(a) \/ CancelCall(a)
  PROVE  ToldStays \/ (SyncPublished(a) /\ Acknowledge(a, "publisher") /\ sessDisk' = sess)
<1> USE StepTells, FailTells
<1>t. CatalogTypeOK
  BY DEF CatalogCore
<1>1. CASE Reconcile(a) \/ Stage(a) \/ WriteStaged(a) \/ CancelCall(a)
  BY <1>1, <1>t DEF Reconcile, Stage, WriteStaged, CancelCall
<1>2. CASE Publish(a)
  BY <1>2, <1>t, PublishRenames
<1>3. CASE SyncPublished(a)
  BY <1>3, <1>t DEF SyncPublished
<1> QED
  BY <1>1, <1>2, <1>3 DEF StoreAction

\* A create returns a session: the one it renamed and synchronised, or the one it found.
LEMMA AcknowledgePromises ==
  ASSUME CatalogInv, NEW a \in Actor, NEW by \in {"publisher", "finder"}, Acknowledge(a, by),
         WorkspaceStays, SessionsStay, req[a] \in CreateCalls,
         \E e \in sess : /\ e.name = req[a].id /\ e.terms = req[a].terms
                         /\ by = "publisher" =>
                              e \in sessDisk' /\ (OutageFree \/ SessionsDirectory \in ws' \cap wsDisk')
  PROVE  CatalogPromises'
<1> DEFINE new == [id |-> req[a].id, terms |-> req[a].terms, by |-> by]
<1>1. acked' = acked \cup {new} /\ disturbed' = disturbed
  BY DEF Acknowledge
<1>2. \A b \in Actor : seen'[b] \in {seen[b], {}}
  BY LeaveSeen DEF Acknowledge, CatalogInv, CatalogCore
<1>3. Expected' /\ ~disturbed'
  BY <1>1, <1>2 DEF CatalogInv, Expected
<1>4. new.id = req[a].id /\ new.terms = req[a].terms /\ new.by = by
  OBVIOUS
<1> HIDE DEF new
<1>5. ASSUME NEW k \in acked
      PROVE  \E e \in sess' : /\ e.name = k.id /\ e.terms = k.terms
                              /\ k.by = "publisher" =>
                                   e \in sessDisk' /\ (OutageFree \/ SessionsDirectory \in ws' \cap wsDisk')
  <2>1. PICK e \in sess : /\ e.name = k.id /\ e.terms = k.terms
                          /\ k.by = "publisher" =>
                               e \in sessDisk /\ (OutageFree \/ SessionsDirectory \in ws \cap wsDisk)
    BY DEF CatalogInv, Delivered
  <2>2. Visible(e)
    BY <2>1, NamesApart DEF CatalogInv, CatalogCore, CatalogTypeOK, Returned, Visible
  <2> QED
    BY <2>1, <2>2 DEF SessionsStay, WorkspaceStays
<1>6. \E e \in sess' : /\ e.name = new.id /\ e.terms = new.terms
                       /\ new.by = "publisher" =>
                            e \in sessDisk' /\ (OutageFree \/ SessionsDirectory \in ws' \cap wsDisk')
  <2>1. PICK e \in sess : /\ e.name = req[a].id /\ e.terms = req[a].terms
                          /\ by = "publisher" =>
                               e \in sessDisk' /\ (OutageFree \/ SessionsDirectory \in ws' \cap wsDisk')
    OBVIOUS
  <2>2. Visible(e)
    BY <2>1, NamesApart DEF Visible, CreateCalls
  <2> QED
    BY <2>1, <2>2, <1>4 DEF SessionsStay
<1>7. Delivered'
  BY <1>1, <1>5, <1>6 DEF Delivered, OutageFree
<1> QED
  BY <1>3, <1>7 DEF CatalogPromises

LEMMA BeginPromises ==
  ASSUME CatalogInv, NEW a \in Actor, Begin(a)
  PROVE  CatalogPromises'
<1>1. UNCHANGED <<ws, wsDisk, sess, sessDisk>> /\ acked' = acked /\ disturbed' = disturbed
  BY DEF Begin, disks, told
<1>2. Delivered' /\ ~disturbed'
  BY <1>1 DEF CatalogInv, Delivered, OutageFree
<1>3. \A b \in Actor : seen'[b] \in {seen[b], {}, {k.id : k \in acked}}
  BY DEF Begin, CatalogInv, CatalogCore, CatalogTypeOK
<1>4. Expected'
  BY <1>1, <1>3 DEF CatalogInv, Expected
<1> QED
  BY <1>2, <1>4 DEF CatalogPromises

LEMMA KillPromises ==
  ASSUME CatalogInv, NEW p \in Proc, Kill(p)
  PROVE  ToldStays
<1>1. Die({p}) /\ UNCHANGED told
  BY DEF Kill
<1> QED
  BY <1>1, DieEffect DEF CatalogInv, ToldStays, told

\* After a power loss what its creator returned is there, and what a finder was told and is
\* lost is forgotten with the process.
LEMMA PowerLossPromises ==
  ASSUME CatalogInv, PowerLoss
  PROVE  CatalogPromises'
<1>1. /\ disturbed' = disturbed /\ sessDisk' = sess' /\ wsDisk' = ws' /\ wsDisk \cap ws \subseteq ws'
      /\ acked' = {k \in acked : k.by = "publisher" \/ \E e \in sess' : e.name = k.id}
      /\ outages < MaxOutages
  BY DEF PowerLoss, Survivors
<1>2. SessionsDirectory \in ws' => sess \cap sessDisk \subseteq sess'
  BY DEF PowerLoss, Survivors
<1>3. sess' \subseteq sess \cup sessDisk
  <2>1. \E kept \in Survivors(sessDisk \cap sess, sess \cup sessDisk) : sess' \in {kept, {}}
    BY DEF PowerLoss
  <2> QED
    BY <2>1 DEF Survivors
<1>4. ~OutageFree
  BY <1>1, CatalogAssumption DEF OutageFree, CatalogInv, CatalogCore, CatalogTypeOK
<1>5. ASSUME NEW k \in acked'
      PROVE  \E e \in sess' : /\ e.name = k.id /\ e.terms = k.terms
                              /\ k.by = "publisher" =>
                                   e \in sessDisk' /\ (OutageFree \/ SessionsDirectory \in ws' \cap wsDisk')
  <2>1. PICK e \in sess : /\ e.name = k.id /\ e.terms = k.terms
                          /\ k.by = "publisher" =>
                               e \in sessDisk /\ (OutageFree \/ SessionsDirectory \in ws \cap wsDisk)
    BY <1>1 DEF CatalogInv, Delivered
  <2>2. Visible(e)
    BY <1>1, <2>1, NamesApart DEF CatalogInv, CatalogCore, CatalogTypeOK, Returned, Visible
  <2>3. CASE k.by = "publisher"
    BY <1>1, <1>2, <1>4, <2>1, <2>3
  <2>4. CASE k.by # "publisher"
    <3>1. PICK f \in sess' : f.name = k.id
      BY <1>1, <2>4
    <3>2. f \in sess
      BY <1>3, <2>1, <2>2, <3>1 DEF CatalogInv, CatalogCore, OneEach, Visible
    <3>3. f = e
      BY <2>1, <2>2, <3>1, <3>2 DEF CatalogInv, CatalogCore, OneEach
    <3> QED
      BY <2>1, <2>4, <3>1, <3>3
  <2> QED
    BY <2>3, <2>4
<1>6. Delivered'
  BY <1>5 DEF Delivered, OutageFree
<1>7. \A b \in Actor : seen'[b] = {}
  BY DEF PowerLoss, Die, Proc
<1>8. Expected' /\ ~disturbed'
  BY <1>1, <1>7 DEF CatalogInv, Expected
<1> QED
  BY <1>6, <1>8 DEF CatalogPromises

LEMMA CatalogNextInv ==
  ASSUME CatalogInv, NothingLost, [CatalogNext]_cvars
  PROVE  CatalogInv'
<1>c. CatalogCore /\ CatalogCore'
  BY CatalogNextCore DEF CatalogInv
<1>1. CASE PowerLoss
  BY <1>1, <1>c, PowerLossPromises DEF CatalogInv, CatalogPromises
<1>2. CASE ~PowerLoss
  <2> SUFFICES CatalogPromises'
    BY <1>c DEF CatalogInv, CatalogPromises
  <2>1. WorkspaceStays /\ SessionsStay
    BY <1>2, <1>c, DisksStay
  <2>2. ToldStays => CatalogPromises'
    BY <2>1, PromisesKept DEF ToldStays, WorkspaceStays, SessionsStay
  <2>3. ASSUME NEW a \in Actor, pc[a] = "find", Acknowledge(a, "finder"),
               \E e \in Named(req[a].id) : e.terms = req[a].terms
        PROVE  CatalogPromises'
    <3>1. req[a] \in CreateCalls
      BY <2>3, <1>c, CallShape DEF CatalogCore, CatalogTypeOK, InItsCall, StoreSteps
    <3>2. \E e \in sess : e.name = req[a].id /\ e.terms = req[a].terms
      BY <2>3 DEF Named, NamedIn
    <3> QED
      BY <2>1, <2>3, <3>1, <3>2, AcknowledgePromises
  <2>4. ASSUME NEW a \in Actor, SyncPublished(a), Acknowledge(a, "publisher"), sessDisk' = sess
        PROVE  CatalogPromises'
    <3>1. pc[a] = "publish sync" /\ UNCHANGED <<ws, wsDisk>>
      BY <2>4 DEF SyncPublished
    <3>2. req[a] \in CreateCalls /\ Home[a] \in ready
      BY <3>1, <1>c, CallShape DEF CatalogCore, CatalogTypeOK, InItsCall, StoreSteps, CreateCalls
    <3>3. OutageFree \/ SessionsDirectory \in ws' \cap wsDisk'
      BY <1>c, <3>1, <3>2 DEF NothingLost, LayoutIsDurable, CatalogCore, LaidForReady
    <3>4. [name |-> req[a].id, terms |-> req[a].terms, whole |-> TRUE] \in sess
      BY <3>1, <1>c DEF CatalogCore, StagedOne
    <3>5. \E e \in sess : e.name = req[a].id /\ e.terms = req[a].terms
      BY <3>4
    <3> QED
      BY <2>1, <2>4, <3>2, <3>3, <3>5, AcknowledgePromises
  <2>5. ASSUME NEW a \in Actor, QuietAction(a) PROVE CatalogPromises'
    BY <2>2, <2>3, <2>5, BeginPromises, QuietTells
  <2>6. ASSUME NEW a \in Actor, LayoutAction(a) PROVE CatalogPromises'
    BY <2>2, <2>6, <1>c, LayoutTells
  <2>7. ASSUME NEW a \in Actor, StoreAction(a) \/ CancelCall(a) PROVE CatalogPromises'
    BY <2>2, <2>4, <2>7, <1>c, StoreTells
  <2>8. ASSUME NEW p \in Proc, Kill(p) PROVE CatalogPromises'
    BY <2>2, <2>8, KillPromises
  <2>9. CASE UNCHANGED cvars
    <3>1. acked' = acked /\ disturbed' = disturbed /\ seen' = seen
      BY <2>9 DEF cvars, told
    <3> QED
      BY <2>2, <3>1 DEF ToldStays
  <2>10. CASE CatalogNext
    <3>1. CASE \E p \in Proc : Kill(p)
      BY <3>1, <2>8
    <3>2. CASE \E a \in Actor : LayoutAction(a) \/ QuietAction(a) \/ StoreAction(a) \/ CancelCall(a)
      BY <3>2, <2>5, <2>6, <2>7
    <3> QED
      BY <1>2, <2>10, <3>1, <3>2 DEF CatalogNext, LayoutAction, QuietAction, StoreAction
  <2> QED
    BY <2>9, <2>10
<1> QED
  BY <1>1, <1>2

LEMMA CatalogInitInv == CatalogInit => CatalogInv
BY CatalogInitCore DEF CatalogInv, CatalogInit, Delivered, Expected

\* As long as a process is only ready once the sessions directory is durable, or no power
\* fails: an identity is one session to all who were told of it (CreateWithIdentity).
THEOREM OneSessionPerIdentityAlways == CatalogSpec /\ []NothingLost => []OneSessionPerIdentity
<1>1. ASSUME CatalogInv PROVE OneSessionPerIdentity
  <2> SUFFICES ASSUME NEW k \in acked, NEW other \in acked
               PROVE  /\ k.id = other.id => k.terms = other.terms
                      /\ \A e \in Named(k.id) : e.terms = k.terms
    BY DEF OneSessionPerIdentity
  <2>1. \A l \in acked : l.id \notin Stagings
    BY <1>1, NamesApart DEF CatalogInv, CatalogCore, CatalogTypeOK, Returned
  <2>2. \A l \in acked : \E e \in sess : e.name = l.id /\ e.terms = l.terms
    BY <1>1 DEF CatalogInv, Delivered
  <2>3. \A e, f \in sess : e.name \notin Stagings /\ e.name = f.name => e = f
    BY <1>1 DEF CatalogInv, CatalogCore, OneEach, Visible
  <2> QED
    BY <2>1, <2>2, <2>3 DEF Named, NamedIn
<1> QED
  BY <1>1, CatalogInitInv, CatalogNextInv, PTL DEF CatalogSpec

\* Under the same condition no call fails or misses a session because of what another one
\* did, whatever steps of theirs come between (create, openWorkspaceLayout, List).
THEOREM CallsDoNotDisturbAlways == CatalogSpec /\ []NothingLost => []CallsDoNotDisturb
<1>1. CatalogInv => CallsDoNotDisturb
  BY DEF CatalogInv, CallsDoNotDisturb
<1> QED
  BY <1>1, CatalogInitInv, CatalogNextInv, PTL DEF CatalogSpec

-----------------------------------------------------------------------------
(* One mishap cannot leave a process ready on a directory that nobody synchronised. *)

\* What each action does to the durable entries that count here.
LEMMA SyncInit == CatalogInit => OneSync
BY NamesApart DEF CatalogInit, OneSync, LayoutIsDurable

SyncShape == CatalogCore /\ OneSync

LEMMA CountedFurther ==
  ASSUME NEW n \in Nat
  PROVE  \A m \in 0..n : m + 1 # 0
OBVIOUS

LEMMA OneSyncPowerLoss ==
  ASSUME SyncShape, PowerLoss
  PROVE  OneSync'
<1>1. wsDisk' = ws' /\ wsDisk \cap ws \subseteq ws' /\ ws' \subseteq ws \cup wsDisk /\ mishaps' = mishaps
  BY DEF PowerLoss, Survivors
<1>2. ready' = {} /\ \A a \in Actor : pc'[a] = "idle"
  BY DEF PowerLoss, Die, Proc, SyncShape, CatalogCore, CatalogTypeOK
<1> QED
  BY <1>1, <1>2 DEF SyncShape, OneSync, LayoutIsDurable

LEMMA OneSyncKill ==
  ASSUME SyncShape, MaxMishaps <= 1, NEW p \in Proc, Kill(p)
  PROVE  OneSync'
<1>1. UNCHANGED <<ws, wsDisk>> /\ mishaps = 0 /\ mishaps' = 1
  BY CatalogAssumption DEF Kill, disks, Mishap, SyncShape, CatalogCore, CatalogTypeOK
<1>2. Die({p})
  BY DEF Kill
<1>3. ready' \subseteq ready /\ \A a \in Actor : pc'[a] \in {pc[a], "idle"}
  BY <1>2, DieEffect DEF SyncShape
<1>4. SessionsDirectory \in ws \ wsDisk => ControlDirectory \notin ws
  BY <1>1 DEF SyncShape, OneSync
<1>5. mishaps' # 0 /\ ws' = ws /\ wsDisk' = wsDisk
  BY <1>1
<1>6. \A a \in Actor : pc'[a] = "laid" => pc[a] = "laid"
  BY <1>3
<1> QED
  BY <1>3, <1>4, <1>5, <1>6 DEF SyncShape, OneSync, LayoutIsDurable

\* A call that fails is the one mishap, and leaves the workspace directory or synchronises it.
LEMMA OneSyncFail ==
  ASSUME SyncShape, MaxMishaps <= 1, NEW a \in Actor, Fail(a), Mishap,
         \/ UNCHANGED <<ws, wsDisk>>
         \/ /\ {SessionsDirectory, ControlDirectory} \cap ws' = {SessionsDirectory, ControlDirectory} \cap ws
            /\ wsDisk' = ws'
  PROVE  OneSync'
<1>1. mishaps = 0 /\ mishaps' = 1
  BY CatalogAssumption DEF Mishap, SyncShape, CatalogCore, CatalogTypeOK
<1>2. ready' = ready /\ pc'[a] = "idle" /\ \A b \in Actor \ {a} : pc'[b] = pc[b]
  BY LeaveEffect DEF Fail, SyncShape, CatalogCore, OthersStay
<1>3. SessionsDirectory \in ws \ wsDisk => ControlDirectory \notin ws
  BY <1>1 DEF SyncShape, OneSync
<1>4. SessionsDirectory \in wsDisk => SessionsDirectory \in wsDisk'
  BY DEF SyncShape, OneSync
<1>5. mishaps' # 0
  BY <1>1
<1>6. \A b \in Actor : pc'[b] = "laid" => pc[b] = "laid"
  BY <1>2
<1>7. SessionsDirectory \in ws' \ wsDisk' => ControlDirectory \notin ws'
  BY <1>3
<1>8. SessionsDirectory \in wsDisk' => SessionsDirectory \in ws'
  BY DEF SyncShape, OneSync
<1> QED
  BY <1>2, <1>4, <1>5, <1>6, <1>7, <1>8 DEF SyncShape, OneSync, LayoutIsDurable

\* A step of a call that leaves the entries that count here, or synchronises them.
LEMMA OneSyncStep ==
  ASSUME SyncShape, NEW a \in Actor, OthersStay(a), ready' = ready, mishaps' = mishaps \/ mishaps' = mishaps + 1,
         {SessionsDirectory, ControlDirectory} \cap ws' = {SessionsDirectory, ControlDirectory} \cap ws,
         \/ wsDisk' = wsDisk
         \/ {SessionsDirectory, ControlDirectory} \cap wsDisk' = {SessionsDirectory, ControlDirectory} \cap ws,
         pc'[a] \in {"control", "control rename", "control sync"} =>
            pc[a] \in {"control", "control rename", "control sync"} 
            \/ SessionsDirectory \in wsDisk' \/ mishaps' # 0,
         pc[a] \notin {"sessions sync", "control sync"} \/ SessionsDirectory \in wsDisk',
         pc'[a] = "laid" => SessionsDirectory \in wsDisk'
  PROVE  OneSync'
<1>1. mishaps' = 0 => mishaps = 0
  <2>1. MaxMishaps \in Nat /\ mishaps \in 0..MaxMishaps
    BY CatalogAssumption DEF SyncShape, CatalogCore, CatalogTypeOK
  <2> QED
    BY <2>1, CountedFurther
<1>2. SessionsDirectory \in wsDisk => SessionsDirectory \in wsDisk'
  BY DEF SyncShape, OneSync
<1>3. SessionsDirectory \in wsDisk' => SessionsDirectory \in ws'
  BY DEF SyncShape, OneSync
<1>4. ControlDirectory \in ws' \cup wsDisk' => ControlDirectory \in ws \cup wsDisk
  OBVIOUS
<1>5. \A b \in Actor \ {a} : pc'[b] = pc[b]
  BY DEF OthersStay
<1>6. ASSUME SessionsDirectory \in ws' \ wsDisk', ControlDirectory \in ws' \/ mishaps' = 0
      PROVE  \E b \in Actor : pc'[b] \in {"sessions sync", "control sync"}
  <2>1. SessionsDirectory \in ws \ wsDisk /\ (ControlDirectory \in ws \/ mishaps = 0)
    BY <1>1, <1>2, <1>6
  <2>2. PICK b \in Actor : pc[b] \in {"sessions sync", "control sync"}
    BY <2>1 DEF SyncShape, OneSync
  <2>3. b # a
    BY <1>6, <2>2
  <2> QED
    BY <1>5, <2>2, <2>3
<1> QED
  BY <1>1, <1>2, <1>3, <1>4, <1>5, <1>6 DEF SyncShape, OneSync, LayoutIsDurable

LEMMA OneSyncLayout ==
  ASSUME SyncShape, MaxMishaps <= 1, NEW a \in Actor, LayoutAction(a)
  PROVE  OneSync'
<1>t. CatalogTypeOK /\ LaidFor(a) /\ FlockIsHeld
  BY DEF SyncShape, CatalogCore
<1>p. {"layout", "identity", "identity sync", "sessions", "sessions sync", "control", "control rename",
       "control sync", "laid", "list layout", "list read"} \subseteq CatalogSteps
  BY DEF CatalogSteps, UnderFlock, LayoutSteps, ListSteps
<1>n. {WorkspaceFile, SessionsDirectory, ControlDirectory} \cap (Temps \cup ControlStagings) = {}
      /\ WorkspaceFile # SessionsDirectory /\ WorkspaceFile # ControlDirectory
      /\ SessionsDirectory # ControlDirectory /\ Temp(a) \in Temps /\ ControlStaging(a) \in ControlStagings
  BY NamesApart
<1>m. mishaps \in Nat
  BY <1>t, CatalogAssumption DEF CatalogTypeOK
<1>1. CASE OpenIdentity(a) \/ ListLayout(a)
  <2>1. PICK from \in {"layout", "list layout"}, to \in {"sessions", "identity", "list read"} :
          Step(a, from, to) /\ UNCHANGED bounds
    BY <1>1 DEF OpenIdentity, ListLayout
  <2>2. /\ pc[a] = from /\ pc'[a] = to /\ OthersStay(a) /\ ready' = ready /\ mishaps' = mishaps
    BY <2>1, <1>t, <1>p, StepEffect DEF bounds
  <2>3. {SessionsDirectory, ControlDirectory} \cap ws' = {SessionsDirectory, ControlDirectory} \cap ws
    BY <1>1, <1>n DEF OpenIdentity, ListLayout, Cleaned
  <2>4. \/ wsDisk' = wsDisk
        \/ {SessionsDirectory, ControlDirectory} \cap wsDisk' = {SessionsDirectory, ControlDirectory} \cap ws
    BY <1>1, <1>n DEF OpenIdentity, ListLayout, Cleaned
  <2> QED
    BY <2>2, <2>3, <2>4, OneSyncStep
<1>2. CASE WriteIdentity(a)
  <2>1. Temp(a) \in ws
    BY <1>2, <1>t DEF WriteIdentity, LaidFor
  <2>2. CASE /\ Step(a, "identity", "identity sync") /\ UNCHANGED wsDisk /\ UNCHANGED bounds
             /\ ws' = (ws \ {Temp(a)}) \cup {WorkspaceFile}
    <3>1. pc[a] = "identity" /\ pc'[a] = "identity sync" /\ OthersStay(a) /\ ready' = ready /\ mishaps' = mishaps
      BY <2>2, <1>t, <1>p, StepEffect DEF bounds
    <3>2. {SessionsDirectory, ControlDirectory} \cap ws' = {SessionsDirectory, ControlDirectory} \cap ws
      BY <2>2, <1>n
    <3> QED
      BY <2>2, <3>1, <3>2, OneSyncStep
  <2>3. CASE DropTemp(a) /\ Fail(a) /\ Mishap
    <3>1. {SessionsDirectory, ControlDirectory} \cap ws' = {SessionsDirectory, ControlDirectory} \cap ws
          /\ wsDisk' = ws'
      BY <2>3, <1>n DEF DropTemp
    <3> QED
      BY <2>3, <3>1, OneSyncFail
  <2> QED
    BY <1>2, <2>1, <2>2, <2>3 DEF WriteIdentity
<1>3. CASE SyncIdentity(a)
  <2>1. /\ Step(a, "identity sync", "sessions") /\ UNCHANGED ws /\ wsDisk' \in {ws, wsDisk}
        /\ mishaps' = mishaps \/ mishaps' = mishaps + 1
    BY <1>3 DEF SyncIdentity, bounds, Mishap
  <2>2. pc[a] = "identity sync" /\ pc'[a] = "sessions" /\ OthersStay(a) /\ ready' = ready
    BY <2>1, <1>t, <1>p, StepEffect
  <2> QED
    BY <2>1, <2>2, OneSyncStep
<1>4. CASE OpenSessions(a)
  <2>1. \A b \in Actor : pc[a] = "sessions" => pc[b] \notin {"sessions sync", "control sync"}
    BY <1>t DEF FlockIsHeld, UnderFlock, LayoutSteps
  <2>2. CASE SessionsDirectory \in ws /\ Step(a, "sessions", "control") /\ UNCHANGED <<ws, wsDisk>> /\ UNCHANGED bounds
    <3>1. /\ pc[a] = "sessions" /\ pc'[a] = "control" /\ OthersStay(a) /\ ready' = ready /\ mishaps' = mishaps
      BY <2>2, <1>t, <1>p, StepEffect DEF bounds
    <3>2. mishaps = 0 => SessionsDirectory \in wsDisk
      BY <2>1, <2>2, <3>1 DEF SyncShape, OneSync
    <3> QED
      BY <2>2, <3>1, <3>2, OneSyncStep
  <2>3. CASE /\ SessionsDirectory \notin ws /\ Step(a, "sessions", "sessions sync") /\ UNCHANGED bounds
             /\ ws' = ws \cup {SessionsDirectory} /\ UNCHANGED wsDisk
    <3>1. /\ pc[a] = "sessions" /\ pc'[a] = "sessions sync" /\ OthersStay(a) /\ ready' = ready /\ mishaps' = mishaps
      BY <2>3, <1>t, <1>p, StepEffect DEF bounds
    <3>2. SessionsDirectory \notin wsDisk
      BY <2>3 DEF SyncShape, OneSync
    <3>3. ready = {} /\ \A b \in Actor : pc'[b] # "laid"
      BY <2>3, <3>1, <3>2 DEF SyncShape, OneSync, LayoutIsDurable, OthersStay
    <3>4. mishaps = 0 => ControlDirectory \notin ws \cup wsDisk
      BY <3>2 DEF SyncShape, OneSync
    <3>5. \A b \in Actor : pc'[b] \in {"control", "control rename", "control sync"} => mishaps' # 0
      BY <3>1, <3>2 DEF SyncShape, OneSync, OthersStay
    <3> QED
      BY <2>3, <3>1, <3>2, <3>3, <3>4, <3>5, <1>n DEF OneSync, LayoutIsDurable
  <2> QED
    BY <1>4, <2>2, <2>3 DEF OpenSessions, disks
<1>5. ASSUME NEW at \in {"sessions sync", "control sync"}, NEW next \in {"control", "laid"},
             SyncWorkspace(a, at, next)
      PROVE  OneSync'
  <2>1. CASE Step(a, at, next) /\ wsDisk' = ws /\ UNCHANGED ws /\ UNCHANGED bounds
    <3>1. pc[a] = at /\ pc'[a] = next /\ OthersStay(a) /\ ready' = ready /\ mishaps' = mishaps
      BY <2>1, <1>t, <1>p, StepEffect DEF bounds
    <3>2. SessionsDirectory \in ws
      BY <3>1, <1>t DEF LaidFor, LayoutSteps
    <3> QED
      BY <2>1, <3>1, <3>2, OneSyncStep
  <2>2. CASE Fail(a) /\ Mishap /\ UNCHANGED disks
    BY <2>2, OneSyncFail DEF disks
  <2> QED
    BY <1>5, <2>1, <2>2 DEF SyncWorkspace
<1>6. CASE OpenControl(a)
  <2>1. \A b \in Actor : pc[a] = "control" => pc[b] \notin {"sessions sync", "control sync"}
    BY <1>t DEF FlockIsHeld, UnderFlock, LayoutSteps
  <2>2. CASE ControlDirectory \in ws /\ Step(a, "control", "laid") /\ UNCHANGED <<ws, wsDisk>> /\ UNCHANGED bounds
    <3>1. /\ pc[a] = "control" /\ pc'[a] = "laid" /\ OthersStay(a) /\ ready' = ready /\ mishaps' = mishaps
      BY <2>2, <1>t, <1>p, StepEffect DEF bounds
    <3>2. SessionsDirectory \in ws
      BY <3>1, <1>t DEF LaidFor, LayoutSteps
    <3>3. SessionsDirectory \in wsDisk
      BY <2>1, <2>2, <3>1, <3>2 DEF SyncShape, OneSync
    <3> QED
      BY <2>2, <3>1, <3>3, OneSyncStep
  <2>3. CASE /\ Step(a, "control", "control rename") /\ UNCHANGED bounds
             /\ ws' = (ws \ ControlStagings) \cup {ControlStaging(a)}
             /\ wsDisk' = IF ws \cap ControlStagings # {} THEN ws \ ControlStagings ELSE wsDisk
    <3>1. pc[a] = "control" /\ pc'[a] = "control rename" /\ OthersStay(a) /\ ready' = ready /\ mishaps' = mishaps
      BY <2>3, <1>t, <1>p, StepEffect DEF bounds
    <3>2. {SessionsDirectory, ControlDirectory} \cap ws' = {SessionsDirectory, ControlDirectory} \cap ws
      BY <2>3, <1>n
    <3>3. \/ wsDisk' = wsDisk
          \/ {SessionsDirectory, ControlDirectory} \cap wsDisk' = {SessionsDirectory, ControlDirectory} \cap ws
      BY <2>3, <1>n
    <3> QED
      BY <3>1, <3>2, <3>3, OneSyncStep
  <2> QED
    BY <1>6, <2>2, <2>3 DEF OpenControl, disks
<1>7. CASE PublishControl(a)
  <2>1. CASE /\ Step(a, "control rename", "control sync") /\ UNCHANGED wsDisk /\ UNCHANGED bounds
             /\ ws' = (ws \ {ControlStaging(a)}) \cup {ControlDirectory}
    <3>1. /\ pc[a] = "control rename" /\ pc'[a] = "control sync" /\ OthersStay(a) /\ ready' = ready
          /\ mishaps' = mishaps
      BY <2>1, <1>t, <1>p, StepEffect DEF bounds
    <3>2. SessionsDirectory \in ws' <=> SessionsDirectory \in ws
      BY <2>1, <1>n
    <3>3. mishaps = 0 => SessionsDirectory \in wsDisk
      BY <3>1 DEF SyncShape, OneSync
    <3>4. \A b \in Actor : pc'[b] = "laid" => SessionsDirectory \in wsDisk
      BY <3>1 DEF SyncShape, OneSync, OthersStay
    <3> QED
      BY <2>1, <3>1, <3>2, <3>3, <3>4 DEF SyncShape, OneSync, LayoutIsDurable
  <2>2. CASE Fail(a) /\ Mishap /\ wsDisk' = ws /\ UNCHANGED ws
    BY <2>2, OneSyncFail
  <2> QED
    BY <1>7, <2>1, <2>2 DEF PublishControl
<1>8. CASE SyncSessions(a) \/ SyncControl(a)
  BY <1>8, <1>5 DEF SyncSessions, SyncControl
<1> QED
  BY <1>1, <1>2, <1>3, <1>4, <1>6, <1>7, <1>8 DEF LayoutAction

\* The other steps are no step into the layout, and leave the workspace directory alone.
LEMMA OneSyncElse ==
  ASSUME SyncShape, NEW a \in Actor, OthersStay(a), ready' = ready, mishaps' = mishaps,
         UNCHANGED <<ws, wsDisk>>, pc'[a] \notin {"control", "control rename", "control sync", "laid"},
         pc[a] \notin {"sessions sync", "control sync"}
  PROVE  OneSync'
BY OneSyncStep

LEMMA OneSyncQuiet ==
  ASSUME SyncShape, MaxMishaps <= 1, NEW a \in Actor, QuietAction(a)
  PROVE  OneSync'
<1>t. CatalogTypeOK /\ UNCHANGED <<ws, wsDisk>>
  BY QuietStays DEF SyncShape, CatalogCore
<1>p. {"flock", "list layout", "anchor", "stage"} \subseteq CatalogSteps
  BY DEF CatalogSteps, UnderFlock, StoreSteps, ListSteps
<1>1. ASSUME NEW from \in {"name", "wait", "find", "anchor"}, NEW to \in {"flock", "list layout", "anchor", "stage"},
             Step(a, from, to), UNCHANGED bounds
      PROVE  OneSync'
  BY <1>1, <1>t, <1>p, StepEffect, OneSyncElse DEF bounds
<1>2. ASSUME Leave(a), ready' = ready, mishaps' = mishaps, pc[a] \in {"find", "anchor", "list read"} PROVE OneSync'
  BY <1>2, <1>t, LeaveEffect, OneSyncElse
<1>3. CASE LockIdentity(a) \/ AwaitCreates(a)
  BY <1>3, <1>1 DEF LockIdentity, AwaitCreates
<1>4. CASE FindIdentity(a) \/ ValidateLineage(a)
  BY <1>4, <1>1, <1>2 DEF FindIdentity, ValidateLineage, Acknowledge, Fail, bounds, Step
<1>5. CASE ReadCatalog(a)
  BY <1>5, <1>2 DEF ReadCatalog, Disturbed, bounds
<1>6. CASE Begin(a) \/ TakeFlock(a)
  <2>1. PICK to \in {"wait", "name", "flock", "layout", "reconcile"} :
          pc' = [pc EXCEPT ![a] = to] /\ pc[a] \in {"idle", "flock", "flock2"}
    BY <1>6 DEF Begin, TakeFlock, Goto
  <2>2. ready' = ready /\ mishaps' = mishaps
    BY <1>6 DEF Begin, TakeFlock, bounds
  <2>3. pc'[a] = to /\ \A b \in Actor \ {a} : pc'[b] = pc[b]
    BY <2>1, <1>t DEF CatalogTypeOK
  <2> QED
    BY <2>1, <2>2, <2>3, <1>t DEF SyncShape, OneSync, LayoutIsDurable
<1>7. CASE Laid(a)
  <2>1. pc[a] = "laid" /\ mishaps' = mishaps
    BY <1>7 DEF Laid, bounds
  <2>2. SessionsDirectory \in wsDisk
    BY <2>1 DEF SyncShape, OneSync
  <2> QED
    BY <2>1, <2>2, <1>t DEF SyncShape, OneSync, LayoutIsDurable
<1> QED
  BY <1>3, <1>4, <1>5, <1>6, <1>7 DEF QuietAction

LEMMA OneSyncStore ==
  ASSUME SyncShape, MaxMishaps <= 1, NEW a \in Actor, StoreAction(a) \/ CancelCall(a)
  PROVE  OneSync'
<1>t. CatalogTypeOK
  BY DEF SyncShape, CatalogCore
<1>p. {"find", "anchor", "write", "rename", "publish sync"} \subseteq CatalogSteps
  BY DEF CatalogSteps, UnderFlock, StoreSteps
<1>1. CASE StoreAction(a)
  <2>1. UNCHANGED <<ws, wsDisk>>
    BY <1>1, StoreStays DEF SyncShape
  <2>2. ASSUME NEW from \in {"reconcile", "stage", "write", "rename"},
               NEW to \in {"find", "anchor", "write", "rename", "publish sync"},
               Step(a, from, to), UNCHANGED bounds
        PROVE  OneSync'
    BY <2>1, <2>2, <1>t, <1>p, StepEffect, OneSyncElse DEF bounds
  <2>3. ASSUME Fail(a), Mishap PROVE OneSync'
    BY <2>1, <2>3, OneSyncFail
  <2>4. CASE Reconcile(a) \/ Stage(a)
    BY <2>2, <2>3, <2>4 DEF Reconcile, Stage
  <2>5. CASE WriteStaged(a)
    BY <2>2, <2>3, <2>5 DEF WriteStaged
  <2>6. CASE Publish(a)
    BY <2>2, <2>6, PublishRenames DEF SyncShape
  <2>7. CASE SyncPublished(a)
    <3>1. ASSUME Acknowledge(a, "publisher"), UNCHANGED bounds, pc[a] = "publish sync" PROVE OneSync'
      BY <3>1, <2>1, <1>t, LeaveEffect, OneSyncElse DEF Acknowledge, bounds
    <3> QED
      BY <2>3, <2>7, <3>1 DEF SyncPublished
  <2> QED
    BY <1>1, <2>4, <2>5, <2>6, <2>7 DEF StoreAction
<1>2. CASE CancelCall(a)
  <2>1. Fail(a) /\ Mishap
    BY <1>2 DEF CancelCall
  <2>2. \/ UNCHANGED <<ws, wsDisk>>
        \/ /\ {SessionsDirectory, ControlDirectory} \cap ws' = {SessionsDirectory, ControlDirectory} \cap ws
           /\ wsDisk' = ws'
    <3>1. CASE pc[a] = "identity"
      BY <1>2, <3>1, NamesApart DEF CancelCall, DropTemp
    <3>2. CASE pc[a] # "identity"
      BY <1>2, <3>2 DEF CancelCall, Discard, disks
    <3> QED
      BY <3>1, <3>2
  <2> QED
    BY <2>1, <2>2, OneSyncFail
<1> QED
  BY <1>1, <1>2

LEMMA OneSyncNext ==
  ASSUME SyncShape, MaxMishaps <= 1, [CatalogNext]_cvars
  PROVE  SyncShape'
<1>1. CatalogCore'
  BY CatalogNextCore DEF SyncShape
<1>2. CASE UNCHANGED cvars
  <2>1. UNCHANGED <<ws, wsDisk, ready, pc, mishaps>>
    BY <1>2 DEF cvars, disks, bounds
  <2> QED
    BY <1>1, <2>1 DEF SyncShape, OneSync, LayoutIsDurable
<1>3. CASE CatalogNext
  <2>1. CASE PowerLoss \/ \E p \in Proc : Kill(p)
    BY <1>1, <2>1, OneSyncPowerLoss, OneSyncKill DEF SyncShape
  <2>2. CASE \E a \in Actor : LayoutAction(a) \/ QuietAction(a) \/ StoreAction(a) \/ CancelCall(a)
    BY <1>1, <2>2, OneSyncLayout, OneSyncQuiet, OneSyncStore DEF SyncShape
  <2> QED
    BY <1>3, <2>1, <2>2 DEF CatalogNext, LayoutAction, QuietAction, StoreAction
<1> QED
  BY <1>2, <1>3

\* If at most one call fails or dies between two power losses, no process is ready on a
\* sessions directory that nobody synchronised: what opens the layout behind the mishap
\* synchronises it with the control directory (openWorkspaceLayout, ensureWorkspaceControl).
THEOREM LayoutIsDurableWithOneMishap == MaxMishaps <= 1 => (CatalogSpec => []LayoutIsDurable)
<1> SUFFICES ASSUME MaxMishaps <= 1 PROVE CatalogSpec => []LayoutIsDurable
  OBVIOUS
<1>1. CatalogInit => SyncShape
  BY CatalogInitCore, SyncInit DEF SyncShape
<1>2. SyncShape /\ [CatalogNext]_cvars => SyncShape'
  BY OneSyncNext
<1>3. SyncShape => LayoutIsDurable
  BY DEF SyncShape, OneSync
<1> QED
  BY <1>1, <1>2, <1>3, PTL DEF CatalogSpec

-----------------------------------------------------------------------------
(* The sessions above a session: chains of parents in a set of entries. *)

LEMMA LeastByDescent ==
  ASSUME NEW R, NEW S, IsWellFoundedOn(R, S), NEW T, T \subseteq S, T # {}
  PROVE  \E m \in T : \A k \in T : ~ (<<k, m>> \in R)
BY WFMin

\* Numbers are reached one by one: what holds of 0 and of the next one holds of all.
LEMMA StepByStep ==
  ASSUME NEW T, T \subseteq Nat, 0 \in T, \A n \in T : n + 1 \in T
  PROVE  T = Nat
<1> DEFINE R == OpToRel(<, Nat)
           U == Nat \ T
<1>1. IsWellFoundedOn(R, Nat)
  BY NatLessThanWellFounded
<1>2. \A x, y \in Nat : x < y => <<x, y>> \in R
  BY DEF OpToRel
<1> HIDE DEF R
<1> SUFFICES ASSUME U # {} PROVE FALSE
  OBVIOUS
<1>3. PICK m \in U : \A k \in U : ~ (<<k, m>> \in R)
  BY <1>1, LeastByDescent
<1>4. m \in Nat /\ m # 0 /\ m - 1 \in Nat /\ m - 1 < m /\ (m - 1) + 1 = m
  BY <1>3
<1>5. m - 1 \notin U
  BY <1>2, <1>3, <1>4
<1> QED
  BY <1>3, <1>4, <1>5

\* A chain of n steps, as the definition of AncestorIn builds it.
IsChain(f, s, id, n) == f = [k \in 0..n |-> IF k = 0 THEN id ELSE Above(s, f[k - 1])]

LEMMA ChainSteps ==
  ASSUME NEW f, NEW s, NEW id, NEW n \in Nat
  PROVE  IsChain(f, s, id, n) <=>
           /\ f = [k \in 0..n |-> f[k]]
           /\ f[0] = id /\ \A k \in 0..n : k # 0 => f[k] = Above(s, f[k - 1])
BY DEF IsChain

LEMMA ChainExists ==
  ASSUME NEW s, NEW id
  PROVE  \A n \in Nat : \E f : IsChain(f, s, id, n)
<1> DEFINE T == {n \in Nat : \E f : IsChain(f, s, id, n)}
<1>1. 0 \in T
  <2> DEFINE f == [k \in 0..0 |-> id]
  <2>1. IsChain(f, s, id, 0)
    BY DEF IsChain
  <2> QED
    BY <2>1
<1>2. ASSUME NEW n \in T PROVE n + 1 \in T
  <2>1. PICK f : IsChain(f, s, id, n)
    BY <1>2
  <2> DEFINE g == [k \in 0..(n + 1) |-> IF k = n + 1 THEN Above(s, f[n]) ELSE f[k]]
  <2>2. f[0] = id /\ \A k \in 0..n : k # 0 => f[k] = Above(s, f[k - 1])
    BY <2>1, ChainSteps
  <2>3. \A k \in 0..(n + 1) : k # n + 1 => k \in 0..n
    OBVIOUS
  <2>4. \A k \in 0..n : g[k] = f[k]
    OBVIOUS
  <2>5. g[0] = id
    BY <2>2, <2>4
  <2>6. ASSUME NEW k \in 0..(n + 1), k # 0 PROVE g[k] = Above(s, g[k - 1])
    <3>1. k - 1 \in 0..n
      BY <2>6
    <3>2. CASE k = n + 1
      BY <2>4, <3>1, <3>2
    <3>3. CASE k # n + 1
      BY <2>2, <2>3, <2>4, <2>6, <3>1, <3>3
    <3> QED
      BY <3>2, <3>3
  <2>7. g = [k \in 0..(n + 1) |-> g[k]]
    OBVIOUS
  <2>8. n + 1 \in Nat
    OBVIOUS
  <2> HIDE DEF g
  <2>9. IsChain(g, s, id, n + 1)
    BY <2>5, <2>6, <2>7, <2>8, ChainSteps
  <2> QED
    BY <2>8, <2>9
<1>3. T = Nat
  BY <1>1, <1>2, StepByStep
<1> QED
  BY <1>3

LEMMA ChainIsOne ==
  ASSUME NEW s, NEW id, NEW m \in Nat, NEW n \in Nat, m <= n, NEW f, NEW g,
         IsChain(f, s, id, m), IsChain(g, s, id, n)
  PROVE  \A k \in 0..m : f[k] = g[k]
<1> DEFINE T == {k \in Nat : k \in 0..m => f[k] = g[k]}
<1>1. f[0] = id /\ \A k \in 0..m : k # 0 => f[k] = Above(s, f[k - 1])
  BY ChainSteps
<1>2. g[0] = id /\ \A k \in 0..n : k # 0 => g[k] = Above(s, g[k - 1])
  BY ChainSteps
<1>3. 0 \in T
  BY <1>1, <1>2
<1>4. ASSUME NEW k \in T PROVE k + 1 \in T
  <2>1. k + 1 \in 0..m => k + 1 \in 0..n /\ k \in 0..m /\ k + 1 # 0 /\ (k + 1) - 1 = k
    OBVIOUS
  <2>2. k + 1 \in 0..m => f[k + 1] = Above(s, f[k]) /\ g[k + 1] = Above(s, g[k])
    BY <1>1, <1>2, <2>1
  <2> QED
    BY <1>4, <2>1, <2>2
<1>5. T = Nat
  BY <1>3, <1>4, StepByStep
<1> QED
  BY <1>5

LEMMA AncestorIsChain ==
  ASSUME NEW s, NEW id, NEW n \in Nat
  PROVE  \E f : IsChain(f, s, id, n) /\ AncestorIn(s, id, n) = f[n]
<1> DEFINE f == CHOOSE f : f = [k \in 0..n |-> IF k = 0 THEN id ELSE Above(s, f[k - 1])]
<1>1. AncestorIn(s, id, n) = f[n]
  BY DEF AncestorIn
<1>2. IsChain(f, s, id, n)
  BY ChainExists DEF IsChain
<1> QED
  BY <1>1, <1>2

\* One step up.
LEMMA AncestorSteps ==
  ASSUME NEW s, NEW id
  PROVE  /\ AncestorIn(s, id, 0) = id
         /\ \A n \in Nat : AncestorIn(s, id, n + 1) = Above(s, AncestorIn(s, id, n))
<1>1. AncestorIn(s, id, 0) = id
  <2>1. PICK f : IsChain(f, s, id, 0) /\ AncestorIn(s, id, 0) = f[0]
    BY AncestorIsChain
  <2> QED
    BY <2>1, ChainSteps
<1>2. ASSUME NEW n \in Nat PROVE AncestorIn(s, id, n + 1) = Above(s, AncestorIn(s, id, n))
  <2>1. n + 1 \in Nat /\ n <= n + 1 /\ n \in 0..n /\ n + 1 \in 0..(n + 1) /\ n + 1 # 0 /\ (n + 1) - 1 = n
    OBVIOUS
  <2>2. PICK f : IsChain(f, s, id, n) /\ AncestorIn(s, id, n) = f[n]
    BY AncestorIsChain
  <2>3. PICK g : IsChain(g, s, id, n + 1) /\ AncestorIn(s, id, n + 1) = g[n + 1]
    BY <2>1, AncestorIsChain
  <2>4. f[n] = g[n]
    BY <2>1, <2>2, <2>3, ChainIsOne
  <2>5. \A k \in 0..(n + 1) : k # 0 => g[k] = Above(s, g[k - 1])
    BY <2>1, <2>3, ChainSteps
  <2>6. g[n + 1] = Above(s, g[n])
    BY <2>1, <2>5
  <2> QED
    BY <2>2, <2>3, <2>4, <2>6
<1> QED
  BY <1>1, <1>2

\* The same for all chains at once.
LEMMA AncestorStepsUp ==
  \A s, id : \A n \in Nat : AncestorIn(s, id, n + 1) = Above(s, AncestorIn(s, id, n))
BY AncestorSteps

\* A name that nobody has has nothing above it, and is the end of every chain through it.
LEMMA ChainEnds ==
  ASSUME NEW s, NEW id, NEW m \in Nat, NamedIn(s, Nil) = {}, AncestorIn(s, id, m) = Nil
  PROVE  \A n \in 0..m : AncestorIn(s, id, n) \in {Nil} \cup {e.name : e \in s}
<1> SUFFICES ASSUME NEW n \in 0..m, AncestorIn(s, id, n) \notin {e.name : e \in s}
             PROVE  AncestorIn(s, id, n) = Nil
  OBVIOUS
<1> DEFINE x == AncestorIn(s, id, n)
           T == {k \in Nat : AncestorIn(s, id, n + k) = x}
<1>1. Above(s, x) = x
  BY DEF Above, NamedIn
<1>2. 0 \in T
  OBVIOUS
<1>3. ASSUME NEW k \in T PROVE k + 1 \in T
  <2>1. n + k \in Nat /\ n + (k + 1) = (n + k) + 1
    OBVIOUS
  <2>2. AncestorIn(s, id, (n + k) + 1) = Above(s, AncestorIn(s, id, n + k))
    BY <2>1, AncestorSteps
  <2> QED
    BY <1>1, <1>3, <2>1, <2>2
<1>4. T = Nat
  BY <1>2, <1>3, StepByStep
<1>5. m - n \in Nat /\ n + (m - n) = m
  OBVIOUS
<1>6. AncestorIn(s, id, n + (m - n)) = x
  BY <1>4, <1>5
<1> QED
  BY <1>5, <1>6

\* Two sets of entries agree on what is above the sessions of a chain.
AgreeAlong(s, later, id, m) ==
  \A n \in 0..m : Above(later, AncestorIn(s, id, n)) = Above(s, AncestorIn(s, id, n))

\* Then they agree on the chain.
LEMMA ChainAgrees ==
  ASSUME NEW s, NEW later, NEW id, NEW m \in Nat, AgreeAlong(s, later, id, m)
  PROVE  \A n \in 0..(m + 1) : AncestorIn(later, id, n) = AncestorIn(s, id, n)
<1> DEFINE T == {n \in Nat : n \in 0..(m + 1) => AncestorIn(later, id, n) = AncestorIn(s, id, n)}
<1>1. 0 \in T
  BY AncestorSteps
<1>2. ASSUME NEW n \in T PROVE n + 1 \in T
  <2>1. n + 1 \in 0..(m + 1) => n \in 0..m /\ n \in 0..(m + 1)
    OBVIOUS
  <2>2. AncestorIn(s, id, n + 1) = Above(s, AncestorIn(s, id, n))
    BY AncestorSteps
  <2>3. AncestorIn(later, id, n + 1) = Above(later, AncestorIn(later, id, n))
    BY AncestorStepsUp
  <2> QED
    BY <1>2, <2>1, <2>2, <2>3 DEF AgreeAlong
<1>3. T = Nat
  BY <1>1, <1>2, StepByStep
<1> QED
  BY <1>3

\* The chain of a session goes on as that of its parent.
LEMMA ChainOfParent ==
  ASSUME NEW s, NEW id
  PROVE  \A n \in Nat : AncestorIn(s, id, n + 1) = AncestorIn(s, Above(s, id), n)
<1> DEFINE T == {n \in Nat : AncestorIn(s, id, n + 1) = AncestorIn(s, Above(s, id), n)}
<1>1. 0 \in T
  <2>1. AncestorIn(s, id, 0) = id /\ AncestorIn(s, Above(s, id), 0) = Above(s, id)
        /\ AncestorIn(s, id, 0 + 1) = Above(s, AncestorIn(s, id, 0))
    BY AncestorSteps
  <2> QED
    BY <2>1
<1>2. ASSUME NEW n \in T PROVE n + 1 \in T
  <2>1. n + 1 \in Nat
    OBVIOUS
  <2>2. AncestorIn(s, id, (n + 1) + 1) = Above(s, AncestorIn(s, id, n + 1))
    BY <2>1, AncestorSteps
  <2>3. AncestorIn(s, Above(s, id), n + 1) = Above(s, AncestorIn(s, Above(s, id), n))
    BY AncestorSteps
  <2> QED
    BY <1>2, <2>2, <2>3
<1>3. T = Nat
  BY <1>1, <1>2, StepByStep
<1> QED
  BY <1>3

\* No session has a staging directory above it.
LEMMA ChainOfSessions ==
  ASSUME NEW s \in SUBSET Entries, NEW id, id \notin Stagings
  PROVE  \A n \in Nat : AncestorIn(s, id, n) \notin Stagings
<1> DEFINE T == {n \in Nat : AncestorIn(s, id, n) \notin Stagings}
<1>1. 0 \in T
  BY AncestorSteps
<1>2. ASSUME NEW n \in T PROVE n + 1 \in T
  <2>1. AncestorIn(s, id, n + 1) = Above(s, AncestorIn(s, id, n))
    BY AncestorSteps
  <2>2. ASSUME NEW x, x \notin Stagings PROVE Above(s, x) \notin Stagings
    <3>1. CASE NamedIn(s, x) = {}
      BY <2>2, <3>1 DEF Above
    <3>2. CASE NamedIn(s, x) # {}
      <4>1. (CHOOSE e \in NamedIn(s, x) : TRUE) \in NamedIn(s, x)
        BY <3>2
      <4>2. (CHOOSE e \in NamedIn(s, x) : TRUE).terms \in Terms
        BY <4>1 DEF NamedIn, Entries
      <4> QED
        BY <3>2, <4>2, CatalogAssumption DEF Above
    <3> QED
      BY <3>1, <3>2
  <2> QED
    BY <1>2, <2>1, <2>2
<1>3. T = Nat
  BY <1>1, <1>2, StepByStep
<1> QED
  BY <1>3

-----------------------------------------------------------------------------
(* What its creator returned keeps its lineage, on disk too. *)

\* From the lineage check to the return, a create is under an anchored parent.
Anchoring == {"stage", "write", "rename", "publish sync"}
IsAnchored(a) == AncestorIn(sess, ParentOf[req[a].terms], MaxLineage) = Nil

LineageKept(id) ==
    /\ AncestorIn(sess, id, MaxLineage + 1) = Nil
    /\ \A n \in 0..MaxLineage : AncestorIn(sess, id, n) \in {Nil} \cup {e.name : e \in sessDisk}

LineageInv ==
    /\ CatalogInv
    /\ \A a \in Actor : pc[a] \in Anchoring => IsAnchored(a)
    /\ \A k \in acked : k.by = "publisher" =>
         LineageKept(k.id) /\ SessionsDirectory \in ws \cap wsDisk

\* A step that keeps the visible sessions of a chain, and adds others only, keeps the chain.
LEMMA ChainStays ==
  ASSUME CatalogCore, CatalogCore', NEW id, id \notin Stagings, NEW m \in Nat,
         \A n \in 0..m : \/ AncestorIn(sess, id, n) = Nil
                         \/ \E e \in sess \cap sess' : e.name = AncestorIn(sess, id, n)
  PROVE  \A n \in 0..(m + 1) : AncestorIn(sess', id, n) = AncestorIn(sess, id, n)
<1>1. sess \in SUBSET Entries /\ sess' \in SUBSET Entries
  BY DEF CatalogCore, CatalogTypeOK
<1>2. NamedIn(sess, Nil) = {} /\ NamedIn(sess', Nil) = {}
  BY <1>1, NamesApart DEF NamedIn, Entries
<1>3. ASSUME NEW x, x \notin Stagings, NEW e \in sess \cap sess', e.name = x
      PROVE  NamedIn(sess, x) = {e} /\ NamedIn(sess', x) = {e}
  BY <1>3 DEF NamedIn, CatalogCore, OneEach, Visible
<1>4. ASSUME NEW n \in 0..m
      PROVE  Above(sess', AncestorIn(sess, id, n)) = Above(sess, AncestorIn(sess, id, n))
  <2>1. AncestorIn(sess, id, n) \notin Stagings
    BY <1>1, ChainOfSessions
  <2>2. NamedIn(sess, AncestorIn(sess, id, n)) = NamedIn(sess', AncestorIn(sess, id, n))
    BY <1>2, <1>3, <2>1
  <2> QED
    BY <2>2 DEF Above
<1>5. AgreeAlong(sess, sess', id, m)
  BY <1>4 DEF AgreeAlong
<1> QED
  BY <1>5, ChainAgrees

\* A durable chain is kept when the visible durable sessions are.
LEMMA LineageStays ==
  ASSUME CatalogCore, CatalogCore', NEW id, id \notin Stagings, LineageKept(id),
         \A e \in sessDisk : Visible(e) => e \in sess' \cap sessDisk'
  PROVE  LineageKept(id)'
<1>1. MaxLineage \in Nat /\ sess \in SUBSET Entries
  BY CatalogAssumption DEF CatalogCore, CatalogTypeOK
<1>2. ASSUME NEW n \in 0..MaxLineage
      PROVE  \/ AncestorIn(sess, id, n) = Nil
             \/ \E e \in sess \cap sess' \cap sessDisk' : e.name = AncestorIn(sess, id, n)
  <2>1. AncestorIn(sess, id, n) \notin Stagings
    BY <1>1, ChainOfSessions
  <2> QED
    BY <2>1 DEF LineageKept, CatalogCore, OneEach, Visible
<1>3. \A n \in 0..(MaxLineage + 1) : AncestorIn(sess', id, n) = AncestorIn(sess, id, n)
  BY <1>1, <1>2, ChainStays
<1>4. MaxLineage + 1 \in 0..(MaxLineage + 1) /\ \A n \in 0..MaxLineage : n \in 0..(MaxLineage + 1)
  BY <1>1
<1>5. AncestorIn(sess', id, MaxLineage + 1) = Nil
  BY <1>3, <1>4 DEF LineageKept
<1>6. \A n \in 0..MaxLineage : AncestorIn(sess', id, n) \in {Nil} \cup {e.name : e \in sessDisk'}
  BY <1>2, <1>3, <1>4
<1> QED
  BY <1>5, <1>6 DEF LineageKept

\* An anchored parent stays anchored while no visible session goes away.
LEMMA AnchorStays ==
  ASSUME CatalogCore, CatalogCore', SessionsStay, NEW p, p \notin Stagings,
         AncestorIn(sess, p, MaxLineage) = Nil
  PROVE  AncestorIn(sess', p, MaxLineage) = Nil
<1>1. MaxLineage \in Nat /\ sess \in SUBSET Entries
  BY CatalogAssumption DEF CatalogCore, CatalogTypeOK
<1>2. NamedIn(sess, Nil) = {}
  BY <1>1, NamesApart DEF NamedIn, Entries
<1>3. ASSUME NEW n \in 0..MaxLineage
      PROVE  \/ AncestorIn(sess, p, n) = Nil
             \/ \E e \in sess \cap sess' : e.name = AncestorIn(sess, p, n)
  <2>1. AncestorIn(sess, p, n) \notin Stagings
    BY <1>1, ChainOfSessions
  <2>2. AncestorIn(sess, p, n) \in {Nil} \cup {e.name : e \in sess}
    BY <1>1, <1>2, ChainEnds
  <2> QED
    BY <2>1, <2>2 DEF SessionsStay, Visible
<1>4. \A n \in 0..(MaxLineage + 1) : AncestorIn(sess', p, n) = AncestorIn(sess, p, n)
  BY <1>1, <1>3, ChainStays
<1> QED
  BY <1>1, <1>4

\* Only the lineage check brings a create among those that are anchored.
LEMMA AnchoredFrom ==
  ASSUME CatalogCore, [CatalogNext]_cvars, ~PowerLoss, NEW b \in Actor, pc'[b] \in Anchoring
  PROVE  req'[b] = req[b] /\ (pc[b] \in Anchoring \/ (pc[b] = "anchor" /\ IsAnchored(b)))
<1> DEFINE Ok == req'[b] = req[b] /\ (pc[b] \in Anchoring \/ (pc[b] = "anchor" /\ IsAnchored(b)))
<1>t. CatalogTypeOK
  BY DEF CatalogCore
<1>p. CatalogSteps = LayoutSteps \cup StoreSteps \cup ListSteps \cup {"idle", "name", "flock", "flock2"}
      /\ Anchoring \subseteq CatalogSteps \ {"idle"}
  BY DEF CatalogSteps, UnderFlock, Anchoring, StoreSteps
<1>1. CASE UNCHANGED cvars
  BY <1>1 DEF cvars
<1>2. ASSUME NEW a \in Actor, Leave(a) PROVE Ok
  BY <1>2, <1>t, <1>p, LeaveEffect DEF OthersStay
<1>3. ASSUME NEW a \in Actor, NEW from, NEW to \in CatalogSteps, Step(a, from, to), to \in Anchoring => from \in Anchoring
      PROVE  Ok
  BY <1>3, <1>t, StepEffect DEF OthersStay
<1>4. ASSUME NEW a \in Actor, LayoutAction(a) PROVE Ok
  <2>1. \/ Leave(a)
        \/ \E from \in CatalogSteps, to \in LayoutSteps \cup ListSteps : Step(a, from, to)
    <3>1. CASE OpenIdentity(a) \/ ListLayout(a) \/ SyncIdentity(a) \/ OpenSessions(a) \/ OpenControl(a)
      BY <3>1, <1>p DEF OpenIdentity, ListLayout, SyncIdentity, OpenSessions, OpenControl, LayoutSteps, ListSteps
    <3>2. CASE WriteIdentity(a) \/ SyncSessions(a) \/ SyncControl(a) \/ PublishControl(a)
      BY <3>2, <1>p DEF WriteIdentity, SyncSessions, SyncControl, SyncWorkspace, PublishControl, Fail, Disturbed,
           LayoutSteps, ListSteps
    <3> QED
      BY <1>4, <3>1, <3>2 DEF LayoutAction
  <2>2. Anchoring \cap (LayoutSteps \cup ListSteps) = {} /\ LayoutSteps \cup ListSteps \subseteq CatalogSteps
    BY DEF Anchoring, LayoutSteps, ListSteps, CatalogSteps, UnderFlock
  <2> QED
    BY <1>2, <1>3, <2>1, <2>2
<1>5. ASSUME NEW a \in Actor, QuietAction(a) PROVE Ok
  <2>p. {"flock", "list layout", "anchor", "layout", "reconcile", "wait", "name"} \subseteq CatalogSteps \ Anchoring
    BY DEF CatalogSteps, Anchoring, UnderFlock, LayoutSteps, StoreSteps, ListSteps
  <2>1. CASE Begin(a) \/ TakeFlock(a) \/ Laid(a)
    <3>1. CASE Leave(a)
      BY <1>2, <3>1
    <3>2. CASE ~Leave(a)
      <4>1. PICK to \in {"wait", "name", "flock", "layout", "reconcile", "flock2"} : pc' = [pc EXCEPT ![a] = to]
        BY <2>1, <3>2 DEF Begin, TakeFlock, Laid, Goto
      <4>2. \A c \in Actor \ {a} : pc'[c] = pc[c] /\ req'[c] = req[c]
        BY <2>1, <3>2, <4>1, <1>t DEF Begin, TakeFlock, Laid, CatalogTypeOK
      <4>3. pc'[a] = to
        BY <4>1, <1>t DEF CatalogTypeOK
      <4>4. b # a
        BY <4>3 DEF Anchoring
      <4> QED
        BY <4>2, <4>4
    <3> QED
      BY <3>1, <3>2
  <2>2. CASE LockIdentity(a) \/ AwaitCreates(a)
    BY <2>2, <2>p, <1>3 DEF LockIdentity, AwaitCreates
  <2>3. CASE FindIdentity(a)
    BY <2>3, <2>p, <1>2, <1>3 DEF FindIdentity, Acknowledge, Fail
  <2>4. CASE ReadCatalog(a)
    BY <2>4, <1>2 DEF ReadCatalog, Disturbed
  <2>5. CASE ValidateLineage(a)
    <3>1. CASE Leave(a)
      BY <1>2, <3>1
    <3>2. CASE ~Leave(a)
      <4>1. IsAnchored(a) /\ pc[a] = "anchor" /\ Step(a, "anchor", "stage")
        BY <2>5, <3>2 DEF ValidateLineage, Ancestor, IsAnchored, Fail
      <4> QED
        BY <4>1, <1>t, <1>p, StepEffect DEF OthersStay, Anchoring
    <3> QED
      BY <3>1, <3>2
  <2> QED
    BY <1>5, <2>1, <2>2, <2>3, <2>4, <2>5 DEF QuietAction
<1>6. ASSUME NEW a \in Actor, StoreAction(a) \/ CancelCall(a) PROVE Ok
  <2>p. /\ {"find", "anchor", "write", "rename", "publish sync"} \subseteq CatalogSteps
        /\ {"stage", "write", "rename", "publish sync"} = Anchoring
    BY DEF CatalogSteps, Anchoring, UnderFlock, StoreSteps
  <2>1. CASE Reconcile(a)
    BY <2>1, <2>p, <1>2, <1>3 DEF Reconcile, Fail
  <2>2. CASE Stage(a) \/ WriteStaged(a)
    BY <2>2, <2>p, <1>2, <1>3 DEF Stage, WriteStaged, Fail
  <2>3. CASE Publish(a)
    BY <2>3, <2>p, <1>3, PublishRenames
  <2>4. CASE SyncPublished(a) \/ CancelCall(a)
    BY <2>4, <1>2 DEF SyncPublished, CancelCall, Acknowledge, Fail
  <2> QED
    BY <1>6, <2>1, <2>2, <2>3, <2>4 DEF StoreAction
<1>7. ASSUME NEW p \in Proc, Kill(p) PROVE Ok
  <2>1. Die({p}) /\ {p} \in SUBSET Proc
    BY <1>7 DEF Kill
  <2> QED
    BY <2>1, <1>p, DieEffect
<1> QED
  BY <1>1, <1>4, <1>5, <1>6, <1>7 DEF CatalogNext, LayoutAction, QuietAction, StoreAction

\* Who returns a session as its creator has just synchronised it.
LEMMA PublishedBy ==
  ASSUME CatalogInv, [CatalogNext]_cvars, ~PowerLoss, NEW k \in acked', k \notin acked, k.by = "publisher"
  PROVE  \E a \in Actor : SyncPublished(a) /\ k.id = req[a].id /\ sessDisk' = sess
<1> DEFINE Ok == \E a \in Actor : SyncPublished(a) /\ k.id = req[a].id /\ sessDisk' = sess
<1>c. CatalogCore
  BY DEF CatalogInv
<1>1. ~ToldStays
  BY DEF ToldStays
<1>2. ASSUME NEW a \in Actor, QuietAction(a) PROVE FALSE
  <2>1. ~Begin(a)
    BY DEF Begin, told
  <2>2. Acknowledge(a, "finder")
    BY <1>1, <1>2, <2>1, QuietTells
  <2>3. k = [id |-> req[a].id, terms |-> req[a].terms, by |-> "finder"]
    BY <2>2 DEF Acknowledge
  <2> QED
    BY <2>3
<1>3. ASSUME NEW a \in Actor, StoreAction(a) \/ CancelCall(a) PROVE Ok
  <2>1. SyncPublished(a) /\ Acknowledge(a, "publisher") /\ sessDisk' = sess
    BY <1>1, <1>3, <1>c, StoreTells
  <2>2. k = [id |-> req[a].id, terms |-> req[a].terms, by |-> "publisher"]
    BY <2>1 DEF Acknowledge
  <2>3. k.id = req[a].id
    BY <2>2
  <2> QED
    BY <2>1, <2>3
<1>4. ASSUME NEW a \in Actor, LayoutAction(a) PROVE FALSE
  BY <1>1, <1>4, <1>c, LayoutTells
<1>5. ASSUME NEW p \in Proc, Kill(p) PROVE FALSE
  BY <1>1, <1>5, KillPromises
<1>6. CASE UNCHANGED cvars
  BY <1>6 DEF cvars, told
<1> QED
  BY <1>2, <1>3, <1>4, <1>5, <1>6 DEF CatalogNext, LayoutAction, QuietAction, StoreAction

LEMMA NextDepth ==
  MaxLineage + 1 \in Nat /\ \A n \in 0..MaxLineage : n \in 0..(MaxLineage + 1)
BY CatalogAssumption

LEMMA NothingIsNil ==
  ASSUME CatalogCore
  PROVE  NamedIn(sess, Nil) = {}
BY NamesApart DEF NamedIn, Entries, CatalogCore, CatalogTypeOK

\* The creator synchronises the sessions directory behind the rename, and with it the
\* whole chain of a session whose parent is anchored.
LEMMA PublishedWithLineage ==
  ASSUME CatalogCore, NEW a \in Actor, pc[a] = "publish sync", IsAnchored(a)
  PROVE  /\ AncestorIn(sess, req[a].id, MaxLineage + 1) = Nil
         /\ \A n \in 0..MaxLineage : AncestorIn(sess, req[a].id, n) \in {Nil} \cup {f.name : f \in sess}
<1> DEFINE id == req[a].id
<1>0. MaxLineage \in Nat /\ sess \in SUBSET Entries
  BY CatalogAssumption DEF CatalogCore, CatalogTypeOK
<1>1. MaxLineage + 1 \in Nat
  BY NextDepth
<1>2. NamedIn(sess, Nil) = {}
  BY NothingIsNil
<1>3. req[a] \in CreateCalls
  BY CallShape DEF CatalogCore, CatalogTypeOK, InItsCall, StoreSteps
<1>4. PICK e \in sess : e.name = id /\ e.terms = req[a].terms
  <2>1. [name |-> req[a].id, terms |-> req[a].terms, whole |-> TRUE] \in sess
    BY DEF CatalogCore, StagedOne
  <2> QED
    BY <2>1
<1>5. NamedIn(sess, id) = {e}
  <2>1. id \notin Stagings
    BY <1>3, NamesApart DEF CreateCalls
  <2> QED
    BY <1>4, <2>1 DEF NamedIn, CatalogCore, OneEach, Visible
<1>6. Above(sess, id) = ParentOf[req[a].terms]
  BY <1>4, <1>5 DEF Above
<1>7. AncestorIn(sess, id, MaxLineage + 1) = Nil
  BY <1>0, <1>6, ChainOfParent DEF IsAnchored
<1>8. \A n \in 0..(MaxLineage + 1) : AncestorIn(sess, id, n) \in {Nil} \cup {f.name : f \in sess}
  BY <1>1, <1>2, <1>7, ChainEnds
<1>9. \A n \in 0..MaxLineage : n \in 0..(MaxLineage + 1)
  BY NextDepth
<1> QED
  BY <1>7, <1>8, <1>9

LEMMA LineageNext ==
  ASSUME LineageInv, LayoutIsDurable, [CatalogNext]_cvars
  PROVE  LineageInv'
<1>1. CatalogCore /\ CatalogCore' /\ CatalogInv /\ CatalogInv'
  BY CatalogNextInv DEF LineageInv, CatalogInv, NothingLost
<1>2. \A k \in acked : k.id \notin Stagings
  BY <1>1, NamesApart DEF CatalogCore, CatalogTypeOK, Returned
<1>3. CASE PowerLoss
  <2>1. \A a \in Actor : pc'[a] = "idle"
    BY <1>3 DEF PowerLoss, Die, Proc
  <2>2. acked' \subseteq acked /\ wsDisk' = ws' /\ wsDisk \cap ws \subseteq ws' /\ sessDisk' = sess'
        /\ (SessionsDirectory \in ws' => sess \cap sessDisk \subseteq sess')
    BY <1>3 DEF PowerLoss, Survivors
  <2>3. ASSUME NEW k \in acked', k.by = "publisher"
        PROVE  LineageKept(k.id)' /\ SessionsDirectory \in ws' \cap wsDisk'
    <3>1. LineageKept(k.id) /\ SessionsDirectory \in ws' \cap wsDisk' /\ k.id \notin Stagings
      BY <1>2, <2>2, <2>3 DEF LineageInv
    <3>2. \A e \in sessDisk : Visible(e) => e \in sess' \cap sessDisk'
      BY <1>1, <2>2, <3>1 DEF CatalogCore, OneEach
    <3> QED
      BY <1>1, <3>1, <3>2, LineageStays
  <2> QED
    BY <1>1, <2>1, <2>3 DEF LineageInv, Anchoring
<1>4. CASE ~PowerLoss
  <2>1. WorkspaceStays /\ SessionsStay
    BY <1>1, <1>4, DisksStay
  <2>2. ASSUME NEW a \in Actor, pc'[a] \in Anchoring PROVE IsAnchored(a)'
    <3>1. req'[a] = req[a] /\ (pc[a] \in Anchoring \/ (pc[a] = "anchor" /\ IsAnchored(a)))
      BY <1>1, <1>4, <2>2, AnchoredFrom
    <3>2. IsAnchored(a)
      BY <3>1 DEF LineageInv
    <3>3. req[a] \in CreateCalls
      BY <1>1, <3>1, CallShape DEF CatalogCore, CatalogTypeOK, InItsCall, StoreSteps, Anchoring
    <3>4. ParentOf[req[a].terms] \notin Stagings
      BY <3>3, CatalogAssumption DEF CreateCalls
    <3> QED
      BY <1>1, <2>1, <3>1, <3>2, <3>4, AnchorStays DEF IsAnchored
  <2>3. ASSUME NEW k \in acked, k.by = "publisher"
        PROVE  LineageKept(k.id)' /\ SessionsDirectory \in ws' \cap wsDisk'
    <3>1. LineageKept(k.id) /\ SessionsDirectory \in ws \cap wsDisk /\ k.id \notin Stagings
      BY <1>2, <2>3 DEF LineageInv
    <3>2. \A e \in sessDisk : Visible(e) => e \in sess' \cap sessDisk'
      BY <1>1, <2>1 DEF SessionsStay, CatalogCore, OneEach
    <3> QED
      BY <1>1, <2>1, <3>1, <3>2, LineageStays DEF WorkspaceStays
  <2>4. ASSUME NEW k \in acked', k \notin acked, k.by = "publisher"
        PROVE  LineageKept(k.id)' /\ SessionsDirectory \in ws' \cap wsDisk'
    <3>1. PICK a \in Actor : SyncPublished(a) /\ k.id = req[a].id /\ sessDisk' = sess
      BY <1>1, <1>4, <2>4, PublishedBy
    <3>2. pc[a] = "publish sync" /\ UNCHANGED <<ws, wsDisk, sess>>
      BY <3>1 DEF SyncPublished
    <3>3. IsAnchored(a)
      BY <3>2 DEF LineageInv, Anchoring
    <3>4. Home[a] \in ready
      BY <1>1, <3>2 DEF CatalogCore, InItsCall, StoreSteps
    <3>5. SessionsDirectory \in ws' \cap wsDisk'
      BY <1>1, <3>2, <3>4 DEF LayoutIsDurable, CatalogCore, LaidForReady
    <3>6. LineageKept(k.id)'
      BY <1>1, <3>1, <3>2, <3>3, PublishedWithLineage DEF LineageKept
    <3> QED
      BY <3>5, <3>6
  <2> QED
    BY <1>1, <2>2, <2>3, <2>4 DEF LineageInv
<1> QED
  BY <1>3, <1>4

LEMMA LineageInit == CatalogInit => LineageInv
BY CatalogInitInv DEF LineageInv, CatalogInit, Anchoring

LEMMA LineageIsPublished ==
  ASSUME LineageInv
  PROVE  PublishedIsDurable
<1> SUFFICES ASSUME NEW k \in acked, k.by = "publisher"
             PROVE  /\ SessionsDirectory \in wsDisk
                    /\ \E e \in sessDisk : e.name = k.id
                    /\ Ancestor(k.id, MaxLineage + 1) = Nil
                    /\ \A n \in 0..MaxLineage : Ancestor(k.id, n) \in {Nil} \cup {e.name : e \in sessDisk}
  BY DEF PublishedIsDurable
<1>1. LineageKept(k.id) /\ SessionsDirectory \in wsDisk
  BY DEF LineageInv
<1>2. \E e \in sessDisk : e.name = k.id
  BY DEF LineageInv, CatalogInv, Delivered
<1> QED
  BY <1>1, <1>2 DEF LineageKept, Ancestor

\* While no process is ready on a sessions directory that is not durable: what its creator
\* returned survives every power loss with its directory and its whole lineage (create,
\* createStagedSession, validateLineageAnchor).
THEOREM PublishedIsDurableAlways == CatalogSpec /\ []LayoutIsDurable => []PublishedIsDurable
BY LineageInit, LineageNext, LineageIsPublished, PTL DEF CatalogSpec

\* With one mishap at most nothing more is needed: an identity is one session, no call meets
\* the traces of another, and what was returned is durable (store.go, rootfs.go, control.go).
THEOREM CatalogWithOneMishap ==
  MaxMishaps <= 1 =>
    (CatalogSpec => [](OneSessionPerIdentity /\ CallsDoNotDisturb /\ PublishedIsDurable))
<1>1. LayoutIsDurable => NothingLost
  BY DEF NothingLost
<1> QED
  BY <1>1, LayoutIsDurableWithOneMishap, OneSessionPerIdentityAlways, CallsDoNotDisturbAlways,
     PublishedIsDurableAlways, PTL
=============================================================================
