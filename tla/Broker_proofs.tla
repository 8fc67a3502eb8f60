--------------------------- MODULE Broker_proofs ---------------------------
(***************************************************************************)
(* Proofs about Broker for every number of clients and pure commands and   *)
(* every bound.                                                            *)
(*                                                                         *)
(* SessionInOrder, first part.  A transaction of the session journal can   *)
(* be published late only if two publishers have one of that journal in    *)
(* their hands at a time; the argument is that its unpublished             *)
(* transactions are the one the operation in the lane has pending, and     *)
(* that this one is the last that will ever be published, because only the *)
(* same operation could commit another, and it publishes first.            *)
(*                                                                         *)
(* NoGap, second part: its argument stands there.                          *)
(***************************************************************************)
EXTENDS Broker, SequenceTheorems, FiniteSetTheorems, TLAPS

LogOK == log \in [Journal -> Seq(Transaction)]
PendingOK == pending \in [Publisher -> [journal : Journal, n : Nat] \cup {None}]

\* What a publisher other than the operation has pending is of the control
\* journal (CommitPureCommand), and what is pending is in the journal.
PendingPlaced ==
  \A p \in Publisher : pending[p] # None =>
    /\ pending[p].n \in 1 .. HeadOf(pending[p].journal)
    /\ pending[p].journal = "session" => p = Operation

\* The transaction pending for the session journal is later than every one of
\* that journal that was published.
PendingIsLast ==
  \A p \in Publisher :
    pending[p] # None /\ pending[p].journal = "session" =>
      \A n \in pending[p].n + 1 .. HeadOf("session") : log["session"][n].status = "silent"

IInv == LogOK /\ PendingOK /\ PendingPlaced /\ PendingIsLast /\ SessionInOrder

-----------------------------------------------------------------------------
\* AppendTo adds one transaction to one journal and keeps the others.
LEMMA AppendToKeeps ==
  ASSUME LogOK, NEW j \in Journal, NEW size \in 1 .. MaxSize, NEW status \in Status,
         AppendTo(j, size, status)
  PROVE  /\ LogOK'
         /\ Len(log'[j]) = Len(log[j]) + 1
         /\ \A n \in 1 .. Len(log[j]) : log'[j][n] = log[j][n]
         /\ log'[j][Len(log[j]) + 1].status = status
         /\ \A k \in Journal \ {j} : log'[k] = log[k]
<1> DEFINE t == [size |-> size, status |-> status]
<1>1. t \in Transaction BY DEF Transaction
<1>2. log[j] \in Seq(Transaction) BY DEF LogOK
<1>3. /\ log'[j] = Append(log[j], t)
      /\ \A k \in Journal \ {j} : log'[k] = log[k]
  BY DEF AppendTo, LogOK
<1>4. /\ Append(log[j], t) \in Seq(Transaction)
      /\ Len(Append(log[j], t)) = Len(log[j]) + 1
      /\ \A n \in 1 .. Len(log[j]) : Append(log[j], t)[n] = log[j][n]
      /\ Append(log[j], t)[Len(log[j]) + 1] = t
  BY <1>1, <1>2, AppendProperties
<1>5. LogOK'
  BY <1>3, <1>4 DEF LogOK, AppendTo
<1> QED BY <1>3, <1>4, <1>5

\* Commit: the transaction that becomes pending is the last of its journal.
LEMMA CommitKeeps ==
  ASSUME IInv, NEW p \in Publisher, NEW j \in Journal, NEW size \in 1 .. MaxSize,
         Commit(p, j, size)
  PROVE  IInv'
<1> DEFINE place == [journal |-> j, n |-> HeadOf(j) + 1]
<1>1. /\ AppendTo(j, size, "committed")
      /\ pending' = [pending EXCEPT ![p] = place]
      /\ pending[p] = None
      /\ p \in PureCommand => j = "control"
  BY DEF Commit
<1>2. HeadOf(j) \in Nat /\ log[j] \in Seq(Transaction)
  BY LenProperties DEF HeadOf, LogOK, IInv
<1>3. /\ LogOK'
      /\ Len(log'[j]) = Len(log[j]) + 1
      /\ \A n \in 1 .. Len(log[j]) : log'[j][n] = log[j][n]
      /\ log'[j][Len(log[j]) + 1].status = "committed"
      /\ \A k \in Journal \ {j} : log'[k] = log[k]
  BY <1>1, AppendToKeeps DEF IInv, Status
<1>4. \A k \in Journal : Len(log[k]) \in Nat /\ Len(log'[k]) \in Nat /\ Len(log[k]) <= Len(log'[k])
  <2>1. \A k \in Journal : log[k] \in Seq(Transaction) /\ log'[k] \in Seq(Transaction)
    BY <1>3 DEF LogOK, IInv
  <2>2. \A k \in Journal : Len(log[k]) \in Nat /\ Len(log'[k]) \in Nat
    BY <2>1, LenProperties
  <2> QED BY <2>2, <1>3
<1>5. pending'[p] = place /\ \A q \in Publisher \ {p} : pending'[q] = pending[q]
  BY <1>1 DEF PendingOK, IInv
<1>6. PendingOK'
  BY <1>1, <1>2 DEF PendingOK, IInv
<1>7. j = "session" => p = Operation
  BY <1>1 DEF Publisher
<1>8. PendingPlaced'
  <2> SUFFICES ASSUME NEW q \in Publisher, pending'[q] # None
               PROVE  /\ pending'[q].n \in 1 .. Len(log'[pending'[q].journal])
                      /\ pending'[q].journal = "session" => q = Operation
    BY DEF PendingPlaced, HeadOf
  <2>1. CASE q = p
    BY <2>1, <1>2, <1>3, <1>5, <1>7 DEF HeadOf
  <2>2. CASE q # p
    <3>1. pending[q] \in [journal : Journal, n : Nat]
      BY <2>2, <1>5 DEF PendingOK, IInv
    <3> QED BY <2>2, <3>1, <1>4, <1>5 DEF PendingPlaced, HeadOf, IInv
  <2> QED BY <2>1, <2>2
<1>9. PendingIsLast'
  <2> SUFFICES ASSUME NEW q \in Publisher, pending'[q] # None, pending'[q].journal = "session",
                      NEW n \in pending'[q].n + 1 .. Len(log'["session"])
               PROVE  log'["session"][n].status = "silent"
    BY DEF PendingIsLast, HeadOf
  <2>1. CASE q = p
    BY <2>1, <1>2, <1>3, <1>5 DEF HeadOf
  <2>2. CASE q # p
    <3>1. j = "control" /\ q = Operation
      BY <2>2, <1>5, <1>7 DEF PendingPlaced, Journal, IInv
    <3>2. log'["session"] = log["session"]
      BY <3>1, <1>3 DEF Journal
    <3> QED BY <2>2, <3>2, <1>5 DEF PendingIsLast, HeadOf, IInv
  <2> QED BY <2>1, <2>2
<1>10. SessionInOrder'
  <2> SUFFICES ASSUME NEW n \in 1 .. Len(log'["session"])
               PROVE  log'["session"][n].status # "late"
    BY DEF SessionInOrder, HeadOf
  <2>1. CASE j = "session"
    <3>1. n \in 1 .. Len(log["session"]) \/ n = Len(log["session"]) + 1
      BY <2>1, <1>2, <1>3 DEF HeadOf
    <3> QED BY <2>1, <3>1, <1>3 DEF SessionInOrder, HeadOf, IInv
  <2>2. CASE j # "session"
    BY <2>2, <1>3 DEF SessionInOrder, HeadOf, Journal, IInv
  <2> QED BY <2>1, <2>2
<1> QED BY <1>3, <1>6, <1>8, <1>9, <1>10 DEF IInv

\* CommitSilently: nobody publishes what it adds.
LEMMA CommitSilentlyKeeps ==
  ASSUME IInv, NEW j \in Journal, NEW size \in 1 .. MaxSize, CommitSilently(j, size)
  PROVE  IInv'
<1>1. AppendTo(j, size, "silent") /\ pending' = pending
  BY DEF CommitSilently
<1>2. /\ LogOK'
      /\ Len(log'[j]) = Len(log[j]) + 1
      /\ \A n \in 1 .. Len(log[j]) : log'[j][n] = log[j][n]
      /\ log'[j][Len(log[j]) + 1].status = "silent"
      /\ \A k \in Journal \ {j} : log'[k] = log[k]
  BY <1>1, AppendToKeeps DEF IInv, Status
<1>3. \A k \in Journal : Len(log[k]) \in Nat /\ Len(log'[k]) \in Nat /\ Len(log[k]) <= Len(log'[k])
  <2>1. \A k \in Journal : log[k] \in Seq(Transaction) /\ log'[k] \in Seq(Transaction)
    BY <1>2 DEF LogOK, IInv
  <2>2. \A k \in Journal : Len(log[k]) \in Nat /\ Len(log'[k]) \in Nat
    BY <2>1, LenProperties
  <2> QED BY <2>2, <1>2
<1>4. PendingOK' BY <1>1 DEF PendingOK, IInv
<1>5. PendingPlaced'
  <2> SUFFICES ASSUME NEW q \in Publisher, pending[q] # None
               PROVE  /\ pending[q].n \in 1 .. Len(log'[pending[q].journal])
                      /\ pending[q].journal = "session" => q = Operation
    BY <1>1 DEF PendingPlaced, HeadOf
  <2>1. pending[q] \in [journal : Journal, n : Nat]
    BY DEF PendingOK, IInv
  <2> QED BY <2>1, <1>3 DEF PendingPlaced, HeadOf, IInv
<1>6. \A n \in 1 .. Len(log'["session"]) :
         log'["session"][n].status = "silent" \/ (n \in 1 .. Len(log["session"]) /\ log'["session"][n] = log["session"][n])
  <2>1. CASE j = "session" BY <2>1, <1>2, <1>3
  <2>2. CASE j # "session" BY <2>2, <1>2 DEF Journal
  <2> QED BY <2>1, <2>2
<1>7. PendingIsLast'
  <2> SUFFICES ASSUME NEW q \in Publisher, pending[q] # None, pending[q].journal = "session",
                      NEW n \in pending[q].n + 1 .. Len(log'["session"])
               PROVE  log'["session"][n].status = "silent"
    BY <1>1 DEF PendingIsLast, HeadOf
  <2>1. pending[q].n \in Nat /\ n \in 1 .. Len(log'["session"])
    BY <1>3 DEF PendingOK, Journal, IInv
  <2>2. CASE n \in 1 .. Len(log["session"])
    <3>1. n \in pending[q].n + 1 .. Len(log["session"]) BY <2>1, <2>2, <1>3 DEF Journal
    <3> QED BY <2>1, <2>2, <3>1, <1>6 DEF PendingIsLast, HeadOf, IInv
  <2> QED BY <2>1, <2>2, <1>6
<1>8. SessionInOrder'
  BY <1>6 DEF SessionInOrder, HeadOf, IInv
<1> QED BY <1>2, <1>4, <1>5, <1>7, <1>8 DEF IInv

\* Publish marks the transaction in the journal and leaves its length; of the
\* session journal it finds no later one published.
LEMMA PublishKeeps ==
  ASSUME IInv, NEW p \in Publisher, Publish(p)
  PROVE  IInv'
<1> DEFINE place == pending[p]
           status == IF Overtaken(place) THEN "late" ELSE "published"
           t == [log[place.journal][place.n] EXCEPT !.status = status]
<1>1. /\ place # None
      /\ log' = [log EXCEPT ![place.journal][place.n].status = status]
      /\ pending' = [pending EXCEPT ![p] = None]
  BY DEF Publish
<1>2. /\ place \in [journal : Journal, n : Nat]
      /\ place.n \in 1 .. Len(log[place.journal])
      /\ place.journal = "session" => p = Operation
  BY <1>1 DEF PendingOK, PendingPlaced, HeadOf, IInv
<1>3. \A k \in Journal : log[k] \in Seq(Transaction) /\ Len(log[k]) \in Nat
  BY LenProperties DEF LogOK, IInv
<1>4. t \in Transaction
  <2>1. log[place.journal][place.n] \in Transaction
    BY <1>2, <1>3, ElementOfSeq
  <2> QED BY <2>1 DEF Transaction, Status
<1>5. /\ log'[place.journal] = [log[place.journal] EXCEPT ![place.n] = t]
      /\ \A k \in Journal \ {place.journal} : log'[k] = log[k]
  BY <1>1, <1>2 DEF LogOK, IInv
<1>6. /\ log'[place.journal] \in Seq(Transaction)
      /\ Len(log'[place.journal]) = Len(log[place.journal])
      /\ \A n \in 1 .. Len(log[place.journal]) :
           log'[place.journal][n] = IF n = place.n THEN t ELSE log[place.journal][n]
  BY <1>2, <1>3, <1>4, <1>5, ExceptSeq
<1>7. LogOK'
  BY <1>1, <1>2, <1>3, <1>5, <1>6 DEF LogOK, IInv
<1>8. \A k \in Journal : Len(log'[k]) = Len(log[k])
  BY <1>5, <1>6
<1>9. pending'[p] = None /\ \A q \in Publisher \ {p} : pending'[q] = pending[q]
  BY <1>1 DEF PendingOK, IInv
<1>10. PendingOK'
  BY <1>1 DEF PendingOK, IInv
<1>11. PendingPlaced'
  <2> SUFFICES ASSUME NEW q \in Publisher, pending'[q] # None
               PROVE  /\ pending'[q].n \in 1 .. Len(log'[pending'[q].journal])
                      /\ pending'[q].journal = "session" => q = Operation
    BY DEF PendingPlaced, HeadOf
  <2>1. q # p /\ pending'[q] = pending[q] /\ pending[q] \in [journal : Journal, n : Nat]
    BY <1>9 DEF PendingOK, IInv
  <2> QED BY <2>1, <1>8 DEF PendingPlaced, HeadOf, IInv
<1>12. CASE place.journal = "session"
  <2>1. p = Operation BY <1>2, <1>12
  <2>2. PendingIsLast'
    <3> SUFFICES ASSUME NEW q \in Publisher, pending'[q] # None, pending'[q].journal = "session"
                 PROVE  FALSE
      BY DEF PendingIsLast
    <3>1. q # p /\ pending'[q] = pending[q] BY <1>9
    <3>2. q = Operation BY <3>1 DEF PendingPlaced, IInv
    <3> QED BY <2>1, <3>1, <3>2
  <2>3. ~ Overtaken(place)
    <3>1. \A n \in place.n + 1 .. Len(log["session"]) : log["session"][n].status = "silent"
      BY <1>1, <1>12 DEF PendingIsLast, HeadOf, IInv
    <3> QED BY <3>1, <1>12 DEF Overtaken, HeadOf
  <2>4. t.status = "published"
    <3>1. log[place.journal][place.n] \in Transaction
      BY <1>2, <1>3, ElementOfSeq
    <3> QED BY <2>3, <3>1 DEF Transaction
  <2>5. SessionInOrder'
    <3> SUFFICES ASSUME NEW n \in 1 .. Len(log'["session"])
                 PROVE  log'["session"][n].status # "late"
      BY DEF SessionInOrder, HeadOf
    <3>1. n \in 1 .. Len(log["session"]) BY <1>6, <1>12
    <3>2. log'["session"][n] = IF n = place.n THEN t ELSE log["session"][n]
      BY <3>1, <1>6, <1>12
    <3> QED BY <3>1, <3>2, <2>4 DEF SessionInOrder, HeadOf, IInv
  <2> QED BY <1>7, <1>10, <1>11, <2>2, <2>5 DEF IInv
<1>13. CASE place.journal # "session"
  <2>1. log'["session"] = log["session"]
    BY <1>5, <1>13 DEF Journal
  <2>2. SessionInOrder'
    BY <2>1 DEF SessionInOrder, HeadOf, IInv
  <2>3. PendingIsLast'
    <3> SUFFICES ASSUME NEW q \in Publisher, pending'[q] # None, pending'[q].journal = "session",
                        NEW n \in pending'[q].n + 1 .. Len(log'["session"])
                 PROVE  log'["session"][n].status = "silent"
      BY DEF PendingIsLast, HeadOf
    <3>1. q # p /\ pending'[q] = pending[q] BY <1>9
    <3> QED BY <2>1, <3>1 DEF PendingIsLast, HeadOf, IInv
  <2> QED BY <1>7, <1>10, <1>11, <2>2, <2>3 DEF IInv
<1> QED BY <1>12, <1>13

-----------------------------------------------------------------------------
\* No other step of the broker or of a client touches a journal.
LEMMA OthersKeep ==
  ASSUME IInv, UNCHANGED journals
  PROVE  IInv'
<1>1. log' = log /\ pending' = pending BY DEF journals
<1> QED BY <1>1 DEF IInv, LogOK, PendingOK, PendingPlaced, PendingIsLast, SessionInOrder, HeadOf

LEMMA ClientsLeaveJournals ==
  ASSUME NEW c \in Client, ClientStep(c)
  PROVE  UNCHANGED journals
BY DEF ClientStep, journals, Snapshot, FinishSnapshot, FailRead, Subscribe, SubscribeStale, ReadSession,
       FinishSubscribe, CatchUp, Receive, Sleep, Wake, Eof, Close

\* The lane keeps the publications of the session journal in the order of its
\* commits (OperationLane.Acquire around every append to a session that is
\* followed by PublishCommitted): hasCursor never takes a transaction of this
\* process for one that a subscription already has.
THEOREM PublishedInOrder == Spec => []SessionInOrder
<1>1. Init => IInv
  <2> SUFFICES ASSUME Init PROVE IInv OBVIOUS
  <2>1. log = [j \in Journal |-> <<>>] /\ pending = [p \in Publisher |-> None]
    BY DEF Init
  <2>2. LogOK /\ PendingOK
    BY <2>1, EmptySeq DEF LogOK, PendingOK
  <2>3. HeadOf("session") = 0
    BY <2>1, EmptySeq DEF HeadOf, Journal
  <2> QED BY <2>1, <2>2, <2>3 DEF IInv, PendingPlaced, PendingIsLast, SessionInOrder
<1>2. IInv /\ [Next]_vars => IInv'
  <2> SUFFICES ASSUME IInv, [Next]_vars PROVE IInv' OBVIOUS
  <2>1. CASE BrokerStep
    <3>1. ASSUME NEW j \in Journal, NEW size \in 1 .. MaxSize, CommitSilently(j, size) PROVE IInv'
      BY <3>1, CommitSilentlyKeeps
    <3>2. ASSUME NEW j \in Journal, NEW size \in 1 .. MaxSize, NEW p \in Publisher, Commit(p, j, size) PROVE IInv'
      BY <3>2, CommitKeeps
    <3>3. ASSUME NEW p \in Publisher, Publish(p) PROVE IInv'
      BY <3>3, PublishKeeps
    <3>4. CASE PublishTransient \/ RotateEpoch
      BY <3>4, OthersKeep DEF PublishTransient, RotateEpoch
    <3> QED BY <2>1, <3>1, <3>2, <3>3, <3>4 DEF BrokerStep
  <2>2. ASSUME NEW c \in Client, ClientStep(c) PROVE IInv'
    BY <2>2, ClientsLeaveJournals, OthersKeep
  <2>3. CASE UNCHANGED vars
    BY <2>3, OthersKeep DEF vars, journals
  <2> QED BY <2>1, <2>2, <2>3 DEF Next
<1>3. IInv => SessionInOrder
  BY DEF IInv
<1> QED BY <1>1, <1>2, <1>3, PTL DEF Spec

-----------------------------------------------------------------------------
(***************************************************************************)
(* NoGap.  A subscription has what it owes up to its cursor (Covered), and *)
(* nothing after the cursor was published while it is open (Ahead), so     *)
(* that the next publication finds it where it left it.  A transaction     *)
(* that a later one overtook lies behind the cursor and is never taken for *)
(* missing: it will be published late.  What makes the start of a          *)
(* subscription fit is Broker.mu: nothing is published between the read of *)
(* a head and the registration (Snapshotting, ReadUpTo), and an item       *)
(* carries a cursor no later than the one behind it, so that a client that *)
(* reconnects after any item knows nothing beyond it (Ordered).            *)
(***************************************************************************)

\* Broker's cursors, items and subscriptions without the bounds.
Point == [at : [Journal -> Nat], epoch : Nat]
Entry == [kind : {"durable"}, place : [journal : Journal, n : Nat], cursor : Point]
           \cup [kind : {"transient"} \cup Terminal, cursor : Point]
Subscription == [phase : Phases, queue : Seq(Entry), cursor : Point, from : [Journal -> Nat],
                 wake : BOOLEAN]
Counters == [Journal -> [Index -> Nat]]

Logs == {l \in [Journal -> Seq(Transaction)] : Len(l["control"]) + Len(l["session"]) <= MaxCommits}

\* A transaction that was published, one behind which another was published, and
\* one that is published in its turn or may still be.
Sent(l, j, n) == l[j][n].status \in {"published", "late"}
Passed(l, j, n) == \E m \in n + 1 .. Len(l[j]) : Sent(l, j, m)
InOrder(l, j, n) ==
  \/ l[j][n].status = "published"
  \/ l[j][n].status = "committed" /\ ~ Passed(l, j, n)
Weight(l, j, n) == IF n <= Len(l[j]) THEN l[j][n].size ELSE 0

\* What a client knows (r), and the places of a transaction in a queue (q).
KnowsUpTo(r, at) == \A j \in Journal, n \in Index : r[j][n] > 0 => n <= at[j]
Below(a, b) == \A j \in Journal : a[j] <= b[j]
Heads(l) == [j \in Journal |-> Len(l[j])]
PlacesOf(q, j, n) ==
  {i \in 1 .. Len(q) : q[i].kind = "durable" /\ q[i].place = [journal |-> j, n |-> n]}
Hand(s, r, j, n) == r[j][n] + Cardinality(PlacesOf(s.queue, j, n))

\* The items of a queue: each carries a cursor that covers what it is of and what
\* the client knows, and is no later than the cursors behind it.
Ordered(l, s, r) ==
  \A i \in 1 .. Len(s.queue) :
    /\ Below(s.queue[i].cursor.at, s.cursor.at)
    /\ \A k \in i .. Len(s.queue) : Below(s.queue[i].cursor.at, s.queue[k].cursor.at)
    /\ s.queue[i].kind = "durable" =>
         /\ s.queue[i].place.n \in 1 .. Len(l[s.queue[i].place.journal])
         /\ s.queue[i].place.n <= s.queue[i].cursor.at[s.queue[i].place.journal]
    /\ KnowsUpTo(r, s.queue[i].cursor.at)

\* Cursors lie in the journals, and a client knows nothing beyond its own (u).
Placed(l, s, r, u) ==
  /\ Below(s.cursor.at, Heads(l))
  /\ Below(s.from, s.cursor.at)
  /\ u # None => Below(u.at, Heads(l)) /\ KnowsUpTo(r, u.at)
  /\ KnowsUpTo(r, Heads(l))
  /\ s.phase \in {"open", "catchup"} => KnowsUpTo(r, s.cursor.at)

Sound(l, s, r, u) ==
  /\ s \in Subscription /\ r \in Counters /\ u \in Point \cup {None}
  /\ Ordered(l, s, r) /\ Placed(l, s, r, u)

Covered(l, s, r) ==
  s.phase \in {"open", "ended"} =>
    \A j \in Journal : \A n \in s.from[j] + 1 .. s.cursor.at[j] :
      InOrder(l, j, n) => Hand(s, r, j, n) = Weight(l, j, n)

Unsent(l, j, n) == \A m \in n + 1 .. Len(l[j]) : ~ Sent(l, j, m)
Ahead(l, s) == s.phase = "open" => \A j \in Journal : Unsent(l, j, s.cursor.at[j])

\* snapshotLocked between the two heads; session is read last.
Snapshotting(l, s, r) ==
  /\ s.queue = <<>> /\ s.phase = "none"
  /\ Unsent(l, "control", s.cursor.at["control"])
  /\ \A n \in Index : r["control"][n] > 0 => n <= s.cursor.at["control"]

\* Subscribe has read the journal up to h; t is what it still has to enqueue.
ReadUpTo(l, s, r, t, j, h) ==
  /\ h \in s.cursor.at[j] .. Len(l[j])
  /\ \A n \in s.from[j] + 1 .. h :
       /\ Hand(s, r, j, n) + t[j][n] = Weight(l, j, n)
       /\ n > s.cursor.at[j] => t[j][n] > 0
  /\ \A n \in Index : n <= s.from[j] \/ n > h => t[j][n] = 0
  /\ Unsent(l, j, h)
HasRead(l, s, r, t, j) == \E h \in Nat : ReadUpTo(l, s, r, t, j, h)

Busy == {"snapshot", "reading", "merging"}
InStep(l, s, r, step, t) ==
  /\ step = "snapshot" => Snapshotting(l, s, r)
  /\ step \in {"reading", "merging"} => s.phase = "catchup" /\ HasRead(l, s, r, t, "control")
  /\ step = "reading" => s.queue = <<>> /\ s.cursor.at = s.from
  /\ step = "merging" => HasRead(l, s, r, t, "session")

Well(l, s, r, u, step, t) ==
  Sound(l, s, r, u) /\ Covered(l, s, r) /\ Ahead(l, s) /\ InStep(l, s, r, step, t)

\* What is pending is in the journal, is not published yet, and is pending once.
PendingOnce ==
  \A p \in Publisher : pending[p] # None =>
    /\ pending[p].n \in 1 .. Len(log[pending[p].journal])
    /\ log[pending[p].journal][pending[p].n].status = "committed"
    /\ \A q \in Publisher : pending[q] = pending[p] => q = p

GapInv ==
  /\ log \in Logs /\ PendingOK /\ PendingOnce /\ epoch \in Nat /\ todo \in Counters
  /\ sub \in [Client -> Subscription] /\ received \in [Client -> Counters]
  /\ resume \in [Client -> Point \cup {None}] /\ pc \in [Client -> Steps]
  /\ \A c \in Client :
       /\ Well(log, sub[c], received[c], resume[c], pc[c], todo)
       /\ pc[c] \in Busy => mu = c

-----------------------------------------------------------------------------
(* Queues.                                                                 *)

LEMMA RunOfNumbers ==
  ASSUME NEW l \in Nat, NEW k \in Nat
  PROVE  IsFiniteSet(l + 1 .. l + k) /\ Cardinality(l + 1 .. l + k) = k
<1> DEFINE a == l + 1
           b == l + k
<1>1. a \in Int /\ b \in Int /\ (a > b <=> k = 0) /\ b - a + 1 = k
  OBVIOUS
<1> HIDE DEF a, b
<1>2. IsFiniteSet(a .. b) /\ Cardinality(a .. b) = IF a > b THEN 0 ELSE b - a + 1
  BY <1>1, FS_Interval
<1>3. IsFiniteSet(a .. b) /\ Cardinality(a .. b) = k
  BY <1>1, <1>2
<1> QED
  BY <1>3 DEF a, b

LEMMA PlacesAreFinite ==
  ASSUME NEW q \in Seq(Entry), NEW j, NEW n
  PROVE  IsFiniteSet(PlacesOf(q, j, n)) /\ Cardinality(PlacesOf(q, j, n)) \in Nat
<1>1. Len(q) \in Nat
  BY LenProperties
<1>2. IsFiniteSet(1 .. Len(q))
  BY <1>1, FS_Interval
<1>3. PlacesOf(q, j, n) \in SUBSET (1 .. Len(q))
  BY DEF PlacesOf
<1>4. IsFiniteSet(PlacesOf(q, j, n))
  BY <1>2, <1>3, FS_Subset
<1> QED
  BY <1>4, FS_CardinalityType

LEMMA PlacesAfterAppend ==
  ASSUME NEW q \in Seq(Entry), NEW e \in Entry, e.kind # "durable", NEW j, NEW n
  PROVE  PlacesOf(Append(q, e), j, n) = PlacesOf(q, j, n)
<1>1. /\ Len(q) \in Nat /\ Len(Append(q, e)) = Len(q) + 1
      /\ \A i \in 1 .. Len(q) : Append(q, e)[i] = q[i]
      /\ Append(q, e)[Len(q) + 1] = e
  BY LenProperties, AppendProperties
<1> QED
  BY <1>1 DEF PlacesOf

\* A queue grows by a run of events of one transaction.
Grown(q, e, count, new) ==
  /\ new \in Seq(Entry) /\ Len(new) = Len(q) + count
  /\ \A i \in 1 .. Len(q) : new[i] = q[i]
  /\ \A i \in Len(q) + 1 .. Len(q) + count : new[i] = e

LEMMA EventsGrow ==
  ASSUME NEW q \in Seq(Entry), NEW e \in Entry, NEW count \in Nat
  PROVE  Grown(q, e, count, q \o [i \in 1 .. count |-> e])
<1> DEFINE more == [i \in 1 .. count |-> e]
<1>1. more \in Seq(Entry) /\ Len(more) = count
  <2>1. more \in [1 .. count -> Entry]
    OBVIOUS
  <2>2. more \in Seq(Entry)
    BY <2>1, SeqDef
  <2>3. DOMAIN more = 1 .. count /\ DOMAIN more = 1 .. Len(more) /\ Len(more) \in Nat
    BY <2>2, LenProperties
  <2> QED
    BY <2>2, <2>3
<1>2. \A i \in 1 .. count : more[i] = e
  OBVIOUS
<1> HIDE DEF more
<1> DEFINE new == q \o more
<1>4. Len(q) \in Nat
  BY LenProperties
<1>5. /\ new \in Seq(Entry) /\ Len(new) = Len(q) + count
      /\ \A i \in 1 .. Len(q) + count : new[i] = IF i <= Len(q) THEN q[i] ELSE more[i - Len(q)]
  BY <1>1, ConcatProperties
<1> HIDE DEF new
<1>6. \A i \in 1 .. Len(q) : new[i] = q[i]
  BY <1>4, <1>5
<1>7. \A i \in Len(q) + 1 .. Len(q) + count : new[i] = e
  <2> TAKE i \in Len(q) + 1 .. Len(q) + count
  <2>1. i \in 1 .. Len(q) + count /\ ~ (i <= Len(q)) /\ i - Len(q) \in 1 .. count
    BY <1>4
  <2> QED
    BY <2>1, <1>2, <1>5
<1>8. Grown(q, e, count, new)
  BY <1>5, <1>6, <1>7 DEF Grown
<1> QED
  BY <1>8 DEF new, more

LEMMA PlacesAfterEvents ==
  ASSUME NEW q \in Seq(Entry), NEW e \in Entry, e.kind = "durable", NEW count \in Nat,
         NEW new, Grown(q, e, count, new), NEW j \in Journal, NEW n \in Nat
  PROVE  Cardinality(PlacesOf(new, j, n)) =
           Cardinality(PlacesOf(q, j, n)) + (IF e.place = [journal |-> j, n |-> n] THEN count ELSE 0)
<1> DEFINE added == Len(q) + 1 .. Len(q) + count
<1>1. /\ new \in Seq(Entry) /\ Len(new) = Len(q) + count /\ Len(q) \in Nat
      /\ \A i \in 1 .. Len(q) : new[i] = q[i]
      /\ \A i \in added : new[i] = e
  BY LenProperties DEF Grown
<1>2. 1 .. Len(new) = (1 .. Len(q)) \cup added
  BY <1>1
<1>3. IsFiniteSet(PlacesOf(q, j, n)) /\ Cardinality(PlacesOf(q, j, n)) \in Nat
  BY PlacesAreFinite
<1>4. ASSUME e.place = [journal |-> j, n |-> n]
      PROVE  Cardinality(PlacesOf(new, j, n)) = Cardinality(PlacesOf(q, j, n)) + count
  <2>1. PlacesOf(new, j, n) = PlacesOf(q, j, n) \cup added
    BY <1>1, <1>2, <1>4 DEF PlacesOf
  <2>2. PlacesOf(q, j, n) \cap added = {}
    BY <1>1 DEF PlacesOf
  <2>3. IsFiniteSet(added) /\ Cardinality(added) = count
    BY <1>1, RunOfNumbers
  <2>4. Cardinality(PlacesOf(new, j, n)) = Cardinality(PlacesOf(q, j, n)) + count - Cardinality({})
    BY <1>3, <2>1, <2>2, <2>3, FS_Union
  <2> QED
    BY <1>3, <2>4, FS_EmptySet
<1>5. ASSUME e.place # [journal |-> j, n |-> n]
      PROVE  PlacesOf(new, j, n) = PlacesOf(q, j, n)
  BY <1>1, <1>2, <1>5 DEF PlacesOf
<1> QED
  BY <1>3, <1>4, <1>5

\* Next takes the first item of a queue.
LEMMA PlacesAfterTail ==
  ASSUME NEW q \in Seq(Entry), q # <<>>, NEW j \in Journal, NEW n \in Nat
  PROVE  LET match == Head(q).kind = "durable" /\ Head(q).place = [journal |-> j, n |-> n] IN
         /\ Head(q) \in Entry /\ Head(q) = q[1] /\ 1 \in 1 .. Len(q)
         /\ Tail(q) \in Seq(Entry) /\ Len(Tail(q)) = Len(q) - 1
         /\ \A i \in 1 .. Len(Tail(q)) : Tail(q)[i] = q[i + 1]
         /\ Cardinality(PlacesOf(q, j, n)) =
              Cardinality(PlacesOf(Tail(q), j, n)) + (IF match THEN 1 ELSE 0)
<1> DEFINE match == Head(q).kind = "durable" /\ Head(q).place = [journal |-> j, n |-> n]
           old == PlacesOf(q, j, n)
           rest == PlacesOf(Tail(q), j, n)
           moved == old \ {1}
           f == [i \in rest |-> i + 1]
<1>1. /\ Head(q) \in Entry /\ Tail(q) \in Seq(Entry) /\ Len(Tail(q)) = Len(q) - 1
      /\ \A i \in 1 .. Len(Tail(q)) : Tail(q)[i] = q[i + 1]
  BY HeadTailProperties
<1>2. Len(q) \in Nat \ {0} /\ Head(q) = q[1]
  BY EmptySeq
<1>3. rest \subseteq 1 .. Len(q) - 1 /\ rest \subseteq Nat
  BY <1>1, <1>2 DEF PlacesOf
<1>4. \A i \in 1 .. Len(q) - 1 : i \in rest <=> i + 1 \in moved
  <2> TAKE i \in 1 .. Len(q) - 1
  <2>1. i + 1 \in 1 .. Len(q) /\ i + 1 # 1 /\ Tail(q)[i] = q[i + 1] /\ i \in 1 .. Len(Tail(q))
    BY <1>1, <1>2
  <2> QED
    BY <2>1 DEF PlacesOf
<1>5. f \in Bijection(rest, moved)
  <2>1. f \in [rest -> moved]
    BY <1>3, <1>4
  <2>2. \A a, b \in rest : f[a] = f[b] => a = b
    BY <1>3
  <2>3. \A k \in moved : \E a \in rest : f[a] = k
    <3> TAKE k \in moved
    <3>1. k \in 2 .. Len(q)
      BY <1>2 DEF PlacesOf
    <3>2. k - 1 \in 1 .. Len(q) - 1 /\ (k - 1) + 1 = k
      BY <1>2, <3>1
    <3>3. k - 1 \in rest
      BY <1>4, <3>2
    <3> QED
      BY <3>2, <3>3
  <2> QED
    BY <2>1, <2>2, <2>3 DEF Bijection, Injection, Surjection, IsInjective
<1>6. IsFiniteSet(rest) /\ Cardinality(rest) \in Nat /\ IsFiniteSet(old) /\ Cardinality(old) \in Nat
  BY <1>1, PlacesAreFinite
<1>7. ExistsBijection(rest, moved)
  BY <1>5 DEF ExistsBijection
<1>8. Cardinality(moved) = Cardinality(rest)
  BY <1>6, <1>7, FS_Bijection
<1>9. Cardinality(moved) = IF 1 \in old THEN Cardinality(old) - 1 ELSE Cardinality(old)
  BY <1>6, FS_RemoveElement
<1>10. 1 \in old <=> match
  BY <1>2 DEF PlacesOf
<1>11. Cardinality(old) = Cardinality(rest) + (IF match THEN 1 ELSE 0)
  BY <1>6, <1>8, <1>9, <1>10
<1>12. 1 \in 1 .. Len(q)
  BY <1>2
<1> QED
  BY <1>1, <1>2, <1>11, <1>12

-----------------------------------------------------------------------------
(* Journals, cursors and what is in the hands of a client.                 *)

LEMMA LogFacts ==
  ASSUME NEW l \in Logs, NEW j \in Journal
  PROVE  /\ Len(l[j]) \in Nat /\ Len(l[j]) <= MaxCommits
         /\ \A n \in 1 .. Len(l[j]) :
              l[j][n] \in Transaction /\ Weight(l, j, n) \in Nat \ {0} /\ n \in Index
         /\ \A n \in Nat : n > Len(l[j]) => Weight(l, j, n) = 0
         /\ \A n \in Index : Weight(l, j, n) \in Nat
<1>1. l \in [Journal -> Seq(Transaction)] /\ Len(l["control"]) + Len(l["session"]) <= MaxCommits
  BY DEF Logs
<1>2. MaxCommits \in Nat /\ MaxSize \in Nat
  BY SizesAssumption
<1>3. \A k \in Journal : Len(l[k]) \in Nat
  BY <1>1, LenProperties
<1>4. Len(l[j]) <= MaxCommits /\ Len(l[j]) \in Nat
  BY <1>1, <1>2, <1>3 DEF Journal
<1>5. \A n \in 1 .. Len(l[j]) : l[j][n] \in Transaction
  BY <1>1, ElementOfSeq
<1>6. \A n \in 1 .. Len(l[j]) : Weight(l, j, n) \in Nat \ {0} /\ n \in Index
  BY <1>2, <1>4, <1>5 DEF Transaction, Weight, Index
<1>7. \A n \in Nat : n > Len(l[j]) => Weight(l, j, n) = 0
  BY <1>4 DEF Weight
<1>8. \A n \in Index : Weight(l, j, n) \in Nat
  <2> TAKE n \in Index
  <2>1. n \in Nat /\ (n \in 1 .. Len(l[j]) \/ n > Len(l[j]))
    BY <1>2, <1>4 DEF Index
  <2> QED
    BY <2>1, <1>6, <1>7
<1> QED
  BY <1>4, <1>5, <1>6, <1>7, <1>8

LEMMA BelowTransitive ==
  ASSUME NEW a \in [Journal -> Nat], NEW b \in [Journal -> Nat], NEW d \in [Journal -> Nat],
         Below(a, b), Below(b, d)
  PROVE  Below(a, d)
BY DEF Below

LEMMA KnowsMore ==
  ASSUME NEW r, NEW a \in [Journal -> Nat], NEW b \in [Journal -> Nat],
         Below(a, b), KnowsUpTo(r, a)
  PROVE  KnowsUpTo(r, b)
<1>1. \A n \in Index : n \in Nat
  BY SizesAssumption DEF Index
<1> QED
  BY <1>1 DEF Below, KnowsUpTo

LEMMA HandIsNumber ==
  ASSUME NEW s \in Subscription, NEW r \in Counters, NEW j \in Journal, NEW n \in Index
  PROVE  Hand(s, r, j, n) \in Nat
<1>1. s.queue \in Seq(Entry) /\ r[j][n] \in Nat
  BY DEF Subscription, Counters
<1>2. Cardinality(PlacesOf(s.queue, j, n)) \in Nat
  BY <1>1, PlacesAreFinite
<1> QED
  BY <1>1, <1>2 DEF Hand

LEMMA EntryFields ==
  ASSUME NEW s \in Subscription, NEW i \in 1 .. Len(s.queue)
  PROVE  /\ s.queue[i] \in Entry /\ s.queue[i].cursor \in Point
         /\ s.queue[i].cursor.at \in [Journal -> Nat]
         /\ s.queue[i].kind = "durable" => s.queue[i].place \in [journal : Journal, n : Nat]
<1>1. s.queue \in Seq(Entry)
  BY DEF Subscription
<1>2. s.queue[i] \in Entry
  BY <1>1, ElementOfSeq
<1> QED
  BY <1>2 DEF Entry, Point, Terminal

\* Beyond its cursor a subscription holds nothing.
LEMMA NothingAhead ==
  ASSUME NEW l, NEW s \in Subscription, NEW r \in Counters, Ordered(l, s, r), KnowsUpTo(r, s.cursor.at),
         NEW j \in Journal, NEW n \in Index, n > s.cursor.at[j]
  PROVE  Hand(s, r, j, n) = 0
<1>1. n \in Nat /\ s.cursor.at[j] \in Nat /\ r[j][n] \in Nat
  BY SizesAssumption DEF Index, Subscription, Counters, Point
<1>2. r[j][n] = 0
  BY <1>1 DEF KnowsUpTo
<1>3. PlacesOf(s.queue, j, n) = {}
  <2> SUFFICES ASSUME NEW i \in 1 .. Len(s.queue), s.queue[i].kind = "durable",
                      s.queue[i].place = [journal |-> j, n |-> n]
               PROVE  FALSE
    BY DEF PlacesOf
  <2>1. n <= s.queue[i].cursor.at[j]
    BY DEF Ordered
  <2>2. s.queue[i].cursor.at[j] <= s.cursor.at[j]
    BY DEF Ordered, Below
  <2>3. s.queue[i].cursor.at[j] \in Nat
    BY EntryFields
  <2> QED
    BY <1>1, <2>1, <2>2, <2>3
<1> QED
  BY <1>2, <1>3, FS_EmptySet DEF Hand

-----------------------------------------------------------------------------
(* What happens to a subscription.                                         *)

\* An item that is not of a transaction is put behind the others.
LEMMA MarkKeeps ==
  ASSUME NEW l \in Logs, NEW s \in Subscription, NEW r \in Counters, NEW u,
         Sound(l, s, r, u), KnowsUpTo(r, s.cursor.at),
         NEW e \in Entry, e.kind # "durable", e.cursor.at = s.cursor.at,
         NEW n \in Subscription, n.queue = Append(s.queue, e), n.cursor.at = s.cursor.at, n.from = s.from
  PROVE  Sound(l, n, r, u) /\ \A j \in Journal, m \in Index : Hand(n, r, j, m) = Hand(s, r, j, m)
<1>1. s.queue \in Seq(Entry)
  BY DEF Subscription
<1>2. /\ Len(s.queue) \in Nat /\ Len(n.queue) = Len(s.queue) + 1
      /\ \A i \in 1 .. Len(s.queue) : n.queue[i] = s.queue[i]
      /\ n.queue[Len(s.queue) + 1] = e
  BY <1>1, LenProperties, AppendProperties
<1>3. Ordered(l, n, r)
  <2> SUFFICES ASSUME NEW i \in 1 .. Len(n.queue)
               PROVE  /\ Below(n.queue[i].cursor.at, s.cursor.at)
                      /\ \A k \in i .. Len(n.queue) : Below(n.queue[i].cursor.at, n.queue[k].cursor.at)
                      /\ n.queue[i].kind = "durable" =>
                           /\ n.queue[i].place.n \in 1 .. Len(l[n.queue[i].place.journal])
                           /\ n.queue[i].place.n <= n.queue[i].cursor.at[n.queue[i].place.journal]
                      /\ KnowsUpTo(r, n.queue[i].cursor.at)
    BY DEF Ordered
  <2>1. Below(s.cursor.at, s.cursor.at)
    BY DEF Below, Subscription, Point
  <2>2. CASE i = Len(s.queue) + 1
    <3>1. n.queue[i] = e /\ \A k \in i .. Len(n.queue) : k = i
      BY <1>2, <2>2
    <3> QED
      BY <2>1, <3>1
  <2>3. CASE i # Len(s.queue) + 1
    <3>1. i \in 1 .. Len(s.queue) /\ n.queue[i] = s.queue[i]
      BY <1>2, <2>3
    <3>2. \A k \in i .. Len(n.queue) : n.queue[k] = e \/ (k \in i .. Len(s.queue) /\ n.queue[k] = s.queue[k])
      BY <1>2, <3>1
    <3> QED
      BY <3>1, <3>2 DEF Sound, Ordered
  <2> QED
    BY <2>2, <2>3
<1>4. Placed(l, n, r, u)
  BY DEF Sound, Placed
<1>5. \A j \in Journal, m \in Index : Hand(n, r, j, m) = Hand(s, r, j, m)
  BY <1>1, PlacesAfterAppend DEF Hand
<1> QED
  BY <1>3, <1>4, <1>5 DEF Sound

\* Events of a transaction are put behind the others.
LEMMA EnqueuedKeeps ==
  ASSUME NEW l \in Logs, NEW s \in Subscription, NEW r \in Counters, NEW u,
         Sound(l, s, r, u), KnowsUpTo(r, s.cursor.at), epoch \in Nat,
         NEW place \in [journal : Journal, n : Nat], place.n \in 1 .. Len(l[place.journal]),
         NEW count \in Nat
  PROVE  LET e == Enqueued(s, place, count) IN
         /\ Sound(l, e, r, u) /\ KnowsUpTo(r, e.cursor.at) /\ e.phase = s.phase /\ e.from = s.from
         /\ \A j \in Journal : e.cursor.at[j] =
              IF j = place.journal /\ place.n > s.cursor.at[j] THEN place.n ELSE s.cursor.at[j]
         /\ \A j \in Journal, m \in Index :
              Hand(e, r, j, m) =
                Hand(s, r, j, m) + (IF place = [journal |-> j, n |-> m] THEN count ELSE 0)
<1> DEFINE e == Enqueued(s, place, count)
           next == CursorAfter(s, place)
           item == [kind |-> "durable", place |-> place, cursor |-> next]
           new == s.queue \o [i \in 1 .. count |-> item]
<1>1. /\ s.queue \in Seq(Entry) /\ s.cursor \in Point /\ s.cursor.at \in [Journal -> Nat]
      /\ place.journal \in Journal /\ place.n \in Nat /\ Len(s.queue) \in Nat
  BY LenProperties DEF Subscription, Point
<1>2. /\ next \in Point
      /\ \A j \in Journal : next.at[j] =
              IF j = place.journal /\ place.n > s.cursor.at[j] THEN place.n ELSE s.cursor.at[j]
  <2>1. CASE HasCursor(s, place)
    BY <1>1, <2>1 DEF CursorAfter, HasCursor, Point
  <2>2. CASE ~ HasCursor(s, place)
    BY <1>1, <2>2 DEF CursorAfter, HasCursor, Point
  <2> QED
    BY <2>1, <2>2
<1> HIDE DEF next
<1>13. item \in Entry /\ item.kind = "durable" /\ item.place = place /\ item.cursor = next
  BY <1>2 DEF Entry
<1> HIDE DEF item
<1>14. Grown(s.queue, item, count, new)
  BY <1>1, <1>13, EventsGrow
<1> HIDE DEF new
<1>3. /\ new \in Seq(Entry) /\ Len(new) = Len(s.queue) + count
      /\ \A i \in 1 .. Len(s.queue) : new[i] = s.queue[i]
      /\ \A i \in Len(s.queue) + 1 .. Len(s.queue) + count : new[i] = item
  BY <1>14 DEF Grown
<1>4. \A j \in Journal, m \in Index :
        Cardinality(PlacesOf(new, j, m)) =
          Cardinality(PlacesOf(s.queue, j, m)) + (IF place = [journal |-> j, n |-> m] THEN count ELSE 0)
  <2> TAKE j \in Journal, m \in Index
  <2>1. m \in Nat
    BY SizesAssumption DEF Index
  <2>2. Cardinality(PlacesOf(new, j, m)) =
          Cardinality(PlacesOf(s.queue, j, m)) + (IF item.place = [journal |-> j, n |-> m] THEN count ELSE 0)
    <3>1. s.queue \in Seq(Entry) /\ item \in Entry /\ item.kind = "durable"
      BY <1>1, <1>13
    <3> QED
      BY <1>14, <2>1, <3>1, PlacesAfterEvents
  <2> QED
    BY <1>13, <2>2
<1>5. /\ e.queue = new /\ e.cursor = next /\ e.phase = s.phase /\ e.from = s.from /\ e.wake = TRUE
      /\ e \in Subscription
  BY <1>2, <1>3 DEF Enqueued, Subscription, new, next, item
<1> HIDE DEF e
<1>6. Below(s.cursor.at, next.at) /\ Below(next.at, Heads(l))
  <2>1. \A j \in Journal : s.cursor.at[j] <= Len(l[j])
    BY DEF Sound, Placed, Below, Heads
  <2>2. \A j \in Journal : Len(l[j]) \in Nat
    BY LogFacts
  <2>3. \A j \in Journal : s.cursor.at[j] <= next.at[j] /\ next.at[j] <= Len(l[j])
    <3> TAKE j \in Journal
    <3>1. s.cursor.at[j] \in Nat
      BY <1>1
    <3> QED
      BY <1>1, <1>2, <2>1, <2>2, <3>1
  <2> QED
    BY <2>3 DEF Below, Heads
<1>7. next.at \in [Journal -> Nat] /\ Heads(l) \in [Journal -> Nat] /\ s.from \in [Journal -> Nat]
  BY <1>2, LogFacts DEF Point, Heads, Subscription
<1>8. KnowsUpTo(r, next.at)
  BY <1>1, <1>6, <1>7, KnowsMore
<1>9. Ordered(l, e, r)
  <2> SUFFICES ASSUME NEW i \in 1 .. Len(new)
               PROVE  /\ Below(new[i].cursor.at, next.at)
                      /\ \A k \in i .. Len(new) : Below(new[i].cursor.at, new[k].cursor.at)
                      /\ new[i].kind = "durable" =>
                           /\ new[i].place.n \in 1 .. Len(l[new[i].place.journal])
                           /\ new[i].place.n <= new[i].cursor.at[new[i].place.journal]
                      /\ KnowsUpTo(r, new[i].cursor.at)
    BY <1>5 DEF Ordered
  <2>1. Below(next.at, next.at)
    BY <1>7 DEF Below
  <2>2. CASE i > Len(s.queue)
    <3>1. \A k \in i .. Len(new) : new[k] = item
      BY <1>1, <1>3, <2>2
    <3>2. new[i] = item /\ i \in i .. Len(new)
      BY <1>1, <1>3, <2>2
    <3>3. item.place.n <= item.cursor.at[item.place.journal]
      BY <1>1, <1>2, <1>13
    <3> QED
      BY <1>8, <1>13, <2>1, <3>1, <3>2, <3>3
  <2>3. CASE ~ (i > Len(s.queue))
    <3>1. i \in 1 .. Len(s.queue) /\ new[i] = s.queue[i]
      BY <1>1, <1>3, <2>3
    <3>2. /\ Below(s.queue[i].cursor.at, s.cursor.at)
          /\ \A k \in i .. Len(s.queue) : Below(s.queue[i].cursor.at, s.queue[k].cursor.at)
          /\ s.queue[i].kind = "durable" =>
               /\ s.queue[i].place.n \in 1 .. Len(l[s.queue[i].place.journal])
               /\ s.queue[i].place.n <= s.queue[i].cursor.at[s.queue[i].place.journal]
          /\ KnowsUpTo(r, s.queue[i].cursor.at)
      BY <3>1 DEF Sound, Ordered
    <3>3. s.queue[i].cursor.at \in [Journal -> Nat]
      BY <3>1, EntryFields
    <3>4. Below(s.queue[i].cursor.at, next.at)
      BY <1>1, <1>6, <1>7, <3>2, <3>3, BelowTransitive
    <3>5. \A k \in i .. Len(new) : (k \in i .. Len(s.queue) /\ new[k] = s.queue[k]) \/ new[k] = item
      BY <1>1, <1>3, <3>1
    <3>6. \A k \in i .. Len(new) : Below(new[i].cursor.at, new[k].cursor.at)
      <4> TAKE k \in i .. Len(new)
      <4>1. CASE k \in i .. Len(s.queue) /\ new[k] = s.queue[k]
        BY <3>1, <3>2, <4>1
      <4>2. CASE new[k] = item
        BY <1>13, <3>1, <3>4, <4>2
      <4> QED
        BY <3>5, <4>1, <4>2
    <3> QED
      BY <1>13, <3>1, <3>2, <3>4, <3>6
  <2> QED
    BY <2>2, <2>3
<1>10. Placed(l, e, r, u)
  <2>1. Below(s.from, next.at)
    BY <1>1, <1>6, <1>7, BelowTransitive DEF Sound, Placed
  <2> QED
    BY <1>5, <1>6, <1>8, <2>1 DEF Sound, Placed
<1>11. Sound(l, e, r, u)
  BY <1>5, <1>9, <1>10 DEF Sound
<1>12. \A j \in Journal, m \in Index :
         Hand(e, r, j, m) = Hand(s, r, j, m) + (IF place = [journal |-> j, n |-> m] THEN count ELSE 0)
  <2> TAKE j \in Journal, m \in Index
  <2>1. r[j][m] \in Nat /\ Cardinality(PlacesOf(s.queue, j, m)) \in Nat
    BY <1>1, PlacesAreFinite DEF Counters
  <2> QED
    BY <1>4, <1>5, <2>1 DEF Hand
<1> QED
  BY <1>2, <1>5, <1>8, <1>11, <1>12 DEF e

\* A terminal is queued behind everything, at the cursor of the subscription.
Closes(s, z, phase) ==
  /\ z \in Subscription /\ z.cursor = s.cursor /\ z.from = s.from /\ z.phase = phase
  /\ \E e \in Entry : /\ e.kind # "durable" /\ e.cursor.at = s.cursor.at
                      /\ z.queue = Append(s.queue, e)

LEMMA TerminatedCloses ==
  ASSUME NEW s \in Subscription, NEW phase \in Phases, NEW kind \in Terminal, NEW n \in Nat
  PROVE  Closes(s, Terminated(s, phase, kind, s.cursor.at, n), phase)
<1> DEFINE e == [kind |-> kind, cursor |-> [at |-> s.cursor.at, epoch |-> n]]
           z == Terminated(s, phase, kind, s.cursor.at, n)
<1>1. e \in Entry /\ e.kind # "durable" /\ e.cursor.at = s.cursor.at
  BY DEF Entry, Point, Subscription, Terminal
<1>2. Append(s.queue, e) \in Seq(Entry)
  BY <1>1, AppendProperties DEF Subscription
<1>3. z = [s EXCEPT !.phase = phase, !.wake = TRUE, !.queue = Append(@, e)]
  BY DEF Terminated
<1> HIDE DEF e, z
<1>4. /\ z \in Subscription /\ z.cursor = s.cursor /\ z.from = s.from /\ z.phase = phase
      /\ z.queue = Append(s.queue, e)
  BY <1>2, <1>3 DEF Subscription
<1>5. Closes(s, z, phase)
  BY <1>1, <1>4 DEF Closes
<1> QED
  BY <1>5 DEF z

\* It leaves what the subscription has in hand.
LEMMA ClosesKeeps ==
  ASSUME NEW l \in Logs, NEW s \in Subscription, NEW r \in Counters, NEW u,
         Sound(l, s, r, u), KnowsUpTo(r, s.cursor.at), NEW phase, NEW z, Closes(s, z, phase)
  PROVE  /\ Sound(l, z, r, u)
         /\ \A j \in Journal, m \in Index : Hand(z, r, j, m) = Hand(s, r, j, m)
<1>1. PICK e \in Entry : e.kind # "durable" /\ e.cursor.at = s.cursor.at /\ z.queue = Append(s.queue, e)
  BY DEF Closes
<1>2. z \in Subscription /\ z.cursor = s.cursor /\ z.from = s.from
  BY DEF Closes
<1> QED
  BY <1>1, <1>2, MarkKeeps

LEMMA WithinIndex ==
  ASSUME NEW l \in Logs, NEW s, NEW r, NEW u, Sound(l, s, r, u),
         NEW j \in Journal, NEW n \in s.from[j] + 1 .. s.cursor.at[j]
  PROVE  n \in Index /\ n \in 1 .. Len(l[j])
<1>1. s.from[j] \in Nat /\ s.cursor.at[j] \in Nat /\ s.cursor.at[j] <= Len(l[j])
  BY DEF Sound, Subscription, Point, Placed, Below, Heads
<1>2. n \in 1 .. Len(l[j])
  BY <1>1, LogFacts
<1> QED
  BY <1>2, LogFacts

-----------------------------------------------------------------------------
(* The journals grow.                                                      *)

Extends(l, m) == \A j \in Journal :
  /\ Len(l[j]) <= Len(m[j])
  /\ \A n \in 1 .. Len(l[j]) : m[j][n] = l[j][n]
  /\ \A n \in Len(l[j]) + 1 .. Len(m[j]) : ~ Sent(m, j, n)

LEMMA SoundGrows ==
  ASSUME NEW l \in Logs, NEW m \in Logs, Below(Heads(l), Heads(m)),
         NEW s, NEW r, NEW u, Sound(l, s, r, u)
  PROVE  Sound(m, s, r, u)
<1>1. Heads(l) \in [Journal -> Nat] /\ Heads(m) \in [Journal -> Nat]
  BY LogFacts DEF Heads
<1>2. s \in Subscription /\ s.cursor.at \in [Journal -> Nat] /\ (u # None => u.at \in [Journal -> Nat])
  BY DEF Sound, Subscription, Point
<1>3. Placed(m, s, r, u)
  BY <1>1, <1>2, BelowTransitive, KnowsMore DEF Sound, Placed
<1>4. Ordered(m, s, r)
  <2> SUFFICES ASSUME NEW i \in 1 .. Len(s.queue), s.queue[i].kind = "durable"
               PROVE  s.queue[i].place.n \in 1 .. Len(m[s.queue[i].place.journal])
    BY DEF Sound, Ordered
  <2>1. s.queue[i].place \in [journal : Journal, n : Nat]
    BY <1>2, EntryFields
  <2>2. s.queue[i].place.n \in 1 .. Len(l[s.queue[i].place.journal])
    BY DEF Sound, Ordered
  <2>3. \A j \in Journal : Len(l[j]) \in Nat /\ Len(m[j]) \in Nat /\ Len(l[j]) <= Len(m[j])
    BY LogFacts DEF Below, Heads
  <2> QED
    BY <2>1, <2>2, <2>3
<1> QED
  BY <1>3, <1>4 DEF Sound

LEMMA WellExtends ==
  ASSUME NEW l \in Logs, NEW m \in Logs, Extends(l, m),
         NEW s, NEW r, NEW u, NEW step, NEW t \in Counters, Well(l, s, r, u, step, t)
  PROVE  Well(m, s, r, u, step, t)
<1>1. \A j \in Journal : Len(l[j]) \in Nat /\ Len(m[j]) \in Nat /\ Len(l[j]) <= Len(m[j])
  BY LogFacts DEF Extends
<1>2. Below(Heads(l), Heads(m))
  BY <1>1 DEF Below, Heads
<1>3. Sound(l, s, r, u) /\ Sound(m, s, r, u)
  BY <1>2, SoundGrows DEF Well
<1>4. /\ s \in Subscription /\ s.cursor.at \in [Journal -> Nat] /\ s.from \in [Journal -> Nat]
      /\ \A j \in Journal : s.cursor.at[j] <= Len(l[j])
  BY <1>3 DEF Sound, Subscription, Point, Placed, Below, Heads
<1>5. \A j \in Journal : \A n \in Nat : Unsent(l, j, n) => Unsent(m, j, n)
  <2> SUFFICES ASSUME NEW j \in Journal, NEW n \in Nat, Unsent(l, j, n), NEW k \in n + 1 .. Len(m[j])
               PROVE  ~ Sent(m, j, k)
    BY DEF Unsent
  <2>1. CASE k <= Len(l[j])
    <3>1. k \in 1 .. Len(l[j]) /\ k \in n + 1 .. Len(l[j])
      BY <1>1, <2>1
    <3> QED
      BY <3>1 DEF Extends, Unsent, Sent
  <2>2. CASE ~ (k <= Len(l[j]))
    <3>1. k \in Len(l[j]) + 1 .. Len(m[j])
      BY <1>1, <2>2
    <3> QED
      BY <3>1 DEF Extends
  <2> QED
    BY <2>1, <2>2
<1>6. \A j \in Journal : \A n \in 1 .. Len(l[j]) :
        (InOrder(m, j, n) => InOrder(l, j, n)) /\ Weight(m, j, n) = Weight(l, j, n)
  <2> TAKE j \in Journal
  <2> TAKE n \in 1 .. Len(l[j])
  <2>1. m[j][n] = l[j][n] /\ n \in Nat
    BY DEF Extends
  <2>2. Passed(l, j, n) => Passed(m, j, n)
    <3> SUFFICES ASSUME NEW k \in n + 1 .. Len(l[j]), Sent(l, j, k)
                 PROVE  k \in n + 1 .. Len(m[j]) /\ Sent(m, j, k)
      BY DEF Passed
    <3>1. k \in 1 .. Len(l[j]) /\ k \in n + 1 .. Len(m[j])
      BY <1>1, <2>1
    <3> QED
      BY <3>1 DEF Extends, Sent
  <2>3. Weight(m, j, n) = Weight(l, j, n)
    BY <1>1, <2>1 DEF Weight
  <2> QED
    BY <2>1, <2>2, <2>3 DEF InOrder
<1>7. Covered(m, s, r)
  <2> SUFFICES ASSUME s.phase \in {"open", "ended"}, NEW j \in Journal,
                      NEW n \in s.from[j] + 1 .. s.cursor.at[j], InOrder(m, j, n)
               PROVE  Hand(s, r, j, n) = Weight(m, j, n)
    BY DEF Covered
  <2>1. n \in 1 .. Len(l[j])
    BY <1>1, <1>4
  <2>2. InOrder(l, j, n) /\ Weight(m, j, n) = Weight(l, j, n)
    BY <1>6, <2>1
  <2> QED
    BY <2>2 DEF Well, Covered
<1>8. Ahead(m, s)
  BY <1>4, <1>5 DEF Well, Ahead
<1>9. \A j \in Journal : HasRead(l, s, r, t, j) => HasRead(m, s, r, t, j)
  <2> TAKE j \in Journal
  <2> SUFFICES ASSUME NEW h \in Nat, ReadUpTo(l, s, r, t, j, h)
               PROVE  ReadUpTo(m, s, r, t, j, h)
    BY DEF HasRead
  <2>1. h \in s.cursor.at[j] .. Len(l[j]) /\ h \in s.cursor.at[j] .. Len(m[j])
    BY <1>1, <1>4 DEF ReadUpTo
  <2>2. \A n \in s.from[j] + 1 .. h : n \in 1 .. Len(l[j])
    BY <1>1, <1>4, <2>1
  <2>3. \A n \in s.from[j] + 1 .. h : Weight(m, j, n) = Weight(l, j, n)
    BY <1>6, <2>2
  <2>4. Unsent(m, j, h)
    BY <1>5 DEF ReadUpTo
  <2> QED
    BY <2>1, <2>3, <2>4 DEF ReadUpTo
<1>10. InStep(m, s, r, step, t)
  <2>1. "control" \in Journal /\ "session" \in Journal /\ InStep(l, s, r, step, t)
    BY DEF Journal, Well
  <2>2. s.cursor.at["control"] \in Nat
    BY <1>4, <2>1
  <2>3. Unsent(l, "control", s.cursor.at["control"]) => Unsent(m, "control", s.cursor.at["control"])
    BY <1>5, <2>1, <2>2
  <2>4. Snapshotting(l, s, r) => Snapshotting(m, s, r)
    BY <2>3 DEF Snapshotting
  <2>5. /\ HasRead(l, s, r, t, "control") => HasRead(m, s, r, t, "control")
        /\ HasRead(l, s, r, t, "session") => HasRead(m, s, r, t, "session")
    BY <1>9, <2>1
  <2> QED
    BY <2>1, <2>4, <2>5 DEF InStep
<1> QED
  BY <1>3, <1>7, <1>8, <1>10 DEF Well

-----------------------------------------------------------------------------
(* Publication.                                                            *)

\* Publish marks its transaction: late, if a later one of the journal is out.
Marks(l, m, place) ==
  /\ place \in [journal : Journal, n : Nat] /\ place.n \in 1 .. Len(l[place.journal])
  /\ l[place.journal][place.n].status = "committed"
  /\ \A j \in Journal : Len(m[j]) = Len(l[j])
  /\ \A j \in Journal : \A n \in 1 .. Len(l[j]) :
       [journal |-> j, n |-> n] # place => m[j][n] = l[j][n]
  /\ m[place.journal][place.n].size = l[place.journal][place.n].size
  /\ m[place.journal][place.n].status =
       IF Passed(l, place.journal, place.n) THEN "late" ELSE "published"

\* Nothing that was out of order comes to order; only what is marked is sent;
\* what lies before it and was not sent is passed.
LEMMA MarksFacts ==
  ASSUME NEW l \in Logs, NEW m \in Logs, NEW place, Marks(l, m, place)
  PROVE  /\ Heads(m) = Heads(l)
         /\ \A j \in Journal : \A n \in 1 .. Len(l[j]) :
              /\ Weight(m, j, n) = Weight(l, j, n)
              /\ InOrder(m, j, n) => InOrder(l, j, n)
              /\ Sent(m, j, n) => Sent(l, j, n) \/ [journal |-> j, n |-> n] = place
              /\ j = place.journal /\ n < place.n /\ InOrder(m, j, n) => Sent(l, j, n)
<1>1. /\ place \in [journal : Journal, n : Nat] /\ place.n \in 1 .. Len(l[place.journal])
      /\ place.journal \in Journal /\ place.n \in Nat /\ place = [journal |-> place.journal, n |-> place.n]
      /\ \A j \in Journal : Len(m[j]) = Len(l[j]) /\ Len(l[j]) \in Nat
  BY LogFacts DEF Marks
<1>2. Heads(m) = Heads(l)
  BY <1>1 DEF Heads
<1>3. Sent(m, place.journal, place.n)
  BY DEF Marks, Sent
<1>4. \A j \in Journal : \A n \in 1 .. Len(l[j]) : Sent(l, j, n) => Sent(m, j, n)
  <2> TAKE j \in Journal
  <2> TAKE n \in 1 .. Len(l[j])
  <2>1. CASE [journal |-> j, n |-> n] = place
    BY <1>3, <2>1
  <2>2. CASE [journal |-> j, n |-> n] # place
    BY <2>2 DEF Marks, Sent
  <2> QED
    BY <2>1, <2>2
<1>5. \A j \in Journal : \A n \in 1 .. Len(l[j]) : Passed(l, j, n) => Passed(m, j, n)
  <2> SUFFICES ASSUME NEW j \in Journal, NEW n \in 1 .. Len(l[j]), NEW k \in n + 1 .. Len(l[j]), Sent(l, j, k)
               PROVE  k \in n + 1 .. Len(m[j]) /\ Sent(m, j, k)
    BY DEF Passed
  <2>1. k \in 1 .. Len(l[j]) /\ k \in n + 1 .. Len(m[j])
    BY <1>1
  <2> QED
    BY <1>4, <2>1
<1> SUFFICES ASSUME NEW j \in Journal, NEW n \in 1 .. Len(l[j])
             PROVE  /\ Weight(m, j, n) = Weight(l, j, n)
                    /\ InOrder(m, j, n) => InOrder(l, j, n)
                    /\ Sent(m, j, n) => Sent(l, j, n) \/ [journal |-> j, n |-> n] = place
                    /\ j = place.journal /\ n < place.n /\ InOrder(m, j, n) => Sent(l, j, n)
  BY <1>2
<1>6. Passed(l, j, n) => Passed(m, j, n)
  BY <1>5
<1>7. CASE [journal |-> j, n |-> n] = place
  <2>1. j = place.journal /\ n = place.n
    BY <1>7
  <2>2. Weight(m, j, n) = Weight(l, j, n)
    BY <1>1, <2>1 DEF Marks, Weight
  <2>3. InOrder(m, j, n) => InOrder(l, j, n)
    BY <2>1 DEF Marks, InOrder
  <2>4. ~ (n < place.n)
    BY <1>1, <2>1
  <2> QED
    BY <1>7, <2>2, <2>3, <2>4
<1>8. CASE [journal |-> j, n |-> n] # place
  <2>1. m[j][n] = l[j][n]
    BY <1>8 DEF Marks
  <2>2. Weight(m, j, n) = Weight(l, j, n)
    BY <1>1, <2>1 DEF Weight
  <2>3. InOrder(m, j, n) => InOrder(l, j, n)
    BY <1>6, <2>1 DEF InOrder
  <2>4. j = place.journal /\ n < place.n => Passed(m, j, n)
    <3> SUFFICES ASSUME j = place.journal, n < place.n
                 PROVE  place.n \in n + 1 .. Len(m[j])
      BY <1>3 DEF Passed
    <3> QED
      BY <1>1
  <2>5. j = place.journal /\ n < place.n /\ InOrder(m, j, n) => Sent(l, j, n)
    BY <2>1, <2>4 DEF InOrder, Sent
  <2> QED
    BY <2>1, <2>2, <2>3, <2>5 DEF Sent
<1> QED
  BY <1>7, <1>8

\* A subscription that the publication does not change: it is not open, or its
\* cursor is there already.
LEMMA MarkedOutside ==
  ASSUME NEW l \in Logs, NEW m \in Logs, NEW place, Marks(l, m, place),
         NEW s, NEW r, NEW u, NEW step, step \notin Busy, NEW t, Well(l, s, r, u, step, t),
         s.phase = "open" => s.cursor.at[place.journal] >= place.n
  PROVE  Well(m, s, r, u, step, t)
<1>1. Heads(m) = Heads(l) /\ \A j \in Journal : Len(l[j]) \in Nat /\ Len(m[j]) = Len(l[j])
  <2>1. Heads(m) = Heads(l)
    BY MarksFacts
  <2> QED
    BY <2>1, LogFacts DEF Marks
<1>2. Below(Heads(l), Heads(m))
  BY <1>1 DEF Below, Heads
<1>3. Sound(l, s, r, u) /\ Sound(m, s, r, u)
  BY <1>2, SoundGrows DEF Well
<1>4. /\ s \in Subscription /\ s.cursor.at \in [Journal -> Nat] /\ s.from \in [Journal -> Nat]
      /\ \A j \in Journal : s.cursor.at[j] <= Len(l[j])
  BY <1>3 DEF Sound, Subscription, Point, Placed, Below, Heads
<1>5. Covered(m, s, r)
  <2> SUFFICES ASSUME s.phase \in {"open", "ended"}, NEW j \in Journal,
                      NEW n \in s.from[j] + 1 .. s.cursor.at[j], InOrder(m, j, n)
               PROVE  Hand(s, r, j, n) = Weight(m, j, n)
    BY DEF Covered
  <2>1. n \in 1 .. Len(l[j])
    BY <1>1, <1>4
  <2>2. InOrder(l, j, n) /\ Weight(m, j, n) = Weight(l, j, n)
    BY <2>1, MarksFacts
  <2> QED
    BY <2>2 DEF Well, Covered
<1>6. Ahead(m, s)
  <2> SUFFICES ASSUME s.phase = "open", NEW j \in Journal, NEW n \in s.cursor.at[j] + 1 .. Len(m[j])
               PROVE  ~ Sent(m, j, n)
    BY DEF Ahead, Unsent
  <2>1. n \in 1 .. Len(l[j]) /\ n \in s.cursor.at[j] + 1 .. Len(l[j]) /\ n > s.cursor.at[j]
    BY <1>1, <1>4
  <2>2. ~ Sent(l, j, n)
    BY <2>1 DEF Well, Ahead, Unsent
  <2>3. [journal |-> j, n |-> n] # place
    <3>1. place.n \in Nat /\ s.cursor.at[j] \in Nat /\ n \in Nat
      BY <1>4, <2>1 DEF Marks
    <3> QED
      BY <2>1, <3>1
  <2> QED
    BY <2>1, <2>2, <2>3, MarksFacts
<1>7. InStep(m, s, r, step, t)
  BY DEF InStep, Busy
<1> QED
  BY <1>3, <1>5, <1>6, <1>7 DEF Well

\* enqueueTransactionLocked, all of the transaction: its events are the first of
\* this journal behind the cursor, and what lies between is passed.
LEMMA MarkedEnqueued ==
  ASSUME NEW l \in Logs, NEW m \in Logs, NEW place, Marks(l, m, place), epoch \in Nat,
         NEW s, NEW r, NEW u, NEW step, step \notin Busy, NEW t, Well(l, s, r, u, step, t),
         s.phase = "open", s.cursor.at[place.journal] < place.n,
         NEW e, e = Enqueued(s, place, Weight(l, place.journal, place.n))
  PROVE  Well(m, e, r, u, step, t)
<1> DEFINE size == Weight(l, place.journal, place.n)
<1>1. /\ Heads(m) = Heads(l) /\ \A j \in Journal : Len(l[j]) \in Nat /\ Len(m[j]) = Len(l[j])
      /\ place \in [journal : Journal, n : Nat] /\ place.n \in 1 .. Len(l[place.journal])
      /\ place.journal \in Journal /\ place.n \in Nat
  <2>1. Heads(m) = Heads(l)
    BY MarksFacts
  <2> QED
    BY <2>1, LogFacts DEF Marks
<1>2. Below(Heads(l), Heads(m))
  BY <1>1 DEF Below, Heads
<1>3. Sound(l, s, r, u) /\ s \in Subscription /\ r \in Counters /\ KnowsUpTo(r, s.cursor.at)
  BY DEF Well, Sound, Placed
<1>4. size \in Nat
  BY <1>1, LogFacts
<1>5. /\ Sound(l, e, r, u) /\ e.phase = s.phase /\ e.from = s.from
      /\ \A j \in Journal : e.cursor.at[j] =
           IF j = place.journal /\ place.n > s.cursor.at[j] THEN place.n ELSE s.cursor.at[j]
      /\ \A j \in Journal, n \in Index :
           Hand(e, r, j, n) =
             Hand(s, r, j, n) + (IF place = [journal |-> j, n |-> n] THEN size ELSE 0)
  <2> HIDE DEF size
  <2>1. e = Enqueued(s, place, size)
    BY DEF size
  <2> QED
    BY <1>1, <1>3, <1>4, <2>1, EnqueuedKeeps
<1>6. Sound(m, e, r, u)
  BY <1>2, <1>5, SoundGrows
<1>7. /\ s.cursor.at \in [Journal -> Nat] /\ s.from \in [Journal -> Nat]
      /\ \A j \in Journal : s.cursor.at[j] <= Len(l[j]) /\ s.from[j] <= s.cursor.at[j]
  BY <1>3 DEF Sound, Subscription, Point, Placed, Below, Heads
<1>8. \A j \in Journal : /\ s.cursor.at[j] <= e.cursor.at[j] /\ e.cursor.at[j] \in Nat
                         /\ e.cursor.at[j] <= Len(l[j])
                         /\ j # place.journal => e.cursor.at[j] = s.cursor.at[j]
                         /\ j = place.journal => e.cursor.at[j] = place.n
  BY <1>1, <1>5, <1>7
<1>9. Ahead(m, e)
  <2> SUFFICES ASSUME NEW j \in Journal, NEW n \in e.cursor.at[j] + 1 .. Len(m[j])
               PROVE  ~ Sent(m, j, n)
    BY DEF Ahead, Unsent
  <2>1. n \in 1 .. Len(l[j]) /\ n \in s.cursor.at[j] + 1 .. Len(l[j]) /\ n > e.cursor.at[j] /\ n \in Nat
    <3>1. /\ s.cursor.at[j] \in Nat /\ e.cursor.at[j] \in Nat /\ s.cursor.at[j] <= e.cursor.at[j]
          /\ Len(m[j]) = Len(l[j]) /\ Len(l[j]) \in Nat
      BY <1>1, <1>7, <1>8
    <3> QED
      BY <3>1
  <2>2. ~ Sent(l, j, n)
    <3>1. Unsent(l, j, s.cursor.at[j])
      BY DEF Well, Ahead
    <3> QED
      BY <2>1, <3>1 DEF Unsent
  <2>3. [journal |-> j, n |-> n] # place
    BY <1>1, <1>8, <2>1
  <2> QED
    BY <2>1, <2>2, <2>3, MarksFacts
<1>10. Covered(m, e, r)
  <2> SUFFICES ASSUME NEW j \in Journal, NEW n \in e.from[j] + 1 .. e.cursor.at[j], InOrder(m, j, n)
               PROVE  Hand(e, r, j, n) = Weight(m, j, n)
    BY DEF Covered
  <2>1. /\ n \in 1 .. Len(l[j]) /\ n \in Nat /\ n \in s.from[j] + 1 .. e.cursor.at[j]
        /\ Weight(m, j, n) = Weight(l, j, n) /\ InOrder(l, j, n) /\ n \in Index
    <3>1. n \in 1 .. Len(l[j]) /\ n \in Nat /\ n \in s.from[j] + 1 .. e.cursor.at[j]
      BY <1>1, <1>5, <1>7, <1>8
    <3> QED
      BY <3>1, MarksFacts, LogFacts
  <2>2. CASE n \in s.from[j] + 1 .. s.cursor.at[j]
    <3>1. Hand(s, r, j, n) = Weight(l, j, n)
      BY <2>1, <2>2 DEF Well, Covered
    <3>2. place # [journal |-> j, n |-> n]
      BY <1>1, <1>7, <2>2
    <3>3. Hand(s, r, j, n) \in Nat
      BY <1>3, <2>1, HandIsNumber
    <3>4. Hand(e, r, j, n) = Hand(s, r, j, n) + 0
      BY <1>5, <2>1, <3>2
    <3> QED
      BY <2>1, <3>1, <3>3, <3>4
  <2>3. CASE n \notin s.from[j] + 1 .. s.cursor.at[j]
    <3>1. n > s.cursor.at[j] /\ j = place.journal /\ n <= place.n
      BY <1>1, <1>7, <1>8, <2>1, <2>3
    <3>2. n = place.n
      <4>1. SUFFICES ASSUME n < place.n PROVE FALSE
        BY <1>1, <2>1, <3>1
      <4>2. Sent(l, j, n)
        BY <2>1, <3>1, <4>1, MarksFacts
      <4>3. n \in s.cursor.at[j] + 1 .. Len(l[j])
        BY <1>1, <1>7, <2>1, <3>1
      <4> QED
        BY <4>2, <4>3 DEF Well, Ahead, Unsent
    <3>3. Hand(s, r, j, n) = 0
      BY <1>3, <2>1, <3>1, NothingAhead DEF Sound
    <3>4. place = [journal |-> j, n |-> n]
      BY <1>1, <3>1, <3>2
    <3>5. Hand(e, r, j, n) = 0 + size
      BY <1>5, <2>1, <3>3, <3>4
    <3> QED
      BY <1>4, <2>1, <3>1, <3>2, <3>5
  <2> QED
    BY <2>2, <2>3
<1>11. InStep(m, e, r, step, t)
  BY DEF InStep, Busy
<1> QED
  BY <1>6, <1>9, <1>10, <1>11 DEF Well

\* A live subscription that is ended keeps what it owes up to its cursor.
LEMMA ClosedWell ==
  ASSUME NEW l \in Logs, NEW s, NEW r, NEW u, NEW step, step \notin Busy, NEW t,
         Well(l, s, r, u, step, t), s.phase = "open", NEW z, Closes(s, z, "ended")
  PROVE  Well(l, z, r, u, step, t)
<1>1. Sound(l, s, r, u) /\ s \in Subscription /\ r \in Counters /\ KnowsUpTo(r, s.cursor.at)
  BY DEF Well, Sound, Placed
<1>2. z.cursor = s.cursor /\ z.from = s.from /\ z.phase = "ended"
  BY DEF Closes
<1>3. Sound(l, z, r, u) /\ \A j \in Journal, n \in Index : Hand(z, r, j, n) = Hand(s, r, j, n)
  BY <1>1, ClosesKeeps
<1>4. Covered(l, z, r)
  <2> SUFFICES ASSUME NEW j \in Journal, NEW n \in s.from[j] + 1 .. s.cursor.at[j], InOrder(l, j, n)
               PROVE  Hand(z, r, j, n) = Weight(l, j, n)
    BY <1>2 DEF Covered
  <2>1. Hand(s, r, j, n) = Weight(l, j, n)
    BY DEF Well, Covered
  <2>2. n \in Index
    BY <1>1, WithinIndex
  <2> QED
    BY <1>3, <2>1, <2>2
<1>5. Ahead(l, z) /\ InStep(l, z, r, step, t)
  BY <1>2 DEF Ahead, InStep, Busy
<1> QED
  BY <1>3, <1>4, <1>5 DEF Well

\* PublishCommitted delivers to every subscription.
LEMMA DeliveredWell ==
  ASSUME NEW l \in Logs, NEW m \in Logs, NEW place, Marks(l, m, place), epoch \in Nat,
         NEW s, NEW r, NEW u, NEW step, step \notin Busy, NEW t, Well(l, s, r, u, step, t)
  PROVE  Well(m, Delivered(s, place, Weight(l, place.journal, place.n)), r, u, step, t)
<1> DEFINE size == Weight(l, place.journal, place.n)
           d == Delivered(s, place, size)
<1>1. s \in Subscription /\ s.cursor.at \in [Journal -> Nat] /\ s.cursor.epoch \in Nat
  BY DEF Well, Sound, Subscription, Point
<1>2. place.journal \in Journal /\ place.n \in Nat /\ s.cursor.at[place.journal] \in Nat
  BY <1>1 DEF Marks
<1>3. CASE s.phase # "open" \/ HasCursor(s, place)
  <2>1. d = s
    BY <1>3 DEF Delivered
  <2>2. s.phase = "open" => s.cursor.at[place.journal] >= place.n
    BY <1>3 DEF HasCursor
  <2>3. Well(m, s, r, u, step, t)
    BY <2>2, MarkedOutside
  <2> QED
    BY <2>1, <2>3
<1>4. CASE ~ (s.phase # "open" \/ HasCursor(s, place)) /\ Len(s.queue) + size > Capacity
  <2> DEFINE z == Terminated(s, "ended", "slow_consumer", s.cursor.at, s.cursor.epoch)
  <2>1. d = z
    BY <1>4 DEF Delivered, Overflowed
  <2>2. Closes(s, z, "ended")
    BY <1>1, TerminatedCloses DEF Phases, Terminal
  <2> HIDE DEF z
  <2>3. Well(l, z, r, u, step, t)
    BY <1>4, <2>2, ClosedWell
  <2>4. z.phase # "open"
    BY <2>2 DEF Closes
  <2>5. Well(m, z, r, u, step, t)
    BY <2>3, <2>4, MarkedOutside
  <2> QED
    BY <2>1, <2>5
<1>5. CASE ~ (s.phase # "open" \/ HasCursor(s, place)) /\ ~ (Len(s.queue) + size > Capacity)
  <2>1. d = Enqueued(s, place, size)
    BY <1>5 DEF Delivered
  <2>2. s.phase = "open" /\ s.cursor.at[place.journal] < place.n
    BY <1>2, <1>5 DEF HasCursor
  <2>3. Well(m, Enqueued(s, place, size), r, u, step, t)
    BY <2>2, MarkedEnqueued
  <2> QED
    BY <2>1, <2>3
<1> QED
  BY <1>3, <1>4, <1>5

\* A transient event goes to every open subscription, or ends one that is full.
LEMMA TransientWell ==
  ASSUME NEW l \in Logs, epoch \in Nat,
         NEW s, NEW r, NEW u, NEW step, step \notin Busy, NEW t, Well(l, s, r, u, step, t)
  PROVE  Well(l, WithTransient(s), r, u, step, t)
<1>1. /\ Sound(l, s, r, u) /\ s \in Subscription /\ r \in Counters
      /\ s.cursor.epoch \in Nat /\ s.cursor \in Point
  BY DEF Well, Sound, Subscription, Point
<1>2. CASE s.phase # "open"
  BY <1>2 DEF WithTransient
<1>3. CASE s.phase = "open" /\ Len(s.queue) >= Capacity
  <2> DEFINE z == Terminated(s, "ended", "slow_consumer", s.cursor.at, s.cursor.epoch)
  <2>1. WithTransient(s) = z
    BY <1>3 DEF WithTransient, Overflowed
  <2>2. Closes(s, z, "ended")
    BY <1>1, TerminatedCloses DEF Phases, Terminal
  <2> HIDE DEF z
  <2>3. Well(l, z, r, u, step, t)
    BY <1>3, <2>2, ClosedWell
  <2> QED
    BY <2>1, <2>3
<1>4. CASE s.phase = "open" /\ ~ (Len(s.queue) >= Capacity)
  <2> DEFINE e == [kind |-> "transient", cursor |-> [s.cursor EXCEPT !.epoch = epoch]]
             z == [s EXCEPT !.queue = Append(@, e), !.wake = TRUE]
  <2>1. WithTransient(s) = z
    BY <1>4 DEF WithTransient
  <2>2. e \in Entry /\ e.kind # "durable" /\ e.cursor.at = s.cursor.at
    BY <1>1 DEF Entry, Point
  <2> HIDE DEF e
  <2>3. Append(s.queue, e) \in Seq(Entry)
    BY <1>1, <2>2, AppendProperties DEF Subscription
  <2>4. z \in Subscription /\ z.queue = Append(s.queue, e) /\ z.cursor = s.cursor /\ z.from = s.from /\ z.phase = "open"
    BY <1>1, <1>4, <2>3 DEF Subscription
  <2> HIDE DEF z
  <2>5. KnowsUpTo(r, s.cursor.at)
    BY <1>1, <1>4 DEF Sound, Placed
  <2>6. Sound(l, z, r, u) /\ \A j \in Journal, n \in Index : Hand(z, r, j, n) = Hand(s, r, j, n)
    BY <1>1, <2>2, <2>4, <2>5, MarkKeeps
  <2>7. Covered(l, z, r)
    <3> SUFFICES ASSUME NEW j \in Journal, NEW n \in s.from[j] + 1 .. s.cursor.at[j], InOrder(l, j, n)
                 PROVE  Hand(z, r, j, n) = Weight(l, j, n)
      BY <2>4 DEF Covered
    <3>1. Hand(s, r, j, n) = Weight(l, j, n)
      BY <1>4 DEF Well, Covered
    <3>2. n \in Index
      BY <1>1, WithinIndex
    <3> QED
      BY <2>6, <3>1, <3>2
  <2>8. Ahead(l, z) /\ InStep(l, z, r, step, t)
    BY <1>4, <2>4 DEF Well, Ahead, InStep, Busy
  <2>9. Well(l, z, r, u, step, t)
    BY <2>6, <2>7, <2>8 DEF Well
  <2> QED
    BY <2>1, <2>9
<1> QED
  BY <1>2, <1>3, <1>4

-----------------------------------------------------------------------------
(* Subscriptions begin and end.                                            *)

\* Outside the calls that hold mu only an open or ended subscription owes anything.
LEMMA OutsideWell ==
  ASSUME NEW l, NEW s, NEW r, NEW u, NEW step, NEW t, Sound(l, s, r, u), step \notin Busy,
         s.phase \notin {"open", "ended"}
  PROVE  Well(l, s, r, u, step, t)
BY DEF Well, Covered, Ahead, InStep, Busy

LEMMA FreshSound ==
  ASSUME NEW l \in Logs, NEW cursor \in Point, Below(cursor.at, Heads(l)), NEW phase \in Phases,
         NEW r \in Counters, KnowsUpTo(r, Heads(l)),
         NEW u \in Point \cup {None}, u # None => Below(u.at, Heads(l)) /\ KnowsUpTo(r, u.at),
         phase \in {"open", "catchup"} => KnowsUpTo(r, cursor.at)
  PROVE  LET s == NewSubscription(cursor, phase) IN
         /\ Sound(l, s, r, u)
         /\ s.queue = <<>> /\ s.phase = phase /\ s.cursor = cursor /\ s.from = cursor.at
<1> DEFINE s == NewSubscription(cursor, phase)
<1>1. cursor.at \in [Journal -> Nat] /\ <<>> \in Seq(Entry) /\ Len(<<>>) = 0
  BY EmptySeq DEF Point
<1>2. /\ s \in Subscription
      /\ s.queue = <<>> /\ s.phase = phase /\ s.cursor = cursor /\ s.from = cursor.at
  BY <1>1 DEF NewSubscription, Subscription
<1> HIDE DEF s
<1>3. Ordered(l, s, r)
  BY <1>1, <1>2 DEF Ordered
<1>4. Below(cursor.at, cursor.at)
  BY <1>1 DEF Below
<1>5. Placed(l, s, r, u)
  BY <1>2, <1>4 DEF Placed
<1>6. Sound(l, s, r, u)
  BY <1>2, <1>3, <1>5 DEF Sound
<1> QED
  BY <1>2, <1>6 DEF s

LEMMA OriginIsPoint ==
  ASSUME NEW l \in Logs
  PROVE  Origin \in Point /\ Below(Origin.at, Heads(l))
<1>1. \A j \in Journal : Len(l[j]) \in Nat
  BY LogFacts
<1> QED
  BY <1>1 DEF Origin, Point, Below, Heads

\* A subscription that is given up.
LEMMA NothingLeft ==
  ASSUME NEW l \in Logs, NEW s, NEW r, NEW u, Sound(l, s, r, u), NEW step, step \notin Busy, NEW t
  PROVE  Well(l, NewSubscription(Origin, "none"), r, u, step, t)
<1> DEFINE n == NewSubscription(Origin, "none")
<1>1. /\ r \in Counters /\ KnowsUpTo(r, Heads(l)) /\ u \in Point \cup {None}
      /\ u # None => Below(u.at, Heads(l)) /\ KnowsUpTo(r, u.at)
  BY DEF Sound, Placed
<1>2. Origin \in Point /\ Below(Origin.at, Heads(l)) /\ "none" \in Phases
  BY OriginIsPoint DEF Phases
<1>3. Sound(l, n, r, u) /\ n.phase = "none"
  BY <1>1, <1>2, FreshSound
<1> HIDE DEF n
<1>4. Well(l, n, r, u, step, t)
  BY <1>3, OutsideWell
<1> QED
  BY <1>4 DEF n

\* A journal is read behind an empty subscription, up to its head.
LEMMA StartsReading ==
  ASSUME NEW l \in Logs, NEW s, NEW r, NEW u, Sound(l, s, r, u), KnowsUpTo(r, s.cursor.at),
         NEW j \in Journal, s.from[j] = s.cursor.at[j], NEW t,
         \A n \in Index : t[j][n] = IF n > s.cursor.at[j] THEN Weight(l, j, n) ELSE 0
  PROVE  HasRead(l, s, r, t, j)
<1> DEFINE h == Len(l[j])
<1>1. /\ h \in Nat /\ s \in Subscription /\ r \in Counters /\ Ordered(l, s, r)
      /\ s.cursor.at[j] \in Nat /\ s.cursor.at[j] <= h
  BY LogFacts DEF Sound, Subscription, Point, Placed, Below, Heads
<1>2. h \in s.cursor.at[j] .. Len(l[j])
  BY <1>1
<1>3. ASSUME NEW n \in s.from[j] + 1 .. h
      PROVE  Hand(s, r, j, n) + t[j][n] = Weight(l, j, n) /\ t[j][n] > 0
  <2>1. n \in 1 .. Len(l[j]) /\ n > s.cursor.at[j]
    BY <1>1
  <2>2. n \in Index /\ Weight(l, j, n) \in Nat \ {0}
    BY <2>1, LogFacts
  <2>3. Hand(s, r, j, n) = 0
    BY <1>1, <2>1, <2>2, NothingAhead
  <2>4. t[j][n] = Weight(l, j, n)
    BY <2>1, <2>2
  <2> QED
    BY <2>2, <2>3, <2>4
<1>4. ASSUME NEW n \in Index, n <= s.from[j] \/ n > h
      PROVE  t[j][n] = 0
  <2>1. n \in Nat
    BY SizesAssumption DEF Index
  <2>2. CASE n > s.cursor.at[j]
    <3>1. n > Len(l[j])
      BY <1>1, <1>4, <2>1, <2>2
    <3>2. Weight(l, j, n) = 0
      BY <2>1, <3>1, LogFacts
    <3> QED
      BY <2>2, <3>2
  <2>3. CASE ~ (n > s.cursor.at[j])
    BY <2>3
  <2> QED
    BY <2>2, <2>3
<1>5. Unsent(l, j, h)
  BY <1>1 DEF Unsent
<1> HIDE DEF h
<1>6. ReadUpTo(l, s, r, t, j, h)
  BY <1>2, <1>3, <1>4, <1>5 DEF ReadUpTo
<1> QED
  BY <1>1, <1>6 DEF HasRead

\* The end of the catch-up: everything that was read is in the queue.
LEMMA FinishedWell ==
  ASSUME NEW l \in Logs, NEW s, NEW r, NEW u, NEW t, Well(l, s, r, u, "merging", t), t = Nothing,
         NEW step, step \notin Busy
  PROVE  Well(l, [s EXCEPT !.phase = "open"], r, u, step, t)
<1> DEFINE n == [s EXCEPT !.phase = "open"]
<1>1. /\ Sound(l, s, r, u) /\ s \in Subscription /\ r \in Counters /\ s.phase = "catchup"
      /\ HasRead(l, s, r, t, "control") /\ HasRead(l, s, r, t, "session")
  BY DEF Well, Sound, InStep
<1>2. /\ n \in Subscription /\ n.phase = "open" /\ n.queue = s.queue /\ n.cursor = s.cursor /\ n.from = s.from
  BY <1>1 DEF Subscription, Phases
<1> HIDE DEF n
<1>3. Sound(l, n, r, u)
  BY <1>1, <1>2 DEF Sound, Ordered, Placed
<1>4. \A j \in Journal, k \in Index : Hand(n, r, j, k) = Hand(s, r, j, k)
  BY <1>2 DEF Hand
<1>5. \A j \in Journal : HasRead(l, s, r, t, j)
  BY <1>1 DEF Journal
<1>6. ASSUME NEW j \in Journal
      PROVE  /\ ReadUpTo(l, s, r, t, j, s.cursor.at[j])
  <2>1. PICK h \in Nat : ReadUpTo(l, s, r, t, j, h)
    BY <1>5 DEF HasRead
  <2>2. s.cursor.at[j] \in Nat /\ s.from[j] \in Nat /\ s.from[j] <= s.cursor.at[j]
    BY <1>1 DEF Sound, Subscription, Point, Placed, Below
  <2>3. h \in s.cursor.at[j] .. Len(l[j]) /\ Len(l[j]) \in Nat
    BY <2>1, LogFacts DEF ReadUpTo
  <2>4. h = s.cursor.at[j]
    <3>1. SUFFICES ASSUME h > s.cursor.at[j] PROVE FALSE
      BY <2>2, <2>3
    <3>2. h \in s.from[j] + 1 .. h /\ h \in 1 .. Len(l[j])
      BY <2>2, <2>3, <3>1
    <3>3. t[j][h] > 0
      BY <2>1, <3>1, <3>2 DEF ReadUpTo
    <3>4. h \in Index
      BY <3>2, LogFacts
    <3> QED
      BY <3>3, <3>4 DEF Nothing
  <2> QED
    BY <2>1, <2>4
<1>7. Covered(l, n, r)
  <2> SUFFICES ASSUME NEW j \in Journal, NEW k \in s.from[j] + 1 .. s.cursor.at[j]
               PROVE  Hand(n, r, j, k) = Weight(l, j, k)
    BY <1>2 DEF Covered
  <2>1. k \in Index
    BY <1>1, WithinIndex
  <2>2. Hand(s, r, j, k) + t[j][k] = Weight(l, j, k)
    BY <1>6 DEF ReadUpTo
  <2>3. t[j][k] = 0 /\ Hand(s, r, j, k) \in Nat
    BY <1>1, <2>1, HandIsNumber DEF Nothing
  <2> QED
    BY <1>4, <2>1, <2>2, <2>3
<1>8. Ahead(l, n)
  BY <1>2, <1>6 DEF Ahead, ReadUpTo
<1>9. InStep(l, n, r, step, t)
  BY DEF InStep, Busy
<1>10. Well(l, n, r, u, step, t)
  BY <1>3, <1>7, <1>8, <1>9 DEF Well
<1> QED
  BY <1>10 DEF n

\* The next event of the merge is put behind the others.
LEMMA MergedWell ==
  ASSUME NEW l \in Logs, epoch \in Nat, NEW s, NEW r, NEW u, NEW t \in Counters,
         Well(l, s, r, u, "merging", t), NEW j \in Journal, NEW n \in Index, t[j][n] > 0,
         NEW place, place = [journal |-> j, n |-> n], NEW e, e = Enqueued(s, place, 1),
         NEW v, v = [t EXCEPT ![j][n] = @ - 1]
  PROVE  Well(l, e, r, u, "merging", v)
<1>1. /\ Sound(l, s, r, u) /\ s \in Subscription /\ r \in Counters /\ s.phase = "catchup"
      /\ KnowsUpTo(r, s.cursor.at)
      /\ HasRead(l, s, r, t, "control") /\ HasRead(l, s, r, t, "session")
  BY DEF Well, Sound, Placed, InStep
<1>2. \A k \in Journal : HasRead(l, s, r, t, k)
  BY <1>1 DEF Journal
<1>3. /\ s.cursor.at \in [Journal -> Nat] /\ s.from \in [Journal -> Nat] /\ n \in Nat
      /\ \A k \in Journal : s.from[k] <= s.cursor.at[k]
  BY <1>1, SizesAssumption DEF Sound, Subscription, Point, Placed, Below, Index
<1>4. place \in [journal : Journal, n : Nat] /\ place.journal = j /\ place.n = n
  BY <1>3
<1>5. PICK g \in Nat : ReadUpTo(l, s, r, t, j, g)
  BY <1>2 DEF HasRead
<1>6. n \in s.from[j] + 1 .. g /\ g \in s.cursor.at[j] .. Len(l[j]) /\ Len(l[j]) \in Nat
  <2>1. ~ (n <= s.from[j]) /\ ~ (n > g)
    BY <1>5 DEF ReadUpTo
  <2> QED
    BY <1>3, <1>5, <2>1, LogFacts DEF ReadUpTo
<1>7. place.n \in 1 .. Len(l[place.journal])
  BY <1>3, <1>4, <1>6
<1>8. /\ Sound(l, e, r, u) /\ KnowsUpTo(r, e.cursor.at) /\ e.phase = s.phase /\ e.from = s.from
      /\ \A k \in Journal : e.cursor.at[k] =
           IF k = place.journal /\ place.n > s.cursor.at[k] THEN place.n ELSE s.cursor.at[k]
      /\ \A k \in Journal, m \in Index :
           Hand(e, r, k, m) = Hand(s, r, k, m) + (IF place = [journal |-> k, n |-> m] THEN 1 ELSE 0)
  BY <1>1, <1>4, <1>7, EnqueuedKeeps
<1>9. \A k \in Journal, m \in Index :
        /\ v[k][m] = IF place = [journal |-> k, n |-> m] THEN t[k][m] - 1 ELSE t[k][m]
        /\ t[k][m] \in Nat
  BY <1>4 DEF Counters
<1>10. \A k \in Journal : HasRead(l, e, r, v, k)
  <2> TAKE k \in Journal
  <2>1. PICK h \in Nat : ReadUpTo(l, s, r, t, k, h)
    BY <1>2 DEF HasRead
  <2>2. h \in s.cursor.at[k] .. Len(l[k]) /\ Len(l[k]) \in Nat
    BY <2>1, LogFacts DEF ReadUpTo
  <2>3. \A m \in s.from[k] + 1 .. h : m \in Index /\ m \in Nat
    <3> TAKE m \in s.from[k] + 1 .. h
    <3>1. m \in 1 .. Len(l[k])
      BY <1>3, <2>2
    <3> QED
      BY <3>1, LogFacts
  <2>4. k = j => n <= h
    <3>1. k = j => ~ (n > h)
      BY <2>1 DEF ReadUpTo
    <3> QED
      BY <1>3, <3>1
  <2>5. s.cursor.at[k] <= e.cursor.at[k] /\ e.cursor.at[k] \in Nat /\ h \in e.cursor.at[k] .. Len(l[k])
    BY <1>3, <1>4, <1>8, <2>2, <2>4
  <2>6. ASSUME NEW m \in e.from[k] + 1 .. h
        PROVE  /\ Hand(e, r, k, m) + v[k][m] = Weight(l, k, m)
               /\ m > e.cursor.at[k] => v[k][m] > 0
    <3>1. m \in s.from[k] + 1 .. h /\ m \in Index /\ m \in Nat
      BY <1>8, <2>3
    <3>2. /\ Hand(s, r, k, m) + t[k][m] = Weight(l, k, m)
          /\ m > s.cursor.at[k] => t[k][m] > 0
      BY <2>1, <3>1 DEF ReadUpTo
    <3>3. Hand(s, r, k, m) \in Nat /\ t[k][m] \in Nat
      BY <1>1, <1>9, <3>1, HandIsNumber
    <3>4. CASE place = [journal |-> k, n |-> m]
      <4>1. k = j /\ m = n
        BY <1>4, <3>4
      <4>2. e.cursor.at[k] >= m
        BY <1>3, <1>4, <1>8, <4>1
      <4>3. Hand(e, r, k, m) = Hand(s, r, k, m) + 1 /\ v[k][m] = t[k][m] - 1
        BY <1>8, <1>9, <3>1, <3>4
      <4>4. Hand(e, r, k, m) + v[k][m] = Weight(l, k, m)
        BY <3>2, <3>3, <4>3
      <4>5. ~ (m > e.cursor.at[k])
        BY <2>5, <3>1, <4>2
      <4> QED
        BY <4>4, <4>5
    <3>5. CASE place # [journal |-> k, n |-> m]
      <4>1. Hand(e, r, k, m) = Hand(s, r, k, m) + 0 /\ v[k][m] = t[k][m]
        BY <1>8, <1>9, <3>1, <3>5
      <4>2. m > e.cursor.at[k] => m > s.cursor.at[k]
        BY <1>3, <2>5, <3>1
      <4> QED
        BY <3>2, <3>3, <4>1, <4>2
    <3> QED
      BY <3>4, <3>5
  <2>7. ASSUME NEW m \in Index, m <= e.from[k] \/ m > h
        PROVE  v[k][m] = 0
    <3>1. t[k][m] = 0
      BY <1>8, <2>1, <2>7 DEF ReadUpTo
    <3>2. place # [journal |-> k, n |-> m]
      BY <1>4, <3>1
    <3> QED
      BY <1>9, <3>1, <3>2
  <2>8. Unsent(l, k, h)
    BY <2>1 DEF ReadUpTo
  <2>9. ReadUpTo(l, e, r, v, k, h)
    BY <2>5, <2>6, <2>7, <2>8 DEF ReadUpTo
  <2> QED
    BY <2>9 DEF HasRead
<1>11. InStep(l, e, r, "merging", v)
  <2>1. HasRead(l, e, r, v, "control") /\ HasRead(l, e, r, v, "session")
    BY <1>10 DEF Journal
  <2> QED
    BY <1>1, <1>8, <2>1 DEF InStep
<1>12. Covered(l, e, r) /\ Ahead(l, e)
  BY <1>1, <1>8 DEF Covered, Ahead
<1> QED
  BY <1>8, <1>11, <1>12 DEF Well

\* Next hands out the first item: an event goes from the queue to the client, and
\* what the client knows stays below the cursor of every item that is left.
Takes(s, r, item, z, q, v) ==
  /\ s.queue # <<>> /\ item = Head(s.queue)
  /\ z \in Subscription /\ z.queue = Tail(s.queue) /\ z.cursor = s.cursor /\ z.from = s.from
  /\ z.phase \in {"open", "catchup"} => s.phase \in {"open", "catchup"}
  /\ q = IF item.kind = "durable" THEN [r EXCEPT ![item.place.journal][item.place.n] = @ + 1] ELSE r
  /\ v = item.cursor \/ v = None

LEMMA TakenSound ==
  ASSUME NEW l \in Logs, NEW s, NEW r, NEW u, Sound(l, s, r, u),
         NEW item, NEW z, NEW q, NEW v, Takes(s, r, item, z, q, v)
  PROVE  /\ Sound(l, z, q, v)
         /\ \A j \in Journal, n \in Index : Hand(z, q, j, n) = Hand(s, r, j, n)
<1>0. /\ s.queue # <<>> /\ item = Head(s.queue) /\ z \in Subscription /\ z.queue = Tail(s.queue)
      /\ z.cursor = s.cursor /\ z.from = s.from
      /\ z.phase \in {"open", "catchup"} => s.phase \in {"open", "catchup"}
      /\ v = item.cursor \/ v = None
  BY DEF Takes
<1>1. s \in Subscription /\ s.queue \in Seq(Entry) /\ r \in Counters /\ Ordered(l, s, r) /\ Placed(l, s, r, u)
  BY DEF Sound, Subscription
<1>2. /\ item \in Entry /\ item = s.queue[1] /\ 1 \in 1 .. Len(s.queue) /\ Len(s.queue) \in Nat
      /\ Len(z.queue) = Len(s.queue) - 1 /\ \A i \in 1 .. Len(z.queue) : z.queue[i] = s.queue[i + 1]
  BY <1>0, <1>1, HeadTailProperties, EmptySeq
<1>3. /\ item.cursor \in Point /\ item.cursor.at \in [Journal -> Nat] /\ s.cursor.at \in [Journal -> Nat]
      /\ Heads(l) \in [Journal -> Nat]
      /\ item.kind = "durable" => item.place \in [journal : Journal, n : Nat]
  <2>1. item.cursor \in Point /\ (item.kind = "durable" => item.place \in [journal : Journal, n : Nat])
    BY <1>2 DEF Entry, Terminal
  <2>2. Heads(l) \in [Journal -> Nat]
    BY LogFacts DEF Heads
  <2> QED
    BY <1>1, <2>1, <2>2 DEF Subscription, Point
<1>4. /\ Below(item.cursor.at, s.cursor.at)
      /\ \A k \in 1 .. Len(s.queue) : Below(item.cursor.at, s.queue[k].cursor.at)
      /\ item.kind = "durable" =>
           /\ item.place.n \in 1 .. Len(l[item.place.journal])
           /\ item.place.n <= item.cursor.at[item.place.journal]
      /\ KnowsUpTo(r, item.cursor.at)
  BY <1>1, <1>2 DEF Ordered
<1>5. item.kind = "durable" => item.place.n \in Index /\ item.place.journal \in Journal
  BY <1>3, <1>4, LogFacts
<1>6. /\ q \in Counters
      /\ \A j \in Journal, n \in Index : q[j][n] =
           r[j][n] + (IF item.kind = "durable" /\ item.place = [journal |-> j, n |-> n] THEN 1 ELSE 0)
  <2>1. CASE item.kind = "durable"
    <3>1. q = [r EXCEPT ![item.place.journal][item.place.n] = @ + 1]
      BY <2>1 DEF Takes
    <3>2. q \in Counters
      BY <1>1, <1>5, <2>1, <3>1 DEF Counters
    <3>3. \A j \in Journal, n \in Index :
            (item.place = [journal |-> j, n |-> n]) <=> (j = item.place.journal /\ n = item.place.n)
      BY <1>3, <2>1
    <3>4. \A j \in Journal, n \in Index :
            q[j][n] = IF j = item.place.journal /\ n = item.place.n THEN r[j][n] + 1 ELSE r[j][n]
      BY <1>1, <1>5, <2>1, <3>1 DEF Counters
    <3>5. \A j \in Journal, n \in Index : r[j][n] \in Nat
      BY <1>1 DEF Counters
    <3> QED
      BY <2>1, <3>2, <3>3, <3>4, <3>5
  <2>2. CASE item.kind # "durable"
    <3>1. \A j \in Journal, n \in Index : r[j][n] \in Nat
      BY <1>1 DEF Counters
    <3>2. q = r
      BY <2>2 DEF Takes
    <3> QED
      BY <1>1, <2>2, <3>1, <3>2
  <2> QED
    BY <2>1, <2>2
<1>7. KnowsUpTo(q, item.cursor.at)
  <2> SUFFICES ASSUME NEW j \in Journal, NEW n \in Index, q[j][n] > 0
               PROVE  n <= item.cursor.at[j]
    BY DEF KnowsUpTo
  <2>1. CASE item.kind = "durable" /\ item.place = [journal |-> j, n |-> n]
    <3>1. j = item.place.journal /\ n = item.place.n
      BY <1>3, <2>1
    <3> QED
      BY <1>4, <2>1, <3>1
  <2>2. CASE ~ (item.kind = "durable" /\ item.place = [journal |-> j, n |-> n])
    <3>1. q[j][n] = r[j][n]
      BY <1>1, <1>6, <2>2 DEF Counters
    <3> QED
      BY <1>4, <3>1 DEF KnowsUpTo
  <2> QED
    BY <2>1, <2>2
<1>8. Below(s.cursor.at, Heads(l)) /\ Below(item.cursor.at, Heads(l))
  BY <1>1, <1>3, <1>4, BelowTransitive DEF Placed
<1>9. KnowsUpTo(q, s.cursor.at) /\ KnowsUpTo(q, Heads(l))
  BY <1>3, <1>4, <1>7, <1>8, KnowsMore
<1>10. Placed(l, z, q, v)
  BY <1>0, <1>1, <1>7, <1>8, <1>9 DEF Placed
<1>11. Ordered(l, z, q)
  <2> SUFFICES ASSUME NEW i \in 1 .. Len(z.queue)
               PROVE  /\ Below(z.queue[i].cursor.at, z.cursor.at)
                      /\ \A k \in i .. Len(z.queue) : Below(z.queue[i].cursor.at, z.queue[k].cursor.at)
                      /\ z.queue[i].kind = "durable" =>
                           /\ z.queue[i].place.n \in 1 .. Len(l[z.queue[i].place.journal])
                           /\ z.queue[i].place.n <= z.queue[i].cursor.at[z.queue[i].place.journal]
                      /\ KnowsUpTo(q, z.queue[i].cursor.at)
    BY DEF Ordered
  <2>1. /\ i + 1 \in 1 .. Len(s.queue) /\ z.queue[i] = s.queue[i + 1]
        /\ \A k \in i .. Len(z.queue) : k + 1 \in i + 1 .. Len(s.queue) /\ z.queue[k] = s.queue[k + 1]
    BY <1>2
  <2>2. /\ Below(z.queue[i].cursor.at, z.cursor.at)
        /\ \A k \in i .. Len(z.queue) : Below(z.queue[i].cursor.at, z.queue[k].cursor.at)
        /\ z.queue[i].kind = "durable" =>
             /\ z.queue[i].place.n \in 1 .. Len(l[z.queue[i].place.journal])
             /\ z.queue[i].place.n <= z.queue[i].cursor.at[z.queue[i].place.journal]
    BY <1>0, <1>1, <2>1 DEF Ordered
  <2>3. Below(item.cursor.at, z.queue[i].cursor.at) /\ z.queue[i].cursor.at \in [Journal -> Nat]
    BY <1>1, <1>4, <2>1, EntryFields
  <2>4. KnowsUpTo(q, z.queue[i].cursor.at)
    BY <1>3, <1>7, <2>3, KnowsMore
  <2> QED
    BY <2>2, <2>4
<1>12. \A j \in Journal, n \in Index : Hand(z, q, j, n) = Hand(s, r, j, n)
  <2> TAKE j \in Journal, n \in Index
  <2>1. n \in Nat /\ r[j][n] \in Nat
    BY <1>1, SizesAssumption DEF Index, Counters
  <2>2. Cardinality(PlacesOf(s.queue, j, n)) =
          Cardinality(PlacesOf(z.queue, j, n))
            + (IF item.kind = "durable" /\ item.place = [journal |-> j, n |-> n] THEN 1 ELSE 0)
    BY <1>0, <1>1, <2>1, PlacesAfterTail
  <2>3. z.queue \in Seq(Entry)
    BY <1>0 DEF Subscription
  <2>4. Cardinality(PlacesOf(z.queue, j, n)) \in Nat
    BY <2>3, PlacesAreFinite
  <2> QED
    BY <1>6, <2>1, <2>2, <2>4 DEF Hand
<1> QED
  BY <1>0, <1>3, <1>6, <1>10, <1>11, <1>12 DEF Sound

LEMMA TakenWell ==
  ASSUME NEW l \in Logs, NEW s, NEW r, NEW u, NEW step, step \notin Busy, NEW t, Well(l, s, r, u, step, t),
         NEW z, NEW q, NEW v, Sound(l, z, q, v), z.cursor = s.cursor, z.from = s.from,
         z.phase = s.phase \/ z.phase = "closed",
         \A j \in Journal, n \in Index : Hand(z, q, j, n) = Hand(s, r, j, n)
  PROVE  Well(l, z, q, v, step, t)
<1>1. CASE z.phase = "closed"
  BY <1>1, OutsideWell
<1>2. CASE z.phase = s.phase
  <2>1. Covered(l, z, q)
    <3> SUFFICES ASSUME s.phase \in {"open", "ended"}, NEW j \in Journal,
                        NEW n \in s.from[j] + 1 .. s.cursor.at[j], InOrder(l, j, n)
                 PROVE  Hand(z, q, j, n) = Weight(l, j, n)
      BY <1>2 DEF Covered
    <3>1. n \in Index
      BY WithinIndex DEF Well
    <3> QED
      BY <3>1 DEF Well, Covered
  <2>2. Ahead(l, z) /\ InStep(l, z, q, step, t)
    BY <1>2 DEF Well, Ahead, InStep, Busy
  <2> QED
    BY <2>1, <2>2 DEF Well
<1> QED
  BY <1>1, <1>2

-----------------------------------------------------------------------------
(* The steps.                                                              *)

\* SizeOf and HeadOf of the module, for the journals of the moment.
LEMMA SizeIsWeight ==
  ASSUME NEW j, NEW n
  PROVE  SizeOf(j, n) = Weight(log, j, n) /\ HeadOf(j) = Len(log[j])
BY DEF SizeOf, HeadOf, Weight

\* A client that is out of the calls that hold mu does not see what they do.
LEMMA OutsideCalls ==
  ASSUME NEW l, NEW s, NEW r, NEW u, NEW step, step \notin Busy, NEW t, NEW v, Well(l, s, r, u, step, t)
  PROVE  Well(l, s, r, u, step, v)
BY DEF Well, InStep, Busy

\* A step of one client: what is to be shown is about this client.
LEMMA ClientKeeps ==
  ASSUME GapInv, NEW c \in Client, NEW s, NEW r, NEW u, NEW step \in Steps, NEW t \in Counters,
         UNCHANGED <<log, pending, epoch>>,
         sub' = [sub EXCEPT ![c] = s], received' = [received EXCEPT ![c] = r],
         resume' = [resume EXCEPT ![c] = u], pc' = [pc EXCEPT ![c] = step], todo' = t,
         Well(log, s, r, u, step, t), step \in Busy => mu' = c,
         \/ mu' = mu /\ t = todo
         \/ mu \in {c, None}
  PROVE  GapInv'
<1>1. s \in Subscription /\ r \in Counters /\ u \in Point \cup {None}
  BY DEF Well, Sound
<1>2. /\ log' \in Logs /\ epoch' \in Nat /\ todo' \in Counters
      /\ sub' \in [Client -> Subscription] /\ received' \in [Client -> Counters]
      /\ resume' \in [Client -> Point \cup {None}] /\ pc' \in [Client -> Steps]
  BY <1>1 DEF GapInv
<1>3. PendingOK' /\ PendingOnce'
  BY DEF GapInv, PendingOK, PendingOnce
<1>4. ASSUME NEW d \in Client
      PROVE  /\ Well(log', sub'[d], received'[d], resume'[d], pc'[d], todo')
             /\ pc'[d] \in Busy => mu' = d
  <2>1. CASE d = c
    <3>1. sub'[d] = s /\ received'[d] = r /\ resume'[d] = u /\ pc'[d] = step
      BY <2>1 DEF GapInv
    <3> QED
      BY <2>1, <3>1
  <2>2. CASE d # c
    <3>1. sub'[d] = sub[d] /\ received'[d] = received[d] /\ resume'[d] = resume[d] /\ pc'[d] = pc[d]
      BY <2>2 DEF GapInv
    <3>2. Well(log, sub[d], received[d], resume[d], pc[d], todo) /\ (pc[d] \in Busy => mu = d)
      BY DEF GapInv
    <3>3. CASE mu' = mu /\ t = todo
      BY <3>1, <3>2, <3>3
    <3>4. CASE mu \in {c, None}
      <4>1. pc[d] \notin Busy
        BY <2>2, <3>2, <3>4, NamesAssumption
      <4>2. Well(log, sub[d], received[d], resume[d], pc[d], t)
        BY <3>2, <4>1, OutsideCalls
      <4> QED
        BY <3>1, <4>1, <4>2
    <3> QED
      BY <3>3, <3>4
  <2> QED
    BY <2>1, <2>2
<1> QED
  BY <1>2, <1>3, <1>4 DEF GapInv

\* What the invariant says of one client, and of what a step leaves alone.
LEMMA OfClient ==
  ASSUME GapInv, NEW c \in Client
  PROVE  /\ Well(log, sub[c], received[c], resume[c], pc[c], todo)
         /\ Sound(log, sub[c], received[c], resume[c])
         /\ pc[c] \in Busy => mu = c
         /\ sub[c] \in Subscription /\ received[c] \in Counters /\ resume[c] \in Point \cup {None}
         /\ resume[c] # None => /\ resume[c] \in Point /\ Below(resume[c].at, Heads(log))
                                /\ KnowsUpTo(received[c], resume[c].at)
         /\ KnowsUpTo(received[c], Heads(log))
         /\ pc[c] \in Steps /\ log \in Logs /\ epoch \in Nat /\ todo \in Counters
         /\ sub = [sub EXCEPT ![c] = sub[c]] /\ received = [received EXCEPT ![c] = received[c]]
         /\ resume = [resume EXCEPT ![c] = resume[c]] /\ pc = [pc EXCEPT ![c] = pc[c]]
<1>1. Well(log, sub[c], received[c], resume[c], pc[c], todo) /\ (pc[c] \in Busy => mu = c)
  BY DEF GapInv
<1>2. Sound(log, sub[c], received[c], resume[c])
  BY <1>1 DEF Well
<1>3. /\ sub[c] \in Subscription /\ received[c] \in Counters /\ resume[c] \in Point \cup {None}
      /\ resume[c] # None => Below(resume[c].at, Heads(log)) /\ KnowsUpTo(received[c], resume[c].at)
      /\ KnowsUpTo(received[c], Heads(log))
  BY <1>2 DEF Sound, Placed
<1>4. /\ pc[c] \in Steps /\ log \in Logs /\ epoch \in Nat /\ todo \in Counters
      /\ sub = [sub EXCEPT ![c] = sub[c]] /\ received = [received EXCEPT ![c] = received[c]]
      /\ resume = [resume EXCEPT ![c] = resume[c]] /\ pc = [pc EXCEPT ![c] = pc[c]]
  BY DEF GapInv
<1> QED
  BY <1>1, <1>2, <1>3, <1>4

LEMMA NothingIsCounters == Nothing \in Counters
BY DEF Nothing, Counters

LEMMA SnapshotGap ==
  ASSUME GapInv, NEW c \in Client, Snapshot(c)
  PROVE  GapInv'
<1> DEFINE cursor == [at |-> [Origin.at EXCEPT !["control"] = HeadOf("control")], epoch |-> epoch]
           s == NewSubscription(cursor, "none")
           r == received[c]
           u == resume[c]
<1>1. /\ sub' = [sub EXCEPT ![c] = s] /\ mu = None /\ mu' = c /\ pc' = [pc EXCEPT ![c] = "snapshot"]
      /\ UNCHANGED <<log, pending, epoch, todo, resume, received>>
  BY DEF Snapshot, Hold, Replace, journals
<1>2. /\ log \in Logs /\ epoch \in Nat /\ r \in Counters /\ KnowsUpTo(r, Heads(log))
      /\ u \in Point \cup {None} /\ todo \in Counters
      /\ u # None => Below(u.at, Heads(log)) /\ KnowsUpTo(r, u.at)
      /\ resume = [resume EXCEPT ![c] = u] /\ received = [received EXCEPT ![c] = r]
  BY OfClient
<1>3. /\ cursor \in Point /\ Below(cursor.at, Heads(log)) /\ cursor.at["control"] = Len(log["control"])
      /\ "control" \in Journal
  <2>1. \A j \in Journal : Len(log[j]) \in Nat
    BY <1>2, LogFacts
  <2>2. cursor.at = [j \in Journal |-> IF j = "control" THEN Len(log["control"]) ELSE 0]
    BY DEF Origin, HeadOf, Journal
  <2>3. "control" \in Journal /\ Len(log["control"]) \in Nat
    BY <2>1 DEF Journal
  <2> DEFINE at == [j \in Journal |-> IF j = "control" THEN Len(log["control"]) ELSE 0]
  <2>4. at \in [Journal -> Nat] /\ \A j \in Journal : at[j] = IF j = "control" THEN Len(log["control"]) ELSE 0
    BY <2>3
  <2> HIDE DEF at
  <2>5. cursor = [at |-> at, epoch |-> epoch]
    BY <2>2 DEF at
  <2> HIDE DEF cursor
  <2>6. cursor \in Point /\ cursor.at = at
    BY <1>2, <2>4, <2>5 DEF Point
  <2>7. Below(cursor.at, Heads(log))
    BY <2>1, <2>4, <2>6 DEF Below, Heads
  <2> QED
    BY <2>3, <2>4, <2>6, <2>7
<1>4. "none" \in Phases
  BY DEF Phases
<1> HIDE DEF cursor
<1>5. Sound(log, s, r, u) /\ s.queue = <<>> /\ s.phase = "none" /\ s.cursor = cursor
  BY <1>2, <1>3, <1>4, FreshSound
<1> HIDE DEF s
<1>6. Snapshotting(log, s, r)
  <2>1. Len(log["control"]) \in Nat
    BY <1>2, <1>3, LogFacts
  <2>2. Unsent(log, "control", s.cursor.at["control"])
    BY <1>3, <1>5, <2>1 DEF Unsent
  <2>3. \A n \in Index : r["control"][n] > 0 => n <= s.cursor.at["control"]
    BY <1>2, <1>3, <1>5 DEF KnowsUpTo, Heads
  <2> QED
    BY <1>5, <2>2, <2>3 DEF Snapshotting
<1>7. Well(log, s, r, u, "snapshot", todo)
  BY <1>5, <1>6 DEF Well, Covered, Ahead, InStep
<1>8. "snapshot" \in Steps
  BY DEF Steps
<1> HIDE DEF r, u
<1> QED
  BY <1>1, <1>2, <1>7, <1>8, ClientKeeps

LEMMA FinishSnapshotGap ==
  ASSUME GapInv, NEW c \in Client, FinishSnapshot(c)
  PROVE  GapInv'
<1> DEFINE old == sub[c]
           cursor == [old.cursor EXCEPT !.at["session"] = HeadOf("session")]
           s == NewSubscription(cursor, "open")
           r == Known(c, cursor.at)
<1>1. /\ sub' = [sub EXCEPT ![c] = s] /\ mu = c /\ pc' = [pc EXCEPT ![c] = "next"]
      /\ resume' = [resume EXCEPT ![c] = cursor] /\ received' = [received EXCEPT ![c] = r]
      /\ UNCHANGED <<log, pending, epoch, todo>> /\ pc[c] = "snapshot"
  BY DEF FinishSnapshot, LetGo, Replace, journals
<1>2. /\ log \in Logs /\ received[c] \in Counters /\ KnowsUpTo(received[c], Heads(log)) /\ todo \in Counters
      /\ old \in Subscription /\ Sound(log, old, received[c], resume[c])
      /\ Well(log, old, received[c], resume[c], pc[c], todo)
  BY OfClient
<1>3. Snapshotting(log, old, received[c])
  BY <1>1, <1>2 DEF Well, InStep
<1>4. /\ "control" \in Journal /\ "session" \in Journal /\ old.cursor \in Point
      /\ old.cursor.at \in [Journal -> Nat] /\ Below(old.cursor.at, Heads(log))
      /\ \A j \in Journal : Len(log[j]) \in Nat
  BY <1>2, LogFacts DEF Sound, Subscription, Point, Placed, Journal
<1>5. /\ cursor \in Point /\ cursor.at \in [Journal -> Nat]
      /\ cursor.at["session"] = Len(log["session"]) /\ cursor.at["control"] = old.cursor.at["control"]
  BY <1>4 DEF Point, HeadOf
<1> HIDE DEF cursor
<1>6. Below(cursor.at, Heads(log))
  BY <1>4, <1>5 DEF Below, Heads, Journal
<1>7. \A j \in Journal, n \in Index :
        r[j][n] = IF n <= cursor.at[j] THEN Weight(log, j, n) ELSE received[c][j][n]
  BY SizeIsWeight DEF Known
<1>8. r \in Counters
  <2>1. \A j \in Journal, n \in Index : r[j][n] \in Nat
    BY <1>2, <1>7, LogFacts DEF Counters
  <2> QED
    BY <2>1 DEF Known, Counters
<1> HIDE DEF r
<1>9. KnowsUpTo(r, cursor.at)
  <2> SUFFICES ASSUME NEW j \in Journal, NEW n \in Index, r[j][n] > 0, ~ (n <= cursor.at[j])
               PROVE  FALSE
    BY DEF KnowsUpTo
  <2>1. received[c][j][n] > 0
    BY <1>7
  <2>2. CASE j = "control"
    BY <1>3, <1>5, <2>1, <2>2 DEF Snapshotting
  <2>3. CASE j = "session"
    BY <1>2, <1>5, <2>1, <2>3 DEF KnowsUpTo, Heads
  <2> QED
    BY <2>2, <2>3 DEF Journal
<1>10. KnowsUpTo(r, Heads(log))
  <2>1. Heads(log) \in [Journal -> Nat]
    BY <1>4 DEF Heads
  <2> QED
    BY <1>5, <1>6, <1>9, <2>1, KnowsMore
<1>11. /\ Sound(log, s, r, cursor) /\ s.queue = <<>> /\ s.phase = "open"
       /\ s.cursor = cursor /\ s.from = cursor.at
  <2>1. "open" \in Phases
    BY DEF Phases
  <2>2. cursor \in Point \cup {None}
    BY <1>5
  <2> QED
    BY <1>2, <1>5, <1>6, <1>8, <1>9, <1>10, <2>1, <2>2, FreshSound
<1> HIDE DEF s
<1>12. Covered(log, s, r)
  <2>1. \A j \in Journal : s.from[j] = s.cursor.at[j] /\ s.cursor.at[j] \in Nat
    BY <1>5, <1>11
  <2>2. \A j \in Journal : s.from[j] + 1 .. s.cursor.at[j] = {}
    BY <2>1
  <2> QED
    BY <2>2 DEF Covered
<1>13. Ahead(log, s)
  <2>1. Unsent(log, "control", cursor.at["control"])
    BY <1>3, <1>5 DEF Snapshotting
  <2>2. Unsent(log, "session", cursor.at["session"])
    BY <1>4, <1>5 DEF Unsent
  <2>3. \A j \in Journal : j = "control" \/ j = "session"
    BY DEF Journal
  <2> QED
    BY <1>11, <2>1, <2>2, <2>3 DEF Ahead
<1>14. Well(log, s, r, cursor, "next", todo)
  BY <1>11, <1>12, <1>13 DEF Well, InStep
<1>15. "next" \in Steps /\ "next" \notin Busy
  BY DEF Steps, Busy
<1> QED
  BY <1>1, <1>2, <1>14, <1>15, ClientKeeps

LEMMA FailReadGap ==
  ASSUME GapInv, NEW c \in Client, FailRead(c)
  PROVE  GapInv'
<1> DEFINE s == NewSubscription(Origin, "none")
<1>1. /\ sub' = [sub EXCEPT ![c] = s] /\ mu = c /\ pc' = [pc EXCEPT ![c] = "out"]
      /\ todo' = Nothing /\ UNCHANGED <<log, pending, epoch, resume, received>>
  BY DEF FailRead, LetGo, Replace, journals
<1>2. /\ log \in Logs /\ Sound(log, sub[c], received[c], resume[c])
      /\ resume = [resume EXCEPT ![c] = resume[c]] /\ received = [received EXCEPT ![c] = received[c]]
  BY OfClient
<1>3. "out" \in Steps /\ "out" \notin Busy
  BY DEF Steps, Busy
<1>4. Well(log, s, received[c], resume[c], "out", Nothing)
  BY <1>2, <1>3, NothingLeft
<1> HIDE DEF s
<1> QED
  BY <1>1, <1>2, <1>3, <1>4, NothingIsCounters, ClientKeeps

LEMMA EofGap ==
  ASSUME GapInv, NEW c \in Client, Eof(c)
  PROVE  GapInv'
<1> DEFINE s == NewSubscription(Origin, "none")
<1>1. /\ sub' = [sub EXCEPT ![c] = s] /\ mu' = mu /\ pc' = [pc EXCEPT ![c] = "out"]
      /\ UNCHANGED <<log, pending, epoch, resume, received, todo>>
  BY DEF Eof, Replace, journals
<1>2. /\ log \in Logs /\ Sound(log, sub[c], received[c], resume[c]) /\ todo \in Counters
      /\ resume = [resume EXCEPT ![c] = resume[c]] /\ received = [received EXCEPT ![c] = received[c]]
  BY OfClient
<1>3. "out" \in Steps /\ "out" \notin Busy
  BY DEF Steps, Busy
<1>4. Well(log, s, received[c], resume[c], "out", todo)
  BY <1>2, <1>3, NothingLeft
<1> HIDE DEF s
<1> QED
  BY <1>1, <1>2, <1>3, <1>4, ClientKeeps

LEMMA SubscribeStaleGap ==
  ASSUME GapInv, NEW c \in Client, SubscribeStale(c)
  PROVE  GapInv'
<1> DEFINE u == resume[c]
           r == received[c]
           fresh == NewSubscription(u, "none")
           s == Terminated(fresh, "failed", "transient.gap", u.at, epoch)
<1>1. /\ sub' = [sub EXCEPT ![c] = s] /\ mu' = mu /\ pc' = [pc EXCEPT ![c] = "next"]
      /\ UNCHANGED <<log, pending, epoch, resume, received, todo>> /\ u # None
  BY DEF SubscribeStale, Replace, journals
<1>2. /\ log \in Logs /\ todo \in Counters /\ epoch \in Nat /\ r \in Counters /\ KnowsUpTo(r, Heads(log))
      /\ u \in Point /\ Below(u.at, Heads(log)) /\ KnowsUpTo(r, u.at)
      /\ resume = [resume EXCEPT ![c] = u] /\ received = [received EXCEPT ![c] = r]
  BY <1>1, OfClient
<1>3. "next" \in Steps /\ "next" \notin Busy /\ "none" \in Phases /\ "failed" \in Phases
      /\ "transient.gap" \in Terminal
  BY DEF Steps, Busy, Phases, Terminal
<1> HIDE DEF u, r
<1>4. Sound(log, fresh, r, u) /\ fresh.cursor = u
  BY <1>2, <1>3, FreshSound
<1> HIDE DEF fresh
<1>5. fresh \in Subscription
  BY <1>4 DEF Sound
<1>6. Closes(fresh, s, "failed")
  BY <1>2, <1>3, <1>4, <1>5, TerminatedCloses
<1> HIDE DEF s
<1>7. Sound(log, s, r, u) /\ s.phase = "failed"
  BY <1>2, <1>4, <1>5, <1>6, ClosesKeeps DEF Closes
<1>8. Well(log, s, r, u, "next", todo)
  BY <1>3, <1>7, OutsideWell
<1> QED
  BY <1>1, <1>2, <1>3, <1>8, ClientKeeps

LEMMA SubscribeGap ==
  ASSUME GapInv, NEW c \in Client, Subscribe(c)
  PROVE  GapInv'
<1> DEFINE u == resume[c]
           r == received[c]
           s == NewSubscription(u, "catchup")
           read == After("control", u.at["control"])
           t == [todo EXCEPT !["control"] = read]
<1>1. /\ sub' = [sub EXCEPT ![c] = s] /\ mu = None /\ mu' = c /\ pc' = [pc EXCEPT ![c] = "reading"]
      /\ UNCHANGED <<log, pending, epoch, resume, received>> /\ u # None /\ todo' = t
  BY DEF Subscribe, Hold, Replace, journals
<1>2. /\ log \in Logs /\ todo \in Counters /\ epoch \in Nat /\ r \in Counters /\ KnowsUpTo(r, Heads(log))
      /\ u \in Point /\ Below(u.at, Heads(log)) /\ KnowsUpTo(r, u.at)
      /\ resume = [resume EXCEPT ![c] = u] /\ received = [received EXCEPT ![c] = r]
  BY <1>1, OfClient
<1>3. "reading" \in Steps /\ "catchup" \in Phases /\ "control" \in Journal
  BY DEF Steps, Phases, Journal
<1> HIDE DEF u, r
<1>4. /\ Sound(log, s, r, u) /\ s.queue = <<>> /\ s.phase = "catchup" /\ s.cursor = u /\ s.from = u.at
  BY <1>2, <1>3, FreshSound
<1> HIDE DEF s
<1>5. \A n \in Index : read[n] = IF n > u.at["control"] THEN Weight(log, "control", n) ELSE 0
  BY SizeIsWeight DEF After
<1>6. read \in [Index -> Nat]
  <2>1. \A n \in Index : read[n] \in Nat
    BY <1>2, <1>3, <1>5, LogFacts
  <2> QED
    BY <2>1 DEF After
<1> HIDE DEF read
<1>7. t \in Counters /\ t["control"] = read
  BY <1>2, <1>3, <1>6 DEF Counters
<1> HIDE DEF t
<1>8. HasRead(log, s, r, t, "control")
  BY <1>2, <1>3, <1>4, <1>5, <1>7, StartsReading
<1>9. Well(log, s, r, u, "reading", t)
  BY <1>4, <1>8 DEF Well, Covered, Ahead, InStep
<1> QED
  BY <1>1, <1>2, <1>3, <1>7, <1>9, ClientKeeps

LEMMA ReadSessionGap ==
  ASSUME GapInv, NEW c \in Client, ReadSession(c)
  PROVE  GapInv'
<1> DEFINE u == resume[c]
           r == received[c]
           s == sub[c]
           read == After("session", s.cursor.at["session"])
           t == [todo EXCEPT !["session"] = read]
<1>1. /\ sub' = sub /\ mu = c /\ mu' = c /\ pc' = [pc EXCEPT ![c] = "merging"] /\ pc[c] = "reading"
      /\ UNCHANGED <<log, pending, epoch, resume, received>> /\ todo' = t
  BY DEF ReadSession, journals
<1>2. /\ log \in Logs /\ todo \in Counters /\ Sound(log, s, r, u) /\ Well(log, s, r, u, "reading", todo)
      /\ s \in Subscription
      /\ resume = [resume EXCEPT ![c] = u] /\ received = [received EXCEPT ![c] = r]
      /\ sub = [sub EXCEPT ![c] = s]
  BY <1>1, OfClient
<1>3. "merging" \in Steps /\ "session" \in Journal /\ "control" \in Journal
  BY DEF Steps, Journal
<1> HIDE DEF u, r, s
<1>4. /\ s.queue = <<>> /\ s.phase = "catchup" /\ s.cursor.at = s.from
      /\ KnowsUpTo(r, s.cursor.at) /\ HasRead(log, s, r, todo, "control")
  BY <1>2 DEF Well, InStep, Sound, Placed
<1>5. \A n \in Index : read[n] = IF n > s.cursor.at["session"] THEN Weight(log, "session", n) ELSE 0
  BY SizeIsWeight DEF After
<1>6. read \in [Index -> Nat]
  <2>1. \A n \in Index : read[n] \in Nat
    BY <1>2, <1>3, <1>5, LogFacts
  <2> QED
    BY <2>1 DEF After
<1> HIDE DEF read
<1>7. t \in Counters /\ t["session"] = read /\ t["control"] = todo["control"]
  BY <1>2, <1>3, <1>6 DEF Counters
<1> HIDE DEF t
<1>8. s.from["session"] = s.cursor.at["session"]
  BY <1>4
<1>9. HasRead(log, s, r, t, "session")
  BY <1>2, <1>3, <1>4, <1>5, <1>7, <1>8, StartsReading
<1>10. HasRead(log, s, r, t, "control")
  BY <1>4, <1>7 DEF HasRead, ReadUpTo
<1>11. Well(log, s, r, u, "merging", t)
  BY <1>2, <1>4, <1>9, <1>10 DEF Well, Covered, Ahead, InStep
<1> QED
  BY <1>1, <1>2, <1>3, <1>7, <1>11, ClientKeeps

LEMMA CatchUpGap ==
  ASSUME GapInv, NEW c \in Client, NEW j \in Journal, CatchUp(c, j)
  PROVE  GapInv'
<1> DEFINE u == resume[c]
           r == received[c]
           s == sub[c]
<1>1. /\ mu = c /\ pc[c] = "merging"
      /\ UNCHANGED <<log, pending, epoch, resume, received>>
  BY DEF CatchUp, journals
<1>2. /\ log \in Logs /\ todo \in Counters /\ epoch \in Nat /\ Sound(log, s, r, u)
      /\ Well(log, s, r, u, "merging", todo) /\ s \in Subscription /\ r \in Counters
      /\ resume = [resume EXCEPT ![c] = u] /\ received = [received EXCEPT ![c] = r]
      /\ pc = [pc EXCEPT ![c] = "merging"]
  BY <1>1, OfClient
<1> DEFINE z == Overflowed(s, "failed")
<1>3. PICK n \in Index :
        /\ todo[j][n] > 0
        /\ IF Len(s.queue) >= Capacity
           THEN sub' = [sub EXCEPT ![c] = z] /\ todo' = Nothing /\ mu' = None /\ pc' = [pc EXCEPT ![c] = "next"]
           ELSE /\ sub' = [sub EXCEPT ![c] = Enqueued(s, [journal |-> j, n |-> n], 1)]
                /\ todo' = [todo EXCEPT ![j][n] = @ - 1] /\ mu' = mu /\ pc' = pc
  BY DEF CatchUp, Replace, LetGo
<1> DEFINE place == [journal |-> j, n |-> n]
<1>4. /\ "merging" \in Steps /\ "next" \in Steps /\ "next" \notin Busy /\ "failed" \in Phases
      /\ "slow_consumer" \in Terminal
  BY DEF Steps, Busy, Phases, Terminal
<1>5. s.phase = "catchup" /\ KnowsUpTo(r, s.cursor.at) /\ s.cursor.epoch \in Nat
  BY <1>2 DEF Well, InStep, Sound, Placed, Subscription, Point
<1>6. CASE Len(s.queue) >= Capacity
  <2>1. sub' = [sub EXCEPT ![c] = z] /\ todo' = Nothing /\ mu' = None /\ pc' = [pc EXCEPT ![c] = "next"]
    BY <1>3, <1>6
  <2> HIDE DEF s, u, r
  <2>2. Closes(s, z, "failed")
    BY <1>2, <1>4, <1>5, TerminatedCloses DEF Overflowed
  <2> HIDE DEF z
  <2>3. Sound(log, z, r, u) /\ z.phase = "failed"
    BY <1>2, <1>5, <2>2, ClosesKeeps DEF Closes
  <2>4. Well(log, z, r, u, "next", Nothing)
    BY <1>4, <2>3, OutsideWell
  <2> QED
    BY <1>1, <1>2, <1>4, <2>1, <2>4, NothingIsCounters, ClientKeeps
<1>7. CASE ~ (Len(s.queue) >= Capacity)
  <2> DEFINE e == Enqueued(s, place, 1)
             t == [todo EXCEPT ![j][n] = @ - 1]
  <2>1. sub' = [sub EXCEPT ![c] = e] /\ todo' = t /\ mu' = mu /\ pc' = pc
    BY <1>3, <1>7
  <2> HIDE DEF s, u, r
  <2>2. Well(log, e, r, u, "merging", t)
    BY <1>2, <1>3, MergedWell
  <2>3. t \in Counters
    <3>1. todo[j] \in [Index -> Nat] /\ todo[j][n] - 1 \in Nat
      BY <1>2, <1>3 DEF Counters
    <3> QED
      BY <1>2, <1>3, <3>1 DEF Counters
  <2> HIDE DEF e, t
  <2> QED
    BY <1>1, <1>2, <1>4, <2>1, <2>2, <2>3, ClientKeeps
<1> QED
  BY <1>6, <1>7

LEMMA FinishSubscribeGap ==
  ASSUME GapInv, NEW c \in Client, FinishSubscribe(c)
  PROVE  GapInv'
<1> DEFINE u == resume[c]
           r == received[c]
           s == sub[c]
           z == [s EXCEPT !.phase = "open"]
<1>1. /\ mu = c /\ pc[c] = "merging" /\ todo = Nothing /\ todo' = todo /\ mu' = None
      /\ pc' = [pc EXCEPT ![c] = "next"] /\ sub' = [sub EXCEPT ![c] = z]
      /\ UNCHANGED <<log, pending, epoch, resume, received>>
  BY DEF FinishSubscribe, LetGo, Replace, journals
<1>2. /\ log \in Logs /\ todo \in Counters
      /\ Well(log, s, r, u, "merging", todo) /\ Sound(log, s, r, u)
      /\ resume = [resume EXCEPT ![c] = u] /\ received = [received EXCEPT ![c] = r]
  BY <1>1, OfClient
<1>3. "next" \in Steps /\ "next" \notin Busy
  BY DEF Steps, Busy
<1> HIDE DEF s, u, r
<1>4. Well(log, z, r, u, "next", todo)
  BY <1>1, <1>2, <1>3, FinishedWell
<1> HIDE DEF z
<1> QED
  BY <1>1, <1>2, <1>3, <1>4, ClientKeeps

LEMMA ReceiveGap ==
  ASSUME GapInv, NEW c \in Client, Receive(c)
  PROVE  GapInv'
<1> DEFINE u == resume[c]
           r == received[c]
           s == sub[c]
           item == Head(s.queue)
           rest == [s EXCEPT !.queue = Tail(@)]
           z == IF item.kind \in Terminal THEN [rest EXCEPT !.phase = "closed"] ELSE rest
           v == IF item.kind = "transient.gap" THEN None ELSE item.cursor
           q == IF item.kind = "durable" THEN [r EXCEPT ![item.place.journal][item.place.n] = @ + 1] ELSE r
<1>1. /\ pc[c] = "next" /\ s.queue # <<>> /\ todo' = todo /\ mu' = mu /\ pc' = pc
      /\ sub' = [sub EXCEPT ![c] = z] /\ resume' = [resume EXCEPT ![c] = v]
      /\ UNCHANGED <<log, pending, epoch>>
  BY DEF Receive, Replace, journals
<1>2. /\ log \in Logs /\ todo \in Counters /\ s \in Subscription
      /\ Well(log, s, r, u, "next", todo) /\ Sound(log, s, r, u)
      /\ pc = [pc EXCEPT ![c] = "next"] /\ received = [received EXCEPT ![c] = r]
  BY <1>1, OfClient
<1>3. received' = [received EXCEPT ![c] = q]
  <2>1. CASE item.kind = "durable"
    BY <2>1 DEF Receive
  <2>2. CASE item.kind # "durable"
    BY <1>2, <2>2 DEF Receive
  <2> QED
    BY <2>1, <2>2
<1>4. "next" \in Steps /\ "next" \notin Busy /\ "closed" \in Phases
  BY DEF Steps, Busy, Phases
<1> HIDE DEF s, u, r
<1>5. /\ z \in Subscription /\ z.queue = Tail(s.queue) /\ z.cursor = s.cursor /\ z.from = s.from
      /\ z.phase = s.phase \/ z.phase = "closed"
  <2>1. s.queue \in Seq(Entry) /\ Tail(s.queue) \in Seq(Entry)
    BY <1>1, <1>2, HeadTailProperties DEF Subscription
  <2>2. /\ rest \in Subscription /\ rest.queue = Tail(s.queue) /\ rest.cursor = s.cursor
        /\ rest.from = s.from /\ rest.phase = s.phase
    BY <1>2, <2>1 DEF Subscription
  <2> HIDE DEF rest
  <2> QED
    BY <1>4, <2>2 DEF Subscription
<1>6. z.phase \in {"open", "catchup"} => s.phase \in {"open", "catchup"}
  BY <1>5
<1>7. q = IF item.kind = "durable" THEN [r EXCEPT ![item.place.journal][item.place.n] = @ + 1] ELSE r
  OBVIOUS
<1>8. item = Head(s.queue) /\ (v = item.cursor \/ v = None)
  OBVIOUS
<1> HIDE DEF z, v, q, item
<1>11. Takes(s, r, item, z, q, v)
  BY <1>1, <1>5, <1>6, <1>7, <1>8 DEF Takes
<1>9. Sound(log, z, q, v) /\ \A j \in Journal, n \in Index : Hand(z, q, j, n) = Hand(s, r, j, n)
  BY <1>2, <1>11, TakenSound
<1>10. Well(log, z, q, v, "next", todo)
  BY <1>2, <1>4, <1>5, <1>9, TakenWell
<1> QED
  BY <1>1, <1>2, <1>3, <1>4, <1>10, ClientKeeps

\* What a subscription owes does not depend on its wake channel, nor on where its
\* client is while it is out of the calls that hold mu.
LEMMA WokenWell ==
  ASSUME NEW l, NEW s, NEW r, NEW u, NEW step, NEW after, step \notin Busy, after \notin Busy, NEW t,
         Well(l, s, r, u, step, t),
         NEW z \in Subscription, z.queue = s.queue, z.cursor = s.cursor, z.from = s.from, z.phase = s.phase
  PROVE  Well(l, z, r, u, after, t)
<1>1. Sound(l, s, r, u) /\ Covered(l, s, r) /\ Ahead(l, s)
  BY DEF Well
<1>2. Ordered(l, z, r) /\ Placed(l, z, r, u)
  BY <1>1 DEF Sound, Ordered, Placed
<1>3. Sound(l, z, r, u)
  BY <1>1, <1>2 DEF Sound
<1>4. Covered(l, z, r)
  BY <1>1 DEF Covered, Hand
<1>5. Ahead(l, z)
  BY <1>1 DEF Ahead
<1>6. InStep(l, z, r, after, t)
  BY DEF InStep, Busy
<1> QED
  BY <1>3, <1>4, <1>5, <1>6 DEF Well

LEMMA SleepGap ==
  ASSUME GapInv, NEW c \in Client, Sleep(c)
  PROVE  GapInv'
<1> DEFINE u == resume[c]
           r == received[c]
           s == sub[c]
<1>1. /\ pc[c] = "next" /\ pc' = [pc EXCEPT ![c] = "waiting"]
      /\ UNCHANGED <<log, pending, epoch, resume, received, sub, mu, todo>>
  BY DEF Sleep, journals
<1>2. /\ log \in Logs /\ todo \in Counters /\ s \in Subscription /\ Well(log, s, r, u, "next", todo)
      /\ resume = [resume EXCEPT ![c] = u] /\ received = [received EXCEPT ![c] = r]
      /\ sub = [sub EXCEPT ![c] = s]
  BY <1>1, OfClient
<1>3. "waiting" \in Steps /\ "next" \notin Busy /\ "waiting" \notin Busy
  BY DEF Steps, Busy
<1> HIDE DEF s, u, r
<1>4. Well(log, s, r, u, "waiting", todo)
  BY <1>2, <1>3, WokenWell
<1> QED
  BY <1>1, <1>2, <1>3, <1>4, ClientKeeps

LEMMA WakeGap ==
  ASSUME GapInv, NEW c \in Client, Wake(c)
  PROVE  GapInv'
<1> DEFINE u == resume[c]
           r == received[c]
           s == sub[c]
           z == [s EXCEPT !.wake = FALSE]
<1>1. /\ pc[c] = "waiting" /\ pc' = [pc EXCEPT ![c] = "next"] /\ sub' = [sub EXCEPT ![c] = z]
      /\ UNCHANGED <<log, pending, epoch, resume, received, mu, todo>>
  BY DEF Wake, Replace, journals
<1>2. /\ log \in Logs /\ todo \in Counters /\ s \in Subscription /\ Well(log, s, r, u, "waiting", todo)
      /\ resume = [resume EXCEPT ![c] = u] /\ received = [received EXCEPT ![c] = r]
  BY <1>1, OfClient
<1>3. "next" \in Steps /\ "next" \notin Busy /\ "waiting" \notin Busy
  BY DEF Steps, Busy
<1> HIDE DEF s, u, r
<1>4. /\ z \in Subscription /\ z.queue = s.queue /\ z.cursor = s.cursor /\ z.from = s.from
      /\ z.phase = s.phase
  BY <1>2 DEF Subscription
<1> HIDE DEF z
<1>5. Well(log, z, r, u, "next", todo)
  BY <1>2, <1>3, <1>4, WokenWell
<1> QED
  BY <1>1, <1>2, <1>3, <1>5, ClientKeeps

LEMMA CloseGap ==
  ASSUME GapInv, NEW c \in Client, Close(c)
  PROVE  GapInv'
<1> DEFINE u == resume[c]
           r == received[c]
           s == sub[c]
           step == pc[c]
           z == [s EXCEPT !.phase = "closed", !.queue = <<>>, !.wake = TRUE]
<1>1. /\ step \in {"next", "waiting"} /\ pc' = pc /\ sub' = [sub EXCEPT ![c] = z]
      /\ UNCHANGED <<log, pending, epoch, resume, received, mu, todo>>
  BY DEF Close, Replace, journals
<1>2. /\ log \in Logs /\ todo \in Counters /\ s \in Subscription /\ Sound(log, s, r, u)
      /\ resume = [resume EXCEPT ![c] = u] /\ received = [received EXCEPT ![c] = r]
      /\ pc = [pc EXCEPT ![c] = step]
  BY <1>1, OfClient
<1>3. step \in Steps /\ step \notin Busy
  BY <1>1 DEF Steps, Busy
<1> HIDE DEF s, u, r, step
<1>4. <<>> \in Seq(Entry) /\ Len(<<>>) = 0
  BY EmptySeq
<1>5. "closed" \in Phases
  BY DEF Phases
<1>6. /\ z \in Subscription /\ z.queue = <<>> /\ z.cursor = s.cursor /\ z.from = s.from
      /\ z.phase = "closed"
  BY <1>2, <1>4, <1>5 DEF Subscription
<1> HIDE DEF z
<1>7. Ordered(log, z, r)
  <2>1. 1 .. Len(z.queue) = {}
    BY <1>4, <1>6
  <2> QED
    BY <2>1 DEF Ordered
<1>8. Placed(log, z, r, u)
  BY <1>2, <1>6 DEF Sound, Placed
<1>9. Sound(log, z, r, u)
  BY <1>2, <1>6, <1>7, <1>8 DEF Sound
<1>10. Well(log, z, r, u, step, todo)
  BY <1>3, <1>6, <1>9, OutsideWell
<1> QED
  BY <1>1, <1>2, <1>3, <1>10, ClientKeeps

LEMMA ClientStepGap ==
  ASSUME GapInv, NEW c \in Client, ClientStep(c)
  PROVE  GapInv'
<1>1. CASE Snapshot(c) \/ FinishSnapshot(c) \/ FailRead(c)
  BY <1>1, SnapshotGap, FinishSnapshotGap, FailReadGap
<1>2. CASE Subscribe(c) \/ SubscribeStale(c) \/ ReadSession(c) \/ FinishSubscribe(c)
  BY <1>2, SubscribeGap, SubscribeStaleGap, ReadSessionGap, FinishSubscribeGap
<1>3. ASSUME NEW j \in Journal, CatchUp(c, j)
      PROVE  GapInv'
  BY <1>3, CatchUpGap
<1>4. CASE Receive(c) \/ Sleep(c) \/ Wake(c) \/ Eof(c) \/ Close(c)
  BY <1>4, ReceiveGap, SleepGap, WakeGap, EofGap, CloseGap
<1> QED
  BY <1>1, <1>2, <1>3, <1>4 DEF ClientStep

\* A step of the broker itself: the client in a call that holds mu sees none but
\* the commits.
LEMMA BrokerKeeps ==
  ASSUME GapInv, log' \in Logs, PendingOK', PendingOnce', epoch' \in Nat,
         UNCHANGED <<mu, todo, pc, resume, received>>, sub' = [c \in Client |-> sub'[c]],
         \A c \in Client : Well(log', sub'[c], received[c], resume[c], pc[c], todo)
  PROVE  GapInv'
<1>1. \A c \in Client : sub'[c] \in Subscription
  BY DEF Well, Sound
<1>2. sub' \in [Client -> Subscription]
  BY <1>1
<1>3. /\ todo' \in Counters /\ received' \in [Client -> Counters]
      /\ resume' \in [Client -> Point \cup {None}] /\ pc' \in [Client -> Steps]
  BY DEF GapInv
<1>4. \A c \in Client : /\ Well(log', sub'[c], received'[c], resume'[c], pc'[c], todo')
                        /\ pc'[c] \in Busy => mu' = c
  BY DEF GapInv
<1> QED
  BY <1>2, <1>3, <1>4 DEF GapInv

\* While no call holds mu no client is in one.
LEMMA NobodyIsBusy ==
  ASSUME GapInv, mu = None, NEW c \in Client
  PROVE  pc[c] \notin Busy
BY NamesAssumption DEF GapInv

LEMMA MaxCommitsIsNumber == MaxCommits \in Nat
BY SizesAssumption

LEMMA OneMoreFits ==
  ASSUME NEW a \in Nat, NEW b \in Nat, a + b < MaxCommits
  PROVE  (a + 1) + b <= MaxCommits /\ a + (b + 1) <= MaxCommits
BY MaxCommitsIsNumber

\* A commit: what it adds to a journal is not sent.
LEMMA CommitExtends ==
  ASSUME GapInv, Commits < MaxCommits, NEW j \in Journal, NEW size \in 1 .. MaxSize,
         NEW status \in Status, status # "published", status # "late", AppendTo(j, size, status)
  PROVE  /\ log' \in Logs /\ Extends(log, log')
         /\ \A k \in Journal : Len(log[k]) \in Nat
         /\ Len(log'[j]) = Len(log[j]) + 1 /\ log'[j][Len(log[j]) + 1].status = status
<1>1. log \in Logs /\ LogOK
  BY DEF GapInv, Logs, LogOK
<1>2. /\ LogOK'
      /\ Len(log'[j]) = Len(log[j]) + 1
      /\ \A n \in 1 .. Len(log[j]) : log'[j][n] = log[j][n]
      /\ log'[j][Len(log[j]) + 1].status = status
      /\ \A k \in Journal \ {j} : log'[k] = log[k]
  BY <1>1, AppendToKeeps
<1>3. \A k \in Journal : Len(log[k]) \in Nat
  BY <1>1, LogFacts
<1>4. /\ "control" \in Journal /\ "session" \in Journal /\ (j = "control" \/ j = "session")
      /\ Len(log["control"]) \in Nat /\ Len(log["session"]) \in Nat
      /\ Len(log["control"]) + Len(log["session"]) < MaxCommits
  BY <1>3 DEF Journal, Commits, HeadOf
<1>5. Len(log'["control"]) + Len(log'["session"]) <= MaxCommits
  <2>1. CASE j = "control"
    <3>1. Len(log'["control"]) = Len(log["control"]) + 1 /\ Len(log'["session"]) = Len(log["session"])
      BY <1>2, <1>4, <2>1
    <3> QED
      BY <1>4, <3>1, OneMoreFits
  <2>2. CASE j = "session"
    <3>1. Len(log'["session"]) = Len(log["session"]) + 1 /\ Len(log'["control"]) = Len(log["control"])
      BY <1>2, <1>4, <2>2
    <3> QED
      BY <1>4, <3>1, OneMoreFits
  <2> QED
    BY <1>4, <2>1, <2>2
<1>6. log' \in Logs
  BY <1>2, <1>5 DEF LogOK, Logs
<1>7. Extends(log, log')
  <2> SUFFICES ASSUME NEW k \in Journal
               PROVE  /\ Len(log[k]) <= Len(log'[k])
                      /\ \A n \in 1 .. Len(log[k]) : log'[k][n] = log[k][n]
                      /\ \A n \in Len(log[k]) + 1 .. Len(log'[k]) : ~ Sent(log', k, n)
    BY DEF Extends
  <2>1. CASE k = j
    <3>1. \A n \in Len(log[k]) + 1 .. Len(log'[k]) : n = Len(log[j]) + 1
      BY <1>2, <1>3, <2>1
    <3>2. ~ Sent(log', j, Len(log[j]) + 1)
      BY <1>2 DEF Sent
    <3> QED
      BY <1>2, <1>3, <2>1, <3>1, <3>2
  <2>2. CASE k # j
    BY <1>2, <1>3, <2>2
  <2> QED
    BY <2>1, <2>2
<1> QED
  BY <1>2, <1>3, <1>6, <1>7

\* What is pending stays where it is while the journals grow behind it.
LEMMA PendingStays ==
  ASSUME GapInv, log' \in Logs, Extends(log, log'), NEW p \in Publisher, pending[p] # None
  PROVE  /\ pending[p] \in [journal : Journal, n : Nat]
         /\ pending[p].n \in 1 .. Len(log[pending[p].journal])
         /\ pending[p].n \in 1 .. Len(log'[pending[p].journal])
         /\ log'[pending[p].journal][pending[p].n].status = "committed"
<1>1. /\ pending[p] \in [journal : Journal, n : Nat] /\ pending[p].journal \in Journal
      /\ pending[p].n \in 1 .. Len(log[pending[p].journal])
      /\ log[pending[p].journal][pending[p].n].status = "committed"
  BY DEF GapInv, PendingOK, PendingOnce
<1>2. Len(log[pending[p].journal]) \in Nat /\ Len(log'[pending[p].journal]) \in Nat
  BY <1>1, LogFacts DEF GapInv
<1>3. /\ Len(log[pending[p].journal]) <= Len(log'[pending[p].journal])
      /\ log'[pending[p].journal][pending[p].n] = log[pending[p].journal][pending[p].n]
  BY <1>1 DEF Extends
<1> QED
  BY <1>1, <1>2, <1>3

LEMMA GrowthKeeps ==
  ASSUME GapInv, log' \in Logs, Extends(log, log'), PendingOK', PendingOnce', UNCHANGED <<epoch, clients>>
  PROVE  GapInv'
<1>1. /\ log \in Logs /\ todo \in Counters /\ epoch' \in Nat /\ sub \in [Client -> Subscription]
      /\ UNCHANGED <<mu, todo, sub, pc, resume, received>>
  BY DEF GapInv, clients
<1>2. \A c \in Client : Well(log', sub'[c], received[c], resume[c], pc[c], todo)
  <2> TAKE c \in Client
  <2>1. Well(log, sub[c], received[c], resume[c], pc[c], todo)
    BY DEF GapInv
  <2>2. Well(log', sub[c], received[c], resume[c], pc[c], todo)
    BY <1>1, <2>1, WellExtends
  <2> QED
    BY <1>1, <2>2
<1>3. sub' = [c \in Client |-> sub'[c]]
  BY <1>1
<1> QED
  BY <1>1, <1>2, <1>3, BrokerKeeps

LEMMA CommitSilentlyGap ==
  ASSUME GapInv, NEW j \in Journal, NEW size \in 1 .. MaxSize, CommitSilently(j, size)
  PROVE  GapInv'
<1>1. /\ Commits < MaxCommits /\ AppendTo(j, size, "silent") /\ pending' = pending
      /\ UNCHANGED <<epoch, clients>>
  BY DEF CommitSilently
<1>2. log' \in Logs /\ Extends(log, log')
  BY <1>1, CommitExtends DEF Status
<1>3. PendingOK' /\ PendingOnce'
  BY <1>1, <1>2, PendingStays DEF GapInv, PendingOK, PendingOnce
<1> QED
  BY <1>1, <1>2, <1>3, GrowthKeeps

LEMMA CommitGap ==
  ASSUME GapInv, NEW p \in Publisher, NEW j \in Journal, NEW size \in 1 .. MaxSize, Commit(p, j, size)
  PROVE  GapInv'
<1> DEFINE place == [journal |-> j, n |-> Len(log[j]) + 1]
<1>1. /\ Commits < MaxCommits /\ AppendTo(j, size, "committed") /\ pending[p] = None
      /\ pending' = [pending EXCEPT ![p] = place] /\ UNCHANGED <<epoch, clients>>
  BY DEF Commit, HeadOf
<1>2. /\ log' \in Logs /\ Extends(log, log') /\ Len(log[j]) \in Nat
      /\ Len(log'[j]) = Len(log[j]) + 1 /\ log'[j][Len(log[j]) + 1].status = "committed"
  BY <1>1, CommitExtends DEF Status
<1>3. /\ pending \in [Publisher -> [journal : Journal, n : Nat] \cup {None}]
      /\ place \in [journal : Journal, n : Nat] /\ place.journal = j /\ place.n = Len(log[j]) + 1
  BY <1>2 DEF GapInv, PendingOK
<1> HIDE DEF place
<1>4. PendingOK' /\ pending'[p] = place /\ \A q \in Publisher \ {p} : pending'[q] = pending[q]
  BY <1>1, <1>3 DEF PendingOK
<1>5. PendingOnce'
  <2> SUFFICES ASSUME NEW q \in Publisher, pending'[q] # None
               PROVE  /\ pending'[q].n \in 1 .. Len(log'[pending'[q].journal])
                      /\ log'[pending'[q].journal][pending'[q].n].status = "committed"
                      /\ \A o \in Publisher : pending'[o] = pending'[q] => o = q
    BY DEF PendingOnce
  <2>1. \A o \in Publisher \ {p} : pending[o] # None => pending[o] # place
    <3> SUFFICES ASSUME NEW o \in Publisher \ {p}, pending[o] # None, pending[o] = place
                 PROVE  FALSE
      OBVIOUS
    <3>1. pending[o].n \in 1 .. Len(log[pending[o].journal])
      BY <1>2, PendingStays
    <3> QED
      BY <1>2, <1>3, <3>1
  <2>2. CASE q = p
    <3>1. place.n \in 1 .. Len(log'[place.journal]) /\ log'[place.journal][place.n].status = "committed"
      BY <1>2, <1>3
    <3>2. \A o \in Publisher : pending'[o] = place => o = p
      BY <1>4, <2>1, <2>2
    <3> QED
      BY <1>4, <2>2, <3>1, <3>2
  <2>3. CASE q # p
    <3>1. pending'[q] = pending[q] /\ pending[q] # None /\ pending[q] # place
      BY <1>4, <2>1, <2>3
    <3>2. \A o \in Publisher : pending[o] = pending[q] => o = q
      BY <3>1 DEF GapInv, PendingOnce
    <3>3. \A o \in Publisher : pending'[o] = pending[q] => o = q
      BY <1>4, <3>1, <3>2
    <3> QED
      BY <1>2, <3>1, <3>3, PendingStays
  <2> QED
    BY <2>2, <2>3
<1> QED
  BY <1>1, <1>2, <1>4, <1>5, GrowthKeeps

\* PublishCommitted marks its transaction in the journal and leaves the others.
LEMMA PublishMarks ==
  ASSUME GapInv, NEW p \in Publisher, Publish(p)
  PROVE  log' \in Logs /\ Marks(log, log', pending[p])
<1> DEFINE place == pending[p]
           j == place.journal
           n == place.n
           status == IF Overtaken(place) THEN "late" ELSE "published"
           t == [log[j][n] EXCEPT !.status = status]
<1>1. /\ place # None
      /\ log' = [log EXCEPT ![j] = [log[j] EXCEPT ![n] = t]]
  BY DEF Publish
<1>2. /\ place \in [journal : Journal, n : Nat] /\ n \in 1 .. Len(log[j])
      /\ log[j][n].status = "committed" /\ j \in Journal
  BY <1>1 DEF GapInv, PendingOK, PendingOnce
<1>3. /\ log \in [Journal -> Seq(Transaction)] /\ log \in Logs
      /\ \A k \in Journal : log[k] \in Seq(Transaction) /\ Len(log[k]) \in Nat
  BY LogFacts DEF GapInv, Logs
<1>4. log[j][n] \in Transaction
  BY <1>2, <1>3, ElementOfSeq
<1>5. t \in Transaction /\ t.size = log[j][n].size /\ t.status = status
  BY <1>4 DEF Transaction, Status
<1>6. Overtaken(place) <=> Passed(log, j, n)
  BY DEF Overtaken, HeadOf, Passed, Sent
<1>7. status = IF Passed(log, j, n) THEN "late" ELSE "published"
  BY <1>6
<1> HIDE DEF status, t
<1> DEFINE x == [log[j] EXCEPT ![n] = t]
<1>8. /\ x \in Seq(Transaction) /\ Len(x) = Len(log[j])
      /\ \A i \in 1 .. Len(log[j]) : x[i] = IF i = n THEN t ELSE log[j][i]
  BY <1>2, <1>3, <1>5, ExceptSeq
<1>9. log' = [log EXCEPT ![j] = x]
  BY <1>1
<1> HIDE DEF x, place, j, n
<1>10. /\ log' \in [Journal -> Seq(Transaction)] /\ log'[j] = x
       /\ \A k \in Journal \ {j} : log'[k] = log[k]
  BY <1>2, <1>3, <1>8, <1>9
<1>11. \A k \in Journal : Len(log'[k]) = Len(log[k])
  BY <1>8, <1>10
<1>12. log' \in Logs
  BY <1>3, <1>10, <1>11 DEF Logs, Journal
<1>13. \A k \in Journal : \A i \in 1 .. Len(log[k]) :
         [journal |-> k, n |-> i] # [journal |-> j, n |-> n] => log'[k][i] = log[k][i]
  BY <1>8, <1>10
<1>14. place = [journal |-> j, n |-> n] /\ place.journal = j /\ place.n = n
  BY <1>2 DEF place, j, n
<1>15. log'[j][n].size = log[j][n].size /\ log'[j][n].status = status
  BY <1>2, <1>5, <1>8, <1>10
<1>16. Marks(log, log', place)
  BY <1>2, <1>7, <1>11, <1>13, <1>14, <1>15 DEF Marks
<1> QED
  BY <1>12, <1>16 DEF place

LEMMA PublishGap ==
  ASSUME GapInv, NEW p \in Publisher, Publish(p)
  PROVE  GapInv'
<1> DEFINE place == pending[p]
           size == Weight(log, place.journal, place.n)
<1>1. /\ mu = None /\ place # None /\ pending' = [pending EXCEPT ![p] = None]
      /\ UNCHANGED <<epoch, mu, todo, pc, resume, received>>
      /\ sub' = [c \in Client |-> Delivered(sub[c], place, size)]
  BY SizeIsWeight DEF Publish
<1>2. log \in Logs /\ log' \in Logs /\ Marks(log, log', place) /\ epoch \in Nat
  BY PublishMarks DEF GapInv
<1>3. \A k \in Journal : \A n \in 1 .. Len(log[k]) :
        [journal |-> k, n |-> n] # place => log'[k][n] = log[k][n]
  BY <1>2 DEF Marks
<1>4. \A k \in Journal : Len(log'[k]) = Len(log[k])
  BY <1>2 DEF Marks
<1> HIDE DEF size
<1>5. \A c \in Client : Well(log', sub'[c], received[c], resume[c], pc[c], todo)
  <2> TAKE c \in Client
  <2>1. Well(log, sub[c], received[c], resume[c], pc[c], todo) /\ pc[c] \notin Busy
    BY <1>1, NobodyIsBusy DEF GapInv
  <2> HIDE DEF place
  <2>2. Well(log', Delivered(sub[c], place, size), received[c], resume[c], pc[c], todo)
    BY <1>2, <2>1, DeliveredWell DEF size
  <2> QED
    BY <1>1, <2>2
<1>6. /\ PendingOK' /\ pending'[p] = None
      /\ \A q \in Publisher \ {p} : pending'[q] = pending[q]
  BY <1>1 DEF GapInv, PendingOK
<1>7. PendingOnce'
  <2> SUFFICES ASSUME NEW q \in Publisher, pending'[q] # None
               PROVE  /\ pending'[q].n \in 1 .. Len(log'[pending'[q].journal])
                      /\ log'[pending'[q].journal][pending'[q].n].status = "committed"
                      /\ \A o \in Publisher : pending'[o] = pending'[q] => o = q
    BY DEF PendingOnce
  <2>1. q # p /\ pending'[q] = pending[q] /\ pending[q] # None
    BY <1>6
  <2>2. /\ pending[q] \in [journal : Journal, n : Nat]
        /\ pending[q].n \in 1 .. Len(log[pending[q].journal])
        /\ log[pending[q].journal][pending[q].n].status = "committed"
        /\ \A o \in Publisher : pending[o] = pending[q] => o = q
    BY <2>1 DEF GapInv, PendingOK, PendingOnce
  <2>3. pending[q] # place
    BY <2>1, <2>2
  <2>4. log'[pending[q].journal][pending[q].n] = log[pending[q].journal][pending[q].n]
    BY <1>3, <2>2, <2>3
  <2>5. \A o \in Publisher : pending'[o] = pending[q] => o = q
    BY <1>6, <2>1, <2>2
  <2> QED
    BY <1>4, <2>1, <2>2, <2>4, <2>5
<1>8. sub' = [c \in Client |-> sub'[c]]
  BY <1>1
<1> QED
  BY <1>1, <1>2, <1>5, <1>6, <1>7, <1>8, BrokerKeeps

LEMMA PublishTransientGap ==
  ASSUME GapInv, PublishTransient
  PROVE  GapInv'
<1>1. /\ mu = None /\ UNCHANGED <<log, pending, epoch, mu, todo, pc, resume, received>>
      /\ sub' = [c \in Client |-> WithTransient(sub[c])]
  BY DEF PublishTransient, journals
<1>2. log' \in Logs /\ log \in Logs /\ PendingOK' /\ PendingOnce' /\ epoch' \in Nat /\ epoch \in Nat
  BY <1>1 DEF GapInv, PendingOK, PendingOnce
<1>3. \A c \in Client : Well(log', sub'[c], received[c], resume[c], pc[c], todo)
  <2> TAKE c \in Client
  <2>1. Well(log, sub[c], received[c], resume[c], pc[c], todo) /\ pc[c] \notin Busy
    BY <1>1, NobodyIsBusy DEF GapInv
  <2>2. Well(log, WithTransient(sub[c]), received[c], resume[c], pc[c], todo)
    BY <1>2, <2>1, TransientWell
  <2> QED
    BY <1>1, <2>2
<1>4. sub' = [c \in Client |-> sub'[c]]
  BY <1>1
<1> QED
  BY <1>1, <1>2, <1>3, <1>4, BrokerKeeps

LEMMA RotateEpochGap ==
  ASSUME GapInv, RotateEpoch
  PROVE  GapInv'
<1> DEFINE ended(s) == Terminated(s, "ended", "transient.gap", s.cursor.at, epoch + 1)
<1>1. /\ mu = None /\ epoch' = epoch + 1 /\ UNCHANGED <<log, pending, mu, todo, pc, resume, received>>
      /\ sub' = [c \in Client |-> IF sub[c].phase = "open" THEN ended(sub[c]) ELSE sub[c]]
  BY DEF RotateEpoch, journals
<1>2. log' \in Logs /\ log \in Logs /\ PendingOK' /\ PendingOnce' /\ epoch + 1 \in Nat
  BY <1>1 DEF GapInv, PendingOK, PendingOnce
<1>3. "ended" \in Phases /\ "transient.gap" \in Terminal
  BY DEF Phases, Terminal
<1>4. \A c \in Client : Well(log', sub'[c], received[c], resume[c], pc[c], todo)
  <2> TAKE c \in Client
  <2>1. Well(log, sub[c], received[c], resume[c], pc[c], todo) /\ pc[c] \notin Busy
        /\ sub[c] \in Subscription
    BY <1>1, NobodyIsBusy DEF GapInv
  <2>2. CASE sub[c].phase = "open"
    <3>1. Closes(sub[c], ended(sub[c]), "ended")
      BY <1>2, <1>3, <2>1, TerminatedCloses
    <3> HIDE DEF ended
    <3>2. Well(log, ended(sub[c]), received[c], resume[c], pc[c], todo)
      BY <1>2, <2>1, <2>2, <3>1, ClosedWell
    <3> QED
      BY <1>1, <2>2, <3>2
  <2>3. CASE sub[c].phase # "open"
    BY <1>1, <2>1, <2>3
  <2> QED
    BY <2>2, <2>3
<1>5. sub' = [c \in Client |-> sub'[c]]
  BY <1>1
<1> QED
  BY <1>1, <1>2, <1>4, <1>5, BrokerKeeps

LEMMA InitGap == Init => GapInv
<1> SUFFICES ASSUME Init
             PROVE  GapInv
  OBVIOUS
<1> DEFINE s == NewSubscription(Origin, "none")
<1>1. /\ log = [j \in Journal |-> <<>>] /\ pending = [p \in Publisher |-> None] /\ epoch = 0
      /\ todo = Nothing /\ sub = [c \in Client |-> s] /\ pc = [c \in Client |-> "out"]
      /\ resume = [c \in Client |-> None] /\ received = [c \in Client |-> Nothing]
  BY DEF Init
<1>2. log \in Logs
  <2>1. log \in [Journal -> Seq(Transaction)]
    BY <1>1, EmptySeq
  <2>2. Len(log["control"]) = 0 /\ Len(log["session"]) = 0
    BY <1>1, EmptySeq DEF Journal
  <2>3. 0 + 0 <= MaxCommits
    BY MaxCommitsIsNumber
  <2>4. Len(log["control"]) + Len(log["session"]) <= MaxCommits
    BY <2>2, <2>3
  <2> QED
    BY <2>1, <2>4 DEF Logs
<1>3. Nothing \in Counters /\ \A j \in Journal, n \in Index : Nothing[j][n] = 0
  BY NothingIsCounters DEF Nothing
<1>4. "none" \in Phases /\ "out" \in Steps /\ "out" \notin Busy
  BY DEF Phases, Steps, Busy
<1>5. Origin \in Point /\ Below(Origin.at, Heads(log))
  BY <1>2, OriginIsPoint
<1>6. KnowsUpTo(Nothing, Heads(log))
  BY <1>3 DEF KnowsUpTo
<1>7. Sound(log, s, Nothing, None) /\ s.phase = "none"
  BY <1>2, <1>3, <1>4, <1>5, <1>6, FreshSound
<1> HIDE DEF s
<1>8. Well(log, s, Nothing, None, "out", Nothing)
  BY <1>4, <1>7, OutsideWell
<1>9. s \in Subscription
  BY <1>7 DEF Sound
<1>10. \A c \in Client : /\ Well(log, sub[c], received[c], resume[c], pc[c], todo)
                         /\ pc[c] \notin Busy
  BY <1>1, <1>4, <1>8
<1>11. PendingOK /\ PendingOnce
  BY <1>1 DEF PendingOK, PendingOnce
<1>12. epoch \in Nat /\ todo \in Counters /\ sub \in [Client -> Subscription]
       /\ received \in [Client -> Counters] /\ resume \in [Client -> Point \cup {None}]
       /\ pc \in [Client -> Steps]
  BY <1>1, <1>3, <1>4, <1>9
<1> QED
  BY <1>2, <1>10, <1>11, <1>12 DEF GapInv

LEMMA NextGap == GapInv /\ [Next]_vars => GapInv'
<1> SUFFICES ASSUME GapInv, [Next]_vars
             PROVE  GapInv'
  OBVIOUS
<1>1. ASSUME NEW j \in Journal, NEW size \in 1 .. MaxSize, CommitSilently(j, size)
      PROVE  GapInv'
  BY <1>1, CommitSilentlyGap
<1>2. ASSUME NEW j \in Journal, NEW size \in 1 .. MaxSize, NEW p \in Publisher, Commit(p, j, size)
      PROVE  GapInv'
  BY <1>2, CommitGap
<1>3. ASSUME NEW p \in Publisher, Publish(p)
      PROVE  GapInv'
  BY <1>3, PublishGap
<1>4. CASE PublishTransient \/ RotateEpoch
  BY <1>4, PublishTransientGap, RotateEpochGap
<1>5. ASSUME NEW c \in Client, ClientStep(c)
      PROVE  GapInv'
  BY <1>5, ClientStepGap
<1>6. CASE UNCHANGED vars
  BY <1>6 DEF vars, GapInv, PendingOK, PendingOnce
<1> QED
  BY <1>1, <1>2, <1>3, <1>4, <1>5, <1>6 DEF Next, BrokerStep

LEMMA GapInvShowsNoGap == GapInv => NoGap
<1> SUFFICES ASSUME GapInv, NEW c \in Client, NEW j \in Journal, NEW n \in sub[c].from[j] + 1 .. HeadOf(j),
                    sub[c].phase \in {"open", "ended"}, log[j][n].status = "published",
                    sub[c].phase = "open" \/ n <= sub[c].cursor.at[j]
             PROVE  InHand(c, j, n) = SizeOf(j, n)
  BY DEF NoGap
<1>1. /\ log \in Logs /\ sub[c] \in Subscription
      /\ Covered(log, sub[c], received[c]) /\ Ahead(log, sub[c])
  BY DEF GapInv, Well
<1>2. /\ sub[c].from[j] \in Nat /\ sub[c].cursor.at[j] \in Nat /\ Len(log[j]) \in Nat
      /\ n \in sub[c].from[j] + 1 .. Len(log[j]) /\ n \in Nat
  <2>1. sub[c].from[j] \in Nat /\ sub[c].cursor.at[j] \in Nat /\ Len(log[j]) \in Nat
    BY <1>1, LogFacts DEF Subscription, Point
  <2> QED
    BY <2>1 DEF HeadOf
<1>3. n <= sub[c].cursor.at[j]
  <2>1. CASE sub[c].phase = "open"
    <3>1. Unsent(log, j, sub[c].cursor.at[j])
      BY <1>1, <2>1 DEF Ahead
    <3>2. Sent(log, j, n)
      BY DEF Sent
    <3> QED
      BY <1>2, <3>1, <3>2 DEF Unsent
  <2> QED
    BY <2>1
<1>4. n \in sub[c].from[j] + 1 .. sub[c].cursor.at[j] /\ InOrder(log, j, n)
  BY <1>2, <1>3 DEF InOrder
<1>5. Hand(sub[c], received[c], j, n) = Weight(log, j, n)
  BY <1>1, <1>4 DEF Covered
<1>6. Queued(c, j, n) = Cardinality(PlacesOf(sub[c].queue, j, n))
  BY DEF Queued, PlacesOf
<1> QED
  BY <1>5, <1>6, SizeIsWeight DEF InHand, Hand

\* No gap in a subscription (Broker.Snapshot, readCatchUpLocked, Subscribe and
\* PublishCommitted under Broker.mu): what the snapshot, the catch-up and the
\* publications hand to a client is every event of every transaction that was
\* published in its turn after the place where the subscription starts, whatever
\* is committed while the heads are read, and also after a live overflow or a new
\* epoch has ended the subscription, up to its cursor.
THEOREM NothingMissed == Spec => []NoGap
BY InitGap, NextGap, GapInvShowsNoGap, PTL DEF Spec
=============================================================================
