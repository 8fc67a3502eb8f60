------------------------------- MODULE Broker -------------------------------
(***************************************************************************)
(* The event broker of internal/app: what was committed to the control and *)
(* the session journal reaches every subscription, by a snapshot, by       *)
(* catch-up from the journals or by publication after the commit.          *)
(*                                                                         *)
(* Broker.mu is held through a whole Snapshot or Subscribe, but a commit   *)
(* does not take it: journals grow while heads are read, and a transaction *)
(* is committed some time before it is published.  The operation that      *)
(* holds the lane commits to both journals; a pure command (a request for  *)
(* a snapshot or a subscription) commits to the control journal beside it. *)
(***************************************************************************)
EXTENDS Naturals, Sequences, FiniteSets

CONSTANTS
  Client,          \* consumers of events, each with one subscription at a time
  PureCommand,     \* commands committed outside the operation lane
  Operation,       \* the operation that holds the lane
  None,
  Capacity,        \* events a subscription's queue holds
  MaxCommits,      \* bound: transactions committed, all journals together
  MaxSize,         \* bound: events in a transaction
  MaxIncidents     \* bound: transient events, new epochs and silent commits

ASSUME SizesAssumption ==
  /\ Capacity \in Nat \ {0}
  /\ {MaxCommits, MaxSize, MaxIncidents} \subseteq Nat

ASSUME NamesAssumption == Operation \notin PureCommand /\ None \notin Client

VARIABLES
  log,         \* journal -> its committed transactions
  pending,     \* publisher -> the transaction it committed and has not published
  epoch,       \* Broker.epoch
  streamSeq,   \* Broker.streamSeq
  mu,          \* the client whose call holds Broker.mu over several steps
  todo,        \* events the Subscribe that holds mu still has to enqueue
  sub,         \* client -> its brokerSubscription
  pc,          \* client -> where it is
  resume,      \* client -> the cursor it would reconnect after
  received     \* client -> how much of each transaction it knows

vars == <<log, pending, epoch, streamSeq, mu, todo, sub, pc, resume, received>>
journals == <<log, pending>>
clients == <<mu, todo, sub, pc, resume, received>>

Journal == {"control", "session"}
Publisher == PureCommand \cup {Operation}
Index == 1 .. MaxCommits

\* "committed" is not published yet, "silent" never will be: another process
\* committed it, or its commit was reported as unknown.  "late" was published
\* after a later transaction of its journal.
Status == {"committed", "published", "late", "silent"}
Transaction == [size : 1 .. MaxSize, status : Status]
Place == [journal : Journal, n : Index]
Cursor == [at : [Journal -> 0 .. MaxCommits], epoch : 0 .. MaxIncidents]
Terminal == {"slow_consumer", "transient.gap"}
Item == [kind : {"durable"}, place : Place, cursor : Cursor]
          \cup [kind : {"transient"} \cup Terminal, cursor : Cursor]
Counts == [Journal -> [Index -> 0 .. MaxSize]]

\* "catchup" until Subscribe registers it, "open" while registered, "ended" and
\* "failed" once a terminal is queued for an open one or during catch-up.
Phases == {"none", "catchup", "open", "ended", "failed", "closed"}
Steps == {"out", "snapshot", "reading", "merging", "next", "waiting"}

HeadOf(j) == Len(log[j])
Commits == HeadOf("control") + HeadOf("session")
Silent(j) == {n \in 1 .. HeadOf(j) : log[j][n].status = "silent"}
Incidents == epoch + streamSeq + Cardinality(Silent("control")) + Cardinality(Silent("session"))
Nothing == [j \in Journal |-> [n \in Index |-> 0]]
SizeOf(j, n) == IF n <= HeadOf(j) THEN log[j][n].size ELSE 0
Origin == [at |-> [j \in Journal |-> 0], epoch |-> 0]
NewSubscription(cursor, phase) ==
  [phase |-> phase, queue |-> <<>>, cursor |-> cursor, from |-> cursor.at, wake |-> FALSE]

TypeOK ==
  /\ log \in [Journal -> Seq(Transaction)] /\ Commits <= MaxCommits
  /\ pending \in [Publisher -> Place \cup {None}]
  /\ epoch \in 0 .. MaxIncidents
  /\ streamSeq \in 0 .. MaxIncidents
  /\ mu \in Client \cup {None}
  /\ todo \in Counts
  /\ \A c \in Client :
       /\ sub[c].phase \in Phases
       /\ sub[c].queue \in Seq(Item)
       /\ sub[c].cursor \in Cursor
       /\ sub[c].from \in [Journal -> 0 .. MaxCommits]
       /\ sub[c].wake \in BOOLEAN
  /\ pc \in [Client -> Steps]
  /\ resume \in [Client -> Cursor \cup {None}]
  /\ received \in [Client -> [Journal -> [Index -> Nat]]]

Init ==
  /\ log = [j \in Journal |-> <<>>]
  /\ pending = [p \in Publisher |-> None]
  /\ epoch = 0
  /\ streamSeq = 0
  /\ mu = None
  /\ todo = Nothing
  /\ sub = [c \in Client |-> NewSubscription(Origin, "none")]
  /\ pc = [c \in Client |-> "out"]
  /\ resume = [c \in Client |-> None]
  /\ received = [c \in Client |-> Nothing]

-----------------------------------------------------------------------------
(* Commits.  They do not take Broker.mu. *)

AppendTo(j, size, status) == log' = [log EXCEPT ![j] = Append(@, [size |-> size, status |-> status])]

\* A commit to any journal from outside the lane.
CommitAnywhere(p, j, size) ==
  /\ Commits < MaxCommits
  /\ pending[p] = None
  /\ AppendTo(j, size, "committed")
  /\ pending' = [pending EXCEPT ![p] = [journal |-> j, n |-> HeadOf(j) + 1]]
  /\ UNCHANGED <<epoch, streamSeq, clients>>

\* appendBatch of a publisher; PublishCommitted follows in a step of its own.
Commit(p, j, size) ==
  /\ Commits < MaxCommits
  /\ pending[p] = None
  /\ p \in PureCommand => j = "control"
  /\ AppendTo(j, size, "committed")
  /\ pending' = [pending EXCEPT ![p] = [journal |-> j, n |-> HeadOf(j) + 1]]
  /\ UNCHANGED <<epoch, streamSeq, clients>>

\* A commit of another process, or one reported as commit_unknown.
CommitSilently(j, size) ==
  /\ Commits < MaxCommits
  /\ Incidents < MaxIncidents
  /\ AppendTo(j, size, "silent")
  /\ UNCHANGED <<pending, epoch, streamSeq, clients>>

-----------------------------------------------------------------------------
(* brokerSubscription, under Broker.mu. *)

\* queueTerminalLocked
Terminated(s, phase, kind, at, e) ==
  [s EXCEPT !.phase = phase, !.wake = TRUE,
            !.queue = Append(@, [kind |-> kind, cursor |-> [at |-> at, epoch |-> e]])]

Overflowed(s, phase) == Terminated(s, phase, "slow_consumer", s.cursor.at, s.cursor.epoch)

HasCursor(s, place) == s.cursor.at[place.journal] >= place.n

CursorAfter(s, place) ==
  [at |-> IF HasCursor(s, place) THEN s.cursor.at ELSE [s.cursor.at EXCEPT ![place.journal] = place.n],
   epoch |-> epoch]

\* Events of a transaction, each with the cursor after the whole of it.
Enqueued(s, place, count) ==
  LET next == CursorAfter(s, place) IN
  [s EXCEPT !.queue = @ \o [i \in 1 .. count |-> [kind |-> "durable", place |-> place, cursor |-> next]],
            !.cursor = next, !.wake = TRUE]

\* Live delivery that enqueues what fits of a transaction and drops the rest.
DeliveredInPart(s, place, size) ==
  IF s.phase # "open" \/ HasCursor(s, place) THEN s
  ELSE Enqueued(s, place, IF Len(s.queue) + size > Capacity THEN Capacity - Len(s.queue) ELSE size)

\* enqueueTransactionLocked: all events of a transaction or none of them.
Delivered(s, place, size) ==
  IF s.phase # "open" \/ HasCursor(s, place) THEN s
  ELSE IF Len(s.queue) + size > Capacity THEN Overflowed(s, "ended")
  ELSE Enqueued(s, place, size)

WithTransient(s) ==
  IF s.phase # "open" THEN s
  ELSE IF Len(s.queue) >= Capacity THEN Overflowed(s, "ended")
  ELSE [s EXCEPT !.queue = Append(@, [kind |-> "transient", cursor |-> [s.cursor EXCEPT !.epoch = epoch]]),
                 !.wake = TRUE]

-----------------------------------------------------------------------------
(* Publication. *)

\* Whether a later transaction of its journal was published already.
Overtaken(place) ==
  \E n \in place.n + 1 .. HeadOf(place.journal) : log[place.journal][n].status \in {"published", "late"}

Publish(p) ==
  /\ mu = None
  /\ pending[p] # None
  /\ LET place == pending[p]
         size == SizeOf(place.journal, place.n)
     IN /\ log' = [log EXCEPT ![place.journal][place.n].status = IF Overtaken(place) THEN "late" ELSE "published"]
        /\ sub' = [c \in Client |-> Delivered(sub[c], place, size)]
  /\ pending' = [pending EXCEPT ![p] = None]
  /\ UNCHANGED <<epoch, streamSeq, mu, todo, pc, resume, received>>

PublishTransient ==
  /\ mu = None
  /\ Incidents < MaxIncidents
  /\ streamSeq' = streamSeq + 1
  /\ sub' = [c \in Client |-> WithTransient(sub[c])]
  /\ UNCHANGED <<journals, epoch, mu, todo, pc, resume, received>>

RotateEpoch ==
  /\ mu = None
  /\ Incidents < MaxIncidents
  /\ epoch' = epoch + 1
  /\ streamSeq' = 0
  /\ sub' = [c \in Client |->
               IF sub[c].phase = "open"
               THEN Terminated(sub[c], "ended", "transient.gap", sub[c].cursor.at, epoch + 1)
               ELSE sub[c]]
  /\ UNCHANGED <<journals, mu, todo, pc, resume, received>>

-----------------------------------------------------------------------------
(* Snapshot and Subscribe.  Reading the journals takes steps, mu is kept. *)

Hold(c, step) == mu = None /\ mu' = c /\ pc' = [pc EXCEPT ![c] = step]
LetGo(c, step) == mu = c /\ mu' = None /\ pc' = [pc EXCEPT ![c] = step]
Replace(c, s) == sub' = [sub EXCEPT ![c] = s]

\* snapshotLocked up to the head of the control journal.
Snapshot(c) ==
  /\ pc[c] = "out"
  /\ Hold(c, "snapshot")
  /\ Replace(c, NewSubscription([at |-> [Origin.at EXCEPT !["control"] = HeadOf("control")],
                                 epoch |-> epoch], "none"))
  /\ UNCHANGED <<journals, epoch, streamSeq, todo, resume, received>>

\* What a client knows from a snapshot: Project replays both journals, each up
\* to its place in the vector, and nothing after it.
Known(c, at) == [j \in Journal |-> [n \in Index |-> IF n <= at[j] THEN SizeOf(j, n) ELSE received[c][j][n]]]

\* Registration at the heads of the moment instead of those of the snapshot.
SubscribeAtHeads(c) ==
  /\ pc[c] = "snapshot"
  /\ LetGo(c, "next")
  /\ LET at == [sub[c].cursor.at EXCEPT !["session"] = HeadOf("session")]
         cursor == [sub[c].cursor EXCEPT !.at = [j \in Journal |-> HeadOf(j)]]
     IN /\ Replace(c, [NewSubscription(cursor, "open") EXCEPT !.from = at])
        /\ resume' = [resume EXCEPT ![c] = cursor]
        /\ received' = [received EXCEPT ![c] = Known(c, at)]
  /\ UNCHANGED <<journals, epoch, streamSeq, todo>>

\* The head of the session journal, the projection at both heads, and the
\* registration of a subscription for what comes after them.
FinishSnapshot(c) ==
  /\ pc[c] = "snapshot"
  /\ LetGo(c, "next")
  /\ LET cursor == [sub[c].cursor EXCEPT !.at["session"] = HeadOf("session")]
     IN /\ Replace(c, NewSubscription(cursor, "open"))
        /\ resume' = [resume EXCEPT ![c] = cursor]
        /\ received' = [received EXCEPT ![c] = Known(c, cursor.at)]
  /\ UNCHANGED <<journals, epoch, streamSeq, todo>>

\* A cursor of an earlier epoch is answered with a terminal, unread journals.
SubscribeStale(c) ==
  /\ pc[c] = "out" /\ mu = None
  /\ resume[c] # None
  /\ resume[c].epoch # epoch
  /\ Replace(c, Terminated(NewSubscription(resume[c], "none"), "failed", "transient.gap", resume[c].at, epoch))
  /\ pc' = [pc EXCEPT ![c] = "next"]
  /\ UNCHANGED <<journals, epoch, streamSeq, mu, todo, resume, received>>

\* readCatchUpLocked of a journal: what it holds after the cursor.
After(j, n0) == [n \in Index |-> IF n > n0 THEN SizeOf(j, n) ELSE 0]

Subscribe(c) ==
  /\ pc[c] = "out"
  /\ resume[c] # None
  /\ resume[c].epoch = epoch
  /\ Hold(c, "reading")
  /\ Replace(c, NewSubscription(resume[c], "catchup"))
  /\ todo' = [todo EXCEPT !["control"] = After("control", resume[c].at["control"])]
  /\ UNCHANGED <<journals, epoch, streamSeq, resume, received>>

ReadSession(c) ==
  /\ mu = c /\ pc[c] = "reading"
  /\ todo' = [todo EXCEPT !["session"] = After("session", sub[c].cursor.at["session"])]
  /\ pc' = [pc EXCEPT ![c] = "merging"]
  /\ UNCHANGED <<journals, epoch, streamSeq, mu, sub, resume, received>>

\* A read of a journal fails: the call returns an error.
FailRead(c) ==
  /\ pc[c] \in {"snapshot", "reading"}
  /\ LetGo(c, "out")
  /\ todo' = Nothing
  /\ Replace(c, NewSubscription(Origin, "none"))
  /\ UNCHANGED <<journals, epoch, streamSeq, resume, received>>

\* The next event of the merge.  Its order is by time and then by identifier,
\* and a control operation takes the time of its event before the transaction
\* that plans it commits: any event left may come next, that of a later
\* transaction of the same journal too.  The cursor enqueued with an event
\* covers its whole transaction and never goes back.
CatchUp(c, j) ==
  /\ mu = c /\ pc[c] = "merging"
  /\ \E n \in Index :
       /\ todo[j][n] > 0
       /\ LET s == sub[c]
              place == [journal |-> j, n |-> n]
          IN IF Len(s.queue) >= Capacity
             THEN /\ Replace(c, Overflowed(s, "failed"))
                  /\ todo' = Nothing
                  /\ LetGo(c, "next")
             ELSE /\ Replace(c, Enqueued(s, place, 1))
                  /\ todo' = [todo EXCEPT ![j][n] = @ - 1]
                  /\ UNCHANGED <<mu, pc>>
  /\ UNCHANGED <<journals, epoch, streamSeq, resume, received>>

FinishSubscribe(c) ==
  /\ pc[c] = "merging"
  /\ todo = Nothing
  /\ LetGo(c, "next")
  /\ Replace(c, [sub[c] EXCEPT !.phase = "open"])
  /\ UNCHANGED <<journals, epoch, streamSeq, todo, resume, received>>

-----------------------------------------------------------------------------
(* Next and Close. *)

\* Next takes the first item; a terminal closes the subscription.
Receive(c) ==
  /\ pc[c] = "next" /\ mu = None
  /\ sub[c].queue # <<>>
  /\ LET item == Head(sub[c].queue)
         rest == [sub[c] EXCEPT !.queue = Tail(@)]
     IN /\ Replace(c, IF item.kind \in Terminal THEN [rest EXCEPT !.phase = "closed"] ELSE rest)
        /\ resume' = [resume EXCEPT ![c] = IF item.kind = "transient.gap" THEN None ELSE item.cursor]
        /\ IF item.kind = "durable"
           THEN received' = [received EXCEPT ![c][item.place.journal][item.place.n] = @ + 1]
           ELSE UNCHANGED received
  /\ UNCHANGED <<journals, epoch, streamSeq, mu, todo, pc>>

\* Next finds nothing, unlocks and waits on the wake channel.
Sleep(c) ==
  /\ pc[c] = "next" /\ mu = None
  /\ sub[c].queue = <<>> /\ sub[c].phase # "closed"
  /\ pc' = [pc EXCEPT ![c] = "waiting"]
  /\ UNCHANGED <<journals, epoch, streamSeq, mu, todo, sub, resume, received>>

Wake(c) ==
  /\ pc[c] = "waiting"
  /\ sub[c].wake
  /\ Replace(c, [sub[c] EXCEPT !.wake = FALSE])
  /\ pc' = [pc EXCEPT ![c] = "next"]
  /\ UNCHANGED <<journals, epoch, streamSeq, mu, todo, resume, received>>

\* Next returns io.EOF: the client drops the subscription and may reconnect.
Eof(c) ==
  /\ pc[c] = "next" /\ mu = None
  /\ sub[c].queue = <<>> /\ sub[c].phase = "closed"
  /\ pc' = [pc EXCEPT ![c] = "out"]
  /\ Replace(c, NewSubscription(Origin, "none"))
  /\ UNCHANGED <<journals, epoch, streamSeq, mu, todo, resume, received>>

\* Close, possibly by another goroutine than the one in Next.
Close(c) ==
  /\ mu = None
  /\ pc[c] \in {"next", "waiting"} /\ sub[c].phase # "closed"
  /\ Replace(c, [sub[c] EXCEPT !.phase = "closed", !.queue = <<>>, !.wake = TRUE])
  /\ UNCHANGED <<journals, epoch, streamSeq, mu, todo, pc, resume, received>>

-----------------------------------------------------------------------------
ClientStep(c) ==
  \/ Snapshot(c) \/ FinishSnapshot(c) \/ FailRead(c)
  \/ Subscribe(c) \/ SubscribeStale(c) \/ ReadSession(c) \/ FinishSubscribe(c)
  \/ \E j \in Journal : CatchUp(c, j)
  \/ Receive(c) \/ Sleep(c) \/ Wake(c) \/ Eof(c) \/ Close(c)

BrokerStep ==
  \/ \E j \in Journal, size \in 1 .. MaxSize :
       CommitSilently(j, size) \/ \E p \in Publisher : Commit(p, j, size)
  \/ \E p \in Publisher : Publish(p)
  \/ PublishTransient \/ RotateEpoch

Next == BrokerStep \/ \E c \in Client : ClientStep(c)

Spec == Init /\ [][Next]_vars

\* A call that holds mu goes on; mu is handed to those that wait for it
\* (sync.Mutex starves nobody); a publisher publishes what it committed; a
\* client that is subscribed goes on calling Next.
Fairness ==
  /\ \A c \in Client :
       /\ WF_vars(FinishSnapshot(c) \/ ReadSession(c) \/ (\E j \in Journal : CatchUp(c, j)) \/ FinishSubscribe(c))
       /\ SF_vars(Receive(c) \/ Wake(c))
  /\ \A p \in Publisher : SF_vars(Publish(p))

FairSpec == Spec /\ Fairness

-----------------------------------------------------------------------------
(* Properties. *)

Queued(c, j, n) ==
  Cardinality({i \in 1 .. Len(sub[c].queue) :
    LET item == sub[c].queue[i] IN item.kind = "durable" /\ item.place = [journal |-> j, n |-> n]})

InHand(c, j, n) == received[c][j][n] + Queued(c, j, n)

\* A registered subscription misses nothing of what was published in order
\* after its cursor: the snapshot, the catch-up and the publications leave no
\* gap between them, and a live overflow ends it between two transactions.
NoGap ==
  \A c \in Client, j \in Journal : \A n \in sub[c].from[j] + 1 .. HeadOf(j) :
    /\ sub[c].phase \in {"open", "ended"}
    /\ log[j][n].status = "published"
    /\ sub[c].phase = "open" \/ n <= sub[c].cursor.at[j]
    => InHand(c, j, n) = SizeOf(j, n)

\* The session journal has one publisher at a time, the holder of the lane:
\* no transaction of it is published after a later one, which hasCursor would
\* take for one the subscription has.
SessionInOrder == \A n \in 1 .. HeadOf("session") : log["session"][n].status # "late"

\* What this process committed after the start of an open subscription and is
\* not in the hands of its client, transactions published out of order aside.
Behind(c) ==
  /\ sub[c].phase = "open"
  /\ \E j \in Journal : \E n \in sub[c].from[j] + 1 .. HeadOf(j) :
       \/ log[j][n].status = "committed"
       \/ log[j][n].status = "published" /\ received[c][j][n] < SizeOf(j, n)

\* A client that stays subscribed gets every transaction this process commits:
\* a publisher gets past the calls that hold mu, and the client is woken.
EventsArrive == \A c \in Client : Behind(c) ~> ~ Behind(c)
=============================================================================
