-------------------------------- MODULE Lane --------------------------------
(***************************************************************************)
(* The operation lane of internal/orchestrator: one slot for every turn,   *)
(* control operation, recovery and compaction of the application, handed   *)
(* on in FIFO order, and the managed lease with which a turn lends its     *)
(* slot while it waits for a child or for an approval.                     *)
(*                                                                         *)
(* lane.mu makes every step on the queue atomic.  An operation that waits  *)
(* may give up at any moment: its context ends, or, when it takes the slot *)
(* back, the cleanup timeout of five seconds runs out.                     *)
(***************************************************************************)
EXTENDS Naturals, Sequences

CONSTANT Operation     \* operations, each with an OperationClaim of its own

VARIABLES
  held,       \* operationLane.held
  waiters,    \* operationLane.waiters
  granted,    \* waiters whose ready channel is closed but that have not run yet
  pc          \* operation -> where it is

vars == <<held, waiters, granted, pc>>

\* "queued" waits in Acquire, "lent" runs the callback of Yield, "requeued"
\* waits in Yield's deferred Acquire, "stranded" goes on after that one failed.
Waiting == {"queued", "requeued"}
Steps == {"idle", "running", "lent", "stranded"} \cup Waiting

Queued(o) == \E i \in 1 .. Len(waiters) : waiters[i] = o
Without(queue, i) == SubSeq(queue, 1, i - 1) \o SubSeq(queue, i + 1, Len(queue))

Init ==
  /\ held = FALSE
  /\ waiters = <<>>
  /\ granted = {}
  /\ pc = [o \in Operation |-> "idle"]

Goto(o, step) == pc' = [pc EXCEPT ![o] = step]

\* Acquire up to its select.
Request(o, step) ==
  \/ /\ ~ held /\ waiters = <<>>
     /\ held' = TRUE
     /\ Goto(o, "running")
     /\ UNCHANGED <<waiters, granted>>
  \/ /\ held \/ waiters # <<>>
     /\ waiters' = Append(waiters, o)
     /\ Goto(o, step)
     /\ UNCHANGED <<held, granted>>

\* operationLane.release: the slot is handed to the first waiter, held stays set.
release ==
  \/ waiters = <<>> /\ held' = FALSE /\ UNCHANGED <<waiters, granted>>
  \/ /\ waiters # <<>>
     /\ granted' = granted \cup {Head(waiters)}
     /\ waiters' = Tail(waiters)
     /\ UNCHANGED held

Acquire(o) == pc[o] = "idle" /\ Request(o, "queued")

\* The waiter finds ready closed, or its context ended and granted set.
Wake(o) ==
  /\ pc[o] \in Waiting /\ o \in granted
  /\ granted' = granted \ {o}
  /\ Goto(o, "running")
  /\ UNCHANGED <<held, waiters>>

\* A waiter that gives up without looking at granted.
GiveUpUnchecked(o) ==
  /\ pc[o] \in Waiting
  /\ IF Queued(o) THEN \E i \in 1 .. Len(waiters) : waiters[i] = o /\ waiters' = Without(waiters, i)
                  ELSE UNCHANGED waiters
  /\ Goto(o, IF pc[o] = "queued" THEN "idle" ELSE "stranded")
  /\ granted' = granted \ {o}
  /\ UNCHANGED held

\* The context ends first: the waiter removes itself and returns the error.
GiveUp(o) ==
  /\ pc[o] \in Waiting /\ o \notin granted
  /\ \E i \in 1 .. Len(waiters) : waiters[i] = o /\ waiters' = Without(waiters, i)
  /\ Goto(o, IF pc[o] = "queued" THEN "idle" ELSE "stranded")
  /\ UNCHANGED <<held, granted>>

\* Yield gives the slot away and runs its callback.
Yield(o) == pc[o] = "running" /\ release /\ Goto(o, "lent")

\* The callback has returned: the deferred Acquire of the same claim.
Reacquire(o) == pc[o] = "lent" /\ Request(o, "requeued")

\* The operation ends and releases the lease it holds, if it holds one.
Release(o) ==
  \/ pc[o] = "running" /\ release /\ Goto(o, "idle")
  \/ pc[o] = "stranded" /\ Goto(o, "idle") /\ UNCHANGED <<held, waiters, granted>>

Step(o) ==
  \/ Acquire(o) \/ Wake(o) \/ GiveUp(o) \/ Yield(o) \/ Reacquire(o) \/ Release(o)

Next == \E o \in Operation : Step(o)

Spec == Init /\ [][Next]_vars

\* A waiter that was granted the slot runs, and an operation that holds it ends
\* or lends it; nobody has to start, to give up or to return from a callback.
-----------------------------------------------------------------------------
Owns(o) == pc[o] = "running" \/ o \in granted

\* The types, and that the queue and the grants hold each waiter exactly once.
TypeOK ==
  /\ held \in BOOLEAN
  /\ waiters \in Seq(Operation)
  /\ granted \subseteq Operation
  /\ pc \in [Operation -> Steps]
  /\ \A i, j \in 1 .. Len(waiters) : waiters[i] = waiters[j] => i = j
  /\ \A o \in Operation : pc[o] \in Waiting <=> (Queued(o) \/ o \in granted)
  /\ \A o \in granted : ~ Queued(o)

\* operationLane: turns and controls of all sessions exclude each other, also
\* while a grant is on its way to a waiter that may be giving up.
OneOwner == \A o, p \in Operation : Owns(o) /\ Owns(p) => o = p

\* The cancellation race of Acquire: a grant is never dropped together with the
\* waiter it went to, so a lane that is held has an owner, and a free lane has
\* nobody waiting for it.
SlotNeverLost ==
  /\ held <=> \E o \in Operation : Owns(o)
  /\ waiters # <<>> => held

\* FIFO: whoever gets the slot was the first to wait, or nobody was waiting; a
\* turn that takes its slot back after Yield queues like everyone else.
FirstComeFirstServed ==
  [][ \A o \in Operation :
        Owns(o)' /\ ~ Owns(o) => waiters = <<>> \/ o = Head(waiters) ]_vars

\* operationLane and managedLease together: the slot has one owner at a time, and
\* neither a cancelled waiter nor a Yield that gives up makes it vanish or doubles it.
LaneIsSound == OneOwner /\ SlotNeverLost
=============================================================================
