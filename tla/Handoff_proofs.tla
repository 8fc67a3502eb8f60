--------------------------- MODULE Handoff_proofs ---------------------------
(***************************************************************************)
(* The operation lane and the handoff to a child session, proved for every *)
(* set of operations, every number of turns and delegations, and any       *)
(* number of stops.                                                        *)
(*                                                                         *)
(* The lane.  TypeOK, OneOwner and SlotNeverLost are inductive only        *)
(* together: that a release may hand the slot on needs the queue to hold   *)
(* no owner, and that a fast Acquire may take it needs a free lane to have *)
(* none.                                                                   *)
(*                                                                         *)
(* The handoff.  What the parent journal says is tied to where the process *)
(* is (PlaceInv, TurnInv, AttemptInv), and what a child has done to its    *)
(* journal (ChildInv); only then does a recovery, which starts from the    *)
(* two journals alone, find an attempt as a live turn would leave it.      *)
(***************************************************************************)
EXTENDS Handoff, SequenceTheorems, FiniteSetTheorems, WellFoundedInduction, TLAPS

Inv == TypeOK /\ OneOwner /\ SlotNeverLost

\* Removing the waiter at one index keeps the others in their order.
LEMMA WithoutProperties ==
  ASSUME NEW S, NEW queue \in Seq(S), NEW i \in 1 .. Len(queue)
  PROVE  /\ Without(queue, i) \in Seq(S)
         /\ Len(Without(queue, i)) = Len(queue) - 1
         /\ \A j \in 1 .. Len(queue) - 1 :
              Without(queue, i)[j] = queue[IF j < i THEN j ELSE j + 1]
<1> DEFINE left == SubSeq(queue, 1, i - 1)
           right == SubSeq(queue, i + 1, Len(queue))
<1>1. left \in Seq(S) /\ Len(left) = i - 1 /\ \A j \in 1 .. i - 1 : left[j] = queue[j]
  OBVIOUS
<1>2. /\ right \in Seq(S) /\ Len(right) = Len(queue) - i
      /\ \A j \in 1 .. Len(queue) - i : right[j] = queue[i + j]
  OBVIOUS
<1>3. Without(queue, i) = left \o right
  BY DEF Without
<1> HIDE DEF left, right
<1>4. Without(queue, i) \in Seq(S) /\ Len(Without(queue, i)) = Len(queue) - 1
  BY <1>1, <1>2, <1>3
<1>5. ASSUME NEW j \in 1 .. Len(queue) - 1
      PROVE  Without(queue, i)[j] = queue[IF j < i THEN j ELSE j + 1]
  <2>1. CASE j < i
    BY <1>1, <1>2, <1>3, <2>1
  <2>2. CASE ~ (j < i)
    <3>1. (left \o right)[j] = right[j - Len(left)]
      BY <1>1, <1>2, <2>2, ConcatProperties
    <3>2. j - (i - 1) \in 1 .. Len(queue) - i /\ i + (j - (i - 1)) = j + 1
      BY <2>2
    <3> QED
      BY <1>1, <1>2, <1>3, <2>2, <3>1, <3>2
  <2> QED
    BY <2>1, <2>2
<1> QED
  BY <1>4, <1>5

\* The invariant holds before anybody has asked for the slot.
LEMMA InitInv == Init => Inv
<1> SUFFICES ASSUME Init PROVE Inv
  OBVIOUS
<1>1. waiters \in Seq(Operation) /\ Len(waiters) = 0
  BY DEF Init
<1>2. pc \in [Operation -> Steps] /\ \A o \in Operation : pc[o] = "idle"
  BY DEF Init, Steps
<1>3. \A o \in Operation : ~ Queued(o)
  BY <1>1 DEF Queued
<1>4. \A o \in Operation : ~ Owns(o)
  BY <1>2 DEF Init, Owns
<1>5. TypeOK
  <2>1. granted = {} /\ held \in BOOLEAN
    BY DEF Init
  <2>2. \A o \in Operation : pc[o] \notin Waiting
    BY <1>2 DEF Waiting
  <2> QED
    BY <1>1, <1>2, <1>3, <2>1, <2>2 DEF TypeOK
<1> QED
  BY <1>4, <1>5 DEF Init, Inv, OneOwner, SlotNeverLost

\* Acquire and the Acquire of Yield: a free lane has neither waiters nor an
\* owner, so the caller may take it; a held one grows its queue by the caller.
LEMMA RequestInv ==
  ASSUME Inv, NEW o \in Operation, NEW step \in Waiting,
         pc[o] \in {"idle", "lent"}, Request(o, step)
  PROVE  Inv'
<1> USE DEF Inv
<1>0. ~ Queued(o) /\ o \notin granted
  BY DEF TypeOK, Waiting
<1>1. CASE ~ held
  <2>1. /\ waiters = <<>> /\ waiters' = waiters /\ granted' = granted /\ held' = TRUE
        /\ pc' = [pc EXCEPT ![o] = "running"]
    BY <1>1 DEF Request, Goto, SlotNeverLost
  <2>2. granted = {} /\ \A p \in Operation : pc[p] # "running"
    BY <1>1 DEF SlotNeverLost, Owns, TypeOK
  <2>3. \A p \in Operation : Queued(p)' = FALSE /\ Queued(p) = FALSE
    BY <2>1 DEF Queued
  <2>4. \A p \in Operation : Owns(p)' <=> p = o
    BY <2>1, <2>2 DEF Owns, TypeOK
  <2>5. TypeOK'
    BY <2>1, <2>2, <2>3 DEF TypeOK, Steps, Waiting
  <2> QED
    BY <2>1, <2>4, <2>5 DEF OneOwner, SlotNeverLost
<1>2. CASE held
  <2>1. /\ waiters' = Append(waiters, o) /\ granted' = granted /\ held' = held
        /\ pc' = [pc EXCEPT ![o] = step]
    BY <1>2 DEF Request, Goto
  <2>2. /\ waiters' \in Seq(Operation) /\ Len(waiters') = Len(waiters) + 1
        /\ waiters'[Len(waiters) + 1] = o
        /\ \A i \in 1 .. Len(waiters) : waiters'[i] = waiters[i]
    BY <2>1 DEF TypeOK
  <2>3. \A p \in Operation : Queued(p)' <=> Queued(p) \/ p = o
    BY <2>2 DEF Queued, TypeOK
  <2>4. \A p \in Operation : Owns(p)' <=> Owns(p)
    BY <1>0, <2>1 DEF Owns, TypeOK, Waiting
  <2>5. \A i, j \in 1 .. Len(waiters') : waiters'[i] = waiters'[j] => i = j
    BY <1>0, <2>2 DEF Queued, TypeOK
  <2>6. TypeOK'
    BY <1>0, <2>1, <2>2, <2>3, <2>5 DEF TypeOK, Steps, Waiting
  <2> QED
    BY <1>2, <2>1, <2>4, <2>6 DEF OneOwner, SlotNeverLost
<1> QED
  BY <1>1, <1>2 DEF TypeOK

\* release, by an owner that stops running: the slot goes to the first waiter.
LEMMA ReleaseInv ==
  ASSUME Inv, NEW o \in Operation, NEW step \in {"idle", "lent"},
         pc[o] = "running", release, Goto(o, step)
  PROVE  Inv'
<1> USE DEF Inv
<1>0. /\ pc' = [pc EXCEPT ![o] = step]
      /\ ~ Queued(o) /\ o \notin granted /\ Owns(o)
  BY DEF TypeOK, Waiting, Goto, Owns
<1>1. \A p \in Operation : Owns(p) => p = o
  BY <1>0 DEF OneOwner
<1>2. granted = {} /\ \A p \in Operation : pc'[p] # "running"
  BY <1>0, <1>1 DEF Owns, TypeOK
<1>3. CASE waiters = <<>>
  <2>1. waiters' = waiters /\ granted' = granted /\ held' = FALSE
    BY <1>3 DEF release
  <2>2. \A p \in Operation : Queued(p)' = FALSE /\ Queued(p) = FALSE
    BY <1>3, <2>1 DEF Queued
  <2>3. TypeOK'
    BY <1>0, <1>2, <2>1, <2>2 DEF TypeOK, Steps, Waiting
  <2> QED
    BY <1>2, <1>3, <2>1, <2>3 DEF OneOwner, SlotNeverLost, Owns
<1>4. CASE waiters # <<>>
  <2> DEFINE first == Head(waiters)
  <2>1. waiters' = Tail(waiters) /\ granted' = granted \cup {first} /\ held' = held
    BY <1>4 DEF release
  <2>2. /\ first \in Operation /\ first = waiters[1] /\ Len(waiters) \in Nat \ {0}
        /\ waiters' \in Seq(Operation) /\ Len(waiters') = Len(waiters) - 1
        /\ \A i \in 1 .. Len(waiters') : waiters'[i] = waiters[i + 1]
    BY <1>4, <2>1 DEF TypeOK
  <2>3. Queued(first) /\ first # o
    BY <1>0, <2>2 DEF Queued
  <2>4. \A p \in Operation : Queued(p)' <=> Queued(p) /\ p # first
    <3>1. ASSUME NEW p \in Operation, Queued(p)' PROVE Queued(p) /\ p # first
      BY <2>2, <3>1 DEF Queued, TypeOK
    <3>2. ASSUME NEW p \in Operation, Queued(p), p # first PROVE Queued(p)'
      <4>1. PICK i \in 1 .. Len(waiters) : waiters[i] = p
        BY <3>2 DEF Queued
      <4>2. i # 1 /\ i - 1 \in 1 .. Len(waiters') /\ waiters'[i - 1] = p
        BY <2>2, <3>2, <4>1
      <4> QED
        BY <4>2 DEF Queued
    <3> QED
      BY <3>1, <3>2
  <2>5. \A p \in Operation : Owns(p)' <=> p = first
    BY <1>2, <2>1 DEF Owns
  <2>6. \A i, j \in 1 .. Len(waiters') : waiters'[i] = waiters'[j] => i = j
    BY <2>2 DEF TypeOK
  <2>7. TypeOK'
    <3>1. \A p \in Operation : pc'[p] \in Waiting <=> (Queued(p)' \/ p \in granted')
      BY <1>0, <1>2, <2>1, <2>3, <2>4 DEF TypeOK, Waiting
    <3> QED
      BY <1>0, <1>2, <2>1, <2>2, <2>4, <2>6, <3>1 DEF TypeOK, Steps
  <2>8. held
    BY <1>4 DEF SlotNeverLost
  <2> QED
    BY <2>1, <2>2, <2>5, <2>7, <2>8 DEF OneOwner, SlotNeverLost
<1> QED
  BY <1>3, <1>4

\* A waiter that runs moves the slot from granted to itself.
LEMMA WakeInv == ASSUME Inv, NEW o \in Operation, Wake(o) PROVE Inv'
<1> USE DEF Inv
<1>1. /\ waiters' = waiters /\ held' = held /\ granted' = granted \ {o}
      /\ pc' = [pc EXCEPT ![o] = "running"] /\ o \in granted /\ ~ Queued(o)
  BY DEF Wake, Goto, TypeOK
<1>2. \A p \in Operation : Queued(p)' <=> Queued(p)
  BY <1>1 DEF Queued
<1>3. \A p \in Operation : Owns(p)' <=> Owns(p)
  BY <1>1 DEF Owns, TypeOK
<1>4. TypeOK'
  BY <1>1, <1>2 DEF TypeOK, Steps, Waiting
<1> QED
  BY <1>1, <1>3, <1>4 DEF OneOwner, SlotNeverLost

\* A waiter that gives up takes only itself out of the queue, never a grant.
LEMMA GiveUpInv == ASSUME Inv, NEW o \in Operation, GiveUp(o) PROVE Inv'
<1> USE DEF Inv
<1>1. /\ held' = held /\ granted' = granted /\ o \notin granted /\ pc[o] \in Waiting
      /\ pc' = [pc EXCEPT ![o] = IF pc[o] = "queued" THEN "idle" ELSE "stranded"]
  BY DEF GiveUp, Goto
<1>2. PICK i \in 1 .. Len(waiters) : waiters[i] = o /\ waiters' = Without(waiters, i)
  BY DEF GiveUp
<1>3. /\ waiters' \in Seq(Operation) /\ Len(waiters') = Len(waiters) - 1
      /\ \A j \in 1 .. Len(waiters) - 1 : waiters'[j] = waiters[IF j < i THEN j ELSE j + 1]
  BY <1>2, WithoutProperties DEF TypeOK
<1>4. \A p \in Operation : Queued(p)' <=> Queued(p) /\ p # o
  <2>1. ASSUME NEW p \in Operation, Queued(p)' PROVE Queued(p) /\ p # o
    <3>1. PICK j \in 1 .. Len(waiters) - 1 : waiters[IF j < i THEN j ELSE j + 1] = p
      BY <1>3, <2>1 DEF Queued
    <3>2. (IF j < i THEN j ELSE j + 1) \in 1 .. Len(waiters) /\ (IF j < i THEN j ELSE j + 1) # i
      BY DEF TypeOK
    <3> QED
      BY <1>2, <3>1, <3>2 DEF Queued, TypeOK
  <2>2. ASSUME NEW p \in Operation, Queued(p), p # o PROVE Queued(p)'
    <3>1. PICK j \in 1 .. Len(waiters) : waiters[j] = p
      BY <2>2 DEF Queued
    <3>2. j # i
      BY <1>2, <2>2, <3>1
    <3>3. CASE j < i
      <4>1. j \in 1 .. Len(waiters) - 1 /\ waiters'[j] = p
        BY <1>3, <3>1, <3>3 DEF TypeOK
      <4> QED
        BY <1>3, <4>1 DEF Queued
    <3>4. CASE j > i
      <4> DEFINE k == j - 1
      <4>1. k \in 1 .. Len(waiters) - 1 /\ ~ (k < i) /\ k + 1 = j
        BY <3>4 DEF TypeOK
      <4> HIDE DEF k
      <4>2. waiters'[k] = p
        BY <1>3, <3>1, <4>1
      <4> QED
        BY <1>3, <4>1, <4>2 DEF Queued
    <3> QED
      BY <3>2, <3>3, <3>4
  <2> QED
    BY <2>1, <2>2
<1>5. \A j, k \in 1 .. Len(waiters') : waiters'[j] = waiters'[k] => j = k
  <2> SUFFICES ASSUME NEW j \in 1 .. Len(waiters) - 1, NEW k \in 1 .. Len(waiters) - 1,
                      waiters'[j] = waiters'[k]
               PROVE  j = k
    BY <1>3
  <2> DEFINE old(m) == IF m < i THEN m ELSE m + 1
  <2>1. waiters[old(j)] = waiters[old(k)]
    BY <1>3
  <2>2. old(j) \in 1 .. Len(waiters) /\ old(k) \in 1 .. Len(waiters)
    BY DEF TypeOK
  <2>3. old(j) = old(k)
    BY <2>1, <2>2 DEF TypeOK
  <2> QED
    BY <2>3
<1>6. \A p \in Operation : Owns(p)' <=> Owns(p)
  BY <1>1 DEF Owns, TypeOK, Waiting
<1>7. TypeOK'
  <2>1. pc' \in [Operation -> Steps]
    BY <1>1 DEF TypeOK, Steps
  <2>2. \A p \in Operation : pc'[p] \in Waiting <=> (Queued(p)' \/ p \in granted')
    BY <1>1, <1>4 DEF TypeOK, Waiting
  <2> QED
    BY <1>1, <1>3, <1>4, <1>5, <2>1, <2>2 DEF TypeOK
<1>8. waiters' # <<>> => held'
  BY <1>1, <1>2, <1>3 DEF SlotNeverLost, TypeOK
<1> QED
  BY <1>1, <1>6, <1>7, <1>8 DEF OneOwner, SlotNeverLost

\* Every step of every operation keeps the invariant.
LEMMA NextInv == Inv /\ [Next]_vars => Inv'
<1> SUFFICES ASSUME Inv, [Next]_vars PROVE Inv'
  OBVIOUS
<1>1. CASE UNCHANGED vars
  BY <1>1 DEF vars, Inv, TypeOK, OneOwner, SlotNeverLost, Queued, Owns
<1>2. ASSUME NEW o \in Operation, Step(o) PROVE Inv'
  <2>1. CASE Acquire(o)
    BY <2>1, RequestInv DEF Acquire, Waiting
  <2>2. CASE Wake(o)
    BY <2>2, WakeInv
  <2>3. CASE GiveUp(o)
    BY <2>3, GiveUpInv
  <2>4. CASE Yield(o)
    BY <2>4, ReleaseInv DEF Yield
  <2>5. CASE Reacquire(o)
    BY <2>5, RequestInv DEF Reacquire, Waiting
  <2>6. CASE Release(o)
    <3>1. CASE pc[o] = "running" /\ release /\ Goto(o, "idle")
      BY <3>1, ReleaseInv
    <3>2. CASE pc[o] = "stranded" /\ Goto(o, "idle") /\ UNCHANGED <<held, waiters, granted>>
      <4>1. \A p \in Operation : (Queued(p)' <=> Queued(p)) /\ (Owns(p)' <=> Owns(p))
        BY <3>2 DEF Queued, Owns, Inv, TypeOK, Goto
      <4>2. TypeOK'
        BY <3>2, <4>1 DEF Inv, TypeOK, Steps, Waiting, Goto
      <4> QED
        BY <3>2, <4>1, <4>2 DEF Inv, OneOwner, SlotNeverLost
    <3> QED
      BY <2>6, <3>1, <3>2 DEF Release
  <2> QED
    BY <1>2, <2>1, <2>2, <2>3, <2>4, <2>5, <2>6 DEF Step
<1> QED
  BY <1>1, <1>2 DEF Next

\* The queue, the grants and the steps of the operations stay consistent: every
\* waiter of Acquire is in the queue or granted the slot, exactly once.
THEOREM TypeCorrect == Spec => []TypeOK
BY InitInv, NextInv, PTL DEF Spec, Inv

\* At no moment do two operations own the slot, whether a turn lends it, takes it
\* back, or a cancelled waiter races with the release that grants it the slot.
THEOREM MutualExclusion == Spec => []OneOwner
BY InitInv, NextInv, PTL DEF Spec, Inv

\* A held lane always has an owner, which will release it, and a free one has
\* nobody waiting: no cancellation and no failed reacquisition loses the slot.
THEOREM NoLostSlot == Spec => []SlotNeverLost
BY InitInv, NextInv, PTL DEF Spec, Inv

\* The two together, as the runs check them inside a turn and its compactions.
THEOREM LaneSound == Spec => []LaneIsSound
BY MutualExclusion, NoLostSlot, PTL DEF LaneIsSound

\* An operation gets the slot only as the first in the queue or of an empty one.
THEOREM Fifo == Spec => FirstComeFirstServed
<1> DEFINE GetsIt(o) == Owns(o)' /\ ~ Owns(o) => waiters = <<>> \/ o = Head(waiters)
<1>1. Inv /\ [Next]_vars => \A o \in Operation : GetsIt(o)
  <2> SUFFICES ASSUME Inv, [Next]_vars, NEW o \in Operation, Owns(o)', ~ Owns(o), waiters # <<>>
               PROVE  o = Head(waiters)
    OBVIOUS
  <2>1. held
    BY DEF Inv, SlotNeverLost
  <2>2. CASE UNCHANGED vars
    BY <2>2 DEF vars, Owns
  <2>3. ASSUME NEW p \in Operation, Step(p) PROVE o = Head(waiters)
    <3>1. CASE Request(p, "queued") \/ Request(p, "requeued")
      BY <2>1, <3>1 DEF Request, Goto, Owns, Inv, TypeOK
    <3>2. CASE Wake(p) \/ GiveUp(p)
      BY <3>2 DEF Wake, GiveUp, Goto, Owns, Inv, TypeOK
    <3>3. CASE release /\ (Goto(p, "lent") \/ Goto(p, "idle"))
      BY <3>3 DEF release, Goto, Owns, Inv, TypeOK
    <3>4. CASE pc[p] = "stranded" /\ Goto(p, "idle") /\ UNCHANGED <<held, waiters, granted>>
      BY <3>4 DEF Goto, Owns, Inv, TypeOK
    <3> QED
      BY <2>3, <3>1, <3>2, <3>3, <3>4 DEF Step, Acquire, Reacquire, Yield, Release
  <2> QED
    BY <2>2, <2>3 DEF Next
<1>2. Inv /\ [Next]_vars => [\A o \in Operation : GetsIt(o)]_vars
  BY <1>1
<1> QED
  BY InitInv, NextInv, <1>2, PTL DEF Spec, FirstComeFirstServed

-----------------------------------------------------------------------------
(* The inductive invariant.                                                *)

Idle == {"down", "ready", "failed"}
Handing == {"lend", "create", "enqueue", "child", "back", "verify"}

Types == log \in Seq(Event) /\ HandoffTypeOK

\* Where the process is decides what it and its child have of the lane.
PlaceInv ==
  /\ me.at \in Idle => me.turn = 0 /\ pc[parent] = "idle"
  /\ me.at \notin Idle => me.turn \in Turn
  /\ me.at \in {"accept", "replay"} => pc[parent] \in {"queued", "running"}
  /\ me.at \in {"provider", "model", "lend", "settle"} => pc[parent] = "running"
  /\ me.at \in {"create", "enqueue", "child", "back"} => pc[parent] = "lent"
  /\ me.at = "verify" => pc[parent] \in {"running", "requeued", "stranded"}
  /\ me.at # "request"
  /\ IF me.at = "child" THEN pc[child] \in {"queued", "running"} ELSE pc[child] = "idle"
  /\ me.dispatched => pc[child] = "running"

\* Turns are accepted one after the other, each when none is active, and the
\* journal speaks of accepted turns only.
TurnInv ==
  /\ \E n \in 0 .. MaxTurns : Accepted = 1 .. n
  /\ \A i \in 1 .. Len(log) : log[i].turn \in Accepted
  /\ \A s, t \in Active : s = t
  /\ me.at = "accept" => Active = {} /\ Accepted = 1 .. me.turn - 1
  /\ me.at \notin Idle \cup {"accept"} => me.turn \in Active

\* The requests of a turn are numbered, and a turn asks again only when it has
\* the result it asked for before.
RequestsInv ==
  /\ \A i \in Positions("requested") : Of(i) \in Attempt
  /\ \A t \in Turn : \A i \in Requests(t) : log[i].n \in 1 .. Cardinality(Requests(t))
  /\ \A i, j \in Positions("requested") : Of(i) = Of(j) => i = j
  /\ \A i, j \in Positions("requested") :
       i < j /\ log[i].turn = log[j].turn => Attached(Of(i))
  /\ \A a \in Attempt : kid[a].at # "absent" => \E i \in Positions("requested") : Of(i) = a

\* What the process knows of the attempts of its turn.
AttemptInv ==
  /\ me.at \in {"provider", "model"} => \A i \in Requests(me.turn) : Attached(Of(i))
  /\ me.at \in Handing =>
       ~ Attached(me_a) /\ \E i \in Positions("requested") : Of(i) = me_a
  /\ me.at \in {"lend", "create"} => Kid.at = "absent"
  /\ me.at = "enqueue" => Kid.at = "created"
  /\ me.at = "child" => Kid.at \in {"created", "manifested", "active"}

\* A child with a receipt has ended; a mutation that may still be dispatched has
\* not taken place.
ChildInv ==
  /\ \A a \in Attempt :
       /\ kid[a].receipt # "none" => kid[a].at = "ended"
       /\ kid[a].at \in {"absent", "created", "manifested"} => kid[a].effect = "none"
       /\ kid[a].effect = "none" /\ kid[a].at \notin {"torn", "ended"} => ran[a] = 0
  /\ me.at = "child" /\ Kid.effect = "started" /\ ~ me.dispatched => ran[me_a] = 0

\* Behind every request of the provider but the last there is a new result.
Answered(i, last) == \E k \in i + 1 .. last : log[k].kind \in {"attached", "rejected"}
ProviderInv ==
  /\ \A i, j \in Positions("provider") :
       i < j /\ log[i].turn = log[j].turn => Answered(i, j - 1)
  /\ me.at = "provider" =>
       \A i \in Positions("provider") : log[i].turn = me.turn => Answered(i, Len(log))

\* Between two requests the earlier one is closed, or it never will be.
ClosedInv ==
  \A i, j \in Positions("requested") :
    i < j => ClosedBefore(i, j) \/ (log[i].turn \in EndedTurns /\ ~ Attached(Of(i)))

HandoffInv ==
  /\ Inv /\ Types /\ PlaceInv /\ TurnInv /\ RequestsInv /\ AttemptInv
  /\ ChildInv /\ AttachedFromReceipt /\ ProviderInv /\ ClosedInv

-----------------------------------------------------------------------------
(* The lane under the handoff: each of its steps is a step of one operation *)
(* or the stop of the process.                                             *)

\* What a step of the lane does to the operation that takes it.
LEMMA LaneMoves ==
  ASSUME pc \in [Operation -> Steps], NEW o \in Operation
  PROVE  /\ Acquire(o) => pc[o] = "idle" /\ pc'[o] \in {"queued", "running"}
         /\ Wake(o) => pc[o] \in {"queued", "requeued"} /\ pc'[o] = "running"
         /\ GiveUp(o) => \/ pc[o] = "queued" /\ pc'[o] = "idle"
                         \/ pc[o] = "requeued" /\ pc'[o] = "stranded"
         /\ Yield(o) => pc[o] = "running" /\ pc'[o] = "lent"
         /\ Reacquire(o) => pc[o] = "lent" /\ pc'[o] \in {"requeued", "running"}
         /\ Release(o) => pc[o] \in {"running", "stranded"} /\ pc'[o] = "idle"
BY DEF Acquire, Wake, GiveUp, Yield, Reacquire, Release, Request, Goto, Waiting

LEMMA OthersStay ==
  ASSUME pc \in [Operation -> Steps], NEW o \in Operation, Step(o)
  PROVE  \A p \in Operation : p # o => pc'[p] = pc[p]
BY DEF Step, Acquire, Wake, GiveUp, Yield, Reacquire, Release, Request, Goto

\* One operation is given the invariant of the whole lane.
LEMMA StepInv == ASSUME Inv, NEW o \in Operation, Step(o) PROVE Inv'
BY NextInv DEF Next

LEMMA QuietInv == ASSUME Inv, UNCHANGED lane PROVE Inv'
BY NextInv DEF lane, vars

LEMMA StopInv ==
  ASSUME held' = FALSE, waiters' = <<>>, granted' = {}, pc' = [o \in Operation |-> "idle"]
  PROVE  Inv'
<1>1. waiters' \in Seq(Operation) /\ Len(waiters') = 0
  OBVIOUS
<1>2. pc' \in [Operation -> Steps] /\ \A o \in Operation : pc'[o] = "idle"
  BY DEF Steps
<1>3. \A o \in Operation : ~ Queued(o)'
  BY <1>1 DEF Queued
<1>4. \A o \in Operation : ~ Owns(o)'
  BY <1>2 DEF Owns
<1>5. TypeOK'
  <2>1. \A i, j \in 1 .. Len(waiters') : waiters'[i] = waiters'[j] => i = j
    BY <1>1
  <2> QED
    BY <1>1, <1>2, <1>3, <2>1 DEF TypeOK, Waiting
<1> QED
  BY <1>4, <1>5 DEF Inv, OneOwner, SlotNeverLost

\* The claims of the parent and of the child are two operations among others.
LEMMA Parents ==
  parent \in Operation /\ child \in Operation /\ parent # child
  /\ \A o \in Others : o \in Operation /\ o # parent /\ o # child
BY HandoffAssumption DEF Others

-----------------------------------------------------------------------------
(* The parent journal.                                                     *)

\* An operator of the journal reads nothing else.
LEMMA SameLog ==
  ASSUME UNCHANGED log
  PROVE  /\ \A kind : Positions(kind)' = Positions(kind)
         /\ \A i : Of(i)' = Of(i)
         /\ \A a : Attached(a)' <=> Attached(a)
         /\ \A t : Requests(t)' = Requests(t)
         /\ Accepted' = Accepted /\ EndedTurns' = EndedTurns /\ Active' = Active
BY DEF Positions, Is, Of, Attached, Requests, Accepted, EndedTurns, Active

\* What one more event adds to each view of the journal.
LEMMA Appending ==
  ASSUME log \in Seq(Event), NEW e \in Event, log' = Append(log, e)
  PROVE  /\ log' \in Seq(Event) /\ Len(log') = Len(log) + 1 /\ Len(log) \in Nat
         /\ \A i \in 1 .. Len(log) : log'[i] = log[i] /\ Of(i)' = Of(i)
         /\ log'[Len(log) + 1] = e /\ \A i : i = Len(log) + 1 => Of(i)' = <<e.turn, e.n>>
         /\ \A kind : Positions(kind)' =
              IF e.kind = kind THEN Positions(kind) \cup {Len(log) + 1} ELSE Positions(kind)
<1>1. /\ log' \in Seq(Event) /\ Len(log') = Len(log) + 1 /\ Len(log) \in Nat
      /\ \A i \in 1 .. Len(log) : log'[i] = log[i]
      /\ log'[Len(log) + 1] = e
  OBVIOUS
<1>2. \A i \in 1 .. Len(log) : Of(i)' = Of(i)
  BY <1>1 DEF Of
<1>3. \A i : i = Len(log) + 1 => Of(i)' = <<e.turn, e.n>>
  BY <1>1 DEF Of
<1>4. ASSUME NEW kind
      PROVE  Positions(kind)' =
               IF e.kind = kind THEN Positions(kind) \cup {Len(log) + 1} ELSE Positions(kind)
  <2>1. 1 .. Len(log') = (1 .. Len(log)) \cup {Len(log) + 1}
    BY <1>1
  <2>2. \A i \in 1 .. Len(log) : i \in Positions(kind)' <=> i \in Positions(kind)
    BY <1>1, <2>1 DEF Positions, Is
  <2>3. Len(log) + 1 \in Positions(kind)' <=> e.kind = kind
    BY <1>1, <2>1 DEF Positions, Is
  <2>4. \A i : (i \in Positions(kind)' => i \in 1 .. Len(log')) /\ (i \in Positions(kind) => i \in 1 .. Len(log))
    BY DEF Positions
  <2>5. \A i : i \in Positions(kind)' <=> i \in Positions(kind) \/ (e.kind = kind /\ i = Len(log) + 1)
    BY <2>1, <2>2, <2>3, <2>4
  <2> QED
    BY <2>5
<1> QED
  BY <1>1, <1>2, <1>3, <1>4

LEMMA AppendingViews ==
  ASSUME log \in Seq(Event), NEW e \in Event, log' = Append(log, e)
  PROVE  /\ \A a : Attached(a)' <=> Attached(a) \/ (e.kind = "attached" /\ a = <<e.turn, e.n>>)
         /\ \A t : Requests(t)' =
              IF e.kind = "requested" /\ e.turn = t THEN Requests(t) \cup {Len(log) + 1}
                                                    ELSE Requests(t)
         /\ Accepted' = IF e.kind = "accepted" THEN Accepted \cup {e.turn} ELSE Accepted
         /\ EndedTurns' = IF e.kind = "ended" THEN EndedTurns \cup {e.turn} ELSE EndedTurns
<1> DEFINE new == Len(log) + 1
<1>1. /\ \A i \in 1 .. Len(log) : log'[i] = log[i] /\ Of(i)' = Of(i)
      /\ log'[new] = e /\ \A i : i = new => Of(i)' = <<e.turn, e.n>>
      /\ \A kind : Positions(kind)' =
           IF e.kind = kind THEN Positions(kind) \cup {new} ELSE Positions(kind)
      /\ new \notin 1 .. Len(log)
  BY Appending
<1>2. \A kind : Positions(kind) \subseteq 1 .. Len(log)
  BY DEF Positions
<1> HIDE DEF new
<1>3. \A kind : \A i \in Positions(kind) : log'[i] = log[i] /\ Of(i)' = Of(i)
  BY <1>1, <1>2
<1>8. \A kind, i : i \in Positions(kind)' <=> i \in Positions(kind) \/ (e.kind = kind /\ i = new)
  BY <1>1
<1>4. \A a : Attached(a)' <=> Attached(a) \/ (e.kind = "attached" /\ a = <<e.turn, e.n>>)
  BY <1>1, <1>3 DEF Attached
<1>5. ASSUME NEW t
      PROVE  Requests(t)' = IF e.kind = "requested" /\ e.turn = t THEN Requests(t) \cup {new}
                                                                  ELSE Requests(t)
  <2>1. Requests(t)' = {i \in Positions("requested")' : log'[i].turn = t}
    BY DEF Requests
  <2>2. Requests(t) = {i \in Positions("requested") : log[i].turn = t}
    BY DEF Requests
  <2>3. \A i : i \in Requests(t)' <=> i \in Requests(t) \/ (e.kind = "requested" /\ e.turn = t /\ i = new)
    <3>1. ASSUME NEW i \in Positions("requested") PROVE i \in Requests(t)' <=> i \in Requests(t)
      BY <1>3, <1>8, <2>1, <2>2, <3>1
    <3>2. new \in Requests(t)' <=> e.kind = "requested" /\ e.turn = t
      BY <1>1, <1>2, <1>8, <2>1
    <3>3. new \notin Requests(t)
      BY <1>1, <1>2, <2>2
    <3> QED
      BY <1>8, <2>1, <2>2, <3>1, <3>2, <3>3
  <2> QED
    BY <2>3
<1>6. Accepted' = IF e.kind = "accepted" THEN Accepted \cup {e.turn} ELSE Accepted
  <2>1. \A t : t \in Accepted' <=> \E i \in Positions("accepted")' : log'[i].turn = t
    BY DEF Accepted
  <2>2. \A t : t \in Accepted <=> \E i \in Positions("accepted") : log[i].turn = t
    BY DEF Accepted
  <2>3. \A t : t \in Accepted' <=> t \in Accepted \/ (e.kind = "accepted" /\ t = e.turn)
    <3>1. ASSUME NEW t, t \in Accepted' PROVE t \in Accepted \/ (e.kind = "accepted" /\ t = e.turn)
      <4>1. PICK i \in Positions("accepted")' : log'[i].turn = t
        BY <2>1, <3>1
      <4>2. CASE i \in Positions("accepted")
        BY <1>3, <2>2, <4>1, <4>2
      <4>3. CASE e.kind = "accepted" /\ i = new
        BY <1>1, <4>1, <4>3
      <4> QED
        BY <1>8, <4>1, <4>2, <4>3
    <3>2. ASSUME NEW t, t \in Accepted PROVE t \in Accepted'
      BY <1>3, <1>8, <2>1, <2>2, <3>2
    <3>3. e.kind = "accepted" => e.turn \in Accepted'
      BY <1>1, <1>8, <2>1
    <3> QED
      BY <3>1, <3>2, <3>3
  <2> QED
    BY <2>3
<1>7. EndedTurns' = IF e.kind = "ended" THEN EndedTurns \cup {e.turn} ELSE EndedTurns
  <2>1. \A t : t \in EndedTurns' <=> \E i \in Positions("ended")' : log'[i].turn = t
    BY DEF EndedTurns
  <2>2. \A t : t \in EndedTurns <=> \E i \in Positions("ended") : log[i].turn = t
    BY DEF EndedTurns
  <2>3. \A t : t \in EndedTurns' <=> t \in EndedTurns \/ (e.kind = "ended" /\ t = e.turn)
    <3>1. ASSUME NEW t, t \in EndedTurns' PROVE t \in EndedTurns \/ (e.kind = "ended" /\ t = e.turn)
      <4>1. PICK i \in Positions("ended")' : log'[i].turn = t
        BY <2>1, <3>1
      <4>2. CASE i \in Positions("ended")
        BY <1>3, <2>2, <4>1, <4>2
      <4>3. CASE e.kind = "ended" /\ i = new
        BY <1>1, <4>1, <4>3
      <4> QED
        BY <1>8, <4>1, <4>2, <4>3
    <3>2. ASSUME NEW t, t \in EndedTurns PROVE t \in EndedTurns'
      BY <1>3, <1>8, <2>1, <2>2, <3>2
    <3>3. e.kind = "ended" => e.turn \in EndedTurns'
      BY <1>1, <1>8, <2>1
    <3> QED
      BY <3>1, <3>2, <3>3
  <2> QED
    BY <2>3
<1> QED
  BY <1>4, <1>5, <1>6, <1>7 DEF new

\* A record of the turn that runs is an event.
LEMMA Written ==
  ASSUME Types, TurnInv, me.turn \in Accepted,
         NEW kind \in {"provider", "rejected", "requested", "attached", "ended"},
         NEW n \in Nat, Write(kind, n)
  PROVE  \E e \in Event : /\ log' = Append(log, e)
                          /\ e.kind = kind /\ e.turn = me.turn /\ e.n = n
<1>1. PICK i \in Positions("accepted") : log[i].turn = me.turn
  BY DEF Accepted
<1> DEFINE p == CHOOSE q \in Positions("accepted") : log[q].turn = me.turn
           e == Record(kind, me.turn, n, log[p].gen)
<1>2. p \in Positions("accepted") /\ log[p].turn = me.turn
  BY <1>1
<1>3. p \in 1 .. Len(log) /\ me.turn \in Turn
  <2>1. p \in 1 .. Len(log)
    BY <1>2 DEF Positions
  <2>2. log[p] \in Event
    BY <2>1 DEF Types
  <2> QED
    BY <1>2, <2>1, <2>2 DEF Event
<1>4. log[p].gen \in 1 .. 2
  <2> HIDE DEF p
  <2>1. log[p] \in Event
    BY <1>3 DEF Types
  <2> QED
    BY <2>1 DEF Event
<1>5. log' = Append(log, e)
  BY DEF Write, Generation
<1> HIDE DEF p
<1>6. e \in Event /\ e.kind = kind /\ e.turn = me.turn /\ e.n = n
  BY <1>3, <1>4 DEF Record, Event
<1> QED
  BY <1>5, <1>6


-----------------------------------------------------------------------------
(* What each action does to the journals and to the place of the process,   *)
(* and that the lane follows (Control).                                    *)

Control ==
  Inv /\ PlaceInv /\ me \in Process /\ runtime \in 1 .. 2 /\ faults \in 0 .. MaxFaults

Same == me'.turn = me.turn /\ me'.n = me.n /\ me'.dispatched = me.dispatched
KeepJournals == UNCHANGED <<log, kid, ran>>
Away == me'.at \in Idle /\ me'.turn = 0 /\ ~ me'.dispatched
Passages == {<<"lend", "create">>, <<"create", "back">>, <<"enqueue", "child">>,
             <<"child", "back">>, <<"back", "verify">>, <<"replay", "settle">>}

Quiet == KeepJournals /\ Same /\ me'.at = me.at
Begins ==
  /\ KeepJournals /\ me.at = "ready" /\ Active = {} /\ Cardinality(Accepted) < MaxTurns
  /\ me'.at = "accept" /\ me'.turn = Cardinality(Accepted) + 1 /\ ~ me'.dispatched
Resumes == KeepJournals /\ me'.at = "replay" /\ me'.turn \in Active /\ ~ me'.dispatched
Leaves ==
  /\ UNCHANGED <<log, ran>> /\ Away
  /\ UNCHANGED kid \/ (me.at = "child" /\ SetKid([Kid EXCEPT !.at = "torn"]))
Accepts ==
  /\ me.at = "accept" /\ me'.at = "provider" /\ Same /\ UNCHANGED <<kid, ran>>
  /\ log' = Append(log, Record("accepted", me.turn, 0, runtime))
AsksModel ==
  /\ me.at = "provider" /\ me'.at = "model" /\ Same /\ UNCHANGED <<kid, ran>>
  /\ Write("provider", 0)
Rejects ==
  /\ me.at = "model" /\ me'.at = "provider" /\ Same /\ UNCHANGED <<kid, ran>>
  /\ Write("rejected", 0)
Delegates ==
  /\ me.at = "model" /\ me'.at = "lend" /\ UNCHANGED <<kid, ran>>
  /\ me'.turn = me.turn /\ me'.n = Cardinality(Requests(me.turn)) + 1 /\ me'.n <= Asks[me.turn]
  /\ me'.dispatched = me.dispatched /\ Write("requested", me'.n)
Ends ==
  /\ me.at \in {"provider", "model", "verify", "replay", "settle"} /\ Away
  /\ UNCHANGED <<kid, ran>> /\ Write("ended", 0)
Passes == KeepJournals /\ Same /\ <<me.at, me'.at>> \in Passages
Creates ==
  /\ me.at = "create" /\ me'.at = "enqueue" /\ Same /\ UNCHANGED <<log, ran>>
  /\ SetKid(IF Kid.at = "absent" THEN [Kid EXCEPT !.at = "created"] ELSE Kid)
Runs ==
  /\ me.at = "child" /\ me'.at = "child" /\ me'.turn = me.turn /\ me'.n = me.n /\ UNCHANGED log
  /\ \/ UNCHANGED ran /\ me'.dispatched = me.dispatched
        /\ \/ Kid.at = "created" /\ SetKid([Kid EXCEPT !.at = "manifested"])
           \/ Kid.at = "manifested" /\ SetKid([Kid EXCEPT !.at = "active"])
           \/ Kid.at = "active" /\ Kid.effect = "none" /\ SetKid([Kid EXCEPT !.effect = "started"])
           \/ Kid.at = "active" /\ Kid.effect = "started" /\ SetKid([Kid EXCEPT !.effect = "done"])
     \/ /\ Kid.at = "active" /\ Kid.effect = "started" /\ ~ me.dispatched /\ me'.dispatched
        /\ ran' = [ran EXCEPT ![me_a] = @ + 1] /\ UNCHANGED kid
Returns ==
  /\ me.at = "child" /\ me'.at = "back" /\ me'.turn = me.turn /\ me'.n = me.n /\ ~ me'.dispatched
  /\ UNCHANGED <<log, ran>>
  /\ SetKid(Kid) \/ \E receipt \in Receipt : SetKid(Ended(receipt))
Attaches ==
  /\ me.at = "verify" /\ me'.at = "provider" /\ Same /\ UNCHANGED <<kid, ran>>
  /\ Kid.receipt # "none" /\ Write("attached", me.n)
EndsChild ==
  /\ me.at = "settle" /\ Same /\ me'.at = me.at /\ UNCHANGED <<log, ran>>
  /\ Candidates # {} /\ kid[Of(Next_i)].receipt = "none" /\ kid[Of(Next_i)].at # "absent"
  /\ \E receipt \in Receipt : kid' = [kid EXCEPT ![Of(Next_i)] = Ended(receipt)]
Picks(place) ==
  /\ me.at = "settle" /\ me'.at = place /\ UNCHANGED <<kid, ran>>
  /\ Candidates # {} /\ Mine(Next_i)
  /\ me'.turn = me.turn /\ me'.n = log[Next_i].n /\ ~ me'.dispatched
CreatesOnce == Picks("create") /\ UNCHANGED log /\ kid[Of(Next_i)].at = "absent"
AttachesFound ==
  /\ Picks("provider") /\ ~ Attached(Of(Next_i)) /\ kid[Of(Next_i)].receipt # "none"
  /\ Write("attached", log[Next_i].n)
GoesOn == Picks("provider") /\ UNCHANGED log /\ Attached(Of(Next_i)) /\ ~ Continued(Next_i)

LEMMA GoFacts ==
  ASSUME me \in Process, NEW place \in Places, Go(place)
  PROVE  me' \in Process /\ me'.at = place /\ Same
BY DEF Process, Go, Same

LEMMA AwayFacts ==
  ASSUME me' \in {Stopped, Ready, Failed}
  PROVE  me' \in Process /\ Away /\ me'.cancelled = FALSE
<1>1. 0 \in 0 .. MaxTurns
  BY HandoffAssumption
<1>2. \A place \in Idle : [Stopped EXCEPT !.at = place] \in Process
  BY <1>1 DEF Stopped, Process, Stages, Places, Idle
<1>3. Stopped = [Stopped EXCEPT !.at = "down"]
  BY DEF Stopped
<1>4. me' \in Process
  BY <1>2, <1>3 DEF Ready, Failed, Idle
<1> QED
  BY <1>4 DEF Stopped, Ready, Failed, Away, Idle

\* A step that leaves its turn has taken the lane from nobody.
LEMMA AwayPlace ==
  ASSUME PlaceInv, pc \in [Operation -> Steps], me.at # "child", Away,
         pc'[parent] = "idle", pc'[child] = pc[child]
  PROVE  PlaceInv'
BY DEF PlaceInv, Away, Idle

\* A step on the lane of an operation beside the two.
LEMMA PlaceKept ==
  ASSUME PlaceInv, me'.at = me.at, me'.turn = me.turn,
         me'.dispatched = me.dispatched, pc'[parent] = pc[parent], pc'[child] = pc[child]
  PROVE  PlaceInv'
BY DEF PlaceInv, Idle

LEMMA PassKept ==
  ASSUME PlaceInv, pc'[child] = pc[child], me.at \notin Idle, me'.at \notin Idle,
         me.at # "child", me'.at # "child", me'.turn = me.turn, me'.dispatched = me.dispatched,
         \/ me'.at \in {"provider", "model", "lend", "settle"} /\ pc'[parent] = "running"
         \/ me'.at \in {"create", "enqueue", "back"} /\ pc'[parent] = "lent"
         \/ me'.at = "verify" /\ pc'[parent] \in {"running", "requeued", "stranded"}
  PROVE  PlaceInv'
BY DEF PlaceInv, Idle


LEMMA FaultFacts == ASSUME faults \in 0 .. MaxFaults, Fault PROVE faults' \in 0 .. MaxFaults
BY HandoffAssumption DEF Fault

\* The turn is ended, left or given up: the lane is released with it.
Gives ==
  /\ me.at \in {"provider", "model", "verify", "replay", "settle"}
  /\ me' \in {Ready, Failed} /\ Release(parent)
  /\ UNCHANGED <<kid, ran, runtime>> /\ faults' \in 0 .. MaxFaults
  /\ UNCHANGED log \/ Write("ended", 0)

LEMMA GivesControl == ASSUME Control, Gives PROVE Control' /\ (Leaves \/ Ends)
<1>1. Inv'
  BY StepInv, Parents DEF Control, Gives, Step
<1>2. me' \in Process /\ Away
  BY AwayFacts DEF Gives
<1>3. pc \in [Operation -> Steps]
  BY DEF Control, Inv, TypeOK
<1>4. pc'[parent] = "idle"
  BY <1>3, LaneMoves, Parents DEF Gives
<1>5. pc'[child] = pc[child]
  BY <1>3, OthersStay, Parents DEF Gives, Step
<1>6. PlaceInv'
  BY <1>2, <1>3, <1>4, <1>5, AwayPlace DEF Control, Gives
<1>7. Leaves \/ Ends
  BY <1>2 DEF Gives, Leaves, Ends
<1> QED
  BY <1>1, <1>2, <1>6, <1>7 DEF Control, Gives

\* Which actions these are.
LEMMA GivesSteps ==
  ASSUME Control,
         \/ Complete \/ StopTurn \/ LeaveActive \/ Settle \/ ForeignReceipt \/ SettleFails
         \/ StopResumed \/ (Replay /\ ~ Replayable)
  PROVE  Gives
<1>0. faults \in 0 .. MaxFaults /\ (Fault => faults' \in 0 .. MaxFaults)
  BY FaultFacts DEF Control
<1>1. CASE Complete
  BY <1>0, <1>1 DEF Complete, Gives
<1>2. CASE StopTurn
  BY <1>0, <1>2 DEF StopTurn, Gives
<1>3. ASSUME RecoveryFails, me.at \in {"verify", "replay", "settle"}, faults' \in 0 .. MaxFaults
      PROVE  Gives
  BY <1>3 DEF RecoveryFails, Gives
<1>4. CASE LeaveActive
  <2>1. faults' \in 0 .. MaxFaults /\ me.at = "verify"
    BY <1>0, <1>4 DEF LeaveActive
  <2>2. CASE LiveFails
    BY <2>1, <2>2 DEF LiveFails, Gives
  <2> QED
    BY <1>3, <1>4, <2>1, <2>2 DEF LeaveActive
<1>5. CASE Settle
  BY <1>0, <1>5 DEF Settle, NothingToRepair, Settling, EndInterrupted, Gives
<1>6. CASE ForeignReceipt
  BY <1>0, <1>3, <1>6 DEF ForeignReceipt, Settling
<1>7. CASE SettleFails
  BY <1>0, <1>3, <1>7 DEF SettleFails
<1>8. CASE StopResumed
  <2>1. faults' \in 0 .. MaxFaults /\ me.at \in {"provider", "model", "verify"}
    BY <1>0, <1>8 DEF StopResumed
  <2> QED
    BY <1>8, <2>1 DEF StopResumed, Gives
<1>9. CASE Replay /\ ~ Replayable
  BY <1>0, <1>3, <1>9 DEF Replay
<1> QED
  BY <1>1, <1>2, <1>4, <1>5, <1>6, <1>7, <1>8, <1>9

\* The steps of the process beside a turn: start, stop, reload and cancellation.
LEMMA ProcessControl ==
  ASSUME Control, Types, TurnInv, StartTurn \/ Cancel \/ Die \/ Leave \/ Reload \/ Start
  PROVE  Control' /\ (Quiet \/ Begins \/ Resumes \/ Leaves)
<1>0. /\ pc \in [Operation -> Steps] /\ Inv /\ PlaceInv /\ me \in Process
      /\ runtime \in 1 .. 2 /\ faults \in 0 .. MaxFaults /\ (Fault => faults' \in 0 .. MaxFaults)
  BY FaultFacts DEF Control, Inv, TypeOK
<1>1. CASE StartTurn
  <2>1. me' = [Ready EXCEPT !.at = "accept", !.turn = Cardinality(Accepted) + 1]
    BY <1>1 DEF StartTurn
  <2>2. PICK n \in 0 .. MaxTurns : Accepted = 1 .. n
    BY DEF TurnInv
  <2>3. Cardinality(Accepted) = n
    BY <2>2, FS_Interval, HandoffAssumption
  <2>4. Cardinality(Accepted) + 1 \in Turn /\ Cardinality(Accepted) + 1 \in 0 .. MaxTurns
    BY <1>1, <2>2, <2>3, HandoffAssumption DEF StartTurn, Turn
  <2>5. me' \in Process /\ me'.at = "accept" /\ me'.turn = Cardinality(Accepted) + 1 /\ ~ me'.dispatched
    BY <2>1, <2>4 DEF Ready, Stopped, Process, Places, Stages
  <2>6. Inv'
    BY <1>0, <1>1, StepInv, Parents DEF StartTurn, Step
  <2>7. pc'[parent] \in {"queued", "running"} /\ pc'[child] = pc[child]
    BY <1>0, <1>1, LaneMoves, OthersStay, Parents DEF StartTurn, Step
  <2>8. me.at = "ready" /\ pc[child] = "idle"
    BY <1>0, <1>1 DEF StartTurn, PlaceInv
  <2>9. PlaceInv'
    BY <2>4, <2>5, <2>7, <2>8 DEF PlaceInv, Idle
  <2>10. Begins
    BY <1>1, <2>5 DEF Begins, KeepJournals, StartTurn
  <2> QED
    BY <1>0, <1>1, <2>5, <2>6, <2>9, <2>10 DEF Control, StartTurn
<1>2. CASE Cancel
  <2>1. me' \in Process /\ me'.at = me.at /\ Same
    BY <1>0, <1>2 DEF Cancel, Process, Same
  <2>2. Inv'
    BY <1>0, <1>2, QuietInv DEF Cancel
  <2>3. PlaceInv'
    BY <1>0, <1>2, <2>1, PlaceKept DEF Cancel, lane, Same
  <2> QED
    BY <1>0, <1>2, <2>1, <2>2, <2>3 DEF Cancel, Control, Quiet, KeepJournals
<1>3. ASSUME Stop
      PROVE  Inv' /\ PlaceInv' /\ me' \in Process /\ Away /\ runtime' = runtime
  <2>1. Inv'
    BY <1>3, StopInv DEF Stop
  <2>2. me' \in Process /\ Away
    BY <1>3, AwayFacts DEF Stop
  <2>3. pc'[parent] = "idle" /\ pc'[child] = "idle"
    BY <1>3, Parents DEF Stop
  <2>4. PlaceInv'
    BY <2>2, <2>3 DEF PlaceInv, Away, Idle
  <2> QED
    BY <1>3, <2>1, <2>2, <2>4 DEF Stop
<1>4. CASE Die
  BY <1>0, <1>3, <1>4 DEF Die, Stop, Leaves, Control, ChildRuns
<1>5. CASE Leave
  BY <1>0, <1>3, <1>5 DEF Leave, Stop, Leaves, Control
<1>6. CASE Reload
  <2>1. Inv'
    BY <1>0, <1>6, QuietInv DEF Reload
  <2>2. PlaceInv'
    BY <1>0, <1>6, PlaceKept DEF Reload, lane
  <2> QED
    BY <1>0, <1>6, <2>1, <2>2 DEF Reload, Control, Quiet, KeepJournals, Same
<1>7. CASE Start /\ Active = {}
  <2>1. me' \in Process /\ Away
    BY <1>7, AwayFacts DEF Start
  <2>2. Inv'
    BY <1>0, <1>7, QuietInv DEF Start
  <2>3. PlaceInv'
    <3>1. pc[parent] = "idle" /\ me.at # "child" /\ pc' = pc
      BY <1>0, <1>7 DEF Start, lane, PlaceInv, Idle
    <3> QED
      BY <1>0, <2>1, <3>1, AwayPlace
  <2> QED
    BY <1>0, <1>7, <2>1, <2>2, <2>3 DEF Start, Control, Leaves
<1>8. CASE Start /\ Active # {}
  <2>0. UNCHANGED <<log, kid, ran, faults>> /\ runtime' = 1
    BY <1>8, Zenon DEF Start
  <2>1. PICK t \in Active : me' = [Ready EXCEPT !.at = "replay", !.stage = "first", !.turn = t]
    BY <1>8 DEF Start
  <2>2. PICK n \in 0 .. MaxTurns : Accepted = 1 .. n
    BY DEF TurnInv
  <2>3. t \in Turn /\ t \in 0 .. MaxTurns
    BY <2>1, <2>2, HandoffAssumption DEF Active, Turn
  <2>4. me' \in Process /\ me'.at = "replay" /\ me'.turn = t /\ ~ me'.dispatched
    BY <2>1, <2>3 DEF Ready, Stopped, Process, Places, Stages
  <2>5. Inv'
    BY <1>0, <1>8, StepInv, Parents DEF Start, Step
  <2>6. pc'[parent] \in {"queued", "running"} /\ pc'[child] = pc[child]
    BY <1>0, <1>8, LaneMoves, OthersStay, Parents DEF Start, Step
  <2>7. pc[child] = "idle"
    BY <1>0, <1>8 DEF Start, PlaceInv
  <2>8. PlaceInv'
    BY <2>3, <2>4, <2>6, <2>7 DEF PlaceInv, Idle
  <2> QED
    <3>1. runtime' \in 1 .. 2
      BY <2>0
    <3>2. Resumes
      BY <2>0, <2>1, <2>4 DEF Resumes, KeepJournals
    <3> QED
      BY <1>0, <2>0, <2>4, <2>5, <2>8, <3>1, <3>2 DEF Control
<1> QED
  BY <1>1, <1>2, <1>4, <1>5, <1>6, <1>7, <1>8


\* The turn up to the delegation, and the lane around it.
LEMMA ParentControl ==
  ASSUME Control, Types,
         StartRefused \/ Accept \/ AskProvider \/ Reject \/ RequestChild \/ Lend \/ TakeBack
         \/ TakeBackFails \/ Attach
  PROVE  Control' /\ (Leaves \/ Accepts \/ AsksModel \/ Rejects \/ Delegates \/ Passes
                      \/ Quiet \/ Attaches)
<1>0. /\ pc \in [Operation -> Steps] /\ Inv /\ PlaceInv /\ me \in Process
      /\ runtime \in 1 .. 2 /\ faults \in 0 .. MaxFaults
  BY DEF Control, Inv, TypeOK
<1>1. CASE StartRefused
  <2>1. Inv'
    BY <1>0, <1>1, StepInv, Parents DEF StartRefused, Step
  <2>2. me' \in Process /\ Away
    BY <1>1, AwayFacts DEF StartRefused
  <2>3. pc[parent] = "queued"
    BY <1>0, <1>1, LaneMoves, Parents DEF StartRefused, PlaceInv
  <2>4. pc'[parent] = "idle" /\ pc'[child] = pc[child]
    BY <1>0, <1>1, <2>3, LaneMoves, OthersStay, Parents DEF StartRefused, Step
  <2>5. PlaceInv'
    BY <1>0, <1>1, <2>2, <2>4, AwayPlace DEF StartRefused
  <2> QED
    BY <1>0, <1>1, <2>1, <2>2, <2>5 DEF StartRefused, Control, Leaves
<1>2. ASSUME NEW place \in {"provider", "model"}, Go(place), Holds, UNCHANGED lane,
             me.at \in {"accept", "provider", "model"}, UNCHANGED <<runtime, faults>>
      PROVE  Control' /\ me'.at = place /\ Same
  <2>1. me' \in Process /\ me'.at = place /\ Same
    BY <1>0, <1>2, GoFacts DEF Places
  <2>2. Inv'
    BY <1>0, <1>2, QuietInv
  <2>3. pc' = pc /\ pc[parent] = "running"
    BY <1>2 DEF lane, Holds
  <2>4. PlaceInv'
    BY <1>0, <1>2, <2>1, <2>3, PassKept DEF Idle, Same
  <2> QED
    BY <1>0, <1>2, <2>1, <2>2, <2>4 DEF Control
<1>3. CASE Accept
  BY <1>2, <1>3 DEF Accept, Accepts
<1>4. CASE AskProvider
  BY <1>2, <1>4 DEF AskProvider, AsksModel
<1>5. CASE Reject
  BY <1>2, <1>5 DEF Reject, Rejects
<1>6. CASE RequestChild
  <2> DEFINE n == Cardinality(Requests(me.turn)) + 1
  <2>1. IsFiniteSet(Requests(me.turn))
    <3>1. Requests(me.turn) \in SUBSET (1 .. Len(log)) /\ Len(log) \in Int
      BY DEF Requests, Positions, Types
    <3>2. IsFiniteSet(1 .. Len(log))
      BY <3>1, FS_Interval
    <3> QED
      BY <3>1, <3>2, FS_Subset
  <2>2. Cardinality(Requests(me.turn)) \in Nat
    BY <2>1, FS_CardinalityType
  <2>3. me' = [me EXCEPT !.at = "lend", !.n = n, !.attempts = @ + 1]
    BY <1>6 DEF RequestChild
  <2>4. n \in Nat /\ me.turn \in Turn
    BY <1>0, <1>6, <2>2 DEF RequestChild, PlaceInv, Idle
  <2>5. n <= Asks[me.turn]
    <3>1. Asks[me.turn] \in Nat
      BY <2>4, HandoffAssumption DEF Turn
    <3> QED
      BY <1>6, <2>2, <3>1 DEF RequestChild
  <2>6. Write("requested", n)
    BY <1>6 DEF RequestChild
  <2> HIDE DEF n
  <2>7. /\ me' \in Process /\ me'.at = "lend" /\ me'.turn = me.turn /\ me'.n = n
        /\ me'.dispatched = me.dispatched
    <3>1. me.attempts + 1 \in Nat /\ n \in Nat
      BY <1>0, <2>4 DEF Process
    <3>2. me' = [me EXCEPT !.at = "lend", !.n = n, !.attempts = me.attempts + 1]
      BY <2>3
    <3> QED
      BY <1>0, <3>1, <3>2 DEF Process, Places
  <2>8. Inv'
    BY <1>0, <1>6, QuietInv DEF RequestChild
  <2>9. pc' = pc /\ pc[parent] = "running"
    BY <1>6 DEF RequestChild, lane, Holds
  <2>10. PlaceInv'
    BY <1>0, <1>6, <2>7, <2>9, PassKept DEF RequestChild, Idle
  <2>11. Delegates
    BY <1>6, <2>5, <2>6, <2>7 DEF RequestChild, Delegates, n
  <2> QED
    BY <1>0, <1>6, <2>7, <2>8, <2>10, <2>11 DEF RequestChild, Control
<1>7. CASE Lend
  <2>1. me' \in Process /\ me'.at = "create" /\ Same
    BY <1>0, <1>7, GoFacts DEF Lend, Places
  <2>2. Inv'
    BY <1>0, <1>7, StepInv, Parents DEF Lend, Step
  <2>3. pc'[parent] = "lent" /\ pc'[child] = pc[child]
    BY <1>0, <1>7, LaneMoves, OthersStay, Parents DEF Lend, Step
  <2>4. PlaceInv'
    BY <1>0, <1>7, <2>1, <2>3, PassKept DEF Lend, Same, Idle
  <2> QED
    BY <1>0, <1>7, <2>1, <2>2, <2>4 DEF Lend, Control, Passes, Passages, KeepJournals
<1>8. CASE TakeBack
  <2>1. me' \in Process /\ me'.at = "verify" /\ Same
    BY <1>0, <1>8, GoFacts DEF TakeBack, Places
  <2>2. Inv'
    BY <1>0, <1>8, StepInv, Parents DEF TakeBack, Step
  <2>3. pc'[parent] \in {"requeued", "running"} /\ pc'[child] = pc[child]
    BY <1>0, <1>8, LaneMoves, OthersStay, Parents DEF TakeBack, Step
  <2>4. PlaceInv'
    BY <1>0, <1>8, <2>1, <2>3, PassKept DEF TakeBack, Same, Idle
  <2> QED
    BY <1>0, <1>8, <2>1, <2>2, <2>4 DEF TakeBack, Control, Passes, Passages, KeepJournals
<1>9. CASE TakeBackFails
  <2>1. Inv'
    BY <1>0, <1>9, StepInv, Parents DEF TakeBackFails, Step
  <2>2. pc[parent] = "requeued" /\ pc'[parent] = "stranded" /\ pc'[child] = pc[child]
    BY <1>0, <1>9, LaneMoves, OthersStay, Parents DEF TakeBackFails, Step, PlaceInv
  <2>3. me' = me /\ me.at = "verify"
    BY <1>9 DEF TakeBackFails, handoff
  <2>4. PlaceInv'
    BY <1>0, <2>2, <2>3, PassKept DEF Idle
  <2> QED
    BY <1>0, <1>9, <2>1, <2>4 DEF TakeBackFails, handoff, Control, Quiet, KeepJournals, Same
<1>10. CASE Attach
  <2>1. /\ me.at = "verify" /\ Holds /\ UNCHANGED lane /\ Kid.receipt # "none"
        /\ me' = [me EXCEPT !.at = "provider", !.stage = IF @ = "first" THEN "resumed" ELSE @,
                            !.attempts = IF me.stage = "first" THEN 1 ELSE @]
    BY <1>10 DEF Attach, Certain
  <2>2. me' \in Process /\ me'.at = "provider" /\ Same
    <3>1. (IF me.stage = "first" THEN "resumed" ELSE me.stage) \in Stages
      BY <1>0 DEF Process, Stages
    <3>2. (IF me.stage = "first" THEN 1 ELSE me.attempts) \in Nat
      BY <1>0 DEF Process
    <3> QED
      BY <1>0, <2>1, <3>1, <3>2 DEF Process, Places, Same
  <2>3. Inv'
    BY <1>0, <2>1, QuietInv
  <2>4. pc' = pc /\ pc[parent] = "running"
    BY <2>1 DEF lane, Holds
  <2>5. PlaceInv'
    BY <1>0, <2>1, <2>2, <2>4, PassKept DEF Idle, Same
  <2> QED
    BY <1>0, <1>10, <2>1, <2>2, <2>3, <2>5 DEF Attach, Attaches, Control
<1> QED
  BY <1>1, <1>3, <1>4, <1>5, <1>6, <1>7, <1>8, <1>9, <1>10


\* A set of numbers has a least one: the recovery finds the first attempt to look at.
LEMMA LeastByDescent ==
  ASSUME NEW R, NEW S, IsWellFoundedOn(R, S), NEW T, T \subseteq S, T # {}
  PROVE  \E m \in T : \A k \in T : ~ (<<k, m>> \in R)
BY WFMin

LEMMA LeastNumber ==
  ASSUME NEW T, T \subseteq Nat, T # {}
  PROVE  \E m \in T : \A k \in T : m <= k
<1> DEFINE R == OpToRel(<, Nat)
<1>1. IsWellFoundedOn(R, Nat)
  BY NatLessThanWellFounded
<1>2. \A x, y \in Nat : x < y => <<x, y>> \in R
  BY DEF OpToRel
<1> HIDE DEF R
<1>3. \E m \in T : \A k \in T : ~ (<<k, m>> \in R)
  BY <1>1, LeastByDescent
<1>4. \E m \in T : \A k \in T : ~ (k < m)
  BY <1>2, <1>3
<1> QED
  BY <1>4

\* The attempt a recovery looks at next is a request of the parent journal.
LEMMA NextCandidate ==
  ASSUME Types, me \in Process, Candidates # {}
  PROVE  /\ Next_i \in Positions("requested") /\ Next_i \in 1 .. Len(log)
         /\ Candidate(Next_i) /\ log[Next_i] \in Event
<1>1. Candidates \subseteq Nat /\ Candidates \subseteq 1 .. Len(log)
  BY DEF Candidates, Process, Types
<1>2. \E i \in Candidates : \A j \in Candidates : i <= j
  BY <1>1, LeastNumber
<1>3. Next_i \in Candidates
  BY <1>2 DEF Next_i, First
<1>4. Next_i \in 1 .. Len(log) /\ Candidate(Next_i)
  BY <1>1, <1>3 DEF Candidates
<1>5. Next_i \in Positions("requested")
  BY <1>4 DEF Candidate, Positions
<1> HIDE DEF Next_i
<1> QED
  BY <1>4, <1>5 DEF Types

\* The child in the callback of Yield, and the operations beside the two.
LEMMA ChildControl ==
  ASSUME Control, Types, ChildStep \/ OthersStep \/ WokenUp
  PROVE  Control' /\ (Quiet \/ Passes \/ Creates \/ Runs \/ Returns)
<1>0. /\ pc \in [Operation -> Steps] /\ Inv /\ PlaceInv /\ me \in Process
      /\ runtime \in 1 .. 2 /\ faults \in 0 .. MaxFaults /\ (Fault => faults' \in 0 .. MaxFaults)
  BY FaultFacts DEF Control, Inv, TypeOK
<1>1. CASE CreateChild
  <2>1. me.at = "create" /\ UNCHANGED <<log, ran, runtime>> /\ UNCHANGED lane
        /\ faults' \in 0 .. MaxFaults
    BY <1>0, <1>1 DEF CreateChild
  <2> DEFINE new == IF Kid.at = "absent" THEN [Kid EXCEPT !.at = "created"] ELSE Kid
  <2>2. PICK place \in {"enqueue", "back"} :
          Go(place) /\ IF place = "back" THEN UNCHANGED kid ELSE SetKid(new)
    BY <1>1 DEF CreateChild
  <2>3. me' \in Process /\ me'.at = place /\ Same
    BY <1>0, <2>2, GoFacts DEF Places
  <2>4. Inv'
    BY <1>0, <2>1, QuietInv
  <2>5. pc' = pc /\ pc[parent] = "lent"
    BY <1>0, <2>1 DEF lane, PlaceInv
  <2>6. PlaceInv'
    BY <1>0, <2>1, <2>3, <2>5, PassKept DEF Idle, Same
  <2>7. Passes \/ Creates
    BY <2>1, <2>2, <2>3 DEF Passes, Creates, Passages, KeepJournals
  <2> QED
    BY <1>0, <2>1, <2>3, <2>4, <2>6, <2>7 DEF Control
<1>2. CASE ChildWaits
  <2>1. UNCHANGED <<log, kid, ran, runtime, faults>>
    BY <1>2 DEF ChildWaits
  <2>2. Inv'
    BY <1>0, <1>2, StepInv, Parents DEF ChildWaits, Step
  <2>3. CASE me.at = "enqueue" /\ Acquire(child) /\ Go("child")
    <3>1. me' \in Process /\ me'.at = "child" /\ Same
      BY <1>0, <2>3, GoFacts DEF Places
    <3>2. pc[child] = "idle" /\ pc'[child] \in {"queued", "running"} /\ pc'[parent] = pc[parent]
      BY <1>0, <2>3, LaneMoves, OthersStay, Parents DEF Step
    <3>3. PlaceInv'
      BY <1>0, <2>3, <3>1, <3>2 DEF PlaceInv, Same, Idle
    <3> QED
      BY <1>0, <2>1, <2>2, <2>3, <3>1, <3>3 DEF Control, Passes, Passages, KeepJournals
  <2>4. CASE me.at = "child" /\ GiveUp(child) /\ Go("back")
    <3>1. me' \in Process /\ me'.at = "back" /\ Same
      BY <1>0, <2>4, GoFacts DEF Places
    <3>2. pc[child] = "queued" /\ pc'[child] = "idle" /\ pc'[parent] = pc[parent]
      BY <1>0, <2>4, LaneMoves, OthersStay, Parents DEF Step, PlaceInv
    <3>3. PlaceInv'
      BY <1>0, <2>4, <3>1, <3>2 DEF PlaceInv, Same, Idle
    <3> QED
      BY <1>0, <2>1, <2>2, <2>4, <3>1, <3>3 DEF Control, Passes, Passages, KeepJournals
  <2> QED
    BY <1>2, <2>3, <2>4 DEF ChildWaits
<1>3. CASE ChildManifest \/ ChildAccept
  <2>1. me' = me /\ UNCHANGED <<log, ran, runtime, faults>> /\ UNCHANGED lane /\ ChildRuns
    BY <1>3 DEF ChildManifest, ChildAccept
  <2>2. Inv' /\ PlaceInv'
    BY <1>0, <2>1, QuietInv, PlaceKept DEF lane
  <2>3. Runs
    BY <1>3, <2>1 DEF ChildManifest, ChildAccept, Runs, ChildRuns
  <2> QED
    BY <1>0, <2>1, <2>2, <2>3 DEF Control
<1>4. CASE ChildEffect
  <2>1. UNCHANGED <<log, runtime, faults>> /\ UNCHANGED lane /\ me.at = "child"
        /\ pc[child] = "running" /\ Kid.at = "active"
    BY <1>4 DEF ChildEffect, ChildRuns
  <2>2. me' = me \/ me' = [me EXCEPT !.dispatched = TRUE]
    BY <1>4 DEF ChildEffect
  <2>3. /\ me' \in Process /\ me'.at = "child" /\ me'.turn = me.turn /\ me'.n = me.n
        /\ me' = [me EXCEPT !.dispatched = TRUE] => me'.dispatched
    BY <1>0, <2>1, <2>2 DEF Process
  <2>4. Inv'
    BY <1>0, <2>1, QuietInv
  <2>5. PlaceInv'
    BY <1>0, <2>1, <2>3 DEF PlaceInv, lane, Idle
  <2>6. Runs
    BY <1>4, <2>1, <2>3 DEF ChildEffect, Runs
  <2> QED
    BY <1>0, <2>1, <2>3, <2>4, <2>5, <2>6 DEF Control
<1>5. ASSUME NEW value, ChildRuns, ChildReturns(value),
             value = Kid \/ \E receipt \in Receipt : value = Ended(receipt)
      PROVE  Control' /\ Returns
  <2>1. /\ SetKid(value) /\ Release(child) /\ UNCHANGED <<log, ran, runtime, faults>>
        /\ me' = [me EXCEPT !.at = "back", !.dispatched = FALSE] /\ me.at = "child"
    BY <1>5 DEF ChildReturns, ChildRuns
  <2>2. /\ me' \in Process /\ me'.at = "back" /\ me'.turn = me.turn /\ me'.n = me.n
        /\ ~ me'.dispatched
    BY <1>0, <2>1 DEF Process, Places
  <2>3. Inv'
    BY <1>0, <2>1, StepInv, Parents DEF Step
  <2>4. pc'[child] = "idle" /\ pc'[parent] = pc[parent]
    BY <1>0, <2>1, LaneMoves, OthersStay, Parents DEF Step
  <2>5. PlaceInv'
    BY <1>0, <2>1, <2>2, <2>4 DEF PlaceInv, Idle
  <2>6. Returns
    BY <1>5, <2>1, <2>2 DEF Returns
  <2> QED
    BY <1>0, <2>1, <2>2, <2>3, <2>5, <2>6 DEF Control
<1>6. CASE ChildCompletes
  BY <1>5, <1>6 DEF ChildCompletes, Receipt
<1>7. CASE ChildFails
  <2>1. CASE ChildReturns(Kid)
    BY <1>5, <1>7, <2>1 DEF ChildFails
  <2>2. ASSUME NEW status \in {"failed", "uncertain"}, ChildReturns(Ended(ReceiptOf(status)))
        PROVE  Control' /\ Returns
    <3>1. ReceiptOf(status) \in Receipt
      BY DEF ReceiptOf, Receipt
    <3> QED
      BY <1>5, <1>7, <2>2, <3>1 DEF ChildFails
  <2> QED
    BY <1>7, <2>1, <2>2 DEF ChildFails
<1>8. CASE OthersStep
  <2>1. PICK o \in Others : Acquire(o) \/ Wake(o) \/ GiveUp(o) \/ Release(o)
    BY <1>8 DEF OthersStep
  <2>2. Inv' /\ pc'[parent] = pc[parent] /\ pc'[child] = pc[child]
    BY <1>0, <2>1, StepInv, OthersStay, Parents DEF Step
  <2>3. UNCHANGED handoff
    BY <1>8 DEF OthersStep
  <2>4. PlaceInv'
    BY <1>0, <2>2, <2>3, PlaceKept DEF handoff
  <2> QED
    BY <1>0, <2>2, <2>3, <2>4 DEF handoff, Control, Quiet, KeepJournals, Same
<1>9. CASE WokenUp
  <2>1. UNCHANGED handoff
    BY <1>9 DEF WokenUp
  <2>2. Inv'
    BY <1>0, <1>9, StepInv, Parents DEF WokenUp, Step
  <2>3. ASSUME Wake(parent) PROVE PlaceInv'
    <3>1. pc[parent] \in {"queued", "requeued"} /\ pc'[parent] = "running" /\ pc'[child] = pc[child]
      BY <1>0, <2>3, LaneMoves, OthersStay, Parents DEF Step
    <3> QED
      BY <1>0, <2>1, <3>1 DEF PlaceInv, Idle, handoff
  <2>4. ASSUME Wake(child) PROVE PlaceInv'
    <3>1. pc[child] \in {"queued", "requeued"} /\ pc'[child] = "running" /\ pc'[parent] = pc[parent]
      BY <1>0, <2>4, LaneMoves, OthersStay, Parents DEF Step
    <3> QED
      BY <1>0, <2>1, <3>1 DEF PlaceInv, Idle, handoff
  <2>5. PlaceInv'
    BY <1>0, <1>9, <2>3, <2>4 DEF WokenUp
  <2> QED
    BY <1>0, <2>1, <2>2, <2>5 DEF handoff, Control, Quiet, KeepJournals, Same
<1> QED
  BY <1>1, <1>2, <1>3, <1>4, <1>6, <1>7, <1>8, <1>9 DEF ChildStep


\* The recovery, up to where it leaves its turn or goes on with it.
LEMMA RecoveryControl ==
  ASSUME Control, Types,
         \/ (Replay /\ Replayable) \/ SkipUnproven \/ EndChild \/ CreateOnce
         \/ AttachRecovered \/ Resume
  PROVE  Control' /\ (Passes \/ Quiet \/ EndsChild \/ CreatesOnce \/ AttachesFound \/ GoesOn)
<1>0. /\ pc \in [Operation -> Steps] /\ Inv /\ PlaceInv /\ me \in Process
      /\ runtime \in 1 .. 2 /\ faults \in 0 .. MaxFaults
  BY DEF Control, Inv, TypeOK
<1>1. CASE Replay /\ Replayable
  <2>1. me.at = "replay" /\ Holds /\ Go("settle") /\ UNCHANGED <<log, kid, ran, runtime, faults>>
        /\ UNCHANGED lane
    BY <1>1 DEF Replay
  <2>2. me' \in Process /\ me'.at = "settle" /\ Same
    BY <1>0, <2>1, GoFacts DEF Places
  <2>3. Inv'
    BY <1>0, <2>1, QuietInv
  <2>4. pc' = pc /\ pc[parent] = "running"
    BY <2>1 DEF lane, Holds
  <2>5. PlaceInv'
    BY <1>0, <2>1, <2>2, <2>4, PassKept DEF Idle, Same
  <2> QED
    BY <1>0, <2>1, <2>2, <2>3, <2>5 DEF Control, Passes, Passages, KeepJournals
<1>2. CASE SkipUnproven
  <2>1. Next_i \in Nat
    BY <1>0, <1>2, NextCandidate DEF SkipUnproven, Types
  <2>2. UNCHANGED <<log, kid, ran, runtime, faults>> /\ UNCHANGED lane
        /\ me' = [me EXCEPT !.seen = Next_i, !.diagnosed = @ \/ Uncertain(Next_i)]
    BY <1>2 DEF SkipUnproven
  <2>3. (me.diagnosed \/ Uncertain(Next_i)) \in BOOLEAN
    OBVIOUS
  <2> HIDE DEF Next_i, Uncertain
  <2>4. me' \in Process /\ me'.at = me.at /\ Same
    <3> DEFINE flag == me.diagnosed \/ Uncertain(Next_i)
    <3>1. me' = [me EXCEPT !.seen = Next_i, !.diagnosed = flag] /\ flag \in BOOLEAN
      BY <2>2, <2>3
    <3> HIDE DEF flag
    <3> QED
      BY <1>0, <2>1, <3>1 DEF Process, Same
  <2>5. Inv'
    BY <1>0, <2>2, QuietInv
  <2>6. PlaceInv'
    BY <1>0, <2>2, <2>4, PlaceKept DEF lane, Same
  <2> QED
    BY <1>0, <2>2, <2>4, <2>5, <2>6 DEF Control, Quiet, KeepJournals
<1>3. CASE EndChild
  <2>1. UNCHANGED <<log, ran, me, runtime, faults>> /\ UNCHANGED lane /\ me.at = "settle"
        /\ Candidates # {}
    BY <1>3 DEF EndChild, Settling
  <2>2. Inv' /\ PlaceInv'
    BY <1>0, <2>1, QuietInv, PlaceKept DEF lane
  <2>3. EndsChild
    <3> DEFINE receipt == IF kid[Of(Next_i)].effect = "started" THEN "uncertain" ELSE "failed"
    <3>1. /\ kid[Of(Next_i)].receipt = "none" /\ kid[Of(Next_i)].at # "absent"
          /\ kid' = [kid EXCEPT ![Of(Next_i)] =
                       Ended(IF @.effect = "started" THEN "uncertain" ELSE "failed")]
      BY <1>3 DEF EndChild
    <3>2. kid' = [kid EXCEPT ![Of(Next_i)] = Ended(receipt)]
      BY <3>1
    <3>3. receipt \in Receipt
      BY DEF Receipt
    <3> QED
      BY <2>1, <3>1, <3>2, <3>3 DEF EndsChild, Same
  <2> QED
    BY <1>0, <2>1, <2>2, <2>3 DEF Control
<1>4. CASE CreateOnce
  <2>1. /\ Settling /\ Candidates # {} /\ Mine(Next_i) /\ kid[Of(Next_i)].at = "absent"
        /\ me' = [me EXCEPT !.at = "create", !.n = log[Next_i].n]
        /\ UNCHANGED <<log, kid, ran, runtime, faults>> /\ Yield(parent)
    BY <1>4 DEF CreateOnce
  <2>2. log[Next_i].n \in Nat
    BY <1>0, <2>1, NextCandidate DEF Event
  <2>3. me.at = "settle" /\ ~ me.dispatched
    BY <1>0, <2>1 DEF Settling, PlaceInv
  <2> HIDE DEF Next_i
  <2>4. /\ me' \in Process /\ me'.at = "create" /\ me'.turn = me.turn
        /\ me'.n = log[Next_i].n /\ me'.dispatched = me.dispatched
    BY <1>0, <2>1, <2>2 DEF Process, Places
  <2>5. Inv'
    BY <1>0, <2>1, StepInv, Parents DEF Step
  <2>6. pc'[parent] = "lent" /\ pc'[child] = pc[child]
    BY <1>0, <2>1, LaneMoves, OthersStay, Parents DEF Step
  <2>7. PlaceInv'
    BY <1>0, <2>3, <2>4, <2>6, PassKept DEF Idle
  <2>8. CreatesOnce
    BY <2>1, <2>3, <2>4 DEF CreatesOnce, Picks
  <2> QED
    BY <1>0, <2>1, <2>4, <2>5, <2>7, <2>8 DEF Control
<1>5. ASSUME Settling, Candidates # {}, Mine(Next_i), UNCHANGED <<kid, ran, runtime, faults>>,
             UNCHANGED lane,
             me' = [me EXCEPT !.at = "provider", !.stage = "resumed", !.n = log[Next_i].n,
                              !.attempts = 1]
      PROVE  Control' /\ Picks("provider")
  <2>1. log[Next_i].n \in Nat
    BY <1>0, <1>5, NextCandidate DEF Event
  <2>2. me.at = "settle" /\ ~ me.dispatched /\ pc[parent] = "running"
    BY <1>0, <1>5 DEF Settling, PlaceInv
  <2> HIDE DEF Next_i
  <2>3. /\ me' \in Process /\ me'.at = "provider" /\ me'.turn = me.turn
        /\ me'.n = log[Next_i].n /\ me'.dispatched = me.dispatched
    BY <1>0, <1>5, <2>1 DEF Process, Places, Stages
  <2>4. Inv'
    BY <1>0, <1>5, QuietInv
  <2>5. pc' = pc
    BY <1>5 DEF lane
  <2>6. PlaceInv'
    BY <1>0, <2>2, <2>3, <2>5, PassKept DEF Idle
  <2>7. Picks("provider")
    BY <1>5, <2>2, <2>3 DEF Picks
  <2> QED
    BY <1>0, <1>5, <2>3, <2>4, <2>6, <2>7 DEF Control
<1>6. CASE AttachRecovered
  <2>1. Control' /\ Picks("provider")
    BY <1>5, <1>6 DEF AttachRecovered
  <2>2. /\ ~ Attached(Of(Next_i)) /\ kid[Of(Next_i)].receipt # "none"
        /\ Write("attached", log[Next_i].n)
    BY <1>6 DEF AttachRecovered, Certain
  <2> QED
    BY <2>1, <2>2 DEF AttachesFound
<1>7. CASE Resume
  <2>1. Control' /\ Picks("provider")
    BY <1>5, <1>7 DEF Resume
  <2>2. Attached(Of(Next_i)) /\ ~ Continued(Next_i) /\ UNCHANGED log
    BY <1>7 DEF Resume
  <2> QED
    BY <2>1, <2>2 DEF GoesOn
<1> QED
  BY <1>1, <1>2, <1>3, <1>4, <1>6, <1>7

\* The effects of a step on journals, attempts and place, whatever the lane does.
Change ==
  \/ Quiet \/ Begins \/ Resumes \/ Leaves \/ Accepts \/ AsksModel \/ Rejects \/ Delegates
  \/ Ends \/ Passes \/ Creates \/ Runs \/ Returns \/ Attaches \/ EndsChild
  \/ CreatesOnce \/ AttachesFound \/ GoesOn

LEMMA EveryStep ==
  ASSUME Control, Types, TurnInv, HandoffNext
  PROVE  Control' /\ Change
<1>1. CASE StartTurn \/ Cancel \/ Die \/ Leave \/ Reload \/ Start
  BY <1>1, ProcessControl DEF Change
<1>2. CASE StartRefused \/ Accept \/ AskProvider \/ Reject \/ RequestChild \/ Lend \/ TakeBack
           \/ TakeBackFails \/ Attach
  BY <1>2, ParentControl DEF Change
<1>3. CASE ChildStep \/ OthersStep \/ WokenUp
  BY <1>3, ChildControl DEF Change
<1>4. CASE (Replay /\ Replayable) \/ SkipUnproven \/ EndChild \/ CreateOnce
           \/ AttachRecovered \/ Resume
  BY <1>4, RecoveryControl DEF Change
<1>5. CASE Complete \/ StopTurn \/ LeaveActive \/ Settle \/ ForeignReceipt \/ SettleFails
           \/ StopResumed \/ (Replay /\ ~ Replayable)
  BY <1>5, GivesSteps, GivesControl DEF Change
<1> QED
  BY <1>1, <1>2, <1>3, <1>4, <1>5 DEF HandoffNext, ParentStep, RecoveryStep


-----------------------------------------------------------------------------
(* The journals.                                                           *)

\* A step that writes into the parent journal writes one event of the turn it
\* runs; what it writes says which step it was.
WritesEvent(e) ==
  /\ log' = Append(log, e) /\ e.turn = me.turn
  /\ \/ Accepts /\ e.kind = "accepted"
     \/ AsksModel /\ e.kind = "provider"
     \/ Rejects /\ e.kind = "rejected"
     \/ Delegates /\ e.kind = "requested" /\ e.n = me'.n
     \/ (Attaches \/ AttachesFound) /\ e.kind = "attached" /\ e.n = me'.n
     \/ Ends /\ e.kind = "ended"

LEMMA Journalled ==
  ASSUME HandoffInv, Control, Control', Change
  PROVE  UNCHANGED log \/ \E e \in Event : WritesEvent(e)
<1>0. Types /\ TurnInv /\ PlaceInv /\ me \in Process /\ me' \in Process
      /\ runtime \in 1 .. 2 /\ me'.n \in Nat
  BY DEF HandoffInv, Control, Process
<1>1. CASE Accepts
  <2> DEFINE e == Record("accepted", me.turn, 0, runtime)
  <2>1. me.turn \in Turn
    BY <1>0, <1>1 DEF Accepts, PlaceInv, Idle
  <2>2. e \in Event /\ e.kind = "accepted" /\ e.turn = me.turn
    BY <1>0, <2>1 DEF Record, Event
  <2>3. log' = Append(log, e)
    BY <1>1 DEF Accepts
  <2> HIDE DEF e
  <2> QED
    BY <1>1, <2>2, <2>3 DEF WritesEvent
<1>2. me.at \notin Idle \cup {"accept"} => me.turn \in Accepted
  BY <1>0 DEF TurnInv, Active
<1>3. CASE AsksModel
  BY <1>0, <1>2, <1>3, Written DEF AsksModel, WritesEvent, Idle
<1>4. CASE Rejects
  BY <1>0, <1>2, <1>4, Written DEF Rejects, WritesEvent, Idle
<1>5. CASE Delegates
  BY <1>0, <1>2, <1>5, Written DEF Delegates, WritesEvent, Idle
<1>6. CASE Attaches
  BY <1>0, <1>2, <1>6, Written DEF Attaches, WritesEvent, Idle, Same
<1>7. CASE AttachesFound
  BY <1>0, <1>2, <1>7, Written DEF AttachesFound, Picks, WritesEvent, Idle
<1>8. CASE Ends
  BY <1>0, <1>2, <1>8, Written DEF Ends, WritesEvent, Idle
<1>9. CASE \/ Quiet \/ Begins \/ Resumes \/ Leaves \/ Passes \/ Creates \/ Runs \/ Returns
           \/ EndsChild \/ CreatesOnce \/ GoesOn
  BY <1>9 DEF Quiet, Begins, Resumes, Leaves, Passes, Creates, Runs, Returns,
              EndsChild, CreatesOnce, GoesOn, KeepJournals
<1> QED
  BY <1>1, <1>3, <1>4, <1>5, <1>6, <1>7, <1>8, <1>9 DEF Change

\* The attempt in hand is one of the turn's, so its child has a journal.
LEMMA HandedAttempt ==
  ASSUME HandoffInv, me.at \in Handing
  PROVE  me_a \in Attempt /\ Kid \in Child /\ Kid = kid[me_a]
<1>1. me_a \in Attempt
  BY DEF HandoffInv, AttemptInv, RequestsInv
<1> QED
  BY <1>1 DEF HandoffInv, Types, HandoffTypeOK, Kid

\* What a child's journal may become: nothing behind a receipt, no receipt but
\* with the end of its turn, no effect before its turn was accepted.
ChildBecomes(a, value) ==
  /\ kid' = [kid EXCEPT ![a] = value]
  /\ a \in Attempt /\ value \in Child /\ value.at # "absent"
  /\ \E i \in Positions("requested") : Of(i) = a
  /\ kid[a].receipt # "none" => value = kid[a]
  /\ value.receipt # "none" => value.at = "ended"
  /\ value.at \in {"created", "manifested"} => value.effect = "none"
  /\ value.effect = "none" /\ value.at \notin {"torn", "ended"} => ran[a] = 0

LEMMA KidChange ==
  ASSUME HandoffInv, Control, Change
  PROVE  kid' = kid \/ \E a \in Attempt, value \in Child : ChildBecomes(a, value)
<1>0. /\ ChildInv /\ AttemptInv /\ RequestsInv /\ kid \in [Attempt -> Child]
      /\ Types /\ me \in Process
  BY DEF HandoffInv, Types, HandoffTypeOK, Control
<1>1. ASSUME me.at \in Handing
      PROVE  /\ me_a \in Attempt /\ Kid \in Child /\ Kid = kid[me_a]
             /\ \E i \in Positions("requested") : Of(i) = me_a
  BY <1>0, <1>1, HandedAttempt DEF AttemptInv
<1>2. ASSUME NEW value \in Child, me.at \in Handing, SetKid(value),
             Kid.receipt = "none" \/ value = Kid,
             value.at # "absent", value.receipt # "none" => value.at = "ended",
             value.at \in {"created", "manifested"} => value.effect = "none",
             value.effect = "none" /\ value.at \notin {"torn", "ended"} => ran[me_a] = 0
      PROVE  \E a \in Attempt, v \in Child : ChildBecomes(a, v)
  <2>1. ChildBecomes(me_a, value)
    BY <1>1, <1>2 DEF ChildBecomes, SetKid
  <2> QED
    BY <1>1, <1>2, <2>1
<1>3. ASSUME NEW receipt \in Receipt PROVE Ended(receipt) \in Child
  BY DEF Ended, Child
<1>4. ASSUME NEW c \in Child
      PROVE  /\ c = [at |-> c.at, effect |-> c.effect, receipt |-> c.receipt]
             /\ \A place \in {"created", "manifested", "active", "torn"} :
                  /\ [c EXCEPT !.at = place] \in Child
                  /\ [c EXCEPT !.at = place].at = place
                  /\ [c EXCEPT !.at = place].effect = c.effect
                  /\ [c EXCEPT !.at = place].receipt = c.receipt
             /\ \A effect \in {"started", "done"} :
                  /\ [c EXCEPT !.effect = effect] \in Child
                  /\ [c EXCEPT !.effect = effect].at = c.at
                  /\ [c EXCEPT !.effect = effect].effect = effect
                  /\ [c EXCEPT !.effect = effect].receipt = c.receipt
  BY DEF Child
<1>5. CASE Leaves
  <2>1. CASE UNCHANGED kid
    BY <2>1
  <2>2. CASE me.at = "child" /\ SetKid([Kid EXCEPT !.at = "torn"])
    <3>1. Kid \in Child /\ Kid = kid[me_a] /\ me_a \in Attempt /\ me.at \in Handing
      BY <1>1, <2>2 DEF Handing
    <3>2. Kid.receipt = "none"
      BY <1>0, <2>2, <3>1 DEF ChildInv, AttemptInv
    <3> QED
      BY <1>2, <1>4, <2>2, <3>1, <3>2
  <2> QED
    BY <1>5, <2>1, <2>2 DEF Leaves
<1>6. CASE Creates
  <2>1. Kid \in Child /\ Kid = kid[me_a] /\ me_a \in Attempt /\ me.at \in Handing
    BY <1>1, <1>6 DEF Handing, Creates
  <2>2. Kid.at = "absent" /\ SetKid([Kid EXCEPT !.at = "created"])
    BY <1>0, <1>6 DEF Creates, AttemptInv
  <2>3. Kid.receipt = "none" /\ Kid.effect = "none" /\ ran[me_a] = 0
    BY <1>0, <2>1, <2>2 DEF ChildInv
  <2> QED
    BY <1>2, <1>4, <2>1, <2>2, <2>3
<1>7. CASE Runs
  <2>1. Kid \in Child /\ Kid = kid[me_a] /\ me_a \in Attempt /\ me.at \in Handing
    BY <1>1, <1>7 DEF Handing, Runs
  <2>2. Kid.receipt = "none"
    BY <1>0, <1>7, <2>1 DEF ChildInv, AttemptInv, Runs
  <2>3. /\ Kid.at \in {"created", "manifested"} => Kid.effect = "none" /\ ran[me_a] = 0
        /\ Kid.at = "active" /\ Kid.effect = "none" => ran[me_a] = 0
    BY <1>0, <2>1 DEF ChildInv
  <2>4. \/ Kid.at = "created" /\ SetKid([Kid EXCEPT !.at = "manifested"])
        \/ Kid.at = "manifested" /\ SetKid([Kid EXCEPT !.at = "active"])
        \/ Kid.at = "active" /\ SetKid([Kid EXCEPT !.effect = "started"])
        \/ Kid.at = "active" /\ SetKid([Kid EXCEPT !.effect = "done"])
        \/ UNCHANGED kid
    BY <1>7 DEF Runs
  <2>5. CASE Kid.at = "created" /\ SetKid([Kid EXCEPT !.at = "manifested"])
    BY <1>2, <1>4, <2>1, <2>2, <2>3, <2>5
  <2>6. CASE Kid.at = "manifested" /\ SetKid([Kid EXCEPT !.at = "active"])
    BY <1>2, <1>4, <2>1, <2>2, <2>3, <2>6
  <2>7. CASE Kid.at = "active" /\ SetKid([Kid EXCEPT !.effect = "started"])
    <3>1. [Kid EXCEPT !.effect = "started"].effect # "none"
      BY <1>4, <2>1
    <3> QED
      BY <1>2, <1>4, <2>1, <2>2, <2>7, <3>1
  <2>8. CASE Kid.at = "active" /\ SetKid([Kid EXCEPT !.effect = "done"])
    <3>1. [Kid EXCEPT !.effect = "done"].effect # "none"
      BY <1>4, <2>1
    <3> QED
      BY <1>2, <1>4, <2>1, <2>2, <2>8, <3>1
  <2> QED
    BY <2>4, <2>5, <2>6, <2>7, <2>8
<1>8. CASE Returns
  <2>1. Kid \in Child /\ Kid = kid[me_a] /\ me_a \in Attempt /\ me.at \in Handing
    BY <1>1, <1>8 DEF Handing, Returns
  <2>2. Kid.receipt = "none" /\ Kid.at \in {"created", "manifested", "active"}
    BY <1>0, <1>8, <2>1 DEF ChildInv, AttemptInv, Returns
  <2>3. CASE SetKid(Kid)
    BY <1>0, <1>2, <2>1, <2>2, <2>3 DEF ChildInv
  <2>4. ASSUME NEW receipt \in Receipt, SetKid(Ended(receipt))
        PROVE  \E a \in Attempt, v \in Child : ChildBecomes(a, v)
    <3>1. Ended(receipt) \in Child /\ Ended(receipt).at = "ended"
      BY <1>3 DEF Ended
    <3> QED
      BY <1>2, <2>1, <2>2, <2>4, <3>1
  <2> QED
    BY <1>8, <2>3, <2>4 DEF Returns
<1>9. CASE EndsChild
  <2> DEFINE a == Of(Next_i)
  <2>1. Next_i \in Positions("requested")
    BY <1>0, <1>9, NextCandidate DEF EndsChild
  <2>2. a \in Attempt
    BY <1>0, <2>1 DEF RequestsInv
  <2>3. PICK receipt \in Receipt : kid' = [kid EXCEPT ![a] = Ended(receipt)]
    BY <1>9 DEF EndsChild
  <2>4. kid[a].receipt = "none"
    BY <1>9 DEF EndsChild
  <2>5. \E i \in Positions("requested") : Of(i) = a
    BY <2>1
  <2> HIDE DEF a
  <2>6. ChildBecomes(a, Ended(receipt))
    <3>1. Ended(receipt) \in Child /\ Ended(receipt).at = "ended"
      BY <1>3 DEF Ended
    <3> QED
      BY <2>2, <2>3, <2>4, <2>5, <3>1 DEF ChildBecomes
  <2> QED
    BY <1>3, <2>2, <2>6
<1>10. CASE \/ Quiet \/ Begins \/ Resumes \/ Accepts \/ AsksModel \/ Rejects \/ Delegates \/ Ends
            \/ Passes \/ Attaches \/ CreatesOnce \/ AttachesFound \/ GoesOn
  BY <1>10 DEF Quiet, Begins, Resumes, Accepts, AsksModel, Rejects, Delegates, Ends,
               Passes, Attaches, CreatesOnce, AttachesFound, GoesOn, Picks, KeepJournals
<1> QED
  BY <1>5, <1>6, <1>7, <1>8, <1>9, <1>10 DEF Change


\* The mutation of a child is dispatched by its own turn, and for the first time.
Dispatches ==
  /\ me.at = "child" /\ me'.at = "child" /\ Kid.at = "active" /\ Kid.effect = "started"
  /\ ~ me.dispatched /\ me'.dispatched
  /\ ran' = [ran EXCEPT ![me_a] = @ + 1] /\ UNCHANGED <<log, kid>>

LEMMA RanChange ==
  ASSUME Change
  PROVE  ran' = ran \/ (Dispatches /\ Runs)
<1>1. CASE Runs
  BY <1>1 DEF Runs, Dispatches
<1>2. CASE \/ Quiet \/ Begins \/ Resumes \/ Leaves \/ Accepts \/ AsksModel \/ Rejects \/ Delegates
           \/ Ends \/ Passes \/ Creates \/ Returns \/ Attaches \/ EndsChild
           \/ CreatesOnce \/ AttachesFound \/ GoesOn
  BY <1>2 DEF Quiet, Begins, Resumes, Leaves, Accepts, AsksModel, Rejects, Delegates, Ends, Passes,
              Creates, Returns, Attaches, EndsChild, CreatesOnce, AttachesFound,
              GoesOn, Picks, KeepJournals
<1> QED
  BY <1>1, <1>2 DEF Change

LEMMA TypesKept ==
  ASSUME HandoffInv, Control, Control', Change
  PROVE  Types'
<1>0. /\ log \in Seq(Event) /\ kid \in [Attempt -> Child] /\ ran \in [Attempt -> 0 .. 1]
      /\ me' \in Process /\ runtime' \in 1 .. 2 /\ faults' \in 0 .. MaxFaults
  BY DEF HandoffInv, Types, HandoffTypeOK, Control
<1>1. log' \in Seq(Event)
  <2>1. ASSUME NEW e \in Event, WritesEvent(e) PROVE log' \in Seq(Event)
    BY <1>0, <2>1 DEF WritesEvent
  <2> QED
    BY <1>0, <2>1, Journalled
<1>2. kid' \in [Attempt -> Child]
  BY <1>0, KidChange DEF ChildBecomes
<1>3. ran' \in [Attempt -> 0 .. 1]
  <2>1. CASE ran' = ran
    BY <1>0, <2>1
  <2>2. CASE Dispatches
    <3>1. me_a \in Attempt /\ Kid = kid[me_a]
      BY <2>2, HandedAttempt DEF Dispatches, Handing
    <3>2. ran[me_a] = 0
      BY <2>2, <3>1 DEF HandoffInv, ChildInv, Dispatches
    <3> QED
      BY <1>0, <2>2, <3>1, <3>2 DEF Dispatches
  <2> QED
    BY <2>1, <2>2, RanChange
<1>4. \A i \in 1 .. Len(log') : log'[i] \in Event
  BY <1>1
<1> QED
  BY <1>0, <1>1, <1>2, <1>3, <1>4 DEF Types, HandoffTypeOK

\* What the journal of each child says of its effect.
LEMMA ChildKept ==
  ASSUME HandoffInv, Control, Control', Change
  PROVE  ChildInv'
<1>0. /\ kid \in [Attempt -> Child] /\ ran \in [Attempt -> 0 .. 1] /\ ChildInv /\ AttemptInv
  BY DEF HandoffInv, Types, HandoffTypeOK
<1>1. ASSUME NEW a \in Attempt
      PROVE  /\ kid'[a].receipt # "none" => kid'[a].at = "ended"
             /\ kid'[a].at \in {"absent", "created", "manifested"} => kid'[a].effect = "none"
             /\ kid'[a].effect = "none" /\ kid'[a].at \notin {"torn", "ended"} => ran[a] = 0
  <2>1. CASE kid' = kid
    BY <1>0, <2>1 DEF ChildInv
  <2>2. ASSUME NEW b \in Attempt, NEW value \in Child, ChildBecomes(b, value)
        PROVE  /\ kid'[a].receipt # "none" => kid'[a].at = "ended"
               /\ kid'[a].at \in {"absent", "created", "manifested"} => kid'[a].effect = "none"
               /\ kid'[a].effect = "none" /\ kid'[a].at \notin {"torn", "ended"} => ran[a] = 0
    <3>1. CASE a = b
      <4>1. kid'[a] = value
        BY <1>0, <2>2, <3>1 DEF ChildBecomes
      <4> QED
        BY <2>2, <3>1, <4>1 DEF ChildBecomes
    <3>2. CASE a # b
      <4>1. kid'[a] = kid[a]
        BY <1>0, <2>2, <3>2 DEF ChildBecomes
      <4> QED
        BY <1>0, <4>1 DEF ChildInv
    <3> QED
      BY <3>1, <3>2
  <2> QED
    BY <2>1, <2>2, KidChange
<1>2. ASSUME NEW a \in Attempt,
             kid'[a].effect = "none" /\ kid'[a].at \notin {"torn", "ended"}
      PROVE  ran'[a] = 0
  <2>1. CASE ran' = ran
    BY <1>1, <1>2, <2>1
  <2>2. CASE Dispatches
    <3>1. me_a \in Attempt /\ Kid = kid[me_a]
      BY <2>2, HandedAttempt DEF Dispatches, Handing
    <3>2. a # me_a
      BY <1>2, <2>2, <3>1 DEF Dispatches
    <3>3. ran'[a] = ran[a]
      BY <1>0, <2>2, <3>2 DEF Dispatches
    <3> QED
      BY <1>1, <1>2, <3>3
  <2> QED
    BY <2>1, <2>2, RanChange
<1>3. ASSUME me'.at = "child", Kid'.effect = "started", ~ me'.dispatched
      PROVE  ran'[me_a'] = 0
  <2>1. CASE Runs
    <3>1. me.at = "child" /\ me_a' = me_a /\ Kid = kid[me_a] /\ me_a \in Attempt
      BY <2>1, HandedAttempt DEF Runs, Handing, me_a
    <3>2. Kid' = kid'[me_a]
      BY <3>1 DEF Kid
    <3>3. ran' = ran /\ me'.dispatched = me.dispatched
      BY <1>3, <2>1 DEF Runs
    <3>4. CASE kid' = kid
      BY <1>0, <1>3, <3>1, <3>2, <3>3, <3>4 DEF ChildInv
    <3>5. CASE SetKid([Kid EXCEPT !.at = "manifested"]) \/ SetKid([Kid EXCEPT !.at = "active"])
      <4>1. kid'[me_a].effect = Kid.effect
        BY <1>0, <3>1, <3>5 DEF SetKid, Child
      <4> QED
        BY <1>0, <1>3, <3>1, <3>2, <3>3, <4>1 DEF ChildInv
    <3>6. CASE Kid.at = "active" /\ Kid.effect = "none" /\ SetKid([Kid EXCEPT !.effect = "started"])
      BY <1>0, <3>1, <3>3, <3>6 DEF ChildInv
    <3>7. CASE SetKid([Kid EXCEPT !.effect = "done"])
      <4>1. kid'[me_a].effect = "done"
        BY <1>0, <3>1, <3>7 DEF SetKid, Child
      <4> QED
        BY <1>3, <3>2, <4>1
    <3> QED
      BY <2>1, <3>4, <3>5, <3>6, <3>7 DEF Runs
  <2>2. CASE Quiet
    BY <1>0, <1>3, <2>2 DEF Quiet, KeepJournals, Same, me_a, Kid, ChildInv
  <2>3. CASE Passes
    <3>1. me.at = "enqueue" /\ UNCHANGED <<kid, ran>> /\ Same
      BY <1>3, <2>3 DEF Passes, Passages, KeepJournals
    <3>2. Kid.at = "created" /\ Kid = kid[me_a] /\ me_a \in Attempt /\ me_a' = me_a
      BY <1>0, <3>1, HandedAttempt DEF AttemptInv, Handing, Same, me_a
    <3>3. Kid.effect = "none" /\ Kid' = Kid
      BY <1>0, <3>1, <3>2 DEF ChildInv, Kid
    <3> QED
      BY <1>3, <3>3
  <2>4. CASE \/ Begins \/ Resumes \/ Leaves \/ Accepts \/ AsksModel \/ Rejects \/ Delegates
             \/ Ends \/ Creates \/ Returns \/ Attaches \/ EndsChild
             \/ CreatesOnce \/ AttachesFound \/ GoesOn
    BY <1>3, <2>4 DEF Begins, Resumes, Leaves, Accepts, AsksModel, Rejects, Delegates, Ends, Creates,
          Returns, Attaches, EndsChild, CreatesOnce, AttachesFound, GoesOn, Picks, Away, Idle
  <2> QED
    BY <2>1, <2>2, <2>3, <2>4 DEF Change
<1> QED
  BY <1>1, <1>2, <1>3 DEF ChildInv


\* Inside a turn the process stays with it.
LEMMA TurnStays ==
  ASSUME Change, me'.at \notin Idle \cup {"accept"}
  PROVE  Accepts \/ Resumes \/ (~ Ends /\ me.at \notin Idle \cup {"accept"} /\ me'.turn = me.turn)
<1>1. CASE Accepts \/ Resumes
  BY <1>1
<1>2. CASE Begins \/ Leaves \/ Ends
  BY <1>2 DEF Begins, Leaves, Ends, Away
<1>3. CASE \/ Quiet \/ AsksModel \/ Rejects \/ Delegates \/ Passes \/ Creates \/ Runs \/ Returns
           \/ Attaches \/ EndsChild \/ CreatesOnce \/ AttachesFound \/ GoesOn
  <2>1. me.at \notin Idle \cup {"accept"} /\ me'.turn = me.turn
    BY <1>3 DEF Quiet, AsksModel, Rejects, Delegates, Passes, Passages, Creates, Runs, Returns,
                Attaches, EndsChild, CreatesOnce, AttachesFound, GoesOn, Picks, Same, Idle
  <2>2. ~ Ends \/ Accepts \/ Resumes
    BY DEF Ends, Away
  <2> QED
    BY <2>1, <2>2
<1> QED
  BY <1>1, <1>2, <1>3 DEF Change

\* Turns are accepted in their order, each behind the end of the one before it.
LEMMA TurnKept ==
  ASSUME HandoffInv, Control, Control', Change
  PROVE  TurnInv'
<1>0. /\ log \in Seq(Event) /\ TurnInv /\ PlaceInv /\ PlaceInv'
      /\ MaxTurns \in Nat /\ Len(log) \in Nat
  BY HandoffAssumption DEF HandoffInv, Types, Control
<1>1. PICK n \in 0 .. MaxTurns : Accepted = 1 .. n
  BY <1>0 DEF TurnInv
<1>2. EndedTurns \subseteq Accepted
  BY <1>0 DEF EndedTurns, Positions, TurnInv
<1>3. CASE UNCHANGED log
  <2>1. Accepted' = Accepted /\ EndedTurns' = EndedTurns /\ Active' = Active
    BY <1>3, SameLog
  <2>2. me'.at = "accept" => Active = {} /\ Accepted = 1 .. me'.turn - 1
    <3>1. CASE Begins
      <4>1. Cardinality(Accepted) = n
        BY <1>1, FS_Interval
      <4>2. me'.turn - 1 = n /\ Active = {}
        BY <3>1, <4>1 DEF Begins
      <4> QED
        BY <1>1, <4>2
    <3>2. CASE Quiet
      BY <1>0, <3>2 DEF Quiet, Same, TurnInv
    <3>3. CASE ~ Begins /\ ~ Quiet
      BY <3>3 DEF Change, Resumes, Leaves, Accepts, AsksModel, Rejects, Delegates, Ends, Passes,
                  Passages, Creates, Runs, Returns, Attaches, EndsChild, CreatesOnce,
                  AttachesFound, GoesOn, Picks, Away, Idle
    <3> QED
      BY <3>1, <3>2, <3>3
  <2>3. me'.at \notin Idle \cup {"accept"} => me'.turn \in Active
    <3> SUFFICES ASSUME me'.at \notin Idle \cup {"accept"} PROVE me'.turn \in Active
      OBVIOUS
    <3>1. CASE Accepts
      BY <1>0, <1>3, <3>1 DEF Accepts
    <3>2. CASE Resumes
      BY <3>2 DEF Resumes
    <3> QED
      BY <1>0, <3>1, <3>2, TurnStays DEF TurnInv
  <2> QED
    BY <1>0, <1>3, <2>1, <2>2, <2>3 DEF TurnInv
<1>4. ASSUME NEW e \in Event, WritesEvent(e) PROVE TurnInv'
  <2>1. log' = Append(log, e) /\ e.turn = me.turn
    BY <1>4 DEF WritesEvent
  <2>2. /\ Accepted' = IF e.kind = "accepted" THEN Accepted \cup {e.turn} ELSE Accepted
        /\ EndedTurns' = IF e.kind = "ended" THEN EndedTurns \cup {e.turn} ELSE EndedTurns
    BY <1>0, <2>1, AppendingViews
  <2>3. /\ Len(log') = Len(log) + 1 /\ log'[Len(log) + 1] = e
        /\ \A i \in 1 .. Len(log) : log'[i] = log[i]
    BY <1>0, <2>1
  <2>4. CASE Accepts
    <3>1. /\ e.kind = "accepted" /\ Active = {} /\ Accepted = 1 .. me.turn - 1
          /\ me.turn \in 1 .. MaxTurns /\ me'.turn = me.turn /\ me'.at = "provider"
      BY <1>0, <1>4, <2>4 DEF WritesEvent, Accepts, AsksModel, Rejects, Delegates, Attaches,
                              AttachesFound, Picks, Ends, TurnInv, PlaceInv, Idle, Turn, Same
    <3>2. Accepted' = 1 .. me.turn /\ EndedTurns' = EndedTurns
      BY <2>1, <2>2, <3>1
    <3>3. me.turn \notin EndedTurns
      BY <1>2, <3>1
    <3>4. Active' = {me.turn}
      <4>1. Accepted \subseteq EndedTurns
        BY <3>1 DEF Active
      <4> QED
        BY <1>2, <2>1, <2>2, <3>1, <3>2, <3>3, <4>1 DEF Active
    <3>5. \A i \in 1 .. Len(log') : log'[i].turn \in Accepted'
      <4> SUFFICES ASSUME NEW i \in 1 .. Len(log') PROVE log'[i].turn \in Accepted'
        OBVIOUS
      <4>1. CASE i = Len(log) + 1
        BY <2>1, <2>3, <3>1, <3>2, <4>1
      <4>2. CASE i # Len(log) + 1
        <5>1. i \in 1 .. Len(log)
          BY <1>0, <2>3, <4>2
        <5>2. log'[i].turn \in Accepted
          BY <1>0, <2>3, <5>1 DEF TurnInv
        <5> QED
          BY <3>1, <3>2, <5>2
      <4> QED
        BY <4>1, <4>2
    <3>6. \E m \in 0 .. MaxTurns : Accepted' = 1 .. m
      BY <3>1, <3>2
    <3>7. (me.turn \in Active)' /\ \A s, t \in Active' : s = t
      BY <3>1, <3>4
    <3> QED
      BY <3>1, <3>5, <3>6, <3>7 DEF TurnInv
  <2>5. CASE ~ Accepts
    <3>1. e.kind # "accepted" /\ me'.at # "accept"
      BY <1>4, <2>5 DEF WritesEvent, AsksModel, Rejects, Delegates, Attaches, AttachesFound,
                        Picks, Ends, Away, Idle
    <3>2. Accepted' = Accepted /\ EndedTurns \subseteq EndedTurns'
      BY <2>2, <3>1
    <3>3. me.turn \in Accepted
      BY <1>0, <1>4, <2>5 DEF WritesEvent, AsksModel, Rejects, Delegates, Attaches, AttachesFound,
                              Picks, Ends, TurnInv, Active, Idle
    <3>4. \A i \in 1 .. Len(log') : log'[i].turn \in Accepted'
      <4> SUFFICES ASSUME NEW i \in 1 .. Len(log') PROVE log'[i].turn \in Accepted'
        OBVIOUS
      <4>1. CASE i = Len(log) + 1
        BY <2>1, <2>3, <3>2, <3>3, <4>1
      <4>2. CASE i # Len(log) + 1
        <5>1. i \in 1 .. Len(log)
          BY <1>0, <2>3, <4>2
        <5> QED
          BY <1>0, <2>3, <3>2, <5>1 DEF TurnInv
      <4> QED
        BY <4>1, <4>2
    <3>5. Active' \subseteq Active
      BY <3>2 DEF Active
    <3>6. me'.at \notin Idle \cup {"accept"} => me'.turn \in Active'
      <4> SUFFICES ASSUME me'.at \notin Idle \cup {"accept"} PROVE me'.turn \in Active'
        OBVIOUS
      <4>1. ~ Resumes
        <5>1. log' # log
          BY <1>0, <2>3
        <5> QED
          BY <5>1 DEF Resumes, KeepJournals
      <4>2. ~ Ends /\ me.at \notin Idle \cup {"accept"} /\ me'.turn = me.turn
        BY <2>5, <4>1, TurnStays
      <4>3. EndedTurns' = EndedTurns
        BY <1>4, <2>2, <4>2 DEF WritesEvent
      <4> QED
        BY <1>0, <3>2, <4>2, <4>3 DEF TurnInv, Active
    <3> QED
      BY <1>0, <1>1, <3>1, <3>2, <3>4, <3>5, <3>6 DEF TurnInv
  <2> QED
    BY <2>4, <2>5
<1> QED
  BY <1>3, <1>4, Journalled


\* A receipt is final: no recovery and no second run of a child replaces it.
LEMMA ReceiptsStay ==
  ASSUME HandoffInv, Control, Change, NEW a \in Attempt, kid[a].receipt # "none"
  PROVE  kid'[a] = kid[a]
BY KidChange DEF ChildBecomes, HandoffInv, Types, HandoffTypeOK

LEMMA RequestsFinite ==
  ASSUME log \in Seq(Event), NEW t
  PROVE  /\ IsFiniteSet(Requests(t)) /\ Cardinality(Requests(t)) \in Nat
         /\ \A i \in Requests(t) : i \in 1 .. Len(log)
<1>1. Requests(t) \in SUBSET (1 .. Len(log)) /\ Len(log) \in Int
  BY DEF Requests, Positions
<1>2. IsFiniteSet(1 .. Len(log))
  BY <1>1, FS_Interval
<1>3. IsFiniteSet(Requests(t))
  BY <1>1, <1>2, FS_Subset
<1> QED
  BY <1>1, <1>3, FS_CardinalityType

\* What a request finds: nothing is known yet of the attempt it names.
LEMMA FreshAttempt ==
  ASSUME HandoffInv, Control, Control', Delegates
  PROVE  LET a == <<me.turn, me'.n>> IN
           /\ a \in Attempt /\ me'.n \in Nat /\ ~ Attached(a) /\ kid[a].at = "absent"
           /\ \A i \in Positions("requested") : Of(i) # a
           /\ me'.n = Cardinality(Requests(me.turn)) + 1
<1> DEFINE a == <<me.turn, me'.n>>
<1>0. /\ log \in Seq(Event) /\ RequestsInv /\ AttachedFromReceipt /\ PlaceInv /\ me \in Process
      /\ me'.n = Cardinality(Requests(me.turn)) + 1 /\ me'.n <= Asks[me.turn] /\ me.at = "model"
  BY DEF HandoffInv, Types, Control, Delegates
<1>1. Cardinality(Requests(me.turn)) \in Nat
  BY <1>0, RequestsFinite
<1>2. me.turn \in Turn /\ Asks[me.turn] \in Nat
  BY <1>0, HandoffAssumption DEF PlaceInv, Idle, Turn
<1>3. a \in Attempt
  <2>1. me'.n \in 1 .. Asks[me.turn]
    BY <1>0, <1>1, <1>2
  <2>2. a \in {me.turn} \X (1 .. Asks[me.turn])
    BY <2>1
  <2> QED
    BY <1>2, <2>2 DEF Attempt
<1>4. ASSUME NEW i \in Positions("requested") PROVE Of(i) # a
  <2>1. CASE log[i].turn = me.turn
    BY <1>0, <1>1, <1>2, <2>1 DEF RequestsInv, Requests, Of
  <2>2. CASE log[i].turn # me.turn
    BY <2>2 DEF Of
  <2> QED
    BY <2>1, <2>2
<1>5. ~ Attached(a)
  BY <1>0, <1>4 DEF Attached, AttachedFromReceipt
<1>6. kid[a].at = "absent"
  BY <1>0, <1>3, <1>4 DEF RequestsInv
<1> QED
  BY <1>0, <1>1, <1>3, <1>4, <1>5, <1>6

\* What an attachment answers: a request of the turn that is open, by a receipt.
LEMMA AttachTarget ==
  ASSUME HandoffInv, Control, Attaches \/ AttachesFound
  PROVE  /\ <<me.turn, me'.n>> \in Attempt /\ ~ Attached(<<me.turn, me'.n>>)
         /\ \E i \in Positions("requested") : Of(i) = <<me.turn, me'.n>>
         /\ kid[<<me.turn, me'.n>>].receipt # "none" /\ UNCHANGED <<kid, ran>>
<1>0. RequestsInv /\ AttemptInv /\ Types /\ me \in Process
  BY DEF HandoffInv, Control
<1>1. CASE Attaches
  <2>1. me.at \in Handing /\ <<me.turn, me'.n>> = me_a /\ kid[me_a].receipt # "none"
    BY <1>1 DEF Attaches, Handing, Same, me_a, Kid
  <2> QED
    BY <1>0, <1>1, <2>1, HandedAttempt DEF AttemptInv, Attaches
<1>2. CASE AttachesFound
  <2>1. Next_i \in Positions("requested")
    BY <1>0, <1>2, NextCandidate DEF AttachesFound, Picks
  <2>2. <<me.turn, me'.n>> = Of(Next_i)
    BY <1>2 DEF AttachesFound, Picks, Mine, Of
  <2> QED
    BY <1>0, <1>2, <2>1, <2>2 DEF AttachesFound, Picks, RequestsInv
<1> QED
  BY <1>1, <1>2

\* A result is attached once, from a receipt, behind its request.
LEMMA AttachedKept ==
  ASSUME HandoffInv, Control, Control', Change
  PROVE  AttachedFromReceipt'
<1>0. /\ log \in Seq(Event) /\ RequestsInv /\ AttachedFromReceipt /\ Len(log) \in Nat
  BY DEF HandoffInv, Types
<1>1. \A kind : Positions(kind) \subseteq 1 .. Len(log)
  BY DEF Positions
<1>2. ASSUME NEW i \in Positions("attached") PROVE Of(i) \in Attempt /\ kid'[Of(i)].receipt # "none"
  <2>1. Of(i) \in Attempt /\ kid[Of(i)].receipt # "none"
    BY <1>0 DEF AttachedFromReceipt, RequestsInv
  <2> QED
    BY <2>1, ReceiptsStay
<1>3. CASE UNCHANGED log
  BY <1>0, <1>2, <1>3, SameLog DEF AttachedFromReceipt
<1>4. ASSUME NEW e \in Event, WritesEvent(e) PROVE AttachedFromReceipt'
  <2> DEFINE new == Len(log) + 1
  <2>1. /\ log' = Append(log, e) /\ e.turn = me.turn
        /\ e.kind = "attached" => e.n = me'.n /\ (Attaches \/ AttachesFound)
    BY <1>4 DEF WritesEvent
  <2>2. /\ \A i \in 1 .. Len(log) : Of(i)' = Of(i)
        /\ \A i : i = new => Of(i)' = <<e.turn, e.n>>
        /\ \A kind : Positions(kind)' =
             IF e.kind = kind THEN Positions(kind) \cup {new} ELSE Positions(kind)
    BY <1>0, <2>1, Appending
  <2>3. \A i \in 1 .. Len(log) : i < new
    BY <1>0
  <2> HIDE DEF new
  <2>4. CASE e.kind # "attached"
    <3>1. Positions("attached")' = Positions("attached")
      BY <2>2, <2>4
    <3>2. Positions("requested") \subseteq Positions("requested")'
      BY <2>2
    <3> SUFFICES ASSUME NEW i \in Positions("attached")
                 PROVE  /\ kid'[Of(i)'].receipt # "none"
                        /\ \E j \in Positions("requested")' : j < i /\ Of(j)' = Of(i)'
                        /\ \A k \in Positions("attached")' : Of(k)' = Of(i)' => k = i
      BY <3>1 DEF AttachedFromReceipt
    <3>3. Of(i)' = Of(i) /\ kid'[Of(i)].receipt # "none"
      BY <1>1, <1>2, <2>2
    <3>4. \E j \in Positions("requested")' : j < i /\ Of(j)' = Of(i)'
      BY <1>0, <1>1, <2>2, <3>2, <3>3 DEF AttachedFromReceipt
    <3>5. \A k \in Positions("attached")' : Of(k)' = Of(i)' => k = i
      BY <1>0, <1>1, <2>2, <3>1, <3>3 DEF AttachedFromReceipt
    <3> QED
      BY <3>3, <3>4, <3>5
  <2>5. CASE e.kind = "attached"
    <3> DEFINE a == <<me.turn, me'.n>>
    <3>1. /\ a \in Attempt /\ ~ Attached(a) /\ kid[a].receipt # "none" /\ kid' = kid
          /\ \E j \in Positions("requested") : Of(j) = a
      BY <2>1, <2>5, AttachTarget
    <3>2. /\ Positions("attached")' = Positions("attached") \cup {new}
          /\ Positions("requested")' = Positions("requested")
          /\ \A i : i = new => Of(i)' = a
      BY <2>1, <2>2, <2>5
    <3> HIDE DEF a
    <3>3. ASSUME NEW i \in Positions("attached")
          PROVE  /\ kid'[Of(i)'].receipt # "none"
                 /\ \E j \in Positions("requested")' : j < i /\ Of(j)' = Of(i)'
                 /\ \A k \in Positions("attached")' : Of(k)' = Of(i)' => k = i
      <4>1. Of(i)' = Of(i) /\ Of(i) # a
        BY <1>1, <2>2, <3>1 DEF Attached
      <4>2. \E j \in Positions("requested")' : j < i /\ Of(j)' = Of(i)'
        BY <1>0, <1>1, <2>2, <3>2, <4>1 DEF AttachedFromReceipt
      <4>3. \A k \in Positions("attached")' : Of(k)' = Of(i)' => k = i
        BY <1>0, <1>1, <2>2, <3>2, <4>1 DEF AttachedFromReceipt
      <4> QED
        BY <1>2, <4>1, <4>2, <4>3
    <3>4. ASSUME NEW i, i = new
          PROVE  /\ kid'[Of(i)'].receipt # "none"
                 /\ \E j \in Positions("requested")' : j < i /\ Of(j)' = Of(i)'
                 /\ \A k \in Positions("attached")' : Of(k)' = Of(i)' => k = i
      <4>1. Of(i)' = a
        BY <3>2, <3>4
      <4>2. \A k \in Positions("attached") : Of(k)' # a
        BY <1>1, <2>2, <3>1 DEF Attached
      <4> QED
        BY <1>1, <2>2, <2>3, <3>1, <3>2, <3>4, <4>1, <4>2
    <3> QED
      BY <3>2, <3>3, <3>4 DEF AttachedFromReceipt
  <2> QED
    BY <2>4, <2>5
<1> QED
  BY <1>3, <1>4, Journalled


\* The requests of a turn stay numbered, distinct and one at a time.
LEMMA RequestsKept ==
  ASSUME HandoffInv, Control, Control', Change
  PROVE  RequestsInv'
<1>0. /\ log \in Seq(Event) /\ RequestsInv /\ kid \in [Attempt -> Child] /\ Len(log) \in Nat
      /\ AttemptInv /\ PlaceInv /\ me \in Process
  BY DEF HandoffInv, Types, HandoffTypeOK, Control
<1>1. \A kind : Positions(kind) \subseteq 1 .. Len(log)
  BY DEF Positions
<1>2. ASSUME NEW a \in Attempt, kid'[a].at # "absent"
      PROVE  \E i \in Positions("requested") : Of(i) = a
  <2>1. CASE kid[a].at # "absent"
    BY <1>0, <2>1 DEF RequestsInv
  <2>2. ASSUME NEW b \in Attempt, NEW value \in Child, ChildBecomes(b, value), kid[a].at = "absent"
        PROVE  a = b
    BY <1>0, <1>2, <2>2 DEF ChildBecomes
  <2> QED
    BY <1>2, <2>1, <2>2, KidChange DEF ChildBecomes
<1>3. CASE UNCHANGED log
  <2>1. /\ Positions("requested")' = Positions("requested") /\ \A i : Of(i)' = Of(i)
        /\ \A a : Attached(a)' <=> Attached(a)
        /\ \A t : Requests(t)' = Requests(t)
    BY <1>3, SameLog
  <2>2. \A t : Cardinality(Requests(t))' = Cardinality(Requests(t))
    BY <2>1
  <2> QED
    BY <1>0, <1>2, <1>3, <2>1, <2>2 DEF RequestsInv
<1>4. ASSUME NEW e \in Event, WritesEvent(e) PROVE RequestsInv'
  <2> DEFINE new == Len(log) + 1
  <2>1. log' = Append(log, e) /\ e.turn = me.turn
    BY <1>4 DEF WritesEvent
  <2>2. /\ \A i \in 1 .. Len(log) : log'[i] = log[i] /\ Of(i)' = Of(i)
        /\ log'[new] = e /\ \A i : i = new => Of(i)' = <<e.turn, e.n>>
        /\ \A kind : Positions(kind)' =
             IF e.kind = kind THEN Positions(kind) \cup {new} ELSE Positions(kind)
    BY <1>0, <2>1, Appending
  <2>3. /\ \A a : Attached(a) => Attached(a)'
        /\ \A t : Requests(t)' =
              IF e.kind = "requested" /\ e.turn = t THEN Requests(t) \cup {new} ELSE Requests(t)
    BY <1>0, <2>1, AppendingViews
  <2>4. /\ new \notin 1 .. Len(log) /\ ~ (new < new)
        /\ \A i \in 1 .. Len(log) : i < new /\ ~ (new < i)
    BY <1>0
  <2> HIDE DEF new
  <2>5. CASE e.kind # "requested"
    <3>1. Positions("requested")' = Positions("requested") /\ \A t : Requests(t)' = Requests(t)
      BY <2>2, <2>3, <2>5
    <3>2. \A t : Cardinality(Requests(t))' = Cardinality(Requests(t))
      BY <3>1
    <3>3. \A i \in Positions("requested") : log'[i] = log[i] /\ Of(i)' = Of(i)
      BY <1>1, <2>2
    <3>4. \A i \in Positions("requested")' : Of(i)' \in Attempt
      BY <1>0, <3>1, <3>3 DEF RequestsInv
    <3>5. \A t \in Turn : \A i \in Requests(t)' : log'[i].n \in 1 .. Cardinality(Requests(t))'
      <4>1. \A t : \A i \in Requests(t) : log'[i] = log[i]
        BY <3>3 DEF Requests
      <4> QED
        BY <1>0, <3>1, <3>2, <4>1 DEF RequestsInv
    <3>6. \A i, j \in Positions("requested")' : Of(i)' = Of(j)' => i = j
      BY <1>0, <3>1, <3>3 DEF RequestsInv
    <3>7. ASSUME NEW i \in Positions("requested"), NEW j \in Positions("requested"),
                 i < j, log'[i].turn = log'[j].turn, NEW b, b = Of(i)'
          PROVE  Attached(b)'
      BY <1>0, <2>3, <3>3, <3>7 DEF RequestsInv
    <3>8. \A i, j \in Positions("requested")' :
            i < j /\ log'[i].turn = log'[j].turn => Attached(Of(i))'
      BY <3>1, <3>7 DEF Attached
    <3>9. \A b \in Attempt : kid'[b].at # "absent" => \E i \in Positions("requested")' : Of(i)' = b
      BY <1>2, <3>1, <3>3
    <3> QED
      BY <3>4, <3>5, <3>6, <3>8, <3>9 DEF RequestsInv
  <2>6. CASE e.kind = "requested"
    <3> DEFINE a == <<me.turn, me'.n>>
    <3>1. Delegates /\ e.n = me'.n
      BY <1>4, <2>6 DEF WritesEvent
    <3>2. /\ a \in Attempt /\ \A i \in Positions("requested") : Of(i) # a
          /\ me'.n \in Nat /\ me'.n = Cardinality(Requests(me.turn)) + 1
      BY <3>1, FreshAttempt
    <3>3. \A i : i = new => Of(i)' = a
      BY <2>1, <2>2, <3>1
    <3> HIDE DEF a
    <3>4. Positions("requested")' = Positions("requested") \cup {new}
      BY <2>2, <2>6
    <3>5. ASSUME NEW t
          PROVE  /\ Cardinality(Requests(t)) \in Nat
                 /\ Cardinality(Requests(t))' =
                      IF t = me.turn THEN Cardinality(Requests(t)) + 1 ELSE Cardinality(Requests(t))
      <4>1. IsFiniteSet(Requests(t)) /\ Cardinality(Requests(t)) \in Nat /\ new \notin Requests(t)
        BY <1>0, <2>4, RequestsFinite
      <4>2. Requests(t)' = IF t = me.turn THEN Requests(t) \cup {new} ELSE Requests(t)
        BY <2>1, <2>3, <2>6
      <4>3. Cardinality(Requests(t) \cup {new}) = Cardinality(Requests(t)) + 1
        BY <4>1, FS_AddElement
      <4> QED
        BY <4>1, <4>2, <4>3
    <3>6. \A i \in Positions("requested") :
            log'[i] = log[i] /\ Of(i)' = Of(i) /\ i \in 1 .. Len(log)
      BY <1>1, <2>2
    <3>7. \A i \in Positions("requested")' : Of(i)' \in Attempt
      BY <1>0, <3>2, <3>3, <3>4, <3>6 DEF RequestsInv
    <3>12. ASSUME NEW t \in Turn, NEW i \in Requests(t)'
           PROVE  log'[i].n \in 1 .. Cardinality(Requests(t))'
      <4>1. CASE i \in Requests(t)
        <5>1. log[i].n \in 1 .. Cardinality(Requests(t)) /\ log'[i] = log[i]
          BY <1>0, <3>6, <4>1 DEF RequestsInv, Requests
        <5> QED
          BY <3>5, <5>1
      <4>2. CASE i \notin Requests(t)
        <5>1. i = new /\ t = me.turn
          BY <2>1, <2>3, <2>6, <4>2
        <5>2. log'[i].n = Cardinality(Requests(t))' /\ log'[i].n \in Nat \ {0}
          <6>1. log'[i].n = me'.n
            BY <2>2, <3>1, <5>1
          <6> QED
            BY <3>2, <3>5, <5>1, <6>1
        <5> QED
          BY <5>2
      <4> QED
        BY <4>1, <4>2
    <3>8. \A i, j \in Positions("requested")' : Of(i)' = Of(j)' => i = j
      BY <1>0, <3>2, <3>3, <3>4, <3>6 DEF RequestsInv
    <3>9. ASSUME NEW i \in Positions("requested")', NEW j \in Positions("requested")', i < j,
                 log'[i].turn = log'[j].turn, NEW b, b = Of(i)'
          PROVE  Attached(b)'
      <4>1. i \in Positions("requested") /\ log'[i] = log[i] /\ b = Of(i)
        BY <2>4, <3>4, <3>6, <3>9
      <4>2. CASE j \in Positions("requested")
        BY <1>0, <2>3, <3>6, <3>9, <4>1, <4>2 DEF RequestsInv
      <4>3. CASE j = new
        <5>1. log[i].turn = me.turn
          BY <2>1, <2>2, <3>9, <4>1, <4>3
        <5>2. Attached(Of(i))
          BY <1>0, <3>1, <4>1, <5>1 DEF AttemptInv, Delegates, Requests
        <5> QED
          BY <2>3, <4>1, <5>2
      <4> QED
        BY <3>4, <4>2, <4>3
    <3>10. \A i, j \in Positions("requested")' :
             i < j /\ log'[i].turn = log'[j].turn => Attached(Of(i))'
      <4> SUFFICES ASSUME NEW i \in Positions("requested")', NEW j \in Positions("requested")',
                          i < j, log'[i].turn = log'[j].turn
                   PROVE  Attached(Of(i))'
        OBVIOUS
      <4>1. \A b : b = Of(i)' => Attached(b)'
        BY <3>9
      <4> QED
        BY <4>1 DEF Attached
    <3>11. \A b \in Attempt : kid'[b].at # "absent" => \E i \in Positions("requested")' : Of(i)' = b
      BY <1>2, <3>4, <3>6
    <3> QED
      BY <3>7, <3>8, <3>10, <3>11, <3>12 DEF RequestsInv
  <2> QED
    BY <2>5, <2>6
<1> QED
  BY <1>3, <1>4, Journalled


\* What no step takes back: an attachment; and but for a new delegation the
\* requests of the journal are those of before.
LEMMA Views ==
  ASSUME HandoffInv, Control, Control', Change
  PROVE  /\ \A a : Attached(a) => Attached(a)'
         /\ \A a : Attached(a)' =>
              Attached(a) \/ ((Attaches \/ AttachesFound) /\ a = <<me.turn, me'.n>>)
         /\ Attaches \/ AttachesFound => \A a : a = <<me.turn, me'.n>> => Attached(a)'
         /\ \A i \in Positions("requested") : Of(i)' = Of(i) /\ log'[i] = log[i]
         /\ ~ Delegates => /\ Positions("requested")' = Positions("requested")
                           /\ \A t : Requests(t)' = Requests(t)
<1>0. log \in Seq(Event) /\ Positions("requested") \subseteq 1 .. Len(log)
  BY DEF HandoffInv, Types, Positions
<1>1. CASE UNCHANGED log
  <2>1. ~ Attaches /\ ~ AttachesFound
    <3>1. ASSUME Attaches \/ AttachesFound PROVE log' # log
      <4>2. \A n \in Nat : Write("attached", n) => log' # log
        BY <1>0 DEF Write
      <4>3. me'.n \in Nat
        BY DEF Control, Process
      <4> QED
        BY <3>1, <4>2, <4>3 DEF Attaches, AttachesFound, Picks, Same
    <3> QED
      BY <1>1, <3>1
  <2> QED
    BY <1>1, <2>1, SameLog
<1>2. ASSUME NEW e \in Event, WritesEvent(e)
      PROVE  /\ \A a : Attached(a) => Attached(a)'
             /\ \A a : Attached(a)' =>
                  Attached(a) \/ ((Attaches \/ AttachesFound) /\ a = <<me.turn, me'.n>>)
             /\ Attaches \/ AttachesFound => \A a : a = <<me.turn, me'.n>> => Attached(a)'
             /\ \A i \in Positions("requested") : Of(i)' = Of(i) /\ log'[i] = log[i]
             /\ ~ Delegates => /\ Positions("requested")' = Positions("requested")
                               /\ \A t : Requests(t)' = Requests(t)
  <2>1. log' = Append(log, e) /\ e.turn = me.turn
    BY <1>2 DEF WritesEvent
  <2>2. /\ \A a : Attached(a)' <=> Attached(a) \/ (e.kind = "attached" /\ a = <<e.turn, e.n>>)
        /\ \A t : Requests(t)' =
              IF e.kind = "requested" /\ e.turn = t THEN Requests(t) \cup {Len(log) + 1}
                                                    ELSE Requests(t)
    BY <1>0, <2>1, AppendingViews
  <2>3. /\ \A i \in 1 .. Len(log) : log'[i] = log[i] /\ Of(i)' = Of(i)
        /\ \A kind : Positions(kind)' =
             IF e.kind = kind THEN Positions(kind) \cup {Len(log) + 1} ELSE Positions(kind)
    BY <1>0, <2>1, Appending
  <2>4. /\ e.kind = "attached" => (Attaches \/ AttachesFound) /\ e.n = me'.n
        /\ e.kind = "requested" => Delegates
    BY <1>2 DEF WritesEvent
  <2>5. Attaches \/ AttachesFound => e.kind = "attached"
    BY <1>2 DEF WritesEvent, Accepts, AsksModel, Rejects, Delegates, Ends, Attaches, AttachesFound,
                Picks, Away, Idle
  <2> QED
    BY <1>0, <2>1, <2>2, <2>3, <2>4, <2>5
<1> QED
  BY <1>1, <1>2, Journalled


\* A turn asks its provider only with the results of all its delegations, and a
\* child in hand is still open.
LEMMA AttemptKept ==
  ASSUME HandoffInv, Control, Control', Change
  PROVE  AttemptInv'
<1>0. /\ log \in Seq(Event) /\ RequestsInv /\ AttemptInv /\ PlaceInv /\ TurnInv /\ Types
      /\ AttachedFromReceipt /\ me \in Process /\ kid \in [Attempt -> Child]
  BY DEF HandoffInv, Types, HandoffTypeOK, Control
<1>1. \A a : Attached(a) => Attached(a)'
  BY Views
<1>2. ASSUME me'.at \in {"provider", "model"}, NEW t, t = me'.turn,
             NEW i \in Requests(t)', NEW a, a = Of(i)'
      PROVE  Attached(a)'
  <2>1. ~ Delegates
    BY <1>2 DEF Delegates
  <2>2. i \in Requests(t) /\ i \in Positions("requested") /\ log[i].turn = t /\ a = Of(i)
    BY <1>2, <2>1, Views DEF Requests
  <2>3. \A j \in Positions("requested") :
          log[j].turn = t /\ i < j => Attached(a)
    BY <1>0, <2>2 DEF RequestsInv
  <2>4. i \in Nat /\ \A j \in Positions("requested") : j \in Nat /\ (i < j \/ j < i \/ i = j)
    BY <1>0, <2>2 DEF Positions
  <2>5. CASE Accepts
    <3>1. t = me.turn /\ Accepted = 1 .. t - 1
      BY <1>0, <1>2, <2>5 DEF Accepts, Same, TurnInv
    <3>2. log[i].turn \in Accepted
      BY <1>0, <2>2 DEF TurnInv, Positions
    <3> QED
      BY <2>2, <3>1, <3>2
  <2>6. CASE AsksModel \/ Rejects \/ Quiet
    <3>1. me.at \in {"provider", "model"} /\ me'.turn = me.turn
      BY <1>2, <2>6 DEF AsksModel, Rejects, Quiet, Same
    <3> QED
      BY <1>0, <1>1, <1>2, <2>2, <3>1 DEF AttemptInv
  <2>7. CASE Attaches \/ AttachesFound
    <3>1. me'.turn = me.turn
      BY <2>7 DEF Attaches, AttachesFound, Picks, Same
    <3>2. PICK j \in Positions("requested") : Of(j) = <<me.turn, me'.n>>
      BY <2>7, AttachTarget
    <3>3. ~ Attached(Of(j)) /\ log[j].turn = me.turn
      BY <2>7, <3>2, AttachTarget DEF Of
    <3>4. CASE i = j
      BY <2>2, <2>7, <3>2, <3>4, Views
    <3>5. CASE i < j
      BY <1>1, <1>2, <2>3, <3>1, <3>3, <3>5
    <3>6. CASE j < i
      BY <1>0, <1>2, <2>2, <3>1, <3>3, <3>6 DEF RequestsInv
    <3> QED
      BY <2>4, <3>4, <3>5, <3>6
  <2>8. CASE GoesOn
    <3> DEFINE j == Next_i
    <3>1. /\ j \in Positions("requested") /\ Candidate(j) /\ Attached(Of(j)) /\ Mine(j)
          /\ me'.turn = me.turn
      BY <1>0, <2>8, NextCandidate DEF GoesOn, Picks
    <3> HIDE DEF j
    <3>2. i <= j
      BY <1>2, <2>2, <3>1 DEF Candidate, Mine
    <3>3. CASE i = j
      BY <1>1, <2>2, <3>1, <3>3
    <3>4. CASE i # j
      <4>1. i < j
        BY <2>4, <3>1, <3>2, <3>4
      <4> QED
        BY <1>1, <1>2, <2>3, <3>1, <4>1 DEF Mine
    <3> QED
      BY <3>3, <3>4
  <2>9. CASE \/ Begins \/ Resumes \/ Leaves \/ Delegates \/ Ends \/ Passes \/ Creates \/ Runs
             \/ Returns \/ EndsChild \/ CreatesOnce
    BY <1>2, <2>9 DEF Begins, Resumes, Leaves, Delegates, Ends, Passes, Passages, Creates, Runs,
                      Returns, EndsChild, CreatesOnce, Picks, Away, Idle
  <2> QED
    BY <2>5, <2>6, <2>7, <2>8, <2>9 DEF Change
<1>3. me'.at \in {"provider", "model"} => \A i \in Requests(me.turn)' : Attached(Of(i))'
  <2> SUFFICES ASSUME me'.at \in {"provider", "model"}, NEW i \in Requests(me.turn)'
               PROVE  Attached(Of(i))'
    OBVIOUS
  <2>1. \A t : t = me'.turn => i \in Requests(t)'
    BY DEF Requests
  <2>2. \A a : a = Of(i)' => Attached(a)'
    BY <1>2, <2>1
  <2> QED
    BY <2>2 DEF Attached
\* The attempt in hand stays the same while its child is asked for and runs.
<1>4. ASSUME me'.at \in Handing, ~ Delegates, ~ CreatesOnce
      PROVE  /\ me.at \in Handing /\ me_a' = me_a
             /\ \/ Quiet \/ Creates \/ Runs \/ Returns
                \/ Passes
  <2>1. Quiet \/ Creates \/ Runs \/ Returns \/ Passes
    BY <1>4 DEF Change, Begins, Resumes, Leaves, Accepts, AsksModel, Rejects, Ends, Attaches,
                EndsChild, AttachesFound, GoesOn, Picks, Away, Idle, Handing
  <2>2. me'.turn = me.turn /\ me'.n = me.n
    BY <2>1 DEF Quiet, Creates, Runs, Returns, Passes, Same
  <2>3. me.at \in Handing
    BY <1>4, <2>1 DEF Quiet, Creates, Runs, Returns, Passes, Passages, Handing
  <2> QED
    BY <2>1, <2>2, <2>3 DEF me_a
<1>5. ASSUME me'.at \in Handing, NEW a, a = me_a'
      PROVE  ~ Attached(a)' /\ \E i \in Positions("requested")' : Of(i)' = a
  <2>1. CASE Delegates
    <3>1. a = <<me.turn, me'.n>> /\ ~ Attached(a)
      BY <1>5, <2>1, FreshAttempt DEF Delegates, me_a
    <3>2. ~ Attached(a)'
      BY <2>1, <3>1, Views DEF Delegates, Attaches, AttachesFound, Picks
    <3>3. PICK e \in Event : WritesEvent(e)
      <4>1. Len(log') = Len(log) + 1 /\ Len(log) \in Nat
        BY <1>0, <2>1 DEF Delegates, Write
      <4>2. log' # log
        BY <4>1
      <4> QED
        BY <4>2, Journalled
    <3>4. e.kind = "requested" /\ e.n = me'.n /\ e.turn = me.turn /\ log' = Append(log, e)
      BY <2>1, <3>3 DEF WritesEvent, Accepts, AsksModel, Rejects, Delegates, Ends, Attaches,
                        AttachesFound, Picks, Away, Idle
    <3>5. Positions("requested")' = Positions("requested") \cup {Len(log) + 1}
      BY <1>0, <3>4, Appending
    <3>6. \A i : i = Len(log) + 1 => Of(i)' = a
      BY <1>0, <3>1, <3>4, Appending
    <3> QED
      BY <3>2, <3>5, <3>6
  <2>2. CASE CreatesOnce
    <3>1. Next_i \in Positions("requested") /\ a = Of(Next_i) /\ kid[Of(Next_i)].at = "absent"
      BY <1>0, <1>5, <2>2, NextCandidate DEF CreatesOnce, Picks, Mine, Of, me_a
    <3>2. a \in Attempt /\ kid[a].receipt = "none"
      BY <1>0, <3>1 DEF RequestsInv, HandoffInv, ChildInv
    <3>3. ~ Attached(a)
      BY <1>0, <3>2 DEF Attached, AttachedFromReceipt
    <3> QED
      BY <2>2, <3>1, <3>3, Views DEF CreatesOnce, Picks, Delegates, Attaches, AttachesFound
  <2>3. CASE ~ Delegates /\ ~ CreatesOnce
    <3>1. me.at \in Handing /\ a = me_a /\ ~ Attaches /\ ~ AttachesFound
      BY <1>4, <1>5, <2>3 DEF Attaches, AttachesFound, Picks, Handing
    <3> QED
      BY <1>0, <2>3, <3>1, Views DEF AttemptInv
  <2> QED
    BY <2>1, <2>2, <2>3
<1>6. me'.at \in Handing =>
        ~ Attached(me_a)' /\ \E i \in Positions("requested")' : Of(i)' = me_a'
  <2> SUFFICES ASSUME me'.at \in Handing
               PROVE  ~ Attached(me_a)' /\ \E i \in Positions("requested")' : Of(i)' = me_a'
    OBVIOUS
  <2>1. \A a : a = me_a' => ~ Attached(a)' /\ \E i \in Positions("requested")' : Of(i)' = a
    BY <1>5
  <2> QED
    BY <2>1 DEF Attached
<1>7. ASSUME me'.at \in {"lend", "create"} PROVE Kid'.at = "absent"
  <2>1. CASE Delegates
    BY <2>1, FreshAttempt DEF Delegates, Kid, me_a
  <2>2. CASE CreatesOnce
    BY <2>2 DEF CreatesOnce, Picks, Mine, Kid, me_a, Of
  <2>3. CASE ~ Delegates /\ ~ CreatesOnce
    <3>1. me.at \in {"lend", "create"} /\ me_a' = me_a /\ kid' = kid
      BY <1>4, <1>7, <2>3 DEF Handing, Quiet, Creates, Runs, Returns, Passes, Passages, KeepJournals
    <3> QED
      BY <1>0, <3>1 DEF AttemptInv, Kid
  <2> QED
    BY <2>1, <2>2, <2>3
<1>8. ASSUME me'.at \in {"enqueue", "child"}
      PROVE  /\ me'.at = "enqueue" => Kid'.at = "created"
             /\ me'.at = "child" => Kid'.at \in {"created", "manifested", "active"}
  <2>1. ~ Delegates /\ ~ CreatesOnce
    BY <1>8 DEF Delegates, CreatesOnce, Picks
  <2>2. /\ me.at \in Handing /\ me_a' = me_a
        /\ Quiet \/ Creates \/ Runs \/ Returns \/ Passes
    BY <1>4, <1>8, <2>1 DEF Handing
  <2>3. me_a \in Attempt /\ Kid \in Child /\ Kid = kid[me_a] /\ Kid' = kid'[me_a]
    BY <2>2, HandedAttempt DEF Kid
  <2>4. CASE Quiet \/ Passes
    BY <1>0, <1>8, <2>3, <2>4 DEF AttemptInv, Quiet, Passes, Passages, KeepJournals
  <2>5. CASE Creates
    BY <1>0, <1>8, <2>3, <2>5 DEF AttemptInv, Creates, SetKid, Child
  <2>6. CASE Runs
    <3>1. me'.at = "child" /\ Kid.at \in {"created", "manifested", "active"}
      BY <1>0, <2>6 DEF AttemptInv, Runs
    <3>2. \A value : kid' = [kid EXCEPT ![me_a] = value] => kid'[me_a] = value
      BY <1>0, <2>3
    <3>3. /\ [Kid EXCEPT !.at = "manifested"].at = "manifested"
          /\ [Kid EXCEPT !.at = "active"].at = "active"
          /\ [Kid EXCEPT !.effect = "started"].at = Kid.at
          /\ [Kid EXCEPT !.effect = "done"].at = Kid.at
      BY <2>3 DEF Child
    <3>4. Kid'.at \in {"created", "manifested", "active"}
      BY <2>3, <2>6, <3>1, <3>2, <3>3 DEF Runs, SetKid
    <3> QED
      BY <3>1, <3>4
  <2>7. CASE Returns
    BY <1>8, <2>7 DEF Returns
  <2> QED
    BY <2>2, <2>4, <2>5, <2>6, <2>7
<1> QED
  BY <1>3, <1>6, <1>7, <1>8 DEF AttemptInv


\* The provider is asked again only behind a result or a refusal.
LEMMA ProviderKept ==
  ASSUME HandoffInv, Control, Control', Change
  PROVE  ProviderInv'
<1>0. /\ log \in Seq(Event) /\ ProviderInv /\ TurnInv /\ AttachedFromReceipt /\ RequestsInv
      /\ Len(log) \in Nat /\ Types /\ me \in Process
      /\ Positions("provider") \subseteq 1 .. Len(log)
  BY DEF HandoffInv, Types, Control, Positions
<1>1. CASE UNCHANGED log
  <2>1. /\ Positions("provider")' = Positions("provider")
        /\ \A i, last : Answered(i, last)' <=> Answered(i, last)
    BY <1>1, SameLog DEF Answered
  <2>2. ASSUME me'.at = "provider", NEW i \in Positions("provider"), log[i].turn = me'.turn
        PROVE  Answered(i, Len(log))
    <3>1. CASE Quiet
      BY <1>0, <2>2, <3>1 DEF ProviderInv, Quiet, Same
    <3>2. CASE GoesOn
      <4> DEFINE j == Next_i
      <4>1. /\ j \in Positions("requested") /\ j \in 1 .. Len(log)
            /\ Attached(Of(j)) /\ ~ Continued(j)
        BY <1>0, <3>2, NextCandidate DEF GoesOn, Picks
      <4> HIDE DEF j
      <4>2. PICK k \in Positions("attached") : Of(k) = Of(j)
        BY <4>1 DEF Attached
      <4>3. PICK m \in Positions("requested") : m < k /\ Of(m) = Of(k)
        BY <1>0, <4>2 DEF AttachedFromReceipt
      <4>4. m = j
        BY <1>0, <4>1, <4>2, <4>3 DEF RequestsInv
      <4>5. k \in 1 .. Len(log) /\ log[k].kind = "attached" /\ i \in 1 .. Len(log)
            /\ log[i].kind = "provider"
        BY <4>2 DEF Positions, Is
      <4>6. CASE i > k
        <5>1. i \in j + 1 .. Len(log) /\ k \in j + 1 .. i - 1
          BY <1>0, <4>1, <4>3, <4>4, <4>5, <4>6
        <5>2. Continued(j)
          BY <4>2, <4>5, <5>1 DEF Continued, Is
        <5> QED
          BY <4>1, <5>2
      <4>7. CASE i <= k
        <5>1. i # k
          BY <4>5
        <5>2. k \in i + 1 .. Len(log)
          BY <1>0, <4>5, <4>7, <5>1
        <5> QED
          BY <4>5, <5>2 DEF Answered
      <4> QED
        BY <4>5, <4>6, <4>7
    <3>3. CASE Accepts \/ Rejects \/ Attaches \/ AttachesFound
      <4>1. \E e : log' = Append(log, e)
        BY <3>3 DEF Accepts, Rejects, Attaches, AttachesFound, Write
      <4> QED
        BY <1>0, <1>1, <4>1
    <3>4. CASE \/ Begins \/ Resumes \/ Leaves \/ AsksModel \/ Delegates \/ Ends \/ Passes \/ Creates
               \/ Runs \/ Returns \/ EndsChild \/ CreatesOnce
      BY <2>2, <3>4 DEF Begins, Resumes, Leaves, AsksModel, Delegates, Ends, Passes, Passages,
                        Creates, Runs, Returns, EndsChild, CreatesOnce, Picks, Away, Idle
    <3> QED
      BY <3>1, <3>2, <3>3, <3>4 DEF Change
  <2> QED
    BY <1>0, <1>1, <2>1, <2>2 DEF ProviderInv
<1>2. ASSUME NEW e \in Event, WritesEvent(e) PROVE ProviderInv'
  <2> DEFINE new == Len(log) + 1
  <2>1. log' = Append(log, e) /\ e.turn = me.turn
    BY <1>2 DEF WritesEvent
  <2>2. /\ \A i \in 1 .. Len(log) : log'[i] = log[i]
        /\ log'[new] = e /\ Len(log') = new
        /\ Positions("provider")' =
             IF e.kind = "provider" THEN Positions("provider") \cup {new} ELSE Positions("provider")
    BY <1>0, <2>1, Appending
  <2>3. new \in Nat /\ new - 1 = Len(log) /\ \A i \in 1 .. Len(log) : i < new /\ new \in i + 1 .. new
    BY <1>0
  <2>4. ASSUME NEW i \in 1 .. Len(log), NEW last \in 0 .. Len(log)
        PROVE  Answered(i, last)' <=> Answered(i, last)
    BY <1>0, <2>2 DEF Answered
  <2>5. me'.at = "provider" => Accepts \/ Rejects \/ Attaches \/ AttachesFound
    BY <1>2 DEF WritesEvent, AsksModel, Delegates, Ends, Away, Idle
  <2> HIDE DEF new
  <2>6. ASSUME me'.at = "provider", NEW i \in Positions("provider")', log'[i].turn = me'.turn,
               NEW last, last = new
        PROVE  Answered(i, last)'
    <3>1. e.kind \in {"accepted", "rejected", "attached"} /\ me'.turn = me.turn
      BY <1>2, <2>5, <2>6 DEF WritesEvent, Accepts, AsksModel, Rejects, Delegates, Ends, Attaches,
                              AttachesFound, Picks, Same, Away, Idle
    <3>2. i \in 1 .. Len(log) /\ log[i].turn = me.turn
      <4>1. i \in Positions("provider")
        BY <2>2, <2>6, <3>1
      <4> QED
        BY <1>0, <2>2, <2>6, <3>1, <4>1
    <3>3. CASE e.kind \in {"rejected", "attached"}
      BY <2>2, <2>3, <2>6, <3>2, <3>3 DEF Answered
    <3>4. CASE e.kind = "accepted"
      <4>1. me.at = "accept"
        BY <1>2, <3>4 DEF WritesEvent, Accepts
      <4>2. Accepted = 1 .. me.turn - 1 /\ log[i].turn \in Accepted
        BY <1>0, <3>2, <4>1 DEF TurnInv
      <4> QED
        BY <3>2, <4>2
    <3> QED
      BY <3>1, <3>3, <3>4
  <2>7. ASSUME NEW i \in Positions("provider")', NEW j \in Positions("provider")', i < j,
               log'[i].turn = log'[j].turn
        PROVE  Answered(i, j - 1)'
    <3>1. CASE j \in Positions("provider")
      <4>1. i \in Positions("provider")
        BY <1>0, <2>2, <2>3, <2>7, <3>1
      <4>2. i \in 1 .. Len(log) /\ j \in 1 .. Len(log) /\ j - 1 \in 0 .. Len(log)
        BY <1>0, <3>1, <4>1
      <4>3. log[i].turn = log[j].turn
        BY <2>2, <2>7, <4>2
      <4>4. Answered(i, j - 1)
        BY <1>0, <2>7, <3>1, <4>1, <4>3 DEF ProviderInv
      <4> QED
        BY <2>4, <4>2, <4>4
    <3>2. CASE j = new
      <4>1. e.kind = "provider" /\ AsksModel /\ i \in Positions("provider") /\ i \in 1 .. Len(log)
        <5>1. j \notin 1 .. Len(log)
          BY <1>0, <2>3, <3>2
        <5>2. e.kind = "provider"
          BY <1>0, <2>2, <2>7, <5>1
        <5>3. i \in Positions("provider")
          BY <2>2, <2>3, <2>7, <3>2, <5>2
        <5> QED
          BY <1>0, <1>2, <5>2, <5>3 DEF WritesEvent
      <4>2. log[i].turn = me.turn /\ me.at = "provider"
        BY <2>1, <2>2, <2>7, <3>2, <4>1 DEF AsksModel
      <4>3. Answered(i, Len(log))
        BY <1>0, <4>1, <4>2 DEF ProviderInv
      <4>4. Len(log) \in 0 .. Len(log)
        BY <1>0
      <4>5. \A last : last = Len(log) => Answered(i, last)'
        BY <2>4, <4>1, <4>3, <4>4
      <4> QED
        BY <2>3, <3>2, <4>5
    <3> QED
      BY <2>2, <2>7, <3>1, <3>2
  <2>8. \A i \in Positions("provider")' : log'[i].turn = me'.turn /\ me'.at = "provider" =>
          Answered(i, Len(log))'
    <3> SUFFICES ASSUME me'.at = "provider", NEW i \in Positions("provider")',
                        log'[i].turn = me'.turn
                 PROVE  Answered(i, Len(log))'
      OBVIOUS
    <3>1. \A last : last = Len(log') => Answered(i, last)'
      BY <2>2, <2>6
    <3> QED
      BY <3>1 DEF Answered
  <2> QED
    BY <2>7, <2>8 DEF ProviderInv
<1> QED
  BY <1>1, <1>2, Journalled


\* The history stays readable, but behind an attempt that its turn left open.
LEMMA ClosedKept ==
  ASSUME HandoffInv, Control, Control', Change
  PROVE  ClosedInv'
<1>0. /\ log \in Seq(Event) /\ ClosedInv /\ TurnInv /\ AttachedFromReceipt /\ RequestsInv
      /\ AttemptInv /\ Len(log) \in Nat /\ Positions("requested") \subseteq 1 .. Len(log)
  BY DEF HandoffInv, Types, Positions
<1>1. CASE UNCHANGED log
  <2>1. /\ Positions("requested")' = Positions("requested") /\ EndedTurns' = EndedTurns
        /\ \A a : Attached(a)' <=> Attached(a)
        /\ \A i : Of(i)' = Of(i)
        /\ \A i, j : ClosedBefore(i, j)' <=> ClosedBefore(i, j)
    BY <1>1, SameLog DEF ClosedBefore, Is, Of
  <2>2. \A i : Attached(Of(i))' <=> Attached(Of(i))
    BY <1>1 DEF Attached, Positions, Is, Of
  <2> QED
    BY <1>0, <1>1, <2>1, <2>2 DEF ClosedInv
<1>2. ASSUME NEW e \in Event, WritesEvent(e) PROVE ClosedInv'
  <2> DEFINE new == Len(log) + 1
  <2>1. log' = Append(log, e) /\ e.turn = me.turn
    BY <1>2 DEF WritesEvent
  <2>2. /\ \A i \in 1 .. Len(log) : log'[i] = log[i] /\ Of(i)' = Of(i)
        /\ log'[new] = e
        /\ Positions("requested")' =
             IF e.kind = "requested" THEN Positions("requested") \cup {new}
                                     ELSE Positions("requested")
    BY <1>0, <2>1, Appending
  <2>3. EndedTurns \subseteq EndedTurns'
    BY <1>0, <2>1, AppendingViews
  <2>4. new \in Nat /\ new - 1 = Len(log) /\ \A i \in 1 .. Len(log) : i < new /\ ~ (new < i)
    BY <1>0
  <2>5. \A i, j \in 1 .. Len(log) : ClosedBefore(i, j) => ClosedBefore(i, j)'
    BY <1>0, <2>2 DEF ClosedBefore, Is
  <2> HIDE DEF new
  \* An attempt of an ended turn is attached no more.
  <2>6. ASSUME NEW i \in Positions("requested"), NEW a, a = Of(i)',
               log[i].turn \in EndedTurns, ~ Attached(Of(i))
        PROVE  ~ Attached(a)'
    <3>1. a = Of(i) /\ log[i].turn \notin Active
      BY <1>0, <2>2, <2>6 DEF Active
    <3>2. Attaches \/ AttachesFound => me.turn \in Active
      BY <1>0 DEF Attaches, AttachesFound, Picks, TurnInv, Idle
    <3>3. Attaches \/ AttachesFound => a # <<me.turn, me'.n>>
      BY <3>1, <3>2 DEF Of
    <3> QED
      BY <2>6, <3>1, <3>3, Views
  <2>7. ASSUME NEW i \in Positions("requested")', NEW j \in Positions("requested")', i < j,
               ~ ClosedBefore(i, j)', NEW a, a = Of(i)'
        PROVE  log'[i].turn \in EndedTurns' /\ ~ Attached(a)'
    <3>1. i \in Positions("requested") /\ i \in 1 .. Len(log)
      <4>1. j \in 1 .. Len(log) \/ j = new
        BY <1>0, <2>2
      <4> QED
        BY <1>0, <2>2, <2>4, <2>7, <4>1
    <3>2. log'[i].turn = log[i].turn /\ Of(i)' = Of(i)
      BY <2>2, <3>1
    <3>3. CASE j \in Positions("requested")
      <4>1. ~ ClosedBefore(i, j)
        BY <1>0, <2>5, <2>7, <3>1, <3>3
      <4>2. log[i].turn \in EndedTurns /\ ~ Attached(Of(i))
        BY <1>0, <2>7, <3>1, <3>3, <4>1 DEF ClosedInv
      <4> QED
        BY <2>3, <2>6, <2>7, <3>1, <3>2, <4>2
    <3>4. CASE j \notin Positions("requested")
      <4>1. j = new /\ Delegates
        BY <1>2, <2>2, <2>7, <3>4 DEF WritesEvent
      <4>2. ~ Attached(Of(i))
        <5> SUFFICES ASSUME Attached(Of(i)) PROVE FALSE
          OBVIOUS
        <5>1. PICK k \in Positions("attached") : Of(k) = Of(i)
          BY DEF Attached
        <5>2. PICK m \in Positions("requested") : m < k /\ Of(m) = Of(k)
          BY <1>0, <5>1 DEF AttachedFromReceipt
        <5>3. m = i
          BY <1>0, <3>1, <5>1, <5>2 DEF RequestsInv
        <5>4. k \in 1 .. Len(log) /\ log[k].kind = "attached"
          BY <5>1 DEF Positions, Is
        <5>5. k \in i + 1 .. j - 1 /\ log'[k].kind = "attached" /\ Of(k)' = Of(i)'
          BY <1>0, <2>2, <2>4, <3>1, <3>2, <4>1, <5>1, <5>2, <5>3, <5>4
        <5>6. ClosedBefore(i, j)'
          BY <5>5 DEF ClosedBefore, Is
        <5> QED
          BY <2>7, <5>6
      <4>3. log[i].turn # me.turn
        BY <1>0, <3>1, <4>1, <4>2 DEF AttemptInv, Delegates, Requests
      <4>4. me.turn \in Active /\ log[i].turn \in Accepted
        BY <1>0, <3>1, <4>1 DEF Delegates, TurnInv, Idle
      <4>5. log[i].turn \in EndedTurns
        BY <1>0, <4>3, <4>4 DEF TurnInv, Active
      <4> QED
        BY <2>3, <2>6, <2>7, <3>1, <3>2, <4>2, <4>5
    <3> QED
      BY <3>3, <3>4
  <2>8. ASSUME NEW i \in Positions("requested")', NEW j \in Positions("requested")', i < j,
               ~ ClosedBefore(i, j)'
        PROVE  log'[i].turn \in EndedTurns' /\ ~ Attached(Of(i))'
    <3>1. \A a : a = Of(i)' => log'[i].turn \in EndedTurns' /\ ~ Attached(a)'
      BY <2>7, <2>8
    <3> QED
      BY <3>1 DEF Attached
  <2> QED
    BY <2>8 DEF ClosedInv
<1> QED
  BY <1>1, <1>2, Journalled

-----------------------------------------------------------------------------
(* The theorems of the handoff.                                            *)

\* The session is new, no child exists, and the process waits for a command.
LEMMA HandoffInitInv == HandoffInit => HandoffInv
<1> SUFFICES ASSUME HandoffInit PROVE HandoffInv
  OBVIOUS
<1>1. /\ log = <<>> /\ kid = [a \in Attempt |-> NoChild] /\ ran = [a \in Attempt |-> 0]
      /\ me = Ready /\ runtime = 1 /\ faults = 0 /\ Init
  BY DEF HandoffInit
<1>2. Inv
  BY <1>1, InitInv
<1>3. log \in Seq(Event) /\ Len(log) = 0
  BY <1>1
<1>4. \A kind : Positions(kind) = {}
  BY <1>3 DEF Positions
<1>5. Accepted = {} /\ EndedTurns = {} /\ Active = {}
  BY <1>4 DEF Accepted, EndedTurns, Active
<1>6. MaxTurns \in Nat /\ MaxFaults \in Nat
  BY HandoffAssumption
<1>7. me \in Process /\ me.at = "ready" /\ me.turn = 0 /\ ~ me.dispatched
  <2>1. 0 \in 0 .. MaxTurns
    BY <1>6
  <2>2. [Stopped EXCEPT !.at = "ready"] \in Process
    BY <2>1 DEF Stopped, Process, Places, Stages
  <2> QED
    BY <1>1, <2>2 DEF Ready, Stopped
<1>8. NoChild \in Child
  BY DEF NoChild, Child, Receipt
<1>9. Types
  BY <1>1, <1>3, <1>6, <1>7, <1>8 DEF Types, HandoffTypeOK
<1>10. PlaceInv
  <2>1. pc[parent] = "idle" /\ pc[child] = "idle"
    BY <1>1, Parents DEF Init
  <2> QED
    BY <1>7, <2>1 DEF PlaceInv, Idle
<1>11. TurnInv
  <2>1. 0 \in 0 .. MaxTurns /\ 1 .. 0 = {}
    BY <1>6
  <2> QED
    BY <1>3, <1>5, <1>7, <2>1 DEF TurnInv, Idle
<1>12. \A a \in Attempt : kid[a] = NoChild /\ ran[a] = 0
  BY <1>1
<1>13. RequestsInv
  <2>1. \A t : Requests(t) = {}
    BY <1>4 DEF Requests
  <2> QED
    BY <1>4, <1>12, <2>1 DEF RequestsInv, NoChild
<1>14. AttemptInv
  BY <1>7 DEF AttemptInv, Handing
<1>15. ChildInv
  BY <1>7, <1>12 DEF ChildInv, NoChild
<1>16. AttachedFromReceipt /\ ClosedInv
  BY <1>4 DEF AttachedFromReceipt, ClosedInv
<1>17. ProviderInv
  BY <1>4, <1>7 DEF ProviderInv
<1> QED
  BY <1>2, <1>9, <1>10, <1>11, <1>13, <1>14, <1>15, <1>16, <1>17
  DEF HandoffInv

\* The parts hold each other up: no part is kept without the others.
LEMMA HandoffNextInv == HandoffInv /\ [HandoffNext]_hvars => HandoffInv'
<1> SUFFICES ASSUME HandoffInv, [HandoffNext]_hvars PROVE HandoffInv'
  OBVIOUS
<1>1. Control /\ Types /\ TurnInv
  BY DEF HandoffInv, Types, HandoffTypeOK, Control
<1>2. CASE HandoffNext
  <2>1. Control' /\ Change
    BY <1>1, <1>2, EveryStep
  <2> QED
    BY <1>1, <2>1, TypesKept, TurnKept, RequestsKept, AttemptKept, ChildKept, AttachedKept,
       ProviderKept, ClosedKept DEF HandoffInv, Control
<1>3. CASE UNCHANGED hvars
  <2>1. Quiet /\ UNCHANGED lane /\ UNCHANGED <<me, runtime, faults>>
    BY <1>3 DEF hvars, Quiet, KeepJournals, Same, lane
  <2>2. Inv' /\ PlaceInv'
    BY <1>1, <2>1, QuietInv, PlaceKept DEF Control, lane
  <2>3. Control' /\ Change
    BY <1>1, <2>1, <2>2 DEF Control, Change
  <2> QED
    BY <1>1, <2>3, TypesKept, TurnKept, RequestsKept, AttemptKept, ChildKept, AttachedKept,
       ProviderKept, ClosedKept DEF HandoffInv, Control
<1> QED
  BY <1>2, <1>3

LEMMA HandoffAlways == HandoffSpec => []HandoffInv
BY HandoffInitInv, HandoffNextInv, PTL DEF HandoffSpec

\* Journals, child journals and the state of the process keep their types: no
\* command writes an event of no turn, and a mutation runs at most once.
THEOREM HandoffTypeCorrect == HandoffSpec => []HandoffTypeOK
<1>1. HandoffInv => HandoffTypeOK
  BY DEF HandoffInv, Types
<1> QED
  BY HandoffAlways, <1>1, PTL

\* RunChild and reconcileWaitingSubagents: whatever stops and recoveries lie
\* between, the mutation of a child takes place at most once, and the provider is
\* not asked twice about the same results.
THEOREM HandedOffOnce == HandoffSpec => []DelegatedOnce
<1>1. HandoffInv => DelegatedOnce
  <2> SUFFICES ASSUME HandoffInv PROVE DelegatedOnce
    OBVIOUS
  <2>1. \A a \in Attempt : ran[a] <= 1
    BY DEF HandoffInv, Types, HandoffTypeOK
  <2>2. ProviderInv
    BY DEF HandoffInv
  <2> QED
    BY <2>1, <2>2 DEF DelegatedOnce, ProviderInv, Answered
<1> QED
  BY HandoffAlways, <1>1, PTL

\* attachSubagentReceipt: a result is attached once, from the receipt that the
\* journal of the child holds, and behind the request it answers.
THEOREM ReceiptsOnly == HandoffSpec => []AttachedFromReceipt
<1>1. HandoffInv => AttachedFromReceipt
  BY DEF HandoffInv
<1> QED
  BY HandoffAlways, <1>1, PTL

\* Projector.Apply refuses a parent journal only when recovery left an attempt of
\* an ended turn open, or a turn asked for more children than its limit allows.
THEOREM RefusedBehindRecovery == HandoffSpec => []RefusedOnlyBehindRecovery
<1>1. HandoffInv => RefusedOnlyBehindRecovery
  <2> SUFFICES ASSUME HandoffInv, ~ Abandoned PROVE Replayable
    BY DEF RefusedOnlyBehindRecovery
  <2>1. log \in Seq(Event) /\ Len(log) \in Nat
    BY DEF HandoffInv, Types
  <2>2. ASSUME NEW j \in Positions("requested"), NEW i \in Positions("requested"), i < j
        PROVE  ClosedBefore(i, j)
    BY <2>2 DEF HandoffInv, ClosedInv, Abandoned
  <2>3. ASSUME NEW j \in Positions("requested")
        PROVE  Cardinality({i \in Requests(log[j].turn) : i < j}) < ProtocolMax
    <3> DEFINE t == log[j].turn
               before == {i \in Requests(t) : i < j}
    <3>1. j \in 1 .. Len(log) /\ j \in Requests(t)
      BY DEF Positions, Requests
    <3>2. t \in Turn
      <4>1. log[j] \in Event
        BY <2>1, <3>1
      <4> QED
        BY <4>1 DEF Event
    <3>3. IsFiniteSet(Requests(t)) /\ Cardinality(Requests(t)) \in Nat
      BY <2>1, RequestsFinite
    <3>4. Cardinality(Requests(t)) <= MaxPerTurn
      <4>1. ~ (Cardinality(Requests(t)) > MaxPerTurn)
        BY <3>2 DEF Abandoned
      <4> QED
        BY <3>3, <4>1, HandoffAssumption
    <3>5. before \in SUBSET Requests(t) /\ j \notin before
      BY <2>1, <3>1
    <3> HIDE DEF t, before
    <3>6. /\ IsFiniteSet(before) /\ Cardinality(before) <= Cardinality(Requests(t))
          /\ Cardinality(before) = Cardinality(Requests(t)) => before = Requests(t)
      BY <3>3, <3>5, FS_Subset
    <3>7. Cardinality(before) \in Nat
      BY <3>6, FS_CardinalityType
    <3>8. Cardinality(before) < Cardinality(Requests(t))
      BY <3>1, <3>3, <3>5, <3>6, <3>7
    <3>9. Cardinality(before) < ProtocolMax
      BY <3>3, <3>4, <3>7, <3>8, HandoffAssumption
    <3> QED
      BY <3>9 DEF before, t
  <2> QED
    BY <2>2, <2>3 DEF Replayable
<1> QED
  BY HandoffAlways, <1>1, PTL

\* The lane inside a handoff: the parent that lends its slot, the child that takes
\* it and a stop of the process neither lose the slot nor give it to two.
THEOREM HandoffLaneSound == HandoffSpec => []LaneIsSound
<1>1. HandoffInv => LaneIsSound
  BY DEF HandoffInv, Inv, LaneIsSound
<1> QED
  BY HandoffAlways, <1>1, PTL

\* ProjectReceipt: once a child journal holds a receipt, no restart, no recovery
\* and no second creation of the child changes anything in it.
ReceiptsAreFinal ==
  [][ \A a \in Attempt : kid[a].receipt # "none" => kid'[a] = kid[a] ]_hvars

\* So what the parent attached stays what the child journal says of the attempt.
THEOREM FinalReceipts == HandoffSpec => ReceiptsAreFinal
<1>1. HandoffInv /\ [HandoffNext]_hvars =>
        [\A a \in Attempt : kid[a].receipt # "none" => kid'[a] = kid[a]]_hvars
  <2> SUFFICES ASSUME HandoffInv, HandoffNext
               PROVE  \A a \in Attempt : kid[a].receipt # "none" => kid'[a] = kid[a]
    OBVIOUS
  <2>1. Control /\ Types /\ TurnInv
    BY DEF HandoffInv, Types, HandoffTypeOK, Control
  <2>2. Change
    BY <2>1, EveryStep
  <2> QED
    BY <2>1, <2>2, ReceiptsStay
<1> QED
  BY HandoffAlways, <1>1, PTL DEF HandoffSpec, ReceiptsAreFinal

=============================================================================
