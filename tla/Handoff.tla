------------------------------ MODULE Handoff ------------------------------
(***************************************************************************)
(* The handoff between a parent turn and a sequential child session:       *)
(* orchestrator/subagent.go asks for the child and attaches its receipt,   *)
(* child_coordinator.go runs it, and reconcileWaitingSubagents of          *)
(* recovery.go repairs at the next start what a stop left half done, by    *)
(* the projection of internal/subagent.                                    *)
(*                                                                         *)
(* Two journals decide: the parent's (log) and one of each child.  The     *)
(* parent lends its slot of the operation lane while the child runs, so    *)
(* the lane's own steps are steps here.  A transaction is one step; a stop *)
(* may fall between any two.  The authorization of the delegation, its     *)
(* evidence and the conflicts a forged journal would show are left out.    *)
(***************************************************************************)
EXTENDS Lane, FiniteSets

CONSTANTS
  parent, child,  \* the claims of the parent turn (or its recovery) and of the child
  MaxTurns,       \* bound: turns of the parent session
  Asks,           \* bound: turn -> the delegations the model asks for in it
  MaxPerTurn,     \* Limits.Subagents.MaxPerTurn
  ProtocolMax,    \* protocol.MaxSubagentAttemptsPerTurn
  MaxFaults       \* bound: stops, cancellations, failed calls and reloads

ASSUME HandoffAssumption ==
  /\ {parent, child} \subseteq Operation /\ parent # child
  /\ {MaxTurns, MaxPerTurn, ProtocolMax, MaxFaults} \subseteq Nat
  /\ MaxPerTurn <= ProtocolMax
  /\ Asks \in [1 .. MaxTurns -> Nat]

Others == Operation \ {parent, child}

VARIABLES
  log,      \* the parent journal: its events about turns and delegations
  kid,      \* attempt -> the journal of its child session
  ran,      \* attempt -> how often the child's mutation took place
  me,       \* the process: RunTurn or RecoverTurn of the parent
  runtime,  \* the runtime generation of the process
  faults

handoff == <<log, kid, ran, me, runtime, faults>>
lane == <<held, waiters, granted, pc>>
hvars == <<log, kid, ran, me, runtime, faults, held, waiters, granted, pc>>

Turn == 1 .. MaxTurns
Attempt == UNION {{t} \X (1 .. Asks[t]) : t \in Turn}
Receipt == {"none", "succeeded", "failed", "uncertain"}   \* failed: or cancelled

Event == [kind : {"accepted", "provider", "rejected", "requested", "attached", "ended"},
          turn : Turn, n : Nat, gen : 1 .. 2]

\* A child session: "created" has its identity only, "manifested" its manifest,
\* "torn" ends in an incomplete transaction, which no recovery cuts off.
NoChild == [at |-> "absent", effect |-> "none", receipt |-> "none"]
Ended(receipt) == [at |-> "ended", effect |-> "none", receipt |-> receipt]
Child == [at : {"absent", "created", "manifested", "active", "torn", "ended"},
          effect : {"none", "started", "done"}, receipt : Receipt]

\* "live" is RunTurn; a recovery has a "first" stage, in which it may create
\* the child, and after the attachment it goes on as a "resumed" turn.
Stages == {"live", "first", "resumed"}
Places == {"down", "ready", "failed", "accept", "provider", "model", "request", "lend",
           "create", "enqueue", "child", "back", "verify", "replay", "settle"}

Process == [at : Places, stage : Stages, turn : 0 .. MaxTurns, n : Nat,
            attempts : Nat,     \* turnState.subagentAttempts
            dispatched : BOOLEAN,        \* the child's activeDispatched
            cancelled : BOOLEAN,
            seen : Nat,                  \* how far the recovery went through the log
            diagnosed : BOOLEAN]         \* SubagentRecoveryDiagnostic is set

Stopped == [at |-> "down", stage |-> "live", turn |-> 0, n |-> 0, attempts |-> 0,
            dispatched |-> FALSE, cancelled |-> FALSE, seen |-> 0,
            diagnosed |-> FALSE]
Ready == [Stopped EXCEPT !.at = "ready"]
Failed == [Stopped EXCEPT !.at = "failed"]

HandoffInit ==
  /\ Init
  /\ log = <<>>
  /\ kid = [a \in Attempt |-> NoChild]
  /\ ran = [a \in Attempt |-> 0]
  /\ me = Ready
  /\ runtime = 1
  /\ faults = 0

Fault == faults < MaxFaults /\ faults' = faults + 1
Go(place) == me' = [me EXCEPT !.at = place]

-----------------------------------------------------------------------------
(* What the parent journal says.                                           *)

Is(i, kind) == log[i].kind = kind
Positions(kind) == {i \in 1 .. Len(log) : Is(i, kind)}
Of(i) == <<log[i].turn, log[i].n>>

Accepted == {log[i].turn : i \in Positions("accepted")}
EndedTurns == {log[i].turn : i \in Positions("ended")}
Active == Accepted \ EndedTurns
Requests(t) == {i \in Positions("requested") : log[i].turn = t}
Attached(a) == \E i \in Positions("attached") : Of(i) = a
Generation(t) == log[CHOOSE i \in Positions("accepted") : log[i].turn = t].gen
GenerationOf(i) == log[i].gen

Record(kind, t, n, gen) == [kind |-> kind, turn |-> t, n |-> n, gen |-> gen]
Write(kind, n) == log' = Append(log, Record(kind, me.turn, n, Generation(me.turn)))

me_a == <<me.turn, me.n>>
Kid == kid[me_a]
Holds == pc[parent] = "running"

-----------------------------------------------------------------------------
(* The lane, as far as it moves by itself.                                 *)

\* Bound: other operations come while a child is asked for.
OthersStep ==
  /\ \E o \in Others :
       \/ me.at \in {"create", "back"} /\ Acquire(o)
       \/ Wake(o) \/ GiveUp(o) \/ Release(o)
  /\ UNCHANGED handoff

WokenUp == (Wake(parent) \/ Wake(child)) /\ UNCHANGED handoff

-----------------------------------------------------------------------------
(* The parent turn.                                                        *)

\* RunTurn waits for the lane; a turn left active refuses it the turn lease.
StartTurn ==
  /\ me.at = "ready" /\ Active = {} /\ Cardinality(Accepted) < MaxTurns
  /\ Acquire(parent)
  /\ me' = [Ready EXCEPT !.at = "accept", !.turn = Cardinality(Accepted) + 1]
  /\ UNCHANGED <<log, kid, ran, runtime, faults>>

\* Its context ends while it waits for the lane.
StartRefused ==
  /\ me.at = "accept" /\ GiveUp(parent)
  /\ me' = Ready
  /\ UNCHANGED <<log, kid, ran, runtime, faults>>

Accept ==
  /\ me.at = "accept" /\ Holds
  /\ log' = Append(log, Record("accepted", me.turn, 0, runtime))
  /\ Go("provider")
  /\ UNCHANGED <<kid, ran, runtime, faults, lane>>

\* runProviderActivity up to the dispatch of the request.
AskProvider ==
  /\ me.at = "provider" /\ Holds /\ ~ me.cancelled
  /\ Write("provider", 0)
  /\ Go("model")
  /\ UNCHANGED <<kid, ran, runtime, faults, lane>>

\* The model calls the subagent and the budget of the turn is spent.
Reject ==
  /\ me.at = "model" /\ Holds /\ ~ me.cancelled
  /\ me.attempts >= MaxPerTurn
  /\ \A i \in Positions("rejected") : log[i].turn # me.turn     \* bound: once in a turn
  /\ Write("rejected", 0)
  /\ Go("provider")
  /\ UNCHANGED <<kid, ran, runtime, faults, lane>>

\* The call is bound to a new child; request and waiting are one transaction.
RequestChild ==
  /\ me.at = "model" /\ Holds /\ ~ me.cancelled
  /\ Cardinality(Requests(me.turn)) < Asks[me.turn]
  /\ me.attempts < MaxPerTurn
  /\ LET n == Cardinality(Requests(me.turn)) + 1 IN
       /\ Write("requested", n)
       /\ me' = [me EXCEPT !.at = "lend", !.n = n, !.attempts = @ + 1]
  /\ UNCHANGED <<kid, ran, runtime, faults, lane>>

Lend ==
  /\ me.at = "lend" /\ Yield(parent)
  /\ Go("create")
  /\ UNCHANGED <<log, kid, ran, runtime, faults>>

\* completeTurn.
Complete ==
  /\ me.at = "model" /\ Holds /\ ~ me.cancelled
  /\ Write("ended", 0)
  /\ me' = Ready
  /\ Release(parent)
  /\ UNCHANGED <<kid, ran, runtime, faults>>

\* A live turn fails while no child is waited for: terminalizeTurnFailure ends it,
\* or its append fails too and the lease is abandoned.
StopTurn ==
  /\ me.at \in {"provider", "model"} /\ me.stage = "live" /\ Holds
  /\ \/ me.cancelled /\ Write("ended", 0) /\ UNCHANGED faults
     \/ Fault /\ (Write("ended", 0) \/ UNCHANGED log)
  /\ me' = Ready
  /\ Release(parent)
  /\ UNCHANGED <<kid, ran, runtime>>

Cancel ==
  /\ me.stage = "live" /\ me.at \notin {"down", "ready", "failed", "accept"} /\ ~ me.cancelled
  /\ Fault
  /\ me' = [me EXCEPT !.cancelled = TRUE]
  /\ UNCHANGED <<log, kid, ran, runtime, lane>>

-----------------------------------------------------------------------------
(* RunChild, in the callback of Yield.                                     *)

SetKid(value) == kid' = [kid EXCEPT ![me_a] = value]

\* CreateWithIdentity, which finds the session again if it has this identity.
CreateChild ==
  /\ me.at = "create"
  /\ \/ SetKid(IF Kid.at = "absent" THEN [Kid EXCEPT !.at = "created"] ELSE Kid)
        /\ Go("enqueue") /\ UNCHANGED faults
     \/ (Fault \/ (me.cancelled /\ UNCHANGED faults)) /\ Go("back") /\ UNCHANGED kid
  /\ UNCHANGED <<log, ran, runtime, lane>>

\* The child's RunTurn waits for the lane, or its context ends meanwhile.
ChildWaits ==
  \/ me.at = "enqueue" /\ Acquire(child) /\ Go("child")
     /\ UNCHANGED <<log, kid, ran, runtime, faults>>
  \/ me.at = "child" /\ GiveUp(child) /\ Go("back")
     /\ UNCHANGED <<log, kid, ran, runtime, faults>>

ChildRuns == me.at = "child" /\ pc[child] = "running"

ChildManifest ==
  /\ ChildRuns /\ Kid.at = "created"
  /\ SetKid([Kid EXCEPT !.at = "manifested"])
  /\ UNCHANGED <<log, ran, me, runtime, faults, lane>>

ChildAccept ==
  /\ ChildRuns /\ Kid.at = "manifested"
  /\ SetKid([Kid EXCEPT !.at = "active"])
  /\ UNCHANGED <<log, ran, me, runtime, faults, lane>>

\* A mutation of the child: started durably, dispatched, ended durably.
ChildEffect ==
  /\ ChildRuns /\ Kid.at = "active"
  /\ \/ Kid.effect = "none" /\ SetKid([Kid EXCEPT !.effect = "started"]) /\ UNCHANGED <<ran, me>>
     \/ /\ Kid.effect = "started" /\ ~ me.dispatched
        /\ ran' = [ran EXCEPT ![me_a] = @ + 1]
        /\ me' = [me EXCEPT !.dispatched = TRUE]
        /\ UNCHANGED kid
     \/ Kid.effect = "started" /\ me.dispatched /\ SetKid([Kid EXCEPT !.effect = "done"]) /\ UNCHANGED <<ran, me>>
  /\ UNCHANGED <<log, runtime, faults, lane>>

ChildReturns(value) ==
  /\ SetKid(value)
  /\ Release(child)
  /\ me' = [me EXCEPT !.at = "back", !.dispatched = FALSE]
  /\ UNCHANGED <<log, ran, runtime, faults>>

\* completeTurn of the child, its receipt in the terminal transaction.
ChildCompletes ==
  /\ ChildRuns /\ Kid.at = "active" /\ Kid.effect \in {"none", "done"}
  /\ ChildReturns(Ended("succeeded"))

\* ProjectReceipt reads the committed prefix: an activity that this transaction
\* ends counts as started and not ended.
ReceiptOf(status) == IF Kid.effect = "started" THEN "uncertain" ELSE status

\* The child fails, is cancelled or passes its deadline.  Before its turn is
\* accepted there is no receipt; a dispatched tool leaves its turn active.
ChildFails ==
  /\ ChildRuns
  /\ IF Kid.at # "active" \/ (Kid.effect = "started" /\ me.dispatched)
     THEN ChildReturns(Kid)
     ELSE \E status \in {"failed", "uncertain"} :
            ChildReturns(Ended(ReceiptOf(status)))

TakeBack ==
  /\ me.at = "back" /\ Reacquire(parent)
  /\ Go("verify")
  /\ UNCHANGED <<log, kid, ran, runtime, faults>>

\* The five seconds of the cleanup run out before the slot is free.
TakeBackFails ==
  /\ me.at = "verify" /\ GiveUp(parent)
  /\ UNCHANGED handoff

Certain(receipt) == receipt \in {"succeeded", "failed"}

\* An attachment of whatever RunChild returned.
AttachUnverified ==
  /\ me.at = "verify" /\ Holds /\ ~ me.cancelled
  /\ Write("attached", me.n)
  /\ me' = [me EXCEPT !.at = "provider", !.stage = IF @ = "first" THEN "resumed" ELSE @,
                      !.attempts = IF me.stage = "first" THEN 1 ELSE @]
  /\ UNCHANGED <<kid, ran, runtime, faults, lane>>

\* The receipt is read again in the child journal and attached: tool result, end
\* of the activity, evidence and attachment in one transaction.  A recovery that
\* created the child accepts no uncertain receipt.
Attach ==
  /\ me.at = "verify" /\ Holds /\ ~ me.cancelled
  /\ IF me.stage = "first" THEN Certain(Kid.receipt) ELSE Kid.receipt # "none"
  /\ Write("attached", me.n)
  /\ me' = [me EXCEPT !.at = "provider", !.stage = IF @ = "first" THEN "resumed" ELSE @,
                      !.attempts = IF me.stage = "first" THEN 1 ELSE @]
  /\ UNCHANGED <<kid, ran, runtime, faults, lane>>

Unattachable ==
  \/ pc[parent] = "stranded" \/ me.cancelled \/ Kid.receipt = "none"
  \/ me.stage = "first" /\ Kid.receipt = "uncertain"

\* An error of the reconciliation fails the recovery, and with it the start; one
\* behind a diagnostic ends the turn like a finished one.
RecoveryFails ==
  /\ \/ ~ me.diagnosed /\ me' = Failed /\ UNCHANGED log
     \/ me.diagnosed /\ me' = Ready /\ Write("ended", 0)
  /\ Release(parent)
  /\ UNCHANGED <<kid, ran, runtime>>

LiveFails == me.stage = "live" /\ me' = Ready /\ Release(parent) /\ UNCHANGED <<log, kid, ran, runtime>>

\* A failure behind the dispatch that lets a live turn go on without a result.
GoOnUnattached ==
  /\ me.at = "verify" /\ pc[parent] \in {"running", "stranded"}
  /\ (Unattachable /\ UNCHANGED faults) \/ Fault
  /\ \/ me.stage = "live" /\ Holds /\ Go("provider") /\ UNCHANGED <<log, kid, ran, runtime, lane>>
     \/ ~ Holds /\ LiveFails
     \/ me.stage = "first" /\ RecoveryFails

\* A failure behind the dispatch of a child: a live turn stays active and gives
\* up its lease, a recovery that created the child fails.
LeaveActive ==
  /\ me.at = "verify" /\ pc[parent] \in {"running", "stranded"}
  /\ (Unattachable /\ UNCHANGED faults) \/ Fault
  /\ LiveFails \/ (me.stage = "first" /\ RecoveryFails)

-----------------------------------------------------------------------------
(* Stop, start and recovery.                                               *)

Stop ==
  /\ me' = Stopped
  /\ held' = FALSE /\ waiters' = <<>> /\ granted' = {}
  /\ pc' = [o \in Operation |-> "idle"]
  /\ UNCHANGED <<log, ran, runtime>>

\* The process dies, perhaps in the middle of an append to the child's journal.
Die ==
  /\ me.at \notin {"down", "ready", "failed"}
  /\ Fault /\ Stop
  /\ \/ UNCHANGED kid
     \/ ChildRuns /\ SetKid([Kid EXCEPT !.at = "torn"])

\* The user leaves it.
Leave == me.at \in {"ready", "failed"} /\ Stop /\ UNCHANGED <<kid, faults>>

\* A reload of the configuration builds another generation.  Bound: before the
\* first turn, and counted among the faults.
Reload ==
  /\ me.at = "ready" /\ runtime = 1 /\ log = <<>>
  /\ Fault
  /\ runtime' = 2
  /\ UNCHANGED <<log, kid, ran, me, lane>>

\* recoverBootstrapSession: the first generation of the new process recovers.
Start ==
  /\ me.at = "down"
  /\ runtime' = 1
  /\ IF Active = {} THEN me' = Ready /\ UNCHANGED lane
     ELSE /\ \E t \in Active : me' = [Ready EXCEPT !.at = "replay", !.stage = "first", !.turn = t]
          /\ Acquire(parent)
  /\ UNCHANGED <<log, kid, ran, faults>>

\* Projector.Apply refuses a request behind an attempt that is still open, of
\* any turn, and one beyond the limit of a turn.
ClosedBefore(i, j) == \E k \in i + 1 .. j - 1 : Is(k, "attached") /\ Of(k) = Of(i)
Replayable ==
  \A j \in Positions("requested") :
    /\ \A i \in Positions("requested") : i < j => ClosedBefore(i, j)
    /\ Cardinality({i \in Requests(log[j].turn) : i < j}) < ProtocolMax

Replay ==
  /\ me.at = "replay" /\ Holds
  /\ \/ Replayable /\ Go("settle") /\ UNCHANGED <<log, kid, ran, runtime, faults, lane>>
     \/ ~ Replayable /\ RecoveryFails /\ UNCHANGED faults

\* The attempts recovery looks at: those not attached, and the last of a turn.
Candidate(i) ==
  /\ Is(i, "requested")
  /\ Attached(Of(i)) => \A j \in Requests(log[i].turn) : j <= i
Candidates == {i \in me.seen + 1 .. Len(log) : Candidate(i)}
First(S) == CHOOSE i \in S : \A j \in S : i <= j
Next_i == First(Candidates)

Settling == me.at = "settle" /\ Holds
Mine(i) == log[i].turn = me.turn

\* appendRecoverySessionTerminal of the parent.
EndInterrupted ==
  /\ Write("ended", 0)
  /\ me' = Ready
  /\ Release(parent)
  /\ UNCHANGED <<kid, ran, runtime, faults>>

\* Reconcile cannot prove the attempt: another generation, an uncertain receipt
\* or a torn child journal, which it diagnoses.  A child without manifest is
\* ended, gets no receipt, and is passed over in silence.
Uncertain(i) ==
  \/ GenerationOf(i) # runtime
  \/ kid[Of(i)].receipt = "uncertain"
  \/ kid[Of(i)].at = "torn"
Unproven(i) == Uncertain(i) \/ kid[Of(i)].at = "created"

SkipUnproven ==
  /\ Settling /\ Candidates # {} /\ Unproven(Next_i)
  /\ me' = [me EXCEPT !.seen = Next_i, !.diagnosed = @ \/ Uncertain(Next_i)]
  /\ UNCHANGED <<log, kid, ran, runtime, faults, lane>>

\* appendRecoverySessionTerminal of a child that has no receipt.
EndChild ==
  /\ Settling /\ Candidates # {} /\ ~ Unproven(Next_i)
  /\ LET a == Of(Next_i) IN
       /\ kid[a].receipt = "none" /\ kid[a].at # "absent"
       /\ kid' = [kid EXCEPT ![a] =
                    Ended(IF @.effect = "started" THEN "uncertain" ELSE "failed")]
  /\ UNCHANGED <<log, ran, me, runtime, faults, lane>>

\* A recovery that creates the child again whenever it has no receipt.
CreateUnproven ==
  /\ Settling /\ Candidates # {} /\ ~ Unproven(Next_i) /\ Mine(Next_i)
  /\ kid[Of(Next_i)].receipt = "none"
  /\ Yield(parent)
  /\ me' = [me EXCEPT !.at = "create", !.n = log[Next_i].n]
  /\ UNCHANGED <<log, kid, ran, runtime, faults>>

\* The reserved child was never created: it is run now.
CreateOnce ==
  /\ Settling /\ Candidates # {} /\ ~ Unproven(Next_i) /\ Mine(Next_i)
  /\ kid[Of(Next_i)].at = "absent"
  /\ Yield(parent)
  /\ me' = [me EXCEPT !.at = "create", !.n = log[Next_i].n]
  /\ UNCHANGED <<log, kid, ran, runtime, faults>>

AttachRecovered ==
  /\ Settling /\ Candidates # {} /\ ~ Unproven(Next_i) /\ Mine(Next_i)
  /\ Certain(kid[Of(Next_i)].receipt) /\ ~ Attached(Of(Next_i))
  /\ Write("attached", log[Next_i].n)
  /\ me' = [me EXCEPT !.at = "provider", !.stage = "resumed", !.n = log[Next_i].n, !.attempts = 1]
  /\ UNCHANGED <<kid, ran, runtime, faults, lane>>

\* attachedContinuationCommitted.
Continued(i) == \E j \in i + 1 .. Len(log) :
  /\ Is(j, "provider")
  /\ \E k \in i + 1 .. j - 1 : Is(k, "attached") /\ Of(k) = Of(i)

\* resumeRecoveredParent, unless the continuation was dispatched before.
Resume ==
  /\ Settling /\ Candidates # {} /\ ~ Unproven(Next_i) /\ Mine(Next_i)
  /\ Attached(Of(Next_i)) /\ ~ Continued(Next_i)
  /\ me' = [me EXCEPT !.at = "provider", !.stage = "resumed", !.n = log[Next_i].n, !.attempts = 1]
  /\ UNCHANGED <<log, kid, ran, runtime, faults, lane>>

\* Nothing is left to repair, the continuation was dispatched already, or the
\* attempt belongs to an earlier turn, whose command recovery cannot find again.
NothingToRepair ==
  /\ Settling
  /\ \/ Candidates = {}
     \/ /\ Candidates # {} /\ ~ Unproven(Next_i)
        /\ \/ Mine(Next_i) /\ Continued(Next_i)
           \/ ~ Mine(Next_i) /\ (Attached(Of(Next_i)) \/ kid[Of(Next_i)].at = "absent")

\* A recovery that fails where nothing is left to repair.
SettleRefused == NothingToRepair /\ RecoveryFails /\ UNCHANGED faults

\* The generic end of an interrupted turn.
Settle == NothingToRepair /\ EndInterrupted

\* An open receipt of an earlier turn: recoverSubagentIntent fails, without the
\* diagnostic that would let recovery end the turn.
ForeignReceipt ==
  /\ Settling /\ Candidates # {} /\ ~ Unproven(Next_i) /\ ~ Mine(Next_i)
  /\ Certain(kid[Of(Next_i)].receipt) /\ ~ Attached(Of(Next_i))
  /\ RecoveryFails /\ UNCHANGED faults

\* An inspection or an append of the recovery fails.
SettleFails ==
  /\ me.at \in {"replay", "settle"} /\ Holds
  /\ Fault /\ RecoveryFails

\* A resumed turn that fails is ended with a diagnostic, also behind a child.
StopResumed ==
  /\ me.stage = "resumed"
  /\ \/ me.at \in {"provider", "model"} /\ Holds /\ Fault
     \/ me.at = "verify" /\ pc[parent] \in {"running", "stranded"}
        /\ ((Unattachable /\ UNCHANGED faults) \/ Fault)
  /\ Write("ended", 0)
  /\ me' = Ready
  /\ Release(parent)
  /\ UNCHANGED <<kid, ran, runtime>>

-----------------------------------------------------------------------------
ParentStep ==
  \/ StartRefused \/ Accept \/ AskProvider \/ Reject \/ RequestChild \/ Lend \/ Complete \/ StopTurn
  \/ TakeBack \/ TakeBackFails \/ Attach \/ LeaveActive
ChildStep ==
  \/ CreateChild \/ ChildWaits \/ ChildManifest \/ ChildAccept \/ ChildEffect
  \/ ChildCompletes \/ ChildFails
RecoveryStep ==
  \/ Replay \/ SkipUnproven \/ EndChild \/ CreateOnce \/ AttachRecovered \/ Resume \/ Settle
  \/ ForeignReceipt \/ SettleFails \/ StopResumed

HandoffNext ==
  \/ StartTurn \/ Cancel \/ Die \/ Leave \/ Reload \/ Start
  \/ ParentStep \/ ChildStep \/ RecoveryStep \/ OthersStep \/ WokenUp

HandoffSpec == HandoffInit /\ [][HandoffNext]_hvars

\* The process goes on as long as it runs, the operations beside it give the
\* lane back, and somebody starts it again, or leaves it when its session has a
\* turn it cannot end.
Progress ==
  \/ ParentStep \/ ChildStep \/ RecoveryStep \/ WokenUp \/ Start
  \/ Active # {} /\ Leave
HandoffFair ==
  /\ HandoffSpec
  /\ WF_hvars(Progress)
  /\ \A o \in Others : WF_hvars((Wake(o) \/ Release(o)) /\ UNCHANGED handoff)

-----------------------------------------------------------------------------
\* The types.
HandoffTypeOK ==
  /\ \A i \in 1 .. Len(log) : log[i] \in Event
  /\ kid \in [Attempt -> Child]
  /\ ran \in [Attempt -> 0 .. 1]
  /\ me \in Process
  /\ runtime \in 1 .. 2 /\ faults \in 0 .. MaxFaults

\* "Restart never repeats uncertain mutation": the mutation of a child takes place
\* at most once, however often its parent is recovered, and the provider is asked
\* again only with a new result: a recovery repeats no request whose answer was lost.
DelegatedOnce ==
  /\ \A a \in Attempt : ran[a] <= 1
  /\ \A i, j \in Positions("provider") :
       i < j /\ log[i].turn = log[j].turn =>
         \E k \in i + 1 .. j - 1 : log[k].kind \in {"attached", "rejected"}

\* A result reaches the parent only from a receipt the child journal holds, once,
\* and behind the request it answers.
AttachedFromReceipt ==
  \A i \in Positions("attached") :
    /\ kid[Of(i)].receipt # "none"
    /\ \E j \in Positions("requested") : j < i /\ Of(j) = Of(i)
    /\ \A k \in Positions("attached") : Of(k) = Of(i) => k = i

\* The history of a session becomes unreadable for recovery only behind an
\* attempt that an earlier recovery left open, or in a turn that one resumed.
Abandoned ==
  \/ \E i \in Positions("requested") : log[i].turn \in EndedTurns /\ ~ Attached(Of(i))
  \/ \E t \in Turn : Cardinality(Requests(t)) > MaxPerTurn
RefusedOnlyBehindRecovery == ~ Replayable => Abandoned

\* A turn ends, over any number of stops, unless an earlier turn was ended before
\* its attempt was resolved.
TurnsEndUnlessAbandoned ==
  \A t \in Turn : t \in Active ~> t \notin Active \/ Abandoned
=============================================================================
