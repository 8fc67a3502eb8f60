-------------------------------- MODULE Turn --------------------------------
(***************************************************************************)
(* A turn of one session: internal/orchestrator/service.go runs it,        *)
(* recovery.go ends what a stopped turn left behind, and the turn lease of *)
(* session/jsonl/lease.go keeps other processes out.                       *)
(*                                                                         *)
(* The durable journal decides: every activity (a call of the provider, a  *)
(* preview, a tool, a mutation) is planned, authorized and started in it   *)
(* before its effect is dispatched, and ended in it afterwards.  An append *)
(* is one step here (Journal models what is inside) that commits, leaves   *)
(* nothing or a torn tail, or commits although its caller is told the      *)
(* outcome is unknown.  Processes may append from outside the turn, be     *)
(* cancelled and die between any two steps.                                *)
(***************************************************************************)
EXTENDS Naturals, FiniteSets

CONSTANTS
  Proc,         \* processes that have the session open, one operation lane each
  Cmd,          \* commands that start turns; c also names the turn of c
  Call,         \* tool calls
  Asks,         \* command -> the calls the model may ask for in its turn
  None,
  LastRound,    \* 2: round < 3 in runToolIntent
  LastAttempt,  \* bound: the last provider activity of a turn
  MaxMishaps    \* bound on failures, deaths, cancellations and foreign commits

ASSUME NamesAssumption == None \notin Proc /\ None \notin Cmd /\ None \notin Call
ASSUME AsksAssumption == Asks \in [Cmd -> SUBSET Call]
ASSUME BoundsAssumption == LastRound \in Nat /\ LastAttempt \in Nat /\ MaxMishaps \in Nat

Kinds == {"provider", "preview", "mutation", "tool", "synthetic"}
Activity ==
  {a \in [kind : Kinds, cmd : Cmd, call : Call \cup {None}, n : 0 .. LastAttempt + LastRound] :
     CASE a.kind = "provider" -> a.call = None /\ a.n <= LastAttempt
       [] a.kind \in {"preview", "mutation"} -> a.call \in Asks[a.cmd] /\ a.n <= LastRound
       [] OTHER -> a.call \in Asks[a.cmd] /\ a.n = 0}

ASSUME ActivityAssumption == None \notin Activity

\* activeProviderVisibleTool: the model waits for a result of this activity.
Visible(a) == a.kind \in {"tool", "mutation"}

Ended == {"succeeded", "failed", "denied", "cancelled", "interrupted_no_effect", "uncertain"}
Status == {"none", "planned", "authorized", "started"} \cup Ended
TurnEnded == {"completed", "failed", "interrupted"}

VARIABLES
  journal,    \* the durable journal: turns, activities, tool results, torn tail
  ran,        \* effects of an activity that really took place
  lock,       \* the process that holds turn.lock
  me,         \* process -> its operation: the turnState of RunTurn, or a recovery
  drift,      \* process -> what was committed after the head it knows
  cancelled,  \* processes whose context is cancelled
  mishaps

vars == <<journal, ran, lock, me, drift, cancelled, mishaps>>

\* A turn goes from "lease" to "finish"; "failing" is the deferred
\* terminalizeTurnFailure, "leaving" the deferred release; the steps with r- are
\* those of RecoverTurn.
Steps ==
  {"idle", "lease", "accept", "freeze", "provider", "intents", "preview", "mutate",
   "checkpoint", "revalidate", "authorize", "asking", "answered", "deny", "allow", "start",
   "dispatch", "running", "ending", "verify", "finish", "failing", "leaving",
   "r-lease", "r-storage", "r-settle"}

Op ==
  [pc : Steps, cmd : Cmd \cup {None},
   active : Activity \cup {None},     \* activeActivityID
   attempt : 0 .. LastAttempt, retried : BOOLEAN,
   todo : SUBSET Call, call : Call \cup {None}, round : 0 .. LastRound,
   started : BOOLEAN,                 \* activeStarted
   dispatched : BOOLEAN,              \* activeDispatched
   requires : BOOLEAN,                \* activeRequiresToolResult
   status : Ended \cup {"none"}]      \* how the effect ended, or why RunTurn fails

NoOp ==
  [pc |-> "idle", cmd |-> None, active |-> None, attempt |-> 0, retried |-> FALSE,
   todo |-> {}, call |-> None, round |-> 0, started |-> FALSE, dispatched |-> FALSE,
   requires |-> FALSE, status |-> "none"]

Init ==
  /\ journal = [turn    |-> [c \in Cmd |-> "none"],
                act     |-> [a \in Activity |-> "none"],
                answers |-> [c \in Cmd |-> [k \in Call |-> 0]],
                torn    |-> FALSE]
  /\ ran = [a \in Activity |-> 0]
  /\ lock = None
  /\ me = [p \in Proc |-> NoOp]
  /\ drift = [p \in Proc |-> "none"]
  /\ cancelled = {}
  /\ mishaps = 0

Mishap == mishaps < MaxMishaps /\ mishaps' = mishaps + 1

-----------------------------------------------------------------------------
(* Events, as the journal they leave.                                      *)

Marked(j, a, status) == [j EXCEPT !.act[a] = status]

\* A tool message with the result of the call of a.
Answered(j, a) == [j EXCEPT !.answers[a.cmd][a.call] = @ + 1]

\* The terminal event of an activity, with a tool result if the model waits.
MarkedAnswered(j, a, status, visible) ==
  IF visible THEN Answered(Marked(j, a, status), a) ELSE Marked(j, a, status)

TurnIs(j, c, status) == [j EXCEPT !.turn[c] = status]

ActiveTurns == {c \in Cmd : journal.turn[c] = "active"}

-----------------------------------------------------------------------------
(* Appending.                                                              *)

\* The heads other operations hold after a commit of p.
Overtaken(p) ==
  [q \in Proc |-> IF q = p \/ me[q].pc = "idle" THEN "none" ELSE "other"]

\* An append that does not compare the head.
AppendableAnywhere(p, detached) == ~ journal.torn /\ (detached \/ p \notin cancelled)

Appendable(p, detached) ==
  drift[p] = "none" /\ ~ journal.torn /\ (detached \/ p \notin cancelled)

Leaving == [NoOp EXCEPT !.pc = "leaving"]
Failing(m, cause) ==
  [NoOp EXCEPT !.pc = "failing", !.cmd = m.cmd, !.active = m.active, !.started = m.started,
               !.dispatched = m.dispatched, !.requires = m.requires, !.status = cause]

\* The error of RunTurn; before turn.accepted and in the deferred calls it ends
\* the operation, everywhere else terminalizeTurnFailure comes first.
Failed(p, m, cause) ==
  me' = [me EXCEPT ![p] =
           IF m.pc \in {"accept", "failing", "r-settle"} THEN Leaving ELSE Failing(m, cause)]

Cause(p, detached) == IF p \in cancelled /\ ~ detached THEN "cancelled" ELSE "failed"

\* Service.append and appendBatch: p's operation is "before" until the append is
\* reported committed, and "after" then; the journal becomes j.
Append(p, detached, j, before, after) ==
  /\ UNCHANGED <<ran, lock, cancelled>>
  /\ \/ /\ Appendable(p, detached)
        /\ journal' = j
        /\ drift' = Overtaken(p)
        /\ me' = [me EXCEPT ![p] = after]
        /\ UNCHANGED mishaps
     \/ /\ ~ Appendable(p, detached)
        /\ Failed(p, before, Cause(p, detached))
        /\ UNCHANGED <<journal, drift, mishaps>>
     \/ /\ Appendable(p, detached) /\ Mishap
        /\ Failed(p, before, "failed")
        /\ \/ \E torn \in BOOLEAN : journal' = [journal EXCEPT !.torn = torn] /\ UNCHANGED drift
           \/ journal' = j /\ drift' = [Overtaken(p) EXCEPT ![p] = "other"]

\* Steps of p that touch nothing but its own operation.
Goto(p, m) ==
  me' = [me EXCEPT ![p] = m] /\ UNCHANGED <<journal, ran, lock, drift, cancelled, mishaps>>

To(m, pc) == [m EXCEPT !.pc = pc]

\* activeActivityID and its flags, for a new activity and for none.
Activate(m, a, pc) ==
  [m EXCEPT !.pc = pc, !.active = a, !.started = FALSE, !.dispatched = FALSE,
            !.requires = FALSE, !.status = "none"]
Deactivate(m, pc) == Activate(m, None, pc)

\* The next intent of the assistant message, or the next provider attempt.
AfterIntent(m) ==
  IF m.todo = {} THEN [Deactivate(m, "provider") EXCEPT !.attempt = @ + 1, !.call = None, !.round = 0]
  ELSE [Deactivate(m, "intents") EXCEPT !.call = None, !.round = 0]

-----------------------------------------------------------------------------
(* RunTurn                                                                 *)

\* p returns to its caller; it holds no lease.
Return(p) ==
  /\ me' = [me EXCEPT ![p] = NoOp]
  /\ drift' = [drift EXCEPT ![p] = "none"]
  /\ cancelled' = cancelled \ {p}

\* A RunTurn that does not look for its command in the journal.
SubmitAgain(p, c) == me[p].pc = "idle" /\ Goto(p, [NoOp EXCEPT !.pc = "lease", !.cmd = c])

\* The caller names the head it has read.  LookupCommand answers a command that
\* was accepted before from the journal.
Submit(p, c) ==
  /\ me[p].pc = "idle"
  /\ \/ journal.turn[c] = "none" /\ Goto(p, [NoOp EXCEPT !.pc = "lease", !.cmd = c])
     \/ journal.turn[c] # "none" /\ UNCHANGED vars

\* A lease that does not ask whether a turn is active.
AcquireUnchecked(p) ==
  /\ me[p].pc = "lease" /\ lock = None /\ drift[p] = "none" /\ p \notin cancelled
  /\ lock' = p
  /\ me' = [me EXCEPT ![p].pc = "accept"]
  /\ UNCHANGED <<journal, ran, drift, cancelled, mishaps>>

\* AcquireTurnLease: turn.lock, then the head, then no turn without its end.
AcquireTurnLease(p) ==
  /\ me[p].pc = "lease"
  /\ IF lock = None /\ drift[p] = "none" /\ ActiveTurns = {} /\ p \notin cancelled
     THEN /\ lock' = p
          /\ me' = [me EXCEPT ![p].pc = "accept"]
          /\ UNCHANGED <<drift, cancelled>>
     ELSE Return(p) /\ UNCHANGED lock
  /\ UNCHANGED <<journal, ran, mishaps>>

AcceptTurn(p) ==
  LET m == me[p] IN
  /\ m.pc = "accept"
  /\ Append(p, FALSE, TurnIs(journal, m.cmd, "active"), m, To(m, "freeze"))

FreezeContract(p) ==
  me[p].pc = "freeze" /\ Append(p, FALSE, journal, me[p], To(me[p], "provider"))

Plan(p, a, pc) == Append(p, FALSE, Marked(journal, a, "planned"), me[p], Activate(me[p], a, pc))

PlanProvider(p) ==
  LET m == me[p] IN
  /\ m.pc = "provider"
  /\ Plan(p, [kind |-> "provider", cmd |-> m.cmd, call |-> None, n |-> m.attempt], "authorize")

\* appendSyntheticToolFailure: an unknown tool, or a resource that drifted before
\* the plan, is answered by an activity without an effect.
SyntheticFailure(p, m, tool) ==
  Append(p, FALSE, MarkedAnswered(journal, [tool EXCEPT !.kind = "synthetic"], "failed", TRUE),
         m, AfterIntent(m))

\* runToolIntent picks the path by the descriptor of the tool: a mutation starts
\* with its preview, an observation is planned and revalidated at once.
NextIntent(p, k) ==
  LET m == [me[p] EXCEPT !.todo = @ \ {k}, !.call = k]
      tool == [kind |-> "tool", cmd |-> m.cmd, call |-> k, n |-> 0] IN
  /\ me[p].pc = "intents" /\ k \in me[p].todo
  /\ \/ Goto(p, To(m, "preview"))
     \/ Append(p, FALSE, Marked(journal, tool, "planned"), m, Activate(m, tool, "authorize"))
     \/ SyntheticFailure(p, m, tool)

PlanPreview(p) ==
  LET m == me[p] IN
  /\ m.pc = "preview"
  /\ Plan(p, [kind |-> "preview", cmd |-> m.cmd, call |-> m.call, n |-> m.round], "authorize")

PlanMutation(p) ==
  LET m == me[p] IN
  /\ m.pc = "mutate"
  /\ Plan(p, [kind |-> "mutation", cmd |-> m.cmd, call |-> m.call, n |-> m.round], "checkpoint")

\* prepareCheckpoint records a planned and a ready checkpoint around the recovery
\* material, or fails: failCheckpoint then records that, whatever the context.
PrepareCheckpoint(p) ==
  LET m == me[p] IN
  /\ m.pc = "checkpoint"
  /\ \/ Append(p, FALSE, journal, m, To(m, "revalidate"))
     \/ Append(p, TRUE, journal, m, Failing(m, "failed"))

\* The resources are as the plan saw them: the authorization is requested.
Revalidated(p) ==
  me[p].pc = "revalidate" /\ Append(p, FALSE, journal, me[p], To(me[p], "authorize"))

\* abandonDriftRound: they changed; the third time the call is answered.
DriftRound(p) ==
  LET m == me[p] IN
  /\ m.pc = "revalidate"
  /\ IF m.round < LastRound
     THEN Append(p, FALSE, Marked(journal, m.active, "cancelled"), m,
                 [Deactivate(m, "preview") EXCEPT !.round = @ + 1])
     ELSE Append(p, FALSE, MarkedAnswered(journal, m.active, "failed", TRUE),
                 [m EXCEPT !.requires = TRUE], AfterIntent(m))

-----------------------------------------------------------------------------
(* authorizeActivity                                                       *)

\* A denial of a tool makes a tool result part of the decision's transaction.
Resolved(p, action) ==
  IF action = "deny" THEN [To(me[p], "deny") EXCEPT !.requires = me[p].active.kind # "provider"]
  ELSE To(me[p], action)

Decide(p) ==
  /\ me[p].pc = "authorize"
  /\ \E action \in {"allow", "deny", "asking"} : Goto(p, Resolved(p, action))

\* The approver has answered and the lane is taken back.
Approve(p) == me[p].pc = "asking" /\ Goto(p, To(me[p], "answered"))

\* reconcileInteractiveApprovalJournal accepts exactly one acknowledgement.
Reconcile(p) ==
  /\ me[p].pc = "answered"
  /\ IF drift[p] = "other" THEN Failed(p, me[p], "failed") /\ UNCHANGED drift
     ELSE /\ drift' = [drift EXCEPT ![p] = "none"]
          /\ \E action \in {"allow", "deny"} : me' = [me EXCEPT ![p] = Resolved(p, action)]
  /\ UNCHANGED <<journal, ran, lock, cancelled, mishaps>>

RecordDenial(p) ==
  LET m == me[p] IN
  /\ m.pc = "deny"
  /\ Append(p, FALSE, MarkedAnswered(journal, m.active, "denied", m.active.kind # "provider"),
            m, Failing(Deactivate(m, "deny"), "denied"))

RecordDecision(p) ==
  LET m == me[p] IN
  /\ m.pc = "allow"
  /\ Append(p, FALSE, Marked(journal, m.active, "authorized"), m, To(m, "start"))

RecordStart(p) ==
  LET m == me[p] IN
  /\ m.pc = "start"
  /\ Append(p, FALSE, Marked(journal, m.active, "started"), m,
            [To(m, "dispatch") EXCEPT !.started = TRUE])

\* The token is issued and used: the gate refuses a cancelled context, and a plan
\* whose resources have changed since.
Dispatch(p) ==
  LET m == me[p] IN
  /\ m.pc = "dispatch"
  /\ me' = [me EXCEPT ![p] = [To(m, "running") EXCEPT !.dispatched = TRUE]]
  /\ \/ ran' = [ran EXCEPT ![m.active] = @ + 1] /\ p \notin cancelled
     \/ UNCHANGED ran
  /\ UNCHANGED <<journal, lock, drift, cancelled, mishaps>>

-----------------------------------------------------------------------------
(* The effect ends.                                                        *)

EndsWith(p, status) == [To(me[p], "ending") EXCEPT !.status = status]

Fresh(c) == {k \in Asks[c] : \A a \in Activity : a.cmd = c /\ a.call = k => journal.act[a] = "none"}

\* collectProviderStream: the model asks for nothing more, or for tools; more
\* than the limit of a turn fails it.
ProviderReturns(p) ==
  LET m == me[p] IN
  /\ m.pc = "running" /\ m.active.kind = "provider" /\ ran[m.active] > 0
  /\ \/ Goto(p, EndsWith(p, "succeeded"))
     \/ /\ m.attempt < LastAttempt
        /\ \E todo \in SUBSET Fresh(m.cmd) :
             todo # {} /\ Goto(p, [EndsWith(p, "succeeded") EXCEPT !.todo = todo])

\* An error before the first byte is retried, once.
ProviderRetries(p) ==
  LET m == me[p] IN
  /\ m.pc = "running" /\ m.active.kind = "provider" /\ ran[m.active] = 0
  /\ ~ m.retried /\ m.attempt < LastAttempt
  /\ Goto(p, [EndsWith(p, "interrupted_no_effect") EXCEPT !.retried = TRUE])

\* PreparePreview.
PreviewReturns(p) ==
  LET m == me[p] IN
  /\ m.pc = "running" /\ m.active.kind = "preview" /\ ran[m.active] > 0
  /\ Goto(p, EndsWith(p, "succeeded"))

\* Any other error of a provider or a preview is an error of RunTurn.
EffectFails(p) ==
  LET m == me[p] IN
  /\ m.pc = "running" /\ ~ Visible(m.active)
  /\ Failed(p, m, Cause(p, FALSE))
  /\ UNCHANGED <<journal, ran, lock, drift, cancelled, mishaps>>

\* Execute returns: from here on the model is owed a result.
OwesResult(p, status) == Goto(p, [EndsWith(p, status) EXCEPT !.requires = TRUE])

\* A result, or an error that leaves the effect uncertain.
ToolReturns(p) ==
  LET m == me[p] IN
  /\ m.pc = "running" /\ Visible(m.active)
  /\ \/ \E status \in {"succeeded", "failed"} : ran[m.active] > 0 /\ OwesResult(p, status)
     \/ OwesResult(p, "uncertain")

\* What RunTurn does when the activity has ended.
AfterActivity(m) ==
  CASE m.active.kind = "preview" -> Deactivate(m, "mutate")
    [] m.active.kind = "provider" /\ m.status = "interrupted_no_effect" ->
         [Deactivate(m, "provider") EXCEPT !.attempt = @ + 1]
    [] m.active.kind = "provider" /\ m.status = "succeeded" ->
         IF m.todo = {} THEN [NoOp EXCEPT !.pc = "verify", !.cmd = m.cmd] ELSE Deactivate(m, "intents")
    [] OTHER -> AfterIntent(m)

\* appendActivityEvidence; the end of an effect nobody can know more about is
\* recorded whatever the context.
EndActivity(p) ==
  LET m == me[p] IN
  /\ m.pc = "ending"
  /\ Append(p, m.status \in {"uncertain", "interrupted_no_effect"},
            MarkedAnswered(journal, m.active, m.status, Visible(m.active)), m, AfterActivity(m))

-----------------------------------------------------------------------------
(* The end of RunTurn                                                      *)

RecordVerification(p) ==
  me[p].pc = "verify" /\ Append(p, FALSE, journal, me[p], To(me[p], "finish"))

CompleteTurn(p) ==
  LET m == me[p] IN
  /\ m.pc = "finish"
  /\ Append(p, FALSE, TurnIs(journal, m.cmd, "completed"), m, Leaving)

\* Any call between two appends may return an error, the context's included.
Stoppable ==
  {"freeze", "provider", "intents", "preview", "mutate", "checkpoint", "revalidate", "authorize",
   "asking", "answered", "deny", "allow", "start", "dispatch", "ending", "verify", "finish"}

Stop(p) ==
  /\ me[p].pc \in Stoppable
  /\ Failed(p, me[p], Cause(p, FALSE))
  /\ IF p \in cancelled THEN UNCHANGED mishaps ELSE Mishap
  /\ UNCHANGED <<journal, ran, lock, drift, cancelled>>

\* A failure that always ends the turn.
NeverOwed(m) == FALSE

\* terminalizeTurnFailure leaves the turn to a recovery while the model waits for
\* a result that only the effect could give.
OwedResult(m) == m.active # None /\ Visible(m.active) /\ (m.dispatched \/ m.requires)

\* The status of a cancelled turn wins over an effect that was dispatched.
CancelledFirst(m) ==
  CASE m.status = "cancelled" \/ ~ m.started -> "cancelled"
    [] m.status # "cancelled" /\ m.started /\ m.dispatched -> "uncertain"
    [] OTHER -> "failed"

EndOfActive(m) ==
  CASE m.dispatched -> "uncertain"
    [] ~ m.dispatched /\ (m.status = "cancelled" \/ ~ m.started) -> "cancelled"
    [] OTHER -> "failed"

EndOfTurn(m) == IF m.status = "cancelled" THEN "interrupted" ELSE "failed"

FailureEvents(m) ==
  TurnIs(IF m.active # None /\ ~ m.requires
           THEN MarkedAnswered(journal, m.active, EndOfActive(m), Visible(m.active)) ELSE journal,
         m.cmd, EndOfTurn(m))

TerminalizeTurnFailure(p) ==
  LET m == me[p] IN
  /\ m.pc = "failing"
  /\ \/ OwedResult(m) /\ Goto(p, Leaving)
     \/ ~ OwedResult(m) /\ Append(p, TRUE, FailureEvents(m), m, Leaving)

\* An operation that leaves its lock behind.
LeaveLocked(p) ==
  me[p].pc = "leaving" /\ Return(p) /\ UNCHANGED <<journal, ran, lock, mishaps>>

\* Release or Abandon of the lease, and the end of the context.
Leave(p) ==
  /\ me[p].pc = "leaving"
  /\ lock' = IF lock = p THEN None ELSE lock
  /\ Return(p)
  /\ UNCHANGED <<journal, ran, mishaps>>

-----------------------------------------------------------------------------
(* RecoverTurn, run when a session is opened                               *)

StartRecovery(p) ==
  /\ me[p].pc = "idle" /\ (journal.torn \/ ActiveTurns # {})
  /\ Goto(p, To(me[p], "r-lease"))

\* A recovery that does not take the lock of the turn it ends.
RecoverUnlocked(p) ==
  /\ me[p].pc = "r-lease" /\ drift[p] = "none" /\ p \notin cancelled
  /\ me' = [me EXCEPT ![p] = [@ EXCEPT !.pc = "r-storage",
               !.cmd = IF ActiveTurns = {} THEN None ELSE CHOOSE c \in ActiveTurns : TRUE]]
  /\ UNCHANGED <<journal, ran, lock, drift, cancelled, mishaps>>

\* InspectRecovery and, if a turn is active, its turn.lock.
AcquireTurnRecoveryLease(p) ==
  /\ me[p].pc = "r-lease"
  /\ IF drift[p] # "none" \/ p \in cancelled \/ (lock # None /\ ActiveTurns # {})
     THEN Return(p) /\ UNCHANGED lock
     ELSE /\ \/ \E c \in ActiveTurns :
                  /\ lock' = p
                  /\ me' = [me EXCEPT ![p] = [@ EXCEPT !.pc = "r-storage", !.cmd = c]]
             \/ /\ ActiveTurns = {}
                /\ me' = [me EXCEPT ![p].pc = "r-storage"]
                /\ UNCHANGED lock
          /\ UNCHANGED <<drift, cancelled>>
  /\ UNCHANGED <<journal, ran, mishaps>>

\* Recover moves a torn tail out of the way and commits its diagnostic, or admits
\* the prefix that is clean already; it may fail before or after it did so.
Recover(p) ==
  LET m == me[p]
      ready == drift[p] = "none" /\ p \notin cancelled IN
  /\ m.pc = "r-storage"
  /\ \/ /\ ready
        /\ me' = [me EXCEPT ![p].pc = "r-settle"]
        /\ journal' = [journal EXCEPT !.torn = FALSE]
        /\ drift' = IF journal.torn THEN Overtaken(p) ELSE drift
        /\ UNCHANGED mishaps
     \/ /\ me' = [me EXCEPT ![p] = Leaving]
        /\ IF ready THEN Mishap ELSE UNCHANGED mishaps
        /\ \/ UNCHANGED <<journal, drift>>
           \/ /\ ready /\ journal.torn
              /\ journal' = [journal EXCEPT !.torn = FALSE] /\ drift' = Overtaken(p)
  /\ UNCHANGED <<ran, lock, cancelled>>

StartedActivities == {a \in Activity : journal.act[a] = "started"}

\* appendRecoverySessionTerminal: every started activity of the session becomes
\* uncertain, every call that waits is answered, the turn is interrupted.
Settled(c) ==
  [journal EXCEPT
     !.act = [a \in Activity |-> IF a \in StartedActivities THEN "uncertain" ELSE @[a]],
     !.answers = [d \in Cmd |-> [k \in Call |-> @[d][k] +
                    Cardinality({a \in StartedActivities : Visible(a) /\ a.cmd = d /\ a.call = k})]],
     !.turn[c] = "interrupted"]

SettleTurn(p) ==
  LET m == me[p] IN
  /\ m.pc = "r-settle"
  /\ \/ m.cmd # None /\ Append(p, FALSE, Settled(m.cmd), m, Leaving)
     \/ m.cmd = None /\ Goto(p, Leaving)

-----------------------------------------------------------------------------
(* The world around                                                        *)

\* A control operation appends to the session: the acknowledgement a user gives
\* while an approval waits (p), or any other, also of another process.
Acknowledge(p) ==
  /\ me[p].pc = "asking" /\ ~ journal.torn /\ Mishap
  /\ drift' = [Overtaken(p) EXCEPT ![p] = IF drift[p] = "none" THEN "ack" ELSE "other"]
  /\ UNCHANGED <<journal, ran, lock, me, cancelled>>

ForeignCommit ==
  /\ ~ journal.torn /\ Mishap
  /\ drift' = [q \in Proc |-> IF me[q].pc = "idle" THEN "none" ELSE "other"]
  /\ UNCHANGED <<journal, ran, lock, me, cancelled>>

\* The user cancels, and a goroutine gives turn.lock back while RunTurn goes on.
Cancel(p) ==
  /\ me[p].pc \notin {"idle", "leaving"} /\ p \notin cancelled /\ Mishap
  /\ cancelled' = cancelled \cup {p}
  /\ UNCHANGED <<journal, ran, lock, me, drift>>

DropLease(p) ==
  /\ p \in cancelled /\ lock = p
  /\ lock' = None
  /\ UNCHANGED <<journal, ran, me, drift, cancelled, mishaps>>

\* The process dies, perhaps while it writes; the kernel drops its lock.
Kill(p) ==
  /\ me[p].pc # "idle" /\ Mishap
  /\ me' = [me EXCEPT ![p] = NoOp]
  /\ drift' = [drift EXCEPT ![p] = "none"]
  /\ cancelled' = cancelled \ {p}
  /\ lock' = IF lock = p THEN None ELSE lock
  /\ \/ UNCHANGED journal
     \/ Appendable(p, FALSE) /\ journal' = [journal EXCEPT !.torn = TRUE]
  /\ UNCHANGED ran

Advance(p) ==
  \/ AcquireTurnLease(p) \/ AcceptTurn(p) \/ FreezeContract(p)
  \/ PlanProvider(p) \/ (\E k \in Call : NextIntent(p, k)) \/ PlanPreview(p) \/ PlanMutation(p)
  \/ PrepareCheckpoint(p) \/ Revalidated(p) \/ DriftRound(p)
  \/ Decide(p) \/ Approve(p) \/ Reconcile(p)
  \/ RecordDenial(p) \/ RecordDecision(p) \/ RecordStart(p) \/ Dispatch(p)
  \/ ProviderReturns(p) \/ ProviderRetries(p) \/ PreviewReturns(p) \/ ToolReturns(p)
  \/ EffectFails(p) \/ EndActivity(p) \/ RecordVerification(p) \/ CompleteTurn(p)
  \/ TerminalizeTurnFailure(p) \/ Leave(p)
  \/ AcquireTurnRecoveryLease(p) \/ Recover(p) \/ SettleTurn(p)

Next ==
  \/ \E p \in Proc :
       \/ Advance(p) \/ (\E c \in Cmd : Submit(p, c)) \/ StartRecovery(p)
       \/ Stop(p) \/ Acknowledge(p) \/ Cancel(p) \/ DropLease(p) \/ Kill(p)
  \/ ForeignCommit

Spec == Init /\ [][Next]_vars

\* A process goes on until its operation ends, the goroutine of a cancelled lease
\* runs, and a session with a turn to recover is opened again and again.
FairSpec ==
  /\ Spec
  /\ \A p \in Proc : WF_vars(Advance(p)) /\ WF_vars(DropLease(p)) /\ SF_vars(StartRecovery(p))

-----------------------------------------------------------------------------
TypeOK ==
  /\ journal \in [turn : [Cmd -> {"none", "active"} \cup TurnEnded], act : [Activity -> Status],
                  answers : [Cmd -> [Call -> Nat]], torn : BOOLEAN]
  /\ ran \in [Activity -> Nat]
  /\ lock \in Proc \cup {None}
  /\ me \in [Proc -> Op]
  /\ drift \in [Proc -> {"none", "ack", "other"}]
  /\ cancelled \subseteq Proc
  /\ mishaps \in 0 .. MaxMishaps

\* The journal never says less of an activity than happened: an effect takes place
\* only behind a durable start, and an activity that is not started, denied,
\* cancelled or interrupted_no_effect has had none; a success has had one.
HonestStatus ==
  \A a \in Activity :
    /\ ran[a] > 0 => journal.act[a] \in {"started", "succeeded", "failed", "uncertain"}
    /\ journal.act[a] = "succeeded" => ran[a] > 0

\* Whatever is submitted again, retried, drifted or recovered, by any process: no
\* activity takes effect twice, no tool call does, and the model gets one result
\* for a call, be it from the activity, a denial, the failed turn or the recovery.
EffectOnce ==
  /\ \A a \in Activity : ran[a] <= 1
  /\ \A c \in Cmd : \A k \in Call : journal.answers[c][k] <= 1
  /\ \A a, b \in {d \in Activity : Visible(d) /\ ran[d] > 0} :
       a.cmd = b.cmd /\ a.call = b.call => a = b

\* turn.lock and the journal fence effects: a process that was not cancelled runs
\* one only under its lease, in a turn and an activity nobody has ended meanwhile.
EffectsAreFenced ==
  \A p \in Proc : me[p].pc = "running" /\ p \notin cancelled =>
    /\ lock = p
    /\ journal.turn[me[p].cmd] = "active"
    /\ journal.act[me[p].active] = "started"

\* No turn starts before the one in front of it has a durable end.
OneActiveTurn == \A c, d \in ActiveTurns : c = d

\* A turn that has ended leaves nothing open: no activity is still started, and
\* every call that had an effect has got its result.
EndedTurnsAreSettled ==
  \A a \in Activity : journal.turn[a.cmd] \in TurnEnded =>
    /\ journal.act[a] # "started"
    /\ Visible(a) /\ ran[a] > 0 => journal.answers[a.cmd][a.call] = 1

\* What ended stays as it ended: the late end of a cancelled operation never
\* overwrites what a recovery has recorded, nor the other way round.
EndsStand ==
  [][ /\ \A c \in Cmd : journal.turn[c] \in TurnEnded => journal'.turn[c] = journal.turn[c]
      /\ \A a \in Activity : journal.act[a] \in Ended => journal'.act[a] = journal.act[a] ]_journal

\* A turn does not stay active for ever, whatever stops the process that runs it,
\* and RunTurn and RecoverTurn return.
TurnsEnd ==
  /\ \A c \in Cmd : journal.turn[c] = "active" ~> journal.turn[c] \in TurnEnded
  /\ \A p \in Proc : me[p].pc # "idle" ~> me[p].pc = "idle"
=============================================================================
