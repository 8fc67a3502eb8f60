--------------------------------- MODULE App ---------------------------------
(***************************************************************************)
(* The application loop of internal/app/app.go: one goroutine selects over *)
(* the user's commands, the events of the running operation, its result    *)
(* and the end of its context, and everything the terminal shows leaves it *)
(* through a bounded queue.  One operation (a turn, a compaction, a reload *)
(* of the configuration) runs beside it at a time, on the runtime          *)
(* generation that was current when it started.                            *)
(*                                                                         *)
(* A command is atomic up to what it hands to another goroutine: a commit  *)
(* of a setting, or of an acknowledgement, waits for the operation lane    *)
(* inside the loop, which serves nothing else until then.                  *)
(***************************************************************************)
EXTENDS Generations, Sequences

CONSTANTS
  Turn,              \* the operation as a user of its generation
  Work,              \* the lease its provider and its tools write under
  Initial,           \* the generation bootstrap has built
  Session, FirstSession,
  Mode, FirstMode,
  AutoMode,          \* the mode whose shell the user acknowledges
  Model,
  ModelsOf,          \* generation -> the models of its configuration
  DefaultOf,         \* generation -> its root model
  Capacity,          \* LegacyQueueCapacity
  MaxCommands,       \* bound: commands of the user
  MaxPrompts,        \* bound: approvals asked for
  MaxIncidents       \* bound: calls that fail and events that operations emit

ASSUME AppAssumption ==
  /\ Turn \in User /\ Work \in Lease \ Generation /\ Generation \subseteq Lease
  /\ Initial \in Generation /\ FirstSession \in Session /\ {FirstMode, AutoMode} \subseteq Mode
  /\ ModelsOf \in [Generation -> SUBSET Model] /\ DefaultOf \in [Generation -> Model]
  /\ None \notin Mode \cup Model \cup Session
  /\ {Capacity, MaxCommands, MaxPrompts, MaxIncidents} \subseteq Nat

VARIABLES
  running,      \* Run has not returned
  cancelled,    \* the context of Run has ended
  armed,        \* ctxDone is not nil: the end of the context is still selected on
  shutdown,     \* shutdownRequested
  op,           \* activeOperation and the goroutine behind it
  queued,       \* queuedMode and queuedSelection
  applying,     \* the settings, or the acknowledgement, the loop is about to commit
  current,      \* runtimeSet
  session,      \* session: its identity, mode and selection
  stale,        \* replayValid is FALSE
  journal,      \* session -> the mode and selection its journal holds, if it exists
  policy,       \* the mode the permission policy enforces
  queue,        \* legacyQueue
  arriving,     \* events in runtimeEvents and in protocolEvents
  pending,      \* displayed call -> the request it stands for (pending)
  asked,        \* permissionCallSequence
  answer,       \* the request the user meant by the decision in its channel
  shown,        \* the prompts the terminal has shown
  doubt,        \* a commit was made whose refresh failed
  spent         \* bounds: commands and incidents used

loopVars == <<running, cancelled, armed, shutdown>>
settings == <<queued, applying, session, stale, journal, policy, doubt>>
prompts == <<pending, asked, answer>>
events == <<queue, arriving, shown>>
app == <<loopVars, settings, prompts, events, op, current, spent>>
vars == <<app, generations>>

Kinds == {"none", "turn", "compact", "reload"}
Stages == {"none", "starting", "working", "asking", "waiting", "finished"}
Outcomes == {"ok", "failed"}
NoOperation == [kind |-> "none", gen |-> None, stopped |-> FALSE, stage |-> "none", out |-> "ok"]
Prompt == [id : 1 .. MaxPrompts, request : 1 .. MaxPrompts]
Other == [id |-> 0, request |-> 0]       \* an event, or an answer, that is of no prompt

\* shell: the prompt an acknowledgement of the shell answers, or Other.
Settings == [mode : Mode \cup {None}, model : Model \cup {None}, shell : Prompt \cup {Other, None}]
NoSettings == [mode |-> None, model |-> None, shell |-> None]

TypeOK ==
  /\ GenerationsTypeOK
  /\ {running, cancelled, armed, shutdown, stale, doubt} \subseteq BOOLEAN
  /\ op \in [kind : Kinds, gen : Generation \cup {None}, stopped : BOOLEAN, stage : Stages, out : Outcomes]
  /\ {queued, applying} \subseteq Settings
  /\ current \in Generation
  /\ session \in [id : Session, mode : Mode, model : Model]
  /\ journal \in [Session -> [mode : Mode, model : Model \cup {None}]]
  /\ policy \in Mode
  /\ queue \in Seq(Prompt \cup {Other}) /\ Len(queue) <= Capacity + 1
  /\ arriving \in [{"runtime", "protocol"} -> 0 .. MaxIncidents]
  /\ pending \subseteq Prompt
  /\ asked \in 0 .. MaxPrompts
  /\ answer \in 0 .. MaxPrompts
  /\ shown \subseteq Prompt
  /\ spent \in [commands : 0 .. MaxCommands, incidents : 0 .. MaxIncidents]

\* Bootstrap has built a generation and created the first session.
Init ==
  /\ entry = [g \in Generation |-> IF g = Initial THEN NewEntry ELSE NoEntry]
  /\ lease = [l \in Lease |-> IF l = Initial THEN [gen |-> Initial, stage |-> "open"] ELSE NoLease]
  /\ stream = [s \in Stream |-> NoStream]
  /\ life = [g \in Generation |->
               [active |-> 0, retired |-> FALSE, stores |-> IF g = Initial THEN "open" ELSE "none"]]
  /\ user = [u \in User |-> None]
  /\ running = TRUE /\ cancelled = FALSE /\ armed = TRUE /\ shutdown = FALSE
  /\ op = NoOperation
  /\ queued = NoSettings /\ applying = NoSettings
  /\ current = Initial
  /\ journal = [s \in Session |->
                  [mode |-> FirstMode, model |-> IF s = FirstSession THEN DefaultOf[Initial] ELSE None]]
  /\ session = [id |-> FirstSession, mode |-> FirstMode, model |-> DefaultOf[Initial]]
  /\ stale = FALSE /\ doubt = FALSE
  /\ policy = FirstMode
  /\ queue = <<>> /\ arriving = [c \in {"runtime", "protocol"} |-> 0]
  /\ pending = {} /\ asked = 0 /\ answer = 0 /\ shown = {}
  /\ spent = [commands |-> 0, incidents |-> 0]

-----------------------------------------------------------------------------
(* Events. *)

\* enqueuePublishedEvent: one place is kept for a terminal event.
Room(kind) == Capacity + (IF kind = "terminal" THEN 1 ELSE 0)
Fits(kind) == Len(queue) < Room(kind)
Publishes(kind) == ~ cancelled /\ Fits(kind)

\* publish where its result is not looked at.
publish(kind) == queue' = IF Publishes(kind) THEN Append(queue, Other) ELSE queue

\* publishEvents, which stops with Run, and the terminal, which learns the
\* prompts it shows.
Show ==
  /\ running /\ queue # <<>>
  /\ queue' = Tail(queue)
  /\ shown' = shown \cup ({Head(queue)} \ {Other})
  /\ UNCHANGED <<loopVars, settings, prompts, op, current, spent, arriving, generations>>

Busy == op.kind # "none"
Stopped == op.stopped \/ cancelled
Selecting == running /\ applying = NoSettings

Stop == IF Busy THEN [op EXCEPT !.stopped = TRUE] ELSE op
clearPending == pending' = {} /\ UNCHANGED <<asked, answer>>

\* The caller of Run ends its context.
Cancel ==
  /\ running /\ ~ cancelled
  /\ cancelled' = TRUE
  /\ UNCHANGED <<running, armed, shutdown, settings, prompts, events, op, current, spent, generations>>

\* Run's deferred retirement of the current generation.
Return == running' = FALSE /\ retire(current)

\* case <-ctxDone.
Notice ==
  /\ Selecting /\ armed /\ cancelled
  /\ armed' = FALSE /\ shutdown' = TRUE
  /\ op' = Stop
  /\ clearPending
  /\ IF Busy THEN UNCHANGED <<running, generations>> ELSE Return
  /\ UNCHANGED <<cancelled, settings, events, current, spent>>

\* case runtimeEvent and case event := <-protocolEvents.  An event that cannot
\* be published stops the operation, and the loop no longer looks at ctxDone.
Forward(channel) ==
  /\ Selecting /\ arriving[channel] > 0
  /\ arriving' = [arriving EXCEPT ![channel] = @ - 1]
  /\ \/ channel = "runtime" /\ shutdown /\ UNCHANGED <<loopVars, prompts, queue, op>>
     \/ /\ ~ (channel = "runtime" /\ shutdown)
        /\ Publishes("progress")
        /\ publish("progress")
        /\ UNCHANGED <<loopVars, prompts, op>>
     \/ /\ ~ (channel = "runtime" /\ shutdown)
        /\ ~ Publishes("progress")
        /\ op' = Stop
        /\ clearPending
        /\ armed' = FALSE /\ shutdown' = TRUE
        /\ UNCHANGED <<running, cancelled, queue>>
  /\ UNCHANGED <<settings, shown, current, spent, generations>>

-----------------------------------------------------------------------------
(* Commands of the user. *)

CanCommand == Selecting /\ spent.commands < MaxCommands
Use(incidents) == spent' = [spent EXCEPT !.commands = @ + 1, !.incidents = @ + incidents]
Faulty == spent.incidents < MaxIncidents
Ready == session.model \in ModelsOf[current]
configured(m) == m \in ModelsOf[current]

\* A command that is answered at once, with EventRejected or EventError.
Reject ==
  /\ Use(0) /\ publish("terminal")
  /\ UNCHANGED <<loopVars, settings, prompts, op, current, arriving, shown, generations>>

Start(kind) ==
  op' = [kind |-> kind, gen |-> IF kind = "reload" THEN None ELSE current, stopped |-> FALSE,
         stage |-> IF kind = "turn" THEN "starting" ELSE "working", out |-> "ok"]

\* CommandStartTurn and CommandCompact: the snapshot and subscription before
\* the operation starts may fail, and fail when the context has ended.
StartOn(kind) ==
  /\ CanCommand
  /\ \/ (stale \/ Busy \/ ~ Ready) /\ Reject
     \/ /\ ~ stale /\ ~ Busy /\ Ready
        /\ \/ cancelled /\ Use(0)
           \/ Faulty /\ Use(1)
        /\ publish("terminal")
        /\ UNCHANGED <<loopVars, settings, prompts, op, current, arriving, shown, generations>>
     \/ /\ ~ stale /\ ~ Busy /\ Ready /\ ~ cancelled
        /\ Use(0)
        /\ Start(kind)
        /\ publish("state")
        /\ UNCHANGED <<loopVars, settings, prompts, current, arriving, shown, generations>>

StartTurn == StartOn("turn")
Compact == StartOn("compact")

\* CommandReloadConfig, and CommandTrustSkillCatalog, which also commits a
\* control operation in the goroutine of the reload.
ReloadConfig ==
  /\ CanCommand
  /\ \/ Busy /\ Reject
     \/ /\ ~ Busy /\ \E g \in Generation : ~ entry[g].known
        /\ Use(0) /\ Start("reload")
        /\ UNCHANGED <<loopVars, settings, prompts, events, current, generations>>

CancelTurn ==
  /\ CanCommand /\ Use(0)
  /\ op' = Stop
  /\ IF Busy THEN clearPending ELSE UNCHANGED prompts
  /\ UNCHANGED <<loopVars, settings, events, current, generations>>

\* A shutdown that does not wait for the operation.
ShutdownAtOnce ==
  /\ CanCommand /\ Use(0)
  /\ shutdown' = TRUE
  /\ op' = Stop
  /\ clearPending
  /\ Return
  /\ UNCHANGED <<cancelled, armed, settings, events, current>>

Shutdown ==
  /\ CanCommand /\ Use(0)
  /\ shutdown' = TRUE
  /\ op' = Stop
  /\ clearPending
  /\ IF Busy THEN UNCHANGED <<running, generations>> ELSE Return
  /\ UNCHANGED <<cancelled, armed, settings, events, current>>

\* resolvePermission, of the answer to a prompt the terminal has shown.
Displays(seen) == \E p \in pending : p.id = seen.id
resolve(seen) ==
  /\ \E p \in pending :
       /\ p.id = seen.id
       /\ pending' = pending \ {p}
  /\ answer = 0
  /\ answer' = seen.request
  /\ UNCHANGED asked

\* CommandResolvePermission; the scope of the answer may differ from the
\* displayed one.
ResolvePermission(seen) ==
  /\ CanCommand /\ seen \in shown
  /\ \/ /\ resolve(seen)
        /\ Use(0)
        /\ UNCHANGED <<loopVars, settings, events, op, current, generations>>
     \/ Reject

\* acknowledgeAutoShell as far as its commit, of an answer to a prompt or of none.
AcknowledgeAutoShell(seen) ==
  /\ CanCommand /\ seen \in shown \cup {Other}
  /\ \/ (seen # Other \/ session.mode # AutoMode) /\ Reject
     \/ /\ session.mode = AutoMode /\ (seen = Other \/ Displays(seen))
        /\ Use(0)
        /\ applying' = [applying EXCEPT !.shell = seen]
        /\ UNCHANGED <<loopVars, queued, session, stale, journal, policy, doubt, prompts, events, op, current, generations>>

\* CommandChangeMode: while a turn runs the last one asked for is kept.
ChangeMode(m) ==
  /\ CanCommand /\ Use(0)
  /\ IF op.kind = "turn" THEN queued' = [queued EXCEPT !.mode = m] /\ UNCHANGED applying
     ELSE applying' = [applying EXCEPT !.mode = m] /\ UNCHANGED queued
  /\ UNCHANGED <<loopVars, session, stale, journal, policy, doubt, prompts, events, op, current, generations>>

ChangeModel(m) ==
  /\ CanCommand
  /\ \/ (~ configured(m) \/ op.kind = "reload") /\ Reject
     \/ /\ configured(m) /\ op.kind # "reload"
        /\ Use(0)
        /\ IF op.kind = "turn" THEN queued' = [queued EXCEPT !.model = m] /\ UNCHANGED applying
           ELSE applying' = [applying EXCEPT !.model = m] /\ UNCHANGED queued
        /\ UNCHANGED <<loopVars, session, stale, journal, policy, doubt, prompts, events, op, current, generations>>

-----------------------------------------------------------------------------
(* Settings: RunControl in the lane, then a refresh from the journal. *)

\* An operation keeps the lane while it works; a turn gives it up while it asks.
LaneFree == ~ (op.kind \in {"turn", "compact"} /\ op.stage = "working")

Written(s, field, value) ==
  journal' = IF field = "mode" THEN [journal EXCEPT ![s].mode = value]
             ELSE [journal EXCEPT ![s].model = value]

\* commitSettingUsing and what its callers do on success: it may fail before its
\* commit, or between the commit and the refresh.
Commit(field, value) ==
  \/ /\ \/ cancelled /\ UNCHANGED spent
        \/ Faulty /\ spent' = [spent EXCEPT !.incidents = @ + 1]
     /\ publish("terminal")
     /\ UNCHANGED <<session, stale, journal, policy, doubt>>
  \/ /\ LaneFree /\ Faulty
     /\ spent' = [spent EXCEPT !.incidents = @ + 1]
     /\ Written(session.id, field, value)
     /\ doubt' = TRUE
     /\ publish("terminal")
     /\ UNCHANGED <<session, stale, policy>>
  \/ /\ LaneFree /\ ~ cancelled
     /\ Written(session.id, field, value)
     /\ session' = IF field = "mode" THEN [session EXCEPT !.mode = value]
                   ELSE [session EXCEPT !.model = value]
     /\ policy' = IF field = "mode" THEN value ELSE policy
     /\ stale' = FALSE
     /\ publish("state")
     /\ UNCHANGED <<doubt, spent>>

\* applyMode, then applyModel.
ApplyMode ==
  /\ running /\ applying.mode # None
  /\ Commit("mode", applying.mode)
  /\ applying' = [applying EXCEPT !.mode = None]
  /\ UNCHANGED <<loopVars, queued, prompts, arriving, shown, op, current, generations>>

ApplyModel ==
  /\ running /\ applying.mode = None /\ applying.model # None
  /\ Commit("model", applying.model)
  /\ applying' = [applying EXCEPT !.model = None]
  /\ UNCHANGED <<loopVars, queued, prompts, arriving, shown, op, current, generations>>

\* The rest of acknowledgeAutoShell: the commit, which changes no setting and
\* waits for a turn to give up the lane, then the answer to a prompt that may
\* have gone since.
CommitAcknowledgement ==
  /\ running /\ applying.shell # None
  /\ applying' = NoSettings
  /\ \/ /\ \/ cancelled /\ UNCHANGED spent
           \/ Faulty /\ spent' = [spent EXCEPT !.incidents = @ + 1]
        /\ publish("terminal")
        /\ UNCHANGED <<stale, prompts>>
     \/ /\ LaneFree /\ ~ cancelled
        /\ stale' = FALSE /\ UNCHANGED spent
        /\ \/ resolve(applying.shell) /\ publish("state")
           \/ applying.shell = Other /\ publish("state") /\ UNCHANGED prompts
           \/ ~ Displays(applying.shell) /\ applying.shell # Other /\ publish("terminal") /\ UNCHANGED prompts
  /\ UNCHANGED <<loopVars, queued, session, journal, policy, doubt, arriving, shown, op, current, generations>>

-----------------------------------------------------------------------------
(* Sessions. *)

Exists(s) == journal[s].model # None
Fallback(s) == ~ configured(journal[s].model) /\ configured(DefaultOf[current])

\* The selection on the screen stays when another session is adopted.
AdoptWithoutModel(s, model) ==
  /\ session' = [id |-> s, mode |-> journal'[s].mode, model |-> session.model]
  /\ policy' = journal'[s].mode
  /\ stale' = FALSE /\ doubt' = FALSE

\* The session becomes the selected one, with the policy of its own replay.
Adopt(s, model) ==
  /\ session' = [id |-> s, mode |-> journal'[s].mode, model |-> model]
  /\ policy' = journal'[s].mode
  /\ stale' = FALSE /\ doubt' = FALSE

\* openSession, whose fallback to the default model is committed through the
\* binding of the session that was selected before.
OpenSession(s) ==
  /\ CanCommand /\ Exists(s)
  /\ \/ Busy /\ Reject
     \/ /\ ~ Busy
        /\ \/ Faulty /\ Use(1)
           \/ cancelled /\ Use(0)
        /\ \/ UNCHANGED <<journal, doubt>>
           \/ Fallback(s) /\ Written(session.id, "model", DefaultOf[current]) /\ doubt' = TRUE
        /\ publish("terminal")
        /\ UNCHANGED <<loopVars, queued, applying, session, stale, policy, prompts, op, current>>
        /\ UNCHANGED <<arriving, shown, generations>>
     \/ /\ ~ Busy /\ ~ cancelled
        /\ Use(0)
        /\ IF Fallback(s)
           THEN Written(session.id, "model", DefaultOf[current]) /\ Adopt(s, DefaultOf[current])
           ELSE UNCHANGED journal /\ Adopt(s, journal[s].model)
        /\ publish("state")
        /\ UNCHANGED <<loopVars, queued, applying, prompts, op, current, arriving, shown, generations>>

\* newSession, which opens what it has created.
NewSession(s) ==
  /\ CanCommand /\ ~ Exists(s)
  /\ \/ Busy /\ Reject
     \/ /\ ~ Busy /\ ~ cancelled
        /\ Use(0)
        /\ LET model == IF configured(session.model) THEN session.model ELSE DefaultOf[current]
           IN /\ journal' = [journal EXCEPT ![s] = [mode |-> session.mode, model |-> model]]
              /\ Adopt(s, model)
        /\ publish("state")
        /\ UNCHANGED <<loopVars, queued, applying, prompts, op, current, arriving, shown, generations>>

-----------------------------------------------------------------------------
(* The goroutine of the operation. *)

Stays == <<loopVars, settings, shown, current>>
At(kinds, stage) == op.kind \in kinds /\ op.stage = stage
Goes(stage) == op' = [op EXCEPT !.stage = stage]
Finishes(out) == op' = [op EXCEPT !.stage = "finished", !.out = out]

\* The dispatcher acquires the lifecycle of the generation, for a turn only.
TurnAcquires ==
  /\ At({"turn"}, "starting")
  /\ \/ acquire(Turn, op.gen) /\ Goes("working")
     \/ life[op.gen].retired /\ Finishes("failed") /\ UNCHANGED generations
  /\ UNCHANGED <<Stays, prompts, queue, arriving, spent>>

\* An event on its way to the loop; emitters of runtime events drop what does
\* not fit.
Emits(channel) ==
  /\ At({"turn", "compact"}, "working")
  /\ spent.incidents < MaxIncidents
  /\ spent' = [spent EXCEPT !.incidents = @ + 1]
  /\ arriving' = [arriving EXCEPT ![channel] = @ + 1]
  /\ UNCHANGED <<Stays, prompts, queue, op, generations>>

\* Provider and tools write under leases on the secrets of their generation.
Works(step) ==
  /\ At({"turn", "compact"}, "working") /\ step
  /\ UNCHANGED <<Stays, prompts, queue, arriving, op, spent>>

WorkBegins == Works(AcquireExisting(op.gen, Work) \/ \E s \in Stream : OpenStream(Work, s, Work))
WorkFlushes == \E s \in Stream : Works(CloseStream(s))
WorkCloses == Works(CloseLease(Work))
WorkDrops == Works(DropLease(Work))

Idle == Free(Work) /\ \A s \in Stream : stream[s] = NoStream

\* A call that is displayed under the ID the model gave it, as others before.
DisplayedAsCalled(request) == 1

\* newDisplayedPermissionCallID: no displayed ID is used again.
displayedCallID(request) == request

\* Resolve registers the prompt, then publishes it, then waits.
TurnAsks ==
  /\ At({"turn"}, "working") /\ asked < MaxPrompts
  /\ asked' = asked + 1
  /\ pending' = pending \cup {[id |-> displayedCallID(asked + 1), request |-> asked + 1]}
  /\ Goes("asking")
  /\ UNCHANGED <<Stays, answer, queue, arriving, spent, generations>>

\* removePending, and the decision that nobody reads any more.
removePending ==
  /\ pending' = {p \in pending : p.request # asked}
  /\ answer' = 0
  /\ UNCHANGED asked

\* enqueuePublishedEvent in Resolve, of a prompt that may be gone by now.
TurnPrompts ==
  /\ At({"turn"}, "asking")
  /\ IF ~ Stopped /\ Fits("prompt")
     THEN /\ queue' = Append(queue, [id |-> displayedCallID(asked), request |-> asked])
          /\ Goes("waiting") /\ UNCHANGED prompts
     ELSE removePending /\ Goes("working") /\ UNCHANGED queue
  /\ UNCHANGED <<Stays, arriving, spent, generations>>

ResolveAnswered ==
  /\ At({"turn"}, "waiting") /\ answer # 0
  /\ removePending /\ Goes("working")
  /\ UNCHANGED <<Stays, queue, arriving, spent, generations>>

\* A Resolve that waits on the context of the application, not of its turn.
WaitOnApplication ==
  /\ At({"turn"}, "waiting") /\ cancelled
  /\ removePending /\ Goes("working")
  /\ UNCHANGED <<Stays, queue, arriving, spent, generations>>

ResolveCancelled ==
  /\ At({"turn"}, "waiting") /\ Stopped
  /\ removePending /\ Goes("working")
  /\ UNCHANGED <<Stays, queue, arriving, spent, generations>>

OperationFinishes ==
  /\ At({"turn", "compact"}, "working") /\ Idle
  /\ \E out \in Outcomes : Finishes(out)
  /\ IF op.kind = "turn" THEN release(Turn) ELSE UNCHANGED generations
  /\ UNCHANGED <<Stays, prompts, queue, arriving, spent>>

\* reloadRuntime, which loads and builds whatever becomes of its context; it
\* fails before or in build.
Reloads(g) ==
  /\ At({"reload"}, "working")
  /\ \/ /\ Build(g, g)
        /\ op' = [op EXCEPT !.stage = "finished", !.gen = g]
        /\ UNCHANGED spent
     \/ /\ Faulty /\ spent' = [spent EXCEPT !.incidents = @ + 1]
        /\ (BuildFails(g) \/ UNCHANGED generations)
        /\ Finishes("failed")
  /\ UNCHANGED <<Stays, prompts, queue, arriving>>

-----------------------------------------------------------------------------
(* The result of the operation. *)

Ended == Selecting /\ op.stage = "finished"
Fault == Faulty /\ spent' = [spent EXCEPT !.incidents = @ + 1]

\* A result after the loop was asked to stop; a candidate is not looked at.
LastResult ==
  /\ Ended /\ shutdown
  /\ op' = NoOperation
  /\ Return
  /\ UNCHANGED <<cancelled, armed, shutdown, settings, prompts, events, current, spent>>

\* drainRuntimeEvents.
drained ==
  LET room == IF cancelled THEN 0 ELSE Capacity - Len(queue)
  IN queue \o [i \in 1 .. (IF room < arriving["runtime"] THEN room ELSE arriving["runtime"]) |-> Other]

\* inspectSession after a turn or a compaction; a compaction that failed
\* without a terminal event of its own is not followed by one.
Refresh ==
  \/ /\ ~ cancelled
     /\ session' = [session EXCEPT !.mode = journal[session.id].mode, !.model = journal[session.id].model]
     /\ stale' = FALSE
     /\ UNCHANGED spent
  \/ /\ (cancelled /\ UNCHANGED spent) \/ Fault
     /\ stale' = TRUE
     /\ UNCHANGED session
  \/ /\ op.kind = "compact" /\ op.out = "failed"
     /\ UNCHANGED <<session, stale, spent>>

TakeQueued ==
  IF op.kind = "turn" THEN applying' = queued /\ queued' = NoSettings
  ELSE UNCHANGED <<applying, queued>>

\* The event of a compaction's own terminal has no place kept for it.
LastEvents == IF op.kind = "compact" THEN {"terminal", "compaction"} ELSE {"terminal"}

OperationDone ==
  /\ Ended /\ ~ shutdown /\ op.kind # "reload"
  /\ op' = NoOperation
  /\ Refresh
  /\ arriving' = [arriving EXCEPT !["runtime"] = 0]
  /\ \E kind \in LastEvents :
       IF ~ cancelled /\ Len(drained) < Room(kind)
       THEN queue' = Append(drained, Other) /\ TakeQueued /\ UNCHANGED <<running, generations>>
       ELSE queue' = drained /\ UNCHANGED <<queued, applying>> /\ Return
  /\ UNCHANGED <<cancelled, armed, shutdown, prompts, journal, policy, doubt, current, shown>>

\* completeReload of a candidate that is given up: its selection may have been
\* committed, and taken over, before the activation failed.
GiveUp(g) ==
  /\ \/ UNCHANGED <<session, journal, doubt>>
     \/ /\ session.model \notin ModelsOf[g]
        /\ Written(session.id, "model", DefaultOf[g])
        /\ \/ doubt' = TRUE /\ UNCHANGED session
           \/ session' = [session EXCEPT !.model = DefaultOf[g]] /\ UNCHANGED doubt
  /\ Fault \/ (cancelled /\ UNCHANGED spent)
  /\ retire(g)
  /\ UNCHANGED current

TakeOver(g) ==
  /\ ~ cancelled
  /\ IF session.model \in ModelsOf[g] THEN UNCHANGED <<session, journal>>
     ELSE /\ Written(session.id, "model", DefaultOf[g])
          /\ session' = [session EXCEPT !.model = DefaultOf[g]]
  /\ current' = g
  /\ retire(current)
  /\ UNCHANGED <<doubt, spent>>

CompleteReload ==
  /\ Ended /\ ~ shutdown /\ op.kind = "reload"
  /\ op' = NoOperation
  /\ IF op.out = "failed" THEN UNCHANGED <<session, journal, doubt, current, spent, generations>>
     ELSE GiveUp(op.gen) \/ TakeOver(op.gen)
  /\ publish("terminal")
  /\ UNCHANGED <<loopVars, queued, applying, stale, policy, prompts, arriving, shown>>

\* The close function of a retired generation, in the goroutine that ran into it.
Closing(g) ==
  /\ \/ Retire(g)
     \/ life[g].stores = "closed" /\ (CloseLease(g) \/ DropLease(g))
  /\ UNCHANGED app

-----------------------------------------------------------------------------
Loop ==
  \/ Notice \/ LastResult \/ OperationDone \/ CompleteReload \/ ApplyMode \/ ApplyModel \/ CommitAcknowledgement
  \/ \E channel \in {"runtime", "protocol"} : Forward(channel)

Commands ==
  \/ StartTurn \/ Compact \/ ReloadConfig \/ CancelTurn \/ Shutdown
  \/ \E seen \in shown : ResolvePermission(seen)
  \/ \E seen \in shown \cup {Other} : AcknowledgeAutoShell(seen)
  \/ \E m \in Mode : ChangeMode(m)
  \/ \E m \in Model : ChangeModel(m)
  \/ \E s \in Session : OpenSession(s) \/ NewSession(s)

Operation ==
  \/ TurnAcquires \/ WorkBegins \/ WorkFlushes \/ WorkCloses \/ WorkDrops \/ TurnAsks \/ TurnPrompts \/ ResolveAnswered \/ ResolveCancelled
  \/ OperationFinishes
  \/ \E channel \in {"runtime", "protocol"} : Emits(channel)
  \/ \E g \in Generation : Reloads(g)

Next == Loop \/ Commands \/ Operation \/ Show \/ Cancel \/ \E g \in Generation : Closing(g)

Spec == Init /\ [][Next]_vars

\* The scheduler runs every goroutine, select picks every ready case in the
\* end, the terminal reads its events; a turn or a compaction that is done with
\* its work again and again ends.  Users and faults owe nothing.
Fairness ==
  /\ WF_vars(Notice) /\ WF_vars(LastResult) /\ WF_vars(OperationDone) /\ WF_vars(CompleteReload)
  /\ WF_vars(ApplyMode) /\ WF_vars(ApplyModel) /\ WF_vars(CommitAcknowledgement)
  /\ \A channel \in {"runtime", "protocol"} : WF_vars(Forward(channel))
  /\ WF_vars(TurnAcquires) /\ WF_vars(TurnPrompts) /\ WF_vars(ResolveAnswered) /\ WF_vars(ResolveCancelled)
  /\ WF_vars(WorkFlushes) /\ WF_vars(WorkCloses) /\ WF_vars(WorkDrops) /\ SF_vars(OperationFinishes)
  /\ WF_vars(\E g \in Generation : Reloads(g))
  /\ WF_vars(Show)

FairSpec == Spec /\ Fairness

-----------------------------------------------------------------------------
(* Properties. *)

\* App.Run and completeReload: as long as a turn or a compaction works, nobody
\* closes the stores of its generation or drops its secrets; for a compaction,
\* which does not acquire the lifecycle, only the order of the loop sees to it.
OperationKeepsItsRuntime ==
  At({"turn", "compact"}, "working") => life[op.gen].stores = "open" /\ entry[op.gen].held

\* resolvePermission, and Resolve's deferred removePending against clearPending
\* and cancellation: a decision reaches the request the user saw and no other,
\* although prompts of cancelled turns stay on the screen, and what can still be
\* answered is the request that is being waited for.
AnswersTheRightRequest ==
  /\ answer # 0 => op.stage \in {"asking", "waiting"} /\ answer = asked
  /\ \A p \in pending : op.stage \in {"asking", "waiting"} /\ p.request = asked

\* The mode that is shown is enforced and durable.
PolicyFollowsSession ==
  ~ doubt => policy = session.mode /\ session.mode = journal[session.id].mode

\* openSession shows the default of its generation where the journal of the
\* session holds a selection that generation does not know, and commits it to
\* the session that was selected before.
FellBack ==
  \E g \in Generation :
    entry[g].known /\ session.model = DefaultOf[g] /\ journal[session.id].model \notin ModelsOf[g]

ModelFollowsSession ==
  ~ doubt => session.model = journal[session.id].model \/ FellBack

\* applyMode, applyModel, openSession, newSession, completeReload, and the
\* refresh after a turn: what the terminal shows of the selected session is what
\* the policy enforces and what the session's own journal will bring back,
\* unless a commit went through whose refresh failed.
SettingsFollowSession == PolicyFollowsSession /\ ModelFollowsSession

\* CommandCancelTurn, clearPending and the contexts of operations: an operation
\* that was told to stop does, also while it waits for an answer, and the end of
\* the context of Run ends Run, once the turn or compaction that is running has
\* ended.
StoppedOperationsEnd ==
  /\ (Busy /\ Stopped) ~> ~ Busy
  /\ (cancelled /\ op.kind \in {"turn", "compact"}) ~> ~ running
=============================================================================
