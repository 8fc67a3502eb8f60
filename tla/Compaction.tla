---------------------------- MODULE Compaction ----------------------------
(***************************************************************************)
(* Compaction of a session: RunCompaction of orchestrator/compaction.go    *)
(* (the command /compact), compactWithinTurn (before a request of a turn   *)
(* whose context is nearly full), and the turns that make the context they *)
(* summarise.                                                              *)
(*                                                                         *)
(* A turn and a manual compaction hold the operation lane; the turn lends  *)
(* it while the user is asked for an approval.  A compaction takes no      *)
(* lease of the session's turn, so another process may run a turn beside   *)
(* it; what keeps them apart is the expected head of every append.  A      *)
(* transaction is one step.  The appends of a turn fail or succeed; that   *)
(* one of them is reported unknown is the matter of Turn.                  *)
(***************************************************************************)
EXTENDS Lane, ContextPlan

CONSTANTS
  runner,       \* the claim of the process's turns; the other operations are /compact
  MaxTurns,     \* bound: turns of the process
  MaxRounds,    \* bound: requests to the provider in a turn
  MaxCalls,     \* bound: calls of an assistant message
  MaxCommands,  \* bound: accepted compaction commands
  MaxForeign,   \* bound: turns of the other process
  MaxFaults     \* bound: stops, and appends and publications that fail

ASSUME CompactionAssumption ==
  /\ runner \in Operation
  /\ {MaxTurns, MaxRounds, MaxCalls, MaxCommands, MaxForeign, MaxFaults} \subseteq Nat

Jobs == Operation \ {runner}

VARIABLES
  log,      \* the session journal, see ContextPlan
  head,     \* the number of its events
  evidence, \* the stored summaries: 0, or the command that had it made
  cmds,     \* the compaction commands in the journal
  me,       \* the turn of the process
  job,      \* operation -> its RunCompaction
  up,       \* the process runs
  faults

journal == <<log, head, evidence, cmds>>
lane == <<held, waiters, granted, pc>>
cvars == <<log, head, evidence, cmds, me, job, up, faults, held, waiters, granted, pc>>
\* An accepted command: the cursor it was given (and named after), its activity's
\* events, its terminals, and the compaction event it asked for.
Command(asked) == [asked |-> asked, act |-> <<>>, ends |-> <<>>]

NoRange == [from |-> 0, thru |-> 0]
IdleTurn == [at |-> "idle", turn |-> 0, head |-> 0, round |-> 0, calls |-> 0, call |-> 0,
             rebuilt |-> FALSE, lent |-> FALSE, range |-> NoRange]
NoJob == [at |-> "off", asked |-> 0, head |-> 0, cmd |-> 0, range |-> NoRange,
          planned |-> FALSE, closed |-> FALSE, evidence |-> 0, cause |-> "failed"]

CInit ==
  /\ Init
  /\ log = <<>> /\ head = 0 /\ evidence = <<>> /\ cmds = <<>>
  /\ me = IdleTurn
  /\ job = [j \in Jobs |-> NoJob]
  /\ up = TRUE
  /\ faults = 0

Fault == faults < MaxFaults /\ faults' = faults + 1

\* Turns with a user message and without an end; odd numbers are this process's.
Active == {log[i].turn : i \in {i \in Indices(log, {"user"}) : EndsOf(log, i) = {}}}
Begun(foreign) == Cardinality({i \in Indices(log, {"user"}) : (log[i].turn % 2 = 0) = foreign})

Stored == DOMAIN evidence
Summary == Resolved(log, Stored)

\* The events of a turn's first two transactions, of a request and of its answer.
Opening(at, t) == <<Event(at + 3, "user", t, 0), Event(at + 6, "contract", t, 0)>>
OpeningSize == 8
Planning == 4      \* context plan, capability, activity, authorization request
Authorising == 4   \* decision and authorised, consumed and started
Ending == 3        \* the end of the turn, the task, the command

-----------------------------------------------------------------------------
(* The turn of this process.                                               *)

Holds == pc[runner] = "running"

\* An append of the turn: it needs the head the turn knows.
Extend(n, events, at) ==
  /\ me.head = head
  /\ log' = log \o events /\ head' = head + n
  /\ me' = [at EXCEPT !.head = head + n]
  /\ UNCHANGED <<cmds, job, up, faults>>

AskTurn ==
  /\ up /\ me.at = "idle" /\ Active = {} /\ Begun(FALSE) < MaxTurns
  /\ Acquire(runner)
  /\ me' = [IdleTurn EXCEPT !.at = "lane", !.head = head, !.turn = 2 * Begun(FALSE) + 1]
  /\ UNCHANGED <<journal, job, up, faults>>

\* Its context ends in the queue.
TurnGivesUp ==
  /\ me.at = "lane" /\ GiveUp(runner)
  /\ me' = IdleTurn
  /\ UNCHANGED <<journal, job, up, faults>>

\* The turn lease: the head has moved, or a turn is active.
TurnRefused ==
  /\ me.at = "lane" /\ Holds
  /\ me.head # head \/ Active # {}
  /\ Release(runner)
  /\ me' = IdleTurn
  /\ UNCHANGED <<journal, job, up, faults>>

OpenTurn ==
  /\ me.at = "lane" /\ Holds /\ Active = {}
  /\ Extend(OpeningSize, Opening(head, me.turn), [me EXCEPT !.at = "plan"])
  /\ UNCHANGED <<evidence, lane>>

\* runProviderActivity up to the append of the plan.
PlanRequest ==
  /\ me.at = "plan" /\ Holds
  /\ LET plan == Plan(log, Summary)
         due == ShouldCompact(plan) /\ ~ me.rebuilt
         outcome == SelectionOutcome(log, head)
     IN \/ /\ ~ Plannable(log, Summary) \/ (due /\ outcome \in {"broken", "too large"})
           /\ me' = [me EXCEPT !.at = "failing"]
           /\ UNCHANGED <<journal, job, up, faults>>
        \/ /\ Plannable(log, Summary) /\ due /\ outcome = "range"
           /\ Extend(2, <<>>, [me EXCEPT !.at = "compact", !.range = Select(log, head)])
           /\ UNCHANGED evidence
        \/ /\ Plannable(log, Summary) /\ (~ due \/ outcome = "nothing")
           /\ Extend(Planning, <<>>, [me EXCEPT !.at = "request"])
           /\ UNCHANGED evidence
  /\ UNCHANGED lane

\* awaitInteractiveApproval: the lane is free while the user is asked.
Lend ==
  /\ me.at \in {"compact", "request", "call"} /\ ~ me.lent
  /\ Yield(runner)
  /\ me' = [me EXCEPT !.lent = TRUE]
  /\ UNCHANGED <<journal, job, up, faults>>

TakeBack == pc[runner] = "lent" /\ Reacquire(runner) /\ UNCHANGED <<journal, me, job, up, faults>>

\* The cleanup timeout of five seconds: the turn goes on without its slot, to fail.
TakeBackFails ==
  /\ pc[runner] = "requeued" /\ GiveUp(runner)
  /\ me' = [me EXCEPT !.at = "failing"]
  /\ UNCHANGED <<journal, job, up, faults>>

\* authorizeActivity; reconcileInteractiveApprovalJournal finds the head it left.
Authorise ==
  /\ me.at \in {"compact", "request", "call"} /\ Holds
  /\ LET next == CASE me.at = "compact" -> "summary" [] me.at = "request" -> "answer" [] OTHER -> "tool"
         facts == IF me.at = "call" THEN Authorising + 2 ELSE Authorising
         started == IF me.at = "call" THEN <<Event(head + facts, "started", me.turn, me.call)>> ELSE <<>>
     IN Extend(facts, started, [me EXCEPT !.at = next, !.lent = FALSE])
  /\ UNCHANGED <<evidence, lane>>

\* compactWithinTurn, from the summary to the append that activates it.
SummariseInTurn ==
  /\ me.at = "summary" /\ Holds
  /\ evidence' = Append(evidence, 0)
  /\ Extend(2, <<Compacted(head + 2, me.turn, Len(evidence'), me.range)>>,
             [me EXCEPT !.at = "plan", !.rebuilt = TRUE])
  /\ UNCHANGED lane

\* The provider answers; the last request of the bound gets no calls.
Answer ==
  /\ me.at = "answer" /\ Holds
  /\ \E n \in 0 .. (IF me.round < MaxRounds THEN MaxCalls ELSE 0) :
       Extend(3, <<Event(head + 1, "assistant", me.turn, n)>>,
               [me EXCEPT !.at = IF n = 0 THEN "finish" ELSE "call", !.calls = n, !.call = 1,
                          !.round = @ + 1, !.rebuilt = FALSE])
  /\ UNCHANGED <<evidence, lane>>

ToolResult ==
  /\ me.at = "tool" /\ Holds
  /\ Extend(2, <<Event(head + 1, "tool", me.turn, me.call)>>,
             [me EXCEPT !.at = IF me.call = me.calls THEN "plan" ELSE "call", !.call = @ + 1])
  /\ UNCHANGED <<evidence, lane>>

FinishTurn ==
  /\ me.at = "finish" /\ Holds
  /\ log' = Append(log, Event(head + 4, "end", me.turn, 1)) /\ head' = head + 3 + Ending
  /\ me.head = head
  /\ me' = IdleTurn
  /\ Release(runner)
  /\ UNCHANGED <<evidence, cmds, job, up, faults>>

\* A call, an append or a provider fails, the user denies or cancels.  The effect
\* of a tool that was dispatched is unknown: its turn is left to recovery.
TurnTrouble ==
  /\ me.at \in {"compact", "summary", "request", "answer", "call", "tool", "finish"} /\ Holds /\ Fault
  /\ \/ /\ me.at # "tool" /\ me' = [me EXCEPT !.at = "failing"] /\ UNCHANGED <<evidence, lane>>
     \/ /\ me.at = "summary" /\ me' = [me EXCEPT !.at = "failing"]
        /\ evidence' = Append(evidence, 0) /\ UNCHANGED lane
     \/ /\ me.at = "tool" /\ me' = IdleTurn /\ Release(runner) /\ UNCHANGED evidence
  /\ UNCHANGED <<log, head, cmds, job, up>>

\* What failed before its dispatch gets an answer if it is a call.
CleanupAnswer == IF 0 < me.call /\ me.call <= me.calls THEN <<Event(head + 1, "tool", me.turn, me.call)>> ELSE <<>>

\* terminalizeTurnFailure.
FailTurn ==
  /\ me.at = "failing" /\ pc[runner] \in {"running", "stranded"}
  /\ me.head = head
  /\ LET end == head + 2 + Len(CleanupAnswer)
     IN log' = log \o Append(CleanupAnswer, Event(end, "end", me.turn, 0)) /\ head' = end - 1 + Ending
  /\ me' = IdleTurn
  /\ Release(runner)
  /\ UNCHANGED <<evidence, cmds, job, up, faults>>

-----------------------------------------------------------------------------
(* The command /compact.                                                   *)

Job(j) == job[j]
Set(j, value) == job' = [job EXCEPT ![j] = value]
Leave(j) == Set(j, NoJob) /\ Release(j)
Cmd(j, field, value) == [cmds EXCEPT ![Job(j).cmd][field] = Append(@, value)]

\* The cursor is read before the lane is asked for.
AskCompaction(j) ==
  /\ up /\ Job(j).at = "off" /\ Len(cmds) < MaxCommands
  /\ Acquire(j)
  /\ Set(j, [NoJob EXCEPT !.at = "lane", !.asked = head])
  /\ UNCHANGED <<journal, me, up, faults>>

CompactionRefused(j) ==
  /\ Job(j).at = "lane" /\ GiveUp(j) /\ Set(j, NoJob)
  /\ UNCHANGED <<journal, me, up, faults>>

\* An inspection that does not ask whether a turn is active.
InspectHeadOnly(j) == Job(j).asked = head

\* LookupCommand finds nothing, ActiveTurn finds this head and no turn.
Inspect(j) ==
  /\ \A c \in DOMAIN cmds : cmds[c].asked # Job(j).asked
  /\ Job(j).asked = head
  /\ Active = {}

StartCompaction(j) ==
  /\ Job(j).at = "lane" /\ pc[j] = "running"
  /\ IF Inspect(j) /\ SelectionOutcome(log, head) = "range"
       THEN Set(j, [Job(j) EXCEPT !.at = "accept", !.head = head, !.range = Select(log, head)])
            /\ UNCHANGED lane
       ELSE Leave(j)
  /\ UNCHANGED <<journal, me, up, faults>>

\* An append that goes to the head of the journal, wherever that is.
OutcomesAtAnyHead(j) ==
  IF faults < MaxFaults THEN {"ok", "refused", "unknown", "lost", "unpublished"} ELSE {"ok"}

\* The outcomes of an append and its publication: "unknown" left nothing, "lost"
\* is in the journal and reported unknown, "unpublished" is known to be there.
Outcomes(j) ==
  IF Job(j).head # head THEN {"refused"}
  ELSE IF faults < MaxFaults THEN {"ok", "refused", "unknown", "lost", "unpublished"} ELSE {"ok"}

Lands(o) == o \in {"ok", "lost", "unpublished"}
Uncertain(o) == o \in {"unknown", "lost"}

\* appendCompaction of n events: on success the job goes on as next; an uncertain
\* commit ends it, any other failure is terminalised.
Write(j, o, n, events, commands, next) ==
  /\ o \in Outcomes(j)
  /\ faults' = IF o = "ok" \/ Job(j).head # head THEN faults ELSE faults + 1
  /\ IF Lands(o) THEN log' = log \o events /\ head' = head + n /\ cmds' = commands
                 ELSE UNCHANGED <<log, head, cmds>>
  /\ CASE o = "ok" -> Set(j, [next EXCEPT !.head = head + n]) /\ UNCHANGED lane
       [] Uncertain(o) -> Leave(j)
       [] o = "refused" -> Set(j, [Job(j) EXCEPT !.at = "failing"]) /\ UNCHANGED lane
       [] o = "unpublished" -> Set(j, [Job(j) EXCEPT !.at = "failing", !.head = head + n]) /\ UNCHANGED lane
  /\ UNCHANGED <<me, up>>

\* The deferred terminalisation looks at state.accepted, which is set after the
\* publication.
Accept(j) ==
  /\ Job(j).at = "accept"
  /\ \E o \in Outcomes(j) :
       /\ faults' = IF o = "ok" \/ Job(j).head # head THEN faults ELSE faults + 1
       /\ IF Lands(o) THEN head' = head + 1 /\ cmds' = Append(cmds, Command(Job(j).asked))
                      ELSE UNCHANGED <<head, cmds>>
       /\ IF o = "ok"
            THEN Set(j, [Job(j) EXCEPT !.at = "plan", !.head = head + 1, !.cmd = Len(cmds) + 1])
                 /\ UNCHANGED lane
            ELSE Leave(j)
  /\ UNCHANGED <<log, evidence, me, up>>

PlanActivity(j) ==
  /\ Job(j).at = "plan"
  /\ \E o \in Outcomes(j) :
       Write(j, o, 2, <<>>, Cmd(j, "act", "planned"), [Job(j) EXCEPT !.at = "decide", !.planned = TRUE])
  /\ UNCHANGED evidence

AllowCompaction(j) ==
  /\ Job(j).at = "decide"
  /\ \E o \in Outcomes(j) :
       Write(j, o, 2, <<>>, Cmd(j, "act", "authorized"), [Job(j) EXCEPT !.at = "start"])
  /\ UNCHANGED evidence

DenyCompaction(j) ==
  /\ Job(j).at = "decide"
  /\ \E o \in Outcomes(j) :
       Write(j, o, 2, <<>>, Cmd(j, "act", "denied"),
             [Job(j) EXCEPT !.at = "failing", !.closed = TRUE, !.cause = "denied"])
  /\ UNCHANGED evidence

StartActivity(j) ==
  /\ Job(j).at = "start"
  /\ \E o \in Outcomes(j) :
       Write(j, o, 2, <<>>, Cmd(j, "act", "started"), [Job(j) EXCEPT !.at = "summary"])
  /\ UNCHANGED evidence

\* The stream ends with a summary that ParseSummary admits, and Put stores it.
Summarise(j) ==
  /\ Job(j).at = "summary"
  /\ evidence' = Append(evidence, Job(j).cmd)
  /\ Set(j, [Job(j) EXCEPT !.at = "final", !.evidence = Len(evidence')])
  /\ UNCHANGED <<log, head, cmds, me, up, faults, lane>>

\* Negotiation, preparation, approval, issue, stream, summary or evidence fails,
\* or the user cancels.
CompactionTrouble(j) ==
  /\ Job(j).at \in {"plan", "decide", "summary"}
  /\ \E cause \in {"failed", "cancelled"} : Set(j, [Job(j) EXCEPT !.at = "failing", !.cause = cause])
  /\ UNCHANGED <<journal, me, up, faults, lane>>

FinalEvents(j) == <<Compacted(head + 2, 0, Job(j).evidence, Job(j).range)>>
FinalCommand(j) ==
  [cmds EXCEPT ![Job(j).cmd] = [@ EXCEPT !.act = Append(cmds[Job(j).cmd].act, "succeeded"),
                                         !.ends = <<"completed">>]]

\* state.terminal looks only at the error of the last append.
ActivateForgetful(j) ==
  /\ Job(j).at = "final"
  /\ \E o \in Outcomes(j) :
       /\ faults' = IF o = "ok" \/ Job(j).head # head THEN faults ELSE faults + 1
       /\ IF Lands(o) THEN log' = log \o FinalEvents(j) /\ head' = head + 3 /\ cmds' = FinalCommand(j)
                      ELSE UNCHANGED <<log, head, cmds>>
       /\ IF o \in {"refused", "unpublished"}
            THEN Set(j, [Job(j) EXCEPT !.at = "failing", !.head = head']) /\ UNCHANGED lane
            ELSE Leave(j)
  /\ UNCHANGED <<evidence, me, up>>

\* The append that activates the summary; state.terminal is set by the cursor it
\* was committed at, also if its publication fails.
Activate(j) ==
  /\ Job(j).at = "final"
  /\ \E o \in Outcomes(j) :
       /\ faults' = IF o = "ok" \/ Job(j).head # head THEN faults ELSE faults + 1
       /\ IF Lands(o) THEN log' = log \o FinalEvents(j) /\ head' = head + 3 /\ cmds' = FinalCommand(j)
                      ELSE UNCHANGED <<log, head, cmds>>
       /\ IF o = "refused" THEN Set(j, [Job(j) EXCEPT !.at = "failing"]) /\ UNCHANGED lane
                           ELSE Leave(j)
  /\ UNCHANGED <<evidence, me, up>>

\* terminalizeCompactionFailure: the activity's outcome if it has none yet, and
\* the command's.
Failure(j) ==
  LET act == IF Job(j).evidence # 0 THEN "succeeded" ELSE Job(j).cause
      open == Job(j).planned /\ ~ Job(j).closed
  IN [cmds EXCEPT ![Job(j).cmd] =
        [@ EXCEPT !.act = IF open THEN Append(cmds[Job(j).cmd].act, act) ELSE cmds[Job(j).cmd].act,
                  !.ends = Append(cmds[Job(j).cmd].ends, Job(j).cause)]]

Terminalise(j) ==
  /\ Job(j).at = "failing"
  /\ \E o \in Outcomes(j) :
       /\ faults' = IF o = "ok" \/ Job(j).head # head THEN faults ELSE faults + 1
       /\ IF Lands(o) THEN head' = head + (IF Job(j).planned /\ ~ Job(j).closed THEN 2 ELSE 1) /\ cmds' = Failure(j)
                      ELSE UNCHANGED <<head, cmds>>
  /\ Leave(j)
  /\ UNCHANGED <<log, evidence, me, up>>

-----------------------------------------------------------------------------
(* What happens around them.                                               *)

WokenUp == up /\ (\E o \in Operation : Wake(o)) /\ UNCHANGED <<journal, me, job, up, faults>>

\* The process dies; or the user leaves it, when a turn stayed active.
Stop ==
  /\ up
  /\ \/ Fault
     \/ me.at = "idle" /\ Active # {} /\ (\A j \in Jobs : Job(j).at = "off") /\ UNCHANGED faults
  /\ up' = FALSE
  /\ held' = FALSE /\ waiters' = <<>> /\ granted' = {} /\ pc' = [o \in Operation |-> "idle"]
  /\ me' = IdleTurn /\ job' = [j \in Jobs |-> NoJob]
  /\ UNCHANGED journal

\* The tool calls of turn t that were started and have no answer.
Unknown(t) ==
  {log[i].n : i \in {i \in Indices(log, {"started"}) :
                       log[i].turn = t /\ ~ \E j \in Indices(log, {"tool"}) : i < j}}

\* The next start ends the turn that was left active; a tool that had been started
\* gets its uncertain answer in the same transaction.
Recover ==
  /\ ~ up /\ up' = TRUE
  /\ \/ (\A t \in Active : t % 2 = 0) /\ UNCHANGED <<log, head>>
     \/ \E t \in Active :
          /\ t % 2 = 1 /\ Unknown(t) = {}
          /\ log' = Append(log, Event(head + 1, "end", t, 0)) /\ head' = head + Ending
     \/ \E t \in Active : \E n \in Unknown(t) :
          /\ log' = log \o <<Event(head + 1, "tool", t, n), Event(head + 3, "end", t, 0)>>
          /\ head' = head + 2 + Ending
  /\ UNCHANGED <<evidence, cmds, me, job, faults, lane>>

\* The other process opens a turn, under the turn lease ...
ForeignOpens ==
  /\ Active = {} /\ Begun(TRUE) < MaxForeign
  /\ log' = log \o Opening(head, 2 * Begun(TRUE) + 2) /\ head' = head + OpeningSize
  /\ UNCHANGED <<evidence, cmds, me, job, up, faults, lane>>

\* ... and ends it, with an answer or without one to a call, after a compaction
\* of its own or without.
ForeignEnds ==
  /\ \E t \in Active, n \in 0 .. 1, compact \in BOOLEAN :
       /\ t % 2 = 0
       /\ compact => SelectionOutcome(log, head) = "range"
       /\ LET at == head + (IF compact THEN 8 ELSE 0)
              end == at + Planning + Authorising + 3 + (IF n = 0 THEN 4 ELSE 1)
              made == IF compact THEN <<Compacted(at, t, Len(evidence) + 1, Select(log, head))>> ELSE <<>>
          IN /\ log' = log \o made \o <<Event(at + Planning + Authorising + 1, "assistant", t, n),
                                        Event(end, "end", t, 1 - n)>>
             /\ head' = end - 1 + Ending
       /\ evidence' = IF compact THEN Append(evidence, 0) ELSE evidence
  /\ UNCHANGED <<cmds, me, job, up, faults, lane>>

RunTurn ==
  \/ AskTurn \/ TurnGivesUp \/ TurnRefused \/ OpenTurn \/ PlanRequest \/ Lend \/ TakeBack
  \/ TakeBackFails \/ Authorise \/ SummariseInTurn \/ Answer \/ ToolResult \/ FinishTurn
  \/ TurnTrouble \/ FailTurn

RunCompaction(j) ==
  \/ AskCompaction(j) \/ CompactionRefused(j) \/ StartCompaction(j) \/ Accept(j) \/ PlanActivity(j) \/ AllowCompaction(j) \/ DenyCompaction(j)
  \/ StartActivity(j) \/ Summarise(j) \/ CompactionTrouble(j) \/ Activate(j) \/ Terminalise(j)

CNext ==
  \/ RunTurn \/ WokenUp \/ Stop \/ Recover \/ ForeignOpens \/ ForeignEnds
  \/ \E j \in Jobs : RunCompaction(j)

CSpec == CInit /\ [][CNext]_cvars

-----------------------------------------------------------------------------
Compactions == Indices(log, {"compacted"})

\* planner.go and selector.go: after any sequence of turns that complete, fail, are
\* cancelled or interrupted, and of compactions between and inside them, the next
\* request can be planned: no exchange is torn apart by the range of a summary, and
\* no summary stands between a call and its answer.
ContextAlwaysPlans == Active = {} \/ me.at = "plan" => Plannable(log, Summary)

\* selector.go: no event is summarised twice, also when two processes and two kinds
\* of compaction choose their ranges at different times.
SummarisedOnce ==
  \A i, k \in Compactions : i < k => log[i].thru < log[k].from

\* compaction.go: a command gets at most one terminal, whatever append or publication
\* fails; it says "completed" just when the journal holds a compaction by a summary
\* made for it, and its activity succeeded only if a summary was stored.
CompactionTellsTruth ==
  \A c \in DOMAIN cmds :
    LET its == {i \in Compactions : evidence[log[i].n] = c}
    IN /\ Len(cmds[c].ends) <= 1
       /\ cmds[c].ends = <<"completed">> <=> its # {}
       /\ (\E i \in DOMAIN cmds[c].act : cmds[c].act[i] = "succeeded") => c \in {evidence[n] : n \in Stored}

\* "compaction requires an idle session": no summary of the command /compact stands
\* inside a turn, although a turn lends the lane and another process needs none.
CompactionIsIdle ==
  \A k \in Compactions : log[k].turn = 0 =>
    \A i \in Indices(log, {"user"}) : i < k => \E e \in EndsOf(log, i) : e < k
=============================================================================
