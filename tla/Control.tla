------------------------------- MODULE Control -------------------------------
(***************************************************************************)
(* Control operations on the journals of one workspace                     *)
(* (orchestrator/service.go: RunControl; orchestrator/recovery.go:         *)
(* RecoverTurn; app/bootstrap.go, app/runtime_support.go).  Processes that *)
(* share a control journal and one selected session activate their runtime,*)
(* recover the session before they use it, change settings of the session  *)
(* and record decisions on project skills.  Every append expects a head    *)
(* that was read earlier, may be refused, may commit without the caller    *)
(* learning of it, and a process may die between any two steps.            *)
(* Inside one process the operation lane runs one operation at a time.     *)
(***************************************************************************)
EXTENDS Integers, Sequences, FiniteSets

CONSTANTS
    Proc,           \* processes that open the workspace
    None,
    MaxCalls,       \* bound on starts, commands and commits of turns and others
    MaxMishaps,     \* bound on failures
    MaxDeaths       \* bound on deaths of processes

\* Commands are named by what their caller read or counted; a recovery by the storage
\* it inspected and the number of its attempt on it.
Kinds == {"activate", "setting", "trust", "recover"}
Storages == {"recover"} \X Nat \X BOOLEAN
Commands == ((Kinds \ {"recover"}) \X Nat) \cup ({"recover"} \X Nat \X BOOLEAN \X Nat)

ASSUME NoneAssumption == None \notin Commands

VARIABLES
    control,        \* the workspace-control journal: one record per transaction
    session,        \* the journal of the selected session
    torn,           \* the journals that end in an incomplete transaction
    open,           \* the session has a turn whose process is gone
    lease,          \* who holds the recovery lease of that turn
    op,             \* the operation of each process
    calls, mishaps, deaths

journals == <<control, session, torn, open>>
bounds == <<calls, mishaps, deaths>>
vars == <<journals, lease, op, bounds>>

Journal == {"control", "session"}
\* kind: what is run; cmd: its command ID; head, shead: the heads expected next;
\* ready: the process finished its bootstrap.
Down == [at |-> "down", kind |-> None, cmd |-> None, head |-> 0, shead |-> 0,
         ready |-> FALSE]
Idle == [Down EXCEPT !.at = "idle", !.ready = TRUE]
Rec(cmd, step) == [cmd |-> cmd, step |-> step]

Holds(log, cmd, step) == \E i \in 1..Len(log) : log[i] = Rec(cmd, step)
\* LookupCommand: the terminal of a command, "accepted", or None.
Found(cmd) ==
    CASE Holds(control, cmd, "completed") -> "completed"
      [] Holds(control, cmd, "failed") -> "failed"
      [] Holds(control, cmd, "planned") -> "accepted"
      [] OTHER -> None

Init == /\ control = <<>> /\ session = <<>> /\ torn = {}
        /\ open = FALSE /\ lease = None
        /\ op = [p \in Proc |-> Down]
        /\ calls = 0 /\ mishaps = 0 /\ deaths = 0

Places == {"down", "idle", "inspect", "identify", "expect", "enter", "plan", "decide", "start",
           "effect", "close", "finish", "failing"}
Steps == {"planned", "allowed", "denied", "started", "completed", "failed", "changed", "recovered",
          "closed", "other"}
Record == [cmd : Commands \cup {None}, step : Steps]
Operation == [at : Places, kind : Kinds \cup {None}, cmd : Commands \cup Storages \cup {None},
              head : Nat, shead : Nat, ready : BOOLEAN]

TypeOK ==
    /\ control \in Seq(Record) /\ session \in Seq(Record)
    /\ torn \subseteq Journal /\ open \in BOOLEAN /\ lease \in Proc \cup {None}
    /\ op \in [Proc -> Operation]
    /\ calls \in Nat /\ mishaps \in Nat /\ deaths \in Nat

\* The kinds of an operation that changes the session too.
Consequential == {"setting", "recover"}

Goto(p, step) == op' = [op EXCEPT ![p].at = step]
Freed(p) == IF lease = p THEN None ELSE lease
\* The call returns; during bootstrap an error ends the process (Bootstrap).
Fail(p) == /\ op' = [op EXCEPT ![p] = IF op[p].ready THEN Idle ELSE Down]
           /\ lease' = Freed(p)
Done(p) ==
    /\ op' = [op EXCEPT ![p] = IF op[p].kind = "activate" THEN [op[p] EXCEPT !.at = "inspect"]
                               ELSE Idle]
    /\ lease' = Freed(p)
\* The error of an accepted operation leads to a terminal (terminalizeControlFailure).
Failing(p) == /\ op' = [op EXCEPT ![p].at = "failing", ![p].shead = 0] /\ UNCHANGED lease
On(p, step) == Goto(p, step) /\ UNCHANGED lease

Outcome == {"done", "unpublished", "unseen", "lost"}
\* appendBatch with the expected head h.  "unpublished": committed, but the
\* publisher fails; "unseen": committed, but the outcome stays unknown; "lost":
\* an error before it (approver, generation, context) or in its middle; "refused": the head moved,
\* the transaction is there already, or the journal ends in a torn one.
Commit(j, log, h, rec, out) ==
    IF j \in torn \/ Len(log) # h \/ (\E i \in 1..Len(log) : log[i] = rec)
    THEN out = "refused" /\ UNCHANGED journals /\ UNCHANGED bounds
    ELSE /\ out \in Outcome /\ UNCHANGED <<open, calls, deaths>>
         /\ out # "done" => mishaps < MaxMishaps
         /\ mishaps' = IF out = "done" THEN mishaps ELSE mishaps + 1
         /\ control' = IF j = "control" /\ out # "lost" THEN Append(control, rec) ELSE control
         /\ session' = IF j = "session" /\ out # "lost" THEN Append(session, rec) ELSE session
         /\ torn' \in IF out = "lost" THEN {torn, torn \cup {j}} ELSE {torn}
Moved(out) == out \in {"done", "unpublished"}
Write(p, step, out) == Commit("control", control, op[p].head, Rec(op[p].cmd, step), out)
\* The operation goes on at a step, with the head its commit moved to.
Advanced(p, step) ==
    /\ op' = [op EXCEPT ![p].at = step, ![p].head = op[p].head + 1]
    /\ UNCHANGED lease
Outcomes == Outcome \cup {"refused"}

-----------------------------------------------------------------------------
(* The bootstrap of a process, and the commands of one that is ready.      *)

\* activateRuntimeGeneration, with a command ID of its own.
Start(p) ==
    /\ op[p].at = "down" /\ calls < MaxCalls /\ calls' = calls + 1
    /\ op' = [op EXCEPT ![p] = [Down EXCEPT !.at = "plan", !.kind = "activate",
                                !.cmd = <<"activate", calls>>, !.head = Len(control)]]
    /\ UNCHANGED <<journals, lease, mishaps, deaths>>

\* recoverBootstrapSession reads the session ...
Inspect(p) ==
    /\ op[p].at = "inspect"
    /\ op' = [op EXCEPT ![p] = IF "session" \in torn \/ open
                               THEN [op[p] EXCEPT !.at = "identify", !.shead = Len(session),
                                     !.cmd = <<"recover", Len(session), "session" \in torn>>]
                               ELSE Idle]
    /\ UNCHANGED <<journals, lease, bounds>>

Attempt(storage, n) == <<"recover", storage[2], storage[3], n>>
Attempts(storage) ==
    {n \in 1..Len(control) : \E i \in 1..Len(control) : control[i] = Rec(Attempt(storage, n), "planned")}
\* Mutant: an attempt that has no terminal yet is taken up again.
UnfinishedAttempt(storage) ==
    LET left == {n \in Attempts(storage) : Found(Attempt(storage, n)) = "accepted"}
    IN  IF left = {} THEN Cardinality(Attempts(storage)) + 1 ELSE CHOOSE n \in left : TRUE

\* recoveryControlAttemptIdentity: behind every accepted attempt on this storage.
NextAttempt(storage) == Cardinality(Attempts(storage)) + 1

\* ... and then the history of the control journal.
Identify(p) ==
    /\ op[p].at = "identify"
    /\ op' = [op EXCEPT ![p] = [@ EXCEPT !.at = "enter", !.kind = "recover", !.head = Len(control),
                                         !.cmd = Attempt(op[p].cmd, NextAttempt(op[p].cmd))]]
    /\ UNCHANGED <<journals, lease, bounds>>

Asked(p, step, kind, cmd) ==
    /\ op[p].at = "idle" /\ calls < MaxCalls /\ calls' = calls + 1
    /\ op' = [op EXCEPT ![p] = [@ EXCEPT !.at = step, !.kind = kind, !.cmd = cmd, !.head = Len(control)]]
    /\ UNCHANGED <<journals, lease, mishaps, deaths>>

\* A setting names the control head that was read and a command nobody used before,
\* so that LookupCommand finds nothing; it belongs to the control journal.
AskSetting(p) == Asked(p, "expect", "setting", <<"setting", calls>>)

\* The command of a skill decision is named by the head it was made at.
AskTrust(p) == Asked(p, "enter", "trust", <<"trust", Len(control)>>)

\* The session's head of a setting; its command is a new one (LookupCommand).
Expect(p) ==
    /\ op[p].at = "expect"
    /\ op' = [op EXCEPT ![p].at = "plan", ![p].shead = Len(session)]
    /\ UNCHANGED <<journals, lease, bounds>>

\* A skill decision is about the head it names still; one that is known already
\* returns what it finds.
EnterControl(p) ==
    /\ op[p].at = "enter" /\ op[p].kind # "recover" /\ UNCHANGED <<journals, bounds>>
    /\ IF Found(op[p].cmd) = None /\ Len(control) = op[p].head THEN On(p, "plan")
       ELSE op' = [op EXCEPT ![p] = Idle] /\ UNCHANGED lease

\* RecoverTurn goes on when nothing ended it, and needs the lease of an active turn.
EnterRecovery(p) ==
    /\ op[p].at = "enter" /\ op[p].kind = "recover" /\ UNCHANGED <<journals, bounds>>
    /\ LET found == Found(op[p].cmd)
       IN  CASE found = "completed" -> Done(p)
             [] found = "failed" \/ Len(session) # op[p].shead \/ (open /\ lease # None) -> Fail(p)
             [] OTHER -> /\ Goto(p, "plan")
                         /\ lease' = IF open THEN p ELSE lease

-----------------------------------------------------------------------------
(* The operation itself.                                                   *)

\* command.accepted, control.operation.planned, authorization.requested
Plan(p) ==
    /\ op[p].at = "plan"
    /\ \E out \in Outcomes :
         /\ Write(p, "planned", out)
         /\ CASE out = "done" -> Advanced(p, "decide")
              [] out = "unpublished" -> Advanced(p, "failing")
              [] OTHER -> Fail(p)

\* The decision of the policy or of the user, for or against it (authorizeControl).
Decide(p) ==
    /\ op[p].at = "decide"
    /\ \E out \in Outcomes, allow \in BOOLEAN :
         /\ Write(p, IF allow THEN "allowed" ELSE "denied", out)
         /\ IF Moved(out)
            THEN /\ op' = [op EXCEPT ![p].at = IF allow /\ out = "done" THEN "start" ELSE "failing",
                                     ![p].head = op[p].head + 1]
                 /\ UNCHANGED lease
            ELSE Failing(p)

\* The decision is consumed and the operation started, and both are proved to be
\* durable before the effect (Issue, Dispatch).
StartOperation(p) ==
    /\ op[p].at = "start"
    /\ \E out \in Outcomes :
         /\ Write(p, "started", out)
         /\ CASE out = "done" -> Advanced(p, IF op[p].kind \in Consequential
                                             THEN "effect" ELSE "finish")
              [] out = "unpublished" -> Advanced(p, "failing")
              [] OTHER -> Failing(p)

\* Mutant: a commit of another writer counts as the setting's own.
ChangeSettingAssumed(p) ==
    /\ op[p].at = "effect" /\ op[p].kind = "setting"
    /\ \E out \in Outcomes :
         /\ Commit("session", session, op[p].shead, Rec(op[p].cmd, "changed"), out)
         /\ IF out \in {"done", "refused"} THEN On(p, "finish") ELSE Failing(p)

\* The consequence of a setting goes to the session first (appendControlConsequence).
ChangeSetting(p) ==
    /\ op[p].at = "effect" /\ op[p].kind = "setting"
    /\ \E out \in Outcomes :
         /\ Commit("session", session, op[p].shead, Rec(op[p].cmd, "changed"), out)
         /\ IF out = "done" THEN On(p, "finish") ELSE Failing(p)

\* Recover cuts the torn tail off and appends what it did; it does nothing more when
\* the session is no longer what was inspected.
RecoverStorage(p) ==
    /\ op[p].at = "effect" /\ op[p].kind = "recover" /\ UNCHANGED <<control, open, calls, deaths>>
    /\ IF Len(session) # op[p].shead
       THEN Failing(p) /\ UNCHANGED <<session, torn, mishaps>>
       ELSE \/ /\ session' = Append(session, Rec(op[p].cmd, "recovered"))
               /\ torn' = torn \ {"session"}
               /\ \/ /\ UNCHANGED <<lease, mishaps>>
                     /\ op' = [op EXCEPT ![p].at = IF open THEN "close" ELSE "finish",
                                         ![p].shead = Len(session) + 1]
                  \/ Failing(p) /\ mishaps < MaxMishaps /\ mishaps' = mishaps + 1
            \/ Failing(p) /\ mishaps < MaxMishaps /\ mishaps' = mishaps + 1 /\ UNCHANGED <<session, torn>>

\* The terminal of the turn that its process left (appendRecoverySessionTerminal).
CloseTurn(p) ==
    /\ op[p].at = "close" /\ UNCHANGED <<control, calls, deaths>>
    /\ IF Len(session) # op[p].shead
       THEN Failing(p) /\ UNCHANGED <<session, torn, open, mishaps>>
       ELSE \/ /\ session' = Append(session, Rec(op[p].cmd, "closed")) /\ open' = FALSE
               /\ \/ On(p, "finish") /\ UNCHANGED <<torn, mishaps>>
                  \/ Failing(p) /\ mishaps < MaxMishaps /\ mishaps' = mishaps + 1 /\ UNCHANGED torn
            \/ /\ Failing(p) /\ mishaps < MaxMishaps /\ mishaps' = mishaps + 1
               /\ torn' \in {torn, torn \cup {"session"}} /\ UNCHANGED <<session, open>>

\* The terminal, with the event of an activation or a skill decision.
Finish(p) ==
    /\ op[p].at = "finish"
    /\ \E out \in Outcomes :
         /\ Write(p, "completed", out)
         /\ CASE out = "done" -> Done(p)
              [] out = "unpublished" -> Fail(p)
              [] OTHER -> Failing(p)

\* Mutant: the failure is recorded behind whatever was committed meanwhile.
TerminaliseAnywhere(p) ==
    /\ op[p].at = "failing"
    /\ \E out \in Outcomes :
         /\ Commit("control", control, Len(control), Rec(op[p].cmd, "failed"), out)
         /\ Fail(p)

\* The caller gets the error that led here, whatever becomes of this record.
Terminalise(p) ==
    /\ op[p].at = "failing"
    /\ \E out \in Outcomes : Write(p, "failed", out)
    /\ Fail(p)

-----------------------------------------------------------------------------
\* Another command on the control journal, or a whole turn on the session.
Other(p) ==
    /\ op[p].at = "idle" /\ calls < MaxCalls /\ calls' = calls + 1
    /\ \/ "control" \notin torn /\ control' = Append(control, Rec(None, "other")) /\ UNCHANGED session
       \/ /\ "session" \notin torn /\ ~open
          /\ session' = Append(session, Rec(None, "other")) /\ UNCHANGED control
    /\ UNCHANGED <<torn, open, lease, op, mishaps, deaths>>

InControl == {"plan", "decide", "start", "finish", "failing"}
\* A death in an append may tear it; one in a turn leaves the turn open.
Die(p) ==
    /\ op[p].at # "down" /\ deaths < MaxDeaths /\ deaths' = deaths + 1
    /\ op' = [op EXCEPT ![p] = Down] /\ lease' = Freed(p)
    /\ open' \in IF op[p].at = "idle" THEN {open, TRUE} ELSE {open}
    /\ torn' \in {torn} \cup {torn \cup {j} : j \in
                   CASE op[p].at \in InControl -> {"control"}
                     [] op[p].at \in {"idle", "effect", "close"} -> {"session"}
                     [] OTHER -> {}}
    /\ UNCHANGED <<control, session, calls, mishaps>>

Next == \E p \in Proc :
          \/ Start(p) \/ Inspect(p) \/ Identify(p) \/ AskSetting(p) \/ AskTrust(p) \/ Expect(p)
          \/ EnterControl(p) \/ EnterRecovery(p)
          \/ Plan(p) \/ Decide(p) \/ StartOperation(p) \/ ChangeSetting(p)
          \/ RecoverStorage(p) \/ CloseTurn(p) \/ Finish(p) \/ Terminalise(p)
          \/ Other(p) \/ Die(p)

Spec == Init /\ [][Next]_vars

-----------------------------------------------------------------------------
\* The record each one needs before it, and those of which a command has only one.
Needs == [allowed |-> "planned", denied |-> "planned", failed |-> "planned",
          started |-> "allowed", completed |-> "started"]
Final == {"completed", "failed"}
Alike(a, b) == a = b \/ {a, b} \in {{"allowed", "denied"}, Final}
Effects(cmd) == {i \in 1..Len(session) : session[i].cmd = cmd /\ session[i].step # "closed"}

(***************************************************************************)
(* A command runs once, whoever sends it and however often: its records    *)
(* stand in the control journal in the order plan, decision, start,        *)
(* terminal, each of them once and nothing behind a terminal, and its      *)
(* effect on the session happens once and only behind a durable start      *)
(* (RunControl, RecoverTurn: "exact sequence" of expected heads).          *)
(***************************************************************************)
ControlOnce ==
    /\ \A i \in 1..Len(control) :
         LET own == {j \in 1..(i - 1) : control[j].cmd = control[i].cmd}
         IN  control[i].cmd # None =>
               /\ \A j \in own : control[j].step \notin Final /\ ~Alike(control[j].step, control[i].step)
               /\ control[i].step # "planned" =>
                    \E j \in own : control[j].step = Needs[control[i].step]
    /\ \A i \in 1..Len(session) :
         session[i].cmd # None =>
           /\ Holds(control, session[i].cmd, "started")
           /\ Cardinality(Effects(session[i].cmd)) = 1

(***************************************************************************)
(* The control journal tells the truth about the session: a completed      *)
(* setting or recovery has its effect there and a denied one has none.     *)
(***************************************************************************)
ControlTellsTruth ==
    /\ \A i \in 1..Len(control) :
         LET cmd == control[i].cmd
         IN  /\ control[i].step = "completed" /\ cmd[1] \in {"setting", "recover"} => Effects(cmd) # {}
             /\ control[i].step = "denied" => Effects(cmd) = {}

(***************************************************************************)
(* A recovery that was interrupted does not stop the next one: the attempt *)
(* that a process identifies from the history it read is never one that    *)
(* the journal, unchanged since, knows already (a duplicate transaction is *)
(* an error and a failed attempt would be returned as the result).         *)
(***************************************************************************)
AttemptsAreNew ==
    \A p \in Proc :
      op[p].kind = "recover" /\ op[p].at \in {"enter", "plan"} /\ op[p].head = Len(control)
        => Found(op[p].cmd) = None

=============================================================================
