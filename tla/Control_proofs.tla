---------------------------- MODULE Control_proofs ----------------------------
(***************************************************************************)
(* Control operations, for any number of processes, calls and failures: a  *)
(* command runs once and in order, the control journal tells the truth     *)
(* about the session, and every recovery gets an attempt of its own.       *)
(***************************************************************************)
EXTENDS Control, FiniteSetTheorems, TLAPS

Working == {"decide", "start", "effect", "close", "finish"}
Past == Working \cup {"failing"}

\* What a command has in the journal when its operation is at a place.
Behind(at) ==
  CASE at = "decide" -> {"planned"}
    [] at = "start" -> {"planned", "allowed"}
    [] OTHER -> {"planned", "allowed", "started"}

\* An operation knows the records of its command up to the head it expects next.
Known(p) ==
  op[p].at \in Past =>
    /\ op[p].head <= Len(control)
    /\ \E i \in 1..op[p].head : control[i] = Rec(op[p].cmd, "planned")
    /\ \A i \in 1..op[p].head : control[i].cmd = op[p].cmd => control[i].step \notin Final
    /\ op[p].at \in Working =>
         /\ \A i \in 1..op[p].head : control[i].cmd = op[p].cmd => control[i].step \in Behind(op[p].at)
         /\ \A s \in Behind(op[p].at) : \E i \in 1..op[p].head : control[i] = Rec(op[p].cmd, s)

\* What stands without a command is nobody's operation.
Others == \A i \in 1..Len(control) : control[i].cmd = None => control[i].step = "other"

\* The control journal's part of ControlOnce.
Ordered ==
  \A i \in 1..Len(control) : control[i].cmd # None =>
    /\ control[i].step \in {"planned"} \cup DOMAIN Needs
    /\ \A j \in 1..(i - 1) : control[j].cmd = control[i].cmd =>
         control[j].step \notin Final /\ ~ Alike(control[j].step, control[i].step)
    /\ control[i].step # "planned" =>
         \E j \in 1..(i - 1) : control[j] = Rec(control[i].cmd, Needs[control[i].step])

\* A recovery stands where the storage it names ended; a setting is never repeated.
EffectAt(i, cmd) == session[i].cmd = cmd /\ session[i].step # "closed"
OneEffect ==
  \A i \in 1..Len(session) : session[i].cmd # None =>
    /\ Holds(control, session[i].cmd, "started")
    /\ \/ session[i].step = "changed" /\ session[i].cmd[1] = "setting"
       \/ session[i].step = "recovered" /\ session[i].cmd[1] = "recover" /\ session[i].cmd[2] = i - 1
       \/ session[i].step = "closed" /\ \E j \in 1..Len(session) : session[j] = Rec(session[i].cmd, "recovered")
    /\ \A j \in 1..Len(session) : session[i] = session[j] /\ session[i].step = "changed" => i = j

\* What an operation works on, by its place.
Placed(p) ==
  /\ op[p].at = "identify" => op[p].cmd \in Storages /\ op[p].cmd[2] = op[p].shead
  /\ op[p].at \in {"expect", "enter", "plan"} \cup Past => op[p].cmd \in Commands /\ op[p].cmd[1] = op[p].kind
  /\ op[p].at \in {"enter", "plan", "decide", "start", "effect"} /\ op[p].kind = "recover" => op[p].cmd[2] = op[p].shead
  /\ op[p].at = "expect" => op[p].kind = "setting"
  /\ op[p].at \in {"effect", "close"} => op[p].kind \in Consequential
  /\ op[p].at = "close" => \E i \in 1..Len(session) : session[i] = Rec(op[p].cmd, "recovered")
  /\ op[p].at = "finish" /\ op[p].kind \in Consequential => \E i \in 1..Len(session) : EffectAt(i, op[p].cmd)

CompletedHasEffect ==
  \A i \in 1..Len(control) : control[i].step = "completed" /\ control[i].cmd[1] \in Consequential =>
    \E j \in 1..Len(session) : EffectAt(j, control[i].cmd)

\* The attempts on a storage are numbered without a gap, and whoever still has the
\* head of the journal has the next number.
Planned(cmd) == \E i \in 1..Len(control) : control[i] = Rec(cmd, "planned")
NumberedTo(storage, k) == \A n \in Nat : Planned(Attempt(storage, n)) <=> n \in 1..k
Numbered == \A storage \in Storages : \E k \in 0..Len(control) : NumberedTo(storage, k)
Fresh(p) ==
  op[p].at \in {"enter", "plan"} /\ op[p].kind = "recover" =>
    /\ op[p].head <= Len(control)
    /\ op[p].head = Len(control) =>
         \E storage \in Storages, k \in 0..Len(control) : op[p].cmd = Attempt(storage, k + 1) /\ NumberedTo(storage, k)

IInv ==
  /\ TypeOK
  /\ Others /\ Ordered /\ OneEffect /\ CompletedHasEffect /\ Numbered
  /\ \A p \in Proc : Known(p) /\ Placed(p) /\ Fresh(p)
-----------------------------------------------------------------------------
(* What a step does to the journals. *)

\* The step of an operation that appends this record to the control journal.
Writes(p, step) ==
  \/ op[p].at = "plan" /\ step = "planned"
  \/ op[p].at = "decide" /\ step \in {"allowed", "denied"}
  \/ op[p].at = "start" /\ step = "started"
  \/ op[p].at = "finish" /\ step = "completed"
  \/ op[p].at = "failing" /\ step = "failed"

\* An append commits its record behind the head it expects, or nothing.
LEMMA CommitControl ==
  ASSUME NEW h, NEW rec, NEW out, Commit("control", control, h, rec, out)
  PROVE  /\ UNCHANGED session
         /\ \/ UNCHANGED control
            \/ control' = Append(control, rec) /\ Len(control) = h /\ \A i \in 1..Len(control) : control[i] # rec
  BY DEF Commit, journals

LEMMA CommitSession ==
  ASSUME NEW h, NEW rec, NEW out, Commit("session", session, h, rec, out)
  PROVE  /\ UNCHANGED control
         /\ \/ UNCHANGED session
            \/ session' = Append(session, rec) /\ \A i \in 1..Len(session) : session[i] # rec
  BY DEF Commit, journals

\* The control journal only grows by a record of an operation that expects its head.
LEMMA ControlSteps ==
  ASSUME [Next]_vars
  PROVE  \/ UNCHANGED control
         \/ UNCHANGED session /\ control' = Append(control, Rec(None, "other"))
         \/ \E p \in Proc, step \in Steps :
              /\ UNCHANGED session
              /\ Writes(p, step) /\ op[p].head = Len(control)
              /\ \A i \in 1..Len(control) : control[i] # Rec(op[p].cmd, step)
              /\ control' = Append(control, Rec(op[p].cmd, step))
<1>1. ASSUME NEW p \in Proc, Start(p) \/ Inspect(p) \/ Identify(p) \/ AskSetting(p) \/ AskTrust(p) \/ Expect(p)
                             \/ EnterControl(p) \/ EnterRecovery(p) \/ RecoverStorage(p) \/ CloseTurn(p) \/ Die(p)
      PROVE  UNCHANGED control
  BY <1>1 DEF Start, Inspect, Identify, AskSetting, AskTrust, Asked, Expect, EnterControl, EnterRecovery, RecoverStorage, CloseTurn,
     Die, journals
<1>2. ASSUME NEW p \in Proc, ChangeSetting(p) PROVE UNCHANGED control
  BY <1>2, CommitSession DEF ChangeSetting
<1>3. ASSUME NEW p \in Proc, Plan(p) \/ Decide(p) \/ StartOperation(p) \/ Finish(p) \/ Terminalise(p)
      PROVE  \E step \in Steps, out \in Outcomes : Writes(p, step) /\ Write(p, step, out)
  <2>1. CASE Plan(p)
    BY <2>1 DEF Plan, Writes, Steps
  <2>2. CASE Decide(p)
    <3>1. PICK out \in Outcomes, allow \in BOOLEAN : Write(p, IF allow THEN "allowed" ELSE "denied", out)
      BY <2>2 DEF Decide
    <3>. QED
      BY <2>2, <3>1 DEF Decide, Writes, Steps
  <2>3. CASE StartOperation(p)
    BY <2>3 DEF StartOperation, Writes, Steps
  <2>4. CASE Finish(p)
    BY <2>4 DEF Finish, Writes, Steps
  <2>5. CASE Terminalise(p)
    BY <2>5 DEF Terminalise, Writes, Steps
  <2>. QED
    BY <1>3, <2>1, <2>2, <2>3, <2>4, <2>5
<1>4. ASSUME NEW p \in Proc, NEW step \in Steps, NEW out, Writes(p, step), Write(p, step, out)
      PROVE  \/ UNCHANGED control
             \/ /\ UNCHANGED session
                /\ Writes(p, step) /\ op[p].head = Len(control)
                /\ \A i \in 1..Len(control) : control[i] # Rec(op[p].cmd, step)
                /\ control' = Append(control, Rec(op[p].cmd, step))
  BY <1>4, CommitControl DEF Write
<1>5. ASSUME NEW p \in Proc, Other(p)
      PROVE  UNCHANGED control \/ (UNCHANGED session /\ control' = Append(control, Rec(None, "other")))
  BY <1>5 DEF Other
<1>. QED
  BY <1>1, <1>2, <1>3, <1>4, <1>5 DEF Next, vars, journals

\* The session only grows by the effect of an operation, or by a turn.
LEMMA SessionSteps ==
  ASSUME [Next]_vars
  PROVE  \/ UNCHANGED session
         \/ UNCHANGED control /\ session' = Append(session, Rec(None, "other"))
         \/ \E p \in Proc, step \in {"changed", "recovered", "closed"} :
              /\ UNCHANGED control
              /\ session' = Append(session, Rec(op[p].cmd, step))
              /\ \/ /\ step = "changed" /\ op[p].at = "effect" /\ op[p].kind = "setting"
                    /\ \A i \in 1..Len(session) : session[i] # Rec(op[p].cmd, step)
                 \/ /\ step = "recovered" /\ op[p].at = "effect" /\ op[p].kind = "recover"
                    /\ Len(session) = op[p].shead
                 \/ step = "closed" /\ op[p].at = "close"
<1>1. ASSUME NEW p \in Proc, Start(p) \/ Inspect(p) \/ Identify(p) \/ AskSetting(p) \/ AskTrust(p) \/ Expect(p)
                             \/ EnterControl(p) \/ EnterRecovery(p) \/ Die(p)
      PROVE  UNCHANGED session
  BY <1>1 DEF Start, Inspect, Identify, AskSetting, AskTrust, Asked, Expect, EnterControl, EnterRecovery, Die, journals
<1>2. ASSUME NEW p \in Proc, Plan(p) \/ Decide(p) \/ StartOperation(p) \/ Finish(p) \/ Terminalise(p)
      PROVE  UNCHANGED session
  BY <1>2, CommitControl DEF Plan, Decide, StartOperation, Finish, Terminalise, Write
<1>3. ASSUME NEW p \in Proc, ChangeSetting(p)
      PROVE  \/ UNCHANGED session
             \/ /\ UNCHANGED control /\ session' = Append(session, Rec(op[p].cmd, "changed"))
                /\ op[p].at = "effect" /\ op[p].kind = "setting"
                /\ \A i \in 1..Len(session) : session[i] # Rec(op[p].cmd, "changed")
  BY <1>3, CommitSession DEF ChangeSetting
<1>4. ASSUME NEW p \in Proc, RecoverStorage(p)
      PROVE  \/ UNCHANGED session
             \/ /\ UNCHANGED control /\ session' = Append(session, Rec(op[p].cmd, "recovered"))
                /\ op[p].at = "effect" /\ op[p].kind = "recover" /\ Len(session) = op[p].shead
  BY <1>4 DEF RecoverStorage
<1>5. ASSUME NEW p \in Proc, CloseTurn(p)
      PROVE  \/ UNCHANGED session
             \/ UNCHANGED control /\ session' = Append(session, Rec(op[p].cmd, "closed")) /\ op[p].at = "close"
  BY <1>5 DEF CloseTurn
<1>6. ASSUME NEW p \in Proc, Other(p)
      PROVE  UNCHANGED session \/ (UNCHANGED control /\ session' = Append(session, Rec(None, "other")))
  BY <1>6 DEF Other
<1>. QED
  BY <1>1, <1>2, <1>3, <1>4, <1>5, <1>6 DEF Next, vars, journals

\* An append keeps what is there.
LEMMA Appended ==
  ASSUME NEW S, NEW log \in Seq(S), NEW rec \in S, NEW new, new = Append(log, rec)
  PROVE  /\ new \in Seq(S) /\ Len(new) = Len(log) + 1 /\ new[Len(new)] = rec
         /\ \A i \in 1..Len(log) : new[i] = log[i]
  OBVIOUS

\* The records an operation writes have its command, which is one.
LEMMA JournalTypes ==
  ASSUME TypeOK, \A p \in Proc : Placed(p), [Next]_vars
  PROVE  control' \in Seq(Record) /\ session' \in Seq(Record)
<1>1. ASSUME NEW p \in Proc, NEW step \in Steps, op[p].at \in {"plan"} \cup Past PROVE Rec(op[p].cmd, step) \in Record
  BY <1>1 DEF Placed, Rec, Record
<1>2. Rec(None, "other") \in Record
  BY DEF Rec, Record, Steps
<1>3. control' \in Seq(Record)
  <2>1. \A p \in Proc, step \in Steps : Writes(p, step) => Rec(op[p].cmd, step) \in Record
    BY <1>1 DEF Writes, Past, Working
  <2>2. ASSUME NEW r \in Record, control' = Append(control, r) PROVE control' \in Seq(Record)
    BY <2>2 DEF TypeOK
  <2>. QED
    BY <2>1, <2>2, <1>2, ControlSteps DEF TypeOK
<1>4. session' \in Seq(Record)
  BY <1>1, <1>2, SessionSteps DEF TypeOK, Past, Working, Steps
<1>. QED
  BY <1>3, <1>4

\* An attempt is a command of its own, which names its storage.
LEMMA AttemptName ==
  ASSUME NEW storage \in Storages, NEW n \in Nat
  PROVE  /\ Attempt(storage, n) \in Commands
         /\ Attempt(storage, n)[1] = "recover" /\ Attempt(storage, n)[2] = storage[2]
  BY DEF Attempt, Storages, Commands

LEMMA SameAttempt ==
  ASSUME NEW s \in Storages, NEW t \in Storages, NEW m \in Nat, NEW n \in Nat, Attempt(s, m) = Attempt(t, n)
  PROVE  s = t /\ m = n
<1>1. PICK a \in Nat, b \in BOOLEAN : s = <<"recover", a, b>>
  BY DEF Storages
<1>2. PICK c \in Nat, d \in BOOLEAN : t = <<"recover", c, d>>
  BY DEF Storages
<1>3. <<"recover", a, b, m>> = <<"recover", c, d, n>>
  BY <1>1, <1>2 DEF Attempt
<1>. QED
  BY <1>1, <1>2, <1>3

\* The count of the attempts on a storage.
LEMMA AttemptsCount ==
  ASSUME TypeOK, NEW storage
  PROVE  IsFiniteSet(Attempts(storage)) /\ Cardinality(Attempts(storage)) \in Nat /\ NextAttempt(storage) \in Nat
<1>1. Len(control) \in Int /\ 1 \in Int
  BY DEF TypeOK
<1>2. IsFiniteSet(1..Len(control))
  BY <1>1, FS_Interval
<1>3. IsFiniteSet(Attempts(storage))
  BY <1>2, FS_Subset DEF Attempts
<1>. QED
  BY <1>3, FS_CardinalityType DEF NextAttempt

\* An operation goes on with another place and other heads, or begins with a command.
LEMMA OperationTypes ==
  ASSUME TypeOK, \A p \in Proc : Placed(p), [Next]_vars
  PROVE  op' \in [Proc -> Operation] /\ lease' \in Proc \cup {None}
<1>h. Len(control) \in Nat /\ Len(session) \in Nat /\ calls \in Nat /\ lease \in Proc \cup {None}
  BY DEF TypeOK
<1>t. op \in [Proc -> Operation]
  BY DEF TypeOK
<1>0. Down \in Operation /\ Idle \in Operation
  BY DEF Down, Idle, Places, Operation
<1>1. ASSUME NEW p \in Proc, NEW r \in Operation PROVE [op EXCEPT ![p] = r] \in [Proc -> Operation]
  BY <1>t
<1>2. ASSUME NEW p \in Proc, NEW at \in Places, NEW head \in Nat, NEW shead \in Nat
      PROVE  /\ [op[p] EXCEPT !.at = at] \in Operation
             /\ [op[p] EXCEPT !.at = at, !.head = head] \in Operation
             /\ [op[p] EXCEPT !.at = at, !.shead = shead] \in Operation
  BY <1>t DEF Operation
<1>3. ASSUME NEW p \in Proc PROVE Freed(p) \in Proc \cup {None}
  BY <1>h DEF Freed
<1>4. ASSUME NEW p \in Proc, Fail(p) \/ Done(p) PROVE op' \in [Proc -> Operation] /\ lease' \in Proc \cup {None}
  <2>1. [op[p] EXCEPT !.at = "inspect"] \in Operation
    BY <1>2, <1>h DEF Places
  <2>. QED
    BY <1>0, <1>1, <1>3, <1>4, <2>1 DEF Fail, Done
<1>5. ASSUME NEW p \in Proc, NEW step \in Places, On(p, step) \/ Advanced(p, step) \/ Failing(p)
      PROVE  op' \in [Proc -> Operation] /\ lease' \in Proc \cup {None}
  <2>1. op[p].head + 1 \in Nat /\ 0 \in Nat /\ "failing" \in Places
    BY <1>t DEF Operation, Places
  <2>2. /\ [op[p] EXCEPT !.at = step] \in Operation
        /\ [op[p] EXCEPT !.at = step, !.head = op[p].head + 1] \in Operation
        /\ [op[p] EXCEPT !.at = "failing", !.shead = 0] \in Operation
    BY <1>2, <2>1
  <2>. QED
    BY <1>1, <1>5, <1>h, <2>2 DEF On, Goto, Advanced, Failing
<1>6. ASSUME NEW p \in Proc, Start(p) PROVE op' \in [Proc -> Operation] /\ lease' = lease
  <2>1. <<"activate", calls>> \in Commands
    BY <1>h DEF Commands, Kinds
  <2>2. [Down EXCEPT !.at = "plan", !.kind = "activate", !.cmd = <<"activate", calls>>, !.head = Len(control)] \in Operation
    BY <2>1, <1>h DEF Down, Operation, Places, Kinds
  <2>. QED
    BY <1>1, <1>6, <2>2 DEF Start
<1>7. ASSUME NEW p \in Proc, Inspect(p) PROVE op' \in [Proc -> Operation] /\ lease' = lease
  <2>1. <<"recover", Len(session), "session" \in torn>> \in Storages
    <3>1. ("session" \in torn) \in BOOLEAN
      OBVIOUS
    <3>. QED
      BY <1>h, <3>1 DEF Storages
  <2>2. [op[p] EXCEPT !.at = "identify", !.shead = Len(session), !.cmd = <<"recover", Len(session), "session" \in torn>>]
          \in Operation
    BY <2>1, <1>h, <1>t DEF Operation, Places
  <2>. QED
    BY <1>0, <1>1, <1>7, <2>2 DEF Inspect
<1>8. ASSUME NEW p \in Proc, Identify(p) PROVE op' \in [Proc -> Operation] /\ lease' = lease
  <2>1. NextAttempt(op[p].cmd) \in Nat
    BY AttemptsCount
  <2>2. Attempt(op[p].cmd, NextAttempt(op[p].cmd)) \in Commands
    BY <1>8, <2>1, AttemptName DEF Identify, Placed
  <2>3. [op[p] EXCEPT !.at = "enter", !.kind = "recover", !.head = Len(control),
                      !.cmd = Attempt(op[p].cmd, NextAttempt(op[p].cmd))] \in Operation
    BY <2>2, <1>h, <1>t DEF Operation, Places, Kinds
  <2>. QED
    BY <1>1, <1>8, <2>3 DEF Identify
<1>9. ASSUME NEW p \in Proc, AskSetting(p) \/ AskTrust(p) PROVE op' \in [Proc -> Operation] /\ lease' = lease
  <2>1. \A kind \in {"setting", "trust"}, n \in Nat : <<kind, n>> \in Commands
    BY DEF Commands, Kinds
  <2>2. \A cmd \in Commands, step \in {"expect", "enter"}, kind \in {"setting", "trust"} :
          [op[p] EXCEPT !.at = step, !.kind = kind, !.cmd = cmd, !.head = Len(control)] \in Operation
    BY <1>h, <1>t DEF Operation, Places, Kinds
  <2>3. \E cmd \in Commands, step \in {"expect", "enter"}, kind \in {"setting", "trust"} : Asked(p, step, kind, cmd)
    BY <1>9, <1>h, <2>1 DEF AskSetting, AskTrust
  <2>4. PICK cmd \in Commands, step \in {"expect", "enter"}, kind \in {"setting", "trust"} : Asked(p, step, kind, cmd)
    BY <2>3
  <2>5. lease' = lease /\
        op' = [op EXCEPT ![p] = [op[p] EXCEPT !.at = step, !.kind = kind, !.cmd = cmd, !.head = Len(control)]]
    BY <2>4 DEF Asked
  <2>. QED
    BY <1>1, <2>2, <2>5
<1>10. ASSUME NEW p \in Proc, Expect(p) PROVE op' \in [Proc -> Operation] /\ lease' = lease
  <2>1. [op[p] EXCEPT !.at = "plan", !.shead = Len(session)] \in Operation
    BY <1>h, <1>2 DEF Places
  <2>. QED
    BY <1>1, <1>10, <2>1 DEF Expect
<1>11. ASSUME NEW p \in Proc, EnterControl(p) PROVE op' \in [Proc -> Operation] /\ lease' \in Proc \cup {None}
  BY <1>0, <1>1, <1>5, <1>11, <1>h DEF EnterControl, Places
<1>12. ASSUME NEW p \in Proc, EnterRecovery(p) PROVE op' \in [Proc -> Operation] /\ lease' \in Proc \cup {None}
  <2>1. [op[p] EXCEPT !.at = "plan"] \in Operation
    BY <1>h, <1>2 DEF Places
  <2>. QED
    BY <1>1, <1>4, <1>12, <1>h, <2>1 DEF EnterRecovery, Goto
<1>13. ASSUME NEW p \in Proc, Plan(p) \/ StartOperation(p) \/ ChangeSetting(p) \/ Finish(p)
       PROVE  op' \in [Proc -> Operation] /\ lease' \in Proc \cup {None}
  <2>1. (\E step \in Places : On(p, step) \/ Advanced(p, step)) \/ Failing(p) \/ Fail(p) \/ Done(p)
    BY <1>13 DEF Plan, StartOperation, ChangeSetting, Finish, Places
  <2>. QED
    BY <1>4, <1>5, <2>1 DEF Places
<1>14. ASSUME NEW p \in Proc, Decide(p) PROVE op' \in [Proc -> Operation] /\ lease' \in Proc \cup {None}
  <2>1. op[p].head + 1 \in Nat
    BY <1>t DEF Operation
  <2>2. \A at \in {"start", "failing"} : [op[p] EXCEPT !.at = at, !.head = op[p].head + 1] \in Operation
    BY <1>2, <1>h, <2>1 DEF Places
  <2>3. Failing(p) \/ (UNCHANGED lease /\ \E at \in {"start", "failing"} :
          op' = [op EXCEPT ![p] = [op[p] EXCEPT !.at = at, !.head = op[p].head + 1]])
    BY <1>14 DEF Decide
  <2>. QED
    BY <1>1, <1>5, <1>h, <2>2, <2>3 DEF Places
<1>15. ASSUME NEW p \in Proc, RecoverStorage(p) PROVE op' \in [Proc -> Operation] /\ lease' \in Proc \cup {None}
  <2>1. \A at \in {"close", "finish"} : [op[p] EXCEPT !.at = at, !.shead = Len(session) + 1] \in Operation
    <3>1. Len(session) + 1 \in Nat
      BY <1>h
    <3>. QED
      BY <1>h, <1>2, <3>1 DEF Places
  <2>2. Failing(p) \/ (UNCHANGED lease /\ \E at \in {"close", "finish"} :
          op' = [op EXCEPT ![p] = [op[p] EXCEPT !.at = at, !.shead = Len(session) + 1]])
    BY <1>15 DEF RecoverStorage
  <2>. QED
    BY <1>1, <1>5, <1>h, <2>1, <2>2 DEF Places
<1>16. ASSUME NEW p \in Proc, CloseTurn(p) \/ Terminalise(p) \/ Other(p) \/ Die(p)
       PROVE  op' \in [Proc -> Operation] /\ lease' \in Proc \cup {None}
  <2>1. On(p, "finish") \/ Failing(p) \/ Fail(p) \/ UNCHANGED <<op, lease>>
        \/ (op' = [op EXCEPT ![p] = Down] /\ lease' = Freed(p))
    BY <1>16 DEF CloseTurn, Terminalise, Other, Die
  <2>. QED
    BY <1>0, <1>1, <1>3, <1>4, <1>5, <1>h, <1>t, <2>1 DEF Places
<1>17. CASE UNCHANGED vars
  BY <1>17, <1>h, <1>t DEF vars
<1>. QED
  BY <1>5, <1>6, <1>7, <1>8, <1>9, <1>10, <1>11, <1>12, <1>13, <1>14, <1>15, <1>16, <1>17, <1>h DEF Next

\* Failures and torn journals are counted and marked.
LEMMA BoundTypes ==
  ASSUME TypeOK, [Next]_vars
  PROVE  /\ torn' \subseteq Journal /\ open' \in BOOLEAN
         /\ calls' \in Nat /\ mishaps' \in Nat /\ deaths' \in Nat
<1> USE DEF TypeOK, Journal
<1>1. ASSUME NEW j \in Journal, NEW log, NEW h, NEW rec, NEW out, Commit(j, log, h, rec, out)
      PROVE  torn' \subseteq Journal /\ mishaps' \in Nat /\ open' = open /\ calls' = calls /\ deaths' = deaths
  <2>1. torn' = torn \/ torn' = torn \cup {j}
    BY <1>1 DEF Commit, journals
  <2>2. torn' \subseteq Journal
    BY <2>1
  <2>3. mishaps' \in {mishaps, mishaps + 1} /\ UNCHANGED <<open, calls, deaths>>
    BY <1>1 DEF Commit, journals, bounds
  <2>. QED
    BY <2>2, <2>3
<1>2. ASSUME NEW p \in Proc, Plan(p) \/ Decide(p) \/ StartOperation(p) \/ Finish(p) \/ Terminalise(p)
      PROVE  torn' \subseteq Journal /\ mishaps' \in Nat /\ open' = open /\ calls' = calls /\ deaths' = deaths
  BY <1>1, <1>2 DEF Plan, Decide, StartOperation, Finish, Terminalise, Write
<1>3. ASSUME NEW p \in Proc, ChangeSetting(p)
      PROVE  torn' \subseteq Journal /\ mishaps' \in Nat /\ open' = open /\ calls' = calls /\ deaths' = deaths
  BY <1>1, <1>3 DEF ChangeSetting
<1>4. ASSUME NEW p \in Proc, Start(p) \/ Inspect(p) \/ Identify(p) \/ AskSetting(p) \/ AskTrust(p) \/ Expect(p)
                             \/ EnterControl(p) \/ EnterRecovery(p)
      PROVE  UNCHANGED <<torn, open, mishaps, deaths>> /\ calls' \in Nat
  BY <1>4 DEF Start, Inspect, Identify, AskSetting, AskTrust, Asked, Expect, EnterControl, EnterRecovery, journals, bounds
<1>5. ASSUME NEW p \in Proc, RecoverStorage(p) \/ CloseTurn(p)
      PROVE  torn' \subseteq Journal /\ mishaps' \in Nat /\ open' \in BOOLEAN /\ calls' = calls /\ deaths' = deaths
  <2>1. torn' \in {torn, torn \ {"session"}, torn \cup {"session"}} /\ open' \in {open, FALSE}
    BY <1>5 DEF RecoverStorage, CloseTurn
  <2>2. torn' \subseteq Journal /\ open' \in BOOLEAN
    BY <2>1
  <2>. QED
    BY <1>5, <2>2 DEF RecoverStorage, CloseTurn
<1>6. ASSUME NEW p \in Proc, Other(p)
      PROVE  UNCHANGED <<torn, open, mishaps, deaths>> /\ calls' \in Nat
  BY <1>6 DEF Other
<1>7. ASSUME NEW p \in Proc, Die(p)
      PROVE  torn' \subseteq Journal /\ open' \in BOOLEAN /\ UNCHANGED <<calls, mishaps>> /\ deaths' \in Nat
  <2>1. torn' = torn \/ \E j \in Journal : torn' = torn \cup {j}
    BY <1>7 DEF Die
  <2>2. torn' \subseteq Journal
    BY <2>1
  <2>3. open' \in BOOLEAN
    BY <1>7 DEF Die
  <2>. QED
    BY <1>7, <2>2, <2>3 DEF Die
<1>. QED
  BY <1>2, <1>3, <1>4, <1>5, <1>6, <1>7 DEF Next, vars, journals, bounds

LEMMA TypeStep ==
  ASSUME TypeOK, \A p \in Proc : Placed(p), [Next]_vars
  PROVE  TypeOK'
<1>1. /\ control' \in Seq(Record) /\ session' \in Seq(Record)
      /\ op' \in [Proc -> Operation] /\ lease' \in Proc \cup {None}
  BY JournalTypes, OperationTypes
<1>. QED
  BY <1>1, BoundTypes DEF TypeOK

-----------------------------------------------------------------------------
(* What a step does to an operation. *)

\* The operation goes on, with the head its own append moved to.
Grows(p, step, at) ==
  /\ op'[p] = [op[p] EXCEPT !.at = at, !.head = op[p].head + 1]
  /\ Len(control) = op[p].head /\ control' = Append(control, Rec(op[p].cmd, step))
  /\ \A i \in 1..Len(control) : control[i] # Rec(op[p].cmd, step)

\* Between the calls of a process, and before its plan.
Enters(p) ==
  \/ op'[p].at \in {"down", "idle", "inspect"}
  \/ /\ UNCHANGED <<control, session>>
     /\ \/ /\ op'[p].at = "plan" /\ op'[p].kind = "activate" /\ op'[p].cmd = <<"activate", calls>>
        \/ /\ op'[p].at = "identify" /\ op'[p].shead = Len(session)
           /\ op'[p].cmd = <<"recover", Len(session), "session" \in torn>>
        \/ /\ op[p].at = "identify" /\ op'[p].at = "enter" /\ op'[p].kind = "recover" /\ op'[p].head = Len(control)
           /\ op'[p].cmd = Attempt(op[p].cmd, NextAttempt(op[p].cmd)) /\ op'[p].shead = op[p].shead
        \/ /\ (op'[p].at = "expect" /\ op'[p].kind = "setting") \/ (op'[p].at = "enter" /\ op'[p].kind = "trust")
           /\ \E n \in Nat : op'[p].cmd = <<op'[p].kind, n>>
        \/ op[p].at = "expect" /\ op'[p] = [op[p] EXCEPT !.at = "plan", !.shead = Len(session)] /\ op[p].kind = "setting"
        \/ op[p].at = "enter" /\ op'[p] = [op[p] EXCEPT !.at = "plan"]

\* The operation itself.
Advances(p) ==
  \/ op[p].at = "plan" /\ \E at \in {"decide", "failing"} : Grows(p, "planned", at)
  \/ op[p].at = "decide" /\ \/ Grows(p, "allowed", "start")
                            \/ \E step \in {"allowed", "denied"} : Grows(p, step, "failing")
  \/ op[p].at = "start" /\ \E at \in {"effect", "finish", "failing"} :
       /\ Grows(p, "started", at)
       /\ op[p].kind \in Consequential => at # "finish"
       /\ at = "effect" => op[p].kind \in Consequential
  \/ /\ op[p].at = "effect" /\ UNCHANGED control
     /\ \/ /\ op'[p] = [op[p] EXCEPT !.at = "finish"]
           /\ session' = Append(session, Rec(op[p].cmd, "changed"))
        \/ \E at \in {"close", "finish"} :
             /\ op'[p] = [op[p] EXCEPT !.at = at, !.shead = Len(session) + 1]
             /\ session' = Append(session, Rec(op[p].cmd, "recovered"))
  \/ /\ op[p].at = "close" /\ UNCHANGED control /\ op'[p] = [op[p] EXCEPT !.at = "finish"]
  \/ op[p].at \in Past /\ op'[p] = [op[p] EXCEPT !.at = "failing", !.shead = 0]

LEMMA OperationSteps ==
  ASSUME TypeOK, \A p \in Proc : Placed(p), [Next]_vars, NEW p \in Proc
  PROVE  op'[p] = op[p] \/ Enters(p) \/ Advances(p)
<1>t. op \in [Proc -> Operation] /\ Len(control) \in Nat /\ calls \in Nat
  BY DEF TypeOK
<1>d. Down.at = "down" /\ Idle.at = "idle"
  BY DEF Down, Idle
<1>f. ASSUME Fail(p) PROVE Enters(p)
  BY <1>f, <1>t, <1>d DEF Fail, Enters
<1>g. ASSUME Done(p) PROVE Enters(p)
  BY <1>g, <1>t, <1>d DEF Done, Enters, Operation
<1>h. ASSUME Failing(p), op[p].at \in Past PROVE Advances(p)
  BY <1>h, <1>t DEF Failing, Advances
<1>1. ASSUME NEW q \in Proc, q # p,
             \/ Start(q) \/ Inspect(q) \/ Identify(q) \/ AskSetting(q) \/ AskTrust(q) \/ Expect(q)
             \/ EnterControl(q) \/ EnterRecovery(q) \/ Terminalise(q) \/ Other(q) \/ Die(q)
      PROVE  op'[p] = op[p]
  BY <1>1, <1>t DEF Start, Inspect, Identify, AskSetting, AskTrust, Asked, Expect, EnterControl, EnterRecovery, Terminalise,
     Other, Die, Fail, Done, On, Goto
<1>2. ASSUME NEW q \in Proc, q # p,
             Plan(q) \/ Decide(q) \/ StartOperation(q) \/ ChangeSetting(q) \/ RecoverStorage(q) \/ CloseTurn(q) \/ Finish(q)
      PROVE  op'[p] = op[p]
  BY <1>2, <1>t DEF Plan, Decide, StartOperation, ChangeSetting, RecoverStorage, CloseTurn, Finish, Fail, Done, Failing, On,
     Goto, Advanced
<1>3. ASSUME Start(p) PROVE Enters(p)
  BY <1>3, <1>t DEF Start, Enters, Down, journals
<1>4. ASSUME Inspect(p) PROVE Enters(p)
  <2>1. CASE op' = [op EXCEPT ![p] = Idle]
    BY <1>t, <1>d, <2>1 DEF Enters
  <2>2. CASE op' = [op EXCEPT ![p] = [op[p] EXCEPT !.at = "identify", !.shead = Len(session),
                                      !.cmd = <<"recover", Len(session), "session" \in torn>>]]
    <3>1. /\ op'[p].at = "identify" /\ op'[p].shead = Len(session)
          /\ op'[p].cmd = <<"recover", Len(session), "session" \in torn>>
      BY <1>t, <2>2 DEF Operation
    <3>. QED
      BY <1>4, <3>1 DEF Inspect, Enters, journals
  <2>. QED
    BY <1>4, <2>1, <2>2 DEF Inspect
<1>5. ASSUME Expect(p) PROVE Enters(p)
  BY <1>5, <1>t DEF Expect, Enters, Placed, journals
<1>6. ASSUME Identify(p) PROVE Enters(p)
  <2>1. op' = [op EXCEPT ![p] = [op[p] EXCEPT !.at = "enter", !.kind = "recover", !.head = Len(control),
                                 !.cmd = Attempt(op[p].cmd, NextAttempt(op[p].cmd))]]
    BY <1>6 DEF Identify
  <2>2. /\ op'[p].at = "enter" /\ op'[p].kind = "recover" /\ op'[p].head = Len(control)
        /\ op'[p].cmd = Attempt(op[p].cmd, NextAttempt(op[p].cmd)) /\ op'[p].shead = op[p].shead
    BY <1>t, <2>1 DEF Operation
  <2>. QED
    BY <1>6, <2>2 DEF Identify, Enters, journals
<1>7. ASSUME AskSetting(p) \/ AskTrust(p) PROVE Enters(p)
  <2>1. PICK step \in {"expect", "enter"}, kind \in {"setting", "trust"}, n \in Nat :
          /\ Asked(p, step, kind, <<kind, n>>)
          /\ (step = "expect" /\ kind = "setting") \/ (step = "enter" /\ kind = "trust")
    <3>1. CASE AskSetting(p)
      BY <1>t, <3>1 DEF AskSetting
    <3>2. CASE AskTrust(p)
      BY <1>t, <3>2 DEF AskTrust
    <3>. QED
      BY <1>7, <3>1, <3>2
  <2>2. op' = [op EXCEPT ![p] = [op[p] EXCEPT !.at = step, !.kind = kind, !.cmd = <<kind, n>>, !.head = Len(control)]]
    BY <2>1 DEF Asked
  <2>3. op'[p].at = step /\ op'[p].kind = kind /\ op'[p].cmd = <<kind, n>>
    BY <1>t, <2>2 DEF Operation
  <2>. QED
    BY <2>1, <2>3 DEF Asked, Enters, journals
<1>8. ASSUME EnterControl(p) \/ EnterRecovery(p) PROVE Enters(p)
  <2>1. CASE op'[p] = [op[p] EXCEPT !.at = "plan"]
    BY <1>8, <2>1 DEF EnterControl, EnterRecovery, Enters, journals
  <2>2. CASE op' = [op EXCEPT ![p] = Idle]
    BY <1>t, <1>d, <2>2 DEF Enters
  <2>. QED
    BY <1>8, <1>f, <1>g, <1>t, <2>1, <2>2 DEF EnterControl, EnterRecovery, On, Goto
<1>9. ASSUME NEW step, NEW at, NEW out, Write(p, step, out), Moved(out), Advanced(p, at)
      PROVE  Grows(p, step, at)
  BY <1>9, <1>t DEF Write, Commit, Moved, Outcome, Advanced, Grows
<1>10. ASSUME Plan(p) PROVE Enters(p) \/ Advances(p)
  <2>1. PICK out \in Outcomes : /\ Write(p, "planned", out)
                                /\ \/ out = "done" /\ Advanced(p, "decide")
                                   \/ out = "unpublished" /\ Advanced(p, "failing")
                                   \/ Fail(p)
    BY <1>10 DEF Plan
  <2>2. Fail(p) \/ Grows(p, "planned", "decide") \/ Grows(p, "planned", "failing")
    BY <1>9, <2>1 DEF Moved
  <2>. QED
    BY <1>10, <1>f, <2>2 DEF Plan, Advances
<1>11. ASSUME Decide(p) PROVE Advances(p)
  <2>1. PICK out \in Outcomes, allow \in BOOLEAN :
          /\ Write(p, IF allow THEN "allowed" ELSE "denied", out)
          /\ \/ Moved(out) /\ Advanced(p, IF allow /\ out = "done" THEN "start" ELSE "failing")
             \/ Failing(p)
    BY <1>11 DEF Decide, Advanced
  <2>2. CASE Failing(p)
    BY <1>11, <1>h, <2>2 DEF Decide, Past, Working
  <2>3. CASE Moved(out) /\ Advanced(p, IF allow /\ out = "done" THEN "start" ELSE "failing")
    <3>1. Grows(p, IF allow THEN "allowed" ELSE "denied", IF allow /\ out = "done" THEN "start" ELSE "failing")
      BY <1>9, <2>1, <2>3
    <3>. QED
      BY <1>11, <3>1 DEF Decide, Advances
  <2>. QED
    BY <2>1, <2>2, <2>3
<1>12. ASSUME StartOperation(p) PROVE Advances(p)
  <2>1. PICK out \in Outcomes :
          /\ Write(p, "started", out)
          /\ \/ out = "done" /\ Advanced(p, IF op[p].kind \in Consequential THEN "effect" ELSE "finish")
             \/ out = "unpublished" /\ Advanced(p, "failing")
             \/ Failing(p)
    BY <1>12 DEF StartOperation
  <2>2. CASE Failing(p)
    BY <1>12, <1>h, <2>2 DEF StartOperation, Past, Working
  <2>3. CASE out = "done" /\ Advanced(p, IF op[p].kind \in Consequential THEN "effect" ELSE "finish")
    <3>1. Grows(p, "started", IF op[p].kind \in Consequential THEN "effect" ELSE "finish")
      BY <1>9, <2>1, <2>3 DEF Moved
    <3>. QED
      BY <1>12, <3>1 DEF StartOperation, Advances
  <2>4. CASE out = "unpublished" /\ Advanced(p, "failing")
    <3>1. Grows(p, "started", "failing")
      BY <1>9, <2>1, <2>4 DEF Moved
    <3>. QED
      BY <1>12, <3>1 DEF StartOperation, Advances
  <2>. QED
    BY <2>1, <2>2, <2>3, <2>4
<1>13. ASSUME ChangeSetting(p) PROVE Advances(p)
  <2>1. CASE Failing(p)
    BY <1>13, <1>h, <2>1 DEF ChangeSetting, Past, Working
  <2>2. CASE Commit("session", session, op[p].shead, Rec(op[p].cmd, "changed"), "done") /\ On(p, "finish")
    <3>1. UNCHANGED control /\ session' = Append(session, Rec(op[p].cmd, "changed"))
      BY <2>2 DEF Commit, Outcome, journals
    <3>. QED
      BY <1>13, <1>t, <2>2, <3>1 DEF ChangeSetting, On, Goto, Advances
  <2>. QED
    BY <1>13, <2>1, <2>2 DEF ChangeSetting
<1>14. ASSUME RecoverStorage(p) PROVE Advances(p)
  <2>1. CASE Failing(p)
    BY <1>14, <1>h, <2>1 DEF RecoverStorage, Past, Working
  <2>2. CASE ~ Failing(p)
    <3>1. PICK at \in {"close", "finish"} : op' = [op EXCEPT ![p] = [op[p] EXCEPT !.at = at, !.shead = Len(session) + 1]]
      BY <1>14, <2>2 DEF RecoverStorage
    <3>2. session' = Append(session, Rec(op[p].cmd, "recovered")) /\ UNCHANGED control /\ op[p].at = "effect"
      BY <1>14, <2>2 DEF RecoverStorage
    <3>. QED
      BY <1>t, <3>1, <3>2 DEF Advances
  <2>. QED
    BY <2>1, <2>2
<1>15. ASSUME CloseTurn(p) PROVE Advances(p)
  <2>1. CASE Failing(p)
    BY <1>15, <1>h, <2>1 DEF CloseTurn, Past, Working
  <2>2. CASE On(p, "finish")
    BY <1>15, <1>t, <2>2 DEF CloseTurn, On, Goto, Advances
  <2>. QED
    BY <1>15, <2>1, <2>2 DEF CloseTurn
<1>16. ASSUME Finish(p) PROVE Enters(p) \/ Advances(p)
  <2>1. Done(p) \/ Fail(p) \/ Failing(p)
    BY <1>16 DEF Finish
  <2>. QED
    BY <1>16, <1>f, <1>g, <1>h, <2>1 DEF Finish, Past, Working
<1>17. ASSUME Terminalise(p) \/ Other(p) \/ Die(p) PROVE op'[p] = op[p] \/ Enters(p)
  BY <1>17, <1>t, <1>d, <1>f DEF Terminalise, Other, Die, Enters
<1>. QED
  BY <1>1, <1>2, <1>3, <1>4, <1>5, <1>6, <1>7, <1>8, <1>10, <1>11, <1>12, <1>13, <1>14, <1>15, <1>16, <1>17 DEF Next, vars

-----------------------------------------------------------------------------
(* The invariant. *)

\* What is known up to a head stays, whatever is appended behind it.
LEMMA ControlGrows ==
  ASSUME TypeOK, [Next]_vars, TypeOK'
  PROVE  /\ Len(control) \in Nat /\ Len(control) <= Len(control') /\ Len(control') <= Len(control) + 1
         /\ \A i \in 1..Len(control) : control'[i] = control[i]
<1>1. \A r : control' = Append(control, r) => /\ Len(control') = Len(control) + 1
                                              /\ \A i \in 1..Len(control) : control'[i] = control[i]
  BY DEF TypeOK
<1>. QED
  BY <1>1, ControlSteps DEF TypeOK

LEMMA SessionGrows ==
  ASSUME TypeOK, [Next]_vars, TypeOK'
  PROVE  /\ Len(session) \in Nat /\ Len(session) <= Len(session') /\ Len(session') <= Len(session) + 1
         /\ \A i \in 1..Len(session) : session'[i] = session[i]
<1>1. \A r : session' = Append(session, r) => /\ Len(session') = Len(session) + 1
                                              /\ \A i \in 1..Len(session) : session'[i] = session[i]
  BY DEF TypeOK
<1>. QED
  BY <1>1, SessionSteps DEF TypeOK

LEMMA Grown ==
  ASSUME TypeOK, NEW p \in Proc, NEW step, NEW at, Grows(p, step, at)
  PROVE  /\ op'[p].at = at /\ op'[p].cmd = op[p].cmd /\ op'[p].kind = op[p].kind /\ op'[p].shead = op[p].shead
         /\ op'[p].head = op[p].head + 1 /\ op'[p].head = Len(control')
         /\ Len(control') = Len(control) + 1 /\ control'[Len(control')] = Rec(op[p].cmd, step)
         /\ \A i \in 1..Len(control) : control'[i] = control[i]
  BY DEF Grows, TypeOK, Operation

\* Nothing of a command stands before its plan.
LEMMA PlannedFirst ==
  ASSUME TypeOK, Ordered, NEW cmd \in Commands, \A i \in 1..Len(control) : control[i] # Rec(cmd, "planned"),
         NEW i \in 1..Len(control)
  PROVE  control[i].cmd # cmd
<1> SUFFICES ASSUME control[i].cmd = cmd PROVE FALSE
  OBVIOUS
<1>1. cmd # None
  BY NoneAssumption
<1>2. control[i] \in Record
  BY DEF TypeOK
<1>3. CASE control[i].step = "planned"
  BY <1>2, <1>3 DEF Record, Rec
<1>4. CASE control[i].step # "planned"
  <2>1. control[i].step \in DOMAIN Needs
    BY <1>1, <1>4 DEF Ordered
  <2>2. PICK j \in 1..(i - 1) : control[j] = Rec(cmd, Needs[control[i].step])
    BY <1>1, <1>4 DEF Ordered
  <2>3. j \in 1..Len(control) /\ control[j].cmd = cmd /\ control[j].step = Needs[control[i].step]
    BY <2>2 DEF Rec, TypeOK
  <2>4. CASE Needs[control[i].step] = "planned"
    BY <2>2, <2>3, <2>4
  <2>5. CASE Needs[control[i].step] = "allowed"
    <3>1. PICK k \in 1..(j - 1) : control[k] = Rec(cmd, "planned")
      BY <1>1, <2>3, <2>5 DEF Ordered, Needs
    <3>. QED
      BY <2>3, <3>1 DEF TypeOK
  <2>6. CASE Needs[control[i].step] = "started"
    <3>1. PICK k \in 1..(j - 1) : control[k] = Rec(cmd, "allowed")
      BY <1>1, <2>3, <2>6 DEF Ordered, Needs
    <3>2. k \in 1..Len(control) /\ control[k].cmd = cmd /\ control[k].step = "allowed"
      BY <2>3, <3>1 DEF TypeOK, Rec
    <3>3. PICK l \in 1..(k - 1) : control[l] = Rec(cmd, "planned")
      BY <1>1, <3>2 DEF Ordered, Needs
    <3>. QED
      BY <3>2, <3>3 DEF TypeOK
  <2>. QED
    BY <2>1, <2>4, <2>5, <2>6 DEF Needs
<1>. QED
  BY <1>3, <1>4

\* An append of the operation's own is known from then on.
LEMMA KnownGrows ==
  ASSUME TypeOK, NEW p \in Proc, Known(p), op[p].at \in Working, NEW step, NEW at \in Past, Grows(p, step, at), step \notin Final,
         at \in Working => Behind(at) = Behind(op[p].at) \cup {step}
  PROVE  Known(p)'
<1>0. /\ op'[p].at = at /\ op'[p].cmd = op[p].cmd /\ op'[p].head = op[p].head + 1 /\ op'[p].head = Len(control')
      /\ Len(control') = Len(control) + 1 /\ control'[Len(control')] = Rec(op[p].cmd, step)
      /\ \A i \in 1..Len(control) : control'[i] = control[i]
  BY Grown
<1>1. op'[p].at = at /\ op'[p].cmd = op[p].cmd /\ op'[p].head = op[p].head + 1 /\ op[p].head = Len(control) /\ Len(control) \in Nat
  BY <1>0 DEF TypeOK, Grows
<1>2. control'[op'[p].head] = Rec(op[p].cmd, step) /\ op'[p].head \in 1..Len(control')
  BY <1>0, <1>1
<1>3. \A i \in 1..op[p].head : control'[i] = control[i]
  BY <1>0, <1>1
<1>i. \A i \in 1..op'[p].head : i \in 1..op[p].head \/ i = op'[p].head
  BY <1>1
<1>4. \E i \in 1..op'[p].head : control'[i] = Rec(op[p].cmd, "planned")
  BY <1>1, <1>3 DEF Known, Past
<1>5. \A i \in 1..op'[p].head : control'[i].cmd = op[p].cmd => control'[i].step \notin Final
  BY <1>1, <1>2, <1>3 DEF Known, Past, Rec
<1>6. ASSUME at \in Working
      PROVE  /\ \A i \in 1..op'[p].head : control'[i].cmd = op[p].cmd => control'[i].step \in Behind(at)
             /\ \A s \in Behind(at) : \E i \in 1..op'[p].head : control'[i] = Rec(op[p].cmd, s)
  <2>1. \A i \in 1..op'[p].head : control'[i].cmd = op[p].cmd => control'[i].step \in Behind(at)
    BY <1>2, <1>3, <1>i, <1>6 DEF Known, Past, Rec
  <2>2. \A s \in Behind(op[p].at) : \E i \in 1..op[p].head : control'[i] = Rec(op[p].cmd, s)
    BY <1>3 DEF Known, Past
  <2>3. \A s \in Behind(op[p].at) : \E i \in 1..op'[p].head : control'[i] = Rec(op[p].cmd, s)
    BY <1>1, <2>2
  <2>4. \E i \in 1..op'[p].head : control'[i] = Rec(op[p].cmd, step)
    BY <1>1, <1>2
  <2>. QED
    BY <1>6, <2>1, <2>3, <2>4
<1>. QED
  BY <1>1, <1>2, <1>4, <1>5, <1>6 DEF Known, Rec

LEMMA KnownStep ==
  ASSUME IInv, [Next]_vars, TypeOK', NEW p \in Proc
  PROVE  Known(p)'
<1> USE DEF IInv
<1>g. /\ Len(control) \in Nat /\ Len(control) <= Len(control') /\ Len(control') <= Len(control) + 1
      /\ \A i \in 1..Len(control) : control'[i] = control[i]
  BY ControlGrows
<1>t. op[p] \in Operation
  BY DEF TypeOK
<1>h. ASSUME op[p].at \in Past PROVE \A i \in 1..op[p].head : i \in 1..Len(control) /\ control'[i] = control[i]
  BY <1>g, <1>h, <1>t DEF Known, Operation
<1>k. ASSUME op[p].at \in Past
      PROVE  /\ op[p].head <= Len(control')
             /\ \E i \in 1..op[p].head : control'[i] = Rec(op[p].cmd, "planned")
             /\ \A i \in 1..op[p].head : control'[i].cmd = op[p].cmd => control'[i].step \notin Final
             /\ op[p].at \in Working =>
                  /\ \A i \in 1..op[p].head : control'[i].cmd = op[p].cmd => control'[i].step \in Behind(op[p].at)
                  /\ \A s \in Behind(op[p].at) : \E i \in 1..op[p].head : control'[i] = Rec(op[p].cmd, s)
  <2>1. op[p].head <= Len(control')
    BY <1>g, <1>k, <1>t DEF Known, Operation
  <2>. QED
    BY <1>h, <1>k, <2>1 DEF Known
<1>1. CASE op'[p] = op[p]
  BY <1>1, <1>k DEF Known, Rec
<1>2. CASE Enters(p)
  BY <1>2, <1>t DEF Enters, Known, Past, Working, Operation
<1>3. CASE Advances(p)
  <2>1. CASE op[p].at = "plan"
    <3>1. PICK at \in {"decide", "failing"} : Grows(p, "planned", at)
      BY <1>3, <2>1 DEF Advances, Past, Working
    <3>2. op[p].cmd \in Commands
      BY <2>1 DEF Placed
    <3>3. \A i \in 1..Len(control) : control[i].cmd # op[p].cmd
      BY <3>1, <3>2, PlannedFirst DEF Grows
    <3>4. /\ op'[p].at = at /\ op'[p].cmd = op[p].cmd /\ op'[p].head = Len(control) + 1 /\ Len(control') = Len(control) + 1
          /\ control'[Len(control) + 1] = Rec(op[p].cmd, "planned")
      BY <3>1, Grown
    <3>5. \A i \in 1..(Len(control) + 1) : control'[i].cmd = op[p].cmd => i = Len(control) + 1
      BY <1>g, <3>3
    <3>. QED
      BY <1>g, <3>4, <3>5 DEF Known, Past, Working, Behind, Rec, Final
  <2>2. CASE op[p].at = "decide" /\ Grows(p, "allowed", "start")
    BY <2>2, KnownGrows DEF Past, Working, Behind, Final
  <2>3. CASE op[p].at = "start" /\ \E at \in {"effect", "finish", "failing"} : Grows(p, "started", at)
    BY <2>3, KnownGrows DEF Past, Working, Behind, Final
  <2>4. CASE op[p].at = "decide" /\ \E step \in {"allowed", "denied"} : Grows(p, step, "failing")
    BY <2>4, KnownGrows DEF Past, Working, Behind, Final
  <2>5. CASE /\ op[p].at \in {"effect", "close"} /\ UNCHANGED control
             /\ op'[p].at \in {"close", "finish"} /\ op'[p].head = op[p].head /\ op'[p].cmd = op[p].cmd
    BY <2>5, <1>t DEF Known, Past, Working, Behind
  <2>6. CASE op[p].at \in Past /\ op'[p] = [op[p] EXCEPT !.at = "failing", !.shead = 0]
    <3>1. op'[p].at = "failing" /\ op'[p].head = op[p].head /\ op'[p].cmd = op[p].cmd
      BY <1>t, <2>6 DEF Operation
    <3>. QED
      BY <1>k, <2>6, <3>1 DEF Known, Rec, Working
  <2>7. \/ op[p].at = "plan"
        \/ op[p].at = "decide" /\ Grows(p, "allowed", "start")
        \/ op[p].at = "decide" /\ \E step \in {"allowed", "denied"} : Grows(p, step, "failing")
        \/ op[p].at = "start" /\ \E at \in {"effect", "finish", "failing"} : Grows(p, "started", at)
        \/ /\ op[p].at \in {"effect", "close"} /\ UNCHANGED control
           /\ op'[p].at \in {"close", "finish"} /\ op'[p].head = op[p].head /\ op'[p].cmd = op[p].cmd
        \/ op[p].at \in Past /\ op'[p] = [op[p] EXCEPT !.at = "failing", !.shead = 0]
    BY <1>3, <1>t DEF Advances, Operation
  <2>. QED
    BY <2>1, <2>2, <2>3, <2>4, <2>5, <2>6, <2>7, Grown
<1>. QED
  BY <1>1, <1>2, <1>3, OperationSteps

LEMMA AlikeOnly ==
  ASSUME NEW a, NEW b, Alike(a, b)
  PROVE  a = b \/ {a, b} \subseteq {"allowed", "denied"} \/ {a, b} \subseteq Final
  BY DEF Alike

\* The compared head carries the order: whoever appends has read all records of its
\* command.
LEMMA OrderedStep ==
  ASSUME IInv, [Next]_vars, TypeOK'
  PROVE  Ordered'
<1> USE DEF IInv
<1>g. /\ Len(control) \in Nat /\ Len(control) <= Len(control') /\ Len(control') <= Len(control) + 1
      /\ \A i \in 1..Len(control) : control'[i] = control[i]
  BY ControlGrows
<1>o. ASSUME NEW i \in 1..Len(control), control'[i].cmd # None
      PROVE  /\ control'[i].step \in {"planned"} \cup DOMAIN Needs
             /\ \A j \in 1..(i - 1) : control'[j].cmd = control'[i].cmd =>
                  control'[j].step \notin Final /\ ~ Alike(control'[j].step, control'[i].step)
             /\ control'[i].step # "planned" =>
                  \E j \in 1..(i - 1) : control'[j] = Rec(control'[i].cmd, Needs[control'[i].step])
  <2>1. \A j \in 1..(i - 1) : control'[j] = control[j]
    BY <1>g
  <2>. QED
    BY <1>g, <1>o, <2>1 DEF Ordered
<1>1. CASE UNCHANGED control
  BY <1>1 DEF Ordered, Rec
<1>2. ASSUME NEW r, control' = Append(control, r),
             r.cmd = None \/
               /\ r.step \in {"planned"} \cup DOMAIN Needs
               /\ \A j \in 1..Len(control) : control[j].cmd = r.cmd =>
                    control[j].step \notin Final /\ ~ Alike(control[j].step, r.step)
               /\ r.step # "planned" => \E j \in 1..Len(control) : control[j] = Rec(r.cmd, Needs[r.step])
      PROVE  Ordered'
  <2>1. Len(control') = Len(control) + 1 /\ control'[Len(control) + 1] = r
    BY <1>2 DEF TypeOK
  <2>2. \A i \in 1..Len(control') : i \in 1..Len(control) \/ i = Len(control) + 1
    BY <1>g, <2>1
  <2>3. ASSUME NEW i, i = Len(control) + 1, control'[i].cmd # None
        PROVE  /\ control'[i].step \in {"planned"} \cup DOMAIN Needs
               /\ \A j \in 1..(i - 1) : control'[j].cmd = control'[i].cmd =>
                    control'[j].step \notin Final /\ ~ Alike(control'[j].step, control'[i].step)
               /\ control'[i].step # "planned" =>
                    \E j \in 1..(i - 1) : control'[j] = Rec(control'[i].cmd, Needs[control'[i].step])
    <3>1. i - 1 = Len(control) /\ control'[i] = r
      BY <1>g, <2>1, <2>3
    <3>. QED
      BY <1>g, <1>2, <2>3, <3>1
  <2>. QED
    BY <1>o, <2>2, <2>3 DEF Ordered, Rec
<1>3. ASSUME NEW p \in Proc, NEW step \in Steps, Writes(p, step), op[p].head = Len(control),
             \A i \in 1..Len(control) : control[i] # Rec(op[p].cmd, step)
      PROVE  /\ step \in {"planned"} \cup DOMAIN Needs
             /\ \A j \in 1..Len(control) : control[j].cmd = op[p].cmd =>
                  control[j].step \notin Final /\ ~ Alike(control[j].step, step)
             /\ step # "planned" => \E j \in 1..Len(control) : control[j] = Rec(op[p].cmd, Needs[step])
  <2>1. CASE op[p].at = "plan"
    <3>1. op[p].cmd \in Commands /\ step = "planned"
      BY <1>3, <2>1 DEF Placed, Writes
    <3>. QED
      BY <1>3, <3>1, PlannedFirst
  <2>k. ASSUME op[p].at \in Working
        PROVE  /\ \A j \in 1..Len(control) : control[j].cmd = op[p].cmd => control[j].step \in Behind(op[p].at)
               /\ \A s \in Behind(op[p].at) : \E j \in 1..Len(control) : control[j] = Rec(op[p].cmd, s)
    BY <1>3, <2>k DEF Known, Past
  <2>a. ASSUME NEW s \in {"planned", "allowed", "started"}, NEW t \in {"allowed", "denied", "started", "completed"}, s # t,
               ~ (s = "allowed" /\ t = "denied")
        PROVE  s \notin Final /\ ~ Alike(s, t)
    BY <2>a, AlikeOnly DEF Final
  <2>2. CASE op[p].at = "decide"
    <3>1. Behind(op[p].at) = {"planned"} /\ step \in {"allowed", "denied"} /\ op[p].at \in Working /\ Needs[step] = "planned"
      BY <1>3, <2>2 DEF Writes, Behind, Working, Needs
    <3>. QED
      BY <2>k, <2>a, <3>1 DEF Needs
  <2>3. CASE op[p].at = "start"
    <3>1. Behind(op[p].at) = {"planned", "allowed"} /\ step = "started" /\ op[p].at \in Working /\ Needs[step] = "allowed"
      BY <1>3, <2>3 DEF Writes, Behind, Working, Needs
    <3>. QED
      BY <2>k, <2>a, <3>1 DEF Needs
  <2>4. CASE op[p].at = "finish"
    <3>1. /\ Behind(op[p].at) = {"planned", "allowed", "started"} /\ step = "completed" /\ op[p].at \in Working
          /\ Needs[step] = "started"
      BY <1>3, <2>4 DEF Writes, Behind, Working, Needs
    <3>. QED
      BY <2>k, <2>a, <3>1 DEF Needs
  <2>5. CASE op[p].at = "failing"
    BY <1>3, <2>5, AlikeOnly DEF Writes, Known, Past, Working, Needs, Final
  <2>. QED
    BY <1>3, <2>1, <2>2, <2>3, <2>4, <2>5 DEF Writes
<1>4. ASSUME NEW p \in Proc, NEW step \in Steps, Writes(p, step), op[p].head = Len(control),
             \A i \in 1..Len(control) : control[i] # Rec(op[p].cmd, step), control' = Append(control, Rec(op[p].cmd, step))
      PROVE  Ordered'
  <2>1. Rec(op[p].cmd, step).cmd = op[p].cmd /\ Rec(op[p].cmd, step).step = step
    BY DEF Rec
  <2>. QED
    BY <1>2, <1>3, <1>4, <2>1
<1>5. CASE control' = Append(control, Rec(None, "other"))
  BY <1>2, <1>5 DEF Rec
<1>. QED
  BY <1>1, <1>4, <1>5, ControlSteps

LEMMA OthersStep ==
  ASSUME IInv, [Next]_vars, TypeOK'
  PROVE  Others'
<1> USE DEF IInv
<1>1. CASE UNCHANGED control
  BY <1>1 DEF Others
<1>2. ASSUME NEW cmd, NEW step, control' = Append(control, Rec(cmd, step)), cmd = None => step = "other"
      PROVE  Others'
  <2>1. /\ Len(control') = Len(control) + 1 /\ control'[Len(control) + 1] = Rec(cmd, step) /\ Len(control) \in Nat
        /\ \A i \in 1..Len(control) : control'[i] = control[i]
    BY <1>2 DEF TypeOK
  <2>2. \A i \in 1..Len(control') : i \in 1..Len(control) \/ i = Len(control) + 1
    BY <2>1
  <2>. QED
    BY <1>2, <2>1, <2>2 DEF Others, Rec
<1>3. ASSUME NEW p \in Proc, NEW step \in Steps, Writes(p, step) PROVE op[p].cmd # None
  BY <1>3, NoneAssumption DEF Writes, Placed, Past, Working
<1>. QED
  BY <1>1, <1>2, <1>3, ControlSteps

\* Records that are held stay held.
LEMMA HoldsStays ==
  ASSUME TypeOK, [Next]_vars, TypeOK', NEW cmd, NEW step, Holds(control, cmd, step)
  PROVE  Holds(control', cmd, step)
  BY ControlGrows DEF Holds, Rec

LEMMA OneEffectStep ==
  ASSUME IInv, [Next]_vars, TypeOK'
  PROVE  OneEffect'
<1> USE DEF IInv
<1>g. /\ Len(session) \in Nat /\ Len(session) <= Len(session') /\ Len(session') <= Len(session) + 1
      /\ \A i \in 1..Len(session) : session'[i] = session[i]
  BY SessionGrows
<1>1. CASE UNCHANGED session
  BY <1>1, HoldsStays DEF OneEffect, Rec
<1>2. ASSUME NEW cmd, NEW step \in Steps, session' = Append(session, Rec(cmd, step)),
             cmd # None =>
               /\ Holds(control, cmd, "started")
               /\ \/ step = "changed" /\ cmd[1] = "setting" /\ \A j \in 1..Len(session) : session[j] # Rec(cmd, step)
                  \/ step = "recovered" /\ cmd[1] = "recover" /\ cmd[2] = Len(session)
                  \/ step = "closed" /\ \E j \in 1..Len(session) : session[j] = Rec(cmd, "recovered")
      PROVE  OneEffect'
  <2>1. Len(session') = Len(session) + 1 /\ session'[Len(session) + 1] = Rec(cmd, step)
    BY <1>2 DEF TypeOK
  <2>2. \A i \in 1..Len(session') : i \in 1..Len(session) \/ i = Len(session) + 1
    BY <1>g, <2>1
  <2>3. \A j \in 1..Len(session) : j \in 1..Len(session')
    BY <1>g
  <2>r. Rec(cmd, step).cmd = cmd /\ Rec(cmd, step).step = step
    BY DEF Rec
  <2>4. ASSUME NEW i \in 1..Len(session'), session'[i].cmd # None
        PROVE  /\ Holds(control', session'[i].cmd, "started")
               /\ \/ session'[i].step = "changed" /\ session'[i].cmd[1] = "setting"
                  \/ session'[i].step = "recovered" /\ session'[i].cmd[1] = "recover" /\ session'[i].cmd[2] = i - 1
                  \/ session'[i].step = "closed" /\ \E j \in 1..Len(session') : session'[j] = Rec(session'[i].cmd, "recovered")
    <3>1. CASE i \in 1..Len(session)
      BY <1>g, <2>3, <2>4, <3>1, HoldsStays DEF OneEffect
    <3>2. CASE i = Len(session) + 1
      BY <1>g, <1>2, <2>1, <2>3, <2>r, <2>4, <3>2, HoldsStays
    <3>. QED
      BY <2>2, <3>1, <3>2
  <2>5. ASSUME NEW i \in 1..Len(session'), NEW j \in 1..Len(session'), session'[i].cmd # None, session'[i] = session'[j],
               session'[i].step = "changed"
        PROVE  i = j
    <3>1. CASE i \in 1..Len(session) /\ j \in 1..Len(session)
      BY <1>g, <2>5, <3>1 DEF OneEffect
    <3>2. CASE i = Len(session) + 1 \/ j = Len(session) + 1
      BY <1>g, <1>2, <2>1, <2>2, <2>r, <2>5, <3>2
    <3>. QED
      BY <2>2, <3>1, <3>2
  <2>. QED
    BY <2>4, <2>5 DEF OneEffect, Rec
<1>3. ASSUME NEW p \in Proc, op[p].at \in {"effect", "close"} PROVE Holds(control, op[p].cmd, "started")
  <2>1. "started" \in Behind(op[p].at) /\ op[p].at \in Working
    BY <1>3 DEF Working, Behind
  <2>2. PICK i \in 1..op[p].head : control[i] = Rec(op[p].cmd, "started")
    BY <2>1 DEF Known, Past
  <2>3. op[p].head \in Nat /\ op[p].head <= Len(control) /\ Len(control) \in Nat
    BY <2>1 DEF Known, Past, TypeOK, Operation
  <2>. QED
    BY <2>2, <2>3 DEF Holds
<1>4. ASSUME NEW p \in Proc, NEW step \in {"changed", "recovered", "closed"}, session' = Append(session, Rec(op[p].cmd, step)),
             \/ /\ step = "changed" /\ op[p].at = "effect" /\ op[p].kind = "setting"
                /\ \A i \in 1..Len(session) : session[i] # Rec(op[p].cmd, step)
             \/ /\ step = "recovered" /\ op[p].at = "effect" /\ op[p].kind = "recover"
                /\ Len(session) = op[p].shead
             \/ step = "closed" /\ op[p].at = "close"
      PROVE  OneEffect'
  <2>1. op[p].cmd[1] = op[p].kind /\ (op[p].at = "effect" /\ op[p].kind = "recover" => op[p].cmd[2] = op[p].shead)
    BY <1>4 DEF Placed, Past, Working
  <2>2. op[p].at = "close" => \E i \in 1..Len(session) : session[i] = Rec(op[p].cmd, "recovered")
    BY DEF Placed
  <2>. QED
    BY <1>2, <1>3, <1>4, <2>1, <2>2 DEF Steps
<1>5. CASE session' = Append(session, Rec(None, "other"))
  BY <1>2, <1>5 DEF Steps
<1>. QED
  BY <1>1, <1>4, <1>5, SessionSteps

\* An operation keeps its command, and leaves its effect with the effect's record.
LEMMA PlacedStep ==
  ASSUME IInv, [Next]_vars, TypeOK', NEW p \in Proc
  PROVE  Placed(p)'
<1> USE DEF IInv
<1>g. /\ Len(session) \in Nat /\ Len(session) <= Len(session') /\ Len(session') <= Len(session) + 1
      /\ \A i \in 1..Len(session) : session'[i] = session[i]
  BY SessionGrows
<1>t. op[p] \in Operation /\ Placed(p) /\ calls \in Nat
  BY DEF TypeOK
<1>s. ASSUME NEW cmd, \E i \in 1..Len(session) : session[i] = Rec(cmd, "recovered")
      PROVE  \E i \in 1..Len(session') : session'[i] = Rec(cmd, "recovered")
  BY <1>g, <1>s
<1>e. ASSUME \E i \in 1..Len(session) : EffectAt(i, op[p].cmd)
      PROVE  \E i \in 1..Len(session') : session'[i].cmd = op[p].cmd /\ session'[i].step # "closed"
  BY <1>g, <1>e DEF EffectAt
<1>1. CASE op'[p] = op[p]
  <2>1. op[p].at = "close" => \E i \in 1..Len(session') : session'[i] = Rec(op[p].cmd, "recovered")
    BY <1>g DEF Placed
  <2>2. op[p].at = "finish" /\ op[p].kind \in Consequential
          => \E i \in 1..Len(session') : session'[i].cmd = op[p].cmd /\ session'[i].step # "closed"
    BY <1>e DEF Placed
  <2>. QED
    BY <1>1, <1>t, <2>1, <2>2 DEF Placed, EffectAt, Rec
<1>2. CASE Enters(p)
  <2> USE DEF Past, Working
  <2>1. CASE op'[p].at \in {"down", "idle", "inspect"}
    BY <2>1 DEF Placed
  <2>2. CASE op'[p].at = "plan" /\ op'[p].kind = "activate" /\ op'[p].cmd = <<"activate", calls>>
    BY <1>t, <2>2 DEF Placed, Commands, Kinds
  <2>3. CASE op'[p].at = "identify" /\ op'[p].shead = Len(session) /\ op'[p].cmd = <<"recover", Len(session), "session" \in torn>>
    <3>1. PICK b \in BOOLEAN : op'[p].cmd = <<"recover", Len(session), b>>
      <4>1. ("session" \in torn) \in BOOLEAN
        OBVIOUS
      <4>. QED
        BY <2>3, <4>1
    <3>2. op'[p].cmd \in Storages /\ op'[p].cmd[2] = Len(session)
      BY <1>g, <3>1 DEF Storages
    <3>. QED
      BY <2>3, <3>2 DEF Placed
  <2>4. CASE /\ op[p].at = "identify" /\ op'[p].at = "enter" /\ op'[p].kind = "recover"
             /\ op'[p].cmd = Attempt(op[p].cmd, NextAttempt(op[p].cmd)) /\ op'[p].shead = op[p].shead
    <3>1. op[p].cmd \in Storages /\ op[p].cmd[2] = op[p].shead
      BY <1>t, <2>4 DEF Placed
    <3>2. NextAttempt(op[p].cmd) \in Nat
      BY AttemptsCount
    <3>3. op'[p].cmd \in Commands /\ op'[p].cmd[1] = "recover" /\ op'[p].cmd[2] = op'[p].shead
      BY <2>4, <3>1, <3>2, AttemptName
    <3>. QED
      BY <2>4, <3>3 DEF Placed
  <2>5. CASE /\ (op'[p].at = "expect" /\ op'[p].kind = "setting") \/ (op'[p].at = "enter" /\ op'[p].kind = "trust")
             /\ \E n \in Nat : op'[p].cmd = <<op'[p].kind, n>>
    <3>1. op'[p].cmd \in Commands /\ op'[p].cmd[1] = op'[p].kind
      BY <2>5 DEF Commands, Kinds
    <3>. QED
      BY <2>5, <3>1 DEF Placed
  <2>6. CASE \/ op[p].at = "expect" /\ op'[p] = [op[p] EXCEPT !.at = "plan", !.shead = Len(session)] /\ op[p].kind = "setting"
             \/ op[p].at = "enter" /\ op'[p] = [op[p] EXCEPT !.at = "plan"]
    BY <1>t, <2>6 DEF Placed, Operation
  <2>. QED
    BY <1>2, <2>1, <2>2, <2>3, <2>4, <2>5, <2>6 DEF Enters
<1>3. CASE Advances(p)
  <2>0. op[p].at \in {"plan"} \cup Past
    BY <1>3 DEF Advances, Past, Working
  <2>1. /\ op'[p].cmd = op[p].cmd /\ op'[p].kind = op[p].kind
        /\ op'[p].at \in Past
    <3>1. \A step, at : Grows(p, step, at) => op'[p].at = at /\ op'[p].cmd = op[p].cmd /\ op'[p].kind = op[p].kind
      BY Grown
    <3>. QED
      BY <1>3, <1>t, <3>1 DEF Advances, Past, Working, Operation
  <2>2. op'[p].cmd \in Commands /\ op'[p].cmd[1] = op'[p].kind
    BY <1>t, <2>0, <2>1 DEF Placed
  <2>c. \/ op[p].at = "plan" /\ op'[p].at \in {"decide", "failing"} /\ op'[p].shead = op[p].shead
        \/ op[p].at = "decide" /\ op'[p].at \in {"start", "failing"} /\ op'[p].shead = op[p].shead
        \/ /\ op[p].at = "start" /\ op'[p].at \in {"effect", "finish", "failing"} /\ op'[p].shead = op[p].shead
           /\ op[p].kind \in Consequential => op'[p].at # "finish"
           /\ op'[p].at = "effect" => op[p].kind \in Consequential
        \/ op[p].at = "effect" /\ op'[p].at = "finish" /\ session' = Append(session, Rec(op[p].cmd, "changed"))
        \/ op[p].at = "effect" /\ op'[p].at \in {"close", "finish"} /\ session' = Append(session, Rec(op[p].cmd, "recovered"))
        \/ op[p].at = "close" /\ op'[p].at = "finish"
        \/ op'[p].at = "failing"
    <3>1. \A step, at : Grows(p, step, at) => op'[p].at = at /\ op'[p].shead = op[p].shead
      BY Grown
    <3>. QED
      BY <1>3, <1>t, <3>1 DEF Advances, Operation
  <2>3. op'[p].at \in {"enter", "plan", "decide", "start", "effect"} => op'[p].shead = op[p].shead /\ op[p].at \in {"plan", "decide", "start"}
    BY <2>c
  <2>4. op'[p].at \in {"effect", "close"} => op[p].kind \in Consequential
    BY <1>t, <2>c DEF Placed
  <2>r. ASSUME NEW step \in {"changed", "recovered"}, session' = Append(session, Rec(op[p].cmd, step))
        PROVE  session'[Len(session) + 1] = Rec(op[p].cmd, step) /\ Len(session) + 1 \in 1..Len(session')
    BY <1>g, <2>r DEF TypeOK
  <2>5. op'[p].at = "close" => \E i \in 1..Len(session') : session'[i] = Rec(op[p].cmd, "recovered")
    BY <2>c, <2>r
  <2>6. op'[p].at = "finish" /\ op[p].kind \in Consequential
          => \E i \in 1..Len(session') : session'[i].cmd = op[p].cmd /\ session'[i].step # "closed"
    <3>1. \A step \in {"changed", "recovered"} :
            Rec(op[p].cmd, step).cmd = op[p].cmd /\ Rec(op[p].cmd, step).step # "closed"
      BY DEF Rec
    <3>2. op[p].at = "close" => \E i \in 1..Len(session') : session'[i] = Rec(op[p].cmd, "recovered")
      BY <1>t, <1>g DEF Placed
    <3>. QED
      BY <2>c, <2>r, <3>1, <3>2
  <2>. QED
    BY <1>t, <2>1, <2>2, <2>3, <2>4, <2>5, <2>6 DEF Placed, EffectAt, Rec, Past, Working
<1>. QED
  BY <1>1, <1>2, <1>3, OperationSteps

LEMMA CompletedStep ==
  ASSUME IInv, [Next]_vars, TypeOK'
  PROVE  CompletedHasEffect'
<1> USE DEF IInv
<1>g. /\ Len(control) \in Nat /\ Len(control) <= Len(control') /\ Len(control') <= Len(control) + 1
      /\ \A i \in 1..Len(control) : control'[i] = control[i]
  BY ControlGrows
<1>s. \A cmd : (\E j \in 1..Len(session) : EffectAt(j, cmd))
                 => \E j \in 1..Len(session') : session'[j].cmd = cmd /\ session'[j].step # "closed"
  BY SessionGrows DEF EffectAt
<1>1. ASSUME NEW i \in 1..Len(control), control'[i].step = "completed", control'[i].cmd[1] \in Consequential
      PROVE  \E j \in 1..Len(session') : session'[j].cmd = control'[i].cmd /\ session'[j].step # "closed"
  BY <1>g, <1>s, <1>1 DEF CompletedHasEffect
<1>2. CASE UNCHANGED control
  BY <1>1, <1>2 DEF CompletedHasEffect, EffectAt
<1>3. ASSUME NEW cmd, NEW step, control' = Append(control, Rec(cmd, step)),
             step = "completed" /\ cmd[1] \in Consequential => \E j \in 1..Len(session) : EffectAt(j, cmd)
      PROVE  CompletedHasEffect'
  <2>1. Len(control') = Len(control) + 1 /\ control'[Len(control) + 1] = Rec(cmd, step)
    BY <1>3 DEF TypeOK
  <2>2. \A i \in 1..Len(control') : i \in 1..Len(control) \/ i = Len(control) + 1
    BY <1>g, <2>1
  <2>3. Rec(cmd, step).cmd = cmd /\ Rec(cmd, step).step = step
    BY DEF Rec
  <2>4. ASSUME NEW i, i = Len(control) + 1, control'[i].step = "completed", control'[i].cmd[1] \in Consequential
        PROVE  \E j \in 1..Len(session') : session'[j].cmd = control'[i].cmd /\ session'[j].step # "closed"
    BY <1>3, <1>s, <2>1, <2>3, <2>4
  <2>. QED
    BY <1>1, <2>2, <2>4 DEF CompletedHasEffect, EffectAt
<1>4. ASSUME NEW p \in Proc, NEW step \in Steps, Writes(p, step), control' = Append(control, Rec(op[p].cmd, step))
      PROVE  CompletedHasEffect'
  <2>1. step = "completed" => op[p].at = "finish" /\ op[p].cmd[1] = op[p].kind
    BY <1>4 DEF Writes, Placed, Past, Working
  <2>2. step = "completed" /\ op[p].cmd[1] \in Consequential => \E j \in 1..Len(session) : EffectAt(j, op[p].cmd)
    BY <2>1 DEF Placed
  <2>. QED
    BY <1>3, <1>4, <2>2
<1>5. CASE control' = Append(control, Rec(None, "other"))
  BY <1>3, <1>5
<1>. QED
  BY <1>2, <1>4, <1>5, ControlSteps

-----------------------------------------------------------------------------
(* The attempts of a recovery. *)

\* Other commands and other records do not count as attempts.
LEMMA PlannedStays ==
  ASSUME TypeOK, NEW r, control' = Append(control, r), NEW cmd, r # Rec(cmd, "planned")
  PROVE  Planned(cmd)' <=> Planned(cmd)
<1>1. /\ Len(control') = Len(control) + 1 /\ control'[Len(control) + 1] = r /\ Len(control) \in Nat
      /\ \A i \in 1..Len(control) : control'[i] = control[i]
  BY DEF TypeOK
<1>. QED
  BY <1>1 DEF Planned, Rec

LEMMA PlannedComes ==
  ASSUME TypeOK, NEW cmd, control' = Append(control, Rec(cmd, "planned"))
  PROVE  Planned(cmd)'
<1>1. /\ Len(control') = Len(control) + 1 /\ control'[Len(control) + 1] = Rec(cmd, "planned") /\ Len(control) \in Nat
  BY DEF TypeOK
<1>. QED
  BY <1>1 DEF Planned, Rec

LEMMA NumberedStep ==
  ASSUME IInv, [Next]_vars, TypeOK'
  PROVE  Numbered'
<1> USE DEF IInv
<1>g. Len(control) \in Nat /\ Len(control) <= Len(control') /\ Len(control') \in Nat
  BY ControlGrows DEF TypeOK
<1>1. CASE UNCHANGED control
  BY <1>1 DEF Numbered, NumberedTo, Planned, Rec
<1>2. ASSUME NEW r, control' = Append(control, r),
             \A s \in Storages, n \in Nat : r # Rec(Attempt(s, n), "planned")
      PROVE  Numbered'
  <2>1. \A s \in Storages, n \in Nat : Planned(Attempt(s, n))' <=> Planned(Attempt(s, n))
    BY <1>2, PlannedStays
  <2>. QED
    BY <1>g, <2>1 DEF Numbered, NumberedTo
<1>3. ASSUME NEW t \in Storages, NEW k \in 0..Len(control), NumberedTo(t, k),
             control' = Append(control, Rec(Attempt(t, k + 1), "planned"))
      PROVE  Numbered'
  <2>. SUFFICES ASSUME NEW s \in Storages PROVE \E l \in 0..Len(control') : NumberedTo(s, l)'
    BY DEF Numbered
  <2>1. CASE s # t
    <3>1. \A n \in Nat : Rec(Attempt(t, k + 1), "planned") # Rec(Attempt(s, n), "planned")
      BY <1>g, <2>1, SameAttempt DEF Rec
    <3>2. \A n \in Nat : Planned(Attempt(s, n))' <=> Planned(Attempt(s, n))
      BY <1>3, <3>1, PlannedStays
    <3>. QED
      BY <1>g, <3>2 DEF Numbered, NumberedTo
  <2>2. CASE s = t
    <3>1. \A n \in Nat : n # k + 1 => Rec(Attempt(t, k + 1), "planned") # Rec(Attempt(t, n), "planned")
      BY <1>g, SameAttempt DEF Rec
    <3>2. \A n \in Nat : n # k + 1 => (Planned(Attempt(t, n))' <=> Planned(Attempt(t, n)))
      BY <1>3, <3>1, PlannedStays
    <3>3. Planned(Attempt(t, k + 1))'
      BY <1>3, PlannedComes
    <3>4. \A n \in Nat : Planned(Attempt(t, n))' <=> n \in 1..(k + 1)
      BY <1>3, <3>2, <3>3 DEF NumberedTo
    <3>5. k + 1 \in 0..Len(control')
      BY <1>3, <1>g DEF TypeOK
    <3>. QED
      BY <2>2, <3>4, <3>5 DEF NumberedTo
  <2>. QED
    BY <2>1, <2>2
<1>4. ASSUME NEW p \in Proc, NEW step \in Steps, Writes(p, step), op[p].head = Len(control),
             control' = Append(control, Rec(op[p].cmd, step))
      PROVE  Numbered'
  <2>1. CASE step # "planned"
    BY <1>2, <1>4, <2>1 DEF Rec
  <2>2. CASE step = "planned" /\ op[p].kind # "recover"
    <3>1. op[p].cmd[1] # "recover"
      BY <1>4, <2>2 DEF Writes, Placed
    <3>2. \A s \in Storages, n \in Nat : op[p].cmd # Attempt(s, n)
      BY <3>1, AttemptName
    <3>. QED
      BY <1>2, <1>4, <3>2 DEF Rec
  <2>3. CASE step = "planned" /\ op[p].kind = "recover"
    <3>1. PICK t \in Storages, k \in 0..Len(control) : op[p].cmd = Attempt(t, k + 1) /\ NumberedTo(t, k)
      BY <1>4, <2>3 DEF Writes, Fresh
    <3>. QED
      BY <1>3, <1>4, <2>3, <3>1
  <2>. QED
    BY <2>1, <2>2, <2>3
<1>5. CASE control' = Append(control, Rec(None, "other"))
  BY <1>2, <1>5 DEF Rec
<1>. QED
  BY <1>1, <1>4, <1>5, ControlSteps

\* A process that counts the attempts gets the next number.
LEMMA CountedAttempt ==
  ASSUME TypeOK, Numbered, NEW storage \in Storages
  PROVE  \E k \in 0..Len(control) : NextAttempt(storage) = k + 1 /\ NumberedTo(storage, k)
<1>1. PICK k \in 0..Len(control) : NumberedTo(storage, k)
  BY DEF Numbered
<1>2. Attempts(storage) = 1..k
  BY <1>1 DEF Attempts, NumberedTo, Planned, TypeOK
<1>3. Cardinality(1..k) = k
  BY FS_Interval DEF TypeOK
<1>. QED
  BY <1>1, <1>2, <1>3 DEF NextAttempt

LEMMA FreshStep ==
  ASSUME IInv, [Next]_vars, TypeOK', NEW p \in Proc
  PROVE  Fresh(p)'
<1> USE DEF IInv
<1>t. op[p] \in Operation /\ Len(control) \in Nat
  BY DEF TypeOK
<1>g. Len(control) <= Len(control') /\ (Len(control') = Len(control) => UNCHANGED control) /\ Len(control') \in Nat
  <2>1. \A r : control' = Append(control, r) => Len(control') = Len(control) + 1
    BY DEF TypeOK
  <2>. QED
    BY <1>t, <2>1, ControlSteps DEF TypeOK
<1>1. CASE /\ op'[p].at \in {"enter", "plan"} => op[p].at \in {"enter", "plan"}
           /\ op'[p].kind = op[p].kind /\ op'[p].head = op[p].head /\ op'[p].cmd = op[p].cmd
  <2>. SUFFICES ASSUME op[p].at \in {"enter", "plan"}, op[p].kind = "recover"
                PROVE  /\ op[p].head <= Len(control')
                       /\ op[p].head = Len(control') =>
                            \E storage \in Storages, k \in 0..Len(control') :
                              op[p].cmd = Attempt(storage, k + 1) /\ NumberedTo(storage, k)'
    BY <1>1 DEF Fresh
  <2>1. op[p].head <= Len(control) /\ op[p].head \in Nat
    BY <1>t DEF Fresh, Operation
  <2>2. ASSUME op[p].head = Len(control') PROVE UNCHANGED control /\ op[p].head = Len(control)
    BY <1>g, <1>t, <2>1, <2>2
  <2>3. ASSUME UNCHANGED control PROVE \A storage, k : NumberedTo(storage, k)' <=> NumberedTo(storage, k)
    BY <2>3 DEF NumberedTo, Planned, Rec
  <2>. QED
    BY <1>g, <1>t, <2>1, <2>2, <2>3 DEF Fresh
<1>2. CASE op'[p].at \notin {"enter", "plan"} \/ op'[p].kind # "recover"
  BY <1>2 DEF Fresh
<1>3. CASE Enters(p)
  <2>1. CASE /\ op[p].at = "identify" /\ op'[p].at = "enter" /\ op'[p].kind = "recover" /\ op'[p].head = Len(control)
             /\ op'[p].cmd = Attempt(op[p].cmd, NextAttempt(op[p].cmd)) /\ UNCHANGED control
    <3>1. op[p].cmd \in Storages
      BY <2>1 DEF Placed
    <3>2. PICK k \in 0..Len(control) : NextAttempt(op[p].cmd) = k + 1 /\ NumberedTo(op[p].cmd, k)
      BY <3>1, CountedAttempt
    <3>4. \A cmd : Planned(cmd)' <=> Planned(cmd)
      BY <2>1 DEF Planned, Rec
    <3>5. PICK s \in Storages : s = op[p].cmd
      BY <3>1
    <3>6. NumberedTo(s, k)'
      BY <3>2, <3>4, <3>5 DEF NumberedTo
    <3>. QED
      BY <1>t, <2>1, <3>2, <3>5, <3>6 DEF Fresh
  <2>2. CASE op[p].at = "enter" /\ op'[p] = [op[p] EXCEPT !.at = "plan"]
    BY <1>1, <1>t, <2>2 DEF Operation
  <2>3. CASE op[p].at = "expect" /\ op'[p] = [op[p] EXCEPT !.at = "plan", !.shead = Len(session)] /\ op[p].kind = "setting"
    BY <1>2, <1>t, <2>3 DEF Operation
  <2>. QED
    BY <1>2, <1>3, <2>1, <2>2, <2>3 DEF Enters
<1>4. CASE Advances(p)
  <2>1. \A step, at : Grows(p, step, at) => op'[p].at = at
    BY Grown
  <2>. QED
    BY <1>2, <1>4, <1>t, <2>1 DEF Advances, Operation
<1>5. CASE op'[p] = op[p]
  BY <1>1, <1>5
<1>. QED
  BY <1>3, <1>4, <1>5, OperationSteps

-----------------------------------------------------------------------------
(* The theorems. *)

LEMMA InitIInv == Init => IInv
<1> SUFFICES ASSUME Init PROVE IInv
  OBVIOUS
<1> USE DEF Init
<1>1. Down \in Operation /\ Down.at = "down"
  BY DEF Down, Operation, Places
<1>2. TypeOK
  <2>1. control \in Seq(Record) /\ session \in Seq(Record)
    OBVIOUS
  <2>2. op \in [Proc -> Operation]
    BY <1>1
  <2>. QED
    BY <2>1, <2>2 DEF TypeOK
<1>3. Len(control) = 0 /\ Len(session) = 0
  OBVIOUS
<1>4. Others /\ Ordered /\ OneEffect /\ CompletedHasEffect
  BY <1>3 DEF Others, Ordered, OneEffect, CompletedHasEffect
<1>5. Numbered
  <2>1. \A storage : NumberedTo(storage, 0)
    BY <1>3 DEF NumberedTo, Planned
  <2>. QED
    BY <1>3, <2>1 DEF Numbered
<1>6. \A p \in Proc : Known(p) /\ Placed(p) /\ Fresh(p)
  BY <1>1 DEF Known, Placed, Fresh, Past, Working
<1>. QED
  BY <1>2, <1>4, <1>5, <1>6 DEF IInv

LEMMA IInvStep == IInv /\ [Next]_vars => IInv'
<1> SUFFICES ASSUME IInv, [Next]_vars PROVE IInv'
  OBVIOUS
<1>1. TypeOK'
  BY TypeStep DEF IInv
<1>. QED
  BY <1>1, OthersStep, OrderedStep, OneEffectStep, CompletedStep, NumberedStep, KnownStep, PlacedStep, FreshStep DEF IInv

LEMMA Inductive == Spec => []IInv
  BY InitIInv, IInvStep, PTL DEF Spec

\* A command has one effect on the session: a setting is not repeated, and a recovery
\* stands where the storage ended that its command names.
LEMMA EffectsUnique ==
  ASSUME IInv, NEW i \in 1..Len(session), session[i].cmd # None
  PROVE  Cardinality(Effects(session[i].cmd)) = 1
<1>. PICK cmd : cmd = session[i].cmd
  OBVIOUS
<1>1. ASSUME NEW j \in Effects(cmd), NEW k \in Effects(cmd) PROVE j = k
  <2>1. /\ j \in 1..Len(session) /\ session[j].cmd = cmd /\ session[j].step # "closed"
        /\ k \in 1..Len(session) /\ session[k].cmd = cmd /\ session[k].step # "closed"
    BY <1>1 DEF Effects
  <2>2. session[j] \in Record /\ session[k] \in Record
    BY <2>1 DEF IInv, TypeOK
  <2>3. CASE session[j].step = session[k].step
    <3>1. session[j] = session[k]
      BY <2>1, <2>2, <2>3 DEF Record
    <3>. QED
      BY <2>1, <2>3, <3>1 DEF IInv, OneEffect
  <2>4. session[j].step = session[k].step
    BY <2>1 DEF IInv, OneEffect
  <2>. QED
    BY <2>3, <2>4
<1>2. \E j : j \in Effects(cmd)
  <2>1. CASE session[i].step = "closed"
    <3>1. PICK j \in 1..Len(session) : session[j] = Rec(cmd, "recovered")
      BY <2>1 DEF IInv, OneEffect
    <3>. QED
      BY <3>1 DEF Effects, Rec
  <2>2. CASE session[i].step # "closed"
    BY <2>2 DEF Effects
  <2>. QED
    BY <2>1, <2>2
<1>3. PICK j : Effects(cmd) = {j}
  BY <1>1, <1>2
<1>. QED
  BY <1>3, FS_Singleton

\* What is planned, started and recorded are commands, at places of RunControl and
\* RecoverTurn.
THEOREM TypeCorrect == Spec => []TypeOK
<1>1. IInv => TypeOK
  BY DEF IInv
<1>. QED
  BY Inductive, <1>1, PTL

\* RunControl and RecoverTurn: the records of a command stand in order and once, and
\* its effect on the session happens once, behind a durable start.
THEOREM Once == Spec => []ControlOnce
<1>1. ASSUME IInv PROVE ControlOnce
  <2>1. ASSUME NEW i \in 1..Len(control), control[i].cmd # None
        PROVE  LET own == {j \in 1..(i - 1) : control[j].cmd = control[i].cmd}
               IN  /\ \A j \in own : control[j].step \notin Final /\ ~ Alike(control[j].step, control[i].step)
                   /\ control[i].step # "planned" => \E j \in own : control[j].step = Needs[control[i].step]
    <3>1. /\ \A j \in 1..(i - 1) : control[j].cmd = control[i].cmd =>
               control[j].step \notin Final /\ ~ Alike(control[j].step, control[i].step)
          /\ control[i].step # "planned" => \E j \in 1..(i - 1) : control[j] = Rec(control[i].cmd, Needs[control[i].step])
      BY <1>1, <2>1 DEF IInv, Ordered
    <3>2. \A s : Rec(control[i].cmd, s).cmd = control[i].cmd /\ Rec(control[i].cmd, s).step = s
      BY DEF Rec
    <3>. QED
      BY <3>1, <3>2
  <2>2. ASSUME NEW i \in 1..Len(session), session[i].cmd # None
        PROVE  Holds(control, session[i].cmd, "started") /\ Cardinality(Effects(session[i].cmd)) = 1
    BY <1>1, <2>2, EffectsUnique DEF IInv, OneEffect
  <2>. QED
    BY <2>1, <2>2 DEF ControlOnce
<1>. QED
  BY Inductive, <1>1, PTL

\* appendControlConsequence and RecoverTurn: what the control journal calls completed
\* has its effect on the session, and what it calls denied has none.
THEOREM TellsTruth == Spec => []ControlTellsTruth
<1>1. ASSUME IInv PROVE ControlTellsTruth
  <2>1. ASSUME NEW i \in 1..Len(control), control[i].step = "completed", control[i].cmd[1] \in {"setting", "recover"}
        PROVE  Effects(control[i].cmd) # {}
    BY <1>1, <2>1 DEF IInv, CompletedHasEffect, EffectAt, Effects, Consequential
  <2>2. ASSUME NEW i \in 1..Len(control), control[i].step = "denied", NEW j \in Effects(control[i].cmd) PROVE FALSE
    <3>. PICK cmd : cmd = control[i].cmd
      OBVIOUS
    <3>0. Len(control) \in Nat
      BY <1>1 DEF IInv, TypeOK
    <3>1. cmd # None
      BY <1>1, <2>2 DEF IInv, Others
    <3>2. Holds(control, cmd, "started")
      BY <1>1, <2>2, <3>1 DEF IInv, OneEffect, Effects
    <3>3. PICK s \in 1..Len(control) : control[s].cmd = cmd /\ control[s].step = "started"
      BY <3>2 DEF Holds, Rec
    <3>4. PICK a \in 1..(s - 1) : control[a] = Rec(cmd, "allowed")
      BY <1>1, <3>1, <3>3 DEF IInv, Ordered, Needs
    <3>5. a \in 1..Len(control) /\ control[a].cmd = cmd /\ control[a].step = "allowed"
      BY <3>0, <3>3, <3>4 DEF Rec
    <3>6. Alike("allowed", "denied") /\ Alike("denied", "allowed")
      <4>1. {"denied", "allowed"} = {"allowed", "denied"}
        OBVIOUS
      <4>. QED
        BY <4>1 DEF Alike
    <3>7. a # i
      BY <2>2, <3>5
    <3>8. CASE a < i
      <4>1. a \in 1..(i - 1)
        BY <3>0, <3>5, <3>8
      <4>. QED
        BY <1>1, <2>2, <3>1, <3>5, <3>6, <4>1 DEF IInv, Ordered
    <3>9. CASE i < a
      <4>1. i \in 1..(a - 1)
        BY <3>0, <3>5, <3>9
      <4>. QED
        BY <1>1, <2>2, <3>1, <3>5, <3>6, <4>1 DEF IInv, Ordered
    <3>. QED
      BY <3>0, <3>5, <3>7, <3>8, <3>9
  <2>. QED
    BY <2>1, <2>2 DEF ControlTellsTruth
<1>. QED
  BY Inductive, <1>1, PTL

\* recoveryControlAttemptIdentity: an attempt that was identified at the head of the
\* journal is one that the journal does not know.
THEOREM AttemptsNew == Spec => []AttemptsAreNew
<1>1. ASSUME IInv PROVE AttemptsAreNew
  <2>. SUFFICES ASSUME NEW p \in Proc, op[p].kind = "recover", op[p].at \in {"enter", "plan"}, op[p].head = Len(control)
                PROVE  Found(op[p].cmd) = None
    BY DEF AttemptsAreNew
  <2>1. PICK storage \in Storages, k \in 0..Len(control) : op[p].cmd = Attempt(storage, k + 1) /\ NumberedTo(storage, k)
    BY <1>1 DEF IInv, Fresh
  <2>2. k \in Nat /\ k + 1 \in Nat /\ k + 1 \notin 1..k
    BY <1>1 DEF IInv, TypeOK
  <2>3. ~ Planned(op[p].cmd)
    BY <2>1, <2>2 DEF NumberedTo
  <2>4. op[p].cmd \in Commands
    BY <2>1, <2>2, AttemptName
  <2>5. \A i \in 1..Len(control) : control[i].cmd # op[p].cmd
    BY <1>1, <2>3, <2>4, PlannedFirst DEF IInv, Planned
  <2>6. \A step : ~ Holds(control, op[p].cmd, step)
    BY <2>5 DEF Holds, Rec
  <2>. QED
    BY <2>6 DEF Found
<1>. QED
  BY Inductive, <1>1, PTL
=============================================================================
