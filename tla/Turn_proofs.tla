---------------------------- MODULE Turn_proofs ----------------------------
(***************************************************************************)
(* What Turn promises, for every number of processes, commands and calls   *)
(* and every bound: in a first part TypeOK and OneActiveTurn, in a second  *)
(* HonestStatus, EffectOnce, EffectsAreFenced, EndedTurnsAreSettled and    *)
(* EndsStand, whose invariant is introduced there.                         *)
(*                                                                         *)
(* None of them is inductive.  A turn is opened by AcceptTurn, which does  *)
(* not look for active turns: AcquireTurnLease did, some steps before, and *)
(* its lock may be gone by then.  AcceptsFirst says what still protects p: *)
(* as long as nobody has committed after the head p knows (drift = "none") *)
(* no turn is active, and an append compares the head.  A commit makes the *)
(* drift of every other operation "other" (OpensOne), and a step without a *)
(* commit opens no turn (Quiet).                                           *)
(*                                                                         *)
(* TypeOK needs OpOK: the attempts stay in their bound because a provider  *)
(* that is asked last may ask for no tool and is not retried, so that      *)
(* every later step with a call has an attempt left.                       *)
(***************************************************************************)
EXTENDS Turn, FiniteSetTheorems, TLAPS

\* The steps of RunTurn that belong to a command.
InTurn == Steps \ {"idle", "leaving", "r-lease", "r-storage", "r-settle"}
\* The steps with a current call, with an active activity, and before any call.
WithCall == {"preview", "mutate", "checkpoint", "revalidate"}
WithActivity ==
  {"checkpoint", "revalidate", "authorize", "asking", "answered", "deny", "allow", "start",
   "dispatch", "running", "ending"}
Opening == {"lease", "accept", "freeze", "provider"}

\* The turn may ask the provider again when the call is done.
MayGoOn(m) == m.call \in Asks[m.cmd] /\ m.attempt < LastAttempt

\* What each step of an operation relies on.
OpOK(m) ==
  /\ m \in Op
  /\ m.pc \in InTurn => m.cmd \in Cmd /\ m.todo \subseteq Asks[m.cmd]
  /\ m.pc \in InTurn /\ m.todo # {} => m.attempt < LastAttempt
  /\ m.pc \in Opening => m.todo = {}
  /\ m.pc \in WithCall => MayGoOn(m)
  /\ m.pc \in WithActivity =>
       /\ m.active \in Activity
       /\ IF m.active.kind # "provider" THEN MayGoOn(m)
          ELSE (m.pc = "ending" /\ m.status = "succeeded") \/ m.todo = {}
  /\ m.pc \in {"checkpoint", "revalidate"} => m.active.kind # "provider"
  /\ m.pc = "ending" =>
       /\ m.status # "none"
       /\ m.active.kind = "provider" /\ m.status # "succeeded" =>
            m.status = "interrupted_no_effect" /\ m.attempt < LastAttempt

\* The part of TypeOK about the journal, for a journal that is only proposed.
JournalOK(j) ==
  j \in [turn : [Cmd -> {"none", "active"} \cup TurnEnded], act : [Activity -> Status],
         answers : [Cmd -> [Call -> Nat]], torn : BOOLEAN]

\* No turn is active at the head known to an operation that will accept one.
AcceptsFirst ==
  \A p \in Proc : me[p].pc = "accept" /\ drift[p] = "none" => ActiveTurns = {}

\* The inductive invariant.
Inv == TypeOK /\ (\A p \in Proc : OpOK(me[p])) /\ OneActiveTurn /\ AcceptsFirst

\* An activity belongs to a command, and all but a provider attempt to a call the
\* model may ask for.
LEMMA ActivityShape ==
  ASSUME NEW a \in Activity
  PROVE  /\ a.kind \in Kinds
         /\ a.cmd \in Cmd
         /\ a.kind # "provider" => a.call \in Asks[a.cmd] /\ a.call \in Call
BY AsksAssumption DEF Activity, Kinds

\* Steps of an operation keep its shape.
LEMMA ToTyped ==
  ASSUME NEW m \in Op, NEW pc \in Steps
  PROVE  /\ To(m, pc) \in Op /\ To(m, pc).pc = pc /\ To(m, pc).cmd = m.cmd
         /\ To(m, pc).todo = m.todo /\ To(m, pc).attempt = m.attempt /\ To(m, pc).call = m.call
         /\ To(m, pc).active = m.active /\ To(m, pc).status = m.status
BY DEF To, Op

\* A new active activity changes nothing of what the turn still has to do.
LEMMA ActivateTyped ==
  ASSUME NEW m \in Op, NEW pc \in Steps, NEW a \in Activity \cup {None}
  PROVE  /\ Activate(m, a, pc) \in Op /\ Activate(m, a, pc).active = a
         /\ Activate(m, a, pc).pc = pc /\ Activate(m, a, pc).cmd = m.cmd
         /\ Activate(m, a, pc).todo = m.todo /\ Activate(m, a, pc).attempt = m.attempt
         /\ Activate(m, a, pc).call = m.call
BY DEF Activate, Op

\* Outside a turn (idle, leaving, recovering) an operation owes nothing.
LEMMA OutsideTyped ==
  ASSUME NEW m \in Op, m.pc \notin InTurn
  PROVE  OpOK(m)
BY DEF OpOK, InTurn, Opening, WithCall, WithActivity, Steps

\* A process without an operation, and an operation that only gives up its lease.
LEMMA NoOpTyped ==
  /\ NoOp \in Op /\ NoOp.pc = "idle" /\ NoOp.todo = {}
  /\ OpOK(NoOp) /\ OpOK(Leaving) /\ Leaving.pc = "leaving"
<1>1. NoOp \in Op /\ NoOp.pc = "idle" /\ NoOp.todo = {}
  BY BoundsAssumption DEF NoOp, Op, Steps
<1>2. Leaving = To(NoOp, "leaving")
  BY DEF Leaving, To
<1>3. Leaving \in Op /\ Leaving.pc = "leaving"
  BY <1>1, <1>2, ToTyped DEF Steps
<1>4. NoOp.pc \notin InTurn /\ Leaving.pc \notin InTurn
  BY <1>1, <1>3 DEF InTurn
<1> QED
  BY <1>1, <1>3, <1>4, OutsideTyped

\* An error of RunTurn keeps what terminalizeTurnFailure needs to know.
LEMMA FailingTyped ==
  ASSUME NEW m \in Op, m.cmd \in Cmd, NEW cause \in Ended
  PROVE  OpOK(Failing(m, cause)) /\ Failing(m, cause).pc = "failing"
<1> DEFINE F(n) == [n EXCEPT !.pc = "failing", !.cmd = m.cmd, !.active = m.active,
                             !.started = m.started, !.dispatched = m.dispatched,
                             !.requires = m.requires, !.status = cause]
<1>2. ASSUME NEW n \in Op
      PROVE  F(n) \in Op /\ F(n).pc = "failing" /\ F(n).cmd = m.cmd /\ F(n).todo = n.todo
  BY DEF Op, Steps
<1>3. Failing(m, cause) = F(NoOp)
  BY DEF Failing
<1> HIDE DEF F
<1>4. /\ Failing(m, cause) \in Op /\ Failing(m, cause).pc = "failing"
      /\ Failing(m, cause).cmd = m.cmd /\ Failing(m, cause).todo = {}
  BY <1>2, <1>3, NoOpTyped
<1>5. Failing(m, cause).pc \notin WithCall \cup WithActivity
  BY <1>4 DEF WithCall, WithActivity
<1> QED
  BY <1>4, <1>5 DEF OpOK

-----------------------------------------------------------------------------
\* Events keep the shape of the journal, and only turn.accepted opens a turn.
LEMMA MarkedTyped ==
  ASSUME NEW j, JournalOK(j), NEW a \in Activity, NEW status \in Status
  PROVE  JournalOK(Marked(j, a, status)) /\ Marked(j, a, status).turn = j.turn
BY DEF JournalOK, Marked

\* A tool result is one more for its call.
LEMMA AnsweredTyped ==
  ASSUME NEW j, JournalOK(j), NEW a \in Activity, a.kind # "provider"
  PROVE  JournalOK(Answered(j, a)) /\ Answered(j, a).turn = j.turn
<1>1. a.cmd \in Cmd /\ a.call \in Call
  BY ActivityShape
<1>2. j.answers[a.cmd][a.call] + 1 \in Nat
  BY <1>1 DEF JournalOK
<1> QED
  BY <1>1, <1>2 DEF JournalOK, Answered

\* The end of an activity, with its result.
LEMMA MarkedAnsweredTyped ==
  ASSUME NEW j, JournalOK(j), NEW a \in Activity, NEW status \in Status, NEW visible \in BOOLEAN,
         visible => a.kind # "provider"
  PROVE  /\ JournalOK(MarkedAnswered(j, a, status, visible))
         /\ MarkedAnswered(j, a, status, visible).turn = j.turn
BY MarkedTyped, AnsweredTyped DEF MarkedAnswered

\* turn.accepted, and the end of a turn.
LEMMA TurnIsTyped ==
  ASSUME NEW j, JournalOK(j), NEW c \in Cmd, NEW status \in {"active"} \cup TurnEnded
  PROVE  /\ JournalOK(TurnIs(j, c, status))
         /\ TurnIs(j, c, status).turn = [j.turn EXCEPT ![c] = status]
BY DEF JournalOK, TurnIs

-----------------------------------------------------------------------------
\* Turns stay single, and what an operation may still accept stays first, when no
\* step opens a turn and the step of p leaves p outside "accept".
LEMMA Quiet ==
  ASSUME Inv, NEW p \in Proc,
         \A c \in Cmd : journal'.turn[c] = "active" => journal.turn[c] = "active",
         me' = [me EXCEPT ![p] = me'[p]], me'[p].pc # "accept",
         \A q \in Proc \ {p} : drift'[q] = "none" => drift[q] = "none"
  PROVE  OneActiveTurn' /\ AcceptsFirst'
<1>1. ActiveTurns' \subseteq ActiveTurns
  BY DEF ActiveTurns
<1>2. OneActiveTurn'
  BY <1>1 DEF Inv, OneActiveTurn
<1>3. ASSUME NEW q \in Proc, (me[q].pc = "accept")', (drift[q] = "none")'
      PROVE  ActiveTurns' = {}
  <2>1. q # p
    BY <1>3
  <2>2. me'[q] = me[q]
    BY <2>1 DEF Inv, TypeOK
  <2> QED
    BY <1>1, <1>3, <2>1, <2>2 DEF Inv, AcceptsFirst
<1> QED
  BY <1>2, <1>3 DEF AcceptsFirst

\* The same for a step that opens at most the turn c, behind which every other
\* operation finds that the journal has moved on.
LEMMA OpensOne ==
  ASSUME Inv, NEW p \in Proc, NEW c \in Cmd, ActiveTurns = {},
         \A d \in Cmd : journal'.turn[d] = "active" => journal.turn[d] = "active" \/ d = c,
         me' = [me EXCEPT ![p] = me'[p]], me'[p].pc # "accept",
         \A q \in Proc \ {p} : me[q].pc # "idle" => drift'[q] = "other"
  PROVE  OneActiveTurn' /\ AcceptsFirst'
<1>1. ActiveTurns' \subseteq {c}
  BY DEF ActiveTurns
<1>2. OneActiveTurn'
  BY <1>1 DEF OneActiveTurn
<1>3. ASSUME NEW q \in Proc, (me[q].pc = "accept")' PROVE drift'[q] # "none"
  <2>1. q # p
    BY <1>3
  <2>2. me'[q] = me[q]
    BY <2>1 DEF Inv, TypeOK
  <2> QED
    BY <1>3, <2>1, <2>2
<1> QED
  BY <1>2, <1>3 DEF AcceptsFirst

-----------------------------------------------------------------------------
\* The ways a step of one operation preserves the invariant.

\* After a commit no other operation knows the head any more.
LEMMA OvertakenTyped ==
  ASSUME NEW p \in Proc
  PROVE  /\ Overtaken(p) \in [Proc -> {"none", "ack", "other"}]
         /\ \A q \in Proc \ {p} : me[q].pc # "idle" => Overtaken(p)[q] = "other"
BY DEF Overtaken

\* Goto: the new operation is a legal one, and nothing else changes.
LEMMA GotoInv ==
  ASSUME Inv, NEW p \in Proc, NEW m, OpOK(m), m.pc # "accept", Goto(p, m)
  PROVE  Inv'
<1>1. me' = [me EXCEPT ![p] = m] /\ UNCHANGED <<journal, ran, lock, drift, cancelled, mishaps>>
  BY DEF Goto
<1>2. me'[p] = m
  BY <1>1 DEF Inv, TypeOK
<1>3. OneActiveTurn' /\ AcceptsFirst'
  BY <1>1, <1>2, Quiet
<1>4. m \in Op
  BY DEF OpOK
<1>5. TypeOK'
  BY <1>1, <1>4 DEF Inv, TypeOK
<1>6. \A q \in Proc : OpOK(me'[q])
  BY <1>1 DEF Inv, TypeOK
<1> QED
  BY <1>3, <1>5, <1>6 DEF Inv

\* Failed: terminalizeTurnFailure, or the end of the operation.
LEMMA FailedTyped ==
  ASSUME Inv, NEW p \in Proc, NEW m, OpOK(m), m.pc \in InTurn \cup {"r-settle"},
         NEW cause \in Ended, Failed(p, m, cause)
  PROVE  /\ me' = [me EXCEPT ![p] = me'[p]] /\ OpOK(me'[p]) /\ me'[p].pc # "accept"
         /\ me' \in [Proc -> Op] /\ \A q \in Proc : OpOK(me'[q])
<1> DEFINE to == IF m.pc \in {"accept", "failing", "r-settle"} THEN Leaving ELSE Failing(m, cause)
<1>1. me' = [me EXCEPT ![p] = to]
  BY DEF Failed
<1>2. OpOK(to) /\ to.pc # "accept"
  <2>1. m.pc \in InTurn => m \in Op /\ m.cmd \in Cmd
    BY DEF OpOK
  <2> QED
    BY <2>1, NoOpTyped, FailingTyped
<1> HIDE DEF to
<1>3. to \in Op
  BY <1>2 DEF OpOK
<1> QED
  BY <1>1, <1>2, <1>3 DEF Inv, TypeOK

\* Why RunTurn fails is a status terminalizeTurnFailure can record.
LEMMA CauseTyped == \A p, detached : Cause(p, detached) \in Ended
BY DEF Cause, Ended

\* Append: the three outcomes.  A journal j with a new turn is only proposed by an
\* operation at "accept", which knows the head at which no turn was active.
LEMMA AppendInv ==
  ASSUME Inv, NEW p \in Proc, me[p].pc # "idle", NEW detached \in BOOLEAN, NEW j, JournalOK(j),
         NEW before, OpOK(before), before.pc \in InTurn \cup {"r-settle"},
         NEW after, OpOK(after), after.pc # "accept",
         \/ \A c \in Cmd : j.turn[c] = "active" => journal.turn[c] = "active"
         \/ /\ me[p].pc = "accept"
            /\ \E d \in Cmd : \A c \in Cmd :
                 j.turn[c] = "active" => journal.turn[c] = "active" \/ c = d,
         Append(p, detached, j, before, after)
  PROVE  Inv'
<1> DEFINE M == me' \in [Proc -> Op] /\ (\A q \in Proc : OpOK(me'[q]))
                  /\ me' = [me EXCEPT ![p] = me'[p]] /\ me'[p].pc # "accept"
           D == drift' \in [Proc -> {"none", "ack", "other"}]
                  /\ \A q \in Proc \ {p} : me[q].pc # "idle" => drift'[q] = "other"
<1>1. UNCHANGED <<ran, lock, cancelled>> /\ journal \in
        [turn : [Cmd -> {"none", "active"} \cup TurnEnded], act : [Activity -> Status],
         answers : [Cmd -> [Call -> Nat]], torn : BOOLEAN]
  BY DEF Append, Inv, TypeOK
<1>2. \A cause \in Ended : Failed(p, before, cause) => M
  BY FailedTyped
<1>3. Mishap => mishaps' \in 0 .. MaxMishaps
  BY BoundsAssumption DEF Mishap, Inv, TypeOK
<1>4. ASSUME journal' = j, drift[p] = "none", D, M, mishaps' \in 0 .. MaxMishaps
      PROVE  Inv'
  <2>1. CASE \A c \in Cmd : j.turn[c] = "active" => journal.turn[c] = "active"
    <3>1. \A q \in Proc \ {p} : drift'[q] = "none" => drift[q] = "none" \/ me[q].pc = "idle"
      BY <1>4
    <3>2. OneActiveTurn'
      BY <1>4, <2>1 DEF OneActiveTurn, ActiveTurns, Inv
    <3>3. AcceptsFirst'
      <4> SUFFICES ASSUME NEW q \in Proc, (me[q].pc = "accept")', (drift[q] = "none")'
                   PROVE  FALSE
        BY DEF AcceptsFirst
      <4>1. q # p /\ me'[q] = me[q]
        BY <1>4 DEF Inv, TypeOK
      <4> QED
        BY <1>4, <4>1
    <3> QED
      BY <1>1, <1>4, <3>2, <3>3 DEF Inv, TypeOK, JournalOK
  <2>2. CASE /\ me[p].pc = "accept"
             /\ \E d \in Cmd : \A c \in Cmd :
                  j.turn[c] = "active" => journal.turn[c] = "active" \/ c = d
    <3>1. ActiveTurns = {}
      BY <1>4, <2>2 DEF Inv, AcceptsFirst
    <3>2. OneActiveTurn' /\ AcceptsFirst'
      BY <1>4, <2>2, <3>1, OpensOne
    <3> QED
      BY <1>1, <1>4, <3>2 DEF Inv, TypeOK, JournalOK
  <2> QED
    BY <2>1, <2>2
<1>5. ASSUME \/ journal' = journal \/ \E torn \in BOOLEAN : journal' = [journal EXCEPT !.torn = torn],
             drift' = drift, M, mishaps' \in 0 .. MaxMishaps
      PROVE  Inv'
  <2>1. journal'.turn = journal.turn /\ JournalOK(journal')
    BY <1>1, <1>5 DEF JournalOK
  <2>2. OneActiveTurn' /\ AcceptsFirst'
    BY <1>5, <2>1, Quiet
  <2> QED
    BY <1>1, <1>5, <2>1, <2>2 DEF Inv, TypeOK, JournalOK
<1>6. CASE /\ Appendable(p, detached) /\ journal' = j /\ drift' = Overtaken(p)
           /\ me' = [me EXCEPT ![p] = after] /\ UNCHANGED mishaps
  <2>1. M
    BY <1>6 DEF Inv, TypeOK, OpOK
  <2>2. D
    BY <1>6, OvertakenTyped
  <2> QED
    BY <1>4, <1>6, <2>1, <2>2 DEF Appendable, Inv, TypeOK
<1>7. CASE /\ ~ Appendable(p, detached) /\ Failed(p, before, Cause(p, detached))
           /\ UNCHANGED <<journal, drift, mishaps>>
  BY <1>2, <1>5, <1>7, CauseTyped DEF Inv, TypeOK
<1>8. CASE /\ Appendable(p, detached) /\ Mishap /\ Failed(p, before, "failed")
           /\ \E torn \in BOOLEAN : journal' = [journal EXCEPT !.torn = torn] /\ UNCHANGED drift
  BY <1>2, <1>3, <1>5, <1>8 DEF Ended
<1>9. CASE /\ Appendable(p, detached) /\ Mishap /\ Failed(p, before, "failed")
           /\ journal' = j /\ drift' = [Overtaken(p) EXCEPT ![p] = "other"]
  <2>1. D
    BY <1>9, OvertakenTyped
  <2> QED
    BY <1>2, <1>3, <1>4, <1>9, <2>1 DEF Appendable, Ended
<1> QED
  BY <1>6, <1>7, <1>8, <1>9 DEF Append

-----------------------------------------------------------------------------
\* The ways an operation moves on keep it a legal one.

\* To: what the next step needs is there.
LEMMA ToOK ==
  ASSUME NEW m, OpOK(m), m.pc \in InTurn, NEW pc \in InTurn \ {"ending"},
         pc \in WithCall => MayGoOn(m),
         pc \in WithActivity =>
           m.active \in Activity /\ (IF m.active.kind # "provider" THEN MayGoOn(m) ELSE m.todo = {}),
         pc \in Opening => m.todo = {},
         pc \in {"checkpoint", "revalidate"} => m.active.kind # "provider"
  PROVE  OpOK(To(m, pc)) /\ To(m, pc).pc = pc
<1>1. m \in Op /\ pc \in Steps
  BY DEF OpOK, InTurn
<1>2. MayGoOn(To(m, pc)) <=> MayGoOn(m)
  BY <1>1, ToTyped DEF MayGoOn
<1> QED
  BY <1>1, <1>2, ToTyped DEF OpOK

\* Inside an activity every step finds what the one before has found.
LEMMA WithinOK ==
  ASSUME NEW m, OpOK(m), m.pc \in WithActivity \ {"ending"},
         NEW pc \in WithActivity \ {"checkpoint", "revalidate", "ending"}
  PROVE  OpOK(To(m, pc)) /\ To(m, pc).pc = pc
<1>1. m.pc \in InTurn /\ pc \in InTurn /\ pc \notin WithCall \cup Opening
  BY DEF WithActivity, WithCall, Opening, InTurn, Steps
<1> QED
  BY <1>1, ToOK DEF OpOK

\* The flags of the active activity have no part in the shape of an operation.
LEMMA FlagsOK ==
  ASSUME NEW m, OpOK(m), NEW b \in BOOLEAN
  PROVE  /\ OpOK([m EXCEPT !.started = b]) /\ [m EXCEPT !.started = b].pc = m.pc
         /\ OpOK([m EXCEPT !.dispatched = b]) /\ [m EXCEPT !.dispatched = b].pc = m.pc
         /\ OpOK([m EXCEPT !.requires = b]) /\ [m EXCEPT !.requires = b].pc = m.pc
         /\ OpOK([m EXCEPT !.retried = b]) /\ [m EXCEPT !.retried = b].pc = m.pc
<1>1. m \in Op
  BY DEF OpOK
<1> DEFINE Same(n) == /\ n \in Op /\ n.pc = m.pc /\ n.cmd = m.cmd /\ n.todo = m.todo
                      /\ n.attempt = m.attempt /\ n.call = m.call /\ n.active = m.active
                      /\ n.status = m.status
<1>2. /\ Same([m EXCEPT !.started = b]) /\ Same([m EXCEPT !.dispatched = b])
      /\ Same([m EXCEPT !.requires = b]) /\ Same([m EXCEPT !.retried = b])
  BY <1>1 DEF Op
<1>3. ASSUME NEW n, Same(n) PROVE OpOK(n) /\ n.pc = m.pc
  BY <1>3 DEF OpOK, MayGoOn
<1> HIDE DEF Same
<1> QED
  BY <1>2, <1>3

\* Planning an activity: a provider attempt has no call left over, any other
\* activity has a provider attempt after it.
LEMMA ActivateOK ==
  ASSUME NEW m, OpOK(m), m.pc \in InTurn, NEW a \in Activity,
         NEW pc \in {"authorize", "checkpoint"},
         IF a.kind # "provider" THEN MayGoOn(m) ELSE m.todo = {}, pc = "checkpoint" => a.kind # "provider"
  PROVE  OpOK(Activate(m, a, pc)) /\ Activate(m, a, pc).pc = pc
<1>1. m \in Op /\ pc \in Steps /\ pc \in InTurn
  BY DEF OpOK, InTurn, Steps
<1>2. MayGoOn(Activate(m, a, pc)) <=> MayGoOn(m)
  BY <1>1, ActivateTyped DEF MayGoOn
<1> QED
  BY <1>1, <1>2, ActivateTyped DEF OpOK, WithCall, Opening

\* Leaving an activity for the next step of the turn.
LEMMA DeactivateOK ==
  ASSUME NEW m, OpOK(m), m.pc \in InTurn, NEW pc \in {"provider", "intents", "preview", "mutate"},
         pc \in WithCall => MayGoOn(m), pc = "provider" => m.todo = {}
  PROVE  OpOK(Deactivate(m, pc)) /\ Deactivate(m, pc).pc = pc
<1>1. m \in Op /\ pc \in Steps /\ pc \in InTurn /\ pc \notin WithActivity
  BY DEF OpOK, InTurn, Steps, WithActivity
<1>2. MayGoOn(Deactivate(m, pc)) <=> MayGoOn(m)
  BY <1>1, ActivateTyped DEF Deactivate, MayGoOn
<1> QED
  BY <1>1, <1>2, ActivateTyped DEF Deactivate, OpOK, Opening

\* Another attempt of the provider, when the bound leaves one.
LEMMA NextAttemptOK ==
  ASSUME NEW m, OpOK(m), m.pc \in InTurn, m.attempt < LastAttempt, m.todo = {}
  PROVE  LET n == [Deactivate(m, "provider") EXCEPT !.attempt = @ + 1] IN
           n \in Op /\ OpOK(n) /\ n.pc = "provider"
<1> DEFINE d == Deactivate(m, "provider")
           n == [d EXCEPT !.attempt = @ + 1]
<1>1. m \in Op /\ m.cmd \in Cmd
  BY DEF OpOK
<1>2. d \in Op /\ d.pc = "provider" /\ d.cmd = m.cmd /\ d.todo = {} /\ d.attempt = m.attempt
  BY <1>1, ActivateTyped DEF Deactivate, Steps
<1> HIDE DEF d
<1>3. d.attempt + 1 \in 0 .. LastAttempt
  BY <1>1, <1>2, BoundsAssumption DEF Op
<1>4. n \in Op /\ n.pc = "provider" /\ n.cmd = m.cmd /\ n.todo = {}
  BY <1>2, <1>3 DEF Op
<1> HIDE DEF n
<1>5. OpOK(n)
  BY <1>1, <1>4 DEF OpOK, InTurn, WithCall, WithActivity
<1> QED
  BY <1>4, <1>5 DEF n, d

\* call and round of the next intent.
LEMMA NoCallOK ==
  ASSUME NEW m, OpOK(m), m.pc \in {"provider", "intents"}
  PROVE  LET n == [m EXCEPT !.call = None, !.round = 0] IN OpOK(n) /\ n.pc = m.pc
<1> DEFINE n == [m EXCEPT !.call = None, !.round = 0]
<1>1. m \in Op /\ 0 \in 0 .. LastRound
  BY BoundsAssumption DEF OpOK
<1>2. /\ n \in Op /\ n.pc = m.pc /\ n.cmd = m.cmd /\ n.todo = m.todo /\ n.attempt = m.attempt
  BY <1>1 DEF Op
<1> HIDE DEF n
<1>3. OpOK(n)
  BY <1>2 DEF OpOK, WithCall, WithActivity
<1> QED
  BY <1>2, <1>3 DEF n

\* After a call: the next one, or the next provider attempt, which the bound leaves.
LEMMA AfterIntentOK ==
  ASSUME NEW m, OpOK(m), m.pc \in InTurn, m.attempt < LastAttempt
  PROVE  OpOK(AfterIntent(m)) /\ AfterIntent(m).pc \in {"provider", "intents"}
<1>1. CASE m.todo = {}
  <2> DEFINE n == [Deactivate(m, "provider") EXCEPT !.attempt = @ + 1]
  <2>1. OpOK(n) /\ n.pc = "provider"
    BY <1>1, NextAttemptOK
  <2>2. AfterIntent(m) = [n EXCEPT !.call = None, !.round = 0]
    BY <1>1 DEF AfterIntent
  <2> HIDE DEF n
  <2> QED
    BY <2>1, <2>2, NoCallOK
<1>2. CASE m.todo # {}
  <2> DEFINE n == Deactivate(m, "intents")
  <2>1. OpOK(n) /\ n.pc = "intents"
    BY DeactivateOK DEF WithCall
  <2>2. AfterIntent(m) = [n EXCEPT !.call = None, !.round = 0]
    BY <1>2 DEF AfterIntent
  <2> HIDE DEF n
  <2> QED
    BY <2>1, <2>2, NoCallOK
<1> QED
  BY <1>1, <1>2

\* The end of an effect, and what the model asks for next.
LEMMA EndsOK ==
  ASSUME Inv, NEW p \in Proc, me[p].pc = "running", NEW status \in Ended,
         me[p].active.kind = "provider" /\ status # "succeeded" =>
           status = "interrupted_no_effect" /\ me[p].attempt < LastAttempt
  PROVE  /\ OpOK(EndsWith(p, status)) /\ EndsWith(p, status).pc = "ending"
         /\ EndsWith(p, status).cmd = me[p].cmd /\ EndsWith(p, status).attempt = me[p].attempt
<1> DEFINE m == me[p]
           t == To(m, "ending")
           n == [t EXCEPT !.status = status]
<1>1. m \in Op /\ OpOK(m) /\ m.pc = "running" /\ m.pc \in InTurn /\ m.pc \in WithActivity
  BY DEF Inv, OpOK, InTurn, WithActivity, Steps
<1>2. m.active.kind = "provider" /\ status # "succeeded" =>
           status = "interrupted_no_effect" /\ m.attempt < LastAttempt
  OBVIOUS
<1> HIDE DEF m
<1>3. /\ t \in Op /\ t.pc = "ending" /\ t.cmd = m.cmd /\ t.todo = m.todo /\ t.attempt = m.attempt
      /\ t.call = m.call /\ t.active = m.active
  BY <1>1, ToTyped DEF Steps
<1> HIDE DEF t
<1>4. /\ n \in Op /\ n.pc = "ending" /\ n.cmd = m.cmd /\ n.todo = m.todo /\ n.attempt = m.attempt
      /\ n.call = m.call /\ n.active = m.active /\ n.status = status
  BY <1>3 DEF Op
<1>5. EndsWith(p, status) = n
  BY DEF EndsWith, m, t
<1> HIDE DEF n
<1>6. OpOK(n)
  BY <1>1, <1>2, <1>4 DEF OpOK, MayGoOn, Opening, WithCall, Ended
<1> QED
  BY <1>4, <1>5, <1>6 DEF m

\* The calls of a provider that succeeded before its last attempt.
LEMMA AsksForOK ==
  ASSUME NEW m, OpOK(m), m.pc = "ending", m.status = "succeeded", m.attempt < LastAttempt,
         NEW todo \in SUBSET Asks[m.cmd]
  PROVE  OpOK([m EXCEPT !.todo = todo]) /\ [m EXCEPT !.todo = todo].pc = "ending"
<1> DEFINE n == [m EXCEPT !.todo = todo]
<1>1. m \in Op /\ m.cmd \in Cmd
  BY DEF OpOK, InTurn, Steps
<1>2. todo \in SUBSET Call
  BY <1>1, AsksAssumption
<1>3. /\ n \in Op /\ n.pc = m.pc /\ n.cmd = m.cmd /\ n.todo = todo /\ n.attempt = m.attempt
      /\ n.call = m.call /\ n.active = m.active /\ n.status = m.status
  BY <1>1, <1>2 DEF Op
<1> HIDE DEF n
<1>4. OpOK(n)
  BY <1>1, <1>3 DEF OpOK, MayGoOn, Opening
<1> QED
  BY <1>3, <1>4 DEF n

\* The first and the last steps of a turn start from an empty operation.
LEMMA VerifyOK ==
  ASSUME NEW c \in Cmd
  PROVE  OpOK([NoOp EXCEPT !.pc = "verify", !.cmd = c]) /\ [NoOp EXCEPT !.pc = "verify", !.cmd = c].pc = "verify"
         /\ OpOK([NoOp EXCEPT !.pc = "lease", !.cmd = c]) /\ [NoOp EXCEPT !.pc = "lease", !.cmd = c].pc = "lease"
<1>1. ASSUME NEW n \in Op, n.todo = {}, NEW pc \in {"verify", "lease"}
      PROVE  OpOK([n EXCEPT !.pc = pc, !.cmd = c]) /\ [n EXCEPT !.pc = pc, !.cmd = c].pc = pc
  <2> DEFINE o == [n EXCEPT !.pc = pc, !.cmd = c]
  <2>1. o \in Op /\ o.pc = pc /\ o.cmd = c /\ o.todo = {}
    BY <1>1 DEF Op, Steps
  <2> HIDE DEF o
  <2>2. OpOK(o)
    BY <2>1 DEF OpOK, WithCall, WithActivity
  <2> QED
    BY <2>1, <2>2 DEF o
<1> QED
  BY <1>1, NoOpTyped

\* AfterActivity has a legal next step for every kind and every end.
LEMMA AfterActivityOK ==
  ASSUME NEW m, OpOK(m), m.pc = "ending"
  PROVE  OpOK(AfterActivity(m)) /\ AfterActivity(m).pc \in {"provider", "intents", "mutate", "verify"}
<1>1. m \in Op /\ m.pc \in InTurn /\ m.pc \in WithActivity /\ m.cmd \in Cmd /\ m.active \in Activity
  BY DEF OpOK, InTurn, Steps, WithActivity
<1>2. CASE m.active.kind = "preview"
  <2>1. MayGoOn(m)
    BY <1>1, <1>2 DEF OpOK
  <2>2. AfterActivity(m) = Deactivate(m, "mutate")
    BY <1>2 DEF AfterActivity
  <2> QED
    BY <1>1, <2>1, <2>2, DeactivateOK
<1>3. CASE m.active.kind = "provider" /\ m.status = "interrupted_no_effect"
  <2>1. m.attempt < LastAttempt /\ m.todo = {}
    BY <1>1, <1>3 DEF OpOK
  <2>2. AfterActivity(m) = [Deactivate(m, "provider") EXCEPT !.attempt = @ + 1]
    BY <1>3 DEF AfterActivity
  <2> QED
    BY <1>1, <2>1, <2>2, NextAttemptOK
<1>4. CASE m.active.kind = "provider" /\ m.status = "succeeded" /\ m.todo = {}
  <2>1. AfterActivity(m) = [NoOp EXCEPT !.pc = "verify", !.cmd = m.cmd]
    BY <1>4 DEF AfterActivity
  <2> QED
    BY <1>1, <2>1, VerifyOK
<1>5. CASE m.active.kind = "provider" /\ m.status = "succeeded" /\ m.todo # {}
  <2>1. AfterActivity(m) = Deactivate(m, "intents")
    BY <1>5 DEF AfterActivity
  <2> QED
    BY <1>1, <2>1, DeactivateOK DEF WithCall
<1>6. CASE m.active.kind \notin {"preview", "provider"}
  <2>1. AfterActivity(m) = AfterIntent(m)
    BY <1>6 DEF AfterActivity
  <2>2. m.attempt < LastAttempt
    BY <1>1, <1>6 DEF OpOK, MayGoOn
  <2> QED
    BY <1>1, <2>1, <2>2, AfterIntentOK
<1>7. m.active.kind = "provider" => m.status \in {"succeeded", "interrupted_no_effect"}
  BY <1>1 DEF OpOK
<1> QED
  BY <1>2, <1>3, <1>4, <1>5, <1>6, <1>7

-----------------------------------------------------------------------------
\* The actions of RunTurn, in the order of the turn.

\* What is known of the operation of p in each of the steps below.
LEMMA OpFacts ==
  ASSUME Inv, NEW p \in Proc
  PROVE  /\ OpOK(me[p]) /\ me[p] \in Op /\ JournalOK(journal)
         /\ me[p].pc \in InTurn => me[p].cmd \in Cmd
BY DEF Inv, TypeOK, OpOK, JournalOK

\* An append in the middle of a turn, which opens no turn.
LEMMA AppendInTurn ==
  ASSUME Inv, NEW p \in Proc, me[p].pc \in InTurn, NEW detached \in BOOLEAN,
         NEW j, JournalOK(j), j.turn = journal.turn,
         NEW before, OpOK(before), before.pc \in InTurn,
         NEW after, OpOK(after), after.pc # "accept",
         Append(p, detached, j, before, after)
  PROVE  Inv'
<1>1. me[p].pc # "idle"
  BY DEF InTurn
<1> QED
  BY <1>1, AppendInv

\* A new command starts at "lease", an old one changes nothing.
LEMMA SubmitInv ==
  ASSUME Inv, NEW p \in Proc, NEW c \in Cmd, Submit(p, c)
  PROVE  Inv'
<1>1. CASE Goto(p, [NoOp EXCEPT !.pc = "lease", !.cmd = c])
  BY <1>1, VerifyOK, GotoInv
<1>2. CASE UNCHANGED vars
  BY <1>2 DEF vars, Inv, TypeOK, OneActiveTurn, ActiveTurns, AcceptsFirst
<1> QED
  BY <1>1, <1>2 DEF Submit

\* Return leaves the journal alone and the operation idle.
LEMMA ReturnInv ==
  ASSUME Inv, NEW p \in Proc, Return(p), UNCHANGED <<journal, ran, mishaps>>,
         lock' \in Proc \cup {None}
  PROVE  Inv'
<1>1. /\ me' = [me EXCEPT ![p] = NoOp] /\ drift' = [drift EXCEPT ![p] = "none"]
      /\ cancelled' = cancelled \ {p}
  BY DEF Return
<1>2. me'[p] = NoOp /\ \A q \in Proc \ {p} : drift'[q] = drift[q]
  BY <1>1 DEF Inv, TypeOK
<1>3. OneActiveTurn' /\ AcceptsFirst'
  BY <1>1, <1>2, NoOpTyped, Quiet
<1>4. TypeOK'
  BY <1>1, NoOpTyped DEF Inv, TypeOK
<1>5. \A q \in Proc : OpOK(me'[q])
  BY <1>1, NoOpTyped DEF Inv, TypeOK
<1> QED
  BY <1>3, <1>4, <1>5 DEF Inv

\* The one step to "accept": no turn is active at the head p knows.
LEMMA AcquireTurnLeaseInv ==
  ASSUME Inv, NEW p \in Proc, AcquireTurnLease(p)
  PROVE  Inv'
<1>1. CASE /\ ActiveTurns = {} /\ lock' = p /\ me' = [me EXCEPT ![p].pc = "accept"]
           /\ UNCHANGED <<drift, cancelled, journal, ran, mishaps>> /\ me[p].pc = "lease"
  <2> DEFINE m == me[p]
             n == [m EXCEPT !.pc = "accept"]
  <2>1. me' = [me EXCEPT ![p] = n]
    BY <1>1
  <2>2. n = To(m, "accept")
    BY DEF To
  <2>3. OpOK(m) /\ m.pc \in InTurn /\ m.todo = {} /\ m \in Op
    BY <1>1 DEF Inv, OpOK, Opening, InTurn, Steps
  <2> HIDE DEF m
  <2>4. OpOK(n) /\ n \in Op
    BY <2>2, <2>3, ToOK DEF InTurn, Steps, WithCall, WithActivity, OpOK
  <2> HIDE DEF n
  <2>8. me' \in [Proc -> Op]
    BY <2>1, <2>4 DEF Inv, TypeOK
  <2>9. /\ lock' \in Proc \cup {None} /\ UNCHANGED <<drift, cancelled, journal, ran, mishaps>>
    BY <1>1
  <2>5. TypeOK'
    BY <2>8, <2>9 DEF Inv, TypeOK
  <2>6. \A q \in Proc : OpOK(me'[q])
    BY <2>1, <2>4 DEF Inv, TypeOK
  <2>7. OneActiveTurn' /\ AcceptsFirst'
    BY <1>1 DEF Inv, OneActiveTurn, AcceptsFirst, ActiveTurns
  <2> QED
    BY <2>5, <2>6, <2>7 DEF Inv
<1>2. CASE Return(p) /\ UNCHANGED lock /\ UNCHANGED <<journal, ran, mishaps>>
  BY <1>2, ReturnInv DEF Inv, TypeOK
<1> QED
  BY <1>1, <1>2 DEF AcquireTurnLease

\* The one append that opens a turn.
LEMMA AcceptTurnInv ==
  ASSUME Inv, NEW p \in Proc, AcceptTurn(p)
  PROVE  Inv'
<1> DEFINE m == me[p]
           j == TurnIs(journal, m.cmd, "active")
<1>1. m.pc = "accept" /\ Append(p, FALSE, j, m, To(m, "freeze"))
  BY DEF AcceptTurn
<1>2. OpOK(m) /\ m.pc \in InTurn /\ m.cmd \in Cmd /\ m.todo = {}
  BY <1>1, OpFacts DEF OpOK, Opening, InTurn, Steps
<1>3. JournalOK(j) /\ j.turn = [journal.turn EXCEPT ![m.cmd] = "active"]
  BY <1>2, OpFacts, TurnIsTyped
<1>4. \A c \in Cmd : j.turn[c] = "active" => journal.turn[c] = "active" \/ c = m.cmd
  BY <1>2, <1>3, OpFacts DEF JournalOK
<1>5. OpOK(To(m, "freeze")) /\ To(m, "freeze").pc = "freeze"
  BY <1>2, ToOK DEF InTurn, Steps, WithCall, WithActivity
<1> HIDE DEF j
<1> QED
  BY <1>1, <1>2, <1>3, <1>4, <1>5, AppendInv

\* A plan is durable before the operation moves on.
LEMMA PlanInv ==
  ASSUME Inv, NEW p \in Proc, me[p].pc \in InTurn, NEW a \in Activity,
         NEW pc \in {"authorize", "checkpoint"},
         IF a.kind # "provider" THEN MayGoOn(me[p]) ELSE me[p].todo = {},
         pc = "checkpoint" => a.kind # "provider", Plan(p, a, pc)
  PROVE  Inv'
<1>1. OpOK(Activate(me[p], a, pc)) /\ Activate(me[p], a, pc).pc = pc
  BY OpFacts, ActivateOK
<1>2. JournalOK(Marked(journal, a, "planned")) /\ Marked(journal, a, "planned").turn = journal.turn
  BY OpFacts, MarkedTyped DEF Status
<1> QED
  BY <1>1, <1>2, OpFacts, AppendInTurn DEF Plan

\* The activities a turn plans exist: their call was asked for, their number is in
\* bounds.
LEMMA PlannedExist ==
  ASSUME NEW m \in Op, m.cmd \in Cmd
  PROVE  /\ [kind |-> "provider", cmd |-> m.cmd, call |-> None, n |-> m.attempt] \in Activity
         /\ m.call \in Asks[m.cmd] =>
              /\ \A kind \in {"preview", "mutation"} :
                   [kind |-> kind, cmd |-> m.cmd, call |-> m.call, n |-> m.round] \in Activity
              /\ \A kind \in {"tool", "synthetic"} :
                   [kind |-> kind, cmd |-> m.cmd, call |-> m.call, n |-> 0] \in Activity
<1>1. /\ m.attempt \in 0 .. LastAttempt + LastRound /\ m.round \in 0 .. LastAttempt + LastRound
      /\ m.attempt <= LastAttempt /\ m.round <= LastRound /\ 0 \in 0 .. LastAttempt + LastRound
  BY BoundsAssumption DEF Op
<1>2. m.call \in Asks[m.cmd] => m.call \in Call
  BY AsksAssumption
<1>3. [kind |-> "provider", cmd |-> m.cmd, call |-> None, n |-> m.attempt] \in Activity
  BY <1>1 DEF Activity, Kinds
<1>4. ASSUME m.call \in Asks[m.cmd], NEW kind \in {"preview", "mutation"}
      PROVE  [kind |-> kind, cmd |-> m.cmd, call |-> m.call, n |-> m.round] \in Activity
  BY <1>1, <1>2, <1>4 DEF Activity, Kinds
<1>5. ASSUME m.call \in Asks[m.cmd], NEW kind \in {"tool", "synthetic"}
      PROVE  [kind |-> kind, cmd |-> m.cmd, call |-> m.call, n |-> 0] \in Activity
  BY <1>1, <1>2, <1>5 DEF Activity, Kinds
<1> QED
  BY <1>3, <1>4, <1>5

\* The contract and the plans of the provider, a preview and a mutation.
LEMMA FreezePlanInv ==
  ASSUME Inv, NEW p \in Proc,
         FreezeContract(p) \/ PlanProvider(p) \/ PlanPreview(p) \/ PlanMutation(p)
  PROVE  Inv'
<1> DEFINE m == me[p]
<1>1. OpOK(m) /\ m \in Op /\ JournalOK(journal)
  BY OpFacts
<1>2. CASE FreezeContract(p)
  <2>1. m.pc = "freeze" /\ Append(p, FALSE, journal, m, To(m, "provider"))
    BY <1>2 DEF FreezeContract
  <2>2. m.pc \in InTurn /\ m.todo = {}
    BY <1>1, <2>1 DEF OpOK, Opening, InTurn, Steps
  <2>3. OpOK(To(m, "provider")) /\ To(m, "provider").pc = "provider"
    BY <1>1, <2>2, ToOK DEF InTurn, Steps, WithCall, WithActivity
  <2> QED
    BY <1>1, <2>1, <2>2, <2>3, AppendInTurn
<1>3. CASE PlanProvider(p)
  <2> DEFINE a == [kind |-> "provider", cmd |-> m.cmd, call |-> None, n |-> m.attempt]
  <2>1. m.pc = "provider" /\ Plan(p, a, "authorize")
    BY <1>3 DEF PlanProvider
  <2>2. m.pc \in InTurn /\ m.todo = {} /\ m.cmd \in Cmd
    BY <1>1, <2>1 DEF OpOK, Opening, InTurn, Steps
  <2>3. a \in Activity /\ a.kind = "provider"
    BY <1>1, <2>2, PlannedExist
  <2> HIDE DEF a
  <2> QED
    BY <2>1, <2>2, <2>3, PlanInv
<1>4. CASE PlanPreview(p)
  <2> DEFINE a == [kind |-> "preview", cmd |-> m.cmd, call |-> m.call, n |-> m.round]
  <2>1. m.pc = "preview" /\ Plan(p, a, "authorize")
    BY <1>4 DEF PlanPreview
  <2>2. m.pc \in InTurn /\ m.cmd \in Cmd /\ MayGoOn(m)
    BY <1>1, <2>1 DEF OpOK, WithCall, InTurn, Steps
  <2>3. a \in Activity /\ a.kind = "preview"
    BY <1>1, <2>2, PlannedExist DEF MayGoOn
  <2> HIDE DEF a
  <2> QED
    BY <2>1, <2>2, <2>3, PlanInv
<1>5. CASE PlanMutation(p)
  <2> DEFINE a == [kind |-> "mutation", cmd |-> m.cmd, call |-> m.call, n |-> m.round]
  <2>1. m.pc = "mutate" /\ Plan(p, a, "checkpoint")
    BY <1>5 DEF PlanMutation
  <2>2. m.pc \in InTurn /\ m.cmd \in Cmd /\ MayGoOn(m)
    BY <1>1, <2>1 DEF OpOK, WithCall, InTurn, Steps
  <2>3. a \in Activity /\ a.kind = "mutation"
    BY <1>1, <2>2, PlannedExist DEF MayGoOn
  <2> HIDE DEF a
  <2> QED
    BY <2>1, <2>2, <2>3, PlanInv
<1> QED
  BY <1>2, <1>3, <1>4, <1>5

\* runToolIntent takes a call out of those the model asked for.
LEMMA NextIntentInv ==
  ASSUME Inv, NEW p \in Proc, NEW k \in Call, NextIntent(p, k)
  PROVE  Inv'
<1> DEFINE o == me[p]
           m == [o EXCEPT !.todo = @ \ {k}, !.call = k]
           tool == [kind |-> "tool", cmd |-> m.cmd, call |-> k, n |-> 0]
           synthetic == [tool EXCEPT !.kind = "synthetic"]
<1>1. o.pc = "intents" /\ k \in o.todo /\ OpOK(o) /\ o \in Op /\ JournalOK(journal)
  BY OpFacts DEF NextIntent
<1>2. o.cmd \in Cmd /\ k \in Asks[o.cmd] /\ o.attempt < LastAttempt /\ o.todo \subseteq Asks[o.cmd]
  BY <1>1 DEF OpOK, InTurn, Steps
<1> HIDE DEF o
<1>3. /\ m \in Op /\ m.pc = "intents" /\ m.cmd = o.cmd /\ m.todo \subseteq o.todo /\ m.call = k
      /\ m.attempt = o.attempt
  BY <1>1 DEF Op
<1>4. synthetic = [kind |-> "synthetic", cmd |-> m.cmd, call |-> k, n |-> 0]
  OBVIOUS
<1>5. /\ \/ Goto(p, To(m, "preview"))
         \/ Append(p, FALSE, Marked(journal, tool, "planned"), m, Activate(m, tool, "authorize"))
         \/ Append(p, FALSE, MarkedAnswered(journal, synthetic, "failed", TRUE), m, AfterIntent(m))
  BY DEF NextIntent, SyntheticFailure, o
<1> HIDE DEF m
<1>6. OpOK(m) /\ MayGoOn(m) /\ m.pc \in InTurn /\ o.pc \in InTurn
  BY <1>1, <1>2, <1>3 DEF OpOK, MayGoOn, Opening, WithCall, WithActivity, InTurn, Steps
<1>7. /\ tool \in Activity /\ synthetic \in Activity
      /\ tool.kind = "tool" /\ synthetic.kind = "synthetic"
  BY <1>2, <1>3, <1>4, PlannedExist
<1> HIDE DEF tool, synthetic
<1>8. CASE Goto(p, To(m, "preview"))
  <2>1. OpOK(To(m, "preview")) /\ To(m, "preview").pc = "preview"
    BY <1>6, ToOK DEF InTurn, Steps, WithActivity, Opening
  <2> QED
    BY <1>8, <2>1, GotoInv
<1>9. CASE Append(p, FALSE, Marked(journal, tool, "planned"), m, Activate(m, tool, "authorize"))
  <2>1. OpOK(Activate(m, tool, "authorize")) /\ Activate(m, tool, "authorize").pc = "authorize"
    BY <1>6, <1>7, ActivateOK
  <2>2. JournalOK(Marked(journal, tool, "planned"))
        /\ Marked(journal, tool, "planned").turn = journal.turn
    BY <1>1, <1>7, MarkedTyped DEF Status
  <2> QED
    BY <1>6, <1>9, <2>1, <2>2, AppendInTurn DEF o
<1>10. CASE Append(p, FALSE, MarkedAnswered(journal, synthetic, "failed", TRUE), m, AfterIntent(m))
  <2>1. OpOK(AfterIntent(m)) /\ AfterIntent(m).pc # "accept"
    BY <1>6, AfterIntentOK DEF MayGoOn
  <2>2. JournalOK(MarkedAnswered(journal, synthetic, "failed", TRUE))
        /\ MarkedAnswered(journal, synthetic, "failed", TRUE).turn = journal.turn
    BY <1>1, <1>7, MarkedAnsweredTyped DEF Status, Ended
  <2> QED
    BY <1>6, <1>10, <2>1, <2>2, AppendInTurn DEF o
<1> QED
  BY <1>5, <1>8, <1>9, <1>10

\* To inside an activity, behind an append that leaves the turns alone.
LEMMA WithinInv ==
  ASSUME Inv, NEW p \in Proc, me[p].pc \in WithActivity \ {"ending"},
         NEW j, JournalOK(j), j.turn = journal.turn,
         NEW pc \in WithActivity \ {"checkpoint", "revalidate", "ending"}, NEW after,
         after = To(me[p], pc) \/ after = [To(me[p], pc) EXCEPT !.started = TRUE],
         Append(p, FALSE, j, me[p], after)
  PROVE  Inv'
<1>1. OpOK(me[p]) /\ me[p].pc \in InTurn
  BY OpFacts DEF WithActivity, InTurn, Steps
<1>2. OpOK(To(me[p], pc)) /\ To(me[p], pc).pc = pc
  BY <1>1, WithinOK
<1>3. OpOK(after) /\ after.pc = pc
  BY <1>2, FlagsOK
<1>4. pc # "accept"
  BY DEF WithActivity
<1> QED
  BY <1>1, <1>3, <1>4, AppendInTurn

\* Between the plan of a mutation and its authorization.
LEMMA CheckpointInv ==
  ASSUME Inv, NEW p \in Proc, PrepareCheckpoint(p) \/ Revalidated(p) \/ DriftRound(p)
  PROVE  Inv'
<1> DEFINE m == me[p]
<1>1. OpOK(m) /\ m \in Op /\ JournalOK(journal)
  BY OpFacts
<1>2. /\ m.pc \in {"checkpoint", "revalidate"} /\ m.pc \in InTurn /\ m.pc \in WithActivity \ {"ending"}
      /\ m.cmd \in Cmd /\ MayGoOn(m) /\ m.active \in Activity /\ m.active.kind # "provider"
  BY <1>1 DEF PrepareCheckpoint, Revalidated, DriftRound, OpOK, InTurn, Steps, WithCall, WithActivity
<1>3. CASE PrepareCheckpoint(p)
  <2>1. OpOK(To(m, "revalidate")) /\ To(m, "revalidate").pc = "revalidate"
    BY <1>1, <1>2, ToOK DEF InTurn, Steps, Opening
  <2>2. OpOK(Failing(m, "failed")) /\ Failing(m, "failed").pc = "failing"
    BY <1>1, <1>2, FailingTyped DEF Ended
  <2>3. \/ Append(p, FALSE, journal, m, To(m, "revalidate"))
        \/ Append(p, TRUE, journal, m, Failing(m, "failed"))
    BY <1>3 DEF PrepareCheckpoint
  <2> QED
    BY <1>1, <1>2, <2>1, <2>2, <2>3, AppendInTurn
<1>4. CASE Revalidated(p)
  <2>1. Append(p, FALSE, journal, m, To(m, "authorize"))
    BY <1>4 DEF Revalidated
  <2>2. "authorize" \in WithActivity \ {"checkpoint", "revalidate", "ending"}
    BY DEF WithActivity
  <2> QED
    BY <1>1, <1>2, <2>1, <2>2, WithinInv
<1>5. CASE DriftRound(p) /\ m.round < LastRound
  <2> DEFINE d == Deactivate(m, "preview")
             n == [d EXCEPT !.round = @ + 1]
  <2>1. Append(p, FALSE, Marked(journal, m.active, "cancelled"), m, n)
    BY <1>5 DEF DriftRound
  <2>2. OpOK(d) /\ d.pc = "preview" /\ d \in Op /\ d.round = m.round
    <3>1. OpOK(d) /\ d.pc = "preview"
      BY <1>1, <1>2, DeactivateOK
    <3>2. d.round = m.round
      BY <1>1 DEF Deactivate, Activate, Op
    <3> QED
      BY <3>1, <3>2 DEF OpOK
  <2> HIDE DEF d
  <2>3. d.round + 1 \in 0 .. LastRound
    BY <1>1, <1>5, <2>2, BoundsAssumption DEF Op
  <2>4. /\ n \in Op /\ n.pc = d.pc /\ n.cmd = d.cmd /\ n.todo = d.todo /\ n.attempt = d.attempt
        /\ n.call = d.call /\ n.active = d.active /\ n.status = d.status
    BY <2>2, <2>3 DEF Op
  <2> HIDE DEF n
  <2>5. OpOK(n)
    BY <2>2, <2>4 DEF OpOK, MayGoOn
  <2>6. JournalOK(Marked(journal, m.active, "cancelled"))
        /\ Marked(journal, m.active, "cancelled").turn = journal.turn
    BY <1>1, <1>2, MarkedTyped DEF Status, Ended
  <2> QED
    BY <1>1, <1>2, <2>1, <2>2, <2>4, <2>5, <2>6, AppendInTurn
<1>6. CASE DriftRound(p) /\ ~ (m.round < LastRound)
  <2> DEFINE n == [m EXCEPT !.requires = TRUE]
  <2>1. Append(p, FALSE, MarkedAnswered(journal, m.active, "failed", TRUE), n, AfterIntent(m))
    BY <1>6 DEF DriftRound
  <2>2. OpOK(n) /\ n.pc = m.pc
    BY <1>1, FlagsOK
  <2> HIDE DEF n
  <2>3. OpOK(AfterIntent(m)) /\ AfterIntent(m).pc # "accept"
    BY <1>1, <1>2, AfterIntentOK DEF MayGoOn
  <2>4. JournalOK(MarkedAnswered(journal, m.active, "failed", TRUE))
        /\ MarkedAnswered(journal, m.active, "failed", TRUE).turn = journal.turn
    BY <1>1, <1>2, MarkedAnsweredTyped DEF Status, Ended
  <2> QED
    BY <1>1, <1>2, <2>1, <2>2, <2>3, <2>4, AppendInTurn
<1> QED
  BY <1>3, <1>4, <1>5, <1>6

\* authorizeActivity.
LEMMA ResolvedOK ==
  ASSUME Inv, NEW p \in Proc, me[p].pc \in {"authorize", "answered"},
         NEW action \in {"allow", "deny", "asking"}
  PROVE  OpOK(Resolved(p, action)) /\ Resolved(p, action).pc # "accept"
<1>1. OpOK(me[p]) /\ me[p].pc \in WithActivity \ {"ending"}
      /\ action \in WithActivity \ {"checkpoint", "revalidate", "ending"}
  BY OpFacts DEF WithActivity
<1>2. OpOK(To(me[p], action)) /\ To(me[p], action).pc = action
  BY <1>1, WithinOK
<1>3. PICK b \in BOOLEAN : b = (me[p].active.kind # "provider")
  OBVIOUS
<1> DEFINE t == To(me[p], action)
<1>4. OpOK([t EXCEPT !.requires = b]) /\ [t EXCEPT !.requires = b].pc = t.pc
  BY <1>2, FlagsOK
<1>5. Resolved(p, action) = IF action = "deny" THEN [t EXCEPT !.requires = b] ELSE t
  BY <1>3 DEF Resolved
<1> HIDE DEF t
<1>6. OpOK(t) /\ t.pc # "accept"
  BY <1>2 DEF t
<1> QED
  BY <1>4, <1>5, <1>6

\* A decision of the policy or of the user moves no event.
LEMMA DecisionInv ==
  ASSUME Inv, NEW p \in Proc, Decide(p) \/ Approve(p) \/ Reconcile(p)
  PROVE  Inv'
<1>1. CASE Decide(p)
  BY <1>1, ResolvedOK, GotoInv DEF Decide
<1>2. CASE Approve(p)
  <2>1. me[p].pc = "asking" /\ Goto(p, To(me[p], "answered"))
    BY <1>2 DEF Approve
  <2>2. OpOK(To(me[p], "answered")) /\ To(me[p], "answered").pc = "answered"
    BY <2>1, OpFacts, WithinOK DEF WithActivity
  <2> QED
    BY <2>1, <2>2, GotoInv
<1>3. CASE Reconcile(p)
  <2> DEFINE M == me' \in [Proc -> Op] /\ (\A q \in Proc : OpOK(me'[q]))
                    /\ me' = [me EXCEPT ![p] = me'[p]] /\ me'[p].pc # "accept"
  <2>1. me[p].pc = "answered" /\ UNCHANGED <<journal, ran, lock, cancelled, mishaps>>
    BY <1>3 DEF Reconcile
  <2>2. CASE Failed(p, me[p], "failed") /\ UNCHANGED drift
    <3>1. OpOK(me[p]) /\ me[p].pc \in InTurn
      BY <2>1, OpFacts DEF InTurn, Steps
    <3>2. M
      BY <2>2, <3>1, FailedTyped DEF Ended
    <3>3. OneActiveTurn' /\ AcceptsFirst'
      BY <2>1, <2>2, <3>2, Quiet
    <3> QED
      BY <2>1, <2>2, <3>2, <3>3 DEF Inv, TypeOK
  <2>3. CASE /\ drift' = [drift EXCEPT ![p] = "none"]
             /\ \E action \in {"allow", "deny"} : me' = [me EXCEPT ![p] = Resolved(p, action)]
    <3>1. PICK action \in {"allow", "deny"} : me' = [me EXCEPT ![p] = Resolved(p, action)]
      BY <2>3
    <3>2. OpOK(Resolved(p, action)) /\ Resolved(p, action).pc # "accept"
      BY <2>1, ResolvedOK
    <3>3. M
      BY <3>1, <3>2 DEF Inv, TypeOK, OpOK
    <3>4. OneActiveTurn' /\ AcceptsFirst'
      BY <2>1, <2>3, <3>3, Quiet DEF Inv, TypeOK
    <3> QED
      BY <2>1, <2>3, <3>3, <3>4 DEF Inv, TypeOK
  <2> QED
    BY <1>3, <2>2, <2>3 DEF Reconcile
<1> QED
  BY <1>1, <1>2, <1>3

\* The denial, the decision and the start are durable before anything happens.
LEMMA RecordInv ==
  ASSUME Inv, NEW p \in Proc, RecordDenial(p) \/ RecordDecision(p) \/ RecordStart(p)
  PROVE  Inv'
<1> DEFINE m == me[p]
<1>1. OpOK(m) /\ m \in Op /\ JournalOK(journal)
  BY OpFacts
<1>2. /\ m.pc \in {"deny", "allow", "start"} /\ m.pc \in InTurn /\ m.pc \in WithActivity \ {"ending"}
      /\ m.cmd \in Cmd /\ m.active \in Activity
  BY <1>1 DEF RecordDenial, RecordDecision, RecordStart, OpOK, InTurn, Steps, WithActivity
<1>3. CASE RecordDenial(p)
  <2> DEFINE visible == m.active.kind # "provider"
             d == Deactivate(m, "deny")
  <2>1. Append(p, FALSE, MarkedAnswered(journal, m.active, "denied", visible), m, Failing(d, "denied"))
    BY <1>3 DEF RecordDenial
  <2>2. d \in Op /\ d.cmd = m.cmd
    BY <1>1, ActivateTyped DEF Deactivate, Steps
  <2>3. OpOK(Failing(d, "denied")) /\ Failing(d, "denied").pc = "failing"
    BY <1>2, <2>2, FailingTyped DEF Ended
  <2>4. JournalOK(MarkedAnswered(journal, m.active, "denied", visible))
        /\ MarkedAnswered(journal, m.active, "denied", visible).turn = journal.turn
    BY <1>1, <1>2, MarkedAnsweredTyped DEF Status, Ended
  <2> HIDE DEF visible, d
  <2> QED
    BY <1>1, <1>2, <2>1, <2>3, <2>4, AppendInTurn
<1>4. CASE RecordDecision(p)
  <2>1. Append(p, FALSE, Marked(journal, m.active, "authorized"), m, To(m, "start"))
    BY <1>4 DEF RecordDecision
  <2>2. JournalOK(Marked(journal, m.active, "authorized"))
        /\ Marked(journal, m.active, "authorized").turn = journal.turn
    BY <1>1, <1>2, MarkedTyped DEF Status
  <2>3. "start" \in WithActivity \ {"checkpoint", "revalidate", "ending"}
    BY DEF WithActivity
  <2> QED
    BY <1>2, <2>1, <2>2, <2>3, WithinInv
<1>5. CASE RecordStart(p)
  <2>1. Append(p, FALSE, Marked(journal, m.active, "started"), m,
               [To(m, "dispatch") EXCEPT !.started = TRUE])
    BY <1>5 DEF RecordStart
  <2>2. JournalOK(Marked(journal, m.active, "started"))
        /\ Marked(journal, m.active, "started").turn = journal.turn
    BY <1>1, <1>2, MarkedTyped DEF Status
  <2>3. "dispatch" \in WithActivity \ {"checkpoint", "revalidate", "ending"}
    BY DEF WithActivity
  <2> QED
    BY <1>2, <2>1, <2>2, <2>3, WithinInv
<1> QED
  BY <1>3, <1>4, <1>5

\* A step of p alone, with effects that the journal does not know of yet.
LEMMA SilentInv ==
  ASSUME Inv, NEW p \in Proc, NEW m, OpOK(m), m.pc # "accept", me' = [me EXCEPT ![p] = m],
         ran' \in [Activity -> Nat], mishaps' \in 0 .. MaxMishaps,
         UNCHANGED <<journal, lock, drift, cancelled>>
  PROVE  Inv'
<1>1. me'[p] = m /\ m \in Op
  BY DEF Inv, TypeOK, OpOK
<1>2. OneActiveTurn' /\ AcceptsFirst'
  BY <1>1, Quiet
<1>3. \A q \in Proc : OpOK(me'[q])
  BY DEF Inv, TypeOK
<1> QED
  BY <1>1, <1>2, <1>3 DEF Inv, TypeOK

\* Dispatch changes the world, the journal learns of it later.
LEMMA DispatchInv ==
  ASSUME Inv, NEW p \in Proc, Dispatch(p)
  PROVE  Inv'
<1> DEFINE m == me[p]
           t == To(m, "running")
           n == [t EXCEPT !.dispatched = TRUE]
<1>1. /\ m.pc = "dispatch" /\ me' = [me EXCEPT ![p] = n]
      /\ ran' = [ran EXCEPT ![m.active] = @ + 1] \/ ran' = ran
      /\ UNCHANGED <<journal, lock, drift, cancelled, mishaps>>
  BY DEF Dispatch
<1>2. m.pc \in WithActivity \ {"ending"} /\ OpOK(m) /\ m.active \in Activity
  BY <1>1, OpFacts DEF WithActivity, OpOK
<1>3. OpOK(t) /\ t.pc = "running"
  BY <1>2, WithinOK DEF WithActivity
<1> HIDE DEF t
<1>4. OpOK(n) /\ n.pc = "running"
  BY <1>3, FlagsOK
<1> HIDE DEF n
<1>5. ran[m.active] + 1 \in Nat
  BY <1>2 DEF Inv, TypeOK
<1>6. ran' \in [Activity -> Nat] /\ mishaps' \in 0 .. MaxMishaps
  BY <1>1, <1>2, <1>5 DEF Inv, TypeOK
<1> QED
  BY <1>1, <1>4, <1>6, SilentInv

\* What comes back from the effect.
LEMMA ReturnsInv ==
  ASSUME Inv, NEW p \in Proc,
         ProviderReturns(p) \/ ProviderRetries(p) \/ PreviewReturns(p) \/ ToolReturns(p)
  PROVE  Inv'
<1> DEFINE m == me[p]
<1>1. OpOK(m) /\ m.pc = "running" /\ m.cmd \in Cmd
  BY OpFacts DEF ProviderReturns, ProviderRetries, PreviewReturns, ToolReturns, InTurn, Steps
<1>2. CASE ProviderReturns(p)
  <2> DEFINE n == EndsWith(p, "succeeded")
  <2>1. OpOK(n) /\ n.pc = "ending" /\ n.cmd = m.cmd /\ n.attempt = m.attempt /\ n.status = "succeeded"
    <3>1. OpOK(n) /\ n.pc = "ending" /\ n.cmd = m.cmd /\ n.attempt = m.attempt
      BY <1>1, EndsOK DEF Ended
    <3>2. n.status = "succeeded"
      <4>1. To(m, "ending") \in Op
        BY <1>1, OpFacts, ToTyped DEF Steps
      <4> QED
        BY <4>1 DEF EndsWith, Op
    <3> QED
      BY <3>1, <3>2
  <2>2. CASE Goto(p, n)
    BY <2>1, <2>2, GotoInv
  <2>3. CASE m.attempt < LastAttempt /\ \E todo \in SUBSET Fresh(m.cmd) :
               Goto(p, [n EXCEPT !.todo = todo])
    <3>1. PICK todo \in SUBSET Fresh(m.cmd) : Goto(p, [n EXCEPT !.todo = todo])
      BY <2>3
    <3>2. todo \in SUBSET Asks[m.cmd]
      BY DEF Fresh
    <3> HIDE DEF n
    <3>3. OpOK([n EXCEPT !.todo = todo]) /\ [n EXCEPT !.todo = todo].pc = "ending"
      BY <2>1, <2>3, <3>2, AsksForOK
    <3> QED
      BY <3>1, <3>3, GotoInv
  <2> QED
    BY <1>2, <2>2, <2>3 DEF ProviderReturns
<1>3. CASE ProviderRetries(p)
  <2> DEFINE n == EndsWith(p, "interrupted_no_effect")
  <2>1. m.attempt < LastAttempt /\ Goto(p, [n EXCEPT !.retried = TRUE])
    BY <1>3 DEF ProviderRetries
  <2>2. OpOK(n) /\ n.pc = "ending"
    BY <1>1, <2>1, EndsOK DEF Ended
  <2> HIDE DEF n
  <2> QED
    BY <2>1, <2>2, FlagsOK, GotoInv
<1>4. CASE PreviewReturns(p)
  <2>1. Goto(p, EndsWith(p, "succeeded"))
    BY <1>4 DEF PreviewReturns
  <2> QED
    BY <1>1, <2>1, EndsOK, GotoInv DEF Ended
<1>5. CASE ToolReturns(p)
  <2>1. PICK status \in {"succeeded", "failed", "uncertain"} :
          Goto(p, [EndsWith(p, status) EXCEPT !.requires = TRUE])
    BY <1>5 DEF ToolReturns, OwesResult
  <2>2. m.active.kind # "provider"
    BY <1>5 DEF ToolReturns, Visible
  <2> DEFINE n == EndsWith(p, status)
  <2>3. OpOK(n) /\ n.pc = "ending"
    BY <1>1, <2>2, EndsOK DEF Ended
  <2>4. Goto(p, [n EXCEPT !.requires = TRUE])
    BY <2>1
  <2> HIDE DEF n
  <2> QED
    BY <2>3, <2>4, FlagsOK, GotoInv
<1> QED
  BY <1>2, <1>3, <1>4, <1>5

\* An error between two appends: terminalizeTurnFailure comes next.
LEMMA ErrorInv ==
  ASSUME Inv, NEW p \in Proc, EffectFails(p) \/ Stop(p)
  PROVE  Inv'
<1>1. /\ me[p].pc \in Stoppable \cup {"running"} /\ Failed(p, me[p], Cause(p, FALSE))
      /\ UNCHANGED <<journal, ran, lock, drift, cancelled>>
  BY DEF EffectFails, Stop
<1>2. OpOK(me[p]) /\ me[p].pc \in InTurn
  BY <1>1, OpFacts DEF Stoppable, InTurn, Steps
<1>3. OpOK(me'[p]) /\ me'[p].pc # "accept" /\ me' = [me EXCEPT ![p] = me'[p]]
  BY <1>1, <1>2, FailedTyped, CauseTyped
<1>4. mishaps' \in 0 .. MaxMishaps /\ ran' \in [Activity -> Nat]
  <2>1. mishaps \in 0 .. MaxMishaps /\ ran \in [Activity -> Nat] /\ ran' = ran
    BY <1>1 DEF Inv, TypeOK
  <2>2. mishaps' = mishaps \/ Mishap
    BY DEF EffectFails, Stop
  <2> QED
    BY <2>1, <2>2, BoundsAssumption DEF Mishap
<1> QED
  BY <1>1, <1>3, <1>4, SilentInv

\* The ends of an activity and of the turn.
LEMMA EndsInv ==
  ASSUME Inv, NEW p \in Proc, EndActivity(p) \/ RecordVerification(p) \/ CompleteTurn(p)
  PROVE  Inv'
<1> DEFINE m == me[p]
<1>1. OpOK(m) /\ m \in Op /\ JournalOK(journal)
  BY OpFacts
<1>2. CASE EndActivity(p)
  <2> DEFINE detached == m.status \in {"uncertain", "interrupted_no_effect"}
             j == MarkedAnswered(journal, m.active, m.status, Visible(m.active))
  <2>1. m.pc = "ending" /\ Append(p, detached, j, m, AfterActivity(m))
    BY <1>2 DEF EndActivity
  <2>2. m.pc \in InTurn /\ m.active \in Activity /\ m.status \in Status
    BY <1>1, <2>1 DEF OpOK, Op, InTurn, Steps, WithActivity, Status
  <2>3. OpOK(AfterActivity(m)) /\ AfterActivity(m).pc # "accept"
    BY <1>1, <2>1, AfterActivityOK
  <2>4. Visible(m.active) => m.active.kind # "provider"
    BY DEF Visible
  <2>5. Visible(m.active) \in BOOLEAN
    BY DEF Visible
  <2>6. JournalOK(j) /\ j.turn = journal.turn
    BY <1>1, <2>2, <2>4, <2>5, MarkedAnsweredTyped
  <2>7. detached \in BOOLEAN
    OBVIOUS
  <2> HIDE DEF j, detached
  <2> QED
    BY <1>1, <2>1, <2>2, <2>3, <2>6, <2>7, AppendInTurn
<1>3. CASE RecordVerification(p)
  <2>1. m.pc = "verify" /\ Append(p, FALSE, journal, m, To(m, "finish"))
    BY <1>3 DEF RecordVerification
  <2>2. m.pc \in InTurn
    BY <2>1 DEF InTurn, Steps
  <2>3. OpOK(To(m, "finish")) /\ To(m, "finish").pc = "finish"
    BY <1>1, <2>2, ToOK DEF InTurn, Steps, WithCall, WithActivity, Opening
  <2> QED
    BY <1>1, <2>1, <2>2, <2>3, AppendInTurn
<1>4. CASE CompleteTurn(p)
  <2> DEFINE j == TurnIs(journal, m.cmd, "completed")
  <2>1. m.pc = "finish" /\ Append(p, FALSE, j, m, Leaving)
    BY <1>4 DEF CompleteTurn
  <2>2. m.pc \in InTurn /\ m.cmd \in Cmd
    BY <1>1, <2>1 DEF OpOK, InTurn, Steps
  <2>3. JournalOK(j) /\ j.turn = [journal.turn EXCEPT ![m.cmd] = "completed"]
    BY <1>1, <2>2, TurnIsTyped DEF TurnEnded
  <2>4. \A c \in Cmd : j.turn[c] = "active" => journal.turn[c] = "active"
    BY <1>1, <2>2, <2>3 DEF JournalOK
  <2> HIDE DEF j
  <2> QED
    BY <1>1, <2>1, <2>2, <2>3, <2>4, NoOpTyped, AppendInv
<1> QED
  BY <1>2, <1>3, <1>4

\* terminalizeTurnFailure leaves the turn as it is, or ends it.
LEMMA TerminalizeInv ==
  ASSUME Inv, NEW p \in Proc, TerminalizeTurnFailure(p)
  PROVE  Inv'
<1> DEFINE m == me[p]
           j == FailureEvents(m)
<1>1. OpOK(m) /\ m \in Op /\ JournalOK(journal) /\ m.pc = "failing"
  BY OpFacts DEF TerminalizeTurnFailure
<1>2. m.pc \in InTurn /\ m.cmd \in Cmd /\ m.active \in Activity \cup {None}
  BY <1>1 DEF OpOK, Op, InTurn, Steps
<1>3. CASE Goto(p, Leaving)
  BY <1>3, NoOpTyped, GotoInv
<1>4. CASE Append(p, TRUE, j, m, Leaving)
  <2> DEFINE k == IF m.active # None /\ ~ m.requires
                    THEN MarkedAnswered(journal, m.active, EndOfActive(m), Visible(m.active))
                    ELSE journal
  <2>1. JournalOK(k) /\ k.turn = journal.turn
    <3>1. EndOfActive(m) \in Status
      BY DEF EndOfActive, Status, Ended
    <3>2. Visible(m.active) \in BOOLEAN /\ (Visible(m.active) => m.active.kind # "provider")
      BY DEF Visible
    <3> QED
      BY <1>1, <1>2, <3>1, <3>2, MarkedAnsweredTyped
  <2>2. j = TurnIs(k, m.cmd, EndOfTurn(m))
    BY DEF FailureEvents
  <2> HIDE DEF k, j
  <2>3. EndOfTurn(m) \in TurnEnded
    BY DEF EndOfTurn, TurnEnded
  <2>4. JournalOK(j) /\ j.turn = [journal.turn EXCEPT ![m.cmd] = EndOfTurn(m)]
    <3>1. EndOfTurn(m) \in {"active"} \cup TurnEnded
      BY <2>3
    <3> HIDE DEF m
    <3>2. /\ JournalOK(TurnIs(k, m.cmd, EndOfTurn(m)))
          /\ TurnIs(k, m.cmd, EndOfTurn(m)).turn = [k.turn EXCEPT ![m.cmd] = EndOfTurn(m)]
      <4>1. JournalOK(k) /\ m.cmd \in Cmd
        BY <1>2, <2>1
      <4> DEFINE end == EndOfTurn(m)
                 c == m.cmd
      <4>2. end \in {"active"} \cup TurnEnded
        BY <3>1
      <4> HIDE DEF end, c
      <4>3. c \in Cmd
        BY <4>1 DEF c
      <4>4. JournalOK(TurnIs(k, c, end)) /\ TurnIs(k, c, end).turn = [k.turn EXCEPT ![c] = end]
        BY <4>1, <4>2, <4>3, TurnIsTyped
      <4> QED
        BY <4>4 DEF end, c
    <3> QED
      BY <2>1, <2>2, <3>2
  <2>5. \A c \in Cmd : j.turn[c] = "active" => journal.turn[c] = "active"
    BY <1>1, <1>2, <2>3, <2>4 DEF JournalOK, TurnEnded
  <2> QED
    BY <1>1, <1>2, <1>4, <2>4, <2>5, NoOpTyped, AppendInv
<1> QED
  BY <1>3, <1>4 DEF TerminalizeTurnFailure

\* The lock is given back, or was dropped before.
LEMMA LeaveInv ==
  ASSUME Inv, NEW p \in Proc, Leave(p)
  PROVE  Inv'
<1>1. lock' \in Proc \cup {None}
  BY DEF Leave, Inv, TypeOK
<1> QED
  BY <1>1, ReturnInv DEF Leave

-----------------------------------------------------------------------------
\* The actions of RecoverTurn.

\* A recovery starts from an idle process.
LEMMA StartRecoveryInv ==
  ASSUME Inv, NEW p \in Proc, StartRecovery(p)
  PROVE  Inv'
<1>1. Goto(p, To(me[p], "r-lease"))
  BY DEF StartRecovery
<1>2. To(me[p], "r-lease") \in Op /\ To(me[p], "r-lease").pc = "r-lease"
  BY OpFacts, ToTyped DEF Steps
<1>3. OpOK(To(me[p], "r-lease"))
  BY <1>2, OutsideTyped DEF InTurn
<1> QED
  BY <1>1, <1>2, <1>3, GotoInv

\* How an operation moves through the steps of a recovery.
LEMMA RecoveryOpOK ==
  ASSUME NEW m \in Op, NEW pc \in {"r-storage", "r-settle"}
  PROVE  /\ OpOK([m EXCEPT !.pc = pc]) /\ [m EXCEPT !.pc = pc].pc = pc
         /\ \A c \in Cmd : /\ OpOK([m EXCEPT !.pc = pc, !.cmd = c])
                           /\ [m EXCEPT !.pc = pc, !.cmd = c].pc = pc
<1>3. pc \in Steps
  BY DEF Steps
<1>1. /\ [m EXCEPT !.pc = pc] \in Op /\ [m EXCEPT !.pc = pc].pc = pc
      /\ \A c \in Cmd : /\ [m EXCEPT !.pc = pc, !.cmd = c] \in Op
                        /\ [m EXCEPT !.pc = pc, !.cmd = c].pc = pc
  BY <1>3 DEF Op
<1>2. pc \notin InTurn
  BY DEF InTurn
<1> QED
  BY <1>1, <1>2, OutsideTyped

\* A recovery takes the lock of the turn it ends; it opens none.
LEMMA AcquireRecoveryInv ==
  ASSUME Inv, NEW p \in Proc, AcquireTurnRecoveryLease(p)
  PROVE  Inv'
<1>1. CASE Return(p) /\ UNCHANGED lock /\ UNCHANGED <<journal, ran, mishaps>>
  BY <1>1, ReturnInv DEF Inv, TypeOK
<1>2. ASSUME NEW m, OpOK(m), m.pc = "r-storage", me' = [me EXCEPT ![p] = m],
             lock' \in Proc \cup {None}, UNCHANGED <<journal, ran, drift, cancelled, mishaps>>
      PROVE  Inv'
  <2>1. me'[p] = m /\ m \in Op /\ \A q \in Proc : OpOK(me'[q])
    BY <1>2 DEF Inv, TypeOK, OpOK
  <2>2. OneActiveTurn' /\ AcceptsFirst'
    BY <1>2, <2>1, Quiet
  <2> QED
    BY <1>2, <2>1, <2>2 DEF Inv, TypeOK
<1>3. ASSUME NEW c \in ActiveTurns, lock' = p,
             me' = [me EXCEPT ![p] = [@ EXCEPT !.pc = "r-storage", !.cmd = c]],
             UNCHANGED <<journal, ran, drift, cancelled, mishaps>>
      PROVE  Inv'
  <2> DEFINE m == [me[p] EXCEPT !.pc = "r-storage", !.cmd = c]
  <2>1. OpOK(m) /\ m.pc = "r-storage"
    <3>1. c \in Cmd /\ me[p] \in Op
      BY OpFacts DEF ActiveTurns
    <3> QED
      BY <3>1, RecoveryOpOK
  <2>2. me' = [me EXCEPT ![p] = m]
    BY <1>3
  <2> HIDE DEF m
  <2> QED
    BY <1>2, <1>3, <2>1, <2>2
<1>4. CASE /\ me' = [me EXCEPT ![p].pc = "r-storage"] /\ UNCHANGED lock
           /\ UNCHANGED <<journal, ran, drift, cancelled, mishaps>>
  <2> DEFINE m == [me[p] EXCEPT !.pc = "r-storage"]
  <2>1. OpOK(m) /\ m.pc = "r-storage"
    BY <1>4, OpFacts, RecoveryOpOK
  <2>2. me' = [me EXCEPT ![p] = m]
    BY <1>4
  <2> HIDE DEF m
  <2> QED
    BY <1>2, <1>4, <2>1, <2>2 DEF Inv, TypeOK
<1> QED
  BY <1>1, <1>3, <1>4 DEF AcquireTurnRecoveryLease

\* The storage recovery moves a torn tail away and leaves every turn as it is.
LEMMA RecoverInv ==
  ASSUME Inv, NEW p \in Proc, Recover(p)
  PROVE  Inv'
<1> DEFINE settle == [me[p] EXCEPT !.pc = "r-settle"]
           clean == [journal EXCEPT !.torn = FALSE]
<1>1. /\ me[p].pc = "r-storage" /\ UNCHANGED <<ran, lock, cancelled>>
      /\ mishaps' = mishaps \/ Mishap
  BY DEF Recover
<1>2. mishaps' \in 0 .. MaxMishaps
  <2>1. mishaps \in 0 .. MaxMishaps
    BY DEF Inv, TypeOK
  <2> QED
    BY <1>1, <2>1, BoundsAssumption DEF Mishap
<1>3. PICK m \in {settle, Leaving} : me' = [me EXCEPT ![p] = m]
  BY DEF Recover
<1>4. OpOK(settle) /\ settle.pc = "r-settle"
  BY OpFacts, RecoveryOpOK
<1> HIDE DEF settle
<1>5. OpOK(m) /\ m.pc # "accept" /\ m \in Op
  BY <1>3, <1>4, NoOpTyped DEF OpOK
<1>6. /\ JournalOK(clean) /\ clean.turn = journal.turn
  BY OpFacts DEF JournalOK
<1>7. (journal' = clean \/ journal' = journal) /\ (drift' = Overtaken(p) \/ drift' = drift)
  BY DEF Recover
<1> HIDE DEF clean
<1>8. journal'.turn = journal.turn /\ JournalOK(journal')
  BY <1>6, <1>7, OpFacts
<1>9. me'[p] = m /\ \A q \in Proc : OpOK(me'[q])
  BY <1>3, <1>5 DEF Inv, TypeOK
<1>10. drift' \in [Proc -> {"none", "ack", "other"}]
  BY <1>7, OvertakenTyped DEF Inv, TypeOK
<1>11. OneActiveTurn' /\ AcceptsFirst'
  <2>1. CASE drift' = drift
    BY <1>3, <1>5, <1>8, <1>9, <2>1, Quiet
  <2>2. CASE drift' = Overtaken(p)
    <3>1. OneActiveTurn'
      BY <1>8 DEF Inv, OneActiveTurn, ActiveTurns
    <3>2. AcceptsFirst'
      <4> SUFFICES ASSUME NEW q \in Proc, (me[q].pc = "accept")', (drift[q] = "none")'
                   PROVE  FALSE
        BY DEF AcceptsFirst
      <4>1. q # p /\ me'[q] = me[q]
        BY <1>3, <1>5, <1>9 DEF Inv, TypeOK
      <4> QED
        BY <2>2, <4>1, OvertakenTyped
    <3> QED
      BY <3>1, <3>2
  <2> QED
    BY <1>7, <2>1, <2>2
<1> QED
  BY <1>1, <1>2, <1>3, <1>5, <1>8, <1>9, <1>10, <1>11 DEF Inv, TypeOK, JournalOK

\* The results a recovery adds to one call can be counted: the activities of a
\* call differ in their kind and number alone.
LEMMA AddedResults ==
  ASSUME NEW c \in Cmd, NEW k \in Call
  PROVE  Cardinality({a \in StartedActivities : Visible(a) /\ a.cmd = c /\ a.call = k}) \in Nat
<1> DEFINE S == {a \in StartedActivities : Visible(a) /\ a.cmd = c /\ a.call = k}
           T == Kinds \X (0 .. LastAttempt + LastRound)
           f == [a \in S |-> <<a.kind, a.n>>]
<1>1. \A a \in S : a \in [kind : Kinds, cmd : Cmd, call : Call \cup {None}, n : 0 .. LastAttempt + LastRound]
  BY DEF StartedActivities, Activity
<1>2. f \in [S -> T]
  BY <1>1
<1>3. ASSUME NEW a \in S, NEW b \in S, f[a] = f[b] PROVE a = b
  <2>1. a.kind = b.kind /\ a.n = b.n /\ a.cmd = b.cmd /\ a.call = b.call
    BY <1>3
  <2> QED
    BY <1>1, <2>1
<1>4. f \in Injection(S, T)
  BY <1>2, <1>3 DEF Injection, IsInjective
<1>5. IsFiniteSet(T)
  <2>1. IsFiniteSet({"provider"} \cup {"preview"} \cup {"mutation"} \cup {"tool"} \cup {"synthetic"})
    BY FS_Singleton, FS_Union
  <2>2. Kinds = {"provider"} \cup {"preview"} \cup {"mutation"} \cup {"tool"} \cup {"synthetic"}
    BY DEF Kinds
  <2>3. IsFiniteSet(0 .. LastAttempt + LastRound)
    BY FS_Interval, BoundsAssumption
  <2> QED
    BY <2>1, <2>2, <2>3, FS_Product
<1> HIDE DEF S, T, f
<1>6. IsFiniteSet(S)
  BY <1>4, <1>5, FS_Injection
<1> QED
  BY <1>6, FS_CardinalityType DEF S

\* appendRecoverySessionTerminal ends a turn and opens none.
LEMMA SettledTyped ==
  ASSUME Inv, NEW c \in Cmd
  PROVE  JournalOK(Settled(c)) /\ \A d \in Cmd : Settled(c).turn[d] = "active" => journal.turn[d] = "active"
<1> DEFINE acts == [a \in Activity |-> IF a \in StartedActivities THEN "uncertain" ELSE journal.act[a]]
           answers == [d \in Cmd |-> [k \in Call |-> journal.answers[d][k] +
                         Cardinality({a \in StartedActivities : Visible(a) /\ a.cmd = d /\ a.call = k})]]
           turns == [journal.turn EXCEPT ![c] = "interrupted"]
<1>1. JournalOK(journal)
  BY OpFacts DEF Inv, TypeOK, JournalOK
<1>2. Settled(c) = [turn |-> turns, act |-> acts, answers |-> answers, torn |-> journal.torn]
  <2>1. Settled(c) = [journal EXCEPT !.act = acts, !.answers = answers, !.turn[c] = "interrupted"]
    BY DEF Settled
  <2> HIDE DEF acts, answers
  <2> QED
    BY <1>1, <2>1 DEF JournalOK
<1>3. acts \in [Activity -> Status]
  BY <1>1 DEF JournalOK, Status, Ended
<1>4. answers \in [Cmd -> [Call -> Nat]]
  BY <1>1, AddedResults DEF JournalOK
<1>5. turns \in [Cmd -> {"none", "active"} \cup TurnEnded]
      /\ \A d \in Cmd : turns[d] = "active" => journal.turn[d] = "active"
  BY <1>1 DEF JournalOK, TurnEnded
<1> HIDE DEF acts, answers, turns
<1> QED
  BY <1>1, <1>2, <1>3, <1>4, <1>5 DEF JournalOK

\* The end of a recovery.
LEMMA SettleTurnInv ==
  ASSUME Inv, NEW p \in Proc, SettleTurn(p)
  PROVE  Inv'
<1> DEFINE m == me[p]
<1>1. m.pc = "r-settle" /\ OpOK(m) /\ m \in Op
  BY OpFacts DEF SettleTurn
<1>2. CASE Goto(p, Leaving)
  BY <1>2, NoOpTyped, GotoInv
<1>3. CASE m.cmd # None /\ Append(p, FALSE, Settled(m.cmd), m, Leaving)
  <2>1. m.cmd \in Cmd
    BY <1>1, <1>3 DEF Op
  <2> QED
    BY <1>1, <1>3, <2>1, SettledTyped, NoOpTyped, AppendInv
<1> QED
  BY <1>2, <1>3 DEF SettleTurn

-----------------------------------------------------------------------------
\* The world around: other commits, cancellation and death.

\* A step that moves no operation and no turn, and forgets no foreign commit.
LEMMA AsideInv ==
  ASSUME Inv, UNCHANGED <<journal, ran, me>>, lock' \in Proc \cup {None},
         cancelled' \subseteq Proc, mishaps' \in 0 .. MaxMishaps,
         drift' \in [Proc -> {"none", "ack", "other"}],
         \A q \in Proc : drift'[q] = "none" => drift[q] = "none" \/ me[q].pc = "idle"
  PROVE  Inv'
<1>1. OneActiveTurn' /\ AcceptsFirst'
  BY DEF Inv, OneActiveTurn, AcceptsFirst, ActiveTurns
<1> QED
  BY <1>1 DEF Inv, TypeOK

\* Acknowledgements, cancellations and dropped leases move no turn; what they
\* commit, every operation hears of.
LEMMA WorldInv ==
  ASSUME Inv, NEW p \in Proc, Acknowledge(p) \/ Cancel(p) \/ DropLease(p)
  PROVE  Inv'
<1>1. /\ lock \in Proc \cup {None} /\ cancelled \subseteq Proc /\ mishaps \in 0 .. MaxMishaps
      /\ drift \in [Proc -> {"none", "ack", "other"}]
  BY DEF Inv, TypeOK
<1>2. Mishap => mishaps' \in 0 .. MaxMishaps
  BY <1>1, BoundsAssumption DEF Mishap
<1>3. CASE Acknowledge(p)
  <2> DEFINE heard == IF drift[p] = "none" THEN "ack" ELSE "other"
  <2>1. /\ drift' = [Overtaken(p) EXCEPT ![p] = heard] /\ Mishap
        /\ UNCHANGED <<journal, ran, lock, me, cancelled>>
    BY <1>3 DEF Acknowledge
  <2>2. drift' \in [Proc -> {"none", "ack", "other"}]
        /\ \A q \in Proc : drift'[q] = "none" => me[q].pc = "idle"
    BY <2>1, OvertakenTyped
  <2> QED
    BY <1>1, <1>2, <2>1, <2>2, AsideInv
<1>4. CASE Cancel(p)
  BY <1>1, <1>2, <1>4, AsideInv DEF Cancel
<1>5. CASE DropLease(p)
  BY <1>1, <1>5, AsideInv DEF DropLease
<1> QED
  BY <1>3, <1>4, <1>5

\* A commit of somebody else overtakes every operation.
LEMMA ForeignCommitInv ==
  ASSUME Inv, ForeignCommit
  PROVE  Inv'
<1>1. /\ lock \in Proc \cup {None} /\ cancelled \subseteq Proc /\ mishaps' \in 0 .. MaxMishaps
  BY BoundsAssumption DEF Inv, TypeOK, ForeignCommit, Mishap
<1>2. /\ drift' = [q \in Proc |-> IF me[q].pc = "idle" THEN "none" ELSE "other"]
      /\ UNCHANGED <<journal, ran, lock, me, cancelled>>
  BY DEF ForeignCommit
<1>3. drift' \in [Proc -> {"none", "ack", "other"}]
      /\ \A q \in Proc : drift'[q] = "none" => me[q].pc = "idle"
  BY <1>2
<1> QED
  BY <1>1, <1>2, <1>3, AsideInv

\* The lock of a process that dies is free, and its own operation is gone.
LEMMA KillInv ==
  ASSUME Inv, NEW p \in Proc, Kill(p)
  PROVE  Inv'
<1>1. /\ me' = [me EXCEPT ![p] = NoOp] /\ drift' = [drift EXCEPT ![p] = "none"]
      /\ cancelled' = cancelled \ {p} /\ ran' = ran /\ Mishap
      /\ lock' \in Proc \cup {None}
      /\ journal' = journal \/ journal' = [journal EXCEPT !.torn = TRUE]
  BY DEF Kill, Inv, TypeOK
<1>2. journal'.turn = journal.turn /\ JournalOK(journal')
  BY <1>1, OpFacts DEF JournalOK, Inv, TypeOK
<1>3. me'[p] = NoOp /\ \A q \in Proc \ {p} : drift'[q] = drift[q]
  BY <1>1 DEF Inv, TypeOK
<1>4. OneActiveTurn' /\ AcceptsFirst'
  BY <1>1, <1>2, <1>3, NoOpTyped, Quiet
<1>5. \A q \in Proc : OpOK(me'[q]) /\ me'[q] \in Op
  BY <1>1, NoOpTyped DEF Inv, TypeOK
<1>6. mishaps' \in 0 .. MaxMishaps
  BY <1>1, BoundsAssumption DEF Mishap, Inv, TypeOK
<1> QED
  BY <1>1, <1>2, <1>4, <1>5, <1>6, NoOpTyped DEF Inv, TypeOK, JournalOK

-----------------------------------------------------------------------------
\* The empty journal.
LEMMA InitInv == Init => Inv
<1> SUFFICES ASSUME Init PROVE Inv
  OBVIOUS
<1>1. me = [p \in Proc |-> NoOp] /\ \A c \in Cmd : journal.turn[c] = "none"
  BY DEF Init
<1>2. TypeOK
  <2>1. journal \in [turn : [Cmd -> {"none", "active"} \cup TurnEnded], act : [Activity -> Status],
                     answers : [Cmd -> [Call -> Nat]], torn : BOOLEAN]
    BY DEF Init, Status
  <2>2. ran \in [Activity -> Nat] /\ lock \in Proc \cup {None}
        /\ drift \in [Proc -> {"none", "ack", "other"}]
        /\ cancelled \subseteq Proc /\ mishaps \in 0 .. MaxMishaps
    BY BoundsAssumption DEF Init
  <2> QED
    BY <1>1, <2>1, <2>2, NoOpTyped DEF TypeOK
<1>3. \A p \in Proc : OpOK(me[p]) /\ me[p].pc = "idle"
  BY <1>1, NoOpTyped
<1>4. OneActiveTurn /\ AcceptsFirst
  BY <1>1, <1>3 DEF OneActiveTurn, ActiveTurns, AcceptsFirst
<1> QED
  BY <1>2, <1>3, <1>4 DEF Inv

\* Every step of RunTurn and RecoverTurn.
LEMMA AdvanceInv ==
  ASSUME Inv, NEW p \in Proc, Advance(p)
  PROVE  Inv'
<1>1. CASE AcquireTurnLease(p) \/ AcceptTurn(p)
  BY <1>1, AcquireTurnLeaseInv, AcceptTurnInv
<1>2. CASE FreezeContract(p) \/ PlanProvider(p) \/ PlanPreview(p) \/ PlanMutation(p)
  BY <1>2, FreezePlanInv
<1>3. CASE \E k \in Call : NextIntent(p, k)
  BY <1>3, NextIntentInv
<1>4. CASE PrepareCheckpoint(p) \/ Revalidated(p) \/ DriftRound(p)
  BY <1>4, CheckpointInv
<1>5. CASE Decide(p) \/ Approve(p) \/ Reconcile(p)
  BY <1>5, DecisionInv
<1>6. CASE RecordDenial(p) \/ RecordDecision(p) \/ RecordStart(p)
  BY <1>6, RecordInv
<1>7. CASE Dispatch(p) \/ EffectFails(p)
  BY <1>7, DispatchInv, ErrorInv
<1>8. CASE ProviderReturns(p) \/ ProviderRetries(p) \/ PreviewReturns(p) \/ ToolReturns(p)
  BY <1>8, ReturnsInv
<1>9. CASE EndActivity(p) \/ RecordVerification(p) \/ CompleteTurn(p)
  BY <1>9, EndsInv
<1>10. CASE TerminalizeTurnFailure(p) \/ Leave(p)
  BY <1>10, TerminalizeInv, LeaveInv
<1>11. CASE AcquireTurnRecoveryLease(p) \/ Recover(p) \/ SettleTurn(p)
  BY <1>11, AcquireRecoveryInv, RecoverInv, SettleTurnInv
<1> QED
  BY <1>1, <1>2, <1>3, <1>4, <1>5, <1>6, <1>7, <1>8, <1>9, <1>10, <1>11 DEF Advance

\* Inv is inductive.
LEMMA NextInv == Inv /\ [Next]_vars => Inv'
<1> SUFFICES ASSUME Inv, [Next]_vars PROVE Inv'
  OBVIOUS
<1>1. CASE UNCHANGED vars
  BY <1>1 DEF vars, Inv, TypeOK, OneActiveTurn, ActiveTurns, AcceptsFirst
<1>2. ASSUME NEW p \in Proc,
             \/ Advance(p) \/ (\E c \in Cmd : Submit(p, c)) \/ StartRecovery(p)
             \/ Stop(p) \/ Acknowledge(p) \/ Cancel(p) \/ DropLease(p) \/ Kill(p)
      PROVE  Inv'
  BY <1>2, AdvanceInv, SubmitInv, StartRecoveryInv, ErrorInv, WorldInv, KillInv
<1>3. CASE ForeignCommit
  BY <1>3, ForeignCommitInv
<1> QED
  BY <1>1, <1>2, <1>3 DEF Next

\* The invariant holds in every reachable state.
LEMMA Invariance == Spec => []Inv
BY InitInv, NextInv, PTL DEF Spec

\* The journal, the effects and every operation keep their shape: in particular
\* the bound of the provider attempts is met because a zero-byte error is retried
\* once, and every activity that is planned belongs to a call the model asked for.
THEOREM TypeCorrect == Spec => []TypeOK
<1>1. Inv => TypeOK
  BY DEF Inv
<1> QED
  BY <1>1, Invariance, PTL

\* RunTurn appends turn.accepted only at the head at which AcquireTurnLease saw no
\* active turn, so that no two turns are active, whoever dropped which lock.
THEOREM SingleTurn == Spec => []OneActiveTurn
<1>1. Inv => OneActiveTurn
  BY DEF Inv
<1> QED
  BY <1>1, Invariance, PTL

-----------------------------------------------------------------------------
(***************************************************************************)
(* What the journal says of effects: HonestStatus, EffectOnce,             *)
(* EffectsAreFenced, EndedTurnsAreSettled and EndsStand.                   *)
(*                                                                         *)
(* An operation owns the journal (Owns) while nobody has committed after   *)
(* the head it knows, or while it holds turn.lock because it is not        *)
(* cancelled.  There is one owner at most, the journal agrees with what    *)
(* the owner remembers (Agree), and effects and commits are the owner's    *)
(* alone: the others are cancelled, so that they start no effect, and find *)
(* that the journal has moved on when they append.                         *)
(***************************************************************************)

\* The steps behind turn.accepted.
Accepted == InTurn \ {"lease", "accept"}

\* The journal still is as p left it.
Owns(p) ==
  /\ me[p].pc \in Accepted
  /\ \/ drift[p] = "none"
     \/ me[p].pc # "failing" /\ (drift[p] = "ack" \/ p \notin cancelled)

\* What terminalizeTurnFailure relies on: the flags of the active activity.
Tidy(m) ==
  m.active # None =>
    /\ m.active \in Activity /\ m.active.cmd = m.cmd
    /\ m.dispatched => m.started
    /\ m.requires => Visible(m.active) \/ ~ m.started

\* What an operation remembers, whatever the journal says.
Local(m) ==
  /\ m.pc \in {"idle", "r-lease"} => m.cmd = None
  /\ m.pc \in InTurn => Tidy(m)
  /\ m.pc \in InTurn \ (WithActivity \cup {"failing"}) => m.active = None
  /\ m.pc \in Opening \cup {"intents"} => m.call = None
  /\ m.pc \in {"preview", "mutate"} => m.call \notin m.todo
  /\ m.pc \in WithActivity =>
       /\ m.started <=> m.pc \in {"dispatch", "running", "ending"}
       /\ m.dispatched <=> m.pc \in {"running", "ending"}
       /\ m.requires => m.pc \in {"deny", "ending"}
       /\ m.active.call = m.call /\ m.active.kind # "synthetic"
       /\ m.active.kind = "provider" => m.active.n = m.attempt
       /\ m.active.kind \in {"preview", "mutation"} => m.active.n = m.round
       /\ m.active.kind # "provider" => m.call \notin m.todo
  /\ m.pc \in {"checkpoint", "revalidate"} => m.active.kind = "mutation"
  /\ m.pc = "ending" => m.status \in {"succeeded", "failed", "uncertain", "interrupted_no_effect"}

\* The call k of c waits for its result, and nothing but one activity may have
\* had an effect for it.
Waiting(j, r, c, k, except) ==
  /\ j.answers[c][k] = 0
  /\ \A b \in Activity : Visible(b) /\ b.cmd = c /\ b.call = k /\ b # except => r[b] = 0

\* The journal j and the effects r agree with the active activity of m.
Traced(j, r, m) ==
  /\ j.turn[m.cmd] = "active"
  /\ \A b \in Activity : b.cmd = m.cmd /\ j.act[b] = "started" => b = m.active
  /\ m.active # None =>
       /\ j.act[m.active] \in IF m.started THEN {"started"} ELSE {"planned", "authorized"}
       /\ ~ m.dispatched => r[m.active] = 0
       /\ m.active.kind # "provider" => Waiting(j, r, m.cmd, m.active.call, m.active)

\* The activities the turn may still plan.
Ahead(m, a) ==
  /\ a.cmd = m.cmd
  /\ \/ a.kind = "provider" /\ (a.n > m.attempt \/ (a.n = m.attempt /\ m.pc \in {"freeze", "provider"}))
     \/ a.kind # "provider" /\ a.call \in m.todo
     \/ a.kind \in {"preview", "mutation"} /\ a.call = m.call
          /\ (a.n > m.round \/ (a.n = m.round /\ m.pc = "preview"))
     \/ a.kind = "mutation" /\ a.call = m.call /\ a.n = m.round
          /\ (m.pc = "mutate" \/ (m.pc \in WithActivity /\ m.active.kind = "preview"))

\* The journal and the effects agree with everything m remembers.
Agree(j, r, m) ==
  /\ Traced(j, r, m)
  /\ m.pc \in {"preview", "mutate"} => Waiting(j, r, m.cmd, m.call, None)
  /\ m.pc = "ending" /\ m.status = "interrupted_no_effect" => r[m.active] = 0
  /\ m.pc = "ending" /\ m.status = "succeeded" => r[m.active] > 0
  /\ m.pc \notin {"verify", "finish", "failing"} =>
       \A a \in Activity : Ahead(m, a) => j.act[a] = "none"

\* What the journal says and the effects, whoever is at work.
History(j, r) ==
  /\ \A a \in Activity :
       /\ r[a] <= 1
       /\ r[a] > 0 => j.act[a] \in {"started", "succeeded", "failed", "uncertain"}
       /\ j.act[a] = "succeeded" => r[a] > 0
       /\ j.act[a] # "none" => j.turn[a.cmd] # "none"
       /\ j.act[a] = "started" => j.turn[a.cmd] = "active"
       /\ Visible(a) /\ j.act[a] = "started" => j.answers[a.cmd][a.call] = 0
       /\ Visible(a) /\ r[a] > 0 => j.act[a] = "started" \/ j.answers[a.cmd][a.call] = 1
  /\ \A a, b \in Activity : Visible(a) /\ Visible(b) /\ a.cmd = b.cmd /\ a.call = b.call =>
       /\ j.act[a] = "started" /\ j.act[b] = "started" => a = b
       /\ r[a] > 0 /\ r[b] > 0 => a = b
  /\ \A c \in Cmd, k \in Call :
       /\ j.answers[c][k] <= 1
       /\ j.answers[c][k] > 0 =>
            \E a \in Activity : a.cmd = c /\ a.call = k /\ j.act[a] # "none"

\* Who has to hold turn.lock, unless a cancellation has taken it away.
NeedsLock(m) ==
  \/ m.pc \in {"accept"} \cup Accepted
  \/ m.pc \in {"r-storage", "r-settle"} /\ m.cmd # None
Fenced(p) == p \notin cancelled /\ NeedsLock(me[p]) => lock = p

\* What an operation that is not overtaken knows of its turn before it owns it.
Knows(p) ==
  drift[p] = "none" =>
    /\ me[p].pc \in {"lease", "accept"} => journal.turn[me[p].cmd] = "none"
    /\ me[p].pc \in {"r-storage", "r-settle"} /\ me[p].cmd # None =>
         journal.turn[me[p].cmd] = "active"

\* The inductive invariant.
EffectInv ==
  /\ Inv
  /\ History(journal, ran)
  /\ \A p \in Proc : Local(me[p]) /\ Fenced(p) /\ Knows(p)
  /\ \A p \in Proc : Owns(p) => Agree(journal, ran, me[p])
  /\ \A p, q \in Proc : Owns(p) /\ Owns(q) => p = q

\* The journal i leaves what has ended in the journal j as it ended.
Stands(j, i) ==
  /\ \A c \in Cmd : j.turn[c] \in TurnEnded => i.turn[c] = j.turn[c]
  /\ \A a \in Activity : j.act[a] \in Ended => i.act[a] = j.act[a]

\* Both journals tell the same; one may have a torn tail.
Same(j, i) == i.turn = j.turn /\ i.act = j.act /\ i.answers = j.answers

\* What every step is shown to do.
Keeps == EffectInv' /\ Stands(journal, journal')
-----------------------------------------------------------------------------
\* Events in the history.

\* The fields of a journal behind the events of one activity.
LEMMA MarkedFields ==
  ASSUME NEW j, JournalOK(j), NEW a \in Activity, NEW status \in Status
  PROVE  /\ Marked(j, a, status).turn = j.turn /\ Marked(j, a, status).answers = j.answers
         /\ Marked(j, a, status).act = [j.act EXCEPT ![a] = status]
BY DEF JournalOK, Marked

LEMMA AnsweredFields ==
  ASSUME NEW j, JournalOK(j), NEW a \in Activity, a.kind # "provider"
  PROVE  /\ Answered(j, a).turn = j.turn /\ Answered(j, a).act = j.act
         /\ \A c \in Cmd, k \in Call : Answered(j, a).answers[c][k] =
              IF c = a.cmd /\ k = a.call THEN j.answers[c][k] + 1 ELSE j.answers[c][k]
<1>1. a.cmd \in Cmd /\ a.call \in Call
  BY ActivityShape
<1> QED
  BY <1>1 DEF Answered, JournalOK

LEMMA MarkedAnsweredFields ==
  ASSUME NEW j, JournalOK(j), NEW a \in Activity, NEW status \in Ended, NEW visible \in BOOLEAN,
         visible => a.kind # "provider"
  PROVE  /\ MarkedAnswered(j, a, status, visible).turn = j.turn
         /\ MarkedAnswered(j, a, status, visible).act = [j.act EXCEPT ![a] = status]
         /\ ~ visible => MarkedAnswered(j, a, status, visible).answers = j.answers
<1> DEFINE marked == Marked(j, a, status)
<1>1. status \in Status
  BY DEF Status
<1>2. /\ JournalOK(marked) /\ marked.turn = j.turn /\ marked.answers = j.answers
      /\ marked.act = [j.act EXCEPT ![a] = status]
  BY <1>1, MarkedTyped, MarkedFields
<1>3. MarkedAnswered(j, a, status, visible) = IF visible THEN Answered(marked, a) ELSE marked
  BY DEF MarkedAnswered
<1> HIDE DEF marked
<1> QED
  BY <1>2, <1>3, AnsweredFields

\* History speaks of turns, activities and answers alone.
LEMMA SameHistory ==
  ASSUME NEW j, NEW i, NEW r, Same(j, i)
  PROVE  /\ History(j, r) => History(i, r)
         /\ \A m : Agree(j, r, m) => Agree(i, r, m)
         /\ \A m : Traced(j, r, m) => Traced(i, r, m)
         /\ Stands(j, i)
BY DEF Same, History, Agree, Traced, Waiting, Stands

\* A plan or an authorization of an activity without an effect.
LEMMA PlannedHistory ==
  ASSUME NEW j, JournalOK(j), NEW r \in [Activity -> Nat], History(j, r), NEW a \in Activity,
         NEW status \in {"planned", "authorized"},
         j.act[a] \in {"none", "planned", "authorized"}, r[a] = 0, j.turn[a.cmd] = "active"
  PROVE  History(Marked(j, a, status), r) /\ Stands(j, Marked(j, a, status))
<1> DEFINE i == Marked(j, a, status)
<1>1. i.turn = j.turn /\ i.answers = j.answers /\ i.act = [j.act EXCEPT ![a] = status]
  BY MarkedFields DEF Status
<1>2. \A b \in Activity : i.act[b] = IF b = a THEN status ELSE j.act[b]
  BY <1>1 DEF JournalOK
<1> HIDE DEF i
<1>3. \A b \in Activity :
       /\ r[b] <= 1
       /\ r[b] > 0 => i.act[b] \in {"started", "succeeded", "failed", "uncertain"}
       /\ i.act[b] = "succeeded" => r[b] > 0
       /\ i.act[b] # "none" => i.turn[b.cmd] # "none"
       /\ i.act[b] = "started" => i.turn[b.cmd] = "active"
       /\ Visible(b) /\ i.act[b] = "started" => i.answers[b.cmd][b.call] = 0
       /\ Visible(b) /\ r[b] > 0 => i.act[b] = "started" \/ i.answers[b.cmd][b.call] = 1
  BY <1>1, <1>2 DEF History
<1>4. \A b, d \in Activity : Visible(b) /\ Visible(d) /\ b.cmd = d.cmd /\ b.call = d.call =>
       /\ i.act[b] = "started" /\ i.act[d] = "started" => b = d
       /\ r[b] > 0 /\ r[d] > 0 => b = d
  BY <1>2 DEF History
<1>5. \A c \in Cmd, k \in Call :
       /\ i.answers[c][k] <= 1
       /\ i.answers[c][k] > 0 => \E b \in Activity : b.cmd = c /\ b.call = k /\ i.act[b] # "none"
  BY <1>1, <1>2 DEF History
<1>6. Stands(j, i)
  BY <1>1, <1>2 DEF Stands, Ended
<1> QED
  BY <1>3, <1>4, <1>5, <1>6 DEF History, i

\* The start of an activity, the only one of its turn that has started.
LEMMA StartedHistory ==
  ASSUME NEW j, JournalOK(j), NEW r \in [Activity -> Nat], History(j, r), NEW a \in Activity,
         j.act[a] \in {"planned", "authorized"}, j.turn[a.cmd] = "active",
         \A b \in Activity : b.cmd = a.cmd /\ j.act[b] = "started" => b = a,
         Visible(a) => j.answers[a.cmd][a.call] = 0
  PROVE  History(Marked(j, a, "started"), r) /\ Stands(j, Marked(j, a, "started"))
<1> DEFINE i == Marked(j, a, "started")
<1>1. i.turn = j.turn /\ i.answers = j.answers /\ i.act = [j.act EXCEPT ![a] = "started"]
  BY MarkedFields DEF Status
<1>2. \A b \in Activity : i.act[b] = IF b = a THEN "started" ELSE j.act[b]
  BY <1>1 DEF JournalOK
<1> HIDE DEF i
<1>3. \A b \in Activity :
       /\ r[b] <= 1
       /\ r[b] > 0 => i.act[b] \in {"started", "succeeded", "failed", "uncertain"}
       /\ i.act[b] = "succeeded" => r[b] > 0
       /\ i.act[b] # "none" => i.turn[b.cmd] # "none"
       /\ i.act[b] = "started" => i.turn[b.cmd] = "active"
       /\ Visible(b) /\ i.act[b] = "started" => i.answers[b.cmd][b.call] = 0
       /\ Visible(b) /\ r[b] > 0 => i.act[b] = "started" \/ i.answers[b.cmd][b.call] = 1
  BY <1>1, <1>2 DEF History
<1>4. \A b, d \in Activity : Visible(b) /\ Visible(d) /\ b.cmd = d.cmd /\ b.call = d.call =>
       /\ i.act[b] = "started" /\ i.act[d] = "started" => b = d
       /\ r[b] > 0 /\ r[d] > 0 => b = d
  BY <1>2 DEF History
<1>5. \A c \in Cmd, k \in Call :
       /\ i.answers[c][k] <= 1
       /\ i.answers[c][k] > 0 => \E b \in Activity : b.cmd = c /\ b.call = k /\ i.act[b] # "none"
  BY <1>1, <1>2 DEF History
<1>6. Stands(j, i)
  BY <1>1, <1>2 DEF Stands, Ended
<1> QED
  BY <1>3, <1>4, <1>5, <1>6 DEF History, i

\* The end of an activity, with a result when the call still waits for one.
LEMMA EndedHistory ==
  ASSUME NEW j, JournalOK(j), NEW r \in [Activity -> Nat], History(j, r), NEW a \in Activity,
         NEW status \in Ended, NEW visible \in BOOLEAN,
         j.act[a] \notin Ended, j.turn[a.cmd] = "active",
         status = "succeeded" => r[a] > 0,
         status \in {"denied", "cancelled", "interrupted_no_effect"} => r[a] = 0,
         Visible(a) /\ r[a] > 0 => visible,
         visible => /\ a.kind # "provider" /\ j.answers[a.cmd][a.call] = 0
                    /\ \A b \in Activity : b.cmd = a.cmd /\ j.act[b] = "started" => b = a
  PROVE  LET i == MarkedAnswered(j, a, status, visible) IN History(i, r) /\ Stands(j, i)
<1> DEFINE i == MarkedAnswered(j, a, status, visible)
           marked == Marked(j, a, status)
<1>1. /\ i.turn = j.turn /\ i.act = [j.act EXCEPT ![a] = status]
      /\ \A c \in Cmd, k \in Call :
           i.answers[c][k] = IF visible /\ c = a.cmd /\ k = a.call THEN 1 ELSE j.answers[c][k]
  <2>1. /\ JournalOK(marked) /\ marked.turn = j.turn /\ marked.answers = j.answers
        /\ marked.act = [j.act EXCEPT ![a] = status]
    <3>1. status \in Status
      BY DEF Status
    <3> QED
      BY <3>1, MarkedTyped, MarkedFields
  <2>2. i = IF visible THEN Answered(marked, a) ELSE marked
    BY DEF MarkedAnswered
  <2> HIDE DEF i, marked
  <2>3. CASE visible
    <3>1. a.kind # "provider" /\ j.answers[a.cmd][a.call] = 0 /\ i = Answered(marked, a)
      BY <2>2, <2>3
    <3> QED
      BY <2>1, <2>3, <3>1, AnsweredFields
  <2>4. CASE ~ visible
    BY <2>1, <2>2, <2>4
  <2> QED
    BY <2>3, <2>4
<1>2. \A b \in Activity : i.act[b] = IF b = a THEN status ELSE j.act[b]
  BY <1>1 DEF JournalOK
<1>3. \A c \in Cmd, k \in Call :
        i.answers[c][k] = IF visible /\ c = a.cmd /\ k = a.call THEN 1 ELSE j.answers[c][k]
  BY <1>1
<1> HIDE DEF i
<1>4. \A b \in Activity : b.cmd \in Cmd /\ (Visible(b) => b.call \in Call)
  BY ActivityShape DEF Visible
<1>5. status # "started" /\ status # "none"
  BY DEF Ended
<1>6. ASSUME NEW b \in Activity
      PROVE  /\ r[b] <= 1
             /\ r[b] > 0 => i.act[b] \in {"started", "succeeded", "failed", "uncertain"}
             /\ i.act[b] = "succeeded" => r[b] > 0
             /\ i.act[b] # "none" => i.turn[b.cmd] # "none"
             /\ i.act[b] = "started" => i.turn[b.cmd] = "active"
  BY <1>1, <1>2, <1>5 DEF History, Ended
<1>7. ASSUME NEW b \in Activity, Visible(b)
      PROVE  /\ i.act[b] = "started" => i.answers[b.cmd][b.call] = 0
             /\ r[b] > 0 => i.act[b] = "started" \/ i.answers[b.cmd][b.call] = 1
  <2>1. /\ j.act[b] = "started" => j.answers[b.cmd][b.call] = 0
        /\ r[b] > 0 => j.act[b] = "started" \/ j.answers[b.cmd][b.call] = 1
    BY <1>7 DEF History
  <2>2. i.answers[b.cmd][b.call] =
          IF visible /\ b.cmd = a.cmd /\ b.call = a.call THEN 1 ELSE j.answers[b.cmd][b.call]
    BY <1>3, <1>4, <1>7
  <2>3. CASE b = a
    BY <1>2, <1>5, <1>7, <2>1, <2>2, <2>3
  <2>4. CASE b # a
    BY <1>2, <2>1, <2>2, <2>4
  <2> QED
    BY <2>3, <2>4
<1>8. \A b, d \in Activity : Visible(b) /\ Visible(d) /\ b.cmd = d.cmd /\ b.call = d.call =>
       /\ i.act[b] = "started" /\ i.act[d] = "started" => b = d
       /\ r[b] > 0 /\ r[d] > 0 => b = d
  BY <1>2, <1>5 DEF History
<1>9. ASSUME NEW c \in Cmd, NEW k \in Call
      PROVE  /\ i.answers[c][k] <= 1
             /\ i.answers[c][k] > 0 => \E b \in Activity : b.cmd = c /\ b.call = k /\ i.act[b] # "none"
  <2>1. CASE visible /\ c = a.cmd /\ k = a.call
    BY <1>2, <1>3, <1>5, <2>1
  <2>2. CASE ~ (visible /\ c = a.cmd /\ k = a.call)
    <3>1. i.answers[c][k] = j.answers[c][k]
      BY <1>3, <2>2
    <3>2. \A b \in Activity : j.act[b] # "none" => i.act[b] # "none"
      BY <1>2, <1>5
    <3> QED
      BY <3>1, <3>2 DEF History
  <2> QED
    BY <2>1, <2>2
<1>10. Stands(j, i)
  BY <1>1, <1>2 DEF Stands
<1> QED
  BY <1>6, <1>7, <1>8, <1>9, <1>10 DEF History, i

\* turn.accepted, and the end of a turn that leaves nothing started.
LEMMA TurnHistory ==
  ASSUME NEW j, JournalOK(j), NEW r \in [Activity -> Nat], History(j, r), NEW c \in Cmd,
         NEW status \in {"active"} \cup TurnEnded,
         j.turn[c] \notin TurnEnded,
         status # "active" => \A b \in Activity : b.cmd = c => j.act[b] # "started"
  PROVE  LET i == TurnIs(j, c, status) IN
           /\ History(i, r) /\ Stands(j, i) /\ i.act = j.act /\ i.answers = j.answers
           /\ i.turn = [j.turn EXCEPT ![c] = status]
<1> DEFINE i == TurnIs(j, c, status)
<1>1. i.act = j.act /\ i.answers = j.answers /\ i.turn = [j.turn EXCEPT ![c] = status]
  BY DEF JournalOK, TurnIs
<1> HIDE DEF i
<1>2. \A d \in Cmd : i.turn[d] = IF d = c THEN status ELSE j.turn[d]
  BY <1>1 DEF JournalOK
<1>3. \A b \in Activity : b.cmd \in Cmd
  BY ActivityShape
<1>4. \A b \in Activity :
        /\ i.act[b] # "none" => i.turn[b.cmd] # "none"
        /\ i.act[b] = "started" => i.turn[b.cmd] = "active"
  BY <1>1, <1>2, <1>3 DEF History, TurnEnded
<1>5. History(i, r)
  BY <1>1, <1>4 DEF History
<1>6. Stands(j, i)
  BY <1>1, <1>2 DEF Stands
<1> QED
  BY <1>1, <1>5, <1>6 DEF i

\* The results a recovery adds to a call are those of its started activity, if any.
LEMMA AddedOnce ==
  ASSUME History(journal, ran), NEW c \in Cmd, NEW k \in Call
  PROVE  LET added == Cardinality({a \in StartedActivities : Visible(a) /\ a.cmd = c /\ a.call = k})
         IN  /\ added \in {0, 1}
             /\ added = 1 => \E a \in StartedActivities : Visible(a) /\ a.cmd = c /\ a.call = k
             /\ \A a \in StartedActivities : Visible(a) /\ a.cmd = c /\ a.call = k => added = 1
<1> DEFINE S == {a \in StartedActivities : Visible(a) /\ a.cmd = c /\ a.call = k}
<1>1. \A a, b \in S : a = b
  BY DEF History, StartedActivities
<1>2. CASE S = {}
  <2>1. Cardinality(S) = 0
    BY <1>2, FS_EmptySet
  <2> QED
    BY <1>2, <2>1
<1>3. CASE S # {}
  <2>1. PICK a \in S : TRUE
    BY <1>3
  <2>2. S = {a}
    BY <1>1, <2>1
  <2> HIDE DEF S
  <2>3. Cardinality(S) = 1
    BY <2>2, FS_Singleton
  <2> QED
    BY <2>1, <2>3 DEF S
<1> QED
  BY <1>2, <1>3

\* A recovery ends everything that has started, and answers every call that waits.
LEMMA SettledHistory ==
  ASSUME JournalOK(journal), ran \in [Activity -> Nat], History(journal, ran), NEW c \in Cmd,
         journal.turn[c] = "active", Inv
  PROVE  History(Settled(c), ran) /\ Stands(journal, Settled(c))
<1> DEFINE i == Settled(c)
           acts == [a \in Activity |-> IF a \in StartedActivities THEN "uncertain" ELSE journal.act[a]]
           added(d, k) == Cardinality({a \in StartedActivities : Visible(a) /\ a.cmd = d /\ a.call = k})
           answers == [d \in Cmd |-> [k \in Call |-> journal.answers[d][k] + added(d, k)]]
           turns == [journal.turn EXCEPT ![c] = "interrupted"]
<1>1. i = [turn |-> turns, act |-> acts, answers |-> answers, torn |-> journal.torn]
  <2>1. i = [journal EXCEPT !.act = acts, !.answers = answers, !.turn[c] = "interrupted"]
    BY DEF Settled
  <2> HIDE DEF acts, answers
  <2> QED
    BY <2>1 DEF JournalOK
<1>2. \A a \in Activity : i.act[a] = IF journal.act[a] = "started" THEN "uncertain" ELSE journal.act[a]
  BY <1>1 DEF StartedActivities
<1>3. \A d \in Cmd : i.turn[d] = IF d = c THEN "interrupted" ELSE journal.turn[d]
  BY <1>1 DEF JournalOK
<1>4. \A d \in Cmd, k \in Call : i.answers[d][k] = journal.answers[d][k] + added(d, k)
  BY <1>1
<1> HIDE DEF i
<1>5. \A d \in Cmd, k \in Call :
        /\ added(d, k) \in {0, 1}
        /\ added(d, k) = 1 => \E a \in StartedActivities : Visible(a) /\ a.cmd = d /\ a.call = k
        /\ \A a \in StartedActivities : Visible(a) /\ a.cmd = d /\ a.call = k => added(d, k) = 1
  BY AddedOnce
<1> HIDE DEF acts, answers, turns, added
<1>6. \A b \in Activity : b.cmd \in Cmd /\ (Visible(b) => b.call \in Call)
  BY ActivityShape DEF Visible
<1>7. \A d \in Cmd, k \in Call : journal.answers[d][k] \in Nat
  BY DEF JournalOK
<1>8. \A a \in Activity :
       /\ ran[a] <= 1
       /\ ran[a] > 0 => i.act[a] \in {"started", "succeeded", "failed", "uncertain"}
       /\ i.act[a] = "succeeded" => ran[a] > 0
       /\ i.act[a] # "none" => i.turn[a.cmd] # "none"
       /\ i.act[a] # "started"
  BY <1>2, <1>3, <1>6 DEF History
<1>9. ASSUME NEW d \in Cmd, NEW k \in Call
      PROVE  /\ i.answers[d][k] <= 1
             /\ i.answers[d][k] > 0 => \E a \in Activity : a.cmd = d /\ a.call = k /\ i.act[a] # "none"
  <2>1. CASE added(d, k) = 1
    <3>1. PICK a \in StartedActivities : Visible(a) /\ a.cmd = d /\ a.call = k
      BY <1>5, <2>1
    <3>2. a \in Activity /\ journal.act[a] = "started" /\ journal.answers[d][k] = 0
      BY <3>1 DEF StartedActivities, History
    <3>3. i.answers[d][k] = 1 /\ i.act[a] = "uncertain"
      BY <1>2, <1>4, <2>1, <3>2
    <3> QED
      BY <3>1, <3>2, <3>3
  <2>2. CASE added(d, k) = 0
    <3>1. i.answers[d][k] = journal.answers[d][k]
      BY <1>4, <1>7, <2>2
    <3>2. \A a \in Activity : journal.act[a] # "none" => i.act[a] # "none"
      BY <1>2
    <3> QED
      BY <3>1, <3>2 DEF History
  <2> QED
    BY <1>5, <2>1, <2>2
<1>10. ASSUME NEW a \in Activity, Visible(a), ran[a] > 0
       PROVE  i.answers[a.cmd][a.call] = 1
  <2>1. a.cmd \in Cmd /\ a.call \in Call
    BY <1>6, <1>10
  <2>2. CASE journal.act[a] = "started"
    <3>1. journal.answers[a.cmd][a.call] = 0 /\ a \in StartedActivities
      BY <1>10, <2>2 DEF History, StartedActivities
    <3>2. added(a.cmd, a.call) = 1
      BY <1>5, <1>10, <2>1, <3>1
    <3> QED
      BY <1>4, <2>1, <3>1, <3>2
  <2>3. CASE journal.act[a] # "started"
    <3>1. journal.answers[a.cmd][a.call] = 1
      BY <1>10, <2>3 DEF History
    <3>2. i.answers[a.cmd][a.call] <= 1 /\ i.answers[a.cmd][a.call] = 1 + added(a.cmd, a.call)
          /\ added(a.cmd, a.call) \in {0, 1}
      BY <1>4, <1>5, <1>9, <2>1, <3>1
    <3> QED
      BY <3>2
  <2> QED
    BY <2>2, <2>3
<1>11. \A a, b \in Activity : Visible(a) /\ Visible(b) /\ a.cmd = b.cmd /\ a.call = b.call =>
        (ran[a] > 0 /\ ran[b] > 0 => a = b)
  BY DEF History
<1>12. History(i, ran)
  BY <1>8, <1>9, <1>10, <1>11 DEF History
<1>13. Stands(journal, i)
  BY <1>2, <1>3 DEF Stands, TurnEnded, Ended
<1> QED
  BY <1>12, <1>13 DEF i

\* An effect behind a durable start, the first of its activity and its call.
LEMMA DispatchedHistory ==
  ASSUME NEW j, NEW r \in [Activity -> Nat], History(j, r), NEW a \in Activity,
         j.act[a] = "started", r[a] = 0,
         Visible(a) => Waiting(j, r, a.cmd, a.call, a)
  PROVE  History(j, [r EXCEPT ![a] = @ + 1])
<1> DEFINE s == [r EXCEPT ![a] = @ + 1]
<1>1. \A b \in Activity : s[b] = IF b = a THEN 1 ELSE r[b]
  OBVIOUS
<1> HIDE DEF s
<1>2. \A b \in Activity :
       /\ s[b] <= 1
       /\ s[b] > 0 => j.act[b] \in {"started", "succeeded", "failed", "uncertain"}
       /\ j.act[b] = "succeeded" => s[b] > 0
       /\ Visible(b) /\ s[b] > 0 => j.act[b] = "started" \/ j.answers[b.cmd][b.call] = 1
  BY <1>1 DEF History
<1>3. \A b, d \in Activity : Visible(b) /\ Visible(d) /\ b.cmd = d.cmd /\ b.call = d.call =>
        (s[b] > 0 /\ s[d] > 0 => b = d)
  BY <1>1 DEF History, Waiting
<1>4. History(j, s)
  BY <1>2, <1>3 DEF History
<1> QED
  BY <1>4 DEF s

-----------------------------------------------------------------------------
\* How the steps of one operation keep the invariant.

\* The step of p keeps it when p's part is shown and the others lose nothing.
LEMMA StepKeeps ==
  ASSUME EffectInv, Inv', NEW p \in Proc, me' = [me EXCEPT ![p] = me'[p]],
         History(journal', ran'), Local(me'[p]), Fenced(p)', Knows(p)',
         Owns(p)' => Agree(journal', ran', me'[p]),
         \A q \in Proc \ {p} :
           /\ Owns(q)' => Owns(q) /\ ~ Owns(p)' /\ Agree(journal', ran', me[q])
           /\ q \notin cancelled' => q \notin cancelled
           /\ lock = q => lock' = q
           /\ drift'[q] = "none" /\ me[q].pc # "idle" => drift[q] = "none" /\ journal'.turn = journal.turn
  PROVE  EffectInv'
<1>1. \A q \in Proc \ {p} : me'[q] = me[q]
  BY DEF EffectInv, Inv, TypeOK
<1>2. ASSUME NEW q \in Proc PROVE Local(me'[q]) /\ Fenced(q)' /\ Knows(q)'
  <2>1. CASE q = p
    BY <2>1
  <2>2. CASE q # p
    <3>1. Local(me'[q])
      BY <1>1, <2>2 DEF EffectInv
    <3>2. Fenced(q)'
      BY <1>1, <2>2 DEF EffectInv, Fenced
    <3>3. Knows(q)'
      BY <1>1, <2>2 DEF EffectInv, Knows
    <3> QED
      BY <3>1, <3>2, <3>3
  <2> QED
    BY <2>1, <2>2
<1>3. ASSUME NEW q \in Proc, Owns(q)' PROVE Agree(journal', ran', me'[q])
  BY <1>1, <1>3
<1>4. ASSUME NEW q \in Proc, NEW s \in Proc, Owns(q)', Owns(s)' PROVE q = s
  BY <1>4 DEF EffectInv
<1> QED
  BY <1>2, <1>3, <1>4 DEF EffectInv

\* A step without a commit and without an effect.
LEMMA SilentKeeps ==
  ASSUME EffectInv, Inv', NEW p \in Proc, me' = [me EXCEPT ![p] = me'[p]],
         Same(journal, journal'), ran' = ran, Local(me'[p]), Fenced(p)', Knows(p)',
         Owns(p)' => Owns(p) /\ Agree(journal, ran, me'[p]),
         \A q \in Proc \ {p} :
           /\ drift'[q] = drift[q] \/ drift'[q] = "other" \/ me[q].pc = "idle"
           /\ q \notin cancelled' => q \notin cancelled
           /\ lock = q => lock' = q
  PROVE  Keeps
<1>1. History(journal', ran') /\ Stands(journal, journal')
      /\ (Owns(p)' => Agree(journal', ran', me'[p]))
  BY SameHistory DEF EffectInv
<1>2. journal'.turn = journal.turn
  BY DEF Same
<1>3. ASSUME NEW q \in Proc \ {p}, Owns(q)'
      PROVE  Owns(q) /\ ~ Owns(p)' /\ Agree(journal', ran', me[q])
  <2>1. me'[q] = me[q]
    BY DEF EffectInv, Inv, TypeOK
  <2>2. Owns(q)
    BY <1>3, <2>1 DEF Owns, Accepted, InTurn
  <2>3. ~ Owns(p)'
    BY <2>2 DEF EffectInv
  <2>4. Agree(journal, ran, me[q])
    BY <2>2 DEF EffectInv
  <2> QED
    BY <2>2, <2>3, <2>4, SameHistory
<1>4. EffectInv'
  BY <1>1, <1>2, <1>3, StepKeeps
<1> QED
  BY <1>1, <1>4 DEF Keeps

\* Goto: the journal agrees with the new operation if it agreed with the old one.
LEMMA GotoKeeps ==
  ASSUME EffectInv, Inv', NEW p \in Proc, NEW m, Goto(p, m), Local(m),
         m.pc \notin {"accept", "failing", "r-storage", "r-settle"},
         m.pc = "lease" => journal.turn[m.cmd] = "none",
         m.pc \in Accepted => /\ me[p].pc \in Accepted \ {"failing"}
                              /\ Owns(p) => Agree(journal, ran, m)
  PROVE  Keeps
<1>1. me' = [me EXCEPT ![p] = m] /\ UNCHANGED <<journal, ran, lock, drift, cancelled, mishaps>>
  BY DEF Goto
<1>2. me'[p] = m /\ me' = [me EXCEPT ![p] = me'[p]]
  BY <1>1 DEF EffectInv, Inv, TypeOK
<1>3. Owns(p)' => Owns(p) /\ Agree(journal, ran, me'[p])
  BY <1>1, <1>2 DEF Owns
<1>4. Fenced(p)'
  BY <1>1, <1>2 DEF EffectInv, Fenced, NeedsLock
<1>5. Knows(p)'
  BY <1>1, <1>2 DEF Knows
<1> QED
  BY <1>1, <1>2, <1>3, <1>4, <1>5, SilentKeeps DEF Same

\* The fields of the operations a turn fails and ends with.
LEMMA FailingFields ==
  ASSUME NEW m \in Op, NEW cause \in Ended
  PROVE  /\ Failing(m, cause).pc = "failing" /\ Failing(m, cause).cmd = m.cmd
         /\ Failing(m, cause).active = m.active /\ Failing(m, cause).started = m.started
         /\ Failing(m, cause).dispatched = m.dispatched /\ Failing(m, cause).requires = m.requires
         /\ Failing(m, cause).status = cause
<1>1. NoOp \in Op
  BY NoOpTyped
<1> QED
  BY <1>1 DEF Failing, Op

LEMMA FailingOp ==
  ASSUME NEW m \in Op, NEW cause \in Ended
  PROVE  Failing(m, cause) \in Op
<1> DEFINE F(n) == [n EXCEPT !.pc = "failing", !.cmd = m.cmd, !.active = m.active,
                             !.started = m.started, !.dispatched = m.dispatched,
                             !.requires = m.requires, !.status = cause]
<1>1. ASSUME NEW n \in Op
      PROVE  F(n) \in Op
  BY DEF Op, Steps
<1>2. Failing(m, cause) = F(NoOp)
  BY DEF Failing
<1> HIDE DEF F
<1> QED
  BY <1>1, <1>2, NoOpTyped

LEMMA LeavingFields ==
  /\ NoOp \in Op /\ NoOp.pc = "idle" /\ NoOp.active = None /\ NoOp.call = None /\ NoOp.cmd = None
  /\ NoOp.todo = {} /\ Leaving \in Op /\ Leaving.pc = "leaving" /\ Leaving.active = None
  /\ Leaving.call = None /\ Leaving.cmd = None
<1>1. NoOp \in Op /\ NoOp.active = None /\ NoOp.call = None /\ NoOp.cmd = None
  BY NoOpTyped DEF NoOp
<1>2. Leaving = To(NoOp, "leaving")
  BY DEF Leaving, To
<1> QED
  BY <1>1, <1>2, NoOpTyped, ToTyped DEF Steps

\* An idle or a leaving operation owes nothing.
LEMMA OutsideLocal ==
  ASSUME NEW m, m.pc \in {"idle", "leaving", "r-lease", "r-storage", "r-settle"},
         m.pc \in {"idle", "r-lease"} => m.cmd = None
  PROVE  Local(m) /\ m.pc \notin Accepted
BY DEF Local, InTurn, Opening, WithActivity, Accepted

\* What terminalizeTurnFailure finds is what the failing step has left.
LEMMA FailingLocal ==
  ASSUME NEW m \in Op, Tidy(m), NEW cause \in Ended
  PROVE  /\ Local(Failing(m, cause)) /\ Failing(m, cause).pc = "failing"
         /\ \A j, r : Traced(j, r, m) => Agree(j, r, Failing(m, cause))
<1> DEFINE n == Failing(m, cause)
<1>1. /\ n.pc = "failing" /\ n.cmd = m.cmd /\ n.active = m.active /\ n.started = m.started
      /\ n.dispatched = m.dispatched /\ n.requires = m.requires
  BY FailingFields
<1> HIDE DEF n
<1>2. Local(n)
  BY <1>1 DEF Local, Tidy, InTurn, Opening, WithActivity
<1>3. \A j, r : Traced(j, r, m) => Agree(j, r, n)
  BY <1>1 DEF Traced, Agree
<1> QED
  BY <1>1, <1>2, <1>3 DEF n

\* Whoever may append is alone: behind its commit no other operation owns the journal.
LEMMA Alone ==
  ASSUME EffectInv, NEW p \in Proc, NEW detached \in BOOLEAN, Appendable(p, detached),
         \/ me[p].pc \in Accepted
         \/ ~ detached /\ NeedsLock(me[p]),
         NEW q \in Proc, q # p, me[q].pc \in Accepted \ {"failing"}
  PROVE  q \in cancelled
<1> SUFFICES ASSUME q \notin cancelled PROVE FALSE
  OBVIOUS
<1>1. Owns(q) /\ lock = q
  BY DEF Owns, EffectInv, Fenced, NeedsLock
<1>2. CASE me[p].pc \in Accepted
  <2>1. Owns(p)
    BY <1>2 DEF Appendable, Owns
  <2> QED
    BY <1>1, <2>1 DEF EffectInv
<1>3. CASE ~ detached /\ NeedsLock(me[p])
  <2>1. p \notin cancelled
    BY <1>3 DEF Appendable
  <2>2. lock = p
    BY <1>3, <2>1 DEF EffectInv, Fenced
  <2> QED
    BY <1>1, <2>2
<1> QED
  BY <1>2, <1>3

\* Append: the history of the journal that is proposed, and the operation behind
\* the commit, are all that is to be shown.
LEMMA AppendKeeps ==
  ASSUME EffectInv, Inv', NEW p \in Proc, NEW detached \in BOOLEAN, NEW j, NEW before, NEW after,
         Append(p, detached, j, before, after),
         \/ me[p].pc \in Accepted
         \/ ~ detached /\ NeedsLock(me[p]) /\ me[p].pc \in {"accept", "r-settle"},
         before \in Op, before.pc = me[p].pc, me[p].pc \in Accepted => Tidy(before),
         Owns(p) => Traced(journal, ran, before),
         after \in Op, Local(after), after.pc \in Accepted \cup {"leaving"},
         Appendable(p, detached) =>
           /\ History(j, ran) /\ Stands(journal, j)
           /\ after.pc \in Accepted => Agree(j, ran, after)
  PROVE  Keeps
<1>1. UNCHANGED <<ran, lock, cancelled>> /\ me \in [Proc -> Op] /\ NeedsLock(me[p])
  BY DEF Append, EffectInv, Inv, TypeOK, NeedsLock
<1>2. ASSUME NEW cause \in Ended, Failed(p, before, cause)
      PROVE  /\ me' = [me EXCEPT ![p] = me'[p]] /\ Local(me'[p])
             /\ me'[p].pc \in {"failing", "leaving"}
             /\ me'[p].pc = "failing" => /\ me[p].pc \in Accepted
                                         /\ Owns(p) => Agree(journal, ran, me'[p])
  <2>1. CASE before.pc \in {"accept", "failing", "r-settle"}
    <3>1. me' = [me EXCEPT ![p] = Leaving]
      BY <1>2, <2>1 DEF Failed
    <3> QED
      BY <1>1, <3>1, LeavingFields, OutsideLocal
  <2>2. CASE before.pc \notin {"accept", "failing", "r-settle"}
    <3>1. me' = [me EXCEPT ![p] = Failing(before, cause)]
      BY <1>2, <2>2 DEF Failed
    <3>2. me[p].pc \in Accepted
      BY <2>2
    <3> QED
      BY <1>1, <3>1, <3>2, FailingLocal
  <2> QED
    BY <2>1, <2>2
<1>3. ASSUME me' = [me EXCEPT ![p] = me'[p]], Local(me'[p]), me'[p].pc \in Accepted \cup {"leaving"},
             Same(journal, journal'), drift' = drift,
             me'[p].pc \in Accepted => /\ me[p].pc \in Accepted /\ me'[p].pc = "failing"
                                       /\ Owns(p) => Agree(journal, ran, me'[p])
      PROVE  Keeps
  <2>1. Owns(p)' => Owns(p) /\ Agree(journal, ran, me'[p])
    BY <1>3 DEF Owns
  <2>2. Fenced(p)'
    BY <1>1, <1>3 DEF EffectInv, Fenced, NeedsLock, Accepted, InTurn
  <2>3. Knows(p)'
    BY <1>3 DEF Knows, Accepted, InTurn
  <2> QED
    BY <1>1, <1>3, <2>1, <2>2, <2>3, SilentKeeps
<1>4. ASSUME me' = [me EXCEPT ![p] = me'[p]], Local(me'[p]), me'[p].pc \in Accepted \cup {"leaving"},
             journal' = j, Appendable(p, detached), \A q \in Proc \ {p} : me[q].pc # "idle" => drift'[q] = "other",
             Owns(p)' => Agree(j, ran, me'[p])
      PROVE  Keeps
  <2>1. Fenced(p)'
    BY <1>1, <1>4 DEF EffectInv, Fenced, NeedsLock, Accepted, InTurn
  <2>2. Knows(p)'
    BY <1>4 DEF Knows, Accepted, InTurn
  <2>3. ASSUME NEW q \in Proc \ {p} PROVE ~ Owns(q)'
    <3> SUFFICES ASSUME Owns(q)' PROVE FALSE
      OBVIOUS
    <3>1. me'[q] = me[q]
      BY <1>1, <1>4
    <3>2. me[q].pc \in Accepted /\ me[q].pc # "idle"
      BY <3>1 DEF Owns, Accepted, InTurn
    <3>3. drift'[q] = "other"
      BY <1>4, <3>2
    <3>4. me[q].pc # "failing" /\ q \notin cancelled
      BY <1>1, <3>1, <3>3 DEF Owns
    <3> QED
      BY <1>4, <3>2, <3>4, Alone
  <2>4. History(journal', ran') /\ Stands(journal, journal') /\ (Owns(p)' => Agree(journal', ran', me'[p]))
    BY <1>1, <1>4
  <2>5. \A q \in Proc \ {p} :
           /\ Owns(q)' => Owns(q) /\ ~ Owns(p)' /\ Agree(journal', ran', me[q])
           /\ q \notin cancelled' => q \notin cancelled
           /\ lock = q => lock' = q
           /\ drift'[q] = "none" /\ me[q].pc # "idle" => drift[q] = "none" /\ journal'.turn = journal.turn
    BY <1>1, <1>4, <2>3
  <2>6. EffectInv'
    BY <1>4, <2>1, <2>2, <2>4, <2>5, StepKeeps
  <2> QED
    BY <2>4, <2>6 DEF Keeps
<1>5. CASE /\ Appendable(p, detached) /\ journal' = j /\ drift' = Overtaken(p)
           /\ me' = [me EXCEPT ![p] = after] /\ UNCHANGED mishaps
  <2>1. me'[p] = after
    BY <1>1, <1>5
  <2>2. \A q \in Proc \ {p} : me[q].pc # "idle" => drift'[q] = "other"
    BY <1>5, OvertakenTyped
  <2>3. Owns(p)' => Agree(j, ran, me'[p])
    BY <1>5, <2>1 DEF Owns
  <2> QED
    BY <1>4, <1>5, <2>1, <2>2, <2>3
<1>6. CASE /\ ~ Appendable(p, detached) /\ Failed(p, before, Cause(p, detached))
           /\ UNCHANGED <<journal, drift, mishaps>>
  <2>1. Same(journal, journal')
    BY <1>6 DEF Same
  <2>2. me'[p].pc \in Accepted => me'[p].pc = "failing"
    BY <1>2, <1>6, CauseTyped DEF Accepted, InTurn
  <2>3. me'[p].pc \in Accepted \cup {"leaving"}
    BY <1>2, <1>6, CauseTyped DEF Accepted, InTurn, Steps
  <2> QED
    BY <1>2, <1>3, <1>6, <2>1, <2>2, <2>3, CauseTyped
<1>7. CASE /\ Appendable(p, detached) /\ Mishap /\ Failed(p, before, "failed")
           /\ \E torn \in BOOLEAN : journal' = [journal EXCEPT !.torn = torn] /\ UNCHANGED drift
  <2>1. Same(journal, journal')
    BY <1>7 DEF Same, EffectInv, Inv, TypeOK
  <2>2. "failed" \in Ended
    BY DEF Ended
  <2>3. me'[p].pc \in Accepted => me'[p].pc = "failing"
    BY <1>2, <1>7, <2>2 DEF Accepted, InTurn
  <2>4. me'[p].pc \in Accepted \cup {"leaving"}
    BY <1>2, <1>7, <2>2 DEF Accepted, InTurn, Steps
  <2> QED
    BY <1>2, <1>3, <1>7, <2>1, <2>2, <2>3, <2>4
<1>8. CASE /\ Appendable(p, detached) /\ Mishap /\ Failed(p, before, "failed")
           /\ journal' = j /\ drift' = [Overtaken(p) EXCEPT ![p] = "other"]
  <2>1. "failed" \in Ended
    BY DEF Ended
  <2>2. me'[p].pc \in Accepted \cup {"leaving"} /\ me'[p].pc \in {"failing", "leaving"}
    BY <1>2, <1>8, <2>1 DEF Accepted, InTurn, Steps
  <2>3. drift'[p] = "other" /\ \A q \in Proc \ {p} : me[q].pc # "idle" => drift'[q] = "other"
    BY <1>8, OvertakenTyped
  <2>4. ~ Owns(p)'
    BY <2>2, <2>3 DEF Owns, Accepted, InTurn
  <2> QED
    BY <1>2, <1>4, <1>8, <2>1, <2>2, <2>3, <2>4
<1> QED
  BY <1>5, <1>6, <1>7, <1>8 DEF Append

\* What is known of an operation that stands behind turn.accepted.
LEMMA AcceptedFacts ==
  ASSUME EffectInv, NEW p \in Proc, me[p].pc \in Accepted
  PROVE  /\ OpOK(me[p]) /\ me[p] \in Op /\ Local(me[p]) /\ Tidy(me[p]) /\ me[p].pc \in InTurn
         /\ me[p].cmd \in Cmd /\ JournalOK(journal) /\ ran \in [Activity -> Nat]
         /\ me[p].pc # "idle" /\ History(journal, ran)
         /\ \A detached \in BOOLEAN : Appendable(p, detached) => Owns(p)
         /\ Owns(p) => Agree(journal, ran, me[p]) /\ Traced(journal, ran, me[p])
<1>1. me[p].pc \in InTurn /\ me[p].pc # "idle"
  BY DEF Accepted, InTurn
<1>2. OpOK(me[p]) /\ me[p] \in Op /\ me[p].cmd \in Cmd /\ JournalOK(journal)
  BY <1>1, OpFacts DEF EffectInv
<1>3. Local(me[p]) /\ Tidy(me[p]) /\ History(journal, ran) /\ ran \in [Activity -> Nat]
  BY <1>1 DEF EffectInv, Local, Inv, TypeOK
<1>4. \A detached \in BOOLEAN : Appendable(p, detached) => Owns(p)
  BY DEF Appendable, Owns
<1>5. Owns(p) => Agree(journal, ran, me[p]) /\ Traced(journal, ran, me[p])
  BY DEF EffectInv, Agree
<1> QED
  BY <1>1, <1>2, <1>3, <1>4, <1>5

\* An append in the middle of a turn.
LEMMA AppendOwned ==
  ASSUME EffectInv, Inv', NEW p \in Proc, me[p].pc \in Accepted, NEW detached \in BOOLEAN,
         NEW j, NEW after, Append(p, detached, j, me[p], after),
         after \in Op, Local(after), after.pc \in Accepted \cup {"leaving"},
         Agree(journal, ran, me[p]) =>
           /\ History(j, ran) /\ Stands(journal, j)
           /\ after.pc \in Accepted => Agree(j, ran, after)
  PROVE  Keeps
<1>1. me[p] \in Op /\ Tidy(me[p])
  BY AcceptedFacts
<1>2. Owns(p) => Traced(journal, ran, me[p])
  BY AcceptedFacts
<1>3. Appendable(p, detached) =>
           /\ History(j, ran) /\ Stands(journal, j)
           /\ after.pc \in Accepted => Agree(j, ran, after)
  BY AcceptedFacts
<1> QED
  BY <1>1, <1>2, <1>3, AppendKeeps

-----------------------------------------------------------------------------
\* The fields of an operation that moves on.
LEMMA ToFields ==
  ASSUME NEW m \in Op, NEW pc \in Steps
  PROVE  /\ To(m, pc) \in Op /\ To(m, pc).pc = pc /\ To(m, pc).cmd = m.cmd
         /\ To(m, pc).active = m.active /\ To(m, pc).attempt = m.attempt /\ To(m, pc).todo = m.todo
         /\ To(m, pc).call = m.call /\ To(m, pc).round = m.round /\ To(m, pc).started = m.started
         /\ To(m, pc).dispatched = m.dispatched /\ To(m, pc).requires = m.requires
         /\ To(m, pc).status = m.status
BY DEF To, Op

LEMMA ActivateFields ==
  ASSUME NEW m \in Op, NEW pc \in Steps, NEW a \in Activity \cup {None}
  PROVE  LET n == Activate(m, a, pc) IN
           /\ n \in Op /\ n.pc = pc /\ n.cmd = m.cmd /\ n.active = a /\ n.attempt = m.attempt
           /\ n.todo = m.todo /\ n.call = m.call /\ n.round = m.round
           /\ n.started = FALSE /\ n.dispatched = FALSE /\ n.requires = FALSE
BY DEF Activate, Op

LEMMA DeactivateFields ==
  ASSUME NEW m \in Op, NEW pc \in Steps
  PROVE  LET n == Deactivate(m, pc) IN
           /\ n \in Op /\ n.pc = pc /\ n.cmd = m.cmd /\ n.active = None /\ n.attempt = m.attempt
           /\ n.todo = m.todo /\ n.call = m.call /\ n.round = m.round
<1>1. None \in Activity \cup {None}
  OBVIOUS
<1> QED
  BY <1>1, ActivateFields DEF Deactivate

\* Nothing happens.
LEMMA StutterKeeps ==
  ASSUME EffectInv, Inv', UNCHANGED vars
  PROVE  Keeps
<1>1. UNCHANGED <<journal, ran, lock, me, drift, cancelled>>
  BY DEF vars
<1>2. History(journal, ran)'
  BY <1>1 DEF EffectInv
<1>3. \A p \in Proc : Local(me'[p]) /\ Fenced(p)' /\ Knows(p)'
  BY <1>1 DEF EffectInv, Fenced, Knows
<1>4. \A p \in Proc : Owns(p)' => Owns(p) /\ Agree(journal', ran', me'[p])
  BY <1>1 DEF EffectInv, Owns
<1>5. \A p, q \in Proc : Owns(p)' /\ Owns(q)' => p = q
  BY <1>4 DEF EffectInv
<1>6. EffectInv'
  BY <1>1, <1>2, <1>3, <1>4, <1>5 DEF EffectInv
<1> QED
  BY <1>1, <1>6 DEF Keeps, Stands

\* An operation ends, whether it returns or dies.
LEMMA ReturnKeeps ==
  ASSUME EffectInv, Inv', NEW p \in Proc, me' = [me EXCEPT ![p] = NoOp], ran' = ran,
         Same(journal, journal'), cancelled' = cancelled \ {p},
         \A q \in Proc \ {p} : drift'[q] = drift[q] /\ (lock = q => lock' = q)
  PROVE  Keeps
<1>1. me'[p] = NoOp /\ NoOp.pc = "idle" /\ NoOp.cmd = None
  BY LeavingFields DEF EffectInv, Inv, TypeOK
<1>2. Local(me'[p]) /\ ~ Owns(p)' /\ Fenced(p)' /\ Knows(p)'
  BY <1>1, OutsideLocal DEF Owns, Fenced, NeedsLock, Knows
<1> QED
  BY <1>1, <1>2, SilentKeeps

\* A command is looked up in the journal the caller has read.
LEMMA SubmitKeeps ==
  ASSUME EffectInv, Inv', NEW p \in Proc, NEW c \in Cmd, Submit(p, c)
  PROVE  Keeps
<1> DEFINE n == [NoOp EXCEPT !.pc = "lease", !.cmd = c]
<1>1. CASE journal.turn[c] = "none" /\ Goto(p, n)
  <2>1. n.pc = "lease" /\ n.cmd = c /\ n.active = None /\ n.call = None
    BY LeavingFields DEF Op
  <2> HIDE DEF n
  <2>2. Local(n) /\ n.pc \notin Accepted
    BY <2>1 DEF Local, Tidy, Accepted, WithActivity
  <2> QED
    BY <1>1, <2>1, <2>2, GotoKeeps
<1>2. CASE UNCHANGED vars
  BY <1>2, StutterKeeps
<1> QED
  BY <1>1, <1>2 DEF Submit

\* The lock is taken at a head at which the turn of the command does not exist.
LEMMA AcquireTurnLeaseKeeps ==
  ASSUME EffectInv, Inv', NEW p \in Proc, AcquireTurnLease(p)
  PROVE  Keeps
<1>1. me[p].pc = "lease" /\ UNCHANGED <<journal, ran, mishaps>> /\ me \in [Proc -> Op]
  BY DEF AcquireTurnLease, EffectInv, Inv, TypeOK
<1>2. CASE /\ lock = None /\ drift[p] = "none" /\ lock' = p
           /\ me' = [me EXCEPT ![p].pc = "accept"] /\ UNCHANGED <<drift, cancelled>>
  <2>1. /\ me' = [me EXCEPT ![p] = me'[p]] /\ me'[p].pc = "accept" /\ me'[p].cmd = me[p].cmd
        /\ me'[p].active = me[p].active /\ me'[p].call = me[p].call
    BY <1>1, <1>2 DEF Op
  <2>2. Local(me'[p])
    <3>1. Local(me[p])
      BY DEF EffectInv
    <3> QED
      BY <1>1, <2>1, <3>1 DEF Local, Tidy, InTurn, Steps, WithActivity, Opening
  <2>3. ~ Owns(p)' /\ Fenced(p)'
    BY <1>2, <2>1 DEF Owns, Accepted, Fenced
  <2>4. Knows(p)'
    BY <1>1, <1>2, <2>1 DEF EffectInv, Knows
  <2>5. \A q \in Proc \ {p} : lock # q
    BY <1>2, NamesAssumption
  <2> QED
    BY <1>1, <1>2, <2>1, <2>2, <2>3, <2>4, <2>5, SilentKeeps DEF Same
<1>3. CASE Return(p) /\ UNCHANGED lock
  <2>1. \A q \in Proc \ {p} : drift'[q] = drift[q]
    BY <1>3 DEF Return, EffectInv, Inv, TypeOK
  <2> QED
    BY <1>1, <1>3, <2>1, ReturnKeeps DEF Return, Same
<1> QED
  BY <1>2, <1>3 DEF AcquireTurnLease

\* The turn starts with an empty history.
LEMMA AcceptTurnKeeps ==
  ASSUME EffectInv, Inv', NEW p \in Proc, AcceptTurn(p)
  PROVE  Keeps
<1> DEFINE m == me[p]
           j == TurnIs(journal, m.cmd, "active")
           n == To(m, "freeze")
<1>1. m.pc = "accept" /\ Append(p, FALSE, j, m, n)
  BY DEF AcceptTurn
<1>2. m \in Op /\ m.cmd \in Cmd /\ JournalOK(journal) /\ History(journal, ran) /\ Local(m)
      /\ ran \in [Activity -> Nat] /\ m.todo = {}
  BY <1>1, OpFacts DEF EffectInv, Inv, TypeOK, OpOK, InTurn, Steps, Opening
<1>3. m.active = None /\ m.call = None
  BY <1>1, <1>2 DEF Local, InTurn, Steps, WithActivity, Opening
<1>4. NeedsLock(m) /\ m.pc \notin Accepted
  BY <1>1 DEF NeedsLock, Accepted
<1>5. /\ n \in Op /\ n.pc = "freeze" /\ n.cmd = m.cmd /\ n.active = None /\ n.call = None
  BY <1>2, <1>3, ToFields DEF Steps
<1>6. Local(n) /\ n.pc \in Accepted
  BY <1>5 DEF Local, Tidy, Accepted, InTurn, Steps, WithActivity
<1>7. ASSUME Appendable(p, FALSE)
      PROVE  History(j, ran) /\ Stands(journal, j) /\ Agree(j, ran, n)
  <2>1. journal.turn[m.cmd] = "none"
    BY <1>1, <1>7 DEF EffectInv, Knows, Appendable
  <2>2. \A a \in Activity : a.cmd = m.cmd => journal.act[a] = "none"
    BY <2>1, <1>2 DEF History
  <2> HIDE DEF m
  <2>3. /\ History(j, ran) /\ Stands(journal, j) /\ j.act = journal.act
        /\ j.turn = [journal.turn EXCEPT ![m.cmd] = "active"]
    <3>1. journal.turn[m.cmd] \notin TurnEnded
      BY <2>1 DEF TurnEnded
    <3>2. ASSUME NEW status, status = "active"
          PROVE  LET i == TurnIs(journal, m.cmd, status) IN
                   /\ History(i, ran) /\ Stands(journal, i) /\ i.act = journal.act
                   /\ i.turn = [journal.turn EXCEPT ![m.cmd] = status]
      BY <1>2, <3>1, <3>2, TurnHistory
    <3> QED
      BY <3>2
  <2> HIDE DEF j, n
  <2>4. j.turn[m.cmd] = "active"
    BY <1>2, <2>3 DEF JournalOK
  <2>5. Traced(j, ran, n)
    BY <1>5, <2>2, <2>3, <2>4 DEF Traced
  <2>6. Agree(j, ran, n)
    BY <1>5, <2>2, <2>3, <2>5 DEF Agree, Ahead
  <2> QED
    BY <2>3, <2>6
<1> HIDE DEF j, n
<1>8. ~ Owns(p)
  BY <1>4 DEF Owns
<1> QED
  BY <1>1, <1>2, <1>4, <1>5, <1>6, <1>7, <1>8, AppendKeeps

\* A call nobody has planned anything for waits for its result.
LEMMA FreshWaits ==
  ASSUME JournalOK(journal), ran \in [Activity -> Nat], History(journal, ran),
         NEW c \in Cmd, NEW k \in Call,
         \A a \in Activity : a.cmd = c /\ a.call = k => journal.act[a] = "none"
  PROVE  Waiting(journal, ran, c, k, None)
<1>1. journal.answers[c][k] \in Nat /\ ~ (journal.answers[c][k] > 0)
  BY DEF JournalOK, History
<1>2. \A a \in Activity : a.cmd = c /\ a.call = k => ran[a] = 0
  BY DEF History
<1> QED
  BY <1>1, <1>2 DEF Waiting

\* A plan: the activity is one of those ahead, and every other one stays ahead.
LEMMA PlanKeeps ==
  ASSUME EffectInv, Inv', NEW p \in Proc, me[p].pc \in {"provider", "intents", "preview", "mutate"},
         NEW m \in Op, m.pc = me[p].pc, m.cmd = me[p].cmd, m.active = None,
         NEW a \in Activity, NEW pc \in {"authorize", "checkpoint"},
         Append(p, FALSE, Marked(journal, a, "planned"), m, Activate(m, a, pc)),
         a.cmd = m.cmd, a.call = m.call, a.kind # "synthetic",
         a.kind = "provider" => a.n = m.attempt,
         a.kind \in {"preview", "mutation"} => a.n = m.round,
         a.kind # "provider" => m.call \notin m.todo,
         pc = "checkpoint" => a.kind = "mutation",
         Ahead(me[p], a),
         \A d \in Activity : Ahead(Activate(m, a, pc), d) => Ahead(me[p], d) /\ d # a,
         Agree(journal, ran, me[p]) /\ a.kind # "provider" =>
           Waiting(journal, ran, a.cmd, a.call, None)
  PROVE  Keeps
<1> DEFINE j == Marked(journal, a, "planned")
           n == Activate(m, a, pc)
<1>1. me[p].pc \in Accepted /\ me[p].active = None
  BY DEF Accepted, InTurn, Steps, EffectInv, Local, WithActivity
<1>2. /\ JournalOK(journal) /\ ran \in [Activity -> Nat] /\ History(journal, ran)
      /\ (\A detached \in BOOLEAN : Appendable(p, detached) => Owns(p))
      /\ Owns(p) => Agree(journal, ran, me[p]) /\ Traced(journal, ran, me[p])
  BY <1>1, AcceptedFacts
<1>3. /\ n \in Op /\ n.pc = pc /\ n.cmd = m.cmd /\ n.active = a /\ n.attempt = m.attempt
      /\ n.todo = m.todo /\ n.call = m.call /\ n.round = m.round
      /\ n.started = FALSE /\ n.dispatched = FALSE /\ n.requires = FALSE
  <2>1. pc \in Steps /\ a \in Activity \cup {None}
    BY DEF Steps
  <2> QED
    BY <2>1, ActivateFields
<1>4. Tidy(m)
  BY DEF Tidy
<1>5. Owns(p) => Traced(journal, ran, m)
  BY <1>1, <1>2 DEF Traced
<1>6. n.pc \in Accepted /\ n.pc \in WithActivity
  BY <1>3 DEF Accepted, InTurn, Steps, WithActivity
<1>7. Tidy(n)
  BY <1>3 DEF Tidy
<1> HIDE DEF n
<1>8. Local(n)
  <2>1. /\ n.pc \notin InTurn \ (WithActivity \cup {"failing"})
        /\ n.pc \notin Opening \cup {"intents", "preview", "mutate", "ending", "dispatch", "running"}
    BY <1>3 DEF Opening, WithActivity
  <2>2. /\ n.active.kind # "synthetic"
        /\ n.active.kind = "provider" => n.active.n = n.attempt
        /\ n.active.kind \in {"preview", "mutation"} => n.active.n = n.round
        /\ n.active.kind # "provider" => n.call \notin n.todo
        /\ n.active.call = n.call
    BY <1>3
  <2>3. n.pc \in {"checkpoint", "revalidate"} => n.active.kind = "mutation"
    BY <1>3
  <2>4. /\ n.started <=> n.pc \in {"dispatch", "running", "ending"}
        /\ n.dispatched <=> n.pc \in {"running", "ending"}
    BY <1>3, <2>1
  <2> QED
    BY <1>3, <1>7, <2>1, <2>2, <2>3, <2>4 DEF Local
<1>9. ASSUME Appendable(p, FALSE)
      PROVE  History(j, ran) /\ Stands(journal, j) /\ Agree(j, ran, n)
  <2>1. Agree(journal, ran, me[p])
    BY <1>2, <1>9
  <2>2. journal.act[a] = "none" /\ ran[a] = 0 /\ journal.turn[a.cmd] = "active"
    BY <1>2, <2>1 DEF Agree, Traced, History
  <2>3. History(j, ran) /\ Stands(journal, j)
    BY <1>2, <2>2, PlannedHistory
  <2>4. j.turn = journal.turn /\ j.answers = journal.answers /\ j.act = [journal.act EXCEPT ![a] = "planned"]
    BY <1>2, MarkedFields DEF Status
  <2> HIDE DEF j, n
  <2>5. \A d \in Activity : j.act[d] = IF d = a THEN "planned" ELSE journal.act[d]
    BY <1>2, <2>4 DEF JournalOK
  <2>6. a.kind # "provider" => Waiting(j, ran, a.cmd, a.call, a)
    <3>1. a.kind # "provider" => Waiting(journal, ran, a.cmd, a.call, None)
      BY <2>1
    <3> QED
      BY <3>1, <2>4, ActivityAssumption DEF Waiting
  <2>7. Traced(j, ran, n)
    <3>1. \A b \in Activity : b.cmd = n.cmd /\ j.act[b] = "started" => b = n.active
      <4>1. \A b \in Activity : b.cmd = me[p].cmd /\ journal.act[b] = "started" => b = None
        BY <1>1, <2>1 DEF Agree, Traced
      <4>2. \A b \in Activity : b.cmd = m.cmd => journal.act[b] # "started"
        BY <4>1, ActivityAssumption
      <4> QED
        BY <1>3, <2>5, <4>2
    <3> QED
      BY <1>3, <2>2, <2>4, <2>5, <2>6, <3>1 DEF Traced
  <2>8. \A d \in Activity : Ahead(n, d) => j.act[d] = "none"
    <3>1. \A d \in Activity : Ahead(n, d) => Ahead(me[p], d) /\ d # a
      BY DEF n
    <3>2. \A d \in Activity : Ahead(me[p], d) => journal.act[d] = "none"
      BY <2>1 DEF Agree
    <3> QED
      BY <2>5, <3>1, <3>2
  <2> QED
    BY <1>3, <2>3, <2>7, <2>8 DEF Agree
<1>10. FALSE \in BOOLEAN
  OBVIOUS
<1> HIDE DEF j, n
<1>11. Append(p, FALSE, j, m, n)
  BY DEF j, n
<1> QED
  BY <1>1, <1>3, <1>4, <1>5, <1>6, <1>8, <1>9, <1>10, <1>11, AppendKeeps

\* The activity of a turn goes on: the same work, a later step.
SameWork(m, n) ==
  /\ n.cmd = m.cmd /\ n.active = m.active /\ n.attempt = m.attempt
  /\ n.todo = m.todo /\ n.call = m.call /\ n.round = m.round

LEMMA OnwardLocal ==
  ASSUME NEW m, NEW n, Local(m), m.pc \in WithActivity, m.active \in Activity,
         n.pc \in WithActivity, SameWork(m, n),
         n.started <=> n.pc \in {"dispatch", "running", "ending"},
         n.dispatched <=> n.pc \in {"running", "ending"},
         n.requires => n.pc \in {"deny", "ending"} /\ (Visible(n.active) \/ n.pc = "deny"),
         n.pc \in {"checkpoint", "revalidate"} => n.active.kind = "mutation",
         n.pc = "ending" => n.status \in {"succeeded", "failed", "uncertain", "interrupted_no_effect"}
  PROVE  Local(n) /\ n.pc \in Accepted
<1>1. /\ m.pc \in InTurn /\ n.pc \in InTurn /\ n.pc \in Accepted
      /\ n.pc \notin InTurn \ (WithActivity \cup {"failing"})
      /\ n.pc \notin Opening \cup {"intents", "preview", "mutate", "idle", "r-lease"}
  BY DEF WithActivity, InTurn, Steps, Opening, Accepted
<1>2. /\ m.active.call = m.call /\ m.active.kind # "synthetic"
      /\ m.active.kind = "provider" => m.active.n = m.attempt
      /\ m.active.kind \in {"preview", "mutation"} => m.active.n = m.round
      /\ m.active.kind # "provider" => m.call \notin m.todo
      /\ m.active.cmd = m.cmd
  BY <1>1, ActivityAssumption DEF Local, Tidy
<1>3. Tidy(n)
  BY <1>2 DEF Tidy, SameWork
<1> QED
  BY <1>1, <1>2, <1>3 DEF Local, SameWork

LEMMA OnwardAgree ==
  ASSUME NEW j, NEW r, NEW m, NEW n, Agree(j, r, m), m.pc \in WithActivity, n.pc \in WithActivity,
         SameWork(m, n), n.started <=> m.started, m.dispatched => n.dispatched,
         n.pc = "ending" /\ n.status = "interrupted_no_effect" => r[n.active] = 0,
         n.pc = "ending" /\ n.status = "succeeded" => r[n.active] > 0
  PROVE  Agree(j, r, n)
<1>1. /\ m.pc \notin {"preview", "mutate", "verify", "finish", "failing", "freeze", "provider"}
      /\ n.pc \notin {"preview", "mutate", "verify", "finish", "failing", "freeze", "provider"}
  BY DEF WithActivity
<1>2. Traced(j, r, n)
  BY DEF Agree, Traced, SameWork
<1>3. \A a \in Activity : Ahead(n, a) => Ahead(m, a)
  BY <1>1 DEF Ahead, SameWork
<1> QED
  BY <1>1, <1>2, <1>3 DEF Agree

\* An event of the active activity, before its effect.
LEMMA MarkedAgree ==
  ASSUME NEW j, JournalOK(j), NEW r, NEW m, NEW n, Agree(j, r, m),
         m.pc \in WithActivity, n.pc \in WithActivity \ {"ending"}, SameWork(m, n), m.active \in Activity,
         NEW status \in {"authorized", "started"}, n.started <=> status = "started",
         r[m.active] = 0
  PROVE  Agree(Marked(j, m.active, status), r, n)
<1> DEFINE i == Marked(j, m.active, status)
           a == m.active
<1>1. /\ m.pc \notin {"preview", "mutate", "verify", "finish", "failing", "freeze", "provider"}
      /\ n.pc \notin {"preview", "mutate", "verify", "finish", "failing", "freeze", "provider", "ending"}
  BY DEF WithActivity
<1>2. i.turn = j.turn /\ i.answers = j.answers /\ i.act = [j.act EXCEPT ![a] = status]
  BY MarkedFields DEF Status
<1>3. \A b \in Activity : i.act[b] = IF b = a THEN status ELSE j.act[b]
  BY <1>2 DEF JournalOK
<1> HIDE DEF i
<1>4. /\ j.turn[m.cmd] = "active" /\ j.act[a] # "none"
      /\ \A b \in Activity : b.cmd = m.cmd /\ j.act[b] = "started" => b = a
      /\ a.kind # "provider" => Waiting(j, r, m.cmd, a.call, a)
  BY ActivityAssumption DEF Agree, Traced
<1>5. a.kind # "provider" => Waiting(i, r, m.cmd, a.call, a)
  BY <1>2, <1>4 DEF Waiting
<1>6. Traced(i, r, n)
  BY <1>2, <1>3, <1>4, <1>5 DEF Traced, SameWork
<1>7. \A d \in Activity : Ahead(n, d) => Ahead(m, d)
  BY <1>1 DEF Ahead, SameWork
<1>8. \A d \in Activity : Ahead(m, d) => j.act[d] = "none"
  BY <1>1 DEF Agree
<1>9. \A d \in Activity : Ahead(n, d) => i.act[d] = "none"
  BY <1>3, <1>4, <1>7, <1>8
<1> QED
  BY <1>1, <1>6, <1>9 DEF Agree, i

\* The turn goes on behind its activity: what is ahead was ahead before.
LEMMA BehindAgree ==
  ASSUME NEW j, JournalOK(j), NEW i, NEW r, NEW m, NEW n, Agree(j, r, m),
         m.active \in Activity \cup {None}, NEW a \in Activity, NEW status \in Ended,
         m.active # None => m.active = a, a.cmd = m.cmd, Ahead(m, a) \/ m.active = a,
         i.turn = j.turn, i.act = [j.act EXCEPT ![a] = status],
         n.cmd = m.cmd, n.active = None, n.pc \notin WithActivity,
         m.pc \notin {"verify", "finish", "failing"},
         n.pc \in {"preview", "mutate"} => Waiting(i, r, n.cmd, n.call, None),
         n.pc \notin {"verify", "finish", "failing"} =>
           \A d \in Activity : Ahead(n, d) => Ahead(m, d) /\ d # a
  PROVE  Agree(i, r, n)
<1>1. \A b \in Activity : i.act[b] = IF b = a THEN status ELSE j.act[b]
  BY DEF JournalOK
<1>2. status # "started"
  BY DEF Ended
<1>3. /\ j.turn[m.cmd] = "active"
      /\ \A b \in Activity : b.cmd = m.cmd /\ j.act[b] = "started" => b = m.active
      /\ \A d \in Activity : Ahead(m, d) => j.act[d] = "none"
  BY DEF Agree, Traced
<1>4. \A b \in Activity : b.cmd = m.cmd => i.act[b] # "started"
  BY <1>1, <1>2, <1>3, ActivityAssumption
<1>5. Traced(i, r, n)
  BY <1>3, <1>4 DEF Traced
<1>6. n.pc # "ending"
  BY DEF WithActivity
<1> QED
  BY <1>1, <1>3, <1>5, <1>6 DEF Agree

\* What is known of an operation with an active activity.
LEMMA ActiveFacts ==
  ASSUME EffectInv, NEW p \in Proc, me[p].pc \in WithActivity
  PROVE  /\ me[p].pc \in Accepted /\ me[p] \in Op /\ OpOK(me[p]) /\ Local(me[p]) /\ Tidy(me[p])
         /\ JournalOK(journal) /\ ran \in [Activity -> Nat] /\ History(journal, ran)
         /\ me[p].cmd \in Cmd /\ me[p].active \in Activity /\ me[p].active # None
         /\ me[p].active.cmd = me[p].cmd /\ me[p].active.call = me[p].call
         /\ me[p].pc \in InTurn
<1>1. me[p].pc \in Accepted /\ me[p].pc \in InTurn
  BY DEF WithActivity, Accepted, InTurn, Steps
<1>2. /\ me[p] \in Op /\ OpOK(me[p]) /\ Local(me[p]) /\ Tidy(me[p]) /\ JournalOK(journal)
      /\ ran \in [Activity -> Nat] /\ History(journal, ran) /\ me[p].cmd \in Cmd
  BY <1>1, AcceptedFacts
<1>3. me[p].active \in Activity /\ me[p].active # None
  BY <1>2, ActivityAssumption DEF OpOK
<1> QED
  BY <1>1, <1>2, <1>3 DEF Local, Tidy

-----------------------------------------------------------------------------
\* The steps of RunTurn.

\* Events that are no part of the model.
LEMMA SameJournal ==
  ASSUME EffectInv
  PROVE  History(journal, ran) /\ Stands(journal, journal)
BY DEF EffectInv, Stands

LEMMA FreezeContractKeeps ==
  ASSUME EffectInv, Inv', NEW p \in Proc, FreezeContract(p)
  PROVE  Keeps
<1> DEFINE m == me[p]
           n == To(m, "provider")
<1>1. m.pc = "freeze" /\ Append(p, FALSE, journal, m, n)
  BY DEF FreezeContract
<1>2. m.pc \in Accepted /\ m.pc \in InTurn /\ m \in Op /\ Local(m)
  BY <1>1, AcceptedFacts DEF Accepted, InTurn, Steps
<1>3. m.active = None /\ m.call = None
  BY <1>1, <1>2 DEF Local, WithActivity, Opening
<1>4. n \in Op /\ n.pc = "provider" /\ SameWork(m, n)
  BY <1>2, ToFields DEF Steps, SameWork
<1> HIDE DEF n, m
<1>5. Local(n) /\ n.pc \in Accepted
  BY <1>3, <1>4 DEF Local, Tidy, SameWork, WithActivity, Accepted, InTurn, Steps
<1>6. Agree(journal, ran, m) => Agree(journal, ran, n)
  <2>1. Traced(journal, ran, m) => Traced(journal, ran, n)
    BY <1>3, <1>4 DEF Traced, SameWork
  <2>2. \A d \in Activity : Ahead(n, d) => Ahead(m, d)
    BY <1>1, <1>4 DEF Ahead, SameWork, WithActivity
  <2> QED
    BY <1>1, <1>4, <2>1, <2>2 DEF Agree
<1>7. FALSE \in BOOLEAN /\ Append(p, FALSE, journal, me[p], n)
  BY <1>1 DEF m
<1> QED
  BY <1>2, <1>4, <1>5, <1>6, <1>7, SameJournal, AppendOwned DEF m

LEMMA PlanProviderKeeps ==
  ASSUME EffectInv, Inv', NEW p \in Proc, PlanProvider(p)
  PROVE  Keeps
<1> DEFINE m == me[p]
           a == [kind |-> "provider", cmd |-> m.cmd, call |-> None, n |-> m.attempt]
           n == Activate(m, a, "authorize")
<1>1. m.pc = "provider" /\ Append(p, FALSE, Marked(journal, a, "planned"), m, n)
  BY DEF PlanProvider, Plan
<1>2. m.pc \in Accepted /\ m.pc \in InTurn /\ m \in Op /\ Local(m) /\ m.cmd \in Cmd /\ OpOK(m)
  BY <1>1, AcceptedFacts DEF Accepted, InTurn, Steps
<1>3. m.active = None /\ m.call = None /\ m.todo = {}
  BY <1>1, <1>2 DEF Local, WithActivity, Opening, OpOK
<1>4. a \in Activity /\ a.kind = "provider" /\ a.cmd = m.cmd /\ a.call = m.call /\ a.n = m.attempt
  BY <1>2, <1>3, PlannedExist
<1>5. /\ n.pc = "authorize" /\ n.cmd = m.cmd /\ n.active = a /\ n.attempt = m.attempt
      /\ n.todo = m.todo /\ n.call = m.call /\ n.round = m.round
  <2>1. "authorize" \in Steps /\ a \in Activity \cup {None}
    BY <1>4 DEF Steps
  <2> HIDE DEF a, m
  <2> QED
    BY <1>2, <2>1, ActivateFields
<1> HIDE DEF a, n
<1>6. Ahead(m, a)
  BY <1>1, <1>4 DEF Ahead
<1>7. ASSUME NEW d \in Activity, Ahead(n, d)
      PROVE  Ahead(m, d) /\ d # a
  <2>1. d.kind # "provider" => d.call # None
    BY ActivityShape, NamesAssumption
  <2> QED
    BY <1>2, <1>3, <1>4, <1>5, <1>7, <2>1 DEF Ahead, Op
<1>8. Append(p, FALSE, Marked(journal, a, "planned"), m, Activate(m, a, "authorize"))
  BY <1>1 DEF n
<1> QED
  BY <1>1, <1>2, <1>3, <1>4, <1>6, <1>7, <1>8, PlanKeeps DEF n

\* A preview and a mutation are planned alike.
LEMMA PlanRoundKeeps ==
  ASSUME EffectInv, Inv', NEW p \in Proc, PlanPreview(p) \/ PlanMutation(p)
  PROVE  Keeps
<1> DEFINE m == me[p]
           preview == m.pc = "preview"
           kind == IF preview THEN "preview" ELSE "mutation"
           pc == IF preview THEN "authorize" ELSE "checkpoint"
           a == [kind |-> kind, cmd |-> m.cmd, call |-> m.call, n |-> m.round]
           n == Activate(m, a, pc)
<1>1. /\ m.pc \in {"preview", "mutate"}
      /\ Append(p, FALSE, Marked(journal, a, "planned"), m, n)
  BY DEF PlanPreview, PlanMutation, Plan
<1>2. m.pc \in Accepted /\ m.pc \in InTurn /\ m \in Op /\ Local(m) /\ m.cmd \in Cmd /\ OpOK(m)
  BY <1>1, AcceptedFacts DEF Accepted, InTurn, Steps
<1>3. m.active = None /\ m.call \notin m.todo /\ m.call \in Asks[m.cmd]
  BY <1>1, <1>2 DEF Local, WithActivity, OpOK, WithCall, MayGoOn
<1>4. /\ kind \in {"preview", "mutation"} /\ pc \in {"authorize", "checkpoint"}
      /\ pc = "checkpoint" => kind = "mutation"
      /\ kind = "preview" <=> m.pc = "preview"
  OBVIOUS
<1> HIDE DEF kind, pc, preview
<1>5. a \in Activity /\ a.kind = kind /\ a.cmd = m.cmd /\ a.call = m.call /\ a.n = m.round
  BY <1>2, <1>3, <1>4, PlannedExist
<1>6. /\ n.pc = pc /\ n.cmd = m.cmd /\ n.active = a /\ n.attempt = m.attempt
      /\ n.todo = m.todo /\ n.call = m.call /\ n.round = m.round
  <2>1. pc \in Steps /\ a \in Activity \cup {None}
    BY <1>4, <1>5 DEF Steps
  <2> HIDE DEF a, m
  <2> QED
    BY <1>2, <2>1, ActivateFields
<1> HIDE DEF a, n
<1>7. Ahead(m, a)
  BY <1>1, <1>2, <1>4, <1>5 DEF Ahead, Op
<1>8. ASSUME NEW d \in Activity, Ahead(n, d)
      PROVE  Ahead(m, d) /\ d # a
  BY <1>1, <1>2, <1>3, <1>4, <1>5, <1>6, <1>8 DEF Ahead, Op
<1>9. Agree(journal, ran, m) => Waiting(journal, ran, a.cmd, a.call, None)
  BY <1>1, <1>5 DEF Agree
<1>10. Append(p, FALSE, Marked(journal, a, "planned"), m, Activate(m, a, pc))
  BY <1>1 DEF n
<1> QED
  BY <1>1, <1>2, <1>3, <1>4, <1>5, <1>7, <1>8, <1>9, <1>10, PlanKeeps DEF n

\* Behind a call: the turn still has its other calls and the next provider attempt.
LEMMA AfterIntentFields ==
  ASSUME NEW m, OpOK(m), m.pc \in InTurn, m.attempt < LastAttempt
  PROVE  /\ AfterIntent(m) \in Op /\ Local(AfterIntent(m)) /\ AfterIntent(m).pc \in Accepted
         /\ AfterIntent(m).pc \in {"provider", "intents"} /\ AfterIntent(m).cmd = m.cmd
         /\ AfterIntent(m).active = None
         /\ \A d \in Activity : Ahead(AfterIntent(m), d) =>
              /\ d.cmd = m.cmd
              /\ \/ d.kind = "provider" /\ d.n > m.attempt
                 \/ d.kind # "provider" /\ d.call \in m.todo
<1> DEFINE n == AfterIntent(m)
<1>1. m \in Op /\ m.attempt \in Nat /\ None \in Activity \cup {None}
  BY DEF OpOK, Op
<1>2. \A d \in Activity : d.kind # "provider" => d.call # None
  BY ActivityShape, NamesAssumption
<1>3. OpOK(n) /\ n.pc \in {"provider", "intents"}
  BY AfterIntentOK
<1>4. /\ n.cmd = m.cmd /\ n.active = None /\ n.call = None /\ n.todo = m.todo
      /\ n.attempt = (IF m.todo = {} THEN m.attempt + 1 ELSE m.attempt)
      /\ n.pc = "provider" => m.todo = {}
  <2>1. CASE m.todo = {}
    <3> DEFINE d == Activate(m, None, "provider")
    <3>1. n = [[d EXCEPT !.attempt = @ + 1] EXCEPT !.call = None, !.round = 0]
      BY <2>1 DEF AfterIntent, Deactivate
    <3>2. "provider" \in Steps
      BY DEF Steps
    <3>3. d \in Op /\ d.cmd = m.cmd /\ d.active = None /\ d.todo = m.todo /\ d.attempt = m.attempt
      BY <1>1, <3>2, ActivateFields
    <3> HIDE DEF d, n
    <3> QED
      BY <2>1, <3>1, <3>3 DEF Op
  <2>2. CASE m.todo # {}
    <3> DEFINE d == Activate(m, None, "intents")
    <3>1. n = [d EXCEPT !.call = None, !.round = 0]
      BY <2>2 DEF AfterIntent, Deactivate
    <3>2. "intents" \in Steps
      BY DEF Steps
    <3>3. d \in Op /\ d.cmd = m.cmd /\ d.active = None /\ d.todo = m.todo /\ d.attempt = m.attempt
          /\ d.pc = "intents"
      BY <1>1, <3>2, ActivateFields
    <3> HIDE DEF d, n
    <3> QED
      BY <2>2, <3>1, <3>3 DEF Op
  <2> QED
    BY <2>1, <2>2
<1> HIDE DEF n
<1>5. n \in Op
  BY <1>3 DEF OpOK
<1>6. Local(n) /\ n.pc \in Accepted
  BY <1>3, <1>4 DEF Local, Tidy, WithActivity, Accepted, InTurn, Steps
<1>7. ASSUME NEW d \in Activity, Ahead(n, d)
      PROVE  /\ d.cmd = m.cmd
             /\ \/ d.kind = "provider" /\ d.n > m.attempt
                \/ d.kind # "provider" /\ d.call \in m.todo
  <2>1. d.cmd = m.cmd
    BY <1>4, <1>7 DEF Ahead
  <2>2. d.kind # "provider" => d.call \in m.todo
    BY <1>2, <1>3, <1>4, <1>7 DEF Ahead, WithActivity
  <2>3. d.kind = "provider" => d.n > m.attempt
    <3>1. d.kind = "provider" => d.n \in Nat
      BY BoundsAssumption DEF Activity
    <3>2. d.kind = "provider" =>
            d.n > n.attempt \/ (d.n = n.attempt /\ n.pc = "provider")
      BY <1>3, <1>7 DEF Ahead
    <3> QED
      BY <1>1, <1>4, <3>1, <3>2
  <2> QED
    BY <2>1, <2>2, <2>3
<1> QED
  BY <1>3, <1>4, <1>5, <1>6, <1>7 DEF n

\* runToolIntent: the call has no activity yet.
LEMMA NextIntentKeeps ==
  ASSUME EffectInv, Inv', NEW p \in Proc, NEW k \in Call, NextIntent(p, k)
  PROVE  Keeps
<1> DEFINE o == me[p]
           m == [o EXCEPT !.todo = @ \ {k}, !.call = k]
           tool == [kind |-> "tool", cmd |-> m.cmd, call |-> k, n |-> 0]
           synthetic == [tool EXCEPT !.kind = "synthetic"]
<1>1. o.pc = "intents" /\ k \in o.todo
  BY DEF NextIntent
<1>2. /\ o.pc \in Accepted /\ o.pc \in InTurn /\ o \in Op /\ OpOK(o) /\ Local(o) /\ o.cmd \in Cmd
      /\ JournalOK(journal) /\ ran \in [Activity -> Nat] /\ History(journal, ran)
  BY <1>1, AcceptedFacts DEF Accepted, InTurn, Steps
<1>3. k \in Asks[o.cmd] /\ o.attempt < LastAttempt /\ o.todo \subseteq Asks[o.cmd] /\ o.active = None
  BY <1>1, <1>2 DEF OpOK, InTurn, Steps, Local, WithActivity
<1>4. /\ \/ Goto(p, To(m, "preview"))
         \/ Append(p, FALSE, Marked(journal, tool, "planned"), m, Activate(m, tool, "authorize"))
         \/ Append(p, FALSE, MarkedAnswered(journal, synthetic, "failed", TRUE), m, AfterIntent(m))
  BY DEF NextIntent, SyntheticFailure
<1> HIDE DEF o
<1>5. /\ m \in Op /\ m.pc = "intents" /\ m.cmd = o.cmd /\ m.call = k /\ m.active = None
      /\ m.todo = o.todo \ {k} /\ m.attempt = o.attempt /\ m.round = o.round
  BY <1>1, <1>2, <1>3 DEF Op
<1>6. synthetic = [kind |-> "synthetic", cmd |-> m.cmd, call |-> k, n |-> 0]
  OBVIOUS
<1> HIDE DEF m
<1>7. OpOK(m) /\ m.pc \in InTurn
  BY <1>1, <1>2, <1>3, <1>5 DEF OpOK, Opening, WithCall, WithActivity, InTurn, Steps
<1>8. /\ tool \in Activity /\ tool.kind = "tool" /\ tool.cmd = o.cmd /\ tool.call = k
      /\ synthetic \in Activity /\ synthetic.kind = "synthetic" /\ synthetic.cmd = o.cmd /\ synthetic.call = k
  <2>1. m \in Op /\ m.cmd \in Cmd /\ m.call \in Asks[m.cmd] /\ m.cmd = o.cmd /\ m.call = k
    BY <1>2, <1>3, <1>5
  <2>2. \A kind \in {"tool", "synthetic"} :
          [kind |-> kind, cmd |-> m.cmd, call |-> m.call, n |-> 0] \in Activity
    BY <2>1, PlannedExist
  <2>3. tool \in Activity /\ synthetic \in Activity
    BY <1>6, <2>1, <2>2
  <2> QED
    BY <1>6, <2>1, <2>3
<1> HIDE DEF tool, synthetic
<1>9. \A a \in Activity : a.call = k => a.kind # "provider"
  BY NamesAssumption DEF Activity
<1>10. ASSUME Agree(journal, ran, o)
       PROVE  /\ Waiting(journal, ran, o.cmd, k, None)
              /\ journal.turn[o.cmd] = "active"
              /\ \A b \in Activity : b.cmd = o.cmd => journal.act[b] # "started"
              /\ \A a \in Activity : a.cmd = o.cmd /\ a.call = k => journal.act[a] = "none"
  <2>1. \A a \in Activity : a.cmd = o.cmd /\ a.call = k => journal.act[a] = "none"
    BY <1>1, <1>9, <1>10 DEF Agree, Ahead
  <2>2. \A b \in Activity : b.cmd = o.cmd => journal.act[b] # "started"
    BY <1>3, <1>10, ActivityAssumption DEF Agree, Traced
  <2>3. Waiting(journal, ran, o.cmd, k, None)
    BY <1>2, <2>1, FreshWaits
  <2> QED
    BY <1>10, <2>1, <2>2, <2>3 DEF Agree, Traced
<1>11. Tidy(m) /\ (Owns(p) => Traced(journal, ran, m))
  <2>1. Owns(p) => Traced(journal, ran, o)
    BY <1>2, AcceptedFacts DEF o
  <2> QED
    BY <1>3, <1>5, <2>1 DEF Tidy, Traced
<1>12. CASE Goto(p, To(m, "preview"))
  <2> DEFINE n == To(m, "preview")
  <2>1. n.pc = "preview" /\ SameWork(m, n)
    BY <1>5, ToFields DEF Steps, SameWork
  <2> HIDE DEF n
  <2>2. Local(n) /\ n.pc \in Accepted
    BY <1>5, <2>1 DEF Local, Tidy, SameWork, WithActivity, Accepted, InTurn, Steps, Opening
  <2>3. Agree(journal, ran, o) => Agree(journal, ran, n)
    <3>1. Traced(journal, ran, o) => Traced(journal, ran, n)
      BY <1>3, <1>5, <2>1 DEF Traced, SameWork
    <3>2. \A d \in Activity : Ahead(n, d) => Ahead(o, d)
      BY <1>1, <1>5, <1>9, <2>1 DEF Ahead, SameWork, WithActivity
    <3> QED
      BY <1>1, <1>5, <1>10, <2>1, <3>1, <3>2 DEF Agree, SameWork
  <2>4. Owns(p) => Agree(journal, ran, n)
    BY <1>2, <2>3, AcceptedFacts DEF o
  <2>5. o.pc \in Accepted \ {"failing"}
    BY <1>1, <1>2
  <2>6. Goto(p, n)
    BY <1>12 DEF n
  <2> QED
    BY <2>1, <2>2, <2>4, <2>5, <2>6, GotoKeeps DEF o
<1>13. CASE Append(p, FALSE, Marked(journal, tool, "planned"), m, Activate(m, tool, "authorize"))
  <2> DEFINE n == Activate(m, tool, "authorize")
  <2>1. /\ n.pc = "authorize" /\ n.cmd = m.cmd /\ n.active = tool /\ n.attempt = m.attempt
        /\ n.todo = m.todo /\ n.call = m.call /\ n.round = m.round
    <3>1. "authorize" \in Steps /\ tool \in Activity \cup {None}
      BY <1>8 DEF Steps
    <3>2. m \in Op
      BY <1>5
    <3> QED
      BY <3>1, <3>2, ActivateFields
  <2> HIDE DEF n
  <2>2. Ahead(o, tool)
    BY <1>1, <1>8 DEF Ahead
  <2>3. ASSUME NEW d \in Activity, Ahead(n, d)
        PROVE  Ahead(o, d) /\ d # tool
    BY <1>1, <1>5, <1>8, <1>9, <2>1, <2>3 DEF Ahead
  <2>4. \A d \in Activity : Ahead(Activate(m, tool, "authorize"), d) => Ahead(o, d) /\ d # tool
    BY <2>3 DEF n
  <2> QED
    BY <1>1, <1>5, <1>8, <1>10, <1>13, <2>2, <2>4, PlanKeeps DEF o
<1>14. CASE Append(p, FALSE, MarkedAnswered(journal, synthetic, "failed", TRUE), m, AfterIntent(m))
  <2>1. PICK visible \in BOOLEAN : visible /\ visible = TRUE
    OBVIOUS
  <2>2. PICK detached \in BOOLEAN : detached = FALSE
    OBVIOUS
  <2> DEFINE j == MarkedAnswered(journal, synthetic, "failed", visible)
             n == AfterIntent(m)
  <2>3. Append(p, detached, j, m, n)
    BY <1>14, <2>1, <2>2
  <2>4. /\ n \in Op /\ Local(n) /\ n.pc \in Accepted /\ n.pc \in {"provider", "intents"}
        /\ n.cmd = m.cmd /\ n.active = None
        /\ \A d \in Activity : Ahead(n, d) =>
              /\ d.cmd = m.cmd
              /\ \/ d.kind = "provider" /\ d.n > m.attempt
                 \/ d.kind # "provider" /\ d.call \in m.todo
    BY <1>3, <1>5, <1>7, AfterIntentFields
  <2>5. "failed" \in Ended
    BY DEF Ended
  <2>6. j.turn = journal.turn /\ j.act = [journal.act EXCEPT ![synthetic] = "failed"]
    <3>1. synthetic.kind # "provider" /\ synthetic \in Activity /\ JournalOK(journal)
      BY <1>2, <1>8
    <3>2. ASSUME NEW status \in Ended
          PROVE  /\ MarkedAnswered(journal, synthetic, status, visible).turn = journal.turn
                 /\ MarkedAnswered(journal, synthetic, status, visible).act =
                      [journal.act EXCEPT ![synthetic] = status]
      BY <3>1, MarkedAnsweredFields
    <3> QED
      BY <2>5, <3>2
  <2>7. ASSUME Agree(journal, ran, o)
        PROVE  History(j, ran) /\ Stands(journal, j) /\ Agree(j, ran, n)
    <3>1. /\ journal.act[synthetic] = "none" /\ journal.turn[synthetic.cmd] = "active"
          /\ journal.answers[synthetic.cmd][synthetic.call] = 0
          /\ \A b \in Activity : b.cmd = synthetic.cmd => journal.act[b] # "started"
      BY <1>8, <1>10, <2>7 DEF Waiting
    <3>2. "none" \notin Ended /\ ~ Visible(synthetic)
      BY <1>8 DEF Ended, Visible
    <3>3. History(j, ran) /\ Stands(journal, j)
      <4>1. ASSUME NEW status \in Ended, status = "failed"
            PROVE  LET i == MarkedAnswered(journal, synthetic, status, visible) IN
                     History(i, ran) /\ Stands(journal, i)
        BY <1>2, <1>8, <3>1, <3>2, <4>1, EndedHistory
      <4> QED
        BY <2>5, <4>1
    <3> HIDE DEF j, n
    <3>4. Ahead(o, synthetic)
      BY <1>1, <1>8 DEF Ahead
    <3>5. \A d \in Activity : Ahead(n, d) => Ahead(o, d) /\ d # synthetic
      BY <1>5, <1>8, <2>4 DEF Ahead
    <3>6. Agree(j, ran, n)
      BY <1>1, <1>2, <1>3, <1>5, <1>8, <2>4, <2>5, <2>6, <2>7, <3>4, <3>5, BehindAgree DEF WithActivity
    <3> QED
      BY <3>3, <3>6
  <2>8. Appendable(p, detached) => Agree(journal, ran, o)
    BY <1>2, AcceptedFacts DEF o
  <2> HIDE DEF j, n
  <2> QED
    BY <1>2, <1>5, <1>1, <1>11, <2>3, <2>4, <2>7, <2>8, AppendKeeps DEF o
<1> QED
  BY <1>4, <1>12, <1>13, <1>14

\* A later step of an activity that has not started.
LEMMA ToOnward ==
  ASSUME EffectInv, NEW p \in Proc,
         me[p].pc \in WithActivity \ {"deny", "dispatch", "running", "ending"},
         NEW pc \in {"revalidate", "authorize", "asking", "answered", "deny", "allow", "start"},
         pc = "revalidate" => me[p].active.kind = "mutation"
  PROVE  LET n == To(me[p], pc) IN
           /\ n \in Op /\ n.pc = pc /\ n.pc \in WithActivity /\ Local(n) /\ n.pc \in Accepted
           /\ SameWork(me[p], n)
           /\ ~ n.started /\ ~ n.dispatched /\ ~ n.requires /\ ~ me[p].started /\ ~ me[p].dispatched
           /\ Agree(journal, ran, me[p]) => Agree(journal, ran, n)
<1> DEFINE m == me[p]
           n == To(m, pc)
<1>1. m \in Op /\ Local(m) /\ m.active \in Activity /\ m.pc \in WithActivity
  BY ActiveFacts
<1>2. ~ m.started /\ ~ m.dispatched /\ ~ m.requires
  BY <1>1 DEF Local
<1>3. pc \in Steps /\ pc \in WithActivity
  BY DEF Steps, WithActivity
<1> HIDE DEF m
<1>4. /\ n \in Op /\ n.pc = pc /\ SameWork(m, n) /\ n.active = m.active
      /\ n.started = m.started /\ n.dispatched = m.dispatched /\ n.requires = m.requires
  BY <1>1, <1>3, ToFields DEF SameWork
<1> HIDE DEF n
<1>5. n.pc \in {"checkpoint", "revalidate"} => n.active.kind = "mutation"
  BY <1>4 DEF m
<1>6. n.pc \notin {"dispatch", "running", "ending"}
  BY <1>4
<1>7. Local(n) /\ n.pc \in Accepted
  BY <1>1, <1>2, <1>3, <1>4, <1>5, <1>6, OnwardLocal
<1>8. Agree(journal, ran, m) => Agree(journal, ran, n)
  BY <1>1, <1>2, <1>3, <1>4, <1>6, OnwardAgree
<1> QED
  BY <1>1, <1>2, <1>3, <1>4, <1>7, <1>8 DEF n, m

\* The checkpoint and the request of an authorization.
LEMMA CheckpointKeeps ==
  ASSUME EffectInv, Inv', NEW p \in Proc, PrepareCheckpoint(p) \/ Revalidated(p)
  PROVE  Keeps
<1> DEFINE m == me[p]
<1>1. m.pc \in {"checkpoint", "revalidate"} /\ m.pc \in WithActivity
  BY DEF PrepareCheckpoint, Revalidated, WithActivity
<1>2. m \in Op /\ Local(m) /\ Tidy(m) /\ m.active.kind = "mutation" /\ m.pc \in Accepted
  BY <1>1, ActiveFacts DEF Local
<1>3. PICK detached, pc, n :
        /\ detached \in BOOLEAN /\ pc \in {"revalidate", "authorize"}
        /\ Append(p, detached, journal, m, n)
        /\ n = To(m, pc) \/ n = Failing(m, "failed")
  BY DEF PrepareCheckpoint, Revalidated
<1> HIDE DEF m
<1>4. n \in Op /\ Local(n) /\ n.pc \in Accepted /\ (Agree(journal, ran, m) => Agree(journal, ran, n))
  <2>1. CASE n = To(m, pc)
    <3>1. /\ m.pc \in WithActivity \ {"deny", "dispatch", "running", "ending"}
          /\ pc \in {"revalidate", "authorize", "asking", "answered", "deny", "allow", "start"}
      BY <1>1, <1>3
    <3> QED
      BY <1>2, <2>1, <3>1, ToOnward DEF m
  <2>2. CASE n = Failing(m, "failed")
    <3>1. "failed" \in Ended
      BY DEF Ended
    <3>2. Failing(m, "failed") \in Op
      BY <1>2, <3>1, FailingOp
    <3> QED
      BY <1>2, <2>2, <3>1, <3>2, FailingLocal DEF Agree, Accepted, InTurn, Steps
  <2> QED
    BY <1>3, <2>1, <2>2
<1> QED
  BY <1>2, <1>3, <1>4, SameJournal, AppendOwned DEF m

\* authorizeActivity decides, or asks.
LEMMA ResolvedLocal ==
  ASSUME EffectInv, NEW p \in Proc, me[p].pc \in {"authorize", "answered"},
         NEW action \in {"allow", "deny", "asking"}
  PROVE  LET n == Resolved(p, action) IN
           /\ n \in Op /\ n.pc = action /\ Local(n) /\ n.pc \in Accepted
           /\ Agree(journal, ran, me[p]) => Agree(journal, ran, n)
<1> DEFINE m == me[p]
           t == To(m, action)
           n == Resolved(p, action)
<1>1. m.pc \in WithActivity \ {"deny", "dispatch", "running", "ending"} /\ m.pc \in WithActivity
  BY DEF WithActivity
<1>2. m \in Op /\ Local(m) /\ m.active \in Activity
  BY <1>1, ActiveFacts
<1>3. /\ t \in Op /\ t.pc = action /\ t.pc \in WithActivity /\ Local(t) /\ t.pc \in Accepted
      /\ SameWork(m, t) /\ ~ t.started /\ ~ t.dispatched /\ ~ t.requires /\ ~ m.started /\ ~ m.dispatched
      /\ Agree(journal, ran, m) => Agree(journal, ran, t)
  BY <1>1, ToOnward
<1>4. CASE action # "deny"
  <2>1. n = t
    BY <1>4 DEF Resolved
  <2> QED
    BY <1>3, <2>1
<1>5. CASE action = "deny"
  <2>1. n = [t EXCEPT !.requires = m.active.kind # "provider"]
    BY <1>5 DEF Resolved
  <2> HIDE DEF n, t, m
  <2>2. /\ n \in Op /\ n.pc = t.pc /\ SameWork(t, n) /\ n.started = t.started
        /\ n.dispatched = t.dispatched
    BY <1>3, <2>1 DEF Op, SameWork
  <2>3. SameWork(m, n) /\ n.pc = "deny"
    BY <1>3, <1>5, <2>2 DEF SameWork
  <2>4. n.pc \in WithActivity /\ n.pc \notin {"dispatch", "running", "ending", "checkpoint", "revalidate"}
    BY <2>3 DEF WithActivity
  <2>5. Local(n) /\ n.pc \in Accepted
    BY <1>1, <1>2, <1>3, <2>2, <2>3, <2>4, OnwardLocal
  <2>6. Agree(journal, ran, m) => Agree(journal, ran, n)
    BY <1>1, <1>3, <2>2, <2>3, <2>4, OnwardAgree
  <2> QED
    BY <1>5, <2>2, <2>3, <2>5, <2>6 DEF n, m
<1> QED
  BY <1>4, <1>5

LEMMA DecideKeeps ==
  ASSUME EffectInv, Inv', NEW p \in Proc, Decide(p) \/ Approve(p)
  PROVE  Keeps
<1> DEFINE m == me[p]
<1>1. m.pc \in {"authorize", "asking"} /\ m.pc \in Accepted \ {"failing"} /\ m.pc \in WithActivity
  BY DEF Decide, Approve, Accepted, InTurn, Steps, WithActivity
<1>2. PICK n : /\ Goto(p, n) /\ Local(n)
               /\ n.pc \in {"allow", "deny", "asking", "answered"}
               /\ Agree(journal, ran, m) => Agree(journal, ran, n)
  <2>1. CASE Decide(p)
    <3>1. PICK action \in {"allow", "deny", "asking"} : Goto(p, Resolved(p, action))
      BY <2>1 DEF Decide
    <3>2. m.pc \in {"authorize", "answered"}
      BY <2>1 DEF Decide
    <3> QED
      BY <3>1, <3>2, ResolvedLocal
  <2>2. CASE Approve(p)
    <3>1. Goto(p, To(m, "answered")) /\ m.pc \in WithActivity \ {"deny", "dispatch", "running", "ending"}
      BY <1>1, <2>2 DEF Approve
    <3> QED
      BY <3>1, ToOnward
  <2> QED
    BY <2>1, <2>2
<1>3. Owns(p) => Agree(journal, ran, n)
  BY <1>1, <1>2, AcceptedFacts
<1> QED
  BY <1>1, <1>2, <1>3, GotoKeeps

\* The lane comes back behind one acknowledgement, or finds that it was overtaken.
LEMMA ReconcileKeeps ==
  ASSUME EffectInv, Inv', NEW p \in Proc, Reconcile(p)
  PROVE  Keeps
<1> DEFINE m == me[p]
<1>1. /\ m.pc = "answered" /\ m.pc \in Accepted /\ m.pc \in WithActivity /\ m.pc \in InTurn
      /\ UNCHANGED <<journal, ran, lock, cancelled, mishaps>>
      /\ me \in [Proc -> Op] /\ drift \in [Proc -> {"none", "ack", "other"}]
  BY DEF Reconcile, Accepted, WithActivity, InTurn, Steps, EffectInv, Inv, TypeOK
<1>2. NeedsLock(m) /\ m \in Op /\ Tidy(m)
  BY <1>1, AcceptedFacts DEF NeedsLock
<1>3. Same(journal, journal')
  BY <1>1 DEF Same
<1>4. CASE drift[p] = "other" /\ Failed(p, m, "failed") /\ UNCHANGED drift
  <2>1. "failed" \in Ended
    BY DEF Ended
  <2>2. me' = [me EXCEPT ![p] = Failing(m, "failed")]
    BY <1>1, <1>4 DEF Failed
  <2>3. me' = [me EXCEPT ![p] = me'[p]] /\ Local(me'[p]) /\ me'[p].pc = "failing"
    BY <1>1, <1>2, <2>1, <2>2, FailingLocal
  <2>4. ~ Owns(p)' /\ Fenced(p)' /\ Knows(p)'
    BY <1>1, <1>2, <1>4, <2>3 DEF Owns, EffectInv, Fenced, Knows
  <2> QED
    BY <1>1, <1>3, <1>4, <2>3, <2>4, SilentKeeps
<1>5. CASE /\ drift[p] # "other" /\ drift' = [drift EXCEPT ![p] = "none"]
           /\ \E action \in {"allow", "deny"} : me' = [me EXCEPT ![p] = Resolved(p, action)]
  <2>1. PICK action \in {"allow", "deny"} : me' = [me EXCEPT ![p] = Resolved(p, action)]
    BY <1>5
  <2>2. /\ me' = [me EXCEPT ![p] = me'[p]] /\ me'[p].pc = action /\ Local(me'[p])
        /\ me'[p].pc \in Accepted /\ (Agree(journal, ran, m) => Agree(journal, ran, me'[p]))
    BY <1>1, <2>1, ResolvedLocal
  <2>3. Owns(p) /\ Agree(journal, ran, m)
    BY <1>1, <1>5 DEF Owns, EffectInv
  <2>4. Fenced(p)' /\ Knows(p)'
    BY <1>1, <1>2, <2>2 DEF EffectInv, Fenced, Knows
  <2>5. \A q \in Proc \ {p} : drift'[q] = drift[q]
    BY <1>1, <1>5
  <2> QED
    BY <1>1, <1>3, <2>2, <2>3, <2>4, <2>5, SilentKeeps
<1> QED
  BY <1>4, <1>5 DEF Reconcile

\* What the journal holds of an activity that has had no effect.
LEMMA UntouchedFacts ==
  ASSUME EffectInv, NEW p \in Proc, me[p].pc \in WithActivity, Agree(journal, ran, me[p]),
         ~ me[p].started
  PROVE  LET a == me[p].active IN
           /\ journal.act[a] \in {"planned", "authorized"} /\ ran[a] = 0 /\ ~ me[p].dispatched
           /\ journal.turn[a.cmd] = "active"
           /\ \A b \in Activity : b.cmd = a.cmd /\ journal.act[b] = "started" => b = a
           /\ \A b \in Activity : b.cmd = a.cmd => journal.act[b] # "started"
           /\ a.kind # "provider" => /\ journal.answers[a.cmd][a.call] = 0
                                     /\ Waiting(journal, ran, a.cmd, a.call, a)
<1> DEFINE m == me[p]
<1>1. /\ m.active \in Activity /\ m.active # None /\ m.active.cmd = m.cmd /\ ~ m.dispatched
      /\ m.active.call = m.call
  BY ActiveFacts DEF Local
<1>2. Traced(journal, ran, m)
  BY DEF Agree
<1> HIDE DEF m
<1>3. journal.act[m.active] \in {"planned", "authorized"} /\ ran[m.active] = 0
  BY <1>1, <1>2 DEF Traced, m
<1> QED
  BY <1>1, <1>2, <1>3 DEF Traced, Waiting, m

\* A denial ends the activity and fails the turn.
LEMMA RecordDenialKeeps ==
  ASSUME EffectInv, Inv', NEW p \in Proc, RecordDenial(p)
  PROVE  Keeps
<1> DEFINE m == me[p]
           a == m.active
           d == Deactivate(m, "deny")
<1>1. m.pc = "deny" /\ m.pc \in WithActivity
  BY DEF RecordDenial, WithActivity
<1>2. /\ m \in Op /\ a \in Activity /\ m.pc \in Accepted /\ ~ m.started /\ JournalOK(journal)
      /\ ran \in [Activity -> Nat] /\ History(journal, ran) /\ a.cmd = m.cmd
  BY <1>1, ActiveFacts DEF Local
<1>3. PICK visible \in BOOLEAN : visible = (a.kind # "provider")
  OBVIOUS
<1>4. PICK detached \in BOOLEAN : detached = FALSE
  OBVIOUS
<1> DEFINE j == MarkedAnswered(journal, a, "denied", visible)
           n == Failing(d, "denied")
<1>5. Append(p, detached, j, m, n)
  BY <1>3, <1>4 DEF RecordDenial
<1>6. d \in Op /\ d.active = None /\ d.cmd = m.cmd
  <2>1. "deny" \in Steps /\ None \in Activity \cup {None}
    BY DEF Steps
  <2>2. d = Activate(m, None, "deny")
    BY DEF Deactivate
  <2> HIDE DEF d, m
  <2> QED
    BY <1>2, <2>1, <2>2, ActivateFields
<1>7. "denied" \in Ended
  BY DEF Ended
<1> HIDE DEF d
<1>8. Tidy(d)
  BY <1>6 DEF Tidy
<1>9. n \in Op /\ Local(n) /\ n.pc = "failing" /\ (Traced(j, ran, d) => Agree(j, ran, n))
  BY <1>6, <1>7, <1>8, FailingLocal, FailingOp
<1>10. n.pc \in Accepted
  BY <1>9 DEF Accepted, InTurn, Steps
<1>11. ASSUME Agree(journal, ran, m)
       PROVE  History(j, ran) /\ Stands(journal, j) /\ Agree(j, ran, n)
  <2>1. /\ journal.act[a] \in {"planned", "authorized"} /\ ran[a] = 0
        /\ journal.turn[a.cmd] = "active"
        /\ \A b \in Activity : b.cmd = a.cmd => journal.act[b] # "started"
        /\ a.kind # "provider" => journal.answers[a.cmd][a.call] = 0
    BY <1>1, <1>2, <1>11, UntouchedFacts
  <2>2. journal.act[a] \notin Ended
    BY <2>1 DEF Ended
  <2>3. Visible(a) => a.kind # "provider"
    BY DEF Visible
  <2> HIDE DEF a, m
  <2>4. ASSUME NEW status \in Ended, status = "denied"
        PROVE  LET i == MarkedAnswered(journal, a, status, visible) IN
                 /\ History(i, ran) /\ Stands(journal, i)
                 /\ i.turn = journal.turn /\ i.act = [journal.act EXCEPT ![a] = status]
    <3>1. LET i == MarkedAnswered(journal, a, status, visible) IN History(i, ran) /\ Stands(journal, i)
      BY <1>2, <1>3, <2>1, <2>2, <2>3, <2>4, EndedHistory
    <3>2. a \in Activity /\ JournalOK(journal) /\ (visible => a.kind # "provider")
      BY <1>2, <1>3
    <3>3. /\ MarkedAnswered(journal, a, status, visible).turn = journal.turn
          /\ MarkedAnswered(journal, a, status, visible).act = [journal.act EXCEPT ![a] = status]
      BY <3>2, MarkedAnsweredFields
    <3> QED
      BY <3>1, <3>3
  <2>5. /\ History(j, ran) /\ Stands(journal, j)
        /\ j.turn = journal.turn /\ j.act = [journal.act EXCEPT ![a] = "denied"]
    BY <1>7, <2>4
  <2> HIDE DEF j
  <2>6. \A b \in Activity : b.cmd = m.cmd => j.act[b] # "started"
    BY <1>2, <2>1, <2>5 DEF JournalOK
  <2>7. Traced(j, ran, d)
    BY <1>2, <1>6, <2>1, <2>5, <2>6 DEF Traced
  <2> QED
    BY <1>9, <2>5, <2>7
<1> HIDE DEF j, n
<1> QED
  BY <1>2, <1>5, <1>9, <1>10, <1>11, AppendOwned

\* The authorization and the start of the active activity.
LEMMA RecordKeeps ==
  ASSUME EffectInv, Inv', NEW p \in Proc, RecordDecision(p) \/ RecordStart(p)
  PROVE  Keeps
<1> DEFINE m == me[p]
           a == m.active
<1>1. m.pc \in {"allow", "start"} /\ m.pc \in WithActivity
  BY DEF RecordDecision, RecordStart, WithActivity
<1>2. /\ m \in Op /\ a \in Activity /\ m.pc \in Accepted /\ ~ m.started /\ ~ m.dispatched /\ ~ m.requires
      /\ JournalOK(journal) /\ ran \in [Activity -> Nat] /\ History(journal, ran) /\ Local(m)
  BY <1>1, ActiveFacts DEF Local
<1> DEFINE Writes(status, n) ==
        /\ Append(p, FALSE, Marked(journal, a, status), m, n)
        /\ \/ status = "authorized" /\ n = To(m, "start")
           \/ status = "started" /\ n = [To(m, "dispatch") EXCEPT !.started = TRUE]
<1>0. PICK status \in {"authorized", "started"} : \E n : Writes(status, n)
  BY DEF RecordDecision, RecordStart
<1>3. PICK n :
        /\ Append(p, FALSE, Marked(journal, a, status), m, n)
        /\ \/ status = "authorized" /\ n = To(m, "start")
           \/ status = "started" /\ n = [To(m, "dispatch") EXCEPT !.started = TRUE]
  BY <1>0
<1> HIDE DEF Writes
<1> DEFINE j == Marked(journal, a, status)
<1>4. /\ n \in Op /\ SameWork(m, n) /\ ~ n.dispatched /\ ~ n.requires
      /\ n.pc = IF status = "started" THEN "dispatch" ELSE "start"
      /\ n.started <=> status = "started"
  <2>1. CASE n = To(m, "start") /\ status = "authorized"
    <3>1. "start" \in Steps
      BY DEF Steps
    <3> HIDE DEF m
    <3> QED
      BY <1>2, <2>1, <3>1, ToFields DEF SameWork
  <2>2. CASE n = [To(m, "dispatch") EXCEPT !.started = TRUE] /\ status = "started"
    <3> DEFINE t == To(m, "dispatch")
    <3>1. "dispatch" \in Steps
      BY DEF Steps
    <3> HIDE DEF m
    <3>2. t \in Op /\ SameWork(m, t) /\ ~ t.dispatched /\ ~ t.requires /\ t.pc = "dispatch"
      BY <1>2, <3>1, ToFields DEF SameWork
    <3>3. n = [t EXCEPT !.started = TRUE]
      BY <2>2
    <3> HIDE DEF t
    <3> QED
      BY <2>2, <3>2, <3>3 DEF SameWork, Op
  <2> QED
    BY <1>3, <2>1, <2>2
<1>5. n.pc \in WithActivity \ {"ending"} /\ n.pc \in WithActivity /\ n.pc \notin {"running", "ending", "checkpoint", "revalidate"}
      /\ (n.started <=> n.pc \in {"dispatch", "running", "ending"})
  BY <1>4 DEF WithActivity
<1>6. Local(n) /\ n.pc \in Accepted
  BY <1>1, <1>2, <1>4, <1>5, OnwardLocal
<1>7. ASSUME Agree(journal, ran, m)
      PROVE  History(j, ran) /\ Stands(journal, j) /\ Agree(j, ran, n)
  <2>1. /\ journal.act[a] \in {"planned", "authorized"} /\ ran[a] = 0
        /\ journal.turn[a.cmd] = "active"
        /\ \A b \in Activity : b.cmd = a.cmd /\ journal.act[b] = "started" => b = a
        /\ a.kind # "provider" => journal.answers[a.cmd][a.call] = 0
    BY <1>1, <1>2, <1>7, UntouchedFacts
  <2>2. Visible(a) => a.kind # "provider"
    BY DEF Visible
  <2>3. Agree(j, ran, n)
    BY <1>1, <1>2, <1>4, <1>5, <1>7, <2>1, MarkedAgree
  <2>4. History(j, ran) /\ Stands(journal, j)
    <3> HIDE DEF a, m
    <3>1. CASE status = "authorized"
      BY <1>2, <2>1, <3>1, PlannedHistory
    <3>2. CASE status = "started"
      BY <1>2, <2>1, <2>2, <3>2, StartedHistory
    <3> QED
      BY <3>1, <3>2
  <2> QED
    BY <2>3, <2>4
<1>8. FALSE \in BOOLEAN /\ Append(p, FALSE, j, m, n)
  BY <1>3
<1> HIDE DEF j
<1> QED
  BY <1>2, <1>4, <1>6, <1>7, <1>8, AppendOwned

\* The effect: the process that may still start one owns the journal.
LEMMA DispatchKeeps ==
  ASSUME EffectInv, Inv', NEW p \in Proc, Dispatch(p)
  PROVE  Keeps
<1> DEFINE m == me[p]
           a == m.active
           t == To(m, "running")
           n == [t EXCEPT !.dispatched = TRUE]
<1>1. /\ m.pc = "dispatch" /\ m.pc \in WithActivity /\ m.pc # "failing"
      /\ me' = [me EXCEPT ![p] = n]
      /\ UNCHANGED <<journal, lock, drift, cancelled, mishaps>>
  BY DEF Dispatch, WithActivity
<1>2. /\ m \in Op /\ a \in Activity /\ a # None /\ m.pc \in Accepted /\ m.started /\ ~ m.dispatched /\ ~ m.requires
      /\ JournalOK(journal) /\ ran \in [Activity -> Nat] /\ History(journal, ran) /\ Local(m)
      /\ a.cmd = m.cmd /\ a.call = m.call
  BY <1>1, ActiveFacts DEF Local
<1>3. /\ n.pc = "running" /\ SameWork(m, n) /\ n.started /\ n.dispatched /\ ~ n.requires
  <2>1. "running" \in Steps
    BY DEF Steps
  <2> HIDE DEF m
  <2>2. t \in Op /\ SameWork(m, t) /\ t.started /\ ~ t.requires /\ t.pc = "running"
    BY <1>2, <2>1, ToFields DEF SameWork
  <2> HIDE DEF t
  <2> QED
    BY <2>2 DEF SameWork, Op
<1> HIDE DEF n
<1>4. me'[p] = n /\ me' = [me EXCEPT ![p] = me'[p]]
  BY <1>1 DEF EffectInv, Inv, TypeOK
<1>5. Local(n) /\ n.pc \in Accepted /\ n.pc \in WithActivity
  <2>1. n.pc \in WithActivity
    BY <1>3 DEF WithActivity
  <2> QED
    BY <1>1, <1>2, <1>3, <2>1, OnwardLocal
<1>6. Agree(journal, ran, m) => Agree(journal, ran, n)
  BY <1>1, <1>2, <1>3, <1>5, OnwardAgree
<1>7. Fenced(p)' /\ Knows(p)'
  BY <1>1, <1>2, <1>3, <1>4 DEF EffectInv, Fenced, Knows, NeedsLock
<1>8. CASE UNCHANGED ran
  <2>1. Owns(p)' => Owns(p) /\ Agree(journal, ran, me'[p])
    BY <1>1, <1>2, <1>3, <1>4, <1>6 DEF Owns, EffectInv
  <2> QED
    BY <1>1, <1>4, <1>5, <1>7, <1>8, <2>1, SilentKeeps DEF Same
<1>9. CASE ran' = [ran EXCEPT ![a] = @ + 1] /\ p \notin cancelled
  <2>1. Owns(p) /\ Agree(journal, ran, m)
    BY <1>1, <1>2, <1>9 DEF Owns, EffectInv
  <2>2. /\ journal.act[a] = "started" /\ ran[a] = 0
        /\ a.kind # "provider" => Waiting(journal, ran, a.cmd, a.call, a)
    BY <1>2, <2>1 DEF Agree, Traced
  <2>3. Visible(a) => a.kind # "provider"
    BY DEF Visible
  <2>4. History(journal', ran') /\ Stands(journal, journal')
    BY <1>1, <1>2, <1>9, <2>2, <2>3, DispatchedHistory DEF Stands
  <2>5. \A b \in Activity : b # a => ran'[b] = ran[b]
    BY <1>9
  <2>6. Agree(journal', ran', n)
    <3>1. Agree(journal, ran, n)
      BY <1>6, <2>1
    <3>2. n.active = a
      BY <1>3 DEF SameWork
    <3> HIDE DEF a, m
    <3>3. \A c, k : Waiting(journal, ran, c, k, a) => Waiting(journal, ran', c, k, a)
      BY <2>5 DEF Waiting
    <3>4. Traced(journal, ran', n)
      BY <1>3, <3>1, <3>2, <3>3 DEF Agree, Traced
    <3> QED
      BY <1>1, <1>3, <3>1, <3>4 DEF Agree
  <2>7. \A q \in Proc \ {p} : ~ Owns(q)'
    <3>1. \A q \in Proc \ {p} : ~ Owns(q)
      BY <2>1 DEF EffectInv
    <3>2. \A q \in Proc \ {p} : me'[q] = me[q]
      BY <1>1 DEF EffectInv, Inv, TypeOK
    <3> QED
      BY <1>1, <3>1, <3>2 DEF Owns
  <2>8. EffectInv'
    BY <1>1, <1>4, <1>5, <1>7, <2>4, <2>6, <2>7, StepKeeps
  <2> QED
    BY <2>4, <2>8 DEF Keeps
<1> QED
  BY <1>8, <1>9 DEF Dispatch

\* The effect has returned: its end is known, and not yet recorded.
LEMMA EndsWithFields ==
  ASSUME EffectInv, NEW p \in Proc, me[p].pc = "running", NEW status \in Ended
  PROVE  LET n == EndsWith(p, status) IN
           /\ n \in Op /\ n.pc = "ending" /\ n.status = status /\ SameWork(me[p], n)
           /\ n.started /\ n.dispatched /\ ~ n.requires
<1> DEFINE m == me[p]
           t == To(m, "ending")
           n == EndsWith(p, status)
<1>1. m.pc \in WithActivity /\ "ending" \in Steps
  BY DEF WithActivity, Steps
<1>2. m \in Op /\ m.started /\ m.dispatched /\ ~ m.requires
  BY <1>1, ActiveFacts DEF Local
<1>3. n = [t EXCEPT !.status = status]
  BY DEF EndsWith
<1> HIDE DEF m, n
<1>4. t \in Op /\ t.pc = "ending" /\ SameWork(m, t) /\ t.started /\ t.dispatched /\ ~ t.requires
  BY <1>1, <1>2, ToFields DEF SameWork
<1> HIDE DEF t
<1>5. /\ n \in Op /\ n.pc = "ending" /\ n.status = status /\ SameWork(m, n)
      /\ n.started /\ n.dispatched /\ ~ n.requires
  BY <1>3, <1>4 DEF Op, SameWork
<1> QED
  BY <1>5 DEF n, m

LEMMA ReturnedKeeps ==
  ASSUME EffectInv, Inv', NEW p \in Proc, me[p].pc = "running",
         NEW status \in {"succeeded", "failed", "uncertain", "interrupted_no_effect"},
         status = "succeeded" => ran[me[p].active] > 0,
         status = "interrupted_no_effect" => ran[me[p].active] = 0,
         NEW n, Goto(p, n), n.cmd = me[p].cmd, n.active = me[p].active, n.attempt = me[p].attempt,
         n.call = me[p].call, n.round = me[p].round, n.pc = "ending", n.status = status,
         n.started, n.dispatched, n.requires => Visible(me[p].active),
         \/ n.todo = me[p].todo
         \/ me[p].active.kind = "provider" /\ n.todo \subseteq Fresh(me[p].cmd)
  PROVE  Keeps
<1> DEFINE m == me[p]
           o == [m EXCEPT !.pc = "ending", !.status = status, !.todo = n.todo]
<1>1. m.pc \in WithActivity /\ n.pc \in WithActivity
  BY DEF WithActivity
<1>2. /\ m \in Op /\ m.active \in Activity /\ m.pc \in Accepted /\ m.started /\ m.dispatched
      /\ Local(m) /\ m.active.cmd = m.cmd /\ m.active # None
  BY <1>1, ActiveFacts DEF Local
<1>3. m.pc \in Accepted \ {"failing"}
  BY <1>2
<1>4. Local(n)
  <2>1. /\ m.active.call = m.call /\ m.active.kind # "synthetic"
        /\ m.active.kind = "provider" => m.active.n = m.attempt
        /\ m.active.kind \in {"preview", "mutation"} => m.active.n = m.round
        /\ m.active.kind # "provider" => n.call \notin n.todo
    BY <1>1, <1>2 DEF Local
  <2>2. Tidy(n)
    BY <1>2 DEF Tidy
  <2>3. n.pc \notin InTurn \ (WithActivity \cup {"failing"}) /\ n.pc \notin Opening \cup {"intents", "preview", "mutate"}
    BY <1>1 DEF Opening
  <2> QED
    BY <2>1, <2>2, <2>3 DEF Local
<1>5. Agree(journal, ran, m) => Agree(journal, ran, n)
  <2> SUFFICES ASSUME Agree(journal, ran, m) PROVE Agree(journal, ran, n)
    OBVIOUS
  <2>1. Traced(journal, ran, n)
    BY <1>2 DEF Agree, Traced
  <2>2. ASSUME NEW d \in Activity, Ahead(n, d)
        PROVE  journal.act[d] = "none"
    <3>1. m.pc \notin {"verify", "finish", "failing", "preview", "mutate", "freeze", "provider"}
      OBVIOUS
    <3>2. CASE Ahead(m, d)
      BY <3>1, <3>2 DEF Agree
    <3>3. CASE d.cmd = m.cmd /\ d.call \in Fresh(m.cmd)
      BY <3>3 DEF Fresh
    <3> QED
      BY <1>1, <2>2, <3>1, <3>2, <3>3 DEF Ahead
  <2> QED
    BY <2>1, <2>2 DEF Agree
<1>6. Owns(p) => Agree(journal, ran, n)
  BY <1>2, <1>5, AcceptedFacts
<1> QED
  BY <1>3, <1>4, <1>6, GotoKeeps

LEMMA ReturnsKeeps ==
  ASSUME EffectInv, Inv', NEW p \in Proc,
         ProviderReturns(p) \/ ProviderRetries(p) \/ PreviewReturns(p) \/ ToolReturns(p)
  PROVE  Keeps
<1> DEFINE m == me[p]
<1>1. m.pc = "running" /\ m.pc \in WithActivity
  BY DEF ProviderReturns, ProviderRetries, PreviewReturns, ToolReturns, WithActivity
<1>2. m \in Op /\ m.active \in Activity /\ ran[m.active] \in Nat
  BY <1>1, ActiveFacts
<1>3. \A status \in {"succeeded", "failed", "uncertain", "interrupted_no_effect"} :
        LET n == EndsWith(p, status) IN
           /\ n \in Op /\ n.pc = "ending" /\ n.status = status /\ SameWork(m, n)
           /\ n.started /\ n.dispatched /\ ~ n.requires
  <2>1. \A status \in {"succeeded", "failed", "uncertain", "interrupted_no_effect"} : status \in Ended
    BY DEF Ended
  <2> QED
    BY <1>1, <2>1, EndsWithFields
<1>4. ASSUME NEW status \in {"succeeded", "failed", "uncertain", "interrupted_no_effect"},
             status = "succeeded" => ran[m.active] > 0,
             status = "interrupted_no_effect" => ran[m.active] = 0,
             NEW n,
             \/ n = EndsWith(p, status)
             \/ n = [EndsWith(p, status) EXCEPT !.retried = TRUE]
             \/ n = [EndsWith(p, status) EXCEPT !.requires = TRUE] /\ Visible(m.active)
             \/ /\ m.active.kind = "provider"
                /\ \E todo \in SUBSET Fresh(m.cmd) : n = [EndsWith(p, status) EXCEPT !.todo = todo],
             Goto(p, n)
      PROVE  Keeps
  <2> DEFINE t == EndsWith(p, status)
  <2>1. /\ t \in Op /\ t.pc = "ending" /\ t.status = status /\ SameWork(m, t)
        /\ t.started /\ t.dispatched /\ ~ t.requires
    BY <1>3
  <2> HIDE DEF t, m
  <2>2. /\ n.cmd = m.cmd /\ n.active = m.active /\ n.attempt = m.attempt
        /\ n.call = m.call /\ n.round = m.round /\ n.pc = "ending" /\ n.status = status
        /\ n.started /\ n.dispatched /\ (n.requires => Visible(m.active))
        /\ n.todo = m.todo \/ (m.active.kind = "provider" /\ n.todo \subseteq Fresh(m.cmd))
    <3>1. CASE n = t
      BY <2>1, <3>1 DEF SameWork
    <3>2. CASE n = [t EXCEPT !.retried = TRUE]
      BY <2>1, <3>2 DEF SameWork, Op
    <3>3. CASE n = [t EXCEPT !.requires = TRUE] /\ Visible(m.active)
      BY <2>1, <3>3 DEF SameWork, Op
    <3>4. CASE m.active.kind = "provider" /\ \E todo \in SUBSET Fresh(m.cmd) : n = [t EXCEPT !.todo = todo]
      BY <2>1, <3>4 DEF SameWork, Op
    <3> QED
      BY <1>4, <3>1, <3>2, <3>3, <3>4 DEF t, m
  <2> QED
    BY <1>1, <1>4, <2>2, ReturnedKeeps DEF m
<1>5. CASE ProviderReturns(p)
  BY <1>1, <1>4, <1>5 DEF ProviderReturns
<1>6. CASE ProviderRetries(p)
  BY <1>1, <1>4, <1>6 DEF ProviderRetries
<1>7. CASE PreviewReturns(p)
  BY <1>1, <1>4, <1>7 DEF PreviewReturns
<1>8. CASE ToolReturns(p)
  BY <1>1, <1>4, <1>8 DEF ToolReturns, OwesResult
<1> QED
  BY <1>5, <1>6, <1>7, <1>8

\* An error in the middle of a turn: terminalizeTurnFailure will end it.
LEMMA ErrorKeeps ==
  ASSUME EffectInv, Inv', NEW p \in Proc, EffectFails(p) \/ Stop(p)
  PROVE  Keeps
<1> DEFINE m == me[p]
<1>1. /\ m.pc \in Stoppable \cup {"running"} /\ UNCHANGED <<journal, ran, lock, drift, cancelled>>
      /\ Failed(p, m, Cause(p, FALSE)) /\ me \in [Proc -> Op]
  BY DEF EffectFails, Stop, EffectInv, Inv, TypeOK
<1>2. m.pc \in Accepted /\ m.pc \notin {"accept", "failing", "r-settle"}
  BY <1>1 DEF Stoppable, Accepted, InTurn, Steps
<1>3. m \in Op /\ Tidy(m) /\ (Owns(p) => Traced(journal, ran, m)) /\ NeedsLock(m)
  BY <1>2, AcceptedFacts DEF NeedsLock
<1>4. PICK cause \in Ended : Failed(p, m, cause)
  BY <1>1, CauseTyped
<1>5. me' = [me EXCEPT ![p] = Failing(m, cause)]
  BY <1>2, <1>4 DEF Failed
<1> HIDE DEF m
<1>6. /\ me' = [me EXCEPT ![p] = me'[p]] /\ Local(me'[p]) /\ me'[p].pc = "failing"
      /\ Traced(journal, ran, m) => Agree(journal, ran, me'[p])
  BY <1>1, <1>3, <1>4, <1>5, FailingLocal
<1>7. Owns(p)' => Owns(p) /\ Agree(journal, ran, me'[p])
  BY <1>1, <1>2, <1>3, <1>6 DEF Owns, m
<1>8. Fenced(p)' /\ Knows(p)'
  BY <1>1, <1>3, <1>6 DEF EffectInv, Fenced, Knows, m
<1> QED
  BY <1>1, <1>6, <1>7, <1>8, SilentKeeps DEF Same

\* What an activity may still be planned for behind the end of the active one.
LEMMA BehindFields ==
  ASSUME NEW m \in Op, Local(m), m.pc \in WithActivity, m.active \in Activity, m.active # None
  PROVE  /\ m.active.cmd = m.cmd /\ m.active.call = m.call /\ m.active.kind # "synthetic"
         /\ m.active.kind = "provider" => m.active.n = m.attempt /\ m.call = None
         /\ m.active.kind \in {"preview", "mutation"} => m.active.n = m.round
         /\ m.active.kind # "provider" => m.call \notin m.todo
         /\ \A d \in Activity : d.n \in Nat /\ (d.kind # "provider" => d.call # None)
<1>1. m.pc \in InTurn
  BY DEF WithActivity, InTurn, Steps
<1>2. m.active.kind = "provider" => m.active.call = None
  BY DEF Activity
<1>3. \A d \in Activity : d.n \in Nat
  BY BoundsAssumption DEF Activity
<1>4. \A d \in Activity : d.kind # "provider" => d.call # None
  BY ActivityShape, NamesAssumption
<1> QED
  BY <1>1, <1>2, <1>3, <1>4 DEF Local, Tidy

LEMMA AfterActivityFields ==
  ASSUME NEW m, OpOK(m), Local(m), m.pc = "ending", m.active \in Activity, m.active # None
  PROVE  LET n == AfterActivity(m) IN
           /\ n \in Op /\ Local(n) /\ n.pc \in Accepted /\ n.pc \notin WithActivity /\ n.pc # "failing"
           /\ n.cmd = m.cmd /\ n.active = None
           /\ n.pc \in {"preview", "mutate"} => m.active.kind = "preview" /\ n.call = m.call
           /\ n.pc # "verify" => \A d \in Activity : Ahead(n, d) => Ahead(m, d) /\ d # m.active
<1> DEFINE n == AfterActivity(m)
           a == m.active
<1>1. m \in Op /\ m.pc \in WithActivity /\ m.pc \in InTurn /\ m.cmd \in Cmd
  BY DEF OpOK, WithActivity, InTurn, Steps
<1>2. /\ a.cmd = m.cmd /\ a.call = m.call /\ a.kind # "synthetic"
      /\ a.kind = "provider" => a.n = m.attempt /\ m.call = None
      /\ a.kind \in {"preview", "mutation"} => a.n = m.round
      /\ a.kind # "provider" => m.call \notin m.todo
      /\ \A d \in Activity : d.n \in Nat /\ (d.kind # "provider" => d.call # None)
  BY <1>1, BehindFields
<1>3. m.attempt \in Nat /\ m.round \in Nat
  BY <1>1 DEF Op
<1>4. \A pc \in {"mutate", "intents", "provider"} : LET t == Deactivate(m, pc) IN
           /\ t \in Op /\ t.pc = pc /\ t.cmd = m.cmd /\ t.active = None /\ t.attempt = m.attempt
           /\ t.todo = m.todo /\ t.call = m.call /\ t.round = m.round
  <2>1. ASSUME NEW pc \in {"mutate", "intents", "provider"}
        PROVE LET t == Deactivate(m, pc) IN
           /\ t \in Op /\ t.pc = pc /\ t.cmd = m.cmd /\ t.active = None /\ t.attempt = m.attempt
           /\ t.todo = m.todo /\ t.call = m.call /\ t.round = m.round
    <3>1. pc \in Steps
      BY DEF Steps
    <3> QED
      BY <1>1, <3>1, DeactivateFields
  <2> QED
    BY <2>1
<1>5. m.pc \notin {"freeze", "provider", "preview", "mutate"}
  OBVIOUS
<1> HIDE DEF n
<1>6. CASE a.kind = "preview"
  <2>1. n = Deactivate(m, "mutate")
    BY <1>6 DEF n, AfterActivity
  <2>2. /\ n \in Op /\ n.pc = "mutate" /\ n.cmd = m.cmd /\ n.active = None /\ n.attempt = m.attempt
        /\ n.todo = m.todo /\ n.call = m.call /\ n.round = m.round
    BY <1>4, <2>1
  <2>3. Local(n) /\ n.pc \in Accepted
    BY <1>2, <1>6, <2>2 DEF Local, Tidy, WithActivity, Opening, Accepted, InTurn, Steps
  <2>4. ASSUME NEW d \in Activity, Ahead(n, d)
        PROVE  Ahead(m, d) /\ d # a
    BY <1>1, <1>2, <1>3, <1>6, <2>2, <2>4 DEF Ahead
  <2> QED
    BY <1>6, <2>2, <2>3, <2>4 DEF WithActivity, n
<1>7. CASE a.kind = "provider" /\ m.status = "interrupted_no_effect"
  <2> DEFINE t == Deactivate(m, "provider")
  <2>1. n = [t EXCEPT !.attempt = @ + 1]
    BY <1>7 DEF n, AfterActivity
  <2>2. m.todo = {} /\ m.attempt < LastAttempt
    BY <1>1, <1>7 DEF OpOK
  <2>3. t \in Op /\ t.pc = "provider" /\ t.cmd = m.cmd /\ t.active = None /\ t.attempt = m.attempt
        /\ t.todo = m.todo /\ t.call = m.call /\ t.round = m.round
    BY <1>4
  <2> HIDE DEF t
  <2>4. m.attempt + 1 \in 0 .. LastAttempt
    BY <1>3, <2>2, BoundsAssumption
  <2>5. /\ n \in Op /\ n.pc = "provider" /\ n.cmd = m.cmd /\ n.active = None /\ n.attempt = m.attempt + 1
        /\ n.todo = {} /\ n.call = None /\ n.round = m.round
    BY <1>2, <1>7, <2>1, <2>2, <2>3, <2>4 DEF Op
  <2>6. Local(n) /\ n.pc \in Accepted
    BY <2>5 DEF Local, Tidy, WithActivity, Opening, Accepted, InTurn, Steps
  <2>7. ASSUME NEW d \in Activity, Ahead(n, d)
        PROVE  Ahead(m, d) /\ d # a
    BY <1>1, <1>2, <1>3, <1>7, <2>5, <2>7 DEF Ahead, WithActivity
  <2> QED
    BY <2>5, <2>6, <2>7 DEF WithActivity, n
<1>8. CASE a.kind = "provider" /\ m.status = "succeeded" /\ m.todo = {}
  <2>1. n = [NoOp EXCEPT !.pc = "verify", !.cmd = m.cmd]
    BY <1>8 DEF n, AfterActivity
  <2>2. n \in Op /\ n.pc = "verify" /\ n.cmd = m.cmd /\ n.active = None
    <3>1. "verify" \in Steps
      BY DEF Steps
    <3> QED
      BY <1>1, <2>1, <3>1, LeavingFields DEF Op
  <2>3. Local(n) /\ n.pc \in Accepted
    BY <2>2 DEF Local, Tidy, WithActivity, Opening, Accepted, InTurn, Steps
  <2> QED
    BY <2>2, <2>3 DEF WithActivity, n
<1>9. CASE a.kind = "provider" /\ m.status = "succeeded" /\ m.todo # {}
  <2>1. n = Deactivate(m, "intents")
    BY <1>9 DEF n, AfterActivity
  <2>2. /\ n \in Op /\ n.pc = "intents" /\ n.cmd = m.cmd /\ n.active = None /\ n.attempt = m.attempt
        /\ n.todo = m.todo /\ n.call = None /\ n.round = m.round
    BY <1>2, <1>4, <1>9, <2>1
  <2>3. Local(n) /\ n.pc \in Accepted
    BY <2>2 DEF Local, Tidy, WithActivity, Opening, Accepted, InTurn, Steps
  <2>4. ASSUME NEW d \in Activity, Ahead(n, d)
        PROVE  Ahead(m, d) /\ d # a
    BY <1>1, <1>2, <1>3, <1>9, <2>2, <2>4 DEF Ahead, WithActivity
  <2> QED
    BY <2>2, <2>3, <2>4 DEF WithActivity, n
<1>10. CASE a.kind \notin {"preview", "provider"}
  <2>1. n = AfterIntent(m)
    BY <1>10 DEF n, AfterActivity
  <2>2. m.attempt < LastAttempt
    BY <1>1, <1>10 DEF OpOK, MayGoOn
  <2>3. /\ n \in Op /\ Local(n) /\ n.pc \in Accepted
        /\ n.pc \in {"provider", "intents"} /\ n.cmd = m.cmd /\ n.active = None
        /\ \A d \in Activity : Ahead(n, d) =>
              /\ d.cmd = m.cmd
              /\ \/ d.kind = "provider" /\ d.n > m.attempt
                 \/ d.kind # "provider" /\ d.call \in m.todo
    BY <1>1, <2>1, <2>2, AfterIntentFields
  <2>4. \A d \in Activity : Ahead(n, d) => Ahead(m, d) /\ d # a
    BY <1>2, <1>10, <2>3 DEF Ahead
  <2> QED
    BY <2>3, <2>4 DEF WithActivity, n
<1>11. a.kind = "provider" => m.status \in {"succeeded", "interrupted_no_effect"}
  BY <1>1 DEF OpOK
<1> QED
  BY <1>6, <1>7, <1>8, <1>9, <1>10, <1>11

\* An activity has ended, and its call has its result.
LEMMA EndActivityKeeps ==
  ASSUME EffectInv, Inv', NEW p \in Proc, EndActivity(p)
  PROVE  Keeps
<1> DEFINE m == me[p]
           a == m.active
           n == AfterActivity(m)
<1>1. m.pc = "ending" /\ m.pc \in WithActivity
  BY DEF EndActivity, WithActivity
<1>2. /\ m \in Op /\ OpOK(m) /\ Local(m) /\ a \in Activity /\ a # None /\ m.pc \in Accepted
      /\ JournalOK(journal) /\ ran \in [Activity -> Nat] /\ History(journal, ran)
      /\ a.cmd = m.cmd /\ a.call = m.call /\ m.started
      /\ m.status \in {"succeeded", "failed", "uncertain", "interrupted_no_effect"}
  BY <1>1, ActiveFacts DEF Local
<1>3. PICK detached \in BOOLEAN, visible \in BOOLEAN, status \in Ended :
        /\ Append(p, detached, MarkedAnswered(journal, a, status, visible), m, n)
        /\ visible <=> Visible(a)
        /\ status = m.status
  <2>1. m.status \in Ended
    BY <1>2 DEF Ended
  <2>2. (m.status \in {"uncertain", "interrupted_no_effect"}) \in BOOLEAN /\ Visible(a) \in BOOLEAN
    BY DEF Visible
  <2>3. Append(p, m.status \in {"uncertain", "interrupted_no_effect"},
               MarkedAnswered(journal, a, m.status, Visible(a)), m, n)
    BY DEF EndActivity
  <2> QED
    BY <2>1, <2>2, <2>3
<1> DEFINE j == MarkedAnswered(journal, a, status, visible)
<1>4. /\ n \in Op /\ Local(n) /\ n.pc \in Accepted /\ n.pc \notin WithActivity /\ n.pc # "failing"
      /\ n.cmd = m.cmd /\ n.active = None
      /\ n.pc \in {"preview", "mutate"} => a.kind = "preview" /\ n.call = m.call
      /\ n.pc # "verify" => \A d \in Activity : Ahead(n, d) => Ahead(m, d) /\ d # a
  BY <1>1, <1>2, AfterActivityFields
<1>5. visible => a.kind # "provider"
  BY <1>3 DEF Visible
<1> HIDE DEF n, a, m
<1>6. /\ j.turn = journal.turn /\ j.act = [journal.act EXCEPT ![a] = status]
      /\ ~ visible => j.answers = journal.answers
  BY <1>2, <1>5, MarkedAnsweredFields
<1>7. ASSUME Agree(journal, ran, m)
      PROVE  History(j, ran) /\ Stands(journal, j) /\ Agree(j, ran, n)
  <2>1. /\ journal.turn[a.cmd] = "active" /\ journal.act[a] = "started"
        /\ \A b \in Activity : b.cmd = a.cmd /\ journal.act[b] = "started" => b = a
        /\ a.kind # "provider" => Waiting(journal, ran, a.cmd, a.call, a)
        /\ status = "interrupted_no_effect" => ran[a] = 0
        /\ status = "succeeded" => ran[a] > 0
    BY <1>1, <1>2, <1>3, <1>7 DEF Agree, Traced, a
  <2>2. journal.act[a] \notin Ended /\ status \notin {"denied", "cancelled"}
    BY <1>2, <1>3, <2>1 DEF Ended
  <2>3. visible => journal.answers[a.cmd][a.call] = 0
    BY <1>5, <2>1 DEF Waiting
  <2>4. History(j, ran) /\ Stands(journal, j)
    BY <1>2, <1>3, <1>5, <2>1, <2>2, <2>3, EndedHistory
  <2> HIDE DEF j
  <2>5. n.pc \in {"preview", "mutate"} => Waiting(j, ran, n.cmd, n.call, None)
    <3>1. CASE n.pc \in {"preview", "mutate"}
      <4>1. ~ Visible(a) /\ n.cmd = a.cmd /\ n.call = a.call /\ Waiting(journal, ran, a.cmd, a.call, a)
        BY <1>2, <1>4, <2>1, <3>1 DEF Visible
      <4>2. j.answers = journal.answers
        BY <1>3, <1>6, <4>1
      <4> QED
        BY <4>1, <4>2 DEF Waiting
    <3> QED
      BY <3>1
  <2>6. m.pc \notin {"verify", "finish", "failing"} /\ m.active \in Activity \cup {None}
    BY <1>1, <1>2 DEF a
  <2>7. m.active = a
    BY DEF a
  <2>8. Agree(j, ran, n)
    BY <1>2, <1>3, <1>4, <1>6, <1>7, <2>5, <2>6, <2>7, BehindAgree
  <2> QED
    BY <2>4, <2>8
<1>8. Append(p, detached, j, m, n)
  BY <1>3
<1> HIDE DEF j
<1> QED
  BY <1>2, <1>4, <1>7, <1>8, AppendOwned DEF m

\* A plan that drifted: another preview, or a result that says so.
LEMMA DriftRoundKeeps ==
  ASSUME EffectInv, Inv', NEW p \in Proc, DriftRound(p)
  PROVE  Keeps
<1> DEFINE m == me[p]
           a == m.active
<1>1. m.pc = "revalidate" /\ m.pc \in WithActivity /\ m.pc \in InTurn
  BY DEF DriftRound, WithActivity, InTurn, Steps
<1>2. /\ m \in Op /\ OpOK(m) /\ Local(m) /\ a \in Activity /\ a # None /\ m.pc \in Accepted
      /\ JournalOK(journal) /\ ran \in [Activity -> Nat] /\ History(journal, ran)
      /\ a.cmd = m.cmd /\ a.call = m.call /\ ~ m.started /\ a.kind = "mutation"
      /\ m.attempt < LastAttempt /\ Tidy(m)
  BY <1>1, ActiveFacts DEF Local, OpOK, WithCall, MayGoOn
<1>3. /\ a.n = m.round /\ m.call \notin m.todo
      /\ \A d \in Activity : d.n \in Nat /\ (d.kind # "provider" => d.call # None)
  BY <1>1, <1>2, BehindFields
<1>4. m.attempt \in Nat /\ m.round \in Nat
  BY <1>2 DEF Op
<1>5. Agree(journal, ran, m) =>
           /\ journal.act[a] \in {"planned", "authorized"} /\ ran[a] = 0
           /\ journal.turn[a.cmd] = "active"
           /\ \A b \in Activity : b.cmd = a.cmd /\ journal.act[b] = "started" => b = a
           /\ journal.answers[a.cmd][a.call] = 0 /\ Waiting(journal, ran, a.cmd, a.call, a)
  BY <1>1, <1>2, UntouchedFacts
<1>0. PICK visible \in BOOLEAN, detached \in BOOLEAN, status \in {"cancelled", "failed"} :
        \E before, n, j :
          /\ Append(p, detached, j, before, n) /\ j = MarkedAnswered(journal, a, status, visible)
          /\ \/ /\ ~ visible /\ before = m /\ m.round < LastRound
                /\ n = [Deactivate(m, "preview") EXCEPT !.round = @ + 1]
             \/ visible /\ before = [m EXCEPT !.requires = TRUE] /\ n = AfterIntent(m)
  <2>1. CASE m.round < LastRound
    <3>1. Append(p, FALSE, Marked(journal, a, "cancelled"), m, [Deactivate(m, "preview") EXCEPT !.round = @ + 1])
      BY <2>1 DEF DriftRound
    <3>2. \A visible : ~ visible => MarkedAnswered(journal, a, "cancelled", visible) = Marked(journal, a, "cancelled")
      BY DEF MarkedAnswered
    <3>3. PICK visible \in BOOLEAN, detached \in BOOLEAN : ~ visible /\ detached = FALSE
      OBVIOUS
    <3> QED
      BY <2>1, <3>1, <3>2, <3>3
  <2>2. CASE ~ (m.round < LastRound)
    BY <2>2 DEF DriftRound
  <2> QED
    BY <2>1, <2>2
<1>6. PICK before, n, j :
        /\ Append(p, detached, j, before, n) /\ j = MarkedAnswered(journal, a, status, visible)
        /\ \/ /\ ~ visible /\ before = m /\ m.round < LastRound
              /\ n = [Deactivate(m, "preview") EXCEPT !.round = @ + 1]
           \/ visible /\ before = [m EXCEPT !.requires = TRUE] /\ n = AfterIntent(m)
  BY <1>0
<1>7. status \in Ended
  BY DEF Ended
<1> HIDE DEF m, a
<1>8. /\ before \in Op /\ before.pc = m.pc /\ Tidy(before)
      /\ \A i, r : Traced(i, r, m) => Traced(i, r, before)
  <2>1. CASE before = m
    BY <1>2, <2>1
  <2>2. CASE before = [m EXCEPT !.requires = TRUE]
    <3>1. /\ before \in Op /\ before.pc = m.pc /\ before.cmd = m.cmd /\ before.active = m.active
          /\ before.started = m.started /\ before.dispatched = m.dispatched
      BY <1>2, <2>2 DEF Op
    <3> QED
      BY <1>2, <3>1 DEF Tidy, Traced, Visible, a
  <2> QED
    BY <1>6, <2>1, <2>2
<1>9. /\ n \in Op /\ Local(n) /\ n.pc \in Accepted /\ n.pc \notin WithActivity
      /\ n.pc \notin {"verify", "finish", "failing", "mutate"}
      /\ n.cmd = m.cmd /\ n.active = None
      /\ n.pc = "preview" => n.call = m.call /\ ~ visible
      /\ \A d \in Activity : Ahead(n, d) => Ahead(m, d) /\ d # a
  <2>1. CASE ~ visible /\ m.round < LastRound /\ n = [Deactivate(m, "preview") EXCEPT !.round = @ + 1]
    <3> DEFINE t == Activate(m, None, "preview")
    <3>1. "preview" \in Steps /\ None \in Activity \cup {None} /\ m.round + 1 \in 0 .. LastRound
      BY <1>4, <2>1, BoundsAssumption DEF Steps
    <3>2. /\ t \in Op /\ t.pc = "preview" /\ t.cmd = m.cmd /\ t.active = None /\ t.attempt = m.attempt
          /\ t.todo = m.todo /\ t.call = m.call /\ t.round = m.round
      BY <1>2, <3>1, ActivateFields
    <3>3. n = [t EXCEPT !.round = @ + 1]
      BY <2>1 DEF Deactivate
    <3> HIDE DEF t
    <3>4. /\ n \in Op /\ n.pc = "preview" /\ n.cmd = m.cmd /\ n.active = None /\ n.attempt = m.attempt
          /\ n.todo = m.todo /\ n.call = m.call /\ n.round = m.round + 1
      BY <3>1, <3>2, <3>3 DEF Op
    <3>5. Local(n) /\ n.pc \in Accepted
      BY <1>3, <3>4 DEF Local, Tidy, WithActivity, Opening, Accepted, InTurn, Steps
    <3>6. ASSUME NEW d \in Activity, Ahead(n, d)
          PROVE  Ahead(m, d) /\ d # a
      BY <1>1, <1>2, <1>3, <1>4, <3>4, <3>6 DEF Ahead, WithActivity
    <3> QED
      BY <2>1, <3>4, <3>5, <3>6 DEF WithActivity
  <2>2. CASE visible /\ n = AfterIntent(m)
    <3>1. /\ n \in Op /\ Local(n) /\ n.pc \in Accepted
          /\ n.pc \in {"provider", "intents"} /\ n.cmd = m.cmd /\ n.active = None
          /\ \A d \in Activity : Ahead(n, d) =>
               /\ d.cmd = m.cmd
               /\ \/ d.kind = "provider" /\ d.n > m.attempt
                  \/ d.kind # "provider" /\ d.call \in m.todo
      BY <1>1, <1>2, <2>2, AfterIntentFields
    <3>2. \A d \in Activity : Ahead(n, d) => Ahead(m, d) /\ d # a
      BY <1>2, <1>3, <3>1 DEF Ahead
    <3> QED
      BY <3>1, <3>2 DEF WithActivity
  <2> QED
    BY <1>6, <2>1, <2>2
<1>10. visible => a.kind # "provider"
  BY <1>2
<1>11. /\ j.turn = journal.turn /\ j.act = [journal.act EXCEPT ![a] = status]
       /\ ~ visible => j.answers = journal.answers
  BY <1>2, <1>6, <1>7, <1>10, MarkedAnsweredFields
<1>12. ASSUME Agree(journal, ran, m)
       PROVE  History(j, ran) /\ Stands(journal, j) /\ Agree(j, ran, n)
  <2>1. journal.act[a] \notin Ended /\ status # "succeeded"
    BY <1>5, <1>12 DEF Ended
  <2>2. History(j, ran) /\ Stands(journal, j)
    BY <1>2, <1>5, <1>6, <1>7, <1>10, <1>12, <2>1, EndedHistory
  <2>3. n.pc \in {"preview", "mutate"} => Waiting(j, ran, n.cmd, n.call, None)
    <3>1. CASE n.pc = "preview"
      <4>0. ~ visible /\ n.call = m.call /\ n.cmd = m.cmd
        BY <1>9, <3>1
      <4>1. n.call = a.call /\ n.cmd = a.cmd /\ j.answers = journal.answers
        <5>1. a.call = m.call /\ a.cmd = m.cmd
          BY <1>2
        <5>2. j.answers = journal.answers
          BY <1>11, <4>0
        <5> QED
          BY <4>0, <5>1, <5>2
      <4>2. journal.answers[a.cmd][a.call] = 0 /\ Waiting(journal, ran, a.cmd, a.call, a) /\ ran[a] = 0
        BY <1>5, <1>12
      <4>3. Waiting(j, ran, a.cmd, a.call, None)
        BY <4>1, <4>2 DEF Waiting
      <4> QED
        BY <4>1, <4>3
    <3> QED
      BY <1>9, <3>1
  <2>4. m.pc \notin {"verify", "finish", "failing"} /\ m.active = a /\ m.active \in Activity \cup {None}
    BY <1>1, <1>2 DEF a
  <2>5. JournalOK(journal) /\ a \in Activity /\ a.cmd = m.cmd
    BY <1>2
  <2>6. /\ n.cmd = m.cmd /\ n.active = None /\ n.pc \notin WithActivity
        /\ \A d \in Activity : Ahead(n, d) => Ahead(m, d) /\ d # a
    BY <1>9
  <2>7. Agree(j, ran, n)
    <3>1. j.turn = journal.turn /\ j.act = [journal.act EXCEPT ![a] = status]
      BY <1>11
    <3>2. (m.active # None => m.active = a) /\ (Ahead(m, a) \/ m.active = a)
      BY <2>4
    <3> QED
      BY <1>7, <1>12, <2>3, <2>4, <2>5, <2>6, <3>1, <3>2, BehindAgree
  <2> QED
    BY <2>2, <2>7
<1>13. Owns(p) => Traced(journal, ran, before)
  <2>1. Owns(p) => Traced(journal, ran, m)
    BY <1>2, AcceptedFacts DEF m
  <2> QED
    BY <1>8, <2>1
<1>14. Appendable(p, detached) => Agree(journal, ran, m)
  BY <1>2, AcceptedFacts DEF m
<1>15. Append(p, detached, j, before, n)
  BY <1>6
<1> QED
  BY <1>2, <1>8, <1>9, <1>12, <1>13, <1>14, <1>15, AppendKeeps DEF m

-----------------------------------------------------------------------------
\* The end of a turn.

LEMMA RecordVerificationKeeps ==
  ASSUME EffectInv, Inv', NEW p \in Proc, RecordVerification(p)
  PROVE  Keeps
<1> DEFINE m == me[p]
           n == To(m, "finish")
<1>1. m.pc = "verify" /\ Append(p, FALSE, journal, m, n)
  BY DEF RecordVerification
<1>2. m.pc \in Accepted /\ m.pc \in InTurn /\ m \in Op /\ Local(m)
  BY <1>1, AcceptedFacts DEF Accepted, InTurn, Steps
<1>3. m.active = None
  BY <1>1, <1>2 DEF Local, WithActivity
<1>4. n \in Op /\ n.pc = "finish" /\ SameWork(m, n)
  BY <1>2, ToFields DEF Steps, SameWork
<1> HIDE DEF n, m
<1>5. Local(n) /\ n.pc \in Accepted
  BY <1>3, <1>4 DEF Local, Tidy, SameWork, WithActivity, Opening, Accepted, InTurn, Steps
<1>6. Agree(journal, ran, m) => Agree(journal, ran, n)
  BY <1>3, <1>4 DEF Agree, Traced, SameWork
<1>7. FALSE \in BOOLEAN /\ Append(p, FALSE, journal, me[p], n)
  BY <1>1 DEF m
<1> QED
  BY <1>2, <1>4, <1>5, <1>6, <1>7, SameJournal, AppendOwned DEF m

LEMMA CompleteTurnKeeps ==
  ASSUME EffectInv, Inv', NEW p \in Proc, CompleteTurn(p)
  PROVE  Keeps
<1> DEFINE m == me[p]
           j == TurnIs(journal, m.cmd, "completed")
<1>1. m.pc = "finish" /\ Append(p, FALSE, j, m, Leaving)
  BY DEF CompleteTurn
<1>2. /\ m.pc \in Accepted /\ m.pc \in InTurn /\ m \in Op /\ Local(m) /\ m.cmd \in Cmd
      /\ JournalOK(journal) /\ ran \in [Activity -> Nat] /\ History(journal, ran)
  BY <1>1, AcceptedFacts DEF Accepted, InTurn, Steps
<1>3. m.active = None
  BY <1>1, <1>2 DEF Local, WithActivity
<1>4. ASSUME Agree(journal, ran, m)
      PROVE  History(j, ran) /\ Stands(journal, j)
  <2>1. journal.turn[m.cmd] \notin TurnEnded /\ \A b \in Activity : b.cmd = m.cmd => journal.act[b] # "started"
    BY <1>3, <1>4, ActivityAssumption DEF Agree, Traced, TurnEnded
  <2> HIDE DEF m
  <2>2. ASSUME NEW status \in TurnEnded
        PROVE  LET i == TurnIs(journal, m.cmd, status) IN History(i, ran) /\ Stands(journal, i)
    BY <1>2, <2>1, TurnHistory
  <2>3. "completed" \in TurnEnded
    BY DEF TurnEnded
  <2> QED
    BY <2>2, <2>3
<1>5. Leaving \in Op /\ Local(Leaving) /\ Leaving.pc = "leaving" /\ Leaving.pc \notin Accepted
  BY LeavingFields, OutsideLocal
<1>6. FALSE \in BOOLEAN
  OBVIOUS
<1> HIDE DEF j
<1> QED
  BY <1>1, <1>2, <1>4, <1>5, <1>6, AppendOwned

\* The failed turn: what its active activity has come to, and the end of the turn.
LEMMA FailureHistory ==
  ASSUME EffectInv, NEW p \in Proc, me[p].pc = "failing", ~ OwedResult(me[p]),
         Agree(journal, ran, me[p])
  PROVE  History(FailureEvents(me[p]), ran) /\ Stands(journal, FailureEvents(me[p]))
<1> DEFINE m == me[p]
           a == m.active
<1>1. /\ m.pc \in Accepted /\ m \in Op /\ Tidy(m) /\ m.cmd \in Cmd
      /\ JournalOK(journal) /\ ran \in [Activity -> Nat] /\ History(journal, ran)
  BY AcceptedFacts DEF Accepted, InTurn, Steps
<1>2. journal.turn[m.cmd] = "active" /\ \A b \in Activity : b.cmd = m.cmd /\ journal.act[b] = "started" => b = a
  BY DEF Agree, Traced
<1>3. ~ OwedResult(m) /\ Traced(journal, ran, m)
  BY DEF Agree
<1> HIDE DEF m, a
<1>4. ASSUME NEW i, JournalOK(i), History(i, ran), Stands(journal, i), i.turn = journal.turn,
             \A b \in Activity : b.cmd = m.cmd => i.act[b] # "started",
             FailureEvents(m) = TurnIs(i, m.cmd, EndOfTurn(m))
      PROVE  History(FailureEvents(m), ran) /\ Stands(journal, FailureEvents(m))
  <2>1. EndOfTurn(m) \in TurnEnded /\ i.turn[m.cmd] \notin TurnEnded
    BY <1>2, <1>4 DEF EndOfTurn, TurnEnded
  <2>2. ASSUME NEW status \in TurnEnded
        PROVE  LET k == TurnIs(i, m.cmd, status) IN
                 History(k, ran) /\ Stands(i, k)
    BY <1>1, <1>4, <2>1, TurnHistory
  <2>3. History(FailureEvents(m), ran) /\ Stands(i, FailureEvents(m))
    BY <1>4, <2>1, <2>2
  <2> QED
    BY <1>4, <2>3 DEF Stands
<1>5. CASE a # None /\ ~ m.requires
  <2>1. /\ a \in Activity /\ a.cmd = m.cmd /\ (m.dispatched => m.started)
    BY <1>1, <1>5 DEF Tidy, a
  <2>2. PICK visible \in BOOLEAN, status \in Ended :
          /\ FailureEvents(m) = TurnIs(MarkedAnswered(journal, a, status, visible), m.cmd, EndOfTurn(m))
          /\ visible <=> Visible(a)
          /\ status \in {"uncertain", "cancelled", "failed"}
          /\ status = "cancelled" => ~ m.dispatched
    <3>1. EndOfActive(m) \in {"uncertain", "cancelled", "failed"} /\ (EndOfActive(m) = "cancelled" => ~ m.dispatched)
      BY DEF EndOfActive
    <3>2. EndOfActive(m) \in Ended /\ Visible(a) \in BOOLEAN
      BY <3>1 DEF Ended, Visible
    <3>3. FailureEvents(m) = TurnIs(MarkedAnswered(journal, a, EndOfActive(m), Visible(a)), m.cmd, EndOfTurn(m))
      BY <1>5 DEF FailureEvents, a
    <3> QED
      BY <3>1, <3>2, <3>3
  <2> DEFINE i == MarkedAnswered(journal, a, status, visible)
  <2>3. visible => a.kind # "provider"
    BY <2>2 DEF Visible
  <2>4. /\ journal.act[a] \in {"started", "planned", "authorized"}
        /\ ~ m.dispatched => ran[a] = 0
        /\ a.kind # "provider" => journal.answers[a.cmd][a.call] = 0
    BY <1>3, <1>5, <2>1 DEF Traced, Waiting, a
  <2>5. journal.act[a] \notin Ended
    BY <2>4 DEF Ended
  <2>6. History(i, ran) /\ Stands(journal, i)
    BY <1>1, <1>2, <2>1, <2>2, <2>3, <2>4, <2>5, EndedHistory
  <2>7. i.turn = journal.turn /\ i.act = [journal.act EXCEPT ![a] = status]
    BY <1>1, <2>1, <2>3, MarkedAnsweredFields
  <2>8. JournalOK(i)
    <3>1. status \in Status
      BY DEF Status
    <3> QED
      BY <1>1, <2>1, <2>3, <3>1, MarkedAnsweredTyped
  <2>9. FailureEvents(m) = TurnIs(i, m.cmd, EndOfTurn(m))
    BY <2>2
  <2> HIDE DEF i
  <2>10. \A b \in Activity : b.cmd = m.cmd => i.act[b] # "started"
    BY <1>1, <1>2, <2>1, <2>2, <2>7 DEF JournalOK
  <2> QED
    BY <1>4, <2>6, <2>7, <2>8, <2>9, <2>10 DEF m
<1>6. CASE ~ (a # None /\ ~ m.requires)
  <2>1. FailureEvents(m) = TurnIs(journal, m.cmd, EndOfTurn(m))
    BY <1>6 DEF FailureEvents, a
  <2>2. \A b \in Activity : b.cmd = m.cmd => journal.act[b] # "started"
    <3>1. CASE a = None
      BY <1>2, <3>1, ActivityAssumption
    <3>2. CASE a # None /\ m.requires
      <4>1. ~ Visible(a)
        BY <1>3, <3>2 DEF OwedResult, a
      <4>2. ~ m.started
        BY <1>1, <3>2, <4>1 DEF Tidy, a
      <4>3. journal.act[a] \in {"planned", "authorized"}
        BY <1>3, <3>2, <4>2 DEF Traced, a
      <4> QED
        BY <1>2, <4>3
    <3> QED
      BY <1>6, <3>1, <3>2
  <2>3. Stands(journal, journal)
    BY DEF Stands
  <2> QED
    BY <1>1, <1>4, <2>1, <2>2, <2>3 DEF m
<1> QED
  BY <1>5, <1>6 DEF m

LEMMA TerminalizeKeeps ==
  ASSUME EffectInv, Inv', NEW p \in Proc, TerminalizeTurnFailure(p)
  PROVE  Keeps
<1> DEFINE m == me[p]
<1>1. m.pc = "failing" /\ m.pc \in Accepted
  BY DEF TerminalizeTurnFailure, Accepted, InTurn, Steps
<1>2. Leaving \in Op /\ Local(Leaving) /\ Leaving.pc = "leaving" /\ Leaving.pc \notin Accepted
  BY LeavingFields, OutsideLocal
<1>3. CASE Goto(p, Leaving)
  BY <1>2, <1>3, GotoKeeps
<1>4. CASE ~ OwedResult(m) /\ Append(p, TRUE, FailureEvents(m), m, Leaving)
  <2>1. Agree(journal, ran, m) => History(FailureEvents(m), ran) /\ Stands(journal, FailureEvents(m))
    BY <1>1, <1>4, FailureHistory
  <2>2. TRUE \in BOOLEAN
    OBVIOUS
  <2> QED
    BY <1>1, <1>2, <1>4, <2>1, <2>2, AppendOwned
<1> QED
  BY <1>3, <1>4 DEF TerminalizeTurnFailure

\* An operation returns, or its process dies.
LEMMA GoneKeeps ==
  ASSUME EffectInv, Inv', NEW p \in Proc, Leave(p) \/ Kill(p)
  PROVE  Keeps
<1>1. drift \in [Proc -> {"none", "ack", "other"}]
  BY DEF EffectInv, Inv, TypeOK
<1>2. \A q \in Proc \ {p} : drift'[q] = drift[q] /\ (lock = q => lock' = q)
  BY <1>1 DEF Leave, Kill, Return
<1>3. Same(journal, journal')
  BY DEF Leave, Kill, Same, EffectInv, Inv, TypeOK
<1> QED
  BY <1>2, <1>3, ReturnKeeps DEF Leave, Kill, Return

-----------------------------------------------------------------------------
\* RecoverTurn.

LEMMA StartRecoveryKeeps ==
  ASSUME EffectInv, Inv', NEW p \in Proc, StartRecovery(p)
  PROVE  Keeps
<1> DEFINE n == To(me[p], "r-lease")
<1>1. me[p].pc = "idle" /\ Goto(p, n) /\ me[p] \in Op /\ me[p].cmd = None
  BY DEF StartRecovery, EffectInv, Inv, TypeOK, Local
<1>2. n.pc = "r-lease" /\ n.cmd = None
  BY <1>1, ToFields DEF Steps
<1> HIDE DEF n
<1>3. Local(n) /\ n.pc \notin Accepted
  BY <1>2, OutsideLocal
<1> QED
  BY <1>1, <1>2, <1>3, GotoKeeps

LEMMA AcquireTurnRecoveryLeaseKeeps ==
  ASSUME EffectInv, Inv', NEW p \in Proc, AcquireTurnRecoveryLease(p)
  PROVE  Keeps
<1>1. /\ me[p].pc = "r-lease" /\ UNCHANGED <<journal, ran, mishaps>> /\ me \in [Proc -> Op]
      /\ me[p].cmd = None /\ drift \in [Proc -> {"none", "ack", "other"}]
  BY DEF AcquireTurnRecoveryLease, EffectInv, Inv, TypeOK, Local
<1>2. CASE Return(p) /\ UNCHANGED lock
  BY <1>1, <1>2, ReturnKeeps DEF Return, Same
<1>3. CASE /\ ~ (lock # None /\ ActiveTurns # {}) /\ UNCHANGED <<drift, cancelled>>
           /\ \E c \in ActiveTurns :
                  /\ lock' = p
                  /\ me' = [me EXCEPT ![p] = [@ EXCEPT !.pc = "r-storage", !.cmd = c]]
  <2>1. PICK c \in ActiveTurns : lock' = p /\ me' = [me EXCEPT ![p] = [@ EXCEPT !.pc = "r-storage", !.cmd = c]]
    BY <1>3
  <2>2. lock = None /\ journal.turn[c] = "active"
    BY <1>3, <2>1 DEF ActiveTurns
  <2>3. me' = [me EXCEPT ![p] = me'[p]] /\ me'[p].pc = "r-storage" /\ me'[p].cmd = c
    BY <1>1, <2>1 DEF Op
  <2>4. Local(me'[p]) /\ ~ Owns(p)'
    BY <2>3, OutsideLocal DEF Owns
  <2>5. Fenced(p)' /\ Knows(p)'
    BY <1>1, <2>1, <2>2, <2>3 DEF Fenced, Knows
  <2>6. \A q \in Proc \ {p} : lock # q
    BY <2>2, NamesAssumption
  <2> QED
    BY <1>1, <1>3, <2>3, <2>4, <2>5, <2>6, SilentKeeps DEF Same
<1>4. CASE /\ UNCHANGED <<lock, drift, cancelled>>
           /\ me' = [me EXCEPT ![p].pc = "r-storage"]
  <2>1. me' = [me EXCEPT ![p] = me'[p]] /\ me'[p].pc = "r-storage" /\ me'[p].cmd = None
    BY <1>1, <1>4 DEF Op
  <2>2. Local(me'[p]) /\ ~ Owns(p)'
    BY <2>1, OutsideLocal DEF Owns
  <2>3. Fenced(p)' /\ Knows(p)'
    BY <2>1, <2>2 DEF Fenced, NeedsLock, Knows, Accepted, InTurn
  <2> QED
    BY <1>1, <1>4, <2>1, <2>2, <2>3, SilentKeeps DEF Same
<1> QED
  BY <1>2, <1>3, <1>4 DEF AcquireTurnRecoveryLease

LEMMA RecoverKeeps ==
  ASSUME EffectInv, Inv', NEW p \in Proc, Recover(p)
  PROVE  Keeps
<1>1. /\ me[p].pc = "r-storage" /\ UNCHANGED <<ran, lock, cancelled>> /\ me \in [Proc -> Op]
      /\ me[p] \in Op
      /\ drift' = drift \/ drift' = Overtaken(p)
  BY DEF Recover, EffectInv, Inv, TypeOK
<1>2. Same(journal, journal')
  BY DEF Recover, Same, EffectInv, Inv, TypeOK
<1>3. /\ me' = [me EXCEPT ![p] = me'[p]]
      /\ \/ me'[p].pc = "leaving"
         \/ me'[p].pc = "r-settle" /\ me'[p].cmd = me[p].cmd /\ drift[p] = "none"
  <2>1. CASE me' = [me EXCEPT ![p] = Leaving]
    BY <1>1, <2>1, LeavingFields
  <2>2. CASE me' = [me EXCEPT ![p].pc = "r-settle"] /\ drift[p] = "none"
    BY <1>1, <2>2 DEF Op
  <2> QED
    BY <2>1, <2>2 DEF Recover
<1>4. Local(me'[p]) /\ ~ Owns(p)'
  BY <1>3, OutsideLocal DEF Owns
<1>5. journal'.turn = journal.turn
  BY <1>2 DEF Same
<1>6. Fenced(p)' /\ Knows(p)'
  BY <1>1, <1>3, <1>5 DEF EffectInv, Fenced, NeedsLock, Knows, Accepted, InTurn
<1>7. \A q \in Proc \ {p} : drift'[q] = drift[q] \/ drift'[q] = "other" \/ me[q].pc = "idle"
  BY <1>1, OvertakenTyped
<1> QED
  BY <1>1, <1>2, <1>3, <1>4, <1>6, <1>7, SilentKeeps

LEMMA SettleTurnKeeps ==
  ASSUME EffectInv, Inv', NEW p \in Proc, SettleTurn(p)
  PROVE  Keeps
<1> DEFINE m == me[p]
<1>1. m.pc = "r-settle" /\ m.pc \notin Accepted /\ m \in Op
  BY DEF SettleTurn, Accepted, InTurn, EffectInv, Inv, TypeOK
<1>2. Leaving \in Op /\ Local(Leaving) /\ Leaving.pc = "leaving" /\ Leaving.pc \notin Accepted
  BY LeavingFields, OutsideLocal
<1>3. CASE Goto(p, Leaving)
  BY <1>2, <1>3, GotoKeeps
<1>4. CASE m.cmd # None /\ Append(p, FALSE, Settled(m.cmd), m, Leaving)
  <2>1. m.cmd \in Cmd /\ NeedsLock(m) /\ ~ Owns(p)
    BY <1>1, <1>4 DEF Op, NeedsLock, Owns
  <2>2. ASSUME Appendable(p, FALSE)
        PROVE  History(Settled(m.cmd), ran) /\ Stands(journal, Settled(m.cmd))
    <3>1. journal.turn[m.cmd] = "active"
      BY <1>1, <1>4, <2>2 DEF EffectInv, Knows, Appendable
    <3> QED
      BY <2>1, <3>1, SettledHistory DEF EffectInv, Inv, TypeOK, JournalOK
  <2>3. FALSE \in BOOLEAN
    OBVIOUS
  <2> QED
    BY <1>1, <1>2, <1>4, <2>1, <2>2, <2>3, AppendKeeps
<1> QED
  BY <1>3, <1>4 DEF SettleTurn

-----------------------------------------------------------------------------
\* The world around.
LEMMA AsideKeeps ==
  ASSUME EffectInv, Inv', UNCHANGED <<journal, ran, me>>,
         \A q \in Proc :
           /\ \/ drift'[q] = drift[q] \/ drift'[q] = "other" \/ me[q].pc = "idle"
              \/ me[q].pc = "asking" /\ drift[q] = "none" /\ drift'[q] = "ack"
           /\ q \notin cancelled' => q \notin cancelled
           /\ lock = q /\ q \notin cancelled' => lock' = q
  PROVE  Keeps
<1>1. \A q \in Proc : Fenced(q)'
  BY DEF EffectInv, Fenced
<1>2. \A q \in Proc : Knows(q)'
  BY DEF EffectInv, Knows
<1>3. \A q \in Proc : Owns(q)' => Owns(q)
  BY DEF Owns, Accepted, InTurn
<1>4. History(journal, ran)' /\ \A q \in Proc : Local(me'[q])
  BY DEF EffectInv
<1>5. \A q \in Proc : Owns(q)' => Agree(journal', ran', me'[q])
  BY <1>3 DEF EffectInv
<1>6. \A q, s \in Proc : Owns(q)' /\ Owns(s)' => q = s
  BY <1>3 DEF EffectInv
<1>7. EffectInv'
  BY <1>1, <1>2, <1>4, <1>5, <1>6 DEF EffectInv
<1> QED
  BY <1>7 DEF Keeps, Stands

LEMMA WorldKeeps ==
  ASSUME EffectInv, Inv', NEW p \in Proc, Acknowledge(p) \/ Cancel(p) \/ DropLease(p)
  PROVE  Keeps
<1>1. drift \in [Proc -> {"none", "ack", "other"}]
  BY DEF EffectInv, Inv, TypeOK
<1>2. CASE Acknowledge(p)
  <2>1. \A q \in Proc \ {p} : drift'[q] = "other" \/ me[q].pc = "idle"
    BY <1>2, OvertakenTyped DEF Acknowledge
  <2>2. /\ me[p].pc = "asking"
        /\ drift'[p] = IF drift[p] = "none" THEN "ack" ELSE "other"
    BY <1>2, OvertakenTyped DEF Acknowledge
  <2> QED
    BY <1>2, <2>1, <2>2, AsideKeeps DEF Acknowledge
<1>3. CASE Cancel(p)
  BY <1>3, AsideKeeps DEF Cancel
<1>4. CASE DropLease(p)
  BY <1>4, AsideKeeps DEF DropLease
<1> QED
  BY <1>2, <1>3, <1>4

LEMMA ForeignCommitKeeps ==
  ASSUME EffectInv, Inv', ForeignCommit
  PROVE  Keeps
BY AsideKeeps DEF ForeignCommit

-----------------------------------------------------------------------------
LEMMA InitEffectInv == Init => EffectInv
<1> SUFFICES ASSUME Init PROVE EffectInv
  OBVIOUS
<1>1. Inv
  BY InitInv
<1>2. History(journal, ran)
  <2>1. \A a \in Activity : journal.act[a] = "none" /\ ran[a] = 0
    BY DEF Init
  <2>2. \A c \in Cmd, k \in Call : journal.answers[c][k] = 0
    BY DEF Init
  <2> QED
    BY <2>1, <2>2 DEF History
<1>3. \A p \in Proc : me[p] = NoOp
  BY DEF Init
<1>4. Local(NoOp) /\ NoOp.pc = "idle" /\ NoOp.pc \notin Accepted /\ ~ NeedsLock(NoOp)
  BY LeavingFields, OutsideLocal DEF NeedsLock
<1>5. \A p \in Proc : Local(me[p]) /\ Fenced(p) /\ Knows(p) /\ ~ Owns(p)
  BY <1>3, <1>4 DEF Fenced, Knows, Owns
<1> QED
  BY <1>1, <1>2, <1>5 DEF EffectInv

LEMMA AdvanceKeeps ==
  ASSUME EffectInv, Inv', NEW p \in Proc, Advance(p)
  PROVE  Keeps
BY AcquireTurnLeaseKeeps, AcceptTurnKeeps, FreezeContractKeeps, PlanProviderKeeps, NextIntentKeeps,
   PlanRoundKeeps, CheckpointKeeps, DriftRoundKeeps, DecideKeeps, ReconcileKeeps, RecordDenialKeeps,
   RecordKeeps, DispatchKeeps, ReturnsKeeps, ErrorKeeps, EndActivityKeeps, RecordVerificationKeeps,
   CompleteTurnKeeps, TerminalizeKeeps, GoneKeeps, AcquireTurnRecoveryLeaseKeeps, RecoverKeeps,
   SettleTurnKeeps
   DEF Advance

\* Every step keeps the invariant, and what has ended.
LEMMA NextKeeps == EffectInv /\ [Next]_vars => Keeps
<1> SUFFICES ASSUME EffectInv, [Next]_vars PROVE Keeps
  OBVIOUS
<1>1. Inv'
  BY NextInv DEF EffectInv
<1>2. CASE UNCHANGED vars
  BY <1>1, <1>2, StutterKeeps
<1>3. CASE ForeignCommit
  BY <1>1, <1>3, ForeignCommitKeeps
<1>4. ASSUME NEW p \in Proc,
             \/ Advance(p) \/ (\E c \in Cmd : Submit(p, c)) \/ StartRecovery(p)
             \/ Stop(p) \/ Acknowledge(p) \/ Cancel(p) \/ DropLease(p) \/ Kill(p)
      PROVE  Keeps
  BY <1>1, <1>4, AdvanceKeeps, SubmitKeeps, StartRecoveryKeeps, ErrorKeeps, WorldKeeps, GoneKeeps
<1> QED
  BY <1>2, <1>3, <1>4 DEF Next

LEMMA EffectInvariance == Spec => []EffectInv
<1>1. EffectInv /\ [Next]_vars => EffectInv'
  BY NextKeeps DEF Keeps
<1> QED
  BY <1>1, InitEffectInv, PTL DEF Spec

\* HonestStatus: the durable status of an activity never says less than happened.
THEOREM Honest == Spec => []HonestStatus
<1>1. EffectInv => HonestStatus
  BY DEF EffectInv, History, HonestStatus
<1> QED
  BY <1>1, EffectInvariance, PTL

\* EffectOnce: one effect for an activity and a call, one result for a call,
\* through submissions, retries, drift rounds, denials, failures and recoveries.
THEOREM Once == Spec => []EffectOnce
<1>1. EffectInv => EffectOnce
  BY DEF EffectInv, History, EffectOnce
<1> QED
  BY <1>1, EffectInvariance, PTL

\* EffectsAreFenced: an operation that was not cancelled runs an effect under its
\* lease, in an active turn and a started activity.
THEOREM EffectsFenced == Spec => []EffectsAreFenced
<1>1. EffectInv => EffectsAreFenced
  <2> SUFFICES ASSUME EffectInv, NEW p \in Proc, me[p].pc = "running", p \notin cancelled
               PROVE  /\ lock = p /\ journal.turn[me[p].cmd] = "active"
                      /\ journal.act[me[p].active] = "started"
    BY DEF EffectsAreFenced
  <2>1. me[p].pc \in WithActivity
    BY DEF WithActivity
  <2>2. /\ me[p].pc \in Accepted /\ Local(me[p]) /\ me[p].active # None
    BY <2>1, ActiveFacts
  <2>3. lock = p
    BY <2>2 DEF EffectInv, Fenced, NeedsLock
  <2>4. Owns(p)
    BY <2>2 DEF Owns
  <2>5. Traced(journal, ran, me[p]) /\ me[p].started
    BY <2>1, <2>2, <2>4 DEF EffectInv, Agree, Local
  <2> QED
    BY <2>2, <2>3, <2>5 DEF Traced
<1> QED
  BY <1>1, EffectInvariance, PTL

\* EndedTurnsAreSettled: a turn that has ended leaves no activity started and no
\* effect without its result.
THEOREM EndedSettled == Spec => []EndedTurnsAreSettled
<1>1. EffectInv => EndedTurnsAreSettled
  <2> SUFFICES ASSUME EffectInv, NEW a \in Activity, journal.turn[a.cmd] \in TurnEnded
               PROVE  /\ journal.act[a] # "started"
                      /\ Visible(a) /\ ran[a] > 0 => journal.answers[a.cmd][a.call] = 1
    BY DEF EndedTurnsAreSettled
  <2>1. journal.turn[a.cmd] # "active"
    BY DEF TurnEnded
  <2> QED
    BY <2>1 DEF EffectInv, History
<1> QED
  BY <1>1, EffectInvariance, PTL

\* EndsStand: no later event changes the end of a turn or of an activity.
THEOREM EndsAreFinal == Spec => EndsStand
<1>1. EffectInv /\ [Next]_vars =>
        [ /\ \A c \in Cmd : journal.turn[c] \in TurnEnded => journal'.turn[c] = journal.turn[c]
          /\ \A a \in Activity : journal.act[a] \in Ended => journal'.act[a] = journal.act[a] ]_journal
  BY NextKeeps DEF Keeps, Stands
<1> QED
  BY <1>1, EffectInvariance, PTL DEF Spec, EndsStand
=============================================================================
