------------------------------- MODULE Effects -------------------------------
(***************************************************************************)
(* Edits of one file, from their preview to their outcome: the one-use     *)
(* decisions of internal/authorization, the planned actions of             *)
(* internal/tooling, and the exchange of files of internal/tools/edit,     *)
(* beside other programs that write the same file and other processes of   *)
(* Yordam that edit it.                                                    *)
(*                                                                         *)
(* A version stands for a file with its content: an edit compares both the *)
(* hash and the identity, so any other write makes another version.        *)
(***************************************************************************)
EXTENDS Integers, FiniteSets

CONSTANTS
  Call,           \* edit calls, each with one prepared edit
  Process,        \* processes of Yordam
  ProcessOf,      \* call -> the process that runs it
  None,
  MaxWrites,      \* writes and removals by other programs
  MaxIncidents    \* failing system calls, crashes, cancellations and revocations

ASSUME CallAssumption == ProcessOf \in [Call -> Process]

ASSUME BoundsAssumption == MaxWrites \in Nat /\ MaxIncidents \in Nat

ASSUME NamesAssumption ==
  /\ None \notin Call \cup (0..MaxWrites)
  /\ None \notin {"succeeded", "failed", "cancelled", "uncertain"}
  /\ Call \cap (0..MaxWrites) = {}

VARIABLES
  target,       \* the version the path names, or None
  temporary,    \* call -> the version its temporary name names, or None
  writes,       \* versions written by other programs so far
  stage,        \* call -> where it is between its plan and its end
  before,       \* call -> prepared.before and identity: the previewed version
  material,     \* call -> recovery material was stored for its checkpoint
  changed,      \* call -> what atomicReplace returns as changed, so far
  outcome,      \* call -> the status its activity ends with, or None
  ctx,          \* call -> the context of its turn is cancelled
  decision,     \* call -> Service's maps at the nonce of its decision
  locked,       \* process -> the call that holds the target's lock, or None
  incidents,    \* how many of them happened so far
  lost,         \* versions removed by a call that had not previewed them
  tainted       \* versions a rollback moved when it did not undo its exchange

files == <<target, temporary, writes, lost, tainted>>
calls == <<stage, before, material, changed, outcome, ctx, decision>>
evars == <<files, calls, locked, incidents>>

Version == Call \cup (0..MaxWrites)

Stages ==
  {"planned", "previewed", "mutation", "checkpointed", "revalidated", "issued", "dispatched", "running", "locked",
   "verified", "written", "exchanged", "stale", "replaced", "removed", "cleanup", "ended"}

\* Service.cancellations holds a hook from the dispatch on; run tells whether
\* the context of the execution was cancelled through it.
Decision == [issued : BOOLEAN, revoked : BOOLEAN, dispatched : BOOLEAN, run : BOOLEAN]
NewDecision == [issued |-> FALSE, revoked |-> FALSE, dispatched |-> FALSE, run |-> TRUE]

EffectsTypeOK ==
  /\ target \in Version \cup {None}
  /\ temporary \in [Call -> Version \cup {None}]
  /\ writes \in 0..MaxWrites
  /\ stage \in [Call -> Stages]
  /\ before \in [Call -> Version \cup {None}]
  /\ material \in [Call -> BOOLEAN] /\ changed \in [Call -> BOOLEAN] /\ ctx \in [Call -> BOOLEAN]
  /\ outcome \in [Call -> {"succeeded", "failed", "cancelled", "uncertain", None}]
  /\ decision \in [Call -> Decision]
  /\ locked \in [Process -> Call \cup {None}]
  /\ incidents \in 0..MaxIncidents
  /\ lost \subseteq Version /\ tainted \subseteq Version

EffectsInit ==
  /\ target \in {0, None} /\ writes = 0
  /\ temporary = [c \in Call |-> None]
  /\ stage = [c \in Call |-> "planned"]
  /\ before = [c \in Call |-> None]
  /\ material = [c \in Call |-> FALSE] /\ changed = [c \in Call |-> FALSE]
  /\ ctx = [c \in Call |-> FALSE]
  /\ outcome = [c \in Call |-> None]
  /\ decision = [c \in Call |-> NewDecision]
  /\ locked = [p \in Process |-> None]
  /\ incidents = 0
  /\ lost = {} /\ tainted = {}

At(c, s) == stage[c] = s
Go(c, s) == stage' = [stage EXCEPT ![c] = s]
Incident == incidents < MaxIncidents /\ incidents' = incidents + 1

\* The call replaces what it previewed as absent, or exchanges a version.
Creates(c) == before[c] = None

\* prepared.verifyCurrent: path, content and identity are as previewed.
verifyCurrent(c) == target = before[c]

-----------------------------------------------------------------------------
(* Before the dispatch. *)

\* A call ends before anything was dispatched: an error, a denial, a
\* cancellation; the turn ends its activity.
Abandon(c) ==
  /\ stage[c] \in {"planned", "previewed", "mutation", "checkpointed", "revalidated", "issued"}
  /\ Go(c, "ended")
  /\ UNCHANGED <<files, before, material, changed, outcome, ctx, decision, locked, incidents>>

\* prepared.PreparePreview reads the version, once; what the model expected of
\* it is checked here.
Reads(c) == before' = [before EXCEPT ![c] = target]

\* Service.PreparePreview, with a decision of its own.
PreparePreview(c) ==
  /\ At(c, "planned") /\ ~ ctx[c]
  /\ Reads(c)
  /\ Go(c, "previewed")
  /\ UNCHANGED <<files, material, changed, outcome, ctx, decision, locked, incidents>>

\* Service.PlanMutation: the preview is consumed, once, by the action that shares
\* its prepared edit.
PlanMutation(c) ==
  /\ At(c, "previewed")
  /\ Go(c, "mutation")
  /\ UNCHANGED <<files, before, material, changed, outcome, ctx, decision, locked, incidents>>

\* What EditClassification says of the edit tool, and what a checkpoint asks for.
EditClassification == [effect |-> "mutation", reversibility |-> "preimage"]

\* prepareCheckpoint: recovery material is stored for an exact coverage.
prepareCheckpoint(c) ==
  /\ At(c, "mutation") /\ ~ ctx[c]
  /\ material' = [material EXCEPT ![c] = (EditClassification.reversibility = "exact")]
  /\ Go(c, "checkpointed")
  /\ UNCHANGED <<files, before, changed, outcome, ctx, decision, locked, incidents>>

\* Service.Revalidate, once for each action.
Revalidate(c) ==
  /\ At(c, "checkpointed")
  /\ verifyCurrent(c)
  /\ Go(c, "revalidated")
  /\ UNCHANGED <<files, before, material, changed, outcome, ctx, decision, locked, incidents>>

\* Service.Issue: the decision and the start of the activity are committed.
Issue(c) ==
  /\ At(c, "revalidated")
  /\ ~ decision[c].revoked /\ ~ decision[c].issued
  /\ decision' = [decision EXCEPT ![c].issued = TRUE]
  /\ Go(c, "issued")
  /\ UNCHANGED <<files, before, material, changed, outcome, ctx, locked, incidents>>

\* Service.Revoke: a hook that is registered is called.
Revoke(c) ==
  /\ ~ decision[c].revoked /\ ~ At(c, "ended")
  /\ Incident
  /\ decision' = [decision EXCEPT ![c].revoked = TRUE, ![c].run = ~ decision[c].dispatched]
  /\ UNCHANGED <<files, stage, before, material, changed, outcome, ctx, locked>>

\* The context of the turn ends, and with it the one of its execution.
Cancel(c) ==
  /\ ~ ctx[c] /\ ~ At(c, "ended")
  /\ Incident
  /\ ctx' = [ctx EXCEPT ![c] = TRUE]
  /\ UNCHANGED <<files, stage, before, material, changed, outcome, decision, locked>>

-----------------------------------------------------------------------------
(* The dispatch and the execution. *)

\* Execute waits for the result of the goroutine; when the context has ended as
\* well it may return that instead, which leaves the effect uncertain.
Report(c, status) ==
  \E s \in {status} \cup (IF ctx[c] THEN {"uncertain"} ELSE {}) :
    outcome' = [outcome EXCEPT ![c] = s]

\* A dispatch that forgets the hook of the execution.
DispatchUnhooked(c) ==
  /\ At(c, "issued")
  /\ IF ctx[c] \/ decision[c].revoked
     THEN /\ outcome' = [outcome EXCEPT ![c] = "uncertain"]
          /\ Go(c, "ended")
          /\ UNCHANGED decision
     ELSE /\ Go(c, "dispatched")
          /\ UNCHANGED <<outcome, decision>>
  /\ UNCHANGED <<files, before, material, changed, ctx, locked, incidents>>

\* Service.Execute to the start of its goroutine: the gate consumes the decision
\* and the handle and registers the cancellation in one critical section.
Dispatch(c) ==
  /\ At(c, "issued")
  /\ IF ctx[c] \/ decision[c].revoked
     THEN /\ outcome' = [outcome EXCEPT ![c] = "uncertain"]
          /\ Go(c, "ended")
          /\ UNCHANGED decision
     ELSE /\ decision' = [decision EXCEPT ![c].dispatched = TRUE]
          /\ Go(c, "dispatched")
          /\ UNCHANGED outcome
  /\ UNCHANGED <<files, before, material, changed, ctx, locked, incidents>>

\* revalidateDispatch: the digests of a plan built anew are the authorized ones.
revalidateDispatch(c) == verifyCurrent(c)

\* The goroutine: revalidateDispatch, then the first check of prepared.Execute.
Run(c) ==
  /\ At(c, "dispatched")
  /\ IF ~ revalidateDispatch(c)
     THEN outcome' = [outcome EXCEPT ![c] = "uncertain"] /\ Go(c, "ended")
     ELSE IF ctx[c] \/ ~ decision[c].run
     THEN Report(c, "cancelled") /\ Go(c, "ended")
     ELSE Go(c, "running") /\ UNCHANGED outcome
  /\ UNCHANGED <<files, before, material, changed, ctx, decision, locked, incidents>>

\* targetLocks: one mutex for each path, in one process.
Lock(c) ==
  /\ At(c, "running") /\ locked[ProcessOf[c]] = None
  /\ locked' = [locked EXCEPT ![ProcessOf[c]] = c]
  /\ Go(c, "locked")
  /\ UNCHANGED <<files, before, material, changed, outcome, ctx, decision, incidents>>

Unlock(c) == locked' = [locked EXCEPT ![ProcessOf[c]] = None]

\* A failure that forgets the file change.
StatusAlone(c) == "failed"

\* executionResult: a failure with a file change is uncertain.
Status(c) == IF changed[c] THEN "uncertain" ELSE "failed"

\* Verification under the lock, and the first failures of atomicReplace.
Verify(c) ==
  /\ At(c, "locked")
  /\ \/ /\ verifyCurrent(c)
        /\ Go(c, "verified")
        /\ UNCHANGED <<outcome, locked, incidents>>
     \/ /\ \/ ~ verifyCurrent(c) /\ UNCHANGED incidents
           \/ Incident
        /\ Report(c, "failed") /\ Unlock(c)
        /\ Go(c, "ended")
  /\ UNCHANGED <<files, before, material, changed, ctx, decision>>

-----------------------------------------------------------------------------
(* atomicReplace. *)

\* The temporary is created beside the target, written and synchronised; what
\* fails leaves it, if it was created, to the deferred cleanup.
WriteTemporary(c) ==
  /\ At(c, "verified")
  /\ \/ /\ temporary' = [temporary EXCEPT ![c] = c]
        /\ Go(c, "written")
        /\ UNCHANGED incidents
     \/ /\ Incident
        /\ temporary' = [temporary EXCEPT ![c] = c]
        /\ Go(c, "cleanup")
  /\ UNCHANGED <<target, writes, lost, tainted, before, material, changed, outcome, ctx, decision, locked>>

Swap(c) ==
  /\ target' = temporary[c]
  /\ temporary' = [temporary EXCEPT ![c] = target]

\* renameNoReplace for a new file, exchangeNames for an existing one; either
\* fails when the path names nothing, or something, meanwhile.
Exchange(c) ==
  /\ At(c, "written")
  /\ \/ /\ target = None <=> Creates(c)
        /\ Swap(c)
        /\ changed' = [changed EXCEPT ![c] = TRUE]
        /\ Go(c, IF Creates(c) THEN "removed" ELSE "exchanged")
        /\ UNCHANGED incidents
     \/ /\ \/ ~ (target = None <=> Creates(c)) /\ UNCHANGED incidents
           \/ Incident
        /\ Go(c, "cleanup")
        /\ UNCHANGED <<target, temporary, changed>>
  /\ UNCHANGED <<writes, lost, tainted, before, material, outcome, ctx, decision, locked>>

\* An exchange whose preimage nobody looks at.
ValidateNothing(c) ==
  /\ At(c, "exchanged")
  /\ Go(c, "replaced")
  /\ UNCHANGED <<files, before, material, changed, outcome, ctx, decision, locked, incidents>>

\* The preimage is opened, read and compared with the previewed one.
Validate(c) ==
  /\ At(c, "exchanged")
  /\ \/ temporary[c] = before[c] /\ Go(c, "replaced") /\ UNCHANGED incidents
     \/ temporary[c] # before[c] /\ Go(c, "stale") /\ UNCHANGED incidents
     \/ Incident /\ Go(c, "stale")
  /\ UNCHANGED <<files, before, material, changed, outcome, ctx, decision, locked>>

\* The names are exchanged back and the directory is synchronised.  The rollback
\* undoes the exchange only if the target still is the call's own version, and has
\* not become it again by another such rollback.
Rollback(c) ==
  /\ At(c, "stale")
  /\ \/ /\ target # None
        /\ Swap(c)
        /\ \/ changed' = [changed EXCEPT ![c] = FALSE] /\ UNCHANGED incidents
           \/ Incident /\ UNCHANGED changed
        /\ tainted' = IF target = c /\ c \notin tainted THEN tainted ELSE tainted \cup ({target, temporary[c]} \ {c})
     \/ /\ \/ target = None /\ UNCHANGED incidents
           \/ Incident
        /\ tainted' = tainted \cup ({target, temporary[c]} \ {c, None})
        /\ UNCHANGED <<target, temporary, changed>>
  /\ Go(c, "cleanup")
  /\ UNCHANGED <<writes, lost, before, material, outcome, ctx, decision, locked>>

\* The previewed version, now at the temporary name, is removed.
RemovePreimage(c) ==
  /\ At(c, "replaced")
  /\ \/ temporary' = [temporary EXCEPT ![c] = None] /\ Go(c, "removed") /\ UNCHANGED incidents
     \/ Incident /\ Go(c, "cleanup") /\ UNCHANGED temporary
  /\ lost' = lost \cup ({temporary[c]} \ {before[c], temporary'[c]})
  /\ UNCHANGED <<target, writes, tainted, before, material, changed, outcome, ctx, decision, locked>>

\* The directory is synchronised and the edit succeeds, or is uncertain.
Finish(c) ==
  /\ At(c, "removed")
  /\ \/ Report(c, "succeeded") /\ UNCHANGED incidents
     \/ Incident /\ Report(c, "uncertain")
  /\ Unlock(c)
  /\ Go(c, "ended")
  /\ UNCHANGED <<files, before, material, changed, ctx, decision>>

\* The deferred cleanup removes whatever the temporary name names, and Execute
\* reports the failure.
Cleanup(c) ==
  /\ At(c, "cleanup")
  /\ \/ temporary' = [temporary EXCEPT ![c] = None] /\ UNCHANGED incidents
     \/ temporary[c] # None /\ Incident /\ UNCHANGED temporary
  /\ lost' = lost \cup ({temporary[c]} \ {c, before[c], temporary'[c], None})
  /\ Report(c, Status(c)) /\ Unlock(c)
  /\ Go(c, "ended")
  /\ UNCHANGED <<target, writes, tainted, before, material, changed, ctx, decision>>

-----------------------------------------------------------------------------
(* Around the calls. *)

\* Another program writes a version of its own, or removes the file.
OtherWrites ==
  /\ writes < MaxWrites
  /\ writes' = writes + 1
  /\ target' \in {writes + 1, None} \ {target}
  /\ UNCHANGED <<temporary, lost, tainted, calls, locked, incidents>>

\* A process dies: its calls report nothing, what they wrote stays.
Crash(p) ==
  LET alive == {c \in Call : ProcessOf[c] = p /\ stage[c] # "ended"} IN
    /\ alive # {}
    /\ Incident
    /\ stage' = [c \in Call |-> IF c \in alive THEN "ended" ELSE stage[c]]
    /\ locked' = [locked EXCEPT ![p] = None]
    /\ UNCHANGED <<files, before, material, changed, outcome, ctx, decision>>

Plans(c) ==
  Abandon(c) \/ PreparePreview(c) \/ PlanMutation(c) \/ prepareCheckpoint(c) \/ Revalidate(c) \/ Issue(c) \/ Dispatch(c)

Replaces(c) ==
  WriteTemporary(c) \/ Exchange(c) \/ Validate(c) \/ Rollback(c) \/ RemovePreimage(c) \/ Finish(c) \/ Cleanup(c)

Executes(c) == Run(c) \/ Lock(c) \/ Verify(c) \/ Replaces(c)

EffectsNext ==
  \/ \E c \in Call : Plans(c) \/ Executes(c) \/ Revoke(c) \/ Cancel(c)
  \/ OtherWrites
  \/ \E p \in Process : Crash(p)

EffectsSpec == EffectsInit /\ [][EffectsNext]_evars

-----------------------------------------------------------------------------
(* Properties. *)

\* edit.atomicReplace: an edit only ever destroys the version it previewed.  What
\* other programs or other calls put there meanwhile goes back to its place; the
\* exceptions are the versions around a rollback that failed, or that found
\* something else at the path than what its own exchange had left there.
StaleVersionSurvives == lost \subseteq tainted

\* edit.Execute and tooling.executionResult, called by an activity whose outcome
\* recovery and the model believe: an edit that is said to have failed or to be
\* cancelled has left nothing of its own at the path, unless the rollback of
\* another call put it there again, and one that succeeded has left no temporary.
HonestOutcome ==
  \A c \in Call :
    /\ outcome[c] \in {"failed", "cancelled"} => target # c \/ c \in tainted
    /\ outcome[c] = "succeeded" => temporary[c] = None

\* authorization.Service: Revoke either comes before the dispatch, which then
\* fails, or finds the hook of the execution; no edit that was revoked before it
\* began to look at the file gets to write it.
RevokedNeverRuns ==
  [][\A c \in Call : decision[c].revoked /\ ~ At(c, "running") => stage'[c] # "running"]_evars

=============================================================================
