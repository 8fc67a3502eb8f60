--------------------------- MODULE Effects_proofs ---------------------------
(***************************************************************************)
(* What may be done and what an edit does.  Edits beside other writers:    *)
(* for any number of calls and processes, an edit destroys nothing it has  *)
(* not previewed, an outcome tells the truth, and what was revoked does    *)
(* not run.  The policies that allow them: whatever reaches beyond the     *)
(* workspace or runs a process was allowed by its user.  And compactions:  *)
(* however turns and commands append to a session beside each other, no    *)
(* event is summarised twice, none of the command /compact stands inside a *)
(* turn, and a command says what became of it.                             *)
(***************************************************************************)
EXTENDS Effects, Policy, Compaction, SequenceTheorems, FiniteSetTheorems, WellFoundedInduction, TLAPS

\* Before the exchange, and behind it.
Early == {"planned", "previewed", "mutation", "checkpointed", "revalidated", "issued", "dispatched", "running", "locked",
          "verified", "written"}
Holding == {"exchanged", "stale"}
Over == Stages \ Early

\* A decision that is dispatched has its hook: a revocation cancels the run.
Hooked ==
  \A c \in Call : At(c, "dispatched") =>
    decision[c].dispatched /\ (decision[c].revoked => ~ decision[c].run)

\* What the temporary of a call may name, and what it has changed, by its place.
Temporaries ==
  \A c \in Call :
    /\ At(c, "written") => temporary[c] = c
    /\ stage[c] \in Holding => temporary[c] # None
    /\ At(c, "replaced") => temporary[c] = before[c]
    /\ stage[c] \in Holding \cup {"replaced"} => changed[c]
    /\ At(c, "removed") => temporary[c] = None
    /\ At(c, "cleanup") => temporary[c] \in {c, before[c], None} \cup tainted
    /\ outcome[c] = "succeeded" => temporary[c] = None

\* The version of a call has one name at most, and none but its temporary before
\* the exchange.
OneName ==
  /\ \A d \in Call : temporary[d] \in Call => temporary[d] # target
  /\ \A d, e \in Call : d # e /\ temporary[d] \in Call => temporary[d] # temporary[e]
  /\ \A c \in Call : stage[c] \in Early => target # c /\ \A d \in Call : d # c => temporary[d] # c
  /\ \A c \in Call : stage[c] \in Holding => temporary[c] # c

EndsOnce == \A c \in Call : outcome[c] # None => At(c, "ended")

\* A call that says, or will say, that it changed nothing.
Denies(c) == outcome[c] \in {"failed", "cancelled"} \/ (At(c, "cleanup") /\ ~ changed[c])

\* A set of calls whose versions do not come back to the path: none of them is
\* there, and one that some call may put back is held by a call of the set, whose
\* rollback finds something else than its own version.
Buried(B) ==
  /\ \A c \in B : stage[c] \in Over
  /\ \A c \in Call : Denies(c) => c \in B
  /\ \A c \in B : c \notin tainted =>
       /\ target # c
       /\ \A d \in Call : stage[d] \in Holding /\ temporary[d] = c => d \in B

DenialsAreTrue == \E B \in SUBSET Call : Buried(B)

IInv == EffectsTypeOK /\ Hooked /\ Temporaries /\ OneName /\ EndsOnce /\ StaleVersionSurvives /\ DenialsAreTrue
-----------------------------------------------------------------------------
(* Types. *)

\* Incident and OtherWrites stay within their bounds.
LEMMA CountIncident == ASSUME EffectsTypeOK, Incident PROVE incidents' \in 0..MaxIncidents
  BY BoundsAssumption DEF EffectsTypeOK, Incident

\* A call only writes versions that exist, and goes to a stage of its own.
LEMMA TypeStep == EffectsTypeOK /\ Temporaries /\ [EffectsNext]_evars => EffectsTypeOK'
<1> SUFFICES ASSUME EffectsTypeOK, Temporaries, [EffectsNext]_evars PROVE EffectsTypeOK'
  OBVIOUS
<1> USE BoundsAssumption DEF Version, Stages, Decision
<1>1. ASSUME NEW c \in Call, Abandon(c) \/ PlanMutation(c) \/ Revalidate(c) PROVE EffectsTypeOK'
  BY <1>1 DEF EffectsTypeOK, Abandon, PlanMutation, Revalidate, At, Go, files
<1>2. ASSUME NEW c \in Call, PreparePreview(c) \/ prepareCheckpoint(c) PROVE EffectsTypeOK'
  <2>1. before' \in [Call -> Version \cup {None}]
    <3>1. target \in Version \cup {None} /\ before \in [Call -> Version \cup {None}]
      BY DEF EffectsTypeOK
    <3>2. CASE PreparePreview(c)
      BY <3>1, <3>2 DEF PreparePreview, Reads
    <3>3. CASE prepareCheckpoint(c)
      BY <3>1, <3>3 DEF prepareCheckpoint
    <3>. QED
      BY <1>2, <3>2, <3>3
  <2>3. stage' \in [Call -> Stages]
    BY <1>2 DEF EffectsTypeOK, PreparePreview, prepareCheckpoint, Go
  <2>2. material' \in [Call -> BOOLEAN]
    <3>1. CASE PreparePreview(c)
      BY <3>1 DEF EffectsTypeOK, PreparePreview
    <3>2. CASE prepareCheckpoint(c)
      <4>1. (EditClassification.reversibility = "exact") \in BOOLEAN
        OBVIOUS
      <4>. QED
        BY <3>2, <4>1 DEF EffectsTypeOK, prepareCheckpoint
    <3>. QED
      BY <1>2, <3>1, <3>2
  <2>. QED
    BY <1>2, <2>1, <2>2, <2>3 DEF EffectsTypeOK, PreparePreview, prepareCheckpoint, files
<1>3. ASSUME NEW c \in Call, Issue(c) \/ Dispatch(c) PROVE EffectsTypeOK'
  <2>1. decision' \in [Call -> Decision]
    <3>1. [decision[c] EXCEPT !.issued = TRUE] \in Decision /\ [decision[c] EXCEPT !.dispatched = TRUE] \in Decision
      BY DEF EffectsTypeOK
    <3>. QED
      BY <1>3, <3>1 DEF EffectsTypeOK, Issue, Dispatch
  <2>3. stage' \in [Call -> Stages]
    BY <1>3 DEF EffectsTypeOK, Issue, Dispatch, Go
  <2>2. outcome' \in [Call -> {"succeeded", "failed", "cancelled", "uncertain", None}]
    BY <1>3 DEF EffectsTypeOK, Issue, Dispatch
  <2>. QED
    BY <1>3, <2>1, <2>2, <2>3 DEF EffectsTypeOK, Issue, Dispatch, files
<1>4. ASSUME NEW c \in Call, Run(c) \/ Lock(c) PROVE EffectsTypeOK'
  <2>1. stage' \in [Call -> Stages]
    BY <1>4 DEF EffectsTypeOK, Run, Lock, Go
  <2>2. outcome' \in [Call -> {"succeeded", "failed", "cancelled", "uncertain", None}]
    BY <1>4 DEF EffectsTypeOK, Run, Lock, Report
  <2>3. locked' \in [Process -> Call \cup {None}]
    BY <1>4, CallAssumption DEF EffectsTypeOK, Run, Lock
  <2>. QED
    BY <1>4, <2>1, <2>2, <2>3 DEF EffectsTypeOK, Run, Lock, files
<1>5. ASSUME NEW c \in Call, Verify(c) PROVE EffectsTypeOK'
  <2>1. stage' \in [Call -> Stages]
    BY <1>5 DEF EffectsTypeOK, Verify, Go
  <2>2. outcome' \in [Call -> {"succeeded", "failed", "cancelled", "uncertain", None}]
    BY <1>5 DEF EffectsTypeOK, Verify, Report
  <2>3. locked' \in [Process -> Call \cup {None}]
    BY <1>5, CallAssumption DEF EffectsTypeOK, Verify, Unlock
  <2>4. incidents' \in 0..MaxIncidents
    BY <1>5, CountIncident DEF EffectsTypeOK, Verify
  <2>. QED
    BY <1>5, <2>1, <2>2, <2>3, <2>4 DEF EffectsTypeOK, Verify, files
<1>6. ASSUME NEW c \in Call, WriteTemporary(c) PROVE EffectsTypeOK'
  <2>1. stage' \in [Call -> Stages] /\ temporary' \in [Call -> Version \cup {None}]
    BY <1>6 DEF EffectsTypeOK, WriteTemporary, Go
  <2>2. incidents' \in 0..MaxIncidents
    BY <1>6, CountIncident DEF EffectsTypeOK, WriteTemporary
  <2>. QED
    BY <1>6, <2>1, <2>2 DEF EffectsTypeOK, WriteTemporary
<1>7. ASSUME NEW c \in Call, Exchange(c) PROVE EffectsTypeOK'
  <2>1. target' \in Version \cup {None} /\ temporary' \in [Call -> Version \cup {None}]
    BY <1>7 DEF EffectsTypeOK, Exchange, Swap
  <2>2. stage' \in [Call -> Stages] /\ changed' \in [Call -> BOOLEAN]
    BY <1>7 DEF EffectsTypeOK, Exchange, Go
  <2>3. incidents' \in 0..MaxIncidents
    BY <1>7, CountIncident DEF EffectsTypeOK, Exchange
  <2>. QED
    BY <1>7, <2>1, <2>2, <2>3 DEF EffectsTypeOK, Exchange
<1>8. ASSUME NEW c \in Call, Validate(c) PROVE EffectsTypeOK'
  BY <1>8, CountIncident DEF EffectsTypeOK, Validate, At, Go, files
<1>9. ASSUME NEW c \in Call, Rollback(c) PROVE EffectsTypeOK'
  <2>1. target' \in Version \cup {None} /\ temporary' \in [Call -> Version \cup {None}]
    BY <1>9 DEF EffectsTypeOK, Rollback, Swap
  <2>2. stage' \in [Call -> Stages] /\ changed' \in [Call -> BOOLEAN]
    BY <1>9 DEF EffectsTypeOK, Rollback, Go
  <2>3. incidents' \in 0..MaxIncidents
    BY <1>9, CountIncident DEF EffectsTypeOK, Rollback
  <2>4. {target, temporary[c]} \subseteq Version \cup {None}
    BY DEF EffectsTypeOK
  <2>5. tainted' \subseteq Version
    BY <1>9, <2>4 DEF EffectsTypeOK, Rollback, Temporaries, At, Holding
  <2>. QED
    BY <1>9, <2>1, <2>2, <2>3, <2>5 DEF EffectsTypeOK, Rollback
<1>10. ASSUME NEW c \in Call, RemovePreimage(c) PROVE EffectsTypeOK'
  <2>1. temporary' \in [Call -> Version \cup {None}] /\ stage' \in [Call -> Stages]
    BY <1>10 DEF EffectsTypeOK, RemovePreimage, Go
  <2>2. incidents' \in 0..MaxIncidents
    BY <1>10, CountIncident DEF EffectsTypeOK, RemovePreimage
  <2>3. lost' \subseteq Version
    BY <1>10 DEF EffectsTypeOK, RemovePreimage, At, Temporaries
  <2>. QED
    BY <1>10, <2>1, <2>2, <2>3 DEF EffectsTypeOK, RemovePreimage
<1>11. ASSUME NEW c \in Call, Finish(c) PROVE EffectsTypeOK'
  BY <1>11, CallAssumption, CountIncident DEF EffectsTypeOK, Finish, Report, Unlock, At, Go, files
<1>12. ASSUME NEW c \in Call, Cleanup(c) PROVE EffectsTypeOK'
  <2>1. stage' \in [Call -> Stages]
    BY <1>12 DEF EffectsTypeOK, Cleanup, Go
  <2>2. outcome' \in [Call -> {"succeeded", "failed", "cancelled", "uncertain", None}]
    BY <1>12 DEF EffectsTypeOK, Cleanup, Report, Status
  <2>3. locked' \in [Process -> Call \cup {None}]
    BY <1>12, CallAssumption DEF EffectsTypeOK, Cleanup, Unlock
  <2>4. incidents' \in 0..MaxIncidents
    BY <1>12, CountIncident DEF EffectsTypeOK, Cleanup
  <2>5. temporary' \in [Call -> Version \cup {None}] /\ lost' \subseteq Version
    BY <1>12 DEF EffectsTypeOK, Cleanup
  <2>. QED
    BY <1>12, <2>1, <2>2, <2>3, <2>4, <2>5 DEF EffectsTypeOK, Cleanup
<1>13. ASSUME NEW c \in Call, Revoke(c) \/ Cancel(c) PROVE EffectsTypeOK'
  <2>1. decision' \in [Call -> Decision]
    <3>1. [decision[c] EXCEPT !.revoked = TRUE, !.run = ~ decision[c].dispatched] \in Decision
      BY DEF EffectsTypeOK
    <3>. QED
      BY <1>13, <3>1 DEF EffectsTypeOK, Revoke, Cancel
  <2>3. ctx' \in [Call -> BOOLEAN]
    BY <1>13 DEF EffectsTypeOK, Revoke, Cancel
  <2>2. incidents' \in 0..MaxIncidents
    BY <1>13, CountIncident DEF Revoke, Cancel
  <2>. QED
    BY <1>13, <2>1, <2>2, <2>3 DEF EffectsTypeOK, Revoke, Cancel, files
<1>14. CASE OtherWrites
  BY <1>14 DEF EffectsTypeOK, OtherWrites, calls
<1>15. ASSUME NEW p \in Process, Crash(p) PROVE EffectsTypeOK'
  BY <1>15, CountIncident DEF EffectsTypeOK, Crash, files
<1>16. CASE UNCHANGED evars
  BY <1>16 DEF EffectsTypeOK, evars, files, calls
<1>. QED
  BY <1>1, <1>2, <1>3, <1>4, <1>5, <1>6, <1>7, <1>8, <1>9, <1>10, <1>11, <1>12, <1>13, <1>14, <1>15, <1>16
  DEF EffectsNext, Plans, Executes, Replaces

\* The decision of a call that was dispatched is only changed by its revocation,
\* which then finds the hook.
LEMMA HookedStep == EffectsTypeOK /\ Hooked /\ [EffectsNext]_evars => Hooked'
<1> SUFFICES ASSUME EffectsTypeOK, Hooked, [EffectsNext]_evars PROVE Hooked'
  OBVIOUS
<1> USE DEF Decision
<1>1. ASSUME NEW c \in Call, Plans(c) PROVE Hooked'
  BY <1>1 DEF EffectsTypeOK, Hooked, Plans, Abandon, PreparePreview, PlanMutation, prepareCheckpoint, Revalidate, Issue, Dispatch, At, Go
<1>2. ASSUME NEW c \in Call, Run(c) \/ Lock(c) \/ Verify(c) PROVE Hooked'
  BY <1>2 DEF EffectsTypeOK, Hooked, Run, Lock, Verify, At, Go
<1>3. ASSUME NEW c \in Call, Replaces(c) PROVE Hooked'
  BY <1>3 DEF EffectsTypeOK, Hooked, Replaces, WriteTemporary, Exchange, Validate, Rollback, RemovePreimage, Finish, Cleanup, At, Go
<1>4. ASSUME NEW c \in Call, Revoke(c) \/ Cancel(c) PROVE Hooked'
  BY <1>4 DEF EffectsTypeOK, Hooked, Revoke, Cancel, At
<1>5. CASE OtherWrites \/ UNCHANGED evars
  BY <1>5 DEF Hooked, OtherWrites, evars, calls, At
<1>6. ASSUME NEW p \in Process, Crash(p) PROVE Hooked'
  BY <1>6 DEF EffectsTypeOK, Hooked, Crash, At
<1>. QED
  BY <1>1, <1>2, <1>3, <1>4, <1>5, <1>6 DEF EffectsNext, Executes

-----------------------------------------------------------------------------
(* The temporaries, and what the property of lost versions needs of them. *)

\* The temporary of a call is its own, and the previewed version is fixed with the
\* preview; only a rollback leaves something else to the cleanup.
LEMMA TemporariesStep == EffectsTypeOK /\ Temporaries /\ EndsOnce /\ [EffectsNext]_evars => Temporaries'
<1> SUFFICES ASSUME EffectsTypeOK, Temporaries, EndsOnce, [EffectsNext]_evars PROVE Temporaries'
  OBVIOUS
<1> USE NamesAssumption DEF Holding, At
<1>1. ASSUME NEW c \in Call, Plans(c) PROVE Temporaries'
  BY <1>1 DEF EffectsTypeOK, Temporaries, EndsOnce, Plans, Abandon, PreparePreview, Reads, PlanMutation, prepareCheckpoint,
     Revalidate, Issue, Dispatch, Go, files
<1>2. ASSUME NEW c \in Call, Run(c) \/ Lock(c) \/ Verify(c) PROVE Temporaries'
  BY <1>2 DEF EffectsTypeOK, Temporaries, EndsOnce, Run, Lock, Verify, Report, Go, files
<1>3. ASSUME NEW c \in Call, WriteTemporary(c) PROVE Temporaries'
  <2>1. /\ temporary' = [temporary EXCEPT ![c] = c] /\ outcome' = outcome
        /\ stage' = [stage EXCEPT ![c] = "written"] \/ stage' = [stage EXCEPT ![c] = "cleanup"]
        /\ before' = before /\ tainted' = tainted /\ changed' = changed /\ stage[c] = "verified"
    BY <1>3 DEF WriteTemporary, Go
  <2>. QED
    BY <2>1 DEF EffectsTypeOK, Temporaries, EndsOnce
<1>4. ASSUME NEW c \in Call, Exchange(c) PROVE Temporaries'
  BY <1>4 DEF EffectsTypeOK, Temporaries, EndsOnce, Exchange, Swap, Creates, Go
<1>5. ASSUME NEW c \in Call, Validate(c) PROVE Temporaries'
  BY <1>5 DEF EffectsTypeOK, Temporaries, EndsOnce, Validate, Go, files
<1>6. ASSUME NEW c \in Call, Rollback(c) PROVE Temporaries'
  BY <1>6 DEF EffectsTypeOK, Temporaries, EndsOnce, Rollback, Swap, Go
<1>7. ASSUME NEW c \in Call, RemovePreimage(c) PROVE Temporaries'
  BY <1>7 DEF EffectsTypeOK, Temporaries, EndsOnce, RemovePreimage, Go
<1>8. ASSUME NEW c \in Call, Finish(c) PROVE Temporaries'
  BY <1>8 DEF EffectsTypeOK, Temporaries, EndsOnce, Finish, Report, Go, files
<1>9. ASSUME NEW c \in Call, Cleanup(c) PROVE Temporaries'
  BY <1>9 DEF EffectsTypeOK, Temporaries, EndsOnce, Cleanup, Report, Status, Go
<1>10. ASSUME NEW c \in Call, Revoke(c) \/ Cancel(c) PROVE Temporaries'
  BY <1>10 DEF Temporaries, Revoke, Cancel, files
<1>11. CASE OtherWrites \/ UNCHANGED evars
  BY <1>11 DEF Temporaries, OtherWrites, evars, calls, files
<1>12. ASSUME NEW p \in Process, Crash(p) PROVE Temporaries'
  BY <1>12 DEF EffectsTypeOK, Temporaries, Crash, files
<1>. QED
  BY <1>1, <1>2, <1>3, <1>4, <1>5, <1>6, <1>7, <1>8, <1>9, <1>10, <1>11, <1>12 DEF EffectsNext, Executes, Replaces

\* An outcome is given with the last step of a call.
LEMMA EndsOnceStep == EffectsTypeOK /\ EndsOnce /\ [EffectsNext]_evars => EndsOnce'
<1> SUFFICES ASSUME EffectsTypeOK, EndsOnce, [EffectsNext]_evars PROVE EndsOnce'
  OBVIOUS
<1> USE DEF At
<1>1. ASSUME NEW c \in Call, Plans(c) PROVE EndsOnce'
  BY <1>1 DEF EffectsTypeOK, EndsOnce, Plans, Abandon, PreparePreview, PlanMutation, prepareCheckpoint, Revalidate, Issue, Dispatch, Go
<1>2. ASSUME NEW c \in Call, Run(c) \/ Lock(c) \/ Verify(c) PROVE EndsOnce'
  BY <1>2 DEF EffectsTypeOK, EndsOnce, Run, Lock, Verify, Report, Go
<1>3. ASSUME NEW c \in Call, Replaces(c) PROVE EndsOnce'
  BY <1>3 DEF EffectsTypeOK, EndsOnce, Replaces, WriteTemporary, Exchange, Validate, Rollback, RemovePreimage, Finish, Cleanup, Report, Go
<1>4. ASSUME NEW c \in Call, Revoke(c) \/ Cancel(c) PROVE EndsOnce'
  BY <1>4 DEF EndsOnce, Revoke, Cancel
<1>5. CASE OtherWrites \/ UNCHANGED evars
  BY <1>5 DEF EndsOnce, OtherWrites, evars, calls
<1>6. ASSUME NEW p \in Process, Crash(p) PROVE EndsOnce'
  BY <1>6 DEF EffectsTypeOK, EndsOnce, Crash
<1>. QED
  BY <1>1, <1>2, <1>3, <1>4, <1>5, <1>6 DEF EffectsNext, Executes

\* A version is only lost where a temporary is removed: its own, the previewed one,
\* or one that a rollback has left there.
LEMMA SurvivesStep == EffectsTypeOK /\ Temporaries /\ StaleVersionSurvives /\ [EffectsNext]_evars => StaleVersionSurvives'
<1> SUFFICES ASSUME EffectsTypeOK, Temporaries, StaleVersionSurvives, [EffectsNext]_evars PROVE StaleVersionSurvives'
  OBVIOUS
<1> USE DEF StaleVersionSurvives
<1>1. ASSUME NEW c \in Call, Plans(c) \/ Run(c) \/ Lock(c) \/ Verify(c) PROVE StaleVersionSurvives'
  BY <1>1 DEF Plans, Abandon, PreparePreview, PlanMutation, prepareCheckpoint, Revalidate, Issue, Dispatch, Run, Lock, Verify, files
<1>2. ASSUME NEW c \in Call, WriteTemporary(c) \/ Exchange(c) \/ Validate(c) \/ Finish(c) PROVE StaleVersionSurvives'
  BY <1>2 DEF WriteTemporary, Exchange, Validate, Finish, files
<1>3. ASSUME NEW c \in Call, Rollback(c) PROVE StaleVersionSurvives'
  BY <1>3 DEF Rollback
<1>4. ASSUME NEW c \in Call, RemovePreimage(c) PROVE StaleVersionSurvives'
  BY <1>4 DEF RemovePreimage, Temporaries, At
<1>5. ASSUME NEW c \in Call, Cleanup(c) PROVE StaleVersionSurvives'
  BY <1>5 DEF Cleanup, Temporaries, At
<1>6. ASSUME NEW c \in Call, Revoke(c) \/ Cancel(c) PROVE StaleVersionSurvives'
  BY <1>6 DEF Revoke, Cancel, files
<1>7. CASE OtherWrites \/ UNCHANGED evars \/ \E p \in Process : Crash(p)
  BY <1>7 DEF OtherWrites, Crash, evars, files
<1>. QED
  BY <1>1, <1>2, <1>3, <1>4, <1>5, <1>6, <1>7 DEF EffectsNext, Executes, Replaces

-----------------------------------------------------------------------------
(* Names. *)

\* Names are only swapped, given to the own version of a call, taken away, or given
\* to a version of another program.
LEMMA OneNameStep == EffectsTypeOK /\ Temporaries /\ OneName /\ [EffectsNext]_evars => OneName'
<1> SUFFICES ASSUME EffectsTypeOK, Temporaries, OneName, [EffectsNext]_evars PROVE OneName'
  OBVIOUS
<1> USE NamesAssumption DEF At, Early, Holding
<1>1. ASSUME NEW c \in Call, Plans(c) PROVE OneName'
  BY <1>1 DEF EffectsTypeOK, OneName, Plans, Abandon, PreparePreview, PlanMutation, prepareCheckpoint, Revalidate, Issue, Dispatch,
     Go, files
<1>2. ASSUME NEW c \in Call, Run(c) \/ Lock(c) \/ Verify(c) PROVE OneName'
  BY <1>2 DEF EffectsTypeOK, OneName, Run, Lock, Verify, Go, files
<1>3. ASSUME NEW c \in Call, WriteTemporary(c) PROVE OneName'
  <2>1. /\ temporary' = [temporary EXCEPT ![c] = c] /\ target' = target /\ stage[c] = "verified"
        /\ stage' = [stage EXCEPT ![c] = "written"] \/ stage' = [stage EXCEPT ![c] = "cleanup"]
    BY <1>3 DEF WriteTemporary, Go
  <2>. QED
    BY <2>1 DEF EffectsTypeOK, OneName
<1>4. ASSUME NEW c \in Call, Exchange(c) PROVE OneName'
  <2>1. CASE target' = target /\ temporary' = temporary /\ stage' = [stage EXCEPT ![c] = "cleanup"]
    BY <1>4, <2>1 DEF EffectsTypeOK, OneName
  <2>2. CASE /\ target' = c /\ temporary' = [temporary EXCEPT ![c] = target]
             /\ stage' = [stage EXCEPT ![c] = "removed"] \/ stage' = [stage EXCEPT ![c] = "exchanged"]
    BY <1>4, <2>2 DEF EffectsTypeOK, OneName, Temporaries, Exchange
  <2>. QED
    BY <1>4, <2>1, <2>2 DEF Exchange, Swap, Go, Temporaries
<1>5. ASSUME NEW c \in Call, Validate(c) \/ Finish(c) PROVE OneName'
  BY <1>5 DEF EffectsTypeOK, OneName, Validate, Finish, Go, files
<1>6. ASSUME NEW c \in Call, Rollback(c) PROVE OneName'
  <2>1. stage' = [stage EXCEPT ![c] = "cleanup"]
    BY <1>6 DEF Rollback, Go
  <2>2. CASE target' = target /\ temporary' = temporary
    BY <2>1, <2>2 DEF EffectsTypeOK, OneName
  <2>3. CASE target' = temporary[c] /\ temporary' = [temporary EXCEPT ![c] = target]
    BY <2>1, <2>3, <1>6 DEF EffectsTypeOK, OneName, Rollback
  <2>. QED
    BY <1>6, <2>2, <2>3 DEF Rollback, Swap
<1>7. ASSUME NEW c \in Call, RemovePreimage(c) \/ Cleanup(c) PROVE OneName'
  <2>1. /\ temporary' = [temporary EXCEPT ![c] = None] \/ temporary' = temporary
        /\ \E s \in {"removed", "cleanup", "ended"} : stage' = [stage EXCEPT ![c] = s]
        /\ target' = target
    BY <1>7 DEF RemovePreimage, Cleanup, Go
  <2>. QED
    BY <2>1 DEF EffectsTypeOK, OneName
<1>8. ASSUME NEW c \in Call, Revoke(c) \/ Cancel(c) PROVE OneName'
  BY <1>8 DEF OneName, Revoke, Cancel, files
<1>9. CASE OtherWrites
  <2>1. target' \notin Call
    BY <1>9, BoundsAssumption DEF OtherWrites, EffectsTypeOK
  <2>. QED
    BY <1>9, <2>1 DEF OneName, OtherWrites, calls
<1>10. ASSUME NEW p \in Process, Crash(p) PROVE OneName'
  BY <1>10 DEF EffectsTypeOK, OneName, Crash, files
<1>11. CASE UNCHANGED evars
  BY <1>11 DEF OneName, evars, calls, files
<1>. QED
  BY <1>1, <1>2, <1>3, <1>4, <1>5, <1>6, <1>7, <1>8, <1>9, <1>10, <1>11 DEF EffectsNext, Executes, Replaces

-----------------------------------------------------------------------------
(* Denials. *)

\* A buried set stays one if no call of it comes back or is exchanged out anew, and
\* none is added to those that deny.
LEMMA StillBuried ==
  ASSUME NEW B \in SUBSET Call, Buried(B), tainted \subseteq tainted',
         \A c \in Call : stage[c] \in Over => stage'[c] \in Over,
         \A c \in Call : Denies(c)' => Denies(c),
         \A c \in B : c \notin tainted' => target' # c,
         \A d \in Call : stage'[d] \in Holding /\ temporary'[d] \in B \ tainted'
                           => stage[d] \in Holding /\ temporary[d] = temporary'[d]
  PROVE  DenialsAreTrue'
<1>1. Buried(B)'
  BY DEF Buried
<1>. QED
  BY <1>1 DEF DenialsAreTrue

\* A call that ends before its exchange joins the set: nothing names its version
\* but its own temporary.
LEMMA BuriedEarly ==
  ASSUME EffectsTypeOK, OneName, NEW B \in SUBSET Call, Buried(B), NEW c \in Call, stage[c] \in Early,
         NEW s \in {"cleanup", "ended"}, stage' = [stage EXCEPT ![c] = s],
         UNCHANGED <<target, tainted>>, \A d \in Call : d # c => temporary'[d] = temporary[d],
         \A d \in Call : d # c /\ Denies(d)' => Denies(d)
  PROVE  DenialsAreTrue'
<1>1. stage[c] \notin Over /\ s \in Over /\ s \notin Holding
  BY DEF Over, Early, Stages, Holding
<1>2. \A d \in Call : stage'[d] = IF d = c THEN s ELSE stage[d]
  BY DEF EffectsTypeOK
<1>3. target # c /\ \A d \in Call : d # c => temporary[d] # c
  BY DEF OneName
<1>4. Buried(B \cup {c})'
  BY <1>1, <1>2, <1>3 DEF Buried
<1>. QED
  BY <1>4 DEF DenialsAreTrue

LEMMA DenialsStep ==
  EffectsTypeOK /\ Temporaries /\ OneName /\ EndsOnce /\ DenialsAreTrue /\ [EffectsNext]_evars /\ EndsOnce' /\ EffectsTypeOK' => DenialsAreTrue'
<1> SUFFICES ASSUME EffectsTypeOK, Temporaries, OneName, EndsOnce, DenialsAreTrue, [EffectsNext]_evars, EndsOnce', EffectsTypeOK'
             PROVE  DenialsAreTrue'
  OBVIOUS
<1>b. PICK B \in SUBSET Call : Buried(B)
  BY DEF DenialsAreTrue
<1>1. ASSUME NEW c \in Call, Plans(c) \/ Lock(c) \/ Validate(c) \/ Finish(c) PROVE DenialsAreTrue'
  <2>1. \E s \in Stages : stage' = [stage EXCEPT ![c] = s] /\ (stage[c] \in Over => s \in Over \ {"cleanup"})
                          /\ (s \in Holding => stage[c] \in Holding) /\ s # "cleanup"
    BY <1>1 DEF Plans, Abandon, PreparePreview, PlanMutation, prepareCheckpoint, Revalidate, Issue, Dispatch, Lock, Validate,
       Finish, At, Go, Over, Early, Stages, Holding
  <2>2. UNCHANGED <<target, temporary, tainted, changed>>
    BY <1>1 DEF Plans, Abandon, PreparePreview, PlanMutation, prepareCheckpoint, Revalidate, Issue, Dispatch, Lock, Validate,
       Finish, files
  <2>3. \A d \in Call : outcome'[d] \in {"failed", "cancelled"} => outcome[d] \in {"failed", "cancelled"}
    BY <1>1, NamesAssumption DEF EffectsTypeOK, Plans, Abandon, PreparePreview, PlanMutation, prepareCheckpoint, Revalidate, Issue,
       Dispatch, Lock, Validate, Finish, Report
  <2>4. \A d \in Call : Denies(d)' => Denies(d)
    BY <2>1, <2>2, <2>3 DEF Denies, At, EffectsTypeOK
  <2>5. \A d \in Call : (stage[d] \in Over => stage'[d] \in Over) /\ (stage'[d] \in Holding => stage[d] \in Holding)
    BY <2>1 DEF EffectsTypeOK
  <2>. QED
    BY <1>b, <2>2, <2>4, <2>5, StillBuried DEF Buried
<1>2. ASSUME NEW c \in Call, Run(c) \/ Verify(c) PROVE DenialsAreTrue'
  <2>1. UNCHANGED <<target, temporary, tainted, changed>> /\ stage[c] \in Early
    BY <1>2 DEF Run, Verify, files, At, Early
  <2>2. CASE stage' = [stage EXCEPT ![c] = "ended"]
    <3>1. \A d \in Call : d # c => outcome'[d] = outcome[d]
      BY <1>2 DEF Run, Verify, Report, EffectsTypeOK
    <3>2. \A d \in Call : d # c /\ Denies(d)' => Denies(d)
      BY <2>1, <2>2, <3>1 DEF Denies, At, EffectsTypeOK
    <3>. QED
      BY <1>b, <2>1, <2>2, <3>2, BuriedEarly
  <2>3. CASE UNCHANGED outcome /\ \E s \in Early : stage' = [stage EXCEPT ![c] = s]
    <3>1. \A d \in Call : Denies(d)' => Denies(d)
      BY <2>1, <2>3 DEF Denies, At, EffectsTypeOK, Early
    <3>2. \A d \in Call : (stage[d] \in Over => stage'[d] \in Over) /\ (stage'[d] \in Holding => stage[d] \in Holding)
      BY <2>1, <2>3 DEF EffectsTypeOK, Early, Over, Holding
    <3>. QED
      BY <1>b, <2>1, <3>1, <3>2, StillBuried DEF Buried
  <2>. QED
    BY <1>2, <2>2, <2>3 DEF Run, Verify, Go, Early
<1>3. ASSUME NEW c \in Call, WriteTemporary(c) PROVE DenialsAreTrue'
  <2>1. /\ UNCHANGED <<target, tainted, outcome, changed>> /\ stage[c] \in Early
        /\ \A d \in Call : d # c => temporary'[d] = temporary[d]
    BY <1>3 DEF WriteTemporary, At, Early, EffectsTypeOK
  <2>2. CASE stage' = [stage EXCEPT ![c] = "cleanup"]
    <3>1. \A d \in Call : d # c /\ Denies(d)' => Denies(d)
      BY <2>1, <2>2 DEF Denies, At, EffectsTypeOK
    <3>. QED
      BY <1>b, <2>1, <2>2, <3>1, BuriedEarly
  <2>3. CASE stage' = [stage EXCEPT ![c] = "written"]
    <3>1. \A d \in Call : Denies(d)' => Denies(d)
      BY <2>1, <2>3 DEF Denies, At, EffectsTypeOK
    <3>2. \A d \in Call : (stage[d] \in Over => stage'[d] \in Over)
                          /\ (stage'[d] \in Holding => stage[d] \in Holding /\ temporary[d] = temporary'[d])
      BY <2>1, <2>3 DEF EffectsTypeOK, Early, Over, Holding
    <3>. QED
      BY <1>b, <2>1, <3>1, <3>2, StillBuried DEF Buried
  <2>. QED
    BY <1>3, <2>2, <2>3 DEF WriteTemporary, Go
<1>4. ASSUME NEW c \in Call, Exchange(c) PROVE DenialsAreTrue'
  <2>1. UNCHANGED <<outcome, tainted>> /\ stage[c] = "written" /\ temporary[c] = c
    BY <1>4 DEF Exchange, At, Temporaries
  <2>2. CASE UNCHANGED <<target, temporary, changed>> /\ stage' = [stage EXCEPT ![c] = "cleanup"]
    <3>1. \A d \in Call : d # c /\ Denies(d)' => Denies(d)
      BY <2>1, <2>2 DEF Denies, At, EffectsTypeOK
    <3>2. stage[c] \in Early
      BY <2>1 DEF Early
    <3>. QED
      BY <1>b, <2>1, <2>2, <3>1, <3>2, BuriedEarly
  <2>3. CASE /\ target' = c /\ temporary' = [temporary EXCEPT ![c] = target] /\ changed' = [changed EXCEPT ![c] = TRUE]
             /\ stage' = [stage EXCEPT ![c] = "removed"] \/ stage' = [stage EXCEPT ![c] = "exchanged"]
    <3>1. \A d \in Call : Denies(d)' => Denies(d)
      BY <2>1, <2>3 DEF Denies, At, EffectsTypeOK
    <3>2. \A d \in Call : stage[d] \in Over => stage'[d] \in Over
      BY <2>1, <2>3 DEF EffectsTypeOK, Over, Early, Stages
    <3>3. c \notin B
      BY <1>b, <2>1 DEF Buried, Over, Early
    <3>4. target \notin B \ tainted
      BY <1>b DEF Buried
    <3>5. \A d \in Call : stage'[d] \in Holding /\ temporary'[d] \in B \ tainted'
                            => stage[d] \in Holding /\ temporary[d] = temporary'[d]
      BY <2>1, <2>3, <3>4 DEF EffectsTypeOK
    <3>. QED
      BY <1>b, <2>1, <2>3, <3>1, <3>2, <3>3, <3>5, StillBuried
  <2>. QED
    BY <1>4, <2>1, <2>2, <2>3 DEF Exchange, Swap, Go
<1>5. ASSUME NEW c \in Call, Rollback(c) PROVE DenialsAreTrue'
  <2>1. /\ stage' = [stage EXCEPT ![c] = "cleanup"] /\ stage[c] = "stale" /\ outcome' = outcome
        /\ changed[c] /\ temporary[c] # c
    BY <1>5 DEF Rollback, Go, At, Temporaries, Holding, OneName
  <2>2. \A d \in Call : d # c => changed'[d] = changed[d] /\ temporary'[d] = temporary[d] /\ stage'[d] = stage[d]
    BY <1>5 DEF Rollback, Go, Swap, EffectsTypeOK
  <2>3. stage'[c] = "cleanup" /\ stage[c] \in Holding /\ "cleanup" \in Over /\ "cleanup" \notin Holding
    BY <2>1 DEF EffectsTypeOK, Holding, Over, Early, Stages
  <2>4. \A d \in Call : d # c /\ Denies(d)' => Denies(d)
    BY <2>1, <2>2 DEF Denies, At
  <2>5. CASE UNCHANGED <<target, temporary, changed>> /\ tainted \subseteq tainted'
    <3>1. \A d \in Call : Denies(d)' => Denies(d)
      BY <2>1, <2>4, <2>5 DEF Denies, At
    <3>2. \A d \in Call : (stage[d] \in Over => stage'[d] \in Over) /\ (stage'[d] \in Holding => stage[d] \in Holding)
      BY <2>2, <2>3
    <3>. QED
      BY <1>b, <2>5, <3>1, <3>2, StillBuried DEF Buried
  <2>6. CASE target = c /\ c \notin tainted /\ Swap(c) /\ tainted' = tainted
    <3>1. c \notin B
      BY <1>b, <2>6 DEF Buried
    <3>2. temporary[c] \notin B \ tainted
      BY <1>b, <2>3, <3>1 DEF Buried
    <3>3. \A d \in Call : temporary[d] # c
      BY <2>6 DEF OneName
    <3>4. \A e \in B \cup {c} : stage'[e] \in Over
      BY <1>b, <2>2, <2>3 DEF Buried
    <3>5. \A d \in Call : Denies(d)' => d \in B \cup {c}
      BY <1>b, <2>4 DEF Buried
    <3>6. \A e \in B \cup {c} : e \notin tainted' => target' # e
      BY <2>1, <2>6, <3>2 DEF Swap
    <3>7. \A e \in B \cup {c} : e \notin tainted' =>
            \A d \in Call : stage'[d] \in Holding /\ temporary'[d] = e => d \in B \cup {c}
      BY <1>b, <2>2, <2>3, <2>6, <3>3 DEF Buried
    <3>8. Buried(B \cup {c})'
      BY <3>4, <3>5, <3>6, <3>7 DEF Buried
    <3>. QED
      BY <3>8 DEF DenialsAreTrue
  <2>7. CASE Swap(c) /\ tainted' = tainted \cup ({target, temporary[c]} \ {c})
    <3>. PICK D \in SUBSET Call : D = {d \in Call : stage'[d] \in Over}
      OBVIOUS
    <3>1. \A d \in Call : Denies(d)' => d \in D
      BY NamesAssumption DEF Denies, At, EndsOnce, Over, Early, Stages
    <3>2. target' \in tainted'
      BY <2>1, <2>7 DEF Swap
    <3>3. \A d \in Call : stage'[d] \in Holding => d \in D
      BY DEF Holding, Over, Early, Stages
    <3>4. Buried(D)'
      BY <3>1, <3>2, <3>3 DEF Buried
    <3>. QED
      BY <3>4 DEF DenialsAreTrue
  <2>. QED
    BY <1>5, <2>5, <2>6, <2>7 DEF Rollback
<1>6. ASSUME NEW c \in Call, RemovePreimage(c) \/ Cleanup(c) PROVE DenialsAreTrue'
  <2>1. /\ \E s \in {"removed", "cleanup", "ended"} : stage' = [stage EXCEPT ![c] = s]
        /\ stage[c] \in {"replaced", "cleanup"}
        /\ UNCHANGED <<target, tainted, changed>>
        /\ \A d \in Call : d # c => temporary'[d] = temporary[d] /\ outcome'[d] = outcome[d]
    BY <1>6 DEF RemovePreimage, Cleanup, At, Go, Report, EffectsTypeOK
  <2>2. \A d \in Call : (stage[d] \in Over => stage'[d] \in Over)
                        /\ (stage'[d] \in Holding => stage[d] \in Holding /\ temporary[d] = temporary'[d])
    BY <2>1 DEF EffectsTypeOK, Over, Early, Stages, Holding
  <2>3. Denies(c)' => Denies(c)
    <3>1. CASE RemovePreimage(c)
      BY <3>1 DEF RemovePreimage, Temporaries, Denies, At
    <3>2. CASE Cleanup(c)
      BY <3>2 DEF Cleanup, Report, Status, Denies, At, Go, EffectsTypeOK
    <3>. QED
      BY <1>6, <3>1, <3>2
  <2>4. \A d \in Call : Denies(d)' => Denies(d)
    BY <2>1, <2>3 DEF Denies, At, EffectsTypeOK
  <2>. QED
    BY <1>b, <2>1, <2>2, <2>4, StillBuried DEF Buried
<1>7. CASE (\E c \in Call : Revoke(c) \/ Cancel(c)) \/ UNCHANGED evars
  <2>1. UNCHANGED <<target, temporary, tainted, changed, stage, outcome>>
    BY <1>7 DEF Revoke, Cancel, evars, files, calls
  <2>. QED
    BY <1>b, <2>1, StillBuried DEF Buried, Denies, At
<1>8. CASE OtherWrites
  <2>1. UNCHANGED <<temporary, tainted, changed, stage, outcome>>
    BY <1>8 DEF OtherWrites, calls
  <2>2. target' \notin Call
    BY <1>8, BoundsAssumption, NamesAssumption DEF OtherWrites, EffectsTypeOK
  <2>. QED
    BY <1>b, <2>1, <2>2, StillBuried DEF Denies, At
<1>9. ASSUME NEW p \in Process, Crash(p) PROVE DenialsAreTrue'
  <2>1. UNCHANGED <<target, temporary, tainted, changed, outcome>>
    BY <1>9 DEF Crash, files
  <2>2. \A d \in Call : stage'[d] \in {stage[d], "ended"}
    BY <1>9 DEF Crash
  <2>3. \A d \in Call : Denies(d)' => Denies(d)
    BY <2>1, <2>2 DEF Denies, At
  <2>4. \A d \in Call : (stage[d] \in Over => stage'[d] \in Over) /\ (stage'[d] \in Holding => stage[d] \in Holding)
    BY <2>2 DEF Over, Early, Stages, Holding
  <2>. QED
    BY <1>b, <2>1, <2>3, <2>4, StillBuried DEF Buried
<1>. QED
  BY <1>1, <1>2, <1>3, <1>4, <1>5, <1>6, <1>7, <1>8, <1>9 DEF EffectsNext, Executes, Replaces

-----------------------------------------------------------------------------
(* The theorems. *)

LEMMA InitIInv == EffectsInit => IInv
<1> SUFFICES ASSUME EffectsInit PROVE IInv
  OBVIOUS
<1> USE NamesAssumption DEF EffectsInit, At
<1>1. EffectsTypeOK
  BY BoundsAssumption DEF EffectsTypeOK, Version, Stages, Decision, NewDecision
<1>2. Hooked /\ Temporaries /\ EndsOnce /\ StaleVersionSurvives
  BY DEF Hooked, Temporaries, EndsOnce, StaleVersionSurvives, Holding
<1>3. OneName
  BY BoundsAssumption DEF OneName, Holding
<1>4. Buried({})
  BY DEF Buried, Denies
<1>. QED
  BY <1>1, <1>2, <1>3, <1>4 DEF IInv, DenialsAreTrue

LEMMA IInvStep == IInv /\ [EffectsNext]_evars => IInv'
<1> SUFFICES ASSUME IInv, [EffectsNext]_evars PROVE IInv'
  OBVIOUS
<1>1. EffectsTypeOK' /\ Hooked' /\ Temporaries' /\ OneName' /\ EndsOnce' /\ StaleVersionSurvives'
  BY TypeStep, HookedStep, TemporariesStep, OneNameStep, EndsOnceStep, SurvivesStep DEF IInv
<1>. QED
  BY <1>1, DenialsStep DEF IInv

LEMMA Inductive == EffectsSpec => []IInv
  BY InitIInv, IInvStep, PTL DEF EffectsSpec

\* atomicReplace writes, exchanges and removes only the versions and the names it
\* works with, and the gate keeps one decision for each call.
THEOREM TypeCorrect == EffectsSpec => []EffectsTypeOK
<1>1. IInv => EffectsTypeOK
  BY DEF IInv
<1>. QED
  BY Inductive, <1>1, PTL

\* edit.atomicReplace: however many calls, processes and other programs write the
\* file, what a call destroys is the version it previewed; the exceptions are the
\* versions around a rollback that failed or found another version at the path.
THEOREM Survives == EffectsSpec => []StaleVersionSurvives
<1>1. IInv => StaleVersionSurvives
  BY DEF IInv
<1>. QED
  BY Inductive, <1>1, PTL

\* edit.Execute: a call that is reported as failed or cancelled has nothing of its
\* own at the path, then and later, and one that succeeded has no temporary left.
THEOREM Honest == EffectsSpec => []HonestOutcome
<1>1. ASSUME IInv PROVE HonestOutcome
  <2>1. PICK B \in SUBSET Call : Buried(B)
    BY <1>1 DEF IInv, DenialsAreTrue
  <2>2. \A c \in Call : outcome[c] \in {"failed", "cancelled"} => target # c \/ c \in tainted
    BY <2>1 DEF Buried, Denies
  <2>. QED
    BY <1>1, <2>2 DEF HonestOutcome, IInv, Temporaries
<1>. QED
  BY Inductive, <1>1, PTL

\* authorization.Service.Revoke and the dispatch gate of tooling.Service.Execute: a
\* decision that is revoked before its call begins to run never lets it run.
THEOREM Revoked == EffectsSpec => RevokedNeverRuns
<1>1. ASSUME IInv, [EffectsNext]_evars, NEW c \in Call, decision[c].revoked, ~ At(c, "running")
      PROVE  stage'[c] # "running"
  <2> USE <1>1 DEF At
  <2>1. ASSUME NEW d \in Call, Plans(d) PROVE stage'[c] # "running"
    BY <2>1 DEF IInv, EffectsTypeOK, Plans, Abandon, PreparePreview, PlanMutation, prepareCheckpoint, Revalidate, Issue, Dispatch, Go
  <2>2. ASSUME NEW d \in Call, Run(d) PROVE stage'[c] # "running"
    BY <2>2 DEF IInv, EffectsTypeOK, Hooked, Run, Go
  <2>3. ASSUME NEW d \in Call, Lock(d) \/ Verify(d) \/ Replaces(d) PROVE stage'[c] # "running"
    BY <2>3 DEF IInv, EffectsTypeOK, Lock, Verify, Replaces, WriteTemporary, Exchange, Validate, Rollback, RemovePreimage, Finish,
       Cleanup, Go
  <2>4. CASE (\E d \in Call : Revoke(d) \/ Cancel(d)) \/ OtherWrites \/ UNCHANGED evars
    BY <2>4 DEF Revoke, Cancel, OtherWrites, evars, calls
  <2>5. ASSUME NEW p \in Process, Crash(p) PROVE stage'[c] # "running"
    BY <2>5 DEF IInv, EffectsTypeOK, Crash
  <2>. QED
    BY <2>1, <2>2, <2>3, <2>4, <2>5 DEF EffectsNext, Executes
<1>2. IInv /\ [EffectsNext]_evars => [\A c \in Call : decision[c].revoked /\ ~ At(c, "running") => stage'[c] # "running"]_evars
  BY <1>1
<1>. QED
  BY Inductive, <1>2, PTL DEF EffectsSpec, RevokedNeverRuns

-----------------------------------------------------------------------------
(***************************************************************************)
(* Policies of sessions: for any sessions and requests, whatever reaches   *)
(* further than the files of the workspace was asked for.                  *)
(***************************************************************************)

Action == {"none", "allow", "ask", "deny"}

-----------------------------------------------------------------------------
(* ResolvePolicy, for every input. *)

\* A hard deny or a platform's deny is final, whatever the others say.
THEOREM HardDenyWins ==
  ASSUME NEW in, in.hardDeny \/ in.platform = "deny"
  PROVE  ResolvePolicy(in).action = "deny"
BY DEF ResolvePolicy, Decided

\* A project's rule never widens what the others decide: with its rule in
\* place a request is allowed only if it is allowed without it.
THEOREM ProjectOnlyNarrows ==
  ASSUME NEW in,
         in \in [hardDeny : BOOLEAN, platform : Action, user : Action, project : Action,
                 grant : Action, interactive : Action],
         ResolvePolicy(in).action = "allow"
  PROVE  ResolvePolicy([in EXCEPT !.project = "none"]).action = "allow"
BY DEF ResolvePolicy, Settled, Ruled, Narrower, Rank, Or, Decided, Action

-----------------------------------------------------------------------------
(* What a policy decides. *)

\* An effect that reaches further than observations and edits of the workspace
\* is allowed by a policy only on a grant or an acknowledgement.
LEMMA ReachNeedsAuthority ==
  ASSUME NEW p \in SessionPolicy, NEW r,
         r.source # "runtime", Reaches(r), EvaluateAuthorization(p, r).action = "allow"
  PROVE  /\ p.mode # "safe"
         /\ Key(r) \in p.grants \/ p.autoShell
<1>1. p.mode \in Mode /\ p.autoShell \in BOOLEAN
  BY DEF SessionPolicy
<1>2. ModeAction(p, r) = CASE p.mode = "safe" -> SafeAction(r)
                           [] p.mode = "ask" -> AskAction(r)
                           [] p.mode = "auto" -> AutoAction(r, p.autoShell)
                           [] OTHER -> "deny"
  BY DEF ModeAction, Reaches
<1>3. SafeAction(r) = "deny" /\ AskAction(r) = "ask"
  BY DEF SafeAction, AskAction, Reaches
<1>4. AutoAction(r, p.autoShell) = "allow" => p.autoShell
  <2> SUFFICES ASSUME ~p.autoShell PROVE AutoAction(r, p.autoShell) # "allow"
    OBVIOUS
  <2> QED BY DEF AutoAction, Reaches
<1>5. AutoAction(r, p.autoShell) \in {"allow", "ask"}
  BY DEF AutoAction
<1>6. ~ConfiguredProvider(r)
  BY DEF Reaches
<1>7. Evaluation(p, r).user = ModeAction(p, r)
  BY <1>6 DEF Evaluation
<1>8. ASSUME p.mode = "safe" PROVE FALSE
  <2>1. Evaluation(p, r).user = "deny"
    BY <1>2, <1>3, <1>7, <1>8
  <2>2. Ruled(Evaluation(p, r)) = Decided("deny", "user")
    BY <2>1 DEF Ruled, Narrower, Rank, Or, Evaluation
  <2> QED BY <2>2 DEF EvaluateAuthorization, ResolvePolicy, Settled, Decided
<1>9. ASSUME Key(r) \notin p.grants, ~p.autoShell PROVE FALSE
  <2>1. Evaluation(p, r).user \in {"ask", "deny"}
    BY <1>1, <1>2, <1>3, <1>4, <1>5, <1>7, <1>9 DEF Mode
  <2>2. Evaluation(p, r).grant = "none" /\ Evaluation(p, r).interactive = "none" /\ Evaluation(p, r).project = "none"
    BY <1>9 DEF Evaluation
  <2>3. Ruled(Evaluation(p, r)).action \in {"ask", "deny"}
    BY <2>1, <2>2 DEF Ruled, Narrower, Rank, Or, Decided
  <2> QED BY <2>2, <2>3 DEF EvaluateAuthorization, ResolvePolicy, Settled, Decided
<1> QED BY <1>8, <1>9

\* Every rule that can decide has its name.
LEMMA SourceIsName ==
  ASSUME NEW in PROVE ResolvePolicy(in).source \in Source
BY DEF ResolvePolicy, Settled, Ruled, Decided, Source

-----------------------------------------------------------------------------
(* Changes of a policy keep its shape, and trust within the auto mode. *)

TrustInAuto(p) == p.autoShell => p.mode = "auto"

LEMMA NewSessionOK ==
  ASSUME NEW mode \in Mode
  PROVE  /\ NewSession(mode) \in SessionPolicy
         /\ ~NewSession(mode).autoShell /\ NewSession(mode).grants = {}
BY DEF NewSession, SessionPolicy

LEMMA AppliedOK ==
  ASSUME NEW p \in SessionPolicy, TrustInAuto(p), NEW setting \in Mode \cup {"trust"}
  PROVE  /\ Applied(p, setting) \in SessionPolicy
         /\ TrustInAuto(Applied(p, setting))
         /\ Applied(p, setting).grants = p.grants
         /\ Applied(p, setting).autoShell => p.autoShell \/ setting = "trust"
<1>1. CASE setting = "trust"
  BY <1>1 DEF Applied, AcknowledgeAutoShell, SessionPolicy, TrustInAuto
<1>2. CASE setting # "trust"
  BY <1>2 DEF Applied, SetMode, SessionPolicy, TrustInAuto, Mode
<1> QED BY <1>1, <1>2

-----------------------------------------------------------------------------
(* The invariant: authority is grounded in what the user of the session    *)
(* said.                                                                   *)

PoliciesGrounded ==
  \A s \in DOMAIN policies :
    /\ TrustInAuto(policies[s])
    /\ policies[s].autoShell => s \in acknowledged
    /\ policies[s].grants \subseteq consented

ReplaysGrounded ==
  \A s \in DOMAIN replays :
    /\ TrustInAuto(replays[s])
    /\ replays[s].autoShell => s \in acknowledged
    /\ replays[s].grants = {}

ChangeGrounded == change.setting = "trust" => change.session \in acknowledged

PolicyInv == PolicyTypeOK /\ PoliciesGrounded /\ ReplaysGrounded /\ ChangeGrounded /\ NothingUnasked

USE DEF PoliciesGrounded, ReplaysGrounded, ChangeGrounded

LEMMA PolicyInitInv == PolicyInit => PolicyInv
BY DEF PolicyInit, PolicyInv, PolicyTypeOK, NoChange, NothingUnasked

\* A policy or a replay of one session is replaced by one that is grounded.
LEMMA CreateKeeps ==
  ASSUME PolicyInv, NEW s \in Session, NEW mode \in Mode, Create(s, mode)
  PROVE  /\ created' \in [DOMAIN created' -> Mode]
         /\ replays' \in [DOMAIN replays' -> SessionPolicy]
         /\ acknowledged' = acknowledged => ReplaysGrounded'
<1>1. created' = With(created, s, mode) /\ replays' = With(replays, s, NewSession(mode))
  BY DEF Create
<1>2. NewSession(mode) \in SessionPolicy /\ ~NewSession(mode).autoShell /\ NewSession(mode).grants = {}
  BY NewSessionOK
<1>3. created \in [DOMAIN created -> Mode] /\ replays \in [DOMAIN replays -> SessionPolicy]
  BY DEF PolicyInv, PolicyTypeOK
<1>4. created' \in [DOMAIN created' -> Mode] /\ replays' \in [DOMAIN replays' -> SessionPolicy]
  BY <1>1, <1>2, <1>3 DEF With
<1>5. acknowledged' = acknowledged => ReplaysGrounded'
  BY <1>1, <1>2 DEF With, PolicyInv, TrustInAuto
<1> QED BY <1>4, <1>5

LEMMA InstallKeeps ==
  ASSUME PolicyInv, NEW s \in Session, NEW p \in SessionPolicy, TrustInAuto(p),
         p.autoShell => s \in acknowledged, p.grants = {},
         policies' = With(policies, s, p), acknowledged' = acknowledged, consented' = consented
  PROVE  policies' \in [DOMAIN policies' -> SessionPolicy] /\ PoliciesGrounded'
<1>1. policies \in [DOMAIN policies -> SessionPolicy] /\ PoliciesGrounded
  BY DEF PolicyInv, PolicyTypeOK
<1>2. policies' \in [DOMAIN policies' -> SessionPolicy]
  BY <1>1 DEF With
<1>3. PoliciesGrounded'
  BY <1>1 DEF With
<1> QED BY <1>2, <1>3

\* Requests that are allowed stay grounded while consents only grow.
LEMMA AllowedKeeps ==
  ASSUME PolicyInv, allowed' = allowed, consented \subseteq consented', acknowledged \subseteq acknowledged'
  PROVE  NothingUnasked'
BY DEF PolicyInv, NothingUnasked

LEMMA AllowsKeeps ==
  ASSUME PolicyInv, NEW r \in Asked, NEW source \in Source, Allows(r, source),
         consented \subseteq consented', acknowledged \subseteq acknowledged',
         Reaches(r) => source = "interactive" \/ Key(r) \in consented' \/ r.session \in acknowledged'
  PROVE  allowed' \subseteq [request : Asked, by : Source] /\ NothingUnasked'
<1>1. allowed \subseteq [request : Asked, by : Source] /\ NothingUnasked
  BY DEF PolicyInv, PolicyTypeOK
<1>2. allowed' = allowed \cup {[request |-> r, by |-> source]}
  BY DEF Allows
<1>3. allowed' \subseteq [request : Asked, by : Source]
  BY <1>1, <1>2
<1>4. NothingUnasked'
  <2> SUFFICES ASSUME NEW a \in allowed', Reaches(a.request)
               PROVE  \/ a.by = "interactive"
                      \/ Key(a.request) \in consented'
                      \/ a.request.session \in acknowledged'
    BY DEF NothingUnasked
  <2>1. CASE a \in allowed
    BY <1>1, <2>1 DEF NothingUnasked
  <2>2. CASE a = [request |-> r, by |-> source]
    BY <2>2
  <2> QED BY <1>2, <2>1, <2>2
<1> QED BY <1>3, <1>4

\* A decision is allowed by a policy only on what its user said.
LEMMA DecisionGrounded ==
  ASSUME PolicyInv, NEW r \in Asked, r.source # "runtime", Registered(r), Reaches(r),
         EvaluateAuthorization(policies[r.session], r).action = "allow"
  PROVE  /\ policies[r.session].mode # "safe"
         /\ Key(r) \in consented \/ r.session \in acknowledged
<1>1. policies[r.session] \in SessionPolicy
  BY DEF PolicyInv, PolicyTypeOK, Registered
<1>2. policies[r.session].mode # "safe" /\ (Key(r) \in policies[r.session].grants \/ policies[r.session].autoShell)
  BY <1>1, ReachNeedsAuthority
<1> QED BY <1>2 DEF PolicyInv, Registered

LEMMA DecideKeeps ==
  ASSUME PolicyInv, NEW r \in Asked, Decide(r)
  PROVE  PolicyInv'
<1>1. UNCHANGED <<policies, created, replays, change, consented, acknowledged>>
  BY DEF Decide
<1>2. r.source # "runtime" /\ Registered(r)
  BY DEF Decide
<1> DEFINE verdict == EvaluateAuthorization(policies[r.session], r)
<1>3. CASE verdict.action = "allow" /\ Allows(r, verdict.source) /\ UNCHANGED pending
  <2>1. verdict.source \in Source
    BY SourceIsName DEF EvaluateAuthorization
  <2>2. Reaches(r) => Key(r) \in consented \/ r.session \in acknowledged
    BY <1>2, <1>3, DecisionGrounded
  <2>3. allowed' \subseteq [request : Asked, by : Source] /\ NothingUnasked'
    BY <1>1, <1>3, <2>1, <2>2, AllowsKeeps
  <2> QED BY <1>1, <1>3, <2>3 DEF PolicyInv, PolicyTypeOK
<1>4. CASE verdict.action = "ask" /\ pending' = pending \cup {r} /\ UNCHANGED allowed
  BY <1>1, <1>4, AllowedKeeps DEF PolicyInv, PolicyTypeOK
<1> QED BY <1>3, <1>4 DEF Decide

LEMMA ResolveForSessionKeeps ==
  ASSUME PolicyInv, NEW r \in Asked, ResolveForSession(r)
  PROVE  PolicyInv'
<1>1. /\ r \in pending /\ Registered(r)
      /\ pending' = pending \ {r} /\ Allows(r, "interactive")
      /\ consented' = consented \cup {Key(r)}
      /\ policies' = [policies EXCEPT ![r.session] = Grant(@, Key(r))]
      /\ UNCHANGED <<created, replays, change, acknowledged>>
  BY DEF ResolveForSession
<1>2. Key(r) \in Grants
  BY DEF Grants
<1>3. allowed' \subseteq [request : Asked, by : Source] /\ NothingUnasked'
  BY <1>1, AllowsKeeps DEF Source
<1>4. policies \in [DOMAIN policies -> SessionPolicy]
  BY DEF PolicyInv, PolicyTypeOK
<1>5. \A p \in SessionPolicy : /\ Grant(p, Key(r)) \in SessionPolicy
                               /\ Grant(p, Key(r)).grants = p.grants \cup {Key(r)}
                               /\ Grant(p, Key(r)).autoShell = p.autoShell
                               /\ Grant(p, Key(r)).mode = p.mode
  BY <1>2 DEF Grant, SessionPolicy
<1>6. policies' \in [DOMAIN policies' -> SessionPolicy] /\ PoliciesGrounded'
  <2>1. policies' \in [DOMAIN policies' -> SessionPolicy] /\ DOMAIN policies' = DOMAIN policies
    BY <1>1, <1>4, <1>5
  <2>2. ASSUME NEW s \in DOMAIN policies
        PROVE  /\ TrustInAuto(policies'[s])
               /\ policies'[s].autoShell => s \in acknowledged
               /\ policies'[s].grants \subseteq consented \cup {Key(r)}
    <3>1. CASE s = r.session
      BY <1>1, <1>4, <1>5, <3>1 DEF PolicyInv, TrustInAuto
    <3>2. CASE s # r.session
      BY <1>1, <1>4, <3>2 DEF PolicyInv
    <3> QED BY <3>1, <3>2
  <2> QED BY <1>1, <2>1, <2>2
<1> QED BY <1>1, <1>2, <1>3, <1>6 DEF PolicyInv, PolicyTypeOK

\* A committed setting is replayed as it is applied.
LEMMA CommitSettingKeeps ==
  ASSUME PolicyInv, NEW s \in Session, NEW setting \in Mode \cup {"trust"}, CommitSetting(s, setting)
  PROVE  PolicyInv'
<1>1. /\ s \in DOMAIN replays
      /\ replays' = [replays EXCEPT ![s] = Applied(@, setting)]
      /\ change' = [session |-> s, setting |-> setting]
      /\ acknowledged' = IF setting = "trust" THEN acknowledged \cup {s} ELSE acknowledged
      /\ UNCHANGED <<policies, created, pending, allowed, consented>>
  BY DEF CommitSetting
<1>2. acknowledged \subseteq acknowledged' /\ acknowledged' \subseteq Session /\ (setting = "trust" => s \in acknowledged')
  BY <1>1 DEF PolicyInv, PolicyTypeOK
<1>3. NothingUnasked'
  BY <1>1, <1>2, AllowedKeeps
<1>4. replays \in [DOMAIN replays -> SessionPolicy] /\ replays[s] \in SessionPolicy /\ TrustInAuto(replays[s])
  BY <1>1 DEF PolicyInv, PolicyTypeOK
<1>5. /\ Applied(replays[s], setting) \in SessionPolicy
      /\ TrustInAuto(Applied(replays[s], setting))
      /\ Applied(replays[s], setting).grants = replays[s].grants
      /\ Applied(replays[s], setting).autoShell => replays[s].autoShell \/ setting = "trust"
  BY <1>4, AppliedOK
<1>6. replays' \in [DOMAIN replays' -> SessionPolicy] /\ DOMAIN replays' = DOMAIN replays
  BY <1>1, <1>4, <1>5
<1>7. ReplaysGrounded'
  <2> SUFFICES ASSUME NEW t \in DOMAIN replays
               PROVE  /\ TrustInAuto(replays'[t])
                      /\ replays'[t].autoShell => t \in acknowledged'
                      /\ replays'[t].grants = {}
    BY <1>6
  <2>1. CASE t = s
    BY <1>1, <1>2, <1>4, <1>5, <2>1 DEF PolicyInv
  <2>2. CASE t # s
    BY <1>1, <1>2, <1>4, <2>2 DEF PolicyInv
  <2> QED BY <2>1, <2>2
<1>8. PolicyTypeOK'
  BY <1>1, <1>2, <1>6 DEF PolicyInv, PolicyTypeOK
<1>9. PoliciesGrounded' /\ ChangeGrounded'
  BY <1>1, <1>2 DEF PolicyInv
<1> QED BY <1>3, <1>7, <1>8, <1>9 DEF PolicyInv

LEMMA ApplySettingKeeps ==
  ASSUME PolicyInv, ApplySetting
  PROVE  PolicyInv'
<1> DEFINE s == change.session
<1>1. /\ change # NoChange /\ s \in DOMAIN policies
      /\ policies' = [policies EXCEPT ![s] = Applied(@, change.setting)]
      /\ change' = NoChange
      /\ UNCHANGED <<created, replays, pending, allowed, consented, acknowledged>>
  BY DEF ApplySetting
<1>2. change.setting \in Mode \cup {"trust"}
  BY <1>1 DEF PolicyInv, PolicyTypeOK
<1>3. policies \in [DOMAIN policies -> SessionPolicy] /\ policies[s] \in SessionPolicy /\ TrustInAuto(policies[s])
  BY <1>1 DEF PolicyInv, PolicyTypeOK
<1>4. /\ Applied(policies[s], change.setting) \in SessionPolicy
      /\ TrustInAuto(Applied(policies[s], change.setting))
      /\ Applied(policies[s], change.setting).grants = policies[s].grants
      /\ Applied(policies[s], change.setting).autoShell => policies[s].autoShell \/ change.setting = "trust"
  BY <1>2, <1>3, AppliedOK
<1>5. policies' \in [DOMAIN policies' -> SessionPolicy] /\ DOMAIN policies' = DOMAIN policies
  BY <1>1, <1>3, <1>4
<1>6. PoliciesGrounded'
  <2> SUFFICES ASSUME NEW t \in DOMAIN policies
               PROVE  /\ TrustInAuto(policies'[t])
                      /\ policies'[t].autoShell => t \in acknowledged
                      /\ policies'[t].grants \subseteq consented
    BY <1>1, <1>5
  <2>1. CASE t = s
    BY <1>1, <1>3, <1>4, <2>1 DEF PolicyInv
  <2>2. CASE t # s
    BY <1>1, <1>3, <2>2 DEF PolicyInv
  <2> QED BY <2>1, <2>2
<1>7. NothingUnasked'
  BY <1>1, AllowedKeeps
<1>8. PolicyTypeOK' /\ ReplaysGrounded' /\ ChangeGrounded'
  BY <1>1, <1>5 DEF PolicyInv, PolicyTypeOK, NoChange
<1> QED BY <1>6, <1>7, <1>8 DEF PolicyInv

LEMMA SessionsKeep ==
  ASSUME PolicyInv, NEW s \in Session,
         \/ Restore(s)
         \/ \E mode \in Mode : CreateSession(s, mode)
         \/ \E parent \in Session : RunChild(s, parent)
  PROVE  PolicyInv'
<1>1. UNCHANGED <<change, pending, allowed, consented, acknowledged>>
  BY DEF Restore, CreateSession, RunChild
<1>2. NothingUnasked'
  BY <1>1, AllowedKeeps
<1>3. CASE Restore(s)
  <2>1. policies' = With(policies, s, replays[s]) /\ UNCHANGED <<created, replays>> /\ s \in DOMAIN replays
    BY <1>3 DEF Restore
  <2>2. replays[s] \in SessionPolicy /\ TrustInAuto(replays[s]) /\ replays[s].grants = {}
        /\ (replays[s].autoShell => s \in acknowledged)
    BY <2>1 DEF PolicyInv, PolicyTypeOK
  <2>3. policies' \in [DOMAIN policies' -> SessionPolicy] /\ PoliciesGrounded'
    BY <1>1, <2>1, <2>2, InstallKeeps
  <2> QED BY <1>1, <1>2, <2>1, <2>3 DEF PolicyInv, PolicyTypeOK
<1>4. ASSUME NEW mode \in Mode, CreateSession(s, mode) PROVE PolicyInv'
  <2>1. Create(s, mode) /\ UNCHANGED policies
    BY <1>4 DEF CreateSession
  <2>2. /\ created' \in [DOMAIN created' -> Mode] /\ replays' \in [DOMAIN replays' -> SessionPolicy]
        /\ ReplaysGrounded'
    BY <1>1, <2>1, CreateKeeps
  <2> QED BY <1>1, <1>2, <2>1, <2>2 DEF PolicyInv, PolicyTypeOK
<1>5. ASSUME NEW parent \in Session, RunChild(s, parent) PROVE PolicyInv'
  <2>1. /\ parent \in DOMAIN created
        /\ policies' = With(policies, s, NewSession(created[parent]))
        /\ Create(s, created[parent]) \/ UNCHANGED <<created, replays>>
    BY <1>5 DEF RunChild
  <2>2. created[parent] \in Mode
    BY <2>1 DEF PolicyInv, PolicyTypeOK
  <2>3. policies' \in [DOMAIN policies' -> SessionPolicy] /\ PoliciesGrounded'
    BY <1>1, <2>1, <2>2, NewSessionOK, InstallKeeps DEF TrustInAuto
  <2>4. /\ created' \in [DOMAIN created' -> Mode] /\ replays' \in [DOMAIN replays' -> SessionPolicy]
        /\ ReplaysGrounded'
    <3>1. CASE Create(s, created[parent])
      BY <1>1, <2>2, <3>1, CreateKeeps
    <3>2. CASE UNCHANGED <<created, replays>>
      BY <1>1, <3>2 DEF PolicyInv, PolicyTypeOK
    <3> QED BY <2>1, <3>1, <3>2
  <2> QED BY <1>1, <1>2, <2>3, <2>4 DEF PolicyInv, PolicyTypeOK
<1> QED BY <1>3, <1>4, <1>5

LEMMA PolicyNextInv == PolicyInv /\ [PolicyNext]_policyVars => PolicyInv'
<1> SUFFICES ASSUME PolicyInv, [PolicyNext]_policyVars PROVE PolicyInv' OBVIOUS
<1>1. ASSUME NEW s \in Session, Restore(s) PROVE PolicyInv'
  BY <1>1, SessionsKeep
<1>2. ASSUME NEW s \in Session, \E mode \in Mode : CreateSession(s, mode) PROVE PolicyInv'
  BY <1>2, SessionsKeep
<1>3. ASSUME NEW s \in Session, \E parent \in Session : RunChild(s, parent) PROVE PolicyInv'
  BY <1>3, SessionsKeep
<1>4. ASSUME NEW s \in Session, NEW setting \in Mode \cup {"trust"}, CommitSetting(s, setting) PROVE PolicyInv'
  BY <1>4, CommitSettingKeeps
<1>5. CASE ApplySetting
  BY <1>5, ApplySettingKeeps
<1>6. ASSUME NEW r \in Asked, DecideControl(r) PROVE PolicyInv'
  <2>1. r.source = "runtime" /\ Allows(r, "runtime_control")
        /\ UNCHANGED <<policies, created, replays, change, pending, consented, acknowledged>>
    BY <1>6 DEF DecideControl
  <2>2. ~Reaches(r)
    BY <2>1 DEF Reaches
  <2>3. allowed' \subseteq [request : Asked, by : Source] /\ NothingUnasked'
    BY <2>1, <2>2, AllowsKeeps DEF Source
  <2> QED BY <2>1, <2>3 DEF PolicyInv, PolicyTypeOK
<1>7. ASSUME NEW r \in Asked, Decide(r) PROVE PolicyInv'
  BY <1>7, DecideKeeps
<1>8. ASSUME NEW r \in Asked, ResolveOnce(r) PROVE PolicyInv'
  <2>1. pending' = pending \ {r} /\ Allows(r, "interactive")
        /\ UNCHANGED <<policies, created, replays, change, consented, acknowledged>>
    BY <1>8 DEF ResolveOnce
  <2>2. allowed' \subseteq [request : Asked, by : Source] /\ NothingUnasked'
    BY <2>1, AllowsKeeps DEF Source
  <2> QED BY <2>1, <2>2 DEF PolicyInv, PolicyTypeOK
<1>9. ASSUME NEW r \in Asked, ResolveForSession(r) PROVE PolicyInv'
  BY <1>9, ResolveForSessionKeeps
<1>10. ASSUME NEW r \in Asked, Refuse(r) PROVE PolicyInv'
  BY <1>10, AllowedKeeps DEF Refuse, PolicyInv, PolicyTypeOK
<1>11. CASE Restart
  BY <1>11, AllowedKeeps DEF Restart, PolicyInv, PolicyTypeOK, NoChange
<1>12. CASE UNCHANGED policyVars
  BY <1>12, AllowedKeeps DEF policyVars, PolicyInv, PolicyTypeOK
<1> QED BY <1>1, <1>2, <1>3, <1>4, <1>5, <1>6, <1>7, <1>8, <1>9, <1>10, <1>11, <1>12 DEF PolicyNext

\* For any sessions and requests: whatever a policy lets reach further than the
\* workspace's files, its own user had answered for or acknowledged.
THEOREM Consent == PolicySpec => []NothingUnasked
<1>1. PolicyInv => NothingUnasked
  BY DEF PolicyInv
<1> QED BY PolicyInitInv, PolicyNextInv, <1>1, PTL DEF PolicySpec

\* Trust in shells ends with the auto mode, in policies and in their replays.
THEOREM TrustEnds == PolicySpec => []TrustEndsWithAuto
<1>1. PolicyInv => TrustEndsWithAuto
  BY DEF PolicyInv, TrustEndsWithAuto, TrustInAuto
<1> QED BY PolicyInitInv, PolicyNextInv, <1>1, PTL DEF PolicySpec

\* A policy in safe mode allows nothing that reaches further on its own.
THEOREM SafeHolds == PolicySpec => SafeModeHolds
<1> DEFINE Held == \A a \in allowed' \ allowed :
                     /\ a.request.session \in DOMAIN policies
                     /\ policies[a.request.session].mode = "safe"
                     => a.by = "interactive" \/ ~Reaches(a.request)
<1>1. PolicyInv /\ [PolicyNext]_policyVars => [Held]_policyVars
  <2> SUFFICES ASSUME PolicyInv, PolicyNext, NEW a \in allowed' \ allowed,
                      a.request.session \in DOMAIN policies,
                      policies[a.request.session].mode = "safe",
                      a.by # "interactive", Reaches(a.request)
               PROVE  FALSE
    BY DEF Held
  <2>1. allowed' # allowed
    OBVIOUS
  <2>2. PICK r \in Asked : DecideControl(r) \/ Decide(r) \/ ResolveOnce(r) \/ ResolveForSession(r)
    BY <2>1 DEF PolicyNext, Restore, CreateSession, RunChild, CommitSetting, ApplySetting, Refuse, Restart
  <2>3. CASE DecideControl(r)
    BY <2>3 DEF DecideControl, Allows, Reaches
  <2>4. CASE Decide(r)
    <3>1. a.request = r /\ EvaluateAuthorization(policies[r.session], r).action = "allow"
      BY <2>1, <2>4 DEF Decide, Allows
    <3>2. r.source # "runtime" /\ Registered(r)
      BY <2>4 DEF Decide
    <3> QED BY <3>1, <3>2, DecisionGrounded
  <2>5. CASE ResolveOnce(r) \/ ResolveForSession(r)
    BY <2>5 DEF ResolveOnce, ResolveForSession, Allows
  <2> QED BY <2>2, <2>3, <2>4, <2>5
<1> QED BY PolicyInitInv, PolicyNextInv, <1>1, PTL DEF PolicySpec, SafeModeHolds

-----------------------------------------------------------------------------
(* Compaction: what is in the journal, and what the turn and the commands  *)
(* know of it.                                                             *)

Kinds == {"user", "contract", "assistant", "started", "tool", "compacted", "end"}
Ranges == [from : Nat, thru : Nat]
Entries == [at : Nat, kind : Kinds, turn : Nat, n : Nat, from : Nat, thru : Nat]
Causes == {"failed", "cancelled", "denied"}
Marks == {"planned", "authorized", "denied", "started", "succeeded", "completed"} \cup Causes
Commands == [asked : Nat, act : Seq(Marks), ends : Seq(Marks)]

\* The journal: its events have positions up to its head, and a compaction stays
\* behind the head and names a stored summary.
JournalInv ==
  /\ log \in Seq(Entries) /\ head \in Nat
  /\ evidence \in Seq(Nat) /\ cmds \in Seq(Commands)
  /\ \A i \in DOMAIN log :
       /\ 1 <= log[i].at /\ log[i].at <= head /\ log[i].thru <= head
       /\ log[i].kind = "user" => log[i].turn # 0
       /\ log[i].kind = "compacted" => log[i].n \in DOMAIN evidence
  /\ \A n \in DOMAIN evidence : evidence[n] <= Len(cmds)

\* No compaction of the journal reaches into the range, or beyond it.
Free(range) ==
  /\ range.thru <= head
  /\ \A i \in Compactions : log[i].thru < range.from

TurnPlaces == {"idle", "lane", "plan", "compact", "request", "call", "summary", "answer", "tool", "finish", "failing"}

TurnStates == [at : TurnPlaces, turn : Nat, head : Nat, round : Nat, calls : Nat, call : Nat,
               rebuilt : BOOLEAN, lent : BOOLEAN, range : Ranges]

\* The turn of the process: the range it chose is free as long as nobody else has
\* committed anything.
MeInv ==
  /\ me \in TurnStates
  /\ me.head <= head
  /\ me.at \notin {"idle", "failing"} => me.turn # 0
  /\ me.at \in {"compact", "summary"} /\ me.head = head => Free(me.range)

Live == {"plan", "decide", "start", "summary", "final", "failing"}
Chosen == {"accept", "plan", "decide", "start", "summary", "final"}
JobStates == [at : {"off", "lane"} \cup Chosen \cup Live, asked : Nat, head : Nat, cmd : Nat, range : Ranges,
              planned : BOOLEAN, closed : BOOLEAN, evidence : Nat, cause : Causes]

\* A compaction command: what it found when it chose its range holds as long as
\* nobody else has committed anything; its command has no terminal yet, and its
\* summary is its own.
JobInv(j) ==
  /\ Job(j) \in JobStates
  /\ Job(j).head <= head
  /\ Job(j).at \in Chosen /\ Job(j).head = head => Free(Job(j).range) /\ Active = {}
  /\ Job(j).at \in Live => Job(j).cmd \in DOMAIN cmds /\ cmds[Job(j).cmd].ends = <<>>
  /\ Job(j).at \notin Live => Job(j).evidence = 0
  /\ Job(j).at = "final" => Job(j).evidence # 0
  /\ Job(j).at \in Live /\ Job(j).evidence # 0 =>
       Job(j).evidence \in DOMAIN evidence /\ evidence[Job(j).evidence] = Job(j).cmd

\* No two work on one command.
OwnCommand ==
  \A j, k \in Jobs : Job(j).at \in Live /\ Job(k).at \in Live /\ Job(j).cmd = Job(k).cmd => j = k

Its(c) == {i \in Compactions : evidence[log[i].n] = c}
Terminals == {<<cause>> : cause \in Causes}

\* A command is open, has failed, or was completed by a compaction of its own.
CommandOK(c) ==
  /\ \/ cmds[c].ends \in {<<>>} \cup Terminals /\ Its(c) = {}
     \/ cmds[c].ends = <<"completed">> /\ Its(c) # {}
  /\ (\E i \in DOMAIN cmds[c].act : cmds[c].act[i] = "succeeded") => c \in {evidence[n] : n \in Stored}

CompactionInv ==
  /\ JournalInv /\ SummarisedOnce /\ CompactionIsIdle
  /\ MeInv
  /\ job \in [Jobs -> JobStates] /\ (\A j \in Jobs : JobInv(j)) /\ OwnCommand
  /\ \A c \in DOMAIN cmds : CommandOK(c)

-----------------------------------------------------------------------------
(* The range that is chosen.                                               *)

LEMMA LeastByDescent ==
  ASSUME NEW R, NEW S, IsWellFoundedOn(R, S), NEW T, T \subseteq S, T # {}
  PROVE  \E m \in T : \A k \in T : ~ (<<k, m>> \in R)
BY WFMin

LEMMA LeastNumber ==
  ASSUME NEW T, T \subseteq Nat, T # {}
  PROVE  Min(T) \in T /\ \A k \in T : Min(T) <= k
<1> DEFINE R == OpToRel(<, Nat)
<1>1. IsWellFoundedOn(R, Nat)
  BY NatLessThanWellFounded
<1>2. \A x, y \in Nat : x < y => <<x, y>> \in R
  BY DEF OpToRel
<1> HIDE DEF R
<1>3. \E m \in T : \A k \in T : ~ (<<k, m>> \in R)
  BY <1>1, LeastByDescent
<1>4. \E m \in T : \A k \in T : ~ (k < m)
  BY <1>2, <1>3
<1>5. \E m \in T : \A k \in T : m <= k
  BY <1>4
<1> QED
  BY <1>5 DEF Min

LEMMA GreatestNumber ==
  ASSUME NEW N \in Nat, NEW T, T \subseteq 0 .. N, T # {}
  PROVE  Max(T) \in T /\ \A k \in T : k <= Max(T)
<1> DEFINE U == {N - x : x \in T}
<1>1. U \subseteq Nat /\ U # {}
  <2>1. \A x \in T : N - x \in Nat
    OBVIOUS
  <2> QED
    BY <2>1
<1>2. PICK m \in U : \A k \in U : m <= k
  BY <1>1, LeastNumber
<1>3. PICK x \in T : m = N - x
  BY <1>2
<1>4. \A k \in T : x >= k
  <2> SUFFICES ASSUME NEW k \in T PROVE x >= k
    OBVIOUS
  <2>1. N - k \in U
    OBVIOUS
  <2>2. N - x <= N - k
    BY <1>2, <1>3, <2>1
  <2>3. x \in Int /\ k \in Int /\ N \in Int
    OBVIOUS
  <2> HIDE DEF U
  <2> QED
    BY ONLY <2>2, <2>3
<1>5. Max(T) \in T /\ \A k \in T : Max(T) >= k
  BY <1>3, <1>4 DEF Max
<1> QED
  BY <1>5

LEMMA EntryOf ==
  ASSUME NEW l \in Seq(Entries), NEW i \in DOMAIN l
  PROVE  /\ l[i] \in Entries /\ i \in Nat /\ l[i].at \in Nat /\ l[i].turn \in Nat /\ l[i].n \in Nat
         /\ l[i].from \in Nat /\ l[i].thru \in Nat /\ l[i].kind \in Kinds
<1>1. l[i] \in Entries /\ i \in Nat
  OBVIOUS
<1> QED
  BY <1>1 DEF Entries

\* In a log without stray answers every exchange lies between its first event and
\* the head, so nothing splits one at either end.
LEMMA NoSplitAtTheEnds ==
  ASSUME NEW l \in Seq(Entries), NEW h \in Nat, \A i \in DOMAIN l : 1 <= l[i].at /\ l[i].at <= h,
         Matched(l)
  PROVE  ~ Splits(l, 0) /\ ~ Splits(l, h)
<1>1. ASSUME NEW i \in Calling(l)
      PROVE  i \in DOMAIN l /\ l[i].n > 0 /\ l[i].n \in Nat
  BY <1>1, EntryOf DEF Calling, Indices
<1>2. ~ Splits(l, 0)
  <2> SUFFICES ASSUME NEW i \in Calling(l) PROVE ~ (ExchangeOf(l, i).from <= 0)
    BY DEF Splits
  <2>1. i \in DOMAIN l /\ l[i].at \in Nat
    BY <1>1, EntryOf
  <2> QED
    BY <2>1 DEF ExchangeOf
<1>3. ~ Splits(l, h)
  <2> SUFFICES ASSUME NEW i \in Calling(l) PROVE ~ (h < ExchangeOf(l, i).thru)
    BY DEF Splits
  <2> DEFINE last == IF Answered(l, i) THEN Answers(l, i) ELSE EndsOf(l, i)
             T == {l[j].at : j \in last}
  <2>1. last \subseteq DOMAIN l
    BY DEF Answers, EndsOf, Indices
  <2>2. last # {}
    <3>1. CASE Answered(l, i)
      <4>1. 1 \in 1 .. l[i].n
        BY <1>1
      <4>2. 1 \in {l[j].n : j \in Answers(l, i)}
        BY <3>1, <4>1 DEF Answered
      <4> QED
        BY <3>1, <4>2
    <3>2. CASE ~ Answered(l, i)
      BY <3>2 DEF Matched
    <3> QED
      BY <3>1, <3>2
  <2>3. T \subseteq 0 .. h /\ T # {}
    <3>1. \A j \in last : l[j].at \in 0 .. h
      BY <2>1, EntryOf
    <3> HIDE DEF last
    <3> QED
      BY <2>2, <3>1
  <2>4. Max(T) \in T
    BY <2>3, GreatestNumber
  <2>5. ExchangeOf(l, i).thru = Max(T)
    BY DEF ExchangeOf
  <2>6. Max(T) \in 0 .. h
    BY <2>3, <2>4
  <2> HIDE DEF T
  <2> QED
    BY <2>5, <2>6
<1> QED
  BY <1>2, <1>3

\* Select: the range lies behind all that was summarised and in front of the head.
LEMMA SelectedRange ==
  ASSUME NEW l \in Seq(Entries), NEW h \in Nat,
         \A i \in DOMAIN l : 1 <= l[i].at /\ l[i].at <= h /\ l[i].thru <= h,
         SelectionOutcome(l, h) = "range"
  PROVE  /\ Select(l, h) \in Ranges /\ Select(l, h).thru <= h
         /\ \A i \in Indices(l, {"compacted"}) : l[i].thru < Select(l, h).from
<1>1. Matched(l) /\ h > Suffix /\ Starts(l, h) # {} /\ Suffix \in Nat
  BY ContextAssumption DEF SelectionOutcome
<1>2. ~ Splits(l, 0) /\ ~ Splits(l, h)
  BY <1>1, NoSplitAtTheEnds
<1>3. /\ FirstUnsummarised(l) \in 1 .. h + 1
      /\ \A i \in Indices(l, {"compacted"}) : l[i].thru < FirstUnsummarised(l)
  <2> DEFINE T == {0} \cup {l[i].thru : i \in Indices(l, {"compacted"})}
  <2>1. T \subseteq 0 .. h /\ T # {}
    <3>1. \A i \in Indices(l, {"compacted"}) : l[i].thru \in 0 .. h
      BY EntryOf DEF Indices
    <3> QED
      BY <3>1
  <2>2. Max(T) \in T /\ \A k \in T : k <= Max(T)
    BY <2>1, GreatestNumber
  <2>3. \A i \in Indices(l, {"compacted"}) : l[i].thru \in T
    OBVIOUS
  <2>4. FirstUnsummarised(l) = 1 + Max(T)
    BY DEF FirstUnsummarised
  <2>5. \A i \in Indices(l, {"compacted"}) : l[i].thru \in Nat
    BY EntryOf DEF Indices
  <2> HIDE DEF T
  <2>6. Max(T) \in 0 .. h
    BY <2>1, <2>2
  <2> QED
    BY <2>2, <2>3, <2>4, <2>5, <2>6
<1>4. First(l, h) \in Nat /\ First(l, h) >= FirstUnsummarised(l)
  <2> DEFINE p == FirstUnsummarised(l)
             T == {q \in p .. h + 1 : ~ Splits(l, q - 1)}
  <2>1. p \in 1 .. h + 1
    BY <1>3
  <2> HIDE DEF p
  <2>2. h + 1 \in p .. h + 1 /\ h + 1 - 1 = h
    BY <2>1
  <2>3. T \subseteq Nat /\ T # {}
    <3>1. h + 1 \in T
      BY <1>2, <2>2
    <3>2. p .. h + 1 \subseteq Nat
      BY <2>1
    <3> QED
      BY <3>1, <3>2
  <2>4. Min(T) \in T
    BY <2>3, LeastNumber
  <2>5. First(l, h) = Min(T)
    BY DEF First, SafeStart, p
  <2> QED
    BY <2>1, <2>4, <2>5 DEF p
<1>5. Cutoff(l, h) \in 0 .. h
  <2> DEFINE T == {q \in 0 .. h - Suffix : ~ Splits(l, q)}
  <2>1. h - Suffix \in Nat /\ h - Suffix <= h
    BY <1>1
  <2>2. T \subseteq 0 .. h - Suffix /\ T # {}
    BY <1>2, <2>1
  <2>3. Max(T) \in T
    BY <2>1, <2>2, GreatestNumber
  <2>4. Cutoff(l, h) = Max(T)
    BY DEF Cutoff, SafeCutoff
  <2> HIDE DEF T
  <2>5. Max(T) \in 0 .. h - Suffix
    BY <2>2, <2>3
  <2> QED
    BY <2>1, <2>4, <2>5
<1>6. Starts(l, h) \subseteq First(l, h) .. Cutoff(l, h)
  BY DEF Starts
<1>7. Min(Starts(l, h)) \in Starts(l, h)
  <2>1. Starts(l, h) \subseteq Nat
    BY <1>4, <1>5, <1>6
  <2> QED
    BY <1>1, <2>1, LeastNumber
<1>8. Min(Starts(l, h)) \in Nat /\ Min(Starts(l, h)) >= First(l, h)
  BY <1>4, <1>5, <1>6, <1>7
<1>9. ASSUME NEW i \in Indices(l, {"compacted"}) PROVE l[i].thru < Min(Starts(l, h))
  <2>1. l[i].thru \in Nat
    BY EntryOf DEF Indices
  <2> QED
    BY <2>1, <1>3, <1>4, <1>8
<1> QED
  BY <1>5, <1>8, <1>9 DEF Select, Ranges

-----------------------------------------------------------------------------
(* What a step may do to the journal.                                      *)

\* n facts are appended, those of s among them; a compaction comes first, and its
\* range is free.
Grown(s, n) ==
  /\ s \in Seq(Entries) /\ n \in Nat /\ (n = 0 => s = <<>>)
  /\ log' = log \o s /\ head' = head + n
  /\ \A i \in DOMAIN s :
       /\ head < s[i].at /\ s[i].at <= head + n /\ s[i].thru <= head + n
       /\ s[i].kind = "user" => s[i].turn # 0
       /\ s[i].kind = "compacted" =>
            i = 1 /\ Free(s[1]) /\ s[1].n \in DOMAIN evidence' /\ (s[1].turn = 0 => Active = {})

\* A summary may be stored.
Stores ==
  \/ evidence' = evidence
  \/ \E c \in 0 .. Len(cmds) : evidence' = Append(evidence, c)

\* Commands stay, with their terminals or more.
Commands_grow == cmds' \in Seq(Commands) /\ Len(cmds) <= Len(cmds')

Kept == JournalInv /\ SummarisedOnce /\ CompactionIsIdle

LEMMA StoresKeep ==
  ASSUME JournalInv, Stores
  PROVE  /\ evidence' \in Seq(Nat) /\ DOMAIN evidence \subseteq DOMAIN evidence'
         /\ \A n \in DOMAIN evidence : evidence'[n] = evidence[n]
         /\ \A n \in DOMAIN evidence' : evidence'[n] <= Len(cmds)
<1>1. /\ evidence \in Seq(Nat) /\ Len(cmds) \in Nat
      /\ \A n \in DOMAIN evidence : evidence[n] <= Len(cmds)
  BY DEF JournalInv
<1>2. CASE evidence' = evidence
  BY <1>1, <1>2
<1>3. ASSUME NEW c \in 0 .. Len(cmds), evidence' = Append(evidence, c)
      PROVE  /\ evidence' \in Seq(Nat) /\ DOMAIN evidence \subseteq DOMAIN evidence'
             /\ \A n \in DOMAIN evidence : evidence'[n] = evidence[n]
             /\ \A n \in DOMAIN evidence' : evidence'[n] <= Len(cmds)
  <2>1. c \in Nat
    BY <1>1
  <2>2. /\ evidence' \in Seq(Nat) /\ Len(evidence') = Len(evidence) + 1
        /\ \A n \in 1 .. Len(evidence) : evidence'[n] = evidence[n]
        /\ evidence'[Len(evidence) + 1] = c
    BY <1>1, <1>3, <2>1
  <2>3. DOMAIN evidence = 1 .. Len(evidence) /\ DOMAIN evidence' = 1 .. Len(evidence) + 1
        /\ Len(evidence) \in Nat
    BY <1>1, <2>2
  <2>4. \A n \in DOMAIN evidence' : n \in DOMAIN evidence \/ n = Len(evidence) + 1
    BY <2>3
  <2> QED
    BY <1>1, <2>2, <2>3, <2>4
<1> QED
  BY <1>2, <1>3 DEF Stores

\* The log behind a step: the old events at their places, then the new ones.
LEMMA GrownLog ==
  ASSUME JournalInv, NEW s, NEW n, Grown(s, n)
  PROVE  /\ log' \in Seq(Entries) /\ head' \in Nat /\ head <= head' /\ (n # 0 => head < head')
         /\ Len(log) \in Nat /\ DOMAIN log \subseteq DOMAIN log'
         /\ \A i \in DOMAIN log : log'[i] = log[i] /\ i \in Nat /\ i <= Len(log)
         /\ \A i \in DOMAIN log' : i \in Nat /\ (i \notin DOMAIN log => i > Len(log)
              /\ i - Len(log) \in DOMAIN s /\ log'[i] = s[i - Len(log)])
<1>1. log \in Seq(Entries) /\ s \in Seq(Entries) /\ log' = log \o s /\ head \in Nat /\ n \in Nat
      /\ head' = head + n
  BY DEF JournalInv, Grown
<1>2. /\ log' \in Seq(Entries) /\ Len(log') = Len(log) + Len(s) /\ Len(log) \in Nat /\ Len(s) \in Nat
      /\ DOMAIN log = 1 .. Len(log) /\ DOMAIN s = 1 .. Len(s) /\ DOMAIN log' = 1 .. Len(log) + Len(s)
  BY <1>1
<1>3. \A i \in 1 .. Len(log) + Len(s) : log'[i] = IF i <= Len(log) THEN log[i] ELSE s[i - Len(log)]
  BY <1>1, <1>2
<1> QED
  BY <1>1, <1>2, <1>3

LEMMA NewEntry ==
  ASSUME JournalInv, NEW s, NEW n, Grown(s, n), NEW i \in DOMAIN log', i \notin DOMAIN log
  PROVE  /\ i > Len(log) /\ i \in Nat /\ log'[i] \in Entries
         /\ 1 <= log'[i].at /\ log'[i].at <= head' /\ log'[i].thru <= head'
         /\ log'[i].kind = "user" => log'[i].turn # 0
         /\ log'[i].kind = "compacted" =>
              /\ i = Len(log) + 1 /\ log'[i] = s[1] /\ s # <<>>
              /\ Free(log'[i]) /\ log'[i].n \in DOMAIN evidence' /\ (log'[i].turn = 0 => Active = {})
<1> DEFINE k == i - Len(log)
<1>1. i > Len(log) /\ i \in Nat /\ k \in DOMAIN s /\ log'[i] = s[k] /\ Len(log) \in Nat
  BY GrownLog
<1>2. s \in Seq(Entries) /\ head \in Nat /\ n \in Nat /\ head' = head + n
  BY DEF Grown, JournalInv
<1> HIDE DEF k
<1>3. s[k] \in Entries /\ s[k].at \in Nat /\ s[k].thru \in Nat
  BY <1>1, <1>2, EntryOf
<1>4. /\ head < s[k].at /\ s[k].at <= head + n /\ s[k].thru <= head + n
      /\ s[k].kind = "user" => s[k].turn # 0
      /\ s[k].kind = "compacted" =>
           k = 1 /\ Free(s[1]) /\ s[1].n \in DOMAIN evidence' /\ (s[1].turn = 0 => Active = {})
  BY <1>1 DEF Grown
<1>5. k = 1 => i = Len(log) + 1
  BY <1>1 DEF k
<1>6. s # <<>>
  BY <1>1, <1>2
<1> QED
  BY <1>1, <1>2, <1>3, <1>4, <1>5, <1>6

LEMMA JournalKept ==
  ASSUME Kept, NEW s, NEW n, Grown(s, n), Stores, Commands_grow
  PROVE  Kept'
<1>1. JournalInv /\ SummarisedOnce /\ CompactionIsIdle
  BY DEF Kept
<1>2. /\ log' \in Seq(Entries) /\ head' \in Nat /\ head <= head'
      /\ Len(log) \in Nat /\ DOMAIN log \subseteq DOMAIN log'
      /\ \A i \in DOMAIN log : log'[i] = log[i] /\ i \in Nat /\ i <= Len(log)
      /\ \A i \in DOMAIN log' : i \in Nat
  BY <1>1, GrownLog
<1>3. /\ evidence' \in Seq(Nat) /\ DOMAIN evidence \subseteq DOMAIN evidence'
      /\ \A k \in DOMAIN evidence' : evidence'[k] <= Len(cmds)
  BY <1>1, StoresKeep
<1>4. /\ log \in Seq(Entries) /\ head \in Nat
      /\ \A i \in DOMAIN log :
           /\ 1 <= log[i].at /\ log[i].at <= head /\ log[i].thru <= head
           /\ log[i].kind = "user" => log[i].turn # 0
           /\ log[i].kind = "compacted" => log[i].n \in DOMAIN evidence
  BY <1>1 DEF JournalInv
<1>5. \A i \in DOMAIN log : log[i].at \in Nat /\ log[i].thru \in Nat
  BY <1>4, EntryOf
<1>6. JournalInv'
  <2>1. cmds' \in Seq(Commands) /\ \A k \in DOMAIN evidence' : evidence'[k] <= Len(cmds')
    <3>1. /\ cmds' \in Seq(Commands) /\ Len(cmds) <= Len(cmds') /\ Len(cmds) \in Nat /\ Len(cmds') \in Nat
      BY <1>1 DEF Commands_grow, JournalInv
    <3>2. \A k \in DOMAIN evidence' : evidence'[k] \in Nat
      BY <1>3
    <3> QED
      BY <1>3, <3>1, <3>2
  <2>2. ASSUME NEW i \in DOMAIN log'
        PROVE  /\ 1 <= log'[i].at /\ log'[i].at <= head' /\ log'[i].thru <= head'
               /\ log'[i].kind = "user" => log'[i].turn # 0
               /\ log'[i].kind = "compacted" => log'[i].n \in DOMAIN evidence'
    <3>1. CASE i \in DOMAIN log
      BY <1>2, <1>3, <1>4, <1>5, <3>1
    <3>2. CASE i \notin DOMAIN log
      BY <1>1, <3>2, NewEntry
    <3> QED
      BY <3>1, <3>2
  <2> QED
    BY <1>2, <1>3, <2>1, <2>2 DEF JournalInv
<1>7. ASSUME NEW i \in Compactions', i \in DOMAIN log
      PROVE  i \in Compactions
  BY <1>2, <1>7 DEF Compactions, Indices
<1>8. SummarisedOnce'
  <2> SUFFICES ASSUME NEW i \in Compactions', NEW k \in Compactions', i < k
               PROVE  log'[i].thru < log'[k].from
    BY DEF SummarisedOnce
  <2>1. i \in DOMAIN log' /\ k \in DOMAIN log' /\ log'[i].kind = "compacted" /\ log'[k].kind = "compacted"
    BY DEF Compactions, Indices
  <2>2. CASE k \in DOMAIN log
    <3>1. DOMAIN log = 1 .. Len(log) /\ DOMAIN log' = 1 .. Len(log')
      BY <1>2, <1>4
    <3>2. i \in DOMAIN log
      BY <2>1, <2>2, <3>1
    <3> QED
      BY <1>1, <1>2, <1>7, <2>2, <3>2 DEF SummarisedOnce
  <2>3. CASE k \notin DOMAIN log
    <3>1. k = Len(log) + 1 /\ Free(log'[k])
      BY <1>1, <2>1, <2>3, NewEntry
    <3>2. i \in DOMAIN log
      <4>1. i \notin DOMAIN log => i > Len(log)
        BY <1>1, <2>1, NewEntry
      <4> QED
        BY <1>2, <2>1, <3>1, <4>1
    <3> QED
      BY <1>2, <1>7, <3>1, <3>2 DEF Free
  <2> QED
    BY <2>2, <2>3
<1>9. CompactionIsIdle'
  <2> SUFFICES ASSUME NEW k \in Compactions', log'[k].turn = 0,
                      NEW i \in Indices(log', {"user"}), i < k
               PROVE  \E e \in EndsOf(log', i) : e < k
    BY DEF CompactionIsIdle
  <2>1. i \in DOMAIN log' /\ k \in DOMAIN log' /\ log'[i].kind = "user" /\ log'[k].kind = "compacted"
    BY DEF Compactions, Indices
  <2>2. DOMAIN log = 1 .. Len(log) /\ DOMAIN log' = 1 .. Len(log')
    BY <1>2, <1>4
  <2>3. k \in DOMAIN log \/ (k = Len(log) + 1 /\ Active = {})
    BY <1>1, <2>1, NewEntry
  <2>4. i \in DOMAIN log
    BY <1>2, <2>1, <2>2, <2>3
  <2>5. i \in Indices(log, {"user"})
    BY <1>2, <2>1, <2>4 DEF Indices
  <2>6. \E e \in EndsOf(log, i) : e < k
    <3>1. CASE k \in DOMAIN log
      <4>1. k \in Compactions /\ log[k].turn = 0
        BY <1>2, <1>7, <3>1
      <4> QED
        BY <1>1, <2>5, <4>1 DEF CompactionIsIdle
    <3>2. CASE k = Len(log) + 1 /\ Active = {}
      <4>1. EndsOf(log, i) # {}
        BY <2>5, <3>2 DEF Active
      <4>2. \A e \in EndsOf(log, i) : e \in DOMAIN log
        BY DEF EndsOf, Indices
      <4> QED
        BY <1>2, <3>2, <4>1, <4>2
    <3> QED
      BY <2>3, <3>1, <3>2
  <2>7. EndsOf(log, i) \subseteq EndsOf(log', i)
    BY <1>2, <2>4 DEF EndsOf, Indices
  <2> QED
    BY <2>6, <2>7
<1> QED
  BY <1>6, <1>8, <1>9 DEF Kept

-----------------------------------------------------------------------------
(* What a step leaves alone.                                               *)

LEMMA SameLog ==
  ASSUME JournalInv, NEW s, Grown(s, 0)
  PROVE  log' = log /\ head' = head
<1>1. s = <<>> /\ log' = log \o s /\ head' = head + 0 /\ log \in Seq(Entries) /\ head \in Nat
  BY DEF Grown, JournalInv
<1> QED
  BY <1>1

LEMMA MeKept ==
  ASSUME JournalInv, MeInv, NEW s, NEW n, Grown(s, n), me' = me
  PROVE  MeInv'
<1>1. /\ me \in TurnStates /\ me.head <= head /\ (me.at \notin {"idle", "failing"} => me.turn # 0)
      /\ me.at \in {"compact", "summary"} /\ me.head = head => Free(me.range)
      /\ head \in Nat /\ me.head \in Nat
  BY DEF MeInv, JournalInv, TurnStates
<1>2. head' \in Nat /\ head <= head' /\ (n # 0 => head < head')
  BY GrownLog
<1>3. me.head <= head'
  BY <1>1, <1>2
<1>4. me.at \in {"compact", "summary"} /\ me.head = head' => Free(me.range)'
  <2>1. CASE n = 0
    BY <1>1, <2>1, SameLog DEF Free, Compactions
  <2>2. CASE n # 0
    BY <1>1, <1>2, <2>2
  <2> QED
    BY <2>1, <2>2
<1> QED
  BY <1>1, <1>3, <1>4 DEF MeInv

LEMMA JobKept ==
  ASSUME JournalInv, NEW s, NEW n, Grown(s, n), Stores, Commands_grow,
         NEW j \in Jobs, JobInv(j), job'[j] = job[j],
         Job(j).at \in Live => cmds'[Job(j).cmd].ends = cmds[Job(j).cmd].ends
  PROVE  JobInv(j)'
<1>1. /\ job[j] \in JobStates /\ job[j].head <= head
      /\ job[j].at \in Chosen /\ job[j].head = head => Free(job[j].range) /\ Active = {}
      /\ job[j].at \in Live => job[j].cmd \in DOMAIN cmds /\ cmds[job[j].cmd].ends = <<>>
      /\ job[j].at \notin Live => job[j].evidence = 0
      /\ job[j].at = "final" => job[j].evidence # 0
      /\ job[j].at \in Live /\ job[j].evidence # 0 =>
           job[j].evidence \in DOMAIN evidence /\ evidence[job[j].evidence] = job[j].cmd
      /\ job[j].at \in Live => cmds'[job[j].cmd].ends = cmds[job[j].cmd].ends
  BY DEF JobInv, Job
<1>2. head \in Nat /\ job[j].head \in Nat
  BY <1>1 DEF JournalInv, JobStates
<1>3. head' \in Nat /\ head <= head' /\ (n # 0 => head < head')
  BY GrownLog
<1>4. /\ DOMAIN evidence \subseteq DOMAIN evidence'
      /\ \A k \in DOMAIN evidence : evidence'[k] = evidence[k]
  BY StoresKeep
<1>5. DOMAIN cmds \subseteq DOMAIN cmds'
  BY DEF JournalInv, Commands_grow
<1>6. job[j].head <= head'
  BY <1>1, <1>2, <1>3
<1>7. job[j].at \in Chosen /\ job[j].head = head' => Free(job[j].range)' /\ (Active = {})'
  <2>1. CASE n = 0
    BY <1>1, <2>1, SameLog DEF Free, Compactions, Active
  <2>2. CASE n # 0
    BY <1>1, <1>2, <1>3, <2>2
  <2> QED
    BY <2>1, <2>2
<1> QED
  BY <1>1, <1>4, <1>5, <1>6, <1>7 DEF JobInv, Job

LEMMA ItsStay ==
  ASSUME JournalInv, NEW s, NEW n, Grown(s, n), Stores, NEW c,
         \A i \in DOMAIN s : s[i].kind = "compacted" => evidence'[s[i].n] # c
  PROVE  Its(c)' = Its(c)
<1>1. /\ Len(log) \in Nat /\ DOMAIN log \subseteq DOMAIN log'
      /\ \A i \in DOMAIN log : log'[i] = log[i]
  BY GrownLog
<1>2. \A i \in DOMAIN evidence : evidence'[i] = evidence[i]
  BY StoresKeep
<1>3. \A i \in DOMAIN log : log[i].kind = "compacted" => log[i].n \in DOMAIN evidence
  BY DEF JournalInv
<1>4. \A i \in DOMAIN log' : i \notin DOMAIN log => ~ (log'[i].kind = "compacted" /\ evidence'[log'[i].n] = c)
  BY GrownLog
<1> QED
  BY <1>1, <1>2, <1>3, <1>4 DEF Its, Compactions, Indices

LEMMA CommandStays ==
  ASSUME JournalInv, NEW s, NEW n, Grown(s, n), Stores, NEW c \in DOMAIN cmds,
         \A i \in DOMAIN s : s[i].kind = "compacted" => evidence'[s[i].n] # c,
         CommandOK(c), cmds'[c] = cmds[c]
  PROVE  CommandOK(c)'
<1>1. Its(c)' = Its(c)
  BY ItsStay
<1>2. /\ DOMAIN evidence \subseteq DOMAIN evidence'
      /\ \A k \in DOMAIN evidence : evidence'[k] = evidence[k]
  BY StoresKeep
<1>3. c \in {evidence[k] : k \in Stored} => c \in {evidence'[k] : k \in Stored'}
  BY <1>2 DEF Stored
<1> QED
  BY <1>1, <1>3 DEF CommandOK, Terminals

-----------------------------------------------------------------------------
(* Steps of the turns.                                                     *)

\* A step of no compaction command.
QuietStep(s, n) ==
  /\ Grown(s, n) /\ Stores /\ UNCHANGED <<cmds, job>>
  /\ \A i \in DOMAIN s : s[i].kind = "compacted" => evidence'[s[i].n] = 0

LEMMA QuietKept ==
  ASSUME CompactionInv, NEW s, NEW n, QuietStep(s, n), MeInv'
  PROVE  CompactionInv'
<1>1. /\ JournalInv /\ Kept /\ Grown(s, n) /\ Stores /\ cmds' = cmds /\ job' = job
      /\ \A i \in DOMAIN s : s[i].kind = "compacted" => evidence'[s[i].n] = 0
  BY DEF CompactionInv, Kept, QuietStep
<1>2. cmds \in Seq(Commands) /\ Commands_grow
  BY <1>1 DEF JournalInv, Commands_grow
<1>3. Kept'
  BY <1>1, <1>2, JournalKept
<1>4. ASSUME NEW j \in Jobs PROVE JobInv(j)'
  BY <1>1, <1>2, JobKept DEF CompactionInv
<1>5. ASSUME NEW c \in DOMAIN cmds PROVE CommandOK(c)'
  <2>1. c # 0
    BY <1>2
  <2> QED
    BY <1>1, <2>1, CommandStays DEF CompactionInv
<1>6. OwnCommand'
  BY <1>1 DEF CompactionInv, OwnCommand, Job
<1> QED
  BY <1>1, <1>3, <1>4, <1>5, <1>6 DEF CompactionInv, Kept

\* An event that a turn writes, other than a compaction.
Good(e, n) ==
  /\ e \in Entries /\ head < e.at /\ e.at <= head + n /\ e.thru = 0
  /\ e.kind # "compacted" /\ (e.kind = "user" => e.turn # 0)

LEMMA GoodEvent ==
  ASSUME head \in Nat, NEW n \in Nat, NEW k \in 1 .. n, NEW kind \in Kinds \ {"compacted"},
         NEW t \in Nat, NEW x \in Nat, kind = "user" => t # 0
  PROVE  Good(Event(head + k, kind, t, x), n)
BY DEF Good, Event, Entries, Kinds

LEMMA One ==
  ASSUME NEW a \in Entries
  PROVE  /\ <<a>> \in Seq(Entries) /\ DOMAIN <<a>> = {1} /\ <<a>>[1] = a
         /\ Append(<<>>, a) = <<a>>
         /\ \A l \in Seq(Entries) : Append(l, a) = l \o <<a>>
OBVIOUS

LEMMA Appended ==
  ASSUME NEW l \in Seq(Entries), NEW e \in Entries
  PROVE  /\ Append(l, e) \in Seq(Entries) /\ Len(Append(l, e)) = Len(l) + 1
         /\ \A i \in 1 .. Len(l) : Append(l, e)[i] = l[i]
         /\ Append(l, e)[Len(l) + 1] = e
OBVIOUS

LEMMA Joined ==
  ASSUME NEW l \in Seq(Entries), NEW m \in Seq(Entries)
  PROVE  /\ l \o m \in Seq(Entries) /\ Len(l \o m) = Len(l) + Len(m)
         /\ \A i \in 1 .. Len(l) + Len(m) : (l \o m)[i] = IF i <= Len(l) THEN l[i] ELSE m[i - Len(l)]
OBVIOUS

LEMMA Two ==
  ASSUME NEW a \in Entries, NEW b \in Entries
  PROVE  /\ <<a, b>> \in Seq(Entries) /\ DOMAIN <<a, b>> = {1, 2} /\ <<a, b>>[1] = a /\ <<a, b>>[2] = b
         /\ Append(<<a>>, b) = <<a, b>>
<1>1. <<a, b>> \in Seq(Entries) /\ DOMAIN <<a, b>> = {1, 2} /\ <<a, b>>[1] = a /\ <<a, b>>[2] = b
  OBVIOUS
<1>2. Append(<<a>>, b) = <<a, b>>
  <2> DEFINE l == <<a>>
             m == Append(l, b)
  <2>1. l \in Seq(Entries) /\ Len(l) = 1 /\ l[1] = a
    OBVIOUS
  <2> HIDE DEF l
  <2>2. m \in Seq(Entries) /\ Len(m) = 2 /\ m[1] = a /\ m[2] = b
    <3>1. /\ m \in Seq(Entries) /\ Len(m) = Len(l) + 1
          /\ \A i \in 1 .. Len(l) : m[i] = l[i]
          /\ m[Len(l) + 1] = b
      BY <2>1, Appended
    <3>2. 1 \in 1 .. Len(l) /\ Len(l) + 1 = 2
      BY <2>1
    <3> QED
      BY <2>1, <3>1, <3>2
  <2> HIDE DEF m
  <2>3. Len(<<a, b>>) = 2
    OBVIOUS
  <2>4. m = <<a, b>>
    BY <1>1, <2>2, <2>3, SeqEqual
  <2> QED
    BY <2>4 DEF m, l
<1> QED
  BY <1>1, <1>2

LEMMA NoEntries ==
  <<>> \in Seq(Entries) /\ DOMAIN <<>> = {} /\ \A l \in Seq(Entries) : l \o <<>> = l
OBVIOUS

\* A step that appends facts, or nothing.
LEMMA GoodStep ==
  ASSUME CompactionInv, UNCHANGED <<cmds, job>>, Stores, NEW n \in Nat, NEW s \in Seq(Entries),
         n = 0 => s = <<>>, \A i \in DOMAIN s : Good(s[i], n), log' = log \o s, head' = head + n
  PROVE  QuietStep(s, n)
<1>1. \A i \in DOMAIN s : s[i].thru <= head + n
  BY DEF Good, CompactionInv, JournalInv
<1> QED
  BY <1>1 DEF QuietStep, Grown, Good

LEMMA StillStep ==
  ASSUME CompactionInv, UNCHANGED <<cmds, job, log, head>>, Stores
  PROVE  QuietStep(<<>>, 0)
<1>1. log \in Seq(Entries) /\ head \in Nat
  BY DEF CompactionInv, JournalInv
<1>2. log' = log \o <<>> /\ head' = head + 0 /\ <<>> \in Seq(Entries) /\ \A i \in DOMAIN <<>> : Good(<<>>[i], 0)
  BY <1>1, NoEntries
<1> QED
  BY <1>2, GoodStep

\* The turn of the process after a step of its own.
LEMMA MeSteps ==
  ASSUME CompactionInv, NEW s, NEW n, QuietStep(s, n),
         me' \in TurnStates, me'.head <= head', me'.at \notin {"idle", "failing"} => me'.turn # 0,
         me'.at \in {"compact", "summary"} => log' = log /\ Free(me'.range)
  PROVE  CompactionInv'
<1>1. JournalInv /\ Grown(s, n)
  BY DEF CompactionInv, QuietStep
<1>2. head' \in Nat /\ head \in Nat /\ head <= head'
  BY <1>1, GrownLog DEF JournalInv
<1>3. ASSUME me'.at \in {"compact", "summary"} PROVE Free(me.range)'
  <2>1. log' = log /\ Free(me'.range)
    BY <1>3
  <2>2. Compactions' = Compactions
    BY <2>1 DEF Compactions
  <2>3. me'.range.thru \in Nat /\ me'.range.thru <= head
    BY <2>1 DEF Free, TurnStates, Ranges
  <2> QED
    BY <1>2, <2>1, <2>2, <2>3 DEF Free
<1>4. MeInv'
  BY <1>3 DEF MeInv
<1> QED
  BY <1>4, QuietKept

LEMMA BegunNat ==
  ASSUME CompactionInv, NEW foreign \in BOOLEAN
  PROVE  Begun(foreign) \in Nat
<1> DEFINE S == {i \in Indices(log, {"user"}) : (log[i].turn % 2 = 0) = foreign}
<1>1. log \in Seq(Entries)
  BY DEF CompactionInv, JournalInv
<1>2. S \subseteq 1 .. Len(log) /\ Len(log) \in Nat
  BY <1>1 DEF Indices
<1>3. IsFiniteSet(1 .. Len(log))
  <2>1. 1 \in Int /\ Len(log) \in Int
    BY <1>2
  <2> QED
    BY <2>1, FS_Interval
<1>4. IsFiniteSet(S)
  BY <1>2, <1>3, FS_Subset
<1> QED
  BY <1>4, FS_CardinalityType DEF Begun

LEMMA RangeIsFree ==
  ASSUME CompactionInv, SelectionOutcome(log, head) = "range"
  PROVE  Select(log, head) \in Ranges /\ Free(Select(log, head))
<1>1. /\ log \in Seq(Entries) /\ head \in Nat
      /\ \A i \in DOMAIN log : 1 <= log[i].at /\ log[i].at <= head /\ log[i].thru <= head
  BY DEF CompactionInv, JournalInv
<1> QED
  BY <1>1, SelectedRange DEF Free, Compactions

LEMMA MeFacts ==
  ASSUME CompactionInv
  PROVE  /\ me \in TurnStates /\ me.head <= head /\ head \in Nat /\ log \in Seq(Entries)
         /\ me.at \notin {"idle", "failing"} => me.turn # 0
         /\ me.at \in {"compact", "summary"} /\ me.head = head => Free(me.range)
         /\ me.turn \in Nat /\ me.head \in Nat /\ me.call \in Nat /\ me.calls \in Nat /\ me.round \in Nat
         /\ me.range \in Ranges
BY DEF CompactionInv, MeInv, JournalInv, TurnStates

\* The turn ends, or goes on without having chosen a range.
LEMMA MeIdle ==
  ASSUME CompactionInv, NEW s, NEW n, QuietStep(s, n), me' = IdleTurn
  PROVE  CompactionInv'
<1>1. IdleTurn \in TurnStates /\ IdleTurn.at = "idle" /\ IdleTurn.head = 0
  BY DEF IdleTurn, TurnStates, TurnPlaces, Ranges, NoRange
<1>2. head' \in Nat
  BY GrownLog DEF QuietStep, CompactionInv
<1> QED
  BY <1>1, <1>2, MeSteps

LEMMA QuietLane ==
  ASSUME CompactionInv, AskTurn \/ TurnGivesUp \/ TurnRefused \/ Lend \/ TakeBack \/ TakeBackFails
  PROVE  CompactionInv'
<1>1. UNCHANGED <<log, head, evidence, cmds, job>>
  BY DEF AskTurn, TurnGivesUp, TurnRefused, Lend, TakeBack, TakeBackFails, journal
<1>2. QuietStep(<<>>, 0)
  BY <1>1, StillStep DEF Stores
<1>3. CASE AskTurn
  <2> DEFINE begun == Begun(FALSE)
             t == 2 * begun + 1
  <2>1. t \in Nat /\ t # 0
    <3>1. begun \in Nat
      BY BegunNat
    <3> HIDE DEF begun
    <3> QED
      BY <3>1
  <2>2. me' = [IdleTurn EXCEPT !.at = "lane", !.head = head, !.turn = t]
    BY <1>3 DEF AskTurn
  <2> HIDE DEF t
  <2>3. me' \in TurnStates /\ me'.at = "lane" /\ me'.turn = t /\ me'.head = head
    BY <2>1, <2>2, MeFacts DEF IdleTurn, TurnStates, TurnPlaces, NoRange, Ranges
  <2> QED
    BY <1>1, <1>2, <2>1, <2>3, MeFacts, MeSteps
<1>4. CASE TurnGivesUp \/ TurnRefused
  BY <1>2, <1>4, MeIdle DEF TurnGivesUp, TurnRefused
<1>5. CASE Lend
  <2>1. me' = [me EXCEPT !.lent = TRUE] /\ me.at \in {"compact", "request", "call"}
    BY <1>5 DEF Lend
  <2>2. /\ me' \in TurnStates /\ me'.at = me.at /\ me'.turn = me.turn /\ me'.head = me.head
        /\ me'.range = me.range
    BY <2>1, MeFacts DEF TurnStates
  <2>3. MeInv'
    BY <1>1, <2>2, MeFacts DEF MeInv, Free, Compactions
  <2> QED
    BY <1>2, <2>3, QuietKept
<1>6. CASE TakeBack
  <2>1. me' = me
    BY <1>6 DEF TakeBack
  <2>2. MeInv'
    BY <1>2, <2>1, MeKept DEF QuietStep, CompactionInv
  <2> QED
    BY <1>2, <2>2, QuietKept
<1>7. CASE TakeBackFails
  <2>1. me' = [me EXCEPT !.at = "failing"]
    BY <1>7 DEF TakeBackFails
  <2>2. me' \in TurnStates /\ me'.at = "failing" /\ me'.head = me.head
    BY <2>1, MeFacts DEF TurnStates, TurnPlaces
  <2> QED
    BY <1>1, <1>2, <2>2, MeFacts, MeSteps
<1> QED
  BY <1>3, <1>4, <1>5, <1>6, <1>7

\* What an append of the turn leaves it with.
LEMMA Extended ==
  ASSUME CompactionInv, NEW n \in Nat, NEW s, NEW at \in TurnStates, Extend(n, s, at),
         QuietStep(s, n), at.at \notin {"idle", "failing"} => at.turn # 0,
         at.at \in {"compact", "summary"} => s = <<>> /\ Free(at.range)
  PROVE  CompactionInv'
<1>1. me' = [at EXCEPT !.head = head + n] /\ log' = log \o s /\ head' = head + n /\ head \in Nat
  BY MeFacts DEF Extend
<1>2. /\ me' \in TurnStates /\ me'.at = at.at /\ me'.turn = at.turn /\ me'.head = head' /\ me'.range = at.range
  <2>1. head + n \in Nat
    BY <1>1
  <2> QED
    BY <1>1, <2>1 DEF TurnStates
<1>3. s = <<>> => log' = log
  BY <1>1, MeFacts, NoEntries
<1>4. head' <= head'
  BY <1>1
<1> QED
  BY <1>2, <1>3, <1>4, MeSteps

LEMMA OpensTurn == ASSUME CompactionInv, OpenTurn PROVE CompactionInv'
<1> DEFINE a == Event(head + 3, "user", me.turn, 0)
           b == Event(head + 6, "contract", me.turn, 0)
           s == <<a, b>>
           next == [me EXCEPT !.at = "plan"]
<1>1. Extend(8, s, next) /\ evidence' = evidence /\ me.at = "lane"
  BY DEF OpenTurn, Opening, OpeningSize
<1>2. Good(a, 8) /\ Good(b, 8)
  <2>1. /\ 8 \in Nat /\ 3 \in 1 .. 8 /\ 6 \in 1 .. 8 /\ 0 \in Nat
        /\ {"user", "contract"} \subseteq Kinds \ {"compacted"}
    BY DEF Kinds
  <2>2. head \in Nat /\ me.turn \in Nat /\ me.turn # 0
    BY <1>1, MeFacts
  <2> QED
    BY <2>1, <2>2, GoodEvent
<1> HIDE DEF a, b
<1>3. a \in Entries /\ b \in Entries
  BY <1>2 DEF Good
<1>4. QuietStep(s, 8)
  <2>1. s \in Seq(Entries) /\ \A i \in DOMAIN s : Good(s[i], 8)
    BY <1>2, <1>3, Two
  <2>2. log' = log \o s /\ head' = head + 8 /\ UNCHANGED <<cmds, job>> /\ Stores
    BY <1>1 DEF Extend, Stores
  <2> HIDE DEF s
  <2> QED
    BY <2>1, <2>2, GoodStep
<1>5. next \in TurnStates /\ next.at = "plan" /\ next.turn = me.turn
  BY MeFacts DEF TurnStates, TurnPlaces
<1> HIDE DEF s, next
<1> QED
  BY <1>1, <1>4, <1>5, MeFacts, Extended

LEMMA PlansRequest == ASSUME CompactionInv, PlanRequest PROVE CompactionInv'
<1>0. me.at = "plan" /\ me.turn # 0
  BY MeFacts DEF PlanRequest
<1>1. \/ me' = [me EXCEPT !.at = "failing"] /\ UNCHANGED <<journal, job>>
      \/ /\ SelectionOutcome(log, head) = "range" /\ evidence' = evidence
         /\ Extend(2, <<>>, [me EXCEPT !.at = "compact", !.range = Select(log, head)])
      \/ Extend(4, <<>>, [me EXCEPT !.at = "request"]) /\ evidence' = evidence
  BY DEF PlanRequest, Planning
<1>2. CASE me' = [me EXCEPT !.at = "failing"] /\ UNCHANGED <<journal, job>>
  <2>1. QuietStep(<<>>, 0) /\ log' = log /\ head' = head
    BY <1>2, StillStep DEF journal, Stores
  <2>2. me' \in TurnStates /\ me'.at = "failing" /\ me'.head = me.head
    BY <1>2, MeFacts DEF TurnStates, TurnPlaces
  <2> QED
    BY <2>1, <2>2, MeFacts, MeSteps
<1>3. ASSUME NEW n \in {2, 4}, NEW at, Extend(n, <<>>, at), evidence' = evidence
      PROVE  QuietStep(<<>>, n)
  <2>1. log' = log \o <<>> /\ head' = head + n /\ UNCHANGED <<cmds, job>> /\ Stores /\ n \in Nat /\ n # 0
    BY <1>3 DEF Extend, Stores
  <2> QED
    BY <2>1, NoEntries, GoodStep
<1>4. ASSUME SelectionOutcome(log, head) = "range", evidence' = evidence,
             Extend(2, <<>>, [me EXCEPT !.at = "compact", !.range = Select(log, head)])
      PROVE  CompactionInv'
  <2> DEFINE r == Select(log, head)
             at == [me EXCEPT !.at = "compact", !.range = r]
  <2>1. r \in Ranges /\ Free(r)
    BY <1>4, RangeIsFree
  <2>2. Extend(2, <<>>, at)
    BY <1>4
  <2> HIDE DEF r
  <2>3. at \in TurnStates /\ at.at = "compact" /\ at.turn = me.turn /\ at.range = r
    BY <2>1, MeFacts DEF TurnStates, TurnPlaces
  <2> HIDE DEF at
  <2>4. QuietStep(<<>>, 2)
    BY <1>3, <1>4, <2>2
  <2> QED
    BY <1>0, <2>1, <2>2, <2>3, <2>4, Extended
<1>5. ASSUME Extend(4, <<>>, [me EXCEPT !.at = "request"]), evidence' = evidence
      PROVE  CompactionInv'
  <2> DEFINE at == [me EXCEPT !.at = "request"]
  <2>1. Extend(4, <<>>, at)
    BY <1>5
  <2>2. at \in TurnStates /\ at.at = "request" /\ at.turn = me.turn
    BY MeFacts DEF TurnStates, TurnPlaces
  <2> HIDE DEF at
  <2>3. QuietStep(<<>>, 4)
    BY <1>3, <1>5, <2>1
  <2> QED
    BY <1>0, <2>1, <2>2, <2>3, Extended
<1> QED
  BY <1>1, <1>2, <1>4, <1>5

\* A turn appends one event among n facts and goes on.
LEMMA ExtendedByOne ==
  ASSUME CompactionInv, NEW n \in Nat, NEW e, Good(e, n), NEW at \in TurnStates, Extend(n, <<e>>, at),
         evidence' = evidence, n # 0, at.at \notin {"idle", "failing", "compact", "summary"}, at.turn # 0
  PROVE  CompactionInv'
<1>1. e \in Entries
  BY DEF Good
<1>2. <<e>> \in Seq(Entries) /\ \A i \in DOMAIN <<e>> : Good(<<e>>[i], n)
  BY <1>1, One
<1>3. log' = log \o <<e>> /\ head' = head + n /\ UNCHANGED <<cmds, job>> /\ Stores
  BY DEF Extend, Stores
<1>4. QuietStep(<<e>>, n)
  BY <1>2, <1>3, GoodStep
<1> QED
  BY <1>4, Extended

LEMMA Authorises == ASSUME CompactionInv, Authorise PROVE CompactionInv'
<1>0. me.at \in {"compact", "request", "call"} /\ me.turn # 0 /\ evidence' = evidence
  BY MeFacts DEF Authorise
<1>1. CASE me.at = "call"
  <2> DEFINE e == Event(head + 6, "started", me.turn, me.call)
             at == [me EXCEPT !.at = "tool", !.lent = FALSE]
  <2>1. Extend(6, <<e>>, at)
    BY <1>1 DEF Authorise, Authorising
  <2>2. Good(e, 6)
    <3>1. 6 \in Nat /\ 6 \in 1 .. 6 /\ "started" \in Kinds \ {"compacted"}
      BY DEF Kinds
    <3> QED
      BY <3>1, MeFacts, GoodEvent
  <2>3. at \in TurnStates /\ at.at = "tool" /\ at.turn = me.turn
    BY MeFacts DEF TurnStates, TurnPlaces
  <2> HIDE DEF e, at
  <2> QED
    BY <1>0, <2>1, <2>2, <2>3, ExtendedByOne
<1>2. CASE me.at # "call"
  <2> DEFINE next == IF me.at = "compact" THEN "summary" ELSE "answer"
             at == [me EXCEPT !.at = next, !.lent = FALSE]
  <2>1. Extend(4, <<>>, at)
    <3>1. CASE me.at = "compact"
      BY <3>1 DEF Authorise, Authorising
    <3>2. CASE me.at = "request"
      BY <3>2 DEF Authorise, Authorising
    <3> QED
      BY <1>0, <1>2, <3>1, <3>2
  <2>2. next \in {"summary", "answer"} /\ (next = "summary" => me.at = "compact")
    OBVIOUS
  <2> HIDE DEF next
  <2>3. at \in TurnStates /\ at.at = next /\ at.turn = me.turn /\ at.range = me.range
    BY <2>2, MeFacts DEF TurnStates, TurnPlaces
  <2> HIDE DEF at
  <2>4. me.head = head /\ log' = log \o <<>> /\ head' = head + 4 /\ UNCHANGED <<cmds, job>> /\ Stores
    BY <1>0, <2>1 DEF Extend, Stores
  <2>5. QuietStep(<<>>, 4)
    BY <2>4, NoEntries, GoodStep
  <2>6. next = "summary" => Free(at.range)
    BY <2>2, <2>3, <2>4, MeFacts
  <2> QED
    BY <1>0, <2>1, <2>2, <2>3, <2>5, <2>6, Extended
<1> QED
  BY <1>1, <1>2

LEMMA SummarisesInTurn == ASSUME CompactionInv, SummariseInTurn PROVE CompactionInv'
<1> DEFINE e == Compacted(head + 2, me.turn, Len(evidence'), me.range)
           at == [me EXCEPT !.at = "plan", !.rebuilt = TRUE]
<1>1. /\ me.at = "summary" /\ evidence' = Append(evidence, 0) /\ Extend(2, <<e>>, at)
      /\ me.turn # 0
  BY MeFacts DEF SummariseInTurn
<1>2. evidence \in Seq(Nat) /\ Len(cmds) \in Nat
  BY DEF CompactionInv, JournalInv
<1>3. Len(evidence') \in DOMAIN evidence' /\ evidence'[Len(evidence')] = 0 /\ Len(evidence') \in Nat
  BY <1>1, <1>2
<1>4. Stores
  BY <1>1, <1>2 DEF Stores
<1>5. /\ me.head = head /\ log' = log \o <<e>> /\ head' = head + 2 /\ UNCHANGED <<cmds, job>>
  BY <1>1 DEF Extend
<1>6. Free(me.range) /\ me.range.thru <= head /\ me.range \in Ranges
  BY <1>1, <1>5, MeFacts DEF Free
<1>7. /\ e \in Entries /\ e.at = head + 2 /\ e.kind = "compacted" /\ e.turn = me.turn
      /\ e.n = Len(evidence') /\ e.from = me.range.from /\ e.thru = me.range.thru
  BY <1>3, <1>6, MeFacts DEF Compacted, Entries, Ranges, Kinds
<1> HIDE DEF e
<1>8. Free(e)
  BY <1>6, <1>7 DEF Free
<1>9. QuietStep(<<e>>, 2)
  <2>1. <<e>> \in Seq(Entries) /\ DOMAIN <<e>> = {1} /\ <<e>>[1] = e
    BY <1>7, One
  <2>2. head < e.at /\ e.at <= head + 2 /\ e.thru <= head + 2 /\ 2 \in Nat /\ 2 # 0
    <3>1. head \in Nat /\ e.thru \in Nat
      BY <1>6, <1>7, MeFacts DEF Ranges
    <3> QED
      BY <1>6, <1>7, <3>1
  <2>3. Grown(<<e>>, 2)
    BY <1>1, <1>3, <1>5, <1>7, <1>8, <2>1, <2>2 DEF Grown
  <2> QED
    BY <1>3, <1>4, <1>5, <1>7, <2>1, <2>3 DEF QuietStep
<1>10. at \in TurnStates /\ at.at = "plan" /\ at.turn = me.turn
  BY MeFacts DEF TurnStates, TurnPlaces
<1> HIDE DEF at
<1> QED
  BY <1>1, <1>9, <1>10, Extended

LEMMA TurnAnswers == ASSUME CompactionInv, Answer PROVE CompactionInv'
<1>1. PICK n \in 0 .. (IF me.round < MaxRounds THEN MaxCalls ELSE 0) :
        Extend(3, <<Event(head + 1, "assistant", me.turn, n)>>,
               [me EXCEPT !.at = IF n = 0 THEN "finish" ELSE "call", !.calls = n, !.call = 1,
                          !.round = @ + 1, !.rebuilt = FALSE])
  BY DEF Answer
<1>2. n \in Nat /\ me.turn # 0 /\ evidence' = evidence
  BY CompactionAssumption, MeFacts DEF Answer
<1> DEFINE e == Event(head + 1, "assistant", me.turn, n)
           next == IF n = 0 THEN "finish" ELSE "call"
           at == [me EXCEPT !.at = next, !.calls = n, !.call = 1, !.round = @ + 1, !.rebuilt = FALSE]
<1>3. Extend(3, <<e>>, at)
  BY <1>1
<1>4. Good(e, 3)
  <2>1. 3 \in Nat /\ 1 \in 1 .. 3 /\ "assistant" \in Kinds \ {"compacted"}
    BY DEF Kinds
  <2> QED
    BY <1>2, <2>1, MeFacts, GoodEvent
<1>5. next \in {"finish", "call"}
  OBVIOUS
<1> HIDE DEF e, next
<1>6. at \in TurnStates /\ at.at = next /\ at.turn = me.turn
  <2>1. me.round + 1 \in Nat /\ 1 \in Nat
    BY MeFacts
  <2> QED
    BY <1>2, <1>5, <2>1, MeFacts DEF TurnStates, TurnPlaces
<1> HIDE DEF at
<1> QED
  BY <1>2, <1>3, <1>4, <1>5, <1>6, ExtendedByOne

LEMMA ToolReturns == ASSUME CompactionInv, ToolResult PROVE CompactionInv'
<1> DEFINE e == Event(head + 1, "tool", me.turn, me.call)
           next == IF me.call = me.calls THEN "plan" ELSE "call"
           at == [me EXCEPT !.at = next, !.call = @ + 1]
<1>1. Extend(2, <<e>>, at) /\ me.turn # 0 /\ evidence' = evidence
  BY MeFacts DEF ToolResult
<1>2. Good(e, 2)
  <2>1. 2 \in Nat /\ 1 \in 1 .. 2 /\ "tool" \in Kinds \ {"compacted"}
    BY DEF Kinds
  <2> QED
    BY <2>1, MeFacts, GoodEvent
<1>3. next \in {"plan", "call"}
  OBVIOUS
<1> HIDE DEF e, next
<1>4. at \in TurnStates /\ at.at = next /\ at.turn = me.turn
  <2>1. me.call + 1 \in Nat
    BY MeFacts
  <2> QED
    BY <1>3, <2>1, MeFacts DEF TurnStates, TurnPlaces
<1> HIDE DEF at
<1> QED
  BY <1>1, <1>2, <1>3, <1>4, ExtendedByOne

LEMMA EndsTurn == ASSUME CompactionInv, FinishTurn \/ FailTurn PROVE CompactionInv'
<1>0. me' = IdleTurn /\ UNCHANGED <<cmds, job>> /\ Stores
  BY DEF FinishTurn, FailTurn, Stores
<1>1. CASE FinishTurn
  <2> DEFINE e == Event(head + 4, "end", me.turn, 1)
  <2>1. log' = Append(log, e) /\ head' = head + 6
    <3>1. head' = head + 3 + 3 /\ log' = Append(log, e)
      BY <1>1 DEF FinishTurn, Ending
    <3> QED
      BY <3>1, MeFacts
  <2>2. Good(e, 6)
    <3>1. 6 \in Nat /\ 4 \in 1 .. 6 /\ 1 \in Nat /\ "end" \in Kinds \ {"compacted"}
      BY DEF Kinds
    <3> QED
      BY <3>1, MeFacts, GoodEvent
  <2> HIDE DEF e
  <2>3. e \in Entries
    BY <2>2 DEF Good
  <2>4. <<e>> \in Seq(Entries) /\ log' = log \o <<e>> /\ \A i \in DOMAIN <<e>> : Good(<<e>>[i], 6)
    BY <2>1, <2>2, <2>3, One, MeFacts
  <2>5. QuietStep(<<e>>, 6)
    <3>1. 6 \in Nat /\ 6 # 0
      OBVIOUS
    <3> QED
      BY <1>0, <2>1, <2>4, <3>1, GoodStep
  <2> QED
    BY <1>0, <2>5, MeIdle
<1>2. CASE FailTurn
  <2>1. CASE 0 < me.call /\ me.call <= me.calls
    <3> DEFINE a == Event(head + 1, "tool", me.turn, me.call)
               b == Event(head + 3, "end", me.turn, 0)
    <3>1. CleanupAnswer = <<a>>
      BY <2>1 DEF CleanupAnswer
    <3>2. /\ Good(a, 5) /\ Good(b, 5)
      <4>1. /\ 5 \in Nat /\ 1 \in 1 .. 5 /\ 3 \in 1 .. 5 /\ 0 \in Nat
            /\ "tool" \in Kinds \ {"compacted"} /\ "end" \in Kinds \ {"compacted"}
        BY DEF Kinds
      <4> QED
        BY <4>1, MeFacts, GoodEvent
    <3>3. log' = log \o <<a, b>> /\ head' = head + 5
      <4>1. Len(CleanupAnswer) = 1
        BY <3>1
      <4>2. head + 2 + Len(CleanupAnswer) = head + 3 /\ (head + 2 + Len(CleanupAnswer)) - 1 + 3 = head + 5
        BY <4>1, MeFacts
      <4>3. /\ log' = log \o Append(CleanupAnswer, Event(head + 2 + Len(CleanupAnswer), "end", me.turn, 0))
            /\ head' = (head + 2 + Len(CleanupAnswer)) - 1 + 3
        BY <1>2 DEF FailTurn, Ending
      <4>4. log' = log \o Append(<<a>>, b) /\ head' = head + 5
        BY <3>1, <4>2, <4>3
      <4>5. b \in Entries /\ a \in Entries
        BY <3>2 DEF Good
      <4> HIDE DEF a, b
      <4>6. Append(<<a>>, b) = <<a, b>>
        BY <4>5, Two, One
      <4> QED
        BY <4>4, <4>6
    <3> HIDE DEF a, b
    <3>4. a \in Entries /\ b \in Entries
      BY <3>2 DEF Good
    <3>5. <<a, b>> \in Seq(Entries) /\ \A i \in DOMAIN <<a, b>> : Good(<<a, b>>[i], 5)
      BY <3>2, <3>4, Two
    <3>6. QuietStep(<<a, b>>, 5)
      <4>1. 5 \in Nat /\ 5 # 0
        OBVIOUS
      <4> QED
        BY <1>0, <3>3, <3>5, <4>1, GoodStep
    <3> QED
      BY <1>0, <3>6, MeIdle
  <2>2. CASE ~ (0 < me.call /\ me.call <= me.calls)
    <3> DEFINE b == Event(head + 2, "end", me.turn, 0)
    <3>1. CleanupAnswer = <<>>
      BY <2>2 DEF CleanupAnswer
    <3>2. Good(b, 4)
      <4>1. 4 \in Nat /\ 2 \in 1 .. 4 /\ 0 \in Nat /\ "end" \in Kinds \ {"compacted"}
        BY DEF Kinds
      <4> QED
        BY <4>1, MeFacts, GoodEvent
    <3>3. log' = log \o <<b>> /\ head' = head + 4
      <4>1. Len(CleanupAnswer) = 0
        BY <3>1
      <4>2. head + 2 + Len(CleanupAnswer) = head + 2 /\ (head + 2 + Len(CleanupAnswer)) - 1 + 3 = head + 4
        BY <4>1, MeFacts
      <4>3. /\ log' = log \o Append(CleanupAnswer, Event(head + 2 + Len(CleanupAnswer), "end", me.turn, 0))
            /\ head' = (head + 2 + Len(CleanupAnswer)) - 1 + 3
        BY <1>2 DEF FailTurn, Ending
      <4>4. log' = log \o Append(<<>>, b) /\ head' = head + 4
        BY <3>1, <4>2, <4>3
      <4>5. b \in Entries
        BY <3>2 DEF Good
      <4> HIDE DEF b
      <4>6. Append(<<>>, b) = <<b>>
        BY <4>5, Two, One
      <4> QED
        BY <4>4, <4>6
    <3> HIDE DEF b
    <3>4. b \in Entries
      BY <3>2 DEF Good
    <3>5. <<b>> \in Seq(Entries) /\ \A i \in DOMAIN <<b>> : Good(<<b>>[i], 4)
      BY <3>2, <3>4, One
    <3>6. QuietStep(<<b>>, 4)
      <4>1. 4 \in Nat /\ 4 # 0
        OBVIOUS
      <4> QED
        BY <1>0, <3>3, <3>5, <4>1, GoodStep
    <3> QED
      BY <1>0, <3>6, MeIdle
  <2> QED
    BY <2>1, <2>2
<1> QED
  BY <1>1, <1>2

LEMMA TurnFails == ASSUME CompactionInv, TurnTrouble PROVE CompactionInv'
<1>1. UNCHANGED <<log, head, cmds, job>>
  BY DEF TurnTrouble
<1>2. Stores
  <2>1. Len(cmds) \in Nat
    BY DEF CompactionInv, JournalInv
  <2> QED
    BY <2>1 DEF TurnTrouble, Stores
<1>3. QuietStep(<<>>, 0)
  BY <1>1, <1>2, StillStep
<1>4. me' = [me EXCEPT !.at = "failing"] \/ me' = IdleTurn
  BY DEF TurnTrouble
<1>5. CASE me' = [me EXCEPT !.at = "failing"]
  <2>1. me' \in TurnStates /\ me'.at = "failing" /\ me'.head = me.head
    BY <1>5, MeFacts DEF TurnStates, TurnPlaces
  <2> QED
    BY <1>1, <1>3, <2>1, MeFacts, MeSteps
<1> QED
  BY <1>3, <1>4, <1>5, MeIdle

-----------------------------------------------------------------------------
(* Steps around the process.                                               *)

LEMMA ActiveTurn ==
  ASSUME CompactionInv, NEW t \in Active
  PROVE  t \in Nat /\ t # 0
<1>1. PICK i \in Indices(log, {"user"}) : t = log[i].turn
  BY DEF Active
<1>2. i \in DOMAIN log /\ log[i].kind = "user" /\ log \in Seq(Entries)
  BY DEF Indices, CompactionInv, JournalInv
<1> QED
  BY <1>1, <1>2, EntryOf DEF CompactionInv, JournalInv

LEMMA AroundMe ==
  ASSUME CompactionInv, NEW s, NEW n, QuietStep(s, n), me' = me
  PROVE  CompactionInv'
<1>1. MeInv'
  BY MeKept DEF QuietStep, CompactionInv
<1> QED
  BY <1>1, QuietKept

LEMMA ForeignOpening == ASSUME CompactionInv, ForeignOpens PROVE CompactionInv'
<1> DEFINE begun == Begun(TRUE)
           t == 2 * begun + 2
           a == Event(head + 3, "user", t, 0)
           b == Event(head + 6, "contract", t, 0)
           s == <<a, b>>
<1>1. log' = log \o s /\ head' = head + 8 /\ UNCHANGED <<cmds, job>> /\ Stores /\ me' = me
  BY DEF ForeignOpens, Opening, OpeningSize, Stores
<1>2. t \in Nat /\ t # 0
  <2>1. begun \in Nat
    BY BegunNat
  <2> HIDE DEF begun
  <2> QED
    BY <2>1
<1> HIDE DEF t
<1>3. Good(a, 8) /\ Good(b, 8)
  <2>1. /\ 8 \in Nat /\ 3 \in 1 .. 8 /\ 6 \in 1 .. 8 /\ 0 \in Nat
        /\ {"user", "contract"} \subseteq Kinds \ {"compacted"}
    BY DEF Kinds
  <2> QED
    BY <1>2, <2>1, MeFacts, GoodEvent
<1> HIDE DEF a, b
<1>4. a \in Entries /\ b \in Entries
  BY <1>3 DEF Good
<1>5. s \in Seq(Entries) /\ \A i \in DOMAIN s : Good(s[i], 8)
  BY <1>3, <1>4, Two
<1> HIDE DEF s
<1>6. QuietStep(s, 8)
  BY <1>1, <1>5, GoodStep
<1> QED
  BY <1>1, <1>6, AroundMe

LEMMA ForeignEnding == ASSUME CompactionInv, ForeignEnds PROVE CompactionInv'
<1>0. UNCHANGED <<cmds, job>> /\ me' = me /\ head \in Nat /\ log \in Seq(Entries)
  BY MeFacts DEF ForeignEnds
<1>1. PICK t \in Active, x \in 0 .. 1, compact \in BOOLEAN :
       /\ compact => SelectionOutcome(log, head) = "range"
       /\ LET at == head + (IF compact THEN 8 ELSE 0)
              end == at + Planning + Authorising + 3 + (IF x = 0 THEN 4 ELSE 1)
              made == IF compact THEN <<Compacted(at, t, Len(evidence) + 1, Select(log, head))>> ELSE <<>>
          IN /\ log' = log \o made \o <<Event(at + Planning + Authorising + 1, "assistant", t, x),
                                        Event(end, "end", t, 1 - x)>>
             /\ head' = end - 1 + Ending
       /\ evidence' = IF compact THEN Append(evidence, 0) ELSE evidence
  BY DEF ForeignEnds
<1> DEFINE k == IF compact THEN 8 ELSE 0
           m == IF x = 0 THEN 4 ELSE 1
           n == k + m + 13
           a == Event(head + (k + 9), "assistant", t, x)
           b == Event(head + (k + m + 11), "end", t, 1 - x)
           c == Compacted(head + 8, t, Len(evidence) + 1, Select(log, head))
           tail == <<a, b>>
<1>2. t \in Nat /\ t # 0
  BY ActiveTurn
<1>3. k \in {0, 8} /\ m \in {1, 4} /\ n \in Nat /\ n # 0 /\ k + 9 \in 1 .. n /\ k + m + 11 \in 1 .. n
      /\ x \in Nat /\ 1 - x \in Nat
  OBVIOUS
<1>4. /\ head' = head + n
      /\ log' = log \o (IF compact THEN <<c>> ELSE <<>>) \o tail
  <2>1. /\ head + k + 4 + 4 + 1 = head + (k + 9) /\ head + k + 4 + 4 + 3 + m = head + (k + m + 11)
        /\ (head + k + 4 + 4 + 3 + m) - 1 + 3 = head + n
    BY <1>0, <1>3
  <2>2. /\ head' = (head + k + 4 + 4 + 3 + m) - 1 + 3
        /\ log' = log \o (IF compact THEN <<Compacted(head + k, t, Len(evidence) + 1, Select(log, head))>> ELSE <<>>)
                      \o <<Event(head + k + 4 + 4 + 1, "assistant", t, x),
                           Event(head + k + 4 + 4 + 3 + m, "end", t, 1 - x)>>
    BY <1>1 DEF Planning, Authorising, Ending
  <2>3. compact => k = 8
    OBVIOUS
  <2> HIDE DEF k, m
  <2> QED
    BY <2>1, <2>2, <2>3
<1>5. Good(a, n) /\ Good(b, n)
  <2>1. {"assistant", "end"} \subseteq Kinds \ {"compacted"}
    BY DEF Kinds
  <2> HIDE DEF k, m, n
  <2> QED
    BY <1>0, <1>2, <1>3, <2>1, GoodEvent
<1>6. 8 <= n
  BY <1>3
<1> HIDE DEF a, b, k, m, n
<1>7. a \in Entries /\ b \in Entries
  BY <1>5 DEF Good
<1>8. /\ tail \in Seq(Entries) /\ DOMAIN tail = {1, 2} /\ tail[1] = a /\ tail[2] = b /\ Len(tail) = 2
  BY <1>7, Two
<1> HIDE DEF tail
<1>9. CASE ~ compact
  <2>1. log' = log \o tail /\ Stores
    <3>1. log' = log \o <<>> \o tail
      BY <1>4, <1>9
    <3> QED
      BY <1>0, <1>1, <1>9, <3>1, NoEntries DEF Stores
  <2>2. QuietStep(tail, n)
    BY <1>0, <1>3, <1>4, <1>5, <1>8, <2>1, GoodStep
  <2> QED
    BY <1>0, <2>2, AroundMe
<1>10. CASE compact
  <2>1. /\ evidence \in Seq(Nat) /\ Len(cmds) \in Nat
    BY DEF CompactionInv, JournalInv
  <2>2. evidence' = Append(evidence, 0) /\ Stores
    BY <1>1, <1>10, <2>1 DEF Stores
  <2>3. Len(evidence) + 1 \in DOMAIN evidence' /\ evidence'[Len(evidence) + 1] = 0 /\ Len(evidence) + 1 \in Nat
    BY <2>1, <2>2
  <2>4. Select(log, head) \in Ranges /\ Free(Select(log, head))
    BY <1>1, <1>10, RangeIsFree
  <2>5. /\ c \in Entries /\ c.at = head + 8 /\ c.kind = "compacted" /\ c.turn = t
        /\ c.n = Len(evidence) + 1 /\ c.from = Select(log, head).from /\ c.thru = Select(log, head).thru
    <3> DEFINE r == Select(log, head)
    <3>1. r \in Ranges
      BY <2>4
    <3> HIDE DEF r
    <3>2. Compacted(head + 8, t, Len(evidence) + 1, r) \in Entries
      BY <1>0, <1>2, <2>3, <3>1 DEF Compacted, Entries, Ranges, Kinds
    <3> QED
      BY <3>2 DEF Compacted, r
  <2>6. Free(c) /\ c.thru <= head /\ c.thru \in Nat
    BY <2>4, <2>5 DEF Free, Entries
  <2> HIDE DEF c
  <2> DEFINE s == <<c>> \o tail
  <2>7. /\ s \in Seq(Entries) /\ log' = log \o s
        /\ \A i \in DOMAIN s : (i = 1 /\ s[i] = c) \/ (i # 1 /\ (s[i] = a \/ s[i] = b))
        /\ s[1] = c
    <3> DEFINE front == <<c>>
    <3>1. front \in Seq(Entries) /\ Len(front) = 1 /\ front[1] = c
      BY <2>5, One
    <3>2. log' = log \o front \o tail
      BY <1>4, <1>10
    <3> HIDE DEF front
    <3>3. log' = log \o (front \o tail)
      BY <1>0, <1>8, <3>1, <3>2, ConcatAssociative
    <3>4. /\ front \o tail \in Seq(Entries) /\ Len(front \o tail) = 3
          /\ (front \o tail)[1] = c /\ (front \o tail)[2] = a /\ (front \o tail)[3] = b
      <4>1. /\ front \o tail \in Seq(Entries) /\ Len(front \o tail) = Len(front) + Len(tail)
            /\ \A i \in 1 .. Len(front) + Len(tail) :
                 (front \o tail)[i] = IF i <= Len(front) THEN front[i] ELSE tail[i - Len(front)]
        BY <1>8, <3>1, Joined
      <4>2. Len(front) + Len(tail) = 3 /\ Len(front) = 1
        BY <1>8, <3>1
      <4>3. (front \o tail)[1] = front[1] /\ (front \o tail)[2] = tail[1] /\ (front \o tail)[3] = tail[2]
        BY <4>1, <4>2
      <4> QED
        BY <1>8, <3>1, <4>1, <4>2, <4>3
    <3>5. DOMAIN (front \o tail) = 1 .. 3
      BY <3>4
    <3> QED
      BY <3>3, <3>4, <3>5 DEF front
  <2> HIDE DEF s
  <2>8. ASSUME NEW i \in DOMAIN s
        PROVE  /\ head < s[i].at /\ s[i].at <= head + n /\ s[i].thru <= head + n
               /\ s[i].kind = "user" => s[i].turn # 0
               /\ s[i].kind = "compacted" => i = 1 /\ s[i] = c
    <3>1. CASE i = 1
      BY <1>0, <1>3, <1>6, <2>5, <2>6, <2>7, <3>1
    <3>2. CASE i # 1
      BY <1>0, <1>3, <1>5, <2>7, <3>2 DEF Good
    <3> QED
      BY <3>1, <3>2
  <2>9. Grown(s, n)
    BY <1>0, <1>2, <1>3, <1>4, <2>3, <2>5, <2>6, <2>7, <2>8 DEF Grown
  <2>10. QuietStep(s, n)
    BY <1>0, <2>2, <2>3, <2>5, <2>8, <2>9 DEF QuietStep
  <2> QED
    BY <1>0, <2>10, AroundMe
<1> QED
  BY <1>9, <1>10

LEMMA Recovers == ASSUME CompactionInv, Recover PROVE CompactionInv'
<1>0. UNCHANGED <<cmds, job>> /\ me' = me /\ Stores /\ head \in Nat /\ log \in Seq(Entries)
  BY MeFacts DEF Recover, Stores
<1>1. /\ {"tool", "end"} \subseteq Kinds \ {"compacted"}
      /\ 0 \in Nat /\ 1 \in 1 .. 3 /\ 3 \in Nat /\ 1 \in 1 .. 5 /\ 3 \in 1 .. 5 /\ 5 \in Nat /\ 3 # 0 /\ 5 # 0
  BY DEF Kinds
<1>2. CASE UNCHANGED <<log, head>>
  BY <1>0, <1>2, StillStep, AroundMe
<1>3. ASSUME NEW t \in Active, log' = Append(log, Event(head + 1, "end", t, 0)), head' = head + 3
      PROVE  CompactionInv'
  <2> DEFINE e == Event(head + 1, "end", t, 0)
  <2>1. Good(e, 3)
    BY <1>0, <1>1, ActiveTurn, GoodEvent
  <2>2. log' = Append(log, e)
    BY <1>3
  <2> HIDE DEF e
  <2>3. e \in Entries
    BY <2>1 DEF Good
  <2>4. <<e>> \in Seq(Entries) /\ log' = log \o <<e>> /\ \A i \in DOMAIN <<e>> : Good(<<e>>[i], 3)
    BY <1>0, <2>1, <2>2, <2>3, One
  <2>5. QuietStep(<<e>>, 3)
    BY <1>0, <1>1, <1>3, <2>4, GoodStep
  <2> QED
    BY <1>0, <2>5, AroundMe
<1>4. ASSUME NEW t \in Active, NEW n \in Unknown(t), head' = head + 5,
             log' = log \o <<Event(head + 1, "tool", t, n), Event(head + 3, "end", t, 0)>>
      PROVE  CompactionInv'
  <2> DEFINE a == Event(head + 1, "tool", t, n)
             b == Event(head + 3, "end", t, 0)
             s == <<a, b>>
  <2>1. n \in Nat
    BY <1>0, EntryOf DEF Unknown, Indices
  <2>2. Good(a, 5) /\ Good(b, 5)
    BY <1>0, <1>1, <2>1, ActiveTurn, GoodEvent
  <2>3. log' = log \o s
    BY <1>4
  <2> HIDE DEF a, b
  <2>4. a \in Entries /\ b \in Entries
    BY <2>2 DEF Good
  <2>5. s \in Seq(Entries) /\ \A i \in DOMAIN s : Good(s[i], 5)
    BY <2>2, <2>4, Two
  <2> HIDE DEF s
  <2>6. QuietStep(s, 5)
    BY <1>0, <1>1, <1>4, <2>3, <2>5, GoodStep
  <2> QED
    BY <1>0, <2>6, AroundMe
<1>5. head + 2 + 3 = head + 5
  BY <1>0
<1>6. \/ UNCHANGED <<log, head>>
      \/ \E t \in Active : log' = Append(log, Event(head + 1, "end", t, 0)) /\ head' = head + 3
      \/ \E t \in Active : \E n \in Unknown(t) :
           /\ head' = head + 5
           /\ log' = log \o <<Event(head + 1, "tool", t, n), Event(head + 3, "end", t, 0)>>
  BY <1>5 DEF Recover, Ending
<1> QED
  BY <1>2, <1>3, <1>4, <1>6

LEMMA Stops == ASSUME CompactionInv, Stop PROVE CompactionInv'
<1>1. /\ UNCHANGED <<log, head, evidence, cmds>> /\ me' = IdleTurn /\ job' = [j \in Jobs |-> NoJob]
      /\ JournalInv /\ head \in Nat /\ log \in Seq(Entries) /\ cmds \in Seq(Commands)
  BY DEF Stop, journal, CompactionInv, JournalInv
<1>2. Grown(<<>>, 0) /\ Stores /\ Commands_grow /\ DOMAIN <<>> = {}
  BY <1>1, NoEntries DEF Grown, Stores, Commands_grow
<1>3. Kept'
  BY <1>2, JournalKept DEF Kept, CompactionInv
<1>4. ASSUME NEW c \in DOMAIN cmds PROVE CommandOK(c)'
  BY <1>1, <1>2, CommandStays DEF CompactionInv
<1>5. IdleTurn \in TurnStates /\ IdleTurn.at = "idle" /\ IdleTurn.head = 0
  BY DEF IdleTurn, TurnStates, TurnPlaces, Ranges, NoRange
<1>6. MeInv'
  BY <1>1, <1>5 DEF MeInv
<1>7. NoJob \in JobStates /\ NoJob.at = "off" /\ NoJob.head = 0 /\ NoJob.evidence = 0
  BY DEF NoJob, JobStates, Ranges, NoRange, Causes
<1>8. job' \in [Jobs -> JobStates] /\ \A j \in Jobs : job'[j] = NoJob
  BY <1>1, <1>7
<1>9. (\A j \in Jobs : JobInv(j)') /\ OwnCommand'
  BY <1>1, <1>7, <1>8 DEF JobInv, OwnCommand, Job, Live, Chosen
<1> QED
  BY <1>1, <1>3, <1>4, <1>6, <1>8, <1>9 DEF CompactionInv, Kept

LEMMA CompactionInitInv == CInit => CompactionInv
<1> SUFFICES ASSUME CInit PROVE CompactionInv
  OBVIOUS
<1>1. /\ log = <<>> /\ head = 0 /\ evidence = <<>> /\ cmds = <<>> /\ me = IdleTurn
      /\ job = [j \in Jobs |-> NoJob]
  BY DEF CInit
<1>2. DOMAIN log = {} /\ DOMAIN evidence = {} /\ DOMAIN cmds = {} /\ Compactions = {}
  BY <1>1 DEF Compactions, Indices
<1>3. /\ log \in Seq(Entries) /\ evidence \in Seq(Nat) /\ cmds \in Seq(Commands) /\ head \in Nat
  BY <1>1
<1>4. JournalInv
  BY <1>2, <1>3 DEF JournalInv
<1>5. SummarisedOnce /\ CompactionIsIdle
  BY <1>2 DEF SummarisedOnce, CompactionIsIdle
<1>6. MeInv
  BY <1>1 DEF MeInv, IdleTurn, TurnStates, TurnPlaces, Ranges, NoRange
<1>7. NoJob \in JobStates /\ NoJob.at = "off" /\ NoJob.head = 0 /\ NoJob.evidence = 0
  BY DEF NoJob, JobStates, Ranges, NoRange, Causes
<1>8. job \in [Jobs -> JobStates] /\ \A j \in Jobs : job[j] = NoJob
  BY <1>1, <1>7
<1>9. (\A j \in Jobs : JobInv(j)) /\ OwnCommand
  BY <1>1, <1>7, <1>8 DEF JobInv, OwnCommand, Job, Live, Chosen
<1> QED
  BY <1>2, <1>4, <1>5, <1>6, <1>8, <1>9 DEF CompactionInv

-----------------------------------------------------------------------------
(* Steps of the command /compact.                                          *)

LEMMA JobFacts ==
  ASSUME CompactionInv, NEW j \in Jobs
  PROVE  /\ job \in [Jobs -> JobStates] /\ job[j] = Job(j) /\ Job(j) \in JobStates
         /\ Job(j).head <= head /\ Job(j).head \in Nat /\ Job(j).range \in Ranges
         /\ Job(j).cmd \in Nat /\ Job(j).evidence \in Nat /\ Job(j).asked \in Nat /\ Job(j).cause \in Causes
         /\ Job(j).planned \in BOOLEAN /\ Job(j).closed \in BOOLEAN
         /\ Job(j).at \in Chosen /\ Job(j).head = head => Free(Job(j).range) /\ Active = {}
         /\ Job(j).at \in Live => Job(j).cmd \in DOMAIN cmds /\ cmds[Job(j).cmd].ends = <<>>
         /\ Job(j).at \notin Live => Job(j).evidence = 0
         /\ Job(j).at = "final" => Job(j).evidence # 0
         /\ Job(j).at \in Live /\ Job(j).evidence # 0 =>
              Job(j).evidence \in DOMAIN evidence /\ evidence[Job(j).evidence] = Job(j).cmd
<1>1. job \in [Jobs -> JobStates] /\ JobInv(j)
  BY DEF CompactionInv
<1>2. job[j] = Job(j) /\ Job(j) \in JobStates
  BY <1>1 DEF Job
<1>3. /\ Job(j).head \in Nat /\ Job(j).range \in Ranges /\ Job(j).cmd \in Nat /\ Job(j).evidence \in Nat
      /\ Job(j).asked \in Nat /\ Job(j).cause \in Causes
      /\ Job(j).planned \in BOOLEAN /\ Job(j).closed \in BOOLEAN
  BY <1>2 DEF JobStates
<1> QED
  BY <1>1, <1>2, <1>3 DEF JobInv

LEMMA JournalFacts ==
  ASSUME CompactionInv
  PROVE  /\ JournalInv /\ Kept /\ log \in Seq(Entries) /\ head \in Nat /\ evidence \in Seq(Nat)
         /\ cmds \in Seq(Commands) /\ Len(cmds) \in Nat /\ DOMAIN cmds = 1 .. Len(cmds)
         /\ DOMAIN evidence = 1 .. Len(evidence) /\ Len(evidence) \in Nat
         /\ \A n \in DOMAIN evidence : evidence[n] <= Len(cmds) /\ evidence[n] \in Nat
<1>1. /\ JournalInv /\ Kept /\ log \in Seq(Entries) /\ head \in Nat /\ evidence \in Seq(Nat)
      /\ cmds \in Seq(Commands) /\ \A n \in DOMAIN evidence : evidence[n] <= Len(cmds)
  BY DEF CompactionInv, JournalInv, Kept
<1> QED
  BY <1>1

\* What a compaction command knows behind its step.
Allowed(v) ==
  /\ v \in JobStates /\ v.head <= head'
  /\ v.at \in Chosen /\ v.head = head' => log' = log /\ Free(v.range) /\ Active = {}
  /\ v.at \in Live => v.cmd \in DOMAIN cmds' /\ cmds'[v.cmd].ends = <<>>
  /\ v.at \notin Live => v.evidence = 0
  /\ v.at = "final" => v.evidence # 0
  /\ v.at \in Live /\ v.evidence # 0 => v.evidence \in DOMAIN evidence' /\ evidence'[v.evidence] = v.cmd

Mine(j, c) == Job(j).at \in Live /\ c = Job(j).cmd

LEMMA JobStepKept ==
  ASSUME CompactionInv, NEW j \in Jobs, NEW v, Allowed(v), job' = [job EXCEPT ![j] = v], me' = me,
         NEW s, NEW n, Grown(s, n), Stores, Commands_grow,
         v.at \in Live => (Job(j).at \in Live /\ v.cmd = Job(j).cmd) \/ v.cmd = Len(cmds) + 1,
         \A c \in DOMAIN cmds : Mine(j, c) \/
           (cmds'[c] = cmds[c] /\ \A i \in DOMAIN s : s[i].kind = "compacted" => evidence'[s[i].n] # c),
         \A c \in DOMAIN cmds' : (c \in DOMAIN cmds /\ ~ Mine(j, c)) \/ CommandOK(c)'
  PROVE  CompactionInv'
<1>1. JournalInv /\ Kept /\ DOMAIN cmds = 1 .. Len(cmds) /\ Len(cmds) \in Nat
  BY JournalFacts
<1>2. Kept'
  BY <1>1, JournalKept
<1>3. MeInv'
  BY MeKept DEF CompactionInv
<1>4. job \in [Jobs -> JobStates] /\ v \in JobStates
  BY DEF CompactionInv, Allowed
<1>5. job' \in [Jobs -> JobStates] /\ job'[j] = v /\ \A k \in Jobs \ {j} : job'[k] = job[k]
  BY <1>4
<1>6. JobInv(j)'
  <2>1. head' \in Nat /\ head <= head' /\ head \in Nat
    BY <1>1, GrownLog, JournalFacts
  <2>2. v.at \in Chosen /\ v.head = head' => Free(v.range)' /\ (Active = {})'
    <3> SUFFICES ASSUME v.at \in Chosen, v.head = head' PROVE Free(v.range)' /\ (Active = {})'
      OBVIOUS
    <3>1. log' = log /\ Free(v.range) /\ Active = {}
      BY DEF Allowed
    <3>2. Active' = {} /\ Compactions' = Compactions
      BY <3>1 DEF Active, Compactions
    <3>3. v.range.thru \in Nat
      BY <1>4 DEF JobStates, Ranges
    <3>4. v.range.thru <= head'
      BY <2>1, <3>1, <3>3 DEF Free
    <3> QED
      BY <3>1, <3>2, <3>4 DEF Free
  <2> QED
    BY <1>5, <2>2 DEF JobInv, Job, Allowed
<1>7. ASSUME NEW k \in Jobs \ {j} PROVE JobInv(k)'
  <2>1. JobInv(k) /\ JobInv(j) /\ OwnCommand
    BY DEF CompactionInv
  <2>2. Job(k).at \in Live => Job(k).cmd \in DOMAIN cmds /\ ~ Mine(j, Job(k).cmd)
    BY <2>1 DEF JobInv, OwnCommand, Mine
  <2>3. Job(k).at \in Live => cmds'[Job(k).cmd].ends = cmds[Job(k).cmd].ends
    BY <2>2
  <2> QED
    BY <1>1, <1>5, <2>1, <2>3, JobKept
<1>8. OwnCommand'
  <2>1. \A k \in Jobs : Job(k).at \in Live => Job(k).cmd \in 1 .. Len(cmds)
    BY <1>1, JobFacts
  <2>2. ASSUME NEW k \in Jobs, NEW l \in Jobs, job'[k].at \in Live, job'[l].at \in Live,
               job'[k].cmd = job'[l].cmd
        PROVE  k = l
    <3>1. OwnCommand
      BY DEF CompactionInv
    <3>2. CASE k # j /\ l # j
      BY <1>5, <2>2, <3>1, <3>2 DEF OwnCommand, Job
    <3>3. ASSUME NEW m \in Jobs \ {j}, job'[m].at \in Live, v.at \in Live, v.cmd = job'[m].cmd
          PROVE  FALSE
      <4>1. job'[m] = job[m]
        BY <1>5
      <4>2. job[m].cmd \in 1 .. Len(cmds)
        BY <2>1, <3>3, <4>1 DEF Job
      <4>3. Job(j).at \in Live /\ v.cmd = Job(j).cmd
        BY <1>1, <3>3, <4>1, <4>2
      <4> QED
        BY <3>1, <3>3, <4>1, <4>3 DEF OwnCommand, Job
    <3> QED
      BY <1>5, <2>2, <3>2, <3>3
  <2> QED
    BY <2>2 DEF OwnCommand, Job
<1>9. ASSUME NEW c \in DOMAIN cmds' PROVE CommandOK(c)'
  <2>1. CASE c \in DOMAIN cmds /\ ~ Mine(j, c)
    BY <1>1, <2>1, CommandStays DEF CompactionInv
  <2> QED
    BY <2>1
<1> QED
  BY <1>2, <1>3, <1>5, <1>6, <1>7, <1>8, <1>9 DEF CompactionInv, Kept

\* A step that leaves the log and the commands alone.
LEMMA JobMoves ==
  ASSUME CompactionInv, UNCHANGED <<log, head, cmds, me>>, Stores, NEW j \in Jobs, NEW v, Allowed(v),
         job' = [job EXCEPT ![j] = v],
         v.at \in Live => Job(j).at \in Live /\ v.cmd = Job(j).cmd
  PROVE  CompactionInv'
<1>1. Grown(<<>>, 0) /\ Commands_grow /\ DOMAIN <<>> = {}
  BY JournalFacts, NoEntries DEF Grown, Commands_grow
<1>2. \A c \in DOMAIN cmds : CommandOK(c)'
  BY <1>1, JournalFacts, CommandStays DEF CompactionInv
<1> QED
  BY <1>1, <1>2, JobStepKept

LEMMA Off ==
  NoJob \in JobStates /\ NoJob.at = "off" /\ NoJob.head = 0 /\ NoJob.evidence = 0 /\ "off" \notin Live \cup Chosen
BY DEF NoJob, JobStates, Ranges, NoRange, Causes, Live, Chosen

LEMMA OffAllowed ==
  ASSUME head' \in Nat
  PROVE  Allowed(NoJob)
BY Off DEF Allowed

LEMMA LeavesQuietly ==
  ASSUME CompactionInv, UNCHANGED <<log, head, cmds, me>>, Stores, NEW j \in Jobs, job' = [job EXCEPT ![j] = NoJob]
  PROVE  CompactionInv'
<1>1. Allowed(NoJob)
  BY JournalFacts, OffAllowed
<1> QED
  BY <1>1, Off, JobMoves

\* The work goes on after an append that did not land, or fails.
LEMMA FailsQuietly ==
  ASSUME CompactionInv, UNCHANGED <<log, head, cmds, me, evidence>>, NEW j \in Jobs, Job(j).at \in Live,
         NEW cause \in Causes, job' = [job EXCEPT ![j] = [Job(j) EXCEPT !.at = "failing", !.cause = cause]]
  PROVE  CompactionInv'
<1> DEFINE v == [Job(j) EXCEPT !.at = "failing", !.cause = cause]
<1>1. /\ v \in JobStates /\ v.at = "failing" /\ v.head = Job(j).head /\ v.cmd = Job(j).cmd
      /\ v.evidence = Job(j).evidence
  BY JobFacts DEF JobStates, Live
<1>2. job' = [job EXCEPT ![j] = v]
  OBVIOUS
<1> HIDE DEF v
<1>3. Allowed(v)
  BY <1>1, JobFacts DEF Allowed, Chosen, Live
<1> QED
  BY <1>1, <1>2, <1>3, JobMoves DEF Stores

LEMMA QuietJobs ==
  ASSUME CompactionInv, NEW j \in Jobs,
         AskCompaction(j) \/ CompactionRefused(j) \/ StartCompaction(j) \/ Summarise(j) \/ CompactionTrouble(j)
  PROVE  CompactionInv'
<1>0. UNCHANGED <<log, head, cmds, me>>
  BY DEF AskCompaction, CompactionRefused, StartCompaction, Summarise, CompactionTrouble, journal
<1>1. CASE AskCompaction(j)
  <2> DEFINE v == [NoJob EXCEPT !.at = "lane", !.asked = head]
  <2>1. job' = [job EXCEPT ![j] = v] /\ Stores
    BY <1>1 DEF AskCompaction, Set, journal, Stores
  <2>2. v \in JobStates /\ v.at = "lane" /\ v.head = 0 /\ v.evidence = 0
    BY JournalFacts, Off DEF NoJob, JobStates
  <2> HIDE DEF v
  <2>3. Allowed(v) /\ v.at \notin Live
    BY <1>0, <2>2, JournalFacts DEF Allowed, Live, Chosen
  <2> QED
    BY <1>0, <2>1, <2>3, JobMoves
<1>2. CASE CompactionRefused(j)
  <2>1. job' = [job EXCEPT ![j] = NoJob] /\ Stores
    BY <1>2 DEF CompactionRefused, Set, journal, Stores
  <2> QED
    BY <1>0, <2>1, LeavesQuietly
<1>3. CASE StartCompaction(j)
  <2>1. Stores
    BY <1>3 DEF StartCompaction, journal, Stores
  <2>2. CASE Inspect(j) /\ SelectionOutcome(log, head) = "range"
    <3> DEFINE r == Select(log, head)
               v == [Job(j) EXCEPT !.at = "accept", !.head = head, !.range = r]
    <3>1. job' = [job EXCEPT ![j] = v] /\ Active = {}
      BY <1>3, <2>2 DEF StartCompaction, Set, Inspect
    <3>2. r \in Ranges /\ Free(r)
      BY <2>2, RangeIsFree
    <3> HIDE DEF r
    <3>3. v \in JobStates /\ v.at = "accept" /\ v.head = head /\ v.range = r /\ v.evidence = 0
      <4>1. Job(j).at \notin Live
        BY <1>3 DEF StartCompaction, Live
      <4> QED
        BY <3>2, <4>1, JournalFacts, JobFacts DEF JobStates, Chosen
    <3> HIDE DEF v
    <3>4. Allowed(v) /\ v.at \notin Live
      BY <1>0, <3>1, <3>2, <3>3, JournalFacts DEF Allowed, Live
    <3> QED
      BY <1>0, <2>1, <3>1, <3>4, JobMoves
  <2>3. CASE ~ (Inspect(j) /\ SelectionOutcome(log, head) = "range")
    <3>1. job' = [job EXCEPT ![j] = NoJob]
      BY <1>3, <2>3 DEF StartCompaction, Leave, Set
    <3> QED
      BY <1>0, <2>1, <3>1, LeavesQuietly
  <2> QED
    BY <2>2, <2>3
<1>4. CASE Summarise(j)
  <2> DEFINE v == [Job(j) EXCEPT !.at = "final", !.evidence = Len(evidence')]
  <2>1. /\ job' = [job EXCEPT ![j] = v] /\ evidence' = Append(evidence, Job(j).cmd) /\ Job(j).at = "summary"
    BY <1>4 DEF Summarise, Set
  <2>2. "summary" \in Live \cap Chosen /\ "final" \in Live \cap Chosen
    BY DEF Live, Chosen
  <2>3. Job(j).cmd \in 0 .. Len(cmds) /\ Job(j).cmd \in Nat
    BY <2>1, <2>2, JobFacts, JournalFacts
  <2>4. Stores
    BY <2>1, <2>3 DEF Stores
  <2>5. /\ Len(evidence') \in DOMAIN evidence' /\ evidence'[Len(evidence')] = Job(j).cmd
        /\ Len(evidence') \in Nat /\ Len(evidence') # 0
    BY <2>1, <2>3, JournalFacts
  <2>6. /\ v \in JobStates /\ v.at = "final" /\ v.evidence = Len(evidence') /\ v.cmd = Job(j).cmd
        /\ v.head = Job(j).head /\ v.range = Job(j).range
    BY <2>2, <2>5, JobFacts DEF JobStates
  <2> HIDE DEF v
  <2>7. Allowed(v)
    BY <1>0, <2>1, <2>2, <2>5, <2>6, JobFacts DEF Allowed
  <2> QED
    BY <1>0, <2>1, <2>2, <2>4, <2>6, <2>7, JobMoves
<1>5. CASE CompactionTrouble(j)
  <2>1. PICK cause \in {"failed", "cancelled"} :
          job' = [job EXCEPT ![j] = [Job(j) EXCEPT !.at = "failing", !.cause = cause]]
    BY <1>5 DEF CompactionTrouble, Set
  <2>2. Job(j).at \in Live /\ evidence' = evidence /\ cause \in Causes
    BY <1>5 DEF CompactionTrouble, Live, journal, Causes
  <2> QED
    BY <1>0, <2>1, <2>2, FailsQuietly
<1> QED
  BY <1>1, <1>2, <1>3, <1>4, <1>5

LEMMA CommandReplaced ==
  ASSUME NEW q \in Seq(Commands), NEW c \in DOMAIN q, NEW e \in Commands
  PROVE  /\ [q EXCEPT ![c] = e] \in Seq(Commands) /\ Len([q EXCEPT ![c] = e]) = Len(q)
         /\ DOMAIN [q EXCEPT ![c] = e] = DOMAIN q /\ [q EXCEPT ![c] = e][c] = e
         /\ \A d \in DOMAIN q : d # c => [q EXCEPT ![c] = e][d] = q[d]
BY ExceptSeq

\* appendCompaction: one more event of the activity.
LEMMA ActWritten ==
  ASSUME CompactionInv, NEW j \in Jobs, Job(j).at \in Live, Job(j).head = head,
         NEW n \in Nat, n # 0, NEW value \in {"planned", "authorized", "denied", "started"},
         log' = log, head' = head + n, evidence' = evidence, me' = me, cmds' = Cmd(j, "act", value),
         NEW v \in JobStates, job' = [job EXCEPT ![j] = v], v.head <= head',
         v.at \in Live => v.cmd = Job(j).cmd /\ v.evidence = Job(j).evidence,
         v.at \in Chosen => Job(j).at \in Chosen /\ v.range = Job(j).range,
         v.at \notin Live => v.evidence = 0, v.at # "final"
  PROVE  CompactionInv'
<1>0. PICK c : c = Job(j).cmd
  OBVIOUS
<1>1. c \in DOMAIN cmds /\ cmds[c].ends = <<>> /\ cmds[c] \in Commands
  BY <1>0, JobFacts, JournalFacts
<1>2. CommandOK(c)
  BY <1>1 DEF CompactionInv
<1>3. cmds' = [cmds EXCEPT ![c] = [@ EXCEPT !.act = Append(cmds[c].act, value)]]
  BY <1>0 DEF Cmd
<1> DEFINE entry == [cmds[c] EXCEPT !.act = Append(cmds[c].act, value)]
<1>4. entry \in Commands /\ entry.ends = <<>> /\ entry.act = Append(cmds[c].act, value)
      /\ cmds[c].act \in Seq(Marks)
  <2>1. cmds[c].act \in Seq(Marks)
    BY <1>1 DEF Commands
  <2>2. value \in Marks
    BY DEF Marks
  <2>3. Append(cmds[c].act, value) \in Seq(Marks)
    BY <2>1, <2>2, AppendProperties
  <2> QED
    BY <1>1, <2>1, <2>3 DEF Commands
<1>5. cmds' = [cmds EXCEPT ![c] = entry]
  BY <1>3
<1> HIDE DEF entry
<1>6. /\ cmds' \in Seq(Commands) /\ Len(cmds') = Len(cmds) /\ DOMAIN cmds' = DOMAIN cmds /\ cmds'[c] = entry
      /\ \A d \in DOMAIN cmds : d # c => cmds'[d] = cmds[d]
  <2>1. cmds \in Seq(Commands)
    BY JournalFacts
  <2>2. entry \in Commands /\ c \in DOMAIN cmds
    BY <1>1, <1>4
  <2> QED
    BY <1>5, <2>1, <2>2, CommandReplaced
<1>7. Grown(<<>>, n) /\ Stores /\ Commands_grow
  BY <1>6, JournalFacts, NoEntries DEF Grown, Stores, Commands_grow
<1>12. \A i \in DOMAIN <<>> : FALSE
  BY NoEntries
<1>8. Allowed(v)
  <2>1. v.at \in Chosen => Free(v.range) /\ Active = {}
    BY JobFacts
  <2>2. v.at \in Live => v.cmd \in DOMAIN cmds' /\ cmds'[v.cmd].ends = <<>>
    BY <1>0, <1>1, <1>4, <1>6
  <2>3. v.at \in Live /\ v.evidence # 0 => v.evidence \in DOMAIN evidence' /\ evidence'[v.evidence] = v.cmd
    BY JobFacts
  <2> QED
    BY <2>1, <2>2, <2>3 DEF Allowed
<1>9. CommandOK(c)'
  <2>1. Its(c)' = Its(c)
    BY <1>7, <1>12, JournalFacts, ItsStay
  <2>2. cmds[c].ends = <<>> /\ cmds[c].ends # <<"completed">>
    BY <1>1
  <2>3. Its(c) = {}
    BY <1>2, <2>2 DEF CommandOK
  <2>4. (\E i \in DOMAIN entry.act : entry.act[i] = "succeeded") =>
           \E i \in DOMAIN cmds[c].act : cmds[c].act[i] = "succeeded"
    BY <1>4
  <2>5. Stored' = Stored
    BY DEF Stored
  <2> QED
    BY <1>2, <1>4, <1>6, <2>1, <2>3, <2>4, <2>5 DEF CommandOK
<1>10. \A d \in DOMAIN cmds : Mine(j, d) \/ d # c
  BY <1>0 DEF Mine
<1> QED
  <2>1. \A d \in DOMAIN cmds : Mine(j, d) \/
          (cmds'[d] = cmds[d] /\ \A i \in DOMAIN <<>> : <<>>[i].kind = "compacted" => evidence'[<<>>[i].n] # d)
    BY <1>6, <1>10, <1>12
  <2>2. \A d \in DOMAIN cmds' : (d \in DOMAIN cmds /\ ~ Mine(j, d)) \/ CommandOK(d)'
    BY <1>0, <1>6, <1>9 DEF Mine
  <2>3. v.at \in Live => Job(j).at \in Live /\ v.cmd = Job(j).cmd
    OBVIOUS
  <2> QED
    BY <1>7, <1>8, <2>1, <2>2, <2>3, JobStepKept

\* An append of appendCompaction: it lands where the command knows the head, or
\* nothing is in the journal.
LEMMA Writes ==
  ASSUME CompactionInv, NEW j \in Jobs, Job(j).at \in Live, NEW o, NEW n \in Nat, n # 0,
         NEW value \in {"planned", "authorized", "denied", "started"},
         NEW next \in JobStates, Write(j, o, n, <<>>, Cmd(j, "act", value), next), evidence' = evidence,
         next.at \in Live, next.cmd = Job(j).cmd, next.evidence = Job(j).evidence,
         next.at \in Chosen => Job(j).at \in Chosen /\ next.range = Job(j).range, next.at # "final"
  PROVE  CompactionInv'
<1>0. me' = me /\ head \in Nat /\ log \in Seq(Entries) /\ Job(j).head \in Nat /\ Job(j).head <= head
  BY JournalFacts, JobFacts DEF Write
<1>1. CASE ~ Lands(o)
  <2>1. UNCHANGED <<log, head, cmds, me>> /\ Stores
    BY <1>0, <1>1 DEF Write, Stores
  <2>2. o # "ok" /\ o # "unpublished"
    BY <1>1 DEF Lands
  <2>3. o \in {"refused", "unknown"}
    BY <1>1, <2>2 DEF Write, Outcomes, Lands
  <2>4. CASE o = "unknown"
    <3>1. job' = [job EXCEPT ![j] = NoJob]
      BY <2>4 DEF Write, Uncertain, Leave, Set
    <3> QED
      BY <2>1, <3>1, LeavesQuietly
  <2>5. CASE o = "refused"
    <3>1. job' = [job EXCEPT ![j] = [Job(j) EXCEPT !.at = "failing"]]
      BY <2>5 DEF Write, Uncertain, Set
    <3>2. [Job(j) EXCEPT !.at = "failing"] = [Job(j) EXCEPT !.at = "failing", !.cause = Job(j).cause]
      BY JobFacts DEF JobStates
    <3>3. job' = [job EXCEPT ![j] = [Job(j) EXCEPT !.at = "failing", !.cause = Job(j).cause]]
      BY <3>1, <3>2
    <3> QED
      BY <2>1, <3>3, JobFacts, FailsQuietly
  <2> QED
    BY <2>3, <2>4, <2>5
<1>2. CASE Lands(o)
  <2>1. Job(j).head = head /\ o \in {"ok", "lost", "unpublished"}
    BY <1>2 DEF Write, Outcomes, Lands
  <2>2. log' = log /\ head' = head + n /\ cmds' = Cmd(j, "act", value)
    <3>1. log' = log \o <<>> /\ head' = head + n /\ cmds' = Cmd(j, "act", value)
      BY <1>2 DEF Write
    <3> QED
      BY <1>0, <3>1, NoEntries
  <2>3. head + n \in Nat /\ Job(j).head <= head + n /\ head <= head + n
    BY <1>0
  <2>4. CASE o = "ok"
    <3> DEFINE v == [next EXCEPT !.head = head + n]
    <3>1. job' = [job EXCEPT ![j] = v]
      <4>1. /\ CASE o = "ok" -> Set(j, v) /\ UNCHANGED lane
                [] Uncertain(o) -> Leave(j)
                [] o = "refused" -> Set(j, [Job(j) EXCEPT !.at = "failing"]) /\ UNCHANGED lane
                [] o = "unpublished" -> Set(j, [Job(j) EXCEPT !.at = "failing", !.head = head + n]) /\ UNCHANGED lane
        BY DEF Write
      <4> HIDE DEF v
      <4>2. ~ Uncertain(o) /\ o # "refused" /\ o # "unpublished"
        BY <2>4 DEF Uncertain
      <4> QED
        BY <2>4, <4>1, <4>2 DEF Set
    <3>2. /\ v \in JobStates /\ v.at = next.at /\ v.head = head + n /\ v.cmd = next.cmd
          /\ v.evidence = next.evidence /\ v.range = next.range
      BY <2>3 DEF JobStates
    <3> HIDE DEF v
    <3>3. v.head <= head' /\ v.at \in Live
      BY <2>2, <2>3, <3>2
    <3> QED
      BY <1>0, <2>1, <2>2, <3>1, <3>2, <3>3, ActWritten
  <2>5. CASE o = "lost"
    <3>1. job' = [job EXCEPT ![j] = NoJob]
      BY <2>5 DEF Write, Uncertain, Leave, Set
    <3>2. NoJob.head <= head' /\ NoJob.at # "final"
      BY <2>2, <2>3, Off
    <3> QED
      BY <1>0, <2>1, <2>2, <3>1, <3>2, Off, ActWritten
  <2>6. CASE o = "unpublished"
    <3> DEFINE v == [Job(j) EXCEPT !.at = "failing", !.head = head + n]
    <3>1. job' = [job EXCEPT ![j] = v]
      BY <2>6 DEF Write, Uncertain, Set
    <3>2. /\ v \in JobStates /\ v.at = "failing" /\ v.head = head + n /\ v.cmd = Job(j).cmd
          /\ v.evidence = Job(j).evidence
      BY <2>3, JobFacts DEF JobStates, Live
    <3> HIDE DEF v
    <3>3. v.head <= head' /\ v.at \notin Chosen /\ v.at \in Live
      BY <2>2, <2>3, <3>2 DEF Chosen, Live
    <3> QED
      BY <1>0, <2>1, <2>2, <3>1, <3>2, <3>3, ActWritten
  <2> QED
    BY <2>1, <2>4, <2>5, <2>6
<1> QED
  BY <1>1, <1>2

LEMMA WritesActivity ==
  ASSUME CompactionInv, NEW j \in Jobs,
         PlanActivity(j) \/ AllowCompaction(j) \/ DenyCompaction(j) \/ StartActivity(j)
  PROVE  CompactionInv'
<1>0. /\ {"plan", "decide", "start", "summary", "failing"} \subseteq Live
      /\ {"plan", "decide", "start", "summary"} \subseteq Chosen /\ "failing" \notin Chosen
      /\ "denied" \in Causes /\ 2 \in Nat /\ 2 # 0
  BY DEF Live, Chosen, Causes
<1>1. CASE PlanActivity(j)
  <2>1. Job(j).at = "plan" /\ evidence' = evidence
    BY <1>1 DEF PlanActivity
  <2> DEFINE next == [Job(j) EXCEPT !.at = "decide", !.planned = TRUE]
  <2>2. PICK o \in Outcomes(j) : Write(j, o, 2, <<>>, Cmd(j, "act", "planned"), next)
    BY <1>1 DEF PlanActivity
  <2>3. /\ next \in JobStates /\ next.at = "decide" /\ next.cmd = Job(j).cmd
        /\ next.evidence = Job(j).evidence /\ next.range = Job(j).range
    BY <1>0, JobFacts DEF JobStates
  <2> HIDE DEF next
  <2> QED
    BY <1>0, <2>1, <2>2, <2>3, Writes
<1>2. CASE AllowCompaction(j)
  <2>1. Job(j).at = "decide" /\ evidence' = evidence
    BY <1>2 DEF AllowCompaction
  <2> DEFINE next == [Job(j) EXCEPT !.at = "start"]
  <2>2. PICK o \in Outcomes(j) : Write(j, o, 2, <<>>, Cmd(j, "act", "authorized"), next)
    BY <1>2 DEF AllowCompaction
  <2>3. /\ next \in JobStates /\ next.at = "start" /\ next.cmd = Job(j).cmd
        /\ next.evidence = Job(j).evidence /\ next.range = Job(j).range
    BY <1>0, JobFacts DEF JobStates
  <2> HIDE DEF next
  <2> QED
    BY <1>0, <2>1, <2>2, <2>3, Writes
<1>3. CASE DenyCompaction(j)
  <2>1. Job(j).at = "decide" /\ evidence' = evidence
    BY <1>3 DEF DenyCompaction
  <2> DEFINE next == [Job(j) EXCEPT !.at = "failing", !.closed = TRUE, !.cause = "denied"]
  <2>2. PICK o \in Outcomes(j) : Write(j, o, 2, <<>>, Cmd(j, "act", "denied"), next)
    BY <1>3 DEF DenyCompaction
  <2>3. /\ next \in JobStates /\ next.at = "failing" /\ next.cmd = Job(j).cmd
        /\ next.evidence = Job(j).evidence /\ next.range = Job(j).range
    BY <1>0, JobFacts DEF JobStates
  <2> HIDE DEF next
  <2> QED
    BY <1>0, <2>1, <2>2, <2>3, Writes
<1>4. CASE StartActivity(j)
  <2>1. Job(j).at = "start" /\ evidence' = evidence
    BY <1>4 DEF StartActivity
  <2> DEFINE next == [Job(j) EXCEPT !.at = "summary"]
  <2>2. PICK o \in Outcomes(j) : Write(j, o, 2, <<>>, Cmd(j, "act", "started"), next)
    BY <1>4 DEF StartActivity
  <2>3. /\ next \in JobStates /\ next.at = "summary" /\ next.cmd = Job(j).cmd
        /\ next.evidence = Job(j).evidence /\ next.range = Job(j).range
    BY <1>0, JobFacts DEF JobStates
  <2> HIDE DEF next
  <2> QED
    BY <1>0, <2>1, <2>2, <2>3, Writes
<1> QED
  BY <1>1, <1>2, <1>3, <1>4

LEMMA Accepts == ASSUME CompactionInv, NEW j \in Jobs, Accept(j) PROVE CompactionInv'
<1>0. /\ UNCHANGED <<log, evidence, me>> /\ Job(j).at = "accept" /\ "accept" \in Chosen \ Live
      /\ head \in Nat /\ log \in Seq(Entries)
  BY JournalFacts DEF Accept, Chosen, Live
<1>1. PICK o \in Outcomes(j) :
       /\ IF Lands(o) THEN head' = head + 1 /\ cmds' = Append(cmds, Command(Job(j).asked))
                      ELSE UNCHANGED <<head, cmds>>
       /\ IF o = "ok"
            THEN Set(j, [Job(j) EXCEPT !.at = "plan", !.head = head + 1, !.cmd = Len(cmds) + 1])
            ELSE Leave(j)
  BY DEF Accept
<1>2. CASE ~ Lands(o)
  <2>1. UNCHANGED <<log, head, cmds, me>> /\ Stores /\ o # "ok"
    BY <1>0, <1>1, <1>2 DEF Lands, Stores
  <2>2. job' = [job EXCEPT ![j] = NoJob]
    BY <1>1, <2>1 DEF Leave, Set
  <2> QED
    BY <2>1, <2>2, LeavesQuietly
<1>3. CASE Lands(o)
  <2>1. Job(j).head = head
    BY <1>3 DEF Outcomes, Lands
  <2>2. PICK c : c = Len(cmds) + 1
    OBVIOUS
  <2> DEFINE new == Command(Job(j).asked)
  <2>3. new \in Commands /\ new.ends = <<>> /\ new.act = <<>>
    BY JobFacts DEF Command, Commands
  <2>4. head' = head + 1 /\ cmds' = Append(cmds, new)
    BY <1>1, <1>3
  <2> HIDE DEF new
  <2>5. /\ cmds' \in Seq(Commands) /\ Len(cmds') = c /\ DOMAIN cmds' = DOMAIN cmds \cup {c}
        /\ \A d \in DOMAIN cmds : cmds'[d] = cmds[d] /\ d # c
        /\ cmds'[c] = new /\ c \in Nat
    BY <2>2, <2>3, <2>4, JournalFacts
  <2>6. Grown(<<>>, 1) /\ Stores /\ Commands_grow
    BY <1>0, <2>2, <2>4, <2>5, JournalFacts, NoEntries DEF Grown, Stores, Commands_grow
  <2>7. \A i \in DOMAIN <<>> : FALSE
    BY NoEntries
  <2>8. CommandOK(c)'
    <3>1. Its(c)' = Its(c)
      BY <2>6, <2>7, JournalFacts, ItsStay
    <3>2. Its(c) = {}
      <4>1. \A i \in DOMAIN log : log[i].kind = "compacted" => log[i].n \in DOMAIN evidence
        BY DEF CompactionInv, JournalInv
      <4>2. \A n \in DOMAIN evidence : evidence[n] # c
        BY <2>2, JournalFacts
      <4> QED
        BY <4>1, <4>2 DEF Its, Compactions, Indices
    <3> QED
      BY <2>3, <2>5, <3>1, <3>2 DEF CommandOK
  <2>9. \A d \in DOMAIN cmds :
          cmds'[d] = cmds[d] /\ \A i \in DOMAIN <<>> : <<>>[i].kind = "compacted" => evidence'[<<>>[i].n] # d
    BY <2>5, <2>7
  <2>10. \A d \in DOMAIN cmds' : (d \in DOMAIN cmds /\ ~ Mine(j, d)) \/ CommandOK(d)'
    BY <1>0, <2>5, <2>8 DEF Mine
  <2>11. head' \in Nat
    BY <1>0, <2>4
  <2>12. CASE o = "ok"
    <3> DEFINE v == [Job(j) EXCEPT !.at = "plan", !.head = head + 1, !.cmd = c]
    <3>1. job' = [job EXCEPT ![j] = v]
      BY <1>1, <2>2, <2>12 DEF Set
    <3>2. /\ v \in JobStates /\ v.at = "plan" /\ v.head = head' /\ v.cmd = c
          /\ v.evidence = Job(j).evidence /\ v.range = Job(j).range
      BY <2>4, <2>5, <2>11, JobFacts DEF JobStates, Live
    <3> HIDE DEF v
    <3>3. Job(j).evidence = 0
      BY <1>0, JobFacts
    <3>4. Allowed(v)
      <4>1. v.head <= head'
        BY <2>11, <3>2
      <4> QED
        BY <1>0, <2>1, <2>3, <2>5, <3>2, <3>3, <4>1, JobFacts DEF Allowed
    <3>5. v.at \in Live => (Job(j).at \in Live /\ v.cmd = Job(j).cmd) \/ v.cmd = Len(cmds) + 1
      BY <2>2, <3>2
    <3>6. \A d \in DOMAIN cmds : Mine(j, d) \/
            (cmds'[d] = cmds[d] /\ \A i \in DOMAIN <<>> : <<>>[i].kind = "compacted" => evidence'[<<>>[i].n] # d)
      BY <2>9
    <3> QED
      BY <1>0, <2>6, <2>10, <3>1, <3>4, <3>5, <3>6, JobStepKept
  <2>13. CASE o # "ok"
    <3>1. job' = [job EXCEPT ![j] = NoJob]
      BY <1>1, <2>13 DEF Leave, Set
    <3>2. Allowed(NoJob) /\ NoJob.at \notin Live
      BY <2>11, OffAllowed, Off
    <3> QED
      BY <1>0, <2>6, <2>9, <2>10, <3>1, <3>2, JobStepKept
  <2> QED
    BY <2>12, <2>13
<1> QED
  BY <1>2, <1>3

\* The append that activates the summary: the range is still free, and the summary
\* is the command's own.
LEMMA Activates == ASSUME CompactionInv, NEW j \in Jobs, Activate(j) PROVE CompactionInv'
<1>0. /\ UNCHANGED <<evidence, me>> /\ Job(j).at = "final" /\ "final" \in Chosen \cap Live
      /\ head \in Nat /\ log \in Seq(Entries) /\ Stores
  BY JournalFacts DEF Activate, Chosen, Live, Stores
<1>1. PICK o \in Outcomes(j) :
       /\ IF Lands(o) THEN log' = log \o FinalEvents(j) /\ head' = head + 3 /\ cmds' = FinalCommand(j)
                      ELSE UNCHANGED <<log, head, cmds>>
       /\ IF o = "refused" THEN Set(j, [Job(j) EXCEPT !.at = "failing"]) /\ UNCHANGED lane
                           ELSE Leave(j)
  BY DEF Activate
<1>2. CASE ~ Lands(o)
  <2>1. UNCHANGED <<log, head, cmds, me>>
    BY <1>0, <1>1, <1>2
  <2>2. CASE o = "refused"
    <3>1. job' = [job EXCEPT ![j] = [Job(j) EXCEPT !.at = "failing"]]
      BY <1>1, <2>2 DEF Set
    <3>2. [Job(j) EXCEPT !.at = "failing"] = [Job(j) EXCEPT !.at = "failing", !.cause = Job(j).cause]
      BY JobFacts DEF JobStates
    <3>3. job' = [job EXCEPT ![j] = [Job(j) EXCEPT !.at = "failing", !.cause = Job(j).cause]]
      BY <3>1, <3>2
    <3> QED
      BY <1>0, <2>1, <3>3, JobFacts, FailsQuietly
  <2>3. CASE o # "refused"
    <3>1. job' = [job EXCEPT ![j] = NoJob]
      BY <1>1, <2>3 DEF Leave, Set
    <3> QED
      BY <1>0, <2>1, <3>1, LeavesQuietly
  <2> QED
    BY <2>2, <2>3
<1>3. CASE Lands(o)
  <2>1. Job(j).head = head /\ o # "refused"
    BY <1>3 DEF Outcomes, Lands
  <2>2. job' = [job EXCEPT ![j] = NoJob]
    BY <1>1, <2>1 DEF Leave, Set
  <2>3. PICK c : c = Job(j).cmd
    OBVIOUS
  <2>4. PICK x : x = Job(j).evidence
    OBVIOUS
  <2>5. PICK r : r = Job(j).range
    OBVIOUS
  <2>6. /\ c \in DOMAIN cmds /\ cmds[c] \in Commands /\ c \in Nat
        /\ x \in DOMAIN evidence /\ evidence[x] = c /\ x \in Nat
        /\ r \in Ranges /\ Free(r) /\ Active = {} /\ r.thru <= head /\ r.thru \in Nat
    <3>1. /\ c \in DOMAIN cmds /\ x # 0 /\ x \in DOMAIN evidence /\ evidence[x] = c /\ r \in Ranges
          /\ Free(r) /\ Active = {}
      BY <1>0, <2>1, <2>3, <2>4, <2>5, JobFacts
    <3> QED
      BY <3>1, JournalFacts DEF Free, Ranges
  <2> DEFINE e == Compacted(head + 2, 0, x, r)
             entry == [cmds[c] EXCEPT !.act = Append(cmds[c].act, "succeeded"), !.ends = <<"completed">>]
  <2>7. log' = log \o <<e>> /\ head' = head + 3 /\ cmds' = [cmds EXCEPT ![c] = entry]
    BY <1>1, <1>3, <2>3, <2>4, <2>5 DEF FinalEvents, FinalCommand
  <2>8. /\ e \in Entries /\ e.at = head + 2 /\ e.kind = "compacted" /\ e.turn = 0 /\ e.n = x
        /\ e.from = r.from /\ e.thru = r.thru
    BY <1>0, <2>6 DEF Compacted, Entries, Ranges, Kinds
  <2>9. entry \in Commands /\ entry.ends = <<"completed">>
    <3>1. cmds[c].act \in Seq(Marks) /\ "succeeded" \in Marks /\ "completed" \in Marks
      BY <2>6 DEF Commands, Marks
    <3>2. Append(cmds[c].act, "succeeded") \in Seq(Marks) /\ <<"completed">> \in Seq(Marks)
      BY <3>1, AppendProperties
    <3> QED
      BY <2>6, <3>2 DEF Commands
  <2> HIDE DEF e, entry
  <2>10. /\ <<e>> \in Seq(Entries) /\ DOMAIN <<e>> = {1} /\ <<e>>[1] = e
    BY <2>8, One
  <2>11. PICK s : s = <<e>>
    OBVIOUS
  <2>12. /\ s \in Seq(Entries) /\ DOMAIN s = {1} /\ s[1] = e /\ log' = log \o s
    BY <2>7, <2>10, <2>11
  <2>13. Free(e)
    BY <2>6, <2>8 DEF Free
  <2>14. Grown(s, 3)
    <3>1. head < e.at /\ e.at <= head + 3 /\ e.thru <= head + 3 /\ 3 \in Nat /\ 3 # 0
      BY <1>0, <2>6, <2>8
    <3> QED
      BY <1>0, <2>6, <2>7, <2>8, <2>12, <2>13, <3>1 DEF Grown
  <2>15. /\ cmds' \in Seq(Commands) /\ Len(cmds') = Len(cmds) /\ DOMAIN cmds' = DOMAIN cmds /\ cmds'[c] = entry
         /\ \A d \in DOMAIN cmds : d # c => cmds'[d] = cmds[d]
    <3>1. cmds \in Seq(Commands)
      BY JournalFacts
    <3> QED
      BY <2>6, <2>7, <2>9, <3>1, CommandReplaced
  <2>16. Commands_grow
    BY <2>15, JournalFacts DEF Commands_grow
  <2>17. CommandOK(c)'
    <3>1. PICK k : k = Len(log) + 1
      OBVIOUS
    <3>2. k \in DOMAIN log' /\ log'[k] = e
      <4>1. Len(s) = 1 /\ Len(log) \in Nat
        BY <1>0, <2>12
      <4>2. Len(log') = Len(log) + 1 /\ log' \in Seq(Entries) /\ log'[k] = s[1]
        <5>1. /\ log' \in Seq(Entries) /\ Len(log') = Len(log) + Len(s)
              /\ \A i \in 1 .. Len(log) + Len(s) : log'[i] = IF i <= Len(log) THEN log[i] ELSE s[i - Len(log)]
          BY <1>0, <2>12, Joined
        <5>2. k \in 1 .. Len(log) + Len(s) /\ ~ (k <= Len(log)) /\ k - Len(log) = 1
          BY <3>1, <4>1
        <5>3. log'[k] = s[k - Len(log)]
          BY <5>1, <5>2
        <5> QED
          BY <4>1, <5>1, <5>2, <5>3
      <4>3. k \in 1 .. Len(log')
        BY <3>1, <4>1, <4>2
      <4> QED
        BY <2>12, <4>2, <4>3
    <3>3. k \in Its(c)'
      BY <1>0, <2>6, <2>8, <3>2 DEF Its, Compactions, Indices
    <3>4. c \in {evidence'[n] : n \in Stored'}
      BY <1>0, <2>6 DEF Stored
    <3> QED
      BY <2>9, <2>15, <3>3, <3>4 DEF CommandOK
  <2>18. \A d \in DOMAIN cmds : Mine(j, d) \/
           (cmds'[d] = cmds[d] /\ \A i \in DOMAIN s : s[i].kind = "compacted" => evidence'[s[i].n] # d)
    BY <1>0, <2>3, <2>6, <2>8, <2>12, <2>15 DEF Mine
  <2>19. \A d \in DOMAIN cmds' : (d \in DOMAIN cmds /\ ~ Mine(j, d)) \/ CommandOK(d)'
    BY <2>3, <2>15, <2>17 DEF Mine
  <2>20. Allowed(NoJob) /\ NoJob.at \notin Live
    <3>1. head' \in Nat
      BY <1>0, <2>7
    <3> QED
      BY <3>1, OffAllowed, Off
  <2> QED
    BY <1>0, <2>2, <2>14, <2>16, <2>18, <2>19, <2>20, JobStepKept
<1> QED
  BY <1>2, <1>3

\* The terminal of a command that failed: it had none, and its activity succeeded
\* only by a summary of its own.
LEMMA Terminalises == ASSUME CompactionInv, NEW j \in Jobs, Terminalise(j) PROVE CompactionInv'
<1>0. /\ UNCHANGED <<log, evidence, me>> /\ Job(j).at = "failing" /\ "failing" \in Live
      /\ head \in Nat /\ log \in Seq(Entries) /\ Stores
  BY JournalFacts DEF Terminalise, Live, Stores
<1>1. job' = [job EXCEPT ![j] = NoJob]
  BY DEF Terminalise, Leave, Set
<1>2. \/ UNCHANGED <<head, cmds>>
      \/ \E n \in {1, 2} : head' = head + n /\ cmds' = Failure(j)
  BY DEF Terminalise
<1>3. CASE UNCHANGED <<head, cmds>>
  BY <1>0, <1>1, <1>3, LeavesQuietly
<1>4. ASSUME NEW n \in {1, 2}, head' = head + n, cmds' = Failure(j)
      PROVE  CompactionInv'
  <2>1. PICK c : c = Job(j).cmd
    OBVIOUS
  <2>2. PICK x : x = Job(j).evidence
    OBVIOUS
  <2>3. PICK cause : cause = Job(j).cause
    OBVIOUS
  <2>4. /\ c \in DOMAIN cmds /\ cmds[c] \in Commands /\ cmds[c].ends = <<>> /\ cause \in Causes
        /\ x # 0 => x \in DOMAIN evidence /\ evidence[x] = c
    BY <1>0, <2>1, <2>2, <2>3, JobFacts, JournalFacts
  <2>5. CommandOK(c) /\ cmds[c].ends # <<"completed">>
    BY <2>4 DEF CompactionInv
  <2> DEFINE open == Job(j).planned /\ ~ Job(j).closed
             mark == IF x # 0 THEN "succeeded" ELSE cause
             act == IF open THEN Append(cmds[c].act, mark) ELSE cmds[c].act
             ends == Append(cmds[c].ends, cause)
             entry == [cmds[c] EXCEPT !.act = act, !.ends = ends]
  <2>6. cmds' = [cmds EXCEPT ![c] = entry]
    BY <1>4, <2>1, <2>2, <2>3 DEF Failure
  <2>7. mark \in Marks /\ cause \in Marks /\ cmds[c].act \in Seq(Marks) /\ (x = 0 => mark # "succeeded")
    BY <2>4 DEF Marks, Causes, Commands
  <2>8. act \in Seq(Marks) /\ (\E i \in DOMAIN act : act[i] = "succeeded") =>
          x # 0 \/ \E i \in DOMAIN cmds[c].act : cmds[c].act[i] = "succeeded"
    <3> HIDE DEF mark, open
    <3> QED
      BY <2>7
  <2>9. act \in Seq(Marks)
    <3> HIDE DEF mark, open
    <3> QED
      BY <2>7, AppendProperties
  <2>10. ends = <<cause>> /\ ends \in Seq(Marks)
    BY <2>4, <2>7
  <2> HIDE DEF open, mark, act, ends
  <2>11. entry \in Commands /\ entry.ends = ends /\ entry.act = act
    BY <2>4, <2>9, <2>10 DEF Commands
  <2> HIDE DEF entry
  <2>12. /\ cmds' \in Seq(Commands) /\ Len(cmds') = Len(cmds) /\ DOMAIN cmds' = DOMAIN cmds /\ cmds'[c] = entry
         /\ \A d \in DOMAIN cmds : d # c => cmds'[d] = cmds[d]
    <3>1. cmds \in Seq(Commands)
      BY JournalFacts
    <3> QED
      BY <2>4, <2>6, <2>11, <3>1, CommandReplaced
  <2>13. Grown(<<>>, n) /\ Commands_grow
    BY <1>0, <1>4, <2>12, JournalFacts, NoEntries DEF Grown, Commands_grow
  <2>14. \A i \in DOMAIN <<>> : FALSE
    BY NoEntries
  <2>15. CommandOK(c)'
    <3>1. Its(c)' = Its(c) /\ Its(c) = {}
      <4>1. Its(c)' = Its(c)
        BY <1>0, <2>13, <2>14, JournalFacts, ItsStay
      <4> QED
        BY <2>5, <4>1 DEF CommandOK
    <3>2. entry.ends \in Terminals
      BY <2>4, <2>10, <2>11 DEF Terminals
    <3>3. (\E i \in DOMAIN entry.act : entry.act[i] = "succeeded") => c \in {evidence[m] : m \in Stored}
      BY <2>4, <2>5, <2>8, <2>9, <2>11 DEF CommandOK, Stored
    <3>4. Stored' = Stored /\ evidence' = evidence
      BY <1>0 DEF Stored
    <3> QED
      BY <2>12, <3>1, <3>2, <3>3, <3>4 DEF CommandOK, Terminals
  <2>16. \A d \in DOMAIN cmds : Mine(j, d) \/
           (cmds'[d] = cmds[d] /\ \A i \in DOMAIN <<>> : <<>>[i].kind = "compacted" => evidence'[<<>>[i].n] # d)
    BY <1>0, <2>1, <2>12, <2>14 DEF Mine
  <2>17. \A d \in DOMAIN cmds' : (d \in DOMAIN cmds /\ ~ Mine(j, d)) \/ CommandOK(d)'
    BY <2>1, <2>12, <2>15 DEF Mine
  <2>18. Allowed(NoJob) /\ NoJob.at \notin Live
    <3>1. head' \in Nat
      BY <1>0, <1>4
    <3> QED
      BY <3>1, OffAllowed, Off
  <2> QED
    BY <1>0, <1>1, <2>13, <2>16, <2>17, <2>18, JobStepKept
<1> QED
  BY <1>2, <1>3, <1>4

-----------------------------------------------------------------------------
(* What holds of every reachable state.                                    *)

LEMMA Wakes == ASSUME CompactionInv, UNCHANGED <<log, head, evidence, cmds, me, job>> PROVE CompactionInv'
<1>1. QuietStep(<<>>, 0)
  BY StillStep DEF Stores
<1> QED
  BY <1>1, AroundMe

LEMMA CompactionNextInv == CompactionInv /\ [CNext]_cvars => CompactionInv'
<1> SUFFICES ASSUME CompactionInv, [CNext]_cvars PROVE CompactionInv'
  OBVIOUS
<1>1. CASE RunTurn
  BY <1>1, QuietLane, OpensTurn, PlansRequest, Authorises, SummarisesInTurn, TurnAnswers, ToolReturns,
     EndsTurn, TurnFails DEF RunTurn
<1>2. CASE WokenUp
  BY <1>2, Wakes DEF WokenUp, journal
<1>3. CASE Stop
  BY <1>3, Stops
<1>4. CASE Recover
  BY <1>4, Recovers
<1>5. CASE ForeignOpens \/ ForeignEnds
  BY <1>5, ForeignOpening, ForeignEnding
<1>6. ASSUME NEW j \in Jobs, RunCompaction(j) PROVE CompactionInv'
  BY <1>6, QuietJobs, Accepts, WritesActivity, Activates, Terminalises DEF RunCompaction
<1>7. CASE UNCHANGED cvars
  BY <1>7, Wakes DEF cvars
<1> QED
  BY <1>1, <1>2, <1>3, <1>4, <1>5, <1>6, <1>7 DEF CNext

LEMMA CompactionAlways == CSpec => []CompactionInv
<1>1. CInit => CompactionInv
  BY CompactionInitInv
<1>2. CompactionInv /\ [CNext]_cvars => CompactionInv'
  BY CompactionNextInv
<1> QED
  BY <1>1, <1>2, PTL DEF CSpec

\* Summarised once (selector.go, and the expected head of every append): the ranges of
\* the compactions in the journal follow one another, however a turn of this process, a
\* turn of another one and any number of commands /compact chose theirs.
THEOREM SummarisedOnceAlways == CSpec => []SummarisedOnce
<1>1. CompactionInv => SummarisedOnce
  BY DEF CompactionInv
<1> QED
  BY <1>1, CompactionAlways, PTL

\* "compaction requires an idle session" (RunCompaction's ActiveTurn and the expected
\* head of its appends): no summary of the command /compact stands inside a turn.
THEOREM CompactionIsIdleAlways == CSpec => []CompactionIsIdle
<1>1. CompactionInv => CompactionIsIdle
  BY DEF CompactionInv
<1> QED
  BY <1>1, CompactionAlways, PTL

\* The terminals of RunCompaction: whatever append or publication fails or is reported
\* unknown, a command gets at most one, "completed" just when a summary made for it
\* was activated, and no activity succeeds whose summary was not stored.
THEOREM CompactionTellsTruthAlways == CSpec => []CompactionTellsTruth
<1>1. CompactionInv => CompactionTellsTruth
  <2> SUFFICES ASSUME CompactionInv, NEW c \in DOMAIN cmds
               PROVE  /\ Len(cmds[c].ends) <= 1
                      /\ cmds[c].ends = <<"completed">> <=> {i \in Compactions : evidence[log[i].n] = c} # {}
                      /\ (\E i \in DOMAIN cmds[c].act : cmds[c].act[i] = "succeeded") =>
                           c \in {evidence[n] : n \in Stored}
    BY DEF CompactionTellsTruth
  <2>1. CommandOK(c)
    BY DEF CompactionInv
  <2>2. cmds[c].ends \in {<<>>} \cup Terminals => Len(cmds[c].ends) <= 1 /\ cmds[c].ends # <<"completed">>
    <3>1. \A cause \in Causes : Len(<<cause>>) = 1 /\ <<cause>>[1] # "completed"
      BY DEF Causes
    <3>2. \A cause \in Causes : <<cause>> # <<"completed">>
      BY <3>1
    <3>3. Len(<<>>) = 0 /\ <<>> # <<"completed">>
      OBVIOUS
    <3>4. \A t \in {<<>>} \cup Terminals : Len(t) <= 1 /\ t # <<"completed">>
      <4>1. 0 <= 1 /\ 1 <= 1
        OBVIOUS
      <4> QED
        BY <3>1, <3>2, <3>3, <4>1, Zenon DEF Terminals
    <3> QED
      BY <3>4
  <2>3. Len(<<"completed">>) <= 1
    OBVIOUS
  <2> QED
    BY <2>1, <2>2, <2>3 DEF CommandOK, Its
<1> QED
  BY <1>1, CompactionAlways, PTL
=============================================================================
