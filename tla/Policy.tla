------------------------------- MODULE Policy -------------------------------
(***************************************************************************)
(* Permission policies of sessions: the mode, the acknowledgement of       *)
(* trusted shells and the grants that internal/permission keeps for each   *)
(* session, how a request is decided from them, how the user's answers     *)
(* change them, and what is left of them after a restart.                  *)
(***************************************************************************)
EXTENDS Naturals

CONSTANTS
  Session,
  Asked    \* the requests that are put to the policies

VARIABLES
  policies,      \* SessionPolicyRegistry.policies: a policy for each registered session
  created,       \* session -> the mode in its metadata, written when it is created
  replays,       \* session -> the mode and the trust that its events replay to
  change,        \* a setting that is committed and not yet applied to its policy
  pending,       \* requests that wait for the user
  allowed,       \* requests that were allowed, each with the source of the decision
  consented,     \* keys that the user allowed for the rest of a session
  acknowledged   \* sessions whose user acknowledged trusted shells

policyVars == <<policies, created, replays, change, pending, allowed, consented, acknowledged>>

Mode == {"safe", "ask", "auto"}

\* authorizationGrantKey: what a grant covers.  r.scope stands for the
\* capability, the tool with its descriptor, the resources and the constraints.
Key(r) == [session |-> r.session, scope |-> r.scope, generation |-> r.generation]

Source == {"platform", "user", "project", "session", "interactive", "runtime_control"}

Grants == {Key(r) : r \in Asked}
SessionPolicy == [mode : Mode, autoShell : BOOLEAN, grants : SUBSET Grants]

-----------------------------------------------------------------------------
(* ResolvePolicy. *)

Or(action, fallback) == IF action = "none" THEN fallback ELSE action

Rank(action) == IF action = "deny" THEN 0 ELSE IF action = "ask" THEN 1 ELSE 2

Narrower(left, right) == IF Rank(right) < Rank(left) THEN right ELSE left

Decided(action, source) == [action |-> action, source |-> source]

\* User and project, the narrower of them: the project never widens.
Ruled(in) ==
  LET user == Or(in.user, "ask")
      project == Or(in.project, "allow")
  IN IF Narrower(user, project) = project /\ project # user
     THEN Decided(project, "project")
     ELSE Decided(user, "user")

\* A rule that asks is settled by the next one that has an answer.
Settled(rule, action, source) ==
  IF rule.action = "ask" /\ action # "none" THEN Decided(action, source) ELSE rule

ResolvePolicy(in) ==
  IF in.hardDeny \/ in.platform = "deny"
  THEN Decided("deny", "platform")
  ELSE Settled(Settled(Ruled(in), in.grant, "session"), in.interactive, "interactive")

-----------------------------------------------------------------------------
(* Facts of a request, which the runtime derives from its descriptor.      *)
(* r.match tells whether the descriptor is that of the request ("exact"),  *)
(* of the mutation that the request previews ("preview"), the frozen one   *)
(* of delegation ("subagent"), or another one; r.shape what the resources  *)
(* are and whether they lie in the workspace.                              *)

DescriptorMatches(r) == r.match = "exact"

RunsProcess(r) ==
  \/ r.locus = "process" \/ r.profile = "unsandboxed"
  \/ DescriptorMatches(r) /\ r.mutation = "process"

Outside(r) ==
  \/ r.boundary \in {"filesystem_external", "network", "remote", "remote_or_unknown"}
  \/ RunsProcess(r) /\ r.shape # "process inside"

\* The shell of a workspace and the files in it, as the descriptor tells them.
LocalProcess(r) ==
  /\ r.mutation = "process" /\ r.locus = "process" /\ r.profile = "unsandboxed"
  /\ r.shape = "process inside"

LocalFile(r) ==
  /\ r.mutation = "file" /\ r.locus \in {"builtin", "local"}
  /\ r.boundary = "workspace" /\ r.shape = "files inside"

Trusted(r) == r.adapter = "trusted_adapter"

TrustedSource(r) == r.source = "builtin"

\* trustedSkillResource: the logical resource of the built-in skill tool.
SkillInside(r) == r.shape = "skill"

Observation(r) ==
  /\ DescriptorMatches(r) /\ Trusted(r)
  /\ r.effect = "observation" /\ r.mutation = "read_only" /\ r.boundary = "workspace"
  /\ r.shape = "files inside" \/ SkillInside(r)

MutationPreview(r) ==
  /\ r.match = "preview" /\ Trusted(r) /\ TrustedSource(r) /\ r.effect = "observation"
  /\ LocalProcess(r) \/ LocalFile(r)

TrustedMutation(r) == DescriptorMatches(r) /\ Trusted(r) /\ TrustedSource(r) /\ r.effect = "mutation"

Orchestration(r) == r.match = "subagent"

\* The binding that runtimeAuthorization configures is the provider's own.
ConfiguredProvider(r) == r.source = "provider" /\ r.effect = "egress" /\ r.boundary = "network"

-----------------------------------------------------------------------------
(* EvaluateAuthorization. *)

SafeAction(r) == IF ~RunsProcess(r) /\ ~Outside(r) /\ Observation(r) THEN "allow" ELSE "deny"

AskAction(r) == IF ~RunsProcess(r) /\ ~Outside(r) /\ Observation(r) THEN "allow" ELSE "ask"

AutoAction(r, autoShell) ==
  IF \/ ~Outside(r) /\ RunsProcess(r) /\ autoShell /\ TrustedMutation(r) /\ LocalProcess(r)
     \/ ~Outside(r) /\ ~RunsProcess(r) /\ (Observation(r) \/ (TrustedMutation(r) /\ LocalFile(r)))
  THEN "allow" ELSE "ask"

ModeAction(p, r) ==
  CASE Orchestration(r) \/ MutationPreview(r) -> "allow"
    [] ~(Orchestration(r) \/ MutationPreview(r)) ->
         CASE p.mode = "safe" -> SafeAction(r)
           [] p.mode = "ask" -> AskAction(r)
           [] p.mode = "auto" -> AutoAction(r, p.autoShell)
           [] OTHER -> "deny"

\* Neither the platform nor a project sets a rule.
Evaluation(p, r) ==
  [hardDeny |-> r.hardDeny, platform |-> "none", project |-> "none",
   user |-> IF ConfiguredProvider(r) THEN "allow" ELSE ModeAction(p, r),
   grant |-> IF Key(r) \in p.grants THEN "allow" ELSE "none",
   interactive |-> "none"]

EvaluateAuthorization(p, r) == ResolvePolicy(Evaluation(p, r))

-----------------------------------------------------------------------------
(* Policies of sessions. *)

NewSession(mode) == [mode |-> mode, autoShell |-> FALSE, grants |-> {}]

\* Trust ends with the auto mode.
SetMode(p, mode) == [p EXCEPT !.mode = mode, !.autoShell = @ /\ (p.mode = "auto" => mode = "auto")]

AcknowledgeAutoShell(p) == [p EXCEPT !.autoShell = @ \/ p.mode = "auto"]

Grant(p, key) == [p EXCEPT !.grants = @ \cup {key}]

\* A setting: a mode, or the acknowledgement of trusted shells.
Applied(p, setting) == IF setting = "trust" THEN AcknowledgeAutoShell(p) ELSE SetMode(p, setting)

With(f, x, v) == [y \in DOMAIN f \cup {x} |-> IF y = x THEN v ELSE f[y]]

Registered(r) == r.session \in DOMAIN policies

NoChange == [session |-> "none", setting |-> "none"]

PolicyTypeOK ==
  /\ policies \in [DOMAIN policies -> SessionPolicy]
  /\ created \in [DOMAIN created -> Mode]
  /\ replays \in [DOMAIN replays -> SessionPolicy]
  /\ change = NoChange \/ change \in [session : Session, setting : Mode \cup {"trust"}]
  /\ pending \subseteq Asked
  /\ allowed \subseteq [request : Asked, by : Source]
  /\ consented \subseteq Grants
  /\ acknowledged \subseteq Session

PolicyInit ==
  /\ policies = [s \in {} |-> {}] /\ created = [s \in {} |-> {}] /\ replays = [s \in {} |-> {}]
  /\ change = NoChange
  /\ pending = {} /\ allowed = {} /\ consented = {} /\ acknowledged = {}

-----------------------------------------------------------------------------
(* Sessions. *)

Create(s, mode) ==
  /\ s \notin DOMAIN created
  /\ created' = With(created, s, mode)
  /\ replays' = With(replays, s, NewSession(mode))

CreateSession(s, mode) ==
  /\ Create(s, mode)
  /\ UNCHANGED <<policies, change, pending, allowed, consented, acknowledged>>

\* Restore: a selected session gets the policy that its events replay to.
\* No grant of an authorization is among them.
Restore(s) ==
  /\ change = NoChange
  /\ s \in DOMAIN replays
  /\ policies' = With(policies, s, replays[s])
  /\ UNCHANGED <<created, replays, change, pending, allowed, consented, acknowledged>>

\* A child starts, or is resumed, in the mode of its parent's metadata.
RunChild(s, parent) ==
  /\ parent \in DOMAIN policies \cap DOMAIN created /\ s # parent
  /\ policies' = With(policies, s, NewSession(created[parent]))
  /\ \/ Create(s, created[parent])
     \/ UNCHANGED <<created, replays>>   \* it exists, or it cannot be created
  /\ UNCHANGED <<change, pending, allowed, consented, acknowledged>>

-----------------------------------------------------------------------------
(* Settings: committed to the session's journal first, then applied. *)

CommitSetting(s, setting) ==
  /\ change = NoChange
  /\ s \in DOMAIN policies \cap DOMAIN replays
  /\ setting = "trust" => replays[s].mode = "auto"
  /\ replays' = [replays EXCEPT ![s] = Applied(@, setting)]
  /\ change' = [session |-> s, setting |-> setting]
  /\ acknowledged' = IF setting = "trust" THEN acknowledged \cup {s} ELSE acknowledged
  /\ UNCHANGED <<policies, created, pending, allowed, consented>>

ApplySetting ==
  /\ change # NoChange
  /\ change.session \in DOMAIN policies
  /\ policies' = [policies EXCEPT ![change.session] = Applied(@, change.setting)]
  /\ change' = NoChange
  /\ UNCHANGED <<created, replays, pending, allowed, consented, acknowledged>>

-----------------------------------------------------------------------------
(* Decisions.  A request that is denied changes nothing. *)

Allows(r, source) == allowed' = allowed \cup {[request |-> r, by |-> source]}

\* Operations of the runtime's own control journal are not put to a policy.
DecideControl(r) ==
  /\ r.source = "runtime"
  /\ Allows(r, "runtime_control")
  /\ UNCHANGED <<policies, created, replays, change, pending, consented, acknowledged>>

Decide(r) ==
  /\ r.source # "runtime" /\ Registered(r)
  /\ LET decision == EvaluateAuthorization(policies[r.session], r) IN
     \/ decision.action = "allow" /\ Allows(r, decision.source) /\ UNCHANGED pending
     \/ decision.action = "ask" /\ pending' = pending \cup {r} /\ UNCHANGED allowed
  /\ UNCHANGED <<policies, created, replays, change, consented, acknowledged>>

\* ResolveInteractive: the user allows a request once.
ResolveOnce(r) ==
  /\ r \in pending
  /\ pending' = pending \ {r}
  /\ Allows(r, "interactive")
  /\ UNCHANGED <<policies, created, replays, change, consented, acknowledged>>

\* For the rest of the session: the policy of the moment gets the grant.
ResolveForSession(r) ==
  /\ r \in pending /\ Registered(r)
  /\ pending' = pending \ {r}
  /\ Allows(r, "interactive")
  /\ consented' = consented \cup {Key(r)}
  /\ policies' = [policies EXCEPT ![r.session] = Grant(@, Key(r))]
  /\ UNCHANGED <<created, replays, change, acknowledged>>

\* The user denies it, or its turn is cancelled.
Refuse(r) ==
  /\ r \in pending
  /\ pending' = pending \ {r}
  /\ UNCHANGED <<policies, created, replays, change, allowed, consented, acknowledged>>

\* The process ends: only what the journals hold is left.
Restart ==
  /\ policies' = [s \in {} |-> {}]
  /\ change' = NoChange
  /\ pending' = {}
  /\ UNCHANGED <<created, replays, allowed, consented, acknowledged>>

PolicyNext ==
  \/ \E s \in Session : \/ Restore(s)
                        \/ \E mode \in Mode : CreateSession(s, mode)
                        \/ \E parent \in Session : RunChild(s, parent)
                        \/ \E setting \in Mode \cup {"trust"} : CommitSetting(s, setting)
  \/ ApplySetting
  \/ \E r \in Asked : \/ DecideControl(r) \/ Decide(r)
                      \/ ResolveOnce(r) \/ ResolveForSession(r) \/ Refuse(r)
  \/ Restart

PolicySpec == PolicyInit /\ [][PolicyNext]_policyVars

-----------------------------------------------------------------------------
(* Properties. *)

\* An effect that leaves the workspace or runs a process.  Delegation, a
\* preview and the configured provider's own traffic are allowed in any mode.
Reaches(r) ==
  /\ RunsProcess(r) \/ Outside(r)
  /\ ~Orchestration(r) /\ ~MutationPreview(r) /\ ~ConfiguredProvider(r)
  /\ r.source # "runtime"

\* Whatever modes, children and restarts came between, a request that
\* runs a process or leaves the workspace was allowed by the user of its own
\* session: by an answer to it, by one to a request with the same key, or by
\* the acknowledgement of trusted shells (SessionPolicyRegistry: a parent
\* acknowledgement or grant must not cross a session boundary).
NothingUnasked ==
  \A a \in allowed : Reaches(a.request) =>
    \/ a.by = "interactive"
    \/ Key(a.request) \in consented
    \/ a.request.session \in acknowledged

\* Trust in shells does not outlive the auto mode it was given in, in a policy
\* and in what a restart makes of the journal (SetMode).
TrustEndsWithAuto ==
  /\ \A s \in DOMAIN policies : policies[s].autoShell => policies[s].mode = "auto"
  /\ \A s \in DOMAIN replays : replays[s].autoShell => replays[s].mode = "auto"

\* While a policy is in safe mode it lets no process run and nothing leave the
\* workspace, whatever was granted or acknowledged before; only an answer to a
\* question that was put earlier still counts (modeAuthorizationAction).
SafeModeHolds ==
  [][\A a \in allowed' \ allowed :
       /\ a.request.session \in DOMAIN policies
       /\ policies[a.request.session].mode = "safe"
       => a.by = "interactive" \/ ~Reaches(a.request)]_policyVars
=============================================================================
