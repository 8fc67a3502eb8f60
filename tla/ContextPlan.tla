---------------------------- MODULE ContextPlan ----------------------------
(***************************************************************************)
(* What goes to the model, and what a compaction may summarise: the pure   *)
(* parts of internal/context (planner.go, summary_resolver.go) and         *)
(* internal/compaction (selector.go, policy.go).                           *)
(*                                                                         *)
(* A session log is the sequence of its events that these functions look   *)
(* at, each with its position among all the committed events; the events   *)
(* between them are facts that only take room.  Every source has size one, *)
(* and the bytes of a summariser's input are counted in events.            *)
(***************************************************************************)
EXTENDS Naturals, Sequences, FiniteSets, FiniteSetsExt, SequencesExt

CONSTANTS
  Suffix,      \* recentSuffixEvents
  InputLimit,  \* DefaultManualInputBytes, in events
  Window,      \* the context window of the model, in sources
  Reserve      \* Policy.CompactReserveTokens, in sources

ASSUME ContextAssumption ==
  /\ {Suffix, InputLimit, Window, Reserve} \subseteq Nat
  /\ 0 < Reserve /\ Reserve < Window

\* An event: n is the number of calls of an assistant message, the call a tool
\* message answers, 1 for the end of a completed turn, or the evidence of a
\* compaction of the positions from .. thru.
Event(at, kind, turn, n) == [at |-> at, kind |-> kind, turn |-> turn, n |-> n, from |-> 0, thru |-> 0]
Compacted(at, turn, n, range) ==
  [at |-> at, kind |-> "compacted", turn |-> turn, n |-> n, from |-> range.from, thru |-> range.thru]

Indices(l, kinds) == {i \in DOMAIN l : l[i].kind \in kinds}

-----------------------------------------------------------------------------
(* Tool exchanges: an assistant message with calls, up to the last answer. *)

Calling(l) == {i \in Indices(l, {"assistant"}) : l[i].n > 0}

\* The tool messages before the next message of the user or the assistant.
Answers(l, i) ==
  {j \in Indices(l, {"tool"}) : i < j /\ \A k \in (i + 1) .. j : l[k].kind \notin {"user", "assistant"}}

Answered(l, i) == {l[j].n : j \in Answers(l, i)} = 1 .. l[i].n
EndsOf(l, i) == {j \in Indices(l, {"end"}) : i < j /\ l[j].turn = l[i].turn}

\* No answer is late, unknown or repeated, and only the calls of a turn that
\* has ended since may go without.
Matched(l) ==
  /\ \A j \in Indices(l, {"tool"}) : \E i \in Calling(l) : j \in Answers(l, i) /\ l[j].n \in 1 .. l[i].n
  /\ \A i \in Calling(l) : \A j, k \in Answers(l, i) : l[j].n = l[k].n => j = k
  /\ \A i \in Calling(l) : Answered(l, i) \/ EndsOf(l, i) # {}

ExchangeOf(l, i) ==
  [from |-> l[i].at,
   thru |-> Max({l[j].at : j \in IF Answered(l, i) THEN Answers(l, i) ELSE EndsOf(l, i)})]

\* A cut behind position p separates a call from an answer.
Splits(l, p) == \E i \in Calling(l) : ExchangeOf(l, i).from <= p /\ p < ExchangeOf(l, i).thru

-----------------------------------------------------------------------------
(* The range a compaction summarises.                                      *)

\* A cutoff that is taken as it is.
SafeCutoffUnmoved(l, p) == p

\* exchangeSafeCutoff: in front of an exchange it would split.
SafeCutoff(l, p) == Max({q \in 0 .. p : ~ Splits(l, q)})

\* exchangeSafeStart: behind an exchange it would split.
SafeStart(l, head, p) == Min({q \in p .. head + 1 : ~ Splits(l, q - 1)})

\* latestCompactionThrough, and one further.
FirstUnsummarised(l) == 1 + Max({0} \cup {l[i].thru : i \in Indices(l, {"compacted"})})

Cutoff(l, head) == SafeCutoff(l, head - Suffix)
First(l, head) == SafeStart(l, head, FirstUnsummarised(l))

\* activeSafetyFacts: the contract of a turn stays open unless the turn completes.
\* (The task of a running turn is the event beside its contract.)
OpenFacts(l) ==
  {l[i].at : i \in {i \in Indices(l, {"contract"}) :
                      ~ \E j \in EndsOf(l, i) : l[j].n = 1}}

\* What the summariser is given for the range that begins at s: the range, all
\* that follows it, and the open facts before it.
InputSize(l, head, s) == (head + 1 - s) + Cardinality({p \in OpenFacts(l) : p < s})

\* boundedSelection walks back from the cutoff, one exchange or event at a time.
Starts(l, head) ==
  {s \in First(l, head) .. Cutoff(l, head) : ~ Splits(l, s - 1) /\ InputSize(l, head, s) <= InputLimit}

SelectionOutcome(l, head) ==
  IF ~ Matched(l) THEN "broken"
  ELSE IF head <= Suffix \/ First(l, head) > Cutoff(l, head) THEN "nothing"
  ELSE IF Starts(l, head) = {} THEN "too large" ELSE "range"

Select(l, head) == [from |-> Min(Starts(l, head)), thru |-> Cutoff(l, head)]

-----------------------------------------------------------------------------
(* The sources of a request.                                               *)

\* adaptEvents: the latest compaction whose evidence resolves; 0 for none.
Resolved(l, stored) == Max({0} \cup {i \in Indices(l, {"compacted"}) : l[i].n \in stored})

Covered(l, c, i) == c # 0 /\ l[c].from <= l[i].at /\ l[i].at <= l[c].thru

\* adaptEventSuffix and groupContextSources report no error: the transcript is
\* matched, the summary stands in no exchange, and every exchange is left out as
\* a whole or kept as a whole.
Plannable(l, c) ==
  /\ Matched(l)
  /\ \A i \in Calling(l) : \A j \in Answers(l, i) :
       /\ ~ (i < c /\ c < j)
       /\ Covered(l, c, i) = Covered(l, c, j)

\* The sources in order, an assistant message with the answers to its calls; a
\* call without an answer counts for the one made up for it.
Groups(l, c) ==
  SelectSeq([i \in DOMAIN l |-> i],
    LAMBDA i : i = c \/ (l[i].kind \in {"user", "assistant"} /\ ~ Covered(l, c, i)))

GroupSize(l, i) == IF l[i].kind = "assistant" THEN 1 + l[i].n ELSE 1

\* Plan: a group that does not fit is left out, and the next one is tried.
Plan(l, c) ==
  FoldLeft(LAMBDA plan, i :
             IF plan.used + GroupSize(l, i) > Window THEN plan
             ELSE [used |-> plan.used + GroupSize(l, i), shown |-> plan.shown \cup {i}],
           [used |-> 0, shown |-> {}], Groups(l, c))

\* compaction.Evaluate, with the output reserve of zero that the service asks for.
ShouldCompact(plan) == plan.used >= Window - Reserve
=============================================================================
