----------------------------- MODULE JournalLog -----------------------------
(***************************************************************************)
(* What the session journal promises its callers: a log of transactions    *)
(* that only grows at its end, whose answers are final.  A transaction     *)
(* reported as committed is in the log, one reported as not committed      *)
(* never will be, and an append that got neither answer may still commit.  *)
(***************************************************************************)
EXTENDS Naturals

CONSTANT ID         \* transaction IDs

VARIABLES
  log,              \* the durable commits: their sequence numbers and IDs
  acked,            \* transactions reported as committed
  denied            \* transactions reported as not committed

logVars == <<log, acked, denied>>

Logged(commits) == {c.txn : c \in commits}

Init == log = {} /\ acked = {} /\ denied = {}

\* Commits are only added, behind every earlier one and under new IDs.
Grow ==
  /\ log \subseteq log'
  /\ \A new \in log' \ log, old \in log' :
       new = old \/ (new.txn # old.txn /\ (old \in log => old.seq < new.seq))

Answer ==
  /\ acked \subseteq acked' /\ acked' \subseteq Logged(log')
  /\ denied \subseteq denied' /\ denied' \cap Logged(log') = {}

Next == Grow /\ Answer

Spec == Init /\ [][Next]_logVars
=============================================================================
