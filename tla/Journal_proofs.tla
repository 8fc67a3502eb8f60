--------------------------- MODULE Journal_proofs ---------------------------
(***************************************************************************)
(* Proofs about Journal for any number of processes, transactions and      *)
(* recoveries and every bound.                                             *)
(*                                                                         *)
(* The argument is about three things: the lines of one file, which are    *)
(* never fatal (Sound); the two files a session directory may stand for,   *)
(* of which the one processes see holds, durably, every commit of the one  *)
(* power loss would leave (Behind); and what the process that holds the    *)
(* flock has reached (Appender, Recovers).  JournalLog is implemented      *)
(* because every step leaves a durable log that covers the one before.     *)
(***************************************************************************)
EXTENDS Journal, SequenceTheorems, TLAPS

-----------------------------------------------------------------------------
(* The lines of a file.                                                    *)

IsTorn(line) == line.kind = "torn"
IsLegacy(line) == line.kind = "legacy"
IsMarker(line) == line.kind = "marker"
IsDeclared(line) == line.kind = "declared"

\* No append and no recovery finds the journal unusable.
Sound(lines) == lines \in Seq(Line) /\ ~ Fatal(lines)

Same(X, Y, n) == n <= Len(X) /\ n <= Len(Y) /\ \A k \in 1 .. n : X[k] = Y[k]
NoMarkers(X, h) == \A j \in h + 1 .. Len(X) : ~ IsMarker(X[j])

\* Every commit of X is in Y, at its line.
Covers(Y, X, h) == h \in Nat /\ Same(X, Y, h) /\ NoMarkers(X, h)

Marked(lines, t) == \E i \in 1 .. Len(lines) : IsMarker(lines[i]) /\ lines[i].txn = t

\* A line is of one kind.
LEMMA LineKinds ==
  ASSUME NEW line \in Line
  PROVE  /\ IsTorn(line) \/ IsLegacy(line) \/ IsMarker(line) \/ Opens(line)
         /\ ~ (IsTorn(line) /\ (IsLegacy(line) \/ IsMarker(line) \/ Opens(line)))
         /\ ~ (IsLegacy(line) /\ (IsMarker(line) \/ Opens(line)))
         /\ ~ (IsMarker(line) /\ Opens(line))
         /\ Commits(line) <=> IsLegacy(line) \/ IsMarker(line)
         /\ IsDeclared(line) => Opens(line)
BY DEF Line, IsTorn, IsLegacy, IsMarker, IsDeclared, Opens, Commits

LEMMA MadeLines ==
  ASSUME NEW t \in ID
  PROVE  /\ \A k \in {"legacy", "declared", "events", "marker", "torn"} :
              Mk(k, t) \in Line /\ Mk(k, t).txn = t
         /\ IsMarker(Mk("marker", t)) /\ IsTorn(Mk("torn", t))
         /\ Opens(Mk("declared", t)) /\ Opens(Mk("events", t))
         /\ IsDeclared(Mk("declared", t)) /\ ~ IsDeclared(Mk("events", t))
BY DEF Line, Mk, IsMarker, IsTorn, Opens, IsDeclared

\* A commit marker of t is a line of its kind with this transaction.
LEMMA MarkerIs ==
  ASSUME NEW line \in Line, NEW t \in ID
  PROVE  line = Mk("marker", t) <=> IsMarker(line) /\ line.txn = t
BY DEF Line, Mk, IsMarker

LEMMA MarkerAtIs ==
  ASSUME NEW X \in Seq(Line), NEW i, NEW t \in ID
  PROVE  MarkerAt(X, i, t) <=> i \in 1 .. Len(X) /\ IsMarker(X[i]) /\ X[i].txn = t
<1>1. i \in 1 .. Len(X) => X[i] \in Line
  BY ElementOfSeq
<1> QED BY <1>1, MarkerIs DEF MarkerAt

TransitionAt(X, i) == IsDeclared(X[i - 1]) <=> \A j \in 1 .. i - 1 : ~ IsMarker(X[j])
Refused(X, i) ==
  \/ IsTorn(X[i])
  \/ IsLegacy(X[i]) /\ \E j \in 1 .. i - 1 : ~ IsLegacy(X[j])
  \/ Opens(X[i]) /\ \E j \in 1 .. i - 1 :
       \/ j = i - 1 /\ Opens(X[j])
       \/ ~ IsLegacy(X[j]) /\ X[j].txn = X[i].txn
  \/ IsMarker(X[i]) /\
       ~ (i > 1 /\ Opens(X[i - 1]) /\ X[i - 1].txn = X[i].txn /\ TransitionAt(X, i))

LEMMA RejectedIs ==
  ASSUME NEW X, NEW i
  PROVE  Rejected(X, i) <=> Refused(X, i)
BY DEF Rejected, Refused, TransitionOK, TransitionAt, IsTorn, IsLegacy, IsMarker, IsDeclared

\* Whether a line is rejected depends on the lines up to it.
LEMMA RejectedLocally ==
  ASSUME NEW X \in Seq(Line), NEW Y \in Seq(Line), NEW n \in Nat, Same(X, Y, n), NEW i \in 1 .. n
  PROVE  Rejected(X, i) <=> Rejected(Y, i)
<1>1. X[i] = Y[i] /\ \A j \in 1 .. i - 1 : X[j] = Y[j]
  BY DEF Same
<1>2. i > 1 => X[i - 1] = Y[i - 1]
  BY <1>1
<1>3. i > 1 => (TransitionAt(X, i) <=> TransitionAt(Y, i))
  BY <1>1, <1>2 DEF TransitionAt
<1>4. Refused(X, i) <=> Refused(Y, i)
  BY <1>1, <1>2, <1>3 DEF Refused
<1> QED BY <1>4, RejectedIs

LEMMA SoundIs ==
  ASSUME NEW X
  PROVE  Sound(X) <=> /\ X \in Seq(Line)
                      /\ \A i \in 1 .. Len(X) : Rejected(X, i) => i = Len(X) /\ IsTorn(X[i])
BY DEF Sound, Fatal, IsTorn

\* Only the last line can be torn.
LEMMA TornIsLast ==
  ASSUME NEW X, Sound(X), NEW i \in 1 .. Len(X), IsTorn(X[i])
  PROVE  i = Len(X)
<1>1. Rejected(X, i)
  BY RejectedIs DEF Refused
<1> QED BY <1>1, SoundIs

\* A part of a sound journal is sound, with a fragment behind it as well.
LEMMA SoundCut ==
  ASSUME NEW X, Sound(X), NEW Y \in Seq(Line), NEW n \in Nat, Same(X, Y, n),
         \/ Len(Y) = n
         \/ Len(Y) = n + 1 /\ IsTorn(Y[n + 1]) /\ (n = Len(X) => n = 0 \/ ~ IsTorn(X[n]))
  PROVE  Sound(Y)
<1>1. X \in Seq(Line) /\ Len(X) \in Nat /\ Len(Y) \in Nat
  BY SoundIs, LenProperties
<1>2. \A i \in 1 .. n : Rejected(Y, i) => i = Len(X) /\ IsTorn(X[i]) /\ X[i] = Y[i]
  <2> SUFFICES ASSUME NEW i \in 1 .. n, Rejected(Y, i)
               PROVE  i = Len(X) /\ IsTorn(X[i]) /\ X[i] = Y[i]
    OBVIOUS
  <2>1. Rejected(X, i)
    BY <1>1, RejectedLocally
  <2>2. i \in 1 .. Len(X) /\ X[i] = Y[i]
    BY <1>1 DEF Same
  <2> QED BY <2>1, <2>2, SoundIs
<1>3. \A i \in 1 .. Len(Y) : Rejected(Y, i) => i = Len(Y) /\ IsTorn(Y[i])
  <2> SUFFICES ASSUME NEW i \in 1 .. Len(Y), Rejected(Y, i)
               PROVE  i = Len(Y) /\ IsTorn(Y[i])
    OBVIOUS
  <2>1. CASE i = n + 1
    BY <1>1, <2>1
  <2>2. CASE i \in 1 .. n
    <3>1. i = Len(X) /\ IsTorn(X[i]) /\ IsTorn(Y[i])
      BY <1>2, <2>2
    <3>2. n <= Len(X)
      BY DEF Same
    <3>3. i = n
      BY <1>1, <2>2, <3>1, <3>2
    <3> QED BY <1>1, <2>2, <3>1, <3>3
  <2> QED BY <1>1, <2>1, <2>2
<1> QED BY <1>3, SoundIs

\* A line that fits goes behind a sound journal without a fragment.
LEMMA SoundAppend ==
  ASSUME NEW X, Sound(X), Len(X) > 0 => ~ IsTorn(X[Len(X)]),
         NEW line \in Line, ~ Rejected(Append(X, line), Len(X) + 1) \/ IsTorn(line)
  PROVE  Sound(Append(X, line))
<1> DEFINE Y == Append(X, line)
<1>1. X \in Seq(Line) /\ Len(X) \in Nat
  BY SoundIs, LenProperties
<1>2. Y \in Seq(Line) /\ Len(Y) = Len(X) + 1 /\ Y[Len(X) + 1] = line /\ Same(X, Y, Len(X))
  BY <1>1, AppendProperties DEF Same
<1> HIDE DEF Y
<1>3. \A i \in 1 .. Len(Y) : Rejected(Y, i) => i = Len(Y) /\ IsTorn(Y[i])
  <2> SUFFICES ASSUME NEW i \in 1 .. Len(Y), Rejected(Y, i)
               PROVE  i = Len(Y) /\ IsTorn(Y[i])
    OBVIOUS
  <2>1. CASE i = Len(X) + 1
    BY <1>2, <2>1 DEF Y
  <2>2. CASE i \in 1 .. Len(X)
    <3>1. Rejected(X, i)
      BY <1>1, <1>2, <2>2, RejectedLocally
    <3> QED BY <1>1, <2>2, <3>1, SoundIs
  <2> QED BY <1>1, <1>2, <2>1, <2>2
<1> QED BY <1>2, <1>3, SoundIs DEF Y

\* Of a sound journal the scan reaches every line but a final fragment.
LEMMA SoundScanned ==
  ASSUME NEW X, Sound(X), NEW i \in 1 .. Len(X), ~ IsTorn(X[i])
  PROVE  Scanned(X, i)
<1>1. Len(X) \in Nat
  BY SoundIs, LenProperties
<1>2. \A j \in 1 .. i : ~ Rejected(X, j)
  BY <1>1, SoundIs
<1> QED BY <1>2 DEF Scanned

LEMMA CommittedIs ==
  ASSUME NEW X, Sound(X), NEW t \in ID
  PROVE  IsCommitted(X, t) <=> Marked(X, t)
<1>1. X \in Seq(Line)
  BY SoundIs
<1>2. \A i \in 1 .. Len(X) : IsMarker(X[i]) => Scanned(X, i)
  <2> TAKE i \in 1 .. Len(X)
  <2>1. IsMarker(X[i]) => ~ IsTorn(X[i])
    BY <1>1, ElementOfSeq, LineKinds
  <2> QED BY <2>1, SoundScanned
<1> QED BY <1>1, <1>2, MarkerAtIs DEF IsCommitted, Marked

\* Behind the committed head of a sound journal there is no marker.
LEMMA HeadIsLast ==
  ASSUME NEW X, Sound(X), NEW h, IsHead(X, h)
  PROVE  h \in 1 .. Len(X) /\ ~ IsTorn(X[h]) /\ NoMarkers(X, h)
<1>1. X \in Seq(Line) /\ Len(X) \in Nat /\ h \in 1 .. Len(X) /\ Commits(X[h])
  BY SoundIs, LenProperties DEF IsHead
<1>2. \A j \in 1 .. Len(X) : X[j] \in Line
  BY <1>1, ElementOfSeq
<1>3. \A j \in h + 1 .. Len(X) : j \in 1 .. Len(X) /\ ~ (Commits(X[j]) /\ Scanned(X, j))
  BY <1>1 DEF IsHead
<1>4. ~ IsTorn(X[h])
  BY <1>1, <1>2, LineKinds
<1>5. \A j \in h + 1 .. Len(X) : ~ IsMarker(X[j])
  BY <1>2, <1>3, LineKinds, SoundScanned
<1> QED BY <1>1, <1>4, <1>5 DEF NoMarkers

\* A transaction commits once.
LEMMA MarkersDiffer ==
  ASSUME NEW X, Sound(X), NEW i \in 1 .. Len(X), NEW j \in 1 .. Len(X),
         IsMarker(X[i]), IsMarker(X[j]), X[i].txn = X[j].txn
  PROVE  i = j
<1>1. X \in Seq(Line) /\ Len(X) \in Nat
  BY SoundIs, LenProperties
<1>2. \A k \in 1 .. Len(X) : X[k] \in Line
  BY <1>1, ElementOfSeq
<1>3. ASSUME NEW a \in 1 .. Len(X), NEW b \in 1 .. Len(X), a < b,
             IsMarker(X[a]), IsMarker(X[b]), X[a].txn = X[b].txn
      PROVE  FALSE
  <2>1. ~ Rejected(X, b)
    BY <1>2, <1>3, LineKinds, SoundIs
  <2>2. b > 1 /\ Opens(X[b - 1]) /\ X[b - 1].txn = X[b].txn
    BY <1>3, <2>1, RejectedIs DEF Refused
  <2>3. b - 1 \in 1 .. Len(X)
    BY <1>1, <2>2
  <2>4. a # b - 1
    BY <1>2, <1>3, <2>2, <2>3, LineKinds
  <2>5. a \in 1 .. (b - 1) - 1
    BY <1>1, <1>3, <2>4
  <2>6. ~ IsLegacy(X[a])
    BY <1>2, <1>3, LineKinds
  <2>7. Rejected(X, b - 1)
    BY <1>3, <2>2, <2>5, <2>6, RejectedIs DEF Refused
  <2>8. ~ IsTorn(X[b - 1])
    BY <1>2, <2>2, <2>3, LineKinds
  <2> QED BY <2>3, <2>7, <2>8, SoundIs
<1> QED BY <1>1, <1>3

\* What AppendBatch writes for a fresh transaction behind a writable journal fits.
LEMMA FreshFits ==
  ASSUME NEW X, Sound(X), Writable(X), NEW t \in ID, ~ IsCommitted(X, t)
  PROVE  Sound(Append(Append(X, OpenLine(X, t)), Mk("marker", t)))
<1> DEFINE o == OpenLine(X, t)
           Y == Append(X, o)
           m == Mk("marker", t)
           Z == Append(Y, m)
           n == Len(X)
<1>1. X \in Seq(Line) /\ n \in Nat
  BY SoundIs, LenProperties
<1>2. \A k \in 1 .. n : X[k] \in Line
  BY <1>1, ElementOfSeq
<1>3. n \in 1 .. n /\ Commits(X[n]) /\ (\A j \in 1 .. n : ~ Rejected(X, j))
  BY DEF Writable, IsHead, Scanned
<1>4. ~ Marked(X, t)
  BY CommittedIs
<1>5. \A j \in 1 .. n : ~ IsTorn(X[j])
  BY <1>3, RejectedIs DEF Refused
\* Every open line has its marker behind it.
<1>6. \A j \in 1 .. n : ~ IsLegacy(X[j]) => X[j].txn # t
  <2> SUFFICES ASSUME NEW j \in 1 .. n, ~ IsLegacy(X[j]), X[j].txn = t
               PROVE  FALSE
    OBVIOUS
  <2>1. CASE IsMarker(X[j])
    BY <1>4, <2>1 DEF Marked
  <2>2. CASE Opens(X[j])
    <3>1. j # n
      BY <1>2, <1>3, <2>2, LineKinds
    <3>2. j + 1 \in 1 .. n /\ j \in 1 .. (j + 1) - 1 /\ (j + 1) - 1 = j
      BY <1>1, <3>1
    <3>3. ~ Rejected(X, j + 1)
      BY <1>3, <3>2
    <3>4. ~ IsLegacy(X[j + 1])
      BY <3>2, <3>3, RejectedIs DEF Refused
    <3>5. ~ Opens(X[j + 1])
      BY <2>2, <3>2, <3>3, RejectedIs DEF Refused
    <3>6. IsMarker(X[j + 1])
      BY <1>2, <1>5, <3>2, <3>4, <3>5, LineKinds
    <3>7. X[j + 1].txn = t
      BY <3>2, <3>3, <3>6, RejectedIs DEF Refused
    <3> QED BY <1>4, <3>2, <3>6, <3>7 DEF Marked
  <2> QED BY <1>2, <1>5, <2>1, <2>2, LineKinds
<1>7. /\ o \in Line /\ Opens(o) /\ o.txn = t /\ ~ IsTorn(o) /\ ~ IsLegacy(o) /\ ~ IsMarker(o)
      /\ IsDeclared(o) <=> \A j \in 1 .. n : ~ IsMarker(X[j])
  <2>1. IsDeclared(o) <=> \A j \in 1 .. n : ~ IsMarker(X[j])
    BY MadeLines DEF OpenLine, IsMarker
  <2>2. o \in Line /\ Opens(o) /\ o.txn = t
    BY MadeLines DEF OpenLine
  <2> QED BY <2>1, <2>2, LineKinds
<1>8. m \in Line /\ IsMarker(m) /\ m.txn = t /\ ~ IsTorn(m) /\ ~ IsLegacy(m) /\ ~ Opens(m)
  BY MadeLines, LineKinds
<1> HIDE DEF o, m
<1>9. /\ Y \in Seq(Line) /\ Len(Y) = n + 1 /\ Y[n + 1] = o
      /\ \A k \in 1 .. n : Y[k] = X[k]
  BY <1>1, <1>7, AppendProperties
<1> HIDE DEF Y
<1>10. /\ Z \in Seq(Line) /\ Len(Z) = n + 2 /\ Z[n + 2] = m /\ Z[n + 1] = o
       /\ \A k \in 1 .. n : Z[k] = X[k]
  <2>1. /\ Z \in Seq(Line) /\ Len(Z) = Len(Y) + 1 /\ Z[Len(Y) + 1] = m
        /\ \A k \in 1 .. Len(Y) : Z[k] = Y[k]
    BY <1>8, <1>9, AppendProperties
  <2> QED BY <1>1, <1>9, <2>1
<1> HIDE DEF Z, n
<1>11. ~ Rejected(Y, n + 1)
  <2>1. \A j \in 1 .. n : ~ (j = n /\ Opens(Y[j])) /\ ~ (~ IsLegacy(Y[j]) /\ Y[j].txn = t)
    BY <1>2, <1>3, <1>6, <1>9, LineKinds
  <2>2. 1 .. (n + 1) - 1 = 1 .. n /\ (n + 1) - 1 = n
    BY <1>1
  <2> QED BY <1>7, <1>9, <2>1, <2>2, RejectedIs DEF Refused
<1>12. Sound(Y)
  BY <1>3, <1>5, <1>7, <1>9, <1>11, SoundAppend DEF Y, n
<1>13. ~ Rejected(Z, n + 2)
  <2>1. n + 2 > 1 /\ (n + 2) - 1 = n + 1 /\ 1 .. (n + 2) - 1 = 1 .. n \cup {n + 1}
    BY <1>1
  <2>2. TransitionAt(Z, n + 2)
    BY <1>7, <1>10, <2>1 DEF TransitionAt
  <2> QED BY <1>7, <1>8, <1>10, <2>1, <2>2, RejectedIs DEF Refused
<1>14. Len(Y) + 1 = n + 2
  BY <1>1, <1>9
<1>15. Len(Y) > 0 => ~ IsTorn(Y[Len(Y)])
  BY <1>7, <1>9
<1> QED BY <1>8, <1>12, <1>13, <1>14, <1>15, SoundAppend DEF Z, Y, m, o

\* What is in front of a line of a sound journal ends in no fragment.
LEMMA FrontIsSound ==
  ASSUME NEW X \in Seq(Line), NEW line \in Line, Sound(Append(X, line)), NEW t \in ID
  PROVE  /\ Sound(X) /\ Sound(Append(X, Mk("torn", t)))
         /\ Len(X) > 0 => ~ IsTorn(X[Len(X)])
<1> DEFINE Y == Append(X, line)
           n == Len(X)
<1>1. /\ n \in Nat /\ Y \in Seq(Line) /\ Len(Y) = n + 1 /\ Same(Y, X, n)
      /\ \A k \in 1 .. n : Y[k] = X[k]
  BY AppendProperties, LenProperties DEF Same
<1> HIDE DEF Y
<1>2. Sound(X)
  BY <1>1, SoundCut DEF Y
<1>3. n > 0 => ~ IsTorn(X[n])
  <2> SUFFICES ASSUME n > 0, IsTorn(X[n]) PROVE FALSE
    OBVIOUS
  <2>1. n \in 1 .. Len(Y) /\ IsTorn(Y[n])
    BY <1>1
  <2>2. n = Len(Y)
    BY <2>1, TornIsLast DEF Y
  <2> QED BY <1>1, <2>2
<1>4. Sound(Append(X, Mk("torn", t)))
  BY <1>2, <1>3, MadeLines, SoundAppend
<1> QED BY <1>2, <1>3, <1>4

-----------------------------------------------------------------------------
(* One journal covers another.                                             *)

LEMMA CoversItself ==
  ASSUME NEW X \in Seq(Line)
  PROVE  Covers(X, X, Len(X))
BY LenProperties DEF Covers, Same, NoMarkers

LEMMA CoversTransitively ==
  ASSUME NEW X \in Seq(Line), NEW Y \in Seq(Line), NEW Z \in Seq(Line),
         NEW g \in Nat, NEW h \in Nat, Covers(Y, X, g), Covers(Z, Y, h)
  PROVE  \E k \in Nat : k <= g /\ k <= h /\ Covers(Z, X, k)
<1>1. Len(X) \in Nat /\ Len(Y) \in Nat /\ Len(Z) \in Nat
  BY LenProperties
<1>2. CASE g <= h
  <2>1. Covers(Z, X, g)
    BY <1>1, <1>2 DEF Covers, Same
  <2> QED BY <1>2, <2>1
<1>3. CASE h < g
  <2>1. Same(X, Z, h)
    BY <1>1, <1>3 DEF Covers, Same
  <2>2. NoMarkers(X, h)
    <3> SUFFICES ASSUME NEW j \in h + 1 .. Len(X), IsMarker(X[j]) PROVE FALSE
      BY DEF NoMarkers
    <3>1. CASE j <= g
      <4>1. j \in 1 .. g /\ j \in h + 1 .. Len(Y)
        BY <1>1, <3>1 DEF Covers, Same
      <4> QED BY <4>1 DEF Covers, Same, NoMarkers
    <3>2. CASE j > g
      <4>1. j \in g + 1 .. Len(X)
        BY <1>1, <3>2
      <4> QED BY <4>1 DEF Covers, NoMarkers
    <3> QED BY <1>1, <3>1, <3>2
  <2> QED BY <1>3, <2>1, <2>2 DEF Covers
<1> QED BY <1>2, <1>3

LEMMA CoversMarked ==
  ASSUME NEW X \in Seq(Line), NEW Y \in Seq(Line), NEW h, Covers(Y, X, h), NEW t, Marked(X, t)
  PROVE  Marked(Y, t)
<1>1. PICK i \in 1 .. Len(X) : IsMarker(X[i]) /\ X[i].txn = t
  BY DEF Marked
<1>2. i \in 1 .. h
  BY <1>1, LenProperties DEF Covers, NoMarkers
<1> QED BY <1>1, <1>2, LenProperties DEF Covers, Same, Marked

LEMMA PrefixIs ==
  ASSUME NEW X \in Seq(Line), NEW n \in 0 .. Len(X)
  PROVE  Prefix(X, n) \in Seq(Line) /\ Len(Prefix(X, n)) = n /\ Same(X, Prefix(X, n), n)
<1>1. Len(X) \in Nat /\ n \in Nat /\ \A i \in 1 .. n : X[i] \in Line
  BY ElementOfSeq, LenProperties
<1>2. /\ Prefix(X, n) \in Seq(Line)
      /\ Len(Prefix(X, n)) = IF 1 <= n THEN n - 1 + 1 ELSE 0
      /\ \A i \in 1 .. n - 1 + 1 : Prefix(X, n)[i] = X[1 + i - 1]
  BY <1>1, SubSeqProperties DEF Prefix
<1> QED BY <1>1, <1>2 DEF Same

LEMMA ExtendsIs ==
  ASSUME NEW X \in Seq(Line), NEW Y \in Seq(Line), Extends(X, Y)
  PROVE  Len(Y) \in 0 .. Len(X) /\ Same(X, Y, Len(Y))
<1>1. Len(Y) \in 0 .. Len(X) /\ Prefix(X, Len(Y)) = Y
  BY LenProperties DEF Extends
<1> QED BY <1>1, PrefixIs

\* A prefix that holds the head covers the journal, and the other way round.
LEMMA HeadCovers ==
  ASSUME NEW X, Sound(X), NEW Y \in Seq(Line), Extends(X, Y), IsHead(X, Len(Y))
  PROVE  Covers(Y, X, Len(Y)) /\ Covers(X, Y, Len(Y)) /\ Sound(Y)
<1>1. X \in Seq(Line) /\ Len(X) \in Nat /\ Len(Y) \in Nat
  BY SoundIs, LenProperties
<1>2. Same(X, Y, Len(Y)) /\ Same(Y, X, Len(Y))
  BY <1>1, ExtendsIs DEF Same
<1>3. NoMarkers(X, Len(Y)) /\ NoMarkers(Y, Len(Y))
  BY <1>1, HeadIsLast DEF NoMarkers
<1>4. Sound(Y)
  BY <1>1, <1>2, SoundCut
<1> QED BY <1>1, <1>2, <1>3, <1>4 DEF Covers

-----------------------------------------------------------------------------
(* Commits, as JournalLog counts them.                                     *)

CommitsOf(X) == {[seq |-> i, txn |-> X[i].txn] : i \in {j \in 1 .. Len(X) : IsMarker(X[j])}}

LEMMA DurableLogIs == DurableLog = CommitsOf(DurableLines)
BY DEF DurableLog, CommitsOf, IsMarker

LEMMA LoggedIs ==
  ASSUME NEW X, NEW t
  PROVE  t \in Log!Logged(CommitsOf(X)) <=> Marked(X, t)
<1>1. ASSUME t \in Log!Logged(CommitsOf(X)) PROVE Marked(X, t)
  <2>1. PICK c \in CommitsOf(X) : t = c.txn
    BY <1>1 DEF Log!Logged
  <2>2. PICK i \in 1 .. Len(X) : IsMarker(X[i]) /\ c = [seq |-> i, txn |-> X[i].txn]
    BY DEF CommitsOf
  <2> QED BY <2>1, <2>2 DEF Marked
<1>2. ASSUME Marked(X, t) PROVE t \in Log!Logged(CommitsOf(X))
  <2>1. PICK i \in 1 .. Len(X) : IsMarker(X[i]) /\ X[i].txn = t
    BY <1>2 DEF Marked
  <2>2. [seq |-> i, txn |-> X[i].txn] \in CommitsOf(X)
    BY <2>1 DEF CommitsOf
  <2> QED BY <2>1, <2>2 DEF Log!Logged
<1> QED BY <1>1, <1>2

\* Step of the abstract log, from one durable log to one that covers it.
LEMMA CommitsGrow ==
  ASSUME NEW X \in Seq(Line), NEW Y, Sound(Y), NEW h, Covers(Y, X, h)
  PROVE  /\ CommitsOf(X) \subseteq CommitsOf(Y)
         /\ \A new \in CommitsOf(Y) \ CommitsOf(X), old \in CommitsOf(Y) :
              new = old \/ (new.txn # old.txn /\ (old \in CommitsOf(X) => old.seq < new.seq))
<1>1. Y \in Seq(Line) /\ Len(X) \in Nat /\ Len(Y) \in Nat /\ h \in Nat
      /\ h <= Len(X) /\ h <= Len(Y)
  BY SoundIs, LenProperties DEF Covers, Same
<1>2. \A i \in 1 .. Len(X) : IsMarker(X[i]) => i <= h
  BY <1>1 DEF Covers, NoMarkers
<1>3. \A i \in 1 .. h : X[i] = Y[i]
  BY DEF Covers, Same
<1>4. CommitsOf(X) \subseteq CommitsOf(Y)
  <2> SUFFICES ASSUME NEW i \in 1 .. Len(X), IsMarker(X[i])
               PROVE  [seq |-> i, txn |-> X[i].txn] \in CommitsOf(Y)
    BY DEF CommitsOf
  <2>1. i \in 1 .. h /\ i \in 1 .. Len(Y) /\ X[i] = Y[i]
    BY <1>1, <1>2, <1>3
  <2> QED BY <2>1 DEF CommitsOf
<1>5. ASSUME NEW new \in CommitsOf(Y) \ CommitsOf(X), NEW old \in CommitsOf(Y), new # old
      PROVE  new.txn # old.txn /\ (old \in CommitsOf(X) => old.seq < new.seq)
  <2>1. PICK i \in 1 .. Len(Y) : IsMarker(Y[i]) /\ new = [seq |-> i, txn |-> Y[i].txn]
    BY <1>5 DEF CommitsOf
  <2>2. PICK j \in 1 .. Len(Y) : IsMarker(Y[j]) /\ old = [seq |-> j, txn |-> Y[j].txn]
    BY DEF CommitsOf
  <2>3. i # j
    BY <1>5, <2>1, <2>2
  <2>4. new.txn # old.txn
    BY <2>1, <2>2, <2>3, MarkersDiffer
  <2>5. ASSUME old \in CommitsOf(X) PROVE j < i
    <3>1. PICK k \in 1 .. Len(X) : IsMarker(X[k]) /\ old = [seq |-> k, txn |-> X[k].txn]
      BY <2>5 DEF CommitsOf
    <3>2. k = j
      BY <2>2, <3>1
    <3>3. j \in 1 .. h
      BY <1>1, <1>2, <3>1, <3>2
    <3>4. ~ (i \in 1 .. h)
      <4> SUFFICES ASSUME i \in 1 .. h PROVE FALSE
        OBVIOUS
      <4>1. i \in 1 .. Len(X) /\ X[i] = Y[i]
        BY <1>1, <1>3
      <4>2. new \in CommitsOf(X)
        BY <2>1, <4>1 DEF CommitsOf
      <4> QED BY <1>5, <4>2
    <3> QED BY <1>1, <3>3, <3>4
  <2>6. old.seq = j /\ new.seq = i
    BY <2>1, <2>2
  <2> QED BY <2>4, <2>5, <2>6
<1> QED BY <1>4, <1>5

-----------------------------------------------------------------------------
(* Files, and what a power loss may leave of them.                         *)

File == [lines : Seq(Line), synced : Nat]
Good(file) == file \in File /\ Sound(file.lines) /\ file.synced <= Len(file.lines)
Durable(file) == Prefix(file.lines, file.synced)

\* Every commit in F is durable in E.
Behind(F, E) == \E h \in Nat : h <= E.synced /\ Covers(E.lines, F.lines, h)

LEMMA GoodFile ==
  ASSUME NEW F, Good(F)
  PROVE  /\ F.lines \in Seq(Line) /\ Len(F.lines) \in Nat /\ F.synced \in 0 .. Len(F.lines)
         /\ Durable(F) \in Seq(Line) /\ Len(Durable(F)) = F.synced
         /\ Same(F.lines, Durable(F), F.synced) /\ Sound(Durable(F))
<1>1. F.lines \in Seq(Line) /\ Len(F.lines) \in Nat /\ F.synced \in 0 .. Len(F.lines)
  BY LenProperties DEF Good, File
<1>2. /\ Durable(F) \in Seq(Line) /\ Len(Durable(F)) = F.synced
      /\ Same(F.lines, Durable(F), F.synced)
  BY <1>1, PrefixIs DEF Durable
<1>3. Sound(Durable(F))
  BY <1>1, <1>2, SoundCut DEF Good
<1> QED BY <1>1, <1>2, <1>3

LEMMA BehindDurably ==
  ASSUME NEW F, NEW E, Good(F), Good(E), Behind(F, E)
  PROVE  \E h \in Nat : Covers(Durable(E), Durable(F), h)
<1>1. PICK h \in Nat : h <= E.synced /\ Covers(E.lines, F.lines, h)
  BY DEF Behind
<1> DEFINE k == IF h <= F.synced THEN h ELSE F.synced
<1>2. k \in Nat /\ k <= h /\ k <= F.synced /\ k <= E.synced
      /\ \A j \in k + 1 .. F.synced : j \in h + 1 .. Len(F.lines) /\ j \in 1 .. F.synced
  BY <1>1, GoodFile
<1> HIDE DEF k
<1>3. \A j \in 1 .. k : Durable(F)[j] = F.lines[j] /\ F.lines[j] = E.lines[j] /\ E.lines[j] = Durable(E)[j]
  <2> TAKE j \in 1 .. k
  <2>1. j \in 1 .. F.synced /\ j \in 1 .. h /\ j \in 1 .. E.synced
    BY <1>1, <1>2, GoodFile
  <2>2. Durable(F)[j] = F.lines[j]
    BY <2>1, GoodFile DEF Same
  <2>3. F.lines[j] = E.lines[j]
    BY <1>1, <2>1 DEF Covers, Same
  <2>4. E.lines[j] = Durable(E)[j]
    BY <2>1, GoodFile DEF Same
  <2> QED BY <2>2, <2>3, <2>4
<1>4. Same(Durable(F), Durable(E), k)
  BY <1>2, <1>3, GoodFile DEF Same
<1>5. NoMarkers(Durable(F), k)
  BY <1>1, <1>2, GoodFile DEF Covers, NoMarkers, Same
<1> QED BY <1>2, <1>4, <1>5 DEF Covers

LEMMA RemainsAre ==
  ASSUME NEW F, Good(F), NEW lines \in Remains(F)
  PROVE  /\ Sound(lines)
         /\ Covers(lines, Durable(F), F.synced)
         /\ \A t \in ID : Marked(lines, t) => Marked(F.lines, t)
<1> DEFINE X == F.lines
<1>0. X \in Seq(Line) /\ Len(X) \in Nat /\ F.synced \in 0 .. Len(X) /\ Sound(X)
  BY GoodFile DEF Good
<1>1. \A i \in 1 .. Len(X) : X[i] \in Line
  BY <1>0, ElementOfSeq
<1>2. PICK n \in F.synced .. Len(X) :
        \/ lines = Prefix(X, n)
        \/ n < Len(X) /\ lines = Append(Prefix(X, n), Mk("torn", X[n + 1].txn))
  BY <1>0 DEF Remains
<1>3. /\ n \in 0 .. Len(X) /\ Prefix(X, n) \in Seq(Line) /\ Len(Prefix(X, n)) = n
      /\ Same(X, Prefix(X, n), n)
  BY <1>0, <1>2, PrefixIs
<1>4. /\ lines \in Seq(Line) /\ Same(X, lines, n)
      /\ \/ Len(lines) = n
         \/ Len(lines) = n + 1 /\ IsTorn(lines[n + 1]) /\ n < Len(X)
  <2>1. CASE lines = Prefix(X, n)
    BY <1>3, <2>1
  <2>2. CASE n < Len(X) /\ lines = Append(Prefix(X, n), Mk("torn", X[n + 1].txn))
    <3> DEFINE torn == Mk("torn", X[n + 1].txn)
    <3>1. torn \in Line /\ IsTorn(torn)
      <4>1. X[n + 1] \in Line
        BY <1>0, <1>1, <1>3, <2>2
      <4> QED BY <4>1 DEF Line, Mk, IsTorn
    <3> HIDE DEF torn
    <3>2. /\ lines \in Seq(Line) /\ Len(lines) = n + 1 /\ lines[n + 1] = torn
          /\ \A k \in 1 .. n : lines[k] = Prefix(X, n)[k]
      BY <1>3, <2>2, <3>1, AppendProperties DEF torn
    <3> QED BY <1>0, <1>3, <2>2, <3>1, <3>2 DEF Same
  <2> QED BY <1>2, <2>1, <2>2
<1>5. Sound(lines)
  BY <1>0, <1>3, <1>4, SoundCut
<1>6. Covers(lines, Durable(F), F.synced)
  <2>1. Same(Durable(F), lines, F.synced)
    BY <1>0, <1>2, <1>3, <1>4, GoodFile DEF Same
  <2>2. NoMarkers(Durable(F), F.synced)
    BY <1>0, GoodFile DEF NoMarkers
  <2> QED BY <1>0, <2>1, <2>2 DEF Covers
<1>7. ASSUME NEW t \in ID, Marked(lines, t) PROVE Marked(X, t)
  <2>1. PICK i \in 1 .. Len(lines) : IsMarker(lines[i]) /\ lines[i].txn = t
    BY <1>7 DEF Marked
  <2>2. lines[i] \in Line
    BY <1>4, ElementOfSeq
  <2>3. i \in 1 .. n
    BY <1>3, <1>4, <2>1, <2>2, LineKinds
  <2> QED BY <1>0, <1>3, <1>4, <2>1, <2>3 DEF Same, Marked
<1> QED BY <1>5, <1>6, <1>7

-----------------------------------------------------------------------------
(***************************************************************************)
(* The inductive invariant.                                                *)
(***************************************************************************)
Ino == 1 .. Len(files)
Seen == files[dir.events]
Stable == files[disk.events]

\* Every file is sound, and what power loss would leave lacks no durable commit.
StoreOK ==
  /\ dir.events \in Ino /\ disk.events \in Ino
  /\ \A i \in Ino : Good(files[i])
  /\ disk.events = dir.events \/ Behind(Stable, Seen)

\* No append of t runs, and none can begin.
Gone(t) == t \in tried /\ \A q \in Proc : job[q].txn # t
Silent(lines, n, t) == \A k \in n + 1 .. Len(lines) : ~ (IsMarker(lines[k]) /\ lines[k].txn = t)

AnswersOK ==
  /\ \A t \in acked : Marked(Durable(Stable), t)
  /\ \A t \in denied : Gone(t) /\ ~ Marked(Active, t)

Running(p) == pc[p] \notin {"idle"} \cup ReadSteps

\* A reader's snapshot is the front of its file, and what settled before it stays so.
Reader(p) ==
  pc[p] \in ReadSteps =>
    /\ job[p].txn = None /\ job[p].ino \in Ino
    /\ job[p].upto <= Len(files[job[p].ino].lines)
    /\ \A t \in job[p].settled : Gone(t) /\ Silent(files[job[p].ino].lines, job[p].upto, t)

\* What an append has written so far, and that the rest fits.
Appender(p) ==
  LET t == job[p].txn IN
  /\ pc[p] \in AppendSteps => t \in ID
  /\ pc[p] = "write_events" =>
       Sound(Append(Append(Active, OpenLine(Active, t)), Mk("marker", t)))
  /\ pc[p] \in {"sync_events", "write_marker"} => Sound(Append(Active, Mk("marker", t)))
  /\ pc[p] \in {"sync_marker", "write_metadata", "sync_directory"} => Marked(Active, t)
  /\ pc[p] \in {"write_metadata", "sync_directory"} => Seen.synced = Len(Active)

Dropped(m) == [tail |-> SubSeq(Active, Len(m.prefix) + 1, Len(Active)), synced |-> TRUE]

\* What a recovery works on, and how far its candidate and its quarantine are.
Recovers(p) ==
  LET m == job[p].man  ino == job[p].ino IN
  /\ pc[p] \in RecoverySteps \cup ResetSteps \cup {"sync_repair"} => job[p].txn \in Op /\ m \in Manifest
  /\ pc[p] \in {"manifest", "sync_manifest", "quarantine", "sync_quarantine", "candidate",
                "sync_candidate", "activate_metadata", "activate_events"} =>
       Active = m.prefix \o m.tail
  /\ pc[p] \in {"manifest", "sync_manifest", "quarantine", "sync_quarantine", "candidate",
                "sync_candidate", "activate_metadata", "activate_events",
                "keep_partial", "reset_candidate", "reset_events"} =>
       Extends(Active, m.prefix) /\ IsHead(Active, Len(m.prefix))
  /\ pc[p] \in {"sync_candidate", "activate_metadata", "activate_events", "reset_events"} =>
       ino \in Ino \ {dir.events, disk.events} /\ files[ino].lines = m.prefix
  /\ pc[p] \in {"activate_metadata", "activate_events", "reset_events"} =>
       files[ino].synced = Len(m.prefix)
  /\ pc[p] \in {"candidate", "sync_candidate", "activate_metadata", "activate_events",
                "reset_candidate", "reset_events"} => Dropped(m) \in vault

ProcOK(p) == Reader(p) /\ Appender(p) /\ Recovers(p)

Inv == TypeOK /\ StoreOK /\ AnswersOK /\ \A p \in Proc : ProcOK(p)

\* A step leaves a durable log that covers the one before.
Kept == \E h \in Nat : Covers(DurableLines', DurableLines, h)
Told == acked \subseteq acked' /\ denied \subseteq denied'
Advances == Inv' /\ Kept /\ Told

-----------------------------------------------------------------------------
(* Steps of the store.                                                     *)

\* Files only get longer, and only the one processes see.
Grown ==
  /\ files' \in Seq(File) /\ Len(files) <= Len(files')
  /\ \A i \in 1 .. Len(files') : Good(files'[i])
  /\ \A i \in Ino : /\ files[i].synced <= files'[i].synced
                    /\ Same(files[i].lines, files'[i].lines, Len(files[i].lines))
                    /\ i # dir.events => files'[i].lines = files[i].lines

\* None of the new lines commits a transaction that is gone.
Quiet ==
  \A t \in tried : Gone(t) =>
    \A i \in Ino : Silent(files'[i].lines, Len(files[i].lines), t)

LEMMA FilesAre ==
  ASSUME Inv
  PROVE  /\ files \in Seq(File) /\ Len(files) \in Nat
         /\ \A i \in Ino : files[i] \in File /\ Good(files[i])
         /\ dir.events \in Ino /\ disk.events \in Ino
         /\ Active \in Seq(Line) /\ Sound(Active) /\ Len(Active) \in Nat
<1>1. files \in Seq(File)
  BY DEF Inv, TypeOK, File
<1>2. Len(files) \in Nat /\ \A i \in Ino : files[i] \in File /\ Good(files[i])
  BY <1>1, LenProperties, ElementOfSeq DEF Inv, StoreOK, Ino
<1>3. dir.events \in Ino /\ disk.events \in Ino
  BY DEF Inv, StoreOK
<1> QED BY <1>1, <1>2, <1>3, GoodFile DEF Active, Good

LEMMA NothingGrown ==
  ASSUME Inv, UNCHANGED files
  PROVE  Grown /\ Quiet
<1>1. \A i \in Ino : files[i].synced <= files[i].synced /\ Same(files[i].lines, files[i].lines, Len(files[i].lines))
                     /\ Len(files[i].lines) \in Nat
  BY FilesAre, GoodFile DEF Same
<1> QED BY <1>1, FilesAre DEF Grown, Quiet, Silent, Ino

LEMMA SyncGrown ==
  ASSUME Inv, NEW ino \in Ino, SyncFile(ino)
  PROVE  /\ Grown /\ Quiet /\ Len(files') = Len(files)
         /\ \A i \in Ino : files'[i].lines = files[i].lines
         /\ \A i \in Ino \ {ino} : files'[i] = files[i]
         /\ files'[ino].synced = Len(files[ino].lines)
<1>1. /\ files \in Seq(File) /\ Len(files) \in Nat
      /\ \A i \in Ino : /\ Good(files[i]) /\ files[i] \in File /\ Len(files[i].lines) \in Nat
                        /\ files[i].lines \in Seq(Line) /\ files[i].synced \in 0 .. Len(files[i].lines)
  BY FilesAre, GoodFile
<1> DEFINE f == [files[ino] EXCEPT !.synced = Len(files[ino].lines)]
<1>2. f \in File /\ f.lines = files[ino].lines /\ f.synced = Len(files[ino].lines)
  BY <1>1 DEF File
<1>3. files' = [files EXCEPT ![ino] = f]
  BY DEF SyncFile
<1> HIDE DEF f
<1>4. /\ files' \in Seq(File) /\ Len(files') = Len(files)
      /\ files'[ino] = f /\ \A i \in Ino \ {ino} : files'[i] = files[i]
  BY <1>1, <1>2, <1>3, ExceptSeq DEF Ino
<1>5. Good(f)
  BY <1>1, <1>2 DEF Good
<1>6. \A i \in Ino : files'[i].lines = files[i].lines /\ files[i].synced <= files'[i].synced /\ Good(files'[i])
  BY <1>1, <1>2, <1>4, <1>5
<1>7. \A i \in Ino : Same(files[i].lines, files'[i].lines, Len(files[i].lines))
  BY <1>1, <1>6 DEF Same
<1>8. Grown
  BY <1>1, <1>4, <1>6, <1>7 DEF Grown, Ino
<1>9. Quiet
  BY <1>1, <1>6 DEF Quiet, Silent
<1> QED BY <1>2, <1>4, <1>6, <1>8, <1>9

\* The file processes see is written: nothing, or one line.
LEMMA WriteGrown ==
  ASSUME Inv, NEW L, Write(L), Sound(L), L = Active \/ \E line \in Line : L = Append(Active, line)
  PROVE  /\ Grown /\ Len(files') = Len(files)
         /\ files'[dir.events].lines = L /\ files'[dir.events].synced = Seen.synced
         /\ \A i \in Ino \ {dir.events} : files'[i] = files[i]
<1>1. /\ files \in Seq(File) /\ Len(files) \in Nat /\ dir.events \in Ino
      /\ \A i \in Ino : /\ Good(files[i]) /\ files[i] \in File /\ Len(files[i].lines) \in Nat
                        /\ files[i].lines \in Seq(Line) /\ files[i].synced \in 0 .. Len(files[i].lines)
  BY FilesAre, GoodFile
<1>2. L \in Seq(Line) /\ Len(L) \in Nat /\ Len(Active) <= Len(L) /\ Same(Active, L, Len(Active))
  <2>1. Active \in Seq(Line) /\ Len(Active) \in Nat
    BY FilesAre
  <2>2. CASE L = Active
    BY <2>1, <2>2 DEF Same
  <2>3. CASE \E line \in Line : L = Append(Active, line)
    <3>1. PICK line \in Line : L = Append(Active, line)
      BY <2>3
    <3>2. L \in Seq(Line) /\ Len(L) = Len(Active) + 1 /\ \A i \in 1 .. Len(Active) : L[i] = Active[i]
      BY <2>1, <3>1, AppendProperties
    <3> QED BY <2>1, <3>2 DEF Same
  <2> QED BY <2>2, <2>3
<1> DEFINE f == [Seen EXCEPT !.lines = L]
<1>3. f \in File /\ f.lines = L /\ f.synced = Seen.synced
  BY <1>1, <1>2 DEF File, Seen
<1>4. files' = [files EXCEPT ![dir.events] = f]
  BY DEF Write, Seen
<1> HIDE DEF f
<1>5. /\ files' \in Seq(File) /\ Len(files') = Len(files)
      /\ files'[dir.events] = f /\ \A i \in Ino \ {dir.events} : files'[i] = files[i]
  BY <1>1, <1>3, <1>4, ExceptSeq DEF Ino
<1>6. Good(f)
  BY <1>1, <1>2, <1>3 DEF Good, Seen, Active
<1>7. \A i \in Ino : files[i].synced <= files'[i].synced /\ Good(files'[i])
                     /\ Same(files[i].lines, files'[i].lines, Len(files[i].lines))
  <2> TAKE i \in Ino
  <2>1. CASE i = dir.events
    BY <1>1, <1>2, <1>3, <1>5, <1>6, <2>1 DEF Seen, Active
  <2>2. CASE i # dir.events
    BY <1>1, <1>5, <2>2 DEF Same
  <2> QED BY <2>1, <2>2
<1>8. Grown
  BY <1>1, <1>5, <1>7 DEF Grown, Ino
<1> QED BY <1>3, <1>5, <1>8

\* A candidate is another file.
AddsFile(f) == files' = Append(files, f)

LEMMA CandidateGrown ==
  ASSUME Inv, NEW f, Good(f), AddsFile(f)
  PROVE  /\ Grown /\ Quiet /\ Len(files') = Len(files) + 1
         /\ files'[Len(files) + 1] = f /\ \A i \in Ino : files'[i] = files[i]
         /\ Len(files) + 1 \notin Ino
<1>1. files \in Seq(File) /\ Len(files) \in Nat /\ f \in File
  BY FilesAre DEF Good
<1>2. /\ files' \in Seq(File) /\ Len(files') = Len(files) + 1 /\ files'[Len(files) + 1] = f
      /\ \A i \in Ino : files'[i] = files[i]
  BY <1>1, AppendProperties DEF Ino, AddsFile
<1>3. \A i \in Ino : Good(files[i]) /\ Len(files[i].lines) \in Nat /\ files[i].synced \in Nat
  BY FilesAre, GoodFile
<1>4. \A i \in 1 .. Len(files') : Good(files'[i])
  BY <1>1, <1>2, <1>3 DEF Ino
<1>5. \A i \in Ino : /\ files'[i].lines = files[i].lines /\ files[i].synced <= files'[i].synced
                     /\ Same(files[i].lines, files'[i].lines, Len(files[i].lines))
  BY <1>2, <1>3 DEF Same
<1>6. Grown
  BY <1>1, <1>2, <1>4, <1>5 DEF Grown
<1>7. Quiet
  BY <1>3, <1>5 DEF Quiet, Silent
<1> QED BY <1>1, <1>2, <1>6, <1>7 DEF Ino

\* What is written behind the journal is nothing, no marker, or of a running append.
LEMMA WriteQuiet ==
  ASSUME Inv, NEW L, Write(L), Sound(L),
         \/ L = Active
         \/ \E line \in Line : L = Append(Active, line) /\ (IsMarker(line) => ~ Gone(line.txn))
  PROVE  Quiet
<1>1. \A i \in Ino : Len(files[i].lines) \in Nat
  BY FilesAre, GoodFile
<1>2. /\ files'[dir.events].lines = L
      /\ \A i \in Ino \ {dir.events} : files'[i] = files[i]
  BY WriteGrown
<1>3. \A k \in Len(Active) + 1 .. Len(L) : IsMarker(L[k]) => ~ Gone(L[k].txn)
  <2>1. CASE L = Active
    BY <2>1, FilesAre
  <2>2. CASE \E line \in Line : L = Append(Active, line) /\ (IsMarker(line) => ~ Gone(line.txn))
    <3>1. PICK line \in Line : L = Append(Active, line) /\ (IsMarker(line) => ~ Gone(line.txn))
      BY <2>2
    <3>2. Len(L) = Len(Active) + 1 /\ L[Len(Active) + 1] = line
      BY <3>1, FilesAre, AppendProperties
    <3> QED BY <3>1, <3>2, FilesAre
  <2> QED BY <2>1, <2>2
<1>4. ASSUME NEW t \in tried, Gone(t), NEW i \in Ino
      PROVE  Silent(files'[i].lines, Len(files[i].lines), t)
  <2>1. CASE i = dir.events
    BY <1>2, <1>3, <1>4, <2>1 DEF Silent, Active
  <2>2. CASE i # dir.events
    BY <1>1, <1>2, <2>2 DEF Silent
  <2> QED BY <2>1, <2>2
<1> QED BY <1>4 DEF Quiet

LEMMA StableIs ==
  ASSUME Inv
  PROVE  /\ DurableLines = Durable(Stable) /\ Good(Stable) /\ Good(Seen)
         /\ DurableLines \in Seq(Line) /\ Sound(DurableLines)
BY FilesAre, GoodFile DEF DurableLines, Durable, Stable, Seen

LEMMA StoreGrown ==
  ASSUME Inv, Grown, dir'.events = dir.events, disk'.events = disk.events
  PROVE  StoreOK' /\ Kept
<1>1. /\ Len(files) \in Nat /\ Len(files') \in Nat /\ Len(files) <= Len(files')
      /\ dir.events \in Ino /\ disk.events \in Ino
  BY FilesAre, LenProperties DEF Grown
<1>2. /\ Good(Stable) /\ Good(Stable') /\ Stable.synced <= Stable'.synced
      /\ Same(Stable.lines, Stable'.lines, Len(Stable.lines))
      /\ disk.events # dir.events => Stable'.lines = Stable.lines
  BY <1>1, StableIs DEF Grown, Stable, Ino
<1>3. Good(Seen) /\ Good(Seen') /\ Seen.synced <= Seen'.synced
      /\ Same(Seen.lines, Seen'.lines, Len(Seen.lines))
  BY <1>1, StableIs DEF Grown, Seen, Ino
<1>4. ASSUME disk.events # dir.events PROVE Behind(Stable', Seen')
  <2>1. PICK h \in Nat : h <= Seen.synced /\ Covers(Seen.lines, Stable.lines, h)
    BY <1>4 DEF Inv, StoreOK, Behind
  <2>2. Covers(Seen'.lines, Seen.lines, Len(Seen.lines))
    BY <1>3, GoodFile DEF Covers, NoMarkers
  <2>3. Same(Stable.lines, Seen'.lines, h)
    <3>1. Len(Seen.lines) \in Nat /\ Len(Seen'.lines) \in Nat
      BY <1>3, GoodFile
    <3> QED BY <1>3, <2>1, <3>1 DEF Covers, Same
  <2>4. Covers(Seen'.lines, Stable'.lines, h)
    BY <1>2, <1>4, <2>1, <2>3 DEF Covers
  <2>5. h <= Seen'.synced
    BY <1>3, <2>1, GoodFile
  <2> QED BY <2>4, <2>5 DEF Behind
<1>5. StoreOK'
  BY <1>1, <1>4 DEF StoreOK, Ino, Grown
<1>6. Covers(Durable(Stable'), Durable(Stable), Stable.synced)
  <2>1. Same(Durable(Stable), Durable(Stable'), Stable.synced)
    BY <1>2, GoodFile DEF Same
  <2>2. NoMarkers(Durable(Stable), Stable.synced) /\ Stable.synced \in Nat
    BY <1>2, GoodFile DEF NoMarkers
  <2> QED BY <2>1, <2>2 DEF Covers
<1>7. DurableLines = Durable(Stable) /\ DurableLines' = Durable(Stable')
  BY DEF DurableLines, Durable, Stable
<1>8. Stable.synced \in Nat
  BY <1>2, GoodFile
<1> QED BY <1>5, <1>6, <1>7, <1>8 DEF Kept

\* The directory is synchronised.
LEMMA StoreSynced ==
  ASSUME Inv, UNCHANGED files, dir'.events = dir.events, disk'.events = dir.events
  PROVE  StoreOK' /\ Kept
<1>1. /\ dir.events \in Ino /\ disk.events \in Ino /\ Good(Stable) /\ Good(Seen)
      /\ \A i \in Ino : Good(files[i])
  BY FilesAre, StableIs
<1>2. StoreOK'
  BY <1>1 DEF StoreOK, Ino
<1>3. DurableLines = Durable(Stable) /\ DurableLines' = Durable(Seen)
  BY DEF DurableLines, Durable, Stable, Seen
<1>4. CASE disk.events = dir.events
  <2>1. Covers(Durable(Seen), Durable(Stable), Len(Durable(Seen))) /\ Len(Durable(Seen)) \in Nat
    BY <1>1, <1>4, GoodFile, CoversItself, LenProperties DEF Stable, Seen
  <2> QED BY <1>2, <1>3, <2>1 DEF Kept
<1>5. CASE disk.events # dir.events
  <2>1. Behind(Stable, Seen)
    BY <1>5 DEF Inv, StoreOK
  <2> QED BY <1>1, <1>2, <1>3, <2>1, BehindDurably DEF Kept
<1> QED BY <1>4, <1>5

\* A durable prefix with the head is renamed over the journal.
LEMMA StoreActivated ==
  ASSUME Inv, UNCHANGED files, disk'.events = disk.events,
         NEW ino \in Ino \ {disk.events}, dir'.events = ino,
         NEW prefix \in Seq(Line), files[ino].lines = prefix, files[ino].synced = Len(prefix),
         Extends(Active, prefix), IsHead(Active, Len(prefix))
  PROVE  /\ StoreOK' /\ Kept
         /\ \A t \in ID : Marked(Active', t) => Marked(Active, t)
<1>1. /\ dir.events \in Ino /\ disk.events \in Ino /\ Good(Stable) /\ Good(Seen)
      /\ \A i \in Ino : Good(files[i])
      /\ Active \in Seq(Line) /\ Sound(Active) /\ Len(prefix) \in Nat
  BY FilesAre, StableIs, LenProperties
<1>2. /\ Covers(prefix, Active, Len(prefix)) /\ Covers(Active, prefix, Len(prefix))
      /\ Active' = prefix /\ Seen'.lines = prefix /\ Seen'.synced = Len(prefix) /\ Stable' = Stable
  BY <1>1, HeadCovers DEF Active, Seen, Stable
<1>3. \E h \in Nat : h <= Len(prefix) /\ Covers(prefix, Stable.lines, h)
  <2>1. CASE disk.events = dir.events
    BY <1>1, <1>2, <2>1 DEF Stable, Active
  <2>2. CASE disk.events # dir.events
    <3>1. PICK g \in Nat : Covers(Active, Stable.lines, g)
      BY <2>2 DEF Inv, StoreOK, Behind, Active, Seen
    <3> QED BY <1>1, <1>2, <3>1, CoversTransitively, GoodFile
  <2> QED BY <2>1, <2>2
<1>4. Behind(Stable', Seen')
  BY <1>2, <1>3 DEF Behind
<1>5. StoreOK'
  BY <1>1, <1>4 DEF StoreOK, Ino
<1>6. Covers(DurableLines', DurableLines, Len(DurableLines)) /\ Len(DurableLines) \in Nat
  <2>1. DurableLines' = DurableLines
    BY <1>2 DEF DurableLines, Stable
  <2> QED BY <2>1, StableIs, CoversItself, LenProperties
<1>7. \A t \in ID : Marked(Active', t) => Marked(Active, t)
  BY <1>1, <1>2, CoversMarked
<1> QED BY <1>5, <1>6, <1>7 DEF Kept

\* What a power loss at this moment leaves.
LEMMA SurvivorIs ==
  ASSUME Inv, NEW lines \in Survivors
  PROVE  /\ Sound(lines)
         /\ \E h \in Nat : Covers(lines, DurableLines, h)
         /\ \A t \in ID : Marked(lines, t) => Marked(Active, t)
<1>1. lines \in Remains(Stable) \/ lines \in Remains(Seen)
  BY DEF Survivors, Stable, Seen
<1>2. /\ DurableLines = Durable(Stable) /\ Good(Stable) /\ Good(Seen)
      /\ Stable.lines \in Seq(Line) /\ Seen.lines = Active /\ Active \in Seq(Line)
  BY StableIs, GoodFile DEF Active, Seen
<1>3. disk.events # dir.events => Behind(Stable, Seen)
  BY DEF Inv, StoreOK
<1>4. CASE lines \in Remains(Stable)
  <2>1. /\ Sound(lines) /\ Covers(lines, Durable(Stable), Stable.synced) /\ Stable.synced \in Nat
        /\ \A t \in ID : Marked(lines, t) => Marked(Stable.lines, t)
    BY <1>2, <1>4, RemainsAre, GoodFile
  <2>2. \A t \in ID : Marked(Stable.lines, t) => Marked(Active, t)
    <3>1. CASE disk.events = dir.events
      BY <3>1 DEF Stable, Active
    <3>2. CASE disk.events # dir.events
      <4>1. PICK h \in Nat : Covers(Active, Stable.lines, h)
        BY <1>2, <1>3, <3>2 DEF Behind
      <4> QED BY <1>2, <4>1, CoversMarked
    <3> QED BY <3>1, <3>2
  <2> QED BY <1>2, <2>1, <2>2
<1>5. CASE lines \in Remains(Seen) /\ disk.events # dir.events
  <2>1. /\ Sound(lines) /\ Covers(lines, Durable(Seen), Seen.synced) /\ Seen.synced \in Nat
        /\ \A t \in ID : Marked(lines, t) => Marked(Active, t)
    BY <1>2, <1>5, RemainsAre, GoodFile
  <2>2. PICK g \in Nat : Covers(Durable(Seen), Durable(Stable), g)
    BY <1>2, <1>3, <1>5, BehindDurably
  <2>3. lines \in Seq(Line) /\ Durable(Seen) \in Seq(Line) /\ Durable(Stable) \in Seq(Line)
    BY <1>2, <2>1, GoodFile, SoundIs
  <2>4. \E h \in Nat : Covers(lines, Durable(Stable), h)
    BY <2>1, <2>2, <2>3, CoversTransitively
  <2> QED BY <1>2, <2>1, <2>4
<1> QED BY <1>1, <1>4, <1>5 DEF Stable, Seen

LostTo(lines) == files' = << [lines |-> lines, synced |-> Len(lines)] >>

LEMMA StoreLost ==
  ASSUME Inv, NEW lines \in Survivors, LostTo(lines), dir'.events = 1, disk'.events = 1
  PROVE  /\ StoreOK' /\ Kept /\ files' \in Seq(File)
         /\ \A t \in ID : Marked(Active', t) => Marked(Active, t)
<1> DEFINE f == [lines |-> lines, synced |-> Len(lines)]
<1>1. /\ Sound(lines) /\ lines \in Seq(Line) /\ Len(lines) \in Nat
      /\ \E h \in Nat : Covers(lines, DurableLines, h)
      /\ \A t \in ID : Marked(lines, t) => Marked(Active, t)
  BY SurvivorIs, SoundIs, LenProperties
<1>2. Good(f) /\ f \in File /\ f.lines = lines /\ f.synced = Len(lines)
  BY <1>1 DEF Good, File
<1>3. files' = << f >>
  BY DEF LostTo
<1> HIDE DEF f
<1>4. files' \in Seq(File) /\ Len(files') = 1 /\ files'[1] = f
  BY <1>2, <1>3
<1>5. StoreOK'
  BY <1>2, <1>4 DEF StoreOK, Ino
<1>6. Active' = lines /\ DurableLines' = Durable(f)
  BY <1>2, <1>4 DEF Active, DurableLines, Durable
<1>7. Durable(f) \in Seq(Line) /\ Len(Durable(f)) = Len(lines) /\ Same(lines, Durable(f), Len(lines))
  BY <1>2, GoodFile
<1>8. \E h \in Nat : Covers(Durable(f), DurableLines, h)
  <2>1. PICK h \in Nat : Covers(lines, DurableLines, h)
    BY <1>1
  <2>2. Covers(Durable(f), DurableLines, h)
    BY <1>1, <1>7, <2>1 DEF Covers, Same
  <2> QED BY <2>2
<1> QED BY <1>1, <1>4, <1>5, <1>6, <1>8 DEF Kept

-----------------------------------------------------------------------------
(* What a step of p leaves of the others.                                  *)

Alone(p) == \A q \in Proc \ {p} : ~ Running(q)

JobMoves(p) ==
  /\ \A q \in Proc \ {p} : pc'[q] = pc[q] /\ job'[q] = job[q]
  /\ job'[p].txn = job[p].txn \/ job'[p].txn \notin tried
  /\ tried \subseteq tried'

\* Nothing changes but what is on stable storage.
OnlySynced ==
  /\ Len(files') = Len(files)
  /\ \A i \in Ino : /\ files'[i].lines = files[i].lines
                    /\ files'[i].synced \in {files[i].synced, Len(files[i].lines)}
  /\ dir'.events = dir.events /\ disk'.events = disk.events /\ vault' = vault

LEMMA FlockExcludes ==
  ASSUME Inv, NEW p \in Proc, Running(p) \/ FlockFree
  PROVE  Alone(p)
BY NamesAssumption DEF Inv, TypeOK, Running, FlockFree, Alone

LEMMA GoneStays ==
  ASSUME NEW p \in Proc, JobMoves(p), NEW t, Gone(t)
  PROVE  Gone(t)'
BY DEF JobMoves, Gone

LEMMA SilentLonger ==
  ASSUME NEW X, NEW Y, Len(X) \in Nat, Len(Y) \in Nat, NEW n \in Nat, NEW t,
         Same(X, Y, Len(X)), Silent(X, n, t), Silent(Y, Len(X), t)
  PROVE  Silent(Y, n, t)
<1> SUFFICES ASSUME NEW k \in n + 1 .. Len(Y), IsMarker(Y[k]), Y[k].txn = t PROVE FALSE
  BY DEF Silent
<1>1. CASE k <= Len(X)
  <2>1. k \in 1 .. Len(X) /\ k \in n + 1 .. Len(X)
    BY <1>1
  <2>2. X[k] = Y[k]
    BY <2>1 DEF Same
  <2> QED BY <2>1, <2>2 DEF Silent
<1>2. CASE k > Len(X)
  BY <1>2 DEF Silent
<1> QED BY <1>1, <1>2

LEMMA ReaderStays ==
  ASSUME Inv, NEW p \in Proc, JobMoves(p), Grown, Quiet, NEW q \in Proc \ {p}
  PROVE  Reader(q)'
<1> SUFFICES ASSUME pc[q] \in ReadSteps
             PROVE  /\ job[q].txn = None /\ job[q].ino \in Ino'
                    /\ job[q].upto <= Len(files'[job[q].ino].lines)
                    /\ \A t \in job[q].settled :
                         Gone(t)' /\ Silent(files'[job[q].ino].lines, job[q].upto, t)
  BY DEF JobMoves, Reader, ReadSteps
<1> DEFINE j == job[q]
           old == files[j.ino].lines
           new == files'[j.ino].lines
<1>1. /\ j.txn = None /\ j.ino \in Ino /\ j.upto <= Len(old)
      /\ \A t \in j.settled : Gone(t) /\ Silent(old, j.upto, t)
  BY DEF Inv, ProcOK, Reader
<1>2. /\ Len(old) \in Nat /\ Len(new) \in Nat /\ Same(old, new, Len(old))
      /\ Len(files) \in Nat /\ Len(files') \in Nat /\ Len(files) <= Len(files')
  <2>1. Len(files) \in Nat /\ Len(files') \in Nat /\ Len(files) <= Len(files')
    BY FilesAre, LenProperties DEF Grown
  <2>2. Good(files[j.ino]) /\ Good(files'[j.ino])
    BY <1>1, <2>1, FilesAre DEF Grown, Ino
  <2>3. Same(old, new, Len(old))
    BY <1>1 DEF Grown
  <2> QED BY <2>1, <2>2, <2>3, GoodFile
<1>3. j.upto \in Nat
  BY DEF Inv, TypeOK
<1>4. ASSUME NEW t \in j.settled PROVE Gone(t)' /\ Silent(new, j.upto, t)
  <2>1. Gone(t) /\ Silent(old, j.upto, t) /\ t \in tried
    BY <1>1 DEF Gone
  <2>2. Silent(new, Len(old), t)
    BY <1>1, <2>1 DEF Quiet
  <2>3. Silent(new, j.upto, t)
    BY <1>2, <1>3, <2>1, <2>2, SilentLonger
  <2> QED BY <2>1, <2>3, GoneStays
<1>5. j.ino \in Ino' /\ j.upto <= Len(new)
  <2>1. Len(old) <= Len(new) /\ j.upto <= Len(old)
    BY <1>1, <1>2 DEF Same
  <2>2. j.ino \in Ino'
    BY <1>1, <1>2 DEF Ino
  <2> HIDE DEF old, new
  <2> QED BY <1>2, <1>3, <2>1, <2>2
<1> QED BY <1>1, <1>4, <1>5

LEMMA OthersStay ==
  ASSUME Inv, NEW p \in Proc, JobMoves(p), Grown, Quiet, Alone(p) \/ OnlySynced,
         NEW q \in Proc \ {p}
  PROVE  ProcOK(q)'
<1>1. Reader(q)'
  BY ReaderStays
<1>2. pc'[q] = pc[q] /\ job'[q] = job[q]
  BY DEF JobMoves
<1>3. CASE ~ Running(q)
  <2>1. /\ pc[q] \notin AppendSteps \cup RecoverySteps \cup ResetSteps \cup {"sync_repair"}
        /\ pc[q] \notin {"keep_partial", "reset_candidate", "reset_events"}
    BY <1>3 DEF Running, ReadSteps, AppendSteps, RecoverySteps, ResetSteps
  <2> QED BY <1>1, <1>2, <2>1 DEF ProcOK, Appender, Recovers, AppendSteps, RecoverySteps, ResetSteps
<1>4. CASE Running(q)
  <2>1. OnlySynced
    BY <1>4 DEF Alone
  <2>2. /\ dir.events \in Ino /\ disk.events \in Ino /\ dir'.events = dir.events
        /\ disk'.events = disk.events /\ Ino' = Ino /\ vault' = vault
    BY <2>1, FilesAre DEF OnlySynced, Ino
  <2>3. \A i \in Ino : files'[i].lines = files[i].lines
    BY <2>1 DEF OnlySynced
  <2>4. Active' = Active
    BY <2>2, <2>3 DEF Active
  <2>5. \A i \in Ino : files[i].synced = Len(files[i].lines) => files'[i].synced = Len(files[i].lines)
    BY <2>1 DEF OnlySynced
  <2>6. Appender(q) /\ Recovers(q)
    BY DEF Inv, ProcOK
  <2>7. Appender(q)'
    BY <1>2, <2>2, <2>4, <2>5, <2>6 DEF Appender, Seen, Active
  <2>8. \A m : Dropped(m)' = Dropped(m)
    BY <2>4 DEF Dropped
  <2>9. Recovers(q)'
    BY <1>2, <2>2, <2>3, <2>4, <2>5, <2>6, <2>8 DEF Recovers
  <2> QED BY <1>1, <2>7, <2>9 DEF ProcOK
<1> QED BY <1>3, <1>4

LEMMA Framed ==
  ASSUME Inv, NEW p \in Proc, JobMoves(p), Grown, Quiet, Alone(p) \/ OnlySynced,
         TypeOK', StoreOK', Kept, ProcOK(p)',
         dir'.events = dir.events \/ \A t \in ID : Marked(Active', t) => Marked(Active, t),
         acked \subseteq acked', \A t \in acked' \ acked : Marked(Durable(Stable'), t),
         denied \subseteq denied', \A t \in denied' \ denied : Gone(t) /\ ~ Marked(Active, t)
  PROVE  Advances
<1>1. \A q \in Proc : ProcOK(q)'
  BY OthersStay
<1>2. ASSUME NEW t \in acked' PROVE Marked(Durable(Stable'), t)
  <2>1. CASE t \in acked
    <3>1. Marked(DurableLines, t) /\ DurableLines' = Durable(Stable')
      BY <2>1, StableIs DEF Inv, AnswersOK, DurableLines, Durable, Stable
    <3>2. DurableLines \in Seq(Line) /\ DurableLines' \in Seq(Line)
      <4>1. Good(Stable')
        BY DEF StoreOK, Stable
      <4> QED BY <3>1, <4>1, StableIs, GoodFile
    <3> QED BY <3>1, <3>2, CoversMarked DEF Kept
  <2> QED BY <2>1
<1>3. ASSUME NEW t \in denied' PROVE Gone(t)' /\ ~ Marked(Active', t)
  <2>1. Gone(t) /\ ~ Marked(Active, t) /\ t \in tried /\ t \in ID
    <3>1. Gone(t) /\ ~ Marked(Active, t)
      BY <1>3 DEF Inv, AnswersOK
    <3> QED BY <3>1 DEF Gone, Inv, TypeOK, ID
  <2>2. CASE dir'.events = dir.events
    <3>1. Active' = files'[dir.events].lines /\ dir.events \in Ino
      BY <2>2, FilesAre DEF Active
    <3>2. /\ Silent(Active', Len(Active), t) /\ Same(Active, Active', Len(Active))
          /\ Len(Active) \in Nat /\ Len(Active') \in Nat
      <4>1. Good(files'[dir.events])
        BY <3>1, FilesAre, LenProperties DEF Grown, Ino
      <4> QED BY <2>1, <3>1, <4>1, FilesAre, GoodFile DEF Quiet, Grown, Active
    <3>3. \A i \in 1 .. Len(Active') : IsMarker(Active'[i]) /\ Active'[i].txn = t => i \in 1 .. Len(Active)
      BY <3>2 DEF Silent
    <3> QED BY <2>1, <3>2, <3>3, GoneStays DEF Marked, Same
  <2> QED BY <2>1, <2>2, GoneStays
<1>4. AnswersOK'
  BY <1>2, <1>3 DEF AnswersOK
<1> QED BY <1>1, <1>4 DEF Advances, Inv, Told

-----------------------------------------------------------------------------
(* Types.                                                                  *)

Steps == {"idle", "sync_repair"} \cup AppendSteps \cup ReadSteps \cup RecoverySteps \cup ResetSteps
Job == [txn : ID \cup {None}, ino : Nat, upto : Nat, settled : SUBSET Txn, man : Manifest \cup {None}]

DataOK ==
  /\ files \in Seq(File)
  /\ dir \in Directory /\ disk \in Directory
  /\ vault \subseteq [tail : Seq(Line), synced : BOOLEAN]
  /\ uncertain \in [Proc -> SUBSET [txn : ID, ino : Nat]]
  /\ view \in [Proc -> [seq : Nat, txn : ID \cup {None}, tail : Seq(Line)]]
  /\ tried \subseteq Txn /\ acked \subseteq ID /\ reported \subseteq ID
  /\ denied \subseteq Txn
  /\ faults \in Nat /\ kills \in Nat /\ outages \in Nat

\* p goes on to a step, with a job.
Moves(p, step, j) == pc' = Put(pc, p, step) /\ job' = Put(job, p, j)

LEMMA TypesAre ==
  ASSUME Inv
  PROVE  /\ DataOK /\ pc \in [Proc -> Steps] /\ job \in [Proc -> Job]
         /\ holder \in Proc \cup {None}
         /\ \A p \in Proc : Running(p) => holder = p
BY DEF Inv, TypeOK, DataOK, File, Steps, Job, Running

LEMMA MovesAre ==
  ASSUME Inv, NEW p \in Proc, NEW step, NEW j, Moves(p, step, j)
  PROVE  /\ pc'[p] = step /\ job'[p] = j
         /\ \A q \in Proc \ {p} : pc'[q] = pc[q] /\ job'[q] = job[q]
BY TypesAre DEF Moves, Put

LEMMA TypesKept ==
  ASSUME Inv, DataOK', NEW p \in Proc, NEW step \in Steps, NEW j \in Job, Moves(p, step, j),
         holder' \in Proc \cup {None}, step \notin {"idle"} \cup ReadSteps => holder' = p,
         Alone(p) \/ holder' = holder
  PROVE  TypeOK'
<1>1. pc' \in [Proc -> Steps] /\ job' \in [Proc -> Job]
  BY TypesAre DEF Moves, Put
<1>2. \A q \in Proc : pc'[q] \notin {"idle"} \cup ReadSteps => holder' = q
  <2> SUFFICES ASSUME NEW q \in Proc \ {p}, pc'[q] \notin {"idle"} \cup ReadSteps
               PROVE  holder' = q
    BY MovesAre
  <2>1. Running(q)
    BY MovesAre DEF Running, ReadSteps
  <2> QED BY <2>1, TypesAre DEF Alone
<1> QED BY <1>1, <1>2 DEF TypeOK, DataOK, File, Steps, Job, ReadSteps

\* The operation returns.
LEMMA EndIs ==
  ASSUME Inv, NEW p \in Proc, End(p)
  PROVE  /\ Moves(p, "idle", NoJob) /\ NoJob \in Job /\ NoJob.txn = None
         /\ holder' \in Proc \cup {None} /\ (Alone(p) \/ holder' = holder)
         /\ ProcOK(p)'
<1>1. Moves(p, "idle", NoJob) /\ NoJob \in Job /\ NoJob.txn = None
  BY DEF End, Moves, NoJob, Job
<1>2. holder' \in Proc \cup {None} /\ (holder = p \/ holder' = holder)
  BY TypesAre DEF End
<1>3. holder = p => Alone(p)
  BY TypesAre DEF Alone
<1>4. pc'[p] = "idle"
  BY <1>1, MovesAre
<1>5. ProcOK(p)'
  BY <1>4 DEF ProcOK, Reader, Appender, Recovers, ReadSteps, AppendSteps, RecoverySteps, ResetSteps
<1> QED BY <1>1, <1>2, <1>3, <1>5

LEMMA EndMoves ==
  ASSUME Inv, NEW p \in Proc, End(p), tried' = tried
  PROVE  JobMoves(p)
BY EndIs, MovesAre, TypesAre, NamesAssumption DEF JobMoves, DataOK

\* The operation goes on with its job.
LEMMA GotoIs ==
  ASSUME Inv, NEW p \in Proc, NEW step \in Steps, Goto(p, step), UNCHANGED job, Running(p)
  PROVE  /\ Moves(p, step, job[p]) /\ job[p] \in Job
         /\ pc'[p] = step /\ job'[p] = job[p]
         /\ holder' = p /\ holder' \in Proc \cup {None} /\ Alone(p)
         /\ \A q \in Proc \ {p} : pc'[q] = pc[q] /\ job'[q] = job[q]
<1>1. Moves(p, step, job[p])
  BY TypesAre DEF Goto, Moves, Put
<1>2. holder' = p /\ Alone(p)
  BY TypesAre, FlockExcludes DEF Goto
<1> QED BY <1>1, <1>2, TypesAre, MovesAre

LEMMA GotoMoves ==
  ASSUME Inv, NEW p \in Proc, NEW step \in Steps, Goto(p, step), UNCHANGED job, Running(p), tried' = tried
  PROVE  JobMoves(p)
BY GotoIs DEF JobMoves

-----------------------------------------------------------------------------
(* AppendBatch.                                                            *)

LEMMA OpenLineIs ==
  ASSUME NEW X \in Seq(Line), NEW t \in ID
  PROVE  OpenLine(X, t) \in Line /\ OpenLine(X, t).txn = t
         /\ ~ IsMarker(OpenLine(X, t)) /\ ~ IsTorn(OpenLine(X, t))
<1>1. OpenLine(X, t) \in Line /\ OpenLine(X, t).txn = t /\ Opens(OpenLine(X, t))
  BY MadeLines DEF OpenLine
<1> QED BY <1>1, LineKinds

LEMMA BeginAppendAdvances ==
  ASSUME Inv, NEW p \in Proc, NEW t \in Txn, BeginAppend(p, t)
  PROVE  Advances
<1>1. /\ UNCHANGED <<files, dir, disk, vault, uncertain, view, acked, reported, denied, faults, kills, outages>>
      /\ t \notin tried /\ tried' = tried \cup {t} /\ holder' = p /\ FlockFree
      /\ Moves(p, "write_events", AppendJob(t)) /\ ReadyToAppend(p, t)
  BY DEF BeginAppend, EnterAppend, durable, told, counters, Moves
<1>2. AppendJob(t) \in Job /\ AppendJob(t).txn = t /\ t \in ID
  BY DEF AppendJob, NoJob, Job, ID
<1>3. pc'[p] = "write_events" /\ job'[p].txn = t /\ JobMoves(p)
  BY <1>1, <1>2, MovesAre DEF JobMoves
<1>4. Alone(p)
  BY <1>1, FlockExcludes
<1>5. Grown /\ Quiet
  BY <1>1, NothingGrown
<1>6. StoreOK' /\ Kept
  BY <1>1, <1>5, StoreGrown
<1>7. DataOK'
  BY <1>1, TypesAre DEF DataOK
<1>8. TypeOK'
  BY <1>1, <1>2, <1>4, <1>7, TypesKept DEF Steps, AppendSteps
<1>9. Sound(Append(Append(Active', OpenLine(Active', t)), Mk("marker", t)))
  BY <1>1, <1>2, FreshFits, FilesAre DEF ReadyToAppend, Active
<1>10. ProcOK(p)'
  BY <1>2, <1>3, <1>9 DEF ProcOK, Reader, Appender, Recovers, ReadSteps, AppendSteps, RecoverySteps, ResetSteps
<1> QED BY <1>1, <1>3, <1>4, <1>5, <1>6, <1>8, <1>10, Framed

LEMMA PartIs ==
  ASSUME NEW X \in Seq(Line), NEW a \in Line, NEW b \in Line, NEW part \in { <<>>, <<a>>, <<b>> }
  PROVE  X \o part \in {X, Append(X, a), Append(X, b)}
BY ConcatEmptySeq, AppendIsConcat

\* The open line of p's append fits, and so does any part of it.
LEMMA OpenFits ==
  ASSUME Inv, NEW p \in Proc, pc[p] = "write_events"
  PROVE  LET t == job[p].txn  line == OpenLine(Active, t) IN
         /\ t \in ID /\ line \in Line /\ ~ IsMarker(line) /\ Mk("torn", t) \in Line /\ ~ IsMarker(Mk("torn", t))
         /\ Sound(Append(Active, Mk("torn", t)))
         /\ Sound(Append(Active, line)) /\ Sound(Append(Append(Active, line), Mk("marker", t)))
<1> DEFINE t == job[p].txn
           line == OpenLine(Active, t)
<1>1. t \in ID /\ Sound(Append(Append(Active, line), Mk("marker", t)))
  BY DEF Inv, ProcOK, Appender, AppendSteps
<1>2. /\ line \in Line /\ ~ IsMarker(line) /\ Active \in Seq(Line)
      /\ Mk("torn", t) \in Line /\ ~ IsMarker(Mk("torn", t)) /\ Mk("marker", t) \in Line
  BY <1>1, OpenLineIs, FilesAre, MadeLines, LineKinds
<1> HIDE DEF line, t
<1>3. Append(Active, line) \in Seq(Line)
  BY <1>2, AppendProperties
<1>4. Sound(Append(Active, line))
  BY <1>1, <1>2, <1>3, FrontIsSound
<1>5. Sound(Append(Active, Mk("torn", t)))
  BY <1>1, <1>2, <1>4, FrontIsSound
<1> QED BY <1>1, <1>2, <1>4, <1>5 DEF line, t

LEMMA WriteEventsAdvances ==
  ASSUME Inv, NEW p \in Proc, WriteEvents(p)
  PROVE  Advances
<1> DEFINE t == job[p].txn
           line == OpenLine(Active, t)
           torn == Mk("torn", t)
<1>1. /\ UNCHANGED <<dir, disk, vault, uncertain, view, tried, acked, reported, denied>>
      /\ pc[p] = "write_events"
  BY DEF WriteEvents, told
<1>2. /\ t \in ID /\ line \in Line /\ ~ IsMarker(line) /\ torn \in Line /\ ~ IsMarker(torn)
      /\ Sound(Append(Active, torn)) /\ Active \in Seq(Line) /\ Sound(Active)
      /\ Sound(Append(Active, line)) /\ Sound(Append(Append(Active, line), Mk("marker", t)))
  BY <1>1, OpenFits, FilesAre
<1>3. Alone(p) /\ Running(p)
  BY <1>1, FlockExcludes DEF Running, ReadSteps
<1>4. CASE Write(Append(Active, line)) /\ Goto(p, "sync_events") /\ UNCHANGED <<job, counters>>
  <2>1. Grown /\ Quiet /\ Active' = Append(Active, line)
    <3>1. /\ Grown /\ files'[dir.events].lines = Append(Active, line)
      BY <1>2, <1>4, WriteGrown
    <3>2. Quiet
      BY <1>2, <1>4, WriteQuiet
    <3> QED BY <1>1, <3>1, <3>2 DEF Active
  <2>2. StoreOK' /\ Kept
    BY <1>1, <2>1, StoreGrown
  <2>3. DataOK'
    BY <1>1, <1>4, <2>1, TypesAre DEF DataOK, Grown, counters
  <2>4. "sync_events" \in Steps
    BY DEF Steps, AppendSteps
  <2>5. TypeOK' /\ JobMoves(p)
    BY <1>1, <1>3, <1>4, <2>3, <2>4, GotoIs, GotoMoves, TypesKept
  <2>6. ProcOK(p)'
    BY <1>2, <1>3, <1>4, <2>1, <2>4, GotoIs
       DEF ProcOK, Reader, Appender, Recovers, ReadSteps, AppendSteps, RecoverySteps, ResetSteps
  <2> QED BY <1>1, <1>3, <2>1, <2>2, <2>5, <2>6, Framed
<1>5. CASE /\ SpendFault /\ End(p)
           /\ \E part \in { <<>>, <<torn>>, <<line>> } : Write(Active \o part)
  <2>1. PICK L \in {Active, Append(Active, torn), Append(Active, line)} : Write(L)
    BY <1>2, <1>5, PartIs
  <2>2. /\ Sound(L)
        /\ \/ L = Active
           \/ \E l \in Line : L = Append(Active, l) /\ (IsMarker(l) => ~ Gone(l.txn))
    BY <1>2
  <2>3. Grown /\ Quiet
    BY <2>1, <2>2, WriteGrown, WriteQuiet
  <2>4. StoreOK' /\ Kept
    BY <1>1, <2>3, StoreGrown
  <2>5. DataOK'
    BY <1>1, <1>5, <2>3, TypesAre DEF DataOK, Grown, SpendFault
  <2>6. TypeOK' /\ JobMoves(p) /\ ProcOK(p)'
    BY <1>1, <1>5, <2>5, EndIs, EndMoves, TypesKept DEF Steps
  <2> QED BY <1>1, <1>3, <2>3, <2>4, <2>6, Framed
<1> QED BY <1>4, <1>5 DEF WriteEvents

\* The file processes see is synchronised under the flock.
LEMMA SyncKeeps ==
  ASSUME Inv, SyncFile(dir.events), dir'.events = dir.events, disk'.events = disk.events
  PROVE  /\ Grown /\ Quiet /\ StoreOK' /\ Kept /\ Active' = Active /\ Seen'.synced = Len(Active)
         /\ files' \in Seq(File)
<1>1. /\ Grown /\ Quiet /\ \A i \in Ino : files'[i].lines = files[i].lines
      /\ files'[dir.events].synced = Len(files[dir.events].lines) /\ dir.events \in Ino
  BY SyncGrown, FilesAre
<1>2. StoreOK' /\ Kept
  BY <1>1, StoreGrown
<1> QED BY <1>1, <1>2 DEF Active, Seen, Grown

LEMMA SyncEventsAdvances ==
  ASSUME Inv, NEW p \in Proc, SyncEvents(p)
  PROVE  Advances
<1>1. /\ UNCHANGED <<dir, disk, vault, uncertain, job, view, tried, acked, reported, denied, faults, kills, outages>>
      /\ pc[p] = "sync_events" /\ Goto(p, "write_marker") /\ SyncFile(dir.events)
  BY DEF SyncEvents, told, counters
<1>2. Alone(p) /\ Running(p) /\ "write_marker" \in Steps
  BY <1>1, FlockExcludes DEF Running, ReadSteps, Steps, AppendSteps
<1>3. Grown /\ Quiet /\ StoreOK' /\ Kept /\ Active' = Active /\ files' \in Seq(File)
  BY <1>1, SyncKeeps
<1>4. DataOK'
  BY <1>1, <1>3, TypesAre DEF DataOK
<1>5. TypeOK' /\ JobMoves(p)
  BY <1>1, <1>2, <1>4, GotoIs, GotoMoves, TypesKept
<1>6. Appender(p)
  BY DEF Inv, ProcOK
<1>7. ProcOK(p)'
  BY <1>1, <1>2, <1>3, <1>6, GotoIs
     DEF ProcOK, Reader, Appender, Recovers, ReadSteps, AppendSteps, RecoverySteps, ResetSteps
<1> QED BY <1>1, <1>2, <1>3, <1>5, <1>7, Framed

LEMMA WriteMarkerAdvances ==
  ASSUME Inv, NEW p \in Proc, WriteMarker(p)
  PROVE  Advances
<1> DEFINE t == job[p].txn
           mark == Mk("marker", t)
           torn == Mk("torn", t)
<1>1. /\ UNCHANGED <<dir, disk, vault, view, tried, acked, reported, denied>>
      /\ pc[p] = "write_marker"
      /\ uncertain' = Put(uncertain, p, uncertain[p] \cup {[txn |-> t, ino |-> dir.events]})
  BY DEF WriteMarker, told
<1>2. t \in ID /\ Sound(Append(Active, mark)) /\ Active \in Seq(Line) /\ Sound(Active)
  BY <1>1, FilesAre DEF Inv, ProcOK, Appender, AppendSteps
<1>3. /\ mark \in Line /\ torn \in Line /\ ~ IsMarker(torn) /\ IsMarker(mark) /\ mark.txn = t
      /\ ~ Gone(t)
  BY <1>2, MadeLines, LineKinds DEF Gone
<1>4. Sound(Append(Active, torn))
  BY <1>2, <1>3, FrontIsSound
<1>5. Alone(p) /\ Running(p)
  BY <1>1, FlockExcludes DEF Running, ReadSteps
<1>6. uncertain' \in [Proc -> SUBSET [txn : ID, ino : Nat]]
  <2>1. dir.events \in Nat
    BY FilesAre DEF Ino
  <2> QED BY <1>1, <1>2, <2>1, TypesAre DEF DataOK, Put
<1> HIDE DEF mark, torn
<1>7. ASSUME NEW L, Write(L), L \in {Active, Append(Active, torn), Append(Active, mark)}
      PROVE  Grown /\ Quiet /\ StoreOK' /\ Kept /\ Active' = L /\ files' \in Seq(File)
  <2>1. /\ Sound(L)
        /\ \/ L = Active
           \/ \E l \in Line : L = Append(Active, l) /\ (IsMarker(l) => ~ Gone(l.txn))
    BY <1>2, <1>3, <1>4, <1>7
  <2>2. Grown /\ Quiet /\ files'[dir.events].lines = L
    BY <1>7, <2>1, WriteGrown, WriteQuiet
  <2> QED BY <1>1, <2>2, StoreGrown DEF Active, Grown
<1>8. CASE Write(Append(Active, mark)) /\ Goto(p, "sync_marker") /\ UNCHANGED <<job, counters>>
  <2>1. Grown /\ Quiet /\ StoreOK' /\ Kept /\ Active' = Append(Active, mark) /\ files' \in Seq(File)
    BY <1>7, <1>8
  <2>2. DataOK'
    BY <1>1, <1>6, <1>8, <2>1, TypesAre DEF DataOK, counters
  <2>3. "sync_marker" \in Steps
    BY DEF Steps, AppendSteps
  <2>4. TypeOK' /\ JobMoves(p)
    BY <1>1, <1>5, <1>8, <2>2, <2>3, GotoIs, GotoMoves, TypesKept
  <2>5. Marked(Active', t)
    <3>1. /\ Len(Active') = Len(Active) + 1 /\ Active'[Len(Active) + 1] = mark
          /\ Len(Active) \in Nat
      BY <1>2, <1>3, <2>1, AppendProperties, LenProperties
    <3>2. Len(Active) + 1 \in 1 .. Len(Active')
      BY <3>1
    <3> QED BY <1>3, <3>1, <3>2 DEF Marked
  <2>6. ProcOK(p)'
    BY <1>2, <1>5, <1>8, <2>3, <2>5, GotoIs
       DEF ProcOK, Reader, Appender, Recovers, ReadSteps, AppendSteps, RecoverySteps, ResetSteps
  <2> QED BY <1>1, <1>5, <2>1, <2>4, <2>6, Framed
<1>9. CASE /\ SpendFault /\ End(p)
           /\ \E part \in { <<>>, <<torn>>, <<mark>> } : Write(Active \o part)
  <2>1. PICK L \in {Active, Append(Active, torn), Append(Active, mark)} : Write(L)
    BY <1>2, <1>3, <1>9, PartIs
  <2>2. Grown /\ Quiet /\ StoreOK' /\ Kept /\ files' \in Seq(File)
    BY <1>7, <2>1
  <2>3. DataOK'
    <3>1. faults' = faults + 1 /\ UNCHANGED <<kills, outages>>
      BY <1>9 DEF SpendFault
    <3>2. UNCHANGED <<dir, disk, vault, view, tried, acked, reported, denied>>
      BY <1>1
    <3> QED BY <1>6, <2>2, <3>1, <3>2, TypesAre DEF DataOK
  <2>4. TypeOK' /\ JobMoves(p) /\ ProcOK(p)'
    BY <1>1, <1>9, <2>3, EndIs, EndMoves, TypesKept DEF Steps
  <2> QED BY <1>1, <1>5, <2>2, <2>4, Framed
<1> QED BY <1>8, <1>9 DEF WriteMarker, mark, torn

LEMMA SyncMarkerAdvances ==
  ASSUME Inv, NEW p \in Proc, SyncMarker(p)
  PROVE  Advances
<1>1. /\ UNCHANGED <<dir, disk, vault, uncertain, job, view, tried, acked, reported, denied, faults, kills, outages>>
      /\ pc[p] = "sync_marker" /\ Goto(p, "write_metadata") /\ SyncFile(dir.events)
  BY DEF SyncMarker, told, counters
<1>2. Alone(p) /\ Running(p) /\ "write_metadata" \in Steps
  BY <1>1, FlockExcludes DEF Running, ReadSteps, Steps, AppendSteps
<1>3. /\ Grown /\ Quiet /\ StoreOK' /\ Kept /\ files' \in Seq(File)
      /\ Active' = Active /\ Seen'.synced = Len(Active)
  BY <1>1, SyncKeeps
<1>4. DataOK'
  BY <1>1, <1>3, TypesAre DEF DataOK
<1>5. TypeOK' /\ JobMoves(p)
  BY <1>1, <1>2, <1>4, GotoIs, GotoMoves, TypesKept
<1>6. Appender(p)
  BY DEF Inv, ProcOK
<1>7. ProcOK(p)'
  BY <1>1, <1>2, <1>3, <1>6, GotoIs
     DEF ProcOK, Reader, Appender, Recovers, ReadSteps, AppendSteps, RecoverySteps, ResetSteps
<1> QED BY <1>1, <1>2, <1>3, <1>5, <1>7, Framed

LEMMA WriteMetadataAdvances ==
  ASSUME Inv, NEW p \in Proc, WriteMetadata(p)
  PROVE  Advances
<1>1. /\ UNCHANGED <<files, disk, vault, uncertain, job, view, tried, acked, reported, denied, faults, kills, outages>>
      /\ dir' = [dir EXCEPT !.lastSeq = Len(Active)]
      /\ pc[p] = "write_metadata" /\ Goto(p, "sync_directory")
  BY DEF WriteMetadata, told, counters
<1>2. Alone(p) /\ Running(p) /\ "sync_directory" \in Steps
  BY <1>1, FlockExcludes DEF Running, ReadSteps, Steps, AppendSteps
<1>3. dir' \in Directory /\ dir'.events = dir.events
  BY <1>1, TypesAre, FilesAre DEF DataOK, Directory
<1>4. Grown /\ Quiet /\ StoreOK' /\ Kept
  BY <1>1, <1>3, NothingGrown, StoreGrown
<1>5. DataOK'
  BY <1>1, <1>3, TypesAre DEF DataOK
<1>6. TypeOK' /\ JobMoves(p)
  BY <1>1, <1>2, <1>5, GotoIs, GotoMoves, TypesKept
<1>7. Appender(p) /\ Active' = Active /\ Seen' = Seen
  BY <1>1, <1>3 DEF Inv, ProcOK, Active, Seen
<1>8. ProcOK(p)'
  BY <1>1, <1>2, <1>7, GotoIs
     DEF ProcOK, Reader, Appender, Recovers, ReadSteps, AppendSteps, RecoverySteps, ResetSteps
<1> QED BY <1>1, <1>2, <1>3, <1>4, <1>6, <1>8, Framed

LEMMA DurablyMarked ==
  ASSUME NEW F, Good(F), NEW t, NEW i \in 1 .. F.synced, IsMarker(F.lines[i]), F.lines[i].txn = t
  PROVE  Marked(Durable(F), t)
<1>1. Same(F.lines, Durable(F), F.synced) /\ Len(Durable(F)) = F.synced
  BY GoodFile
<1>2. Durable(F)[i] = F.lines[i]
  BY <1>1 DEF Same
<1> QED BY <1>1, <1>2 DEF Marked

LEMMA FinishAppendAdvances ==
  ASSUME Inv, NEW p \in Proc, FinishAppend(p)
  PROVE  Advances
<1> DEFINE t == job[p].txn
<1>1. /\ UNCHANGED <<files, dir, vault, tried, reported, denied, faults, kills, outages>>
      /\ pc[p] = "sync_directory" /\ disk' = dir /\ End(p)
      /\ uncertain' = Put(uncertain, p, {u \in uncertain[p] : u.txn # t})
      /\ view' = Put(view, p, [seq |-> Len(Active), txn |-> t, tail |-> <<>>])
      /\ acked' = acked \cup {t}
  BY DEF FinishAppend, counters
<1>2. Alone(p)
  BY <1>1, FlockExcludes DEF Running, ReadSteps
<1>3. Grown /\ Quiet /\ StoreOK' /\ Kept
  BY <1>1, NothingGrown, StoreSynced
<1>4. t \in ID /\ Marked(Active, t) /\ Seen.synced = Len(Active) /\ Seen.lines = Active
  BY <1>1 DEF Inv, ProcOK, Appender, AppendSteps, Active, Seen
<1>5. Marked(Durable(Stable'), t)
  <2>1. Stable' = Seen
    BY <1>1 DEF Stable, Seen
  <2>2. PICK i \in 1 .. Len(Active) : IsMarker(Active[i]) /\ Active[i].txn = t
    BY <1>4 DEF Marked
  <2>3. Marked(Durable(Seen), t)
    BY <1>4, <2>2, StableIs, DurablyMarked
  <2>4. Durable(Stable') = Durable(Seen)
    BY <2>1
  <2> QED BY <2>3, <2>4
<1>6. DataOK'
  <2>1. uncertain' \in [Proc -> SUBSET [txn : ID, ino : Nat]]
    BY <1>1, TypesAre DEF DataOK, Put
  <2>2. view' \in [Proc -> [seq : Nat, txn : ID \cup {None}, tail : Seq(Line)]]
    <3>1. [seq |-> Len(Active), txn |-> t, tail |-> <<>>] \in [seq : Nat, txn : ID \cup {None}, tail : Seq(Line)]
      BY <1>4, FilesAre, EmptySeq
    <3> QED BY <1>1, <3>1, TypesAre DEF DataOK, Put
  <2> QED BY <1>1, <1>4, <2>1, <2>2, TypesAre DEF DataOK
<1>7. TypeOK' /\ JobMoves(p) /\ ProcOK(p)'
  BY <1>1, <1>6, EndIs, EndMoves, TypesKept DEF Steps
<1> QED BY <1>1, <1>2, <1>3, <1>5, <1>7, Framed

-----------------------------------------------------------------------------
(* Reads.                                                                  *)

LEMMA BeginReadAdvances ==
  ASSUME Inv, NEW p \in Proc, BeginRead(p)
  PROVE  Advances
<1> DEFINE settled == {t \in tried : \A q \in Proc : job[q].txn # t}
           j == [NoJob EXCEPT !.ino = dir.events, !.upto = Len(Active), !.settled = settled]
<1>1. /\ UNCHANGED <<files, dir, disk, vault, uncertain, view, holder, tried, acked, reported, denied, faults, kills, outages>>
      /\ pc[p] = "idle" /\ Moves(p, "sync_view", j)
  BY DEF BeginRead, Scan, durable, told, counters, Moves
<1>2. /\ j \in Job /\ j.txn = None /\ j.ino = dir.events /\ j.upto = Len(Active) /\ j.settled = settled
      /\ Len(Active) \in Nat /\ dir.events \in Ino
  <2>1. Len(Active) \in Nat /\ dir.events \in Ino /\ dir.events \in Nat /\ settled \subseteq Txn
    BY FilesAre, TypesAre DEF Ino, DataOK
  <2> HIDE DEF settled
  <2> QED BY <2>1 DEF NoJob, Job
<1> HIDE DEF j
<1>3. JobMoves(p)
  <2>1. None \notin tried
    BY TypesAre, NamesAssumption DEF DataOK
  <2>2. job'[p] = j /\ \A q \in Proc \ {p} : pc'[q] = pc[q] /\ job'[q] = job[q]
    BY <1>1, MovesAre
  <2>3. job'[p].txn = None /\ tried \subseteq tried'
    BY <1>1, <1>2, <2>2
  <2> QED BY <2>1, <2>2, <2>3 DEF JobMoves
<1>4. OnlySynced
  <2>1. \A i \in Ino : files'[i].lines = files[i].lines /\ files'[i].synced = files[i].synced
    BY <1>1
  <2> QED BY <1>1, <2>1 DEF OnlySynced
<1>5. Grown /\ Quiet /\ StoreOK' /\ Kept
  BY <1>1, NothingGrown, StoreGrown
<1>6. DataOK'
  BY <1>1, TypesAre DEF DataOK
<1>7. TypeOK'
  BY <1>1, <1>2, <1>6, TypesAre, TypesKept DEF Steps, ReadSteps
<1>8. /\ pc'[p] = "sync_view" /\ job'[p] = j
      /\ files'[dir.events].lines = Active /\ Ino' = Ino
  BY <1>1, MovesAre DEF Active, Ino
<1>9. \A t \in settled : Gone(t)' /\ Silent(Active, Len(Active), t)
  <2>1. \A t \in settled : Gone(t)
    BY DEF Gone
  <2> QED BY <1>2, <1>3, <2>1, GoneStays DEF Silent
<1>10. Reader(p)'
  BY <1>2, <1>8, <1>9 DEF Reader
<1>11. ProcOK(p)'
  BY <1>8, <1>10 DEF ProcOK, Appender, Recovers, AppendSteps, RecoverySteps, ResetSteps
<1> QED BY <1>1, <1>3, <1>4, <1>5, <1>7, <1>11, Framed

\* A read that returns has synchronised its file, and changed nothing else.
LEMMA ReadReturns ==
  ASSUME Inv, NEW p \in Proc, pc[p] = "sync_view", SyncFile(job[p].ino), End(p),
         UNCHANGED <<dir, disk, vault, tried, acked>>, DataOK',
         denied \subseteq denied', \A t \in denied' \ denied : Gone(t) /\ ~ Marked(Active, t)
  PROVE  Advances
<1>1. job[p].ino \in Ino
  BY DEF Inv, ProcOK, Reader, ReadSteps
<1>2. /\ Grown /\ Quiet /\ Len(files') = Len(files)
      /\ \A i \in Ino : /\ files'[i].lines = files[i].lines
                        /\ files'[i].synced \in {files[i].synced, Len(files[i].lines)}
  BY <1>1, SyncGrown
<1>3. StoreOK' /\ Kept
  BY <1>2, StoreGrown
<1>4. OnlySynced
  BY <1>2 DEF OnlySynced
<1>5. TypeOK' /\ JobMoves(p) /\ ProcOK(p)'
  BY EndIs, EndMoves, TypesKept DEF Steps
<1> QED BY <1>2, <1>3, <1>4, <1>5, Framed

\* What a reader has scanned is the front of its file.
LEMMA SnapshotIs ==
  ASSUME Inv, NEW p \in Proc, pc[p] = "sync_view"
  PROVE  /\ job[p].ino \in Ino /\ job[p].upto \in 0 .. Len(files[job[p].ino].lines)
         /\ Snapshot(p) \in Seq(Line) /\ Len(Snapshot(p)) = job[p].upto
         /\ Same(files[job[p].ino].lines, Snapshot(p), job[p].upto) /\ Sound(Snapshot(p))
<1>1. job[p].ino \in Ino /\ job[p].upto <= Len(files[job[p].ino].lines)
  BY DEF Inv, ProcOK, Reader, ReadSteps
<1>2. job[p].upto \in Nat
  BY TypesAre DEF Job
<1>3. /\ files[job[p].ino].lines \in Seq(Line) /\ Len(files[job[p].ino].lines) \in Nat
      /\ Sound(files[job[p].ino].lines)
  BY <1>1, FilesAre, GoodFile DEF Good
<1>4. job[p].upto \in 0 .. Len(files[job[p].ino].lines)
  BY <1>1, <1>2, <1>3
<1>5. /\ Snapshot(p) \in Seq(Line) /\ Len(Snapshot(p)) = job[p].upto
      /\ Same(files[job[p].ino].lines, Snapshot(p), job[p].upto)
  BY <1>3, <1>4, PrefixIs DEF Snapshot
<1>6. Sound(Snapshot(p))
  BY <1>2, <1>3, <1>5, SoundCut
<1> QED BY <1>1, <1>4, <1>5, <1>6

LEMMA FinishInspectAdvances ==
  ASSUME Inv, NEW p \in Proc, FinishInspect(p)
  PROVE  Advances
<1>1. /\ UNCHANGED <<dir, disk, vault, tried, acked, denied, faults, kills, outages>>
      /\ pc[p] = "sync_view" /\ SyncFile(job[p].ino) /\ End(p)
      /\ uncertain' = Put(uncertain, p, {})
      /\ reported' = reported \cup Committed(Snapshot(p))
  BY DEF FinishInspect, ViewSynced, ViewCurrent, counters
<1>2. files' \in Seq(File)
  BY <1>1, SnapshotIs, SyncGrown DEF Grown
<1>3. view' \in [Proc -> [seq : Nat, txn : ID \cup {None}, tail : Seq(Line)]]
  <2>1. PICK h \in 1 .. job[p].upto :
          view' = Put(view, p, [seq |-> h, txn |-> Snapshot(p)[h].txn,
                                tail |-> SubSeq(Snapshot(p), h + 1, job[p].upto)])
    BY DEF FinishInspect
  <2>2. Snapshot(p) \in Seq(Line) /\ Len(Snapshot(p)) = job[p].upto /\ job[p].upto \in Nat
    BY <1>1, SnapshotIs
  <2>3. Snapshot(p)[h] \in Line /\ h \in Nat /\ \A i \in h + 1 .. job[p].upto : Snapshot(p)[i] \in Line
    BY <2>2, ElementOfSeq
  <2>4. SubSeq(Snapshot(p), h + 1, job[p].upto) \in Seq(Line)
    BY <2>2, <2>3, SubSeqProperties
  <2>5. Snapshot(p)[h].txn \in ID \cup {None}
    BY <2>3 DEF Line
  <2> QED BY <2>1, <2>3, <2>4, <2>5, TypesAre DEF DataOK, Put
<1>4. DataOK'
  <2>1. uncertain' \in [Proc -> SUBSET [txn : ID, ino : Nat]]
    BY <1>1, TypesAre DEF DataOK, Put
  <2>2. reported' \subseteq ID
    BY <1>1, TypesAre DEF DataOK, Committed
  <2> QED BY <1>1, <1>2, <1>3, <2>1, <2>2, TypesAre DEF DataOK
<1> QED BY <1>1, <1>4, ReadReturns

\* A transaction that settled before a scan that lacks it has no marker.
LEMMA FinishLookupAdvances ==
  ASSUME Inv, NEW p \in Proc, NEW t \in Txn, FinishLookup(p, t)
  PROVE  Advances
<1>1. /\ UNCHANGED <<dir, disk, vault, view, tried, acked, faults, kills, outages>>
      /\ pc[p] = "sync_view" /\ SyncFile(job[p].ino) /\ End(p)
      /\ dir.events = job[p].ino
      /\ uncertain' = Put(uncertain, p, {}) /\ t \in ID
  BY DEF FinishLookup, ViewSynced, ViewCurrent, counters, ID
<1>2. files' \in Seq(File)
  BY <1>1, SnapshotIs, SyncGrown DEF Grown
<1>3. DataOK'
  <2>1. uncertain' \in [Proc -> SUBSET [txn : ID, ino : Nat]]
    BY <1>1, TypesAre DEF DataOK, Put
  <2>2. reported' \subseteq ID /\ denied' \subseteq Txn
    BY <1>1, TypesAre DEF DataOK, FinishLookup
  <2> QED BY <1>1, <1>2, <2>1, <2>2, TypesAre DEF DataOK
<1>4. CASE IsCommitted(Snapshot(p), t)
  <2>1. denied' = denied
    BY <1>4 DEF FinishLookup
  <2> QED BY <1>1, <1>3, <2>1, ReadReturns
<1>5. CASE ~ IsCommitted(Snapshot(p), t)
  <2>1. denied' = denied \cup {t} /\ t \in job[p].settled
    BY <1>5 DEF FinishLookup
  <2>2. Gone(t) /\ Silent(Active, job[p].upto, t)
    BY <1>1, <2>1 DEF Inv, ProcOK, Reader, ReadSteps, Active
  <2>3. ~ Marked(Snapshot(p), t)
    BY <1>1, <1>5, SnapshotIs, CommittedIs
  <2>4. ~ Marked(Active, t)
    <3> SUFFICES ASSUME NEW i \in 1 .. Len(Active), IsMarker(Active[i]), Active[i].txn = t
                 PROVE  FALSE
      BY DEF Marked
    <3>1. /\ job[p].upto \in 0 .. Len(Active) /\ Same(Active, Snapshot(p), job[p].upto)
          /\ Len(Snapshot(p)) = job[p].upto /\ Len(Active) \in Nat
      BY <1>1, SnapshotIs, FilesAre DEF Active
    <3>2. CASE i <= job[p].upto
      BY <2>3, <3>1, <3>2 DEF Same, Marked
    <3>3. CASE i > job[p].upto
      BY <2>2, <3>1, <3>3 DEF Silent
    <3> QED BY <3>1, <3>2, <3>3
  <2> QED BY <1>1, <1>3, <2>1, <2>2, <2>4, ReadReturns
<1> QED BY <1>4, <1>5

LEMMA FailReadAdvances ==
  ASSUME Inv, NEW p \in Proc, FailRead(p)
  PROVE  Advances
<1>1. CASE ReadReplaced(p)
  <2>1. /\ UNCHANGED <<dir, disk, vault, uncertain, view, tried, acked, reported, denied, faults, kills, outages>>
        /\ pc[p] = "sync_view" /\ SyncFile(job[p].ino) /\ End(p)
    BY <1>1 DEF ReadReplaced, told, counters
  <2>2. files' \in Seq(File)
    BY <2>1, SnapshotIs, SyncGrown DEF Grown
  <2>3. DataOK'
    BY <2>1, <2>2, TypesAre DEF DataOK
  <2> QED BY <2>1, <2>3, ReadReturns
<1>2. CASE /\ pc[p] = "sync_view" /\ ~ Resolved(p) /\ End(p)
           /\ UNCHANGED <<durable, uncertain, view, tried, told, counters>>
  <2>1. UNCHANGED <<files, dir, disk, vault, uncertain, view, tried, acked, reported, denied, faults, kills, outages>>
    BY <1>2 DEF durable, told, counters
  <2>2. DataOK' /\ Grown /\ Quiet /\ StoreOK' /\ Kept
    BY <2>1, NothingGrown, StoreGrown, TypesAre DEF DataOK
  <2>3. TypeOK' /\ JobMoves(p) /\ ProcOK(p)'
    BY <1>2, <2>1, <2>2, EndIs, EndMoves, TypesKept DEF Steps
  <2>4. OnlySynced
    BY <2>1 DEF OnlySynced
  <2> QED BY <2>1, <2>2, <2>3, <2>4, Framed
<1> QED BY <1>1, <1>2 DEF FailRead

-----------------------------------------------------------------------------
(* RecoverSession.                                                         *)

\* A journal is its front and the rest.
LEMMA SplitIs ==
  ASSUME NEW X \in Seq(Line), NEW h \in 0 .. Len(X)
  PROVE  /\ Prefix(X, h) \in Seq(Line) /\ Len(Prefix(X, h)) = h
         /\ SubSeq(X, h + 1, Len(X)) \in Seq(Line)
         /\ Prefix(X, h) \o SubSeq(X, h + 1, Len(X)) = X
         /\ Extends(X, Prefix(X, h))
<1>1. Len(X) \in Nat /\ h \in Nat /\ h <= Len(X)
  BY LenProperties
<1>2. Prefix(X, h) \in Seq(Line) /\ Len(Prefix(X, h)) = h
  BY PrefixIs
<1>3. SubSeq(X, h + 1, Len(X)) \in Seq(Line)
  <2>1. \A i \in h + 1 .. Len(X) : X[i] \in Line
    BY <1>1, ElementOfSeq
  <2> QED BY <1>1, <2>1, SubSeqProperties
<1>4. Prefix(X, h) \o SubSeq(X, h + 1, Len(X)) = X
  <2>1. 1 \in 1 .. Len(X) + 1 /\ h \in 1 - 1 .. Len(X) /\ Len(X) \in h .. Len(X)
    BY <1>1
  <2>2. SubSeq(X, 1, h) \o SubSeq(X, h + 1, Len(X)) = SubSeq(X, 1, Len(X))
    BY <2>1, ConcatAdjacentSubSeq
  <2> QED BY <2>2, SubSeqFull DEF Prefix
<1> QED BY <1>1, <1>2, <1>3, <1>4 DEF Extends

LEMMA JoinIs ==
  ASSUME NEW X \in Seq(Line), NEW Y \in Seq(Line)
  PROVE  SubSeq(X \o Y, Len(X) + 1, Len(X \o Y)) = Y
<1> DEFINE Z == X \o Y
<1>1. /\ Z \in Seq(Line) /\ Len(Z) = Len(X) + Len(Y) /\ Len(X) \in Nat /\ Len(Y) \in Nat
      /\ \A i \in 1 .. Len(X) + Len(Y) : Z[i] = IF i <= Len(X) THEN X[i] ELSE Y[i - Len(X)]
  BY ConcatProperties, LenProperties
<1> HIDE DEF Z
<1>2. \A i \in Len(X) + 1 .. Len(Z) : Z[i] \in Line
  BY <1>1, ElementOfSeq
<1> DEFINE R == SubSeq(Z, Len(X) + 1, Len(Z))
<1>3. /\ R \in Seq(Line) /\ Len(R) = IF Len(X) + 1 <= Len(Z) THEN Len(Z) - (Len(X) + 1) + 1 ELSE 0
      /\ \A i \in 1 .. Len(Z) - (Len(X) + 1) + 1 : R[i] = Z[Len(X) + 1 + i - 1]
  BY <1>1, <1>2, SubSeqProperties
<1> HIDE DEF R
<1>4. Len(R) = Len(Y)
  BY <1>1, <1>3
<1>5. \A i \in 1 .. Len(Y) : R[i] = Y[i]
  <2> TAKE i \in 1 .. Len(Y)
  <2>1. R[i] = Z[Len(X) + i]
    BY <1>1, <1>3
  <2>2. Z[Len(X) + i] = Y[Len(X) + i - Len(X)] /\ Len(X) + i - Len(X) = i
    BY <1>1
  <2> QED BY <2>1, <2>2
<1>6. R = Y
  BY <1>3, <1>4, <1>5, SeqEqual
<1> QED BY <1>6 DEF R, Z

\* The process past the flock changes neither the lines nor the answers.
LEMMA Steady ==
  ASSUME Inv, NEW p \in Proc, Alone(p), JobMoves(p), UNCHANGED <<files, acked, denied>>,
         dir'.events = dir.events, disk'.events \in {disk.events, dir.events},
         TypeOK', ProcOK(p)'
  PROVE  Advances
<1>1. Grown /\ Quiet
  BY NothingGrown
<1>2. StoreOK' /\ Kept
  BY <1>1, StoreGrown, StoreSynced
<1> QED BY <1>1, <1>2, Framed

LEMMA ManifestsAre ==
  ASSUME Inv, NEW m \in dir.manifests
  PROVE  m \in Manifest /\ m.op \in Op /\ m.op \in ID /\ m.op \notin tried
         /\ m.prefix \in Seq(Line) /\ m.tail \in Seq(Line)
<1>1. m \in Manifest
  BY TypesAre DEF DataOK, Directory
<1> QED BY <1>1, TypesAre, NamesAssumption DEF Manifest, DataOK, ID

LEMMA RecoveryStarts ==
  ASSUME Inv, NEW p \in Proc, NEW m \in Manifest, NEW step \in Steps \ {"idle"},
         StartRecovery(p, m, step), DataOK', tried' = tried
  PROVE  /\ pc'[p] = step /\ job'[p].txn = m.op /\ job'[p].man = m /\ m.op \in Op
         /\ JobMoves(p) /\ Alone(p) /\ TypeOK'
<1> DEFINE j == [NoJob EXCEPT !.txn = m.op, !.man = m]
<1>1. m.op \in Op /\ m.op \in ID /\ m.op \notin tried
  BY TypesAre, NamesAssumption DEF Manifest, DataOK, ID
<1>2. j \in Job /\ j.txn = m.op /\ j.man = m
  BY <1>1 DEF NoJob, Job
<1>3. Moves(p, step, j) /\ holder' = p /\ Alone(p)
  BY FlockExcludes DEF StartRecovery, Moves
<1> HIDE DEF j
<1>4. pc'[p] = step /\ job'[p] = j /\ \A q \in Proc \ {p} : pc'[q] = pc[q] /\ job'[q] = job[q]
  BY <1>3, MovesAre
<1>5. JobMoves(p)
  BY <1>1, <1>2, <1>4 DEF JobMoves
<1>6. TypeOK'
  BY <1>2, <1>3, TypesKept
<1> QED BY <1>1, <1>2, <1>3, <1>4, <1>5, <1>6

LEMMA BeginRecoveryAdvances ==
  ASSUME Inv, NEW p \in Proc, NEW o \in Op, BeginRecovery(p, o)
  PROVE  Advances
<1>1. /\ UNCHANGED <<files, dir, disk, vault, uncertain, view, tried, acked, reported, denied, faults, kills, outages>>
  BY DEF BeginRecovery, durable, told, counters
<1>2. PICK h \in 1 .. Len(Active) :
        /\ IsHead(Active, h)
        /\ StartRecovery(p, [op |-> o, prefix |-> Prefix(Active, h),
                             tail |-> SubSeq(Active, h + 1, Len(Active))], "manifest")
  BY DEF BeginRecovery
<1> DEFINE m == [op |-> o, prefix |-> Prefix(Active, h), tail |-> SubSeq(Active, h + 1, Len(Active))]
<1>3. /\ Prefix(Active, h) \in Seq(Line) /\ Len(Prefix(Active, h)) = h
      /\ SubSeq(Active, h + 1, Len(Active)) \in Seq(Line)
      /\ Prefix(Active, h) \o SubSeq(Active, h + 1, Len(Active)) = Active
      /\ Extends(Active, Prefix(Active, h))
  <2>1. Active \in Seq(Line) /\ h \in 0 .. Len(Active)
    BY FilesAre
  <2> QED BY <2>1, SplitIs
<1>4. m \in Manifest /\ Active = m.prefix \o m.tail /\ Extends(Active, m.prefix) /\ IsHead(Active, Len(m.prefix))
  BY <1>2, <1>3 DEF Manifest
<1>5. StartRecovery(p, m, "manifest")
  BY <1>2
<1> HIDE DEF m
<1>6. DataOK'
  BY <1>1, TypesAre DEF DataOK
<1>7. /\ pc'[p] = "manifest" /\ job'[p].txn \in Op /\ job'[p].man = m
      /\ JobMoves(p) /\ Alone(p) /\ TypeOK'
  BY <1>1, <1>4, <1>5, <1>6, RecoveryStarts DEF Steps, RecoverySteps
<1>8. Active' = Active
  BY <1>1 DEF Active
<1>9. Recovers(p)'
  BY <1>4, <1>7, <1>8 DEF Recovers
<1>10. ProcOK(p)'
  BY <1>7, <1>9 DEF ProcOK, Reader, Appender, ReadSteps, AppendSteps
<1> QED BY <1>1, <1>7, <1>10, Steady

LEMMA ResumeRecoveryAdvances ==
  ASSUME Inv, NEW p \in Proc, NEW m \in dir.manifests, ResumeRecovery(p, m)
  PROVE  Advances
<1>1. /\ UNCHANGED <<files, dir, disk, vault, uncertain, view, tried, acked, reported, denied, faults, kills, outages>>
      /\ Extends(Active, m.prefix) /\ IsHead(Active, Len(m.prefix))
      /\ StartRecovery(p, m, ResumeStep(m))
  BY DEF ResumeRecovery, BoundToManifest, durable, told, counters
<1>2. /\ ResumeStep(m) \in {"keep_partial", "quarantine", "sync_activation"}
      /\ ResumeStep(m) = "quarantine" => Active = m.prefix \o m.tail
  BY DEF ResumeStep
<1>3. m \in Manifest
  BY ManifestsAre
<1>4. DataOK'
  BY <1>1, TypesAre DEF DataOK
<1>5. ResumeStep(m) \in Steps \ {"idle"}
  BY <1>2 DEF Steps, RecoverySteps, ResetSteps
<1>6. /\ pc'[p] = ResumeStep(m) /\ job'[p].txn \in Op /\ job'[p].man = m
      /\ JobMoves(p) /\ Alone(p) /\ TypeOK'
  BY <1>1, <1>3, <1>4, <1>5, RecoveryStarts
<1>7. Active' = Active
  BY <1>1 DEF Active
<1>8. Recovers(p)'
  BY <1>1, <1>2, <1>3, <1>6, <1>7 DEF Recovers
<1>9. ProcOK(p)'
  BY <1>2, <1>6, <1>8 DEF ProcOK, Reader, Appender, ReadSteps, AppendSteps
<1> QED BY <1>1, <1>6, <1>9, Steady

\* The head of a repaired journal goes into its metadata.
LEMMA RepairCommittedAdvances ==
  ASSUME Inv, NEW p \in Proc, NEW m \in dir.manifests, RepairCommitted(p, m)
  PROVE  Advances
<1>1. /\ UNCHANGED <<disk, vault, view, tried, acked, reported, denied, faults, kills, outages>>
      /\ SyncFile(dir.events) \/ UNCHANGED files
  BY DEF RepairCommitted, counters
<1>2. PICK h \in 1 .. Len(Active) :
        /\ dir' = [dir EXCEPT !.lastSeq = h]
        /\ \/ StartRecovery(p, m, "sync_repair") /\ UNCHANGED uncertain
           \/ FlockFree /\ End(p) /\ Repaired(p, m.op)
  BY DEF RepairCommitted
<1>3. /\ Grown /\ Quiet /\ dir'.events = dir.events
  <2>1. Grown /\ Quiet
    BY <1>1, NothingGrown, SyncGrown, FilesAre
  <2>2. dir'.events = dir.events
    BY <1>2, TypesAre DEF DataOK, Directory
  <2> QED BY <2>1, <2>2
<1>4. StoreOK' /\ Kept
  BY <1>1, <1>3, StoreGrown
<1>5. DataOK'
  <2>1. dir' \in Directory
    <3>1. h \in Nat
      BY FilesAre
    <3> QED BY <1>2, <3>1, TypesAre DEF DataOK, Directory
  <2>2. uncertain' \in [Proc -> SUBSET [txn : ID, ino : Nat]]
    BY <1>2, TypesAre DEF DataOK, Repaired, Put
  <2> QED BY <1>1, <1>3, <2>1, <2>2, TypesAre DEF DataOK, Grown
<1>6. m \in Manifest
  BY ManifestsAre
<1>7. CASE StartRecovery(p, m, "sync_repair")
  <2>1. /\ pc'[p] = "sync_repair" /\ job'[p].txn \in Op /\ job'[p].man = m
        /\ JobMoves(p) /\ Alone(p) /\ TypeOK'
    BY <1>1, <1>5, <1>6, <1>7, RecoveryStarts DEF Steps
  <2>2. ProcOK(p)'
    BY <1>6, <2>1 DEF ProcOK, Reader, Appender, Recovers, ReadSteps, AppendSteps
  <2> QED BY <1>1, <1>3, <1>4, <2>1, <2>2, Framed
<1>8. CASE FlockFree /\ End(p)
  <2>1. Alone(p) /\ TypeOK' /\ JobMoves(p) /\ ProcOK(p)'
    BY <1>1, <1>5, <1>8, FlockExcludes, EndIs, EndMoves, TypesKept DEF Steps
  <2> QED BY <1>1, <1>3, <1>4, <2>1, Framed
<1> QED BY <1>2, <1>7, <1>8

LEMMA FinishRepairAdvances ==
  ASSUME Inv, NEW p \in Proc, FinishRepair(p)
  PROVE  Advances
<1>1. /\ UNCHANGED <<files, dir, vault, view, tried, acked, reported, denied, faults, kills, outages>>
      /\ pc[p] = "sync_repair" /\ disk' = dir /\ End(p) /\ Repaired(p, job[p].txn)
  BY DEF FinishRepair, counters
<1>2. Alone(p)
  BY <1>1, FlockExcludes DEF Running, ReadSteps
<1>3. DataOK'
  <2>1. uncertain' \in [Proc -> SUBSET [txn : ID, ino : Nat]]
    BY <1>1, TypesAre DEF DataOK, Repaired, Put
  <2> QED BY <1>1, <2>1, TypesAre DEF DataOK
<1>4. TypeOK' /\ JobMoves(p) /\ ProcOK(p)'
  BY <1>1, <1>3, EndIs, EndMoves, TypesKept DEF Steps
<1> QED BY <1>1, <1>2, <1>4, Steady

LEMMA RecoveryHolds ==
  ASSUME Inv, NEW p \in Proc, pc[p] \in RecoverySteps \cup ResetSteps
  PROVE  /\ Running(p) /\ Alone(p) /\ Recovers(p)
         /\ job[p].txn \in Op /\ job[p].txn \in ID /\ job[p].man \in Manifest
         /\ job[p].man.prefix \in Seq(Line) /\ Len(job[p].man.prefix) \in Nat
         /\ job[p].man.tail \in Seq(Line)
<1>1. Running(p)
  BY DEF Running, RecoverySteps, ResetSteps, ReadSteps
<1>2. Recovers(p) /\ job[p].txn \in Op /\ job[p].man \in Manifest
  BY DEF Inv, ProcOK, Recovers
<1>3. job[p].man.prefix \in Seq(Line) /\ job[p].man.tail \in Seq(Line)
  BY <1>2 DEF Manifest
<1> QED BY <1>1, <1>2, <1>3, FlockExcludes, LenProperties DEF ID

\* Between two steps of a recovery it is neither a read nor an append.
LEMMA RecoveryOnly ==
  ASSUME NEW p \in Proc, pc'[p] \in RecoverySteps \cup ResetSteps, Recovers(p)'
  PROVE  ProcOK(p)'
BY DEF ProcOK, Reader, Appender, ReadSteps, AppendSteps, RecoverySteps, ResetSteps

LEMMA PersistManifestAdvances ==
  ASSUME Inv, NEW p \in Proc, PersistManifest(p)
  PROVE  Advances
<1>1. /\ UNCHANGED <<files, vault, uncertain, job, view, tried, acked, reported, denied, faults, kills, outages>>
      /\ pc[p] \in {"manifest", "sync_manifest"}
  BY DEF PersistManifest, told, counters
<1>2. /\ Running(p) /\ Alone(p) /\ Recovers(p) /\ job[p].txn \in Op /\ job[p].man \in Manifest
  BY <1>1, RecoveryHolds DEF RecoverySteps
<1>3. \E step \in {"sync_manifest", "quarantine"} : Goto(p, step)
  BY DEF PersistManifest
<1>4. PICK step \in {"sync_manifest", "quarantine"} : Goto(p, step)
  BY <1>3
<1>5. step \in Steps
  BY DEF Steps, RecoverySteps
<1>6. /\ Moves(p, step, job[p]) /\ job[p] \in Job /\ pc'[p] = step /\ job'[p] = job[p]
      /\ holder' = p /\ holder' \in Proc \cup {None} /\ JobMoves(p)
  BY <1>1, <1>2, <1>4, <1>5, GotoIs, GotoMoves
<1>7. /\ dir' \in Directory /\ disk' \in Directory
      /\ dir'.events = dir.events /\ disk'.events \in {disk.events, dir.events}
  BY <1>2, TypesAre DEF PersistManifest, DataOK, Directory
<1>8. DataOK'
  BY <1>1, <1>7, TypesAre DEF DataOK
<1>9. TypeOK'
  BY <1>2, <1>5, <1>6, <1>8, TypesKept
<1>10. Active' = Active
  BY <1>1, <1>7 DEF Active
<1>11. Recovers(p)'
  BY <1>1, <1>2, <1>6, <1>10 DEF Recovers
<1>12. ProcOK(p)'
  BY <1>6, <1>11, RecoveryOnly DEF RecoverySteps
<1> QED BY <1>1, <1>2, <1>6, <1>7, <1>9, <1>12, Steady

LEMMA KeepIs ==
  ASSUME Inv, NEW tail \in Seq(Line), NEW synced \in BOOLEAN, Keep(tail, synced)
  PROVE  /\ vault' \subseteq [tail : Seq(Line), synced : BOOLEAN]
         /\ [tail |-> tail, synced |-> synced] \in vault'
BY TypesAre DEF Keep, DataOK

LEMMA QuarantineAdvances ==
  ASSUME Inv, NEW p \in Proc, Quarantine(p)
  PROVE  Advances
<1> DEFINE m == job[p].man
<1>1. /\ UNCHANGED <<files, dir, disk, uncertain, job, view, tried, acked, reported, denied, faults, kills, outages>>
      /\ pc[p] \in {"quarantine", "sync_quarantine"}
  BY DEF Quarantine, told, counters
<1>2. /\ Running(p) /\ Alone(p) /\ Recovers(p) /\ job[p].txn \in Op /\ m \in Manifest
      /\ m.prefix \in Seq(Line) /\ m.tail \in Seq(Line)
  BY <1>1, RecoveryHolds DEF RecoverySteps
<1>3. PICK step \in {"sync_quarantine", "candidate"} :
        /\ Goto(p, step)
        /\ vault' = vault \/ \E synced \in BOOLEAN : Keep(m.tail, synced)
        /\ step = "candidate" => Keep(m.tail, TRUE)
  BY DEF Quarantine
<1>4. step \in Steps
  BY DEF Steps, RecoverySteps
<1>5. /\ Moves(p, step, job[p]) /\ job[p] \in Job /\ pc'[p] = step /\ job'[p] = job[p]
      /\ holder' = p /\ holder' \in Proc \cup {None} /\ JobMoves(p)
  BY <1>1, <1>2, <1>3, <1>4, GotoIs, GotoMoves
<1>6. vault' \subseteq [tail : Seq(Line), synced : BOOLEAN]
  BY <1>2, <1>3, KeepIs, TypesAre DEF DataOK
<1>7. DataOK'
  BY <1>1, <1>6, TypesAre DEF DataOK
<1>8. TypeOK'
  BY <1>2, <1>4, <1>5, <1>7, TypesKept
<1>9. Active' = Active
  BY <1>1 DEF Active
<1>10. Active = m.prefix \o m.tail /\ Extends(Active, m.prefix) /\ IsHead(Active, Len(m.prefix))
  BY <1>1, <1>2 DEF Recovers
<1>11. step = "candidate" => Dropped(m)' \in vault'
  <2>1. Dropped(m)' = [tail |-> m.tail, synced |-> TRUE]
    BY <1>1, <1>2, <1>9, <1>10, JoinIs DEF Dropped
  <2> QED BY <1>2, <1>3, <2>1, KeepIs
<1>12. Recovers(p)'
  BY <1>2, <1>5, <1>9, <1>10, <1>11 DEF Recovers
<1>13. ProcOK(p)'
  BY <1>5, <1>12, RecoveryOnly DEF RecoverySteps
<1> QED BY <1>1, <1>2, <1>5, <1>8, <1>13, Steady

\* The job of p gets its candidate.
LEMMA CandidateIs ==
  ASSUME Inv, NEW p \in Proc, Running(p), NEW f, Good(f), AddsFile(f),
         NEW step \in Steps, Goto(p, step), UNCHANGED <<tried, dir, disk>>,
         job' = Put(job, p, [job[p] EXCEPT !.ino = Len(files) + 1]), DataOK'
  PROVE  /\ pc'[p] = step /\ job'[p].txn = job[p].txn /\ job'[p].man = job[p].man
         /\ job'[p].ino \in Ino' \ {dir.events, disk.events} /\ files'[job'[p].ino] = f
         /\ Grown /\ Quiet /\ JobMoves(p) /\ TypeOK' /\ Active' = Active
<1> DEFINE ino == Len(files) + 1
           j == [job[p] EXCEPT !.ino = ino]
<1>1. /\ Grown /\ Quiet /\ Len(files') = ino /\ files'[ino] = f
      /\ \A i \in Ino : files'[i] = files[i]
      /\ ino \notin Ino
  BY CandidateGrown
<1>2. ino \in Nat /\ ino \in Ino'
  BY <1>1, FilesAre DEF Ino
<1> HIDE DEF ino
<1>3. j \in Job /\ j.txn = job[p].txn /\ j.man = job[p].man /\ j.ino = ino
  BY <1>2, TypesAre DEF Job
<1>4. Moves(p, step, j) /\ holder' = p
  BY TypesAre DEF Goto, Moves, ino
<1> HIDE DEF j
<1>5. pc'[p] = step /\ job'[p] = j /\ \A q \in Proc \ {p} : pc'[q] = pc[q] /\ job'[q] = job[q]
  BY <1>4, MovesAre
<1>6. JobMoves(p)
  BY <1>3, <1>5 DEF JobMoves
<1>7. TypeOK'
  BY <1>3, <1>4, TypesKept, FlockExcludes
<1>8. ino \notin {dir.events, disk.events} /\ Active' = Active
  BY <1>1, FilesAre DEF Active
<1> QED BY <1>1, <1>2, <1>3, <1>5, <1>6, <1>7, <1>8

LEMMA BuildCandidateAdvances ==
  ASSUME Inv, NEW p \in Proc, BuildCandidate(p)
  PROVE  Advances
<1> DEFINE m == job[p].man
<1>1. /\ UNCHANGED <<dir, disk, vault, uncertain, view, tried, acked, reported, denied, faults, kills, outages>>
      /\ pc[p] \in {"candidate", "sync_candidate"}
  BY DEF BuildCandidate, told, counters
<1>2. /\ Running(p) /\ Alone(p) /\ Recovers(p) /\ job[p].txn \in Op /\ m \in Manifest
      /\ m.prefix \in Seq(Line) /\ Len(m.prefix) \in Nat
  BY <1>1, RecoveryHolds DEF RecoverySteps
<1>3. /\ Active = m.prefix \o m.tail /\ Extends(Active, m.prefix) /\ IsHead(Active, Len(m.prefix))
      /\ Dropped(m) \in vault /\ Sound(m.prefix)
  BY <1>1, <1>2, FilesAre, HeadCovers DEF Recovers
<1>4. CASE pc[p] = "candidate"
  <2>1. /\ Goto(p, "sync_candidate") /\ AddsFile([lines |-> m.prefix, synced |-> 0])
        /\ job' = Put(job, p, [job[p] EXCEPT !.ino = Len(files) + 1])
    BY <1>4 DEF BuildCandidate, NewCandidate, Candidate, AddsFile
  <2>2. Good([lines |-> m.prefix, synced |-> 0])
    BY <1>2, <1>3 DEF Good, File
  <2>3. DataOK'
    BY <1>1, <2>1, <2>2, TypesAre, CandidateGrown DEF DataOK, Grown
  <2>4. "sync_candidate" \in Steps
    BY DEF Steps, RecoverySteps
  <2>5. /\ pc'[p] = "sync_candidate" /\ job'[p].txn = job[p].txn /\ job'[p].man = m
        /\ job'[p].ino \in Ino' \ {dir.events, disk.events}
        /\ files'[job'[p].ino].lines = m.prefix
        /\ Grown /\ Quiet /\ JobMoves(p) /\ TypeOK' /\ Active' = Active
    <3> DEFINE f == [lines |-> m.prefix, synced |-> 0]
    <3>1. Good(f) /\ AddsFile(f) /\ f.lines = m.prefix
      BY <2>1, <2>2
    <3> HIDE DEF f
    <3>2. UNCHANGED <<tried, dir, disk>>
      BY <1>1
    <3>3. /\ pc'[p] = "sync_candidate" /\ job'[p].txn = job[p].txn /\ job'[p].man = m
          /\ job'[p].ino \in Ino' \ {dir.events, disk.events} /\ files'[job'[p].ino] = f
          /\ Grown /\ Quiet /\ JobMoves(p) /\ TypeOK' /\ Active' = Active
      BY <1>2, <2>1, <2>3, <2>4, <3>1, <3>2, CandidateIs
    <3> QED BY <3>1, <3>3
  <2>6. Dropped(m)' \in vault'
    BY <1>1, <1>3, <2>5 DEF Dropped
  <2>7. Recovers(p)'
    BY <1>1, <1>2, <1>3, <2>5, <2>6 DEF Recovers
  <2>8. ProcOK(p)'
    BY <2>5, <2>7, RecoveryOnly DEF RecoverySteps
  <2>9. StoreOK' /\ Kept
    BY <1>1, <2>5, StoreGrown
  <2> QED BY <1>1, <1>2, <2>5, <2>8, <2>9, Framed
<1>5. CASE pc[p] = "sync_candidate"
  <2> DEFINE ino == job[p].ino
  <2>1. Goto(p, "activate_metadata") /\ SyncFile(ino) /\ job' = job
    BY <1>5 DEF BuildCandidate
  <2>2. ino \in Ino \ {dir.events, disk.events} /\ files[ino].lines = m.prefix
    BY <1>2, <1>5 DEF Recovers
  <2>3. /\ Grown /\ Quiet /\ Len(files') = Len(files)
        /\ \A i \in Ino : files'[i].lines = files[i].lines
        /\ files'[ino].synced = Len(m.prefix)
    BY <2>1, <2>2, SyncGrown
  <2>4. "activate_metadata" \in Steps
    BY DEF Steps, RecoverySteps
  <2>5. /\ Moves(p, "activate_metadata", job[p]) /\ job[p] \in Job
        /\ pc'[p] = "activate_metadata" /\ job'[p] = job[p]
        /\ holder' = p /\ holder' \in Proc \cup {None} /\ JobMoves(p)
    BY <1>1, <1>2, <2>1, <2>4, GotoIs, GotoMoves
  <2>6. DataOK'
    BY <1>1, <2>3, TypesAre DEF DataOK, Grown
  <2>7. TypeOK'
    BY <1>2, <2>4, <2>5, <2>6, TypesKept
  <2>8. Active' = Active /\ Ino' = Ino
    BY <1>1, <2>3, FilesAre DEF Active, Ino
  <2>9. Dropped(m)' \in vault'
    BY <1>1, <1>3, <2>5, <2>8 DEF Dropped
  <2>10. Recovers(p)'
    BY <1>1, <1>2, <1>3, <2>2, <2>3, <2>5, <2>8, <2>9 DEF Recovers
  <2>11. ProcOK(p)'
    BY <2>5, <2>10, RecoveryOnly DEF RecoverySteps
  <2>12. StoreOK' /\ Kept
    BY <1>1, <2>3, StoreGrown
  <2> QED BY <1>1, <1>2, <2>3, <2>5, <2>7, <2>11, <2>12, Framed
<1> QED BY <1>1, <1>4, <1>5

\* The name of the journal goes to p's durable candidate.
LEMMA Renamed ==
  ASSUME Inv, NEW p \in Proc, Running(p), Recovers(p), pc[p] \in {"activate_events", "reset_events"},
         NEW step \in {"sync_activation", "sync_reset"}, Goto(p, step),
         dir' = [dir EXCEPT !.events = job[p].ino],
         UNCHANGED <<files, disk, vault, uncertain, job, view, tried, acked, reported, denied, faults, kills, outages>>
  PROVE  /\ Advances
         /\ Active' = job[p].man.prefix /\ Extends(Active, job[p].man.prefix)
         /\ Dropped(job[p].man) \in vault
<1> DEFINE m == job[p].man
           ino == job[p].ino
<1>1. pc[p] \in RecoverySteps \cup ResetSteps
  BY DEF RecoverySteps, ResetSteps
<1>2. /\ Alone(p) /\ job[p].txn \in Op /\ m \in Manifest
      /\ m.prefix \in Seq(Line) /\ Len(m.prefix) \in Nat
  BY <1>1, RecoveryHolds
<1>3. /\ Extends(Active, m.prefix) /\ IsHead(Active, Len(m.prefix))
      /\ Dropped(m) \in vault
      /\ ino \in Ino \ {dir.events, disk.events} /\ files[ino].lines = m.prefix
      /\ files[ino].synced = Len(m.prefix)
  BY DEF Recovers
<1>4. dir' \in Directory /\ dir'.events = ino
  <2>1. ino \in Nat \ {0}
    BY <1>3, FilesAre DEF Ino
  <2> QED BY <2>1, TypesAre DEF DataOK, Directory
<1>5. DataOK'
  BY <1>4, TypesAre DEF DataOK
<1>6. step \in Steps
  BY DEF Steps, RecoverySteps, ResetSteps
<1>7. /\ Moves(p, step, job[p]) /\ job[p] \in Job
      /\ pc'[p] = step /\ job'[p] = job[p]
      /\ holder' = p /\ holder' \in Proc \cup {None} /\ JobMoves(p)
  BY <1>6, GotoIs, GotoMoves
<1>8. TypeOK'
  BY <1>2, <1>5, <1>6, <1>7, TypesKept
<1>9. StoreOK' /\ Kept /\ \A t \in ID : Marked(Active', t) => Marked(Active, t)
  BY <1>2, <1>3, <1>4, StoreActivated
<1>10. Recovers(p)'
  BY <1>2, <1>7 DEF Recovers
<1>11. ProcOK(p)'
  BY <1>7, <1>10, RecoveryOnly DEF RecoverySteps, ResetSteps
<1>12. Active' = m.prefix
  BY <1>3, <1>4 DEF Active
<1>13. Grown /\ Quiet
  BY NothingGrown
<1>14. Advances
  BY <1>2, <1>7, <1>8, <1>9, <1>11, <1>13, Framed
<1> QED BY <1>3, <1>12, <1>14

LEMMA ActivateAdvances ==
  ASSUME Inv, NEW p \in Proc, Activate(p)
  PROVE  Advances
<1> DEFINE m == job[p].man
<1>1. /\ UNCHANGED <<files, disk, vault, uncertain, job, view, tried, acked, reported, denied, faults, kills, outages>>
      /\ pc[p] \in {"activate_metadata", "activate_events"}
  BY DEF Activate, told, counters
<1>2. /\ Running(p) /\ Alone(p) /\ Recovers(p) /\ job[p].txn \in Op /\ m \in Manifest
      /\ m.prefix \in Seq(Line) /\ Len(m.prefix) \in Nat
  BY <1>1, RecoveryHolds DEF RecoverySteps
<1>3. CASE pc[p] = "activate_metadata"
  <2>1. Goto(p, "activate_events") /\ dir' = [dir EXCEPT !.lastSeq = Len(m.prefix)]
    BY <1>3 DEF Activate
  <2>2. "activate_events" \in Steps
    BY DEF Steps, RecoverySteps
  <2>3. /\ Moves(p, "activate_events", job[p]) /\ job[p] \in Job
        /\ pc'[p] = "activate_events" /\ job'[p] = job[p]
        /\ holder' = p /\ holder' \in Proc \cup {None} /\ JobMoves(p)
    BY <1>1, <1>2, <2>1, <2>2, GotoIs, GotoMoves
  <2>4. dir' \in Directory /\ dir'.events = dir.events
    BY <1>2, <2>1, TypesAre DEF DataOK, Directory
  <2>5. DataOK'
    BY <1>1, <2>4, TypesAre DEF DataOK
  <2>6. TypeOK'
    BY <1>2, <2>2, <2>3, <2>5, TypesKept
  <2>7. Active' = Active /\ Ino' = Ino
    BY <1>1, <2>4 DEF Active, Ino
  <2>8. Dropped(m)' = Dropped(m)
    BY <1>1, <2>7 DEF Dropped
  <2>9. Recovers(p)'
    BY <1>1, <1>2, <1>3, <2>3, <2>4, <2>7, <2>8 DEF Recovers
  <2>10. ProcOK(p)'
    BY <2>3, <2>9, RecoveryOnly DEF RecoverySteps
  <2> QED BY <1>1, <1>2, <2>3, <2>4, <2>6, <2>10, Steady
<1>4. CASE pc[p] = "activate_events"
  <2>1. Goto(p, "sync_activation") /\ dir' = [dir EXCEPT !.events = job[p].ino]
    BY <1>4 DEF Activate
  <2> QED BY <1>1, <1>2, <1>4, <2>1, Renamed
<1> QED BY <1>1, <1>3, <1>4

LEMMA SyncActivationAdvances ==
  ASSUME Inv, NEW p \in Proc, SyncActivation(p)
  PROVE  Advances
<1>1. /\ UNCHANGED <<files, dir, vault, uncertain, job, view, tried, acked, reported, denied, faults, kills, outages>>
      /\ pc[p] = "sync_activation" /\ disk' = dir /\ Goto(p, "diagnostic")
  BY DEF SyncActivation, told, counters
<1>2. /\ Running(p) /\ Alone(p) /\ Recovers(p) /\ job[p].txn \in Op /\ job[p].man \in Manifest
  BY <1>1, RecoveryHolds DEF RecoverySteps
<1>3. "diagnostic" \in Steps
  BY DEF Steps, RecoverySteps
<1>4. /\ Moves(p, "diagnostic", job[p]) /\ job[p] \in Job
      /\ pc'[p] = "diagnostic" /\ job'[p] = job[p]
      /\ holder' = p /\ holder' \in Proc \cup {None} /\ JobMoves(p)
  BY <1>1, <1>2, <1>3, GotoIs, GotoMoves
<1>5. DataOK'
  BY <1>1, TypesAre DEF DataOK
<1>6. TypeOK'
  BY <1>2, <1>3, <1>4, <1>5, TypesKept
<1>7. Recovers(p)'
  BY <1>2, <1>4 DEF Recovers
<1>8. ProcOK(p)'
  BY <1>4, <1>7, RecoveryOnly DEF RecoverySteps
<1> QED BY <1>1, <1>2, <1>4, <1>6, <1>8, Steady

LEMMA BeginDiagnosticAdvances ==
  ASSUME Inv, NEW p \in Proc, BeginDiagnostic(p)
  PROVE  Advances
<1>1. /\ UNCHANGED <<files, dir, disk, vault, uncertain, view, tried, acked, reported, denied, faults, kills, outages>>
      /\ pc[p] = "diagnostic"
  BY DEF BeginDiagnostic, durable, told, counters
<1>2. /\ Running(p) /\ Alone(p) /\ job[p].txn \in ID
  BY <1>1, RecoveryHolds DEF RecoverySteps
<1>3. DataOK'
  BY <1>1, TypesAre DEF DataOK
<1>4. Active' = Active
  BY <1>1 DEF Active
<1>5. CASE End(p)
  <2>1. TypeOK' /\ JobMoves(p) /\ ProcOK(p)'
    BY <1>1, <1>3, <1>5, EndIs, EndMoves, TypesKept DEF Steps
  <2> QED BY <1>1, <1>2, <2>1, Steady
<1>6. CASE ReadyToAppend(p, job[p].txn) /\ Goto(p, "write_events") /\ UNCHANGED job
  <2>1. "write_events" \in Steps
    BY DEF Steps, AppendSteps
  <2>2. /\ Moves(p, "write_events", job[p]) /\ job[p] \in Job
        /\ pc'[p] = "write_events" /\ job'[p] = job[p]
        /\ holder' = p /\ holder' \in Proc \cup {None} /\ JobMoves(p)
    BY <1>1, <1>2, <1>6, <2>1, GotoIs, GotoMoves
  <2>3. TypeOK'
    BY <1>2, <1>3, <2>1, <2>2, TypesKept
  <2>4. Sound(Append(Append(Active, OpenLine(Active, job[p].txn)), Mk("marker", job[p].txn)))
    BY <1>2, <1>6, FreshFits, FilesAre DEF ReadyToAppend
  <2>5. Appender(p)'
    BY <1>2, <1>4, <2>2, <2>4 DEF Appender
  <2>6. ProcOK(p)'
    BY <2>2, <2>5 DEF ProcOK, Reader, Recovers, ReadSteps, RecoverySteps, ResetSteps
  <2> QED BY <1>1, <1>2, <2>2, <2>3, <2>6, Steady
<1> QED BY <1>5, <1>6 DEF BeginDiagnostic

LEMMA ResetDiagnosticAdvances ==
  ASSUME Inv, NEW p \in Proc, ResetDiagnostic(p)
  PROVE  Advances
<1> DEFINE m == job[p].man
<1>1. /\ UNCHANGED <<view, tried, acked, reported, denied, faults, kills, outages>>
      /\ pc[p] \in {"keep_partial", "reset_candidate", "reset_events", "sync_reset"}
  BY DEF ResetDiagnostic, told, counters
<1>2. /\ Running(p) /\ Alone(p) /\ Recovers(p) /\ job[p].txn \in Op /\ m \in Manifest
      /\ m.prefix \in Seq(Line) /\ Len(m.prefix) \in Nat
  BY <1>1, RecoveryHolds DEF ResetSteps
<1>3. CASE pc[p] = "keep_partial"
  <2>1. /\ Goto(p, "reset_candidate") /\ UNCHANGED <<files, dir, disk, uncertain, job>>
        /\ Keep(SubSeq(Active, Len(m.prefix) + 1, Len(Active)), TRUE)
    BY <1>3 DEF ResetDiagnostic
  <2>2. Extends(Active, m.prefix) /\ IsHead(Active, Len(m.prefix))
    BY <1>2, <1>3 DEF Recovers
  <2>3. SubSeq(Active, Len(m.prefix) + 1, Len(Active)) \in Seq(Line)
    BY <1>2, <2>2, FilesAre, ExtendsIs, SplitIs
  <2>4. "reset_candidate" \in Steps
    BY DEF Steps, ResetSteps
  <2>5. /\ Moves(p, "reset_candidate", job[p]) /\ job[p] \in Job
        /\ pc'[p] = "reset_candidate" /\ job'[p] = job[p]
        /\ holder' = p /\ holder' \in Proc \cup {None} /\ JobMoves(p)
    BY <1>1, <1>2, <2>1, <2>4, GotoIs, GotoMoves
  <2>6. vault' \subseteq [tail : Seq(Line), synced : BOOLEAN] /\ Dropped(m) \in vault'
    BY <2>1, <2>3, KeepIs DEF Dropped
  <2>7. DataOK'
    BY <1>1, <2>1, <2>6, TypesAre DEF DataOK
  <2>8. TypeOK'
    BY <1>2, <2>4, <2>5, <2>7, TypesKept
  <2>9. Active' = Active
    BY <2>1 DEF Active
  <2>10. Dropped(m)' = Dropped(m)
    BY <2>1, <2>9 DEF Dropped
  <2>11. Recovers(p)'
    BY <1>2, <2>1, <2>2, <2>5, <2>6, <2>9, <2>10 DEF Recovers
  <2>12. ProcOK(p)'
    BY <2>5, <2>11, RecoveryOnly DEF ResetSteps
  <2> QED BY <1>1, <1>2, <2>1, <2>5, <2>8, <2>12, Steady
<1>4. CASE pc[p] = "reset_candidate"
  <2>1. /\ Goto(p, "reset_events") /\ UNCHANGED <<dir, disk, vault, uncertain>>
        /\ AddsFile([lines |-> m.prefix, synced |-> Len(m.prefix)])
        /\ job' = Put(job, p, [job[p] EXCEPT !.ino = Len(files) + 1])
    BY <1>4 DEF ResetDiagnostic, AddsFile
  <2>2. /\ Extends(Active, m.prefix) /\ IsHead(Active, Len(m.prefix))
        /\ Dropped(m) \in vault /\ Sound(m.prefix)
    BY <1>2, <1>4, FilesAre, HeadCovers DEF Recovers
  <2>3. Good([lines |-> m.prefix, synced |-> Len(m.prefix)])
    BY <1>2, <2>2 DEF Good, File
  <2>4. DataOK'
    BY <1>1, <2>1, <2>3, TypesAre, CandidateGrown DEF DataOK, Grown
  <2>5. "reset_events" \in Steps
    BY DEF Steps, ResetSteps
  <2>6. /\ pc'[p] = "reset_events" /\ job'[p].txn = job[p].txn /\ job'[p].man = m
        /\ job'[p].ino \in Ino' \ {dir.events, disk.events}
        /\ files'[job'[p].ino].lines = m.prefix /\ files'[job'[p].ino].synced = Len(m.prefix)
        /\ Grown /\ Quiet /\ JobMoves(p) /\ TypeOK' /\ Active' = Active
    <3> DEFINE f == [lines |-> m.prefix, synced |-> Len(m.prefix)]
    <3>1. Good(f) /\ AddsFile(f) /\ f.lines = m.prefix /\ f.synced = Len(m.prefix)
      BY <2>1, <2>3
    <3> HIDE DEF f
    <3>2. UNCHANGED <<tried, dir, disk>>
      BY <1>1, <2>1
    <3>3. /\ pc'[p] = "reset_events" /\ job'[p].txn = job[p].txn /\ job'[p].man = m
          /\ job'[p].ino \in Ino' \ {dir.events, disk.events} /\ files'[job'[p].ino] = f
          /\ Grown /\ Quiet /\ JobMoves(p) /\ TypeOK' /\ Active' = Active
      BY <1>2, <2>1, <2>4, <2>5, <3>1, <3>2, CandidateIs
    <3> QED BY <3>1, <3>3
  <2>7. Dropped(m)' \in vault'
    BY <2>1, <2>2, <2>6 DEF Dropped
  <2>8. Recovers(p)'
    BY <1>2, <2>1, <2>2, <2>6, <2>7 DEF Recovers
  <2>9. ProcOK(p)'
    BY <2>6, <2>8, RecoveryOnly DEF ResetSteps
  <2>10. StoreOK' /\ Kept
    BY <2>1, <2>6, StoreGrown
  <2> QED BY <1>1, <1>2, <2>1, <2>6, <2>9, <2>10, Framed
<1>5. CASE pc[p] = "reset_events"
  <2>1. /\ Goto(p, "sync_reset") /\ dir' = [dir EXCEPT !.events = job[p].ino]
        /\ UNCHANGED <<files, disk, vault, uncertain, job>>
    BY <1>5 DEF ResetDiagnostic
  <2> QED BY <1>1, <1>2, <1>5, <2>1, Renamed
<1>6. CASE pc[p] = "sync_reset"
  <2>1. /\ Goto(p, "sync_activation") /\ UNCHANGED <<files, dir, vault, job>> /\ disk' = dir
        /\ uncertain' = Put(uncertain, p, {u \in uncertain[p] : u.txn # job[p].txn})
    BY <1>6 DEF ResetDiagnostic
  <2>2. "sync_activation" \in Steps
    BY DEF Steps, RecoverySteps
  <2>3. /\ Moves(p, "sync_activation", job[p]) /\ job[p] \in Job
        /\ pc'[p] = "sync_activation" /\ job'[p] = job[p]
        /\ holder' = p /\ holder' \in Proc \cup {None} /\ JobMoves(p)
    BY <1>1, <1>2, <2>1, <2>2, GotoIs, GotoMoves
  <2>4. uncertain' \in [Proc -> SUBSET [txn : ID, ino : Nat]]
    BY <2>1, TypesAre DEF DataOK, Put
  <2>5. DataOK'
    BY <1>1, <2>1, <2>4, TypesAre DEF DataOK
  <2>6. TypeOK'
    BY <1>2, <2>2, <2>3, <2>5, TypesKept
  <2>7. Recovers(p)'
    BY <1>2, <2>3 DEF Recovers
  <2>8. ProcOK(p)'
    BY <2>3, <2>7, RecoveryOnly DEF RecoverySteps
  <2> QED BY <1>1, <1>2, <2>1, <2>3, <2>6, <2>8, Steady
<1> QED BY <1>1, <1>3, <1>4, <1>5, <1>6

-----------------------------------------------------------------------------
(* Failures.                                                               *)

\* An operation that ends leaves what the others rely on.
LEMMA Stops ==
  ASSUME Inv, NEW p \in Proc, End(p), UNCHANGED <<files, dir, disk, vault, tried, acked, denied>>, DataOK'
  PROVE  Advances
<1>1. Grown /\ Quiet /\ StoreOK' /\ Kept
  BY NothingGrown, StoreGrown
<1>2. TypeOK' /\ JobMoves(p) /\ ProcOK(p)'
  BY EndIs, EndMoves, TypesKept DEF Steps
<1>3. OnlySynced
  BY DEF OnlySynced
<1> QED BY <1>1, <1>2, <1>3, Framed

LEMMA FailAdvances ==
  ASSUME Inv, NEW p \in Proc, Fail(p)
  PROVE  Advances
<1>1. /\ UNCHANGED <<files, dir, disk, vault, uncertain, view, tried, acked, reported, denied, kills, outages>>
      /\ End(p) /\ faults' = faults + 1
  BY DEF Fail, SpendFault, durable, told
<1>2. DataOK'
  BY <1>1, TypesAre DEF DataOK
<1> QED BY <1>1, <1>2, Stops

LEMMA PutIs ==
  ASSUME NEW S, NEW f \in [Proc -> S], NEW p \in Proc, NEW v \in S
  PROVE  Put(f, p, v) \in [Proc -> S]
BY DEF Put

LEMMA KillAdvances ==
  ASSUME Inv, NEW p \in Proc, Kill(p)
  PROVE  Advances
<1>1. /\ UNCHANGED <<files, dir, disk, vault, tried, acked, reported, denied, faults, outages>>
      /\ End(p) /\ kills' = kills + 1
      /\ uncertain' = Put(uncertain, p, {}) /\ view' = Put(view, p, NoView)
  BY DEF Kill, durable, told
<1>2. NoView \in [seq : Nat, txn : ID \cup {None}, tail : Seq(Line)]
  BY EmptySeq DEF NoView
<1>3. uncertain' \in [Proc -> SUBSET [txn : ID, ino : Nat]]
  <2>1. uncertain \in [Proc -> SUBSET [txn : ID, ino : Nat]] /\ {} \in SUBSET [txn : ID, ino : Nat]
    BY TypesAre DEF DataOK
  <2> QED BY <1>1, <2>1, PutIs
<1>4. view' \in [Proc -> [seq : Nat, txn : ID \cup {None}, tail : Seq(Line)]]
  <2>1. view \in [Proc -> [seq : Nat, txn : ID \cup {None}, tail : Seq(Line)]]
    BY TypesAre DEF DataOK
  <2> QED BY <1>1, <1>2, <2>1, PutIs
<1>5. kills' \in Nat
  BY <1>1, TypesAre DEF DataOK
<1>6. DataOK'
  <2>1. /\ files' \in Seq(File) /\ dir' \in Directory /\ disk' \in Directory
        /\ vault' \subseteq [tail : Seq(Line), synced : BOOLEAN]
    BY <1>1, TypesAre DEF DataOK
  <2>2. /\ tried' \subseteq Txn /\ acked' \subseteq ID /\ reported' \subseteq ID
        /\ denied' \subseteq Txn /\ faults' \in Nat /\ outages' \in Nat
    BY <1>1, TypesAre DEF DataOK
  <2> QED BY <1>3, <1>4, <1>5, <2>1, <2>2 DEF DataOK
<1> QED BY <1>1, <1>6, Stops

LEMMA PowerLossAdvances ==
  ASSUME Inv, PowerLoss
  PROVE  Advances
<1>1. /\ UNCHANGED <<tried, acked, reported, denied, faults, kills>>
      /\ outages' = outages + 1 /\ holder' = None
      /\ uncertain' = [p \in Proc |-> {}] /\ pc' = [p \in Proc |-> "idle"]
      /\ job' = [p \in Proc |-> NoJob] /\ view' = [p \in Proc |-> NoView]
      /\ disk' = dir'
  BY DEF PowerLoss, told
<1>2. PICK lines \in Survivors : LostTo(lines)
  BY DEF PowerLoss, LostTo
<1>3. dir' \in Directory /\ dir'.events = 1
  <2>1. PICK seq \in {dir.lastSeq, disk.lastSeq}, ms \in SUBSET (dir.manifests \ disk.manifests) :
          dir' = [events |-> 1, lastSeq |-> seq, manifests |-> disk.manifests \cup ms]
    BY DEF PowerLoss
  <2> QED BY <2>1, TypesAre DEF DataOK, Directory
<1>4. vault' \subseteq [tail : Seq(Line), synced : BOOLEAN]
  <2>1. PICK lost \in SUBSET {q \in vault : ~ q.synced} :
          vault' = {[q EXCEPT !.synced = TRUE] : q \in vault \ lost}
    BY DEF PowerLoss
  <2>2. \A q \in vault : [q EXCEPT !.synced = TRUE] \in [tail : Seq(Line), synced : BOOLEAN]
    BY TypesAre DEF DataOK
  <2> QED BY <2>1, <2>2
<1>5. /\ StoreOK' /\ Kept /\ files' \in Seq(File)
      /\ \A t \in ID : Marked(Active', t) => Marked(Active, t)
  BY <1>1, <1>2, <1>3, StoreLost
<1>6. NoView \in [seq : Nat, txn : ID \cup {None}, tail : Seq(Line)] /\ NoJob \in Job
  BY EmptySeq DEF NoView, NoJob, Job
<1>7. DataOK'
  <2>1. uncertain' \in [Proc -> SUBSET [txn : ID, ino : Nat]]
    BY <1>1
  <2>2. view' \in [Proc -> [seq : Nat, txn : ID \cup {None}, tail : Seq(Line)]]
    BY <1>1, <1>6
  <2> QED BY <1>1, <1>3, <1>4, <1>5, <2>1, <2>2, TypesAre DEF DataOK
<1>8. TypeOK'
  <2>1. pc' \in [Proc -> Steps] /\ job' \in [Proc -> Job] /\ \A p \in Proc : pc'[p] = "idle"
    BY <1>1, <1>6 DEF Steps
  <2> QED BY <1>1, <1>7, <2>1 DEF TypeOK, DataOK, File, Steps, Job
<1>9. \A p \in Proc : ProcOK(p)'
  BY <1>1 DEF ProcOK, Reader, Appender, Recovers, ReadSteps, AppendSteps, RecoverySteps, ResetSteps
<1>10. ASSUME NEW t \in acked PROVE Marked(Durable(Stable'), t)
  <2>1. Marked(DurableLines, t) /\ DurableLines' = Durable(Stable')
    BY StableIs DEF Inv, AnswersOK, DurableLines, Durable, Stable
  <2>2. DurableLines \in Seq(Line) /\ DurableLines' \in Seq(Line)
    <3>1. Good(Stable')
      BY <1>5 DEF StoreOK, Stable
    <3> QED BY <2>1, <3>1, StableIs, GoodFile
  <2> QED BY <1>5, <2>1, <2>2, CoversMarked DEF Kept
<1>11. ASSUME NEW t \in denied PROVE Gone(t)' /\ ~ Marked(Active', t)
  <2>1. Gone(t) /\ ~ Marked(Active, t) /\ t \in tried /\ t \in ID /\ t # None
    <3>1. Gone(t) /\ ~ Marked(Active, t)
      BY DEF Inv, AnswersOK
    <3> QED BY <3>1, NamesAssumption DEF Gone, Inv, TypeOK, ID
  <2>2. Gone(t)'
    BY <1>1, <2>1 DEF Gone, NoJob
  <2> QED BY <1>5, <2>1, <2>2
<1>12. AnswersOK'
  BY <1>1, <1>10, <1>11 DEF AnswersOK
<1> QED BY <1>1, <1>5, <1>8, <1>9, <1>12 DEF Advances, Inv, Told

-----------------------------------------------------------------------------
(***************************************************************************)
(* Every step.                                                             *)
(***************************************************************************)
LEMMA InitInv == Init => Inv
<1> SUFFICES ASSUME Init PROVE Inv
  OBVIOUS
<1> DEFINE legacy == Mk("legacy", None)
           f == [lines |-> << legacy >>, synced |-> 1]
<1>1. legacy \in Line /\ ~ IsTorn(legacy) /\ ~ Opens(legacy) /\ ~ IsMarker(legacy) /\ IsLegacy(legacy)
  BY DEF Mk, Line, IsTorn, Opens, IsMarker, IsLegacy
<1> HIDE DEF legacy
<1>2. << legacy >> \in Seq(Line) /\ Len(<< legacy >>) = 1 /\ << legacy >>[1] = legacy
  BY <1>1
<1>3. Sound(<< legacy >>)
  <2>1. \A i \in 1 .. Len(<< legacy >>) : ~ Refused(<< legacy >>, i)
    BY <1>1, <1>2 DEF Refused
  <2> QED BY <1>2, <2>1, SoundIs, RejectedIs
<1>4. Good(f) /\ f \in File /\ f.synced = 1
  BY <1>2, <1>3 DEF Good, File
<1>5. files = << f >>
  BY DEF Init, legacy
<1> HIDE DEF f
<1>6. files \in Seq(File) /\ Len(files) = 1 /\ files[1] = f
  BY <1>4, <1>5
<1>7. /\ dir = [events |-> 1, lastSeq |-> 1, manifests |-> {}] /\ disk = dir /\ vault = {} /\ holder = None
      /\ uncertain = [p \in Proc |-> {}] /\ pc = [p \in Proc |-> "idle"]
      /\ job = [p \in Proc |-> NoJob] /\ view = [p \in Proc |-> NoView]
      /\ tried = {} /\ acked = {} /\ reported = {} /\ denied = {}
      /\ faults = 0 /\ kills = 0 /\ outages = 0
  BY DEF Init
<1>8. NoView \in [seq : Nat, txn : ID \cup {None}, tail : Seq(Line)] /\ NoJob \in Job
  BY EmptySeq DEF NoView, NoJob, Job
<1>9. DataOK
  BY <1>6, <1>7, <1>8 DEF DataOK, Directory
<1>10. TypeOK
  <2>1. pc \in [Proc -> Steps] /\ job \in [Proc -> Job] /\ \A p \in Proc : pc[p] = "idle"
    BY <1>7, <1>8 DEF Steps
  <2> QED BY <1>7, <1>9, <2>1 DEF TypeOK, DataOK, File, Steps, Job
<1>11. StoreOK
  BY <1>4, <1>6, <1>7 DEF StoreOK, Ino
<1>12. AnswersOK
  BY <1>7 DEF AnswersOK
<1>13. \A p \in Proc : ProcOK(p)
  BY <1>7 DEF ProcOK, Reader, Appender, Recovers, ReadSteps, AppendSteps, RecoverySteps, ResetSteps
<1> QED BY <1>10, <1>11, <1>12, <1>13 DEF Inv

\* Nothing happens.
LEMMA Stutters ==
  ASSUME Inv, UNCHANGED vars
  PROVE  Advances
<1> USE DEF vars, durable, memory, told, counters
<1>1. Inv'
  <2>1. TypeOK'
    BY DEF Inv, TypeOK
  <2>2. Active' = Active /\ Seen' = Seen /\ Stable' = Stable /\ Ino' = Ino
    BY DEF Active, Seen, Stable, Ino
  <2>3. StoreOK'
    BY <2>2 DEF Inv, StoreOK
  <2>4. \A t : Gone(t)' <=> Gone(t)
    BY DEF Gone
  <2>5. AnswersOK'
    BY <2>2, <2>4 DEF Inv, AnswersOK
  <2>6. ASSUME NEW p \in Proc PROVE Reader(p)' /\ Appender(p)'
    BY <2>2, <2>4 DEF Inv, ProcOK, Reader, Appender
  <2>7. ASSUME NEW p \in Proc PROVE Recovers(p)'
    <3>1. Dropped(job[p].man)' = Dropped(job[p].man)
      BY <2>2 DEF Dropped
    <3>2. Recovers(p)
      BY DEF Inv, ProcOK
    <3> QED BY <2>2, <3>1, <3>2 DEF Recovers
  <2> QED BY <2>1, <2>3, <2>5, <2>6, <2>7 DEF Inv, ProcOK
<1>2. DurableLines' = DurableLines
  BY DEF DurableLines
<1>3. Kept
  BY <1>2, StableIs, CoversItself, LenProperties DEF Kept
<1> QED BY <1>1, <1>3 DEF Advances, Told

LEMMA BeginAdvances ==
  ASSUME Inv, NEW p \in Proc, Begin(p)
  PROVE  Advances
<1>1. CASE \E t \in Txn : BeginAppend(p, t)
  BY <1>1, BeginAppendAdvances
<1>2. CASE BeginRead(p)
  BY <1>2, BeginReadAdvances
<1>3. CASE \E o \in Op : BeginRecovery(p, o)
  BY <1>3, BeginRecoveryAdvances
<1>4. CASE \E m \in dir.manifests : ResumeRecovery(p, m) \/ RepairCommitted(p, m)
  BY <1>4, ResumeRecoveryAdvances, RepairCommittedAdvances
<1> QED BY <1>1, <1>2, <1>3, <1>4 DEF Begin

LEMMA ProceedAdvances ==
  ASSUME Inv, NEW p \in Proc, Proceed(p)
  PROVE  Advances
<1>1. CASE AppendStep(p)
  BY <1>1, WriteEventsAdvances, SyncEventsAdvances, WriteMarkerAdvances, SyncMarkerAdvances,
     WriteMetadataAdvances, FinishAppendAdvances DEF AppendStep
<1>2. CASE ReadStep(p)
  BY <1>2, FinishInspectAdvances, FinishLookupAdvances, FailReadAdvances DEF ReadStep
<1>3. CASE RecoveryStep(p)
  BY <1>3, PersistManifestAdvances, QuarantineAdvances, BuildCandidateAdvances, ActivateAdvances,
     SyncActivationAdvances, BeginDiagnosticAdvances, ResetDiagnosticAdvances, FinishRepairAdvances
  DEF RecoveryStep
<1> QED BY <1>1, <1>2, <1>3 DEF Proceed

LEMMA NextAdvances ==
  ASSUME Inv, [Next]_vars
  PROVE  Advances
<1>1. CASE \E p \in Proc : Begin(p) \/ Proceed(p) \/ Fail(p) \/ Kill(p)
  BY <1>1, BeginAdvances, ProceedAdvances, FailAdvances, KillAdvances
<1>2. CASE PowerLoss
  BY <1>2, PowerLossAdvances
<1>3. CASE UNCHANGED vars
  BY <1>3, Stutters
<1> QED BY <1>1, <1>2, <1>3 DEF Next

LEMMA Invariance == Spec => []Inv
<1>1. Inv /\ [Next]_vars => Inv'
  BY NextAdvances DEF Advances
<1> QED BY <1>1, InitInv, PTL DEF Spec

-----------------------------------------------------------------------------
(***************************************************************************)
(* What users of the journal rely on.                                      *)
(***************************************************************************)
\* Every variable stays in its type, and at most one process is past the flock
\* on journal.lock.
THEOREM TypeCorrect == Spec => []TypeOK
BY Invariance, PTL DEF Inv

\* No append, reset, recovery, death or power loss leaves a journal that neither
\* AppendBatch nor RecoverSession accepts.
THEOREM NeverUnusable == Spec => []NeverFatal
<1>1. Inv => NeverFatal
  BY SurvivorIs DEF NeverFatal, Sound
<1> QED BY <1>1, Invariance, PTL

\* The committed answer of AppendBatch and RecoverSession is true of whatever a
\* power loss leaves, and the not_committed answer of LookupTransaction stays
\* true, there and in what processes see.
AnswersHold ==
  \A lines \in Survivors :
    /\ \A t \in acked : IsCommitted(lines, t)
    /\ \A t \in denied : ~ IsCommitted(lines, t)

LEMMA SurvivorsKeep ==
  ASSUME Inv, NEW lines \in Survivors, NEW t \in ID, Marked(DurableLines, t)
  PROVE  IsCommitted(lines, t)
<1>1. PICK h \in Nat : Covers(lines, DurableLines, h)
  BY SurvivorIs
<1>2. Sound(lines) /\ lines \in Seq(Line)
  BY SurvivorIs, SoundIs
<1> QED BY <1>1, <1>2, StableIs, CoversMarked, CommittedIs

LEMMA AnswersAre ==
  ASSUME Inv
  PROVE  AnswersHold
<1>1. ASSUME NEW lines \in Survivors, NEW t \in acked PROVE IsCommitted(lines, t)
  <2>1. Marked(DurableLines, t) /\ t \in ID
    BY <1>1, StableIs, TypesAre DEF Inv, AnswersOK, DataOK
  <2> QED BY <2>1, SurvivorsKeep
<1>2. ASSUME NEW lines \in Survivors, NEW t \in denied PROVE ~ IsCommitted(lines, t)
  <2>1. ~ Marked(Active, t) /\ t \in ID
    BY <1>2, TypesAre DEF Inv, AnswersOK, DataOK, ID
  <2> QED BY <2>1, SurvivorIs, CommittedIs
<1> QED BY <1>1, <1>2 DEF AnswersHold

THEOREM AnswersLast == Spec => []AnswersHold
BY AnswersAre, Invariance, PTL

\* What was answered is true of the durable log.
AnswersLogged ==
  acked \subseteq Log!Logged(DurableLog) /\ denied \cap Log!Logged(DurableLog) = {}

LEMMA AnswersTrue == Inv => AnswersLogged
<1> SUFFICES ASSUME Inv PROVE AnswersLogged
  OBVIOUS
<1>1. DurableLog = CommitsOf(DurableLines) /\ DurableLines = Durable(Stable)
  BY DurableLogIs, StableIs
<1>2. \A t \in acked : Marked(DurableLines, t)
  BY <1>1 DEF Inv, AnswersOK
<1>3. ASSUME NEW t \in denied PROVE ~ Marked(DurableLines, t)
  <2>1. ~ Marked(Active, t) /\ t \in ID
    BY TypesAre DEF Inv, AnswersOK, DataOK, ID
  <2>2. Marked(DurableLines, t) => Marked(Stable.lines, t)
    <3>1. Same(Stable.lines, DurableLines, Len(DurableLines)) /\ Stable.lines \in Seq(Line)
      BY <1>1, StableIs, GoodFile
    <3> QED BY <3>1, LenProperties DEF Marked, Same
  <2>3. Marked(Stable.lines, t) => Marked(Active, t)
    <3>1. CASE disk.events = dir.events
      BY <3>1 DEF Stable, Active
    <3>2. CASE disk.events # dir.events
      <4>1. PICK h \in Nat : Covers(Active, Stable.lines, h)
        BY <3>2 DEF Inv, StoreOK, Behind, Seen, Active
      <4> QED BY <4>1, StableIs, GoodFile, FilesAre, CoversMarked
    <3> QED BY <3>1, <3>2
  <2> QED BY <2>1, <2>2, <2>3
<1> QED BY <1>1, <1>2, <1>3, LoggedIs DEF AnswersLogged

\* The journal implements the log its callers rely on: no commit is ever lost,
\* moved or repeated, and every answer stays true of it.
THEOREM Implements == Spec => ImplementsLog
<1>1. Init => Log!Init
  <2> SUFFICES ASSUME Init PROVE Log!Init
    OBVIOUS
  <2>1. acked = {} /\ denied = {}
    BY DEF Init
  <2>2. DurableLog = {}
    <3>1. /\ DurableLines \in Seq(Line) /\ Len(DurableLines) = 1
          /\ Same(<< Mk("legacy", None) >>, DurableLines, 1)
      <4>1. Good(Stable) /\ Stable.lines = << Mk("legacy", None) >> /\ Stable.synced = 1
        BY InitInv, StableIs DEF Init, Stable
      <4> QED BY <4>1, GoodFile, StableIs, InitInv
    <3>2. \A j \in 1 .. Len(DurableLines) : ~ IsMarker(DurableLines[j])
      BY <3>1 DEF Same, Mk, IsMarker
    <3> QED BY <3>2, DurableLogIs DEF CommitsOf
  <2> QED BY <2>1, <2>2 DEF Log!Init
<1>2. Inv /\ AnswersLogged' /\ [Next]_vars => Log!Next
  <2> SUFFICES ASSUME Inv, AnswersLogged', [Next]_vars PROVE Log!Next
    OBVIOUS
  <2>1. Inv' /\ Kept /\ Told
    BY NextAdvances DEF Advances
  <2>2. /\ DurableLines \in Seq(Line) /\ Sound(DurableLines')
        /\ DurableLines' = Durable(Stable')
    <3>1. Good(Stable')
      BY <2>1 DEF Inv, StoreOK, Stable
    <3> QED BY <3>1, StableIs, GoodFile DEF DurableLines, Durable, Stable
  <2>3. DurableLog = CommitsOf(DurableLines) /\ DurableLog' = CommitsOf(DurableLines')
    BY DEF DurableLog, CommitsOf, IsMarker
  <2>4. Log!Grow
    <3>1. PICK h \in Nat : Covers(DurableLines', DurableLines, h)
      BY <2>1 DEF Kept
    <3> QED BY <2>2, <2>3, <3>1, CommitsGrow DEF Log!Grow
  <2> QED BY <2>1, <2>4 DEF Log!Next, Log!Answer, Told, AnswersLogged
<1>3. Inv /\ AnswersLogged' /\ [Next]_vars => [Log!Next]_(Log!logVars)
  BY <1>2
<1> QED BY <1>1, <1>3, AnswersTrue, Invariance, PTL DEF Spec, ImplementsLog, Log!Spec

\* The two renames of a recovery.
Renames(p) ==
  \/ pc[p] = "activate_events" /\ Activate(p)
  \/ pc[p] = "reset_events" /\ ResetDiagnostic(p)

\* Only those renames change which file is the journal, and only reads report.
LEMMA BeginNames ==
  ASSUME Inv, NEW p \in Proc, Begin(p)
  PROVE  /\ dir'.events = dir.events /\ disk' = disk /\ reported' = reported
<1>1. ASSUME NEW m \in dir.manifests, RepairCommitted(p, m)
      PROVE  dir'.events = dir.events /\ disk' = disk /\ reported' = reported
  BY <1>1, TypesAre DEF RepairCommitted, DataOK, Directory
<1>2. ASSUME \/ \E t \in Txn : BeginAppend(p, t)
             \/ BeginRead(p)
             \/ \E o \in Op : BeginRecovery(p, o)
             \/ \E m \in dir.manifests : ResumeRecovery(p, m)
      PROVE  dir' = dir /\ disk' = disk /\ reported' = reported
  BY <1>2 DEF BeginAppend, EnterAppend, BeginRead, Scan, BeginRecovery, ResumeRecovery, durable, told
<1> QED BY <1>1, <1>2 DEF Begin

LEMMA ProceedNames ==
  ASSUME Inv, NEW p \in Proc, Proceed(p)
  PROVE  /\ \/ dir'.events = dir.events /\ disk'.events \in {disk.events, dir.events}
            \/ Renames(p) /\ disk' = disk
         /\ reported' = reported \/ FinishInspect(p) \/ \E t \in Txn : FinishLookup(p, t)
<1>0. dir \in Directory
  BY TypesAre DEF DataOK
<1>1. CASE AppendStep(p)
  <2>1. /\ dir' = dir \/ dir' = [dir EXCEPT !.lastSeq = Len(Active)]
        /\ disk' \in {disk, dir} /\ reported' = reported
    BY <1>1 DEF AppendStep, WriteEvents, SyncEvents, WriteMarker, SyncMarker, WriteMetadata, FinishAppend, told
  <2> QED BY <1>0, <2>1 DEF Directory
<1>2. CASE ReadStep(p)
  <2>1. dir' = dir /\ disk' = disk
    BY <1>2 DEF ReadStep, FinishInspect, FinishLookup, FailRead, ReadReplaced, durable
  <2>2. FailRead(p) => reported' = reported
    BY DEF FailRead, ReadReplaced, told
  <2> QED BY <1>2, <2>1, <2>2 DEF ReadStep
<1>3. CASE RecoveryStep(p)
  <2>1. reported' = reported
    BY <1>3 DEF RecoveryStep, PersistManifest, Quarantine, BuildCandidate, Activate, SyncActivation,
                BeginDiagnostic, ResetDiagnostic, FinishRepair, told
  <2>2. CASE PersistManifest(p)
    BY <1>0, <2>1, <2>2 DEF PersistManifest, Directory
  <2>3. CASE Activate(p)
    BY <1>0, <2>1, <2>3 DEF Activate, Renames, Directory
  <2>4. CASE ResetDiagnostic(p)
    BY <2>1, <2>4 DEF ResetDiagnostic, Renames
  <2>5. CASE Quarantine(p) \/ BuildCandidate(p) \/ SyncActivation(p) \/ BeginDiagnostic(p) \/ FinishRepair(p)
    BY <2>1, <2>5 DEF Quarantine, BuildCandidate, SyncActivation, BeginDiagnostic, FinishRepair, durable
  <2> QED BY <1>3, <2>2, <2>3, <2>4, <2>5 DEF RecoveryStep
<1> QED BY <1>1, <1>2, <1>3 DEF Proceed

\* Any step, by what it does to the directory and to what was reported.
LEMMA NamesAre ==
  ASSUME Inv, [Next]_vars
  PROVE  \/ PowerLoss
         \/ /\ reported' = reported
            /\ dir'.events = dir.events /\ disk'.events \in {disk.events, dir.events}
         \/ \E p \in Proc : Renames(p) /\ disk' = disk /\ reported' = reported
         \/ \E p \in Proc : FinishInspect(p) \/ \E t \in Txn : FinishLookup(p, t)
<1>1. ASSUME NEW p \in Proc, Fail(p) \/ Kill(p)
      PROVE  dir' = dir /\ disk' = disk /\ reported' = reported
  BY <1>1 DEF Fail, Kill, durable, told
<1>2. UNCHANGED vars => dir' = dir /\ disk' = disk /\ reported' = reported
  BY DEF vars, durable, told
<1>3. ASSUME NEW p \in Proc, Renames(p) PROVE reported' = reported
  BY <1>3 DEF Renames, Activate, ResetDiagnostic, told
<1> QED BY <1>1, <1>2, <1>3, BeginNames, ProceedNames DEF Next

LEMMA RenamesKeep ==
  ASSUME Inv, NEW p \in Proc, Renames(p)
  PROVE  /\ Active' = job[p].man.prefix /\ Extends(Active, job[p].man.prefix)
         /\ Dropped(job[p].man) \in vault /\ job[p].txn \in Op
<1>1. /\ pc[p] \in {"activate_events", "reset_events"}
      /\ \E step \in {"sync_activation", "sync_reset"} : Goto(p, step)
      /\ dir' = [dir EXCEPT !.events = job[p].ino]
      /\ UNCHANGED <<files, disk, vault, uncertain, job, view, tried, acked, reported, denied, faults, kills, outages>>
  BY DEF Renames, Activate, ResetDiagnostic, told, counters
<1>2. Running(p) /\ Recovers(p) /\ job[p].txn \in Op
  <2>1. pc[p] \in RecoverySteps \cup ResetSteps
    BY <1>1 DEF RecoverySteps, ResetSteps
  <2> QED BY <2>1, RecoveryHolds
<1> QED BY <1>1, <1>2, Renamed

\* A recovery or a reset replaces the journal by a prefix of it, and every byte
\* it drops is on stable storage in artifacts/ before.
THEOREM DroppedKept == Spec => DroppedTailIsKept
<1>1. Inv /\ [Next]_vars =>
        (outages' = outages /\ dir'.events # dir.events =>
           LET new == files'[dir'.events].lines IN
           /\ Extends(Active, new)
           /\ [tail |-> SubSeq(Active, Len(new) + 1, Len(Active)), synced |-> TRUE] \in vault)
  <2> SUFFICES ASSUME Inv, [Next]_vars, outages' = outages, dir'.events # dir.events
               PROVE  /\ Extends(Active, Active')
                      /\ [tail |-> SubSeq(Active, Len(Active') + 1, Len(Active)), synced |-> TRUE] \in vault
    BY DEF Active
  <2>1. ~ PowerLoss
    <3>1. outages \in Nat
      BY TypesAre DEF DataOK
    <3> QED BY <3>1 DEF PowerLoss
  <2>2. ASSUME NEW p \in Proc, FinishInspect(p) \/ \E t \in Txn : FinishLookup(p, t)
        PROVE  dir' = dir
    BY <2>2 DEF FinishInspect, FinishLookup
  <2>3. PICK p \in Proc : Renames(p)
    BY <2>1, <2>2, NamesAre
  <2> QED BY <2>3, RenamesKeep DEF Dropped
<1>2. Inv /\ [Next]_vars =>
        [outages' = outages /\ dir'.events # dir.events =>
           LET new == files'[dir'.events].lines IN
           /\ Extends(Active, new)
           /\ [tail |-> SubSeq(Active, Len(new) + 1, Len(Active)), synced |-> TRUE] \in vault]_vars
  BY <1>1
<1> QED BY <1>2, Invariance, PTL DEF Spec, DroppedTailIsKept

\* Without recoveries the name of the journal is as durable as its lines, and a
\* read has synchronised what it reports.
ReadsOK ==
  /\ disk.events = dir.events
  /\ \A t \in reported : Marked(DurableLines, t)

LEMMA ReadsStay ==
  ASSUME Op = {}, Inv, ReadsOK, [Next]_vars
  PROVE  ReadsOK'
<1>1. Inv' /\ Kept
  BY NextAdvances DEF Advances
<1>2. DurableLines \in Seq(Line) /\ DurableLines' \in Seq(Line) /\ DurableLines' = Durable(Stable')
  <2>1. Good(Stable')
    BY <1>1 DEF Inv, StoreOK, Stable
  <2> QED BY <2>1, StableIs, GoodFile DEF DurableLines, Durable, Stable
<1>3. \A t \in reported : Marked(DurableLines', t)
  BY <1>1, <1>2, CoversMarked DEF Kept, ReadsOK
<1>4. CASE PowerLoss
  <2>1. disk' = dir' /\ reported' = reported
    BY <1>4 DEF PowerLoss, told
  <2> QED BY <1>3, <2>1 DEF ReadsOK
<1>5. CASE /\ reported' = reported
           /\ dir'.events = dir.events /\ disk'.events \in {disk.events, dir.events}
  BY <1>3, <1>5 DEF ReadsOK
<1>6. ASSUME NEW p \in Proc, Renames(p) PROVE FALSE
  BY <1>6, RenamesKeep
<1>7. ASSUME NEW p \in Proc, FinishInspect(p) \/ \E t \in Txn : FinishLookup(p, t)
      PROVE  ReadsOK'
  <2>1. /\ pc[p] = "sync_view" /\ dir.events = job[p].ino /\ SyncFile(job[p].ino)
        /\ dir' = dir /\ disk' = disk
    BY <1>7 DEF FinishInspect, FinishLookup, ViewSynced, ViewCurrent
  <2>2. \A t \in reported' : t \in reported \/ (t \in ID /\ IsCommitted(Snapshot(p), t))
    BY <1>7 DEF FinishInspect, FinishLookup, Committed, ID
  <2>3. Stable'.lines = Active /\ Stable'.synced = Len(Active)
    BY <2>1, SyncGrown, FilesAre DEF Stable, Active, ReadsOK
  <2>4. /\ Durable(Stable') \in Seq(Line) /\ Len(Durable(Stable')) = Len(Active)
        /\ Same(Active, Durable(Stable'), Len(Active))
    BY <2>3, FilesAre, PrefixIs DEF Durable
  <2>5. ASSUME NEW t \in ID, IsCommitted(Snapshot(p), t) PROVE Marked(DurableLines', t)
    <3>1. /\ Sound(Snapshot(p)) /\ Len(Snapshot(p)) = job[p].upto /\ job[p].upto \in 0 .. Len(Active)
          /\ Same(Active, Snapshot(p), job[p].upto) /\ Len(Active) \in Nat
      BY <2>1, SnapshotIs, FilesAre DEF Active
    <3>2. Marked(Snapshot(p), t)
      BY <2>5, <3>1, CommittedIs
    <3> QED BY <1>2, <2>4, <3>1, <3>2 DEF Marked, Same
  <2> QED BY <1>3, <2>1, <2>2, <2>5 DEF ReadsOK
<1> QED BY <1>4, <1>5, <1>6, <1>7, NamesAre

\* Where nothing is recovered, a read keeps its word as well: what it reported as
\* committed is in whatever a power loss leaves.
THEOREM Reports ==
  ASSUME Op = {}
  PROVE  Spec => []ReportsHold
<1>1. Init => ReadsOK
  BY DEF Init, ReadsOK
<1>2. Inv /\ ReadsOK /\ [Next]_vars => ReadsOK'
  BY ReadsStay
<1>3. Inv /\ ReadsOK => ReportsHold
  <2> SUFFICES ASSUME Inv, ReadsOK PROVE ReportsHold
    OBVIOUS
  <2>1. AnswersHold
    BY AnswersAre
  <2>2. ASSUME NEW lines \in Survivors, NEW t \in reported PROVE IsCommitted(lines, t)
    <3>1. t \in ID /\ Marked(DurableLines, t)
      BY TypesAre DEF DataOK, ReadsOK
    <3> QED BY <3>1, SurvivorsKeep
  <2> QED BY <2>1, <2>2 DEF AnswersHold, ReportsHold
<1> QED BY <1>1, <1>2, <1>3, Invariance, PTL DEF Spec

=============================================================================
