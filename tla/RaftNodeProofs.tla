--------------------------- MODULE RaftNodeProofs --------------------------
(***************************************************************************)
(* What the operations of internal/raft/log.go preserve: the order of the  *)
(* four indices of a log, and hence that no slice reaches outside it.      *)
(* Then what the methods of a Raft member preserve, for every set of       *)
(* servers: the types of its fields, the order of its log's indices, and - *)
(* except in the steps of an election - its role, its term and its vote.   *)
(* Last, what the steps of an election do to terms, votes and leadership.  *)
(***************************************************************************)
EXTENDS RaftNode, Integers, TLAPS

\* Zenon unless a step cites SMT, with time for a busy machine.
USE ZenonT(300)
----------------------------------------------------------------------------
(* The log *)

\* The indices of a log are in order, as the comment of raftLog claims.
LogOK(l) ==
    /\ l \in LogState
    /\ l.snapIndex <= l.applied
    /\ l.applied <= l.committed
    /\ l.committed <= lastIndex(l)

\* lastIndex and the term found at an index within the log are naturals.
LEMMA LogIndexType ==
    ASSUME NEW l \in LogState
    PROVE  /\ lastIndex(l) \in Nat
           /\ \A i \in Nat : hasTerm(l, i) => termAt(l, i) \in Nat
<1>1. lastIndex(l) \in Nat
  BY SMTT(300) DEF LogState, lastIndex
<1>2. ASSUME NEW i \in Nat, hasTerm(l, i)
      PROVE  termAt(l, i) \in Nat
  <2>1. CASE i = l.snapIndex
    BY <2>1 DEF LogState, termAt
  <2>2. CASE i # l.snapIndex
    <3>1. i - l.snapIndex \in 1 .. Len(l.entries)
      BY <1>2, <2>2, SMTT(300) DEF LogState, hasTerm, lastIndex
    <3>2. l.entries[i - l.snapIndex] \in Entry
      BY <3>1, SMTT(300) DEF LogState
    <3> QED  BY <2>2, <3>2 DEF termAt, Entry
  <2> QED  BY <2>1, <2>2
<1> QED  BY <1>1, <1>2

\* slice returns entries when its lower end is beyond the snapshot boundary
\* and its upper end is within the log.
LEMMA SliceType ==
    ASSUME NEW l \in LogState, NEW lo \in Nat, NEW hi \in Nat,
           lo > l.snapIndex, hi <= lastIndex(l)
    PROVE  /\ slice(l, lo, hi) \in Seq(Entry)
           /\ Len(slice(l, lo, hi)) = IF lo <= hi THEN hi - lo + 1 ELSE 0
           /\ \A i \in lo .. hi : slice(l, lo, hi)[i - lo + 1] = l.entries[i - l.snapIndex]
<1> DEFINE m == lo - l.snapIndex
           n == hi - l.snapIndex
<1>1. m \in Int /\ n \in Int /\ m >= 1 /\ n <= Len(l.entries)
  BY SMTT(300) DEF LogState, lastIndex
<1>2. \A i \in m .. n : l.entries[i] \in Entry
  <2> SUFFICES ASSUME NEW i \in m .. n PROVE l.entries[i] \in Entry
    OBVIOUS
  <2>1. i \in 1 .. Len(l.entries)
    BY <1>1, SMTT(300) DEF LogState
  <2> QED  BY <2>1, SMTT(300) DEF LogState
<1>3. l.snapIndex \in Nat
  BY DEF LogState
<1>4. ASSUME NEW i \in lo .. hi
      PROVE  slice(l, lo, hi)[i - lo + 1] = l.entries[i - l.snapIndex]
  <2> DEFINE j == i - lo + 1
  <2>1. j \in 1 .. n - m + 1 /\ j + m - 1 = i - l.snapIndex
    BY <1>3, SMTT(300)
  <2> HIDE DEF j, m, n
  <2>2. SubSeq(l.entries, m, n)[j] = l.entries[j + m - 1]
    BY <1>1, <2>1, SMTT(300)
  <2>3. slice(l, lo, hi) = SubSeq(l.entries, m, n)
    BY DEF slice, m, n
  <2>4. SubSeq(l.entries, m, n)[j] = l.entries[i - l.snapIndex]
    BY <2>1, <2>2
  <2> QED  BY <2>3, <2>4 DEF j
<1>5. /\ slice(l, lo, hi) \in Seq(Entry)
      /\ Len(slice(l, lo, hi)) = IF lo <= hi THEN hi - lo + 1 ELSE 0
  BY <1>1, <1>2, <1>3, SMTT(300) DEF slice
<1> QED  BY <1>4, <1>5

\* An index above the boundary and in the log has an entry.
LEMMA EntryAtType ==
    ASSUME NEW l \in LogState, NEW i \in Nat, i > l.snapIndex, i <= lastIndex(l)
    PROVE  l.entries[i - l.snapIndex] \in Entry
<1>1. i - l.snapIndex \in 1 .. Len(l.entries)
  BY SMTT(300) DEF LogState, lastIndex
<1> QED  BY <1>1, SMTT(300) DEF LogState
----------------------------------------------------------------------------
\* append keeps the order of the indices.
LEMMA AppendOK ==
    ASSUME NEW l, LogOK(l), NEW ents \in Seq(Entry)
    PROVE  LET k == appendEntries(l, ents)
           IN  /\ LogOK(k)
               /\ k.snapIndex = l.snapIndex
               /\ k.applied = l.applied
               /\ k.committed = l.committed
               /\ lastIndex(k) = lastIndex(l) + Len(ents)
<1> DEFINE k == appendEntries(l, ents)
<1>1. /\ l.entries \o ents \in Seq(Entry)
      /\ Len(l.entries \o ents) = Len(l.entries) + Len(ents)
  BY SMTT(300) DEF LogOK, LogState
<1>2. l \in LogState
  BY DEF LogOK
<1>3. /\ k \in LogState
      /\ k.entries = l.entries \o ents
      /\ k.snapIndex = l.snapIndex
      /\ k.applied = l.applied
      /\ k.committed = l.committed
  BY <1>1, <1>2 DEF LogState, appendEntries
<1>4. Len(l.entries) \in Nat /\ Len(ents) \in Nat /\ l.snapIndex \in Nat /\ l.committed \in Nat
  BY <1>2, SMTT(300) DEF LogState
<1> HIDE DEF k
<1> QED  BY <1>1, <1>3, <1>4, SMTT(300) DEF LogOK, lastIndex, k

\* commitTo keeps the order of the indices if the new index is in the log.
LEMMA CommitToOK ==
    ASSUME NEW l, LogOK(l), NEW i \in Nat, i <= lastIndex(l)
    PROVE  /\ LogOK(commitTo(l, i))
           /\ commitTo(l, i) = [l EXCEPT !.committed = commitTo(l, i).committed]
           /\ commitTo(l, i).committed >= l.committed
           /\ lastIndex(commitTo(l, i)) = lastIndex(l)
BY SMTT(300) DEF LogOK, LogState, commitTo, maxOf, lastIndex

\* compactTo keeps the order of the indices up to the applied index.
LEMMA CompactToOK ==
    ASSUME NEW l, LogOK(l)
    PROVE  /\ LogOK(compactTo(l, l.applied))
           /\ lastIndex(compactTo(l, l.applied)) = lastIndex(l)
           /\ compactTo(l, l.applied).applied = l.applied
           /\ compactTo(l, l.applied).committed = l.committed
           /\ compactTo(l, l.applied).snapIndex = l.applied
           /\ \A i \in (l.applied + 1) .. lastIndex(l) :
                 compactTo(l, l.applied).entries[i - l.applied] = l.entries[i - l.snapIndex]
<1>1. l \in LogState /\ l.applied \in Nat /\ lastIndex(l) \in Nat /\ l.snapIndex \in Nat
  BY LogIndexType DEF LogOK, LogState
<1>2. CASE l.applied <= l.snapIndex
  BY <1>1, <1>2, SMTT(300) DEF compactTo, LogOK
<1>3. CASE l.applied > l.snapIndex
  <2> DEFINE tail == slice(l, l.applied + 1, lastIndex(l))
  <2>1. /\ tail \in Seq(Entry) /\ Len(tail) = lastIndex(l) - l.applied
        /\ \A i \in (l.applied + 1) .. lastIndex(l) :
              tail[i - l.applied] = l.entries[i - l.snapIndex]
    <3>1. l.applied <= lastIndex(l) /\ l.applied + 1 \in Nat /\ l.applied + 1 > l.snapIndex
      BY <1>1, <1>3, SMTT(300) DEF LogOK, LogState
    <3> DEFINE lo == l.applied + 1
    <3>2. lo \in Nat /\ lo > l.snapIndex /\ lastIndex(l) <= lastIndex(l)
      BY <1>1, <3>1, SMTT(300)
    <3> HIDE DEF lo
    <3>3. /\ slice(l, lo, lastIndex(l)) \in Seq(Entry)
          /\ Len(slice(l, lo, lastIndex(l))) =
                IF lo <= lastIndex(l) THEN lastIndex(l) - lo + 1 ELSE 0
          /\ \A i \in lo .. lastIndex(l) :
                slice(l, lo, lastIndex(l))[i - lo + 1] = l.entries[i - l.snapIndex]
      BY <1>1, <3>2, SliceType
    <3>4. \A i \in lo .. lastIndex(l) : i - lo + 1 = i - l.applied
      BY <1>1, SMTT(300) DEF lo
    <3>5. \A i \in lo .. lastIndex(l) :
             slice(l, lo, lastIndex(l))[i - l.applied] = l.entries[i - l.snapIndex]
      BY <3>3, <3>4
    <3>6. Len(slice(l, lo, lastIndex(l))) = lastIndex(l) - l.applied
      BY <1>1, <3>1, <3>3, SMTT(300) DEF lo
    <3> QED  BY <3>3, <3>5, <3>6 DEF lo
  <2>2. termAt(l, l.applied) \in Nat
    BY <1>1, <1>3, LogIndexType, SMTT(300) DEF LogOK, LogState, hasTerm
  <2>3. compactTo(l, l.applied) = [l EXCEPT !.entries = tail, !.snapIndex = l.applied,
                                            !.snapTerm = termAt(l, l.applied)]
    BY <1>1, <1>3, SMTT(300) DEF compactTo
  <2> DEFINE k == compactTo(l, l.applied)
  <2> HIDE DEF tail
  <2>4. /\ k \in LogState
        /\ k.entries = tail
        /\ k.snapIndex = l.applied
        /\ k.applied = l.applied
        /\ k.committed = l.committed
    BY <1>1, <2>1, <2>2, <2>3 DEF LogState
  <2>5. lastIndex(k) = l.applied + (lastIndex(l) - l.applied)
    BY <2>1, <2>4 DEF lastIndex
  <2>6. \A i \in (l.applied + 1) .. lastIndex(l) :
           k.entries[i - l.applied] = l.entries[i - l.snapIndex]
    BY <2>1, <2>4
  <2> HIDE DEF k
  <2>7. LogOK(k) /\ lastIndex(k) = lastIndex(l)
    BY <1>1, <2>4, <2>5, SMTT(300) DEF LogOK, LogState
  <2> QED  BY <2>4, <2>6, <2>7 DEF k
<1> QED  BY <1>1, <1>2, <1>3, SMTT(300)
----------------------------------------------------------------------------
(***************************************************************************)
(* The consistency check of maybeAppend makes the truncation well defined: *)
(* everything before the first conflict is in the log.                     *)
(***************************************************************************)
LEMMA BeforeConflicts ==
    ASSUME NEW l \in LogState, NEW prev \in Nat, NEW ents \in Seq(Entry),
           hasTerm(l, prev), NEW k \in Nat, k > l.snapIndex, k <= prev + Len(ents),
           ~ \E i \in conflicts(l, prev, ents) : prev + i <= k
    PROVE  k <= lastIndex(l)
<1>1. l.snapIndex \in Nat /\ lastIndex(l) \in Nat /\ Len(ents) \in Nat
  BY LogIndexType, SMTT(300) DEF LogState
<1>2. CASE k <= prev
  BY <1>1, <1>2, SMTT(300) DEF hasTerm
<1>3. CASE k > prev
  <2>1. k - prev \in 1 .. Len(ents) /\ prev + (k - prev) = k
    BY <1>1, <1>3, SMTT(300)
  <2>2. k - prev \notin conflicts(l, prev, ents)
    BY <2>1, SMTT(300)
  <2>3. hasTerm(l, k)
    BY <2>1, <2>2 DEF conflicts
  <2> QED  BY <1>1, <2>3, SMTT(300) DEF hasTerm
<1> QED  BY <1>1, <1>2, <1>3, SMTT(300)

\* maybeAppend, after a successful consistency check, keeps the order of
\* the indices and the committed entries, and leaves every index up to
\* lastNew in the log.
LEMMA SplicedOK ==
    ASSUME NEW l, LogOK(l), NEW prev \in Nat, NEW ents \in Seq(Entry),
           hasTerm(l, prev), ~ truncatesCommitted(l, prev, ents)
    PROVE  LET k == spliced(l, prev, ents)
           IN  /\ LogOK(k)
               /\ k.snapIndex = l.snapIndex
               /\ k.applied = l.applied
               /\ k.committed = l.committed
               /\ prev + Len(ents) <= lastIndex(k)
               /\ \A i \in 1 .. l.committed - l.snapIndex : k.entries[i] = l.entries[i]
<1> DEFINE k == spliced(l, prev, ents)
           C == conflicts(l, prev, ents)
<1>0. /\ l \in LogState
      /\ l.snapIndex \in Nat /\ l.applied \in Nat /\ l.committed \in Nat
      /\ lastIndex(l) \in Nat
      /\ l.entries \in Seq(Entry) /\ Len(l.entries) \in Nat
      /\ Len(ents) \in Nat
  BY LogIndexType, SMTT(300) DEF LogOK, LogState
<1>1. CASE C = {}
  <2>1. k = l
    BY <1>1 DEF spliced
  <2>2. CASE Len(ents) = 0
    BY <1>0, <2>1, <2>2, SMTT(300) DEF LogOK, hasTerm
  <2>3. CASE Len(ents) # 0
    <3>1. Len(ents) \in 1 .. Len(ents)
      BY <1>0, <2>3, SMTT(300)
    <3>2. hasTerm(l, prev + Len(ents))
      BY <1>1, <3>1 DEF conflicts
    <3> QED  BY <1>0, <2>1, <3>2, SMTT(300) DEF LogOK, hasTerm
  <2> QED  BY <2>2, <2>3
<1>2. CASE C # {}
  <2> DEFINE N == prev + Len(ents) - l.snapIndex
             f == [j \in 1 .. N |->
                      IF \E i \in C : prev + i <= l.snapIndex + j
                      THEN ents[l.snapIndex + j - prev]
                      ELSE l.entries[j]]
  <2>0. l.snapIndex \in Nat /\ Len(ents) \in Nat
    BY <1>0
  <2>1. N \in Nat
    BY <1>0, SMTT(300) DEF hasTerm
  <2>2. k = [l EXCEPT !.entries = f]
    BY <1>2 DEF spliced
  <2>3. C \subseteq 1 .. Len(ents) /\ \A i \in C : prev + i > l.committed
    BY <1>0, SMTT(300) DEF truncatesCommitted, conflicts
  <2>4. ASSUME NEW j \in 1 .. N
        PROVE  (IF \E i \in C : prev + i <= l.snapIndex + j
                THEN ents[l.snapIndex + j - prev] ELSE l.entries[j]) \in Entry
    <3>1. CASE \E i \in C : prev + i <= l.snapIndex + j
      <4> HIDE DEF C
      <4>1. PICK i \in C : prev + i <= l.snapIndex + j
        BY <3>1
      <4>2. i \in 1 .. Len(ents)
        BY <2>3, <4>1
      <4>3. l.snapIndex + j - prev \in 1 .. Len(ents)
        BY <2>0, <4>1, <4>2, SMTT(300)
      <4> QED  BY <3>1, <4>3, SMTT(300)
    <3>2. CASE ~ \E i \in C : prev + i <= l.snapIndex + j
      <4>1. l.snapIndex + j <= lastIndex(l)
        <5> DEFINE m == l.snapIndex + j
        <5>1. m \in Nat /\ m > l.snapIndex /\ m <= prev + Len(ents)
          BY <2>0, SMTT(300)
        <5> HIDE DEF m
        <5> QED  BY <1>0, <3>2, <5>1, BeforeConflicts DEF m
      <4>2. j \in 1 .. Len(l.entries)
        BY <1>0, <4>1, SMTT(300) DEF lastIndex
      <4> QED  BY <1>0, <3>2, <4>2, SMTT(300)
    <3> QED  BY <3>1, <3>2
  <2> HIDE DEF C
  <2>9. prev + Len(ents) >= l.committed
    <3>1. PICK i \in C : i \in 1 .. Len(ents) /\ prev + i > l.committed
      BY <1>2, <2>3
    <3> QED  BY <1>0, <3>1, SMTT(300)
  <2>10. ASSUME NEW j \in 1 .. l.committed - l.snapIndex
         PROVE  f[j] = l.entries[j]
    <3>1. j \in 1 .. N
      BY <1>0, <2>9, SMTT(300)
    <3>2. ~ \E i \in C : prev + i <= l.snapIndex + j
      BY <1>0, <2>3, SMTT(300)
    <3> QED  BY <3>1, <3>2
  <2> HIDE DEF N
  <2>5. Len(f) = N
    BY <2>1, SMTT(300)
  <2>6. f \in Seq(Entry) /\ Len(f) = N
    BY <2>1, <2>4, <2>5, SMTT(300)
  <2> HIDE DEF f
  <2>7. /\ k \in LogState
        /\ k.entries = f
        /\ k.snapIndex = l.snapIndex
        /\ k.applied = l.applied
        /\ k.committed = l.committed
    <3> HIDE DEF k
    <3> QED  BY <1>0, <2>2, <2>6 DEF LogState
  <2>8. lastIndex(k) = prev + Len(ents)
    <3> HIDE DEF k
    <3>1. lastIndex(k) = l.snapIndex + N
      BY <2>6, <2>7 DEF lastIndex
    <3> QED  BY <1>0, <3>1, SMTT(300) DEF N
  <2> HIDE DEF k
  <2> QED  BY <1>0, <2>7, <2>8, <2>9, <2>10, SMTT(300) DEF LogOK, k
<1> QED  BY <1>1, <1>2

\* maybeAppend keeps the order of the indices and the committed entries
\* when it accepts.
LEMMA MaybeAppendOK ==
    ASSUME NEW l, LogOK(l), NEW prev \in Nat, NEW commit \in Nat,
           NEW ents \in Seq(Entry),
           hasTerm(l, prev), ~ truncatesCommitted(l, prev, ents)
    PROVE  LET k == maybeAppend(l, prev, commit, ents)
           IN  /\ LogOK(k)
               /\ k.snapIndex = l.snapIndex
               /\ k.applied = l.applied
               /\ k.committed >= l.committed
               /\ \A i \in 1 .. l.committed - l.snapIndex : k.entries[i] = l.entries[i]
<1> DEFINE s == spliced(l, prev, ents)
           c == minOf(commit, prev + Len(ents))
<1>1. /\ LogOK(s) /\ s.snapIndex = l.snapIndex /\ s.applied = l.applied
      /\ prev + Len(ents) <= lastIndex(s) /\ s.committed = l.committed
      /\ \A i \in 1 .. l.committed - l.snapIndex : s.entries[i] = l.entries[i]
  BY SplicedOK, SMTT(300)
<1>2. s \in LogState /\ lastIndex(s) \in Nat
  BY <1>1, LogIndexType DEF LogOK
<1> HIDE DEF s
<1>3. c \in Nat /\ c <= lastIndex(s)
  BY <1>1, <1>2, SMTT(300) DEF minOf
<1> HIDE DEF c
<1>4. LogOK(commitTo(s, c)) /\ commitTo(s, c).committed >= s.committed
  BY <1>1, <1>3, CommitToOK
<1>5. /\ commitTo(s, c).snapIndex = s.snapIndex /\ commitTo(s, c).applied = s.applied
      /\ commitTo(s, c).entries = s.entries
  BY <1>2 DEF commitTo, LogState
<1> QED  BY <1>1, <1>4, <1>5 DEF maybeAppend, s, c
----------------------------------------------------------------------------
(* The member *)

\* A member's state as every handler finds and leaves it.
NodeOK(nd) ==
    /\ nd \in NodeState
    /\ LogOK(nd.log)
    /\ nd.log.applied <= nd.stabled

\* The votes granted by the messages of a set.
Grants(S) == {m \in S : m.type = MsgVoteResp /\ ~ m.reject}

\* b is a healthy state with the log boundary and progress to disk of a.
Settled(a, b) ==
    /\ NodeOK(b)
    /\ b.id = a.id
    /\ b.stabled = a.stabled
    /\ b.log.snapIndex = a.log.snapIndex
    /\ b.log.applied = a.log.applied

\* The reads that a member has yet to release.
Waits(nd) == nd.pendingReads \cup nd.roundReads \cup nd.readReady

\* Log k holds what log l holds and perhaps more, and commits no less.
Extends(l, k) ==
    /\ k.committed >= l.committed
    /\ Len(k.entries) >= Len(l.entries)
    /\ \A i \in 1 .. Len(l.entries) : k.entries[i] = l.entries[i]

\* A read that waits in b waited in a, or was given an index committed by b.
Stamped(a, b) == \A r \in Waits(b) : r \in Waits(a) \/ r.index <= b.log.committed

\* From a to b nothing was lost that somebody waits for.
Steady(a, b) ==
    /\ Extends(a.log, b.log)
    /\ Waits(a) \subseteq Waits(b)
    /\ Stamped(a, b)

\* From a to b nothing that a had committed was lost.
Keeps(a, b) ==
    /\ b.log.committed >= a.log.committed
    /\ \A i \in 1 .. a.log.committed - a.log.snapIndex :
          b.log.entries[i] = a.log.entries[i]
    /\ Stamped(a, b)

\* From a to b nothing was lost, nor changed that counts in an election.
Quiet(a, b) ==
    /\ NodeOK(a)
    /\ Settled(a, b)
    /\ Steady(a, b)
    /\ b.role = a.role
    /\ b.term = a.term
    /\ b.vote = a.vote
    /\ b.votes = a.votes
    /\ b.panicked = a.panicked
    /\ Grants(b.msgs) = Grants(a.msgs)

\* The numbers and reads of a healthy member.
LEMMA NodeNumbers ==
    ASSUME NEW a, NodeOK(a)
    PROVE  /\ a.log.committed \in Nat /\ a.log.snapIndex \in Nat
           /\ Len(a.log.entries) \in Nat
           /\ a.log.committed - a.log.snapIndex <= Len(a.log.entries)
           /\ \A r \in Waits(a) : r.index \in Nat
<1>1. a \in NodeState /\ a.log \in LogState /\ LogOK(a.log)
  BY DEF NodeOK, LogOK
<1>2. /\ a.log.committed \in Nat /\ a.log.snapIndex \in Nat
      /\ Len(a.log.entries) \in Nat
  BY <1>1, SMTT(300) DEF LogState
<1>3. a.log.committed <= a.log.snapIndex + Len(a.log.entries)
  BY <1>1 DEF LogOK, lastIndex
<1>4. \A r \in Waits(a) : r.index \in Nat
  BY <1>1 DEF Waits, NodeState, Read
<1> QED  BY <1>2, <1>3, <1>4, SMTT(300)

\* What leaves log and reads alone is steady.
LEMMA SameSteady ==
    ASSUME NEW a, NEW b, NodeOK(a), b.log = a.log, b.pendingReads = a.pendingReads,
           b.roundReads = a.roundReads, b.readReady = a.readReady
    PROVE  Steady(a, b)
<1>1. Waits(b) = Waits(a)
  BY DEF Waits
<1> QED  BY <1>1, NodeNumbers, SMTT(300) DEF Steady, Extends, Stamped

\* Steady changes compose.
LEMMA SteadyTransitive ==
    ASSUME NEW a, NEW b, NEW c, NodeOK(a), NodeOK(b), NodeOK(c), Steady(a, b), Steady(b, c)
    PROVE  Steady(a, c)
<1>1. /\ a.log.committed \in Nat /\ b.log.committed \in Nat /\ c.log.committed \in Nat
      /\ Len(a.log.entries) \in Nat /\ Len(b.log.entries) \in Nat
      /\ Len(c.log.entries) \in Nat /\ \A r \in Waits(b) : r.index \in Nat
  BY NodeNumbers
<1>2. Extends(a.log, c.log)
  <2>1. c.log.committed >= a.log.committed /\ Len(c.log.entries) >= Len(a.log.entries)
    BY <1>1, SMTT(300) DEF Steady, Extends
  <2>2. ASSUME NEW i \in 1 .. Len(a.log.entries)
        PROVE  c.log.entries[i] = a.log.entries[i]
    <3>1. i \in 1 .. Len(b.log.entries)
      BY <1>1, SMTT(300) DEF Steady, Extends
    <3> QED  BY <3>1 DEF Steady, Extends
  <2> QED  BY <2>1, <2>2 DEF Extends
<1>3. Stamped(a, c)
  BY <1>1, SMTT(300) DEF Steady, Stamped, Extends
<1> QED  BY <1>2, <1>3 DEF Steady

\* A steady change keeps what was committed.
LEMMA SteadyKeeps ==
    ASSUME NEW a, NEW b, NodeOK(a), Steady(a, b)
    PROVE  Keeps(a, b)
BY NodeNumbers, SMTT(300) DEF Steady, Extends, Keeps

\* So does one that leaves the log alone and takes on no read.
LEMMA SameKeeps ==
    ASSUME NEW a, NEW b, NodeOK(a), b.log = a.log, Waits(b) \subseteq Waits(a)
    PROVE  Keeps(a, b)
BY NodeNumbers, SMTT(300) DEF Keeps, Stamped

\* Keeping what was committed composes.
LEMMA KeepsTransitive ==
    ASSUME NEW a, NEW b, NEW c, NodeOK(a), NodeOK(b), NodeOK(c),
           a.log.snapIndex = b.log.snapIndex, Keeps(a, b), Keeps(b, c)
    PROVE  Keeps(a, c)
<1>1. /\ a.log.committed \in Nat /\ b.log.committed \in Nat /\ c.log.committed \in Nat
      /\ a.log.snapIndex \in Nat /\ \A r \in Waits(b) : r.index \in Nat
  BY NodeNumbers
<1>2. Stamped(a, c)
  BY <1>1, SMTT(300) DEF Keeps, Stamped
<1> QED  BY <1>1, <1>2, SMTT(300) DEF Keeps

\* Quiet changes compose.
LEMMA QuietTransitive ==
    ASSUME NEW a, NEW b, NEW c, Quiet(a, b), Quiet(b, c)
    PROVE  Quiet(a, c)
<1>1. NodeOK(a) /\ NodeOK(b) /\ NodeOK(c) /\ Settled(a, c)
  BY DEF Quiet, Settled
<1>2. Steady(a, c)
  BY <1>1, SteadyTransitive DEF Quiet
<1> QED  BY <1>1, <1>2 DEF Quiet

\* Doing nothing to a healthy member is quiet.
LEMMA QuietReflexive ==
    ASSUME NEW a, NodeOK(a)
    PROVE  Quiet(a, a)
BY SameSteady DEF Quiet, Settled

\* A quiet change ends in a healthy member.
LEMMA QuietOK ==
    ASSUME NEW a, NEW b, Quiet(a, b)
    PROVE  NodeOK(b)
BY DEF Quiet, Settled
----------------------------------------------------------------------------
\* What send fills in is a message.
LEMMA MsgType ==
    ASSUME NEW nd \in NodeState, NEW type \in MessageType, NEW to \in Server
    PROVE  /\ msg(nd, type, to) \in Message
           /\ msg(nd, type, to).type = type
           /\ msg(nd, type, to).from = nd.id
           /\ msg(nd, type, to).to = to
           /\ msg(nd, type, to).term = nd.term
<1>1. <<>> \in Seq(Entry)
  BY SMTT(300)
<1> QED  BY <1>1 DEF msg, Message, NodeState

\* Sending a set of messages that grant no vote.
LEMMA MsgsQuiet ==
    ASSUME NEW nd, NodeOK(nd), NEW M, M \subseteq Message, Grants(M) = {}
    PROVE  Quiet(nd, [nd EXCEPT !.msgs = @ \cup M])
<1> DEFINE b == [nd EXCEPT !.msgs = @ \cup M]
<1>1. nd \in NodeState
  BY DEF NodeOK
<1>2. b \in NodeState
  BY <1>1 DEF NodeState
<1>3. /\ b.id = nd.id /\ b.role = nd.role /\ b.term = nd.term /\ b.vote = nd.vote
      /\ b.votes = nd.votes /\ b.log = nd.log /\ b.stabled = nd.stabled
      /\ b.panicked = nd.panicked /\ b.msgs = nd.msgs \cup M
      /\ b.pendingReads = nd.pendingReads /\ b.roundReads = nd.roundReads
      /\ b.readReady = nd.readReady
  BY <1>1 DEF NodeState
<1> HIDE DEF b
<1>4. Grants(b.msgs) = Grants(nd.msgs)
  BY <1>3 DEF Grants
<1>5. Settled(nd, b)
  BY <1>2, <1>3 DEF Settled, NodeOK
<1>6. Steady(nd, b)
  BY <1>3, SameSteady
<1> QED  BY <1>3, <1>4, <1>5, <1>6 DEF Quiet, b

\* Sending anything but a granted vote is quiet.
LEMMA SendQuiet ==
    ASSUME NEW nd, NodeOK(nd), NEW m \in Message, m.type # MsgVoteResp \/ m.reject
    PROVE  Quiet(nd, send(nd, m))
<1>1. {m} \subseteq Message /\ Grants({m}) = {}
  BY DEF Grants
<1> QED  BY <1>1, MsgsQuiet DEF send

\* The append a leader builds from its log is a message.
LEMMA AppendMsgType ==
    ASSUME NEW nd, NodeOK(nd), NEW to \in Server
    PROVE  /\ appendMsg(nd, to) \in Message
           /\ appendMsg(nd, to).type \in {MsgApp, MsgSnap}
           /\ nextAfterSend(nd, to) \in Nat \ {0}
<1>1. nd \in NodeState /\ nd.log \in LogState /\ nd.next[to] \in Nat \ {0}
  BY DEF NodeOK, NodeState
<1>2. nd.log.snapIndex \in Nat /\ nd.log.snapTerm \in Nat /\ nd.log.committed \in Nat
  BY <1>1 DEF LogState
<1>3. nextAfterSend(nd, to) \in Nat \ {0}
  BY <1>1, <1>2, SMTT(300) DEF nextAfterSend
<1>4. CASE needsSnapshot(nd, to)
  <2>1. MsgSnap \in MessageType
    BY DEF MessageType
  <2>2. /\ msg(nd, MsgSnap, to) \in Message
        /\ msg(nd, MsgSnap, to).type = MsgSnap
    BY <1>1, <2>1, MsgType, SMTT(300)
  <2>3. appendMsg(nd, to) = [msg(nd, MsgSnap, to) EXCEPT !.logIndex = nd.log.snapIndex,
                                                         !.logTerm  = nd.log.snapTerm]
    BY <1>4 DEF appendMsg
  <2> QED  BY <1>2, <1>3, <2>2, <2>3 DEF Message
<1>5. CASE ~ needsSnapshot(nd, to)
  <2> DEFINE prev == nd.next[to] - 1
             ents == slice(nd.log, prev + 1, lastIndex(nd.log))
             com  == commitFor(nd, prev + Len(ents))
  <2>1. prev \in Nat /\ hasTerm(nd.log, prev) /\ lastIndex(nd.log) \in Nat
    BY <1>1, <1>5, LogIndexType, SMTT(300) DEF needsSnapshot
  <2>2. termAt(nd.log, prev) \in Nat
    BY <1>1, <2>1, LogIndexType
  <2>3. ents \in Seq(Entry)
    <3> DEFINE lo == prev + 1
    <3>1. lo \in Nat /\ lo > nd.log.snapIndex /\ lastIndex(nd.log) <= lastIndex(nd.log)
      BY <1>2, <2>1, SMTT(300) DEF hasTerm
    <3> HIDE DEF lo
    <3>2. slice(nd.log, lo, lastIndex(nd.log)) \in Seq(Entry)
      BY <1>1, <2>1, <3>1, SliceType
    <3> QED  BY <3>2 DEF lo
  <2> HIDE DEF ents
  <2>4. com \in Nat
    BY <1>2, <2>1, <2>3, SMTT(300) DEF commitFor, minOf
  <2>5. MsgApp \in MessageType
    BY DEF MessageType
  <2>6. msg(nd, MsgApp, to) \in Message /\ msg(nd, MsgApp, to).type = MsgApp
    BY <1>1, <2>5, MsgType, SMTT(300)
  <2>7. appendMsg(nd, to) = [msg(nd, MsgApp, to) EXCEPT
                                !.logIndex = prev, !.logTerm = termAt(nd.log, prev),
                                !.entries = ents, !.commit = com]
    BY <1>5 DEF appendMsg, ents
  <2> HIDE DEF prev, com
  <2> QED  BY <1>3, <2>1, <2>2, <2>3, <2>4, <2>6, <2>7 DEF Message
<1> QED  BY <1>4, <1>5
----------------------------------------------------------------------------
(* Replication leaves elections alone. *)

\* Changing the progress towards followers and sending appends.
LEMMA ProgressQuiet ==
    ASSUME NEW nd, NodeOK(nd), NEW M, M \subseteq Message, Grants(M) = {},
           NEW nxt \in [Server -> Nat \ {0}]
    PROVE  Quiet(nd, [nd EXCEPT !.msgs = nd.msgs \cup M, !.next = nxt])
<1> DEFINE b == [nd EXCEPT !.msgs = nd.msgs \cup M, !.next = nxt]
<1>1. nd \in NodeState
  BY DEF NodeOK
<1>2. b \in NodeState
  BY <1>1 DEF NodeState
<1>3. /\ b.id = nd.id /\ b.role = nd.role /\ b.term = nd.term /\ b.vote = nd.vote
      /\ b.votes = nd.votes /\ b.log = nd.log /\ b.stabled = nd.stabled
      /\ b.panicked = nd.panicked /\ b.msgs = nd.msgs \cup M
      /\ b.pendingReads = nd.pendingReads /\ b.roundReads = nd.roundReads
      /\ b.readReady = nd.readReady
  BY <1>1 DEF NodeState
<1> HIDE DEF b
<1>4. Grants(b.msgs) = Grants(nd.msgs)
  BY <1>3 DEF Grants
<1>5. Settled(nd, b)
  BY <1>2, <1>3 DEF Settled, NodeOK
<1>6. Steady(nd, b)
  BY <1>3, SameSteady
<1> QED  BY <1>3, <1>4, <1>5, <1>6 DEF Quiet, b

\* sendAppend is quiet, probing and falling back to a snapshot included.
LEMMA SendAppendQuiet ==
    ASSUME NEW nd, NodeOK(nd), NEW to \in Server
    PROVE  Quiet(nd, sendAppend(nd, to))
<1>1. /\ appendMsg(nd, to) \in Message
      /\ appendMsg(nd, to).type \in {MsgApp, MsgSnap}
      /\ nextAfterSend(nd, to) \in Nat \ {0}
  BY AppendMsgType
<1> DEFINE M   == {appendMsg(nd, to)}
           nxt == [nd.next EXCEPT ![to] = nextAfterSend(nd, to)]
<1>2. M \subseteq Message /\ Grants(M) = {}
  BY <1>1 DEF Grants, MsgApp, MsgSnap, MsgVoteResp
<1>3. nd \in NodeState
  BY DEF NodeOK
<1>4. nxt \in [Server -> Nat \ {0}]
  BY <1>1, <1>3 DEF NodeState
<1>5. sendAppend(nd, to) = [nd EXCEPT !.msgs = nd.msgs \cup M, !.next = nxt]
  BY <1>3 DEF sendAppend, NodeState
<1> HIDE DEF M, nxt
<1>6. Quiet(nd, [nd EXCEPT !.msgs = nd.msgs \cup M, !.next = nxt])
  BY <1>2, <1>4, ProgressQuiet
<1> QED  BY <1>5, <1>6

\* bcastAppend is quiet.
LEMMA BcastAppendQuiet ==
    ASSUME NEW nd, NodeOK(nd)
    PROVE  Quiet(nd, bcastAppend(nd))
<1> DEFINE M   == {appendMsg(nd, p) : p \in peersOf(nd)}
           nxt == [p \in Server |-> IF p = nd.id THEN nd.next[p]
                                    ELSE nextAfterSend(nd, p)]
<1>1. \A p \in Server : /\ appendMsg(nd, p) \in Message
                        /\ appendMsg(nd, p).type \in {MsgApp, MsgSnap}
                        /\ nextAfterSend(nd, p) \in Nat \ {0}
  BY AppendMsgType
<1>2. M \subseteq Message /\ Grants(M) = {}
  BY <1>1 DEF Grants, MsgApp, MsgSnap, MsgVoteResp, peersOf
<1>3. \A p \in Server : nd.next[p] \in Nat \ {0}
  BY DEF NodeOK, NodeState
<1>4. nxt \in [Server -> Nat \ {0}]
  BY <1>1, <1>3
<1>5. bcastAppend(nd) = [nd EXCEPT !.msgs = nd.msgs \cup M, !.next = nxt]
  BY DEF bcastAppend
<1> HIDE DEF M, nxt
<1>6. Quiet(nd, [nd EXCEPT !.msgs = nd.msgs \cup M, !.next = nxt])
  BY <1>2, <1>4, ProgressQuiet
<1> QED  BY <1>5, <1>6

\* Changing the state of the read rounds.
LEMMA ReadsQuiet ==
    ASSUME NEW nd, NodeOK(nd), NEW pending \in SUBSET Read, NEW round \in SUBSET Read,
           NEW ready \in SUBSET Read, NEW acks \in SUBSET Server,
           Waits(nd) \subseteq pending \cup round \cup ready,
           \A r \in pending \cup round \cup ready :
              r \in Waits(nd) \/ r.index <= nd.log.committed
    PROVE  Quiet(nd, [nd EXCEPT !.pendingReads = pending, !.roundReads = round,
                                !.readReady = ready, !.readAcks = acks])
<1> DEFINE b == [nd EXCEPT !.pendingReads = pending, !.roundReads = round,
                           !.readReady = ready, !.readAcks = acks]
<1>1. nd \in NodeState
  BY DEF NodeOK
<1>2. b \in NodeState
  BY <1>1 DEF NodeState
<1>3. /\ b.id = nd.id /\ b.role = nd.role /\ b.term = nd.term /\ b.vote = nd.vote
      /\ b.votes = nd.votes /\ b.log = nd.log /\ b.stabled = nd.stabled
      /\ b.panicked = nd.panicked /\ b.msgs = nd.msgs
      /\ b.pendingReads = pending /\ b.roundReads = round /\ b.readReady = ready
  BY <1>1 DEF NodeState
<1> HIDE DEF b
<1>4. Waits(b) = pending \cup round \cup ready
  BY <1>3 DEF Waits
<1>5. Steady(nd, b)
  BY <1>3, <1>4, NodeNumbers, SMTT(300) DEF Steady, Extends, Stamped
<1>6. Settled(nd, b)
  BY <1>2, <1>3 DEF Settled, NodeOK
<1> QED  BY <1>3, <1>5, <1>6 DEF Quiet, b

\* bcastHeartbeat is quiet.
LEMMA BcastHeartbeatQuiet ==
    ASSUME NEW nd, NodeOK(nd)
    PROVE  Quiet(nd, bcastHeartbeat(nd))
<1> DEFINE r == [nd EXCEPT !.readAcks = {nd.id}]
<1>1. nd \in NodeState
  BY DEF NodeOK
<1>2. r = [nd EXCEPT !.pendingReads = nd.pendingReads, !.roundReads = nd.roundReads,
                     !.readReady = nd.readReady, !.readAcks = {nd.id}]
  BY <1>1 DEF NodeState
<1>3. /\ nd.pendingReads \in SUBSET Read /\ nd.roundReads \in SUBSET Read
      /\ nd.readReady \in SUBSET Read /\ {nd.id} \in SUBSET Server
  BY <1>1 DEF NodeState
<1>w. /\ Waits(nd) \subseteq nd.pendingReads \cup nd.roundReads \cup nd.readReady
      /\ \A x \in nd.pendingReads \cup nd.roundReads \cup nd.readReady :
            x \in Waits(nd) \/ x.index <= nd.log.committed
  BY DEF Waits
<1> HIDE DEF r
<1>4. Quiet(nd, r)
  BY <1>w, <1>2, <1>3, ReadsQuiet
<1>5. CASE roundActive(nd)
  <2>1. Quiet(r, bcastAppend(r))
    BY <1>4, QuietOK, BcastAppendQuiet
  <2>2. bcastHeartbeat(nd) = bcastAppend(r)
    BY <1>5 DEF bcastHeartbeat, r
  <2> QED  BY <1>4, <2>1, <2>2, QuietTransitive
<1>6. CASE ~ roundActive(nd)
  BY <1>6, BcastAppendQuiet DEF bcastHeartbeat
<1> QED  BY <1>5, <1>6

\* A log extends itself.
LEMMA ExtendsReflexive ==
    ASSUME NEW nd, NodeOK(nd)
    PROVE  Extends(nd.log, nd.log)
BY NodeNumbers, SMTT(300) DEF Extends

\* Extending the log and changing the matches.
LEMMA LogQuiet ==
    ASSUME NEW nd, NodeOK(nd), NEW mt \in [Server -> Nat], NEW nxt \in [Server -> Nat \ {0}],
           NEW l, LogOK(l), l.snapIndex = nd.log.snapIndex, l.applied = nd.log.applied,
           Extends(nd.log, l)
    PROVE  Quiet(nd, [nd EXCEPT !.match = mt, !.next = nxt, !.log = l])
<1> DEFINE b == [nd EXCEPT !.match = mt, !.next = nxt, !.log = l]
<1>1. nd \in NodeState /\ l \in LogState
  BY DEF NodeOK, LogOK
<1>2. b \in NodeState
  BY <1>1 DEF NodeState
<1>3. /\ b.id = nd.id /\ b.role = nd.role /\ b.term = nd.term /\ b.vote = nd.vote
      /\ b.votes = nd.votes /\ b.log = l /\ b.stabled = nd.stabled
      /\ b.panicked = nd.panicked /\ b.msgs = nd.msgs
      /\ b.pendingReads = nd.pendingReads /\ b.roundReads = nd.roundReads
      /\ b.readReady = nd.readReady
  BY <1>1 DEF NodeState
<1> HIDE DEF b
<1>4. Waits(b) = Waits(nd)
  BY <1>3 DEF Waits
<1>5. Steady(nd, b)
  BY <1>3, <1>4 DEF Steady, Stamped
<1>6. Settled(nd, b)
  BY <1>2, <1>3 DEF Settled, NodeOK
<1> QED  BY <1>3, <1>5, <1>6 DEF Quiet, b

\* maybeCommit is quiet.
LEMMA MaybeCommitQuiet ==
    ASSUME NEW nd, NodeOK(nd)
    PROVE  Quiet(nd, maybeCommit(nd))
<1>1. /\ nd \in NodeState /\ LogOK(nd.log) /\ nd.log \in LogState
      /\ nd.next \in [Server -> Nat \ {0}]
      /\ nd.log.committed \in Nat /\ lastIndex(nd.log) \in Nat
  BY LogIndexType DEF NodeOK, LogOK, NodeState, LogState
<1>e. Extends(nd.log, nd.log)
  BY ExtendsReflexive
<1> DEFINE mt  == [nd.match EXCEPT ![nd.id] = minOf(nd.stabled, lastIndex(nd.log))]
           own == ownMatch(nd)
<1>2. mt \in [Server -> Nat]
  BY <1>1 DEF NodeState, minOf
<1>3. own = [nd EXCEPT !.match = mt, !.next = nd.next, !.log = nd.log]
  BY <1>1 DEF ownMatch, NodeState
<1> HIDE DEF mt
<1>4. Quiet(nd, [nd EXCEPT !.match = mt, !.next = nd.next, !.log = nd.log])
  BY <1>e, <1>1, <1>2, LogQuiet
<1>5. Quiet(nd, own) /\ own.log = nd.log
  BY <1>1, <1>3, <1>4, SMTT(300) DEF NodeState
<1>6. CASE nd.role # Leader
  BY <1>6, QuietReflexive DEF maybeCommit
<1>7. CASE nd.role = Leader /\ committable(own) = {}
  BY <1>5, <1>7 DEF maybeCommit
<1>8. CASE nd.role = Leader /\ committable(own) # {}
  <2> DEFINE i == CHOOSE j \in committable(own) : TRUE
             k == commitTo(nd.log, i)
  <2>1. i \in committable(own)
    BY <1>8
  <2>2. i \in Nat /\ i <= lastIndex(nd.log)
    BY <1>1, <1>5, <2>1, SMTT(300) DEF committable
  <2>3. /\ LogOK(k) /\ k.snapIndex = nd.log.snapIndex /\ k.applied = nd.log.applied
        /\ Extends(nd.log, k)
    <3> HIDE DEF i
    <3>1. LogOK(k) /\ k.committed >= nd.log.committed
      BY <1>1, <2>2, CommitToOK
    <3>2. /\ k.snapIndex = nd.log.snapIndex /\ k.applied = nd.log.applied
          /\ k.entries = nd.log.entries
      BY <1>1 DEF commitTo, LogState
    <3> HIDE DEF k
    <3> QED  BY <1>e, <3>1, <3>2 DEF Extends
  <2>4. maybeCommit(nd) = [own EXCEPT !.log = k]
    BY <1>5, <1>8 DEF maybeCommit
  <2> HIDE DEF i, k
  <2>5. Quiet(nd, [nd EXCEPT !.match = mt, !.next = nd.next, !.log = k])
    BY <1>1, <1>2, <2>3, LogQuiet
  <2>6. [own EXCEPT !.log = k] = [nd EXCEPT !.match = mt, !.next = nd.next, !.log = k]
    BY <1>1, <1>3 DEF NodeState
  <2> QED  BY <2>4, <2>5, <2>6
<1> QED  BY <1>6, <1>7, <1>8

\* maybeCommit leaves the log's entries alone.
LEMMA MaybeCommitLastIndex ==
    ASSUME NEW nd, NodeOK(nd)
    PROVE  lastIndex(maybeCommit(nd).log) = lastIndex(nd.log)
<1>1. nd \in NodeState /\ nd.log \in LogState
  BY DEF NodeOK, NodeState
<1>2. ownMatch(nd).log = nd.log
  BY <1>1 DEF ownMatch, NodeState
<1>3. \A i : commitTo(nd.log, i).entries = nd.log.entries
          /\ commitTo(nd.log, i).snapIndex = nd.log.snapIndex
  BY <1>1 DEF commitTo, LogState
<1> QED  BY <1>1, <1>2, <1>3 DEF maybeCommit, lastIndex, NodeState, ownMatch
----------------------------------------------------------------------------
(* Reads, proposals and transfers leave elections alone. *)

\* Releasing the reads of a round is quiet.
LEMMA RoundConfirmedQuiet ==
    ASSUME NEW nd, NodeOK(nd)
    PROVE  Quiet(nd, roundConfirmed(nd))
<1>1. nd \in NodeState
  BY DEF NodeOK
<1> DEFINE ready == nd.readReady \cup nd.roundReads
<1>2. /\ nd.pendingReads \in SUBSET Read /\ {} \in SUBSET Read
      /\ ready \in SUBSET Read /\ {} \in SUBSET Server
  BY <1>1 DEF NodeState
<1>w. /\ Waits(nd) \subseteq nd.pendingReads \cup {} \cup ready
      /\ \A x \in nd.pendingReads \cup {} \cup ready :
            x \in Waits(nd) \/ x.index <= nd.log.committed
  BY DEF Waits
<1>3. roundConfirmed(nd) = [nd EXCEPT !.pendingReads = nd.pendingReads, !.roundReads = {},
                                      !.readReady = ready, !.readAcks = {}]
  BY <1>1 DEF roundConfirmed, NodeState
<1> HIDE DEF ready
<1>4. Quiet(nd, [nd EXCEPT !.pendingReads = nd.pendingReads, !.roundReads = {},
                           !.readReady = ready, !.readAcks = {}])
  BY <1>w, <1>2, ReadsQuiet
<1> QED  BY <1>3, <1>4

\* Moving the pending reads into a round is quiet when no round is active.
LEMMA RoundOpenedQuiet ==
    ASSUME NEW nd, NodeOK(nd), ~ roundActive(nd)
    PROVE  Quiet(nd, roundOpened(nd))
<1>1. nd \in NodeState
  BY DEF NodeOK
<1>2. /\ {} \in SUBSET Read /\ nd.pendingReads \in SUBSET Read
      /\ nd.readReady \in SUBSET Read /\ {nd.id} \in SUBSET Server
  BY <1>1 DEF NodeState
<1>w. /\ Waits(nd) \subseteq {} \cup nd.pendingReads \cup nd.readReady
      /\ \A x \in {} \cup nd.pendingReads \cup nd.readReady :
            x \in Waits(nd) \/ x.index <= nd.log.committed
  BY DEF Waits, roundActive
<1>3. roundOpened(nd) = [nd EXCEPT !.pendingReads = {}, !.roundReads = nd.pendingReads,
                                   !.readReady = nd.readReady, !.readAcks = {nd.id}]
  BY <1>1 DEF roundOpened, NodeState
<1>4. Quiet(nd, [nd EXCEPT !.pendingReads = {}, !.roundReads = nd.pendingReads,
                           !.readReady = nd.readReady, !.readAcks = {nd.id}])
  BY <1>w, <1>2, ReadsQuiet
<1> QED  BY <1>3, <1>4

\* startReadRound is quiet.
LEMMA StartReadRoundQuiet ==
    ASSUME NEW nd, NodeOK(nd)
    PROVE  Quiet(nd, maybeStartReadRound(nd))
<1> DEFINE o == roundOpened(nd)
<1>1. CASE roundActive(nd)
  BY <1>1, QuietReflexive DEF maybeStartReadRound
<1>2. CASE ~ roundActive(nd)
  <2>1. Quiet(nd, o) /\ NodeOK(o)
    BY <1>2, RoundOpenedQuiet, QuietOK
  <2> HIDE DEF o
  <2>2. Quiet(nd, roundConfirmed(o))
    BY <2>1, RoundConfirmedQuiet, QuietTransitive
  <2>3. Quiet(nd, bcastHeartbeat(o))
    BY <2>1, BcastHeartbeatQuiet, QuietTransitive
  <2> QED  BY <2>2, <2>3, QuietReflexive DEF maybeStartReadRound, o
<1> QED  BY <1>1, <1>2

\* confirmReadRound is quiet.
LEMMA ConfirmReadRoundQuiet ==
    ASSUME NEW nd, NodeOK(nd)
    PROVE  Quiet(nd, confirmReadRound(nd))
<1> DEFINE c == roundConfirmed(nd)
<1>1. Quiet(nd, c) /\ NodeOK(c)
  BY RoundConfirmedQuiet, QuietOK
<1> HIDE DEF c
<1>2. Quiet(nd, maybeStartReadRound(c))
  BY <1>1, StartReadRoundQuiet, QuietTransitive
<1> QED  BY <1>2 DEF confirmReadRound, c

\* ReadIndex is quiet, and leaves the read waiting.
LEMMA ReadIndexQuiet ==
    ASSUME NEW nd, NodeOK(nd), NEW id \in ReadId
    PROVE  /\ Quiet(nd, ReadIndex(nd, id))
           /\ \E r \in Waits(ReadIndex(nd, id)) : r.id = id
<1>1. nd \in NodeState
  BY DEF NodeOK
<1> DEFINE pending == nd.pendingReads \cup {[id |-> id, index |-> nd.log.committed]}
           p == [nd EXCEPT !.pendingReads = pending]
<1>a. nd.log.committed \in Nat
  BY DEF NodeOK, LogOK, LogState
<1>b. [id |-> id, index |-> nd.log.committed] \in Read
  BY <1>a DEF Read
<1>2. /\ pending \in SUBSET Read /\ nd.roundReads \in SUBSET Read
      /\ nd.readReady \in SUBSET Read /\ nd.readAcks \in SUBSET Server
  BY <1>1, <1>b DEF NodeState
<1>w. /\ Waits(nd) \subseteq pending \cup nd.roundReads \cup nd.readReady
      /\ \A x \in pending \cup nd.roundReads \cup nd.readReady :
            x \in Waits(nd) \/ x.index <= nd.log.committed
  BY <1>a, SMTT(300) DEF Waits
<1> HIDE DEF pending
<1>3. p = [nd EXCEPT !.pendingReads = pending, !.roundReads = nd.roundReads,
                     !.readReady = nd.readReady, !.readAcks = nd.readAcks]
  BY <1>1 DEF NodeState
<1>4. Quiet(nd, [nd EXCEPT !.pendingReads = pending, !.roundReads = nd.roundReads,
                           !.readReady = nd.readReady, !.readAcks = nd.readAcks])
  BY <1>w, <1>2, ReadsQuiet
<1>5. Quiet(nd, p) /\ NodeOK(p)
  BY <1>3, <1>4, QuietOK
<1>c. [id |-> id, index |-> nd.log.committed] \in Waits(p)
  BY <1>1 DEF Waits, NodeState, pending
<1> DEFINE h == maybeStartReadRound(p)
<1>h. ReadIndex(nd, id) = h
  BY DEF ReadIndex, pending
<1> HIDE DEF p
<1>d. Quiet(p, h)
  BY <1>5, StartReadRoundQuiet
<1> HIDE DEF h
<1>6. Quiet(nd, h)
  BY <1>5, <1>d, QuietTransitive
<1>7. [id |-> id, index |-> nd.log.committed] \in Waits(h)
  BY <1>c, <1>d DEF Quiet, Steady
<1> QED  BY <1>h, <1>6, <1>7

\* An appended log holds the old one.
LEMMA AppendExtends ==
    ASSUME NEW nd, NodeOK(nd), NEW ents \in Seq(Entry)
    PROVE  Extends(nd.log, appendEntries(nd.log, ents))
<1> DEFINE l == appendEntries(nd.log, ents)
<1>1. nd.log \in LogState /\ nd.log.entries \in Seq(Entry) /\ nd.log.committed \in Nat
  BY DEF NodeOK, LogOK, LogState
<1>2. l.entries = nd.log.entries \o ents /\ l.committed = nd.log.committed
  BY <1>1 DEF appendEntries, LogState
<1> HIDE DEF l
<1> QED  BY <1>1, <1>2, SMTT(300) DEF Extends, l

\* What appending one entry to the log leaves of a member.
LEMMA AppendQuiet ==
    ASSUME NEW nd, NodeOK(nd), NEW e \in Entry
    PROVE  Quiet(nd, [nd EXCEPT !.log = appendEntries(nd.log, <<e>>)])
<1>1. nd \in NodeState /\ LogOK(nd.log)
  BY DEF NodeOK
<1> DEFINE l == appendEntries(nd.log, <<e>>)
<1>2. <<e>> \in Seq(Entry)
  BY SMTT(300)
<1>3. LogOK(l) /\ l.snapIndex = nd.log.snapIndex /\ l.applied = nd.log.applied
  BY <1>1, <1>2, AppendOK
<1>e. Extends(nd.log, l)
  BY <1>2, AppendExtends
<1> HIDE DEF l
<1>4. nd.match \in [Server -> Nat] /\ nd.next \in [Server -> Nat \ {0}]
  BY <1>1 DEF NodeState
<1>5. Quiet(nd, [nd EXCEPT !.match = nd.match, !.next = nd.next, !.log = l])
  BY <1>e, <1>3, <1>4, LogQuiet
<1>6. [nd EXCEPT !.match = nd.match, !.next = nd.next, !.log = l] = [nd EXCEPT !.log = l]
  BY <1>1 DEF NodeState
<1> QED  BY <1>5, <1>6 DEF l

\* handlePropose is quiet, and puts the value behind the log.
LEMMA ProposeQuiet ==
    ASSUME NEW nd, NodeOK(nd), NEW v \in Value
    PROVE  LET h == handlePropose(nd, v)
           IN  /\ Quiet(nd, h)
               /\ Len(h.log.entries) > Len(nd.log.entries)
               /\ h.log.entries[Len(nd.log.entries) + 1].data = v
<1> DEFINE e == [term |-> nd.term, data |-> v]
           a == [nd EXCEPT !.log = appendEntries(nd.log, <<e>>)]
           c == maybeCommit(a)
<1>1. e \in Entry
  BY DEF Entry, NodeOK, NodeState
<1> HIDE DEF e
<1>2. Quiet(nd, a) /\ NodeOK(a)
  BY <1>1, AppendQuiet, QuietOK
<1>3. handlePropose(nd, v) = bcastAppend(c)
  BY DEF handlePropose, e
<1>l. a.log.entries = Append(nd.log.entries, e) /\ nd.log.entries \in Seq(Entry)
  BY <1>1, SMTT(300) DEF appendEntries, NodeOK, NodeState, LogState
<1> HIDE DEF a
<1>4. Quiet(a, c) /\ NodeOK(c)
  BY <1>2, MaybeCommitQuiet, QuietOK
<1> HIDE DEF c
<1> DEFINE h == bcastAppend(c)
<1>5. Quiet(a, h)
  BY <1>4, BcastAppendQuiet, QuietTransitive
<1>6. Quiet(nd, h)
  BY <1>2, <1>5, QuietTransitive
<1> HIDE DEF h
<1>7. /\ Len(a.log.entries) = Len(nd.log.entries) + 1 /\ Len(nd.log.entries) \in Nat
      /\ a.log.entries[Len(nd.log.entries) + 1] = e
  BY <1>1, <1>l, SMTT(300)
<1>8. /\ Len(h.log.entries) > Len(nd.log.entries)
      /\ h.log.entries[Len(nd.log.entries) + 1] = e
  <2>1. Extends(a.log, h.log) /\ Len(h.log.entries) \in Nat
    BY <1>5, NodeNumbers DEF Quiet, Settled, Steady
  <2>2. Len(nd.log.entries) + 1 \in 1 .. Len(a.log.entries)
    BY <1>7, SMTT(300)
  <2>3. h.log.entries[Len(nd.log.entries) + 1] = a.log.entries[Len(nd.log.entries) + 1]
    BY <2>1, <2>2 DEF Extends
  <2> QED  BY <1>7, <2>1, <2>3, SMTT(300) DEF Extends
<1>9. e.data = v
  BY DEF e
<1> QED  BY <1>3, <1>6, <1>8, <1>9 DEF h

\* TransferLeader is quiet.
LEMMA TransferQuiet ==
    ASSUME NEW nd, NodeOK(nd), NEW target \in Server
    PROVE  Quiet(nd, TransferLeader(nd, target))
<1>1. nd \in NodeState
  BY DEF NodeOK
<1> DEFINE t == [nd EXCEPT !.transferee = target]
<1>2. t \in NodeState
  BY <1>1 DEF NodeState
<1>3. /\ t.id = nd.id /\ t.role = nd.role /\ t.term = nd.term /\ t.vote = nd.vote
      /\ t.votes = nd.votes /\ t.log = nd.log /\ t.stabled = nd.stabled
      /\ t.panicked = nd.panicked /\ t.msgs = nd.msgs
      /\ t.pendingReads = nd.pendingReads /\ t.roundReads = nd.roundReads
      /\ t.readReady = nd.readReady
  BY <1>1 DEF NodeState
<1> HIDE DEF t
<1>s. NodeOK(t) /\ Settled(nd, t)
  BY <1>2, <1>3 DEF Settled, NodeOK
<1>t. Steady(nd, t)
  BY <1>3, SameSteady
<1>4. Quiet(nd, t) /\ NodeOK(t)
  BY <1>s, <1>t, <1>3 DEF Quiet
<1>5. /\ msg(t, MsgTimeoutNow, target) \in Message
      /\ msg(t, MsgTimeoutNow, target).type = MsgTimeoutNow
  BY <1>2, MsgType, SMTT(300) DEF MessageType
<1>6. Quiet(t, send(t, msg(t, MsgTimeoutNow, target)))
  BY <1>4, <1>5, SendQuiet DEF MsgTimeoutNow, MsgVoteResp
<1>7. Quiet(t, sendAppend(t, target))
  BY <1>4, SendAppendQuiet
<1> QED  BY <1>4, <1>6, <1>7, QuietTransitive DEF TransferLeader, t
----------------------------------------------------------------------------
(* The handlers that leave elections alone. *)

\* Answering a pre-vote is quiet: it grants nothing durable.
LEMMA PreVoteQuiet ==
    ASSUME NEW nd, NodeOK(nd), NEW m \in Message
    PROVE  Quiet(nd, handlePreVote(nd, m))
<1> DEFINE deny == ~ (/\ m.term > nd.term
                      /\ isUpToDate(nd.log, m.logIndex, m.logTerm))
           base == msg(nd, MsgPreVoteResp, m.from)
           resp == [base EXCEPT !.term = m.term, !.reject = deny]
<1>1. nd \in NodeState /\ m.from \in Server /\ m.term \in Nat /\ deny \in BOOLEAN
  BY DEF NodeOK, Message
<1>2. base \in Message /\ base.type = MsgPreVoteResp
  BY <1>1, MsgType, SMTT(300) DEF MessageType
<1> HIDE DEF base, deny
<1>3. resp \in Message /\ resp.type = MsgPreVoteResp
  BY <1>1, <1>2 DEF Message
<1>4. handlePreVote(nd, m) = send(nd, resp)
  BY DEF handlePreVote, base, deny
<1> HIDE DEF resp
<1> QED  BY <1>3, <1>4, SendQuiet DEF MsgPreVoteResp, MsgVoteResp

\* Advancing a follower's progress is quiet.
LEMMA ProgressToQuiet ==
    ASSUME NEW nd, NodeOK(nd), NEW from \in Server, NEW index \in Nat
    PROVE  Quiet(nd, progressTo(nd, from, index))
<1>1. nd \in NodeState /\ LogOK(nd.log)
  BY DEF NodeOK
<1> DEFINE mt  == [nd.match EXCEPT ![from] = index]
           nxt == [nd.next EXCEPT ![from] = index + 1]
           a   == [nd EXCEPT !.match[from] = index, !.next[from] = index + 1]
           p   == maybeCommit(a)
<1>2. mt \in [Server -> Nat] /\ nxt \in [Server -> Nat \ {0}]
  BY <1>1, SMTT(300) DEF NodeState
<1>3. a = [nd EXCEPT !.match = mt, !.next = nxt, !.log = nd.log]
  BY <1>1 DEF NodeState
<1> HIDE DEF mt, nxt
<1>4. Quiet(nd, [nd EXCEPT !.match = mt, !.next = nxt, !.log = nd.log])
  BY <1>1, <1>2, ExtendsReflexive, LogQuiet
<1>5. Quiet(nd, a) /\ NodeOK(a)
  BY <1>3, <1>4, QuietOK
<1> HIDE DEF a
<1>6. Quiet(nd, p) /\ NodeOK(p)
  BY <1>5, MaybeCommitQuiet, QuietTransitive, QuietOK
<1> HIDE DEF p
<1>7. Quiet(nd, bcastAppend(p))
  BY <1>6, BcastAppendQuiet, QuietTransitive
<1> QED  BY <1>6, <1>7, QuietReflexive DEF progressTo, p, a

\* Counting a read acknowledgement is quiet.
LEMMA AckReadRoundQuiet ==
    ASSUME NEW nd, NodeOK(nd), NEW from \in Server
    PROVE  Quiet(nd, ackReadRound(nd, from))
<1>1. nd \in NodeState
  BY DEF NodeOK
<1> DEFINE acks == nd.readAcks \cup {from}
           a    == [nd EXCEPT !.readAcks = acks]
<1>2. /\ nd.pendingReads \in SUBSET Read /\ nd.roundReads \in SUBSET Read
      /\ nd.readReady \in SUBSET Read /\ acks \in SUBSET Server
  BY <1>1 DEF NodeState
<1>w. /\ Waits(nd) \subseteq nd.pendingReads \cup nd.roundReads \cup nd.readReady
      /\ \A x \in nd.pendingReads \cup nd.roundReads \cup nd.readReady :
            x \in Waits(nd) \/ x.index <= nd.log.committed
  BY DEF Waits
<1> HIDE DEF acks
<1>3. a = [nd EXCEPT !.pendingReads = nd.pendingReads, !.roundReads = nd.roundReads,
                     !.readReady = nd.readReady, !.readAcks = acks]
  BY <1>1 DEF NodeState
<1>4. Quiet(nd, [nd EXCEPT !.pendingReads = nd.pendingReads, !.roundReads = nd.roundReads,
                           !.readReady = nd.readReady, !.readAcks = acks])
  BY <1>w, <1>2, ReadsQuiet
<1>5. Quiet(nd, a) /\ NodeOK(a)
  BY <1>3, <1>4, QuietOK
<1> HIDE DEF a
<1>6. Quiet(nd, confirmReadRound(a))
  BY <1>5, ConfirmReadRoundQuiet, QuietTransitive
<1> QED  BY <1>5, <1>6, QuietReflexive DEF ackReadRound, a, acks

\* Telling the transfer target to campaign is quiet.
LEMMA FireTransferQuiet ==
    ASSUME NEW nd, NodeOK(nd), NEW from \in Server
    PROVE  Quiet(nd, fireTransfer(nd, from))
<1>1. nd \in NodeState
  BY DEF NodeOK
<1>2. /\ msg(nd, MsgTimeoutNow, from) \in Message
      /\ msg(nd, MsgTimeoutNow, from).type = MsgTimeoutNow
  BY <1>1, MsgType, SMTT(300) DEF MessageType
<1>3. Quiet(nd, send(nd, msg(nd, MsgTimeoutNow, from)))
  BY <1>2, SendQuiet DEF MsgTimeoutNow, MsgVoteResp
<1> QED  BY <1>3, QuietReflexive DEF fireTransfer

\* handleAppendResp is quiet.
LEMMA AppRespQuiet ==
    ASSUME NEW nd, NodeOK(nd), NEW m \in Message
    PROVE  Quiet(nd, handleAppResp(nd, m))
<1>1. nd \in NodeState /\ LogOK(nd.log) /\ m.from \in Server /\ m.logIndex \in Nat
  BY DEF NodeOK, Message
<1> DEFINE nxt == [nd.next EXCEPT ![m.from] = backUp(nd, m)]
           b == [nd EXCEPT !.next[m.from] = backUp(nd, m)]
           p == progressTo(nd, m.from, m.logIndex)
           r == ackReadRound(p, m.from)
<1>2. backUp(nd, m) \in Nat \ {0} /\ nd.match \in [Server -> Nat]
  BY <1>1, SMTT(300) DEF backUp, maxOf, NodeState
<1>3. nxt \in [Server -> Nat \ {0}]
  BY <1>1, <1>2 DEF NodeState
<1>4. b = [nd EXCEPT !.match = nd.match, !.next = nxt, !.log = nd.log]
  BY <1>1 DEF NodeState
<1> HIDE DEF nxt
<1>5. Quiet(nd, [nd EXCEPT !.match = nd.match, !.next = nxt, !.log = nd.log])
  BY <1>1, <1>2, <1>3, ExtendsReflexive, LogQuiet
<1>6. Quiet(nd, b) /\ NodeOK(b)
  BY <1>4, <1>5, QuietOK
<1> HIDE DEF b
<1>7. Quiet(nd, sendAppend(b, m.from))
  BY <1>1, <1>6, SendAppendQuiet, QuietTransitive
<1>8. Quiet(nd, p) /\ NodeOK(p)
  BY <1>1, ProgressToQuiet, QuietOK
<1> HIDE DEF p
<1>9. Quiet(nd, r) /\ NodeOK(r)
  BY <1>1, <1>8, AckReadRoundQuiet, QuietTransitive, QuietOK
<1> HIDE DEF r
<1>10. Quiet(nd, fireTransfer(r, m.from))
  BY <1>1, <1>9, FireTransferQuiet, QuietTransitive
<1> QED  BY <1>7, <1>10, QuietReflexive DEF handleAppResp, r, p, b

\* Asking for votes is quiet.
LEMMA BcastVoteQuiet ==
    ASSUME NEW nd, NodeOK(nd), NEW type \in {MsgVote, MsgPreVote}, NEW trm \in Nat
    PROVE  Quiet(nd, bcastVote(nd, type, trm))
<1>1. nd \in NodeState /\ nd.log \in LogState /\ type \in MessageType
  BY DEF NodeOK, NodeState, MessageType
<1>2. lastIndex(nd.log) \in Nat /\ lastTerm(nd.log) \in Nat
  <2>1. lastIndex(nd.log) \in Nat /\ hasTerm(nd.log, lastIndex(nd.log))
    BY <1>1, LogIndexType, SMTT(300) DEF hasTerm, lastIndex, LogState
  <2> QED  BY <1>1, <2>1, LogIndexType DEF lastTerm
<1> DEFINE ask(p) == [msg(nd, type, p) EXCEPT !.term     = trm,
                                              !.logIndex = lastIndex(nd.log),
                                              !.logTerm  = lastTerm(nd.log)]
           M == {ask(p) : p \in peersOf(nd)}
<1>3. \A p \in Server : ask(p) \in Message /\ ask(p).type = type
  <2> SUFFICES ASSUME NEW p \in Server PROVE ask(p) \in Message /\ ask(p).type = type
    OBVIOUS
  <2>1. msg(nd, type, p) \in Message /\ msg(nd, type, p).type = type
    BY <1>1, MsgType, SMTT(300)
  <2> QED  BY <1>2, <2>1 DEF Message
<1> HIDE DEF ask
<1>4. M \subseteq Message /\ Grants(M) = {}
  BY <1>3 DEF peersOf, Grants, MsgVote, MsgPreVote, MsgVoteResp
<1>5. bcastVote(nd, type, trm) = [nd EXCEPT !.msgs = @ \cup M]
  BY DEF bcastVote, ask
<1> HIDE DEF M
<1>6. Quiet(nd, [nd EXCEPT !.msgs = @ \cup M])
  BY <1>4, MsgsQuiet
<1> QED  BY <1>5, <1>6
----------------------------------------------------------------------------
(* Elections *)

(***************************************************************************)
(* The steps of an election.  From a to b the term does not fall, a vote   *)
(* cast in the term is kept, the votes counted in b's term are those a     *)
(* counted, b's own, and those granted in the messages S; b leads only if  *)
(* a did in the same term or a quorum voted; the votes that b grants are   *)
(* the one it holds; and nothing committed is lost.                        *)
(***************************************************************************)
Elect(a, b, S) ==
    /\ Settled(a, b)
    /\ Keeps(a, b)
    /\ b.term >= a.term
    /\ b.term = a.term => a.vote \in {Nil, b.vote}
    /\ \A v \in b.votes : \/ v \in a.votes /\ b.term = a.term
                          \/ v = b.id /\ b.vote = b.id
                          \/ \E x \in Grants(S) : x.from = v /\ x.to = b.id /\ x.term = b.term
    /\ b.role = Leader =>
          \/ a.role = Leader /\ b.term = a.term /\ b.votes = a.votes
          \/ Cardinality(b.votes) >= quorum
    /\ \A x \in Grants(b.msgs) :
          \/ x \in Grants(a.msgs)
          \/ x.from = b.id /\ x.term = b.term /\ x.to = b.vote

\* A quiet change is an electoral step that changes nothing.
LEMMA QuietElect ==
    ASSUME NEW a, NEW b, NEW S, Quiet(a, b)
    PROVE  Elect(a, b, S)
<1>1. a.term \in Nat /\ Keeps(a, b)
  BY SteadyKeeps DEF Quiet, NodeOK, NodeState
<1> QED  BY <1>1, SMTT(300) DEF Quiet, Elect

\* A step that consumes no message and grants nothing, then another.
LEMMA ElectTransitive ==
    ASSUME NEW a, NEW b, NEW c, NEW S, NodeOK(a),
           Elect(a, b, {}), Grants(b.msgs) = {}, Elect(b, c, S)
    PROVE  Elect(a, c, S)
<1>1. /\ a.term \in Nat /\ b.term \in Nat /\ c.term \in Nat /\ b.id \in Server
      /\ a.id = b.id /\ b.id = c.id
  BY DEF Elect, Settled, NodeOK, NodeState
<1>2. Settled(a, c)
  BY DEF Elect, Settled
<1>k. Keeps(a, c)
  <2>1. /\ NodeOK(b) /\ NodeOK(c) /\ a.log.snapIndex = b.log.snapIndex
        /\ Keeps(a, b) /\ Keeps(b, c)
    BY DEF Elect, Settled
  <2> QED  BY <2>1, KeepsTransitive
<1>3. c.term >= a.term /\ (c.term = a.term => a.vote \in {Nil, c.vote})
  BY <1>1, SMTT(300) DEF Elect
<1>4. ASSUME NEW v \in c.votes
      PROVE  \/ v \in a.votes /\ c.term = a.term
             \/ v = c.id /\ c.vote = c.id
             \/ \E x \in Grants(S) : x.from = v /\ x.to = c.id /\ x.term = c.term
  <2>1. CASE v \in b.votes /\ c.term = b.term
    <3>1. CASE v \in a.votes /\ b.term = a.term
      BY <2>1, <3>1
    <3>2. CASE v = b.id /\ b.vote = b.id
      <4>1. b.vote # Nil
        BY <1>1, <3>2, NilAssumption
      <4> QED  BY <1>1, <2>1, <3>2, <4>1 DEF Elect
    <3>3. ~ \E x \in Grants({}) : TRUE
      BY DEF Grants
    <3> QED  BY <2>1, <3>1, <3>2, <3>3 DEF Elect
  <2>2. CASE v = c.id /\ c.vote = c.id
    BY <2>2
  <2>3. CASE \E x \in Grants(S) : x.from = v /\ x.to = c.id /\ x.term = c.term
    BY <2>3
  <2> QED  BY <1>4, <2>1, <2>2, <2>3 DEF Elect
<1>5. c.role = Leader =>
          \/ a.role = Leader /\ c.term = a.term /\ c.votes = a.votes
          \/ Cardinality(c.votes) >= quorum
  BY <1>1 DEF Elect
<1>6. \A x \in Grants(c.msgs) :
          \/ x \in Grants(a.msgs)
          \/ x.from = c.id /\ x.term = c.term /\ x.to = c.vote
  BY DEF Elect
<1> QED  BY <1>k, <1>2, <1>3, <1>4, <1>5, <1>6 DEF Elect
----------------------------------------------------------------------------
(* A member without peers sends nothing *)

\* There is nobody to append to.
LEMMA AloneBcast ==
    ASSUME NEW nd \in NodeState, Server = {nd.id}
    PROVE  bcastAppend(nd).msgs = nd.msgs
<1>1. peersOf(nd) = {}
  BY DEF peersOf
<1> QED  BY <1>1, SMTT(300) DEF bcastAppend, NodeState

\* Nor to assert leadership to.
LEMMA AloneHeartbeat ==
    ASSUME NEW nd \in NodeState, Server = {nd.id}
    PROVE  bcastHeartbeat(nd).msgs = nd.msgs
<1> DEFINE r == [nd EXCEPT !.readAcks = {nd.id}]
<1>1. r \in NodeState /\ r.id = nd.id /\ r.msgs = nd.msgs
  BY DEF NodeState
<1>2. bcastHeartbeat(nd) \in {bcastAppend(r), bcastAppend(nd)}
  BY DEF bcastHeartbeat
<1> HIDE DEF r
<1> QED  BY <1>1, <1>2, AloneBcast

\* maybeCommit sends nothing itself.
LEMMA CommitSends ==
    ASSUME NEW nd \in NodeState
    PROVE  maybeCommit(nd).msgs = nd.msgs
<1> DEFINE own == ownMatch(nd)
           k == commitTo(own.log, CHOOSE i \in committable(own) : TRUE)
<1>1. own.msgs = nd.msgs /\ "msgs" \in DOMAIN own
  BY DEF ownMatch, NodeState
<1>2. maybeCommit(nd) \in {nd, own, [own EXCEPT !.log = k]}
  BY DEF maybeCommit
<1> HIDE DEF own, k
<1> QED  BY <1>1, <1>2
----------------------------------------------------------------------------
\* becomeLeader changes the role and nothing else that counts, and drops
\* the reads of an earlier leadership.  Alone it has nobody to tell.
LEMMA BecomeLeader ==
    ASSUME NEW nd, NodeOK(nd)
    PROVE  LET h == becomeLeader(nd)
           IN  /\ Settled(nd, h)
               /\ Keeps(nd, h)
               /\ h.term = nd.term /\ h.vote = nd.vote /\ h.votes = nd.votes
               /\ Grants(h.msgs) = Grants(nd.msgs)
               /\ Server = {nd.id} => h.msgs = nd.msgs
<1> DEFINE e == [term |-> nd.term, data |-> NoOp]
           l == appendEntries(nd.log, <<e>>)
           n1 == firstNext(nd.log)
           b == [nd EXCEPT !.role = Leader, !.lead = nd.id, !.transferee = Nil,
                   !.roundReads = {}, !.pendingReads = {}, !.readAcks = {},
                   !.next  = [p \in Server |-> n1],
                   !.match = [p \in Server |-> 0],
                   !.log   = l]
<1>1. nd \in NodeState /\ LogOK(nd.log) /\ nd.log \in LogState
  BY DEF NodeOK, LogOK
<1>2. e \in Entry
  BY <1>1 DEF Entry, NodeState
<1>3. /\ LogOK(l) /\ l.snapIndex = nd.log.snapIndex /\ l.applied = nd.log.applied
      /\ l \in LogState /\ Extends(nd.log, l)
  <2>1. <<e>> \in Seq(Entry)
    BY <1>2, SMTT(300)
  <2> HIDE DEF e
  <2> QED  BY <1>1, <2>1, AppendOK, AppendExtends DEF LogOK
<1>4. n1 \in Nat \ {0}
  BY <1>1, LogIndexType, SMTT(300) DEF firstNext
<1>5. becomeLeader(nd) = bcastHeartbeat(maybeCommit(b))
  BY DEF becomeLeader
<1> HIDE DEF l, n1
<1>6. b \in NodeState
  BY <1>1, <1>3, <1>4 DEF NodeState
<1>7. /\ b.id = nd.id /\ b.term = nd.term /\ b.vote = nd.vote
      /\ b.votes = nd.votes /\ b.log = l /\ b.stabled = nd.stabled /\ b.msgs = nd.msgs
      /\ b.pendingReads = {} /\ b.roundReads = {} /\ b.readReady = nd.readReady
  BY <1>1 DEF NodeState
<1> HIDE DEF b
<1>8. NodeOK(b)
  BY <1>3, <1>6, <1>7 DEF NodeOK
<1>k. Keeps(nd, b)
  <2>1. Waits(b) \subseteq Waits(nd)
    BY <1>7 DEF Waits
  <2> QED  BY <1>3, <1>7, <2>1, NodeNumbers, SMTT(300) DEF Keeps, Stamped, Extends
<1> DEFINE c == maybeCommit(b)
<1>9. Quiet(b, c) /\ NodeOK(c)
  BY <1>8, MaybeCommitQuiet, QuietOK
<1>m. c \in NodeState /\ c.id = nd.id /\ c.msgs = nd.msgs
  BY <1>6, <1>7, <1>9, CommitSends DEF Quiet, Settled, NodeOK
<1> HIDE DEF c
<1> DEFINE h == bcastHeartbeat(c)
<1>n. Server = {nd.id} => h.msgs = nd.msgs
  BY <1>m, AloneHeartbeat
<1>10. Quiet(b, h) /\ NodeOK(h)
  BY <1>9, BcastHeartbeatQuiet, QuietTransitive, QuietOK
<1> HIDE DEF h
<1>11. Keeps(b, h)
  BY <1>8, <1>10, SteadyKeeps DEF Quiet
<1>12. Keeps(nd, h)
  BY <1>k, <1>3, <1>7, <1>8, <1>10, <1>11, KeepsTransitive
<1>13. Settled(nd, h)
  BY <1>3, <1>7, <1>10 DEF Quiet, Settled
<1> QED  BY <1>n, <1>5, <1>7, <1>10, <1>12, <1>13 DEF Quiet, h, c

\* reset forgets votes and keeps the vote of an unchanged term.
LEMMA Reset ==
    ASSUME NEW nd, NodeOK(nd), NEW trm \in Nat
    PROVE  LET r == reset(nd, trm)
           IN  /\ r \in NodeState
               /\ r.id = nd.id /\ r.role = nd.role /\ r.term = trm
               /\ r.vote = IF trm > nd.term THEN Nil ELSE nd.vote
               /\ r.votes = {} /\ r.log = nd.log /\ r.stabled = nd.stabled
               /\ r.msgs = nd.msgs /\ Waits(r) = Waits(nd)
<1> DEFINE vt == IF trm > nd.term THEN Nil ELSE nd.vote
<1>1. nd \in NodeState
  BY SMTT(300) DEF NodeOK
<1>2. vt \in Server \cup {Nil}
  BY <1>1, SMTT(300) DEF NodeState
<1>3. reset(nd, trm) = [nd EXCEPT !.term = trm, !.vote = vt, !.lead = Nil,
                                  !.votes = {}, !.preVotes = {}]
  BY SMTT(300) DEF reset
<1> HIDE DEF vt
<1>4. [nd EXCEPT !.term = trm, !.vote = vt, !.lead = Nil,
                 !.votes = {}, !.preVotes = {}] \in NodeState
  BY <1>1, <1>2 DEF NodeState
<1> QED  BY <1>1, <1>3, <1>4, SMTT(300) DEF NodeState, Waits, vt

\* startElection votes for itself in a new term, and alone makes a leader
\* only of a server that is its own quorum.
LEMMA StartElection ==
    ASSUME NEW nd, NodeOK(nd)
    PROVE  /\ Elect(nd, startElection(nd), {})
           /\ Grants(startElection(nd).msgs) = Grants(nd.msgs)
           /\ startElection(nd).role = Leader => Cardinality({nd.id}) >= quorum
<1> DEFINE c == becomeCandidate(nd)
           h == startElection(nd)
<1>1. nd \in NodeState /\ nd.term \in Nat /\ nd.id \in Server
  BY SMTT(300) DEF NodeOK, NodeState
<1> DEFINE r == reset(nd, nd.term + 1)
<1>r. /\ r \in NodeState /\ r.id = nd.id /\ r.term = nd.term + 1
      /\ r.log = nd.log /\ r.stabled = nd.stabled /\ r.msgs = nd.msgs
      /\ Waits(r) = Waits(nd)
  <2>1. nd.term + 1 \in Nat
    BY <1>1, SMTT(300)
  <2> QED  BY <2>1, Reset, SMTT(300)
<1>c. c = [r EXCEPT !.role = Candidate, !.vote = nd.id, !.votes = {nd.id}]
  BY SMTT(300) DEF becomeCandidate
<1> HIDE DEF r, c
<1>2. c \in NodeState
  BY <1>1, <1>r, <1>c DEF NodeState
<1>3. /\ c.id = nd.id /\ c.role = Candidate /\ c.term = nd.term + 1 /\ c.vote = nd.id
      /\ c.votes = {nd.id} /\ c.log = nd.log /\ c.stabled = nd.stabled /\ c.msgs = nd.msgs
      /\ Waits(c) = Waits(r)
  BY <1>r, <1>c, SMTT(300) DEF NodeState, Waits
<1>4. NodeOK(c) /\ Settled(nd, c)
  BY <1>2, <1>3, SMTT(300) DEF NodeOK, Settled
<1>k. Keeps(nd, c)
  BY <1>r, <1>3, SameKeeps, SMTT(300)
<1>5. CASE Cardinality(c.votes) >= quorum
  <2>1. h = becomeLeader(c)
    BY <1>5, SMTT(300) DEF startElection, c
  <2>2. /\ Settled(c, h) /\ h.term = c.term /\ h.vote = c.vote /\ h.votes = c.votes
        /\ Grants(h.msgs) = Grants(c.msgs) /\ Keeps(c, h)
    BY <1>4, <2>1, BecomeLeader, SMTT(300)
  <2> HIDE DEF h
  <2>3. Settled(nd, h) /\ NodeOK(h)
    BY <1>4, <2>2, SMTT(300) DEF Settled
  <2>4. Keeps(nd, h)
    BY <1>k, <1>3, <1>4, <2>2, <2>3, KeepsTransitive, SMTT(300)
  <2>5. h.id = nd.id
    BY <2>3, SMTT(300) DEF Settled
  <2> QED  BY <1>1, <1>3, <1>5, <2>2, <2>3, <2>4, <2>5, SMTT(300) DEF Elect, h
<1>6. CASE ~ (Cardinality(c.votes) >= quorum)
  <2>1. h = bcastVote(c, MsgVote, c.term)
    BY <1>6, SMTT(300) DEF startElection, c
  <2>2. c.term \in Nat /\ MsgVote \in {MsgVote, MsgPreVote}
    BY <1>1, <1>3, SMTT(300)
  <2>3. Quiet(c, h)
    BY <1>4, <2>1, <2>2, BcastVoteQuiet, SMTT(300)
  <2>4. h.role # Leader
    BY <1>3, <2>3, SMTT(300) DEF Quiet, Candidate, Leader
  <2> HIDE DEF h
  <2>5. Settled(nd, h) /\ NodeOK(h) /\ h.id = nd.id
    BY <1>4, <2>3, SMTT(300) DEF Quiet, Settled
  <2>6. Keeps(c, h)
    BY <1>4, <2>3, SteadyKeeps, SMTT(300) DEF Quiet
  <2>7. Keeps(nd, h)
    BY <1>k, <1>3, <1>4, <2>5, <2>6, KeepsTransitive, SMTT(300)
  <2> QED  BY <1>1, <1>3, <2>3, <2>4, <2>5, <2>7, SMTT(300) DEF Quiet, Elect, h
<1> QED  BY <1>5, <1>6, SMTT(300)

\* Campaign asks for pre-votes, or starts the election alone.
LEMMA CampaignElect ==
    ASSUME NEW nd, NodeOK(nd), Grants(nd.msgs) = {}
    PROVE  Elect(nd, Campaign(nd), {})
<1> DEFINE c == becomePreCandidate(nd)
<1>1. nd \in NodeState /\ nd.term \in Nat /\ nd.id \in Server
  BY SMTT(300) DEF NodeOK, NodeState
<1>2. c \in NodeState
  BY <1>1 DEF becomePreCandidate, NodeState
<1>3. /\ c.id = nd.id /\ c.role = Candidate /\ c.term = nd.term /\ c.vote = nd.vote
      /\ c.votes = nd.votes /\ c.log = nd.log /\ c.stabled = nd.stabled /\ c.msgs = nd.msgs
      /\ Waits(c) = Waits(nd)
  BY <1>1, SMTT(300) DEF becomePreCandidate, NodeState, Waits
<1> HIDE DEF c
<1>4. NodeOK(c) /\ Settled(nd, c)
  BY <1>2, <1>3, SMTT(300) DEF NodeOK, Settled
<1>k. Keeps(nd, c)
  BY <1>3, SameKeeps, SMTT(300)
<1>5. Elect(nd, c, {})
  BY <1>k, <1>1, <1>3, <1>4, SMTT(300) DEF Elect, Candidate, Leader
<1>6. CASE Cardinality(c.preVotes) >= quorum
  <2>1. Elect(c, startElection(c), {})
    BY <1>4, StartElection
  <2> QED  BY <1>3, <1>5, <1>6, <2>1, ElectTransitive, SMTT(300) DEF Campaign, c
<1>7. CASE ~ (Cardinality(c.preVotes) >= quorum)
  <2>1. c.term + 1 \in Nat
    BY <1>1, <1>3, SMTT(300)
  <2>2. Quiet(c, bcastVote(c, MsgPreVote, c.term + 1))
    BY <1>4, <2>1, BcastVoteQuiet, SMTT(300)
  <2>3. Elect(c, bcastVote(c, MsgPreVote, c.term + 1), {})
    BY <2>2, QuietElect, SMTT(300)
  <2> QED  BY <1>3, <1>5, <1>7, <2>3, ElectTransitive, SMTT(300) DEF Campaign, c
<1> QED  BY <1>6, <1>7, SMTT(300)

\* becomeFollower in a term that is not older.
LEMMA BecomeFollowerElect ==
    ASSUME NEW nd, NodeOK(nd), NEW trm \in Nat, trm > nd.term,
           NEW lead \in Server \cup {Nil}
    PROVE  LET f == becomeFollower(nd, trm, lead)
           IN  /\ Elect(nd, f, {})
               /\ f.term = trm /\ f.role = Follower /\ f.msgs = nd.msgs
<1> DEFINE r == reset(nd, trm)
           f == becomeFollower(nd, trm, lead)
<1>1. nd \in NodeState /\ nd.term \in Nat
  BY SMTT(300) DEF NodeOK, NodeState
<1>2. /\ r \in NodeState /\ r.id = nd.id /\ r.term = trm /\ r.votes = {}
      /\ r.log = nd.log /\ r.stabled = nd.stabled /\ r.msgs = nd.msgs
      /\ Waits(r) = Waits(nd)
  BY Reset, SMTT(300)
<1>3. f = [r EXCEPT !.role = Follower, !.lead = lead]
  BY SMTT(300) DEF becomeFollower
<1> HIDE DEF r, f
<1>4. f \in NodeState
  BY <1>2, <1>3 DEF NodeState
<1>5. /\ f.id = nd.id /\ f.role = Follower /\ f.term = trm /\ f.votes = {}
      /\ f.log = nd.log /\ f.stabled = nd.stabled /\ f.msgs = nd.msgs
      /\ Waits(f) = Waits(r)
  BY <1>2, <1>3, SMTT(300) DEF NodeState, Waits
<1>k. Keeps(nd, f)
  BY <1>2, <1>5, SameKeeps, SMTT(300)
<1>6. Settled(nd, f)
  BY <1>4, <1>5, SMTT(300) DEF NodeOK, Settled
<1> QED  BY <1>k, <1>1, <1>5, <1>6, SMTT(300) DEF Elect, Follower, Leader, f
----------------------------------------------------------------------------
(* The handlers that take part in an election. *)

\* A quorum of pre-votes starts an election.
LEMMA PreVoteRespElect ==
    ASSUME NEW nd, NodeOK(nd), Grants(nd.msgs) = {}, NEW m \in Message
    PROVE  Elect(nd, handlePreVoteResp(nd, m), {})
<1> DEFINE p == nd.preVotes \cup {m.from}
           a == [nd EXCEPT !.preVotes = p]
           c == IF m.reject THEN nd ELSE a
<1>1. nd \in NodeState /\ m.from \in Server
  BY SMTT(300) DEF NodeOK, Message
<1>2. a \in NodeState
  BY <1>1, SMTT(300) DEF NodeState
<1>3. /\ a.id = nd.id /\ a.role = nd.role /\ a.term = nd.term /\ a.vote = nd.vote
      /\ a.votes = nd.votes /\ a.log = nd.log /\ a.stabled = nd.stabled
      /\ a.panicked = nd.panicked /\ a.msgs = nd.msgs
      /\ a.pendingReads = nd.pendingReads /\ a.roundReads = nd.roundReads
      /\ a.readReady = nd.readReady
  BY <1>1, SMTT(300) DEF NodeState
<1> HIDE DEF a
<1>s. Settled(nd, a)
  BY <1>2, <1>3, SMTT(300) DEF Settled, NodeOK
<1>t. Steady(nd, a)
  BY <1>3, SameSteady
<1>4. Quiet(nd, a)
  BY <1>s, <1>t, <1>3, SMTT(300) DEF Quiet
<1>5. Quiet(nd, c) /\ NodeOK(c)
  BY <1>4, QuietReflexive, QuietOK, SMTT(300)
<1> HIDE DEF c
<1>6. Elect(nd, c, {}) /\ Elect(nd, nd, {})
  BY <1>5, QuietElect, QuietReflexive, SMTT(300)
<1>7. Elect(c, startElection(c), {}) /\ Grants(c.msgs) = {}
  <2>1. Elect(c, startElection(c), {})
    BY <1>5, StartElection
  <2> QED  BY <1>5, <2>1, SMTT(300) DEF Quiet
<1>8. Elect(nd, startElection(c), {})
  BY <1>6, <1>7, ElectTransitive, SMTT(300)
<1> QED  BY <1>6, <1>8, SMTT(300) DEF handlePreVoteResp, c, a

\* handleVote grants at most the one vote it records, and changes no role.
LEMMA VoteElect ==
    ASSUME NEW nd, NodeOK(nd), Grants(nd.msgs) = {}, NEW m \in Message
    PROVE  /\ Elect(nd, handleVote(nd, m), {})
           /\ Steady(nd, handleVote(nd, m))
           /\ handleVote(nd, m).role = nd.role
           /\ handleVote(nd, m).term = nd.term
<1> DEFINE g == grantsVote(nd, m)
           a == [nd EXCEPT !.vote = m.from]
           b == IF g THEN a ELSE nd
           base == msg(nd, MsgVoteResp, m.from)
           resp == [base EXCEPT !.reject = ~ g]
           h == [b EXCEPT !.msgs = @ \cup {resp}]
<1>1. nd \in NodeState /\ m.from \in Server /\ g \in BOOLEAN /\ nd.term \in Nat
  BY DEF NodeOK, NodeState, Message, grantsVote
<1>2. g => nd.vote \in {Nil, m.from}
  BY SMTT(300) DEF grantsVote
<1>3. handleVote(nd, m) = h
  BY SMTT(300) DEF handleVote, send
<1>4. /\ base \in Message /\ base.type = MsgVoteResp /\ base.from = nd.id
      /\ base.to = m.from /\ base.term = nd.term
  BY <1>1, MsgType, SMTT(300) DEF MessageType
<1> HIDE DEF g, base
<1>5. /\ resp \in Message /\ resp.type = MsgVoteResp /\ resp.from = nd.id
      /\ resp.to = m.from /\ resp.term = nd.term /\ resp.reject = ~ g
  BY <1>1, <1>4 DEF Message
<1> HIDE DEF resp
<1>6. a \in NodeState
  BY <1>1, SMTT(300) DEF NodeState
<1>7. b \in NodeState
  BY <1>1, <1>6, SMTT(300)
<1>8. /\ b.id = nd.id /\ b.role = nd.role /\ b.term = nd.term
      /\ b.votes = nd.votes /\ b.log = nd.log /\ b.stabled = nd.stabled
      /\ b.msgs = nd.msgs /\ b.vote = IF g THEN m.from ELSE nd.vote
      /\ b.pendingReads = nd.pendingReads /\ b.roundReads = nd.roundReads
      /\ b.readReady = nd.readReady
  BY <1>1, SMTT(300) DEF NodeState
<1> HIDE DEF a, b
<1>9. h \in NodeState
  BY <1>5, <1>7, SMTT(300) DEF NodeState
<1>10. /\ h.id = nd.id /\ h.role = nd.role /\ h.term = nd.term
       /\ h.votes = nd.votes /\ h.log = nd.log /\ h.stabled = nd.stabled
       /\ h.msgs = nd.msgs \cup {resp} /\ h.vote = IF g THEN m.from ELSE nd.vote
       /\ h.pendingReads = nd.pendingReads /\ h.roundReads = nd.roundReads
       /\ h.readReady = nd.readReady
  BY <1>7, <1>8, SMTT(300) DEF NodeState
<1> HIDE DEF h
<1>s. Steady(nd, h)
  BY <1>10, SameSteady
<1>k. Keeps(nd, h)
  BY <1>s, SteadyKeeps, SMTT(300)
<1>11. Settled(nd, h)
  BY <1>9, <1>10, SMTT(300) DEF Settled, NodeOK
<1>12. ASSUME NEW x \in Grants(h.msgs)
       PROVE  x.from = h.id /\ x.term = h.term /\ x.to = h.vote
  <2>1. x = resp /\ ~ x.reject
    BY <1>10, <1>12, SMTT(300) DEF Grants
  <2>2. g
    BY <1>1, <1>5, <2>1
  <2> QED  BY <1>5, <1>10, <2>1, <2>2, SMTT(300)
<1>13. nd.vote \in {Nil, h.vote}
  BY <1>1, <1>2, <1>10, SMTT(300)
<1>14. \A v \in h.votes : v \in nd.votes
  BY <1>10, SMTT(300)
<1>15. Elect(nd, h, {})
  BY <1>k, <1>1, <1>10, <1>11, <1>12, <1>13, <1>14, SMTT(300) DEF Elect
<1> QED  BY <1>s, <1>3, <1>10, <1>15, SMTT(300)

\* handleVoteResp counts votes that were granted to it in its term.
LEMMA VoteRespElect ==
    ASSUME NEW nd, NodeOK(nd), Grants(nd.msgs) = {}, NEW m \in Message,
           m.type = MsgVoteResp, m.term = nd.term, m.to = nd.id
    PROVE  Elect(nd, handleVoteResp(nd, m), {m})
<1> DEFINE vs == nd.votes \cup {m.from}
           a == [nd EXCEPT !.votes = vs]
           c == IF m.reject THEN nd ELSE a
<1>1. nd \in NodeState /\ m.from \in Server /\ nd.term \in Nat
  BY DEF NodeOK, NodeState, Message
<1>2. Elect(nd, nd, {m})
  BY QuietReflexive, QuietElect, SMTT(300)
<1>3. a \in NodeState
  BY <1>1, SMTT(300) DEF NodeState
<1>4. /\ a.id = nd.id /\ a.role = nd.role /\ a.term = nd.term /\ a.vote = nd.vote
      /\ a.votes = vs /\ a.log = nd.log /\ a.stabled = nd.stabled
      /\ a.msgs = nd.msgs /\ Waits(a) = Waits(nd)
  BY <1>1, SMTT(300) DEF NodeState, Waits
<1> HIDE DEF a
<1>5. Settled(nd, a) /\ NodeOK(a)
  BY <1>3, <1>4, SMTT(300) DEF Settled, NodeOK
<1>k. Keeps(nd, a) /\ Keeps(nd, nd)
  BY <1>4, SameKeeps, SMTT(300)
<1>6. NodeOK(c)
  BY <1>5, SMTT(300)
<1>7. /\ Settled(nd, c) /\ c.role = nd.role /\ c.term = nd.term /\ c.vote = nd.vote
      /\ c.msgs = nd.msgs /\ Keeps(nd, c)
  BY <1>k, <1>4, <1>5, SMTT(300) DEF Settled
<1>8. \A v \in c.votes : \/ v \in nd.votes
                         \/ \E x \in Grants({m}) : /\ x.from = v /\ x.to = nd.id
                                                   /\ x.term = nd.term
  <2>1. CASE m.reject
    BY <2>1, SMTT(300)
  <2>2. CASE ~ m.reject
    <3>1. m \in Grants({m})
      BY <2>2, SMTT(300) DEF Grants
    <3> QED  BY <1>4, <2>2, <3>1, SMTT(300)
  <2> QED  BY <2>1, <2>2, SMTT(300)
<1>9. handleVoteResp(nd, m) = IF nd.role # Candidate THEN nd
                              ELSE IF Cardinality(c.votes) >= quorum
                                   THEN becomeLeader(c) ELSE c
  BY SMTT(300) DEF handleVoteResp, a
<1> HIDE DEF c
<1>10. CASE nd.role # Candidate
  BY <1>2, <1>9, <1>10, SMTT(300)
<1>11. CASE nd.role = Candidate /\ Cardinality(c.votes) >= quorum
  <2> DEFINE h == becomeLeader(c)
  <2>1. /\ Settled(c, h) /\ h.term = c.term /\ h.vote = c.vote /\ h.votes = c.votes
        /\ Grants(h.msgs) = Grants(c.msgs) /\ Keeps(c, h)
    BY <1>6, BecomeLeader, SMTT(300)
  <2> HIDE DEF h
  <2>2. Settled(nd, h) /\ h.id = nd.id /\ NodeOK(h) /\ c.log.snapIndex = nd.log.snapIndex
    BY <1>7, <2>1, SMTT(300) DEF Settled
  <2>k. Keeps(nd, h)
    BY <1>6, <1>7, <2>1, <2>2, KeepsTransitive, SMTT(300)
  <2>a. /\ h.term = nd.term /\ h.term >= nd.term /\ nd.vote \in {Nil, h.vote}
        /\ Grants(h.msgs) = Grants(nd.msgs) /\ Cardinality(h.votes) >= quorum
    BY <1>1, <1>7, <1>11, <2>1, SMTT(300)
  <2>b. \A v \in h.votes : \/ v \in nd.votes
                           \/ \E x \in Grants({m}) : /\ x.from = v /\ x.to = h.id
                                                     /\ x.term = h.term
    <3>1. h.votes = c.votes /\ h.id = nd.id /\ h.term = nd.term
      BY <2>1, <2>2, <2>a, SMTT(300)
    <3>2. SUFFICES ASSUME NEW v \in h.votes, v \notin nd.votes
                   PROVE  \E x \in Grants({m}) : /\ x.from = v /\ x.to = h.id
                                                 /\ x.term = h.term
      BY SMTT(300)
    <3>3. v \in c.votes
      BY <3>1, SMTT(300)
    <3>4. PICK x \in Grants({m}) : x.from = v /\ x.to = nd.id /\ x.term = nd.term
      BY <1>8, <3>2, <3>3, SMTT(300)
    <3>5. x.from = v /\ x.to = h.id /\ x.term = h.term
      BY <3>1, <3>4, SMTT(300)
    <3> QED  BY <3>5, SMTT(300)
  <2>3. Elect(nd, h, {m})
    BY <2>k, <2>2, <2>a, <2>b DEF Elect
  <2> QED  BY <1>9, <1>11, <2>3, SMTT(300) DEF h
<1>12. CASE nd.role = Candidate /\ ~ (Cardinality(c.votes) >= quorum)
  <2>1. c.id = nd.id /\ c.role # Leader
    BY <1>7, <1>12, SMTT(300) DEF Settled, Candidate, Leader
  <2>2. Elect(nd, c, {m})
    BY <1>1, <1>7, <1>8, <2>1, SMTT(300) DEF Elect
  <2> QED  BY <1>9, <1>12, <2>2, SMTT(300)
<1> QED  BY <1>10, <1>11, <1>12, SMTT(300)

\* handleApp may lose a candidacy, never a vote; it answers unless it panics.
LEMMA AppElect ==
    ASSUME NEW nd, NodeOK(nd), Grants(nd.msgs) = {}, NEW m \in Message
    PROVE  /\ Elect(nd, handleApp(nd, m), {})
           /\ handleApp(nd, m).role = Follower
           /\ handleApp(nd, m).panicked \/ handleApp(nd, m).msgs # {}
<1> DEFINE f    == [nd EXCEPT !.role = Follower, !.lead = m.from]
           resp == msg(nd, MsgAppResp, m.from)
<1>1. /\ nd \in NodeState /\ LogOK(nd.log) /\ nd.log \in LogState /\ nd.term \in Nat
      /\ m.from \in Server /\ m.logIndex \in Nat /\ m.commit \in Nat
      /\ m.entries \in Seq(Entry) /\ lastIndex(nd.log) \in Nat
  BY LogIndexType DEF NodeOK, NodeState, Message
<1>2. f \in NodeState
  BY <1>1 DEF NodeState
<1>3. /\ f.id = nd.id /\ f.role = Follower /\ f.term = nd.term /\ f.vote = nd.vote
      /\ f.votes = nd.votes /\ f.log = nd.log /\ f.stabled = nd.stabled
      /\ f.msgs = nd.msgs /\ Waits(f) = Waits(nd)
  BY <1>1, SMTT(300) DEF NodeState, Waits
<1>4. resp \in Message /\ resp.type = MsgAppResp
  BY <1>1, MsgType, SMTT(300) DEF MessageType
<1> HIDE DEF f, resp
<1>6. NodeOK(f) /\ Settled(nd, f)
  BY <1>2, <1>3, SMTT(300) DEF NodeOK, Settled
<1>k. Keeps(nd, f)
  BY <1>3, SameKeeps, SMTT(300)
<1>7. Elect(nd, f, {}) /\ Grants(f.msgs) = {}
  BY <1>k, <1>1, <1>3, <1>6, SMTT(300) DEF Elect, Follower, Leader
<1>8. ASSUME NEW b, NodeOK(b), Elect(nd, b, {}), Grants(b.msgs) = {}, b.role = Follower,
             NEW r \in Message, r.type # MsgVoteResp
      PROVE  /\ Elect(nd, send(b, r), {})
             /\ send(b, r).role = Follower /\ send(b, r).msgs # {}
  <2>1. Quiet(b, send(b, r))
    BY <1>8, SendQuiet, SMTT(300)
  <2>2. Elect(nd, send(b, r), {})
    BY <1>8, <2>1, QuietElect, ElectTransitive, SMTT(300)
  <2>3. send(b, r).role = Follower /\ send(b, r).msgs # {}
    BY <1>8, SMTT(300) DEF send, NodeOK, NodeState
  <2> QED  BY <2>2, <2>3, SMTT(300)
<1>9. CASE ~ prevMatches(nd.log, m.logIndex, m.logTerm)
  <2> DEFINE hint == minOf(lastIndex(nd.log) + 1, m.logIndex)
             r == [resp EXCEPT !.reject = TRUE, !.logIndex = hint]
  <2>1. hint \in Nat
    BY <1>1, SMTT(300) DEF minOf
  <2>2. r \in Message /\ r.type # MsgVoteResp
    BY <1>4, <2>1 DEF Message, MsgAppResp, MsgVoteResp
  <2>3. handleApp(nd, m) = send(f, r)
    BY <1>9, SMTT(300) DEF handleApp, f, resp
  <2> HIDE DEF r
  <2> QED  BY <1>3, <1>6, <1>7, <1>8, <2>2, <2>3, SMTT(300)
<1>10. CASE /\ prevMatches(nd.log, m.logIndex, m.logTerm)
            /\ truncatesCommitted(nd.log, m.logIndex, m.entries)
  <2> DEFINE h == panic(f)
  <2>1. handleApp(nd, m) = h
    BY <1>10, SMTT(300) DEF handleApp, f, resp
  <2>2. h \in NodeState
    BY <1>2 DEF panic, NodeState
  <2>3. /\ h.id = nd.id /\ h.role = Follower /\ h.term = nd.term /\ h.vote = nd.vote
        /\ h.votes = nd.votes /\ h.log = nd.log /\ h.stabled = nd.stabled
        /\ h.msgs = {} /\ Waits(h) = Waits(f)
    BY <1>2, <1>3, SMTT(300) DEF panic, NodeState, Waits
  <2>p. h.panicked
    BY <1>2 DEF panic, NodeState
  <2> HIDE DEF h
  <2>4. Settled(nd, h)
    BY <2>2, <2>3, SMTT(300) DEF NodeOK, Settled
  <2>k. Keeps(nd, h)
    BY <1>3, <2>3, SameKeeps, SMTT(300)
  <2>5. Grants({}) = {}
    BY SMTT(300) DEF Grants
  <2> QED  BY <1>1, <2>k, <2>p, <2>1, <2>3, <2>4, <2>5, SMTT(300) DEF Elect, Follower, Leader
<1>11. CASE /\ prevMatches(nd.log, m.logIndex, m.logTerm)
            /\ ~ truncatesCommitted(nd.log, m.logIndex, m.entries)
  <2> DEFINE l == maybeAppend(nd.log, m.logIndex, m.commit, m.entries)
             b == [f EXCEPT !.log = l]
             i == m.logIndex + Len(m.entries)
             r == [resp EXCEPT !.logIndex = i]
  <2>1. /\ LogOK(l) /\ l.snapIndex = nd.log.snapIndex /\ l.applied = nd.log.applied
        /\ l.committed >= nd.log.committed
        /\ \A j \in 1 .. nd.log.committed - nd.log.snapIndex :
              l.entries[j] = nd.log.entries[j]
    BY <1>1, <1>11, MaybeAppendOK, SMTT(300) DEF prevMatches
  <2>2. handleApp(nd, m) = send(b, r)
    BY <1>3, <1>11, SMTT(300) DEF handleApp, f, resp
  <2> HIDE DEF l
  <2>3. l \in LogState
    BY <2>1, SMTT(300) DEF LogOK
  <2>4. /\ b \in NodeState /\ b.id = nd.id /\ b.role = Follower /\ b.term = nd.term
        /\ b.vote = nd.vote /\ b.votes = nd.votes /\ b.log = l
        /\ b.stabled = nd.stabled /\ b.msgs = nd.msgs /\ Waits(b) = Waits(f)
    BY <1>2, <1>3, <2>3, SMTT(300) DEF NodeState, Waits
  <2> HIDE DEF b
  <2>5. NodeOK(b) /\ Settled(nd, b)
    BY <2>1, <2>4, SMTT(300) DEF NodeOK, Settled
  <2>6. Keeps(nd, b)
    BY <1>3, <2>1, <2>4, SMTT(300) DEF Keeps, Stamped
  <2>7. Elect(nd, b, {}) /\ Grants(b.msgs) = {}
    BY <1>1, <2>4, <2>5, <2>6, SMTT(300) DEF Elect, Follower, Leader
  <2>8. i \in Nat
    BY <1>1, SMTT(300)
  <2> HIDE DEF i
  <2>9. r \in Message /\ r.type # MsgVoteResp
    BY <1>4, <2>8, SMTT(300) DEF Message, MsgAppResp, MsgVoteResp
  <2> HIDE DEF r
  <2> QED  BY <1>8, <2>2, <2>4, <2>5, <2>7, <2>9, SMTT(300)
<1> QED  BY <1>9, <1>10, <1>11, SMTT(300)

\* MsgTimeoutNow starts an election without pre-votes.
LEMMA TimeoutNowElect ==
    ASSUME NEW nd, NodeOK(nd), Grants(nd.msgs) = {}
    PROVE  Elect(nd, handleTimeoutNow(nd), {})
<1>1. CASE nd.role = Leader
  <2> DEFINE h == panic(nd)
  <2>1. nd \in NodeState /\ nd.term \in Nat
    BY SMTT(300) DEF NodeOK, NodeState
  <2>2. h \in NodeState
    BY <2>1 DEF panic, NodeState
  <2>3. /\ h.id = nd.id /\ h.role = nd.role /\ h.term = nd.term /\ h.vote = nd.vote
        /\ h.votes = nd.votes /\ h.log = nd.log /\ h.stabled = nd.stabled
        /\ h.msgs = {} /\ Waits(h) = Waits(nd)
    BY <2>1, SMTT(300) DEF panic, NodeState, Waits
  <2>4. handleTimeoutNow(nd) = h
    BY <1>1, SMTT(300) DEF handleTimeoutNow
  <2> HIDE DEF h
  <2>5. Settled(nd, h)
    BY <2>2, <2>3, SMTT(300) DEF NodeOK, Settled
  <2>6. Grants({}) = {}
    BY SMTT(300) DEF Grants
  <2>7. Keeps(nd, h)
    BY <2>3, SameKeeps, SMTT(300)
  <2> QED  BY <2>1, <2>3, <2>4, <2>5, <2>6, <2>7, SMTT(300) DEF Elect
<1>2. CASE nd.role # Leader
  <2>1. Elect(nd, startElection(nd), {})
    BY StartElection
  <2> QED  BY <1>2, <2>1, SMTT(300) DEF handleTimeoutNow
<1> QED  BY <1>1, <1>2, SMTT(300)

\* The handlers behind Step, for a message of the current term.
LEMMA DispatchElect ==
    ASSUME NEW nd, NodeOK(nd), Grants(nd.msgs) = {}, NEW m \in Message,
           m.term = nd.term, m.to = nd.id,
           m.type \notin {MsgPreVote, MsgPreVoteResp, MsgSnap}
    PROVE  Elect(nd, dispatch(nd, m), {m})
<1> USE DEF MsgVote, MsgVoteResp, MsgApp, MsgAppResp, MsgPreVote, MsgPreVoteResp,
            MsgSnap, MsgTimeoutNow
<1>0. nd \in NodeState
  BY SMTT(300) DEF NodeOK
<1>1. ASSUME NEW h, Elect(nd, h, {}) PROVE Elect(nd, h, {m})
  <2>1. ~ \E x \in Grants({}) : TRUE
    BY SMTT(300) DEF Grants
  <2> QED  BY <1>1, <2>1, SMTT(300) DEF Elect
<1>2. CASE m.type = MsgVote
  <2>1. dispatch(nd, m) = handleVote(nd, m)
    BY <1>2, SMTT(300) DEF dispatch
  <2> QED  BY <1>1, <2>1, VoteElect, SMTT(300)
<1>3. CASE m.type = MsgVoteResp
  <2>1. dispatch(nd, m) = handleVoteResp(nd, m)
    BY <1>3, SMTT(300) DEF dispatch
  <2> QED  BY <1>3, <2>1, VoteRespElect, SMTT(300)
<1>4. CASE m.type = MsgApp
  <2>1. dispatch(nd, m) = handleApp(nd, m)
    BY <1>4, SMTT(300) DEF dispatch
  <2> QED  BY <1>1, <2>1, AppElect, SMTT(300)
<1>5. CASE m.type = MsgAppResp
  <2>1. dispatch(nd, m) = handleAppResp(nd, m)
    BY <1>5, SMTT(300) DEF dispatch
  <2> QED  BY <2>1, AppRespQuiet, QuietElect, SMTT(300)
<1>6. CASE m.type = MsgTimeoutNow
  <2>1. dispatch(nd, m) = handleTimeoutNow(nd)
    BY <1>6, SMTT(300) DEF dispatch
  <2> QED  BY <1>1, <2>1, TimeoutNowElect, SMTT(300)
<1>7. m.type \in MessageType
  BY SMTT(300) DEF Message
<1> QED  BY <1>2, <1>3, <1>4, <1>5, <1>6, <1>7, SMTT(300) DEF MessageType

\* Step, newer and older terms included.
LEMMA StepElect ==
    ASSUME NEW nd, NodeOK(nd), Grants(nd.msgs) = {}, NEW m \in Message,
           m.to = nd.id, m.type # MsgSnap
    PROVE  Elect(nd, Step(nd, m), {m})
<1>0. nd \in NodeState /\ nd.term \in Nat /\ m.term \in Nat /\ m.from \in Server
  BY DEF NodeOK, NodeState, Message
<1>1. ASSUME NEW h, Elect(nd, h, {}) PROVE Elect(nd, h, {m})
  <2>1. ~ \E x \in Grants({}) : TRUE
    BY SMTT(300) DEF Grants
  <2> QED  BY <1>1, <2>1, SMTT(300) DEF Elect
<1>2. CASE m.type = MsgPreVote
  <2>1. Step(nd, m) = handlePreVote(nd, m)
    BY <1>2, SMTT(300) DEF Step, MsgPreVote, MsgPreVoteResp
  <2> QED  BY <2>1, PreVoteQuiet, QuietElect, SMTT(300)
<1>3. CASE m.type = MsgPreVoteResp
  <2>1. Step(nd, m) = handlePreVoteResp(nd, m)
    BY <1>3, SMTT(300) DEF Step, MsgPreVote, MsgPreVoteResp
  <2> QED  BY <1>1, <2>1, PreVoteRespElect, SMTT(300)
<1>4. CASE m.type \notin {MsgPreVote, MsgPreVoteResp}
  <2>1. CASE m.term > nd.term
    <3> DEFINE lead == IF m.type = MsgApp THEN m.from ELSE Nil
               f == becomeFollower(nd, m.term, lead)
    <3>1. lead \in Server \cup {Nil}
      BY <1>0, SMTT(300)
    <3>2. Step(nd, m) = dispatch(f, m)
      BY <1>4, <2>1, SMTT(300) DEF Step
    <3> HIDE DEF lead
    <3>3. Elect(nd, f, {}) /\ f.term = m.term /\ Grants(f.msgs) = {}
      BY <1>0, <2>1, <3>1, BecomeFollowerElect, SMTT(300)
    <3> HIDE DEF f
    <3>4. NodeOK(f) /\ m.to = f.id
      BY <3>3, SMTT(300) DEF Elect, Settled
    <3>5. Elect(f, dispatch(f, m), {m})
      BY <1>4, <3>3, <3>4, DispatchElect, SMTT(300)
    <3> QED  BY <3>2, <3>3, <3>5, ElectTransitive, SMTT(300)
  <2>2. CASE m.term = nd.term
    <3>1. Step(nd, m) = dispatch(nd, m)
      BY <1>0, <1>4, <2>2, SMTT(300) DEF Step
    <3> QED  BY <1>4, <2>2, <3>1, DispatchElect, SMTT(300)
  <2>3. CASE m.term < nd.term /\ m.type = MsgVote
    <3> DEFINE base == msg(nd, MsgVoteResp, m.from)
               r == [base EXCEPT !.reject = TRUE]
    <3>1. base \in Message
      BY <1>0, MsgType, SMTT(300) DEF MessageType
    <3> HIDE DEF base
    <3>2. r \in Message /\ r.reject
      BY <3>1 DEF Message
    <3>3. Step(nd, m) = send(nd, r)
      BY <1>0, <1>4, <2>3, SMTT(300) DEF Step, base
    <3> HIDE DEF r
    <3> QED  BY <3>2, <3>3, SendQuiet, QuietElect, SMTT(300)
  <2>4. CASE m.term < nd.term /\ m.type # MsgVote
    <3>1. Step(nd, m) = nd
      BY <1>0, <1>4, <2>4, SMTT(300) DEF Step
    <3> QED  BY <3>1, QuietReflexive, QuietElect, SMTT(300)
  <2> QED  BY <1>0, <2>1, <2>2, <2>3, <2>4, SMTT(300)
<1> QED  BY <1>2, <1>3, <1>4, SMTT(300)
----------------------------------------------------------------------------
(* What becomes of a leader *)

(***************************************************************************)
(* A leader that handled a message has panicked, still leads its term and  *)
(* lost nothing that somebody waits for, or stepped down with something to *)
(* send or save; unless a server is its own quorum.                        *)
(***************************************************************************)
Leads(a, b) ==
    \/ b.panicked
    \/ b.role = Leader /\ b.term = a.term /\ Steady(a, b)
    \/ b.role # Leader /\ (b.msgs # {} \/ b.term > a.term)
    \/ Cardinality({a.id}) >= quorum

\* A message makes no leader of a follower that needs others' votes.
LEMMA FollowerDispatch ==
    ASSUME NEW nd, NodeOK(nd), Grants(nd.msgs) = {}, nd.role = Follower,
           NEW m \in Message, m.type \notin {MsgPreVote, MsgPreVoteResp, MsgSnap},
           dispatch(nd, m).role = Leader
    PROVE  Cardinality({nd.id}) >= quorum
<1> USE DEF MsgVote, MsgVoteResp, MsgApp, MsgAppResp, MsgPreVote, MsgPreVoteResp,
            MsgSnap, MsgTimeoutNow, Follower, Candidate, Leader
<1>1. CASE m.type = MsgVote
  <2>1. handleVote(nd, m).role = nd.role
    BY VoteElect, SMTT(300)
  <2> QED  BY <1>1, <2>1, SMTT(300) DEF dispatch
<1>2. CASE m.type = MsgVoteResp
  BY <1>2, SMTT(300) DEF dispatch, handleVoteResp
<1>3. CASE m.type = MsgApp
  <2>1. handleApp(nd, m).role = Follower
    BY AppElect, SMTT(300)
  <2> QED  BY <1>3, <2>1, SMTT(300) DEF dispatch
<1>4. CASE m.type = MsgAppResp
  BY <1>4, SMTT(300) DEF dispatch, handleAppResp
<1>5. CASE m.type = MsgTimeoutNow
  <2>1. dispatch(nd, m) = startElection(nd)
    BY <1>5, SMTT(300) DEF dispatch, handleTimeoutNow
  <2> QED  BY <2>1, StartElection
<1>6. m.type \in MessageType
  BY SMTT(300) DEF Message
<1> QED  BY <1>1, <1>2, <1>3, <1>4, <1>5, <1>6, SMTT(300) DEF MessageType

\* What a leader does with a message of its own term.
LEMMA LeaderDispatch ==
    ASSUME NEW nd, NodeOK(nd), Grants(nd.msgs) = {}, nd.role = Leader,
           NEW m \in Message, m.type \notin {MsgPreVote, MsgPreVoteResp, MsgSnap}
    PROVE  Leads(nd, dispatch(nd, m))
<1> USE DEF MsgVote, MsgVoteResp, MsgApp, MsgAppResp, MsgPreVote, MsgPreVoteResp,
            MsgSnap, MsgTimeoutNow, Follower, Candidate, Leader
<1>q. ASSUME NEW h, Quiet(nd, h) PROVE Leads(nd, h)
  BY <1>q, SMTT(300) DEF Quiet, Leads
<1>1. CASE m.type = MsgVote
  <2>1. /\ Steady(nd, handleVote(nd, m)) /\ handleVote(nd, m).role = nd.role
        /\ handleVote(nd, m).term = nd.term
    BY VoteElect, SMTT(300)
  <2> QED  BY <1>1, <2>1, SMTT(300) DEF dispatch, Leads
<1>2. CASE m.type = MsgVoteResp
  <2>1. dispatch(nd, m) = nd
    BY <1>2, SMTT(300) DEF dispatch, handleVoteResp
  <2> QED  BY <1>q, <2>1, QuietReflexive, SMTT(300)
<1>3. CASE m.type = MsgApp
  <2>1. /\ handleApp(nd, m).role = Follower
        /\ handleApp(nd, m).panicked \/ handleApp(nd, m).msgs # {}
    BY AppElect, SMTT(300)
  <2> QED  BY <1>3, <2>1, SMTT(300) DEF dispatch, Leads
<1>4. CASE m.type = MsgAppResp
  <2>1. dispatch(nd, m) = handleAppResp(nd, m)
    BY <1>4, SMTT(300) DEF dispatch
  <2> QED  BY <1>q, <2>1, AppRespQuiet, SMTT(300)
<1>5. CASE m.type = MsgTimeoutNow
  <2>1. dispatch(nd, m) = panic(nd)
    BY <1>5, SMTT(300) DEF dispatch, handleTimeoutNow
  <2>2. panic(nd).panicked
    BY DEF panic, NodeOK, NodeState
  <2> QED  BY <2>1, <2>2, SMTT(300) DEF Leads
<1>6. m.type \in MessageType
  BY SMTT(300) DEF Message
<1> QED  BY <1>1, <1>2, <1>3, <1>4, <1>5, <1>6, SMTT(300) DEF MessageType

\* What a leader does with any message.
LEMMA StepLeads ==
    ASSUME NEW nd, NodeOK(nd), Grants(nd.msgs) = {}, nd.role = Leader,
           NEW m \in Message, m.to = nd.id, m.type # MsgSnap
    PROVE  Leads(nd, Step(nd, m))
<1>0. nd.term \in Nat /\ m.term \in Nat /\ m.from \in Server
  BY DEF NodeOK, NodeState, Message
<1>q. ASSUME NEW h, Quiet(nd, h) PROVE Leads(nd, h)
  BY <1>q, SMTT(300) DEF Quiet, Leads
<1>2. CASE m.type = MsgPreVote
  <2>1. Step(nd, m) = handlePreVote(nd, m)
    BY <1>2, SMTT(300) DEF Step, MsgPreVote, MsgPreVoteResp
  <2> QED  BY <1>q, <2>1, PreVoteQuiet, SMTT(300)
<1>3. CASE m.type = MsgPreVoteResp
  <2>1. Step(nd, m) = nd
    BY <1>3, SMTT(300) DEF Step, MsgPreVote, MsgPreVoteResp, handlePreVoteResp, Leader, Candidate
  <2> QED  BY <1>q, <2>1, QuietReflexive, SMTT(300)
<1>4. CASE m.type \notin {MsgPreVote, MsgPreVoteResp}
  <2>1. CASE m.term > nd.term
    <3> DEFINE lead == IF m.type = MsgApp THEN m.from ELSE Nil
               f == becomeFollower(nd, m.term, lead)
               h == dispatch(f, m)
    <3>1. lead \in Server \cup {Nil}
      BY <1>0, SMTT(300)
    <3>2. Step(nd, m) = h
      BY <1>4, <2>1, SMTT(300) DEF Step
    <3> HIDE DEF lead
    <3>3. Elect(nd, f, {}) /\ f.term = m.term /\ f.role = Follower /\ Grants(f.msgs) = {}
      BY <1>0, <2>1, <3>1, BecomeFollowerElect, SMTT(300)
    <3> HIDE DEF f
    <3>4. NodeOK(f) /\ f.id = nd.id
      BY <3>3, SMTT(300) DEF Elect, Settled
    <3>5. Elect(f, h, {m})
      BY <1>4, <3>3, <3>4, DispatchElect, SMTT(300)
    <3>6. h.role = Leader => Cardinality({nd.id}) >= quorum
      BY <1>4, <3>3, <3>4, FollowerDispatch
    <3> HIDE DEF h
    <3>7. h.term > nd.term
      <4>1. h.term \in Nat /\ h.term >= f.term
        BY <3>5, SMTT(300) DEF Elect, Settled, NodeOK, NodeState
      <4> QED  BY <1>0, <2>1, <3>3, <4>1, SMTT(300)
    <3> QED  BY <3>2, <3>6, <3>7, SMTT(300) DEF Leads
  <2>2. CASE m.term = nd.term
    <3>1. Step(nd, m) = dispatch(nd, m)
      BY <1>0, <1>4, <2>2, SMTT(300) DEF Step
    <3> QED  BY <1>4, <3>1, LeaderDispatch, SMTT(300)
  <2>3. CASE m.term < nd.term /\ m.type = MsgVote
    <3> DEFINE base == msg(nd, MsgVoteResp, m.from)
               r == [base EXCEPT !.reject = TRUE]
    <3>1. base \in Message
      BY <1>0, MsgType, SMTT(300) DEF MessageType, NodeOK
    <3> HIDE DEF base
    <3>2. r \in Message /\ r.reject
      BY <3>1 DEF Message
    <3>3. Step(nd, m) = send(nd, r)
      BY <1>0, <1>4, <2>3, SMTT(300) DEF Step, base
    <3> HIDE DEF r
    <3> QED  BY <1>q, <3>2, <3>3, SendQuiet, SMTT(300)
  <2>4. CASE m.term < nd.term /\ m.type # MsgVote
    <3>1. Step(nd, m) = nd
      BY <1>0, <1>4, <2>4, SMTT(300) DEF Step
    <3> QED  BY <1>q, <3>1, QuietReflexive, SMTT(300)
  <2> QED  BY <1>0, <2>1, <2>2, <2>3, <2>4, SMTT(300)
<1> QED  BY <1>2, <1>3, <1>4, SMTT(300)
----------------------------------------------------------------------------
(* A member without peers sends nothing, continued *)

\* A candidate has nobody to ask.
LEMMA AloneCampaign ==
    ASSUME NEW nd, NodeOK(nd), Server = {nd.id}
    PROVE  Campaign(nd).msgs = nd.msgs
<1>1. ASSUME NEW x \in NodeState, NEW type, NEW trm, Server = {x.id}
      PROVE  bcastVote(x, type, trm).msgs = x.msgs
  <2>1. peersOf(x) = {}
    BY <1>1, SMTT(300) DEF peersOf
  <2> QED  BY <1>1, <2>1, SMTT(300) DEF bcastVote, NodeState
<1> DEFINE c == becomePreCandidate(nd)
           d == becomeCandidate(c)
<1>2. c \in NodeState /\ c.id = nd.id /\ c.msgs = nd.msgs /\ c.log = nd.log
      /\ c.stabled = nd.stabled
  <2>1. nd \in NodeState /\ nd.id \in Server
    BY SMTT(300) DEF NodeOK, NodeState
  <2>2. c \in NodeState
    BY <2>1 DEF becomePreCandidate, NodeState
  <2> QED  BY <2>1, <2>2, SMTT(300) DEF becomePreCandidate, NodeState
<1>3. NodeOK(c)
  <2> HIDE DEF c
  <2> QED  BY <1>2, SMTT(300) DEF NodeOK
<1>4. Campaign(nd) \in {startElection(c), bcastVote(c, MsgPreVote, c.term + 1)}
  BY SMTT(300) DEF Campaign
<1> HIDE DEF c
<1>5. startElection(c) \in {becomeLeader(d), bcastVote(d, MsgVote, d.term)}
  BY SMTT(300) DEF startElection
<1>6. NodeOK(d) /\ d.id = c.id /\ d.msgs = c.msgs
  <2> DEFINE r == reset(c, c.term + 1)
  <2>1. r \in NodeState /\ r.id = c.id /\ r.msgs = c.msgs /\ r.log = c.log
        /\ r.stabled = c.stabled
    <3>1. c.term + 1 \in Nat
      BY <1>2, SMTT(300) DEF NodeState
    <3> QED  BY <1>3, <3>1, Reset, SMTT(300)
  <2>2. d = [r EXCEPT !.role = Candidate, !.vote = c.id, !.votes = {c.id}]
    BY SMTT(300) DEF becomeCandidate
  <2> HIDE DEF r, d
  <2>3. d \in NodeState /\ d.id = c.id /\ d.msgs = c.msgs /\ d.log = c.log
        /\ d.stabled = c.stabled
    BY <2>1, <2>2 DEF NodeState
  <2> QED  BY <1>3, <2>3, SMTT(300) DEF NodeOK
<1> HIDE DEF d
<1>7. startElection(c).msgs = nd.msgs
  BY <1>1, <1>2, <1>5, <1>6, BecomeLeader, SMTT(300) DEF NodeOK
<1>8. bcastVote(c, MsgPreVote, c.term + 1).msgs = nd.msgs
  BY <1>1, <1>2, SMTT(300)
<1> QED  BY <1>4, <1>7, <1>8, SMTT(300)

\* Nobody replicates a proposal.
LEMMA AlonePropose ==
    ASSUME NEW nd, NodeOK(nd), NEW v \in Value, Server = {nd.id}
    PROVE  handlePropose(nd, v).msgs = nd.msgs
<1> DEFINE e == [term |-> nd.term, data |-> v]
           a == [nd EXCEPT !.log = appendEntries(nd.log, <<e>>)]
           c == maybeCommit(a)
<1>1. e \in Entry
  BY SMTT(300) DEF Entry, NodeOK, NodeState
<1>2. handlePropose(nd, v) = bcastAppend(c)
  BY SMTT(300) DEF handlePropose
<1> HIDE DEF e
<1>3. Quiet(nd, a) /\ NodeOK(a)
  BY <1>1, AppendQuiet, QuietOK, SMTT(300)
<1>4. a.msgs = nd.msgs
  BY SMTT(300) DEF NodeOK, NodeState
<1> HIDE DEF a
<1>5. c \in NodeState /\ c.id = nd.id /\ c.msgs = nd.msgs
  BY <1>3, <1>4, MaybeCommitQuiet, CommitSends, SMTT(300) DEF Quiet, Settled, NodeOK
<1> HIDE DEF c
<1> QED  BY <1>2, <1>5, AloneBcast, SMTT(300)

\* Nobody confirms a read.
LEMMA AloneRead ==
    ASSUME NEW nd, NodeOK(nd), NEW id \in ReadId, Server = {nd.id}
    PROVE  ReadIndex(nd, id).msgs = nd.msgs
<1> DEFINE pr == nd.pendingReads \cup {[id |-> id, index |-> nd.log.committed]}
           p == [nd EXCEPT !.pendingReads = pr]
           o == roundOpened(p)
<1>1. nd \in NodeState /\ pr \in SUBSET Read
  BY SMTT(300) DEF NodeOK, LogOK, NodeState, LogState, Read
<1>2. ReadIndex(nd, id) = maybeStartReadRound(p)
  BY <1>1, SMTT(300) DEF ReadIndex, NodeState
<1> HIDE DEF pr
<1>3. p \in NodeState /\ p.id = nd.id /\ p.msgs = nd.msgs
  BY <1>1, SMTT(300) DEF NodeState
<1> HIDE DEF p
<1>4. o \in NodeState /\ o.id = nd.id /\ o.msgs = nd.msgs
  BY <1>3 DEF roundOpened, NodeState
<1>5. maybeStartReadRound(p) \in {p, roundConfirmed(o), bcastHeartbeat(o)}
  BY SMTT(300) DEF maybeStartReadRound
<1> HIDE DEF o
<1>6. roundConfirmed(o).msgs = o.msgs
  BY <1>4, SMTT(300) DEF roundConfirmed, NodeState
<1> QED  BY <1>2, <1>3, <1>4, <1>5, <1>6, AloneHeartbeat, SMTT(300)
============================================================================
