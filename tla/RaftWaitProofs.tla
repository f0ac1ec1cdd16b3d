--------------------------- MODULE RaftWaitProofs ---------------------------
(***************************************************************************)
(* What an iteration of the group loop does for those who wait: drainReady *)
(* leaves nothing to do, it answers whom it removes, and a server that     *)
(* stops leading fails the others.                                         *)
(***************************************************************************)
EXTENDS RaftLoopProofs

\* Zenon unless a step cites SMT, with time for a busy machine.
USE ZenonT(300)

\* Log k is log l, perhaps compacted further and with more of it committed.
Compacts(l, k) ==
    /\ k.snapIndex >= l.snapIndex
    /\ k.committed >= l.committed
    /\ \A i \in (k.snapIndex + 1) .. lastIndex(l) : entryAt(k, i) = entryAt(l, i)

\* Every entry of the log has been persisted.
Stable(nd) == lastIndex(nd.log) <= nd.stabled

(***************************************************************************)
(* What one pass of drainReady makes of the log, the reads and the         *)
(* waiters: whoever is removed by a leader was answered.                   *)
(***************************************************************************)
Passed(g, h) ==
    LET a == g.raft
        b == h.raft
    IN  /\ Compacts(a.log, b.log)
        /\ b.log.applied = applyTo(a)
        /\ Stable(b)
        /\ Stable(a) => b.log.committed = a.log.committed /\ h.disk.commit = b.log.committed
        /\ b.pendingReads = a.pendingReads
        /\ b.roundReads = a.roundReads
        /\ b.readReady = unservedReads(a)
        /\ h.waiters \subseteq g.waiters
        /\ h.reads \subseteq g.reads
        /\ a.role # Leader => h.waiters = {} /\ h.reads = {}
        /\ \A i \in newlyApplied(a) : entryAt(a.log, i).data \notin h.waiters
        /\ \A r \in readyReadStates(a) : r.id \notin h.reads
----------------------------------------------------------------------------
(* One pass *)

\* There is something to persist exactly when the log is not stable.
LEMMA UnstableEmpty ==
    ASSUME NEW nd, NodeOK(nd)
    PROVE  (unstable(nd) = <<>>) <=> Stable(nd)
<1>1. /\ nd.log \in LogState /\ nd.stabled \in Nat /\ lastIndex(nd.log) \in Nat
      /\ nd.log.snapIndex \in Nat /\ nd.log.snapIndex <= nd.stabled
  BY NodeIndices
<1>2. CASE lastIndex(nd.log) > nd.stabled
  <2> DEFINE lo == nd.stabled + 1
             u == slice(nd.log, lo, lastIndex(nd.log))
  <2>1. /\ lo \in Nat /\ lo > nd.log.snapIndex /\ lastIndex(nd.log) <= lastIndex(nd.log)
        /\ lo <= lastIndex(nd.log)
    BY <1>1, <1>2, SMTT(300)
  <2>2. unstable(nd) = u
    BY <1>2 DEF unstable
  <2> HIDE DEF lo
  <2>3. Len(u) = lastIndex(nd.log) - lo + 1
    BY <1>1, <2>1, SliceType
  <2>4. u # <<>>
    BY <1>1, <2>1, <2>3, SMTT(300)
  <2> QED  BY <1>1, <1>2, <2>2, <2>4, SMTT(300) DEF Stable
<1>3. CASE ~ (lastIndex(nd.log) > nd.stabled)
  BY <1>1, <1>3, SMTT(300) DEF unstable, Stable
<1> QED  BY <1>2, <1>3

\* maybeCommit may raise the commit index, and moves nothing else of the log
\* or the reads.
LEMMA MaybeCommitKeeps ==
    ASSUME NEW nd, NodeOK(nd)
    PROVE  LET c == maybeCommit(nd)
           IN  /\ c \in NodeState
               /\ c.log.entries = nd.log.entries /\ c.log.snapIndex = nd.log.snapIndex
               /\ c.log.committed >= nd.log.committed
               /\ c.pendingReads = nd.pendingReads /\ c.roundReads = nd.roundReads
               /\ c.readReady = nd.readReady /\ c.stabled = nd.stabled
<1> DEFINE own == ownMatch(nd)
           k == commitTo(own.log, CHOOSE i \in committable(own) : TRUE)
           c == maybeCommit(nd)
<1>1. nd \in NodeState /\ nd.log \in LogState /\ nd.log.committed \in Nat
  BY NodeIndices
<1>2. /\ own.log = nd.log /\ own.pendingReads = nd.pendingReads
      /\ own.roundReads = nd.roundReads /\ own.readReady = nd.readReady
      /\ own.stabled = nd.stabled /\ DOMAIN own = DOMAIN nd
  BY <1>1 DEF ownMatch, NodeState
<1>3. k.entries = nd.log.entries /\ k.snapIndex = nd.log.snapIndex
  BY <1>1, <1>2 DEF commitTo, LogState
<1>4. c \in {nd, own, [own EXCEPT !.log = k]}
  BY DEF maybeCommit
<1>5. c \in NodeState /\ c.log.committed >= nd.log.committed
  BY MaybeCommitQuiet, MaybeCommitMonotone DEF Quiet, Settled, NodeOK
<1> HIDE DEF own, k, c
<1>6. "log" \in DOMAIN nd /\ "pendingReads" \in DOMAIN nd /\ "roundReads" \in DOMAIN nd
      /\ "readReady" \in DOMAIN nd /\ "stabled" \in DOMAIN nd
  BY <1>1 DEF NodeState
<1>7. CASE c \in {nd, own}
  BY <1>2, <1>5, <1>7 DEF c
<1>8. CASE c = [own EXCEPT !.log = k]
  BY <1>2, <1>3, <1>5, <1>6, <1>8 DEF c
<1> QED  BY <1>4, <1>7, <1>8

\* What Advance makes of the log and the reads.
LEMMA AdvancePassed ==
    ASSUME NEW nd, NodeOK(nd)
    PROVE  LET a == Advance(nd)
           IN  /\ a.log.entries = nd.log.entries /\ a.log.snapIndex = nd.log.snapIndex
               /\ a.log.committed >= nd.log.committed
               /\ a.log.applied = applyTo(nd)
               /\ Stable(a)
               /\ Stable(nd) => a.log.committed = nd.log.committed
               /\ a.pendingReads = nd.pendingReads /\ a.roundReads = nd.roundReads
               /\ a.readReady = unservedReads(nd)
<1> DEFINE b == [nd EXCEPT !.stabled = lastIndex(nd.log)]
           s == IF unstable(nd) = <<>> THEN nd ELSE maybeCommit(b)
           k == applyTo(nd)
           rs == unservedReads(nd)
           l == [s.log EXCEPT !.applied = k]
           a == [s EXCEPT !.log = l, !.readReady = rs, !.msgs = {}]
<1>1. NodeOK(b) /\ b.log = nd.log /\ b.stabled = lastIndex(nd.log)
      /\ b.pendingReads = nd.pendingReads /\ b.roundReads = nd.roundReads
  <2>1. b \in NodeState /\ b.log = nd.log /\ b.stabled = lastIndex(nd.log)
        /\ b.pendingReads = nd.pendingReads /\ b.roundReads = nd.roundReads
    BY NodeIndices, SMTT(300) DEF NodeState
  <2> HIDE DEF b
  <2>2. b.log.applied <= b.stabled
    BY <2>1, NodeIndices, SMTT(300)
  <2> QED  BY <2>1, <2>2 DEF NodeOK
<1> HIDE DEF b
<1>2. /\ s \in NodeState /\ s.log.entries = nd.log.entries
      /\ s.log.snapIndex = nd.log.snapIndex /\ s.log.committed >= nd.log.committed
      /\ s.pendingReads = nd.pendingReads /\ s.roundReads = nd.roundReads
      /\ lastIndex(nd.log) <= s.stabled
      /\ Stable(nd) => s.log.committed = nd.log.committed
  <2>1. nd \in NodeState /\ nd.log.committed \in Nat /\ lastIndex(nd.log) \in Nat
    BY NodeIndices
  <2>2. CASE Stable(nd)
    <3>1. s = nd
      BY <2>2, UnstableEmpty
    <3> HIDE DEF s
    <3> QED  BY <2>1, <2>2, <3>1, SMTT(300) DEF Stable
  <2>3. CASE ~ Stable(nd)
    <3>1. s = maybeCommit(b)
      BY <2>3, UnstableEmpty
    <3> HIDE DEF s
    <3> QED  BY <1>1, <2>1, <2>3, <3>1, MaybeCommitKeeps, SMTT(300)
  <2> QED  BY <2>2, <2>3
<1>3. Advance(nd) = a
  <2>1. s.log \in LogState
    BY <1>2 DEF NodeState
  <2>2. Advance(nd) = [s EXCEPT !.log.applied = k, !.readReady = rs, !.msgs = {}]
    BY DEF Advance, b
  <2> HIDE DEF s, k, rs
  <2> QED  BY <1>2, <2>1, <2>2 DEF NodeState, LogState
<1> HIDE DEF s, k, rs
<1>4. /\ l.applied = k /\ l.snapIndex = s.log.snapIndex
      /\ l.committed = s.log.committed /\ l.entries = s.log.entries
  BY <1>2 DEF NodeState, LogState
<1> HIDE DEF l
<1>5. /\ a.log = l /\ a.readReady = rs /\ a.pendingReads = s.pendingReads
      /\ a.roundReads = s.roundReads /\ a.stabled = s.stabled
  BY <1>2 DEF NodeState
<1> HIDE DEF a
<1>6. Stable(a)
  BY <1>2, <1>4, <1>5 DEF Stable, lastIndex
<1> QED  BY <1>2, <1>3, <1>4, <1>5, <1>6 DEF k, rs

\* Whom a pass answers, and whom a server that does not lead fails.
LEMMA AnswerPassed ==
    ASSUME NEW g, Drainable(g)
    PROVE  LET p == publishStatus(signalWaiters([g EXCEPT !.disk = SaveReady(@, g.raft)]))
           IN  /\ p.disk.commit = g.raft.log.committed
               /\ p.waiters \subseteq g.waiters
               /\ p.reads \subseteq g.reads
               /\ g.raft.role # Leader => p.waiters = {} /\ p.reads = {}
               /\ \A i \in newlyApplied(g.raft) : entryAt(g.raft.log, i).data \notin p.waiters
               /\ \A r \in readyReadStates(g.raft) : r.id \notin p.reads
<1> DEFINE nd == g.raft
           dk == SaveReady(g.disk, nd)
           s == saveReadyEntries(g.disk, nd)
           h == [g EXCEPT !.disk = dk]
           q == signalWaiters(h)
           p == publishStatus(q)
<1>1. g \in GroupState /\ g.disk \in DiskState /\ NodeOK(nd)
  BY DEF Drainable, GroupState
<1>2. dk \in DiskState /\ dk.commit = nd.log.committed
  <2>1. s \in DiskState /\ dk \in DiskState
    BY <1>1, SaveReadyType DEF Drainable
  <2>2. dk = [s EXCEPT !.term = nd.term, !.vote = nd.vote, !.commit = nd.log.committed]
    BY DEF SaveReady, saveHardState
  <2> HIDE DEF s
  <2> QED  BY <2>1, <2>2 DEF DiskState
<1> HIDE DEF dk
<1>3. h \in GroupState /\ h.raft = nd /\ h.disk = dk /\ h.waiters = g.waiters
      /\ h.reads = g.reads
  BY <1>1, <1>2 DEF GroupState
<1> DEFINE done == {i \in newlyApplied(nd) : entryAt(nd.log, i).data \in g.waiters}
           w == g.waiters \ {entryAt(nd.log, i).data : i \in done}
           rd == g.reads \ {r.id : r \in readyReadStates(nd)}
<1>4. q.waiters = w /\ q.reads = rd /\ q.disk = dk /\ q.raft = nd /\ DOMAIN q = DOMAIN h
  <2> HIDE DEF h, nd
  <2> QED  BY <1>3 DEF signalWaiters, GroupState
<1>5. DOMAIN h = DOMAIN g /\ "waiters" \in DOMAIN g /\ "reads" \in DOMAIN g
      /\ "disk" \in DOMAIN g
  BY <1>1 DEF GroupState
<1> HIDE DEF h, q
<1>6. p.disk = dk
  BY <1>4, <1>5 DEF publishStatus
<1>7. CASE nd.role = Leader
  <2>1. p.waiters = w /\ p.reads = rd
    BY <1>4, <1>7 DEF publishStatus
  <2>2. \A i \in newlyApplied(nd) : entryAt(nd.log, i).data \notin w
    OBVIOUS
  <2>3. \A r \in readyReadStates(nd) : r.id \notin rd
    OBVIOUS
  <2> QED  BY <1>2, <1>6, <1>7, <2>1, <2>2, <2>3 DEF p, q, h, dk
<1>8. CASE nd.role # Leader
  <2>1. p.waiters = {} /\ p.reads = {}
    BY <1>4, <1>5, <1>8 DEF publishStatus
  <2> QED  BY <1>2, <1>6, <1>8, <2>1 DEF p, q, h, dk
<1> QED  BY <1>7, <1>8

\* Compaction keeps the entries above the new boundary.
LEMMA SnapshotPassed ==
    ASSUME NEW g, Drainable(g), Saved(g)
    PROVE  LET h == maybeSnapshot(g)
           IN  /\ h.waiters = g.waiters /\ h.reads = g.reads
               /\ Compacts(g.raft.log, h.raft.log)
               /\ h.raft.log.applied = g.raft.log.applied
               /\ h.raft.log.committed = g.raft.log.committed
               /\ h.raft.stabled = g.raft.stabled
               /\ h.raft.pendingReads = g.raft.pendingReads
               /\ h.raft.roundReads = g.raft.roundReads
               /\ h.raft.readReady = g.raft.readReady
               /\ g.disk.commit = g.raft.log.committed =>
                     h.disk.commit = h.raft.log.committed
<1> DEFINE nd == g.raft
           l == compactTo(nd.log, nd.log.applied)
           c == [nd EXCEPT !.log = l]
           h == [g EXCEPT !.raft = c, !.disk = Rewrite(c),
                          !.snapAt = c.log.applied, !.flushed = c.log.applied]
<1>1. g \in GroupState /\ NodeOK(nd) /\ nd \in NodeState /\ LogOK(nd.log)
  BY DEF Drainable, NodeOK
<1>2. /\ nd.log.applied \in Nat /\ nd.log.snapIndex \in Nat /\ nd.log.committed \in Nat
      /\ nd.log.snapIndex <= nd.log.applied
  BY <1>1, NodeIndices
<1>3. CASE maybeSnapshot(g) = g
  <2>1. Compacts(nd.log, nd.log)
    BY <1>2, SMTT(300) DEF Compacts
  <2> QED  BY <1>3, <2>1
<1>4. CASE maybeSnapshot(g) = h
  <2>1. /\ lastIndex(l) = lastIndex(nd.log) /\ l.applied = nd.log.applied
        /\ l.committed = nd.log.committed /\ l.snapIndex = nd.log.applied
        /\ \A i \in (nd.log.applied + 1) .. lastIndex(nd.log) :
              l.entries[i - nd.log.applied] = nd.log.entries[i - nd.log.snapIndex]
    BY <1>1, CompactToOK
  <2> HIDE DEF l
  <2>2. Compacts(nd.log, l)
    <3>1. l.snapIndex >= nd.log.snapIndex /\ l.committed >= nd.log.committed
      BY <1>2, <2>1, SMTT(300)
    <3>2. \A i \in (l.snapIndex + 1) .. lastIndex(nd.log) : entryAt(l, i) = entryAt(nd.log, i)
      BY <2>1 DEF entryAt
    <3> QED  BY <3>1, <3>2 DEF Compacts
  <2>3. /\ c.log = l /\ c.stabled = nd.stabled /\ c.pendingReads = nd.pendingReads
        /\ c.roundReads = nd.roundReads /\ c.readReady = nd.readReady
    BY <1>1 DEF NodeState
  <2>4. Rewrite(c).commit = c.log.committed
    BY DEF Rewrite
  <2> HIDE DEF c
  <2>5. /\ h.raft = c /\ h.disk = Rewrite(c) /\ h.waiters = g.waiters
        /\ h.reads = g.reads
    BY <1>1 DEF GroupState
  <2> HIDE DEF h
  <2> QED  BY <1>4, <2>1, <2>2, <2>3, <2>4, <2>5
<1> QED  BY <1>3, <1>4 DEF maybeSnapshot

\* One pass of drainReady.
LEMMA DrainPassPassed ==
    ASSUME NEW g, Drainable(g)
    PROVE  Passed(g, drainPass(g))
<1> DEFINE nd == g.raft
           p == publishStatus(signalWaiters([g EXCEPT !.disk = SaveReady(@, g.raft)]))
           a == Advance(nd)
           h == [p EXCEPT !.raft = a]
           d == maybeSnapshot(h)
<1>1. /\ p \in GroupState /\ p.raft = nd /\ p.disk.snapIndex = g.disk.snapIndex
      /\ p.disk.term = nd.term /\ p.disk.vote = nd.vote
  BY AnswerOK
<1>2. /\ p.disk.commit = nd.log.committed
      /\ p.waiters \subseteq g.waiters /\ p.reads \subseteq g.reads
      /\ nd.role # Leader => p.waiters = {} /\ p.reads = {}
      /\ \A i \in newlyApplied(nd) : entryAt(nd.log, i).data \notin p.waiters
      /\ \A r \in readyReadStates(nd) : r.id \notin p.reads
  BY AnswerPassed
<1>3. drainPass(g) = maybeSnapshot([p EXCEPT !.raft = Advance(@)])
  BY DEF drainPass
<1> HIDE DEF p
<1>4. [p EXCEPT !.raft = Advance(@)] = h
  BY <1>1 DEF GroupState
<1>5. /\ NodeOK(a) /\ a.msgs = {} /\ a.term = nd.term /\ a.vote = nd.vote
      /\ a.log.snapIndex = nd.log.snapIndex /\ lastIndex(a.log) = lastIndex(nd.log)
  BY AdvanceOK DEF Drainable
<1>6. /\ a.log.entries = nd.log.entries
      /\ a.log.committed >= nd.log.committed /\ a.log.applied = applyTo(nd)
      /\ Stable(a) /\ (Stable(nd) => a.log.committed = nd.log.committed)
      /\ a.pendingReads = nd.pendingReads /\ a.roundReads = nd.roundReads
      /\ a.readReady = unservedReads(nd)
  BY AdvancePassed DEF Drainable
<1> HIDE DEF a
<1>7. /\ h \in GroupState /\ h.raft = a /\ h.disk = p.disk /\ h.waiters = p.waiters
      /\ h.reads = p.reads
  <2>1. a \in NodeState
    BY <1>5 DEF NodeOK
  <2> QED  BY <1>1, <2>1 DEF GroupState
<1> HIDE DEF h
<1>8. Drainable(h) /\ Saved(h)
  BY <1>1, <1>5, <1>7 DEF Drainable, Saved
<1>9. /\ d.waiters = h.waiters /\ d.reads = h.reads /\ Compacts(a.log, d.raft.log)
      /\ d.raft.log.applied = a.log.applied /\ d.raft.log.committed = a.log.committed
      /\ d.raft.stabled = a.stabled /\ d.raft.pendingReads = a.pendingReads
      /\ d.raft.roundReads = a.roundReads /\ d.raft.readReady = a.readReady
      /\ h.disk.commit = a.log.committed => d.disk.commit = d.raft.log.committed
  BY <1>7, <1>8, SnapshotPassed
<1>10. lastIndex(d.raft.log) = lastIndex(a.log) /\ NodeOK(d.raft)
  BY <1>7, <1>8, MaybeSnapshotOK DEF Kept, Drainable
<1> HIDE DEF d
<1>11. Compacts(nd.log, d.raft.log)
  <2>1. /\ nd.log.snapIndex \in Nat /\ nd.log.committed \in Nat
        /\ a.log.committed \in Nat /\ d.raft.log.committed \in Nat
    BY <1>5, <1>10, NodeIndices DEF Drainable
  <2>2. \A i : entryAt(a.log, i) = entryAt(nd.log, i)
    BY <1>5, <1>6 DEF entryAt
  <2>3. \A i \in (d.raft.log.snapIndex + 1) .. lastIndex(nd.log) :
           entryAt(d.raft.log, i) = entryAt(nd.log, i)
    BY <1>5, <1>9, <2>2 DEF Compacts
  <2> QED  BY <1>5, <1>6, <1>9, <2>1, <2>3 DEF Compacts
<1>12. Stable(d.raft)
  BY <1>6, <1>9, <1>10 DEF Stable
<1>13. drainPass(g) = d
  BY <1>3, <1>4 DEF d
<1>14. Stable(nd) => /\ d.raft.log.committed = nd.log.committed
                     /\ d.disk.commit = d.raft.log.committed
  BY <1>2, <1>6, <1>7, <1>9
<1> QED  BY <1>2, <1>6, <1>7, <1>9, <1>11, <1>12, <1>13, <1>14 DEF Passed
----------------------------------------------------------------------------
(* drainReady leaves nothing to do *)

\* What holds after the first, and after the second pass.
Flushed(g) == Saved(g) /\ Stable(g.raft)

Caught(g) ==
    /\ Flushed(g)
    /\ g.disk.commit = g.raft.log.committed
    /\ g.raft.log.applied = g.raft.log.committed

\* A stable member that has nothing to apply has applied all it committed.
LEMMA AppliesAll ==
    ASSUME NEW nd, NodeOK(nd), Stable(nd)
    PROVE  /\ applyTo(nd) = nd.log.committed
           /\ (newlyApplied(nd) = {}) <=> (nd.log.applied = nd.log.committed)
<1>1. /\ nd.log.committed \in Nat /\ nd.log.applied \in Nat /\ nd.stabled \in Nat
      /\ lastIndex(nd.log) \in Nat /\ nd.log.applied <= nd.log.committed
      /\ nd.log.committed <= lastIndex(nd.log) /\ lastIndex(nd.log) <= nd.stabled
  BY NodeIndices DEF Stable
<1>2. applyTo(nd) = nd.log.committed
  BY <1>1, SMTT(300) DEF applyTo, maxOf, minOf
<1>3. CASE nd.log.applied = nd.log.committed
  BY <1>1, <1>2, <1>3, SMTT(300) DEF newlyApplied
<1>4. CASE nd.log.applied # nd.log.committed
  <2>1. nd.log.committed \in newlyApplied(nd)
    BY <1>1, <1>2, <1>4, SMTT(300) DEF newlyApplied
  <2> QED  BY <1>4, <1>2, <2>1
<1> QED  BY <1>2, <1>3, <1>4

\* A group with nothing to do is caught up, and has released its reads.
LEMMA IdleCaught ==
    ASSUME NEW g, Drainable(g)
    PROVE  ~ HasReady(g) <=> Caught(g) /\ readyReadStates(g.raft) = {}
<1>1. NodeOK(g.raft)
  BY DEF Drainable
<1>2. (unstable(g.raft) = <<>>) <=> Stable(g.raft)
  BY <1>1, UnstableEmpty
<1>3. Stable(g.raft) => ((newlyApplied(g.raft) = {}) <=>
                           (g.raft.log.applied = g.raft.log.committed))
  BY <1>1, AppliesAll
<1> QED  BY <1>2, <1>3 DEF HasReady, Caught, Flushed, Saved

\* After three passes nothing is left.
LEMMA DrainQuiesces ==
    ASSUME NEW g, Drainable(g)
    PROVE  ~ HasReady(drainReady(g))
<1>1. ASSUME NEW x, Drainable(x)
      PROVE  Flushed(passIfReady(x)) /\ Drainable(passIfReady(x))
  <2>1. CASE HasReady(x)
    <3>1. passIfReady(x) = drainPass(x)
      BY <2>1 DEF passIfReady
    <3> QED  BY <1>1, <3>1, DrainPassOK, DrainPassPassed, SMTT(300) DEF Flushed, Passed
  <2>2. CASE ~ HasReady(x)
    <3>1. passIfReady(x) = x
      BY <2>2 DEF passIfReady
    <3> QED  BY <1>1, <2>2, <3>1, IdleCaught DEF Caught
  <2> QED  BY <2>1, <2>2
<1>2. ASSUME NEW x, Drainable(x), Flushed(x)
      PROVE  Caught(passIfReady(x))
  <2>1. CASE HasReady(x)
    <3> DEFINE h == drainPass(x)
    <3>1. passIfReady(x) = h
      BY <2>1 DEF passIfReady
    <3>2. Passed(x, h)
      BY <1>2, DrainPassPassed
    <3>3. Flushed(h)
      BY <1>1, <1>2, <3>1
    <3> HIDE DEF h
    <3>4. applyTo(x.raft) = x.raft.log.committed
      BY <1>2, AppliesAll DEF Flushed, Drainable
    <3> QED  BY <1>2, <3>1, <3>2, <3>3, <3>4 DEF Passed, Flushed, Caught
  <2>2. CASE ~ HasReady(x)
    <3>1. passIfReady(x) = x
      BY <2>2 DEF passIfReady
    <3> QED  BY <1>2, <2>2, <3>1, IdleCaught
  <2> QED  BY <2>1, <2>2
<1>3. ASSUME NEW x, Drainable(x), Caught(x)
      PROVE  ~ HasReady(passIfReady(x))
  <2>1. CASE HasReady(x)
    <3> DEFINE h == drainPass(x)
    <3>1. passIfReady(x) = h
      BY <2>1 DEF passIfReady
    <3>2. Passed(x, h)
      BY <1>3, DrainPassPassed
    <3>3. Caught(h) /\ Drainable(h)
      BY <1>1, <1>2, <1>3, <3>1 DEF Caught
    <3> HIDE DEF h
    <3>4. h.raft.log.applied = x.raft.log.applied
      BY <1>3, <3>2, AppliesAll DEF Caught, Flushed, Passed, Drainable
    <3>5. readyReadStates(h.raft) = {}
      BY <3>2, <3>4 DEF Passed, readyReadStates, unservedReads
    <3> QED  BY <3>1, <3>3, <3>5, IdleCaught
  <2>2. CASE ~ HasReady(x)
    BY <2>2 DEF passIfReady
  <2> QED  BY <2>1, <2>2
<1> DEFINE p == passIfReady(g)
           q == passIfReady(p)
<1>4. Drainable(p) /\ Flushed(p)
  BY <1>1
<1> HIDE DEF p
<1>5. Drainable(q) /\ Caught(q)
  BY <1>1, <1>2, <1>4
<1> HIDE DEF q
<1>6. ~ HasReady(passIfReady(q))
  BY <1>3, <1>5
<1> QED  BY <1>6 DEF drainReady, q, p
----------------------------------------------------------------------------
(* Whom drainReady leaves waiting *)

\* Value v is in the log and still to be applied.
Awaits(nd, v) ==
    \E i \in (nd.log.applied + 1) .. lastIndex(nd.log) : entryAt(nd.log, i).data = v

\* No read waits for an index that is not committed.
Stampings(nd) == \A r \in Waits(nd) : r.index <= nd.log.committed

\* The read id is in one of the queues of the core.
Queued(nd, id) == \E r \in Waits(nd) : r.id = id

(***************************************************************************)
(* Who waits in a group before drainReady: at a leader every waiter has    *)
(* something to wait for, and a server that does not lead is about to fail *)
(* the waiters it may still have.                                          *)
(***************************************************************************)
Waiting(g) ==
    /\ Stampings(g.raft)
    /\ g.raft.role = Leader => /\ \A v \in g.waiters : Awaits(g.raft, v)
                               /\ \A id \in g.reads : Queued(g.raft, id)
    /\ g.raft.role # Leader => HasReady(g) \/ (g.waiters = {} /\ g.reads = {})

(***************************************************************************)
(* Who waits between two iterations: nobody at a server that does not      *)
(* lead, and no read that the core has already released.                   *)
(***************************************************************************)
Attended(g) ==
    /\ Stampings(g.raft)
    /\ g.raft.role # Leader => g.waiters = {} /\ g.reads = {}
    /\ \A v \in g.waiters : Awaits(g.raft, v)
    /\ g.reads \subseteq {r.id : r \in g.raft.pendingReads \cup g.raft.roundReads}

\* A pass removes only waiters it answered.
LEMMA PassWaiting ==
    ASSUME NEW g, Drainable(g), Waiting(g)
    PROVE  Waiting(passIfReady(g))
<1>1. CASE ~ HasReady(g)
  BY <1>1 DEF passIfReady
<1>2. CASE HasReady(g)
  <2> DEFINE h == drainPass(g)
             a == g.raft
             b == h.raft
  <2>1. passIfReady(g) = h
    BY <1>2 DEF passIfReady
  <2>2. Passed(g, h)
    BY DrainPassPassed
  <2>3. /\ NodeOK(a) /\ NodeOK(b) /\ b.role = a.role
        /\ lastIndex(b.log) = lastIndex(a.log)
    BY DrainPassOK DEF Drainable, Kept
  <2> HIDE DEF h
  <2>4. /\ a.log.committed \in Nat /\ b.log.committed \in Nat
        /\ b.log.committed >= a.log.committed
        /\ \A r \in Waits(a) : r.index \in Nat
    BY <2>2, <2>3, NodeNumbers DEF Passed, Compacts
  <2>5. Waits(b) \subseteq Waits(a)
    BY <2>2 DEF Passed, Waits, unservedReads
  <2>6. Stampings(b)
    BY <2>4, <2>5, SMTT(300) DEF Stampings, Waiting
  <2>7. ASSUME a.role = Leader, NEW v \in h.waiters
        PROVE  Awaits(b, v)
    <3>1. v \in g.waiters
      BY <2>2, <2>7 DEF Passed
    <3>2. PICK i \in (a.log.applied + 1) .. lastIndex(a.log) : entryAt(a.log, i).data = v
      BY <2>7, <3>1 DEF Waiting, Awaits
    <3>3. i \notin newlyApplied(a)
      BY <2>2, <2>7, <3>2 DEF Passed
    <3>4. /\ a.log.applied \in Nat /\ lastIndex(a.log) \in Nat /\ b.log.applied \in Nat
          /\ b.log.snapIndex \in Nat /\ b.log.snapIndex <= b.log.applied
          /\ b.log.applied = applyTo(a)
      BY <2>2, <2>3, NodeIndices DEF Passed
    <3>5. i \in (b.log.applied + 1) .. lastIndex(b.log)
      BY <2>3, <3>3, <3>4, SMTT(300) DEF newlyApplied
    <3>6. i \in (b.log.snapIndex + 1) .. lastIndex(a.log)
      BY <2>3, <3>4, <3>5, SMTT(300)
    <3>7. entryAt(b.log, i) = entryAt(a.log, i)
      BY <2>2, <3>6 DEF Passed, Compacts
    <3> QED  BY <3>2, <3>5, <3>7 DEF Awaits
  <2>8. ASSUME a.role = Leader, NEW id \in h.reads
        PROVE  Queued(b, id)
    <3>1. PICK r \in Waits(a) : r.id = id
      BY <2>2, <2>8 DEF Passed, Waiting, Queued
    <3>2. r \notin readyReadStates(a)
      BY <2>2, <2>8, <3>1 DEF Passed
    <3>3. r \in Waits(b)
      BY <2>2, <3>1, <3>2 DEF Passed, Waits, unservedReads
    <3> QED  BY <3>1, <3>3 DEF Queued
  <2>9. b.role # Leader => h.waiters = {} /\ h.reads = {}
    BY <2>2, <2>3 DEF Passed
  <2> QED  BY <2>1, <2>3, <2>6, <2>7, <2>8, <2>9 DEF Waiting
<1> QED  BY <1>1, <1>2

\* Once nothing is left to do, nobody waits for what was already released.
LEMMA DrainAttends ==
    ASSUME NEW g, Drainable(g), Waiting(g)
    PROVE  Attended(drainReady(g))
<1> DEFINE p == passIfReady(g)
           q == passIfReady(p)
           d == passIfReady(q)
<1>1. Drainable(p) /\ Waiting(p)
  BY PassIfReadyOK, PassWaiting
<1>p. d = drainReady(g)
  BY DEF drainReady
<1> HIDE DEF p
<1>2. Drainable(q) /\ Waiting(q)
  BY <1>1, PassIfReadyOK, PassWaiting
<1> HIDE DEF q
<1>3. Drainable(d) /\ Waiting(d)
  BY <1>2, PassIfReadyOK, PassWaiting
<1> HIDE DEF d
<1>4. ~ HasReady(d)
  BY <1>p, DrainQuiesces
<1>5. Caught(d) /\ readyReadStates(d.raft) = {}
  BY <1>3, <1>4, IdleCaught
<1>6. d.raft.readReady = {}
  <2>1. \A r \in d.raft.readReady : r.index <= d.raft.log.applied
    BY <1>3, <1>5 DEF Waiting, Stampings, Waits, Caught
  <2> QED  BY <1>5, <2>1 DEF readyReadStates
<1>7. d.raft.role # Leader => d.waiters = {} /\ d.reads = {}
  BY <1>3, <1>4 DEF Waiting
<1>8. \A v \in d.waiters : Awaits(d.raft, v)
  BY <1>3, <1>7 DEF Waiting
<1>9. d.reads \subseteq {r.id : r \in d.raft.pendingReads \cup d.raft.roundReads}
  <2>1. ASSUME NEW id \in d.reads
        PROVE  \E r \in d.raft.pendingReads \cup d.raft.roundReads : id = r.id
    BY <1>3, <1>6, <1>7, <2>1 DEF Waiting, Queued, Waits
  <2> QED  BY <2>1
<1> QED  BY <1>p, <1>3, <1>7, <1>8, <1>9 DEF Attended, Waiting
----------------------------------------------------------------------------
(* An iteration of the loop *)

\* Log k holds what log l had committed, as far as it is not compacted away.
CommittedIn(l, k) ==
    /\ k.committed >= l.committed
    /\ \A i \in (k.snapIndex + 1) .. l.committed :
          i > l.snapIndex => entryAt(k, i) = entryAt(l, i)

\* What an iteration of n's loop does for those who wait, and to the log.
Iterates(n) ==
    /\ \A p \in Server \ {n} : group'[p] = group[p]
    /\ ~ group'[n].raft.panicked => Attended(group'[n]) /\ ~ HasReady(group'[n])
    /\ CommittedIn(group[n].raft.log, group'[n].raft.log)
    /\ Server = {n} => net' \subseteq net

\* Passes compact the log and lose nothing else of it.
LEMMA DrainCompacts ==
    ASSUME NEW g, Drainable(g)
    PROVE  Compacts(g.raft.log, drainReady(g).raft.log)
<1>1. ASSUME NEW x, Drainable(x)
      PROVE  /\ Drainable(passIfReady(x)) /\ Compacts(x.raft.log, passIfReady(x).raft.log)
             /\ lastIndex(passIfReady(x).raft.log) = lastIndex(x.raft.log)
  <2>1. CASE HasReady(x)
    <3>1. passIfReady(x) = drainPass(x)
      BY <2>1 DEF passIfReady
    <3> QED  BY <1>1, <3>1, DrainPassOK, DrainPassPassed, SMTT(300) DEF Passed, Kept
  <2>2. CASE ~ HasReady(x)
    <3>1. passIfReady(x) = x
      BY <2>2 DEF passIfReady
    <3>2. x.raft.log.snapIndex \in Nat /\ x.raft.log.committed \in Nat
      BY <1>1, NodeIndices DEF Drainable
    <3> QED  BY <1>1, <3>1, <3>2, SMTT(300) DEF Compacts
  <2> QED  BY <2>1, <2>2
<1>2. ASSUME NEW x, NEW y, NEW z, Drainable(x), Drainable(y), Drainable(z),
             Compacts(x.raft.log, y.raft.log), Compacts(y.raft.log, z.raft.log),
             lastIndex(y.raft.log) = lastIndex(x.raft.log)
      PROVE  Compacts(x.raft.log, z.raft.log)
  <2> DEFINE l == x.raft.log
             k == y.raft.log
             j == z.raft.log
  <2>1. /\ l.snapIndex \in Nat /\ k.snapIndex \in Nat /\ j.snapIndex \in Nat
        /\ l.committed \in Nat /\ k.committed \in Nat /\ j.committed \in Nat
        /\ lastIndex(l) \in Nat /\ lastIndex(k) = lastIndex(l)
        /\ Compacts(l, k) /\ Compacts(k, j)
    BY <1>2, NodeIndices DEF Drainable
  <2> HIDE DEF l, k, j
  <2>2. ASSUME NEW i \in (j.snapIndex + 1) .. lastIndex(l)
        PROVE  entryAt(j, i) = entryAt(l, i)
    <3>1. i \in (k.snapIndex + 1) .. lastIndex(l)
      BY <2>1, <2>2, SMTT(300) DEF Compacts
    <3> QED  BY <2>1, <2>2, <3>1 DEF Compacts
  <2>3. j.snapIndex >= l.snapIndex /\ j.committed >= l.committed
    BY <2>1, SMTT(300) DEF Compacts
  <2>4. Compacts(l, j)
    BY <2>2, <2>3 DEF Compacts
  <2> QED  BY <2>4 DEF l, j
<1> DEFINE p == passIfReady(g)
           q == passIfReady(p)
           d == passIfReady(q)
<1>p. d = drainReady(g)
  BY DEF drainReady
<1>3. Drainable(p) /\ Compacts(g.raft.log, p.raft.log)
      /\ lastIndex(p.raft.log) = lastIndex(g.raft.log)
  BY <1>1
<1> HIDE DEF p
<1>4. Drainable(q) /\ Compacts(p.raft.log, q.raft.log)
      /\ lastIndex(q.raft.log) = lastIndex(p.raft.log)
  BY <1>1, <1>3
<1> HIDE DEF q
<1>5. Drainable(d) /\ Compacts(q.raft.log, d.raft.log)
  BY <1>1, <1>4
<1> HIDE DEF d
<1>6. Compacts(g.raft.log, q.raft.log)
  BY <1>2, <1>3, <1>4
<1>7. lastIndex(q.raft.log) = lastIndex(g.raft.log)
  BY <1>3, <1>4
<1> QED  BY <1>p, <1>2, <1>4, <1>5, <1>6, <1>7

\* The committed part of the log survives a handler and the draining after it.
LEMMA DrainedCommitted ==
    ASSUME NEW a, NEW b, NEW c, NodeOK(a), NodeOK(b), NodeOK(c), Settled(a, b),
           Keeps(a, b), Compacts(b.log, c.log)
    PROVE  CommittedIn(a.log, c.log)
<1>1. /\ a.log.committed \in Nat /\ b.log.committed \in Nat /\ c.log.committed \in Nat
      /\ a.log.snapIndex \in Nat /\ c.log.snapIndex \in Nat /\ lastIndex(b.log) \in Nat
      /\ b.log.committed <= lastIndex(b.log)
      /\ b.log.committed >= a.log.committed /\ c.log.committed >= b.log.committed
      /\ b.log.snapIndex = a.log.snapIndex
  BY NodeIndices DEF Keeps, Compacts, Settled
<1>2. ASSUME NEW i \in (c.log.snapIndex + 1) .. a.log.committed, i > a.log.snapIndex
      PROVE  entryAt(c.log, i) = entryAt(a.log, i)
  <2>1. /\ i \in (c.log.snapIndex + 1) .. lastIndex(b.log)
        /\ i - a.log.snapIndex \in 1 .. a.log.committed - a.log.snapIndex
    BY <1>1, <1>2, SMTT(300)
  <2>2. entryAt(c.log, i) = entryAt(b.log, i)
    BY <2>1 DEF Compacts
  <2>3. b.log.entries[i - a.log.snapIndex] = a.log.entries[i - a.log.snapIndex]
    BY <2>1 DEF Keeps
  <2>4. entryAt(b.log, i) = entryAt(a.log, i)
    BY <1>1, <2>3 DEF entryAt
  <2> QED  BY <2>2, <2>4
<1>3. c.log.committed >= a.log.committed
  BY <1>1, SMTT(300)
<1> QED  BY <1>2, <1>3 DEF CommittedIn

\* A panic loses nothing: the process is gone before it touches a file.
LEMMA PanicIterates ==
    ASSUME TypeInv, NEW n \in Server, ~ group[n].raft.panicked,
           NEW pending \in SUBSET net, NEW transfers, Panic(n, pending, transfers)
    PROVE  Iterates(n)
<1> DEFINE q == [group[n].raft EXCEPT !.panicked = TRUE]
           h == [group[n] EXCEPT !.raft = q]
<1>1. /\ group \in [Server -> GroupState] /\ group[n] \in GroupState
      /\ group[n].raft \in NodeState
  BY DEF TypeInv, TypeOK, GroupState
<1>2. group' = [group EXCEPT ![n] = h]
  BY <1>1 DEF Panic, GroupState, NodeState
<1>3. q.panicked /\ q.log = group[n].raft.log
  BY <1>1 DEF NodeState
<1> HIDE DEF q
<1>4. h.raft = q
  BY <1>1 DEF GroupState
<1> HIDE DEF h
<1>5. /\ group'[n] = h /\ \A p \in Server \ {n} : group'[p] = group[p]
      /\ net' \subseteq net
  BY <1>1, <1>2 DEF Panic
<1>6. group[n].raft.log.committed \in Nat
  BY <1>1 DEF NodeState, LogState
<1>7. CommittedIn(group[n].raft.log, group'[n].raft.log)
  BY <1>3, <1>4, <1>5, <1>6, SMTT(300) DEF CommittedIn
<1> QED  BY <1>3, <1>4, <1>5, <1>7 DEF Iterates

\* An iteration that drains its Ready.
LEMMA DrainedIterates ==
    ASSUME TypeInv, NEW n \in Server, NEW g, NEW S, NEW pending \in SUBSET net,
           NEW transfers, ~ group[n].raft.panicked, Entered(n, g, S), Waiting(g),
           Server = {n} => g.raft.msgs = {},
           Drained(n, g, drainReady(g), pending, transfers)
    PROVE  Iterates(n)
<1> DEFINE d == drainReady(g)
           h == [d EXCEPT !.acks = {}, !.signalled = {}]
<1>1. Drainable(g) /\ NodeOK(g.raft) /\ NodeOK(group[n].raft)
  BY DEF TypeInv, GroupInv, Drainable, Entered, Elect, Settled
<1>2. Drainable(d) /\ Attended(d) /\ ~ HasReady(d) /\ Compacts(g.raft.log, d.raft.log)
  <2>1. Drainable(d)
    BY <1>1, DrainReadyOK
  <2>2. Attended(d)
    BY <1>1, DrainAttends
  <2>3. ~ HasReady(d)
    BY <1>1, DrainQuiesces
  <2>4. Compacts(g.raft.log, d.raft.log)
    BY <1>1, DrainCompacts
  <2> QED  BY <2>1, <2>2, <2>3, <2>4
<1>3. group' = [group EXCEPT ![n] = h]
  BY DEF Drained
<1>4. Server = {n} => net' \subseteq net
  BY DEF Drained
<1> HIDE DEF d
<1>5. group \in [Server -> GroupState] /\ d \in GroupState /\ NodeOK(d.raft)
  BY <1>2 DEF TypeInv, TypeOK, Drainable
<1>6. h.raft = d.raft /\ h.disk = d.disk /\ h.waiters = d.waiters /\ h.reads = d.reads
  BY <1>5 DEF GroupState
<1> HIDE DEF h
<1>7. group'[n] = h /\ \A p \in Server \ {n} : group'[p] = group[p]
  BY <1>3, <1>5
<1>8. Attended(h) /\ ~ HasReady(h)
  <2>1. Attended(h)
    BY <1>2, <1>6 DEF Attended
  <2>2. ~ HasReady(h)
    BY <1>2, <1>6 DEF HasReady
  <2> QED  BY <2>1, <2>2
<1>9. CommittedIn(group[n].raft.log, d.raft.log)
  <2>1. Settled(group[n].raft, g.raft) /\ Keeps(group[n].raft, g.raft)
    BY DEF Entered, Elect
  <2> QED  BY <1>1, <1>2, <1>5, <2>1, DrainedCommitted
<1> QED  BY <1>4, <1>6, <1>7, <1>8, <1>9 DEF Iterates

\* Both ways an iteration can end.
LEMMA LoopIterates ==
    ASSUME TypeInv, NEW n \in Server, NEW g, NEW S, NEW pending \in SUBSET net,
           NEW transfers, ~ group[n].raft.panicked, Entered(n, g, S),
           g.raft.panicked \/ Waiting(g), Server = {n} => g.raft.msgs = {},
           Loop(n, g, pending, transfers)
    PROVE  Iterates(n)
<1>1. CASE Panic(n, pending, transfers)
  BY <1>1, PanicIterates
<1>2. CASE ~ g.raft.panicked /\ Drained(n, g, drainReady(g), pending, transfers)
  BY <1>2, DrainedIterates
<1> QED  BY <1>1, <1>2 DEF Loop
----------------------------------------------------------------------------
(* The select cases *)

\* The waiters of a server that did not lead: there are none.
LEMMA FollowerWaits ==
    ASSUME NEW g, NEW h, Attended(g), NodeOK(g.raft), NodeOK(h.raft), g.raft.role # Leader,
           Keeps(g.raft, h.raft), h.waiters = g.waiters, h.reads = g.reads
    PROVE  Waiting(h)
<1>1. /\ g.raft.log.committed \in Nat /\ h.raft.log.committed \in Nat
      /\ h.raft.log.committed >= g.raft.log.committed
      /\ \A r \in Waits(g.raft) : r.index \in Nat /\ r.index <= g.raft.log.committed
  BY NodeNumbers DEF Keeps, Attended, Stampings
<1>2. Stampings(h.raft)
  BY <1>1, SMTT(300) DEF Stampings, Keeps, Stamped
<1>3. h.waiters = {} /\ h.reads = {}
  BY DEF Attended
<1> QED  BY <1>2, <1>3 DEF Waiting

\* The waiters of a leader that stepped down and has something to save or send.
LEMMA DeposedWaits ==
    ASSUME NEW g, NEW h, Attended(g), NodeOK(g.raft), NodeOK(h.raft), h.raft.role # Leader,
           Keeps(g.raft, h.raft), HasReady(h)
    PROVE  Waiting(h)
<1>1. /\ g.raft.log.committed \in Nat /\ h.raft.log.committed \in Nat
      /\ h.raft.log.committed >= g.raft.log.committed
      /\ \A r \in Waits(g.raft) : r.index \in Nat /\ r.index <= g.raft.log.committed
  BY NodeNumbers DEF Keeps, Attended, Stampings
<1>2. Stampings(h.raft)
  BY <1>1, SMTT(300) DEF Stampings, Keeps, Stamped
<1> QED  BY <1>2 DEF Waiting

\* The waiters of a leader that goes on leading.
LEMMA LeaderWaits ==
    ASSUME NEW g, NEW h, Attended(g), NodeOK(g.raft), h.raft.role = Leader,
           Settled(g.raft, h.raft), Steady(g.raft, h.raft),
           \A v \in h.waiters : v \in g.waiters \/ Awaits(h.raft, v),
           \A id \in h.reads : id \in g.reads \/ Queued(h.raft, id)
    PROVE  Waiting(h)
<1> DEFINE a == g.raft
           b == h.raft
<1>1. /\ NodeOK(a) /\ NodeOK(b) /\ b.log.snapIndex = a.log.snapIndex
      /\ b.log.applied = a.log.applied
  BY DEF Settled
<1>2. /\ a.log.committed \in Nat /\ b.log.committed \in Nat
      /\ b.log.committed >= a.log.committed
      /\ \A r \in Waits(a) : r.index \in Nat /\ r.index <= a.log.committed
  BY <1>1, NodeNumbers DEF Steady, Extends, Attended, Stampings
<1>3. Stampings(b)
  BY <1>2, SMTT(300) DEF Stampings, Steady, Stamped
<1>4. ASSUME NEW v \in g.waiters PROVE Awaits(b, v)
  <2>1. PICK i \in (a.log.applied + 1) .. lastIndex(a.log) : entryAt(a.log, i).data = v
    BY <1>4 DEF Attended, Awaits
  <2>2. /\ a.log.snapIndex \in Nat /\ a.log.applied \in Nat /\ Len(a.log.entries) \in Nat
        /\ a.log.snapIndex <= a.log.applied /\ Len(b.log.entries) \in Nat
        /\ Len(b.log.entries) >= Len(a.log.entries)
        /\ lastIndex(a.log) = a.log.snapIndex + Len(a.log.entries)
        /\ lastIndex(b.log) = a.log.snapIndex + Len(b.log.entries)
    <3>1. /\ a.log.snapIndex \in Nat /\ a.log.applied \in Nat
          /\ a.log.snapIndex <= a.log.applied
      BY <1>1, NodeIndices
    <3>2. Len(a.log.entries) \in Nat /\ Len(b.log.entries) \in Nat
      BY <1>1, NodeNumbers
    <3>3. Len(b.log.entries) >= Len(a.log.entries)
      BY DEF Steady, Extends
    <3> QED  BY <1>1, <3>1, <3>2, <3>3 DEF lastIndex
  <2> HIDE DEF a, b
  <2>3. i - a.log.snapIndex \in 1 .. Len(a.log.entries)
    BY <2>2, SMTT(300)
  <2>4. b.log.entries[i - a.log.snapIndex] = a.log.entries[i - a.log.snapIndex]
    BY <2>3 DEF Steady, Extends, a, b
  <2>5. entryAt(b.log, i) = entryAt(a.log, i)
    BY <1>1, <2>4 DEF entryAt
  <2>6. i \in (b.log.applied + 1) .. lastIndex(b.log)
    BY <1>1, <2>2, SMTT(300)
  <2> QED  BY <2>1, <2>5, <2>6 DEF Awaits, a, b
<1>5. ASSUME NEW id \in g.reads PROVE Queued(b, id)
  <2>1. PICK r \in a.pendingReads \cup a.roundReads : id = r.id
    BY <1>5 DEF Attended
  <2>2. r \in Waits(b)
    BY <2>1 DEF Steady, Waits
  <2> QED  BY <2>1, <2>2 DEF Queued
<1> QED  BY <1>3, <1>4, <1>5 DEF Waiting
----------------------------------------------------------------------------
(* The steps of running groups *)

\* Who waits where, between two iterations, and that a server alone hears nothing.
WaitInv ==
    /\ \A n \in Server : ~ group[n].raft.panicked => Attended(group[n])
    /\ \A n \in Server : Server = {n} => net = {}

\* A server that is its own quorum is alone.
OwnQuorum == \A n \in Server : Cardinality({n}) >= quorum => Server = {n}

\* The checkpoint of a transfer changes nothing that anybody waits for.
LEMMA TakeIterates ==
    ASSUME TypeInv, WaitInv, NEW s \in snaps, TakeSnapshot(s)
    PROVE  \E n \in Server : Iterates(n)
<1> DEFINE n == s.from
           r == group[n].raft
           f == r.log.applied
           T == (snaps \ {s}) \cup {[s EXCEPT !.taken = TRUE, !.index = r.log.applied,
                                             !.snapTerm = termAt(r.log, r.log.applied)]}
           w == group[n].waiters
           rd == group[n].reads
           g == [group[n] EXCEPT !.raft = r, !.waiters = w, !.reads = rd, !.flushed = f]
<1>1. n \in Server /\ ~ r.panicked /\ Loop(n, [group[n] EXCEPT !.flushed = f], net, T)
  BY DEF TypeInv, TypeOK, TakeSnapshot
<1>2. group[n] \in GroupState /\ w \in SUBSET Value /\ rd \in SUBSET ReadId
  BY <1>1 DEF TypeInv, TypeOK, GroupState
<1>3. NodeOK(r) /\ r.msgs = {} /\ Attended(group[n])
  BY <1>1 DEF TypeInv, GroupInv, WaitInv
<1>4. f \in Nat /\ Quiet(r, r) /\ Elect(r, r, {})
  BY <1>3, NodeIndices, QuietReflexive, QuietElect
<1>5. g = [group[n] EXCEPT !.flushed = f]
  BY <1>2 DEF GroupState
<1>6. g.raft = r /\ g.waiters = w /\ g.reads = rd
  BY <1>2 DEF GroupState
<1> HIDE DEF T, f
<1>7. Entered(n, g, {})
  <2> HIDE DEF w, rd
  <2> QED  BY <1>1, <1>2, <1>4, EnterStep
<1>8. Loop(n, g, net, T)
  BY <1>1, <1>5
<1> HIDE DEF g
<1>9. Waiting(g)
  <2>0. Settled(r, r) /\ Steady(r, r) /\ Keeps(r, r)
    BY <1>4 DEF Quiet, Elect
  <2>1. CASE r.role = Leader
    BY <1>3, <1>6, <2>0, <2>1, LeaderWaits
  <2>2. CASE r.role # Leader
    BY <1>3, <1>6, <2>0, <2>2, FollowerWaits
  <2> QED  BY <2>1, <2>2
<1> HIDE DEF n
<1> QED  BY <1>1, <1>3, <1>6, <1>7, <1>8, <1>9, LoopIterates

\* What a select case hands to the loop.
LEMMA CaseEntered ==
    ASSUME TypeInv, NEW n \in Server, NEW b, NEW S, Elect(group[n].raft, b, S),
           NEW w \in SUBSET Value, NEW rd \in SUBSET ReadId
    PROVE  Entered(n, [group[n] EXCEPT !.raft = b, !.waiters = w, !.reads = rd], S)
<1> DEFINE f == group[n].flushed
           g == [group[n] EXCEPT !.raft = b, !.waiters = w, !.reads = rd]
           h == [group[n] EXCEPT !.raft = b, !.waiters = w, !.reads = rd, !.flushed = f]
<1>1. group[n] \in GroupState /\ f \in Nat
  BY DEF TypeInv, TypeOK, GroupState
<1>2. h = g
  BY <1>1 DEF GroupState
<1>3. Entered(n, h, S)
  <2> HIDE DEF f
  <2> QED  BY <1>1, EnterStep
<1> HIDE DEF g, h
<1>4. Entered(n, g, S)
  BY <1>2, <1>3
<1> QED  BY <1>4 DEF g

\* A message, whether or not the server that handles it leads.
LEMMA ReceiveIterates ==
    ASSUME TypeInv, WaitInv, OwnQuorum, NEW m \in net, Receive(m)
    PROVE  \E n \in Server : Iterates(n)
<1> DEFINE n == m.to
           r == group[n].raft
           b == Step(r, m)
           w == group[n].waiters
           rd == group[n].reads
           g == [group[n] EXCEPT !.raft = b, !.waiters = w, !.reads = rd]
<1>1. m \in Message /\ n \in Server /\ m.type # MsgSnap
  BY DEF TypeInv, TypeOK, Message
<1>2. PICK pending \in SUBSET net :
          Loop(n, [group[n] EXCEPT !.raft = Step(@, m)], pending, snaps)
  BY DEF Receive
<1>3. ~ r.panicked
  BY DEF Receive
<1>4. /\ NodeOK(r) /\ Grants(r.msgs) = {} /\ r.id = n /\ r.term = group[n].disk.term
      /\ Attended(group[n])
  BY <1>1, <1>3 DEF TypeInv, GroupInv, Grants, WaitInv
<1>5. Elect(r, b, {m})
  BY <1>1, <1>4, StepElect
<1>6. group[n] \in GroupState /\ w \in SUBSET Value /\ rd \in SUBSET ReadId
  BY <1>1 DEF TypeInv, TypeOK, GroupState
<1>7. Server # {n}
  BY <1>1 DEF WaitInv
<1>8. r.role = Leader => Leads(r, b)
  BY <1>1, <1>4, StepLeads
<1>9. Loop(n, g, pending, snaps)
  <2>1. g = [group[n] EXCEPT !.raft = Step(@, m)]
    BY <1>6 DEF GroupState
  <2> QED  BY <1>2, <2>1
<1> HIDE DEF b, w, rd
<1>10. /\ g.raft = b /\ g.waiters = w /\ g.reads = rd /\ g.disk = group[n].disk
  BY <1>6 DEF GroupState
<1> HIDE DEF g
<1>11. b.panicked \/ Waiting(g)
  <2>0. /\ Keeps(r, b) /\ Settled(r, b) /\ NodeOK(b) /\ g.waiters = group[n].waiters
        /\ g.reads = group[n].reads
    <3>1. Keeps(r, b) /\ Settled(r, b)
      BY <1>5 DEF Elect
    <3>2. NodeOK(b)
      BY <3>1 DEF Settled
    <3>3. g.waiters = group[n].waiters /\ g.reads = group[n].reads
      BY <1>10 DEF w, rd
    <3> QED  BY <3>1, <3>2, <3>3
  <2>1. CASE r.role # Leader
    BY <1>4, <1>10, <2>0, <2>1, FollowerWaits
  <2>2. CASE b.role = Leader /\ Steady(r, b)
    BY <1>4, <1>10, <2>0, <2>2, LeaderWaits
  <2>3. CASE b.role # Leader /\ (b.msgs # {} \/ b.term > r.term)
    <3>1. r.term \in Nat /\ b.term \in Nat
      <4>1. r \in NodeState /\ b \in NodeState
        BY <1>4, <2>0 DEF NodeOK
      <4> QED  BY <4>1 DEF NodeState
    <3>2. HasReady(g)
      BY <1>4, <1>10, <2>3, <3>1, SMTT(300) DEF HasReady
    <3> QED  BY <1>4, <1>10, <2>0, <2>3, <3>2, DeposedWaits
  <2>4. ~ (Cardinality({r.id}) >= quorum)
    BY <1>1, <1>4, <1>7 DEF OwnQuorum
  <2> QED  BY <1>8, <2>1, <2>2, <2>3, <2>4 DEF Leads
<1>12. Entered(n, g, {m})
  BY <1>1, <1>5, <1>6, CaseEntered DEF g
<1> HIDE DEF n
<1>13. /\ g.raft.panicked \/ Waiting(g)
       /\ Server = {n} => g.raft.msgs = {}
  BY <1>7, <1>10, <1>11
<1> QED  BY <1>1, <1>3, <1>9, <1>12, <1>13, LoopIterates

\* A proposal waits for the entry it appended.
LEMMA ProposeAwaits ==
    ASSUME NEW r, NodeOK(r), NEW v \in Value
    PROVE  Awaits(handlePropose(r, v), v)
<1> DEFINE b == handlePropose(r, v)
           i == lastIndex(r.log) + 1
<1>1. /\ Quiet(r, b) /\ Len(b.log.entries) > Len(r.log.entries)
      /\ b.log.entries[Len(r.log.entries) + 1].data = v
  BY ProposeQuiet
<1> HIDE DEF b
<1>2. NodeOK(b) /\ b.log.snapIndex = r.log.snapIndex /\ b.log.applied = r.log.applied
  BY <1>1 DEF Quiet, Settled
<1>3. /\ r.log.snapIndex \in Nat /\ Len(r.log.entries) \in Nat
      /\ Len(b.log.entries) \in Nat
  BY <1>2, NodeNumbers
<1>4. r.log.applied \in Nat /\ r.log.applied <= lastIndex(r.log)
  <2>1. /\ r.log.applied \in Nat /\ r.log.committed \in Nat /\ lastIndex(r.log) \in Nat
        /\ r.log.applied <= r.log.committed /\ r.log.committed <= lastIndex(r.log)
    BY NodeIndices DEF NodeOK, LogOK
  <2> QED  BY <2>1, SMTT(300)
<1>5. /\ lastIndex(r.log) = r.log.snapIndex + Len(r.log.entries)
      /\ lastIndex(b.log) = r.log.snapIndex + Len(b.log.entries)
  BY <1>2 DEF lastIndex
<1>6. /\ i \in (b.log.applied + 1) .. lastIndex(b.log)
      /\ i - b.log.snapIndex = Len(r.log.entries) + 1
  <2>1. /\ b.log.snapIndex = r.log.snapIndex /\ b.log.applied = r.log.applied
        /\ Len(b.log.entries) > Len(r.log.entries)
    BY <1>1, <1>2
  <2>2. ASSUME NEW s \in Nat, NEW x \in Nat, NEW y \in Nat, NEW p \in Nat,
               y > x, p <= s + x
        PROVE  s + x + 1 \in (p + 1) .. (s + y) /\ s + x + 1 - s = x + 1
    BY <2>2, SMTT(300)
  <2>3. r.log.applied <= r.log.snapIndex + Len(r.log.entries)
    BY <1>4, <1>5
  <2>4. /\ r.log.snapIndex + Len(r.log.entries) + 1
               \in (r.log.applied + 1) .. (r.log.snapIndex + Len(b.log.entries))
        /\ r.log.snapIndex + Len(r.log.entries) + 1 - r.log.snapIndex = Len(r.log.entries) + 1
    BY <2>1, <2>2, <2>3, <1>3, <1>4
  <2>5. i = r.log.snapIndex + Len(r.log.entries) + 1
    BY <1>5
  <2> HIDE DEF i
  <2>6. i - b.log.snapIndex = Len(r.log.entries) + 1
    BY <2>1, <2>5, <1>3, SMTT(300)
  <2>7. i \in (r.log.applied + 1) .. (r.log.snapIndex + Len(b.log.entries))
    BY <2>4, <2>5
  <2>8. i \in (b.log.applied + 1) .. lastIndex(b.log)
    BY <2>1, <2>7, <1>5
  <2> QED  BY <2>6, <2>8
<1>7. entryAt(b.log, i).data = v
  BY <1>1, <1>6 DEF entryAt
<1> HIDE DEF i
<1>8. Awaits(b, v)
  BY <1>6, <1>7 DEF Awaits
<1> QED  BY <1>8 DEF b

\* Every step of running groups is an iteration of one loop, or ends a transfer.
LEMMA RunIterates ==
    ASSUME TypeInv, WaitInv, OwnQuorum, RunNext
    PROVE  (\E n \in Server : Iterates(n)) \/ (group' = group /\ net' = net)
<1>0. \A n \in Server : /\ group[n] \in GroupState
                         /\ group[n].waiters \in SUBSET Value
                         /\ group[n].reads \in SUBSET ReadId
  BY DEF TypeInv, TypeOK, GroupState
<1>1. ASSUME NEW n \in Server, ~ group[n].raft.panicked
      PROVE  /\ NodeOK(group[n].raft) /\ Grants(group[n].raft.msgs) = {}
             /\ group[n].raft.id = n /\ group[n].raft.msgs = {}
             /\ group[n].raft \in NodeState /\ Attended(group[n])
  BY <1>1 DEF TypeInv, GroupInv, Grants, WaitInv, NodeOK
<1>e. ASSUME NEW n \in Server, NEW b
      PROVE  [group[n] EXCEPT !.raft = b] =
                 [group[n] EXCEPT !.raft = b, !.waiters = group[n].waiters,
                                  !.reads = group[n].reads]
  BY <1>0 DEF GroupState
<1>2. ASSUME NEW n \in Server, ~ group[n].raft.panicked, NEW b,
             Quiet(group[n].raft, b), group[n].raft.role = Leader,
             Server = {n} => b.msgs = {},
             Loop(n, [group[n] EXCEPT !.raft = b], net, snaps)
      PROVE  Iterates(n)
  <2> DEFINE w == group[n].waiters
             rd == group[n].reads
             g == [group[n] EXCEPT !.raft = b, !.waiters = w, !.reads = rd]
  <2>0. group[n] \in GroupState /\ g = [group[n] EXCEPT !.raft = b]
    BY <1>0, <1>e
  <2>1. g.raft = b /\ g.waiters = w /\ g.reads = rd
    BY <2>0 DEF GroupState
  <2>2. w \in SUBSET Value /\ rd \in SUBSET ReadId
    BY <1>0
  <2>3. Elect(group[n].raft, b, {})
    BY <1>2, QuietElect
  <2>4. Entered(n, g, {})
    BY <2>2, <2>3, CaseEntered
  <2> HIDE DEF g
  <2>6. Loop(n, g, net, snaps)
    BY <1>2, <2>0
  <2>5. Waiting(g)
    BY <1>1, <1>2, <2>1, LeaderWaits DEF Quiet
  <2> HIDE DEF w, rd
  <2>7. Server = {n} => g.raft.msgs = {}
    BY <1>2, <2>1
  <2> QED  BY <1>2, <2>4, <2>5, <2>6, <2>7, LoopIterates
<1>3. ASSUME NEW n \in Server, Timeout(n)
      PROVE  Iterates(n)
  <2> DEFINE b == Campaign(group[n].raft)
             w == group[n].waiters
             rd == group[n].reads
             g == [group[n] EXCEPT !.raft = b, !.waiters = w, !.reads = rd]
  <2>1. ~ group[n].raft.panicked /\ group[n].raft.role # Leader
        /\ Loop(n, [group[n] EXCEPT !.raft = Campaign(@)], net, snaps)
    BY <1>3 DEF Timeout
  <2>2. Elect(group[n].raft, b, {}) /\ (Server = {n} => b.msgs = {})
    BY <1>1, <2>1, CampaignElect, AloneCampaign, SMTT(300)
  <2>3. Loop(n, [group[n] EXCEPT !.raft = b], net, snaps)
    BY <2>1
  <2> HIDE DEF b
  <2>0. group[n] \in GroupState /\ g = [group[n] EXCEPT !.raft = b]
    BY <1>0, <1>e
  <2>4. g.raft = b /\ g.waiters = w /\ g.reads = rd
    BY <2>0 DEF GroupState
  <2>5. w \in SUBSET Value /\ rd \in SUBSET ReadId
    BY <1>0
  <2>6. Entered(n, g, {})
    BY <2>2, <2>5, CaseEntered
  <2> HIDE DEF g
  <2>8. Loop(n, g, net, snaps)
    BY <2>3, <2>0
  <2>7. Waiting(g)
    BY <1>1, <2>1, <2>2, <2>4, FollowerWaits DEF Elect, Settled
  <2> HIDE DEF w, rd
  <2>9. Server = {n} => g.raft.msgs = {}
    BY <2>2, <2>4
  <2> QED  BY <2>1, <2>6, <2>7, <2>8, <2>9, LoopIterates
<1>4. ASSUME NEW n \in Server, Heartbeat(n)
      PROVE  Iterates(n)
  <2>1. ~ group[n].raft.panicked /\ group[n].raft.role = Leader
        /\ Loop(n, [group[n] EXCEPT !.raft = bcastHeartbeat(@)], net, snaps)
    BY <1>4 DEF Heartbeat
  <2>2. /\ Quiet(group[n].raft, bcastHeartbeat(group[n].raft))
        /\ Server = {n} => bcastHeartbeat(group[n].raft).msgs = {}
    BY <1>1, <2>1, BcastHeartbeatQuiet, AloneHeartbeat
  <2>3. Loop(n, [group[n] EXCEPT !.raft = bcastHeartbeat(group[n].raft)], net, snaps)
    BY <2>1
  <2> QED  BY <1>2, <2>1, <2>2, <2>3
<1>5. ASSUME NEW n \in Server, NEW v \in Value, Propose(n, v)
      PROVE  Iterates(n)
  <2> DEFINE r == group[n].raft
             b == handlePropose(r, v)
             w == group[n].waiters \cup {v}
             rd == group[n].reads
             g == [group[n] EXCEPT !.raft = b, !.waiters = w, !.reads = rd]
  <2>1. ~ r.panicked /\ r.role = Leader
        /\ Loop(n, [group[n] EXCEPT !.raft = handlePropose(@, v),
                                    !.waiters = @ \cup {v}], net, snaps)
    BY <1>5 DEF Propose, canPropose
  <2>2. Quiet(r, b) /\ (Server = {n} => b.msgs = {})
    BY <1>1, <2>1, ProposeQuiet, AlonePropose, SMTT(300)
  <2>8. Awaits(b, v)
    BY <1>1, <2>1, ProposeAwaits
  <2>3. g = [group[n] EXCEPT !.raft = handlePropose(@, v), !.waiters = @ \cup {v}]
    BY <1>0 DEF GroupState
  <2>4. w \in SUBSET Value /\ rd \in SUBSET ReadId
    BY <1>0
  <2> HIDE DEF b
  <2>5. g.raft = b /\ g.waiters = w /\ g.reads = rd
    <3>1. group[n] \in GroupState
      BY <1>0
    <3> QED  BY <3>1 DEF GroupState
  <2>a. Loop(n, g, net, snaps)
    BY <2>1, <2>3
  <2>6. Elect(r, b, {}) /\ b.role = Leader
    BY <2>1, <2>2, QuietElect DEF Quiet
  <2>7. Entered(n, g, {})
    BY <2>4, <2>6, CaseEntered
  <2> HIDE DEF g
  <2>9. Waiting(g)
    BY <1>1, <2>1, <2>2, <2>5, <2>6, <2>8, LeaderWaits, SMTT(300) DEF Quiet
  <2> HIDE DEF w, rd
  <2>b. Server = {n} => g.raft.msgs = {}
    BY <2>2, <2>5
  <2> QED  BY <2>1, <2>7, <2>9, <2>a, <2>b, LoopIterates
<1>6. ASSUME NEW n \in Server, NEW id \in ReadId, RequestRead(n, id)
      PROVE  Iterates(n)
  <2> DEFINE r == group[n].raft
             b == ReadIndex(r, id)
             w == group[n].waiters
             rd == group[n].reads \cup {id}
             g == [group[n] EXCEPT !.raft = b, !.waiters = w, !.reads = rd]
  <2>1. ~ r.panicked /\ r.role = Leader
        /\ Loop(n, [group[n] EXCEPT !.raft = ReadIndex(@, id),
                                    !.reads = @ \cup {id}], net, snaps)
    BY <1>6 DEF RequestRead, canRead
  <2>2. /\ Quiet(r, b) /\ \E x \in Waits(b) : x.id = id
        /\ Server = {n} => b.msgs = {}
    BY <1>1, <2>1, ReadIndexQuiet, AloneRead, SMTT(300)
  <2>3. g = [group[n] EXCEPT !.raft = ReadIndex(@, id), !.reads = @ \cup {id}]
    BY <1>0 DEF GroupState
  <2>4. w \in SUBSET Value /\ rd \in SUBSET ReadId
    BY <1>0
  <2> HIDE DEF b
  <2>5. g.raft = b /\ g.waiters = w /\ g.reads = rd
    <3>1. group[n] \in GroupState
      BY <1>0
    <3> QED  BY <3>1 DEF GroupState
  <2>a. Loop(n, g, net, snaps)
    BY <2>1, <2>3
  <2>6. Elect(r, b, {}) /\ b.role = Leader
    BY <2>1, <2>2, QuietElect DEF Quiet
  <2>7. Entered(n, g, {})
    BY <2>4, <2>6, CaseEntered
  <2> HIDE DEF g
  <2>8. Queued(b, id)
    BY <2>2 DEF Queued
  <2>9. Waiting(g)
    BY <1>1, <2>1, <2>2, <2>5, <2>6, <2>8, LeaderWaits, SMTT(300) DEF Quiet
  <2> HIDE DEF w, rd
  <2>b. Server = {n} => g.raft.msgs = {}
    BY <2>2, <2>5
  <2> QED  BY <2>1, <2>7, <2>9, <2>a, <2>b, LoopIterates
<1>7. ASSUME NEW n \in Server, NEW target \in Server, Transfer(n, target)
      PROVE  Iterates(n)
  <2>1. ~ group[n].raft.panicked /\ group[n].raft.role = Leader
        /\ target # group[n].raft.id
        /\ Loop(n, [group[n] EXCEPT !.raft = TransferLeader(@, target)], net, snaps)
    BY <1>7 DEF Transfer, canTransfer
  <2>2. Quiet(group[n].raft, TransferLeader(group[n].raft, target)) /\ Server # {n}
    BY <1>1, <2>1, TransferQuiet
  <2>3. Loop(n, [group[n] EXCEPT !.raft = TransferLeader(group[n].raft, target)], net, snaps)
    BY <2>1
  <2> QED  BY <1>2, <2>1, <2>2, <2>3
<1>8. ASSUME NEW s \in snaps, SnapshotFails(s)
      PROVE  group' = group /\ net' = net
  BY <1>8 DEF SnapshotFails
<1> QED  BY <1>3, <1>4, <1>5, <1>6, <1>7, <1>8, TakeIterates, ReceiveIterates DEF RunNext

\* Nobody waits at a group that has just been opened.
LEMMA OpenAttended ==
    ASSUME NEW n, NEW d, NEW a
    PROVE  Attended(openGroup(n, d, a))
<1> DEFINE g == openGroup(n, d, a)
<1>1. g.raft = newNode(n, d, a) /\ g.waiters = {} /\ g.reads = {}
  BY DEF openGroup
<1>2. /\ newNode(n, d, a).pendingReads = {} /\ newNode(n, d, a).roundReads = {}
      /\ newNode(n, d, a).readReady = {}
  BY DEF newNode
<1> HIDE DEF g
<1>3. Waits(g.raft) = {}
  BY <1>1, <1>2 DEF Waits
<1>4. Attended(g)
  BY <1>1, <1>3 DEF Attended, Stampings
<1> QED  BY <1>4 DEF g

\* What reopens a group changes no other, and leaves the network alone.
LEMMA ReopenAttends ==
    ASSUME TypeInv, ReopenNext
    PROVE  net' = net /\ \E n \in Server : \E d, a :
               group' = [group EXCEPT ![n] = openGroup(n, d, a)]
<1>1. ASSUME NEW n \in Server, NEW d, Restart(n, d)
      PROVE  net' = net /\ \E a : group' = [group EXCEPT ![n] = openGroup(n, d, a)]
  <2>1. PICK a \in group[n].flushed .. group[n].raft.log.applied :
            group' = [group EXCEPT ![n] = openGroup(n, d, a)]
    BY <1>1 DEF Restart
  <2>2. net' = net
    BY <1>1 DEF Restart
  <2> QED  BY <2>1, <2>2
<1>2. CASE \E n \in Server : Crash(n)
  BY <1>1, <1>2 DEF Crash
<1>3. CASE \E m \in net : CrashDuringSave(m)
  <2>1. PICK m \in net : CrashDuringSave(m)
    BY <1>3
  <2>2. m.to \in Server
    BY DEF TypeInv, TypeOK, Message
  <2>3. \E d : Restart(m.to, d)
    BY <2>1 DEF CrashDuringSave
  <2> QED  BY <1>1, <2>2, <2>3
<1>4. CASE \E s \in snaps : InstallSnapshot(s)
  <2>1. PICK s \in snaps : InstallSnapshot(s)
    BY <1>4
  <2>2. s.to \in Server
    BY DEF TypeInv, TypeOK, Snap
  <2> DEFINE nd == group[s.to].raft
  <2>3. net' = net
    BY <2>1 DEF InstallSnapshot
  <2>4. \/ group' = [group EXCEPT ![s.to] =
                        openGroup(s.to, group[s.to].disk, nd.log.applied)]
        \/ group' = [group EXCEPT ![s.to] = openGroup(s.to, boundaryFile(nd, s), s.index)]
    BY <2>1 DEF InstallSnapshot
  <2> QED  BY <2>2, <2>3, <2>4
<1> QED  BY <1>2, <1>3, <1>4 DEF ReopenNext

\* Who waits is attended to after every step.
LEMMA NextWaits ==
    ASSUME TypeInv, WaitInv, OwnQuorum, [Next]_vars
    PROVE  WaitInv'
<1>0. group \in [Server -> GroupState]
  BY DEF TypeInv, TypeOK
<1>1. CASE group' = group /\ net' = net
  BY <1>1 DEF WaitInv
<1>2. CASE \E n \in Server : Iterates(n)
  <2>1. PICK n \in Server : Iterates(n)
    BY <1>2
  <2>2. ASSUME NEW p \in Server, ~ group'[p].raft.panicked
        PROVE  Attended(group'[p])
    <3>1. CASE p = n
      BY <2>1, <2>2, <3>1 DEF Iterates
    <3>2. CASE p # n
      <4>1. group'[p] = group[p]
        BY <2>1, <3>2 DEF Iterates
      <4> QED  BY <2>2, <4>1 DEF WaitInv
    <3> QED  BY <3>1, <3>2
  <2>3. ASSUME NEW p \in Server, Server = {p}
        PROVE  net' = {}
    <3>1. n = p /\ net = {}
      BY <2>3 DEF WaitInv
    <3> QED  BY <2>1, <2>3, <3>1 DEF Iterates
  <2> QED  BY <2>2, <2>3 DEF WaitInv
<1>3. CASE ReopenNext
  <2>1. PICK n \in Server : \E d, a : group' = [group EXCEPT ![n] = openGroup(n, d, a)]
    BY <1>3, ReopenAttends
  <2>2. PICK h : Attended(h) /\ group' = [group EXCEPT ![n] = h]
    BY <2>1, OpenAttended
  <2>3. \A p \in Server : group'[p] = h \/ group'[p] = group[p]
    BY <1>0, <2>2
  <2>4. net' = net
    BY <1>3, ReopenAttends
  <2>5. ASSUME NEW p \in Server, ~ group'[p].raft.panicked
        PROVE  Attended(group'[p])
    <3>1. CASE group'[p] = h
      BY <2>2, <3>1
    <3>2. CASE group'[p] = group[p]
      BY <2>5, <3>2 DEF WaitInv
    <3> QED  BY <2>3, <3>1, <3>2
  <2> QED  BY <2>4, <2>5 DEF WaitInv
<1>4. CASE UNCHANGED vars
  BY <1>1, <1>4 DEF vars
<1>5. CASE RunNext
  BY <1>1, <1>2, <1>5, RunIterates
<1> QED  BY <1>3, <1>4, <1>5 DEF Next
============================================================================
