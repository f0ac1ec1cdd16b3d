--------------------------- MODULE RaftLoopProofs ---------------------------
(***************************************************************************)
(* What one iteration of the group loop does to a server, for every value  *)
(* of the constants: SaveReady, Advance, the waiters, compaction, and the  *)
(* reopening of a group from its files.  At the end, what every action of  *)
(* the group does to types and elections.                                  *)
(***************************************************************************)
EXTENDS RaftCluster, RaftNodeProofs

\* Zenon unless a step cites SMT, with time for a busy machine.
USE ZenonT(300)

\* A group whose Ready can be drained.
Drainable(g) ==
    /\ g \in GroupState
    /\ NodeOK(g.raft)
    /\ g.disk.snapIndex = g.raft.log.snapIndex

\* The hard state is on disk and no message waits.
Saved(g) ==
    /\ g.disk.term = g.raft.term
    /\ g.disk.vote = g.raft.vote
    /\ g.raft.msgs = {}

\* What draining does not change.
Kept(g, d) ==
    /\ d.raft.id = g.raft.id
    /\ d.raft.role = g.raft.role
    /\ d.raft.term = g.raft.term
    /\ d.raft.vote = g.raft.vote
    /\ d.raft.votes = g.raft.votes
    /\ d.raft.panicked = g.raft.panicked
    /\ lastIndex(d.raft.log) = lastIndex(g.raft.log)
----------------------------------------------------------------------------
(* Storage *)

\* The indices of a healthy member, in order.
LEMMA NodeIndices ==
    ASSUME NEW nd, NodeOK(nd)
    PROVE  /\ nd \in NodeState
           /\ nd.log \in LogState
           /\ nd.stabled \in Nat
           /\ nd.log.snapIndex \in Nat
           /\ nd.log.applied \in Nat
           /\ nd.log.committed \in Nat
           /\ lastIndex(nd.log) \in Nat
           /\ nd.log.snapIndex <= nd.log.applied
           /\ nd.log.applied <= nd.stabled
           /\ nd.log.snapIndex <= nd.stabled
           /\ nd.log.applied <= nd.log.committed
           /\ nd.log.committed <= lastIndex(nd.log)
<1>1. nd \in NodeState /\ nd.log \in LogState /\ nd.stabled \in Nat
  BY DEF NodeOK, NodeState
<1>2. /\ nd.log.snapIndex \in Nat /\ nd.log.applied \in Nat
      /\ nd.log.committed \in Nat /\ lastIndex(nd.log) \in Nat
  BY <1>1, LogIndexType DEF LogState
<1> QED  BY <1>1, <1>2, SMTT(300) DEF NodeOK, LogOK

\* What SaveReady writes are entries of the log.
LEMMA UnstableType ==
    ASSUME NEW nd, NodeOK(nd)
    PROVE  unstable(nd) \in Seq(Entry)
<1>1. /\ nd.log \in LogState /\ nd.stabled \in Nat
      /\ lastIndex(nd.log) \in Nat /\ nd.log.snapIndex \in Nat
      /\ nd.log.snapIndex <= nd.stabled
  BY NodeIndices
<1> DEFINE lo == nd.stabled + 1
<1>2. lo \in Nat /\ lo > nd.log.snapIndex /\ lastIndex(nd.log) <= lastIndex(nd.log)
  BY <1>1, SMTT(300)
<1> HIDE DEF lo
<1>3. slice(nd.log, lo, lastIndex(nd.log)) \in Seq(Entry)
  BY <1>1, <1>2, SliceType
<1>4. <<>> \in Seq(Entry)
  BY SMTT(300)
<1> QED  BY <1>3, <1>4 DEF unstable, lo

\* SaveReady writes a file that can be described, and saves term and vote.
LEMMA SaveReadyType ==
    ASSUME NEW d \in DiskState, NEW nd, NodeOK(nd), d.snapIndex = nd.log.snapIndex
    PROVE  /\ saveReadyEntries(d, nd) \in DiskState
           /\ saveReadyEntries(d, nd).snapIndex = d.snapIndex
           /\ saveReadyEntries(d, nd).term = d.term
           /\ saveReadyEntries(d, nd).vote = d.vote
           /\ SaveReady(d, nd) \in DiskState
           /\ SaveReady(d, nd).snapIndex = d.snapIndex
           /\ SaveReady(d, nd).term = nd.term
           /\ SaveReady(d, nd).vote = nd.vote
<1> DEFINE u == unstable(nd)
           k == nd.stabled - d.snapIndex
           s == saveReadyEntries(d, nd)
<1>1. u \in Seq(Entry)
  BY UnstableType
<1>2. k \in Nat
  BY NodeIndices, SMTT(300)
<1>3. nd.term \in Nat /\ nd.vote \in Server \cup {Nil} /\ nd.log.committed \in Nat
  BY DEF NodeOK, NodeState, LogOK, LogState
<1>4. d.entries \in Seq(Entry) /\ Len(d.entries) \in Nat
  BY SMTT(300) DEF DiskState
<1> HIDE DEF u, k
<1>5. saveEntries(d, nd.stabled, u) = IF k > Len(d.entries)
                                      THEN [d EXCEPT !.gap = TRUE]
                                      ELSE [d EXCEPT !.entries = SubSeq(@, 1, k) \o u]
  BY DEF saveEntries, k
<1>6. ASSUME k <= Len(d.entries)
      PROVE  SubSeq(d.entries, 1, k) \o u \in Seq(Entry)
  <2>1. \A i \in 1 .. k : d.entries[i] \in Entry
    BY <1>2, <1>4, <1>6, SMTT(300)
  <2>2. SubSeq(d.entries, 1, k) \in Seq(Entry)
    BY <1>2, <2>1, SMTT(300)
  <2> QED  BY <1>1, <2>2, SMTT(300)
<1>7. /\ saveEntries(d, nd.stabled, u) \in DiskState
      /\ saveEntries(d, nd.stabled, u).snapIndex = d.snapIndex
      /\ saveEntries(d, nd.stabled, u).term = d.term
      /\ saveEntries(d, nd.stabled, u).vote = d.vote
  <2>1. CASE k > Len(d.entries)
    BY <1>5, <2>1 DEF DiskState
  <2>2. CASE k <= Len(d.entries)
    <3> DEFINE es == SubSeq(d.entries, 1, k) \o u
    <3>1. es \in Seq(Entry)
      BY <1>6, <2>2
    <3>2. saveEntries(d, nd.stabled, u) = [d EXCEPT !.entries = es]
      BY <1>2, <1>4, <1>5, <2>2, SMTT(300)
    <3> HIDE DEF es
    <3> QED  BY <3>1, <3>2 DEF DiskState
  <2> QED  BY <1>2, <1>4, <2>1, <2>2, SMTT(300)
<1>8. /\ s \in DiskState /\ s.snapIndex = d.snapIndex /\ s.term = d.term
      /\ s.vote = d.vote
  BY <1>7 DEF saveReadyEntries, u
<1>9. SaveReady(d, nd) = [s EXCEPT !.term = nd.term, !.vote = nd.vote,
                                   !.commit = nd.log.committed]
  BY DEF SaveReady, saveHardState
<1> HIDE DEF s
<1>10. /\ SaveReady(d, nd) \in DiskState
       /\ SaveReady(d, nd).snapIndex = d.snapIndex
       /\ SaveReady(d, nd).term = nd.term
       /\ SaveReady(d, nd).vote = nd.vote
  BY <1>3, <1>8, <1>9 DEF DiskState
<1> QED  BY <1>8, <1>10 DEF s
----------------------------------------------------------------------------
(* The core's side of a pass *)

\* maybeCommit never lowers the commit index.
LEMMA MaybeCommitMonotone ==
    ASSUME NEW nd, NodeOK(nd)
    PROVE  maybeCommit(nd).log.committed >= nd.log.committed
<1>1. nd \in NodeState /\ nd.log \in LogState /\ LogOK(nd.log)
      /\ lastIndex(nd.log) \in Nat /\ nd.log.committed \in Nat
  BY LogIndexType DEF NodeOK, NodeState, LogState
<1> DEFINE own == ownMatch(nd)
<1>2. own.log = nd.log /\ own \in [DOMAIN nd -> {own[f] : f \in DOMAIN nd}]
  BY <1>1 DEF ownMatch, NodeState
<1>3. ASSUME committable(own) # {}
      PROVE  commitTo(nd.log, CHOOSE i \in committable(own) : TRUE).committed
                 >= nd.log.committed
  <2> DEFINE i == CHOOSE j \in committable(own) : TRUE
  <2>1. i \in committable(own)
    BY <1>3
  <2>2. i \in Nat /\ i <= lastIndex(nd.log)
    BY <1>1, <1>2, <2>1, SMTT(300) DEF committable
  <2> HIDE DEF i
  <2>3. commitTo(nd.log, i).committed >= nd.log.committed
    BY <1>1, <2>2, CommitToOK
  <2> QED  BY <2>3 DEF i
<1> QED  BY <1>1, <1>2, <1>3, SMTT(300) DEF maybeCommit, NodeState, ownMatch

\* Advance keeps a member healthy and everything an election depends on.
LEMMA AdvanceOK ==
    ASSUME NEW nd, NodeOK(nd)
    PROVE  LET a == Advance(nd)
           IN  /\ NodeOK(a) /\ a.msgs = {}
               /\ a.id = nd.id /\ a.role = nd.role /\ a.term = nd.term
               /\ a.vote = nd.vote /\ a.votes = nd.votes
               /\ a.panicked = nd.panicked
               /\ a.log.snapIndex = nd.log.snapIndex
               /\ lastIndex(a.log) = lastIndex(nd.log)
<1> DEFINE b == [nd EXCEPT !.stabled = lastIndex(nd.log)]
           s == IF unstable(nd) = <<>> THEN nd ELSE maybeCommit(b)
           k == applyTo(nd)
           rs == unservedReads(nd)
           l == [s.log EXCEPT !.applied = k]
           a == [s EXCEPT !.log = l, !.readReady = rs, !.msgs = {}]
<1>1. NodeOK(b) /\ b.log = nd.log /\ b.id = nd.id /\ b.role = nd.role
      /\ b.term = nd.term /\ b.vote = nd.vote /\ b.votes = nd.votes
      /\ b.panicked = nd.panicked /\ b.stabled = lastIndex(nd.log)
  <2>1. b \in NodeState /\ b.log = nd.log /\ b.id = nd.id /\ b.role = nd.role
        /\ b.term = nd.term /\ b.vote = nd.vote /\ b.votes = nd.votes
        /\ b.panicked = nd.panicked /\ b.stabled = lastIndex(nd.log)
    BY NodeIndices, SMTT(300) DEF NodeState
  <2> HIDE DEF b
  <2>2. b.log.applied <= b.stabled
    BY <2>1, NodeIndices, SMTT(300)
  <2> QED  BY <2>1, <2>2 DEF NodeOK
<1> HIDE DEF b
<1>2. Quiet(b, maybeCommit(b)) /\ lastIndex(maybeCommit(b).log) = lastIndex(nd.log)
      /\ maybeCommit(b).log.committed >= nd.log.committed
  BY <1>1, MaybeCommitQuiet, MaybeCommitLastIndex, MaybeCommitMonotone
<1>3. k \in Nat /\ k >= nd.log.applied /\ k <= nd.log.committed
      /\ k <= nd.stabled
  BY NodeIndices, SMTT(300) DEF applyTo, maxOf, minOf
<1>4. /\ NodeOK(s) /\ s.id = nd.id /\ s.role = nd.role /\ s.term = nd.term
      /\ s.vote = nd.vote /\ s.votes = nd.votes /\ s.panicked = nd.panicked
      /\ s.log.snapIndex = nd.log.snapIndex
      /\ lastIndex(s.log) = lastIndex(nd.log)
      /\ s.log.committed >= nd.log.committed
      /\ s.stabled >= nd.stabled
  <2>1. CASE unstable(nd) = <<>>
    BY <2>1, NodeIndices, SMTT(300)
  <2>2. CASE unstable(nd) # <<>>
    <3>1. lastIndex(nd.log) >= nd.stabled
      BY <2>2, NodeIndices, SMTT(300) DEF unstable
    <3>2. s = maybeCommit(b)
      BY <2>2
    <3> HIDE DEF s
    <3> QED  BY <1>1, <1>2, <3>1, <3>2 DEF Quiet, Settled
  <2> QED  BY <2>1, <2>2
<1>5. Advance(nd) = a
  <2>1. s.log \in LogState /\ s \in NodeState
    BY <1>4, NodeIndices
  <2>2. Advance(nd) = [s EXCEPT !.log.applied = k, !.readReady = rs, !.msgs = {}]
    BY DEF Advance, b
  <2> HIDE DEF s, k, rs
  <2> QED  BY <2>1, <2>2 DEF NodeState, LogState
<1>6. rs \in SUBSET Read
  BY NodeIndices, SMTT(300) DEF unservedReads, NodeState
<1> HIDE DEF s, k, rs
<1>7. /\ l \in LogState /\ l.applied = k /\ l.snapIndex = s.log.snapIndex
      /\ l.committed = s.log.committed /\ l.entries = s.log.entries
  BY <1>3, <1>4, NodeIndices DEF LogState
<1>8. lastIndex(l) = lastIndex(s.log)
  BY <1>7 DEF lastIndex
<1>9. LogOK(l)
  BY <1>3, <1>4, <1>7, <1>8, NodeIndices, SMTT(300) DEF LogOK
<1> HIDE DEF l
<1>10. /\ a \in NodeState /\ a.log = l /\ a.msgs = {} /\ a.id = s.id /\ a.role = s.role
       /\ a.term = s.term /\ a.vote = s.vote /\ a.votes = s.votes
       /\ a.panicked = s.panicked /\ a.stabled = s.stabled
  <2>1. s \in NodeState
    BY <1>4 DEF NodeOK
  <2> QED  BY <1>6, <1>7, <2>1 DEF NodeState
<1> HIDE DEF a
<1>11. NodeOK(a)
  <2>1. a.log.applied <= a.stabled
    BY <1>3, <1>4, <1>7, <1>10, NodeIndices, SMTT(300)
  <2> QED  BY <1>9, <1>10, <2>1 DEF NodeOK
<1> QED  BY <1>4, <1>5, <1>7, <1>8, <1>10, <1>11
----------------------------------------------------------------------------
(* drainReady *)

\* Saving and answering leave the core alone.
LEMMA AnswerOK ==
    ASSUME NEW g, Drainable(g)
    PROVE  LET p == publishStatus(signalWaiters([g EXCEPT !.disk = SaveReady(@, g.raft)]))
           IN  /\ p \in GroupState
               /\ p.raft = g.raft
               /\ p.disk.snapIndex = g.disk.snapIndex
               /\ p.disk.term = g.raft.term
               /\ p.disk.vote = g.raft.vote
<1> DEFINE dk == SaveReady(g.disk, g.raft)
           h == [g EXCEPT !.disk = dk]
           q == signalWaiters(h)
<1>1. g \in GroupState /\ g.disk \in DiskState /\ NodeOK(g.raft)
  BY DEF Drainable, GroupState
<1>2. dk \in DiskState /\ dk.snapIndex = g.disk.snapIndex /\ dk.term = g.raft.term
      /\ dk.vote = g.raft.vote
  BY <1>1, SaveReadyType, SMTT(300) DEF Drainable
<1> HIDE DEF dk
<1>3. h \in GroupState /\ h.raft = g.raft /\ h.disk = dk
  BY <1>1, <1>2 DEF GroupState
<1> HIDE DEF h
<1> DEFINE done == {i \in newlyApplied(h.raft) : entryAt(h.raft.log, i).data \in h.waiters}
           w == h.waiters \ {entryAt(h.raft.log, i).data : i \in done}
           ak == h.acks \cup done
           rd == h.reads \ {r.id : r \in readyReadStates(h.raft)}
           sg == h.signalled \cup {[id |-> r.id, index |-> applyTo(h.raft)] :
                                    r \in {x \in readyReadStates(h.raft) : x.id \in h.reads}}
<1>4. q = [h EXCEPT !.waiters = w, !.acks = ak, !.reads = rd, !.signalled = sg]
  BY <1>3 DEF signalWaiters, GroupState
<1>5. applyTo(h.raft) \in Nat /\ h.raft.log.applied \in Nat
  BY <1>1, <1>3, NodeIndices DEF applyTo, maxOf, minOf
<1>6. w \in SUBSET Value /\ rd \in SUBSET ReadId
  BY <1>3 DEF GroupState
<1>7. ak \in SUBSET Nat
  BY <1>3, <1>5, SMTT(300) DEF GroupState, newlyApplied
<1>8. sg \in SUBSET Read
  BY <1>1, <1>3, <1>5, SMTT(300) DEF GroupState, NodeState, readyReadStates, Read, NodeOK
<1> HIDE DEF w, ak, rd, sg
<1>9. q \in GroupState /\ q.raft = g.raft /\ q.disk = dk
  BY <1>3, <1>4, <1>6, <1>7, <1>8 DEF GroupState
<1> HIDE DEF q
<1>10. /\ publishStatus(q) \in GroupState
       /\ publishStatus(q).raft = g.raft /\ publishStatus(q).disk = dk
  BY <1>9 DEF publishStatus, GroupState
<1>11. q = signalWaiters([g EXCEPT !.disk = SaveReady(@, g.raft)])
  BY DEF q, h, dk
<1> QED  BY <1>2, <1>10, <1>11

\* Compacting the log at the applied index rewrites the file to match.
LEMMA MaybeSnapshotOK ==
    ASSUME NEW g, Drainable(g), Saved(g)
    PROVE  /\ Drainable(maybeSnapshot(g))
           /\ Saved(maybeSnapshot(g))
           /\ Kept(g, maybeSnapshot(g))
<1> DEFINE nd == g.raft
           l == compactTo(nd.log, nd.log.applied)
           c == [nd EXCEPT !.log = l]
           h == [g EXCEPT !.raft = c, !.disk = Rewrite(c),
                          !.snapAt = c.log.applied, !.flushed = c.log.applied]
<1>1. g \in GroupState /\ NodeOK(nd) /\ nd \in NodeState /\ LogOK(nd.log)
  BY DEF Drainable, NodeOK
<1>2. CASE maybeSnapshot(g) = g
  BY <1>2 DEF Kept
<1>3. CASE maybeSnapshot(g) = h
  <2>1. LogOK(l) /\ lastIndex(l) = lastIndex(nd.log) /\ l.applied = nd.log.applied
    BY <1>1, CompactToOK
  <2>2. l \in LogState /\ l.applied \in Nat
    BY <2>1 DEF LogOK, LogState
  <2> HIDE DEF l
  <2>3. /\ c \in NodeState /\ c.log = l /\ c.id = nd.id /\ c.role = nd.role
        /\ c.term = nd.term /\ c.vote = nd.vote /\ c.votes = nd.votes
        /\ c.panicked = nd.panicked /\ c.stabled = nd.stabled /\ c.msgs = nd.msgs
    BY <1>1, <2>2 DEF NodeState
  <2> HIDE DEF c
  <2>4. NodeOK(c)
    BY <1>1, <2>1, <2>3 DEF NodeOK
  <2>5. /\ Rewrite(c) \in DiskState /\ Rewrite(c).snapIndex = c.log.snapIndex
        /\ Rewrite(c).term = c.term /\ Rewrite(c).vote = c.vote
    <3>1. /\ c.term \in Nat /\ c.vote \in Server \cup {Nil} /\ c.log.committed \in Nat
          /\ c.log.snapIndex \in Nat /\ c.log.snapTerm \in Nat
          /\ c.log.entries \in Seq(Entry)
      BY <2>2, <2>3 DEF NodeState, LogState
    <3> QED  BY <3>1 DEF Rewrite, DiskState
  <2> DEFINE dk == Rewrite(c)
             k == c.log.applied
  <2>6. k \in Nat
    BY <2>2, <2>3
  <2> HIDE DEF dk, k
  <2>7. h = [g EXCEPT !.raft = c, !.disk = dk, !.snapAt = k, !.flushed = k]
    BY DEF dk, k
  <2>8. dk \in DiskState
    BY <2>5 DEF dk
  <2>9. h \in GroupState /\ h.raft = c /\ h.disk = dk
    BY <1>1, <2>3, <2>6, <2>7, <2>8 DEF GroupState
  <2> HIDE DEF h
  <2> QED  BY <1>3, <2>1, <2>3, <2>4, <2>5, <2>9 DEF Drainable, Saved, Kept, dk
<1> QED  BY <1>2, <1>3 DEF maybeSnapshot

\* One pass of drainReady.
LEMMA DrainPassOK ==
    ASSUME NEW g, Drainable(g)
    PROVE  /\ Drainable(drainPass(g))
           /\ Saved(drainPass(g))
           /\ Kept(g, drainPass(g))
<1> DEFINE p == publishStatus(signalWaiters([g EXCEPT !.disk = SaveReady(@, g.raft)]))
           a == Advance(g.raft)
           h == [p EXCEPT !.raft = a]
<1>1. /\ p \in GroupState /\ p.raft = g.raft /\ p.disk.snapIndex = g.disk.snapIndex
      /\ p.disk.term = g.raft.term /\ p.disk.vote = g.raft.vote
  BY AnswerOK
<1>2. drainPass(g) = maybeSnapshot([p EXCEPT !.raft = Advance(@)])
  BY DEF drainPass
<1> HIDE DEF p
<1>3. [p EXCEPT !.raft = Advance(@)] = h
  BY <1>1 DEF GroupState
<1>4. /\ NodeOK(a) /\ a.msgs = {}
      /\ a.id = g.raft.id /\ a.role = g.raft.role /\ a.term = g.raft.term
      /\ a.vote = g.raft.vote /\ a.votes = g.raft.votes
      /\ a.panicked = g.raft.panicked
      /\ a.log.snapIndex = g.raft.log.snapIndex
      /\ lastIndex(a.log) = lastIndex(g.raft.log)
  BY AdvanceOK DEF Drainable
<1> HIDE DEF a
<1>5. h \in GroupState /\ h.raft = a /\ h.disk = p.disk
  BY <1>1, <1>4 DEF GroupState, NodeOK
<1> HIDE DEF h
<1>6. Drainable(h) /\ Saved(h) /\ Kept(g, h)
  BY <1>1, <1>4, <1>5 DEF Drainable, Saved, Kept
<1>7. Drainable(maybeSnapshot(h)) /\ Saved(maybeSnapshot(h)) /\ Kept(h, maybeSnapshot(h))
  BY <1>6, MaybeSnapshotOK
<1>8. Kept(g, maybeSnapshot(h))
  BY <1>6, <1>7 DEF Kept
<1> QED  BY <1>2, <1>3, <1>7, <1>8

\* A group that is not ready has saved its hard state and sent everything.
LEMMA PassIfReadyOK ==
    ASSUME NEW g, Drainable(g)
    PROVE  /\ Drainable(passIfReady(g))
           /\ Saved(passIfReady(g))
           /\ Kept(g, passIfReady(g))
<1>1. CASE HasReady(g)
  BY <1>1, DrainPassOK DEF passIfReady
<1>2. CASE ~ HasReady(g)
  <2>1. Saved(g) /\ Kept(g, g)
    BY <1>2 DEF HasReady, Saved, Kept
  <2> QED  BY <1>2, <2>1 DEF passIfReady
<1> QED  BY <1>1, <1>2

\* drainReady persists term and vote before the iteration ends.
LEMMA DrainReadyOK ==
    ASSUME NEW g, Drainable(g)
    PROVE  /\ Drainable(drainReady(g))
           /\ Saved(drainReady(g))
           /\ Kept(g, drainReady(g))
<1> DEFINE p == passIfReady(g)
           q == passIfReady(p)
           r == passIfReady(q)
<1>1. Drainable(p) /\ Kept(g, p)
  BY PassIfReadyOK
<1> HIDE DEF p
<1>2. Drainable(q) /\ Kept(p, q)
  BY <1>1, PassIfReadyOK
<1> HIDE DEF q
<1>3. Drainable(r) /\ Saved(r) /\ Kept(q, r)
  BY <1>2, PassIfReadyOK
<1> HIDE DEF r
<1>4. Kept(g, r)
  BY <1>1, <1>2, <1>3 DEF Kept
<1>5. r = drainReady(g)
  BY DEF r, q, p, drainReady
<1> QED  BY <1>3, <1>4, <1>5
----------------------------------------------------------------------------
(* openGroup *)

\* What holds of a server between two iterations of its loop.
GroupInv(n, g) ==
    /\ g.raft.id = n
    /\ g.disk.snapIndex = g.raft.log.snapIndex
    /\ g.disk.term = g.raft.term
    /\ g.disk.vote = g.raft.vote
    /\ ~ g.raft.panicked => NodeOK(g.raft) /\ g.raft.msgs = {}

\* A group reopens with the term and vote of its file, and healthy or not at all.
LEMMA OpenGroupOK ==
    ASSUME NEW n \in Server, NEW d \in DiskState, NEW a \in Nat
    PROVE  LET h == openGroup(n, d, a)
           IN  /\ h \in GroupState
               /\ GroupInv(n, h)
               /\ h.raft.term = d.term
               /\ h.raft.vote = d.vote
               /\ h.raft.votes = {}
               /\ h.raft.role = Follower
<1> DEFINE commit == maxOf(d.commit, d.snapIndex)
           last == d.snapIndex + Len(d.entries)
           bad == d.gap \/ commit > last \/ a \notin d.snapIndex .. commit
           l == [entries |-> d.entries, snapIndex |-> d.snapIndex,
                 snapTerm |-> d.snapTerm, committed |-> commit, applied |-> a]
           q == newNode(n, d, a)
           h == openGroup(n, d, a)
<1>1. /\ d.entries \in Seq(Entry) /\ d.snapIndex \in Nat /\ d.snapTerm \in Nat
      /\ d.commit \in Nat /\ d.term \in Nat /\ d.vote \in Server \cup {Nil}
      /\ d.gap \in BOOLEAN /\ Len(d.entries) \in Nat
  BY SMTT(300) DEF DiskState
<1>2. commit \in Nat /\ last \in Nat
  BY <1>1, SMTT(300) DEF maxOf
<1>3. q = [id |-> n, role |-> Follower, term |-> d.term, vote |-> d.vote,
           lead |-> Nil, log |-> l, stabled |-> last, votes |-> {}, preVotes |-> {},
           next |-> [p \in Server |-> 1], match |-> [p \in Server |-> 0],
           transferee |-> Nil, pendingReads |-> {}, roundReads |-> {},
           readReady |-> {}, readAcks |-> {}, msgs |-> {}, panicked |-> bad]
  BY DEF newNode
<1>4. l \in LogState /\ lastIndex(l) = last /\ l.snapIndex = d.snapIndex
      /\ l.applied = a /\ l.committed = commit
  BY <1>1, <1>2 DEF LogState, lastIndex
<1>5. bad \in BOOLEAN
  BY <1>1
<1>6. /\ [p \in Server |-> 1] \in [Server -> Nat \ {0}]
      /\ [p \in Server |-> 0] \in [Server -> Nat]
  BY SMTT(300)
<1>7. ~ bad => commit <= last /\ d.snapIndex <= a /\ a <= commit
  BY <1>1, <1>2, SMTT(300)
<1> HIDE DEF l, last, commit, bad, q
<1>8. /\ q.id = n /\ q.role = Follower /\ q.term = d.term /\ q.vote = d.vote
      /\ q.log = l /\ q.stabled = last /\ q.votes = {} /\ q.msgs = {}
      /\ q.panicked = bad
  BY <1>3
<1>9. q \in NodeState
  BY <1>1, <1>2, <1>3, <1>4, <1>5, <1>6 DEF NodeState
<1>10. ~ bad => NodeOK(q)
  <2> SUFFICES ASSUME ~ bad PROVE NodeOK(q)
    OBVIOUS
  <2>1. LogOK(q.log) /\ q.log.applied <= q.stabled
    BY <1>2, <1>4, <1>7, <1>8, SMTT(300) DEF LogOK
  <2> QED  BY <1>9, <2>1 DEF NodeOK
<1>11. h = [raft |-> q, disk |-> d, snapAt |-> a, flushed |-> a, waiters |-> {},
            reads |-> {}, acks |-> {}, signalled |-> {}]
  BY DEF openGroup, q
<1> HIDE DEF h
<1>12. h \in GroupState /\ h.raft = q /\ h.disk = d
  BY <1>9, <1>11 DEF GroupState
<1>13. GroupInv(n, h)
  BY <1>4, <1>8, <1>10, <1>12 DEF GroupInv
<1> QED  BY <1>8, <1>12, <1>13 DEF h
----------------------------------------------------------------------------
(* The inductive invariant of the types, and what a step may do *)

TypeInv ==
    /\ TypeOK
    /\ \A n \in Server : GroupInv(n, group[n])
    /\ \A m \in net : m.type # MsgSnap
    /\ \A s \in snaps : ~ s.taken => s.from \in Server

\* What a step of n may do to terms, votes and elections.
BallotStep(n) ==
    LET r == group[n].raft
        q == group'[n].raft
    IN  /\ \A p \in Server \ {n} : group'[p].raft = group[p].raft
        /\ q.term >= r.term
        /\ q.term = r.term => r.vote \in {Nil, q.vote}
        /\ \A v \in q.votes :
              \/ v \in r.votes /\ q.term = r.term
              \/ v = n /\ q.vote = n
              \/ \E x \in Grants(net) : x.from = v /\ x.to = n /\ x.term = q.term
        /\ q.role = Leader => \/ r.role = Leader /\ q.votes = r.votes
                              \/ Cardinality(q.votes) >= quorum
        /\ \A x \in Grants(net') :
              \/ x \in Grants(net)
              \/ x.from = n /\ x.term = q.term /\ x.to = q.vote
        /\ \A e \in elections' :
              \/ e \in elections
              \/ /\ q.role = Leader
                 /\ e = [term |-> q.term, leader |-> n, votes |-> q.votes]
----------------------------------------------------------------------------
(* An iteration of the loop *)

\* The state a select case leaves before drainReady, having consumed messages S.
Entered(n, g, S) ==
    /\ g \in GroupState
    /\ g.disk = group[n].disk
    /\ Elect(group[n].raft, g.raft, S)

\* Transfers as TypeInv has them.
Transfers(T) == T \subseteq Snap /\ \A s \in T : ~ s.taken => s.from \in Server

\* A panic changes nothing but the flag.
LEMMA PanicStep ==
    ASSUME TypeInv, NEW n \in Server, NEW pending \in SUBSET net, NEW transfers,
           Transfers(transfers), Panic(n, pending, transfers),
           floor' \in [ReadId -> SUBSET Nat]
    PROVE  TypeInv' /\ BallotStep(n)
<1> DEFINE q == [group[n].raft EXCEPT !.panicked = TRUE]
           h == [group[n] EXCEPT !.raft = q]
<1>1. /\ group \in [Server -> GroupState] /\ group[n] \in GroupState
      /\ group[n].raft \in NodeState
  BY DEF TypeInv, TypeOK, GroupState
<1>2. group' = [group EXCEPT ![n] = h]
  BY <1>1 DEF Panic, GroupState, NodeState
<1>3. /\ q \in NodeState /\ q.id = group[n].raft.id /\ q.term = group[n].raft.term
      /\ q.vote = group[n].raft.vote /\ q.votes = group[n].raft.votes
      /\ q.role = group[n].raft.role /\ q.log = group[n].raft.log /\ q.panicked
  BY <1>1 DEF NodeState
<1> HIDE DEF q
<1>4. h \in GroupState /\ h.raft = q /\ h.disk = group[n].disk
  BY <1>1, <1>3 DEF GroupState
<1> HIDE DEF h
<1>5. /\ group' \in [Server -> GroupState] /\ group'[n] = h
      /\ \A p \in Server \ {n} : group'[p] = group[p]
  BY <1>1, <1>2, <1>4
<1>6. GroupInv(n, h)
  BY <1>3, <1>4, SMTT(300) DEF GroupInv, TypeInv
<1>7. TypeOK'
  BY <1>5 DEF Panic, TypeInv, TypeOK, Transfers
<1>8. \A p \in Server : GroupInv(p, group'[p])
  BY <1>5, <1>6 DEF TypeInv
<1>9. (\A m \in net' : m.type # MsgSnap) /\ Transfers(snaps')
  BY DEF Panic, TypeInv
<1>10. /\ group[n].raft.term \in Nat /\ elections' = elections
       /\ Grants(net') \subseteq Grants(net)
  BY <1>1 DEF NodeState, Panic, Grants
<1>11. BallotStep(n)
  BY <1>3, <1>4, <1>5, <1>10, SMTT(300) DEF BallotStep
<1> QED  BY <1>7, <1>8, <1>9, <1>11 DEF TypeInv, Transfers

\* What handling the messages S does to the ballot is a BallotStep once the
\* votes it sends and the election it records are those of the new state.
LEMMA ElectIsBallotStep ==
    ASSUME NEW n \in Server, NEW nd, NEW S \in SUBSET net,
           group[n].raft.msgs = {}, nd.id = n, Elect(group[n].raft, nd, S),
           \A p \in Server \ {n} : group'[p] = group[p],
           group'[n].raft.term = nd.term, group'[n].raft.vote = nd.vote,
           group'[n].raft.votes = nd.votes, group'[n].raft.role = nd.role,
           \A x \in Grants(net') : x \in Grants(net) \/ x \in Grants(nd.msgs),
           \A e \in elections' :
              \/ e \in elections
              \/ nd.role = Leader /\ e = [term |-> nd.term, leader |-> n, votes |-> nd.votes]
    PROVE  BallotStep(n)
<1>1. Grants(group[n].raft.msgs) = {} /\ Grants(S) \subseteq Grants(net)
  BY DEF Grants
<1>2. /\ nd.term >= group[n].raft.term
      /\ nd.term = group[n].raft.term => group[n].raft.vote \in {Nil, nd.vote}
      /\ nd.role = Leader => \/ group[n].raft.role = Leader /\ nd.votes = group[n].raft.votes
                             \/ Cardinality(nd.votes) >= quorum
  BY DEF Elect
<1>3. \A v \in nd.votes :
        \/ v \in group[n].raft.votes /\ nd.term = group[n].raft.term
        \/ v = n /\ nd.vote = n
        \/ \E x \in Grants(net) : x.from = v /\ x.to = n /\ x.term = nd.term
  BY <1>1, SMTT(300) DEF Elect
<1>4. \A x \in Grants(net') :
        \/ x \in Grants(net)
        \/ x.from = n /\ x.term = nd.term /\ x.to = nd.vote
  BY <1>1 DEF Elect
<1> QED  BY <1>2, <1>3, <1>4, SMTT(300) DEF BallotStep

\* What drainReady requests are transfers of this server.
LEMMA SendSnapshotType ==
    ASSUME NEW T, Transfers(T), NEW n \in Server, NEW msgs \in SUBSET Message
    PROVE  Transfers(sendSnapshot(T, n, msgs))
<1> SUFFICES ASSUME NEW s \in sendSnapshot(T, n, msgs)
             PROVE  s \in Snap /\ (~ s.taken => s.from \in Server)
  BY DEF Transfers
<1>1. CASE s \in T
  BY <1>1 DEF Transfers
<1>2. CASE s \notin T
  <2>1. PICK m \in msgs : s = [from |-> n, to |-> m.to, term |-> m.term, taken |-> FALSE,
                               index |-> 0, snapTerm |-> 0]
    BY <1>2 DEF sendSnapshot
  <2>2. m.to \in Server /\ m.term \in Nat
    BY DEF Message
  <2> QED  BY <2>1, <2>2 DEF Snap
<1> QED  BY <1>1, <1>2

\* The groups once n has drained its Ready into d.
LEMMA DrainedGroup ==
    ASSUME TypeInv, NEW n \in Server, NEW d, Drainable(d), Saved(d), d.raft.id = n,
           group' = [group EXCEPT ![n] = [d EXCEPT !.acks = {}, !.signalled = {}]]
    PROVE  /\ group' \in [Server -> GroupState]
           /\ \A p \in Server : GroupInv(p, group'[p])
           /\ \A p \in Server \ {n} : group'[p] = group[p]
           /\ group'[n].raft = d.raft
<1> DEFINE h == [d EXCEPT !.acks = {}, !.signalled = {}]
<1>1. group \in [Server -> GroupState] /\ d \in GroupState
  BY DEF TypeInv, TypeOK, Drainable
<1>2. h \in GroupState /\ h.raft = d.raft /\ h.disk = d.disk
  BY <1>1 DEF GroupState
<1>3. group' = [group EXCEPT ![n] = h]
  OBVIOUS
<1> HIDE DEF h
<1>4. /\ group' \in [Server -> GroupState] /\ group'[n] = h
      /\ \A p \in Server \ {n} : group'[p] = group[p]
  BY <1>1, <1>2, <1>3, SMTT(300)
<1>5. GroupInv(n, h)
  BY <1>2 DEF GroupInv, Drainable, Saved
<1>6. \A p \in Server : GroupInv(p, group'[p])
  BY <1>4, <1>5 DEF TypeInv
<1> QED  BY <1>2, <1>4, <1>6

\* What drainReady applies are entries of the log.
LEMMA AppliedType ==
    ASSUME NEW a, NEW b, NodeOK(a), NodeOK(b), lastIndex(b.log) = lastIndex(a.log),
           NEW i \in (a.log.applied + 1) .. b.log.applied
    PROVE  i \in Nat /\ entryAt(a.log, i) \in Entry
<1>1. /\ a.log \in LogState /\ a.log.applied \in Nat /\ a.log.snapIndex \in Nat
      /\ a.log.snapIndex <= a.log.applied
  BY NodeIndices
<1>2. /\ b.log.applied \in Nat /\ lastIndex(b.log) \in Nat /\ b.log.committed \in Nat
      /\ b.log.applied <= b.log.committed /\ b.log.committed <= lastIndex(b.log)
  BY NodeIndices
<1>3. i \in Nat /\ i > a.log.snapIndex /\ i <= lastIndex(a.log)
  BY <1>1, <1>2, SMTT(300)
<1> QED  BY <1>1, <1>3, EntryAtType DEF entryAt

\* The histories and the network after drainReady.
LEMMA DrainedHistory ==
    ASSUME TypeInv, NEW n \in Server, NEW g, NEW d, NEW pending \in SUBSET net,
           NEW transfers, Transfers(transfers), NodeOK(g.raft), g.raft.id = n,
           d \in GroupState, NodeOK(d.raft), Kept(g, d),
           Drained(n, g, d, pending, transfers)
    PROVE  /\ elections' \subseteq [term : Nat, leader : Server, votes : SUBSET Server]
           /\ decided' \subseteq [index : Nat, entry : Entry]
           /\ acked' \subseteq Nat /\ served' \subseteq Read
           /\ net' \subseteq Message /\ \A m \in net' : m.type # MsgSnap
           /\ Transfers(snaps')
<1>1. /\ g.raft.term \in Nat /\ g.raft.votes \in SUBSET Server
      /\ g.raft.msgs \subseteq Message
  BY DEF NodeOK, NodeState
<1>2. elections' \subseteq [term : Nat, leader : Server, votes : SUBSET Server]
  BY <1>1, SMTT(300) DEF Drained, TypeInv, TypeOK
<1>3. decided' \subseteq [index : Nat, entry : Entry]
  <2>1. \A i \in (g.raft.log.applied + 1) .. d.raft.log.applied :
           i \in Nat /\ entryAt(g.raft.log, i) \in Entry
    BY AppliedType DEF Kept
  <2>2. decided \subseteq [index : Nat, entry : Entry]
    BY DEF TypeInv, TypeOK
  <2> QED  BY <2>1, <2>2, SMTT(300) DEF Drained
<1>4. acked' \subseteq Nat /\ served' \subseteq Read
  <2>1. /\ d.acks \subseteq Nat /\ d.signalled \subseteq Read
        /\ acked \subseteq Nat /\ served \subseteq Read
    BY DEF GroupState, TypeInv, TypeOK
  <2> QED  BY <2>1 DEF Drained, Read
<1>5. net' \subseteq Message /\ \A m \in net' : m.type # MsgSnap
  BY <1>1 DEF Drained, TypeInv, TypeOK
<1>6. Transfers(snaps')
  <2>1. snaps' = sendSnapshot(transfers, n, g.raft.msgs)
    BY DEF Drained
  <2> QED  BY <1>1, <2>1, SendSnapshotType
<1> QED  BY <1>2, <1>3, <1>4, <1>5, <1>6

\* An iteration of the loop that drains its Ready.
LEMMA DrainedStep ==
    ASSUME TypeInv, NEW n \in Server, NEW g, NEW S \in SUBSET net,
           NEW pending \in SUBSET net, NEW transfers, Transfers(transfers),
           ~ group[n].raft.panicked, Entered(n, g, S),
           ~ g.raft.panicked, Drained(n, g, drainReady(g), pending, transfers),
           floor' \in [ReadId -> SUBSET Nat]
    PROVE  TypeInv' /\ BallotStep(n)
<1> DEFINE d == drainReady(g)
<1>1. Drainable(g) /\ NodeOK(g.raft) /\ g.raft.id = n
  BY DEF TypeInv, GroupInv, Drainable, Entered, Elect, Settled
<1>2. /\ Drainable(d) /\ Saved(d) /\ Kept(g, d)
      /\ Drained(n, g, d, pending, transfers)
  BY <1>1, DrainReadyOK
<1> HIDE DEF d
<1>3. d \in GroupState /\ NodeOK(d.raft) /\ d.raft.id = n
  BY <1>1, <1>2 DEF Drainable, Kept
<1>4. group' = [group EXCEPT ![n] = [d EXCEPT !.acks = {}, !.signalled = {}]]
  BY <1>2 DEF Drained
<1>5. /\ group' \in [Server -> GroupState]
      /\ \A p \in Server : GroupInv(p, group'[p])
      /\ \A p \in Server \ {n} : group'[p] = group[p]
      /\ group'[n].raft = d.raft
  BY <1>2, <1>3, <1>4, DrainedGroup
<1>6. TypeInv'
  <2>1. /\ elections' \subseteq [term : Nat, leader : Server, votes : SUBSET Server]
        /\ decided' \subseteq [index : Nat, entry : Entry]
        /\ acked' \subseteq Nat /\ served' \subseteq Read
        /\ net' \subseteq Message /\ \A m \in net' : m.type # MsgSnap
        /\ Transfers(snaps')
    BY <1>1, <1>2, <1>3, DrainedHistory
  <2>2. TypeOK'
    BY <1>5, <2>1 DEF TypeOK, Transfers
  <2> QED  BY <1>5, <2>1, <2>2 DEF TypeInv, Transfers
<1>7. BallotStep(n)
  <2>1. /\ group'[n].raft.term = g.raft.term /\ group'[n].raft.vote = g.raft.vote
        /\ group'[n].raft.votes = g.raft.votes /\ group'[n].raft.role = g.raft.role
    BY <1>2, <1>5 DEF Kept
  <2>2. group[n].raft.msgs = {} /\ Elect(group[n].raft, g.raft, S)
    BY DEF TypeInv, GroupInv, Entered
  <2>3. \A x \in Grants(net') : x \in Grants(net) \/ x \in Grants(g.raft.msgs)
    BY <1>2 DEF Drained, Grants
  <2>4. \A e \in elections' :
          \/ e \in elections
          \/ /\ g.raft.role = Leader
             /\ e = [term |-> g.raft.term, leader |-> n, votes |-> g.raft.votes]
    BY <1>2 DEF Drained
  <2> QED  BY <1>1, <1>5, <2>1, <2>2, <2>3, <2>4, ElectIsBallotStep
<1> QED  BY <1>6, <1>7

\* Both ways an iteration can end.
LEMMA LoopStep ==
    ASSUME TypeInv, NEW n \in Server, NEW g, NEW S \in SUBSET net,
           NEW pending \in SUBSET net, NEW transfers, Transfers(transfers),
           ~ group[n].raft.panicked, Entered(n, g, S),
           Loop(n, g, pending, transfers), floor' \in [ReadId -> SUBSET Nat]
    PROVE  TypeInv' /\ BallotStep(n)
<1>1. CASE Panic(n, pending, transfers)
  BY <1>1, PanicStep
<1>2. CASE ~ g.raft.panicked /\ Drained(n, g, drainReady(g), pending, transfers)
  BY <1>2, DrainedStep
<1> QED  BY <1>1, <1>2 DEF Loop

\* A handler run on a healthy server enters drainReady in a drainable state.
LEMMA EnterStep ==
    ASSUME TypeInv, NEW n \in Server, NEW b, NEW S, Elect(group[n].raft, b, S),
           NEW w \in SUBSET Value, NEW rd \in SUBSET ReadId, NEW f \in Nat
    PROVE  Entered(n, [group[n] EXCEPT !.raft = b, !.waiters = w, !.reads = rd,
                                       !.flushed = f], S)
<1> DEFINE g == [group[n] EXCEPT !.raft = b, !.waiters = w, !.reads = rd, !.flushed = f]
<1>1. group[n] \in GroupState /\ b \in NodeState
  BY DEF TypeInv, TypeOK, Elect, Settled, NodeOK
<1>2. g \in GroupState /\ g.raft = b /\ g.disk = group[n].disk
  BY <1>1 DEF GroupState
<1> QED  BY <1>2 DEF Entered
----------------------------------------------------------------------------
(* Every kind of step *)

\* A group that reopens at no older a term, with its vote if at the same one.
LEMMA ReopenStep ==
    ASSUME TypeInv, NEW n \in Server, NEW d \in DiskState, NEW a \in Nat,
           group' = [group EXCEPT ![n] = openGroup(n, d, a)], Transfers(snaps'),
           UNCHANGED <<net, elections, decided, acked, floor, served>>,
           \/ d.term > group[n].raft.term
           \/ d.term = group[n].raft.term /\ d.vote = group[n].raft.vote
    PROVE  TypeInv' /\ BallotStep(n)
<1> DEFINE r == group[n].raft
           h == openGroup(n, d, a)
<1>1. group \in [Server -> GroupState] /\ r.term \in Nat /\ d.term \in Nat
  BY DEF TypeInv, TypeOK, GroupState, NodeState, DiskState
<1>2. /\ h \in GroupState /\ GroupInv(n, h) /\ h.raft.term = d.term
      /\ h.raft.vote = d.vote /\ h.raft.votes = {} /\ h.raft.role = Follower
  BY OpenGroupOK, SMTT(300)
<1> HIDE DEF h
<1>3. /\ group' \in [Server -> GroupState] /\ group'[n] = h
      /\ \A p \in Server \ {n} : group'[p] = group[p]
  BY <1>1, <1>2 DEF h
<1>4. TypeInv'
  <2>1. TypeOK'
    BY <1>3 DEF TypeInv, TypeOK, Transfers
  <2>2. \A p \in Server : GroupInv(p, group'[p])
    BY <1>2, <1>3 DEF TypeInv
  <2>3. \A m \in net' : m.type # MsgSnap
    BY DEF TypeInv
  <2> QED  BY <2>1, <2>2, <2>3 DEF TypeInv, Transfers
<1>5. BallotStep(n)
  <2>1. h.raft.role # Leader
    BY <1>2 DEF Leader, Follower
  <2> QED  BY <1>1, <1>2, <1>3, <2>1, SMTT(300) DEF BallotStep
<1> QED  BY <1>4, <1>5

\* A restart recovers term and vote, and a healthy member or none.
LEMMA RestartStep ==
    ASSUME TypeInv, NEW n \in Server, NEW d \in DiskState, Restart(n, d),
           d.term = group[n].disk.term, d.vote = group[n].disk.vote
    PROVE  TypeInv' /\ BallotStep(n)
<1> DEFINE r == group[n].raft
<1>1. /\ group[n].flushed \in Nat /\ r.log.applied \in Nat
      /\ d.term = r.term /\ d.vote = r.vote
  BY SMTT(300) DEF TypeInv, TypeOK, GroupState, GroupInv, NodeState, LogState
<1>2. PICK a \in group[n].flushed .. r.log.applied :
          group' = [group EXCEPT ![n] = openGroup(n, d, a)]
  BY DEF Restart
<1>3. a \in Nat
  BY <1>1, SMTT(300)
<1>4. Transfers(snaps')
  <2> SUFFICES ASSUME NEW s \in snaps'
               PROVE  s \in Snap /\ (~ s.taken => s.from \in Server)
    BY DEF Transfers
  <2>1. PICK x \in snaps \ brokenStreams(n) : s = orphaned(n, x)
    BY DEF Restart
  <2>2. x \in Snap /\ (~ x.taken => x.from \in Server)
    BY DEF TypeInv, TypeOK
  <2>3. CASE x.from = n
    <3>1. x.taken
      BY <2>3 DEF brokenStreams
    <3>2. s = [x EXCEPT !.from = Nil]
      BY <2>1, <2>3 DEF orphaned
    <3> QED  BY <2>2, <3>1, <3>2 DEF Snap
  <2>4. CASE x.from # n
    BY <2>1, <2>2, <2>4 DEF orphaned
  <2> QED  BY <2>3, <2>4
<1>5. UNCHANGED <<net, elections, decided, acked, floor, served>>
  BY DEF Restart
<1> QED  BY <1>1, <1>2, <1>3, <1>4, <1>5, ReopenStep

\* Installing a snapshot reopens the group, perhaps at the sender's newer term.
LEMMA InstallStep ==
    ASSUME TypeInv, NEW s \in snaps, InstallSnapshot(s)
    PROVE  TypeInv' /\ \E n \in Server : BallotStep(n)
<1> DEFINE n == s.to
           nd == group[n].raft
           b == boundaryFile(nd, s)
<1>1. s \in Snap /\ n \in Server /\ s.term \in Nat /\ s.index \in Nat
      /\ s.snapTerm \in Nat
  BY DEF TypeInv, TypeOK, Snap
<1>2. /\ group[n].disk \in DiskState /\ nd.term \in Nat /\ nd.vote \in Server \cup {Nil}
      /\ nd.log.applied \in Nat
      /\ group[n].disk.term = nd.term /\ group[n].disk.vote = nd.vote
  BY <1>1, SMTT(300) DEF TypeInv, TypeOK, GroupState, GroupInv, NodeState, LogState
<1>3. Transfers(snaps')
  BY DEF InstallSnapshot, TypeInv, TypeOK, Transfers
<1>4. UNCHANGED <<net, elections, decided, acked, floor, served>>
  BY DEF InstallSnapshot
<1>5. CASE group' = [group EXCEPT ![n] = openGroup(n, group[n].disk, nd.log.applied)]
  <2> DEFINE d == group[n].disk
             a == nd.log.applied
  <2>1. /\ d \in DiskState /\ a \in Nat /\ d.term = nd.term /\ d.vote = nd.vote
        /\ group' = [group EXCEPT ![n] = openGroup(n, d, a)]
    BY <1>2, <1>5
  <2> HIDE DEF d, a, n
  <2> QED  BY <1>1, <1>3, <1>4, <2>1, ReopenStep
<1>6. CASE ~ discards(nd, s) /\ group' = [group EXCEPT ![n] = openGroup(n, b, s.index)]
  <2>1. ~ (s.term < nd.term)
    BY <1>6 DEF discards
  <2>2. /\ b \in DiskState /\ b.term = maxOf(nd.term, s.term)
        /\ b.vote = IF s.term > nd.term THEN Nil ELSE nd.vote
    <3>1. maxOf(nd.term, s.term) \in Nat
      BY <1>1, <1>2 DEF maxOf
    <3>2. <<>> \in Seq(Entry)
      BY SMTT(300)
    <3> QED  BY <1>1, <1>2, <3>1, <3>2 DEF boundaryFile, DiskState
  <2>3. b.term > nd.term \/ (b.term = nd.term /\ b.vote = nd.vote)
    BY <1>1, <1>2, <2>1, <2>2, SMTT(300) DEF maxOf
  <2> HIDE DEF b, n
  <2> QED  BY <1>1, <1>3, <1>4, <1>6, <2>2, <2>3, ReopenStep
<1>7. \/ group' = [group EXCEPT ![n] = openGroup(n, group[n].disk, nd.log.applied)]
      \/ ~ discards(nd, s) /\ group' = [group EXCEPT ![n] = openGroup(n, b, s.index)]
  BY DEF InstallSnapshot
<1> QED  BY <1>5, <1>6, <1>7

\* The checkpoint of a transfer is taken in an iteration that changes no member.
LEMMA TakeStep ==
    ASSUME TypeInv, NEW s \in snaps, TakeSnapshot(s)
    PROVE  TypeInv' /\ \E n \in Server : BallotStep(n)
<1> DEFINE n == s.from
           r == group[n].raft
           f == r.log.applied
           x == [s EXCEPT !.taken = TRUE, !.index = r.log.applied,
                          !.snapTerm = termAt(r.log, r.log.applied)]
           T == (snaps \ {s}) \cup {x}
           g == [group[n] EXCEPT !.raft = r, !.waiters = group[n].waiters,
                                 !.reads = group[n].reads, !.flushed = f]
<1>1. s \in Snap /\ n \in Server
  BY DEF TypeInv, TypeOK, TakeSnapshot
<1>2. /\ group[n] \in GroupState /\ group[n].waiters \in SUBSET Value
      /\ group[n].reads \in SUBSET ReadId /\ floor \in [ReadId -> SUBSET Nat]
  BY <1>1 DEF TypeInv, TypeOK, GroupState
<1>3. ~ r.panicked /\ UNCHANGED floor /\ Loop(n, [group[n] EXCEPT !.flushed = f], net, T)
  BY DEF TakeSnapshot
<1>4. NodeOK(r)
  BY <1>1, <1>3 DEF TypeInv, GroupInv
<1>5. r \in NodeState /\ r.log \in LogState /\ f \in Nat
  BY <1>4, NodeIndices
<1>6. termAt(r.log, f) \in Nat
  BY <1>4, <1>5, NodeIndices, LogIndexType, SMTT(300) DEF hasTerm
<1>7. Transfers(T)
  <2>1. x \in Snap /\ x.taken
    BY <1>1, <1>5, <1>6 DEF Snap
  <2> HIDE DEF x
  <2> QED  BY <2>1 DEF Transfers, TypeInv, TypeOK
<1>8. Elect(r, r, {})
  BY <1>4, <1>5, QuietReflexive, QuietElect
<1>9. g = [group[n] EXCEPT !.flushed = f]
  BY <1>2 DEF GroupState
<1> HIDE DEF T, f
<1>10. Entered(n, g, {})
  BY <1>1, <1>2, <1>5, <1>8, EnterStep DEF f
<1>11. Loop(n, g, net, T)
  BY <1>3, <1>9
<1> HIDE DEF g, n
<1> QED  BY <1>1, <1>2, <1>3, <1>7, <1>10, <1>11, LoopStep

\* Every step is a step of one server that keeps the type invariant.
LEMMA NextStep ==
    ASSUME TypeInv, Next
    PROVE  TypeInv' /\ \E n \in Server : BallotStep(n)
<1>0. /\ floor \in [ReadId -> SUBSET Nat] /\ acked \subseteq Nat
      /\ \A n \in Server : /\ group[n] \in GroupState
                           /\ group[n].waiters \in SUBSET Value
                           /\ group[n].reads \in SUBSET ReadId
                           /\ group[n].flushed \in Nat
      /\ Transfers(snaps)
  BY DEF TypeInv, TypeOK, GroupState, Transfers
<1>1. ASSUME NEW n \in Server, ~ group[n].raft.panicked
      PROVE  /\ NodeOK(group[n].raft) /\ Grants(group[n].raft.msgs) = {}
             /\ group[n].raft.id = n /\ group[n].raft \in NodeState
  BY <1>1 DEF TypeInv, GroupInv, Grants, NodeOK
<1>2. ASSUME NEW n \in Server, ~ group[n].raft.panicked, NEW b, NEW S \in SUBSET net,
             NEW pending \in SUBSET net, Elect(group[n].raft, b, S),
             Loop(n, [group[n] EXCEPT !.raft = b], pending, snaps), UNCHANGED floor
      PROVE  TypeInv' /\ BallotStep(n)
  <2> DEFINE g == [group[n] EXCEPT !.raft = b, !.waiters = group[n].waiters,
                                   !.reads = group[n].reads,
                                   !.flushed = group[n].flushed]
  <2>1. g = [group[n] EXCEPT !.raft = b]
    BY <1>0 DEF GroupState
  <2>2. Entered(n, g, S)
    BY <1>0, <1>2, EnterStep
  <2>3. Loop(n, g, pending, snaps)
    BY <1>2, <2>1
  <2> HIDE DEF g
  <2> QED  BY <1>0, <1>2, <2>2, <2>3, LoopStep
<1>3. ASSUME NEW n \in Server, Timeout(n)
      PROVE  TypeInv' /\ BallotStep(n)
  <2>1. ~ group[n].raft.panicked /\ UNCHANGED floor
        /\ Loop(n, [group[n] EXCEPT !.raft = Campaign(@)], net, snaps)
    BY <1>3 DEF Timeout
  <2>2. Elect(group[n].raft, Campaign(group[n].raft), {})
    BY <1>1, <2>1, CampaignElect
  <2>3. Loop(n, [group[n] EXCEPT !.raft = Campaign(group[n].raft)], net, snaps)
    BY <2>1
  <2> QED  BY <1>2, <2>1, <2>2, <2>3
<1>4. ASSUME NEW n \in Server, Heartbeat(n)
      PROVE  TypeInv' /\ BallotStep(n)
  <2>1. ~ group[n].raft.panicked /\ UNCHANGED floor
        /\ Loop(n, [group[n] EXCEPT !.raft = bcastHeartbeat(@)], net, snaps)
    BY <1>4 DEF Heartbeat
  <2>2. Elect(group[n].raft, bcastHeartbeat(group[n].raft), {})
    BY <1>1, <2>1, BcastHeartbeatQuiet, QuietElect
  <2>3. Loop(n, [group[n] EXCEPT !.raft = bcastHeartbeat(group[n].raft)], net, snaps)
    BY <2>1
  <2> QED  BY <1>2, <2>1, <2>2, <2>3
<1>5. ASSUME NEW m \in net, Receive(m)
      PROVE  TypeInv' /\ \E n \in Server : BallotStep(n)
  <2> DEFINE n == m.to
  <2>1. m \in Message /\ n \in Server /\ m.type # MsgSnap
    BY DEF TypeInv, TypeOK, Message
  <2>2. PICK pending \in SUBSET net :
            Loop(n, [group[n] EXCEPT !.raft = Step(@, m)], pending, snaps)
    BY <1>5 DEF Receive
  <2>3. ~ group[n].raft.panicked /\ UNCHANGED floor
    BY <1>5 DEF Receive
  <2>4. Elect(group[n].raft, Step(group[n].raft, m), {m})
    BY <1>1, <2>1, <2>3, StepElect
  <2>5. Loop(n, [group[n] EXCEPT !.raft = Step(group[n].raft, m)], pending, snaps)
    BY <2>2
  <2> HIDE DEF n
  <2>6. {m} \in SUBSET net
    OBVIOUS
  <2> QED  BY <1>2, <2>1, <2>3, <2>4, <2>5, <2>6
<1>6. ASSUME NEW n \in Server, NEW v \in Value, Propose(n, v)
      PROVE  TypeInv' /\ BallotStep(n)
  <2> DEFINE b == handlePropose(group[n].raft, v)
             w == group[n].waiters \cup {v}
             g == [group[n] EXCEPT !.raft = b, !.waiters = w, !.reads = group[n].reads,
                                   !.flushed = group[n].flushed]
  <2>1. ~ group[n].raft.panicked /\ UNCHANGED floor
        /\ Loop(n, [group[n] EXCEPT !.raft = handlePropose(@, v),
                                    !.waiters = @ \cup {v}], net, snaps)
    BY <1>6 DEF Propose
  <2>2. Elect(group[n].raft, b, {})
    BY <1>1, <2>1, ProposeQuiet, QuietElect
  <2>3. g = [group[n] EXCEPT !.raft = handlePropose(@, v), !.waiters = @ \cup {v}]
    BY <1>0 DEF GroupState
  <2>4. w \in SUBSET Value
    BY <1>0
  <2> HIDE DEF b, w
  <2>5. Entered(n, g, {})
    BY <1>0, <2>2, <2>4, EnterStep
  <2>6. Loop(n, g, net, snaps)
    BY <2>1, <2>3
  <2> HIDE DEF g
  <2> QED  BY <1>0, <2>1, <2>5, <2>6, LoopStep
<1>7. ASSUME NEW n \in Server, NEW id \in ReadId, RequestRead(n, id)
      PROVE  TypeInv' /\ BallotStep(n)
  <2> DEFINE b == ReadIndex(group[n].raft, id)
             rd == group[n].reads \cup {id}
             g == [group[n] EXCEPT !.raft = b, !.waiters = group[n].waiters, !.reads = rd,
                                   !.flushed = group[n].flushed]
  <2>1. ~ group[n].raft.panicked /\ floor' = [floor EXCEPT ![id] = acked]
        /\ Loop(n, [group[n] EXCEPT !.raft = ReadIndex(@, id),
                                    !.reads = @ \cup {id}], net, snaps)
    BY <1>7 DEF RequestRead
  <2>2. Elect(group[n].raft, b, {})
    BY <1>1, <2>1, ReadIndexQuiet, QuietElect
  <2>3. g = [group[n] EXCEPT !.raft = ReadIndex(@, id), !.reads = @ \cup {id}]
    BY <1>0 DEF GroupState
  <2>4. rd \in SUBSET ReadId /\ floor' \in [ReadId -> SUBSET Nat]
    BY <1>0, <2>1
  <2> HIDE DEF b, rd
  <2>5. Entered(n, g, {})
    BY <1>0, <2>2, <2>4, EnterStep
  <2>6. Loop(n, g, net, snaps)
    BY <2>1, <2>3
  <2> HIDE DEF g
  <2> QED  BY <1>0, <2>1, <2>4, <2>5, <2>6, LoopStep
<1>8. ASSUME NEW n \in Server, NEW target \in Server, Transfer(n, target)
      PROVE  TypeInv' /\ BallotStep(n)
  <2>1. ~ group[n].raft.panicked /\ UNCHANGED floor
        /\ Loop(n, [group[n] EXCEPT !.raft = TransferLeader(@, target)], net, snaps)
    BY <1>8 DEF Transfer
  <2>2. Elect(group[n].raft, TransferLeader(group[n].raft, target), {})
    BY <1>1, <2>1, TransferQuiet, QuietElect
  <2>3. Loop(n, [group[n] EXCEPT !.raft = TransferLeader(group[n].raft, target)], net, snaps)
    BY <2>1
  <2> QED  BY <1>2, <2>1, <2>2, <2>3
<1>9. ASSUME NEW n \in Server, Crash(n)
      PROVE  TypeInv' /\ BallotStep(n)
  <2>1. group[n].disk \in DiskState
    BY <1>0 DEF GroupState
  <2> QED  BY <1>9, <2>1, RestartStep DEF Crash
<1>10. ASSUME NEW m \in net, CrashDuringSave(m)
       PROVE  TypeInv' /\ \E n \in Server : BallotStep(n)
  <2> DEFINE n == m.to
             h == Step(group[n].raft, m)
             d == saveReadyEntries(group[n].disk, h)
  <2>1. m \in Message /\ n \in Server /\ m.type # MsgSnap
    BY DEF TypeInv, TypeOK, Message
  <2>2. ~ group[n].raft.panicked /\ Restart(n, d)
    BY <1>10 DEF CrashDuringSave
  <2>3. Elect(group[n].raft, h, {m})
    BY <1>1, <2>1, <2>2, StepElect
  <2>4. group[n].disk \in DiskState /\ group[n].disk.snapIndex = group[n].raft.log.snapIndex
    BY <1>0, <2>1 DEF GroupState, TypeInv, GroupInv
  <2> HIDE DEF h
  <2>5. NodeOK(h) /\ group[n].disk.snapIndex = h.log.snapIndex
    BY <2>3, <2>4 DEF Elect, Settled
  <2>6. d \in DiskState /\ d.term = group[n].disk.term /\ d.vote = group[n].disk.vote
    BY <2>4, <2>5, SaveReadyType, SMTT(300)
  <2> HIDE DEF d, n
  <2> QED  BY <2>1, <2>2, <2>6, RestartStep
<1>11. ASSUME NEW s \in snaps, SnapshotFails(s)
       PROVE  TypeInv' /\ \E n \in Server : BallotStep(n)
  <2>1. s.to \in Server
    BY SMTT(300) DEF TypeInv, TypeOK, Snap
  <2>2. TypeInv'
    BY <1>11, SMTT(300) DEF SnapshotFails, TypeInv, TypeOK
  <2>3. BallotStep(s.to)
    <3>1. /\ group' = group /\ net' = net /\ elections' = elections
          /\ group[s.to].raft.term \in Nat
      BY <1>11, <2>1, SMTT(300) DEF SnapshotFails, TypeInv, TypeOK, GroupState, NodeState
    <3>2. group[s.to].raft.term >= group[s.to].raft.term
      BY <3>1, SMTT(300)
    <3> QED  BY <3>1, <3>2 DEF BallotStep
  <2> QED  BY <2>1, <2>2, <2>3, SMTT(300)
<1>12. ASSUME NEW s \in snaps, TakeSnapshot(s) \/ InstallSnapshot(s)
       PROVE  TypeInv' /\ \E n \in Server : BallotStep(n)
  BY <1>12, TakeStep, InstallStep, SMTT(300)
<1> QED  BY <1>3, <1>4, <1>5, <1>6, <1>7, <1>8, <1>9, <1>10, <1>11, <1>12
         DEF Next, RunNext, ReopenNext
============================================================================
