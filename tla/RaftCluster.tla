---------------------------- MODULE RaftCluster ----------------------------
(***************************************************************************)
(* A replicated group: every server runs the loop of cluster/group.go      *)
(* around one Raft member, persists through internal/raft/storage.go, and  *)
(* exchanges messages over a network that reorders, loses and duplicates   *)
(* them (the last two as Lossy and Redeliver allow).  One action is one    *)
(* iteration of the loop: a select case followed by drainReady.  Servers   *)
(* crash between iterations and in the middle of SaveReady, and restart    *)
(* from disk.  A follower behind the compacted log is sent a snapshot      *)
(* (cluster/snapshot.go): a stream beside the message traffic.             *)
(***************************************************************************)
EXTENDS RaftNode

CONSTANTS
    SnapshotEvery,    \* applied entries between log compactions; 0 is never
    Lossy,            \* may the network lose a message?
    Redeliver,        \* may the network deliver a message again?
    MaxTerm,          \* no election starts beyond this term
    MaxLog,           \* no proposal is made at a log of this length
    MaxInFlight       \* messages in the network at a time

ASSUME BoundsAssumption ==
    /\ {Lossy, Redeliver} \subseteq BOOLEAN
    /\ {SnapshotEvery, MaxTerm, MaxLog, MaxInFlight} \subseteq Nat

VARIABLES
    group,            \* the state of each server's group loop and its disk
    net,              \* the messages that may still be delivered
    snaps,            \* the snapshot transfers under way
    elections,        \* history: who led in which term, elected by which votes
    decided,          \* history: what any state machine applied, by index
    acked,            \* history: the log indices clients have seen the effect of
    floor,            \* history: acked when each read was requested; {} before
    served            \* history: at which applied index each read was served

vars == <<group, net, snaps, elections, decided, acked, floor, served>>

(***************************************************************************)
(* What OpenStorage would recover.  gap: the file holds entries that do    *)
(* not follow the ones before them, and cannot be opened.                  *)
(***************************************************************************)
DiskState == [term : Nat, vote : Server \cup {Nil}, commit : Nat,
              snapIndex : Nat, snapTerm : Nat, entries : Seq(Entry),
              gap : BOOLEAN]

(***************************************************************************)
(* The group struct.  flushed is the applied index the engine would        *)
(* recover: it runs without a WAL, so applied batches become durable when  *)
(* a memtable is flushed, and at the latest with a snapshot.  acks and     *)
(* signalled collect, within one iteration, the indices of the proposals   *)
(* and the reads (with the applied index) that were answered successfully. *)
(***************************************************************************)
GroupState ==
    [raft : NodeState, disk : DiskState, snapAt : Nat, flushed : Nat,
     waiters : SUBSET Value, reads : SUBSET ReadId,
     acks : SUBSET Nat, signalled : SUBSET Read]

(***************************************************************************)
(* A transfer: requested until its sender's loop has taken the checkpoint, *)
(* then a stream of the state at index.  Nil has sent it when its sender   *)
(* crashed after the last chunk.                                           *)
(***************************************************************************)
Snap == [from : Server \cup {Nil}, to : Server, term : Nat, taken : BOOLEAN,
         index : Nat, snapTerm : Nat]

newDisk == [term |-> 0, vote |-> Nil, commit |-> 0, snapIndex |-> 0,
            snapTerm |-> 0, entries |-> <<>>, gap |-> FALSE]
----------------------------------------------------------------------------
(* Storage *)

\* AppendEntries: ents follow index `after` on disk.
saveEntries(d, after, ents) ==
    IF after - d.snapIndex > Len(d.entries)
    THEN [d EXCEPT !.gap = TRUE]
    ELSE [d EXCEPT !.entries = SubSeq(@, 1, after - d.snapIndex) \o ents]

\* Mutant: the vote is not persisted.
saveTermAndCommit(d, nd) ==
    [d EXCEPT !.term = nd.term, !.commit = nd.log.committed]

saveHardState(d, nd) ==
    [d EXCEPT !.term = nd.term, !.vote = nd.vote, !.commit = nd.log.committed]

unstable(nd) ==
    IF lastIndex(nd.log) > nd.stabled
    THEN slice(nd.log, nd.stabled + 1, lastIndex(nd.log))
    ELSE <<>>

saveReadyEntries(d, nd) ==
    IF unstable(nd) = <<>> THEN d ELSE saveEntries(d, nd.stabled, unstable(nd))

SaveReady(d, nd) == saveHardState(saveReadyEntries(d, nd), nd)

\* Mutant: the rewritten file keeps the boundary and loses the entries after it.
RewriteBoundary(nd) ==
    [term |-> nd.term, vote |-> nd.vote, commit |-> nd.log.committed,
     snapIndex |-> nd.log.snapIndex, snapTerm |-> nd.log.snapTerm,
     entries |-> <<>>, gap |-> FALSE]

Rewrite(nd) ==
    [term |-> nd.term, vote |-> nd.vote, commit |-> nd.log.committed,
     snapIndex |-> nd.log.snapIndex, snapTerm |-> nd.log.snapTerm,
     entries |-> nd.log.entries, gap |-> FALSE]

(***************************************************************************)
(* RestoreNode after a restart: the log from disk, the applied index from  *)
(* the engine.  An unreadable file, a commit index beyond the log and an   *)
(* applied index outside snapIndex..committed stop the process.            *)
(***************************************************************************)
newNode(id, d, appliedIndex) ==
    LET commit == maxOf(d.commit, d.snapIndex)
        last   == d.snapIndex + Len(d.entries)
    IN  [id |-> id, role |-> Follower, term |-> d.term, vote |-> d.vote,
         lead |-> Nil,
         log |-> [entries |-> d.entries, snapIndex |-> d.snapIndex,
                  snapTerm |-> d.snapTerm, committed |-> commit,
                  applied |-> appliedIndex],
         stabled |-> last, votes |-> {}, preVotes |-> {},
         next |-> [p \in Server |-> 1], match |-> [p \in Server |-> 0],
         transferee |-> Nil, pendingReads |-> {}, roundReads |-> {},
         readReady |-> {}, readAcks |-> {}, msgs |-> {},
         panicked |-> \/ d.gap
                      \/ commit > last
                      \/ appliedIndex \notin d.snapIndex .. commit]

openGroup(id, d, appliedIndex) ==
    [raft |-> newNode(id, d, appliedIndex), disk |-> d, snapAt |-> appliedIndex,
     flushed |-> appliedIndex, waiters |-> {}, reads |-> {}, acks |-> {},
     signalled |-> {}]
----------------------------------------------------------------------------
(***************************************************************************)
(* drainReady.  One pass persists the Ready, applies it, answers waiters,  *)
(* sends, advances the core and compacts.  Messages arise only in the      *)
(* select case, so the first pass sends them all.  The first pass may      *)
(* commit, the second then applies, the third answers the reads that       *)
(* waited for it, and HasReady is false.                                   *)
(***************************************************************************)
\* Mutant: persisted entries are applied whether committed or not.
applyStabled(nd) == maxOf(nd.log.applied, maxOf(nd.log.committed, nd.stabled))

applyTo(nd) == maxOf(nd.log.applied, minOf(nd.log.committed, nd.stabled))

newlyApplied(nd) == (nd.log.applied + 1) .. applyTo(nd)

entryAt(l, i) == l.entries[i - l.snapIndex]

readyReadStates(nd) == {r \in nd.readReady : r.index <= nd.log.applied}

\* Mutant: a served read stays queued.
keepReads(nd) == nd.readReady

unservedReads(nd) == nd.readReady \ readyReadStates(nd)

Advance(nd) ==
    LET s == IF unstable(nd) = <<>>
             THEN nd
             ELSE maybeCommit([nd EXCEPT !.stabled = lastIndex(nd.log)])
    IN  [s EXCEPT !.log.applied = applyTo(nd),
                  !.readReady   = unservedReads(nd),
                  !.msgs        = {}]

signalWaiters(g) ==
    LET done == {i \in newlyApplied(g.raft) : entryAt(g.raft.log, i).data \in g.waiters}
    IN  [g EXCEPT !.waiters   = @ \ {entryAt(g.raft.log, i).data : i \in done},
                  !.acks      = @ \cup done,
                  !.reads     = @ \ {r.id : r \in readyReadStates(g.raft)},
                  !.signalled = @ \cup {[id |-> r.id, index |-> applyTo(g.raft)] :
                                    r \in {x \in readyReadStates(g.raft) : x.id \in g.reads}}]

\* Mutant: stepping down leaves the waiters registered.
publishOnly(g) == g

\* A node that is not the leader fails what still waits.
publishStatus(g) ==
    IF g.raft.role = Leader THEN g ELSE [g EXCEPT !.waiters = {}, !.reads = {}]

\* Mutant: the log is compacted without making the applied state durable.
compactOnly(g) ==
    IF SnapshotEvery = 0 \/ g.raft.log.applied < g.snapAt + SnapshotEvery
    THEN g
    ELSE LET c == [g.raft EXCEPT !.log = compactTo(@, g.raft.log.applied)]
         IN  [g EXCEPT !.raft = c, !.disk = Rewrite(c), !.snapAt = c.log.applied]

maybeSnapshot(g) ==
    IF SnapshotEvery = 0 \/ g.raft.log.applied < g.snapAt + SnapshotEvery
    THEN g
    ELSE LET c == [g.raft EXCEPT !.log = compactTo(@, g.raft.log.applied)]
         IN  [g EXCEPT !.raft = c, !.disk = Rewrite(c),
                       !.snapAt = c.log.applied, !.flushed = c.log.applied]

drainPass(g) ==
    LET p == publishStatus(signalWaiters(
                 [g EXCEPT !.disk = SaveReady(@, g.raft)]))
    IN  maybeSnapshot([p EXCEPT !.raft = Advance(@)])

HasReady(g) ==
    \/ g.raft.msgs # {}
    \/ <<g.disk.term, g.disk.vote, g.disk.commit>>
          # <<g.raft.term, g.raft.vote, g.raft.log.committed>>
    \/ unstable(g.raft) # <<>>
    \/ newlyApplied(g.raft) # {}
    \/ readyReadStates(g.raft) # {}

passIfReady(g) == IF HasReady(g) THEN drainPass(g) ELSE g

drainReady(g) == passIfReady(passIfReady(passIfReady(g)))
----------------------------------------------------------------------------
(***************************************************************************)
(* sendSnapshot: one transfer per follower at a time, other requests are   *)
(* dropped.                                                                *)
(***************************************************************************)
snapInFlight(transfers, n, to) == \E s \in transfers : s.from = n /\ s.to = to

sendSnapshot(transfers, n, msgs) ==
    transfers \cup
        {[from |-> n, to |-> m.to, term |-> m.term, taken |-> FALSE, index |-> 0,
          snapTerm |-> 0] :
            m \in {x \in msgs : x.type = MsgSnap /\ ~ snapInFlight(transfers, n, x.to)}}
----------------------------------------------------------------------------
Init ==
    /\ group = [n \in Server |-> openGroup(n, newDisk, 0)]
    /\ net = {}
    /\ snaps = {}
    /\ elections = {}
    /\ decided = {}
    /\ acked = {0}
    /\ floor = [r \in ReadId |-> {}]
    /\ served = {}

(***************************************************************************)
(* The end of an iteration of n's loop, after a select case that leaves    *)
(* the group state g; pending are the messages still in the network, of    *)
(* the new ones those to the servers in reached are not lost; transfers    *)
(* are the snapshots under way.  A panic ends the process before anything  *)
(* is persisted or sent.                                                   *)
(* (A quantifier over a singleton set names a value TLC computes once.)    *)
(***************************************************************************)
Panic(n, pending, transfers) ==
    /\ group' = [group EXCEPT ![n].raft.panicked = TRUE]
    /\ net' = pending
    /\ snaps' = transfers
    /\ UNCHANGED <<elections, decided, acked, served>>

Drained(n, g, d, pending, transfers) ==
    LET nd == g.raft
        applied == (nd.log.applied + 1) .. d.raft.log.applied
    IN  /\ group' = [group EXCEPT ![n] = [d EXCEPT !.acks = {}, !.signalled = {}]]
        /\ \E reached \in IF Lossy THEN SUBSET {m.to : m \in nd.msgs}
                                  ELSE {{m.to : m \in nd.msgs}} :
              net' = pending \cup {m \in nd.msgs : m.to \in reached /\ m.type # MsgSnap}
        /\ Cardinality(net') <= MaxInFlight
        /\ snaps' = sendSnapshot(transfers, n, nd.msgs)
        /\ elections' = IF nd.role = Leader
                        THEN elections \cup {[term |-> nd.term, leader |-> n, votes |-> nd.votes]}
                        ELSE elections
        /\ decided' = decided \cup
                {[index |-> i, entry |-> entryAt(nd.log, i)] : i \in applied}
        /\ acked' = acked \cup d.acks \cup {r.index : r \in d.signalled}
        /\ served' = served \cup d.signalled

Loop(n, case, pending, transfers) ==
    \E g \in {case} :
        \/ g.raft.panicked /\ Panic(n, pending, transfers)
        \/ ~ g.raft.panicked /\ \E d \in {drainReady(g)} : Drained(n, g, d, pending, transfers)

\* Tick at the election timeout.
Timeout(n) ==
    LET nd == group[n].raft
    IN  /\ ~ nd.panicked
        /\ nd.role # Leader
        /\ nd.term < MaxTerm
        /\ Loop(n, [group[n] EXCEPT !.raft = Campaign(@)], net, snaps)
        /\ UNCHANGED floor

\* Tick at the leader's heartbeat interval.
Heartbeat(n) ==
    LET nd == group[n].raft
    IN  /\ ~ nd.panicked
        /\ nd.role = Leader
        /\ Loop(n, [group[n] EXCEPT !.raft = bcastHeartbeat(@)], net, snaps)
        /\ UNCHANGED floor

\* Would handling m start an election beyond the bound?
withinBound(nd, m) == nd.term < MaxTerm \/ Step(nd, m).term <= MaxTerm

Receive(m) ==
    LET n == m.to
        nd == group[n].raft
    IN  /\ ~ nd.panicked
        /\ withinBound(nd, m)
        /\ \E pending \in {net \ {m}} \cup {x \in {net} : Redeliver} :
                Loop(n, [group[n] EXCEPT !.raft = Step(@, m)], pending, snaps)
        /\ UNCHANGED floor

Propose(n, v) ==
    LET nd == group[n].raft
    IN  /\ ~ nd.panicked
        /\ canPropose(nd)
        /\ lastIndex(nd.log) < MaxLog
        /\ Loop(n, [group[n] EXCEPT !.raft = handlePropose(@, v),
                                    !.waiters = @ \cup {v}], net, snaps)
        /\ UNCHANGED floor

RequestRead(n, id) ==
    LET nd == group[n].raft
    IN  /\ ~ nd.panicked
        /\ floor[id] = {}
        /\ canRead(nd)
        /\ floor' = [floor EXCEPT ![id] = acked]
        /\ Loop(n, [group[n] EXCEPT !.raft = ReadIndex(@, id),
                                    !.reads = @ \cup {id}], net, snaps)

Transfer(n, target) ==
    LET nd == group[n].raft
    IN  /\ ~ nd.panicked
        /\ canTransfer(nd, target)
        /\ Loop(n, [group[n] EXCEPT !.raft = TransferLeader(@, target)], net, snaps)
        /\ UNCHANGED floor

(***************************************************************************)
(* A crash between iterations, and the restart.  The engine recovers some  *)
(* applied index between the last one known to be flushed and the latest.  *)
(***************************************************************************)
\* A crash ends the streams to n, and those from n that are not complete.
brokenStreams(n) == {s \in snaps : s.to = n \/ (s.from = n /\ ~ s.taken)}

orphaned(n, s) == IF s.from = n THEN [s EXCEPT !.from = Nil] ELSE s

Restart(n, d) ==
    /\ \E a \in group[n].flushed .. group[n].raft.log.applied :
            group' = [group EXCEPT ![n] = openGroup(n, d, a)]
    /\ snaps' = {orphaned(n, s) : s \in snaps \ brokenStreams(n)}
    /\ UNCHANGED <<net, elections, decided, acked, floor, served>>

Crash(n) == Restart(n, group[n].disk)

(***************************************************************************)
(* A crash inside SaveReady while handling m: the entries record reached   *)
(* the disk, the hard-state record did not, and no message was sent.       *)
(***************************************************************************)
CrashDuringSave(m) ==
    LET n == m.to
        h == Step(group[n].raft, m)
    IN  /\ ~ group[n].raft.panicked
        /\ ~ h.panicked
        /\ unstable(h) # <<>>
        /\ Restart(n, saveReadyEntries(group[n].disk, h))

(***************************************************************************)
(* A snapshot transfer.  The checkpoint is taken on the sender's loop,     *)
(* where the applied index stands then, and flushes the engine.  The       *)
(* receiver stops its group, which flushes too, and reopens it: over the   *)
(* checkpoint, with a raft file of nothing but the boundary, or unchanged  *)
(* if the stream is of an old term or not beyond the commit index.  A      *)
(* transfer may fail at any time.                                          *)
(***************************************************************************)
TakeSnapshot(s) ==
    LET n == s.from
        l == group[n].raft.log
    IN  /\ ~ s.taken
        /\ ~ group[n].raft.panicked
        /\ Loop(n, [group[n] EXCEPT !.flushed = l.applied], net,
                (snaps \ {s}) \cup
                    {[s EXCEPT !.taken = TRUE, !.index = l.applied,
                               !.snapTerm = termAt(l, l.applied)]})
        /\ UNCHANGED floor

\* Mutant: a snapshot of what is already committed here is installed too.
discardsOld(nd, s) == s.term < nd.term

discards(nd, s) == s.term < nd.term \/ s.index <= nd.log.committed

boundaryFile(nd, s) ==
    [term |-> maxOf(nd.term, s.term),
     vote |-> IF s.term > nd.term THEN Nil ELSE nd.vote,
     commit |-> s.index, snapIndex |-> s.index, snapTerm |-> s.snapTerm,
     entries |-> <<>>, gap |-> FALSE]

InstallSnapshot(s) ==
    LET n == s.to
        nd == group[n].raft
    IN  /\ s.taken
        /\ s.index # 0
        /\ ~ nd.panicked
        /\ group' = [group EXCEPT ![n] =
                         IF discards(nd, s)
                         THEN openGroup(n, group[n].disk, nd.log.applied)
                         ELSE openGroup(n, boundaryFile(nd, s), s.index)]
        /\ snaps' = snaps \ {s}
        /\ UNCHANGED <<net, elections, decided, acked, floor, served>>

SnapshotFails(s) ==
    /\ snaps' = snaps \ {s}
    /\ UNCHANGED <<group, net, elections, decided, acked, floor, served>>

\* The iterations of the loops of running groups.
RunNext ==
    \/ \E s \in snaps : TakeSnapshot(s) \/ SnapshotFails(s)
    \/ \E n \in Server : Timeout(n) \/ Heartbeat(n)
    \/ \E m \in net : Receive(m)
    \/ \E n \in Server, v \in Value : Propose(n, v)
    \/ \E n \in Server, id \in ReadId : RequestRead(n, id)
    \/ \E n, target \in Server : Transfer(n, target)

\* What closes a group and opens it again from its files.
ReopenNext ==
    \/ \E s \in snaps : InstallSnapshot(s)
    \/ \E n \in Server : Crash(n)
    \/ \E m \in net : CrashDuringSave(m)

Next == RunNext \/ ReopenNext

Spec == Init /\ [][Next]_vars

\* No group is reopened.
RunSpec == Init /\ [][RunNext]_vars
----------------------------------------------------------------------------
\* Every variable has the type its declaration in the code gives it.
TypeOK ==
    /\ group \in [Server -> GroupState]
    /\ net \subseteq Message
    /\ snaps \subseteq Snap
    /\ elections \subseteq [term : Nat, leader : Server, votes : SUBSET Server]
    /\ decided \subseteq [index : Nat, entry : Entry]
    /\ acked \subseteq Nat
    /\ floor \in [ReadId -> SUBSET Nat]
    /\ served \subseteq Read

raftOf(n) == group[n].raft

(***************************************************************************)
(* At most one server ever becomes leader in a term, whatever is lost,     *)
(* repeated or reordered and whoever crashes: handleVote grants one vote   *)
(* per term and SaveReady persists it before the answer leaves.            *)
(***************************************************************************)
ElectionSafety ==
    \A e, f \in elections : e.term = f.term => e.leader = f.leader

(***************************************************************************)
(* A step, a restart included, never lowers a server's term and never      *)
(* replaces the vote it cast in a term ("a restarted node never grants a   *)
(* second vote in a term it already voted in").                            *)
(***************************************************************************)
VoteKept ==
    [][\A n \in Server :
          \/ raftOf(n)'.term > raftOf(n).term
          \/ /\ raftOf(n)'.term = raftOf(n).term
             /\ raftOf(n).vote \in {Nil, raftOf(n)'.vote}]_vars

\* The commit index and, below it, the log of a server survive every step.
CommittedKept ==
    [][\A n \in Server :
          LET l == raftOf(n).log
              k == raftOf(n)'.log
          IN  /\ k.committed >= l.committed
              /\ \A i \in (k.snapIndex + 1) .. l.committed :
                    i > l.snapIndex => entryAt(k, i) = entryAt(l, i)]_vars

\* Does n have what was applied at d's index, in its log or under its snapshot?
keeps(n, d) ==
    LET l == raftOf(n).log
    IN  d.index <= lastIndex(l) /\ (d.index <= l.snapIndex \/ entryAt(l, d.index) = d.entry)

(***************************************************************************)
(* An entry whose effect a client has seen, by the answer to its write or  *)
(* in a read, is held by a quorum, that very entry, in the log or in the   *)
(* state a snapshot covers: what maybeCommit counted stays where it was    *)
(* counted, and no later leader's entry replaces it.                       *)
(***************************************************************************)
AckedOnQuorum ==
    \A d \in decided :
        d.index \in acked => Cardinality({n \in Server : keeps(n, d)}) >= quorum

(***************************************************************************)
(* Two logs that hold an entry of the same term at an index agree on every *)
(* entry up to it (the consistency check of maybeAppend).                  *)
(***************************************************************************)
LogMatching ==
    \A a, b \in Server :
        LET l == raftOf(a).log
            k == raftOf(b).log
            low == maxOf(l.snapIndex, k.snapIndex) + 1
        IN  \A i \in low .. minOf(lastIndex(l), lastIndex(k)) :
                entryAt(l, i).term = entryAt(k, i).term =>
                    \A j \in low .. i : entryAt(l, j) = entryAt(k, j)

(***************************************************************************)
(* The leader of the newest term holds every entry that any state machine  *)
(* has applied (isUpToDate restricts who can be elected, maybeCommit what  *)
(* can commit).                                                            *)
(***************************************************************************)
LeaderCompleteness ==
    \A n \in Server :
        (/\ raftOf(n).role = Leader
         /\ \A p \in Server : raftOf(p).term <= raftOf(n).term)
        => \A d \in decided : keeps(n, d)

(***************************************************************************)
(* No two state machines, nor one before and after a restart, apply        *)
(* different entries at the same index ("no committed entry is lost,       *)
(* replicas never diverge").                                               *)
(***************************************************************************)
StateMachineSafety ==
    \A d, e \in decided : d.index = e.index => d.entry = e.entry

(***************************************************************************)
(* No handler reaches one of the core's panics and every restart finds a   *)
(* state it can be restored from.                                          *)
(***************************************************************************)
NoPanic == \A n \in Server : ~ raftOf(n).panicked

\* Between two iterations of the loop nothing is left to persist, send or apply.
Quiescent == \A n \in Server : raftOf(n).panicked \/ ~ HasReady(group[n])

(***************************************************************************)
(* snapIndex <= applied <= committed <= lastIndex, the invariant the       *)
(* comment of raftLog claims of a member that has not panicked.            *)
(***************************************************************************)
LogIndexOrder ==
    \A n \in Server :
        LET l == raftOf(n).log
        IN  ~ raftOf(n).panicked =>
                /\ l.snapIndex <= l.applied
                /\ l.applied <= l.committed
                /\ l.committed <= lastIndex(l)

(***************************************************************************)
(* What a server has in memory is what it would find after a restart, so   *)
(* an append it acknowledged is durable (persist before send).             *)
(***************************************************************************)
DurableLog ==
    \A n \in Server :
        ~ raftOf(n).panicked => group[n].disk.entries = raftOf(n).log.entries

\* A read reflects everything a client was told of before it was requested.
LinearizableReads ==
    \A r \in served : \A i \in floor[r.id] : i <= r.index

(***************************************************************************)
(* The server a leader tells to campaign at once holds the leader's whole  *)
(* log for as long as that leader leads and no later term has reached the  *)
(* server: proposals stop when a transfer begins (handlePropose), so a     *)
(* transfer loses nothing.                                                 *)
(***************************************************************************)
TransferTargetComplete ==
    \A m \in net :
        (/\ m.type = MsgTimeoutNow
         /\ raftOf(m.from).role = Leader
         /\ raftOf(m.from).term = m.term
         /\ raftOf(m.to).term <= m.term)
        => lastIndex(raftOf(m.to).log) >= lastIndex(raftOf(m.from).log)

(***************************************************************************)
(* Nobody waits in vain: a proposal waiter's value is in the log and still *)
(* to be applied, and a read waiter's read is queued or in a round, so a   *)
(* later iteration answers each, or publishStatus fails it.                *)
(***************************************************************************)
NoStrandedWaiter ==
    \A n \in Server :
        LET nd == raftOf(n)
        IN  ~ nd.panicked =>
              /\ \A v \in group[n].waiters :
                    \E i \in (nd.log.applied + 1) .. lastIndex(nd.log) :
                        entryAt(nd.log, i).data = v
              /\ group[n].reads \subseteq {r.id : r \in nd.pendingReads \cup nd.roundReads}
============================================================================
