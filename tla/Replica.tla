------------------------------ MODULE Replica ------------------------------
(***************************************************************************)
(* One server's replica of a group, from the front door to the disk: the   *)
(* records of the raft state file, the engine that runs without a WAL, the *)
(* state machine with its session table, log compaction, the installation  *)
(* of a received snapshot and the life of the group within its node.  A    *)
(* crash may happen between any two steps.                                 *)
(*                                                                         *)
(* The other servers are the environment: they vote, append and commit as  *)
(* RaftCluster allows, so that what is committed anywhere is a prefix of   *)
(* `decided`.  An entry is its command, a position in the log its index.   *)
(* The vote is written with the term and left out.  The core only appends  *)
(* at the end of the log here; the replacement of a persisted suffix is    *)
(* RaftCluster's subject.                                                  *)
(***************************************************************************)
EXTENDS Naturals, Sequences, FiniteSets, SequencesExt

CONSTANTS
    Session,          \* clients that number their commands
    Request,          \* what clients ask of this server's front door, once each
    FrontDoor,        \* the front door's client id, of the no-dedup namespace
    Noop,             \* the empty entry of a new leader
    Nil,
    SnapshotEvery,    \* applied entries between compactions; 0 is never
    MaxSeq,           \* session commands per client
    MaxIndex,         \* no entry is created beyond this index
    MaxTerm,
    MaxStops          \* crashes and orderly ends of the process

ASSUME ReplicaAssumption ==
    /\ {SnapshotEvery, MaxSeq, MaxIndex, MaxTerm, MaxStops} \subseteq Nat
    /\ FrontDoor \notin Session
    /\ Noop # Nil

VARIABLES
    decided,          \* the commands the group has committed
    raft,             \* the core: hard state and log; lead is the index of
                      \* the entry its leadership began with, 0 if it follows
    file,             \* the state file
    saved,            \* history: the core when the file was last made durable
    db,               \* the engine's tables on disk; Nil if the directory is gone
    mem,              \* what the open engine holds
    sm,               \* StateMachine: applied index and sessions
    snapAt, snapDirs, \* the last compaction, and the snap-<index> directories
    loop,             \* the group's loop: "off" or where in an iteration it is
    op,               \* what the holder of addMu has done last
    incoming,         \* the snapshot being installed
    hosted,           \* is the group in the node's table?
    node,             \* "up", "closed" by Close, "down" after a crash, or
                      \* "stuck": it panics whenever it is started
    half,             \* history: the engine was swapped, the file not rewritten
    waiters,          \* proposals that wait for their command to be applied
    frontSeq,         \* the front door's counter
    asked,            \* history: the requests proposed
    stops             \* how often the process has crashed or been closed

core == <<raft, file, saved>>
engine == <<db, mem, sm>>
front == <<waiters, frontSeq, asked>>
life == <<loop, op, incoming, hosted, node, half>>
vars == <<decided, core, engine, snapAt, snapDirs, life, front, stops>>
----------------------------------------------------------------------------
(* The state file *)

hardState(r) == [type |-> "hardState", term |-> r.term, commit |-> r.commit]
entries(first, ents) == [type |-> "entries", first |-> first, ents |-> ents]
compact(index) == [type |-> "compact", index |-> index]

newRecovered == [term |-> 0, commit |-> 0, snapIndex |-> 0, entries |-> <<>>, bad |-> FALSE]

lastIndex(r) == r.snapIndex + Len(r.entries)

\* Appended entries may overwrite; they may not leave a gap.
applyRecord(rec, p) ==
    CASE p.type = "hardState" -> [rec EXCEPT !.term = p.term, !.commit = p.commit]
      [] p.type = "compact" ->
            IF rec.entries # <<>> \/ rec.snapIndex # 0
            THEN [rec EXCEPT !.bad = TRUE]
            ELSE [rec EXCEPT !.snapIndex = p.index]
      [] p.type = "entries" ->
            IF p.first \notin (rec.snapIndex + 1) .. (lastIndex(rec) + 1)
            THEN [rec EXCEPT !.bad = TRUE]
            ELSE [rec EXCEPT !.entries = SubSeq(@, 1, p.first - 1 - rec.snapIndex) \o p.ents]

replay(rec, records) == FoldLeft(applyRecord, rec, records)

(***************************************************************************)
(* The file: what its durable records replay to, the records after them,   *)
(* and whether a torn record lies behind the durable ones.  The scan ends  *)
(* at a torn record, whatever follows it, and OpenStorage leaves it where  *)
(* it is.                                                                  *)
(***************************************************************************)
OpenStorage(f) == IF f.torn THEN f.durable ELSE replay(f.durable, f.tail)

synced(f) == [f EXCEPT !.durable = OpenStorage(f), !.tail = <<>>]

newFile(records) == [durable |-> replay(newRecovered, records), tail |-> <<>>, torn |-> FALSE]

\* SaveReady: the entries beyond the saved log, then the hard state if changed.
readyRecords(old, new) ==
    (IF lastIndex(new) > lastIndex(old)
     THEN <<entries(lastIndex(old) + 1,
                    SubSeq(new.entries, Len(old.entries) + 1, Len(new.entries)))>>
     ELSE <<>>)
    \o (IF <<new.term, new.commit>> # <<old.term, old.commit>>
        THEN <<hardState(new)>>
        ELSE <<>>)

\* Mutant: the rewritten file loses the entries beyond the boundary.
rewriteBoundary(r) == <<compact(r.snapIndex), hardState(r)>>

Rewrite(r) ==
    <<compact(r.snapIndex), hardState(r)>>
    \o (IF r.entries = <<>> THEN <<>> ELSE <<entries(r.snapIndex + 1, r.entries)>>)
----------------------------------------------------------------------------
(* The state machine over the engine *)

\* What the engine holds: the commands that took effect, and the reserved keys.
emptyEngine == [applied |-> 0, sessions |-> [c \in Session |-> 0], ops |-> <<>>]

\* Mutant: the session table starts empty.
forgetSessions(content) == [applied |-> content.applied, sessions |-> emptyEngine.sessions]

NewStateMachine(content) == [applied |-> content.applied, sessions |-> content.sessions]

\* Does a command take effect, or is it a duplicate?
fresh(s, cmd) == cmd.client = FrontDoor \/ cmd.seq > s.sessions[cmd.client]

\* The session table t after a command that the state machine s meets.
recordSession(t, s, cmd) ==
    [c \in Session |-> IF cmd # Noop /\ cmd.client = c /\ fresh(s, cmd) THEN cmd.seq ELSE t[c]]

\* One atomic batch: the operations, the session, the applied index.
Apply(content, s, cmd) ==
    [applied  |-> s.applied + 1,
     sessions |-> recordSession(content.sessions, s, cmd),
     ops      |-> IF cmd # Noop /\ fresh(s, cmd) THEN Append(content.ops, cmd) ELSE content.ops]

\* RestoreNode accepts what OpenStorage recovered and where the engine stands.
restorable(rec, applied) ==
    LET commit == IF rec.commit > rec.snapIndex THEN rec.commit ELSE rec.snapIndex
    IN  /\ ~ rec.bad
        /\ commit <= lastIndex(rec)
        /\ applied \in rec.snapIndex .. commit

onDisk == IF db = Nil THEN emptyEngine ELSE db
----------------------------------------------------------------------------
(***************************************************************************)
(* openGroup, by whoever starts the group: the engine (an absent directory *)
(* is created), the state machine, the file, the core.  A file that cannot *)
(* be read is an error, a state that cannot be restored a panic; the next  *)
(* start meets the same.                                                   *)
(***************************************************************************)
openGroup ==
    LET rec == OpenStorage(file)
    IN  /\ restorable(rec, onDisk.applied)
        /\ raft' = [term |-> rec.term,
                    commit |-> IF rec.commit > rec.snapIndex THEN rec.commit ELSE rec.snapIndex,
                    snapIndex |-> rec.snapIndex, entries |-> rec.entries, lead |-> 0]
        /\ saved' = raft'
        /\ db' = onDisk
        /\ mem' = onDisk
        /\ sm' = NewStateMachine(onDisk)
        /\ snapAt' = onDisk.applied
        /\ loop' = "select"
        /\ half' = FALSE

cannotOpen ==
    /\ ~ restorable(OpenStorage(file), onDisk.applied)
    /\ node' = "stuck"
    /\ loop' = "off"
    /\ UNCHANGED <<raft, saved, engine, snapAt, half>>

\* Mutant: the callers that wait are forgotten.
closeQuietly ==
    /\ loop = "select"
    /\ loop' = "off"
    /\ file' = synced(file)
    /\ db' = mem
    /\ UNCHANGED waiters

\* group.close: the file is synced, the engine flushed, the waiters are told.
closeGroup ==
    /\ loop = "select"
    /\ loop' = "off"
    /\ file' = synced(file)
    /\ db' = mem
    /\ waiters' = {}

newCore == [term |-> 0, commit |-> 0, snapIndex |-> 0, entries |-> <<>>, lead |-> 0]

Init ==
    /\ decided = <<>>
    /\ raft = newCore
    /\ file = newFile(<<>>)
    /\ saved = raft
    /\ db = emptyEngine /\ mem = emptyEngine
    /\ sm = NewStateMachine(emptyEngine)
    /\ snapAt = 0 /\ snapDirs = {}
    /\ loop = "select" /\ op = "none" /\ incoming = Nil
    /\ hosted = TRUE /\ node = "up" /\ half = FALSE
    /\ waiters = {} /\ frontSeq = 0 /\ asked = {}
    /\ stops = 0

\* A panic or a crash: what was in memory is gone.
processEnds ==
    /\ node' = "down" /\ hosted' = FALSE
    /\ loop' = "off" /\ op' = "none" /\ incoming' = Nil
    /\ raft' = newCore /\ mem' = emptyEngine /\ sm' = NewStateMachine(emptyEngine)
    /\ snapAt' = 0 /\ waiters' = {} /\ frontSeq' = 0
----------------------------------------------------------------------------
(***************************************************************************)
(* The group's loop.  A select case changes the core to r; the Ready is    *)
(* then written, synced, applied entry by entry, and the log compacted     *)
(* when due.  Messages leave after the sync.                               *)
(***************************************************************************)
select(r) ==
    /\ loop = "select"
    /\ raft' = r
    /\ file' = [file EXCEPT !.tail = readyRecords(raft, r)]
    /\ loop' = "written"
    /\ UNCHANGED <<saved, engine, snapAt, snapDirs, op, incoming, hosted, node, half,
                   stops>>

log == SubSeq(decided, 1, raft.snapIndex) \o raft.entries

\* The log up to index c is committed, here and for everyone.
commits(c, whole) ==
    /\ IsPrefix(SubSeq(whole, 1, c), decided) \/ IsPrefix(decided, SubSeq(whole, 1, c))
    /\ decided' = IF c > Len(decided) THEN SubSeq(whole, 1, c) ELSE decided

SessionCommand == [client : Session, seq : 1 .. MaxSeq, request : {Nil}]

\* An append of a leader of term t, with at most one entry, and its commit index.
Follow(t, new, c) ==
    /\ hosted
    /\ t > raft.term \/ (t = raft.term /\ raft.lead = 0)
    /\ new # <<>> => /\ lastIndex(raft) < MaxIndex
                     /\ IsPrefix(log \o new, decided) \/ IsPrefix(decided, log \o new)
    /\ c \in raft.commit .. lastIndex(raft) + Len(new)
    /\ <<t, c, new>> # <<raft.term, raft.commit, <<>>>>
    /\ commits(c, log \o new)
    /\ select([raft EXCEPT !.term = t, !.commit = c, !.entries = @ \o new, !.lead = 0])
    /\ UNCHANGED front

\* Winning an election: only with a log that holds whatever is committed.
Lead ==
    /\ hosted
    /\ raft.term < MaxTerm
    /\ lastIndex(raft) < MaxIndex
    /\ IsPrefix(decided, log)
    /\ select([raft EXCEPT !.term = @ + 1, !.entries = Append(@, Noop),
                           !.lead = lastIndex(raft) + 1])
    /\ UNCHANGED <<decided, front>>

\* A quorum acknowledged index c, an entry of the leader's own term.
LeadCommit(c) ==
    /\ hosted
    /\ raft.lead # 0
    /\ c \in raft.commit + 1 .. lastIndex(raft)
    /\ c >= raft.lead
    /\ commits(c, log)
    /\ select([raft EXCEPT !.commit = c])
    /\ UNCHANGED front

\* kvServer.Put or Delete: the next number of a counter that starts at 0.
command(request) == [client |-> FrontDoor, seq |-> frontSeq + 1, request |-> request]

Propose(request) ==
    /\ hosted
    /\ raft.lead # 0
    /\ request \notin asked
    /\ lastIndex(raft) < MaxIndex
    /\ waiters' = {w \in waiters : w.seq # frontSeq + 1} \cup {command(request)}
    /\ frontSeq' = frontSeq + 1
    /\ asked' = asked \cup {request}
    /\ select([raft EXCEPT !.entries = Append(@, command(request))])
    /\ UNCHANGED decided

\* A tick, with or without an effect on the core, lets the loop drain.
Tick ==
    /\ sm.applied < raft.commit
    /\ select(raft)
    /\ UNCHANGED <<decided, front>>

Sync ==
    /\ loop = "written"
    /\ file' = synced(file)
    /\ saved' = [raft EXCEPT !.lead = 0]
    /\ loop' = "apply"
    /\ UNCHANGED <<decided, raft, engine, snapAt, snapDirs, op, incoming, hosted, node, half,
                   front, stops>>

ApplyEntry ==
    LET cmd == log[sm.applied + 1]
        done == {w \in waiters : cmd # Noop /\ <<w.client, w.seq>> = <<cmd.client, cmd.seq>>}
    IN  /\ loop = "apply"
        /\ sm.applied < raft.commit
        /\ mem' = Apply(mem, sm, cmd)
        /\ sm' = [applied  |-> sm.applied + 1,
                  sessions |-> recordSession(sm.sessions, sm, cmd)]
        /\ waiters' = waiters \ done
        /\ UNCHANGED <<decided, core, db, snapAt, snapDirs, life, frontSeq, asked, stops>>

\* A server that does not lead fails what still waits.
publishStatus ==
    /\ waiters' = IF raft.lead = 0 THEN {} ELSE waiters
    /\ UNCHANGED <<frontSeq, asked>>

snapshotDue == SnapshotEvery # 0 /\ sm.applied >= snapAt + SnapshotEvery

IterationEnds ==
    /\ loop = "apply"
    /\ sm.applied = raft.commit
    /\ ~ snapshotDue
    /\ publishStatus
    /\ loop' = "select"
    /\ UNCHANGED <<decided, core, engine, snapAt, snapDirs, op, incoming, hosted, node, half,
                   stops>>

\* A memtable of the engine is flushed in the background.
Flush ==
    /\ loop # "off"
    /\ db # mem
    /\ db' = mem
    /\ UNCHANGED <<decided, core, mem, sm, snapAt, snapDirs, life, front, stops>>

(***************************************************************************)
(* maybeSnapshot.  Checkpoint flushes the engine and links its tables into *)
(* a new directory, which must not exist (a failure is a panic); then the  *)
(* core compacts and the file is replaced by rename.                       *)
(***************************************************************************)
\* Mutant: the checkpoint is taken without a flush.
checkpointUnflushed ==
    /\ loop = "apply"
    /\ sm.applied = raft.commit
    /\ snapshotDue
    /\ publishStatus
    /\ loop' = "compact"
    /\ snapDirs' = snapDirs \cup {sm.applied}
    /\ UNCHANGED <<decided, core, engine, snapAt, op, incoming, hosted, node, half, stops>>

Checkpoint ==
    /\ loop = "apply"
    /\ sm.applied = raft.commit
    /\ snapshotDue
    /\ sm.applied \notin snapDirs
    /\ publishStatus
    /\ loop' = "compact"
    /\ db' = mem
    /\ snapDirs' = snapDirs \cup {sm.applied}
    /\ UNCHANGED <<decided, core, mem, sm, snapAt, op, incoming, hosted, node, half, stops>>

CheckpointFails ==
    /\ loop = "apply"
    /\ sm.applied = raft.commit
    /\ snapshotDue
    /\ sm.applied \in snapDirs
    /\ processEnds
    /\ UNCHANGED <<decided, file, saved, db, snapDirs, half, asked, stops>>

compactTo(r, index) ==
    [r EXCEPT !.snapIndex = index, !.entries = SubSeq(@, index - r.snapIndex + 1, Len(@))]

Compact ==
    /\ loop = "compact"
    /\ raft' = compactTo(raft, sm.applied)
    /\ file' = newFile(Rewrite(raft'))
    /\ saved' = [raft' EXCEPT !.lead = 0]
    /\ snapAt' = sm.applied
    /\ loop' = "select"
    /\ UNCHANGED <<decided, engine, snapDirs, op, incoming, hosted, node, half, front, stops>>
----------------------------------------------------------------------------
(***************************************************************************)
(* installSnapshot, one holder of addMu at a time: the group is taken out  *)
(* of the table and closed; unless the snapshot is old, the engine's       *)
(* directory is parked, the received one renamed into its place, the file  *)
(* rewritten to the boundary; then the group is reopened and put back.     *)
(***************************************************************************)
discards(r, s) == s.term < r.term \/ s.index <= r.commit

\* What a replica that has applied index entries of the group's log holds.
after(cmds, index) ==
    FoldLeft(LAMBDA content, cmd : Apply(content, NewStateMachine(content), cmd),
             emptyEngine, SubSeq(cmds, 1, index))

InstallSnapshot(s, new) ==
    /\ hosted
    /\ op = "none"
    /\ node = "up"
    /\ new # <<>> => Len(decided) < MaxIndex /\ (raft.lead = 0 \/ s.term > raft.term)
    /\ decided' = decided \o new
    /\ s.index \in 1 .. Len(decided')
    /\ incoming' = s
    /\ closeGroup
    /\ hosted' = FALSE
    /\ op' = IF discards(raft, s) THEN "rewritten" ELSE "stopped"
    /\ UNCHANGED <<raft, saved, mem, sm, snapAt, snapDirs, node, half, frontSeq, asked,
                   stops>>

\* ReplaceWithCheckpoint, its two renames; the parked directory is removed last.
ParkOld ==
    /\ op = "stopped"
    /\ op' = "parked"
    /\ db' = Nil
    /\ half' = TRUE
    /\ UNCHANGED <<decided, core, mem, sm, snapAt, snapDirs, loop, incoming, hosted, node,
                   front, stops>>

SwapIn ==
    /\ op = "parked"
    /\ op' = "swapped"
    /\ db' = after(decided, incoming.index)
    /\ UNCHANGED <<decided, core, mem, sm, snapAt, snapDirs, loop, incoming, hosted, node, half,
                   front, stops>>

boundary(r, s) ==
    [term |-> IF s.term > r.term THEN s.term ELSE r.term, commit |-> s.index,
     snapIndex |-> s.index, entries |-> <<>>, lead |-> 0]

RewriteFile ==
    /\ op = "swapped"
    /\ op' = "rewritten"
    /\ file' = newFile(Rewrite(boundary(raft, incoming)))
    /\ saved' = boundary(raft, incoming)
    /\ half' = FALSE
    /\ UNCHANGED <<decided, raft, engine, snapAt, snapDirs, loop, incoming, hosted, node, front,
                   stops>>

\* An error on the way leaves the group out of the table.
InstallFails ==
    /\ op \in {"stopped", "parked", "swapped"}
    /\ op' = "none"
    /\ incoming' = Nil
    /\ UNCHANGED <<decided, core, engine, snapAt, snapDirs, loop, hosted, node, half, front,
                   stops>>

\* AddGroup of a group that is not in the table.
AddGroup ==
    /\ node = "up"
    /\ op = "none"
    /\ ~ hosted
    /\ op' = "rewritten"
    /\ UNCHANGED <<decided, core, engine, snapAt, snapDirs, loop, incoming, hosted, node, half,
                   front, stops>>

Reopen ==
    /\ op = "rewritten"
    /\ \/ openGroup /\ op' = "reopened" /\ UNCHANGED node
       \/ cannotOpen /\ op' = "none"
    /\ incoming' = Nil
    /\ UNCHANGED <<decided, file, snapDirs, hosted, front, stops>>

\* Mutant: the group goes into the table of a node that was closed meanwhile.
registerAnyway ==
    /\ op = "reopened"
    /\ op' = "none"
    /\ hosted' = TRUE
    /\ UNCHANGED <<decided, core, engine, snapAt, snapDirs, loop, incoming, node, half, front,
                   stops>>

Register ==
    /\ op = "reopened"
    /\ op' = "none"
    /\ \/ node = "up" /\ hosted' = TRUE /\ UNCHANGED <<file, db, loop, waiters>>
       \/ node = "closed" /\ closeGroup /\ UNCHANGED hosted
    /\ UNCHANGED <<decided, raft, saved, mem, sm, snapAt, snapDirs, incoming, node, half,
                   frontSeq, asked, stops>>

\* Node.Close.
Close ==
    /\ node = "up"
    /\ stops < MaxStops
    /\ stops' = stops + 1
    /\ node' = "closed"
    /\ \/ hosted /\ closeGroup
       \/ ~ hosted /\ UNCHANGED <<file, db, loop, waiters>>
    /\ hosted' = FALSE
    /\ UNCHANGED <<decided, raft, saved, mem, sm, snapAt, snapDirs, op, incoming, half,
                   frontSeq, asked>>
----------------------------------------------------------------------------
(***************************************************************************)
(* A crash keeps the synced records and some of the others, the last of    *)
(* them perhaps in part; of the engine it keeps what was flushed.          *)
(***************************************************************************)
survivors ==
    LET left(k, torn) == [durable |-> OpenStorage([file EXCEPT !.tail = SubSeq(@, 1, k)]),
                          tail |-> <<>>, torn |-> torn \/ file.torn]
    IN  {left(k, FALSE) : k \in 0 .. Len(file.tail)}
            \cup {left(k, TRUE) : k \in 0 .. Len(file.tail) - 1}

Crash ==
    /\ node \in {"up", "closed"}
    /\ stops < MaxStops
    /\ stops' = stops + 1
    /\ file' \in survivors
    /\ processEnds
    /\ UNCHANGED <<decided, saved, db, snapDirs, half, asked>>

\* Open: the process starts anew, the front door's counter with it.
Open ==
    /\ node = "down" \/ (node = "closed" /\ op = "none")
    /\ \/ openGroup /\ node' = "up" /\ hosted' = TRUE
       \/ cannotOpen /\ UNCHANGED hosted
    /\ frontSeq' = 0
    /\ UNCHANGED <<decided, file, snapDirs, op, incoming, waiters, asked, stops>>

Entries == SessionCommand \cup {Noop}

AtMostOne == {<<>>} \cup {<<e>> : e \in Entries}

Next ==
    \/ \E t \in 1 .. MaxTerm, new \in AtMostOne, c \in 0 .. MaxIndex : Follow(t, new, c)
    \/ Lead \/ Tick \/ Sync \/ ApplyEntry \/ IterationEnds \/ Flush \/ Checkpoint
    \/ CheckpointFails \/ Compact
    \/ \E c \in 1 .. MaxIndex : LeadCommit(c)
    \/ \E request \in Request : Propose(request)
    \/ \E t \in 1 .. MaxTerm, i \in 1 .. MaxIndex, new \in AtMostOne :
          InstallSnapshot([term |-> t, index |-> i], new)
    \/ ParkOld \/ SwapIn \/ RewriteFile \/ InstallFails \/ AddGroup \/ Reopen \/ Register \/ Close
    \/ Crash \/ Open

Spec == Init /\ [][Next]_vars
----------------------------------------------------------------------------
\* The commands of a prefix of the group's log that are first of their kind.
effective(index) ==
    {i \in 1 .. index :
        /\ decided[i] # Noop
        /\ \/ decided[i].client = FrontDoor
           \/ \A j \in 1 .. i - 1 :
                 (decided[j] # Noop /\ decided[j].client = decided[i].client)
                    => decided[j].seq < decided[i].seq}

(***************************************************************************)
(* The engine holds the effects of exactly the prefix of the group's log   *)
(* that its applied index names, every session command once: after a crash *)
(* that lost the memtable, a replay, a snapshot installed in between and   *)
(* duplicates in the log ("exact prefix replay").                          *)
(***************************************************************************)
EngineIsPrefix ==
    \A content \in {mem} \cup ({db} \ {Nil}) :
        LET order == SetToSortSeq(effective(content.applied), LAMBDA i, j : i < j)
        IN  content.ops = [k \in DOMAIN order |-> decided[order[k]]]

(***************************************************************************)
(* What the core believes durable when its messages leave is what the file *)
(* recovers to after a crash, whatever part of the next write survives, as *)
(* long as no torn record lies in the file.                                *)
(***************************************************************************)
SyncedKept ==
    ~ file.torn => \A f \in survivors :
        LET rec == OpenStorage(f)
        IN  /\ rec.term >= saved.term
            /\ rec.commit >= saved.commit
            /\ rec.snapIndex = saved.snapIndex
            /\ IsPrefix(saved.entries, rec.entries)

(***************************************************************************)
(* A crash at any moment leaves a log and an engine that fit together: the *)
(* engine is between the log's boundary and its commit index, so the group *)
(* can be restored.  The exceptions are a torn record that hides later     *)
(* ones, and the time between the engine's swap and the file's rewrite.    *)
(***************************************************************************)
Reopenable ==
    (~ half /\ ~ file.torn) =>
        \A f \in survivors : restorable(OpenStorage(f), onDisk.applied)

(***************************************************************************)
(* A group never outlives its node: once Close has run and no install or   *)
(* AddGroup is under way, its engine is closed.                            *)
(***************************************************************************)
NoGroupLeaks == (node = "closed" /\ op = "none") => loop = "off"

(***************************************************************************)
(* Every caller that waits for its command is still to hear of it: a       *)
(* command with the caller's number lies in the log, not yet applied.  A   *)
(* group that steps down or is closed for a snapshot tells its callers     *)
(* before the log they wait for is gone.                                   *)
(***************************************************************************)
WaitersQueued ==
    \A w \in waiters : \E i \in sm.applied + 1 .. lastIndex(raft) :
        log[i] # Noop /\ <<log[i].client, log[i].seq>> = <<w.client, w.seq>>
============================================================================
