----------------------------- MODULE VersionSet -----------------------------
(***************************************************************************)
(* The engine's manifest (internal/manifest/version_set.go): which table   *)
(* files are live.  Edits are appended to the file CURRENT names; every    *)
(* open, and a log that has grown, rotates to a fresh file that starts     *)
(* with a snapshot.  One action is one call that reaches the disk, so a    *)
(* crash or an I/O error may come between any two.  The engine serialises  *)
(* the calls; only the writing of tables runs beside them.                 *)
(*                                                                         *)
(* A machine crash keeps what was fsynced.  Of everything written or       *)
(* renamed since, it may keep any part.                                    *)
(***************************************************************************)
EXTENDS Integers, FiniteSets, SequencesExt

CONSTANTS
    RotateSize,       \* records beyond the snapshot at which the log rotates
    MaxFileNum,       \* no file number beyond this is handed out
    MaxPending,       \* tables being written at a time
    MaxCrash          \* crashes

ASSUME VersionSetAssumption ==
    {RotateSize, MaxFileNum, MaxPending, MaxCrash} \subseteq Nat \ {0}

VARIABLES
    dir,              \* the directory as a process sees it: file numbers by kind,
                      \*   and the manifest CURRENT names (0: no CURRENT)
    stable,           \* the directory as last fsynced
    logs,             \* the records of each manifest file ever written
    synced,           \* how many of them are fsynced
    whole,            \* the tables whose contents are fsynced
    vs,               \* the VersionSet in memory
    pending,          \* the tables being written, which the engine protects
    op,               \* what the mutator is in the middle of
    acked,            \* history: the version whose durability was promised
    limbo,            \* history: the edits written since that were not promised
    crashes

vars == <<dir, stable, logs, synced, whole, vs, pending, op, acked, limbo, crashes>>

FileNum == 1 .. MaxFileNum

\* A damaged record.  (No edit is stamped with 0.)
Torn == [add |-> {}, del |-> {}, next |-> 0]

(***************************************************************************)
(* Where the mutator stands.  opening: in Open; num: the manifest being    *)
(* written; edit: the edit being applied; doomed: what is still to be      *)
(* removed.                                                                *)
(***************************************************************************)
At(step) == [step |-> step, opening |-> FALSE, num |-> 0, edit |-> Torn, doomed |-> {}]

closed == At("closed")
idle   == At("idle")

rotating == {"create", "sync manifest", "sync dir", "rename", "sync rename"}

noSet == [files |-> {}, next |-> 1, num |-> 0, size |-> 0, failed |-> FALSE]
----------------------------------------------------------------------------
(* Versions and records *)

applicable(files, e) == e.del \subseteq files /\ e.add \cap (files \ e.del) = {}

applyEdit(files, e) == (files \ e.del) \cup e.add

snapshot(v) == [add |-> v.files, del |-> {}, next |-> v.next + 1]

\* The records before the first damaged one.
readable(recs) ==
    LET bad == SelectInSeq(recs, LAMBDA r : r = Torn)
    IN  IF bad = 0 THEN recs ELSE SubSeq(recs, 1, bad - 1)

replayed(recs) == FoldLeft(applyEdit, {}, readable(recs))

\* replay refuses bytes beyond a damaged record, and edits that do not apply.
replayable(recs) ==
    /\ Len(recs) - Len(readable(recs)) <= 1
    /\ \A i \in 1 .. Len(readable(recs)) :
          applicable(replayed(SubSeq(recs, 1, i - 1)), recs[i])

loggedNext(recs) == IF readable(recs) = <<>> THEN 1 ELSE Last(readable(recs)).next

\* Does Open accept the directory, and which version does it find?
recoverable(d) ==
    \/ d.current = 0 /\ d.tables = {}
    \/ /\ d.current # 0
       /\ d.current \in d.manifests
       /\ replayable(logs[d.current])

recovered(d) == IF d.current = 0 THEN {} ELSE replayed(logs[d.current])

\* Mutant: the counter is taken from the log, not from the directory.
nextAsLogged(d) ==
    Max({d.current + 1, IF d.current = 0 THEN 1 ELSE loggedNext(logs[d.current])})

nextFileNum(d) ==
    Max({d.current + 1, IF d.current = 0 THEN 1 ELSE loggedNext(logs[d.current])}
            \cup {n + 1 : n \in d.manifests \cup d.tables})

\* Mutant: pending tables are not protected.
obsoleteUnprotected(v, num) ==
    {<<"table", t>> : t \in dir.tables \ v.files}
        \cup {<<"manifest", m>> : m \in dir.manifests \ {num}}

obsolete(v, num) ==
    {<<"table", t>> : t \in dir.tables \ (v.files \cup pending)}
        \cup {<<"manifest", m>> : m \in dir.manifests \ {num}}

\* The rest of a call that has rotated, or need not: DeleteObsolete, or nothing.
afterRotate(v, num) ==
    IF ~ v.failed /\ (op.opening \/ op.edit.del # {})
    THEN [op EXCEPT !.step = "delete", !.doomed = obsolete(v, num)]
    ELSE idle
----------------------------------------------------------------------------
Init ==
    /\ dir = [manifests |-> {}, tables |-> {}, current |-> 0]
    /\ stable = dir
    /\ logs = [n \in FileNum |-> <<>>]
    /\ synced = [n \in FileNum |-> 0]
    /\ whole = {}
    /\ vs = noSet
    /\ pending = {}
    /\ op = closed
    /\ acked = {}
    /\ limbo = {}
    /\ crashes = 0

\* Open up to its rotation: replay, and the scan past every number on disk.
Open ==
    /\ op = closed
    /\ recoverable(dir)
    /\ vs' = [noSet EXCEPT !.files = recovered(dir), !.next = nextFileNum(dir),
                           !.num = dir.current]
    /\ op' = [At("create") EXCEPT !.opening = TRUE]
    /\ UNCHANGED <<dir, stable, logs, synced, whole, pending, acked, limbo, crashes>>

(***************************************************************************)
(* rotate and setCurrent: write the new manifest, fsync it and its name,   *)
(* then rename CURRENT's successor into place and fsync that.              *)
(***************************************************************************)
CreateManifest ==
    /\ op.step = "create"
    /\ vs.next \in FileNum \ dir.manifests
    /\ dir' = [dir EXCEPT !.manifests = @ \cup {vs.next}]
    /\ logs' = [logs EXCEPT ![vs.next] = <<snapshot(vs)>>]
    /\ synced' = [synced EXCEPT ![vs.next] = 0]
    /\ vs' = [vs EXCEPT !.next = @ + 1]
    /\ op' = [op EXCEPT !.step = "sync manifest", !.num = vs.next]
    /\ UNCHANGED <<stable, whole, pending, acked, limbo, crashes>>

\* Mutant: the new manifest is not fsynced.
skipSyncManifest ==
    /\ op.step = "sync manifest"
    /\ op' = [op EXCEPT !.step = "sync dir"]
    /\ UNCHANGED <<dir, stable, logs, synced, whole, vs, pending, acked, limbo, crashes>>

SyncManifest ==
    /\ op.step = "sync manifest"
    /\ synced' = [synced EXCEPT ![op.num] = Len(logs[op.num])]
    /\ op' = [op EXCEPT !.step = "sync dir"]
    /\ UNCHANGED <<dir, stable, logs, whole, vs, pending, acked, limbo, crashes>>

\* Mutant: the new manifest's name is not fsynced before CURRENT names it.
skipSyncDir ==
    /\ op.step = "sync dir"
    /\ op' = [op EXCEPT !.step = "rename"]
    /\ UNCHANGED <<dir, stable, logs, synced, whole, vs, pending, acked, limbo, crashes>>

SyncDir ==
    /\ op.step = "sync dir"
    /\ stable' = dir
    /\ op' = [op EXCEPT !.step = "rename"]
    /\ UNCHANGED <<dir, logs, synced, whole, vs, pending, acked, limbo, crashes>>

RenameCurrent ==
    /\ op.step = "rename"
    /\ dir' = [dir EXCEPT !.current = op.num]
    /\ op' = [op EXCEPT !.step = "sync rename"]
    /\ UNCHANGED <<stable, logs, synced, whole, vs, pending, acked, limbo, crashes>>

SyncRename ==
    /\ op.step = "sync rename"
    /\ stable' = dir
    /\ vs' = [vs EXCEPT !.num = op.num, !.size = 0]
    /\ op' = afterRotate(vs, op.num)
    /\ UNCHANGED <<dir, logs, synced, whole, pending, acked, limbo, crashes>>

\* An I/O error in a rotation poisons the set; Open then opens nothing.
RotateFails ==
    /\ op.step \in rotating
    /\ vs' = IF op.opening THEN noSet ELSE [vs EXCEPT !.failed = TRUE]
    /\ op' = IF op.opening THEN closed ELSE idle
    /\ UNCHANGED <<dir, stable, logs, synced, whole, pending, acked, limbo, crashes>>

\* DeleteObsolete, one file at a time.
RemoveFile(x) ==
    /\ op.step = "delete"
    /\ x \in op.doomed
    /\ dir' = IF x[1] = "table" THEN [dir EXCEPT !.tables = @ \ {x[2]}]
                                ELSE [dir EXCEPT !.manifests = @ \ {x[2]}]
    /\ op' = [op EXCEPT !.doomed = @ \ {x}]
    /\ UNCHANGED <<stable, logs, synced, whole, vs, pending, acked, limbo, crashes>>

\* The end of DeleteObsolete: what was removed is gone for good.  If this was
\* Open, it has returned, and what it found is promised.
Collected ==
    /\ op.step = "delete"
    /\ op.doomed = {}
    /\ stable' = dir
    /\ logs' = [n \in FileNum |-> IF n \in dir.manifests THEN logs[n] ELSE <<>>]
    /\ synced' = [n \in FileNum |-> IF n \in dir.manifests THEN synced[n] ELSE 0]
    /\ whole' = whole \cap dir.tables
    /\ op' = idle
    /\ acked' = vs.files
    /\ limbo' = IF op.opening THEN {} ELSE limbo
    /\ UNCHANGED <<dir, vs, pending, crashes>>

RemoveFails ==
    /\ op.step = "delete"
    /\ op' = IF op.opening THEN closed ELSE idle
    /\ vs' = IF op.opening THEN noSet ELSE vs
    /\ UNCHANGED <<dir, stable, logs, synced, whole, pending, acked, limbo, crashes>>
----------------------------------------------------------------------------
(***************************************************************************)
(* A flush or a compaction takes a number, writes the table and fsyncs it  *)
(* with its name (writeTable), beside whatever the mutator does.           *)
(***************************************************************************)
AllocFileNum ==
    /\ op = idle
    /\ vs.next \in FileNum
    /\ Cardinality(pending) < MaxPending
    /\ pending' = pending \cup {vs.next}
    /\ vs' = [vs EXCEPT !.next = @ + 1]
    /\ UNCHANGED <<dir, stable, logs, synced, whole, op, acked, limbo, crashes>>

CreateTable(t) ==
    /\ t \in pending \ dir.tables
    /\ dir' = [dir EXCEPT !.tables = @ \cup {t}]
    /\ UNCHANGED <<stable, logs, synced, whole, vs, pending, op, acked, limbo, crashes>>

SyncTable(t) ==
    /\ t \in (pending \cap dir.tables) \ whole
    /\ whole' = whole \cup {t}
    /\ stable' = dir
    /\ UNCHANGED <<dir, logs, synced, vs, pending, op, acked, limbo, crashes>>

\* The table cannot be written, or Apply refuses it.
TableFails(t) ==
    /\ t \in pending
    /\ t \in whole => op = idle /\ vs.failed
    /\ pending' = pending \ {t}
    /\ UNCHANGED <<dir, stable, logs, synced, whole, vs, op, acked, limbo, crashes>>

(***************************************************************************)
(* Apply: a flush adds a table, a compaction replaces some by at most one. *)
(* The record is written, fsynced, and only then installed; the log        *)
(* rotates when it has grown.                                              *)
(***************************************************************************)
WriteEdit(e) ==
    /\ op = idle
    /\ ~ vs.failed
    /\ e.add \cup e.del # {}
    /\ applicable(vs.files, e)
    /\ logs' = [logs EXCEPT ![vs.num] = Append(@, e)]
    /\ op' = [At("logged") EXCEPT !.edit = e]
    /\ limbo' = {applyEdit(vs.files, e)}
    /\ UNCHANGED <<dir, stable, synced, whole, vs, pending, acked, crashes>>

WriteFails ==
    /\ op = idle
    /\ ~ vs.failed
    /\ logs' = [logs EXCEPT ![vs.num] = Append(@, Torn)]
    /\ vs' = [vs EXCEPT !.failed = TRUE]
    /\ UNCHANGED <<dir, stable, synced, whole, pending, op, acked, limbo, crashes>>

\* Mutant: the edit is acknowledged before it is fsynced.
installUnsynced ==
    /\ op.step = "logged"
    /\ vs' = [vs EXCEPT !.files = applyEdit(@, op.edit), !.size = @ + 1]
    /\ acked' = vs'.files
    /\ limbo' = {}
    /\ pending' = pending \ op.edit.add
    /\ op' = IF vs'.size >= RotateSize THEN [op EXCEPT !.step = "create"]
                                       ELSE afterRotate(vs', vs.num)
    /\ UNCHANGED <<dir, stable, logs, synced, whole, crashes>>

SyncEdit ==
    /\ op.step = "logged"
    /\ synced' = [synced EXCEPT ![vs.num] = Len(logs[vs.num])]
    /\ vs' = [vs EXCEPT !.files = applyEdit(@, op.edit), !.size = @ + 1]
    /\ acked' = vs'.files
    /\ limbo' = {}
    /\ pending' = pending \ op.edit.add
    /\ op' = IF vs'.size >= RotateSize THEN [op EXCEPT !.step = "create"]
                                       ELSE afterRotate(vs', vs.num)
    /\ UNCHANGED <<dir, stable, logs, whole, crashes>>

SyncEditFails ==
    /\ op.step = "logged"
    /\ vs' = [vs EXCEPT !.failed = TRUE]
    /\ pending' = pending \ op.edit.add
    /\ op' = idle
    /\ UNCHANGED <<dir, stable, logs, synced, whole, acked, limbo, crashes>>

Close ==
    /\ op = idle
    /\ pending = {}
    /\ synced' = [synced EXCEPT ![vs.num] = Len(logs[vs.num])]
    /\ vs' = noSet
    /\ op' = closed
    /\ UNCHANGED <<dir, stable, logs, whole, pending, acked, limbo, crashes>>
----------------------------------------------------------------------------
\* The process dies and the files stay as they are.
ProcessCrash ==
    /\ op # closed
    /\ crashes < MaxCrash
    /\ crashes' = crashes + 1
    /\ vs' = noSet
    /\ pending' = {}
    /\ op' = closed
    /\ UNCHANGED <<dir, stable, logs, synced, whole, acked, limbo>>

\* Either of the two contents of a directory, name by name.
between(a, b) == {x \in SUBSET (a \cup b) : a \cap b \subseteq x}

unsynced == {n \in FileNum : synced[n] < Len(logs[n])}

\* What is left of a manifest whose last record was not fsynced.
survives(recs, fate) ==
    CASE fate = "kept" -> recs
      [] fate = "torn" -> Append(Front(recs), Torn)
      [] fate = "lost" -> Front(recs)

MachineCrash ==
    /\ crashes < MaxCrash
    /\ crashes' = crashes + 1
    /\ \E m \in between(dir.manifests, stable.manifests),
          t \in between(dir.tables, stable.tables),
          c \in {dir.current, stable.current} :
            dir' = [manifests |-> m, tables |-> t, current |-> c]
    /\ stable' = dir'
    /\ \E fate \in [unsynced -> {"kept", "torn", "lost"}] :
            logs' = [n \in FileNum |-> IF n \in unsynced THEN survives(logs[n], fate[n])
                                                         ELSE logs[n]]
    /\ synced' = [n \in FileNum |-> Len(logs'[n])]
    /\ vs' = noSet
    /\ pending' = {}
    /\ op' = closed
    /\ UNCHANGED <<whole, acked, limbo>>

edits == {[add |-> a, del |-> d, next |-> vs.next] :
            a \in {{}} \cup {{t} : t \in pending \cap whole}, d \in SUBSET vs.files}

Next ==
    \/ Open \/ CreateManifest \/ SyncManifest \/ SyncDir \/ RenameCurrent \/ SyncRename
    \/ RotateFails \/ RemoveFails \/ Collected \/ \E x \in op.doomed : RemoveFile(x)
    \/ AllocFileNum \/ \E t \in pending : CreateTable(t) \/ SyncTable(t) \/ TableFails(t)
    \/ \E e \in edits : WriteEdit(e)
    \/ WriteFails \/ SyncEdit \/ SyncEditFails \/ Close
    \/ ProcessCrash \/ MachineCrash

Spec == Init /\ [][Next]_vars
----------------------------------------------------------------------------
(***************************************************************************)
(* Whatever failed and wherever a process or the machine stopped, the next *)
(* Open finds the version last promised, or that version with the one edit *)
(* whose Apply had not returned ("a nil return means the edit is durable", *)
(* "a non-nil return ... leaves durability indeterminate").                *)
(***************************************************************************)
EditsKept == op = closed => recovered(dir) \in {acked} \cup limbo

(***************************************************************************)
(* Open accepts every directory a crash can leave: no tables without a     *)
(* CURRENT ("cannot result from any crash"), no CURRENT without its        *)
(* manifest, no damage but a torn tail.                                    *)
(***************************************************************************)
ManifestReadable == op = closed => recoverable(dir)

(***************************************************************************)
(* The tables of the version in use, and of the one the next Open will     *)
(* find, are on disk and complete: DeleteObsolete, a lost directory entry  *)
(* or a failed rotation never takes one away.                              *)
(***************************************************************************)
LiveTablesKept ==
    LET live == IF op = closed THEN recovered(dir) ELSE vs.files
    IN  live \subseteq dir.tables \cap whole

(***************************************************************************)
(* The counter is beyond every file on disk and every number handed out,   *)
(* so an O_EXCL create never meets an orphan of a crash and no number is   *)
(* given to two files.                                                     *)
(***************************************************************************)
NumbersFresh ==
    op # closed => \A n \in dir.manifests \cup dir.tables \cup pending : n < vs.next

(***************************************************************************)
(* What a machine crash is sure to leave is an atomic register: it changes *)
(* only by the whole of the one edit that is being applied, however many   *)
(* files, renames and fsyncs that takes.                                   *)
(***************************************************************************)
durable ==
    IF stable.current = 0
    THEN {}
    ELSE replayed(SubSeq(logs[stable.current], 1, synced[stable.current]))

Atomic == INSTANCE AtomicVersion WITH version <- durable, attempt <- limbo \ {durable}

AtomicVersions == Atomic!Spec
============================================================================
