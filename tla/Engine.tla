------------------------------- MODULE Engine ------------------------------
(***************************************************************************)
(* The storage engine: batches go to the write-ahead log and a memtable,   *)
(* full memtables are flushed to level 0 in the background, a compaction   *)
(* moves tables down, readers pin a view, and a crash may happen anywhere. *)
(* Each action is what one goroutine does while it holds DB.mu, or one     *)
(* piece of background work without it; waiting on DB.cond releases it.  A *)
(* memtable or a table is a set of entries; the manifest commits an edit   *)
(* in one step.                                                            *)
(***************************************************************************)
EXTENDS Integers, Sequences, FiniteSets, Bags, FiniteSetsExt, Functions, TLC

CONSTANTS
    Key,                  \* a set of integers
    Absent,               \* what a key holds that was never written, or deleted
    NumLevels,
    MemTableSize,         \* entries; sizes stand for bytes
    SegmentSize,
    LevelBytesBase,
    TargetFileSize,
    Opts,                 \* the options an engine is opened with
    MaxSeq,               \* the highest sequence number
    MaxEvents,            \* writes, failures and openings of the directory in all
    MaxPins,              \* readers at a time
    IOErrors              \* may I/O fail?

\* Is there a log (DisableWAL unset), how many goroutines write at a time, and
\* the counts of tables at level 0 that call for a compaction and stop writers.
Options == [wal : BOOLEAN, writers : Nat, compact : Nat \ {0}, stop : Nat \ {0}]

ASSUME ConstantsAssumption ==
    /\ Key \subseteq Int
    /\ Absent \notin Nat
    /\ Opts \subseteq Options
    /\ IOErrors \in BOOLEAN
    /\ {NumLevels, MemTableSize, SegmentSize, LevelBytesBase, TargetFileSize}
           \subseteq Nat \ {0}
    /\ {MaxSeq, MaxEvents, MaxPins} \subseteq Nat

VARIABLES
    state,            \* "open", "closed" by Close, or "crashed"
    wal,              \* the segments of the log on disk, by id
    manifest,         \* what the manifest recovers to: files (their levels by
                      \* number), log number, last sequence number, next number
    tables,           \* contents of the table files on disk or still open
    disk,             \* the numbers of the table files on disk
    db,               \* the engine in memory
    asleep,           \* the bag of writers waiting on DB.cond, by what they wait for
    woken,            \* those that a Broadcast woke and that have yet to run
    flushers,         \* the goroutines in flushImm
    comp,             \* the compaction goroutine
    refs,             \* the bag of references to table handles
    pins,             \* readers with a pinned view
    hist,             \* history: the batches written, oldest first
    limbo,            \* history: a batch in the log whose write failed
    events            \* how many writes, failures and openings there were

vars == <<state, wal, manifest, tables, disk, db, asleep, woken, flushers, comp, refs,
          pins, hist, limbo, events>>

None == "none"
Idle == [step |-> "idle"]

\* A batch: its writes by key and the sequence number of its first operation.
Batch(puts, seq) == [puts |-> puts, seq |-> seq]

\* A record cut short by a crash or a failed write.
Torn == Batch(<<>>, 0)

rankIn(k, S) == Cardinality({j \in S : j < k})

entriesOf(b) ==
    {[key |-> k, seq |-> b.seq + rankIn(k, DOMAIN b.puts), val |-> b.puts[k]] : k \in DOMAIN b.puts}

lastSeqOf(b) == b.seq + Cardinality(DOMAIN b.puts) - 1
----------------------------------------------------------------------------
(* Reads *)

smallest(num) == Min({e.key : e \in tables[num]})
largest(num) == Max({e.key : e \in tables[num]})

atLevel(files, l) == {num \in DOMAIN files : files[num] = l}

visible(entries, k, seq) == {e \in entries : e.key = k /\ e.seq <= seq}

newest(entries) == CHOOSE e \in entries : \A x \in entries : x.seq <= e.seq

\* Level 0 is ordered newest first.
newestFile(nums) == Max(nums)

\* The one file of a sorted level that may hold k.
candidate(files, l, k) ==
    LET reach == {num \in atLevel(files, l) : largest(num) >= k}
    IN  {num \in reach : /\ \A x \in reach : largest(num) <= largest(x)
                         /\ smallest(num) <= k}

\* What the tables of the first level that knows k say of it.
inTables(files, seq, k) ==
    LET knows == {num \in DOMAIN files : visible(tables[num], k, seq) # {}}
        hits == {num \in knows : files[num] = 0 \/ num \in candidate(files, files[num], k)}
        first == Min({files[num] : num \in hits})
    IN  IF hits = {} THEN {} ELSE visible(tables[newestFile({num \in hits : files[num] = first})], k, seq)

\* What a reader of a view finds: the first place that knows the key decides.
get(mem, imm, files, seq, k) ==
    LET found == CASE visible(mem, k, seq) # {} -> visible(mem, k, seq)
                   [] visible(mem, k, seq) = {} /\ visible(imm, k, seq) # {} -> visible(imm, k, seq)
                   [] OTHER -> inTables(files, seq, k)
    IN  IF found = {} THEN Absent ELSE newest(found).val

\* What an iterator yields for a key: the merge over the whole view takes the
\* newest version it may see, and skips the key when that is a tombstone.
scan(mem, imm, files, seq, k) ==
    LET merged == visible(mem \cup imm \cup UNION {tables[n] : n \in DOMAIN files}, k, seq)
    IN  IF merged = {} THEN Absent ELSE newest(merged).val
----------------------------------------------------------------------------
(* The write-ahead log *)

records(segment) == SelectSeq(segment, LAMBDA r : r # Torn)

\* Mutant: the newest segment stays as the crash left it.
leaveTornTail(w) == w

\* OpenWriter cuts a torn tail off the newest segment.
repairTornTail(w) ==
    IF w = <<>> THEN w ELSE [w EXCEPT ![Max(DOMAIN w)] = records(@)]

\* DeleteSegmentsBelow
segmentsFrom(w, upto) == [i \in {x \in DOMAIN w : x >= upto} |-> w[i]]

openSegment(w, id) == [i \in DOMAIN w \cup {id} |-> IF i = id THEN <<>> ELSE w[i]]

\* What Replay hands on: the batches of all segments.
replayed(w) == UNION {Range(records(w[i])) : i \in DOMAIN w}

\* Replay finds no gap, and no damage but at the end of the newest segment.
replayable(w) ==
    \A i \in DOMAIN w :
        /\ i # Max(DOMAIN w) => i + 1 \in DOMAIN w /\ Torn \notin Range(w[i])
        /\ \A j \in 1 .. Len(w[i]) : w[i][j] = Torn => j = Len(w[i])
----------------------------------------------------------------------------
(* Read states and table handles *)

\* The version in memory.
files == db.files
live(f) == DOMAIN f

\* Mutant: a new read state takes no references of its own.
refTaken(nums) == EmptyBag

\* newReadState and installVersionLocked reference every table of the view.
refEach(nums) == SetToBag(nums)

\* Does a reader hold the current read state?
pinned == \E p \in pins : p.rs = db.rs

\* The references after a new read state with tables f replaces the current
\* one: the DB drops its own, and with the last one those of the tables.
swapped(bag, f) ==
    (bag (+) refEach(live(f))) (-) (IF pinned THEN EmptyBag ELSE refEach(live(files)))

\* The tables a set of numbers and open handles keeps readable.
kept(t, nums, bag) == [n \in {x \in DOMAIN t : x \in nums \/ BagIn(x, bag)} |-> t[n]]
----------------------------------------------------------------------------
(* Choosing a compaction *)

maxBytes(l) == LevelBytesBase * 10 ^ (l - 1)

bytes(t, f, l) == Cardinality(UNION {t[num] \X {num} : num \in atLevel(f, l)})

\* The score of a level as a fraction.
score(t, f, o, l) ==
    IF l = 0 THEN <<Cardinality(atLevel(f, 0)), o.compact>>
             ELSE <<bytes(t, f, l), maxBytes(l)>>

atLeast(a, b) == a[1] * b[2] >= b[1] * a[2]

due(t, f, o) == {l \in 0 .. NumLevels - 2 : atLeast(score(t, f, o, l), <<1, 1>>)}

\* The highest score, the deepest of equals.
bestLevel(t, f, o) ==
    CHOOSE l \in due(t, f, o) : \A x \in due(t, f, o) :
        /\ atLeast(score(t, f, o, l), score(t, f, o, x))
        /\ atLeast(score(t, f, o, x), score(t, f, o, l)) => x <= l

keysOf(t, nums) == {e.key : e \in UNION {t[n] : n \in nums}}


\* The files whose key range meets that of the keys.
overlapping(t, nums, range) ==
    {n \in nums : /\ range # {}
                  /\ Max(keysOf(t, {n})) >= Min(range)
                  /\ Min(keysOf(t, {n})) <= Max(range)}

\* The file after the level's cursor in key order, or the first.
rotated(t, nums, ptr) ==
    LET first(S) == CHOOSE n \in S : \A x \in S : Min(keysOf(t, {n})) <= Min(keysOf(t, {x}))
        after == {n \in nums : \E k \in ptr : Min(keysOf(t, {n})) > k}
    IN  first(IF after = {} THEN nums ELSE after)

pickCompactionLocked(t, f, d) ==
    LET l == bestLevel(t, f, d.opts)
        upper == IF l = 0 THEN atLevel(f, 0) ELSE {rotated(t, atLevel(f, l), d.compactPtr[l])}
    IN  [step |-> "merge", level |-> l, upper |-> upper,
         inputs |-> upper \cup overlapping(t, atLevel(f, l + 1), keysOf(t, upper)),
         below |-> {n \in live(f) : f[n] > l + 1}]

\* maybeScheduleCompactionLocked after a change to tables t, version f and
\* engine d, while c is what the compaction goroutine does.
scheduled(c, t, f, d) ==
    IF c # Idle \/ d.closing \/ d.bgErr # None \/ due(t, f, d.opts) = {}
    THEN c
    ELSE pickCompactionLocked(t, f, d)

\* Its effect on the cursors and the handles.
cursors(c, new, d, t) ==
    IF new = c \/ new.level = 0
    THEN d.compactPtr
    ELSE [d.compactPtr EXCEPT ![new.level] = {Min(keysOf(t, new.upper))}]

inputRefs(c, new) == IF new = c THEN EmptyBag ELSE SetToBag(new.inputs)
----------------------------------------------------------------------------
(* Version edits *)

disjoint(t, f) ==
    \A l \in 1 .. NumLevels - 1 : \A a, b \in atLevel(f, l) :
        a # b => \/ Max(keysOf(t, {a})) < Min(keysOf(t, {b}))
                 \/ Max(keysOf(t, {b})) < Min(keysOf(t, {a}))

\* Apply refuses an edit that regresses a counter or makes a level overlap.
accepts(f, log, lastSeq) ==
    /\ db.vsErr = None
    /\ log >= manifest.log
    /\ lastSeq >= db.lastSeq
    /\ disjoint(tables, f)

Edited(f, log, lastSeq) == [files |-> f, log |-> log, lastSeq |-> lastSeq, next |-> db.next]

\* A write, a failure or an opening.
Event == events < MaxEvents /\ events' = events + 1

Fault == IOErrors /\ Event

\* Mutant: a failure in the background is only reported.
reported(err) == db.bgErr

\* The first failure poisons the engine.
poisoned(err) == IF db.bgErr = None THEN err ELSE db.bgErr
----------------------------------------------------------------------------
(* Writers *)

full == Cardinality(db.mem) >= MemTableSize

\* Mutant: the boundary is taken before the log is rotated.
beforeRotate(id) == id - 1

\* The first segment a flush of the sealed memtable leaves needed.
afterRotate(id) == id

\* sealLocked, and the flush it hands the sealed memtable to.
sealed ==
    LET id == IF db.opts.wal THEN Max(DOMAIN wal) + 1 ELSE 0
    IN  [db |-> [db EXCEPT !.mem = {}, !.imm = db.mem, !.immSeq = db.seq,
                           !.immBound = afterRotate(id), !.rs = @ + 1],
         wal |-> IF db.opts.wal THEN openSegment(wal, id) ELSE wal,
         refs |-> swapped(refs, files),
         flushers |-> flushers \cup {[step |-> "start", id |-> db.rs + 1]}]

\* A writer is new, or a Broadcast woke it from its wait for imm to be flushed
\* ("imm") or, after that, for level 0 to shrink ("l0").
Turns == {"new"} \cup BagToSet(woken)

\* makeRoomLocked's first look at the memtable, and its two loops.  A writer
\* woken from the second does not look at imm again.
needsRoom(turn) == turn = "new" => full

awaitsFlush(turn) == needsRoom(turn) /\ turn # "l0" /\ db.imm # {}

stalls(turn) ==
    /\ needsRoom(turn)
    /\ ~ awaitsFlush(turn)
    /\ Cardinality(atLevel(files, 0)) >= db.opts.stop

mayProceed(turn) == ~ awaitsFlush(turn) /\ ~ stalls(turn)

\* The last look at the memtable: someone else may have made room.
room == IF full THEN sealed ELSE [db |-> db, wal |-> wal, refs |-> refs, flushers |-> flushers]

\* A writer has the mutex.  By contract no call races Close.
Runs(turn) ==
    /\ state = "open"
    /\ ~ db.closing
    /\ IF turn = "new"
       THEN BagCardinality(asleep (+) woken) < db.opts.writers
       ELSE turn \in BagToSet(woken)

leaves(turn) == IF turn = "new" THEN woken ELSE woken (-) SetToBag({turn})

Broadcast == asleep' = EmptyBag /\ woken' = woken (+) asleep

\* The loops of makeRoomLocked go to sleep; the second one asks for a compaction.
Wait(turn) ==
    /\ Runs(turn)
    /\ db.bgErr = None
    /\ woken' = leaves(turn)
    /\ \/ /\ awaitsFlush(turn)
          /\ asleep' = asleep (+) SetToBag({"imm"})
          /\ UNCHANGED <<db, comp, refs>>
       \/ /\ stalls(turn)
          /\ asleep' = asleep (+) SetToBag({"l0"})
          /\ \E new \in {scheduled(comp, tables, files, db)} :
                /\ comp' = new
                /\ db' = [db EXCEPT !.compactPtr = cursors(comp, new, db, tables)]
                /\ refs' = refs (+) inputRefs(comp, new)
    /\ UNCHANGED <<state, wal, manifest, tables, disk, flushers, pins, hist, limbo, events>>

\* A failure ends both loops.
GiveUp(turn) ==
    /\ turn # "new"
    /\ Runs(turn)
    /\ db.bgErr # None
    /\ woken' = leaves(turn)
    /\ UNCHANGED <<state, wal, manifest, tables, disk, db, asleep, flushers, comp, refs,
                   pins, hist, limbo, events>>

\* Append rotates a segment that has reached its size.
logged(w, r) ==
    LET id == Max(DOMAIN w)
        filled == [w EXCEPT ![id] = Append(@, r)]
        size == Cardinality(UNION {entriesOf(b) : b \in Range(filled[id])})
    IN  IF size >= SegmentSize THEN openSegment(filled, id + 1) ELSE filled

Batches(id) ==
    UNION {[S -> {id, Absent}] : S \in {x \in SUBSET Key : Cardinality(x) \in 1 .. MaxSeq - db.seq}}

CanWrite(turn) ==
    /\ Runs(turn)
    /\ db.bgErr = None
    /\ mayProceed(turn)

\* Put, Delete and applyRaft: one batch.
write(turn) ==
    /\ CanWrite(turn)
    /\ Event
    /\ \E puts \in Batches(events + 1) : \E r \in {room} :
          LET b == Batch(puts, db.seq + 1)
          IN  /\ db' = [r.db EXCEPT !.mem = @ \cup entriesOf(b), !.seq = lastSeqOf(b)]
              /\ wal' = IF db.opts.wal THEN logged(r.wal, b) ELSE r.wal
              /\ refs' = r.refs
              /\ flushers' = r.flushers
              /\ hist' = Append(hist, b)
    /\ woken' = leaves(turn)
    /\ UNCHANGED <<state, manifest, tables, disk, asleep, comp, pins, limbo>>

\* The append, or the rotation after it, fails; nothing, a part or all of the
\* record is in the file.
WriteFails(turn) ==
    /\ CanWrite(turn)
    /\ db.opts.wal
    /\ Fault
    /\ \E puts \in Batches(events + 1) : \E r \in {room} :
          LET b == Batch(puts, db.seq + 1)
              cut(x) == [r.wal EXCEPT ![Max(DOMAIN r.wal)] = Append(@, x)]
          IN  /\ \/ wal' = r.wal /\ limbo' = limbo
                 \/ wal' = cut(Torn) /\ limbo' = limbo
                 \/ wal' = cut(b) /\ limbo' = <<b>>
              /\ db' = [r.db EXCEPT !.bgErr = "wal"]
              /\ refs' = r.refs
              /\ flushers' = r.flushers
    /\ woken' = leaves(turn)
    /\ UNCHANGED <<state, manifest, tables, disk, asleep, comp, pins, hist>>

\* What Close waits for, and whether it then has a memtable to flush.
drained ==
    /\ db.closing
    /\ flushers = {}
    /\ comp = Idle
    /\ db.imm # {} => db.bgErr # None

toFlush == db.bgErr = None /\ db.mem # {}

\* sealLocked cannot rotate the log, for a writer or for Close.
RotateFails(turn) ==
    /\ state = "open"
    /\ (CanWrite(turn) /\ full) \/ (drained /\ toFlush)
    /\ db.opts.wal
    /\ Fault
    /\ db' = [db EXCEPT !.bgErr = "wal", !.immBound = 0]
    /\ woken' = leaves(turn)
    /\ UNCHANGED <<state, wal, manifest, tables, disk, asleep, flushers, comp, refs, pins,
                   hist, limbo>>
----------------------------------------------------------------------------
(* The flush goroutine *)

\* A goroutine that finds no memtable panics: a Crash.
StartFlush(fl) ==
    /\ fl.step = "start"
    /\ db.imm # {}
    /\ flushers' = (flushers \ {fl}) \cup
                      {[step |-> "write", num |-> db.next, entries |-> db.imm,
                        seq |-> db.immSeq, bound |-> db.immBound]}
    /\ db' = [db EXCEPT !.next = @ + 1, !.pending = @ \cup {db.next}]
    /\ UNCHANGED <<state, wal, manifest, tables, disk, asleep, woken, comp, refs, pins,
                   hist, limbo, events>>

withTable(t, num, entries) ==
    [n \in DOMAIN t \cup {num} |-> IF n = num THEN entries ELSE t[n]]

writeTable(fl) ==
    /\ fl.step = "write"
    /\ \/ /\ tables' = withTable(tables, fl.num, fl.entries)
          /\ flushers' = (flushers \ {fl}) \cup {[fl EXCEPT !.step = "apply"]}
          /\ UNCHANGED <<db, asleep, woken, events>>
       \/ /\ Fault
          /\ tables' = withTable(tables, fl.num, {})
          /\ flushers' = flushers \ {fl}
          /\ db' = [db EXCEPT !.bgErr = poisoned("flush"), !.pending = @ \ {fl.num}]
          /\ Broadcast
    /\ disk' = disk \cup {fl.num}
    /\ UNCHANGED <<state, wal, manifest, comp, refs, pins, hist, limbo>>

\* Mutant: the edit records the newest sequence number, not the sealed one.
newestSeq(fl) == db.seq

sealSeq(fl) == fl.seq

withFlushed(fl) == [n \in live(files) \cup {fl.num} |-> IF n = fl.num THEN 0 ELSE files[n]]

\* The edit is committed: its table replaces imm, whatever imm is by now.
\* Without a log the goroutine has nothing left to do.
ApplyFlush(fl) ==
    /\ fl.step = "apply"
    /\ accepts(withFlushed(fl), fl.bound, sealSeq(fl))
    /\ \E new \in {scheduled(comp, tables, withFlushed(fl), db)} :
          /\ manifest' = Edited(withFlushed(fl), fl.bound, sealSeq(fl))
          /\ db' = [db EXCEPT !.imm = {}, !.pending = @ \ {fl.num}, !.rs = @ + 1,
                              !.files = withFlushed(fl), !.lastSeq = sealSeq(fl),
                              !.compactPtr = cursors(comp, new, db, tables)]
          /\ refs' = swapped(refs (+) SetToBag({fl.num}), withFlushed(fl)) (+) inputRefs(comp, new)
          /\ comp' = new
    /\ flushers' = (flushers \ {fl}) \cup
                      (IF db.opts.wal THEN {[step |-> "prune", num |-> fl.num, bound |-> fl.bound]} ELSE {})
    /\ Broadcast
    /\ UNCHANGED <<state, wal, tables, disk, pins, hist, limbo, events>>

\* How an edit fails: the manifest refuses it, or its file fails and nobody
\* knows whether the edit is in it.  No edit is accepted afterwards.
failures(f, log, lastSeq) ==
    IF accepts(f, log, lastSeq)
    THEN {[err |-> "io", manifest |-> m, events |-> events + 1] :
             m \in {x \in {manifest, Edited(f, log, lastSeq)} : IOErrors /\ events < MaxEvents}}
    ELSE {[err |-> IF db.vsErr = None THEN "refused" ELSE db.vsErr,
           manifest |-> manifest, events |-> events]}

FlushFails(fl) ==
    /\ fl.step = "apply"
    /\ \E e \in failures(withFlushed(fl), fl.bound, sealSeq(fl)) :
          /\ db' = [db EXCEPT !.bgErr = poisoned("flush"), !.vsErr = e.err,
                              !.pending = @ \ {fl.num}]
          /\ manifest' = e.manifest
          /\ events' = e.events
    /\ flushers' = flushers \ {fl}
    /\ Broadcast
    /\ UNCHANGED <<state, wal, tables, disk, comp, refs, pins, hist, limbo>>

\* DeleteSegmentsBelow removes the oldest dead segment, or is done.
Prune(fl) ==
    /\ fl.step = "prune"
    /\ IF \E i \in DOMAIN wal : i < fl.bound
       THEN wal' = segmentsFrom(wal, Min(DOMAIN wal) + 1) /\ UNCHANGED <<flushers, asleep, woken>>
       ELSE flushers' = flushers \ {fl} /\ Broadcast /\ UNCHANGED wal
    /\ UNCHANGED <<state, manifest, tables, disk, db, comp, refs, pins, hist, limbo, events>>

PruneFails(fl) ==
    /\ fl.step = "prune"
    /\ Fault
    /\ flushers' = flushers \ {fl}
    /\ db' = [db EXCEPT !.bgErr = poisoned("prune")]
    /\ Broadcast
    /\ UNCHANGED <<state, wal, manifest, tables, disk, comp, refs, pins, hist, limbo>>
----------------------------------------------------------------------------
(* The compaction goroutine *)

\* May a level deeper than the output hold the key?
keyMayExistBelow(c, k) ==
    \E n \in c.below : smallest(n) <= k /\ k <= largest(n)

\* What the merge keeps: the newest version of each key, and no tombstone
\* that nothing below could need.
survivors(c) ==
    {e \in {newest({x \in UNION {tables[n] : n \in c.inputs} : x.key = k}) :
                k \in keysOf(tables, c.inputs)} :
        e.val # Absent \/ keyMayExistBelow(c, e.key)}

\* The merge is cut into files of the target size, in key order.
outputs(entries, first) ==
    LET keys == {e.key : e \in entries}
        fileOf(k) == first + (rankIn(k, keys) \div TargetFileSize)
    IN  [n \in {fileOf(k) : k \in keys} |-> {e \in entries : fileOf(e.key) = n}]

Merge ==
    /\ comp.step = "merge"
    /\ \E out \in {outputs(survivors(comp), db.next)} :
          /\ tables' = [n \in DOMAIN tables \cup DOMAIN out |->
                            IF n \in DOMAIN out THEN out[n] ELSE tables[n]]
          /\ disk' = disk \cup DOMAIN out
          /\ db' = [db EXCEPT !.next = @ + Cardinality(DOMAIN out),
                              !.pending = @ \cup DOMAIN out]
          /\ comp' = [comp EXCEPT !.step = "apply"] @@ [out |-> DOMAIN out]
    /\ UNCHANGED <<state, wal, manifest, asleep, woken, flushers, refs, pins, hist, limbo,
                   events>>

\* finish: the inputs are released, and the next compaction scheduled if all
\* went well.
Released(d, bag, c) ==
    /\ refs' = bag
    /\ db' = d
    /\ comp' = c
    /\ tables' = kept(tables, disk', bag)

\* The merge fails on the way; the output it was writing stays as an orphan.
MergeFails ==
    /\ Fault
    /\ comp.step = "merge"
    /\ disk' = disk \cup {db.next}
    /\ refs' = refs (-) SetToBag(comp.inputs)
    /\ tables' = kept(withTable(tables, db.next, {}), disk', refs')
    /\ db' = [db EXCEPT !.bgErr = poisoned("compaction"), !.next = @ + 1]
    /\ comp' = Idle
    /\ Broadcast
    /\ UNCHANGED <<state, wal, manifest, flushers, pins, hist, limbo>>

\* Mutant: the collector knows only the version.
liveOnly(f, pending) == live(f)

\* DeleteObsolete keeps the tables of the version and the pending ones.
undeleted(f, pending) == live(f) \cup pending

\* What a removal of files may leave of them: nothing, or all of them.
removals(nums) == IF IOErrors /\ events < MaxEvents THEN {{}, nums} ELSE {{}}

withMerged(c) ==
    [n \in (live(files) \ c.inputs) \cup c.out |-> IF n \in c.out THEN c.level + 1 ELSE files[n]]

ApplyCompaction ==
    /\ comp.step = "apply"
    /\ accepts(withMerged(comp), manifest.log, db.lastSeq)
    /\ manifest' = Edited(withMerged(comp), manifest.log, db.lastSeq)
    /\ LET pending == db.pending \ comp.out
           undel == undeleted(withMerged(comp), pending)
       IN  \E left \in removals(disk \ undel) :
              /\ events' = IF left = {} THEN events ELSE events + 1
              /\ disk' = (disk \cap undel) \cup left
              /\ Released([db EXCEPT !.pending = pending, !.rs = @ + 1, !.files = withMerged(comp),
                               !.bgErr = IF left = {} THEN @ ELSE poisoned("compaction")],
                          swapped((refs (+) SetToBag(comp.out)) (-) SetToBag(comp.inputs), withMerged(comp)),
                          [comp EXCEPT !.step = "finish"])
    /\ UNCHANGED <<state, wal, asleep, woken, flushers, pins, hist, limbo>>

CompactionFails ==
    /\ comp.step = "apply"
    /\ \E e \in failures(withMerged(comp), manifest.log, db.lastSeq) :
          /\ disk' = disk
          /\ Released([db EXCEPT !.pending = @ \ comp.out, !.bgErr = poisoned("compaction"),
                                 !.vsErr = e.err],
                      refs (-) SetToBag(comp.inputs), Idle)
          /\ manifest' = e.manifest
          /\ events' = e.events
    /\ Broadcast
    /\ UNCHANGED <<state, wal, flushers, pins, hist, limbo>>

FinishCompaction ==
    /\ comp.step = "finish"
    /\ \E new \in {scheduled(Idle, tables, files, db)} :
          /\ disk' = disk
          /\ Released([db EXCEPT !.compactPtr = cursors(Idle, new, db, tables)],
                      (refs (-) SetToBag(comp.inputs)) (+) inputRefs(Idle, new), new)
    /\ Broadcast
    /\ UNCHANGED <<state, wal, manifest, flushers, pins, hist, limbo, events>>
----------------------------------------------------------------------------
(* Readers *)

\* acquire, for a Get or a Scan.
Acquire ==
    /\ state = "open"
    /\ ~ db.closing
    /\ Cardinality(pins) < MaxPins
    /\ pins' = pins \cup {[rs |-> db.rs, seq |-> db.seq, mem |-> db.mem, imm |-> db.imm,
                           files |-> files, at |-> Len(hist)]}
    /\ UNCHANGED <<state, wal, manifest, tables, disk, db, asleep, woken, flushers, comp,
                   refs, hist, limbo, events>>

\* release: the last reader of a replaced view lets its tables go.
Release(p) ==
    /\ pins' = pins \ {p}
    /\ refs' = IF p.rs = db.rs \/ \E x \in pins \ {p} : x.rs = p.rs
               THEN refs
               ELSE refs (-) SetToBag(live(p.files))
    /\ tables' = kept(tables, disk, refs')
    /\ UNCHANGED <<state, wal, manifest, disk, db, asleep, woken, flushers, comp, hist,
                   limbo, events>>
----------------------------------------------------------------------------
(* Open, Close and crashes *)

\* What a crash at this moment leaves of the writes.
durable ==
    CASE state # "open" -> hist
      [] state = "open" /\ db.opts.wal -> hist \o limbo
      [] OTHER -> SelectSeq(hist, LAMBDA b : lastSeqOf(b) <= manifest.lastSeq)

Stopped(how) ==
    /\ state' = how
    /\ asleep' = EmptyBag
    /\ woken' = EmptyBag
    /\ flushers' = {}
    /\ comp' = Idle
    /\ refs' = EmptyBag
    /\ pins' = {}
    /\ tables' = kept(tables, disk, EmptyBag)
    /\ hist' = durable
    /\ limbo' = <<>>
    /\ db' = [bgErr |-> db.bgErr, vsErr |-> db.vsErr, opts |-> db.opts]
    /\ UNCHANGED <<wal, manifest, disk, events>>

Crash == state = "open" /\ Stopped("crashed")

\* Iterators are closed first, and nobody is in a write.
BeginClose ==
    /\ state = "open"
    /\ ~ db.closing
    /\ pins = {}
    /\ asleep = EmptyBag
    /\ woken = EmptyBag
    /\ db' = [db EXCEPT !.closing = TRUE]
    /\ UNCHANGED <<state, wal, manifest, tables, disk, asleep, woken, flushers, comp, refs,
                   pins, hist, limbo, events>>

CloseFlush ==
    /\ state = "open"
    /\ drained
    /\ toFlush
    /\ \E r \in {sealed} : db' = r.db /\ wal' = r.wal /\ refs' = r.refs
                        /\ flushers' = r.flushers
    /\ UNCHANGED <<state, manifest, tables, disk, asleep, woken, comp, pins, hist, limbo, events>>

Close == state = "open" /\ drained /\ ~ toFlush /\ Stopped("closed")

\* The number after every file on disk; the manifest Open writes takes one.
nextAfterScan == Max({manifest.next} \cup {n + 1 : n \in disk}) + 1

Open(opts) ==
    /\ state # "open"
    /\ Event
    /\ \E w \in {segmentsFrom(wal, manifest.log)} :
          LET mem == UNION {entriesOf(b) : b \in replayed(w)}
              seq == Max({manifest.lastSeq} \cup {e.seq : e \in mem})
              fresh == [mem |-> mem, imm |-> {}, immSeq |-> 0, immBound |-> 0, seq |-> seq,
                        lastSeq |-> seq, next |-> nextAfterScan, pending |-> {},
                        files |-> manifest.files,
                        compactPtr |-> [l \in 0 .. NumLevels - 1 |-> {}], bgErr |-> None,
                        vsErr |-> None, closing |-> FALSE, rs |-> 0, opts |-> opts]
              new == scheduled(Idle, tables, fresh.files, fresh)
          IN  /\ replayable(w)
              /\ opts.wal \/ replayed(w) = {}
              /\ wal' = IF opts.wal
                        THEN openSegment(repairTornTail(w), IF w = <<>> THEN 1 ELSE Max(DOMAIN w) + 1)
                        ELSE w
              /\ db' = [fresh EXCEPT !.compactPtr = cursors(Idle, new, fresh, tables)]
              /\ refs' = (refEach(live(fresh.files)) (+) SetToBag(live(fresh.files)))
                            (+) inputRefs(Idle, new)
              /\ comp' = new
    /\ disk' = disk \cap live(manifest.files)
    /\ tables' = kept(tables, disk', refs')
    /\ manifest' = [manifest EXCEPT !.next = nextAfterScan]
    /\ state' = "open"
    /\ UNCHANGED <<asleep, woken, flushers, pins, hist, limbo>>
----------------------------------------------------------------------------
Init ==
    /\ state = "closed"
    /\ wal = <<>>
    /\ manifest = [files |-> <<>>, log |-> 0, lastSeq |-> 0, next |-> 1]
    /\ tables = <<>>
    /\ disk = {}
    /\ \E opts \in Opts : db = [bgErr |-> None, vsErr |-> None, opts |-> opts]
    /\ asleep = EmptyBag
    /\ woken = EmptyBag
    /\ flushers = {}
    /\ comp = Idle
    /\ refs = EmptyBag
    /\ pins = {}
    /\ hist = <<>>
    /\ limbo = <<>>
    /\ events = 0

Next ==
    \/ \E turn \in Turns : Wait(turn)
    \/ \E turn \in Turns : GiveUp(turn)
    \/ \E turn \in Turns : write(turn)
    \/ \E turn \in Turns : WriteFails(turn)
    \/ \E turn \in Turns : RotateFails(turn)
    \/ \E fl \in flushers : StartFlush(fl)
    \/ \E fl \in flushers : writeTable(fl)
    \/ \E fl \in flushers : ApplyFlush(fl)
    \/ \E fl \in flushers : FlushFails(fl)
    \/ \E fl \in flushers : Prune(fl)
    \/ \E fl \in flushers : PruneFails(fl)
    \/ Merge
    \/ MergeFails
    \/ ApplyCompaction
    \/ CompactionFails
    \/ FinishCompaction
    \/ Acquire
    \/ \E p \in pins : Release(p)
    \/ Crash
    \/ BeginClose
    \/ CloseFlush
    \/ Close
    \/ \E opts \in Opts : Open(opts)

Spec == Init /\ [][Next]_vars
----------------------------------------------------------------------------
\* What the first n batches leave at a key.
valueAfter(batches, n, k) ==
    LET hits == {i \in 1 .. n : k \in DOMAIN batches[i].puts}
    IN  IF hits = {} THEN Absent ELSE batches[Max(hits)].puts[k]

(***************************************************************************)
(* A Get and an iterator see the writes made before they acquired their    *)
(* view, each key's last one, for as long as they hold it, whatever is     *)
(* sealed, flushed, compacted or deleted meanwhile; so does a Get that     *)
(* acquires a view now.                                                    *)
(***************************************************************************)
ReadsSnapshot ==
    /\ \A p \in pins :
          /\ live(p.files) \subseteq DOMAIN tables
          /\ \A k \in Key : /\ get(p.mem, p.imm, p.files, p.seq, k) = valueAfter(hist, p.at, k)
                            /\ scan(p.mem, p.imm, p.files, p.seq, k) = valueAfter(hist, p.at, k)
    /\ state = "open" => \A k \in Key :
          get(db.mem, db.imm, files, db.seq, k) = valueAfter(hist, Len(hist), k)

(***************************************************************************)
(* A crash at any moment loses nothing: with the log every acknowledged    *)
(* batch is recovered whole, and without it exactly the batches up to the  *)
(* manifest's last sequence number, a prefix.                              *)
(***************************************************************************)
Recovers ==
    LET mem == UNION {entriesOf(b) : b \in replayed(segmentsFrom(wal, manifest.log))}
    IN  \A k \in Key : get(mem, {}, manifest.files, MaxSeq, k)
                         = valueAfter(durable, Len(durable), k)

(***************************************************************************)
(* The directory can be opened again after a crash at any moment: the log  *)
(* has no gap and is torn at its end only, and every table the manifest    *)
(* names is on disk.                                                       *)
(***************************************************************************)
CanReopen ==
    /\ replayable(segmentsFrom(wal, manifest.log))
    /\ live(manifest.files) \subseteq disk

\* Tables written for an edit to come are not collected before it.
PendingKept ==
    /\ \A fl \in flushers : fl.step = "apply" => fl.num \in disk
    /\ comp.step = "apply" => comp.out \subseteq disk


\* After a clean Close the log holds no data and reopening replays nothing.
CloseDrains ==
    (state = "closed" /\ db.bgErr = None) => replayed(segmentsFrom(wal, manifest.log)) = {}

(***************************************************************************)
(* Nobody sleeps for good: while a writer waits on DB.cond in one of the   *)
(* loops of makeRoomLocked, a goroutine is under way that ends with a      *)
(* Broadcast, also when the reason of the wait is gone or a failure has    *)
(* poisoned the engine; and so while Close waits.  For a writer stalled on *)
(* level 0 that takes a compaction threshold not above the one that stops  *)
(* it.                                                                     *)
(***************************************************************************)
WaitersBacked ==
    state = "open" =>
        /\ (BagIn("imm", asleep) \/ (BagIn("l0", asleep) /\ db.opts.compact <= db.opts.stop))
               => flushers # {} \/ comp # Idle
        /\ (db.closing /\ ~ drained) => flushers # {} \/ comp # Idle
============================================================================
