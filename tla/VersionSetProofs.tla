-------------------------- MODULE VersionSetProofs --------------------------
(***************************************************************************)
(* File numbers are handed out once, for all constants: whatever failed or *)
(* crashed, the counter of an open set is beyond every file on disk.       *)
(***************************************************************************)
EXTENDS VersionSet, SequenceTheorems, WellFoundedInduction, TLAPS

\* Time for the solver on a busy machine, and a second attempt.
USE SMTT(300), Z3T(300)

Directory == [manifests : SUBSET FileNum, tables : SUBSET FileNum, current : {0} \cup FileNum]

\* A sequence of records, each stamped with a counter.
Records(s) == \E R : s \in Seq(R) /\ \A r \in R : r.next \in Nat

\* The steps of a rotation that know the new manifest's number.
numbered == {"sync manifest", "sync dir", "rename", "sync rename"}

Shapes ==
    /\ vs = [files |-> vs.files, next |-> vs.next, num |-> vs.num, size |-> vs.size,
             failed |-> vs.failed]
    /\ op = [step |-> op.step, opening |-> op.opening, num |-> op.num, edit |-> op.edit,
             doomed |-> op.doomed]
    /\ logs = [n \in FileNum |-> logs[n]]

(***************************************************************************)
(* Nothing is being written while the set is closed or opening, so that    *)
(* the scan of the directory sees every number in use.                     *)
(***************************************************************************)
FreshInv ==
    /\ dir \in Directory
    /\ stable \in Directory
    /\ pending \subseteq FileNum
    /\ \A n \in FileNum : Records(logs[n])
    /\ Shapes
    /\ vs.next \in Nat
    /\ op.step \in numbered => op.num \in FileNum
    /\ (op = closed \/ op.opening) => pending = {}
    /\ NumbersFresh
----------------------------------------------------------------------------
(* Sets of naturals *)

\* A non-empty set of naturals has a least element.
LEMMA Least ==
    ASSUME NEW S, S \subseteq Nat, S # {}
    PROVE  \E i \in S : \A j \in S : i <= j
<1>1. PICK i \in S : \A j \in S : ~ (<<j, i>> \in OpToRel(<, Nat))
  BY WFMin, NatLessThanWellFounded, ZenonT(300)
<1>2. \A j \in S : ~ (j < i)
  BY <1>1, ZenonT(300) DEF OpToRel
<1> QED  BY <1>2

\* Max finds the greatest element of a bounded set.
LEMMA MaxOfBounded ==
    ASSUME NEW S, NEW b \in Nat, S \subseteq 0 .. b, S # {}
    PROVE  Max(S) \in S /\ \A x \in S : x <= Max(S)
<1> DEFINE D == {y \in 0 .. b : b - y \in S}
<1>1. \A x \in S : x \in Nat /\ b - x \in D
  <2> SUFFICES ASSUME NEW x \in S PROVE x \in Nat /\ b - x \in D
    OBVIOUS
  <2>1. x \in Nat /\ b - x \in 0 .. b /\ b - (b - x) = x
    OBVIOUS
  <2> QED  BY <2>1
<1>2. D \subseteq Nat /\ D # {}
  <2>1. D \subseteq Nat
    OBVIOUS
  <2>2. PICK x : x \in S
    OBVIOUS
  <2> HIDE DEF D
  <2> QED  BY <1>1, <2>1, <2>2
<1>3. PICK d \in D : \A e \in D : d <= e
  BY <1>2, Least, ZenonT(300)
<1>4. b - d \in S /\ \A x \in S : b - d >= x
  <2>1. d \in Nat /\ b - d \in S
    OBVIOUS
  <2>2. \A x \in S : x \in Nat /\ d <= b - x
    BY <1>1, <1>3
  <2> HIDE DEF D
  <2> QED  BY <2>1, <2>2
<1>5. Max(S) \in S /\ \A x \in S : Max(S) >= x
  BY <1>4, ZenonT(300) DEF Max
<1> HIDE DEF D
<1> QED  BY <1>1, <1>5

\* Min finds the least element.
LEMMA MinOfNaturals ==
    ASSUME NEW S, S \subseteq Nat, S # {}
    PROVE  Min(S) \in S
<1>1. PICK i \in S : \A j \in S : i <= j
  BY Least, ZenonT(300)
<1> QED  BY <1>1, ZenonT(300) DEF Min
----------------------------------------------------------------------------
(* The records of a manifest *)

\* A manifest without records.
LEMMA RecordsEmpty == Records(<<>>)
<1> DEFINE R == {Torn}
<1>1. <<>> \in Seq(R) /\ \A r \in R : r.next \in Nat
  BY DEF Torn
<1> HIDE DEF R
<1> QED  BY <1>1, ZenonT(300) DEF Records

\* A manifest grows by a stamped record.
LEMMA RecordsAppend ==
    ASSUME NEW s, Records(s), NEW e, e.next \in Nat
    PROVE  Records(Append(s, e))
<1>1. PICK R : s \in Seq(R) /\ \A r \in R : r.next \in Nat
  BY DEF Records
<1> DEFINE Q == R \cup {e}
<1>2. s \in Seq(Q) /\ e \in Q /\ \A r \in Q : r.next \in Nat
  BY <1>1
<1> HIDE DEF Q
<1>3. Append(s, e) \in Seq(Q)
  BY <1>2
<1> QED  BY <1>2, <1>3 DEF Records

\* A manifest is cut.
LEMMA RecordsPrefix ==
    ASSUME NEW s, Records(s), NEW k \in Int, k <= Len(s)
    PROVE  Records(SubSeq(s, 1, k))
<1>1. PICK R : s \in Seq(R) /\ \A r \in R : r.next \in Nat
  BY DEF Records
<1>2. \A i \in 1 .. k : s[i] \in R
  BY <1>1
<1>3. SubSeq(s, 1, k) \in Seq(R)
  BY <1>1, <1>2, SubSeqProperties
<1> QED  BY <1>1, <1>3 DEF Records

\* What replay reads of a manifest is a prefix of it.
LEMMA ReadableRecords ==
    ASSUME NEW s, Records(s)
    PROVE  Records(readable(s))
<1> DEFINE I == {i \in 1 .. Len(s) : s[i] = Torn}
           bad == SelectInSeq(s, LAMBDA r : r = Torn)
<1>1. Len(s) \in Nat
  BY DEF Records
<1>2. bad = IF I # {} THEN Min(I) ELSE 0
  BY DEF SelectInSeq
<1>3. I # {} => Min(I) \in I
  BY <1>1, MinOfNaturals
<1>4. CASE bad = 0
  BY <1>4 DEF readable
<1>5. CASE bad # 0
  <2>1. bad \in 1 .. Len(s)
    BY <1>2, <1>3, <1>5
  <2>2. bad - 1 \in Int /\ bad - 1 <= Len(s)
    BY <1>1, <2>1
  <2> HIDE DEF bad
  <2>3. Records(SubSeq(s, 1, bad - 1))
    BY <2>2, RecordsPrefix
  <2> QED  BY <1>5, <2>3 DEF readable, bad
<1> QED  BY <1>4, <1>5

\* The counter a manifest recovers to is a number.
LEMMA LoggedNextType ==
    ASSUME NEW s, Records(s)
    PROVE  loggedNext(s) \in Nat
<1>1. PICK R : readable(s) \in Seq(R) /\ \A r \in R : r.next \in Nat
  BY ReadableRecords DEF Records
<1>2. CASE readable(s) = <<>>
  BY <1>2 DEF loggedNext
<1>3. CASE readable(s) # <<>>
  <2> DEFINE q == readable(s)
  <2> HIDE DEF q
  <2>1. q \in Seq(R) /\ q # <<>>
    BY <1>1, <1>3 DEF q
  <2>2. q[Len(q)] \in R
    BY <2>1
  <2> QED  BY <1>1, <1>3, <2>2 DEF loggedNext, Last, q
<1> QED  BY <1>2, <1>3

\* Open's counter is beyond the manifest it read and every file it saw.
LEMMA NextFileNumFresh ==
    ASSUME NEW d \in Directory, \A n \in FileNum : Records(logs[n])
    PROVE  /\ nextFileNum(d) \in Nat
           /\ \A n \in d.manifests \cup d.tables : n < nextFileNum(d)
<1> DEFINE logged == IF d.current = 0 THEN 1 ELSE loggedNext(logs[d.current])
           used == d.manifests \cup d.tables
           S == {d.current + 1, logged} \cup {n + 1 : n \in used}
           b == MaxFileNum + 1 + logged
<1>1. MaxFileNum \in Nat /\ used \subseteq FileNum /\ d.current \in 0 .. MaxFileNum
  BY VersionSetAssumption DEF Directory, FileNum
<1>2. logged \in Nat
  BY LoggedNextType DEF Directory
<1>3. nextFileNum(d) = Max(S)
  BY DEF nextFileNum
<1> HIDE DEF logged
<1>4. b \in Nat /\ d.current + 1 \in 0 .. b /\ logged \in 0 .. b
  BY <1>1, <1>2
<1>5. \A n \in used : n \in Nat /\ n + 1 \in 0 .. b
  BY <1>1, <1>2 DEF FileNum
<1> HIDE DEF b, used
<1>6. S \subseteq 0 .. b /\ S # {}
  BY <1>4, <1>5
<1>7. \A n \in used : n + 1 \in S
  OBVIOUS
<1> HIDE DEF S
<1>8. Max(S) \in S /\ \A x \in S : x <= Max(S)
  BY <1>4, <1>6, MaxOfBounded, ZenonT(300)
<1>9. Max(S) \in Nat
  <2>1. 0 .. b \subseteq Nat
    BY <1>4
  <2> QED  BY <1>6, <1>8, <2>1, ZenonT(300)
<1>10. \A n \in used : n < Max(S)
  BY <1>5, <1>7, <1>8, <1>9
<1> QED  BY <1>3, <1>9, <1>10 DEF used
----------------------------------------------------------------------------
(* The invariant, action by action *)

LEMMA InitFresh ==
    ASSUME Init
    PROVE  FreshInv
<1>1. dir \in Directory /\ stable \in Directory /\ pending = {}
  BY DEF Init, Directory
<1>2. \A n \in FileNum : Records(logs[n])
  BY RecordsEmpty DEF Init
<1>3. Shapes /\ vs.next = 1 /\ op.step = "closed" /\ op = closed
  BY DEF Init, Shapes, noSet, closed, At
<1> QED  BY <1>1, <1>2, <1>3 DEF FreshInv, NumbersFresh, numbered

LEMMA OpenFresh ==
    ASSUME FreshInv, Open
    PROVE  FreshInv'
<1>1. /\ dir \in Directory /\ pending = {}
      /\ \A n \in FileNum : Records(logs[n])
  BY DEF Open, FreshInv
<1>2. /\ vs' = [files |-> recovered(dir), next |-> nextFileNum(dir), num |-> dir.current,
                size |-> 0, failed |-> FALSE]
      /\ op' = [step |-> "create", opening |-> TRUE, num |-> 0, edit |-> Torn, doomed |-> {}]
      /\ UNCHANGED <<dir, stable, logs, pending>>
  BY ZenonT(300) DEF Open, noSet, At
<1>3. /\ nextFileNum(dir) \in Nat
      /\ \A n \in dir.manifests \cup dir.tables : n < nextFileNum(dir)
  BY <1>1, NextFileNumFresh
<1>4. vs'.next = nextFileNum(dir) /\ op'.step = "create"
  BY <1>2
<1>5. Shapes'
  BY <1>2 DEF FreshInv, Shapes
<1>6. NumbersFresh'
  BY <1>1, <1>2, <1>3, <1>4 DEF NumbersFresh
<1>7. (op.step \in numbered => op.num \in FileNum)'
  BY <1>4 DEF numbered
<1> QED  BY <1>1, <1>2, <1>3, <1>4, <1>5, <1>6, <1>7 DEF FreshInv

\* The set is closed, by an error in Open, by Close or by a crash.
LEMMA ClosedFresh ==
    ASSUME vs' = noSet, op' = closed, pending' = {},
           dir' \in Directory, stable' \in Directory,
           logs' = [n \in FileNum |-> logs'[n]],
           \A n \in FileNum : Records(logs'[n])
    PROVE  FreshInv'
<1>1. Shapes' /\ vs'.next \in Nat /\ op'.step = "closed"
  BY DEF Shapes, noSet, closed, At
<1> QED  BY <1>1 DEF FreshInv, NumbersFresh, numbered

LEMMA ClosedStep == closed.step = "closed"
  BY DEF closed, At

LEMMA RotationFresh ==
    ASSUME FreshInv,
           \/ CreateManifest \/ SyncManifest \/ SyncDir \/ RenameCurrent \/ SyncRename
    PROVE  FreshInv'
<1> USE DEF FreshInv
<1>1. CASE CreateManifest
  <2>1. /\ op.step = "create" /\ vs.next \in FileNum /\ stable' = stable /\ pending' = pending
        /\ dir' = [dir EXCEPT !.manifests = @ \cup {vs.next}]
        /\ logs' = [logs EXCEPT ![vs.next] = <<snapshot(vs)>>]
        /\ vs' = [vs EXCEPT !.next = @ + 1]
        /\ op' = [op EXCEPT !.step = "sync manifest", !.num = vs.next]
    BY <1>1 DEF CreateManifest
  <2>2. op # closed
    BY <2>1, ClosedStep
  <2>3. Records(<<snapshot(vs)>>)
    <3>1. snapshot(vs).next \in Nat
      BY DEF snapshot
    <3>2. Records(Append(<<>>, snapshot(vs)))
      BY <3>1, RecordsEmpty, RecordsAppend, ZenonT(300)
    <3>3. Append(<<>>, snapshot(vs)) = <<snapshot(vs)>>
      OBVIOUS
    <3> QED  BY <3>2, <3>3
  <2>4. vs'.next = vs.next + 1 /\ op'.step = "sync manifest" /\ op'.num = vs.next
        /\ op'.opening = op.opening
    BY <2>1 DEF Shapes
  <2>5. Shapes'
    BY <2>1, ZenonT(300) DEF Shapes
  <2>6. dir' \in Directory
    BY <2>1 DEF Directory
  <2>7. \A n \in FileNum : Records(logs'[n])
    BY <2>1, <2>3 DEF Shapes
  <2>8. op' # closed
    BY <2>4, ClosedStep, ZenonT(300)
  <2>9. NumbersFresh'
    <3>1. dir'.manifests = dir.manifests \cup {vs.next} /\ dir'.tables = dir.tables
      BY <2>1 DEF Directory
    <3>2. \A n \in dir'.manifests \cup dir'.tables \cup pending' :
              n \in FileNum /\ n < vs.next + 1
      BY <2>1, <2>2, <3>1 DEF NumbersFresh, Directory, FileNum
    <3> QED  BY <2>4, <3>2, ZenonT(300) DEF NumbersFresh
  <2>10. vs'.next \in Nat /\ pending' \subseteq FileNum /\ stable' \in Directory
    BY <2>1, <2>4
  <2>11. (op.step \in numbered => op.num \in FileNum)'
    BY <2>1, <2>4, ZenonT(300)
  <2>12. (op = closed \/ op.opening => pending = {})'
    BY <2>1, <2>4, <2>8
  <2> QED  BY <2>5, <2>6, <2>7, <2>9, <2>10, <2>11, <2>12
<1>2. CASE SyncManifest \/ SyncDir
  <2>1. /\ op.step \in {"sync manifest", "sync dir"} /\ vs' = vs /\ pending' = pending
        /\ dir' = dir /\ logs' = logs /\ stable' \in {dir, stable}
        /\ op' = [op EXCEPT !.step = op'.step] /\ op'.step \in {"sync dir", "rename"}
    BY <1>2, ZenonT(300) DEF SyncManifest, SyncDir, Shapes
  <2>2. op'.num = op.num /\ op'.opening = op.opening /\ Shapes'
    BY <2>1, ZenonT(300) DEF Shapes
  <2>3. op # closed /\ op' # closed /\ op.num \in FileNum
    BY <2>1, ClosedStep, ZenonT(300) DEF numbered
  <2> QED  BY <2>1, <2>2, <2>3, ZenonT(300) DEF NumbersFresh
<1>3. CASE RenameCurrent
  <2>1. /\ op.step = "rename" /\ vs' = vs /\ pending' = pending
        /\ dir' = [dir EXCEPT !.current = op.num] /\ logs' = logs /\ stable' = stable
        /\ op' = [op EXCEPT !.step = "sync rename"]
    BY <1>3, ZenonT(300) DEF RenameCurrent
  <2>2. op'.num = op.num /\ op'.opening = op.opening /\ op'.step = "sync rename" /\ Shapes'
    BY <2>1, ZenonT(300) DEF Shapes
  <2>3. op # closed /\ op' # closed /\ op.num \in FileNum
    BY <2>1, <2>2, ClosedStep, ZenonT(300) DEF numbered
  <2>4. dir' \in Directory /\ dir'.manifests = dir.manifests /\ dir'.tables = dir.tables
    BY <2>1, <2>3, ZenonT(300) DEF Directory
  <2> QED  BY <2>1, <2>2, <2>3, <2>4, ZenonT(300) DEF NumbersFresh
<1>4. CASE SyncRename
  <2>1. /\ op.step = "sync rename" /\ pending' = pending /\ dir' = dir /\ logs' = logs
        /\ stable' = dir /\ vs' = [vs EXCEPT !.num = op.num, !.size = 0]
        /\ op' = afterRotate(vs, op.num)
    BY <1>4, ZenonT(300) DEF SyncRename
  <2>2. vs'.next = vs.next /\ Shapes'
    BY <2>1, ZenonT(300) DEF Shapes, afterRotate, idle, At
  <2>3. op'.step \in {"delete", "idle"} /\ (op'.opening => op.opening)
    BY <2>1, ZenonT(300) DEF Shapes, afterRotate, idle, At
  <2>4. op # closed /\ op' # closed
    BY <2>1, <2>3, ClosedStep, ZenonT(300)
  <2> QED  BY <2>1, <2>2, <2>3, <2>4, ZenonT(300) DEF NumbersFresh, numbered
<1> QED  BY <1>1, <1>2, <1>3, <1>4

LEMMA DeleteFresh ==
    ASSUME FreshInv,
           Collected \/ \E x \in op.doomed : RemoveFile(x)
    PROVE  FreshInv'
<1> USE DEF FreshInv
<1>1. CASE Collected
  <2>1. /\ op.step = "delete" /\ vs' = vs /\ pending' = pending /\ dir' = dir /\ stable' = dir
        /\ logs' = [n \in FileNum |-> IF n \in dir.manifests THEN logs[n] ELSE <<>>]
        /\ op' = idle
    BY <1>1 DEF Collected
  <2>2. \A n \in FileNum : Records(logs'[n])
    BY <2>1, RecordsEmpty
  <2>3. Shapes' /\ op'.step = "idle" /\ op'.opening = FALSE
    BY <2>1 DEF Shapes, idle, At
  <2>4. op # closed /\ op' # closed
    BY <2>1, <2>3, ClosedStep
  <2> QED  BY <2>1, <2>2, <2>3, <2>4 DEF NumbersFresh, numbered
<1>2. ASSUME NEW x \in op.doomed, RemoveFile(x)  PROVE FreshInv'
  <2>1. /\ op.step = "delete" /\ vs' = vs /\ pending' = pending /\ stable' = stable
        /\ logs' = logs /\ op' = [op EXCEPT !.doomed = @ \ {x}]
        /\ dir' = IF x[1] = "table" THEN [dir EXCEPT !.tables = @ \ {x[2]}]
                                    ELSE [dir EXCEPT !.manifests = @ \ {x[2]}]
    BY <1>2 DEF RemoveFile
  <2>2. Shapes' /\ op'.step = "delete" /\ op'.opening = op.opening
    BY <2>1 DEF Shapes
  <2>3. op # closed /\ op' # closed
    BY <2>1, <2>2, ClosedStep, ZenonT(300)
  <2>4. dir' \in Directory /\ dir'.manifests \subseteq dir.manifests
        /\ dir'.tables \subseteq dir.tables
    BY <2>1 DEF Directory
  <2> QED  BY <2>1, <2>2, <2>3, <2>4, ZenonT(300) DEF NumbersFresh, numbered
<1> QED  BY <1>1, <1>2

\* A rotation or a removal fails; Open then opens nothing.
LEMMA FailureFresh ==
    ASSUME FreshInv, RotateFails \/ RemoveFails
    PROVE  FreshInv'
<1> USE DEF FreshInv
<1>1. /\ dir' = dir /\ stable' = stable /\ logs' = logs /\ pending' = pending
      /\ op.step \in rotating \cup {"delete"}
      /\ op' = IF op.opening THEN closed ELSE idle
      /\ IF op.opening THEN vs' = noSet
                       ELSE vs' = vs \/ vs' = [vs EXCEPT !.failed = TRUE]
  BY DEF RotateFails, RemoveFails
<1>2. CASE op.opening
  <2>1. logs' = [n \in FileNum |-> logs'[n]]
    BY <1>1 DEF Shapes
  <2> QED  BY <1>1, <1>2, <2>1, ClosedFresh
<1>3. CASE ~ op.opening
  <2>1. op' = idle /\ (vs' = vs \/ vs' = [vs EXCEPT !.failed = TRUE])
    BY <1>1, <1>3
  <2>2. op'.step = "idle" /\ op'.opening = FALSE /\ vs'.next = vs.next /\ Shapes'
    <3> HIDE DEF FreshInv
    <3>1. vs = [files |-> vs.files, next |-> vs.next, num |-> vs.num, size |-> vs.size,
                failed |-> vs.failed]
          /\ logs = [n \in FileNum |-> logs[n]]
      BY DEF FreshInv, Shapes
    <3>2. vs'.next = vs.next
          /\ vs' = [files |-> vs'.files, next |-> vs'.next, num |-> vs'.num, size |-> vs'.size,
                    failed |-> vs'.failed]
      BY <2>1, <3>1
    <3>3. op'.step = "idle" /\ op'.opening = FALSE
          /\ op' = [step |-> op'.step, opening |-> op'.opening, num |-> op'.num,
                    edit |-> op'.edit, doomed |-> op'.doomed]
      BY <2>1 DEF idle, At
    <3> QED  BY <1>1, <3>1, <3>2, <3>3, ZenonT(300) DEF Shapes
  <2>3. op # closed /\ op' # closed
    BY <1>1, <2>2, ClosedStep, ZenonT(300) DEF rotating
  <2> QED  BY <1>1, <2>2, <2>3, ZenonT(300) DEF NumbersFresh, numbered
<1> QED  BY <1>2, <1>3

LEMMA TableFresh ==
    ASSUME FreshInv,
           AllocFileNum \/ \E t \in pending : CreateTable(t) \/ SyncTable(t) \/ TableFails(t)
    PROVE  FreshInv'
<1> USE DEF FreshInv
<1>1. CASE AllocFileNum
  <2>1. /\ op = idle /\ op' = op /\ dir' = dir /\ stable' = stable /\ logs' = logs
        /\ vs.next \in FileNum /\ pending' = pending \cup {vs.next}
        /\ vs' = [vs EXCEPT !.next = @ + 1]
    BY <1>1 DEF AllocFileNum
  <2>2. op.step = "idle" /\ op.opening = FALSE
    BY <2>1 DEF idle, At
  <2>3. vs'.next = vs.next + 1 /\ Shapes'
    BY <2>1 DEF Shapes
  <2>4. op # closed
    BY <2>2, ClosedStep
  <2>5. NumbersFresh'
    <3>1. \A n \in dir'.manifests \cup dir'.tables \cup pending' :
              n \in FileNum /\ n < vs.next + 1
      BY <2>1, <2>4 DEF NumbersFresh, Directory, FileNum
    <3> QED  BY <2>3, <3>1 DEF NumbersFresh
  <2>6. (op = closed \/ op.opening => pending = {})'
    BY <2>1, <2>2, <2>4
  <2>7. (op.step \in numbered => op.num \in FileNum)'
    BY <2>1
  <2>8. vs'.next \in Nat /\ pending' \subseteq FileNum
    BY <2>1, <2>3
  <2> QED  BY <2>1, <2>3, <2>5, <2>6, <2>7, <2>8
<1>2. ASSUME NEW t \in pending, CreateTable(t)  PROVE FreshInv'
  <2>1. /\ op' = op /\ vs' = vs /\ stable' = stable /\ logs' = logs /\ pending' = pending
        /\ dir' = [dir EXCEPT !.tables = @ \cup {t}]
    BY <1>2 DEF CreateTable
  <2>2. dir' \in Directory /\ dir'.manifests = dir.manifests /\ dir'.tables = dir.tables \cup {t}
    BY <2>1 DEF Directory
  <2>3. Shapes'
    BY <2>1 DEF Shapes
  <2> QED  BY <2>1, <2>2, <2>3 DEF NumbersFresh
<1>3. ASSUME NEW t \in pending, SyncTable(t) \/ TableFails(t)  PROVE FreshInv'
  <2>1. /\ op' = op /\ vs' = vs /\ stable' \in {dir, stable} /\ logs' = logs /\ dir' = dir
        /\ pending' \subseteq pending
    BY <1>3 DEF SyncTable, TableFails
  <2>2. Shapes'
    BY <2>1 DEF Shapes
  <2> QED  BY <2>1, <2>2 DEF NumbersFresh
<1> QED  BY <1>1, <1>2, <1>3

\* A record reaches the manifest in use.
LEMMA LogGrows ==
    ASSUME FreshInv, NEW e, e.next \in Nat,
           logs' = [logs EXCEPT ![vs.num] = Append(@, e)]
    PROVE  logs' = [n \in FileNum |-> logs'[n]] /\ \A n \in FileNum : Records(logs'[n])
<1>1. logs = [n \in FileNum |-> logs[n]] /\ \A n \in FileNum : Records(logs[n])
  BY DEF FreshInv, Shapes
<1>2. logs' = [n \in FileNum |-> logs'[n]]
  BY <1>1, ZenonT(300)
<1>3. \A n \in FileNum : logs'[n] = IF n = vs.num THEN Append(logs[n], e) ELSE logs[n]
  BY <1>1
<1>4. \A n \in FileNum : Records(Append(logs[n], e))
  BY <1>1, RecordsAppend
<1> QED  BY <1>1, <1>2, <1>3, <1>4

LEMMA WriteFresh ==
    ASSUME FreshInv, WriteFails \/ \E e \in edits : WriteEdit(e)
    PROVE  FreshInv'
<1>1. PICK e : /\ e.next \in Nat
               /\ logs' = [logs EXCEPT ![vs.num] = Append(@, e)]
               /\ vs' = vs \/ vs' = [vs EXCEPT !.failed = TRUE]
               /\ op' = op \/ op' = [At("logged") EXCEPT !.edit = e]
               /\ op = idle /\ dir' = dir /\ stable' = stable /\ pending' = pending
  <2>1. CASE WriteFails
    <3>1. Torn.next \in Nat
      BY DEF Torn
    <3> QED  BY <2>1, <3>1, ZenonT(300) DEF WriteFails
  <2>2. CASE \E e \in edits : WriteEdit(e)
    <3>1. PICK e \in edits : WriteEdit(e)
      BY <2>2
    <3>2. e.next = vs.next
      BY DEF edits
    <3> QED  BY <3>1, <3>2, ZenonT(300) DEF WriteEdit, FreshInv
  <2> QED  BY <2>1, <2>2
<1>2. logs' = [n \in FileNum |-> logs'[n]] /\ \A n \in FileNum : Records(logs'[n])
  BY <1>1, LogGrows, ZenonT(300)
<1>3. op.step = "idle" /\ op'.step \in {"idle", "logged"} /\ op'.opening = FALSE
  BY <1>1 DEF idle, At
<1>4. vs'.next = vs.next /\ Shapes'
  BY <1>1, <1>2 DEF FreshInv, Shapes, At
<1>5. op # closed /\ op' # closed
  BY <1>3, ClosedStep
<1> QED  BY <1>1, <1>2, <1>3, <1>4, <1>5, ZenonT(300) DEF FreshInv, NumbersFresh, numbered

LEMMA ApplyFresh ==
    ASSUME FreshInv, SyncEdit \/ SyncEditFails
    PROVE  FreshInv'
<1> USE DEF FreshInv
<1>1. /\ dir' = dir /\ stable' = stable /\ logs' = logs /\ pending' \subseteq pending
      /\ op.step = "logged"
  BY DEF SyncEdit, SyncEditFails
<1>2. vs'.next = vs.next /\ Shapes' /\ op'.step \in {"create", "delete", "idle"}
      /\ (op'.opening => op.opening)
  <2>1. CASE SyncEdit
    BY <1>1, <2>1, ZenonT(300) DEF SyncEdit, Shapes, afterRotate, idle, At
  <2>2. CASE SyncEditFails
    BY <1>1, <2>2, ZenonT(300) DEF SyncEditFails, Shapes, idle, At
  <2> QED  BY <2>1, <2>2
<1>3. op # closed /\ op' # closed
  BY <1>1, <1>2, ClosedStep
<1> QED  BY <1>1, <1>2, <1>3, ZenonT(300) DEF NumbersFresh, numbered

\* What a machine crash leaves of a manifest.
LEMMA SurvivesRecords ==
    ASSUME NEW s, Records(s), NEW fate \in {"kept", "torn", "lost"}
    PROVE  Records(survives(s, fate))
<1>1. Len(s) \in Nat
  BY DEF Records
<1>2. Records(SubSeq(s, 1, Len(s) - 1))
  <2>1. Len(s) - 1 \in Int /\ Len(s) - 1 <= Len(s)
    BY <1>1
  <2> QED  BY <2>1, RecordsPrefix
<1>3. Records(Front(s))
  BY <1>2 DEF Front
<1>4. Torn.next \in Nat
  BY DEF Torn
<1>5. Records(Append(Front(s), Torn))
  BY <1>3, <1>4, RecordsAppend
<1> QED  BY <1>3, <1>5 DEF survives

LEMMA StopFresh ==
    ASSUME FreshInv, Close \/ ProcessCrash \/ MachineCrash
    PROVE  FreshInv'
<1>1. vs' = noSet /\ op' = closed /\ pending' = {}
  BY DEF Close, ProcessCrash, MachineCrash
<1>2. CASE Close \/ ProcessCrash
  <2>1. dir' = dir /\ stable' = stable /\ logs' = logs
    BY <1>2 DEF Close, ProcessCrash
  <2>2. logs' = [n \in FileNum |-> logs'[n]]
    BY <2>1 DEF FreshInv, Shapes
  <2> QED  BY <1>1, <2>1, <2>2, ClosedFresh DEF FreshInv
<1>3. CASE MachineCrash
  <2>1. dir' \in Directory /\ stable' = dir'
    BY <1>3 DEF MachineCrash, between, Directory, FreshInv
  <2>2. PICK fate \in [unsynced -> {"kept", "torn", "lost"}] :
            logs' = [n \in FileNum |-> IF n \in unsynced THEN survives(logs[n], fate[n])
                                                         ELSE logs[n]]
    BY <1>3 DEF MachineCrash
  <2>3. logs' = [n \in FileNum |-> logs'[n]]
    BY <2>2
  <2>4. ASSUME NEW n \in FileNum  PROVE Records(logs'[n])
    <3>1. Records(logs[n])
      BY DEF FreshInv
    <3>2. n \in unsynced => Records(survives(logs[n], fate[n]))
      BY <3>1, SurvivesRecords
    <3> QED  BY <2>2, <3>1, <3>2
  <2> QED  BY <1>1, <2>1, <2>3, <2>4, ClosedFresh
<1> QED  BY <1>2, <1>3

\* Every step keeps the invariant.
LEMMA NextFresh ==
    ASSUME FreshInv, [Next]_vars
    PROVE  FreshInv'
<1>1. CASE UNCHANGED vars
  <2>1. /\ dir' = dir /\ stable' = stable /\ logs' = logs /\ vs' = vs /\ pending' = pending
        /\ op' = op
    BY <1>1 DEF vars
  <2> QED  BY <2>1 DEF FreshInv, Shapes, NumbersFresh
<1>2. CASE Next
  BY <1>2, OpenFresh, RotationFresh, DeleteFresh, FailureFresh, TableFresh, WriteFresh,
     ApplyFresh, StopFresh, ZenonT(300) DEF Next
<1> QED  BY <1>1, <1>2

(***************************************************************************)
(* Whatever I/O failed and whenever a process or the machine stopped, the  *)
(* counter of an open version set is beyond every manifest and table on    *)
(* disk and every number handed out (AllocFileNum, rotate, and the scan in *)
(* Open): for any number of files, tables in flight and crashes.           *)
(***************************************************************************)
THEOREM NumbersHandedOutOnce == Spec => []NumbersFresh
<1>1. Init => FreshInv
  BY InitFresh
<1>2. FreshInv /\ [Next]_vars => FreshInv'
  BY NextFresh
<1>3. FreshInv => NumbersFresh
  BY DEF FreshInv
<1> QED  BY <1>1, <1>2, <1>3, PTL DEF Spec
=============================================================================
