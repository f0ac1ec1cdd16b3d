------------------------------ MODULE RaftLog ------------------------------
(***************************************************************************)
(* The in-memory Raft log of internal/raft/log.go as a record and pure     *)
(* operators.  The offset field of the code is snapIndex + 1 at every      *)
(* assignment and is not kept; an entry's index is its position, so the    *)
(* contiguity panics of append cannot be stated.                           *)
(***************************************************************************)
EXTENDS Naturals, Sequences

CONSTANT Value        \* what a proposal carries

\* The payload of the entry a new leader appends (Entry{} with no Data).
NoOp == "noop"

Entry == [term : Nat, data : Value \cup {NoOp}]

\* raftLog
LogState == [entries : Seq(Entry), snapIndex : Nat, snapTerm : Nat,
             committed : Nat, applied : Nat]

newLog == [entries |-> <<>>, snapIndex |-> 0, snapTerm |-> 0,
           committed |-> 0, applied |-> 0]

minOf(a, b) == IF a <= b THEN a ELSE b
maxOf(a, b) == IF a >= b THEN a ELSE b

lastIndex(l) == l.snapIndex + Len(l.entries)

\* term(i) of the code returns a pair; hasTerm is its ok, termAt its value.
hasTerm(l, i) == i \in l.snapIndex .. lastIndex(l)

termAt(l, i) == IF i = l.snapIndex THEN l.snapTerm
                                   ELSE l.entries[i - l.snapIndex].term

lastTerm(l) == termAt(l, lastIndex(l))

\* slice(lo, hi+1): the entries at the indices lo..hi.
slice(l, lo, hi) == SubSeq(l.entries, lo - l.snapIndex, hi - l.snapIndex)

appendEntries(l, ents) == [l EXCEPT !.entries = @ \o ents]

\* Mutant: the commit index may move back.
commitToAny(l, i) == [l EXCEPT !.committed = i]

commitTo(l, i) == [l EXCEPT !.committed = maxOf(@, i)]

\* Mutant: the logs are not compared.
isAnyLog(l, index, trm) == TRUE

isUpToDate(l, index, trm) ==
    \/ trm > lastTerm(l)
    \/ trm = lastTerm(l) /\ index >= lastIndex(l)

\* Mutant: the previous entry has to exist, its term is not compared.
prevExists(l, prevIndex, prevTerm) == hasTerm(l, prevIndex)

(***************************************************************************)
(* maybeAppend.  The positions of ents that the log does not hold with the *)
(* same term; the first of them is where the code truncates (when the log  *)
(* has an entry there) and from where it appends, so the log keeps its own *)
(* entry at every index below all conflicts and takes ents' at the others. *)
(***************************************************************************)
prevMatches(l, prevIndex, prevTerm) ==
    hasTerm(l, prevIndex) /\ termAt(l, prevIndex) = prevTerm

conflicts(l, prevIndex, ents) ==
    {i \in 1 .. Len(ents) : \/ ~ hasTerm(l, prevIndex + i)
                            \/ termAt(l, prevIndex + i) # ents[i].term}

\* truncateFrom panics when the first conflicting entry is already committed.
truncatesCommitted(l, prevIndex, ents) ==
    \E i \in conflicts(l, prevIndex, ents) : prevIndex + i <= l.committed

spliced(l, prevIndex, ents) ==
    LET C == conflicts(l, prevIndex, ents)
    IN  IF C = {}
        THEN l
        ELSE [l EXCEPT !.entries =
                 [k \in 1 .. prevIndex + Len(ents) - l.snapIndex |->
                     IF \E i \in C : prevIndex + i <= l.snapIndex + k
                     THEN ents[l.snapIndex + k - prevIndex]
                     ELSE l.entries[k]]]

maybeAppend(l, prevIndex, commit, ents) ==
    commitTo(spliced(l, prevIndex, ents), minOf(commit, prevIndex + Len(ents)))

\* compactTo: fold the prefix through index into the snapshot boundary.
compactTo(l, index) ==
    IF index <= l.snapIndex
    THEN l
    ELSE [l EXCEPT !.entries   = slice(l, index + 1, lastIndex(l)),
                   !.snapIndex = index,
                   !.snapTerm  = termAt(l, index)]
============================================================================
