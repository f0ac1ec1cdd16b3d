------------------------- MODULE RaftClusterProofs -------------------------
(***************************************************************************)
(* Theorems about a replicated group, for every finite set of servers and  *)
(* every value of the other constants: type correctness, the order of the  *)
(* log indices, election safety, the durability of votes and that nobody   *)
(* waits in vain, under message loss, duplication and reordering and       *)
(* crashes at any point; and, while no group is reopened, that committed   *)
(* entries are kept and nothing ready is left undone.                      *)
(***************************************************************************)
EXTENDS RaftWaitProofs, FiniteSetTheorems

\* Zenon unless a step cites SMT, with time for a busy machine.
USE ZenonT(300)
----------------------------------------------------------------------------
(* Elections *)

\* v's vote for c in term t is on its way, counted, or was once counted.
Cast(t, v, c) ==
    \/ \E m \in Grants(net) : m.term = t /\ m.from = v /\ m.to = c
    \/ group[c].raft.term = t /\ v \in group[c].raft.votes
    \/ \E e \in elections : e.term = t /\ e.leader = c /\ v \in e.votes

\* v remembers its vote for c in term t, or has moved on.
Remembers(v, t, c) ==
    \/ group[v].raft.term > t
    \/ group[v].raft.term = t /\ group[v].raft.vote = c

BallotInv ==
    /\ \A t \in Nat : \A v, c \in Server : Cast(t, v, c) => Remembers(v, t, c)
    /\ \A t \in Nat : \A v, c, d \in Server : Cast(t, v, c) /\ Cast(t, v, d) => c = d
    /\ \A n \in Server : group[n].raft.role = Leader => Cardinality(group[n].raft.votes) >= quorum
    /\ \A e \in elections : Cardinality(e.votes) >= quorum

\* One vote per server and term survives every step of this kind.
LEMMA BallotStepOK ==
    ASSUME TypeOK, TypeOK', BallotInv, NEW n \in Server, BallotStep(n)
    PROVE  BallotInv'
<1> DEFINE r == group[n].raft
           q == group'[n].raft
<1>1. /\ r \in NodeState /\ q \in NodeState /\ r.term \in Nat /\ q.term \in Nat
      /\ \A p \in Server : group[p].raft.term \in Nat
  BY DEF TypeOK, GroupState, NodeState
<1>2. ASSUME NEW t \in Nat, NEW v \in Server, NEW c \in Server, Cast(t, v, c)'
      PROVE  Cast(t, v, c) \/ (v = n /\ t = q.term /\ c = q.vote)
  <2>1. ASSUME v \in q.votes, c = n, t = q.term
        PROVE  Cast(t, v, c) \/ (v = n /\ t = q.term /\ c = q.vote)
    BY <2>1 DEF BallotStep, Cast
  <2>2. CASE \E m \in Grants(net') : m.term = t /\ m.from = v /\ m.to = c
    BY <2>2 DEF BallotStep, Cast
  <2>3. CASE group'[c].raft.term = t /\ v \in group'[c].raft.votes
    <3>1. CASE c = n
      BY <2>1, <2>3, <3>1
    <3>2. CASE c # n
      BY <2>3, <3>2 DEF BallotStep, Cast
    <3> QED  BY <3>1, <3>2
  <2>4. CASE \E e \in elections' : e.term = t /\ e.leader = c /\ v \in e.votes
    <3>1. PICK e \in elections' : e.term = t /\ e.leader = c /\ v \in e.votes
      BY <2>4
    <3>2. CASE e \in elections
      BY <3>1, <3>2 DEF Cast
    <3>3. CASE e = [term |-> q.term, leader |-> n, votes |-> q.votes]
      BY <2>1, <3>1, <3>3
    <3> QED  BY <3>1, <3>2, <3>3 DEF BallotStep
  <2> QED  BY <1>2, <2>2, <2>3, <2>4 DEF Cast
<1>3. ASSUME NEW t \in Nat, NEW v \in Server, NEW c \in Server, Remembers(v, t, c)
      PROVE  Remembers(v, t, c)'
  <2>1. c # Nil
    BY NilAssumption
  <2>2. CASE v = n
    BY <1>1, <1>3, <2>1, <2>2, SMTT(300) DEF Remembers, BallotStep
  <2>3. CASE v # n
    BY <1>3, <2>3 DEF Remembers, BallotStep
  <2> QED  BY <2>2, <2>3
<1>4. ASSUME NEW t \in Nat, NEW v \in Server, NEW c \in Server, Cast(t, v, c)'
      PROVE  Remembers(v, t, c)'
  <2>1. CASE Cast(t, v, c)
    BY <1>3, <2>1 DEF BallotInv
  <2>2. CASE v = n /\ t = q.term /\ c = q.vote
    BY <2>2 DEF Remembers
  <2> QED  BY <1>2, <1>4, <2>1, <2>2
<1>5. ASSUME NEW t \in Nat, NEW v \in Server, NEW c \in Server, NEW d \in Server,
             Cast(t, v, c)', Cast(t, v, d)'
      PROVE  c = d
  <2>1. CASE Cast(t, v, c) /\ Cast(t, v, d)
    BY <2>1 DEF BallotInv
  <2>2. CASE v = n /\ t = q.term
    <3>1. Remembers(v, t, c)' /\ Remembers(v, t, d)'
      BY <1>4, <1>5
    <3> QED  BY <1>1, <2>2, <3>1, SMTT(300) DEF Remembers
  <2> QED  BY <1>2, <1>5, <2>1, <2>2
<1>6. ASSUME NEW p \in Server, group'[p].raft.role = Leader
      PROVE  Cardinality(group'[p].raft.votes) >= quorum
  BY <1>6 DEF BallotStep, BallotInv
<1>7. ASSUME NEW e \in elections'
      PROVE  Cardinality(e.votes) >= quorum
  BY <1>6, <1>7, SMTT(300) DEF BallotStep, BallotInv
<1> QED  BY <1>4, <1>5, <1>6, <1>7 DEF BallotInv

\* Two quorums share a server, and it votes once.
LEMMA BallotsElectOne ==
    ASSUME TypeOK, BallotInv
    PROVE  ElectionSafety
<1> SUFFICES ASSUME NEW e \in elections, NEW f \in elections, e.term = f.term
             PROVE  e.leader = f.leader
  BY DEF ElectionSafety
<1>1. /\ e.term \in Nat /\ e.leader \in Server /\ f.leader \in Server
      /\ e.votes \subseteq Server /\ f.votes \subseteq Server
  BY DEF TypeOK
<1>2. IsFiniteSet(Server) /\ Cardinality(Server) \in Nat
  BY ServerAssumption, FS_CardinalityType
<1>3. Cardinality(e.votes) \in Nat /\ Cardinality(f.votes) \in Nat
  BY <1>1, <1>2, FS_Subset, FS_CardinalityType
<1>4. Cardinality(e.votes) + Cardinality(f.votes) > Cardinality(Server)
  BY <1>2, <1>3, SMTT(300) DEF BallotInv, quorum
<1>5. PICK v \in e.votes \cap f.votes : TRUE
  BY <1>1, <1>2, <1>4, FS_MajoritiesIntersect, SMTT(300)
<1>6. Cast(e.term, v, e.leader) /\ Cast(e.term, v, f.leader)
  BY <1>5 DEF Cast
<1> QED  BY <1>1, <1>5, <1>6 DEF BallotInv
----------------------------------------------------------------------------
(* The theorems *)

\* A group that opens empty is in order.
LEMMA InitOK ==
    ASSUME Init
    PROVE  TypeInv /\ BallotInv
<1> DEFINE h(n) == openGroup(n, newDisk, 0)
<1>1. newDisk \in DiskState
  BY SMTT(300) DEF newDisk, DiskState
<1>2. ASSUME NEW n \in Server
      PROVE  h(n) \in GroupState /\ GroupInv(n, h(n)) /\ h(n).raft.role = Follower
             /\ h(n).raft.votes = {}
  BY <1>1, OpenGroupOK
<1>3. group = [n \in Server |-> h(n)] /\ net = {} /\ snaps = {} /\ elections = {}
  BY DEF Init
<1> HIDE DEF h
<1>4. group \in [Server -> GroupState] /\ \A n \in Server : GroupInv(n, group[n])
  BY <1>2, <1>3
<1>5. TypeOK
  BY <1>4, SMTT(300) DEF Init, TypeOK
<1>6. TypeInv
  BY <1>3, <1>4, <1>5 DEF TypeInv
<1>7. \A n \in Server : group[n].raft.role = Follower /\ group[n].raft.votes = {}
  BY <1>2, <1>3
<1>8. BallotInv
  BY <1>3, <1>7, SMTT(300) DEF BallotInv, Cast, Grants, Leader, Follower
<1> QED  BY <1>6, <1>8

\* Every step keeps both invariants.
LEMMA StepInductive ==
    ASSUME TypeInv, BallotInv, [Next]_vars
    PROVE  TypeInv' /\ BallotInv'
<1>1. CASE Next
  <2>1. TypeInv' /\ \E n \in Server : BallotStep(n)
    BY <1>1, NextStep
  <2>2. TypeOK /\ TypeOK'
    BY <2>1 DEF TypeInv
  <2> QED  BY <2>1, <2>2, BallotStepOK
<1>2. CASE UNCHANGED vars
  <2>1. TypeInv'
    BY <1>2 DEF vars, TypeInv, TypeOK
  <2>2. group' = group /\ net' = net /\ elections' = elections
    BY <1>2 DEF vars
  <2>3. BallotInv'
    BY <2>2, SMTT(300) DEF BallotInv, Cast, Remembers
  <2> QED  BY <2>1, <2>3
<1> QED  BY <1>1, <1>2

\* The inductive invariants hold in every reachable state of the group.
LEMMA Invariants == Spec => [](TypeInv /\ BallotInv)
<1>1. Init => TypeInv /\ BallotInv
  BY InitOK
<1>2. (TypeInv /\ BallotInv) /\ [Next]_vars => (TypeInv /\ BallotInv)'
  BY StepInductive
<1> QED  BY <1>1, <1>2, PTL DEF Spec

(***************************************************************************)
(* Whatever is lost, repeated or reordered, and wherever the servers       *)
(* crash, every field of the core, of the loop and of the files keeps its  *)
(* type: no handler, restart or compaction of group.go, raft.go, log.go or *)
(* storage.go produces a state the structs cannot describe.                *)
(***************************************************************************)
THEOREM TypeCorrect == Spec => []TypeOK
<1>1. TypeInv => TypeOK
  BY DEF TypeInv
<1> QED  BY <1>1, Invariants, PTL

(***************************************************************************)
(* snapIndex <= applied <= committed <= lastIndex holds of every member    *)
(* that has not panicked, through appends, truncations, commits, Advance,  *)
(* compactions and restarts: what the comment of raftLog claims.           *)
(***************************************************************************)
THEOREM IndexOrder == Spec => []LogIndexOrder
<1>1. TypeInv => LogIndexOrder
  <2> SUFFICES ASSUME TypeInv, NEW n \in Server, ~ group[n].raft.panicked
               PROVE  LET l == group[n].raft.log
                      IN  /\ l.snapIndex <= l.applied
                          /\ l.applied <= l.committed
                          /\ l.committed <= lastIndex(l)
    BY DEF LogIndexOrder, raftOf
  <2> QED  BY DEF TypeInv, GroupInv, NodeOK, LogOK
<1> QED  BY <1>1, Invariants, PTL

(***************************************************************************)
(* At most one server is ever elected in a term, for every number of       *)
(* servers, terms, messages and crashes: handleVote grants one vote per    *)
(* term, SaveReady persists it before the answer leaves, and becomeLeader  *)
(* needs a quorum of them.                                                 *)
(***************************************************************************)
THEOREM OneLeaderPerTerm == Spec => []ElectionSafety
<1>1. TypeInv /\ BallotInv => ElectionSafety
  BY BallotsElectOne DEF TypeInv
<1> QED  BY <1>1, Invariants, PTL

(***************************************************************************)
(* No step of any server, a crash in the middle of SaveReady included,     *)
(* lowers a term or replaces a vote cast in it.                            *)
(***************************************************************************)
THEOREM VotesKept == Spec => VoteKept
<1> DEFINE A == \A n \in Server :
                   \/ group'[n].raft.term > group[n].raft.term
                   \/ /\ group'[n].raft.term = group[n].raft.term
                      /\ group[n].raft.vote \in {Nil, group'[n].raft.vote}
<1>1. TypeInv /\ [Next]_vars => [A]_vars
  <2> SUFFICES ASSUME TypeInv, Next PROVE A
    OBVIOUS
  <2>1. PICK n \in Server : BallotStep(n)
    BY NextStep
  <2>2. TypeOK /\ TypeOK'
    BY NextStep DEF TypeInv
  <2>3. \A p \in Server : group[p].raft.term \in Nat /\ group'[p].raft.term \in Nat
    BY <2>2 DEF TypeOK, GroupState, NodeState
  <2>4. \A p \in Server \ {n} : group'[p].raft = group[p].raft
    BY <2>1 DEF BallotStep
  <2>5. /\ group'[n].raft.term >= group[n].raft.term
        /\ group'[n].raft.term = group[n].raft.term =>
              group[n].raft.vote \in {Nil, group'[n].raft.vote}
    BY <2>1 DEF BallotStep
  <2> QED  BY <2>3, <2>4, <2>5, SMTT(300)
<1>2. [A]_vars => [\A n \in Server :
          \/ raftOf(n)'.term > raftOf(n).term
          \/ /\ raftOf(n)'.term = raftOf(n).term
             /\ raftOf(n).vote \in {Nil, raftOf(n)'.vote}]_vars
  BY DEF raftOf
<1> QED  BY <1>1, <1>2, Invariants, PTL DEF Spec, VoteKept
----------------------------------------------------------------------------
(* Waiters, and the steps of running groups *)

\* A single server is a quorum only of itself.
LEMMA Lonely == OwnQuorum
<1> SUFFICES ASSUME NEW n \in Server, Cardinality({n}) >= quorum
             PROVE  Server = {n}
  BY DEF OwnQuorum
<1>1. IsFiniteSet(Server) /\ Cardinality(Server) \in Nat
  BY ServerAssumption, FS_CardinalityType
<1>2. IsFiniteSet({n}) /\ Cardinality({n}) = 1
  BY FS_Singleton
<1>3. Cardinality(Server) < 2
  BY <1>1, <1>2, SMTT(300) DEF quorum
<1>4. {n} \in SUBSET Server
  OBVIOUS
<1>5. /\ Cardinality({n}) <= Cardinality(Server)
      /\ Cardinality(Server) = Cardinality({n}) => Server = {n}
  BY <1>1, <1>4, FS_Subset
<1>6. Cardinality(Server) = Cardinality({n})
  BY <1>1, <1>2, <1>3, <1>5, SMTT(300)
<1> QED  BY <1>5, <1>6

\* Nobody waits at first, and there is nothing to do.
LEMMA InitWaits ==
    ASSUME Init
    PROVE  WaitInv /\ Quiescent
<1>1. net = {} /\ \A n \in Server : group[n] = openGroup(n, newDisk, 0)
  BY DEF Init
<1>2. WaitInv
  <2>1. \A n \in Server : Attended(group[n])
    BY <1>1, OpenAttended
  <2> QED  BY <1>1, <2>1 DEF WaitInv
<1>3. ASSUME NEW n \in Server PROVE ~ HasReady(group[n])
  <2>1. group[n] = openGroup(n, newDisk, 0)
    BY <1>1
  <2> DEFINE r == newNode(n, newDisk, 0)
  <2>2. /\ group[n].raft = r /\ group[n].disk = newDisk
    BY <2>1, SMTT(300) DEF openGroup
  <2>3. /\ newDisk.term = 0 /\ newDisk.vote = Nil /\ newDisk.commit = 0
        /\ newDisk.snapIndex = 0 /\ newDisk.entries = <<>>
    BY DEF newDisk
  <2>4. maxOf(0, 0) = 0 /\ 0 + Len(<<>>) = 0
    BY SMTT(300) DEF maxOf
  <2>5. /\ r.msgs = {} /\ r.term = 0 /\ r.vote = Nil /\ r.log.committed = 0
        /\ r.log.snapIndex = 0 /\ r.log.entries = <<>> /\ r.log.applied = 0
        /\ r.stabled = 0 /\ r.readReady = {}
    <3>1. /\ r.msgs = {} /\ r.term = newDisk.term /\ r.vote = newDisk.vote
          /\ r.readReady = {} /\ r.stabled = newDisk.snapIndex + Len(newDisk.entries)
      BY DEF newNode
    <3>2. /\ r.log.committed = maxOf(newDisk.commit, newDisk.snapIndex)
          /\ r.log.snapIndex = newDisk.snapIndex /\ r.log.entries = newDisk.entries
          /\ r.log.applied = 0
      BY DEF newNode
    <3> HIDE DEF r
    <3> QED  BY <2>3, <2>4, <3>1, <3>2
  <2> HIDE DEF r
  <2>6. unstable(r) = <<>>
    BY <2>5, SMTT(300) DEF unstable, lastIndex
  <2>7. newlyApplied(r) = {} /\ readyReadStates(r) = {}
    BY <2>5, SMTT(300) DEF newlyApplied, applyTo, readyReadStates, minOf, maxOf
  <2> QED  BY <2>2, <2>3, <2>5, <2>6, <2>7 DEF HasReady
<1> QED  BY <1>2, <1>3 DEF Quiescent

\* Those who wait are attended to in every reachable state of the group.
LEMMA Attention == Spec => []WaitInv
<1>1. Init => WaitInv
  BY InitWaits
<1>2. TypeInv /\ WaitInv /\ [Next]_vars => WaitInv'
  BY Lonely, NextWaits
<1> QED  BY <1>1, <1>2, Invariants, PTL DEF Spec

(***************************************************************************)
(* Nobody waits in vain, whatever is lost or crashes: between two          *)
(* iterations a proposal that Propose still waits for has an entry in the  *)
(* log that is yet to be applied, and a read that ReadIndex waits for is   *)
(* queued or in a round, so that applyEntries, answerReads or the failing  *)
(* of waiters in publishStatus will find it.                               *)
(***************************************************************************)
THEOREM WaitersHaveReason == Spec => []NoStrandedWaiter
<1>1. WaitInv => NoStrandedWaiter
  <2> SUFFICES ASSUME WaitInv, NEW n \in Server, ~ group[n].raft.panicked
               PROVE  LET nd == group[n].raft
                      IN  /\ \A v \in group[n].waiters :
                                \E i \in (nd.log.applied + 1) .. lastIndex(nd.log) :
                                    entryAt(nd.log, i).data = v
                          /\ group[n].reads \subseteq
                                {r.id : r \in nd.pendingReads \cup nd.roundReads}
    BY DEF NoStrandedWaiter, raftOf
  <2>1. Attended(group[n])
    BY DEF WaitInv
  <2> QED  BY <2>1 DEF Attended, Awaits
<1> QED  BY <1>1, Attention, PTL

\* A step of running groups keeps what is committed and leaves nothing undone.
LEMMA RunKeeps ==
    ASSUME TypeInv, WaitInv, RunNext
    PROVE  /\ \A n \in Server : CommittedIn(group[n].raft.log, group'[n].raft.log)
           /\ Quiescent => Quiescent'
<1>1. \A c \in Nat : c >= c
  BY SMTT(300)
<1>2. \A n \in Server : group[n].raft.log.committed \in Nat
  <2>1. \A n \in Server : group[n].raft \in NodeState
    BY DEF TypeInv, TypeOK, GroupState
  <2>2. \A n \in Server : group[n].raft.log \in LogState
    BY <2>1 DEF NodeState
  <2> QED  BY <2>2 DEF LogState
<1>3. \A n \in Server : CommittedIn(group[n].raft.log, group[n].raft.log)
  BY <1>1, <1>2 DEF CommittedIn
<1>4. CASE group' = group
  BY <1>3, <1>4 DEF Quiescent, raftOf
<1>5. CASE \E n \in Server : Iterates(n)
  <2>1. PICK n \in Server : Iterates(n)
    BY <1>5
  <2>2. /\ \A p \in Server \ {n} : group'[p] = group[p]
        /\ ~ group'[n].raft.panicked => ~ HasReady(group'[n])
        /\ CommittedIn(group[n].raft.log, group'[n].raft.log)
    BY <2>1 DEF Iterates
  <2>3. ASSUME NEW p \in Server
        PROVE  /\ CommittedIn(group[p].raft.log, group'[p].raft.log)
               /\ Quiescent => (group'[p].raft.panicked \/ ~ HasReady(group'[p]))
    <3>1. CASE p = n
      BY <2>2, <3>1
    <3>2. CASE p # n
      <4>1. group'[p] = group[p]
        BY <2>2, <3>2
      <4> QED  BY <1>3, <4>1 DEF Quiescent, raftOf
    <3> QED  BY <3>1, <3>2
  <2> QED  BY <2>3 DEF Quiescent, raftOf
<1> QED  BY <1>4, <1>5, Lonely, RunIterates

\* Running groups reach only states that a group may reach.
LEMMA RunIsSpec == RunSpec => Spec
<1>1. [RunNext]_vars => [Next]_vars
  BY DEF Next
<1> QED  BY <1>1, PTL DEF RunSpec, Spec

(***************************************************************************)
(* Whatever was lost and whoever crashed before, a step of the running     *)
(* groups, a message of any age included, takes no committed entry out of  *)
(* a log and moves no commit index back: maybeAppend truncates only above  *)
(* the commit index or panics, and compactTo drops only what is applied.   *)
(***************************************************************************)
THEOREM RunningKeepsCommitted ==
    Spec => [][RunNext => \A n \in Server :
                   CommittedIn(group[n].raft.log, group'[n].raft.log)]_vars
<1>1. TypeInv /\ WaitInv /\ [Next]_vars =>
          [RunNext => \A n \in Server :
               CommittedIn(group[n].raft.log, group'[n].raft.log)]_vars
  BY RunKeeps
<1> QED  BY <1>1, Invariants, Attention, PTL DEF Spec

(***************************************************************************)
(* As long as no group is reopened, the commit index and the log below it  *)
(* survive every step.  With restarts this is not so: an entry that        *)
(* replaced a persisted one is not written to the file (truncateFrom never *)
(* lowers stabled), and a restart brings the old one back.                 *)
(***************************************************************************)
THEOREM CommittedStays == RunSpec => CommittedKept
<1> DEFINE A == \A n \in Server : CommittedIn(group[n].raft.log, group'[n].raft.log)
<1>1. TypeInv /\ WaitInv /\ [RunNext]_vars => [A]_vars
  BY RunKeeps
<1>2. [A]_vars => [\A n \in Server :
          LET l == raftOf(n).log
              k == raftOf(n)'.log
          IN  /\ k.committed >= l.committed
              /\ \A i \in (k.snapIndex + 1) .. l.committed :
                    i > l.snapIndex => entryAt(k, i) = entryAt(l, i)]_vars
  BY DEF raftOf, CommittedIn
<1> QED  BY <1>1, <1>2, RunIsSpec, Invariants, Attention, PTL DEF RunSpec, CommittedKept

(***************************************************************************)
(* As long as no group is reopened, drainReady leaves nothing to persist,  *)
(* send, apply or answer: the three passes of the model are all that the   *)
(* loop of the code ever takes.                                            *)
(***************************************************************************)
THEOREM LoopQuiesces == RunSpec => []Quiescent
<1>1. Init => Quiescent
  BY InitWaits
<1>2. TypeInv /\ WaitInv /\ Quiescent /\ [RunNext]_vars => Quiescent'
  <2>1. CASE RunNext
    BY <2>1, RunKeeps
  <2>2. CASE UNCHANGED vars
    BY <2>2 DEF vars, Quiescent, raftOf
  <2> QED  BY <2>1, <2>2
<1> QED  BY <1>1, <1>2, RunIsSpec, Invariants, Attention, PTL DEF RunSpec
============================================================================
