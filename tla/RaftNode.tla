------------------------------ MODULE RaftNode -----------------------------
(***************************************************************************)
(* One Raft member, internal/raft/raft.go: the Node struct as a record and *)
(* each of its methods as an operator from the record to its next value.   *)
(* The core does no I/O: messages to send collect in msgs.                 *)
(*                                                                         *)
(* Membership is the fixed set Server of voters (conf.go is not modelled   *)
(* here), so voters[x] holds for every x and peers is Server.  The tick    *)
(* counters are abstracted to "a timeout may fire"; lease reads are off,   *)
(* as every caller in cluster/ leaves them.  A Go panic sets panicked.     *)
(***************************************************************************)
EXTENDS RaftLog, FiniteSets

CONSTANTS Server, ReadId, Nil

ASSUME ServerAssumption == IsFiniteSet(Server) /\ Server # {}
ASSUME NilAssumption == Nil \notin Server

Follower  == "follower"
Candidate == "candidate"
Leader    == "leader"

MsgVote        == "MsgVote"
MsgVoteResp    == "MsgVoteResp"
MsgApp         == "MsgApp"
MsgAppResp     == "MsgAppResp"
MsgPreVote     == "MsgPreVote"
MsgPreVoteResp == "MsgPreVoteResp"
MsgSnap        == "MsgSnap"
MsgTimeoutNow  == "MsgTimeoutNow"

MessageType == {MsgVote, MsgVoteResp, MsgApp, MsgAppResp, MsgPreVote,
                MsgPreVoteResp, MsgSnap, MsgTimeoutNow}

Message == [type : MessageType, from : Server, to : Server, term : Nat,
            logIndex : Nat, logTerm : Nat, entries : Seq(Entry),
            commit : Nat, reject : BOOLEAN]

\* pendingRead / ReadState
Read == [id : ReadId, index : Nat]

\* The Node struct.
NodeState ==
    [id : Server, role : {Follower, Candidate, Leader}, term : Nat,
     vote : Server \cup {Nil}, lead : Server \cup {Nil},
     log : LogState, stabled : Nat,
     votes : SUBSET Server, preVotes : SUBSET Server,
     next : [Server -> Nat \ {0}], match : [Server -> Nat],
     transferee : Server \cup {Nil},
     pendingReads : SUBSET Read, roundReads : SUBSET Read,
     readReady : SUBSET Read, readAcks : SUBSET Server,
     msgs : SUBSET Message, panicked : BOOLEAN]

quorum == (Cardinality(Server) \div 2) + 1

peersOf(nd) == Server \ {nd.id}

panic(nd) == [nd EXCEPT !.panicked = TRUE, !.msgs = {}]
----------------------------------------------------------------------------
(* send *)

\* A message with the fields send fills in; the others are Go's zero values.
msg(nd, type, to) ==
    [type |-> type, from |-> nd.id, to |-> to, term |-> nd.term,
     logIndex |-> 0, logTerm |-> 0, entries |-> <<>>, commit |-> 0,
     reject |-> FALSE]

send(nd, m) == [nd EXCEPT !.msgs = @ \cup {m}]

bcastVote(nd, type, trm) ==
    [nd EXCEPT !.msgs = @ \cup
        {[msg(nd, type, p) EXCEPT !.term     = trm,
                                  !.logIndex = lastIndex(nd.log),
                                  !.logTerm  = lastTerm(nd.log)] :
            p \in peersOf(nd)}]

(***************************************************************************)
(* sendAppend.  A follower whose previous entry is compacted away is sent  *)
(* MsgSnap and its next moves past the boundary.                           *)
(***************************************************************************)
needsSnapshot(nd, to) == ~ hasTerm(nd.log, nd.next[to] - 1)

\* Mutant: appends do not carry the commit index.
noCommitFor(nd, through) == 0

\* The commit index sent with the entries up to index `through`.
commitFor(nd, through) == minOf(nd.log.committed, through)

appendMsg(nd, to) ==
    IF needsSnapshot(nd, to)
    THEN [msg(nd, MsgSnap, to) EXCEPT !.logIndex = nd.log.snapIndex,
                                      !.logTerm  = nd.log.snapTerm]
    ELSE LET prev == nd.next[to] - 1
             ents == slice(nd.log, prev + 1, lastIndex(nd.log))
         IN  [msg(nd, MsgApp, to) EXCEPT
                  !.logIndex = prev,
                  !.logTerm  = termAt(nd.log, prev),
                  !.entries  = ents,
                  !.commit   = commitFor(nd, prev + Len(ents))]

nextAfterSend(nd, to) ==
    IF needsSnapshot(nd, to) THEN nd.log.snapIndex + 1 ELSE nd.next[to]

sendAppend(nd, to) ==
    [nd EXCEPT !.msgs = @ \cup {appendMsg(nd, to)},
               !.next[to] = nextAfterSend(nd, to)]

bcastAppend(nd) ==
    [nd EXCEPT !.msgs = @ \cup {appendMsg(nd, p) : p \in peersOf(nd)},
               !.next = [p \in Server |-> IF p = nd.id THEN nd.next[p]
                                          ELSE nextAfterSend(nd, p)]]

roundActive(nd) == nd.roundReads # {}

bcastHeartbeat(nd) ==
    bcastAppend(IF roundActive(nd) THEN [nd EXCEPT !.readAcks = {nd.id}] ELSE nd)
----------------------------------------------------------------------------
(***************************************************************************)
(* maybeCommit.  Sorting the matches and taking the quorum-th gives the    *)
(* largest index a quorum has matched; it commits when it is new and of    *)
(* the current term.  The leader's own match is its persisted prefix.      *)
(***************************************************************************)
ownMatch(nd) ==
    [nd EXCEPT !.match[nd.id] = minOf(nd.stabled, lastIndex(nd.log))]

\* Mutant: one acknowledgement short of a quorum commits.
almostQuorumMatched(nd, i) ==
    Cardinality({p \in Server : nd.match[p] >= i}) >= quorum - 1

quorumMatched(nd, i) == Cardinality({p \in Server : nd.match[p] >= i}) >= quorum

committable(nd) ==
    {i \in (nd.log.committed + 1) .. lastIndex(nd.log) :
        /\ quorumMatched(nd, i)
        /\ ~ quorumMatched(nd, i + 1)
        /\ termAt(nd.log, i) = nd.term}

maybeCommit(nd) ==
    IF nd.role # Leader
    THEN nd
    ELSE LET own == ownMatch(nd)
         IN  IF committable(own) = {}
             THEN own
             ELSE [own EXCEPT !.log = commitTo(@, CHOOSE i \in committable(own) : TRUE)]
----------------------------------------------------------------------------
(* Role changes *)

reset(nd, trm) ==
    [nd EXCEPT !.term = trm,
               !.vote = IF trm > nd.term THEN Nil ELSE @,
               !.lead = Nil, !.votes = {}, !.preVotes = {}]

becomeFollower(nd, trm, lead) ==
    [reset(nd, trm) EXCEPT !.role = Follower, !.lead = lead]

becomeCandidate(nd) ==
    [reset(nd, nd.term + 1) EXCEPT !.role  = Candidate,
                                   !.vote  = nd.id,
                                   !.votes = {nd.id}]

\* Starts a PreVote round; votes of an earlier election stay in place.
becomePreCandidate(nd) ==
    [nd EXCEPT !.role = Candidate, !.lead = Nil, !.preVotes = {nd.id}]

\* Mutant: the next entry to send is taken for the last one held.
lastHeld(l) == lastIndex(l)

firstNext(l) == lastIndex(l) + 1

becomeLeader(nd) ==
    bcastHeartbeat(maybeCommit(
        [nd EXCEPT !.role = Leader, !.lead = nd.id, !.transferee = Nil,
                   !.roundReads = {}, !.pendingReads = {}, !.readAcks = {},
                   !.next  = [p \in Server |-> firstNext(nd.log)],
                   !.match = [p \in Server |-> 0],
                   !.log   = appendEntries(@, <<[term |-> nd.term, data |-> NoOp]>>)]))

startElection(nd) ==
    LET c == becomeCandidate(nd)
    IN  IF Cardinality(c.votes) >= quorum
        THEN becomeLeader(c)
        ELSE bcastVote(c, MsgVote, c.term)

Campaign(nd) ==
    LET c == becomePreCandidate(nd)
    IN  IF Cardinality(c.preVotes) >= quorum
        THEN startElection(c)
        ELSE bcastVote(c, MsgPreVote, c.term + 1)
----------------------------------------------------------------------------
(***************************************************************************)
(* ReadIndex rounds.  At most one round is in flight; its reads are        *)
(* confirmed by a quorum of append acknowledgements.  confirmReadRound and *)
(* maybeStartReadRound call each other in the code; the inner call does    *)
(* something only when a single node is its own quorum.                    *)
(***************************************************************************)
roundConfirmed(nd) ==
    [nd EXCEPT !.readReady = @ \cup nd.roundReads, !.roundReads = {},
               !.readAcks = {}]

roundOpened(nd) ==
    [nd EXCEPT !.roundReads = nd.pendingReads, !.pendingReads = {},
               !.readAcks = {nd.id}]

maybeStartReadRound(nd) ==
    IF roundActive(nd) \/ nd.pendingReads = {} \/ nd.role # Leader
    THEN nd
    ELSE IF quorum = 1 THEN roundConfirmed(roundOpened(nd))
                       ELSE bcastHeartbeat(roundOpened(nd))

confirmReadRound(nd) == maybeStartReadRound(roundConfirmed(nd))

\* ReadIndex returns false, changing nothing, unless canRead holds.
canRead(nd) ==
    /\ nd.role = Leader
    /\ hasTerm(nd.log, nd.log.committed)
    /\ termAt(nd.log, nd.log.committed) = nd.term

ReadIndex(nd, id) ==
    maybeStartReadRound(
        [nd EXCEPT !.pendingReads = @ \cup {[id |-> id, index |-> nd.log.committed]}])
----------------------------------------------------------------------------
(* Client requests at the leader *)

\* Mutant: proposals are accepted during a leadership transfer.
canProposeAlways(nd) == nd.role = Leader

canPropose(nd) == nd.role = Leader /\ nd.transferee = Nil

handlePropose(nd, v) ==
    bcastAppend(maybeCommit(
        [nd EXCEPT !.log = appendEntries(@, <<[term |-> nd.term, data |-> v]>>)]))

canTransfer(nd, target) == nd.role = Leader /\ target # nd.id

TransferLeader(nd, target) ==
    LET t == [nd EXCEPT !.transferee = target]
    IN  IF nd.match[target] >= lastIndex(nd.log)
        THEN send(t, msg(t, MsgTimeoutNow, target))
        ELSE sendAppend(t, target)
----------------------------------------------------------------------------
(* Message handlers *)

handlePreVote(nd, m) ==
    send(nd, [msg(nd, MsgPreVoteResp, m.from) EXCEPT
                 !.term   = m.term,
                 !.reject = ~ (/\ m.term > nd.term
                               /\ isUpToDate(nd.log, m.logIndex, m.logTerm))])

handlePreVoteResp(nd, m) ==
    IF nd.role # Candidate \/ nd.votes # {}
    THEN nd
    ELSE LET c == IF m.reject THEN nd ELSE [nd EXCEPT !.preVotes = @ \cup {m.from}]
         IN  IF Cardinality(c.preVotes) >= quorum THEN startElection(c) ELSE c

\* Mutant: a server votes for every up-to-date candidate of a term.
grantsVoteAgain(nd, m) == isUpToDate(nd.log, m.logIndex, m.logTerm)

grantsVote(nd, m) ==
    nd.vote \in {Nil, m.from} /\ isUpToDate(nd.log, m.logIndex, m.logTerm)

handleVote(nd, m) ==
    send(IF grantsVote(nd, m) THEN [nd EXCEPT !.vote = m.from] ELSE nd,
         [msg(nd, MsgVoteResp, m.from) EXCEPT !.reject = ~ grantsVote(nd, m)])

handleVoteResp(nd, m) ==
    IF nd.role # Candidate
    THEN nd
    ELSE LET c == IF m.reject THEN nd ELSE [nd EXCEPT !.votes = @ \cup {m.from}]
         IN  IF Cardinality(c.votes) >= quorum THEN becomeLeader(c) ELSE c

handleApp(nd, m) ==
    LET f    == [nd EXCEPT !.role = Follower, !.lead = m.from]
        resp == msg(nd, MsgAppResp, m.from)
    IN  IF ~ prevMatches(nd.log, m.logIndex, m.logTerm)
        THEN send(f, [resp EXCEPT !.reject   = TRUE,
                                  !.logIndex = minOf(lastIndex(nd.log) + 1, m.logIndex)])
        ELSE IF truncatesCommitted(nd.log, m.logIndex, m.entries)
        THEN panic(f)
        ELSE send([f EXCEPT !.log = maybeAppend(@, m.logIndex, m.commit, m.entries)],
                  [resp EXCEPT !.logIndex = m.logIndex + Len(m.entries)])

(***************************************************************************)
(* handleAppResp on success, in the order of the code: progress and        *)
(* commit, the acknowledgement of a read round, the transfer target.       *)
(***************************************************************************)
progressTo(nd, from, index) ==
    IF index <= nd.match[from]
    THEN nd
    ELSE LET p == maybeCommit([nd EXCEPT !.match[from] = index,
                                         !.next[from]  = index + 1])
         IN  IF p.log.committed > nd.log.committed THEN bcastAppend(p) ELSE p

ackReadRound(nd, from) ==
    IF ~ roundActive(nd)
    THEN nd
    ELSE LET a == [nd EXCEPT !.readAcks = @ \cup {from}]
         IN  IF Cardinality(a.readAcks) >= quorum THEN confirmReadRound(a) ELSE a

fireTransfer(nd, from) ==
    IF nd.transferee = from /\ nd.match[from] >= lastIndex(nd.log)
    THEN send(nd, msg(nd, MsgTimeoutNow, from))
    ELSE nd

\* Where a rejection backs nextIndex up to.
backUp(nd, m) ==
    IF m.logIndex < nd.next[m.from] THEN maxOf(m.logIndex, 1) ELSE nd.next[m.from]

handleAppResp(nd, m) ==
    IF nd.role # Leader
    THEN nd
    ELSE IF m.reject
    THEN sendAppend([nd EXCEPT !.next[m.from] = backUp(nd, m)], m.from)
    ELSE IF m.logIndex < nd.match[m.from]
    THEN nd
    ELSE fireTransfer(ackReadRound(progressTo(nd, m.from, m.logIndex), m.from), m.from)

\* MsgTimeoutNow: becomeCandidate panics when a leader is told to campaign.
handleTimeoutNow(nd) == IF nd.role = Leader THEN panic(nd) ELSE startElection(nd)

(***************************************************************************)
(* Step.  PreVote traffic bypasses the term rules; a message of a higher   *)
(* term makes the node a follower first; of the messages of a lower term   *)
(* only MsgVote is answered.                                               *)
(***************************************************************************)
dispatch(nd, m) ==
    CASE m.type = MsgVote       -> handleVote(nd, m)
      [] m.type = MsgVoteResp   -> handleVoteResp(nd, m)
      [] m.type = MsgApp        -> handleApp(nd, m)
      [] m.type = MsgAppResp    -> handleAppResp(nd, m)
      [] m.type = MsgTimeoutNow -> handleTimeoutNow(nd)

Step(nd, m) ==
    CASE m.type = MsgPreVote     -> handlePreVote(nd, m)
      [] m.type = MsgPreVoteResp -> handlePreVoteResp(nd, m)
      [] m.type \notin {MsgPreVote, MsgPreVoteResp} ->
            IF m.term > nd.term
            THEN dispatch(becomeFollower(nd, m.term,
                              IF m.type = MsgApp THEN m.from ELSE Nil), m)
            ELSE IF m.term = nd.term
            THEN dispatch(nd, m)
            ELSE IF m.type = MsgVote
            THEN send(nd, [msg(nd, MsgVoteResp, m.from) EXCEPT !.reject = TRUE])
            ELSE nd
============================================================================
