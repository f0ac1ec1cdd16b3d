---------------------------- MODULE RaftLiveness ---------------------------
(***************************************************************************)
(* RaftCluster without crashes and transfers, under the fairness its event *)
(* loops and its retries provide.                                          *)
(***************************************************************************)
EXTENDS RaftCluster

inFlight(type, from, to) == {m \in net : m.type = type /\ m.from = from /\ m.to = to}

ReceiveOf(type, from, to) == \E m \in inFlight(type, from, to) : Receive(m)

(***************************************************************************)
(* Replication by one leader.  The links are fair: of the appends a leader *)
(* keeps sending with its heartbeats, and of their answers, not all are    *)
(* lost.                                                                   *)
(***************************************************************************)
CONSTANT Campaigner   \* the servers whose election timeout fires

ReplicationNext ==
    \/ \E n \in Campaigner : Timeout(n)
    \/ \E n \in Server : Heartbeat(n) \/ \E v \in Value : Propose(n, v)
    \/ \E m \in net : Receive(m)

FairLink(from, to) ==
    \/ []<>(raftOf(from).role # Leader)
    \/ /\ []<><<ReceiveOf(MsgApp, from, to)>>_vars
       /\ []<><<ReceiveOf(MsgAppResp, to, from)>>_vars

ReplicationSpec ==
    /\ Init
    /\ [][ReplicationNext]_vars
    /\ \A from, to \in Server : from # to => FairLink(from, to)

appliedAt(n, v) ==
    \E i \in 1 .. raftOf(n).log.applied : entryAt(raftOf(n).log, i).data = v

(***************************************************************************)
(* A value a leader accepted is applied by every server in the end, the    *)
(* slowest included: heartbeats retry what was lost, rejections back up,   *)
(* and the commit index travels with them.                                 *)
(***************************************************************************)
ProposalsApplied ==
    \A v \in Value :
        (\E n \in Server : v \in group[n].waiters) ~> (\A n \in Server : appliedAt(n, v))
============================================================================
