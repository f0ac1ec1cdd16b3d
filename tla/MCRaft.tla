------------------------------- MODULE MCRaft ------------------------------
(* RaftCluster for TLC, with bounds on how often the environment acts.     *)
EXTENDS RaftCluster, TLC

CONSTANTS
    MaxTimeout,       \* election timeouts that fire in a behaviour
    MaxCrash,         \* crashes in a behaviour
    MaxTransfer       \* leadership transfers in a behaviour

VARIABLE events       \* how many of each have happened

MCInit == Init /\ events = [timeout |-> 0, crash |-> 0, transfer |-> 0]

Count(event, bound) ==
    /\ events[event] < bound
    /\ events' = [events EXCEPT ![event] = @ + 1]

MCNext ==
    \/ \E n \in Server : Count("timeout", MaxTimeout) /\ Timeout(n)
    \/ \E n \in Server : Count("crash", MaxCrash) /\ Crash(n)
    \/ \E m \in net : Count("crash", MaxCrash) /\ CrashDuringSave(m)
    \/ \E n, target \in Server : Count("transfer", MaxTransfer) /\ Transfer(n, target)
    \/ /\ \/ \E n \in Server : Heartbeat(n)
          \/ \E m \in net : Receive(m)
          \/ \E s \in snaps : TakeSnapshot(s) \/ InstallSnapshot(s) \/ SnapshotFails(s)
          \/ \E n \in Server, v \in Value : Propose(n, v)
          \/ \E n \in Server, id \in ReadId : RequestRead(n, id)
       /\ UNCHANGED events

MCSpec == MCInit /\ [][MCNext]_<<vars, events>>

\* Servers and values are interchangeable.
Interchangeable == Permutations(Server) \cup Permutations(Value)

(***************************************************************************)
(* A part of the state space, for a search that needs depth: from the      *)
(* second election on, the leader of the first term still believes in its  *)
(* leadership and holds its first entry only, committed; reads come once   *)
(* its successor has acknowledged a proposal.                              *)
(***************************************************************************)
DeposedUnaware ==
    /\ \A n \in Server : raftOf(n).term <= 1 => lastIndex(raftOf(n).log) <= 1
    /\ events.timeout = 2 =>
          \E n \in Server : /\ raftOf(n).role = Leader
                            /\ raftOf(n).term = 1
                            /\ raftOf(n).log.committed = 1
    /\ (\E id \in ReadId : floor[id] # {}) => \E i \in acked : i > 1

\* Another part: messages compete until a leader is elected, then travel singly.
SingleAfterElection == elections = {} \/ Cardinality(net) <= 1

\* Another part: a behaviour with a read or with a transfer, not both.
ReadOrTransfer == events.transfer = 0 \/ \A id \in ReadId : floor[id] = {}
============================================================================
