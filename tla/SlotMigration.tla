--------------------------- MODULE SlotMigration ---------------------------
(***************************************************************************)
(* The handoff of one hash slot between two Raft groups: MigrateSlot on a  *)
(* coordinator, the shard maps it publishes, and the front doors that let  *)
(* writers in meanwhile.  A group is its committed contents of the slot,   *)
(* the commands appended and not yet committed, and its leader; RaftCluster *)
(* has the rest.  Leadership moves and takes any tail of the uncommitted   *)
(* commands with it.                                                       *)
(***************************************************************************)
EXTENDS Naturals, Sequences

CONSTANTS
    Node,
    Group,
    Key,              \* keys of the slot, fewer than a batch carries
    WriteId,          \* client writes; a put stores its own id
    Absent,           \* what a key holds that was never written, or deleted
    Coordinator,      \* the nodes MigrateSlot is called on
    StaleCopies,      \* may a client delete a key that an aborted handoff has
                      \* left in the other group?
    LateWrites,       \* may a handler be overtaken by a whole handoff between
                      \* its look at the map and the group's loop?
    MaxMigrate,       \* calls of MigrateSlot
    MaxElection       \* changes of leadership

ASSUME ConstantsAssumption ==
    /\ Absent \notin WriteId
    /\ Coordinator \subseteq Node
    /\ {StaleCopies, LateWrites} \subseteq BOOLEAN
    /\ {MaxMigrate, MaxElection} \subseteq Nat

VARIABLES
    smap,             \* the shard map of each node, for this slot
    wire,             \* pushes of maps whose call failed; they may yet arrive
    leader,           \* the leader of each group
    log,              \* commands appended in each group and not committed
    store,            \* what each group has committed for the slot
    handlers,         \* writes past a front door and not yet in a log
    mig,              \* the MigrateSlot under way
    issued,           \* history: the ids of client writes used so far
    done,             \* history: the client writes committed
    elections         \* leadership changes so far

vars == <<smap, wire, leader, log, store, handlers, mig, issued, done, elections>>
groups == <<leader, log, store>>
clients == <<handlers, issued, done>>

Content == WriteId \cup {Absent}

Write == {w \in [id : WriteId, key : Key, val : Content] :
            w.val \in {w.id, Absent}}
----------------------------------------------------------------------------
(* The shard map *)

ShardMap == [epoch : Nat, owner : Group, migrating : BOOLEAN]

WithMigrating(m, migrating) ==
    [m EXCEPT !.migrating = migrating, !.epoch = @ + 1]

WithSlot(m, g) == [m EXCEPT !.owner = g, !.migrating = FALSE, !.epoch = @ + 1]

\* The map of a node after SetShardMap.
SetShardMap(cur, m) == IF m.epoch > cur.epoch THEN m ELSE cur
----------------------------------------------------------------------------
(* Commands *)

ClientWrite(w) == [op |-> "write", write |-> w]
Barrier(id) == [op |-> "barrier", id |-> id]
CopyOf(id, kv) == [op |-> "copy", id |-> id, kv |-> kv]
DeleteAll(id, keys) == [op |-> "delete", id |-> id, keys |-> keys]

\* The keys of the slot a group holds.
present(kv) == {k \in Key : kv[k] # Absent}

applied(kv, c) ==
    CASE c.op = "write"   -> [kv EXCEPT ![c.write.key] = c.write.val]
      [] c.op = "barrier" -> kv
      [] c.op = "copy"    -> [k \in Key |-> IF k \in present(c.kv) THEN c.kv[k] ELSE kv[k]]
      [] c.op = "delete"  -> [k \in Key |-> IF k \in c.keys THEN Absent ELSE kv[k]]
----------------------------------------------------------------------------
(***************************************************************************)
(* MigrateSlot.  step names what the call does next; while it publishes,   *)
(* then says where the published map leads.  todo are the peers still to   *)
(* be told, ok whether all others were reached.                            *)
(***************************************************************************)
Idle == [step |-> "idle", calls |-> 0]

Publishing(n, src, dst, calls, m, then) ==
    [step |-> "publish", calls |-> calls, node |-> n, src |-> src, dst |-> dst,
     map |-> m, then |-> then, todo |-> Node \ {n}, ok |-> TRUE]

\* DistributeShardMap begins: the node adopts the map itself.
Publish(n, src, dst, calls, m, then) ==
    /\ smap' = [smap EXCEPT ![n] = SetShardMap(@, m)]
    /\ mig' = Publishing(n, src, dst, calls, m, then)

Goto(step) ==
    mig' = [step |-> step, calls |-> mig.calls, node |-> mig.node,
            src |-> mig.src, dst |-> mig.dst]

Return == mig' = [Idle EXCEPT !.calls = mig.calls] /\ UNCHANGED smap

\* Mutant: an aborted migration returns without unfreezing.
AbortOnly == Return

\* A failure before the flip: the deferred rollback publishes the unfrozen map.
Abort ==
    Publish(mig.node, mig.src, mig.dst, mig.calls,
            WithMigrating(smap[mig.node], FALSE), "return")

MigrateSlot(n, src, dst) ==
    /\ mig.step = "idle"
    /\ mig.calls < MaxMigrate
    /\ src # dst
    /\ leader[src] = n
    /\ leader[dst] = n
    /\ \/ /\ smap[n].owner = dst
          /\ Publish(n, src, dst, mig.calls + 1, smap[n], "cleanup")
       \/ /\ smap[n].owner = src
          /\ Publish(n, src, dst, mig.calls + 1, WithMigrating(smap[n], TRUE), "barrier")
    /\ UNCHANGED <<wire, groups, clients, elections>>

(***************************************************************************)
(* DistributeShardMap tells one peer.  The call succeeds, or fails and the *)
(* map may still arrive later.                                             *)
(***************************************************************************)
UpdateShardMap(p) ==
    /\ mig.step = "publish"
    /\ p \in mig.todo
    /\ \/ /\ smap' = [smap EXCEPT ![p] = SetShardMap(@, mig.map)]
          /\ mig' = [mig EXCEPT !.todo = @ \ {p}]
          /\ UNCHANGED wire
       \/ /\ wire' = wire \cup {[to |-> p, map |-> mig.map]}
          /\ mig' = [mig EXCEPT !.todo = @ \ {p}, !.ok = FALSE]
          /\ UNCHANGED smap
    /\ UNCHANGED <<groups, clients, elections>>

LateUpdate(u) ==
    /\ smap' = [smap EXCEPT ![u.to] = SetShardMap(@, u.map)]
    /\ wire' = wire \ {u}
    /\ UNCHANGED <<mig, groups, clients, elections>>

\* Mutant: a map that did not reach every node is good enough.
allReachedOrNot == TRUE

allReached == mig.ok

\* publishToAll returns.
Published ==
    /\ mig.step = "publish"
    /\ mig.todo = {}
    /\ CASE mig.then = "return" -> Return
         [] mig.then = "barrier" /\ ~ allReached -> Abort
         [] mig.then = "cleanup" /\ ~ allReached -> Return
         [] OTHER -> Goto(mig.then) /\ UNCHANGED smap
    /\ UNCHANGED <<wire, groups, clients, elections>>

\* A proposal of the coordinator reaches the loop of g, or is refused there.
ProposeTo(g, c, waiting, Failed) ==
    \/ /\ leader[g] = mig.node
       /\ log' = [log EXCEPT ![g] = Append(@, c)]
       /\ Goto(waiting)
       /\ UNCHANGED smap
    \/ /\ leader[g] # mig.node
       /\ Failed
       /\ UNCHANGED log

\* 2. The barrier on src.
ProposeBarrier ==
    /\ mig.step = "barrier"
    /\ ProposeTo(mig.src, Barrier(mig.calls), "barrier committed", Abort)
    /\ UNCHANGED <<wire, leader, store, clients, elections>>

(***************************************************************************)
(* 3. CopySlot: a linearizable read on src, a checkpoint of what it has    *)
(* committed, and a proposal of the keys found into dst.                   *)
(***************************************************************************)
Checkpoint ==
    /\ mig.step = "copy"
    /\ \/ /\ leader[mig.src] = mig.node
          /\ leader[mig.dst] = mig.node
          /\ mig' = [step |-> "propose copy", calls |-> mig.calls, node |-> mig.node,
                     src |-> mig.src, dst |-> mig.dst, kv |-> store[mig.src]]
          /\ UNCHANGED smap
       \/ /\ ~ (leader[mig.src] = mig.node /\ leader[mig.dst] = mig.node)
          /\ Abort
    /\ UNCHANGED <<wire, groups, clients, elections>>

ProposeCopy ==
    /\ mig.step = "propose copy"
    /\ \/ /\ present(mig.kv) = {}
          /\ Goto("flip")
          /\ UNCHANGED <<smap, log>>
       \/ /\ present(mig.kv) # {}
          /\ ProposeTo(mig.dst, CopyOf(mig.calls, mig.kv), "copy committed", Abort)
    /\ UNCHANGED <<wire, leader, store, clients, elections>>

\* 4. The flip.
Flip ==
    /\ mig.step = "flip"
    /\ Publish(mig.node, mig.src, mig.dst, mig.calls,
               WithSlot(smap[mig.node], mig.dst), "cleanup")
    /\ UNCHANGED <<wire, groups, clients, elections>>

\* 5. deleteSlotFrom the source.
Cleanup ==
    /\ mig.step = "cleanup"
    /\ LET keys == present(store[mig.src])
       IN  \/ /\ keys = {}
              /\ Return
              /\ UNCHANGED log
           \/ /\ keys # {}
              /\ ProposeTo(mig.src, DeleteAll(mig.calls, keys), "cleanup committed", Return)
    /\ UNCHANGED <<wire, leader, store, clients, elections>>

\* What the coordinator waits for, on which group, and what comes then.
Waiting ==
    { [step |-> "barrier committed", op |-> "barrier", then |-> "copy"],
      [step |-> "copy committed",    op |-> "copy",    then |-> "flip"],
      [step |-> "cleanup committed", op |-> "delete",  then |-> "return"] }

\* A proposal fails: its context ends, or the leader steps down.
WaitFails ==
    /\ \/ mig.step \in {"barrier committed", "copy committed"} /\ Abort
       \/ mig.step = "cleanup committed" /\ Return
    /\ UNCHANGED <<wire, groups, clients, elections>>
----------------------------------------------------------------------------
(* Clients *)

(***************************************************************************)
(* Put and Delete up to ProposeWithGuard, on the node that leads the       *)
(* owner.  A request forwarded there passes fenceRoute only with the same  *)
(* owner in its header, and is then no different.                          *)
(***************************************************************************)
Put(n, w) ==
    /\ w.id \notin issued
    /\ ~ smap[n].migrating
    /\ leader[smap[n].owner] = n
    /\ handlers' = handlers \cup {[node |-> n, group |-> smap[n].owner, write |-> w]}
    /\ issued' = issued \cup {w.id}
    /\ UNCHANGED <<smap, wire, groups, mig, done, elections>>

\* Mutant: the loop does not look at the map again.
noGuard(n) == TRUE

\* The guard on the owner's loop.
freezeGuard(n) == ~ smap[n].migrating

\* A group other than g holds key k, or is about to.
copied(g, k) ==
    \E d \in Group \ {g} :
        \/ store[d][k] # Absent
        \/ \E i \in DOMAIN log[d] : log[d][i].op = "copy" /\ log[d][i].kv[k] # Absent

\* The loop takes a proposal: appended, or answered with an error.
AppendWrite(h) ==
    /\ LateWrites \/ smap[h.node].owner = h.group
    /\ StaleCopies \/ h.write.val # Absent \/ ~ copied(h.group, h.write.key)
    /\ log' = IF leader[h.group] = h.node /\ freezeGuard(h.node)
              THEN [log EXCEPT ![h.group] = Append(@, ClientWrite(h.write))]
              ELSE log
    /\ handlers' = handlers \ {h}
    /\ UNCHANGED <<smap, wire, leader, store, mig, issued, done, elections>>

\* The request's context ends first.
Cancel(h) ==
    /\ handlers' = handlers \ {h}
    /\ UNCHANGED <<smap, wire, groups, mig, issued, done, elections>>
----------------------------------------------------------------------------
(* Groups *)

\* What the coordinator learns when c commits: its own proposal, while its
\* node still leads g, ends its wait.
answered(g, c) ==
    {x \in Waiting : /\ mig.step = x.step
                     /\ c.op = x.op
                     /\ c.id = mig.calls
                     /\ leader[g] = mig.node}

Signal(g, c) ==
    IF answered(g, c) = {}
    THEN UNCHANGED mig
    ELSE \E x \in answered(g, c) :
            IF x.then = "return" THEN mig' = [Idle EXCEPT !.calls = mig.calls]
                                 ELSE Goto(x.then)

Commit(g) ==
    /\ log[g] # <<>>
    /\ LET c == Head(log[g])
       IN  /\ store' = [store EXCEPT ![g] = applied(@, c)]
           /\ done' = IF c.op = "write" THEN done \cup {c.write} ELSE done
           /\ Signal(g, c)
    /\ log' = [log EXCEPT ![g] = Tail(@)]
    /\ UNCHANGED <<smap, wire, leader, handlers, issued, elections>>

ElectLeader(g, n) ==
    /\ elections < MaxElection
    /\ n # leader[g]
    /\ elections' = elections + 1
    /\ leader' = [leader EXCEPT ![g] = n]
    /\ \E kept \in 0 .. Len(log[g]) : log' = [log EXCEPT ![g] = SubSeq(@, 1, kept)]
    /\ UNCHANGED <<smap, wire, store, mig, clients>>
----------------------------------------------------------------------------
Init ==
    /\ \E g \in Group : smap = [n \in Node |-> [epoch |-> 1, owner |-> g, migrating |-> FALSE]]
    /\ wire = {}
    /\ leader \in [Group -> Node]
    /\ log = [g \in Group |-> <<>>]
    /\ store = [g \in Group |-> [k \in Key |-> Absent]]
    /\ handlers = {}
    /\ mig = Idle
    /\ issued = {}
    /\ done = {}
    /\ elections = 0

Next ==
    \/ \E n \in Coordinator, src, dst \in Group : MigrateSlot(n, src, dst)
    \/ \E p \in Node : UpdateShardMap(p)
    \/ \E u \in wire : LateUpdate(u)
    \/ Published
    \/ ProposeBarrier
    \/ Checkpoint
    \/ ProposeCopy
    \/ Flip
    \/ Cleanup
    \/ WaitFails
    \/ \E n \in Node, w \in Write : Put(n, w)
    \/ \E h \in handlers : AppendWrite(h) \/ Cancel(h)
    \/ \E g \in Group : Commit(g)
    \/ \E g \in Group, n \in Node : ElectLeader(g, n)

Spec == Init /\ [][Next]_vars

\* The goroutine of the call runs, and its requests and proposals come back,
\* if only because its context ends.
MigrationStep ==
    \/ \E p \in Node : UpdateShardMap(p)
    \/ Published
    \/ ProposeBarrier
    \/ Checkpoint
    \/ ProposeCopy
    \/ Flip
    \/ Cleanup
    \/ WaitFails

FairSpec == Spec /\ WF_vars(MigrationStep)
----------------------------------------------------------------------------
newest == CHOOSE m \in {smap[n] : n \in Node} : \A n \in Node : smap[n].epoch <= m.epoch

(***************************************************************************)
(* The slot is one store: what the owner by the newest map has committed   *)
(* changes with each client write and with nothing else.  A handoff moves  *)
(* the slot and leaves what clients see of it alone: the copy is complete  *)
(* before the destination owns the slot.                                   *)
(***************************************************************************)
Slot == INSTANCE KVStore WITH kv <- store[newest.owner]

SlotIsOneStore == Slot!Spec

(***************************************************************************)
(* No migration returns and leaves its freeze behind: a node that still    *)
(* rejects writes has been sent a newer map that lets them in, because     *)
(* MigrateSlot rolls the freeze back whenever a step before the flip fails.*)
(***************************************************************************)
NeverStranded ==
    mig.step = "idle" =>
        \A n \in Node : smap[n].migrating =>
            \E u \in wire : /\ u.to = n
                            /\ u.map.epoch > smap[n].epoch
                            /\ ~ u.map.migrating

(***************************************************************************)
(* MigrateSlot returns, and by then its node accepts writes again, flipped *)
(* or rolled back.                                                         *)
(***************************************************************************)
FreezeEnds ==
    \A n \in Coordinator :
        (mig.step # "idle" \/ smap[n].migrating)
            ~> (mig.step = "idle" /\ ~ smap[n].migrating)

(***************************************************************************)
(* A key disappears from a group only by a client's delete or when no node *)
(* routes the slot to the group any more (source cleanup comes after every *)
(* node has adopted the flip).                                             *)
(***************************************************************************)
CleanupUnrouted ==
    [][\A g \in Group, k \in Key :
          (store[g][k] # Absent /\ store'[g][k] = Absent)
          => \/ done' # done
             \/ \A n \in Node : smap[n].owner # g]_vars

(***************************************************************************)
(* A write whose handler was overtaken by a handoff is refused on the      *)
(* loop (ProposeWithGuard): no client write is appended to a group that no *)
(* node routes the slot to.                                                *)
(***************************************************************************)
OvertakenRefused ==
    \A g \in Group : \A i \in 1 .. Len(log[g]) :
        log[g][i].op = "write" => \E n \in Node : smap[n].owner = g
============================================================================
