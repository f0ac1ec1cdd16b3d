------------------------ MODULE SlotMigrationProofs ------------------------
(***************************************************************************)
(* No migration leaves a node frozen for good, for any number of nodes,    *)
(* groups, keys and calls, when one node coordinates them.                 *)
(***************************************************************************)
EXTENDS SlotMigration, TLAPS

\* Time for the solver on a busy machine, and a second attempt.
USE SMTT(300), Z3T(300)

CallStep == {"barrier", "barrier committed", "copy", "propose copy", "copy committed",
             "flip", "cleanup", "cleanup committed"}

PublishState(c) ==
    [step : {"publish"}, calls : Nat, node : {c}, src : Group, dst : Group, map : ShardMap,
     then : {"barrier", "cleanup", "return"}, todo : SUBSET Node, ok : BOOLEAN]

\* The call under way, if there is one, runs on node c.
CallType(c) ==
    \/ mig \in [step : {"idle"}, calls : Nat]
    \/ mig \in PublishState(c)
    \/ /\ mig.step \in CallStep
       /\ mig.calls \in Nat
       /\ mig.node = c
       /\ mig.src \in Group
       /\ mig.dst \in Group

Types(c) ==
    /\ smap \in [Node -> ShardMap]
    /\ wire \subseteq [to : Node, map : ShardMap]
    /\ CallType(c)

\* Map m is the coordinator's, or older.
Behind(m, top) == m = top \/ m.epoch < top.epoch

\* Node n has the coordinator's map, is about to be told, or has it in the mail.
Told(n, top) ==
    \/ smap[n] = top
    \/ mig.step = "publish" /\ n \in mig.todo
    \/ [to |-> n, map |-> top] \in wire

\* Where the coordinator's own map lets writers in.
Open(c) ==
    /\ mig.step \in {"idle", "cleanup", "cleanup committed"} => ~ smap[c].migrating
    /\ (mig.step = "publish" /\ mig.then # "barrier") => ~ smap[c].migrating

(***************************************************************************)
(* The coordinator holds the newest map there is, everybody else has been  *)
(* sent it, and it is frozen only during a call that has yet to unfreeze.  *)
(***************************************************************************)
HandoffInv(c) ==
    /\ Types(c)
    /\ \A n \in Node : Behind(smap[n], smap[c])
    /\ \A u \in wire : Behind(u.map, smap[c])
    /\ mig.step = "publish" => mig.map = smap[c]
    /\ \A n \in Node : Told(n, smap[c])
    /\ Open(c)
----------------------------------------------------------------------------
\* SetShardMap keeps the newer of two maps of which one is the newest.
LEMMA SetNewest ==
    ASSUME NEW top \in ShardMap, NEW m \in ShardMap, NEW cur \in ShardMap,
           Behind(m, top), Behind(cur, top)
    PROVE  /\ SetShardMap(cur, m) \in ShardMap
           /\ Behind(SetShardMap(cur, m), top)
           /\ cur = top => SetShardMap(cur, m) = top
           /\ m = top => SetShardMap(cur, m) = top
  BY DEF SetShardMap, Behind, ShardMap

\* A published map is a map, newer than the one it was made from.
LEMMA NextMap ==
    ASSUME NEW m \in ShardMap, NEW g \in Group, NEW b \in BOOLEAN
    PROVE  /\ WithMigrating(m, b) \in ShardMap
           /\ WithMigrating(m, b).epoch = m.epoch + 1
           /\ WithMigrating(m, b).migrating = b
           /\ WithSlot(m, g) \in ShardMap
           /\ WithSlot(m, g).epoch = m.epoch + 1
           /\ WithSlot(m, g).migrating = FALSE
<1>1. m.epoch + 1 \in Nat
  BY DEF ShardMap
<1>2. /\ WithMigrating(m, b) \in ShardMap
      /\ WithMigrating(m, b).epoch = m.epoch + 1
      /\ WithMigrating(m, b).migrating = b
  BY <1>1, ZenonT(300) DEF WithMigrating, ShardMap
<1>3. /\ WithSlot(m, g) \in ShardMap
      /\ WithSlot(m, g).epoch = m.epoch + 1
      /\ WithSlot(m, g).migrating = FALSE
  BY <1>1, ZenonT(300) DEF WithSlot, ShardMap
<1> QED  BY <1>2, <1>3
----------------------------------------------------------------------------
\* DistributeShardMap of a newer map, or of the newest once more.
LEMMA PublishKeeps ==
    ASSUME NEW c \in Node, HandoffInv(c), NEW src \in Group, NEW dst \in Group,
           NEW calls \in Nat, NEW m \in ShardMap, NEW then \in {"barrier", "cleanup", "return"},
           m = smap[c] \/ m.epoch = smap[c].epoch + 1,
           then # "barrier" => ~ m.migrating,
           Publish(c, src, dst, calls, m, then),
           UNCHANGED wire
    PROVE  HandoffInv(c)'
<1>1. /\ smap \in [Node -> ShardMap]
      /\ wire \subseteq [to : Node, map : ShardMap]
      /\ smap[c] \in ShardMap
  BY DEF HandoffInv, Types
<1>2. SetShardMap(smap[c], m) = m
  BY <1>1 DEF SetShardMap, ShardMap
<1>3. /\ smap' = [smap EXCEPT ![c] = m]
      /\ mig' = Publishing(c, src, dst, calls, m, then)
  BY <1>1, <1>2 DEF Publish
<1>4. /\ smap' \in [Node -> ShardMap] /\ smap'[c] = m
      /\ \A n \in Node \ {c} : smap'[n] = smap[n]
  BY <1>1, <1>3
<1>5. /\ mig' \in PublishState(c) /\ mig'.step = "publish" /\ mig'.map = m
      /\ mig'.todo = Node \ {c} /\ mig'.then = then
  BY <1>3 DEF Publishing, PublishState
<1>6. \A x \in ShardMap : Behind(x, smap[c]) => Behind(x, m)
  BY <1>1 DEF Behind, ShardMap
<1>7. Types(c)'
  BY <1>1, <1>4, <1>5 DEF Types, CallType
<1>8. \A n \in Node : Behind(smap'[n], m)
  <2> SUFFICES ASSUME NEW n \in Node PROVE Behind(smap'[n], m)
    OBVIOUS
  <2>1. CASE n = c
    BY <1>4, <2>1 DEF Behind
  <2>2. CASE n # c
    BY <1>1, <1>4, <1>6, <2>2 DEF HandoffInv
  <2> QED  BY <2>1, <2>2
<1>9. \A u \in wire : Behind(u.map, m)
  BY <1>1, <1>6 DEF HandoffInv
<1>10. \A n \in Node : Told(n, smap[c])'
  BY <1>4, <1>5 DEF Told
<1>11. Open(c)'
  BY <1>4, <1>5 DEF Open
<1> QED  BY <1>4, <1>5, <1>7, <1>8, <1>9, <1>10, <1>11 DEF HandoffInv

\* A step that leaves the maps alone and does not begin to publish.
LEMMA CallKeeps ==
    ASSUME NEW c \in Node, HandoffInv(c), CallType(c)', mig'.step # "publish",
           mig.step = "publish" => mig.todo = {},
           mig'.step \in {"idle", "cleanup", "cleanup committed"} => ~ smap[c].migrating,
           UNCHANGED <<smap, wire>>
    PROVE  HandoffInv(c)'
<1>1. Types(c)'
  BY ZenonT(300) DEF HandoffInv, Types
<1>2. \A n \in Node : Told(n, smap[c])'
  BY ZenonT(300) DEF HandoffInv, Told
<1>3. Open(c)'
  BY ZenonT(300) DEF Open
<1> QED  BY <1>1, <1>2, <1>3, ZenonT(300) DEF HandoffInv

\* The deferred rollback.
LEMMA AbortKeeps ==
    ASSUME NEW c \in Node, HandoffInv(c), mig.step # "idle", Abort, UNCHANGED wire
    PROVE  HandoffInv(c)'
<1>1. /\ mig.node = c /\ mig.src \in Group /\ mig.dst \in Group /\ mig.calls \in Nat
      /\ smap[c] \in ShardMap
  BY DEF HandoffInv, Types, CallType, PublishState
<1> DEFINE m == WithMigrating(smap[c], FALSE)
<1>2. m \in ShardMap /\ m.epoch = smap[c].epoch + 1 /\ ~ m.migrating
  BY <1>1, NextMap, ZenonT(300)
<1>3. Publish(c, mig.src, mig.dst, mig.calls, m, "return")
  BY <1>1, ZenonT(300) DEF Abort
<1> HIDE DEF m
<1> QED  BY <1>1, <1>2, <1>3, PublishKeeps

\* The call goes on to another step.
LEMMA GotoKeeps ==
    ASSUME NEW c \in Node, HandoffInv(c), mig.step # "idle", NEW step \in CallStep, Goto(step),
           mig.step = "publish" => mig.todo = {},
           step \in {"cleanup", "cleanup committed"} => ~ smap[c].migrating,
           UNCHANGED <<smap, wire>>
    PROVE  HandoffInv(c)'
<1>1. /\ mig.node = c /\ mig.src \in Group /\ mig.dst \in Group /\ mig.calls \in Nat
  BY ZenonT(300) DEF HandoffInv, Types, CallType, PublishState
<1>2. mig'.step = step /\ step # "publish" /\ step # "idle"
  BY ZenonT(300) DEF Goto, CallStep
<1>3. CallType(c)'
  BY <1>1, ZenonT(300) DEF Goto, CallType
<1> QED  BY <1>2, <1>3, CallKeeps, ZenonT(300)

\* The call returns.
LEMMA ReturnKeeps ==
    ASSUME NEW c \in Node, HandoffInv(c), mig' = [Idle EXCEPT !.calls = mig.calls],
           mig.step = "publish" => mig.todo = {},
           ~ smap[c].migrating,
           UNCHANGED <<smap, wire>>
    PROVE  HandoffInv(c)'
<1>1. mig.calls \in Nat
  BY DEF HandoffInv, Types, CallType, PublishState
<1>2. mig' \in [step : {"idle"}, calls : Nat] /\ mig'.step = "idle"
  BY <1>1 DEF Idle
<1>3. CallType(c)'
  BY <1>2 DEF CallType
<1> QED  BY <1>2, <1>3, CallKeeps
----------------------------------------------------------------------------
LEMMA InitHandoff ==
    ASSUME NEW c \in Node, Init
    PROVE  HandoffInv(c)
<1>1. PICK g \in Group : smap = [n \in Node |-> [epoch |-> 1, owner |-> g, migrating |-> FALSE]]
  BY ZenonT(300) DEF Init
<1>2. /\ smap \in [Node -> ShardMap]
      /\ \A n \in Node : smap[n] = smap[c]
      /\ ~ smap[c].migrating
  BY <1>1 DEF ShardMap
<1>3. mig \in [step : {"idle"}, calls : Nat] /\ mig.step = "idle" /\ wire = {}
  BY DEF Init, Idle
<1>4. Types(c)
  BY <1>2, <1>3 DEF Types, CallType
<1>5. \A n \in Node : Told(n, smap[c]) /\ Behind(smap[n], smap[c])
  BY <1>2, ZenonT(300) DEF Told, Behind
<1> QED  BY <1>2, <1>3, <1>4, <1>5 DEF HandoffInv, Open

LEMMA MigrateSlotKeeps ==
    ASSUME NEW c \in Node, HandoffInv(c), NEW src \in Group, NEW dst \in Group,
           MigrateSlot(c, src, dst)
    PROVE  HandoffInv(c)'
<1>1. mig \in [step : {"idle"}, calls : Nat] /\ smap[c] \in ShardMap /\ ~ smap[c].migrating
  BY DEF MigrateSlot, HandoffInv, Types, CallType, CallStep, PublishState, Open
<1>2. mig.calls + 1 \in Nat
  BY <1>1
<1>3. CASE Publish(c, src, dst, mig.calls + 1, smap[c], "cleanup")
  BY <1>1, <1>2, <1>3, PublishKeeps DEF MigrateSlot
<1>4. CASE Publish(c, src, dst, mig.calls + 1, WithMigrating(smap[c], TRUE), "barrier")
  <2> DEFINE m == WithMigrating(smap[c], TRUE)
  <2>1. m \in ShardMap /\ m.epoch = smap[c].epoch + 1
    BY <1>1, NextMap, ZenonT(300)
  <2> HIDE DEF m
  <2>2. Publish(c, src, dst, mig.calls + 1, m, "barrier")
    BY <1>4, ZenonT(300) DEF m
  <2> QED  BY <1>2, <2>1, <2>2, PublishKeeps DEF MigrateSlot
<1> QED  BY <1>3, <1>4, ZenonT(300) DEF MigrateSlot

LEMMA UpdateShardMapKeeps ==
    ASSUME NEW c \in Node, HandoffInv(c), NEW p \in Node, UpdateShardMap(p)
    PROVE  HandoffInv(c)'
<1> DEFINE top == smap[c]
<1>1. /\ smap \in [Node -> ShardMap] /\ wire \subseteq [to : Node, map : ShardMap]
      /\ top \in ShardMap
  BY DEF HandoffInv, Types
<1>2. /\ mig \in PublishState(c) /\ mig.step = "publish" /\ mig.map = top /\ p \in mig.todo
  BY DEF UpdateShardMap, HandoffInv, Types, CallType, CallStep
<1>3. mig.then # "barrier" => ~ top.migrating
  BY <1>2 DEF HandoffInv, Open
<1>4. /\ \A n \in Node : Behind(smap[n], top) /\ Told(n, top)
      /\ \A u \in wire : Behind(u.map, top)
  BY DEF HandoffInv
<1>5. CASE /\ smap' = [smap EXCEPT ![p] = SetShardMap(@, mig.map)]
           /\ mig' = [mig EXCEPT !.todo = @ \ {p}]
           /\ UNCHANGED wire
  <2>1. SetShardMap(smap[p], mig.map) = top
    BY <1>1, <1>2, <1>4, SetNewest DEF Behind
  <2>2. /\ smap' \in [Node -> ShardMap] /\ smap'[p] = top /\ smap'[c] = top
        /\ \A n \in Node \ {p} : smap'[n] = smap[n]
    BY <1>1, <1>5, <2>1
  <2>3. /\ mig' \in PublishState(c) /\ mig'.step = "publish" /\ mig'.map = top
        /\ mig'.todo = mig.todo \ {p} /\ mig'.then = mig.then
    BY <1>2, <1>5 DEF PublishState
  <2> HIDE DEF top
  <2>4. Types(c)'
    BY <1>1, <1>5, <2>2, <2>3 DEF Types, CallType
  <2>5. \A n \in Node : Behind(smap'[n], top)
    BY <1>4, <2>2 DEF Behind
  <2>6. \A n \in Node : Told(n, smap[c])'
    BY <1>2, <1>4, <1>5, <2>2, <2>3 DEF Told
  <2>7. Open(c)'
    BY <1>3, <2>2, <2>3 DEF Open
  <2> QED  BY <1>4, <1>5, <2>2, <2>3, <2>4, <2>5, <2>6, <2>7 DEF HandoffInv
<1>6. CASE /\ wire' = wire \cup {[to |-> p, map |-> mig.map]}
           /\ mig' = [mig EXCEPT !.todo = @ \ {p}, !.ok = FALSE]
           /\ UNCHANGED smap
  <2>1. /\ mig' \in PublishState(c) /\ mig'.step = "publish" /\ mig'.map = top
        /\ mig'.todo = mig.todo \ {p} /\ mig'.then = mig.then
    BY <1>2, <1>6, ZenonT(300) DEF PublishState
  <2> HIDE DEF top
  <2>2. /\ wire' = wire \cup {[to |-> p, map |-> top]}
        /\ wire' \subseteq [to : Node, map : ShardMap]
    BY <1>1, <1>2, <1>6
  <2>3. Types(c)'
    BY <1>1, <1>6, <2>1, <2>2 DEF Types, CallType
  <2>4. \A u \in wire' : Behind(u.map, top)
    BY <1>4, <2>2 DEF Behind
  <2>5. \A n \in Node : Told(n, top)'
    BY <1>2, <1>4, <1>6, <2>1, <2>2 DEF Told, top
  <2>6. Open(c)'
    BY <1>3, <1>6, <2>1, ZenonT(300) DEF Open, top
  <2> QED  BY <1>4, <1>6, <2>1, <2>3, <2>4, <2>5, <2>6 DEF HandoffInv, top
<1> QED  BY <1>5, <1>6 DEF UpdateShardMap

LEMMA LateUpdateKeeps ==
    ASSUME NEW c \in Node, HandoffInv(c), NEW u \in wire, LateUpdate(u)
    PROVE  HandoffInv(c)'
<1> DEFINE top == smap[c]
           new == SetShardMap(smap[u.to], u.map)
<1>1. /\ smap \in [Node -> ShardMap] /\ wire \subseteq [to : Node, map : ShardMap]
      /\ top \in ShardMap /\ u \in [to : Node, map : ShardMap]
  BY DEF HandoffInv, Types
<1>2. /\ \A n \in Node : Behind(smap[n], top) /\ Told(n, top)
      /\ \A x \in wire : Behind(x.map, top)
      /\ mig.step = "publish" => mig.map = top
  BY DEF HandoffInv
<1>3. /\ new \in ShardMap /\ Behind(new, top)
      /\ smap[u.to] = top => new = top
      /\ u.map = top => new = top
  BY <1>1, <1>2, SetNewest
<1>4. smap' = [smap EXCEPT ![u.to] = new] /\ wire' = wire \ {u} /\ mig' = mig
  BY DEF LateUpdate
<1> HIDE DEF new
<1>5. /\ smap' \in [Node -> ShardMap] /\ smap'[u.to] = new /\ smap'[c] = top
      /\ \A n \in Node \ {u.to} : smap'[n] = smap[n]
  BY <1>1, <1>3, <1>4
<1> HIDE DEF top
<1>6. Types(c)'
  BY <1>1, <1>4, <1>5 DEF HandoffInv, Types, CallType
<1>7. \A n \in Node : Behind(smap'[n], top)
  BY <1>2, <1>3, <1>5
<1>8. \A n \in Node : Told(n, smap[c])'
  <2> SUFFICES ASSUME NEW n \in Node
               PROVE  \/ smap'[n] = top
                      \/ mig.step = "publish" /\ n \in mig.todo
                      \/ [to |-> n, map |-> top] \in wire'
    BY <1>4, <1>5 DEF Told
  <2>1. CASE smap[n] = top
    BY <1>3, <1>5, <2>1
  <2>2. CASE [to |-> n, map |-> top] \in wire /\ u = [to |-> n, map |-> top]
    BY <1>3, <1>5, <2>2
  <2>3. CASE [to |-> n, map |-> top] \in wire /\ u # [to |-> n, map |-> top]
    BY <1>4, <2>3
  <2> QED  BY <1>2, <2>1, <2>2, <2>3 DEF Told
<1>9. Open(c)'
  BY <1>4, <1>5, ZenonT(300) DEF HandoffInv, Open, top
<1> QED  BY <1>2, <1>4, <1>5, <1>6, <1>7, <1>8, <1>9 DEF HandoffInv

LEMMA PublishedKeeps ==
    ASSUME NEW c \in Node, HandoffInv(c), Published
    PROVE  HandoffInv(c)'
<1>1. /\ mig \in PublishState(c) /\ mig.step = "publish" /\ mig.todo = {}
      /\ mig.then \in {"barrier", "cleanup", "return"} /\ UNCHANGED wire
  BY DEF Published, HandoffInv, Types, CallType, CallStep, PublishState
<1>2. mig.then # "barrier" => ~ smap[c].migrating
  BY <1>1 DEF HandoffInv, Open
<1>3. CASE mig.then = "return"
  <2>1. Return
    BY <1>3 DEF Published
  <2> QED  BY <1>1, <1>2, <1>3, <2>1, ReturnKeeps DEF Return
<1>4. CASE mig.then = "barrier" /\ ~ allReached
  <2>1. Abort
    BY <1>4 DEF Published
  <2> QED  BY <1>1, <2>1, AbortKeeps
<1>5. CASE mig.then = "cleanup" /\ ~ allReached
  <2>1. Return
    BY <1>5 DEF Published
  <2> QED  BY <1>1, <1>2, <1>5, <2>1, ReturnKeeps DEF Return
<1>6. CASE mig.then # "return" /\ allReached
  <2>1. Goto(mig.then) /\ UNCHANGED smap
    BY <1>6 DEF Published
  <2>2. mig.then \in CallStep
    BY <1>1, <1>6, ZenonT(300) DEF CallStep
  <2> QED  BY <1>1, <1>2, <2>1, <2>2, GotoKeeps, ZenonT(300)
<1> QED  BY <1>1, <1>3, <1>4, <1>5, <1>6

LEMMA ProposeBarrierKeeps ==
    ASSUME NEW c \in Node, HandoffInv(c), ProposeBarrier
    PROVE  HandoffInv(c)'
<1>1. mig.step = "barrier" /\ UNCHANGED wire
  BY ZenonT(300) DEF ProposeBarrier
<1>2. CASE Abort
  BY <1>1, <1>2, AbortKeeps
<1>3. CASE Goto("barrier committed") /\ UNCHANGED smap
  BY <1>1, <1>3, GotoKeeps, ZenonT(300) DEF CallStep
<1> QED  BY <1>2, <1>3, ZenonT(300) DEF ProposeBarrier, ProposeTo

LEMMA CheckpointKeeps ==
    ASSUME NEW c \in Node, HandoffInv(c), Checkpoint
    PROVE  HandoffInv(c)'
<1>1. mig.step = "copy" /\ UNCHANGED wire
  BY ZenonT(300) DEF Checkpoint
<1>2. CASE Abort
  BY <1>1, <1>2, AbortKeeps
<1>3. CASE /\ mig' = [step |-> "propose copy", calls |-> mig.calls, node |-> mig.node,
                      src |-> mig.src, dst |-> mig.dst, kv |-> store[mig.src]]
           /\ UNCHANGED smap
  <2>1. /\ mig.node = c /\ mig.src \in Group /\ mig.dst \in Group /\ mig.calls \in Nat
    BY <1>1 DEF HandoffInv, Types, CallType, PublishState
  <2>2. CallType(c)' /\ mig'.step = "propose copy"
    BY <1>3, <2>1, ZenonT(300) DEF CallType, CallStep
  <2> QED  BY <1>1, <1>3, <2>2, CallKeeps, ZenonT(300)
<1> QED  BY <1>2, <1>3, ZenonT(300) DEF Checkpoint

LEMMA ProposeCopyKeeps ==
    ASSUME NEW c \in Node, HandoffInv(c), ProposeCopy
    PROVE  HandoffInv(c)'
<1>1. mig.step = "propose copy" /\ UNCHANGED wire
  BY ZenonT(300) DEF ProposeCopy
<1>2. CASE Abort
  BY <1>1, <1>2, AbortKeeps, ZenonT(300)
<1>3. CASE Goto("flip") /\ UNCHANGED smap
  BY <1>1, <1>3, GotoKeeps, ZenonT(300) DEF CallStep
<1>4. CASE Goto("copy committed") /\ UNCHANGED smap
  BY <1>1, <1>4, GotoKeeps, ZenonT(300) DEF CallStep
<1> QED  BY <1>2, <1>3, <1>4, ZenonT(300) DEF ProposeCopy, ProposeTo

LEMMA FlipKeeps ==
    ASSUME NEW c \in Node, HandoffInv(c), Flip
    PROVE  HandoffInv(c)'
<1>1. /\ mig.step = "flip" /\ mig.node = c /\ mig.src \in Group /\ mig.dst \in Group
      /\ mig.calls \in Nat /\ smap[c] \in ShardMap /\ UNCHANGED wire
  BY DEF Flip, HandoffInv, Types, CallType, PublishState
<1> DEFINE m == WithSlot(smap[c], mig.dst)
<1>2. m \in ShardMap /\ m.epoch = smap[c].epoch + 1 /\ ~ m.migrating
  BY <1>1, NextMap, ZenonT(300)
<1>3. Publish(c, mig.src, mig.dst, mig.calls, m, "cleanup")
  BY <1>1 DEF Flip
<1> HIDE DEF m
<1> QED  BY <1>1, <1>2, <1>3, PublishKeeps

LEMMA CleanupKeeps ==
    ASSUME NEW c \in Node, HandoffInv(c), Cleanup
    PROVE  HandoffInv(c)'
<1>1. mig.step = "cleanup" /\ ~ smap[c].migrating /\ UNCHANGED wire
  BY ZenonT(300) DEF Cleanup, HandoffInv, Open
<1>2. CASE Return
  BY <1>1, <1>2, ReturnKeeps DEF Return
<1>3. CASE Goto("cleanup committed") /\ UNCHANGED smap
  BY <1>1, <1>3, GotoKeeps, ZenonT(300) DEF CallStep
<1> QED  BY <1>2, <1>3, ZenonT(300) DEF Cleanup, ProposeTo

LEMMA WaitFailsKeeps ==
    ASSUME NEW c \in Node, HandoffInv(c), WaitFails
    PROVE  HandoffInv(c)'
<1>1. CASE mig.step \in {"barrier committed", "copy committed"} /\ Abort
  BY <1>1, AbortKeeps, ZenonT(300) DEF WaitFails
<1>2. CASE mig.step = "cleanup committed" /\ Return
  <2>1. ~ smap[c].migrating
    BY <1>2, ZenonT(300) DEF HandoffInv, Open
  <2> QED  BY <1>2, <2>1, ReturnKeeps, ZenonT(300) DEF Return, WaitFails
<1> QED  BY <1>1, <1>2, ZenonT(300) DEF WaitFails

\* What the coordinator does next once a proposal has committed.
LEMMA WaitingSteps ==
    \A x \in Waiting :
        \/ x.step = "barrier committed" /\ x.then = "copy"
        \/ x.step = "copy committed" /\ x.then = "flip"
        \/ x.step = "cleanup committed" /\ x.then = "return"
<1> SUFFICES ASSUME NEW x \in Waiting
             PROVE  \/ x.step = "barrier committed" /\ x.then = "copy"
                    \/ x.step = "copy committed" /\ x.then = "flip"
                    \/ x.step = "cleanup committed" /\ x.then = "return"
  BY ZenonT(300)
<1>1. CASE x = [step |-> "barrier committed", op |-> "barrier", then |-> "copy"]
  BY <1>1, ZenonT(300)
<1>2. CASE x = [step |-> "copy committed", op |-> "copy", then |-> "flip"]
  BY <1>2, ZenonT(300)
<1>3. CASE x = [step |-> "cleanup committed", op |-> "delete", then |-> "return"]
  BY <1>3, ZenonT(300)
<1> QED  BY <1>1, <1>2, <1>3, ZenonT(300) DEF Waiting

\* The coordinator hears of its proposal, or nothing it knows changes.
LEMMA CommitKeeps ==
    ASSUME NEW c \in Node, HandoffInv(c), NEW g \in Group, Commit(g)
    PROVE  HandoffInv(c)'
<1>0. UNCHANGED <<smap, wire>>
  BY DEF Commit
<1>1. CASE UNCHANGED mig
  BY <1>0, <1>1, ZenonT(300) DEF HandoffInv, Types, CallType, Told, Open
<1>2. CASE \E x \in Waiting :
             /\ mig.step = x.step
             /\ IF x.then = "return" THEN mig' = [Idle EXCEPT !.calls = mig.calls]
                                     ELSE Goto(x.then)
  <2>1. PICK x \in Waiting :
             /\ mig.step = x.step
             /\ IF x.then = "return" THEN mig' = [Idle EXCEPT !.calls = mig.calls]
                                     ELSE Goto(x.then)
    BY <1>2
  <2>a. \/ x.step = "barrier committed" /\ x.then = "copy"
        \/ x.step = "copy committed" /\ x.then = "flip"
        \/ x.step = "cleanup committed" /\ x.then = "return"
    BY WaitingSteps, ZenonT(300)
  <2>2. CASE x.then = "return"
    <3>1. mig.step = "cleanup committed" /\ mig' = [Idle EXCEPT !.calls = mig.calls]
      BY <2>1, <2>2, <2>a, ZenonT(300)
    <3>2. ~ smap[c].migrating
      BY <3>1, ZenonT(300) DEF HandoffInv, Open
    <3> QED  BY <1>0, <3>1, <3>2, ReturnKeeps, ZenonT(300)
  <2>3. CASE x.then # "return"
    <3>1. /\ x.then \in {"copy", "flip"} /\ Goto(x.then)
          /\ mig.step # "idle" /\ mig.step # "publish"
      BY <2>1, <2>3, <2>a, ZenonT(300)
    <3>2. x.then \in CallStep /\ x.then \notin {"cleanup", "cleanup committed"}
      BY <3>1, ZenonT(300) DEF CallStep
    <3> QED  BY <1>0, <3>1, <3>2, GotoKeeps, ZenonT(300)
  <2> QED  BY <2>2, <2>3
<1> QED  BY <1>1, <1>2 DEF Commit, Signal, answered
----------------------------------------------------------------------------
LEMMA NextHandoff ==
    ASSUME NEW c \in Node, Coordinator = {c}, HandoffInv(c), [Next]_vars
    PROVE  HandoffInv(c)'
<1>1. CASE UNCHANGED <<smap, wire, mig>>
  BY <1>1, ZenonT(300) DEF HandoffInv, Types, CallType, Told, Open
<1>2. CASE \E n \in Coordinator, src, dst \in Group : MigrateSlot(n, src, dst)
  BY <1>2, MigrateSlotKeeps
<1>3. CASE \E p \in Node : UpdateShardMap(p)
  BY <1>3, UpdateShardMapKeeps
<1>4. CASE \E u \in wire : LateUpdate(u)
  BY <1>4, LateUpdateKeeps
<1>5. CASE \E g \in Group : Commit(g)
  BY <1>5, CommitKeeps
<1>6. CASE \/ \E n \in Node, w \in Write : Put(n, w)
           \/ \E h \in handlers : AppendWrite(h) \/ Cancel(h)
           \/ \E g \in Group, n \in Node : ElectLeader(g, n)
           \/ UNCHANGED vars
  <2>1. UNCHANGED <<smap, wire, mig>>
    BY <1>6 DEF Put, AppendWrite, Cancel, ElectLeader, vars
  <2> QED  BY <1>1, <2>1
<1> QED
  BY <1>2, <1>3, <1>4, <1>5, <1>6, PublishedKeeps, ProposeBarrierKeeps, CheckpointKeeps,
     ProposeCopyKeeps, FlipKeeps, CleanupKeeps, WaitFailsKeeps DEF Next

\* When no call is under way the coordinator's map is open and everybody has
\* it or has been sent it.
LEMMA HandoffNeverStrands ==
    ASSUME NEW c \in Node, HandoffInv(c)
    PROVE  NeverStranded
<1> SUFFICES ASSUME mig.step = "idle", NEW n \in Node, smap[n].migrating
             PROVE  \E u \in wire : /\ u.to = n
                                    /\ u.map.epoch > smap[n].epoch
                                    /\ ~ u.map.migrating
  BY DEF NeverStranded
<1>1. ~ smap[c].migrating /\ smap[n] # smap[c]
  BY DEF HandoffInv, Open
<1>2. [to |-> n, map |-> smap[c]] \in wire /\ smap[n].epoch < smap[c].epoch
  BY <1>1 DEF HandoffInv, Told, Behind
<1>3. smap[n].epoch \in Nat /\ smap[c].epoch \in Nat
  BY DEF HandoffInv, Types, ShardMap
<1> QED  BY <1>1, <1>2, <1>3

(***************************************************************************)
(* A freeze is always undone: with one coordinating node, however many     *)
(* nodes, groups and calls there are and whichever pushes and proposals    *)
(* fail, a node that rejects writes after MigrateSlot has returned has     *)
(* been sent a newer map that lets them in.                                *)
(***************************************************************************)
THEOREM NoFreezeLeft ==
    ASSUME NEW CONSTANT c \in Node, Coordinator = {c}
    PROVE  Spec => []NeverStranded
<1>1. Init => HandoffInv(c)
  BY InitHandoff
<1>2. HandoffInv(c) /\ [Next]_vars => HandoffInv(c)'
  BY NextHandoff
<1>3. HandoffInv(c) => NeverStranded
  BY HandoffNeverStrands
<1> QED  BY <1>1, <1>2, <1>3, PTL DEF Spec
============================================================================
