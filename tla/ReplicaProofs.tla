--------------------------- MODULE ReplicaProofs ---------------------------
(***************************************************************************)
(* A group that runs is in the node's table or in the hands of the one     *)
(* call that opened it, for all constants; so none outlives its node.      *)
(***************************************************************************)
EXTENDS Replica, TLAPS

\* Time for the solver on a busy machine, and a second attempt.
USE SMTT(300), Z3T(300)

(***************************************************************************)
(* The registry.  A running group is hosted, or reopened and about to be   *)
(* registered; a hosted group belongs to a node that is up, and nobody who *)
(* holds addMu is at work on it; a process that has ended holds no lock.   *)
(***************************************************************************)
RegistryInv ==
    /\ loop # "off" => hosted \/ op = "reopened"
    /\ hosted => node = "up" /\ op = "none"
    /\ node = "down" => op = "none"

\* Steps of the loop and of the engine: the registry does not change.
LEMMA LoopKeeps ==
    ASSUME RegistryInv, loop # "off", UNCHANGED <<op, hosted, node>>
    PROVE  RegistryInv'
  BY DEF RegistryInv

\* A process that ends, by a crash or a panic.
LEMMA EndKeeps ==
    ASSUME processEnds
    PROVE  RegistryInv'
  BY DEF RegistryInv, processEnds

LEMMA NextRegistry ==
    ASSUME RegistryInv, [Next]_vars
    PROVE  RegistryInv'
<1>1. CASE \/ \E t \in 1 .. MaxTerm, new \in AtMostOne, c \in 0 .. MaxIndex : Follow(t, new, c)
           \/ Lead \/ Tick
           \/ \E c \in 1 .. MaxIndex : LeadCommit(c)
           \/ \E request \in Request : Propose(request)
  <2>1. PICK r : select(r)
    BY <1>1, ZenonT(300) DEF Follow, Lead, Tick, LeadCommit, Propose
  <2> QED  BY <2>1, LoopKeeps DEF select
<1>2. CASE Sync \/ ApplyEntry \/ IterationEnds \/ Flush \/ Checkpoint \/ Compact
  <2>1. loop # "off" /\ UNCHANGED <<op, hosted, node>>
    BY <1>2 DEF Sync, ApplyEntry, IterationEnds, Flush, Checkpoint, Compact, life
  <2> QED  BY <2>1, LoopKeeps
<1>3. CASE CheckpointFails \/ Crash
  BY <1>3, EndKeeps DEF CheckpointFails, Crash
<1>4. CASE \E t \in 1 .. MaxTerm, i \in 1 .. MaxIndex, new \in AtMostOne :
              InstallSnapshot([term |-> t, index |-> i], new)
  <2>1. loop' = "off" /\ hosted' = FALSE /\ node' = "up"
    BY <1>4 DEF InstallSnapshot, closeGroup
  <2> QED  BY <2>1 DEF RegistryInv
<1>5. CASE ParkOld \/ SwapIn \/ RewriteFile \/ InstallFails \/ AddGroup
  <2>1. /\ op # "reopened" /\ op' # "reopened" /\ UNCHANGED <<loop, hosted, node>>
        /\ op # "none" \/ (~ hosted /\ node = "up")
    BY <1>5 DEF ParkOld, SwapIn, RewriteFile, InstallFails, AddGroup
  <2> QED  BY <2>1 DEF RegistryInv
<1>6. CASE Reopen
  <2>1. op = "rewritten" /\ UNCHANGED hosted
    BY <1>6 DEF Reopen
  <2>2. CASE op' = "reopened" /\ UNCHANGED node
    BY <2>1, <2>2 DEF RegistryInv
  <2>3. CASE node' = "stuck" /\ loop' = "off"
    BY <2>1, <2>3 DEF RegistryInv
  <2> QED  BY <1>6, <2>2, <2>3 DEF Reopen, cannotOpen
<1>7. CASE Register
  <2>1. op = "reopened" /\ op' = "none" /\ UNCHANGED node
    BY <1>7 DEF Register
  <2>2. CASE node = "up" /\ hosted' = TRUE
    BY <2>1, <2>2 DEF RegistryInv
  <2>3. CASE loop' = "off" /\ UNCHANGED hosted
    BY <2>1, <2>3 DEF RegistryInv
  <2> QED  BY <1>7, <2>2, <2>3, ZenonT(300) DEF Register, closeGroup
<1>8. CASE Close
  <2>1. node' = "closed" /\ hosted' = FALSE /\ UNCHANGED op
    BY <1>8 DEF Close
  <2>2. CASE loop' = "off"
    BY <2>1, <2>2 DEF RegistryInv
  <2>3. CASE ~ hosted /\ UNCHANGED loop
    BY <2>1, <2>3 DEF RegistryInv
  <2> QED  BY <1>8, <2>2, <2>3 DEF Close, closeGroup
<1>9. CASE Open
  <2>1. op = "none" /\ op' = op
    BY <1>9 DEF Open, RegistryInv
  <2>2. CASE node' = "up" /\ hosted' = TRUE
    BY <2>1, <2>2 DEF RegistryInv
  <2>3. CASE node' = "stuck" /\ loop' = "off" /\ UNCHANGED hosted
    <3>1. ~ hosted
      BY <1>9 DEF Open, RegistryInv
    <3> QED  BY <2>1, <2>3, <3>1 DEF RegistryInv
  <2> QED  BY <1>9, <2>2, <2>3, ZenonT(300) DEF Open, cannotOpen
<1>10. CASE UNCHANGED vars
  BY <1>10 DEF RegistryInv, vars, life
<1> QED
  BY <1>1, <1>2, <1>3, <1>4, <1>5, <1>6, <1>7, <1>8, <1>9, <1>10 DEF Next

(***************************************************************************)
(* A group never outlives its node: Close may come at any moment of a      *)
(* snapshot's installation or of AddGroup, and when both are over the      *)
(* group's loop has stopped and its engine is closed.                      *)
(***************************************************************************)
THEOREM NoGroupOutlivesNode == Spec => []NoGroupLeaks
<1>1. Init => RegistryInv
  BY DEF Init, RegistryInv
<1>2. RegistryInv /\ [Next]_vars => RegistryInv'
  BY NextRegistry
<1>3. RegistryInv => NoGroupLeaks
  BY DEF RegistryInv, NoGroupLeaks
<1> QED  BY <1>1, <1>2, <1>3, PTL DEF Spec
============================================================================
