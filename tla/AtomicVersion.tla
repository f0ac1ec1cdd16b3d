--------------------------- MODULE AtomicVersion ---------------------------
(***************************************************************************)
(* What a manifest promises: one version, replaced in one step by the      *)
(* version that is being put in its place, or not at all.                  *)
(***************************************************************************)
CONSTANT FileNum

VARIABLES
    version,          \* the tables a recovery finds
    attempt           \* the version being put in its place: none or one

Init == version = {} /\ attempt = {}

Begin == attempt = {} /\ attempt' \in {{v} : v \in SUBSET FileNum} /\ UNCHANGED version

Land == version' \in attempt /\ attempt' = {}

GiveUp == attempt # {} /\ attempt' = {} /\ UNCHANGED version

Next == Begin \/ Land \/ GiveUp

Spec == Init /\ [][Next]_<<version, attempt>>
============================================================================
