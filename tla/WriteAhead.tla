----------------------------- MODULE WriteAhead -----------------------------
(***************************************************************************)
(* What a durable fence around an external effect promises: what is to be  *)
(* done for a key is recorded before it is done, the record is made once   *)
(* and never altered or withdrawn, and the effect happens at most once.    *)
(***************************************************************************)
EXTENDS Naturals

CONSTANTS Keys, Records

VARIABLES
    journal,    \* the record of each key: a set of one, or empty while there is none
    effects     \* how often the effect of each key has happened

Init ==
    /\ journal = [k \in Keys |-> {}]
    /\ effects = [k \in Keys |-> 0]

Record(k, r) ==
    /\ journal[k] = {}
    /\ journal' = [journal EXCEPT ![k] = {r}]
    /\ UNCHANGED effects

Act(k) ==
    /\ journal[k] # {} /\ effects[k] = 0
    /\ effects' = [effects EXCEPT ![k] = 1]
    /\ UNCHANGED journal

Next == \E k \in Keys : Act(k) \/ \E r \in Records : Record(k, r)

Spec == Init /\ [][Next]_<<journal, effects>>
=============================================================================
