------------------------------- MODULE Fence -------------------------------
(***************************************************************************)
(* What a fenced lease promises: epochs are granted one at a time, each to *)
(* a single holder, and an epoch that has lapsed is never granted again.   *)
(***************************************************************************)
EXTENDS Naturals

CONSTANTS Holders, NoHolder

VARIABLES
    epoch,      \* the last epoch granted
    holder      \* who holds it, NoHolder once it has lapsed

Init ==
    /\ epoch = 0
    /\ holder = NoHolder

\* A new epoch goes to one holder, only while nobody holds the previous one.
Grant(h) ==
    /\ holder = NoHolder
    /\ epoch' = epoch + 1
    /\ holder' = h

Lapse ==
    /\ holder # NoHolder
    /\ holder' = NoHolder
    /\ UNCHANGED epoch

Next == Lapse \/ \E h \in Holders : Grant(h)

Spec == Init /\ [][Next]_<<epoch, holder>>
=============================================================================
