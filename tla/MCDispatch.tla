----------------------------- MODULE MCDispatch -----------------------------
(* One entry.  "race": two replicas of the automation and an operator, who *)
(* lose the lease and crash, without the facts worker.  "facts": the two   *)
(* replicas under one lease, with snapshots read early and stored late and *)
(* an entry that fills wholly, at once or in two trades.                   *)
EXTENDS MCOrderDispatch

VARIABLE focus

MCInit == Init /\ focus \in {"race", "facts"}

MCNext ==
    /\ Next /\ UNCHANGED focus
    /\ IF focus = "race" THEN UNCHANGED snap /\ venue'[e0] # "SPLIT"
       ELSE /\ lease'.token <= 1 /\ (lease.live => lease'.live) /\ lease'.owner # human
            /\ version' = 0 /\ crashes' = 0 /\ venue'[e0] \notin {"PARTIAL", "CUT"}

MCSpec == MCInit /\ [][MCNext]_<<vars, focus>>
=============================================================================
