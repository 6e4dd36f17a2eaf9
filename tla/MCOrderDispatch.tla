-------------------------- MODULE MCOrderDispatch --------------------------
(* Model-checking instances of OrderDispatch: one entry e0, at most one    *)
(* exit x1, calls a1 and a2 of the automation (two replicas share one      *)
(* owner) and a call h1 of an operator.                                    *)
EXTENDS OrderDispatch

CONSTANTS auto, human, a1, a2, h1, e0, x1

MCOwnerOf == [e \in Executors |-> IF e = h1 THEN human ELSE auto]

\* What the run of an entry and its exit leaves out: once the entry has ended
\* with part of its amount, every snapshot lists its order and has its fills,
\* and facts do not age.
PartialIsSeen ==
    venue[e0] \in {"PARTIAL", "CUT"} =>
        /\ snap' # None => snap'.history /\ e0 \in snap'.listed
        /\ facts.fresh => facts'.fresh
=============================================================================
