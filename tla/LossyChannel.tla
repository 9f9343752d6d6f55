---------------------------- MODULE LossyChannel ----------------------------
(***************************************************************************)
(* What a sink of the upload-proxy promises to the connections that upload *)
(* through it: the uploads of a connection are numbered as they are made,  *)
(* any of them may be lost, and those that arrive do so once and in order. *)
(* Queues, workers, attempts, deadlines and reloads are not part of the    *)
(* promise.  UploadSink implements this specification.                     *)
(***************************************************************************)
EXTENDS Naturals

CONSTANT Producers

VARIABLES
    accepted,     \* the last upload the channel took, by producer
    transit,      \* the uploads under way, by producer
    delivered     \* the last upload that arrived, by producer

vars == <<accepted, transit, delivered>>

Init ==
    /\ accepted = [p \in Producers |-> 0]
    /\ transit = [p \in Producers |-> {}]
    /\ delivered = [p \in Producers |-> 0]

Accept(p) ==
    /\ accepted' = [accepted EXCEPT ![p] = @ + 1]
    /\ transit' = [transit EXCEPT ![p] = @ \cup {accepted[p] + 1}]
    /\ UNCHANGED delivered

Lose(p, n) ==
    /\ n \in transit[p]
    /\ transit' = [transit EXCEPT ![p] = @ \ {n}]
    /\ UNCHANGED <<accepted, delivered>>

\* The oldest upload under way arrives.
Deliver(p, n) ==
    /\ n \in transit[p]
    /\ \A m \in transit[p] : n <= m
    /\ transit' = [transit EXCEPT ![p] = @ \ {n}]
    /\ delivered' = [delivered EXCEPT ![p] = n]
    /\ UNCHANGED accepted

Next ==
    \E p \in Producers :
        \/ Accept(p)
        \/ \E n \in transit[p] : Lose(p, n) \/ Deliver(p, n)

Spec == Init /\ [][Next]_vars
=============================================================================
