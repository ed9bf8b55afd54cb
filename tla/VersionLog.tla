----------------------------- MODULE VersionLog -----------------------------
(***************************************************************************)
(* What generation promises to the people who read an artifact's history:  *)
(* it is a log that only grows, one entry at a time; a human may add an    *)
(* entry at any time, a job adds at most one entry in its life, and none   *)
(* once it is over.  Queues, claims, retries, crashes and redeliveries do  *)
(* not appear: Generation implements this specification.                   *)
(***************************************************************************)
EXTENDS Naturals, Sequences

CONSTANTS Artifact, Job, Human

VARIABLES log,  \* the author of each version of an artifact, in order
          over  \* the jobs that will never write again

Init ==
    /\ log = [a \in Artifact |-> <<>>]
    /\ over = {}

Write(a, author) == log' = [log EXCEPT ![a] = Append(@, author)]

(* A job delivers its version and is over in the same step. *)
Deliver(a, j) ==
    /\ j \notin over
    /\ Write(a, j)
    /\ over' = over \cup {j}

(* A job fails or is given up without a version. *)
GiveUp(j) ==
    /\ over' = over \cup {j}
    /\ UNCHANGED log

Edit(a) ==
    /\ Write(a, Human)
    /\ UNCHANGED over

Next ==
    \/ \E a \in Artifact, j \in Job : Deliver(a, j)
    \/ \E j \in Job : GiveUp(j)
    \/ \E a \in Artifact : Edit(a)

Spec == Init /\ [][Next]_<<log, over>>
=============================================================================
