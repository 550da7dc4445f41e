----------------------------- MODULE MCEventStore -----------------------------
(***************************************************************************)
(* Instances of EventStore.                                                *)
(***************************************************************************)
EXTENDS EventStore, TLC

CONSTANTS d1, d2, n1, n2

OneDevice == {d1}
TwoDevices == {d1, d2}
OneDetection == {n1}
TwoDetections == {n1, n2}

\* Two devices of one login that detect something in the same millisecond.
OneEach == [n \in {n1, n2} |-> IF n = n1 THEN d1 ELSE d2]
SameKey == [n \in {n1, n2} |-> 1]

\* Exchanging both devices together with their detections changes nothing.
Exchange == {p \in Permutations({d1, d2, n1, n2}) :
                {p[d1], p[d2]} = {d1, d2} /\ (p[d1] = d1 <=> p[n1] = n1)}

\* A device that detects and one that only looks at the history.
LoneDetection == [n \in {n1} |-> d1]
LoneKey == [n \in {n1} |-> 1]
=============================================================================
