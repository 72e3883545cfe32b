----------------------------- MODULE MCUploadQueue -----------------------------
(* Small instances of UploadQueue.                                         *)
EXTENDS UploadQueue, TLC

CONSTANTS e1, e2, e3, v1, v2, a1, a2

(* Two events under one build, one under the next.                         *)
MCVersionOf == [e \in Events |-> IF e = e3 THEN v2 ELSE v1]

(* Events of the same build, owner and content are interchangeable.        *)
MCSymmetry == Permutations({e1, e2})

(* Everything is the first account's activity.                             *)
MCOwnerOf == [e \in Events |-> a1]
=============================================================================
