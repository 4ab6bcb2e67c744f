--------------------------- MODULE UploadAbstract ---------------------------
(***************************************************************************)
(* What one run of s3_upload.py promises, seen from outside: it copies the *)
(* file to the bucket under the target key in one atomic step or not at    *)
(* all, and it ends, reporting success only after the copy is there.       *)
(* Failure says nothing about the bucket: the copy may have happened (the  *)
(* answer was lost) or not.                                                *)
(***************************************************************************)
EXTENDS Sequences, TLC

CONSTANTS
    Keys,       \* object keys
    Contents,   \* contents the file can have
    NoKey       \* the target when the arguments name no key

VARIABLES
    file,       \* the file being uploaded; not changed during the run
    target,     \* the key the run writes to, or NoKey
    store,      \* the bucket: the objects it holds, by key
    outcome     \* "running", then "succeeded" or "failed"

vars == <<file, target, store, outcome>>

Init ==
    /\ file \in Contents
    /\ target \in Keys \cup {NoKey}
    /\ store = <<>>
    /\ outcome = "running"

(* The object appears, whole, under the target key.                        *)
Put ==
    /\ outcome = "running"
    /\ target \in Keys
    /\ store' = (target :> file) @@ store
    /\ UNCHANGED <<file, target, outcome>>

(* Success is reported once the bucket holds the file under the key.       *)
Succeed ==
    /\ outcome = "running"
    /\ target \in DOMAIN store
    /\ store[target] = file
    /\ outcome' = "succeeded"
    /\ UNCHANGED <<file, target, store>>

Fail ==
    /\ outcome = "running"
    /\ outcome' = "failed"
    /\ UNCHANGED <<file, target, store>>

Next == Put \/ Succeed \/ Fail

Spec == Init /\ [][Next]_vars /\ WF_vars(Succeed \/ Fail)

=============================================================================
