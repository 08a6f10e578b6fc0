---------------------------- MODULE AtomicUpdate ----------------------------
(***************************************************************************)
(* What update_client::start_file_update promises its caller, without the   *)
(* files: the client is told at most once how the update ended, "success"   *)
(* only over a fully updated installation, "reverted" only over the one     *)
(* there was before, and until it succeeded the originals can be recovered. *)
(***************************************************************************)

VARIABLES
    isOld,        \* every file of the old installation is in place
    isNew,        \* every file the manifest asks for is in place
    recoverable,  \* every original exists, in place or as a backup
    outcome       \* what the client was told

vars == <<isOld, isNew, recoverable, outcome>>

Init ==
    /\ isOld = TRUE
    /\ isNew \in BOOLEAN
    /\ recoverable = TRUE
    /\ outcome = "none"

\* Files move; nothing has been promised yet.
Work ==
    /\ outcome = "none"
    /\ isOld' \in BOOLEAN
    /\ isNew' \in BOOLEAN
    /\ UNCHANGED <<recoverable, outcome>>

\* The three ways to answer the client, none of which moves a file.
Succeed ==
    /\ outcome = "none"
    /\ isNew
    /\ outcome' = "success"
    /\ UNCHANGED <<isOld, isNew, recoverable>>

Undo ==
    /\ outcome = "none"
    /\ isOld
    /\ outcome' = "reverted"
    /\ UNCHANGED <<isOld, isNew, recoverable>>

GiveUp ==
    /\ outcome = "none"
    /\ outcome' = "revert_failed"
    /\ UNCHANGED <<isOld, isNew, recoverable>>

\* Only a successful update may forget the files it replaced.
Forget ==
    /\ outcome = "success"
    /\ recoverable' \in BOOLEAN
    /\ UNCHANGED <<isOld, isNew, outcome>>

Next == Work \/ Succeed \/ Undo \/ GiveUp \/ Forget

Spec == Init /\ [][Next]_vars
=============================================================================
