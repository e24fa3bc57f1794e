------------------------------ MODULE Delivery ------------------------------
(***************************************************************************)
(* What a user relies on while a file is retrieved: bytes of the remote     *)
(* file are stored where they belong, and no byte that is stored is lost    *)
(* again; success is reported once, of the whole file and of nothing but    *)
(* the file, and afterwards the file is not touched.                        *)
(***************************************************************************)
EXTENDS LocalFile

CONSTANT FileSize

VARIABLES
    file,               \* the local file
    outcome             \* what the user has been told

vars == <<file, outcome>>

Init == file = EmptyFile(FileSize) /\ outcome = "retrieving"

(* n bytes of the remote file arrive. *)
Store ==
    /\ outcome = "retrieving"
    /\ \E at \in 0 .. FileSize - 1 : \E n \in 1 .. FileSize - at :
          file' = Written(file, FileSize, at, at, n)
    /\ UNCHANGED outcome

Succeed ==
    /\ outcome = "retrieving" /\ IsIntact(file, FileSize)
    /\ outcome' = "success"
    /\ UNCHANGED file

(* The place where the next bytes belong is forgotten: nothing is promised any more, and no
   file is shown. *)
LoseTrack ==
    /\ outcome = "retrieving"
    /\ outcome' = "unknown" /\ file' = EmptyFile(FileSize)

Next == Store \/ Succeed \/ LoseTrack

Spec == Init /\ [][Next]_vars
=============================================================================
