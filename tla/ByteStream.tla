----------------------------- MODULE ByteStream -----------------------------
(***************************************************************************)
(* What a caller of TcpSocket relies on: the bytes of the peer arrive in     *)
(* order, a call tells how many it has delivered, 0 stands for the end of    *)
(* the stream and for nothing else, and after an error bytes may be missing. *)
(***************************************************************************)
EXTENDS Integers

CONSTANT MaxBytes       \* bytes the peer may send

VARIABLES
    sent,               \* bytes sent by the peer
    closed,             \* the peer has closed its side
    position,           \* bytes that have left the stream
    torn                \* some of them were never delivered

vars == <<sent, closed, position, torn>>

Init == sent = 0 /\ closed = FALSE /\ position = 0 /\ torn = FALSE

PeerSends ==
    /\ ~closed /\ sent < MaxBytes
    /\ sent' = sent + 1
    /\ UNCHANGED <<closed, position, torn>>

PeerCloses == ~closed /\ closed' = TRUE /\ UNCHANGED <<sent, position, torn>>

(* A call returns n > 0. *)
Deliver == /\ \E n \in 1 .. sent - position : position' = position + n
           /\ UNCHANGED <<sent, closed, torn>>

(* A call returns -1. *)
Fail == /\ \E n \in 1 .. sent - position : position' = position + n
        /\ torn' = TRUE
        /\ UNCHANGED <<sent, closed>>

(* A call that returns 0 changes nothing; but it says that the stream has ended. *)
Next == PeerSends \/ PeerCloses \/ Deliver \/ Fail

Spec == Init /\ [][Next]_vars
=============================================================================
