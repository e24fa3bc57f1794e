------------------------------ MODULE SocketIO ------------------------------
(***************************************************************************)
(* The loops of TcpSocket (libmtd/Socket.cpp) around select, recv and send:  *)
(* Recv and Send with a timeout, and Recv and Send of an exact number of     *)
(* bytes (__exact_read, __exact_write).                                      *)
(*                                                                         *)
(* Whether a socket blocks is an accident: setNonBlock does not use the      *)
(* result of F_GETFL, and passes the address of its variable to F_SETFL.     *)
(***************************************************************************)
EXTENDS Integers, Sequences

CONSTANTS
    MaxBytes,       \* bytes the peer sends, and bytes it can be sent
    MaxLen,         \* the longest buffer of a call
    Room            \* bytes the kernel takes before the peer has read some

ASSUME SocketAssumption == {MaxBytes, MaxLen, Room} \subseteq Nat \ {0}

VARIABLES
    nonBlock,       \* O_NONBLOCK
    sent, closed,   \* bytes sent by the peer; it has closed its side
    reset,          \* the connection is gone: recv and send fail
    taken,          \* bytes recv has returned
    written, drained, \* bytes send has taken, bytes the peer has read
    call,           \* the call that is running, or ended last
    nLen, nLeft,    \* its argument, and what is left of it
    pc,
    ret, errno,     \* what it returned, and the error behind -1
    offset,         \* written, when the call began
    told,           \* bytes the caller has been told of
    missed          \* bytes that were taken, and the caller was not told

conn == <<sent, closed, reset>>
vars == <<nonBlock, conn, taken, written, drained, call, nLen, nLeft, pc, ret, errno,
          offset, told, missed>>

-----------------------------------------------------------------------------
(* A call begins: size and nLen are not negative; with nothing to do it is over. *)
Begin(c) ==
    /\ pc = "idle"
    /\ \E n \in 1 .. MaxLen : nLen' = n /\ nLeft' = n
    /\ call' = c
    /\ pc' = IF c \in {"Recv", "Send"} THEN "select" ELSE "call"
    /\ offset' = written
    /\ UNCHANGED <<nonBlock, conn, taken, written, drained, ret, errno, told, missed>>

Return(r, e) ==
    /\ pc' = "idle" /\ ret' = r /\ errno' = e
    /\ told' = told + (IF call \in {"Recv", "exact_read"} /\ r > 0 THEN r ELSE 0)
    /\ missed' = missed + (IF call = "exact_read" /\ r = -1 THEN nLen - nLeft ELSE 0)

Going == UNCHANGED <<ret, errno, told, missed>>
Reading == call \in {"Recv", "exact_read"}

Available == sent - taken
Readable == Available > 0 \/ closed \/ reset
Writable == written - drained < Room \/ reset

\* As a mutant: select without its timeout.
SelectForEver ==
    /\ pc = "select"
    /\ (IF Reading THEN Readable ELSE Writable) /\ pc' = "call" /\ Going
    /\ UNCHANGED <<nonBlock, conn, taken, written, drained, call, nLen, nLeft, offset>>

(* select_fd with its own loop over EINTR. *)
Select ==
    /\ pc = "select"
    /\ \/ (IF Reading THEN Readable ELSE Writable) /\ pc' = "call" /\ Going
       \/ Return(-1, "ETIMEDOUT")
    /\ UNCHANGED <<nonBlock, conn, taken, written, drained, call, nLen, nLeft, offset>>

(* recv: bytes, as many as are there and fit; 0 at the end; -1.  EINTR begins the
   turn again.  On a socket that blocks it waits. *)
Interrupted ==
    /\ pc = "call"
    /\ pc' = IF call \in {"Recv", "Send"} THEN "select" ELSE "call"
    /\ Going
    /\ UNCHANGED <<nonBlock, conn, taken, written, drained, call, nLen, nLeft, offset>>

Got(n) == taken' = taken + n /\ UNCHANGED <<written, drained>>

Recv ==
    /\ pc = "call" /\ call = "Recv"
    /\ \/ \E n \in 1 .. nLen :
             n <= Available /\ ~reset /\ Got(n) /\ Return(n, "none")
       \/ Available = 0 /\ closed /\ ~reset /\ Got(0) /\ Return(0, "none")
       \/ reset /\ Got(0) /\ Return(-1, "ECONNRESET")
    /\ UNCHANGED <<nonBlock, conn, call, nLen, nLeft, offset>>

(* __exact_read: until the buffer is full or the stream ends; m_async is FALSE, so
   that EWOULDBLOCK is an error like any other, whatever has been read. *)
WouldBlock == nonBlock /\ Available = 0 /\ ~closed /\ ~reset

(* A turn of it; atEnd is returned at the end of the stream. *)
ReadTurn(atEnd) ==
    /\ pc = "call" /\ call = "exact_read"
    /\ \/ \E n \in 1 .. nLeft :
             /\ n <= Available /\ ~reset /\ Got(n)
             /\ nLeft' = nLeft - n
             /\ IF n = nLeft THEN Return(nLen, "none") ELSE Going /\ UNCHANGED pc
       \/ /\ Available = 0 /\ closed /\ ~reset /\ Got(0)
          /\ Return(atEnd, "none") /\ UNCHANGED nLeft
       \/ /\ reset \/ WouldBlock
          /\ Got(0) /\ Return(-1, IF reset THEN "ECONNRESET" ELSE "EWOULDBLOCK") /\ UNCHANGED nLeft
    /\ UNCHANGED <<nonBlock, conn, call, nLen, offset>>

\* As a mutant: the end of the stream counts as a full buffer.
exact_readAlwaysFull == ReadTurn(nLen)

exact_read == ReadTurn(nLen - nLeft)

(* send takes some of the bytes.  Send returns what the last turn took, or its
   error; __exact_write the length, or -1. *)
\* As a mutant: a turn of Send that took only some of the bytes ends it.
SendTurnEnds(n) == Return(nLen, "none")

SendTurn(n) == IF n = nLeft THEN Return(IF call = "Send" THEN n ELSE nLen, "none")
               ELSE Going /\ pc' = IF call = "Send" THEN "select" ELSE "call"

Took(n) == written' = written + n /\ nLeft' = nLeft - n /\ UNCHANGED <<taken, drained>>

Send ==
    /\ pc = "call" /\ call \in {"Send", "exact_write"}
    /\ \/ \E n \in 1 .. nLeft :
             n <= Room - (written - drained) /\ ~reset /\ Took(n) /\ SendTurn(n)
       \/ /\ reset \/ (nonBlock /\ ~Writable)
          /\ Took(0) /\ Return(-1, IF reset THEN "ECONNRESET" ELSE "EWOULDBLOCK")
    /\ UNCHANGED <<nonBlock, conn, call, nLen, offset>>

-----------------------------------------------------------------------------
(* The peer. *)
PeerSends ==
    /\ sent < MaxBytes /\ ~closed /\ ~reset /\ sent' = sent + 1
    /\ UNCHANGED <<nonBlock, closed, reset, taken, written, drained, call, nLen, nLeft, pc,
                   ret, errno, offset, told, missed>>

PeerReads ==
    /\ drained < written /\ drained' = written
    /\ UNCHANGED <<nonBlock, conn, taken, written, call, nLen, nLeft, pc, ret, errno,
                   offset, told, missed>>

PeerCloses ==
    /\ ~closed /\ closed' = TRUE
    /\ UNCHANGED <<nonBlock, sent, reset, taken, written, drained, call, nLen, nLeft, pc,
                   ret, errno, offset, told, missed>>

Reset ==
    /\ ~reset /\ reset' = TRUE
    /\ UNCHANGED <<nonBlock, sent, closed, taken, written, drained, call, nLen, nLeft, pc,
                   ret, errno, offset, told, missed>>

Init ==
    /\ nonBlock \in BOOLEAN
    /\ sent = 0 /\ closed = FALSE /\ reset = FALSE /\ taken = 0 /\ written = 0 /\ drained = 0
    /\ call = "none" /\ nLen = 0 /\ nLeft = 0 /\ pc = "idle" /\ ret = 0 /\ errno = "none"
    /\ offset = 0 /\ told = 0 /\ missed = 0

Caller ==
    \/ Begin("Recv") \/ Begin("exact_read")
    \/ written + MaxLen <= MaxBytes /\ (Begin("Send") \/ Begin("exact_write"))
Transfer == Recv \/ exact_read \/ Send
Turn == Select \/ Transfer

Next == Caller \/ Turn \/ Interrupted \/ PeerSends \/ PeerReads \/ PeerCloses \/ Reset

(* select returns, at the latest after its timeout; recv and send are not
   interrupted for ever. *)
Spec == Init /\ [][Next]_vars /\ WF_vars(Select) /\ SF_vars(Transfer)

-----------------------------------------------------------------------------
TypeOK ==
    /\ {nonBlock, closed, reset} \subseteq BOOLEAN
    /\ sent \in 0 .. MaxBytes /\ taken \in 0 .. sent
    /\ written \in 0 .. MaxBytes /\ drained \in 0 .. written /\ offset \in 0 .. written
    /\ call \in {"none", "Recv", "exact_read", "Send", "exact_write"}
    /\ nLen \in 0 .. MaxLen /\ nLeft \in 0 .. nLen
    /\ pc \in {"idle", "select", "call"} /\ ret \in -1 .. MaxLen
    /\ told \in Nat /\ missed \in Nat

(* What recv took is what the callers know of, except in a call of an exact number
   of bytes that runs or has failed: Recv never loses a byte, even when it is
   interrupted or times out. *)
NoByteUnaccounted ==
    /\ taken = told + missed + (IF pc # "idle" /\ call = "exact_read" THEN nLen - nLeft ELSE 0)
    /\ (missed > 0 => nonBlock \/ reset)

(* 0 is returned at the end of the stream only, when every byte of the peer has been
   taken: a timeout or an interruption is never taken for the end. *)
EndIsTheEnd == pc = "idle" /\ call \in {"Recv", "exact_read"} /\ ret = 0 => closed /\ taken = sent

(* A Send that reports no error has had all its bytes taken, each once. *)
SentOnce ==
    pc = "idle" /\ call \in {"Send", "exact_write"} /\ ret > 0 => written = offset + nLen

(* What every caller of Recv and Send may rely on. *)
SocketInv == TypeOK /\ NoByteUnaccounted /\ EndIsTheEnd /\ SentOnce

(* Recv with a timeout returns, whatever the peer does; so does Send. *)
TimedCallsReturn == pc = "select" ~> pc = "idle"

(* The stream a caller sees. *)
Stream == INSTANCE ByteStream WITH
    position <- told + missed, torn <- missed > 0

ImplementsByteStream == Stream!Spec
=============================================================================
