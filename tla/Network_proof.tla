---------------------------- MODULE Network_proof ----------------------------
(***************************************************************************)
(* Proofs about the parts of MCNetwork, for every value of its constants:    *)
(* the loops of TcpSocket account for every byte and implement the stream     *)
(* their callers rely on; every socket object of the event server is in one   *)
(* place; a handshake with a proxy is never believed to have succeeded when   *)
(* it has not.                                                              *)
(***************************************************************************)
EXTENDS MCNetwork, FiniteSetTheorems, SequenceTheorems, TLAPS

-----------------------------------------------------------------------------
(* The loops around select, recv and send. *)

\* What a call that runs has still to do, and where it is.
CallRuns ==
    /\ pc = "select" => call \in {"Recv", "Send"}
    /\ pc = "call" => call \in {"Recv", "exact_read", "Send", "exact_write"}
    /\ pc # "idle" => nLeft \in 1 .. nLen

\* A call that sends has the kernel take its bytes in order, and there is room for them.
SendsInOrder ==
    pc # "idle" /\ call \in {"Send", "exact_write"} =>
        written = offset + (nLen - nLeft) /\ offset + nLen <= MaxBytes

IInv == TypeOK /\ CallRuns /\ SendsInOrder /\ NoByteUnaccounted /\ EndIsTheEnd /\ SentOnce

-----------------------------------------------------------------------------
(***************************************************************************)
(* A call begins with nothing done.                                         *)
(***************************************************************************)
LEMMA BeginKeeps ==
  ASSUME IInv, NEW c \in {"Recv", "exact_read", "Send", "exact_write"}, Begin(c),
         c \in {"Send", "exact_write"} => written + MaxLen <= MaxBytes
  PROVE  IInv'
<1>1. TypeOK'
  BY SocketAssumption DEF Begin, IInv, TypeOK, conn
<1>2. CallRuns'
  BY DEF Begin, CallRuns
<1>3. SendsInOrder'
  BY SocketAssumption DEF Begin, SendsInOrder, IInv, TypeOK
<1>4. NoByteUnaccounted'
  BY DEF Begin, NoByteUnaccounted, IInv, TypeOK, conn
<1>5. EndIsTheEnd' /\ SentOnce'
  BY DEF Begin, EndIsTheEnd, SentOnce
<1> QED
  BY <1>1, <1>2, <1>3, <1>4, <1>5 DEF IInv

(***************************************************************************)
(* select and an interrupted recv or send take nothing.                     *)
(***************************************************************************)
LEMMA SelectKeeps == IInv /\ Select => IInv'
<1> SUFFICES ASSUME IInv, Select PROVE IInv'
  OBVIOUS
<1>1. call \in {"Recv", "Send"} /\ pc = "select"
  BY DEF Select, IInv, CallRuns
<1>2. told' = told /\ missed' = missed
  BY <1>1 DEF Select, Return, Going, IInv, TypeOK
<1>3. \/ pc' = "call" /\ ret' = ret
      \/ pc' = "idle" /\ ret' = -1
  BY DEF Select, Return, Going
<1>4. UNCHANGED <<nonBlock, sent, closed, reset, taken, written, drained, call, nLen, nLeft, offset>>
  BY DEF Select, conn
<1> HIDE DEF Select
<1>5. TypeOK'
  BY <1>2, <1>3, <1>4, SocketAssumption DEF IInv, TypeOK
<1>6. CallRuns' /\ SendsInOrder'
  BY <1>1, <1>3, <1>4 DEF IInv, CallRuns, SendsInOrder
<1>7. NoByteUnaccounted'
  BY <1>1, <1>2, <1>4 DEF IInv, NoByteUnaccounted
<1>8. EndIsTheEnd' /\ SentOnce'
  BY <1>3 DEF EndIsTheEnd, SentOnce
<1> QED
  BY <1>5, <1>6, <1>7, <1>8 DEF IInv

(* A signal that interrupts a system call keeps the invariant of the socket. *)
LEMMA InterruptedKeeps == IInv /\ Interrupted => IInv'
<1> SUFFICES ASSUME IInv, Interrupted PROVE IInv'
  OBVIOUS
<1>1. pc = "call" /\ pc' \in {"select", "call"} /\ (pc' = "select" => call \in {"Recv", "Send"})
  BY DEF Interrupted
<1>2. UNCHANGED <<nonBlock, sent, closed, reset, taken, written, drained, call, nLen, nLeft, offset,
                  ret, errno, told, missed>>
  BY DEF Interrupted, Going, conn
<1>3. TypeOK'
  BY <1>1, <1>2 DEF IInv, TypeOK
<1>4. CallRuns' /\ SendsInOrder'
  BY <1>1, <1>2 DEF IInv, CallRuns, SendsInOrder
<1>5. NoByteUnaccounted'
  BY <1>1, <1>2 DEF IInv, NoByteUnaccounted
<1>6. EndIsTheEnd' /\ SentOnce'
  BY <1>1 DEF EndIsTheEnd, SentOnce
<1> QED
  BY <1>3, <1>4, <1>5, <1>6 DEF IInv

(***************************************************************************)
(* recv of a call with a timeout ends it: with bytes, at the end, or with an *)
(* error.                                                                   *)
(***************************************************************************)
LEMMA RecvKeeps == IInv /\ Recv => IInv'
<1> SUFFICES ASSUME IInv, Recv PROVE IInv'
  OBVIOUS
<1>1. pc = "call" /\ call = "Recv" /\ pc' = "idle"
  BY DEF Recv, Return
<1>2. UNCHANGED <<nonBlock, sent, closed, reset, written, drained, call, nLen, nLeft, offset, missed>>
  BY <1>1 DEF Recv, Return, Got, conn, IInv, TypeOK
<1>3. \/ ret' \in 1 .. nLen /\ taken' = taken + ret' /\ told' = told + ret' /\ taken' <= sent
      \/ ret' = 0 /\ taken' = taken /\ told' = told /\ closed /\ taken = sent
      \/ ret' = -1 /\ taken' = taken /\ told' = told
  <2>1. ASSUME NEW n \in 1 .. nLen, n <= Available, Got(n), Return(n, "none")
        PROVE  ret' \in 1 .. nLen /\ taken' = taken + ret' /\ told' = told + ret' /\ taken' <= sent
    BY <1>1, <2>1 DEF Got, Return, Available, IInv, TypeOK
  <2>2. ASSUME Available = 0, closed, Got(0), Return(0, "none")
        PROVE  ret' = 0 /\ taken' = taken /\ told' = told /\ closed /\ taken = sent
    BY <1>1, <2>2 DEF Got, Return, Available, IInv, TypeOK
  <2>3. ASSUME Got(0), Return(-1, "ECONNRESET")
        PROVE  ret' = -1 /\ taken' = taken /\ told' = told
    BY <1>1, <2>3 DEF Got, Return, IInv, TypeOK
  <2> QED
    BY <2>1, <2>2, <2>3 DEF Recv
<1> HIDE DEF Recv
<1>4. TypeOK'
  BY <1>1, <1>2, <1>3, SocketAssumption DEF IInv, TypeOK
<1>5. CallRuns' /\ SendsInOrder'
  BY <1>1 DEF CallRuns, SendsInOrder
<1>6. NoByteUnaccounted'
  BY <1>1, <1>2, <1>3 DEF IInv, TypeOK, NoByteUnaccounted
<1>7. EndIsTheEnd'
  BY <1>1, <1>2, <1>3 DEF IInv, TypeOK, EndIsTheEnd
<1>8. SentOnce'
  BY <1>1, <1>2 DEF SentOnce
<1> QED
  BY <1>4, <1>5, <1>6, <1>7, <1>8 DEF IInv

(***************************************************************************)
(* A turn of __exact_read goes on, ends the call with all bytes, at the end  *)
(* with some, or with an error that forgets what the turns before have read. *)
(***************************************************************************)
ReadTurnGoesOn ==
    /\ \E n \in 1 .. nLeft - 1 : nLeft' = nLeft - n /\ taken' = taken + n /\ n <= sent - taken
    /\ UNCHANGED <<pc, ret, told, missed>>
ReadTurnFills ==
    /\ nLeft' = 0 /\ taken' = taken + nLeft /\ nLeft <= sent - taken
    /\ pc' = "idle" /\ ret' = nLen /\ told' = told + nLen /\ missed' = missed
ReadTurnEnds ==
    /\ closed /\ taken = sent /\ nLeft' = nLeft /\ taken' = taken
    /\ pc' = "idle" /\ ret' = nLen - nLeft /\ told' = told + (nLen - nLeft) /\ missed' = missed
ReadTurnFails ==
    /\ nonBlock \/ reset
    /\ nLeft' = nLeft /\ taken' = taken
    /\ pc' = "idle" /\ ret' = -1 /\ told' = told /\ missed' = missed + (nLen - nLeft)

(* A turn of the loop of exact_read is one of four: it goes on, has all the bytes *)
(* asked for, meets the end, or fails. *)
LEMMA ReadTurns ==
  ASSUME IInv, exact_read
  PROVE  /\ pc = "call" /\ call = "exact_read"
         /\ UNCHANGED <<nonBlock, sent, closed, reset, written, drained, call, nLen, offset>>
         /\ ReadTurnGoesOn \/ ReadTurnFills \/ ReadTurnEnds \/ ReadTurnFails
<1>1. pc = "call" /\ call = "exact_read"
  BY DEF exact_read, ReadTurn
<1>2. UNCHANGED <<nonBlock, sent, closed, reset, written, drained, call, nLen, offset>>
  BY DEF exact_read, ReadTurn, Got, conn
<1>3. ASSUME NEW n \in 1 .. nLeft, n <= Available, Got(n), nLeft' = nLeft - n,
             IF n = nLeft THEN Return(nLen, "none") ELSE Going /\ UNCHANGED pc
      PROVE  ReadTurnGoesOn \/ ReadTurnFills
  <2>1. CASE n = nLeft
    BY <1>1, <1>3, <2>1 DEF Return, Got, Available, ReadTurnFills, IInv, TypeOK, CallRuns
  <2>2. CASE n # nLeft
    BY <1>1, <1>3, <2>2 DEF Going, Got, Available, ReadTurnGoesOn, IInv, TypeOK, CallRuns
  <2> QED
    BY <2>1, <2>2
<1>4. ASSUME Available = 0, closed, Got(0), Return(nLen - nLeft, "none"), nLeft' = nLeft
      PROVE  ReadTurnEnds
  BY <1>1, <1>4 DEF Return, Got, Available, ReadTurnEnds, IInv, TypeOK
<1>5. ASSUME reset \/ WouldBlock, Got(0), NEW e, Return(-1, e), nLeft' = nLeft
      PROVE  ReadTurnFails
  BY <1>1, <1>5 DEF Return, Got, WouldBlock, ReadTurnFails, IInv, TypeOK
<1> QED
  BY <1>1, <1>2, <1>3, <1>4, <1>5 DEF exact_read, ReadTurn

(* exact_read keeps the invariant of the socket. *)
LEMMA ExactReadKeeps == IInv /\ exact_read => IInv'
<1> SUFFICES ASSUME IInv, exact_read PROVE IInv'
  OBVIOUS
<1>1. pc = "call" /\ call = "exact_read"
  BY ReadTurns
<1>2. UNCHANGED <<nonBlock, sent, closed, reset, written, drained, call, nLen, offset>>
  BY ReadTurns
<1>3. ReadTurnGoesOn \/ ReadTurnFills \/ ReadTurnEnds \/ ReadTurnFails
  BY ReadTurns
<1>4. TypeOK /\ nLeft \in 1 .. nLen /\ NoByteUnaccounted
  BY <1>1 DEF IInv, CallRuns
<1>5. taken = told + missed + (nLen - nLeft)
  BY <1>1, <1>4 DEF NoByteUnaccounted
<1>6. TypeOK'
  BY <1>1, <1>2, <1>3, <1>4, SocketAssumption
  DEF TypeOK, ReadTurnGoesOn, ReadTurnFills, ReadTurnEnds, ReadTurnFails
<1>7. CallRuns'
  BY <1>1, <1>2, <1>3, <1>4
  DEF TypeOK, CallRuns, ReadTurnGoesOn, ReadTurnFills, ReadTurnEnds, ReadTurnFails
<1>8. SendsInOrder' /\ SentOnce'
  BY <1>1, <1>2 DEF SendsInOrder, SentOnce
<1>9. NoByteUnaccounted'
  <2>1. CASE ReadTurnGoesOn
    BY <1>1, <1>2, <1>4, <1>5, <2>1 DEF ReadTurnGoesOn, NoByteUnaccounted, TypeOK
  <2>2. CASE ReadTurnFills
    BY <1>1, <1>2, <1>4, <1>5, <2>2 DEF ReadTurnFills, NoByteUnaccounted, TypeOK
  <2>3. CASE ReadTurnEnds
    BY <1>1, <1>2, <1>4, <1>5, <2>3 DEF ReadTurnEnds, NoByteUnaccounted, TypeOK
  <2>4. CASE ReadTurnFails
    BY <1>1, <1>2, <1>4, <1>5, <2>4 DEF ReadTurnFails, NoByteUnaccounted, TypeOK
  <2> QED
    BY <1>3, <2>1, <2>2, <2>3, <2>4
<1>10. EndIsTheEnd'
  BY <1>1, <1>2, <1>3, <1>4
  DEF EndIsTheEnd, TypeOK, ReadTurnGoesOn, ReadTurnFills, ReadTurnEnds, ReadTurnFails
<1> QED
  BY <1>6, <1>7, <1>8, <1>9, <1>10 DEF IInv

(***************************************************************************)
(* A turn of Send or __exact_write goes on, ends the call, or fails.         *)
(***************************************************************************)
LEMMA SendKeeps == IInv /\ Send => IInv'
<1> SUFFICES ASSUME IInv, Send PROVE IInv'
  OBVIOUS
<1>1. pc = "call" /\ call \in {"Send", "exact_write"}
  BY DEF Send
<1>2. UNCHANGED <<nonBlock, sent, closed, reset, taken, drained, call, nLen, offset>>
  BY DEF Send, Took, conn
<1>3. TypeOK /\ nLeft \in 1 .. nLen /\ written = offset + (nLen - nLeft) /\ offset + nLen <= MaxBytes
  BY <1>1 DEF IInv, CallRuns, SendsInOrder
<1>4. told' = told /\ missed' = missed
  BY <1>1, <1>3 DEF Send, SendTurn, Return, Going, TypeOK
<1>5. \E n \in 0 .. nLeft :
         /\ nLeft' = nLeft - n /\ written' = written + n
         /\ \/ pc' = "idle" /\ ret' = -1
            \/ pc' = "idle" /\ n = nLeft /\ ret' \in 1 .. nLen
            \/ n # nLeft /\ pc' \in {"select", "call"} /\ (pc' = "select" => call = "Send") /\ ret' = ret
  <2>1. ASSUME NEW n \in 1 .. nLeft, Took(n), SendTurn(n)
        PROVE  /\ nLeft' = nLeft - n /\ written' = written + n
               /\ \/ pc' = "idle" /\ n = nLeft /\ ret' \in 1 .. nLen
                  \/ n # nLeft /\ pc' \in {"select", "call"} /\ (pc' = "select" => call = "Send") /\ ret' = ret
    BY <1>1, <1>3, <2>1 DEF Took, SendTurn, Return, Going, TypeOK
  <2>2. ASSUME Took(0), NEW e, Return(-1, e)
        PROVE  nLeft' = nLeft - 0 /\ written' = written + 0 /\ pc' = "idle" /\ ret' = -1
    BY <2>2 DEF Took, Return
  <2> QED
    BY <1>3, <2>1, <2>2 DEF Send, TypeOK
<1> HIDE DEF Send
<1>6. PICK n \in 0 .. nLeft :
         /\ nLeft' = nLeft - n /\ written' = written + n
         /\ \/ pc' = "idle" /\ ret' = -1
            \/ pc' = "idle" /\ n = nLeft /\ ret' \in 1 .. nLen
            \/ n # nLeft /\ pc' \in {"select", "call"} /\ (pc' = "select" => call = "Send") /\ ret' = ret
  BY <1>5
<1>7. TypeOK'
  BY <1>1, <1>2, <1>3, <1>4, <1>6, SocketAssumption DEF TypeOK
<1>8. CallRuns'
  BY <1>1, <1>2, <1>3, <1>6 DEF CallRuns, TypeOK
<1>9. SendsInOrder'
  BY <1>2, <1>3, <1>6, SocketAssumption DEF SendsInOrder, TypeOK
<1>10. NoByteUnaccounted'
  BY <1>1, <1>2, <1>4 DEF IInv, NoByteUnaccounted
<1>11. EndIsTheEnd'
  BY <1>1, <1>2 DEF EndIsTheEnd
<1>12. SentOnce'
  BY <1>1, <1>2, <1>3, <1>6 DEF SentOnce, TypeOK
<1> QED
  BY <1>7, <1>8, <1>9, <1>10, <1>11, <1>12 DEF IInv

(***************************************************************************)
(* The peer does nothing to a call.                                         *)
(***************************************************************************)
LEMMA PeerKeeps ==
  IInv /\ (PeerSends \/ PeerReads \/ PeerCloses \/ Reset) => IInv'
<1> SUFFICES ASSUME IInv, PeerSends \/ PeerReads \/ PeerCloses \/ Reset PROVE IInv'
  OBVIOUS
<1>1. TypeOK /\ UNCHANGED <<nonBlock, taken, written, call, nLen, nLeft, pc, ret, offset, told, missed>>
  BY DEF PeerSends, PeerReads, PeerCloses, Reset, conn, IInv
<1>m. MaxBytes \in Nat /\ MaxLen \in Nat
  BY SocketAssumption
<1>s. sent \in Nat /\ sent' \in 0 .. MaxBytes /\ (sent' = sent \/ sent' = sent + 1)
  BY <1>1, <1>m DEF PeerSends, PeerReads, PeerCloses, Reset, conn, TypeOK
<1>d. drained' \in 0 .. written
  BY <1>1, <1>m DEF PeerSends, PeerReads, PeerCloses, Reset, conn, TypeOK
<1>b. {nonBlock', closed', reset'} \subseteq BOOLEAN
  <2>1. nonBlock \in BOOLEAN /\ closed \in BOOLEAN /\ reset \in BOOLEAN
    BY <1>1 DEF TypeOK
  <2>2. nonBlock' = nonBlock /\ closed' \in {closed, TRUE} /\ reset' \in {reset, TRUE}
    BY DEF PeerSends, PeerReads, PeerCloses, Reset, conn
  <2> QED
    BY <2>1, <2>2
<1>2. TypeOK'
  BY <1>1, <1>m, <1>s, <1>d, <1>b DEF TypeOK
<1>3. CallRuns' /\ SendsInOrder' /\ SentOnce'
  BY <1>1 DEF IInv, CallRuns, SendsInOrder, SentOnce
<1>4. reset => reset'
  BY DEF PeerSends, PeerReads, PeerCloses, Reset, conn
<1>5. NoByteUnaccounted'
  BY <1>1, <1>4 DEF IInv, NoByteUnaccounted
<1>6. closed => closed' /\ sent' = sent
  BY DEF PeerSends, PeerReads, PeerCloses, Reset, conn
<1>7. EndIsTheEnd'
  BY <1>1, <1>6 DEF IInv, EndIsTheEnd
<1> QED
  BY <1>2, <1>3, <1>5, <1>7 DEF IInv

-----------------------------------------------------------------------------
(* A socket just opened satisfies the invariant. *)
LEMMA InitEstablishesIInv == Init => IInv
<1> SUFFICES ASSUME Init PROVE IInv
  OBVIOUS
<1>1. MaxBytes \in Nat /\ MaxLen \in Nat
  BY SocketAssumption
<1>2. {nonBlock, closed, reset} \subseteq BOOLEAN
  BY DEF Init
<1>3. TypeOK
  BY <1>1, <1>2 DEF Init, TypeOK
<1>4. CallRuns /\ SendsInOrder /\ EndIsTheEnd /\ SentOnce
  BY DEF Init, CallRuns, SendsInOrder, EndIsTheEnd, SentOnce
<1>5. NoByteUnaccounted
  BY DEF Init, NoByteUnaccounted
<1> QED
  BY <1>3, <1>4, <1>5 DEF IInv

(* Every step on a socket keeps the invariant. *)
LEMMA NextKeepsIInv == IInv /\ [Next]_vars => IInv'
<1> SUFFICES ASSUME IInv, [Next]_vars PROVE IInv'
  OBVIOUS
<1>1. CASE Caller
  BY <1>1, BeginKeeps DEF Caller
<1>2. CASE Turn \/ Interrupted
  BY <1>2, SelectKeeps, InterruptedKeeps, RecvKeeps, ExactReadKeeps, SendKeeps DEF Turn, Transfer
<1>3. CASE PeerSends \/ PeerReads \/ PeerCloses \/ Reset
  BY <1>3, PeerKeeps
<1>4. CASE UNCHANGED vars
  BY <1>4 DEF vars, conn, IInv, TypeOK, CallRuns, SendsInOrder, NoByteUnaccounted, EndIsTheEnd, SentOnce
<1> QED
  BY <1>1, <1>2, <1>3, <1>4 DEF Next

(***************************************************************************)
(* TcpSocket: Recv never loses a byte, 0 is returned at the end of the       *)
(* stream only, and a Send without an error has had all its bytes taken.     *)
(***************************************************************************)
THEOREM SocketsAccountForEveryByte == Spec => []SocketInv
<1>1. IInv => SocketInv
  BY DEF IInv, SocketInv
<1> QED
  BY <1>1, InitEstablishesIInv, NextKeepsIInv, PTL DEF Spec

-----------------------------------------------------------------------------
(***************************************************************************)
(* What a step does to the stream the caller sees: the mapping of            *)
(* ImplementsByteStream.                                                    *)
(***************************************************************************)
LEMMA RecvIsAStep == IInv /\ Recv => [Stream!Next]_(Stream!vars)
<1> SUFFICES ASSUME IInv, Recv PROVE [Stream!Next]_(Stream!vars)
  OBVIOUS
<1>1. TypeOK /\ pc = "call" /\ call = "Recv" /\ nLeft \in 1 .. nLen /\ taken = told + missed
  BY DEF Recv, IInv, CallRuns, NoByteUnaccounted, TypeOK
<1>2. UNCHANGED <<sent, closed, missed>>
  BY <1>1 DEF Recv, Return, Got, conn, TypeOK
<1>3. \E n \in 0 .. sent - taken : told' = told + n
  BY <1>1 DEF Recv, Return, Available, TypeOK
<1>4. PICK n \in 0 .. sent - taken : told' = told + n
  BY <1>3
<1>5. CASE n = 0
  BY <1>1, <1>2, <1>4, <1>5 DEF Stream!vars, TypeOK
<1>6. CASE n # 0
  <2>1. n \in 1 .. sent - (told + missed) /\ told' + missed' = (told + missed) + n
    BY <1>1, <1>2, <1>4, <1>6 DEF TypeOK
  <2>2. Stream!Deliver
    BY <1>2, <2>1 DEF Stream!Deliver
  <2> QED
    BY <2>2 DEF Stream!Next
<1> QED
  BY <1>5, <1>6

(* exact_read is one step of the byte stream. *)
LEMMA ExactReadIsAStep == IInv /\ exact_read => [Stream!Next]_(Stream!vars)
<1> SUFFICES ASSUME IInv, exact_read PROVE [Stream!Next]_(Stream!vars)
  OBVIOUS
<1>1. TypeOK /\ nLeft \in 1 .. nLen /\ taken = told + missed + (nLen - nLeft)
  <2>1. pc = "call" /\ call = "exact_read"
    BY ReadTurns
  <2> QED
    BY <2>1 DEF IInv, CallRuns, NoByteUnaccounted
<1>2. UNCHANGED <<sent, closed>>
  BY ReadTurns
<1>3. ReadTurnGoesOn \/ ReadTurnFills \/ ReadTurnEnds \/ ReadTurnFails
  BY ReadTurns
<1>4. CASE ReadTurnGoesOn
  BY <1>2, <1>4 DEF ReadTurnGoesOn, Stream!vars
<1>5. CASE ReadTurnFills
  <2>1. nLen \in 1 .. sent - (told + missed) /\ told' + missed' = (told + missed) + nLen
    BY <1>1, <1>5 DEF ReadTurnFills, TypeOK
  <2>2. missed' = missed
    BY <1>5 DEF ReadTurnFills
  <2> QED
    BY <1>2, <2>1, <2>2 DEF Stream!Deliver, Stream!Next
<1>6. CASE ReadTurnEnds
  <2>1. missed' = missed
    BY <1>6 DEF ReadTurnEnds
  <2>2. CASE nLen = nLeft
    BY <1>1, <1>2, <1>6, <2>1, <2>2 DEF ReadTurnEnds, Stream!vars, TypeOK
  <2>3. CASE nLen # nLeft
    <3>1. nLen - nLeft \in 1 .. sent - (told + missed) /\ told' + missed' = (told + missed) + (nLen - nLeft)
      BY <1>1, <1>6, <2>3 DEF ReadTurnEnds, TypeOK
    <3> QED
      BY <1>2, <2>1, <3>1 DEF Stream!Deliver, Stream!Next
  <2> QED
    BY <2>2, <2>3
<1>7. CASE ReadTurnFails
  <2>1. CASE nLen = nLeft
    BY <1>1, <1>2, <1>7, <2>1 DEF ReadTurnFails, Stream!vars, TypeOK
  <2>2. CASE nLen # nLeft
    <3>1. nLen - nLeft \in 1 .. sent - (told + missed) /\ told' + missed' = (told + missed) + (nLen - nLeft)
      BY <1>1, <1>7, <2>2 DEF ReadTurnFails, TypeOK
    <3>2. missed' > 0
      BY <1>1, <1>7, <2>2 DEF ReadTurnFails, TypeOK
    <3> QED
      BY <1>2, <3>1, <3>2 DEF Stream!Fail, Stream!Next
  <2> QED
    BY <2>1, <2>2
<1> QED
  BY <1>3, <1>4, <1>5, <1>6, <1>7

(* Every other operation is a step of the byte stream or leaves it alone. *)
LEMMA OthersAreSteps ==
  ASSUME IInv, [Next]_vars, ~Recv, ~exact_read
  PROVE  [Stream!Next]_(Stream!vars)
<1>1. CASE PeerSends
  BY <1>1 DEF PeerSends, Stream!PeerSends, Stream!Next
<1>2. CASE PeerCloses
  BY <1>2 DEF PeerCloses, Stream!PeerCloses, Stream!Next
<1>3. CASE Caller \/ Interrupted \/ PeerReads \/ Reset \/ UNCHANGED vars
  BY <1>3 DEF Caller, Begin, Interrupted, Going, PeerReads, Reset, vars, conn, Stream!vars
<1>4. CASE Select \/ Send
  <2>1. call \in {"Recv", "Send", "exact_write"}
    BY <1>4 DEF Select, Send, IInv, CallRuns
  <2>2. CASE Select
    BY <2>1, <2>2 DEF Select, Return, Going, conn, Stream!vars, IInv, TypeOK
  <2>3. CASE Send
    <3>1. call \notin {"Recv", "exact_read"}
      BY <2>3 DEF Send
    <3> QED
      BY <2>3, <3>1 DEF Send, SendTurn, Return, Going, conn, Stream!vars, IInv, TypeOK
  <2> QED
    BY <1>4, <2>2, <2>3
<1> QED
  BY <1>1, <1>2, <1>3, <1>4 DEF Next, Turn, Transfer

(***************************************************************************)
(* The loops around select, recv and send implement the byte stream that     *)
(* ByteStream promises: bytes arrive in order, none is lost but after an      *)
(* error of an exact read.                                                  *)
(***************************************************************************)
THEOREM SocketsAreByteStreams == Spec => ImplementsByteStream
<1>1. Init => Stream!Init
  BY DEF Init, Stream!Init
<1>2. IInv /\ [Next]_vars => [Stream!Next]_(Stream!vars)
  BY RecvIsAStep, ExactReadIsAStep, OthersAreSteps
<1> QED
  BY <1>1, <1>2, InitEstablishesIInv, NextKeepsIInv, PTL DEF Spec, ImplementsByteStream, Stream!Spec

-----------------------------------------------------------------------------
(* The event server. *)

ServerTypes ==
    /\ thread \in {"start", "poll", "handleEvent", "end"}
    /\ m_sparesockets \in Seq(Server!Sockets)
    /\ DOMAIN sock \subseteq Server!Sockets
    /\ DOMAIN peer \subseteq Handles
    /\ DOMAIN peer = DOMAIN epoll \ {Server!Listening}
    /\ Server!Listening \in DOMAIN epoll => epoll[Server!Listening].ptr = Server!Listening

NothingYet ==
    thread = "start" => /\ m_sparesockets = <<>> /\ DOMAIN sock = {}
                    /\ DOMAIN epoll = {} /\ pevents = {}

Stock ==
    /\ \A i, j \in DOMAIN m_sparesockets : i # j => m_sparesockets[i] # m_sparesockets[j]
    /\ Len(m_sparesockets) <= MAX_SPARE_SOCKETS
    /\ \A i \in DOMAIN m_sparesockets :
          m_sparesockets[i] \in DOMAIN sock /\ sock[m_sparesockets[i]] = Server!TSocket

Holds(h, k) ==
    /\ k \in DOMAIN sock /\ sock[k].handle = h
    /\ epoll[h] = Server!Registration(k, sock[k])
    /\ epoll[h].in # epoll[h].out

Connections == \A h \in DOMAIN peer : Holds(h, epoll[h].ptr)

Placed(k) == \/ \E i \in DOMAIN m_sparesockets : m_sparesockets[i] = k
             \/ sock[k].handle \in DOMAIN peer /\ epoll[sock[k].handle].ptr = k

AllPlaced == \A k \in DOMAIN sock : Placed(k)

Batch ==
    /\ \A e \in pevents : e.handle \in DOMAIN epoll /\ epoll[e.handle].ptr = e.ptr
    /\ \A e, f \in pevents : e.handle = f.handle => e = f
    /\ \A e \in pevents : e.handle = Server!Listening => e.events = {"in"}

ServerInv == ServerTypes /\ NothingYet /\ Stock /\ Connections /\ AllPlaced /\ Batch

-----------------------------------------------------------------------------
(* A function is extended, or changed in one place. *)
LEMMA WithIs ==
  ASSUME NEW f, NEW x, NEW v
  PROVE  /\ DOMAIN Server!With(f, x, v) = DOMAIN f \cup {x}
         /\ Server!With(f, x, v)[x] = v
         /\ \A y \in DOMAIN f : y # x => Server!With(f, x, v)[y] = f[y]
BY DEF Server!With

(* The same where the function is defined: its domain stays. *)
LEMMA WithinIs ==
  ASSUME NEW f, NEW v, NEW x \in DOMAIN f
  PROVE  /\ DOMAIN Server!With(f, x, v) = DOMAIN f
         /\ Server!With(f, x, v)[x] = v
         /\ \A y \in DOMAIN f : y # x => Server!With(f, x, v)[y] = f[y]
BY DEF Server!With

(* A function loses one place. *)
LEMMA WithoutIs ==
  ASSUME NEW f, NEW x
  PROVE  /\ DOMAIN Server!Without(f, x) = DOMAIN f \ {x}
         /\ \A y \in DOMAIN f : y # x => Server!Without(f, x)[y] = f[y]
BY DEF Server!Without

(* The instance of the event server counts as we do. *)
LEMMA SameCount == Server!Cardinality(Handles) = Cardinality(Handles)
BY DEF Server!Cardinality, Cardinality

(* The invariant says more than the property the run checks. *)
LEMMA InvImplies == ServerInv => Server!SocketsAreInOnePlace
<1> SUFFICES ASSUME ServerInv PROVE Server!SocketsAreInOnePlace
  OBVIOUS
<1>1. \A k \in DOMAIN sock : sock[k].handle \in DOMAIN peer \/ k \in Server!ToSet(m_sparesockets)
  BY DEF ServerInv, AllPlaced, Placed, Server!ToSet
<1>2. DOMAIN peer = DOMAIN epoll \ {Server!Listening}
  BY DEF ServerInv, ServerTypes
<1>3. \A h \in DOMAIN peer : LET k == epoll[h].ptr IN
          /\ k \in DOMAIN sock /\ sock[k].handle = h
          /\ epoll[h] = Server!Registration(k, sock[k])
          /\ epoll[h].in # epoll[h].out
  BY DEF ServerInv, Connections, Holds
<1>4. Stock /\ Batch
  BY DEF ServerInv
<1> QED
  BY <1>1, <1>2, <1>3, <1>4 DEF Server!SocketsAreInOnePlace, Stock, Batch

(* Nothing is open before the thread has started. *)
LEMMA InitInv == Server!InitServer => ServerInv
<1> SUFFICES ASSUME Server!InitServer PROVE ServerInv
  OBVIOUS
<1>1. m_sparesockets = <<>> /\ DOMAIN sock = {} /\ DOMAIN epoll = {} /\ pevents = {} /\ DOMAIN peer = {} /\ thread = "start"
  BY DEF Server!InitServer, Server!NewPoller
<1>2. ServerTypes
  BY <1>1, EmptySeq DEF ServerTypes
<1>3. NothingYet /\ Batch /\ Connections /\ AllPlaced
  BY <1>1 DEF NothingYet, Batch, Connections, AllPlaced
<1>4. Stock
  BY <1>1, ServerAssumption DEF Stock
<1> QED
  BY <1>2, <1>3, <1>4 DEF ServerInv

(* The stock is filled with different objects that have no descriptor and no mask. *)
LEMMA StartedKeeps == ASSUME ServerInv, NEW port \in Server!Ports, Server!Started(port) PROVE ServerInv'
<1> DEFINE M == 1 .. MIN_SPARE_SOCKETS
<1>1. DOMAIN epoll = {} /\ DOMAIN peer = {} /\ pevents = {} /\ peer' = peer /\ pevents' = pevents
  BY DEF Server!Started, ServerInv, NothingYet, ServerTypes
<1>2. m_sparesockets' = [k \in M |-> k] /\ sock' = [k \in M |-> Server!TSocket]
  BY DEF Server!Started
<1>3. thread' \in {"end", "poll"}
  BY DEF Server!Started
<1>4. DOMAIN epoll' \subseteq {Server!Listening} /\ (Server!Listening \in DOMAIN epoll' => epoll'[Server!Listening].ptr = Server!Listening)
  <2>1. CASE port = 9089
    BY <1>1, <2>1 DEF Server!Started
  <2>2. CASE port # 9089
    <3> DEFINE r == [ptr |-> Server!Listening, in |-> TRUE, out |-> FALSE]
    <3>1. epoll' = Server!With(epoll, Server!Listening, r)
      BY <2>2 DEF Server!Started
    <3>2. r.ptr = Server!Listening
      OBVIOUS
    <3> HIDE DEF r
    <3>3. DOMAIN epoll' = DOMAIN epoll \cup {Server!Listening} /\ epoll'[Server!Listening] = r
      BY <3>1 DEF Server!With
    <3> QED
      BY <1>1, <3>2, <3>3
  <2> QED
    BY <2>1, <2>2
<1>5. M \subseteq Server!Sockets
  BY ServerAssumption, SameCount, FS_CardinalityType DEF Server!Sockets
<1>6. m_sparesockets' \in Seq(Server!Sockets) /\ Len(m_sparesockets') = MIN_SPARE_SOCKETS /\ DOMAIN m_sparesockets' = M
  BY <1>2, <1>5, ServerAssumption, IsASeq
<1>7. ServerTypes'
  BY <1>1, <1>2, <1>3, <1>4, <1>5, <1>6 DEF ServerTypes
<1>8. NothingYet'
  BY <1>3 DEF NothingYet
<1>9. Stock'
  BY <1>2, <1>6, ServerAssumption DEF Stock
<1>10. Connections' /\ Batch'
  BY <1>1 DEF Connections, Batch
<1>11. AllPlaced'
  BY <1>2 DEF AllPlaced, Placed
<1> QED
  BY <1>7, <1>8, <1>9, <1>10, <1>11 DEF ServerInv

(* A batch names the objects that are registered, each descriptor once. *)
LEMMA PollKeeps == ASSUME ServerInv, NEW batch \in SUBSET Server!Ready, Server!poll(batch) PROVE ServerInv'
<1>1. UNCHANGED <<m_sparesockets, sock, epoll, peer>> /\ thread' = "handleEvent"
  BY DEF Server!poll
<1>2. pevents' = {[handle |-> h, ptr |-> epoll[h].ptr, events |-> Server!Event(h)] : h \in batch}
  BY DEF Server!poll
<1>3. batch \subseteq DOMAIN epoll
  BY DEF Server!Ready
<1>4. Server!Listening \in batch => Server!Event(Server!Listening) = {"in"}
  BY DEF Server!Event, Server!Ready
<1>5. Batch'
  BY <1>1, <1>2, <1>3, <1>4 DEF Batch
<1>6. ServerTypes' /\ NothingYet' /\ Stock'
  BY <1>1 DEF ServerInv, ServerTypes, NothingYet, Stock
<1>7. Connections' /\ AllPlaced'
  BY <1>1 DEF ServerInv, Connections, Holds, AllPlaced, Placed
<1> QED
  BY <1>5, <1>6, <1>7 DEF ServerInv

(* What changes neither the objects nor what is registered, and takes events away, keeps everything. *)
LEMMA StillKeeps ==
  ASSUME ServerInv, UNCHANGED <<m_sparesockets, sock, epoll>>, DOMAIN peer' = DOMAIN peer,
         pevents' \subseteq pevents,
         thread' = thread \/ thread' \in {"poll", "handleEvent", "end"}
  PROVE  ServerInv'
<1>1. ServerTypes' /\ Stock'
  BY DEF ServerInv, ServerTypes, Stock
<1>2. NothingYet'
  BY DEF ServerInv, NothingYet
<1>3. Connections' /\ AllPlaced'
  BY DEF ServerInv, Connections, Holds, AllPlaced, Placed
<1>4. Batch'
  BY DEF ServerInv, Batch
<1> QED
  BY <1>1, <1>2, <1>3, <1>4 DEF ServerInv

(* handleEvent turns the masks of one connection, in the object and in epoll. *)
LEMMA ReadKeeps == ASSUME ServerInv, NEW e \in pevents, Server!WaitEventRead(e) PROVE ServerInv'
<1> DEFINE k == e.ptr
           h == e.handle
           s == Server!Socket(h, FALSE, TRUE)
<1>1. h \in DOMAIN epoll /\ epoll[h].ptr = k /\ h \in DOMAIN peer
  BY DEF ServerInv, ServerTypes, Batch, Server!WaitEventRead
<1>2. k \in DOMAIN sock /\ sock[k].handle = h /\ sock[k] # Server!TSocket
  <2>1. k \in DOMAIN sock /\ sock[k].handle = h
    BY <1>1 DEF ServerInv, Connections, Holds
  <2>2. h # Server!INVALID_SOCKET
    BY <1>1, ServerAssumption DEF ServerInv, ServerTypes, Server!INVALID_SOCKET
  <2> QED
    BY <2>1, <2>2 DEF Server!TSocket, Server!Socket
<1>3. Server!setMaskWrite(Server!setMaskRead(sock[k], FALSE), TRUE) = s
  BY <1>2 DEF Server!setMaskWrite, Server!setMaskRead, Server!Socket
<1>4. sock' = Server!With(sock, k, s) /\ epoll' = Server!With(epoll, h, Server!Registration(k, s))
  <2>1. s.handle = h
    BY DEF Server!Socket
  <2>2. sock' = Server!With(sock, k, s) /\ epoll' = Server!modSocket(k, s)
    BY <1>3 DEF Server!WaitEventRead
  <2> QED
    BY <2>1, <2>2 DEF Server!modSocket
<1>5. UNCHANGED <<m_sparesockets, peer>> /\ pevents' = pevents \ {e} /\ thread' \in {"poll", "handleEvent"}
  BY DEF Server!WaitEventRead, Server!Taken
<1>6. DOMAIN sock' = DOMAIN sock /\ sock'[k] = s /\ \A x \in DOMAIN sock : x # k => sock'[x] = sock[x]
  BY <1>2, <1>4 DEF Server!With
<1>7. DOMAIN epoll' = DOMAIN epoll /\ epoll'[h] = Server!Registration(k, s)
      /\ \A x \in DOMAIN epoll : x # h => epoll'[x] = epoll[x]
  BY <1>1, <1>4 DEF Server!With
<1>8. epoll'[h].ptr = k /\ epoll'[h].in = FALSE /\ epoll'[h].out = TRUE /\ s.handle = h
  BY <1>7 DEF Server!Registration, Server!Socket
<1>9. \A x \in DOMAIN epoll : epoll'[x].ptr = epoll[x].ptr
  BY <1>1, <1>7, <1>8
<1>10. ServerTypes'
  BY <1>5, <1>6, <1>7, <1>9 DEF ServerInv, ServerTypes
<1>11. NothingYet'
  BY <1>5 DEF NothingYet
<1>12. Stock'
  BY <1>2, <1>5, <1>6 DEF ServerInv, Stock
<1>13. Connections'
  <2> SUFFICES ASSUME NEW g \in DOMAIN peer PROVE Holds(g, epoll[g].ptr)'
    BY <1>5 DEF Connections
  <2>1. CASE g = h
    BY <1>2, <1>6, <1>7, <1>8, <2>1 DEF Holds
  <2>2. CASE g # h
    <3>1. Holds(g, epoll[g].ptr) /\ g \in DOMAIN epoll
      BY DEF ServerInv, Connections, ServerTypes
    <3>2. epoll[g].ptr # k
      BY <1>2, <2>2, <3>1 DEF Holds
    <3> QED
      BY <1>6, <1>7, <2>2, <3>1, <3>2 DEF Holds
  <2> QED
    BY <2>1, <2>2
<1>14. AllPlaced'
  <2> SUFFICES ASSUME NEW x \in DOMAIN sock PROVE Placed(x)'
    BY <1>6 DEF AllPlaced
  <2>1. Placed(x) /\ sock'[x].handle = sock[x].handle
    BY <1>2, <1>6, <1>8 DEF ServerInv, AllPlaced
  <2>2. \A g \in DOMAIN peer : epoll'[g].ptr = epoll[g].ptr
    BY <1>9 DEF ServerInv, ServerTypes
  <2> QED
    BY <1>5, <2>1, <2>2 DEF Placed
<1>15. Batch'
  BY <1>5, <1>7, <1>9 DEF ServerInv, Batch
<1> QED
  BY <1>10, <1>11, <1>12, <1>13, <1>14, <1>15 DEF ServerInv

(* handleEvent closes a connection; its object goes to the stock or is deleted, and no other event of the batch names it. *)
LEMMA WriteKeeps == ASSUME ServerInv, NEW e \in pevents, Server!WaitEventWrite(e) PROVE ServerInv'
<1> DEFINE k == e.ptr
           h == e.handle
<1>1. h \in DOMAIN epoll /\ epoll[h].ptr = k /\ h # Server!Listening /\ h \in DOMAIN peer
  <2>1. h # Server!Listening
    BY DEF ServerInv, Batch, Server!WaitEventWrite
  <2> QED
    BY <2>1 DEF ServerInv, ServerTypes, Batch
<1>2. k \in DOMAIN sock /\ sock[k].handle = h /\ sock[k] # Server!TSocket
  <2>1. k \in DOMAIN sock /\ sock[k].handle = h
    BY <1>1 DEF ServerInv, Connections, Holds
  <2>2. h # Server!INVALID_SOCKET
    BY <1>1, ServerAssumption DEF ServerInv, ServerTypes, Server!INVALID_SOCKET
  <2> QED
    BY <2>1, <2>2 DEF Server!TSocket, Server!Socket
<1>3. epoll' = Server!Without(epoll, h) /\ peer' = Server!Without(peer, h)
  BY <1>2 DEF Server!WaitEventWrite, Server!delSocket
<1>4. DOMAIN epoll' = DOMAIN epoll \ {h} /\ DOMAIN peer' = DOMAIN peer \ {h}
      /\ \A x \in DOMAIN epoll : x # h => epoll'[x] = epoll[x]
  BY <1>3, WithoutIs
<1>5. pevents' = pevents \ {e} /\ thread' \in {"poll", "handleEvent"}
  BY DEF Server!WaitEventWrite, Server!Taken
<1>6. \A i \in DOMAIN m_sparesockets : m_sparesockets[i] # k
  BY <1>2 DEF ServerInv, Stock
<1>7. \A g \in DOMAIN peer : g # h => epoll[g].ptr # k
  BY <1>2 DEF ServerInv, Connections, Holds
<1>8. Batch' /\ NothingYet'
  <2>1. \A f \in pevents' : f \in pevents /\ f.handle # h
    BY <1>5 DEF ServerInv, Batch
  <2> QED
    BY <1>4, <1>5, <2>1 DEF ServerInv, Batch, NothingYet
<1>9. \A x \in DOMAIN sock : x # k /\ sock[x].handle \in DOMAIN peer /\ epoll[sock[x].handle].ptr = x
                               => sock[x].handle # h
  BY <1>1
<1>10. DOMAIN peer' \subseteq DOMAIN epoll /\ h \notin DOMAIN peer'
  BY <1>4 DEF ServerInv, ServerTypes
<1>11. m_sparesockets \in Seq(Server!Sockets) /\ DOMAIN sock \subseteq Server!Sockets
  BY DEF ServerInv, ServerTypes
<1>12. CASE Len(m_sparesockets) >= MAX_SPARE_SOCKETS
  <2>1. sock' = Server!Without(sock, k) /\ m_sparesockets' = m_sparesockets
    BY <1>12 DEF Server!WaitEventWrite
  <2>2. DOMAIN sock' = DOMAIN sock \ {k} /\ \A x \in DOMAIN sock : x # k => sock'[x] = sock[x]
    BY <2>1, WithoutIs
  <2>3. ServerTypes'
    BY <1>1, <1>4, <1>5, <2>1, <2>2 DEF ServerInv, ServerTypes
  <2>4. Stock'
    BY <1>6, <2>1, <2>2 DEF ServerInv, Stock
  <2>5. Connections'
    BY <1>4, <1>7, <1>10, <2>2 DEF ServerInv, Connections, Holds
  <2>6. AllPlaced'
    BY <1>4, <1>9, <1>10, <2>1, <2>2 DEF ServerInv, AllPlaced, Placed
  <2> QED
    BY <1>8, <2>3, <2>4, <2>5, <2>6 DEF ServerInv
<1>13. CASE ~(Len(m_sparesockets) >= MAX_SPARE_SOCKETS)
  <2>1. Server!Released(sock[k]) = Server!TSocket
    BY DEF Server!Released, Server!setMaskWrite, Server!setMaskRead, Server!attach, Server!TSocket, Server!Socket
  <2>2. sock' = Server!With(sock, k, Server!TSocket) /\ m_sparesockets' = Append(m_sparesockets, k)
    BY <1>13, <2>1 DEF Server!WaitEventWrite
  <2>3. DOMAIN sock' = DOMAIN sock /\ sock'[k] = Server!TSocket
        /\ \A x \in DOMAIN sock : x # k => sock'[x] = sock[x]
    BY <1>2, <2>2, WithinIs
  <2>4. /\ m_sparesockets' \in Seq(Server!Sockets) /\ Len(m_sparesockets') = Len(m_sparesockets) + 1
        /\ \A i \in 1 .. Len(m_sparesockets) : m_sparesockets'[i] = m_sparesockets[i]
        /\ m_sparesockets'[Len(m_sparesockets) + 1] = k
    BY <1>2, <1>11, <2>2, AppendProperties
  <2>5. Len(m_sparesockets) \in Nat /\ DOMAIN m_sparesockets = 1 .. Len(m_sparesockets)
        /\ DOMAIN m_sparesockets' = 1 .. Len(m_sparesockets) + 1
    BY <1>11, <2>4, LenProperties
  <2>6. ServerTypes'
    BY <1>1, <1>4, <1>5, <2>3, <2>4 DEF ServerInv, ServerTypes
  <2>7. Stock'
    <3>1. \A i \in DOMAIN m_sparesockets' :
             \/ i \in DOMAIN m_sparesockets /\ m_sparesockets'[i] = m_sparesockets[i]
             \/ i = Len(m_sparesockets) + 1 /\ m_sparesockets'[i] = k
      BY <2>4, <2>5
    <3>2. Len(m_sparesockets') <= MAX_SPARE_SOCKETS
      BY <1>13, <2>4, <2>5, ServerAssumption
    <3>3. \A i, j \in DOMAIN m_sparesockets' : i # j => m_sparesockets'[i] # m_sparesockets'[j]
      BY <1>6, <3>1 DEF ServerInv, Stock
    <3>4. \A i \in DOMAIN m_sparesockets' :
             m_sparesockets'[i] \in DOMAIN sock' /\ sock'[m_sparesockets'[i]] = Server!TSocket
      BY <1>2, <1>6, <2>3, <3>1 DEF ServerInv, Stock
    <3> QED
      BY <3>2, <3>3, <3>4 DEF Stock
  <2>8. Connections'
    BY <1>4, <1>7, <1>10, <2>3 DEF ServerInv, Connections, Holds
  <2>9. AllPlaced'
    <3> SUFFICES ASSUME NEW x \in DOMAIN sock PROVE Placed(x)'
      BY <2>3 DEF AllPlaced
    <3>1. CASE x = k
      BY <2>4, <2>5, <3>1 DEF Placed
    <3>2. CASE x # k
      <4>1. Placed(x)
        BY DEF ServerInv, AllPlaced
      <4>2. CASE \E i \in DOMAIN m_sparesockets : m_sparesockets[i] = x
        BY <2>4, <2>5, <4>2 DEF Placed
      <4>3. CASE sock[x].handle \in DOMAIN peer /\ epoll[sock[x].handle].ptr = x
        BY <1>4, <1>9, <1>10, <2>3, <3>2, <4>3 DEF Placed
      <4> QED
        BY <4>1, <4>2, <4>3 DEF Placed
    <3> QED
      BY <3>1, <3>2
  <2> QED
    BY <1>8, <2>6, <2>7, <2>8, <2>9 DEF ServerInv
<1> QED
  BY <1>12, <1>13

(***************************************************************************)
(* There is an object for every connection that may be open.                *)
(***************************************************************************)
LEMMA ThereIsAnObject ==
  ASSUME ServerInv, m_sparesockets = <<>>, NEW fd \in Handles \ DOMAIN peer
  PROVE  Server!New \in Server!Sockets /\ Server!New \notin DOMAIN sock
<1> DEFINE f == [h \in DOMAIN peer |-> epoll[h].ptr]
<1>1. DOMAIN peer \subseteq Handles \ {fd} /\ DOMAIN sock \subseteq Server!Sockets
  BY DEF ServerInv, ServerTypes
<1>2. IsFiniteSet(Handles \ {fd}) /\ Cardinality(Handles \ {fd}) = Cardinality(Handles) - 1
  BY ServerAssumption, FS_RemoveElement
<1>3. IsFiniteSet(DOMAIN peer) /\ Cardinality(DOMAIN peer) <= Cardinality(Handles) - 1
  BY <1>1, <1>2, FS_Subset
<1>4. f \in Surjection(DOMAIN peer, DOMAIN sock)
  <2>1. \A h \in DOMAIN peer : epoll[h].ptr \in DOMAIN sock
    BY DEF ServerInv, Connections, Holds
  <2>2. \A k \in DOMAIN sock : sock[k].handle \in DOMAIN peer /\ epoll[sock[k].handle].ptr = k
    BY EmptySeq DEF ServerInv, AllPlaced, Placed
  <2> QED
    BY <2>1, <2>2 DEF Surjection
<1>5. Cardinality(DOMAIN sock) <= Cardinality(DOMAIN peer)
  BY <1>3, <1>4, FS_Surjection
<1>6. Cardinality(Server!Sockets) = MIN_SPARE_SOCKETS + Cardinality(Handles)
  BY ServerAssumption, SameCount, FS_CardinalityType, FS_Interval DEF Server!Sockets
<1>7. Cardinality(Handles) \in Nat /\ Cardinality(DOMAIN peer) \in Nat
  BY <1>3, ServerAssumption, FS_CardinalityType
<1>8. IsFiniteSet(DOMAIN sock) /\ Cardinality(DOMAIN sock) \in Nat
  BY <1>3, <1>4, FS_Surjection, FS_CardinalityType
<1>9. DOMAIN sock # Server!Sockets
  BY <1>3, <1>5, <1>6, <1>7, <1>8, ServerAssumption
<1>10. \E k \in Server!Sockets : k \notin DOMAIN sock
  BY <1>1, <1>9
<1> QED
  BY <1>10 DEF Server!New

(***************************************************************************)
(* accept() gives a free object to the new connection.                      *)
(***************************************************************************)
LEMMA SpareIsFree ==
  ASSUME ServerInv, NEW fd \in Handles \ DOMAIN peer
  PROVE  /\ Server!Spare \in Server!Sockets
         /\ \A g \in DOMAIN peer : epoll[g].ptr # Server!Spare
         /\ \A x \in DOMAIN sock : x # Server!Spare =>
               \/ sock[x].handle \in DOMAIN peer /\ epoll[sock[x].handle].ptr = x
               \/ m_sparesockets # <<>> /\ \E i \in DOMAIN m_sparesockets : i # 1 /\ m_sparesockets[i] = x
         /\ m_sparesockets # <<>> => Server!Spare = m_sparesockets[1] /\ 1 \in DOMAIN m_sparesockets
         /\ m_sparesockets = <<>> => Server!Spare \notin DOMAIN sock
<1>1. m_sparesockets \in Seq(Server!Sockets)
  BY DEF ServerInv, ServerTypes
<1>2. \A g \in DOMAIN peer : epoll[g].ptr \in DOMAIN sock /\ sock[epoll[g].ptr].handle = g
  BY DEF ServerInv, Connections, Holds
<1>3. CASE m_sparesockets = <<>>
  <2>1. Server!Spare = Server!New /\ Server!New \in Server!Sockets /\ Server!New \notin DOMAIN sock
    BY <1>3, ThereIsAnObject DEF Server!Spare
  <2>2. \A x \in DOMAIN sock : sock[x].handle \in DOMAIN peer /\ epoll[sock[x].handle].ptr = x
    BY <1>3, EmptySeq DEF ServerInv, AllPlaced, Placed
  <2> QED
    BY <1>2, <1>3, <2>1, <2>2
<1>4. CASE m_sparesockets # <<>>
  <2>1. Server!Spare = Head(m_sparesockets)
    BY <1>4 DEF Server!Spare
  <2>2. Server!Spare = m_sparesockets[1] /\ 1 \in DOMAIN m_sparesockets
    BY <1>1, <1>4, <2>1
  <2>3. Server!Spare \in Server!Sockets /\ sock[Server!Spare] = Server!TSocket
    BY <1>1, <1>4, <2>2, LenProperties, ElementOfSeq DEF ServerInv, Stock
  <2>4. \A g \in DOMAIN peer : g # Server!INVALID_SOCKET
    BY ServerAssumption DEF ServerInv, ServerTypes, Server!INVALID_SOCKET
  <2>5. Server!TSocket.handle = Server!INVALID_SOCKET
    BY DEF Server!TSocket, Server!Socket
  <2>6. \A g \in DOMAIN peer : epoll[g].ptr # Server!Spare
    BY <1>2, <2>3, <2>4, <2>5
  <2>7. \A x \in DOMAIN sock : x # Server!Spare =>
               \/ sock[x].handle \in DOMAIN peer /\ epoll[sock[x].handle].ptr = x
               \/ \E i \in DOMAIN m_sparesockets : i # 1 /\ m_sparesockets[i] = x
    BY <2>2 DEF ServerInv, AllPlaced, Placed
  <2> QED
    BY <1>4, <2>2, <2>3, <2>6, <2>7
<1> QED
  BY <1>3, <1>4

(* A connection is registered with a free object. *)
LEMMA AcceptedKeeps ==
  ASSUME ServerInv, NEW fd \in Handles \ DOMAIN peer, NEW e \in pevents, Server!Taken(e),
         NEW s, s = Server!Socket(fd, TRUE, FALSE),
         sock' = Server!With(sock, Server!Spare, s), epoll' = Server!With(epoll, fd, Server!Registration(Server!Spare, s)),
         peer' = Server!With(peer, fd, "quiet"),
         m_sparesockets' = IF m_sparesockets = <<>> THEN <<>> ELSE Tail(m_sparesockets)
  PROVE  ServerInv'
<1>1. fd # Server!Listening /\ fd \notin DOMAIN epoll
  BY ServerAssumption DEF ServerInv, ServerTypes, Server!Listening
<1>2. s.handle = fd /\ s.canRead = TRUE /\ s.canWrite = FALSE
  BY DEF Server!Socket
<1>3. DOMAIN sock' = DOMAIN sock \cup {Server!Spare} /\ sock'[Server!Spare] = s
      /\ \A x \in DOMAIN sock : x # Server!Spare => sock'[x] = sock[x]
  BY DEF Server!With
<1>4. DOMAIN epoll' = DOMAIN epoll \cup {fd} /\ epoll'[fd] = Server!Registration(Server!Spare, s)
      /\ \A x \in DOMAIN epoll : epoll'[x] = epoll[x]
  BY <1>1 DEF Server!With
<1>5. DOMAIN peer' = DOMAIN peer \cup {fd}
  BY DEF Server!With
<1>6. epoll'[fd].ptr = Server!Spare /\ epoll'[fd].in # epoll'[fd].out
  <2>1. Server!Registration(Server!Spare, s).ptr = Server!Spare
    BY DEF Server!Registration
  <2>2. Server!Registration(Server!Spare, s).in = TRUE
    BY <1>2 DEF Server!Registration
  <2>3. Server!Registration(Server!Spare, s).out = FALSE
    BY <1>2 DEF Server!Registration
  <2> QED
    BY <1>4, <2>1, <2>2, <2>3
<1>7. pevents' = pevents \ {e} /\ thread' \in {"poll", "handleEvent"}
  BY DEF Server!Taken
<1>8. m_sparesockets \in Seq(Server!Sockets)
  BY DEF ServerInv, ServerTypes
<1>9. /\ m_sparesockets' \in Seq(Server!Sockets)
      /\ \A i \in DOMAIN m_sparesockets' : i + 1 \in DOMAIN m_sparesockets
                                          /\ i \in Nat /\ i # 0
                                          /\ m_sparesockets'[i] = m_sparesockets[i + 1]
      /\ \A i \in DOMAIN m_sparesockets : i # 1 => \E j \in DOMAIN m_sparesockets' :
                                               m_sparesockets'[j] = m_sparesockets[i]
      /\ Len(m_sparesockets') <= Len(m_sparesockets)
  <2>1. CASE m_sparesockets = <<>>
    BY <2>1, EmptySeq
  <2>2. CASE m_sparesockets # <<>>
    <3>1. m_sparesockets' = Tail(m_sparesockets)
      BY <2>2
    <3>2. /\ m_sparesockets' \in Seq(Server!Sockets) /\ Len(m_sparesockets') = Len(m_sparesockets) - 1
          /\ \A i \in 1 .. Len(m_sparesockets') : m_sparesockets'[i] = m_sparesockets[i + 1]
      BY <1>8, <2>2, <3>1, HeadTailProperties
    <3>3. Len(m_sparesockets) \in Nat /\ DOMAIN m_sparesockets = 1 .. Len(m_sparesockets)
          /\ DOMAIN m_sparesockets' = 1 .. Len(m_sparesockets')
      BY <1>8, <3>2, LenProperties
    <3>4. \A i \in DOMAIN m_sparesockets : i # 1 => i - 1 \in DOMAIN m_sparesockets'
                                                   /\ m_sparesockets'[i - 1] = m_sparesockets[i]
      BY <3>2, <3>3
    <3>5. \A i \in DOMAIN m_sparesockets' : i + 1 \in DOMAIN m_sparesockets /\ i \in Nat /\ i # 0
                                            /\ m_sparesockets'[i] = m_sparesockets[i + 1]
      BY <3>2, <3>3
    <3>6. \A i \in DOMAIN m_sparesockets : i # 1 => \E j \in DOMAIN m_sparesockets' :
                                                 m_sparesockets'[j] = m_sparesockets[i]
      BY <3>4
    <3>7. Len(m_sparesockets') <= Len(m_sparesockets)
      BY <3>2, <3>3
    <3> QED
      BY <3>2, <3>5, <3>6, <3>7
  <2> QED
    BY <2>1, <2>2
<1>10. ServerTypes'
  BY <1>1, <1>3, <1>4, <1>5, <1>7, <1>9, SpareIsFree DEF ServerInv, ServerTypes
<1>11. NothingYet'
  BY <1>7 DEF NothingYet
<1>12. Stock'
  <2>1. Len(m_sparesockets') <= MAX_SPARE_SOCKETS
    BY <1>8, <1>9, LenProperties, ServerAssumption DEF ServerInv, Stock
  <2>2. \A i, j \in DOMAIN m_sparesockets' : i # j => m_sparesockets'[i] # m_sparesockets'[j]
    <3> SUFFICES ASSUME NEW i \in DOMAIN m_sparesockets', NEW j \in DOMAIN m_sparesockets', i # j
                 PROVE  m_sparesockets'[i] # m_sparesockets'[j]
      OBVIOUS
    <3>1. i + 1 \in DOMAIN m_sparesockets /\ j + 1 \in DOMAIN m_sparesockets /\ i + 1 # j + 1
      BY <1>9
    <3> QED
      BY <1>9, <3>1 DEF ServerInv, Stock
  <2>3. ASSUME NEW i \in DOMAIN m_sparesockets'
        PROVE  m_sparesockets'[i] \in DOMAIN sock' /\ sock'[m_sparesockets'[i]] = Server!TSocket
    <3>1. i + 1 \in DOMAIN m_sparesockets /\ i + 1 # 1 /\ m_sparesockets'[i] = m_sparesockets[i + 1]
      BY <1>9
    <3>2. m_sparesockets # <<>>
      BY <3>1, EmptySeq
    <3>3. m_sparesockets[i + 1] # Server!Spare
      BY <3>1, <3>2, SpareIsFree DEF ServerInv, Stock
    <3>4. m_sparesockets[i + 1] \in DOMAIN sock /\ sock[m_sparesockets[i + 1]] = Server!TSocket
      BY <3>1 DEF ServerInv, Stock
    <3> QED
      BY <1>3, <3>1, <3>3, <3>4
  <2> QED
    BY <2>1, <2>2, <2>3 DEF Stock
<1>13. Connections'
  <2> SUFFICES ASSUME NEW g \in DOMAIN peer' PROVE Holds(g, epoll[g].ptr)'
    BY DEF Connections
  <2>1. CASE g = fd
    <3>1. Server!Spare \in DOMAIN sock' /\ sock'[Server!Spare].handle = fd
      BY <1>2, <1>3
    <3>2. epoll'[fd] = Server!Registration(Server!Spare, sock'[Server!Spare]) /\ epoll'[fd].ptr = Server!Spare
      BY <1>3, <1>4, <1>6
    <3>3. epoll'[g].ptr = Server!Spare /\ epoll'[g].in # epoll'[g].out
      BY <1>6, <2>1
    <3> QED
      BY <2>1, <3>1, <3>2, <3>3, Zenon DEF Holds, Server!Registration
  <2>2. CASE g # fd
    <3>1. g \in DOMAIN peer /\ g \in DOMAIN epoll
      BY <1>5, <2>2 DEF ServerInv, ServerTypes
    <3>2. Holds(g, epoll[g].ptr) /\ epoll[g].ptr # Server!Spare
      BY <3>1, SpareIsFree DEF ServerInv, Connections
    <3> QED
      BY <1>3, <1>4, <3>1, <3>2 DEF Holds
  <2> QED
    BY <2>1, <2>2
<1>14. AllPlaced'
  <2> SUFFICES ASSUME NEW x \in DOMAIN sock' PROVE Placed(x)'
    BY DEF AllPlaced
  <2>1. CASE x = Server!Spare
    <3>1. sock'[x].handle = fd
      BY <1>2, <1>3, <2>1
    <3>2. fd \in DOMAIN peer' /\ epoll'[fd].ptr = x
      BY <1>5, <1>6, <2>1
    <3> QED
      BY <3>1, <3>2, Zenon DEF Placed
  <2>2. CASE x # Server!Spare
    <3>1. x \in DOMAIN sock /\ sock'[x] = sock[x]
      BY <1>3, <2>2
    <3>2. CASE sock[x].handle \in DOMAIN peer /\ epoll[sock[x].handle].ptr = x
      <4>1. sock[x].handle \in DOMAIN epoll
        BY <3>2 DEF ServerInv, ServerTypes
      <4>2. sock'[x].handle = sock[x].handle
        BY <3>1
      <4>3. sock[x].handle \in DOMAIN peer'
        BY <1>5, <3>2
      <4>4. epoll'[sock[x].handle].ptr = x
        BY <1>4, <3>2, <4>1
      <4> QED
        BY <4>2, <4>3, <4>4 DEF Placed
    <3>3. CASE \E i \in DOMAIN m_sparesockets : i # 1 /\ m_sparesockets[i] = x
      <4>1. PICK i \in DOMAIN m_sparesockets : i # 1 /\ m_sparesockets[i] = x
        BY <3>3
      <4>2. \E j \in DOMAIN m_sparesockets' : m_sparesockets'[j] = x
        BY <1>9, <4>1
      <4> QED
        BY <4>2, Zenon DEF Placed
    <3> QED
      BY <2>2, <3>1, <3>2, <3>3, SpareIsFree
  <2> QED
    BY <2>1, <2>2
<1>15. Batch'
  BY <1>1, <1>4, <1>7 DEF ServerInv, Batch
<1> QED
  BY <1>10, <1>11, <1>12, <1>13, <1>14, <1>15 DEF ServerInv

(* The same for handleEvent on the listening socket. *)
LEMMA AcceptKeeps == ASSUME ServerInv, NEW e \in pevents, Server!WaitEventAccept(e) PROVE ServerInv'
<1>1. Server!Taken(e)
  BY DEF Server!WaitEventAccept
<1>2. CASE UNCHANGED <<m_sparesockets, sock, epoll, peer>>
  <2>1. pevents' \subseteq pevents /\ thread' \in {"poll", "handleEvent", "end"}
    BY <1>1 DEF Server!Taken
  <2> QED
    BY <1>2, <2>1, StillKeeps
<1>3. CASE ~ UNCHANGED <<m_sparesockets, sock, epoll, peer>>
  <2> DEFINE old == IF m_sparesockets = <<>> THEN Server!TSocket ELSE sock[Server!Spare]
  <2>1. PICK fd \in Handles \ DOMAIN peer :
             /\ sock' = Server!With(sock, Server!Spare, Server!setMaskRead(Server!attach(old, fd), TRUE))
             /\ epoll' = Server!addSocket(Server!Spare, Server!setMaskRead(Server!attach(old, fd), TRUE))
             /\ peer' = Server!With(peer, fd, "quiet")
    BY <1>3 DEF Server!WaitEventAccept
  <2>2. m_sparesockets' = IF m_sparesockets = <<>> THEN <<>> ELSE Tail(m_sparesockets)
    BY <1>3 DEF Server!WaitEventAccept
  <2>3. old = Server!TSocket
    BY SpareIsFree DEF ServerInv, Stock
  <2> HIDE DEF old
  <2>4. Server!setMaskRead(Server!attach(old, fd), TRUE) = Server!Socket(fd, TRUE, FALSE)
    <3>1. Server!setMaskRead(Server!attach(Server!TSocket, fd), TRUE) = Server!Socket(fd, TRUE, FALSE)
      BY DEF Server!setMaskRead, Server!attach, Server!TSocket, Server!Socket
    <3> QED
      BY <2>3, <3>1
  <2>5. Server!Socket(fd, TRUE, FALSE).handle = fd
    BY DEF Server!Socket
  <2>6. sock' = Server!With(sock, Server!Spare, Server!Socket(fd, TRUE, FALSE))
    BY <2>1, <2>4
  <2>7. epoll' = Server!With(epoll, fd, Server!Registration(Server!Spare, Server!Socket(fd, TRUE, FALSE)))
    BY <2>1, <2>4, <2>5 DEF Server!addSocket
  <2> QED
    BY <1>1, <2>1, <2>2, <2>6, <2>7, AcceptedKeeps
<1> QED
  BY <1>2, <1>3

(* The clients touch no object. *)
LEMMA ClientKeeps == ServerInv /\ Server!Client => ServerInv'
<1> SUFFICES ASSUME ServerInv, Server!Client PROVE ServerInv'
  OBVIOUS
<1>1. DOMAIN peer' = DOMAIN peer
  BY DEF Server!Client, Server!Connect, Server!Leave, Server!Send, Server!Reset
<1>2. UNCHANGED <<thread, m_sparesockets, sock, epoll, pevents>>
  BY DEF Server!Client
<1> QED
  BY <1>1, <1>2, StillKeeps

(* Every step of the event server keeps its invariant. *)
LEMMA ServerStepKeeps == ServerInv /\ [Server!NextServer]_onlyServer => ServerInv'
<1> SUFFICES ASSUME ServerInv, [Server!NextServer]_onlyServer PROVE ServerInv'
  OBVIOUS
<1>1. CASE UNCHANGED onlyServer
  BY <1>1, StillKeeps DEF onlyServer
<1>2. CASE Server!stopServer
  BY <1>2, StillKeeps DEF Server!stopServer
<1>3. CASE Server!Client
  BY <1>3, ClientKeeps
<1>4. CASE Server!PollFails
  BY <1>4, StillKeeps DEF Server!PollFails
<1>5. CASE Server!handleEvent
  <2>1. ASSUME NEW e \in pevents, Server!WaitEventError(e) PROVE ServerInv'
    BY <2>1, StillKeeps DEF Server!WaitEventError, Server!Taken
  <2> QED
    BY <1>5, <2>1, ReadKeeps, WriteKeeps, AcceptKeeps DEF Server!handleEvent
<1>6. CASE Server!Run
  BY <1>4, <1>5, <1>6, StartedKeeps, PollKeeps DEF Server!Run
<1> QED
  BY <1>1, <1>2, <1>3, <1>6 DEF Server!NextServer

-----------------------------------------------------------------------------
(* The handshakes. *)

Byte == 0 .. 255

Places == {"connect", "request4", "greeting", "password", "request", "greetingReply",
           "passwordReply", "reply", "addr", "length", "name", "port", "reply4", "port4",
           "addr4", "judge", "destroy", "done", "crashed"}

Types ==
    /\ luser \in Byte /\ lpass \in Byte
    /\ step \in Places
    /\ toProxy \in Seq(Byte) /\ toClient \in Seq(Byte)
    /\ open \in {"no", "yes", "closed"} /\ result \in BOOLEAN
    /\ rep.type \in {"none", "greeting", "password", "reply", "reply4"}
    /\ rep.addr \in {"unset", "null", "set"} /\ rep.value \in 0 .. Handshake!Unset /\ rep.count \in Byte

\* Which packet is being read.
BeingRead ==
    /\ step \in {"port4", "addr4"} => rep.type = "reply4"
    /\ step \in {"addr", "length", "name", "port"} => rep.type = "reply"
    /\ step = "judge" => rep.type # "none"

WellTyped == Types /\ BeingRead
-----------------------------------------------------------------------------
(* The fields of a packet. *)
LEMMA PacketIs ==
  ASSUME NEW t, NEW v, NEW a, NEW c
  PROVE  /\ Handshake!Packet(t, v, a, c).type = t /\ Handshake!Packet(t, v, a, c).value = v
         /\ Handshake!Packet(t, v, a, c).addr = a /\ Handshake!Packet(t, v, a, c).count = c
BY DEF Handshake!Packet

(* The fields of the proxy's state. *)
LEMMA ProxyIs ==
  ASSUME NEW w, NEW m, NEW t
  PROVE  Handshake!Proxy(w, m, t).waits = w /\ Handshake!Proxy(w, m, t).method = m /\ Handshake!Proxy(w, m, t).tunnel = t
BY DEF Handshake!Proxy

(* What is left of a sequence when its first n elements are taken. *)
LEMMA RestIs ==
  ASSUME NEW S, NEW s \in Seq(S), NEW n \in Nat
  PROVE  /\ SubSeq(s, n + 1, Len(s)) \in Seq(S)
         /\ n <= Len(s) => /\ Len(SubSeq(s, n + 1, Len(s))) = Len(s) - n
                           /\ \A i \in 1 .. Len(s) - n : SubSeq(s, n + 1, Len(s))[i] = s[i + n]
<1>1. Len(s) \in Nat /\ \A i \in n + 1 .. Len(s) : s[i] \in S
  BY LenProperties, ElementOfSeq
<1>2. /\ SubSeq(s, n + 1, Len(s)) \in Seq(S)
      /\ Len(SubSeq(s, n + 1, Len(s))) = IF n + 1 <= Len(s) THEN Len(s) - (n + 1) + 1 ELSE 0
      /\ \A i \in 1 .. Len(s) - (n + 1) + 1 : SubSeq(s, n + 1, Len(s))[i] = s[n + 1 + i - 1]
  BY <1>1, SubSeqProperties
<1>3. ASSUME n <= Len(s)
      PROVE  /\ Len(SubSeq(s, n + 1, Len(s))) = Len(s) - n
             /\ \A i \in 1 .. Len(s) - n : SubSeq(s, n + 1, Len(s))[i] = s[i + n]
  <2>1. Len(SubSeq(s, n + 1, Len(s))) = Len(s) - n
    BY <1>1, <1>2, <1>3
  <2>2. ASSUME NEW i \in 1 .. Len(s) - n PROVE SubSeq(s, n + 1, Len(s))[i] = s[i + n]
    <3>1. i \in 1 .. Len(s) - (n + 1) + 1 /\ n + 1 + i - 1 = i + n
      BY <1>1, <1>3
    <3> QED
      BY <1>2, <3>1
  <2> QED
    BY <2>1, <2>2
<1> QED
  BY <1>2, <1>3

(* Nothing or all of a packet is sent. *)
LEMMA FirstIs == ASSUME NEW s \in Seq(Byte), NEW k \in {0, Len(s)} PROVE SubSeq(s, 1, k) \in Seq(Byte)
<1>1. Len(s) \in Nat /\ \A i \in 1 .. k : s[i] \in Byte
  BY LenProperties, ElementOfSeq
<1> QED
  BY <1>1, SubSeqProperties

(* A name of n equal bytes. *)
LEMMA RepIs == ASSUME NEW n \in Nat, NEW b \in Byte PROVE Handshake!Rep(n, b) \in Seq(Byte) /\ Len(Handshake!Rep(n, b)) = n
BY IsASeq DEF Handshake!Rep

(* The user's name and the password are bytes, as many as their lengths say. *)
LEMMA PassIs == ASSUME Types PROVE Handshake!UserBytes \in Seq(Byte) /\ Handshake!PassBytes \in Seq(Byte)
                                  /\ Len(Handshake!UserBytes) = luser /\ Len(Handshake!PassBytes) = lpass
<1>1. luser \in Nat /\ lpass \in Nat /\ 117 \in Byte /\ 112 \in Byte
  BY DEF Types, Byte
<1> QED
  BY <1>1, RepIs DEF Handshake!UserBytes, Handshake!PassBytes

(* What is read past the end of a password that is shorter than the user's name is zero. *)
LEMMA ReadIs ==
  ASSUME Types
  PROVE  /\ Handshake!Read(Handshake!PassBytes, luser) \in Seq(Byte) /\ Len(Handshake!Read(Handshake!PassBytes, luser)) = luser
         /\ \A i \in lpass + 1 .. luser : Handshake!Read(Handshake!PassBytes, luser)[i] = 0
<1>1. Handshake!PassBytes \in Seq(Byte) /\ Len(Handshake!PassBytes) = lpass /\ luser \in Nat /\ lpass \in Nat
  BY PassIs DEF Types, Byte
<1>2. \A i \in 1 .. luser : (IF i <= Len(Handshake!PassBytes) THEN Handshake!PassBytes[i] ELSE 0) \in Byte
  <2> SUFFICES ASSUME NEW i \in 1 .. luser
               PROVE  (IF i <= Len(Handshake!PassBytes) THEN Handshake!PassBytes[i] ELSE 0) \in Byte
    OBVIOUS
  <2>1. i <= Len(Handshake!PassBytes) => Handshake!PassBytes[i] \in Byte
    BY <1>1, ElementOfSeq
  <2>2. 0 \in Byte
    BY DEF Byte
  <2> QED
    BY <2>1, <2>2
<1>3. Handshake!Read(Handshake!PassBytes, luser) \in Seq(Byte) /\ Len(Handshake!Read(Handshake!PassBytes, luser)) = luser
  BY <1>1, <1>2, IsASeq DEF Handshake!Read
<1>4. \A i \in lpass + 1 .. luser : Handshake!Read(Handshake!PassBytes, luser)[i] = 0
  BY <1>1 DEF Handshake!Read
<1> QED
  BY <1>3, <1>4

(* What the client sends are bytes. *)
LEMMA RequestsAreBytes ==
  ASSUME Types
  PROVE  /\ Handshake!Pack4Req \in Seq(Byte) /\ Handshake!Pack5AuthReq \in Seq(Byte)
         /\ Handshake!Pack5PassReq \in Seq(Byte) /\ Handshake!Pack5Req \in Seq(Byte)
<1>1. Handshake!DestPort \in Seq(Byte) /\ Handshake!Address \in Seq(Byte) /\ Handshake!HostName \in Seq(Byte)
  <2>1. Handshake!FtpPort \in Seq(Byte) /\ Handshake!ProxyPort \in Seq(Byte)
    BY DEF Handshake!FtpPort, Handshake!ProxyPort, Byte
  <2>2. Handshake!Address \in Seq(Byte)
    BY DEF Handshake!Address, Byte
  <2>3. Handshake!HostName \in Seq(Byte)
    BY DEF Handshake!HostName, Byte
  <2> QED
    BY <2>1, <2>2, <2>3 DEF Handshake!DestPort
<1>2. Handshake!UserBytes \in Seq(Byte) /\ Handshake!Read(Handshake!PassBytes, luser) \in Seq(Byte)
  BY PassIs, ReadIs
<1>3. <<4, 1>> \in Seq(Byte) /\ <<0>> \in Seq(Byte) /\ <<1, luser>> \in Seq(Byte) /\ <<lpass>> \in Seq(Byte)
      /\ <<5, 1, 0>> \in Seq(Byte) /\ <<1>> \in Seq(Byte)
  BY DEF Byte, Types
<1>4. <<3, Len(Handshake!HostName)>> \in Seq(Byte)
  BY DEF Handshake!HostName, Byte
<1>5. Handshake!Pack4Req \in Seq(Byte)
  BY <1>1, <1>2, <1>3, ConcatProperties DEF Handshake!Pack4Req
<1>6. Handshake!Pack5AuthReq \in Seq(Byte)
  <2>1. <<5, 2, Handshake!SOCKS_AUTH_NONE, Handshake!SOCKS_AUTH_PASSWD>> \in Seq(Byte)
    BY DEF Handshake!SOCKS_AUTH_NONE, Handshake!SOCKS_AUTH_PASSWD, Byte
  <2>2. <<5, 1, Handshake!SOCKS_AUTH_NONE>> \in Seq(Byte)
    BY DEF Handshake!SOCKS_AUTH_NONE, Byte
  <2> QED
    BY <2>1, <2>2 DEF Handshake!Pack5AuthReq
<1>7. Handshake!Pack5PassReq \in Seq(Byte)
  BY <1>2, <1>3, ConcatProperties DEF Handshake!Pack5PassReq
<1>8. Handshake!Pack5Req \in Seq(Byte)
  <2>1. <<Handshake!SOCKS_ADDR_HOSTNAME, Len(Handshake!HostName)>> \o Handshake!HostName \in Seq(Byte)
    BY <1>1, <1>4, ConcatProperties DEF Handshake!SOCKS_ADDR_HOSTNAME
  <2>2. <<Handshake!SOCKS_ADDR_IPV4ADDR>> \o Handshake!Address \in Seq(Byte)
    BY <1>1, <1>3, ConcatProperties DEF Handshake!SOCKS_ADDR_IPV4ADDR
  <2> QED
    BY <1>1, <1>3, <2>1, <2>2, ConcatProperties DEF Handshake!Pack5Req
<1> QED
  BY <1>5, <1>6, <1>7, <1>8

-----------------------------------------------------------------------------
(* Types: a packet is sent. *)
LEMMA SendTypes ==
  ASSUME WellTyped, NEW bytes \in Seq(Byte),
         NEW next \in Places \ {"port4", "addr4", "addr", "length", "name", "port", "judge"},
         Handshake!SendPacket(bytes, next)
  PROVE  WellTyped'
<1>1. toProxy' \in Seq(Byte)
  <2>1. \A k \in {0, Len(bytes)} : toProxy \o SubSeq(bytes, 1, k) \in Seq(Byte)
    BY FirstIs, ConcatProperties DEF WellTyped, Types
  <2>2. toProxy \in Seq(Byte) /\ toProxy \o bytes \in Seq(Byte)
    BY ConcatProperties DEF WellTyped, Types
  <2>3. CASE toProxy' = IF open = "yes" THEN toProxy \o bytes ELSE toProxy
    BY <2>2, <2>3
  <2>4. ASSUME NEW k \in {0, Len(bytes)},
               toProxy' = IF open = "yes" THEN toProxy \o SubSeq(bytes, 1, k) ELSE toProxy
        PROVE  toProxy' \in Seq(Byte)
    BY <2>1, <2>2, <2>4
  <2> QED
    BY <2>3, <2>4 DEF Handshake!SendPacket
<1>2. result' \in BOOLEAN /\ step' \in {next, "destroy"}
  BY DEF Handshake!SendPacket, Handshake!Then, Handshake!Return, WellTyped, Types
<1>3. UNCHANGED <<Handshake!fixed, toClient, open, proxy, rep>>
  BY DEF Handshake!SendPacket
<1>4. Types'
  BY <1>1, <1>2, <1>3 DEF WellTyped, Types, Handshake!fixed, Places
<1>5. BeingRead'
  BY <1>2 DEF BeingRead
<1> QED
  BY <1>4, <1>5 DEF WellTyped

(* A cleared packet has its type, and the address it had. *)
LEMMA ClearedIs ==
  ASSUME Types, NEW t
  PROVE  /\ Handshake!Cleared(t).type = t /\ Handshake!Cleared(t).value \in 0 .. Handshake!Unset
         /\ Handshake!Cleared(t).addr = rep.addr /\ Handshake!Cleared(t).count = rep.count
<1> DEFINE v == IF rep.type \in {"none", t} THEN rep.value ELSE 0
<1>1. v \in 0 .. Handshake!Unset
  BY DEF Types, Handshake!Unset
<1> HIDE DEF v
<1>2. Handshake!Cleared(t) = Handshake!Packet(t, v, rep.addr, rep.count)
  BY DEF Handshake!Cleared, v
<1> QED
  BY <1>1, <1>2, PacketIs

(* Types: a piece of an answer is read. *)
LEMMA RecvTypes ==
  ASSUME WellTyped, NEW n \in Nat, NEW t \in {"greeting", "password", "reply", "reply4"}, NEW seen,
         NEW next \in Places, Handshake!Recv(n, t, seen, next),
         Len(toClient) >= n => /\ seen.type = t /\ seen.addr \in {"unset", "null", "set"}
                               /\ seen.value \in 0 .. Handshake!Unset /\ seen.count \in Byte
                               /\ next \in {"port4", "addr4"} => t = "reply4"
                               /\ next \in {"addr", "length", "name", "port"} => t = "reply"
  PROVE  WellTyped'
<1>1. toClient' \in Seq(Byte)
  <2>1. \A k \in Nat : SubSeq(toClient, k + 1, Len(toClient)) \in Seq(Byte)
    BY RestIs DEF WellTyped, Types
  <2>2. \A k \in 0 .. n - 1 : k \in Nat
    OBVIOUS
  <2> QED
    BY <2>1, <2>2 DEF Handshake!Recv
<1>2. UNCHANGED <<Handshake!fixed, toProxy, open, proxy>>
  BY DEF Handshake!Recv
<1>3. CASE Len(toClient) >= n /\ rep' = seen /\ step' = next /\ UNCHANGED result
  <2>1. Types'
    BY <1>1, <1>2, <1>3 DEF WellTyped, Types, Handshake!fixed
  <2>2. BeingRead'
    BY <1>3 DEF BeingRead
  <2> QED
    BY <2>1, <2>2 DEF WellTyped
<1>4. CASE rep' = Handshake!Cleared(t) /\ Handshake!Then(TRUE, "judge")
  <2>1. result' \in BOOLEAN /\ step' \in {"judge", "destroy"}
    BY <1>4 DEF Handshake!Then, Handshake!Return, WellTyped, Types
  <2>2. /\ rep'.type = t /\ rep'.value \in 0 .. Handshake!Unset
        /\ rep'.addr = rep.addr /\ rep'.count = rep.count
    BY <1>4, ClearedIs DEF WellTyped
  <2>3. Types'
    BY <1>1, <1>2, <2>1, <2>2 DEF WellTyped, Types, Handshake!fixed, Places
  <2>4. BeingRead'
    BY <2>1, <2>2 DEF BeingRead
  <2> QED
    BY <2>3, <2>4 DEF WellTyped
<1> QED
  BY <1>3, <1>4 DEF Handshake!Recv

(* The status is the second byte. *)
LEMMA StatusIs ==
  ASSUME Types, NEW t, NEW a, Len(toClient) >= 2
  PROVE  /\ Handshake!Status(t, a).type = t /\ Handshake!Status(t, a).value = toClient[2] /\ toClient[2] \in Byte
         /\ Handshake!Status(t, a).addr = a /\ Handshake!Status(t, a).count = rep.count
<1>1. toClient[2] \in Byte
  BY ElementOfSeq, LenProperties DEF Types
<1> QED
  BY <1>1, PacketIs DEF Handshake!Status

(* A byte may be the value that is judged. *)
LEMMA ByteValues == \A b \in Byte : b \in 0 .. Handshake!Unset
BY DEF Byte, Handshake!Unset
-----------------------------------------------------------------------------
\* What the connection of the FTP client to a SOCKS5 proxy holds, at each step of the client.
Silent == toClient = <<>>
Waits(w) == open = "yes" => proxy.waits = w
Asked(w, bytes) == open = "yes" => proxy.waits = w /\ toProxy = bytes
Methods == {Handshake!SOCKS_AUTH_NONE, Handshake!SOCKS_AUTH_PASSWD, Handshake!SOCKS_AUTH_UNKNOWN}
AfterMethod == CASE proxy.method = Handshake!SOCKS_AUTH_PASSWD -> "password"
                 [] proxy.method = Handshake!SOCKS_AUTH_NONE -> "request"
                 [] OTHER -> "nothing"

\* The proxy waits for the request; it may have been sent the bytes by which the user's name is longer
\* than the password, and they are no request.
NoRequest == toProxy # <<>> /\ toProxy[1] # 5
Believed == open = "yes" => proxy.waits = "request" /\ (toProxy = <<>> \/ NoRequest)
PasswordIsKnown == proxy.method = Handshake!SOCKS_AUTH_PASSWD => rep.type = "password" /\ rep.value = 0
Judged(v) == (v = 0 => Believed) /\ (v = 1 => Waits("nothing"))

\* The proxy has connected; n bytes are still to be read, and the last is the greeting.
Left(n) == /\ Len(toClient) = n /\ toClient[n] = Handshake!Greeting
           /\ proxy.tunnel = Handshake!FtpPort /\ Waits("nothing")
Granted == /\ Len(toClient) \in {10, 11} /\ Left(Len(toClient)) /\ toClient[2] = Handshake!SOCKS_REP5_SUCCESS
           /\ toClient[4] = IF Len(toClient) = 11 THEN Handshake!SOCKS_ADDR_IPV4ADDR ELSE Handshake!SOCKS_ADDR_HOSTNAME
           /\ Len(toClient) = 10 => toClient[5] = 2
Refused == Len(toClient) = 10 /\ toClient[2] = Handshake!SOCKS_REP5_FAIL /\ Waits("nothing")

NotYet ==
    /\ step = "connect" => /\ open = "no" /\ toProxy = <<>> /\ Silent /\ ~result
                         /\ proxy.method = Handshake!SOCKS_AUTH_NONE
    /\ step \notin {"request4", "reply4", "port4", "addr4"}
Greets ==
    /\ step = "greeting" => Silent /\ Asked("greeting", <<>>) /\ proxy.method = Handshake!SOCKS_AUTH_NONE
    /\ step = "greetingReply" =>
          \/ Silent /\ Asked("greeting", Handshake!Pack5AuthReq) /\ proxy.method = Handshake!SOCKS_AUTH_NONE
          \/ /\ Len(toClient) = 2 /\ toClient[2] = proxy.method /\ proxy.method \in Methods
             /\ Asked(AfterMethod, <<>>)
    /\ step = "judge" /\ rep.type = "greeting" =>
          /\ Silent /\ rep.value = proxy.method /\ proxy.method \in Methods
          /\ Asked(AfterMethod, <<>>)
Authenticates ==
    /\ step = "password" => Silent /\ proxy.method = Handshake!SOCKS_AUTH_PASSWD /\ Asked("password", <<>>)
    /\ step = "passwordReply" =>
          /\ proxy.method = Handshake!SOCKS_AUTH_PASSWD
          /\ \/ Silent /\ Asked("password", Handshake!Pack5PassReq)
             \/ Len(toClient) = 2 /\ toClient[2] \in {0, 1} /\ Judged(toClient[2])
    /\ step = "judge" /\ rep.type = "password" =>
          /\ Silent /\ proxy.method = Handshake!SOCKS_AUTH_PASSWD /\ rep.value \in {0, 1} /\ Judged(rep.value)
Requests ==
    /\ step = "request" => Silent /\ PasswordIsKnown /\ Believed
    /\ step = "reply" =>
          /\ PasswordIsKnown
          /\ \/ Silent /\ (open = "yes" => proxy.waits = "request" /\ (toProxy = Handshake!Pack5Req \/ NoRequest))
             \/ Granted \/ Refused
Connects ==
    /\ step = "addr" => Left(7) /\ rep.value = 0
    /\ step = "length" => Left(6) /\ toClient[1] = 2 /\ rep.value = 0
    /\ step = "name" => Left(5) /\ rep.count = 2 /\ rep.value = 0
    /\ step = "port" => Left(3) /\ rep.value = 0
    /\ step = "judge" /\ rep.type = "reply" => rep.value = 1 \/ (rep.value = 0 /\ Left(1))
    /\ step = "judge" => rep.type \in {"greeting", "password", "reply"}
    /\ step \in {"destroy", "done"} /\ result => Left(1)
Tunnels == Handshake!Ftp5 => NotYet /\ Greets /\ Authenticates /\ Requests /\ Connects
ProxyInv == WellTyped /\ Tunnels
-----------------------------------------------------------------------------
\* The types, action by action.
(* Types: the proxy leaves the client's variables alone. *)
LEMMA ProxyTypes ==
  ASSUME WellTyped, UNCHANGED <<Handshake!fixed, step, rep, result>>, open' \in {"no", "yes", "closed"},
         toProxy' \in Seq(Byte), toClient' \in Seq(Byte)
  PROVE  WellTyped'
<1>1. Types'
  BY DEF WellTyped, Types, Handshake!fixed
<1>2. BeingRead'
  BY DEF WellTyped, BeingRead
<1> QED
  BY <1>1, <1>2 DEF WellTyped

(* Types: the proxy reads. *)
LEMMA ReadsTypes ==
  ASSUME WellTyped, NEW n \in Nat, NEW next, Handshake!ProxyReads(n, next)
  PROVE  toProxy' \in Seq(Byte)
<1>1. toProxy \in Seq(Byte)
  BY DEF WellTyped, Types
<1> QED
  BY <1>1, RestIs DEF Handshake!ProxyReads

(* Types: the proxy answers. *)
LEMMA SaysTypes ==
  ASSUME WellTyped, NEW s \in Seq(Byte), Handshake!Say(s)
  PROVE  toClient' \in Seq(Byte)
BY ConcatProperties DEF WellTyped, Types, Handshake!Say

(* Types: the proxy hangs up. *)
LEMMA HangupTypes == ASSUME WellTyped, Handshake!Hangup, UNCHANGED <<Handshake!fixed, step, rep, result>> PROVE WellTyped'
BY ProxyTypes DEF Handshake!Hangup, WellTyped, Types

(* Types: the proxy chooses a method. *)
LEMMA GreetedTypes == ASSUME WellTyped, Handshake!ProxyGreeted, UNCHANGED <<Handshake!fixed, step, rep, result>> PROVE WellTyped'
<1>1. toProxy \in Seq(Byte) /\ Len(toProxy) \in Nat /\ Len(toProxy) >= 2
  BY LenProperties DEF WellTyped, Types, Handshake!ProxyGreeted
<1>2. toProxy[2] \in Byte /\ \A i \in 1 .. Len(toProxy) : toProxy[i] \in Byte
  BY <1>1, ElementOfSeq
<1> DEFINE n == 2 + toProxy[2]
<1>3. n \in Nat
  <2>1. toProxy[2] \in Byte
    BY <1>2
  <2> QED
    BY <2>1 DEF Byte
<1>4. PICK m \in {toProxy[i] : i \in 3 .. n} \cup {Handshake!SOCKS_AUTH_UNKNOWN} :
           /\ Handshake!ProxyReads(n, Handshake!Proxy(CASE m = Handshake!SOCKS_AUTH_PASSWD -> "password"
                                     [] m = Handshake!SOCKS_AUTH_NONE -> "request"
                                     [] OTHER -> "nothing", m, proxy.tunnel))
           /\ Handshake!Say(<<5, m>>)
  BY DEF Handshake!ProxyGreeted
<1>5. Len(toProxy) >= n
  BY <1>4 DEF Handshake!ProxyReads
<1>6. m \in Byte
  <2>1. CASE m = Handshake!SOCKS_AUTH_UNKNOWN
    BY <2>1 DEF Handshake!SOCKS_AUTH_UNKNOWN, Byte
  <2>2. CASE m \in {toProxy[i] : i \in 3 .. n}
    BY <1>1, <1>2, <1>3, <1>5, <2>2
  <2> QED
    BY <2>1, <2>2
<1>7. <<5, m>> \in Seq(Byte)
  BY <1>6 DEF Byte
<1>8. toProxy' \in Seq(Byte) /\ toClient' \in Seq(Byte)
  BY <1>3, <1>4, <1>7, ReadsTypes, SaysTypes
<1>9. open' \in {"no", "yes", "closed"}
  BY DEF Handshake!ProxyGreeted, WellTyped, Types
<1> QED
  BY <1>8, <1>9, ProxyTypes

(* Types: the proxy judges the password. *)
LEMMA AuthenticatesTypes ==
  ASSUME WellTyped, Handshake!ProxyAuthenticates, UNCHANGED <<Handshake!fixed, step, rep, result>> PROVE WellTyped'
<1>1. luser \in Nat /\ lpass \in Nat /\ 3 + luser + lpass \in Nat
  BY DEF WellTyped, Types, Byte
<1>2. <<1, 0>> \in Seq(Byte) /\ <<1, 1>> \in Seq(Byte)
  BY DEF Byte
<1>3. toProxy' \in Seq(Byte)
  BY <1>1, ReadsTypes DEF Handshake!ProxyAuthenticates
<1>4. toClient' \in Seq(Byte)
  BY <1>2, SaysTypes DEF Handshake!ProxyAuthenticates
<1>5. open' \in {"no", "yes", "closed"}
  BY DEF Handshake!ProxyAuthenticates, WellTyped, Types
<1> QED
  BY <1>3, <1>4, <1>5, ProxyTypes

Yes(bound) == <<5, Handshake!SOCKS_REP5_SUCCESS, 0>> \o bound \o <<Handshake!Greeting>>
No == <<5, Handshake!SOCKS_REP5_FAIL, 0, Handshake!SOCKS_ADDR_IPV4ADDR, 0, 0, 0, 0, 0, 0>>
Bound4 == <<Handshake!SOCKS_ADDR_IPV4ADDR, 10, 9, 9, 9, 0, 80>>
BoundName == <<Handshake!SOCKS_ADDR_HOSTNAME, 2, 119, 120, 0, 80>>

(* What the proxy answers to a request are bytes. *)
LEMMA AnswersAreBytes ==
  No \in Seq(Byte) /\ Yes(Bound4) \in Seq(Byte) /\ Yes(BoundName) \in Seq(Byte)
<1>1. <<5, 0, 0>> \in Seq(Byte) /\ <<220>> \in Seq(Byte)
  BY DEF Byte
<1>2. No \in Seq(Byte)
  BY DEF No, Byte, Handshake!SOCKS_REP5_FAIL, Handshake!SOCKS_ADDR_IPV4ADDR
<1>3. Bound4 \in Seq(Byte)
  BY DEF Bound4, Byte, Handshake!SOCKS_ADDR_IPV4ADDR
<1>4. BoundName \in Seq(Byte)
  BY DEF BoundName, Byte, Handshake!SOCKS_ADDR_HOSTNAME
<1> QED
  BY <1>1, <1>2, <1>3, <1>4, ConcatProperties DEF Yes, Handshake!SOCKS_REP5_SUCCESS, Handshake!Greeting

(* The length of a request. *)
LEMMA LengthIs == Handshake!RequestLength \in Nat /\ Handshake!RequestLength = IF Len(toProxy) >= 4 /\ toProxy[4] = 3 THEN 9 ELSE 10
BY DEF Handshake!RequestLength, Handshake!HostName, Handshake!SOCKS_ADDR_HOSTNAME

(* ProxyConnects in terms of its answers. *)
LEMMA ConnectsIs ==
  ASSUME Handshake!ProxyConnects
  PROVE  /\ proxy.waits = "request" /\ toProxy # <<>>
         /\ \/ Handshake!Hangup
            \/ /\ UNCHANGED open /\ toProxy[1] = 5
               /\ \/ \E bound \in {Bound4, BoundName} :
                        Handshake!ProxyReads(Handshake!RequestLength, Handshake!Proxy("nothing", proxy.method,
                               SubSeq(toProxy, Handshake!RequestLength - 1, Handshake!RequestLength))) /\ Handshake!Say(Yes(bound))
                  \/ Handshake!ProxyReads(Handshake!RequestLength, Handshake!Proxy("nothing", proxy.method, proxy.tunnel)) /\ Handshake!Say(No)
BY Zenon DEF Handshake!ProxyConnects, Yes, No, Bound4, BoundName

(* Types: the proxy grants or refuses a SOCKS5 request. *)
LEMMA ConnectsTypes ==
  ASSUME WellTyped, Handshake!ProxyConnects, UNCHANGED <<Handshake!fixed, step, rep, result>> PROVE WellTyped'
<1>1. CASE Handshake!Hangup
  BY <1>1, HangupTypes
<1>2. CASE ~Handshake!Hangup
  <2>1. toProxy' \in Seq(Byte)
    BY <1>2, ConnectsIs, LengthIs, ReadsTypes
  <2>2. toClient' \in Seq(Byte)
    BY <1>2, ConnectsIs, AnswersAreBytes, SaysTypes
  <2>3. open' \in {"no", "yes", "closed"}
    BY <1>2, ConnectsIs DEF WellTyped, Types
  <2> QED
    BY <2>1, <2>2, <2>3, ProxyTypes
<1> QED
  BY <1>1, <1>2

(* Types: the proxy grants or refuses a SOCKS4 request. *)
LEMMA Connects4Types ==
  ASSUME WellTyped, Handshake!Proxy4Connects, UNCHANGED <<Handshake!fixed, step, rep, result>> PROVE WellTyped'
<1>1. luser \in Nat /\ 9 + luser \in Nat
  BY DEF WellTyped, Types, Byte
<1>2. <<0, Handshake!SOCKS_REP4_SUCCESS>> \in Seq(Byte) /\ <<0, Handshake!SOCKS_REP4_FAIL>> \in Seq(Byte)
      /\ <<Handshake!Greeting>> \in Seq(Byte)
  BY DEF Handshake!SOCKS_REP4_SUCCESS, Handshake!SOCKS_REP4_FAIL, Byte, Handshake!Greeting
<1>3. Handshake!FtpPort \in Seq(Byte)
  BY DEF Handshake!FtpPort, Byte
<1>4. Handshake!Address \in Seq(Byte)
  BY DEF Handshake!Address, Byte
<1>5. <<0, Handshake!SOCKS_REP4_SUCCESS>> \o Handshake!FtpPort \o Handshake!Address \o <<Handshake!Greeting>> \in Seq(Byte)
      /\ <<0, Handshake!SOCKS_REP4_FAIL>> \o Handshake!FtpPort \o Handshake!Address \in Seq(Byte)
  BY <1>2, <1>3, <1>4, ConcatProperties
<1>6. toProxy' \in Seq(Byte)
  BY <1>1, ReadsTypes DEF Handshake!Proxy4Connects
<1>7. toClient' \in Seq(Byte)
  BY <1>5, SaysTypes DEF Handshake!Proxy4Connects
<1>8. open' \in {"no", "yes", "closed"}
  BY DEF Handshake!Proxy4Connects, WellTyped, Types
<1> QED
  BY <1>6, <1>7, <1>8, ProxyTypes

(* Types: any step of the proxy. *)
LEMMA ProxyStepTypes == ASSUME WellTyped, Handshake!ProxyStep PROVE WellTyped'
BY GreetedTypes, AuthenticatesTypes, ConnectsTypes, Connects4Types, HangupTypes DEF Handshake!ProxyStep

(* Types: the connection to the proxy. *)
LEMMA ConnectTypes == ASSUME WellTyped, Handshake!connectProxyHost PROVE WellTyped'
<1>1. step' \in {"destroy", "request4", "greeting"} /\ result' \in BOOLEAN
      /\ open' \in {"no", "yes", "closed"}
  BY DEF Handshake!connectProxyHost, Handshake!Return, WellTyped, Types, Handshake!Ftp4
<1>2. UNCHANGED <<Handshake!fixed, toProxy, toClient, rep>>
  BY DEF Handshake!connectProxyHost
<1>3. Types'
  BY <1>1, <1>2 DEF WellTyped, Types, Handshake!fixed, Places
<1>4. BeingRead'
  BY <1>1 DEF BeingRead
<1> QED
  BY <1>3, <1>4 DEF WellTyped

(* Types: the four packets the client sends. *)
LEMMA SendsTypes ==
  ASSUME WellTyped, Handshake!Send4Req \/ Handshake!Send5AuthReq \/ Handshake!Send5PassReq \/ Handshake!Send5Req PROVE WellTyped'
<1>1. Types
  BY DEF WellTyped
<1>2. CASE Handshake!Send4Req
  BY <1>1, <1>2, RequestsAreBytes, SendTypes DEF Handshake!Send4Req, Places
<1>3. CASE Handshake!Send5AuthReq
  BY <1>1, <1>3, RequestsAreBytes, SendTypes DEF Handshake!Send5AuthReq, Places
<1>4. CASE Handshake!Send5Req
  BY <1>1, <1>4, RequestsAreBytes, SendTypes DEF Handshake!Send5Req, Places
<1>5. CASE Handshake!Send5PassReq
  <2>1. CASE Handshake!SendPacket(Handshake!Pack5PassReq, "passwordReply")
    BY <1>1, <2>1, RequestsAreBytes, SendTypes DEF Places
  <2>2. CASE Handshake!Then(TRUE, "passwordReply") /\ UNCHANGED <<Handshake!fixed, Handshake!wires, rep>>
    <3>1. step' \in {"passwordReply", "destroy"} /\ result' \in BOOLEAN
      BY <1>1, <2>2 DEF Handshake!Then, Handshake!Return, Types
    <3>2. Types'
      BY <1>1, <2>2, <3>1 DEF Types, Places, Handshake!fixed, Handshake!wires
    <3>3. BeingRead'
      BY <3>1 DEF BeingRead
    <3> QED
      BY <3>2, <3>3 DEF WellTyped
  <2> QED
    BY <1>5, <2>1, <2>2 DEF Handshake!Send5PassReq
<1> QED
  BY <1>2, <1>3, <1>4, <1>5

(* Types: the answers of two bytes, and SOCKS4's. *)
LEMMA RecvsTypes == ASSUME WellTyped, Handshake!Recv4Rep \/ Handshake!Recv5AuthRep \/ Handshake!Recv5PassRep PROVE WellTyped'
<1>1. Types
  BY DEF WellTyped
<1>2. \A t \in {"greeting", "password", "reply4"} : Len(toClient) >= 2 =>
         /\ Handshake!Status(t, rep.addr).type = t /\ Handshake!Status(t, rep.addr).addr \in {"unset", "null", "set"}
         /\ Handshake!Status(t, rep.addr).value \in 0 .. Handshake!Unset /\ Handshake!Status(t, rep.addr).count \in Byte
  BY <1>1, StatusIs, ByteValues DEF Types
<1>3. CASE Handshake!Recv5AuthRep
  BY <1>2, <1>3, RecvTypes DEF Handshake!Recv5AuthRep, Places
<1>4. CASE Handshake!Recv5PassRep
  BY <1>2, <1>4, RecvTypes DEF Handshake!Recv5PassRep, Places
<1>5. CASE step = "reply4" /\ Handshake!Recv(2, "reply4", Handshake!Status("reply4", rep.addr), "port4")
  BY <1>2, <1>5, RecvTypes DEF Places
<1>6. CASE step = "port4" /\ Handshake!Recv(2, "reply4", rep, "addr4")
  BY <1>1, <1>6, RecvTypes DEF Places, WellTyped, BeingRead, Types
<1>7. CASE step = "addr4" /\ Handshake!Recv(4, "reply4", rep, "judge")
  BY <1>1, <1>7, RecvTypes DEF Places, WellTyped, BeingRead, Types
<1> QED
  BY <1>3, <1>4, <1>5, <1>6, <1>7 DEF Handshake!Recv4Rep

(* Which way the answer to a SOCKS5 request is read. *)
LEMMA ReplyIs ==
  ASSUME Types, step = "reply", Handshake!Recv5Rep
  PROVE  /\ Len(toClient) >= 4 /\ toClient[2] # Handshake!SOCKS_REP5_SUCCESS =>
               Handshake!Recv(4, "reply", Handshake!Status("reply", "null"), "judge")
         /\ Len(toClient) < 4 => Handshake!Recv(4, "reply", rep, "judge")
         /\ Len(toClient) >= 4 /\ toClient[2] = Handshake!SOCKS_REP5_SUCCESS =>
               /\ toClient[4] = Handshake!SOCKS_ADDR_IPV4ADDR => Handshake!Recv(4, "reply", Handshake!Status("reply", rep.addr), "addr")
               /\ toClient[4] = Handshake!SOCKS_ADDR_HOSTNAME => Handshake!Recv(4, "reply", Handshake!Status("reply", rep.addr), "length")
               /\ toClient[4] \notin {Handshake!SOCKS_ADDR_IPV4ADDR, Handshake!SOCKS_ADDR_HOSTNAME} =>
                     Handshake!Recv(4, "reply", Handshake!Status("reply", "null"), "port")
<1>1. Len(toClient) \in Nat
  BY LenProperties DEF Types
<1>2. CASE Len(toClient) >= 4 /\ toClient[2] # Handshake!SOCKS_REP5_SUCCESS
  BY <1>1, <1>2 DEF Handshake!Recv5Rep
<1>3. CASE Len(toClient) < 4
  BY <1>1, <1>3 DEF Handshake!Recv5Rep
<1>4. CASE Len(toClient) >= 4 /\ toClient[2] = Handshake!SOCKS_REP5_SUCCESS
  <2>1. CASE toClient[4] = Handshake!SOCKS_ADDR_IPV4ADDR
    BY <1>1, <1>4, <2>1 DEF Handshake!Recv5Rep, Handshake!SOCKS_ADDR_IPV4ADDR, Handshake!SOCKS_ADDR_HOSTNAME
  <2>2. CASE toClient[4] = Handshake!SOCKS_ADDR_HOSTNAME
    BY <1>1, <1>4, <2>2 DEF Handshake!Recv5Rep, Handshake!SOCKS_ADDR_IPV4ADDR, Handshake!SOCKS_ADDR_HOSTNAME
  <2>3. CASE toClient[4] \notin {Handshake!SOCKS_ADDR_IPV4ADDR, Handshake!SOCKS_ADDR_HOSTNAME}
    BY <1>1, <1>4, <2>3 DEF Handshake!Recv5Rep
  <2> QED
    BY <1>1, <1>4, <2>1, <2>2, <2>3
<1> QED
  BY <1>1, <1>2, <1>3, <1>4

(* Types: the answer to a SOCKS5 request. *)
LEMMA RecvReplyTypes == ASSUME WellTyped, Handshake!Recv5Rep PROVE WellTyped'
<1>1. Types /\ toClient \in Seq(Byte) /\ Len(toClient) \in Nat
  BY LenProperties DEF WellTyped, Types
<1>2. \A a \in {"null", rep.addr} : Len(toClient) >= 2 =>
         /\ Handshake!Status("reply", a).type = "reply" /\ Handshake!Status("reply", a).addr \in {"unset", "null", "set"}
         /\ Handshake!Status("reply", a).value \in 0 .. Handshake!Unset /\ Handshake!Status("reply", a).count \in Byte
  BY <1>1, StatusIs, ByteValues DEF Types
<1>3. \A a \in {"set", rep.addr} : \A c \in Byte :
         /\ Handshake!WithAddress(a, c).type = rep.type /\ Handshake!WithAddress(a, c).addr \in {"unset", "null", "set"}
         /\ Handshake!WithAddress(a, c).value = rep.value /\ Handshake!WithAddress(a, c).count = c
  BY <1>1, PacketIs DEF Handshake!WithAddress, Types
<1>4. rep.count \in Byte /\ rep.count \in Nat /\ rep.value \in 0 .. Handshake!Unset
      /\ rep.addr \in {"unset", "null", "set"}
  <2>1. rep.count \in Byte /\ rep.value \in 0 .. Handshake!Unset /\ rep.addr \in {"unset", "null", "set"}
    BY <1>1 DEF Types
  <2>2. \A b \in Byte : b \in Nat
    BY DEF Byte
  <2> QED
    BY <2>1, <2>2
<1>5. CASE step = "reply"
  <2>1. \E a \in {"null", rep.addr} : \E next \in {"judge", "addr", "length", "port"} :
             Len(toClient) >= 4 => Handshake!Recv(4, "reply", Handshake!Status("reply", a), next)
    BY <1>1, <1>5, ReplyIs
  <2>2. Len(toClient) < 4 => Handshake!Recv(4, "reply", rep, "judge")
    BY <1>1, <1>5, ReplyIs
  <2>3. CASE Len(toClient) < 4
    <3>1. ~(Len(toClient) >= 4)
      BY <1>1, <2>3
    <3> QED
      BY <2>2, <2>3, <3>1, RecvTypes DEF Places
  <2>4. CASE Len(toClient) >= 4
    BY <1>2, <2>1, <2>4, RecvTypes DEF Places
  <2> QED
    BY <1>1, <2>3, <2>4
<1>6. CASE step = "addr"
  <2>1. Handshake!Recv(4, "reply", Handshake!WithAddress("set", rep.count), "port") /\ rep.type = "reply"
    BY <1>6 DEF Handshake!Recv5Rep, Handshake!RecvAddress, WellTyped, BeingRead
  <2> QED
    BY <1>3, <1>4, <2>1, RecvTypes DEF Places
<1>7. CASE step = "name"
  <2>1. Handshake!Recv(rep.count, "reply", Handshake!WithAddress("set", rep.count), "port") /\ rep.type = "reply"
    BY <1>7 DEF Handshake!Recv5Rep, Handshake!RecvAddress, WellTyped, BeingRead
  <2> QED
    BY <1>3, <1>4, <2>1, RecvTypes DEF Places
<1>8. CASE step = "length"
  <2> DEFINE c == IF toClient = <<>> THEN 0 ELSE toClient[1]
  <2>1. Handshake!Recv(1, "reply", Handshake!WithAddress(rep.addr, c), "name") /\ rep.type = "reply"
    BY <1>8 DEF Handshake!Recv5Rep, WellTyped, BeingRead
  <2>2. c \in Byte
    <3>1. 0 \in Byte
      BY DEF Byte
    <3>2. toClient # <<>> => toClient[1] \in Byte
      BY <1>1, ElementOfSeq, EmptySeq
    <3> QED
      BY <3>1, <3>2
  <2> HIDE DEF c
  <2> QED
    BY <1>3, <1>4, <2>1, <2>2, RecvTypes DEF Places
<1>9. CASE step = "port"
  <2>1. Handshake!Recv(2, "reply", rep, "judge") /\ rep.type = "reply"
    BY <1>9 DEF Handshake!Recv5Rep, WellTyped, BeingRead
  <2> QED
    BY <1>4, <2>1, RecvTypes DEF Places
<1> QED
  BY <1>5, <1>6, <1>7, <1>8, <1>9 DEF Handshake!Recv5Rep

(* Types: RecvOK and the destructor. *)
LEMMA JudgeTypes == ASSUME WellTyped, Handshake!RecvOK \/ Handshake!RecvDestroy PROVE WellTyped'
<1>1. step' \in {"destroy", "password", "request", "done", "crashed"} /\ result' \in BOOLEAN
  <2>1. CASE Handshake!RecvOK
    <3>1. PICK v \in Handshake!Values :
              CASE rep.type = "greeting" ->
                     Handshake!Then(v \notin {0, 1, 2, 3}, IF v = Handshake!SOCKS_AUTH_PASSWD THEN "password" ELSE "request")
                [] rep.type = "password" -> Handshake!Then(v # 0, "request")
                [] rep.type = "reply"    -> Handshake!Return(~Handshake!EndsAt(v # Handshake!SOCKS_REP5_SUCCESS))
                [] rep.type = "reply4"   -> Handshake!Return(TRUE)
      BY <2>1 DEF Handshake!RecvOK
    <3>2. result \in BOOLEAN /\ rep.type \in {"none", "greeting", "password", "reply", "reply4"}
          /\ rep.type # "none"
      BY <2>1 DEF WellTyped, Types, BeingRead, Handshake!RecvOK
    <3>3. CASE rep.type = "greeting"
      BY <3>1, <3>2, <3>3 DEF Handshake!Then, Handshake!Return
    <3>4. CASE rep.type = "password"
      BY <3>1, <3>2, <3>4 DEF Handshake!Then, Handshake!Return
    <3>5. CASE rep.type = "reply"
      BY <3>1, <3>5 DEF Handshake!Return, Handshake!EndsAt
    <3>6. CASE rep.type = "reply4"
      BY <3>1, <3>6 DEF Handshake!Return
    <3> QED
      BY <3>2, <3>3, <3>4, <3>5, <3>6
  <2>2. CASE Handshake!RecvDestroy
    BY <2>2 DEF Handshake!RecvDestroy, WellTyped, Types
  <2> QED
    BY <2>1, <2>2
<1>2. UNCHANGED <<Handshake!fixed, Handshake!wires, rep>>
  BY DEF Handshake!RecvOK, Handshake!RecvDestroy
<1>3. Types'
  BY <1>1, <1>2 DEF WellTyped, Types, Handshake!fixed, Handshake!wires, Places
<1>4. BeingRead'
  BY <1>1 DEF BeingRead
<1> QED
  BY <1>3, <1>4 DEF WellTyped

(* Types: any step. *)
LEMMA StepTypes == ASSUME WellTyped, [Handshake!Next]_(Handshake!vars) PROVE WellTyped'
<1>1. CASE UNCHANGED Handshake!vars
  <2>1. Types'
    BY <1>1 DEF WellTyped, Types, Handshake!vars, Handshake!fixed, Handshake!wires
  <2>2. BeingRead'
    BY <1>1 DEF WellTyped, BeingRead, Handshake!vars
  <2> QED
    BY <2>1, <2>2 DEF WellTyped
<1>2. CASE Handshake!ClientStep
  BY <1>2, ConnectTypes, SendsTypes, RecvsTypes, RecvReplyTypes, JudgeTypes DEF Handshake!ClientStep
<1> QED
  BY <1>1, <1>2, ProxyStepTypes DEF Handshake!Next

(* Types: the first states. *)
LEMMA InitTypes == Handshake!Init => WellTyped
<1> SUFFICES ASSUME Handshake!Init PROVE WellTyped
  OBVIOUS
<1>1. luser \in Byte /\ lpass \in Byte
  BY ProxyAssumption DEF Handshake!Init, Byte
<1>2. rep.type = "none" /\ rep.value = Handshake!Unset /\ rep.addr = "unset" /\ rep.count = 0
  BY PacketIs DEF Handshake!Init
<1>3. toProxy \in Seq(Byte) /\ toClient \in Seq(Byte)
  BY EmptySeq DEF Handshake!Init
<1>4. step \in Places /\ step = "connect" /\ open = "no" /\ result = FALSE
  BY DEF Handshake!Init, Places
<1>5. Types
  <2>1. Handshake!Unset \in 0 .. Handshake!Unset /\ 0 \in Byte
    BY DEF Handshake!Unset, Byte
  <2>2. rep.value \in 0 .. Handshake!Unset /\ rep.count \in Byte
    BY <1>2, <2>1
  <2> QED
    BY <1>1, <1>2, <1>3, <1>4, <2>2 DEF Types
<1>6. BeingRead
  BY <1>4 DEF BeingRead
<1> QED
  BY <1>5, <1>6 DEF WellTyped

-----------------------------------------------------------------------------
(* The packets depend on what is fixed only. *)
LEMMA RequestsStay ==
  ASSUME UNCHANGED Handshake!fixed
  PROVE  /\ Handshake!Pack5AuthReq' = Handshake!Pack5AuthReq /\ Handshake!Pack5PassReq' = Handshake!Pack5PassReq /\ Handshake!Pack5Req' = Handshake!Pack5Req
         /\ Handshake!Ftp5' = Handshake!Ftp5
<1>1. Client' = Client /\ type' = type /\ auth' = auth /\ luser' = luser /\ lpass' = lpass /\ byName' = byName
  BY DEF Handshake!fixed
<1>2. Handshake!UserBytes' = Handshake!UserBytes /\ Handshake!PassBytes' = Handshake!PassBytes
  BY <1>1 DEF Handshake!UserBytes, Handshake!PassBytes
<1>3. Handshake!Pack5AuthReq' = Handshake!Pack5AuthReq
  BY <1>1 DEF Handshake!Pack5AuthReq
<1>4. Handshake!Pack5PassReq' = Handshake!Pack5PassReq
  BY <1>1, <1>2 DEF Handshake!Pack5PassReq
<1>5. Handshake!Pack5Req' = Handshake!Pack5Req
  BY <1>1 DEF Handshake!Pack5Req, Handshake!DestPort
<1>6. Handshake!Ftp5' = Handshake!Ftp5
  BY <1>1 DEF Handshake!Ftp5
<1> QED
  BY <1>3, <1>4, <1>5, <1>6

(* A handshake that has ended with FALSE promises nothing. *)
LEMMA StopKeeps == ASSUME step' = "destroy", result' = FALSE PROVE Tunnels'
BY DEF Tunnels, NotYet, Greets, Authenticates, Requests, Connects

(* connectProxyHost begins with a greeting. *)
LEMMA ConnectKeeps == ASSUME Handshake!Ftp5, Tunnels, Handshake!connectProxyHost PROVE Tunnels'
<1>1. Handshake!HasCase /\ Handshake!Ftp4 = FALSE /\ type = "sock5"
  BY DEF Handshake!Ftp5, Handshake!HasCase, Handshake!Ftp4
<1>2. toProxy = <<>> /\ Silent /\ proxy.method = Handshake!SOCKS_AUTH_NONE
  BY DEF Tunnels, NotYet, Handshake!connectProxyHost
<1>3. CASE Handshake!Return(Handshake!Ftp4)
  BY <1>1, <1>3, StopKeeps DEF Handshake!Return
<1>4. CASE step' = "greeting" /\ proxy' = Handshake!Proxy("greeting", proxy.method, proxy.tunnel)
  <2>1. proxy'.waits = "greeting" /\ proxy'.method = Handshake!SOCKS_AUTH_NONE
    BY <1>2, <1>4, ProxyIs
  <2>2. toProxy' = <<>> /\ Silent'
    BY <1>2 DEF Handshake!connectProxyHost, Silent
  <2> QED
    BY <1>4, <2>1, <2>2 DEF Tunnels, NotYet, Greets, Authenticates, Requests, Connects, Asked
<1> QED
  BY <1>1, <1>3, <1>4 DEF Handshake!connectProxyHost

(* What the FTP client makes of a packet it sends: a failure ends the handshake. *)
LEMMA SentIs ==
  ASSUME Handshake!Ftp5, NEW bytes, NEW next, Handshake!SendPacket(bytes, next)
  PROVE  \/ step' = "destroy" /\ result' = FALSE
         \/ /\ step' = next /\ UNCHANGED <<result, Handshake!fixed, toClient, open, proxy, rep>>
            /\ open = "yes" => toProxy' = toProxy \o bytes
BY DEF Handshake!SendPacket, Handshake!Then, Handshake!EndsAt, Handshake!Return, Handshake!Ftp5

(* The three packets of SOCKS5 are sent to a proxy that waits for them. *)
LEMMA SendsKeep ==
  ASSUME WellTyped, Handshake!Ftp5, Tunnels, Handshake!Send5AuthReq \/ Handshake!Send5PassReq \/ Handshake!Send5Req, ~(step' = "destroy" /\ result' = FALSE)
  PROVE  Tunnels'
<1>1. Types /\ toProxy \in Seq(Byte)
  BY DEF WellTyped, Types
<1>2. CASE Handshake!Send5AuthReq
  <2>1. step = "greeting" /\ step' = "greetingReply" /\ UNCHANGED <<result, Handshake!fixed, toClient, open, proxy, rep>>
        /\ (open = "yes" => toProxy' = toProxy \o Handshake!Pack5AuthReq)
    BY <1>2, SentIs DEF Handshake!Send5AuthReq
  <2>2. Silent /\ Asked("greeting", <<>>) /\ proxy.method = Handshake!SOCKS_AUTH_NONE
    BY <2>1 DEF Tunnels, Greets
  <2>3. Silent' /\ Asked("greeting", Handshake!Pack5AuthReq)' /\ proxy'.method = Handshake!SOCKS_AUTH_NONE
    <3>1. open = "yes" => toProxy' = Handshake!Pack5AuthReq
      BY <1>1, <2>1, <2>2, RequestsAreBytes, ConcatEmptySeq DEF Asked
    <3> QED
      BY <2>1, <2>2, <3>1, RequestsStay DEF Asked, Silent
  <2> QED
    BY <2>1, <2>3 DEF Tunnels, NotYet, Greets, Authenticates, Requests, Connects
<1>3. CASE Handshake!Send5PassReq
  <2>1. step = "password" /\ step' = "passwordReply" /\ UNCHANGED <<result, Handshake!fixed, toClient, open, proxy, rep>>
        /\ (open = "yes" => toProxy' = toProxy \o Handshake!Pack5PassReq)
    BY <1>3, SentIs DEF Handshake!Send5PassReq, Handshake!Then, Handshake!EndsAt, Handshake!Return, Handshake!Ftp5
  <2>2. Silent /\ Asked("password", <<>>) /\ proxy.method = Handshake!SOCKS_AUTH_PASSWD
    BY <2>1 DEF Tunnels, Authenticates
  <2>3. Silent' /\ Asked("password", Handshake!Pack5PassReq)' /\ proxy'.method = Handshake!SOCKS_AUTH_PASSWD
    <3>1. open = "yes" => toProxy' = Handshake!Pack5PassReq
      BY <1>1, <2>1, <2>2, RequestsAreBytes, ConcatEmptySeq DEF Asked
    <3> QED
      BY <2>1, <2>2, <3>1, RequestsStay DEF Asked, Silent
  <2> QED
    BY <2>1, <2>3 DEF Tunnels, NotYet, Greets, Authenticates, Requests, Connects
<1>4. CASE Handshake!Send5Req
  <2>1. step = "request" /\ step' = "reply" /\ UNCHANGED <<result, Handshake!fixed, toClient, open, proxy, rep>>
        /\ (open = "yes" => toProxy' = toProxy \o Handshake!Pack5Req)
    BY <1>4, SentIs DEF Handshake!Send5Req
  <2>2. Silent /\ PasswordIsKnown /\ Believed
    BY <2>1 DEF Tunnels, Requests
  <2>3. Silent' /\ PasswordIsKnown'
    BY <2>1, <2>2 DEF Silent, PasswordIsKnown
  <2>4. open' = "yes" => proxy'.waits = "request" /\ (toProxy' = Handshake!Pack5Req' \/ NoRequest')
    <3> SUFFICES ASSUME open' = "yes" PROVE proxy'.waits = "request" /\ (toProxy' = Handshake!Pack5Req' \/ NoRequest')
      OBVIOUS
    <3>1. open = "yes" /\ toProxy' = toProxy \o Handshake!Pack5Req /\ proxy'.waits = "request"
      BY <2>1, <2>2 DEF Believed
    <3>2. CASE toProxy = <<>>
      BY <1>1, <2>1, <3>1, <3>2, RequestsAreBytes, RequestsStay, ConcatEmptySeq
    <3>3. CASE NoRequest
      <4>1. Len(toProxy) \in Nat /\ Len(toProxy) >= 1 /\ toProxy[1] # 5
        BY <1>1, <3>3, EmptySeq, LenProperties DEF NoRequest
      <4>2. toProxy'[1] = toProxy[1] /\ Len(toProxy') >= 1
        BY <1>1, <3>1, <4>1, RequestsAreBytes, ConcatProperties, LenProperties
      <4>3. NoRequest'
        BY <4>1, <4>2 DEF NoRequest
      <4> QED
        BY <3>1, <4>3
    <3> QED
      BY <2>2, <3>1, <3>2, <3>3 DEF Believed
  <2> QED
    BY <2>1, <2>3, <2>4 DEF Tunnels, NotYet, Greets, Authenticates, Requests, Connects
<1> QED
  BY <1>2, <1>3, <1>4

(***************************************************************************)
(* What the FTP client makes of an answer: anything but all its bytes ends the *)
(* handshake.                                                               *)
(***************************************************************************)
LEMMA ReceivedIs ==
  ASSUME WellTyped, Handshake!Ftp5, NEW n \in Nat, NEW t, NEW seen, NEW next, Handshake!Recv(n, t, seen, next)
  PROVE  \/ step' = "destroy" /\ result' = FALSE
         \/ /\ step' = next /\ rep' = seen /\ UNCHANGED <<result, Handshake!fixed, toProxy, open, proxy>>
            /\ Len(toClient) >= n /\ toClient' \in Seq(Byte) /\ Len(toClient') = Len(toClient) - n
            /\ \A i \in 1 .. Len(toClient) - n : toClient'[i] = toClient[i + n]
<1>1. toClient \in Seq(Byte) /\ Len(toClient) \in Nat
  BY LenProperties DEF WellTyped, Types
<1>2. CASE Handshake!Then(TRUE, "judge")
  BY <1>2 DEF Handshake!Then, Handshake!EndsAt, Handshake!Return, Handshake!Ftp5
<1>3. CASE Len(toClient) >= n /\ rep' = seen /\ toClient' = SubSeq(toClient, n + 1, Len(toClient))
           /\ step' = next /\ UNCHANGED result
  BY <1>1, <1>3, RestIs DEF Handshake!Recv
<1> QED
  BY <1>2, <1>3 DEF Handshake!Recv

(* A sequence without elements. *)
LEMMA NothingIs == ASSUME NEW s \in Seq(Byte), Len(s) = 0 PROVE s = <<>>
BY EmptySeq

(* The method and the judgement of the password are read whole. *)
LEMMA ReceiveKeeps ==
  ASSUME WellTyped, Handshake!Ftp5, Tunnels, Handshake!Recv5AuthRep \/ Handshake!Recv5PassRep, ~(step' = "destroy" /\ result' = FALSE)
  PROVE  Tunnels'
<1>1. Types /\ toClient \in Seq(Byte) /\ Len(toClient) \in Nat
  BY LenProperties DEF WellTyped, Types
<1>2. \A t : Len(toClient) >= 2 => Handshake!Status(t, rep.addr).type = t /\ Handshake!Status(t, rep.addr).value = toClient[2]
  BY <1>1, StatusIs
<1>3. CASE Handshake!Recv5AuthRep
  <2>1. /\ step = "greetingReply" /\ step' = "judge" /\ rep' = Handshake!Status("greeting", rep.addr)
        /\ UNCHANGED <<result, Handshake!fixed, toProxy, open, proxy>>
        /\ Len(toClient) >= 2 /\ toClient' \in Seq(Byte) /\ Len(toClient') = Len(toClient) - 2
    BY <1>3, ReceivedIs DEF Handshake!Recv5AuthRep
  <2>2. Len(toClient) = 2 /\ toClient[2] = proxy.method /\ proxy.method \in Methods /\ Asked(AfterMethod, <<>>)
    <3>1. ~Silent
      BY <2>1, EmptySeq DEF Silent
    <3> QED
      BY <2>1, <3>1 DEF Tunnels, Greets
  <2>3. toClient' = <<>> /\ rep'.type = "greeting" /\ rep'.value = proxy'.method /\ proxy'.method \in Methods
    BY <1>2, <2>1, <2>2, NothingIs
  <2>4. Silent' /\ Asked(AfterMethod, <<>>)'
    BY <2>1, <2>2, <2>3 DEF Silent, Asked, AfterMethod
  <2> QED
    BY <2>1, <2>3, <2>4 DEF Tunnels, NotYet, Greets, Authenticates, Requests, Connects
<1>4. CASE Handshake!Recv5PassRep
  <2>1. /\ step = "passwordReply" /\ step' = "judge" /\ rep' = Handshake!Status("password", rep.addr)
        /\ UNCHANGED <<result, Handshake!fixed, toProxy, open, proxy>>
        /\ Len(toClient) >= 2 /\ toClient' \in Seq(Byte) /\ Len(toClient') = Len(toClient) - 2
    BY <1>4, ReceivedIs DEF Handshake!Recv5PassRep
  <2>2. Len(toClient) = 2 /\ toClient[2] \in {0, 1} /\ Judged(toClient[2]) /\ proxy.method = Handshake!SOCKS_AUTH_PASSWD
    <3>1. ~Silent
      BY <2>1, EmptySeq DEF Silent
    <3> QED
      BY <2>1, <3>1 DEF Tunnels, Authenticates
  <2>3. toClient' = <<>> /\ rep'.type = "password" /\ rep'.value = toClient[2]
    BY <1>2, <2>1, <2>2, NothingIs
  <2>4. Silent'
    BY <2>3 DEF Silent
  <2>5. (rep'.value = 0 => Believed') /\ (rep'.value = 1 => Waits("nothing")')
    BY <2>1, <2>2, <2>3 DEF Judged, Believed, NoRequest, Waits
  <2>6. Judged(rep.value)'
    BY <2>5 DEF Judged
  <2> QED
    BY <2>1, <2>2, <2>3, <2>4, <2>6 DEF Tunnels, NotYet, Greets, Authenticates, Requests, Connects
<1> QED
  BY <1>3, <1>4

(* The first four bytes of the answer tell how it goes on. *)
LEMMA ReplyKeeps ==
  ASSUME WellTyped, Handshake!Ftp5, Tunnels, step = "reply", Handshake!Recv5Rep, ~(step' = "destroy" /\ result' = FALSE)
  PROVE  Tunnels'
<1>1. Types /\ toClient \in Seq(Byte) /\ Len(toClient) \in Nat /\ 4 \in Nat
  BY LenProperties DEF WellTyped, Types
<1>2. \A a : Len(toClient) >= 2 => Handshake!Status("reply", a).type = "reply" /\ Handshake!Status("reply", a).value = toClient[2]
  BY <1>1, StatusIs
<1>3. \A seen, next : Handshake!Recv(4, "reply", seen, next) =>
         /\ step' = next /\ rep' = seen /\ UNCHANGED <<result, Handshake!fixed, toProxy, open, proxy>>
         /\ Len(toClient) >= 4 /\ toClient' \in Seq(Byte) /\ Len(toClient') = Len(toClient) - 4
         /\ \A i \in 1 .. Len(toClient) - 4 : toClient'[i] = toClient[i + 4]
  BY <1>1, ReceivedIs
<1>4. ~(Len(toClient) < 4)
  <2> SUFFICES ASSUME Len(toClient) < 4 PROVE FALSE
    OBVIOUS
  <2>1. Handshake!Recv(4, "reply", rep, "judge")
    BY <1>1, ReplyIs
  <2> QED
    BY <1>1, <1>3, <2>1
<1>5. Granted \/ Refused
  <2>1. ~Silent
    BY <1>1, <1>4, EmptySeq DEF Silent
  <2> QED
    BY <2>1 DEF Tunnels, Requests
<1>6. CASE toClient[2] # Handshake!SOCKS_REP5_SUCCESS
  <2>1. Handshake!Recv(4, "reply", Handshake!Status("reply", "null"), "judge")
    BY <1>1, <1>4, <1>6, ReplyIs
  <2>2. toClient[2] = 1
    BY <1>5, <1>6 DEF Granted, Refused, Handshake!SOCKS_REP5_FAIL
  <2>3. step' = "judge" /\ rep'.type = "reply" /\ rep'.value = 1
    BY <1>1, <1>2, <1>3, <1>4, <2>1, <2>2
  <2> QED
    BY <2>3 DEF Tunnels, NotYet, Greets, Authenticates, Requests, Connects
<1>7. CASE toClient[2] = Handshake!SOCKS_REP5_SUCCESS
  <2>1. Granted
    BY <1>5, <1>7 DEF Refused, Handshake!SOCKS_REP5_SUCCESS, Handshake!SOCKS_REP5_FAIL
  <2>2. proxy.tunnel = Handshake!FtpPort /\ Waits("nothing")
    BY <2>1 DEF Granted, Left
  <2>3. CASE Len(toClient) = 11
    <3>1. toClient[4] = Handshake!SOCKS_ADDR_IPV4ADDR /\ toClient[11] = Handshake!Greeting
      BY <2>1, <2>3 DEF Granted, Left
    <3>2. Handshake!Recv(4, "reply", Handshake!Status("reply", rep.addr), "addr")
      BY <1>1, <1>4, <1>7, <3>1, ReplyIs
    <3>3. step' = "addr" /\ rep'.value = 0 /\ UNCHANGED <<open, proxy>>
      BY <1>1, <1>2, <1>3, <1>4, <1>7, <3>2 DEF Handshake!SOCKS_REP5_SUCCESS
    <3>4. Len(toClient') = 7 /\ toClient'[7] = Handshake!Greeting
      <4>1. 7 \in 1 .. Len(toClient) - 4 /\ 7 + 4 = 11
        BY <2>3
      <4> QED
        BY <1>3, <2>3, <3>1, <3>2, <4>1
    <3>5. Left(7)'
      BY <2>2, <3>3, <3>4 DEF Left, Waits
    <3> QED
      BY <3>3, <3>5 DEF Tunnels, NotYet, Greets, Authenticates, Requests, Connects
  <2>4. CASE Len(toClient) = 10
    <3>1. toClient[4] = Handshake!SOCKS_ADDR_HOSTNAME /\ toClient[10] = Handshake!Greeting /\ toClient[5] = 2
      BY <2>1, <2>4 DEF Granted, Left
    <3>2. Handshake!Recv(4, "reply", Handshake!Status("reply", rep.addr), "length")
      BY <1>1, <1>4, <1>7, <3>1, ReplyIs
    <3>3. step' = "length" /\ rep'.value = 0 /\ UNCHANGED <<open, proxy>>
      BY <1>1, <1>2, <1>3, <1>4, <1>7, <3>2 DEF Handshake!SOCKS_REP5_SUCCESS
    <3>4. Len(toClient') = 6 /\ toClient'[6] = Handshake!Greeting /\ toClient'[1] = 2
      <4>1. 6 \in 1 .. Len(toClient) - 4 /\ 6 + 4 = 10 /\ 1 \in 1 .. Len(toClient) - 4 /\ 1 + 4 = 5
        BY <2>4
      <4> QED
        BY <1>3, <2>4, <3>1, <3>2, <4>1
    <3>5. Left(6)'
      BY <2>2, <3>3, <3>4 DEF Left, Waits
    <3> QED
      BY <3>3, <3>4, <3>5 DEF Tunnels, NotYet, Greets, Authenticates, Requests, Connects
  <2> QED
    BY <2>1, <2>3, <2>4 DEF Granted
<1> QED
  BY <1>6, <1>7

(***************************************************************************)
(* The rest of the answer is read piece by piece, up to the greeting.        *)
(***************************************************************************)
LEMMA LeftShrinks ==
  ASSUME WellTyped, Handshake!Ftp5, NEW n \in Nat, NEW j \in Nat \ {0}, NEW k, k = j + n, Left(k),
         NEW seen, NEW next, Handshake!Recv(n, "reply", seen, next), ~(step' = "destroy" /\ result' = FALSE)
  PROVE  Left(j)' /\ step' = next /\ rep' = seen
<1>1. /\ step' = next /\ rep' = seen /\ UNCHANGED <<open, proxy>>
      /\ Len(toClient') = Len(toClient) - n
      /\ \A i \in 1 .. Len(toClient) - n : toClient'[i] = toClient[i + n]
  BY ReceivedIs
<1>2. Len(toClient) = k /\ toClient[k] = Handshake!Greeting /\ proxy.tunnel = Handshake!FtpPort /\ Waits("nothing")
  BY DEF Left
<1>3. j \in 1 .. k - n /\ k - n = j
  OBVIOUS
<1>4. Len(toClient') = j /\ toClient'[j] = Handshake!Greeting
  BY <1>1, <1>2, <1>3
<1>5. proxy'.tunnel = Handshake!FtpPort /\ Waits("nothing")'
  BY <1>1, <1>2 DEF Waits
<1> QED
  BY <1>1, <1>4, <1>5 DEF Left

(* Each piece of the answer leaves what LeftShrinks says. *)
LEMMA RestKeeps ==
  ASSUME WellTyped, Handshake!Ftp5, Tunnels, step # "reply", Handshake!Recv5Rep, ~(step' = "destroy" /\ result' = FALSE)
  PROVE  Tunnels'
<1>1. rep.count \in Nat /\ \A a, c : Handshake!WithAddress(a, c).value = rep.value /\ Handshake!WithAddress(a, c).count = c
                                   /\ Handshake!WithAddress(a, c).type = rep.type
  <2>1. rep.count \in Byte
    BY DEF WellTyped, Types
  <2> QED
    BY <2>1, PacketIs DEF Handshake!WithAddress, Byte
<1>2. CASE step = "addr"
  <2>1. Handshake!Recv(4, "reply", Handshake!WithAddress("set", rep.count), "port") /\ Left(7) /\ rep.value = 0
    BY <1>2 DEF Handshake!Recv5Rep, Handshake!RecvAddress, Tunnels, Connects
  <2>0. 7 = 3 + 4 /\ 3 \in Nat \ {0} /\ 4 \in Nat
    OBVIOUS
  <2>2. Left(3)' /\ step' = "port" /\ rep' = Handshake!WithAddress("set", rep.count)
    BY <2>0, <2>1, LeftShrinks
  <2>3. Left(3)' /\ rep'.value = 0
    BY <1>1, <2>1, <2>2
  <2> QED
    BY <2>2, <2>3 DEF Tunnels, NotYet, Greets, Authenticates, Requests, Connects
<1>3. CASE step = "length"
  <2> DEFINE c == IF toClient = <<>> THEN 0 ELSE toClient[1]
  <2>1. Handshake!Recv(1, "reply", Handshake!WithAddress(rep.addr, c), "name")
    BY <1>3 DEF Handshake!Recv5Rep
  <2>2. Left(6) /\ rep.value = 0 /\ toClient[1] = 2
    BY <1>3 DEF Tunnels, Connects
  <2>3. c = 2
    <3>1. Len(toClient) = 6 /\ Len(<<>>) = 0
      BY <2>2, EmptySeq DEF Left
    <3>2. toClient # <<>>
      BY <3>1
    <3> QED
      BY <2>2, <3>2
  <2>4. Handshake!Recv(1, "reply", Handshake!WithAddress(rep.addr, 2), "name")
    BY <2>1, <2>3
  <2> HIDE DEF c
  <2>0. 6 = 5 + 1 /\ 5 \in Nat \ {0} /\ 1 \in Nat
    OBVIOUS
  <2>5. Left(5)' /\ step' = "name" /\ rep' = Handshake!WithAddress(rep.addr, 2)
    BY <2>0, <2>2, <2>4, LeftShrinks
  <2>6. Left(5)' /\ rep'.value = 0 /\ rep'.count = 2
    BY <1>1, <2>2, <2>5
  <2> QED
    BY <2>5, <2>6 DEF Tunnels, NotYet, Greets, Authenticates, Requests, Connects
<1>4. CASE step = "name"
  <2>1. Handshake!Recv(2, "reply", Handshake!WithAddress("set", 2), "port") /\ Left(5) /\ rep.value = 0
    BY <1>4 DEF Handshake!Recv5Rep, Handshake!RecvAddress, Tunnels, Connects
  <2>0. 5 = 3 + 2 /\ 3 \in Nat \ {0} /\ 2 \in Nat
    OBVIOUS
  <2>2. Left(3)' /\ step' = "port" /\ rep' = Handshake!WithAddress("set", 2)
    BY <2>0, <2>1, LeftShrinks
  <2>3. Left(3)' /\ rep'.value = 0
    BY <1>1, <2>1, <2>2
  <2> QED
    BY <2>2, <2>3 DEF Tunnels, NotYet, Greets, Authenticates, Requests, Connects
<1>5. CASE step = "port"
  <2>1. Handshake!Recv(2, "reply", rep, "judge") /\ Left(3) /\ rep.value = 0 /\ rep.type = "reply"
    BY <1>5 DEF Handshake!Recv5Rep, Tunnels, Connects, WellTyped, BeingRead
  <2>0. 3 = 1 + 2 /\ 1 \in Nat \ {0} /\ 2 \in Nat
    OBVIOUS
  <2>2. Left(1)' /\ step' = "judge" /\ rep' = rep
    BY <2>0, <2>1, LeftShrinks
  <2>3. Left(1)' /\ rep'.value = 0 /\ rep'.type = "reply"
    BY <2>1, <2>2
  <2> QED
    BY <2>2, <2>3 DEF Tunnels, NotYet, Greets, Authenticates, Requests, Connects
<1> QED
  BY <1>2, <1>3, <1>4, <1>5 DEF Handshake!Recv5Rep

(* RecvOK lets the FTP client on only where the proxy is with it. *)
LEMMA JudgeKeeps ==
  ASSUME WellTyped, Handshake!Ftp5, Tunnels, Handshake!RecvOK, ~(step' = "destroy" /\ result' = FALSE)
  PROVE  Tunnels'
<1>1. step = "judge" /\ UNCHANGED <<Handshake!fixed, toProxy, toClient, open, proxy, rep>>
  BY DEF Handshake!RecvOK, Handshake!wires
<1>2. rep.type \in {"greeting", "password", "reply"}
  BY <1>1 DEF Tunnels, Connects
<1>3. PICK v \in Handshake!Values :
          CASE rep.type = "greeting" ->
                 Handshake!Then(v \notin {0, 1, 2, 3}, IF v = Handshake!SOCKS_AUTH_PASSWD THEN "password" ELSE "request")
            [] rep.type = "password" -> Handshake!Then(v # 0, "request")
            [] rep.type = "reply"    -> Handshake!Return(~Handshake!EndsAt(v # Handshake!SOCKS_REP5_SUCCESS))
            [] rep.type = "reply4"   -> Handshake!Return(TRUE)
  BY DEF Handshake!RecvOK
<1>4. CASE rep.type = "greeting"
  <2>1. Silent /\ rep.value = proxy.method /\ proxy.method \in Methods /\ Asked(AfterMethod, <<>>)
    BY <1>1, <1>4 DEF Tunnels, Greets
  <2>2. v = proxy.method
    BY <2>1 DEF Handshake!Values, Methods, Handshake!Unset, Handshake!SOCKS_AUTH_NONE, Handshake!SOCKS_AUTH_PASSWD, Handshake!SOCKS_AUTH_UNKNOWN
  <2>3. Handshake!Then(v \notin {0, 1, 2, 3}, IF v = Handshake!SOCKS_AUTH_PASSWD THEN "password" ELSE "request")
    BY <1>3, <1>4
  <2>4. v \in {0, 2} /\ step' = (IF v = Handshake!SOCKS_AUTH_PASSWD THEN "password" ELSE "request") /\ UNCHANGED result
    <3>1. v \in {0, 2, 255}
      BY <2>1, <2>2 DEF Methods, Handshake!SOCKS_AUTH_NONE, Handshake!SOCKS_AUTH_PASSWD, Handshake!SOCKS_AUTH_UNKNOWN
    <3>2. v # 255
      BY <2>3 DEF Handshake!Then, Handshake!EndsAt, Handshake!Return, Handshake!Ftp5
    <3>3. v \in {0, 2}
      BY <3>1, <3>2
    <3> QED
      BY <2>3, <3>3 DEF Handshake!Then, Handshake!EndsAt
  <2>5. Silent'
    BY <1>1, <2>1 DEF Silent
  <2>6. CASE v = 2
    <3>1. step' = "password" /\ proxy'.method = Handshake!SOCKS_AUTH_PASSWD
      BY <1>1, <2>2, <2>4, <2>6 DEF Handshake!SOCKS_AUTH_PASSWD
    <3>2. Asked("password", <<>>)'
      <4>1. AfterMethod = "password"
        BY <2>2, <2>6 DEF AfterMethod, Handshake!SOCKS_AUTH_PASSWD, Handshake!SOCKS_AUTH_NONE
      <4> QED
        BY <1>1, <2>1, <4>1 DEF Asked
    <3> QED
      BY <2>5, <3>1, <3>2 DEF Tunnels, NotYet, Greets, Authenticates, Requests, Connects
  <2>7. CASE v = 0
    <3>1. step' = "request" /\ proxy'.method # Handshake!SOCKS_AUTH_PASSWD
      BY <1>1, <2>2, <2>4, <2>7 DEF Handshake!SOCKS_AUTH_PASSWD
    <3>2. Believed' /\ PasswordIsKnown'
      <4>1. AfterMethod = "request"
        BY <2>2, <2>7 DEF AfterMethod, Handshake!SOCKS_AUTH_PASSWD, Handshake!SOCKS_AUTH_NONE
      <4> QED
        BY <1>1, <2>1, <3>1, <4>1 DEF Asked, Believed, PasswordIsKnown
    <3> QED
      BY <2>5, <3>1, <3>2 DEF Tunnels, NotYet, Greets, Authenticates, Requests, Connects
  <2> QED
    BY <2>4, <2>6, <2>7
<1>5. CASE rep.type = "password"
  <2>1. Silent /\ rep.value \in {0, 1} /\ Judged(rep.value)
    BY <1>1, <1>5 DEF Tunnels, Authenticates
  <2>2. Handshake!Then(v # 0, "request") /\ v = rep.value
    BY <1>3, <1>5, <2>1 DEF Handshake!Values, Handshake!Unset
  <2>3. v = 0
    BY <2>2 DEF Handshake!Then, Handshake!EndsAt, Handshake!Return, Handshake!Ftp5
  <2>4. step' = "request"
    BY <2>2, <2>3 DEF Handshake!Then, Handshake!EndsAt
  <2>5. Silent' /\ PasswordIsKnown' /\ Believed'
    BY <1>1, <1>5, <2>1, <2>2, <2>3 DEF Silent, PasswordIsKnown, Judged, Believed, NoRequest
  <2> QED
    BY <2>4, <2>5 DEF Tunnels, NotYet, Greets, Authenticates, Requests, Connects
<1>6. CASE rep.type = "reply"
  <2>1. rep.value = 1 \/ (rep.value = 0 /\ Left(1))
    BY <1>1, <1>6 DEF Tunnels, Connects
  <2>2. Handshake!Return(~Handshake!EndsAt(v # Handshake!SOCKS_REP5_SUCCESS)) /\ v = rep.value
    BY <1>3, <1>6, <2>1 DEF Handshake!Values, Handshake!Unset
  <2>3. v = 0
    <3> SUFFICES ASSUME v # 0 PROVE FALSE
      OBVIOUS
    <3>1. Handshake!EndsAt(v # Handshake!SOCKS_REP5_SUCCESS)
      BY DEF Handshake!EndsAt, Handshake!Ftp5, Handshake!SOCKS_REP5_SUCCESS
    <3>2. (~Handshake!EndsAt(v # Handshake!SOCKS_REP5_SUCCESS)) = FALSE
      BY <3>1
    <3> QED
      BY <2>2, <3>2 DEF Handshake!Return
  <2>4. step' = "destroy" /\ Left(1)
    BY <2>1, <2>2, <2>3 DEF Handshake!Return
  <2>5. Left(1)'
    BY <1>1, <2>4 DEF Left, Waits
  <2> QED
    BY <2>4, <2>5 DEF Tunnels, NotYet, Greets, Authenticates, Requests, Connects
<1> QED
  BY <1>2, <1>4, <1>5, <1>6

(* The destructor changes nothing that matters. *)
LEMMA DestroyKeeps == ASSUME Handshake!Ftp5, Tunnels, Handshake!RecvDestroy PROVE Tunnels'
<1>1. step = "destroy" /\ step' \in {"done", "crashed"} /\ UNCHANGED <<toClient, open, proxy, result>>
  BY DEF Handshake!RecvDestroy, Handshake!wires
<1>2. result => Left(1)
  BY <1>1 DEF Tunnels, Connects
<1>3. result' => Left(1)'
  BY <1>1, <1>2 DEF Left, Waits
<1> QED
  BY <1>1, <1>3 DEF Tunnels, NotYet, Greets, Authenticates, Requests, Connects

-----------------------------------------------------------------------------
\* The client has given up, or is about to: nothing depends on the connection any more.
GivenUp ==
    \/ step = "crashed" \/ (step \in {"destroy", "done"} /\ result = FALSE)
    \/ (step = "judge" /\ rep.type = "reply" /\ rep.value = 1)

(***************************************************************************)
(* Whoever the proxy answers: a client that waits for the answer, or one that has given up. *)
(***************************************************************************)
LEMMA WhoIsAnswered ==
  ASSUME WellTyped, Handshake!Ftp5, Tunnels, open = "yes", toProxy # <<>>, proxy.waits # "nothing"
  PROVE  \/ /\ step = "greetingReply" /\ Silent /\ proxy.waits = "greeting" /\ toProxy = Handshake!Pack5AuthReq
            /\ proxy.method = Handshake!SOCKS_AUTH_NONE
         \/ /\ step = "passwordReply" /\ Silent /\ proxy.waits = "password" /\ toProxy = Handshake!Pack5PassReq
            /\ proxy.method = Handshake!SOCKS_AUTH_PASSWD
         \/ /\ step = "reply" /\ Silent /\ PasswordIsKnown /\ proxy.waits = "request"
            /\ toProxy = Handshake!Pack5Req \/ NoRequest
         \/ proxy.waits = "request" /\ NoRequest
         \/ GivenUp
<1>1. step \in Places /\ result \in BOOLEAN
  BY DEF WellTyped, Types
<1>2. NotYet /\ Greets /\ Authenticates /\ Requests /\ Connects
  BY DEF Tunnels
<1>3. step \notin {"connect", "greeting", "password", "request4", "reply4", "port4", "addr4"}
  BY <1>2 DEF NotYet, Greets, Authenticates, Asked
<1>4. \A k : ~Left(k)
  BY DEF Left, Waits
<1>5. step \notin {"addr", "length", "name", "port"}
  BY <1>2, <1>4 DEF Connects
<1>6. CASE step \in {"destroy", "done", "crashed"}
  BY <1>1, <1>2, <1>4, <1>6 DEF Connects, GivenUp
<1>7. CASE step = "judge"
  <2>1. rep.type \in {"greeting", "password", "reply"}
    BY <1>2, <1>7 DEF Connects
  <2>2. rep.type # "greeting"
    BY <1>2, <1>7 DEF Greets, Asked
  <2>3. CASE rep.type = "password"
    BY <1>2, <1>7, <2>3 DEF Authenticates, Judged, Believed, Waits
  <2>4. CASE rep.type = "reply"
    BY <1>2, <1>4, <1>7, <2>4 DEF Connects, GivenUp
  <2> QED
    BY <2>1, <2>2, <2>3, <2>4
<1>8. CASE step = "greetingReply"
  BY <1>2, <1>8 DEF Greets, Asked
<1>9. CASE step = "passwordReply"
  BY <1>2, <1>9 DEF Authenticates, Asked, Judged, Believed, Waits
<1>10. CASE step = "request"
  BY <1>2, <1>10 DEF Requests, Believed
<1>11. CASE step = "reply"
  BY <1>2, <1>4, <1>11 DEF Requests, Granted, Refused, Waits
<1> QED
  BY <1>1, <1>3, <1>5, <1>6, <1>7, <1>8, <1>9, <1>10, <1>11 DEF Places

(* A client that has given up is not concerned by what the proxy does. *)
LEMMA GivenUpKeeps == ASSUME Tunnels, GivenUp, UNCHANGED <<step, rep, result>> PROVE Tunnels'
BY DEF GivenUp, Tunnels, NotYet, Greets, Authenticates, Requests, Connects

(* A proxy that hangs up takes no promise back. *)
LEMMA HangupKeeps ==
  ASSUME Handshake!Ftp5, Tunnels, open = "yes", Handshake!Hangup, UNCHANGED <<Handshake!fixed, step, rep, result>> PROVE Tunnels'
<1>1. open' = "closed" /\ UNCHANGED <<Handshake!fixed, toProxy, toClient, proxy, step, rep, result>>
  BY DEF Handshake!Hangup
<1>2. Silent' = Silent /\ AfterMethod' = AfterMethod /\ PasswordIsKnown' = PasswordIsKnown
  BY <1>1 DEF Silent, AfterMethod, PasswordIsKnown
<1>3. \A w, b : Asked(w, b)' /\ Waits(w)'
  BY <1>1 DEF Asked, Waits
<1>4. Believed' /\ \A v : Judged(v)'
  BY <1>1 DEF Believed, Judged, Waits
<1>5. \A k : Left(k) => Left(k)'
  BY <1>1 DEF Left, Waits
<1>6. (Granted => Granted') /\ (Refused => Refused')
  BY <1>1 DEF Granted, Refused, Left, Waits
<1>7. NotYet /\ Greets /\ Authenticates /\ Requests /\ Connects
  BY DEF Tunnels
<1>8. NotYet'
  BY <1>1, <1>7 DEF NotYet
<1>9. Greets'
  BY <1>1, <1>2, <1>3, <1>7 DEF Greets, Asked
<1>10. Authenticates'
  BY <1>1, <1>2, <1>3, <1>4, <1>7 DEF Authenticates, Asked
<1>11. Requests'
  BY <1>1, <1>2, <1>4, <1>6, <1>7 DEF Requests
<1>12. Connects'
  BY <1>1, <1>5, <1>7 DEF Connects
<1> QED
  BY <1>8, <1>9, <1>10, <1>11, <1>12 DEF Tunnels

-----------------------------------------------------------------------------
\* What the packets and the answers have in them.
(* The greeting says how many methods it offers. *)
LEMMA AuthReqIs ==
  /\ Len(Handshake!Pack5AuthReq) = 2 + Handshake!Pack5AuthReq[2] /\ Handshake!Pack5AuthReq[2] \in Nat
  /\ \A i \in 3 .. Len(Handshake!Pack5AuthReq) : Handshake!Pack5AuthReq[i] \in {Handshake!SOCKS_AUTH_NONE, Handshake!SOCKS_AUTH_PASSWD}
<1>1. CASE auth
  <2>1. Handshake!Pack5AuthReq = <<5, 2, Handshake!SOCKS_AUTH_NONE, Handshake!SOCKS_AUTH_PASSWD>>
    BY <1>1 DEF Handshake!Pack5AuthReq
  <2> QED
    BY <2>1
<1>2. CASE ~auth
  <2>1. Handshake!Pack5AuthReq = <<5, 1, Handshake!SOCKS_AUTH_NONE>>
    BY <1>2 DEF Handshake!Pack5AuthReq
  <2> QED
    BY <2>1
<1> QED
  BY <1>1, <1>2

(* The length of the packet with the password, and the bytes behind the password. *)
LEMMA PassReqIs ==
  ASSUME Types
  PROVE  /\ Len(Handshake!Pack5PassReq) = 3 + luser + luser
         /\ \A i \in 3 + luser + lpass + 1 .. 3 + luser + luser : Handshake!Pack5PassReq[i] = 0
<1> DEFINE a == <<1, luser>> \o Handshake!UserBytes
           b == a \o <<lpass>>
           r == Handshake!Read(Handshake!PassBytes, luser)
<1>1. luser \in Nat /\ lpass \in Nat /\ Handshake!UserBytes \in Seq(Byte) /\ Len(Handshake!UserBytes) = luser
      /\ r \in Seq(Byte) /\ Len(r) = luser /\ \A i \in lpass + 1 .. luser : r[i] = 0
  BY PassIs, ReadIs DEF Types, Byte
<1>2. <<1, luser>> \in Seq(Byte) /\ Len(<<1, luser>>) = 2 /\ <<lpass>> \in Seq(Byte) /\ Len(<<lpass>>) = 1
  BY DEF Types, Byte
<1> HIDE DEF r
<1>3. a \in Seq(Byte) /\ Len(a) = 2 + luser
  BY <1>1, <1>2, ConcatProperties
<1> HIDE DEF a
<1>4. b \in Seq(Byte) /\ Len(b) = 3 + luser
  <2>1. Len(b) = Len(a) + Len(<<lpass>>) /\ b \in Seq(Byte)
    BY <1>2, <1>3, ConcatProperties
  <2> QED
    BY <1>1, <1>2, <1>3, <2>1
<1> HIDE DEF b
<1>5. Len(b \o r) = Len(b) + Len(r) /\ \A i \in 1 .. Len(b) + Len(r) :
          (b \o r)[i] = IF i <= Len(b) THEN b[i] ELSE r[i - Len(b)]
  BY <1>1, <1>4, ConcatProperties
<1>6. ASSUME NEW i \in 3 + luser + lpass + 1 .. 3 + luser + luser PROVE (b \o r)[i] = 0
  <2>1. i \in 1 .. Len(b) + Len(r) /\ ~(i <= Len(b)) /\ i - Len(b) \in lpass + 1 .. luser
    BY <1>1, <1>4
  <2> QED
    BY <1>1, <1>5, <2>1
<1>7. Handshake!Pack5PassReq = b \o r
  BY DEF Handshake!Pack5PassReq, a, b, r
<1> QED
  BY <1>1, <1>4, <1>5, <1>6, <1>7

(* The request asks for the FTP port. *)
LEMMA ReqIs ==
  ASSUME Handshake!Ftp5
  PROVE  /\ Len(Handshake!Pack5Req) = IF byName THEN 9 ELSE 10
         /\ Handshake!Pack5Req[1] = 5 /\ Handshake!Pack5Req[4] = IF byName THEN 3 ELSE 1
         /\ Handshake!Pack5Req[Len(Handshake!Pack5Req) - 1] = 0 /\ Handshake!Pack5Req[Len(Handshake!Pack5Req)] = 21
<1>1. Handshake!DestPort = <<0, 21>>
  BY DEF Handshake!DestPort, Handshake!FtpPort, Handshake!Ftp5
<1>2. CASE byName
  <2>1. Handshake!Pack5Req = <<5, 1, 0>> \o (<<3, Len(Handshake!HostName)>> \o Handshake!HostName) \o <<0, 21>>
    BY <1>1, <1>2 DEF Handshake!Pack5Req, Handshake!SOCKS_ADDR_HOSTNAME
  <2>2. Len(Handshake!Pack5Req) = 9
    BY <2>1 DEF Handshake!HostName
  <2>3. Handshake!Pack5Req[1] = 5 /\ Handshake!Pack5Req[4] = 3 /\ Handshake!Pack5Req[8] = 0 /\ Handshake!Pack5Req[9] = 21
    BY <2>1 DEF Handshake!HostName
  <2> QED
    BY <1>2, <2>2, <2>3
<1>3. CASE ~byName
  <2>1. Handshake!Pack5Req = <<5, 1, 0>> \o (<<1>> \o Handshake!Address) \o <<0, 21>>
    BY <1>1, <1>3 DEF Handshake!Pack5Req, Handshake!SOCKS_ADDR_IPV4ADDR
  <2>2. Len(Handshake!Pack5Req) = 10
    BY <2>1 DEF Handshake!Address
  <2>3. Handshake!Pack5Req[1] = 5 /\ Handshake!Pack5Req[4] = 1 /\ Handshake!Pack5Req[9] = 0 /\ Handshake!Pack5Req[10] = 21
    BY <2>1 DEF Handshake!Address
  <2> QED
    BY <1>3, <2>2, <2>3
<1> QED
  BY <1>2, <1>3

(* An answer that grants a request, for both kinds of address. *)
LEMMA YesIs ==
  /\ Len(Yes(Bound4)) = 11 /\ Yes(Bound4)[2] = 0 /\ Yes(Bound4)[4] = 1 /\ Yes(Bound4)[11] = 220
  /\ Len(Yes(BoundName)) = 10 /\ Yes(BoundName)[2] = 0 /\ Yes(BoundName)[4] = 3
  /\ Yes(BoundName)[5] = 2 /\ Yes(BoundName)[10] = 220
<1>1. Len(Yes(Bound4)) = 11 /\ Yes(Bound4)[2] = 0 /\ Yes(Bound4)[4] = 1 /\ Yes(Bound4)[11] = 220
  BY DEF Yes, Bound4, Handshake!SOCKS_REP5_SUCCESS, Handshake!SOCKS_ADDR_IPV4ADDR, Handshake!Greeting
<1>2. /\ Len(Yes(BoundName)) = 10 /\ Yes(BoundName)[2] = 0 /\ Yes(BoundName)[4] = 3
      /\ Yes(BoundName)[5] = 2 /\ Yes(BoundName)[10] = 220
  BY DEF Yes, BoundName, Handshake!SOCKS_REP5_SUCCESS, Handshake!SOCKS_ADDR_HOSTNAME, Handshake!Greeting
<1> QED
  BY <1>1, <1>2

(* An answer that refuses it. *)
LEMMA NoIs == Len(No) = 10 /\ No[2] = 1
BY DEF No, Handshake!SOCKS_REP5_FAIL

(* What the proxy says to a client that has read everything is all there is to read. *)
LEMMA SaidIs == ASSUME Silent, NEW s \in Seq(Byte), Handshake!Say(s) PROVE toClient' = s
BY ConcatEmptySeq DEF Silent, Handshake!Say

(* What a read of the proxy leaves. *)
LEMMA ReadAll ==
  ASSUME WellTyped, NEW n \in Nat, NEW next, Handshake!ProxyReads(n, next)
  PROVE  /\ proxy' = next /\ n <= Len(toProxy) /\ toProxy' \in Seq(Byte) /\ Len(toProxy') = Len(toProxy) - n
         /\ \A i \in 1 .. Len(toProxy) - n : toProxy'[i] = toProxy[i + n]
<1>1. toProxy \in Seq(Byte) /\ Len(toProxy) \in Nat
  BY LenProperties DEF WellTyped, Types
<1> QED
  BY <1>1, RestIs DEF Handshake!ProxyReads
-----------------------------------------------------------------------------
(* The proxy chooses a method of those it was offered, or none. *)
LEMMA GreetedKeeps ==
  ASSUME WellTyped, Handshake!Ftp5, Tunnels, open = "yes", Handshake!ProxyGreeted, UNCHANGED <<Handshake!fixed, step, rep, result>>
  PROVE  Tunnels'
<1>1. proxy.waits = "greeting" /\ toProxy # <<>> /\ open' = "yes"
  BY EmptySeq DEF Handshake!ProxyGreeted
<1>2. \/ GivenUp
      \/ step = "greetingReply" /\ Silent /\ toProxy = Handshake!Pack5AuthReq
  BY <1>1, WhoIsAnswered
<1>3. CASE step = "greetingReply" /\ Silent /\ toProxy = Handshake!Pack5AuthReq
  <2> DEFINE n == 2 + toProxy[2]
  <2>1. PICK m \in {toProxy[i] : i \in 3 .. n} \cup {Handshake!SOCKS_AUTH_UNKNOWN} :
             /\ Handshake!ProxyReads(n, Handshake!Proxy(CASE m = Handshake!SOCKS_AUTH_PASSWD -> "password"
                                       [] m = Handshake!SOCKS_AUTH_NONE -> "request"
                                       [] OTHER -> "nothing", m, proxy.tunnel))
             /\ Handshake!Say(<<5, m>>)
    BY DEF Handshake!ProxyGreeted
  <2>2. n = Len(toProxy) /\ n \in Nat /\ \A i \in 3 .. n : toProxy[i] \in {Handshake!SOCKS_AUTH_NONE, Handshake!SOCKS_AUTH_PASSWD}
    BY <1>3, AuthReqIs
  <2> HIDE DEF n
  <2>3. m \in Methods
    BY <2>1, <2>2 DEF Methods
  <2>4. toProxy' = <<>>
    <3>1. toProxy' \in Seq(Byte) /\ Len(toProxy') = Len(toProxy) - n
      BY <2>1, <2>2, ReadAll
    <3> QED
      BY <2>2, <3>1, NothingIs
  <2>5. toClient' = <<5, m>>
    <3>1. <<5, m>> \in Seq(Byte)
      BY <2>3 DEF Methods, Byte, Handshake!SOCKS_AUTH_NONE, Handshake!SOCKS_AUTH_PASSWD, Handshake!SOCKS_AUTH_UNKNOWN
    <3> QED
      BY <1>3, <2>1, <3>1, SaidIs
  <2>6. Len(toClient') = 2 /\ toClient'[2] = m
    BY <2>5
  <2> DEFINE w == CASE m = Handshake!SOCKS_AUTH_PASSWD -> "password"
                    [] m = Handshake!SOCKS_AUTH_NONE -> "request"
                    [] OTHER -> "nothing"
  <2>7. proxy' = Handshake!Proxy(w, m, proxy.tunnel)
    BY <2>1 DEF Handshake!ProxyReads
  <2>8. proxy'.method = m /\ proxy'.waits = w
    <3> HIDE DEF w
    <3> QED
      BY <2>7, ProxyIs
  <2>9. AfterMethod' = w
    BY <2>8 DEF AfterMethod
  <2>10. Asked(AfterMethod, <<>>)'
    BY <2>4, <2>8, <2>9 DEF Asked
  <2> QED
    BY <1>3, <2>3, <2>6, <2>8, <2>10 DEF Tunnels, NotYet, Greets, Authenticates, Requests, Connects
<1> QED
  BY <1>2, <1>3, GivenUpKeeps

(* The proxy judges the password; what the packet had too much is no request. *)
LEMMA AuthenticatesKeeps ==
  ASSUME WellTyped, Handshake!Ftp5, Tunnels, open = "yes", Handshake!ProxyAuthenticates, UNCHANGED <<Handshake!fixed, step, rep, result>>
  PROVE  Tunnels'
<1>1. luser \in Nat /\ lpass \in Nat /\ Types
  BY DEF WellTyped, Types, Byte
<1>2. proxy.waits = "password" /\ toProxy # <<>> /\ open' = "yes"
  BY <1>1, EmptySeq DEF Handshake!ProxyAuthenticates
<1>3. \/ GivenUp
      \/ step = "passwordReply" /\ Silent /\ toProxy = Handshake!Pack5PassReq /\ proxy.method = Handshake!SOCKS_AUTH_PASSWD
  BY <1>2, WhoIsAnswered
<1>4. CASE step = "passwordReply" /\ Silent /\ toProxy = Handshake!Pack5PassReq /\ proxy.method = Handshake!SOCKS_AUTH_PASSWD
  <2> DEFINE k == 3 + luser + lpass
  <2>1. k \in Nat
    BY <1>1
  <2>2. \/ Handshake!ProxyReads(k, Handshake!Proxy("request", proxy.method, proxy.tunnel)) /\ Handshake!Say(<<1, 0>>)
        \/ Handshake!ProxyReads(k, Handshake!Proxy("nothing", proxy.method, proxy.tunnel)) /\ Handshake!Say(<<1, 1>>)
    BY DEF Handshake!ProxyAuthenticates
  <2>3. /\ k <= Len(toProxy) /\ toProxy' \in Seq(Byte) /\ Len(toProxy') = Len(toProxy) - k
        /\ \A i \in 1 .. Len(toProxy) - k : toProxy'[i] = toProxy[i + k]
    BY <2>1, <2>2, ReadAll
  <2>4. proxy'.method = Handshake!SOCKS_AUTH_PASSWD
    BY <1>4, <2>1, <2>2, ReadAll, ProxyIs
  <2>5. toProxy' = <<>> \/ NoRequest'
    <3>1. Len(toProxy) = 3 + luser + luser
          /\ \A i \in 3 + luser + lpass + 1 .. 3 + luser + luser : toProxy[i] = 0
      BY <1>1, <1>4, PassReqIs
    <3>2. CASE Len(toProxy) = k
      BY <2>1, <2>3, <3>2, NothingIs
    <3>3. CASE Len(toProxy) # k
      <4>1. 1 \in 1 .. Len(toProxy) - k /\ 1 + k \in 3 + luser + lpass + 1 .. 3 + luser + luser
        BY <1>1, <2>3, <3>1, <3>3
      <4>2. toProxy'[1] = 0
        BY <2>3, <3>1, <4>1
      <4>3. Len(toProxy') # 0
        BY <1>1, <2>3, <3>1, <3>3
      <4> QED
        BY <4>2, <4>3, EmptySeq DEF NoRequest
    <3> QED
      BY <3>2, <3>3
  <2>6. CASE Handshake!ProxyReads(k, Handshake!Proxy("request", proxy.method, proxy.tunnel)) /\ Handshake!Say(<<1, 0>>)
    <3>1. toClient' = <<1, 0>>
      <4>1. <<1, 0>> \in Seq(Byte)
        BY DEF Byte
      <4> QED
        BY <1>4, <2>6, <4>1, SaidIs
    <3>2. Len(toClient') = 2 /\ toClient'[2] = 0
      BY <3>1
    <3>3. proxy'.waits = "request"
      BY <2>6, ProxyIs DEF Handshake!ProxyReads
    <3>4. Judged(toClient[2])'
      BY <2>5, <3>2, <3>3 DEF Judged, Believed
    <3> QED
      BY <1>4, <2>4, <3>2, <3>4 DEF Tunnels, NotYet, Greets, Authenticates, Requests, Connects
  <2>7. CASE Handshake!ProxyReads(k, Handshake!Proxy("nothing", proxy.method, proxy.tunnel)) /\ Handshake!Say(<<1, 1>>)
    <3>1. toClient' = <<1, 1>>
      <4>1. <<1, 1>> \in Seq(Byte)
        BY DEF Byte
      <4> QED
        BY <1>4, <2>7, <4>1, SaidIs
    <3>2. Len(toClient') = 2 /\ toClient'[2] = 1
      BY <3>1
    <3>3. proxy'.waits = "nothing"
      BY <2>7, ProxyIs DEF Handshake!ProxyReads
    <3>4. Judged(toClient[2])'
      BY <3>2, <3>3 DEF Judged, Waits
    <3> QED
      BY <1>4, <2>4, <3>2, <3>4 DEF Tunnels, NotYet, Greets, Authenticates, Requests, Connects
  <2> QED
    BY <2>2, <2>6, <2>7
<1> QED
  BY <1>3, <1>4, GivenUpKeeps

(* The tunnel leads to the port of the request. *)
LEMMA PortIs ==
  ASSUME WellTyped, Handshake!Ftp5, toProxy = Handshake!Pack5Req
  PROVE  SubSeq(toProxy, Handshake!RequestLength - 1, Handshake!RequestLength) = Handshake!FtpPort
<1>1. toProxy \in Seq(Byte) /\ Len(toProxy) \in Nat /\ \A i \in 1 .. Len(toProxy) : toProxy[i] \in Byte
  BY LenProperties, ElementOfSeq DEF WellTyped, Types
<1>2. Handshake!RequestLength = Len(toProxy) /\ Len(toProxy) >= 9
  <2>1. CASE byName
    <3>1. Len(toProxy) = 9 /\ toProxy[4] = 3
      BY <2>1, ReqIs
    <3> QED
      BY <3>1, LengthIs
  <2>2. CASE ~byName
    BY <2>2, ReqIs, LengthIs
  <2> QED
    BY <2>1, <2>2
<1> DEFINE l == Len(toProxy)
           s == SubSeq(toProxy, l - 1, l)
<1>3. s \in Seq(Byte) /\ Len(s) = 2 /\ s[1] = toProxy[l - 1] /\ s[2] = toProxy[l]
  <2>1. \A i \in l - 1 .. l : toProxy[i] \in Byte
    BY <1>1, <1>2
  <2>2. /\ s \in Seq(Byte) /\ Len(s) = IF l - 1 <= l THEN l - (l - 1) + 1 ELSE 0
        /\ \A i \in 1 .. l - (l - 1) + 1 : s[i] = toProxy[l - 1 + i - 1]
    BY <1>1, <1>2, <2>1, SubSeqProperties
  <2>3. l - (l - 1) + 1 = 2 /\ l - 1 + 1 - 1 = l - 1 /\ l - 1 + 2 - 1 = l /\ l - 1 <= l
    BY <1>1
  <2> QED
    BY <2>2, <2>3
<1>4. toProxy[l - 1] = 0 /\ toProxy[l] = 21
  BY ReqIs
<1> HIDE DEF s
<1>5. s = <<0, 21>>
  BY <1>3, <1>4
<1> QED
  BY <1>2, <1>5 DEF Handshake!FtpPort, s

(* The proxy grants the request, refuses it or hangs up. *)
LEMMA ConnectsKeeps ==
  ASSUME WellTyped, Handshake!Ftp5, Tunnels, open = "yes", Handshake!ProxyConnects, UNCHANGED <<Handshake!fixed, step, rep, result>>
  PROVE  Tunnels'
<1>1. proxy.waits = "request" /\ toProxy # <<>>
  BY ConnectsIs
<1>2. CASE Handshake!Hangup
  BY <1>2, HangupKeeps
<1>3. CASE ~Handshake!Hangup
  <2>1. /\ toProxy[1] = 5 /\ open' = "yes"
        /\ \/ \E bound \in {Bound4, BoundName} :
                  Handshake!ProxyReads(Handshake!RequestLength, Handshake!Proxy("nothing", proxy.method,
                         SubSeq(toProxy, Handshake!RequestLength - 1, Handshake!RequestLength))) /\ Handshake!Say(Yes(bound))
           \/ Handshake!ProxyReads(Handshake!RequestLength, Handshake!Proxy("nothing", proxy.method, proxy.tunnel)) /\ Handshake!Say(No)
    BY <1>3, ConnectsIs
  <2>2. GivenUp \/ (step = "reply" /\ Silent /\ PasswordIsKnown /\ toProxy = Handshake!Pack5Req)
    BY <1>1, <2>1, WhoIsAnswered DEF NoRequest
  <2>3. CASE step = "reply" /\ Silent /\ PasswordIsKnown /\ toProxy = Handshake!Pack5Req
    <3>1. ASSUME NEW bound \in {Bound4, BoundName},
                 Handshake!ProxyReads(Handshake!RequestLength, Handshake!Proxy("nothing", proxy.method,
                         SubSeq(toProxy, Handshake!RequestLength - 1, Handshake!RequestLength))), Handshake!Say(Yes(bound))
          PROVE  Granted' /\ PasswordIsKnown'
      <4>1. proxy' = Handshake!Proxy("nothing", proxy.method, Handshake!FtpPort)
        BY <2>3, <3>1, PortIs DEF Handshake!ProxyReads
      <4>2. proxy'.waits = "nothing" /\ proxy'.method = proxy.method /\ proxy'.tunnel = Handshake!FtpPort
        BY <4>1, ProxyIs
      <4>3. toClient' = Yes(bound)
        BY <2>3, <3>1, AnswersAreBytes, SaidIs
      <4>4. /\ Len(toClient') \in {10, 11} /\ toClient'[Len(toClient')] = Handshake!Greeting
            /\ toClient'[2] = Handshake!SOCKS_REP5_SUCCESS
            /\ toClient'[4] = IF Len(toClient') = 11 THEN Handshake!SOCKS_ADDR_IPV4ADDR ELSE Handshake!SOCKS_ADDR_HOSTNAME
            /\ Len(toClient') = 10 => toClient'[5] = 2
        <5>1. CASE bound = Bound4
          BY <4>3, <5>1, YesIs DEF Handshake!Greeting, Handshake!SOCKS_REP5_SUCCESS, Handshake!SOCKS_ADDR_IPV4ADDR
        <5>2. CASE bound = BoundName
          BY <4>3, <5>2, YesIs DEF Handshake!Greeting, Handshake!SOCKS_REP5_SUCCESS, Handshake!SOCKS_ADDR_HOSTNAME
        <5> QED
          BY <5>1, <5>2
      <4>5. Granted'
        BY <4>2, <4>4 DEF Granted, Left, Waits
      <4> QED
        BY <2>3, <4>2, <4>5 DEF PasswordIsKnown
    <3>2. ASSUME Handshake!ProxyReads(Handshake!RequestLength, Handshake!Proxy("nothing", proxy.method, proxy.tunnel)), Handshake!Say(No)
          PROVE  Refused' /\ PasswordIsKnown'
      <4>1. proxy'.waits = "nothing" /\ proxy'.method = proxy.method
        BY <3>2, ProxyIs DEF Handshake!ProxyReads
      <4>2. toClient' = No
        BY <2>3, <3>2, AnswersAreBytes, SaidIs
      <4> QED
        BY <2>3, <4>1, <4>2, NoIs DEF Refused, PasswordIsKnown, Waits, Handshake!SOCKS_REP5_FAIL
    <3>3. (Granted' \/ Refused') /\ PasswordIsKnown'
      BY <2>1, <3>1, <3>2
    <3> QED
      BY <2>3, <3>3 DEF Tunnels, NotYet, Greets, Authenticates, Requests, Connects
  <2> QED
    BY <2>2, <2>3, GivenUpKeeps
<1> QED
  BY <1>2, <1>3

(* Every step of the proxy keeps the invariant. *)
LEMMA ProxyStepKeeps == ASSUME WellTyped, Handshake!Ftp5, Tunnels, Handshake!ProxyStep PROVE Tunnels'
<1>1. open = "yes" /\ UNCHANGED <<Handshake!fixed, step, rep, result>>
  BY DEF Handshake!ProxyStep
<1>2. CASE Handshake!Proxy4Connects
  <2>1. luser \in Nat
    BY DEF WellTyped, Types, Byte
  <2>2. proxy.waits = "request4" /\ toProxy # <<>>
    BY <1>2, <2>1, EmptySeq DEF Handshake!Proxy4Connects
  <2>3. GivenUp
    BY <1>1, <2>2, WhoIsAnswered
  <2> QED
    BY <1>1, <2>3, GivenUpKeeps
<1> QED
  BY <1>1, <1>2, GreetedKeeps, AuthenticatesKeeps, ConnectsKeeps, HangupKeeps DEF Handshake!ProxyStep

(* Every step of the client keeps the invariant. *)
LEMMA ClientStepKeeps == ASSUME WellTyped, Handshake!Ftp5, Tunnels, Handshake!ClientStep PROVE Tunnels'
<1>1. CASE step' = "destroy" /\ result' = FALSE
  BY <1>1, StopKeeps
<1>2. CASE ~(step' = "destroy" /\ result' = FALSE)
  <2>1. ~Handshake!Send4Req /\ ~Handshake!Recv4Rep
    BY DEF Tunnels, NotYet, Handshake!Send4Req, Handshake!Recv4Rep
  <2> QED
    BY <1>2, <2>1, ConnectKeeps, SendsKeep, ReceiveKeeps, ReplyKeeps, RestKeeps, JudgeKeeps, DestroyKeeps
       DEF Handshake!ClientStep
<1> QED
  BY <1>1, <1>2

(* Every step of a handshake keeps the invariant. *)
LEMMA StepKeeps == ProxyInv /\ [Handshake!Next]_(Handshake!vars) => ProxyInv'
<1> SUFFICES ASSUME ProxyInv, [Handshake!Next]_(Handshake!vars) PROVE ProxyInv'
  OBVIOUS
<1>1. WellTyped'
  BY StepTypes DEF ProxyInv
<1>2. CASE ~Handshake!Ftp5
  <2>1. UNCHANGED Handshake!fixed
    BY DEF Handshake!Next, Handshake!ClientStep, Handshake!ProxyStep, Handshake!connectProxyHost, Handshake!Send4Req, Handshake!Send5AuthReq, Handshake!Send5PassReq, Handshake!Send5Req,
           Handshake!SendPacket, Handshake!Recv4Rep, Handshake!Recv5AuthRep, Handshake!Recv5PassRep, Handshake!Recv5Rep, Handshake!RecvAddress, Handshake!Recv, Handshake!RecvOK, Handshake!RecvDestroy, Handshake!vars
  <2> QED
    BY <1>1, <1>2, <2>1, RequestsStay DEF ProxyInv, Tunnels
<1>3. CASE Handshake!Ftp5 /\ UNCHANGED Handshake!vars
  <2>1. UNCHANGED <<Handshake!fixed, step, toProxy, toClient, open, proxy, rep, result>>
    BY <1>3 DEF Handshake!vars, Handshake!wires
  <2>2. Tunnels' = Tunnels
    BY <2>1, RequestsStay DEF Tunnels, NotYet, Greets, Authenticates, Requests, Connects, Silent, Asked, Waits,
       AfterMethod, Judged, Believed, NoRequest, PasswordIsKnown, Granted, Refused, Left
  <2> QED
    BY <1>1, <2>2 DEF ProxyInv
<1>4. CASE Handshake!Ftp5 /\ Handshake!Next
  BY <1>1, <1>4, ProxyStepKeeps, ClientStepKeeps DEF ProxyInv, Handshake!Next
<1> QED
  BY <1>2, <1>3, <1>4

(* A handshake begins with nothing sent. *)
LEMMA InitKeeps == Handshake!Init => ProxyInv
<1> SUFFICES ASSUME Handshake!Init PROVE ProxyInv
  OBVIOUS
<1>1. step = "connect" /\ open = "no" /\ toProxy = <<>> /\ toClient = <<>> /\ result = FALSE
      /\ proxy = Handshake!Proxy("nothing", Handshake!SOCKS_AUTH_NONE, <<>>)
  BY DEF Handshake!Init
<1>2. proxy.method = Handshake!SOCKS_AUTH_NONE
  BY <1>1, ProxyIs
<1>3. Tunnels
  BY <1>1, <1>2 DEF Tunnels, NotYet, Greets, Authenticates, Requests, Connects, Silent
<1> QED
  BY <1>3, InitTypes DEF ProxyInv

(* The invariant says more than what the run checks. *)
LEMMA ProxyInvImplies == ProxyInv => Handshake!FtpSocks5Inv
<1> SUFFICES ASSUME ProxyInv PROVE Handshake!FtpSocks5Inv
  OBVIOUS
<1>1. Types
  BY DEF ProxyInv, WellTyped
<1>2. Handshake!TypeOK
  <2>1. \A s \in Seq(Byte) : \A i \in DOMAIN s : s[i] \in 0 .. 255
    <3> SUFFICES ASSUME NEW s \in Seq(Byte), NEW i \in DOMAIN s PROVE s[i] \in Byte
      BY DEF Byte
    <3>1. i \in 1 .. Len(s)
      BY LenProperties
    <3> QED
      BY <3>1, ElementOfSeq
  <2>2. toProxy \in Seq(Byte) /\ toClient \in Seq(Byte)
    BY <1>1 DEF Types
  <2>3. (\A i \in DOMAIN toProxy : toProxy[i] \in 0 .. 255) /\ (\A i \in DOMAIN toClient : toClient[i] \in 0 .. 255)
    BY <2>1, <2>2
  <2> QED
    BY <1>1, <2>3 DEF Handshake!TypeOK, Types, Places, Byte
<1>3. CASE Handshake!Ftp5
  <2>1. Connects /\ Requests
    BY <1>3 DEF ProxyInv, Tunnels
  <2>2. Handshake!ConnectedMeansTunnel
    BY <2>1 DEF Connects, Handshake!ConnectedMeansTunnel, Left
  <2>3. Handshake!HandshakeIsConsumed
    <3> SUFFICES ASSUME step = "done", result PROVE toClient = <<Handshake!Greeting>>
      BY DEF Handshake!HandshakeIsConsumed
    <3>1. toClient \in Seq(Byte) /\ Len(toClient) = 1 /\ toClient[1] = Handshake!Greeting
      BY <1>1, <2>1 DEF Connects, Left, Types
    <3> QED
      BY <3>1
  <2>4. Handshake!PasswordComesFirst
    BY <2>1 DEF Requests, Handshake!PasswordComesFirst, PasswordIsKnown
  <2> QED
    BY <1>2, <2>2, <2>3, <2>4 DEF Handshake!FtpSocks5Inv
<1>4. CASE ~Handshake!Ftp5
  BY <1>2, <1>4 DEF Handshake!FtpSocks5Inv, Handshake!ConnectedMeansTunnel, Handshake!HandshakeIsConsumed, Handshake!PasswordComesFirst
<1> QED
  BY <1>3, <1>4

-----------------------------------------------------------------------------
(* The parts together: those that do not run keep their first values, in which the sockets are idle. *)

NetInv ==
    /\ IInv
    /\ part = "proxies" => ProxyInv
    /\ part = "server" => ServerInv

(* Each part begins as it does alone. *)
LEMMA NetBegins == NetInit => NetInv
<1> SUFFICES ASSUME NetInit PROVE NetInv
  OBVIOUS
<1>1. Init
  BY DEF NetInit, NoSocket
<1>2. part = "proxies" => Handshake!Init
  BY DEF NetInit
<1>3. part = "server" => Server!InitServer
  BY DEF NetInit
<1> QED
  BY <1>1, <1>2, <1>3, InitEstablishesIInv, InitKeeps, InitInv DEF NetInv

(* A step of a part is a step it may do alone. *)
LEMMA NetSteps == NetInv /\ [NetNext]_netvars => NetInv'
<1> SUFFICES ASSUME NetInv, [NetNext]_netvars PROVE NetInv'
  OBVIOUS
<1>1. part' = part
  BY DEF NetNext, netvars
<1>2. UNCHANGED onlyProxy => UNCHANGED Handshake!vars
  BY DEF onlyProxy, Handshake!vars, Handshake!fixed, Handshake!wires
<1>3. IInv'
  <2>1. [Next]_vars
    BY DEF NetNext, netvars
  <2> QED
    BY <2>1, NextKeepsIInv DEF NetInv
<1>4. part = "proxies" => ProxyInv'
  <2>1. part = "proxies" => [Handshake!Next]_(Handshake!vars)
    BY <1>2 DEF NetNext, netvars
  <2> QED
    BY <2>1, StepKeeps DEF NetInv
<1>5. part = "server" => ServerInv'
  <2>1. part = "server" => [Server!NextServer]_onlyServer
    BY DEF NetNext, netvars
  <2> QED
    BY <2>1, ServerStepKeeps DEF NetInv
<1> QED
  BY <1>1, <1>3, <1>4, <1>5 DEF NetInv

(***************************************************************************)
(* Every socket object of the event server is in one place, for every number *)
(* of descriptors and spare objects: the stock holds no object twice and none *)
(* with a descriptor or a mask left over, a registered descriptor belongs to   *)
(* the object it is registered with, and no event of a batch names an object   *)
(* that handleEvent has deleted or given away.                              *)
(***************************************************************************)
THEOREM SocketObjectsAreInOnePlace == NetSpec => []SocketsAreInOnePlace
<1>1. NetInv => SocketsAreInOnePlace
  BY InvImplies DEF NetInv, SocketsAreInOnePlace
<1> QED
  BY <1>1, NetBegins, NetSteps, PTL DEF NetSpec

(***************************************************************************)
(* The FTP client believes a handshake with a SOCKS5 proxy only when the      *)
(* proxy has connected to the port that was asked for and nothing of its   *)
(* answers is left in the connection, for every length of the user's name and  *)
(* of the password; and no answer counts before the password is accepted.     *)
(***************************************************************************)
THEOREM FtpSocks5IsTrue == NetSpec => []FtpSocks5Inv
<1>1. NetInv => FtpSocks5Inv
  BY ProxyInvImplies DEF NetInv, FtpSocks5Inv
<1> QED
  BY <1>1, NetBegins, NetSteps, PTL DEF NetSpec
=============================================================================
