----------------------------- MODULE Transfer -----------------------------
(***************************************************************************)
(* One request and its response, byte by byte: the serialised flow size    *)
(* (common/payload.c, common/common.c) and the read and write loops of     *)
(* common/network.c, over a TCP connection that may deliver in pieces,     *)
(* break, or lose its server.  Client and Server abstract all of it to one *)
(* step per call (ReadFull, ReadEof, ReadErr; HandleRequest, WriteAll).    *)
(*                                                                         *)
(* A call that returns EAGAIN and changes nothing is no step.              *)
(***************************************************************************)
EXTENDS Integers, Sequences

CONSTANTS Sizes,    \* sizes the client may ask for
          Base,     \* the values of a byte
          MaxBuff,  \* MAX_READ_BUFF and MAX_WRITE_BUFF
          SockBuf,  \* bytes the connection's buffers hold
          Faults    \* "split": a request may arrive in pieces; "reset": the
                    \* connection breaks; "exit": the server process ends

\* An int is half of a u32's range.
IntMax == (Base * Base * Base * Base) \div 2 - 1

ASSUME TransferAssumption ==
    /\ Base \in Nat /\ Base >= 2
    /\ Sizes \subseteq 0 .. IntMax
    /\ MaxBuff \in Nat \ {0} /\ SockBuf \in Nat \ {0}
    /\ Faults \subseteq {"split", "reset", "exit"}

Bytes == 0 .. Base - 1
PayloadSize == 4

VARIABLES asked,    \* flow_size in the client
          cpc,      \* the client: "request", "read" or "done"
          received, \* amount in read_responce
          count,    \* what read_responce has returned
          sent,     \* request bytes under way
          arrived,  \* request bytes in the server's socket
          spc,      \* the server: "wait", "write", "closed" or "exited"
          want,     \* flow_size in the server
          leftSize, \* left_size in write_responce
          written,  \* amount in write_responce
          pipe,     \* response bytes in the connection's buffers
          broken    \* has the connection been reset?

clientVars == <<asked, cpc, received, count>>
serverVars == <<spc, want, leftSize, written>>
networkVars == <<sent, arrived, pipe, broken>>
vars == <<clientVars, serverVars, networkVars>>

TypeOK ==
    /\ asked \in Sizes /\ cpc \in {"request", "read", "done"}
    /\ received \in Nat /\ count \in Nat \cup {-1}
    /\ sent \in Seq(Bytes) /\ arrived \in Seq(Bytes)
    /\ Len(sent) + Len(arrived) <= PayloadSize
    /\ spc \in {"wait", "write", "closed", "exited"}
    /\ want \in -(IntMax + 1) .. IntMax /\ leftSize \in 0 .. IntMax /\ written \in Nat
    /\ pipe \in 0 .. SockBuf /\ broken \in BOOLEAN

Init ==
    /\ asked \in Sizes /\ cpc = "request" /\ received = 0 /\ count = 0
    /\ sent = <<>> /\ arrived = <<>> /\ pipe = 0 /\ broken = FALSE
    /\ spc = "wait" /\ want = 0 /\ leftSize = 0 /\ written = 0

\* The server's end of the connection is closed.
ServerGone == spc \in {"closed", "exited"}

Least(m, n) == IF m <= n THEN m ELSE n

-----------------------------------------------------------------------------
(* The payload: four bytes, the most significant one first.                *)

Shifted(n, bytes) ==
    CASE bytes = 0 -> n
      [] bytes = 1 -> n \div Base
      [] bytes = 2 -> n \div (Base * Base)
      [] bytes = 3 -> n \div (Base * Base * Base)

Serialize(n) == [i \in 1 .. PayloadSize |-> Shifted(n, PayloadSize - i) % Base]

Deserialize(b) == ((b[1] * Base + b[2]) * Base + b[3]) * Base + b[4]

\* An unsigned flow size returned as an int.
AsInt(n) == IF n <= IntMax THEN n ELSE n - 2 * (IntMax + 1)

-----------------------------------------------------------------------------
(* The client.                                                             *)

\* The connection is writable, so that the four bytes fit.
WriteRequest ==
    /\ cpc = "request"
    /\ cpc' = "read"
    /\ sent' = IF broken \/ ServerGone THEN <<>> ELSE Serialize(asked)
    /\ UNCHANGED <<asked, received, count, serverVars, arrived, pipe, broken>>

Return(n) == cpc' = "done" /\ count' = n

ReadUnitOnce ==  \* faulty variant: the first bytes end the loop
    /\ cpc = "read" /\ ~broken
    /\ \E n \in 1 .. Least(pipe, MaxBuff) :
        /\ pipe' = pipe - n
        /\ received' = received + n
        /\ Return(received + n)
    /\ UNCHANGED <<asked, serverVars, sent, arrived, broken>>

\* read returns n bytes; the loop ends when it has all the client asked for.
ReadUnit ==
    /\ cpc = "read" /\ ~broken
    /\ \E n \in 1 .. Least(pipe, MaxBuff) :
        /\ pipe' = pipe - n
        /\ received' = received + n
        /\ IF received + n >= asked THEN Return(received + n) ELSE UNCHANGED <<cpc, count>>
    /\ UNCHANGED <<asked, serverVars, sent, arrived, broken>>

\* EAGAIN also reaches the test that ends the loop.
ReadAgain ==
    /\ cpc = "read" /\ ~broken /\ pipe = 0 /\ ~ServerGone
    /\ received >= asked
    /\ Return(received)
    /\ UNCHANGED <<asked, received, serverVars, networkVars>>

ReadEofAsAgain ==  \* faulty variant: the end of the stream is tried again
    /\ cpc = "read" /\ ~broken /\ pipe = 0 /\ ServerGone
    /\ received >= asked
    /\ Return(received)
    /\ UNCHANGED <<asked, received, serverVars, networkVars>>

\* The end of the stream returns 0, whatever was read before.
ReadEof ==
    /\ cpc = "read" /\ ~broken /\ pipe = 0 /\ ServerGone
    /\ Return(0)
    /\ UNCHANGED <<asked, received, serverVars, networkVars>>

ReadError ==
    /\ cpc = "read" /\ broken
    /\ Return(-1)
    /\ UNCHANGED <<asked, received, serverVars, networkVars>>

-----------------------------------------------------------------------------
(* The server.                                                             *)

\* What read leaves in the buffer on the stack: the bytes that have arrived,
\* and, behind them, whatever was there.
Buffers(b) ==
    {q \in [1 .. PayloadSize -> Bytes] : \A i \in 1 .. Least(Len(b), PayloadSize) : q[i] = b[i]}

\* read_request: no loop reads the rest of a request that came in part.
ReadRequest ==
    /\ spc = "wait" /\ ~broken /\ arrived # <<>>
    /\ arrived' = <<>>
    /\ \E payload \in IF Len(arrived) = PayloadSize THEN {arrived} ELSE Buffers(arrived) :
         LET size == AsInt(Deserialize(payload))
         IN  /\ want' = size
             /\ spc' = IF size <= 0 THEN "closed" ELSE "write"
             /\ leftSize' = IF size <= 0 THEN 0 ELSE size
    /\ UNCHANGED <<clientVars, written, sent, pipe, broken>>

WriteUnitWhole ==  \* faulty variant: every write is of MAX_WRITE_BUFF bytes
    /\ spc = "write" /\ ~broken /\ leftSize > 0
    /\ \E n \in 1 .. Least(MaxBuff, SockBuf - pipe) :
        /\ pipe' = pipe + n
        /\ written' = written + n
        /\ leftSize' = leftSize - n
    /\ UNCHANGED <<clientVars, spc, want, sent, arrived, broken>>

\* One write of at most MAX_WRITE_BUFF bytes, of which some fit.
WriteUnit ==
    /\ spc = "write" /\ ~broken /\ leftSize > 0
    /\ \E n \in 1 .. Least(Least(leftSize, MaxBuff), SockBuf - pipe) :
        /\ pipe' = pipe + n
        /\ written' = written + n
        /\ leftSize' = leftSize - n
    /\ UNCHANGED <<clientVars, spc, want, sent, arrived, broken>>

\* The end of the loop, or an error of write because the connection is broken
\* or the client has closed it: the worker closes the socket.
WriteEnd ==
    /\ spc = "write" /\ (leftSize = 0 \/ broken \/ cpc = "done")
    /\ spc' = "closed"
    /\ UNCHANGED <<clientVars, want, leftSize, written, networkVars>>

\* read_request returns -1 for an error.
CloseUnasked ==
    /\ spc = "wait" /\ broken
    /\ spc' = "closed"
    /\ UNCHANGED <<clientVars, want, leftSize, written, networkVars>>

-----------------------------------------------------------------------------
(* The network and the hosts.                                              *)

\* The request arrives, in one piece unless it may be split.
Deliver ==
    /\ sent # <<>> /\ ~broken
    /\ \E k \in 1 .. Len(sent) :
        /\ "split" \in Faults \/ k = Len(sent)
        /\ arrived' = arrived \o SubSeq(sent, 1, k)
        /\ sent' = SubSeq(sent, k + 1, Len(sent))
    /\ UNCHANGED <<clientVars, serverVars, pipe, broken>>

\* The connection is reset: what was under way is lost.
Reset ==
    /\ "reset" \in Faults /\ ~broken /\ ~ServerGone
    /\ broken' = TRUE /\ pipe' = 0 /\ sent' = <<>> /\ arrived' = <<>>
    /\ UNCHANGED <<clientVars, serverVars>>

\* The server process ends; what it has written still arrives.
Exit ==
    /\ "exit" \in Faults /\ ~ServerGone
    /\ spc' = "exited"
    /\ UNCHANGED <<clientVars, want, leftSize, written, networkVars>>

-----------------------------------------------------------------------------
ClientStep == WriteRequest \/ ReadUnit \/ ReadAgain \/ ReadEof \/ ReadError
ServerStep == ReadRequest \/ WriteUnit \/ WriteEnd \/ CloseUnasked

Next == ClientStep \/ ServerStep \/ Deliver \/ Reset \/ Exit

Spec == Init /\ [][Next]_vars

\* Both loops run, and TCP delivers; nothing has to break.
FairSpec == Spec /\ WF_vars(ClientStep) /\ WF_vars(ServerStep) /\ WF_vars(Deliver)

-----------------------------------------------------------------------------
(* Properties.                                                             *)

\* README.md:2: the server writes a response of the size that was asked for,
\* although the size crosses the network as bytes in another order, and the
\* chunks of the two loops lose no byte of it and count none twice.
SizeKept ==
    /\ TypeOK
    /\ spc = "write" => want = asked /\ written + leftSize = want
    /\ ~broken => received + pipe = written

\* client.c:113-124: read_responce tells an answer from an error.  What the
\* client counts as an answer is the whole response and nothing more, and an
\* exchange that nothing disturbs is counted as one.
AnswerIsWhole ==
    cpc = "done" =>
        /\ count = asked => received = asked /\ written = asked
        /\ count # asked => broken \/ spc = "exited"

\* Both loops come to an end: they wait for each other, for the network and
\* for room in the buffers, and have no timeout.
Ends == <>(cpc = "done" /\ ServerGone)
=============================================================================
