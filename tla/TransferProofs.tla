--------------------------- MODULE TransferProofs ---------------------------
(***************************************************************************)
(* For responses of any size, bytes of any number of values and buffers of *)
(* any length: the size that the client asks for is the size that the      *)
(* server reads out of the four bytes, the loops on both sides lose no     *)
(* byte of the response, and the client's return value tells a whole       *)
(* response from anything else.  The request must arrive in one piece: the *)
(* code does not read again for the rest of it.                            *)
(***************************************************************************)
EXTENDS Transfer, TLAPS

-----------------------------------------------------------------------------
(* Division, which the payload is made of.                                 *)

\* A quotient and a remainder below the divisor are the quotient and the
\* remainder.
LEMMA QuotientUnique ==
    ASSUME NEW n \in Nat, NEW b \in Nat \ {0}, NEW q \in Nat, NEW r \in Nat,
           r < b, n = b * q + r
    PROVE  n \div b = q /\ n % b = r
<1> DEFINE p == n \div b  s == n % b
<1>1. p \in Int /\ s \in 0 .. b - 1 /\ n = b * p + s
  OBVIOUS
<1>2. b * (p - q) = r - s
  BY <1>1
<1>3. p = q
  <2> HIDE DEF p, s
  <2>1. ~(p >= q + 1)
    <3>1. SUFFICES ASSUME p - q >= 1 PROVE FALSE
      BY <1>1
    <3>2. b * (p - q) >= b
      BY <3>1, <1>1
    <3> QED BY <3>2, <1>1, <1>2
  <2>2. ~(q >= p + 1)
    <3>1. SUFFICES ASSUME q - p >= 1 PROVE FALSE
      BY <1>1
    <3>2. b * (q - p) >= b
      BY <3>1, <1>1
    <3>3. b * (q - p) = s - r
      BY <1>1
    <3> QED BY <3>2, <3>3, <1>1
  <2> QED BY <2>1, <2>2, <1>1
<1> QED BY <1>1, <1>2, <1>3

\* Shifting by b and then by c is shifting by both.
LEMMA QuotientTwice ==
    ASSUME NEW n \in Nat, NEW b \in Nat \ {0}, NEW c \in Nat \ {0}
    PROVE  n \div (b * c) = (n \div b) \div c
<1> DEFINE q == n \div b  r == n % b  p == q \div c  s == q % c
<1>1. q \in Nat /\ r \in 0 .. b - 1 /\ n = b * q + r
  OBVIOUS
<1>2. p \in Nat /\ s \in 0 .. c - 1 /\ q = c * p + s
  BY <1>1
<1> HIDE DEF q, r, p, s
<1>3. n = (b * c) * p + (b * s + r)
  <2>1. b * q = b * (c * p) + b * s
    BY <1>2
  <2>2. b * (c * p) = (b * c) * p
    BY <1>2
  <2> QED BY <2>1, <2>2, <1>1, <1>2
<1>4. b * s + r < b * c
  <2>1. b * s <= b * (c - 1)
    BY <1>2
  <2>2. b * (c - 1) = b * c - b
    OBVIOUS
  <2>3. b * s \in Nat /\ b * c \in Nat
    BY <1>2
  <2> QED BY <2>1, <2>2, <2>3, <1>1
<1>5. b * c \in Nat \ {0} /\ b * s + r \in Nat
  BY <1>1, <1>2
<1>6. n \div (b * c) = p
  BY <1>3, <1>4, <1>5, <1>2, QuotientUnique
<1> QED BY <1>6 DEF p, q

-----------------------------------------------------------------------------
(* The payload.                                                            *)

\* How many values four bytes have.
Power == Base * Base * Base * Base

\* An int is a value of four bytes.
LEMMA IntRange ==
    /\ Base \in Nat \ {0} /\ Base > 1 /\ Power \in Nat
    /\ IntMax \in Nat /\ IntMax < Power
    /\ Sizes \subseteq 0 .. IntMax
<1>1. Base \in Nat \ {0} /\ Base >= 2 /\ Sizes \subseteq 0 .. IntMax
  BY TransferAssumption
<1>2. Base * Base \in Nat /\ Base * Base >= 4
  <2>1. Base * Base >= 2 * Base
    BY <1>1
  <2> QED BY <2>1, <1>1
<1>3. Base * Base * Base \in Nat /\ Base * Base * Base >= 4
  <2>1. (Base * Base) * Base >= Base * Base
    BY <1>1, <1>2
  <2> QED BY <2>1, <1>1, <1>2
<1>4. Power \in Nat /\ Power >= 4
  <2>1. (Base * Base * Base) * Base >= Base * Base * Base
    BY <1>1, <1>3
  <2> QED BY <2>1, <1>1, <1>3 DEF Power
<1>5. IntMax = Power \div 2 - 1
  BY DEF IntMax, Power
<1> HIDE DEF IntMax, Power
<1>6. IntMax \in Nat /\ IntMax < Power
  BY <1>4, <1>5
<1> QED BY <1>1, <1>4, <1>6

\* An empty stream is a stream of bytes.
LEMMA NothingSent == <<>> \in Seq(Bytes) /\ Len(<<>>) = 0
OBVIOUS

\* serialize_u32 (common.c:38-46) fills four bytes.
LEMMA PayloadBytes ==
    ASSUME NEW n \in Nat
    PROVE  Serialize(n) \in Seq(Bytes) /\ Len(Serialize(n)) = PayloadSize
<1>1. \A i \in 1 .. 4 : Shifted(n, 4 - i) \in Nat
  BY IntRange DEF Shifted
<1>2. \A i \in 1 .. 4 : Shifted(n, 4 - i) % Base \in Bytes
  BY <1>1, IntRange DEF Bytes
<1> QED BY <1>2 DEF Serialize, PayloadSize

\* payload.c:9-24, common.c:38-46 and 81-90: the server reads the number the client wrote, for
\* every size an int can hold.
THEOREM PayloadRoundTrip ==
    ASSUME NEW n \in 0 .. IntMax
    PROVE  AsInt(Deserialize(Serialize(n))) = n
<1> DEFINE q1 == n \div Base  q2 == q1 \div Base  q3 == q2 \div Base
           r0 == n % Base  r1 == q1 % Base  r2 == q2 % Base
<1>1. n \in Nat /\ Base \in Nat \ {0} /\ n < Power
  BY IntRange
<1>2. q1 \in Nat /\ r0 \in Nat /\ n = q1 * Base + r0
  BY <1>1
<1>3. q2 \in Nat /\ r1 \in Nat /\ q1 = q2 * Base + r1
  BY <1>1, <1>2
<1>4. q3 \in Nat /\ r2 \in Nat /\ q2 = q3 * Base + r2
  BY <1>1, <1>3
<1>5. n \div (Base * Base) = q2
  BY <1>1, QuotientTwice
<1>6. n \div (Base * Base * Base) = q3
  <2>1. Base * Base \in Nat \ {0}
    BY <1>1
  <2>2. n \div ((Base * Base) * Base) = (n \div (Base * Base)) \div Base
    BY <1>1, <2>1, QuotientTwice
  <2> QED BY <2>2, <1>5
<1> HIDE DEF q1, q2, q3, r0, r1, r2
<1>7. q3 < Base
  <2>1. SUFFICES ASSUME q3 >= Base PROVE FALSE
    BY <1>1, <1>4
  <2>2. q2 >= Base * Base
    <3>1. q3 * Base >= Base * Base
      BY <2>1, <1>1, <1>4
    <3> QED BY <3>1, <1>1, <1>4
  <2>3. q1 >= Base * Base * Base
    <3>1. Base * Base \in Nat
      BY <1>1
    <3>2. q2 * Base >= (Base * Base) * Base
      BY <2>2, <3>1, <1>1, <1>3
    <3> QED BY <3>1, <3>2, <1>1, <1>3
  <2>4. n >= Power
    <3>1. Base * Base * Base \in Nat
      BY <1>1
    <3>2. q1 * Base >= (Base * Base * Base) * Base
      BY <2>3, <3>1, <1>1, <1>2
    <3> QED BY <3>1, <3>2, <1>1, <1>2 DEF Power
  <2> QED BY <2>4, <1>1, IntRange
<1>8. q3 % Base = q3
  BY <1>1, <1>4, <1>7
<1>9. /\ Serialize(n)[1] = q3 /\ Serialize(n)[2] = r2
      /\ Serialize(n)[3] = r1 /\ Serialize(n)[4] = r0
  <2>1. Shifted(n, 3) = q3 /\ Shifted(n, 2) = q2 /\ Shifted(n, 1) = q1 /\ Shifted(n, 0) = n
    BY <1>5, <1>6 DEF Shifted, q1
  <2> QED BY <2>1, <1>8 DEF Serialize, PayloadSize, r0, r1, r2
<1>10. Deserialize(Serialize(n)) = ((q3 * Base + r2) * Base + r1) * Base + r0
  BY <1>9 DEF Deserialize
<1>11. Deserialize(Serialize(n)) = n
  BY <1>10, <1>2, <1>3, <1>4
<1> QED BY <1>11 DEF AsInt

-----------------------------------------------------------------------------
(* The invariant.                                                          *)

\* A request is under way whole or not at all, and only while nobody has
\* served it.
RequestWhole ==
    /\ sent \in {<<>>, Serialize(asked)} /\ arrived \in {<<>>, Serialize(asked)}
    /\ sent = <<>> \/ arrived = <<>>
    /\ cpc = "request" => sent = <<>> /\ arrived = <<>>

\* Every byte of the response is still to be written, in the buffers, or read.
BytesKept ==
    /\ spc = "wait" => written = 0
    /\ spc = "write" => want = asked /\ written + leftSize = want
    /\ written <= asked
    /\ received + pipe <= written
    /\ ~broken => received + pipe = written
    /\ cpc # "done" => received = 0 \/ received < asked

\* A server that has closed undisturbed has written everything, unless the
\* client had ended before.
ClosedWhole ==
    spc = "closed" /\ ~broken => written = asked \/ cpc = "done"

ExchangeInv == TypeOK /\ RequestWhole /\ BytesKept /\ ClosedWhole /\ AnswerIsWhole

\* Before the request is written nothing is under way.
LEMMA ExchangeStarts == Init => ExchangeInv
<1> SUFFICES ASSUME Init PROVE ExchangeInv
  OBVIOUS
<1> USE IntRange, TransferAssumption DEF Init
<1>1. TypeOK
  <2>1. sent \in Seq(Bytes) /\ arrived \in Seq(Bytes) /\ Len(sent) = 0 /\ Len(arrived) = 0
    BY NothingSent
  <2>2. 0 \in -(IntMax + 1) .. IntMax /\ 0 \in 0 .. IntMax /\ 0 \in 0 .. SockBuf
    OBVIOUS
  <2>3. count \in Nat \cup {-1} /\ broken \in BOOLEAN /\ asked \in Sizes
    OBVIOUS
  <2>4. cpc \in {"request", "read", "done"} /\ spc \in {"wait", "write", "closed", "exited"}
    OBVIOUS
  <2>5. Len(sent) + Len(arrived) <= 4
    BY <2>1
  <2> QED BY <2>1, <2>2, <2>3, <2>4, <2>5 DEF TypeOK, PayloadSize
<1>2. RequestWhole
  BY DEF RequestWhole
<1>3. BytesKept
  BY DEF BytesKept
<1>4. ClosedWhole /\ AnswerIsWhole
  BY DEF ClosedWhole, AnswerIsWhole
<1> QED BY <1>1, <1>2, <1>3, <1>4 DEF ExchangeInv

\* No step of the client, the server or the network breaks the invariant.
LEMMA ExchangeKept ==
    ASSUME "split" \notin Faults, ExchangeInv, [Next]_vars
    PROVE  ExchangeInv'
<1> USE IntRange, TransferAssumption DEF ExchangeInv, ServerGone
<1>1. CASE WriteRequest
  <2>1. Serialize(asked) \in Seq(Bytes) /\ Len(Serialize(asked)) = PayloadSize
    BY PayloadBytes DEF TypeOK
  <2>2. TypeOK'
    <3>1. sent' \in Seq(Bytes) /\ Len(sent') \in {0, PayloadSize}
      BY <1>1, <2>1, NothingSent DEF WriteRequest
    <3>2. Len(arrived') = 0
      BY <1>1, NothingSent DEF WriteRequest, RequestWhole
    <3> QED BY <1>1, <3>1, <3>2 DEF WriteRequest, TypeOK, serverVars, PayloadSize
  <2>3. RequestWhole'
    BY <1>1 DEF WriteRequest, RequestWhole, serverVars
  <2>4. BytesKept' /\ ClosedWhole' /\ AnswerIsWhole'
    BY <1>1 DEF WriteRequest, BytesKept, ClosedWhole, AnswerIsWhole, serverVars
  <2> QED BY <2>2, <2>3, <2>4
<1>2. CASE ReadUnit
  <2>1. PICK n \in 1 .. Least(pipe, MaxBuff) :
          /\ pipe' = pipe - n /\ received' = received + n
          /\ \/ received + n >= asked /\ cpc' = "done" /\ count' = received + n
             \/ received + n < asked /\ UNCHANGED <<cpc, count>>
    BY <1>2 DEF ReadUnit, Return, TypeOK
  <2>2. n \in Nat /\ n <= pipe
    BY <2>1 DEF Least, TypeOK
  <2>3. /\ cpc = "read" /\ ~broken
        /\ UNCHANGED <<asked, spc, want, leftSize, written, sent, arrived, broken>>
    BY <1>2 DEF ReadUnit, serverVars
  <2>4. TypeOK'
    BY <2>1, <2>2, <2>3 DEF TypeOK
  <2>5. RequestWhole'
    BY <2>1, <2>3 DEF RequestWhole
  <2>6. BytesKept' /\ ClosedWhole'
    BY <2>1, <2>2, <2>3 DEF BytesKept, ClosedWhole, TypeOK
  <2>7. AnswerIsWhole'
    BY <2>1, <2>2, <2>3 DEF BytesKept, AnswerIsWhole, TypeOK
  <2> QED BY <2>4, <2>5, <2>6, <2>7
<1>3. CASE ReadAgain
  <2>1. TypeOK' /\ RequestWhole' /\ BytesKept' /\ ClosedWhole'
    BY <1>3 DEF ReadAgain, Return, TypeOK, RequestWhole, BytesKept, ClosedWhole, serverVars, networkVars
  <2>2. AnswerIsWhole'
    BY <1>3 DEF ReadAgain, Return, TypeOK, BytesKept, AnswerIsWhole, serverVars, networkVars
  <2> QED BY <2>1, <2>2
<1>4. CASE ReadEof
  <2>1. TypeOK' /\ RequestWhole' /\ BytesKept' /\ ClosedWhole'
    BY <1>4 DEF ReadEof, Return, TypeOK, RequestWhole, BytesKept, ClosedWhole, serverVars, networkVars
  <2>2. /\ asked \in Nat /\ received = written /\ written \in Nat /\ written <= asked
        /\ received = 0 \/ received < asked
    BY <1>4 DEF ReadEof, TypeOK, BytesKept
  <2>3. /\ count' = 0 /\ cpc = "read" /\ ~broken /\ (spc = "closed" \/ spc = "exited")
        /\ UNCHANGED <<asked, received, spc, written, broken>>
    BY <1>4 DEF ReadEof, Return, serverVars, networkVars
  <2>4. spc = "closed" => written = asked
    BY <2>3 DEF ClosedWhole
  <2>5. AnswerIsWhole'
    BY <2>2, <2>3, <2>4 DEF AnswerIsWhole
  <2> QED BY <2>1, <2>5
<1>5. CASE ReadError
  BY <1>5 DEF ReadError, Return, TypeOK, RequestWhole, BytesKept, ClosedWhole, AnswerIsWhole, serverVars, networkVars
<1>6. CASE ReadRequest
  <2>1. arrived = Serialize(asked) /\ sent = <<>> /\ cpc # "request"
    BY <1>6 DEF ReadRequest, RequestWhole
  <2>2. Len(arrived) = PayloadSize
    BY <2>1, PayloadBytes DEF TypeOK
  <2>3. AsInt(Deserialize(arrived)) = asked
    BY <2>1, PayloadRoundTrip DEF TypeOK
  <2>4. /\ arrived' = <<>> /\ want' = asked
        /\ spc' = IF asked <= 0 THEN "closed" ELSE "write"
        /\ leftSize' = IF asked <= 0 THEN 0 ELSE asked
        /\ spc = "wait"
        /\ UNCHANGED <<asked, cpc, received, count, written, sent, pipe, broken>>
    BY <1>6, <2>2, <2>3 DEF ReadRequest, clientVars
  <2>5. TypeOK'
    BY <2>1, <2>4 DEF TypeOK, PayloadSize
  <2>6. RequestWhole'
    BY <2>1, <2>4 DEF RequestWhole
  <2>7. BytesKept' /\ ClosedWhole' /\ AnswerIsWhole'
    BY <2>4 DEF TypeOK, BytesKept, ClosedWhole, AnswerIsWhole
  <2> QED BY <2>5, <2>6, <2>7
<1>7. CASE WriteUnit
  <2>1. PICK n \in 1 .. Least(Least(leftSize, MaxBuff), SockBuf - pipe) :
          pipe' = pipe + n /\ written' = written + n /\ leftSize' = leftSize - n
    BY <1>7 DEF WriteUnit
  <2>2. n \in Nat /\ n <= leftSize /\ n <= SockBuf - pipe
    BY <2>1 DEF Least, TypeOK
  <2>3. /\ spc = "write" /\ ~broken
        /\ UNCHANGED <<asked, cpc, received, count, spc, want, sent, arrived, broken>>
    BY <1>7 DEF WriteUnit, clientVars
  <2>4. TypeOK' /\ RequestWhole'
    BY <2>1, <2>2, <2>3 DEF TypeOK, RequestWhole
  <2>5. BytesKept' /\ ClosedWhole'
    BY <2>1, <2>2, <2>3 DEF TypeOK, BytesKept, ClosedWhole
  <2>6. AnswerIsWhole'
    BY <2>1, <2>2, <2>3 DEF TypeOK, BytesKept, AnswerIsWhole
  <2> QED BY <2>4, <2>5, <2>6
<1>8. CASE WriteEnd
  BY <1>8 DEF WriteEnd, TypeOK, RequestWhole, BytesKept, ClosedWhole, AnswerIsWhole, clientVars, networkVars
<1>9. CASE CloseUnasked
  BY <1>9 DEF CloseUnasked, TypeOK, RequestWhole, BytesKept, ClosedWhole, AnswerIsWhole, clientVars, networkVars
<1>10. CASE Deliver
  <2>1. /\ sent = Serialize(asked) /\ arrived = <<>> /\ sent # <<>>
        /\ sent \in Seq(Bytes) /\ Len(sent) = PayloadSize
    BY <1>10, PayloadBytes DEF Deliver, RequestWhole, TypeOK
  <2>2. /\ arrived' = arrived \o SubSeq(sent, 1, Len(sent))
        /\ sent' = SubSeq(sent, Len(sent) + 1, Len(sent))
        /\ UNCHANGED <<clientVars, serverVars, pipe, broken>>
    BY <1>10 DEF Deliver
  <2>3. arrived' = Serialize(asked)
    BY <2>1, <2>2
  <2>4. sent' = <<>>
    BY <2>1, <2>2
  <2>5. TypeOK'
    <3>1. sent' \in Seq(Bytes) /\ Len(sent') = 0
      BY <2>4, NothingSent
    <3>2. arrived' = sent
      BY <2>1, <2>3
    <3>3. Len(sent') + Len(arrived') <= PayloadSize /\ arrived' \in Seq(Bytes)
      <4>1. arrived' \in Seq(Bytes) /\ Len(arrived') = PayloadSize
        BY <2>1, <3>2
      <4> QED BY <3>1, <4>1 DEF PayloadSize
    <3>4. UNCHANGED <<clientVars, serverVars, pipe, broken>>
      BY <2>2
    <3> QED BY <3>1, <3>3, <3>4 DEF TypeOK, clientVars, serverVars
  <2>6. RequestWhole' /\ BytesKept' /\ ClosedWhole' /\ AnswerIsWhole'
    BY <2>1, <2>2, <2>3, <2>4 DEF RequestWhole, BytesKept, ClosedWhole, AnswerIsWhole, clientVars, serverVars
  <2> QED BY <2>5, <2>6
<1>11. CASE Reset
  BY <1>11 DEF Reset, TypeOK, RequestWhole, BytesKept, ClosedWhole, AnswerIsWhole, clientVars, serverVars, PayloadSize
<1>12. CASE Exit
  BY <1>12 DEF Exit, TypeOK, RequestWhole, BytesKept, ClosedWhole, AnswerIsWhole, clientVars, networkVars
<1>13. CASE UNCHANGED vars
  BY <1>13 DEF vars, TypeOK, RequestWhole, BytesKept, ClosedWhole, AnswerIsWhole, clientVars, serverVars, networkVars
<1> QED BY <1>1, <1>2, <1>3, <1>4, <1>5, <1>6, <1>7, <1>8, <1>9, <1>10, <1>11, <1>12, <1>13
        DEF Next, ClientStep, ServerStep

-----------------------------------------------------------------------------
\* network.c, write_responce and read_responce: the server writes what was asked
\* for, and no byte of it is lost or counted twice.
THEOREM SizesAgree ==
    ASSUME "split" \notin Faults
    PROVE  Spec => []SizeKept
<1>1. ExchangeInv => SizeKept
  BY DEF ExchangeInv, BytesKept, SizeKept
<1> QED BY <1>1, ExchangeStarts, ExchangeKept, PTL DEF Spec

\* client.c:113-124: the client counts a response as an answer only if it is whole,
\* and calls an error only what a reset or the end of the server has caused.
THEOREM AnswersWhole ==
    ASSUME "split" \notin Faults
    PROVE  Spec => []AnswerIsWhole
<1>1. ExchangeInv => AnswerIsWhole
  BY DEF ExchangeInv
<1> QED BY <1>1, ExchangeStarts, ExchangeKept, PTL DEF Spec
=============================================================================
