--------------------------- MODULE ReceiverProofs ---------------------------
(***************************************************************************)
(* Proofs about Receiver, for messages of any sizes and in any number: the *)
(* callback gets them once and in order, and when they all have one size   *)
(* deserialization never throws.                                           *)
(***************************************************************************)
EXTENDS Receiver, SequenceTheorems, TLAPS

USE ReceiverAssumption

-----------------------------------------------------------------------------
(* The inductive invariant.                                                *)

\* The types, without the sizes that framing implies.
Types ==
    /\ loop \in {"running", "stopped", "threw"}
    /\ peer \in {"open", "closed", "reset"}
    /\ ends \in Seq(Nat)
    /\ arrived \in Nat
    /\ taken \in Nat
    /\ op \in {"len", "body", "gone"}
    /\ need \in Nat
    /\ ec \in {"pending", "ok", "error"}
    /\ msglen \in Nat
    /\ buf \in Nat
    /\ delivered \in Seq(Nat)

\* The bytes of the stream: messages follow each other without a gap.
Stream ==
    /\ \A i \in 1 .. Len(ends) : Size(i) \in Sizes /\ Start(i) \in Nat
    /\ \A i, j \in 1 .. Len(ends) : i < j => ends[i] < ends[j]
    /\ taken <= arrived /\ arrived <= Total

\* The message being read.
Cur == Len(delivered) + 1

\* Where in it the outstanding read is.
Position ==
    /\ op = "len" =>
          /\ Cur <= Len(ends) + 1
          /\ need <= LenBytes
          /\ taken + need = Start(Cur) + LenBytes
          /\ ec = "ok" => need = 0
          /\ need < LenBytes => Cur <= Len(ends) /\ msglen = Size(Cur)
    /\ op = "body" =>
          /\ Cur <= Len(ends)
          /\ need <= buf
          /\ taken + need = Start(Cur) + LenBytes + buf
          /\ buf = Size(Cur)
          /\ msglen = Size(Cur)
          /\ ec = "ok" => need = 0

\* The callback gets every message once and in the order in which they were
\* written, whatever pieces the stream comes in: the lengths and the bodies
\* never lose step (on_message_length_received, on_message_received).
InOrder == delivered = [i \in 1 .. Len(delivered) |-> i]

Sized == msglen \in Sizes \cup {0} /\ buf \in Sizes \cup {0} /\ Len(delivered) <= Len(ends)

IInv ==
    /\ Types
    /\ Stream
    /\ Sized
    /\ InOrder
    /\ loop # "threw" => Position

-----------------------------------------------------------------------------
(* What the positions of the stream determine.                             *)

\* Ends and starts are natural numbers, and the last end is the largest.
LEMMA EndsFacts ==
    ASSUME Types, Stream
    PROVE  /\ Total \in Nat
           /\ \A i \in 1 .. Len(ends) : /\ ends[i] \in Nat /\ Start(i) \in Nat
                                        /\ Size(i) \in Nat
                                        /\ ends[i] = Start(i) + LenBytes + Size(i)
                                        /\ ends[i] <= Total
           /\ Start(Len(ends) + 1) = Total
  <1>1. Len(ends) \in Nat /\ \A i \in 1 .. Len(ends) : ends[i] \in Nat
    BY DEF Types
  <1>2. ASSUME NEW i \in 1 .. Len(ends) PROVE Start(i) \in Nat /\ Size(i) \in Nat
    <2>1. Size(i) \in Sizes /\ Start(i) \in Nat
      BY DEF Stream
    <2>2. \A k \in 0 .. 255 : k \in Nat
      OBVIOUS
    <2> QED BY <2>1, <2>2
  <1>3. ASSUME NEW i \in 1 .. Len(ends) PROVE ends[i] = Start(i) + LenBytes + Size(i)
    <2>1. Start(i) \in Nat /\ ends[i] \in Nat
      BY <1>1, <1>2
    <2>2. Size(i) = ends[i] - Start(i) - 4
      BY DEF Size, LenBytes
    <2> QED BY <2>1, <2>2 DEF LenBytes
  <1>4. ends = <<>> <=> Len(ends) = 0
    BY DEF Types
  <1>5. Total = IF Len(ends) = 0 THEN 0 ELSE ends[Len(ends)]
    BY <1>4 DEF Total
  <1>6. Total \in Nat
    BY <1>1, <1>5
  <1>7. ASSUME NEW i \in 1 .. Len(ends) PROVE ends[i] <= Total
    <2>1. Total = ends[Len(ends)] /\ Len(ends) \in 1 .. Len(ends)
      BY <1>1, <1>5
    <2>2. i < Len(ends) => ends[i] < ends[Len(ends)]
      BY <2>1 DEF Stream
    <2> QED BY <1>1, <2>1, <2>2
  <1>8. Start(Len(ends) + 1) = Total
    BY <1>1, <1>5 DEF Start
  <1> QED BY <1>1, <1>2, <1>3, <1>6, <1>7, <1>8

\* Every message starts where no other does.
LEMMA StartsDiffer ==
    ASSUME Types, Stream, NEW i \in 1 .. Len(ends), NEW j \in 1 .. Len(ends),
           Start(i) = Start(j)
    PROVE  i = j
  <1>1. ASSUME NEW k \in 1 .. Len(ends), NEW m \in 1 .. Len(ends), k < m
        PROVE  Start(k) < Start(m)
    <2>1. Len(ends) \in Nat
      BY DEF Types
    <2>2. m # 1 /\ m - 1 \in 1 .. Len(ends) /\ (k = m - 1 \/ k < m - 1)
      BY <1>1, <2>1
    <2>3. Start(m) = ends[m - 1]
      BY <2>2 DEF Start
    <2>4. k = m - 1 \/ ends[k] < ends[m - 1]
      BY <2>2 DEF Stream
    <2>5. /\ ends[k] = Start(k) + LenBytes + Size(k) /\ Size(k) \in Nat
          /\ ends[k] \in Nat /\ Start(k) \in Nat /\ ends[m - 1] \in Nat
      BY <2>2, EndsFacts
    <2> QED BY <2>3, <2>4, <2>5 DEF LenBytes
  <1>2. Start(i) \in Nat /\ Start(j) \in Nat
    BY EndsFacts
  <1> QED BY <1>1, <1>2

\* A length read where message m starts is the size of m.
LEMMA LengthFound ==
    ASSUME Types, Stream, NEW m \in 1 .. Len(ends)
    PROVE  LengthsAt(Start(m)) = {Size(m)}
  <1>1. {j \in 1 .. Len(ends) : Start(j) = Start(m)} = {m}
    BY StartsDiffer
  <1> QED BY <1>1 DEF LengthsAt

\* As many bytes as m has, read where its body starts, are the body of m.
LEMMA BodyFound ==
    ASSUME Types, Stream, NEW m \in 1 .. Len(ends)
    PROVE  BodyAt(Start(m) + LenBytes, Size(m)) = m
  <1>1. ASSUME NEW i \in 1 .. Len(ends), Start(i) + LenBytes = Start(m) + LenBytes
        PROVE  i = m
    BY <1>1, EndsFacts, StartsDiffer DEF LenBytes
  <1>2. \A i \in 1 .. Len(ends) :
           (Start(i) + LenBytes = Start(m) + LenBytes /\ Size(i) = Size(m)) <=> i = m
    BY <1>1
  <1> QED BY <1>2 DEF BodyAt

-----------------------------------------------------------------------------
(* The invariant holds initially and every action preserves it.            *)

\* The initial state satisfies the inductive invariant.
LEMMA InitIInv == Init => IInv
  <1> SUFFICES ASSUME Init PROVE IInv
    OBVIOUS
  <1>1. Len(ends) = 0 /\ Len(delivered) = 0 /\ Total = 0
    BY DEF Init, Total
  <1>2. Types
    BY DEF Init, Types, LenBytes
  <1>3. Stream /\ Sized /\ InOrder
    BY <1>1 DEF Init, Stream, Sized, InOrder
  <1>4. Position
    BY <1>1 DEF Init, Position, Cur, Start, LenBytes
  <1> QED BY <1>2, <1>3, <1>4 DEF IInv

\* A message is added at the end; what is known of the others stays.
LEMMA WriteStep ==
    ASSUME IInv, Write
    PROVE  IInv'
  <1>1. PICK size \in Sizes : ends' = Append(ends, Total + LenBytes + size)
    BY DEF Write
  <1>2. Types /\ Stream /\ Len(ends) \in Nat /\ Len(delivered) \in Nat /\ size \in Nat
    <2>1. \A k \in 0 .. 255 : k \in Nat
      OBVIOUS
    <2> QED BY <2>1 DEF IInv, Types
  <1>3. Total \in Nat /\ Total + LenBytes + size \in Nat
    BY <1>2, EndsFacts DEF LenBytes
  <1>4. /\ ends' \in Seq(Nat) /\ Len(ends') = Len(ends) + 1
        /\ \A i \in 1 .. Len(ends) : ends'[i] = ends[i]
        /\ ends'[Len(ends) + 1] = Total + LenBytes + size
    BY <1>1, <1>2, <1>3, AppendProperties DEF Types
  <1>5. \A i \in 1 .. Len(ends) + 1 : Start(i)' = Start(i)
    BY <1>2, <1>4 DEF Start
  <1>6. \A i \in 1 .. Len(ends) : Size(i)' = Size(i)
    BY <1>2, <1>4, <1>5 DEF Size
  <1>7. PICK n \in Nat : n = Len(ends) + 1
    BY <1>2
  <1>71. Start(n)' = Total /\ Size(n)' = size
    <2>1. Start(n) = Total /\ n \in 1 .. Len(ends) + 1
      BY <1>2, <1>7, EndsFacts
    <2>2. Start(n)' = Total
      BY <1>5, <2>1
    <2> QED BY <1>2, <1>3, <1>4, <1>7, <2>2 DEF Size, LenBytes
  <1>8. Total' = Total + LenBytes + size
    BY <1>2, <1>4 DEF Total
  <1>9. UNCHANGED <<loop, peer, arrived, taken, op, need, ec, msglen, buf, delivered>>
    BY DEF Write
  <1>10. Types'
    BY <1>2, <1>4, <1>9 DEF Types
  <1>11. Stream'
    <2>1. ASSUME NEW i \in 1 .. Len(ends)' PROVE Size(i)' \in Sizes /\ Start(i)' \in Nat
      <3>1. CASE i \in 1 .. Len(ends)
        BY <1>2, <1>5, <1>6, <3>1 DEF Stream
      <3>2. CASE i = Len(ends) + 1
        BY <1>3, <1>7, <1>71, <3>2
      <3> QED BY <1>2, <1>4, <3>1, <3>2
    <2>2. ASSUME NEW i \in 1 .. Len(ends)', NEW j \in 1 .. Len(ends)', i < j
          PROVE  ends'[i] < ends'[j]
      <3>1. i \in 1 .. Len(ends) /\ (j \in 1 .. Len(ends) \/ j = Len(ends) + 1)
        <4>1. i \in 1 .. Len(ends) + 1 /\ j \in 1 .. Len(ends) + 1
          BY <1>4
        <4> QED BY <1>2, <2>2, <4>1
      <3>2. CASE j \in 1 .. Len(ends)
        BY <1>2, <1>4, <2>2, <3>1, <3>2 DEF Stream
      <3>3. CASE j = Len(ends) + 1
        <4>1. ends'[i] = ends[i] /\ ends[i] \in Nat /\ ends[i] <= Total
          BY <1>2, <1>4, <3>1, EndsFacts
        <4> QED BY <1>2, <1>3, <1>4, <3>3, <4>1 DEF LenBytes
      <3> QED BY <3>1, <3>2, <3>3
    <2>3. taken' <= arrived' /\ arrived' <= Total'
      BY <1>2, <1>3, <1>8, <1>9 DEF Stream, Types, LenBytes
    <2> QED BY <2>1, <2>2, <2>3 DEF Stream
  <1>12. Sized' /\ InOrder'
    BY <1>2, <1>4, <1>9 DEF IInv, Sized, InOrder
  <1>13. ASSUME Position PROVE Position'
    <2>1. Cur' = Cur /\ Cur \in Nat /\ Cur >= 1
      BY <1>2, <1>9 DEF Cur
    <2>2. Cur <= Len(ends) + 1 => Start(Cur)' = Start(Cur)
      BY <1>2, <1>4, <2>1 DEF Start
    <2>3. Cur <= Len(ends) => Size(Cur)' = Size(Cur)
      BY <1>2, <1>4, <2>1, <2>2 DEF Size
    <2> QED BY <1>2, <1>4, <1>9, <1>13, <2>1, <2>2, <2>3 DEF Position
  <1> QED BY <1>9, <1>10, <1>11, <1>12, <1>13 DEF IInv

\* Where nothing is written only the positions of the reader can be wrong.
LEMMA StreamSame ==
    ASSUME IInv, ends' = ends, taken' <= arrived', arrived' <= Total
    PROVE  Stream' /\ Total' = Total
  BY DEF IInv, Stream, Size, Start, Total

\* Bytes taken from the length field of message m make msglen its size.
LEMMA TakeLengthRight ==
    ASSUME IInv, NEW m \in Nat \ {0}, m <= Len(ends) + 1, NEW n \in 0 .. LenBytes,
           taken + n = Start(m) + LenBytes,
           n < LenBytes => m <= Len(ends) /\ msglen = Size(m),
           TakeLength(n)
    PROVE  /\ m <= Len(ends)
           /\ taken' \in Nat /\ need' \in Nat /\ need' < LenBytes
           /\ taken' + need' = Start(m) + LenBytes
           /\ taken' <= arrived
           /\ ec' \in {"ok", "pending"} /\ (ec' = "ok" => need' = 0)
           /\ msglen' = Size(m) /\ msglen' \in Sizes /\ msglen' \in Nat
  <1> USE DEF LenBytes
  <1>1. Types /\ Stream /\ Len(ends) \in Nat /\ taken \in Nat /\ arrived \in Nat
    BY DEF IInv, Types
  <1>2. taken < arrived /\ arrived <= Total /\ Total \in Nat
    BY <1>1, EndsFacts DEF TakeLength, Stream
  <1>3. m <= Len(ends)
    <2>1. CASE n = LenBytes
      <3>1. Start(m) = taken
        <4>1. Start(m) \in Nat
          BY <1>1, EndsFacts
        <4> QED BY <1>1, <2>1, <4>1
      <3> QED BY <1>1, <1>2, <3>1, EndsFacts
    <2> QED BY <2>1
  <1>4. m \in 1 .. Len(ends)
    BY <1>1, <1>3
  <1>5. Start(m) \in Nat /\ Size(m) \in Nat /\ Size(m) \in Sizes
    BY <1>1, <1>4, EndsFacts DEF Stream
  <1>6. /\ taken' \in Nat /\ need' \in Nat /\ need' < LenBytes
        /\ taken' + need' = taken + n /\ taken' <= arrived
        /\ ec' \in {"ok", "pending"} /\ (ec' = "ok" => need' = 0)
    BY <1>1 DEF TakeLength
  <1>7. msglen' = Size(m)
    <2>1. CASE n = LenBytes
      <3>1. taken = Start(m)
        BY <1>1, <1>5, <2>1
      <3>2. msglen' \in LengthsAt(Start(m))
        BY <2>1, <3>1 DEF TakeLength
      <3> QED BY <1>1, <1>4, <3>2, LengthFound
    <2>2. CASE n < LenBytes
      BY <2>2 DEF TakeLength
    <2> QED BY <2>1, <2>2
  <1> QED BY <1>3, <1>5, <1>6, <1>7

\* A read that takes bytes or fails leaves the reader in its place.
LEMMA ReadStep ==
    ASSUME IInv, ReadReady
    PROVE  IInv'
  <1>1. /\ Types /\ Stream /\ Sized /\ InOrder /\ Position /\ loop = "running"
        /\ Len(ends) \in Nat /\ taken \in Nat /\ arrived \in Nat /\ need \in Nat
        /\ UNCHANGED <<loop, peer, ends, arrived, op, buf, delivered>>
    BY DEF IInv, ReadReady, Types
  <1>2. Cur \in Nat \ {0} /\ Cur' = Cur /\ Start(Cur)' = Start(Cur) /\ Size(Cur)' = Size(Cur)
    BY <1>1 DEF Cur, Start, Size, Types
  <1>3. ASSUME op = "len", TakeLength(need) PROVE IInv'
    <2>1. /\ Cur <= Len(ends)
          /\ taken' \in Nat /\ need' \in Nat /\ need' < LenBytes
          /\ taken' + need' = Start(Cur) + LenBytes
          /\ taken' <= arrived
          /\ ec' \in {"ok", "pending"} /\ (ec' = "ok" => need' = 0)
          /\ msglen' = Size(Cur) /\ msglen' \in Sizes /\ msglen' \in Nat
      <3>1. PICK m \in Nat \ {0} : m = Cur
        BY <1>2
      <3>2. need \in 0 .. LenBytes
        BY <1>1, <1>3 DEF Position, LenBytes
      <3>3. /\ m <= Len(ends) + 1 /\ taken + need = Start(m) + LenBytes
            /\ need < LenBytes => m <= Len(ends) /\ msglen = Size(m)
        BY <1>1, <1>3, <3>1 DEF Position
      <3>4. /\ m <= Len(ends)
            /\ taken' \in Nat /\ need' \in Nat /\ need' < LenBytes
            /\ taken' + need' = Start(m) + LenBytes
            /\ taken' <= arrived
            /\ ec' \in {"ok", "pending"} /\ (ec' = "ok" => need' = 0)
            /\ msglen' = Size(m) /\ msglen' \in Sizes /\ msglen' \in Nat
        BY <1>3, <3>2, <3>3, TakeLengthRight
      <3> QED BY <3>1, <3>4
    <2>2. Position'
      BY <1>1, <1>2, <1>3, <2>1 DEF Position, LenBytes
    <2>3. Stream'
      BY <1>1, <2>1, StreamSame DEF Stream
    <2>4. Types' /\ Sized' /\ InOrder'
      BY <1>1, <2>1 DEF Types, Sized, InOrder
    <2> QED BY <2>2, <2>3, <2>4 DEF IInv
  <1>4. ASSUME op = "body", TakeBody PROVE IInv'
    <2>1. /\ taken' \in Nat /\ need' \in Nat /\ need' <= need
          /\ taken' + need' = taken + need
          /\ taken' <= arrived
          /\ ec' \in {"ok", "pending"} /\ (ec' = "ok" => need' = 0)
          /\ msglen' = msglen
      BY <1>1, <1>4 DEF TakeBody, Stream
    <2>2. Position'
      <3>1. op' = op /\ buf' = buf /\ ends' = ends /\ buf \in Nat
        BY <1>1 DEF Types
      <3>2. /\ Cur <= Len(ends) /\ need <= buf
            /\ taken + need = Start(Cur) + LenBytes + buf
            /\ buf = Size(Cur) /\ msglen = Size(Cur)
        BY <1>1, <1>4 DEF Position
      <3>3. need' <= buf
        BY <1>1, <2>1, <3>1, <3>2
      <3> QED BY <1>2, <1>4, <2>1, <3>1, <3>2, <3>3 DEF Position
    <2>3. Stream'
      BY <1>1, <2>1, StreamSame DEF Stream
    <2>4. Types' /\ Sized' /\ InOrder'
      BY <1>1, <2>1 DEF Types, Sized, InOrder
    <2> QED BY <2>2, <2>3, <2>4 DEF IInv
  <1>5. ASSUME ec' = "error", UNCHANGED <<taken, need, msglen>> PROVE IInv'
    <2>1. Position'
      BY <1>1, <1>2, <1>5 DEF Position
    <2>2. Stream'
      BY <1>1, <1>5, StreamSame DEF Stream
    <2>3. Types' /\ Sized' /\ InOrder'
      BY <1>1, <1>5 DEF Types, Sized, InOrder
    <2> QED BY <2>1, <2>2, <2>3 DEF IInv
  <1> QED BY <1>3, <1>4, <1>5 DEF ReadReady

\* The length is known, and the body comes next.
LEMMA LengthStep ==
    ASSUME IInv, OnMessageLengthReceived
    PROVE  IInv'
  <1>1. /\ Types /\ Stream /\ Sized /\ InOrder /\ Position /\ loop = "running" /\ op = "len"
        /\ UNCHANGED <<loop, peer, ends, arrived, taken, msglen, delivered>>
    BY DEF IInv, OnMessageLengthReceived
  <1>2. Cur' = Cur /\ Start(Cur)' = Start(Cur) /\ Size(Cur)' = Size(Cur)
    BY <1>1 DEF Cur, Start, Size
  <1>3. Stream'
    BY <1>1, StreamSame DEF Stream
  <1>4. CASE ec = "ok"
    <2>1. buf' = msglen /\ op' = "body" /\ need' = msglen /\ ec' = "pending"
      BY <1>4 DEF OnMessageLengthReceived, BufferFor
    <2>2. /\ Cur <= Len(ends) /\ msglen = Size(Cur)
          /\ taken = Start(Cur) + LenBytes
      <3>1. need = 0 /\ taken \in Nat
        BY <1>1, <1>4 DEF Position, Types
      <3> QED BY <1>1, <3>1 DEF Position, LenBytes
    <2>3. Position'
      <3>1. taken' = taken /\ msglen' = msglen /\ ends' = ends /\ msglen \in Nat
        BY <1>1 DEF Types
      <3> QED BY <1>2, <2>1, <2>2, <3>1 DEF Position
    <2>4. Types' /\ Sized' /\ InOrder'
      BY <1>1, <2>1 DEF Types, Sized, InOrder
    <2> QED BY <1>3, <2>3, <2>4 DEF IInv
  <1>5. CASE ec = "error"
    <2>1. op' = "gone" /\ ec' = "pending" /\ UNCHANGED <<buf, need>>
      BY <1>5 DEF OnMessageLengthReceived, AfterError
    <2>2. Types' /\ Sized' /\ InOrder' /\ Position'
      BY <1>1, <2>1 DEF Types, Sized, InOrder, Position
    <2> QED BY <1>3, <2>2 DEF IInv
  <1> QED BY <1>4, <1>5 DEF OnMessageLengthReceived

\* When message m is complete, the next read starts where the next message
\* does, and leaves either m's size in msglen or the next one's.
LEMMA NextReadRight ==
    ASSUME IInv, OnMessageReceived, ec = "ok", NEW m \in Nat \ {0}, m = Cur
    PROVE  /\ m \in 1 .. Len(ends) /\ buf = Size(m)
           /\ taken = Start(m + 1)
           /\ Start(m) \in Nat /\ taken = Start(m) + LenBytes + buf
           /\ op' = "len"
           /\ taken' \in Nat /\ taken' <= arrived /\ need' \in Nat /\ need' <= LenBytes
           /\ taken' + need' = Start(m + 1) + LenBytes
           /\ ec' \in {"ok", "pending"} /\ (ec' = "ok" => need' = 0)
           /\ need' < LenBytes => m + 1 <= Len(ends) /\ msglen' = Size(m + 1)
           /\ need' = LenBytes => msglen' = buf
           /\ msglen' \in Nat /\ (msglen' = buf \/ msglen' \in Sizes)
  <1> USE DEF LenBytes
  <1>1. /\ Types /\ Stream /\ Position /\ loop = "running" /\ op = "body"
        /\ Len(ends) \in Nat /\ taken \in Nat /\ arrived \in Nat /\ buf \in Nat
    BY DEF IInv, OnMessageReceived, Types
  <1>2. m \in 1 .. Len(ends) /\ buf = Size(m) /\ msglen = Size(m)
    BY <1>1 DEF Position
  <1>3. /\ Start(m) \in Nat /\ ends[m] \in Nat /\ ends[m] = Start(m) + LenBytes + Size(m)
        /\ Start(m + 1) = ends[m]
    BY <1>1, <1>2, EndsFacts DEF Start
  <1>4. taken = Start(m + 1)
    <2>1. need = 0 /\ taken + need = Start(m) + LenBytes + buf
      BY <1>1 DEF Position
    <2> QED BY <1>1, <1>2, <1>3, <2>1
  <1>5. op' = "len"
    BY DEF OnMessageReceived, NextRead
  <1>6. CASE TakeLength(LenBytes)
    <2>1. m + 1 \in Nat \ {0} /\ m + 1 <= Len(ends) + 1 /\ LenBytes \in 0 .. LenBytes
      BY <1>1, <1>2
    <2>2. taken + LenBytes = Start(m + 1) + LenBytes
      BY <1>4
    <2>3. /\ m + 1 <= Len(ends)
          /\ taken' \in Nat /\ need' \in Nat /\ need' < LenBytes
          /\ taken' + need' = Start(m + 1) + LenBytes
          /\ taken' <= arrived
          /\ ec' \in {"ok", "pending"} /\ (ec' = "ok" => need' = 0)
          /\ msglen' = Size(m + 1) /\ msglen' \in Sizes /\ msglen' \in Nat
      BY <1>6, <2>1, <2>2, TakeLengthRight
    <2> QED BY <1>1, <1>2, <1>3, <1>4, <1>5, <2>3
  <1>7. CASE need' = LenBytes /\ ec' = "pending" /\ UNCHANGED <<taken, msglen>>
    <2>1. taken <= arrived /\ msglen \in Nat
      BY <1>1 DEF Stream, Types
    <2> QED BY <1>1, <1>2, <1>3, <1>4, <1>5, <1>7, <2>1
  <1> QED BY <1>6, <1>7 DEF OnMessageReceived

\* The message that is complete is the next one of the stream.
LEMMA MessageStep ==
    ASSUME IInv, OnMessageReceived
    PROVE  IInv'
  <1> USE DEF LenBytes
  <1>1. /\ Types /\ Stream /\ Sized /\ InOrder /\ Position /\ loop = "running" /\ op = "body"
        /\ UNCHANGED <<peer, ends, arrived, buf>>
        /\ Len(ends) \in Nat /\ Len(delivered) \in Nat /\ taken \in Nat /\ arrived \in Nat
        /\ buf \in Nat
    BY DEF IInv, OnMessageReceived, Types
  <1>2. PICK m \in Nat \ {0} : m = Cur
    BY <1>1 DEF Cur
  <1>5. CASE ec = "error"
    <2>1. op' = "gone" /\ ec' = "pending" /\ UNCHANGED <<loop, taken, need, msglen, delivered>>
      BY <1>5 DEF OnMessageReceived, AfterError
    <2>2. Types' /\ Sized' /\ InOrder' /\ Position'
      BY <1>1, <2>1 DEF Types, Sized, InOrder, Position
    <2>3. Stream'
      BY <1>1, <2>1, StreamSame DEF Stream
    <2> QED BY <2>2, <2>3 DEF IInv
  <1>6. CASE ec = "ok"
    <2>1. /\ buf = Size(m) /\ m \in 1 .. Len(ends)
          /\ Start(m) \in Nat /\ taken = Start(m) + LenBytes + buf
      BY <1>2, <1>6, NextReadRight
    <2>2. /\ op' = "len"
          /\ taken' \in Nat /\ taken' <= arrived /\ need' \in Nat /\ need' <= LenBytes
          /\ taken' + need' = Start(m + 1) + LenBytes
          /\ ec' \in {"ok", "pending"} /\ (ec' = "ok" => need' = 0)
          /\ need' < LenBytes => m + 1 <= Len(ends) /\ msglen' = Size(m + 1)
          /\ msglen' \in Nat /\ msglen' \in Sizes \cup {0}
      <3>1. buf \in Sizes \cup {0}
        BY <1>1 DEF Sized
      <3> QED BY <1>2, <1>6, <3>1, NextReadRight
    <2>3. Stream'
      BY <1>1, <2>2, StreamSame DEF Stream
    <2>4. CASE delivered' = Append(delivered, BodyAt(taken - buf, buf)) /\ UNCHANGED loop
      <3>1. BodyAt(taken - buf, buf) = m
        <4>1. taken - buf = Start(m) + LenBytes
          BY <1>1, <2>1
        <4> QED BY <1>1, <2>1, <4>1, BodyFound
      <3>2. /\ delivered' \in Seq(Nat) /\ Len(delivered') = m
            /\ \A i \in 1 .. Len(delivered) : delivered'[i] = delivered[i]
            /\ delivered'[m] = m
        <4>1. delivered \in Seq(Nat) /\ m = Len(delivered) + 1
          BY <1>1, <1>2 DEF Types, Cur
        <4> QED BY <2>4, <3>1, <4>1, AppendProperties
      <3>3. InOrder'
        <4>1. \A i \in 1 .. Len(delivered) : delivered[i] = i
          BY <1>1 DEF InOrder
        <4>2. \A i \in 1 .. Len(delivered') : delivered'[i] = i
          BY <1>1, <1>2, <3>2, <4>1 DEF Cur
        <4> QED BY <3>2, <4>2 DEF InOrder
      <3>4. Position'
        <4>1. Cur' = m + 1
          BY <3>2 DEF Cur
        <4>2. Start(m + 1)' = Start(m + 1) /\ Size(m + 1)' = Size(m + 1)
          BY <1>1 DEF Start, Size
        <4>3. /\ Cur' <= Len(ends') + 1
              /\ need' <= LenBytes
              /\ taken' + need' = Start(Cur)' + LenBytes
              /\ ec' = "ok" => need' = 0
              /\ need' < LenBytes => Cur' <= Len(ends') /\ msglen' = Size(Cur)'
          <5>1. Start(Cur)' = Start(m + 1)' /\ Size(Cur)' = Size(m + 1)'
            BY <4>1 DEF Start, Size
          <5> QED BY <1>1, <2>1, <2>2, <4>1, <4>2, <5>1
        <4> QED BY <2>2, <4>3 DEF Position
      <3>5. Types' /\ Sized'
        BY <1>1, <2>1, <2>2, <2>4, <3>2 DEF Types, Sized
      <3> QED BY <2>3, <3>3, <3>4, <3>5 DEF IInv
    <2>5. CASE loop' = "threw" /\ UNCHANGED delivered
      <3>1. Types' /\ Sized' /\ InOrder'
        BY <1>1, <2>2, <2>5 DEF Types, Sized, InOrder
      <3> QED BY <2>3, <2>5, <3>1 DEF IInv
    <2> QED BY <1>6, <2>4, <2>5 DEF OnMessageReceived
  <1> QED BY <1>5, <1>6 DEF OnMessageReceived

-----------------------------------------------------------------------------
(* The theorems.                                                           *)

\* Steps of the network and of the user leave the reader alone.
LEMMA OtherSteps ==
    ASSUME IInv, Arrive \/ HangUp \/ Stop \/ UNCHANGED vars
    PROVE  IInv'
  <1>1. /\ UNCHANGED <<ends, taken, op, need, ec, msglen, buf, delivered>>
        /\ loop' # "threw" => loop # "threw"
    BY DEF Arrive, HangUp, Stop, vars
  <1>2. taken' <= arrived' /\ arrived' <= Total /\ arrived' \in Nat
    <2>1. taken \in Nat /\ arrived \in Nat /\ taken <= arrived /\ arrived <= Total /\ Total \in Nat
      BY EndsFacts DEF IInv, Types, Stream
    <2>2. taken' = taken /\ (arrived' = arrived \/ (arrived < Total /\ arrived' = arrived + 1))
      BY DEF Arrive, HangUp, Stop, vars
    <2> QED BY <2>1, <2>2
  <1>3. Stream'
    BY <1>1, <1>2, StreamSame
  <1>4. Types'
    BY <1>1, <1>2 DEF IInv, Types, Arrive, HangUp, Stop, vars
  <1>5. Sized' /\ InOrder'
    BY <1>1 DEF IInv, Sized, InOrder
  <1>6. Position => Position'
    BY <1>1 DEF Position, Cur, Start, Size
  <1> QED BY <1>1, <1>3, <1>4, <1>5, <1>6 DEF IInv

\* The inductive invariant is an invariant of the specification.
THEOREM Invariance == Spec => []IInv
  <1>1. IInv /\ [Next]_vars => IInv'
    BY WriteStep, ReadStep, LengthStep, MessageStep, OtherSteps DEF Next
  <1> QED BY <1>1, InitIInv, PTL DEF Spec

\* Every variable keeps its type: no read takes more than has arrived, and no
\* length is anything but the size of a message.
THEOREM TypeCorrect == Spec => []TypeOK
  <1>1. IInv => TypeOK
    <2> SUFFICES ASSUME IInv PROVE TypeOK
      OBVIOUS
    <2>1. Total \in Nat
      BY EndsFacts DEF IInv
    <2>2. delivered \in Seq(0 .. Len(ends))
      <3>1. delivered \in Seq(Nat) /\ Len(delivered) <= Len(ends) /\ Len(ends) \in Nat
        BY DEF IInv, Types, Sized
      <3>2. \A i \in 1 .. Len(delivered) : delivered[i] \in 0 .. Len(ends)
        BY <3>1 DEF IInv, InOrder
      <3> QED BY <3>1, <3>2
    <2>3. arrived \in 0 .. Total /\ taken \in 0 .. arrived
      BY <2>1 DEF IInv, Types, Stream
    <2> QED BY <2>2, <2>3 DEF IInv, Types, Sized, TypeOK
  <1> QED BY <1>1, Invariance, PTL

\* The callback gets every message once and in order, whatever the sizes.
THEOREM Ordered == Spec => []InOrder
  <1>1. IInv => InOrder
    BY DEF IInv
  <1> QED BY <1>1, Invariance, PTL

\* Deserialization only throws when the next message is the shorter one.
THEOREM Overrun == Spec => []OverrunByNext
  <1>1. Init => OverrunByNext
    BY DEF Init, OverrunByNext
  <1>2. IInv /\ OverrunByNext /\ [Next]_vars => OverrunByNext'
    <2> SUFFICES ASSUME IInv, OverrunByNext, [Next]_vars, loop' = "threw"
                 PROVE  OverrunByNext'
      BY DEF OverrunByNext
    <2>1. PICK m \in Nat \ {0} : m = Cur
      BY DEF IInv, Types, Cur
    <2>2. Len(ends) \in Nat
      BY DEF IInv, Types
    <2>3. CASE loop = "threw"
      <3>1. delivered' = delivered
        BY <2>3 DEF Next, Write, Arrive, HangUp, ReadReady, OnMessageLengthReceived,
                    OnMessageReceived, Stop, vars
      <3>2. ends' = ends \/ Write
        BY <2>3 DEF Next, Arrive, HangUp, ReadReady, OnMessageLengthReceived,
                    OnMessageReceived, Stop, vars
      <3>3. m < Len(ends) /\ Size(m + 1) < Size(m)
        BY <2>1, <2>3 DEF OverrunByNext, Cur
      <3>4. Len(ends) <= Len(ends') /\ Len(ends') \in Nat
            /\ \A i \in 1 .. Len(ends) : ends'[i] = ends[i]
        <4>1. CASE ends' = ends
          BY <2>2, <4>1
        <4>2. CASE Write
          <5>1. PICK e : ends' = Append(ends, e) /\ e \in Nat
            <6>1. Total \in Nat
              BY EndsFacts DEF IInv
            <6>2. \A size \in Sizes : size \in Nat
              OBVIOUS
            <6> QED BY <4>2, <6>1, <6>2 DEF Write, LenBytes
          <5>2. ends \in Seq(Nat)
            BY DEF IInv, Types
          <5> QED BY <2>2, <5>1, <5>2, AppendProperties
        <4> QED BY <3>2, <4>1, <4>2
      <3>5. Size(m)' = Size(m) /\ Size(m + 1)' = Size(m + 1)
        BY <2>1, <2>2, <3>3, <3>4 DEF Size, Start
      <3>6. m < Len(ends')
        BY <2>1, <2>2, <3>3, <3>4
      <3>7. Size(m + 1)' < Size(m)'
        BY <3>3, <3>5
      <3>8. Len(delivered)' + 1 = m
        BY <2>1, <3>1 DEF Cur
      <3> QED BY <3>6, <3>7, <3>8 DEF OverrunByNext, Size, Start
    <2>4. CASE loop # "threw"
      <3>1. /\ OnMessageReceived /\ ec = "ok" /\ msglen' < buf
            /\ UNCHANGED <<ends, delivered>>
        BY <2>4 DEF Next, Write, Arrive, HangUp, ReadReady, OnMessageLengthReceived,
                    OnMessageReceived, Stop, vars
      <3>2. /\ m \in 1 .. Len(ends) /\ buf = Size(m)
            /\ need' \in Nat /\ need' <= LenBytes
            /\ need' < LenBytes => m + 1 <= Len(ends) /\ msglen' = Size(m + 1)
            /\ need' = LenBytes => msglen' = buf
            /\ msglen' \in Nat
        BY <2>1, <3>1, NextReadRight
      <3>3. need' < LenBytes
        BY <3>1, <3>2 DEF LenBytes
      <3>4. m < Len(ends) /\ Size(m + 1) < Size(m)
        BY <2>1, <2>2, <3>1, <3>2, <3>3
      <3>5. Size(m)' = Size(m) /\ Size(m + 1)' = Size(m + 1)
        BY <3>1 DEF Size, Start
      <3>6. Len(delivered)' + 1 = m /\ m < Len(ends')
        BY <2>1, <3>1, <3>4 DEF Cur
      <3>7. Size(m + 1)' < Size(m)'
        BY <3>4, <3>5
      <3> QED BY <3>6, <3>7 DEF OverrunByNext, Size, Start
    <2> QED BY <2>3, <2>4
  <1> QED BY <1>1, <1>2, Invariance, PTL DEF Spec

\* When all messages of the topic have one size, deserialization never throws,
\* although the next length may have replaced the one it goes by.
THEOREM OneSize ==
    ASSUME NEW size, Sizes \subseteq {size}
    PROVE  Spec => []NoOverrun
  <1>1. IInv /\ OverrunByNext => NoOverrun
    <2> SUFFICES ASSUME IInv, OverrunByNext, loop = "threw" PROVE FALSE
      BY DEF NoOverrun
    <2>1. PICK m \in Nat \ {0} : m = Cur
      BY DEF IInv, Types, Cur
    <2>2. m < Len(ends) /\ Size(m + 1) < Size(m) /\ Len(ends) \in Nat
      BY <2>1 DEF OverrunByNext, Cur, IInv, Types
    <2>3. Size(m) \in Sizes /\ Size(m + 1) \in Sizes
      BY <2>1, <2>2 DEF IInv, Stream
    <2>4. \A j, k \in Sizes : j = k
      OBVIOUS
    <2>5. \A k \in Sizes : k \in Nat
      OBVIOUS
    <2>6. PICK j, k \in Sizes : j = Size(m) /\ k = Size(m + 1)
      BY <2>3
    <2>7. k < j /\ j = k /\ j \in Nat
      BY <2>2, <2>4, <2>5, <2>6
    <2> QED BY <2>7
  <1> QED BY <1>1, Invariance, Overrun, PTL
-----------------------------------------------------------------------------
(* Receiver implements Broadcast.                                          *)

\* The numbers after a up to b.
LEMMA AfterSeq ==
    ASSUME NEW a \in Nat, NEW b \in Nat, a <= b
    PROVE  /\ After(a, b) \in Seq(Nat) /\ Len(After(a, b)) = b - a
           /\ \A i \in 1 .. b - a : After(a, b)[i] = a + i
  <1>1. After(a, b) \in [1 .. b - a -> Nat] /\ b - a \in Nat
    BY DEF After
  <1>2. After(a, b) \in Seq(Nat) /\ Len(After(a, b)) = b - a
    BY <1>1
  <1> QED BY <1>2 DEF After

\* What joins them at the end.
LEMMA AfterAppend ==
    ASSUME NEW d \in Nat, NEW n \in Nat, d <= n
    PROVE  After(d, n + 1) = Append(After(d, n), n + 1)
  <1> DEFINE q == After(d, n)
             r == After(d, n + 1)
             s == Append(q, n + 1)
  <1>1. q \in Seq(Nat) /\ Len(q) = n - d /\ \A i \in 1 .. n - d : q[i] = d + i
    BY AfterSeq
  <1>2. r \in Seq(Nat) /\ Len(r) = n + 1 - d /\ \A i \in 1 .. n + 1 - d : r[i] = d + i
    <2>1. PICK m \in Nat : m = n + 1 /\ d <= m
      OBVIOUS
    <2>2. After(d, m) \in Seq(Nat) /\ Len(After(d, m)) = m - d
          /\ \A i \in 1 .. m - d : After(d, m)[i] = d + i
      BY <2>1, AfterSeq
    <2> QED BY <2>1, <2>2
  <1>3. n + 1 \in Nat
    OBVIOUS
  <1> HIDE DEF q
  <1>4. /\ s \in Seq(Nat) /\ Len(s) = Len(q) + 1
        /\ \A i \in 1 .. Len(q) : s[i] = q[i]
        /\ s[Len(q) + 1] = n + 1
    BY <1>1, <1>3, AppendProperties
  <1> HIDE DEF r, s
  <1>5. Len(r) = Len(s)
    BY <1>1, <1>2, <1>4
  <1>6. ASSUME NEW i \in 1 .. Len(r) PROVE r[i] = s[i]
    <2>1. i \in 1 .. n + 1 - d /\ r[i] = d + i
      BY <1>2
    <2>2. CASE i \in 1 .. n - d
      BY <1>1, <1>4, <2>1, <2>2
    <2>3. CASE i = n - d + 1
      BY <1>1, <1>4, <2>1, <2>3
    <2> QED BY <2>1, <2>2, <2>3
  <1>7. r = s
    BY <1>2, <1>4, <1>5, <1>6, SeqEqual
  <1> QED BY <1>7 DEF q, r, s

\* What is left of them without the first.
LEMMA AfterTail ==
    ASSUME NEW d \in Nat, NEW n \in Nat, d < n
    PROVE  /\ After(d, n) # <<>>
           /\ Head(After(d, n)) = d + 1
           /\ Tail(After(d, n)) = After(d + 1, n)
  <1> DEFINE q == After(d, n)
             r == After(d + 1, n)
  <1>1. q \in Seq(Nat) /\ Len(q) = n - d /\ \A i \in 1 .. n - d : q[i] = d + i
    BY AfterSeq
  <1>2. /\ r \in Seq(Nat) /\ Len(r) = n - (d + 1)
        /\ \A i \in 1 .. n - (d + 1) : r[i] = d + 1 + i
    <2>1. PICK e \in Nat : e = d + 1 /\ e <= n
      OBVIOUS
    <2>2. After(e, n) \in Seq(Nat) /\ Len(After(e, n)) = n - e
          /\ \A i \in 1 .. n - e : After(e, n)[i] = e + i
      BY <2>1, AfterSeq
    <2> QED BY <2>1, <2>2
  <1> HIDE DEF q, r
  <1>3. q # <<>> /\ Head(q) = d + 1
    BY <1>1
  <1>4. /\ Tail(q) \in Seq(Nat) /\ Len(Tail(q)) = Len(q) - 1
        /\ \A i \in 1 .. Len(Tail(q)) : Tail(q)[i] = q[i + 1]
    BY <1>1, <1>3, HeadTailProperties
  <1>5. Len(Tail(q)) = Len(r)
    BY <1>1, <1>2, <1>4
  <1>6. ASSUME NEW i \in 1 .. Len(Tail(q)) PROVE Tail(q)[i] = r[i]
    BY <1>1, <1>2, <1>4
  <1>7. Tail(q) = r
    BY <1>2, <1>4, <1>5, <1>6, SeqEqual
  <1> QED BY <1>3, <1>7 DEF q, r

\* The publisher writes, although the subscriber may not read any more.
LEMMA WriteRefines ==
    ASSUME IInv, Write
    PROVE  B!Publish("topic")
  <1>1. /\ peer = "open" /\ UNCHANGED <<loop, peer, delivered>>
        /\ Len(ends) \in Nat /\ Len(ends') = Len(ends) + 1
    <2>1. PICK size \in Sizes : ends' = Append(ends, Total + LenBytes + size)
      BY DEF Write
    <2>2. size \in Nat /\ Total \in Nat /\ ends \in Seq(Nat)
      <3>1. \A k \in 0 .. 255 : k \in Nat
        OBVIOUS
      <3> QED BY <3>1, EndsFacts DEF IInv, Types
    <2>3. Total + LenBytes + size \in Nat
      BY <2>2 DEF LenBytes
    <2> QED BY <2>1, <2>2, <2>3, AppendProperties DEF Write
  <1>2. Killed' = Killed /\ "publisher" \notin Killed /\ ("subscriber" \in Killed <=> loop = "threw")
    BY <1>1 DEF Killed
  <1>3. Queue' = IF loop = "threw" THEN Queue ELSE Append(Queue, Len(ends) + 1)
    <2>1. Len(delivered) \in Nat /\ Len(delivered) <= Len(ends)
      BY DEF IInv, Types, Sized
    <2>2. PICK d \in Nat, n \in Nat : d = Len(delivered) /\ n = Len(ends) /\ d <= n
      BY <1>1, <2>1
    <2>3. After(d, n + 1) = Append(After(d, n), n + 1)
      BY <2>2, AfterAppend
    <2> QED BY <1>1, <2>2, <2>3 DEF Queue
  <1> QED BY <1>1, <1>2, <1>3 DEF B!Publish, B!Enqueue, Only

\* Either end goes away: the publisher hangs up, or the subscriber throws.
LEMMA EndRefines ==
    ASSUME IInv, HangUp \/ (OnMessageReceived /\ loop' = "threw")
    PROVE  \E l \in {"publisher", "subscriber"} : B!Kill(l)
  <1>1. CASE HangUp
    <2>1. /\ "publisher" \notin Killed /\ Killed' = Killed \cup {"publisher"}
          /\ Queue' = Queue /\ UNCHANGED <<ends, delivered>>
      BY <1>1 DEF HangUp, Killed, Queue
    <2>2. B!Kill("publisher")
      <3>1. {} \in SUBSET {k \in {"link"} : Only("topic", "publisher")[Only("link", "topic")[k]] = "publisher"
                                             /\ Only("link", Queue)[k] # <<>>}
        OBVIOUS
      <3>2. Only("link", Queue)' = [k \in {"link"} |->
                IF Only("link", "subscriber")[k] = "publisher" THEN <<>>
                ELSE IF k \in {} THEN SubSeq(Only("link", Queue)[k], 1, Len(Only("link", Queue)[k]) - 1)
                ELSE Only("link", Queue)[k]]
        BY <2>1 DEF Only
      <3>3. UNCHANGED <<Only("topic", Len(ends)), Only("link", delivered)>>
        BY <2>1 DEF Only
      <3> QED BY <2>1, <3>1, <3>2, <3>3 DEF B!Kill
    <2> QED BY <2>2
  <1>2. CASE OnMessageReceived /\ loop' = "threw"
    <2>1. loop = "running" /\ UNCHANGED <<peer, ends, delivered>>
      BY <1>2 DEF OnMessageReceived
    <2>2. /\ "subscriber" \notin Killed /\ Killed' = Killed \cup {"subscriber"}
          /\ Queue' = <<>>
      BY <1>2, <2>1 DEF Killed, Queue
    <2>3. B!Kill("subscriber")
      <3>1. {} \in SUBSET {k \in {"link"} : Only("topic", "publisher")[Only("link", "topic")[k]] = "subscriber"
                                             /\ Only("link", Queue)[k] # <<>>}
        OBVIOUS
      <3>2. Only("link", Queue)' = [k \in {"link"} |->
                IF Only("link", "subscriber")[k] = "subscriber" THEN <<>>
                ELSE IF k \in {} THEN SubSeq(Only("link", Queue)[k], 1, Len(Only("link", Queue)[k]) - 1)
                ELSE Only("link", Queue)[k]]
        BY <2>2 DEF Only
      <3>3. UNCHANGED <<Only("topic", Len(ends)), Only("link", delivered)>>
        BY <2>1 DEF Only
      <3> QED BY <2>2, <3>1, <3>2, <3>3 DEF B!Kill
    <2> QED BY <2>3
  <1> QED BY <1>1, <1>2

\* A message that is complete is the first of those on their way.
LEMMA MessageRefines ==
    ASSUME IInv, OnMessageReceived, loop' # "threw", delivered' # delivered
    PROVE  B!Deliver("link")
  <1>1. /\ ec = "ok" /\ op = "body" /\ loop = "running" /\ UNCHANGED <<loop, peer, ends, buf>>
        /\ delivered' = Append(delivered, BodyAt(taken - buf, buf))
    BY DEF OnMessageReceived
  <1>2. PICK m \in Nat \ {0} : m = Cur
    BY DEF IInv, Types, Cur
  <1>3. /\ m \in 1 .. Len(ends) /\ buf = Size(m)
        /\ Start(m) \in Nat /\ taken = Start(m) + LenBytes + buf
    BY <1>1, <1>2, NextReadRight
  <1>4. BodyAt(taken - buf, buf) = m
    <2>1. taken - buf = Start(m) + LenBytes
      BY <1>3 DEF IInv, Types, LenBytes
    <2> QED BY <1>3, <2>1, BodyFound DEF IInv
  <1>5. delivered' = Append(delivered, m) /\ m = Len(delivered) + 1
        /\ delivered \in Seq(Nat) /\ Len(delivered) \in Nat /\ Len(ends) \in Nat
    BY <1>1, <1>2, <1>4 DEF Cur, IInv, Types
  <1>6. Len(delivered') = Len(delivered) + 1 /\ Len(delivered) < Len(ends)
    BY <1>3, <1>5
  <1>7. /\ Queue # <<>> /\ Head(Queue) = m
        /\ Queue' = Tail(Queue)
    <2>1. /\ Queue = After(Len(delivered), Len(ends))
          /\ Queue' = After(Len(delivered) + 1, Len(ends))
      BY <1>1, <1>6 DEF Queue
    <2>2. PICK d \in Nat, n \in Nat : d = Len(delivered) /\ n = Len(ends) /\ d < n
      BY <1>5, <1>6
    <2>3. /\ After(d, n) # <<>> /\ Head(After(d, n)) = d + 1
          /\ Tail(After(d, n)) = After(d + 1, n)
      BY <2>2, AfterTail
    <2> QED BY <1>5, <2>1, <2>2, <2>3
  <1>8. "subscriber" \notin Killed /\ Killed' = Killed
    BY <1>1 DEF Killed
  <1>9. UNCHANGED ends
    BY <1>1
  <1> QED BY <1>5, <1>7, <1>8, <1>9 DEF B!Deliver, Only

\* The bytes of a connection implement the abstract broadcast.
THEOREM Implementation == Spec => BroadcastSpec
  <1>1. Init => B!Init
    BY DEF Init, B!Init, Queue, Killed, Only, After
  <1>2. IInv /\ [Next]_vars => [B!Next]_(B!broadcastVars)
    <2> SUFFICES ASSUME IInv, [Next]_vars PROVE [B!Next]_(B!broadcastVars)
      OBVIOUS
    <2>1. CASE Write
      BY <2>1, WriteRefines DEF B!Next
    <2>2. CASE HangUp \/ (OnMessageReceived /\ loop' = "threw")
      BY <2>2, EndRefines DEF B!Next
    <2>3. CASE OnMessageReceived /\ loop' # "threw" /\ delivered' # delivered
      BY <2>3, MessageRefines DEF B!Next
    <2>4. ASSUME UNCHANGED <<peer, ends, delivered>>, loop' = "threw" <=> loop = "threw"
          PROVE  UNCHANGED B!broadcastVars
      BY <2>4 DEF B!broadcastVars, Queue, Killed, Only
    <2>5. CASE OnMessageReceived /\ loop' # "threw" /\ delivered' = delivered
      BY <2>4, <2>5 DEF OnMessageReceived
    <2>6. CASE Arrive \/ ReadReady \/ OnMessageLengthReceived \/ Stop \/ UNCHANGED vars
      BY <2>4, <2>6 DEF Arrive, ReadReady, OnMessageLengthReceived, Stop, vars
    <2> QED BY <2>1, <2>2, <2>3, <2>5, <2>6 DEF Next
  <1> QED BY <1>1, <1>2, Invariance, PTL DEF Spec, BroadcastSpec, B!Spec
=============================================================================
