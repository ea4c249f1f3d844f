--------------------------- MODULE ForwardingProofs ---------------------------
(***************************************************************************)
(* Theorems about module Forwarding, for all sizes of headers, messages    *)
(* and packets, any packets and any way TCP cuts and loses the bytes.      *)
(***************************************************************************)
EXTENDS Forwarding, SequenceTheorems, TLAPS

-----------------------------------------------------------------------------
(* Types *)

Layers == {"ARP", "IP", "IPv6"}

Origins == [type : Layers \cup {"none", "challenge", "proof", "accepted", "rejected"},
            size : Nat]

\* The frames encode_packet makes.
Frames == [type : Layers, size : 1 .. MaxPacketSize]

Byte == [of : Origins, place : Nat]

ForwardingTypeOK ==
    /\ open \in BOOLEAN
    /\ toListener \in Seq(Byte) /\ toSender \in Seq(Byte)
    /\ sender \in {"challenge", "answer", "forward", "ended"}
    /\ listener \in {"response", "header", "payload", "ended"}
    /\ chunks \in [Sides -> Seq(Byte)]
    /\ header \in Origins
    /\ sent \in Seq(Frames) /\ delivered \in Seq(Frames)

\* A message, or a part of it, is bytes, as many as it has.
LEMMA BytesAreBytes ==
    ASSUME NEW message \in Origins, NEW n \in Nat
    PROVE  /\ Bytes(message, n) \in Seq(Byte)
           /\ Len(Bytes(message, n)) = n
           /\ \A i \in 1 .. n : Bytes(message, n)[i] = [of |-> message, place |-> i]
<1>1. \A i \in 1 .. n : [of |-> message, place |-> i] \in Byte
  BY DEF Byte
<1>2. Bytes(message, n) \in [1 .. n -> Byte]
  BY <1>1 DEF Bytes
<1>3. Bytes(message, n) \in Seq(Byte)
  BY <1>2
<1>4. DOMAIN Bytes(message, n) = 1 .. n
  BY DEF Bytes
<1>. QED  BY <1>3, <1>4, LenProperties DEF Bytes

LEMMA FirstBytes ==
    ASSUME NEW s \in Seq(Byte), NEW n \in 0 .. Len(s)
    PROVE  /\ SubSeq(s, 1, n) \in Seq(Byte) /\ Len(SubSeq(s, 1, n)) = n
           /\ \A i \in 1 .. n : SubSeq(s, 1, n)[i] = s[i]
<1>1. \A i \in 1 .. n : s[i] \in Byte
  BY ElementOfSeq
<1>. QED  BY <1>1, SubSeqProperties, LenProperties

LEMMA OtherBytes ==
    ASSUME NEW s \in Seq(Byte), NEW n \in 0 .. Len(s)
    PROVE  /\ SubSeq(s, n + 1, Len(s)) \in Seq(Byte)
           /\ Len(SubSeq(s, n + 1, Len(s))) = Len(s) - n
           /\ \A i \in 1 .. Len(s) - n : SubSeq(s, n + 1, Len(s))[i] = s[n + i]
<1>1. Len(s) \in Nat /\ \A i \in n + 1 .. Len(s) : s[i] \in Byte
  BY ElementOfSeq, LenProperties
<1>. QED  BY <1>1, SubSeqProperties

LEMMA MessagesAreOrigins ==
    /\ Frames \subseteq Origins /\ NoFrame \in Origins /\ Proof \in Origins
    /\ \A p \in Packets : Encodable(p) => Frame(p) \in Frames
    /\ \A type \in {"challenge", "accepted", "rejected"} : Message(type) \in Origins
<1>1. Frames \subseteq Origins
  <2>. SUFFICES ASSUME NEW f \in Frames PROVE f \in Origins
    OBVIOUS
  <2>1. PICK type \in Layers, size \in 1 .. MaxPacketSize : f = [type |-> type, size |-> size]
    BY DEF Frames
  <2>2. size \in Nat
    BY ForwardingAssumption
  <2>. QED  BY <2>1, <2>2, Zenon DEF Origins
<1>2. NoFrame \in Origins /\ Proof \in Origins
  BY DEF NoFrame, Proof, Message, Origins
<1>3. ASSUME NEW p \in Packets, Encodable(p) PROVE Frame(p) \in Frames
  BY <1>3, ForwardingAssumption DEF Encodable, Frame, Layer, Frames, Layers
<1>4. \A type \in {"challenge", "accepted", "rejected"} : Message(type) \in Origins
  BY DEF Message, Origins
<1>. QED  BY <1>1, <1>2, <1>3, <1>4

LEMMA Associative ==
    ASSUME NEW a \in Seq(Byte), NEW b \in Seq(Byte), NEW c \in Seq(Byte)
    PROVE  (a \o b) \o c = a \o (b \o c)
  BY ConcatAssociative

\* recv() moves bytes from the wire to the chunks.
LEMMA Received ==
    ASSUME NEW c \in Seq(Byte), NEW t \in Seq(Byte), NEW n \in 1 .. Len(t)
    PROVE  /\ c \o SubSeq(t, 1, n) \in Seq(Byte)
           /\ SubSeq(t, n + 1, Len(t)) \in Seq(Byte)
           /\ (c \o SubSeq(t, 1, n)) \o SubSeq(t, n + 1, Len(t)) = c \o t
<1>. DEFINE a == SubSeq(t, 1, n)
            b == SubSeq(t, n + 1, Len(t))
<1>1. a \in Seq(Byte) /\ b \in Seq(Byte) /\ Len(t) \in Nat
  BY FirstBytes, OtherBytes, LenProperties
<1>2. a \o b = t
  BY <1>1, ConcatAdjacentSubSeq, SubSeqFull
<1>. HIDE DEF a, b
<1>3. (c \o a) \o b = c \o (a \o b)
  BY <1>1, Associative
<1>4. c \o a \in Seq(Byte)
  BY <1>1, ConcatProperties
<1>. QED  BY <1>1, <1>2, <1>3, <1>4 DEF a, b

LEMMA TypeStep == ForwardingTypeOK /\ [Next]_vars => ForwardingTypeOK'
<1>. SUFFICES ASSUME ForwardingTypeOK, [Next]_vars PROVE ForwardingTypeOK'
  OBVIOUS
<1>. USE DEF ForwardingTypeOK, wire, Used, Sides
<1>0. <<>> \in Seq(Byte)
  OBVIOUS
<1>1. ASSUME NEW side \in Sides, Receive(side) PROVE ForwardingTypeOK'
  <2>1. CASE side = "sender"
    BY <1>1, <2>1, Received DEF Receive, Incoming
  <2>2. CASE side = "listener"
    BY <1>1, <2>2, Received DEF Receive, Incoming
  <2>. QED  BY <2>1, <2>2
<1>2. ASSUME NEW side \in Sides, EndOfStream(side) PROVE ForwardingTypeOK'
  BY <1>2 DEF EndOfStream
<1>3. CASE Respond
  <2>1. Bytes(Proof, AuthSize) \in Seq(Byte)
    BY MessagesAreOrigins, BytesAreBytes, ForwardingAssumption
  <2>2. toListener' \in Seq(Byte)
    BY <1>3, <2>1, ConcatProperties DEF Respond
  <2>. QED  BY <1>0, <1>3, <2>2 DEF Respond
<1>4. CASE ReadAnswer
  BY <1>0, <1>4 DEF ReadAnswer
<1>5. CASE SenderEnds
  BY <1>5 DEF SenderEnds
<1>6. ASSUME NEW p \in Packets, Forward(p) PROVE ForwardingTypeOK'
  <2>1. Frame(p) \in Frames /\ FrameBytes(Frame(p)) \in Seq(Byte)
    BY <1>6, MessagesAreOrigins, BytesAreBytes, ForwardingAssumption
       DEF Forward, FrameBytes, Frames
  <2>2. toListener' \in Seq(Byte)
    BY <1>6, <2>1, ConcatProperties DEF Forward
  <2>3. sent' \in Seq(Frames)
    BY <1>6, <2>1, AppendProperties DEF Forward
  <2>. QED  BY <1>6, <2>2, <2>3 DEF Forward
<1>7. ASSUME NEW p \in Packets, ForwardFails(p) PROVE ForwardingTypeOK'
  <2>1. FrameBytes(Frame(p)) \in Seq(Byte) /\ Len(FrameBytes(Frame(p))) \in Nat
    BY <1>7, MessagesAreOrigins, BytesAreBytes, ForwardingAssumption, LenProperties
       DEF ForwardFails, FrameBytes, Frames
  <2>2. toListener' \in Seq(Byte)
    BY <1>7, <2>1, FirstBytes, ConcatProperties DEF ForwardFails
  <2>. QED  BY <1>7, <2>2 DEF ForwardFails
<1>8. CASE CheckResponse
  <2>1. Bytes(Message("accepted"), 1) \in Seq(Byte) /\ Bytes(Message("rejected"), 1) \in Seq(Byte)
    BY MessagesAreOrigins, BytesAreBytes
  <2>2. toSender' \in Seq(Byte)
    <3>1. /\ toSender \o Bytes(Message("accepted"), 1) \in Seq(Byte)
          /\ toSender \o Bytes(Message("rejected"), 1) \in Seq(Byte)
      BY <2>1, ConcatProperties
    <3>. QED  BY <1>8, <3>1 DEF CheckResponse
  <2>. QED  BY <1>0, <1>8, <2>2 DEF CheckResponse
<1>9. CASE ReadHeader
  <2>1. header' \in Origins
    <3>1. CASE Len(chunks["listener"]) = HeaderSize /\ Aligned("listener")
      <4>1. 1 \in 1 .. Len(chunks["listener"])
        BY <3>1, ForwardingAssumption
      <4>2. chunks["listener"][1] \in Byte
        BY <4>1, ElementOfSeq
      <4>. QED  BY <1>9, <3>1, <4>2 DEF ReadHeader, Byte
    <3>. QED  BY <1>9, <3>1 DEF ReadHeader
  <2>. QED  BY <1>0, <1>9, <2>1 DEF ReadHeader
<1>10. CASE Decode
  <2>. DEFINE f == [header EXCEPT !.size = Len(chunks["listener"])]
  <2>1. Decodable(f) => f \in Frames
    BY DEF Decodable, Frames, Layers, Origins
  <2>. HIDE DEF f
  <2>2. delivered' \in Seq(Frames) /\ listener' \in {"header", "ended"}
    <3>1. Decodable(f) => Append(delivered, f) \in Seq(Frames)
      BY <2>1, AppendProperties
    <3>2. /\ Decodable(f) => delivered' = Append(delivered, f) /\ listener' = "header"
          /\ ~ Decodable(f) => delivered' = delivered /\ listener' = "ended"
      BY <1>10 DEF Decode, f
    <3>. QED  BY <3>1, <3>2
  <2>. QED  BY <1>0, <1>10, <2>2, MessagesAreOrigins DEF Decode
<1>11. CASE Cut
  BY <1>11, FirstBytes DEF Cut
<1>12. CASE UNCHANGED vars
  BY <1>12 DEF vars
<1>. QED
  BY <1>1, <1>2, <1>3, <1>4, <1>5, <1>6, <1>7, <1>8, <1>9, <1>10, <1>11, <1>12 DEF Next

-----------------------------------------------------------------------------
(* Where the frames lie in the bytes *)

Total(f) == HeaderSize + f.size

\* The bytes are those of the frames from the first-th on: the k-th begins after off[k] of
\* them, and all have their place. Where a part of the first has been read, off is negative;
\* and the last bytes may be missing.
Layout(bytes, full, off, first) ==
    /\ bytes \in Seq(Byte) /\ full \in Seq(Frames)
    /\ first \in 1 .. Len(full) + 1
    /\ off \in [1 .. Len(full) + 1 -> Int]
    /\ \A k \in first .. Len(full) : off[k + 1] = off[k] + Total(full[k])
    /\ \A k \in first .. Len(full) + 1 : off[k] <= off[Len(full) + 1]
    /\ \A k \in first .. Len(full) : \A p \in 1 .. Total(full[k]) :
          off[k] + p \in 1 .. Len(bytes) => bytes[off[k] + p] = [of |-> full[k], place |-> p]
    /\ Len(bytes) <= off[Len(full) + 1]

LEMMA Totals == \A f \in Frames : Total(f) \in Nat /\ f.size \in Nat /\ f.size <= Total(f)
  BY ForwardingAssumption DEF Total, Frames

\* Bytes lost at the end leave the others where they are.
LEMMA LayoutCut ==
    ASSUME NEW bytes, NEW full, NEW off, NEW first, Layout(bytes, full, off, first),
           NEW n \in 0 .. Len(bytes)
    PROVE  Layout(SubSeq(bytes, 1, n), full, off, first)
<1>. DEFINE b == SubSeq(bytes, 1, n)
<1>1. bytes \in Seq(Byte) /\ Len(bytes) \in Nat /\ full \in Seq(Frames) /\ Len(full) \in Nat
  BY LenProperties DEF Layout
<1>2. b \in Seq(Byte) /\ Len(b) = n /\ \A i \in 1 .. n : b[i] = bytes[i]
  BY <1>1, FirstBytes
<1>. HIDE DEF b
<1>3. Len(b) <= off[Len(full) + 1]
  <2>1. off[Len(full) + 1] \in Int /\ Len(bytes) <= off[Len(full) + 1]
    BY <1>1 DEF Layout
  <2>. QED  BY <1>1, <1>2, <2>1
<1>4. \A j \in 1 .. Len(b) : j \in 1 .. Len(bytes) /\ b[j] = bytes[j]
  BY <1>1, <1>2
<1>5. Layout(b, full, off, first)
  BY <1>1, <1>2, <1>3, <1>4 DEF Layout
<1>. QED  BY <1>5 DEF b

\* The bytes are those of the frame, the last ones maybe missing.
Begins(bytes, f) ==
    /\ bytes \in Seq(Byte) /\ Len(bytes) <= Total(f)
    /\ \A i \in 1 .. Len(bytes) : bytes[i] = [of |-> f, place |-> i]

\* A frame that is sent, or a part of it, follows the bytes when none of them is missing.
LEMMA LayoutGrows ==
    ASSUME NEW bytes, NEW full, NEW off, NEW first, Layout(bytes, full, off, first),
           NEW f \in Frames, NEW more, Begins(more, f),
           more = <<>> \/ Len(bytes) = off[Len(full) + 1]
    PROVE  \E off2 : /\ Layout(bytes \o more, Append(full, f), off2, first)
                     /\ off2[first] = off[first]
                     /\ off2[Len(full) + 2] = off[Len(full) + 1] + Total(f)
                     /\ Len(bytes \o more) = Len(bytes) + Len(more)
<1>. DEFINE N == Len(full)
            both == bytes \o more
            longer == Append(full, f)
            end == off[N + 1]
            off2 == [k \in 1 .. N + 2 |-> IF k <= N + 1 THEN off[k] ELSE end + Total(f)]
            B == Len(bytes)
            M == Len(more)
<1>0. more \in Seq(Byte) /\ Len(more) <= Total(f)
  BY DEF Begins
<1>1. bytes \in Seq(Byte) /\ B \in Nat /\ full \in Seq(Frames) /\ N \in Nat /\ M \in Nat
  BY <1>0, LenProperties DEF Layout
<1>2. both \in Seq(Byte) /\ Len(both) = B + M
  BY <1>0, <1>1, ConcatProperties
<1>3. \A i \in 1 .. B + M : both[i] = IF i <= B THEN bytes[i] ELSE more[i - B]
  BY <1>0, <1>1, ConcatProperties
<1>4. longer \in Seq(Frames) /\ Len(longer) = N + 1 /\ longer[N + 1] = f
  BY <1>1, AppendProperties
<1>5. \A k \in 1 .. N : longer[k] = full[k]
  BY <1>1, AppendProperties
<1>6. end \in Int /\ first \in 1 .. N + 1 /\ B <= end /\ Total(f) \in Nat /\ M <= Total(f)
      /\ \A k \in 1 .. N + 1 : off[k] \in Int
  <2>1. N + 1 \in 1 .. N + 1 /\ Total(f) \in Nat /\ Len(more) <= Total(f)
    BY <1>0, <1>1, Totals
  <2>2. /\ off \in [1 .. N + 1 -> Int] /\ first \in 1 .. N + 1 /\ B <= off[N + 1]
    BY DEF Layout
  <2>. QED  BY <2>1, <2>2
<1>7. (M = 0) \/ B = end
  OBVIOUS
<1>8. /\ \A k \in 1 .. N + 1 : off2[k] = off[k]
      /\ off2[N + 2] = end + Total(f)
      /\ off2 \in [1 .. N + 2 -> Int]
  <2>1. \A k \in 1 .. N + 2 : k <= N + 1 => k \in 1 .. N + 1
    BY <1>1
  <2>2. N + 2 \in 1 .. N + 2 /\ ~ (N + 2 <= N + 1) /\ end + Total(f) \in Int
        /\ \A k \in 1 .. N + 1 : k \in 1 .. N + 2 /\ k <= N + 1
    BY <1>1, <1>6
  <2>. HIDE DEF N, end
  <2>. QED  BY <1>6, <2>1, <2>2
<1>9. /\ \A k \in first .. N : off[k + 1] = off[k] + Total(full[k])
      /\ \A k \in first .. N + 1 : off[k] <= end
      /\ \A k \in first .. N : \A p \in 1 .. Total(full[k]) :
            off[k] + p \in 1 .. B => bytes[off[k] + p] = [of |-> full[k], place |-> p]
      /\ \A k \in first .. N : Total(full[k]) \in Nat
  <2>1. \A k \in first .. N : full[k] \in Frames
    <3>1. \A k \in first .. N : k \in 1 .. N
      BY <1>1, <1>6
    <3>. QED  BY <1>1, <3>1, ElementOfSeq
  <2>. QED  BY <2>1, Totals DEF Layout
<1>10. \A i \in 1 .. M : more[i] = [of |-> f, place |-> i]
  BY DEF Begins
<1>. HIDE DEF N, both, longer, end, off2, B, M
<1>11. \A k \in first .. N + 1 : off2[k + 1] = off2[k] + Total(longer[k])
  <2>. SUFFICES ASSUME NEW k \in first .. N + 1 PROVE off2[k + 1] = off2[k] + Total(longer[k])
    OBVIOUS
  <2>1. CASE k = N + 1
    <3>1. k + 1 = N + 2 /\ k \in 1 .. N + 1
      BY <1>1, <2>1
    <3>2. off2[k] = end
      BY <1>8, <2>1, <3>1 DEF end
    <3>. QED  BY <1>4, <1>8, <2>1, <3>1, <3>2
  <2>2. CASE k # N + 1
    <3>1. k \in first .. N /\ k \in 1 .. N /\ k + 1 \in 1 .. N + 1 /\ k \in 1 .. N + 1
      BY <1>1, <1>6, <2>2
    <3>. QED  BY <1>5, <1>8, <1>9, <3>1
  <2>. QED  BY <2>1, <2>2
<1>12. \A k \in first .. N + 2 : off2[k] <= off2[N + 2]
  <2>. SUFFICES ASSUME NEW k \in first .. N + 2 PROVE off2[k] <= off2[N + 2]
    OBVIOUS
  <2>1. CASE k = N + 2
    BY <1>6, <1>8, <2>1
  <2>2. CASE k # N + 2
    <3>1. k \in first .. N + 1 /\ k \in 1 .. N + 1
      BY <1>1, <1>6, <2>2
    <3>2. off2[k] = off[k] /\ off[k] <= end /\ off[k] \in Int
      BY <1>6, <1>8, <1>9, <3>1
    <3>. QED  BY <1>6, <1>8, <3>2
  <2>. QED  BY <2>1, <2>2
<1>13. ASSUME NEW k \in first .. N + 1, NEW p \in 1 .. Total(longer[k]),
              off2[k] + p \in 1 .. B + M
       PROVE  both[off2[k] + p] = [of |-> longer[k], place |-> p]
  <2>1. CASE k = N + 1
    <3>1. off2[k] = end /\ longer[k] = f
      <4>1. k \in 1 .. N + 1
        BY <1>1, <2>1
      <4>. QED  BY <1>4, <1>8, <2>1, <4>1 DEF end
    <3>2. p \in 1 .. Total(f) /\ end + p \in 1 .. B + M
      BY <1>13, <3>1
    <3>3. B = end /\ p \in 1 .. M
      BY <1>1, <1>6, <1>7, <3>2
    <3>4. ~ (end + p <= B) /\ end + p - B = p
      BY <1>1, <3>3
    <3>5. both[end + p] = more[p]
      <4>1. PICK j \in 1 .. B + M : j = end + p
        BY <3>2
      <4>2. both[j] = more[j - B]
        BY <1>3, <3>4, <4>1
      <4>3. j - B = p
        BY <1>6, <3>2, <3>3, <4>1
      <4>. QED  BY <4>1, <4>2, <4>3
    <3>. QED  BY <1>10, <3>1, <3>3, <3>5
  <2>2. CASE k # N + 1
    <3>1. k \in first .. N /\ k \in 1 .. N /\ k + 1 \in first .. N + 1 /\ k \in 1 .. N + 1
      BY <1>1, <1>6, <2>2
    <3>2. off2[k] = off[k] /\ longer[k] = full[k] /\ off[k] \in Int /\ Total(full[k]) \in Nat
      BY <1>5, <1>6, <1>8, <1>9, <3>1
    <3>3. p \in 1 .. Total(full[k]) /\ off[k] + p \in 1 .. B + M
      BY <1>13, <3>2
    <3>4. off[k] + Total(full[k]) <= end
      BY <1>9, <3>1
    <3>5. off[k] + p \in 1 .. B
      BY <1>1, <1>6, <1>7, <3>2, <3>3, <3>4
    <3>6. off[k] + p <= B
      BY <3>5
    <3>. QED  BY <1>3, <1>9, <3>1, <3>2, <3>3, <3>5, <3>6
  <2>. QED  BY <2>1, <2>2
<1>14. B + M <= off2[N + 2]
  BY <1>1, <1>6, <1>7, <1>8
<1>15. first \in 1 .. (N + 1) + 1 /\ (N + 1) + 1 = N + 2
  BY <1>1, <1>6
<1>16. Layout(both, longer, off2, first)
  BY <1>2, <1>4, <1>8, <1>11, <1>12, <1>13, <1>14, <1>15 DEF Layout
<1>17. off2[first] = off[first]
  BY <1>6, <1>8
<1>. QED  BY <1>2, <1>8, <1>16, <1>17 DEF N, both, longer, end, B, M

\* What is read is taken from the front.
LEMMA LayoutAdvances ==
    ASSUME NEW bytes, NEW full, NEW off, NEW first, Layout(bytes, full, off, first),
           NEW m \in 0 .. Len(bytes), NEW next \in first .. Len(full) + 1
    PROVE  \E off2 : /\ Layout(SubSeq(bytes, m + 1, Len(bytes)), full, off2, next)
                     /\ \A k \in 1 .. Len(full) + 1 : off2[k] = off[k] - m
<1>. DEFINE N == Len(full)
            B == Len(bytes)
            rest == SubSeq(bytes, m + 1, Len(bytes))
            off2 == [k \in 1 .. N + 1 |-> off[k] - m]
<1>1. bytes \in Seq(Byte) /\ B \in Nat /\ full \in Seq(Frames) /\ N \in Nat
  BY LenProperties DEF Layout
<1>2. rest \in Seq(Byte) /\ Len(rest) = B - m /\ \A i \in 1 .. B - m : rest[i] = bytes[m + i]
  BY <1>1, OtherBytes
<1>3. first \in 1 .. N + 1 /\ (\A k \in 1 .. N + 1 : off[k] \in Int) /\ B <= off[N + 1] /\ N + 1 \in 1 .. N + 1
  BY <1>1 DEF Layout
<1>4. m \in Nat /\ m <= B /\ next \in 1 .. N + 1 /\ (\A k \in next .. N + 1 : k \in 1 .. N + 1 /\ k \in first .. N + 1)
      /\ \A k \in next .. N : k \in first .. N /\ k + 1 \in 1 .. N + 1 /\ k \in 1 .. N + 1 /\ k \in 1 .. N
  BY <1>1, <1>3
<1>5. /\ \A k \in first .. N : off[k + 1] = off[k] + Total(full[k])
      /\ \A k \in first .. N + 1 : off[k] <= off[N + 1]
      /\ \A k \in first .. N : \A p \in 1 .. Total(full[k]) :
            off[k] + p \in 1 .. B => bytes[off[k] + p] = [of |-> full[k], place |-> p]
  BY DEF Layout
<1>6. \A k \in next .. N : Total(full[k]) \in Nat
  BY <1>1, <1>4, ElementOfSeq, Totals
<1>. HIDE DEF N, B, rest
<1>7. (\A k \in 1 .. N + 1 : off2[k] = off[k] - m) /\ off2 \in [1 .. N + 1 -> Int]
  BY <1>3, <1>4
<1>. HIDE DEF off2
<1>8. ASSUME NEW k \in next .. N PROVE off2[k + 1] = off2[k] + Total(full[k])
  <2>1. k \in first .. N /\ k + 1 \in 1 .. N + 1 /\ k \in 1 .. N + 1 /\ Total(full[k]) \in Nat
    BY <1>4, <1>6
  <2>2. off2[k + 1] = off[k + 1] - m /\ off2[k] = off[k] - m /\ off[k + 1] = off[k] + Total(full[k])
    BY <1>5, <1>7, <2>1
  <2>3. off[k] \in Int
    BY <1>3, <2>1
  <2>. QED  BY <1>4, <2>1, <2>2, <2>3
<1>9. \A k \in next .. N + 1 : off2[k] <= off2[N + 1]
  BY <1>3, <1>4, <1>5, <1>7
<1>10. ASSUME NEW k \in next .. N, NEW p \in 1 .. Total(full[k]), off2[k] + p \in 1 .. B - m
       PROVE  rest[off2[k] + p] = [of |-> full[k], place |-> p]
  <2>1. off2[k] = off[k] - m /\ off[k] \in Int /\ p \in Int
    BY <1>3, <1>4, <1>6, <1>7
  <2>2. m + (off2[k] + p) = off[k] + p /\ off[k] + p \in 1 .. B
    BY <1>1, <1>4, <1>10, <2>1
  <2>3. rest[off2[k] + p] = bytes[off[k] + p]
    BY <1>2, <1>10, <2>2
  <2>. QED  BY <1>4, <1>5, <2>2, <2>3
<1>11. B - m <= off2[N + 1]
  BY <1>1, <1>3, <1>4, <1>7
<1>12. Layout(rest, full, off2, next)
  BY <1>1, <1>2, <1>4, <1>7, <1>8, <1>9, <1>10, <1>11 DEF Layout, N
<1>. QED  BY <1>7, <1>12 DEF N, rest

LEMMA Taken ==
    ASSUME NEW c \in Seq(Byte), NEW t \in Seq(Byte)
    PROVE  /\ SubSeq(c \o t, Len(c) + 1, Len(c \o t)) = t
           /\ <<>> \o t = t /\ t \o <<>> = t
           /\ Len(c) \in 0 .. Len(c \o t)
           /\ \A i \in 1 .. Len(c) : i \in 1 .. Len(c \o t) /\ (c \o t)[i] = c[i]
<1>. DEFINE ct == c \o t
            rest == SubSeq(ct, Len(c) + 1, Len(ct))
<1>1. Len(c) \in Nat /\ Len(t) \in Nat
  BY LenProperties
<1>2. /\ ct \in Seq(Byte) /\ Len(ct) = Len(c) + Len(t)
      /\ \A i \in 1 .. Len(c) + Len(t) : ct[i] = IF i <= Len(c) THEN c[i] ELSE t[i - Len(c)]
  BY ConcatProperties
<1>. HIDE DEF ct
<1>3. Len(c) \in 0 .. Len(ct) /\ Len(ct) - Len(c) = Len(t)
  BY <1>1, <1>2
<1>4. /\ rest \in Seq(Byte) /\ Len(rest) = Len(t)
      /\ \A i \in 1 .. Len(t) : rest[i] = ct[Len(c) + i]
  BY <1>2, <1>3, OtherBytes
<1>5. ASSUME NEW i \in 1 .. Len(t) PROVE rest[i] = t[i]
  <2>1. PICK j \in 1 .. Len(c) + Len(t) : j = Len(c) + i
    BY <1>1
  <2>2. ~ (j <= Len(c)) /\ j - Len(c) = i
    BY <1>1, <2>1
  <2>3. ct[j] = t[j - Len(c)]
    BY <1>2, <2>2
  <2>4. rest[i] = ct[j]
    BY <1>4, <2>1
  <2>. QED  BY <2>2, <2>3, <2>4
<1>. HIDE DEF rest
<1>6. rest = t
  BY <1>4, <1>5, SeqEqual
<1>7. <<>> \o t = t /\ t \o <<>> = t
  BY ConcatEmptySeq
<1>8. \A i \in 1 .. Len(c) : i \in 1 .. Len(ct) /\ ct[i] = c[i]
  BY <1>1, <1>2
<1>. QED  BY <1>3, <1>6, <1>7, <1>8 DEF ct, rest

LEMMA LastBytesLost ==
    ASSUME NEW c \in Seq(Byte), NEW t \in Seq(Byte), NEW n \in 0 .. Len(t)
    PROVE  /\ c \o SubSeq(t, 1, n) = SubSeq(c \o t, 1, Len(c) + n)
           /\ Len(c) + n \in 0 .. Len(c \o t)
<1>. DEFINE ct == c \o t
            a == SubSeq(t, 1, n)
            left == c \o a
            right == SubSeq(ct, 1, Len(c) + n)
<1>1. Len(c) \in Nat /\ Len(t) \in Nat /\ n \in Nat /\ n <= Len(t)
  BY LenProperties
<1>2. /\ ct \in Seq(Byte) /\ Len(ct) = Len(c) + Len(t)
      /\ \A i \in 1 .. Len(c) + Len(t) : ct[i] = IF i <= Len(c) THEN c[i] ELSE t[i - Len(c)]
  BY ConcatProperties
<1>3. a \in Seq(Byte) /\ Len(a) = n /\ \A i \in 1 .. n : a[i] = t[i]
  BY FirstBytes
<1>. HIDE DEF ct, a
<1>4. /\ left \in Seq(Byte) /\ Len(left) = Len(c) + n
      /\ \A i \in 1 .. Len(c) + n : left[i] = IF i <= Len(c) THEN c[i] ELSE a[i - Len(c)]
  BY <1>3, ConcatProperties
<1>5. Len(c) + n \in 0 .. Len(ct)
  BY <1>1, <1>2
<1>6. right \in Seq(Byte) /\ Len(right) = Len(c) + n /\ \A i \in 1 .. Len(c) + n : right[i] = ct[i]
  BY <1>2, <1>5, FirstBytes
<1>. HIDE DEF left, right
<1>7. ASSUME NEW i \in 1 .. Len(c) + n PROVE left[i] = right[i]
  <2>1. i \in 1 .. Len(c) + Len(t) /\ i \in Int
    BY <1>1
  <2>2. CASE i <= Len(c)
    BY <1>2, <1>4, <1>6, <2>1, <2>2
  <2>3. CASE ~ (i <= Len(c))
    <3>1. i - Len(c) \in 1 .. n
      BY <1>1, <2>1, <2>3
    <3>. QED  BY <1>2, <1>3, <1>4, <1>6, <2>1, <2>3, <3>1
  <2>. QED  BY <2>2, <2>3
<1>8. left = right
  BY <1>4, <1>6, <1>7, SeqEqual
<1>. QED  BY <1>5, <1>8 DEF ct, a, left, right

-----------------------------------------------------------------------------
(* The handshake, and the stream after it *)

\* The bytes the listener has not used yet, and those the collector has not.
InFlight == chunks["listener"] \o toListener
Reply == chunks["sender"] \o toSender

Start == Len(delivered) + 1

\* Until it has the whole response the listener has seen nothing but a part of it, and then
\* the collector has not been answered; nothing is sent before the answer.
Handshake ==
    /\ listener = "response" =>
          /\ sent = <<>> /\ delivered = <<>> /\ sender # "forward"
          /\ Len(InFlight) <= AuthSize /\ \A i \in 1 .. Len(InFlight) : InFlight[i].of = Proof
          /\ sender = "answer" => Reply = <<>>
    /\ sender = "challenge" =>
          /\ listener \in {"response", "ended"} /\ sent = <<>>
          /\ Len(Reply) = AuthSize /\ InFlight = <<>>
    /\ sender = "answer" =>
          /\ sent = <<>>
          /\ Reply # <<>> => listener # "response"

\* The bytes on their way are those of the frames not yet decoded, to the end of the last one
\* or until the connection was cut; the collector may have ended in the middle of one more.
Laid(full, off) ==
    /\ Layout(InFlight, full, off, Start)
    /\ off[Start] = IF listener = "payload" THEN -HeaderSize ELSE 0
    /\ \/ full = sent
       \/ /\ sender = "ended" /\ Len(InFlight) < off[Len(full) + 1]
          /\ \E f \in Frames : full = Append(sent, f)
    /\ open /\ sender # "ended" => Len(InFlight) = off[Len(full) + 1]
    /\ listener = "payload" => Start <= Len(full) /\ header = full[Start]

Stream == listener \in {"header", "payload"} => \E full, off : Laid(full, off)

InOrder ==
    /\ Len(delivered) <= Len(sent)
    /\ \A i \in 1 .. Len(delivered) : delivered[i] = sent[i]

ForwardingInv == ForwardingTypeOK /\ Handshake /\ Stream /\ InOrder

LEMMA Flights ==
    ASSUME ForwardingTypeOK
    PROVE  /\ chunks["listener"] \in Seq(Byte) /\ chunks["sender"] \in Seq(Byte)
           /\ toListener \in Seq(Byte) /\ toSender \in Seq(Byte)
           /\ InFlight \in Seq(Byte) /\ Len(InFlight) = Len(chunks["listener"]) + Len(toListener)
           /\ Reply \in Seq(Byte) /\ Len(Reply) = Len(chunks["sender"]) + Len(toSender)
           /\ Len(chunks["listener"]) \in Nat /\ Len(chunks["sender"]) \in Nat
           /\ Len(toListener) \in Nat /\ Len(toSender) \in Nat
           /\ Len(sent) \in Nat /\ Len(delivered) \in Nat
<1>1. chunks["listener"] \in Seq(Byte) /\ chunks["sender"] \in Seq(Byte)
  BY DEF ForwardingTypeOK, Sides
<1>. QED  BY <1>1, ConcatProperties, LenProperties DEF ForwardingTypeOK, InFlight, Reply

\* What recv() takes from the wire is not used yet.
LEMMA ReceiveKeeps ==
    ASSUME ForwardingTypeOK, NEW side \in Sides, Receive(side)
    PROVE  /\ InFlight' = InFlight /\ Reply' = Reply
           /\ UNCHANGED <<open, sender, listener, header, sent, delivered>>
<1>1. CASE side = "listener"
  <2>1. PICK n \in 1 .. Len(toListener) :
           /\ chunks' = [chunks EXCEPT !["listener"] = @ \o SubSeq(toListener, 1, n)]
           /\ toListener' = SubSeq(toListener, n + 1, Len(toListener)) /\ toSender' = toSender
    BY <1>1 DEF Receive, Incoming
  <2>2. chunks'["listener"] = chunks["listener"] \o SubSeq(toListener, 1, n) /\ chunks'["sender"] = chunks["sender"]
    BY <2>1 DEF ForwardingTypeOK, Sides
  <2>3. (chunks["listener"] \o SubSeq(toListener, 1, n)) \o SubSeq(toListener, n + 1, Len(toListener)) = InFlight
    BY Flights, Received DEF InFlight
  <2>. QED  BY <2>1, <2>2, <2>3 DEF InFlight, Reply, Receive
<1>2. CASE side = "sender"
  <2>1. PICK n \in 1 .. Len(toSender) :
           /\ chunks' = [chunks EXCEPT !["sender"] = @ \o SubSeq(toSender, 1, n)]
           /\ toSender' = SubSeq(toSender, n + 1, Len(toSender)) /\ toListener' = toListener
    BY <1>2 DEF Receive, Incoming
  <2>2. chunks'["sender"] = chunks["sender"] \o SubSeq(toSender, 1, n) /\ chunks'["listener"] = chunks["listener"]
    BY <2>1 DEF ForwardingTypeOK, Sides
  <2>3. (chunks["sender"] \o SubSeq(toSender, 1, n)) \o SubSeq(toSender, n + 1, Len(toSender)) = Reply
    BY Flights, Received DEF Reply
  <2>. QED  BY <2>1, <2>2, <2>3 DEF InFlight, Reply, Receive
<1>. QED  BY <1>1, <1>2 DEF Sides

LEMMA CutKeeps ==
    ASSUME ForwardingTypeOK, Cut
    PROVE  /\ \E k \in 0 .. Len(InFlight) : InFlight' = SubSeq(InFlight, 1, k)
           /\ Reply' = Reply
<1>1. PICK n \in 0 .. Len(toListener) : toListener' = SubSeq(toListener, 1, n)
  BY DEF Cut
<1>2. chunks' = chunks /\ toSender' = toSender
  BY DEF Cut
<1>3. InFlight' = chunks["listener"] \o SubSeq(toListener, 1, n)
  BY <1>1, <1>2 DEF InFlight
<1>4. /\ chunks["listener"] \o SubSeq(toListener, 1, n) = SubSeq(InFlight, 1, Len(chunks["listener"]) + n)
      /\ Len(chunks["listener"]) + n \in 0 .. Len(InFlight)
  BY Flights, LastBytesLost DEF InFlight
<1>. QED  BY <1>2, <1>3, <1>4 DEF Reply

\* What a side uses are the first bytes of those it has not used.
LEMMA FirstInFlight ==
    ASSUME ForwardingTypeOK
    PROVE  /\ \A i \in 1 .. Len(chunks["listener"]) :
                 i \in 1 .. Len(InFlight) /\ InFlight[i] = chunks["listener"][i]
           /\ \A i \in 1 .. Len(chunks["sender"]) :
                 i \in 1 .. Len(Reply) /\ Reply[i] = chunks["sender"][i]
  BY Flights, Taken DEF InFlight, Reply

\* Once the listener has used its chunks, what is left is what was on its way.
LEMMA ListenerUses ==
    ASSUME ForwardingTypeOK, Used("listener"), toListener' = toListener
    PROVE  /\ InFlight' = SubSeq(InFlight, Len(chunks["listener"]) + 1, Len(InFlight))
           /\ InFlight' = toListener
           /\ Len(chunks["listener"]) \in 0 .. Len(InFlight)
           /\ chunks'["sender"] = chunks["sender"]
<1>1. chunks'["listener"] = <<>> /\ chunks'["sender"] = chunks["sender"]
  BY DEF Used, ForwardingTypeOK, Sides
<1>2. InFlight' = <<>> \o toListener
  BY <1>1 DEF InFlight
<1>. QED  BY <1>1, <1>2, Flights, Taken DEF InFlight

LEMMA HandshakeStep == ForwardingTypeOK /\ Handshake /\ [Next]_vars => Handshake'
<1>. SUFFICES ASSUME ForwardingTypeOK, Handshake, [Next]_vars PROVE Handshake'
  OBVIOUS
<1>0. AuthSize >= 1 /\ AuthSize \in Nat
  BY ForwardingAssumption
<1>1. ASSUME NEW side \in Sides, Receive(side) PROVE Handshake'
  <2>1. /\ InFlight' = InFlight /\ Reply' = Reply
        /\ UNCHANGED <<sender, listener, sent, delivered>>
    BY <1>1, ReceiveKeeps
  <2>2. Proof' = Proof
    BY <2>1 DEF Proof
  <2>. QED  BY <2>1, <2>2 DEF Handshake
<1>2. ASSUME NEW side \in Sides, EndOfStream(side) PROVE Handshake'
  <2>1. InFlight' = InFlight /\ Reply' = Reply
    BY <1>2 DEF EndOfStream, wire, InFlight, Reply
  <2>2. /\ UNCHANGED <<sent, delivered>>
        /\ sender' \in {sender, "ended"} /\ listener' \in {listener, "ended"}
    BY <1>2 DEF EndOfStream
  <2>. QED  BY <2>1, <2>2 DEF Handshake, Proof
<1>3. CASE Respond
  <2>1. /\ sender = "challenge" /\ Len(chunks["sender"]) = AuthSize /\ Len(Reply) = AuthSize
        /\ InFlight = <<>> /\ sent = <<>> /\ listener \in {"response", "ended"}
    BY <1>3 DEF Respond, Complete, Want, Handshake
  <2>2. toSender = <<>> /\ chunks["listener"] = <<>> /\ toListener = <<>>
    <3>1. Len(toSender) = 0 /\ Len(chunks["listener"]) = 0 /\ Len(toListener) = 0
      BY <1>0, <2>1, Flights
    <3>. QED  BY <3>1, Flights, EmptySeq
  <2>3. /\ chunks'["sender"] = <<>> /\ chunks'["listener"] = <<>> /\ toSender' = <<>>
        /\ sender' = "answer" /\ UNCHANGED <<listener, sent, delivered>>
        /\ toListener' \in {<<>>, <<>> \o Bytes(Proof, AuthSize)}
    BY <1>3, <2>2 DEF Respond, Used, ForwardingTypeOK, Sides
  <2>4. Proof \in Origins /\ Bytes(Proof, AuthSize) \in Seq(Byte)
        /\ Len(Bytes(Proof, AuthSize)) = AuthSize
        /\ \A i \in 1 .. AuthSize : Bytes(Proof, AuthSize)[i] = [of |-> Proof, place |-> i]
    BY <1>0, MessagesAreOrigins, BytesAreBytes
  <2>5. Reply' = <<>>
    BY <2>3 DEF Reply
  <2>6. InFlight' \in {<<>>, Bytes(Proof, AuthSize)}
    <3>1. <<>> \o <<>> = <<>> /\ <<>> \o Bytes(Proof, AuthSize) = Bytes(Proof, AuthSize)
      BY <2>4, ConcatEmptySeq
    <3>. QED  BY <2>3, <3>1 DEF InFlight
  <2>7. Proof' = Proof
    BY <2>3 DEF Proof
  <2>8. Len(InFlight') <= AuthSize /\ \A i \in 1 .. Len(InFlight') : InFlight'[i].of = Proof
    BY <1>0, <2>4, <2>6
  <2>9. delivered = <<>> \/ listener # "response"
    BY DEF Handshake
  <2>. QED  BY <2>1, <2>3, <2>5, <2>7, <2>8, <2>9 DEF Handshake
<1>4. CASE ReadAnswer
  <2>1. sender = "answer" /\ Len(chunks["sender"]) = 1
    BY <1>4 DEF ReadAnswer, Complete, Want
  <2>2. 1 \in 1 .. Len(Reply) /\ Reply[1] = chunks["sender"][1] /\ Reply # <<>>
    BY <2>1, FirstInFlight
  <2>3. sender' \in {"forward", "ended"} /\ UNCHANGED <<listener, sent, delivered>>
    BY <1>4 DEF ReadAnswer
  <2>4. listener # "response" /\ sent = <<>>
    BY <2>1, <2>2 DEF Handshake
  <2>. QED  BY <2>3, <2>4 DEF Handshake
<1>5. CASE SenderEnds
  <2>1. InFlight' = InFlight /\ Reply' = Reply
    BY <1>5 DEF SenderEnds, InFlight, Reply
  <2>. QED  BY <1>5, <2>1 DEF SenderEnds, Handshake, Proof
<1>6. ASSUME NEW p \in Packets, Forward(p) \/ ForwardFails(p) PROVE Handshake'
  <2>1. /\ sender = "forward" /\ sender' \in {"forward", "ended"}
        /\ UNCHANGED <<listener>>
    BY <1>6 DEF Forward, ForwardFails
  <2>2. listener # "response"
    BY <2>1 DEF Handshake
  <2>. QED  BY <2>1, <2>2 DEF Handshake
<1>7. CASE CheckResponse
  <2>1. listener = "response" /\ Len(chunks["listener"]) = AuthSize
    BY <1>7 DEF CheckResponse, Complete, Want
  <2>2. 1 \in 1 .. Len(InFlight) /\ InFlight[1] = chunks["listener"][1] /\ InFlight # <<>>
    <3>1. 1 \in 1 .. Len(chunks["listener"])
      BY <1>0, <2>1
    <3>. QED  BY <3>1, FirstInFlight
  <2>3. sent = <<>> /\ sender \notin {"forward", "challenge"} /\ chunks["listener"][1].of = Proof
    BY <2>1, <2>2 DEF Handshake
  <2>4. listener' \in {"header", "ended"} /\ UNCHANGED <<sender, sent>>
    BY <1>7 DEF CheckResponse
  <2>. QED  BY <2>3, <2>4 DEF Handshake
<1>8. CASE ReadHeader \/ Decode
  <2>1. /\ listener \in {"header", "payload"} /\ listener' # "response"
        /\ Used("listener") /\ UNCHANGED <<toSender, sender, sent>>
    BY <1>8 DEF ReadHeader, Decode, wire
  <2>2. Reply' = Reply
    <3>1. chunks'["sender"] = chunks["sender"]
      BY <2>1 DEF Used, ForwardingTypeOK, Sides
    <3>. QED  BY <2>1, <3>1 DEF Reply
  <2>. QED  BY <2>1, <2>2 DEF Handshake
<1>9. CASE Cut
  <2>1. PICK k \in 0 .. Len(InFlight) : InFlight' = SubSeq(InFlight, 1, k)
    BY <1>9, CutKeeps
  <2>2. Reply' = Reply /\ UNCHANGED <<sender, listener, sent, delivered>>
    BY <1>9, CutKeeps DEF Cut
  <2>3. InFlight' \in Seq(Byte) /\ Len(InFlight') = k /\ \A i \in 1 .. k : InFlight'[i] = InFlight[i]
    BY <2>1, Flights, FirstBytes
  <2>4. Len(InFlight) \in Nat
    BY Flights, LenProperties
  <2>5. InFlight = <<>> => InFlight' = <<>>
    <3>1. InFlight = <<>> => Len(InFlight') = 0
      BY <2>3, <2>4
    <3>. QED  BY <2>3, <3>1, EmptySeq
  <2>6. Len(InFlight) <= AuthSize => Len(InFlight') <= AuthSize
    BY <1>0, <2>3, <2>4
  <2>7. \A i \in 1 .. Len(InFlight') : i \in 1 .. Len(InFlight) /\ InFlight'[i] = InFlight[i]
    BY <2>3, <2>4
  <2>. QED  BY <2>2, <2>5, <2>6, <2>7 DEF Handshake, Proof
<1>10. CASE UNCHANGED vars
  BY <1>10 DEF vars, wire, Handshake, Proof, InFlight, Reply
<1>. QED
  BY <1>1, <1>2, <1>3, <1>4, <1>5, <1>6, <1>7, <1>8, <1>9, <1>10 DEF Next

LEMMA LaidTypes ==
    ASSUME ForwardingTypeOK, NEW full, NEW off, Laid(full, off)
    PROVE  /\ full \in Seq(Frames) /\ Len(full) \in Nat
           /\ Start \in 1 .. Len(full) + 1
           /\ \A k \in 1 .. Len(full) + 1 : off[k] \in Int
           /\ \A k \in 1 .. Len(full) : full[k] \in Frames
           /\ Len(InFlight) <= off[Len(full) + 1] /\ Len(InFlight) \in Nat
<1>1. /\ full \in Seq(Frames) /\ Start \in 1 .. Len(full) + 1
      /\ off \in [1 .. Len(full) + 1 -> Int] /\ Len(InFlight) <= off[Len(full) + 1]
  BY DEF Laid, Layout
<1>2. Len(full) \in Nat /\ Len(InFlight) \in Nat /\ \A k \in 1 .. Len(full) : full[k] \in Frames
  BY <1>1, Flights, LenProperties, ElementOfSeq
<1>. QED  BY <1>1, <1>2

\* A step that neither sends nor uses bytes.
LEMMA QuietKeeps ==
    ASSUME NEW full, NEW off, Laid(full, off), InFlight' = InFlight,
           UNCHANGED <<listener, header, sent, delivered>>,
           open' => open, sender = "ended" => sender' = "ended"
    PROVE  Laid(full, off)'
<1>1. Start' = Start
  BY DEF Start
<1>. QED  BY <1>1 DEF Laid

\* What is sent follows what is on its way.
LEMMA SentMore ==
    ASSUME ForwardingTypeOK, NEW full, NEW off, Laid(full, off), full = sent,
           NEW f \in Frames, NEW n \in 0 .. Total(f),
           n = 0 \/ Len(InFlight) = off[Len(full) + 1],
           InFlight' = InFlight \o SubSeq(FrameBytes(f), 1, n),
           UNCHANGED <<listener, header, delivered>>
    PROVE  \E off2 : /\ Layout(InFlight', Append(sent, f), off2, Start')
                     /\ off2[Start'] = IF listener' = "payload" THEN -HeaderSize ELSE 0
                     /\ off2[Len(Append(sent, f)) + 1] = off[Len(full) + 1] + Total(f)
                     /\ Len(InFlight') = Len(InFlight) + n
                     /\ listener' = "payload" => Start' <= Len(Append(sent, f))
                                                  /\ header' = Append(sent, f)[Start']
<1>. DEFINE more == SubSeq(FrameBytes(f), 1, n)
<1>1. Start' = Start /\ Total(f) \in Nat /\ n \in Nat
  BY Totals DEF Start
<1>2. /\ FrameBytes(f) \in Seq(Byte) /\ Len(FrameBytes(f)) = Total(f)
      /\ \A i \in 1 .. Total(f) : FrameBytes(f)[i] = [of |-> f, place |-> i]
  BY <1>1, MessagesAreOrigins, BytesAreBytes DEF FrameBytes, Total
<1>3. more \in Seq(Byte) /\ Len(more) = n /\ \A i \in 1 .. n : more[i] = [of |-> f, place |-> i]
  <2>1. more \in Seq(Byte) /\ Len(more) = n /\ \A i \in 1 .. n : more[i] = FrameBytes(f)[i]
    BY <1>2, FirstBytes
  <2>2. \A i \in 1 .. n : i \in 1 .. Total(f)
    BY <1>1
  <2>. QED  BY <1>2, <2>1, <2>2
<1>. HIDE DEF more
<1>4. more = <<>> \/ Len(InFlight) = off[Len(full) + 1]
  BY <1>3, EmptySeq
<1>5. Layout(InFlight, full, off, Start) /\ off[Start] = IF listener = "payload" THEN -HeaderSize ELSE 0
  BY DEF Laid
<1>6. Begins(more, f)
  BY <1>1, <1>3 DEF Begins
<1>7. PICK off2 : /\ Layout(InFlight \o more, Append(full, f), off2, Start)
                  /\ off2[Start] = off[Start]
                  /\ off2[Len(full) + 2] = off[Len(full) + 1] + Total(f)
                  /\ Len(InFlight \o more) = Len(InFlight) + Len(more)
  BY <1>4, <1>5, <1>6, LayoutGrows
<1>8. Len(full) \in Nat /\ full \in Seq(Frames) /\ Start \in 1 .. Len(full) + 1
  BY LaidTypes
<1>9. /\ Len(Append(full, f)) = Len(full) + 1
      /\ \A i \in 1 .. Len(full) : Append(full, f)[i] = full[i]
  BY <1>8, AppendProperties
<1>10. Len(Append(full, f)) + 1 = Len(full) + 2
  BY <1>8, <1>9
<1>11. listener = "payload" => Start <= Len(Append(full, f)) /\ header = Append(full, f)[Start]
  <2>. SUFFICES ASSUME listener = "payload"
                PROVE  Start <= Len(Append(full, f)) /\ header = Append(full, f)[Start]
    OBVIOUS
  <2>1. Start <= Len(full) /\ header = full[Start]
    BY DEF Laid
  <2>2. Start \in 1 .. Len(full) /\ Start <= Len(full) + 1
    BY <1>8, <2>1
  <2>. QED  BY <1>9, <2>1, <2>2
<1>12. InFlight' = InFlight \o more
  BY DEF more
<1>. QED  BY <1>1, <1>3, <1>5, <1>7, <1>10, <1>11, <1>12

LEMMA WireGrows ==
    ASSUME ForwardingTypeOK, NEW more \in Seq(Byte), chunks' = chunks, toListener' = toListener \o more
    PROVE  InFlight' = InFlight \o more
<1>1. InFlight' = chunks["listener"] \o (toListener \o more)
  BY DEF InFlight
<1>2. PICK c \in Seq(Byte), t \in Seq(Byte) : c = chunks["listener"] /\ t = toListener
  BY Flights
<1>3. c \o (t \o more) = (c \o t) \o more
  BY Associative
<1>. QED  BY <1>1, <1>2, <1>3 DEF InFlight

\* The listener uses what it has read.
LEMMA ListenerAdvances ==
    ASSUME ForwardingTypeOK, NEW full, NEW off, Laid(full, off),
           Used("listener"), UNCHANGED <<toListener, sender, open, sent>>,
           NEW next \in Start .. Len(full) + 1, Start' = next,
           off[next] - Len(chunks["listener"]) = IF listener' = "payload" THEN -HeaderSize ELSE 0,
           listener' = "payload" => next <= Len(full) /\ header' = full[next]
    PROVE  \E off2 : Laid(full, off2)'
<1>. DEFINE m == Len(chunks["listener"])
<1>1. /\ InFlight' = SubSeq(InFlight, m + 1, Len(InFlight)) /\ m \in 0 .. Len(InFlight)
  BY ListenerUses
<1>2. InFlight \in Seq(Byte) /\ Len(InFlight) \in Nat
  BY Flights, LenProperties
<1>3. Len(InFlight') = Len(InFlight) - m
  BY <1>1, <1>2, OtherBytes
<1>4. Layout(InFlight, full, off, Start)
  BY DEF Laid
<1>5. PICK off2 : /\ Layout(InFlight', full, off2, next)
                  /\ \A k \in 1 .. Len(full) + 1 : off2[k] = off[k] - m
  BY <1>1, <1>4, LayoutAdvances
<1>6. /\ Len(full) \in Nat /\ Start \in 1 .. Len(full) + 1
      /\ \A k \in 1 .. Len(full) + 1 : off[k] \in Int
  BY LaidTypes
<1>7. next \in 1 .. Len(full) + 1 /\ Len(full) + 1 \in 1 .. Len(full) + 1
  BY <1>6
<1>8. off2[next] = off[next] - m /\ off2[Len(full) + 1] = off[Len(full) + 1] - m
      /\ off[Len(full) + 1] \in Int /\ m \in Nat
  BY <1>1, <1>2, <1>5, <1>6, <1>7
<1>. HIDE DEF m
<1>9. /\ Len(InFlight) = off[Len(full) + 1] => Len(InFlight') = off2[Len(full) + 1]
      /\ Len(InFlight) < off[Len(full) + 1] => Len(InFlight') < off2[Len(full) + 1]
  BY <1>2, <1>3, <1>8
<1>10. off2[next] = IF listener' = "payload" THEN -HeaderSize ELSE 0
  BY <1>8 DEF m
<1>11. Laid(full, off2)'
  BY <1>5, <1>9, <1>10 DEF Laid
<1>. QED  BY <1>11

LEMMA StreamStep == ForwardingTypeOK /\ Handshake /\ Stream /\ [Next]_vars => Stream'
<1>. SUFFICES ASSUME ForwardingTypeOK, Handshake, Stream, [Next]_vars,
                     listener' \in {"header", "payload"}
              PROVE  \E full, off : Laid(full, off)'
  BY DEF Stream
<1>0. HeaderSize \in Nat /\ HeaderSize >= 1
  BY ForwardingAssumption
<1>1. CASE CheckResponse
  <2>1. /\ listener = "response" /\ listener' = "header" /\ Len(chunks["listener"]) = AuthSize
        /\ Used("listener") /\ UNCHANGED <<toListener, sender, sent, delivered>>
    BY <1>1 DEF CheckResponse, Complete, Want
  <2>2. sent = <<>> /\ delivered = <<>> /\ Len(InFlight) <= AuthSize
    BY <2>1 DEF Handshake
  <2>3. InFlight' = <<>>
    <3>1. InFlight' = toListener
      BY <2>1, ListenerUses
    <3>2. Len(toListener) = 0
      BY <2>1, <2>2, Flights, ForwardingAssumption
    <3>. QED  BY <3>1, <3>2, Flights, EmptySeq
  <2>. DEFINE off == [k \in 1 .. 1 |-> 0]
  <2>4. Start' = 1 /\ <<>> \in Seq(Byte) /\ <<>> \in Seq(Frames) /\ Len(<<>>) = 0
    BY <2>1, <2>2 DEF Start
  <2>5. off \in [1 .. 1 -> Int] /\ off[1] = 0 /\ \A k \in 1 .. 1 : k = 1
    OBVIOUS
  <2>. HIDE DEF off
  <2>6. Layout(<<>>, <<>>, off, 1)
    BY <2>4, <2>5 DEF Layout
  <2>7. Laid(<<>>, off)'
    BY <2>1, <2>2, <2>3, <2>4, <2>5, <2>6 DEF Laid
  <2>. QED  BY <2>7
<1>2. CASE ~ CheckResponse
  <2>1. listener \in {"header", "payload"}
    BY <1>2 DEF Next, Receive, EndOfStream, Respond, ReadAnswer, SenderEnds, Forward, ForwardFails,
                ReadHeader, Decode, Cut, vars
  <2>2. PICK full, off : Laid(full, off)
    BY <2>1 DEF Stream
  <2>3. /\ full \in Seq(Frames) /\ Len(full) \in Nat
        /\ Start \in 1 .. Len(full) + 1
        /\ \A k \in 1 .. Len(full) + 1 : off[k] \in Int
        /\ \A k \in 1 .. Len(full) : full[k] \in Frames
        /\ Len(InFlight) <= off[Len(full) + 1] /\ Len(InFlight) \in Nat
    BY <2>2, LaidTypes
  <2>4. ASSUME NEW side \in Sides, Receive(side) PROVE Laid(full, off)'
    BY <2>2, <2>4, ReceiveKeeps, QuietKeeps
  <2>5. ASSUME NEW side \in Sides, EndOfStream(side) PROVE Laid(full, off)'
    <3>1. InFlight' = InFlight
      BY <2>5 DEF EndOfStream, wire, InFlight
    <3>2. /\ listener' = listener /\ UNCHANGED <<header, sent, delivered, open>>
          /\ sender' \in {sender, "ended"}
      BY <2>5 DEF EndOfStream, wire
    <3>. QED  BY <2>2, <3>1, <3>2, QuietKeeps
  <2>6. CASE Respond
    BY <2>1, <2>6 DEF Respond, Handshake
  <2>7. CASE ReadAnswer \/ SenderEnds
    <3>1. /\ InFlight' = InFlight /\ UNCHANGED <<listener, header, sent, delivered>>
          /\ sender = "ended" => sender' = "ended"
          /\ open' => open
      <4>1. CASE ReadAnswer
        BY <4>1 DEF ReadAnswer, Used, InFlight, ForwardingTypeOK, Sides
      <4>2. CASE SenderEnds
        BY <4>2 DEF SenderEnds, InFlight
      <4>. QED  BY <2>7, <4>1, <4>2
    <3>2. Laid(full, off)'
      BY <2>2, <3>1, QuietKeeps
    <3>. QED  BY <3>2
  <2>8. ASSUME NEW p \in Packets, Forward(p) \/ ForwardFails(p)
        PROVE  \E full2, off2 : Laid(full2, off2)'
    <3>. DEFINE f == Frame(p)
                all == FrameBytes(f)
    <3>1. /\ sender = "forward" /\ Encodable(p)
          /\ UNCHANGED <<listener, chunks, header, delivered>>
      BY <2>8 DEF Forward, ForwardFails
    <3>2. f \in Frames /\ Total(f) \in Nat
      BY <3>1, MessagesAreOrigins, Totals
    <3>3. all \in Seq(Byte) /\ Len(all) = Total(f)
      BY <3>2, MessagesAreOrigins, BytesAreBytes DEF FrameBytes, Total
    <3>. HIDE DEF f, all
    <3>4. full = sent /\ (open => Len(InFlight) = off[Len(full) + 1])
      BY <2>2, <3>1 DEF Laid
    <3>5. SubSeq(all, 1, Total(f)) = all
      BY <3>3, SubSeqFull
    <3>6. PICK long \in Seq(Frames) : long = Append(sent, f)
      BY <3>2, AppendProperties DEF ForwardingTypeOK
    <3>7. CASE Forward(p) /\ open
      <4>1. /\ InFlight' = InFlight \o SubSeq(all, 1, Total(f)) /\ sent' = long
            /\ open' = open /\ sender' = sender
        <5>1. toListener' = toListener \o all
          BY <3>7 DEF Forward, all, f
        <5>. QED  BY <3>1, <3>3, <3>5, <3>6, <3>7, <5>1, WireGrows DEF Forward, f
      <4>2. PICK off2 : /\ Layout(InFlight', long, off2, Start')
                        /\ off2[Start'] = IF listener' = "payload" THEN -HeaderSize ELSE 0
                        /\ off2[Len(long) + 1] = off[Len(full) + 1] + Total(f)
                        /\ Len(InFlight') = Len(InFlight) + Total(f)
                        /\ listener' = "payload" => Start' <= Len(long)
                                                    /\ header' = long[Start']
        <5>1. Total(f) \in 0 .. Total(f) /\ Len(InFlight) = off[Len(full) + 1]
          BY <3>2, <3>4, <3>7
        <5>2. InFlight' = InFlight \o SubSeq(FrameBytes(f), 1, Total(f))
          BY <4>1 DEF all
        <5>. QED  BY <2>2, <3>1, <3>2, <3>4, <5>1, <5>2, <3>6, SentMore
      <4>3. Len(InFlight') = off2[Len(long) + 1]
        BY <3>4, <3>7, <4>2
      <4>4. Laid(long, off2)'
        BY <3>4, <3>7, <4>1, <4>2, <4>3 DEF Laid
      <4>. QED  BY <4>4
    <3>8. CASE Forward(p) /\ ~ open
      <4>1. /\ InFlight' = InFlight /\ sent' = long
            /\ open' = open /\ sender' = sender
        BY <3>6, <3>8 DEF Forward, InFlight, f
      <4>2. InFlight \o SubSeq(FrameBytes(f), 1, 0) = InFlight
        <5>1. SubSeq(FrameBytes(f), 1, 0) = <<>>
          BY SubSeqEmpty
        <5>. QED  BY <5>1, Flights, ConcatEmptySeq
      <4>3. PICK off2 : /\ Layout(InFlight', long, off2, Start')
                        /\ off2[Start'] = IF listener' = "payload" THEN -HeaderSize ELSE 0
                        /\ listener' = "payload" => Start' <= Len(long)
                                                    /\ header' = long[Start']
        <5>1. 0 \in 0 .. Total(f)
          BY <3>2
        <5>. QED  BY <2>2, <3>1, <3>2, <3>4, <4>1, <4>2, <5>1, <3>6, SentMore
      <4>4. Laid(long, off2)'
        BY <3>8, <4>1, <4>3 DEF Laid
      <4>. QED  BY <4>4
    <3>9. CASE ForwardFails(p) /\ open
      <4>1. PICK n \in 0 .. Len(all) - 1 : toListener' = toListener \o SubSeq(all, 1, n)
        BY <3>9 DEF ForwardFails, all, f
      <4>2. n \in 0 .. Total(f) /\ n < Total(f)
        BY <3>2, <3>3, <4>1
      <4>3. SubSeq(all, 1, n) \in Seq(Byte)
        BY <3>3, <4>2, FirstBytes
      <4>4. InFlight' = InFlight \o SubSeq(FrameBytes(f), 1, n)
        BY <3>1, <4>1, <4>3, WireGrows DEF all
      <4>5. sender' = "ended" /\ open' = FALSE /\ sent' = sent
        BY <3>9 DEF ForwardFails
      <4>6. Len(InFlight) = off[Len(full) + 1]
        BY <3>4, <3>9
      <4>7. PICK off2 : /\ Layout(InFlight', long, off2, Start')
                        /\ off2[Start'] = IF listener' = "payload" THEN -HeaderSize ELSE 0
                        /\ off2[Len(long) + 1] = off[Len(full) + 1] + Total(f)
                        /\ Len(InFlight') = Len(InFlight) + n
                        /\ listener' = "payload" => Start' <= Len(long)
                                                    /\ header' = long[Start']
        BY <2>2, <3>1, <3>2, <3>4, <4>2, <4>4, <4>6, <3>6, SentMore
      <4>8. Len(InFlight') < off2[Len(long) + 1]
        BY <2>3, <3>2, <4>2, <4>6, <4>7
      <4>9. Laid(long, off2)'
        BY <3>2, <3>6, <4>5, <4>7, <4>8 DEF Laid
      <4>. QED  BY <4>9
    <3>10. CASE ForwardFails(p) /\ ~ open
      <4>1. InFlight' = InFlight /\ sent' = sent /\ open' = FALSE
        BY <3>10 DEF ForwardFails, InFlight
      <4>2. Laid(full, off)'
        BY <2>2, <3>1, <4>1, QuietKeeps
      <4>. QED  BY <4>2
    <3>. QED  BY <2>8, <3>7, <3>8, <3>9, <3>10
  <2>9. CASE ReadHeader
    <3>1. /\ listener = "header" /\ listener' = "payload" /\ Len(chunks["listener"]) = HeaderSize
          /\ Used("listener") /\ header' = chunks["listener"][1].of
          /\ UNCHANGED <<toListener, sender, open, sent, delivered>>
      BY <2>1, <2>9 DEF ReadHeader, Complete, Want, wire
    <3>2. /\ 1 \in 1 .. Len(InFlight) /\ InFlight[1] = chunks["listener"][1]
      <4>1. 1 \in 1 .. Len(chunks["listener"])
        BY <1>0, <3>1
      <4>. QED  BY <4>1, FirstInFlight
    <3>3. off[Start] = 0
      BY <2>2, <3>1 DEF Laid
    <3>4. Start \in 1 .. Len(full)
      <4>1. Start # Len(full) + 1
        BY <2>3, <3>2, <3>3
      <4>. QED  BY <2>3, <4>1
    <3>5. header' = full[Start]
      <4>1. Total(full[Start]) \in Nat /\ HeaderSize <= Total(full[Start])
        BY <1>0, <2>3, <3>4, Totals DEF Total
      <4>2. 1 \in 1 .. Total(full[Start]) /\ off[Start] + 1 = 1 /\ Start \in Start .. Len(full)
        BY <1>0, <3>3, <3>4, <4>1
      <4>3. InFlight[off[Start] + 1] = [of |-> full[Start], place |-> 1]
        BY <2>2, <3>2, <4>2 DEF Laid, Layout
      <4>. QED  BY <3>1, <3>2, <4>2, <4>3
    <3>6. Start \in Start .. Len(full) + 1 /\ Start' = Start /\ Start <= Len(full)
      BY <2>3, <3>1, <3>4 DEF Start
    <3>7. off[Start] - Len(chunks["listener"]) = -HeaderSize
      BY <1>0, <3>1, <3>3
    <3>. QED  BY <2>2, <3>1, <3>5, <3>6, <3>7, ListenerAdvances
  <2>10. CASE Decode
    <3>1. /\ listener = "payload" /\ Len(chunks["listener"]) = header.size /\ listener' = "header"
          /\ Used("listener") /\ UNCHANGED <<toListener, sender, open, sent>>
          /\ \E g : delivered' = Append(delivered, g)
      BY <2>1, <2>10 DEF Decode, Complete, Want, wire
    <3>2. Start <= Len(full) /\ header = full[Start] /\ off[Start] = -HeaderSize
      BY <2>2, <3>1 DEF Laid
    <3>3. Start \in 1 .. Len(full) /\ Start \in Start .. Len(full)
      BY <2>3, <3>2
    <3>4. header.size \in Nat /\ Total(header) = HeaderSize + header.size
      BY <2>3, <3>2, <3>3, Totals DEF Total
    <3>5. off[Start + 1] = header.size
      <4>1. off[Start + 1] = off[Start] + Total(full[Start])
        BY <2>2, <3>3 DEF Laid, Layout
      <4>. QED  BY <1>0, <3>2, <3>4, <4>1
    <3>6. off[Start + 1] - Len(chunks["listener"]) = 0
      BY <3>1, <3>4, <3>5
    <3>7. Start' = Start + 1
      <4>1. Len(delivered') = Len(delivered) + 1
        BY <3>1 DEF ForwardingTypeOK
      <4>. QED  BY <4>1, Flights DEF Start
    <3>8. Start + 1 \in Start .. Len(full) + 1
      BY <2>3, <3>3
    <3>. QED  BY <2>2, <3>1, <3>6, <3>7, <3>8, ListenerAdvances
  <2>11. CASE Cut
    <3>1. PICK k \in 0 .. Len(InFlight) : InFlight' = SubSeq(InFlight, 1, k)
      BY <2>11, CutKeeps
    <3>2. UNCHANGED <<sender, listener, header, sent, delivered>> /\ open' = FALSE
      BY <2>11 DEF Cut
    <3>3. Start' = Start
      BY <3>2 DEF Start
    <3>4. Layout(InFlight', full, off, Start)
      BY <2>2, <3>1, LayoutCut DEF Laid
    <3>5. Len(InFlight') = k
      BY <3>1, Flights, FirstBytes
    <3>6. Len(full) + 1 \in 1 .. Len(full) + 1
      BY <2>3
    <3>7. Len(InFlight) < off[Len(full) + 1] => Len(InFlight') < off[Len(full) + 1]
      BY <2>3, <3>5, <3>6
    <3>8. Laid(full, off)'
      BY <2>2, <3>2, <3>3, <3>4, <3>7 DEF Laid
    <3>. QED  BY <3>8
  <2>12. CASE UNCHANGED vars
    <3>1. InFlight' = InFlight /\ UNCHANGED <<sender, open, listener, header, sent, delivered>>
      BY <2>12 DEF vars, wire, InFlight
    <3>2. Laid(full, off)'
      BY <2>2, <3>1, QuietKeeps
    <3>. QED  BY <3>2
  <2>. QED
    BY <1>2, <2>4, <2>5, <2>6, <2>7, <2>8, <2>9, <2>10, <2>11, <2>12 DEF Next
<1>. QED  BY <1>1, <1>2

LEMMA InOrderStep == ForwardingTypeOK /\ Stream /\ InOrder /\ [Next]_vars => InOrder'
<1>. SUFFICES ASSUME ForwardingTypeOK, Stream, InOrder, [Next]_vars PROVE InOrder'
  OBVIOUS
<1>0. Len(sent) \in Nat /\ Len(delivered) \in Nat /\ sent \in Seq(Frames) /\ delivered \in Seq(Frames)
  BY Flights DEF ForwardingTypeOK
<1>1. ASSUME NEW p \in Packets, Forward(p) PROVE InOrder'
  <2>1. Frame(p) \in Frames /\ sent' = Append(sent, Frame(p)) /\ delivered' = delivered
    BY <1>1, MessagesAreOrigins DEF Forward
  <2>2. Len(sent') = Len(sent) + 1 /\ \A i \in 1 .. Len(sent) : sent'[i] = sent[i]
    BY <1>0, <2>1, AppendProperties
  <2>3. \A i \in 1 .. Len(delivered) : i \in 1 .. Len(sent)
    BY <1>0 DEF InOrder
  <2>. QED  BY <1>0, <2>1, <2>2, <2>3 DEF InOrder
<1>2. CASE Decode
  <2>1. CASE delivered' = delivered
    BY <1>2, <2>1 DEF Decode, InOrder
  <2>2. CASE delivered' # delivered
    <3>. DEFINE f == [header EXCEPT !.size = Len(chunks["listener"])]
    <3>1. /\ listener = "payload" /\ Len(chunks["listener"]) = header.size /\ sent' = sent
          /\ delivered' = Append(delivered, f)
      BY <1>2, <2>2 DEF Decode, Complete, Want
    <3>2. f = header
      BY <3>1 DEF ForwardingTypeOK, Origins
    <3>. HIDE DEF f
    <3>3. PICK full, off : Laid(full, off)
      BY <3>1 DEF Stream
    <3>4. Start <= Len(full) /\ header = full[Start] /\ off[Start] = -HeaderSize
      BY <3>1, <3>3 DEF Laid
    <3>5. /\ full \in Seq(Frames) /\ Len(full) \in Nat
          /\ Start \in 1 .. Len(full) + 1 /\ \A k \in 1 .. Len(full) : full[k] \in Frames
          /\ Len(InFlight) \in Nat
      BY <3>3, LaidTypes
    <3>6. Start \in 1 .. Len(full) /\ Start \in Start .. Len(full)
      BY <3>4, <3>5
    <3>7. header \in Frames /\ header.size \in Nat
      BY <3>4, <3>5, <3>6, Totals
    <3>8. Start \in 1 .. Len(sent) /\ full[Start] = sent[Start]
      <4>1. CASE full = sent
        BY <3>6, <4>1
      <4>2. ASSUME NEW g \in Frames, full = Append(sent, g), Len(InFlight) < off[Len(full) + 1]
            PROVE  Start \in 1 .. Len(sent) /\ full[Start] = sent[Start]
        <5>1. Len(full) = Len(sent) + 1 /\ \A i \in 1 .. Len(sent) : full[i] = sent[i]
          BY <1>0, <4>2, AppendProperties
        <5>2. Start # Len(full)
          <6>1. SUFFICES ASSUME Start = Len(full) PROVE FALSE
            OBVIOUS
          <6>2. off[Start + 1] = off[Start] + Total(full[Start])
            BY <3>3, <3>6 DEF Laid, Layout
          <6>3. HeaderSize \in Nat /\ Total(full[Start]) = HeaderSize + header.size
            BY <3>4, ForwardingAssumption DEF Total
          <6>4. off[Start + 1] = header.size
            BY <3>4, <3>7, <6>2, <6>3
          <6>5. Len(chunks["listener"]) \in 0 .. Len(InFlight)
            BY Flights
          <6>. QED  BY <3>1, <3>5, <3>7, <4>2, <6>1, <6>4, <6>5
        <5>3. Start \in 1 .. Len(sent)
          BY <1>0, <3>6, <5>1, <5>2
        <5>. QED  BY <5>1, <5>3
      <4>. QED  BY <3>3, <4>1, <4>2 DEF Laid
    <3>9. /\ Len(delivered') = Len(delivered) + 1 /\ delivered'[Len(delivered) + 1] = header
          /\ \A i \in 1 .. Len(delivered) : delivered'[i] = delivered[i]
      BY <1>0, <3>1, <3>2, <3>7, AppendProperties
    <3>10. Len(delivered) + 1 <= Len(sent) /\ header = sent[Len(delivered) + 1]
      BY <1>0, <3>4, <3>8 DEF Start
    <3>11. \A i \in 1 .. Len(delivered) + 1 : i \in 1 .. Len(delivered) \/ i = Len(delivered) + 1
      BY <1>0
    <3>. QED  BY <3>1, <3>9, <3>10, <3>11 DEF InOrder
  <2>. QED  BY <2>1, <2>2
<1>3. CASE ~ Decode /\ ~ \E p \in Packets : Forward(p)
  <2>1. sent' = sent /\ delivered' = delivered
    BY <1>3 DEF Next, Receive, EndOfStream, Respond, ReadAnswer, SenderEnds, ForwardFails,
                CheckResponse, ReadHeader, Cut, vars
  <2>. QED  BY <2>1 DEF InOrder
<1>. QED  BY <1>1, <1>2, <1>3

-----------------------------------------------------------------------------
LEMMA ForwardingBase == Init => ForwardingInv
<1>. SUFFICES ASSUME Init PROVE ForwardingInv
  OBVIOUS
<1>. DEFINE challenge == Bytes(Message("challenge"), AuthSize)
<1>1. challenge \in Seq(Byte) /\ Len(challenge) = AuthSize
      /\ \A i \in 1 .. AuthSize : challenge[i] = [of |-> Message("challenge"), place |-> i]
  BY MessagesAreOrigins, BytesAreBytes, ForwardingAssumption
<1>. HIDE DEF challenge
<1>2. ForwardingTypeOK
  <2>1. chunks \in [Sides -> Seq(Byte)]
    <3>1. chunks \in [sender : Seq(Byte), listener : Seq(Byte)]
      BY DEF Init
    <3>2. DOMAIN chunks = Sides /\ \A side \in Sides : chunks[side] \in Seq(Byte)
      BY <3>1 DEF Sides
    <3>3. chunks = [side \in DOMAIN chunks |-> chunks[side]]
      BY <3>1
    <3>. QED  BY <3>2, <3>3
  <2>2. toListener \in Seq(Byte) /\ sent \in Seq(Frames) /\ delivered \in Seq(Frames)
    BY DEF Init
  <2>4. toSender \in Seq(Byte)
    BY <1>1 DEF Init, challenge
  <2>5. header \in Origins
    BY MessagesAreOrigins DEF Init
  <2>. QED  BY <2>1, <2>2, <2>4, <2>5 DEF Init, ForwardingTypeOK
<1>3. InFlight = <<>> /\ Len(InFlight) = 0 /\ Len(Reply) = AuthSize
  <2>1. chunks["listener"] = <<>> /\ chunks["sender"] = <<>> /\ toListener = <<>> /\ toSender = challenge
    BY DEF Init, challenge
  <2>2. <<>> \o <<>> = <<>> /\ <<>> \o challenge = challenge
    BY <1>1, ConcatEmptySeq
  <2>. QED  BY <1>1, <2>1, <2>2 DEF InFlight, Reply
<1>4. Handshake
  BY <1>3, ForwardingAssumption DEF Init, Handshake
<1>5. Stream /\ InOrder
  BY DEF Init, Stream, InOrder
<1>. QED  BY <1>2, <1>4, <1>5 DEF ForwardingInv

\* The types, the handshake, where the frames lie and the order of what is delivered are
\* together inductive, for any packets and any sizes.
THEOREM ForwardingInductive == Spec => []ForwardingInv
<1>1. Init => ForwardingInv
  BY ForwardingBase
<1>2. ForwardingInv /\ [Next]_vars => ForwardingInv'
  BY TypeStep, HandshakeStep, StreamStep, InOrderStep DEF ForwardingInv
<1>. QED  BY <1>1, <1>2, PTL DEF Spec

\* However recv() cuts the bytes and wherever the connection ends, the packets decoded are
\* the first of those that forward_packet has sent.
THEOREM DeliveredInOrderHolds == Spec => []DeliveredInOrder
<1>1. ForwardingInv => DeliveredInOrder
  <2>. SUFFICES ASSUME ForwardingInv PROVE DeliveredInOrder
    OBVIOUS
  <2>1. /\ sent \in Seq(Frames) /\ delivered \in Seq(Frames)
        /\ Len(sent) \in Nat /\ Len(delivered) \in Nat /\ Len(delivered) <= Len(sent)
        /\ \A i \in 1 .. Len(delivered) : delivered[i] = sent[i]
    BY Flights DEF ForwardingInv, ForwardingTypeOK, InOrder
  <2>. DEFINE a == SubSeq(delivered, 1, Len(delivered))
              b == SubSeq(sent, 1, Len(delivered))
  <2>2. a = delivered
    BY <2>1, SubSeqFull
  <2>3. \A i \in 1 .. Len(delivered) : sent[i] \in Frames
    BY <2>1, ElementOfSeq
  <2>4. /\ b \in Seq(Frames) /\ Len(b) = Len(delivered)
        /\ \A i \in 1 .. Len(delivered) : b[i] = sent[i]
    BY <2>1, <2>3, SubSeqProperties
  <2>. HIDE DEF a, b
  <2>5. delivered = b
    BY <2>1, <2>4, SeqEqual
  <2>. QED  BY <2>1, <2>2, <2>5 DEF DeliveredInOrder, IsPrefix, a, b
<1>. QED  BY <1>1, ForwardingInductive, PTL

=============================================================================
