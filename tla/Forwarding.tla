------------------------------ MODULE Forwarding ------------------------------
(***************************************************************************)
(* The Windows collector (windows_capture.py) and the wire protocol it     *)
(* shares with the listener in WSL (packet_forwarding.py): a challenge, a  *)
(* response, an answer, and then frames, over a TCP connection.            *)
(*                                                                         *)
(* TCP carries bytes: what one side hands over at once, the other may      *)
(* receive in pieces, and a connection may end in the middle of a frame. A *)
(* byte of a frame is modelled by its frame and its place in it.           *)
(*                                                                         *)
(* The listener is not in the repository: it is modelled from the          *)
(* functions that packet_forwarding.py offers it, and as to the handshake  *)
(* it may be anyone: the tokens themselves are not modelled.               *)
(***************************************************************************)
EXTENDS Integers, Sequences, SequencesExt

CONSTANTS
    AuthSize,           \* AUTH_SIZE
    HeaderSize,         \* HEADER.size
    MaxPacketSize,      \* MAX_PACKET_SIZE
    Packets,            \* what is captured: [layers, size]
    MaxPackets          \* bound on the packets captured

ASSUME ForwardingAssumption ==
    /\ AuthSize \in Nat \ {0} /\ HeaderSize \in Nat \ {0} /\ MaxPacketSize \in Nat
    /\ \A p \in Packets : p.layers \subseteq {"ARP", "IP", "IPv6"} /\ p.size \in Nat
    /\ MaxPackets \in Nat

VARIABLES
    toListener, toSender,   \* the bytes on their way
    open,           \* neither side has closed the connection
    sender,         \* windows_capture.py: "challenge", "answer", "forward" or "ended"
    listener,       \* "response", "header", "payload" or "ended"
    chunks,         \* recv_exact's bytes so far, of either side
    header,         \* the frame whose header the listener has read
    sent,           \* history: the frames of the packets captured, in their order
    delivered       \* what the listener has decoded

wire == <<toListener, toSender, open>>
vars == <<wire, sender, listener, chunks, header, sent, delivered>>

\* A frame, and the messages of the handshake: a type and the size of the payload.
Message(type) == [type |-> type, size |-> 0]
NoFrame == Message("none")

\* The bytes of a message of n bytes.
Bytes(message, n) == [i \in 1 .. n |-> [of |-> message, place |-> i]]

\* The connection is made and the listener has sent its challenge.
Init ==
    /\ toListener = <<>> /\ toSender = Bytes(Message("challenge"), AuthSize) /\ open = TRUE
    /\ sender = "challenge" /\ listener = "response"
    /\ chunks = [sender |-> <<>>, listener |-> <<>>]
    /\ header = NoFrame
    /\ sent = <<>> /\ delivered = <<>>

-----------------------------------------------------------------------------
(* The wire protocol *)

\* encode_packet: the type and the size of the frame, or none. A packet with several of
\* the layers goes as the first of ARP, IP, IPv6; what is around that layer is left out.
Layer(p) == IF "ARP" \in p.layers THEN "ARP" ELSE IF "IP" \in p.layers THEN "IP" ELSE "IPv6"

Encodable(p) == p.layers # {} /\ p.size \in 1 .. MaxPacketSize

Frame(p) == [type |-> Layer(p), size |-> p.size]

FrameBytes(f) == Bytes(f, HeaderSize + f.size)

\* What decode_packet accepts.
Decodable(f) == f.type \in {"ARP", "IP", "IPv6"} /\ f.size \in 1 .. MaxPacketSize

\* The size recv_exact was called with.
Want(side) ==
    IF side = "sender" THEN (IF sender = "challenge" THEN AuthSize ELSE 1)
    ELSE CASE listener = "response" -> AuthSize
           [] listener = "header" -> HeaderSize
           [] OTHER -> header.size

CompleteOnce(side) ==   \* mutant: one recv() in place of the loop
    chunks[side] # <<>>

\* recv_exact returns.
Complete(side) == Len(chunks[side]) = Want(side)

Running(side) == IF side = "sender" THEN sender \in {"challenge", "answer"} ELSE listener # "ended"

Incoming(side) == IF side = "sender" THEN toSender ELSE toListener

\* recv(size - len(chunks)) returns some of the bytes that have come.
Receive(side) ==
    /\ Running(side) /\ ~Complete(side)
    /\ \E n \in 1 .. Len(Incoming(side)) :
          /\ n <= Want(side) - Len(chunks[side])
          /\ chunks' = [chunks EXCEPT ![side] = @ \o SubSeq(Incoming(side), 1, n)]
          /\ toSender' = IF side = "sender" THEN SubSeq(toSender, n + 1, Len(toSender)) ELSE toSender
          /\ toListener' = IF side = "listener" THEN SubSeq(toListener, n + 1, Len(toListener))
                           ELSE toListener
    /\ UNCHANGED <<open, sender, listener, header, sent, delivered>>

Used(side) == chunks' = [chunks EXCEPT ![side] = <<>>]

EndOfStreamReturns(side) ==   \* mutant: recv_exact returns what it has when the stream ends
    /\ Running(side) /\ ~Complete(side)
    /\ ~open /\ Incoming(side) = <<>>
    /\ IF side = "sender" THEN sender' = "ended" /\ UNCHANGED <<listener, delivered>>
       ELSE /\ listener' = "ended" /\ UNCHANGED sender
            /\ delivered' = IF listener = "payload"
                            THEN Append(delivered, [header EXCEPT !.size = Len(chunks[side])])
                            ELSE delivered
    /\ UNCHANGED <<wire, chunks, header, sent>>

\* recv() returns nothing: EOFError, which ends the program.
EndOfStream(side) ==
    /\ Running(side) /\ ~Complete(side)
    /\ ~open /\ Incoming(side) = <<>>
    /\ IF side = "sender" THEN sender' = "ended" /\ UNCHANGED listener
       ELSE listener' = "ended" /\ UNCHANGED sender
    /\ UNCHANGED <<wire, chunks, header, sent, delivered>>

-----------------------------------------------------------------------------
(* The collector *)

\* The token's answer to the challenge.
Proof == Message("proof")

\* make_auth_response and sendall.
Respond ==
    /\ sender = "challenge" /\ Complete("sender")
    /\ sender' = "answer" /\ Used("sender")
    /\ toListener' = IF open THEN toListener \o Bytes(Proof, AuthSize) ELSE toListener
    /\ UNCHANGED <<toSender, open, listener, header, sent, delivered>>

\* Anything but AUTH_ACCEPTED ends the collector.
ReadAnswer ==
    /\ sender = "answer" /\ Complete("sender")
    /\ sender' = IF chunks["sender"][1].of.type = "accepted" THEN "forward" ELSE "ended"
    /\ open' = (open /\ sender' = "forward")
    /\ Used("sender")
    /\ UNCHANGED <<toListener, toSender, listener, header, sent, delivered>>

\* forward_packet; a packet without a frame is skipped. When the listener has closed,
\* sendall may still accept the bytes: they go nowhere.
Forward(p) ==
    /\ sender = "forward" /\ Len(sent) < MaxPackets /\ Encodable(p)
    /\ toListener' = IF open THEN toListener \o FrameBytes(Frame(p)) ELSE toListener
    /\ sent' = Append(sent, Frame(p))
    /\ UNCHANGED <<toSender, open, sender, listener, chunks, header, delivered>>

\* sendall raises when a part of the frame is out; sniff() lets the exception through,
\* and the end of the program closes the connection.
ForwardFails(p) ==
    /\ sender = "forward" /\ Len(sent) < MaxPackets /\ Encodable(p)
    /\ \E n \in 0 .. Len(FrameBytes(Frame(p))) - 1 :
          toListener' = IF open THEN toListener \o SubSeq(FrameBytes(Frame(p)), 1, n) ELSE toListener
    /\ sender' = "ended" /\ open' = FALSE
    /\ UNCHANGED <<toSender, listener, chunks, header, sent, delivered>>

\* The ten seconds of create_connection's timeout, which settimeout(None) lifts once the
\* token is accepted; or Ctrl-C.
SenderEnds ==
    /\ sender # "ended"
    /\ sender' = "ended" /\ open' = FALSE
    /\ UNCHANGED <<toListener, toSender, listener, chunks, header, sent, delivered>>

-----------------------------------------------------------------------------
(* The listener *)

\* Whoever listens may accept or reject: the collector takes the answer's word, and asks
\* for no proof that the listener knows the token.
CheckResponse ==
    /\ listener = "response" /\ Complete("listener")
    /\ Used("listener")
    /\ \/ /\ listener' = "header" /\ UNCHANGED open
          /\ toSender' = toSender \o Bytes(Message("accepted"), 1)
       \/ /\ listener' = "ended" /\ open' = FALSE
          /\ toSender' = toSender \o Bytes(Message("rejected"), 1)
    /\ UNCHANGED <<toListener, sender, header, sent, delivered>>

\* The chunks are the first bytes of one frame: HEADER.unpack reads what was packed.
Aligned(side) == \A i \in DOMAIN chunks[side] :
                    chunks[side][i] = [of |-> chunks[side][1].of, place |-> i]

ReadHeader ==
    /\ listener = "header" /\ Complete("listener")
    /\ Used("listener")
    /\ IF Len(chunks["listener"]) = HeaderSize /\ Aligned("listener")
       THEN listener' = "payload" /\ header' = chunks["listener"][1].of
       ELSE listener' = "ended" /\ UNCHANGED header
    /\ UNCHANGED <<wire, sender, sent, delivered>>

\* decode_packet, which raises for what it does not accept.
Decode ==
    /\ listener = "payload" /\ Complete("listener")
    /\ Used("listener") /\ header' = NoFrame
    /\ LET f == [header EXCEPT !.size = Len(chunks["listener"])]
       IN  IF Decodable(f) THEN delivered' = Append(delivered, f) /\ listener' = "header"
           ELSE listener' = "ended" /\ UNCHANGED delivered
    /\ UNCHANGED <<wire, sender, sent>>

\* The network fails: what is on its way may be lost, the last bytes first.
Cut ==
    /\ open /\ open' = FALSE
    /\ \E n \in 0 .. Len(toListener) : toListener' = SubSeq(toListener, 1, n)
    /\ UNCHANGED <<toSender, sender, listener, chunks, header, sent, delivered>>

-----------------------------------------------------------------------------
Sides == {"sender", "listener"}

ListenerStep == Receive("listener") \/ CheckResponse \/ ReadHeader \/ Decode

Next ==
    \/ \E side \in Sides : Receive(side) \/ EndOfStream(side)
    \/ Respond \/ ReadAnswer \/ SenderEnds
    \/ \E p \in Packets : Forward(p) \/ ForwardFails(p)
    \/ CheckResponse \/ ReadHeader \/ Decode
    \/ Cut

\* The programs go on; nothing has to be captured, and nothing has to end.
Spec ==
    /\ Init /\ [][Next]_vars
    /\ WF_vars(ListenerStep) /\ WF_vars(EndOfStream("listener"))
    /\ WF_vars(Receive("sender") \/ Respond \/ ReadAnswer \/ EndOfStream("sender"))

-----------------------------------------------------------------------------
(* Properties *)

\* However TCP cuts the bytes and wherever the connection ends, the listener decodes the
\* packets that were sent, whole, in their order and from the first.
DeliveredInOrder == IsPrefix(delivered, sent)

\* Every packet sent is decoded, unless the connection ends.
AllDelivered ==
    \A n \in 1 .. MaxPackets : Len(sent) = n ~> (Len(delivered) >= n \/ ~open)
=============================================================================
