------------------------------- MODULE Lines -------------------------------
(***************************************************************************)
(* The way of a line from the client's entry field to the handler in the   *)
(* server: the line is shown and becomes a command or a message            *)
(* (Commands), the packet is enclosed, encrypted and framed                *)
(* (SessionBase::_SendPacketToSocket), the connection delivers the bytes   *)
(* in order but in pieces of any size, and the server receives a length    *)
(* and a frame with one call of recv each (_RecvPacketFromSocket), decodes *)
(* it and handles it.                                                      *)
(*                                                                         *)
(* The user is logged in and the key does not change, so every frame is    *)
(* encrypted with AES; the changes of key are in KeyExchange.  The events, *)
(* queues and threads between the connection and the handler are in        *)
(* ReceivePath: here they are one receiver and one queue.  An answer       *)
(* counts as seen when the server sends it.                                *)
(*                                                                         *)
(* The byte counts are those of the code with smaller numbers: a byte has  *)
(* Byte values, and what has a fixed length (the header with the padding   *)
(* of AES, the tags of the XML, a name with a digest) counts as one byte.  *)
(***************************************************************************)
EXTENDS Commands, FiniteSets

CONSTANTS Typeable,     \* the lines the user may type
          MaxLines,     \* bound: lines typed
          FirstLines,   \* bound: the lines after which another one is typed
          ShortLines,   \* bound: the lines for which a read may come too early
          Byte,         \* the number of values of a byte: a length has two bytes
          MaxFrame      \* the longest frame that is received, 65000 bytes

LenMod == Byte * Byte

ASSUME LinesAssumption ==
    /\ MaxLines \in Nat /\ IsFiniteSet(Typeable)
    /\ Typeable \subseteq [dots : 0 .. 2, words : Seq(Seq(STRING)), caps : BOOLEAN, size : Nat]
ASSUME SizesAssumption == /\ Byte \in Nat \ {0} /\ MaxFrame \in Nat
                          /\ MaxFrame = MaxLine /\ MaxFrame < LenMod

VARIABLES
    typed,      \* the lines typed so far
    sent,       \* the packets sent so far; their number is u_id_send
    wire,       \* the bytes on the connection that the server cannot read yet
    arrived,    \* the bytes the server can read
    reading,    \* the frame length the server has read, or none
    open,       \* the server has not closed the socket
    seqIn,      \* u_id_receive
    late,       \* the server's clock is more than two days ahead of the client's
    recvq,      \* _recvQueue
    joined,     \* the user is in a channel
    handled,    \* the packets that were handled, with what came of them
    past        \* what has happened that counts as an excuse

vars == <<typed, sent, wire, arrived, reading, open, seqIn, late, recvq, joined, handled, past>>

NotReading == LenMod

Init == /\ typed = << >> /\ sent = << >> /\ wire = << >> /\ arrived = << >>
        /\ reading = NotReading /\ open = TRUE /\ seqIn = 0 /\ late \in BOOLEAN
        /\ recvq = << >> /\ joined \in BOOLEAN /\ handled = << >> /\ past = {}

-----------------------------------------------------------------------------
(* Sizes.  Base64 makes four bytes of three or fewer.                       *)
EncodeBase64(n) == ((n + 2) \div 3) * 4
XMLBuildMessage(n) == 1 + EncodeBase64(n)

(* The payload: a message, a name and a message, a name and a digest, none. *)
Payload(op, line) ==
    CASE op = "message" -> XMLBuildMessage(line.size)
      [] op = "whisp" -> 1 + XMLBuildMessage(line.size)
      [] op \in {"join", "create"} -> 1
      [] OTHER -> 0

(* Header, sequence number and payload, and what AES adds.                  *)
Incapsulate(packet, line, seq) ==
    [op |-> packet.op, seq |-> seq, frame |-> 1 + Payload(packet.op, line)]

(* The bytes of packet k on the wire: the two of its length, low byte first, *)
(* as far as uint16 can hold it, then those of its frame.                   *)
FrameBytes(k, size) == [i \in 1 .. size + 2 |-> [k |-> k, i |-> i]]

Length(size) == size % LenMod

(* The values a byte may have: those of a frame are a ciphertext.           *)
Values(byte) == LET len == Length(sent[byte.k].frame) IN
    CASE byte.i = 1 -> {len % Byte}
      [] byte.i = 2 -> {len \div Byte}
      [] OTHER -> 0 .. Byte - 1

Whole(k) == SubSeq(FrameBytes(k, sent[k].frame), 3, sent[k].frame + 2)

(* What each line makes ClientCore::HandleSend do after showing it.         *)
Effect == [line \in Typeable |->
              IF TooLong(line) THEN Does(FALSE, << "too long" >>, << >>) ELSE HandleSend(line)]

(* The bounds: how many lines are typed, and which of them after another;   *)
(* the reads of which lines may find fewer bytes than they ask for; and     *)
(* after a garbled frame no other is received.                              *)
MayType == /\ Len(typed) < MaxLines
           /\ past = {} /\ Range(typed) \subseteq FirstLines
MayReceive == "garbled" \notin past
MayBeShort == Len(typed) = 1 /\ Head(typed) \in ShortLines

-----------------------------------------------------------------------------
(* A line is typed: shown, and unless it is too long handled as a command   *)
(* or a message.  A length that does not fit its two bytes is an excuse.    *)
Type(line) ==
    /\ open /\ MayType
    /\ typed' = Append(typed, line)
    /\ LET packs == Effect[line].sends
           new == [i \in DOMAIN packs |-> Incapsulate(packs[i], line, Len(sent))]
       IN /\ sent' = sent \o new
          /\ wire' = IF new = << >> THEN wire
                     ELSE wire \o FrameBytes(Len(sent) + 1, new[1].frame)
          /\ past' = past \cup {"oversize" : i \in {j \in DOMAIN new : new[j].frame >= LenMod}}
    /\ UNCHANGED <<arrived, reading, open, seqIn, late, recvq, joined, handled>>

(* The connection delivers some of the bytes under way.                     *)
Arrives ==
    /\ wire # << >>
    /\ \E n \in 1 .. Len(wire) : /\ arrived' = arrived \o SubSeq(wire, 1, n)
                                 /\ wire' = SubSeq(wire, n + 1, Len(wire))
    /\ UNCHANGED <<typed, sent, reading, open, seqIn, late, recvq, joined, handled, past>>

-----------------------------------------------------------------------------
(* recv: at most n of the bytes that can be read, and at least one.         *)
Got(n) == SubSeq(arrived, 1, IF n < Len(arrived) THEN n ELSE Len(arrived))
Take(n) == /\ arrived # << >>
           /\ Len(arrived) >= n \/ MayBeShort \/ past # {}
           /\ arrived' = SubSeq(arrived, Len(Got(n)) + 1, Len(arrived))
Short(n) == IF Len(Got(n)) < n THEN {"short"} ELSE {}

(* The length.  Of a short one the high byte is not initialised.  A frame   *)
(* that is too long closes the socket; one of no length is an empty packet  *)
(* (MSG_NULL_ACTION), which is never processed.                             *)
RecvLength_NoLimit ==
    /\ open /\ reading = NotReading /\ MayReceive
    /\ Take(2) /\ past' = past \cup Short(2)
    /\ \E low \in Values(Got(2)[1]),
          high \in IF Len(Got(2)) = 2 THEN Values(Got(2)[2]) ELSE 0 .. Byte - 1 :
           LET len == high * Byte + low IN
           /\ open' = TRUE
           /\ reading' = IF len = 0 THEN NotReading ELSE len
    /\ UNCHANGED <<typed, sent, wire, seqIn, late, recvq, joined, handled>>

RecvLength ==
    /\ open /\ reading = NotReading /\ MayReceive
    /\ Take(2) /\ past' = past \cup Short(2)
    /\ \E low \in Values(Got(2)[1]),
          high \in IF Len(Got(2)) = 2 THEN Values(Got(2)[2]) ELSE 0 .. Byte - 1 :
           LET len == high * Byte + low IN
           /\ open' = (len <= MaxFrame)
           /\ reading' = IF len > MaxFrame \/ len = 0 THEN NotReading ELSE len
    /\ UNCHANGED <<typed, sent, wire, seqIn, late, recvq, joined, handled>>

(* A packet that was received whole: ignored when its time stamp is two     *)
(* days old or its number smaller than the last.                            *)
Decapsulate_Strict(packet) ==
    IF late \/ packet.seq <= seqIn
    THEN UNCHANGED <<seqIn, recvq>>
    ELSE seqIn' = packet.seq /\ recvq' = Append(recvq, packet.seq + 1)
Decapsulate_Front(packet) ==
    IF late \/ packet.seq < seqIn
    THEN UNCHANGED <<seqIn, recvq>>
    ELSE seqIn' = packet.seq /\ recvq' = << packet.seq + 1 >> \o recvq
Decapsulate(packet) ==
    IF late \/ packet.seq < seqIn
    THEN UNCHANGED <<seqIn, recvq>>
    ELSE seqIn' = packet.seq /\ recvq' = Append(recvq, packet.seq + 1)

(* Bytes that are not a frame: EVP_DecryptFinal_ex reports a wrong padding  *)
(* by 0, which AesDecrypt takes for success, so what follows depends on     *)
(* what the bytes decrypt to.  Reading beyond the end (PositionException)   *)
(* and an unknown opcode close the socket, an old time or number drops the  *)
(* packet, or the packet is none that was sent (0).                         *)
DecryptGarbage ==
    \/ open' = FALSE /\ UNCHANGED <<seqIn, recvq>>
    \/ UNCHANGED <<open, seqIn, recvq>>
    \/ /\ recvq' = Append(recvq, 0) /\ seqIn' \in {seqIn, MaxLines}
       /\ open' = open

RecvFrame ==
    /\ open /\ reading # NotReading
    /\ Take(reading)
    /\ reading' = NotReading
    /\ LET k == Got(reading)[1].k IN
       IF Got(reading) = Whole(k) /\ reading = Len(Whole(k))
       THEN Decapsulate(sent[k]) /\ UNCHANGED <<open, past>>
       ELSE DecryptGarbage /\ past' = past \cup {"garbled"} \cup Short(reading)
    /\ UNCHANGED <<typed, sent, wire, late, joined, handled>>

-----------------------------------------------------------------------------
(* The handlers of the server, as far as a line's effect goes.  Whether the *)
(* channel exists and the user is found is up to others.                    *)
Ends(n, with) == handled' = Append(handled, [n |-> n, with |-> with])

HandleMessage(n) == /\ Ends(n, IF joined THEN "relayed" ELSE "answered")
                    /\ UNCHANGED joined

HandleWhisp(n) == /\ \E found \in BOOLEAN : Ends(n, IF found THEN "relayed" ELSE "answered")
                  /\ UNCHANGED joined
HandleEnter(n) == Ends(n, "answered") /\ joined' \in {joined, TRUE}
HandleLeave(n) == Ends(n, "answered") /\ joined' = FALSE
HandleAsk(n) == Ends(n, "answered") /\ UNCHANGED joined        \* ping and list
HandleJunk == UNCHANGED handled /\ joined' \in BOOLEAN

HandlePacket ==
    /\ open /\ recvq # << >>
    /\ recvq' = Tail(recvq)
    /\ LET n == Head(recvq) IN
       IF n = 0 THEN HandleJunk
       ELSE CASE sent[n].op = "message" -> HandleMessage(n)
              [] sent[n].op = "whisp" -> HandleWhisp(n)
              [] sent[n].op \in {"join", "create"} -> HandleEnter(n)
              [] sent[n].op = "leave" -> HandleLeave(n)
              [] OTHER -> HandleAsk(n)
    /\ UNCHANGED <<typed, sent, wire, arrived, reading, open, seqIn, late, past>>

Next == \/ \E line \in Typeable : Type(line)
        \/ Arrives \/ RecvLength \/ RecvFrame \/ HandlePacket

Spec == Init /\ [][Next]_vars

-----------------------------------------------------------------------------
(* Types; and what is in the receiver's hands is never more than was sent.  *)
Kinds == {"message", "whisp", "join", "create", "leave", "list", "ping"}
TypeOK ==
    /\ typed \in Seq(Typeable) /\ Len(typed) <= MaxLines
    /\ \A k \in DOMAIN sent : sent[k].op \in Kinds /\ sent[k].seq = k - 1
    /\ reading \in 1 .. MaxFrame \cup {NotReading}
    /\ open \in BOOLEAN /\ late \in BOOLEAN /\ joined \in BOOLEAN
    /\ seqIn \in 0 .. MaxLines
    /\ \A i \in DOMAIN recvq : recvq[i] \in 0 .. Len(sent)
    /\ \A i \in DOMAIN handled : handled[i].n \in DOMAIN sent
    /\ past \subseteq {"oversize", "short", "garbled"}

(* What is said to the channel or whispered is shown as such, unless it     *)
(* begins with two dots or is a dot alone, or the command is abbreviated or *)
(* in capitals; and a line shown as said or whispered is sent as that or    *)
(* followed by an error.  The test of ClientCore::HandleSend and the parser *)
(* of ChatHandler look at a line in different ways.                         *)
OpsOf(line) == {d.op : d \in Range(Effect[line].sends)}
SaidIsShown ==
    \A line \in Range(typed) :
        /\ (\/ "message" \in OpsOf(line) /\ line.dots = 0
            \/ "whisp" \in OpsOf(line) /\ ~line.caps /\ Head(line.words) = <<"w", "hisp">>)
              <=> EchoType(line) \in {"M", "W"} /\ Effect[line].says = << >>
        /\ EchoType(line) = "M" => "whisp" \notin OpsOf(line)
        /\ EchoType(line) = "W" => "message" \notin OpsOf(line)

(* Unless a read was short or a length did not fit, no frame is garbled,    *)
(* packets are handled in the order of their lines, none is left out before *)
(* one that is handled, and the server closes only for a frame that is      *)
(* longer than it accepts, although the client let the line pass            *)
(* (client-core.cpp:86).                                                    *)
InOrder ==
    past \subseteq {"garbled"} =>
        /\ past = {}
        /\ \A i \in DOMAIN handled : handled[i].n = i
        /\ open \/ \E k \in DOMAIN sent : sent[k].frame > MaxFrame

(* From one end to the other: once nothing is under way, every line has had *)
(* an effect the user or others can see - a message in the window, an       *)
(* answer of the server, or the delivery to a channel or a user.  Exempt    *)
(* are .channel info and .channel kick, which do nothing.                   *)
Quiet == wire = << >> /\ arrived = << >> /\ reading = NotReading /\ recvq = << >>
DoesNothing(line) ==
    /\ IsCommand(line) /\ Len(line.words) >= 2
    /\ HasStringAbbr(<<"c", "hannel">>, line.words[1])
    /\ \E name \in {<<"i", "nfo">>, <<"k", "ick">>} : HasStringAbbr(name, line.words[2])
PacketOf(i) == Cardinality({j \in 1 .. i : Effect[typed[j]].sends # << >>})
HadEffect(i) ==
    \/ Effect[typed[i]].says # << >> \/ DoesNothing(typed[i])
    \/ \E j \in DOMAIN handled : handled[j].n = PacketOf(i) /\ handled[j].with # "nothing"
Told ==
    Quiet /\ open /\ past = {} /\ ~late => \A i \in DOMAIN typed : HadEffect(i)
=============================================================================
