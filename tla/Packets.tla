------------------------------ MODULE Packets ------------------------------
(***************************************************************************)
(* The bytes of a packet: the ByteBuffer every packet and every key is kept *)
(* in, with its positions of reading and writing, and on top of it the      *)
(* header that Packet::Incapsulate puts before the content and Decapsulate  *)
(* takes off again.  Everything here is a function of the buffers: what a   *)
(* thread does with them is in KeyExchange, Lines and ReceivePath.          *)
(*                                                                         *)
(* A buffer is [store, rpos, wpos].  An operation that throws has a         *)
(* condition of its own.  Left out are the operations nothing calls: put,   *)
(* resize, packed times and GUIDs, floats, containers.                      *)
(***************************************************************************)
EXTENDS Integers, Sequences

Byte == 0 .. 255
Max16 == 65536
Max32 == 65536 * 65536

-----------------------------------------------------------------------------
(* ByteBuffer.                                                              *)
Empty == [store |-> << >>, rpos |-> 0, wpos |-> 0]      \* also after clear()
Size(b) == Len(b.store)

(* append(src, cnt), never called with nothing to append, which would throw. *)
AppendBytes(b, src) ==
    [b EXCEPT !.store = SubSeq(@, 1, b.wpos) \o src \o SubSeq(@, b.wpos + Len(src) + 1, Len(@)),
              !.wpos = @ + Len(src)]

AppendString(b, str) ==
    LET chars == IF str = << >> THEN b ELSE AppendBytes(b, str) IN AppendBytes(chars, << 0 >>)

(* The unsigned integers, low byte first.                                   *)
Uint16(v) == << v % 256, (v \div 256) % 256 >>
Uint32(v) == << v % 256, (v \div 256) % 256, (v \div 65536) % 256, (v \div 16777216) % 256 >>
AsUint16(s) == s[1] + 256 * s[2]
AsUint32(s) == s[1] + 256 * s[2] + 65536 * s[3] + 16777216 * s[4]

(* read: the next n bytes, beyond the end a PositionException.              *)
ReadThrows(b, n) == b.rpos + n > Size(b)
Peek(b, n) == SubSeq(b.store, b.rpos + 1, b.rpos + n)
Skip(b, n) == [b EXCEPT !.rpos = @ + n]

(* A string ends before the next 0, or with the buffer.                     *)
StringEnd(b) ==
    CHOOSE e \in b.rpos + 1 .. Size(b) + 1 :
        /\ e = Size(b) + 1 \/ b.store[e] = 0
        /\ \A i \in b.rpos + 1 .. e - 1 : b.store[i] # 0
ReadString(b) == SubSeq(b.store, b.rpos + 1, StringEnd(b) - 1)
AfterString(b) == [b EXCEPT !.rpos = IF StringEnd(b) > Size(b) THEN Size(b) ELSE StringEnd(b)]

-----------------------------------------------------------------------------
(* Packet.  Only the packets of a symmetric encryption are numbered.        *)
HeaderSize(numbered) == IF numbered THEN 12 ELSE 8

Header(op, size, time, seq, numbered) ==
    LET plain == AppendBytes(AppendBytes(AppendBytes(Empty, Uint16(op)), Uint16(size)), Uint32(time))
    IN IF numbered THEN AppendBytes(plain, Uint32(seq)) ELSE plain

Incapsulate(op, data, time, seq, numbered) ==
    LET header == Header(op, Len(data), time, seq, numbered)
    IN IF data = << >> THEN header ELSE AppendBytes(header, data)

OpOf(b) == AsUint16(SubSeq(b.store, 1, 2))
SizeOf(b) == AsUint16(SubSeq(b.store, 3, 4))
TimeOf(b) == AsUint32(SubSeq(b.store, 5, 8))
NumberOf(b) == AsUint32(SubSeq(b.store, 9, 12))

(* Two days, lest time zones matter.                                        *)
TooOld(time, now) == (time + 172800) % Max32 < now

(* What becomes of a buffer nothing has been read from: a packet, none      *)
(* ("ignored"), or an exception, which closes the socket.  Of the bytes the *)
(* header speaks of and the buffer lacks, the code makes a copy before it   *)
(* throws.                                                                  *)
Ignored == [is |-> "ignored"]
Throws == [is |-> "throws"]
IsPacket(op, data) == [is |-> "packet", op |-> op, data |-> data]

Decapsulate(b, now, old, numbered) ==
    LET header == HeaderSize(numbered)
        rest == Skip(b, header)
    IN  IF Size(b) = 0 THEN Ignored
        ELSE IF ReadThrows(b, header) \/ ReadThrows(rest, SizeOf(b)) THEN Throws
        ELSE IF TooOld(TimeOf(b), now) \/ (numbered /\ NumberOf(b) < old) THEN Ignored
        ELSE IsPacket(OpOf(b), Peek(rest, SizeOf(b)))

(* u_id_receive afterwards.                                                 *)
NumberAfter(b, now, old, numbered) ==
    IF numbered /\ Decapsulate(b, now, old, numbered).is = "packet" THEN NumberOf(b) ELSE old

(* Who a login request claims to come from: Packet::Decrypt skips the       *)
(* header and reads the name the content begins with.                       *)
UserOf(b) == ReadString(Skip(b, HeaderSize(FALSE)))
=============================================================================
