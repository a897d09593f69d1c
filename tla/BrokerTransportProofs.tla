------------------------- MODULE BrokerTransportProofs -------------------------
(****************************************************************************)
(* Proofs about BrokerTransport, for every stream of the server, every way  *)
(* to cut it and every text to send.                                        *)
(*                                                                          *)
(* Aligned is the heart of the refinement: the parser's buffer begins where *)
(* a frame begins, and never beyond what has been received.  Phase says     *)
(* which flags go together between two tasks of the event loop.             *)
(****************************************************************************)
EXTENDS BrokerTransport, TLAPS

Aligned ==
    /\ consumed = Begin[parsed + 1]
    /\ HeadLength + consumed <= received \/ (consumed = 0 /\ ~upgraded)

Phase ==
    /\ upgraded =>
           /\ validateUpgradeResponse
           /\ HeadLength <= received
           /\ ~timer
           /\ loop = "tail" => promise = "pending"
           /\ loop # "tail" => promise = "resolved"
    /\ ~upgraded =>
           /\ loop = "idle"
           /\ parsed = 0
           /\ ~corrupted
           /\ promise # "resolved"
    /\ promise = "rejected" => sock \in {"broken", "destroyed", "closed"}

(* A header the server decodes to the size that follows.                    *)
Sound(h) ==
    /\ h.first \in 128 + TEXT..128 + PONG
    /\ h.second >= 128
    /\ Len(h.extension) = ExtensionOf(h.second - 128)
    /\ \A i \in DOMAIN h.extension : h.extension[i] \in Byte
    /\ DecodedSize(h) = h.size
    /\ h.first >= 128 + CLOSE => h.size <= MaxControlPayload

(* A CLOSE is the last frame, and the socket is not open after it.          *)
Writing ==
    \A k \in DOMAIN written :
        /\ Sound(written[k])
        /\ written[k].first = 128 + CLOSE =>
               k = Len(written) /\ sock \notin {"connecting", "open"}

IInv == TypeOK /\ Aligned /\ Phase /\ Writing

(****************************************************************************)
(* The encoding of frames.                                                  *)
(****************************************************************************)

(* A number is its bytes: big-endian lengths.                               *)
LEMMA Split ==
    ASSUME NEW n \in Nat
    PROVE  /\ n \div 256 \in Nat
           /\ n % 256 \in Nat
           /\ n % 256 < 256
           /\ n = 256 * (n \div 256) + (n % 256)
<1>1. n \div 256 \in Nat
  BY SMT
<1>2. n % 256 \in Nat /\ n % 256 < 256
  BY SMT
<1>3. 256 * (n \div 256) + (n % 256) = n
  BY SMT
<1>4. QED
  BY <1>1, <1>2, <1>3

(* Shifting by whole bytes.                                                 *)
LEMMA Nested ==
    ASSUME NEW n \in Nat
    PROVE  /\ n \div 65536 = (n \div 256) \div 256
           /\ n \div 16777216 = ((n \div 256) \div 256) \div 256
           /\ (n % 65536) \div 256 = (n \div 256) % 256
<1>1. n \div 65536 = (n \div 256) \div 256
  BY SMT
<1>2. n \div 16777216 = (n \div 65536) \div 256
  BY SMT
<1>3. (n % 65536) \div 256 = (n \div 256) % 256
  BY SMT
<1>4. QED
  BY <1>1, <1>2, <1>3

(* The four bytes of a number below 2^32, and the three of one below 2^24,  *)
(* add up to it.                                                            *)
LEMMA FourBytes ==
    ASSUME NEW n \in Nat
    PROVE  16777216 * (n \div 16777216) + 65536 * ((n \div 65536) % 256)
               + 256 * ((n \div 256) % 256) + (n % 256) = n
<1> DEFINE a == n \div 256
<1> DEFINE b == a \div 256
<1> DEFINE c == b \div 256
<1>1. a \in Nat /\ n = 256 * a + (n % 256) /\ n % 256 \in Nat
  BY Split
<1>2. b \in Nat /\ a = 256 * b + (a % 256) /\ a % 256 \in Nat
  BY <1>1, Split
<1>3. c \in Nat /\ b = 256 * c + (b % 256) /\ b % 256 \in Nat
  BY <1>2, Split
<1>4. n \div 65536 = b /\ n \div 16777216 = c
  BY Nested
<1> HIDE DEF a, b, c
<1>5. n \div 256 = a
  BY DEF a
<1>6. QED
  BY <1>1, <1>2, <1>3, <1>4, <1>5, SMT

(* The same for the three bytes the parser reads.                           *)
LEMMA ThreeBytes ==
    ASSUME NEW n \in Nat
    PROVE  65536 * (n \div 65536) + 256 * ((n % 65536) \div 256) + (n % 256) = n
<1> DEFINE a == n \div 256
<1> DEFINE b == a \div 256
<1>1. a \in Nat /\ n = 256 * a + (n % 256) /\ n % 256 \in Nat
  BY Split
<1>2. b \in Nat /\ a = 256 * b + (a % 256) /\ a % 256 \in Nat
  BY <1>1, Split
<1>3. n \div 65536 = b /\ (n % 65536) \div 256 = a % 256
  BY Nested
<1> HIDE DEF a, b
<1>4. QED
  BY <1>1, <1>2, <1>3, SMT

(* The flag bits above an opcode or a length.                               *)
LEMMA FlagBits ==
    /\ \A a \in 0..15 : a % 16 = a /\ (a + 128) % 16 = a
    /\ \A a \in Nat : a < 128 => a % 128 = a /\ (a + 128) % 128 = a
<1>1. \A a \in 0..15 : a % 16 = a /\ (a + 128) % 16 = a
  BY SMT
<1>2. \A a \in Nat : a < 128 => a % 128 = a /\ (a + 128) % 128 = a
  BY SMT
<1>3. QED
  BY <1>1, <1>2

(* sendText: the three forms of the length.                                 *)
LEMMA TextFramesAreSound ==
    ASSUME NEW len \in Below(MaxText)
    PROVE  /\ encodeTextFrame(len) \in Header
           /\ Sound(encodeTextFrame(len))
           /\ encodeTextFrame(len).first # 128 + CLOSE
<1> DEFINE h == encodeTextFrame(len)
<1>1. CASE len < 126
  <2>1. h = [first |-> 129, second |-> 128 + len, extension |-> <<>>, size |-> len]
    BY <1>1, SMT DEF Below, MaxText, encodeTextFrame, MaskBitAnd, TEXT
  <2>2. QED
    BY <1>1, <2>1, SMT DEF Below, MaxText, Sound, Header, DecodedSize, ExtensionOf, Byte, TEXT, CLOSE, PONG
<1>2. CASE len >= 126 /\ len < 65536
  <2> DEFINE e == <<len \div 256, len % 256>>
  <2>1. h = [first |-> 129, second |-> 254, extension |-> e, size |-> len]
    BY <1>2, SMT DEF Below, MaxText, encodeTextFrame, MaskBitAnd, TEXT
  <2>2. /\ len \div 256 \in Byte
        /\ len % 256 \in Byte
        /\ 256 * (len \div 256) + (len % 256) = len
    <3>1. len \in Nat
      BY DEF Below
    <3>2. len \div 256 < 256
      BY <1>2, <3>1, SMT
    <3>3. QED
      BY <3>1, <3>2, Split DEF Byte, Below
  <2>3. e \in Seq(Nat) /\ Len(e) = 2 /\ \A i \in DOMAIN e : e[i] \in Byte
    BY <2>2, SMT DEF Byte, Below
  <2>4. DecodedSize(h) = len
    BY <2>1, <2>2, SMT DEF DecodedSize
  <2> HIDE DEF e
  <2>5. QED
    BY <1>2, <2>1, <2>3, <2>4, SMT DEF Below, MaxText, Sound, Header, ExtensionOf, TEXT, CLOSE, PONG
<1>3. CASE len >= 65536
  <2> DEFINE e == <<0, 0, 0, 0, len \div 16777216, (len \div 65536) % 256,
                    (len \div 256) % 256, len % 256>>
  <2>1. h = [first |-> 129, second |-> 255, extension |-> e, size |-> len]
    BY <1>3, SMT DEF Below, MaxText, encodeTextFrame, MaskBitAnd, TEXT
  <2>2. /\ len \div 16777216 \in Byte
        /\ (len \div 65536) % 256 \in Byte
        /\ (len \div 256) % 256 \in Byte
        /\ len % 256 \in Byte
    <3>1. len \in Nat /\ len \div 256 \in Nat /\ len \div 65536 \in Nat
      BY SMT DEF Below
    <3>2. len \div 16777216 \in Nat /\ len \div 16777216 < 256
      BY SMT DEF Below, MaxText
    <3>3. QED
      BY <3>1, <3>2, Split DEF Byte, Below
  <2>3. 16777216 * (len \div 16777216) + 65536 * ((len \div 65536) % 256)
            + 256 * ((len \div 256) % 256) + (len % 256) = len
    BY FourBytes DEF Below
  <2>4. e \in Seq(Nat) /\ Len(e) = 8 /\ \A i \in DOMAIN e : e[i] \in Byte
    BY <2>2, SMT DEF Byte, Below
  <2>5. DecodedSize(h) = len
    BY <2>1, <2>3, SMT DEF DecodedSize
  <2> HIDE DEF e
  <2>6. QED
    BY <1>3, <2>1, <2>4, <2>5, SMT DEF Below, MaxText, Sound, Header, ExtensionOf, TEXT, CLOSE, PONG
<1>4. QED
  BY <1>1, <1>2, <1>3, SMT DEF Below, MaxText

(* PONG and CLOSE: the cap keeps the length in its seven bits.              *)
LEMMA ControlFramesAreSound ==
    ASSUME NEW len \in Nat
    PROVE  /\ encodePongFrame(len) \in Header
           /\ Sound(encodePongFrame(len))
           /\ encodePongFrame(len).first # 128 + CLOSE
           /\ encodeCloseFrame(len) \in Header
           /\ Sound(encodeCloseFrame(len))
<1>1. ASSUME NEW opcode \in {CLOSE, PONG}, NEW size \in 0..MaxControlPayload
      PROVE  /\ ControlFrame(opcode, size) \in Header
             /\ Sound(ControlFrame(opcode, size))
             /\ ControlFrame(opcode, size).first = 128 + opcode
  BY <1>1 DEF ControlFrame, MaskBitAnd, Header, Sound, DecodedSize, ExtensionOf, Byte, Below,
              TEXT, CLOSE, PONG, MaxControlPayload
<1> DEFINE pong == IF len > MaxControlPayload THEN MaxControlPayload ELSE len
<1> DEFINE closing == 2 + IF 2 + len > MaxControlPayload THEN MaxControlPayload - 2 ELSE len
<1>2. pong \in 0..MaxControlPayload /\ closing \in 0..MaxControlPayload
  BY DEF MaxControlPayload
<1>3. encodePongFrame(len) = ControlFrame(PONG, pong)
  BY DEF encodePongFrame
<1>4. encodeCloseFrame(len) = ControlFrame(CLOSE, closing)
  BY DEF encodeCloseFrame
<1> HIDE DEF pong, closing
<1>5. PONG # CLOSE /\ PONG \in Nat /\ CLOSE \in Nat
  BY DEF PONG, CLOSE
<1>6. QED
  BY <1>1, <1>2, <1>3, <1>4, <1>5

(****************************************************************************)
(* Decoding.                                                                *)
(****************************************************************************)

(* A buffer that begins where frame n begins is read as frame n: the        *)
(* parser's reading of the two first bytes and of the extended length is    *)
(* the inverse of the encoding.                                             *)
LEMMA Decoding ==
    ASSUME NEW n \in 1..Len(Frames), consumed = Begin[n]
    PROVE  /\ Fin = Frames[n].fin
           /\ Opcode = Frames[n].opcode
           /\ PayloadOffset = HeaderLength(Frames[n])
           /\ PayloadLength = Frames[n].len
<1> DEFINE f == Frames[n]
<1>1. f \in Frame
  BY TransportAssumption
<1>2. HeaderAt(f, Begin[n])
  BY TransportAssumption
<1> HIDE DEF f
<1>3. f.fin \in BOOLEAN /\ f.opcode \in 0..15 /\ f.masked \in BOOLEAN /\ f.len \in Below(MaxFrame)
  BY <1>1 DEF Frame
<1>4. At(1) = FirstByte(f) /\ At(2) = SecondByte(f)
  BY <1>2 DEF HeaderAt, At, Stream
<1>5. Fin = f.fin /\ Opcode = f.opcode
  <2>1. CASE f.fin
    <3>1. At(1) = f.opcode + 128
      BY <1>4, <2>1 DEF FirstByte
    <3>2. f.opcode \in Nat
      BY <1>3
    <3>3. At(1) >= 128
      BY <3>1, <3>2, SMT
    <3>4. At(1) % 16 = f.opcode
      BY <1>3, <3>1, FlagBits
    <3>5. QED
      BY <1>3, <2>1, <3>3, <3>4 DEF Fin, Opcode
  <2>2. CASE ~f.fin
    <3>1. At(1) = f.opcode
      BY <1>3, <1>4, <2>2, SMT DEF FirstByte
    <3>2. ~(At(1) >= 128) /\ At(1) % 16 = f.opcode
      BY <1>3, <3>1, FlagBits
    <3>3. QED
      BY <1>3, <2>2, <3>2 DEF Fin, Opcode
  <2>3. QED
    BY <2>1, <2>2
<1>6. MaskBit = f.masked /\ ShortLength = LengthField(f.len)
  <2>1. LengthField(f.len) \in Nat /\ LengthField(f.len) < 128
    BY <1>3, SMT DEF LengthField, Below, MaxFrame
  <2>2. CASE f.masked
    <3>1. At(2) = LengthField(f.len) + 128
      BY <1>4, <2>2 DEF SecondByte
    <3>2. At(2) >= 128 /\ At(2) % 128 = LengthField(f.len)
      BY <2>1, <3>1, FlagBits
    <3>3. QED
      BY <1>3, <2>2, <3>2 DEF MaskBit, ShortLength
  <2>3. CASE ~f.masked
    <3>1. At(2) = LengthField(f.len)
      BY <1>4, <2>1, <2>3, SMT DEF SecondByte
    <3>2. ~(At(2) >= 128) /\ At(2) % 128 = LengthField(f.len)
      BY <2>1, <3>1, FlagBits
    <3>3. QED
      BY <1>3, <2>3, <3>2 DEF MaskBit, ShortLength
  <2>4. QED
    BY <2>2, <2>3
<1>7. PayloadOffset = HeaderLength(f)
  BY <1>6 DEF PayloadOffset, HeaderLength
<1>8. PayloadLength = f.len
  <2>1. CASE f.len < 126
    BY <1>3, <1>6, <2>1, SMT DEF Below, MaxFrame, PayloadLength, LengthField
  <2>2. CASE f.len >= 126 /\ f.len < 65536
    <3>1. At(3) = f.len \div 256 /\ At(4) = f.len % 256
      BY <1>2, <1>3, <2>2, SMT DEF Below, MaxFrame, HeaderAt, LengthField, At, Stream
    <3>2. 256 * At(3) + At(4) = f.len
      BY <1>3, <3>1, Split DEF Below
    <3>3. QED
      BY <1>3, <1>6, <2>2, <3>2, SMT DEF Below, MaxFrame, PayloadLength, LengthField
  <2>3. CASE f.len >= 65536
    <3>1. /\ At(8) = f.len \div 65536
          /\ At(9) = (f.len % 65536) \div 256
          /\ At(10) = f.len % 256
      BY <1>2, <1>3, <2>3, SMT DEF Below, MaxFrame, HeaderAt, LengthField, At, Stream
    <3>2. 65536 * At(8) + 256 * At(9) + At(10) = f.len
      BY <1>3, <3>1, ThreeBytes DEF Below
    <3>3. QED
      BY <1>3, <1>6, <2>3, <3>2, SMT DEF Below, MaxFrame, PayloadLength, LengthField
  <2>4. QED
    BY <1>3, <2>1, <2>2, <2>3, SMT DEF Below, MaxFrame
<1>9. QED
  BY <1>5, <1>7, <1>8 DEF f

(* The parser only finds a whole frame where the server has sent one more,  *)
(* and slicing it off leaves the buffer at the start of the next.           *)
LEMMA WholeFrame ==
    ASSUME TypeOK, Aligned, upgraded, FrameIsWhole
    PROVE  /\ parsed + 1 \in 1..Len(Frames)
           /\ Fin = Frames[parsed + 1].fin
           /\ Opcode = Frames[parsed + 1].opcode
           /\ Opcode \in 0..15
           /\ PayloadLength \in Nat
           /\ [from |-> consumed + PayloadOffset, len |-> PayloadLength]
                  = Payloads[parsed + 1]
           /\ consumed + PayloadOffset \in Nat
           /\ consumed + PayloadOffset + PayloadLength = Begin[parsed + 2]
           /\ Begin[parsed + 2] \in 0..Len(Wire)
           /\ HeadLength + Begin[parsed + 2] <= received
<1>1. HeadLength \in Nat /\ received \in Nat /\ consumed \in Nat /\ parsed \in Nat
      /\ received <= HeadLength + Len(Wire) /\ parsed <= Len(Frames)
      /\ Len(Wire) \in Nat /\ Len(Frames) \in Nat /\ consumed <= Len(Wire)
  BY TransportAssumption DEF TypeOK
<1>2. parsed # Len(Frames)
  <2>1. SUFFICES ASSUME parsed = Len(Frames) PROVE FALSE
    OBVIOUS
  <2>2. consumed = Len(Wire)
    BY <2>1, TransportAssumption DEF Aligned
  <2>3. QED
    BY <1>1, <2>2 DEF FrameIsWhole, HeaderIsWhole, Buffered
<1> DEFINE n == parsed + 1
<1> DEFINE f == Frames[n]
<1>3. n \in 1..Len(Frames)
  BY <1>1, <1>2
<1>4. consumed = Begin[n]
  BY DEF Aligned
<1>5. n = parsed + 1 /\ n + 1 = parsed + 2 /\ n \in Nat
  BY <1>1
<1> HIDE DEF n
<1>6. f \in Frame
  BY <1>3, TransportAssumption
<1>7. Begin[n + 1] = Begin[n] + HeaderLength(f) + f.len
  BY <1>3, TransportAssumption
<1>8. Fin = f.fin /\ Opcode = f.opcode /\ PayloadOffset = HeaderLength(f)
      /\ PayloadLength = f.len
  BY <1>3, <1>4, Decoding
<1>9. Payloads[n] = [from |-> Begin[n] + HeaderLength(f), len |-> f.len]
  BY <1>3 DEF Payloads
<1> HIDE DEF f
<1>10. f.opcode \in 0..15 /\ f.len \in Nat
  BY <1>6, SMT DEF Frame, Below
<1>11. HeaderLength(f) \in Nat
  BY <1>6, SMT DEF Frame, Below, HeaderLength, LengthField, ExtensionOf
<1>12. consumed + PayloadOffset + PayloadLength = Begin[n + 1]
  BY <1>4, <1>7, <1>8
<1>13. Begin[n + 1] \in Nat
  BY <1>1, <1>8, <1>10, <1>11, <1>12
<1>14. HeadLength + Begin[n + 1] <= received
  BY <1>1, <1>8, <1>10, <1>11, <1>12 DEF FrameIsWhole, Buffered
<1>15. Begin[n + 1] \in 0..Len(Wire)
  BY <1>1, <1>13, <1>14
<1>16. [from |-> consumed + PayloadOffset, len |-> PayloadLength] = Payloads[n]
  BY <1>4, <1>8, <1>9
<1>17. consumed + PayloadOffset \in Nat
  BY <1>1, <1>8, <1>11
<1>18. QED
  BY <1>3, <1>5, <1>8, <1>10, <1>12, <1>14, <1>15, <1>16, <1>17 DEF f

(****************************************************************************)
(* The invariant.                                                           *)
(****************************************************************************)

(* Appending keeps the type of a sequence.                                  *)
LEMMA AppendInSeq ==
    ASSUME NEW S, NEW s \in Seq(S), NEW e \in S PROVE Append(s, e) \in Seq(S)
  OBVIOUS

(* Writing a sound frame keeps the frames sound, if a CLOSE also ends the   *)
(* socket.                                                                  *)
LEMMA WritesAreSound ==
    ASSUME written \in Seq(Header), sock \in Socks, Writing,
           NEW h, h \in Header, Sound(h), Write(h),
           \/ sock' = AfterWrite /\ h.first # 128 + CLOSE
           \/ sock' = AfterEnd(AfterWrite)
    PROVE  /\ written' \in Seq(Header)
           /\ sock' \in Socks
           /\ Writing'
           /\ sock \in Alive \/ sock' = sock
           /\ sock' # "connecting" \/ sock' = sock
           /\ sock \in {"broken", "destroyed", "closed"} => sock' = sock
<1>1. /\ sock' \in Socks
      /\ sock \in Alive \/ sock' = sock
      /\ sock' # "connecting" \/ sock' = sock
      /\ sock \in {"broken", "destroyed", "closed"} => sock' = sock
      /\ sock \notin {"connecting", "open"} => sock' \notin {"connecting", "open"}
  BY DEF Socks, Alive, AfterWrite, AfterEnd
<1>2. CASE sock # "open"
  <2>1. written' = written
    BY <1>2 DEF Write
  <2>2. Writing'
    BY <1>1, <2>1 DEF Writing, Sound, DecodedSize
  <2>3. QED
    BY <1>1, <2>1, <2>2
<1>3. CASE sock = "open"
  <2>1. written' = Append(written, h)
    BY <1>3 DEF Write
  <2>2. written' \in Seq(Header) /\ Len(written') = Len(written) + 1
    BY <2>1
  <2>3. h.first = 128 + CLOSE => sock' = "ended"
    BY <1>3 DEF AfterWrite, AfterEnd
  <2>4. Writing'
    <3>1. SUFFICES ASSUME NEW k \in DOMAIN written'
                   PROVE  /\ Sound(written'[k])
                          /\ written'[k].first = 128 + CLOSE =>
                                 k = Len(written') /\ sock' \notin {"connecting", "open"}
      BY DEF Writing, Sound, DecodedSize
    <3>2. CASE k = Len(written) + 1
      <4>1. written'[k] = h
        BY <2>1, <3>2
      <4>2. QED
        BY <2>2, <2>3, <3>2, <4>1
    <3>3. CASE k # Len(written) + 1
      <4>1. k \in DOMAIN written /\ written'[k] = written[k]
        BY <2>1, <2>2, <3>3
      <4>2. QED
        BY <1>3, <4>1 DEF Writing
    <3>4. QED
      BY <3>2, <3>3
  <2>5. QED
    BY <1>1, <2>2, <2>4
<1>4. QED
  BY <1>2, <1>3

(* The invariant holds when connectWebSocket is called.                     *)
LEMMA InitInvariant == Init => IInv
<1> SUFFICES ASSUME Init PROVE IInv
  OBVIOUS
<1> USE DEF Init
<1>1. Len(Wire) \in Nat /\ Len(Frames) \in Nat /\ HeadLength \in Nat /\ Begin[1] = 0
  BY TransportAssumption
<1>2. TypeOK
  <2>1. received \in 0..HeadLength + Len(Wire) /\ consumed \in 0..Len(Wire)
        /\ parsed \in 0..Len(Frames)
    BY <1>1
  <2>2. inbox \in Seq([from : Nat, len : Nat]) /\ written \in Seq(Header)
    OBVIOUS
  <2>3. QED
    BY <2>1, <2>2 DEF TypeOK, Socks
<1>3. Aligned
  BY <1>1 DEF Aligned
<1>4. Phase
  BY DEF Phase
<1>5. Writing
  BY DEF Writing
<1>6. QED
  BY <1>2, <1>3, <1>4, <1>5 DEF IInv

(* An event of the socket or the timer.                                     *)
LEMMA SocketInvariant == IInv /\ SocketEvent => IInv'
<1> SUFFICES ASSUME IInv, SocketEvent PROVE IInv'
  OBVIOUS
<1> USE DEF IInv
<1>1. UNCHANGED <<response, upgraded, received, consumed, corrupted, parsed, inbox, loop,
                  written, sends>>
  BY DEF SocketEvent, Connect, SocketFails, PeerEnds, HandshakeExpires, EmitError, EmitClose,
         Emit, parser
<1>2. /\ sock' \in Socks
      /\ promise' \in {"pending", "resolved", "rejected"}
      /\ timer' \in BOOLEAN
      /\ reported' \in SUBSET {"error", "close"}
      /\ sock \notin {"connecting", "open"} => sock' \notin {"connecting", "open"}
      /\ promise' = "rejected" => sock' \in {"broken", "destroyed", "closed"}
      /\ promise' # promise => promise' = "rejected" /\ ~upgraded
      /\ timer' => timer
  <2> USE DEF TypeOK, Socks, Phase, Alive
  <2>1. CASE Connect
    BY <2>1 DEF Connect
  <2>2. CASE SocketFails
    BY <2>2 DEF SocketFails
  <2>3. CASE PeerEnds
    BY <2>3 DEF PeerEnds
  <2>4. CASE HandshakeExpires
    BY <2>4 DEF HandshakeExpires, AfterDestroy, Settled
  <2>5. CASE EmitError
    BY <2>5 DEF EmitError, Emit, Settled
  <2>6. CASE EmitClose
    BY <2>6 DEF EmitClose, Emit, Settled
  <2>7. QED
    BY <2>1, <2>2, <2>3, <2>4, <2>5, <2>6 DEF SocketEvent
<1>3. TypeOK'
  BY <1>1, <1>2 DEF TypeOK
<1>4. Aligned'
  BY <1>1 DEF Aligned
<1>5. Phase'
  BY <1>1, <1>2 DEF Phase, TypeOK, validateUpgradeResponse
<1>6. Writing'
  BY <1>1, <1>2 DEF Writing, Sound, DecodedSize
<1>7. QED
  BY <1>3, <1>4, <1>5, <1>6

(* A chunk of the server's bytes, cut anywhere.                             *)
LEMMA DataInvariant ==
    ASSUME IInv, NEW n \in Cuts, DataEvent(n) PROVE IInv'
<1> USE DEF IInv
<1>1. /\ UNCHANGED <<response, consumed, corrupted, parsed, inbox, reported, written, sends>>
      /\ received' = n
      /\ received < n
      /\ loop = "idle"
      /\ sock \in Alive
  BY DEF DataEvent, ReceiveHead, CompleteUpgrade, RefuseUpgrade, ReceiveFrames, Receives, parser
<1>2. n \in 1..HeadLength + Len(Wire) /\ HeadLength \in Nat /\ Len(Wire) \in Nat
  BY TransportAssumption
<1>3. received \in Nat /\ consumed \in Nat
  BY <1>2 DEF TypeOK
<1>4. /\ sock' \in Socks
      /\ upgraded' \in BOOLEAN
      /\ promise' \in {"pending", "resolved", "rejected"}
      /\ timer' \in BOOLEAN
      /\ loop' \in {"idle", "tail", "data"}
      /\ sock' = "connecting" => FALSE
      /\ sock' = sock \/ sock' = "destroyed"
      /\ upgraded => upgraded'
      /\ upgraded' => HeadLength <= n
  <2> USE <1>1, <1>2, <1>3 DEF TypeOK, Socks, Alive
  <2>1. CASE ReceiveHead(n)
    BY <2>1 DEF ReceiveHead
  <2>2. CASE CompleteUpgrade(n)
    BY <2>2 DEF CompleteUpgrade
  <2>3. CASE RefuseUpgrade(n)
    BY <2>3 DEF RefuseUpgrade, AfterDestroy, Settled
  <2>4. CASE ReceiveFrames(n)
    BY <2>4 DEF ReceiveFrames, Phase
  <2>5. QED
    BY <2>1, <2>2, <2>3, <2>4 DEF DataEvent
<1>5. TypeOK'
  BY <1>1, <1>2, <1>4 DEF TypeOK
<1>6. Aligned'
  <2>1. HeadLength + consumed <= n \/ (consumed = 0 /\ ~upgraded')
    BY <1>1, <1>2, <1>3, <1>4 DEF Aligned
  <2>2. QED
    BY <1>1, <2>1 DEF Aligned
<1>7. Phase'
  <2> USE <1>1 DEF Phase, Alive, TypeOK
  <2>1. CASE ReceiveHead(n)
    BY <2>1 DEF ReceiveHead, validateUpgradeResponse
  <2>2. CASE CompleteUpgrade(n)
    BY <2>2 DEF CompleteUpgrade, validateUpgradeResponse
  <2>3. CASE RefuseUpgrade(n)
    BY <2>3 DEF RefuseUpgrade, validateUpgradeResponse, AfterDestroy, Settled
  <2>4. CASE ReceiveFrames(n)
    BY <1>2, <1>3, <2>4 DEF ReceiveFrames, validateUpgradeResponse
  <2>5. QED
    BY <2>1, <2>2, <2>3, <2>4 DEF DataEvent
<1>8. Writing'
  BY <1>1, <1>4 DEF Writing, Sound, DecodedSize, Alive
<1>9. QED
  BY <1>5, <1>6, <1>7, <1>8

(* A step of the parser's loop.                                             *)
LEMMA ParserInvariant == IInv /\ ParserStep => IInv'
<1> SUFFICES ASSUME IInv, ParserStep PROVE IInv'
  OBVIOUS
<1> USE DEF IInv
<1>1. upgraded /\ loop # "idle"
  BY DEF ParserStep, ParseText, ParsePing, ParseClose, ParseOther, ParseFragment, ParserReturns,
         Emits, Phase, TypeOK
<1>2. UNCHANGED <<response, upgraded, timer, received, sends>>
  BY DEF ParserStep, ParseText, ParsePing, ParseClose, ParseOther, ParseFragment, ParserReturns,
         Emits, parser
<1>3. /\ written' \in Seq(Header)
      /\ sock' \in Socks
      /\ Writing'
      /\ sock \in {"broken", "destroyed", "closed"} => sock' \in {"broken", "destroyed", "closed"}
  <2>1. CASE ParsePing
    <3>1. encodePongFrame(PayloadLength) \in Header /\ Sound(encodePongFrame(PayloadLength))
          /\ encodePongFrame(PayloadLength).first # 128 + CLOSE
      BY <1>1, <2>1, WholeFrame, ControlFramesAreSound DEF ParsePing, Emits
    <3>2. QED
      BY <2>1, <3>1, WritesAreSound DEF ParsePing, TypeOK
  <2>2. CASE ParseClose
    <3>1. encodeCloseFrame(0) \in Header /\ Sound(encodeCloseFrame(0))
      BY ControlFramesAreSound
    <3>2. QED
      BY <2>2, <3>1, WritesAreSound DEF ParseClose, TypeOK
  <2>3. CASE ParseFragment
    BY <2>3 DEF ParseFragment, TypeOK, Socks, Alive, AfterDestroy, Writing, Sound, DecodedSize
  <2>4. CASE ParseText \/ ParseOther \/ ParserReturns
    <3>1. UNCHANGED <<written, sock>>
      BY <2>4 DEF ParseText, ParseOther, ParserReturns
    <3>2. QED
      BY <3>1 DEF TypeOK, Writing, Sound, DecodedSize
  <2>5. QED
    BY <2>1, <2>2, <2>3, <2>4 DEF ParserStep
<1>4. CASE Emits
  <2>1. /\ consumed' = Begin[parsed + 2]
        /\ parsed' = parsed + 1
        /\ consumed' \in 0..Len(Wire)
        /\ parsed' \in 1..Len(Frames)
        /\ HeadLength + consumed' <= received
        /\ UNCHANGED <<promise, loop, corrupted, reported>>
    BY <1>1, <1>4, WholeFrame DEF Emits
  <2>2. parsed \in Nat /\ parsed' + 1 = parsed + 2
    BY <2>1 DEF TypeOK
  <2>3. inbox' \in Seq([from : Nat, len : Nat])
    <3>1. CASE ParseText
      <4> DEFINE m == [from |-> consumed + PayloadOffset, len |-> PayloadLength]
      <4>1. consumed + PayloadOffset \in Nat /\ PayloadLength \in Nat
        BY <1>1, <1>4, WholeFrame DEF Emits
      <4>2. m \in [from : Nat, len : Nat]
        BY <4>1
      <4>3. inbox' = Append(inbox, m) \/ inbox' = inbox
        BY <3>1 DEF ParseText
      <4>4. inbox \in Seq([from : Nat, len : Nat])
        BY DEF TypeOK
      <4> HIDE DEF m
      <4>5. QED
        BY <4>2, <4>3, <4>4, AppendInSeq
    <3>2. CASE ~ParseText
      BY <1>4, <3>2 DEF ParserStep, ParsePing, ParseClose, ParseOther, ParseFragment, ParserReturns,
         Emits, TypeOK
    <3>3. QED
      BY <3>1, <3>2
  <2>4. TypeOK'
    BY <1>2, <1>3, <2>1, <2>3 DEF TypeOK
  <2>5. Aligned'
    BY <1>2, <2>1, <2>2 DEF Aligned
  <2>6. Phase'
    BY <1>1, <1>2, <1>3, <2>1 DEF Phase, validateUpgradeResponse
  <2>7. QED
    BY <1>3, <2>4, <2>5, <2>6
<1>5. CASE ParseFragment
  <2>1. TypeOK'
    BY <1>2, <1>3, <1>5 DEF ParseFragment, TypeOK
  <2>2. Aligned'
    BY <1>2, <1>5 DEF ParseFragment, Aligned
  <2>3. Phase'
    BY <1>1, <1>2, <1>3, <1>5 DEF ParseFragment, Phase, validateUpgradeResponse
  <2>4. QED
    BY <1>3, <2>1, <2>2, <2>3
<1>6. CASE ParserReturns
  <2>1. TypeOK'
    BY <1>2, <1>3, <1>6 DEF ParserReturns, parser, TypeOK, Settled
  <2>2. Aligned'
    BY <1>2, <1>6 DEF ParserReturns, parser, Aligned
  <2>3. Phase'
    BY <1>1, <1>2, <1>3, <1>6 DEF ParserReturns, parser, Phase, validateUpgradeResponse, Settled,
       TypeOK
  <2>4. QED
    BY <1>3, <2>1, <2>2, <2>3
<1>7. QED
  BY <1>4, <1>5, <1>6 DEF ParserStep, ParseText, ParsePing, ParseClose, ParseOther

(* A call of sendText or close.                                             *)
LEMMA CallInvariant ==
    ASSUME IInv, NEW len \in SendLengths, sendText(len) \/ close(len) PROVE IInv'
<1> USE DEF IInv
<1>1. len \in Nat /\ len \in Below(MaxText)
  BY TransportAssumption DEF Below
<1>2. Uses
  BY DEF sendText, close
<1>3. UNCHANGED <<response, upgraded, promise, timer, received, loop, consumed, corrupted,
                  parsed, inbox, reported>> /\ promise = "resolved" /\ sends' = sends + 1
  BY <1>2 DEF Uses, parser
<1>4. written' \in Seq(Header) /\ sock' \in Socks /\ Writing'
  <2>1. CASE sendText(len)
    <3>1. encodeTextFrame(len) \in Header /\ Sound(encodeTextFrame(len))
          /\ encodeTextFrame(len).first # 128 + CLOSE
      BY <1>1, TextFramesAreSound
    <3>2. QED
      BY <2>1, <3>1, WritesAreSound DEF sendText, TypeOK
  <2>2. CASE close(len)
    <3>1. encodeCloseFrame(len) \in Header /\ Sound(encodeCloseFrame(len))
      BY <1>1, ControlFramesAreSound
    <3>2. QED
      BY <2>2, <3>1, WritesAreSound DEF close, TypeOK
  <2>3. QED
    BY <2>1, <2>2
<1>5. TypeOK'
  BY <1>3, <1>4 DEF TypeOK
<1>6. Aligned'
  BY <1>3 DEF Aligned
<1>7. Phase'
  BY <1>3 DEF Phase, validateUpgradeResponse
<1>8. QED
  BY <1>4, <1>5, <1>6, <1>7

(* Every step keeps the invariant.                                          *)
LEMMA StepInvariant == IInv /\ [Next]_vars => IInv'
<1> SUFFICES ASSUME IInv, [Next]_vars PROVE IInv'
  OBVIOUS
<1>1. CASE SocketEvent
  BY <1>1, SocketInvariant
<1>2. CASE \E n \in Cuts : DataEvent(n)
  BY <1>2, DataInvariant
<1>3. CASE ParserStep
  BY <1>3, ParserInvariant
<1>4. CASE \E len \in SendLengths : sendText(len) \/ close(len)
  BY <1>4, CallInvariant
<1>5. CASE UNCHANGED vars
  BY <1>5 DEF vars, IInv, TypeOK, Aligned, Phase, Writing, Sound, DecodedSize,
              validateUpgradeResponse
<1>6. QED
  BY <1>1, <1>2, <1>3, <1>4, <1>5 DEF Next

(* IInv is an invariant.                                                    *)
LEMMA Invariant == Spec => []IInv
<1>1. Init => IInv
  BY InitInvariant
<1>2. IInv /\ [Next]_vars => IInv'
  BY StepInvariant
<1>3. QED
  BY <1>1, <1>2, PTL DEF Spec

(****************************************************************************)
(* What follows from it.                                                    *)
(****************************************************************************)

(* The transport keeps its types: no frame is read beyond the stream.       *)
THEOREM TypeCorrect == Spec => []TypeOK
<1>1. IInv => TypeOK
  BY DEF IInv
<1>2. QED
  BY <1>1, Invariant, PTL

(* encodeTextFrame, encodePongFrame and encodeCloseFrame, with the writes   *)
(* after end(): the server can decode whatever reaches the wire, for every  *)
(* length of a text, a ping or a reason.                                    *)
THEOREM FramesAreSound == Spec => []WrittenFramesAreSound
<1>1. IInv => WrittenFramesAreSound
  BY DEF IInv, Writing, Sound, WrittenFramesAreSound
<1>2. QED
  BY <1>1, Invariant, PTL

(* connectWebSocket: no open socket is left behind a rejection, and nobody  *)
(* is given a connection that was not upgraded.                             *)
THEOREM PromisesSettleSoundly == Spec => []SettledSoundly
<1>1. IInv => SettledSoundly
  BY DEF IInv, Phase, SettledSoundly
<1>2. QED
  BY <1>1, Invariant, PTL

(* createFrameParser implements the frame-level channel: for every stream   *)
(* and every way to cut it, the server's frames are found one by one, in    *)
(* order, at their bytes.                                                   *)
THEOREM TransportImplementsChannel == Spec => ImplementsChannel
<1>1. Init => Channel!Init
  BY DEF Init, Channel!Init
<1>2. IInv /\ [Next]_vars => [Channel!Next]_(Channel!vars)
  <2> SUFFICES ASSUME IInv, [Next]_vars PROVE [Channel!Next]_(Channel!vars)
    OBVIOUS
  <2> USE DEF IInv
  <2>1. CASE UNCHANGED <<parsed, promise, inbox, corrupted>>
    BY <2>1 DEF Channel!vars
  <2>2. CASE SocketEvent
    <3>1. /\ UNCHANGED <<parsed, inbox, corrupted>>
          /\ promise' # promise => promise' # "resolved" /\ promise # "resolved"
      BY <2>2 DEF SocketEvent, Connect, SocketFails, PeerEnds, HandshakeExpires, EmitError,
                  EmitClose, Emit, parser, Settled, Phase, TypeOK
    <3>2. (promise' = "resolved") <=> (promise = "resolved")
      BY <3>1
    <3>3. QED
      BY <3>1, <3>2 DEF Channel!vars
  <2>3. ASSUME NEW n \in Cuts, DataEvent(n) PROVE [Channel!Next]_(Channel!vars)
    <3>1. /\ UNCHANGED <<parsed, inbox, corrupted>>
          /\ promise' # promise => promise' # "resolved" /\ promise # "resolved"
      BY <2>3 DEF DataEvent, ReceiveHead, CompleteUpgrade, RefuseUpgrade, ReceiveFrames,
                  Receives, parser, Settled, Phase, TypeOK
    <3>2. (promise' = "resolved") <=> (promise = "resolved")
      BY <3>1
    <3>3. QED
      BY <3>1, <3>2 DEF Channel!vars
  <2>4. CASE Emits /\ ParserStep
    <3>1. /\ parsed + 1 \in 1..FrameCount
          /\ Fin = Frames[parsed + 1].fin
          /\ Opcode = Frames[parsed + 1].opcode
          /\ [from |-> consumed + PayloadOffset, len |-> PayloadLength] = Payloads[parsed + 1]
          /\ upgraded /\ loop \in {"tail", "data"}
          /\ loop = "data" <=> promise = "resolved"
      BY <2>4, WholeFrame DEF Emits, Phase, TypeOK, FrameCount
    <3>2. parsed + 1 \notin Fragments
      BY <2>4, <3>1 DEF Emits, IsFragment, Fragments
    <3>3. inbox' = IF promise = "resolved" /\ parsed + 1 \in TextFrames
                   THEN Append(inbox, Payloads[parsed + 1]) ELSE inbox
      <4>1. CASE ParseText
        BY <3>1, <4>1 DEF ParseText, TextFrames, FrameCount
      <4>2. CASE ~ParseText
        <5>1. inbox' = inbox /\ Opcode # TEXT
          BY <2>4, <4>2 DEF ParserStep, ParsePing, ParseClose, ParseOther, ParseFragment,
             ParserReturns, Emits, TEXT, PING, CLOSE
        <5>2. QED
          BY <3>1, <5>1 DEF TextFrames
      <4>3. QED
        BY <4>1, <4>2
    <3>4. parsed < FrameCount
      BY <3>1, TransportAssumption DEF FrameCount, TypeOK
    <3>5. Channel!Take
      BY <2>4, <3>2, <3>3, <3>4 DEF Emits, Channel!Take
    <3>6. QED
      BY <3>5 DEF Channel!Next
  <2>5. CASE ParseFragment
    <3>1. /\ parsed + 1 \in 1..FrameCount
          /\ Fin = Frames[parsed + 1].fin
          /\ Opcode = Frames[parsed + 1].opcode
      BY <2>5, WholeFrame DEF ParseFragment, Phase, FrameCount
    <3>2. parsed + 1 \in Fragments
      BY <2>5, <3>1 DEF ParseFragment, IsFragment, Fragments, FrameCount
    <3>3. parsed < FrameCount
      BY <3>1, TransportAssumption DEF FrameCount, TypeOK
    <3>4. Channel!Break
      BY <2>5, <3>2, <3>3 DEF ParseFragment, Channel!Break
    <3>5. QED
      BY <3>4 DEF Channel!Next
  <2>6. CASE ParserReturns
    <3>1. /\ UNCHANGED <<parsed, inbox, corrupted>>
          /\ promise' # promise => promise' = "resolved" /\ promise # "resolved"
      BY <2>6 DEF ParserReturns, parser, Settled
    <3>2. CASE promise' = promise
      BY <3>1, <3>2 DEF Channel!vars
    <3>3. CASE promise' # promise
      <4>1. ~(promise = "resolved") /\ promise' = "resolved"
        BY <3>1, <3>3
      <4>2. Channel!Listen
        BY <3>1, <4>1 DEF Channel!Listen
      <4>3. QED
        BY <4>2 DEF Channel!Next
    <3>4. QED
      BY <3>2, <3>3
  <2>7. ASSUME NEW len \in SendLengths, sendText(len) \/ close(len)
        PROVE [Channel!Next]_(Channel!vars)
    BY <2>7 DEF sendText, close, Uses, parser, Channel!vars
  <2>8. QED
    BY <2>1, <2>2, <2>3, <2>4, <2>5, <2>6, <2>7
       DEF Next, vars, ParserStep, ParseText, ParsePing, ParseClose, ParseOther
<1>3. QED
  BY <1>1, <1>2, Invariant, PTL DEF Spec, ImplementsChannel, Channel!Spec

=============================================================================
