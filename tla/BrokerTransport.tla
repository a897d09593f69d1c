---------------------------- MODULE BrokerTransport ----------------------------
(****************************************************************************)
(* The hand-rolled websocket client of the broker                           *)
(* (scripts/lib/broker-transport.mjs): connectWebSocket, createFrameParser  *)
(* and the encoders.  The server's bytes arrive in chunks that are cut      *)
(* anywhere: inside the head of the upgrade response, inside the header of  *)
(* a frame, or after several frames at once.                                *)
(*                                                                          *)
(* A "data" event is one task of the event loop.  The parser's loop is      *)
(* taken frame by frame, with nothing else enabled until it returns.        *)
(* Bytes are positions of the server's stream: the parser's buffer is what  *)
(* has been received and not consumed, and a payload is a range of it.      *)
(****************************************************************************)
EXTENDS Integers, Sequences

CONSTANTS
    Frames,       \* the frames the server sends after its upgrade response
    Begin,        \* how many bytes of Wire come before each of them
    Wire,         \* their bytes
    HeadLength,   \* bytes of the upgrade response, up to its empty line
    Cuts,         \* where the network may cut the stream
    SendLengths,  \* byte lengths of the texts and close reasons to send
    SendBound     \* bound on the calls of sendText and close

TEXT == 1
CLOSE == 8
PING == 9
PONG == 10
MaxControlPayload == 125

Below(bound) == {n \in Nat : n < bound}
Byte == Below(256)

(* What the server sends in a frame, and the client in a text, is shorter.  *)
MaxFrame == 16777216
MaxText == 2147483647

Frame == [fin : BOOLEAN, opcode : 0..15, masked : BOOLEAN, len : Below(MaxFrame)]

(* RFC 6455: the length field of a frame, and the bytes that extend it.     *)
LengthField(len) == IF len < 126 THEN len ELSE IF len < 65536 THEN 126 ELSE 127
ExtensionOf(field) == IF field = 126 THEN 2 ELSE IF field = 127 THEN 8 ELSE 0
HeaderLength(f) == 2 + ExtensionOf(LengthField(f.len)) + IF f.masked THEN 4 ELSE 0

FirstByte(f) == f.opcode + IF f.fin THEN 128 ELSE 0
SecondByte(f) == LengthField(f.len) + IF f.masked THEN 128 ELSE 0

(* The bytes of Wire from b on are the header of f.                         *)
HeaderAt(f, b) ==
    /\ Wire[b + 1] = FirstByte(f)
    /\ Wire[b + 2] = SecondByte(f)
    /\ LengthField(f.len) = 126 =>
           Wire[b + 3] = f.len \div 256 /\ Wire[b + 4] = f.len % 256
    /\ LengthField(f.len) = 127 =>
           /\ \A i \in 3..7 : Wire[b + i] = 0
           /\ Wire[b + 8] = f.len \div 65536
           /\ Wire[b + 9] = (f.len % 65536) \div 256
           /\ Wire[b + 10] = f.len % 256

ASSUME TransportAssumption ==
    /\ Frames \in Seq(Frame)
    /\ Begin \in [1..Len(Frames) + 1 -> Nat]
    /\ Begin[1] = 0
    /\ Wire \in Seq(Byte)
    /\ Len(Wire) = Begin[Len(Frames) + 1]
    /\ \A n \in 1..Len(Frames) :
           /\ HeaderAt(Frames[n], Begin[n])
           /\ Begin[n + 1] = Begin[n] + HeaderLength(Frames[n]) + Frames[n].len
    /\ HeadLength \in Nat \ {0}
    /\ Cuts \in SUBSET (1..HeadLength + Len(Wire))
    /\ SendLengths \in SUBSET Below(MaxText)
    /\ SendBound \in Nat

(* What the bytes stand for.                                                *)
Stream == Wire
Payloads == [n \in 1..Len(Frames) |->
                [from |-> Begin[n] + HeaderLength(Frames[n]), len |-> Frames[n].len]]
TextFrames == {n \in 1..Len(Frames) : Frames[n].opcode = TEXT}
Fragments == {n \in 1..Len(Frames) : ~Frames[n].fin /\ Frames[n].opcode # 0}
FrameCount == Len(Frames)

VARIABLES
    response,   \* what the server answers to the upgrade request
    sock,       \* the socket
    upgraded,   \* the flag of connectWebSocket
    promise,    \* what connectWebSocket returned
    timer,      \* the handshake timer runs
    received,   \* bytes received
    consumed,   \* bytes of Wire the parser has sliced off its buffer
    corrupted,  \* the flag of the parser
    loop,       \* why the parser's loop runs, or "idle"
    parsed,     \* how many frames it has emitted
    inbox,      \* the payloads given to the "message" listeners
    reported,   \* the events given to the "error" and "close" listeners
    written,    \* the headers and payload sizes of the frames written
    sends       \* calls of sendText and close

parser == <<consumed, corrupted, parsed, inbox>>
vars == <<response, sock, upgraded, promise, timer, received, consumed, corrupted, loop,
          parsed, inbox, reported, written, sends>>

(* Status line and Sec-WebSocket-Accept of the response.                    *)
Responses == [status : {101, 400}, accept : {"derived", "other", "missing"}]
Alive == {"open", "ended"}
Socks == {"connecting"} \cup Alive \cup {"broken", "destroyed", "closed"}
Header == [first : Nat, second : Nat, extension : Seq(Nat), size : Nat]

TypeOK ==
    /\ response \in Responses
    /\ sock \in Socks
    /\ upgraded \in BOOLEAN
    /\ promise \in {"pending", "resolved", "rejected"}
    /\ timer \in BOOLEAN
    /\ received \in 0..HeadLength + Len(Wire)
    /\ consumed \in 0..Len(Wire)
    /\ corrupted \in BOOLEAN
    /\ loop \in {"idle", "tail", "data"}
    /\ parsed \in 0..Len(Frames)
    /\ inbox \in Seq([from : Nat, len : Nat])
    /\ reported \in SUBSET {"error", "close"}
    /\ written \in Seq(Header)
    /\ sends \in Nat

Init ==
    /\ response \in Responses
    /\ sock = "connecting"
    /\ upgraded = FALSE
    /\ promise = "pending"
    /\ timer = TRUE
    /\ received = 0
    /\ consumed = 0
    /\ corrupted = FALSE
    /\ loop = "idle"
    /\ parsed = 0
    /\ inbox = <<>>
    /\ reported = {}
    /\ written = <<>>
    /\ sends = 0


(****************************************************************************)
(* The encoders.  Every client frame is masked and unfragmented, so a       *)
(* header is its two first bytes and the extended length.  0x80 | n keeps   *)
(* the low seven bits of n.                                                 *)
(****************************************************************************)
MaskBitAnd(n) == 128 + (n % 128)

encodeTextFrame(len) ==
    LET first == 128 + TEXT IN
    IF len < 126
    THEN [first |-> first, second |-> MaskBitAnd(len), extension |-> <<>>, size |-> len]
    ELSE IF len < 65536
    THEN [first |-> first, second |-> MaskBitAnd(126), size |-> len,
          extension |-> <<len \div 256, len % 256>>]
    ELSE [first |-> first, second |-> MaskBitAnd(127), size |-> len,
          extension |-> <<0, 0, 0, 0, len \div 16777216, (len \div 65536) % 256,
                          (len \div 256) % 256, len % 256>>]

ControlFrame(opcode, len) ==
    [first |-> 128 + opcode, second |-> MaskBitAnd(len), extension |-> <<>>, size |-> len]

UncappedPong(len) == ControlFrame(PONG, len)

encodePongFrame(len) ==
    ControlFrame(PONG, IF len > MaxControlPayload THEN MaxControlPayload ELSE len)

encodeCloseFrame(reason) ==
    ControlFrame(CLOSE, 2 + IF 2 + reason > MaxControlPayload
                            THEN MaxControlPayload - 2 ELSE reason)

(****************************************************************************)
(* The socket.  A write after end() is an error of the stream, which        *)
(* destroys it and is reported later; a write to a destroyed socket is      *)
(* dropped.  "broken" is a socket whose "error" event is still to come,     *)
(* "destroyed" one whose "close" event is.                                  *)
(****************************************************************************)
AfterWrite == IF sock = "ended" THEN "broken" ELSE sock
AfterEnd(s) == IF s = "open" THEN "ended" ELSE s
AfterDestroy == IF sock \in {"connecting"} \cup Alive THEN "destroyed" ELSE sock
Write(header) == written' = IF sock = "open" THEN Append(written, header) ELSE written

Settled(outcome) == IF promise = "pending" THEN outcome ELSE promise

Connect ==
    /\ sock = "connecting"
    /\ sock' = "open"
    /\ UNCHANGED <<response, upgraded, promise, timer, received, loop, parser, reported,
                   written, sends>>

(* ECONNREFUSED, ECONNRESET, EPIPE.                                         *)
SocketFails ==
    /\ loop = "idle"
    /\ sock \in {"connecting"} \cup Alive
    /\ sock' = "broken"
    /\ UNCHANGED <<response, upgraded, promise, timer, received, loop, parser, reported,
                   written, sends>>

(* The server ends its side, and allowHalfOpen is off.                      *)
PeerEnds ==
    /\ loop = "idle"
    /\ sock \in Alive
    /\ sock' = "destroyed"
    /\ UNCHANGED <<response, upgraded, promise, timer, received, loop, parser, reported,
                   written, sends>>

TimeoutKeepsSocket ==
    /\ loop = "idle"
    /\ timer
    /\ timer' = FALSE
    /\ promise' = IF upgraded THEN promise ELSE Settled("rejected")
    /\ UNCHANGED <<response, sock, upgraded, received, loop, parser, reported, written,
                   sends>>

HandshakeExpires ==
    /\ loop = "idle"
    /\ timer
    /\ timer' = FALSE
    /\ IF upgraded
       THEN UNCHANGED <<sock, promise>>
       ELSE sock' = AfterDestroy /\ promise' = Settled("rejected")
    /\ UNCHANGED <<response, upgraded, received, loop, parser, reported, written, sends>>

(* The listeners of the socket's "error" and "close" events.                *)
Emit(event) ==
    /\ IF upgraded
       THEN reported' = reported \cup {event} /\ UNCHANGED promise
       ELSE promise' = Settled("rejected") /\ UNCHANGED reported
    /\ UNCHANGED <<response, upgraded, received, loop, parser, written, sends>>

EmitError ==
    /\ loop = "idle"
    /\ sock = "broken"
    /\ sock' = "destroyed"
    /\ timer' = (timer /\ upgraded)
    /\ Emit("error")

CloseOnlyReports ==
    /\ loop = "idle"
    /\ sock = "destroyed"
    /\ sock' = "closed"
    /\ timer' = FALSE
    /\ reported' = IF upgraded THEN reported \cup {"close"} ELSE reported
    /\ UNCHANGED <<response, upgraded, promise, received, loop, parser, written, sends>>

EmitClose ==
    /\ loop = "idle"
    /\ sock = "destroyed"
    /\ sock' = "closed"
    /\ timer' = FALSE
    /\ Emit("close")

validateUpgradeResponse == response.status = 101 /\ response.accept = "derived"

(* The bytes up to n arrive in one "data" event.                            *)
Receives(n) ==
    /\ loop = "idle"
    /\ sock \in Alive
    /\ n > received
    /\ received' = n
    /\ UNCHANGED <<response, parser, reported, written, sends>>

ReceiveHead(n) ==
    /\ ~upgraded
    /\ n < HeadLength
    /\ Receives(n)
    /\ UNCHANGED <<sock, upgraded, promise, timer, loop>>

(* The bytes after the head are fed to the parser before the promise is     *)
(* resolved, so before its caller can register a listener.                  *)
CompleteUpgrade(n) ==
    /\ ~upgraded
    /\ n >= HeadLength
    /\ validateUpgradeResponse
    /\ Receives(n)
    /\ upgraded' = TRUE
    /\ timer' = FALSE
    /\ loop' = "tail"
    /\ UNCHANGED <<sock, promise>>

RefuseUpgrade(n) ==
    /\ ~upgraded
    /\ n >= HeadLength
    /\ ~validateUpgradeResponse
    /\ Receives(n)
    /\ sock' = AfterDestroy
    /\ timer' = FALSE
    /\ promise' = Settled("rejected")
    /\ UNCHANGED <<upgraded, loop>>

ReceiveFrames(n) ==
    /\ upgraded
    /\ Receives(n)
    /\ loop' = "data"
    /\ UNCHANGED <<sock, upgraded, promise, timer>>

(****************************************************************************)
(* The parser, on a buffer that begins with byte consumed + 1 of Wire.      *)
(* Lengths stay below 2^24, so that three bytes of the 64-bit length count. *)
(****************************************************************************)
Buffered == received - HeadLength - consumed
At(i) == Stream[consumed + i]

Fin == At(1) >= 128
Opcode == At(1) % 16
MaskBit == At(2) >= 128
ShortLength == At(2) % 128

HeaderIsWhole ==
    /\ Buffered >= 2
    /\ Buffered >= 2 + ExtensionOf(ShortLength)

OffsetWithoutMask == 2 + ExtensionOf(ShortLength)
PayloadOffset == 2 + ExtensionOf(ShortLength) + IF MaskBit THEN 4 ELSE 0
PayloadLength ==
    IF ShortLength = 126 THEN 256 * At(3) + At(4)
    ELSE IF ShortLength = 127 THEN 65536 * At(8) + 256 * At(9) + At(10)
    ELSE ShortLength

FrameIsWhole ==
    /\ HeaderIsWhole
    /\ Buffered >= PayloadOffset + PayloadLength

IsFragment == ~Fin /\ Opcode # 0

(* A whole frame is sliced off the buffer, emitted, and the loop goes on.   *)
Emits ==
    /\ loop # "idle"
    /\ ~corrupted
    /\ FrameIsWhole
    /\ ~IsFragment
    /\ consumed' = consumed + PayloadOffset + PayloadLength
    /\ parsed' = parsed + 1
    /\ UNCHANGED <<response, upgraded, promise, timer, received, corrupted, loop, reported,
                   sends>>

ParseText ==
    /\ Emits
    /\ Opcode = TEXT
    /\ inbox' = IF loop = "data"
                THEN Append(inbox, [from |-> consumed + PayloadOffset, len |-> PayloadLength])
                ELSE inbox
    /\ UNCHANGED <<sock, written>>

ParsePing ==
    /\ Emits
    /\ Opcode = PING
    /\ Write(encodePongFrame(PayloadLength))
    /\ sock' = AfterWrite
    /\ UNCHANGED inbox

ParseClose ==
    /\ Emits
    /\ Opcode = CLOSE
    /\ Write(encodeCloseFrame(0))
    /\ sock' = AfterEnd(AfterWrite)
    /\ UNCHANGED inbox

(* BINARY, PONG and CONTINUATION.                                           *)
ParseOther ==
    /\ Emits
    /\ Opcode \notin {TEXT, PING, CLOSE}
    /\ UNCHANGED <<sock, inbox, written>>

FragmentKeepsSocket ==
    /\ loop # "idle"
    /\ ~corrupted
    /\ FrameIsWhole
    /\ IsFragment
    /\ corrupted' = TRUE
    /\ reported' = IF loop = "data" THEN reported \cup {"error"} ELSE reported
    /\ UNCHANGED <<response, sock, upgraded, promise, timer, received, consumed, loop,
                   parsed, inbox, written, sends>>

ParseFragment ==
    /\ loop # "idle"
    /\ ~corrupted
    /\ FrameIsWhole
    /\ IsFragment
    /\ corrupted' = TRUE
    /\ sock' = AfterDestroy
    /\ reported' = IF loop = "data" THEN reported \cup {"error"} ELSE reported
    /\ UNCHANGED <<response, upgraded, promise, timer, received, consumed, loop, parsed,
                   inbox, written, sends>>

(* The parser returns; after the tail of the head, the promise is resolved. *)
ParserReturns ==
    /\ loop # "idle"
    /\ corrupted \/ ~FrameIsWhole
    /\ promise' = IF loop = "tail" THEN Settled("resolved") ELSE promise
    /\ loop' = "idle"
    /\ UNCHANGED <<response, sock, upgraded, timer, received, parser, reported, written,
                   sends>>

(****************************************************************************)
(* The connection, used by whoever awaited the promise.                     *)
(****************************************************************************)
Uses ==
    /\ loop = "idle"
    /\ promise = "resolved"
    /\ sends < SendBound
    /\ sends' = sends + 1
    /\ UNCHANGED <<response, upgraded, promise, timer, received, loop, parser, reported>>

sendText(len) ==
    /\ Uses
    /\ Write(encodeTextFrame(len))
    /\ sock' = AfterWrite

close(reason) ==
    /\ Uses
    /\ Write(encodeCloseFrame(reason))
    /\ sock' = AfterEnd(AfterWrite)

SocketEvent ==
    \/ Connect
    \/ SocketFails
    \/ PeerEnds
    \/ HandshakeExpires
    \/ EmitError
    \/ EmitClose

DataEvent(n) ==
    \/ ReceiveHead(n)
    \/ CompleteUpgrade(n)
    \/ RefuseUpgrade(n)
    \/ ReceiveFrames(n)

ParserStep ==
    \/ ParseText
    \/ ParsePing
    \/ ParseClose
    \/ ParseOther
    \/ ParseFragment
    \/ ParserReturns

(* Nothing is left to happen: the socket is closed, or half closed towards  *)
(* a server that does not end its side.                                     *)
Next ==
    \/ SocketEvent
    \/ \E n \in Cuts : DataEvent(n)
    \/ ParserStep
    \/ \E len \in SendLengths : sendText(len) \/ close(len)

Spec == Init /\ [][Next]_vars

(* The event loop runs what is queued: the parser is synchronous, a         *)
(* destroyed socket emits its events and a timer that is due fires.  The    *)
(* network owes nothing.                                                    *)
Fairness ==
    /\ WF_vars(ParserStep)
    /\ WF_vars(EmitError)
    /\ WF_vars(EmitClose)
    /\ WF_vars(HandshakeExpires)

FairSpec == Spec /\ Fairness

(****************************************************************************)
(* Properties                                                               *)
(****************************************************************************)

(* The bytes on the wire are frames the server decodes to what was sent,    *)
(* whichever form of the length they take; control frames carry at most 125 *)
(* bytes, and no frame follows a CLOSE, of the client or echoed.            *)
DecodedSize(h) ==
    LET field == h.second - 128 IN
    IF field = 126 THEN 256 * h.extension[1] + h.extension[2]
    ELSE IF field = 127
    THEN 16777216 * h.extension[5] + 65536 * h.extension[6] + 256 * h.extension[7]
             + h.extension[8]
    ELSE field

WrittenFramesAreSound ==
    \A n \in DOMAIN written :
        LET h == written[n] IN
        /\ h.first \in 128 + TEXT..128 + PONG
        /\ h.second >= 128
        /\ Len(h.extension) = ExtensionOf(h.second - 128)
        /\ \A i \in DOMAIN h.extension : h.extension[i] \in Byte
        /\ DecodedSize(h) = h.size
        /\ h.first >= 128 + CLOSE => h.size <= MaxControlPayload
        /\ h.first = 128 + CLOSE => n = Len(written)

(* The promise and the socket agree: who was refused, timed out or failed   *)
(* holds no open socket, who was given a connection has a server that       *)
(* proved it speaks websocket, and no handshake timer is left to destroy    *)
(* the connection under its owner.                                          *)
SettledSoundly ==
    /\ promise = "rejected" => sock \in {"broken", "destroyed", "closed"}
    /\ promise = "resolved" => validateUpgradeResponse /\ received >= HeadLength
    /\ promise = "resolved" => ~timer

(* Whatever the server sends or withholds, connectWebSocket settles.        *)
ConnectSettles == <>(promise # "pending")

(* A connection that was given away and then breaks - by the network or by  *)
(* a frame the parser cannot take - is reported closed, so that the RPC     *)
(* layer can reject what is pending.                                        *)
BreakingIsReported ==
    (corrupted \/ (promise = "resolved" /\ sock = "broken")) ~> ("close" \in reported)

(* The frame-level channel: the parser finds exactly the server's frames,   *)
(* in order, each once, at their bytes, however the stream is cut.          *)
Channel == INSTANCE MessageChannel WITH
    Count <- FrameCount,
    PayloadOf <- Payloads,
    Texts <- TextFrames,
    Fragments <- Fragments,
    taken <- parsed,
    listening <- promise = "resolved",
    broken <- corrupted

ImplementsChannel == Channel!Spec

=============================================================================
