--------------------------- MODULE MCBrokerTransport ---------------------------
(****************************************************************************)
(* One stream with every kind of frame and every form of the length, cut    *)
(* around each header and each frame.                                       *)
(****************************************************************************)
EXTENDS BrokerTransport, SequencesExt

Data(opcode, len) == [fin |-> TRUE, opcode |-> opcode, masked |-> FALSE, len |-> len]
Masked(f) == [f EXCEPT !.masked = TRUE]
Unfinished(f) == [f EXCEPT !.fin = FALSE]

MCFrames ==
    << Data(TEXT, 3), Data(PING, 2), Masked(Data(TEXT, 126)), Data(TEXT, 65536),
       Data(2, 1), Unfinished(Data(0, 0)), Data(PING, 126), Data(CLOSE, 2),
       Data(TEXT, 1), Unfinished(Data(TEXT, 1)), Data(TEXT, 1) >>

MCBegin[n \in 1..Len(MCFrames) + 1] ==
    IF n = 1 THEN 0
    ELSE MCBegin[n - 1] + HeaderLength(MCFrames[n - 1]) + MCFrames[n - 1].len

(* A payload looks like the header of a text frame of one byte.             *)
Payload(len) == [i \in 1..len |-> IF i % 2 = 1 THEN 128 + TEXT ELSE 1]

Encoded(f) ==
    <<FirstByte(f), SecondByte(f)>>
    \o (IF f.len < 126 THEN <<>>
        ELSE IF f.len < 65536 THEN <<f.len \div 256, f.len % 256>>
        ELSE <<0, 0, 0, 0, 0, f.len \div 65536, (f.len \div 256) % 256, f.len % 256>>)
    \o (IF f.masked THEN <<0, 0, 0, 0>> ELSE <<>>)
    \o Payload(f.len)

MCWire == FlattenSeq([n \in 1..Len(MCFrames) |-> Encoded(MCFrames[n])])

MCHeadLength == 4

MCCuts ==
    {2, MCHeadLength}
    \cup {MCHeadLength + MCBegin[n] + k : n \in 1..Len(MCFrames), k \in {1, 2}}
    \cup {MCHeadLength + MCBegin[n] + HeaderLength(MCFrames[n]) - 1 : n \in 3..4}
    \cup {MCHeadLength + MCBegin[n] : n \in 2..Len(MCFrames) + 1}

=============================================================================
