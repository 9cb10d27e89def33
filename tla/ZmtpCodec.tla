------------------------------ MODULE ZmtpCodec -----------------------------
(***************************************************************************)
(* The formats of libzmq-core: ZMTP frames on a stream, the metadata of    *)
(* READY and INITIATE, and Z85 (transport.rs, security.rs, and the frame   *)
(* reader of socket.rs).  Numbers are cut down: a byte has Base values     *)
(* instead of 256, a long length is written in LongBytes bytes instead of  *)
(* 8 (4 for a value), and a Z85 chunk is ChunkBytes bytes, of ChunkBase    *)
(* values each, in Digits digits to the base DigitBase instead of 4 bytes  *)
(* in 5 digits to the base 85.  Each behaviour is about one format.        *)
(***************************************************************************)
EXTENDS Integers, SequencesExt

CONSTANTS
    Base, LongBytes,   \* the three flags fit into a byte: Base >= 8
    ChunkBase, ChunkBytes, DigitBase, Digits,   \* more texts than chunks
    Bodies,        \* contents of frames
    Properties,    \* of metadata: <<name, value>>
    MaxWritten     \* bound: frames on a stream, properties of one command

VARIABLES
    format,     \* what this behaviour is about
    commandBit, \* decode_v3 and encode_v3; v1 and v2 know no commands
    written,    \* frames sent on the stream
    stream,     \* bytes on their way
    received,   \* frames read
    sent,       \* properties put into a command
    body,       \* the command's body, as far as it arrived
    offset,     \* decode_properties: bytes dealt with
    found,      \* and the properties found so far
    refused,    \* and whether it gave up
    text        \* a chunk of Z85

codecVars == <<format, commandBit, written, stream, received, sent, body, offset,
               found, refused, text>>

ByteLimit == Base - 1   \* u8::MAX

BigEndian(n, len, base) == [i \in 1..len |-> (n \div base^(len - i)) % base]
Number(bytes, base) == FoldLeft(LAMBDA n, b : n * base + b, 0, bytes)

Bit(on, flag) == IF on THEN flag ELSE 0
Has(flags, flag) == (flags \div flag) % 2 = 1

(* Mutant: the long form starts one byte later than the length byte ends. *)
ShortTooLong(len) == len <= ByteLimit + 1
Short(len) == len <= ByteLimit

Encode(frame) ==
    LET flags == Bit(frame.more, 1) + Bit(commandBit /\ frame.command, 4)
        len == Len(frame.data)
    IN (IF Short(len)
        THEN <<flags, len % Base>>
        ELSE <<flags + 2>> \o BigEndian(len, LongBytes, Base)) \o frame.data

(* The header read_zmtp_frame_bytes_tcp reads: the flags, then as many bytes  *)
(* of length as they announce.                                                *)
HeaderLen(bytes) == IF Has(bytes[1], 2) THEN 1 + LongBytes ELSE 2
BodyLen(bytes) == Number(SubSeq(bytes, 2, HeaderLen(bytes)), Base)
FrameLen(bytes) == HeaderLen(bytes) + BodyLen(bytes)

Decode(bytes) ==
    [more |-> Has(bytes[1], 1),
     command |-> commandBit /\ Has(bytes[1], 4),
     data |-> SubSeq(bytes, HeaderLen(bytes) + 1, Len(bytes))]

(* Properties of a command: names are cut to what the length byte can say. *)
CutName(name) == SubSeq(name, 1, IF Len(name) < ByteLimit THEN Len(name) ELSE ByteLimit)

(* from_utf8: as in UTF-8 a byte in the lower half is a character, one in the *)
(* top quarter starts a character that the next byte, of the quarter between, *)
(* ends; longer characters are left out.                                      *)
Ends(b) == b >= Base \div 2 /\ b < Base - Base \div 4
Starts(b) == b >= Base - Base \div 4

IsText(bytes) ==
    /\ bytes # <<>> => ~Ends(bytes[1]) /\ ~Starts(bytes[Len(bytes)])
    /\ \A i \in 1..Len(bytes) - 1 : Starts(bytes[i]) <=> Ends(bytes[i + 1])

EncodeProperty(p) ==
    <<Len(CutName(p[1]))>> \o CutName(p[1])
        \o BigEndian(Len(p[2]), LongBytes, Base) \o p[2]

EncodeProperties(ps) == FoldLeft(LAMBDA bytes, p : bytes \o EncodeProperty(p), <<>>, ps)

(* z85_encode and z85_decode of one chunk; the number is computed in as many  *)
(* bits as a chunk has, and each step is checked.                             *)
Z85Encode(chunk) == BigEndian(Number(chunk, ChunkBase), Digits, DigitBase)
Overflow == -1

Z85Step(n, digit) ==
    IF n = Overflow \/ n * DigitBase + digit >= ChunkBase^ChunkBytes
    THEN Overflow
    ELSE n * DigitBase + digit

Z85Number(digits) == FoldLeft(Z85Step, 0, digits)
Z85Decode(digits) == BigEndian(Z85Number(digits), ChunkBytes, ChunkBase)

-----------------------------------------------------------------------------
Init ==
    /\ format \in {"frames", "metadata", "z85"}
    /\ commandBit \in BOOLEAN
    /\ sent \in UNION {[1..n -> Properties] : n \in 0..MaxWritten}
    /\ text \in [1..Digits -> 0..DigitBase - 1]
    /\ commandBit => format = "frames"
    /\ sent # <<>> => format = "metadata"
    /\ format # "z85" => text = [i \in 1..Digits |-> 0]
    /\ \E cut \in 0..Len(EncodeProperties(sent)) :
         body = SubSeq(EncodeProperties(sent), 1, cut)
    /\ written = <<>> /\ stream = <<>> /\ received = <<>>
    /\ offset = 0 /\ found = <<>> /\ refused = FALSE

WriteFrame(more, command, data) ==
    LET frame == [more |-> more, command |-> command, data |-> data]
    IN /\ format = "frames" /\ Len(written) < MaxWritten
       /\ written' = Append(written, frame)
       /\ stream' = stream \o Encode(frame)
       /\ UNCHANGED <<format, commandBit, received, sent, body, offset, found,
                      refused, text>>

ReadFrame ==
    /\ format = "frames" /\ Len(stream) >= 2
    /\ Len(stream) >= HeaderLen(stream) /\ Len(stream) >= FrameLen(stream)
    /\ received' = Append(received, Decode(SubSeq(stream, 1, FrameLen(stream))))
    /\ stream' = SubSeq(stream, FrameLen(stream) + 1, Len(stream))
    /\ UNCHANGED <<format, commandBit, written, sent, body, offset, found, refused,
                   text>>

(* One turn of the loop of decode_properties, and its three ways to fail: no  *)
(* room for the name and the value's length, a name that is not UTF-8, no     *)
(* room for the value.                                                        *)
NameEnd == offset + 1 + body[offset + 1]
ValueStart == NameEnd + LongBytes
ValueEnd == ValueStart + Number(SubSeq(body, NameEnd + 1, ValueStart), Base)

DecodeProperty ==
    /\ format = "metadata" /\ ~refused /\ offset < Len(body)
    /\ IF /\ Len(body) >= ValueStart
          /\ IsText(SubSeq(body, offset + 2, NameEnd))
          /\ Len(body) >= ValueEnd
       THEN /\ found' = Append(found, <<SubSeq(body, offset + 2, NameEnd),
                                       SubSeq(body, ValueStart + 1, ValueEnd)>>)
            /\ offset' = ValueEnd
            /\ UNCHANGED refused
       ELSE /\ refused' = TRUE
            /\ UNCHANGED <<offset, found>>
    /\ UNCHANGED <<format, commandBit, written, stream, received, sent, body, text>>

Next ==
    \/ \E more, command \in BOOLEAN, data \in Bodies : WriteFrame(more, command, data)
    \/ ReadFrame
    \/ DecodeProperty

Spec == Init /\ [][Next]_codecVars

-----------------------------------------------------------------------------
(* Properties *)

(* Streams are bytes. *)
TypeOK ==
    /\ stream \in Seq(0..ByteLimit) /\ body \in Seq(0..ByteLimit)
    /\ offset \in 0..Len(body) /\ refused \in BOOLEAN
    /\ \A i \in DOMAIN received : received[i].data \in Seq(0..ByteLimit)

AsReceived(frame) == [frame EXCEPT !.command = commandBit /\ @]

(* Frames of any lengths, one behind the other on a stream, come out as they  *)
(* went in, whatever their contents look like: no frame's length is misread   *)
(* around the longest short frame, and no bytes are left over between them    *)
(* (ZmtpFrame::encode_with_command_bit, decode_with_command_bit,              *)
(* read_zmtp_frame_bytes_tcp).  Frames of ZMTP 1 and 2 lose the command flag. *)
FramesReadBack ==
    /\ Len(received) <= Len(written)
    /\ \A i \in DOMAIN received : received[i] = AsReceived(written[i])
    /\ format = "frames" /\ Len(received) = Len(written) => stream = <<>>

WholeProperties(n) == EncodeProperties(SubSeq(sent, 1, n))

(* A command's metadata that was cut anywhere is refused, unless the cut is   *)
(* between two properties, and what is found is what was put in, with the     *)
(* names cut to the longest the format allows (encode_properties,             *)
(* decode_properties).  Metadata that is whole is refused in one case only:   *)
(* the cut of the name whose turn it is went through a character, which       *)
(* encode_properties does not look at and from_utf8 refuses.                  *)
MetadataReadsBack ==
    /\ Len(found) <= Len(sent)
    /\ \A i \in DOMAIN found : found[i] = <<CutName(sent[i][1]), sent[i][2]>>
    /\ refused => \/ \A n \in 0..Len(sent) : body # WholeProperties(n)
                  \/ ~IsText(CutName(sent[Len(found) + 1][1]))
    /\ ~refused /\ offset = Len(body) => body = WholeProperties(Len(found))

(* z85_decode accepts exactly the texts z85_encode makes, and gives back what *)
(* was encoded: of the DigitBase^Digits texts, more than there are chunks,    *)
(* those beyond the largest chunk are refused and none is taken for another   *)
(* (the checked arithmetic of z85_decode).                                    *)
Z85Canonical ==
    LET chunks == [1..ChunkBytes -> 0..ChunkBase - 1]
    IN IF Z85Number(text) = Overflow
       THEN \A chunk \in chunks : Z85Encode(chunk) # text
       ELSE Z85Decode(text) \in chunks /\ Z85Encode(Z85Decode(text)) = text
=============================================================================
