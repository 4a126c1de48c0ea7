---------------------------- MODULE FrameFormat -----------------------------
(***************************************************************************)
(* The wire frame of common/frame.cpp (prefix, header, payload, payload    *)
(* CRC), as the sender writes it and as the sender's input check and the   *)
(* receiver's parser read it.                                              *)
(*                                                                         *)
(* The five header fields that no check looks at (module_id, flags,        *)
(* frame_id, timestamp_ns, reserved) are one value, tags.  The CRC is a    *)
(* parameter: what is said here holds for any function.                    *)
(***************************************************************************)
EXTENDS Integers, Sequences

CONSTANTS
  HeaderCrc(_), PayloadCrc(_),    \* crc32 of the two parts
  Samples, Tags,                  \* the values of a payload sample, and of tags
  ChannelCount                    \* kChannelCount

ASSUME FormatAssumption == ChannelCount \in Nat \ {0}

VARIABLE wire    \* the bytes that the parser is given

NoWire == << >>

kFrameMagic == 1129136689
kProtocolVersion == 2
kMaxSampleRateHz == 1000
kSampleFormat == 1
kSampleBytes == 8
kPayloadBytes == ChannelCount * kSampleBytes
kHeaderSize == 44
kFramePrefixSize == 4
kFrameCrcSize == 4

\* What header_crc is computed from: the header with a crc of 0.
HeaderBytes(h) == [h EXCEPT !.header_crc = 0]

\* The bytes of a frame: extra counts those, fewer than a sample, that are too
\* many, or missing, at the end.
serialize_frame_into(frame) ==
  LET h == [frame.header EXCEPT
              !.payload_len = Len(frame.payload) * kSampleBytes,
              !.header_crc = 0]
  IN  [header_len |-> kHeaderSize,
       header |-> [h EXCEPT !.header_crc = HeaderCrc(h)],
       payload |-> frame.payload,
       payload_crc |-> PayloadCrc(frame.payload),
       extra |-> 0]

size(bytes) ==
  kFramePrefixSize + kHeaderSize + Len(bytes.payload) * kSampleBytes
    + kFrameCrcSize + bytes.extra

\* deserialize_frame_into throws.
Malformed(bytes) ==
  \/ size(bytes) < kFramePrefixSize + kHeaderSize + kFrameCrcSize
  \/ bytes.header_len # kHeaderSize
  \/ bytes.header.payload_len % kSampleBytes # 0
  \/ bytes.header.payload_len # kPayloadBytes
  \/ size(bytes) # kFramePrefixSize + bytes.header_len
                     + bytes.header.payload_len + kFrameCrcSize

\* Definitions named Variant_... are plausible mistakes, for checking that
\* the properties would notice them; no specification uses one.
Variant_FieldsWrong_rate_zero_passes(h) ==
  \/ h.magic # kFrameMagic
  \/ h.version # kProtocolVersion
  \/ h.header_size # kHeaderSize
  \/ h.channel_count # ChannelCount
  \/ h.sample_rate_hz > kMaxSampleRateHz
  \/ h.sample_format # kSampleFormat

FieldsWrong(h) ==
  \/ h.magic # kFrameMagic
  \/ h.version # kProtocolVersion
  \/ h.header_size # kHeaderSize
  \/ h.channel_count # ChannelCount
  \/ h.sample_rate_hz = 0 \/ h.sample_rate_hz > kMaxSampleRateHz
  \/ h.sample_format # kSampleFormat

\* The fields are checked before the CRCs: damage to one of them is reported
\* as a protocol error, not as a CRC error.
validate_frame(bytes) ==
  CASE FieldsWrong(bytes.header) -> "kUnexpectedProtocol"
    [] ~FieldsWrong(bytes.header)
         /\ bytes.header.header_crc # HeaderCrc(HeaderBytes(bytes.header)) -> "kHeaderCrc"
    [] ~FieldsWrong(bytes.header)
         /\ bytes.header.header_crc = HeaderCrc(HeaderBytes(bytes.header))
         /\ bytes.payload_crc # PayloadCrc(bytes.payload) -> "kPayloadCrc"
    [] OTHER -> "kNone"

parse_frame_into(bytes) ==
  IF Malformed(bytes) THEN "kMalformed" ELSE validate_frame(bytes)

-----------------------------------------------------------------------------
\* What a sender may give to serialize_frame_into: payload_len and the CRCs
\* are computed there.
Frame(tags, rate, payload) ==
  [header |-> [magic |-> kFrameMagic, version |-> kProtocolVersion,
               header_size |-> kHeaderSize, tags |-> tags,
               channel_count |-> ChannelCount, sample_rate_hz |-> rate,
               sample_format |-> kSampleFormat, payload_len |-> 0,
               header_crc |-> 0],
   payload |-> payload]

Serialized ==
  {serialize_frame_into(Frame(tags, rate, payload)) :
     tags \in Tags, rate \in 1 .. kMaxSampleRateHz,
     payload \in [1 .. ChannelCount -> Samples]}

\* The parser takes a byte sequence exactly when serialize_frame_into makes it
\* from a frame: whatever the sender makes or lets pass (it calls the same two
\* functions on its input) the receiver parses, and nothing else gets through
\* that a CRC can tell.
ParserIsExact ==
  wire # NoWire => (parse_frame_into(wire) = "kNone" <=> wire \in Serialized)
=============================================================================
