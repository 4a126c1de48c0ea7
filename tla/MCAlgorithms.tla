---------------------------- MODULE MCAlgorithms ----------------------------
(* The sequential algorithms on every small input, for TLC: the continuity  *)
(* check, the latency statistics, the CRC and the frame format.  A behavior *)
(* exercises one of them; the others rest.                                  *)
EXTENDS LossDetector, LatencyStats, Crc32, FrameFormat

LatencyRests == count = 0 /\ UNCHANGED latency_vars
CrcRests == message = << >> /\ UNCHANGED message
WireRests == wire = NoWire /\ UNCHANGED wire
DetectorRests == ~seen_any /\ UNCHANGED vars

\* Checksums, so that different contents may share one.
SmallHeaderCrc(h) == h.tags + h.sample_rate_hz + h.channel_count
SmallPayloadCrc(payload) == IF payload = << >> THEN 0 ELSE payload[1]

\* Every field is right or wrong, and each CRC fits its contents or not.
Header(magic, version, header_size, tags, channels, rate, format, len, fits) ==
  LET h == [magic |-> magic, version |-> version, header_size |-> header_size,
            tags |-> tags, channel_count |-> channels, sample_rate_hz |-> rate,
            sample_format |-> format, payload_len |-> len, header_crc |-> 0]
  IN  [h EXCEPT !.header_crc = SmallHeaderCrc(h) + (IF fits THEN 0 ELSE 1)]

TakeWire ==
  /\ wire = NoWire
  /\ \E magic \in {kFrameMagic, 0}, version \in {kProtocolVersion, 1},
        header_size \in {kHeaderSize, 0}, tags \in Tags,
        channels \in {ChannelCount, 0},
        rate \in {0, 1, kMaxSampleRateHz, kMaxSampleRateHz + 1},
        format \in {kSampleFormat, 0},
        len \in {0, kPayloadBytes - 1, kPayloadBytes},
        header_len \in {kHeaderSize, 0}, extra \in {-1, 0, 1},
        header_fits, payload_fits \in BOOLEAN,
        payload \in {<< >>, <<0>>, <<1>>} :
       wire' = [header_len |-> header_len,
                header |-> Header(magic, version, header_size, tags, channels,
                                  rate, format, len, header_fits),
                payload |-> payload,
                payload_crc |-> SmallPayloadCrc(payload) + (IF payload_fits THEN 0 ELSE 1),
                extra |-> extra]

AlgorithmsInit ==
  /\ Init
  /\ LatencyInit
  /\ message = << >>
  /\ wire = NoWire

AlgorithmsNext ==
  \/ LatencyRests /\ CrcRests /\ WireRests /\ Next
  \/ DetectorRests /\ CrcRests /\ WireRests /\ AddSample
  \/ DetectorRests /\ LatencyRests /\ WireRests /\ AppendByte
  \/ DetectorRests /\ LatencyRests /\ CrcRests /\ TakeWire

AlgorithmsSpec ==
  AlgorithmsInit /\ [][AlgorithmsNext]_<<vars, latency_vars, message, wire>>
=============================================================================
