---- MODULE RtpAudio ----
(***************************************************************************)
(* What a telephone call does to audio: the mu-law code of rtp.rs, of      *)
(* which the load test has a copy, over all samples; and the payload of an *)
(* RTP packet, whole or cut short.                                         *)
(***************************************************************************)
EXTENDS Integers, FiniteSetsExt

CONSTANTS
  MaxCsrcs,    \* bound: contributing sources of a packet (15)
  MaxWords,    \* bound: words of a header extension (65535)
  MaxPadding,  \* bound: bytes of padding (255)
  MaxPayload   \* bound: bytes of payload

ASSUME PacketAssumption == MaxCsrcs \in Nat /\ MaxWords \in Nat /\ MaxPadding \in Nat /\ MaxPayload \in Nat

----
(* linear_to_mulaw, mulaw_to_linear *)

Bias == 132
Clip == 32635
SegmentEnds == [i \in 0 .. 7 |-> 2 ^ (i + 8) - 1]

\* Mutant: two's complement without saturation.
Wrapped(x) == ((x + 32768) % 65536) - 32768

\* saturating_add and saturating_sub of i16
Saturated(x) == Max({-32768, Min({x, 32767})})

Magnitude(s) == Min({Clip, Saturated(IF s < 0 THEN Bias - s ELSE s + Bias)})

Segment(m) == Min({i \in DOMAIN SegmentEnds : m <= SegmentEnds[i]})

\* All bits of a code but the sign are inverted, those of a sample below zero except
\* the sign's: an exclusive or with 0x7F or 0xFF.
LinearToMulaw(s) ==
  LET m == Magnitude(s)
      mantissa == (m \div 2 ^ (Segment(m) + 3)) % 16
  IN (IF s < 0 THEN 127 ELSE 255) - (16 * Segment(m) + mantissa)

MulawToLinear(code) ==
  LET inverted == 255 - code
      m == (8 * (inverted % 16) + Bias) * 2 ^ ((inverted % 128) \div 16)
  IN IF inverted >= 128 THEN Saturated(Bias - m) ELSE Saturated(m - Bias)

Samples == -32768 .. 32767

\* What is heard at the other end, for each sample.
Heard == [s \in Samples |-> MulawToLinear(LinearToMulaw(s))]

----
(* parse_rtp_payload *)

HeaderLen == 12

\* A packet as a sender makes it: its length, the fields the parser reads, and the value
\* of its last byte.
Packet(version, csrcs, extended, words, padding, payload) ==
  LET start == HeaderLen + 4 * csrcs + (IF extended THEN 4 + 4 * words ELSE 0)
      len == start + payload + padding
  IN [version |-> version, csrcs |-> csrcs, extended |-> extended, words |-> words,
      padded |-> padding > 0, last |-> padding, start |-> start, payload |-> payload, sent |-> len, len |-> len]

\* Mutant: the words of an extension are taken for bytes.
ExtensionLenInBytes(words) == 4 + words

ExtensionLen(words) == 4 + 4 * words

\* The positions of the payload's bytes; none if there is none, which run_bridge takes
\* for the same.
Payload(p) ==
  LET sources == HeaderLen + 4 * p.csrcs
      offset == sources + (IF p.extended THEN ExtensionLen(p.words) ELSE 0)
      end == p.len - (IF p.padded THEN p.last ELSE 0)
  IN IF \/ p.len < HeaderLen \/ p.version # 2 \/ p.len < sources
        \/ p.extended /\ p.len < sources + 4
        \/ p.len < offset \/ end < offset
     THEN {} ELSE offset .. end - 1

\* The packets that may arrive, of any version and make.
Packets ==
  {Packet(version, csrcs, extended, words, padding, payload) :
     version \in {1, 2}, csrcs \in 0 .. MaxCsrcs, extended \in BOOLEAN, words \in 0 .. MaxWords,
     padding \in 0 .. MaxPadding, payload \in 0 .. MaxPayload}

\* recv_from cuts a packet off that is longer than the buffer; its last byte is then one
\* of the bytes before, whose value is any.
WithLast(p, last) == [p EXCEPT !.last = last]
CutOff(p) == {WithLast([p EXCEPT !.len = len], last) : len \in 0 .. p.sent - 1, last \in {0, 1, 255}}

----
(* Properties *)

\* A sample comes back with its sign, at most a 32nd of it (and of the bias) away, the
\* extremes of 16 bits included; passing the code once more, as a call between the load
\* test and the transport does, changes nothing more.  rtp.rs 84-117
CodecFaithful ==
  \A s \in Samples :
    LET back == Heard[s]
        error == IF back > s THEN back - s ELSE s - back
        loudness == IF s < 0 THEN -s ELSE s
    IN /\ back # 0 => (back > 0 <=> s > 0)
       /\ 32 * error <= loudness + Bias
       /\ Heard[back] = back

\* A louder sample never comes back quieter.  rtp.rs 84-117
CodecMonotone == \A s \in Samples \ {32767} : Heard[s + 1] >= Heard[s]

\* The parser finds exactly the payload of a packet that arrived whole, whatever comes
\* before and after it, and of one that was cut off nothing outside what is left.
\* rtp.rs 23-64
PayloadFound ==
  \A p \in Packets :
    /\ Payload(p) = IF p.version = 2 THEN p.start .. p.start + p.payload - 1 ELSE {}
    /\ \A cut \in CutOff(p) :
         Payload(cut) # {} => p.start \in Payload(cut) /\ Payload(cut) \subseteq p.start .. cut.len - 1
====
