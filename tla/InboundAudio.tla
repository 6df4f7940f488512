---- MODULE InboundAudio ----
(***************************************************************************)
(* InboundAudioDecoder of the WebSocket transport at the pipeline's own    *)
(* sample rate: messages of any even number of bytes become frames of      *)
(* FrameSamples samples, 20 ms each.  A sample is its number, counted from *)
(* the first one the client sent.                                          *)
(***************************************************************************)
EXTENDS Naturals, Sequences

CONSTANT FrameSamples   \* PIPELINE_FRAME_SAMPLES, 320 in the code

ASSUME FrameAssumption == FrameSamples \in Nat \ {0}

\* The decoder: the samples left over, and the time of the next frame in units
\* of 20 ms.
DecoderInit == [residual |-> <<>>, next |-> 0]

\* The samples of the i-th frame of s.
Slice(s, i) == SubSeq(s, (i - 1) * FrameSamples + 1, i * FrameSamples)

Frames(decoder, samples) ==
  LET s == decoder.residual \o samples
  IN [i \in 1..(Len(s) \div FrameSamples) |->
        [samples |-> Slice(s, i), time |-> decoder.next + i - 1]]

\* Mutant: a message starts afresh.
DecodedAfresh(decoder, samples) ==
  LET n == Len(samples) \div FrameSamples
  IN [residual |-> SubSeq(samples, n * FrameSamples + 1, Len(samples)),
      next     |-> decoder.next + n]

Decoded(decoder, samples) ==
  LET s == decoder.residual \o samples
      n == Len(s) \div FrameSamples
  IN [residual |-> SubSeq(s, n * FrameSamples + 1, Len(s)),
      next     |-> decoder.next + n]

====
