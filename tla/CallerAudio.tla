---- MODULE CallerAudio ----
(***************************************************************************)
(* How the load test brings the WAV file that its callers speak to 16 kHz  *)
(* mono: audio.rs, as far as the lengths and the positions in the samples  *)
(* go.  The samples are read by index, which panics past the end.          *)
(***************************************************************************)
EXTENDS Integers

CONSTANTS
  Rates,       \* sample rates of files
  MaxSamples   \* bound: samples of a file

CanonicalRate == 16000

ASSUME RatesAssumption == Rates \subseteq Nat \ {0} /\ MaxSamples \in Nat

----
(* resample_to_16k *)

\* Mutant: one sample more than fits.
RoundedUpTwice(frames, rate) == (2 * frames * CanonicalRate + 3 * rate) \div (2 * rate)

\* The length in samples, rounded.
OutputLen(frames, rate) == (2 * frames * CanonicalRate + rate) \div (2 * rate)

\* The sample before the position of the i-th, from 0, and the one after it.
LeftIndex(i, rate) == (i * rate) \div CanonicalRate
RightIndex(i, rate, frames) == IF LeftIndex(i, rate) + 1 < frames THEN LeftIndex(i, rate) + 1 ELSE frames - 1

\* The indices that the resampling reads.
Reads(frames, rate) ==
  {LeftIndex(i, rate) : i \in 0 .. OutputLen(frames, rate) - 1}
    \cup {RightIndex(i, rate, frames) : i \in 0 .. OutputLen(frames, rate) - 1}

----
(* load_and_normalize_wav *)

\* Pairs of samples are mixed to one; half a pair at the end is dropped.
Frames(w) == IF w.channels = 1 THEN w.samples ELSE w.samples \div 2

\* Mutant: a file of 8 kHz is resampled as well as doubled.
NormalisedTwice(w) ==
  IF w.rate = CanonicalRate THEN Frames(w)
  ELSE IF w.rate = 8000 THEN OutputLen(2 * Frames(w), w.rate)
  ELSE OutputLen(Frames(w), w.rate)

\* As it is, each sample twice, or resampled.
NormalisedLen(w) ==
  CASE w.rate = CanonicalRate -> Frames(w)
    [] w.rate = 8000 -> 2 * Frames(w)
    [] OTHER -> IF Frames(w) = 0 THEN 0 ELSE OutputLen(Frames(w), w.rate)

\* The files: 16-bit PCM of one or two channels; anything else is refused.
Wavs == [samples : 0 .. MaxSamples, channels : {1, 2}, rate : Rates]

----
(* Properties *)

\* The resampling reads no sample that is not there.  audio.rs 108-130
ReadsInside == \A w \in Wavs : Reads(Frames(w), w.rate) \subseteq 0 .. Frames(w) - 1

\* Whichever way a file is brought to 16 kHz, it takes as long to play as before, to
\* half a sample.  audio.rs 50-63
LengthKept ==
  \A w \in Wavs :
    LET error == NormalisedLen(w) * w.rate - Frames(w) * CanonicalRate
    IN -w.rate <= 2 * error /\ 2 * error <= w.rate
====
