------------------------------ MODULE CodecStream ------------------------------
(***************************************************************************)
(* Audio streamed through the codec of one configuration, to codes and     *)
(* back, in blocks of any number of frames, compared with the same layers  *)
(* over the whole of it.  A frame of codes is several hops of audio.       *)
(***************************************************************************)
EXTENDS SpectroStream

CONSTANTS
  Codecs,      \* the configurations
  Loudness,    \* what a frame of audio may be
  MaxBlock,    \* bound: frames in a step
  MaxHeard     \* bound: frames of audio before the flush

\* The quantizers have embeddings, all as many.
QuantizerConfig(q) ==
  /\ q.books \in Seq(Seq(Int)) /\ q.books # <<>> /\ Size(q) > 0 /\ \A i \in DOMAIN q.books : Len(q.books[i]) = Size(q)
  /\ q.unique \in BOOLEAN /\ {q.truncation, q.encoded} \subseteq (Nat \ {0}) \cup {Unset}
\* Counts and strides are positive.  Groups of channels do not part in the first
\* residual unit of a decoder: it makes them from fewer channels, and its
\* shortcut, which is told that there are as many, has no layer for that.
CodecConfig(c) ==
  /\ {c.step, c.bins, c.channels, c.features, c.encoderDepth, c.decoderDepth, c.convSize} \subseteq Nat \ {0}
  /\ c.ratios \in Seq((Nat \ {0}) \X (Nat \ {0})) /\ c.mults \in [DOMAIN c.ratios -> Nat \ {0}]
  /\ c.dilation \in (Nat \ {0}) \X (Nat \ {0}) /\ {c.splits, c.encoderLookahead, c.lookahead} \subseteq Nat
  /\ c.recombo \in Int /\ {c.resnet, c.causal} \subseteq BOOLEAN
  /\ c.resnet /\ c.splits > 1 /\ RecomboInRange(c) => Recombo(c) # Len(c.ratios)
  /\ QuantizerConfig(c.quantizer)
ASSUMPTION CodecAssumption ==
  /\ \A c \in Codecs : CodecConfig(c)
  /\ Loudness \subseteq Nat /\ MaxBlock \in Nat \ {0} /\ MaxHeard \in Nat

VARIABLES
  codec,     \* the configuration
  made,      \* the layers it builds
  encoding,  \* the state of the encoder
  decoding,  \* the state of the decoder
  recorded,  \* the frames fed, without the flush
  codes,     \* the codes put out, a sequence for each frame
  played     \* the hops put out

cvars == <<codec, made, encoding, decoding, recorded, codes, played>>

Hops(c) == WaveformToCodesRatio(c) \div c.step

CodecInit ==
  /\ codec \in Codecs
  /\ made = SpectroStreamOf(codec)
  /\ encoding = IF made.makes THEN FreshCodec(made.encode) ELSE <<>>
  /\ decoding = IF made.makes THEN FreshCodec(made.decode) ELSE <<>>
  /\ recorded = <<>> /\ codes = <<>> /\ played = <<>>

\* The frames the encoder is late are not decoded.
HopOf(frame, j) == IF frame = Absent THEN Absent ELSE frame + 7 * j
WaveOf(block) ==
  [t \in 1 .. Hops(codec) * Len(block) |->
     HopOf(block[(t - 1) \div Hops(codec) + 1], ((t - 1) % Hops(codec)) + 1)]
Embeddings(q, new) ==
  Listed([t \in DOMAIN new |->
            IF new[t] = NoCodes THEN Absent ELSE CodesToEmbeddings(q, Truncated(q, new[t]), TRUE)])
Due(new) == SubSeq(new, 1 + Larger(0, made.latency - Len(codes)), Len(new))
Feed(block) ==
  /\ \E e \in {StepCodec(made.encode, encoding, WaveOf(block))} :
     \E new \in {CodesOf(codec.quantizer, e.out)} :
     \E d \in {StepCodec(made.decode, decoding, Embeddings(codec.quantizer, Due(new)))} :
       /\ encoding' = e.past /\ decoding' = d.past
       /\ codes' = codes \o new /\ played' = played \o d.out
  /\ UNCHANGED <<codec, made>>
\* Layers that look both ways, as all do that are not causal, have no step.
CodecBlock ==
  /\ made.makes /\ codec.causal
  /\ \E n \in 1 .. MaxBlock :
       /\ Len(recorded) + n <= MaxHeard
       /\ \E block \in [1 .. n -> Loudness] : Feed(block) /\ recorded' = recorded \o block
\* The input has ended; what is inside comes out.
CodecFlush ==
  /\ made.makes /\ codec.causal /\ Len(recorded) = MaxHeard
  /\ Len(codes) < MaxHeard + made.latency + codec.lookahead
  /\ Feed(<<Absent>>) /\ UNCHANGED recorded
CodecNext == CodecBlock \/ CodecFlush

CodecSpec == CodecInit /\ [][CodecNext]_cvars

CodecTypeOK ==
  /\ Len(recorded) <= MaxHeard
  /\ made.makes => Len(played) = Hops(codec) * Larger(0, Len(codes) - made.latency)
  /\ \A t \in DOMAIN codes : codes[t] = NoCodes \/ Len(codes[t]) = NumExpectedOutputCodes(codec.quantizer)

Flushed == made.makes /\ Len(recorded) = MaxHeard /\ Len(codes) = MaxHeard + made.latency + codec.lookahead
\* The codes of a stream are those of the whole sequence, as many frames late
\* as the delays were built to make a whole number of, and the audio is the
\* decoded codes, its lookahead later, however the audio was cut into blocks;
\* and both backends give the same.
StreamIsLate ==
  Flushed =>
    \A reference \in {WaveformToCodes(made, codec.quantizer, WaveOf(recorded))} :
    \A trunc \in {[t \in DOMAIN reference |-> Truncated(codec.quantizer, reference[t])]} :
    \A wave \in {CodesToWaveform(made, codec.quantizer, trunc)} :
    \A jax \in {JaxSpectroStreamOf(codec)} :
      /\ \A t \in DOMAIN recorded : codes[t + made.latency] = reference[t]
      /\ codec.quantizer.encoded = Unset => JaxWaveformToCodes(jax, codec.quantizer, WaveOf(recorded)) = reference
      /\ JaxCodesToWaveform(jax, codec.quantizer, trunc) = wave
      /\ \A t \in 1 .. MaxHeard * Hops(codec) :
           played[t + codec.lookahead * Hops(codec)] = wave[t]
\* A stream of audio gives the codes and the audio of the whole of it.
CodecStreams == CodecTypeOK /\ StreamIsLate

\* The layers fit: every residual adds two things of one shape, the groups of
\* channels part and meet, the encoder ends with the features of the quantizer,
\* the decoder gives back the channels and bins of the transform, and the time
\* its strides make is what the configuration says.
ShapesMeet ==
  codes = <<>> /\ made.makes =>
    /\ ShapeAfter(made.encode, <<codec.channels, codec.bins>>) = <<codec.features, 1>>
    /\ ShapeAfter(made.decode, <<codec.features, 1>>) = <<codec.channels, codec.bins>>
    /\ OutputRatio(made.decode, codec.step) = WaveformToCodesRatio(codec)
    /\ \A i \in DOMAIN made.encode : made.encode[i].kind = "residual" =>
         LengthAfter(Pool(<<StrideOf(made.encode[i]), 1>>), 720)
         = LengthThrough(made.encode[i].short, 720)

\* Codes are decoded alike by look-up and by one-hot, in both backends; coarse
\* codes are the first of the fine ones; and the JAX quantizer's own sum is
\* what its codes decode to.
QuantizersAgree ==
  codes = <<>> /\ QuantizerMakes(codec.quantizer) => \A x \in -6 .. 16 :
    LET q == codec.quantizer
        fine == EmbeddingsToCodes(q, x, Len(q.books))
    IN /\ \A n \in 1 .. NumExpectedInputCodes(q) :
            LET coarse == EmbeddingsToCodes(q, x, n) IN
            /\ coarse = SubSeq(fine, 1, n)
            /\ Accepted(q, coarse)
            /\ CodesToEmbeddings(q, coarse, TRUE) = JaxCodesToEmbeddings(q, coarse, FALSE)
       /\ fine = JaxEmbeddingsToCodes(q, x, Len(q.books))
       /\ q.truncation = Unset => CodesToEmbeddings(q, fine, TRUE) = JaxQuantized(q, x)

\* The codec its configuration describes is one that can be built and used.
CodecFits == ShapesMeet /\ QuantizersAgree
================================================================================
