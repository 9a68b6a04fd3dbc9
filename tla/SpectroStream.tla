----------------------------- MODULE SpectroStream -----------------------------
(***************************************************************************)
(* The audio codec of both backends (mlx/spectrostream/modeling.py,        *)
(* jax/spectrostream.py): the layers its configuration builds, the shapes  *)
(* and the time they give, and the residual quantizer between them.        *)
(*                                                                         *)
(* In time a layer reads a window of what comes before it, one number for  *)
(* all the bins and channels of a frame (a hop of audio, for the Fourier   *)
(* transforms); in frequency and channels it has the shape <<channels,     *)
(* bins>>.  Activations and numeric types are left out, the channel        *)
(* multipliers are whole numbers.  The convolutions, delays and transforms *)
(* are the sequence-layers library's, modelled by window and latency.      *)
(*                                                                         *)
(* The JAX file repeats the MLX file's functions; where its text is the    *)
(* same, so is the definition.                                             *)
(***************************************************************************)
EXTENDS Transformer

--------------------------------------------------------------------------------
(* Layers.                                                                 *)

ProductOf(s) ==
  LET product[n \in 0 .. Len(s)] == IF n = 0 THEN 1 ELSE product[n - 1] * s[n] IN product[Len(s)]
Pick1(pairs) == [i \in DOMAIN pairs |-> pairs[i][1]]
Pick2(pairs) == [i \in DOMAIN pairs |-> pairs[i][2]]

\* kernel, strides and dilation are <<time, frequency>>.
ConvOf(filters, kernel, strides, padding, dilation, reach) ==
  [kind |-> "conv", filters |-> filters, kernel |-> kernel, strides |-> strides,
   dilation |-> dilation, time |-> IF padding = "causal" THEN "semicausal" ELSE padding,
   reach |-> reach, padded |-> Larger(reach - strides[2], 0)]
Conv2d(filters, kernel, strides, padding, dilation) ==
  ConvOf(filters, kernel, strides, padding, dilation, (kernel[2] - 1) * dilation[2] + 1)
PreActivatedConv2d(filters, kernel, strides, padding, dilation, transpose) ==
  IF transpose /\ strides # <<1, 1>>
  THEN IF padding \notin {"same", "causal"} THEN Invalid
       ELSE [kind |-> "transpose", filters |-> filters, kernel |-> kernel, strides |-> strides, time |-> padding]
  ELSE Conv2d(filters, kernel, strides, padding, dilation)
Pool(strides) == [kind |-> "pool", strides |-> strides]
Upsample(strides) == [kind |-> "upsample", strides |-> strides]
Shifting(kind, n) == [kind |-> kind, by |-> n]       \* Delay, Lookahead
Flatten == [kind |-> "flatten"]                      \* with the ExpandDims beside it
Reshape(bins, channels) == [kind |-> "reshape", bins |-> bins, channels |-> channels]
Parallel(layers, groups) == [kind |-> "parallel", layers |-> layers, groups |-> groups]
ResidualOf(body, short) == [kind |-> "residual", body |-> body, short |-> short]
OneByOne(filters) == Conv2d(filters, <<1, 1>>, <<1, 1>>, "causal", <<1, 1>>)

Resampling(strides) == <<Larger(3, 2 * strides[1]), Larger(3, 2 * strides[2])>>
\* The resampling convolution is the first of a decoder's, the last of an
\* encoder's.
InOrder(transposed, resample, three) == IF transposed THEN <<resample, three>> ELSE <<three, resample>>
UnitBody(input, output, strides, dilation, transposed, padding) ==
  InOrder(transposed,
          PreActivatedConv2d(output, Resampling(strides), strides, padding, <<1, 1>>, transposed),
          PreActivatedConv2d(IF transposed THEN output ELSE input, <<3, 3>>, <<1, 1>>, padding, dilation, FALSE))
UnitShortcut(input, output, strides, transposed) ==
  (IF strides # <<1, 1>> /\ ~transposed THEN <<Pool(strides)>> ELSE <<>>)
  \o (IF input # output THEN <<OneByOne(output)>> ELSE <<>>)
  \o (IF strides # <<1, 1>> /\ transposed THEN <<Upsample(strides)>> ELSE <<>>)
Unit(body, short, shortcut) == IF shortcut THEN <<ResidualOf(body, short)>> ELSE body
Conv2dResidualUnit(input, output, strides, dilation, transposed, padding, shortcut) ==
  Unit(UnitBody(input, output, strides, dilation, transposed, padding),
       UnitShortcut(input, output, strides, transposed), shortcut)
JaxConv2d(filters, kernel, strides, padding, dilation) == Conv2d(filters, kernel, strides, padding, dilation)
JaxPreActivatedConv2d(filters, kernel, strides, padding, dilation, transpose) ==
  PreActivatedConv2d(filters, kernel, strides, padding, dilation, transpose)
JaxConv2dResidualUnit(input, output, strides, dilation, transposed, padding, shortcut) ==
  Conv2dResidualUnit(input, output, strides, dilation, transposed, padding, shortcut)

\* The transforms: frame t reads hops t and t + 1, hop t is made of frames
\* t - 1 and t.  c: [step, length, fft, bins, channels, ...], lengths in hops.
SpectrostreamStftConfig(c) ==
  IF c.channels % 2 # 0 \/ c.fft \div 2 # c.bins THEN Invalid ELSE [kind |-> "stft", channels |-> c.channels, bins |-> c.bins]
SpectrostreamInverseStftConfig(c) == [kind |-> "istft", channels |-> c.channels, bins |-> c.bins]
JaxSpectrostreamStftConfig(c) == SpectrostreamStftConfig(c)
JaxSpectrostreamInverseStftConfig(c) == SpectrostreamInverseStftConfig(c)

\* The smallest delay after which a latency is a number of strides.
RequiredStepwiseDelay(stride, latency) == (stride - (latency % stride)) % stride
\* The block at which the channel groups become one; Unset for no groups.
Recombo(c) ==
  LET blocks == Len(c.ratios) + 1
  IN IF c.splits = 0 THEN Unset ELSE (c.recombo + blocks) % blocks
RecomboInRange(c) == c.splits > 0 => -(Len(c.ratios) + 1) <= c.recombo /\ c.recombo < Len(c.ratios) + 1
PaddingOf(c) == IF c.causal THEN "causal" ELSE "same"

\* Mutant: a strided level does not wait for its input to line up.
EncoderLevelUndelayed(c, acc, i) ==
  LET out == acc.out * c.mults[i]
  IN [layers |-> acc.layers \o Conv2dResidualUnit(acc.input, out, c.ratios[i], c.dilation, FALSE, PaddingOf(c), c.resnet),
      input |-> out, out |-> out, bins |-> acc.bins \div c.ratios[i][2], latency |-> acc.latency \div c.ratios[i][1]]
\* One level of the encoder; acc: [layers, input, out, bins, latency].
EncoderLevel(c, acc, i) ==
  LET joins == Recombo(c) = i - 1
      input == IF joins THEN acc.input * c.splits ELSE acc.input
      out == acc.out * c.mults[i]
      delay == RequiredStepwiseDelay(c.ratios[i][1], acc.latency)
  IN [layers |-> (IF joins THEN <<Parallel(acc.layers, c.splits)>> ELSE acc.layers)
                 \o (IF delay > 0 THEN <<Shifting("delay", delay)>> ELSE <<>>)
                 \o Conv2dResidualUnit(input, out, c.ratios[i], c.dilation, FALSE, PaddingOf(c), c.resnet),
      input |-> out, out |-> out, bins |-> acc.bins \div c.ratios[i][2],
      latency |-> (acc.latency + delay) \div c.ratios[i][1]]
EncoderInput(c, inputLatency) ==
  [layers |-> <<Conv2d(c.encoderDepth, <<c.convSize, c.convSize>>, <<1, 1>>, PaddingOf(c), <<1, 1>>)>>,
   input |-> c.encoderDepth, out |-> c.encoderDepth, bins |-> c.bins, latency |-> inputLatency]
EncoderLevels(c, inputLatency) ==
  LET after[n \in 0 .. Len(c.ratios)] ==
        IF n = 0 THEN EncoderInput(c, inputLatency) ELSE EncoderLevel(c, after[n - 1], n)
  IN after[Len(c.ratios)]
EncoderMakes(c) == c.encoderLookahead = 0 /\ RecomboInRange(c)
\* The layers after the levels, the groups become one if they have not yet.
EncoderEnd(c, r, joins) ==
  (IF joins THEN <<Parallel(r.layers, c.splits)>> ELSE r.layers)
  \o Conv2dResidualUnit(IF joins THEN r.input * c.splits ELSE r.input, r.out, <<1, 1>>, <<1, 1>>, FALSE,
                        PaddingOf(c), c.resnet)
  \o <<Flatten, ResidualOf(<<OneByOne(c.features)>>, <<OneByOne(r.bins * r.out), OneByOne(c.features)>>)>>
SpectrostreamEncoderConfig(c, inputLatency) ==
  EncoderEnd(c, EncoderLevels(c, inputLatency), Recombo(c) = Len(c.ratios))
JaxSpectrostreamEncoderConfig(c, inputLatency) == SpectrostreamEncoderConfig(c, inputLatency)

\* The decoder: the same levels from the last to the first; the layers made
\* after the groups part run in parallel.  acc: [layers, apart, input, out].
Parting(parts, layers, apart, wide, out) ==
  [layers |-> IF parts THEN <<>> ELSE layers, apart |-> IF parts THEN layers ELSE apart,
   input |-> wide, out |-> out]
LevelUp(c, acc, i, parts, wide, out) ==
  Parting(parts,
          acc.layers \o Conv2dResidualUnit(acc.input, wide, c.ratios[i], c.dilation, TRUE, PaddingOf(c), c.resnet),
          acc.apart, wide, out)
LevelUpTo(c, acc, i, parts, out) == LevelUp(c, acc, i, parts, IF parts THEN out * c.splits ELSE out, out)
DecoderLevel(c, acc, i) == LevelUpTo(c, acc, i, Recombo(c) = i - 1, RoundedRatio(acc.out, c.mults[i]))
DecoderBins(c) == c.bins \div ProductOf(Pick2(c.ratios))
DecoderMakes(c) ==
  /\ DecoderBins(c) * ProductOf(Pick2(c.ratios)) = c.bins
  /\ c.causal \/ c.lookahead = 0
  /\ RecomboInRange(c) /\ (c.splits > 0 => c.channels % c.splits = 0)
Ahead(c) == c.lookahead * ProductOf(Pick1(c.ratios))
DecoderInput(c, top, wide, width) ==
  <<ResidualOf(<<OneByOne(width)>>, <<OneByOne(width), OneByOne(width)>>), Reshape(DecoderBins(c), top)>>
  \o Conv2dResidualUnit(wide, wide, <<1, 1>>, <<1, 1>>, TRUE, PaddingOf(c), c.resnet)
DecoderLevels(c, start) ==
  LET after[n \in 0 .. Len(c.ratios)] ==
        IF n = 0 THEN start ELSE DecoderLevel(c, after[n - 1], Len(c.ratios) + 1 - n)
  IN after[Len(c.ratios)]
DecoderOutput(c) ==
  <<Conv2d(IF c.splits = 0 THEN c.channels ELSE c.channels \div c.splits,
           <<c.convSize, c.convSize>>, <<1, 1>>, PaddingOf(c), <<1, 1>>)>>
GroupsApart(c, r, layers) == IF c.splits = 0 THEN layers ELSE r.apart \o <<Parallel(layers, c.splits)>>
DecoderEnd(c, r) == GroupsApart(c, r, r.layers \o DecoderOutput(c))
DecoderFrom(c, parts, top, wide) ==
  DecoderEnd(c, DecoderLevels(c, Parting(parts, DecoderInput(c, top, wide, DecoderBins(c) * top), <<>>, wide, top)))
DecoderWide(c, parts, top) == DecoderFrom(c, parts, top, IF parts THEN top * c.splits ELSE top)
SpectrostreamDecoderConfig(c) ==
  DecoderWide(c, Recombo(c) = Len(c.ratios), c.decoderDepth * ProductOf(c.mults))
  \o (IF c.lookahead = 0 THEN <<>> ELSE <<Shifting("lookahead", Ahead(c))>>)
JaxSpectrostreamDecoderConfig(c) == SpectrostreamDecoderConfig(c)

--------------------------------------------------------------------------------
(* Shapes.                                                                 *)

NoShape == <<>>
ShapeOf(l, s) ==
  IF s = NoShape THEN NoShape ELSE
  CASE l.kind = "conv" ->
         IF s[2] + l.padded < l.reach THEN NoShape ELSE <<l.filters, (s[2] + l.padded - l.reach) \div l.strides[2] + 1>>
    [] l.kind = "transpose" -> <<l.filters, s[2] * l.strides[2]>>
    [] l.kind = "pool" -> IF s[2] < l.strides[2] THEN NoShape ELSE <<s[1], (s[2] - l.strides[2]) \div l.strides[2] + 1>>
    [] l.kind = "upsample" -> <<s[1], s[2] * l.strides[2]>>
    [] l.kind = "flatten" -> <<s[1] * s[2], 1>>
    [] l.kind = "reshape" -> IF s[1] * s[2] = l.bins * l.channels THEN <<l.channels, l.bins>> ELSE NoShape
    [] OTHER -> s
ShapeThrough(layers, s) ==
  LET shape[n \in 0 .. Len(layers)] == IF n = 0 THEN s ELSE ShapeOf(layers[n], shape[n - 1])
  IN shape[Len(layers)]
\* A residual adds two things of one shape.
Met(body, short) == IF body = short THEN body ELSE NoShape
ShapeOfBlock(l, s) ==
  IF l.kind # "residual" THEN ShapeOf(l, s) ELSE Met(ShapeThrough(l.body, s), ShapeThrough(l.short, s))
ShapeOfBlocks(layers, s) ==
  LET shape[n \in 0 .. Len(layers)] == IF n = 0 THEN s ELSE ShapeOfBlock(layers[n], shape[n - 1])
  IN shape[Len(layers)]
Together(groups, each) == IF each = NoShape THEN each ELSE <<groups * each[1], each[2]>>
ShapeOfLayer(l, s) ==
  IF s = NoShape THEN s
  ELSE IF l.kind # "parallel" THEN ShapeOfBlock(l, s)
  ELSE IF s[1] % l.groups # 0 THEN NoShape
  ELSE Together(l.groups, ShapeOfBlocks(l.layers, <<s[1] \div l.groups, s[2]>>))
ShapeAfter(layers, s) ==
  LET shape[n \in 0 .. Len(layers)] == IF n = 0 THEN s ELSE ShapeOfLayer(layers[n], shape[n - 1])
  IN shape[Len(layers)]

--------------------------------------------------------------------------------
(* Time.                                                                   *)

\* A parallel layer is, in time, the layers of its groups.
InTime(layers) ==
  LET after[n \in 0 .. Len(layers)] ==
        IF n = 0 THEN <<>>
        ELSE after[n - 1] \o (IF layers[n].kind = "parallel" THEN layers[n].layers ELSE <<layers[n]>>)
  IN after[Len(layers)]
TimeStride(l) == IF l.kind \in {"conv", "pool", "transpose", "upsample"} THEN l.strides[1] ELSE 1
Shrinks(l) == l.kind \in {"conv", "pool"}
LengthAfter(l, n) == IF Shrinks(l) THEN n \div TimeStride(l) ELSE n * TimeStride(l)
LengthThrough(layers, n) ==
  LET length[i \in 0 .. Len(layers)] == IF i = 0 THEN n ELSE LengthAfter(layers[i], length[i - 1])
  IN length[Len(layers)]
\* The past a layer keeps between steps, and how late a step's output is.
Kept(l) ==
  CASE l.kind = "conv" -> Larger(0, (l.kernel[1] - 1) * l.dilation[1] + 1 - l.strides[1])
    [] l.kind = "transpose" -> (l.kernel[1] - 1) \div l.strides[1]
    [] l.kind \in {"stft", "istft"} -> 1
    [] l.kind \in {"delay", "lookahead"} -> l.by
    [] OTHER -> 0
Late(l) == CASE l.kind = "stft" -> 1 [] l.kind \in {"delay", "lookahead"} -> l.by [] OTHER -> 0

Mix(window) ==
  (7 + SumOf([i \in DOMAIN window |-> IF window[i] = Absent THEN 0 ELSE (2 * i + 1) * window[i]])) % Prime
\* The input whose mask output t has.
Anchor(l, t) ==
  CASE l.kind \in {"conv", "pool"} -> t * l.strides[1]
    [] l.kind \in {"transpose", "upsample"} -> (t - 1) \div l.strides[1] + 1
    [] OTHER -> t
\* Output t of a layer; its input at time i is in[o + i], Absent outside it.
InputAt(in, i) == IF i \in DOMAIN in THEN in[i] ELSE Absent
OutputAt(l, in, o, t) ==
  IF InputAt(in, o + Anchor(l, t)) = Absent THEN Absent ELSE
  CASE l.kind = "conv" ->
         Mix([j \in 1 .. l.kernel[1] |-> InputAt(in, o + (t * l.strides[1] - (l.kernel[1] - j) * l.dilation[1]))])
    [] l.kind = "transpose" ->
         Mix([j \in 1 .. l.kernel[1] |->
                IF (t - j) % l.strides[1] = 0 THEN InputAt(in, o + ((t - j) \div l.strides[1] + 1)) ELSE Absent])
    [] l.kind = "pool" -> Mix([j \in 1 .. l.strides[1] |-> InputAt(in, o + ((t - 1) * l.strides[1] + j))])
    [] l.kind = "stft" -> Mix(<<InputAt(in, o + t), InputAt(in, o + (t + 1))>>)
    [] l.kind = "istft" -> Mix(<<InputAt(in, o + (t - 1)), InputAt(in, o + t)>>)
    [] l.kind = "lookahead" -> InputAt(in, o + (t + l.by))
    [] OTHER -> InputAt(in, o + Anchor(l, t))
Outputs(l, in, o, n, late) == Listed([t \in 1 .. LengthAfter(l, n) |-> OutputAt(l, in, o, t - late)])
Added(a, b) ==
  Listed([t \in DOMAIN a |-> IF a[t] = Absent \/ b[t] = Absent THEN Absent ELSE (2 * a[t] + b[t]) % Prime])

\* Over a whole sequence.
Whole(l, xs) == Outputs(l, xs, 0, Len(xs), 0)
\* What comes before a layer is worked out before its outputs.
NextWhole(l, last) == CHOOSE next \in {Whole(l, xs) : xs \in {last}} : TRUE
WholeThrough(layers, xs) ==
  LET after[n \in 0 .. Len(layers)] == IF n = 0 THEN xs ELSE NextWhole(layers[n], after[n - 1])
  IN after[Len(layers)]
WholeLayerOf(l, xs) ==
  IF l.kind = "residual" THEN Added(WholeThrough(l.body, xs), WholeThrough(l.short, xs)) ELSE Whole(l, xs)
NextWholeLayer(l, last) == CHOOSE next \in {WholeLayerOf(l, xs) : xs \in {last}} : TRUE
WholeTimed(timed, xs) ==
  LET after[n \in 0 .. Len(timed)] == IF n = 0 THEN xs ELSE NextWholeLayer(timed[n], after[n - 1])
  IN after[Len(timed)]
WholeCodec(layers, xs) == WholeTimed(InTime(layers), xs)

\* In step mode, on a block of frames, with the past kept from the last step.
Unheard(n) == [i \in 1 .. n |-> Absent]
FreshPast(layers) == [i \in DOMAIN layers |-> Unheard(Kept(layers[i]))]
Latest(all, n) == SubSeq(all, Len(all) - n + 1, Len(all))
StepOne(l, past, xs) ==
  LET all == past \o xs
  IN [out |-> Outputs(l, all, Len(past), Len(xs), Late(l)), past |-> Latest(all, Len(past))]
Onto(before, r) == [out |-> r.out, past |-> Append(before.past, r.past)]
NextStep(l, past, last) == CHOOSE next \in {Onto(before, StepOne(l, past, before.out)) : before \in {last}} : TRUE
StepThrough(layers, pasts, xs) ==
  LET after[n \in 0 .. Len(layers)] ==
        IF n = 0 THEN [out |-> xs, past |-> <<>>]
        ELSE NextStep(layers[n], pasts[n], after[n - 1])
  IN after[Len(layers)]
FreshLayer(l) ==
  IF l.kind = "residual" THEN [body |-> FreshPast(l.body), short |-> FreshPast(l.short)]
  ELSE [body |-> FreshPast(<<l>>), short |-> <<>>]
FreshTimed(timed) == [i \in DOMAIN timed |-> FreshLayer(timed[i])]
FreshCodec(layers) == FreshTimed(InTime(layers))
BodyOf(l) == IF l.kind = "residual" THEN l.body ELSE <<l>>
ShortOf(l) == IF l.kind = "residual" THEN l.short ELSE <<>>
SteppedLayer(l, body, short) ==
  [out |-> IF l.kind = "residual" THEN Added(body.out, short.out) ELSE body.out,
   past |-> [body |-> body.past, short |-> short.past]]
StepLayerOf(l, past, xs) ==
  SteppedLayer(l, StepThrough(BodyOf(l), past.body, xs), StepThrough(ShortOf(l), past.short, xs))
NextLayerStep(l, past, last) ==
  CHOOSE next \in {Onto(before, StepLayerOf(l, past, before.out)) : before \in {last}} : TRUE
StepTimed(timed, pasts, xs) ==
  LET after[n \in 0 .. Len(timed)] ==
        IF n = 0 THEN [out |-> xs, past |-> <<>>]
        ELSE NextLayerStep(timed[n], pasts[n], after[n - 1])
  IN after[Len(timed)]
StepCodec(layers, pasts, xs) == StepTimed(InTime(layers), pasts, xs)

--------------------------------------------------------------------------------
(* The residual vector quantizer, over numbers instead of vectors.         *)

\* q: [books (for each quantizer its embeddings), unique, truncation, encoded]
NoCodes == <<>>     \* a ValueError
Size(q) == Len(q.books[1])
NumExpectedOutputCodes(q) == IF q.encoded = Unset THEN Len(q.books) ELSE q.encoded
NumExpectedInputCodes(q) == IF q.truncation = Unset THEN Len(q.books) ELSE q.truncation
QuantizerMakes(q) == NumExpectedOutputCodes(q) <= Len(q.books) /\ NumExpectedInputCodes(q) <= Len(q.books)
JaxQuantizerMakes(q) == QuantizerMakes(q)
Distance(x, y) == (x - y) * (x - y)
Nearest(book, x) ==
  CHOOSE n \in DOMAIN book : \A m \in DOMAIN book :
    Distance(x, book[n]) < Distance(x, book[m]) \/ (Distance(x, book[n]) = Distance(x, book[m]) /\ n <= m)
\* Mutant: every quantizer sees the input, not what the ones before it left.
GreedyFromInput(q, x, n) == [i \in 1 .. n |-> Nearest(q.books[i], x) - 1]
\* Codes count from 0; each quantizer takes what the ones before it left.
Taken(acc, book, code) == [codes |-> Append(acc.codes, code - 1), residual |-> acc.residual - book[code]]
TakenNearest(acc, book) == Taken(acc, book, Nearest(book, acc.residual))
Greedy(q, x, n) ==
  LET after[i \in 0 .. n] ==
        IF i = 0 THEN [codes |-> <<>>, residual |-> x] ELSE TakenNearest(after[i - 1], q.books[i])
  IN after[n].codes
WithOffsets(q, codes) == IF q.unique THEN [i \in DOMAIN codes |-> codes[i] + (i - 1) * Size(q)] ELSE codes
EmbeddingsToCodes(q, x, asked) ==
  WithOffsets(q, Greedy(q, x, IF asked \in {Unset, 0} THEN NumExpectedOutputCodes(q) ELSE asked))
\* The JAX distances leave out the norm of the input.
JaxDistance(x, y) == y * y - 2 * x * y
JaxNearest(book, x) ==
  CHOOSE n \in DOMAIN book : \A m \in DOMAIN book :
    JaxDistance(x, book[n]) < JaxDistance(x, book[m]) \/ (JaxDistance(x, book[n]) = JaxDistance(x, book[m]) /\ n <= m)
QuantizedAs(book, code) == [value |-> book[code], code |-> code - 1]
JaxQuantize(book, x) == QuantizedAs(book, JaxNearest(book, x))
JaxTaken(acc, r) ==
  [codes |-> Append(acc.codes, r.code), sum |-> acc.sum + r.value, residual |-> acc.residual - r.value]
JaxTakenNearest(acc, book) == JaxTaken(acc, JaxQuantize(book, acc.residual))
JaxGreedy(q, x, n) ==
  LET after[i \in 0 .. n] ==
        IF i = 0 THEN [codes |-> <<>>, sum |-> 0, residual |-> x] ELSE JaxTakenNearest(after[i - 1], q.books[i])
  IN after[n]
\* The offsets are those of all the quantizers, however many codes there are:
\* one code spreads over them, other numbers do not fit.
JaxWithOffsets(q, codes) ==
  IF ~q.unique THEN codes
  ELSE IF Len(codes) \notin {1, Len(q.books)} THEN NoCodes
  ELSE [i \in DOMAIN q.books |-> codes[IF Len(codes) = 1 THEN 1 ELSE i] + (i - 1) * Size(q)]
JaxEmbeddingsToCodes(q, x, asked) ==
  JaxWithOffsets(q, JaxGreedy(q, x, IF asked = Unset THEN NumExpectedOutputCodes(q) ELSE asked).codes)
\* __call__() of the JAX quantizer: the sum of all the quantized residuals.
JaxQuantized(q, x) == JaxGreedy(q, x, Len(q.books)).sum
WithinBook(q, codes) == [i \in DOMAIN codes |-> IF q.unique THEN codes[i] % Size(q) ELSE codes[i]]
Accepted(q, codes) == Len(codes) <= NumExpectedInputCodes(q)
\* __call__() of the JAX codec decodes no more codes than are expected.
Truncated(q, codes) ==
  IF Len(codes) > NumExpectedInputCodes(q) THEN SubSeq(codes, 1, NumExpectedInputCodes(q)) ELSE codes
\* By a look-up for each code, or by one-hot codes padded to all the quantizers.
Decoded(q, w, gather) ==
  LET OneHot(i) == [n \in 1 .. Size(q) |-> IF i \in DOMAIN w /\ n - 1 = w[i] THEN 1 ELSE 0]
  IN IF gather THEN SumOf([i \in DOMAIN w |-> q.books[i][w[i] + 1]])
     ELSE SumOf([i \in DOMAIN q.books |-> SumOf([n \in 1 .. Size(q) |-> OneHot(i)[n] * q.books[i][n]])])
CodesToEmbeddings(q, codes, gather) == Decoded(q, WithinBook(q, codes), gather)
JaxCodesToEmbeddings(q, codes, gather) == CodesToEmbeddings(q, codes, gather)

--------------------------------------------------------------------------------
(* The codec.                                                              *)

WaveformToCodesRatio(c) == ProductOf(Pick1(c.ratios)) * c.step
\* How many times shorter, or longer, a layer makes time; groups run beside
\* each other.
StrideOf(l) == ProductOf([j \in DOMAIN BodyOf(l) |-> TimeStride(BodyOf(l)[j])])
StridesOf(layers) == [i \in DOMAIN layers |-> StrideOf(layers[i])]
StrideOfLayer(l) == IF l.kind = "parallel" THEN ProductOf(StridesOf(l.layers)) ELSE StrideOf(l)
OutputRatio(layers, step) == step * ProductOf([i \in DOMAIN layers |-> StrideOfLayer(layers[i])])
FrontendLatency == 1
\* [make (whether it can be made), encode, decode (layers), latency]
SpectroStreamOf(c) ==
  [makes |-> EncoderMakes(c) /\ DecoderMakes(c) /\ QuantizerMakes(c.quantizer) /\ SpectrostreamStftConfig(c) # Invalid,
   encode |-> <<SpectrostreamStftConfig(c)>> \o SpectrostreamEncoderConfig(c, FrontendLatency),
   decode |-> SpectrostreamDecoderConfig(c) \o <<SpectrostreamInverseStftConfig(c)>>,
   latency |-> EncoderLevels(c, FrontendLatency).latency]
JaxSpectroStreamOf(c) ==
  [makes |-> EncoderMakes(c) /\ DecoderMakes(c) /\ JaxQuantizerMakes(c.quantizer)
             /\ JaxSpectrostreamStftConfig(c) # Invalid,
   encode |-> <<JaxSpectrostreamStftConfig(c)>> \o JaxSpectrostreamEncoderConfig(c, FrontendLatency),
   decode |-> JaxSpectrostreamDecoderConfig(c) \o <<JaxSpectrostreamInverseStftConfig(c)>>,
   latency |-> EncoderLevels(c, FrontendLatency).latency]
\* An activation as the small number the books are about.
Embedding(e) == (e % 23) - 6
CodesOf(q, e) == Listed([t \in DOMAIN e |-> IF e[t] = Absent THEN NoCodes ELSE EmbeddingsToCodes(q, Embedding(e[t]), Unset)])
WaveformToCodes(codec, q, wave) == CodesOf(q, WholeCodec(codec.encode, wave))
CodesToWaveform(codec, q, codes) ==
  WholeCodec(codec.decode,
             Listed([t \in DOMAIN codes |-> IF codes[t] = NoCodes THEN Absent ELSE CodesToEmbeddings(q, codes[t], TRUE)]))
JaxCodesOf(q, e) ==
  Listed([t \in DOMAIN e |-> IF e[t] = Absent THEN NoCodes ELSE JaxEmbeddingsToCodes(q, Embedding(e[t]), Unset)])
JaxWaveformToCodes(codec, q, wave) == JaxCodesOf(q, WholeCodec(codec.encode, wave))
JaxCodesToWaveform(codec, q, codes) ==
  WholeCodec(codec.decode,
             Listed([t \in DOMAIN codes |-> IF codes[t] = NoCodes THEN Absent ELSE JaxCodesToEmbeddings(q, codes[t], FALSE)]))

StandardConfig(rvqTruncation, encodedTruncation, unique, books) ==
  [step |-> 480, length |-> 960, fft |-> 960, bins |-> 480, channels |-> 4, features |-> 256,
   ratios |-> <<<<1, 2>>, <<1, 2>>, <<1, 3>>, <<1, 2>>, <<1, 2>>, <<2, 2>>, <<2, 1>>>>,
   mults |-> <<2, 1, 2, 1, 1, 2, 1>>, dilation |-> <<1, 1>>, resnet |-> TRUE, causal |-> TRUE,
   splits |-> 2, recombo |-> -2, encoderDepth |-> 32, decoderDepth |-> 64, convSize |-> 7,
   encoderLookahead |-> 0, lookahead |-> 1,
   quantizer |-> [books |-> books, unique |-> unique, truncation |-> rvqTruncation, encoded |-> encodedTruncation]]
JaxStandardConfig(rvqTruncation, encodedTruncation, unique, books) ==
  StandardConfig(rvqTruncation, encodedTruncation, unique, books)
================================================================================
