------------------------------ MODULE Depthformer ------------------------------
(***************************************************************************)
(* The encoder-decoder of both backends (mlx/depthformer.py,               *)
(* jax/depthformer.py).  A frame of audio is one token per codebook level. *)
(* The temporal body turns the previous frame into the state of this one,  *)
(* the depth body makes its tokens level by level; the encoder's output is *)
(* the source of the temporal cross-attention.  With guidance every        *)
(* element of the batch has several lanes: the full conditioning, and one  *)
(* negative for each scale.                                                *)
(*                                                                         *)
(* A model d has the fields levels, size, reserved, sos, active (or        *)
(* Unset), encoder, temporal, depth (layers) and embedding.  A batch is a  *)
(* sequence of rows.  Embeddings, projections and the random generator are *)
(* fixed hashes; precision, soft caps and dropout are left out.            *)
(***************************************************************************)
EXTENDS Transformer, FiniteSets

--------------------------------------------------------------------------------
(* Batches and lanes.                                                      *)

NoBatch == <<>>     \* a ValueError: batches are never empty
SplitBatch(s, n) ==
  IF Len(s) % n # 0 THEN NoBatch
  ELSE [i \in 1 .. Len(s) \div n |-> SubSeq(s, (i - 1) * n + 1, i * n)]
MergeBatch(s) == FlattenSeq(s)
\* The state of a sampler is a tree with arrays of one batch size at its leaves.
SplitState(st, n) ==
  IF \E f \in DOMAIN st : SplitBatch(st[f], n) = NoBatch THEN Invalid
  ELSE [f \in DOMAIN st |-> SplitBatch(st[f], n)]
MergeState(st) == [f \in DOMAIN st |-> MergeBatch(st[f])]

\* Row i of every sequence, then row i + 1 of every sequence.
InterleaveSequences(ss) == FlattenSeq([i \in DOMAIN ss[1] |-> [k \in DOMAIN ss |-> ss[k][i]]])
\* s[::n], and a[:, ...] repeated n times along the batch
Strided(s, n) == [i \in 1 .. (Len(s) + n - 1) \div n |-> s[(i - 1) * n + 1]]
RepeatRows(s, n) == FlattenSeq([i \in DOMAIN s |-> [k \in 1 .. n |-> s[i]]])

\* get_prefixed_constants(), then sorted by key: f maps guidance names.
Sorted(f) ==
  LET Given(g) == IF g \in DOMAIN f THEN <<f[g]>> ELSE <<>> IN Given("musiccoca") \o Given("notes")
NoGuidance == <<>>

\* The JAX file has copies of its own.
JaxSplitBatch(s, n) == SplitBatch(s, n)
JaxMergeBatch(s) == MergeBatch(s)
JaxSplitState(st, n) ==
  IF \E f \in DOMAIN st : JaxSplitBatch(st[f], n) = NoBatch THEN Invalid
  ELSE [f \in DOMAIN st |-> JaxSplitBatch(st[f], n)]
JaxMergeState(st) == [f \in DOMAIN st |-> JaxMergeBatch(st[f])]
JaxInterleaveSequences(ss) == InterleaveSequences(ss)
JaxSorted(f) == Sorted(f)

--------------------------------------------------------------------------------
(* Sampling one level.                                                     *)

VocabSize(d) == d.reserved + d.levels * d.size
Masked == -1000000     \* get_large_negative_number()
\* The logit of token v is at v + 1.
Logits(d, h) == Listed([n \in 1 .. VocabSize(d) |-> (h * (2 * n + 1)) % 101])
\* A generator's numbers: a key is [seed, path].
PathSum(path) == SumOf([j \in DOMAIN path |-> (2 * j + 1) * (path[j] + 1)])
Noise(key, row, v) == (13 * key.seed + 29 * PathSum(key.path) + 7 * row + 5 * v) % 17
ArgMax(l) == (CHOOSE n \in DOMAIN l : \A m \in DOMAIN l : l[m] < l[n] \/ (l[m] = l[n] /\ n <= m)) - 1
KthLargest(l, k) ==
  CHOOSE x \in {l[v] : v \in DOMAIN l} :
    /\ Cardinality({v \in DOMAIN l : l[v] > x}) < k
    /\ Cardinality({v \in DOMAIN l : l[v] >= x}) >= k
AtLeastOrMasked(l, x) == Listed([n \in DOMAIN l |-> IF l[n] >= x THEN l[n] ELSE Masked])

\* new_logits = full + the sum of scale * (full - negative) over the negatives
Guided(rows, scales, arity, b) ==
  LET full == rows[(b - 1) * arity + 1]
      Push(i, n) == scales[(b - 1) * arity + i] * (full[n] - rows[(b - 1) * arity + i][n])
  IN Listed([n \in DOMAIN full |-> full[n] + SumOf([i \in 1 .. arity - 1 |-> Push(i + 1, n)])])
InRange(l, low, high) ==
  Listed([n \in DOMAIN l |-> IF n - 1 >= low /\ n - 1 < high THEN l[n] ELSE Masked])
TopK(l, k) ==
  LET kept == IF k < 1 THEN 1 ELSE IF k > Cardinality(DOMAIN l) THEN Cardinality(DOMAIN l) ELSE k
  IN AtLeastOrMasked(l, KthLargest(l, kept))
\* top_p in percent; the weight of a logit stands for its softmax.
Weight(x) == IF x <= Masked THEN 0 ELSE x + 1
Descending(l) == SetToSortSeq(DOMAIN l, LAMBDA v, w : l[v] > l[w] \/ (l[v] = l[w] /\ v < w))
Cutoff(weights, p) ==
  LET Cumulative(n) == SumOf([i \in 1 .. n |-> weights[i]])
  IN Cardinality({n \in DOMAIN weights : 100 * Cumulative(n) < p * Cumulative(Len(weights))})
LastOfTop(order, cutoff) == order[IF cutoff < Len(order) THEN cutoff + 1 ELSE Len(order)]
Nucleus(l, p, order) ==
  AtLeastOrMasked(l, l[LastOfTop(order, Cutoff([i \in DOMAIN order |-> Weight(l[order[i]])], p))])
TopP(l, p) == Nucleus(l, p, Descending(l))

\* k: [temperature, topk, topp] with a number for each row, topk or topp empty.
ByTopK(l, k, row) == IF k.topk = <<>> THEN l ELSE TopK(l, k.topk[row])
ByTopP(l, k, row) == IF k.topp = <<>> THEN l ELSE TopP(l, k.topp[row])
Drawn(l, temperature, key, place) ==
  ArgMax(Listed([n \in DOMAIN l |-> l[n] + Noise(key, place, n - 1) * temperature]))
\* Element b of the batch; place is its row of the noise made from key.
SampledFrom(rows, k, scales, arity, b, low, high, key, place) ==
  LET row == (b - 1) * arity + 1 IN
  Drawn(ByTopP(ByTopK(InRange(IF arity = 1 THEN rows[b] ELSE Guided(rows, scales, arity, b), low, high),
                      k, row), k, row),
        k.temperature[row], key, place)
Samplable(rows, k, arity) == (k.topk = <<>> \/ k.topp = <<>>) /\ Len(rows) % arity = 0
ArityOf(scales, guided) == IF scales = NoGuidance THEN 1 ELSE guided + 1
\* One key makes the noise of the whole batch.
Sampled(rows, k, key, scales, arity, low, high) ==
  IF ~Samplable(rows, k, arity) THEN NoBatch
  ELSE RepeatRows(Listed([b \in 1 .. Len(rows) \div arity |->
                            SampledFrom(rows, k, scales, arity, b, low, high, key, b)]), arity)
SampleCategorical(rows, k, keys, scales, guided, low, high) ==
  Sampled(rows, k, keys[1], scales, ArityOf(scales, guided), low, high)
\* With several keys, the noise of each element is made from its own.
JaxSampled(rows, k, own, scales, arity, low, high) ==
  IF ~Samplable(rows, k, arity) THEN NoBatch
  ELSE RepeatRows(Listed([b \in 1 .. Len(rows) \div arity |->
                            SampledFrom(rows, k, scales, arity, b, low, high,
                                        IF Len(own) = 1 THEN own[1] ELSE own[b], IF Len(own) = 1 THEN b ELSE 1)]), arity)
JaxSampleCategorical(rows, k, keys, scales, guided, low, high) ==
  JaxSampled(rows, k, Strided(keys, ArityOf(scales, guided)), scales, ArityOf(scales, guided), low, high)

--------------------------------------------------------------------------------
(* The decoder.                                                            *)

Embed(token) == (17 * token + 5) % Prime
FrameEmbedding(frame) == SumOf([q \in DOMAIN frame |-> Embed(frame[q])]) % Prime
Sos(d) == [q \in 1 .. d.levels |-> d.sos]
JaxSos(d) == Sos(d)
ValidFrom(d, q) == d.reserved + (q - 1) * d.size

\* Keys: MLX makes one from a number for each row and splits it after every
\* level, JAX splits one for the batch and folds the step into it.
DecoderState(d, n) ==
  [rng |-> [i \in 1 .. n |-> [seed |-> 41 + i, path |-> <<>>]],
   frame |-> [i \in 1 .. n |-> Sos(d)],
   temporal |-> [i \in 1 .. n |-> FreshStack(d.temporal)], step |-> [i \in 1 .. n |-> 0]]
JaxDecoderState(d, n) ==
  [rng |-> [i \in 1 .. n |-> [seed |-> i, path |-> <<>>]],
   frame |-> [i \in 1 .. n |-> JaxSos(d)],
   temporal |-> [i \in 1 .. n |-> FreshStack(d.temporal)], step |-> [i \in 1 .. n |-> 0]]
\* Mutant: a row keeps its key from level to level.
SplitKeyKept(key, step) == key
SplitKey(key, step) == [key EXCEPT !.path = Append(@, 0)]
FoldIn(key, step) == [key EXCEPT !.path = Append(@, step)]

\* The scale of each lane, ordered by batch element and then by key.
OnLanes(sorted, n, arity) ==
  LET Batch(v) == IF Len(v) = n THEN Strided(v, arity) ELSE RepeatRows(v, n \div arity)
  IN IF arity = 1 THEN NoGuidance
     ELSE InterleaveSequences(
            <<[i \in 1 .. n \div arity |-> 0]>> \o [j \in 1 .. arity - 1 |-> Batch(sorted[j])])
LaneScales(scales, n) == OnLanes(Sorted(scales), n, Cardinality(DOMAIN scales) + 1)

\* Teacher forcing: what the depth body puts out for each level of each frame
\* of one row, reading the frames as given.
LayerWithEmits(d, frames, source) ==
  LET inputs == Listed([t \in DOMAIN frames |-> FrameEmbedding(IF t = 1 THEN Sos(d) ELSE frames[t - 1])])
      temporal == WholeStack(d.temporal, inputs, source)
      DepthInputs(t) ==
        <<temporal[t]>> \o [q \in 1 .. Len(frames[t]) - 1 |-> Embed(frames[t][q])]
  IN Listed([t \in DOMAIN frames |-> WholeStack(d.depth, DepthInputs(t), <<>>)])
JaxLayerWithEmits(d, frames, source) ==
  LET padded == <<JaxSos(d)>> \o frames
      inputs == Listed([t \in DOMAIN frames |-> FrameEmbedding(padded[t])])
      temporal == WholeStack(d.temporal, inputs, source)
  IN Listed([t \in DOMAIN frames |->
               WholeStack(d.depth,
                          <<temporal[t]>> \o [q \in 1 .. d.levels - 1 |-> Embed(padded[t + 1][q])], <<>>)])

\* Mutant: every lane reads the conditioning of the first.
TemporalStepFirst(d, st, source) ==
  [i \in DOMAIN st.frame |->
     StepStack(d.temporal, st.temporal[i], FrameEmbedding(st.frame[i]), source[1])]
\* The rows of the temporal body for one frame; the input of the step is not
\* used, the previous frame is in the state.
TemporalStep(d, st, source) ==
  Listed([i \in DOMAIN st.frame |->
            StepStack(d.temporal, st.temporal[i], FrameEmbedding(st.frame[i]), source[i])])
\* The levels of one frame: acc carries samples, states, inputs and keys.
LevelDone(acc, r, token, keys) ==
  [samples |-> Append(acc.samples, token), states |-> Listed([i \in DOMAIN r |-> r[i].s]),
   inputs |-> Listed([i \in DOMAIN r |-> Embed(token[i])]), rng |-> keys]
LevelSampled(d, acc, r, q, Sample(_, _, _), NextKey(_)) ==
  LevelDone(acc, r, Sample(Listed([i \in DOMAIN r |-> Logits(d, r[i].out)]), acc.rng, q), NextKey(acc.rng))
DepthRows(d, acc) ==
  Listed([i \in DOMAIN acc.inputs |-> StepStack(d.depth, acc.states[i], acc.inputs[i], Absent)])
DepthStart(d, temporal, rng) ==
  [samples |-> <<>>, states |-> [i \in DOMAIN temporal |-> FreshStack(d.depth)],
   inputs |-> [i \in DOMAIN temporal |-> temporal[i].out], rng |-> rng]
DepthLoop(d, active, temporal, rng, Sample(_, _, _), NextKey(_)) ==
  LET after[q \in 0 .. active] ==
        IF q = 0 THEN DepthStart(d, temporal, rng)
        ELSE LET acc == after[q - 1] IN LevelSampled(d, acc, DepthRows(d, acc), q, Sample, NextKey)
  IN after[active]
Transposed(samples, n) == [i \in 1 .. n |-> [q \in DOMAIN samples |-> samples[q][i]]]

\* The levels that are not sampled get the first token of their own.
Padding(d, active, n) == [q \in 1 .. d.levels - active |-> [i \in 1 .. n |-> ValidFrom(d, active + q)]]
AfterFrame(st, temporal, rng, frame) ==
  [rng |-> rng, frame |-> frame, temporal |-> [i \in DOMAIN temporal |-> temporal[i].s],
   step |-> [i \in DOMAIN st.step |-> st.step[i] + 1]]
AfterLevels(st, temporal, loop, padding) ==
  AfterFrame(st, temporal, loop.rng, Transposed(loop.samples \o padding, Len(temporal)))
ActiveLevelsOf(d) == IF d.active \in {Unset, 0} THEN d.levels ELSE d.active
FrameSampled(d, st, temporal, k, scales) ==
  LET Sample(rows, keys, q) ==
        SampleCategorical(rows, k, keys, scales, Cardinality(DOMAIN k.scales),
                          ValidFrom(d, q), ValidFrom(d, q) + d.size)
  IN AfterLevels(st, temporal,
                 DepthLoop(d, ActiveLevelsOf(d), temporal, st.rng, Sample,
                           LAMBDA keys : [i \in DOMAIN keys |-> SplitKey(keys[i], st.step[i])]),
                 Padding(d, ActiveLevelsOf(d), Len(temporal)))
\* k: [temperature, topk, topp, scales (guidance name -> numbers)]
\* forced: a frame for each row, or <<>>.
FrameOf(d, st, temporal, k, forced) ==
  IF forced # <<>> THEN AfterFrame(st, temporal, st.rng, forced)
  ELSE FrameSampled(d, st, temporal, k, LaneScales(k.scales, Len(st.frame)))
StepWithEmits(d, st, source, k, forced) == FrameOf(d, st, TemporalStep(d, st, source), k, forced)
JaxFrameSampled(d, st, temporal, k, scales) ==
  LET Sample(rows, keys, q) ==
        JaxSampleCategorical(rows, k, keys, scales, Cardinality(DOMAIN k.scales),
                             ValidFrom(d, q), ValidFrom(d, q) + d.size)
  IN AfterLevels(st, temporal,
                 DepthLoop(d, d.levels, temporal, st.rng, Sample,
                           LAMBDA keys : [i \in DOMAIN keys |-> FoldIn(keys[i], st.step[i])]),
                 <<>>)
JaxStepWithEmits(d, st, source, k) ==
  JaxFrameSampled(d, st, TemporalStep(d, st, source), k, LaneScales(k.scales, Len(st.frame)))

--------------------------------------------------------------------------------
(* The encoder and the sampler.                                            *)

\* A row of conditioning tokens: each branch embeds the channels after from, up
\* to to, with a table of its own.
Encoded(d, tokens) ==
  SumOf([b \in DOMAIN d.embedding |->
    LET e == d.embedding[b] IN
    SumOf([i \in 1 .. e.to - e.from |-> Embed(1000 * b + RowOf(e, tokens[e.from + i], i))])]) % Prime
JaxEncoded(d, tokens) ==
  SumOf([b \in DOMAIN d.embedding |->
    LET e == d.embedding[b] IN
    SumOf([i \in 1 .. e.to - e.from |-> Embed(1000 * b + JaxRowOf(e, tokens[e.from + i], i))])]) % Prime
\* EncoderDecoder.encode(), over a whole sequence.
Encode(d, source) == WholeStack(d.encoder, Listed([t \in DOMAIN source |-> Encoded(d, source[t])]), <<>>)
JaxEncode(d, source) == WholeStack(d.encoder, Listed([t \in DOMAIN source |-> JaxEncoded(d, source[t])]), <<>>)

\* EncoderDecoder.__call__(): training, the target is forced.
JaxCall(d, frames, source) == JaxLayerWithEmits(d, frames, JaxEncode(d, source))

EncoderLookahead == 0
InLanes(st, lanes) == IF lanes = 1 THEN st ELSE SplitState(st, lanes)
SamplerState(d, n, scales) ==
  LET lanes == Cardinality(DOMAIN scales) + 1
      all == n * lanes
  IN InLanes(Extended(DecoderState(d, all),
                      [encoder |-> [i \in 1 .. all |-> FreshStack(d.encoder)],
                       previous |-> [i \in 1 .. all |-> Sos(d)],
                       countdown |-> [i \in 1 .. all |-> EncoderLookahead]]), lanes)
JaxInLanes(st, lanes) == IF lanes = 1 THEN st ELSE JaxSplitState(st, lanes)
JaxSamplerState(d, n, scales) ==
  LET all == n * (Cardinality(DOMAIN scales) + 1)
  IN JaxInLanes(Extended(JaxDecoderState(d, all),
                         [encoder |-> [i \in 1 .. all |-> FreshStack(d.encoder)],
                          previous |-> [i \in 1 .. all |-> JaxSos(d)],
                          countdown |-> [i \in 1 .. all |-> EncoderLookahead]]), all \div n)

\* The rows of x with their negatives, in the order of the scales; zeros for
\* negatives that were not given.
LaneInputs(x, negatives, scales) ==
  LET zeros == [i \in DOMAIN x |-> [c \in DOMAIN x[i] |-> 0]] IN
  IF DOMAIN scales = {} THEN x
  ELSE IF DOMAIN negatives = {}
       THEN InterleaveSequences(<<x>> \o [j \in 1 .. Cardinality(DOMAIN scales) |-> zeros])
  ELSE IF DOMAIN negatives # DOMAIN scales THEN NoBatch
  ELSE InterleaveSequences(<<x>> \o Sorted(negatives))
JaxLaneInputs(x, negatives, scales) ==
  LET zeros == [i \in DOMAIN x |-> [c \in DOMAIN x[i] |-> 0]] IN
  IF DOMAIN scales = {} THEN x
  ELSE IF DOMAIN negatives \notin {{}, DOMAIN scales} THEN NoBatch
  ELSE JaxInterleaveSequences(
         <<x>> \o (IF DOMAIN negatives = {} THEN [j \in 1 .. Cardinality(DOMAIN scales) |-> zeros]
                   ELSE Sorted(negatives)))
\* Constants with a batch dimension are repeated for the lanes.
LaneConstants(k, arity) ==
  LET R(v) == RepeatRows(v, arity) IN
  [temperature |-> R(k.temperature), topk |-> R(k.topk), topp |-> R(k.topp),
   scales |-> [g \in DOMAIN k.scales |-> R(k.scales[g])]]

EncoderStep(d, st, embedded) ==
  [i \in DOMAIN embedded |-> StepStack(d.encoder, st.encoder[i], embedded[i], Absent)]
\* What the step gives to the next one; the input a decoder is given counts
\* down and is masked until then, but it takes no notice of it.
NextPrevious(st, frame) ==
  [i \in DOMAIN st.previous |-> IF st.countdown[i] > 0 THEN st.previous[i] ELSE frame[i]]
CountDown(st) == [i \in DOMAIN st.countdown |-> Larger(0, st.countdown[i] - 1)]

NextState(st, enc, dec) ==
  Extended(dec, [encoder |-> [i \in DOMAIN enc |-> enc[i].s], previous |-> NextPrevious(st, dec.frame),
                 countdown |-> CountDown(st)])
\* The first lane is put out; st is next with its lanes apart.
Emitted(arity, next, st) == IF st = Invalid THEN Invalid ELSE [out |-> Strided(next.frame, arity), st |-> st]
Emit(arity, next) == Emitted(arity, next, InLanes(next, arity))
JaxEmit(arity, next) == Emitted(arity, next, JaxInLanes(next, arity))
StepEncoded(d, st, enc, k, forced) ==
  NextState(st, enc, StepWithEmits(d, st, [i \in DOMAIN enc |-> enc[i].out], k, forced))
JaxStepEncoded(d, st, enc, k) ==
  NextState(st, enc, JaxStepWithEmits(d, st, [i \in DOMAIN enc |-> enc[i].out], k))
StepRows(d, st, rows, k, forced, arity) ==
  IF rows = NoBatch THEN Invalid
  ELSE Emit(arity, StepEncoded(d, st, EncoderStep(d, st, [i \in DOMAIN rows |-> Encoded(d, rows[i])]), k, forced))
JaxStepRows(d, st, rows, k, arity) ==
  IF rows = NoBatch THEN Invalid
  ELSE JaxEmit(arity, JaxStepEncoded(d, st, EncoderStep(d, st, [i \in DOMAIN rows |-> JaxEncoded(d, rows[i])]), k))

\* One frame: [out (a frame for each element), st].
SamplerStep(d, st, x, k, negatives, forced) ==
  LET arity == Cardinality(DOMAIN k.scales) + 1
  IN StepRows(d, IF arity = 1 THEN st ELSE MergeState(st), LaneInputs(x, negatives, k.scales),
              IF arity = 1 THEN k ELSE LaneConstants(k, arity), forced, arity)
JaxSamplerStep(d, st, x, k, negatives) ==
  LET arity == Cardinality(DOMAIN k.scales) + 1
  IN JaxStepRows(d, IF DOMAIN k.scales = {} THEN st ELSE JaxMergeState(st),
                 JaxLaneInputs(x, negatives, k.scales), LaneConstants(k, arity), arity)
\* Both files fold a sequence of frames only in JAX; MLX refuses it.
JaxSamplerSteps(d, st, xs, k, negatives) ==
  FoldLeft(LAMBDA acc, x : LET r == JaxSamplerStep(d, acc.st, x, k, negatives)
                           IN [out |-> Append(acc.out, r.out), st |-> r.st],
           [out |-> <<>>, st |-> st], xs)
================================================================================
