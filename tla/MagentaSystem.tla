----------------------------- MODULE MagentaSystem -----------------------------
(***************************************************************************)
(* generate() of the systems (mlx/system.py, jax/system.py) and of the     *)
(* exported function (mlx/export.py): a call takes a state or none, makes  *)
(* some frames with one conditioning, and returns the state to go on from. *)
(* The caller may go on from any state it holds, from the same one again,  *)
(* or after a call that failed.  The JAX step donates the state it is      *)
(* given; the exported function has the guidance of the decoder, two       *)
(* negatives beside the conditioning, in its state.                        *)
(***************************************************************************)
EXTENDS RealtimeModel

CONSTANTS
  Model,         \* the model class (a small one with the fields of ModelBase)
  ActiveLevels,  \* num_codebooks of the export, or Unset
  Requests,      \* what callers ask: [style, notes, drums, scales]
  FrameCounts,   \* frames of a call
  MaxCalls, MaxStream   \* bounds: calls, frames behind a state

TokensFields ==
  [codebook: Nat \ {0}, levels: Nat, used: Nat \ {0}, extra: {NumReservedTokens}, dropout: BOOLEAN]
\* The export's codebooks are a reduction of the model's, codes are refused of
\* a codebook smaller than the reserved tokens, and there is a token for a
\* modality that is left out.
ASSUMPTION SystemAssumption ==
  /\ Model.layers \in Nat \ {0} /\ Model.depthLayers \in Nat \ {0}
  /\ Model.past \in Nat /\ Model.xpast \in Nat /\ Model.rope \in BOOLEAN
  /\ {TargetTokens(Model), JaxTargetTokens(Model)} \subseteq TokensFields
  /\ \A t \in {TargetTokens(Model), JaxTargetTokens(Model)} : t.codebook >= NumReservedTokens
  /\ Model.pretrained \in BOOLEAN /\ Model.inputs \in Seq(TokensFields) /\ Len(Model.inputs) = 5
  /\ (\A i \in 1 .. 3 : Model.inputs[i].dropout) /\ Model.inputs[4].used = 2 /\ Model.inputs[5].used = 1
  /\ ActiveLevels \in {Unset} \cup 0 .. TargetTokens(Model).used
  /\ FrameCounts \subseteq Nat /\ MaxCalls \in Nat /\ MaxStream \in Nat
\* In tenths; documented are -10 .. 70, unchecked.  A scale so large that a
\* guided logit is as low as the mask, a finite number, is left out.
ScaleRange == -4000 .. 4000
ASSUMPTION AskedAssumption ==
  Requests \subseteq
    [style: Seq(Int), notes: Seq(Int), drums: Seq(Int),
     scales: [{"musiccoca", "notes", "drums"} -> ScaleRange]]

VARIABLES
  backend,   \* "mlx", "jax" or "mlxfn"
  depthformer,  \* the model it builds
  held,      \* the states callers hold: [st, log, gone]
  call,      \* the call running: [from, left, asked, request, st, log], or NoCall
  calls      \* calls so far

mvars == <<backend, depthformer, held, call, calls>>

--------------------------------------------------------------------------------
(* Conditioning.                                                           *)

StyleTokens == Model.inputs[1].used
NoteTokens == Model.inputs[2].used
DrumTokens == Model.inputs[3].used
Fill(n, v) == [i \in 1 .. n |-> v]

Clamp(low, high, v) == IF v < low THEN low ELSE IF v > high THEN high ELSE v
\* Scales are in tenths: [-1.0, 7.0] is -10 .. 70.
DiscretizeCfg(v, step, top) == Clamp(0, top, RoundedRatio(Clamp(-10, 70, v) + 10, step))
JaxDiscretizeCfg(v, step, top) == DiscretizeCfg(v, step, top)
DiscretizeCfgToken(v, step, top, offset) == offset + Clamp(0, top, RoundedRatio(Clamp(-10, 70, v) + 10, step))
DefaultScales == [musiccoca |-> 30, notes |-> 10, drums |-> 10]

\* None, a short or a long list; then the length is the model's.
PaddedStyle(style) ==
  LET tokens == IF style = <<>> THEN Fill(StyleTokens, -1) ELSE style
  IN SubSeq(tokens \o Fill(StyleTokens, -1), 1, StyleTokens)
OrMasked(list, n) == IF list = <<>> THEN Fill(n, -1) ELSE list
Shifted(tokens) == [i \in DOMAIN tokens |-> tokens[i] + NumReservedTokens + 1]
\* The assertions of _build_conditioning().
WellFormed(r) == Len(OrMasked(r.notes, NoteTokens)) = NoteTokens /\ Len(OrMasked(r.drums, DrumTokens)) = DrumTokens
Scale(r, g) == IF r.scales[g] = Unset THEN DefaultScales[g] ELSE r.scales[g]

\* [x, k, negatives] for a step of the decoder.
BuildConditioning(r) ==
  [x |-> <<Shifted(PaddedStyle(r.style) \o OrMasked(r.notes, NoteTokens) \o OrMasked(r.drums, DrumTokens)
                   \o <<DiscretizeCfg(Scale(r, "musiccoca"), 2, 40), DiscretizeCfg(Scale(r, "notes"), 2, 40),
                        DiscretizeCfg(Scale(r, "drums"), 10, 8)>>)>>,
   k |-> [temperature |-> <<2>>, topk |-> <<3>>, topp |-> <<>>, scales |-> <<>>], negatives |-> <<>>]
JaxBuildConditioning(r) ==
  [x |-> <<Shifted(PaddedStyle(r.style) \o OrMasked(r.notes, NoteTokens) \o OrMasked(r.drums, DrumTokens)
                   \o <<JaxDiscretizeCfg(Scale(r, "musiccoca"), 2, 40), JaxDiscretizeCfg(Scale(r, "notes"), 2, 40),
                        JaxDiscretizeCfg(Scale(r, "drums"), 10, 8)>>)>>,
   k |-> [temperature |-> <<2>>, topk |-> <<3>>, topp |-> <<>>, scales |-> <<>>], negatives |-> <<>>]
\* The arguments of the exported function, and what it makes of them: each
\* negative is the conditioning with one modality masked.
BuildMlxfnArgs(r) ==
  LET style == PaddedStyle(r.style)
      notes == OrMasked(r.notes, NoteTokens)
      drums == OrMasked(r.drums, DrumTokens)
  IN [cond |-> Shifted(style \o notes \o drums),
      musiccoca |-> Shifted(Fill(Len(style), -1) \o notes \o drums),
      notes |-> Shifted(style \o Fill(Len(notes), -1) \o drums),
      scales |-> [g \in {"musiccoca", "notes", "drums"} |-> Scale(r, g)]]
StreamingConstants(a) ==
  LET offset == NumReservedTokens + 1
      cfg == <<DiscretizeCfgToken(a.scales.musiccoca, 2, 40, offset),
               DiscretizeCfgToken(a.scales.notes, 2, 40, offset),
               DiscretizeCfgToken(a.scales.drums, 10, 8, offset)>>
  IN [x |-> <<a.cond \o cfg>>,
      k |-> [temperature |-> <<2>>, topk |-> <<3>>, topp |-> <<>>,
             scales |-> [g \in {"musiccoca", "notes"} |-> <<a.scales[g]>>]],
      negatives |-> [musiccoca |-> <<a.musiccoca \o cfg>>, notes |-> <<a.notes \o cfg>>]]

--------------------------------------------------------------------------------
(* Steps.                                                                  *)

FlattenState(st) ==
  <<st.encoder, st.previous, st.rng, st.frame, st.temporal, st.step, st.countdown>>
UnflattenState(flat) ==
  [encoder |-> flat[1], previous |-> flat[2], rng |-> flat[3], frame |-> flat[4],
   temporal |-> flat[5], step |-> flat[6], countdown |-> flat[7]]

MlxDepth == DepthformerConfig(Model, Unset, Unset)
MlxfnDepth == DepthformerConfig(Model, ActiveLevels, Unset)
JaxDepth == JaxDepthformerConfig(Model)
DepthformerOf(b) == CASE b = "mlx" -> MlxDepth [] b = "jax" -> JaxDepth [] OTHER -> MlxfnDepth
Conditioning(r) ==
  CASE backend = "mlx" -> BuildConditioning(r)
    [] backend = "jax" -> JaxBuildConditioning(r)
    [] OTHER -> StreamingConstants(BuildMlxfnArgs(r))
InitialState ==
  CASE backend = "mlx" -> SamplerState(depthformer, 1, <<>>)
    [] backend = "jax" -> JaxSamplerState(depthformer, 1, <<>>)
    [] OTHER -> FlattenState(SamplerState(depthformer, 1, [musiccoca |-> <<30>>, notes |-> <<10>>]))
Flat(r) == [out |-> r.out, st |-> FlattenState(r.st)]
Step(st, c) == SamplerStep(depthformer, st, c.x, c.k, c.negatives, <<>>)
StreamingStep(flat, a) == Flat(Step(UnflattenState(flat), StreamingConstants(a)))
JaxStep(st, c) == JaxSamplerStep(depthformer, st, c.x, c.k, c.negatives)
StepOf(st, r) ==
  CASE backend = "mlx" -> Step(st, BuildConditioning(r))
    [] backend = "jax" -> JaxStep(st, JaxBuildConditioning(r))
    [] OTHER -> StreamingStep(st, BuildMlxfnArgs(r))
\* The lanes of a state: rng and frame of each.
LanesOf(st) ==
  LET s == IF backend = "mlxfn" THEN UnflattenState(st) ELSE st
  IN IF backend = "mlxfn" THEN [rng |-> s.rng[1], frame |-> s.frame[1]] ELSE [rng |-> s.rng, frame |-> s.frame]

--------------------------------------------------------------------------------
(* Calls.                                                                  *)

NoCall == [from |-> 0, left |-> 0, asked |-> 0, request |-> <<>>, st |-> <<>>, log |-> <<>>]
Idle == call = NoCall
SystemInit ==
  /\ backend \in {"mlx", "jax", "mlxfn"}
  /\ depthformer = DepthformerOf(backend)
  /\ held = <<>>
  /\ call = NoCall
  /\ calls = 0

\* generate(): the conditioning is built, a state made if none is given.
Generate ==
  /\ Idle /\ calls < MaxCalls
  /\ \E from \in 0 .. Len(held), r \in Requests, n \in FrameCounts :
       /\ WellFormed(r)
       /\ n + (IF from = 0 THEN 0 ELSE Len(held[from].log)) <= MaxStream
       /\ call' = [from |-> from, left |-> n, asked |-> n, request |-> r,
                   st |-> IF from = 0 THEN InitialState ELSE held[from].st,
                   log |-> IF from = 0 THEN <<>> ELSE held[from].log]
  /\ calls' = calls + 1
  /\ UNCHANGED <<backend, depthformer, held>>
\* A list of the wrong length: nothing was done.
GenerateRefused ==
  /\ Idle /\ calls < MaxCalls
  /\ \E r \in Requests : ~WellFormed(r)
  /\ calls' = calls + 1
  /\ UNCHANGED <<backend, depthformer, held, call>>

\* The first step of a call takes the caller's buffers in JAX.
Donated(h) == IF backend = "jax" /\ h > 0 THEN [held EXCEPT ![h].gone = TRUE] ELSE held
FirstStep == call.left = call.asked
StepFrame ==
  /\ ~Idle /\ call.left > 0
  /\ ~(FirstStep /\ call.from > 0 /\ held[call.from].gone)
  /\ \E r \in {StepOf(call.st, call.request)} :
       call' = [call EXCEPT !.left = @ - 1, !.st = r.st,
                            !.log = Append(@, [request |-> call.request, tokens |-> r.out[1],
                                               keys |-> LanesOf(call.st).rng,
                                               lanes |-> LanesOf(r.st).frame])]
  /\ held' = IF FirstStep THEN Donated(call.from) ELSE held
  /\ UNCHANGED <<backend, depthformer, calls>>
\* The buffers were donated before: the step raises.
StepDeleted ==
  /\ ~Idle /\ call.left > 0 /\ FirstStep /\ call.from > 0 /\ held[call.from].gone
  /\ call' = NoCall
  /\ UNCHANGED <<backend, depthformer, held, calls>>
\* A step fails, or the caller is interrupted; the step may have taken its
\* buffers by then.
StepFails ==
  /\ ~Idle /\ call.left > 0
  /\ call' = NoCall
  /\ \E taken \in BOOLEAN : held' = IF taken /\ FirstStep THEN Donated(call.from) ELSE held
  /\ UNCHANGED <<backend, depthformer, calls>>
\* The time for each frame is worked out of the frames asked for: none is an
\* error, after the fact.
Return ==
  /\ ~Idle /\ call.left = 0
  /\ held' = IF call.asked = 0 THEN held
             ELSE Append(held, [st |-> call.st, log |-> call.log, gone |-> FALSE])
  /\ call' = NoCall
  /\ UNCHANGED <<backend, depthformer, calls>>

SystemNext == Generate \/ GenerateRefused \/ StepFrame \/ StepDeleted \/ StepFails \/ Return
SystemSpec == SystemInit /\ [][SystemNext]_mvars

--------------------------------------------------------------------------------
(* Properties.                                                             *)

SystemTypeOK ==
  /\ backend \in {"mlx", "jax", "mlxfn"}
  /\ calls \in 0 .. MaxCalls /\ call.left \in 0 .. call.asked
  /\ \A h \in DOMAIN held :
       /\ Len(held[h].log) \in 1 .. MaxStream
       /\ \A t \in DOMAIN held[h].log :
            /\ Len(held[h].log[t].tokens) = depthformer.levels
            /\ Len(held[h].log[t].lanes) = Len(held[h].log[t].keys)

\* convert_from_unique_codes()
ConvertFromUniqueCodes(tokens, size) ==
  IF size < NumReservedTokens THEN <<>>
  ELSE [q \in DOMAIN tokens |-> (tokens[q] - NumReservedTokens) % size]
JaxConvertFromUniqueCodes(tokens, size) ==
  IF size < NumReservedTokens THEN <<>>
  ELSE [q \in DOMAIN tokens |-> (tokens[q] - NumReservedTokens) % size]

LanesWith(c) ==
  IF backend = "jax" THEN JaxLaneInputs(c.x, c.negatives, c.k.scales)
  ELSE LaneInputs(c.x, c.negatives, c.k.scales)
\* The stream of a state is what the model trained with teacher forcing gives:
\* each token is the one sampled, with the keys of its step, from the logits of
\* LayerWithEmits over the whole history, on every lane.  So the caches lose
\* nothing across steps, calls, failures and changes of conditioning.
Trained(frames, source) ==
  IF backend = "jax" THEN JaxCall(depthformer, frames, source)
  ELSE LayerWithEmits(depthformer, frames, Encode(depthformer, source))
LogitsOfLanes(log, sources) ==
  Listed([i \in DOMAIN log[1].lanes |->
            Trained(Listed([t \in DOMAIN log |-> log[t].lanes[i]]), Listed([t \in DOMAIN log |-> sources[t][i]]))])
\* The key of level q: every level before it went one step down from the key
\* of the frame.
KeysAt(log, t, q) ==
  [i \in DOMAIN log[t].keys |->
     [log[t].keys[i] EXCEPT !.path = @ \o [j \in 1 .. q - 1 |-> IF backend = "jax" THEN t - 1 ELSE 0]]]
SampledAt(rows, k, keys, scales, from) ==
  IF backend = "jax"
  THEN JaxSampleCategorical(rows, k, keys, scales, Len(rows) - 1, from, from + depthformer.size)
  ELSE SampleCategorical(rows, k, keys, scales, Len(rows) - 1, from, from + depthformer.size)
TokensFrom(rows, k, keys, q) ==
  SampledAt(rows, k, keys, LaneScales(k.scales, Len(rows)), ValidFrom(depthformer, q))
StreamIsTrained ==
  Idle => \A h \in DOMAIN held :
    \A conds \in {Listed([t \in DOMAIN held[h].log |-> Conditioning(held[h].log[t].request)])} :
    \A emits \in {LogitsOfLanes(held[h].log, Listed([t \in DOMAIN conds |-> LanesWith(conds[t])]))} :
    \A t \in DOMAIN held[h].log, q \in 1 .. ActiveLevelsOf(depthformer) :
      [i \in DOMAIN emits |-> held[h].log[t].lanes[i][q]]
      = TokensFrom(Listed([i \in DOMAIN emits |-> Logits(depthformer, emits[i][t][q])]),
                   LaneConstants(conds[t].k, Len(emits)), KeysAt(held[h].log, t, q), q)

\* States with the same conditioning behind them have made the same audio,
\* however their frames were cut into calls, whatever failed in between, and
\* whichever state was used twice.
SameRequestsSameTokens ==
  \A g, h \in DOMAIN held :
    (\A t \in DOMAIN held[g].log \cap DOMAIN held[h].log : held[g].log[t].request = held[h].log[t].request)
      => \A t \in DOMAIN held[g].log \cap DOMAIN held[h].log : held[g].log[t].tokens = held[h].log[t].tokens

\* No noise is drawn twice from a key in a stream.
FreshNoise ==
  \A h \in DOMAIN held :
    \A t, u \in DOMAIN held[h].log, q, p \in 1 .. ActiveLevelsOf(depthformer) :
      <<t, q>> # <<u, p>> => KeysAt(held[h].log, t, q)[1] # KeysAt(held[h].log, u, p)[1]

\* All the lanes hear the tokens that were heard.
LanesHearTheSame ==
  \A h \in DOMAIN held : \A t \in DOMAIN held[h].log :
    \A i \in DOMAIN held[h].log[t].lanes : held[h].log[t].lanes[i] = held[h].log[t].tokens

\* Each token is of its level, and the codec is given the code it stands for.
TokensOfTheirLevel ==
  \A h \in DOMAIN held : \A t \in DOMAIN held[h].log :
    LET tokens == held[h].log[t].tokens
        codes == IF backend = "jax" THEN JaxConvertFromUniqueCodes(tokens, depthformer.size)
                 ELSE ConvertFromUniqueCodes(tokens, depthformer.size)
    IN \A q \in DOMAIN tokens :
         /\ codes[q] \in 0 .. depthformer.size - 1
         /\ ValidFrom(depthformer, q) + codes[q] = tokens[q]

\* The tables of the embedding: every value of the style, the notes and the
\* drums, masked or not, has a row of its own, in both backends.
ChannelConfig(c) ==
  Model.inputs[CHOOSE i \in DOMAIN Model.inputs :
    Used(SubSeq(Model.inputs, 1, i - 1)) < c /\ c <= Used(SubSeq(Model.inputs, 1, i))]
ValuesOf(c) == -1 .. ChannelConfig(c).codebook - 1
RowIn(embedding, c, v, Row(_, _, _)) ==
  LET b == CHOOSE n \in DOMAIN embedding : embedding[n].from < c /\ c <= embedding[n].to
  IN <<b, Row(embedding[b], v + NumReservedTokens + 1, c - embedding[b].from)>>
RowsAreOwn ==
  calls = 0 =>
    LET mlx == EncoderEmbedding(Model)
        jax == JaxEncoderEmbedding(Model)
        channels == 1 .. StyleTokens + NoteTokens + DrumTokens
        own == {<<c, v>> : c \in channels, v \in UNION {ValuesOf(d) : d \in channels}}
        values == {x \in own : x[2] \in ValuesOf(x[1])}
    IN /\ \A x, y \in values : x # y => RowIn(mlx, x[1], x[2], RowOf) # RowIn(mlx, y[1], y[2], RowOf)
       /\ \A x \in values :
            /\ RowIn(mlx, x[1], x[2], RowOf) = RowIn(jax, x[1], x[2], JaxRowOf)
            /\ RowIn(mlx, x[1], x[2], RowOf)[2] < TableRows(mlx[RowIn(mlx, x[1], x[2], RowOf)[1]])
       /\ \A b \in DOMAIN mlx : TableRows(mlx[b]) = JaxTableRows(jax[b])

\* A stream is what the model was trained to give, whichever calls made it.
StreamHolds == SystemTypeOK /\ StreamIsTrained /\ SameRequestsSameTokens
\* What goes into a step and what comes out is read as it was meant.
TokensMeant == FreshNoise /\ LanesHearTheSame /\ TokensOfTheirLevel /\ RowsAreOwn
================================================================================
