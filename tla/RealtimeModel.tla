----------------------------- MODULE RealtimeModel -----------------------------
(***************************************************************************)
(* The configuration of the model (config.py, mlx/model.py, jax/model.py): *)
(* the token vocabularies, the embedding tables of the conditioning, and   *)
(* the transformers of the decoder.                                        *)
(***************************************************************************)
EXTENDS Depthformer

NumReservedTokens == 6

\* TokensConfig: codebook size, rvq levels stored and used, dropout token.
Tokens(codebook, levels, used, dropout) ==
  [codebook |-> codebook, levels |-> levels, used |-> used, extra |-> NumReservedTokens,
   dropout |-> dropout]
DropoutTokens(t) == IF t.dropout THEN 1 ELSE 0
TokensVocabSize(t) == t.codebook * t.used + t.extra + DropoutTokens(t)
PerRvqVocabSize(t) == t.codebook + t.extra + DropoutTokens(t)

PianorollWithOnsets == Tokens(4, 128, 128, TRUE)
DrumPianoroll == Tokens(2, 1, 1, TRUE)
CfgConditioningMusiccocaNotes == Tokens(41, 2, 2, FALSE)
CfgConditioningDrums == Tokens(9, 1, 1, FALSE)
Spectrostream == Tokens(1024, 64, 12, FALSE)
Musiccoca == Tokens(1024, 12, 12, TRUE)

\* A model class: the layers of its transformers, their horizon, its tokens.
ModelBase ==
  [layers |-> 20, depthLayers |-> 6, past |-> 25, xpast |-> 25, pretrained |-> TRUE, rope |-> FALSE,
   dataLevels |-> 0, target |-> Spectrostream,
   inputs |-> <<Musiccoca, PianorollWithOnsets, DrumPianoroll, CfgConditioningMusiccocaNotes,
                CfgConditioningDrums>>]
ModelSmall == [ModelBase EXCEPT !.layers = 12, !.depthLayers = 2, !.past = 41, !.xpast = 41]
JaxModelBase == ModelBase
JaxModelSmall == [JaxModelBase EXCEPT !.layers = 12, !.depthLayers = 2, !.past = 41, !.xpast = 41]

TargetTokens(m) == IF m.dataLevels > 0 THEN [m.target EXCEPT !.used = m.dataLevels] ELSE m.target
JaxTargetTokens(m) == m.target
Used(inputs) == SumOf([i \in DOMAIN inputs |-> inputs[i].used])
InputNumChannels(m) == Used(m.inputs)
JaxInputNumChannels(m) == Used(m.inputs)

\* branch_config(): each branch reads the channels after its bound.
BranchConfig(sizes, tables) ==
  [b \in DOMAIN sizes |->
     Extended(tables[b], [from |-> SumOf(SubSeq(sizes, 1, b - 1)), to |-> SumOf(SubSeq(sizes, 1, b))])]
JaxBranchConfig(sizes, tables) == BranchConfig(sizes, tables)
EmbeddingsPerChannel(inputs) ==
  FlattenSeq([i \in DOMAIN inputs |-> [c \in 1 .. inputs[i].used |-> PerRvqVocabSize(inputs[i])]])
Table(inputs, rounded) == [sizes |-> EmbeddingsPerChannel(inputs), reserved |-> 0, rounded |-> rounded]
\* The pretrained table of the style tokens beside one table for the others.
EncoderEmbedding(m) ==
  IF m.pretrained
  THEN BranchConfig(<<m.inputs[1].used, InputNumChannels(m) - m.inputs[1].used>>,
                    <<Table(SubSeq(m.inputs, 1, 1), FALSE), Table(Tail(m.inputs), TRUE)>>)
  ELSE BranchConfig(<<InputNumChannels(m)>>, <<Table(m.inputs, TRUE)>>)
JaxEncoderEmbedding(m) ==
  IF ~m.pretrained THEN JaxBranchConfig(<<JaxInputNumChannels(m)>>, <<Table(m.inputs, TRUE)>>)
  ELSE JaxBranchConfig(<<m.inputs[1].used, JaxInputNumChannels(m) - m.inputs[1].used>>,
                       <<Table(SubSeq(m.inputs, 1, 1), FALSE), Table(Tail(m.inputs), TRUE)>>)

DepthBody(m, layers) ==
  [DefaultTransformer EXCEPT !.layers = layers, !.past = TargetTokens(m).used, !.rope = m.rope,
     !.gated = FALSE, !.delayed = FALSE, !.separate = TRUE]
TemporalBody(m) ==
  [DefaultTransformer EXCEPT !.layers = m.layers, !.past = m.past, !.rope = m.rope, !.cross = TRUE,
     !.xpast = m.xpast, !.xfuture = 0, !.delayed = FALSE, !.gated = FALSE, !.separate = TRUE]
\* The MLX configuration can be told to use fewer codebooks or depth layers.
DepthformerConfig(m, active, depthLayers) ==
  [levels |-> TargetTokens(m).used, size |-> TargetTokens(m).codebook,
   reserved |-> TargetTokens(m).extra, sos |-> 0, active |-> active, encoder |-> <<>>,
   embedding |-> EncoderEmbedding(m), temporal |-> Stack(TemporalBody(m)),
   depth |-> Stack(DepthBody(m, IF depthLayers = Unset THEN m.depthLayers ELSE depthLayers))]
JaxDepthformerConfig(m) ==
  LET Whole(c) == JaxStack([Extended(c, JaxDefaultTransformer) EXCEPT !.sharding = JaxDefaultTransformer.sharding])
  IN [levels |-> JaxTargetTokens(m).used, size |-> JaxTargetTokens(m).codebook,
      reserved |-> JaxTargetTokens(m).extra, sos |-> 0, active |-> Unset, encoder |-> <<>>,
      embedding |-> JaxEncoderEmbedding(m), temporal |-> Whole(TemporalBody(m)),
      depth |-> Whole(DepthBody(m, m.depthLayers))]
================================================================================
