-------------------------------- MODULE MCModel --------------------------------
(* The layers, the system and the codec, one of them in a behaviour.       *)
EXTENDS TransformerStream, MagentaSystem, CodecStream

\* A model class with two audio tokens, two style tokens and two pitches.
MCSystemModel ==
  [ModelBase EXCEPT !.layers = 2, !.depthLayers = 1, !.past = 1, !.xpast = 1,
     !.target = Tokens(6, 2, 2, FALSE),
     !.inputs = <<Tokens(3, 2, 2, TRUE), Tokens(4, 2, 2, TRUE), DrumPianoroll,
                  CfgConditioningMusiccocaNotes, CfgConditioningDrums>>]
MCScales == [musiccoca |-> Unset, notes |-> Unset, drums |-> Unset]
MCRequests ==
  {[style |-> <<1>>, notes |-> <<2, 0>>, drums |-> <<>>, scales |-> MCScales],
   [style |-> <<>>, notes |-> <<>>, drums |-> <<1>>, scales |-> [MCScales EXCEPT !.notes = 70]],
   [style |-> <<>>, notes |-> <<1>>, drums |-> <<>>, scales |-> MCScales]}

MCBooks == <<<<0, 9, -4>>, <<3, -2, 1>>, <<1, 0, -1>>>>
MCCodec ==
  [step |-> 2, length |-> 4, fft |-> 24, bins |-> 12, channels |-> 4, features |-> 3,
   ratios |-> <<<<2, 2>>, <<1, 3>>, <<3, 1>>>>, mults |-> <<2, 1, 2>>, dilation |-> <<1, 1>>,
   resnet |-> TRUE, causal |-> TRUE, splits |-> 2, recombo |-> -2, encoderDepth |-> 2,
   decoderDepth |-> 4, convSize |-> 3, encoderLookahead |-> 0, lookahead |-> 0,
   quantizer |-> [books |-> MCBooks, unique |-> FALSE, truncation |-> Unset, encoded |-> Unset]]
MCQuietCodec == [MCCodec EXCEPT !.encoderLookahead = 1, !.quantizer.encoded = 4]
MCCodecs ==
  {StandardConfig(2, Unset, TRUE, MCBooks), StandardConfig(Unset, 2, FALSE, MCBooks)}
  \cup {[MCCodec EXCEPT !.recombo = r] : r \in {-5, -4, -3, -2, 0}}
  \cup {[MCCodec EXCEPT !.splits = 0, !.ratios = <<<<1, 2>>, <<3, 1>>, <<2, 2>>>>, !.lookahead = 1,
                        !.dilation = <<2, 1>>],
        [MCCodec EXCEPT !.resnet = FALSE], MCQuietCodec}
MCQuietStack == CHOOSE c \in Configurations : TRUE

VARIABLE driver
ModelInit ==
  /\ driver \in {"stack", "system", "codec"}
  /\ TransformerInit /\ (driver = "stack" \/ conf = MCQuietStack)
  /\ SystemInit /\ (driver = "system" \/ backend = "mlx")
  /\ CodecInit /\ (driver = "codec" \/ codec = MCQuietCodec)
ModelNext ==
  /\ UNCHANGED driver
  /\ \/ driver = "stack" /\ TransformerNext /\ UNCHANGED <<mvars, cvars>>
     \/ driver = "system" /\ SystemNext /\ UNCHANGED <<tvars, cvars>>
     \/ driver = "codec" /\ CodecNext /\ UNCHANGED <<tvars, mvars>>
================================================================================
