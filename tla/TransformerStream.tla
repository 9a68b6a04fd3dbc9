--------------------------- MODULE TransformerStream ---------------------------
(***************************************************************************)
(* A sequence streamed through a transformer of one configuration, frame   *)
(* by frame, compared with the same layers over the whole sequence.        *)
(***************************************************************************)
EXTENDS Transformer

CONSTANTS
  Horizons,   \* the horizons a configuration may have
  Depths,     \* numbers of transformer blocks
  MaxTime     \* bound: frames of a sequence

ASSUMPTION TransformerAssumption ==
  Horizons \subseteq Nat /\ Depths \subseteq Nat \ {0} /\ MaxTime \in Nat

VARIABLES
  conf,     \* the configuration
  stack,    \* the states of the layers
  fed,      \* the input frames so far
  emitted   \* what the stack put out at each step

tvars == <<conf, stack, fed, emitted>>

\* Several layers that look ahead at one source would each need it later, so
\* lookahead at the source comes with one block and none in the self-attention.
Shardings == [sampling: BOOLEAN, sequence: BOOLEAN, zero: BOOLEAN]
Streamable(c) ==
  LET ahead == IF c.xfuture = Unset THEN c.future ELSE c.xfuture
  IN c.cross => \/ ahead = 0 /\ c.future = 0
                \/ ahead > 0 /\ c.future = 0 /\ (c.layers = 1 \/ ~c.delayed)
Shape(n, p, f) == [DefaultTransformer EXCEPT !.layers = n, !.past = p, !.future = f]
Shapes == {Shape(n, p, f) : n \in Depths, p \in Horizons, f \in Horizons \cap 0 .. 1}
Crossing(c, p, f, d) == [c EXCEPT !.cross = TRUE, !.xpast = p, !.xfuture = f, !.delayed = d]
Crossings(c) ==
  {c, [c EXCEPT !.cross = TRUE]}
  \cup {Crossing(c, p, f, d) : p \in Horizons, f \in {0, 1}, d \in BOOLEAN}
Encodings(c) ==
  {c, [c EXCEPT !.rope = FALSE], [c EXCEPT !.validOnly = FALSE], [c EXCEPT !.positions = TRUE]}
Configurations ==
  {c \in UNION {Encodings(x) : x \in UNION {Crossings(y) : y \in Shapes}} : Streamable(c)}

Layers == Stack(conf)
\* Without its own buffer of queries the cross-attention needs them late: the
\* caller delays them.
CallerDelay ==
  LET ahead == CrossOf(conf).future IN IF conf.cross /\ ~conf.delayed THEN ahead ELSE 0
Latency == CallerDelay + AccumulatedLatency(Layers)
SourceAt(t) == IF t \in 1 .. MaxTime THEN 100 + 11 * t ELSE Absent
Fed(t) == IF t \in DOMAIN fed THEN fed[t] ELSE Absent

TransformerInit ==
  /\ conf \in Configurations
  /\ stack = IF Buildable(Layers) THEN FreshStack(Layers) ELSE <<>>
  /\ fed = <<>>
  /\ emitted = <<>>

\* A frame, masked or not, and once the input has ended the flush.
StreamFrame ==
  /\ Buildable(Layers)
  /\ Len(emitted) < MaxTime + Latency
  /\ LET t == Len(emitted) + 1 IN
     /\ IF t <= MaxTime
        THEN \E x \in {10 + 3 * t, Absent} : fed' = Append(fed, x)
        ELSE UNCHANGED fed
     /\ LET x == IF t - CallerDelay \in DOMAIN fed' THEN fed'[t - CallerDelay] ELSE Absent
            r == StepStack(Layers, stack, x, SourceAt(t))
        IN stack' = r.s /\ emitted' = Append(emitted, r.out)
  /\ UNCHANGED conf
TransformerNext == StreamFrame
TransformerSpec == TransformerInit /\ [][TransformerNext]_tvars

\* The states have the shapes the fields of the layers give them, and the
\* layers of a configuration are built of fields in their types.
TransformerTypeOK ==
  /\ SelfOf(conf) \in SelfAttentionFields
  /\ conf.cross => CrossOf(conf) \in CrossAttentionFields
  /\ Len(fed) <= MaxTime
  /\ Buildable(Layers) => \A i \in DOMAIN Layers :
       /\ Len(stack[i].keys) = Layers[i].past + 1 + Layers[i].future
       /\ BlockSize(Layers[i]) >= Larger(Layers[i].past, Layers[i].future)

\* Streaming a sequence gives, after the latency, what the layers compute over
\* the whole of it: the shortcut of every residual is as late as its body, and
\* no configuration make() accepts counts positions differently in the two.
StepIsLayer ==
  /\ TransformerTypeOK
  /\ (IF Buildable(Layers) THEN Len(emitted) = MaxTime + Latency ELSE FALSE) =>
       LET whole == WholeStack(Layers, fed, [t \in 1 .. MaxTime |-> SourceAt(t)])
       IN \A t \in 1 .. MaxTime : emitted[t + Latency] = whole[t]

\* Both backends accept the same configurations and build the same layers, but
\* for the JAX layers' shardings.
BackendsAgree ==
  emitted = <<>> => \A s \in Shardings :
    LET jax == JaxStack([Extended(conf, JaxDefaultTransformer) EXCEPT !.sharding = s])
    IN ~(s.sampling /\ s.zero) =>
       /\ Buildable(jax) <=> Buildable(Layers)
       /\ Buildable(Layers) =>
            /\ Len(jax) = Len(Layers)
            /\ \A i \in DOMAIN jax : [f \in DOMAIN Layers[i] |-> jax[i][f]] = Layers[i]

\* A kernel's sharding names its dimensions: one set of axes for each, no axis
\* twice, and a dimension one kernel writes and the next one reads (the heads,
\* the hidden units) split the same way by both.
ShardingFits ==
  emitted = <<>> => \A s \in {x \in Shardings : ~(x.sampling /\ x.zero)} :
    LET jax == JaxStack([Extended(conf, JaxDefaultTransformer) EXCEPT !.sharding = s]) IN
    Buildable(jax) => \A i \in DOMAIN jax :
      /\ \A k \in jax[i].kernels :
           /\ Len(k.sharding) = Len(k.dims)
           /\ \A a, b \in DOMAIN k.dims : a # b => k.sharding[a] \cap k.sharding[b] = {}
      /\ \A k, m \in jax[i].kernels : \A a \in DOMAIN k.dims, b \in DOMAIN m.dims :
           k.dims[a] = m.dims[b] => k.sharding[a] = m.sharding[b]

\* The layers of the two backends are the same and, on many devices, meet.
LayersAgree == BackendsAgree /\ ShardingFits
================================================================================
