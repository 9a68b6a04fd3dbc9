------------------------------ MODULE Transformer ------------------------------
(***************************************************************************)
(* The streaming transformer of both backends (mlx/transformer.py,         *)
(* jax/transformer.py): the residual layers the configurations build, and  *)
(* what they compute frame by frame and over a whole sequence.             *)
(*                                                                         *)
(* An activation is a number modulo Prime, a frame that is masked out is   *)
(* Absent.  A layer mixes what it reads with different factors, so that a  *)
(* frame missed, read twice or read at a wrong position changes its output;*)
(* norms, projections and dropout, which work on one frame, are left out.  *)
(* The attention layers themselves are those of the sequence-layers        *)
(* library, modelled by their documented window, position and latency.     *)
(*                                                                         *)
(* The backends are separate files: a definition whose name begins with    *)
(* Jax is the JAX file's, and BackendsAgree compares the two.              *)
(***************************************************************************)
EXTENDS Integers, Sequences, SequencesExt

Prime == 9973
Absent == -1      \* the value of a frame whose mask is off
Unset == -2       \* a field left at None
Invalid == [invalid |-> TRUE]   \* make() raised ValueError

--------------------------------------------------------------------------------
(* Token embedding with one table for all the channels.                    *)

\* round() of NumPy, Python and MLX: halves go to the even number.
RoundedRatio(n, d) ==
  LET low == n \div d  rest == 2 * (n % d)
  IN IF rest > d \/ (rest = d /\ low % 2 = 1) THEN low + 1 ELSE low
RoundedUp(n) == ((n + 127) \div 128) * 128
SumOf(s) == LET sum[n \in 0 .. Len(s)] == IF n = 0 THEN 0 ELSE sum[n - 1] + s[n] IN sum[Len(s)]
\* The same sequence, with its elements worked out once.
Listed(s) == s \o <<>>
\* The fields of r, and those of more that r does not have.
Extended(r, more) ==
  [field \in DOMAIN r \cup DOMAIN more |-> IF field \in DOMAIN r THEN r[field] ELSE more[field]]

\* e: [sizes (a sequence, one per channel), reserved, rounded]
TableRows(e) ==
  LET n == e.reserved + SumOf(e.sizes) IN IF e.rounded THEN RoundedUp(n) ELSE n
JaxTableRows(e) ==
  IF e.rounded THEN RoundedUp(e.reserved + SumOf(e.sizes)) ELSE e.reserved + SumOf(e.sizes)
ChannelsFit(e, x) == Len(x) = Len(e.sizes)
Offset(e, channel) == SumOf(SubSeq(e.sizes, 1, channel - 1))
RowOf(e, v, channel) == IF e.reserved > 0 /\ v < e.reserved THEN v ELSE v + Offset(e, channel)
JaxRowOf(e, v, channel) == v + (IF v < e.reserved THEN 0 ELSE Offset(e, channel))

--------------------------------------------------------------------------------
(* Configurations.                                                         *)

\* SLTransformer.Config: its defaults, then what the model classes set.
DefaultTransformer ==
  [layers |-> 1, past |-> 0, future |-> 0, cross |-> FALSE, xpast |-> Unset,
   xfuture |-> Unset, delayed |-> TRUE, rope |-> TRUE, validOnly |-> TRUE,
   local |-> TRUE, gated |-> TRUE, positions |-> FALSE, separate |-> FALSE]
JaxDefaultTransformer ==
  Extended(DefaultTransformer, [sharding |-> [sampling |-> FALSE, sequence |-> FALSE, zero |-> TRUE]])

\* Positions fed from outside cannot skip the masked frames.
QkvNetworks(rope, validOnly, positions) ==
  IF rope /\ validOnly /\ positions THEN Invalid ELSE [rope |-> rope, validOnly |-> validOnly]
JaxQkvNetworks(a) ==
  IF ~a.rope THEN [rope |-> FALSE, validOnly |-> a.validOnly]
  ELSE IF a.validOnly /\ a.positions THEN Invalid
  ELSE [rope |-> TRUE, validOnly |-> a.validOnly]

Larger(a, b) == IF a > b THEN a ELSE b
SelfAttentionFields ==
  [past: Nat, future: Nat, rope: BOOLEAN, validOnly: BOOLEAN, local: BOOLEAN,
   positions: BOOLEAN, separate: BOOLEAN]
CrossAttentionFields ==
  [past: Nat, future: Nat, delayed: BOOLEAN, rope: BOOLEAN, validOnly: BOOLEAN,
   positions: BOOLEAN, separate: BOOLEAN]

\* A residual layer: a body of some latency and a shortcut with a delay that
\* exists in step mode only.
Residual(kind, a, latency, shortcut) ==
  [kind |-> kind, past |-> a.past, future |-> a.future, rope |-> a.rope,
   validOnly |-> a.validOnly, latency |-> latency, shortcut |-> shortcut]

BlockSize(a) == Larger(1, Larger(a.past, a.future))
\* Mutant: the shortcut is not delayed.
SelfAttentionUndelayed(a) == Residual("self", a, a.future, 0)
SelfAttention(a) ==
  IF QkvNetworks(a.rope, a.validOnly, a.positions) = Invalid THEN Invalid
  ELSE Residual("self", a, a.future, IF a.future > 0 THEN a.future ELSE 0)
\* Mutant: queries the caller delays may count every step as a position.
StreamingCrossAttentionAny(a) ==
  LET d == IF a.delayed THEN a.future ELSE 0 IN Residual("cross", a, d, d)
StreamingCrossAttention(a) ==
  IF \/ ~a.delayed /\ a.rope /\ ~a.validOnly
     \/ QkvNetworks(a.rope, a.validOnly, a.positions) = Invalid
  THEN Invalid
  ELSE LET d == IF a.delayed THEN a.future ELSE 0 IN Residual("cross", a, d, d)
TransformerFFN(gated) ==
  Residual(IF gated THEN "gated" ELSE "ffn",
           [past |-> 0, future |-> 0, rope |-> FALSE, validOnly |-> FALSE], 0, 0)

SelfOf(c) ==
  [past |-> c.past, future |-> c.future, rope |-> c.rope, validOnly |-> c.validOnly,
   local |-> c.local, positions |-> c.positions, separate |-> c.separate]
\* The horizons of the cross-attention default to those of the self-attention.
CrossOf(c) ==
  [past |-> IF c.xpast = Unset THEN c.past ELSE c.xpast,
   future |-> IF c.xfuture = Unset THEN c.future ELSE c.xfuture, delayed |-> c.delayed,
   rope |-> c.rope, validOnly |-> c.validOnly, positions |-> c.positions, separate |-> c.separate]
TransformerBlock(c) ==
  <<SelfAttention(SelfOf(c))>>
  \o (IF c.cross THEN <<StreamingCrossAttention(CrossOf(c))>> ELSE <<>>)
  \o <<TransformerFFN(c.gated)>>
\* n blocks of the same layers, one after the other.
Blocks(block, n) == Listed([i \in 1 .. n * Len(block) |-> block[1 + ((i - 1) % Len(block))]])
Stack(c) == Blocks(TransformerBlock(c), c.layers)

--------------------------------------------------------------------------------
(* The JAX layers carry, for each kernel, the mesh axes its dimensions are *)
(* split over.                                                             *)

IndexIn(s, d) == CHOOSE j \in DOMAIN s : s[j] = d
Derive(sharding, original, derived) ==
  [i \in DOMAIN derived |->
     IF \E j \in DOMAIN original : original[j] = derived[i]
     THEN sharding[IndexIn(original, derived[i])] ELSE {}]

\* s: [sampling, sequence, zero]
DefaultSharding(s) ==
  IF s.sampling /\ s.zero THEN Invalid ELSE
  LET seq == IF s.sequence THEN {"seq"} ELSE {}
      fanIn == IF s.sampling \/ ~s.zero THEN {} ELSE {"data"} \cup seq
      batch == {"replica", "data"}
  IN [btd |-> <<batch, seq, {"model"}>>, btnh |-> <<batch, seq, {"model"}, {}>>,
      projection |-> <<fanIn, {"model"}>>, dnh |-> <<fanIn, {"model"}, {}>>,
      bias |-> <<{"model"}>>]

Kernel(dims, sharding) == [dims |-> dims, sharding |-> sharding]
dnh == <<"d", "n", "h">>
JaxSelfAttention(a, s) ==
  IF JaxQkvNetworks(a) = Invalid THEN Invalid
  ELSE Extended(Residual("self", a, a.future, Larger(a.future, 0)),
                [kernels |-> {IF a.separate THEN Kernel(dnh, s.dnh)
                              ELSE Kernel(<<"d", "3", "n", "h">>, Derive(s.dnh, dnh, <<"d", "3", "n", "h">>)),
                              Kernel(dnh, s.dnh)}])
JaxStreamingCrossAttention(a, s) ==
  IF (a.rope /\ ~a.validOnly /\ ~a.delayed) \/ JaxQkvNetworks(a) = Invalid THEN Invalid
  ELSE LET d == IF a.delayed THEN a.future ELSE 0
       IN Extended(Residual("cross", a, d, d),
                   [kernels |-> {Kernel(dnh, s.dnh),
                                 IF a.separate THEN Kernel(dnh, s.dnh)
                                 ELSE Kernel(<<"d", "2", "n", "h">>, Derive(s.dnh, dnh, <<"d", "2", "n", "h">>))}])
JaxTransformerFFN(gated, s) ==
  Extended(TransformerFFN(gated),
           [kernels |-> {Kernel(<<"d", "hidden">>, s.projection),
                         Kernel(<<"hidden", "d">>, Derive(s.projection, <<"a", "b">>, <<"b", "a">>))}])
JaxTransformerBlock(c, s) ==
  <<JaxSelfAttention(SelfOf(c), s)>>
  \o (IF c.cross THEN <<JaxStreamingCrossAttention(CrossOf(c), s)>> ELSE <<>>)
  \o <<JaxTransformerFFN(c.gated, s)>>
JaxStack(c) ==
  LET s == DefaultSharding(c.sharding)
  IN IF s = Invalid THEN <<Invalid>> ELSE Blocks(JaxTransformerBlock(c, s), c.layers)

Buildable(layers) == \A i \in DOMAIN layers : layers[i] # Invalid
\* get_accumulated_input_latency() over the layers, all of output ratio 1.
AccumulatedLatency(layers) == SumOf([i \in DOMAIN layers |-> layers[i].latency])

--------------------------------------------------------------------------------
(* What the layers compute (the sequence-layers library).                  *)

\* A query at position p attends to the keys: the factor of a key depends on
\* its distance with rotary positions, and on nothing without.
Attend(l, q, p, keys) ==
  (31 * q + SumOf([i \in DOMAIN keys |->
     IF keys[i].v = Absent THEN 0
     ELSE keys[i].v * (IF l.rope THEN 7 * (keys[i].p - p) + 50 ELSE 1)])) % Prime
FeedForward(x) == (5 * x + 3) % Prime
Advance(l, n, v) == IF l.validOnly /\ v = Absent THEN n ELSE n + 1
Blank(n) == [i \in 1 .. n |-> [v |-> Absent, p |-> 0]]

\* One layer in step mode: a window of keys, a buffer of queries waiting for
\* the keys ahead of them, the shortcut's delay, and two position counters.
Fresh(l) ==
  [keys |-> Blank(l.past + 1 + l.future), queries |-> Blank(l.latency),
   short |-> Blank(l.shortcut), qn |-> 0, kn |-> 0]
\* A residual: what the body makes of a frame beside the frame itself.
Combined(body, short) == IF body = Absent \/ short = Absent THEN Absent ELSE (3 * body + short) % Prime
BodyStep(l, q, keys) ==
  CASE q.v = Absent -> Absent
    [] l.kind \in {"self", "cross"} -> Attend(l, q.v, q.p, keys)
    [] OTHER -> FeedForward(q.v)
ShiftedIn(l, s, x, k, keys, queries, short) ==
  [out |-> Combined(BodyStep(l, Head(queries), keys), Head(short).v),
   s |-> [keys |-> keys, queries |-> Tail(queries), short |-> Tail(short),
          qn |-> Advance(l, s.qn, x), kn |-> Advance(l, s.kn, k)]]
StepKeyed(l, s, x, k) ==
  ShiftedIn(l, s, x, k, Append(Tail(s.keys), [v |-> k, p |-> s.kn]),
            Append(s.queries, [v |-> x, p |-> s.qn]), Append(s.short, [v |-> x, p |-> 0]))
StepLayer(l, s, x, src) == StepKeyed(l, s, x, IF l.kind = "cross" THEN src ELSE x)
FreshStack(layers) == [i \in DOMAIN layers |-> Fresh(layers[i])]
\* All the layers for one frame, each on the output of the one before.
Through(acc, r) == [out |-> r.out, s |-> Append(acc.s, r.s)]
StepStack(layers, states, x, src) ==
  LET after[i \in 0 .. Len(layers)] ==
        IF i = 0 THEN [out |-> x, s |-> <<>>]
        ELSE LET before == after[i - 1]
             IN Through(before, StepLayer(layers[i], states[i], before.out, src))
  IN after[Len(layers)]

\* One layer over a whole sequence: frame t reads the keys of its horizon.
Positions(l, xs) ==
  Listed([t \in DOMAIN xs |-> IF l.validOnly
                              THEN SumOf([i \in 1 .. t - 1 |-> IF xs[i] = Absent THEN 0 ELSE 1])
                              ELSE t - 1])
WholeKeyed(l, xs, ks, qp, kp) ==
  LET Key(j) == IF j \in DOMAIN ks THEN [v |-> ks[j], p |-> kp[j]] ELSE [v |-> Absent, p |-> 0]
      Seen(t) == [i \in 1 .. l.past + 1 + l.future |-> Key(t - l.past - 1 + i)]
      Body(t) == IF l.kind \in {"self", "cross"} THEN Attend(l, xs[t], qp[t], Seen(t))
                 ELSE FeedForward(xs[t])
  IN Listed([t \in DOMAIN xs |-> IF xs[t] = Absent THEN Absent ELSE Combined(Body(t), xs[t])])
WholeFrom(l, xs, ks) == WholeKeyed(l, xs, ks, Positions(l, xs), Positions(l, ks))
WholeLayer(l, xs, src) == WholeFrom(l, xs, IF l.kind = "cross" THEN src ELSE xs)
WholeStack(layers, xs, src) ==
  LET after[i \in 0 .. Len(layers)] ==
        IF i = 0 THEN xs ELSE WholeLayer(layers[i], after[i - 1], src)
  IN after[Len(layers)]
================================================================================
