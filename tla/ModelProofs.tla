------------------------------ MODULE ModelProofs ------------------------------
(***************************************************************************)
(* The streaming transformer, for any horizons, numbers of blocks and      *)
(* lengths of a sequence: what the layers put out frame by frame is what   *)
(* they compute over the whole sequence.  Then the system, for any model   *)
(* class, requests and calls: the streams that generate() makes are what   *)
(* teacher forcing over the whole of them gives, and every token of them   *)
(* is one of its own level.                                                *)
(***************************************************************************)
EXTENDS TransformerStream, MagentaSystem, FiniteSetTheorems, SequenceTheorems, WellFoundedInduction, TLAPS

--------------------------------------------------------------------------------
(* Windows of a function of time, and sums.                                *)

\* The last n values of f at the time t.
Window(f, n, t) == [j \in 1 .. n |-> f[t - n + j]]

LEMMA WindowSlides ==
  ASSUME NEW f, DOMAIN f = Int, NEW n \in Nat, NEW t \in Int
  PROVE  /\ Len(Window(f, n, t)) = n
         /\ Head(Append(Window(f, n, t - 1), f[t])) = f[t - n]
         /\ Tail(Append(Window(f, n, t - 1), f[t])) = Window(f, n, t)
         /\ n >= 1 => Append(Tail(Window(f, n, t - 1)), f[t]) = Window(f, n, t)
<1> DEFINE S == {f[u] : u \in Int}  old == Window(f, n, t - 1)  new == Window(f, n, t)  x == f[t]
<1>1. /\ old \in Seq(S) /\ Len(old) = n /\ \A j \in 1 .. n : old[j] = f[t - 1 - n + j]
      /\ new \in Seq(S) /\ Len(new) = n /\ \A j \in 1 .. n : new[j] = f[t - n + j]
  BY DEF Window
<1>2. x \in S
  OBVIOUS
<1>3. Head(Append(old, x)) = f[t - n]
  <2>1. CASE n = 0
    <3>1. Append(old, x)[1] = x
      BY <1>1, <1>2, <2>1
    <3>2. t - n = t
      BY <2>1
    <3> QED BY <3>1, <3>2, <1>1, <1>2 DEF x
  <2>2. CASE n > 0
    <3>1. Append(old, x)[1] = old[1] /\ 1 \in 1 .. n
      BY <1>1, <1>2, <2>2
    <3>2. t - 1 - n + 1 = t - n
      OBVIOUS
    <3> HIDE DEF old, x
    <3>3. Head(Append(old, x)) = Append(old, x)[1]
      BY <1>1, <1>2
    <3> QED BY <3>1, <3>2, <3>3, <1>1
  <2> QED BY <2>1, <2>2
<1>4. Tail(Append(old, x)) = new
  <2>a. x = f[t]
    OBVIOUS
  <2> HIDE DEF old, new, x, S
  <2> DEFINE a == Append(old, x)
  <2>0. a \in Seq(S) /\ Len(a) = n + 1 /\ a[n + 1] = x /\ \A j \in 1 .. n : a[j] = old[j]
    BY <1>1, <1>2
  <2> HIDE DEF a
  <2>1. /\ a \in Seq(S) /\ Len(a) = n + 1 /\ a # <<>> /\ a[n + 1] = x
        /\ \A j \in 1 .. n : a[j] = old[j]
    BY <2>0
  <2>2. Tail(a) \in Seq(S) /\ Len(Tail(a)) = n /\ \A j \in 1 .. n : Tail(a)[j] = a[j + 1]
    BY <2>1
  <2>3. ASSUME NEW j \in 1 .. n PROVE a[j + 1] = new[j]
    <3>1. CASE j = n
      <4>1. new[j] = f[t - n + j] /\ t - n + j = t /\ j + 1 = n + 1
        BY <1>1, <3>1
      <4> QED BY <2>1, <2>a, <4>1
    <3>2. CASE j # n
      <4>1. j + 1 \in 1 .. n /\ t - 1 - n + (j + 1) = t - n + j
        BY <3>2
      <4> QED BY <1>1, <2>1, <4>1
    <3> QED BY <3>1, <3>2
  <2>4. Tail(a) = new
    BY <1>1, <2>2, <2>3
  <2> QED BY <2>4 DEF a
<1>5. ASSUME n >= 1 PROVE Append(Tail(old), x) = new
  <2>a. x = f[t] /\ old # <<>>
    BY <1>1, <1>5
  <2> HIDE DEF old, new, x, S
  <2> DEFINE b == Tail(old)
  <2>1. b \in Seq(S) /\ Len(b) = n - 1 /\ \A j \in 1 .. n - 1 : b[j] = old[j + 1]
    BY <1>1, <2>a
  <2> HIDE DEF b
  <2> DEFINE a == Append(b, x)
  <2>2. a \in Seq(S) /\ Len(a) = n /\ a[n] = x /\ \A j \in 1 .. n - 1 : a[j] = b[j]
    BY <1>2, <1>5, <2>1
  <2> HIDE DEF a
  <2>3. ASSUME NEW j \in 1 .. n PROVE a[j] = new[j]
    <3>1. CASE j = n
      <4>1. new[j] = f[t - n + j] /\ t - n + j = t
        BY <1>1, <3>1
      <4> QED BY <2>2, <2>a, <3>1, <4>1
    <3>2. CASE j # n
      <4>1. j \in 1 .. n - 1 /\ j + 1 \in 1 .. n /\ t - 1 - n + (j + 1) = t - n + j
        BY <3>2
      <4> QED BY <1>1, <2>1, <2>2, <4>1
    <3> QED BY <3>1, <3>2
  <2>4. a = new
    BY <1>1, <2>2, <2>3
  <2> QED BY <2>4 DEF a, b
<1> QED BY <1>1, <1>3, <1>4, <1>5

\* The same elements, worked out once.
LEMMA ListedIs ==
  ASSUME NEW n \in Nat, NEW s, s = [i \in 1 .. n |-> s[i]]
  PROVE  Listed(s) = s
<1> DEFINE S == {s[i] : i \in 1 .. n}
<1>1. s \in [1 .. n -> S]
  OBVIOUS
<1>2. s \in Seq(S)
  BY <1>1
<1> QED BY <1>2 DEF Listed

LEMMA LeastOf ==
  ASSUME NEW U, U \subseteq Nat, U # {}
  PROVE  \E m \in U : \A k \in U : ~(k < m)
<1>1. \E m \in U : \A k \in U : ~(<<k, m>> \in OpToRel(<, Nat))
  BY NatLessThanWellFounded, WFMin
<1> QED BY <1>1 DEF OpToRel

LEMMA SetInduction ==
  ASSUME NEW N \in Nat, NEW T, 0 \in T, \A n \in 0 .. N - 1 : n \in T => n + 1 \in T
  PROVE  \A n \in 0 .. N : n \in T
<1> DEFINE U == (0 .. N) \ T
<1> SUFFICES ASSUME U # {} PROVE FALSE
  OBVIOUS
<1>1. U \subseteq Nat
  OBVIOUS
<1> HIDE DEF U
<1>2. PICK m \in U : \A k \in U : ~(k < m)
  BY <1>1, LeastOf
<1> USE DEF U
<1>3. m # 0 /\ m - 1 \in 0 .. N - 1
  BY <1>2
<1>4. m - 1 \in T
  BY <1>2, <1>3
<1> QED BY <1>2, <1>3, <1>4

--------------------------------------------------------------------------------
(* SumOf() is defined by recursion; what it gives for one element more.    *)

SummedTo(f, s, n) == f = [i \in 0 .. n |-> IF i = 0 THEN 0 ELSE f[i - 1] + s[i]]
Summing(s) == CHOOSE f : SummedTo(f, s, Len(s))

LEMMA SumIs ==
  ASSUME NEW s
  PROVE  SumOf(s) = Summing(s)[Len(s)]
BY DEF SumOf, Summing, SummedTo

LEMMA SummingExists ==
  ASSUME NEW s, NEW N \in Nat
  PROVE  \E f : SummedTo(f, s, N)
<1> DEFINE T == {n \in 0 .. N : \E f : SummedTo(f, s, n)}
<1>1. 0 \in T
  <2> DEFINE h == [i \in 0 .. 0 |-> 0]
  <2>1. h = [i \in 0 .. 0 |-> IF i = 0 THEN 0 ELSE h[i - 1] + s[i]]
    OBVIOUS
  <2> HIDE DEF h
  <2> QED BY <2>1 DEF SummedTo
<1>2. ASSUME NEW n \in 0 .. N - 1, n \in T PROVE n + 1 \in T
  <2>1. PICK f : f = [i \in 0 .. n |-> IF i = 0 THEN 0 ELSE f[i - 1] + s[i]]
    BY <1>2 DEF SummedTo
  <2> HIDE DEF T
  <2> DEFINE g == [i \in 0 .. n + 1 |-> IF i <= n THEN f[i] ELSE f[n] + s[i]]
  <2>2. ASSUME NEW i \in 0 .. n + 1 PROVE g[i] = IF i = 0 THEN 0 ELSE g[i - 1] + s[i]
    <3>1. CASE i = 0
      BY <2>1, <3>1
    <3>2. CASE i # 0 /\ i <= n
      <4>1. g[i] = f[i] /\ g[i - 1] = f[i - 1] /\ i \in 0 .. n
        BY <3>2
      <4>2. f[i] = f[i - 1] + s[i]
        BY <2>1, <3>2, <4>1
      <4> HIDE DEF g
      <4> QED BY <3>2, <4>1, <4>2
    <3>3. CASE i = n + 1
      <4>1. ~(i <= n) /\ i - 1 = n /\ i # 0
        BY <3>3
      <4>2. g[i] = f[n] + s[i] /\ g[i - 1] = f[n]
        BY <4>1
      <4> HIDE DEF g
      <4> QED BY <4>1, <4>2
    <3> QED BY <3>1, <3>2, <3>3
  <2>3. g = [i \in 0 .. n + 1 |-> IF i = 0 THEN 0 ELSE g[i - 1] + s[i]]
    BY <2>2
  <2> HIDE DEF g
  <2> QED BY <2>3 DEF T, SummedTo
<1> HIDE DEF T
<1>3. N \in T
  BY <1>1, <1>2, SetInduction
<1> QED BY <1>3 DEF T

\* The sum of the first n values of z.
Total(z, n) == SumOf([i \in 1 .. n |-> z[i]])

LEMMA SumStep ==
  ASSUME NEW z, NEW n \in Nat, \A i \in 1 .. n : z[i] \in Int
  PROVE  /\ Total(z, 0) = 0
         /\ Total(z, n) \in Int
         /\ n > 0 => Total(z, n) = Total(z, n - 1) + z[n]
<1> DEFINE S(m) == [i \in 1 .. m |-> z[i]]
<1>1. ASSUME NEW m \in 0 .. n
      PROVE  \E f : /\ Total(z, m) = f[m]
                    /\ \A i \in 0 .. m : f[i] = IF i = 0 THEN 0 ELSE f[i - 1] + z[i]
  <2> DEFINE s == S(m)
  <2>1. Len(s) = m /\ \A i \in 1 .. m : s[i] = z[i]
    OBVIOUS
  <2>2. Total(z, m) = SumOf(s)
    BY DEF Total
  <2> HIDE DEF s
  <2>3. SummedTo(Summing(s), s, m)
    <3>0. m \in Nat
      OBVIOUS
    <3>a. \E f : SummedTo(f, s, m)
      BY <3>0, SummingExists
    <3>1. \E f : SummedTo(f, s, Len(s))
      BY <2>1, <3>a
    <3>2. SummedTo(Summing(s), s, Len(s))
      BY <3>1 DEF Summing
    <3> QED BY <2>1, <3>2
  <2> DEFINE f == Summing(s)
  <2>4. f = [i \in 0 .. m |-> IF i = 0 THEN 0 ELSE f[i - 1] + s[i]]
    BY <2>3 DEF SummedTo
  <2>5. Total(z, m) = f[m]
    BY <2>1, <2>2, SumIs
  <2> HIDE DEF f
  <2>6. \A i \in 0 .. m : f[i] = IF i = 0 THEN 0 ELSE f[i - 1] + z[i]
    BY <2>1, <2>4
  <2> QED BY <2>5, <2>6
<1>2. Total(z, 0) = 0
  BY <1>1
<1>3. ASSUME NEW m \in 0 .. n - 1, NEW f, NEW g,
             \A i \in 0 .. m : f[i] = IF i = 0 THEN 0 ELSE f[i - 1] + z[i],
             \A i \in 0 .. m + 1 : g[i] = IF i = 0 THEN 0 ELSE g[i - 1] + z[i]
      PROVE  g[m + 1] = f[m] + z[m + 1]
  <2> DEFINE T == {i \in 0 .. m : f[i] = g[i]}
  <2>1. 0 \in T
    BY <1>3
  <2>2. ASSUME NEW i \in 0 .. m - 1, i \in T PROVE i + 1 \in T
    <3>1. i + 1 \in 0 .. m /\ i + 1 \in 0 .. m + 1 /\ i + 1 - 1 = i /\ i + 1 # 0
      OBVIOUS
    <3>2. f[i + 1] = f[i] + z[i + 1] /\ g[i + 1] = g[i] + z[i + 1]
      BY <1>3, <3>1
    <3> QED BY <2>2, <3>1, <3>2
  <2>3. m \in T
    <3> HIDE DEF T
    <3> QED BY <2>1, <2>2, SetInduction
  <2>4. m + 1 \in 0 .. m + 1 /\ m + 1 - 1 = m /\ m + 1 # 0
    OBVIOUS
  <2> QED BY <1>3, <2>3, <2>4
<1>4. ASSUME NEW m \in 0 .. n - 1 PROVE Total(z, m + 1) = Total(z, m) + z[m + 1]
  <2>1. m + 1 \in 0 .. n
    OBVIOUS
  <2>2. PICK f : /\ Total(z, m) = f[m]
                 /\ \A i \in 0 .. m : f[i] = IF i = 0 THEN 0 ELSE f[i - 1] + z[i]
    BY <1>1
  <2>3. PICK g : /\ Total(z, m + 1) = g[m + 1]
                 /\ \A i \in 0 .. m + 1 : g[i] = IF i = 0 THEN 0 ELSE g[i - 1] + z[i]
    BY <1>1, <2>1
  <2> QED BY <1>3, <2>2, <2>3
<1> DEFINE T == {m \in 0 .. n : Total(z, m) \in Int}
<1>5. \A m \in 0 .. n : m \in T
  <2>1. 0 \in T
    BY <1>2
  <2>2. ASSUME NEW m \in 0 .. n - 1, m \in T PROVE m + 1 \in T
    <3>1. m + 1 \in 1 .. n
      OBVIOUS
    <3> QED BY <1>4, <2>2, <3>1
  <2> HIDE DEF T
  <2> QED BY <2>1, <2>2, SetInduction
<1>6. ASSUME n > 0 PROVE Total(z, n) = Total(z, n - 1) + z[n]
  <2>1. n - 1 \in 0 .. n - 1 /\ n - 1 + 1 = n
    BY <1>6
  <2> QED BY <1>4, <2>1
<1> QED BY <1>2, <1>5, <1>6

--------------------------------------------------------------------------------
(* One layer.                                                              *)

Attending == {"self", "cross"}
LayerType(l) ==
  /\ l.past \in Nat /\ l.future \in Nat /\ l.latency \in Nat /\ l.shortcut = l.latency
  /\ l.rope \in BOOLEAN /\ l.validOnly \in BOOLEAN

\* The position of the frame Z[t], counted from the start of the stream.
Marks(Z) == [t \in Int |-> IF Z[t] = Absent THEN 0 ELSE 1]
Count(l, Z, t) == IF l.validOnly THEN Total(Marks(Z), t - 1) ELSE t - 1
Records(l, Z) == [t \in Int |-> [v |-> Z[t], p |-> IF t <= 0 THEN 0 ELSE Count(l, Z, t)]]
Plain(Z) == [t \in Int |-> [v |-> Z[t], p |-> 0]]

\* The state of a layer that has read the frames X[1], .., X[t] and the keys
\* K[1], .., K[t].
Keys(l, K, t) == Window(Records(l, K), l.past + 1 + l.future, t)
StateAt(l, X, K, t) ==
  [keys |-> Keys(l, K, t), queries |-> Window(Records(l, X), l.latency, t),
   short |-> Window(Plain(X), l.shortcut, t), qn |-> Count(l, X, t + 1), kn |-> Count(l, K, t + 1)]

Stream(Z) == DOMAIN Z = Int /\ \A t \in Int : t <= 0 => Z[t] = Absent

LEMMA TotalMarks ==
  ASSUME NEW Z, NEW n \in Nat
  PROVE  /\ Total(Marks(Z), 0) = 0 /\ Total(Marks(Z), n) \in Int
         /\ n > 0 => Total(Marks(Z), n) = Total(Marks(Z), n - 1) + (IF Z[n] = Absent THEN 0 ELSE 1)
<1>1. \A i \in 1 .. n : Marks(Z)[i] \in Int
  BY DEF Marks
<1>2. n > 0 => Marks(Z)[n] = IF Z[n] = Absent THEN 0 ELSE 1
  BY DEF Marks
<1> QED BY <1>1, <1>2, SumStep

LEMMA CountAdvances ==
  ASSUME NEW l, LayerType(l), NEW Z, Stream(Z), NEW t \in Nat \ {0}
  PROVE  Count(l, Z, 1) = 0 /\ Count(l, Z, t) \in Int /\ Count(l, Z, t + 1) = Advance(l, Count(l, Z, t), Z[t])
<1>1. t - 1 \in Nat /\ t + 1 - 1 = t /\ 1 - 1 = 0 /\ t > 0 /\ t \in Nat
  OBVIOUS
<1>2. CASE l.validOnly
  <2>1. Count(l, Z, 1) = Total(Marks(Z), 0) /\ Count(l, Z, t) = Total(Marks(Z), t - 1)
        /\ Count(l, Z, t + 1) = Total(Marks(Z), t)
    BY <1>1, <1>2 DEF Count
  <2>2. Total(Marks(Z), 0) = 0 /\ Total(Marks(Z), t - 1) \in Int
    BY <1>1, TotalMarks
  <2>3. Total(Marks(Z), t) = Total(Marks(Z), t - 1) + (IF Z[t] = Absent THEN 0 ELSE 1)
    BY <1>1, TotalMarks
  <2>4. CASE Z[t] = Absent
    BY <1>2, <2>1, <2>2, <2>3, <2>4 DEF Advance
  <2>5. CASE Z[t] # Absent
    BY <1>2, <2>1, <2>2, <2>3, <2>5 DEF Advance
  <2> QED BY <2>4, <2>5
<1>3. CASE ~l.validOnly
  BY <1>3 DEF Count, Advance
<1> QED BY <1>2, <1>3

LEMMA FreshIs ==
  ASSUME NEW l, LayerType(l), NEW X, Stream(X), NEW K, Stream(K)
  PROVE  Fresh(l) = StateAt(l, X, K, 0)
<1>1. ASSUME NEW n \in Nat, NEW Z, Stream(Z)
      PROVE  Window(Records(l, Z), n, 0) = Blank(n) /\ Window(Plain(Z), n, 0) = Blank(n)
  <2>1. ASSUME NEW j \in 1 .. n
        PROVE  Records(l, Z)[0 - n + j] = [v |-> Absent, p |-> 0] /\ Plain(Z)[0 - n + j] = [v |-> Absent, p |-> 0]
    <3> DEFINE u == 0 - n + j
    <3>1. u \in Int /\ u <= 0
      OBVIOUS
    <3> HIDE DEF u
    <3>2. Z[u] = Absent
      BY <1>1, <3>1 DEF Stream
    <3>3. Records(l, Z)[u] = [v |-> Absent, p |-> 0] /\ Plain(Z)[u] = [v |-> Absent, p |-> 0]
      BY <3>1, <3>2 DEF Records, Plain
    <3> QED BY <3>3 DEF u
  <2> QED BY <2>1 DEF Window, Blank
<1>2. Count(l, X, 0 + 1) = 0 /\ Count(l, K, 0 + 1) = 0
  BY CountAdvances
<1>3. l.past + 1 + l.future \in Nat /\ l.latency \in Nat /\ l.shortcut \in Nat
  BY DEF LayerType
<1> DEFINE n == l.past + 1 + l.future
<1>4. Window(Records(l, K), n, 0) = Blank(n)
  <2> HIDE DEF n
  <2> QED BY <1>1, <1>3 DEF n
<1>5. Window(Records(l, X), l.latency, 0) = Blank(l.latency) /\ Window(Plain(X), l.shortcut, 0) = Blank(l.shortcut)
  BY <1>1, <1>3
<1> QED BY <1>2, <1>4, <1>5 DEF Fresh, StateAt, Keys

\* A step moves the windows on and looks at the frame as late as the layer is.
LEMMA StepMoves ==
  ASSUME NEW l, LayerType(l), NEW X, Stream(X), NEW K, Stream(K), NEW t \in Nat \ {0}
  PROVE  LET r == StepKeyed(l, StateAt(l, X, K, t - 1), X[t], K[t])
         IN /\ r.s = StateAt(l, X, K, t)
            /\ r.out = Combined(BodyStep(l, Records(l, X)[t - l.latency], Keys(l, K, t)), X[t - l.latency])
<1> DEFINE s == StateAt(l, X, K, t - 1)  W == l.past + 1 + l.future
<1>1. W \in Nat /\ W >= 1 /\ l.latency \in Nat /\ l.shortcut = l.latency /\ t \in Int /\ t - 1 + 1 = t
  BY DEF LayerType
<1>2. /\ s.keys = Window(Records(l, K), W, t - 1) /\ s.queries = Window(Records(l, X), l.latency, t - 1)
      /\ s.short = Window(Plain(X), l.latency, t - 1) /\ s.qn = Count(l, X, t) /\ s.kn = Count(l, K, t)
  BY <1>1 DEF StateAt, Keys
<1>3. /\ Records(l, X)[t] = [v |-> X[t], p |-> Count(l, X, t)]
      /\ Records(l, K)[t] = [v |-> K[t], p |-> Count(l, K, t)]
      /\ Plain(X)[t] = [v |-> X[t], p |-> 0]
      /\ DOMAIN Records(l, X) = Int /\ DOMAIN Records(l, K) = Int /\ DOMAIN Plain(X) = Int
  BY <1>1 DEF Records, Plain
<1> HIDE DEF s, W
<1> DEFINE keys == Append(Tail(s.keys), [v |-> K[t], p |-> s.kn])
           queries == Append(s.queries, [v |-> X[t], p |-> s.qn])
           short == Append(s.short, [v |-> X[t], p |-> 0])
<1>a. ASSUME NEW f, DOMAIN f = Int, NEW n \in Nat
      PROVE  /\ Head(Append(Window(f, n, t - 1), f[t])) = f[t - n]
             /\ Tail(Append(Window(f, n, t - 1), f[t])) = Window(f, n, t)
             /\ n >= 1 => Append(Tail(Window(f, n, t - 1)), f[t]) = Window(f, n, t)
  BY <1>a, <1>1, WindowSlides
<1>4. keys = Window(Records(l, K), W, t)
  <2>1. Append(Tail(Window(Records(l, K), W, t - 1)), Records(l, K)[t]) = Window(Records(l, K), W, t)
    BY <1>1, <1>3, <1>a
  <2> QED BY <1>2, <1>3, <2>1
<1>5. Head(queries) = Records(l, X)[t - l.latency] /\ Tail(queries) = Window(Records(l, X), l.latency, t)
  <2>1. queries = Append(Window(Records(l, X), l.latency, t - 1), Records(l, X)[t])
    BY <1>2, <1>3
  <2> QED BY <1>1, <1>3, <1>a, <2>1
<1>6. Head(short) = Plain(X)[t - l.latency] /\ Tail(short) = Window(Plain(X), l.latency, t)
  <2>1. short = Append(Window(Plain(X), l.latency, t - 1), Plain(X)[t])
    BY <1>2, <1>3
  <2> QED BY <1>1, <1>3, <1>a, <2>1
<1>7. Plain(X)[t - l.latency].v = X[t - l.latency]
  BY <1>1 DEF Plain
<1>8. Advance(l, s.qn, X[t]) = Count(l, X, t + 1) /\ Advance(l, s.kn, K[t]) = Count(l, K, t + 1)
  BY <1>2, CountAdvances
<1> DEFINE r == StepKeyed(l, s, X[t], K[t])
<1>9. r = ShiftedIn(l, s, X[t], K[t], keys, queries, short)
  BY DEF StepKeyed
<1> HIDE DEF keys, queries, short, r
<1>10. /\ r.out = Combined(BodyStep(l, Head(queries), keys), Head(short).v)
       /\ r.s = [keys |-> keys, queries |-> Tail(queries), short |-> Tail(short),
                 qn |-> Advance(l, s.qn, X[t]), kn |-> Advance(l, s.kn, K[t])]
  BY <1>9 DEF ShiftedIn
<1>11. keys = Keys(l, K, t) /\ l.shortcut = l.latency
  BY <1>1, <1>4 DEF Keys, W
<1>12. r.s = StateAt(l, X, K, t)
  BY <1>5, <1>6, <1>8, <1>10, <1>11 DEF StateAt
<1>13. r.out = Combined(BodyStep(l, Records(l, X)[t - l.latency], Keys(l, K, t)), X[t - l.latency])
  BY <1>5, <1>6, <1>7, <1>10, <1>11
<1> QED BY <1>12, <1>13 DEF r, s

\* The frames of a sequence, d steps late.
Late(N, xs, d) == [t \in Int |-> IF t - d \in 1 .. N THEN xs[t - d] ELSE Absent]
Frames(N, xs) == xs = [t \in 1 .. N |-> xs[t]]

LEMMA LateIsStream ==
  ASSUME NEW N \in Nat, NEW xs, NEW d \in Nat
  PROVE  /\ Stream(Late(N, xs, d))
         /\ \A u \in 1 .. N : Late(N, xs, d)[d + u] = xs[u]
<1>1. \A t \in Int : t <= 0 => ~(t - d \in 1 .. N)
  OBVIOUS
<1>2. \A u \in 1 .. N : d + u \in Int /\ d + u - d = u
  OBVIOUS
<1> QED BY <1>1, <1>2 DEF Late, Stream

\* Masked frames before the first do not count as positions.
LEMMA TotalLate ==
  ASSUME NEW N \in Nat, NEW xs, NEW d \in Nat
  PROVE  \A k \in 0 .. N : Total(Marks(Late(N, xs, d)), d + k) = Total(Marks(Late(N, xs, 0)), k)
<1> DEFINE Z == Late(N, xs, d)  Y == Late(N, xs, 0)
<1>0. N \in Nat
  OBVIOUS
<1>1. \A n \in 0 .. d : Total(Marks(Z), n) = 0
  <2> DEFINE T == {n \in 0 .. d : Total(Marks(Z), n) = 0}
  <2>1. 0 \in T
    BY TotalMarks
  <2>2. ASSUME NEW n \in 0 .. d - 1, n \in T PROVE n + 1 \in T
    <3>1. Z[n + 1] = Absent
      BY DEF Late
    <3> HIDE DEF Z
    <3>2. n + 1 \in Nat /\ n + 1 > 0 /\ n + 1 - 1 = n /\ n + 1 \in 0 .. d
      OBVIOUS
    <3>3. Total(Marks(Z), n + 1) = Total(Marks(Z), n) + 0
      BY <3>1, <3>2, TotalMarks
    <3> QED BY <2>2, <3>2, <3>3
  <2> HIDE DEF T
  <2>3. \A n \in 0 .. d : n \in T
    BY <2>1, <2>2, SetInduction
  <2> QED BY <2>3 DEF T
<1> DEFINE T == {k \in 0 .. N : Total(Marks(Z), d + k) = Total(Marks(Y), k)}
<1>2. 0 \in T
  <2>1. d + 0 = d /\ d \in 0 .. d
    OBVIOUS
  <2> QED BY <1>0, <1>1, <2>1, TotalMarks
<1>3. ASSUME NEW k \in 0 .. N - 1, k \in T PROVE k + 1 \in T
  <2>1. Z[d + (k + 1)] = Y[k + 1]
    <3>1. /\ d + (k + 1) \in Int /\ d + (k + 1) - d = k + 1 /\ k + 1 - 0 = k + 1
      BY <1>0
    <3> QED BY <3>1 DEF Late
  <2> HIDE DEF Z, Y
  <2> DEFINE n == d + (k + 1)
  <2>2. n \in Nat /\ n > 0 /\ n - 1 = d + k /\ k + 1 \in Nat /\ k + 1 > 0 /\ k + 1 - 1 = k /\ k + 1 \in 0 .. N
    BY <1>0
  <2> HIDE DEF n
  <2>3. Total(Marks(Z), n) = Total(Marks(Z), d + k) + (IF Z[n] = Absent THEN 0 ELSE 1)
    BY <2>2, TotalMarks
  <2>4. Total(Marks(Y), k + 1) = Total(Marks(Y), k) + (IF Y[k + 1] = Absent THEN 0 ELSE 1)
    BY <2>2, TotalMarks
  <2>5. Z[n] = Y[k + 1]
    BY <2>1 DEF n
  <2>6. Total(Marks(Z), n) = Total(Marks(Y), k + 1)
    BY <1>3, <2>3, <2>4, <2>5
  <2> QED BY <2>2, <2>6 DEF n
<1> HIDE DEF T
<1>4. \A k \in 0 .. N : k \in T
  BY <1>0, <1>2, <1>3, SetInduction
<1> QED BY <1>4 DEF T

LEMMA PositionsAre ==
  ASSUME NEW N \in Nat, NEW l, NEW xs, Frames(N, xs), NEW u \in 1 .. N
  PROVE  Positions(l, xs)[u] = Count(l, Late(N, xs, 0), u)
<1>0. N \in Nat
  OBVIOUS
<1> DEFINE Sums(t) == SumOf([i \in 1 .. t - 1 |-> IF xs[i] = Absent THEN 0 ELSE 1])
           ps == [t \in 1 .. N |-> IF l.validOnly THEN Sums(t) ELSE t - 1]
<1>1. DOMAIN xs = 1 .. N
  BY DEF Frames
<1>2. Positions(l, xs) = Listed(ps)
  BY <1>1 DEF Positions
<1>3. ps = [t \in 1 .. N |-> ps[t]]
  OBVIOUS
<1>4. ps[u] = IF l.validOnly THEN Sums(u) ELSE u - 1
  OBVIOUS
<1> HIDE DEF ps
<1>5. Positions(l, xs)[u] = IF l.validOnly THEN Sums(u) ELSE u - 1
  BY <1>0, <1>2, <1>3, <1>4, ListedIs
<1>6. [i \in 1 .. u - 1 |-> IF xs[i] = Absent THEN 0 ELSE 1] = [i \in 1 .. u - 1 |-> Marks(Late(N, xs, 0))[i]]
  <2>1. ASSUME NEW i \in 1 .. u - 1 PROVE Marks(Late(N, xs, 0))[i] = IF xs[i] = Absent THEN 0 ELSE 1
    <3>1. i \in Int /\ i - 0 = i /\ i \in 1 .. N
      BY <1>0
    <3>2. Late(N, xs, 0)[i] = xs[i]
      BY <3>1 DEF Late
    <3> QED BY <3>1, <3>2 DEF Marks
  <2> QED BY <2>1
<1>7. Sums(u) = Total(Marks(Late(N, xs, 0)), u - 1)
  BY <1>6 DEF Total
<1> HIDE DEF Sums
<1> QED BY <1>5, <1>7 DEF Count

\* What was read d steps late is at the position it has in the sequence, and d
\* further on where every step counts.
LEMMA CountLate ==
  ASSUME NEW N \in Nat, NEW l, LayerType(l), NEW xs, Frames(N, xs), NEW d \in Nat, NEW u \in 1 .. N
  PROVE  /\ Positions(l, xs)[u] \in Int
         /\ Records(l, Late(N, xs, d))[d + u]
            = [v |-> xs[u], p |-> Positions(l, xs)[u] + IF l.validOnly THEN 0 ELSE d]
<1>0. N \in Nat /\ u \in Nat /\ d + u \in Int /\ ~(d + u <= 0) /\ u - 1 \in 0 .. N /\ u \in Nat \ {0}
      /\ d + (u - 1) = d + u - 1 /\ 0 \in Nat
  OBVIOUS
<1>1. Positions(l, xs)[u] = Count(l, Late(N, xs, 0), u)
  BY PositionsAre
<1>2. Count(l, Late(N, xs, 0), u) \in Int
  BY <1>0, LateIsStream, CountAdvances
<1>3. Count(l, Late(N, xs, d), d + u) = Count(l, Late(N, xs, 0), u) + IF l.validOnly THEN 0 ELSE d
  <2>1. CASE l.validOnly
    <3>1. Total(Marks(Late(N, xs, d)), d + (u - 1)) = Total(Marks(Late(N, xs, 0)), u - 1)
      BY <1>0, TotalLate
    <3>2. Count(l, Late(N, xs, d), d + u) = Count(l, Late(N, xs, 0), u)
      BY <1>0, <2>1, <3>1 DEF Count
    <3> QED BY <1>2, <2>1, <3>2
  <2>2. CASE ~l.validOnly
    BY <1>0, <2>2 DEF Count
  <2> QED BY <2>1, <2>2
<1>4. Late(N, xs, d)[d + u] = xs[u]
  BY LateIsStream
<1>5. Records(l, Late(N, xs, d))[d + u] = [v |-> xs[u], p |-> Count(l, Late(N, xs, d), d + u)]
  BY <1>0, <1>4 DEF Records
<1> QED BY <1>1, <1>2, <1>3, <1>5

\* The keys around the frame u, and what the body makes of that frame.
Seen(N, l, ks, u) ==
  [i \in 1 .. l.past + 1 + l.future |->
     IF u - l.past - 1 + i \in 1 .. N
     THEN [v |-> ks[u - l.past - 1 + i], p |-> Positions(l, ks)[u - l.past - 1 + i]]
     ELSE [v |-> Absent, p |-> 0]]
BodyOf(N, l, xs, ks, u) ==
  IF l.kind \in Attending THEN Attend(l, xs[u], Positions(l, xs)[u], Seen(N, l, ks, u)) ELSE FeedForward(xs[u])

LEMMA WholeIs ==
  ASSUME NEW N \in Nat, NEW l, NEW xs, Frames(N, xs), NEW ks, Frames(N, ks)
  PROVE  /\ Frames(N, WholeFrom(l, xs, ks))
         /\ \A u \in 1 .. N :
              WholeFrom(l, xs, ks)[u] = IF xs[u] = Absent THEN Absent ELSE Combined(BodyOf(N, l, xs, ks, u), xs[u])
<1> DEFINE qp == Positions(l, xs)  kp == Positions(l, ks)
           Key(j) == IF j \in 1 .. N THEN [v |-> ks[j], p |-> kp[j]] ELSE [v |-> Absent, p |-> 0]
           Around(u) == [i \in 1 .. l.past + 1 + l.future |-> Key(u - l.past - 1 + i)]
           Body(u) == IF l.kind \in Attending THEN Attend(l, xs[u], qp[u], Around(u)) ELSE FeedForward(xs[u])
           whole == [u \in 1 .. N |-> IF xs[u] = Absent THEN Absent ELSE Combined(Body(u), xs[u])]
<1>1. DOMAIN xs = 1 .. N /\ DOMAIN ks = 1 .. N
  BY DEF Frames
<1>2. WholeFrom(l, xs, ks) = Listed(whole)
  <2> HIDE DEF qp, kp
  <2>1. WholeKeyed(l, xs, ks, qp, kp) = Listed(whole)
    BY <1>1 DEF WholeKeyed, Attending
  <2> QED BY <2>1 DEF WholeFrom, qp, kp
<1>3. whole = [u \in 1 .. N |-> whole[u]]
  OBVIOUS
<1>4. \A u \in 1 .. N : whole[u] = IF xs[u] = Absent THEN Absent ELSE Combined(Body(u), xs[u])
  OBVIOUS
<1>5. N \in Nat
  OBVIOUS
<1>6. Listed(whole) = whole
  <2> HIDE DEF whole
  <2> QED BY <1>3, <1>5, ListedIs
<1>7. Frames(N, WholeFrom(l, xs, ks))
  BY <1>2, <1>3, <1>6 DEF Frames
<1>8. \A u \in 1 .. N : WholeFrom(l, xs, ks)[u] = IF xs[u] = Absent THEN Absent ELSE Combined(Body(u), xs[u])
  BY <1>2, <1>4, <1>6
<1>9. \A u \in 1 .. N : Body(u) = BodyOf(N, l, xs, ks, u)
  BY DEF BodyOf, Seen
<1> HIDE DEF Body
<1> QED BY <1>7, <1>8, <1>9

\* The factor with which a key counts.
Term(l, p, k) == IF k.v = Absent THEN 0 ELSE k.v * (IF l.rope THEN 7 * (k.p - p) + 50 ELSE 1)

\* What an attention layer reads at a step is what it reads for the frame of
\* the sequence it is then about: as late with the keys as it must be, and
\* positions that count the same, or the same distances.
LEMMA SameKeys ==
  ASSUME NEW N \in Nat, NEW l, LayerType(l), NEW xs, Frames(N, xs), NEW ks, Frames(N, ks),
         NEW c \in Nat, NEW e \in Nat,
         c + l.latency = e + l.future, l.rope /\ ~l.validOnly => c = e,
         NEW u \in 1 .. N
  PROVE  Attend(l, xs[u], Positions(l, xs)[u] + (IF l.validOnly THEN 0 ELSE c), Keys(l, Late(N, ks, e), u + c + l.latency))
         = Attend(l, xs[u], Positions(l, xs)[u], Seen(N, l, ks, u))
<1> DEFINE W == l.past + 1 + l.future
           q == Positions(l, xs)[u]  p == q + (IF l.validOnly THEN 0 ELSE c)
           t == u + c + l.latency
           keys == Keys(l, Late(N, ks, e), t)  seen == Seen(N, l, ks, u)
<1>1. q \in Int
  BY CountLate
<1>2. DOMAIN keys = 1 .. W /\ DOMAIN seen = 1 .. W
  BY DEF Keys, Window, Seen
<1>3. ASSUME NEW j \in 1 .. W PROVE Term(l, p, keys[j]) = Term(l, q, seen[j])
  <2> DEFINE w == u - l.past - 1 + j
  <2>1. keys[j] = Records(l, Late(N, ks, e))[e + w]
    <3>0. u \in Int /\ j \in Int /\ l.past \in Int /\ l.future \in Int /\ l.latency \in Int
      BY DEF LayerType
    <3> HIDE DEF Keys
    <3>1. t - W + j = e + w
      BY <3>0
    <3>2. keys[j] = Records(l, Late(N, ks, e))[t - W + j]
      BY DEF Keys, Window
    <3> HIDE DEF t, w, W, keys
    <3> QED BY <3>1, <3>2
  <2>2. w \in Int
    BY DEF LayerType
  <2>3. seen[j] = IF w \in 1 .. N THEN [v |-> ks[w], p |-> Positions(l, ks)[w]] ELSE [v |-> Absent, p |-> 0]
    BY DEF Seen
  <2> HIDE DEF w, keys, seen, W, p, q, t
  <2>4. CASE w \in 1 .. N
    <3>1. /\ Positions(l, ks)[w] \in Int
          /\ keys[j] = [v |-> ks[w], p |-> Positions(l, ks)[w] + IF l.validOnly THEN 0 ELSE e]
      BY <2>1, <2>4, CountLate
    <3> DEFINE k == Positions(l, ks)[w]
    <3>2. keys[j].v = seen[j].v /\ seen[j].p = k /\ keys[j].p = k + (IF l.validOnly THEN 0 ELSE e) /\ k \in Int
      BY <2>3, <2>4, <3>1
    <3> HIDE DEF k
    <3>3. l.rope => keys[j].p - p = seen[j].p - q
      <4>1. CASE l.validOnly
        BY <1>1, <3>2, <4>1 DEF p
      <4>2. CASE ~l.validOnly
        BY <1>1, <3>2, <4>2 DEF p
      <4> QED BY <4>1, <4>2
    <3> QED BY <3>2, <3>3 DEF Term
  <2>5. CASE w \notin 1 .. N
    <3>1. seen[j].v = Absent
      BY <2>3, <2>5
    <3> DEFINE n == e + w
    <3>2. n \in Int /\ n - e = w
      BY <2>2
    <3> HIDE DEF n
    <3>3. Late(N, ks, e)[n] = Absent
      BY <2>5, <3>2 DEF Late
    <3>4. keys[j].v = Absent
      BY <2>1, <3>2, <3>3 DEF Records, n
    <3> QED BY <3>1, <3>4 DEF Term
  <2> QED BY <2>4, <2>5
<1> HIDE DEF keys, seen, W, p, q, t
<1>4. [i \in DOMAIN keys |-> Term(l, p, keys[i])] = [i \in DOMAIN seen |-> Term(l, q, seen[i])]
  BY <1>2, <1>3
<1>5. ASSUME NEW r, NEW ns
      PROVE  Attend(l, xs[u], r, ns) = (31 * xs[u] + SumOf([i \in DOMAIN ns |-> Term(l, r, ns[i])])) % Prime
  BY DEF Attend, Term
<1>6. Attend(l, xs[u], p, keys) = Attend(l, xs[u], q, seen)
  <2>1. Attend(l, xs[u], p, keys) = (31 * xs[u] + SumOf([i \in DOMAIN keys |-> Term(l, p, keys[i])])) % Prime
    BY <1>5
  <2>2. Attend(l, xs[u], q, seen) = (31 * xs[u] + SumOf([i \in DOMAIN seen |-> Term(l, q, seen[i])])) % Prime
    BY <1>5
  <2> QED BY <1>4, <2>1, <2>2
<1> QED BY <1>6 DEF keys, seen, p, q, t

\* A layer that is asked in step mode puts out what it computes over the whole
\* sequence, as late as it is itself.
LEMMA LayerExact ==
  ASSUME NEW N \in Nat, NEW l, LayerType(l), NEW xs, Frames(N, xs), NEW ks, Frames(N, ks),
         NEW c \in Nat, NEW e \in Nat,
         l.kind \in Attending => c + l.latency = e + l.future /\ (l.rope /\ ~l.validOnly => c = e),
         NEW t \in Nat \ {0}
  PROVE  Combined(BodyStep(l, Records(l, Late(N, xs, c))[t - l.latency], Keys(l, Late(N, ks, e), t)),
                  Late(N, xs, c)[t - l.latency])
         = Late(N, WholeFrom(l, xs, ks), c + l.latency)[t]
<1> DEFINE X == Late(N, xs, c)  whole == WholeFrom(l, xs, ks)  u == t - (c + l.latency)  d == t - l.latency
           rec == Records(l, X)[d]  keys == Keys(l, Late(N, ks, e), t)
<1>1. u \in Int /\ d \in Int /\ d - c = u /\ d = c + u /\ t \in Int /\ t = u + c + l.latency
  BY DEF LayerType
<1>2. Late(N, whole, c + l.latency)[t] = IF u \in 1 .. N THEN whole[u] ELSE Absent
  BY <1>1 DEF Late
<1>3. X[d] = IF u \in 1 .. N THEN xs[u] ELSE Absent
  BY <1>1 DEF Late
<1>a. DOMAIN X = Int
  BY DEF Late
<1> HIDE DEF X, whole, u, d, keys
<1>4. CASE u \notin 1 .. N
  <2>1. X[d] = Absent
    BY <1>3, <1>4
  <2>2. Combined(BodyStep(l, rec, keys), X[d]) = Absent
    BY <2>1 DEF Combined
  <2>3. Late(N, whole, c + l.latency)[t] = Absent
    BY <1>2, <1>4
  <2> QED BY <2>2, <2>3 DEF X, whole, d, keys
<1>5. CASE u \in 1 .. N
  <2> DEFINE body == BodyOf(N, l, xs, ks, u)
  <2>1. whole[u] = IF xs[u] = Absent THEN Absent ELSE Combined(body, xs[u])
    BY <1>5, WholeIs DEF whole
  <2>2. CASE xs[u] = Absent
    <3>1. X[d] = Absent
      BY <1>3, <1>5, <2>2
    <3>2. Combined(BodyStep(l, rec, keys), X[d]) = Absent
      BY <3>1 DEF Combined
    <3>3. Late(N, whole, c + l.latency)[t] = Absent
      BY <1>2, <1>5, <2>1, <2>2
    <3> QED BY <3>2, <3>3 DEF X, whole, d, keys
  <2>3. CASE xs[u] # Absent
    <3>1. rec = [v |-> xs[u], p |-> Positions(l, xs)[u] + IF l.validOnly THEN 0 ELSE c]
      <4>1. Records(l, X)[c + u] = [v |-> xs[u], p |-> Positions(l, xs)[u] + IF l.validOnly THEN 0 ELSE c]
        BY <1>5, CountLate DEF X
      <4> QED BY <1>1, <4>1
    <3> HIDE DEF rec
    <3>2. rec.v = xs[u] /\ rec.p = Positions(l, xs)[u] + IF l.validOnly THEN 0 ELSE c
      BY <3>1
    <3>3. BodyStep(l, rec, keys) = body
      <4>1. CASE l.kind \in Attending
        <5>1. BodyStep(l, rec, keys) = Attend(l, rec.v, rec.p, keys)
          BY <2>3, <3>2, <4>1 DEF BodyStep, Attending
        <5>2. body = Attend(l, xs[u], Positions(l, xs)[u], Seen(N, l, ks, u))
          BY <4>1 DEF BodyOf
        <5>3. Attend(l, xs[u], Positions(l, xs)[u] + (IF l.validOnly THEN 0 ELSE c), Keys(l, Late(N, ks, e), u + c + l.latency))
              = Attend(l, xs[u], Positions(l, xs)[u], Seen(N, l, ks, u))
          BY <1>5, <4>1, SameKeys
        <5>4. keys = Keys(l, Late(N, ks, e), u + c + l.latency)
          BY <1>1 DEF keys
        <5> QED BY <3>2, <5>1, <5>2, <5>3, <5>4
      <4>2. CASE l.kind \notin Attending
        BY <2>3, <3>2, <4>2 DEF BodyStep, Attending, BodyOf
      <4> QED BY <4>1, <4>2
    <3> HIDE DEF body
    <3>4. Combined(BodyStep(l, rec, keys), X[d]) = whole[u]
      BY <1>3, <1>5, <2>1, <2>3, <3>3
    <3>5. Late(N, whole, c + l.latency)[t] = whole[u]
      BY <1>2, <1>5
    <3> QED BY <3>4, <3>5 DEF X, whole, d, keys, rec
  <2> QED BY <2>2, <2>3
<1> QED BY <1>4, <1>5

--------------------------------------------------------------------------------
(* The layers one after the other.                                         *)

LEMMA AppendIs ==
  ASSUME NEW n \in Nat, NEW s, s = [i \in 1 .. n |-> s[i]], NEW x
  PROVE  /\ Append(s, x) = [i \in 1 .. n + 1 |-> IF i <= n THEN s[i] ELSE x]
         /\ Len(s) = n /\ Len(Append(s, x)) = n + 1
<1> DEFINE S == {s[i] : i \in 1 .. n} \cup {x}
           e == [i \in 1 .. n + 1 |-> IF i <= n THEN s[i] ELSE x]
<1>1. s \in [1 .. n -> S]
  OBVIOUS
<1>2. s \in Seq(S) /\ Len(s) = n /\ x \in S
  BY <1>1
<1>3. Append(s, x) \in Seq(S) /\ Len(Append(s, x)) = n + 1 /\ Append(s, x)[n + 1] = x
      /\ \A i \in 1 .. n : Append(s, x)[i] = s[i]
  BY <1>2
<1>4. e \in Seq(S) /\ Len(e) = n + 1
  <2>1. e \in [1 .. n + 1 -> S]
    OBVIOUS
  <2> HIDE DEF e
  <2> QED BY <2>1
<1>5. \A i \in 1 .. n + 1 : e[i] = Append(s, x)[i]
  <2>1. \A i \in 1 .. n + 1 : i \in 1 .. n \/ i = n + 1
    OBVIOUS
  <2> QED BY <1>3, <2>1
<1> HIDE DEF e, S
<1>6. Append(s, x) = e
  BY <1>3, <1>4, <1>5
<1> QED BY <1>2, <1>3, <1>6 DEF e

WholeTo(f, layers, xs, src, n) ==
  f = [i \in 0 .. n |-> IF i = 0 THEN xs ELSE WholeLayer(layers[i], f[i - 1], src)]
WholeOf(layers, xs, src) == CHOOSE f : WholeTo(f, layers, xs, src, Len(layers))

LEMMA WholeExists ==
  ASSUME NEW layers, NEW xs, NEW src, NEW N \in Nat
  PROVE  \E f : WholeTo(f, layers, xs, src, N)
<1> DEFINE T == {n \in 0 .. N : \E f : WholeTo(f, layers, xs, src, n)}
<1>1. 0 \in T
  <2> DEFINE h == [i \in 0 .. 0 |-> xs]
  <2>1. h = [i \in 0 .. 0 |-> IF i = 0 THEN xs ELSE WholeLayer(layers[i], h[i - 1], src)]
    OBVIOUS
  <2> HIDE DEF h
  <2> QED BY <2>1 DEF WholeTo
<1>2. ASSUME NEW n \in 0 .. N - 1, n \in T PROVE n + 1 \in T
  <2>1. PICK f : f = [i \in 0 .. n |-> IF i = 0 THEN xs ELSE WholeLayer(layers[i], f[i - 1], src)]
    BY <1>2 DEF WholeTo
  <2> HIDE DEF T
  <2> DEFINE g == [i \in 0 .. n + 1 |-> IF i <= n THEN f[i] ELSE WholeLayer(layers[i], f[n], src)]
  <2>2. ASSUME NEW i \in 0 .. n + 1
        PROVE  g[i] = IF i = 0 THEN xs ELSE WholeLayer(layers[i], g[i - 1], src)
    <3>1. CASE i = 0
      BY <2>1, <3>1
    <3>2. CASE i # 0 /\ i <= n
      <4>1. g[i] = f[i] /\ g[i - 1] = f[i - 1] /\ i \in 0 .. n
        BY <3>2
      <4>2. f[i] = WholeLayer(layers[i], f[i - 1], src)
        BY <2>1, <3>2, <4>1
      <4> HIDE DEF g
      <4> QED BY <3>2, <4>1, <4>2
    <3>3. CASE i = n + 1
      <4>1. ~(i <= n) /\ i - 1 = n /\ i # 0
        BY <3>3
      <4>2. g[i] = WholeLayer(layers[i], f[n], src) /\ g[i - 1] = f[n]
        BY <4>1
      <4> HIDE DEF g
      <4> QED BY <4>1, <4>2
    <3> QED BY <3>1, <3>2, <3>3
  <2>3. g = [i \in 0 .. n + 1 |-> IF i = 0 THEN xs ELSE WholeLayer(layers[i], g[i - 1], src)]
    BY <2>2
  <2> HIDE DEF g
  <2> QED BY <2>3 DEF T, WholeTo
<1> HIDE DEF T
<1>3. N \in T
  BY <1>1, <1>2, SetInduction
<1> QED BY <1>3 DEF T

LEMMA WholeOfIs ==
  ASSUME NEW layers, Len(layers) \in Nat, NEW xs, NEW src
  PROVE  LET w == WholeOf(layers, xs, src)
         IN /\ WholeStack(layers, xs, src) = w[Len(layers)]
            /\ w[0] = xs
            /\ \A i \in 1 .. Len(layers) : w[i] = WholeLayer(layers[i], w[i - 1], src)
<1> DEFINE w == WholeOf(layers, xs, src)
<1>1. WholeTo(w, layers, xs, src, Len(layers))
  <2>1. \E f : WholeTo(f, layers, xs, src, Len(layers))
    BY WholeExists
  <2> QED BY <2>1 DEF WholeOf
<1>2. WholeStack(layers, xs, src) = w[Len(layers)]
  BY DEF WholeStack, WholeOf, WholeTo
<1> HIDE DEF w
<1>3. w = [i \in 0 .. Len(layers) |-> IF i = 0 THEN xs ELSE WholeLayer(layers[i], w[i - 1], src)]
  BY <1>1 DEF WholeTo
<1>4. \A i \in 0 .. Len(layers) : w[i] = IF i = 0 THEN xs ELSE WholeLayer(layers[i], w[i - 1], src)
  BY <1>3
<1>5. w[0] = xs /\ \A i \in 1 .. Len(layers) : w[i] = WholeLayer(layers[i], w[i - 1], src)
  BY <1>4
<1> QED BY <1>2, <1>5 DEF w

StepTo(f, layers, states, x, src, n) ==
  f = [i \in 0 .. n |->
         IF i = 0 THEN [out |-> x, s |-> <<>>]
         ELSE Through(f[i - 1], StepLayer(layers[i], states[i], f[i - 1].out, src))]
StackStepOf(layers, states, x, src) == CHOOSE f : StepTo(f, layers, states, x, src, Len(layers))

LEMMA StepExists ==
  ASSUME NEW layers, NEW states, NEW x, NEW src, NEW N \in Nat
  PROVE  \E f : StepTo(f, layers, states, x, src, N)
<1> DEFINE T == {n \in 0 .. N : \E f : StepTo(f, layers, states, x, src, n)}
           start == [out |-> x, s |-> <<>>]
           More(i, b) == Through(b, StepLayer(layers[i], states[i], b.out, src))
<1>0. ASSUME NEW f, NEW n
      PROVE  StepTo(f, layers, states, x, src, n)
             <=> f = [i \in 0 .. n |-> IF i = 0 THEN start ELSE More(i, f[i - 1])]
  BY DEF StepTo
<1> HIDE DEF start, More
<1>1. 0 \in T
  <2> DEFINE h == [i \in 0 .. 0 |-> start]
  <2>1. h = [i \in 0 .. 0 |-> IF i = 0 THEN start ELSE More(i, h[i - 1])]
    OBVIOUS
  <2> HIDE DEF h
  <2> QED BY <1>0, <2>1
<1>2. ASSUME NEW n \in 0 .. N - 1, n \in T PROVE n + 1 \in T
  <2>1. PICK f : f = [i \in 0 .. n |-> IF i = 0 THEN start ELSE More(i, f[i - 1])]
    BY <1>0, <1>2
  <2> HIDE DEF T
  <2> DEFINE g == [i \in 0 .. n + 1 |-> IF i <= n THEN f[i] ELSE More(i, f[n])]
  <2>2. ASSUME NEW i \in 0 .. n + 1
        PROVE  g[i] = IF i = 0 THEN start ELSE More(i, g[i - 1])
    <3>1. CASE i = 0
      BY <2>1, <3>1
    <3>2. CASE i # 0 /\ i <= n
      <4>1. g[i] = f[i] /\ g[i - 1] = f[i - 1] /\ i \in 0 .. n
        BY <3>2
      <4>2. f[i] = More(i, f[i - 1])
        BY <2>1, <3>2, <4>1
      <4> HIDE DEF g
      <4> QED BY <3>2, <4>1, <4>2
    <3>3. CASE i = n + 1
      <4>1. ~(i <= n) /\ i - 1 = n /\ i # 0
        BY <3>3
      <4>2. g[i] = More(i, f[n]) /\ g[i - 1] = f[n]
        BY <4>1
      <4> HIDE DEF g
      <4> QED BY <4>1, <4>2
    <3> QED BY <3>1, <3>2, <3>3
  <2>3. g = [i \in 0 .. n + 1 |-> IF i = 0 THEN start ELSE More(i, g[i - 1])]
    BY <2>2
  <2> HIDE DEF g
  <2>4. StepTo(g, layers, states, x, src, n + 1)
    BY <1>0, <2>3
  <2> QED BY <2>4 DEF T
<1> HIDE DEF T
<1>3. N \in T
  BY <1>1, <1>2, SetInduction
<1> QED BY <1>3 DEF T

StepsTo(f, layers, states, x, src, r) ==
  /\ r = f[Len(layers)]
  /\ f[0] = [out |-> x, s |-> <<>>]
  /\ \A i \in 1 .. Len(layers) :
       f[i] = Through(f[i - 1], StepLayer(layers[i], states[i], f[i - 1].out, src))

LEMMA StepOfIs ==
  ASSUME NEW layers, Len(layers) \in Nat, NEW states, NEW x, NEW src
  PROVE  StepsTo(StackStepOf(layers, states, x, src), layers, states, x, src, StepStack(layers, states, x, src))
<1> DEFINE f == StackStepOf(layers, states, x, src)
           start == [out |-> x, s |-> <<>>]
           More(i, b) == Through(b, StepLayer(layers[i], states[i], b.out, src))
<1>1. StepTo(f, layers, states, x, src, Len(layers))
  <2>1. \E g : StepTo(g, layers, states, x, src, Len(layers))
    BY StepExists
  <2> QED BY <2>1 DEF StackStepOf
<1>2. StepStack(layers, states, x, src) = f[Len(layers)]
  BY DEF StepStack, StackStepOf, StepTo
<1>3. f = [i \in 0 .. Len(layers) |-> IF i = 0 THEN start ELSE More(i, f[i - 1])]
  <2> HIDE DEF f
  <2> QED BY <1>1 DEF StepTo
<1> HIDE DEF f, start, More
<1>4. \A i \in 0 .. Len(layers) : f[i] = IF i = 0 THEN start ELSE More(i, f[i - 1])
  BY <1>3
<1>5. f[0] = start /\ \A i \in 1 .. Len(layers) : f[i] = More(i, f[i - 1])
  BY <1>4
<1> USE DEF start, More
<1>6. StepsTo(f, layers, states, x, src, StepStack(layers, states, x, src))
  BY <1>2, <1>5 DEF StepsTo
<1> QED BY <1>6 DEF f

\* How late the frames reach the layer after the i-th, where the first layer
\* gets them d late.
Latencies(layers) == [i \in 1 .. Len(layers) |-> layers[i].latency]
Lead(layers, d, i) == d + Total(Latencies(layers), i)
\* What a layer gets c late arrives in time for what it looks at, and counts
\* the distances it attends by as the keys do.
KeyLead(l, c) == IF l.kind = "cross" THEN 0 ELSE c
Ready(l, c) ==
  l.kind \in Attending => /\ c + l.latency = KeyLead(l, c) + l.future
                          /\ l.rope /\ ~l.validOnly => c = KeyLead(l, c)
Stackable(layers, d) ==
  /\ Len(layers) \in Nat /\ layers = [i \in 1 .. Len(layers) |-> layers[i]] /\ d \in Nat
  /\ \A i \in 1 .. Len(layers) : LayerType(layers[i]) /\ Ready(layers[i], Lead(layers, d, i - 1))

\* The frames between the layers, and the states of these at the time t.
Flow(N, layers, xs, src, d, i) == Late(N, WholeOf(layers, xs, src)[i], Lead(layers, d, i))
KeyFlow(N, layers, xs, src, d, i) ==
  IF layers[i].kind = "cross" THEN Late(N, src, 0) ELSE Flow(N, layers, xs, src, d, i - 1)
StatesAt(N, layers, xs, src, d, t) ==
  [i \in 1 .. Len(layers) |->
     StateAt(layers[i], Flow(N, layers, xs, src, d, i - 1), KeyFlow(N, layers, xs, src, d, i), t)]

LEMMA Leads ==
  ASSUME NEW layers, NEW d, Stackable(layers, d)
  PROVE  /\ \A i \in 0 .. Len(layers) : Lead(layers, d, i) \in Nat
         /\ Lead(layers, d, 0) = d
         /\ \A i \in 1 .. Len(layers) : Lead(layers, d, i) = Lead(layers, d, i - 1) + layers[i].latency
<1> DEFINE n == Len(layers)  z == Latencies(layers)
<1>1. n \in Nat /\ d \in Nat /\ \A i \in 1 .. n : z[i] = layers[i].latency /\ z[i] \in Nat
  BY DEF Latencies, Stackable, LayerType
<1> HIDE DEF n, z
<1>2. ASSUME NEW i \in 0 .. n
      PROVE  Total(z, 0) = 0 /\ Total(z, i) \in Int /\ (i > 0 => Total(z, i) = Total(z, i - 1) + z[i])
  <2>1. i \in Nat /\ \A j \in 1 .. i : z[j] \in Int
    BY <1>1
  <2> QED BY <2>1, SumStep
<1> DEFINE T == {i \in 0 .. n : Total(z, i) \in Nat}
<1>3. \A i \in 0 .. n : i \in T
  <2>1. 0 \in T
    BY <1>1, <1>2
  <2>2. ASSUME NEW i \in 0 .. n - 1, i \in T PROVE i + 1 \in T
    <3>1. i + 1 \in 0 .. n /\ i + 1 > 0 /\ i + 1 - 1 = i /\ i + 1 \in 1 .. n
      BY <1>1
    <3>2. Total(z, i + 1) = Total(z, i) + z[i + 1]
      BY <1>2, <3>1
    <3> QED BY <1>1, <2>2, <3>1, <3>2
  <2> HIDE DEF T
  <2> QED BY <1>1, <2>1, <2>2, SetInduction
<1>4. ASSUME NEW i \in 0 .. n PROVE Lead(layers, d, i) = d + Total(z, i) /\ Total(z, i) \in Nat
  BY <1>3 DEF Lead, z
<1>5. \A i \in 1 .. n : i \in 0 .. n /\ i - 1 \in 0 .. n /\ i > 0
  BY <1>1
<1>6. 0 \in 0 .. n
  BY <1>1
<1>7. ASSUME NEW i \in 1 .. n PROVE Lead(layers, d, i) = Lead(layers, d, i - 1) + layers[i].latency
  <2>1. Lead(layers, d, i) = d + Total(z, i) /\ Lead(layers, d, i - 1) = d + Total(z, i - 1)
        /\ Total(z, i) \in Nat /\ Total(z, i - 1) \in Nat
    BY <1>4, <1>5
  <2>2. Total(z, i) = Total(z, i - 1) + z[i] /\ z[i] = layers[i].latency /\ z[i] \in Nat
    BY <1>1, <1>2, <1>5
  <2> QED BY <1>1, <2>1, <2>2
<1>8. Lead(layers, d, 0) = d
  BY <1>1, <1>2, <1>4, <1>6
<1>9. \A i \in 0 .. n : Lead(layers, d, i) \in Nat
  BY <1>1, <1>4
<1> QED BY <1>7, <1>8, <1>9 DEF n

LEMMA WholesAreFrames ==
  ASSUME NEW N \in Nat, NEW layers, NEW d, Stackable(layers, d), NEW xs, Frames(N, xs), NEW src, Frames(N, src)
  PROVE  \A i \in 0 .. Len(layers) : Frames(N, WholeOf(layers, xs, src)[i])
<1> DEFINE w == WholeOf(layers, xs, src)  n == Len(layers)
           T == {i \in 0 .. n : Frames(N, w[i])}
<1>0. n \in Nat
  BY DEF Stackable
<1>1. w[0] = xs /\ \A i \in 1 .. n : w[i] = WholeLayer(layers[i], w[i - 1], src)
  BY <1>0, WholeOfIs
<1> HIDE DEF w, n
<1>2. 0 \in T
  BY <1>0, <1>1
<1>3. ASSUME NEW i \in 0 .. n - 1, i \in T PROVE i + 1 \in T
  <2>1. i + 1 \in 1 .. n /\ i + 1 - 1 = i /\ i + 1 \in 0 .. n
    BY <1>0
  <2>2. w[i + 1] = WholeLayer(layers[i + 1], w[i], src)
    BY <1>1, <2>1
  <2> DEFINE ks == IF layers[i + 1].kind = "cross" THEN src ELSE w[i]
             l == layers[i + 1]
  <2>3. Frames(N, ks) /\ Frames(N, w[i])
    BY <1>3
  <2>4. w[i + 1] = WholeFrom(l, w[i], ks)
    BY <2>2 DEF WholeLayer
  <2> HIDE DEF ks, l
  <2>5. Frames(N, w[i + 1])
    BY <2>3, <2>4, WholeIs
  <2> QED BY <2>1, <2>5
<1> HIDE DEF T
<1>4. \A i \in 0 .. n : i \in T
  BY <1>0, <1>2, <1>3, SetInduction
<1> QED BY <1>4 DEF T, w, n

LEMMA FreshStackIs ==
  ASSUME NEW N \in Nat, NEW layers, NEW d, Stackable(layers, d), NEW xs, NEW src
  PROVE  FreshStack(layers) = StatesAt(N, layers, xs, src, d, 0)
<1>1. Len(layers) \in Nat /\ DOMAIN layers = 1 .. Len(layers)
  BY DEF Stackable
<1>2. ASSUME NEW i \in 1 .. Len(layers)
      PROVE  Fresh(layers[i])
             = StateAt(layers[i], Flow(N, layers, xs, src, d, i - 1), KeyFlow(N, layers, xs, src, d, i), 0)
  <2>1. i - 1 \in 0 .. Len(layers)
    BY <1>1
  <2>2. Lead(layers, d, i - 1) \in Nat /\ 0 \in Nat
    BY <2>1, Leads
  <2>3. Stream(Flow(N, layers, xs, src, d, i - 1))
    BY <2>2, LateIsStream DEF Flow
  <2>4. Stream(KeyFlow(N, layers, xs, src, d, i))
    <3>1. CASE layers[i].kind = "cross"
      <4>1. Stream(Late(N, src, 0))
        BY <2>2, LateIsStream
      <4> QED BY <3>1, <4>1 DEF KeyFlow
    <3>2. CASE layers[i].kind # "cross"
      BY <2>3, <3>2 DEF KeyFlow
    <3> QED BY <3>1, <3>2
  <2>5. LayerType(layers[i])
    BY DEF Stackable
  <2> QED BY <2>3, <2>4, <2>5, FreshIs
<1> QED BY <1>1, <1>2 DEF FreshStack, StatesAt

\* One layer of the stack, at one step.
LEMMA LayerInStack ==
  ASSUME NEW N \in Nat, NEW layers, NEW d, Stackable(layers, d), NEW xs, Frames(N, xs), NEW src, Frames(N, src),
         NEW i \in 1 .. Len(layers), NEW t \in Nat \ {0}
  PROVE  LET r == StepLayer(layers[i], StatesAt(N, layers, xs, src, d, t - 1)[i],
                            Flow(N, layers, xs, src, d, i - 1)[t], Late(N, src, 0)[t])
         IN /\ r.s = StatesAt(N, layers, xs, src, d, t)[i]
            /\ r.out = Flow(N, layers, xs, src, d, i)[t]
<1> DEFINE l == layers[i]  c == Lead(layers, d, i - 1)  e == KeyLead(l, c)
           v == WholeOf(layers, xs, src)[i - 1]  ks == IF l.kind = "cross" THEN src ELSE v
           X == Flow(N, layers, xs, src, d, i - 1)  K == KeyFlow(N, layers, xs, src, d, i)
           s == StatesAt(N, layers, xs, src, d, t - 1)[i]
           r == StepLayer(l, s, X[t], Late(N, src, 0)[t])
<1>1. Len(layers) \in Nat /\ LayerType(l) /\ Ready(l, c)
  BY DEF Stackable
<1>2. i \in Nat /\ i > 0 /\ i - 1 \in 0 .. Len(layers) /\ i \in 0 .. Len(layers)
  BY <1>1
<1>3. c \in Nat /\ Lead(layers, d, i) = c + l.latency
  BY <1>2, Leads
<1>4. Frames(N, v)
  BY <1>2, WholesAreFrames
<1>5. Frames(N, ks)
  BY <1>4
<1>6. e \in Nat
  BY <1>3 DEF KeyLead
<1>7. X = Late(N, v, c) /\ K = Late(N, ks, e)
  <2>1. X = Late(N, v, c)
    BY DEF Flow
  <2>2. CASE l.kind = "cross"
    <3>1. K = Late(N, src, 0) /\ ks = src /\ e = 0
      BY <2>2 DEF KeyFlow, KeyLead
    <3> HIDE DEF X, K, e, c, v, ks
    <3> QED BY <2>1, <3>1
  <2>3. CASE l.kind # "cross"
    <3>1. K = X /\ ks = v /\ e = c
      BY <2>3 DEF KeyFlow, KeyLead
    <3> HIDE DEF X, K, e, c, v, ks
    <3> QED BY <2>1, <3>1
  <2> QED BY <2>1, <2>2, <2>3
<1>8. WholeOf(layers, xs, src)[i] = WholeFrom(l, v, ks)
  <2>1. WholeOf(layers, xs, src)[i] = WholeLayer(l, v, src)
    BY <1>1, WholeOfIs
  <2> QED BY <2>1 DEF WholeLayer
<1>9. s = StateAt(l, X, K, t - 1) /\ StatesAt(N, layers, xs, src, d, t)[i] = StateAt(l, X, K, t)
  BY DEF StatesAt
<1>10. r = StepKeyed(l, s, X[t], K[t])
  BY DEF StepLayer, KeyFlow
<1>11. Flow(N, layers, xs, src, d, i) = Late(N, WholeFrom(l, v, ks), c + l.latency)
  BY <1>3, <1>8 DEF Flow
<1> HIDE DEF l, c, e, v, ks, X, K, s, r
<1>12. Stream(X) /\ Stream(K)
  BY <1>3, <1>6, <1>7, LateIsStream
<1>13. r.s = StateAt(l, X, K, t)
       /\ r.out = Combined(BodyStep(l, Records(l, X)[t - l.latency], Keys(l, K, t)), X[t - l.latency])
  BY <1>1, <1>9, <1>10, <1>12, StepMoves
<1>14. l.kind \in Attending => c + l.latency = e + l.future /\ (l.rope /\ ~l.validOnly => c = e)
  BY <1>1 DEF Ready, e
<1>15. Combined(BodyStep(l, Records(l, X)[t - l.latency], Keys(l, K, t)), X[t - l.latency])
       = Late(N, WholeFrom(l, v, ks), c + l.latency)[t]
  BY <1>1, <1>3, <1>4, <1>5, <1>6, <1>7, <1>14, LayerExact
<1>16. r.out = Flow(N, layers, xs, src, d, i)[t] /\ r.s = StatesAt(N, layers, xs, src, d, t)[i]
  BY <1>9, <1>11, <1>13, <1>15
<1> QED BY <1>16 DEF l, s, X, r

\* All the layers at one step.
LEMMA StackExact ==
  ASSUME NEW N \in Nat, NEW layers, NEW d, Stackable(layers, d), NEW xs, Frames(N, xs), NEW src, Frames(N, src),
         NEW t \in Nat \ {0}
  PROVE  LET r == StepStack(layers, StatesAt(N, layers, xs, src, d, t - 1), Late(N, xs, d)[t], Late(N, src, 0)[t])
         IN /\ r.s = StatesAt(N, layers, xs, src, d, t)
            /\ r.out = Late(N, WholeStack(layers, xs, src), Lead(layers, d, Len(layers)))[t]
<1> DEFINE n == Len(layers)  old == StatesAt(N, layers, xs, src, d, t - 1)  new == StatesAt(N, layers, xs, src, d, t)
           x == Late(N, xs, d)[t]  key == Late(N, src, 0)[t]
           f == StackStepOf(layers, old, x, key)
           Out(i) == Flow(N, layers, xs, src, d, i)[t]
           Done(i) == [j \in 1 .. i |-> new[j]]
           T == {i \in 0 .. n : f[i].out = Out(i) /\ f[i].s = Done(i)}
<1>0. n \in Nat
  BY DEF Stackable
<1>1. /\ StepStack(layers, old, x, key) = f[n]
      /\ f[0] = [out |-> x, s |-> <<>>]
      /\ \A i \in 1 .. n : f[i] = Through(f[i - 1], StepLayer(layers[i], old[i], f[i - 1].out, key))
  <2>1. StepsTo(f, layers, old, x, key, StepStack(layers, old, x, key))
    <3> HIDE DEF old, x, key
    <3> QED BY <1>0, StepOfIs
  <2> HIDE DEF old, x, key, f
  <2> QED BY <2>1 DEF StepsTo
<1>2. Out(0) = x
  <2>1. WholeOf(layers, xs, src)[0] = xs
    BY <1>0, WholeOfIs
  <2>2. Lead(layers, d, 0) = d
    BY Leads
  <2> QED BY <2>1, <2>2 DEF Flow
<1>3. ASSUME NEW i \in 1 .. n
      PROVE  LET r == StepLayer(layers[i], old[i], Out(i - 1), key) IN r.s = new[i] /\ r.out = Out(i)
  BY <1>3, LayerInStack
<1>4. Out(n) = Late(N, WholeStack(layers, xs, src), Lead(layers, d, n))[t]
  BY <1>0, WholeOfIs DEF Flow
<1>5. Done(n) = new
  BY DEF StatesAt
<1> HIDE DEF n, old, new, x, key, f, Out
<1>6. 0 \in T
  <2>1. Done(0) = <<>>
    OBVIOUS
  <2>2. 0 \in 0 .. n
    BY <1>0
  <2> QED BY <1>1, <1>2, <2>1, <2>2
<1>7. ASSUME NEW i \in 0 .. n - 1, i \in T PROVE i + 1 \in T
  <2>1. i + 1 \in 1 .. n /\ i + 1 - 1 = i /\ i + 1 \in 0 .. n /\ i \in Nat
    BY <1>0
  <2> DEFINE r == StepLayer(layers[i + 1], old[i + 1], Out(i), key)
  <2>2. r.s = new[i + 1] /\ r.out = Out(i + 1)
    BY <1>3, <2>1
  <2>3. f[i + 1] = Through(f[i], r)
    BY <1>1, <1>7, <2>1
  <2> HIDE DEF r
  <2>4. f[i + 1].out = Out(i + 1) /\ f[i + 1].s = Append(Done(i), new[i + 1])
    BY <1>7, <2>2, <2>3 DEF Through
  <2> DEFINE dn == Done(i)  z == new[i + 1]
  <2>a. dn = [j \in 1 .. i |-> dn[j]] /\ \A j \in 1 .. i : dn[j] = new[j]
    OBVIOUS
  <2> HIDE DEF dn, z
  <2>5. Append(dn, z) = [j \in 1 .. i + 1 |-> IF j <= i THEN dn[j] ELSE z]
    BY <2>1, <2>a, AppendIs
  <2>6. \A j \in 1 .. i + 1 : (IF j <= i THEN dn[j] ELSE z) = new[j]
    <3>1. \A j \in 1 .. i + 1 : j \in 1 .. i \/ (j = i + 1 /\ ~(j <= i))
      BY <2>1
    <3>2. \A j \in 1 .. i : j <= i
      BY <2>1
    <3> QED BY <2>a, <3>1, <3>2 DEF z
  <2>7. Append(dn, z) = Done(i + 1)
    BY <2>5, <2>6
  <2> QED BY <2>1, <2>4, <2>7 DEF dn, z
<1> HIDE DEF T
<1>8. n \in T
  <2>1. \A i \in 0 .. n : i \in T
    BY <1>0, <1>6, <1>7, SetInduction
  <2> QED BY <1>0, <2>1
<1>9. f[n].out = Out(n) /\ f[n].s = new
  BY <1>5, <1>8 DEF T
<1> QED BY <1>1, <1>4, <1>9 DEF n, old, new, x, key

--------------------------------------------------------------------------------
(* The layers a configuration builds.                                      *)

ConfFields ==
  [layers: Nat \ {0}, past: Nat, future: Nat, cross: BOOLEAN, xpast: Nat \cup {Unset},
   xfuture: Nat \cup {Unset}, delayed: BOOLEAN, rope: BOOLEAN, validOnly: BOOLEAN,
   local: BOOLEAN, gated: BOOLEAN, positions: BOOLEAN, separate: BOOLEAN]

LEMMA ConfigurationFields ==
  ASSUME NEW c \in Configurations
  PROVE  c \in ConfFields /\ Streamable(c)
<1>0. Horizons \subseteq Nat /\ Depths \subseteq Nat \ {0}
  BY TransformerAssumption
<1>1. ASSUME NEW y \in Shapes PROVE y \in ConfFields
  <2>1. PICK n \in Depths, p \in Horizons, f \in Horizons \cap 0 .. 1 : y = Shape(n, p, f)
    BY DEF Shapes
  <2>2. n \in Nat \ {0} /\ p \in Nat /\ f \in Nat /\ Unset \in Nat \cup {Unset}
    BY <1>0
  <2> QED BY <2>1, <2>2 DEF Shape, DefaultTransformer, ConfFields
<1>2. ASSUME NEW y \in ConfFields, NEW z \in Crossings(y) PROVE z \in ConfFields
  <2>1. \/ z = y \/ z = [y EXCEPT !.cross = TRUE]
        \/ \E p \in Horizons, f \in {0, 1}, d \in BOOLEAN : z = Crossing(y, p, f, d)
    BY <1>2 DEF Crossings
  <2>2. CASE \E p \in Horizons, f \in {0, 1}, d \in BOOLEAN : z = Crossing(y, p, f, d)
    <3>1. PICK p \in Horizons, f \in {0, 1}, d \in BOOLEAN : z = Crossing(y, p, f, d)
      BY <2>2
    <3>2. p \in Nat /\ f \in Nat
      BY <1>0, <3>1
    <3> QED BY <1>2, <3>1, <3>2 DEF Crossing, ConfFields
  <2>3. CASE z = [y EXCEPT !.cross = TRUE]
    BY <1>2, <2>3 DEF ConfFields
  <2> QED BY <1>2, <2>1, <2>2, <2>3
<1>3. ASSUME NEW y \in ConfFields, NEW z \in Encodings(y) PROVE z \in ConfFields
  <2>1. \/ z = y \/ z = [y EXCEPT !.rope = FALSE]
        \/ z = [y EXCEPT !.validOnly = FALSE] \/ z = [y EXCEPT !.positions = TRUE]
    BY <1>3 DEF Encodings
  <2> QED BY <1>3, <2>1 DEF ConfFields
<1>4. /\ c \in UNION {Encodings(x) : x \in UNION {Crossings(y) : y \in Shapes}}
      /\ Streamable(c)
  BY DEF Configurations
<1> HIDE DEF ConfFields
<1>5. PICK x \in UNION {Crossings(y) : y \in Shapes} : c \in Encodings(x)
  BY <1>4
<1>6. PICK y \in Shapes : x \in Crossings(y)
  BY <1>5
<1>7. y \in ConfFields
  BY <1>1
<1>8. x \in ConfFields
  BY <1>2, <1>6, <1>7
<1>9. c \in ConfFields
  BY <1>3, <1>5, <1>8
<1> QED BY <1>4, <1>9

Built(block, k, m) == [i \in 1 .. m |-> block[1 + ((i - 1) % k)]]

LEMMA BlocksAre ==
  ASSUME NEW k \in {2, 3}, NEW n \in Nat \ {0}, NEW block
  PROVE  /\ Len(block) = k => Blocks(block, n) = Built(block, k, n * k)
         /\ Len(Built(block, k, n * k)) = n * k /\ n * k \in Nat /\ n * k >= k
         /\ \A i \in 1 .. n * k : 1 + ((i - 1) % k) \in 1 .. k
<1>1. n * k \in Nat /\ n * k >= k
  <2>1. CASE k = 2
    BY <2>1
  <2>2. CASE k = 3
    BY <2>2
  <2> QED BY <2>1, <2>2
<1>2. \A i \in 1 .. n * k : 1 + ((i - 1) % k) \in 1 .. k
  <2>1. \A j \in Int : j % k \in 0 .. k - 1
    BY Z3
  <2> QED BY <1>1, <2>1
<1> DEFINE m == n * k  built == [i \in 1 .. m |-> block[1 + ((i - 1) % k)]]
<1>3. built = [i \in 1 .. m |-> built[i]] /\ Len(built) = m
  BY <1>1
<1>4. Len(block) = k => Blocks(block, n) = Listed(built)
  BY DEF Blocks
<1>5. m \in Nat
  BY <1>1
<1> HIDE DEF built, m
<1>6. Listed(built) = built
  BY <1>3, <1>5, ListedIs
<1> USE DEF built, m
<1> QED BY <1>1, <1>2, <1>3, <1>4, <1>6 DEF Built

\* The layers of a block, where make() accepts them.
SelfLayer(l, a) ==
  /\ l.kind = "self" /\ l.past = a.past /\ l.future = a.future /\ l.latency = a.future
  /\ l.shortcut = a.future /\ l.rope = a.rope /\ l.validOnly = a.validOnly
CrossLayer(l, a) ==
  /\ l.kind = "cross" /\ l.past = a.past /\ l.future = a.future /\ l.latency = (IF a.delayed THEN a.future ELSE 0)
  /\ l.shortcut = l.latency /\ l.rope = a.rope /\ l.validOnly = a.validOnly
  /\ a.delayed \/ ~a.rope \/ a.validOnly
PlainLayer(l) ==
  /\ l.kind \notin Attending /\ l.past = 0 /\ l.future = 0 /\ l.latency = 0 /\ l.shortcut = 0
  /\ l.rope \in BOOLEAN /\ l.validOnly \in BOOLEAN

LEMMA FieldTypes ==
  ASSUME NEW c \in ConfFields
  PROVE  SelfOf(c) \in SelfAttentionFields /\ CrossOf(c) \in CrossAttentionFields
<1>1. (c.xpast # Unset => c.xpast \in Nat) /\ (c.xfuture # Unset => c.xfuture \in Nat)
  BY DEF ConfFields
<1>2. CrossOf(c) \in CrossAttentionFields
  BY <1>1 DEF ConfFields, CrossOf, CrossAttentionFields
<1> QED BY <1>2 DEF ConfFields, SelfOf, SelfAttentionFields

LEMMA LayersOfBlock ==
  ASSUME NEW c \in ConfFields
  PROVE  /\ SelfAttention(SelfOf(c)) # Invalid => SelfLayer(SelfAttention(SelfOf(c)), SelfOf(c))
         /\ StreamingCrossAttention(CrossOf(c)) # Invalid
            => CrossLayer(StreamingCrossAttention(CrossOf(c)), CrossOf(c))
         /\ PlainLayer(TransformerFFN(c.gated))
<1> DEFINE s == SelfOf(c)  x == CrossOf(c)
<1>0. s \in SelfAttentionFields /\ x \in CrossAttentionFields
  BY FieldTypes
<1> HIDE DEF s, x
<1>1. ASSUME SelfAttention(s) # Invalid PROVE SelfLayer(SelfAttention(s), s)
  <2>1. s.future \in Nat
    BY <1>0 DEF SelfAttentionFields
  <2>2. SelfAttention(s) = Residual("self", s, s.future, s.future)
    BY <1>1, <2>1 DEF SelfAttention
  <2> QED BY <2>2 DEF SelfLayer, Residual
<1>2. ASSUME StreamingCrossAttention(x) # Invalid PROVE CrossLayer(StreamingCrossAttention(x), x)
  <2> DEFINE d == IF x.delayed THEN x.future ELSE 0
  <2>1. StreamingCrossAttention(x) = Residual("cross", x, d, d) /\ ~(~x.delayed /\ x.rope /\ ~x.validOnly)
    BY <1>2 DEF StreamingCrossAttention
  <2> QED BY <2>1 DEF CrossLayer, Residual
<1>3. PlainLayer(TransformerFFN(c.gated))
  BY DEF PlainLayer, TransformerFFN, Residual, Attending
<1> QED BY <1>1, <1>2, <1>3 DEF s, x

LEMMA Joined ==
  ASSUME NEW a, NEW b, NEW f
  PROVE  <<a>> \o <<b>> \o <<f>> = <<a, b, f>> /\ <<a>> \o <<>> \o <<f>> = <<a, f>>
<1> DEFINE S == {a, b, f}  p == <<a>> \o <<b>>  q == <<a>> \o <<>>
<1>1. <<a>> \in Seq(S) /\ <<b>> \in Seq(S) /\ <<f>> \in Seq(S) /\ <<>> \in Seq(S)
      /\ Len(<<a>>) = 1 /\ Len(<<b>>) = 1 /\ Len(<<f>>) = 1 /\ Len(<<>>) = 0
  OBVIOUS
<1>2. p \in Seq(S) /\ Len(p) = 2 /\ p[1] = a /\ p[2] = b /\ q \in Seq(S) /\ Len(q) = 1 /\ q[1] = a
  BY <1>1
<1> HIDE DEF p, q
<1>g. ASSUME NEW m \in Nat, NEW u \in Seq(S), Len(u) = m
      PROVE  LET w == u \o <<f>>
             IN w \in Seq(S) /\ Len(w) = m + 1 /\ w[m + 1] = f /\ \A i \in 1 .. m : w[i] = u[i]
  <2> DEFINE g == <<f>>
  <2>1. g \in Seq(S) /\ Len(g) = 1 /\ g[1] = f
    BY <1>1
  <2> HIDE DEF g, S
  <2> QED BY <1>g, <2>1 DEF g
<1> HIDE DEF S
<1>3. p \o <<f>> \in Seq(S) /\ Len(p \o <<f>>) = 3 /\ (p \o <<f>>)[1] = a /\ (p \o <<f>>)[2] = b
      /\ (p \o <<f>>)[3] = f
  <2> DEFINE w == p \o <<f>>
  <2>1. w \in Seq(S) /\ Len(w) = 2 + 1 /\ w[2 + 1] = f /\ \A i \in 1 .. 2 : w[i] = p[i]
    BY <1>2, <1>g
  <2> HIDE DEF w
  <2>2. w \in Seq(S) /\ Len(w) = 3 /\ w[1] = a /\ w[2] = b /\ w[3] = f
    BY <1>2, <2>1
  <2> QED BY <2>2 DEF w
<1>4. q \o <<f>> \in Seq(S) /\ Len(q \o <<f>>) = 2 /\ (q \o <<f>>)[1] = a /\ (q \o <<f>>)[2] = f
  <2> DEFINE w == q \o <<f>>
  <2>1. w \in Seq(S) /\ Len(w) = 1 + 1 /\ w[1 + 1] = f /\ \A i \in 1 .. 1 : w[i] = q[i]
    BY <1>2, <1>g
  <2> HIDE DEF w
  <2>2. w \in Seq(S) /\ Len(w) = 2 /\ w[1] = a /\ w[2] = f
    BY <1>2, <2>1
  <2> QED BY <2>2 DEF w
<1> USE DEF S
<1>5. <<a, b, f>> \in Seq(S) /\ <<a, f>> \in Seq(S)
  OBVIOUS
<1> HIDE DEF S
<1>6. p \o <<f>> = <<a, b, f>>
  <2> DEFINE u == p \o <<f>>  v == <<a, b, f>>
  <2>1. Len(v) = 3 /\ v[1] = a /\ v[2] = b /\ v[3] = f
    OBVIOUS
  <2>2. \A i \in 1 .. 3 : u[i] = v[i]
    <3>1. \A i \in 1 .. 3 : i = 1 \/ i = 2 \/ i = 3
      OBVIOUS
    <3> HIDE DEF u, v
    <3> QED BY <1>3, <2>1, <3>1 DEF u
  <2> HIDE DEF u, v
  <2>3. u \in Seq(S) /\ v \in Seq(S) /\ Len(u) = Len(v) /\ \A i \in 1 .. Len(u) : u[i] = v[i]
    BY <1>3, <1>5, <2>1, <2>2 DEF u, v
  <2>4. u = v
    BY <2>3, SeqEqual
  <2> QED BY <2>4 DEF u, v
<1>7. q \o <<f>> = <<a, f>>
  <2> DEFINE u == q \o <<f>>  v == <<a, f>>
  <2>1. Len(v) = 2 /\ v[1] = a /\ v[2] = f
    OBVIOUS
  <2>2. \A i \in 1 .. 2 : u[i] = v[i]
    <3>1. \A i \in 1 .. 2 : i = 1 \/ i = 2
      OBVIOUS
    <3> HIDE DEF u, v
    <3> QED BY <1>4, <2>1, <3>1 DEF u
  <2> HIDE DEF u, v
  <2>3. u \in Seq(S) /\ v \in Seq(S) /\ Len(u) = Len(v) /\ \A i \in 1 .. Len(u) : u[i] = v[i]
    BY <1>4, <1>5, <2>1, <2>2 DEF u, v
  <2>4. u = v
    BY <2>3, SeqEqual
  <2> QED BY <2>4 DEF u, v
<1> QED BY <1>6, <1>7 DEF p, q

LEMMA BlockIs ==
  ASSUME NEW c
  PROVE  /\ ~c.cross => TransformerBlock(c) = <<SelfAttention(SelfOf(c)), TransformerFFN(c.gated)>>
         /\ c.cross => TransformerBlock(c)
                       = <<SelfAttention(SelfOf(c)), StreamingCrossAttention(CrossOf(c)), TransformerFFN(c.gated)>>
<1> DEFINE a == SelfAttention(SelfOf(c))  b == StreamingCrossAttention(CrossOf(c))  f == TransformerFFN(c.gated)
<1>1. TransformerBlock(c) = <<a>> \o (IF c.cross THEN <<b>> ELSE <<>>) \o <<f>>
  BY DEF TransformerBlock
<1> HIDE DEF a, b, f
<1>2. <<a>> \o <<b>> \o <<f>> = <<a, b, f>> /\ <<a>> \o <<>> \o <<f>> = <<a, f>>
  BY Joined
<1> QED BY <1>1, <1>2 DEF a, b, f

\* The layers of a stack: those of its block, over and over.
LEMMA StackIs ==
  ASSUME NEW c \in ConfFields, Buildable(Stack(c))
  PROVE  LET layers == Stack(c)
         IN /\ Len(layers) \in Nat /\ layers = [i \in 1 .. Len(layers) |-> layers[i]]
            /\ Len(layers) >= 2 /\ SelfLayer(layers[1], SelfOf(c))
            /\ \A i \in 1 .. Len(layers) :
                 \/ SelfLayer(layers[i], SelfOf(c)) \/ PlainLayer(layers[i])
                 \/ c.cross /\ CrossLayer(layers[i], CrossOf(c)) /\ (c.layers = 1 => i = 2) /\ i >= 2
<1> DEFINE a == SelfAttention(SelfOf(c))  b == StreamingCrossAttention(CrossOf(c))  f == TransformerFFN(c.gated)
           layers == Stack(c)
<1>0. /\ a # Invalid => SelfLayer(a, SelfOf(c))
      /\ b # Invalid => CrossLayer(b, CrossOf(c))
      /\ PlainLayer(f)
  BY LayersOfBlock
<1>1. (~c.cross => TransformerBlock(c) = <<a, f>>) /\ (c.cross => TransformerBlock(c) = <<a, b, f>>)
  BY BlockIs
<1>2. layers = Blocks(TransformerBlock(c), c.layers) /\ \A i \in DOMAIN layers : layers[i] # Invalid
  BY DEF Stack, Buildable
<1>3. c.layers \in Nat \ {0} /\ c.cross \in BOOLEAN
  BY DEF ConfFields
<1> DEFINE Fine(i) == \/ SelfLayer(layers[i], SelfOf(c)) \/ PlainLayer(layers[i])
                      \/ c.cross /\ CrossLayer(layers[i], CrossOf(c)) /\ (c.layers = 1 => i = 2) /\ i >= 2
<1> HIDE DEF a, b, f, layers
<1>4. ASSUME NEW k \in {2, 3}, NEW block, Len(block) = k, layers = Blocks(block, c.layers)
      PROVE  /\ layers = [i \in 1 .. c.layers * k |-> block[1 + ((i - 1) % k)]]
             /\ Len(layers) = c.layers * k /\ Len(layers) \in Nat /\ Len(layers) >= k
             /\ layers = [i \in 1 .. Len(layers) |-> layers[i]]
             /\ \A i \in 1 .. Len(layers) : /\ 1 + ((i - 1) % k) \in 1 .. k
                                            /\ layers[i] = block[1 + ((i - 1) % k)] /\ layers[i] # Invalid
             /\ c.layers = 1 => Len(layers) = k
  <2> DEFINE m == c.layers * k  built == Built(block, k, m)
  <2>1. Blocks(block, c.layers) = built /\ Len(built) = m /\ m \in Nat /\ m >= k
        /\ \A i \in 1 .. m : 1 + ((i - 1) % k) \in 1 .. k
    BY <1>3, <1>4, BlocksAre
  <2>2. built = [i \in 1 .. m |-> built[i]] /\ DOMAIN built = 1 .. m
        /\ \A i \in 1 .. m : built[i] = block[1 + ((i - 1) % k)]
    BY DEF Built
  <2>3. c.layers = 1 => m = k
    OBVIOUS
  <2> HIDE DEF built, m
  <2>4. layers = built
    BY <1>4, <2>1
  <2>5. \A i \in 1 .. m : layers[i] # Invalid
    BY <1>2, <2>2, <2>4
  <2> QED BY <2>1, <2>2, <2>3, <2>4, <2>5 DEF built, m, Built
<1>5. CASE ~c.cross
  <2> DEFINE block == <<a, f>>
  <2>1. Len(block) = 2 /\ block[1] = a /\ block[2] = f /\ layers = Blocks(block, c.layers)
    BY <1>1, <1>2, <1>5
  <2> HIDE DEF block
  <2>2. /\ Len(layers) \in Nat /\ Len(layers) >= 2
        /\ layers = [i \in 1 .. Len(layers) |-> layers[i]]
        /\ \A i \in 1 .. Len(layers) : /\ 1 + ((i - 1) % 2) \in 1 .. 2
                                       /\ layers[i] = block[1 + ((i - 1) % 2)] /\ layers[i] # Invalid
    BY <1>4, <2>1
  <2>3. 1 \in 1 .. Len(layers) /\ 1 + ((1 - 1) % 2) = 1
    BY <2>2
  <2>4. layers[1] = a /\ a # Invalid
    BY <2>1, <2>2, <2>3
  <2>5. ASSUME NEW i \in 1 .. Len(layers) PROVE Fine(i)
    <3> DEFINE j == 1 + ((i - 1) % 2)
    <3>1. j \in 1 .. 2 /\ layers[i] = block[j]
      BY <2>2
    <3> HIDE DEF j
    <3>2. layers[i] = a \/ layers[i] = f
      BY <2>1, <3>1
    <3> QED BY <1>0, <2>4, <3>2
  <2> QED BY <1>0, <2>2, <2>4, <2>5 DEF layers
<1>6. CASE c.cross
  <2> DEFINE block == <<a, b, f>>
  <2>1. Len(block) = 3 /\ block[1] = a /\ block[2] = b /\ block[3] = f /\ layers = Blocks(block, c.layers)
    BY <1>1, <1>2, <1>6
  <2> HIDE DEF block
  <2>2. /\ Len(layers) \in Nat /\ Len(layers) >= 3 /\ (c.layers = 1 => Len(layers) = 3)
        /\ layers = [i \in 1 .. Len(layers) |-> layers[i]]
        /\ \A i \in 1 .. Len(layers) : /\ 1 + ((i - 1) % 3) \in 1 .. 3
                                       /\ layers[i] = block[1 + ((i - 1) % 3)] /\ layers[i] # Invalid
    BY <1>4, <2>1
  <2>3. 1 \in 1 .. Len(layers) /\ 1 + ((1 - 1) % 3) = 1 /\ 2 \in 1 .. Len(layers) /\ 1 + ((2 - 1) % 3) = 2
    BY <2>2
  <2>4. layers[1] = a /\ a # Invalid /\ layers[2] = b /\ b # Invalid
    BY <2>1, <2>2, <2>3
  <2>5. ASSUME NEW i \in 1 .. Len(layers) PROVE Fine(i)
    <3> DEFINE j == 1 + ((i - 1) % 3)
    <3>1. j \in 1 .. 3 /\ layers[i] = block[j] /\ i \in Nat
      BY <2>2
    <3>2. j = 2 => i >= 2 /\ (c.layers = 1 => i = 2)
      <4>1. 1 + ((1 - 1) % 3) = 1 /\ 1 + ((3 - 1) % 3) = 3
        OBVIOUS
      <4>2. i >= 1 /\ (c.layers = 1 => i \in {1, 2, 3})
        BY <2>2
      <4> QED BY <3>1, <4>1, <4>2
    <3> HIDE DEF j
    <3>3. (j = 1 => layers[i] = a) /\ (j = 2 => layers[i] = b) /\ (j = 3 => layers[i] = f) /\ j \in {1, 2, 3}
      BY <2>1, <3>1
    <3> QED BY <1>0, <1>6, <2>4, <3>2, <3>3
  <2>6. Len(layers) >= 2
    BY <2>2
  <2> QED BY <1>0, <2>2, <2>4, <2>5, <2>6 DEF layers
<1> QED BY <1>3, <1>5, <1>6

\* What a caller that delays the queries holds them back by.
Delay(c) == IF c.cross /\ ~c.delayed THEN CrossOf(c).future ELSE 0

\* Every configuration that make() accepts is in step with its source.
LEMMA ConfStackable ==
  ASSUME NEW c \in Configurations, Buildable(Stack(c))
  PROVE  Stackable(Stack(c), Delay(c))
<1> DEFINE layers == Stack(c)  d == Delay(c)  s == SelfOf(c)  x == CrossOf(c)  n == Len(layers)
           z == Latencies(layers)
<1>1. c \in ConfFields /\ Streamable(c)
  BY ConfigurationFields
<1>2. s \in SelfAttentionFields /\ x \in CrossAttentionFields
  BY <1>1, FieldTypes
<1>3. /\ n \in Nat /\ layers = [i \in 1 .. n |-> layers[i]]
      /\ n >= 2 /\ SelfLayer(layers[1], s)
      /\ \A i \in 1 .. n :
           \/ SelfLayer(layers[i], s) \/ PlainLayer(layers[i])
           \/ c.cross /\ CrossLayer(layers[i], x) /\ (c.layers = 1 => i = 2) /\ i >= 2
  BY <1>1, StackIs
<1>4. c.cross => \/ x.future = 0 /\ c.future = 0
                 \/ x.future > 0 /\ c.future = 0 /\ (c.layers = 1 \/ ~c.delayed)
  BY <1>1 DEF Streamable, CrossOf
<1>5. s.future = c.future /\ x.delayed = c.delayed /\ c.delayed \in BOOLEAN
  BY <1>1 DEF SelfOf, CrossOf, ConfFields
<1>6. s.past \in Nat /\ s.future \in Nat /\ x.past \in Nat /\ x.future \in Nat
      /\ s.rope \in BOOLEAN /\ s.validOnly \in BOOLEAN /\ x.rope \in BOOLEAN /\ x.validOnly \in BOOLEAN
  BY <1>2 DEF SelfAttentionFields, CrossAttentionFields
<1>7. d = (IF c.cross /\ ~c.delayed THEN x.future ELSE 0) /\ d \in Nat
  BY <1>6 DEF Delay
<1>8. \A i \in 1 .. n : z[i] = layers[i].latency
  BY DEF Latencies
<1>9. \A i \in 1 .. n : Lead(layers, d, i - 1) = d + Total(z, i - 1)
  BY DEF Lead
<1> HIDE DEF layers, d, s, x, n, z
<1>10. ASSUME NEW i \in 1 .. n PROVE LayerType(layers[i])
  <2>1. CASE SelfLayer(layers[i], s)
    BY <1>6, <2>1 DEF SelfLayer, LayerType
  <2>2. CASE PlainLayer(layers[i])
    BY <2>2 DEF PlainLayer, LayerType
  <2>3. CASE CrossLayer(layers[i], x)
    <3>1. layers[i].latency \in Nat
      BY <1>5, <1>6, <2>3 DEF CrossLayer
    <3> QED BY <1>6, <2>3, <3>1 DEF CrossLayer, LayerType
  <2> QED BY <1>3, <2>1, <2>2, <2>3
<1>11. ASSUME NEW i \in 1 .. n, c.cross, CrossLayer(layers[i], x), c.layers = 1 => i = 2, i >= 2
       PROVE  Ready(layers[i], d + Total(z, i - 1))
  <2>1. \A j \in 1 .. i - 1 : z[j] = 0
    <3>1. CASE c.layers = 1
      <4>1. \A j \in 1 .. i - 1 : j = 1
        BY <1>11, <3>1
      <4>2. layers[1].latency = 0
        BY <1>3, <1>4, <1>5, <1>11 DEF SelfLayer
      <4>3. 1 \in 1 .. n
        BY <1>3
      <4> QED BY <1>8, <4>1, <4>2, <4>3
    <3>2. CASE c.layers # 1
      <4>1. ASSUME NEW j \in 1 .. i - 1 PROVE z[j] = 0
        <5>1. j \in 1 .. n
          BY <1>3
        <5>2. layers[j].latency = 0
          BY <1>3, <1>4, <1>5, <1>6, <1>11, <3>2, <5>1 DEF SelfLayer, PlainLayer, CrossLayer
        <5> QED BY <1>8, <5>1, <5>2
      <4> QED BY <4>1
    <3> QED BY <3>1, <3>2
  <2>2. Total(z, i - 1) = 0
    <3> DEFINE k == i - 1  T == {j \in 0 .. k : Total(z, j) = 0}
    <3>0. k \in Nat
      BY <1>3, <1>11
    <3>a. \A j \in 1 .. k : z[j] = 0
      BY <2>1
    <3> HIDE DEF k
    <3>1. 0 \in T
      BY <3>0, <3>a, SumStep
    <3>2. ASSUME NEW j \in 0 .. k - 1, j \in T PROVE j + 1 \in T
      <4>1. j + 1 \in Nat /\ j + 1 > 0 /\ j + 1 - 1 = j /\ j + 1 \in 0 .. k /\ j + 1 \in 1 .. k
        BY <3>0
      <4>2. \A i1 \in 1 .. j + 1 : z[i1] \in Int
        BY <3>0, <3>a
      <4> DEFINE m == j + 1
      <4>3. m \in Nat /\ m > 0 /\ \A i1 \in 1 .. m : z[i1] \in Int
        BY <4>1, <4>2
      <4> HIDE DEF m
      <4>4. Total(z, m) = Total(z, m - 1) + z[m]
        BY <4>3, SumStep
      <4>5. z[m] = 0 /\ Total(z, m - 1) = 0
        BY <3>2, <3>a, <4>1 DEF m
      <4>6. Total(z, m) = 0
        BY <4>4, <4>5
      <4> QED BY <4>1, <4>6 DEF m
    <3> HIDE DEF T
    <3>3. \A j \in 0 .. k : j \in T
      BY <3>0, <3>1, <3>2, SetInduction
    <3>4. k \in T
      BY <3>0, <3>3
    <3> QED BY <3>4 DEF T, k
  <2>3. d + Total(z, i - 1) = d
    BY <1>7, <2>2
  <2>4. Ready(layers[i], d)
    <3> DEFINE l == layers[i]
    <3>1. l.kind = "cross" /\ l.future = x.future /\ l.latency = (IF x.delayed THEN x.future ELSE 0)
          /\ (x.delayed \/ ~l.rope \/ l.validOnly)
      BY <1>11 DEF CrossLayer
    <3> HIDE DEF l
    <3>2. CASE c.delayed
      <4>1. d = 0 /\ l.latency = x.future
        BY <1>5, <1>7, <3>1, <3>2
      <4> QED BY <1>6, <3>1, <4>1 DEF Ready, KeyLead, l
    <3>3. CASE ~c.delayed
      <4>1. d = x.future /\ l.latency = 0 /\ ~(l.rope /\ ~l.validOnly)
        BY <1>5, <1>7, <1>11, <3>1, <3>3
      <4> QED BY <1>6, <3>1, <4>1 DEF Ready, KeyLead, l
    <3> QED BY <1>5, <3>2, <3>3
  <2> QED BY <2>3, <2>4
<1>12. ASSUME NEW i \in 1 .. n PROVE Ready(layers[i], d + Total(z, i - 1))
  <2>1. CASE SelfLayer(layers[i], s)
    BY <2>1 DEF SelfLayer, Ready, KeyLead
  <2>2. CASE PlainLayer(layers[i])
    BY <2>2 DEF PlainLayer, Ready
  <2> QED BY <1>3, <1>11, <2>1, <2>2
<1>13. \A i \in 1 .. n : LayerType(layers[i]) /\ Ready(layers[i], Lead(layers, d, i - 1))
  BY <1>9, <1>10, <1>12
<1> QED BY <1>3, <1>7, <1>13 DEF Stackable, layers, d, n

--------------------------------------------------------------------------------
(* The stream.                                                             *)

Source == [t \in 1 .. MaxTime |-> SourceAt(t)]
\* A whole sequence that begins with the frames read so far.
Extends(F) == Frames(MaxTime, F) /\ \A i \in 1 .. Len(fed) : F[i] = fed[i]
\* However the sequence goes on, the layers are where that sequence has brought
\* them, and what they have put out is the beginning of its output.
StreamInv ==
  /\ conf \in Configurations
  /\ Len(fed) \in Nat /\ fed = [i \in 1 .. Len(fed) |-> fed[i]]
  /\ Len(emitted) \in Nat /\ emitted = [i \in 1 .. Len(emitted) |-> emitted[i]]
  /\ Len(fed) = IF Len(emitted) <= MaxTime THEN Len(emitted) ELSE MaxTime
  /\ Buildable(Layers) => \A F : Extends(F) =>
       /\ stack = StatesAt(MaxTime, Layers, F, Source, CallerDelay, Len(emitted))
       /\ \A t \in 1 .. Len(emitted) : emitted[t] = Late(MaxTime, WholeStack(Layers, F, Source), Latency)[t]

LEMMA SourceIs ==
  /\ Frames(MaxTime, Source)
  /\ \A t \in Int : SourceAt(t) = Late(MaxTime, Source, 0)[t]
<1>1. Source = [t \in 1 .. MaxTime |-> Source[t]] /\ \A t \in 1 .. MaxTime : Source[t] = SourceAt(t)
  BY DEF Source
<1>2. ASSUME NEW t \in Int PROVE SourceAt(t) = Late(MaxTime, Source, 0)[t]
  <2>1. t - 0 = t
    OBVIOUS
  <2>2. Late(MaxTime, Source, 0)[t] = IF t \in 1 .. MaxTime THEN Source[t] ELSE Absent
    BY <2>1 DEF Late
  <2>3. t \notin 1 .. MaxTime => SourceAt(t) = Absent
    BY DEF SourceAt
  <2> HIDE DEF Source
  <2> QED BY <1>1, <2>2, <2>3
<1> QED BY <1>1, <1>2 DEF Frames

LEMMA LatencyIs ==
  ASSUME conf \in Configurations, Buildable(Layers)
  PROVE  /\ Stackable(Layers, CallerDelay)
         /\ Latency = Lead(Layers, CallerDelay, Len(Layers)) /\ Latency \in Nat /\ CallerDelay \in Nat
<1>1. CallerDelay = Delay(conf)
  BY DEF CallerDelay, Delay
<1>2. Stackable(Layers, CallerDelay)
  BY <1>1, ConfStackable DEF Layers
<1> DEFINE n == Len(Layers)
<1>3. n \in Nat /\ Layers = [i \in 1 .. n |-> Layers[i]]
  BY <1>2 DEF Stackable
<1>4. [i \in DOMAIN Layers |-> Layers[i].latency] = [i \in 1 .. n |-> Latencies(Layers)[i]]
  BY <1>3 DEF Latencies
<1>5. Latency = Lead(Layers, CallerDelay, n)
  BY <1>4 DEF Latency, AccumulatedLatency, Lead, Total
<1>6. n \in 0 .. n
  BY <1>3
<1>7. Lead(Layers, CallerDelay, n) \in Nat
  BY <1>2, <1>6, Leads
<1> QED BY <1>2, <1>5, <1>7 DEF Stackable

LEMMA StreamStart == TransformerInit => StreamInv
<1> SUFFICES ASSUME TransformerInit PROVE StreamInv
  OBVIOUS
<1>1. conf \in Configurations /\ fed = <<>> /\ emitted = <<>>
      /\ (Buildable(Layers) => stack = FreshStack(Layers))
  BY DEF TransformerInit
<1>2. /\ Len(fed) = 0 /\ fed = [i \in 1 .. 0 |-> fed[i]]
      /\ Len(emitted) = 0 /\ emitted = [i \in 1 .. 0 |-> emitted[i]]
  BY <1>1
<1>3. MaxTime \in Nat
  BY TransformerAssumption
<1>4. ASSUME Buildable(Layers), NEW F, Extends(F) PROVE stack = StatesAt(MaxTime, Layers, F, Source, CallerDelay, 0)
  <2>1. Stackable(Layers, CallerDelay)
    BY <1>1, <1>4, LatencyIs
  <2>2. FreshStack(Layers) = StatesAt(MaxTime, Layers, F, Source, CallerDelay, 0)
    BY <1>3, <2>1, FreshStackIs
  <2> QED BY <1>1, <1>4, <2>2
<1>5. 1 .. 0 = {} /\ 0 <= MaxTime /\ 0 \in Nat
  BY <1>3
<1> QED BY <1>1, <1>2, <1>4, <1>5 DEF StreamInv

\* A step of the stack gives the frame that any sequence going on from here
\* has at this time.
LEMMA StreamStep == StreamInv /\ [TransformerNext]_tvars => StreamInv'
<1> SUFFICES ASSUME StreamInv, [TransformerNext]_tvars PROVE StreamInv'
  OBVIOUS
<1>0. MaxTime \in Nat
  BY TransformerAssumption
<1>1. CASE UNCHANGED tvars
  <2>1. Layers' = Layers /\ CallerDelay' = CallerDelay /\ Latency' = Latency
    BY <1>1 DEF tvars, Layers, CallerDelay, Latency
  <2>2. \A F : Extends(F)' <=> Extends(F)
    BY <1>1 DEF tvars, Extends
  <2> QED BY <1>1, <2>1, <2>2 DEF tvars, StreamInv
<1>2. CASE StreamFrame
  <2> DEFINE d == CallerDelay  n == Len(emitted)  t == n + 1  frame == 10 + 3 * t
             x == IF t - d \in DOMAIN fed' THEN fed'[t - d] ELSE Absent
             r == StepStack(Layers, stack, x, SourceAt(t))
  <2>1. /\ Buildable(Layers) /\ n < MaxTime + Latency
        /\ IF t <= MaxTime THEN \E y \in {frame, Absent} : fed' = Append(fed, y) ELSE fed' = fed
        /\ stack' = r.s /\ emitted' = Append(emitted, r.out) /\ conf' = conf
    BY <1>2 DEF StreamFrame
  <2>2. Layers' = Layers /\ CallerDelay' = d /\ Latency' = Latency
    BY <2>1 DEF Layers, CallerDelay, Latency
  <2>3. /\ conf \in Configurations
        /\ Len(fed) \in Nat /\ fed = [i \in 1 .. Len(fed) |-> fed[i]]
        /\ n \in Nat /\ emitted = [i \in 1 .. n |-> emitted[i]]
        /\ Len(fed) = IF n <= MaxTime THEN n ELSE MaxTime
        /\ \A F : Extends(F) =>
             /\ stack = StatesAt(MaxTime, Layers, F, Source, d, n)
             /\ \A u \in 1 .. n : emitted[u] = Late(MaxTime, WholeStack(Layers, F, Source), Latency)[u]
    BY <2>1 DEF StreamInv
  <2>4. Stackable(Layers, d) /\ Latency = Lead(Layers, d, Len(Layers)) /\ Latency \in Nat /\ d \in Nat
    BY <2>1, <2>3, LatencyIs
  <2> HIDE DEF d, n, frame, x, r
  <2>5. /\ Len(fed') \in Nat /\ fed' = [i \in 1 .. Len(fed') |-> fed'[i]]
        /\ Len(fed') = IF t <= MaxTime THEN t ELSE MaxTime
        /\ Len(fed) <= Len(fed')
        /\ \A i \in 1 .. Len(fed) : fed'[i] = fed[i]
    <3>1. CASE t <= MaxTime
      <4>1. PICK y : fed' = Append(fed, y)
        BY <2>1, <3>1
      <4>2. fed' = [i \in 1 .. Len(fed) + 1 |-> IF i <= Len(fed) THEN fed[i] ELSE y] /\ Len(fed') = Len(fed) + 1
        BY <2>3, <4>1, AppendIs
      <4>3. Len(fed) = n
        BY <2>3, <3>1
      <4>4. \A i \in 1 .. n + 1 : fed'[i] = IF i <= n THEN fed[i] ELSE y
        BY <4>2, <4>3
      <4>5. fed' = [i \in 1 .. n + 1 |-> fed'[i]]
        BY <4>2, <4>3
      <4>6. \A i \in 1 .. n : i \in 1 .. n + 1 /\ i <= n
        BY <2>3
      <4> QED BY <2>3, <3>1, <4>2, <4>3, <4>4, <4>5, <4>6
    <3>2. CASE ~(t <= MaxTime)
      <4>1. fed' = fed
        BY <2>1, <3>2
      <4>2. Len(fed) = MaxTime
        BY <1>0, <2>3, <3>2
      <4> QED BY <2>3, <3>2, <4>1, <4>2
    <3> QED BY <3>1, <3>2
  <2>6. Len(emitted') = t /\ emitted' = [i \in 1 .. t |-> emitted'[i]] /\ emitted'[t] = r.out
        /\ \A u \in 1 .. n : emitted'[u] = emitted[u]
    <3> DEFINE y == r.out
    <3>1. emitted' = [i \in 1 .. n + 1 |-> IF i <= n THEN emitted[i] ELSE y] /\ Len(emitted') = n + 1
      BY <2>1, <2>3, AppendIs
    <3> HIDE DEF y
    <3>2. n + 1 \in 1 .. n + 1 /\ ~(n + 1 <= n) /\ \A u \in 1 .. n : u \in 1 .. n + 1 /\ u <= n
      BY <2>3
    <3>3. \A i \in 1 .. n + 1 : emitted'[i] = IF i <= n THEN emitted[i] ELSE y
      BY <3>1
    <3>4. emitted' = [i \in 1 .. n + 1 |-> emitted'[i]]
      BY <3>1
    <3> QED BY <3>1, <3>2, <3>3, <3>4 DEF y
  <2>7. ASSUME NEW F, Extends(F)'
        PROVE  /\ stack' = StatesAt(MaxTime, Layers, F, Source, d, t)
               /\ \A u \in 1 .. t : emitted'[u] = Late(MaxTime, WholeStack(Layers, F, Source), Latency)[u]
    <3>1. Frames(MaxTime, F) /\ \A i \in 1 .. Len(fed') : F[i] = fed'[i]
      BY <2>7 DEF Extends
    <3>2. \A i \in 1 .. Len(fed) : i \in 1 .. Len(fed')
      BY <2>3, <2>5
    <3>3. Extends(F)
      BY <2>5, <3>1, <3>2 DEF Extends
    <3>4. stack = StatesAt(MaxTime, Layers, F, Source, d, n)
          /\ \A u \in 1 .. n : emitted[u] = Late(MaxTime, WholeStack(Layers, F, Source), Latency)[u]
      BY <2>3, <3>3
    <3>5. x = Late(MaxTime, F, d)[t]
      <4> DEFINE u == t - d
      <4>1. DOMAIN fed' = 1 .. Len(fed') /\ t \in Int
        BY <2>3, <2>5
      <4>2. u \in 1 .. Len(fed') <=> u \in 1 .. MaxTime
        BY <1>0, <2>3, <2>4, <2>5
      <4>3. x = IF u \in 1 .. Len(fed') THEN fed'[u] ELSE Absent
        BY <4>1 DEF x
      <4>4. Late(MaxTime, F, d)[t] = IF u \in 1 .. MaxTime THEN F[u] ELSE Absent
        BY <4>1 DEF Late
      <4> HIDE DEF u, t
      <4> QED BY <3>1, <4>2, <4>3, <4>4
    <3>6. SourceAt(t) = Late(MaxTime, Source, 0)[t]
      BY <2>3, SourceIs
    <3>7. t \in Nat \ {0} /\ t - 1 = n
      BY <2>3
    <3> HIDE DEF t
    <3>8. LET s == StepStack(Layers, StatesAt(MaxTime, Layers, F, Source, d, t - 1), Late(MaxTime, F, d)[t], Late(MaxTime, Source, 0)[t])
          IN /\ s.s = StatesAt(MaxTime, Layers, F, Source, d, t)
             /\ s.out = Late(MaxTime, WholeStack(Layers, F, Source), Lead(Layers, d, Len(Layers)))[t]
      <4>1. MaxTime \in Nat /\ Stackable(Layers, d) /\ Frames(MaxTime, F) /\ Frames(MaxTime, Source) /\ t \in Nat \ {0}
        BY <1>0, <2>4, <3>1, <3>7, SourceIs
      <4> HIDE DEF d
      <4> QED BY <4>1, StackExact
    <3>9. r.s = StatesAt(MaxTime, Layers, F, Source, d, t) /\ r.out = Late(MaxTime, WholeStack(Layers, F, Source), Latency)[t]
      BY <2>4, <3>4, <3>5, <3>6, <3>7, <3>8 DEF r
    <3>10. \A u \in 1 .. t : u \in 1 .. n \/ u = t
      BY <2>3, <3>7
    <3> QED BY <2>1, <2>6, <3>4, <3>9, <3>10
  <2>8. Len(emitted') \in Nat /\ conf' \in Configurations
    BY <2>1, <2>3, <2>6
  <2>9. Buildable(Layers)' => \A F : Extends(F)' =>
          /\ stack' = StatesAt(MaxTime, Layers', F, Source, CallerDelay', Len(emitted'))
          /\ \A u \in 1 .. Len(emitted') : emitted'[u] = Late(MaxTime, WholeStack(Layers', F, Source), Latency')[u]
    BY <2>2, <2>6, <2>7
  <2> QED BY <2>5, <2>6, <2>8, <2>9 DEF StreamInv
<1> QED BY <1>1, <1>2 DEF TransformerNext

LEMMA StreamTyped == StreamInv => TransformerTypeOK
<1> SUFFICES ASSUME StreamInv PROVE TransformerTypeOK
  OBVIOUS
<1>1. SelfOf(conf) \in SelfAttentionFields /\ (conf.cross => CrossOf(conf) \in CrossAttentionFields)
  BY ConfigurationFields, FieldTypes DEF StreamInv
<1>2. Len(fed) <= MaxTime
  BY TransformerAssumption DEF StreamInv
<1>3. ASSUME Buildable(Layers), NEW i \in DOMAIN Layers
      PROVE  /\ Len(stack[i].keys) = Layers[i].past + 1 + Layers[i].future
             /\ BlockSize(Layers[i]) >= Larger(Layers[i].past, Layers[i].future)
  <2> DEFINE F == [j \in 1 .. MaxTime |-> IF j <= Len(fed) THEN fed[j] ELSE Absent]
             d == CallerDelay  t == Len(emitted)  l == Layers[i]
  <2>1. Extends(F)
    <3>1. \A j \in 1 .. Len(fed) : j \in 1 .. MaxTime /\ j <= Len(fed)
      BY <1>2, TransformerAssumption DEF StreamInv
    <3>2. F = [j \in 1 .. MaxTime |-> F[j]] /\ \A j \in 1 .. MaxTime : F[j] = IF j <= Len(fed) THEN fed[j] ELSE Absent
      OBVIOUS
    <3> HIDE DEF F
    <3> QED BY <3>1, <3>2 DEF Extends, Frames
  <2> HIDE DEF F
  <2>2. stack = StatesAt(MaxTime, Layers, F, Source, d, t) /\ t \in Nat
    BY <1>3, <2>1 DEF StreamInv
  <2>3. Stackable(Layers, d)
    BY <1>3, LatencyIs DEF StreamInv
  <2>4. i \in 1 .. Len(Layers)
    BY <2>3 DEF Stackable
  <2>5. LayerType(l)
    BY <2>3, <2>4 DEF Stackable
  <2> DEFINE K == KeyFlow(MaxTime, Layers, F, Source, d, i)  W == l.past + 1 + l.future
  <2>6. stack[i].keys = Keys(l, K, t)
    BY <2>2, <2>4 DEF StatesAt, StateAt
  <2>7. W \in Nat
    BY <2>5 DEF LayerType
  <2>8. DOMAIN Records(l, K) = Int
    BY DEF Records
  <2> DEFINE f == Records(l, K)
  <2>9. stack[i].keys = Window(f, W, t)
    BY <2>6 DEF Keys
  <2> HIDE DEF K, W, f, t, l
  <2>10. Len(Window(f, W, t)) = W
    BY <2>2, <2>7, <2>8, WindowSlides DEF f
  <2>11. BlockSize(l) >= Larger(l.past, l.future)
    BY <2>5 DEF LayerType, BlockSize, Larger
  <2> QED BY <2>9, <2>10, <2>11 DEF W, l
<1> QED BY <1>1, <1>2, <1>3 DEF TransformerTypeOK

\* Whatever the configuration, when a sequence and its flush have gone through
\* step() frame by frame, what came out after the latency is what layer()
\* computes over the whole sequence.
THEOREM StreamingIsWhole == TransformerSpec => []StepIsLayer
<1>1. StreamInv => StepIsLayer
  <2> SUFFICES ASSUME StreamInv PROVE StepIsLayer
    OBVIOUS
  <2>1. ASSUME Buildable(Layers), Len(emitted) = MaxTime + Latency, NEW t \in 1 .. MaxTime
        PROVE  emitted[t + Latency] = WholeStack(Layers, fed, Source)[t]
    <3>0. MaxTime \in Nat
      BY TransformerAssumption
    <3>1. Latency \in Nat
      BY <2>1, LatencyIs DEF StreamInv
    <3> HIDE DEF Latency
    <3>2. Len(fed) = MaxTime
      <4>1. Len(fed) = IF Len(emitted) <= MaxTime THEN Len(emitted) ELSE MaxTime
        BY DEF StreamInv
      <4> QED BY <2>1, <3>0, <3>1, <4>1
    <3>3. Extends(fed)
      BY <3>2 DEF StreamInv, Extends, Frames
    <3> DEFINE u == t + Latency
    <3>4. u \in 1 .. Len(emitted) /\ u \in Int /\ u - Latency = t
      BY <2>1, <3>0, <3>1
    <3> HIDE DEF u
    <3>5. emitted[u] = Late(MaxTime, WholeStack(Layers, fed, Source), Latency)[u]
      BY <2>1, <3>3, <3>4 DEF StreamInv
    <3>6. Late(MaxTime, WholeStack(Layers, fed, Source), Latency)[u] = WholeStack(Layers, fed, Source)[t]
      BY <2>1, <3>4 DEF Late
    <3> QED BY <3>5, <3>6 DEF u
  <2>2. TransformerTypeOK
    BY StreamTyped
  <2> HIDE DEF Latency
  <2> QED BY <2>1, <2>2 DEF StepIsLayer, Source
<1>2. TransformerSpec => []StreamInv
  BY StreamStart, StreamStep, PTL DEF TransformerSpec
<1> QED BY <1>1, <1>2, PTL

--------------------------------------------------------------------------------
(* The layers of the two backends.                                         *)

JaxConf(c, s) == [Extended(c, JaxDefaultTransformer) EXCEPT !.sharding = s]

LEMMA JaxConfIs ==
  ASSUME NEW c \in ConfFields, NEW s
  PROVE  LET j == JaxConf(c, s)
         IN /\ SelfOf(j) = SelfOf(c) /\ CrossOf(j) = CrossOf(c)
            /\ j.cross = c.cross /\ j.gated = c.gated /\ j.layers = c.layers /\ j.sharding = s
<1> DEFINE j == JaxConf(c, s)
<1>1. /\ j.layers = c.layers /\ j.past = c.past /\ j.future = c.future /\ j.cross = c.cross
      /\ j.xpast = c.xpast /\ j.xfuture = c.xfuture /\ j.delayed = c.delayed /\ j.rope = c.rope
      /\ j.validOnly = c.validOnly /\ j.local = c.local /\ j.gated = c.gated
      /\ j.positions = c.positions /\ j.separate = c.separate /\ j.sharding = s
  BY DEF JaxConf, ConfFields, Extended, JaxDefaultTransformer, DefaultTransformer
<1> HIDE DEF j
<1>2. SelfOf(j) = SelfOf(c) /\ CrossOf(j) = CrossOf(c)
  BY <1>1 DEF SelfOf, CrossOf
<1> QED BY <1>1, <1>2 DEF j

\* The axes a dimension of a kernel is split over.
AxesOf(fanIn, name) ==
  IF name = "d" THEN fanIn ELSE IF name \in {"n", "hidden"} THEN {"model"} ELSE {}
KernelFits(k, fanIn) ==
  /\ \E n \in Nat : DOMAIN k.dims = 1 .. n /\ Len(k.dims) = n /\ Len(k.sharding) = n
  /\ \A a \in DOMAIN k.dims : k.sharding[a] = AxesOf(fanIn, k.dims[a])
  /\ \A a, b \in DOMAIN k.dims : a # b => AxesOf(fanIn, k.dims[a]) \cap AxesOf(fanIn, k.dims[b]) = {}
\* A JAX layer is the layer of the other backend with kernels that fit.
Alike(jax, l, fanIn) ==
  /\ jax = Invalid <=> l = Invalid
  /\ l # Invalid => /\ [f \in DOMAIN l |-> jax[f]] = l
                    /\ \A k \in jax.kernels : KernelFits(k, fanIn)

LEMMA IndexIs ==
  ASSUME NEW s, NEW j \in DOMAIN s, \A i \in DOMAIN s : s[i] = s[j] => i = j
  PROVE  IndexIn(s, s[j]) = j
BY DEF IndexIn

LEMMA HeadsDerived ==
  ASSUME NEW fanIn, NEW other \in {"2", "3"}
  PROVE  LET sh == <<fanIn, {"model"}, {}>>  dims == <<"d", other, "n", "h">>  der == Derive(sh, dnh, dims)
         IN der = [i \in 1 .. 4 |-> IF i = 1 THEN fanIn ELSE IF i = 3 THEN {"model"} ELSE {}]
<1> DEFINE sh == <<fanIn, {"model"}, {}>>  dims == <<"d", other, "n", "h">>
<1>1. DOMAIN dnh = 1 .. 3 /\ dnh[1] = "d" /\ dnh[2] = "n" /\ dnh[3] = "h"
  BY DEF dnh
<1>2. DOMAIN dims = 1 .. 4 /\ dims[1] = "d" /\ dims[2] = other /\ dims[3] = "n" /\ dims[4] = "h"
  OBVIOUS
<1>3. sh[1] = fanIn /\ sh[2] = {"model"} /\ sh[3] = {}
  OBVIOUS
<1> HIDE DEF sh, dims
<1>4. \A i \in 1 .. 3 : i = 1 \/ i = 2 \/ i = 3
  OBVIOUS
<1>5. IndexIn(dnh, "d") = 1 /\ IndexIn(dnh, "n") = 2 /\ IndexIn(dnh, "h") = 3
  <2>1. IndexIn(dnh, dnh[1]) = 1
    BY <1>1, <1>4, IndexIs
  <2>2. IndexIn(dnh, dnh[2]) = 2
    BY <1>1, <1>4, IndexIs
  <2>3. IndexIn(dnh, dnh[3]) = 3
    BY <1>1, <1>4, IndexIs
  <2> QED BY <1>1, <2>1, <2>2, <2>3
<1>6. ASSUME NEW i \in 1 .. 4
      PROVE  (IF \E j \in DOMAIN dnh : dnh[j] = dims[i] THEN sh[IndexIn(dnh, dims[i])] ELSE {})
             = IF i = 1 THEN fanIn ELSE IF i = 3 THEN {"model"} ELSE {}
  <2>1. CASE i = 1
    BY <1>1, <1>2, <1>3, <1>5, <2>1
  <2>2. CASE i = 2
    <3>1. ~\E j \in DOMAIN dnh : dnh[j] = dims[i]
      BY <1>1, <1>2, <1>4, <2>2
    <3> QED BY <2>2, <3>1
  <2>3. CASE i = 3
    BY <1>1, <1>2, <1>3, <1>5, <2>3
  <2>4. CASE i = 4
    BY <1>1, <1>2, <1>3, <1>5, <2>4
  <2> QED BY <2>1, <2>2, <2>3, <2>4
<1>7. Derive(sh, dnh, dims) = [i \in 1 .. 4 |-> IF i = 1 THEN fanIn ELSE IF i = 3 THEN {"model"} ELSE {}]
  BY <1>2, <1>6 DEF Derive
<1> QED BY <1>7 DEF sh, dims

LEMMA ProjectionDerived ==
  ASSUME NEW fanIn
  PROVE  Derive(<<fanIn, {"model"}>>, <<"a", "b">>, <<"b", "a">>) = [i \in 1 .. 2 |-> IF i = 1 THEN {"model"} ELSE fanIn]
<1> DEFINE sh == <<fanIn, {"model"}>>  old == <<"a", "b">>  new == <<"b", "a">>
<1>1. /\ DOMAIN old = 1 .. 2 /\ old[1] = "a" /\ old[2] = "b"
      /\ DOMAIN new = 1 .. 2 /\ new[1] = "b" /\ new[2] = "a"
      /\ sh[1] = fanIn /\ sh[2] = {"model"}
  OBVIOUS
<1> HIDE DEF sh, old, new
<1>2. \A i \in 1 .. 2 : i = 1 \/ i = 2
  OBVIOUS
<1>3. IndexIn(old, old[1]) = 1 /\ IndexIn(old, old[2]) = 2
  BY <1>1, <1>2, IndexIs
<1>4. ASSUME NEW i \in 1 .. 2
      PROVE  (IF \E j \in DOMAIN old : old[j] = new[i] THEN sh[IndexIn(old, new[i])] ELSE {})
             = IF i = 1 THEN {"model"} ELSE fanIn
  BY <1>1, <1>2, <1>3
<1>5. Derive(sh, old, new) = [i \in 1 .. 2 |-> IF i = 1 THEN {"model"} ELSE fanIn]
  BY <1>1, <1>4 DEF Derive
<1> QED BY <1>5 DEF sh, old, new

FanIn(s) == IF s.sampling \/ ~s.zero THEN {} ELSE {"data"} \cup (IF s.sequence THEN {"seq"} ELSE {})

LEMMA ShardingIs ==
  ASSUME NEW s \in Shardings, ~(s.sampling /\ s.zero)
  PROVE  LET sh == DefaultSharding(s)
         IN /\ sh # Invalid
            /\ sh.dnh = <<FanIn(s), {"model"}, {}>> /\ sh.projection = <<FanIn(s), {"model"}>>
            /\ FanIn(s) \cap {"model"} = {}
<1> DEFINE seq == IF s.sequence THEN {"seq"} ELSE {}  batch == {"replica", "data"}
           sh == [btd |-> <<batch, seq, {"model"}>>, btnh |-> <<batch, seq, {"model"}, {}>>,
                  projection |-> <<FanIn(s), {"model"}>>, dnh |-> <<FanIn(s), {"model"}, {}>>,
                  bias |-> <<{"model"}>>]
<1>1. DefaultSharding(s) = sh
  BY DEF DefaultSharding, FanIn
<1>2. sh.dnh = <<FanIn(s), {"model"}, {}>> /\ sh.projection = <<FanIn(s), {"model"}>>
  OBVIOUS
<1>3. sh # Invalid
  <2>1. "dnh" \in DOMAIN sh /\ "dnh" \notin DOMAIN Invalid
    BY DEF Invalid
  <2> HIDE DEF sh
  <2> QED BY <2>1
<1>4. FanIn(s) \cap {"model"} = {}
  BY DEF FanIn
<1> HIDE DEF sh
<1> QED BY <1>1, <1>2, <1>3, <1>4

LEMMA KernelsFit ==
  ASSUME NEW fanIn, fanIn \cap {"model"} = {}
  PROVE  /\ KernelFits(Kernel(dnh, <<fanIn, {"model"}, {}>>), fanIn)
         /\ \A other \in {"2", "3"} :
              LET dims == <<"d", other, "n", "h">>
              IN KernelFits(Kernel(dims, Derive(<<fanIn, {"model"}, {}>>, dnh, dims)), fanIn)
         /\ KernelFits(Kernel(<<"d", "hidden">>, <<fanIn, {"model"}>>), fanIn)
         /\ KernelFits(Kernel(<<"hidden", "d">>, Derive(<<fanIn, {"model"}>>, <<"a", "b">>, <<"b", "a">>)), fanIn)
<1> DEFINE A(name) == AxesOf(fanIn, name)
<1>0. A("d") = fanIn /\ A("n") = {"model"} /\ A("hidden") = {"model"} /\ A("h") = {} /\ A("2") = {} /\ A("3") = {}
  BY DEF AxesOf
<1> HIDE DEF A
<1>a. ASSUME NEW dims, NEW sharding, NEW n \in Nat, DOMAIN dims = 1 .. n, Len(dims) = n, Len(sharding) = n,
             \A i \in 1 .. n : sharding[i] = A(dims[i]),
             \A i, j \in 1 .. n : i # j => A(dims[i]) \cap A(dims[j]) = {}
      PROVE  KernelFits(Kernel(dims, sharding), fanIn)
  <2> DEFINE k == Kernel(dims, sharding)
  <2>1. k.dims = dims /\ k.sharding = sharding
    BY DEF Kernel
  <2> HIDE DEF k
  <2> QED BY <1>a, <2>1 DEF KernelFits, A, k
<1>1. KernelFits(Kernel(dnh, <<fanIn, {"model"}, {}>>), fanIn)
  <2> DEFINE sh == <<fanIn, {"model"}, {}>>
  <2>1. DOMAIN dnh = 1 .. 3 /\ Len(dnh) = 3 /\ dnh[1] = "d" /\ dnh[2] = "n" /\ dnh[3] = "h"
    BY DEF dnh
  <2>2. Len(sh) = 3 /\ sh[1] = fanIn /\ sh[2] = {"model"} /\ sh[3] = {}
    OBVIOUS
  <2>3. 3 \in Nat /\ \A i \in 1 .. 3 : i = 1 \/ i = 2 \/ i = 3
    OBVIOUS
  <2> HIDE DEF sh
  <2>4. \A i \in 1 .. 3 : sh[i] = A(dnh[i])
    BY <1>0, <2>1, <2>2, <2>3
  <2>5. ASSUME NEW i \in 1 .. 3, NEW j \in 1 .. 3, i # j PROVE A(dnh[i]) \cap A(dnh[j]) = {}
    BY <1>0, <2>1, <2>3, <2>5
  <2>6. KernelFits(Kernel(dnh, sh), fanIn)
    BY <1>a, <2>1, <2>2, <2>3, <2>4, <2>5
  <2> QED BY <2>6 DEF sh
<1>2. ASSUME NEW other \in {"2", "3"}
      PROVE  LET dims == <<"d", other, "n", "h">>
             IN KernelFits(Kernel(dims, Derive(<<fanIn, {"model"}, {}>>, dnh, dims)), fanIn)
  <2> DEFINE dims == <<"d", other, "n", "h">>  sh == Derive(<<fanIn, {"model"}, {}>>, dnh, dims)
  <2>1. DOMAIN dims = 1 .. 4 /\ Len(dims) = 4
        /\ dims[1] = "d" /\ dims[2] = other /\ dims[3] = "n" /\ dims[4] = "h"
    OBVIOUS
  <2>2. sh = [i \in 1 .. 4 |-> IF i = 1 THEN fanIn ELSE IF i = 3 THEN {"model"} ELSE {}]
    BY HeadsDerived
  <2> HIDE DEF dims, sh
  <2>3. Len(sh) = 4 /\ sh[1] = fanIn /\ sh[2] = {} /\ sh[3] = {"model"} /\ sh[4] = {}
    BY <2>2
  <2>4. 4 \in Nat /\ \A i \in 1 .. 4 : i = 1 \/ i = 2 \/ i = 3 \/ i = 4
    OBVIOUS
  <2>5. A(dims[2]) = {}
    BY <1>0, <2>1
  <2>6. \A i \in 1 .. 4 : sh[i] = A(dims[i])
    BY <1>0, <2>1, <2>3, <2>4, <2>5
  <2>7. ASSUME NEW i \in 1 .. 4, NEW j \in 1 .. 4, i # j PROVE A(dims[i]) \cap A(dims[j]) = {}
    BY <1>0, <2>1, <2>4, <2>5, <2>7
  <2>8. KernelFits(Kernel(dims, sh), fanIn)
    BY <1>a, <2>1, <2>3, <2>4, <2>6, <2>7
  <2> QED BY <2>8 DEF dims, sh
<1>b. ASSUME NEW dims, NEW sh, DOMAIN dims = 1 .. 2, Len(dims) = 2, Len(sh) = 2,
             \/ dims[1] = "d" /\ dims[2] = "hidden" /\ sh[1] = fanIn /\ sh[2] = {"model"}
             \/ dims[1] = "hidden" /\ dims[2] = "d" /\ sh[1] = {"model"} /\ sh[2] = fanIn
      PROVE  KernelFits(Kernel(dims, sh), fanIn)
  <2>1. 2 \in Nat /\ \A i \in 1 .. 2 : i = 1 \/ i = 2
    OBVIOUS
  <2>2. \A i \in 1 .. 2 : sh[i] = A(dims[i])
    BY <1>0, <1>b, <2>1
  <2>3. ASSUME NEW i \in 1 .. 2, NEW j \in 1 .. 2, i # j PROVE A(dims[i]) \cap A(dims[j]) = {}
    BY <1>0, <1>b, <2>1, <2>3
  <2> QED BY <1>a, <1>b, <2>1, <2>2, <2>3
<1>3. KernelFits(Kernel(<<"d", "hidden">>, <<fanIn, {"model"}>>), fanIn)
  <2> DEFINE dims == <<"d", "hidden">>  sh == <<fanIn, {"model"}>>
  <2>1. DOMAIN dims = 1 .. 2 /\ Len(dims) = 2 /\ Len(sh) = 2
        /\ dims[1] = "d" /\ dims[2] = "hidden" /\ sh[1] = fanIn /\ sh[2] = {"model"}
    OBVIOUS
  <2> HIDE DEF dims, sh
  <2>2. KernelFits(Kernel(dims, sh), fanIn)
    BY <1>b, <2>1
  <2> QED BY <2>2 DEF dims, sh
<1>4. KernelFits(Kernel(<<"hidden", "d">>, Derive(<<fanIn, {"model"}>>, <<"a", "b">>, <<"b", "a">>)), fanIn)
  <2> DEFINE dims == <<"hidden", "d">>  sh == Derive(<<fanIn, {"model"}>>, <<"a", "b">>, <<"b", "a">>)
  <2>1. DOMAIN dims = 1 .. 2 /\ Len(dims) = 2 /\ dims[1] = "hidden" /\ dims[2] = "d"
    OBVIOUS
  <2>2. sh = [i \in 1 .. 2 |-> IF i = 1 THEN {"model"} ELSE fanIn]
    BY ProjectionDerived
  <2> HIDE DEF dims, sh
  <2>3. Len(sh) = 2 /\ sh[1] = {"model"} /\ sh[2] = fanIn
    BY <2>2
  <2>4. KernelFits(Kernel(dims, sh), fanIn)
    BY <1>b, <2>1, <2>3
  <2> QED BY <2>4 DEF dims, sh
<1> QED BY <1>1, <1>2, <1>3, <1>4

\* A layer with more fields is still that layer.
LEMMA ExtendedIs ==
  ASSUME NEW kind, NEW a, NEW d, NEW e, NEW K
  PROVE  LET l == Residual(kind, a, d, e)  j == Extended(l, [kernels |-> K])
         IN l # Invalid /\ j # Invalid /\ [f \in DOMAIN l |-> j[f]] = l /\ j.kernels = K
<1> DEFINE l == Residual(kind, a, d, e)  j == Extended(l, [kernels |-> K])
<1>1. "kind" \in DOMAIN l /\ "kind" \in DOMAIN j /\ "kind" \notin DOMAIN Invalid
  BY DEF Residual, Extended, Invalid
<1>2. [f \in DOMAIN l |-> j[f]] = l /\ j.kernels = K
  BY DEF Residual, Extended
<1> HIDE DEF l, j
<1>3. l # Invalid /\ j # Invalid
  BY <1>1
<1> QED BY <1>2, <1>3 DEF l, j

LEMMA NetworksAgree ==
  ASSUME NEW a, a.rope \in BOOLEAN, a.validOnly \in BOOLEAN, a.positions \in BOOLEAN
  PROVE  QkvNetworks(a.rope, a.validOnly, a.positions) = Invalid <=> JaxQkvNetworks(a) = Invalid
<1>1. \A x, y : [rope |-> x, validOnly |-> y] # Invalid
  <2>1. ASSUME NEW x, NEW y PROVE [rope |-> x, validOnly |-> y] # Invalid
    <3> DEFINE r == [rope |-> x, validOnly |-> y]
    <3>1. "rope" \in DOMAIN r /\ "rope" \notin DOMAIN Invalid
      BY DEF Invalid
    <3> HIDE DEF r
    <3>2. r # Invalid
      BY <3>1
    <3> QED BY <3>2 DEF r
  <2> QED BY <2>1
<1>2. CASE a.rope /\ a.validOnly /\ a.positions
  BY <1>2 DEF QkvNetworks, JaxQkvNetworks
<1>3. CASE ~(a.rope /\ a.validOnly /\ a.positions)
  <2>1. QkvNetworks(a.rope, a.validOnly, a.positions) # Invalid
    BY <1>1, <1>3 DEF QkvNetworks
  <2>2. JaxQkvNetworks(a) # Invalid
    BY <1>1, <1>3 DEF JaxQkvNetworks
  <2> QED BY <2>1, <2>2
<1> QED BY <1>2, <1>3

LEMMA LayersAlike ==
  ASSUME NEW c \in ConfFields, NEW s \in Shardings, ~(s.sampling /\ s.zero)
  PROVE  LET sh == DefaultSharding(s)
         IN /\ Alike(JaxSelfAttention(SelfOf(c), sh), SelfAttention(SelfOf(c)), FanIn(s))
            /\ Alike(JaxStreamingCrossAttention(CrossOf(c), sh), StreamingCrossAttention(CrossOf(c)), FanIn(s))
            /\ Alike(JaxTransformerFFN(c.gated, sh), TransformerFFN(c.gated), FanIn(s))
<1> DEFINE sh == DefaultSharding(s)  F == FanIn(s)  heads == <<F, {"model"}, {}>>
           joint == <<"d", "3", "n", "h">>  pair == <<"d", "2", "n", "h">>
<1>1. sh.dnh = heads /\ sh.projection = <<F, {"model"}>> /\ F \cap {"model"} = {}
  BY ShardingIs
<1>2. /\ KernelFits(Kernel(dnh, heads), F)
      /\ KernelFits(Kernel(joint, Derive(heads, dnh, joint)), F)
      /\ KernelFits(Kernel(pair, Derive(heads, dnh, pair)), F)
      /\ KernelFits(Kernel(<<"d", "hidden">>, <<F, {"model"}>>), F)
      /\ KernelFits(Kernel(<<"hidden", "d">>, Derive(<<F, {"model"}>>, <<"a", "b">>, <<"b", "a">>)), F)
  <2>1. "2" \in {"2", "3"} /\ "3" \in {"2", "3"}
    OBVIOUS
  <2>2. F \cap {"model"} = {}
    BY <1>1
  <2> HIDE DEF F
  <2> QED BY <2>1, <2>2, KernelsFit
<1>3. SelfOf(c) \in SelfAttentionFields /\ CrossOf(c) \in CrossAttentionFields
  BY FieldTypes
<1> HIDE DEF sh, F
<1>4. Alike(JaxSelfAttention(SelfOf(c), sh), SelfAttention(SelfOf(c)), F)
  <2> DEFINE a == SelfOf(c)
             K == {IF a.separate THEN Kernel(dnh, sh.dnh) ELSE Kernel(joint, Derive(sh.dnh, dnh, joint)),
                   Kernel(dnh, sh.dnh)}
             l == Residual("self", a, a.future, a.future)
  <2>1. a.future \in Nat /\ a.rope \in BOOLEAN /\ a.validOnly \in BOOLEAN /\ a.positions \in BOOLEAN
    BY <1>3 DEF SelfAttentionFields
  <2>2. \A k \in K : KernelFits(k, F)
    BY <1>1, <1>2
  <2> HIDE DEF a, K
  <2>3. QkvNetworks(a.rope, a.validOnly, a.positions) = Invalid <=> JaxQkvNetworks(a) = Invalid
    BY <2>1, NetworksAgree
  <2>4. Larger(a.future, 0) = a.future /\ (IF a.future > 0 THEN a.future ELSE 0) = a.future
    BY <2>1 DEF Larger
  <2>5. CASE QkvNetworks(a.rope, a.validOnly, a.positions) = Invalid
    <3>1. SelfAttention(a) = Invalid /\ JaxSelfAttention(a, sh) = Invalid
      BY <2>3, <2>5 DEF SelfAttention, JaxSelfAttention
    <3> QED BY <3>1 DEF Alike, a
  <2>6. CASE QkvNetworks(a.rope, a.validOnly, a.positions) # Invalid
    <3>1. SelfAttention(a) = l
      BY <2>4, <2>6 DEF SelfAttention
    <3>2. JaxSelfAttention(a, sh) = Extended(l, [kernels |-> K])
      BY <2>3, <2>4, <2>6 DEF JaxSelfAttention, K
    <3>3. l # Invalid /\ Extended(l, [kernels |-> K]) # Invalid
          /\ [f \in DOMAIN l |-> Extended(l, [kernels |-> K])[f]] = l
          /\ Extended(l, [kernels |-> K]).kernels = K
      BY ExtendedIs
    <3> HIDE DEF l
    <3>4. Alike(JaxSelfAttention(a, sh), SelfAttention(a), F)
      BY <2>2, <3>1, <3>2, <3>3 DEF Alike
    <3> QED BY <3>4 DEF a
  <2> QED BY <2>5, <2>6
<1>5. Alike(JaxStreamingCrossAttention(CrossOf(c), sh), StreamingCrossAttention(CrossOf(c)), F)
  <2> DEFINE a == CrossOf(c)
             K == {Kernel(dnh, sh.dnh),
                   IF a.separate THEN Kernel(dnh, sh.dnh) ELSE Kernel(pair, Derive(sh.dnh, dnh, pair))}
             d == IF a.delayed THEN a.future ELSE 0
             l == Residual("cross", a, d, d)
             bad == \/ ~a.delayed /\ a.rope /\ ~a.validOnly
                    \/ QkvNetworks(a.rope, a.validOnly, a.positions) = Invalid
  <2>1. a.delayed \in BOOLEAN /\ a.rope \in BOOLEAN /\ a.validOnly \in BOOLEAN /\ a.positions \in BOOLEAN
    BY <1>3 DEF CrossAttentionFields
  <2>2. \A k \in K : KernelFits(k, F)
    BY <1>1, <1>2
  <2> HIDE DEF a, K
  <2>3. QkvNetworks(a.rope, a.validOnly, a.positions) = Invalid <=> JaxQkvNetworks(a) = Invalid
    BY <2>1, NetworksAgree
  <2>5. CASE bad
    <3>1. StreamingCrossAttention(a) = Invalid /\ JaxStreamingCrossAttention(a, sh) = Invalid
      BY <2>3, <2>5 DEF StreamingCrossAttention, JaxStreamingCrossAttention
    <3> QED BY <3>1 DEF Alike, a
  <2>6. CASE ~bad
    <3>1. StreamingCrossAttention(a) = l
      BY <2>6 DEF StreamingCrossAttention
    <3>2. JaxStreamingCrossAttention(a, sh) = Extended(l, [kernels |-> K])
      BY <2>3, <2>6 DEF JaxStreamingCrossAttention, K
    <3>3. l # Invalid /\ Extended(l, [kernels |-> K]) # Invalid
          /\ [f \in DOMAIN l |-> Extended(l, [kernels |-> K])[f]] = l
          /\ Extended(l, [kernels |-> K]).kernels = K
      BY ExtendedIs
    <3> HIDE DEF l
    <3>4. Alike(JaxStreamingCrossAttention(a, sh), StreamingCrossAttention(a), F)
      BY <2>2, <3>1, <3>2, <3>3 DEF Alike
    <3> QED BY <3>4 DEF a
  <2> QED BY <2>5, <2>6
<1>6. Alike(JaxTransformerFFN(c.gated, sh), TransformerFFN(c.gated), F)
  <2> DEFINE kind == IF c.gated THEN "gated" ELSE "ffn"
             a == [past |-> 0, future |-> 0, rope |-> FALSE, validOnly |-> FALSE]
             K == {Kernel(<<"d", "hidden">>, sh.projection),
                   Kernel(<<"hidden", "d">>, Derive(sh.projection, <<"a", "b">>, <<"b", "a">>))}
             l == Residual(kind, a, 0, 0)
  <2>1. TransformerFFN(c.gated) = l /\ JaxTransformerFFN(c.gated, sh) = Extended(l, [kernels |-> K])
    BY DEF TransformerFFN, JaxTransformerFFN
  <2>2. \A k \in K : KernelFits(k, F)
    BY <1>1, <1>2
  <2> HIDE DEF K, a, kind
  <2>3. l # Invalid /\ Extended(l, [kernels |-> K]) # Invalid
        /\ [f \in DOMAIN l |-> Extended(l, [kernels |-> K])[f]] = l
        /\ Extended(l, [kernels |-> K]).kernels = K
    BY ExtendedIs
  <2> HIDE DEF l
  <2> QED BY <2>1, <2>2, <2>3 DEF Alike
<1> QED BY <1>4, <1>5, <1>6 DEF sh, F

\* The two stacks, layer by layer.
LEMMA StacksAlike ==
  ASSUME NEW c \in ConfFields, NEW s \in Shardings, ~(s.sampling /\ s.zero)
  PROVE  LET jax == JaxStack(JaxConf(c, s))  layers == Stack(c)
         IN \E m \in Nat : /\ DOMAIN jax = 1 .. m /\ Len(jax) = m
                           /\ DOMAIN layers = 1 .. m /\ Len(layers) = m
                           /\ \A i \in 1 .. m : Alike(jax[i], layers[i], FanIn(s))
<1> DEFINE j == JaxConf(c, s)  sh == DefaultSharding(s)  F == FanIn(s)
           a == SelfAttention(SelfOf(c))  b == StreamingCrossAttention(CrossOf(c))  f == TransformerFFN(c.gated)
           ja == JaxSelfAttention(SelfOf(c), sh)  jb == JaxStreamingCrossAttention(CrossOf(c), sh)
           jf == JaxTransformerFFN(c.gated, sh)
           block == TransformerBlock(c)  jblock == JaxTransformerBlock(j, sh)
<1>1. /\ SelfOf(j) = SelfOf(c) /\ CrossOf(j) = CrossOf(c)
      /\ j.cross = c.cross /\ j.gated = c.gated /\ j.layers = c.layers /\ j.sharding = s
  BY JaxConfIs
<1>2. sh # Invalid
  BY ShardingIs
<1>3. JaxStack(j) = Blocks(jblock, c.layers) /\ Stack(c) = Blocks(block, c.layers)
  BY <1>1, <1>2 DEF JaxStack, Stack
<1>4. Alike(ja, a, F) /\ Alike(jb, b, F) /\ Alike(jf, f, F)
  BY LayersAlike
<1>5. (~c.cross => block = <<a, f>>) /\ (c.cross => block = <<a, b, f>>)
  BY BlockIs
<1>6. (~c.cross => jblock = <<ja, jf>>) /\ (c.cross => jblock = <<ja, jb, jf>>)
  <2>1. jblock = <<ja>> \o (IF c.cross THEN <<jb>> ELSE <<>>) \o <<jf>>
    BY <1>1 DEF JaxTransformerBlock
  <2> HIDE DEF ja, jb, jf, jblock
  <2>2. <<ja>> \o <<jb>> \o <<jf>> = <<ja, jb, jf>> /\ <<ja>> \o <<>> \o <<jf>> = <<ja, jf>>
    BY Joined
  <2> QED BY <2>1, <2>2
<1> HIDE DEF j, sh, F, a, b, f, ja, jb, jf, block, jblock
<1>7. \E k \in {2, 3} : Len(block) = k /\ Len(jblock) = k /\ \A i \in 1 .. k : Alike(jblock[i], block[i], F)
  <2>1. CASE ~c.cross
    <3>1. /\ Len(block) = 2 /\ block[1] = a /\ block[2] = f
          /\ Len(jblock) = 2 /\ jblock[1] = ja /\ jblock[2] = jf
      BY <1>5, <1>6, <2>1
    <3>2. \A i \in 1 .. 2 : i = 1 \/ i = 2
      OBVIOUS
    <3>3. \A i \in 1 .. 2 : Alike(jblock[i], block[i], F)
      BY <1>4, <3>1, <3>2
    <3> QED BY <3>1, <3>3
  <2>2. CASE c.cross
    <3>1. /\ Len(block) = 3 /\ block[1] = a /\ block[2] = b /\ block[3] = f
          /\ Len(jblock) = 3 /\ jblock[1] = ja /\ jblock[2] = jb /\ jblock[3] = jf
      BY <1>5, <1>6, <2>2
    <3>2. \A i \in 1 .. 3 : i = 1 \/ i = 2 \/ i = 3
      OBVIOUS
    <3>3. \A i \in 1 .. 3 : Alike(jblock[i], block[i], F)
      BY <1>4, <3>1, <3>2
    <3> QED BY <3>1, <3>3
  <2> QED BY <2>1, <2>2
<1>8. PICK k \in {2, 3} : Len(block) = k /\ Len(jblock) = k /\ \A i \in 1 .. k : Alike(jblock[i], block[i], F)
  BY <1>7
<1>9. c.layers \in Nat \ {0}
  BY DEF ConfFields
<1> DEFINE n == c.layers  m == n * k
<1>10. /\ Blocks(block, n) = Built(block, k, m) /\ Blocks(jblock, n) = Built(jblock, k, m)
       /\ Len(Built(block, k, m)) = m /\ Len(Built(jblock, k, m)) = m /\ m \in Nat
       /\ \A i \in 1 .. m : 1 + ((i - 1) % k) \in 1 .. k
  BY <1>8, <1>9, BlocksAre
<1> HIDE DEF m
<1>11. \A q : DOMAIN Built(q, k, m) = 1 .. m /\ \A i \in 1 .. m : Built(q, k, m)[i] = q[1 + ((i - 1) % k)]
  BY DEF Built
<1>12. \A i \in 1 .. m : Alike(Built(jblock, k, m)[i], Built(block, k, m)[i], F)
  BY <1>8, <1>10, <1>11
<1>13. /\ DOMAIN JaxStack(j) = 1 .. m /\ Len(JaxStack(j)) = m
       /\ DOMAIN Stack(c) = 1 .. m /\ Len(Stack(c)) = m
       /\ \A i \in 1 .. m : Alike(JaxStack(j)[i], Stack(c)[i], F)
  BY <1>3, <1>10, <1>11, <1>12
<1> QED BY <1>10, <1>13 DEF j, F

\* For any configuration both backends make the same layers or refuse it, and
\* the axes of the JAX kernels name their dimensions, no axis twice, and agree
\* where one kernel reads what another one writes.
THEOREM BackendsMakeTheSame == TransformerSpec => []LayersAgree
<1>1. ASSUME conf \in Configurations PROVE LayersAgree
  <2>0. conf \in ConfFields
    BY <1>1, ConfigurationFields
  <2>a. ASSUME NEW s \in Shardings, ~(s.sampling /\ s.zero)
        PROVE  LET jax == JaxStack([Extended(conf, JaxDefaultTransformer) EXCEPT !.sharding = s])
               IN \E m \in Nat : /\ DOMAIN jax = 1 .. m /\ Len(jax) = m
                                 /\ DOMAIN Layers = 1 .. m /\ Len(Layers) = m
                                 /\ \A i \in 1 .. m : Alike(jax[i], Layers[i], FanIn(s))
    BY <2>0, <2>a, StacksAlike DEF JaxConf, Layers
  <2>1. BackendsAgree
    <3> SUFFICES ASSUME NEW s \in Shardings, ~(s.sampling /\ s.zero)
                 PROVE  LET jax == JaxStack([Extended(conf, JaxDefaultTransformer) EXCEPT !.sharding = s])
                        IN /\ Buildable(jax) <=> Buildable(Layers)
                           /\ Buildable(Layers) =>
                                /\ Len(jax) = Len(Layers)
                                /\ \A i \in DOMAIN jax : [f \in DOMAIN Layers[i] |-> jax[i][f]] = Layers[i]
      BY DEF BackendsAgree
    <3> DEFINE jax == JaxStack([Extended(conf, JaxDefaultTransformer) EXCEPT !.sharding = s])
    <3>1. PICK m \in Nat : /\ DOMAIN jax = 1 .. m /\ Len(jax) = m
                           /\ DOMAIN Layers = 1 .. m /\ Len(Layers) = m
                           /\ \A i \in 1 .. m : Alike(jax[i], Layers[i], FanIn(s))
      BY <2>a
    <3> HIDE DEF jax
    <3>2. \A i \in 1 .. m : /\ jax[i] = Invalid <=> Layers[i] = Invalid
                            /\ Layers[i] # Invalid => [f \in DOMAIN Layers[i] |-> jax[i][f]] = Layers[i]
      BY <3>1 DEF Alike
    <3>3. Buildable(jax) <=> Buildable(Layers)
      BY <3>1, <3>2 DEF Buildable
    <3>4. Buildable(Layers) => \A i \in DOMAIN jax : [f \in DOMAIN Layers[i] |-> jax[i][f]] = Layers[i]
      BY <3>1, <3>2 DEF Buildable
    <3> QED BY <3>1, <3>3, <3>4 DEF jax
  <2>2. ShardingFits
    <3> SUFFICES ASSUME NEW s \in Shardings, ~(s.sampling /\ s.zero),
                        Buildable(JaxStack([Extended(conf, JaxDefaultTransformer) EXCEPT !.sharding = s])),
                        NEW i \in DOMAIN JaxStack([Extended(conf, JaxDefaultTransformer) EXCEPT !.sharding = s])
                 PROVE  LET K == JaxStack([Extended(conf, JaxDefaultTransformer) EXCEPT !.sharding = s])[i].kernels
                        IN /\ \A k \in K :
                                /\ Len(k.sharding) = Len(k.dims)
                                /\ \A a, b \in DOMAIN k.dims : a # b => k.sharding[a] \cap k.sharding[b] = {}
                           /\ \A k, m \in K : \A a \in DOMAIN k.dims, b \in DOMAIN m.dims :
                                k.dims[a] = m.dims[b] => k.sharding[a] = m.sharding[b]
      BY DEF ShardingFits
    <3> DEFINE jax == JaxStack([Extended(conf, JaxDefaultTransformer) EXCEPT !.sharding = s])  K == jax[i].kernels
    <3>1. PICK m \in Nat : /\ DOMAIN jax = 1 .. m /\ Len(jax) = m
                           /\ DOMAIN Layers = 1 .. m /\ Len(Layers) = m
                           /\ \A n \in 1 .. m : Alike(jax[n], Layers[n], FanIn(s))
      BY <2>a
    <3>2. jax[i] # Invalid
      BY DEF Buildable
    <3>3. \A k \in K : KernelFits(k, FanIn(s))
      BY <3>1, <3>2 DEF Alike
    <3> HIDE DEF jax, K
    <3>4. \A k \in K : /\ Len(k.sharding) = Len(k.dims)
                       /\ \A a \in DOMAIN k.dims : k.sharding[a] = AxesOf(FanIn(s), k.dims[a])
                       /\ \A a, b \in DOMAIN k.dims : a # b => k.sharding[a] \cap k.sharding[b] = {}
      BY <3>3 DEF KernelFits
    <3>5. \A k, n \in K : \A a \in DOMAIN k.dims, b \in DOMAIN n.dims :
            k.dims[a] = n.dims[b] => k.sharding[a] = n.sharding[b]
      BY <3>4
    <3> QED BY <3>4, <3>5 DEF jax, K
  <2> QED BY <2>1, <2>2 DEF LayersAgree
<1>2. StreamInv => conf \in Configurations
  BY DEF StreamInv
<1>3. TransformerSpec => []StreamInv
  BY StreamStart, StreamStep, PTL DEF TransformerSpec
<1> QED BY <1>1, <1>2, <1>3, PTL

--------------------------------------------------------------------------------
(* Batches of one element.                                                 *)

LEMMA SequenceIs ==
  ASSUME NEW n \in Nat, NEW S, NEW s \in [1 .. n -> S]
  PROVE  s \in Seq(S) /\ Len(s) = n
OBVIOUS

LEMMA FlattenOne ==
  ASSUME NEW s, Len(s) = 1
  PROVE  FlattenSeq(s) = s[1]
<1> DEFINE P(f) == f = [i \in 1 .. 1 |-> IF i = 1 THEN s[i] ELSE f[i - 1] \o s[i]]
           g == CHOOSE f : P(f)
<1>1. FlattenSeq(s) = g[1]
  BY DEF FlattenSeq
<1>2. P([i \in 1 .. 1 |-> s[1]])
  OBVIOUS
<1>3. P(g)
  <2> HIDE DEF P
  <2> QED BY <1>2
<1> HIDE DEF g
<1>4. g[1] = s[1]
  BY <1>3
<1> QED BY <1>1, <1>4

LEMMA RepeatOne ==
  ASSUME NEW v, NEW n
  PROVE  RepeatRows(<<v>>, n) = [i \in 1 .. n |-> v] /\ RepeatRows(<<>>, n) = <<>>
<1> DEFINE s == [i \in DOMAIN <<v>> |-> [j \in 1 .. n |-> <<v>>[i]]]
<1>1. Len(s) = 1 /\ s[1] = [j \in 1 .. n |-> v]
  OBVIOUS
<1>2. RepeatRows(<<v>>, n) = s[1]
  <2>1. RepeatRows(<<v>>, n) = FlattenSeq(s)
    BY DEF RepeatRows
  <2> HIDE DEF s
  <2> QED BY <1>1, <2>1, FlattenOne
<1>3. RepeatRows(<<>>, n) = <<>>
  <2> DEFINE e == [i \in DOMAIN <<>> |-> [j \in 1 .. n |-> <<>>[i]]]
  <2>1. e = <<>> /\ Len(e) = 0
    OBVIOUS
  <2>2. RepeatRows(<<>>, n) = FlattenSeq(e)
    BY DEF RepeatRows
  <2> HIDE DEF e
  <2> QED BY <2>1, <2>2 DEF FlattenSeq
<1> QED BY <1>1, <1>2, <1>3

\* Sequences of one element each, a lane for each sequence.
LEMMA InterleaveOne ==
  ASSUME NEW n \in Nat \ {0}, NEW ss, ss = [j \in 1 .. n |-> ss[j]], DOMAIN ss[1] = 1 .. 1
  PROVE  InterleaveSequences(ss) = [j \in 1 .. n |-> ss[j][1]]
<1> DEFINE z == [i \in DOMAIN ss[1] |-> [j \in DOMAIN ss |-> ss[j][i]]]
<1>1. Len(z) = 1 /\ z[1] = [j \in 1 .. n |-> ss[j][1]]
  <2>1. DOMAIN ss = 1 .. n /\ DOMAIN z = 1 .. 1
    OBVIOUS
  <2>2. z[1] = [j \in 1 .. n |-> ss[j][1]]
    <3>1. 1 \in DOMAIN ss[1]
      <4>1. 1 \in 1 .. 1
        BY ONLY TRUE
      <4> QED BY <4>1, Zenon
    <3>2. z[1] = [j \in DOMAIN ss |-> ss[j][1]]
      BY <3>1
    <3> HIDE DEF z
    <3> QED BY <2>1, <3>2
  <2>3. z \in [1 .. 1 -> {z[1]}]
    <3>1. z = [i \in 1 .. 1 |-> z[i]] /\ \A i \in 1 .. 1 : i = 1
      BY <2>1
    <3> HIDE DEF z
    <3> QED BY <3>1
  <2> HIDE DEF z
  <2> QED BY <2>2, <2>3, SequenceIs
<1>2. InterleaveSequences(ss) = FlattenSeq(z)
  BY DEF InterleaveSequences
<1> HIDE DEF z
<1> QED BY <1>1, <1>2, FlattenOne

\* One sequence after the other.
LEMMA ConcatIs ==
  ASSUME NEW n \in Nat, NEW m \in Nat, NEW s, s = [i \in 1 .. n |-> s[i]], NEW t, t = [i \in 1 .. m |-> t[i]]
  PROVE  s \o t = [i \in 1 .. n + m |-> IF i <= n THEN s[i] ELSE t[i - n]]
<1> DEFINE S == {s[i] : i \in 1 .. n} \cup {t[i] : i \in 1 .. m}
           e == [i \in 1 .. n + m |-> IF i <= n THEN s[i] ELSE t[i - n]]
<1>1. s \in [1 .. n -> S] /\ t \in [1 .. m -> S]
  OBVIOUS
<1>2. e \in [1 .. n + m -> S]
  <2>1. ASSUME NEW i \in 1 .. n + m PROVE (i <= n => i \in 1 .. n) /\ (~(i <= n) => i - n \in 1 .. m)
    OBVIOUS
  <2> QED BY <2>1
<1>3. n + m \in Nat
  OBVIOUS
<1>e. \A i \in 1 .. n + m : e[i] = IF i <= n THEN s[i] ELSE t[i - n]
  OBVIOUS
<1> HIDE DEF S, e
<1>4. s \in Seq(S) /\ Len(s) = n /\ t \in Seq(S) /\ Len(t) = m /\ e \in Seq(S) /\ Len(e) = n + m
  BY <1>1, <1>2, <1>3, SequenceIs
<1>5. /\ s \o t \in Seq(S) /\ Len(s \o t) = n + m
      /\ \A i \in 1 .. n + m : (s \o t)[i] = IF i <= n THEN s[i] ELSE t[i - n]
  BY <1>4, ConcatProperties
<1> DEFINE r == s \o t
<1> HIDE DEF r
<1>6. r \in Seq(S) /\ Len(r) = Len(e) /\ \A i \in 1 .. Len(r) : r[i] = e[i]
  BY <1>4, <1>5, <1>e DEF r
<1>7. r = e
  BY <1>4, <1>6, SeqEqual
<1> QED BY <1>7 DEF r, e

\* x before the two elements of s.
LEMMA BeforeTwo ==
  ASSUME NEW x, NEW s, s = [j \in 1 .. 2 |-> s[j]]
  PROVE  <<x>> \o s = [j \in 1 .. 3 |-> IF j = 1 THEN x ELSE s[j - 1]]
<1> DEFINE a == <<x>>
<1>1. a = [i \in 1 .. 1 |-> a[i]] /\ a[1] = x
  OBVIOUS
<1> HIDE DEF a
<1>2. a \o s = [i \in 1 .. 1 + 2 |-> IF i <= 1 THEN a[i] ELSE s[i - 1]]
  BY <1>1, ConcatIs
<1>3. \A i \in 1 .. 3 : i <= 1 <=> i = 1
  OBVIOUS
<1>4. a \o s = [j \in 1 .. 3 |-> IF j = 1 THEN x ELSE s[j - 1]]
  BY <1>1, <1>2, <1>3
<1> QED BY <1>4 DEF a

LEMMA SortedTwo ==
  ASSUME NEW f, DOMAIN f = {"musiccoca", "notes"}
  PROVE  Sorted(f) = [j \in 1 .. 2 |-> IF j = 1 THEN f["musiccoca"] ELSE f["notes"]]
<1> DEFINE a == <<f["musiccoca"]>>  b == <<f["notes"]>>
<1>1. Sorted(f) = a \o b
  BY DEF Sorted
<1>2. a = [i \in 1 .. 1 |-> a[i]] /\ a[1] = f["musiccoca"] /\ b = [i \in 1 .. 1 |-> b[i]] /\ b[1] = f["notes"]
  OBVIOUS
<1> HIDE DEF a, b
<1>3. a \o b = [i \in 1 .. 1 + 1 |-> IF i <= 1 THEN a[i] ELSE b[i - 1]]
  BY <1>2, ConcatIs
<1>4. \A i \in 1 .. 2 : (i <= 1 <=> i = 1) /\ (i # 1 => i - 1 = 1)
  OBVIOUS
<1>5. a \o b = [j \in 1 .. 2 |-> IF j = 1 THEN f["musiccoca"] ELSE f["notes"]]
  BY <1>2, <1>3, <1>4
<1> QED BY <1>1, <1>5

LEMMA GuidanceNumber == Cardinality({"musiccoca", "notes"}) = 2 /\ Cardinality({}) = 0
<1>1. IsFiniteSet({"notes"}) /\ Cardinality({"notes"}) = 1
  BY FS_Singleton
<1>2. "musiccoca" \notin {"notes"} /\ {"notes"} \cup {"musiccoca"} = {"musiccoca", "notes"}
  OBVIOUS
<1>3. Cardinality({"notes"} \cup {"musiccoca"}) = 2
  BY <1>1, <1>2, FS_AddElement
<1> QED BY <1>2, <1>3, FS_EmptySet

--------------------------------------------------------------------------------
(* The stacks of the decoder.                                              *)

\* A layer that looks at nothing ahead, and a stack of them.
EasyLayer(l, cross) ==
  /\ LayerType(l) /\ l.future = 0 /\ l.latency = 0
  /\ l.kind = "cross" => cross
Easy(layers, cross) ==
  /\ Len(layers) \in Nat /\ layers = [i \in 1 .. Len(layers) |-> layers[i]]
  /\ \A i \in 1 .. Len(layers) : EasyLayer(layers[i], cross)

LEMMA EasyIsStackable ==
  ASSUME NEW layers, NEW cross, Easy(layers, cross)
  PROVE  Stackable(layers, 0) /\ Len(layers) \in Nat /\ \A i \in 0 .. Len(layers) : Lead(layers, 0, i) = 0
<1> DEFINE n == Len(layers)  z == Latencies(layers)
<1>1. n \in Nat /\ layers = [i \in 1 .. n |-> layers[i]] /\ \A i \in 1 .. n : EasyLayer(layers[i], cross)
  BY DEF Easy
<1>2. \A i \in 1 .. n : z[i] = layers[i].latency
  BY DEF Latencies
<1>3. \A i \in 1 .. n : z[i] = 0
  BY <1>1, <1>2 DEF EasyLayer
<1>l. \A i : Lead(layers, 0, i) = 0 + Total(z, i)
  BY DEF Lead
<1> HIDE DEF n, z
<1>4. \A i \in 0 .. n : Total(z, i) = 0
  <2> DEFINE T == {i \in 0 .. n : Total(z, i) = 0}
  <2>1. 0 \in T
    BY <1>1, <1>3, SumStep
  <2>2. ASSUME NEW i \in 0 .. n - 1, i \in T PROVE i + 1 \in T
    <3> DEFINE m == i + 1
    <3>1. m \in Nat /\ m > 0 /\ m - 1 = i /\ m \in 1 .. n /\ m \in 0 .. n /\ \A j \in 1 .. m : z[j] \in Int
      BY <1>1, <1>3
    <3> HIDE DEF m
    <3>2. Total(z, m) = Total(z, m - 1) + z[m]
      BY <3>1, SumStep
    <3>3. Total(z, m) = 0
      BY <1>3, <2>2, <3>1, <3>2
    <3> QED BY <3>1, <3>3 DEF m
  <2> HIDE DEF T
  <2>3. \A i \in 0 .. n : i \in T
    BY <1>1, <2>1, <2>2, SetInduction
  <2> QED BY <2>3 DEF T
<1>5. \A i \in 0 .. n : Lead(layers, 0, i) = 0
  BY <1>4, <1>l
<1>6. ASSUME NEW i \in 1 .. n PROVE LayerType(layers[i]) /\ Ready(layers[i], Lead(layers, 0, i - 1))
  <2>1. Lead(layers, 0, i - 1) = 0
    BY <1>1, <1>5
  <2>2. LayerType(layers[i]) /\ layers[i].future = 0 /\ layers[i].latency = 0
    BY <1>1 DEF EasyLayer
  <2> QED BY <2>1, <2>2 DEF Ready, KeyLead
<1> QED BY <1>1, <1>5, <1>6 DEF Stackable, n

LEMMA EasyBlocks ==
  ASSUME NEW k \in {2, 3}, NEW n \in Nat \ {0}, NEW block, Len(block) = k, NEW cross,
         \A i \in 1 .. k : EasyLayer(block[i], cross)
  PROVE  Easy(Blocks(block, n), cross)
<1> DEFINE m == n * k  b == Built(block, k, m)
<1>1. Blocks(block, n) = b /\ Len(b) = m /\ m \in Nat /\ \A i \in 1 .. m : 1 + ((i - 1) % k) \in 1 .. k
  BY BlocksAre
<1> HIDE DEF m
<1>2. b = [i \in 1 .. m |-> block[1 + ((i - 1) % k)]]
  BY DEF Built
<1> HIDE DEF b
<1>3. b = [i \in 1 .. m |-> b[i]] /\ \A i \in 1 .. m : EasyLayer(b[i], cross)
  BY <1>1, <1>2
<1> QED BY <1>1, <1>3 DEF Easy

\* What the bodies of the decoder have in common.
Plain0(c) ==
  /\ c \in ConfFields /\ c.future = 0 /\ c.validOnly /\ ~c.positions
  /\ c.cross => c.xpast \in Nat /\ c.xfuture = 0

LEMMA EasyBody ==
  ASSUME NEW c, Plain0(c)
  PROVE  Easy(Stack(c), c.cross) /\ Easy(JaxStack(JaxConf(c, JaxDefaultTransformer.sharding)), c.cross)
<1> DEFINE sh == JaxDefaultTransformer.sharding  ds == DefaultSharding(sh)  j == JaxConf(c, sh)
           s == SelfOf(c)  x == CrossOf(c)
           a == SelfAttention(s)  b == StreamingCrossAttention(x)  f == TransformerFFN(c.gated)
           ja == JaxSelfAttention(s, ds)  jb == JaxStreamingCrossAttention(x, ds)
           jf == JaxTransformerFFN(c.gated, ds)
           block == TransformerBlock(c)  jblock == JaxTransformerBlock(j, ds)
<1>c. /\ c \in ConfFields /\ c.future = 0 /\ c.validOnly /\ ~c.positions /\ c.layers \in Nat \ {0}
      /\ c.past \in Nat /\ c.rope \in BOOLEAN /\ c.delayed \in BOOLEAN /\ c.cross \in BOOLEAN
      /\ c.cross => c.xpast \in Nat /\ c.xfuture = 0
  BY DEF Plain0, ConfFields
<1>1. sh \in Shardings /\ ~(sh.sampling /\ sh.zero)
  <2>1. sh = [sampling |-> FALSE, sequence |-> FALSE, zero |-> TRUE]
    BY DEF JaxDefaultTransformer, Extended, DefaultTransformer
  <2> HIDE DEF sh
  <2> QED BY <2>1 DEF Shardings
<1>2. ds # Invalid
  <2> HIDE DEF sh
  <2> QED BY <1>1, ShardingIs
<1>3. /\ SelfOf(j) = SelfOf(c) /\ CrossOf(j) = CrossOf(c)
      /\ j.cross = c.cross /\ j.gated = c.gated /\ j.layers = c.layers /\ j.sharding = sh
  <2> HIDE DEF sh
  <2> QED BY <1>c, JaxConfIs
<1>4. JaxStack(j) = Blocks(jblock, c.layers) /\ Stack(c) = Blocks(block, c.layers)
  <2> HIDE DEF sh, j
  <2> QED BY <1>2, <1>3 DEF JaxStack, Stack
<1>5. (~c.cross => block = <<a, f>>) /\ (c.cross => block = <<a, b, f>>)
  BY BlockIs
<1>6. (~c.cross => jblock = <<ja, jf>>) /\ (c.cross => jblock = <<ja, jb, jf>>)
  <2>1. jblock = <<ja>> \o (IF c.cross THEN <<jb>> ELSE <<>>) \o <<jf>>
    <3> HIDE DEF j, sh, ds
    <3> QED BY <1>3 DEF JaxTransformerBlock
  <2> HIDE DEF ja, jb, jf, jblock
  <2>2. <<ja>> \o <<jb>> \o <<jf>> = <<ja, jb, jf>> /\ <<ja>> \o <<>> \o <<jf>> = <<ja, jf>>
    BY Joined
  <2> QED BY <2>1, <2>2
<1>s. /\ s.past = c.past /\ s.future = 0 /\ s.rope = c.rope /\ s.validOnly /\ ~s.positions /\ s.validOnly \in BOOLEAN
      /\ x.delayed \in BOOLEAN /\ x.rope = c.rope /\ x.validOnly /\ ~x.positions /\ x.validOnly \in BOOLEAN
      /\ x.rope \in BOOLEAN
      /\ c.cross => x.past \in Nat /\ x.future = 0
  BY <1>c DEF SelfOf, CrossOf, Unset, ConfFields
<1>7. /\ a = Residual("self", s, 0, 0) /\ \E K : ja = Extended(Residual("self", s, 0, 0), [kernels |-> K])
  <2> HIDE DEF s, ds
  <2>0. Larger(0, 0) = 0 /\ \A r, v : [rope |-> r, validOnly |-> v] # Invalid
    <3>1. \A r, v : DOMAIN [rope |-> r, validOnly |-> v] = {"rope", "validOnly"}
      OBVIOUS
    <3>2. DOMAIN Invalid = {"invalid"}
      BY DEF Invalid
    <3> QED BY <3>1, <3>2 DEF Larger
  <2>1. QkvNetworks(s.rope, s.validOnly, s.positions) # Invalid /\ JaxQkvNetworks(s) # Invalid
    BY <1>s, <2>0 DEF QkvNetworks, JaxQkvNetworks
  <2>2. a = Residual("self", s, 0, 0)
    BY <1>s, <2>1 DEF SelfAttention
  <2> DEFINE K == {IF s.separate THEN Kernel(dnh, ds.dnh)
                   ELSE Kernel(<<"d", "3", "n", "h">>, Derive(ds.dnh, dnh, <<"d", "3", "n", "h">>)),
                   Kernel(dnh, ds.dnh)}
  <2>3. ja = Extended(Residual("self", s, s.future, Larger(s.future, 0)), [kernels |-> K])
    BY <2>1 DEF JaxSelfAttention
  <2> HIDE DEF ja, K
  <2> QED BY <1>s, <2>0, <2>2, <2>3
<1>8. ASSUME c.cross
      PROVE  b = Residual("cross", x, 0, 0) /\ \E K : jb = Extended(Residual("cross", x, 0, 0), [kernels |-> K])
  <2> HIDE DEF x, ds
  <2>0. \A r, v : [rope |-> r, validOnly |-> v] # Invalid
    <3>1. \A r, v : DOMAIN [rope |-> r, validOnly |-> v] = {"rope", "validOnly"}
      OBVIOUS
    <3>2. DOMAIN Invalid = {"invalid"}
      BY DEF Invalid
    <3> QED BY <3>1, <3>2
  <2>1. QkvNetworks(x.rope, x.validOnly, x.positions) # Invalid /\ JaxQkvNetworks(x) # Invalid
    BY <1>s, <2>0 DEF QkvNetworks, JaxQkvNetworks
  <2>2. (IF x.delayed THEN x.future ELSE 0) = 0
    BY <1>s, <1>8
  <2>3. b = Residual("cross", x, 0, 0)
    <3>1. b = LET d == IF x.delayed THEN x.future ELSE 0 IN Residual("cross", x, d, d)
      BY <1>s, <2>1 DEF StreamingCrossAttention
    <3> HIDE DEF b
    <3> QED BY <2>2, <3>1
  <2> DEFINE K == {Kernel(dnh, ds.dnh),
                   IF x.separate THEN Kernel(dnh, ds.dnh)
                   ELSE Kernel(<<"d", "2", "n", "h">>, Derive(ds.dnh, dnh, <<"d", "2", "n", "h">>))}
  <2>4. jb = LET d == IF x.delayed THEN x.future ELSE 0
             IN Extended(Residual("cross", x, d, d), [kernels |-> K])
    BY <1>s, <2>1 DEF JaxStreamingCrossAttention
  <2> HIDE DEF jb, K
  <2> QED BY <2>2, <2>3, <2>4
<1>9. \E K : jf = Extended(f, [kernels |-> K])
  BY DEF JaxTransformerFFN
<1> HIDE DEF ja, jb, jf, a, b, f
<1>e. ASSUME NEW l, EasyLayer(l, c.cross), NEW kind, NEW q, NEW d, NEW e, l = Residual(kind, q, d, e), NEW K
      PROVE  EasyLayer(Extended(l, [kernels |-> K]), c.cross)
  <2> DEFINE y == Extended(l, [kernels |-> K])
  <2>1. [g \in DOMAIN l |-> y[g]] = l
    BY <1>e, ExtendedIs
  <2>2. DOMAIN l = {"kind", "past", "future", "rope", "validOnly", "latency", "shortcut"}
    BY <1>e DEF Residual
  <2> HIDE DEF y
  <2>3. \A g \in DOMAIN l : y[g] = l[g]
    BY <2>1
  <2>4. /\ y.kind = l.kind /\ y.past = l.past /\ y.future = l.future /\ y.rope = l.rope
        /\ y.validOnly = l.validOnly /\ y.latency = l.latency /\ y.shortcut = l.shortcut
    BY <2>2, <2>3
  <2>5. EasyLayer(y, c.cross)
    BY <1>e, <2>4 DEF EasyLayer, LayerType
  <2> QED BY <2>5 DEF y
<1>10. EasyLayer(a, c.cross) /\ EasyLayer(ja, c.cross)
  <2>1. EasyLayer(Residual("self", s, 0, 0), c.cross)
    <3> HIDE DEF s
    <3> QED BY <1>c, <1>s DEF EasyLayer, LayerType, Residual
  <2> QED BY <1>7, <1>e, <2>1
<1>11. EasyLayer(f, c.cross) /\ EasyLayer(jf, c.cross)
  <2>1. \E kind, q : f = Residual(kind, q, 0, 0)
    BY DEF f, TransformerFFN
  <2>2. EasyLayer(f, c.cross)
    BY DEF f, TransformerFFN, EasyLayer, LayerType, Residual
  <2> QED BY <1>9, <1>e, <2>1, <2>2
<1>12. ASSUME c.cross PROVE EasyLayer(b, c.cross) /\ EasyLayer(jb, c.cross)
  <2>1. EasyLayer(Residual("cross", x, 0, 0), c.cross)
    <3> HIDE DEF x
    <3> QED BY <1>c, <1>s, <1>12 DEF EasyLayer, LayerType, Residual
  <2> QED BY <1>8, <1>e, <1>12, <2>1
<1> HIDE DEF j, sh, ds, block, jblock
<1>13. \E k \in {2, 3} : /\ Len(block) = k /\ Len(jblock) = k
                         /\ \A i \in 1 .. k : EasyLayer(block[i], c.cross) /\ EasyLayer(jblock[i], c.cross)
  <2>1. CASE ~c.cross
    <3>1. /\ Len(block) = 2 /\ block[1] = a /\ block[2] = f
          /\ Len(jblock) = 2 /\ jblock[1] = ja /\ jblock[2] = jf
      BY <1>5, <1>6, <2>1
    <3>2. \A i \in 1 .. 2 : i = 1 \/ i = 2
      OBVIOUS
    <3>3. \A i \in 1 .. 2 : EasyLayer(block[i], c.cross) /\ EasyLayer(jblock[i], c.cross)
      BY <1>10, <1>11, <3>1, <3>2
    <3> QED BY <3>1, <3>3
  <2>2. CASE c.cross
    <3>1. /\ Len(block) = 3 /\ block[1] = a /\ block[2] = b /\ block[3] = f
          /\ Len(jblock) = 3 /\ jblock[1] = ja /\ jblock[2] = jb /\ jblock[3] = jf
      BY <1>5, <1>6, <2>2
    <3>2. \A i \in 1 .. 3 : i = 1 \/ i = 2 \/ i = 3
      OBVIOUS
    <3>3. \A i \in 1 .. 3 : EasyLayer(block[i], c.cross) /\ EasyLayer(jblock[i], c.cross)
      BY <1>10, <1>11, <1>12, <2>2, <3>1, <3>2
    <3> QED BY <3>1, <3>3
  <2> QED BY <1>c, <2>1, <2>2
<1>14. Easy(Blocks(block, c.layers), c.cross) /\ Easy(Blocks(jblock, c.layers), c.cross)
  BY <1>c, <1>13, EasyBlocks
<1> QED BY <1>4, <1>14 DEF j, sh

Backends == {"mlx", "jax", "mlxfn"}
\* The models: no encoder layers, and bodies with nothing ahead.
Fits(d) ==
  /\ d.encoder = <<>> /\ d.levels \in Nat \ {0} /\ d.active \in {Unset} \cup 0 .. d.levels
  /\ Easy(d.temporal, TRUE) /\ Easy(d.depth, FALSE)

TargetOf(t) == t.used \in Nat \ {0} /\ t.codebook \in Nat /\ t.codebook >= 6 /\ t.extra = 6
LEMMA TargetsAre == TargetOf(TargetTokens(Model)) /\ TargetOf(JaxTargetTokens(Model))
<1>1. \A t \in TokensFields : t.codebook >= NumReservedTokens => TargetOf(t)
  BY DEF TokensFields, NumReservedTokens, TargetOf
<1> HIDE DEF TargetOf
<1> QED BY <1>1, SystemAssumption

LEMMA BodiesArePlain ==
  Plain0(TemporalBody(Model)) /\ TemporalBody(Model).cross
  /\ Plain0(DepthBody(Model, Model.depthLayers)) /\ ~DepthBody(Model, Model.depthLayers).cross
<1>1. /\ Model.layers \in Nat \ {0} /\ Model.depthLayers \in Nat \ {0}
      /\ Model.past \in Nat /\ Model.xpast \in Nat /\ Model.rope \in BOOLEAN
      /\ TargetTokens(Model).used \in Nat
  BY SystemAssumption, TargetsAre DEF TargetOf
<1> DEFINE c == TemporalBody(Model)  e == DepthBody(Model, Model.depthLayers)
<1>2. /\ c \in ConfFields
      /\ c.future = 0 /\ c.cross = TRUE /\ c.xpast = Model.xpast /\ c.xfuture = 0 /\ c.validOnly = TRUE
      /\ c.positions = FALSE
  BY <1>1 DEF TemporalBody, DefaultTransformer, ConfFields
<1>3. /\ e \in ConfFields
      /\ e.future = 0 /\ e.cross = FALSE /\ e.validOnly = TRUE /\ e.positions = FALSE
  BY <1>1 DEF DepthBody, DefaultTransformer, ConfFields
<1> HIDE DEF c, e
<1>4. Plain0(c) /\ c.cross
  BY <1>1, <1>2 DEF Plain0
<1>5. Plain0(e) /\ ~e.cross
  BY <1>1, <1>3 DEF Plain0
<1> QED BY <1>4, <1>5 DEF c, e

LEMMA DepthformerFits ==
  ASSUME NEW b \in Backends
  PROVE  Fits(DepthformerOf(b)) /\ (b = "jax" => ActiveLevelsOf(DepthformerOf(b)) = DepthformerOf(b).levels)
<1> DEFINE c == TemporalBody(Model)  e == DepthBody(Model, Model.depthLayers)
<1>1. Easy(Stack(c), TRUE) /\ Easy(Stack(e), FALSE)
      /\ Easy(JaxStack(JaxConf(c, JaxDefaultTransformer.sharding)), TRUE)
      /\ Easy(JaxStack(JaxConf(e, JaxDefaultTransformer.sharding)), FALSE)
  <2>1. Plain0(c) /\ c.cross = TRUE /\ Plain0(e) /\ e.cross = FALSE
    <3>1. Plain0(c) /\ c.cross /\ Plain0(e) /\ ~e.cross
      BY BodiesArePlain
    <3>2. c.cross \in BOOLEAN /\ e.cross \in BOOLEAN
      <4> HIDE DEF c, e
      <4> QED BY <3>1 DEF Plain0, ConfFields
    <3> QED BY <3>1, <3>2
  <2> HIDE DEF c, e
  <2> QED BY <2>1, EasyBody
<1>2. TargetTokens(Model).used \in Nat \ {0} /\ JaxTargetTokens(Model).used \in Nat \ {0}
      /\ ActiveLevels \in {Unset} \cup 0 .. TargetTokens(Model).used
  BY SystemAssumption, TargetsAre DEF TargetOf
<1>3. CASE b = "mlx"
  <2>1. DepthformerOf(b) = DepthformerConfig(Model, Unset, Unset)
    BY <1>3 DEF DepthformerOf, MlxDepth
  <2> DEFINE d == DepthformerConfig(Model, Unset, Unset)
  <2>2. /\ d.encoder = <<>> /\ d.levels = TargetTokens(Model).used /\ d.active = Unset
        /\ d.temporal = Stack(c) /\ d.depth = Stack(e)
    BY DEF DepthformerConfig
  <2> HIDE DEF c, e, d
  <2> QED BY <1>1, <1>2, <1>3, <2>1, <2>2 DEF Fits, d
<1>4. CASE b = "jax"
  <2> DEFINE d == JaxDepthformerConfig(Model)
  <2>1. DepthformerOf(b) = d
    BY <1>4 DEF DepthformerOf, JaxDepth
  <2>2. /\ d.encoder = <<>> /\ d.levels = JaxTargetTokens(Model).used /\ d.active = Unset
        /\ d.temporal = JaxStack(JaxConf(c, JaxDefaultTransformer.sharding))
        /\ d.depth = JaxStack(JaxConf(e, JaxDefaultTransformer.sharding))
    BY DEF JaxDepthformerConfig, JaxConf
  <2> HIDE DEF c, e, d
  <2> QED BY <1>1, <1>2, <2>1, <2>2 DEF Fits, ActiveLevelsOf
<1>5. CASE b = "mlxfn"
  <2>1. DepthformerOf(b) = DepthformerConfig(Model, ActiveLevels, Unset)
    BY <1>5 DEF DepthformerOf, MlxfnDepth
  <2> DEFINE d == DepthformerConfig(Model, ActiveLevels, Unset)
  <2>2. /\ d.encoder = <<>> /\ d.levels = TargetTokens(Model).used /\ d.active = ActiveLevels
        /\ d.temporal = Stack(c) /\ d.depth = Stack(e)
    BY DEF DepthformerConfig
  <2> HIDE DEF c, e, d
  <2> QED BY <1>1, <1>2, <1>5, <2>1, <2>2 DEF Fits, d
<1> QED BY <1>3, <1>4, <1>5 DEF Backends

LEMMA LevelsAre ==
  ASSUME NEW d, Fits(d)
  PROVE  ActiveLevelsOf(d) \in 1 .. d.levels /\ d.levels - ActiveLevelsOf(d) \in Nat
BY DEF Fits, ActiveLevelsOf, Unset

--------------------------------------------------------------------------------
(* A step, for any backend and model.                                      *)

Arity(b) == IF b = "mlxfn" THEN 3 ELSE 1
Guidance(b) == IF b = "mlxfn" THEN {"musiccoca", "notes"} ELSE {}
Conditioned(b, r) ==
  CASE b = "mlx" -> BuildConditioning(r)
    [] b = "jax" -> JaxBuildConditioning(r)
    [] OTHER -> StreamingConstants(BuildMlxfnArgs(r))
RowsFor(b, c) ==
  IF b = "jax" THEN JaxLaneInputs(c.x, c.negatives, c.k.scales) ELSE LaneInputs(c.x, c.negatives, c.k.scales)
ConstantsFor(b, c) == LaneConstants(c.k, Arity(b))
\* What a step is given.
Given(b, c) ==
  /\ DOMAIN c.k.scales = Guidance(b)
  /\ RowsFor(b, c) = [i \in 1 .. Arity(b) |-> RowsFor(b, c)[i]]
  /\ b = "mlx" => ConstantsFor(b, c) = c.k
  /\ ConstantsFor(b, c).topp = <<>> /\ DOMAIN ConstantsFor(b, c).scales = Guidance(b)

LEMMA ArityIs ==
  ASSUME NEW b \in Backends
  PROVE  /\ Arity(b) \in {1, 3} /\ Cardinality(Guidance(b)) + 1 = Arity(b)
         /\ Arity(b) - 1 = Cardinality(Guidance(b))
         /\ (Arity(b) = 1 <=> Guidance(b) = {}) /\ (Arity(b) = 1 <=> b # "mlxfn")
BY GuidanceNumber DEF Backends, Arity, Guidance

LEMMA OneRow ==
  ASSUME NEW v, NEW k, k = [temperature |-> << 2 >>, topk |-> << 3 >>, topp |-> <<>>, scales |-> <<>>]
  PROVE  LaneConstants(k, 1) = k
<1>1. \A u : RepeatRows(<<u>>, 1) = <<u>>
  <2>1. \A u : [i \in 1 .. 1 |-> u] = <<u>>
    OBVIOUS
  <2> QED BY <2>1, RepeatOne
<1>2. RepeatRows(<<>>, 1) = <<>>
  BY RepeatOne
<1>3. [g \in DOMAIN <<>> |-> RepeatRows(<<>>[g], 1)] = <<>>
  OBVIOUS
<1> QED BY <1>1, <1>2, <1>3 DEF LaneConstants

LEMMA ConditioningIs ==
  ASSUME NEW b \in Backends, NEW r
  PROVE  Given(b, Conditioned(b, r))
<1> DEFINE c == Conditioned(b, r)
<1>1. CASE b # "mlxfn"
  <2>1. \E v : c = [x |-> <<v>>, negatives |-> <<>>,
                    k |-> [temperature |-> <<2>>, topk |-> <<3>>, topp |-> <<>>, scales |-> <<>>]]
    BY <1>1 DEF Backends, Conditioned, BuildConditioning, JaxBuildConditioning
  <2>2. PICK v : c = [x |-> <<v>>, negatives |-> <<>>,
                      k |-> [temperature |-> <<2>>, topk |-> <<3>>, topp |-> <<>>, scales |-> <<>>]]
    BY <2>1
  <2> HIDE DEF c
  <2>3. /\ c.x = <<v>> /\ c.k = [temperature |-> <<2>>, topk |-> <<3>>, topp |-> <<>>, scales |-> <<>>]
        /\ c.k.scales = <<>> /\ c.k.topp = <<>>
    BY <2>2
  <2>4. DOMAIN c.k.scales = {}
    BY <2>3
  <2>5. LaneConstants(c.k, 1) = c.k
    BY <2>3, OneRow
  <2>6. RowsFor(b, c) = <<v>>
    BY <2>3, <2>4 DEF RowsFor, LaneInputs, JaxLaneInputs
  <2>7. RowsFor(b, c) = [i \in 1 .. 1 |-> RowsFor(b, c)[i]]
    <3> DEFINE w == <<v>>
    <3>1. w = [i \in 1 .. 1 |-> w[i]]
      OBVIOUS
    <3> HIDE DEF w
    <3> QED BY <2>6, <3>1 DEF w
  <2> QED BY <1>1, <2>3, <2>4, <2>5, <2>7 DEF Given, Arity, Guidance, ConstantsFor, c
<1>2. CASE b = "mlxfn"
  <2> DEFINE P(v, m, n, p, q) ==
               c = [x |-> <<v>>, negatives |-> [musiccoca |-> <<m>>, notes |-> <<n>>],
                    k |-> [temperature |-> <<2>>, topk |-> <<3>>, topp |-> <<>>,
                           scales |-> [g \in {"musiccoca", "notes"} |-> IF g = "notes" THEN q ELSE p]]]
  <2>1. \E v, m, n, p, q : P(v, m, n, p, q)
    <3> DEFINE a == BuildMlxfnArgs(r)  sc == StreamingConstants(a)
    <3>1. c = sc
      BY <1>2 DEF Conditioned
    <3> HIDE DEF a
    <3>2. [g \in {"musiccoca", "notes"} |-> <<a.scales[g]>>]
          = [g \in {"musiccoca", "notes"} |-> IF g = "notes" THEN <<a.scales["notes"]>> ELSE <<a.scales["musiccoca"]>>]
      OBVIOUS
    <3>3. \E v, m, n : sc = [x |-> <<v>>, negatives |-> [musiccoca |-> <<m>>, notes |-> <<n>>],
                             k |-> [temperature |-> <<2>>, topk |-> <<3>>, topp |-> <<>>,
                                    scales |-> [g \in {"musiccoca", "notes"} |-> <<a.scales[g]>>]]]
      BY DEF StreamingConstants
    <3> HIDE DEF sc, c
    <3>4. PICK v, m, n : c = [x |-> <<v>>, negatives |-> [musiccoca |-> <<m>>, notes |-> <<n>>],
                              k |-> [temperature |-> <<2>>, topk |-> <<3>>, topp |-> <<>>,
                                     scales |-> [g \in {"musiccoca", "notes"} |-> <<a.scales[g]>>]]]
      BY <3>1, <3>3
    <3> DEFINE p == <<a.scales["musiccoca"]>>  q == <<a.scales["notes"]>>
    <3>5. P(v, m, n, p, q)
      BY <3>2, <3>4
    <3> HIDE DEF p, q, P
    <3> QED BY <3>5
  <2>2. PICK v, m, n, p, q : P(v, m, n, p, q)
    <3> HIDE DEF P
    <3> QED BY <2>1
  <2> HIDE DEF c
  <2> DEFINE neg == c.negatives
  <2>3. /\ c.x = <<v>> /\ c.k.topp = <<>> /\ DOMAIN c.k.scales = {"musiccoca", "notes"}
        /\ DOMAIN neg = {"musiccoca", "notes"} /\ neg["musiccoca"] = <<m>> /\ neg["notes"] = <<n>>
    BY <2>2
  <2> HIDE DEF neg
  <2> DEFINE s == Sorted(neg)  ss == <<c.x>> \o s
  <2>4. s = [j \in 1 .. 2 |-> IF j = 1 THEN <<m>> ELSE <<n>>]
    BY <2>3, SortedTwo
  <2> HIDE DEF s
  <2>5. s = [j \in 1 .. 2 |-> s[j]]
    BY <2>4
  <2>6. ss = [j \in 1 .. 3 |-> IF j = 1 THEN c.x ELSE s[j - 1]]
    BY <2>5, BeforeTwo
  <2>7. RowsFor(b, c) = InterleaveSequences(ss)
    <3>1. {"musiccoca", "notes"} # {}
      OBVIOUS
    <3>2. RowsFor(b, c) = InterleaveSequences(<<c.x>> \o Sorted(neg))
      BY <1>2, <2>3, <3>1 DEF RowsFor, LaneInputs, neg
    <3> QED BY <3>2 DEF s
  <2> HIDE DEF ss
  <2>8. ss = [j \in 1 .. 3 |-> ss[j]] /\ ss[1] = <<v>> /\ DOMAIN ss[1] = 1 .. 1
    BY <2>3, <2>6
  <2>9. InterleaveSequences(ss) = [j \in 1 .. 3 |-> ss[j][1]]
    <3>1. 3 \in Nat \ {0}
      OBVIOUS
    <3> QED BY <2>8, <3>1, InterleaveOne
  <2>10. RowsFor(b, c) = [i \in 1 .. 3 |-> RowsFor(b, c)[i]]
    BY <2>7, <2>9
  <2>11. LaneConstants(c.k, 3).topp = <<>> /\ DOMAIN LaneConstants(c.k, 3).scales = {"musiccoca", "notes"}
    <3>1. RepeatRows(<<>>, 3) = <<>>
      BY RepeatOne
    <3> QED BY <2>3, <3>1 DEF LaneConstants
  <2> QED BY <1>2, <2>3, <2>10, <2>11 DEF Given, Arity, Guidance, ConstantsFor, c
<1> QED BY <1>1, <1>2

\* The states, as the decoder of a step has them: every lane a row.
Names == {"rng", "frame", "temporal", "step", "encoder", "previous", "countdown"}
WholeState(n, a) ==
  n = [f \in Names |-> n[f]] /\ \A f \in Names : n[f] = [i \in 1 .. a |-> n[f][i]]
Merged(b, st) == IF b = "mlxfn" THEN MergeState(UnflattenState(st)) ELSE st
Parted(b, n) == IF b = "mlxfn" THEN FlattenState(SplitState(n, 3)) ELSE n
LanesAt(b, st) ==
  LET s == IF b = "mlxfn" THEN UnflattenState(st) ELSE st
  IN IF b = "mlxfn" THEN [rng |-> s.rng[1], frame |-> s.frame[1]] ELSE [rng |-> s.rng, frame |-> s.frame]

LEMMA SplitThree ==
  ASSUME NEW n, WholeState(n, 3)
  PROVE  /\ SplitState(n, 3) = [f \in Names |-> <<n[f]>>] /\ SplitState(n, 3) # Invalid
<1>1. DOMAIN n = Names /\ \A f \in Names : n[f] = [i \in 1 .. 3 |-> n[f][i]]
  BY DEF WholeState
<1>2. ASSUME NEW f \in Names PROVE SplitBatch(n[f], 3) = <<n[f]>>
  <2> DEFINE s == n[f]  S == {s[i] : i \in 1 .. 3}
  <2>1. s = [i \in 1 .. 3 |-> s[i]]
    BY <1>1
  <2> HIDE DEF s
  <2>2. s \in [1 .. 3 -> S]
    BY <2>1
  <2> HIDE DEF S
  <2>3. s \in Seq(S) /\ Len(s) = 3
    <3>1. 3 \in Nat
      OBVIOUS
    <3> QED BY <2>2, <3>1, SequenceIs
  <2>4. SubSeq(s, 1, 3) = s
    BY <2>3
  <2>5. SplitBatch(s, 3) = [i \in 1 .. 1 |-> SubSeq(s, (i - 1) * 3 + 1, i * 3)]
    <3>1. 3 % 3 = 0 /\ 3 \div 3 = 1
      OBVIOUS
    <3> QED BY <2>3, <3>1 DEF SplitBatch
  <2>6. \A i \in 1 .. 1 : (i - 1) * 3 + 1 = 1 /\ i * 3 = 3
    OBVIOUS
  <2>7. SplitBatch(s, 3) = [i \in 1 .. 1 |-> s]
    BY <2>4, <2>5, <2>6
  <2>8. [i \in 1 .. 1 |-> s] = <<s>>
    OBVIOUS
  <2> QED BY <2>7, <2>8 DEF s
<1>3. \A f \in Names : SplitBatch(n[f], 3) # NoBatch
  <2>1. \A v : <<v>> # <<>>
    OBVIOUS
  <2> QED BY <1>2, <2>1 DEF NoBatch
<1>4. SplitState(n, 3) = [f \in Names |-> <<n[f]>>]
  BY <1>1, <1>2, <1>3 DEF SplitState
<1>5. SplitState(n, 3) # Invalid
  <2>1. DOMAIN Invalid = {"invalid"} /\ Names # {"invalid"}
    BY DEF Invalid, Names
  <2> QED BY <1>4, <2>1
<1> QED BY <1>4, <1>5

LEMMA PartedIs ==
  ASSUME NEW b \in Backends, NEW n, WholeState(n, Arity(b))
  PROVE  /\ Merged(b, Parted(b, n)) = n
         /\ LanesAt(b, Parted(b, n)) = [rng |-> n.rng, frame |-> n.frame]
<1>1. CASE b # "mlxfn"
  BY <1>1 DEF Merged, Parted, LanesAt
<1>2. CASE b = "mlxfn"
  <2> DEFINE s == SplitState(n, 3)  u == UnflattenState(FlattenState(s))
  <2>1. s = [f \in Names |-> <<n[f]>>]
    BY <1>2, SplitThree DEF Arity
  <2> HIDE DEF s
  <2>2. u = s
    <3>1. u = [encoder |-> s.encoder, previous |-> s.previous, rng |-> s.rng, frame |-> s.frame,
               temporal |-> s.temporal, step |-> s.step, countdown |-> s.countdown]
      BY DEF FlattenState, UnflattenState
    <3> HIDE DEF u
    <3> QED BY <2>1, <3>1 DEF Names
  <2> HIDE DEF u
  <2>3. \A f \in Names : FlattenSeq(<<n[f]>>) = n[f]
    <3>1. \A v : Len(<<v>>) = 1 /\ <<v>>[1] = v
      OBVIOUS
    <3> QED BY <3>1, FlattenOne
  <2>4. MergeState(u) = [f \in Names |-> n[f]]
    BY <2>1, <2>2, <2>3 DEF MergeState, MergeBatch
  <2>5. Merged(b, Parted(b, n)) = MergeState(u)
    BY <1>2 DEF Merged, Parted, u, s
  <2>6. LanesAt(b, Parted(b, n)) = [rng |-> u.rng[1], frame |-> u.frame[1]]
    BY <1>2 DEF LanesAt, Parted, u, s
  <2>7. u.rng = <<n.rng>> /\ u.frame = <<n.frame>>
    BY <2>1, <2>2 DEF Names
  <2> QED BY <2>4, <2>5, <2>6, <2>7 DEF WholeState
<1> QED BY <1>1, <1>2

\* The first state, and the step on it.
Began(b, d) ==
  CASE b = "mlx" -> SamplerState(d, 1, <<>>)
    [] b = "jax" -> JaxSamplerState(d, 1, <<>>)
    [] OTHER -> FlattenState(SamplerState(d, 1, [musiccoca |-> <<30>>, notes |-> <<10>>]))
Beginning(b, d) ==
  LET a == Arity(b) IN
  Extended(IF b = "jax" THEN JaxDecoderState(d, a) ELSE DecoderState(d, a),
           [encoder |-> [i \in 1 .. a |-> FreshStack(d.encoder)],
            previous |-> [i \in 1 .. a |-> Sos(d)], countdown |-> [i \in 1 .. a |-> EncoderLookahead]])
Stepped(b, d, st, r) ==
  CASE b = "mlx" -> LET c == BuildConditioning(r) IN SamplerStep(d, st, c.x, c.k, c.negatives, <<>>)
    [] b = "jax" -> LET c == JaxBuildConditioning(r) IN JaxSamplerStep(d, st, c.x, c.k, c.negatives)
    [] OTHER -> LET c == StreamingConstants(BuildMlxfnArgs(r))
                IN Flat(SamplerStep(d, UnflattenState(st), c.x, c.k, c.negatives, <<>>))
EncodedBy(b, d, row) == IF b = "jax" THEN JaxEncoded(d, row) ELSE Encoded(d, row)
Next0(b, d, m, c) ==
  LET rows == RowsFor(b, c)
      enc == EncoderStep(d, m, [i \in DOMAIN rows |-> EncodedBy(b, d, rows[i])])
  IN IF b = "jax" THEN JaxStepEncoded(d, m, enc, ConstantsFor(b, c))
     ELSE StepEncoded(d, m, enc, ConstantsFor(b, c), <<>>)

BeginsAs(b, d, n, a) ==
  /\ n.rng = [i \in 1 .. a |-> [seed |-> IF b = "jax" THEN i ELSE 41 + i, path |-> <<>>]]
  /\ n.frame = [i \in 1 .. a |-> Sos(d)] /\ n.step = [i \in 1 .. a |-> 0]
  /\ n.temporal = [i \in 1 .. a |-> FreshStack(d.temporal)]
  /\ n.encoder = [i \in 1 .. a |-> FreshStack(d.encoder)]
  /\ n.previous = [i \in 1 .. a |-> Sos(d)] /\ n.countdown = [i \in 1 .. a |-> 0]

LEMMA BeginningIs ==
  ASSUME NEW b, NEW d
  PROVE  BeginsAs(b, d, Beginning(b, d), Arity(b))
<1>1. CASE b = "jax"
  BY <1>1 DEF BeginsAs, Beginning, Extended, JaxDecoderState, JaxSos, EncoderLookahead
<1>2. CASE b # "jax"
  BY <1>2 DEF BeginsAs, Beginning, Extended, DecoderState, EncoderLookahead
<1> QED BY <1>1, <1>2

LEMMA BeganIs ==
  ASSUME NEW b \in Backends, NEW d
  PROVE  /\ WholeState(Beginning(b, d), Arity(b))
         /\ Began(b, d) = Parted(b, Beginning(b, d))
<1>1. \A v : Cardinality(DOMAIN <<>>) + 1 = 1
  <2>1. DOMAIN <<>> = {}
    OBVIOUS
  <2> QED BY <2>1, FS_EmptySet
<1>2. WholeState(Beginning(b, d), Arity(b))
  <2> DEFINE n == Beginning(b, d)
  <2>1. DOMAIN n = Names /\ n = [f \in Names |-> n[f]]
    BY DEF Beginning, Extended, DecoderState, JaxDecoderState, Names
  <2>2. \A f \in Names : n[f] = [i \in 1 .. Arity(b) |-> n[f][i]]
    <3>1. /\ n.rng = [i \in 1 .. Arity(b) |-> n.rng[i]] /\ n.frame = [i \in 1 .. Arity(b) |-> n.frame[i]]
          /\ n.temporal = [i \in 1 .. Arity(b) |-> n.temporal[i]] /\ n.step = [i \in 1 .. Arity(b) |-> n.step[i]]
          /\ n.encoder = [i \in 1 .. Arity(b) |-> n.encoder[i]]
          /\ n.previous = [i \in 1 .. Arity(b) |-> n.previous[i]]
          /\ n.countdown = [i \in 1 .. Arity(b) |-> n.countdown[i]]
      <4>1. /\ n.rng = [i \in 1 .. Arity(b) |-> [seed |-> IF b = "jax" THEN i ELSE 41 + i, path |-> <<>>]]
            /\ n.frame = [i \in 1 .. Arity(b) |-> Sos(d)] /\ n.step = [i \in 1 .. Arity(b) |-> 0]
            /\ n.temporal = [i \in 1 .. Arity(b) |-> FreshStack(d.temporal)]
            /\ n.encoder = [i \in 1 .. Arity(b) |-> FreshStack(d.encoder)]
            /\ n.previous = [i \in 1 .. Arity(b) |-> Sos(d)] /\ n.countdown = [i \in 1 .. Arity(b) |-> 0]
        BY BeginningIs DEF BeginsAs
      <4> HIDE DEF n
      <4> QED BY <4>1
    <3> HIDE DEF n
    <3> QED BY <3>1 DEF Names
  <2> HIDE DEF n
  <2> QED BY <2>1, <2>2 DEF WholeState, n
<1>3. CASE b = "mlx"
  <2>1. Began(b, d) = SamplerState(d, 1, <<>>)
    BY <1>3 DEF Began
  <2>2. 1 * 1 = 1
    OBVIOUS
  <2> QED BY <1>1, <1>2, <1>3, <2>1, <2>2 DEF SamplerState, InLanes, Beginning, Arity, Parted
<1>4. CASE b = "jax"
  <2>1. Began(b, d) = JaxSamplerState(d, 1, <<>>)
    BY <1>4 DEF Began
  <2>2. 1 * 1 = 1 /\ 1 \div 1 = 1
    OBVIOUS
  <2> QED BY <1>1, <1>2, <1>4, <2>1, <2>2 DEF JaxSamplerState, JaxInLanes, Beginning, Arity, Parted, JaxSos
<1>5. CASE b = "mlxfn"
  <2> DEFINE g == [musiccoca |-> <<30>>, notes |-> <<10>>]
  <2>1. Began(b, d) = FlattenState(SamplerState(d, 1, g))
    BY <1>5 DEF Began
  <2>2. Cardinality(DOMAIN g) + 1 = 3
    <3>1. DOMAIN g = {"musiccoca", "notes"}
      OBVIOUS
    <3> QED BY <3>1, GuidanceNumber
  <2> HIDE DEF g
  <2>3. 1 * 3 = 3 /\ 3 # 1
    OBVIOUS
  <2>4. SamplerState(d, 1, g) = SplitState(Beginning(b, d), 3)
    BY <1>5, <2>2, <2>3 DEF SamplerState, InLanes, Beginning, Arity
  <2> QED BY <1>2, <1>5, <2>1, <2>4 DEF Parted
<1> QED BY <1>2, <1>3, <1>4, <1>5 DEF Backends

LEMMA StridedIs ==
  ASSUME NEW a \in {1, 3}, NEW s, s = [i \in 1 .. a |-> s[i]]
  PROVE  Strided(s, a)[1] = s[1]
<1> DEFINE S == {s[i] : i \in 1 .. a}
<1>1. s \in [1 .. a -> S]
  OBVIOUS
<1> HIDE DEF S
<1>2. Len(s) = a
  BY <1>1, SequenceIs
<1>3. (a + a - 1) \div a = 1
  <2>1. CASE a = 1
    BY <2>1
  <2>2. CASE a = 3
    BY <2>2
  <2> QED BY <2>1, <2>2
<1>4. Strided(s, a) = [i \in 1 .. 1 |-> s[(i - 1) * a + 1]]
  BY <1>2, <1>3 DEF Strided
<1>5. (1 - 1) * a + 1 = 1 /\ 1 \in 1 .. 1
  BY SMT
<1> QED BY <1>4, <1>5

LEMMA EmittedIs ==
  ASSUME NEW b \in Backends, NEW n, WholeState(n, Arity(b))
  PROVE  LET r == IF b = "jax" THEN JaxEmit(1, n) ELSE Emit(Arity(b), n)
         IN /\ r.out[1] = n.frame[1]
            /\ r.st = IF b = "mlxfn" THEN SplitState(n, 3) ELSE n
<1>1. n.frame = [i \in 1 .. Arity(b) |-> n.frame[i]] /\ DOMAIN n = Names
  BY DEF WholeState, Names
<1>2. Strided(n.frame, Arity(b))[1] = n.frame[1]
  <2>1. Arity(b) \in {1, 3}
    BY ArityIs
  <2> DEFINE s == n.frame  a == Arity(b)
  <2> HIDE DEF s, a
  <2>2. a \in {1, 3} /\ s = [i \in 1 .. a |-> s[i]]
    BY <1>1, <2>1 DEF a, s
  <2>3. Strided(s, a)[1] = s[1]
    BY <2>2, StridedIs
  <2> QED BY <2>3 DEF a, s
<1>3. n # Invalid
  <2>1. DOMAIN Invalid = {"invalid"} /\ Names # {"invalid"}
    BY DEF Invalid, Names
  <2> QED BY <1>1, <2>1
<1>4. CASE b = "mlxfn"
  <2>1. SplitState(n, 3) # Invalid
    BY <1>4, SplitThree DEF Arity
  <2> QED BY <1>2, <1>4, <2>1 DEF Emit, Emitted, InLanes, Arity
<1>5. CASE b # "mlxfn"
  BY <1>2, <1>3, <1>5 DEF Emit, JaxEmit, Emitted, InLanes, JaxInLanes, Arity
<1> QED BY <1>4, <1>5

LEMMA SteppedIs ==
  ASSUME NEW b \in Backends, NEW d, NEW st, NEW r,
         WholeState(Next0(b, d, Merged(b, st), Conditioned(b, r)), Arity(b))
  PROVE  LET n == Next0(b, d, Merged(b, st), Conditioned(b, r))
         IN /\ Stepped(b, d, st, r).out[1] = n.frame[1]
            /\ Stepped(b, d, st, r).st = Parted(b, n)
<1> DEFINE c == Conditioned(b, r)  n == Next0(b, d, Merged(b, st), c)  rows == RowsFor(b, c)
<1>1. Given(b, c)
  BY ConditioningIs
<1>2. WholeState(n, Arity(b))
  OBVIOUS
<1>3. rows # NoBatch
  <2>1. rows = [i \in 1 .. Arity(b) |-> rows[i]] /\ Arity(b) \in {1, 3}
    BY <1>1, ArityIs DEF Given
  <2> HIDE DEF rows
  <2>2. DOMAIN rows = 1 .. Arity(b) /\ 1 \in 1 .. Arity(b)
    BY <2>1
  <2>3. DOMAIN NoBatch = {}
    BY DEF NoBatch
  <2> QED BY <2>2, <2>3
<1>4. Cardinality(DOMAIN c.k.scales) + 1 = Arity(b) /\ (DOMAIN c.k.scales = {} <=> b # "mlxfn")
  BY <1>1, ArityIs DEF Given
<1>5. CASE b = "mlx"
  <2>1. Stepped(b, d, st, r) = SamplerStep(d, st, c.x, c.k, c.negatives, <<>>)
    BY <1>5 DEF Stepped, Conditioned
  <2>2. Arity(b) = 1 /\ Merged(b, st) = st /\ Parted(b, n) = n
    BY <1>5 DEF Arity, Merged, Parted
  <2>3. ConstantsFor(b, c) = c.k
    BY <1>1, <1>5 DEF Given
  <2>4. n = StepEncoded(d, st, EncoderStep(d, st, [i \in DOMAIN rows |-> Encoded(d, rows[i])]), c.k, <<>>)
    BY <1>5, <2>2, <2>3 DEF Next0, EncodedBy
  <2>5. rows = LaneInputs(c.x, c.negatives, c.k.scales)
    BY <1>5 DEF RowsFor
  <2> HIDE DEF c, rows, n
  <2>6. Stepped(b, d, st, r) = Emit(1, n)
    BY <1>3, <1>4, <2>1, <2>2, <2>4, <2>5 DEF SamplerStep, StepRows
  <2>7. Emit(1, n).out[1] = n.frame[1] /\ Emit(1, n).st = n
    BY <1>2, <1>5, <2>2, EmittedIs
  <2> QED BY <2>2, <2>6, <2>7 DEF n, c
<1>6. CASE b = "jax"
  <2>1. Stepped(b, d, st, r) = JaxSamplerStep(d, st, c.x, c.k, c.negatives)
    BY <1>6 DEF Stepped, Conditioned
  <2>2. Arity(b) = 1 /\ Merged(b, st) = st /\ Parted(b, n) = n /\ ConstantsFor(b, c) = LaneConstants(c.k, 1)
    BY <1>6 DEF Arity, Merged, Parted, ConstantsFor
  <2>4. n = JaxStepEncoded(d, st, EncoderStep(d, st, [i \in DOMAIN rows |-> JaxEncoded(d, rows[i])]),
                           LaneConstants(c.k, 1))
    BY <1>6, <2>2 DEF Next0, EncodedBy
  <2>5. rows = JaxLaneInputs(c.x, c.negatives, c.k.scales)
    BY <1>6 DEF RowsFor
  <2> HIDE DEF c, rows, n
  <2>6. Stepped(b, d, st, r) = JaxEmit(1, n)
    BY <1>3, <1>4, <1>6, <2>1, <2>2, <2>4, <2>5 DEF JaxSamplerStep, JaxStepRows
  <2>7. JaxEmit(1, n).out[1] = n.frame[1] /\ JaxEmit(1, n).st = n
    BY <1>2, <1>6, <2>2, EmittedIs
  <2> QED BY <2>2, <2>6, <2>7 DEF n, c
<1>7. CASE b = "mlxfn"
  <2> DEFINE u == UnflattenState(st)  m == MergeState(u)
  <2>1. Stepped(b, d, st, r) = Flat(SamplerStep(d, u, c.x, c.k, c.negatives, <<>>))
    BY <1>7 DEF Stepped, Conditioned
  <2>2. Arity(b) = 3 /\ Merged(b, st) = m /\ Parted(b, n) = FlattenState(SplitState(n, 3))
        /\ ConstantsFor(b, c) = LaneConstants(c.k, 3)
    BY <1>7 DEF Arity, Merged, Parted, ConstantsFor
  <2>4. n = StepEncoded(d, m, EncoderStep(d, m, [i \in DOMAIN rows |-> Encoded(d, rows[i])]),
                        LaneConstants(c.k, 3), <<>>)
    BY <1>7, <2>2 DEF Next0, EncodedBy
  <2>5. rows = LaneInputs(c.x, c.negatives, c.k.scales)
    BY <1>7 DEF RowsFor
  <2> HIDE DEF c, rows, n, u
  <2>6. SamplerStep(d, u, c.x, c.k, c.negatives, <<>>) = Emit(3, n)
    BY <1>3, <1>4, <2>2, <2>4, <2>5 DEF SamplerStep, StepRows
  <2>7. Emit(3, n).out[1] = n.frame[1] /\ Emit(3, n).st = SplitState(n, 3)
    BY <1>2, <1>7, <2>2, EmittedIs
  <2>8. Stepped(b, d, st, r).out[1] = n.frame[1] /\ Stepped(b, d, st, r).st = Parted(b, n)
    BY <2>1, <2>2, <2>6, <2>7 DEF Flat
  <2> QED BY <2>8 DEF n, c
<1> QED BY <1>5, <1>6, <1>7 DEF Backends

--------------------------------------------------------------------------------
(* The levels of a frame, one after the other.                             *)

LevelSample(b, d, k, scales, rows, keys, q) ==
  IF b = "jax"
  THEN JaxSampleCategorical(rows, k, keys, scales, Cardinality(DOMAIN k.scales),
                            ValidFrom(d, q), ValidFrom(d, q) + d.size)
  ELSE SampleCategorical(rows, k, keys, scales, Cardinality(DOMAIN k.scales),
                         ValidFrom(d, q), ValidFrom(d, q) + d.size)
NextKeys(b, st, keys) ==
  IF b = "jax" THEN [i \in DOMAIN keys |-> FoldIn(keys[i], st.step[i])]
  ELSE [i \in DOMAIN keys |-> SplitKey(keys[i], st.step[i])]
LevelLogits(d, r) == Listed([i \in DOMAIN r |-> Logits(d, r[i].out)])
NextLevel(b, d, k, scales, st, acc, q) ==
  LevelDone(acc, DepthRows(d, acc), LevelSample(b, d, k, scales, LevelLogits(d, DepthRows(d, acc)), acc.rng, q),
            NextKeys(b, st, acc.rng))
LoopTo(f, b, d, k, scales, st, temporal, n) ==
  f = [q \in 0 .. n |->
         IF q = 0 THEN DepthStart(d, temporal, st.rng) ELSE NextLevel(b, d, k, scales, st, f[q - 1], q)]
\* The loops as the two files have them.
MlxLoopTo(f, d, k, scales, st, temporal, n) ==
  f = [q \in 0 .. n |->
         IF q = 0 THEN DepthStart(d, temporal, st.rng)
         ELSE LevelDone(f[q - 1], DepthRows(d, f[q - 1]),
                        SampleCategorical(Listed([i \in DOMAIN DepthRows(d, f[q - 1]) |->
                                                    Logits(d, DepthRows(d, f[q - 1])[i].out)]),
                                          k, f[q - 1].rng, scales, Cardinality(DOMAIN k.scales),
                                          ValidFrom(d, q), ValidFrom(d, q) + d.size),
                        [i \in DOMAIN f[q - 1].rng |-> SplitKey(f[q - 1].rng[i], st.step[i])])]
JaxLoopTo(f, d, k, scales, st, temporal, n) ==
  f = [q \in 0 .. n |->
         IF q = 0 THEN DepthStart(d, temporal, st.rng)
         ELSE LevelDone(f[q - 1], DepthRows(d, f[q - 1]),
                        JaxSampleCategorical(Listed([i \in DOMAIN DepthRows(d, f[q - 1]) |->
                                                       Logits(d, DepthRows(d, f[q - 1])[i].out)]),
                                             k, f[q - 1].rng, scales, Cardinality(DOMAIN k.scales),
                                             ValidFrom(d, q), ValidFrom(d, q) + d.size),
                        [i \in DOMAIN f[q - 1].rng |-> FoldIn(f[q - 1].rng[i], st.step[i])])]
FrameBy(b, d, st, temporal, k, scales) ==
  IF b = "jax" THEN JaxFrameSampled(d, st, temporal, k, scales) ELSE FrameSampled(d, st, temporal, k, scales)

LEMMA LoopExists ==
  ASSUME NEW b, NEW d, NEW k, NEW scales, NEW st, NEW temporal, NEW N \in Nat
  PROVE  \E f : LoopTo(f, b, d, k, scales, st, temporal, N)
<1> DEFINE T == {n \in 0 .. N : \E f : LoopTo(f, b, d, k, scales, st, temporal, n)}
           start == DepthStart(d, temporal, st.rng)
           More(i, acc) == NextLevel(b, d, k, scales, st, acc, i)
<1>0. ASSUME NEW f, NEW n
      PROVE  LoopTo(f, b, d, k, scales, st, temporal, n)
             <=> f = [i \in 0 .. n |-> IF i = 0 THEN start ELSE More(i, f[i - 1])]
  BY DEF LoopTo
<1> HIDE DEF start, More
<1>1. 0 \in T
  <2> DEFINE h == [i \in 0 .. 0 |-> start]
  <2>1. h = [i \in 0 .. 0 |-> IF i = 0 THEN start ELSE More(i, h[i - 1])]
    OBVIOUS
  <2> HIDE DEF h
  <2>2. LoopTo(h, b, d, k, scales, st, temporal, 0)
    BY <1>0, <2>1
  <2>3. 0 \in 0 .. N
    OBVIOUS
  <2> QED BY <2>2, <2>3
<1>2. ASSUME NEW n \in 0 .. N - 1, n \in T PROVE n + 1 \in T
  <2>1. PICK f : f = [i \in 0 .. n |-> IF i = 0 THEN start ELSE More(i, f[i - 1])]
    BY <1>0, <1>2
  <2> HIDE DEF T
  <2> DEFINE g == [i \in 0 .. n + 1 |-> IF i <= n THEN f[i] ELSE More(i, f[n])]
  <2>2. ASSUME NEW i \in 0 .. n + 1
        PROVE  g[i] = IF i = 0 THEN start ELSE More(i, g[i - 1])
    <3>1. CASE i = 0
      BY <2>1, <3>1
    <3>2. CASE i # 0 /\ i <= n
      <4>1. g[i] = f[i] /\ g[i - 1] = f[i - 1] /\ i \in 0 .. n
        BY <3>2
      <4>2. f[i] = More(i, f[i - 1])
        BY <2>1, <3>2, <4>1
      <4> HIDE DEF g
      <4> QED BY <3>2, <4>1, <4>2
    <3>3. CASE i = n + 1
      <4>1. ~(i <= n) /\ i - 1 = n /\ i # 0
        BY <3>3
      <4>2. g[i] = More(i, f[n]) /\ g[i - 1] = f[n]
        BY <4>1
      <4> HIDE DEF g
      <4> QED BY <4>1, <4>2
    <3> QED BY <3>1, <3>2, <3>3
  <2>3. g = [i \in 0 .. n + 1 |-> IF i = 0 THEN start ELSE More(i, g[i - 1])]
    BY <2>2
  <2> HIDE DEF g
  <2>4. LoopTo(g, b, d, k, scales, st, temporal, n + 1)
    BY <1>0, <2>3
  <2> QED BY <2>4 DEF T
<1> HIDE DEF T
<1>3. N \in T
  BY <1>1, <1>2, SetInduction
<1> QED BY <1>3 DEF T

LoopMakes(f, b, d, k, scales, st, temporal) ==
  /\ LoopTo(f, b, d, k, scales, st, temporal, ActiveLevelsOf(d))
  /\ FrameBy(b, d, st, temporal, k, scales)
     = AfterLevels(st, temporal, f[ActiveLevelsOf(d)], Padding(d, ActiveLevelsOf(d), Len(temporal)))

LEMMA FrameIsLoop ==
  ASSUME NEW b \in Backends, NEW d, Fits(d), b = "jax" => ActiveLevelsOf(d) = d.levels,
         NEW k, NEW scales, NEW st, NEW temporal
  PROVE  \E f : LoopMakes(f, b, d, k, scales, st, temporal)
<1> DEFINE L == ActiveLevelsOf(d)
<1>1. L \in Nat
  <2>1. L \in 1 .. d.levels /\ d.levels \in Nat
    BY LevelsAre DEF Fits
  <2> QED BY <2>1
<1>2. CASE b = "jax"
  <2> DEFINE g == CHOOSE f : JaxLoopTo(f, d, k, scales, st, temporal, L)
  <2>0. L = d.levels
    BY <1>2
  <2>1. JaxFrameSampled(d, st, temporal, k, scales)
        = AfterLevels(st, temporal, (CHOOSE f : JaxLoopTo(f, d, k, scales, st, temporal, d.levels))[d.levels], <<>>)
    BY DEF JaxFrameSampled, DepthLoop, LevelSampled, JaxLoopTo
  <2>2. \A f : JaxLoopTo(f, d, k, scales, st, temporal, L) <=> LoopTo(f, b, d, k, scales, st, temporal, L)
    BY <1>2 DEF LoopTo, JaxLoopTo, NextLevel, LevelSample, NextKeys, LevelLogits
  <2>3. \E f : LoopTo(f, b, d, k, scales, st, temporal, L)
    <3> HIDE DEF L
    <3> QED BY <1>1, LoopExists
  <2>4. LoopTo(g, b, d, k, scales, st, temporal, L)
    BY <2>2, <2>3
  <2>5. Padding(d, L, Len(temporal)) = <<>>
    <3>1. d.levels - L = 0
      BY <1>1, <2>0
    <3> QED BY <3>1 DEF Padding
  <2>6. FrameBy(b, d, st, temporal, k, scales) = AfterLevels(st, temporal, g[L], Padding(d, L, Len(temporal)))
    BY <1>2, <2>0, <2>1, <2>5 DEF FrameBy
  <2> HIDE DEF g
  <2> QED BY <2>4, <2>6 DEF LoopMakes
<1>3. CASE b # "jax"
  <2> DEFINE g == CHOOSE f : MlxLoopTo(f, d, k, scales, st, temporal, L)
  <2>1. FrameSampled(d, st, temporal, k, scales)
        = AfterLevels(st, temporal, g[L], Padding(d, L, Len(temporal)))
    BY DEF FrameSampled, DepthLoop, LevelSampled, MlxLoopTo
  <2>2. \A f : MlxLoopTo(f, d, k, scales, st, temporal, L) <=> LoopTo(f, b, d, k, scales, st, temporal, L)
    BY <1>3 DEF LoopTo, MlxLoopTo, NextLevel, LevelSample, NextKeys, LevelLogits
  <2>3. \E f : LoopTo(f, b, d, k, scales, st, temporal, L)
    <3> HIDE DEF L
    <3> QED BY <1>1, LoopExists
  <2>4. LoopTo(g, b, d, k, scales, st, temporal, L)
    BY <2>2, <2>3
  <2>6. FrameBy(b, d, st, temporal, k, scales) = AfterLevels(st, temporal, g[L], Padding(d, L, Len(temporal)))
    BY <1>3, <2>1 DEF FrameBy
  <2> HIDE DEF g
  <2> QED BY <2>4, <2>6 DEF LoopMakes
<1> QED BY <1>2, <1>3

\* The scales of the lanes: some where there is guidance, none elsewhere.
LEMMA ScalesAre ==
  ASSUME NEW b \in Backends, NEW s, DOMAIN s = Guidance(b)
  PROVE  LaneScales(s, Arity(b)) = NoGuidance <=> Arity(b) = 1
<1>1. Cardinality(DOMAIN s) + 1 = Arity(b)
  BY ArityIs
<1>2. CASE Arity(b) = 1
  BY <1>1, <1>2 DEF LaneScales, OnLanes
<1>3. CASE Arity(b) = 3
  <2> DEFINE Batch(v) == IF Len(v) = 3 THEN Strided(v, 3) ELSE RepeatRows(v, 3 \div 3)
             z == [i \in 1 .. 3 \div 3 |-> 0]
             t == [j \in 1 .. 2 |-> Batch(Sorted(s)[j])]  ss == <<z>> \o t
  <2>1. LaneScales(s, 3) = InterleaveSequences(ss)
    <3>1. 3 - 1 = 2 /\ 3 # 1
      OBVIOUS
    <3> QED BY <1>1, <1>3, <3>1 DEF LaneScales, OnLanes
  <2>2. DOMAIN z = 1 .. 1
    <3>1. 3 \div 3 = 1
      OBVIOUS
    <3> QED BY <3>1
  <2>t. t = [j \in 1 .. 2 |-> t[j]]
    OBVIOUS
  <2> HIDE DEF z, t
  <2>3. ss = [j \in 1 .. 3 |-> IF j = 1 THEN z ELSE t[j - 1]]
    BY <2>t, BeforeTwo
  <2> HIDE DEF ss
  <2>4. ss = [j \in 1 .. 3 |-> ss[j]] /\ ss[1] = z
    BY <2>3
  <2>5. InterleaveSequences(ss) = [j \in 1 .. 3 |-> ss[j][1]]
    <3>1. 3 \in Nat \ {0} /\ DOMAIN ss[1] = 1 .. 1
      BY <2>2, <2>4
    <3> QED BY <2>4, <3>1, InterleaveOne
  <2>6. DOMAIN InterleaveSequences(ss) # DOMAIN NoGuidance
    <3>1. DOMAIN InterleaveSequences(ss) = 1 .. 3 /\ 1 \in 1 .. 3
      BY <2>5
    <3>2. DOMAIN NoGuidance = {}
      BY DEF NoGuidance
    <3> QED BY <3>1, <3>2
  <2> QED BY <1>3, <2>1, <2>6
<1> QED BY <1>2, <1>3, ArityIs

\* All the lanes get the token of the first.
Shared(b, tokens) == \E v : tokens = [i \in 1 .. Arity(b) |-> v]

LEMMA SampleIsShared ==
  ASSUME NEW b \in Backends, NEW d, NEW k, k.topp = <<>>, DOMAIN k.scales = Guidance(b),
         NEW rows, rows = [i \in 1 .. Arity(b) |-> rows[i]], NEW keys, NEW q
  PROVE  Shared(b, LevelSample(b, d, k, LaneScales(k.scales, Arity(b)), rows, keys, q))
<1> DEFINE a == Arity(b)  scales == LaneScales(k.scales, a)  g == Cardinality(DOMAIN k.scales)
           low == ValidFrom(d, q)  high == ValidFrom(d, q) + d.size
           Own(e) == SampledFrom(rows, k, scales, a, e, low, high, keys[1], e)
           JaxOwn(e) == SampledFrom(rows, k, scales, a, e, low, high,
                                    IF Len(Strided(keys, a)) = 1 THEN Strided(keys, a)[1] ELSE Strided(keys, a)[e],
                                    IF Len(Strided(keys, a)) = 1 THEN e ELSE 1)
<1>1. a \in {1, 3} /\ g + 1 = a
  BY ArityIs
<1>2. Len(rows) = a
  <2> HIDE DEF a
  <2> DEFINE S == {rows[i] : i \in 1 .. a}
  <2>1. rows \in [1 .. a -> S]
    BY DEF a
  <2> HIDE DEF S
  <2>2. a \in Nat
    BY <1>1
  <2> HIDE DEF a
  <2> QED BY <2>1, <2>2, SequenceIs
<1>3. ArityOf(scales, g) = a
  <2>1. scales = NoGuidance <=> a = 1
    BY ScalesAre
  <2> HIDE DEF scales, a, g
  <2> QED BY <1>1, <2>1 DEF ArityOf
<1>4. Samplable(rows, k, a) /\ Len(rows) \div a = 1
  <2>1. CASE a = 1
    BY <1>2, <2>1 DEF Samplable
  <2>2. CASE a = 3
    BY <1>2, <2>2 DEF Samplable
  <2> QED BY <1>1, <2>1, <2>2
<1>5. \A v : Listed([e \in 1 .. 1 |-> v]) = <<v>>
  <2> SUFFICES ASSUME NEW v PROVE Listed([e \in 1 .. 1 |-> v]) = <<v>>
    OBVIOUS
  <2> DEFINE s == <<v>>
  <2>1. [e \in 1 .. 1 |-> v] = s /\ s = [i \in 1 .. 1 |-> s[i]]
    OBVIOUS
  <2> HIDE DEF s
  <2> QED BY <2>1, ListedIs DEF s
<1>6. SampleCategorical(rows, k, keys, scales, g, low, high) = RepeatRows(Listed([e \in 1 .. 1 |-> Own(e)]), a)
  <2> HIDE DEF scales, a, g, low, high
  <2> QED BY <1>3, <1>4 DEF SampleCategorical, Sampled
<1>7. JaxSampleCategorical(rows, k, keys, scales, g, low, high) = RepeatRows(Listed([e \in 1 .. 1 |-> JaxOwn(e)]), a)
  <2> HIDE DEF scales, a, g, low, high
  <2> QED BY <1>3, <1>4 DEF JaxSampleCategorical, JaxSampled
<1>8. /\ LevelSample(b, d, k, scales, rows, keys, q) = RepeatRows(Listed([e \in 1 .. 1 |-> Own(e)]), a)
      \/ LevelSample(b, d, k, scales, rows, keys, q) = RepeatRows(Listed([e \in 1 .. 1 |-> JaxOwn(e)]), a)
  <2> HIDE DEF scales, a
  <2> QED BY <1>6, <1>7 DEF LevelSample
<1> HIDE DEF Own, JaxOwn, a
<1>9. [e \in 1 .. 1 |-> Own(e)] = [e \in 1 .. 1 |-> Own(1)] /\ [e \in 1 .. 1 |-> JaxOwn(e)] = [e \in 1 .. 1 |-> JaxOwn(1)]
  <2>1. \A e \in 1 .. 1 : e = 1
    OBVIOUS
  <2> QED BY <2>1
<1>10. \A v : RepeatRows(Listed([e \in 1 .. 1 |-> v]), a) = [i \in 1 .. a |-> v]
  <2> SUFFICES ASSUME NEW v PROVE RepeatRows(Listed([e \in 1 .. 1 |-> v]), a) = [i \in 1 .. a |-> v]
    OBVIOUS
  <2>1. Listed([e \in 1 .. 1 |-> v]) = <<v>>
    BY <1>5
  <2> QED BY <2>1, RepeatOne
<1>11. \E v : LevelSample(b, d, k, scales, rows, keys, q) = [i \in 1 .. a |-> v]
  <2> HIDE DEF scales
  <2>1. RepeatRows(Listed([e \in 1 .. 1 |-> Own(e)]), a) = [i \in 1 .. a |-> Own(1)]
    BY <1>9, <1>10
  <2>2. RepeatRows(Listed([e \in 1 .. 1 |-> JaxOwn(e)]), a) = [i \in 1 .. a |-> JaxOwn(1)]
    BY <1>9, <1>10
  <2> QED BY <1>8, <2>1, <2>2
<1> QED BY <1>11 DEF a, Shared

--------------------------------------------------------------------------------
(* Keys.                                                                   *)

\* A key m steps down, and the one q steps further.
Row(p, m) == p = [j \in 1 .. m |-> p[j]]
Repeated(q, x) == [j \in 1 .. q |-> x]
KeyIs(key, m) == key = [seed |-> key.seed, path |-> key.path] /\ Row(key.path, m)
KeyAfter(key, q, x) == [key EXCEPT !.path = @ \o Repeated(q, x)]

LEMMA PathIs ==
  ASSUME NEW m \in Nat, NEW q \in Nat, NEW p, Row(p, m), NEW x
  PROVE  p \o Repeated(q, x) = [j \in 1 .. m + q |-> IF j <= m THEN p[j] ELSE x]
<1> DEFINE e == Repeated(q, x)
<1>1. e = [j \in 1 .. q |-> e[j]] /\ \A j \in 1 .. q : e[j] = x
  BY DEF Repeated
<1>2. p = [j \in 1 .. m |-> p[j]]
  BY DEF Row
<1> HIDE DEF e
<1>3. p \o e = [j \in 1 .. m + q |-> IF j <= m THEN p[j] ELSE e[j - m]]
  BY <1>1, <1>2, ConcatIs
<1>4. \A j \in 1 .. m + q : ~(j <= m) => e[j - m] = x
  <2>1. \A j \in 1 .. m + q : ~(j <= m) => j - m \in 1 .. q
    OBVIOUS
  <2> QED BY <1>1, <2>1
<1>5. [j \in 1 .. m + q |-> IF j <= m THEN p[j] ELSE e[j - m]] = [j \in 1 .. m + q |-> IF j <= m THEN p[j] ELSE x]
  BY <1>4
<1> QED BY <1>3, <1>5 DEF e

LEMMA PathNone ==
  ASSUME NEW m \in Nat, NEW p, Row(p, m), NEW x
  PROVE  p \o Repeated(0, x) = p
<1>1. p \o Repeated(0, x) = [j \in 1 .. m + 0 |-> IF j <= m THEN p[j] ELSE x]
  <2>1. 0 \in Nat
    OBVIOUS
  <2> QED BY <2>1, PathIs
<1>2. m + 0 = m /\ \A j \in 1 .. m : j <= m
  OBVIOUS
<1>3. p \o Repeated(0, x) = [j \in 1 .. m |-> p[j]]
  BY <1>1, <1>2
<1> QED BY <1>3 DEF Row

OneMore(p, q, x) == Append(p \o Repeated(q, x), x) = p \o Repeated(q + 1, x)

LEMMA PathMore ==
  ASSUME NEW m \in Nat, NEW q \in Nat, NEW p, Row(p, m), NEW x
  PROVE  Row(p \o Repeated(q, x), m + q) /\ OneMore(p, q, x)
<1> DEFINE s == p \o Repeated(q, x)  n == q + 1  t == p \o Repeated(n, x)
<1>0. n \in Nat
  OBVIOUS
<1>1. n = q + 1
  OBVIOUS
<1>2. s = [j \in 1 .. m + q |-> IF j <= m THEN p[j] ELSE x]
  BY PathIs
<1> HIDE DEF n
<1>3. t = [j \in 1 .. m + n |-> IF j <= m THEN p[j] ELSE x]
  BY <1>0, PathIs
<1> HIDE DEF s, t
<1>4. s = [j \in 1 .. m + q |-> s[j]] /\ m + q \in Nat
  BY <1>2
<1>5. Append(s, x) = [i \in 1 .. m + q + 1 |-> IF i <= m + q THEN s[i] ELSE x]
  BY <1>4, AppendIs
<1>6. ASSUME NEW i \in 1 .. m + q + 1
      PROVE  (IF i <= m + q THEN s[i] ELSE x) = IF i <= m THEN p[i] ELSE x
  <2>1. CASE i <= m + q
    <3>1. i \in 1 .. m + q
      BY <2>1
    <3> QED BY <1>2, <2>1, <3>1
  <2>2. CASE ~(i <= m + q)
    BY <2>2
  <2> QED BY <2>1, <2>2
<1>7. m + n = m + q + 1
  BY <1>1
<1>8. Append(s, x) = t
  BY <1>3, <1>5, <1>6, <1>7
<1>9. Row(s, m + q)
  BY <1>4 DEF Row
<1> QED BY <1>8, <1>9 DEF s, t, n, OneMore

GoesDown(key, m, q, x) ==
  /\ KeyIs(KeyAfter(key, q, x), m + q) /\ KeyAfter(key, q, x).seed = key.seed
  /\ KeyAfter(key, q, x).path = key.path \o Repeated(q, x)

LEMMA KeyGrows ==
  ASSUME NEW m \in Nat, NEW q \in Nat, NEW key, KeyIs(key, m), NEW x
  PROVE  /\ GoesDown(key, m, q, x)
         /\ KeyAfter(key, 0, x) = key
         /\ FoldIn(KeyAfter(key, q, x), x) = KeyAfter(key, q + 1, x)
         /\ x = 0 => \A y : SplitKey(KeyAfter(key, q, x), y) = KeyAfter(key, q + 1, x)
<1> DEFINE p == key.path  s == p \o Repeated(q, x)  t == p \o Repeated(q + 1, x)  z == p \o Repeated(0, x)
<1>0. key = [seed |-> key.seed, path |-> p] /\ Row(p, m)
  BY DEF KeyIs
<1> HIDE DEF p
<1>1. Row(s, m + q)
  BY <1>0, PathMore
<1>a. Append(s, x) = t
  <2>1. OneMore(p, q, x)
    BY <1>0, PathMore, Zenon
  <2> QED BY <2>1 DEF OneMore
<1>2. z = p
  BY <1>0, PathNone
<1>3. /\ KeyAfter(key, q, x) = [seed |-> key.seed, path |-> s]
      /\ KeyAfter(key, q + 1, x) = [seed |-> key.seed, path |-> t]
      /\ KeyAfter(key, 0, x) = [seed |-> key.seed, path |-> z]
  <2>1. \A u : [[seed |-> key.seed, path |-> p] EXCEPT !.path = @ \o u] = [seed |-> key.seed, path |-> p \o u]
    OBVIOUS
  <2> QED BY <1>0, <2>1 DEF KeyAfter
<1> HIDE DEF s, t, z
<1>4. /\ FoldIn(KeyAfter(key, q, x), x) = [seed |-> key.seed, path |-> Append(s, x)]
      /\ \A y : SplitKey(KeyAfter(key, q, x), y) = [seed |-> key.seed, path |-> Append(s, 0)]
  <2> DEFINE w == [seed |-> key.seed, path |-> s]
  <2>1. \A u : [w EXCEPT !.path = Append(@, u)] = [seed |-> key.seed, path |-> Append(s, u)]
    OBVIOUS
  <2>2. KeyAfter(key, q, x) = w
    BY <1>3
  <2> HIDE DEF w
  <2> QED BY <2>1, <2>2 DEF FoldIn, SplitKey
<1>5. KeyIs(KeyAfter(key, q, x), m + q) /\ KeyAfter(key, q, x).seed = key.seed /\ KeyAfter(key, q, x).path = s
  BY <1>1, <1>3 DEF KeyIs
<1> QED BY <1>0, <1>a, <1>2, <1>3, <1>4, <1>5 DEF s, p, GoesDown

--------------------------------------------------------------------------------
(* The bodies, step by step and over the whole history.                    *)

LEMMA NoSource ==
  ASSUME NEW layers, Easy(layers, FALSE), NEW xs, NEW a, NEW c
  PROVE  WholeStack(layers, xs, a) = WholeStack(layers, xs, c)
<1> DEFINE n == Len(layers)  w == WholeOf(layers, xs, a)  z == WholeOf(layers, xs, c)
           T == {i \in 0 .. n : w[i] = z[i]}
<1>1. n \in Nat /\ \A i \in 1 .. n : layers[i].kind # "cross"
  BY DEF Easy, EasyLayer
<1>2. /\ WholeStack(layers, xs, a) = w[n] /\ w[0] = xs
      /\ \A i \in 1 .. n : w[i] = WholeLayer(layers[i], w[i - 1], a)
  BY <1>1, WholeOfIs
<1>3. /\ WholeStack(layers, xs, c) = z[n] /\ z[0] = xs
      /\ \A i \in 1 .. n : z[i] = WholeLayer(layers[i], z[i - 1], c)
  BY <1>1, WholeOfIs
<1> HIDE DEF n, w, z
<1>4. 0 \in T
  BY <1>1, <1>2, <1>3
<1>5. ASSUME NEW i \in 0 .. n - 1, i \in T PROVE i + 1 \in T
  <2> DEFINE m == i + 1
  <2>1. m \in 1 .. n /\ m \in 0 .. n /\ m - 1 = i
    BY <1>1
  <2> HIDE DEF m
  <2>2. w[m] = WholeLayer(layers[m], w[i], a) /\ z[m] = WholeLayer(layers[m], z[i], c) /\ w[i] = z[i]
    BY <1>2, <1>3, <1>5, <2>1
  <2>3. w[m] = z[m]
    BY <1>1, <2>1, <2>2 DEF WholeLayer
  <2> QED BY <2>1, <2>3 DEF m
<1> HIDE DEF T
<1>6. \A i \in 0 .. n : i \in T
  BY <1>1, <1>4, <1>5, SetInduction
<1>7. w[n] = z[n]
  BY <1>1, <1>6 DEF T
<1> QED BY <1>2, <1>3, <1>7

StackMoves(N, layers, xs, src, t) ==
  LET r == StepStack(layers, StatesAt(N, layers, xs, src, 0, t - 1), xs[t], src[t])
  IN r.s = StatesAt(N, layers, xs, src, 0, t) /\ r.out = WholeStack(layers, xs, src)[t]

LEMMA PlainStack ==
  ASSUME NEW N \in Nat, NEW layers, NEW cross, Easy(layers, cross), NEW xs, Frames(N, xs),
         NEW src, Frames(N, src)
  PROVE  /\ FreshStack(layers) = StatesAt(N, layers, xs, src, 0, 0)
         /\ Frames(N, WholeStack(layers, xs, src))
         /\ \A t \in 1 .. N : StackMoves(N, layers, xs, src, t)
<1>1. Stackable(layers, 0) /\ Len(layers) \in Nat /\ \A i \in 0 .. Len(layers) : Lead(layers, 0, i) = 0
  BY EasyIsStackable
<1>2. FreshStack(layers) = StatesAt(N, layers, xs, src, 0, 0)
  BY <1>1, FreshStackIs
<1>3. Frames(N, WholeStack(layers, xs, src))
  <2>1. Len(layers) \in 0 .. Len(layers)
    BY <1>1
  <2>2. WholeStack(layers, xs, src) = WholeOf(layers, xs, src)[Len(layers)]
    BY <1>1, WholeOfIs
  <2> QED BY <1>1, <2>1, <2>2, WholesAreFrames
<1>4. ASSUME NEW t \in 1 .. N
      PROVE  LET r == StepStack(layers, StatesAt(N, layers, xs, src, 0, t - 1), xs[t], src[t])
             IN r.s = StatesAt(N, layers, xs, src, 0, t) /\ r.out = WholeStack(layers, xs, src)[t]
  <2>1. t \in Nat \ {0} /\ t - 0 = t /\ t \in Int
    OBVIOUS
  <2>2. \A v : Late(N, v, 0)[t] = v[t]
    BY <2>1 DEF Late
  <2>3. Lead(layers, 0, Len(layers)) = 0
    BY <1>1
  <2> DEFINE old == StatesAt(N, layers, xs, src, 0, t - 1)  whole == WholeStack(layers, xs, src)
             r == StepStack(layers, old, Late(N, xs, 0)[t], Late(N, src, 0)[t])
  <2>4. r.s = StatesAt(N, layers, xs, src, 0, t) /\ r.out = Late(N, whole, Lead(layers, 0, Len(layers)))[t]
    BY <1>1, <2>1, StackExact
  <2>5. r = StepStack(layers, old, xs[t], src[t])
    BY <2>2
  <2> HIDE DEF r, whole
  <2>6. r.out = whole[t]
    BY <2>2, <2>3, <2>4
  <2> QED BY <2>4, <2>5, <2>6 DEF whole
<1> QED BY <1>2, <1>3, <1>4 DEF StackMoves

--------------------------------------------------------------------------------
(* The loop over the levels.                                               *)

Fold(b, st, i) == IF b = "jax" THEN st.step[i] ELSE 0
KeysAfter(b, st, q) == [i \in 1 .. Arity(b) |-> KeyAfter(st.rng[i], q, Fold(b, st, i))]
\* The keys of a state of which each is m steps down.
KeysAre(b, st, m) ==
  /\ st.rng = [i \in 1 .. Arity(b) |-> st.rng[i]]
  /\ \A i \in 1 .. Arity(b) : KeyIs(st.rng[i], m)

LEMMA KeysMove ==
  ASSUME NEW b \in Backends, NEW m \in Nat, NEW st, KeysAre(b, st, m), NEW q \in Nat
  PROVE  /\ KeysAfter(b, st, 0) = st.rng
         /\ NextKeys(b, st, KeysAfter(b, st, q)) = KeysAfter(b, st, q + 1)
<1> DEFINE a == Arity(b)  keys == KeysAfter(b, st, q)
<1>1. ASSUME NEW i \in 1 .. a
      PROVE  /\ KeyAfter(st.rng[i], 0, Fold(b, st, i)) = st.rng[i]
             /\ b = "jax" => FoldIn(keys[i], st.step[i]) = KeyAfter(st.rng[i], q + 1, Fold(b, st, i))
             /\ b # "jax" => SplitKey(keys[i], st.step[i]) = KeyAfter(st.rng[i], q + 1, Fold(b, st, i))
  <2> DEFINE key == st.rng[i]  x == Fold(b, st, i)
  <2>1. KeyIs(key, m)
    BY DEF KeysAre
  <2>2. keys[i] = KeyAfter(key, q, x)
    BY DEF KeysAfter
  <2>3. (b = "jax" => x = st.step[i]) /\ (b # "jax" => x = 0)
    BY DEF Fold
  <2> HIDE DEF key, x, keys
  <2>4. /\ KeyAfter(key, 0, x) = key
        /\ FoldIn(KeyAfter(key, q, x), x) = KeyAfter(key, q + 1, x)
        /\ x = 0 => \A y : SplitKey(KeyAfter(key, q, x), y) = KeyAfter(key, q + 1, x)
    BY <2>1, KeyGrows
  <2>5. /\ b = "jax" => FoldIn(keys[i], st.step[i]) = KeyAfter(key, q + 1, x)
        /\ b # "jax" => SplitKey(keys[i], st.step[i]) = KeyAfter(key, q + 1, x)
    BY <2>2, <2>3, <2>4
  <2> QED BY <2>4, <2>5 DEF key, x
<1>2. KeysAfter(b, st, 0) = st.rng
  <2>1. KeysAfter(b, st, 0) = [i \in 1 .. a |-> st.rng[i]]
    BY <1>1 DEF KeysAfter
  <2> QED BY <2>1 DEF KeysAre
<1>3. DOMAIN keys = 1 .. a
  BY DEF KeysAfter
<1> HIDE DEF keys
<1>4. NextKeys(b, st, keys) = [i \in 1 .. a |-> KeyAfter(st.rng[i], q + 1, Fold(b, st, i))]
  <2>1. CASE b = "jax"
    BY <1>1, <1>3, <2>1 DEF NextKeys
  <2>2. CASE b # "jax"
    BY <1>1, <1>3, <2>2 DEF NextKeys
  <2> QED BY <2>1, <2>2
<1>5. NextKeys(b, st, keys) = KeysAfter(b, st, q + 1)
  BY <1>4 DEF KeysAfter
<1> QED BY <1>2, <1>5 DEF keys

\* The depth body on lane i, and the token of a level.
Taken(d, acc, i) == StepStack(d.depth, acc.states[i], acc.inputs[i], Absent)
LanesOut(b, d, acc) == [i \in 1 .. Arity(b) |-> Logits(d, Taken(d, acc, i).out)]
TokenOf(b, d, k, acc, q) ==
  LevelSample(b, d, k, LaneScales(k.scales, Arity(b)), LanesOut(b, d, acc), acc.rng, q)
OnEveryLane(b, v) == [i \in 1 .. Arity(b) |-> v]
Sampling(b, k) == k.topp = <<>> /\ DOMAIN k.scales = Guidance(b)

LevelMade(b, d, k, st, acc, new, q) ==
  LET token == TokenOf(b, d, k, acc, q)
  IN /\ token = OnEveryLane(b, token[1])
     /\ new.samples = Append(acc.samples, token)
     /\ new.states = [i \in 1 .. Arity(b) |-> Taken(d, acc, i).s]
     /\ new.inputs = [i \in 1 .. Arity(b) |-> Embed(token[1])]
     /\ new.rng = NextKeys(b, st, acc.rng)

LEMMA LevelIs ==
  ASSUME NEW b \in Backends, NEW d, NEW k, Sampling(b, k), NEW st, NEW acc, NEW q,
         acc.inputs = [i \in 1 .. Arity(b) |-> acc.inputs[i]]
  PROVE  LevelMade(b, d, k, st, acc, NextLevel(b, d, k, LaneScales(k.scales, Arity(b)), st, acc, q), q)
<1> DEFINE a == Arity(b)  scales == LaneScales(k.scales, a)  token == TokenOf(b, d, k, acc, q)
           rows == DepthRows(d, acc)  out == LanesOut(b, d, acc)  took == [i \in 1 .. a |-> Taken(d, acc, i)]
           new == NextLevel(b, d, k, scales, st, acc, q)
<1>0. a \in Nat /\ 1 \in 1 .. a
  BY ArityIs
<1>1. rows = took
  <2>1. DOMAIN acc.inputs = 1 .. a
    OBVIOUS
  <2>2. rows = Listed(took)
    BY <2>1 DEF DepthRows, Taken
  <2>3. took = [i \in 1 .. a |-> took[i]]
    OBVIOUS
  <2> HIDE DEF took, rows, a
  <2> QED BY <1>0, <2>2, <2>3, ListedIs
<1>2. LevelLogits(d, rows) = out
  <2>1. DOMAIN took = 1 .. a /\ \A i \in 1 .. a : took[i] = Taken(d, acc, i)
    OBVIOUS
  <2>2. LevelLogits(d, rows) = Listed([i \in 1 .. a |-> Logits(d, took[i].out)])
    <3> HIDE DEF took, rows, a
    <3> QED BY <1>1, <2>1 DEF LevelLogits
  <2>3. [i \in 1 .. a |-> Logits(d, took[i].out)] = out
    <3> HIDE DEF took
    <3> QED BY <2>1 DEF LanesOut
  <2>4. out = [i \in 1 .. a |-> out[i]]
    BY DEF LanesOut
  <2> HIDE DEF took, rows, a, out
  <2> QED BY <1>0, <2>2, <2>3, <2>4, ListedIs
<1>3. new = LevelDone(acc, took, token, NextKeys(b, st, acc.rng))
  <2>1. TokenOf(b, d, k, acc, q) = LevelSample(b, d, k, LaneScales(k.scales, Arity(b)), out, acc.rng, q)
    BY DEF TokenOf
  <2> HIDE DEF took, out
  <2> QED BY <1>1, <1>2, <2>1 DEF NextLevel
<1>4. \E v : token = [i \in 1 .. a |-> v]
  <2>1. out = [i \in 1 .. a |-> out[i]]
    BY DEF LanesOut
  <2>2. TokenOf(b, d, k, acc, q) = LevelSample(b, d, k, LaneScales(k.scales, Arity(b)), out, acc.rng, q)
    BY DEF TokenOf
  <2>3. k.topp = <<>> /\ DOMAIN k.scales = Guidance(b)
    BY DEF Sampling
  <2> DEFINE keys == acc.rng
  <2> HIDE DEF out, keys
  <2>4. Shared(b, LevelSample(b, d, k, LaneScales(k.scales, Arity(b)), out, keys, q))
    BY <2>1, <2>3, SampleIsShared, Zenon
  <2> QED BY <2>2, <2>4 DEF keys, Shared
<1> HIDE DEF token, new, a
<1>5. token = [i \in 1 .. a |-> token[1]]
  BY <1>0, <1>4
<1>6. /\ new.samples = Append(acc.samples, token) /\ new.rng = NextKeys(b, st, acc.rng)
      /\ new.states = Listed([i \in DOMAIN took |-> took[i].s])
      /\ new.inputs = Listed([i \in DOMAIN took |-> Embed(token[i])])
  <2> HIDE DEF took
  <2> QED BY <1>3 DEF LevelDone
<1>7. new.states = [i \in 1 .. a |-> Taken(d, acc, i).s]
  <2> DEFINE s == [i \in 1 .. a |-> Taken(d, acc, i).s]
  <2>1. [i \in DOMAIN took |-> took[i].s] = s
    OBVIOUS
  <2>2. s = [i \in 1 .. a |-> s[i]]
    OBVIOUS
  <2> HIDE DEF s, took
  <2> QED BY <1>0, <1>6, <2>1, <2>2, ListedIs DEF s
<1>8. new.inputs = [i \in 1 .. a |-> Embed(token[1])]
  <2> DEFINE s == [i \in 1 .. a |-> Embed(token[1])]
  <2>1. \A i \in 1 .. a : token[i] = token[1]
    BY <1>5
  <2>2. [i \in DOMAIN took |-> Embed(token[i])] = s
    BY <2>1
  <2>3. s = [i \in 1 .. a |-> s[i]]
    OBVIOUS
  <2> HIDE DEF s, took
  <2> QED BY <1>0, <1>6, <2>2, <2>3, ListedIs DEF s
<1> QED BY <1>5, <1>6, <1>7, <1>8 DEF token, new, a, OnEveryLane, LevelMade

\* What is known of the loop before a level, and of the level.
BeforeLevel(b, d, k, st, f, q) ==
  /\ f[q].inputs = [i \in 1 .. Arity(b) |-> f[q].inputs[i]]
  /\ f[q].rng = KeysAfter(b, st, q)
  /\ f[q].samples = [p \in 1 .. q |-> TokenOf(b, d, k, f[p - 1], p)]
LevelGives(b, d, k, old, new, q) ==
  LET token == TokenOf(b, d, k, old, q)
  IN /\ token = OnEveryLane(b, token[1])
     /\ new.states = [i \in 1 .. Arity(b) |-> Taken(d, old, i).s]
     /\ new.inputs = OnEveryLane(b, Embed(token[1]))

LEMMA LoopGives ==
  ASSUME NEW b \in Backends, NEW d, NEW k, Sampling(b, k), NEW m \in Nat, NEW st, KeysAre(b, st, m),
         NEW temporal, temporal = [i \in 1 .. Arity(b) |-> temporal[i]], NEW n \in Nat, NEW f,
         LoopTo(f, b, d, k, LaneScales(k.scales, Arity(b)), st, temporal, n)
  PROVE  /\ f[0].states = [i \in 1 .. Arity(b) |-> FreshStack(d.depth)]
         /\ f[0].inputs = [i \in 1 .. Arity(b) |-> temporal[i].out]
         /\ \A q \in 0 .. n : BeforeLevel(b, d, k, st, f, q)
         /\ \A q \in 1 .. n : LevelGives(b, d, k, f[q - 1], f[q], q)
<1> DEFINE a == Arity(b)  scales == LaneScales(k.scales, a)  T == {q \in 0 .. n : BeforeLevel(b, d, k, st, f, q)}
           Token(p) == TokenOf(b, d, k, f[p - 1], p)
<1>0. DOMAIN temporal = 1 .. a
  OBVIOUS
<1>1. \A q \in 0 .. n : f[q] = IF q = 0 THEN DepthStart(d, temporal, st.rng)
                               ELSE NextLevel(b, d, k, scales, st, f[q - 1], q)
  <2> HIDE DEF scales
  <2> QED BY DEF LoopTo, scales
<1>2. /\ f[0].samples = <<>> /\ f[0].rng = st.rng
      /\ f[0].states = [i \in 1 .. a |-> FreshStack(d.depth)]
      /\ f[0].inputs = [i \in 1 .. a |-> temporal[i].out]
  <2>1. 0 \in 0 .. n
    OBVIOUS
  <2>2. f[0] = DepthStart(d, temporal, st.rng)
    BY <1>1, <2>1
  <2> QED BY <1>0, <2>2 DEF DepthStart
<1>3. \A q \in 1 .. n : f[q] = NextLevel(b, d, k, scales, st, f[q - 1], q)
  <2> HIDE DEF scales
  <2>1. \A q \in 1 .. n : q \in 0 .. n /\ q # 0
    OBVIOUS
  <2> QED BY <1>1, <2>1
<1>4. ASSUME NEW q \in 1 .. n, BeforeLevel(b, d, k, st, f, q - 1)
      PROVE  /\ LevelGives(b, d, k, f[q - 1], f[q], q)
             /\ f[q].samples = Append(f[q - 1].samples, Token(q))
             /\ f[q].inputs = OnEveryLane(b, Embed(Token(q)[1]))
             /\ f[q].rng = NextKeys(b, st, f[q - 1].rng)
  <2> DEFINE old == f[q - 1]  new == f[q]  token == TokenOf(b, d, k, old, q)
  <2>1. old.inputs = [i \in 1 .. Arity(b) |-> old.inputs[i]]
    BY <1>4 DEF BeforeLevel
  <2>2. new = NextLevel(b, d, k, LaneScales(k.scales, Arity(b)), st, old, q)
    BY <1>3
  <2> HIDE DEF old, new
  <2>3. /\ token = OnEveryLane(b, token[1])
        /\ new.samples = Append(old.samples, token)
        /\ new.states = [i \in 1 .. Arity(b) |-> Taken(d, old, i).s]
        /\ new.inputs = [i \in 1 .. Arity(b) |-> Embed(token[1])]
        /\ new.rng = NextKeys(b, st, old.rng)
    <3>1. LevelMade(b, d, k, st, old, NextLevel(b, d, k, LaneScales(k.scales, Arity(b)), st, old, q), q)
      BY <2>1, LevelIs, Zenon
    <3> QED BY <2>2, <3>1 DEF LevelMade
  <2>4. LevelGives(b, d, k, old, new, q)
    BY <2>3 DEF LevelGives, OnEveryLane
  <2> QED BY <2>3, <2>4 DEF old, new, OnEveryLane
<1>5. 0 \in T
  <2>1. KeysAfter(b, st, 0) = st.rng
    BY KeysMove
  <2>2. [p \in 1 .. 0 |-> Token(p)] = <<>>
    OBVIOUS
  <2>3. f[0].inputs = [i \in 1 .. a |-> f[0].inputs[i]]
    BY <1>2
  <2>4. BeforeLevel(b, d, k, st, f, 0)
    BY <1>2, <2>1, <2>2, <2>3 DEF BeforeLevel
  <2> QED BY <2>4
<1>6. ASSUME NEW q \in 0 .. n - 1, q \in T PROVE q + 1 \in T
  <2> DEFINE p == q + 1
  <2>1. p \in 1 .. n /\ p \in 0 .. n /\ p - 1 = q /\ q \in Nat
    OBVIOUS
  <2>e. p = q + 1
    OBVIOUS
  <2>2. BeforeLevel(b, d, k, st, f, q)
    BY <1>6
  <2> HIDE DEF p
  <2>3. /\ f[p].samples = Append(f[q].samples, Token(p))
        /\ f[p].inputs = OnEveryLane(b, Embed(Token(p)[1])) /\ f[p].rng = NextKeys(b, st, f[q].rng)
    BY <1>4, <2>1, <2>2
  <2>4. f[p].inputs = [i \in 1 .. a |-> f[p].inputs[i]]
    BY <2>3 DEF OnEveryLane
  <2>5. f[p].rng = KeysAfter(b, st, p)
    BY <2>1, <2>2, <2>3, <2>e, KeysMove DEF BeforeLevel
  <2>6. f[p].samples = [j \in 1 .. p |-> Token(j)]
    <3> DEFINE s == [j \in 1 .. q |-> Token(j)]  x == Token(p)
    <3>1. s = [j \in 1 .. q |-> s[j]]
      OBVIOUS
    <3>2. \A j \in 1 .. q : s[j] = Token(j)
      OBVIOUS
    <3>3. f[q].samples = s
      BY <2>2 DEF BeforeLevel
    <3> HIDE DEF s, x, Token
    <3>4. Append(s, x) = [j \in 1 .. q + 1 |-> IF j <= q THEN s[j] ELSE x]
      BY <2>1, <3>1, AppendIs
    <3>5. \A j \in 1 .. q + 1 : (IF j <= q THEN s[j] ELSE x) = Token(j)
      <4>1. \A j \in 1 .. q + 1 : (j <= q /\ j \in 1 .. q) \/ (j = p /\ ~(j <= q))
        BY <2>1, <2>e
      <4> QED BY <3>2, <4>1 DEF x
    <3>6. [j \in 1 .. q + 1 |-> IF j <= q THEN s[j] ELSE x] = [j \in 1 .. p |-> Token(j)]
      BY <2>e, <3>5
    <3> QED BY <2>3, <3>3, <3>4, <3>6 DEF x
  <2>7. BeforeLevel(b, d, k, st, f, p)
    BY <2>4, <2>5, <2>6 DEF BeforeLevel
  <2>8. p \in T
    BY <2>1, <2>7
  <2> QED BY <2>8 DEF p
<1> HIDE DEF T, scales
<1>7. \A q \in 0 .. n : q \in T
  BY <1>5, <1>6, SetInduction
<1>8. \A q \in 0 .. n : BeforeLevel(b, d, k, st, f, q)
  BY <1>7 DEF T
<1>9. \A q \in 1 .. n : LevelGives(b, d, k, f[q - 1], f[q], q)
  <2>1. \A q \in 1 .. n : q - 1 \in 0 .. n
    OBVIOUS
  <2> QED BY <1>4, <1>8, <2>1
<1> QED BY <1>2, <1>8, <1>9

--------------------------------------------------------------------------------
(* The tokens of a frame are those of teacher forcing.                     *)

Nothing(n) == [t \in 1 .. n |-> Absent]
DepthIn(d, h, g) == [p \in 1 .. d.levels |-> IF p = 1 THEN h ELSE Embed(g[p - 1])]
DepthOut(d, h, g) == WholeStack(d.depth, DepthIn(d, h, g), <<>>)
FrameMade(b, d, k, f) ==
  [q \in 1 .. d.levels |-> IF q <= ActiveLevelsOf(d) THEN TokenOf(b, d, k, f[q - 1], q)[1] ELSE ValidFrom(d, q)]
DepthStateAt(d, h, g, q) == StatesAt(d.levels, d.depth, DepthIn(d, h, g), Nothing(d.levels), 0, q)

LEMMA DepthMoves ==
  ASSUME NEW d, Fits(d), NEW h, NEW g
  PROVE  /\ FreshStack(d.depth) = DepthStateAt(d, h, g, 0)
         /\ \A q \in 1 .. d.levels :
              LET r == StepStack(d.depth, DepthStateAt(d, h, g, q - 1), DepthIn(d, h, g)[q], Absent)
              IN r.s = DepthStateAt(d, h, g, q) /\ r.out = DepthOut(d, h, g)[q]
<1> DEFINE N == d.levels  xs == DepthIn(d, h, g)  src == Nothing(N)
<1>1. N \in Nat /\ Easy(d.depth, FALSE)
  BY DEF Fits
<1>2. Frames(N, xs) /\ Frames(N, src) /\ \A q \in 1 .. N : src[q] = Absent
  BY DEF DepthIn, Nothing, Frames
<1> HIDE DEF N, xs, src
<1>3. FreshStack(d.depth) = StatesAt(N, d.depth, xs, src, 0, 0)
  BY <1>1, <1>2, PlainStack
<1>4. ASSUME NEW q \in 1 .. N
      PROVE  LET r == StepStack(d.depth, StatesAt(N, d.depth, xs, src, 0, q - 1), xs[q], Absent)
             IN r.s = StatesAt(N, d.depth, xs, src, 0, q) /\ r.out = WholeStack(d.depth, xs, src)[q]
  <2>1. StackMoves(N, d.depth, xs, src, q)
    BY <1>1, <1>2, PlainStack
  <2> QED BY <1>2, <2>1 DEF StackMoves
<1>5. WholeStack(d.depth, xs, src) = WholeStack(d.depth, xs, <<>>)
  BY <1>1, NoSource
<1> QED BY <1>3, <1>4, <1>5 DEF N, xs, src, DepthStateAt, DepthOut

\* The frame g: a level of it is sampled from what teacher forcing gives.
LevelTrained(b, d, k, st, temporal, g, q) ==
  OnEveryLane(b, g[q])
  = LevelSample(b, d, k, LaneScales(k.scales, Arity(b)),
                [i \in 1 .. Arity(b) |-> Logits(d, DepthOut(d, temporal[i].out, g)[q])], KeysAfter(b, st, q - 1), q)

LEMMA LevelsAreTrained ==
  ASSUME NEW b \in Backends, NEW d, Fits(d), NEW k, NEW st, NEW temporal, NEW f,
         f[0].states = [i \in 1 .. Arity(b) |-> FreshStack(d.depth)],
         f[0].inputs = [i \in 1 .. Arity(b) |-> temporal[i].out],
         \A q \in 0 .. ActiveLevelsOf(d) : BeforeLevel(b, d, k, st, f, q),
         \A q \in 1 .. ActiveLevelsOf(d) : LevelGives(b, d, k, f[q - 1], f[q], q),
         NEW g, g = FrameMade(b, d, k, f)
  PROVE  \A q \in 1 .. ActiveLevelsOf(d) : LevelTrained(b, d, k, st, temporal, g, q)
<1> DEFINE L == ActiveLevelsOf(d)  N == d.levels  a == Arity(b)
<1>1. L \in 1 .. N /\ N \in Nat /\ L \in Nat
  <2>1. L \in 1 .. N /\ N \in Nat
    BY LevelsAre DEF Fits
  <2> QED BY <2>1
<1>2. ASSUME NEW q \in 1 .. L
      PROVE  /\ q \in 1 .. N /\ q - 1 \in 0 .. L /\ q \in 0 .. L
             /\ TokenOf(b, d, k, f[q - 1], q) = OnEveryLane(b, g[q])
             /\ f[q].states = [i \in 1 .. a |-> Taken(d, f[q - 1], i).s]
             /\ f[q].inputs = OnEveryLane(b, Embed(g[q]))
  <2>1. q \in 1 .. N /\ q - 1 \in 0 .. L /\ q \in 0 .. L /\ q <= L
    BY <1>1
  <2> DEFINE token == TokenOf(b, d, k, f[q - 1], q)
  <2>2. g[q] = token[1]
    BY <2>1 DEF FrameMade
  <2>3. token = OnEveryLane(b, token[1]) /\ f[q].states = [i \in 1 .. a |-> Taken(d, f[q - 1], i).s]
        /\ f[q].inputs = OnEveryLane(b, Embed(token[1]))
    BY DEF LevelGives
  <2> QED BY <2>1, <2>2, <2>3
<1> HIDE DEF L, N, a
<1>3. ASSUME NEW i \in 1 .. a
      PROVE  \A q \in 1 .. L : Taken(d, f[q - 1], i).out = DepthOut(d, temporal[i].out, g)[q]
  <2> DEFINE h == temporal[i].out  ys == DepthIn(d, h, g)
             T == {q \in 0 .. L : f[q].states[i] = DepthStateAt(d, h, g, q) /\ (q < N => f[q].inputs[i] = ys[q + 1])}
  <2>i. i \in 1 .. Arity(b)
    BY DEF a
  <2>1. ys[1] = h /\ \A q \in 1 .. N : q + 1 <= N => ys[q + 1] = Embed(g[q])
    <3>1. \A p \in 1 .. N : ys[p] = IF p = 1 THEN h ELSE Embed(g[p - 1])
      BY DEF DepthIn, N
    <3> HIDE DEF ys
    <3>2. 1 \in 1 .. N
      BY <1>1
    <3>3. \A q \in 1 .. N : q + 1 <= N => q + 1 \in 1 .. N /\ q + 1 # 1 /\ q + 1 - 1 = q
      BY <1>1
    <3> QED BY <3>1, <3>2, <3>3
  <2>2. FreshStack(d.depth) = DepthStateAt(d, h, g, 0)
    BY DepthMoves
  <2>3. ASSUME NEW q \in 1 .. N
        PROVE  LET r == StepStack(d.depth, DepthStateAt(d, h, g, q - 1), ys[q], Absent)
               IN r.s = DepthStateAt(d, h, g, q) /\ r.out = DepthOut(d, h, g)[q]
    BY DepthMoves DEF N
  <2>4. 0 \in T
    <3>1. f[0].states[i] = FreshStack(d.depth) /\ f[0].inputs[i] = h
      BY <2>i
    <3> HIDE DEF h, ys
    <3>2. 0 + 1 = 1 /\ 0 \in 0 .. L
      BY <1>1
    <3> QED BY <2>1, <2>2, <3>1, <3>2
  <2>5. ASSUME NEW q \in 1 .. L, q - 1 \in T
        PROVE  /\ Taken(d, f[q - 1], i).out = DepthOut(d, h, g)[q]
               /\ Taken(d, f[q - 1], i).s = DepthStateAt(d, h, g, q)
    <3>1. q \in 1 .. N /\ q - 1 < N /\ q - 1 + 1 = q
      BY <1>1
    <3>2. f[q - 1].states[i] = DepthStateAt(d, h, g, q - 1) /\ f[q - 1].inputs[i] = ys[q]
      <4> HIDE DEF h, ys
      <4> QED BY <2>5, <3>1
    <3> HIDE DEF h, ys
    <3> QED BY <2>3, <3>1, <3>2 DEF Taken
  <2>6. ASSUME NEW n \in 0 .. L - 1, n \in T PROVE n + 1 \in T
    <3> DEFINE q == n + 1
    <3>1. q \in 1 .. L /\ q \in 0 .. L /\ q - 1 = n /\ q \in 1 .. N /\ (q < N => q + 1 <= N)
      BY <1>1
    <3> HIDE DEF q, T
    <3>2. Taken(d, f[q - 1], i).s = DepthStateAt(d, h, g, q)
      BY <2>5, <2>6, <3>1
    <3>3. f[q].states[i] = Taken(d, f[q - 1], i).s /\ f[q].inputs[i] = Embed(g[q])
      <4>1. /\ f[q].states = [j \in 1 .. a |-> Taken(d, f[q - 1], j).s]
            /\ f[q].inputs = [j \in 1 .. a |-> Embed(g[q])]
        BY <1>2, <3>1 DEF OnEveryLane, a
      <4> QED BY <4>1
    <3> HIDE DEF h, ys
    <3>4. q \in T
      BY <2>1, <3>1, <3>2, <3>3 DEF T
    <3> QED BY <3>4 DEF q
  <2> HIDE DEF T
  <2>7. \A q \in 0 .. L : q \in T
    BY <1>1, <2>4, <2>6, SetInduction
  <2> QED BY <1>2, <2>5, <2>7
<1>4. ASSUME NEW q \in 1 .. L
      PROVE  OnEveryLane(b, g[q])
             = LevelSample(b, d, k, LaneScales(k.scales, Arity(b)),
                           [i \in 1 .. a |-> Logits(d, DepthOut(d, temporal[i].out, g)[q])], KeysAfter(b, st, q - 1), q)
  <2>1. OnEveryLane(b, g[q]) = TokenOf(b, d, k, f[q - 1], q)
    BY <1>2
  <2>2. f[q - 1].rng = KeysAfter(b, st, q - 1)
    BY <1>2 DEF BeforeLevel, L
  <2>3. LanesOut(b, d, f[q - 1]) = [i \in 1 .. a |-> Logits(d, DepthOut(d, temporal[i].out, g)[q])]
    BY <1>3 DEF LanesOut, a
  <2> QED BY <2>1, <2>2, <2>3 DEF TokenOf
<1> QED BY <1>4 DEF L, a, LevelTrained

\* What a step makes of the state st: the frame g on every lane.
FrameGiven(b, d, k, st, temporal, r, g) ==
  /\ r.rng = KeysAfter(b, st, ActiveLevelsOf(d)) /\ r.frame = OnEveryLane(b, g)
  /\ r.temporal = [i \in 1 .. Arity(b) |-> temporal[i].s]
  /\ r.step = [i \in 1 .. Arity(b) |-> st.step[i] + 1]
  /\ DOMAIN r = {"rng", "frame", "temporal", "step"}
  /\ g = [q \in 1 .. d.levels |-> g[q]]
  /\ \A q \in 1 .. ActiveLevelsOf(d) : LevelTrained(b, d, k, st, temporal, g, q)
  /\ \A q \in ActiveLevelsOf(d) + 1 .. d.levels : g[q] = ValidFrom(d, q)

LEMMA FrameIs ==
  ASSUME NEW b \in Backends, NEW d, Fits(d), b = "jax" => ActiveLevelsOf(d) = d.levels,
         NEW k, Sampling(b, k), NEW m \in Nat, NEW st, KeysAre(b, st, m),
         st.step = [i \in 1 .. Arity(b) |-> st.step[i]],
         NEW temporal, temporal = [i \in 1 .. Arity(b) |-> temporal[i]]
  PROVE  \E g : FrameGiven(b, d, k, st, temporal, FrameBy(b, d, st, temporal, k, LaneScales(k.scales, Arity(b))), g)
<1> DEFINE L == ActiveLevelsOf(d)  N == d.levels  a == Arity(b)  scales == LaneScales(k.scales, Arity(b))
           r == FrameBy(b, d, st, temporal, k, scales)
<1>1. L \in 1 .. N /\ N \in Nat /\ L \in Nat /\ N - L \in Nat /\ L + (N - L) = N /\ a \in Nat
  <2>1. L \in 1 .. N /\ N \in Nat
    BY LevelsAre DEF Fits
  <2>2. a \in Nat
    BY ArityIs
  <2> HIDE DEF L, N
  <2> QED BY <2>1, <2>2
<1>2. PICK f : /\ LoopTo(f, b, d, k, scales, st, temporal, L)
               /\ r = AfterLevels(st, temporal, f[L], Padding(d, L, Len(temporal)))
  <2> HIDE DEF scales
  <2>1. \E f : LoopMakes(f, b, d, k, scales, st, temporal)
    BY FrameIsLoop, Zenon
  <2> QED BY <2>1 DEF LoopMakes
<1> DEFINE g == FrameMade(b, d, k, f)
<1>3. /\ f[0].states = [i \in 1 .. Arity(b) |-> FreshStack(d.depth)]
      /\ f[0].inputs = [i \in 1 .. Arity(b) |-> temporal[i].out]
      /\ \A q \in 0 .. L : BeforeLevel(b, d, k, st, f, q)
      /\ \A q \in 1 .. L : LevelGives(b, d, k, f[q - 1], f[q], q)
  <2> HIDE DEF L
  <2>1. LoopTo(f, b, d, k, LaneScales(k.scales, Arity(b)), st, temporal, L)
    BY <1>2
  <2> QED BY <1>1, <2>1, LoopGives
<1>4. \A q \in 1 .. L : LevelTrained(b, d, k, st, temporal, g, q)
  <2>1. g = FrameMade(b, d, k, f)
    OBVIOUS
  <2> HIDE DEF g
  <2> QED BY <1>3, <2>1, LevelsAreTrained, Zenon
<1>5. g = [q \in 1 .. N |-> g[q]]
  BY DEF FrameMade
<1>6. Len(temporal) = a
  BY <1>1, AppendIs
<1> DEFINE samples == f[L].samples  padding == Padding(d, L, a)  all == samples \o padding
<1>7. /\ samples = [p \in 1 .. L |-> TokenOf(b, d, k, f[p - 1], p)]
      /\ f[L].rng = KeysAfter(b, st, L)
  <2>1. L \in 0 .. L
    BY <1>1
  <2> QED BY <1>3, <2>1 DEF BeforeLevel
<1>8. \A q \in 1 .. L : samples[q] = OnEveryLane(b, g[q])
  <2> SUFFICES ASSUME NEW q \in 1 .. L PROVE samples[q] = OnEveryLane(b, g[q])
    OBVIOUS
  <2> DEFINE token == TokenOf(b, d, k, f[q - 1], q)
  <2>1. q \in 1 .. N /\ q <= L
    BY <1>1
  <2>2. g[q] = token[1]
    BY <2>1 DEF FrameMade
  <2>3. token = OnEveryLane(b, token[1])
    BY <1>3 DEF LevelGives
  <2>4. samples[q] = token
    BY <1>7
  <2> HIDE DEF token, g, samples
  <2> QED BY <2>2, <2>3, <2>4
<1>9. padding = [q \in 1 .. N - L |-> OnEveryLane(b, ValidFrom(d, L + q))]
  BY DEF Padding, OnEveryLane
<1>10. \A q \in 1 .. N : ~(q <= L) => g[q] = ValidFrom(d, q) /\ q - L \in 1 .. N - L /\ L + (q - L) = q
  <2>1. \A q \in 1 .. N : ~(q <= L) => g[q] = ValidFrom(d, q)
    BY DEF FrameMade
  <2> HIDE DEF g, L, N
  <2> QED BY <1>1, <2>1
<1>p. \A q \in L + 1 .. N : g[q] = ValidFrom(d, q)
  <2> HIDE DEF g, L, N
  <2>1. \A q \in L + 1 .. N : q \in 1 .. N /\ ~(q <= L)
    BY <1>1
  <2> QED BY <1>10, <2>1
<1>11. r = AfterFrame(st, temporal, f[L].rng, Transposed(all, a))
  BY <1>2, <1>6 DEF AfterLevels
<1> HIDE DEF g, r, samples, padding, L, N, a, scales
<1>12. all = [q \in 1 .. N |-> OnEveryLane(b, g[q])]
  <2>1. samples = [q \in 1 .. L |-> samples[q]] /\ padding = [q \in 1 .. N - L |-> padding[q]]
    BY <1>7, <1>9
  <2>2. all = [q \in 1 .. L + (N - L) |-> IF q <= L THEN samples[q] ELSE padding[q - L]]
    BY <1>1, <2>1, ConcatIs
  <2>3. \A q \in 1 .. N : (IF q <= L THEN samples[q] ELSE padding[q - L]) = OnEveryLane(b, g[q])
    <3>1. \A q \in 1 .. N : q <= L => q \in 1 .. L
      BY <1>1
    <3> QED BY <1>8, <1>9, <1>10, <3>1
  <2> HIDE DEF all
  <2> QED BY <1>1, <2>2, <2>3
<1>13. Transposed(all, a) = OnEveryLane(b, g)
  <2> HIDE DEF all
  <2>1. DOMAIN all = 1 .. N /\ \A q \in 1 .. N, i \in 1 .. a : all[q][i] = g[q]
    BY <1>12 DEF OnEveryLane, a
  <2>2. Transposed(all, a) = [i \in 1 .. a |-> [q \in 1 .. N |-> g[q]]]
    BY <2>1 DEF Transposed
  <2> QED BY <1>5, <2>2 DEF OnEveryLane, a
<1>14. FrameGiven(b, d, k, st, temporal, r, g)
  <2>1. DOMAIN temporal = 1 .. Arity(b) /\ DOMAIN st.step = 1 .. Arity(b)
    OBVIOUS
  <2>2. /\ r.rng = f[L].rng /\ r.frame = Transposed(all, a)
        /\ r.temporal = [i \in DOMAIN temporal |-> temporal[i].s]
        /\ r.step = [i \in DOMAIN st.step |-> st.step[i] + 1]
        /\ DOMAIN r = {"rng", "frame", "temporal", "step"}
    <3> HIDE DEF all
    <3> QED BY <1>11 DEF AfterFrame
  <2> HIDE DEF all
  <2> QED BY <1>p, <1>4, <1>5, <1>7, <1>13, <2>1, <2>2 DEF FrameGiven, L, N
<1> QED BY <1>14 DEF r, scales

--------------------------------------------------------------------------------
(* A step from one state to the next.                                      *)

\* What the temporal body reads on each lane, and makes of it.
SourceFor(b, d, r) ==
  [i \in 1 .. Arity(b) |-> EncodedBy(b, d, RowsFor(b, Conditioned(b, r))[i])]
TemporalFor(b, d, st, r) ==
  [i \in 1 .. Arity(b) |->
     StepStack(d.temporal, st.temporal[i], FrameEmbedding(st.frame[i]), SourceFor(b, d, r)[i])]
ConstantsOf(b, r) == ConstantsFor(b, Conditioned(b, r))
NextGiven(b, d, st, n, r, g) ==
  /\ WholeState(n, Arity(b))
  /\ n.rng = KeysAfter(b, st, ActiveLevelsOf(d)) /\ n.frame = OnEveryLane(b, g)
  /\ n.temporal = [i \in 1 .. Arity(b) |-> TemporalFor(b, d, st, r)[i].s]
  /\ n.step = [i \in 1 .. Arity(b) |-> st.step[i] + 1]
  /\ g = [q \in 1 .. d.levels |-> g[q]]
  /\ \A q \in 1 .. ActiveLevelsOf(d) : LevelTrained(b, d, ConstantsOf(b, r), st, TemporalFor(b, d, st, r), g, q)
  /\ \A q \in ActiveLevelsOf(d) + 1 .. d.levels : g[q] = ValidFrom(d, q)

LEMMA NoLayers ==
  ASSUME NEW states, NEW x, NEW src
  PROVE  StepStack(<<>>, states, x, src) = [out |-> x, s |-> <<>>]
<1>1. Len(<<>>) = 0 /\ Len(<<>>) \in Nat
  OBVIOUS
<1> DEFINE e == <<>>  f == StackStepOf(e, states, x, src)
<1> HIDE DEF e
<1>2. StepsTo(f, e, states, x, src, StepStack(e, states, x, src))
  BY <1>1, StepOfIs DEF e
<1> HIDE DEF f
<1> QED BY <1>1, <1>2 DEF StepsTo, e

LEMMA NextFrame ==
  ASSUME NEW b \in Backends, NEW d, Fits(d), NEW r, NEW st, WholeState(st, Arity(b))
  PROVE  LET source == SourceFor(b, d, r)
             dec == FrameBy(b, d, st, TemporalFor(b, d, st, r), ConstantsOf(b, r),
                            LaneScales(ConstantsOf(b, r).scales, Arity(b)))
         IN Next0(b, d, st, Conditioned(b, r))
            = Extended(dec, [encoder |-> [i \in 1 .. Arity(b) |-> <<>>],
                             previous |-> NextPrevious(st, dec.frame), countdown |-> CountDown(st)])
<1> DEFINE a == Arity(b)  c == Conditioned(b, r)  rows == RowsFor(b, c)  source == SourceFor(b, d, r)
           k == ConstantsOf(b, r)  temporal == TemporalFor(b, d, st, r)
           enc == EncoderStep(d, st, [i \in DOMAIN rows |-> EncodedBy(b, d, rows[i])])
           made == [i \in DOMAIN enc |-> enc[i].out]
           dec == FrameBy(b, d, st, temporal, k, LaneScales(k.scales, a))
<1>1. rows = [i \in 1 .. a |-> rows[i]]
  BY ConditioningIs DEF Given
<1>2. enc = [i \in 1 .. a |-> [out |-> source[i], s |-> <<>>]]
  <2>1. DOMAIN rows = 1 .. a
    BY <1>1
  <2>2. [i \in DOMAIN rows |-> EncodedBy(b, d, rows[i])] = source
    BY <2>1 DEF SourceFor
  <2>3. DOMAIN source = 1 .. a
    BY DEF SourceFor
  <2>4. d.encoder = <<>>
    BY DEF Fits
  <2> HIDE DEF rows, source, a
  <2> QED BY <2>2, <2>3, <2>4, NoLayers DEF EncoderStep
<1> HIDE DEF enc
<1>3. made = source /\ [i \in DOMAIN enc |-> enc[i].s] = [i \in 1 .. a |-> <<>>]
  <2>1. source = [i \in 1 .. a |-> source[i]]
    BY DEF SourceFor
  <2> HIDE DEF source, a
  <2> QED BY <1>2, <2>1
<1>4. DOMAIN st.frame = 1 .. a /\ Len(st.frame) = a
  <2> DEFINE s == st.frame
  <2>1. s = [i \in 1 .. a |-> s[i]]
    BY DEF WholeState, Names
  <2>2. a \in Nat
    BY ArityIs
  <2> HIDE DEF s, a
  <2>3. DOMAIN s = 1 .. a /\ Len(s) = a
    BY <2>1, <2>2, AppendIs
  <2> QED BY <2>3 DEF s
<1>5. TemporalStep(d, st, source) = temporal
  <2> DEFINE t == [i \in 1 .. a |-> StepStack(d.temporal, st.temporal[i], FrameEmbedding(st.frame[i]), source[i])]
  <2>1. TemporalStep(d, st, source) = Listed(t)
    BY <1>4 DEF TemporalStep
  <2>2. t = [i \in 1 .. a |-> t[i]]
    OBVIOUS
  <2>3. a \in Nat
    BY ArityIs
  <2>4. t = temporal
    BY DEF TemporalFor
  <2> HIDE DEF t, a, temporal
  <2> QED BY <2>1, <2>2, <2>3, <2>4, ListedIs
<1> HIDE DEF made, source, temporal
<1>6. CASE b = "jax"
  <2>1. Next0(b, d, st, c) = NextState(st, enc, JaxStepWithEmits(d, st, made, k))
    BY <1>6 DEF Next0, JaxStepEncoded, ConstantsOf, enc, made
  <2>2. JaxStepWithEmits(d, st, made, k) = dec
    <3> HIDE DEF k, a
    <3> QED BY <1>3, <1>4, <1>5, <1>6 DEF JaxStepWithEmits, FrameBy
  <2> HIDE DEF k, a, c, dec
  <2>3. Next0(b, d, st, c) = Extended(dec, [encoder |-> [i \in 1 .. a |-> <<>>],
                             previous |-> NextPrevious(st, dec.frame), countdown |-> CountDown(st)])
    BY <1>3, <2>1, <2>2 DEF NextState
  <2> QED BY <2>3 DEF a, c, dec, k, temporal
<1>7. CASE b # "jax"
  <2>1. Next0(b, d, st, c) = NextState(st, enc, StepWithEmits(d, st, made, k, <<>>))
    BY <1>7 DEF Next0, StepEncoded, ConstantsOf, enc, made
  <2>2. StepWithEmits(d, st, made, k, <<>>) = dec
    <3> HIDE DEF k, a
    <3> QED BY <1>3, <1>4, <1>5, <1>7 DEF StepWithEmits, FrameOf, FrameBy
  <2> HIDE DEF k, a, c, dec
  <2>3. Next0(b, d, st, c) = Extended(dec, [encoder |-> [i \in 1 .. a |-> <<>>],
                             previous |-> NextPrevious(st, dec.frame), countdown |-> CountDown(st)])
    BY <1>3, <2>1, <2>2 DEF NextState
  <2> QED BY <2>3 DEF a, c, dec, k, temporal
<1> QED BY <1>6, <1>7

LEMMA NextIs ==
  ASSUME NEW b \in Backends, NEW d, Fits(d), b = "jax" => ActiveLevelsOf(d) = d.levels, NEW r,
         NEW m \in Nat, NEW st, WholeState(st, Arity(b)), KeysAre(b, st, m)
  PROVE  \E g : NextGiven(b, d, st, Next0(b, d, st, Conditioned(b, r)), r, g)
<1> DEFINE a == Arity(b)  k == ConstantsOf(b, r)  temporal == TemporalFor(b, d, st, r)
           dec == FrameBy(b, d, st, temporal, k, LaneScales(k.scales, a))
           n == Next0(b, d, st, Conditioned(b, r))
           none == [i \in 1 .. a |-> <<>>]  previous == NextPrevious(st, dec.frame)  countdown == CountDown(st)
           more == [encoder |-> none, previous |-> previous, countdown |-> countdown]
<1>1. Sampling(b, k)
  BY ConditioningIs DEF Given, ConstantsOf, Sampling
<1>2. st.step = [i \in 1 .. a |-> st.step[i]] /\ DOMAIN st.previous = 1 .. a /\ DOMAIN st.countdown = 1 .. a
  BY DEF WholeState, Names
<1>3. temporal = [i \in 1 .. a |-> temporal[i]]
  BY DEF TemporalFor
<1>4. PICK g : FrameGiven(b, d, k, st, temporal, dec, g)
  <2> HIDE DEF k, temporal
  <2> QED BY <1>1, <1>2, <1>3, FrameIs, Zenon
<1>5. n = Extended(dec, more)
  BY NextFrame
<1>6. /\ dec.rng = KeysAfter(b, st, ActiveLevelsOf(d)) /\ dec.frame = OnEveryLane(b, g)
      /\ dec.temporal = [i \in 1 .. a |-> temporal[i].s] /\ dec.step = [i \in 1 .. a |-> st.step[i] + 1]
      /\ DOMAIN dec = {"rng", "frame", "temporal", "step"}
      /\ g = [q \in 1 .. d.levels |-> g[q]]
      /\ \A q \in 1 .. ActiveLevelsOf(d) : LevelTrained(b, d, k, st, temporal, g, q)
      /\ \A q \in ActiveLevelsOf(d) + 1 .. d.levels : g[q] = ValidFrom(d, q)
  <2> HIDE DEF k, temporal, dec
  <2> QED BY <1>4 DEF FrameGiven
<1>7. previous = [i \in 1 .. a |-> previous[i]] /\ countdown = [i \in 1 .. a |-> countdown[i]]
      /\ none = [i \in 1 .. a |-> none[i]]
  BY <1>2 DEF NextPrevious, CountDown
<1> HIDE DEF n, dec, k, temporal, none, previous, countdown
<1>8. /\ n.rng = dec.rng /\ n.frame = dec.frame /\ n.temporal = dec.temporal /\ n.step = dec.step
      /\ n.encoder = none /\ n.previous = previous /\ n.countdown = countdown
      /\ DOMAIN n = Names /\ n = [f \in Names |-> n[f]]
  <2>1. DOMAIN more = {"encoder", "previous", "countdown"}
    OBVIOUS
  <2>2. more.encoder = none /\ more.previous = previous /\ more.countdown = countdown
    OBVIOUS
  <2> HIDE DEF more
  <2>3. DOMAIN n = Names /\ n = [f \in Names |-> IF f \in DOMAIN dec THEN dec[f] ELSE more[f]]
    <3>1. DOMAIN dec \cup DOMAIN more = Names
      BY <1>6, <2>1 DEF Names
    <3> QED BY <1>5, <3>1 DEF Extended
  <2>4. n = [f \in Names |-> n[f]]
    BY <2>3
  <2>5. /\ n.rng = dec.rng /\ n.frame = dec.frame /\ n.temporal = dec.temporal /\ n.step = dec.step
        /\ n.encoder = more.encoder /\ n.previous = more.previous /\ n.countdown = more.countdown
    BY <1>6, <2>3 DEF Names
  <2> QED BY <2>2, <2>3, <2>4, <2>5
<1>9. /\ n.rng = [i \in 1 .. a |-> n.rng[i]] /\ n.frame = [i \in 1 .. a |-> n.frame[i]]
      /\ n.temporal = [i \in 1 .. a |-> n.temporal[i]] /\ n.step = [i \in 1 .. a |-> n.step[i]]
  BY <1>6, <1>8 DEF KeysAfter, OnEveryLane, a
<1>10. WholeState(n, a)
  <2>1. \A f \in Names : n[f] = [i \in 1 .. a |-> n[f][i]]
    BY <1>7, <1>8, <1>9 DEF Names
  <2> QED BY <1>8, <2>1 DEF WholeState
<1>11. NextGiven(b, d, st, n, r, g)
  BY <1>6, <1>8, <1>10 DEF NextGiven, a, k, temporal
<1> QED BY <1>11 DEF n

StepMade(b, d, st, s, r) ==
  LET n == Merged(b, s.st)
  IN /\ NextGiven(b, d, st, n, r, s.out[1])
     /\ s.st = Parted(b, n) /\ LanesAt(b, s.st) = [rng |-> n.rng, frame |-> n.frame]

LEMMA OneStep ==
  ASSUME NEW b \in Backends, NEW d, Fits(d), b = "jax" => ActiveLevelsOf(d) = d.levels, NEW r,
         NEW m \in Nat, NEW st, WholeState(st, Arity(b)), KeysAre(b, st, m)
  PROVE  StepMade(b, d, st, Stepped(b, d, Parted(b, st), r), r)
<1> DEFINE c == Conditioned(b, r)  n == Next0(b, d, st, c)  s == Stepped(b, d, Parted(b, st), r)
<1>1. PICK g : NextGiven(b, d, st, n, r, g)
  BY NextIs, Zenon
<1>2. WholeState(n, Arity(b)) /\ n.frame = OnEveryLane(b, g)
  <2> HIDE DEF n
  <2> QED BY <1>1 DEF NextGiven
<1>3. Merged(b, Parted(b, st)) = st
  BY PartedIs
<1>4. s.out[1] = n.frame[1] /\ s.st = Parted(b, n)
  <2> DEFINE p == Parted(b, st)
  <2>1. WholeState(Next0(b, d, Merged(b, p), Conditioned(b, r)), Arity(b))
    BY <1>2, <1>3
  <2>2. Next0(b, d, Merged(b, p), Conditioned(b, r)) = n
    BY <1>3
  <2>3. s = Stepped(b, d, p, r)
    OBVIOUS
  <2> HIDE DEF p, s, n
  <2> QED BY <2>1, <2>2, <2>3, SteppedIs
<1> HIDE DEF s, n
<1>5. Merged(b, s.st) = n /\ LanesAt(b, s.st) = [rng |-> n.rng, frame |-> n.frame]
  BY <1>2, <1>4, PartedIs
<1>6. s.out[1] = g
  <2>1. 1 \in 1 .. Arity(b)
    BY ArityIs
  <2> QED BY <1>2, <1>4, <2>1 DEF OnEveryLane
<1> QED BY <1>1, <1>4, <1>5, <1>6 DEF StepMade, s

--------------------------------------------------------------------------------
(* The stream behind a state: the states it went through.                  *)

TraceTo(b, d, f, log, n) ==
  /\ f[0] = Began(b, d)
  /\ \A t \in 1 .. n :
       LET s == Stepped(b, d, f[t - 1], log[t].request)
       IN /\ f[t] = s.st /\ log[t].tokens = s.out[1]
          /\ log[t].keys = LanesAt(b, f[t - 1]).rng /\ log[t].lanes = LanesAt(b, s.st).frame
\* The rows of a state after t frames.
RowsAt(b, d, st, t) ==
  /\ WholeState(Merged(b, st), Arity(b)) /\ st = Parted(b, Merged(b, st))
  /\ LanesAt(b, st) = [rng |-> Merged(b, st).rng, frame |-> Merged(b, st).frame]
  /\ KeysAre(b, Merged(b, st), t * ActiveLevelsOf(d))
  /\ \A i \in 1 .. Arity(b) : /\ Merged(b, st).step[i] = t
                              /\ Merged(b, st).rng[i].seed = Beginning(b, d).rng[i].seed
\* One step of the stream.
StreamMoves(b, d, f, log, t) ==
  LET old == Merged(b, f[t - 1])  new == Merged(b, f[t])
  IN /\ NextGiven(b, d, old, new, log[t].request, log[t].tokens)
     /\ log[t].keys = old.rng /\ log[t].lanes = OnEveryLane(b, log[t].tokens)

LEMMA RowsMove ==
  ASSUME NEW b \in Backends, NEW d, Fits(d), b = "jax" => ActiveLevelsOf(d) = d.levels,
         NEW old, NEW t \in Nat, RowsAt(b, d, old, t), NEW r
  PROVE  /\ StepMade(b, d, Merged(b, old), Stepped(b, d, old, r), r)
         /\ RowsAt(b, d, Stepped(b, d, old, r).st, t + 1)
<1> DEFINE L == ActiveLevelsOf(d)  a == Arity(b)  m == t * L  st == Merged(b, old)  s == Stepped(b, d, old, r)
           n == Merged(b, s.st)
<1>1. L \in Nat /\ m \in Nat /\ m + L = (t + 1) * L
  <2>1. L \in 1 .. d.levels /\ d.levels \in Nat
    BY LevelsAre DEF Fits
  <2> HIDE DEF L
  <2> QED BY <2>1
<1>2. WholeState(st, a) /\ old = Parted(b, st) /\ KeysAre(b, st, m)
      /\ \A i \in 1 .. a : st.step[i] = t /\ st.rng[i].seed = Beginning(b, d).rng[i].seed
  BY DEF RowsAt
<1> HIDE DEF m
<1>3. StepMade(b, d, st, s, r)
  <2> HIDE DEF st
  <2> QED BY <1>1, <1>2, OneStep
<1> HIDE DEF st, s
<1>4. /\ NextGiven(b, d, st, n, r, s.out[1])
      /\ s.st = Parted(b, n) /\ LanesAt(b, s.st) = [rng |-> n.rng, frame |-> n.frame]
  BY <1>3 DEF StepMade
<1> HIDE DEF n
<1>5. /\ WholeState(n, a) /\ n.rng = KeysAfter(b, st, L) /\ n.step = [i \in 1 .. a |-> st.step[i] + 1]
  BY <1>4 DEF NextGiven
<1> HIDE DEF L
<1>6. ASSUME NEW i \in 1 .. a
      PROVE  /\ KeyIs(n.rng[i], m + L) /\ n.rng[i].seed = Beginning(b, d).rng[i].seed /\ n.step[i] = t + 1
  <2> DEFINE key == st.rng[i]  x == Fold(b, st, i)
  <2>1. KeyIs(key, m) /\ key.seed = Beginning(b, d).rng[i].seed
    BY <1>2 DEF KeysAre
  <2>2. n.rng[i] = KeyAfter(key, L, x)
    BY <1>5 DEF KeysAfter
  <2> HIDE DEF key, x
  <2>3. KeyIs(KeyAfter(key, L, x), m + L) /\ KeyAfter(key, L, x).seed = key.seed
    <3>1. GoesDown(key, m, L, x)
      BY <1>1, <2>1, KeyGrows, Zenon
    <3> QED BY <3>1 DEF GoesDown
  <2>4. n.step[i] = t + 1
    BY <1>2, <1>5
  <2> QED BY <2>1, <2>2, <2>3, <2>4
<1>7. KeysAre(b, n, m + L)
  <2>1. n.rng = [i \in 1 .. a |-> n.rng[i]]
    BY <1>5 DEF KeysAfter
  <2> QED BY <1>6, <2>1 DEF KeysAre
<1>8. RowsAt(b, d, s.st, t + 1)
  BY <1>1, <1>4, <1>5, <1>6, <1>7 DEF RowsAt, n, L
<1> QED BY <1>3, <1>8 DEF st, s

LEMMA RowsBegin ==
  ASSUME NEW b \in Backends, NEW d, Fits(d)
  PROVE  Merged(b, Began(b, d)) = Beginning(b, d) /\ RowsAt(b, d, Began(b, d), 0)
<1> DEFINE n == Beginning(b, d)  a == Arity(b)  L == ActiveLevelsOf(d)
<1>1. WholeState(n, a) /\ Began(b, d) = Parted(b, n)
  BY BeganIs
<1>2. /\ n.rng = [i \in 1 .. a |-> [seed |-> IF b = "jax" THEN i ELSE 41 + i, path |-> <<>>]]
      /\ n.step = [i \in 1 .. a |-> 0]
  BY BeginningIs DEF BeginsAs
<1> HIDE DEF n
<1>3. Merged(b, Began(b, d)) = n /\ LanesAt(b, Began(b, d)) = [rng |-> n.rng, frame |-> n.frame]
  BY <1>1, PartedIs
<1>4. ASSUME NEW i \in 1 .. a PROVE KeyIs(n.rng[i], 0)
  <2> DEFINE v == IF b = "jax" THEN i ELSE 41 + i
  <2>1. n.rng[i] = [seed |-> v, path |-> <<>>]
    BY <1>2
  <2>2. Row(<<>>, 0)
    BY DEF Row
  <2> HIDE DEF v
  <2> QED BY <2>1, <2>2 DEF KeyIs
<1>5. KeysAre(b, n, 0)
  BY <1>2, <1>4 DEF KeysAre
<1>6. 0 * L = 0
  <2>1. L \in 1 .. d.levels /\ d.levels \in Nat
    BY LevelsAre DEF Fits
  <2> HIDE DEF L
  <2> QED BY <2>1
<1>7. \A i \in 1 .. a : n.step[i] = 0
  BY <1>2
<1>8. RowsAt(b, d, Began(b, d), 0)
  BY <1>1, <1>3, <1>5, <1>6, <1>7 DEF RowsAt, n
<1> QED BY <1>3, <1>8 DEF n

LEMMA TraceMoves ==
  ASSUME NEW b \in Backends, NEW d, Fits(d), b = "jax" => ActiveLevelsOf(d) = d.levels,
         NEW n \in Nat, NEW f, NEW log, TraceTo(b, d, f, log, n)
  PROVE  /\ Merged(b, f[0]) = Beginning(b, d)
         /\ \A t \in 0 .. n : RowsAt(b, d, f[t], t)
         /\ \A t \in 1 .. n : StreamMoves(b, d, f, log, t)
<1> DEFINE T == {t \in 0 .. n : RowsAt(b, d, f[t], t)}
<1>1. Merged(b, f[0]) = Beginning(b, d) /\ RowsAt(b, d, f[0], 0)
  BY RowsBegin DEF TraceTo
<1>2. ASSUME NEW t \in 0 .. n - 1, RowsAt(b, d, f[t], t)
      PROVE  RowsAt(b, d, f[t + 1], t + 1) /\ StreamMoves(b, d, f, log, t + 1)
  <2> DEFINE u == t + 1  old == f[t]  r == log[u].request  s == Stepped(b, d, old, r)
  <2>1. u \in 1 .. n /\ u - 1 = t /\ t \in Nat
    OBVIOUS
  <2>e. u = t + 1
    OBVIOUS
  <2> HIDE DEF u
  <2>2. f[u] = s.st /\ log[u].tokens = s.out[1] /\ log[u].keys = LanesAt(b, old).rng /\ log[u].lanes = LanesAt(b, s.st).frame
    BY <2>1 DEF TraceTo
  <2>3. RowsAt(b, d, old, t)
    BY <1>2
  <2> HIDE DEF old, r
  <2>4. StepMade(b, d, Merged(b, old), s, r) /\ RowsAt(b, d, s.st, t + 1)
    BY <2>1, <2>3, RowsMove
  <2> HIDE DEF s
  <2>5. /\ NextGiven(b, d, Merged(b, old), Merged(b, s.st), r, s.out[1])
        /\ LanesAt(b, s.st) = [rng |-> Merged(b, s.st).rng, frame |-> Merged(b, s.st).frame]
    BY <2>4 DEF StepMade
  <2>6. Merged(b, s.st).frame = OnEveryLane(b, s.out[1])
    BY <2>5 DEF NextGiven
  <2>7. LanesAt(b, old).rng = Merged(b, old).rng
    BY <2>3 DEF RowsAt
  <2>8. /\ log[u].keys = Merged(b, old).rng /\ log[u].lanes = OnEveryLane(b, log[u].tokens)
        /\ NextGiven(b, d, Merged(b, old), Merged(b, f[u]), r, log[u].tokens)
    BY <2>2, <2>5, <2>6, <2>7
  <2>9. StreamMoves(b, d, f, log, u)
    BY <2>1, <2>8 DEF StreamMoves, old, r
  <2> QED BY <2>2, <2>4, <2>9 DEF u
<1>3. 0 \in T
  BY <1>1
<1>4. ASSUME NEW t \in 0 .. n - 1, t \in T PROVE t + 1 \in T
  <2>1. t + 1 \in 0 .. n
    OBVIOUS
  <2> QED BY <1>2, <1>4, <2>1
<1> HIDE DEF T
<1>5. \A t \in 0 .. n : t \in T
  BY <1>3, <1>4, SetInduction
<1>6. \A t \in 0 .. n : RowsAt(b, d, f[t], t)
  BY <1>5 DEF T
<1>7. \A t \in 1 .. n : StreamMoves(b, d, f, log, t)
  <2> SUFFICES ASSUME NEW t \in 1 .. n PROVE StreamMoves(b, d, f, log, t)
    OBVIOUS
  <2> DEFINE u == t - 1
  <2>1. u \in 0 .. n - 1 /\ u \in 0 .. n /\ u + 1 = t
    OBVIOUS
  <2> HIDE DEF u
  <2> QED BY <1>2, <1>6, <2>1
<1> QED BY <1>1, <1>6, <1>7

--------------------------------------------------------------------------------
(* The stream is what teacher forcing gives.                               *)

HistoryIn(d, log, n) == [t \in 1 .. n |-> FrameEmbedding(IF t = 1 THEN Sos(d) ELSE log[t - 1].tokens)]
SourcesOf(b, d, log, n, i) == [t \in 1 .. n |-> SourceFor(b, d, log[t].request)[i]]
TemporalOut(b, d, log, n, i) == WholeStack(d.temporal, HistoryIn(d, log, n), SourcesOf(b, d, log, n, i))

LEMMA TemporalMoves ==
  ASSUME NEW b \in Backends, NEW d, Fits(d), b = "jax" => ActiveLevelsOf(d) = d.levels,
         NEW n \in Nat, NEW f, NEW log, TraceTo(b, d, f, log, n), NEW i \in 1 .. Arity(b)
  PROVE  \A t \in 1 .. n :
           TemporalFor(b, d, Merged(b, f[t - 1]), log[t].request)[i].out = TemporalOut(b, d, log, n, i)[t]
<1> DEFINE M(t) == Merged(b, f[t])  X == HistoryIn(d, log, n)  S == SourcesOf(b, d, log, n, i)
           At(t) == StatesAt(n, d.temporal, X, S, 0, t)
           Heard(t) == IF t = 0 THEN Sos(d) ELSE log[t].tokens
           T == {t \in 0 .. n : M(t).temporal[i] = At(t)}
<1>1. M(0) = Beginning(b, d) /\ \A t \in 1 .. n : StreamMoves(b, d, f, log, t)
  BY TraceMoves
<1>b. /\ Beginning(b, d).frame = [j \in 1 .. Arity(b) |-> Sos(d)]
      /\ Beginning(b, d).temporal = [j \in 1 .. Arity(b) |-> FreshStack(d.temporal)]
  <2> DEFINE m == Beginning(b, d)  a == Arity(b)
  <2>1. BeginsAs(b, d, m, a)
    BY BeginningIs, Zenon
  <2> HIDE DEF m, a
  <2>2. m.frame = [j \in 1 .. a |-> Sos(d)] /\ m.temporal = [j \in 1 .. a |-> FreshStack(d.temporal)]
    BY <2>1 DEF BeginsAs
  <2> QED BY <2>2 DEF m, a
<1>2. Frames(n, X) /\ Frames(n, S) /\ Easy(d.temporal, TRUE)
  BY DEF HistoryIn, SourcesOf, Frames, Fits
<1>3. \A t \in 1 .. n : X[t] = FrameEmbedding(Heard(t - 1)) /\ S[t] = SourceFor(b, d, log[t].request)[i]
  <2>1. \A t \in 1 .. n : X[t] = FrameEmbedding(IF t = 1 THEN Sos(d) ELSE log[t - 1].tokens)
    BY DEF HistoryIn
  <2>2. \A t \in 1 .. n : S[t] = SourceFor(b, d, log[t].request)[i]
    BY DEF SourcesOf
  <2>3. \A t \in 1 .. n : t = 1 <=> t - 1 = 0
    OBVIOUS
  <2> HIDE DEF X, S
  <2> QED BY <2>1, <2>2, <2>3
<1> HIDE DEF X, S
<1>4. At(0) = FreshStack(d.temporal) /\ \A t \in 1 .. n : StackMoves(n, d.temporal, X, S, t)
  BY <1>2, PlainStack
<1>5. ASSUME NEW t \in 1 .. n
      PROVE  /\ M(t).temporal = [j \in 1 .. Arity(b) |-> TemporalFor(b, d, M(t - 1), log[t].request)[j].s]
             /\ M(t).frame = OnEveryLane(b, log[t].tokens)
  <2>1. NextGiven(b, d, M(t - 1), M(t), log[t].request, log[t].tokens)
    BY <1>1 DEF StreamMoves
  <2> QED BY <2>1 DEF NextGiven
<1>6. \A t \in 0 .. n : M(t).frame[i] = Heard(t)
  <2>1. M(0).frame = [j \in 1 .. Arity(b) |-> Sos(d)]
    BY <1>1, <1>b
  <2>2. M(0).frame[i] = Heard(0)
    BY <2>1
  <2>3. ASSUME NEW t \in 1 .. n PROVE M(t).frame[i] = Heard(t)
    <3>1. M(t).frame = [j \in 1 .. Arity(b) |-> log[t].tokens]
      BY <1>5 DEF OnEveryLane
    <3>2. t # 0
      OBVIOUS
    <3> HIDE DEF M
    <3> QED BY <3>1, <3>2
  <2> HIDE DEF M, Heard
  <2>4. \A t \in 0 .. n : t = 0 \/ t \in 1 .. n
    OBVIOUS
  <2> QED BY <2>2, <2>3, <2>4
<1>7. ASSUME NEW t \in 1 .. n, M(t - 1).temporal[i] = At(t - 1)
      PROVE  LET r == TemporalFor(b, d, M(t - 1), log[t].request)[i]
             IN r.s = At(t) /\ r.out = TemporalOut(b, d, log, n, i)[t]
  <2> DEFINE st == M(t - 1)  r == TemporalFor(b, d, st, log[t].request)[i]
  <2>1. st.frame[i] = Heard(t - 1)
    <3>1. t - 1 \in 0 .. n
      OBVIOUS
    <3> HIDE DEF M, Heard
    <3> QED BY <1>6, <3>1
  <2>2. r = StepStack(d.temporal, st.temporal[i], FrameEmbedding(st.frame[i]), SourceFor(b, d, log[t].request)[i])
    BY DEF TemporalFor
  <2> HIDE DEF Heard, r
  <2>3. r = StepStack(d.temporal, At(t - 1), X[t], S[t])
    <3> HIDE DEF M
    <3> QED BY <1>3, <1>7, <2>1, <2>2
  <2>4. r.s = At(t) /\ r.out = WholeStack(d.temporal, X, S)[t]
    BY <1>4, <2>3 DEF StackMoves
  <2> QED BY <2>4 DEF TemporalOut, X, S, r
<1>8. 0 \in T
  <2>1. M(0).temporal = [j \in 1 .. Arity(b) |-> FreshStack(d.temporal)]
    BY <1>1, <1>b
  <2>3. 0 \in 0 .. n
    OBVIOUS
  <2>2. M(0).temporal[i] = FreshStack(d.temporal)
    BY <2>1
  <2> HIDE DEF M, At
  <2> QED BY <1>4, <2>2, <2>3
<1>9. ASSUME NEW t \in 0 .. n - 1, t \in T PROVE t + 1 \in T
  <2> DEFINE u == t + 1
  <2>1. u \in 1 .. n /\ u \in 0 .. n /\ u - 1 = t
    OBVIOUS
  <2>2. M(t).temporal[i] = At(t)
    BY <1>9
  <2> HIDE DEF u, M, At, T
  <2>3. TemporalFor(b, d, M(u - 1), log[u].request)[i].s = At(u)
    BY <1>7, <2>1, <2>2
  <2>4. M(u).temporal[i] = At(u)
    <3>1. M(u).temporal = [j \in 1 .. Arity(b) |-> TemporalFor(b, d, M(u - 1), log[u].request)[j].s]
      BY <1>5, <2>1
    <3> QED BY <2>3, <3>1
  <2>5. u \in T
    BY <2>1, <2>4 DEF T
  <2> QED BY <2>5 DEF u
<1> HIDE DEF T
<1>10. \A t \in 0 .. n : t \in T
  BY <1>8, <1>9, SetInduction
<1>11. ASSUME NEW t \in 1 .. n
       PROVE  TemporalFor(b, d, M(t - 1), log[t].request)[i].out = TemporalOut(b, d, log, n, i)[t]
  <2>1. t - 1 \in 0 .. n
    OBVIOUS
  <2>2. M(t - 1).temporal[i] = At(t - 1)
    BY <1>10, <2>1 DEF T
  <2> HIDE DEF M, At
  <2> QED BY <1>7, <2>2
<1> QED BY <1>11

\* Teacher forcing, as one sum for both backends.
TrainedBy(b, d, frames, source) ==
  IF b = "jax" THEN JaxCall(d, frames, source) ELSE LayerWithEmits(d, frames, Encode(d, source))
FramesIn(d, frames, n) == [t \in 1 .. n |-> FrameEmbedding(IF t = 1 THEN Sos(d) ELSE frames[t - 1])]
EncodedRows(b, d, rows, n) == [t \in 1 .. n |-> EncodedBy(b, d, rows[t])]

LEMMA OneBefore ==
  ASSUME NEW n \in Nat, NEW s, s = [i \in 1 .. n |-> s[i]], NEW h
  PROVE  <<h>> \o s = [p \in 1 .. 1 + n |-> IF p = 1 THEN h ELSE s[p - 1]]
<1> DEFINE e == <<h>>
<1>1. e = [i \in 1 .. 1 |-> e[i]] /\ e[1] = h /\ 1 \in Nat
  OBVIOUS
<1> HIDE DEF e
<1>2. e \o s = [p \in 1 .. 1 + n |-> IF p <= 1 THEN e[p] ELSE s[p - 1]]
  BY <1>1, ConcatIs
<1>3. \A p \in 1 .. 1 + n : p <= 1 <=> p = 1
  OBVIOUS
<1>4. e \o s = [p \in 1 .. 1 + n |-> IF p = 1 THEN h ELSE s[p - 1]]
  BY <1>1, <1>2, <1>3
<1> QED BY <1>4 DEF e

LEMMA DepthInIs ==
  ASSUME NEW d, Fits(d), NEW h, NEW g
  PROVE  <<h>> \o [q \in 1 .. d.levels - 1 |-> Embed(g[q])] = DepthIn(d, h, g)
<1> DEFINE N == d.levels  m == N - 1  s == [q \in 1 .. m |-> Embed(g[q])]
<1>1. N \in Nat /\ m \in Nat /\ 1 + m = N
  BY DEF Fits
<1>2. s = [q \in 1 .. m |-> s[q]] /\ \A q \in 1 .. m : s[q] = Embed(g[q])
  OBVIOUS
<1> HIDE DEF s, m, N
<1>3. <<h>> \o s = [p \in 1 .. 1 + m |-> IF p = 1 THEN h ELSE s[p - 1]]
  BY <1>1, <1>2, OneBefore
<1>4. \A p \in 1 .. N : p # 1 => p - 1 \in 1 .. m
  BY <1>1
<1>5. [p \in 1 .. 1 + m |-> IF p = 1 THEN h ELSE s[p - 1]] = [p \in 1 .. N |-> IF p = 1 THEN h ELSE Embed(g[p - 1])]
  BY <1>1, <1>2, <1>4
<1> QED BY <1>3, <1>5 DEF DepthIn, s, m, N

LEMMA EncodeIs ==
  ASSUME NEW d, Fits(d), NEW n \in Nat, NEW rows, rows = [t \in 1 .. n |-> rows[t]]
  PROVE  /\ Encode(d, rows) = EncodedRows("mlx", d, rows, n)
         /\ JaxEncode(d, rows) = EncodedRows("jax", d, rows, n)
<1>1. ASSUME NEW xs PROVE WholeStack(<<>>, xs, <<>>) = xs
  <2> DEFINE e == <<>>  w == WholeOf(e, xs, <<>>)
  <2>1. Len(e) = 0 /\ Len(e) \in Nat
    OBVIOUS
  <2> HIDE DEF e
  <2>2. WholeStack(e, xs, <<>>) = w[Len(e)] /\ w[0] = xs
    BY <2>1, WholeOfIs
  <2> QED BY <2>1, <2>2 DEF e
<1>2. d.encoder = <<>> /\ DOMAIN rows = 1 .. n
  BY DEF Fits
<1> DEFINE x == [t \in 1 .. n |-> Encoded(d, rows[t])]  y == [t \in 1 .. n |-> JaxEncoded(d, rows[t])]
<1>3. x = [t \in 1 .. n |-> x[t]] /\ y = [t \in 1 .. n |-> y[t]]
  OBVIOUS
<1>4. Encode(d, rows) = WholeStack(<<>>, Listed(x), <<>>) /\ JaxEncode(d, rows) = WholeStack(<<>>, Listed(y), <<>>)
  BY <1>2 DEF Encode, JaxEncode
<1>5. EncodedRows("mlx", d, rows, n) = x /\ EncodedRows("jax", d, rows, n) = y
  BY DEF EncodedRows, EncodedBy
<1> HIDE DEF x, y
<1>6. Listed(x) = x /\ Listed(y) = y
  BY <1>3, ListedIs
<1> QED BY <1>1, <1>4, <1>5, <1>6

TrainedAs(b, d, frames, rows, n) ==
  TrainedBy(b, d, frames, rows)
  = [t \in 1 .. n |->
       DepthOut(d, WholeStack(d.temporal, FramesIn(d, frames, n), EncodedRows(b, d, rows, n))[t], frames[t])]

LEMMA TrainedIs ==
  ASSUME NEW b \in Backends, NEW d, Fits(d), NEW n \in Nat,
         NEW frames, frames = [t \in 1 .. n |-> frames[t]],
         \A t \in 1 .. n : frames[t] = [q \in 1 .. d.levels |-> frames[t][q]],
         NEW rows, rows = [t \in 1 .. n |-> rows[t]]
  PROVE  TrainedAs(b, d, frames, rows, n)
<1> DEFINE X == FramesIn(d, frames, n)  E == EncodedRows(b, d, rows, n)  w == WholeStack(d.temporal, X, E)
           out == [t \in 1 .. n |-> DepthOut(d, w[t], frames[t])]
<1>1. DOMAIN frames = 1 .. n
  OBVIOUS
<1>2. X = [t \in 1 .. n |-> X[t]] /\ Listed(X) = X
  <2>1. X = [t \in 1 .. n |-> X[t]]
    BY DEF FramesIn
  <2> HIDE DEF X
  <2> QED BY <2>1, ListedIs
<1>3. out = [t \in 1 .. n |-> out[t]] /\ Listed(out) = out
  <2>1. out = [t \in 1 .. n |-> out[t]]
    OBVIOUS
  <2> HIDE DEF out
  <2> QED BY <2>1, ListedIs
<1>4. \A t \in 1 .. n : <<w[t]>> \o [q \in 1 .. d.levels - 1 |-> Embed(frames[t][q])] = DepthIn(d, w[t], frames[t])
  BY DepthInIs
<1>5. ASSUME b # "jax" PROVE TrainedBy(b, d, frames, rows) = out
  <2>1. Encode(d, rows) = E
    <3>1. Encode(d, rows) = EncodedRows("mlx", d, rows, n)
      BY EncodeIs
    <3> QED BY <1>5, <3>1 DEF EncodedRows, EncodedBy
  <2>2. \A t \in 1 .. n : Len(frames[t]) = d.levels
    <3> SUFFICES ASSUME NEW t \in 1 .. n PROVE Len(frames[t]) = d.levels
      OBVIOUS
    <3> DEFINE s == frames[t]
    <3>1. s = [q \in 1 .. d.levels |-> s[q]] /\ d.levels \in Nat
      BY DEF Fits
    <3> HIDE DEF s
    <3> QED BY <3>1, AppendIs DEF s
  <2>3. Listed([t \in DOMAIN frames |-> FrameEmbedding(IF t = 1 THEN Sos(d) ELSE frames[t - 1])]) = X
    <3>1. [t \in DOMAIN frames |-> FrameEmbedding(IF t = 1 THEN Sos(d) ELSE frames[t - 1])] = X
      BY <1>1 DEF FramesIn
    <3> QED BY <1>2, <3>1
  <2> DEFINE emits(x) == [t \in DOMAIN frames |->
                            WholeStack(d.depth, <<x[t]>> \o [q \in 1 .. Len(frames[t]) - 1 |-> Embed(frames[t][q])], <<>>)]
  <2>4. LayerWithEmits(d, frames, E) = Listed(emits(WholeStack(d.temporal,
          Listed([t \in DOMAIN frames |-> FrameEmbedding(IF t = 1 THEN Sos(d) ELSE frames[t - 1])]), E)))
    BY DEF LayerWithEmits
  <2>5. emits(w) = out
    <3> HIDE DEF w
    <3> QED BY <1>1, <1>4, <2>2 DEF DepthOut
  <2> HIDE DEF emits, out, X, E
  <2>6. LayerWithEmits(d, frames, E) = out
    BY <1>3, <2>3, <2>4, <2>5
  <2>7. TrainedBy(b, d, frames, rows) = LayerWithEmits(d, frames, E)
    BY <1>5, <2>1 DEF TrainedBy
  <2> QED BY <2>6, <2>7
<1>6. ASSUME b = "jax" PROVE TrainedBy(b, d, frames, rows) = out
  <2>1. JaxEncode(d, rows) = E
    <3>1. JaxEncode(d, rows) = EncodedRows("jax", d, rows, n)
      BY EncodeIs
    <3> QED BY <1>6, <3>1
  <2> DEFINE padded == <<JaxSos(d)>> \o frames
  <2>2. padded = [t \in 1 .. 1 + n |-> IF t = 1 THEN Sos(d) ELSE frames[t - 1]]
    BY OneBefore DEF JaxSos
  <2> HIDE DEF padded
  <2>3. \A t \in 1 .. n : padded[t] = (IF t = 1 THEN Sos(d) ELSE frames[t - 1]) /\ padded[t + 1] = frames[t]
    <3>1. \A t \in 1 .. n : t \in 1 .. 1 + n /\ t + 1 \in 1 .. 1 + n /\ t + 1 # 1 /\ t + 1 - 1 = t
      OBVIOUS
    <3> QED BY <2>2, <3>1
  <2>4. Listed([t \in DOMAIN frames |-> FrameEmbedding(padded[t])]) = X
    <3>1. [t \in DOMAIN frames |-> FrameEmbedding(padded[t])] = X
      BY <1>1, <2>3 DEF FramesIn
    <3> QED BY <1>2, <3>1
  <2> DEFINE emits(x) == [t \in DOMAIN frames |->
                 WholeStack(d.depth, <<x[t]>> \o [q \in 1 .. d.levels - 1 |-> Embed(padded[t + 1][q])], <<>>)]
  <2>5. JaxLayerWithEmits(d, frames, E)
        = Listed(emits(WholeStack(d.temporal, Listed([t \in DOMAIN frames |-> FrameEmbedding(padded[t])]), E)))
    BY DEF JaxLayerWithEmits, padded
  <2>6. emits(w) = out
    <3> HIDE DEF w
    <3>1. \A t \in 1 .. n : <<w[t]>> \o [q \in 1 .. d.levels - 1 |-> Embed(padded[t + 1][q])] = DepthIn(d, w[t], frames[t])
      <4> SUFFICES ASSUME NEW t \in 1 .. n
                   PROVE  <<w[t]>> \o [q \in 1 .. d.levels - 1 |-> Embed(padded[t + 1][q])] = DepthIn(d, w[t], frames[t])
        OBVIOUS
      <4>1. padded[t + 1] = frames[t]
        BY <2>3
      <4> QED BY <1>4, <4>1
    <3> QED BY <1>1, <3>1 DEF DepthOut
  <2> HIDE DEF emits, out, X, E
  <2>7. JaxLayerWithEmits(d, frames, E) = out
    BY <1>3, <2>4, <2>5, <2>6
  <2>8. TrainedBy(b, d, frames, rows) = JaxLayerWithEmits(d, frames, E)
    BY <1>6, <2>1 DEF TrainedBy, JaxCall
  <2> QED BY <2>7, <2>8
<1>7. TrainedBy(b, d, frames, rows) = out
  <2> HIDE DEF out
  <2> QED BY <1>5, <1>6
<1> QED BY <1>7 DEF TrainedAs

\* The logits of a lane, over the whole history, and the token sampled of them.
LaneFrames(log, n, i) == [t \in 1 .. n |-> log[t].lanes[i]]
LaneRows(b, log, n, i) == [t \in 1 .. n |-> RowsFor(b, Conditioned(b, log[t].request))[i]]
LaneEmits(b, d, log, n, i) == TrainedBy(b, d, LaneFrames(log, n, i), LaneRows(b, log, n, i))
\* The keys of a level, from those of the frame.
KeysOf(b, log, t, q) ==
  [i \in 1 .. Arity(b) |-> KeyAfter(log[t].keys[i], q - 1, IF b = "jax" THEN t - 1 ELSE 0)]
TokenTrained(b, d, log, n, t, q) ==
  LET k == ConstantsOf(b, log[t].request)
  IN [i \in 1 .. Arity(b) |-> log[t].lanes[i][q]]
     = LevelSample(b, d, k, LaneScales(k.scales, Arity(b)),
                   [i \in 1 .. Arity(b) |-> Logits(d, LaneEmits(b, d, log, n, i)[t][q])], KeysOf(b, log, t, q), q)

LEMMA LogIsTrained ==
  ASSUME NEW b \in Backends, NEW d, Fits(d), b = "jax" => ActiveLevelsOf(d) = d.levels,
         NEW n \in Nat, NEW f, NEW log, TraceTo(b, d, f, log, n)
  PROVE  \A t \in 1 .. n, q \in 1 .. ActiveLevelsOf(d) : TokenTrained(b, d, log, n, t, q)
<1> DEFINE a == Arity(b)
<1>1. ASSUME NEW t \in 1 .. n
      PROVE  /\ NextGiven(b, d, Merged(b, f[t - 1]), Merged(b, f[t]), log[t].request, log[t].tokens)
             /\ log[t].keys = Merged(b, f[t - 1]).rng /\ log[t].lanes = OnEveryLane(b, log[t].tokens)
             /\ RowsAt(b, d, f[t - 1], t - 1)
  <2>1. StreamMoves(b, d, f, log, t)
    BY TraceMoves
  <2>2. t - 1 \in 0 .. n
    OBVIOUS
  <2>3. RowsAt(b, d, f[t - 1], t - 1)
    BY <2>2, TraceMoves
  <2> QED BY <2>1, <2>3 DEF StreamMoves
<1>2. \A t \in 1 .. n, i \in 1 .. a : log[t].lanes[i] = log[t].tokens
  BY <1>1 DEF OnEveryLane
<1>3. \A t \in 1 .. n : log[t].tokens = [q \in 1 .. d.levels |-> log[t].tokens[q]]
  BY <1>1 DEF NextGiven
<1>4. ASSUME NEW i \in 1 .. a
      PROVE  \A t \in 1 .. n :
               LaneEmits(b, d, log, n, i)[t] = DepthOut(d, TemporalOut(b, d, log, n, i)[t], log[t].tokens)
  <2> DEFINE frames == LaneFrames(log, n, i)  rows == LaneRows(b, log, n, i)
             x == FramesIn(d, frames, n)  e == EncodedRows(b, d, rows, n)
  <2>1. frames = [t \in 1 .. n |-> frames[t]] /\ \A t \in 1 .. n : frames[t] = log[t].tokens
    BY <1>2 DEF LaneFrames
  <2>2. rows = [t \in 1 .. n |-> rows[t]]
        /\ \A t \in 1 .. n : rows[t] = RowsFor(b, Conditioned(b, log[t].request))[i]
    BY DEF LaneRows
  <2> HIDE DEF frames, rows
  <2>3. x = HistoryIn(d, log, n)
    <3>1. \A t \in 1 .. n : t # 1 => t - 1 \in 1 .. n
      OBVIOUS
    <3>2. \A t \in 1 .. n : (IF t = 1 THEN Sos(d) ELSE frames[t - 1]) = IF t = 1 THEN Sos(d) ELSE log[t - 1].tokens
      BY <2>1, <3>1
    <3> QED BY <3>2 DEF FramesIn, HistoryIn
  <2>4. e = SourcesOf(b, d, log, n, i)
    <3>1. \A t \in 1 .. n : EncodedBy(b, d, rows[t]) = SourceFor(b, d, log[t].request)[i]
      BY <2>2 DEF SourceFor
    <3> QED BY <3>1 DEF EncodedRows, SourcesOf
  <2>5. \A t \in 1 .. n : frames[t] = [q \in 1 .. d.levels |-> frames[t][q]]
    BY <1>3, <2>1
  <2>6. TrainedBy(b, d, frames, rows) = [t \in 1 .. n |-> DepthOut(d, WholeStack(d.temporal, x, e)[t], frames[t])]
    <3>1. TrainedAs(b, d, frames, rows, n)
      BY <2>1, <2>2, <2>5, TrainedIs, Zenon
    <3> QED BY <3>1 DEF TrainedAs
  <2> HIDE DEF x, e
  <2>7. LaneEmits(b, d, log, n, i) = [t \in 1 .. n |-> DepthOut(d, TemporalOut(b, d, log, n, i)[t], frames[t])]
    BY <2>3, <2>4, <2>6 DEF TemporalOut, LaneEmits, frames, rows
  <2> QED BY <2>1, <2>7
<1>5. ASSUME NEW t \in 1 .. n, NEW q \in 1 .. ActiveLevelsOf(d)
      PROVE  TokenTrained(b, d, log, n, t, q)
  <2> DEFINE st == Merged(b, f[t - 1])  k == ConstantsOf(b, log[t].request)
             temporal == TemporalFor(b, d, st, log[t].request)  g == log[t].tokens
  <2>1. LevelTrained(b, d, k, st, temporal, g, q)
    <3>1. NextGiven(b, d, st, Merged(b, f[t]), log[t].request, g)
      BY <1>1
    <3> HIDE DEF st
    <3> QED BY <3>1 DEF NextGiven
  <2>2. \A i \in 1 .. a : temporal[i].out = TemporalOut(b, d, log, n, i)[t]
    BY TemporalMoves
  <2>3. OnEveryLane(b, g[q]) = [i \in 1 .. a |-> log[t].lanes[i][q]]
    BY <1>2 DEF OnEveryLane
  <2>4. KeysAfter(b, st, q - 1) = KeysOf(b, log, t, q)
    <3>1. log[t].keys = st.rng /\ \A i \in 1 .. a : st.step[i] = t - 1
      BY <1>1 DEF RowsAt
    <3> HIDE DEF st
    <3>2. \A i \in 1 .. a : KeyAfter(st.rng[i], q - 1, Fold(b, st, i))
                            = KeyAfter(log[t].keys[i], q - 1, IF b = "jax" THEN t - 1 ELSE 0)
      BY <3>1 DEF Fold
    <3> QED BY <3>2 DEF KeysAfter, KeysOf
  <2> HIDE DEF temporal, st, k
  <2>5. \A i \in 1 .. a : DepthOut(d, temporal[i].out, g)[q] = LaneEmits(b, d, log, n, i)[t][q]
    BY <1>4, <2>2
  <2>6. [i \in 1 .. a |-> Logits(d, DepthOut(d, temporal[i].out, g)[q])]
        = [i \in 1 .. a |-> Logits(d, LaneEmits(b, d, log, n, i)[t][q])]
    BY <2>5
  <2>7. [i \in 1 .. a |-> log[t].lanes[i][q]]
        = LevelSample(b, d, k, LaneScales(k.scales, a),
                      [i \in 1 .. a |-> Logits(d, LaneEmits(b, d, log, n, i)[t][q])], KeysOf(b, log, t, q), q)
    <3> HIDE DEF g
    <3> QED BY <2>1, <2>3, <2>4, <2>6 DEF LevelTrained
  <2> QED BY <2>7 DEF TokenTrained, k
<1> QED BY <1>5

--------------------------------------------------------------------------------
(* What the callers hold.                                                  *)

Pinned == backend \in Backends /\ depthformer = DepthformerOf(backend)
Listing(log) == Len(log) \in Nat /\ log = [t \in 1 .. Len(log) |-> log[t]]
Trace(f, log) == TraceTo(backend, depthformer, f, log, Len(log))
\* The state st is what the frames of log lead to.
Behind(b, d, st, log) == Listing(log) /\ \E f : TraceTo(b, d, f, log, Len(log)) /\ f[Len(log)] = st
TrainedLog(log) ==
  \A conds \in {Listed([t \in DOMAIN log |-> Conditioning(log[t].request)])} :
  \A emits \in {LogitsOfLanes(log, Listed([t \in DOMAIN conds |-> LanesWith(conds[t])]))} :
  \A t \in DOMAIN log, q \in 1 .. ActiveLevelsOf(depthformer) :
    [i \in DOMAIN emits |-> log[t].lanes[i][q]]
    = TokensFrom(Listed([i \in DOMAIN emits |-> Logits(depthformer, emits[i][t][q])]),
                 LaneConstants(conds[t].k, Len(emits)), KeysAt(log, t, q), q)

LEMMA ModelFits ==
  ASSUME Pinned
  PROVE  /\ backend \in Backends /\ Fits(depthformer)
         /\ backend = "jax" => ActiveLevelsOf(depthformer) = depthformer.levels
BY DepthformerFits DEF Pinned

\* The rows of the conditioning, frame by frame.
LEMMA ConditioningsAre ==
  ASSUME NEW log, Listing(log)
  PROVE  LET conds == Listed([t \in DOMAIN log |-> Conditioning(log[t].request)])
         IN /\ conds = [t \in 1 .. Len(log) |-> Conditioned(backend, log[t].request)]
            /\ Listed([t \in DOMAIN conds |-> LanesWith(conds[t])])
               = [t \in 1 .. Len(log) |-> RowsFor(backend, Conditioned(backend, log[t].request))]
<1> DEFINE n == Len(log)  c == [t \in DOMAIN log |-> Conditioning(log[t].request)]
           conds == [t \in 1 .. n |-> Conditioned(backend, log[t].request)]
           s == [t \in DOMAIN conds |-> LanesWith(conds[t])]
           rows == [t \in 1 .. n |-> RowsFor(backend, Conditioned(backend, log[t].request))]
<1>1. n \in Nat /\ DOMAIN log = 1 .. n
  BY DEF Listing
<1>2. \A r : Conditioning(r) = Conditioned(backend, r)
  BY DEF Conditioning, Conditioned
<1>3. \A x : LanesWith(x) = RowsFor(backend, x)
  BY DEF LanesWith, RowsFor
<1>4. c = conds /\ conds = [t \in 1 .. n |-> conds[t]]
  BY <1>1, <1>2
<1>5. s = rows /\ rows = [t \in 1 .. n |-> rows[t]]
  BY <1>3
<1> HIDE DEF s, rows, c
<1>6. Listed(s) = rows
  BY <1>1, <1>5, ListedIs
<1> HIDE DEF conds
<1>7. Listed(c) = conds
  BY <1>1, <1>4, ListedIs
<1> QED BY <1>6, <1>7 DEF s, rows, c, conds

LEMMA KeysAtAre ==
  ASSUME NEW log, NEW t, NEW q, log[t].keys = [i \in 1 .. Arity(backend) |-> log[t].keys[i]]
  PROVE  KeysAt(log, t, q) = KeysOf(backend, log, t, q)
<1> DEFINE k == log[t].keys  x == IF backend = "jax" THEN t - 1 ELSE 0
<1>1. KeysAt(log, t, q) = [i \in DOMAIN k |-> [k[i] EXCEPT !.path = @ \o [j \in 1 .. q - 1 |-> x]]]
  BY DEF KeysAt
<1>2. KeysOf(backend, log, t, q) = [i \in 1 .. Arity(backend) |-> [k[i] EXCEPT !.path = @ \o [j \in 1 .. q - 1 |-> x]]]
  BY DEF KeysOf, KeyAfter, Repeated
<1>3. DOMAIN k = 1 .. Arity(backend)
  OBVIOUS
<1> QED BY <1>1, <1>2, <1>3

LEMMA LevelSampleIs ==
  ASSUME Pinned, NEW rows, rows = [i \in 1 .. Arity(backend) |-> rows[i]],
         NEW k, DOMAIN k.scales = Guidance(backend), NEW keys, NEW q
  PROVE  TokensFrom(rows, k, keys, q)
         = LevelSample(backend, depthformer, k, LaneScales(k.scales, Arity(backend)), rows, keys, q)
<1> DEFINE a == Arity(backend)  g == Cardinality(DOMAIN k.scales)
<1>1. a \in Nat /\ a - 1 = g
  BY ArityIs DEF Pinned
<1>2. Len(rows) = a
  <2> HIDE DEF a
  <2>1. rows = [i \in 1 .. a |-> rows[i]]
    BY DEF a
  <2> QED BY <1>1, <2>1, AppendIs
<1> HIDE DEF a, g
<1>3. Len(rows) - 1 = g
  BY <1>1, <1>2
<1>4. TokensFrom(rows, k, keys, q)
      = IF backend = "jax"
        THEN JaxSampleCategorical(rows, k, keys, LaneScales(k.scales, a), g,
                                  ValidFrom(depthformer, q), ValidFrom(depthformer, q) + depthformer.size)
        ELSE SampleCategorical(rows, k, keys, LaneScales(k.scales, a), g,
                               ValidFrom(depthformer, q), ValidFrom(depthformer, q) + depthformer.size)
  BY <1>2, <1>3 DEF TokensFrom, SampledAt
<1> QED BY <1>4 DEF LevelSample, a, g

\* A stream's log, read as the property reads it.
LEMMA LogitsAre ==
  ASSUME NEW log, Listing(log), NEW sources,
         log[1].lanes = [i \in 1 .. Arity(backend) |-> log[1].lanes[i]], Arity(backend) \in Nat,
         sources = [t \in 1 .. Len(log) |-> RowsFor(backend, Conditioned(backend, log[t].request))]
  PROVE  LogitsOfLanes(log, sources)
         = [i \in 1 .. Arity(backend) |-> LaneEmits(backend, depthformer, log, Len(log), i)]
<1> DEFINE n == Len(log)  a == Arity(backend)
           e == [i \in 1 .. a |-> LaneEmits(backend, depthformer, log, n, i)]
           p == [i \in DOMAIN log[1].lanes |->
                   Trained(Listed([t \in DOMAIN log |-> log[t].lanes[i]]), Listed([t \in DOMAIN log |-> sources[t][i]]))]
<1>1. n \in Nat /\ DOMAIN log = 1 .. n /\ DOMAIN log[1].lanes = 1 .. a
  BY DEF Listing
<1>2. ASSUME NEW i \in 1 .. a
      PROVE  /\ Listed([t \in DOMAIN log |-> log[t].lanes[i]]) = LaneFrames(log, n, i)
             /\ Listed([t \in DOMAIN log |-> sources[t][i]]) = LaneRows(backend, log, n, i)
  <2> DEFINE x == LaneFrames(log, n, i)  y == LaneRows(backend, log, n, i)
  <2>1. x = [t \in DOMAIN log |-> log[t].lanes[i]] /\ x = [t \in 1 .. n |-> x[t]]
    BY <1>1 DEF LaneFrames
  <2>2. y = [t \in DOMAIN log |-> sources[t][i]] /\ y = [t \in 1 .. n |-> y[t]]
    BY <1>1 DEF LaneRows
  <2> HIDE DEF x, y, n
  <2>3. Listed(x) = x /\ Listed(y) = y
    BY <1>1, <2>1, <2>2, ListedIs
  <2> QED BY <2>1, <2>2, <2>3 DEF x, y
<1>3. \A x, y : Trained(x, y) = TrainedBy(backend, depthformer, x, y)
  BY DEF Trained, TrainedBy
<1>4. p = e /\ e = [i \in 1 .. a |-> e[i]]
  BY <1>1, <1>2, <1>3 DEF LaneEmits
<1>5. LogitsOfLanes(log, sources) = Listed(p)
  BY DEF LogitsOfLanes
<1>6. a \in Nat
  OBVIOUS
<1> HIDE DEF p, e, a
<1>7. LogitsOfLanes(log, sources) = e
  BY <1>4, <1>5, <1>6, ListedIs
<1> QED BY <1>7 DEF e, n, a

LEMMA LogMeans ==
  ASSUME Pinned, NEW log, Listing(log), Len(log) # 0, NEW f, Trace(f, log)
  PROVE  TrainedLog(log)
<1> DEFINE b == backend  d == depthformer  n == Len(log)  a == Arity(backend)
           conds == Listed([t \in DOMAIN log |-> Conditioning(log[t].request)])
           sources == Listed([t \in DOMAIN conds |-> LanesWith(conds[t])])
           emits == LogitsOfLanes(log, sources)
<1>1. n \in Nat /\ DOMAIN log = 1 .. n /\ 1 \in 1 .. n /\ a \in Nat
  BY ArityIs DEF Pinned, Listing
<1>2. \A t \in 1 .. n : StreamMoves(b, d, f, log, t) /\ RowsAt(b, d, f[t - 1], t - 1)
  <2>1. TraceTo(b, d, f, log, n) /\ b \in Backends /\ Fits(d) /\ (b = "jax" => ActiveLevelsOf(d) = d.levels)
    BY ModelFits DEF Trace
  <2>2. \A t \in 1 .. n : t - 1 \in 0 .. n
    OBVIOUS
  <2> HIDE DEF n, b, d
  <2>3. (\A t \in 0 .. n : RowsAt(b, d, f[t], t)) /\ (\A t \in 1 .. n : StreamMoves(b, d, f, log, t))
    BY <1>1, <2>1, TraceMoves
  <2> QED BY <2>2, <2>3
<1>3. \A t \in 1 .. n, q \in 1 .. ActiveLevelsOf(d) : TokenTrained(b, d, log, n, t, q)
  <2>1. TraceTo(b, d, f, log, n) /\ b \in Backends /\ Fits(d) /\ (b = "jax" => ActiveLevelsOf(d) = d.levels)
    BY ModelFits DEF Trace
  <2> HIDE DEF n, b, d
  <2> QED BY <1>1, <2>1, LogIsTrained
<1>4. \A t \in 1 .. n : /\ log[t].lanes = [i \in 1 .. a |-> log[t].lanes[i]]
                        /\ log[t].keys = [i \in 1 .. a |-> log[t].keys[i]]
  <2> SUFFICES ASSUME NEW t \in 1 .. n
               PROVE  /\ log[t].lanes = [i \in 1 .. a |-> log[t].lanes[i]]
                      /\ log[t].keys = [i \in 1 .. a |-> log[t].keys[i]]
    OBVIOUS
  <2>1. log[t].keys = Merged(b, f[t - 1]).rng /\ log[t].lanes = OnEveryLane(b, log[t].tokens)
    BY <1>2 DEF StreamMoves
  <2>2. Merged(b, f[t - 1]).rng = [i \in 1 .. a |-> Merged(b, f[t - 1]).rng[i]]
    BY <1>2 DEF RowsAt, KeysAre
  <2>3. \A v : OnEveryLane(b, v) = [i \in 1 .. a |-> OnEveryLane(b, v)[i]]
    BY DEF OnEveryLane
  <2> QED BY <2>1, <2>2, <2>3
<1>5. /\ conds = [t \in 1 .. n |-> Conditioned(b, log[t].request)]
      /\ sources = [t \in 1 .. n |-> RowsFor(b, Conditioned(b, log[t].request))]
  BY ConditioningsAre
<1> HIDE DEF conds, sources
<1>6. emits = [i \in 1 .. a |-> LaneEmits(b, d, log, n, i)]
  BY <1>1, <1>4, <1>5, LogitsAre
<1> HIDE DEF emits
<1>7. DOMAIN emits = 1 .. a /\ Len(emits) = a
  <2>1. emits = [i \in 1 .. a |-> emits[i]]
    BY <1>6
  <2> HIDE DEF a
  <2> QED BY <1>1, <2>1, AppendIs
<1>8. ASSUME NEW t \in 1 .. n, NEW q \in 1 .. ActiveLevelsOf(d)
      PROVE  [i \in DOMAIN emits |-> log[t].lanes[i][q]]
             = TokensFrom(Listed([i \in DOMAIN emits |-> Logits(d, emits[i][t][q])]),
                          LaneConstants(conds[t].k, Len(emits)), KeysAt(log, t, q), q)
  <2> DEFINE k == ConstantsOf(b, log[t].request)  rows == [i \in 1 .. a |-> Logits(d, emits[i][t][q])]
  <2>1. LaneConstants(conds[t].k, Len(emits)) = k
    BY <1>5, <1>7 DEF ConstantsOf, ConstantsFor
  <2>2. DOMAIN k.scales = Guidance(b)
    BY ConditioningIs DEF ConstantsOf, Given, Pinned
  <2>3. rows = [i \in 1 .. a |-> rows[i]]
    OBVIOUS
  <2>4. [i \in DOMAIN emits |-> Logits(d, emits[i][t][q])] = rows
    BY <1>7
  <2>5. rows = [i \in 1 .. a |-> Logits(d, LaneEmits(b, d, log, n, i)[t][q])]
    BY <1>6
  <2>6. KeysAt(log, t, q) = KeysOf(b, log, t, q)
    BY <1>4, KeysAtAre
  <2>7. [i \in 1 .. a |-> log[t].lanes[i][q]]
        = LevelSample(b, d, k, LaneScales(k.scales, a),
                      [i \in 1 .. a |-> Logits(d, LaneEmits(b, d, log, n, i)[t][q])], KeysOf(b, log, t, q), q)
    BY <1>3 DEF TokenTrained
  <2> HIDE DEF rows, k
  <2>8. Listed(rows) = rows
    <3> HIDE DEF a
    <3> QED BY <1>1, <2>3, ListedIs
  <2>9. TokensFrom(rows, k, KeysAt(log, t, q), q)
        = LevelSample(b, d, k, LaneScales(k.scales, a), rows, KeysAt(log, t, q), q)
    BY <2>2, <2>3, LevelSampleIs
  <2>10. [i \in DOMAIN emits |-> log[t].lanes[i][q]] = [i \in 1 .. a |-> log[t].lanes[i][q]]
    BY <1>7
  <2> QED BY <2>1, <2>4, <2>5, <2>6, <2>7, <2>8, <2>9, <2>10
<1>9. ASSUME NEW c \in {conds}, NEW e \in {LogitsOfLanes(log, Listed([t \in DOMAIN c |-> LanesWith(c[t])]))},
             NEW t \in DOMAIN log, NEW q \in 1 .. ActiveLevelsOf(d)
      PROVE  [i \in DOMAIN e |-> log[t].lanes[i][q]]
             = TokensFrom(Listed([i \in DOMAIN e |-> Logits(d, e[i][t][q])]),
                          LaneConstants(c[t].k, Len(e)), KeysAt(log, t, q), q)
  <2>1. c = conds
    OBVIOUS
  <2>2. e = emits
    BY <2>1 DEF emits, sources
  <2>3. t \in 1 .. n
    BY <1>1
  <2> HIDE DEF d
  <2> QED BY <1>8, <2>1, <2>2, <2>3
<1> QED BY <1>9 DEF TrainedLog, conds

\* The frames of a stream follow from the requests.
AskedAlike(log, other, k) == \A t \in 1 .. k : log[t].request = other[t].request
MadeAlike(log, other, k) == \A t \in 1 .. k : log[t].tokens = other[t].tokens
LEMMA SameFrames ==
  ASSUME NEW b, NEW d, NEW f, NEW g, NEW log, NEW other, NEW n \in Nat, NEW m \in Nat,
         TraceTo(b, d, f, log, n), TraceTo(b, d, g, other, m),
         NEW k \in Nat, k <= n, k <= m, AskedAlike(log, other, k)
  PROVE  MadeAlike(log, other, k)
<1> DEFINE T == {t \in 0 .. k : f[t] = g[t]}
<1>1. \A t \in 1 .. k : t \in 1 .. n /\ t \in 1 .. m /\ t - 1 \in 0 .. k
  OBVIOUS
<1>2. ASSUME NEW t \in 1 .. k, f[t - 1] = g[t - 1] PROVE f[t] = g[t] /\ log[t].tokens = other[t].tokens
  <2>1. LET s == Stepped(b, d, f[t - 1], log[t].request) IN f[t] = s.st /\ log[t].tokens = s.out[1]
    BY <1>1 DEF TraceTo
  <2>2. LET s == Stepped(b, d, g[t - 1], other[t].request) IN g[t] = s.st /\ other[t].tokens = s.out[1]
    BY <1>1 DEF TraceTo
  <2>3. log[t].request = other[t].request
    BY DEF AskedAlike
  <2> QED BY <1>2, <2>1, <2>2, <2>3
<1>3. 0 \in T
  BY DEF TraceTo
<1>4. ASSUME NEW t \in 0 .. k - 1, t \in T PROVE t + 1 \in T
  <2> DEFINE u == t + 1
  <2>1. u \in 1 .. k /\ u \in 0 .. k /\ u - 1 = t
    OBVIOUS
  <2>2. f[t] = g[t]
    BY <1>4
  <2> HIDE DEF u, T
  <2>3. f[u] = g[u]
    BY <1>2, <2>1, <2>2
  <2>4. u \in T
    BY <2>1, <2>3 DEF T
  <2> QED BY <2>4 DEF u
<1> HIDE DEF T
<1>5. \A t \in 0 .. k : t \in T
  BY <1>3, <1>4, SetInduction
<1>6. \A t \in 0 .. k : f[t] = g[t]
  BY <1>5 DEF T
<1> QED BY <1>1, <1>2, <1>6 DEF MadeAlike

\* What is in the log of a stream.
LogEntry(e) ==
  /\ e.tokens = [q \in 1 .. depthformer.levels |-> e.tokens[q]]
  /\ e.lanes = OnEveryLane(backend, e.tokens) /\ Len(e.lanes) = Len(e.keys)
  /\ DOMAIN e.keys = 1 .. Arity(backend)
LEMMA EntriesAre ==
  ASSUME Pinned, NEW log, Listing(log), NEW f, Trace(f, log)
  PROVE  \A t \in 1 .. Len(log) :
           /\ LogEntry(log[t])
           /\ KeyIs(log[t].keys[1], (t - 1) * ActiveLevelsOf(depthformer))
<1> DEFINE b == backend  d == depthformer  n == Len(log)  a == Arity(backend)
<1>1. n \in Nat /\ a \in Nat /\ 1 \in 1 .. a
  BY ArityIs DEF Pinned, Listing
<1>2. TraceTo(b, d, f, log, n) /\ b \in Backends /\ Fits(d) /\ (b = "jax" => ActiveLevelsOf(d) = d.levels)
  BY ModelFits DEF Trace
<1>3. (\A t \in 0 .. n : RowsAt(b, d, f[t], t)) /\ (\A t \in 1 .. n : StreamMoves(b, d, f, log, t))
  <2> HIDE DEF n, b, d
  <2> QED BY <1>1, <1>2, TraceMoves
<1> SUFFICES ASSUME NEW t \in 1 .. n
             PROVE  LogEntry(log[t]) /\ KeyIs(log[t].keys[1], (t - 1) * ActiveLevelsOf(d))
  OBVIOUS
<1> DEFINE old == Merged(b, f[t - 1])
<1>4. t - 1 \in 0 .. n
  OBVIOUS
<1>5. /\ NextGiven(b, d, old, Merged(b, f[t]), log[t].request, log[t].tokens)
      /\ log[t].keys = old.rng /\ log[t].lanes = OnEveryLane(b, log[t].tokens)
  BY <1>3 DEF StreamMoves
<1>6. KeysAre(b, old, (t - 1) * ActiveLevelsOf(d))
  BY <1>3, <1>4 DEF RowsAt
<1> HIDE DEF old, n
<1>7. log[t].keys = [i \in 1 .. a |-> log[t].keys[i]] /\ KeyIs(log[t].keys[1], (t - 1) * ActiveLevelsOf(d))
  BY <1>1, <1>5, <1>6 DEF KeysAre
<1>8. log[t].tokens = [q \in 1 .. d.levels |-> log[t].tokens[q]]
  BY <1>5 DEF NextGiven
<1>9. log[t].lanes = [i \in 1 .. a |-> log[t].lanes[i]]
  <2>1. \A v : OnEveryLane(b, v) = [i \in 1 .. a |-> OnEveryLane(b, v)[i]]
    BY DEF OnEveryLane
  <2> QED BY <1>5, <2>1
<1>10. Len(log[t].lanes) = Len(log[t].keys)
  <2> DEFINE s == log[t].lanes  k == log[t].keys
  <2>1. s = [i \in 1 .. a |-> s[i]] /\ k = [i \in 1 .. a |-> k[i]]
    BY <1>7, <1>9
  <2> HIDE DEF s, k, a
  <2>2. Len(s) = a /\ Len(k) = a
    BY <1>1, <2>1, AppendIs
  <2> QED BY <2>2 DEF s, k
<1>11. DOMAIN log[t].keys = 1 .. a
  BY <1>7
<1> QED BY <1>5, <1>7, <1>8, <1>10, <1>11 DEF LogEntry

\* The keys of a stream are all of different lengths.
LEMMA PlaceIsOne ==
  ASSUME NEW L \in Nat, NEW t \in Nat, NEW u \in Nat, NEW q \in 1 .. L, NEW p \in 1 .. L,
         t * L + (q - 1) = u * L + (p - 1)
  PROVE  t = u /\ q = p
<1>1. ASSUME NEW x \in Nat, NEW y \in Nat, x < y PROVE x * L + L <= y * L
  <2>1. PICK z \in Nat : y = x + 1 + z
    <3>1. y - x - 1 \in Nat /\ y = x + 1 + (y - x - 1)
      BY <1>1
    <3> QED BY <3>1
  <2>2. y * L = x * L + L + z * L /\ z * L \in Nat /\ x * L \in Nat
    BY <2>1
  <2> DEFINE v == z * L  w == x * L
  <2> HIDE DEF v, w
  <2>3. v \in Nat /\ w \in Nat => w + L <= w + L + v
    OBVIOUS
  <2> QED BY <2>2, <2>3 DEF v, w
<1>2. t * L \in Nat /\ u * L \in Nat
  OBVIOUS
<1> DEFINE v == t * L  w == u * L
<1>3. (t < u => v + L <= w) /\ (u < t => w + L <= v)
  BY <1>1
<1>4. v + (q - 1) = w + (p - 1) /\ v \in Nat /\ w \in Nat
  BY <1>2
<1>5. t = u => v = w
  OBVIOUS
<1> HIDE DEF v, w
<1>6. t = u
  BY <1>3, <1>4
<1> QED BY <1>4, <1>5, <1>6

LEMMA KeysAreFresh ==
  ASSUME Pinned, NEW log, Listing(log), NEW f, Trace(f, log),
         NEW t \in 1 .. Len(log), NEW u \in 1 .. Len(log),
         NEW q \in 1 .. ActiveLevelsOf(depthformer), NEW p \in 1 .. ActiveLevelsOf(depthformer),
         KeysAt(log, t, q)[1] = KeysAt(log, u, p)[1]
  PROVE  t = u /\ q = p
<1> DEFINE L == ActiveLevelsOf(depthformer)  n == Len(log)
<1>1. L \in Nat /\ n \in Nat /\ 1 \in 1 .. Arity(backend)
  <2>1. L \in 1 .. depthformer.levels /\ depthformer.levels \in Nat
    BY ModelFits, LevelsAre DEF Fits
  <2> HIDE DEF L
  <2> QED BY <2>1, ArityIs DEF Pinned, Listing
<1> HIDE DEF L
<1>2. ASSUME NEW v \in 1 .. n, NEW r \in 1 .. L
      PROVE  LET path == KeysAt(log, v, r)[1].path IN DOMAIN path = 1 .. (v - 1) * L + (r - 1)
  <2> DEFINE key == log[v].keys[1]  x == IF backend = "jax" THEN v - 1 ELSE 0  m == (v - 1) * L
             y == KeysAt(log, v, r)[1]
  <2>1. KeyIs(key, m) /\ DOMAIN log[v].keys = 1 .. Arity(backend)
    BY EntriesAre DEF LogEntry, L
  <2>2. y = [key EXCEPT !.path = @ \o [j \in 1 .. r - 1 |-> x]]
    BY <1>1, <2>1 DEF KeysAt
  <2>3. y = KeyAfter(key, r - 1, x)
    BY <2>2 DEF KeyAfter, Repeated
  <2>4. m \in Nat /\ r - 1 \in Nat
    <3>1. v - 1 \in Nat /\ r - 1 \in Nat
      BY <1>1
    <3> QED BY <1>1, <3>1
  <2> DEFINE s == r - 1
  <2> HIDE DEF key, x, m, y, s
  <2>5. GoesDown(key, m, s, x)
    BY <2>1, <2>4, KeyGrows, Zenon DEF s
  <2>6. Row(y.path, m + s)
    BY <2>3, <2>5 DEF GoesDown, KeyIs, s
  <2>7. DOMAIN y.path = 1 .. m + s
    BY <2>6 DEF Row
  <2> QED BY <2>7 DEF y, m, s
<1>3. 1 .. (t - 1) * L + (q - 1) = 1 .. (u - 1) * L + (p - 1)
  BY <1>2 DEF L
<1>4. t - 1 \in Nat /\ u - 1 \in Nat /\ q \in 1 .. L /\ p \in 1 .. L
  BY <1>1 DEF L
<1> DEFINE v == t - 1  w == u - 1
<1>5. (t - 1) * L \in Nat /\ (u - 1) * L \in Nat
  BY <1>1, <1>4
<1>6. \A x, y \in Nat : 1 .. x = 1 .. y => x = y
  OBVIOUS
<1>7. v * L + (q - 1) = w * L + (p - 1)
  <2> DEFINE x == (t - 1) * L + (q - 1)  y == (u - 1) * L + (p - 1)
  <2>1. x \in Nat /\ y \in Nat
    BY <1>1, <1>4, <1>5
  <2>2. 1 .. x = 1 .. y
    BY <1>3
  <2> HIDE DEF x, y
  <2>3. x = y
    BY <1>6, <2>1, <2>2
  <2> QED BY <2>3 DEF x, y
<1>8. v \in Nat /\ w \in Nat
  BY <1>4
<1> HIDE DEF v, w
<1>9. v = w /\ q = p
  BY <1>1, <1>4, <1>7, <1>8, PlaceIsOne
<1> QED BY <1>9 DEF v, w

--------------------------------------------------------------------------------
(* The calls.                                                              *)

Held(b, d, e) == Behind(b, d, e.st, e.log) /\ Len(e.log) \in 1 .. MaxStream /\ DOMAIN e = {"st", "log", "gone"}
AllHeld(b, d, s) == Listing(s) /\ \A h \in 1 .. Len(s) : Held(b, d, s[h])
\* The call that runs has made asked - left frames of its own.
Running(b, d, c) ==
  /\ Behind(b, d, c.st, c.log) /\ DOMAIN c = {"from", "left", "asked", "request", "st", "log"}
  /\ c.asked \in Nat /\ c.left \in 0 .. c.asked
  /\ c.asked - c.left <= Len(c.log) /\ Len(c.log) + c.left <= MaxStream
SystemInv ==
  /\ Pinned /\ calls \in 0 .. MaxCalls
  /\ AllHeld(backend, depthformer, held)
  /\ call = NoCall \/ Running(backend, depthformer, call)

LEMMA BehindNone ==
  ASSUME NEW b, NEW d
  PROVE  Behind(b, d, Began(b, d), <<>>)
<1> DEFINE f == [t \in {0} |-> Began(b, d)]
<1>1. Len(<<>>) = 0 /\ Listing(<<>>)
  BY DEF Listing
<1>2. f[0] = Began(b, d)
  OBVIOUS
<1> HIDE DEF f
<1>3. TraceTo(b, d, f, <<>>, 0)
  BY <1>2 DEF TraceTo
<1> QED BY <1>1, <1>2, <1>3 DEF Behind

Entry(b, st, r, s) ==
  [request |-> r, tokens |-> s.out[1], keys |-> LanesAt(b, st).rng, lanes |-> LanesAt(b, s.st).frame]

LEMMA BehindMore ==
  ASSUME NEW b, NEW d, NEW st, NEW log, Behind(b, d, st, log), NEW r
  PROVE  LET s == Stepped(b, d, st, r)
             more == Append(log, Entry(b, st, r, s))
         IN Behind(b, d, s.st, more) /\ Len(more) = Len(log) + 1
<1> DEFINE n == Len(log)  m == n + 1  s == Stepped(b, d, st, r)  e == Entry(b, st, r, s)  more == Append(log, e)
<1>1. n \in Nat /\ log = [t \in 1 .. n |-> log[t]]
  BY DEF Behind, Listing
<1>2. PICK f : TraceTo(b, d, f, log, n) /\ f[n] = st
  BY DEF Behind
<1>3. /\ e.request = r /\ e.tokens = s.out[1] /\ e.keys = LanesAt(b, st).rng /\ e.lanes = LanesAt(b, s.st).frame
  BY DEF Entry
<1>m. m \in Nat /\ m \in 1 .. m /\ m - 1 = n /\ m # 0 /\ ~(m <= n)
  BY <1>1
<1>n. \A t \in 1 .. m : t = m \/ t \in 1 .. n
  BY <1>1
<1>o. \A t \in 1 .. n : t \in 0 .. m /\ t - 1 \in 0 .. m /\ t # m /\ t - 1 # m /\ t <= n /\ t \in 1 .. m
  BY <1>1
<1>z. 0 \in 0 .. m /\ n \in 0 .. m /\ m \in 0 .. m /\ n # m /\ 0 # m
  <2>1. n \in Nat
    BY <1>1
  <2> HIDE DEF n
  <2> QED BY <2>1
<1> HIDE DEF e, n
<1>4. more = [t \in 1 .. m |-> IF t <= n THEN log[t] ELSE e] /\ Len(more) = m
  BY <1>1, AppendIs
<1> HIDE DEF m, more, s
<1>5. more[m] = e /\ \A t \in 1 .. n : more[t] = log[t]
  BY <1>4, <1>m, <1>o
<1>6. more = [t \in 1 .. m |-> more[t]]
  BY <1>4
<1> DEFINE g == [t \in 0 .. m |-> IF t = m THEN s.st ELSE f[t]]
<1>7. g[m] = s.st /\ g[n] = f[n] /\ g[0] = f[0] /\ \A t \in 1 .. n : g[t] = f[t] /\ g[t - 1] = f[t - 1]
  BY <1>o, <1>z
<1> HIDE DEF g
<1>8. f[0] = Began(b, d)
  BY <1>2 DEF TraceTo
<1>9. ASSUME NEW t \in 1 .. n
      PROVE  LET x == Stepped(b, d, g[t - 1], more[t].request)
             IN /\ g[t] = x.st /\ more[t].tokens = x.out[1]
                /\ more[t].keys = LanesAt(b, g[t - 1]).rng /\ more[t].lanes = LanesAt(b, x.st).frame
  <2>1. LET x == Stepped(b, d, f[t - 1], log[t].request)
        IN /\ f[t] = x.st /\ log[t].tokens = x.out[1]
           /\ log[t].keys = LanesAt(b, f[t - 1]).rng /\ log[t].lanes = LanesAt(b, x.st).frame
    BY <1>2 DEF TraceTo
  <2>2. g[t] = f[t] /\ g[t - 1] = f[t - 1] /\ more[t] = log[t]
    BY <1>5, <1>7
  <2> QED BY <2>1, <2>2
<1>10. LET x == Stepped(b, d, g[m - 1], more[m].request)
       IN /\ g[m] = x.st /\ more[m].tokens = x.out[1]
          /\ more[m].keys = LanesAt(b, g[m - 1]).rng /\ more[m].lanes = LanesAt(b, x.st).frame
  <2>1. g[m - 1] = st /\ more[m] = e
    BY <1>2, <1>5, <1>7, <1>m
  <2> QED BY <1>3, <1>7, <2>1 DEF s
<1>11. TraceTo(b, d, g, more, m)
  <2>1. ASSUME NEW t \in 1 .. m
        PROVE  LET x == Stepped(b, d, g[t - 1], more[t].request)
               IN /\ g[t] = x.st /\ more[t].tokens = x.out[1]
                  /\ more[t].keys = LanesAt(b, g[t - 1]).rng /\ more[t].lanes = LanesAt(b, x.st).frame
    <3>1. CASE t = m
      BY <1>10, <3>1
    <3>2. CASE t # m
      <4>1. t \in 1 .. n
        BY <1>n, <3>2
      <4> QED BY <1>9, <4>1
    <3> QED BY <3>1, <3>2
  <2> QED BY <1>7, <1>8, <2>1 DEF TraceTo
<1>12. Behind(b, d, s.st, more)
  BY <1>4, <1>6, <1>7, <1>11, <1>m DEF Behind, Listing
<1> QED BY <1>4, <1>12 DEF m, n, more, s, e

LEMMA DonatedHeld ==
  ASSUME NEW b, NEW d, NEW h, AllHeld(b, d, held)
  PROVE  AllHeld(b, d, Donated(h)) /\ Len(Donated(h)) = Len(held)
<1> DEFINE n == Len(held)  r == [held EXCEPT ![h].gone = TRUE]
<1>1. n \in Nat /\ held = [i \in 1 .. n |-> held[i]] /\ \A i \in 1 .. n : Held(b, d, held[i])
  BY DEF AllHeld, Listing
<1>2. r = [i \in 1 .. n |-> r[i]] /\ \A i \in 1 .. n : r[i] = IF i = h THEN [held[h] EXCEPT !.gone = TRUE] ELSE held[i]
  BY <1>1
<1> HIDE DEF r, n
<1>3. ASSUME NEW i \in 1 .. n PROVE Held(b, d, r[i])
  <2>1. Held(b, d, held[i])
    BY <1>1
  <2>2. CASE i # h
    BY <1>2, <2>1, <2>2
  <2>3. CASE i = h
    <3> DEFINE e == held[i]  u == [e EXCEPT !.gone = TRUE]
    <3>1. Held(b, d, e) /\ r[i] = u
      BY <1>2, <2>1, <2>3
    <3> HIDE DEF e
    <3>2. u.st = e.st /\ u.log = e.log /\ DOMAIN u = DOMAIN e
      BY <3>1 DEF Held
    <3> HIDE DEF u
    <3> QED BY <3>1, <3>2 DEF Held
  <2> QED BY <2>2, <2>3
<1>4. Len(r) = n
  BY <1>1, <1>2, AppendIs
<1>5. AllHeld(b, d, r)
  BY <1>1, <1>2, <1>3, <1>4 DEF AllHeld, Listing
<1>6. Donated(h) = r \/ Donated(h) = held
  BY DEF Donated, r
<1> QED BY <1>4, <1>5, <1>6 DEF n

\* The system's own words for the first state and the step.
LEMMA StepsAre ==
  ASSUME Pinned
  PROVE  /\ InitialState = Began(backend, depthformer)
         /\ \A st, r : StepOf(st, r) = Stepped(backend, depthformer, st, r)
         /\ \A st : LanesOf(st) = LanesAt(backend, st)
<1>1. InitialState = Began(backend, depthformer)
  BY DEF InitialState, Began
<1>2. \A st, r : StepOf(st, r) = Stepped(backend, depthformer, st, r)
  BY DEF StepOf, Stepped, Step, JaxStep, StreamingStep
<1>3. \A st : LanesOf(st) = LanesAt(backend, st)
  BY DEF LanesOf, LanesAt
<1> QED BY <1>1, <1>2, <1>3

LEMMA StreamBegins == SystemInit => SystemInv
<1> SUFFICES ASSUME SystemInit PROVE SystemInv
  OBVIOUS
<1>1. Pinned /\ held = <<>> /\ call = NoCall /\ calls = 0
  BY DEF SystemInit, Pinned, Backends
<1>2. AllHeld(backend, depthformer, held)
  <2>1. Len(<<>>) = 0 /\ <<>> = [t \in 1 .. 0 |-> <<>>[t]]
    OBVIOUS
  <2> QED BY <1>1, <2>1 DEF AllHeld, Listing
<1>3. calls \in 0 .. MaxCalls
  BY <1>1, SystemAssumption
<1> QED BY <1>1, <1>2, <1>3 DEF SystemInv

\* No action changes the model or the backend.
Steady ==
  /\ backend' = backend /\ depthformer' = depthformer
LEMMA StreamKept ==
  ASSUME SystemInv, Steady, calls' \in 0 .. MaxCalls, AllHeld(backend, depthformer, held'),
         call' = NoCall \/ Running(backend, depthformer, call')
  PROVE  SystemInv'
<1>1. Pinned' /\ calls' \in 0 .. MaxCalls
  BY DEF SystemInv, Steady, Pinned
<1>2. AllHeld(backend', depthformer', held')
  BY DEF Steady
<1>3. call' = NoCall \/ Running(backend', depthformer', call')
  BY DEF Steady
<1> QED BY <1>1, <1>2, <1>3 DEF SystemInv

LEMMA StreamContinues == SystemInv /\ [SystemNext]_mvars => SystemInv'
<1> SUFFICES ASSUME SystemInv, [SystemNext]_mvars PROVE SystemInv'
  OBVIOUS
<1> DEFINE b == backend  d == depthformer
<1>1. /\ Pinned /\ calls \in 0 .. MaxCalls /\ AllHeld(b, d, held)
      /\ call = NoCall \/ Running(b, d, call)
      /\ MaxCalls \in Nat /\ MaxStream \in Nat /\ FrameCounts \subseteq Nat
  BY SystemAssumption DEF SystemInv
<1>2. Len(held) \in Nat /\ \A h \in 1 .. Len(held) : Held(b, d, held[h])
  BY <1>1 DEF AllHeld, Listing
<1>3. \A h : AllHeld(b, d, Donated(h)) /\ Len(Donated(h)) = Len(held)
  BY <1>1, DonatedHeld
<1>4. CASE Generate
  <2>1. PICK from \in 0 .. Len(held), r \in Requests, n \in FrameCounts :
          /\ n + (IF from = 0 THEN 0 ELSE Len(held[from].log)) <= MaxStream
          /\ call' = [from |-> from, left |-> n, asked |-> n, request |-> r,
                      st |-> IF from = 0 THEN InitialState ELSE held[from].st,
                      log |-> IF from = 0 THEN <<>> ELSE held[from].log]
    BY <1>4 DEF Generate
  <2>2. /\ calls < MaxCalls /\ calls' = calls + 1 /\ held' = held /\ Steady
    BY <1>4 DEF Generate, Steady
  <2> DEFINE st == IF from = 0 THEN InitialState ELSE held[from].st
             log == IF from = 0 THEN <<>> ELSE held[from].log
  <2>3. Behind(b, d, st, log) /\ n + Len(log) <= MaxStream /\ n \in Nat /\ Len(log) \in Nat
    <3>1. CASE from = 0
      <4>1. Behind(b, d, InitialState, <<>>) /\ Len(<<>>) = 0
        BY <1>1, StepsAre, BehindNone
      <4> QED BY <1>1, <2>1, <3>1, <4>1
    <3>2. CASE from # 0
      <4>1. Held(b, d, held[from])
        BY <1>2, <3>2
      <4>2. Behind(b, d, held[from].st, held[from].log) /\ Len(held[from].log) \in Nat
        BY <4>1 DEF Held
      <4> QED BY <1>1, <2>1, <3>2, <4>2
    <3> QED BY <3>1, <3>2
  <2>4. call' = [from |-> from, left |-> n, asked |-> n, request |-> r, st |-> st, log |-> log]
    BY <2>1
  <2> HIDE DEF st, log, b, d
  <2> DEFINE c == [from |-> from, left |-> n, asked |-> n, request |-> r, st |-> st, log |-> log]
  <2>5. /\ c.st = st /\ c.log = log /\ c.left = n /\ c.asked = n
        /\ DOMAIN c = {"from", "left", "asked", "request", "st", "log"}
    OBVIOUS
  <2> HIDE DEF c
  <2>6. Running(b, d, c)
    BY <2>3, <2>5 DEF Running
  <2>7. Running(b, d, call')
    BY <2>4, <2>6 DEF c
  <2>8. calls' \in 0 .. MaxCalls
    BY <1>1, <2>2
  <2>9. AllHeld(b, d, held')
    BY <1>1, <2>2
  <2> QED BY <2>2, <2>7, <2>8, <2>9, StreamKept DEF b, d
<1>5. CASE GenerateRefused
  <2>1. calls < MaxCalls /\ calls' = calls + 1 /\ held' = held /\ call' = call /\ Steady
    BY <1>5 DEF GenerateRefused, Steady
  <2>2. calls' \in 0 .. MaxCalls
    BY <1>1, <2>1
  <2>3. AllHeld(b, d, held') /\ (call' = NoCall \/ Running(b, d, call'))
    <3> HIDE DEF b, d
    <3> QED BY <1>1, <2>1
  <2> QED BY <2>1, <2>2, <2>3, StreamKept
<1>6. CASE StepFrame
  <2> DEFINE st == call.st  r == call.request  s == Stepped(b, d, st, r)  more == Append(call.log, Entry(b, st, r, s))
  <2>1. call # NoCall /\ call.left > 0 /\ calls' = calls /\ Steady
    BY <1>6 DEF StepFrame, Idle, Steady
  <2>2. held' = held \/ held' = Donated(call.from)
    BY <1>6 DEF StepFrame
  <2>3. call' = [call EXCEPT !.left = @ - 1, !.st = s.st, !.log = more]
    <3>1. StepOf(st, r) = s /\ LanesOf(st) = LanesAt(b, st) /\ LanesOf(s.st) = LanesAt(b, s.st)
      BY <1>1, StepsAre
    <3>2. call' = [call EXCEPT !.left = @ - 1, !.st = StepOf(st, r).st,
                     !.log = Append(@, [request |-> r, tokens |-> StepOf(st, r).out[1],
                                        keys |-> LanesOf(st).rng, lanes |-> LanesOf(StepOf(st, r).st).frame])]
      BY <1>6 DEF StepFrame
    <3> HIDE DEF s
    <3> QED BY <3>1, <3>2 DEF Entry
  <2>4. Running(b, d, call)
    BY <1>1, <2>1
  <2>5. /\ Behind(b, d, st, call.log) /\ DOMAIN call = {"from", "left", "asked", "request", "st", "log"}
        /\ call.asked \in Nat /\ call.left \in 0 .. call.asked
        /\ call.asked - call.left <= Len(call.log) /\ Len(call.log) + call.left <= MaxStream
    BY <2>4 DEF Running
  <2>6. Behind(b, d, s.st, more) /\ Len(more) = Len(call.log) + 1 /\ Len(call.log) \in Nat
    <3>1. Len(call.log) \in Nat
      BY <2>5 DEF Behind, Listing
    <3> HIDE DEF st
    <3> QED BY <2>5, <3>1, BehindMore
  <2> HIDE DEF s, more, b, d
  <2>7. /\ call'.st = s.st /\ call'.log = more /\ call'.left = call.left - 1 /\ call'.asked = call.asked
        /\ DOMAIN call' = {"from", "left", "asked", "request", "st", "log"}
    BY <2>3, <2>5
  <2>8. /\ call'.left \in 0 .. call'.asked
        /\ call'.asked - call'.left <= Len(more) /\ Len(more) + call'.left <= MaxStream
    BY <1>1, <2>1, <2>5, <2>6, <2>7
  <2>9. Running(b, d, call')
    BY <2>5, <2>6, <2>7, <2>8 DEF Running
  <2>10. AllHeld(b, d, held')
    BY <1>1, <1>3, <2>2
  <2> QED BY <1>1, <2>1, <2>9, <2>10, StreamKept DEF b, d
<1>7. CASE StepDeleted
  <2>1. calls' = calls /\ held' = held /\ call' = NoCall /\ Steady
    BY <1>7 DEF StepDeleted, Steady
  <2>2. AllHeld(b, d, held')
    <3> HIDE DEF b, d
    <3> QED BY <1>1, <2>1
  <2> QED BY <1>1, <2>1, <2>2, StreamKept
<1>8. CASE StepFails
  <2>1. calls' = calls /\ (held' = held \/ held' = Donated(call.from)) /\ call' = NoCall /\ Steady
    BY <1>8 DEF StepFails, Steady
  <2>2. AllHeld(b, d, held')
    <3> HIDE DEF b, d
    <3> QED BY <1>1, <1>3, <2>1
  <2> QED BY <1>1, <2>1, <2>2, StreamKept
<1>9. CASE Return
  <2>1. /\ call # NoCall /\ call.left = 0 /\ calls' = calls /\ call' = NoCall /\ Steady
        /\ held' = IF call.asked = 0 THEN held
                   ELSE Append(held, [st |-> call.st, log |-> call.log, gone |-> FALSE])
    BY <1>9 DEF Return, Idle, Steady
  <2> DEFINE e == [st |-> call.st, log |-> call.log, gone |-> FALSE]  n == Len(held)
  <2>2. Running(b, d, call)
    BY <1>1, <2>1
  <2>3. ASSUME call.asked # 0 PROVE AllHeld(b, d, Append(held, e))
    <3>1. Behind(b, d, call.st, call.log) /\ call.asked \in Nat
          /\ call.asked - 0 <= Len(call.log) /\ Len(call.log) + 0 <= MaxStream /\ Len(call.log) \in Nat
      BY <2>1, <2>2 DEF Running, Behind, Listing
    <3>2. Len(call.log) \in 1 .. MaxStream
      BY <1>1, <2>3, <3>1
    <3>3. e.st = call.st /\ e.log = call.log /\ DOMAIN e = {"st", "log", "gone"}
      OBVIOUS
    <3> HIDE DEF e, b, d
    <3>4. Held(b, d, e)
      BY <3>1, <3>2, <3>3 DEF Held
    <3>5. n \in Nat /\ held = [i \in 1 .. n |-> held[i]]
      BY <1>1 DEF AllHeld, Listing
    <3>6. \A i \in 1 .. n : Held(b, d, held[i])
      BY <1>2
    <3> HIDE DEF n
    <3>7. Append(held, e) = [i \in 1 .. n + 1 |-> IF i <= n THEN held[i] ELSE e] /\ Len(Append(held, e)) = n + 1
      BY <3>5, AppendIs
    <3> DEFINE u == Append(held, e)
    <3>8. u = [i \in 1 .. n + 1 |-> u[i]] /\ n + 1 \in Nat
      BY <3>5, <3>7
    <3>9. \A i \in 1 .. n + 1 : u[i] = e \/ (i \in 1 .. n /\ u[i] = held[i])
      BY <3>5, <3>7
    <3>10. \A i \in 1 .. n + 1 : Held(b, d, u[i])
      <4> HIDE DEF u
      <4> QED BY <3>4, <3>6, <3>9
    <3>11. Len(u) = n + 1
      BY <3>7
    <3> HIDE DEF u
    <3>12. AllHeld(b, d, u)
      BY <3>8, <3>10, <3>11 DEF AllHeld, Listing
    <3> QED BY <3>12 DEF u
  <2>4. AllHeld(b, d, held')
    <3> HIDE DEF b, d, e
    <3>1. CASE call.asked = 0
      BY <1>1, <2>1, <3>1
    <3>2. CASE call.asked # 0
      BY <2>1, <2>3, <3>2 DEF e
    <3> QED BY <3>1, <3>2
  <2> QED BY <1>1, <2>1, <2>4, StreamKept
<1>10. CASE UNCHANGED mvars
  <2>1. calls' = calls /\ held' = held /\ call' = call /\ Steady
    BY <1>10 DEF mvars, Steady
  <2>2. AllHeld(b, d, held') /\ (call' = NoCall \/ Running(b, d, call'))
    <3> HIDE DEF b, d
    <3> QED BY <1>1, <2>1
  <2> QED BY <1>1, <2>1, <2>2, StreamKept
<1> QED BY <1>4, <1>5, <1>6, <1>7, <1>8, <1>9, <1>10 DEF SystemNext

LEMMA TypesHold == SystemInv => SystemTypeOK
<1> SUFFICES ASSUME SystemInv PROVE SystemTypeOK
  OBVIOUS
<1>1. /\ Pinned /\ calls \in 0 .. MaxCalls /\ AllHeld(backend, depthformer, held)
      /\ call = NoCall \/ Running(backend, depthformer, call)
  BY DEF SystemInv
<1>2. call.left \in 0 .. call.asked
  <2>1. NoCall.left = 0 /\ NoCall.asked = 0
    BY DEF NoCall
  <2> QED BY <1>1, <2>1 DEF Running
<1>3. ASSUME NEW h \in DOMAIN held
      PROVE  /\ Len(held[h].log) \in 1 .. MaxStream
             /\ \A t \in DOMAIN held[h].log :
                  /\ Len(held[h].log[t].tokens) = depthformer.levels
                  /\ Len(held[h].log[t].lanes) = Len(held[h].log[t].keys)
  <2> DEFINE log == held[h].log  n == Len(log)
  <2>1. Held(backend, depthformer, held[h])
    BY <1>1 DEF AllHeld, Listing
  <2>2. Behind(backend, depthformer, held[h].st, log) /\ n \in 1 .. MaxStream
    BY <2>1 DEF Held
  <2> HIDE DEF log, n
  <2>3. PICK f : Trace(f, log)
    BY <2>2 DEF Behind, Trace
  <2>4. Listing(log) /\ DOMAIN log = 1 .. n
    BY <2>2 DEF Behind, Listing, n
  <2>5. ASSUME NEW t \in DOMAIN log
        PROVE  Len(log[t].tokens) = depthformer.levels /\ Len(log[t].lanes) = Len(log[t].keys)
    <3> DEFINE s == log[t].tokens
    <3>1. s = [q \in 1 .. depthformer.levels |-> s[q]] /\ Len(log[t].lanes) = Len(log[t].keys)
      BY <1>1, <2>3, <2>4, EntriesAre DEF LogEntry, n
    <3>2. depthformer.levels \in Nat
      BY <1>1, ModelFits DEF Fits
    <3> HIDE DEF s
    <3>3. Len(s) = depthformer.levels
      BY <3>1, <3>2, AppendIs
    <3> QED BY <3>1, <3>3 DEF s
  <2> QED BY <2>2, <2>5 DEF log, n
<1>4. backend \in {"mlx", "jax", "mlxfn"}
  BY <1>1 DEF Pinned, Backends
<1> QED BY <1>1, <1>2, <1>3, <1>4 DEF SystemTypeOK

\* The log of a held state, with the states it went through.
LEMMA HeldTrace ==
  ASSUME SystemInv, NEW h \in DOMAIN held
  PROVE  /\ Pinned /\ Listing(held[h].log) /\ DOMAIN held[h].log = 1 .. Len(held[h].log)
         /\ Len(held[h].log) \in Nat /\ Len(held[h].log) # 0
         /\ \E f : Trace(f, held[h].log)
<1> DEFINE log == held[h].log
<1>1. Pinned /\ AllHeld(backend, depthformer, held)
  BY DEF SystemInv
<1>2. Behind(backend, depthformer, held[h].st, log) /\ Len(log) \in 1 .. MaxStream
  BY <1>1 DEF AllHeld, Listing, Held
<1> HIDE DEF log
<1>3. Listing(log) /\ DOMAIN log = 1 .. Len(log) /\ Len(log) \in Nat /\ Len(log) # 0
  BY <1>2 DEF Behind, Listing
<1>4. \E f : Trace(f, log)
  BY <1>2 DEF Behind, Trace
<1> QED BY <1>1, <1>3, <1>4 DEF log

LEMMA TrainedHolds == SystemInv => StreamIsTrained
<1> SUFFICES ASSUME SystemInv PROVE StreamIsTrained
  OBVIOUS
<1>1. \A h \in DOMAIN held : TrainedLog(held[h].log)
  <2> SUFFICES ASSUME NEW h \in DOMAIN held PROVE TrainedLog(held[h].log)
    OBVIOUS
  <2>1. /\ Pinned /\ Listing(held[h].log) /\ Len(held[h].log) # 0
        /\ \E f : Trace(f, held[h].log)
    BY HeldTrace
  <2> QED BY <2>1, LogMeans
<1> QED BY <1>1 DEF StreamIsTrained, TrainedLog

LEMMA SameHolds == SystemInv => SameRequestsSameTokens
<1> SUFFICES ASSUME SystemInv, NEW g \in DOMAIN held, NEW h \in DOMAIN held,
                    \A t \in DOMAIN held[g].log \cap DOMAIN held[h].log :
                      held[g].log[t].request = held[h].log[t].request
             PROVE  \A t \in DOMAIN held[g].log \cap DOMAIN held[h].log :
                      held[g].log[t].tokens = held[h].log[t].tokens
  BY DEF SameRequestsSameTokens
<1> DEFINE log == held[g].log  other == held[h].log  n == Len(log)  m == Len(other)  k == IF n <= m THEN n ELSE m
           b == backend  d == depthformer
<1>1. DOMAIN log = 1 .. n /\ n \in Nat /\ \E f : Trace(f, log)
  BY HeldTrace
<1>2. DOMAIN other = 1 .. m /\ m \in Nat /\ \E f : Trace(f, other)
  BY HeldTrace
<1>3. PICK f : TraceTo(b, d, f, log, n)
  BY <1>1 DEF Trace
<1>4. PICK e : TraceTo(b, d, e, other, m)
  BY <1>2 DEF Trace
<1>5. DOMAIN log \cap DOMAIN other = 1 .. k /\ k \in Nat /\ k <= n /\ k <= m
  <2> HIDE DEF n, m, log, other
  <2> QED BY <1>1, <1>2
<1>6. AskedAlike(log, other, k)
  BY <1>5 DEF AskedAlike
<1> HIDE DEF log, other, n, m, k, b, d
<1>7. MadeAlike(log, other, k)
  BY <1>1, <1>2, <1>3, <1>4, <1>5, <1>6, SameFrames, Zenon
<1> QED BY <1>5, <1>7 DEF log, other, MadeAlike

LEMMA FreshHolds == SystemInv => FreshNoise
<1> SUFFICES ASSUME SystemInv, NEW h \in DOMAIN held,
                    NEW t \in DOMAIN held[h].log, NEW u \in DOMAIN held[h].log,
                    NEW q \in 1 .. ActiveLevelsOf(depthformer), NEW p \in 1 .. ActiveLevelsOf(depthformer),
                    KeysAt(held[h].log, t, q)[1] = KeysAt(held[h].log, u, p)[1]
             PROVE  <<t, q>> = <<u, p>>
  BY DEF FreshNoise
<1> DEFINE log == held[h].log
<1>1. Pinned /\ Listing(log) /\ DOMAIN log = 1 .. Len(log) /\ \E f : Trace(f, log)
  BY HeldTrace
<1>2. PICK f : Trace(f, log)
  BY <1>1
<1>3. t \in 1 .. Len(log) /\ u \in 1 .. Len(log) /\ KeysAt(log, t, q)[1] = KeysAt(log, u, p)[1]
  BY <1>1
<1> HIDE DEF log
<1>4. t = u /\ q = p
  BY <1>1, <1>2, <1>3, KeysAreFresh
<1> QED BY <1>4

LEMMA LanesHold == SystemInv => LanesHearTheSame
<1> SUFFICES ASSUME SystemInv, NEW h \in DOMAIN held, NEW t \in DOMAIN held[h].log,
                    NEW i \in DOMAIN held[h].log[t].lanes
             PROVE  held[h].log[t].lanes[i] = held[h].log[t].tokens
  BY DEF LanesHearTheSame
<1> DEFINE log == held[h].log
<1>1. Pinned /\ Listing(log) /\ DOMAIN log = 1 .. Len(log) /\ \E f : Trace(f, log)
  BY HeldTrace
<1>2. PICK f : Trace(f, log)
  BY <1>1
<1>3. t \in 1 .. Len(log) /\ i \in DOMAIN log[t].lanes
  BY <1>1
<1> HIDE DEF log
<1>4. log[t].lanes = OnEveryLane(backend, log[t].tokens)
  BY <1>1, <1>2, <1>3, EntriesAre DEF LogEntry
<1>5. log[t].lanes[i] = log[t].tokens
  BY <1>3, <1>4 DEF OnEveryLane
<1> QED BY <1>5 DEF log

LEMMA StreamHeld == SystemSpec => []SystemInv
<1> QED BY StreamBegins, StreamContinues, PTL DEF SystemSpec

\* Whichever calls made a stream, whatever failed or was interrupted between
\* them and whichever state was gone on from twice, in generate() of MLX and of
\* JAX and in the exported function: its tokens are those that teacher forcing
\* with the layers of the model gives over the whole of it, with the keys of
\* its steps, and two streams asked for alike are alike.
THEOREM StreamsAreTrained == SystemSpec => []StreamHolds
<1>1. SystemInv => StreamHolds
  BY TypesHold, TrainedHolds, SameHolds DEF StreamHolds
<1> QED BY <1>1, StreamHeld, PTL

\* No two tokens of a stream are drawn with the noise of one key: in MLX the key
\* of a row is split after every level, in JAX the step is folded into it; and
\* the negatives of the guidance hear the frame that was heard, not their own.
THEOREM NoiseIsFresh == SystemSpec => [](FreshNoise /\ LanesHearTheSame)
<1>1. SystemInv => FreshNoise /\ LanesHearTheSame
  BY FreshHolds, LanesHold
<1> QED BY <1>1, StreamHeld, PTL

--------------------------------------------------------------------------------
(* Every activation, position and token is a number.                       *)

LEMMA SumTyped ==
  ASSUME NEW n \in Nat, NEW s, s = [i \in 1 .. n |-> s[i]], \A i \in 1 .. n : s[i] \in Int
  PROVE  SumOf(s) \in Int
<1>1. Total(s, n) = SumOf(s)
  BY DEF Total
<1>2. Total(s, n) \in Int
  BY SumStep
<1> QED BY <1>1, <1>2

Records2 == [v: Int, p: Int]
Filled(w, n) == w \in Seq(Records2) /\ Len(w) = n
LayerTyped(l, s) ==
  /\ Filled(s.keys, l.past + 1 + l.future) /\ Filled(s.queries, l.latency) /\ Filled(s.short, l.shortcut)
  /\ s.qn \in Int /\ s.kn \in Int
StackTyped(layers, states) == \A i \in 1 .. Len(layers) : LayerTyped(layers[i], states[i])

LEMMA ShiftTyped ==
  ASSUME NEW n \in Nat, NEW w, Filled(w, n), NEW e \in Records2
  PROVE  /\ Filled(Append(w, e), n + 1)
         /\ Head(Append(w, e)) \in Records2 /\ Filled(Tail(Append(w, e)), n)
         /\ n > 0 => Filled(Append(Tail(w), e), n)
<1>1. Append(w, e) \in Seq(Records2) /\ Len(Append(w, e)) = n + 1
  BY DEF Filled
<1> DEFINE a == Append(w, e)
<1>2. a \in Seq(Records2) /\ Len(a) = n + 1 /\ Len(a) > 0
  BY <1>1
<1> HIDE DEF a
<1>3. Head(a) \in Records2 /\ Tail(a) \in Seq(Records2) /\ Len(Tail(a)) = n
  BY <1>2
<1>4. ASSUME n > 0 PROVE Filled(Append(Tail(w), e), n)
  <2>1. Tail(w) \in Seq(Records2) /\ Len(Tail(w)) = n - 1
    BY <1>4 DEF Filled
  <2> DEFINE z == Tail(w)
  <2> HIDE DEF z
  <2> QED BY <2>1 DEF Filled, z
<1> QED BY <1>1, <1>2, <1>3, <1>4 DEF Filled, a

LEMMA AttendTyped ==
  ASSUME NEW l, l.rope \in BOOLEAN, NEW q \in Int, NEW p \in Int, NEW n \in Nat, NEW keys, Filled(keys, n)
  PROVE  Attend(l, q, p, keys) \in Int
<1> DEFINE w(i) == IF keys[i].v = Absent THEN 0
                   ELSE keys[i].v * (IF l.rope THEN 7 * (keys[i].p - p) + 50 ELSE 1)
           s == [i \in DOMAIN keys |-> w(i)]
<1>1. DOMAIN keys = 1 .. n /\ \A i \in 1 .. n : keys[i].v \in Int /\ keys[i].p \in Int
  <2>1. keys \in Seq(Records2) /\ Len(keys) = n
    BY DEF Filled
  <2>2. DOMAIN keys = 1 .. n /\ \A i \in 1 .. n : keys[i] \in Records2
    BY <2>1
  <2> QED BY <2>2 DEF Records2
<1>2. ASSUME NEW i \in 1 .. n PROVE w(i) \in Int
  <2> DEFINE f == IF l.rope THEN 7 * (keys[i].p - p) + 50 ELSE 1
  <2>1. f \in Int /\ keys[i].v \in Int
    BY <1>1
  <2> HIDE DEF f
  <2>2. keys[i].v * f \in Int
    BY <2>1
  <2> QED BY <2>2 DEF f
<1> HIDE DEF w
<1>3. s = [i \in 1 .. n |-> s[i]] /\ \A i \in 1 .. n : s[i] \in Int
  BY <1>1, <1>2
<1>4. Attend(l, q, p, keys) = (31 * q + SumOf(s)) % Prime
  BY DEF Attend, w
<1> HIDE DEF s
<1>5. SumOf(s) \in Int
  BY <1>3, SumTyped
<1> QED BY <1>4, <1>5 DEF Prime

LEMMA LayerStepTyped ==
  ASSUME NEW l, LayerType(l), NEW s, LayerTyped(l, s), NEW x \in Int, NEW src \in Int
  PROVE  LET r == StepLayer(l, s, x, src) IN r.out \in Int /\ LayerTyped(l, r.s)
<1> DEFINE k == IF l.kind = "cross" THEN src ELSE x
           r == StepKeyed(l, s, x, k)
           W == l.past + 1 + l.future
           keys == Append(Tail(s.keys), [v |-> k, p |-> s.kn])
           queries == Append(s.queries, [v |-> x, p |-> s.qn])
           short == Append(s.short, [v |-> x, p |-> 0])
<1>1. /\ W \in Nat /\ W > 0 /\ l.latency \in Nat /\ l.shortcut = l.latency /\ l.rope \in BOOLEAN /\ k \in Int
      /\ Filled(s.keys, W) /\ Filled(s.queries, l.latency) /\ Filled(s.short, l.latency)
      /\ s.qn \in Int /\ s.kn \in Int
  BY DEF LayerType, LayerTyped
<1>2. StepLayer(l, s, x, src) = r
  BY DEF StepLayer
<1> HIDE DEF W, k
<1>3. Filled(keys, W)
  <2> DEFINE e == [v |-> k, p |-> s.kn]  w == s.keys
  <2>1. e \in Records2 /\ Filled(w, W)
    BY <1>1 DEF Records2
  <2> HIDE DEF e, w
  <2>2. Filled(Append(Tail(w), e), W)
    BY <1>1, <2>1, ShiftTyped
  <2> QED BY <2>2 DEF e, w
<1>4. Head(queries) \in Records2 /\ Filled(Tail(queries), l.latency)
  <2> DEFINE e == [v |-> x, p |-> s.qn]  w == s.queries  n == l.latency
  <2>1. e \in Records2 /\ Filled(w, n) /\ n \in Nat
    BY <1>1 DEF Records2
  <2> HIDE DEF e, w, n
  <2>2. Head(Append(w, e)) \in Records2 /\ Filled(Tail(Append(w, e)), n)
    BY <2>1, ShiftTyped
  <2> QED BY <2>2 DEF e, w, n
<1>5. Head(short) \in Records2 /\ Filled(Tail(short), l.latency)
  <2> DEFINE e == [v |-> x, p |-> 0]  w == s.short  n == l.latency
  <2>1. e \in Records2 /\ Filled(w, n) /\ n \in Nat
    BY <1>1 DEF Records2
  <2> HIDE DEF e, w, n
  <2>2. Head(Append(w, e)) \in Records2 /\ Filled(Tail(Append(w, e)), n)
    BY <2>1, ShiftTyped
  <2> QED BY <2>2 DEF e, w, n
<1>6. r = ShiftedIn(l, s, x, k, keys, queries, short)
  BY DEF StepKeyed
<1> HIDE DEF keys, queries, short, r
<1>7. /\ r.out = Combined(BodyStep(l, Head(queries), keys), Head(short).v)
      /\ r.s.keys = keys /\ r.s.queries = Tail(queries) /\ r.s.short = Tail(short)
      /\ r.s.qn = Advance(l, s.qn, x) /\ r.s.kn = Advance(l, s.kn, k)
  BY <1>6 DEF ShiftedIn
<1>8. r.s.qn \in Int /\ r.s.kn \in Int
  BY <1>1, <1>7 DEF Advance
<1>9. r.out \in Int
  <2> DEFINE q == Head(queries)
  <2>1. q.v \in Int /\ q.p \in Int /\ Head(short).v \in Int
    BY <1>4, <1>5 DEF Records2
  <2> HIDE DEF q
  <2>2. Attend(l, q.v, q.p, keys) \in Int
    <3> DEFINE v == q.v  p == q.p
    <3>1. v \in Int /\ p \in Int /\ Filled(keys, W) /\ W \in Nat /\ l.rope \in BOOLEAN
      BY <1>1, <1>3, <2>1
    <3> HIDE DEF v, p
    <3>2. Attend(l, v, p, keys) \in Int
      BY <3>1, AttendTyped
    <3> QED BY <3>2 DEF v, p
  <2>3. BodyStep(l, q, keys) \in Int
    BY <2>1, <2>2 DEF BodyStep, FeedForward, Prime, Absent
  <2>4. r.out = Combined(BodyStep(l, q, keys), Head(short).v)
    BY <1>7 DEF q
  <2> QED BY <2>1, <2>3, <2>4 DEF Combined, Prime, Absent
<1>10. LayerTyped(l, r.s)
  BY <1>1, <1>3, <1>4, <1>5, <1>7, <1>8 DEF LayerTyped, W
<1> QED BY <1>2, <1>9, <1>10

LEMMA FreshTyped ==
  ASSUME NEW layers, NEW cross, Easy(layers, cross)
  PROVE  StackTyped(layers, FreshStack(layers))
<1>1. ASSUME NEW n \in Nat PROVE Filled(Blank(n), n)
  <2>1. Blank(n) \in [1 .. n -> Records2]
    BY DEF Blank, Records2, Absent
  <2> QED BY <2>1, SequenceIs DEF Filled
<1>2. ASSUME NEW i \in 1 .. Len(layers) PROVE LayerTyped(layers[i], FreshStack(layers)[i])
  <2> DEFINE l == layers[i]
  <2>1. LayerType(l) /\ FreshStack(layers)[i] = Fresh(l)
    BY DEF Easy, EasyLayer, FreshStack
  <2> HIDE DEF l
  <2>2. l.past + 1 + l.future \in Nat /\ l.latency \in Nat /\ l.shortcut \in Nat
    BY <2>1 DEF LayerType
  <2>3. LayerTyped(l, Fresh(l))
    BY <1>1, <2>2 DEF LayerTyped, Fresh
  <2> QED BY <2>1, <2>3 DEF l
<1> QED BY <1>2 DEF StackTyped

LEMMA StackStepTyped ==
  ASSUME NEW layers, NEW cross, Easy(layers, cross), NEW states, StackTyped(layers, states),
         NEW x \in Int, NEW src \in Int
  PROVE  LET r == StepStack(layers, states, x, src) IN r.out \in Int /\ StackTyped(layers, r.s)
<1> DEFINE n == Len(layers)  f == StackStepOf(layers, states, x, src)
           So(i) == /\ f[i].out \in Int /\ f[i].s = [j \in 1 .. i |-> f[i].s[j]]
                    /\ \A j \in 1 .. i : LayerTyped(layers[j], f[i].s[j])
           T == {i \in 0 .. n : So(i)}
<1>1. n \in Nat /\ \A i \in 1 .. n : LayerType(layers[i]) /\ LayerTyped(layers[i], states[i])
  BY DEF Easy, EasyLayer, StackTyped
<1>2. /\ StepStack(layers, states, x, src) = f[n] /\ f[0] = [out |-> x, s |-> <<>>]
      /\ \A i \in 1 .. n : f[i] = Through(f[i - 1], StepLayer(layers[i], states[i], f[i - 1].out, src))
  BY <1>1, StepOfIs DEF StepsTo
<1> HIDE DEF f, n
<1>3. 0 \in T
  BY <1>1, <1>2
<1>4. ASSUME NEW i \in 0 .. n - 1, i \in T PROVE i + 1 \in T
  <2> DEFINE m == i + 1  b == f[i]  l == layers[m]  s == states[m]  r == StepLayer(l, s, b.out, src)
  <2>1. m \in 1 .. n /\ m \in 0 .. n /\ m - 1 = i /\ i \in Nat
    BY <1>1
  <2>2. So(i)
    BY <1>4
  <2>3. f[m] = Through(b, r)
    BY <1>2, <2>1
  <2>4. LayerType(l) /\ LayerTyped(l, s) /\ b.out \in Int
    BY <1>1, <2>1, <2>2
  <2> HIDE DEF l, s
  <2>5. r.out \in Int /\ LayerTyped(l, r.s)
    BY <2>4, LayerStepTyped
  <2> HIDE DEF r
  <2>6. f[m].out = r.out /\ f[m].s = Append(b.s, r.s)
    BY <2>3 DEF Through
  <2>7. b.s = [j \in 1 .. i |-> b.s[j]] /\ \A j \in 1 .. i : LayerTyped(layers[j], b.s[j])
    BY <2>2
  <2> DEFINE z == b.s
  <2>8. z = [j \in 1 .. i |-> z[j]] /\ f[m].s = Append(z, r.s)
    BY <2>6, <2>7
  <2> HIDE DEF z
  <2>9. f[m].s = [j \in 1 .. m |-> IF j <= i THEN z[j] ELSE r.s]
    <3>1. Len(z) = i
      BY <2>1, <2>8
    <3>2. Append(z, r.s) = [j \in 1 .. i + 1 |-> IF j = i + 1 THEN r.s ELSE z[j]]
      BY <2>1, <2>8, <3>1
    <3> QED BY <2>1, <2>8, <3>2
  <2>10. ASSUME NEW j \in 1 .. m PROVE LayerTyped(layers[j], f[m].s[j])
    <3>1. CASE j <= i
      <4>1. f[m].s[j] = z[j] /\ j \in 1 .. i
        BY <2>1, <2>9, <3>1
      <4> QED BY <2>7, <4>1 DEF z
    <3>2. CASE j = m
      BY <2>1, <2>5, <2>9, <3>2 DEF l
    <3> QED BY <2>1, <3>1, <3>2
  <2>11. f[m].s = [j \in 1 .. m |-> f[m].s[j]]
    BY <2>9
  <2> QED BY <2>1, <2>5, <2>6, <2>10, <2>11
<1> HIDE DEF T
<1>5. \A i \in 0 .. n : i \in T
  BY <1>1, <1>3, <1>4, SetInduction
<1>6. n \in T
  BY <1>1, <1>5
<1> USE DEF T
<1>7. So(n)
  BY <1>6
<1> HIDE DEF So
<1>8. f[n].out \in Int /\ StackTyped(layers, f[n].s)
  BY <1>7 DEF So, StackTyped, n
<1> QED BY <1>2, <1>8

--------------------------------------------------------------------------------
(* A token is drawn from those its level may have.                         *)

Beats(l, v, w) == l[w] < l[v] \/ (l[w] = l[v] /\ v <= w)

LEMMA GreatestOf ==
  ASSUME NEW N \in Nat, NEW l, \A i \in 1 .. N : l[i] \in Int, NEW S, S \subseteq 1 .. N, S # {}
  PROVE  \E v \in S : \A w \in S : Beats(l, v, w)
<1> DEFINE Upto(k) == {w \in S : w <= k}
           T == {k \in 0 .. N : Upto(k) = {} \/ \E v \in Upto(k) : \A w \in Upto(k) : Beats(l, v, w)}
<1>0. \A w : w \in S => w \in 1 .. N /\ w \in Int /\ w >= 1 /\ w <= N
  OBVIOUS
<1>1. 0 \in T
  <2>1. Upto(0) = {}
    BY <1>0
  <2> QED BY <2>1
<1>2. ASSUME NEW k \in 0 .. N - 1, k \in T PROVE k + 1 \in T
  <2> DEFINE m == k + 1
  <2>1. m \in 0 .. N /\ k \in Nat /\ \A w : w \in S => (w <= m <=> w <= k \/ w = m)
    BY <1>0
  <2>2. CASE m \notin S
    <3>1. Upto(m) = Upto(k)
      BY <2>1, <2>2
    <3> QED BY <1>2, <2>1, <3>1
  <2>3. CASE m \in S /\ Upto(k) = {}
    <3>1. Upto(m) = {m}
      BY <2>1, <2>3
    <3>2. Beats(l, m, m)
      BY <2>1, <2>3 DEF Beats
    <3> QED BY <2>1, <3>1, <3>2
  <2>4. CASE m \in S /\ Upto(k) # {}
    <3>1. PICK v \in Upto(k) : \A w \in Upto(k) : Beats(l, v, w)
      BY <1>2, <2>4
    <3>2. Upto(m) = Upto(k) \cup {m} /\ v \in 1 .. N /\ v < m /\ l[v] \in Int /\ l[m] \in Int
      <4>1. Upto(m) = Upto(k) \cup {m}
        BY <1>0, <2>1, <2>4
      <4>2. v \in 1 .. N /\ v <= k /\ m \in 1 .. N
        BY <1>0, <2>4
      <4> QED BY <2>1, <4>1, <4>2
    <3>3. CASE l[m] > l[v]
      <4>1. Beats(l, m, m)
        BY <3>2 DEF Beats
      <4>2. ASSUME NEW w \in Upto(k) PROVE Beats(l, m, w)
        <5>1. Beats(l, v, w) /\ l[w] \in Int
          BY <3>1
        <5> QED BY <3>2, <3>3, <5>1 DEF Beats
      <4>3. \A w \in Upto(m) : Beats(l, m, w)
        BY <3>2, <4>1, <4>2
      <4> QED BY <2>1, <2>4, <4>3
    <3>4. CASE ~(l[m] > l[v])
      <4>1. Beats(l, v, m)
        BY <2>1, <3>2, <3>4 DEF Beats
      <4>2. \A w \in Upto(m) : Beats(l, v, w)
        BY <3>1, <3>2, <4>1
      <4> QED BY <2>1, <3>2, <4>2
    <3> QED BY <3>3, <3>4
  <2> QED BY <2>2, <2>3, <2>4
<1> HIDE DEF T
<1>3. \A k \in 0 .. N : k \in T
  BY <1>1, <1>2, SetInduction
<1>4. N \in T
  BY <1>3
<1>5. Upto(N) = S
  BY <1>0
<1> QED BY <1>4, <1>5 DEF T

LEMMA ArgMaxIs ==
  ASSUME NEW N \in Nat \ {0}, NEW l, l = [i \in 1 .. N |-> l[i]], \A i \in 1 .. N : l[i] \in Int
  PROVE  /\ ArgMax(l) + 1 \in 1 .. N
         /\ \A w \in 1 .. N : l[w] <= l[ArgMax(l) + 1]
<1> DEFINE P(n) == \A m \in DOMAIN l : l[m] < l[n] \/ (l[m] = l[n] /\ n <= m)
           c == CHOOSE n \in DOMAIN l : P(n)
<1>1. DOMAIN l = 1 .. N /\ DOMAIN l # {}
  OBVIOUS
<1>2. \E v \in 1 .. N : \A w \in 1 .. N : Beats(l, v, w)
  <2>1. 1 .. N \subseteq 1 .. N /\ 1 .. N # {} /\ N \in Nat
    OBVIOUS
  <2> QED BY <2>1, GreatestOf
<1>3. \E n \in DOMAIN l : P(n)
  BY <1>1, <1>2 DEF Beats
<1>4. c \in DOMAIN l /\ P(c)
  BY <1>3
<1>5. ArgMax(l) = c - 1
  BY DEF ArgMax
<1> HIDE DEF c
<1>6. c \in 1 .. N /\ ArgMax(l) + 1 = c
  BY <1>1, <1>4, <1>5
<1> QED BY <1>1, <1>4, <1>6

LEMMA IndicesFinite ==
  ASSUME NEW N \in Nat, NEW S, S \subseteq 1 .. N
  PROVE  /\ Cardinality(S) \in Nat /\ Cardinality(1 .. N) = N
         /\ (S = {} => Cardinality(S) = 0)
<1>1. IsFiniteSet(1 .. N) /\ Cardinality(1 .. N) = N
  <2>1. 1 \in Int /\ N \in Int
    OBVIOUS
  <2>2. /\ IsFiniteSet(1 .. N)
        /\ Cardinality(1 .. N) = IF 1 > N THEN 0 ELSE N - 1 + 1
    BY <2>1, FS_Interval
  <2> QED BY <2>2
<1>2. IsFiniteSet(S)
  BY <1>1, FS_Subset
<1> QED BY <1>1, <1>2, FS_CardinalityType, FS_EmptySet

LEMMA KthLargestIs ==
  ASSUME NEW N \in Nat \ {0}, NEW l, l = [i \in 1 .. N |-> l[i]], \A i \in 1 .. N : l[i] \in Int, NEW k \in 1 .. N
  PROVE  \E v \in 1 .. N : KthLargest(l, k) = l[v]
<1> DEFINE Above(x) == {v \in DOMAIN l : l[v] > x}
           From(x) == {v \in DOMAIN l : l[v] >= x}
           P(x) == Cardinality(Above(x)) < k /\ Cardinality(From(x)) >= k
           V == {v \in 1 .. N : Cardinality(From(l[v])) >= k}
           minus == [i \in 1 .. N |-> 0 - l[i]]
<1>1. DOMAIN l = 1 .. N /\ N \in Nat /\ \A x : Above(x) \subseteq 1 .. N /\ From(x) \subseteq 1 .. N
  OBVIOUS
<1>2. \A x : Cardinality(Above(x)) \in Nat /\ Cardinality(From(x)) \in Nat
  BY <1>1, IndicesFinite
<1>3. \A i \in 1 .. N : minus[i] \in Int
  OBVIOUS
<1>4. V # {}
  <2>1. 1 .. N # {}
    OBVIOUS
  <2>2. PICK v \in 1 .. N : \A w \in 1 .. N : Beats(minus, v, w)
    <3> HIDE DEF minus
    <3> QED BY <1>1, <1>3, <2>1, GreatestOf
  <2>3. \A w \in 1 .. N : l[w] >= l[v]
    BY <2>2 DEF Beats
  <2>4. From(l[v]) = 1 .. N
    BY <1>1, <2>3
  <2>5. Cardinality(From(l[v])) >= k
    <3>1. Cardinality(1 .. N) = N
      BY <1>1, IndicesFinite
    <3> HIDE DEF From
    <3> QED BY <2>4, <3>1
  <2> QED BY <2>5
<1>5. PICK v \in V : \A w \in V : Beats(l, v, w)
  <2>1. V \subseteq 1 .. N
    OBVIOUS
  <2> HIDE DEF V
  <2> QED BY <1>1, <1>4, <2>1, GreatestOf
<1>6. v \in 1 .. N /\ Cardinality(From(l[v])) >= k /\ l[v] \in Int
  BY <1>5
<1> DEFINE G == Above(l[v])
<1>7. Cardinality(G) < k
  <2>1. CASE G = {}
    <3>1. Cardinality(G) = 0
      BY <1>1, <2>1, IndicesFinite
    <3> QED BY <3>1
  <2>2. CASE G # {}
    <3>1. G \subseteq 1 .. N
      BY <1>1
    <3>2. PICK w \in G : \A u \in G : Beats(minus, w, u)
      <4> HIDE DEF G, minus
      <4> QED BY <1>1, <1>3, <2>2, <3>1, GreatestOf
    <3>3. w \in 1 .. N /\ l[w] > l[v] /\ \A u \in G : l[u] >= l[w]
      BY <1>1, <3>1, <3>2 DEF Beats
    <3>4. From(l[w]) = G
      BY <1>1, <1>6, <3>3
    <3>5. w \notin V
      <4>1. ASSUME w \in V PROVE FALSE
        <5>1. Beats(l, v, w)
          BY <1>5, <4>1
        <5> QED BY <1>6, <3>3, <5>1 DEF Beats
      <4> QED BY <4>1
    <3>6. ~(Cardinality(From(l[w])) >= k)
      BY <3>3, <3>5
    <3>7. Cardinality(G) \in Nat /\ k \in Nat
      <4> HIDE DEF G
      <4> QED BY <1>1, <3>1, IndicesFinite
    <3>8. ~(Cardinality(G) >= k)
      <4> HIDE DEF From, G
      <4> QED BY <3>4, <3>6
    <3> HIDE DEF G
    <3> QED BY <3>7, <3>8
  <2> QED BY <2>1, <2>2
<1>8. P(l[v]) /\ l[v] \in {l[u] : u \in DOMAIN l}
  BY <1>1, <1>6, <1>7
<1>9. KthLargest(l, k) = CHOOSE x \in {l[u] : u \in DOMAIN l} : P(x)
  BY DEF KthLargest
<1> HIDE DEF P
<1>10. KthLargest(l, k) \in {l[u] : u \in DOMAIN l}
  BY <1>8, <1>9
<1> QED BY <1>1, <1>10

\* The greatest of a row of logits is kept, and what is not kept is masked.
Numbers(l, N) == l = [i \in 1 .. N |-> l[i]] /\ \A i \in 1 .. N : l[i] \in Int
TopKept(t, l, N) ==
  /\ t = [i \in 1 .. N |-> t[i]]
  /\ \A i \in 1 .. N : t[i] \in {l[i], Masked}
  /\ \A b \in 1 .. N : (\A w \in 1 .. N : l[w] <= l[b]) => t[b] = l[b]
LEMMA TopKKeeps ==
  ASSUME NEW N \in Nat \ {0}, NEW l, Numbers(l, N), NEW k \in Int
  PROVE  TopKept(TopK(l, k), l, N)
<1> DEFINE kept == IF k < 1 THEN 1 ELSE IF k > Cardinality(DOMAIN l) THEN Cardinality(DOMAIN l) ELSE k
           x == KthLargest(l, kept)
           z == [n \in DOMAIN l |-> IF l[n] >= x THEN l[n] ELSE Masked]
<1>0. l = [i \in 1 .. N |-> l[i]] /\ \A i \in 1 .. N : l[i] \in Int
  BY DEF Numbers
<1>1. DOMAIN l = 1 .. N /\ Cardinality(1 .. N) = N
  BY <1>0, IndicesFinite
<1>2. kept \in 1 .. N
  BY <1>1
<1>3. TopK(l, k) = Listed(z)
  BY DEF TopK, AtLeastOrMasked
<1> HIDE DEF kept
<1>4. \E v \in 1 .. N : x = l[v]
  BY <1>0, <1>2, KthLargestIs
<1> HIDE DEF x
<1>5. z = [i \in 1 .. N |-> IF l[i] >= x THEN l[i] ELSE Masked]
  BY <1>1
<1> HIDE DEF z
<1>6. z = [i \in 1 .. N |-> z[i]] /\ N \in Nat
  BY <1>5
<1>7. TopK(l, k) = z
  BY <1>3, <1>6, ListedIs
<1>8. ASSUME NEW b \in 1 .. N, \A w \in 1 .. N : l[w] <= l[b] PROVE z[b] = l[b]
  <2>1. l[b] >= x
    BY <1>0, <1>4, <1>8
  <2> QED BY <1>5, <2>1
<1>9. \A i \in 1 .. N : z[i] \in {l[i], Masked}
  BY <1>5
<1> QED BY <1>6, <1>7, <1>8, <1>9 DEF TopKept

KeyTyped(key, m) == key.seed \in Int /\ Row(key.path, m) /\ \A j \in 1 .. m : key.path[j] \in Int

LEMMA NoiseTyped ==
  ASSUME NEW m \in Nat, NEW key, KeyTyped(key, m), NEW row \in Int, NEW v \in Int
  PROVE  Noise(key, row, v) \in 0 .. 16
<1> DEFINE p == key.path  s == [j \in DOMAIN p |-> (2 * j + 1) * (p[j] + 1)]
<1>1. p = [j \in 1 .. m |-> p[j]] /\ (\A j \in 1 .. m : p[j] \in Int) /\ key.seed \in Int
  BY DEF KeyTyped, Row
<1> HIDE DEF p
<1>2. \A j \in 1 .. m : (2 * j + 1) * (p[j] + 1) \in Int
  <2> TAKE j \in 1 .. m
  <2> DEFINE a == 2 * j + 1  c == p[j] + 1
  <2>1. a \in Int /\ c \in Int
    BY <1>1
  <2> HIDE DEF a, c
  <2>2. a * c \in Int
    BY <2>1
  <2> QED BY <2>2 DEF a, c
<1>3. DOMAIN p = 1 .. m
  BY <1>1
<1>4. s = [j \in 1 .. m |-> s[j]] /\ \A j \in 1 .. m : s[j] \in Int
  BY <1>2, <1>3
<1>5. PathSum(p) = SumOf(s)
  BY DEF PathSum
<1> HIDE DEF s
<1>6. PathSum(p) \in Int
  BY <1>4, <1>5, SumTyped
<1> DEFINE a == key.seed  c == PathSum(p)  e == 13 * a + 29 * c + 7 * row + 5 * v
<1>7. a \in Int /\ c \in Int
  BY <1>1, <1>6
<1>8. Noise(key, row, v) = e % 17
  BY DEF Noise, p
<1> HIDE DEF a, c
<1>9. e \in Int
  BY <1>7
<1> HIDE DEF e
<1> QED BY <1>8, <1>9

LEMMA NoisyIs ==
  ASSUME NEW e \in Int, NEW z \in 0 .. 16
  PROVE  e + z * 2 >= e /\ e + z * 2 <= e + 32 /\ e + z * 2 \in Int
OBVIOUS

Between(low, high, N) == low \in Nat /\ high \in Nat /\ low < high /\ high <= N

\* Whatever the noise, the mask lies below every logit above the floor.
Floor == -900000
LEMMA MaskIsLow == Masked + 32 < Floor /\ Masked \in Int /\ Floor \in Int /\ Floor < -810000
BY SMT DEF Masked, Floor

LEMMA DrawnIsOwn ==
  ASSUME NEW N \in Nat \ {0}, NEW l, l = [i \in 1 .. N |-> l[i]],
         \A i \in 1 .. N : l[i] \in Int /\ l[i] > Floor,
         NEW low, NEW high, Between(low, high, N),
         NEW k \in Int, NEW m \in Nat, NEW key, KeyTyped(key, m)
  PROVE  Drawn(TopK(InRange(l, low, high), k), 2, key, 1) \in low .. high - 1
<1> DEFINE w == [n \in DOMAIN l |-> IF n - 1 >= low /\ n - 1 < high THEN l[n] ELSE Masked]
           r == InRange(l, low, high)
           t == TopK(r, k)
           s == [n \in DOMAIN t |-> t[n] + Noise(key, 1, n - 1) * 2]
           c == ArgMax(s) + 1
<1>0. low \in Nat /\ high \in Nat /\ low < high /\ high <= N /\ N \in Nat
  BY DEF Between
<1>1. w = [i \in 1 .. N |-> IF i - 1 >= low /\ i - 1 < high THEN l[i] ELSE Masked]
  <2>1. DOMAIN l = 1 .. N
    OBVIOUS
  <2> QED BY <2>1
<1>2. r = w
  <2>1. w = [i \in 1 .. N |-> w[i]]
    BY <1>1
  <2>2. r = Listed(w)
    BY DEF InRange
  <2> HIDE DEF w
  <2> QED BY <1>0, <2>1, <2>2, ListedIs
<1> HIDE DEF w, r
<1>3. /\ r = [i \in 1 .. N |-> r[i]] /\ \A i \in 1 .. N : r[i] \in Int
      /\ \A i \in 1 .. N : r[i] # Masked => i - 1 >= low /\ i - 1 < high
      /\ \A i \in 1 .. N : i - 1 >= low /\ i - 1 < high => r[i] > Floor
  BY <1>0, <1>1, <1>2, MaskIsLow
<1>a. r = [i \in 1 .. N |-> r[i]] /\ \A i \in 1 .. N : r[i] \in Int
  BY <1>3
<1>4. PICK b \in 1 .. N : \A i \in 1 .. N : r[i] <= r[b]
  <2>1. ArgMax(r) + 1 \in 1 .. N /\ \A i \in 1 .. N : r[i] <= r[ArgMax(r) + 1]
    BY <1>a, ArgMaxIs
  <2> QED BY <2>1
<1>5. r[b] > Floor
  <2>1. low + 1 \in 1 .. N /\ low + 1 - 1 = low
    BY <1>0
  <2>2. r[low + 1] > Floor
    <3> DEFINE i == low + 1
    <3>1. i \in 1 .. N /\ i - 1 >= low /\ i - 1 < high
      BY <1>0, <2>1
    <3> HIDE DEF i
    <3>2. r[i] > Floor
      BY <1>3, <3>1
    <3> QED BY <3>2 DEF i
  <2>3. r[low + 1] <= r[b] /\ r[b] \in Int /\ r[low + 1] \in Int
    BY <1>3, <1>4, <2>1
  <2> QED BY <2>2, <2>3, MaskIsLow
<1>6. /\ t = [i \in 1 .. N |-> t[i]] /\ \A i \in 1 .. N : t[i] \in {r[i], Masked}
      /\ t[b] = r[b]
  <2>1. Numbers(r, N)
    BY <1>a DEF Numbers
  <2>2. TopKept(TopK(r, k), r, N)
    BY <2>1, TopKKeeps
  <2> HIDE DEF t
  <2>3. TopKept(t, r, N)
    BY <2>2 DEF t
  <2> QED BY <1>4, <2>3 DEF TopKept
<1>7. Drawn(t, 2, key, 1) = ArgMax(Listed(s))
  BY DEF Drawn
<1> HIDE DEF t
<1>8. \A i \in 1 .. N : Noise(key, 1, i - 1) \in 0 .. 16
  <2> TAKE i \in 1 .. N
  <2> DEFINE v == i - 1  o == 1
  <2>1. v \in Int /\ o \in Int
    OBVIOUS
  <2> HIDE DEF v, o
  <2>2. Noise(key, o, v) \in 0 .. 16
    BY <2>1, NoiseTyped
  <2> QED BY <2>2 DEF v, o
<1>9. DOMAIN t = 1 .. N
  BY <1>6
<1>10. \A i \in 1 .. N : /\ s[i] = t[i] + Noise(key, 1, i - 1) * 2 /\ t[i] \in Int
                          /\ s[i] >= t[i] /\ s[i] <= t[i] + 32 /\ s[i] \in Int
  <2> TAKE i \in 1 .. N
  <2>1. s[i] = t[i] + Noise(key, 1, i - 1) * 2
    BY <1>9
  <2>2. t[i] \in Int
    BY <1>3, <1>6, MaskIsLow
  <2> DEFINE z == Noise(key, 1, i - 1)
  <2>3. z \in 0 .. 16 /\ s[i] = t[i] + z * 2
    BY <1>8, <2>1
  <2> HIDE DEF s, z
  <2>4. s[i] >= t[i] /\ s[i] <= t[i] + 32 /\ s[i] \in Int
    <3> DEFINE a == s[i]  e == t[i]
    <3>1. e \in Int /\ z \in 0 .. 16 /\ a = e + z * 2
      BY <2>2, <2>3
    <3> HIDE DEF a, e
    <3>2. a >= e /\ a <= e + 32 /\ a \in Int
      BY <3>1, NoisyIs
    <3> QED BY <3>2 DEF a, e
  <2> QED BY <2>1, <2>2, <2>4
<1>11. s = [i \in 1 .. N |-> s[i]]
  BY <1>9
<1> HIDE DEF s
<1>12. Listed(s) = s
  BY <1>0, <1>11, ListedIs
<1>13. c \in 1 .. N /\ \A i \in 1 .. N : s[i] <= s[c]
  BY <1>10, <1>11, ArgMaxIs
<1> HIDE DEF c
<1>14. t[c] # Masked
  <2>1. s[b] <= s[c] /\ s[b] >= r[b] /\ s[b] \in Int /\ s[c] \in Int /\ s[c] <= t[c] + 32 /\ t[c] \in Int /\ r[b] \in Int
    BY <1>3, <1>4, <1>6, <1>10, <1>13
  <2> QED BY <1>5, <2>1, MaskIsLow
<1>15. c - 1 >= low /\ c - 1 < high
  <2>1. t[c] = r[c] /\ r[c] # Masked
    BY <1>6, <1>13, <1>14
  <2> QED BY <1>3, <1>13, <2>1
<1>16. Drawn(t, 2, key, 1) = c - 1
  <2>1. Drawn(t, 2, key, 1) = ArgMax(s) /\ c = ArgMax(s) + 1 /\ c \in Int
    <3>1. c = ArgMax(s) + 1
      BY DEF c
    <3> QED BY <1>7, <1>12, <1>13, <3>1
  <2>2. ArgMax(s) = (CHOOSE n \in DOMAIN s : \A u \in DOMAIN s : s[u] < s[n] \/ (s[u] = s[n] /\ n <= u)) - 1
    BY DEF ArgMax
  <2> DEFINE e == CHOOSE n \in DOMAIN s : \A u \in DOMAIN s : s[u] < s[n] \/ (s[u] = s[n] /\ n <= u)
  <2>3. \E n \in DOMAIN s : \A u \in DOMAIN s : s[u] < s[n] \/ (s[u] = s[n] /\ n <= u)
    <3>1. \A i \in 1 .. N : s[i] \in Int
      BY <1>10
    <3>2. 1 .. N \subseteq 1 .. N /\ 1 .. N # {}
      OBVIOUS
    <3>3. \E v \in 1 .. N : \A u \in 1 .. N : Beats(s, v, u)
      BY <1>0, <3>1, <3>2, GreatestOf
    <3> QED BY <1>11, <3>3 DEF Beats
  <2>4. e \in 1 .. N /\ ArgMax(s) = e - 1
    BY <1>11, <2>2, <2>3
  <2> HIDE DEF e
  <2> QED BY <2>1, <2>4
<1> QED BY <1>0, <1>13, <1>15, <1>16 DEF t, r

\* The token of all the lanes is drawn from the row of the first, with its key.
FirstDrawn(b, d, k, rows, keys, q) ==
  SampledFrom(rows, k, LaneScales(k.scales, Arity(b)), Arity(b), 1, ValidFrom(d, q), ValidFrom(d, q) + d.size,
              keys[1], 1)

LEMMA SampleIs ==
  ASSUME NEW b \in Backends, NEW d, NEW k, Sampling(b, k),
         NEW rows, rows = [i \in 1 .. Arity(b) |-> rows[i]],
         NEW keys, keys = [i \in 1 .. Arity(b) |-> keys[i]], NEW q
  PROVE  LevelSample(b, d, k, LaneScales(k.scales, Arity(b)), rows, keys, q)
         = OnEveryLane(b, FirstDrawn(b, d, k, rows, keys, q))
<1> DEFINE a == Arity(b)  scales == LaneScales(k.scales, a)  g == Cardinality(DOMAIN k.scales)
           low == ValidFrom(d, q)  high == ValidFrom(d, q) + d.size  first == keys[1]
           v == SampledFrom(rows, k, scales, a, 1, low, high, first, 1)
           Own(e) == SampledFrom(rows, k, scales, a, e, low, high, first, e)
           JaxOwn(e) == SampledFrom(rows, k, scales, a, e, low, high,
                                    IF Len(Strided(keys, a)) = 1 THEN Strided(keys, a)[1] ELSE Strided(keys, a)[e],
                                    IF Len(Strided(keys, a)) = 1 THEN e ELSE 1)
<1>1. a \in {1, 3} /\ g + 1 = a /\ DOMAIN k.scales = Guidance(b) /\ k.topp = <<>>
  BY ArityIs DEF Sampling
<1>2. Len(rows) = a
  BY <1>1
<1>3. ArityOf(scales, g) = a
  <2>1. scales = NoGuidance <=> a = 1
    BY <1>1, ScalesAre
  <2> HIDE DEF scales, a, g
  <2> QED BY <1>1, <2>1 DEF ArityOf
<1>4. Samplable(rows, k, a) /\ Len(rows) \div a = 1
  <2>1. CASE a = 1
    BY <1>1, <1>2, <2>1 DEF Samplable
  <2>2. CASE a = 3
    BY <1>1, <1>2, <2>2 DEF Samplable
  <2> QED BY <1>1, <2>1, <2>2
<1>5. Strided(keys, a)[1] = first
  <2> HIDE DEF a
  <2>1. keys = [i \in 1 .. a |-> keys[i]]
    BY DEF a
  <2> QED BY <1>1, <2>1, StridedIs
<1>6. ASSUME NEW s, s = [e \in 1 .. 1 |-> v] PROVE RepeatRows(Listed(s), a) = [i \in 1 .. a |-> v]
  <2> HIDE DEF v, a
  <2> DEFINE w == <<v>>
  <2>1. s = w /\ s = [i \in 1 .. 1 |-> s[i]]
    BY <1>6
  <2>2. Listed(s) = s
    <3>1. 1 \in Nat
      OBVIOUS
    <3> QED BY <2>1, <3>1, ListedIs
  <2> QED BY <2>1, <2>2, RepeatOne
<1>7. SampleCategorical(rows, k, keys, scales, g, low, high) = [i \in 1 .. a |-> v]
  <2> DEFINE s == [e \in 1 .. 1 |-> Own(e)]
  <2>1. SampleCategorical(rows, k, keys, scales, g, low, high) = RepeatRows(Listed(s), a)
    <3> HIDE DEF scales, a, g, low, high
    <3> QED BY <1>3, <1>4 DEF SampleCategorical, Sampled
  <2>2. s = [e \in 1 .. 1 |-> v]
    <3>1. \A e \in 1 .. 1 : Own(e) = v
      <4>1. \A e \in 1 .. 1 : e = 1
        OBVIOUS
      <4> HIDE DEF scales, a, low, high, first
      <4> QED BY <4>1
    <3> HIDE DEF Own, v
    <3> QED BY <3>1
  <2> HIDE DEF s, v, scales, a, g, low, high
  <2> QED BY <1>6, <2>1, <2>2
<1>8. JaxSampleCategorical(rows, k, keys, scales, g, low, high) = [i \in 1 .. a |-> v]
  <2> DEFINE s == [e \in 1 .. 1 |-> JaxOwn(e)]
  <2>1. JaxSampleCategorical(rows, k, keys, scales, g, low, high) = RepeatRows(Listed(s), a)
    <3> HIDE DEF scales, a, g, low, high
    <3> QED BY <1>3, <1>4 DEF JaxSampleCategorical, JaxSampled
  <2>2. s = [e \in 1 .. 1 |-> v]
    <3>1. \A e \in 1 .. 1 : JaxOwn(e) = v
      <4>1. \A e \in 1 .. 1 : e = 1
        OBVIOUS
      <4> HIDE DEF scales, a, low, high, first
      <4> QED BY <1>5, <4>1
    <3> HIDE DEF JaxOwn, v
    <3> QED BY <3>1
  <2> HIDE DEF s, v, scales, a, g, low, high
  <2> QED BY <1>6, <2>1, <2>2
<1>9. LevelSample(b, d, k, scales, rows, keys, q) = [i \in 1 .. a |-> v]
  <2> HIDE DEF scales, a, v
  <2> QED BY <1>7, <1>8 DEF LevelSample
<1> QED BY <1>9 DEF OnEveryLane, FirstDrawn

\* The row of the first lane, after guidance.
LogitRow(b, d, k, rows) ==
  IF Arity(b) = 1 THEN rows[1] ELSE Guided(rows, LaneScales(k.scales, Arity(b)), Arity(b), 1)
Constants(k) == k.topk # <<>> /\ k.topk[1] = 3 /\ k.temperature[1] = 2

LEMMA FirstIs ==
  ASSUME NEW b \in Backends, NEW d, NEW k, Sampling(b, k), Constants(k), NEW rows, NEW keys, NEW q
  PROVE  FirstDrawn(b, d, k, rows, keys, q)
         = Drawn(TopK(InRange(LogitRow(b, d, k, rows), ValidFrom(d, q), ValidFrom(d, q) + d.size), 3), 2, keys[1], 1)
<1> DEFINE a == Arity(b)  scales == LaneScales(k.scales, a)  low == ValidFrom(d, q)  high == low + d.size
           row == (1 - 1) * a + 1
<1>1. row = 1 /\ a \in {1, 3} /\ k.topp = <<>>
  BY ArityIs DEF Sampling
<1> HIDE DEF row, low, high, scales
<1>2. FirstDrawn(b, d, k, rows, keys, q) = SampledFrom(rows, k, scales, a, 1, low, high, keys[1], 1)
  BY DEF FirstDrawn, scales, low, high
<1>3. LogitRow(b, d, k, rows) = IF a = 1 THEN rows[1] ELSE Guided(rows, scales, a, 1)
  BY DEF LogitRow, scales
<1> HIDE DEF a
<1>4. SampledFrom(rows, k, scales, a, 1, low, high, keys[1], 1)
      = Drawn(ByTopP(ByTopK(InRange(IF a = 1 THEN rows[1] ELSE Guided(rows, scales, a, 1), low, high), k, row), k, row),
              k.temperature[row], keys[1], 1)
  BY DEF SampledFrom, row
<1>5. \A l : ByTopP(ByTopK(l, k, 1), k, 1) = TopK(l, 3)
  BY <1>1 DEF ByTopP, ByTopK, Constants
<1>6. k.temperature[row] = 2
  BY <1>1 DEF Constants
<1> QED BY <1>1, <1>2, <1>3, <1>4, <1>5, <1>6 DEF low, high

Hundreds(l, N) == l = [n \in 1 .. N |-> l[n]] /\ \A n \in 1 .. N : l[n] \in 0 .. 100
LEMMA LogitsTyped ==
  ASSUME NEW d, NEW N \in Nat \ {0}, VocabSize(d) = N, NEW h \in Int
  PROVE  Hundreds(Logits(d, h), N)
<1> DEFINE s == [n \in 1 .. N |-> (h * (2 * n + 1)) % 101]
<1>1. Logits(d, h) = Listed(s)
  BY DEF Logits
<1>2. \A n \in 1 .. N : (h * (2 * n + 1)) % 101 \in 0 .. 100
  <2> TAKE n \in 1 .. N
  <2> DEFINE c == 2 * n + 1  e == h * c
  <2>1. c \in Int
    OBVIOUS
  <2> HIDE DEF c
  <2>2. e \in Int
    BY <2>1
  <2> HIDE DEF e
  <2>3. e % 101 \in 0 .. 100
    BY <2>2
  <2> QED BY <2>3 DEF e, c
<1>3. s = [n \in 1 .. N |-> s[n]] /\ \A n \in 1 .. N : s[n] \in 0 .. 100
  BY <1>2
<1> HIDE DEF s
<1>4. Listed(s) = s
  BY <1>3, ListedIs
<1> QED BY <1>1, <1>3, <1>4 DEF Hundreds

LEMMA ProductBounded ==
  ASSUME NEW p \in Int, p >= -4000, p <= 4000, NEW e \in Int, e >= -100, e <= 100
  PROVE  p * e >= -400000 /\ p * e \in Int
<1>1. p * e \in Int
  BY SMT
<1>2. CASE e >= 0
  <2>1. (p + 4000) * e >= 0
    BY <1>2, SMT
  <2>2. (p + 4000) * e = p * e + 4000 * e
    BY SMT
  <2> QED BY <1>1, <2>1, <2>2, SMT
<1>3. CASE e < 0
  <2>1. (4000 - p) * (0 - e) >= 0
    BY <1>3, SMT
  <2>2. (4000 - p) * (0 - e) = p * e - 4000 * e
    BY SMT
  <2> QED BY <1>1, <1>3, <2>1, <2>2, SMT
<1> QED BY <1>2, <1>3, SMT

Scaled(s) == s \in Int /\ s >= -4000 /\ s <= 4000
LogitRows(rows, N) ==
  /\ rows[1] = [n \in 1 .. N |-> rows[1][n]]
  /\ \A i \in 1 .. 3 : \A n \in 1 .. N : rows[i][n] \in 0 .. 100

LEMMA GuidedIs ==
  ASSUME NEW N \in Nat \ {0}, NEW rows, LogitRows(rows, N), NEW scales, Scaled(scales[2]), Scaled(scales[3])
  PROVE  Numbers(Guided(rows, scales, 3, 1), N) /\ \A n \in 1 .. N : Guided(rows, scales, 3, 1)[n] > Floor
<1> DEFINE full == rows[(1 - 1) * 3 + 1]
           Push(i, n) == scales[(1 - 1) * 3 + i] * (full[n] - rows[(1 - 1) * 3 + i][n])
           z(n) == [i \in 1 .. 3 - 1 |-> Push(i + 1, n)]
           s == [n \in DOMAIN full |-> full[n] + SumOf(z(n))]
<1>1. Guided(rows, scales, 3, 1) = Listed(s)
  BY DEF Guided
<1>2. full = rows[1] /\ 3 - 1 = 2 /\ DOMAIN full = 1 .. N
  BY DEF LogitRows
<1>3. ASSUME NEW n \in 1 .. N
      PROVE  full[n] + SumOf(z(n)) \in Int /\ full[n] + SumOf(z(n)) > Floor
  <2> DEFINE p1 == scales[2]  p2 == scales[3]  f == rows[1][n]  e1 == f - rows[2][n]  e2 == f - rows[3][n]
             y == [i \in 1 .. 2 |-> IF i = 1 THEN p1 * e1 ELSE p2 * e2]
  <2>1. /\ f \in 0 .. 100 /\ rows[2][n] \in 0 .. 100 /\ rows[3][n] \in 0 .. 100
        /\ p1 \in Int /\ p1 >= -4000 /\ p1 <= 4000 /\ p2 \in Int /\ p2 >= -4000 /\ p2 <= 4000
    <3>1. \A i \in 1 .. 3 : rows[i][n] \in 0 .. 100
      BY DEF LogitRows
    <3>2. rows[1][n] \in 0 .. 100 /\ rows[2][n] \in 0 .. 100 /\ rows[3][n] \in 0 .. 100
      BY <3>1
    <3>3. Scaled(p1) /\ Scaled(p2)
      OBVIOUS
    <3> HIDE DEF p1, p2
    <3> QED BY <3>2, <3>3 DEF Scaled
  <2>2. e1 \in Int /\ e1 >= -100 /\ e1 <= 100 /\ e2 \in Int /\ e2 >= -100 /\ e2 <= 100
    <3> DEFINE u == rows[2][n]  v == rows[3][n]
    <3>1. f \in 0 .. 100 /\ u \in 0 .. 100 /\ v \in 0 .. 100
      BY <2>1
    <3> HIDE DEF f, u, v
    <3>2. f - u \in Int /\ f - u >= -100 /\ f - u <= 100 /\ f - v \in Int /\ f - v >= -100 /\ f - v <= 100
      BY <3>1, SMT
    <3> QED BY <3>2 DEF u, v
  <2>3. z(n) = y
    <3>1. \A i \in 1 .. 2 : Push(i + 1, n) = IF i = 1 THEN p1 * e1 ELSE p2 * e2
      <4> TAKE i \in 1 .. 2
      <4>1. CASE i = 1
        <5>1. (1 - 1) * 3 + (i + 1) = 2 /\ full[n] = f
          BY <1>2, <4>1
        <5> HIDE DEF full, f
        <5> QED BY <4>1, <5>1
      <4>2. CASE i = 2
        <5>1. (1 - 1) * 3 + (i + 1) = 3 /\ full[n] = f
          BY <1>2, <4>2
        <5> HIDE DEF full, f
        <5> QED BY <4>2, <5>1
      <4> QED BY <4>1, <4>2
    <3> HIDE DEF Push, p1, p2, e1, e2
    <3> QED BY <1>2, <3>1
  <2> HIDE DEF z, p1, p2, e1, e2, f
  <2> DEFINE a == p1 * e1  c == p2 * e2
  <2>4. a \in Int /\ a >= -400000
    BY <2>1, <2>2, ProductBounded
  <2>5. c \in Int /\ c >= -400000
    BY <2>1, <2>2, ProductBounded
  <2> HIDE DEF a, c
  <2>6. y = [i \in 1 .. 2 |-> IF i = 1 THEN a ELSE c]
    BY DEF a, c
  <2> HIDE DEF y
  <2>7. y[1] = a /\ y[2] = c /\ y = [i \in 1 .. 2 |-> y[i]] /\ \A i \in 1 .. 2 : y[i] \in Int
    BY <2>4, <2>5, <2>6
  <2>8. SumOf(y) = a + c
    <3>1. Total(y, 2) = SumOf(y)
      BY <2>7 DEF Total
    <3>2. Total(y, 2) = Total(y, 1) + y[2]
      <4>1. 2 \in Nat /\ 2 > 0 /\ 2 - 1 = 1
        OBVIOUS
      <4>2. Total(y, 2) = Total(y, 2 - 1) + y[2]
        BY <2>7, <4>1, SumStep
      <4> QED BY <4>1, <4>2
    <3>3. Total(y, 1) = Total(y, 0) + y[1] /\ Total(y, 0) = 0
      <4>1. 1 \in Nat /\ 1 > 0 /\ 1 - 1 = 0 /\ \A i \in 1 .. 1 : y[i] \in Int
        BY <2>7
      <4>2. Total(y, 1) = Total(y, 1 - 1) + y[1] /\ Total(y, 0) = 0
        BY <4>1, SumStep
      <4> QED BY <4>1, <4>2
    <3> HIDE DEF a, c
    <3> QED BY <2>4, <2>5, <2>7, <3>1, <3>2, <3>3
  <2>9. full[n] = f /\ f \in Int /\ f >= 0
    <3>1. full[n] = f
      BY <1>2 DEF f
    <3> QED BY <2>1, <3>1, SMT
  <2> QED BY <2>3, <2>4, <2>5, <2>8, <2>9, MaskIsLow, SMT
<1> HIDE DEF z
<1>4. s = [n \in 1 .. N |-> s[n]] /\ \A n \in 1 .. N : s[n] \in Int /\ s[n] > Floor
  BY <1>2, <1>3
<1> HIDE DEF s
<1>5. Listed(s) = s
  BY <1>4, ListedIs
<1> QED BY <1>1, <1>4, <1>5 DEF Numbers

--------------------------------------------------------------------------------
(* What is asked becomes rows of numbers, one for each channel.            *)

Channels == StyleTokens + NoteTokens + DrumTokens + 3
ChannelRow(row) == row \in Seq(Int) /\ Len(row) = Channels
WellAsked(r) == r \in Requests /\ WellFormed(r)

LEMMA InputsAre ==
  /\ Model.inputs \in Seq(TokensFields) /\ Len(Model.inputs) = 5 /\ DOMAIN Model.inputs = 1 .. 5
  /\ \A i \in 1 .. 5 : Model.inputs[i] \in TokensFields
  /\ \A i \in 1 .. 5 : Model.inputs[i].used \in Nat \ {0} /\ Model.inputs[i].codebook \in Nat \ {0}
                       /\ Model.inputs[i].extra = 6 /\ Model.inputs[i].dropout \in BOOLEAN
  /\ \A i \in 1 .. 3 : Model.inputs[i].dropout
  /\ Model.inputs[4].used = 2 /\ Model.inputs[5].used = 1
<1> DEFINE s == Model.inputs
<1>1. s \in Seq(TokensFields) /\ Len(s) = 5 /\ (\A i \in 1 .. 3 : s[i].dropout) /\ s[4].used = 2 /\ s[5].used = 1
  BY SystemAssumption
<1> HIDE DEF s
<1>2. DOMAIN s = 1 .. 5 /\ \A i \in 1 .. 5 : s[i] \in TokensFields
  <2> DEFINE S == TokensFields
  <2>1. s \in Seq(S) /\ Len(s) = 5
    BY <1>1
  <2> HIDE DEF S
  <2>2. DOMAIN s = 1 .. 5 /\ \A i \in 1 .. 5 : s[i] \in S
    BY <2>1
  <2> QED BY <2>2 DEF S
<1>3. \A i \in 1 .. 5 : /\ s[i].used \in Nat \ {0} /\ s[i].codebook \in Nat \ {0} /\ s[i].extra = 6
                        /\ s[i].dropout \in BOOLEAN
  BY <1>2 DEF TokensFields, NumReservedTokens
<1> QED BY <1>1, <1>2, <1>3 DEF s

LEMMA CountsAre == StyleTokens \in Nat \ {0} /\ NoteTokens \in Nat \ {0} /\ DrumTokens \in Nat \ {0} /\ Channels \in Nat
<1>1. StyleTokens \in Nat \ {0} /\ NoteTokens \in Nat \ {0} /\ DrumTokens \in Nat \ {0}
  BY InputsAre DEF StyleTokens, NoteTokens, DrumTokens
<1> QED BY <1>1 DEF Channels

Lengthy(s, n) == s \in Seq(Int) /\ Len(s) = n

LEMMA FillIs ==
  ASSUME NEW n \in Nat, NEW v \in Int
  PROVE  Lengthy(Fill(n, v), n)
BY DEF Fill, Lengthy

LEMMA ShiftedIs ==
  ASSUME NEW n \in Nat, NEW s, Lengthy(s, n)
  PROVE  Lengthy(Shifted(s), n)
<1>1. DOMAIN s = 1 .. n /\ \A i \in 1 .. n : s[i] \in Int
  BY DEF Lengthy
<1>2. Shifted(s) \in [1 .. n -> Int]
  BY <1>1 DEF Shifted, NumReservedTokens
<1> QED BY <1>2, SequenceIs DEF Lengthy

LEMMA ListsAre ==
  ASSUME NEW r, WellAsked(r)
  PROVE  /\ Lengthy(PaddedStyle(r.style), StyleTokens)
         /\ Lengthy(OrMasked(r.notes, NoteTokens), NoteTokens)
         /\ Lengthy(OrMasked(r.drums, DrumTokens), DrumTokens)
<1>1. r.style \in Seq(Int) /\ r.notes \in Seq(Int) /\ r.drums \in Seq(Int)
  BY AskedAssumption DEF WellAsked
<1>2. Lengthy(PaddedStyle(r.style), StyleTokens)
  <2> DEFINE n == StyleTokens  blank == Fill(n, -1)  tokens == IF r.style = <<>> THEN blank ELSE r.style
             z == tokens \o blank
  <2>1. n \in Nat /\ -1 \in Int
    BY CountsAre
  <2> HIDE DEF n
  <2>2. blank \in Seq(Int) /\ Len(blank) = n
    BY <2>1, FillIs DEF Lengthy
  <2> HIDE DEF blank
  <2>3. tokens \in Seq(Int)
    BY <1>1, <2>2
  <2> HIDE DEF tokens
  <2>4. z \in Seq(Int) /\ Len(z) = Len(tokens) + n /\ Len(tokens) \in Nat
    BY <2>2, <2>3
  <2> HIDE DEF z
  <2>5. SubSeq(z, 1, n) \in Seq(Int) /\ Len(SubSeq(z, 1, n)) = n
    BY <2>1, <2>4
  <2> QED BY <2>5 DEF PaddedStyle, Lengthy, z, tokens, blank, n
<1>3. OrMasked(r.notes, NoteTokens) \in Seq(Int) /\ OrMasked(r.drums, DrumTokens) \in Seq(Int)
  <2>1. Fill(NoteTokens, -1) \in Seq(Int) /\ Fill(DrumTokens, -1) \in Seq(Int)
    BY CountsAre, FillIs DEF Lengthy
  <2> QED BY <1>1, <2>1 DEF OrMasked
<1> QED BY <1>2, <1>3 DEF WellAsked, WellFormed, Lengthy

ScalesTyped(s) == \A g \in {"musiccoca", "notes", "drums"} : Scaled(s[g])

LEMMA ScaleIs ==
  ASSUME NEW r, WellAsked(r), NEW g \in {"musiccoca", "notes", "drums"}
  PROVE  Scaled(Scale(r, g))
<1> DEFINE s == r.scales  v == s[g]  names == {"musiccoca", "notes", "drums"}
<1>1. s \in [names -> ScaleRange]
  BY AskedAssumption DEF WellAsked
<1>a. v \in ScaleRange
  <2> HIDE DEF s
  <2> QED BY <1>1
<1> HIDE DEF v
<1>2. v \in Int /\ v >= -4000 /\ v <= 4000
  BY <1>a, SMT DEF ScaleRange
<1>3. Scale(r, g) = IF v = Unset THEN DefaultScales[g] ELSE v
  BY DEF Scale, v
<1>4. DefaultScales[g] \in {10, 30}
  BY DEF DefaultScales
<1> QED BY <1>2, <1>3, <1>4 DEF Scaled

LEMMA DiscreteTyped ==
  ASSUME NEW v \in Int, NEW step \in {2, 10}, NEW top \in Nat, NEW offset \in Int
  PROVE  /\ DiscretizeCfg(v, step, top) \in Int /\ JaxDiscretizeCfg(v, step, top) \in Int
         /\ DiscretizeCfgToken(v, step, top, offset) \in Int
<1> DEFINE n == Clamp(-10, 70, v) + 10  m == RoundedRatio(n, step)
<1>1. n \in Int
  BY DEF Clamp
<1> HIDE DEF n
<1>2. m \in Int
  <2>1. n \div step \in Int /\ n % step \in Int
    BY <1>1
  <2> QED BY <2>1 DEF RoundedRatio
<1>3. DiscretizeCfg(v, step, top) = Clamp(0, top, m) /\ DiscretizeCfgToken(v, step, top, offset) = offset + Clamp(0, top, m)
  BY DEF DiscretizeCfg, DiscretizeCfgToken, n
<1> HIDE DEF m
<1>4. Clamp(0, top, m) \in Int
  BY <1>2 DEF Clamp
<1> QED BY <1>3, <1>4 DEF JaxDiscretizeCfg

LEMMA JoinedIs ==
  ASSUME NEW n \in Nat, NEW m \in Nat, NEW s, Lengthy(s, n), NEW t, Lengthy(t, m)
  PROVE  Lengthy(s \o t, n + m)
BY DEF Lengthy

LEMMA ThreeIs ==
  ASSUME NEW a \in Int, NEW b \in Int, NEW c \in Int
  PROVE  Lengthy(<<a, b, c>>, 3)
BY DEF Lengthy

LEMMA ChannelsJoin ==
  ASSUME NEW s, NEW t, NEW u, NEW v, Lengthy(s, StyleTokens), Lengthy(t, NoteTokens), Lengthy(u, DrumTokens), Lengthy(v, 3)
  PROVE  /\ ChannelRow(Shifted(s \o t \o u \o v))
         /\ ChannelRow(Shifted(s \o t \o u) \o v)
<1>1. StyleTokens \in Nat /\ NoteTokens \in Nat /\ DrumTokens \in Nat /\ 3 \in Nat
  BY CountsAre
<1> DEFINE a == StyleTokens + NoteTokens  b == a + DrumTokens  c == b + 3
           st == s \o t  stu == st \o u  all == stu \o v
<1>2. a \in Nat /\ b \in Nat /\ c \in Nat
  BY <1>1
<1>3. Lengthy(st, a)
  BY <1>1, JoinedIs
<1> HIDE DEF st, a
<1>4. Lengthy(stu, b)
  BY <1>1, <1>2, <1>3, JoinedIs
<1> HIDE DEF stu, b
<1>5. Lengthy(all, c)
  BY <1>1, <1>2, <1>4, JoinedIs
<1>6. Lengthy(Shifted(stu), b)
  BY <1>2, <1>4, ShiftedIs
<1>7. Lengthy(Shifted(stu) \o v, c)
  BY <1>1, <1>2, <1>6, JoinedIs
<1> HIDE DEF all
<1>8. Lengthy(Shifted(all), c)
  <2> HIDE DEF c
  <2> QED BY <1>2, <1>5, ShiftedIs
<1>9. c = Channels
  BY DEF Channels, b, a
<1> QED BY <1>7, <1>8, <1>9 DEF ChannelRow, Lengthy, all, stu, st

ScalesOnLanes(s, p, q) ==
  /\ DOMAIN s = {"musiccoca", "notes"}
  /\ s["musiccoca"] = [i \in 1 .. 3 |-> p] /\ s["notes"] = [i \in 1 .. 3 |-> q]
LEMMA LaneScalesThree ==
  ASSUME NEW s, NEW p, NEW q, ScalesOnLanes(s, p, q)
  PROVE  LaneScales(s, 3)[2] = p /\ LaneScales(s, 3)[3] = q
<1>0. /\ DOMAIN s = {"musiccoca", "notes"}
      /\ s["musiccoca"] = [i \in 1 .. 3 |-> p] /\ s["notes"] = [i \in 1 .. 3 |-> q]
  BY DEF ScalesOnLanes
<1> DEFINE Batch(v) == IF Len(v) = 3 THEN Strided(v, 3) ELSE RepeatRows(v, 3 \div 3)
           z == [i \in 1 .. 3 \div 3 |-> 0]
           t == [j \in 1 .. 2 |-> Batch(Sorted(s)[j])]  ss == <<z>> \o t
<1>1. LaneScales(s, 3) = InterleaveSequences(ss)
  <2>1. 3 - 1 = 2 /\ 3 # 1 /\ Cardinality(DOMAIN s) + 1 = 3
    BY <1>0, GuidanceNumber
  <2> QED BY <2>1 DEF LaneScales, OnLanes
<1>2. DOMAIN z = 1 .. 1
  <2>1. 3 \div 3 = 1
    OBVIOUS
  <2> QED BY <2>1
<1>3. t[1] = Strided(s["musiccoca"], 3) /\ t[2] = Strided(s["notes"], 3)
  <2>1. Sorted(s) = [j \in 1 .. 2 |-> IF j = 1 THEN s["musiccoca"] ELSE s["notes"]]
    BY <1>0, SortedTwo
  <2>2. Sorted(s)[1] = s["musiccoca"] /\ Sorted(s)[2] = s["notes"]
    BY <2>1
  <2>3. \A v : Len([i \in 1 .. 3 |-> v]) = 3
    <3> TAKE v
    <3>1. [i \in 1 .. 3 |-> v] \in [1 .. 3 -> {v}] /\ 3 \in Nat
      OBVIOUS
    <3> QED BY <3>1, SequenceIs
  <2>4. Len(s["musiccoca"]) = 3 /\ Len(s["notes"]) = 3
    BY <1>0, <2>3
  <2>5. t[1] = Batch(Sorted(s)[1]) /\ t[2] = Batch(Sorted(s)[2])
    OBVIOUS
  <2> QED BY <2>2, <2>4, <2>5
<1>4. t = [j \in 1 .. 2 |-> t[j]]
  OBVIOUS
<1> HIDE DEF z, t
<1>5. ss = [j \in 1 .. 3 |-> IF j = 1 THEN z ELSE t[j - 1]]
  BY <1>4, BeforeTwo
<1> HIDE DEF ss
<1>6. ss = [j \in 1 .. 3 |-> ss[j]] /\ ss[1] = z /\ ss[2] = t[1] /\ ss[3] = t[2]
  BY <1>5
<1>7. InterleaveSequences(ss) = [j \in 1 .. 3 |-> ss[j][1]]
  <2>1. 3 \in Nat \ {0} /\ DOMAIN ss[1] = 1 .. 1
    BY <1>2, <1>6
  <2> QED BY <1>6, <2>1, InterleaveOne
<1>8. InterleaveSequences(ss)[2] = t[1][1] /\ InterleaveSequences(ss)[3] = t[2][1]
  BY <1>6, <1>7
<1>9. \A v : Strided([i \in 1 .. 3 |-> v], 3)[1] = v
  <2> TAKE v
  <2> DEFINE w == [i \in 1 .. 3 |-> v]
  <2>1. w = [i \in 1 .. 3 |-> w[i]] /\ w[1] = v /\ 3 \in {1, 3}
    OBVIOUS
  <2> HIDE DEF w
  <2>2. Strided(w, 3)[1] = w[1]
    BY <2>1, StridedIs
  <2> QED BY <2>1, <2>2 DEF w
<1> QED BY <1>0, <1>1, <1>3, <1>8, <1>9

LEMMA NegativesAre ==
  ASSUME NEW r, WellAsked(r), NEW s, Lengthy(s, 3)
  PROVE  LET a == BuildMlxfnArgs(r)
         IN ChannelRow(a.cond \o s) /\ ChannelRow(a.musiccoca \o s) /\ ChannelRow(a.notes \o s)
<1> DEFINE style == PaddedStyle(r.style)  notes == OrMasked(r.notes, NoteTokens)  drums == OrMasked(r.drums, DrumTokens)
           a == BuildMlxfnArgs(r)
<1>1. Lengthy(style, StyleTokens) /\ Lengthy(notes, NoteTokens) /\ Lengthy(drums, DrumTokens)
  BY ListsAre
<1>2. /\ a.cond = Shifted(style \o notes \o drums)
      /\ a.musiccoca = Shifted(Fill(Len(style), -1) \o notes \o drums)
      /\ a.notes = Shifted(style \o Fill(Len(notes), -1) \o drums)
  BY DEF BuildMlxfnArgs
<1> HIDE DEF style, notes, drums, a
<1>3. Len(style) = StyleTokens /\ Len(notes) = NoteTokens
  BY <1>1 DEF Lengthy
<1>4. Lengthy(Fill(StyleTokens, -1), StyleTokens) /\ Lengthy(Fill(NoteTokens, -1), NoteTokens)
  <2>1. StyleTokens \in Nat /\ NoteTokens \in Nat /\ -1 \in Int
    BY CountsAre
  <2> QED BY <2>1, FillIs
<1>5. ChannelRow(a.cond \o s)
  BY <1>1, <1>2, ChannelsJoin
<1>6. ChannelRow(a.musiccoca \o s)
  BY <1>1, <1>2, <1>3, <1>4, ChannelsJoin
<1>7. ChannelRow(a.notes \o s)
  BY <1>1, <1>2, <1>3, <1>4, ChannelsJoin
<1> QED BY <1>5, <1>6, <1>7 DEF a

\* What a step is given of a request.
TypedConditioning(b, r) ==
  /\ \A i \in 1 .. Arity(b) : ChannelRow(RowsFor(b, Conditioned(b, r))[i])
  /\ Constants(ConstantsOf(b, r))
  /\ Arity(b) = 3 => /\ Scaled(LaneScales(ConstantsOf(b, r).scales, 3)[2])
                     /\ Scaled(LaneScales(ConstantsOf(b, r).scales, 3)[3])

LEMMA ConditioningTyped ==
  ASSUME NEW b \in Backends, NEW r, WellAsked(r)
  PROVE  TypedConditioning(b, r)
<1> DEFINE c == Conditioned(b, r)  k == ConstantsOf(b, r)  a == Arity(b)
           P(n) == /\ n.topk = [i \in 1 .. a |-> 3] /\ n.temperature = [i \in 1 .. a |-> 2]
<1>1. a \in {1, 3}
  BY ArityIs
<1>2. c.k.temperature = <<2>> /\ c.k.topk = <<3>>
  BY DEF Backends, Conditioned, BuildConditioning, JaxBuildConditioning, StreamingConstants
<1>3. P(k)
  <2>1. k = LaneConstants(c.k, a)
    BY DEF ConstantsOf, ConstantsFor
  <2> HIDE DEF c, a
  <2>2. k.topk = RepeatRows(<<3>>, a) /\ k.temperature = RepeatRows(<<2>>, a)
    BY <1>2, <2>1 DEF LaneConstants
  <2> HIDE DEF k
  <2> QED BY <2>2, RepeatOne
<1>4. Constants(k)
  <2> HIDE DEF k, a
  <2>1. 1 \in 1 .. a
    BY <1>1
  <2>2. k.topk[1] = 3 /\ k.temperature[1] = 2 /\ DOMAIN k.topk = 1 .. a
    BY <1>3, <2>1
  <2>3. DOMAIN <<>> = {}
    OBVIOUS
  <2> QED BY <2>1, <2>2, <2>3 DEF Constants
<1> DEFINE style == PaddedStyle(r.style)  notes == OrMasked(r.notes, NoteTokens)  drums == OrMasked(r.drums, DrumTokens)
           p == Scale(r, "musiccoca")  q == Scale(r, "notes")  u == Scale(r, "drums")
<1>5. Lengthy(style, StyleTokens) /\ Lengthy(notes, NoteTokens) /\ Lengthy(drums, DrumTokens)
  BY ListsAre
<1>6. Scaled(p) /\ Scaled(q) /\ Scaled(u)
  BY ScaleIs
<1>7. p \in Int /\ q \in Int /\ u \in Int
  <2> HIDE DEF p, q, u
  <2> QED BY <1>6 DEF Scaled
<1>8. CASE b # "mlxfn"
  <2>a. a = 1
    BY <1>8 DEF Arity
  <2> DEFINE e == DiscretizeCfg(p, 2, 40)  f == DiscretizeCfg(q, 2, 40)  g == DiscretizeCfg(u, 10, 8)
             v == Shifted(style \o notes \o drums \o <<e, f, g>>)
  <2>1. c.x = <<v>> /\ DOMAIN c.k.scales = {}
    <3>1. DOMAIN <<>> = {}
      OBVIOUS
    <3> QED BY <1>8, <3>1 DEF Backends, Conditioned, BuildConditioning, JaxBuildConditioning, JaxDiscretizeCfg
  <2>2. e \in Int /\ f \in Int /\ g \in Int
    <3>1. 2 \in {2, 10} /\ 10 \in {2, 10} /\ 40 \in Nat /\ 8 \in Nat /\ 0 \in Int
      OBVIOUS
    <3> HIDE DEF p, q, u
    <3> QED BY <1>7, <3>1, DiscreteTyped
  <2>3. ChannelRow(v)
    <3> HIDE DEF style, notes, drums, e, f, g
    <3>1. Lengthy(<<e, f, g>>, 3)
      BY <2>2, ThreeIs
    <3> QED BY <1>5, <3>1, ChannelsJoin
  <2> HIDE DEF v, c
  <2>4. RowsFor(b, c) = <<v>>
    BY <2>1 DEF RowsFor, LaneInputs, JaxLaneInputs
  <2>5. \A i \in 1 .. 1 : RowsFor(b, c)[i] = v
    <3>1. \A i \in 1 .. 1 : i = 1
      OBVIOUS
    <3> QED BY <2>4, <3>1
  <2> QED BY <1>4, <2>a, <2>3, <2>5 DEF TypedConditioning, c
<1>9. CASE b = "mlxfn"
  <2>a. a = 3
    BY <1>9 DEF Arity
  <2> DEFINE m == BuildMlxfnArgs(r)  offset == NumReservedTokens + 1
             e == DiscretizeCfgToken(m.scales.musiccoca, 2, 40, offset)
             f == DiscretizeCfgToken(m.scales.notes, 2, 40, offset)
             g == DiscretizeCfgToken(m.scales.drums, 10, 8, offset)
             cfg == <<e, f, g>>
  <2>1. m.scales["musiccoca"] = p /\ m.scales["notes"] = q /\ m.scales["drums"] = u
    BY DEF BuildMlxfnArgs
  <2>2. e \in Int /\ f \in Int /\ g \in Int
    <3>1. 2 \in {2, 10} /\ 10 \in {2, 10} /\ 40 \in Nat /\ 8 \in Nat /\ offset \in Int
      BY DEF NumReservedTokens
    <3> HIDE DEF p, q, u, m, offset
    <3> QED BY <1>7, <2>1, <3>1, DiscreteTyped
  <2>3. Lengthy(cfg, 3)
    <3> HIDE DEF e, f, g
    <3> QED BY <2>2, ThreeIs
  <2> HIDE DEF e, f, g
  <2> DEFINE v == m.cond \o cfg  w == m.musiccoca \o cfg  y == m.notes \o cfg
  <2>4. ChannelRow(v) /\ ChannelRow(w) /\ ChannelRow(y)
    <3> HIDE DEF cfg
    <3> QED BY <2>3, NegativesAre
  <2>5. c = StreamingConstants(m)
    BY <1>9 DEF Conditioned
  <2> DEFINE ks == [n \in {"musiccoca", "notes"} |-> <<m.scales[n]>>]
  <2>6. /\ c.x = <<v>> /\ c.negatives = [musiccoca |-> <<w>>, notes |-> <<y>>]
        /\ c.k.scales = ks
    <3> HIDE DEF m, c
    <3> QED BY <2>5 DEF StreamingConstants, e, f, g, offset
  <2>7. DOMAIN ks = {"musiccoca", "notes"} /\ ks["musiccoca"] = <<p>> /\ ks["notes"] = <<q>>
    BY <2>1
  <2> HIDE DEF v, w, y, cfg, c, ks, m
  <2> DEFINE neg == c.negatives
  <2>8. DOMAIN neg = {"musiccoca", "notes"} /\ neg["musiccoca"] = <<w>> /\ neg["notes"] = <<y>>
    BY <2>6
  <2> HIDE DEF neg
  <2> DEFINE s == Sorted(neg)  ss == <<c.x>> \o s
  <2>9. s = [j \in 1 .. 2 |-> IF j = 1 THEN <<w>> ELSE <<y>>]
    BY <2>8, SortedTwo
  <2> HIDE DEF s
  <2>10. s = [j \in 1 .. 2 |-> s[j]]
    BY <2>9
  <2>11. ss = [j \in 1 .. 3 |-> IF j = 1 THEN c.x ELSE s[j - 1]]
    BY <2>10, BeforeTwo
  <2>12. RowsFor(b, c) = InterleaveSequences(ss)
    <3>1. {"musiccoca", "notes"} # {}
      OBVIOUS
    <3>2. RowsFor(b, c) = InterleaveSequences(<<c.x>> \o Sorted(neg))
      BY <1>9, <2>6, <2>7, <2>8, <3>1 DEF RowsFor, LaneInputs, neg
    <3> QED BY <3>2 DEF s
  <2> HIDE DEF ss
  <2>13. ss = [j \in 1 .. 3 |-> ss[j]] /\ ss[1] = <<v>> /\ ss[2] = <<w>> /\ ss[3] = <<y>> /\ DOMAIN ss[1] = 1 .. 1
    BY <2>6, <2>9, <2>11
  <2>14. InterleaveSequences(ss) = [j \in 1 .. 3 |-> ss[j][1]]
    <3>1. 3 \in Nat \ {0}
      OBVIOUS
    <3> QED BY <2>13, <3>1, InterleaveOne
  <2>15. RowsFor(b, c)[1] = v /\ RowsFor(b, c)[2] = w /\ RowsFor(b, c)[3] = y
    BY <2>12, <2>13, <2>14
  <2>16. \A i \in 1 .. 3 : ChannelRow(RowsFor(b, c)[i])
    <3>1. \A i \in 1 .. 3 : i = 1 \/ i = 2 \/ i = 3
      OBVIOUS
    <3> QED BY <2>4, <2>15, <3>1
  <2> DEFINE ls == k.scales
  <2>17. ls = [n \in DOMAIN ks |-> RepeatRows(ks[n], 3)]
    <3>1. k = LaneConstants(c.k, 3)
      BY <2>a DEF ConstantsOf, ConstantsFor, c
    <3> HIDE DEF k
    <3>2. k.scales = [n \in DOMAIN c.k.scales |-> RepeatRows(c.k.scales[n], 3)]
      BY <3>1 DEF LaneConstants
    <3> QED BY <2>6, <3>2
  <2>18. ScalesOnLanes(ls, p, q)
    <3> HIDE DEF ls
    <3>1. /\ DOMAIN ls = {"musiccoca", "notes"}
          /\ ls["musiccoca"] = RepeatRows(<<p>>, 3) /\ ls["notes"] = RepeatRows(<<q>>, 3)
      BY <2>7, <2>17
    <3> QED BY <3>1, RepeatOne DEF ScalesOnLanes
  <2> HIDE DEF ls
  <2>19. LaneScales(ls, 3)[2] = p /\ LaneScales(ls, 3)[3] = q
    <3> HIDE DEF p, q
    <3> QED BY <2>18, LaneScalesThree
  <2>20. Scaled(LaneScales(ls, 3)[2]) /\ Scaled(LaneScales(ls, 3)[3])
    BY <1>6, <2>19
  <2>21. /\ Scaled(LaneScales(ConstantsOf(b, r).scales, 3)[2])
         /\ Scaled(LaneScales(ConstantsOf(b, r).scales, 3)[3])
    BY <2>20 DEF ls, k
  <2> QED BY <1>4, <2>a, <2>16, <2>21 DEF TypedConditioning, c, k, a
<1> QED BY <1>8, <1>9

--------------------------------------------------------------------------------
(* The tables of the embedding.                                            *)

LEMMA TotalGrows ==
  ASSUME NEW n \in Nat, NEW z, \A i \in 1 .. n : z[i] \in Nat
  PROVE  /\ Total(z, 0) = 0
         /\ \A i \in 0 .. n : Total(z, i) \in Nat
         /\ \A i \in 1 .. n : Total(z, i) = Total(z, i - 1) + z[i]
         /\ \A i \in 0 .. n : \A j \in i .. n : Total(z, i) <= Total(z, j)
<1>1. \A i \in 0 .. n : Total(z, 0) = 0 /\ Total(z, i) \in Int /\ (i > 0 => Total(z, i) = Total(z, i - 1) + z[i])
  <2> TAKE i \in 0 .. n
  <2>1. i \in Nat /\ \A j \in 1 .. i : z[j] \in Int
    OBVIOUS
  <2> QED BY <2>1, SumStep
<1>2. \A i \in 0 .. n - 1 : Total(z, i + 1) = Total(z, i) + z[i + 1] /\ z[i + 1] \in Nat
  <2> TAKE i \in 0 .. n - 1
  <2> DEFINE j == i + 1
  <2>1. j \in 0 .. n /\ j \in 1 .. n /\ j > 0 /\ j - 1 = i
    OBVIOUS
  <2> HIDE DEF j
  <2>2. Total(z, j) = Total(z, i) + z[j] /\ z[j] \in Nat
    BY <1>1, <2>1
  <2> QED BY <2>2 DEF j
<1>3. 0 \in 0 .. n
  OBVIOUS
<1>4. \A i \in 0 .. n : Total(z, i) \in Nat
  <2> DEFINE T == {i \in 0 .. n : Total(z, i) \in Nat}
  <2>1. 0 \in T
    BY <1>1, <1>3
  <2>2. ASSUME NEW i \in 0 .. n - 1, i \in T PROVE i + 1 \in T
    BY <1>2, <2>2
  <2> HIDE DEF T
  <2>3. \A i \in 0 .. n : i \in T
    BY <2>1, <2>2, SetInduction
  <2> QED BY <2>3 DEF T
<1>5. ASSUME NEW i \in 0 .. n PROVE \A j \in i .. n : Total(z, i) <= Total(z, j)
  <2> DEFINE T == {j \in 0 .. n : j >= i => Total(z, i) <= Total(z, j)}
  <2>1. 0 \in T
    <3>1. 0 >= i => i = 0
      OBVIOUS
    <3> QED BY <1>3, <1>4, <3>1
  <2>2. ASSUME NEW j \in 0 .. n - 1, j \in T PROVE j + 1 \in T
    <3>1. CASE j + 1 = i
      BY <1>4, <3>1
    <3>2. CASE j + 1 # i
      <4>1. j + 1 >= i => j >= i
        BY <3>2
      <4>2. Total(z, j) \in Nat /\ Total(z, i) \in Nat /\ Total(z, j + 1) = Total(z, j) + z[j + 1] /\ z[j + 1] \in Nat
        BY <1>2, <1>4
      <4> QED BY <2>2, <4>1, <4>2
    <3> QED BY <3>1, <3>2
  <2> HIDE DEF T
  <2>3. \A j \in 0 .. n : j \in T
    BY <2>1, <2>2, SetInduction
  <2> QED BY <2>3 DEF T
<1> QED BY <1>1, <1>3, <1>4, <1>5

\* The sum of the first elements of a sequence.
LEMMA FirstTotal ==
  ASSUME NEW n \in Nat, NEW s, s = [i \in 1 .. n |-> s[i]], NEW m \in 0 .. n
  PROVE  /\ SubSeq(s, 1, m) = [i \in 1 .. m |-> s[i]]
         /\ SumOf(SubSeq(s, 1, m)) = Total(s, m)
<1> DEFINE S == {s[i] : i \in 1 .. n}  r == SubSeq(s, 1, m)
<1>1. s \in [1 .. n -> S]
  OBVIOUS
<1> HIDE DEF S
<1>2. s \in Seq(S) /\ Len(s) = n
  BY <1>1, SequenceIs
<1>3. r \in Seq(S) /\ Len(r) = m /\ \A i \in 1 .. m : r[i] = s[i]
  BY <1>2
<1> HIDE DEF r
<1>4. r = [i \in 1 .. m |-> s[i]]
  <2>1. r = [i \in 1 .. m |-> r[i]]
    BY <1>3
  <2>2. [i \in 1 .. m |-> r[i]] = [i \in 1 .. m |-> s[i]]
    BY <1>3
  <2> QED BY <2>1, <2>2
<1> QED BY <1>4 DEF Total, r

\* Sequences one after the other.
JoinTo(f, ss, n) == f = [i \in 1 .. n |-> IF i = 1 THEN ss[i] ELSE f[i - 1] \o ss[i]]
LEMMA FlattenIs ==
  ASSUME NEW N \in Nat \ {0}, NEW ss, Len(ss) = N
  PROVE  \E f : JoinTo(f, ss, N) /\ FlattenSeq(ss) = f[N]
<1> DEFINE T == {n \in 0 .. N : \E f : JoinTo(f, ss, n)}
<1>1. 0 \in T
  <2> DEFINE h == [i \in 1 .. 0 |-> ss[i]]
  <2>1. h = [i \in 1 .. 0 |-> IF i = 1 THEN ss[i] ELSE h[i - 1] \o ss[i]]
    <3>1. \A i \in 1 .. 0 : FALSE
      OBVIOUS
    <3> QED BY <3>1
  <2> HIDE DEF h
  <2>2. JoinTo(h, ss, 0)
    BY <2>1 DEF JoinTo
  <2>3. 0 \in 0 .. N
    OBVIOUS
  <2> QED BY <2>2, <2>3
<1>2. ASSUME NEW n \in 0 .. N - 1, n \in T PROVE n + 1 \in T
  <2>1. PICK f : f = [i \in 1 .. n |-> IF i = 1 THEN ss[i] ELSE f[i - 1] \o ss[i]]
    BY <1>2 DEF JoinTo
  <2> HIDE DEF T
  <2> DEFINE v(i) == IF i = 1 THEN ss[i] ELSE f[i - 1] \o ss[i]
             g == [i \in 1 .. n + 1 |-> IF i <= n THEN f[i] ELSE v(i)]
  <2>2. ASSUME NEW i \in 1 .. n + 1 PROVE g[i] = IF i = 1 THEN ss[i] ELSE g[i - 1] \o ss[i]
    <3>1. g[i] = v(i)
      <4>1. CASE i <= n
        <5>1. i \in 1 .. n /\ g[i] = f[i]
          BY <4>1
        <5>2. f[i] = v(i)
          BY <2>1, <5>1
        <5> QED BY <5>1, <5>2
      <4>2. CASE ~(i <= n)
        BY <4>2
      <4> QED BY <4>1, <4>2
    <3>2. i # 1 => g[i - 1] = f[i - 1]
      <4> SUFFICES ASSUME i # 1 PROVE g[i - 1] = f[i - 1]
        OBVIOUS
      <4>1. i - 1 \in 1 .. n + 1 /\ i - 1 <= n
        OBVIOUS
      <4> QED BY <4>1
    <3> HIDE DEF g
    <3> QED BY <3>1, <3>2
  <2>3. g = [i \in 1 .. n + 1 |-> IF i = 1 THEN ss[i] ELSE g[i - 1] \o ss[i]]
    BY <2>2
  <2> HIDE DEF g
  <2>4. JoinTo(g, ss, n + 1)
    BY <2>3 DEF JoinTo
  <2>5. n + 1 \in 0 .. N
    OBVIOUS
  <2> QED BY <2>4, <2>5 DEF T
<1> HIDE DEF T
<1>3. N \in T
  <2>1. N \in Nat /\ N \in 0 .. N
    OBVIOUS
  <2>2. \A n \in 0 .. N : n \in T
    BY <1>1, <1>2, <2>1, SetInduction
  <2> QED BY <2>1, <2>2
<1> DEFINE c == CHOOSE f : f = [i \in 1 .. N |-> IF i = 1 THEN ss[i] ELSE f[i - 1] \o ss[i]]
<1>4. \E f : f = [i \in 1 .. N |-> IF i = 1 THEN ss[i] ELSE f[i - 1] \o ss[i]]
  BY <1>3 DEF T, JoinTo
<1>5. c = [i \in 1 .. N |-> IF i = 1 THEN ss[i] ELSE c[i - 1] \o ss[i]]
  BY <1>4
<1>6. FlattenSeq(ss) = c[N]
  BY DEF FlattenSeq
<1> HIDE DEF c
<1> QED BY <1>5, <1>6 DEF JoinTo

\* The channels of the inputs, and a size of a table for each.
TypedInputs(inputs, n) ==
  /\ n \in Nat \ {0} /\ inputs = [i \in 1 .. n |-> inputs[i]]
  /\ \A i \in 1 .. n : inputs[i].used \in Nat \ {0} /\ PerRvqVocabSize(inputs[i]) \in Nat
Ends(inputs, i) == Total([j \in DOMAIN inputs |-> inputs[j].used], i)
LaidOut(sizes, inputs, i) ==
  /\ sizes \in Seq(Nat) /\ Len(sizes) = Ends(inputs, i)
  /\ \A m \in 1 .. i : \A j \in Ends(inputs, m - 1) + 1 .. Ends(inputs, m) : sizes[j] = PerRvqVocabSize(inputs[m])

LEMMA EndsAre ==
  ASSUME NEW n, NEW inputs, TypedInputs(inputs, n)
  PROVE  /\ Ends(inputs, 0) = 0 /\ Used(inputs) = Ends(inputs, n)
         /\ \A i \in 0 .. n : Ends(inputs, i) \in Nat
         /\ \A i \in 1 .. n : Ends(inputs, i) = Ends(inputs, i - 1) + inputs[i].used
         /\ \A i \in 0 .. n : \A j \in i .. n : Ends(inputs, i) <= Ends(inputs, j)
<1> DEFINE z == [j \in DOMAIN inputs |-> inputs[j].used]
<1>1. n \in Nat /\ DOMAIN inputs = 1 .. n /\ \A i \in 1 .. n : inputs[i].used \in Nat
  BY DEF TypedInputs
<1>2. z = [i \in 1 .. n |-> z[i]] /\ \A i \in 1 .. n : z[i] = inputs[i].used /\ z[i] \in Nat
  BY <1>1
<1>3. Used(inputs) = SumOf(z)
  BY DEF Used
<1>4. \A i : Ends(inputs, i) = Total(z, i)
  BY DEF Ends
<1> HIDE DEF z
<1>5. SumOf(z) = Total(z, n)
  BY <1>2 DEF Total
<1>6. /\ Total(z, 0) = 0
      /\ \A i \in 0 .. n : Total(z, i) \in Nat
      /\ \A i \in 1 .. n : Total(z, i) = Total(z, i - 1) + z[i]
      /\ \A i \in 0 .. n : \A j \in i .. n : Total(z, i) <= Total(z, j)
  BY <1>1, <1>2, TotalGrows
<1> QED BY <1>2, <1>3, <1>4, <1>5, <1>6

LEMMA LayoutIs ==
  ASSUME NEW n, NEW inputs, TypedInputs(inputs, n)
  PROVE  LaidOut(EmbeddingsPerChannel(inputs), inputs, n)
<1> DEFINE size(i) == PerRvqVocabSize(inputs[i])
           t(i) == [c \in 1 .. inputs[i].used |-> size(i)]
           ss == [i \in DOMAIN inputs |-> t(i)]
           E(i) == Ends(inputs, i)
<1>1. n \in Nat \ {0} /\ DOMAIN inputs = 1 .. n /\ \A i \in 1 .. n : inputs[i].used \in Nat /\ size(i) \in Nat
  BY DEF TypedInputs
<1>2. /\ E(0) = 0 /\ \A i \in 0 .. n : E(i) \in Nat
      /\ \A i \in 1 .. n : E(i) = E(i - 1) + inputs[i].used
      /\ \A i \in 0 .. n : \A j \in i .. n : E(i) <= E(j)
  BY EndsAre
<1>3. EmbeddingsPerChannel(inputs) = FlattenSeq(ss)
  BY DEF EmbeddingsPerChannel
<1> HIDE DEF E, size
<1>4. Len(ss) = n /\ \A i \in 1 .. n : ss[i] = t(i)
  <2>1. ss = [i \in 1 .. n |-> t(i)]
    BY <1>1
  <2> QED BY <1>1, <2>1
<1>5. ASSUME NEW i \in 1 .. n
      PROVE  t(i) \in Seq(Nat) /\ Len(t(i)) = inputs[i].used /\ \A c \in 1 .. inputs[i].used : t(i)[c] = size(i)
  <2>1. t(i) \in [1 .. inputs[i].used -> Nat]
    BY <1>1
  <2> QED BY <1>1, <2>1, SequenceIs
<1> HIDE DEF ss, t
<1>6. PICK f : JoinTo(f, ss, n) /\ FlattenSeq(ss) = f[n]
  BY <1>1, <1>4, FlattenIs
<1>7. \A i \in 1 .. n : f[i] = IF i = 1 THEN ss[i] ELSE f[i - 1] \o ss[i]
  BY <1>6 DEF JoinTo
<1> DEFINE Laid(s, i) == /\ s \in Seq(Nat) /\ Len(s) = E(i)
                         /\ \A m \in 1 .. i : \A j \in E(m - 1) + 1 .. E(m) : s[j] = size(m)
           T == {i \in 0 .. n : i = 0 \/ Laid(f[i], i)}
<1>8. 0 \in T
  BY <1>1
<1>9. ASSUME NEW i \in 0 .. n - 1, i \in T PROVE i + 1 \in T
  <2> DEFINE m == i + 1  s == IF i = 0 THEN <<>> ELSE f[i]  u == t(m)
  <2>1. m \in 1 .. n /\ m \in 0 .. n /\ i \in 0 .. n /\ m - 1 = i
    BY <1>1
  <2>2. Laid(s, i)
    <3>1. CASE i = 0
      BY <1>2, <3>1
    <3>2. CASE i # 0
      BY <1>9, <3>2
    <3> QED BY <3>1, <3>2
  <2>3. u \in Seq(Nat) /\ Len(u) = inputs[m].used /\ \A c \in 1 .. inputs[m].used : u[c] = size(m)
    BY <1>5, <2>1
  <2>4. f[m] = s \o u
    <3>1. CASE i = 0
      <4>1. f[m] = ss[m] /\ ss[m] = u
        BY <1>4, <1>7, <2>1, <3>1
      <4>2. <<>> \o u = u
        BY <2>3
      <4> QED BY <3>1, <4>1, <4>2
    <3>2. CASE i # 0
      <4>1. m # 1 /\ s = f[i]
        BY <3>2
      <4>2. f[m] = f[m - 1] \o ss[m] /\ ss[m] = u
        BY <1>4, <1>7, <2>1, <4>1
      <4> HIDE DEF m, u, s
      <4> QED BY <2>1, <4>1, <4>2
    <3> QED BY <3>1, <3>2
  <2> HIDE DEF s, u
  <2> DEFINE a == E(i)  e == inputs[m].used
  <2>5. a \in Nat /\ e \in Nat /\ E(m) = a + e
    BY <1>1, <1>2, <2>1
  <2>6. s \in Seq(Nat) /\ Len(s) = a /\ u \in Seq(Nat) /\ Len(u) = e
    BY <2>2, <2>3
  <2> HIDE DEF a, e
  <2>7. /\ s \o u \in Seq(Nat) /\ Len(s \o u) = a + e
        /\ \A j \in 1 .. a + e : (s \o u)[j] = IF j <= a THEN s[j] ELSE u[j - a]
    BY <2>5, <2>6, ConcatProperties
  <2> DEFINE w == s \o u
  <2> HIDE DEF w
  <2>8. ASSUME NEW p \in 1 .. m, NEW j \in E(p - 1) + 1 .. E(p) PROVE w[j] = size(p)
    <3>0. p \in 1 .. n /\ p - 1 \in 0 .. n /\ p \in 0 .. n
      <4> HIDE DEF m
      <4> QED BY <1>1, <2>1
    <3>1. E(p - 1) \in Nat /\ E(p) \in Nat
      BY <1>2, <3>0
    <3>2. CASE p # m
      <4>1. p \in 1 .. i /\ i \in p .. n
        BY <2>1, <3>2
      <4>2. E(p) <= E(i)
        BY <1>2, <3>0, <4>1
      <4> DEFINE lo == E(p - 1)  hi == E(p)
      <4>3. lo \in Nat /\ hi \in Nat /\ hi <= a /\ j \in lo + 1 .. hi
        BY <3>1, <4>2 DEF a
      <4> HIDE DEF lo, hi
      <4>4. j \in 1 .. a + e /\ j <= a
        BY <2>5, <4>3
      <4>5. w[j] = s[j]
        BY <2>7, <4>4 DEF w
      <4>6. s[j] = size(p)
        BY <2>2, <4>1
      <4> QED BY <4>5, <4>6
    <3>3. CASE p = m
      <4>1. j \in a + 1 .. a + e
        BY <2>1, <2>5, <3>3 DEF a
      <4>2. j \in 1 .. a + e /\ ~(j <= a) /\ j - a \in 1 .. e
        BY <2>5, <4>1
      <4>3. w[j] = u[j - a]
        BY <2>7, <4>2 DEF w
      <4>4. u[j - a] = size(m)
        BY <2>3, <4>2 DEF e
      <4> QED BY <3>3, <4>3, <4>4
    <3> QED BY <3>2, <3>3
  <2>9. Laid(w, m)
    BY <2>5, <2>7, <2>8 DEF w
  <2> HIDE DEF Laid
  <2> QED BY <2>1, <2>4, <2>9 DEF w
<1> HIDE DEF T
<1>10. n \in T
  <2>1. n \in Nat
    BY <1>1
  <2> QED BY <1>8, <1>9, <2>1, SetInduction
<1>11. Laid(f[n], n)
  BY <1>1, <1>10 DEF T
<1> QED BY <1>3, <1>6, <1>11 DEF LaidOut, E, size

Branch(e, inputs, n, from, rounded) ==
  /\ e.sizes = EmbeddingsPerChannel(inputs) /\ e.reserved = 0 /\ e.rounded = rounded
  /\ e.from = from /\ e.to = from + Ends(inputs, n)
  /\ TypedInputs(inputs, n)

LEMMA PerRvqTyped ==
  ASSUME NEW t \in TokensFields
  PROVE  PerRvqVocabSize(t) \in Nat /\ PerRvqVocabSize(t) = t.codebook + 6 + (IF t.dropout THEN 1 ELSE 0)
BY DEF TokensFields, NumReservedTokens, PerRvqVocabSize, DropoutTokens

LEMMA AllInputs ==
  /\ TypedInputs(Model.inputs, 5)
  /\ TypedInputs(SubSeq(Model.inputs, 1, 1), 1) /\ SubSeq(Model.inputs, 1, 1)[1] = Model.inputs[1]
  /\ TypedInputs(Tail(Model.inputs), 4) /\ \A i \in 1 .. 4 : Tail(Model.inputs)[i] = Model.inputs[i + 1]
<1> DEFINE s == Model.inputs  S == TokensFields  u == SubSeq(s, 1, 1)  v == Tail(s)
<1>1. s \in Seq(S) /\ Len(s) = 5 /\ DOMAIN s = 1 .. 5 /\ \A i \in 1 .. 5 : s[i] \in S
  BY InputsAre
<1> HIDE DEF s
<1>2. \A t \in S : t.used \in Nat \ {0} /\ PerRvqVocabSize(t) \in Nat
  <2>1. \A t \in S : t.used \in Nat \ {0}
    BY DEF TokensFields
  <2> QED BY <2>1, PerRvqTyped
<1> HIDE DEF S
<1>3. s = [i \in 1 .. 5 |-> s[i]]
  BY <1>1
<1>4. 1 \in 0 .. 5 /\ 5 \in Nat /\ 1 \in Nat \ {0} /\ 4 \in Nat \ {0} /\ 5 \in Nat \ {0}
  OBVIOUS
<1>5. u = [i \in 1 .. 1 |-> s[i]]
  BY <1>3, <1>4, FirstTotal
<1>6. u = [i \in 1 .. 1 |-> u[i]] /\ u[1] = s[1] /\ u[1] \in S /\ \A i \in 1 .. 1 : i = 1
  <2>1. 1 \in 1 .. 1 /\ 1 \in 1 .. 5
    OBVIOUS
  <2> HIDE DEF u
  <2> QED BY <1>1, <1>5, <2>1
<1>7. v \in Seq(S) /\ Len(v) = 4 /\ \A i \in 1 .. 4 : v[i] = s[i + 1] /\ v[i] \in S
  <2>1. v \in Seq(S) /\ Len(v) = 4
    BY <1>1
  <2>2. \A i \in 1 .. 4 : v[i] = s[i + 1]
    <3>1. s # <<>>
      BY <1>1
    <3> QED BY <1>1, <2>1, <3>1, HeadTailProperties
  <2>3. \A i \in 1 .. 4 : i + 1 \in 1 .. 5
    OBVIOUS
  <2> HIDE DEF v
  <2> QED BY <1>1, <2>1, <2>2, <2>3
<1> HIDE DEF u, v
<1>8. v = [i \in 1 .. 4 |-> v[i]]
  BY <1>7
<1>9. TypedInputs(s, 5)
  BY <1>1, <1>2, <1>3, <1>4 DEF TypedInputs
<1>10. TypedInputs(u, 1)
  BY <1>2, <1>4, <1>6 DEF TypedInputs
<1>11. TypedInputs(v, 4)
  BY <1>2, <1>4, <1>7, <1>8 DEF TypedInputs
<1> QED BY <1>6, <1>7, <1>9, <1>10, <1>11 DEF s, u, v

LEMMA TailEnds ==
  /\ \A i \in 0 .. 4 : Ends(Tail(Model.inputs), i) = Ends(Model.inputs, i + 1) - StyleTokens
  /\ Ends(Model.inputs, 1) = StyleTokens /\ Ends(SubSeq(Model.inputs, 1, 1), 1) = StyleTokens
  /\ Ends(Model.inputs, 3) = StyleTokens + NoteTokens + DrumTokens
  /\ Ends(Model.inputs, 5) = Channels
<1> DEFINE s == Model.inputs  v == Tail(s)  E(i) == Ends(s, i)  F(i) == Ends(v, i)  w(i) == s[i].used
           h == SubSeq(s, 1, 1)
<1>t. TypedInputs(s, 5) /\ TypedInputs(v, 4) /\ TypedInputs(h, 1)
  BY AllInputs
<1>1. /\ E(0) = 0 /\ \A i \in 0 .. 5 : E(i) \in Nat
      /\ \A i \in 1 .. 5 : E(i) = E(i - 1) + w(i)
  <2> HIDE DEF s
  <2>1. /\ Ends(s, 0) = 0 /\ \A i \in 0 .. 5 : Ends(s, i) \in Nat
        /\ \A i \in 1 .. 5 : Ends(s, i) = Ends(s, i - 1) + s[i].used
    BY <1>t, EndsAre
  <2> QED BY <2>1
<1>2. F(0) = 0 /\ \A i \in 1 .. 4 : F(i) = F(i - 1) + v[i].used
  <2> HIDE DEF v
  <2>1. Ends(v, 0) = 0 /\ \A i \in 1 .. 4 : Ends(v, i) = Ends(v, i - 1) + v[i].used
    BY <1>t, EndsAre
  <2> QED BY <2>1
<1>3. \A i \in 1 .. 4 : v[i].used = w(i + 1)
  BY AllInputs
<1>h. Ends(h, 1) = StyleTokens
  <2>1. Ends(h, 0) = 0 /\ \A i \in 1 .. 1 : Ends(h, i) = Ends(h, i - 1) + h[i].used
    <3> HIDE DEF h
    <3> QED BY <1>t, EndsAre
  <2>2. 1 \in 1 .. 1 /\ 1 - 1 = 0
    OBVIOUS
  <2>3. Ends(h, 1) = Ends(h, 0) + h[1].used
    BY <2>1, <2>2
  <2>4. h[1].used = StyleTokens
    BY AllInputs DEF StyleTokens
  <2> QED BY <2>1, <2>3, <2>4, CountsAre
<1>w. w(1) = StyleTokens /\ w(2) = NoteTokens /\ w(3) = DrumTokens /\ w(4) = 2 /\ w(5) = 1
  BY InputsAre DEF StyleTokens, NoteTokens, DrumTokens
<1> HIDE DEF E, F, v, w, s, h
<1>4. /\ E(1) = E(0) + w(1) /\ E(2) = E(1) + w(2) /\ E(3) = E(2) + w(3) /\ E(4) = E(3) + w(4) /\ E(5) = E(4) + w(5)
  <2>1. \A i \in 0 .. 4 : E(i + 1) = E(i) + w(i + 1)
    <3> TAKE i \in 0 .. 4
    <3>1. i + 1 \in 1 .. 5 /\ i + 1 - 1 = i
      OBVIOUS
    <3> QED BY <1>1, <3>1
  <2>2. 0 + 1 = 1 /\ 1 + 1 = 2 /\ 2 + 1 = 3 /\ 3 + 1 = 4 /\ 4 + 1 = 5
    OBVIOUS
  <2> QED BY <2>1, <2>2
<1>5. StyleTokens \in Nat /\ NoteTokens \in Nat /\ DrumTokens \in Nat
  BY CountsAre
<1>6. /\ E(1) = StyleTokens /\ E(3) = StyleTokens + NoteTokens + DrumTokens
      /\ E(5) = StyleTokens + NoteTokens + DrumTokens + 3
  BY <1>1, <1>4, <1>5, <1>w
<1>7. \A i \in 0 .. 4 : F(i) = E(i + 1) - StyleTokens
  <2> DEFINE T == {i \in 0 .. 4 : F(i) = E(i + 1) - StyleTokens}
  <2>1. 0 \in T
    BY <1>2, <1>5, <1>6
  <2>2. ASSUME NEW i \in 0 .. 4 - 1, i \in T PROVE i + 1 \in T
    <3> DEFINE j == i + 1  k == j + 1
    <3>1. j \in 1 .. 4 /\ j - 1 = i /\ k \in 1 .. 5 /\ k - 1 = j /\ j \in 0 .. 4 /\ j \in 0 .. 5 /\ k \in 0 .. 5
      OBVIOUS
    <3>2. F(i) = E(j) - StyleTokens
      BY <2>2
    <3> HIDE DEF j, k
    <3>3. F(j) = F(i) + w(k) /\ E(k) = E(j) + w(k)
      <4>1. F(j) = F(j - 1) + v[j].used /\ v[j].used = w(j + 1)
        BY <1>2, <1>3, <3>1
      <4>2. E(k) = E(k - 1) + w(k)
        BY <1>1, <3>1
      <4>3. j + 1 = k
        BY DEF k
      <4> QED BY <3>1, <4>1, <4>2, <4>3
    <3>4. E(j) \in Nat /\ E(k) \in Nat /\ w(k) \in Int
      <4>1. \A i1 \in 1 .. 5 : s[i1].used \in Nat
        BY AllInputs DEF TypedInputs, s
      <4> QED BY <1>1, <3>1, <4>1 DEF w
    <3>5. F(j) = E(k) - StyleTokens
      BY <1>5, <3>2, <3>3, <3>4
    <3> QED BY <3>1, <3>5 DEF j, k
  <2> HIDE DEF T
  <2>3. \A i \in 0 .. 4 : i \in T
    BY <2>1, <2>2, SetInduction
  <2> QED BY <2>3 DEF T
<1> QED BY <1>6, <1>7, <1>h DEF E, F, v, s, h, Channels

Naturals(s, n) == n \in Nat /\ s = [i \in 1 .. n |-> s[i]] /\ \A i \in 1 .. n : s[i] \in Nat
BoundsOf(e, s, n, tables) ==
  /\ DOMAIN e = 1 .. n
  /\ \A b \in 1 .. n : e[b] = Extended(tables[b], [from |-> Total(s, b - 1), to |-> Total(s, b)])
LEMMA BoundsAre ==
  ASSUME NEW n, NEW s, Naturals(s, n), NEW tables
  PROVE  BoundsOf(BranchConfig(s, tables), s, n, tables)
<1>0. n \in Nat /\ s = [i \in 1 .. n |-> s[i]]
  BY DEF Naturals
<1>1. \A b \in 1 .. n : b - 1 \in 0 .. n /\ b \in 0 .. n
  BY <1>0
<1>2. \A b \in 1 .. n : SumOf(SubSeq(s, 1, b - 1)) = Total(s, b - 1) /\ SumOf(SubSeq(s, 1, b)) = Total(s, b)
  BY <1>0, <1>1, FirstTotal
<1>3. DOMAIN s = 1 .. n
  BY <1>0
<1>4. BranchConfig(s, tables)
      = [b \in 1 .. n |-> Extended(tables[b], [from |-> SumOf(SubSeq(s, 1, b - 1)), to |-> SumOf(SubSeq(s, 1, b))])]
  BY <1>3 DEF BranchConfig
<1> DEFINE e == BranchConfig(s, tables)
<1> HIDE DEF e
<1>5. DOMAIN e = 1 .. n /\ \A b \in 1 .. n : e[b] = Extended(tables[b], [from |-> Total(s, b - 1), to |-> Total(s, b)])
  BY <1>2, <1>4 DEF e
<1> QED BY <1>5 DEF BoundsOf, e

LEMMA BranchIs ==
  ASSUME NEW inputs, NEW n, TypedInputs(inputs, n), NEW from, NEW rounded, NEW e,
         e = Extended(Table(inputs, rounded), [from |-> from, to |-> from + Ends(inputs, n)])
  PROVE  Branch(e, inputs, n, from, rounded)
<1>1. /\ e.sizes = EmbeddingsPerChannel(inputs) /\ e.reserved = 0 /\ e.rounded = rounded
      /\ e.from = from /\ e.to = from + Ends(inputs, n)
  BY DEF Extended, Table
<1> QED BY <1>1 DEF Branch

EmbeddingOne(emb) == DOMAIN emb = 1 .. 1 /\ Branch(emb[1], Model.inputs, 5, 0, TRUE)
EmbeddingTwo(emb) ==
  /\ DOMAIN emb = 1 .. 2 /\ Branch(emb[1], SubSeq(Model.inputs, 1, 1), 1, 0, FALSE)
  /\ Branch(emb[2], Tail(Model.inputs), 4, StyleTokens, TRUE)

LEMMA EmbeddingIs ==
  /\ JaxEncoderEmbedding(Model) = EncoderEmbedding(Model)
  /\ IF Model.pretrained THEN EmbeddingTwo(EncoderEmbedding(Model)) ELSE EmbeddingOne(EncoderEmbedding(Model))
<1>1. JaxEncoderEmbedding(Model) = EncoderEmbedding(Model)
  BY DEF JaxEncoderEmbedding, EncoderEmbedding, JaxBranchConfig, JaxInputNumChannels, InputNumChannels
<1> DEFINE all == InputNumChannels(Model)  style == StyleTokens  emb == EncoderEmbedding(Model)
           t1 == Table(SubSeq(Model.inputs, 1, 1), FALSE)  t2 == Table(Tail(Model.inputs), TRUE)
           t == Table(Model.inputs, TRUE)
<1>2. all = Channels /\ all \in Nat /\ style \in Nat /\ all - style \in Nat /\ all = 0 + Ends(Model.inputs, 5)
      /\ style = 0 + Ends(SubSeq(Model.inputs, 1, 1), 1) /\ all = style + Ends(Tail(Model.inputs), 4)
  <2>1. all = Ends(Model.inputs, 5)
    BY AllInputs, EndsAre DEF InputNumChannels
  <2>2. Ends(Tail(Model.inputs), 4) = Ends(Model.inputs, 5) - style
    <3>1. 4 \in 0 .. 4 /\ 4 + 1 = 5
      OBVIOUS
    <3> QED BY <3>1, TailEnds
  <2>3. Ends(SubSeq(Model.inputs, 1, 1), 1) = style /\ Ends(Model.inputs, 5) = Channels
    BY TailEnds
  <2>4. Channels = style + NoteTokens + DrumTokens + 3
    BY DEF Channels
  <2> HIDE DEF all, style
  <2>5. style \in Nat /\ NoteTokens \in Nat /\ DrumTokens \in Nat
    BY CountsAre DEF style
  <2> QED BY <2>1, <2>2, <2>3, <2>4, <2>5
<1>3. CASE ~Model.pretrained
  <2> DEFINE s == <<all>>
  <2>1. emb = BranchConfig(s, <<t>>)
    BY <1>3 DEF EncoderEmbedding
  <2>2. s = [i \in 1 .. 1 |-> s[i]] /\ s[1] = all /\ 1 \in Nat /\ 1 \in 1 .. 1
    OBVIOUS
  <2>3. \A i \in 1 .. 1 : s[i] \in Nat
    BY <1>2, <2>2
  <2> HIDE DEF s, all, t
  <2>4. Total(s, 1) = all /\ Total(s, 0) = 0
    <3>1. /\ Total(s, 0) = 0 /\ \A i \in 1 .. 1 : Total(s, i) = Total(s, i - 1) + s[i]
      BY <2>2, <2>3, TotalGrows
    <3>2. Total(s, 1) = Total(s, 1 - 1) + s[1] /\ 1 - 1 = 0
      BY <2>2, <3>1
    <3> QED BY <1>2, <2>2, <3>1, <3>2
  <2>5. DOMAIN emb = 1 .. 1 /\ emb[1] = Extended(<<t>>[1], [from |-> Total(s, 1 - 1), to |-> Total(s, 1)])
    <3> DEFINE ts == <<t>>
    <3>1. Naturals(s, 1) /\ emb = BranchConfig(s, ts)
      BY <2>1, <2>2, <2>3 DEF Naturals
    <3> HIDE DEF emb, ts
    <3>2. DOMAIN emb = 1 .. 1 /\ emb[1] = Extended(ts[1], [from |-> Total(s, 1 - 1), to |-> Total(s, 1)])
      <4>1. BoundsOf(emb, s, 1, ts)
        BY <3>1, BoundsAre
      <4> QED BY <2>2, <4>1 DEF BoundsOf
    <3> QED BY <3>2 DEF ts
  <2>6. <<t>>[1] = t /\ 1 - 1 = 0
    OBVIOUS
  <2> HIDE DEF emb
  <2>7. emb[1] = Extended(Table(Model.inputs, TRUE), [from |-> 0, to |-> all])
    BY <2>4, <2>5, <2>6 DEF t
  <2>8. Branch(emb[1], Model.inputs, 5, 0, TRUE)
    BY <1>2, <2>7, BranchIs, AllInputs
  <2> QED BY <1>1, <1>3, <2>5, <2>8 DEF emb, EmbeddingOne
<1>4. CASE Model.pretrained
  <2> DEFINE s == <<style, all - style>>  ts == <<t1, t2>>
  <2>1. emb = BranchConfig(s, ts)
    BY <1>4 DEF EncoderEmbedding, StyleTokens
  <2>2. s = [i \in 1 .. 2 |-> s[i]] /\ s[1] = style /\ s[2] = all - style /\ 2 \in Nat /\ 1 \in 1 .. 2 /\ 2 \in 1 .. 2
    OBVIOUS
  <2>3. \A i \in 1 .. 2 : s[i] \in Nat
    <3>1. \A i \in 1 .. 2 : i = 1 \/ i = 2
      OBVIOUS
    <3> QED BY <1>2, <2>2, <3>1
  <2>t. ts[1] = t1 /\ ts[2] = t2 /\ 1 - 1 = 0 /\ 2 - 1 = 1
    OBVIOUS
  <2> HIDE DEF s, all, t1, t2, ts, style
  <2>4. Total(s, 0) = 0 /\ Total(s, 1) = style /\ Total(s, 2) = all
    <3>1. /\ Total(s, 0) = 0 /\ \A i \in 1 .. 2 : Total(s, i) = Total(s, i - 1) + s[i]
      BY <2>2, <2>3, TotalGrows
    <3>2. Total(s, 1) = Total(s, 1 - 1) + s[1] /\ Total(s, 2) = Total(s, 2 - 1) + s[2]
      BY <2>2, <3>1
    <3> QED BY <1>2, <2>2, <2>t, <3>1, <3>2
  <2> HIDE DEF emb
  <2>5. /\ DOMAIN emb = 1 .. 2
        /\ emb[1] = Extended(t1, [from |-> 0, to |-> style]) /\ emb[2] = Extended(t2, [from |-> style, to |-> all])
    <3>1. \A b \in 1 .. 2 : /\ DOMAIN emb = 1 .. 2
                            /\ emb[b] = Extended(ts[b], [from |-> Total(s, b - 1), to |-> Total(s, b)])
      <4>1. Naturals(s, 2)
        BY <2>2, <2>3 DEF Naturals
      <4>2. BoundsOf(emb, s, 2, ts)
        BY <2>1, <4>1, BoundsAre
      <4> QED BY <4>2 DEF BoundsOf
    <3>2. /\ DOMAIN emb = 1 .. 2
          /\ emb[1] = Extended(ts[1], [from |-> Total(s, 1 - 1), to |-> Total(s, 1)])
          /\ emb[2] = Extended(ts[2], [from |-> Total(s, 2 - 1), to |-> Total(s, 2)])
      BY <2>2, <3>1
    <3> QED BY <2>4, <2>t, <3>2
  <2>6. Branch(emb[1], SubSeq(Model.inputs, 1, 1), 1, 0, FALSE)
    <3> DEFINE h == SubSeq(Model.inputs, 1, 1)  e == emb[1]
    <3>1. TypedInputs(h, 1) /\ e = Extended(Table(h, FALSE), [from |-> 0, to |-> 0 + Ends(h, 1)])
      BY <1>2, <2>5, AllInputs DEF t1
    <3> HIDE DEF h, e
    <3>2. Branch(e, h, 1, 0, FALSE)
      BY <3>1, BranchIs
    <3> QED BY <3>2 DEF h, e
  <2>7. Branch(emb[2], Tail(Model.inputs), 4, style, TRUE)
    <3> DEFINE h == Tail(Model.inputs)  e == emb[2]
    <3>1. TypedInputs(h, 4) /\ e = Extended(Table(h, TRUE), [from |-> style, to |-> style + Ends(h, 4)])
      BY <1>2, <2>5, AllInputs DEF t2
    <3> HIDE DEF h, e
    <3>2. Branch(e, h, 4, style, TRUE)
      BY <3>1, BranchIs
    <3> QED BY <3>2 DEF h, e
  <2> QED BY <1>1, <1>4, <2>5, <2>6, <2>7 DEF emb, style, EmbeddingTwo
<1>5. Model.pretrained \in BOOLEAN
  BY SystemAssumption
<1> QED BY <1>3, <1>4, <1>5

\* Where a channel is embedded: in one branch, with a size of its own there.
InBranch(e, c) == e.from < c /\ c <= e.to
Slot(e, i, c) ==
  /\ e.sizes \in Seq(Nat) /\ e.reserved = 0 /\ e.from \in Nat /\ e.to \in Nat
  /\ Len(e.sizes) = e.to - e.from /\ c - e.from \in 1 .. Len(e.sizes)
  /\ e.sizes[c - e.from] = PerRvqVocabSize(Model.inputs[i])
Located(emb, b, i, c) ==
  /\ b \in DOMAIN emb /\ InBranch(emb[b], c)
  /\ \A n \in DOMAIN emb : InBranch(emb[n], c) => n = b
  /\ Slot(emb[b], i, c)
InputOf(i, c) == i \in 1 .. 5 /\ Ends(Model.inputs, i - 1) < c /\ c <= Ends(Model.inputs, i)

LEMMA BranchShape ==
  ASSUME NEW e, NEW inputs, NEW n, NEW from, NEW rounded, Branch(e, inputs, n, from, rounded), from \in Nat
  PROVE  /\ e.sizes \in Seq(Nat) /\ e.reserved = 0 /\ e.from = from /\ e.to = from + Ends(inputs, n) /\ e.to \in Nat
         /\ Ends(inputs, n) \in Nat /\ Len(e.sizes) = Ends(inputs, n)
<1>1. /\ e.sizes = EmbeddingsPerChannel(inputs) /\ e.reserved = 0
      /\ e.from = from /\ e.to = from + Ends(inputs, n) /\ TypedInputs(inputs, n)
  BY DEF Branch
<1>2. n \in Nat /\ n \in 0 .. n
  BY <1>1 DEF TypedInputs
<1>3. Ends(inputs, n) \in Nat
  BY <1>1, <1>2, EndsAre
<1>4. LaidOut(e.sizes, inputs, n)
  BY <1>1, LayoutIs
<1> QED BY <1>1, <1>3, <1>4 DEF LaidOut
LEMMA BranchTyped ==
  ASSUME NEW e, NEW inputs, NEW n, NEW from, NEW rounded, Branch(e, inputs, n, from, rounded), from \in Nat
  PROVE  /\ e.sizes \in Seq(Nat) /\ e.reserved = 0 /\ e.from = from /\ e.to = from + Ends(inputs, n) /\ e.to \in Nat
         /\ Ends(inputs, n) \in Nat /\ Len(e.sizes) = Ends(inputs, n)
         /\ \A m \in 1 .. n : \A j \in Ends(inputs, m - 1) + 1 .. Ends(inputs, m) : e.sizes[j] = PerRvqVocabSize(inputs[m])
<1>1. e.sizes = EmbeddingsPerChannel(inputs) /\ TypedInputs(inputs, n)
  BY DEF Branch
<1>2. LaidOut(e.sizes, inputs, n)
  BY <1>1, LayoutIs
<1> QED BY <1>2, BranchShape DEF LaidOut

\* A channel of a branch, seen from the inputs of that branch.
LEMMA BranchSlot ==
  ASSUME NEW e, NEW inputs, NEW n, NEW from \in Nat, NEW rounded, Branch(e, inputs, n, from, rounded),
         NEW m \in 1 .. n, NEW i, inputs[m] = Model.inputs[i],
         NEW c \in Int, from + Ends(inputs, m - 1) < c, c <= from + Ends(inputs, m)
  PROVE  InBranch(e, c) /\ Slot(e, i, c)
<1> DEFINE lo == Ends(inputs, m - 1)  hi == Ends(inputs, m)  top == Ends(inputs, n)  j == c - from
<1>1. /\ e.sizes \in Seq(Nat) /\ e.reserved = 0 /\ e.from = from /\ e.to = from + top /\ e.to \in Nat
      /\ top \in Nat /\ Len(e.sizes) = top
      /\ \A k \in 1 .. n : \A p \in Ends(inputs, k - 1) + 1 .. Ends(inputs, k) : e.sizes[p] = PerRvqVocabSize(inputs[k])
  BY BranchTyped
<1>2. lo \in Nat /\ hi \in Nat /\ hi <= top
  <2>1. TypedInputs(inputs, n) /\ n \in Nat
    BY DEF Branch, TypedInputs
  <2>2. m - 1 \in 0 .. n /\ m \in 0 .. n /\ n \in m .. n
    BY <2>1
  <2> QED BY <2>1, <2>2, EndsAre
<1>3. \A p \in lo + 1 .. hi : e.sizes[p] = PerRvqVocabSize(Model.inputs[i])
  BY <1>1
<1>a. from + lo < c /\ c <= from + hi
  OBVIOUS
<1> HIDE DEF lo, hi, top
<1>4. j \in lo + 1 .. hi /\ j \in 1 .. top
  <2>1. lo \in Nat /\ hi \in Nat /\ top \in Nat /\ hi <= top /\ lo < j /\ j <= hi /\ j \in Int
    BY <1>1, <1>2, <1>a
  <2> HIDE DEF j
  <2> QED BY <2>1
<1>5. e.sizes[j] = PerRvqVocabSize(Model.inputs[i])
  BY <1>3, <1>4
<1>6. from < c /\ c <= from + top /\ from + top - from = top
  BY <1>1, <1>2, <1>a
<1> QED BY <1>1, <1>4, <1>5, <1>6 DEF InBranch, Slot

LEMMA ChannelIs ==
  ASSUME NEW c \in 1 .. Channels
  PROVE  \E i : /\ InputOf(i, c) /\ \A k : InputOf(k, c) => k = i
                /\ \E b : Located(EncoderEmbedding(Model), b, i, c)
<1> DEFINE E(i) == Ends(Model.inputs, i)  emb == EncoderEmbedding(Model)  all == Channels  style == StyleTokens
<1>1. /\ E(0) = 0 /\ \A i \in 0 .. 5 : E(i) \in Nat
      /\ \A i \in 0 .. 5 : \A j \in i .. 5 : E(i) <= E(j)
  <2> DEFINE s == Model.inputs
  <2>1. TypedInputs(s, 5)
    BY AllInputs
  <2> HIDE DEF s
  <2>2. /\ Ends(s, 0) = 0 /\ \A i \in 0 .. 5 : Ends(s, i) \in Nat
        /\ \A i \in 0 .. 5 : \A j \in i .. 5 : Ends(s, i) <= Ends(s, j)
    BY <2>1, EndsAre
  <2> QED BY <2>2 DEF s
<1>2. /\ E(5) = all /\ E(1) = style /\ all \in Nat /\ style \in Nat /\ c \in Int /\ c >= 1 /\ c <= all
  BY TailEnds, CountsAre
<1>3. \A i : InputOf(i, c) <=> i \in 1 .. 5 /\ E(i - 1) < c /\ c <= E(i)
  BY DEF InputOf
<1>t. \A i \in 1 .. 5 : i - 1 \in 0 .. 5 /\ i \in 0 .. 5
  OBVIOUS
<1> HIDE DEF E
<1>4. \E i : InputOf(i, c)
  <2> DEFINE U == {i \in 0 .. 5 : c <= E(i)}
  <2>1. U \subseteq Nat /\ 5 \in U
    BY <1>2
  <2> HIDE DEF U
  <2>2. PICK i \in U : \A k \in U : ~(k < i)
    BY <2>1, LeastOf
  <2> USE DEF U
  <2>3. i \in 0 .. 5 /\ c <= E(i)
    BY <2>2
  <2>4. i # 0
    <3>1. i = 0 => E(i) = 0
      BY <1>1
    <3> HIDE DEF U, all
    <3> QED BY <1>2, <2>3, <3>1
  <2>5. i \in 1 .. 5 /\ i - 1 \in 0 .. 5 /\ i - 1 < i
    BY <2>3, <2>4
  <2>6. ~(c <= E(i - 1))
    BY <2>2, <2>5
  <2>7. E(i - 1) \in Nat
    BY <1>1, <2>5
  <2> QED BY <1>2, <1>3, <2>3, <2>5, <2>6, <2>7
<1>5. PICK i : InputOf(i, c)
  BY <1>4
<1>6. ASSUME NEW k, InputOf(k, c) PROVE k = i
  <2>1. k \in 1 .. 5 /\ E(k - 1) < c /\ c <= E(k) /\ i \in 1 .. 5 /\ E(i - 1) < c /\ c <= E(i)
    BY <1>3, <1>5, <1>6
  <2>2. E(k) \in Nat /\ E(i) \in Nat /\ E(k - 1) \in Nat /\ E(i - 1) \in Nat
    BY <1>1, <1>t, <2>1
  <2>3. ~(k < i)
    <3> SUFFICES ASSUME k < i PROVE FALSE
      OBVIOUS
    <3>1. k \in 0 .. 5 /\ i - 1 \in k .. 5
      BY <2>1
    <3>2. E(k) <= E(i - 1)
      BY <1>1, <3>1
    <3> QED BY <1>2, <2>1, <2>2, <3>2
  <2>4. ~(i < k)
    <3> SUFFICES ASSUME i < k PROVE FALSE
      OBVIOUS
    <3>1. i \in 0 .. 5 /\ k - 1 \in i .. 5
      BY <2>1
    <3>2. E(i) <= E(k - 1)
      BY <1>1, <3>1
    <3> QED BY <1>2, <2>1, <2>2, <3>2
  <2> QED BY <2>1, <2>3, <2>4
<1>7. i \in 1 .. 5 /\ E(i - 1) < c /\ c <= E(i) /\ E(i - 1) \in Nat /\ E(i) \in Nat
  BY <1>1, <1>3, <1>5, <1>t
<1>8. CASE ~Model.pretrained
  <2>1. DOMAIN emb = 1 .. 1 /\ Branch(emb[1], Model.inputs, 5, 0, TRUE)
    BY <1>8, EmbeddingIs DEF EmbeddingOne
  <2> HIDE DEF emb
  <2> DEFINE e == emb[1]
  <2>2. 0 + E(i - 1) < c /\ c <= 0 + E(i) /\ 0 \in Nat
    BY <1>7
  <2>3. InBranch(e, c) /\ Slot(e, i, c)
    <3> HIDE DEF e
    <3> QED BY <1>2, <1>7, <2>1, <2>2, BranchSlot DEF E, e
  <2>4. \A n \in 1 .. 1 : n = 1
    OBVIOUS
  <2>5. Located(emb, 1, i, c)
    BY <2>1, <2>3, <2>4 DEF Located
  <2> QED BY <1>5, <1>6, <2>5 DEF emb
<1>9. CASE Model.pretrained
  <2> DEFINE h == SubSeq(Model.inputs, 1, 1)  v == Tail(Model.inputs)
  <2>1. DOMAIN emb = 1 .. 2 /\ Branch(emb[1], h, 1, 0, FALSE) /\ Branch(emb[2], v, 4, style, TRUE)
    BY <1>9, EmbeddingIs DEF EmbeddingTwo
  <2> HIDE DEF emb
  <2> DEFINE e == emb[1]  f == emb[2]
  <2>2. Ends(h, 1) = style /\ h[1] = Model.inputs[1] /\ Ends(h, 0) = 0
    <3>1. TypedInputs(h, 1)
      BY AllInputs
    <3>2. Ends(h, 1) = style /\ h[1] = Model.inputs[1]
      BY AllInputs, TailEnds
    <3> HIDE DEF h
    <3> QED BY <3>1, <3>2, EndsAre
  <2>3. /\ \A k \in 0 .. 4 : Ends(v, k) = E(k + 1) - style
        /\ \A k \in 1 .. 4 : v[k] = Model.inputs[k + 1]
    BY AllInputs, TailEnds DEF E
  <2> HIDE DEF h, v
  <2>4. e.from = 0 /\ e.to = style /\ f.from = style /\ f.to = all
    <3>1. e.from = 0 /\ e.to = 0 + Ends(h, 1) /\ f.from = style /\ f.to = style + Ends(v, 4)
      BY <2>1 DEF Branch
    <3>2. 4 \in 0 .. 4 /\ 4 + 1 = 5
      OBVIOUS
    <3>3. Ends(v, 4) = all - style
      BY <1>2, <2>3, <3>2
    <3> HIDE DEF all, style, e, f
    <3> QED BY <1>2, <2>2, <3>1, <3>3
  <2> HIDE DEF e, f, all, style
  <2>n. \A n \in 1 .. 2 : n = 1 \/ n = 2
    OBVIOUS
  <2>5. CASE c <= style
    <3>1. i = 1
      <4>1. E(1 - 1) < c /\ c <= E(1)
        BY <1>1, <1>2, <2>5
      <4>2. InputOf(1, c)
        BY <1>3, <4>1
      <4> QED BY <1>6, <4>2
    <3>2. /\ 1 \in 1 .. 1 /\ 0 \in Nat /\ h[1] = Model.inputs[i] /\ 0 + Ends(h, 1 - 1) < c /\ c <= 0 + Ends(h, 1)
      BY <1>2, <2>2, <2>5, <3>1
    <3>3. InBranch(e, c) /\ Slot(e, i, c)
      BY <1>2, <2>1, <3>2, BranchSlot DEF e
    <3>4. ~InBranch(f, c)
      BY <1>2, <2>4, <2>5 DEF InBranch
    <3>5. Located(emb, 1, i, c)
      BY <2>1, <2>n, <3>3, <3>4 DEF Located, e, f
    <3> QED BY <1>5, <1>6, <3>5 DEF emb
  <2>6. CASE ~(c <= style)
    <3> DEFINE m == i - 1
    <3>1. i # 1
      BY <1>2, <1>7, <2>6
    <3>2. m \in 1 .. 4 /\ m - 1 \in 0 .. 4 /\ m \in 0 .. 4 /\ m + 1 = i /\ m - 1 + 1 = i - 1
      BY <1>7, <3>1
    <3>3. v[m] = Model.inputs[i] /\ Ends(v, m - 1) = E(i - 1) - style /\ Ends(v, m) = E(i) - style
      BY <2>3, <3>2
    <3> HIDE DEF m
    <3>4. style + Ends(v, m - 1) < c /\ c <= style + Ends(v, m)
      BY <1>2, <1>7, <3>3
    <3>5. InBranch(f, c) /\ Slot(f, i, c)
      BY <1>2, <2>1, <3>2, <3>3, <3>4, BranchSlot DEF f
    <3>6. ~InBranch(e, c)
      BY <1>2, <2>4, <2>6 DEF InBranch
    <3>7. Located(emb, 2, i, c)
      BY <2>1, <2>n, <3>5, <3>6 DEF Located, e, f
    <3> QED BY <1>5, <1>6, <3>7 DEF emb
  <2> QED BY <2>5, <2>6
<1>10. Model.pretrained \in BOOLEAN
  BY SystemAssumption
<1> QED BY <1>8, <1>9, <1>10

LEMMA OffsetsAre ==
  ASSUME NEW e, e.sizes \in Seq(Nat)
  PROVE  /\ SumOf(e.sizes) \in Nat
         /\ \A j \in 1 .. Len(e.sizes) : /\ Offset(e, j) \in Nat
                                         /\ Offset(e, j) + e.sizes[j] <= SumOf(e.sizes)
         /\ \A j, k \in 1 .. Len(e.sizes) : j < k => Offset(e, j) + e.sizes[j] <= Offset(e, k)
<1> DEFINE s == e.sizes  n == Len(s)
<1>1. n \in Nat /\ s = [i \in 1 .. n |-> s[i]] /\ \A i \in 1 .. n : s[i] \in Nat
  <2>1. s \in Seq(Nat)
    OBVIOUS
  <2> HIDE DEF s
  <2> QED BY <2>1
<1>2. \A j : Offset(e, j) = SumOf(SubSeq(s, 1, j - 1))
  BY DEF Offset
<1> HIDE DEF s, n
<1>3. /\ \A i \in 0 .. n : Total(s, i) \in Nat
      /\ \A i \in 1 .. n : Total(s, i) = Total(s, i - 1) + s[i]
      /\ \A i \in 0 .. n : \A j \in i .. n : Total(s, i) <= Total(s, j)
  BY <1>1, TotalGrows
<1>4. \A j \in 1 .. n : j \in 0 .. n /\ j - 1 \in 0 .. n /\ n \in j .. n
  BY <1>1
<1>5. \A j \in 1 .. n : Offset(e, j) = Total(s, j - 1)
  <2>1. \A i \in 0 .. n : SumOf(SubSeq(s, 1, i)) = Total(s, i)
    BY <1>1, FirstTotal
  <2> QED BY <1>2, <1>4, <2>1
<1>6. SumOf(s) = Total(s, n)
  BY <1>1 DEF Total
<1>7. n \in 0 .. n
  BY <1>1
<1>8. \A j \in 1 .. n : Offset(e, j) \in Nat /\ Offset(e, j) + s[j] = Total(s, j) /\ Total(s, j) <= SumOf(s)
  BY <1>3, <1>4, <1>5, <1>6
<1>9. ASSUME NEW j \in 1 .. n, NEW k \in 1 .. n, j < k PROVE Total(s, j) <= Offset(e, k)
  <2>1. j \in 0 .. n /\ k - 1 \in j .. n
    BY <1>1, <1>9
  <2> QED BY <1>3, <1>5, <2>1
<1>10. \A j, k \in 1 .. n : j < k => Offset(e, j) + s[j] <= Offset(e, k)
  BY <1>8, <1>9
<1>11. SumOf(s) \in Nat
  BY <1>3, <1>6, <1>7
<1> QED BY <1>8, <1>10, <1>11 DEF s, n

LEMMA EmbedTyped ==
  ASSUME NEW t \in Int
  PROVE  Embed(t) \in Int
BY DEF Embed, Prime

GoodBranch(e) ==
  /\ e.sizes \in Seq(Nat) /\ e.reserved = 0 /\ e.from \in Nat /\ e.to \in Nat /\ e.from <= e.to /\ e.to <= Channels
  /\ Len(e.sizes) = e.to - e.from

SomeBranch(e) ==
  \E inputs, n, rounded : \E from \in Nat :
    Branch(e, inputs, n, from, rounded) /\ from + Ends(inputs, n) <= Channels
LEMMA SomeBranchGood ==
  ASSUME NEW e, SomeBranch(e)
  PROVE  GoodBranch(e)
<1>1. PICK inputs, n, rounded : \E from \in Nat :
             Branch(e, inputs, n, from, rounded) /\ from + Ends(inputs, n) <= Channels
  BY DEF SomeBranch
<1>2. PICK from \in Nat : Branch(e, inputs, n, from, rounded) /\ from + Ends(inputs, n) <= Channels
  BY <1>1
<1>3. /\ e.sizes \in Seq(Nat) /\ e.reserved = 0 /\ e.from = from /\ e.to = from + Ends(inputs, n) /\ e.to \in Nat
      /\ Ends(inputs, n) \in Nat /\ Len(e.sizes) = Ends(inputs, n)
  BY <1>2, BranchShape
<1>4. Len(e.sizes) = e.to - e.from /\ e.from <= e.to
  BY <1>3
<1> QED BY <1>2, <1>3, <1>4 DEF GoodBranch

LEMMA BranchesAre ==
  \E N \in {1, 2} : /\ DOMAIN EncoderEmbedding(Model) = 1 .. N
                    /\ \A n \in 1 .. N : GoodBranch(EncoderEmbedding(Model)[n])
<1> DEFINE emb == EncoderEmbedding(Model)  all == Channels  style == StyleTokens
<1>1. all \in Nat /\ style \in Nat /\ Ends(Model.inputs, 5) = all /\ Ends(SubSeq(Model.inputs, 1, 1), 1) = style
      /\ style <= all
  <2>1. Channels = StyleTokens + NoteTokens + DrumTokens + 3
    BY DEF Channels
  <2> QED BY CountsAre, TailEnds, <2>1
<1>2. CASE ~Model.pretrained
  <2>1. DOMAIN emb = 1 .. 1 /\ Branch(emb[1], Model.inputs, 5, 0, TRUE)
    BY <1>2, EmbeddingIs DEF EmbeddingOne
  <2> HIDE DEF emb
  <2>2. 0 \in Nat /\ 0 + all <= all /\ \A n \in 1 .. 1 : n = 1
    BY <1>1
  <2>3. SomeBranch(emb[1])
    BY <1>1, <2>1, <2>2 DEF SomeBranch
  <2>4. GoodBranch(emb[1])
    BY <2>3, SomeBranchGood
  <2> QED BY <2>1, <2>2, <2>4 DEF emb
<1>3. CASE Model.pretrained
  <2> DEFINE h == SubSeq(Model.inputs, 1, 1)  v == Tail(Model.inputs)
  <2>1. DOMAIN emb = 1 .. 2 /\ Branch(emb[1], h, 1, 0, FALSE) /\ Branch(emb[2], v, 4, style, TRUE)
    BY <1>3, EmbeddingIs DEF EmbeddingTwo
  <2> HIDE DEF emb
  <2>2. Ends(v, 4) = all - style
    <3>1. 4 \in 0 .. 4 /\ 4 + 1 = 5
      OBVIOUS
    <3> QED BY <1>1, <3>1, TailEnds
  <2>a. Ends(h, 1) = style
    BY <1>1
  <2> HIDE DEF h, v, all, style
  <2>3. 0 \in Nat /\ 0 + Ends(h, 1) <= all /\ style + Ends(v, 4) <= all /\ style \in Nat /\ \A n \in 1 .. 2 : n = 1 \/ n = 2
    BY <1>1, <2>2, <2>a
  <2>4. SomeBranch(emb[1])
    BY <2>1, <2>3 DEF SomeBranch, all
  <2>5. SomeBranch(emb[2])
    BY <2>1, <2>3 DEF SomeBranch, all
  <2>6. GoodBranch(emb[1]) /\ GoodBranch(emb[2])
    BY <2>4, <2>5, SomeBranchGood
  <2> QED BY <2>1, <2>3, <2>6 DEF emb
<1>4. Model.pretrained \in BOOLEAN
  BY SystemAssumption
<1> QED BY <1>2, <1>3, <1>4

BranchSum(e, row, n) == SumOf([i \in 1 .. e.to - e.from |-> Embed(1000 * n + RowOf(e, row[e.from + i], i))])
JaxBranchSum(e, row, n) == SumOf([i \in 1 .. e.to - e.from |-> Embed(1000 * n + JaxRowOf(e, row[e.from + i], i))])
LEMMA BranchSumTyped ==
  ASSUME NEW e, GoodBranch(e), NEW row, ChannelRow(row), NEW n \in Nat
  PROVE  BranchSum(e, row, n) \in Int /\ JaxBranchSum(e, row, n) \in Int
<1> DEFINE L == e.to - e.from  from == e.from
           s == [i \in 1 .. L |-> Embed(1000 * n + RowOf(e, row[from + i], i))]
           t == [i \in 1 .. L |-> Embed(1000 * n + JaxRowOf(e, row[from + i], i))]
<1>1. /\ e.sizes \in Seq(Nat) /\ e.reserved = 0 /\ from \in Nat /\ L \in Nat /\ from + L <= Channels
      /\ Len(e.sizes) = L /\ Channels \in Nat
  BY CountsAre DEF GoodBranch
<1> HIDE DEF L, from
<1>2. ASSUME NEW i \in 1 .. L
      PROVE  Embed(1000 * n + RowOf(e, row[from + i], i)) \in Int /\ Embed(1000 * n + JaxRowOf(e, row[from + i], i)) \in Int
  <2> DEFINE p == from + i  x == row[p]  o == Offset(e, i)
  <2>1. p \in 1 .. Channels
    BY <1>1
  <2>2. x \in Int
    <3> HIDE DEF p
    <3> QED BY <2>1 DEF ChannelRow
  <2>3. o \in Nat
    BY <1>1, OffsetsAre
  <2> HIDE DEF x, o
  <2>4. RowOf(e, x, i) \in Int /\ JaxRowOf(e, x, i) \in Int
    BY <1>1, <2>2, <2>3 DEF RowOf, JaxRowOf, o
  <2> DEFINE y == RowOf(e, x, i)  z == JaxRowOf(e, x, i)
  <2> HIDE DEF y, z
  <2>5. 1000 * n + y \in Int /\ 1000 * n + z \in Int
    BY <2>4 DEF y, z
  <2>6. Embed(1000 * n + y) \in Int /\ Embed(1000 * n + z) \in Int
    BY <2>5, EmbedTyped
  <2> QED BY <2>6 DEF y, z, x
<1>3. /\ s = [i \in 1 .. L |-> s[i]] /\ \A i \in 1 .. L : s[i] \in Int
      /\ t = [i \in 1 .. L |-> t[i]] /\ \A i \in 1 .. L : t[i] \in Int
  BY <1>2
<1> HIDE DEF s, t
<1>4. SumOf(s) \in Int /\ SumOf(t) \in Int
  BY <1>1, <1>3, SumTyped
<1> QED BY <1>4 DEF s, t, L, from, BranchSum, JaxBranchSum

LEMMA EmbeddingOf ==
  ASSUME NEW b \in Backends
  PROVE  DepthformerOf(b).embedding = EncoderEmbedding(Model)
<1> DEFINE emb == EncoderEmbedding(Model)
<1>1. JaxEncoderEmbedding(Model) = emb
  BY EmbeddingIs
<1> HIDE DEF emb
<1>2. \A a : DepthformerConfig(Model, a, Unset).embedding = emb
  BY DEF DepthformerConfig, emb
<1>3. JaxDepthformerConfig(Model).embedding = emb
  BY <1>1 DEF JaxDepthformerConfig
<1> QED BY <1>2, <1>3 DEF DepthformerOf, MlxDepth, JaxDepth, MlxfnDepth, Backends, emb

LEMMA EncodedTyped ==
  ASSUME NEW b \in Backends, NEW row, ChannelRow(row)
  PROVE  EncodedBy(b, DepthformerOf(b), row) \in Int
<1> DEFINE d == DepthformerOf(b)  emb == d.embedding
           s == [n \in DOMAIN emb |-> SumOf([i \in 1 .. emb[n].to - emb[n].from |->
                                              Embed(1000 * n + RowOf(emb[n], row[emb[n].from + i], i))])]
           t == [n \in DOMAIN emb |-> SumOf([i \in 1 .. emb[n].to - emb[n].from |->
                                              Embed(1000 * n + JaxRowOf(emb[n], row[emb[n].from + i], i))])]
<1>1. Encoded(d, row) = SumOf(s) % Prime /\ JaxEncoded(d, row) = SumOf(t) % Prime
  BY DEF Encoded, JaxEncoded
<1>2. PICK N \in {1, 2} : DOMAIN emb = 1 .. N /\ \A n \in 1 .. N : GoodBranch(emb[n])
  BY BranchesAre, EmbeddingOf
<1> HIDE DEF emb
<1>3. N \in Nat /\ \A n \in 1 .. N : n \in Nat
  BY <1>2
<1>4. /\ s = [n \in 1 .. N |-> s[n]] /\ \A n \in 1 .. N : s[n] \in Int
      /\ t = [n \in 1 .. N |-> t[n]] /\ \A n \in 1 .. N : t[n] \in Int
  <2>1. ASSUME NEW n \in 1 .. N PROVE s[n] \in Int /\ t[n] \in Int
    <3> DEFINE e == emb[n]
    <3>1. GoodBranch(e) /\ n \in Nat
      BY <1>2, <1>3
    <3>2. s[n] = BranchSum(e, row, n) /\ t[n] = JaxBranchSum(e, row, n)
      BY <1>2 DEF BranchSum, JaxBranchSum
    <3> HIDE DEF e, s, t
    <3> QED BY <3>1, <3>2, BranchSumTyped
  <2>2. s = [n \in 1 .. N |-> s[n]] /\ t = [n \in 1 .. N |-> t[n]]
    BY <1>2
  <2> HIDE DEF s, t
  <2> QED BY <2>1, <2>2
<1> HIDE DEF s, t, d
<1>5. SumOf(s) \in Int /\ SumOf(t) \in Int
  BY <1>3, <1>4, SumTyped
<1>6. SumOf(s) % Prime \in Int /\ SumOf(t) % Prime \in Int
  BY <1>5 DEF Prime
<1> QED BY <1>1, <1>6 DEF EncodedBy, d

\* The channels before input i + 1 are those the tables count.
LEMMA UsedIs ==
  ASSUME NEW m \in 0 .. 5
  PROVE  Used(SubSeq(Model.inputs, 1, m)) = Ends(Model.inputs, m)
<1> DEFINE s == Model.inputs  z == [j \in DOMAIN s |-> s[j].used]  w == [j \in 1 .. m |-> s[j].used]  u == SubSeq(s, 1, m)
<1>1. s = [i \in 1 .. 5 |-> s[i]] /\ 5 \in Nat
  BY AllInputs DEF TypedInputs
<1> HIDE DEF s
<1>2. u = [j \in 1 .. m |-> s[j]]
  BY <1>1, FirstTotal
<1>3. DOMAIN s = 1 .. 5 /\ z = [j \in 1 .. 5 |-> z[j]] /\ \A j \in 1 .. m : z[j] = s[j].used
  <2>1. DOMAIN s = 1 .. 5
    BY <1>1
  <2>2. \A j \in 1 .. m : j \in 1 .. 5
    OBVIOUS
  <2> QED BY <2>1, <2>2
<1> HIDE DEF u, z
<1>4. SubSeq(z, 1, m) = [j \in 1 .. m |-> z[j]] /\ SumOf(SubSeq(z, 1, m)) = Total(z, m)
  BY <1>1, <1>3, FirstTotal
<1>5. SubSeq(z, 1, m) = w
  BY <1>3, <1>4
<1>6. [i \in DOMAIN u |-> u[i].used] = w
  <2>1. DOMAIN u = 1 .. m /\ \A i \in 1 .. m : u[i] = s[i]
    BY <1>2
  <2> QED BY <2>1
<1>7. Used(u) = SumOf(w)
  BY <1>6 DEF Used
<1>8. Ends(s, m) = Total(z, m)
  BY DEF Ends, z
<1> QED BY <1>4, <1>5, <1>7, <1>8 DEF s, u

LEMMA ChannelConfigIs ==
  ASSUME NEW c, NEW i, InputOf(i, c), \A k : InputOf(k, c) => k = i
  PROVE  ChannelConfig(c) = Model.inputs[i]
<1> DEFINE P(k) == k \in DOMAIN Model.inputs /\ Used(SubSeq(Model.inputs, 1, k - 1)) < c /\ c <= Used(SubSeq(Model.inputs, 1, k))
<1>1. ASSUME NEW k PROVE P(k) <=> InputOf(k, c)
  <2>1. DOMAIN Model.inputs = 1 .. 5
    BY InputsAre
  <2>2. \A j \in 1 .. 5 : j - 1 \in 0 .. 5 /\ j \in 0 .. 5
    OBVIOUS
  <2>3. \A j \in 0 .. 5 : Used(SubSeq(Model.inputs, 1, j)) = Ends(Model.inputs, j)
    BY UsedIs
  <2> QED BY <2>1, <2>2, <2>3 DEF InputOf
<1>2. \A k \in DOMAIN Model.inputs :
        (Used(SubSeq(Model.inputs, 1, k - 1)) < c /\ c <= Used(SubSeq(Model.inputs, 1, k))) <=> k = i
  BY <1>1
<1>3. i \in DOMAIN Model.inputs
  BY <1>1
<1>4. (CHOOSE k \in DOMAIN Model.inputs :
         Used(SubSeq(Model.inputs, 1, k - 1)) < c /\ c <= Used(SubSeq(Model.inputs, 1, k))) = i
  BY <1>2, <1>3
<1> QED BY <1>4 DEF ChannelConfig

Heard == 1 .. StyleTokens + NoteTokens + DrumTokens
\* Where the value v of the channel c is kept: branch b, and its row there.
KeptIn(c, v, b) ==
  LET emb == EncoderEmbedding(Model)
      e == emb[b]
      j == c - e.from
  IN /\ b \in DOMAIN emb /\ e.sizes \in Seq(Nat) /\ j \in 1 .. Len(e.sizes)
     /\ v \in Int /\ e.from \in Nat /\ v + 7 \in Nat /\ v + 7 < e.sizes[j]
     /\ RowIn(emb, c, v, RowOf) = <<b, v + 7 + Offset(e, j)>>
     /\ RowIn(emb, c, v, JaxRowOf) = <<b, v + 7 + Offset(e, j)>>

LEMMA HeardIs ==
  ASSUME NEW c \in Heard
  PROVE  /\ c \in 1 .. Channels
         /\ \A i : InputOf(i, c) => i \in 1 .. 3
<1>1. StyleTokens \in Nat /\ NoteTokens \in Nat /\ DrumTokens \in Nat /\ c <= Ends(Model.inputs, 3)
      /\ Ends(Model.inputs, 3) \in Nat
  BY CountsAre, TailEnds DEF Heard
<1>2. c \in 1 .. Channels
  BY <1>1 DEF Channels, Heard
<1>3. ASSUME NEW i, InputOf(i, c) PROVE i \in 1 .. 3
  <2>1. i \in 1 .. 5 /\ Ends(Model.inputs, i - 1) < c
    BY <1>3 DEF InputOf
  <2>2. i - 1 \in 0 .. 5 /\ (~(i <= 3) => i - 1 \in 3 .. 5) /\ 3 \in 0 .. 5
    BY <2>1
  <2>3. \A k \in 3 .. 5 : Ends(Model.inputs, 3) <= Ends(Model.inputs, k)
    <3> DEFINE s == Model.inputs
    <3>1. TypedInputs(s, 5)
      BY AllInputs
    <3> HIDE DEF s
    <3>2. \A k \in 0 .. 5 : \A j \in k .. 5 : Ends(s, k) <= Ends(s, j)
      BY <3>1, EndsAre
    <3> QED BY <2>2, <3>2 DEF s
  <2>4. Ends(Model.inputs, i - 1) \in Nat
    <3> DEFINE s == Model.inputs
    <3>1. TypedInputs(s, 5)
      BY AllInputs
    <3> HIDE DEF s
    <3>2. \A k \in 0 .. 5 : Ends(s, k) \in Nat
      BY <3>1, EndsAre
    <3> QED BY <2>2, <3>2 DEF s
  <2>5. c \in Int
    BY <1>2
  <2> QED BY <1>1, <2>1, <2>2, <2>3, <2>4, <2>5
<1> QED BY <1>2, <1>3

LEMMA KeptIs ==
  ASSUME NEW c \in Heard, NEW v \in ValuesOf(c)
  PROVE  \E b : KeptIn(c, v, b)
<1> DEFINE emb == EncoderEmbedding(Model)
<1>1. c \in 1 .. Channels
  BY HeardIs
<1>2. PICK i : /\ InputOf(i, c) /\ \A k : InputOf(k, c) => k = i
               /\ \E b : Located(emb, b, i, c)
  BY <1>1, ChannelIs
<1>3. PICK b : Located(emb, b, i, c)
  BY <1>2
<1> HIDE DEF emb
<1> DEFINE e == emb[b]  j == c - e.from  t == Model.inputs[i]
<1>4. ChannelConfig(c) = t /\ i \in 1 .. 3 /\ i \in 1 .. 5
  BY <1>2, ChannelConfigIs, HeardIs
<1>5. t.dropout /\ t \in TokensFields
  BY <1>4, InputsAre
<1>6. PerRvqVocabSize(t) = t.codebook + 7 /\ t.codebook \in Nat \ {0}
  BY <1>5, PerRvqTyped DEF TokensFields
<1>7. v \in -1 .. t.codebook - 1
  BY <1>4 DEF ValuesOf
<1>8. e.sizes \in Seq(Nat) /\ e.reserved = 0 /\ e.from \in Nat /\ j \in 1 .. Len(e.sizes) /\ e.sizes[j] = PerRvqVocabSize(t)
      /\ b \in DOMAIN emb /\ e.from < c /\ c <= e.to
      /\ \A n \in DOMAIN emb : (emb[n].from < c /\ c <= emb[n].to) => n = b
  BY <1>3 DEF Located, Slot, InBranch
<1>9. (CHOOSE n \in DOMAIN emb : emb[n].from < c /\ c <= emb[n].to) = b
  <2>1. \A n \in DOMAIN emb : (emb[n].from < c /\ c <= emb[n].to) <=> n = b
    BY <1>8
  <2> HIDE DEF e, j, t
  <2> QED BY <1>8, <2>1
<1>10. /\ RowIn(emb, c, v, RowOf) = <<b, RowOf(e, v + 7, j)>>
       /\ RowIn(emb, c, v, JaxRowOf) = <<b, JaxRowOf(e, v + 7, j)>>
  <2>1. v + NumReservedTokens + 1 = v + 7
    BY <1>7, <1>6 DEF NumReservedTokens
  <2> QED BY <1>9, <2>1 DEF RowIn
<1>11. Offset(e, j) \in Nat
  <2> HIDE DEF e, j
  <2> QED BY <1>8, OffsetsAre
<1>12. v + 7 \in Nat /\ v + 7 < e.sizes[j] /\ v + 7 >= 0
  <2> DEFINE k == t.codebook  z == e.sizes[j]
  <2>1. k \in Nat /\ v \in -1 .. k - 1 /\ z = k + 7
    BY <1>6, <1>7, <1>8
  <2> HIDE DEF k, z
  <2> QED BY <2>1 DEF z
<1>13. RowOf(e, v + 7, j) = v + 7 + Offset(e, j) /\ JaxRowOf(e, v + 7, j) = v + 7 + Offset(e, j)
  BY <1>8, <1>11, <1>12 DEF RowOf, JaxRowOf
<1>a. v \in Int
  BY <1>6, <1>7
<1> HIDE DEF e, j, t
<1>14. KeptIn(c, v, b)
  BY <1>a, <1>8, <1>10, <1>12, <1>13 DEF KeptIn, emb, e, j
<1> QED BY <1>14

\* Two values that are kept in one place are the same.
LEMMA OnePlace ==
  ASSUME NEW c \in Heard, NEW v, NEW b, KeptIn(c, v, b), NEW d \in Heard, NEW w, NEW n, KeptIn(d, w, n),
         RowIn(EncoderEmbedding(Model), c, v, RowOf) = RowIn(EncoderEmbedding(Model), d, w, RowOf)
  PROVE  c = d /\ v = w
<1> DEFINE e == EncoderEmbedding(Model)[b]  j == c - e.from  k == d - e.from  o(x) == Offset(e, x)
<1>1. b = n
  BY DEF KeptIn
<1>2. /\ e.sizes \in Seq(Nat) /\ j \in 1 .. Len(e.sizes) /\ k \in 1 .. Len(e.sizes)
      /\ v + 7 \in Nat /\ v + 7 < e.sizes[j] /\ w + 7 \in Nat /\ w + 7 < e.sizes[k]
  BY <1>1 DEF KeptIn
<1>3. v + 7 + o(j) = w + 7 + o(k)
  BY <1>1 DEF KeptIn
<1>4. c \in Int /\ d \in Int
  BY HeardIs
<1>5. v \in Int /\ w \in Int /\ e.from \in Nat
  BY DEF KeptIn
<1> DEFINE s == e.sizes  N == Len(s)  x == v + 7  y == w + 7  sj == s[j]  sk == s[k]
<1>6. /\ x \in Nat /\ y \in Nat /\ x + o(j) = y + o(k) /\ x < sj /\ y < sk
      /\ j \in 1 .. N /\ k \in 1 .. N /\ N \in Nat /\ s \in Seq(Nat)
  BY <1>2, <1>3
<1>7. sj \in Nat /\ sk \in Nat
  <2> HIDE DEF j, k, s
  <2> QED BY <1>6 DEF sj, sk, N
<1>8. /\ o(j) \in Nat /\ o(k) \in Nat
      /\ (j < k => o(j) + sj <= o(k)) /\ (k < j => o(k) + sk <= o(j))
  <2>1. \A i \in 1 .. Len(e.sizes) : Offset(e, i) \in Nat
    <3> HIDE DEF e
    <3> QED BY <1>6, OffsetsAre DEF s
  <2>2. \A i, m \in 1 .. Len(e.sizes) : i < m => Offset(e, i) + e.sizes[i] <= Offset(e, m)
    <3> HIDE DEF e
    <3> QED BY <1>6, OffsetsAre DEF s
  <2> HIDE DEF e, j, k
  <2> QED BY <1>6, <2>1, <2>2
<1> DEFINE oj == o(j)  ok == o(k)
<1>9. oj \in Nat /\ ok \in Nat /\ (j < k => oj + sj <= ok) /\ (k < j => ok + sk <= oj) /\ x + oj = y + ok
  BY <1>6, <1>8
<1>10. j = k => oj = ok /\ sj = sk
  OBVIOUS
<1>11. x = y => v = w
  BY <1>5
<1>12. j = k => c = d
  BY <1>4, <1>5
<1> HIDE DEF oj, ok, sj, sk, j, k, s, N, x, y
<1>13. j \in Int /\ k \in Int
  BY <1>6
<1>14. ~(j < k) /\ ~(k < j)
  BY <1>6, <1>7, <1>9
<1>15. j = k
  BY <1>13, <1>14
<1>16. x = y
  BY <1>6, <1>9, <1>10, <1>15
<1> QED BY <1>11, <1>12, <1>15, <1>16

LEMMA RoundedGrows ==
  ASSUME NEW n \in Nat
  PROVE  RoundedUp(n) >= n
BY DEF RoundedUp

LEMMA KeptInTable ==
  ASSUME NEW c \in Heard, NEW v, NEW b, KeptIn(c, v, b)
  PROVE  RowIn(EncoderEmbedding(Model), c, v, RowOf)[2]
         < TableRows(EncoderEmbedding(Model)[RowIn(EncoderEmbedding(Model), c, v, RowOf)[1]])
<1> DEFINE emb == EncoderEmbedding(Model)  e == emb[b]  j == c - e.from  s == e.sizes  row == v + 7 + Offset(e, j)
           sum == SumOf(s)
<1>1. /\ RowIn(emb, c, v, RowOf) = <<b, row>> /\ b \in DOMAIN emb /\ s \in Seq(Nat) /\ j \in 1 .. Len(s)
      /\ v + 7 \in Nat /\ v + 7 < s[j]
  BY DEF KeptIn
<1>2. GoodBranch(e)
  BY <1>1, BranchesAre
<1>3. e.reserved = 0
  BY <1>2 DEF GoodBranch
<1> HIDE DEF emb, e, j
<1>4. Offset(e, j) \in Nat /\ Offset(e, j) + s[j] <= sum /\ sum \in Nat
  BY <1>1, OffsetsAre
<1> DEFINE o == Offset(e, j)  x == v + 7  z == s[j]
<1>5. z \in Nat
  <2> HIDE DEF s
  <2> QED BY <1>1
<1>6. row = x + o /\ x \in Nat /\ x < z /\ o \in Nat /\ o + z <= sum /\ sum \in Nat
  BY <1>1, <1>4
<1>7. TableRows(e) = RoundedUp(sum) \/ TableRows(e) = sum
  <2>1. e.reserved + SumOf(e.sizes) = sum
    BY <1>3, <1>4
  <2> HIDE DEF sum, s
  <2> QED BY <2>1 DEF TableRows
<1> HIDE DEF o, x, z, row, sum
<1>8. row < sum /\ row \in Int
  BY <1>5, <1>6
<1>9. RoundedUp(sum) \in Int /\ RoundedUp(sum) >= sum
  <2>1. RoundedUp(sum) >= sum
    BY <1>6, RoundedGrows
  <2> QED BY <1>6, <2>1 DEF RoundedUp
<1>10. row < TableRows(e)
  BY <1>6, <1>7, <1>8, <1>9
<1> QED BY <1>1, <1>10 DEF emb, e

RowsHold ==
  LET mlx == EncoderEmbedding(Model)
      jax == JaxEncoderEmbedding(Model)
      channels == 1 .. StyleTokens + NoteTokens + DrumTokens
      own == {<<c, v>> : c \in channels, v \in UNION {ValuesOf(d) : d \in channels}}
      values == {x \in own : x[2] \in ValuesOf(x[1])}
  IN /\ \A x, y \in values : x # y => RowIn(mlx, x[1], x[2], RowOf) # RowIn(mlx, y[1], y[2], RowOf)
     /\ \A x \in values :
          /\ RowIn(mlx, x[1], x[2], RowOf) = RowIn(jax, x[1], x[2], JaxRowOf)
          /\ RowIn(mlx, x[1], x[2], RowOf)[2] < TableRows(mlx[RowIn(mlx, x[1], x[2], RowOf)[1]])
     /\ \A b \in DOMAIN mlx : TableRows(mlx[b]) = JaxTableRows(jax[b])

LEMMA RowsAre == RowsHold
<1> DEFINE mlx == EncoderEmbedding(Model)  jax == JaxEncoderEmbedding(Model)
           own == {<<c, v>> : c \in Heard, v \in UNION {ValuesOf(d) : d \in Heard}}
           values == {x \in own : x[2] \in ValuesOf(x[1])}
<1>1. mlx = jax
  BY EmbeddingIs
<1>2. ASSUME NEW x \in values PROVE x = <<x[1], x[2]>> /\ x[1] \in Heard /\ x[2] \in ValuesOf(x[1])
  <2>1. PICK c \in Heard, v \in UNION {ValuesOf(d) : d \in Heard} : x = <<c, v>>
    OBVIOUS
  <2>2. x[1] = c /\ x[2] = v
    BY <2>1
  <2> QED BY <2>1, <2>2
<1> HIDE DEF values, own, mlx, jax
<1>3. ASSUME NEW x \in values, NEW y \in values, x # y
      PROVE  RowIn(mlx, x[1], x[2], RowOf) # RowIn(mlx, y[1], y[2], RowOf)
  <2> DEFINE c == x[1]  v == x[2]  d == y[1]  w == y[2]
  <2>1. x = <<c, v>> /\ c \in Heard /\ v \in ValuesOf(c) /\ y = <<d, w>> /\ d \in Heard /\ w \in ValuesOf(d)
    BY <1>2
  <2>2. ~(c = d /\ v = w)
    BY <1>3, <2>1
  <2> HIDE DEF c, v, d, w
  <2>3. PICK b : KeptIn(c, v, b)
    BY <2>1, KeptIs
  <2>4. PICK n : KeptIn(d, w, n)
    BY <2>1, KeptIs
  <2>5. RowIn(mlx, c, v, RowOf) # RowIn(mlx, d, w, RowOf)
    BY <2>1, <2>2, <2>3, <2>4, OnePlace DEF mlx
  <2> QED BY <2>5 DEF c, v, d, w
<1>4. ASSUME NEW x \in values
      PROVE  /\ RowIn(mlx, x[1], x[2], RowOf) = RowIn(jax, x[1], x[2], JaxRowOf)
             /\ RowIn(mlx, x[1], x[2], RowOf)[2] < TableRows(mlx[RowIn(mlx, x[1], x[2], RowOf)[1]])
  <2> DEFINE c == x[1]  v == x[2]
  <2>1. c \in Heard /\ v \in ValuesOf(c)
    BY <1>2
  <2> HIDE DEF c, v
  <2>2. PICK b : KeptIn(c, v, b)
    BY <2>1, KeptIs
  <2>3. RowIn(mlx, c, v, RowOf) = RowIn(mlx, c, v, JaxRowOf)
    BY <2>2 DEF KeptIn, mlx
  <2>4. RowIn(mlx, c, v, RowOf)[2] < TableRows(mlx[RowIn(mlx, c, v, RowOf)[1]])
    BY <2>1, <2>2, KeptInTable DEF mlx
  <2> QED BY <1>1, <2>3, <2>4 DEF c, v
<1>5. \A b \in DOMAIN mlx : TableRows(mlx[b]) = JaxTableRows(jax[b])
  BY <1>1 DEF TableRows, JaxTableRows
<1> QED BY <1>3, <1>4, <1>5 DEF RowsHold, values, own, mlx, jax, Heard

LEMMA RowsHeld == RowsAreOwn
BY RowsAre DEF RowsHold, RowsAreOwn

--------------------------------------------------------------------------------
(* The tokens of a frame are of their levels.                              *)

SizedAs(d) == d.reserved = 6 /\ d.size \in Nat /\ d.size >= 6 /\ d.levels \in Nat \ {0}
Own(d, q) == ValidFrom(d, q) .. ValidFrom(d, q) + d.size - 1
IntFrame(d, g) == g = [q \in 1 .. d.levels |-> g[q]] /\ \A q \in 1 .. d.levels : g[q] \in Int

LEMMA DepthformerSized ==
  ASSUME NEW b \in Backends
  PROVE  SizedAs(DepthformerOf(b))
<1> DEFINE t == TargetTokens(Model)  u == JaxTargetTokens(Model)
<1>1. TargetOf(t) /\ TargetOf(u)
  BY TargetsAre
<1> HIDE DEF t, u
<1>2. \A a : SizedAs(DepthformerConfig(Model, a, Unset))
  BY <1>1 DEF DepthformerConfig, SizedAs, TargetOf, t
<1>3. SizedAs(JaxDepthformerConfig(Model))
  BY <1>1 DEF JaxDepthformerConfig, SizedAs, TargetOf, u
<1> QED BY <1>2, <1>3 DEF DepthformerOf, MlxDepth, JaxDepth, MlxfnDepth

LEMMA LevelBounds ==
  ASSUME NEW d, SizedAs(d), NEW q \in 1 .. d.levels
  PROVE  /\ VocabSize(d) \in Nat \ {0}
         /\ Between(ValidFrom(d, q), ValidFrom(d, q) + d.size, VocabSize(d))
         /\ Own(d, q) \subseteq Int /\ ValidFrom(d, q) \in Own(d, q)
<1> DEFINE n == d.levels  s == d.size  x == (q - 1) * s  y == n * s  z == (n - q) * s
<1>1. n \in Nat \ {0} /\ s \in Nat /\ s >= 6 /\ d.reserved = 6 /\ q \in 1 .. n
  BY DEF SizedAs
<1>2. ValidFrom(d, q) = 6 + x /\ VocabSize(d) = 6 + y
  BY <1>1 DEF ValidFrom, VocabSize
<1> HIDE DEF n, s
<1>3. x \in Nat /\ y \in Nat /\ z \in Nat /\ y = x + s + z
  BY <1>1
<1> HIDE DEF x, y, z
<1>4. s = d.size
  BY DEF s
<1> DEFINE v == ValidFrom(d, q)  w == VocabSize(d)
<1>5. v = 6 + x /\ w = 6 + y
  BY <1>2
<1> HIDE DEF v, w
<1>6. w \in Nat \ {0} /\ v \in Nat /\ v + s \in Nat /\ v < v + s /\ v + s <= w
  BY <1>1, <1>3, <1>5
<1>7. v .. v + s - 1 \subseteq Int /\ v \in v .. v + s - 1
  BY <1>1, <1>6
<1> QED BY <1>4, <1>6, <1>7 DEF Between, Own, v, w

LEMMA FrameEmbeddingTyped ==
  ASSUME NEW d, d.levels \in Nat, NEW g, IntFrame(d, g)
  PROVE  FrameEmbedding(g) \in Int
<1> DEFINE n == d.levels  s == [q \in DOMAIN g |-> Embed(g[q])]
<1>1. DOMAIN g = 1 .. n /\ \A q \in 1 .. n : g[q] \in Int
  BY DEF IntFrame
<1>2. s = [q \in 1 .. n |-> s[q]] /\ \A q \in 1 .. n : s[q] \in Int
  BY <1>1, EmbedTyped
<1> HIDE DEF s
<1>3. SumOf(s) \in Int
  BY <1>2, SumTyped
<1>4. SumOf(s) % Prime \in Int
  BY <1>3 DEF Prime
<1> QED BY <1>4 DEF FrameEmbedding, s

LEMMA DepthTyped ==
  ASSUME NEW d, Fits(d), NEW h \in Int, NEW g, NEW q \in 1 .. d.levels, \A p \in 1 .. q - 1 : g[p] \in Int
  PROVE  DepthOut(d, h, g)[q] \in Int
<1> DEFINE N == d.levels  ys == DepthIn(d, h, g)  S(p) == DepthStateAt(d, h, g, p)
           T == {p \in 0 .. q - 1 : StackTyped(d.depth, S(p))}
<1>1. N \in Nat /\ q \in Nat \ {0} /\ q - 1 \in Nat /\ q <= N /\ Easy(d.depth, FALSE)
  <2>1. N \in Nat /\ Easy(d.depth, FALSE)
    BY DEF Fits
  <2>2. q \in 1 .. N
    OBVIOUS
  <2> HIDE DEF N
  <2>3. q \in Nat \ {0} /\ q - 1 \in Nat /\ q <= N
    BY <2>1, <2>2
  <2> QED BY <2>1, <2>3
<1>2. FreshStack(d.depth) = S(0)
  BY DepthMoves
<1>3. ASSUME NEW p \in 1 .. N
      PROVE  LET r == StepStack(d.depth, S(p - 1), ys[p], Absent)
             IN r.s = S(p) /\ r.out = DepthOut(d, h, g)[p]
  BY DepthMoves
<1>4. ASSUME NEW p \in 1 .. q PROVE ys[p] \in Int
  <2>1. p \in 1 .. N
    BY <1>1
  <2>2. ys[p] = IF p = 1 THEN h ELSE Embed(g[p - 1])
    BY <2>1 DEF DepthIn
  <2>3. p # 1 => p - 1 \in 1 .. q - 1
    BY <1>1
  <2> QED BY <2>2, <2>3, EmbedTyped
<1> HIDE DEF S, ys
<1>5. Absent \in Int
  BY DEF Absent
<1>6. ASSUME NEW p \in 1 .. q, StackTyped(d.depth, S(p - 1))
      PROVE  StackTyped(d.depth, S(p)) /\ DepthOut(d, h, g)[p] \in Int
  <2> DEFINE r == StepStack(d.depth, S(p - 1), ys[p], Absent)
  <2>1. p \in 1 .. N
    BY <1>1
  <2>2. r.out \in Int /\ StackTyped(d.depth, r.s)
    BY <1>1, <1>4, <1>5, <1>6, StackStepTyped
  <2>3. r.s = S(p) /\ r.out = DepthOut(d, h, g)[p]
    BY <1>3, <2>1
  <2> HIDE DEF r
  <2> QED BY <2>2, <2>3
<1>7. 0 \in T
  <2>1. StackTyped(d.depth, FreshStack(d.depth))
    BY <1>1, FreshTyped
  <2>2. 0 \in 0 .. q - 1
    BY <1>1
  <2> QED BY <1>2, <2>1, <2>2
<1>8. ASSUME NEW p \in 0 .. (q - 1) - 1, p \in T PROVE p + 1 \in T
  <2>1. p + 1 \in 1 .. q /\ p + 1 - 1 = p /\ p + 1 \in 0 .. q - 1
    BY <1>1
  <2>2. StackTyped(d.depth, S(p + 1))
    BY <1>6, <1>8, <2>1
  <2> QED BY <2>1, <2>2
<1> HIDE DEF T
<1> DEFINE m == q - 1
<1>9. \A p \in 0 .. m : p \in T
  <2>1. m \in Nat /\ \A p \in 0 .. m - 1 : p \in T => p + 1 \in T
    BY <1>1, <1>8
  <2> HIDE DEF m
  <2> QED BY <1>7, <2>1, SetInduction
<1>10. q - 1 \in T /\ q \in 1 .. q
  <2>1. m \in 0 .. m
    BY <1>1
  <2> QED BY <1>1, <1>9, <2>1
<1>11. StackTyped(d.depth, S(q - 1))
  BY <1>10 DEF T
<1> QED BY <1>6, <1>10, <1>11

\* What a level is sampled from, if the frame is of numbers before it.
LevelReady(b, d, k, st, temporal, g, q, m) ==
  /\ \A i \in 1 .. Arity(b) : temporal[i].out \in Int
  /\ \A p \in 1 .. q - 1 : g[p] \in Int
  /\ KeyTyped(KeysAfter(b, st, q - 1)[1], m)
TypedConstants(b, k) ==
  /\ Sampling(b, k) /\ Constants(k)
  /\ Arity(b) = 3 => Scaled(LaneScales(k.scales, 3)[2]) /\ Scaled(LaneScales(k.scales, 3)[3])

LEMMA RowOfLogits ==
  ASSUME NEW b \in Backends, NEW d, NEW k, TypedConstants(b, k), NEW N \in Nat \ {0}, VocabSize(d) = N,
         NEW rows, NEW hs, rows = [i \in 1 .. Arity(b) |-> Logits(d, hs[i])], \A i \in 1 .. Arity(b) : hs[i] \in Int
  PROVE  /\ Numbers(LogitRow(b, d, k, rows), N)
         /\ \A n \in 1 .. N : LogitRow(b, d, k, rows)[n] > Floor
<1>1. ASSUME NEW i \in 1 .. Arity(b)
      PROVE  /\ rows[i] = [n \in 1 .. N |-> rows[i][n]]
             /\ \A n \in 1 .. N : rows[i][n] \in 0 .. 100
  <2> DEFINE h == hs[i]
  <2>1. h \in Int /\ rows[i] = Logits(d, h)
    OBVIOUS
  <2> HIDE DEF h
  <2>2. Hundreds(Logits(d, h), N)
    BY <2>1, LogitsTyped
  <2> QED BY <2>1, <2>2 DEF Hundreds
<1>2. CASE Arity(b) = 1
  <2>1. LogitRow(b, d, k, rows) = rows[1] /\ 1 \in 1 .. Arity(b)
    BY <1>2 DEF LogitRow
  <2> DEFINE l == rows[1]
  <2>2. l = [n \in 1 .. N |-> l[n]] /\ \A n \in 1 .. N : l[n] \in 0 .. 100
    BY <1>1, <2>1
  <2>3. \A x \in 0 .. 100 : x \in Int /\ x > Floor
    <3> SUFFICES ASSUME NEW x \in 0 .. 100 PROVE x \in Int /\ x > Floor
      OBVIOUS
    <3> QED BY MaskIsLow, SMT
  <2> HIDE DEF l
  <2>4. Numbers(l, N) /\ \A n \in 1 .. N : l[n] > Floor
    BY <2>2, <2>3 DEF Numbers
  <2> QED BY <2>1, <2>4 DEF l
<1>3. CASE Arity(b) = 3
  <2> DEFINE scales == LaneScales(k.scales, 3)
  <2>1. Scaled(scales[2]) /\ Scaled(scales[3])
    BY <1>3 DEF TypedConstants
  <2>2. LogitRow(b, d, k, rows) = Guided(rows, scales, 3, 1)
    BY <1>3 DEF LogitRow
  <2>3. LogitRows(rows, N)
    <3>1. 1 \in 1 .. Arity(b) /\ 1 .. 3 = 1 .. Arity(b)
      BY <1>3
    <3> QED BY <1>1, <3>1 DEF LogitRows
  <2> HIDE DEF scales
  <2> QED BY <2>1, <2>2, <2>3, GuidedIs
<1> QED BY <1>2, <1>3, ArityIs

LEMMA LevelOwn ==
  ASSUME NEW b \in Backends, NEW d, Fits(d), SizedAs(d), NEW k, TypedConstants(b, k), NEW st, NEW temporal, NEW g,
         NEW q \in 1 .. d.levels, NEW m \in Nat, LevelReady(b, d, k, st, temporal, g, q, m),
         LevelTrained(b, d, k, st, temporal, g, q)
  PROVE  g[q] \in Own(d, q)
<1> DEFINE a == Arity(b)  hs == [i \in 1 .. a |-> DepthOut(d, temporal[i].out, g)[q]]
           rows == [i \in 1 .. a |-> Logits(d, DepthOut(d, temporal[i].out, g)[q])]
           keys == KeysAfter(b, st, q - 1)  N == VocabSize(d)  low == ValidFrom(d, q)  high == low + d.size
           l == LogitRow(b, d, k, rows)  scales == LaneScales(k.scales, a)
<1>1. N \in Nat \ {0} /\ Between(low, high, N) /\ low \in Int /\ high \in Int
  <2>1. N \in Nat \ {0} /\ Between(low, high, N)
    BY LevelBounds
  <2> QED BY <2>1 DEF Between
<1>2. \A i \in 1 .. a : hs[i] \in Int
  <2> TAKE i \in 1 .. a
  <2> DEFINE h == temporal[i].out
  <2>1. h \in Int /\ \A p \in 1 .. q - 1 : g[p] \in Int
    BY DEF LevelReady
  <2> HIDE DEF h
  <2>2. DepthOut(d, h, g)[q] \in Int
    BY <2>1, DepthTyped
  <2> QED BY <2>2 DEF h
<1>3. rows = [i \in 1 .. a |-> Logits(d, hs[i])]
  OBVIOUS
<1>4. rows = [i \in 1 .. a |-> rows[i]] /\ keys = [i \in 1 .. a |-> keys[i]]
  BY DEF KeysAfter
<1>5. OnEveryLane(b, g[q]) = LevelSample(b, d, k, scales, rows, keys, q)
  BY DEF LevelTrained
<1>6. KeyTyped(keys[1], m)
  BY DEF LevelReady
<1>7. Sampling(b, k) /\ Constants(k)
  BY DEF TypedConstants
<1> HIDE DEF hs, rows, keys, l
<1>8. LevelSample(b, d, k, scales, rows, keys, q) = OnEveryLane(b, FirstDrawn(b, d, k, rows, keys, q))
  BY <1>4, <1>7, SampleIs
<1>9. FirstDrawn(b, d, k, rows, keys, q) = Drawn(TopK(InRange(l, low, high), 3), 2, keys[1], 1)
  BY <1>7, FirstIs DEF l
<1>10. Numbers(l, N) /\ \A n \in 1 .. N : l[n] > Floor
  <2> HIDE DEF N
  <2> QED BY <1>1, <1>2, <1>3, RowOfLogits DEF l, N
<1> DEFINE x == FirstDrawn(b, d, k, rows, keys, q)
<1>11. g[q] = x
  <2>1. 1 \in 1 .. Arity(b)
    BY ArityIs
  <2> HIDE DEF x
  <2>2. OnEveryLane(b, g[q]) = OnEveryLane(b, x)
    BY <1>5, <1>8 DEF x
  <2> QED BY <2>1, <2>2 DEF OnEveryLane
<1> HIDE DEF x, N, low, high
<1>12. x \in low .. high - 1
  <2> DEFINE key == keys[1]
  <2>1. KeyTyped(key, m) /\ x = Drawn(TopK(InRange(l, low, high), 3), 2, key, 1)
    BY <1>6, <1>9 DEF x, low, high
  <2>2. l = [n \in 1 .. N |-> l[n]] /\ \A n \in 1 .. N : l[n] \in Int /\ l[n] > Floor
    BY <1>10 DEF Numbers
  <2> HIDE DEF key
  <2>3. Drawn(TopK(InRange(l, low, high), 3), 2, key, 1) \in low .. high - 1
    BY <1>1, <2>1, <2>2, DrawnIsOwn
  <2> QED BY <2>1, <2>3
<1>13. Own(d, q) = low .. high - 1
  <2> DEFINE v == ValidFrom(d, q)  s == d.size
  <2>1. v \in Int /\ s \in Int /\ low = v /\ high = v + s
    BY <1>1 DEF SizedAs, low, high
  <2>2. Own(d, q) = v .. v + s - 1
    BY DEF Own
  <2> HIDE DEF v, s
  <2>3. high - 1 = v + s - 1
    BY <2>1
  <2> QED BY <2>1, <2>2, <2>3
<1> QED BY <1>11, <1>12, <1>13

\* A frame of a step, level by level.
OwnFrame(d, g) == g = [q \in 1 .. d.levels |-> g[q]] /\ \A q \in 1 .. d.levels : g[q] \in Own(d, q)
KeysTyped(b, st, m, n) == \A q \in 0 .. n : KeyTyped(KeysAfter(b, st, q)[1], m + q)
FrameSteps(b, d, k, st, temporal, g) ==
  /\ \A i \in 1 .. Arity(b) : temporal[i].out \in Int
  /\ g = [q \in 1 .. d.levels |-> g[q]]
  /\ \A q \in 1 .. ActiveLevelsOf(d) : LevelTrained(b, d, k, st, temporal, g, q)
  /\ \A q \in ActiveLevelsOf(d) + 1 .. d.levels : g[q] = ValidFrom(d, q)
LEMMA FrameOwn ==
  ASSUME NEW b \in Backends, NEW d, Fits(d), SizedAs(d), NEW k, TypedConstants(b, k), NEW st, NEW temporal, NEW g,
         NEW m \in Nat, KeysTyped(b, st, m, ActiveLevelsOf(d)), FrameSteps(b, d, k, st, temporal, g)
  PROVE  OwnFrame(d, g)
<1> DEFINE N == d.levels  L == ActiveLevelsOf(d)
           T == {n \in 0 .. N : \A q \in 1 .. n : g[q] \in Own(d, q)}
<1>1. N \in Nat /\ L \in 1 .. N
  BY LevelsAre DEF SizedAs
<1>2. 0 \in T
  BY <1>1
<1>3. ASSUME NEW n \in 0 .. N - 1, n \in T PROVE n + 1 \in T
  <2> DEFINE q == n + 1
  <2>1. q \in 1 .. N /\ q \in 0 .. N /\ q - 1 = n /\ q - 1 \in Nat
    BY <1>1
  <2>2. \A p \in 1 .. n : g[p] \in Own(d, p)
    BY <1>3
  <2> HIDE DEF q
  <2>3. g[q] \in Own(d, q)
    <3>1. CASE q <= L
      <4>1. q \in 1 .. L /\ q - 1 \in 0 .. L
        BY <1>1, <2>1, <3>1
      <4>2. \A p \in 1 .. q - 1 : g[p] \in Int
        <5>1. \A p \in 1 .. q - 1 : p \in 1 .. N /\ p \in 1 .. n
          BY <1>1, <2>1
        <5>2. \A p \in 1 .. N : Own(d, p) \subseteq Int
          BY LevelBounds
        <5> QED BY <2>2, <5>1, <5>2
      <4>3. KeyTyped(KeysAfter(b, st, q - 1)[1], m + (q - 1)) /\ m + (q - 1) \in Nat
        BY <2>1, <4>1 DEF KeysTyped
      <4> DEFINE w == m + (q - 1)
      <4>4. LevelReady(b, d, k, st, temporal, g, q, w) /\ w \in Nat
        BY <4>2, <4>3 DEF LevelReady, FrameSteps
      <4>5. LevelTrained(b, d, k, st, temporal, g, q)
        BY <4>1 DEF FrameSteps
      <4> HIDE DEF w
      <4> QED BY <2>1, <4>4, <4>5, LevelOwn
    <3>2. CASE ~(q <= L)
      <4>1. q \in L + 1 .. N
        BY <1>1, <2>1, <3>2
      <4>2. g[q] = ValidFrom(d, q)
        BY <4>1 DEF FrameSteps
      <4> QED BY <2>1, <4>2, LevelBounds
    <3> QED BY <3>1, <3>2
  <2>4. \A p \in 1 .. q : p \in 1 .. n \/ p = q
    BY <2>1
  <2>5. q \in T
    BY <2>1, <2>2, <2>3, <2>4
  <2> QED BY <2>5 DEF q
<1> HIDE DEF T
<1>4. \A n \in 0 .. N : n \in T
  <2> HIDE DEF N
  <2> QED BY <1>1, <1>2, <1>3, SetInduction
<1>5. N \in T
  <2>1. N \in 0 .. N
    BY <1>1
  <2> QED BY <1>4, <2>1
<1> QED BY <1>5 DEF T, OwnFrame, FrameSteps

\* The rows of a state are numbers, and so are those a step makes of them.
RowsTyped(b, d, st, m) ==
  \A i \in 1 .. Arity(b) :
    /\ StackTyped(d.temporal, st.temporal[i]) /\ IntFrame(d, st.frame[i])
    /\ KeyTyped(st.rng[i], m) /\ st.step[i] \in Int

LEMMA KeyAfterTyped ==
  ASSUME NEW m \in Nat, NEW q \in Nat, NEW key, KeyIs(key, m), KeyTyped(key, m), NEW x \in Int
  PROVE  KeyTyped(KeyAfter(key, q, x), m + q)
<1> DEFINE after == KeyAfter(key, q, x)  p == key.path  r == p \o Repeated(q, x)
<1>1. GoesDown(key, m, q, x)
  BY KeyGrows, Zenon
<1>2. after.seed = key.seed /\ after.path = r
  BY <1>1 DEF GoesDown
<1>3. Row(p, m) /\ key.seed \in Int /\ \A j \in 1 .. m : p[j] \in Int
  BY DEF KeyTyped
<1> HIDE DEF after, p
<1>4. r = [j \in 1 .. m + q |-> IF j <= m THEN p[j] ELSE x]
  BY <1>3, PathIs
<1>5. \A j \in 1 .. m + q : j <= m => j \in 1 .. m
  OBVIOUS
<1> HIDE DEF r
<1>6. r = [j \in 1 .. m + q |-> r[j]]
  BY <1>4
<1>7. \A j \in 1 .. m + q : r[j] \in Int
  BY <1>3, <1>4, <1>5
<1> QED BY <1>2, <1>3, <1>6, <1>7 DEF KeyTyped, Row, after

LEMMA KeysAfterTyped ==
  ASSUME NEW b \in Backends, NEW d, NEW m \in Nat, NEW st, KeysAre(b, st, m), RowsTyped(b, d, st, m), NEW q \in Nat
  PROVE  \A i \in 1 .. Arity(b) : KeyTyped(KeysAfter(b, st, q)[i], m + q)
<1> TAKE i \in 1 .. Arity(b)
<1> DEFINE key == st.rng[i]  x == Fold(b, st, i)
<1>1. KeyIs(key, m) /\ KeyTyped(key, m) /\ x \in Int
  BY DEF KeysAre, RowsTyped, Fold
<1>2. KeysAfter(b, st, q)[i] = KeyAfter(key, q, x)
  BY DEF KeysAfter
<1> HIDE DEF key, x
<1> QED BY <1>1, <1>2, KeyAfterTyped

LEMMA TemporalTyped ==
  ASSUME NEW b \in Backends, NEW d, d = DepthformerOf(b), NEW r, WellAsked(r), NEW st, NEW m, RowsTyped(b, d, st, m),
         NEW i \in 1 .. Arity(b)
  PROVE  TemporalFor(b, d, st, r)[i].out \in Int /\ StackTyped(d.temporal, TemporalFor(b, d, st, r)[i].s)
<1> DEFINE row == RowsFor(b, Conditioned(b, r))[i]  src == SourceFor(b, d, r)[i]
           x == FrameEmbedding(st.frame[i])  states == st.temporal[i]  t == TemporalFor(b, d, st, r)[i]
<1>1. src = EncodedBy(b, d, row)
  BY DEF SourceFor
<1>2. ChannelRow(row)
  BY ConditioningTyped DEF TypedConditioning
<1>3. src \in Int
  <2> HIDE DEF row, src
  <2> QED BY <1>1, <1>2, EncodedTyped
<1>4. Easy(d.temporal, TRUE) /\ d.levels \in Nat
  BY DepthformerFits DEF Fits
<1>5. x \in Int
  <2> DEFINE g == st.frame[i]
  <2>1. IntFrame(d, g)
    BY DEF RowsTyped
  <2> HIDE DEF g
  <2> QED BY <1>4, <2>1, FrameEmbeddingTyped DEF g
<1>6. StackTyped(d.temporal, states)
  BY DEF RowsTyped
<1>7. t = StepStack(d.temporal, states, x, src)
  BY DEF TemporalFor
<1> HIDE DEF t, states, x, src
<1>8. t.out \in Int /\ StackTyped(d.temporal, t.s)
  BY <1>3, <1>4, <1>5, <1>6, <1>7, StackStepTyped
<1> QED BY <1>8 DEF t

LEMMA OwnIsTyped ==
  ASSUME NEW d, SizedAs(d), NEW g, OwnFrame(d, g)
  PROVE  IntFrame(d, g)
<1>1. \A q \in 1 .. d.levels : Own(d, q) \subseteq Int
  BY LevelBounds
<1> QED BY <1>1 DEF OwnFrame, IntFrame

LEMMA NextTyped ==
  ASSUME NEW b \in Backends, NEW d, d = DepthformerOf(b), NEW r, WellAsked(r), NEW m \in Nat, NEW st, KeysAre(b, st, m),
         RowsTyped(b, d, st, m), NEW n, NEW g, NextGiven(b, d, st, n, r, g)
  PROVE  OwnFrame(d, g) /\ RowsTyped(b, d, n, m + ActiveLevelsOf(d))
<1> DEFINE L == ActiveLevelsOf(d)  a == Arity(b)  k == ConstantsOf(b, r)  temporal == TemporalFor(b, d, st, r)
<1>1. Fits(d) /\ SizedAs(d)
  BY DepthformerFits, DepthformerSized
<1>2. L \in Nat /\ 1 \in 1 .. a
  <2>1. L \in 1 .. d.levels /\ d.levels \in Nat
    BY <1>1, LevelsAre DEF Fits
  <2>2. a \in {1, 3}
    BY ArityIs
  <2> HIDE DEF L, a
  <2>3. L \in Nat
    BY <2>1
  <2> QED BY <2>2, <2>3
<1>3. TypedConstants(b, k)
  <2>1. Sampling(b, k)
    BY ConditioningIs DEF Given, ConstantsOf, Sampling
  <2>2. Constants(k) /\ (Arity(b) = 3 => /\ Scaled(LaneScales(k.scales, 3)[2])
                                         /\ Scaled(LaneScales(k.scales, 3)[3]))
    BY ConditioningTyped DEF TypedConditioning
  <2> HIDE DEF k
  <2> QED BY <2>1, <2>2 DEF TypedConstants
<1>4. \A i \in 1 .. a : temporal[i].out \in Int /\ StackTyped(d.temporal, temporal[i].s)
  <2> TAKE i \in 1 .. a
  <2> QED BY TemporalTyped
<1>5. KeysTyped(b, st, m, L)
  <2> HIDE DEF L, a
  <2>1. ASSUME NEW q \in 0 .. L PROVE KeyTyped(KeysAfter(b, st, q)[1], m + q)
    <3>1. q \in Nat
      BY <1>2
    <3>2. \A i \in 1 .. Arity(b) : KeyTyped(KeysAfter(b, st, q)[i], m + q)
      BY <3>1, KeysAfterTyped
    <3> QED BY <1>2, <3>2 DEF a
  <2> QED BY <2>1 DEF KeysTyped
<1>6. FrameSteps(b, d, k, st, temporal, g)
  <2>1. /\ g = [q \in 1 .. d.levels |-> g[q]]
        /\ \A q \in 1 .. ActiveLevelsOf(d) : LevelTrained(b, d, k, st, temporal, g, q)
        /\ \A q \in ActiveLevelsOf(d) + 1 .. d.levels : g[q] = ValidFrom(d, q)
    BY DEF NextGiven
  <2> HIDE DEF temporal, k
  <2> QED BY <1>4, <2>1 DEF FrameSteps, a
<1>7. OwnFrame(d, g)
  <2> HIDE DEF temporal, k
  <2> QED BY <1>1, <1>3, <1>5, <1>6, FrameOwn DEF L
<1>8. IntFrame(d, g)
  BY <1>1, <1>7, OwnIsTyped
<1>9. /\ n.rng = KeysAfter(b, st, L) /\ n.frame = OnEveryLane(b, g)
      /\ n.temporal = [i \in 1 .. a |-> temporal[i].s] /\ n.step = [i \in 1 .. a |-> st.step[i] + 1]
  BY DEF NextGiven
<1> HIDE DEF temporal, L
<1>10. \A i \in 1 .. a : KeyTyped(n.rng[i], m + L)
  <2>1. \A i \in 1 .. Arity(b) : KeyTyped(KeysAfter(b, st, L)[i], m + L)
    BY <1>2, KeysAfterTyped
  <2> QED BY <1>9, <2>1 DEF a
<1>11. \A i \in 1 .. a : n.frame[i] = g /\ n.temporal[i] = temporal[i].s /\ n.step[i] = st.step[i] + 1
  BY <1>9 DEF OnEveryLane
<1>12. \A i \in 1 .. a : st.step[i] \in Int
  BY DEF RowsTyped
<1>13. \A i \in 1 .. a : n.step[i] \in Int
  BY <1>11, <1>12
<1>14. RowsTyped(b, d, n, m + L)
  BY <1>4, <1>8, <1>10, <1>11, <1>13 DEF RowsTyped, a
<1> QED BY <1>7, <1>14 DEF L

LEMMA BeginningTyped ==
  ASSUME NEW b \in Backends, NEW d, d = DepthformerOf(b)
  PROVE  RowsTyped(b, d, Beginning(b, d), 0)
<1> DEFINE a == Arity(b)  st == Beginning(b, d)
<1>1. BeginsAs(b, d, st, a)
  BY BeginningIs
<1>2. Easy(d.temporal, TRUE)
  BY DepthformerFits DEF Fits
<1>3. StackTyped(d.temporal, FreshStack(d.temporal))
  BY <1>2, FreshTyped
<1>4. IntFrame(d, Sos(d))
  <2>1. d.sos = 0
    <3>1. \A x : DepthformerConfig(Model, x, Unset).sos = 0
      BY DEF DepthformerConfig
    <3>2. JaxDepthformerConfig(Model).sos = 0
      BY DEF JaxDepthformerConfig
    <3> QED BY <3>1, <3>2 DEF DepthformerOf, MlxDepth, JaxDepth, MlxfnDepth
  <2> QED BY <2>1 DEF IntFrame, Sos
<1>5. Row(<<>>, 0) /\ \A j \in 1 .. 0 : <<>>[j] \in Int
  <2>1. \A j \in 1 .. 0 : FALSE
    OBVIOUS
  <2>2. <<>> = [j \in 1 .. 0 |-> <<>>[j]]
    BY <2>1
  <2> QED BY <2>1, <2>2 DEF Row
<1> HIDE DEF st
<1>6. ASSUME NEW i \in 1 .. a PROVE KeyTyped(st.rng[i], 0)
  <2>1. a \in Nat /\ i \in Int
    BY ArityIs
  <2>2. st.rng[i] = [seed |-> IF b = "jax" THEN i ELSE 41 + i, path |-> <<>>]
    BY <1>1 DEF BeginsAs
  <2> DEFINE x == IF b = "jax" THEN i ELSE 41 + i
  <2>3. x \in Int
    BY <2>1
  <2> HIDE DEF x, a
  <2>4. st.rng[i].seed = x /\ st.rng[i].path = <<>>
    BY <2>2 DEF x
  <2> QED BY <1>5, <2>3, <2>4 DEF KeyTyped
<1>7. \A i \in 1 .. a : st.temporal[i] = FreshStack(d.temporal) /\ st.frame[i] = Sos(d) /\ st.step[i] = 0
  BY <1>1 DEF BeginsAs
<1> QED BY <1>3, <1>4, <1>6, <1>7 DEF RowsTyped, st

\* So it is along a stream, whatever was asked of each frame.
AskedWell(log, n) == \A t \in 1 .. n : WellAsked(log[t].request)
LEMMA StreamOwn ==
  ASSUME NEW b \in Backends, NEW d, d = DepthformerOf(b), NEW n \in Nat, NEW f, NEW log, TraceTo(b, d, f, log, n),
         AskedWell(log, n)
  PROVE  \A t \in 1 .. n : OwnFrame(d, log[t].tokens)
<1> DEFINE L == ActiveLevelsOf(d)  st(t) == Merged(b, f[t])
           T == {t \in 0 .. n : RowsTyped(b, d, st(t), t * L)}
<1>1. Fits(d) /\ (b = "jax" => ActiveLevelsOf(d) = d.levels)
  BY DepthformerFits
<1>2. L \in Nat
  <2>1. L \in 1 .. d.levels /\ d.levels \in Nat
    BY <1>1, LevelsAre DEF Fits
  <2> HIDE DEF L
  <2> QED BY <2>1
<1>3. /\ st(0) = Beginning(b, d)
      /\ \A t \in 0 .. n : RowsAt(b, d, f[t], t)
      /\ \A t \in 1 .. n : StreamMoves(b, d, f, log, t)
  BY <1>1, TraceMoves
<1>4. \A t \in 0 .. n : KeysAre(b, st(t), t * L)
  BY <1>3 DEF RowsAt
<1>5. \A t \in 1 .. n : NextGiven(b, d, st(t - 1), st(t), log[t].request, log[t].tokens)
  BY <1>3 DEF StreamMoves
<1>a. L = ActiveLevelsOf(d)
  OBVIOUS
<1> HIDE DEF st, L
<1>6. ASSUME NEW t \in 1 .. n, RowsTyped(b, d, st(t - 1), (t - 1) * L)
      PROVE  OwnFrame(d, log[t].tokens) /\ RowsTyped(b, d, st(t), t * L)
  <2> DEFINE m == (t - 1) * L  s == st(t - 1)  r == log[t].request  g == log[t].tokens  x == st(t)
  <2>1. m \in Nat /\ m + L = t * L /\ t - 1 \in 0 .. n
    BY <1>2
  <2>2. KeysAre(b, s, m) /\ RowsTyped(b, d, s, m) /\ NextGiven(b, d, s, x, r, g) /\ WellAsked(r)
    BY <1>4, <1>5, <1>6, <2>1 DEF AskedWell
  <2> HIDE DEF m, s, r, g, x
  <2>3. OwnFrame(d, g) /\ RowsTyped(b, d, x, m + L)
    BY <1>a, <2>1, <2>2, NextTyped
  <2> QED BY <2>1, <2>3 DEF g, x
<1>7. 0 \in T
  <2>1. 0 * L = 0 /\ 0 \in 0 .. n
    BY <1>2
  <2>2. RowsTyped(b, d, st(0), 0)
    BY <1>3, BeginningTyped
  <2> QED BY <2>1, <2>2
<1>8. ASSUME NEW t \in 0 .. n - 1, t \in T PROVE t + 1 \in T
  <2> DEFINE u == t + 1
  <2>1. u \in 1 .. n /\ u \in 0 .. n /\ u - 1 = t
    OBVIOUS
  <2>2. RowsTyped(b, d, st(t), t * L)
    BY <1>8
  <2> HIDE DEF u
  <2>3. RowsTyped(b, d, st(u), u * L)
    BY <1>6, <2>1, <2>2
  <2>4. u \in T
    BY <2>1, <2>3
  <2> QED BY <2>4 DEF u
<1> HIDE DEF T
<1>9. \A t \in 0 .. n : t \in T
  BY <1>7, <1>8, SetInduction
<1>10. \A t \in 1 .. n : t - 1 \in T
  <2>1. \A t \in 1 .. n : t - 1 \in 0 .. n
    OBVIOUS
  <2> QED BY <1>9, <2>1
<1> QED BY <1>6, <1>10 DEF T

--------------------------------------------------------------------------------
(* What is meant by the tokens.                                            *)

LEMMA CodeIs ==
  ASSUME NEW n \in Nat, NEW s \in Nat \ {0}, NEW c \in 0 .. s - 1
  PROVE  (n * s + c) % s = c
<1> DEFINE x == n * s + c  k == x \div s  r == x % s
<1>1. x \in Nat
  <2>1. n * s \in Nat
    OBVIOUS
  <2> QED BY <2>1
<1>2. k \in Int /\ r \in 0 .. s - 1 /\ x = s * k + r
  <2> HIDE DEF x
  <2> QED BY <1>1
<1>3. s * (n - k) = r - c
  BY <1>1, <1>2
<1> DEFINE e == n - k
<1>4. e \in Int /\ r - c < s /\ r - c > -s
  BY <1>2
<1> HIDE DEF x, k, r
<1>5. s * e = r - c /\ e \in Int
  BY <1>3, <1>4
<1> HIDE DEF e
<1>6. r \in Int
  BY <1>2
<1>7. ~(e >= 1)
  <2> SUFFICES ASSUME e >= 1 PROVE FALSE
    OBVIOUS
  <2>1. s * e >= s
    BY <1>5
  <2> QED BY <1>4, <1>5, <1>6, <2>1
<1>8. ~(e <= -1)
  <2> SUFFICES ASSUME e <= -1 PROVE FALSE
    OBVIOUS
  <2>1. s * e <= -s
    BY <1>5
  <2> QED BY <1>4, <1>5, <1>6, <2>1
<1>9. e = 0
  BY <1>5, <1>7, <1>8
<1>10. r = c
  BY <1>5, <1>6, <1>9
<1> QED BY <1>10 DEF r, x

LEMMA OwnCode ==
  ASSUME NEW d, SizedAs(d), NEW q \in 1 .. d.levels, NEW v \in Own(d, q)
  PROVE  /\ (v - NumReservedTokens) % d.size \in 0 .. d.size - 1
         /\ ValidFrom(d, q) + ((v - NumReservedTokens) % d.size) = v
<1> DEFINE s == d.size  n == q - 1  x == n * s  low == ValidFrom(d, q)  c == v - low
<1>1. s \in Nat \ {0} /\ n \in Nat /\ low = 6 + x /\ v \in low .. low + s - 1
  <2>1. s \in Nat \ {0} /\ low = 6 + x /\ d.levels \in Nat \ {0}
    BY DEF SizedAs, ValidFrom
  <2>2. v \in low .. low + s - 1
    BY DEF Own
  <2>3. n \in Nat
    OBVIOUS
  <2> QED BY <2>1, <2>2, <2>3
<1> HIDE DEF s, n
<1>2. x \in Nat
  BY <1>1
<1> HIDE DEF x, low
<1>3. c \in 0 .. s - 1 /\ v - 6 = x + c /\ low + c = v
  BY <1>1, <1>2
<1> HIDE DEF c
<1>4. (x + c) % s = c
  BY <1>1, <1>3, CodeIs DEF x
<1> DEFINE w == v - NumReservedTokens
<1>5. w = x + c
  BY <1>3 DEF NumReservedTokens
<1> HIDE DEF w
<1>6. w % s = c
  BY <1>4, <1>5
<1>7. w % s \in 0 .. s - 1 /\ low + (w % s) = v
  BY <1>3, <1>6
<1> QED BY <1>7 DEF w, s, low

\* The requests behind a state are requests that were taken.
LogAsked(log) == \A t \in DOMAIN log : WellAsked(log[t].request)
AllAsked(s) == \A h \in DOMAIN s : LogAsked(s[h].log)
CallAsked(c) == WellAsked(c.request) /\ LogAsked(c.log)
AskedInv == AllAsked(held) /\ (call # NoCall => CallAsked(call))

LEMMA NothingAsked == LogAsked(<<>>)
<1>1. DOMAIN <<>> = {}
  OBVIOUS
<1> QED BY <1>1 DEF LogAsked

LEMMA DonatedAsked ==
  ASSUME SystemInv, AllAsked(held), NEW h
  PROVE  AllAsked(Donated(h))
<1> DEFINE s == [held EXCEPT ![h].gone = TRUE]
<1>1. \A i \in DOMAIN held : DOMAIN held[i] = {"st", "log", "gone"}
  <2>1. Listing(held) /\ \A i \in 1 .. Len(held) : Held(backend, depthformer, held[i])
    BY DEF SystemInv, AllHeld
  <2>2. DOMAIN held = 1 .. Len(held)
    BY <2>1 DEF Listing
  <2> QED BY <2>1, <2>2 DEF Held
<1>2. DOMAIN s = DOMAIN held /\ \A i \in DOMAIN held : s[i].log = held[i].log
  BY <1>1
<1> HIDE DEF s
<1>3. AllAsked(s)
  BY <1>2 DEF AllAsked
<1> QED BY <1>3 DEF Donated, s

LEMMA AskedBegins == SystemInit => AskedInv
<1> SUFFICES ASSUME SystemInit PROVE AskedInv
  OBVIOUS
<1>1. held = <<>> /\ call = NoCall
  BY DEF SystemInit
<1>2. DOMAIN <<>> = {}
  OBVIOUS
<1> QED BY <1>1, <1>2 DEF AskedInv, AllAsked

LEMMA AppendedAsked ==
  ASSUME NEW log, Listing(log), LogAsked(log), NEW e, WellAsked(e.request)
  PROVE  LogAsked(Append(log, e))
<1> DEFINE n == Len(log)  more == Append(log, e)
<1>1. n \in Nat /\ log = [t \in 1 .. n |-> log[t]]
  BY DEF Listing
<1> HIDE DEF n
<1>2. more = [t \in 1 .. n + 1 |-> IF t <= n THEN log[t] ELSE e]
  BY <1>1, AppendIs
<1>3. DOMAIN log = 1 .. n /\ \A t \in 1 .. n + 1 : t <= n => t \in 1 .. n
  BY <1>1
<1> HIDE DEF more
<1>4. ASSUME NEW t \in DOMAIN more PROVE WellAsked(more[t].request)
  <2>1. more[t] = e \/ (t \in DOMAIN log /\ more[t] = log[t])
    BY <1>2, <1>3
  <2> QED BY <2>1 DEF LogAsked
<1> QED BY <1>4 DEF LogAsked, more

LEMMA HeldAsked ==
  ASSUME Listing(held), AllAsked(held), NEW e, LogAsked(e.log)
  PROVE  AllAsked(Append(held, e))
<1> DEFINE n == Len(held)  more == Append(held, e)
<1>1. n \in Nat /\ held = [t \in 1 .. n |-> held[t]]
  BY DEF Listing
<1> HIDE DEF n
<1>2. more = [t \in 1 .. n + 1 |-> IF t <= n THEN held[t] ELSE e]
  BY <1>1, AppendIs
<1>3. DOMAIN held = 1 .. n /\ \A t \in 1 .. n + 1 : t <= n => t \in 1 .. n
  BY <1>1
<1> HIDE DEF more
<1>4. ASSUME NEW t \in DOMAIN more PROVE LogAsked(more[t].log)
  <2>1. more[t] = e \/ (t \in DOMAIN held /\ more[t] = held[t])
    BY <1>2, <1>3
  <2> QED BY <2>1 DEF AllAsked
<1> QED BY <1>4 DEF AllAsked, more

\* A call keeps its request, and adds it to the log for each frame.
LEMMA AskedContinues == SystemInv /\ AskedInv /\ [SystemNext]_mvars => AskedInv'
<1> SUFFICES ASSUME SystemInv, AskedInv, [SystemNext]_mvars PROVE AskedInv'
  OBVIOUS
<1>1. /\ AllAsked(held) /\ (call # NoCall => CallAsked(call))
      /\ Listing(held) /\ (call # NoCall => Running(backend, depthformer, call))
  BY DEF AskedInv, SystemInv, AllHeld
<1>2. ASSUME AllAsked(held'), call' # NoCall => CallAsked(call') PROVE AskedInv'
  <2>1. NoCall' = NoCall
    BY DEF NoCall
  <2> QED BY <1>2, <2>1 DEF AskedInv, AllAsked, CallAsked, LogAsked, WellAsked, WellFormed
<1>3. CASE Generate
  <2>1. PICK from \in 0 .. Len(held), r \in Requests, n \in FrameCounts :
          /\ WellFormed(r)
          /\ call' = [from |-> from, left |-> n, asked |-> n, request |-> r,
                      st |-> IF from = 0 THEN InitialState ELSE held[from].st,
                      log |-> IF from = 0 THEN <<>> ELSE held[from].log]
    BY <1>3 DEF Generate
  <2>2. held' = held
    BY <1>3 DEF Generate
  <2>3. call'.request = r /\ call'.log = IF from = 0 THEN <<>> ELSE held[from].log
    BY <2>1
  <2>4. LogAsked(IF from = 0 THEN <<>> ELSE held[from].log)
    <3>1. CASE from = 0
      BY <3>1, NothingAsked
    <3>2. CASE from # 0
      <4>1. Len(held) \in Nat /\ DOMAIN held = 1 .. Len(held)
        BY <1>1 DEF Listing
      <4>2. from \in DOMAIN held
        BY <3>2, <4>1
      <4> QED BY <1>1, <3>2, <4>2 DEF AllAsked
    <3> QED BY <3>1, <3>2
  <2>5. CallAsked(call')
    <3> DEFINE log == IF from = 0 THEN <<>> ELSE held[from].log
    <3>1. LogAsked(log) /\ call'.log = log
      BY <2>3, <2>4
    <3> HIDE DEF log
    <3> QED BY <2>1, <2>3, <3>1 DEF CallAsked, WellAsked
  <2>6. AllAsked(held')
    BY <1>1, <2>2
  <2> QED BY <1>2, <2>5, <2>6
<1>4. CASE GenerateRefused
  <2>1. held' = held /\ call' = call
    BY <1>4 DEF GenerateRefused
  <2>2. AllAsked(held') /\ (call' # NoCall => CallAsked(call'))
    BY <1>1, <2>1
  <2> QED BY <1>2, <2>2
<1>5. CASE StepFrame
  <2>1. /\ call # NoCall
        /\ \E r \in {StepOf(call.st, call.request)} :
             call' = [call EXCEPT !.left = @ - 1, !.st = r.st,
                                  !.log = Append(@, [request |-> call.request, tokens |-> r.out[1],
                                                     keys |-> LanesOf(call.st).rng,
                                                     lanes |-> LanesOf(r.st).frame])]
        /\ held' = held \/ held' = Donated(call.from)
    BY <1>5 DEF StepFrame, Idle
  <2>2. /\ DOMAIN call = {"from", "left", "asked", "request", "st", "log"} /\ CallAsked(call) /\ Listing(call.log)
    BY <1>1, <2>1 DEF Running, Behind
  <2>3. PICK e : /\ e.request = call.request
                 /\ call'.request = call.request /\ call'.log = Append(call.log, e)
    <3>1. PICK r : call' = [call EXCEPT !.left = @ - 1, !.st = r.st,
                                  !.log = Append(@, [request |-> call.request, tokens |-> r.out[1],
                                                     keys |-> LanesOf(call.st).rng,
                                                     lanes |-> LanesOf(r.st).frame])]
      BY <2>1
    <3> DEFINE e == [request |-> call.request, tokens |-> r.out[1], keys |-> LanesOf(call.st).rng,
                     lanes |-> LanesOf(r.st).frame]
    <3>2. e.request = call.request
      OBVIOUS
    <3> HIDE DEF e
    <3>3. call'.request = call.request /\ call'.log = Append(call.log, e)
      BY <2>2, <3>1 DEF e
    <3> QED BY <3>2, <3>3
  <2>4. LogAsked(call.log) /\ WellAsked(e.request)
    BY <2>2, <2>3 DEF CallAsked
  <2>5. LogAsked(Append(call.log, e))
    BY <2>2, <2>4, AppendedAsked
  <2>6. CallAsked(call')
    BY <2>3, <2>4, <2>5 DEF CallAsked
  <2>7. AllAsked(held')
    BY <1>1, <2>1, DonatedAsked
  <2> QED BY <1>2, <2>6, <2>7
<1>6. CASE StepDeleted
  <2>1. held' = held /\ call' = NoCall
    BY <1>6 DEF StepDeleted
  <2>2. AllAsked(held')
    BY <1>1, <2>1
  <2> QED BY <1>2, <2>1, <2>2
<1>7. CASE StepFails
  <2>1. (held' = held \/ held' = Donated(call.from)) /\ call' = NoCall
    BY <1>7 DEF StepFails
  <2>2. AllAsked(held')
    BY <1>1, <2>1, DonatedAsked
  <2> QED BY <1>2, <2>1, <2>2
<1>8. CASE Return
  <2>1. /\ call # NoCall /\ call' = NoCall
        /\ held' = IF call.asked = 0 THEN held
                   ELSE Append(held, [st |-> call.st, log |-> call.log, gone |-> FALSE])
    BY <1>8 DEF Return, Idle
  <2> DEFINE e == [st |-> call.st, log |-> call.log, gone |-> FALSE]
  <2>2. LogAsked(e.log)
    BY <1>1, <2>1 DEF CallAsked
  <2>3. held' = held \/ held' = Append(held, e)
    BY <2>1
  <2> HIDE DEF e
  <2>4. AllAsked(Append(held, e))
    BY <1>1, <2>2, HeldAsked
  <2>5. AllAsked(held')
    BY <1>1, <2>3, <2>4
  <2> QED BY <1>2, <2>1, <2>5
<1>9. CASE UNCHANGED mvars
  <2>1. held' = held /\ call' = call
    BY <1>9 DEF mvars
  <2>2. AllAsked(held') /\ (call' # NoCall => CallAsked(call'))
    BY <1>1, <2>1
  <2> QED BY <1>2, <2>2
<1> QED BY <1>3, <1>4, <1>5, <1>6, <1>7, <1>8, <1>9 DEF SystemNext

LEMMA LevelsHold == SystemInv /\ AskedInv => TokensOfTheirLevel
<1> SUFFICES ASSUME SystemInv, AskedInv, NEW h \in DOMAIN held, NEW t \in DOMAIN held[h].log,
                    NEW q \in DOMAIN held[h].log[t].tokens
             PROVE  LET tokens == held[h].log[t].tokens
                        codes == IF backend = "jax" THEN JaxConvertFromUniqueCodes(tokens, depthformer.size)
                                 ELSE ConvertFromUniqueCodes(tokens, depthformer.size)
                    IN /\ codes[q] \in 0 .. depthformer.size - 1
                       /\ ValidFrom(depthformer, q) + codes[q] = tokens[q]
  BY DEF TokensOfTheirLevel
<1> DEFINE log == held[h].log  tokens == log[t].tokens  n == Len(log)  d == depthformer  size == d.size
           codes == IF backend = "jax" THEN JaxConvertFromUniqueCodes(tokens, size)
                    ELSE ConvertFromUniqueCodes(tokens, size)
<1>1. Pinned /\ Listing(log) /\ DOMAIN log = 1 .. n /\ n \in Nat /\ \E f : Trace(f, log)
  BY HeldTrace
<1>2. backend \in Backends /\ d = DepthformerOf(backend)
  BY <1>1 DEF Pinned
<1>3. SizedAs(d)
  BY <1>2, DepthformerSized
<1>4. AskedWell(log, n)
  <2>1. LogAsked(log)
    BY DEF AskedInv, AllAsked
  <2> HIDE DEF log, n
  <2> QED BY <1>1, <2>1 DEF LogAsked, AskedWell
<1>5. PICK f : TraceTo(backend, d, f, log, n)
  BY <1>1 DEF Trace
<1>6. \A u \in 1 .. n : OwnFrame(d, log[u].tokens)
  <2> HIDE DEF log, n, d
  <2> QED BY <1>1, <1>2, <1>4, <1>5, StreamOwn
<1>7. OwnFrame(d, tokens)
  BY <1>1, <1>6
<1>8. q \in DOMAIN tokens
  OBVIOUS
<1> HIDE DEF log, tokens, n, d
<1>9. DOMAIN tokens = 1 .. d.levels /\ q \in 1 .. d.levels /\ tokens[q] \in Own(d, q)
  BY <1>7, <1>8 DEF OwnFrame
<1> DEFINE v == tokens[q]
<1>10. (v - NumReservedTokens) % size \in 0 .. size - 1 /\ ValidFrom(d, q) + ((v - NumReservedTokens) % size) = v
  <2> HIDE DEF v
  <2>1. v \in Own(d, q) /\ q \in 1 .. d.levels
    BY <1>9 DEF v
  <2> QED BY <1>3, <2>1, OwnCode
<1>11. ~(size < NumReservedTokens)
  BY <1>3 DEF SizedAs, NumReservedTokens
<1>12. codes[q] = (v - NumReservedTokens) % size
  <2>1. codes = [p \in DOMAIN tokens |-> (tokens[p] - NumReservedTokens) % size]
    <3> HIDE DEF size
    <3> QED BY <1>11 DEF JaxConvertFromUniqueCodes, ConvertFromUniqueCodes
  <2> HIDE DEF codes, size
  <2> QED BY <1>8, <2>1
<1> HIDE DEF codes, v
<1>13. codes[q] \in 0 .. size - 1 /\ ValidFrom(d, q) + codes[q] = v
  BY <1>10, <1>12
<1> QED BY <1>13 DEF codes, v, tokens, log, d

LEMMA AskedHeld == SystemSpec => []AskedInv
<1> QED BY AskedBegins, AskedContinues, StreamHeld, PTL DEF SystemSpec

\* What goes into a step and what comes out is read as it was meant: no two
\* tokens are drawn with the noise of one key, every lane hears the tokens that
\* were heard, a token is one of its own level, whatever was asked, and the
\* codec is given the code it stands for, and each value of the conditioning
\* has a row of its own in the tables of both backends.
THEOREM TokensAreMeant == SystemSpec => []TokensMeant
<1>1. SystemInv /\ AskedInv => TokensMeant
  BY FreshHolds, LanesHold, LevelsHold, RowsHeld DEF TokensMeant
<1> QED BY <1>1, StreamHeld, AskedHeld, PTL
================================================================================
