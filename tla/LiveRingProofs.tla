---------------------------- MODULE LiveRingProofs ----------------------------
(***************************************************************************)
(* LiveRing for every capacity, period, threshold, chunk size and mode:    *)
(* the header stays sound whatever headers are lost, and a paced producer  *)
(* leaves the queue and the rows under the host's copy alone; and until a  *)
(* header is lost or a row is overwritten under the host, the host plays   *)
(* the producer's stream in its order and no frame is unaccounted for.     *)
(***************************************************************************)
EXTENDS LiveRing, SequenceTheorems, TLAPS

-----------------------------------------------------------------------------
(* Rows: positions less than one turn of the ring apart differ.            *)

LEMMA SlotType ==
  ASSUME NEW c \in Nat
  PROVE  Slot(c) \in Rows
BY LiveRingAssumption DEF Slot, Rows

LEMMA TurnAtLeast ==
  ASSUME NEW K \in Nat \ {0}, NEW d \in Int, d >= 1
  PROVE  K * d >= K
<1>1. K * d = K * (d - 1) + K
  OBVIOUS
<1>2. K * (d - 1) >= 0
  OBVIOUS
<1> QED BY <1>1, <1>2

LEMMA SlotDistinct ==
  ASSUME NEW a \in Nat, NEW b \in Nat, a < b, b < a + Capacity
  PROVE  Slot(a) # Slot(b)
<1> DEFINE K == Capacity
           p == a \div K
           q == b \div K
<1>0. K \in Nat \ {0}
  BY LiveRingAssumption
<1>1. a % K \in 0 .. K - 1 /\ a = K * p + (a % K) /\ p \in Int
  BY <1>0
<1>2. b % K \in 0 .. K - 1 /\ b = K * q + (b % K) /\ q \in Int
  BY <1>0
<1>3. SUFFICES ASSUME a % K = b % K PROVE FALSE
  BY DEF Slot
<1> HIDE DEF p, q
<1>4. b - a = K * (q - p)
  BY <1>0, <1>1, <1>2, <1>3
<1> HIDE DEF K
<1>5. CASE q - p >= 1
  BY <1>0, <1>1, <1>2, <1>4, <1>5, TurnAtLeast DEF K
<1>6. CASE q - p <= 0
  <2>1. K * (q - p) <= 0
    BY <1>0, <1>1, <1>2, <1>6
  <2> QED BY <1>4, <2>1
<1> QED BY <1>1, <1>2, <1>5, <1>6

-----------------------------------------------------------------------------
(* Headers. *)

LEMMA KeptType ==
  ASSUME NEW n \in Nat
  PROVE  Kept(n) \in Nat /\ Kept(n) <= n /\ Kept(n) <= Capacity /\ (n # 0 => Kept(n) # 0)
BY LiveRingAssumption DEF Kept, Lesser

LEMMA HeaderIsSome ==
  ASSUME NEW h \in HeaderType
  PROVE  h # NoHeader
<1>1. "w" \in DOMAIN h /\ "w" \notin DOMAIN NoHeader
  BY DEF HeaderType, NoHeader
<1> QED BY <1>1

LEMMA FreshValid == FreshHeader \in HeaderType /\ ValidHeader(FreshHeader) /\ Avail(FreshHeader) = 0
<1>1. FreshHeader \in HeaderType
  BY LiveRingAssumption DEF FreshHeader, HeaderType
<1> QED BY <1>1, HeaderIsSome, LiveRingAssumption DEF FreshHeader, ValidHeader, Avail

\* What a write makes of a header.
LEMMA Writes ==
  ASSUME NEW h \in HeaderType, ValidHeader(h), NEW n \in Nat, NEW g, g = AfterWrite(h, n)
  PROVE  /\ g \in HeaderType /\ ValidHeader(g)
         /\ g.w = h.w + Kept(n) /\ g.over - h.over \in Nat /\ g.r = h.r + (g.over - h.over)
         /\ g.over - h.over = 0 <=> Free(h) >= Kept(n)
         /\ Avail(g) = Avail(h) + Kept(n) - (g.over - h.over)
<1> DEFINE overflow == Excess(Avail(h) + Kept(n), Capacity)
<1>1. Kept(n) \in Nat /\ Kept(n) <= Capacity /\ Capacity \in Nat
  BY KeptType, LiveRingAssumption
<1>2. Avail(h) \in 0 .. Capacity /\ h.w = h.r + Avail(h) /\ h.w \in Nat /\ h.r \in Nat /\ h.over \in Nat /\ h.low \in 0 .. Capacity
  BY <1>1 DEF ValidHeader, Avail, HeaderType
<1>3. overflow \in Nat /\ overflow <= Avail(h) /\ Avail(h) + Kept(n) - overflow \in 0 .. Capacity
      /\ (overflow = 0 <=> Free(h) >= Kept(n))
  BY <1>1, <1>2 DEF Excess, Free
<1>4. g = [h EXCEPT !.w = @ + Kept(n), !.r = @ + overflow, !.over = @ + overflow,
                    !.low = Lesser(@, Avail(h) + Kept(n) - overflow)]
  BY DEF AfterWrite
<1> HIDE DEF overflow
<1>5. Lesser(h.low, Avail(h) + Kept(n) - overflow) \in 0 .. Capacity
  BY <1>2, <1>3 DEF Lesser
<1>6. g \in HeaderType /\ g.w = h.w + Kept(n) /\ g.r = h.r + overflow /\ g.over = h.over + overflow
  <2>1. g = [h EXCEPT !.w = h.w + Kept(n), !.r = h.r + overflow, !.over = h.over + overflow,
                      !.low = Lesser(h.low, Avail(h) + Kept(n) - overflow)]
    BY <1>4
  <2>2. h.w + Kept(n) \in Nat /\ h.r + overflow \in Nat /\ h.over + overflow \in Nat
    BY <1>1, <1>2, <1>3
  <2> QED BY <1>5, <2>1, <2>2 DEF HeaderType
<1>7. ValidHeader(g)
  BY <1>1, <1>2, <1>3, <1>6, HeaderIsSome DEF ValidHeader, Avail
<1>8. Avail(g) = Avail(h) + Kept(n) - overflow
  BY <1>1, <1>2, <1>3, <1>6 DEF Avail
<1> QED BY <1>2, <1>3, <1>6, <1>7, <1>8

\* With room for what is kept, a write drops nothing and leaves the reader alone.
LEMMA WritesWithRoom ==
  ASSUME NEW h \in HeaderType, ValidHeader(h), NEW n \in Nat, FreeEnough(h, n)
  PROVE  /\ AfterWrite(h, n).w = h.w + Kept(n) /\ AfterWrite(h, n).r = h.r
         /\ AfterWrite(h, n).over - h.over = 0
<1> DEFINE g == AfterWrite(h, n)
           d == g.over - h.over
<1>1. g = AfterWrite(h, n)
  OBVIOUS
<1>2. Free(h) >= Kept(n)
  BY DEF FreeEnough, Needed, Kept
<1> HIDE DEF g
<1>3. g.w = h.w + Kept(n) /\ d \in Nat /\ g.r = h.r + d /\ (d = 0 <=> Free(h) >= Kept(n))
  BY <1>1, Writes
<1>4. h.r \in Nat
  BY DEF HeaderType
<1> HIDE DEF d
<1>5. d = 0 /\ g.r = h.r
  BY <1>2, <1>3, <1>4
<1> QED BY <1>1, <1>3, <1>5 DEF d

\* What a read makes of a header.
LEMMA Reads ==
  ASSUME NEW h \in HeaderType, ValidHeader(h), NEW n \in Nat, NEW g, g = AfterRead(h, n)
  PROVE  /\ g \in HeaderType /\ ValidHeader(g)
         /\ g.w = h.w /\ g.r = h.r + Lesser(n, Avail(h))
         /\ Lesser(n, Avail(h)) \in Nat /\ Lesser(n, Avail(h)) <= Avail(h)
         /\ Avail(g) = Avail(h) - Lesser(n, Avail(h))
<1> DEFINE readable == Lesser(n, Avail(h))
<1>1. Avail(h) \in 0 .. Capacity /\ h.w = h.r + Avail(h) /\ h.w \in Nat /\ h.r \in Nat /\ h.under \in Nat
      /\ h.low \in 0 .. Capacity /\ Capacity \in Nat
  BY LiveRingAssumption DEF ValidHeader, Avail, HeaderType
<1>2. readable \in Nat /\ readable <= Avail(h) /\ n - readable \in Nat
  BY <1>1 DEF Lesser
<1>3. g = [h EXCEPT !.r = @ + readable, !.under = @ + (n - readable), !.low = Lesser(@, Avail(h) - readable)]
  BY DEF AfterRead
<1> HIDE DEF readable
<1>4. Lesser(h.low, Avail(h) - readable) \in 0 .. Capacity
  BY <1>1, <1>2 DEF Lesser
<1>5. g \in HeaderType /\ g.w = h.w /\ g.r = h.r + readable
  <2>1. g = [h EXCEPT !.r = h.r + readable, !.under = h.under + (n - readable),
                      !.low = Lesser(h.low, Avail(h) - readable)]
    BY <1>3
  <2>2. h.r + readable \in Nat /\ h.under + (n - readable) \in Nat
    BY <1>1, <1>2
  <2> QED BY <1>4, <2>1, <2>2 DEF HeaderType
<1>6. ValidHeader(g) /\ Avail(g) = Avail(h) - readable
  BY <1>1, <1>2, <1>5, HeaderIsSome DEF ValidHeader, Avail
<1> QED BY <1>2, <1>5, <1>6 DEF readable

-----------------------------------------------------------------------------
(* Types, and the headers in the file and in both copies.                  *)

LocalOnly == mode = "local" => prod.pc = "idle" /\ host.pc = "gone"
HInv == HeaderSound /\ LocalOnly

ProdType == [pc : {"idle", "wait", "load", "rows", "open", "fill"},
             len : Nat, copy : HeaderType, row : Nat, drop : Nat]
HostType == [pc : {"start", "idle", "rows", "gone"}, copy : HeaderType, got : Seq(Nat)]
PacingType == [status : {"ready", "stopped", "timeout"}, timeouts : Nat, stops : Nat]

LEMMA IdleType == Idle \in ProdType /\ ValidHeader(Idle.copy) /\ Idle.pc = "idle" /\ Idle.drop = 0
                  /\ [Idle EXCEPT !.pc = "open"] \in ProdType /\ [Idle EXCEPT !.pc = "open"].copy = FreshHeader
                  /\ [Idle EXCEPT !.pc = "open"].pc = "open"
BY FreshValid DEF Idle, ProdType

\* The header in the file is there unless the file is just being opened.
LEMMA HeaderThere ==
  ASSUME HInv
  PROVE  /\ prod.pc # "open" \/ hdr # NoHeader => hdr \in HeaderType /\ ValidHeader(hdr)
         /\ Avail(hdr) \in Nat \/ hdr = NoHeader
<1>1. hdr \in HeaderType \/ (hdr = NoHeader /\ prod.pc = "open")
  BY DEF HInv, HeaderSound, TypeOK
<1>2. hdr \in HeaderType => ValidHeader(hdr)
  BY HeaderIsSome DEF HInv, HeaderSound
<1>3. ValidHeader(hdr) /\ hdr \in HeaderType => Avail(hdr) \in Nat
  BY DEF ValidHeader, Avail, HeaderType
<1> QED BY <1>1, <1>2, <1>3

LEMMA HInit == Init => HInv
<1> SUFFICES ASSUME Init PROVE HInv
  OBVIOUS
<1>1. hdr \in HeaderType /\ ValidHeader(hdr) /\ prod \in ProdType /\ ValidHeader(prod.copy)
  BY FreshValid, IdleType DEF Init
<1>2. host \in HostType /\ ValidHeader(host.copy)
  BY FreshValid DEF Init, HostType
<1>3. data \in [Rows -> Nat] /\ played \in Seq(Nat)
  BY DEF Init, Silence
<1>4. TypeOK
  <2>1. pacing \in PacingType /\ mode \in {"paced", "timed", "raw", "local"}
    BY LiveRingAssumption DEF Init, PacingType
  <2>2. stop \in BOOLEAN /\ clash \in BOOLEAN
    BY Zenon DEF Init
  <2>3. next = 1 /\ lost = 0 /\ restarts = 0
    BY DEF Init
  <2> QED BY <1>1, <1>2, <1>3, <2>1, <2>2, <2>3 DEF TypeOK, ProdType, HostType, PacingType
<1>5. LocalOnly
  BY IdleType DEF Init, LocalOnly
<1> QED BY <1>1, <1>2, <1>4, <1>5 DEF HInv, HeaderSound

\* What is left to show of a step once its parts are typed.
LEMMA HeaderSoundFrom ==
  ASSUME hdr' \in HeaderType, ValidHeader(hdr)', prod' \in ProdType, ValidHeader(prod.copy)',
         host' \in HostType, ValidHeader(host.copy)', (data \in [Rows -> Nat])', mode' \in {"paced", "timed", "raw", "local"},
         pacing' \in PacingType, stop' \in BOOLEAN, clash' \in BOOLEAN, next' \in Nat \ {0}, lost' \in Nat,
         restarts' \in Nat, played' \in Seq(Nat)
  PROVE  HeaderSound'
<1>1. TypeOK'
  BY DEF TypeOK, ProdType, HostType, PacingType, HeaderType, Rows
<1> QED BY <1>1 DEF HeaderSound

LEMMA StoredRowType ==
  ASSUME data \in [Rows -> Nat], NEW h \in HeaderType, NEW s \in Nat, NEW n \in Nat, NEW i \in Nat
  PROVE  StoredRow(h, s, n, i) \in [Rows -> Nat]
<1>1. Slot(h.w + i) \in Rows /\ s + (n - Kept(n)) + i \in Nat
  BY SlotType, KeptType DEF HeaderType
<1> QED BY <1>1 DEF StoredRow

LEMMA OverwrittenType ==
  ASSUME data \in [Rows -> Nat], NEW h \in HeaderType, NEW s \in Nat, NEW n \in Nat
  PROVE  Overwritten(h, s, n) \in [Rows -> Nat]
<1>1. Kept(n) \in Nat /\ n - Kept(n) \in Nat
  BY KeptType
<1>2. ASSUME NEW i \in Rows, \E k \in 0 .. Kept(n) - 1 : Slot(h.w + k) = i
      PROVE  s + (n - Kept(n)) + (CHOOSE k \in 0 .. Kept(n) - 1 : Slot(h.w + k) = i) \in Nat
  <2>1. (CHOOSE k \in 0 .. Kept(n) - 1 : Slot(h.w + k) = i) \in 0 .. Kept(n) - 1
    BY <1>2
  <2> HIDE DEF Kept
  <2> QED BY <1>1, <2>1
<1> QED BY <1>2 DEF Overwritten

LEMMA ReadRowsType ==
  ASSUME data \in [Rows -> Nat], NEW h \in HeaderType, ValidHeader(h), NEW n \in Nat
  PROVE  ReadRows(h, n) \in Seq(Nat) /\ Len(ReadRows(h, n)) = Lesser(n, Avail(h))
<1>1. Lesser(n, Avail(h)) \in Nat
  BY Reads
<1>2. \A k \in 1 .. Lesser(n, Avail(h)) : data[Slot(h.r + k - 1)] \in Nat
  BY <1>1, SlotType DEF HeaderType
<1> QED BY <1>1, <1>2 DEF ReadRows

LEMMA StoppedType ==
  ASSUME NEW p \in PacingType
  PROVE  [p EXCEPT !.status = "stopped", !.stops = p.stops + 1] \in PacingType
<1>1. p.stops + 1 \in Nat
  BY DEF PacingType
<1> QED BY <1>1 DEF PacingType

LEMMA TimeoutType ==
  ASSUME NEW p \in PacingType
  PROVE  [p EXCEPT !.status = "timeout", !.timeouts = p.timeouts + 1] \in PacingType
<1>1. p.timeouts + 1 \in Nat
  BY DEF PacingType
<1> QED BY <1>1 DEF PacingType

LEMMA HStep ==
  ASSUME HInv, [Next]_vars
  PROVE  HInv'
<1> DEFINE ProdOK == prod \in ProdType /\ ValidHeader(prod.copy)
           HostOK == host \in HostType /\ ValidHeader(host.copy)
           DataOK == data \in [Rows -> Nat]
           HdrOK == hdr \in HeaderType /\ ValidHeader(hdr)
           Rest == /\ mode \in {"paced", "timed", "raw", "local"} /\ pacing \in PacingType /\ stop \in BOOLEAN
                   /\ clash \in BOOLEAN /\ next \in Nat \ {0} /\ lost \in Nat /\ restarts \in Nat /\ played \in Seq(Nat)
<1>0. ProdOK /\ HostOK /\ DataOK /\ Rest
  BY DEF HInv, HeaderSound, TypeOK, ProdType, HostType, PacingType
<1>1. HdrOK' /\ ProdOK' /\ HostOK' /\ DataOK' /\ Rest' => HeaderSound'
  BY HeaderSoundFrom
<1>2. (prod.pc # "open" \/ hdr # NoHeader => HdrOK) /\ (hdr = NoHeader \/ Avail(hdr) \in Nat)
  BY HeaderThere
<1> SUFFICES HeaderSound' /\ LocalOnly'
  BY DEF HInv
<1>3. ASSUME UNCHANGED vars PROVE HeaderSound' /\ LocalOnly'
  BY <1>3 DEF vars, HInv, HeaderSound, TypeOK, LocalOnly, ValidHeader, Avail
<1>4. ASSUME Producer PROVE HeaderSound' /\ LocalOnly'
  <2>0. mode' = mode /\ host' = host /\ stop' = stop /\ restarts' = restarts /\ played' = played
    BY <1>4 DEF Producer, WriteBegin, PaceReady, PaceStopped, PaceTimeout, WriteLoad, WriteRow, WriteStore, OpenHeader, OpenFill
  <2>00. HostOK' /\ ~ (mode = "local") => LocalOnly'
    BY <1>0, <2>0 DEF LocalOnly
  <2>1. ASSUME NEW n \in Sizes, WriteBegin(n) PROVE HeaderSound' /\ LocalOnly'
    <3>1. prod.pc = "idle" /\ mode # "local" /\ n \in Nat
      BY <2>1, LiveRingAssumption DEF WriteBegin
    <3>2. ProdOK'
      BY <1>0, <2>1, <3>1 DEF WriteBegin, ProdType
    <3>3. pacing' \in PacingType
      BY <1>0, <2>1 DEF WriteBegin, PacingType
    <3> QED BY <1>0, <1>1, <1>2, <2>0, <2>1, <3>1, <3>2, <3>3 DEF WriteBegin, LocalOnly
  <2>2. CASE PaceReady
    <3>1. ProdOK' /\ prod.pc = "wait"
      BY <1>0, <2>2 DEF PaceReady, ProdType
    <3> QED BY <1>0, <1>1, <1>2, <2>0, <2>2, <3>1 DEF PaceReady, LocalOnly, HInv
  <2>3. CASE PaceStopped
    <3>1. ProdOK' /\ prod.pc = "wait" /\ prod.len \in Nat
      BY <1>0, <2>3, IdleType DEF PaceStopped, ProdType
    <3>2. pacing' \in PacingType
      <4>1. pacing' = [pacing EXCEPT !.status = "stopped", !.stops = pacing.stops + 1]
        BY <2>3 DEF PaceStopped
      <4>2. pacing \in PacingType
        BY <1>0
      <4> QED BY <4>1, <4>2, StoppedType
    <3> QED BY <1>0, <1>1, <1>2, <2>0, <2>3, <3>1, <3>2 DEF PaceStopped, LocalOnly, HInv
  <2>4. CASE PaceTimeout
    <3>1. ProdOK' /\ prod.pc = "wait"
      BY <1>0, <2>4 DEF PaceTimeout, ProdType
    <3>2. pacing' \in PacingType
      <4>1. pacing' = [pacing EXCEPT !.status = "timeout", !.timeouts = pacing.timeouts + 1]
        BY <2>4 DEF PaceTimeout
      <4>2. pacing \in PacingType
        BY <1>0
      <4> QED BY <4>1, <4>2, TimeoutType
    <3> QED BY <1>0, <1>1, <1>2, <2>0, <2>4, <3>1, <3>2 DEF PaceTimeout, LocalOnly, HInv
  <2>5. CASE WriteLoad
    <3>1. prod.pc = "load" /\ prod.len \in Nat /\ HdrOK
      BY <1>0, <1>2, <2>5 DEF WriteLoad, ProdType
    <3>2. AfterWrite(hdr, prod.len).over - hdr.over \in Nat
      BY <3>1, Writes
    <3>3. ProdOK'
      BY <1>0, <2>5, <3>1, <3>2 DEF WriteLoad, ProdType
    <3> QED BY <1>0, <1>1, <2>0, <2>5, <3>1, <3>3 DEF WriteLoad, LocalOnly, HInv
  <2>6. CASE WriteRow
    <3>1. prod.pc = "rows" /\ prod.len \in Nat /\ prod.row \in Nat /\ prod.copy \in HeaderType /\ HdrOK
      BY <1>0, <1>2, <2>6 DEF WriteRow, ProdType
    <3>2. ProdOK'
      <4>1. prod' = [prod EXCEPT !.row = prod.row + 1] /\ prod \in ProdType
        BY <1>0, <2>6 DEF WriteRow
      <4>2. prod' \in ProdType /\ prod'.copy = prod.copy
        BY <4>1 DEF ProdType
      <4> QED BY <1>0, <4>2 DEF ValidHeader, Avail
    <3>3. DataOK'
      BY <1>0, <2>6, <3>1, StoredRowType DEF WriteRow
    <3> QED BY <1>0, <1>1, <2>0, <2>6, <3>1, <3>2, <3>3 DEF WriteRow, LocalOnly, HInv
  <2>7. CASE WriteStore
    <3>1. prod.pc = "rows" /\ prod.len \in Nat /\ prod.drop \in Nat /\ prod.copy \in HeaderType
      BY <1>0, <2>7 DEF WriteStore, ProdType
    <3>2. HdrOK'
      BY <1>0, <2>7, <3>1, Writes DEF WriteStore
    <3>3. ProdOK'
      BY <2>7, IdleType DEF WriteStore
    <3>4. prod.len - Kept(prod.len) \in Nat
      BY <3>1, KeptType
    <3>5. next' \in Nat \ {0} /\ lost' \in Nat
      BY <1>0, <2>7, <3>1, <3>4 DEF WriteStore
    <3>6. clash' \in BOOLEAN
      BY <2>7 DEF WriteStore
    <3> QED BY <1>0, <1>1, <2>0, <2>7, <3>1, <3>2, <3>3, <3>5, <3>6 DEF WriteStore, LocalOnly, HInv
  <2>8. CASE OpenHeader
    <3>1. ProdOK' /\ prod.pc = "open"
      BY <1>0, <2>8 DEF OpenHeader, ProdType
    <3>2. HdrOK'
      BY <2>8, FreshValid DEF OpenHeader
    <3> QED BY <1>0, <1>1, <2>0, <2>8, <3>1, <3>2 DEF OpenHeader, LocalOnly, HInv
  <2>9. CASE OpenFill
    <3>1. ProdOK' /\ prod.pc = "fill" /\ DataOK'
      BY <2>9, IdleType DEF OpenFill, Silence
    <3> QED BY <1>0, <1>1, <1>2, <2>0, <2>9, <3>1 DEF OpenFill, LocalOnly, HInv
  <2> QED BY <1>4, <2>1, <2>2, <2>3, <2>4, <2>5, <2>6, <2>7, <2>8, <2>9 DEF Producer
<1>5. ASSUME Local PROVE HeaderSound' /\ LocalOnly'
  <2>0. mode = "local" /\ mode' = mode /\ prod' = prod /\ host' = host /\ pacing' = pacing /\ stop' = stop /\ clash' = clash
    BY <1>5 DEF Local, LocalWrite, LocalRead, LocalReset
  <2>1. LocalOnly' /\ HdrOK /\ Avail(hdr) \in Nat
    BY <1>2, <2>0, HeaderIsSome DEF LocalOnly, HInv
  <2>2. ASSUME NEW n \in Sizes, LocalWrite(n) PROVE HeaderSound'
    <3>1. n \in Nat /\ n - Kept(n) \in Nat
      BY KeptType, LiveRingAssumption
    <3>2. HdrOK' /\ hdr'.over - hdr.over \in Nat
      BY <2>1, <2>2, <3>1, Writes DEF LocalWrite
    <3>3. DataOK'
      BY <1>0, <2>1, <2>2, <3>1, OverwrittenType DEF LocalWrite
    <3>4. next' \in Nat \ {0} /\ lost' \in Nat
      BY <1>0, <2>2, <3>1, <3>2 DEF LocalWrite
    <3> QED BY <1>0, <1>1, <2>0, <2>2, <3>2, <3>3, <3>4 DEF LocalWrite
  <2>3. CASE LocalRead(Period)
    <3>1. Period \in Nat
      BY LiveRingAssumption
    <3>2. HdrOK'
      BY <2>1, <2>3, <3>1, Reads DEF LocalRead
    <3>3. played' \in Seq(Nat)
      BY <1>0, <2>1, <2>3, <3>1, ReadRowsType DEF LocalRead
    <3>4. data' = data /\ next' = next /\ lost' = lost /\ restarts' = restarts
      BY <2>3 DEF LocalRead
    <3>5. ProdOK' /\ HostOK'
      BY <1>0, <2>0 DEF ValidHeader, Avail
    <3>6. DataOK' /\ Rest'
      BY <1>0, <2>0, <3>3, <3>4
    <3>7. HeaderSound'
      BY <1>1, <3>2, <3>5, <3>6
    <3> QED BY <2>1, <3>7
  <2>4. CASE LocalReset
    <3>1. HdrOK' /\ DataOK'
      BY <2>4, FreshValid DEF LocalReset, Silence
    <3> QED BY <1>0, <1>1, <2>0, <2>1, <2>4, <3>1 DEF LocalReset
  <2> QED BY <1>5, <2>1, <2>2, <2>3, <2>4 DEF Local
<1>6. CASE Stop
  <2>1. prod' = prod /\ host' = host /\ hdr' = hdr /\ UNCHANGED <<data, mode, pacing, next, played, lost, restarts, clash>> /\ stop' = TRUE
    BY <1>6 DEF Stop
  <2> QED BY <1>0, <2>1 DEF HInv, HeaderSound, TypeOK, LocalOnly, ValidHeader, Avail
<1>7. CASE Restart
  <2>1. HdrOK /\ Avail(hdr) \in Nat /\ mode # "local"
    BY <1>2, <1>7, HeaderIsSome DEF Restart
  <2>2. ProdOK' /\ prod'.pc = "open" /\ hdr' = NoHeader
    BY <1>7, IdleType, FreshValid DEF Restart
  <2>3. DataOK' /\ pacing' \in PacingType
    BY <1>7 DEF Restart, Silence, PacingType
  <2>4. next' \in Nat \ {0} /\ lost' \in Nat /\ restarts' \in Nat
    BY <1>0, <1>7, <2>1 DEF Restart, ProdType
  <2>5. clash' \in BOOLEAN /\ stop' \in BOOLEAN
    BY <1>7 DEF Restart
  <2>6. mode' = mode /\ host' = host /\ played' = played
    BY <1>7 DEF Restart
  <2>7. TypeOK'
    BY <1>0, <2>2, <2>3, <2>4, <2>5, <2>6 DEF TypeOK, ProdType, HostType, PacingType
  <2> QED BY <1>0, <2>1, <2>2, <2>6, <2>7 DEF HeaderSound, LocalOnly
<1>8. ASSUME Host \/ HostExit PROVE HeaderSound' /\ LocalOnly'
  <2>0. /\ UNCHANGED <<data, mode, prod, pacing, stop, next, lost, restarts>> /\ host.pc # "gone"
    BY <1>8 DEF Host, HostStart, HostLoad, HostRow, HostStore, HostExit
  <2>1. LocalOnly'
    BY <2>0 DEF LocalOnly, HInv
  <2>2. CASE HostStart \/ HostExit
    <3>1. HostOK' /\ hdr' = hdr /\ played' = played /\ clash' = clash
      BY <1>0, <2>2 DEF HostStart, HostExit, HostType
    <3> QED BY <1>0, <2>0, <2>1, <3>1 DEF HInv, HeaderSound, TypeOK, HostType, ValidHeader, Avail
  <2>3. CASE HostLoad
    <3>1. HdrOK /\ hdr' = hdr /\ played' = played /\ clash' = clash
      BY <1>2, <2>3 DEF HostLoad, ValidHeader
    <3>2. HostOK'
      BY <2>3, <3>1 DEF HostLoad, HostType
    <3> QED BY <1>0, <1>1, <2>0, <2>1, <3>1, <3>2
  <2>4. CASE HostRow
    <3>1. host.pc = "rows" /\ hdr' = hdr /\ played' = played /\ clash' = clash
      BY <2>4 DEF HostRow
    <3>2. host.copy.r + Len(host.got) \in Nat /\ host.got \in Seq(Nat)
      BY <1>0 DEF HostType, HeaderType
    <3>3. data[Slot(host.copy.r + Len(host.got))] \in Nat
      BY <1>0, <3>2, SlotType
    <3>4. HostOK'
      <4> DEFINE got == Append(host.got, data[Slot(host.copy.r + Len(host.got))])
      <4>1. host' = [host EXCEPT !.got = got] /\ host \in HostType
        BY <1>0, <2>4 DEF HostRow
      <4>2. got \in Seq(Nat)
        BY <3>2, <3>3
      <4> HIDE DEF got
      <4>3. host' \in HostType /\ host'.copy = host.copy
        BY <4>1, <4>2 DEF HostType
      <4> QED BY <1>0, <4>3 DEF ValidHeader, Avail
    <3> QED BY <1>0, <2>0, <2>1, <3>1, <3>4 DEF HInv, HeaderSound, TypeOK, HostType, ValidHeader, Avail
  <2>5. CASE HostStore
    <3>1. HdrOK'
      BY <1>0, <2>5, Reads, LiveRingAssumption DEF HostStore, HostType
    <3>2. HostOK'
      BY <2>5, FreshValid DEF HostStore, HostType
    <3>3. played' \in Seq(Nat) /\ clash' \in BOOLEAN
      BY <1>0, <2>5 DEF HostStore, HostType
    <3> QED BY <1>0, <1>1, <2>0, <2>1, <3>1, <3>2, <3>3
  <2> QED BY <1>8, <2>2, <2>3, <2>4, <2>5 DEF Host
<1> QED BY <1>3, <1>4, <1>5, <1>6, <1>7, <1>8 DEF Next

\* Whatever headers are undone, the reader never passes the writer, the writer
\* is never more than a ring ahead, and no side finds a header it refuses.
THEOREM HeaderHolds == Spec => []HeaderSound
<1>1. HInv => HeaderSound
  BY DEF HInv
<1> QED BY <1>1, HInit, HStep, PTL DEF Spec

-----------------------------------------------------------------------------
(* Pacing.  Until a wait times out or the producer is started again, both  *)
(* sides only ever load and store cursors in one order: the copies lag the *)
(* host behind the producer, so the room a wait has seen stays.            *)

\* The wait is over: the room is there, and stays there whoever stores.
RoomSeen == prod.pc = "load" => FreeEnough(hdr, prod.len)
\* The producer's copy against the header in the file.
WriterCopy ==
  prod.pc = "rows" => /\ prod.copy.r <= hdr.r /\ hdr.w <= prod.copy.w
                      /\ FreeEnough(prod.copy, prod.len) /\ prod.drop = 0
\* The host's copy against the header in the file.
ReaderCopy == host.pc = "rows" => hdr.r <= host.copy.r /\ host.copy.w <= hdr.w
\* One copy against the other.
Copies ==
  prod.pc = "rows" /\ host.pc = "rows" =>
    prod.copy.r <= host.copy.r /\ host.copy.w <= prod.copy.w

PacedInv == Paced => /\ prod.pc \notin {"open", "fill"}
                     /\ RoomSeen /\ WriterCopy /\ ReaderCopy /\ Copies
PInv == HInv /\ PacedInv

LEMMA PInit == Init => PInv
<1>1. Init => PacedInv
  BY DEF Init, Idle, PacedInv, RoomSeen, WriterCopy, ReaderCopy, Copies
<1> QED BY <1>1, HInit DEF PInv

\* What both parts of PacingHolds say of a paced state with an ordered pair.
LEMMA PacingFrom == ASSUME PInv PROVE PacingHolds
<1>1. PacedKeepsQueue
  BY DEF PInv, PacedInv, WriterCopy, PacedKeepsQueue
<1>2. ASSUME Paced, prod.pc = "rows", host.pc = "rows",
             NEW i \in 0 .. Kept(prod.len) - 1,
             NEW k \in 0 .. Lesser(Period, Avail(host.copy)) - 1
      PROVE  Slot(prod.copy.w + i) # Slot(host.copy.r + k)
  <2> DEFINE n == Kept(prod.len)
             m == Lesser(Period, Avail(host.copy))
             a == host.copy.r + k
             b == prod.copy.w + i
  <2>1. /\ prod.copy \in HeaderType /\ host.copy \in HeaderType
        /\ ValidHeader(prod.copy) /\ ValidHeader(host.copy)
        /\ prod.len \in Nat
    BY DEF PInv, HInv, HeaderSound, TypeOK
  <2>2. /\ prod.copy.r <= host.copy.r /\ host.copy.w <= prod.copy.w
        /\ Free(prod.copy) >= n
    BY <1>2 DEF PInv, PacedInv, Copies, WriterCopy, FreeEnough, Needed, Kept
  <2>3. n \in Nat /\ m \in Nat /\ m <= Avail(host.copy) /\ Capacity \in Nat
    BY <2>1, KeptType, Reads, LiveRingAssumption
  <2>4. /\ prod.copy.w \in Nat /\ prod.copy.r \in Nat
        /\ host.copy.w \in Nat /\ host.copy.r \in Nat
    BY <2>1 DEF HeaderType
  <2>5. i \in Nat /\ i < n /\ k \in Nat /\ k < m
    BY <2>3
  <2> HIDE DEF n, m
  <2>6. a < b
    BY <2>2, <2>3, <2>4, <2>5 DEF Avail
  <2>7. b < a + Capacity
    BY <2>2, <2>3, <2>4, <2>5 DEF Free, Avail
  <2>8. a \in Nat /\ b \in Nat
    BY <2>4, <2>5
  <2> HIDE DEF a, b
  <2>9. Slot(a) # Slot(b)
    BY <2>6, <2>7, <2>8, SlotDistinct
  <2> QED BY <2>9 DEF a, b
<1>3. RowsApart
  BY <1>2 DEF RowsApart
<1> QED BY <1>1, <1>3 DEF PacingHolds

LEMMA PStep ==
  ASSUME PInv, [Next]_vars
  PROVE  PacedInv'
<1> USE DEF RoomSeen, WriterCopy, ReaderCopy, Copies
<1>1. /\ hdr \in HeaderType \/ prod.pc = "open"
      /\ hdr \in HeaderType => ValidHeader(hdr)
      /\ prod.copy \in HeaderType /\ ValidHeader(prod.copy) /\ prod.len \in Nat
      /\ host.copy \in HeaderType /\ ValidHeader(host.copy)
      /\ prod \in ProdType /\ host \in HostType
  BY HeaderIsSome DEF PInv, HInv, HeaderSound, TypeOK, ProdType, HostType
<1>2. pacing.timeouts \in Nat /\ restarts \in Nat
  BY DEF PInv, HInv, HeaderSound, TypeOK
<1>3. Paced => prod.pc \notin {"open", "fill"} /\ RoomSeen /\ WriterCopy /\ ReaderCopy /\ Copies
  BY DEF PInv, PacedInv
<1>4. CASE UNCHANGED vars
  BY <1>3, <1>4 DEF vars, PacedInv, Paced, FreeEnough, Free, Avail
<1>5. ASSUME NEW n \in Sizes, WriteBegin(n) PROVE PacedInv'
  <2>1. /\ UNCHANGED <<hdr, mode, host, restarts>>
        /\ prod'.pc \in {"load", "wait"} /\ (prod'.pc = "load" => mode = "raw")
        /\ pacing'.timeouts = pacing.timeouts
    BY <1>1, <1>5 DEF WriteBegin, ProdType
  <2> QED BY <1>3, <2>1 DEF PacedInv, Paced
<1>6. CASE PaceReady
  <2>1. /\ UNCHANGED <<hdr, mode, host, restarts, pacing>>
        /\ prod'.pc = "load" /\ prod'.len = prod.len /\ FreeEnough(hdr, prod.len)
    BY <1>1, <1>6 DEF PaceReady, ProdType
  <2> QED BY <1>3, <2>1 DEF PacedInv, Paced, FreeEnough, Free, Avail
<1>7. CASE PaceStopped
  <2>1. /\ UNCHANGED <<hdr, mode, host, restarts>>
        /\ prod'.pc = "idle" /\ pacing'.timeouts = pacing.timeouts
    <3>1. prod'.pc = "idle"
      BY <1>7, IdleType DEF PaceStopped
    <3>2. pacing'.timeouts = pacing.timeouts
      BY <1>7 DEF PaceStopped, PInv, HInv, HeaderSound, TypeOK
    <3> QED BY <1>7, <3>1, <3>2 DEF PaceStopped
  <2> QED BY <1>3, <2>1 DEF PacedInv, Paced
<1>8. CASE PaceTimeout
  <2>1. pacing'.timeouts = pacing.timeouts + 1
    BY <1>8 DEF PaceTimeout, PInv, HInv, HeaderSound, TypeOK
  <2> QED BY <1>2, <2>1 DEF PacedInv, Paced
<1>9. CASE WriteLoad
  <2>1. /\ UNCHANGED <<hdr, mode, host, restarts, pacing>>
        /\ prod.pc = "load" /\ prod'.pc = "rows" /\ prod'.copy = hdr /\ prod'.len = prod.len
        /\ prod'.drop = AfterWrite(hdr, prod.len).over - hdr.over
    BY <1>1, <1>9 DEF WriteLoad, ProdType
  <2>2. ASSUME Paced PROVE WriterCopy' /\ Copies'
    <3>1. hdr \in HeaderType /\ ValidHeader(hdr) /\ FreeEnough(hdr, prod.len)
      BY <1>1, <1>3, <2>1, <2>2
    <3>2. prod'.drop = 0
      BY <1>1, <2>1, <3>1, WritesWithRoom
    <3>3. FreeEnough(hdr, prod.len)'
      BY <2>1, <3>1 DEF FreeEnough, Free, Avail
    <3> QED BY <1>3, <2>1, <2>2, <3>1, <3>2, <3>3 DEF HeaderType, FreeEnough, Free, Avail
  <2> QED BY <1>3, <2>1, <2>2 DEF PacedInv, Paced
<1>10. CASE WriteRow
  <2>1. /\ UNCHANGED <<hdr, mode, host, restarts, pacing>>
        /\ prod'.pc = prod.pc /\ prod'.copy = prod.copy /\ prod'.len = prod.len /\ prod'.drop = prod.drop
    BY <1>1, <1>10 DEF WriteRow, ProdType
  <2> QED BY <1>3, <2>1 DEF PacedInv, Paced, FreeEnough, Free, Avail
<1>11. CASE WriteStore
  <2>1. /\ UNCHANGED <<mode, host, restarts, pacing>>
        /\ prod.pc = "rows" /\ prod'.pc = "idle" /\ hdr' = AfterWrite(prod.copy, prod.len)
    BY <1>11, IdleType DEF WriteStore
  <2>2. ASSUME Paced PROVE ReaderCopy'
    <3>1. /\ AfterWrite(prod.copy, prod.len).w = prod.copy.w + Kept(prod.len)
          /\ AfterWrite(prod.copy, prod.len).r = prod.copy.r
      <4>1. FreeEnough(prod.copy, prod.len)
        BY <1>3, <2>1, <2>2
      <4> QED BY <1>1, <4>1, WritesWithRoom
    <3>2. Kept(prod.len) \in Nat /\ prod.copy.w \in Nat /\ host.copy.w \in Nat
      BY <1>1, KeptType DEF HeaderType
    <3> QED BY <1>3, <2>1, <2>2, <3>1, <3>2
  <2> QED BY <1>3, <2>1, <2>2 DEF PacedInv, Paced
<1>12. CASE OpenHeader \/ OpenFill
  BY <1>3, <1>12 DEF OpenHeader, OpenFill, PacedInv, Paced
<1>13. CASE Local
  BY <1>13 DEF Local, LocalWrite, LocalRead, LocalReset, PacedInv, Paced
<1>14. CASE Stop
  BY <1>3, <1>14 DEF Stop, PacedInv, Paced, FreeEnough, Free, Avail
<1>15. CASE Restart
  BY <1>2, <1>15 DEF Restart, PacedInv, Paced
<1>16. CASE HostStart \/ HostExit
  <2>1. /\ UNCHANGED <<hdr, mode, prod, restarts, pacing>> /\ host'.pc \in {"idle", "gone"}
    BY <1>1, <1>16 DEF HostStart, HostExit, HostType
  <2> QED BY <1>3, <2>1 DEF PacedInv, Paced, FreeEnough, Free, Avail
<1>17. CASE HostLoad
  <2>1. /\ UNCHANGED <<hdr, mode, prod, restarts, pacing>> /\ host'.pc = "rows" /\ host'.copy = hdr
    BY <1>17 DEF HostLoad
  <2>2. hdr \in HeaderType
    BY <1>1, <1>17 DEF HostLoad, ValidHeader, PInv, HInv, HeaderSound, TypeOK
  <2> QED BY <1>3, <2>1, <2>2 DEF PacedInv, Paced, FreeEnough, Free, Avail, HeaderType
<1>18. CASE HostRow
  <2>1. /\ UNCHANGED <<hdr, mode, prod, restarts, pacing>> /\ host'.pc = host.pc /\ host'.copy = host.copy
    BY <1>1, <1>18 DEF HostRow, HostType
  <2> QED BY <1>3, <2>1 DEF PacedInv, Paced, FreeEnough, Free, Avail
<1>19. CASE HostStore
  <2>1. /\ UNCHANGED <<mode, prod, restarts, pacing>>
        /\ host.pc = "rows" /\ host'.pc = "idle" /\ hdr' = AfterRead(host.copy, Period)
    BY <1>19 DEF HostStore
  <2>2. /\ hdr'.w = host.copy.w /\ hdr'.r = host.copy.r + Lesser(Period, Avail(host.copy))
        /\ Lesser(Period, Avail(host.copy)) \in Nat
    <3>1. Period \in Nat
      BY LiveRingAssumption
    <3> QED BY <1>1, <2>1, <3>1, Reads
  <2>3. host.copy.w \in Nat /\ host.copy.r \in Nat
    BY <1>1 DEF HeaderType
  <2>4. ASSUME Paced PROVE (prod.pc = "load" => FreeEnough(hdr', prod.len)) /\ WriterCopy'
    <3>1. hdr \in HeaderType /\ hdr.r <= host.copy.r /\ host.copy.w <= hdr.w
      BY <1>1, <1>3, <2>1, <2>4
    <3>2. Capacity \in Nat /\ Needed(prod.len) \in Nat
      BY <1>1, KeptType, LiveRingAssumption DEF Kept, Needed
    <3>3. ASSUME prod.pc = "load" PROVE FreeEnough(hdr', prod.len)
      <4>1. Capacity - (hdr.w - hdr.r) >= Needed(prod.len) /\ hdr.w \in Nat /\ hdr.r \in Nat
        BY <1>3, <2>4, <3>1, <3>3 DEF FreeEnough, Free, Avail, HeaderType
      <4> DEFINE m == Lesser(Period, Avail(host.copy))
      <4>2. hdr'.w = host.copy.w /\ hdr'.r = host.copy.r + m /\ m \in Nat
        BY <2>2
      <4> HIDE DEF m
      <4>3. Capacity - (hdr'.w - hdr'.r) >= Needed(prod.len)
        BY <2>3, <3>1, <3>2, <4>1, <4>2
      <4> QED BY <4>3 DEF FreeEnough, Free, Avail
    <3>4. ASSUME prod.pc = "rows"
          PROVE  /\ prod.copy.r <= hdr'.r /\ hdr'.w <= prod.copy.w
                 /\ FreeEnough(prod.copy, prod.len) /\ prod.drop = 0
      <4>1. prod.copy.r \in Nat /\ prod.copy.w \in Nat
        BY <1>1 DEF HeaderType
      <4> DEFINE m == Lesser(Period, Avail(host.copy))
      <4>2. hdr'.w = host.copy.w /\ hdr'.r = host.copy.r + m /\ m \in Nat
        BY <2>2
      <4> HIDE DEF m
      <4>3. prod.copy.r <= host.copy.r /\ host.copy.w <= prod.copy.w
        BY <1>3, <2>1, <2>4, <3>4
      <4> QED BY <1>3, <2>3, <2>4, <3>4, <4>1, <4>2, <4>3
    <3> QED BY <2>1, <3>3, <3>4 DEF FreeEnough, Free, Avail
  <2> QED BY <1>3, <2>1, <2>4 DEF PacedInv, Paced, FreeEnough, Free, Avail
<1> QED BY <1>4, <1>5, <1>6, <1>7, <1>8, <1>9, <1>10, <1>11, <1>12, <1>13, <1>14, <1>15, <1>16, <1>17, <1>18, <1>19
        DEF Next, Producer, Host

\* Whatever the capacity, the period and the chunks, a paced producer drops
\* nothing that is queued and touches no row the host is copying, until a wait
\* times out or the producer is started again.
THEOREM PacingIsKept == Spec => []PacingHolds
<1>1. PInv /\ [Next]_vars => PInv'
  BY HStep, PStep DEF PInv
<1>2. PInv => PacingHolds
  BY PacingFrom
<1> QED BY <1>1, <1>2, PInit, PTL DEF Spec

-----------------------------------------------------------------------------
(* The strengthening.  Row(p) is what the file holds at the cursor p.      *)
Row(p) == data[Slot(p)]
Writing == prod.pc = "rows"
Reading == host.pc = "rows"
Dropping == Writing /\ prod.drop > 0

\* The producer's copy is behind the file by the host's stores only, and each of
\* them moves the read cursor or the underruns.
WriterView ==
  Writing => /\ prod.len # 0 /\ prod.row <= Kept(prod.len)
             /\ prod.drop = AfterWrite(prod.copy, prod.len).over - prod.copy.over
             /\ ~clash => /\ prod.copy.w = hdr.w /\ prod.copy.r <= hdr.r
                          /\ \/ hdr = prod.copy
                             \/ hdr.r + hdr.under > prod.copy.r + prod.copy.under
ChunkKnown == prod.pc \in {"wait", "load"} => prod.len # 0

\* The host's copy is the header in the file, or a chunk behind it.
ReaderView ==
  Reading => /\ Len(host.got) <= Lesser(Period, Avail(host.copy))
             /\ ~clash => /\ prod.pc # "open"
                          /\ hdr = host.copy \/ host.copy.w < hdr.w
Opening == ~clash => /\ prod.pc = "open" => hdr = NoHeader
                     /\ prod.pc = "fill" => hdr.w = hdr.r

Count == ~clash => next = Len(played) + lost + 1 + (IF prod.pc = "open" THEN 0 ELSE Avail(hdr))

\* A header is lost already, or will be when the producer stores its own.
Doomed == clash \/ (Dropping /\ hdr # prod.copy)

PlayedOrder ==
  \A i \in DOMAIN played :
    /\ 0 < played[i] /\ played[i] < next
    /\ \A j \in DOMAIN played : i < j => played[i] < played[j]

\* The cursors whose rows are queued and not yet overwritten.
Queued(p) == /\ hdr.r <= p /\ p < hdr.w
             /\ Writing => prod.copy.w + prod.row <= p + Capacity
QueueOrder ==
  \A p \in Nat : Queued(p) =>
    /\ 0 < Row(p) /\ Row(p) < next
    /\ \A i \in DOMAIN played : played[i] < Row(p)
    /\ \A q \in Nat : Queued(q) /\ p < q => Row(p) < Row(q)

Written ==
  Writing => \A i \in Nat : i < prod.row =>
               Row(prod.copy.w + i) = next + (prod.len - Kept(prod.len)) + i
Gotten ==
  Reading /\ hdr = host.copy /\ ~Dropping =>
    \A j \in 1 .. Len(host.got) : host.got[j] = Row(host.copy.r + j - 1)

Order == ~Doomed => /\ PlayedOrder
                    /\ prod.pc # "open" => QueueOrder
                    /\ Written /\ Gotten

Views == WriterView /\ ChunkKnown /\ ReaderView /\ Opening
SInv == HInv /\ Views /\ Count /\ Order

-----------------------------------------------------------------------------
(* Types, and the views of the two copies.                                 *)

LEMMA Facts ==
  ASSUME HInv
  PROVE  /\ hdr \in HeaderType \/ (hdr = NoHeader /\ prod.pc = "open")
         /\ hdr \in HeaderType => ValidHeader(hdr)
         /\ prod \in ProdType /\ prod.copy \in HeaderType /\ ValidHeader(prod.copy)
         /\ prod.len \in Nat /\ prod.row \in Nat /\ prod.drop \in Nat
         /\ host \in HostType /\ host.copy \in HeaderType /\ ValidHeader(host.copy)
         /\ host.got \in Seq(Nat) /\ played \in Seq(Nat)
         /\ next \in Nat \ {0} /\ lost \in Nat /\ restarts \in Nat
         /\ data \in [Rows -> Nat] /\ clash \in BOOLEAN
         /\ mode = "local" => prod.pc = "idle" /\ host.pc = "gone"
  BY HeaderIsSome DEF HInv, HeaderSound, TypeOK, ProdType, HostType, LocalOnly

LEMMA HeaderNats ==
  ASSUME NEW h \in HeaderType, ValidHeader(h)
  PROVE  /\ h.w \in Nat /\ h.r \in Nat /\ h.under \in Nat /\ h.over \in Nat
         /\ Avail(h) \in 0 .. Capacity /\ h.w = h.r + Avail(h) /\ Capacity \in Nat \ {0}
  BY LiveRingAssumption DEF HeaderType, ValidHeader, Avail

\* The parts of Writes and Reads that are cited below.
LEMMA WrittenCursor ==
  ASSUME NEW h \in HeaderType, ValidHeader(h), NEW n \in Nat
  PROVE  AfterWrite(h, n).w = h.w + Kept(n)
<1> DEFINE g == AfterWrite(h, n)
<1>1. g = AfterWrite(h, n)
  OBVIOUS
<1> HIDE DEF g
<1> QED BY <1>1, Writes

LEMMA PeriodRead ==
  ASSUME NEW h \in HeaderType, ValidHeader(h)
  PROVE  Lesser(Period, Avail(h)) \in Nat /\ Lesser(Period, Avail(h)) <= Avail(h)
<1>1. Period \in Nat /\ Avail(h) \in Nat
  BY HeaderNats, LiveRingAssumption
<1> QED BY <1>1 DEF Lesser

LEMMA PeriodMoves ==
  ASSUME NEW h \in HeaderType, ValidHeader(h)
  PROVE  /\ AfterRead(h, Period) \in HeaderType
         /\ AfterRead(h, Period).w = h.w
         /\ AfterRead(h, Period).r = h.r + Lesser(Period, Avail(h))
         /\ AfterRead(h, Period).r >= h.r
         /\ AfterRead(h, Period).r + AfterRead(h, Period).under > h.r + h.under
<1> DEFINE m == Lesser(Period, Avail(h))
           g == AfterRead(h, Period)
<1>1. Period \in Nat \ {0}
  BY LiveRingAssumption
<1>2. m \in Nat /\ m <= Period
  BY <1>1, PeriodRead, HeaderNats DEF Lesser
<1>3. g = AfterRead(h, Period)
  OBVIOUS
<1>4. g.under = h.under + (Period - m)
  BY DEF AfterRead, HeaderType
<1> HIDE DEF g, m
<1>5. g \in HeaderType /\ g.w = h.w /\ g.r = h.r + m
  BY <1>1, <1>3, Reads DEF m
<1>6. h.r \in Nat /\ h.under \in Nat
  BY DEF HeaderType
<1>7. g.r >= h.r /\ g.r + g.under > h.r + h.under
  BY <1>1, <1>2, <1>4, <1>5, <1>6
<1> QED BY <1>3, <1>5, <1>7 DEF m

LEMMA PeriodAvail ==
  ASSUME NEW h \in HeaderType, ValidHeader(h)
  PROVE  /\ Avail(AfterRead(h, Period)) = Avail(h) - Lesser(Period, Avail(h))
         /\ Lesser(Period, Avail(h)) \in Nat
<1> DEFINE g == AfterRead(h, Period)
<1>1. g = AfterRead(h, Period) /\ Period \in Nat
  BY LiveRingAssumption
<1> HIDE DEF g
<1> QED BY <1>1, Reads

LEMMA SInit == Init => SInv
<1> SUFFICES ASSUME Init PROVE SInv
  OBVIOUS
<1>1. HInv
  BY HInit
<1>2. prod.pc = "idle" /\ host.pc # "rows" /\ clash = FALSE /\ hdr = FreshHeader
      /\ next = 1 /\ lost = 0 /\ played = <<>>
  BY DEF Init, Idle
<1>3. Avail(hdr) = 0 /\ hdr.w = hdr.r /\ hdr \in HeaderType
  BY <1>2, FreshValid DEF FreshHeader
<1>4. Views
  BY <1>2, <1>3 DEF Views, WriterView, ChunkKnown, ReaderView, Opening, Writing, Reading
<1>5. Count
  BY <1>2, <1>3 DEF Count
<1>6. Order
  <2>1. \A q \in Nat : ~Queued(q)
    BY <1>3 DEF Queued, HeaderType
  <2>2. QueueOrder
    BY <2>1 DEF QueueOrder
  <2>3. PlayedOrder
    BY <1>2 DEF PlayedOrder
  <2> QED BY <1>2, <2>2, <2>3 DEF Order, Written, Gotten, Writing, Reading
<1> QED BY <1>1, <1>4, <1>5, <1>6 DEF SInv

LEMMA VStep ==
  ASSUME HInv, Views, [Next]_vars
  PROVE  Views'
<1> USE DEF Writing, Reading
<1>0. /\ WriterView /\ ChunkKnown /\ ReaderView /\ Opening
  BY DEF Views
<1>1. SUFFICES WriterView' /\ ChunkKnown' /\ ReaderView' /\ Opening'
  BY DEF Views
<1>2. CASE UNCHANGED vars
  BY <1>0, <1>2 DEF vars, WriterView, ChunkKnown, ReaderView, Opening, AfterWrite, Avail, Kept
<1>3. ASSUME NEW n \in Sizes, WriteBegin(n) PROVE WriterView' /\ ChunkKnown' /\ ReaderView' /\ Opening'
  <2>1. /\ prod'.pc \in {"load", "wait"} /\ prod'.len # 0 /\ prod.pc = "idle"
        /\ UNCHANGED <<hdr, host, clash>>
    BY <1>3, Facts, LiveRingAssumption DEF WriteBegin, ProdType
  <2> QED BY <1>0, <2>1 DEF WriterView, ChunkKnown, ReaderView, Opening, Avail
<1>4. CASE PaceReady \/ PaceTimeout
  <2>1. prod'.pc = "load" /\ prod'.len = prod.len /\ prod.pc = "wait" /\ UNCHANGED <<hdr, host, clash>>
    BY <1>4, Facts DEF PaceReady, PaceTimeout, ProdType
  <2> QED BY <1>0, <2>1 DEF WriterView, ChunkKnown, ReaderView, Opening, Avail
<1>5. CASE PaceStopped
  <2>1. prod'.pc = "idle" /\ UNCHANGED <<hdr, host, clash>>
    BY <1>5, IdleType DEF PaceStopped
  <2> QED BY <1>0, <2>1 DEF WriterView, ChunkKnown, ReaderView, Opening, Avail
<1>6. CASE WriteLoad
  <2>1. /\ prod.pc = "load" /\ prod'.pc = "rows" /\ prod'.len = prod.len /\ prod'.copy = hdr /\ prod'.row = 0
        /\ prod'.drop = AfterWrite(hdr, prod.len).over - hdr.over /\ UNCHANGED <<hdr, host, clash>>
    BY <1>6, Facts DEF WriteLoad, ProdType
  <2>2. hdr.r \in Nat /\ Kept(prod.len) \in Nat
    BY <2>1, Facts, KeptType DEF HeaderType
  <2>3. WriterView'
    BY <1>0, <2>1, <2>2 DEF WriterView, ChunkKnown, AfterWrite, Avail, Kept
  <2> QED BY <1>0, <2>1, <2>3 DEF ChunkKnown, ReaderView, Opening, Avail
<1>7. CASE WriteRow
  <2>1. /\ prod.pc = "rows" /\ prod'.pc = "rows" /\ prod'.len = prod.len /\ prod'.copy = prod.copy
        /\ prod'.row = prod.row + 1 /\ prod.row < Kept(prod.len) /\ prod'.drop = prod.drop
        /\ UNCHANGED <<hdr, host, clash>>
    BY <1>7, Facts DEF WriteRow, ProdType
  <2>2. prod.row + 1 <= Kept(prod.len)
    <3>1. prod.row \in Nat /\ prod.len \in Nat
      BY Facts
    <3> QED BY <2>1, <3>1, KeptType
  <2>3. WriterView'
    BY <1>0, <2>1, <2>2 DEF WriterView, AfterWrite, Avail, Kept
  <2> QED BY <1>0, <2>1, <2>3 DEF ChunkKnown, ReaderView, Opening, Avail
<1>8. CASE WriteStore
  <2>1. /\ prod.pc = "rows" /\ prod'.pc = "idle" /\ hdr' = AfterWrite(prod.copy, prod.len)
        /\ clash' = (clash \/ hdr # prod.copy) /\ host' = host
    BY <1>8, IdleType DEF WriteStore
  <2>2. ASSUME Reading, ~clash' PROVE host.copy.w < hdr'.w
    <3>1. hdr = prod.copy /\ (hdr = host.copy \/ host.copy.w < hdr.w)
      BY <1>0, <2>1, <2>2 DEF ReaderView
    <3>2. prod.copy.w \in Nat /\ host.copy.w \in Nat /\ Kept(prod.len) \in Nat \ {0}
      BY <1>0, <2>1, Facts, KeptType DEF HeaderType, WriterView
    <3>3. hdr'.w = prod.copy.w + Kept(prod.len)
      <4>1. prod.copy \in HeaderType /\ ValidHeader(prod.copy) /\ prod.len \in Nat
        BY Facts
      <4> QED BY <2>1, <4>1, WrittenCursor
    <3> QED BY <3>1, <3>2, <3>3
  <2> QED BY <1>0, <2>1, <2>2 DEF WriterView, ChunkKnown, ReaderView, Opening, Avail
<1>9. CASE OpenHeader
  <2>1. prod.pc = "open" /\ prod'.pc = "fill" /\ hdr' = FreshHeader /\ UNCHANGED <<host, clash>>
    BY <1>9, Facts DEF OpenHeader, ProdType
  <2> QED BY <1>0, <2>1 DEF WriterView, ChunkKnown, ReaderView, Opening, FreshHeader, Avail
<1>10. CASE OpenFill
  <2>1. prod'.pc = "idle" /\ UNCHANGED <<hdr, host, clash>>
    BY <1>10, IdleType DEF OpenFill
  <2> QED BY <1>0, <2>1 DEF WriterView, ChunkKnown, ReaderView, Opening, Avail
<1>11. CASE Local
  <2>1. prod.pc = "idle" /\ host.pc = "gone" /\ UNCHANGED <<prod, host, clash>>
    BY <1>11, Facts DEF Local, LocalWrite, LocalRead, LocalReset
  <2> QED BY <1>0, <2>1 DEF WriterView, ChunkKnown, ReaderView, Opening
<1>12. CASE Stop
  BY <1>0, <1>12 DEF Stop, WriterView, ChunkKnown, ReaderView, Opening, AfterWrite, Avail, Kept
<1>13. CASE Restart
  <2>1. /\ prod'.pc = "open" /\ host' = host /\ hdr' = NoHeader
        /\ clash' = (clash \/ host.pc = "rows" \/ (prod.pc = "rows" /\ prod.drop > 0))
    BY <1>13, IdleType DEF Restart
  <2> QED BY <1>0, <2>1 DEF WriterView, ChunkKnown, ReaderView, Opening, Avail
<1>14. CASE HostStart \/ HostExit
  <2>1. host'.pc \in {"idle", "gone"} /\ UNCHANGED <<hdr, prod, clash>>
    BY <1>14, Facts DEF HostStart, HostExit, HostType
  <2> QED BY <1>0, <2>1 DEF WriterView, ChunkKnown, ReaderView, Opening, AfterWrite, Avail, Kept
<1>15. CASE HostLoad
  <2>1. /\ host' = [pc |-> "rows", copy |-> hdr, got |-> <<>>] /\ ValidHeader(hdr)
        /\ UNCHANGED <<hdr, prod, clash>>
    BY <1>15 DEF HostLoad
  <2>2. hdr \in HeaderType /\ Lesser(Period, Avail(hdr)) \in Nat
    BY <2>1, Facts, PeriodRead DEF ValidHeader
  <2>3. ~clash => prod.pc # "open"
    BY <1>0, <2>1 DEF Opening, ValidHeader
  <2> QED BY <1>0, <2>1, <2>2, <2>3 DEF WriterView, ChunkKnown, ReaderView, Opening, AfterWrite, Avail, Kept
<1>16. CASE HostRow
  <2>1. /\ host.pc = "rows" /\ host'.pc = "rows" /\ host'.copy = host.copy
        /\ host'.got = Append(host.got, data[Slot(host.copy.r + Len(host.got))])
        /\ Len(host.got) < Lesser(Period, Avail(host.copy)) /\ UNCHANGED <<hdr, prod, clash>>
    BY <1>16, Facts DEF HostRow, HostType
  <2>2. Lesser(Period, Avail(host.copy)) \in Nat /\ Len(host.got) \in Nat /\ Len(host'.got) = Len(host.got) + 1
    <3>1. Lesser(Period, Avail(host.copy)) \in Nat
      BY Facts, PeriodRead
    <3>2. data[Slot(host.copy.r + Len(host.got))] \in Nat /\ host.got \in Seq(Nat)
      <4>1. host.got \in Seq(Nat) /\ host.copy.r \in Nat /\ data \in [Rows -> Nat]
        BY Facts DEF HeaderType
      <4>2. host.copy.r + Len(host.got) \in Nat
        BY <4>1
      <4>3. Slot(host.copy.r + Len(host.got)) \in Rows
        BY <4>2, SlotType
      <4> QED BY <4>1, <4>3
    <3> QED BY <2>1, <3>1, <3>2
  <2>3. Lesser(Period, Avail(host'.copy)) = Lesser(Period, Avail(host.copy))
    BY <2>1 DEF Avail
  <2> QED BY <1>0, <2>1, <2>2, <2>3 DEF WriterView, ChunkKnown, ReaderView, Opening, AfterWrite, Avail, Kept
<1>17. CASE HostStore
  <2>1. /\ host.pc = "rows" /\ host'.pc = "idle" /\ hdr' = AfterRead(host.copy, Period)
        /\ clash' = (clash \/ hdr # host.copy) /\ prod' = prod
    BY <1>17 DEF HostStore
  <2>2. prod.pc = "rows" /\ ~clash' => /\ hdr'.w = hdr.w /\ hdr'.r >= hdr.r
                                        /\ hdr'.r + hdr'.under > hdr.r + hdr.under
    <3> SUFFICES ASSUME prod.pc = "rows", ~clash' PROVE hdr'.w = hdr.w /\ hdr'.r >= hdr.r
                                        /\ hdr'.r + hdr'.under > hdr.r + hdr.under
      OBVIOUS
    <3>1. hdr = host.copy /\ hdr \in HeaderType /\ ValidHeader(hdr)
      BY <2>1, Facts
    <3> QED BY <2>1, <3>1, PeriodMoves
  <2>3. ~clash' => prod.pc # "open" /\ (prod.pc = "fill" => hdr'.w = hdr'.r)
    <3> SUFFICES ASSUME ~clash' PROVE prod.pc # "open" /\ (prod.pc = "fill" => hdr'.w = hdr'.r)
      OBVIOUS
    <3>1. hdr = host.copy /\ hdr \in HeaderType /\ ValidHeader(hdr) /\ ~clash
      BY <2>1, Facts
    <3>2. prod.pc # "open"
      BY <1>0, <2>1, <3>1 DEF ReaderView
    <3>3. ASSUME prod.pc = "fill" PROVE hdr'.w = hdr'.r
      <4>1. hdr.w = hdr.r
        BY <1>0, <3>1, <3>3 DEF Opening
      <4>2. Lesser(Period, Avail(hdr)) = 0 /\ hdr.r \in Nat
        BY <3>1, <4>1, PeriodRead, HeaderNats DEF Avail
      <4> QED BY <2>1, <3>1, <4>1, <4>2, PeriodMoves
    <3> QED BY <3>2, <3>3
  <2>4. WriterView'
    <3>1. prod.pc = "rows" /\ ~clash' => /\ hdr.w \in Nat /\ hdr.r \in Nat /\ hdr.under \in Nat
                                          /\ prod.copy.r \in Nat /\ prod.copy.under \in Nat
      BY <2>1, Facts DEF HeaderType
    <3>2. prod.pc = "rows" /\ ~clash' =>
            /\ prod.copy.w = hdr.w /\ prod.copy.r <= hdr.r
            /\ hdr.r + hdr.under >= prod.copy.r + prod.copy.under
      <4> SUFFICES ASSUME prod.pc = "rows", ~clash'
                   PROVE  /\ prod.copy.w = hdr.w /\ prod.copy.r <= hdr.r
                          /\ hdr.r + hdr.under >= prod.copy.r + prod.copy.under
        OBVIOUS
      <4>1. ~clash
        BY <2>1
      <4>2. /\ prod.copy.w = hdr.w /\ prod.copy.r <= hdr.r
            /\ hdr = prod.copy \/ hdr.r + hdr.under > prod.copy.r + prod.copy.under
        BY <1>0, <4>1 DEF WriterView
      <4>3. hdr = prod.copy => hdr.r = prod.copy.r /\ hdr.under = prod.copy.under
        OBVIOUS
      <4> QED BY <3>1, <4>2, <4>3
    <3>3. prod.pc = "rows" /\ ~clash' => hdr'.r \in Nat /\ hdr'.under \in Nat
      BY <2>1, Facts, PeriodMoves DEF HeaderType
    <3>4. prod.pc = "rows" /\ ~clash' =>
            /\ prod.copy.w = hdr'.w /\ prod.copy.r <= hdr'.r
            /\ hdr'.r + hdr'.under > prod.copy.r + prod.copy.under
      BY <2>2, <3>1, <3>2, <3>3
    <3> QED BY <1>0, <2>1, <3>4 DEF WriterView, AfterWrite, Avail, Kept
  <2> QED BY <1>0, <2>1, <2>3, <2>4 DEF ChunkKnown, ReaderView, Opening
<1> QED BY <1>2, <1>3, <1>4, <1>5, <1>6, <1>7, <1>8, <1>9, <1>10, <1>11, <1>12, <1>13, <1>14, <1>15, <1>16, <1>17
        DEF Next, Producer, Host

-----------------------------------------------------------------------------
(* Every frame is somewhere.                                               *)

LEMMA WrittenAvail ==
  ASSUME NEW h \in HeaderType, ValidHeader(h), NEW n \in Nat, NEW d, d = AfterWrite(h, n).over - h.over
  PROVE  /\ d \in Nat /\ Avail(AfterWrite(h, n)) = Avail(h) + Kept(n) - d
         /\ AfterWrite(h, n).r = h.r + d
         /\ n - Kept(n) \in Nat /\ Kept(n) \in Nat /\ Avail(h) \in Nat
<1> DEFINE g == AfterWrite(h, n)
<1>1. g = AfterWrite(h, n)
  OBVIOUS
<1>2. Kept(n) \in Nat /\ n - Kept(n) \in Nat /\ Avail(h) \in Nat
  BY KeptType, HeaderNats
<1> HIDE DEF g
<1>3. d \in Nat /\ Avail(g) = Avail(h) + Kept(n) - d /\ g.r = h.r + d
  BY <1>1, Writes
<1> QED BY <1>1, <1>2, <1>3

\* A write of n frames moves both sides of the count by n.
LEMMA WriteCounts ==
  ASSUME NEW h \in HeaderType, ValidHeader(h), NEW n \in Nat,
         NEW x \in Nat, NEW p \in Nat, NEW l \in Nat, x = p + l + 1 + Avail(h)
  PROVE  x + n = p + (l + (AfterWrite(h, n).over - h.over) + (n - Kept(n))) + 1 + Avail(AfterWrite(h, n))
<1> DEFINE d == AfterWrite(h, n).over - h.over
           a == Avail(h)
           b == Avail(AfterWrite(h, n))
           k == Kept(n)
<1>1. d \in Nat /\ b = a + k - d /\ k \in Nat /\ a \in Nat
  <2>1. d = AfterWrite(h, n).over - h.over
    OBVIOUS
  <2> HIDE DEF d
  <2> QED BY <2>1, WrittenAvail
<1>2. x = p + l + 1 + a
  OBVIOUS
<1> HIDE DEF a, b, d, k
<1>3. x + n = p + (l + d + (n - k)) + 1 + b
  BY <1>1, <1>2
<1> QED BY <1>3 DEF a, b, d, k

LEMMA WriteMoves ==
  ASSUME NEW h \in HeaderType, ValidHeader(h), NEW n \in Nat
  PROVE  h.r <= AfterWrite(h, n).r
<1> DEFINE g == AfterWrite(h, n)
           d == g.over - h.over
<1>1. g = AfterWrite(h, n) /\ h.r \in Nat
  BY DEF HeaderType
<1> HIDE DEF g
<1>2. d \in Nat /\ g.r = h.r + d
  BY <1>1, Writes
<1> HIDE DEF d
<1>3. h.r <= g.r
  BY <1>1, <1>2
<1> QED BY <1>1, <1>3

LEMMA CStep ==
  ASSUME HInv, Views, Count, [Next]_vars
  PROVE  Count'
<1>0. WriterView /\ ReaderView /\ Opening
  BY DEF Views
<1>1. /\ next \in Nat /\ lost \in Nat /\ Len(played) \in Nat /\ prod.len \in Nat /\ clash \in BOOLEAN
      /\ prod.pc # "open" => hdr \in HeaderType /\ ValidHeader(hdr) /\ Avail(hdr) \in Nat
  <2>1. prod.pc # "open" => hdr \in HeaderType /\ ValidHeader(hdr)
    BY Facts
  <2>2. played \in Seq(Nat) /\ next \in Nat /\ lost \in Nat /\ prod.len \in Nat /\ clash \in BOOLEAN
    BY Facts
  <2> QED BY <2>1, <2>2, HeaderNats
\* A step that moves no frame.
<1>2. ASSUME UNCHANGED <<hdr, next, lost, played, clash>>, prod'.pc = "open" <=> prod.pc = "open"
      PROVE  Count'
  BY <1>2 DEF Count, Avail
<1>3. CASE UNCHANGED vars
  BY <1>2, <1>3 DEF vars
<1>4. ASSUME NEW n \in Sizes, WriteBegin(n) PROVE Count'
  <2>1. prod'.pc \in {"load", "wait"} /\ prod.pc = "idle" /\ UNCHANGED <<hdr, next, lost, played, clash>>
    BY <1>4, Facts DEF WriteBegin, ProdType
  <2> QED BY <1>2, <2>1
<1>5. CASE PaceReady \/ PaceTimeout \/ WriteLoad \/ WriteRow
  <2>1. prod'.pc # "open" /\ prod.pc # "open" /\ UNCHANGED <<hdr, next, lost, played, clash>>
    BY <1>5, Facts DEF PaceReady, PaceTimeout, WriteLoad, WriteRow, ProdType
  <2> QED BY <1>2, <2>1
<1>6. CASE PaceStopped
  <2>1. /\ prod.pc = "wait" /\ prod'.pc = "idle" /\ UNCHANGED <<hdr, played, clash>>
        /\ next' = next + prod.len /\ lost' = lost + prod.len
    BY <1>6, IdleType DEF PaceStopped
  <2>2. Avail(hdr') = Avail(hdr) /\ Avail(hdr) \in Nat /\ Len(played') = Len(played)
    BY <1>1, <2>1
  <2>3. ~clash' => next = Len(played) + lost + 1 + Avail(hdr)
    BY <2>1 DEF Count
  <2>4. ~clash' => next + prod.len = Len(played) + (lost + prod.len) + 1 + Avail(hdr)
    <3>1. next \in Nat /\ lost \in Nat /\ Len(played) \in Nat /\ prod.len \in Nat /\ Avail(hdr) \in Nat
      BY <1>1, <2>2
    <3> QED BY ONLY <2>3, <3>1
  <2> QED BY <2>1, <2>2, <2>4 DEF Count
<1>7. CASE WriteStore
  <2>1. /\ prod.pc = "rows" /\ prod'.pc = "idle" /\ hdr' = AfterWrite(prod.copy, prod.len)
        /\ clash' = (clash \/ hdr # prod.copy) /\ played' = played
        /\ next' = next + prod.len /\ lost' = lost + prod.drop + (prod.len - Kept(prod.len))
    BY <1>7, IdleType DEF WriteStore
  <2>2. SUFFICES ASSUME ~clash' PROVE next' = Len(played') + lost' + 1 + Avail(hdr')
    BY <2>1 DEF Count
  <2>3. hdr = prod.copy /\ next = Len(played) + lost + 1 + Avail(prod.copy)
    BY <2>1, <2>2 DEF Count
  <2>4. /\ prod.drop = AfterWrite(prod.copy, prod.len).over - prod.copy.over
        /\ prod.copy \in HeaderType /\ ValidHeader(prod.copy)
    BY <1>0, <2>1, Facts DEF WriterView, Writing
  <2>5. next + prod.len = Len(played) + (lost + prod.drop + (prod.len - Kept(prod.len))) + 1
                          + Avail(AfterWrite(prod.copy, prod.len))
    <3>1. next \in Nat /\ lost \in Nat /\ Len(played) \in Nat /\ prod.len \in Nat
      BY <1>1
    <3> DEFINE c == prod.copy
               n == prod.len
    <3>2. c \in HeaderType /\ ValidHeader(c) /\ n \in Nat /\ next = Len(played) + lost + 1 + Avail(c)
      BY <2>3, <2>4, <3>1
    <3> HIDE DEF c, n
    <3>3. next + n = Len(played) + (lost + (AfterWrite(c, n).over - c.over) + (n - Kept(n))) + 1
                     + Avail(AfterWrite(c, n))
      BY <3>1, <3>2, WriteCounts
    <3> QED BY ONLY <2>4, <3>3 DEF c, n
  <2> QED BY <2>1, <2>5
<1>8. CASE OpenHeader
  <2>1. /\ prod.pc = "open" /\ prod'.pc = "fill" /\ hdr' = FreshHeader /\ Avail(hdr') = 0
        /\ UNCHANGED <<next, lost, played, clash>>
    BY <1>8, Facts, FreshValid DEF OpenHeader, ProdType
  <2> QED BY <1>1, <2>1 DEF Count
<1>9. CASE OpenFill
  <2>1. prod.pc = "fill" /\ prod'.pc = "idle" /\ UNCHANGED <<hdr, next, lost, played, clash>>
    BY <1>9, IdleType DEF OpenFill
  <2> QED BY <1>2, <2>1
<1>10. ASSUME NEW n \in Sizes, LocalWrite(n) PROVE Count'
  <2>1. /\ prod.pc = "idle" /\ prod' = prod /\ UNCHANGED <<played, clash>> /\ n \in Nat
        /\ hdr' = AfterWrite(hdr, n) /\ next' = next + n
        /\ lost' = lost + (hdr'.over - hdr.over) + (n - Kept(n))
    BY <1>10, Facts, LiveRingAssumption DEF LocalWrite
  <2>2. ~clash => next + n = Len(played) + (lost + (AfterWrite(hdr, n).over - hdr.over) + (n - Kept(n))) + 1
                             + Avail(AfterWrite(hdr, n))
    <3>1. next \in Nat /\ lost \in Nat /\ Len(played) \in Nat /\ hdr \in HeaderType /\ ValidHeader(hdr)
      BY <1>1, <2>1
    <3>2. ~clash => next = Len(played) + lost + 1 + Avail(hdr)
      BY <2>1 DEF Count
    <3> QED BY <2>1, <3>1, <3>2, WriteCounts
  <2> QED BY <2>1, <2>2 DEF Count
<1>11. CASE LocalRead(Period)
  <2>1. /\ prod.pc = "idle" /\ prod' = prod /\ UNCHANGED <<next, lost, clash>>
        /\ hdr' = AfterRead(hdr, Period) /\ played' = played \o ReadRows(hdr, Period)
    BY <1>11, Facts DEF LocalRead
  <2> DEFINE m == Lesser(Period, Avail(hdr))
  <2>2. ReadRows(hdr, Period) \in Seq(Nat) /\ Len(ReadRows(hdr, Period)) = m
    BY <1>1, <2>1, Facts, ReadRowsType, LiveRingAssumption
  <2>3. Len(played') = Len(played) + m
    <3>1. played \in Seq(Nat)
      BY Facts
    <3> QED BY <2>1, <2>2, <3>1, ConcatProperties
  <2>4. Avail(hdr') = Avail(hdr) - m /\ m \in Nat
    BY <1>1, <2>1, PeriodAvail
  <2> HIDE DEF m
  <2> QED BY <1>1, <2>1, <2>3, <2>4 DEF Count
<1>12. CASE LocalReset
  <2>1. /\ prod.pc = "idle" /\ prod' = prod /\ UNCHANGED <<played, next, clash>>
        /\ hdr' = FreshHeader /\ Avail(hdr') = 0 /\ lost' = lost + Avail(hdr)
    BY <1>12, Facts, FreshValid DEF LocalReset
  <2> QED BY <1>1, <2>1 DEF Count
<1>13. CASE Stop
  BY <1>2, <1>13 DEF Stop
<1>14. CASE Restart
  <2>1. /\ prod.pc # "open" /\ prod'.pc = "open" /\ played' = played
        /\ lost' = lost + Avail(hdr) + (IF prod.pc = "rows" THEN prod.len ELSE 0)
        /\ next' = next + (IF prod.pc = "rows" THEN prod.len ELSE 0)
        /\ clash' = (clash \/ host.pc = "rows" \/ (prod.pc = "rows" /\ prod.drop > 0))
    BY <1>14, IdleType DEF Restart
  <2> DEFINE d == IF prod.pc = "rows" THEN prod.len ELSE 0
             a == Avail(hdr)
             n == Len(played)
  <2>2. d \in Nat /\ a \in Nat /\ n \in Nat /\ lost \in Nat /\ next \in Nat
    BY <1>1, <2>1
  <2>3. ~clash' => next = n + lost + 1 + a
    BY <2>1 DEF Count
  <2>4. next' = next + d /\ lost' = lost + a + d /\ n' = n
    BY <2>1
  <2> HIDE DEF d, a
  <2>5. ~clash' => next' = n' + lost' + 1
    <3> HIDE DEF n
    <3> QED BY ONLY <2>2, <2>3, <2>4
  <2> QED BY <2>1, <2>5 DEF Count
<1>15. CASE HostStart \/ HostExit \/ HostLoad \/ HostRow
  BY <1>2, <1>15 DEF HostStart, HostExit, HostLoad, HostRow
<1>16. CASE HostStore
  <2>1. /\ host.pc = "rows" /\ prod' = prod /\ UNCHANGED <<next, lost>>
        /\ hdr' = AfterRead(host.copy, Period) /\ clash' = (clash \/ hdr # host.copy)
        /\ played' = played \o host.got /\ Len(host.got) = Lesser(Period, Avail(host.copy))
    BY <1>16 DEF HostStore
  <2>2. SUFFICES ASSUME ~clash' PROVE prod.pc # "open" /\ next = Len(played') + lost + 1 + Avail(hdr')
    BY <2>1 DEF Count
  <2>3. hdr = host.copy /\ prod.pc # "open" /\ next = Len(played) + lost + 1 + Avail(hdr)
    BY <1>0, <2>1, <2>2 DEF Count, ReaderView, Reading
  <2> DEFINE m == Lesser(Period, Avail(hdr))
  <2>4. Len(played') = Len(played) + m
    <3>1. played \in Seq(Nat) /\ host.got \in Seq(Nat)
      BY Facts
    <3> QED BY <2>1, <2>3, <3>1
  <2>5. Avail(hdr') = Avail(hdr) - m /\ m \in Nat
    BY <1>1, <2>1, <2>3, PeriodAvail
  <2> HIDE DEF m
  <2> QED BY <1>1, <2>3, <2>4, <2>5
<1> QED BY <1>3, <1>4, <1>5, <1>6, <1>7, <1>8, <1>9, <1>10, <1>11, <1>12, <1>13, <1>14, <1>15, <1>16
        DEF Next, Producer, Local, Host

-----------------------------------------------------------------------------
(* The order of what is played, queued, written and copied.                *)

\* The rows a writer that drops nothing stores are free ones.
LEMMA Room ==
  ASSUME HInv, WriterView, Writing, ~clash, ~Dropping
  PROVE  /\ prod.copy.w = hdr.w /\ prod.copy.w + Kept(prod.len) <= hdr.r + Capacity
         /\ prod.row <= Kept(prod.len) /\ hdr.w \in Nat /\ hdr.r \in Nat
<1> DEFINE c == prod.copy
           k == Kept(prod.len)
<1>1. /\ c \in HeaderType /\ ValidHeader(c) /\ prod.len \in Nat /\ prod.drop \in Nat
      /\ hdr \in HeaderType
  BY Facts DEF Writing
<1>2. /\ c.w = hdr.w /\ c.r <= hdr.r /\ prod.row <= k
      /\ prod.drop = AfterWrite(c, prod.len).over - c.over
  BY DEF WriterView
<1>3. prod.drop = 0
  BY <1>1 DEF Dropping
<1>4. Free(c) >= k
  <2> DEFINE g == AfterWrite(c, prod.len)
  <2>1. g = AfterWrite(c, prod.len) /\ g.over - c.over = 0
    BY <1>2, <1>3
  <2> HIDE DEF g, c, k
  <2> QED BY <1>1, <2>1, Writes DEF k
<1>5. c.w \in Nat /\ c.r \in Nat /\ hdr.w \in Nat /\ hdr.r \in Nat /\ k \in Nat /\ Capacity \in Nat
  BY <1>1, KeptType, LiveRingAssumption DEF HeaderType
<1>6. Capacity - (c.w - c.r) >= k
  BY <1>4 DEF Free, Avail
<1> HIDE DEF c, k
<1>7. c.w + k <= hdr.r + Capacity
  BY <1>2, <1>5, <1>6
<1> QED BY <1>2, <1>5, <1>7 DEF c, k

LEMMA WholeQueue ==
  ASSUME HInv, WriterView, ~clash, ~Dropping, NEW p \in Nat, hdr.r <= p, p < hdr.w
  PROVE  Queued(p)
<1>1. CASE Writing
  <2>1. /\ prod.copy.w + Kept(prod.len) <= hdr.r + Capacity /\ prod.row <= Kept(prod.len)
        /\ hdr.r \in Nat /\ prod.copy.w \in Nat /\ prod.row \in Nat /\ Kept(prod.len) \in Nat /\ Capacity \in Nat
    BY <1>1, Room, Facts, KeptType, LiveRingAssumption
  <2>2. prod.copy.w + prod.row <= p + Capacity
    BY <2>1
  <2> QED BY <2>2 DEF Queued
<1> QED BY <1>1 DEF Queued

LEMMA PlayedKept ==
  ASSUME PlayedOrder, played \in Seq(Nat), played' = played, next \in Nat, next' \in Nat, next <= next'
  PROVE  PlayedOrder'
<1>1. \A i \in DOMAIN played : played[i] \in Nat
  OBVIOUS
<1> QED BY <1>1 DEF PlayedOrder

LEMMA RowType ==
  ASSUME HInv, NEW p \in Nat
  PROVE  Row(p) \in Nat
<1>1. data \in [Rows -> Nat] /\ Slot(p) \in Rows
  BY Facts, SlotType
<1> QED BY <1>1 DEF Row

LEMMA QueueKept ==
  ASSUME HInv, QueueOrder, played' = played, next \in Nat, next' \in Nat, next <= next',
         \A p \in Nat : Queued(p)' => Queued(p) /\ Row(p)' = Row(p)
  PROVE  QueueOrder'
<1> SUFFICES ASSUME NEW p \in Nat, Queued(p)'
             PROVE  /\ 0 < Row(p)' /\ Row(p)' < next'
                    /\ \A i \in DOMAIN played : played[i] < Row(p)'
                    /\ \A q \in Nat : Queued(q)' /\ p < q => Row(p)' < Row(q)'
  BY Zenon DEF QueueOrder
<1>1. Queued(p) /\ Row(p)' = Row(p) /\ Row(p) \in Nat
  BY RowType
<1>2. 0 < Row(p) /\ Row(p) < next /\ (\A i \in DOMAIN played : played[i] < Row(p))
  BY <1>1 DEF QueueOrder
<1>3. Row(p) < next'
  BY <1>1, <1>2
<1>4. ASSUME NEW q \in Nat, Queued(q)', p < q PROVE Row(p)' < Row(q)'
  <2>1. Queued(q) /\ Row(q)' = Row(q)
    BY <1>4
  <2>2. Row(p) < Row(q)
    BY <1>1, <1>4, <2>1 DEF QueueOrder
  <2> QED BY <1>1, <2>1, <2>2
<1> QED BY <1>1, <1>2, <1>3, <1>4

LEMMA EmptyQueue ==
  ASSUME hdr'.w = hdr'.r, hdr'.r \in Nat
  PROVE  QueueOrder'
<1>1. \A p \in Nat : ~Queued(p)'
  BY DEF Queued
<1> QED BY <1>1 DEF QueueOrder

\* Reading a period moves the head of the queue behind what is played.
LEMMA ReadOrder ==
  ASSUME HInv, WriterView, ~clash, ~Dropping, PlayedOrder, QueueOrder,
         hdr \in HeaderType, ValidHeader(hdr),
         NEW s \in Seq(Nat), Len(s) = Lesser(Period, Avail(hdr)),
         \A j \in 1 .. Len(s) : s[j] = Row(hdr.r + j - 1),
         hdr' = AfterRead(hdr, Period), played' = played \o s, UNCHANGED <<data, prod, next>>
  PROVE  PlayedOrder' /\ QueueOrder'
<1> DEFINE L == Len(played)
           m == Len(s)
<1>1. /\ L \in Nat /\ m \in Nat /\ hdr.r \in Nat /\ hdr.w \in Nat /\ hdr.r + m <= hdr.w
      /\ played \in Seq(Nat) /\ next \in Nat
  <2>1. played \in Seq(Nat) /\ next \in Nat
    BY Facts
  <2>2. hdr.r \in Nat /\ hdr.w \in Nat /\ hdr.w = hdr.r + Avail(hdr) /\ Avail(hdr) \in Nat
    BY HeaderNats
  <2>3. m <= Avail(hdr)
    BY PeriodRead
  <2> QED BY <2>1, <2>2, <2>3
<1>2. hdr'.w = hdr.w /\ hdr'.r = hdr.r + m
  BY PeriodMoves
<1>3. /\ DOMAIN played' = 1 .. L + m /\ DOMAIN played = 1 .. L
      /\ \A i \in 1 .. L + m : played'[i] = IF i <= L THEN played[i] ELSE s[i - L]
  <2>1. played \in Seq(Nat) /\ s \in Seq(Nat) /\ played' = played \o s
    BY <1>1
  <2>2. /\ played' \in Seq(Nat) /\ Len(played') = L + m
        /\ \A i \in 1 .. L + m : played'[i] = IF i <= L THEN played[i] ELSE s[i - L]
    BY ONLY <2>1, ConcatProperties, SMTT(30)
  <2> QED BY ONLY <2>1, <2>2
<1>4. \A p \in Nat : hdr.r <= p /\ p < hdr.w => Queued(p)
  BY WholeQueue
\* The i-th frame played is an old one or a row of the head of the queue.
<1>5. ASSUME NEW i \in 1 .. L + m
      PROVE  \/ i \in DOMAIN played /\ played'[i] = played[i]
             \/ /\ i > L /\ hdr.r + (i - L) - 1 \in Nat /\ Queued(hdr.r + (i - L) - 1)
                /\ hdr.r + (i - L) - 1 < hdr'.r
                /\ played'[i] = Row(hdr.r + (i - L) - 1)
  <2>1. CASE i <= L
    BY <1>1, <1>3, <2>1
  <2>2. CASE i > L
    <3>1. i - L \in 1 .. m /\ played'[i] = s[i - L]
      <4>1. L \in Nat /\ m \in Nat
        BY <1>1
      <4>2. played'[i] = IF i <= L THEN played[i] ELSE s[i - L]
        BY <1>3
      <4> HIDE DEF L, m
      <4>3. i - L \in 1 .. m /\ ~(i <= L)
        BY ONLY <2>2, <4>1, i \in 1 .. L + m
      <4> QED BY ONLY <4>2, <4>3
    <3>2. s[i - L] = Row(hdr.r + (i - L) - 1)
      BY <3>1
    <3> DEFINE p == hdr.r + (i - L) - 1
    <3>3. p \in Nat /\ hdr.r <= p /\ p < hdr.r + m
      <4> DEFINE j == i - L
      <4>1. j \in Nat /\ 1 <= j /\ j <= m /\ p = hdr.r + j - 1
        BY <1>1, <3>1
      <4>2. hdr.r \in Nat /\ m \in Nat
        BY <1>1
      <4> HIDE DEF j, m, p
      <4> QED BY ONLY <4>1, <4>2
    <3>4. p < hdr.w /\ p < hdr'.r
      BY <1>1, <1>2, <3>3
    <3> HIDE DEF p
    <3>5. Queued(p)
      BY <1>4, <3>3, <3>4
    <3>6. played'[i] = Row(p)
      BY <3>1, <3>2 DEF p
    <3>7. i > L /\ p \in Nat /\ Queued(p) /\ p < hdr'.r /\ played'[i] = Row(p)
      BY <2>2, <3>3, <3>4, <3>5, <3>6
    <3>8. /\ i > L /\ hdr.r + (i - L) - 1 \in Nat /\ Queued(hdr.r + (i - L) - 1)
          /\ hdr.r + (i - L) - 1 < hdr'.r
          /\ played'[i] = Row(hdr.r + (i - L) - 1)
      BY ONLY <3>7, SMTT(30) DEF p
    <3> QED BY ONLY <3>8, SMTT(30)
  <2> QED BY <1>1, <2>1, <2>2
<1>6. \A p \in Nat : Queued(p)' => Queued(p) /\ Row(p)' = Row(p) /\ hdr'.r <= p
  <2> SUFFICES ASSUME NEW p \in Nat, Queued(p)' PROVE Queued(p) /\ Row(p)' = Row(p) /\ hdr'.r <= p
    OBVIOUS
  <2>1. hdr'.r <= p /\ p < hdr.w
    BY <1>2 DEF Queued
  <2>2. hdr.r <= p
    BY <1>1, <1>2, <2>1
  <2> QED BY <1>4, <2>1, <2>2 DEF Row
<1> HIDE DEF L, m
<1>7. PlayedOrder'
  <2>1. ASSUME NEW i \in 1 .. L + m
        PROVE  0 < played'[i] /\ played'[i] < next
    BY <1>5, <2>1 DEF PlayedOrder, QueueOrder
  <2>2. ASSUME NEW i \in 1 .. L + m, NEW j \in 1 .. L + m, i < j
        PROVE  played'[i] < played'[j]
    <3>1. CASE i \in DOMAIN played /\ played'[i] = played[i]
      <4>1. CASE j \in DOMAIN played /\ played'[j] = played[j]
        BY <2>2, <3>1, <4>1 DEF PlayedOrder
      <4> QED BY <1>5, <3>1, <4>1 DEF QueueOrder
    <3>2. CASE i > L
      <4> DEFINE p == hdr.r + (i - L) - 1
                 q == hdr.r + (j - L) - 1
      <4>1. j > L /\ p < q
        BY <1>1, <2>2, <3>2
      <4>2. ~(j \in DOMAIN played) /\ ~(i \in DOMAIN played)
        BY <1>1, <1>3, <3>2, <4>1
      <4>3. p \in Nat /\ q \in Nat /\ Queued(p) /\ Queued(q) /\ played'[i] = Row(p) /\ played'[j] = Row(q)
        BY <1>5, <4>2
      <4> HIDE DEF p, q
      <4> QED BY <4>1, <4>3 DEF QueueOrder
    <3> QED BY <1>5, <3>1, <3>2
  <2> QED BY <1>3, <2>1, <2>2 DEF PlayedOrder
<1>8. QueueOrder'
  <2> SUFFICES ASSUME NEW p \in Nat, Queued(p)'
               PROVE  /\ 0 < Row(p)' /\ Row(p)' < next'
                      /\ \A i \in DOMAIN played' : played'[i] < Row(p)'
                      /\ \A q \in Nat : Queued(q)' /\ p < q => Row(p)' < Row(q)'
    BY Zenon DEF QueueOrder
  <2>1. Queued(p) /\ Row(p)' = Row(p) /\ hdr'.r <= p
    BY <1>6
  <2>2. 0 < Row(p) /\ Row(p) < next' /\ (\A i \in DOMAIN played : played[i] < Row(p))
    BY <2>1 DEF QueueOrder
  <2>3. ASSUME NEW i \in 1 .. L + m PROVE played'[i] < Row(p)
    <3>1. CASE i \in DOMAIN played /\ played'[i] = played[i]
      BY <2>2, <3>1
    <3>2. CASE i > L
      <4> DEFINE o == hdr.r + (i - L) - 1
      <4>1. ~(i \in DOMAIN played)
        BY <1>1, <1>3, <3>2
      <4>2. o \in Nat /\ Queued(o) /\ o < hdr'.r /\ played'[i] = Row(o)
        BY <1>5, <4>1
      <4> HIDE DEF o
      <4>3. o < p
        <5>1. hdr'.r <= p /\ hdr'.r \in Nat
          BY <1>1, <1>2, <2>1
        <5> QED BY ONLY <4>2, <5>1, p \in Nat
      <4> QED BY <2>1, <4>2, <4>3 DEF QueueOrder
    <3> QED BY <1>5, <3>1, <3>2
  <2>4. ASSUME NEW q \in Nat, Queued(q)', p < q PROVE Row(p)' < Row(q)'
    <3>1. Queued(q) /\ Row(q)' = Row(q)
      BY <1>6, <2>4
    <3> QED BY <2>1, <2>4, <3>1 DEF QueueOrder
  <2> QED BY <1>3, <2>1, <2>2, <2>3, <2>4
<1> QED BY <1>7, <1>8

LEMMA OrderSame ==
  ASSUME Order, UNCHANGED <<hdr, data, prod, host, next, played, clash>>
  PROVE  Order'
BY DEF Order, Doomed, PlayedOrder, QueueOrder, Written, Gotten, Writing, Reading, Dropping, Queued, Row

\* The producer does something before it writes; the stream may lose a chunk.
LEMMA OrderQuiet ==
  ASSUME HInv, Order, UNCHANGED <<hdr, data, host, played, clash>>, ~Writing, prod'.pc # "rows",
         prod'.pc = "open" <=> prod.pc = "open", next' \in Nat, next <= next'
  PROVE  Order'
<1> SUFFICES ASSUME ~Doomed'
             PROVE  PlayedOrder' /\ (prod'.pc # "open" => QueueOrder') /\ Written' /\ Gotten'
  BY DEF Order
<1>1. ~Doomed /\ ~Dropping
  BY DEF Doomed, Dropping, Writing
<1>2. PlayedOrder /\ (prod.pc # "open" => QueueOrder) /\ Gotten
  BY <1>1 DEF Order
<1>3. next \in Nat /\ played \in Seq(Nat)
  BY Facts
<1>4. PlayedOrder'
  BY <1>2, <1>3, PlayedKept
<1>5. ASSUME prod'.pc # "open" PROVE QueueOrder'
  <2>1. \A p \in Nat : Queued(p)' => Queued(p) /\ Row(p)' = Row(p)
    BY DEF Queued, Row, Writing
  <2> QED BY <1>2, <1>3, <1>5, <2>1, QueueKept
<1>6. Written' /\ Gotten'
  BY <1>1, <1>2 DEF Written, Gotten, Writing, Reading, Row
<1> QED BY <1>4, <1>5, <1>6

\* A write puts its rows behind the queue, of which it may drop the head.
LEMMA WriteOrder ==
  ASSUME HInv, PlayedOrder, QueueOrder, hdr \in HeaderType, ValidHeader(hdr), NEW n \in Nat,
         hdr' = AfterWrite(hdr, n), played' = played, next' = next + n,
         \A p \in Nat : hdr'.r <= p /\ p < hdr.w => Queued(p) /\ data'[Slot(p)] = Row(p),
         \A i \in Nat : i < Kept(n) => data'[Slot(hdr.w + i)] = next + (n - Kept(n)) + i
  PROVE  PlayedOrder' /\ QueueOrder'
<1> DEFINE k == Kept(n)
           new == next + (n - k)
<1>1. /\ k \in Nat /\ k <= n /\ hdr.w \in Nat /\ hdr.r \in Nat /\ next \in Nat \ {0} /\ new \in Nat /\ next <= new
      /\ new + k = next' /\ next <= next' /\ next' \in Nat /\ played \in Seq(Nat) /\ hdr'.w = hdr.w + k
  <2>1. k \in Nat /\ k <= n /\ hdr.w \in Nat /\ hdr.r \in Nat /\ next \in Nat \ {0} /\ played \in Seq(Nat)
    BY Facts, KeptType, HeaderNats
  <2>2. hdr'.w = hdr.w + k
    BY WrittenCursor
  <2> HIDE DEF k
  <2> QED BY <2>1, <2>2
<1> HIDE DEF k
<1>2. PlayedOrder'
  BY <1>1, PlayedKept
\* A queued cursor is an old one, or the i-th of the chunk.
<1>3. ASSUME NEW p \in Nat, Queued(p)'
      PROVE  \/ p < hdr.w /\ Queued(p) /\ data'[Slot(p)] = Row(p)
             \/ p >= hdr.w /\ data'[Slot(p)] = new + (p - hdr.w) /\ p - hdr.w \in Nat /\ p - hdr.w < k
  <2>1. hdr'.r <= p /\ p < hdr.w + k
    BY <1>1, <1>3 DEF Queued
  <2>2. CASE p < hdr.w
    BY <2>1, <2>2
  <2>3. CASE p >= hdr.w
    <3> DEFINE i == p - hdr.w
    <3>1. i \in Nat /\ i < k /\ p = hdr.w + i
      BY <1>1, <2>1, <2>3
    <3> HIDE DEF i
    <3>2. data'[Slot(hdr.w + i)] = new + i
      BY <3>1 DEF k
    <3> QED BY <2>3, <3>1, <3>2 DEF i
  <2> QED BY <1>1, <2>2, <2>3
<1> HIDE DEF new
<1>4. QueueOrder'
  <2> SUFFICES ASSUME NEW p \in Nat, Queued(p)'
               PROVE  /\ 0 < data'[Slot(p)] /\ data'[Slot(p)] < next'
                      /\ \A i \in DOMAIN played : played[i] < data'[Slot(p)]
                      /\ \A q \in Nat : Queued(q)' /\ p < q => data'[Slot(p)] < data'[Slot(q)]
    BY DEF QueueOrder, Row
  <2>1. \A i \in DOMAIN played : played[i] \in Nat /\ played[i] < next
    BY <1>1 DEF PlayedOrder
  <2>2. CASE p < hdr.w /\ Queued(p) /\ data'[Slot(p)] = Row(p)
    <3>1. 0 < Row(p) /\ Row(p) < next /\ Row(p) \in Nat /\ (\A i \in DOMAIN played : played[i] < Row(p))
      BY <2>2, RowType DEF QueueOrder
    <3>2. ASSUME NEW q \in Nat, Queued(q)', p < q PROVE Row(p) < data'[Slot(q)]
      <4>1. CASE q < hdr.w /\ Queued(q) /\ data'[Slot(q)] = Row(q)
        BY <2>2, <3>2, <4>1 DEF QueueOrder
      <4>2. CASE q >= hdr.w /\ data'[Slot(q)] = new + (q - hdr.w) /\ q - hdr.w \in Nat
        <5> DEFINE t == q - hdr.w
        <5>1. t \in Nat /\ data'[Slot(q)] = new + t /\ Row(p) \in Nat /\ Row(p) < next
          BY <3>1, <4>2
        <5>2. new \in Nat /\ next \in Nat /\ next <= new
          BY <1>1
        <5> HIDE DEF t
        <5> QED BY ONLY <5>1, <5>2
      <4> QED BY <1>3, <3>2, <4>1, <4>2
    <3>3. Row(p) < next'
      BY <1>1, <3>1
    <3> QED BY <2>2, <3>1, <3>2, <3>3
  <2>3. CASE p >= hdr.w /\ data'[Slot(p)] = new + (p - hdr.w) /\ p - hdr.w \in Nat /\ p - hdr.w < k
    <3> DEFINE i == p - hdr.w
    <3>1. i \in Nat /\ i < k /\ data'[Slot(p)] = new + i
      BY <2>3
    <3>2. 0 < new + i /\ new + i < next' /\ next <= new + i
      <4> HIDE DEF i
      <4> QED BY ONLY <1>1, <3>1
    <3>3. \A j \in DOMAIN played : played[j] < new + i
      <4> HIDE DEF i
      <4> QED BY <1>1, <2>1, <3>1, <3>2
    <3>4. ASSUME NEW q \in Nat, Queued(q)', p < q PROVE new + i < data'[Slot(q)]
      <4>1. q >= hdr.w /\ ~(q < hdr.w)
        <5>1. hdr.w \in Nat /\ p >= hdr.w /\ p < q
          BY <1>1, <2>3, <3>4
        <5> QED BY ONLY <5>1, p \in Nat, q \in Nat
      <4>2. data'[Slot(q)] = new + (q - hdr.w)
        BY <1>3, <3>4, <4>1
      <4>3. i < q - hdr.w /\ q - hdr.w \in Nat
        BY <1>1, <3>4, <4>1
      <4> HIDE DEF i
      <4> QED BY <1>1, <3>1, <4>2, <4>3
    <3> HIDE DEF i
    <3> QED BY <3>1, <3>2, <3>3, <3>4
  <2> QED BY <1>3, <2>2, <2>3
<1> QED BY <1>2, <1>4

LEMMA OStep ==
  ASSUME HInv, Views, Order, [Next]_vars
  PROVE  Order'
<1>0. WriterView /\ ReaderView /\ Opening
  BY DEF Views
<1>f. /\ next \in Nat /\ played \in Seq(Nat) /\ prod.len \in Nat /\ prod.row \in Nat /\ prod.drop \in Nat
      /\ prod.pc # "open" => hdr \in HeaderType /\ ValidHeader(hdr)
      /\ data \in [Rows -> Nat] /\ clash \in BOOLEAN /\ host.got \in Seq(Nat)
  BY Facts
<1>1. CASE UNCHANGED vars \/ Stop
  BY <1>1, OrderSame DEF vars, Stop
<1>2. ASSUME NEW n \in Sizes, WriteBegin(n) PROVE Order'
  <2>1. /\ UNCHANGED <<hdr, data, host, played, clash, next>> /\ prod.pc = "idle" /\ prod'.pc \in {"load", "wait"}
    BY <1>2, Facts DEF WriteBegin, ProdType
  <2> QED BY <1>f, <2>1, OrderQuiet DEF Writing
<1>3. CASE PaceReady \/ PaceTimeout
  <2>1. /\ UNCHANGED <<hdr, data, host, played, clash, next>> /\ prod.pc = "wait" /\ prod'.pc = "load"
    BY <1>3, Facts DEF PaceReady, PaceTimeout, ProdType
  <2> QED BY <1>f, <2>1, OrderQuiet DEF Writing
<1>4. CASE PaceStopped
  <2>1. /\ UNCHANGED <<hdr, data, host, played, clash>> /\ prod.pc = "wait" /\ prod'.pc = "idle"
        /\ next' = next + prod.len
    BY <1>4, IdleType DEF PaceStopped
  <2>2. next' \in Nat /\ next <= next'
    BY <1>f, <2>1
  <2> QED BY <2>1, <2>2, OrderQuiet DEF Writing
<1>5. SUFFICES ASSUME ~Doomed'
               PROVE  PlayedOrder' /\ (prod'.pc # "open" => QueueOrder') /\ Written' /\ Gotten'
  BY DEF Order
<1>6. CASE WriteLoad
  <2>1. /\ prod.pc = "load" /\ prod'.pc = "rows" /\ prod'.copy = hdr /\ prod'.row = 0
        /\ UNCHANGED <<hdr, data, host, played, clash, next>>
    BY <1>6, Facts DEF WriteLoad, ProdType
  <2>2. ~Doomed /\ ~Dropping
    BY <1>5, <2>1 DEF Doomed, Dropping, Writing
  <2>3. PlayedOrder /\ QueueOrder /\ Gotten
    BY <2>1, <2>2 DEF Order
  <2>4. \A p \in Nat : Queued(p)' => Queued(p) /\ Row(p)' = Row(p)
    BY <2>1 DEF Queued, Row, Writing
  <2>5. Written' /\ Gotten'
    BY <2>1, <2>2, <2>3 DEF Written, Gotten, Writing, Reading, Row
  <2> QED BY <1>f, <2>1, <2>3, <2>4, <2>5, PlayedKept, QueueKept
<1>7. CASE WriteRow
  <2> DEFINE b == prod.copy.w + prod.row
             v == next + (prod.len - Kept(prod.len)) + prod.row
  <2>1. /\ prod.pc = "rows" /\ prod'.pc = "rows" /\ prod'.copy = prod.copy /\ prod'.len = prod.len
        /\ prod'.row = prod.row + 1 /\ prod'.drop = prod.drop
        /\ prod.row < Kept(prod.len) /\ data' = [data EXCEPT ![Slot(b)] = v]
        /\ UNCHANGED <<hdr, host, played, clash, next>>
    BY <1>7, Facts DEF WriteRow, ProdType, StoredRow
  <2>2. ~Doomed /\ ~clash /\ (Dropping <=> Dropping')
    BY <1>5, <2>1 DEF Doomed, Dropping, Writing
  <2>3. PlayedOrder /\ QueueOrder /\ Written /\ Gotten
    BY <2>1, <2>2 DEF Order
  <2>4. /\ b \in Nat /\ Slot(b) \in Rows /\ prod.copy.w = hdr.w /\ Kept(prod.len) <= Capacity
        /\ prod.copy.w \in Nat /\ Capacity \in Nat /\ Kept(prod.len) \in Nat
    <3>1. prod.copy.w \in Nat /\ prod.copy.w = hdr.w
      BY <1>0, <2>1, <2>2, Facts DEF WriterView, Writing, HeaderType
    <3>2. b \in Nat
      BY <1>f, <3>1
    <3> QED BY <1>f, <3>1, <3>2, SlotType, KeptType, LiveRingAssumption
  <2>5. ASSUME NEW p \in Nat, p < b, b < p + Capacity PROVE Row(p)' = Row(p)
    <3>1. Slot(p) # Slot(b) /\ Slot(p) \in Rows
      BY <2>4, <2>5, SlotDistinct, SlotType
    <3>2. data'[Slot(p)] = data[Slot(p)]
      BY <1>f, <2>1, <3>1
    <3> QED BY <3>2 DEF Row
  <2>6. data'[Slot(b)] = v
    BY <1>f, <2>1, <2>4
  <2>n. prod.row \in Nat /\ prod.row < Kept(prod.len)
    BY <1>f, <2>1
  <2> HIDE DEF v
  <2>7. QueueOrder'
    <3>1. ASSUME NEW p \in Nat, Queued(p)' PROVE Queued(p) /\ Row(p)' = Row(p)
      <4>1. hdr.r <= p /\ p < hdr.w /\ prod.copy.w + (prod.row + 1) <= p + Capacity
        BY <2>1, <3>1 DEF Queued, Writing
      <4>2. p < b /\ b < p + Capacity /\ prod.copy.w + prod.row <= p + Capacity
        BY ONLY <2>4, <2>n, <4>1, p \in Nat
      <4> QED BY <2>5, <4>1, <4>2 DEF Queued
    <3> QED BY <1>f, <2>1, <2>3, <3>1, QueueKept
  <2>8. Written'
    <3> SUFFICES ASSUME NEW i \in Nat, i < prod.row + 1
                 PROVE  data'[Slot(prod.copy.w + i)] = next + (prod.len - Kept(prod.len)) + i
      BY <2>1 DEF Written, Kept, Row
    <3>1. CASE i = prod.row
      BY <2>6, <3>1 DEF v
    <3>2. CASE i < prod.row
      <4> DEFINE a == prod.copy.w + i
      <4>1. a \in Nat /\ a < b /\ b < a + Capacity
        BY ONLY <2>4, <2>n, <3>2, i \in Nat
      <4>2. Row(a) = next + (prod.len - Kept(prod.len)) + i
        BY <2>1, <2>3, <3>2 DEF Written, Writing
      <4> HIDE DEF a, b
      <4>3. data'[Slot(a)] = data[Slot(a)]
        BY <2>5, <4>1 DEF Row
      <4> QED BY <4>2, <4>3 DEF Row, a
    <3> QED BY <2>n, <3>1, <3>2
  <2>9. Gotten'
    <3> SUFFICES ASSUME Reading, hdr = host.copy, ~Dropping, NEW j \in 1 .. Len(host.got)
                 PROVE  host.got[j] = data'[Slot(host.copy.r + j - 1)]
      BY <2>1, <2>2 DEF Gotten, Reading, Row
    <3> DEFINE a == host.copy.r + j - 1
    <3>1. host.got[j] = Row(a)
      BY <2>3 DEF Gotten
    <3>2. a \in Nat /\ hdr.r <= a /\ a < hdr.w
      <4>1. Len(host.got) <= Avail(hdr) /\ Avail(hdr) \in Nat /\ Len(host.got) \in Nat
            /\ hdr.r \in Nat /\ hdr.w \in Nat /\ hdr.w = hdr.r + Avail(hdr)
        <5>1. hdr \in HeaderType /\ ValidHeader(hdr)
          BY <1>f, <2>1
        <5>2. Len(host.got) <= Lesser(Period, Avail(hdr)) /\ Len(host.got) \in Nat
          BY <1>0, <1>f DEF ReaderView
        <5> QED BY <5>1, <5>2, PeriodRead, HeaderNats
      <4>2. j \in Nat /\ 1 <= j /\ j <= Len(host.got)
        BY <4>1
      <4> QED BY <4>1, <4>2
    <3>3. a < b /\ b < a + Capacity
      <4>1. prod.copy.w + Kept(prod.len) <= hdr.r + Capacity /\ hdr.r \in Nat /\ hdr.w \in Nat
        BY <1>0, <2>1, <2>2, Room DEF Writing
      <4> HIDE DEF a
      <4>2. a < b
        BY ONLY <2>4, <2>n, <3>2, <4>1
      <4>3. b < a + Capacity
        <5>1. prod.copy.w + prod.row < hdr.r + Capacity
          BY ONLY <2>4, <2>n, <4>1
        <5> QED BY ONLY <2>4, <2>n, <3>2, <4>1, <5>1
      <4> QED BY <4>2, <4>3
    <3> HIDE DEF a, b
    <3>5. data'[Slot(a)] = data[Slot(a)]
      BY <2>5, <3>2, <3>3 DEF Row
    <3> QED BY <3>1, <3>5 DEF Row, a
  <2> QED BY <1>f, <2>1, <2>3, <2>7, <2>8, <2>9, PlayedKept
<1>8. CASE WriteStore
  <2>1. /\ prod.pc = "rows" /\ prod'.pc = "idle" /\ hdr' = AfterWrite(prod.copy, prod.len)
        /\ clash' = (clash \/ hdr # prod.copy) /\ prod.row = Kept(prod.len)
        /\ next' = next + prod.len /\ UNCHANGED <<data, host, played>>
    BY <1>8, IdleType DEF WriteStore
  <2>2. ~clash /\ hdr = prod.copy /\ ~Doomed
    BY <1>5, <2>1 DEF Doomed
  <2>3. PlayedOrder /\ QueueOrder /\ Written
    BY <2>1, <2>2 DEF Order
  <2>4. /\ hdr' = AfterWrite(hdr, prod.len) /\ hdr \in HeaderType /\ ValidHeader(hdr)
    BY <1>f, <2>1, <2>2
  <2> DEFINE k == Kept(prod.len)
  <2>5. /\ hdr'.w = hdr.w + k /\ hdr'.w <= hdr'.r + Capacity /\ hdr.r <= hdr'.r
        /\ hdr.w \in Nat /\ hdr.r \in Nat /\ hdr'.r \in Nat /\ k \in Nat /\ Capacity \in Nat
    <3>1. hdr'.w = hdr.w + k
      BY <1>f, <2>4, WrittenCursor
    <3>2. hdr' \in HeaderType /\ ValidHeader(hdr')
      BY <1>f, <2>4, Writes
    <3>3. hdr.r <= hdr'.r
      BY <1>f, <2>4, WriteMoves
    <3>4. hdr'.w = hdr'.r + Avail(hdr') /\ Avail(hdr') \in 0 .. Capacity /\ hdr'.r \in Nat
      BY <3>2, HeaderNats
    <3>5. hdr.w \in Nat /\ hdr.r \in Nat /\ Capacity \in Nat /\ k \in Nat
      BY <1>f, <2>4, HeaderNats, KeptType
    <3> QED BY <3>1, <3>3, <3>4, <3>5
  <2>6. ASSUME NEW p \in Nat, hdr'.r <= p, p < hdr.w PROVE Queued(p) /\ data'[Slot(p)] = Row(p)
    <3>1. hdr.r <= p /\ hdr.w + k <= p + Capacity
      <4> HIDE DEF k
      <4> QED BY ONLY <2>5, <2>6, p \in Nat
    <3> QED BY <2>1, <2>2, <2>6, <3>1 DEF Queued, Row
  <2>7. ASSUME NEW i \in Nat, i < Kept(prod.len)
        PROVE  data'[Slot(hdr.w + i)] = next + (prod.len - Kept(prod.len)) + i
    BY <2>1, <2>2, <2>3, <2>7 DEF Written, Writing, Row
  <2>8. PlayedOrder' /\ QueueOrder'
    BY <1>f, <2>1, <2>3, <2>4, <2>6, <2>7, WriteOrder
  <2>9. Written'
    BY <2>1 DEF Written, Writing
  <2>10. Gotten'
    <3> SUFFICES ASSUME Reading, hdr' = host.copy PROVE FALSE
      BY <2>1 DEF Gotten, Reading
    <3>1. host.copy.w <= hdr.w /\ host.copy.w \in Nat
      <4>1. hdr = host.copy \/ host.copy.w < hdr.w
        BY <1>0, <2>2 DEF ReaderView
      <4>2. host.copy.w \in Nat
        BY Facts DEF HeaderType
      <4> QED BY <2>5, <4>1, <4>2
    <3>2. prod.len # 0
      BY <1>0, <2>1 DEF WriterView, Writing
    <3>3. k # 0
      BY <1>f, <3>2, KeptType
    <3> QED BY <2>5, <3>1, <3>3
  <2> QED BY <2>8, <2>9, <2>10
<1>9. CASE OpenHeader
  <2>1. /\ prod.pc = "open" /\ prod'.pc = "fill" /\ hdr' = FreshHeader
        /\ UNCHANGED <<data, host, played, clash, next>>
    BY <1>9, Facts DEF OpenHeader, ProdType
  <2>2. ~Doomed /\ ~clash
    BY <1>5, <2>1 DEF Doomed, Dropping, Writing
  <2>3. PlayedOrder'
    BY <1>f, <2>1, <2>2, PlayedKept DEF Order
  <2>4. QueueOrder'
    BY <2>1, EmptyQueue DEF FreshHeader
  <2>5. ~Reading
    BY <1>0, <2>1, <2>2 DEF ReaderView
  <2> QED BY <2>1, <2>3, <2>4, <2>5 DEF Written, Gotten, Writing, Reading
<1>10. CASE OpenFill
  <2>1. prod.pc = "fill" /\ prod'.pc = "idle" /\ UNCHANGED <<hdr, host, played, clash, next>>
    BY <1>10, IdleType DEF OpenFill
  <2>2. ~Doomed /\ ~clash
    BY <1>5, <2>1 DEF Doomed, Dropping, Writing
  <2>3. PlayedOrder'
    BY <1>f, <2>1, <2>2, PlayedKept DEF Order
  <2>4. hdr.w = hdr.r /\ hdr \in HeaderType /\ ValidHeader(hdr)
    BY <1>0, <1>f, <2>1, <2>2 DEF Opening
  <2>5. QueueOrder'
    BY <2>1, <2>4, EmptyQueue DEF HeaderType
  <2>6. Gotten'
    <3> SUFFICES ASSUME Reading, hdr = host.copy PROVE Len(host.got) = 0
      BY <2>1 DEF Gotten, Reading
    <3>1. Lesser(Period, Avail(hdr)) <= Avail(hdr) /\ Avail(hdr) = 0 /\ Lesser(Period, Avail(hdr)) \in Nat
      <4>1. Avail(hdr) = 0
        BY <2>4 DEF Avail, HeaderType
      <4> QED BY <2>4, <4>1, PeriodRead
    <3>2. Len(host.got) <= Lesser(Period, Avail(hdr)) /\ Len(host.got) \in Nat
      BY <1>0, <1>f DEF ReaderView
    <3> QED BY <3>1, <3>2
  <2> QED BY <2>1, <2>3, <2>5, <2>6 DEF Written, Writing
<1>11. ASSUME NEW n \in Sizes, LocalWrite(n) PROVE PlayedOrder' /\ (prod'.pc # "open" => QueueOrder') /\ Written' /\ Gotten'
  <2>1. /\ prod.pc = "idle" /\ host.pc = "gone" /\ hdr' = AfterWrite(hdr, n) /\ n \in Nat
        /\ data' = Overwritten(hdr, next, n) /\ next' = next + n /\ UNCHANGED <<prod, host, played, clash>>
    BY <1>11, Facts, LiveRingAssumption DEF LocalWrite
  <2>2. ~Doomed
    BY <1>5, <2>1 DEF Doomed, Dropping, Writing
  <2>3. PlayedOrder /\ QueueOrder /\ hdr \in HeaderType /\ ValidHeader(hdr)
    BY <1>f, <2>1, <2>2 DEF Order
  <2> DEFINE k == Kept(n)
  <2>4. /\ hdr'.w = hdr.w + k /\ hdr'.w <= hdr'.r + Capacity /\ hdr.r <= hdr'.r
        /\ hdr.w \in Nat /\ hdr.r \in Nat /\ hdr'.r \in Nat /\ k \in Nat /\ k <= Capacity /\ Capacity \in Nat
    <3>1. hdr'.w = hdr.w + k
      BY <2>1, <2>3, WrittenCursor
    <3>2. hdr' \in HeaderType /\ ValidHeader(hdr')
      BY <2>1, <2>3, Writes
    <3>3. hdr.r <= hdr'.r
      BY <2>1, <2>3, WriteMoves
    <3>4. hdr'.w = hdr'.r + Avail(hdr') /\ Avail(hdr') \in 0 .. Capacity /\ hdr'.r \in Nat
      BY <3>2, HeaderNats
    <3>5. hdr.w \in Nat /\ hdr.r \in Nat /\ Capacity \in Nat /\ k \in Nat /\ k <= Capacity
      BY <2>1, <2>3, HeaderNats, KeptType
    <3> QED BY <3>1, <3>3, <3>4, <3>5
  <2>5. ASSUME NEW p \in Nat, hdr'.r <= p, p < hdr.w PROVE Queued(p) /\ data'[Slot(p)] = Row(p)
    <3>1. hdr.r <= p
      <4> HIDE DEF k
      <4> QED BY ONLY <2>4, <2>5, p \in Nat
    <3>2. ASSUME NEW i \in 0 .. Kept(n) - 1 PROVE Slot(hdr.w + i) # Slot(p)
      <4>1. hdr.w + i \in Nat /\ p < hdr.w + i /\ hdr.w + i < p + Capacity
        <5>1. i \in Nat /\ i < k
          BY <2>4
        <5> HIDE DEF k
        <5> QED BY ONLY <2>4, <2>5, <5>1, p \in Nat
      <4> QED BY <4>1, SlotDistinct
    <3>3. data'[Slot(p)] = data[Slot(p)]
      BY <2>1, <3>2, SlotType DEF Overwritten
    <3> QED BY <2>1, <2>5, <3>1, <3>3 DEF Queued, Row, Writing
  <2>6. ASSUME NEW i \in Nat, i < Kept(n) PROVE data'[Slot(hdr.w + i)] = next + (n - Kept(n)) + i
    <3>1. i \in 0 .. Kept(n) - 1 /\ hdr.w + i \in Nat
      BY <2>4, <2>6
    <3>2. ASSUME NEW j \in 0 .. Kept(n) - 1, Slot(hdr.w + j) = Slot(hdr.w + i) PROVE j = i
      <4>1. hdr.w + j \in Nat /\ j \in Nat /\ j < k /\ i < k
        BY <2>4, <2>6
      <4>2. CASE j < i
        <5>1. hdr.w + j < hdr.w + i /\ hdr.w + i < (hdr.w + j) + Capacity
          <6> HIDE DEF k
          <6> QED BY ONLY <2>4, <4>1, <4>2, i \in Nat
        <5> QED BY <3>1, <3>2, <4>1, <5>1, SlotDistinct
      <4>3. CASE i < j
        <5>1. hdr.w + i < hdr.w + j /\ hdr.w + j < (hdr.w + i) + Capacity
          <6> HIDE DEF k
          <6> QED BY ONLY <2>4, <4>1, <4>3, i \in Nat
        <5> QED BY <3>1, <3>2, <4>1, <5>1, SlotDistinct
      <4> QED BY <4>1, <4>2, <4>3
    <3>3. (CHOOSE j \in 0 .. Kept(n) - 1 : Slot(hdr.w + j) = Slot(hdr.w + i)) = i
      BY <3>1, <3>2
    <3>4. Slot(hdr.w + i) \in Rows
      BY <3>1, SlotType
    <3> QED BY <2>1, <3>1, <3>3, <3>4 DEF Overwritten
  <2>7. PlayedOrder' /\ QueueOrder'
    BY <2>1, <2>3, <2>5, <2>6, WriteOrder
  <2> QED BY <2>1, <2>7 DEF Written, Gotten, Writing, Reading
<1>12. CASE LocalRead(Period)
  <2>1. /\ prod.pc = "idle" /\ host.pc = "gone" /\ UNCHANGED <<data, prod, host, next, clash>>
        /\ hdr' = AfterRead(hdr, Period) /\ played' = played \o ReadRows(hdr, Period)
    BY <1>12, Facts DEF LocalRead
  <2>2. ~Doomed /\ ~clash /\ ~Dropping
    BY <1>5, <2>1 DEF Doomed, Dropping, Writing
  <2>3. PlayedOrder /\ QueueOrder /\ hdr \in HeaderType /\ ValidHeader(hdr)
    BY <1>f, <2>1, <2>2 DEF Order
  <2> DEFINE s == ReadRows(hdr, Period)
             m == Lesser(Period, Avail(hdr))
  <2>4. s \in Seq(Nat) /\ Len(s) = m
    BY <1>f, <2>3, ReadRowsType, LiveRingAssumption
  <2>5. \A j \in 1 .. Len(s) : s[j] = Row(hdr.r + j - 1)
    <3>1. \A j \in 1 .. m : s[j] = Row(hdr.r + j - 1)
      BY DEF ReadRows, Row
    <3> QED BY <2>4, <3>1
  <2> HIDE DEF s
  <2>6. played' = played \o s
    BY <2>1 DEF s
  <2>7. PlayedOrder' /\ QueueOrder'
    BY <1>0, <2>1, <2>2, <2>3, <2>4, <2>5, <2>6, ReadOrder
  <2> QED BY <2>1, <2>7 DEF Written, Gotten, Writing, Reading
<1>13. CASE LocalReset
  <2>1. /\ prod.pc = "idle" /\ host.pc = "gone" /\ hdr' = FreshHeader
        /\ UNCHANGED <<prod, host, next, clash, played>>
    BY <1>13, Facts DEF LocalReset
  <2>2. ~Doomed
    BY <1>5, <2>1 DEF Doomed, Dropping, Writing
  <2>3. PlayedOrder'
    BY <1>f, <2>1, <2>2, PlayedKept DEF Order
  <2>4. QueueOrder'
    BY <2>1, EmptyQueue DEF FreshHeader
  <2> QED BY <2>1, <2>3, <2>4 DEF Written, Gotten, Writing, Reading
<1>14. CASE Restart
  <2>1. /\ prod'.pc = "open" /\ UNCHANGED <<host, played>>
        /\ next' = next + (IF prod.pc = "rows" THEN prod.len ELSE 0)
        /\ clash' = (clash \/ host.pc = "rows" \/ (prod.pc = "rows" /\ prod.drop > 0))
    BY <1>14, IdleType DEF Restart
  <2>2. ~Doomed /\ ~Reading
    BY <1>5, <2>1 DEF Doomed, Dropping, Writing, Reading
  <2>3. PlayedOrder'
    <3>1. next' \in Nat /\ next <= next'
      BY <1>f, <2>1
    <3> QED BY <1>f, <2>1, <2>2, <3>1, PlayedKept DEF Order
  <2> QED BY <2>1, <2>2, <2>3 DEF Written, Gotten, Writing, Reading
<1>15. CASE HostStart \/ HostExit
  <2>1. /\ UNCHANGED <<hdr, data, prod, next, played, clash>> /\ host'.pc # "rows"
    BY <1>15, Facts DEF HostStart, HostExit, HostType
  <2>2. ~Doomed
    BY <1>5, <2>1 DEF Doomed, Dropping, Writing
  <2> QED BY <2>1, <2>2 DEF Order, PlayedOrder, QueueOrder, Written, Gotten, Writing, Reading, Queued, Row
<1>16. CASE HostLoad
  <2>1. /\ UNCHANGED <<hdr, data, prod, next, played, clash>> /\ host'.got = <<>>
    BY <1>16 DEF HostLoad
  <2>2. ~Doomed
    BY <1>5, <2>1 DEF Doomed, Dropping, Writing
  <2> QED BY <2>1, <2>2 DEF Order, PlayedOrder, QueueOrder, Written, Gotten, Writing, Reading, Queued, Row
<1>17. CASE HostRow
  <2> DEFINE v == data[Slot(host.copy.r + Len(host.got))]
  <2>1. /\ UNCHANGED <<hdr, data, prod, next, played, clash>> /\ host.pc = "rows"
        /\ host'.copy = host.copy /\ host'.got = Append(host.got, v)
    BY <1>17, Facts DEF HostRow, HostType
  <2>2. ~Doomed
    BY <1>5, <2>1 DEF Doomed, Dropping, Writing
  <2>3. PlayedOrder' /\ (prod'.pc # "open" => QueueOrder') /\ Written'
    BY <2>1, <2>2 DEF Order, PlayedOrder, QueueOrder, Written, Writing, Queued, Row
  <2>4. Gotten'
    <3> SUFFICES ASSUME hdr = host.copy, ~Dropping, NEW j \in 1 .. Len(host.got) + 1
                 PROVE  Append(host.got, v)[j] = data[Slot(host.copy.r + j - 1)]
      BY <1>f, <2>1 DEF Gotten, Reading, Dropping, Writing, Row
    <3>1. CASE j = Len(host.got) + 1
      <4>1. Len(host.got) \in Nat /\ host.copy.r \in Nat
        <5>1. host.copy \in HeaderType
          BY Facts
        <5> QED BY <1>f, <5>1 DEF HeaderType
      <4>2. host.copy.r + j - 1 = host.copy.r + Len(host.got)
        BY <3>1, <4>1
      <4> HIDE DEF v
      <4>3. Append(host.got, v)[j] = v
        BY <1>f, <3>1
      <4> QED BY <4>2, <4>3 DEF v
    <3>2. CASE j \in 1 .. Len(host.got)
      <4>1. host.got[j] = Row(host.copy.r + j - 1)
        BY <2>1, <2>2, <3>2 DEF Order, Gotten, Reading
      <4> HIDE DEF v
      <4>2. Append(host.got, v)[j] = host.got[j]
        BY <1>f, <3>2
      <4> QED BY <4>1, <4>2 DEF Row
    <3> QED BY <1>f, <3>1, <3>2
  <2> QED BY <2>3, <2>4
<1>18. CASE HostStore
  <2>1. /\ host.pc = "rows" /\ host'.pc = "idle" /\ UNCHANGED <<data, prod, next>>
        /\ hdr' = AfterRead(host.copy, Period) /\ clash' = (clash \/ hdr # host.copy)
        /\ played' = played \o host.got /\ Len(host.got) = Lesser(Period, Avail(host.copy))
    BY <1>18 DEF HostStore
  <2>2. ~clash /\ hdr = host.copy /\ prod.pc # "open" /\ hdr \in HeaderType /\ ValidHeader(hdr)
    BY <1>0, <1>5, <1>f, <2>1 DEF Doomed, ReaderView, Reading
  <2>3. ~Dropping
    <3> SUFFICES ASSUME Dropping PROVE FALSE
      OBVIOUS
    <3>1. hdr' = prod.copy
      BY <1>5, <2>1 DEF Doomed, Dropping, Writing
    <3>2. hdr = prod.copy \/ hdr.r + hdr.under > prod.copy.r + prod.copy.under
      BY <1>0, <2>2 DEF WriterView, Dropping
    <3>3. hdr'.r + hdr'.under > hdr.r + hdr.under
      BY <2>1, <2>2, PeriodMoves
    <3>4. hdr.r \in Nat /\ hdr.under \in Nat /\ prod.copy.r \in Nat /\ prod.copy.under \in Nat
      BY <2>2, Facts DEF HeaderType
    <3> QED BY <3>1, <3>2, <3>3, <3>4
  <2>4. PlayedOrder /\ QueueOrder /\ Gotten /\ Written
    BY <2>2, <2>3 DEF Order, Doomed
  <2>5. PlayedOrder' /\ QueueOrder'
    <3>1. \A j \in 1 .. Len(host.got) : host.got[j] = Row(hdr.r + j - 1)
      BY <2>1, <2>2, <2>3, <2>4 DEF Gotten, Reading
    <3> QED BY <1>0, <1>f, <2>1, <2>2, <2>3, <2>4, <3>1, ReadOrder
  <2>6. Written' /\ Gotten'
    BY <2>1, <2>4 DEF Written, Gotten, Writing, Reading, Row
  <2> QED BY <2>5, <2>6
<1> DEFINE Goal == PlayedOrder' /\ (prod'.pc # "open" => QueueOrder') /\ Written' /\ Gotten'
<1>19. Order' => Goal
  BY <1>5 DEF Order
<1> HIDE DEF Goal
<1>20. Producer => Goal
  BY <1>2, <1>3, <1>4, <1>6, <1>7, <1>8, <1>9, <1>10, <1>19 DEF Producer, Goal
<1>21. Local \/ Restart => Goal
  BY <1>11, <1>12, <1>13, <1>14 DEF Local, Goal
<1>22. Host \/ HostExit => Goal
  BY <1>15, <1>16, <1>17, <1>18 DEF Host, Goal
<1> QED BY <1>1, <1>19, <1>20, <1>21, <1>22 DEF Next, Goal

\* What the run checks, from the strengthening.
LEMMA StreamFrom == ASSUME SInv PROVE StreamKept
<1>1. InOrder
  <2> SUFFICES ASSUME ~Torn, NEW i \in DOMAIN played
               PROVE  played[i] > IF i = 1 THEN 0 ELSE played[i - 1]
    BY DEF InOrder
  <2>1. PlayedOrder
    BY DEF SInv, Order, Doomed, Dropping, Writing, Torn
  <2>2. played \in Seq(Nat)
    BY Facts DEF SInv
  <2>3. played[i] \in Nat /\ i \in Nat /\ (i # 1 => i - 1 \in DOMAIN played /\ i - 1 < i /\ played[i - 1] \in Nat)
    BY <2>2
  <2> QED BY <2>1, <2>3 DEF PlayedOrder
<1>2. Accounted
  <2> SUFFICES ASSUME ~clash, prod.pc # "open" PROVE next - 1 = Len(played) + Avail(hdr) + lost
    BY DEF Accounted, Torn
  <2>1. next = Len(played) + lost + 1 + Avail(hdr)
    BY DEF SInv, Count
  <2>2. played \in Seq(Nat) /\ lost \in Nat /\ hdr \in HeaderType /\ ValidHeader(hdr)
    BY Facts DEF SInv
  <2>3. Len(played) \in Nat /\ Avail(hdr) \in Nat
    BY <2>2, HeaderNats
  <2> QED BY <2>1, <2>2, <2>3
<1> QED BY <1>1, <1>2 DEF StreamKept

\* Whatever the capacity, the period and the chunks: until a header is lost,
\* the host plays the frames in the order they were made, none twice and no
\* hole, and every frame made is played, queued or counted as lost.
THEOREM StreamIsKept == Spec => []StreamKept
<1>1. SInv /\ [Next]_vars => SInv'
  <2> SUFFICES ASSUME SInv, [Next]_vars PROVE SInv'
    OBVIOUS
  <2>1. HInv' /\ Views' /\ Count' /\ Order'
    BY HStep, VStep, CStep, OStep DEF SInv
  <2> QED BY <2>1 DEF SInv
<1>2. SInv => StreamKept
  BY StreamFrom
<1> QED BY <1>1, <1>2, SInit, PTL DEF Spec
===============================================================================
