---------------------------- MODULE ServicesProofs ----------------------------
(***************************************************************************)
(* RenderWorker for any threads, paths and requests: one render at a time, *)
(* and a manifest, or an answer of 200, only for files that are written.   *)
(* MidiDrums for any file, packets and limits: the take is what the file   *)
(* says, and the rows of tokens are what the take or the packets say.      *)
(***************************************************************************)
EXTENDS RenderWorker, MidiDrums, FiniteSetTheorems, SequenceTheorems, WellFoundedInduction, TLAPS

--------------------------------------------------------------------------------
(* The render worker.                                                      *)

PendingPcs == {"body", "validate", "lock"}
\* The bound of Post() holds later: every waiting request may get its number.
Bounded == renders + Cardinality(Pending) <= MaxRenders
\* A request on its way is one of Requests; the holder of the lock has the
\* number given last, and a thread that has not been the holder has none.
JobsKnown ==
  /\ lock # Nil => renders # 0
  /\ \A t \in Threads :
       /\ pc[t] \in PendingPcs \cup Locked => job[t].req \in Requests
       /\ pc[t] \in {"lock"} \cup Locked => OneSource(job[t].req)
       /\ job[t].id # 0 => job[t].req \in Requests
       /\ pc[t] \in Locked => job[t].id = renders
       /\ pc[t] \notin Locked \cup {"answer"} => job[t].id = 0
       /\ pc[t] = "answer" /\ lock # Nil => job[t].id < renders
Is(p, id, kind) == disk[p].id = id /\ disk[p].kind = kind
\* What the holder of the lock has written so far is still there.
WrittenSoFar ==
  \A t \in Threads :
    pc[t] \in {"render", "output", "manifest", "unlock"} /\ Apart(job[t].req) =>
      /\ Is(SavedAs[job[t].req.conditioning], renders, "npz")
      /\ pc[t] \in {"manifest", "unlock"} => Is(job[t].req.output, renders, "wav")
      /\ pc[t] = "unlock" => Is(job[t].req.manifest, renders, "manifest")
\* A manifest is of a request, and the one with the last number is written by a
\* render that writes no more.
ManifestsKnown ==
  \A p \in Paths : disk[p].kind = "manifest" =>
    /\ disk[p].req \in Requests
    /\ disk[p].id = renders => \A t \in Threads : pc[t] \notin Locked \ {"unlock"}
\* What is read is older than any render.
SourcesKnown ==
  \A p \in Paths :
    /\ disk[p].kind \in Sources => disk[p].id = 0
    /\ disk[p].kind \in {"packets", "bundle"} => disk[p].frames \in Nat

Files == WrittenSoFar /\ ManifestsKnown /\ SourcesKnown
WorkerInv ==
  WorkerTypeOK /\ Bounded /\ OneRender /\ JobsKnown /\ Files /\ ManifestOfOneRender /\ OkMeansWritten

--------------------------------------------------------------------------------
(* What steps are made of.                                                 *)

LEMMA RequestShape ==
  ASSUME NEW req \in Requests
  PROVE  /\ req.output \in Paths /\ req.manifest \in Paths
         /\ SavedAs[req.conditioning] \in Paths
         /\ req.packets \in Paths \cup {Nil} /\ req.bundle \in Paths \cup {Nil}
         /\ req.limit \in Nat
  BY RequestAssumption

LEMMA ContentShape ==
  ASSUME NEW id, NEW x
  PROVE  /\ Partial(id).id = id /\ Partial(id).kind = "partial"
         /\ Npz(id, x).id = id /\ Npz(id, x).kind = "npz"
         /\ Wav(id, x).id = id /\ Wav(id, x).kind = "wav"
         /\ Manifest(id, x).id = id /\ Manifest(id, x).kind = "manifest" /\ Manifest(id, x).req = x
         /\ Absent.id = 0 /\ Absent.kind = "absent"
  BY DEF Partial, Npz, Wav, Manifest, Absent

\* What changes of a handler that answers: its place and its status.
LEMMA Responded ==
  ASSUME WorkerTypeOK, NEW t \in Threads, NEW status \in Nat, Respond(t, status)
  PROVE  /\ pc' = [pc EXCEPT ![t] = "answer"]
         /\ \A u \in Threads : job'[u].req = job[u].req /\ job'[u].id = job[u].id
         /\ job'[t].status = status
         /\ \A u \in Threads \ {t} : job'[u] = job[u]
         /\ job' \in [Threads -> [req : Requests \cup {NoBody}, id : 0 .. renders, frames : Nat, status : Nat]]
  BY DEF WorkerTypeOK, Respond, Goto

LEMMA StatusNumber ==
  ASSUME NEW req
  PROVE  Readable(req) \in Nat /\ Writable(req) \in Nat
  BY DEF Readable, Writable

LEMMA FirstFaultNumber ==
  ASSUME NEW checks \in [1 .. 8 -> Nat]
  PROVE  FirstFault(checks) \in Nat /\ (FirstFault(checks) = 200 => \A i \in 1 .. 8 : checks[i] = 200)
<1> DEFINE Fault(i) == checks[i] # 200 /\ \A j \in 1 .. i - 1 : checks[j] = 200
<1>1. CASE \A i \in DOMAIN checks : checks[i] = 200
  BY <1>1 DEF FirstFault
<1>2. CASE ~ \A i \in DOMAIN checks : checks[i] = 200
  <2>1. \E i \in 1 .. 8 : Fault(i)
    BY <1>2
  <2>2. (CHOOSE i \in DOMAIN checks : Fault(i)) \in 1 .. 8 /\ Fault(CHOOSE i \in DOMAIN checks : Fault(i))
    BY <2>1
  <2> QED BY <1>2, <2>2 DEF FirstFault
<1> QED BY <1>1, <1>2

LEMMA FromJsonNumber ==
  ASSUME NEW req
  PROVE  FromJson(req) \in Nat /\ (FromJson(req) = 200 => OneSource(req))
<1>1. /\ Readable(req.packets) \in Nat /\ Readable(req.bundle) \in Nat /\ Readable(req.atoms) \in Nat
      /\ Writable(req.output) \in Nat /\ Writable(req.manifest) \in Nat /\ Writable(req.conditioning) \in Nat
  BY StatusNumber
<1> DEFINE checks == <<IF req.prompt /\ OneSource(req) THEN 200 ELSE 400,
                       Readable(req.packets), Readable(req.bundle), Readable(req.atoms),
                       Writable(req.output), Writable(req.manifest), Writable(req.conditioning),
                       IF req.numbers THEN 200 ELSE 400>>
<1>2. checks \in [1 .. 8 -> Nat] /\ (checks[1] = 200 => OneSource(req))
  BY <1>1
<1>3. FromJson(req) = FirstFault(checks)
  BY DEF FromJson
<1> HIDE DEF checks
<1> QED BY <1>2, <1>3, FirstFaultNumber

--------------------------------------------------------------------------------
(* Types, the lock and the bound.                                          *)

PcsTyped == pc \in [Threads -> {"idle", "health", "body", "validate", "lock", "answer"} \cup Locked]
JobsTyped == job \in [Threads -> [req : Requests \cup {NoBody}, id : 0 .. renders, frames : Nat, status : Nat]]
DiskTyped == DOMAIN disk = Paths /\ \A p \in Paths : disk[p].id \in 0 .. renders
OpenTyped == open \in [Threads -> BOOLEAN] /\ \A t \in Threads : open[t] => pc[t] \in Writes

LEMMA PendingFinite == IsFiniteSet(Pending) /\ Cardinality(Pending) \in Nat
<1>1. Pending \subseteq Threads
  BY DEF Pending
<1> QED BY <1>1, RequestAssumption, FS_Subset, FS_CardinalityType

LEMMA PendingGrows ==
  ASSUME NEW t
  PROVE  Cardinality(Pending \cup {t}) <= Cardinality(Pending) + 1 /\ Cardinality(Pending \cup {t}) \in Nat
<1>1. /\ IsFiniteSet(Pending \cup {t})
      /\ Cardinality(Pending \cup {t}) = IF t \in Pending THEN Cardinality(Pending) ELSE Cardinality(Pending) + 1
  BY PendingFinite, FS_AddElement
<1> QED BY <1>1, PendingFinite

\* A step that makes no thread pending keeps the bound.
LEMMA BoundedKept ==
  ASSUME WorkerTypeOK, Bounded, Pending' \subseteq Pending, renders' = renders
  PROVE  Bounded'
<1>1. Cardinality(Pending') <= Cardinality(Pending) /\ Cardinality(Pending') \in Nat
  BY PendingFinite, FS_Subset, FS_CardinalityType
<1> QED BY <1>1, PendingFinite, RequestAssumption DEF Bounded, WorkerTypeOK

Types ==
  up \in BOOLEAN /\ lock \in Threads \cup {Nil} /\ renders \in Nat /\ PcsTyped /\ JobsTyped /\ DiskTyped /\ OpenTyped

\* A step that ends in an answer, and closes the file at hand if there is one.
LEMMA AnswerTyped ==
  ASSUME WorkerTypeOK, NEW t \in Threads, NEW status \in Nat, Respond(t, status),
         UNCHANGED <<up, disk, renders>>, lock' \in Threads \cup {Nil},
         open' = open \/ open' = [open EXCEPT ![t] = FALSE], ~open'[t]
  PROVE  Types'
<1>1. PcsTyped' /\ JobsTyped'
  BY Responded DEF PcsTyped, JobsTyped, WorkerTypeOK
<1>2. OpenTyped'
  BY Responded DEF OpenTyped, WorkerTypeOK
<1>3. DiskTyped' /\ renders' \in Nat /\ up' \in BOOLEAN
  BY RequestAssumption DEF DiskTyped, WorkerTypeOK
<1> QED BY <1>1, <1>2, <1>3 DEF Types

LEMMA AnsweringTyped ==
  ASSUME WorkerTypeOK, NEW t \in Threads
  PROVE  OtherPath(t) \/ Health(t) \/ Raise(t) \/ Release(t) => Types'
<1>0. lock \in Threads \cup {Nil} /\ open \in [Threads -> BOOLEAN] /\ \A u \in Threads : open[u] => pc[u] \in Writes
  BY DEF WorkerTypeOK
<1>1. CASE OtherPath(t)
  <2>1. ~open[t]
    BY <1>0, <1>1 DEF OtherPath, Writes
  <2> QED BY <1>0, <1>1, <2>1, AnswerTyped, 404 \in Nat DEF OtherPath
<1>2. CASE Health(t)
  <2>1. ~open[t]
    BY <1>0, <1>2 DEF Health, Writes
  <2> QED BY <1>0, <1>2, <2>1, AnswerTyped, 200 \in Nat DEF Health
<1>3. CASE Raise(t)
  <2>1. ~open'[t]
    BY <1>0, <1>3 DEF Raise
  <2> QED BY <1>0, <1>3, <2>1, AnswerTyped, 500 \in Nat DEF Raise
<1>4. CASE Release(t)
  <2>1. ~open[t]
    BY <1>0, <1>4 DEF Release, Writes
  <2> QED BY <1>0, <1>4, <2>1, AnswerTyped, 200 \in Nat DEF Release
<1> QED BY <1>1, <1>2, <1>3, <1>4

LEMMA WithdrawTyped ==
  ASSUME WorkerTypeOK, NEW p \in Paths, Withdraw(p)
  PROVE  Types'
<1>1. disk' = [disk EXCEPT ![p] = Absent] /\ Absent.id = 0 /\ renders \in Nat
  BY ContentShape, RequestAssumption DEF Withdraw, WorkerTypeOK
<1>2. DiskTyped'
  BY <1>1 DEF DiskTyped, WorkerTypeOK, Withdraw
<1>3. PcsTyped' /\ JobsTyped' /\ OpenTyped'
  BY DEF PcsTyped, JobsTyped, OpenTyped, WorkerTypeOK, Withdraw
<1> QED BY <1>1, <1>2, <1>3 DEF Types, WorkerTypeOK, Withdraw

LEMMA TypeStep ==
  ASSUME WorkerTypeOK, SourcesKnown, JobsKnown, WorkerNext \/ UNCHANGED workerVars
  PROVE  Types'
<1> USE DEF Types, PcsTyped, JobsTyped, DiskTyped, OpenTyped
<1>0. /\ renders \in Nat /\ Nil \notin Threads
      /\ Types
  BY RequestAssumption DEF WorkerTypeOK
<1>1. CASE UNCHANGED workerVars
  BY <1>0, <1>1 DEF workerVars
<1>2. CASE Boot
  BY <1>0, <1>2 DEF Boot
<1>3. CASE Kill
  <2>1. JobsTyped'
    BY <1>0, <1>3 DEF Kill, NoRequest
  <2>2. PcsTyped' /\ OpenTyped' /\ DiskTyped'
    BY <1>0, <1>3 DEF Kill, Idle
  <2> QED BY <1>0, <1>3, <2>1, <2>2 DEF Kill
<1>4. ASSUME NEW p \in Paths, Withdraw(p) PROVE Types'
  BY <1>4, WithdrawTyped
<1>5. ASSUME NEW t \in Threads PROVE
        /\ Post(t) => Types'
        /\ GetHealth(t) => Types'
        /\ OtherPath(t) => Types'
        /\ Health(t) => Types'
        /\ Body(t) => Types'
        /\ Answer(t) => Types'
        /\ Validate(t) => Types'
        /\ Acquire(t) => Types'
        /\ Load(t) => Types'
        /\ OpenFile(t) => Types'
        /\ CloseFile(t) => Types'
        /\ Render(t) => Types'
        /\ Raise(t) => Types'
        /\ Release(t) => Types'
  <2>1. Post(t) => Types'
    BY <1>0 DEF Post, Accept, Goto, NoRequest, Writes
  <2>2. GetHealth(t) => Types'
    BY <1>0 DEF GetHealth, Accept, Goto, NoRequest, Writes
  <2>3. OtherPath(t) => Types'
    BY AnsweringTyped
  <2>4. Health(t) => Types'
    BY AnsweringTyped
  <2>5. Body(t) => Types'
    <3>1. CASE Respond(t, 400)
      BY <3>1, AnswerTyped, 400 \in Nat DEF Body, Writes, WorkerTypeOK
    <3>2. CASE Goto(t, "validate") /\ UNCHANGED job
      BY <1>0, <3>2 DEF Body, Goto, Writes
    <3> QED BY <3>1, <3>2 DEF Body
  <2>6. Answer(t) => Types'
    BY <1>0 DEF Answer, Goto, NoRequest, Writes
  <2>7. Validate(t) => Types'
    <3>1. CASE Respond(t, FromJson(job[t].req))
      BY <3>1, AnswerTyped, FromJsonNumber DEF Validate, Writes, WorkerTypeOK
    <3>2. CASE Goto(t, "lock") /\ UNCHANGED job
      BY <1>0, <3>2 DEF Validate, Goto, Writes
    <3> QED BY <3>1, <3>2 DEF Validate
  <2>8. Acquire(t) => Types'
    <3>1. SUFFICES ASSUME Acquire(t) PROVE Types'
      OBVIOUS
    <3>2. job' \in [Threads -> [req : Requests \cup {NoBody}, id : 0 .. renders', frames : Nat, status : Nat]]
      BY <1>0, <3>1 DEF Acquire, Begin
    <3>3. DiskTyped' /\ renders' \in Nat
      BY <1>0, <3>1 DEF Acquire, Begin
    <3> QED BY <1>0, <3>1, <3>2, <3>3 DEF Acquire, Begin, Goto, Locked, Writes
  <2>9. Load(t) => Types'
    <3>1. SUFFICES ASSUME Load(t) PROVE Types'
      OBVIOUS
    <3>2. FramesOf(job[t].req) \in Nat
      <4>1. job[t].req \in Requests
        BY <3>1 DEF Load, JobsKnown, Locked
      <4>2. /\ SourceOf(job[t].req) \in Paths
            /\ disk[SourceOf(job[t].req)].kind \in {"packets", "bundle"}
        <5>1. job[t].req.bundle \in Paths \cup {Nil} /\ job[t].req.packets \in Paths \cup {Nil}
          BY <4>1, RequestShape
        <5>2. CASE job[t].req.bundle # Nil
          BY <5>1, <5>2, <3>1 DEF Load, Loads, SourceOf
        <5>3. CASE job[t].req.bundle = Nil
          BY <5>1, <5>3, <3>1, <4>1 DEF Load, Loads, SourceOf, OneSource, JobsKnown, Locked
        <5> QED BY <5>2, <5>3
      <4> QED BY <4>1, <4>2, RequestShape DEF SourcesKnown, FramesOf
    <3> QED BY <1>0, <3>1, <3>2 DEF Load, Goto, Locked, Writes
  <2>10. OpenFile(t) => Types'
    <3>1. SUFFICES ASSUME OpenFile(t) PROVE Types'
      OBVIOUS
    <3>2. Partial(job[t].id).id = job[t].id /\ job[t].id \in 0 .. renders
      BY <1>0, ContentShape
    <3>3. DiskTyped'
      BY <1>0, <3>1, <3>2 DEF OpenFile
    <3> QED BY <1>0, <3>1, <3>3 DEF OpenFile
  <2>11. CloseFile(t) => Types'
    BY <1>0, ContentShape DEF CloseFile, Goto, After, Written, Writes, Locked
  <2>12. Render(t) => Types'
    BY <1>0 DEF Render, Goto, Locked, Writes
  <2>13. Raise(t) => Types'
    BY AnsweringTyped
  <2>14. Release(t) => Types'
    BY AnsweringTyped
  <2> QED BY <2>1, <2>2, <2>3, <2>4, <2>5, <2>6, <2>7, <2>8, <2>9, <2>10, <2>11, <2>12, <2>13, <2>14
<1> QED BY <1>1, <1>2, <1>3, <1>4, <1>5 DEF WorkerNext, Step

LEMMA BoundStep ==
  ASSUME WorkerTypeOK, Bounded, WorkerNext \/ UNCHANGED workerVars
  PROVE  Bounded'
<1> USE DEF Pending
<1>0. renders \in Nat /\ MaxRenders \in Nat
  BY RequestAssumption DEF WorkerTypeOK
<1>1. CASE UNCHANGED workerVars \/ Boot \/ Kill \/ \E p \in Paths : Withdraw(p)
  BY <1>1, BoundedKept DEF workerVars, Boot, Kill, Withdraw, Idle
<1>2. ASSUME NEW t \in Threads PROVE
        /\ Post(t) => Bounded'
        /\ Acquire(t) => Bounded'
        /\ GetHealth(t) \/ OtherPath(t) \/ Health(t) \/ Answer(t) \/ Validate(t) \/ Body(t)
             \/ Load(t) \/ OpenFile(t) \/ CloseFile(t) \/ Render(t) \/ Raise(t) \/ Release(t) => Bounded'
  <2>1. Post(t) => Bounded'
    <3>1. SUFFICES ASSUME Post(t) PROVE Bounded'
      OBVIOUS
    <3>2. Pending' = Pending \cup {t} /\ renders' = renders /\ renders + Cardinality(Pending) < MaxRenders
      BY <3>1 DEF Post, Accept, Goto, WorkerTypeOK
    <3>3. Cardinality(Pending \cup {t}) <= Cardinality(Pending) + 1 /\ Cardinality(Pending \cup {t}) \in Nat
      BY PendingGrows
    <3> HIDE DEF Pending
    <3>4. Cardinality(Pending') <= Cardinality(Pending) + 1 /\ Cardinality(Pending') \in Nat
      BY <3>2, <3>3
    <3>5. renders' + Cardinality(Pending') <= MaxRenders
      BY <3>2, <3>4, <1>0, PendingFinite
    <3> QED BY <3>5 DEF Bounded
  <2>2. Acquire(t) => Bounded'
    <3>1. SUFFICES ASSUME Acquire(t) PROVE Bounded'
      OBVIOUS
    <3>2. Pending' = Pending \ {t} /\ t \in Pending /\ renders' = renders + 1
      BY <3>1 DEF Acquire, Begin, Goto, WorkerTypeOK
    <3>3. Cardinality(Pending') = Cardinality(Pending) - 1
      BY <3>2, PendingFinite, FS_RemoveElement
    <3> HIDE DEF Pending
    <3>4. renders + Cardinality(Pending) <= MaxRenders
      BY DEF Bounded
    <3>5. renders' + Cardinality(Pending') <= MaxRenders
      BY <3>2, <3>3, <3>4, <1>0, PendingFinite
    <3> QED BY <3>5 DEF Bounded
  <2>3. GetHealth(t) \/ OtherPath(t) \/ Health(t) \/ Answer(t) => Bounded'
    BY BoundedKept DEF GetHealth, Accept, OtherPath, Health, Answer, Respond, Goto, WorkerTypeOK
  <2>4. Validate(t) \/ Body(t) => Bounded'
    BY BoundedKept DEF Validate, Body, Respond, Goto, WorkerTypeOK
  <2>5. Load(t) \/ OpenFile(t) \/ Render(t) \/ Raise(t) \/ Release(t) => Bounded'
    BY BoundedKept DEF Load, OpenFile, Render, Raise, Release, Respond, Goto, WorkerTypeOK
  <2>6. CloseFile(t) => Bounded'
    BY BoundedKept DEF CloseFile, Goto, WorkerTypeOK, After, Writes
  <2> QED BY <2>1, <2>2, <2>3, <2>4, <2>5, <2>6
<1> QED BY <1>1, <1>2 DEF WorkerNext, Step

\* Only Acquire() makes a holder, and only the holder's own steps, or the end
\* of the process, take it out of the locked steps.
LEMMA LockStep ==
  ASSUME WorkerTypeOK, OneRender, WorkerNext \/ UNCHANGED workerVars
  PROVE  OneRender'
<1> USE DEF OneRender
<1>0. Nil \notin Threads
  BY RequestAssumption
<1>1. CASE UNCHANGED workerVars \/ Boot \/ Kill \/ \E p \in Paths : Withdraw(p)
  BY <1>0, <1>1 DEF workerVars, Boot, Kill, Withdraw, Idle, Locked
<1>2. ASSUME NEW t \in Threads PROVE
        /\ Post(t) \/ GetHealth(t) \/ OtherPath(t) \/ Health(t) \/ Answer(t) \/ Validate(t) \/ Body(t) => OneRender'
        /\ Acquire(t) => OneRender'
        /\ Load(t) \/ OpenFile(t) \/ CloseFile(t) \/ Render(t) => OneRender'
        /\ Raise(t) \/ Release(t) => OneRender'
  <2>1. Post(t) \/ GetHealth(t) \/ OtherPath(t) \/ Health(t) \/ Answer(t) => OneRender'
    BY DEF Post, GetHealth, Accept, OtherPath, Health, Answer, Respond, Goto, WorkerTypeOK, Locked
  <2>2. Validate(t) \/ Body(t) => OneRender'
    BY DEF Validate, Body, Respond, Goto, WorkerTypeOK, Locked
  <2>3. Acquire(t) => OneRender'
    BY <1>0 DEF Acquire, Begin, Goto, WorkerTypeOK, Locked
  <2>4. Load(t) \/ OpenFile(t) \/ Render(t) => OneRender'
    BY DEF Load, OpenFile, Render, Goto, WorkerTypeOK, Locked
  <2>5. CloseFile(t) => OneRender'
    BY DEF CloseFile, Goto, WorkerTypeOK, After, Writes, Locked
  <2>6. Raise(t) \/ Release(t) => OneRender'
    BY <1>0 DEF Raise, Release, Respond, Goto, WorkerTypeOK, Locked
  <2> QED BY <2>1, <2>2, <2>3, <2>4, <2>5, <2>6
<1> QED BY <1>1, <1>2 DEF WorkerNext, Step

LEMMA JobsStep ==
  ASSUME WorkerTypeOK, OneRender, JobsKnown, WorkerNext \/ UNCHANGED workerVars
  PROVE  JobsKnown'
<1> USE DEF JobsKnown
<1>0. Nil \notin Threads /\ renders \in Nat
  BY RequestAssumption DEF WorkerTypeOK
<1>1. CASE UNCHANGED workerVars \/ Boot \/ \E p \in Paths : Withdraw(p)
  BY <1>1 DEF workerVars, Boot, Withdraw
<1>2. CASE Kill
  BY <1>2 DEF Kill, Idle, Locked, PendingPcs, NoRequest
<1>3. ASSUME NEW t \in Threads PROVE
        /\ Post(t) \/ GetHealth(t) => JobsKnown'
        /\ OtherPath(t) \/ Health(t) \/ Answer(t) \/ Body(t) => JobsKnown'
        /\ Validate(t) => JobsKnown'
        /\ Acquire(t) => JobsKnown'
        /\ Load(t) \/ OpenFile(t) \/ Render(t) \/ CloseFile(t) => JobsKnown'
        /\ Raise(t) \/ Release(t) => JobsKnown'
  <2>1. Post(t) \/ GetHealth(t) => JobsKnown'
    BY DEF Post, GetHealth, Accept, Goto, WorkerTypeOK, Locked, PendingPcs, NoRequest
  <2>2. OtherPath(t) \/ Health(t) => JobsKnown'
    BY Responded DEF OtherPath, Health, WorkerTypeOK, Locked, PendingPcs
  <2>3. Answer(t) => JobsKnown'
    BY DEF Answer, Goto, WorkerTypeOK, Locked, PendingPcs, NoRequest
  <2>4. Body(t) => JobsKnown'
    BY Responded DEF Body, Goto, WorkerTypeOK, Locked, PendingPcs
  <2>5. Validate(t) => JobsKnown'
    BY Responded, FromJsonNumber DEF Validate, Goto, WorkerTypeOK, Locked, PendingPcs
  <2>6. Acquire(t) => JobsKnown'
    BY <1>0 DEF Acquire, Begin, Goto, WorkerTypeOK, Locked, PendingPcs, OneRender
  <2>7. Load(t) => JobsKnown'
    BY DEF Load, Goto, WorkerTypeOK, Locked, PendingPcs
  <2>8. OpenFile(t) \/ Render(t) => JobsKnown'
    BY DEF OpenFile, Render, Goto, WorkerTypeOK, Locked, PendingPcs
  <2>9. CloseFile(t) => JobsKnown'
    BY DEF CloseFile, Goto, After, Writes, WorkerTypeOK, Locked, PendingPcs
  <2>10. Raise(t) \/ Release(t) => JobsKnown'
    BY Responded, <1>0 DEF Raise, Release, WorkerTypeOK, Locked, PendingPcs
  <2> QED BY <2>1, <2>2, <2>3, <2>4, <2>5, <2>6, <2>7, <2>8, <2>9, <2>10
<1> QED BY <1>1, <1>2, <1>3 DEF WorkerNext, Step

--------------------------------------------------------------------------------
(* The files.                                                              *)

Quiet(t) ==
  \/ Post(t) \/ GetHealth(t) \/ OtherPath(t) \/ Health(t) \/ Answer(t) \/ Body(t) \/ Validate(t) \/ Acquire(t)
  \/ Load(t) \/ Render(t) \/ Raise(t) \/ Release(t)
LEMMA NextCases ==
  ASSUME WorkerNext \/ UNCHANGED workerVars
  PROVE  \/ UNCHANGED workerVars \/ Boot \/ Kill
         \/ \E p \in Paths : Withdraw(p)
         \/ \E t \in Threads : Quiet(t) \/ OpenFile(t) \/ CloseFile(t)
  BY DEF WorkerNext, Step, Quiet
LEMMA QuietDisk ==
  ASSUME NEW t \in Threads, Quiet(t)
  PROVE  disk' = disk
  BY DEF Quiet, Post, GetHealth, Accept, OtherPath, Health, Answer, Body, Validate, Acquire, Begin, Load, Render,
         Raise, Release

\* A write, opened or closed: one path gets something with the last number.
LEMMA Writing ==
  ASSUME WorkerTypeOK, JobsKnown, OneRender, NEW t \in Threads, OpenFile(t) \/ CloseFile(t)
  PROVE  /\ Target(t) \in Paths /\ job[t].req \in Requests /\ job[t].id = renders
         /\ lock = t /\ \A u \in Threads \ {t} : pc[u] \notin Locked
         /\ disk'[Target(t)].id = renders
         /\ \A p \in Paths \ {Target(t)} : disk'[p] = disk[p]
         /\ DOMAIN disk' = Paths /\ renders' = renders /\ job' = job
         /\ disk'[Target(t)].kind \in {"partial", "npz", "wav", "manifest"}
         /\ \A u \in Threads \ {t} : pc'[u] = pc[u]
         /\ OpenFile(t) => pc' = pc /\ disk'[Target(t)].kind = "partial"
<1>1. pc[t] \in Writes /\ pc[t] \in Locked
  BY DEF OpenFile, CloseFile, Writes, Locked
<1>2. job[t].req \in Requests /\ job[t].id = renders /\ lock = t
  BY <1>1 DEF JobsKnown, OneRender
<1>3. Target(t) \in Paths
  BY <1>1, <1>2, RequestShape DEF Target, Writes
<1>4. \A u \in Threads \ {t} : pc[u] \notin Locked
  BY <1>2 DEF OneRender
<1>5. /\ Partial(job[t].id).id = renders /\ Partial(job[t].id).kind = "partial"
      /\ Written(t).id = renders /\ Written(t).kind \in {"npz", "wav", "manifest"}
  BY <1>1, <1>2, ContentShape DEF Written, Writes
<1>6. CASE OpenFile(t)
  BY <1>2, <1>3, <1>4, <1>5, <1>6 DEF OpenFile, WorkerTypeOK
<1>7. CASE CloseFile(t)
  <2>1. /\ disk' = [disk EXCEPT ![Target(t)] = Written(t)] /\ renders' = renders /\ job' = job
        /\ pc' = [pc EXCEPT ![t] = After(pc[t])] /\ ~OpenFile(t)
    BY <1>7 DEF CloseFile, Goto, OpenFile
  <2> QED BY <1>2, <1>3, <1>4, <1>5, <2>1 DEF WorkerTypeOK
<1> QED BY <1>6, <1>7

\* What is closed, by the step that closes it.
LEMMA Closing ==
  ASSUME WorkerTypeOK, JobsKnown, OneRender, NEW t \in Threads, CloseFile(t)
  PROVE  LET req == job[t].req IN
         /\ pc[t] = "conditioning" => Target(t) = SavedAs[req.conditioning] /\ disk'[Target(t)].kind = "npz" /\ pc'[t] = "render"
         /\ pc[t] = "output" => Target(t) = req.output /\ disk'[Target(t)].kind = "wav" /\ pc'[t] = "manifest"
         /\ pc[t] = "manifest" => /\ Target(t) = req.manifest /\ disk'[Target(t)].kind = "manifest" /\ pc'[t] = "unlock"
                                  /\ disk'[Target(t)].req = req
         /\ pc[t] \in Writes
<1>1. disk'[Target(t)] = Written(t)
  BY Writing DEF CloseFile, WorkerTypeOK
<1>2. CASE pc[t] = "conditioning"
  BY <1>1, <1>2, ContentShape DEF CloseFile, Goto, Target, Written, After, WorkerTypeOK
<1>3. CASE pc[t] = "output"
  BY <1>1, <1>3, ContentShape DEF CloseFile, Goto, Target, Written, After, WorkerTypeOK
<1>4. CASE pc[t] = "manifest"
  BY <1>1, <1>4, ContentShape DEF CloseFile, Goto, Target, Written, After, WorkerTypeOK
<1> QED BY <1>2, <1>3, <1>4 DEF CloseFile, Writes

LEMMA ManifestsStep ==
  ASSUME WorkerTypeOK, OneRender, JobsKnown, SourcesKnown, ManifestsKnown, WorkerNext \/ UNCHANGED workerVars
  PROVE  ManifestsKnown' /\ SourcesKnown'
<1> USE DEF ManifestsKnown, SourcesKnown
<1>0. renders \in Nat /\ Nil \notin Threads
  BY RequestAssumption DEF WorkerTypeOK
<1>1. CASE UNCHANGED workerVars \/ Boot
  BY <1>1 DEF workerVars, Boot
<1>2. CASE Kill
  BY <1>2 DEF Kill, Idle, Locked
<1>3. ASSUME NEW p \in Paths, Withdraw(p) PROVE ManifestsKnown' /\ SourcesKnown'
  BY <1>3, ContentShape DEF Withdraw, WorkerTypeOK, Sources
<1>4. ASSUME NEW t \in Threads, Quiet(t) PROVE ManifestsKnown' /\ SourcesKnown'
  <2>1. SourcesKnown'
    BY <1>4, QuietDisk
  <2>2. CASE Acquire(t)
    BY <1>0, <1>4, <2>2, QuietDisk DEF Acquire, Begin, WorkerTypeOK
  <2>3. CASE ~Acquire(t)
    <3>1. renders' = renders
      BY <1>4, <2>3 DEF Quiet, Post, GetHealth, Accept, OtherPath, Health, Answer, Body, Validate, Load, Render, Raise, Release
    <3>2. \A u \in Threads : pc'[u] \in Locked \ {"unlock"} => pc[u] \in Locked \ {"unlock"}
      BY <1>4, <2>3 DEF Quiet, Post, GetHealth, Accept, OtherPath, Health, Answer, Body, Validate, Load, Render, Raise,
           Release, Respond, Goto, WorkerTypeOK, Locked
    <3> QED BY <1>4, <2>1, <3>1, <3>2, QuietDisk
  <2> QED BY <2>1, <2>2, <2>3
<1>5. ASSUME NEW t \in Threads, OpenFile(t) \/ CloseFile(t) PROVE ManifestsKnown' /\ SourcesKnown'
  <2>1. SourcesKnown'
    BY <1>5, Writing DEF Sources
  <2>2. ASSUME OpenFile(t) PROVE ManifestsKnown'
    BY <1>5, <2>2, Writing
  <2>3. ASSUME CloseFile(t) PROVE ManifestsKnown'
    <3>1. \A p \in Paths \ {Target(t)} : disk'[p] = disk[p] /\ (disk[p].kind = "manifest" => disk[p].id # renders)
      BY <1>5, Writing, <2>3, Closing DEF Locked, Writes
    <3>2. /\ disk'[Target(t)].kind = "manifest" => disk'[Target(t)].req \in Requests /\ pc'[t] = "unlock"
          /\ \A u \in Threads \ {t} : pc'[u] \notin Locked
          /\ renders' = renders
      BY <1>5, Writing, <2>3, Closing DEF Writes
    <3> QED BY <3>1, <3>2, Writing, <2>3
  <2> QED BY <1>5, <2>1, <2>2, <2>3
<1> QED BY <1>1, <1>2, <1>3, <1>4, <1>5, NextCases

LEMMA WrittenStep ==
  ASSUME WorkerTypeOK, OneRender, JobsKnown, SourcesKnown, WrittenSoFar, WorkerNext \/ UNCHANGED workerVars
  PROVE  WrittenSoFar'
<1> USE DEF WrittenSoFar, Is
<1>0. Nil \notin Threads
  BY RequestAssumption
<1>1. CASE UNCHANGED workerVars \/ Boot
  BY <1>1 DEF workerVars, Boot
<1>2. CASE Kill
  BY <1>2 DEF Kill, Idle
<1>3. ASSUME NEW p \in Paths, Withdraw(p) PROVE WrittenSoFar'
  <2>1. /\ \A q \in Paths : disk[q].kind \notin Sources => disk'[q] = disk[q]
        /\ pc' = pc /\ job' = job /\ renders' = renders
    BY <1>3 DEF Withdraw, WorkerTypeOK
  <2>2. \A t \in Threads : pc[t] \in {"render", "output", "manifest", "unlock"} => job[t].req \in Requests
    BY DEF JobsKnown, Locked
  <2> QED BY <2>1, <2>2, RequestShape DEF Sources
<1>4. ASSUME NEW t \in Threads, Quiet(t) PROVE WrittenSoFar'
  <2>1. CASE Acquire(t)
    <3>1. \A u \in Threads : pc[u] \notin Locked
      BY <1>0, <2>1 DEF Acquire, OneRender
    <3>2. \A u \in Threads : pc'[u] \notin Locked \/ pc'[u] = "load"
      BY <2>1, <3>1 DEF Acquire, Begin, Goto, WorkerTypeOK
    <3> QED BY <3>2 DEF Locked
  <2>2. CASE Render(t)
    BY <2>2 DEF Render, Goto, WorkerTypeOK
  <2>3. CASE Load(t)
    BY <2>3 DEF Load, Goto, WorkerTypeOK
  <2>4. CASE Quiet(t) /\ ~Acquire(t) /\ ~Render(t) /\ ~Load(t)
    <3>1. /\ renders' = renders /\ disk' = disk
          /\ pc'[t] \notin Locked
          /\ \A u \in Threads \ {t} : pc'[u] = pc[u] /\ job'[u] = job[u]
      BY SMTT(30), <2>4 DEF Quiet, Post, GetHealth, Accept, OtherPath, Health, Answer, Body, Validate, Raise, Release, Respond,
           Goto, WorkerTypeOK, Locked
    <3> QED BY <3>1 DEF Locked
  <2> QED BY <1>4, <2>1, <2>2, <2>3, <2>4
<1>5. ASSUME NEW t \in Threads, OpenFile(t) \/ CloseFile(t) PROVE WrittenSoFar'
  <2> DEFINE req == job[t].req
  <2>1. /\ \A u \in Threads \ {t} : pc'[u] \notin Locked
        /\ \A q \in Paths \ {Target(t)} : disk'[q] = disk[q]
        /\ disk'[Target(t)].id = renders /\ renders' = renders /\ job' = job
        /\ req.output \in Paths /\ req.manifest \in Paths /\ SavedAs[req.conditioning] \in Paths
    BY <1>5, Writing, RequestShape
  <2>2. SUFFICES ASSUME pc'[t] \in {"render", "output", "manifest", "unlock"}, Apart(req)
                 PROVE  /\ Is(SavedAs[req.conditioning], renders, "npz")'
                        /\ pc'[t] \in {"manifest", "unlock"} => Is(req.output, renders, "wav")'
                        /\ pc'[t] = "unlock" => Is(req.manifest, renders, "manifest")'
    BY SMTT(30), <2>1 DEF Locked, Apart
  <2>3. CASE OpenFile(t)
    <3>1. pc' = pc /\ pc[t] \in Writes
      BY <2>3 DEF OpenFile
    <3>2. CASE pc[t] = "output"
      <4>1. Target(t) = req.output
        BY <3>2 DEF Target
      <4>2. SavedAs[req.conditioning] # req.output
        BY <2>2 DEF Apart
      <4>3. disk'[SavedAs[req.conditioning]] = disk[SavedAs[req.conditioning]]
        BY <2>1, <4>1, <4>2
      <4> QED BY <2>1, <2>2, <3>1, <3>2, <4>3
    <3>3. CASE pc[t] = "manifest"
      <4>1. Target(t) = req.manifest
        BY <3>3 DEF Target
      <4>2. SavedAs[req.conditioning] # req.manifest /\ req.output # req.manifest
        BY <2>2 DEF Apart
      <4>3. /\ disk'[SavedAs[req.conditioning]] = disk[SavedAs[req.conditioning]]
            /\ disk'[req.output] = disk[req.output]
        BY <2>1, <4>1, <4>2
      <4> QED BY <2>1, <2>2, <3>1, <3>3, <4>3
    <3> QED BY <2>2, <3>1, <3>2, <3>3 DEF Writes
  <2>4. CASE CloseFile(t)
    <3>1. CASE pc[t] = "conditioning"
      BY <2>1, <2>2, <2>4, <3>1, Closing
    <3>2. CASE pc[t] = "output"
      BY SMTT(30), <2>1, <2>2, <2>4, <3>2, Closing DEF Apart
    <3>3. CASE pc[t] = "manifest"
      BY SMTT(30), <2>1, <2>2, <2>4, <3>3, Closing DEF Apart
    <3> QED BY <2>4, <3>1, <3>2, <3>3, Closing DEF Writes
  <2> QED BY <1>5, <2>3, <2>4
<1> QED BY <1>1, <1>2, <1>3, <1>4, <1>5, NextCases

\* What a render of an earlier number, or of this one when none writes, has
\* left on a path stays, or a later render is begun there.
LEMMA Carried ==
  ASSUME WorkerTypeOK, OneRender, JobsKnown, SourcesKnown, WorkerNext \/ UNCHANGED workerVars,
         NEW q \in Paths, NEW id \in Nat, NEW kind \in {"npz", "wav", "manifest"},
         CarriesOrLater(q, id, kind),
         \A t \in Threads : OpenFile(t) \/ CloseFile(t) => id < renders \/ q # Target(t)
  PROVE  CarriesOrLater(q, id, kind)'
<1> USE DEF CarriesOrLater
<1>1. CASE UNCHANGED workerVars \/ Boot \/ Kill
  BY <1>1 DEF workerVars, Boot, Kill
<1>2. ASSUME NEW p \in Paths, Withdraw(p) PROVE CarriesOrLater(q, id, kind)'
  <2>1. disk[q].kind \notin Sources
    BY DEF SourcesKnown, Sources
  <2> QED BY <1>2, <2>1 DEF Withdraw, WorkerTypeOK
<1>3. ASSUME NEW t \in Threads, Quiet(t) PROVE CarriesOrLater(q, id, kind)'
  BY <1>3, QuietDisk
<1>4. ASSUME NEW t \in Threads, OpenFile(t) \/ CloseFile(t) PROVE CarriesOrLater(q, id, kind)'
  BY <1>4, Writing
<1> QED BY <1>1, <1>2, <1>3, <1>4, NextCases

LEMMA ManifestStep ==
  ASSUME WorkerTypeOK, OneRender, JobsKnown, Files, ManifestOfOneRender, WorkerNext \/ UNCHANGED workerVars
  PROVE  ManifestOfOneRender'
<1> USE DEF Files
<1>1. SUFFICES ASSUME NEW p \in Paths, NEW id, NEW req, disk'[p].kind = "manifest", disk'[p].id = id,
                      disk'[p].req = req, Apart(req)
               PROVE  /\ CarriesOrLater(req.output, id, "wav")'
                      /\ CarriesOrLater(SavedAs[req.conditioning], id, "npz")'
  BY SMTT(30) DEF ManifestOfOneRender, Apart, CarriesOrLater
<1>2. CASE disk'[p] = disk[p]
  <2>1. /\ id \in Nat /\ id <= renders /\ req.output \in Paths /\ SavedAs[req.conditioning] \in Paths
        /\ renders \in Nat
    BY <1>1, <1>2, RequestShape, RequestAssumption DEF ManifestsKnown, WorkerTypeOK
  <2>2. CarriesOrLater(req.output, id, "wav") /\ CarriesOrLater(SavedAs[req.conditioning], id, "npz")
    BY <1>1, <1>2 DEF ManifestOfOneRender
  <2>3. \A t \in Threads : OpenFile(t) \/ CloseFile(t) => id < renders
    <3>1. ASSUME NEW t \in Threads, OpenFile(t) \/ CloseFile(t) PROVE id # renders
      BY <3>1, <1>1, <1>2 DEF ManifestsKnown, OpenFile, CloseFile, Writes, Locked
    <3> QED BY <2>1, <3>1
  <2> QED BY <2>1, <2>2, <2>3, Carried
<1>3. CASE disk'[p] # disk[p]
  <2>1. PICK t \in Threads : OpenFile(t) \/ CloseFile(t)
    <3>1. ~(UNCHANGED workerVars \/ Boot \/ Kill)
      BY <1>3 DEF workerVars, Boot, Kill
    <3>2. ASSUME NEW q \in Paths, Withdraw(q) PROVE FALSE
      BY <1>1, <1>3, <3>2, ContentShape DEF Withdraw, WorkerTypeOK
    <3>3. ASSUME NEW t \in Threads, Quiet(t) PROVE FALSE
      BY <1>3, <3>3, QuietDisk
    <3> QED BY <3>1, <3>2, <3>3, NextCases
  <2>2. p = Target(t) /\ CloseFile(t) /\ id = renders /\ renders \in Nat
    BY <1>1, <1>3, <2>1, Writing, RequestAssumption DEF WorkerTypeOK
  <2>3. pc[t] = "manifest" /\ req = job[t].req /\ Target(t) = req.manifest
    BY <1>1, <2>2, Closing DEF Writes
  <2>4. /\ disk[SavedAs[req.conditioning]].id = renders /\ disk[SavedAs[req.conditioning]].kind = "npz"
        /\ disk[req.output].id = renders /\ disk[req.output].kind = "wav"
    BY <1>1, <2>3 DEF WrittenSoFar, Is
  <2>5. /\ disk'[SavedAs[req.conditioning]] = disk[SavedAs[req.conditioning]]
        /\ disk'[req.output] = disk[req.output]
    BY <1>1, <2>1, <2>3, Writing, RequestShape DEF Apart
  <2> QED BY <2>2, <2>4, <2>5 DEF CarriesOrLater
<1> QED BY <1>2, <1>3

LEMMA OkStep ==
  ASSUME WorkerTypeOK, OneRender, JobsKnown, Files, OkMeansWritten, WorkerNext \/ UNCHANGED workerVars
  PROVE  OkMeansWritten'
<1> USE DEF Files
<1> DEFINE Has(req, id) ==
             /\ CarriesOrLater(req.output, id, "wav")
             /\ CarriesOrLater(SavedAs[req.conditioning], id, "npz")
             /\ CarriesOrLater(req.manifest, id, "manifest")
<1>1. SUFFICES ASSUME NEW t \in Threads, NEW id, NEW req, pc'[t] = "answer", job'[t].status = 200, job'[t].id = id,
                      id # 0, job'[t].req = req, Apart(req)
               PROVE  Has(req, id)'
  BY SMTT(30) DEF OkMeansWritten, Apart, CarriesOrLater
<1> DEFINE Was ==
             /\ job[t].id = id /\ job[t].req = req
             /\ (pc[t] = "answer" /\ job[t].status = 200) \/ Release(t)
<1>2. Was
  <2>1. CASE UNCHANGED workerVars \/ Boot \/ Kill \/ \E p \in Paths : Withdraw(p)
    BY <1>1, <2>1 DEF workerVars, Boot, Kill, Idle, Withdraw
  <2>2. ASSUME NEW u \in Threads, OpenFile(u) \/ CloseFile(u) PROVE job' = job /\ pc[t] = "answer"
    <3>1. job' = job /\ (u # t => pc'[t] = pc[t]) /\ (OpenFile(u) => pc' = pc)
      BY <2>2, Writing
    <3>2. CloseFile(u) => pc'[u] # "answer"
      BY Closing DEF Writes
    <3> QED BY <1>1, <2>2, <3>1, <3>2
  <2>3. ASSUME NEW u \in Threads, Quiet(u) PROVE Was
    <3>1. CASE Release(u)
      BY <1>1, <3>1, Responded DEF Release, WorkerTypeOK
    <3>2. CASE Raise(u)
      BY <1>1, <3>2, Responded DEF Raise, WorkerTypeOK
    <3>3. CASE OtherPath(u) \/ Health(u) \/ Body(u) \/ Validate(u)
      BY <1>1, <3>3, Responded, FromJsonNumber
      DEF OtherPath, Health, Body, Validate, Goto, WorkerTypeOK, JobsKnown, Locked
    <3>4. CASE Post(u) \/ GetHealth(u) \/ Answer(u) \/ Acquire(u) \/ Load(u) \/ Render(u)
      BY <1>1, <3>4 DEF Post, GetHealth, Accept, Answer, Acquire, Begin, Load, Render, Goto, WorkerTypeOK
    <3> QED BY <2>3, <3>1, <3>2, <3>3, <3>4 DEF Quiet
  <2> QED BY <1>1, <2>1, <2>2, <2>3, NextCases
<1>3. /\ id \in Nat /\ id <= renders /\ renders \in Nat
      /\ req.output \in Paths /\ req.manifest \in Paths /\ SavedAs[req.conditioning] \in Paths
  BY <1>1, <1>2, RequestShape, RequestAssumption DEF JobsKnown, WorkerTypeOK
<1>4. Has(req, id)
  <2>1. CASE Release(t)
    BY <1>1, <1>2, <2>1 DEF Release, WrittenSoFar, Is, JobsKnown, Locked, CarriesOrLater
  <2>2. CASE pc[t] = "answer" /\ job[t].status = 200
    BY <1>1, <1>2, <2>2 DEF OkMeansWritten
  <2> QED BY <1>2, <2>1, <2>2
<1>5. CASE Release(t)
  BY <1>4, <1>5 DEF Release, CarriesOrLater
<1>6. CASE pc[t] = "answer"
  <2>1. ASSUME NEW u \in Threads, OpenFile(u) \/ CloseFile(u) PROVE id < renders
    BY <1>2, <1>6, <2>1, Writing, RequestAssumption DEF JobsKnown
  <2> QED BY <1>3, <1>4, <2>1, Carried
<1> QED BY <1>2, <1>5, <1>6

LEMMA InitInv == WorkerInit => WorkerInv
<1>1. SUFFICES ASSUME WorkerInit PROVE WorkerInv
  OBVIOUS
<1> USE <1>1 DEF WorkerInit
<1>2. Nil \notin Threads /\ MaxRenders \in Nat
  BY RequestAssumption
<1>3. Types
  <2>1. JobsTyped
    BY DEF JobsTyped, NoRequest
  <2>2. DiskTyped
    BY RequestAssumption, StoredAssumption DEF DiskTyped
  <2> QED BY <2>1, <2>2 DEF Types, PcsTyped, OpenTyped, Idle
<1>4. WorkerTypeOK
  BY <1>2, <1>3 DEF Types, PcsTyped, JobsTyped, DiskTyped, OpenTyped, WorkerTypeOK
<1>5. Bounded
  <2>1. Pending = {}
    BY DEF Pending, Idle
  <2> QED BY <1>2, <2>1, FS_EmptySet DEF Bounded
<1>6. OneRender /\ JobsKnown
  BY <1>2 DEF OneRender, JobsKnown, Idle, Locked, PendingPcs, NoRequest
<1>7. \A p \in Paths : disk[p].kind # "manifest"
  BY StoredAssumption DEF Sources
<1>8. Files
  <2>1. WrittenSoFar
    BY DEF WrittenSoFar, Idle
  <2>2. SourcesKnown
    BY StoredAssumption DEF SourcesKnown
  <2> QED BY <1>7, <2>1, <2>2 DEF Files, ManifestsKnown
<1>9. ManifestOfOneRender /\ OkMeansWritten
  BY <1>7 DEF ManifestOfOneRender, OkMeansWritten, Idle
<1> QED BY <1>4, <1>5, <1>6, <1>8, <1>9 DEF WorkerInv

LEMMA StepInv == WorkerInv /\ [WorkerNext]_workerVars => WorkerInv'
<1>1. SUFFICES ASSUME WorkerInv, WorkerNext \/ UNCHANGED workerVars PROVE WorkerInv'
  OBVIOUS
<1> USE <1>1
<1>2. Types' /\ Bounded'
  BY TypeStep, BoundStep DEF WorkerInv, Files
<1>3. WorkerTypeOK'
  <2>1. renders' \in 0 .. MaxRenders
    <3>1. Cardinality(Pending') \in Nat
      <4>1. Pending' \subseteq Threads
        BY DEF Pending
      <4> QED BY <4>1, RequestAssumption, FS_Subset, FS_CardinalityType
    <3> QED BY <1>2, <3>1, RequestAssumption DEF Bounded, Types
  <2> QED BY <1>2, <2>1 DEF Types, PcsTyped, JobsTyped, DiskTyped, OpenTyped, WorkerTypeOK
<1>4. OneRender' /\ JobsKnown'
  BY LockStep, JobsStep DEF WorkerInv
<1>5. Files'
  BY WrittenStep, ManifestsStep DEF WorkerInv, Files
<1>6. ManifestOfOneRender' /\ OkMeansWritten'
  BY ManifestStep, OkStep DEF WorkerInv
<1> QED BY <1>2, <1>3, <1>4, <1>5, <1>6 DEF WorkerInv

LEMMA WorkerInvariant == WorkerSpec => []WorkerInv
  BY InitInv, StepInv, PTL DEF WorkerSpec

--------------------------------------------------------------------------------

\* The state of the service, its threads and its files keeps its types through
\* any requests, failures and restarts.
THEOREM WorkerTypesHold == WorkerSpec => []WorkerTypeOK
<1>1. WorkerInv => WorkerTypeOK
  BY DEF WorkerInv
<1> QED BY WorkerInvariant, <1>1, PTL

\* RenderService._lock: for any number of handler threads, at most one is
\* between the lock and its answer, and it is the holder.
THEOREM OneRenderHolds == WorkerSpec => []OneRender
<1>1. WorkerInv => OneRender
  BY DEF WorkerInv
<1> QED BY WorkerInvariant, <1>1, PTL

\* _render_aig_adg_locked() writes the manifest last and do_POST() answers 200
\* when the lock is given back: a manifest on the disk tells of audio and
\* conditioning that are there, an answer of 200 of three files that are there,
\* or a later render writes them.
THEOREM FilesHold == WorkerSpec => []FilesTrue
<1>1. WorkerInv => FilesTrue
  BY DEF WorkerInv, FilesTrue
<1> QED BY WorkerInvariant, <1>1, PTL

--------------------------------------------------------------------------------
(* Induction and recursion over numbers, for sets.                         *)

\* A set of numbers has a least one.
LEMMA Least ==
  ASSUME NEW T, T \subseteq Nat, T # {}
  PROVE  \E m \in T : \A k \in T : m <= k
<1>1. \E m \in T : \A k \in T : ~(<<k, m>> \in OpToRel(<, Nat))
  BY NatLessThanWellFounded, WFMin
<1>2. PICK m \in T : \A k \in T : ~(k < m)
  BY <1>1 DEF OpToRel
<1> QED BY <1>2

\* Induction up to N, for a set.
LEMMA UpFromZero ==
  ASSUME NEW N \in Nat, NEW T, 0 \in T, \A n \in 0 .. N - 1 : n \in T => n + 1 \in T
  PROVE  \A n \in 0 .. N : n \in T
<1> DEFINE U == (0 .. N) \ T
<1> SUFFICES ASSUME U # {} PROVE FALSE
  OBVIOUS
<1>1. U \subseteq Nat
  OBVIOUS
<1> HIDE DEF U
<1>2. PICK m \in U : \A k \in U : m <= k
  BY <1>1, Least
<1> USE DEF U
<1>3. m # 0 /\ m - 1 \in 0 .. N - 1
  BY <1>2
<1>4. m - 1 \in T
  BY <1>2, <1>3
<1> QED BY <1>2, <1>3, <1>4

\* Each of N steps goes from S to S.
StaysIn(S, N, h) == \A n \in 1 .. N, x \in S : h[n][x] \in S

\* A recursion of N steps has a result.
LEMMA Recursion ==
  ASSUME NEW S, NEW a \in S, NEW N \in Nat, NEW h, StaysIn(S, N, h)
  PROVE  \E f \in [0 .. N -> S] : f[0] = a /\ \A n \in 1 .. N : f[n] = h[n][f[n - 1]]
<1> DEFINE T == {n \in 0 .. N : \E f \in [0 .. n -> S] : f[0] = a /\ \A i \in 1 .. n : f[i] = h[i][f[i - 1]]}
<1>1. 0 \in T
  <2> DEFINE f == [i \in 0 .. 0 |-> a]
  <2>1. f \in [0 .. 0 -> S] /\ f[0] = a /\ \A i \in 1 .. 0 : f[i] = h[i][f[i - 1]]
    OBVIOUS
  <2>2. 0 \in 0 .. N
    OBVIOUS
  <2> HIDE DEF f
  <2> QED BY <2>1, <2>2
<1>2. ASSUME NEW n \in 0 .. N - 1, n \in T PROVE n + 1 \in T
  <2>1. PICK f \in [0 .. n -> S] : f[0] = a /\ \A i \in 1 .. n : f[i] = h[i][f[i - 1]]
    BY <1>2
  <2> HIDE DEF T
  <2> DEFINE g == [i \in 0 .. n + 1 |-> IF i <= n THEN f[i] ELSE h[n + 1][f[n]]]
  <2>2. h[n + 1][f[n]] \in S
    <3>1. n + 1 \in 1 .. N /\ f[n] \in S
      BY <2>1
    <3> QED BY <3>1 DEF StaysIn
  <2>3. g \in [0 .. n + 1 -> S]
    BY <2>1, <2>2
  <2>4. g[0] = a
    BY <2>1
  <2>5. ASSUME NEW i \in 1 .. n + 1 PROVE g[i] = h[i][g[i - 1]]
    <3>1. CASE i <= n
      <4>1. g[i] = f[i] /\ g[i - 1] = f[i - 1] /\ i \in 1 .. n
        BY <3>1
      <4> HIDE DEF g
      <4> QED BY <2>1, <4>1
    <3>2. CASE i = n + 1
      <4>1. g[i] = h[n + 1][f[n]] /\ g[i - 1] = f[n]
        BY <3>2
      <4> HIDE DEF g
      <4> QED BY <3>2, <4>1
    <3> QED BY <3>1, <3>2
  <2> HIDE DEF g
  <2> QED BY <2>3, <2>4, <2>5 DEF T
<1> HIDE DEF T
<1>3. N \in T
  <2>1. \A n \in 0 .. N - 1 : n \in T => n + 1 \in T
    BY <1>2
  <2>2. \A n \in 0 .. N : n \in T
    BY <1>1, <2>1, UpFromZero
  <2> QED BY <2>2
<1> QED BY <1>3 DEF T

--------------------------------------------------------------------------------
(* Spans placed one after the other.                                       *)

SpanType(P) == [pitch : P, from : Int, to : Int]
ScheduleType(n, P) ==
  [frames : {n}, notes : [0 .. n - 1 -> [P -> 0 .. 2]], drums : [0 .. n - 1 -> 0 .. 1], reports : Seq(SpanType(P))]
Begins(s, f, p) == \E k \in DOMAIN s.reports : s.reports[k].pitch = p /\ s.reports[k].from = f
Lasts(s, f, p) ==
  \E k \in DOMAIN s.reports : s.reports[k].pitch = p /\ s.reports[k].from < f /\ f < s.reports[k].to
Hit(s, f) == \E k \in DOMAIN s.reports : s.reports[k].from <= f /\ f < s.reports[k].to
\* The rows say what the reports say.
Told(s, n, P) ==
  \A f \in 0 .. n - 1 :
    /\ \A p \in P : s.notes[f][p] = IF Begins(s, f, p) THEN 2 ELSE IF Lasts(s, f, p) THEN 1 ELSE 0
    /\ s.drums[f] = IF Hit(s, f) THEN 1 ELSE 0

\* One more element at the end.
LEMMA Appending ==
  ASSUME NEW S, NEW s \in Seq(S), NEW x \in S
  PROVE  /\ Append(s, x) \in Seq(S) /\ Len(Append(s, x)) = Len(s) + 1 /\ Len(s) \in Nat
         /\ DOMAIN s = 1 .. Len(s) /\ DOMAIN Append(s, x) = 1 .. Len(s) + 1
         /\ Append(s, x)[Len(s) + 1] = x /\ \A i \in 1 .. Len(s) : Append(s, x)[i] = s[i]
OBVIOUS

\* Mark() changes one pitch of a row.
LEMMA MarkIs ==
  ASSUME NEW P, NEW row \in [P -> 0 .. 2], NEW r \in SpanType(P), NEW f
  PROVE  /\ Mark(row, r, f) \in [P -> 0 .. 2]
         /\ \A p \in P : Mark(row, r, f)[p] =
              IF p # r.pitch THEN row[p] ELSE IF f = r.from THEN 2 ELSE AtLeast(row[p], 1)
<1>1. r.pitch \in P
  BY DEF SpanType
<1>2. (IF f = r.from THEN 2 ELSE AtLeast(row[r.pitch], 1)) \in 0 .. 2
  BY <1>1 DEF AtLeast
<1> QED BY <1>1, <1>2 DEF Mark, AtLeast

\* Placed() in the rows, one by one.
LEMMA PlacedIs ==
  ASSUME NEW n \in Int, NEW P, NEW s \in ScheduleType(n, P), NEW r \in SpanType(P)
  PROVE  /\ Placed(s, r) \in ScheduleType(n, P)
         /\ Placed(s, r).reports = Append(s.reports, r)
         /\ \A f \in 0 .. n - 1 :
              /\ Placed(s, r).notes[f] = IF f \in r.from .. r.to - 1 THEN Mark(s.notes[f], r, f) ELSE s.notes[f]
              /\ Placed(s, r).drums[f] = IF f \in r.from .. r.to - 1 THEN 1 ELSE s.drums[f]
<1>1. /\ s.frames = n /\ s.notes \in [0 .. n - 1 -> [P -> 0 .. 2]] /\ s.drums \in [0 .. n - 1 -> 0 .. 1]
      /\ s.reports \in Seq(SpanType(P))
      /\ s = [frames |-> s.frames, notes |-> s.notes, drums |-> s.drums, reports |-> s.reports]
  BY DEF ScheduleType
<1> DEFINE ns == [f \in DOMAIN s.notes |-> IF f \in r.from .. r.to - 1 THEN Mark(s.notes[f], r, f) ELSE s.notes[f]]
           ds == [f \in DOMAIN s.drums |-> IF f \in r.from .. r.to - 1 THEN 1 ELSE s.drums[f]]
           rs == Append(s.reports, r)
<1>2. Placed(s, r) = [s EXCEPT !.notes = ns, !.drums = ds, !.reports = rs]
  BY DEF Placed
<1>3. ns \in [0 .. n - 1 -> [P -> 0 .. 2]]
  <2>1. \A f \in 0 .. n - 1 : s.notes[f] \in [P -> 0 .. 2]
    BY <1>1
  <2>2. \A f \in 0 .. n - 1 : Mark(s.notes[f], r, f) \in [P -> 0 .. 2]
    BY <2>1, MarkIs
  <2> QED BY <1>1, <2>1, <2>2
<1>4. ds \in [0 .. n - 1 -> 0 .. 1] /\ rs \in Seq(SpanType(P))
  BY <1>1, Appending
<1>5. \A f \in 0 .. n - 1 : /\ ns[f] = IF f \in r.from .. r.to - 1 THEN Mark(s.notes[f], r, f) ELSE s.notes[f]
                            /\ ds[f] = IF f \in r.from .. r.to - 1 THEN 1 ELSE s.drums[f]
  BY <1>1
<1> DEFINE q == [frames |-> n, notes |-> ns, drums |-> ds, reports |-> rs]
<1> HIDE DEF ns, ds, rs
<1>6. Placed(s, r) = q
  BY <1>1, <1>2
<1>7. q \in ScheduleType(n, P)
  BY <1>3, <1>4 DEF ScheduleType
<1> QED BY <1>5, <1>6, <1>7 DEF rs

\* Placing a span keeps rows and reports in agreement.
LEMMA PlacedTold ==
  ASSUME NEW n \in Int, NEW P, NEW s \in ScheduleType(n, P), NEW r \in SpanType(P), r.from < r.to,
         Told(s, n, P)
  PROVE  Told(Placed(s, r), n, P)
<1> DEFINE q == Placed(s, r)  m == Len(s.reports)
<1>1. /\ s.notes \in [0 .. n - 1 -> [P -> 0 .. 2]] /\ s.drums \in [0 .. n - 1 -> 0 .. 1]
      /\ s.reports \in Seq(SpanType(P)) /\ r.pitch \in P /\ r.from \in Int /\ r.to \in Int
  BY DEF ScheduleType, SpanType
<1>2. /\ m \in Nat /\ DOMAIN s.reports = 1 .. m /\ DOMAIN q.reports = 1 .. m + 1
      /\ q.reports[m + 1] = r /\ \A i \in 1 .. m : q.reports[i] = s.reports[i]
  <2>1. q.reports = Append(s.reports, r)
    <3>1. Placed(s, r).reports = Append(s.reports, r)
      <4> HIDE DEF q, m
      <4> QED BY PlacedIs
    <3> QED BY <3>1
  <2> HIDE DEF q
  <2> QED BY <1>1, <2>1, Appending
<1>3. \A f \in 0 .. n - 1 :
        /\ q.notes[f] = IF f \in r.from .. r.to - 1 THEN Mark(s.notes[f], r, f) ELSE s.notes[f]
        /\ q.drums[f] = IF f \in r.from .. r.to - 1 THEN 1 ELSE s.drums[f]
  BY PlacedIs
<1> HIDE DEF q, m
<1>4. \A f : Hit(q, f) <=> Hit(s, f) \/ (r.from <= f /\ f < r.to)
  BY <1>2 DEF Hit
<1>5. \A f, p : Begins(q, f, p) <=> Begins(s, f, p) \/ (r.pitch = p /\ r.from = f)
  BY <1>2 DEF Begins
<1>6. \A f, p : Lasts(q, f, p) <=> Lasts(s, f, p) \/ (r.pitch = p /\ r.from < f /\ f < r.to)
  BY <1>2 DEF Lasts
<1> SUFFICES ASSUME NEW f \in 0 .. n - 1
             PROVE  /\ \A p \in P : q.notes[f][p] = IF Begins(q, f, p) THEN 2 ELSE IF Lasts(q, f, p) THEN 1 ELSE 0
                    /\ q.drums[f] = IF Hit(q, f) THEN 1 ELSE 0
  BY DEF Told, q
<1>7. q.drums[f] = IF Hit(q, f) THEN 1 ELSE 0
  <2>1. s.drums[f] = IF Hit(s, f) THEN 1 ELSE 0
    BY DEF Told
  <2>2. f \in r.from .. r.to - 1 <=> r.from <= f /\ f < r.to
    BY <1>1
  <2> QED BY <1>3, <1>4, <2>1, <2>2
<1>8. ASSUME NEW p \in P PROVE q.notes[f][p] = IF Begins(q, f, p) THEN 2 ELSE IF Lasts(q, f, p) THEN 1 ELSE 0
  <2>1. s.notes[f][p] = IF Begins(s, f, p) THEN 2 ELSE IF Lasts(s, f, p) THEN 1 ELSE 0
    BY DEF Told
  <2>2. s.notes[f] \in [P -> 0 .. 2]
    BY <1>1
  <2>3. Mark(s.notes[f], r, f)[p] =
          IF p # r.pitch THEN s.notes[f][p] ELSE IF f = r.from THEN 2 ELSE AtLeast(s.notes[f][p], 1)
    BY <2>2, MarkIs
  <2>4. f \in r.from .. r.to - 1 <=> f = r.from \/ (r.from < f /\ f < r.to)
    BY <1>1
  <2>5. q.notes[f] = IF f \in r.from .. r.to - 1 THEN Mark(s.notes[f], r, f) ELSE s.notes[f]
    BY <1>3
  <2>6. CASE p # r.pitch
    BY <1>5, <1>6, <2>1, <2>3, <2>5, <2>6
  <2>7. CASE p = r.pitch /\ f = r.from
    BY <1>5, <2>3, <2>4, <2>5, <2>7
  <2>8. CASE p = r.pitch /\ f # r.from
    <3>1. Begins(q, f, p) <=> Begins(s, f, p)
      BY <1>5, <2>8
    <3>2. Lasts(q, f, p) <=> Lasts(s, f, p) \/ f \in r.from .. r.to - 1
      BY <1>6, <2>4, <2>8
    <3> QED BY <2>1, <2>3, <2>5, <2>8, <3>1, <3>2 DEF AtLeast
  <2> QED BY <2>6, <2>7, <2>8
<1> QED BY <1>7, <1>8

\* The empty schedule has no reports and empty rows.
LEMMA EmptyTold ==
  ASSUME NEW n \in Int, NEW P
  PROVE  EmptySchedule(n, P) \in ScheduleType(n, P) /\ Told(EmptySchedule(n, P), n, P)
<1> DEFINE s == EmptySchedule(n, P)
<1>1. /\ s.frames = n /\ s.reports = <<>> /\ s.notes = [f \in 0 .. n - 1 |-> [p \in P |-> 0]]
      /\ s.drums = [f \in 0 .. n - 1 |-> 0]
      /\ s = [frames |-> s.frames, notes |-> s.notes, drums |-> s.drums, reports |-> s.reports]
  BY DEF EmptySchedule
<1>2. s.notes \in [0 .. n - 1 -> [P -> 0 .. 2]] /\ s.drums \in [0 .. n - 1 -> 0 .. 1]
      /\ s.reports \in Seq(SpanType(P))
  BY <1>1
<1>3. \A f \in 0 .. n - 1 : s.drums[f] = 0 /\ \A p \in P : s.notes[f][p] = 0
  BY <1>1
<1>4. \A f, p : ~Begins(s, f, p) /\ ~Lasts(s, f, p) /\ ~Hit(s, f)
  BY <1>1 DEF Begins, Lasts, Hit
<1> HIDE DEF s
<1>5. s \in ScheduleType(n, P)
  BY <1>1, <1>2 DEF ScheduleType
<1>6. Told(s, n, P)
  BY <1>3, <1>4 DEF Told
<1> QED BY <1>5, <1>6 DEF s

\* A span of a place, as a schedule of n frames reports it.
CutTo(r, n) == [r EXCEPT !.to = AtMost(@, n)]
Heard(r, n) == r.pitch # None /\ r.from < n

\* PlaceSpan(): a span that is heard is cut to the frames, the others are left out.
LEMMA PlaceSpanIs ==
  ASSUME NEW n \in Int, NEW P, NEW s \in ScheduleType(n, P), NEW r \in SpanType(P \cup {None}),
         None \notin P, r.from < r.to, Told(s, n, P)
  PROVE  /\ PlaceSpan(s, r) \in ScheduleType(n, P) /\ Told(PlaceSpan(s, r), n, P)
         /\ PlaceSpan(s, r).reports = IF Heard(r, n) THEN Append(s.reports, CutTo(r, n)) ELSE s.reports
<1>1. s.frames = n
  BY DEF ScheduleType
<1>2. CASE Heard(r, n)
  <2>1. CutTo(r, n) \in SpanType(P) /\ CutTo(r, n).from < CutTo(r, n).to
    BY <1>2 DEF SpanType, CutTo, AtMost, Heard
  <2>2. ~(r.pitch = None \/ r.from >= s.frames)
    BY <1>1, <1>2 DEF SpanType, Heard
  <2>3. PlaceSpan(s, r) = Placed(s, [r EXCEPT !.to = AtMost(@, s.frames)])
    BY <2>2 DEF PlaceSpan
  <2>4. PlaceSpan(s, r) = Placed(s, CutTo(r, n))
    BY <1>1, <2>3 DEF CutTo
  <2> QED BY <1>2, <2>1, <2>4, PlacedIs, PlacedTold
<1>3. CASE ~Heard(r, n)
  <2>1. r.from \in Int
    BY DEF SpanType
  <2> QED BY <1>1, <1>3, <2>1 DEF PlaceSpan, Heard
<1> QED BY <1>2, <1>3

PitchesOf(spans) == {r.pitch : r \in ToSet(spans)} \ {None}
IsSpans(spans) ==
  /\ spans \in Seq(SpanType(PitchesOf(spans) \cup {None}))
  /\ \A i \in 1 .. Len(spans) : spans[i].from < spans[i].to

PlacingTo(f, frames, spans) ==
  f = [n \in 0 .. Len(spans) |-> IF n = 0 THEN EmptySchedule(frames, PitchesOf(spans)) ELSE PlaceSpan(f[n - 1], spans[n])]
Placing(frames, spans) == CHOOSE f : PlacingTo(f, frames, spans)

\* The schedules on the way: each tells what its reports say.
LEMMA PlacingIs ==
  ASSUME NEW frames \in Int, NEW spans, IsSpans(spans)
  PROVE  /\ PlaceSpans(frames, spans) = Placing(frames, spans)[Len(spans)]
         /\ Placing(frames, spans)[0] = EmptySchedule(frames, PitchesOf(spans))
         /\ \A n \in 0 .. Len(spans) : /\ Placing(frames, spans)[n] \in ScheduleType(frames, PitchesOf(spans))
                                       /\ Told(Placing(frames, spans)[n], frames, PitchesOf(spans))
         /\ \A n \in 1 .. Len(spans) :
              /\ Placing(frames, spans)[n] = PlaceSpan(Placing(frames, spans)[n - 1], spans[n])
              /\ Placing(frames, spans)[n].reports =
                   IF Heard(spans[n], frames) THEN Append(Placing(frames, spans)[n - 1].reports, CutTo(spans[n], frames))
                   ELSE Placing(frames, spans)[n - 1].reports
<1> DEFINE P == PitchesOf(spans)  L == Len(spans)
           S == {s \in ScheduleType(frames, P) : Told(s, frames, P)}
           h == [n \in 1 .. L |-> [s \in S |-> PlaceSpan(s, spans[n])]]
           a == EmptySchedule(frames, P)
<1>1. L \in Nat /\ None \notin P
      /\ \A n \in 1 .. L : spans[n] \in SpanType(P \cup {None}) /\ spans[n].from < spans[n].to
  <2>1. None \notin P
    BY DEF PitchesOf
  <2>2. spans \in Seq(SpanType(P \cup {None})) /\ \A n \in 1 .. L : spans[n].from < spans[n].to
    BY DEF IsSpans
  <2> HIDE DEF P
  <2> QED BY <2>1, <2>2
<1>2. a \in S
  BY EmptyTold
<1> HIDE DEF P
<1>3. ASSUME NEW n \in 1 .. L, NEW s \in S
      PROVE  /\ h[n][s] = PlaceSpan(s, spans[n]) /\ h[n][s] \in S
             /\ PlaceSpan(s, spans[n]).reports =
                  IF Heard(spans[n], frames) THEN Append(s.reports, CutTo(spans[n], frames)) ELSE s.reports
  <2>1. h[n][s] = PlaceSpan(s, spans[n])
    OBVIOUS
  <2> HIDE DEF h
  <2>2. spans[n] \in SpanType(P \cup {None}) /\ spans[n].from < spans[n].to /\ None \notin P
    BY <1>1
  <2>3. s \in ScheduleType(frames, P) /\ Told(s, frames, P)
    OBVIOUS
  <2>4. /\ PlaceSpan(s, spans[n]) \in ScheduleType(frames, P) /\ Told(PlaceSpan(s, spans[n]), frames, P)
        /\ PlaceSpan(s, spans[n]).reports =
             IF Heard(spans[n], frames) THEN Append(s.reports, CutTo(spans[n], frames)) ELSE s.reports
    <3> DEFINE x == spans[n]
    <3>1. x \in SpanType(P \cup {None}) /\ x.from < x.to
      BY <2>2
    <3> HIDE DEF x, S, L, a
    <3>2. /\ PlaceSpan(s, x) \in ScheduleType(frames, P) /\ Told(PlaceSpan(s, x), frames, P)
          /\ PlaceSpan(s, x).reports = IF Heard(x, frames) THEN Append(s.reports, CutTo(x, frames)) ELSE s.reports
      BY <2>2, <2>3, <3>1, PlaceSpanIs
    <3> QED BY <3>2 DEF x
  <2> QED BY <2>1, <2>4
<1> HIDE DEF S, h, L, a
<1>4. PICK f \in [0 .. L -> S] : f[0] = a /\ \A n \in 1 .. L : f[n] = h[n][f[n - 1]]
  <2>1. StaysIn(S, L, h)
    BY <1>3 DEF StaysIn
  <2> QED BY <1>1, <1>2, <2>1, Recursion
<1>5. \A n \in 0 .. L : f[n] = IF n = 0 THEN a ELSE PlaceSpan(f[n - 1], spans[n])
  BY <1>1, <1>3, <1>4
<1>6. f = [n \in 0 .. L |-> IF n = 0 THEN a ELSE PlaceSpan(f[n - 1], spans[n])]
  BY <1>4, <1>5
<1>7. PlacingTo(f, frames, spans)
  BY <1>6 DEF PlacingTo, L, a, P
<1> DEFINE g == Placing(frames, spans)
<1>8. PlacingTo(g, frames, spans)
  BY <1>7 DEF Placing
<1>9. PlaceSpans(frames, spans) = g[L]
  BY DEF PlaceSpans, Placing, PlacingTo, PitchesOf, L
<1> HIDE DEF g
<1>10. g = [n \in 0 .. L |-> IF n = 0 THEN a ELSE PlaceSpan(g[n - 1], spans[n])]
  BY <1>8 DEF PlacingTo, L, a, P
<1>11. g[0] = a /\ \A n \in 1 .. L : g[n] = PlaceSpan(g[n - 1], spans[n])
  BY <1>1, <1>10
<1>12. \A n \in 0 .. L : g[n] \in S
  <2> DEFINE T == {n \in 0 .. L : g[n] \in S}
  <2>1. 0 \in T
    BY <1>1, <1>2, <1>11
  <2>2. ASSUME NEW n \in 0 .. L - 1, n \in T PROVE n + 1 \in T
    <3>1. n + 1 \in 1 .. L /\ n + 1 \in 0 .. L /\ n + 1 - 1 = n /\ g[n] \in S
      BY <1>1, <2>2
    <3>2. PlaceSpan(g[n], spans[n + 1]) \in S
      BY <1>3, <3>1
    <3>3. g[n + 1] = PlaceSpan(g[n], spans[n + 1])
      BY <1>11, <3>1
    <3> QED BY <3>1, <3>2, <3>3
  <2> HIDE DEF T
  <2>3. \A n \in 0 .. L : n \in T
    BY <1>1, <2>1, <2>2, UpFromZero
  <2> QED BY <2>3 DEF T
<1>13. \A n \in 1 .. L : n - 1 \in 0 .. L
  BY <1>1
<1>14. \A n \in 1 .. L : /\ g[n] = PlaceSpan(g[n - 1], spans[n])
                         /\ g[n].reports = IF Heard(spans[n], frames) THEN Append(g[n - 1].reports, CutTo(spans[n], frames))
                                           ELSE g[n - 1].reports
  BY <1>3, <1>11, <1>12, <1>13
<1>15. \A n \in 0 .. L : g[n] \in ScheduleType(frames, P) /\ Told(g[n], frames, P)
  BY <1>12 DEF S
<1> QED BY <1>9, <1>11, <1>14, <1>15 DEF g, L, P, a

--------------------------------------------------------------------------------
(* SpanSets, and what is kept of a sequence.                                *)

ChosenTo(f, sets) == f = [n \in 0 .. Len(sets) |-> IF n = 0 THEN {<<>>} ELSE OneMore(f[n - 1], sets[n])]
Chosen(sets) == CHOOSE f : ChosenTo(f, sets)

\* A choice takes its i-th element from the i-th set.
LEMMA ChoiceIs ==
  ASSUME NEW sets, Len(sets) \in Nat, NEW c \in OneOfEach(sets)
  PROVE  /\ c \in Seq(UNION {sets[i] : i \in 1 .. Len(sets)}) /\ Len(c) = Len(sets)
         /\ \A i \in 1 .. Len(sets) : c[i] \in sets[i]
<1> DEFINE L == Len(sets)  U == UNION {sets[i] : i \in 1 .. L}  S == SUBSET Seq(U)  a == {<<>>}
           h == [n \in 1 .. L |-> [x \in S |-> OneMore(x, sets[n])]]
<1>1. a \in S
  OBVIOUS
<1>2. ASSUME NEW n \in 1 .. L, NEW x \in S PROVE h[n][x] = OneMore(x, sets[n]) /\ OneMore(x, sets[n]) \in S
  <2>1. sets[n] \subseteq U
    BY <1>2
  <2> HIDE DEF U
  <2>2. \A d \in x, y \in sets[n] : Append(d, y) \in Seq(U)
    BY <2>1, Appending
  <2> QED BY <2>2 DEF OneMore
<1> HIDE DEF S, h, L, a, U
<1>3. StaysIn(S, L, h)
  BY <1>2 DEF StaysIn
<1>4. L \in Nat
  BY DEF L
<1>5. PICK f \in [0 .. L -> S] : f[0] = a /\ \A n \in 1 .. L : f[n] = h[n][f[n - 1]]
  BY <1>1, <1>3, <1>4, Recursion
<1>6. \A n \in 0 .. L : f[n] = IF n = 0 THEN a ELSE OneMore(f[n - 1], sets[n])
  <2>1. \A n \in 1 .. L : f[n - 1] \in S
    BY <1>4, <1>5
  <2>2. \A n \in 1 .. L : f[n] = OneMore(f[n - 1], sets[n])
    BY <1>2, <1>5, <2>1
  <2> QED BY <1>4, <1>5, <2>2
<1>7. f = [n \in 0 .. L |-> IF n = 0 THEN a ELSE OneMore(f[n - 1], sets[n])]
  BY <1>5, <1>6
<1> DEFINE g == Chosen(sets)
<1>8. ChosenTo(g, sets)
  <2>1. ChosenTo(f, sets)
    BY <1>7 DEF ChosenTo, L, a
  <2> QED BY <2>1 DEF Chosen
<1>9. c \in g[L]
  BY DEF OneOfEach, Chosen, ChosenTo, L
<1> HIDE DEF g
<1>10. g = [n \in 0 .. L |-> IF n = 0 THEN a ELSE OneMore(g[n - 1], sets[n])]
  BY <1>8 DEF ChosenTo, L, a
<1>11. g[0] = a /\ \A n \in 1 .. L : g[n] = OneMore(g[n - 1], sets[n])
  BY <1>4, <1>10
<1> DEFINE Good(d, n) == d \in Seq(U) /\ Len(d) = n /\ \A i \in 1 .. n : d[i] \in sets[i]
           T == {n \in 0 .. L : \A d \in g[n] : Good(d, n)}
<1>12. 0 \in T
  <2>1. \A d \in g[0] : d = <<>>
    BY <1>11 DEF a
  <2>2. Good(<<>>, 0)
    OBVIOUS
  <2> HIDE DEF Good
  <2>3. \A d \in g[0] : Good(d, 0)
    BY <2>1, <2>2
  <2> QED BY <1>4, <2>3
<1>13. ASSUME NEW n \in 0 .. L - 1, n \in T PROVE n + 1 \in T
  <2>1. n \in Nat /\ n + 1 \in 1 .. L /\ n + 1 \in 0 .. L
    BY <1>4
  <2>2. g[n + 1] = OneMore(g[n], sets[n + 1])
    BY <1>11, <2>1
  <2>3. ASSUME NEW d \in g[n + 1] PROVE Good(d, n + 1)
    <3>1. PICK e \in g[n], y \in sets[n + 1] : d = Append(e, y)
      BY <2>2, <2>3 DEF OneMore
    <3>2. e \in Seq(U) /\ Len(e) = n /\ \A i \in 1 .. n : e[i] \in sets[i]
      BY <1>13
    <3>3. y \in U
      BY <2>1, <3>1 DEF U
    <3>4. d \in Seq(U) /\ Len(d) = n + 1 /\ d[n + 1] = y /\ \A i \in 1 .. n : d[i] = e[i]
      BY <3>1, <3>2, <3>3, Appending
    <3>5. ASSUME NEW i \in 1 .. n + 1 PROVE d[i] \in sets[i]
      BY <2>1, <3>1, <3>2, <3>4
    <3> QED BY <3>4, <3>5
  <2> HIDE DEF Good
  <2> QED BY <2>1, <2>3
<1> HIDE DEF T
<1>14. \A n \in 0 .. L : n \in T
  BY <1>4, <1>12, <1>13, UpFromZero
<1>15. Good(c, L)
  BY <1>4, <1>9, <1>14 DEF T
<1> QED BY <1>15 DEF L, U

KeepingTo(f, s, keep) ==
  f = [n \in 0 .. Len(s) |-> IF n = 0 THEN <<>> ELSE IF n \in keep THEN Append(f[n - 1], s[n]) ELSE f[n - 1]]
Keeping(s, keep) == CHOOSE f : KeepingTo(f, s, keep)

\* Kept() as the last of its steps.
LEMMA KeepingIs ==
  ASSUME NEW S, NEW s \in Seq(S), NEW keep
  PROVE  /\ Kept(s, keep) = Keeping(s, keep)[Len(s)]
         /\ Keeping(s, keep) \in [0 .. Len(s) -> Seq(S)] /\ Keeping(s, keep)[0] = <<>>
         /\ \A n \in 1 .. Len(s) : Keeping(s, keep)[n] =
              IF n \in keep THEN Append(Keeping(s, keep)[n - 1], s[n]) ELSE Keeping(s, keep)[n - 1]
<1> DEFINE L == Len(s)  Q == Seq(S)  a == <<>>
           h == [n \in 1 .. L |-> [x \in Q |-> IF n \in keep THEN Append(x, s[n]) ELSE x]]
<1>1. a \in Q /\ L \in Nat /\ \A n \in 1 .. L : s[n] \in S
  OBVIOUS
<1>2. ASSUME NEW n \in 1 .. L, NEW x \in Q
      PROVE  h[n][x] = (IF n \in keep THEN Append(x, s[n]) ELSE x) /\ h[n][x] \in Q
  <2>1. h[n][x] = IF n \in keep THEN Append(x, s[n]) ELSE x
    OBVIOUS
  <2>2. Append(x, s[n]) \in Q
    BY <1>1, Appending
  <2> HIDE DEF h
  <2> QED BY <2>1, <2>2
<1> HIDE DEF h, L, Q, a
<1>3. StaysIn(Q, L, h)
  BY <1>2 DEF StaysIn
<1>4. PICK f \in [0 .. L -> Q] : f[0] = a /\ \A n \in 1 .. L : f[n] = h[n][f[n - 1]]
  BY <1>1, <1>3, Recursion
<1>5. \A n \in 1 .. L : n - 1 \in 0 .. L
  BY <1>1
<1>6. \A n \in 1 .. L : f[n] = IF n \in keep THEN Append(f[n - 1], s[n]) ELSE f[n - 1]
  BY <1>2, <1>4, <1>5
<1> DEFINE Further(x, n) == IF n \in keep THEN Append(x, s[n]) ELSE x
<1>7. f = [n \in 0 .. L |-> IF n = 0 THEN a ELSE IF n \in keep THEN Append(f[n - 1], s[n]) ELSE f[n - 1]]
  <2>1. \A n \in 1 .. L : f[n] = Further(f[n - 1], n)
    BY <1>6
  <2> HIDE DEF Further
  <2>2. \A n \in 0 .. L : f[n] = IF n = 0 THEN a ELSE Further(f[n - 1], n)
    BY <1>1, <1>4, <2>1
  <2>3. f = [n \in 0 .. L |-> IF n = 0 THEN a ELSE Further(f[n - 1], n)]
    BY <1>4, <2>2
  <2> QED BY <2>3 DEF Further
<1> DEFINE g == Keeping(s, keep)
<1>8. KeepingTo(g, s, keep)
  <2>1. KeepingTo(f, s, keep)
    BY <1>7 DEF KeepingTo, L, a
  <2> QED BY <2>1 DEF Keeping
<1>9. Kept(s, keep) = g[L]
  BY DEF Kept, Keeping, KeepingTo, L
<1> HIDE DEF g
<1>10. g = [n \in 0 .. L |-> IF n = 0 THEN a ELSE IF n \in keep THEN Append(g[n - 1], s[n]) ELSE g[n - 1]]
  BY <1>8 DEF KeepingTo, L, a
<1>11. g[0] = a /\ \A n \in 1 .. L : g[n] = IF n \in keep THEN Append(g[n - 1], s[n]) ELSE g[n - 1]
  <2>1. g = [n \in 0 .. L |-> IF n = 0 THEN a ELSE Further(g[n - 1], n)]
    BY <1>10
  <2> HIDE DEF Further
  <2>2. g[0] = a /\ \A n \in 1 .. L : g[n] = Further(g[n - 1], n)
    BY <1>1, <2>1
  <2> QED BY <2>2 DEF Further
<1> DEFINE T == {n \in 0 .. L : g[n] \in Q}
<1>12. 0 \in T
  BY <1>1, <1>11
<1>13. ASSUME NEW n \in 0 .. L - 1, n \in T PROVE n + 1 \in T
  <2>1. n + 1 \in 1 .. L /\ n + 1 \in 0 .. L /\ g[n] \in Q
    BY <1>1, <1>13
  <2>2. g[n + 1] = IF n + 1 \in keep THEN Append(g[n], s[n + 1]) ELSE g[n]
    BY <1>11, <2>1
  <2>3. Append(g[n], s[n + 1]) \in Q
    BY <1>1, <2>1, Appending DEF Q
  <2> QED BY <2>1, <2>2, <2>3
<1> HIDE DEF T
<1>14. \A n \in 0 .. L : n \in T
  BY <1>1, <1>12, <1>13, UpFromZero
<1>15. g \in [0 .. L -> Q]
  <2>1. \A n \in 0 .. L : g[n] \in Q
    BY <1>14 DEF T
  <2> QED BY <1>10, <2>1
<1> QED BY <1>9, <1>11, <1>15 DEF g, L, Q, a

\* What is kept of two sequences at the same places is at the same places.
LEMMA KeptAlike ==
  ASSUME NEW S, NEW s \in Seq(S), NEW R, NEW t \in Seq(R), Len(s) = Len(t), NEW keep
  PROVE  /\ Kept(s, keep) \in Seq(S) /\ Kept(t, keep) \in Seq(R)
         /\ Len(Kept(s, keep)) = Len(Kept(t, keep))
         /\ \A j \in 1 .. Len(Kept(s, keep)) :
              \E i \in 1 .. Len(s) : i \in keep /\ Kept(s, keep)[j] = s[i] /\ Kept(t, keep)[j] = t[i]
<1> DEFINE L == Len(s)  g == Keeping(s, keep)  q == Keeping(t, keep)
           Alike(n) == /\ Len(g[n]) = Len(q[n])
                       /\ \A j \in 1 .. Len(g[n]) : \E i \in 1 .. n : i \in keep /\ g[n][j] = s[i] /\ q[n][j] = t[i]
           T == {n \in 0 .. L : Alike(n)}
<1>1. /\ Kept(s, keep) = g[L] /\ g \in [0 .. L -> Seq(S)] /\ g[0] = <<>>
      /\ \A n \in 1 .. L : g[n] = IF n \in keep THEN Append(g[n - 1], s[n]) ELSE g[n - 1]
  BY KeepingIs
<1>2. /\ Kept(t, keep) = q[L] /\ q \in [0 .. L -> Seq(R)] /\ q[0] = <<>>
      /\ \A n \in 1 .. L : q[n] = IF n \in keep THEN Append(q[n - 1], t[n]) ELSE q[n - 1]
  BY KeepingIs
<1>3. L \in Nat /\ \A n \in 1 .. L : s[n] \in S /\ t[n] \in R
  OBVIOUS
<1> HIDE DEF g, q, L
<1>4. 0 \in T
  BY <1>1, <1>2, <1>3
<1>5. ASSUME NEW n \in 0 .. L - 1, n \in T PROVE n + 1 \in T
  <2>1. n \in Nat /\ n \in 0 .. L /\ n + 1 \in 1 .. L /\ n + 1 \in 0 .. L
    BY <1>3
  <2>2. /\ g[n + 1] = IF n + 1 \in keep THEN Append(g[n], s[n + 1]) ELSE g[n]
        /\ q[n + 1] = IF n + 1 \in keep THEN Append(q[n], t[n + 1]) ELSE q[n]
    BY <1>1, <1>2, <2>1
  <2>3. g[n] \in Seq(S) /\ q[n] \in Seq(R) /\ s[n + 1] \in S /\ t[n + 1] \in R
    BY <1>1, <1>2, <1>3, <2>1
  <2>4. /\ Len(g[n]) = Len(q[n])
        /\ \A j \in 1 .. Len(g[n]) : \E i \in 1 .. n : i \in keep /\ g[n][j] = s[i] /\ q[n][j] = t[i]
    BY <1>5
  <2>5. CASE n + 1 \notin keep
    <3>1. Alike(n + 1)
      BY <2>1, <2>2, <2>4, <2>5
    <3> QED BY <2>1, <3>1
  <2>6. CASE n + 1 \in keep
    <3>1. /\ Len(g[n]) \in Nat /\ Len(g[n + 1]) = Len(g[n]) + 1 /\ g[n + 1][Len(g[n]) + 1] = s[n + 1]
          /\ \A j \in 1 .. Len(g[n]) : g[n + 1][j] = g[n][j]
      BY <2>2, <2>3, <2>6, Appending
    <3>2. /\ Len(q[n + 1]) = Len(q[n]) + 1 /\ q[n + 1][Len(q[n]) + 1] = t[n + 1]
          /\ \A j \in 1 .. Len(q[n]) : q[n + 1][j] = q[n][j]
      BY <2>2, <2>3, <2>6, Appending
    <3>3. ASSUME NEW j \in 1 .. Len(g[n + 1])
          PROVE  \E i \in 1 .. n + 1 : i \in keep /\ g[n + 1][j] = s[i] /\ q[n + 1][j] = t[i]
      <4>1. CASE j = Len(g[n]) + 1
        BY <2>1, <2>4, <2>6, <3>1, <3>2, <4>1
      <4>2. CASE j # Len(g[n]) + 1
        <5>1. j \in 1 .. Len(g[n])
          BY <3>1, <4>2
        <5>2. PICK i \in 1 .. n : i \in keep /\ g[n][j] = s[i] /\ q[n][j] = t[i]
          BY <2>4, <5>1
        <5>3. g[n + 1][j] = g[n][j] /\ q[n + 1][j] = q[n][j]
          BY <2>4, <3>1, <3>2, <5>1
        <5> QED BY <2>1, <5>2, <5>3
      <4> QED BY <4>1, <4>2
    <3>4. Len(g[n + 1]) = Len(q[n + 1])
      BY <2>4, <3>1, <3>2
    <3>5. Alike(n + 1)
      BY <3>3, <3>4
    <3> HIDE DEF Alike
    <3> QED BY <2>1, <3>5
  <2> QED BY <2>5, <2>6
<1> HIDE DEF T
<1>6. \A n \in 0 .. L : n \in T
  BY <1>3, <1>4, <1>5, UpFromZero
<1>7. Alike(L)
  BY <1>3, <1>6 DEF T
<1>8. g[L] \in Seq(S) /\ q[L] \in Seq(R)
  BY <1>1, <1>2, <1>3
<1> QED BY <1>1, <1>2, <1>7, <1>8 DEF L

\* The same places of both sequences are kept.
SamePlaces(s, t, keep) ==
  \A j \in 1 .. Len(Kept(s, keep)) :
    \E i \in 1 .. Len(s) : i \in keep /\ Kept(s, keep)[j] = s[i] /\ Kept(t, keep)[j] = t[i]
LEMMA KeptPlaces ==
  ASSUME NEW S, NEW s \in Seq(S), NEW R, NEW t \in Seq(R), Len(s) = Len(t), NEW keep
  PROVE  SamePlaces(s, t, keep)
BY KeptAlike DEF SamePlaces

\* Nothing that is to be kept is missed.
LEMMA KeptHas ==
  ASSUME NEW S, NEW s \in Seq(S), NEW keep
  PROVE  \A i \in 1 .. Len(s) : i \in keep => \E j \in 1 .. Len(Kept(s, keep)) : Kept(s, keep)[j] = s[i]
<1> DEFINE L == Len(s)  g == Keeping(s, keep)
           Has(n) == \A i \in 1 .. n : i \in keep => \E j \in 1 .. Len(g[n]) : g[n][j] = s[i]
           T == {n \in 0 .. L : Has(n)}
<1>1. /\ Kept(s, keep) = g[L] /\ g \in [0 .. L -> Seq(S)] /\ g[0] = <<>>
      /\ \A n \in 1 .. L : g[n] = IF n \in keep THEN Append(g[n - 1], s[n]) ELSE g[n - 1]
  BY KeepingIs
<1>2. L \in Nat /\ \A n \in 1 .. L : s[n] \in S
  OBVIOUS
<1> HIDE DEF g, L
<1>3. 0 \in T
  BY <1>2
<1>4. ASSUME NEW n \in 0 .. L - 1, n \in T PROVE n + 1 \in T
  <2>1. n \in Nat /\ n \in 0 .. L /\ n + 1 \in 1 .. L /\ n + 1 \in 0 .. L
    BY <1>2
  <2>2. g[n + 1] = IF n + 1 \in keep THEN Append(g[n], s[n + 1]) ELSE g[n]
    BY <1>1, <2>1
  <2>3. g[n] \in Seq(S) /\ s[n + 1] \in S
    BY <1>1, <1>2, <2>1
  <2>4. Has(n)
    BY <1>4
  <2>5. CASE n + 1 \notin keep
    <3>1. Has(n + 1)
      BY <2>1, <2>2, <2>4, <2>5
    <3> HIDE DEF Has
    <3> QED BY <2>1, <3>1
  <2>6. CASE n + 1 \in keep
    <3>1. /\ Len(g[n]) \in Nat /\ Len(g[n + 1]) = Len(g[n]) + 1 /\ g[n + 1][Len(g[n]) + 1] = s[n + 1]
          /\ \A j \in 1 .. Len(g[n]) : g[n + 1][j] = g[n][j]
      BY <2>2, <2>3, <2>6, Appending
    <3>2. ASSUME NEW i \in 1 .. n + 1, i \in keep PROVE \E j \in 1 .. Len(g[n + 1]) : g[n + 1][j] = s[i]
      <4>1. CASE i = n + 1
        <5>1. Len(g[n]) + 1 \in 1 .. Len(g[n + 1])
          BY <3>1
        <5> QED BY <3>1, <4>1, <5>1
      <4>2. CASE i # n + 1
        <5>1. i \in 1 .. n
          BY <2>1, <4>2
        <5>2. PICK j \in 1 .. Len(g[n]) : g[n][j] = s[i]
          BY <2>4, <3>2, <5>1
        <5>3. j \in 1 .. Len(g[n + 1]) /\ g[n + 1][j] = s[i]
          BY <3>1, <5>2
        <5> QED BY <5>3
      <4> QED BY <4>1, <4>2
    <3>3. Has(n + 1)
      BY <3>2
    <3> HIDE DEF Has
    <3> QED BY <2>1, <3>3
  <2> QED BY <2>5, <2>6
<1> HIDE DEF T
<1>5. \A n \in 0 .. L : n \in T
  BY <1>2, <1>3, <1>4, UpFromZero
<1>6. Has(L)
  BY <1>2, <1>5 DEF T
<1> QED BY <1>1, <1>6 DEF L

\* A window tells what the schedule tells.
LEMMA WindowIs ==
  ASSUME NEW n \in Int, NEW P, NEW s \in ScheduleType(n, P), Told(s, n, P),
         NEW w \in Nat \ {0}, NEW from \in Nat, from < n
  PROVE  LET window == WindowOf(s, from, from + w)
         IN window.frames = AtMost(w, n - from) /\ WindowTrue(s, from, window)
<1> DEFINE end == from + w  till == AtMost(end, n)  window == WindowOf(s, from, end)
           keep == Overlapping(s.reports, from, end)
<1>1. s.frames = n /\ s.reports \in Seq(SpanType(P))
  BY DEF ScheduleType
<1>2. /\ window.frames = till - from /\ window.reports = Kept(s.reports, keep)
      /\ window.notes = [f \in 0 .. till - from - 1 |-> s.notes[from + f]]
      /\ window.drums = [f \in 0 .. till - from - 1 |-> s.drums[from + f]]
  BY <1>1 DEF WindowOf
<1>3. window.frames = AtMost(w, n - from)
  BY <1>2 DEF AtMost
<1>4. till \in Int /\ till <= end /\ till <= n
  BY DEF AtMost
<1> HIDE DEF window, till, keep
<1>5. ASSUME NEW f \in 0 .. window.frames - 1
      PROVE  /\ window.notes[f] = s.notes[from + f]
             /\ (window.drums[f] = 1) <=> \E r \in ToSet(window.reports) : r.from <= from + f /\ from + f < r.to
  <2>1. f \in 0 .. till - from - 1 /\ from + f \in 0 .. n - 1 /\ from + f < end /\ f \in Nat
    BY <1>2, <1>4, <1>5
  <2>2. window.notes[f] = s.notes[from + f] /\ window.drums[f] = s.drums[from + f]
    BY <1>2, <2>1
  <2>3. s.drums[from + f] = 1 <=> Hit(s, from + f)
    <3>1. s.drums[from + f] = IF Hit(s, from + f) THEN 1 ELSE 0
      BY <2>1 DEF Told
    <3> QED BY <3>1
  <2> DEFINE kept == Kept(s.reports, keep)
  <2>4. kept \in Seq(SpanType(P)) /\ ToSet(kept) = {kept[j] : j \in 1 .. Len(kept)}
    <3>1. kept \in Seq(SpanType(P))
      BY <1>1, KeptAlike
    <3> HIDE DEF kept
    <3> QED BY <3>1 DEF ToSet
  <2>5. ASSUME Hit(s, from + f) PROVE \E r \in ToSet(kept) : r.from <= from + f /\ from + f < r.to
    <3>1. PICK k \in DOMAIN s.reports : s.reports[k].from <= from + f /\ from + f < s.reports[k].to
      BY <2>5 DEF Hit
    <3>6. k \in 1 .. Len(s.reports) /\ s.reports[k] \in SpanType(P)
      BY <1>1, <3>1
    <3>2. k \in 1 .. Len(s.reports) /\ s.reports[k].from \in Int /\ s.reports[k].to \in Int
      BY <3>6 DEF SpanType
    <3>3. k \in keep
      BY <2>1, <3>1, <3>2 DEF keep, Overlapping
    <3>4. PICK j \in 1 .. Len(kept) : kept[j] = s.reports[k]
      BY <1>1, <3>2, <3>3, KeptHas
    <3> HIDE DEF kept
    <3> QED BY <2>4, <3>1, <3>4
  <2>6. ASSUME NEW r \in ToSet(kept), r.from <= from + f, from + f < r.to PROVE Hit(s, from + f)
    <3>1. PICK j \in 1 .. Len(kept) : r = kept[j]
      BY <2>4
    <3>2. PICK i \in 1 .. Len(s.reports) : kept[j] = s.reports[i]
      BY <1>1, <3>1, KeptAlike
    <3>3. i \in DOMAIN s.reports
      BY <1>1, <3>2
    <3> QED BY <2>6, <3>1, <3>2, <3>3 DEF Hit
  <2>7. ToSet(window.reports) = ToSet(kept)
    BY <1>2
  <2> HIDE DEF kept
  <2> QED BY <2>2, <2>3, <2>5, <2>6, <2>7
<1>6. WindowTrue(s, from, window)
  BY <1>5 DEF WindowTrue
<1> QED BY <1>3, <1>6 DEF window

\* Rows that agree with the reports have the tokens of TokensOfNotes.
LEMMA TellsTokens ==
  ASSUME NEW n \in Int, NEW P, made.schedule \in ScheduleType(n, P), Told(made.schedule, n, P)
  PROVE  TokensOfNotes
<1> DEFINE s == made.schedule  r == ToSet(s.reports)
<1>1. /\ s.notes \in [0 .. n - 1 -> [P -> 0 .. 2]] /\ r = {s.reports[k] : k \in DOMAIN s.reports}
  BY DEF ScheduleType, ToSet
<1>2. ASSUME NEW f \in DOMAIN s.notes
      PROVE  /\ \A p \in DOMAIN s.notes[f] :
                  s.notes[f][p] = IF \E x \in r : x.pitch = p /\ x.from = f THEN 2
                                  ELSE IF \E x \in r : x.pitch = p /\ x.from < f /\ f < x.to THEN 1 ELSE 0
             /\ s.drums[f] = IF \E x \in r : x.from <= f /\ f < x.to THEN 1 ELSE 0
  <2>1. f \in 0 .. n - 1 /\ DOMAIN s.notes[f] = P
    BY <1>1
  <2> HIDE DEF s, r
  <2>2. \A p : Begins(s, f, p) <=> \E x \in r : x.pitch = p /\ x.from = f
    BY <1>1 DEF Begins
  <2>3. \A p : Lasts(s, f, p) <=> \E x \in r : x.pitch = p /\ x.from < f /\ f < x.to
    BY <1>1 DEF Lasts
  <2>4. Hit(s, f) <=> \E x \in r : x.from <= f /\ f < x.to
    BY <1>1 DEF Hit
  <2>5. /\ \A p \in P : s.notes[f][p] = IF Begins(s, f, p) THEN 2 ELSE IF Lasts(s, f, p) THEN 1 ELSE 0
        /\ s.drums[f] = IF Hit(s, f) THEN 1 ELSE 0
    BY <2>1 DEF Told, s
  <2> QED BY <2>1, <2>2, <2>3, <2>4, <2>5
<1> QED BY <1>2 DEF TokensOfNotes

\* Windows of such rows agree with their own reports.
LEMMA TellsWindows ==
  ASSUME NEW n \in Int, NEW P, made.schedule \in ScheduleType(n, P), Told(made.schedule, n, P)
  PROVE  WindowsTile
<1> DEFINE s == made.schedule
<1>1. s.frames = n
  BY DEF ScheduleType
<1> SUFFICES ASSUME NEW w \in 1 .. 3, NEW i \in 0 .. (n - 1) \div w
             PROVE  LET window == WindowOf(s, i * w, (i + 1) * w)
                    IN window.frames = AtMost(w, n - i * w) /\ WindowTrue(s, i * w, window)
  BY <1>1 DEF WindowsTile
<1>2. i * w \in Nat /\ i * w < n /\ (i + 1) * w = i * w + w /\ w \in Nat \ {0}
  <2>1. CASE w = 1
    BY <2>1
  <2>2. CASE w = 2
    BY <2>2
  <2>3. CASE w = 3
    BY <2>3
  <2> QED BY <2>1, <2>2, <2>3
<1> DEFINE from == i * w
<1> HIDE DEF from, s
<1>3. LET window == WindowOf(s, from, from + w)
      IN window.frames = AtMost(w, n - from) /\ WindowTrue(s, from, window)
  BY <1>2, WindowIs DEF from, s
<1> QED BY <1>2, <1>3 DEF from

--------------------------------------------------------------------------------
(* Spans that fit the frames of a schedule.                                *)

\* Division with remainder.
LEMMA Halving ==
  ASSUME NEW n \in Int, NEW d \in Nat \ {0}
  PROVE  /\ n \div d \in Int /\ n % d \in 0 .. d - 1 /\ d * (n \div d) = n - (n % d)
         /\ n >= 0 => n \div d >= 0
<1>1. n \div d \in Int /\ n % d \in 0 .. d - 1 /\ n = d * (n \div d) + (n % d)
  OBVIOUS
<1>2. n >= 0 => n \div d >= 0
  OBVIOUS
<1> QED BY <1>1, <1>2

\* A ceiling is no earlier than its fraction, and at most one unit later.
LEMMA CeilingIs ==
  ASSUME NEW n \in Int, NEW d \in Nat \ {0}, NEW e \in CeilingOf(n, d)
  PROVE  e \in Int /\ d * e >= n /\ d * e <= n + d
<1> DEFINE q == n \div d  m == n % d
<1>1. q \in Int /\ m \in 0 .. d - 1 /\ d * q = n - m
  BY Halving
<1>2. e \in (IF m # 0 THEN {q + 1} ELSE IF n = 0 THEN {0} ELSE {q, q + 1})
  BY DEF CeilingOf
<1> HIDE DEF q, m
<1>3. d * (q + 1) = d * q + d
  BY <1>1
<1>4. CASE e = q + 1
  BY <1>1, <1>3, <1>4
<1>5. CASE e = q /\ m = 0
  BY <1>1, <1>5
<1>6. CASE e = 0 /\ n = 0
  BY <1>6
<1> QED BY <1>2, <1>4, <1>5, <1>6

\* A rounding is within half a unit of its fraction.
LEMMA RoundingIs ==
  ASSUME NEW n \in Int, NEW d \in Nat \ {0}, NEW s \in RoundingOf(n, d)
  PROVE  /\ s \in Int /\ 2 * (d * s) <= 2 * n + d /\ 2 * (d * s) >= 2 * n - d
         /\ n >= 0 => s >= 0
<1> DEFINE q == n \div d  m == n % d
<1>1. q \in Int /\ m \in 0 .. d - 1 /\ d * q = n - m /\ (n >= 0 => q >= 0)
  BY Halving
<1>2. s \in (IF 2 * m < d THEN {q} ELSE IF 2 * m > d THEN {q + 1} ELSE {q, q + 1})
  BY DEF RoundingOf
<1> HIDE DEF q, m
<1>3. d * (q + 1) = d * q + d
  BY <1>1
<1>4. CASE s = q + 1 /\ 2 * m >= d
  BY <1>1, <1>3, <1>4
<1>5. CASE s = q /\ 2 * m <= d
  BY <1>1, <1>5
<1> QED BY <1>1, <1>2, <1>4, <1>5

\* A frame no product of a rate orders wrongly.
LEMMA Cancel ==
  ASSUME NEW a \in Int, NEW b \in Int, NEW d \in Nat \ {0}, d * a < d * b + d
  PROVE  a <= b
<1> SUFFICES ASSUME a >= b + 1 PROVE FALSE
  OBVIOUS
<1>1. d * (a - b - 1) >= 0
  OBVIOUS
<1>2. d * (a - b - 1) = d * a - d * b - d
  OBVIOUS
<1> QED BY <1>1, <1>2

\* Where a span lies: within half a frame of its start, to its end at least
\* and a frame longer at most, or one frame long.
LEMMA SpanIs ==
  ASSUME NEW pitch, NEW start \in Int, NEW end \in Int, NEW d \in Nat \ {0}, NEW r \in SpansOf(pitch, start, end, d)
  PROVE  /\ r.pitch = pitch /\ r.from \in Int /\ r.to \in Int /\ r.from < r.to /\ r = [pitch |-> pitch, from |-> r.from, to |-> r.to]
         /\ 2 * (d * r.from) <= 2 * (start * 25) + d /\ 2 * (d * r.from) >= 2 * (start * 25) - d
         /\ start >= 0 => r.from >= 0
         /\ d * r.to >= end * 25
         /\ d * r.to <= end * 25 + d \/ r.to = r.from + 1
<1>1. PICK s \in RoundingOf(start * 25, d), e \in CeilingOf(end * 25, d) : r = Span(pitch, s, e)
  BY DEF SpansOf, FrameRate
<1> DEFINE n == start * 25  m == end * 25
<1>2. n \in Int /\ m \in Int /\ (start >= 0 => n >= 0)
  OBVIOUS
<1>3. s \in RoundingOf(n, d) /\ e \in CeilingOf(m, d)
  BY <1>1
<1> HIDE DEF n, m
<1>4. s \in Int /\ 2 * (d * s) <= 2 * n + d /\ 2 * (d * s) >= 2 * n - d /\ (n >= 0 => s >= 0)
  BY <1>2, <1>3, RoundingIs
<1>5. e \in Int /\ d * e >= m /\ d * e <= m + d
  BY <1>2, <1>3, CeilingIs
<1>6. r = [pitch |-> pitch, from |-> s, to |-> AtLeast(e, s + 1)]
  BY <1>1 DEF Span
<1>7. r.pitch = pitch /\ r.from = s /\ r.to = AtLeast(e, s + 1) /\ r = [pitch |-> pitch, from |-> r.from, to |-> r.to]
  BY <1>6
<1>8. r.to \in Int /\ r.to >= e /\ r.to > s /\ (r.to = e \/ r.to = s + 1)
  BY <1>4, <1>5, <1>7 DEF AtLeast
<1>9. d * r.to >= m
  <2>1. d * (r.to - e) >= 0 /\ d * (r.to - e) = d * r.to - d * e
    BY <1>5, <1>8
  <2> QED BY <1>2, <1>5, <1>8, <2>1
<1>10. d * r.to <= m + d \/ r.to = r.from + 1
  BY <1>5, <1>7, <1>8
<1> QED BY <1>2, <1>4, <1>7, <1>8, <1>9, <1>10 DEF n, m

\* Without a limit there is room for the end and the tail.
LEMMA FramesAreInt ==
  ASSUME NEW finish \in Int, NEW tail \in Nat, NEW cap \in Int, NEW d \in Nat \ {0},
         NEW frames \in TotalFrames(finish, tail, cap, d)
  PROVE  /\ frames \in Int
         /\ cap = None /\ tail > 0 => d * frames >= finish * 25 + 25 * d
<1>1. PICK f \in CeilingOf((finish + tail * d) * 25, d) : frames = Capped(f, cap)
  BY DEF TotalFrames, FrameRate
<1> DEFINE n == (finish + tail * d) * 25
<1>2. n \in Int
  OBVIOUS
<1>3. tail > 0 => n >= finish * 25 + 25 * d
  <2>1. n = finish * 25 + 25 * (tail * d)
    OBVIOUS
  <2>2. tail > 0 => tail * d >= d
    <3> SUFFICES ASSUME tail > 0 PROVE tail * d >= d
      OBVIOUS
    <3>1. (tail - 1) * d >= 0 /\ (tail - 1) * d = tail * d - d
      OBVIOUS
    <3> QED BY <3>1
  <2> QED BY <2>1, <2>2
<1>4. f \in CeilingOf(n, d)
  BY <1>1
<1> HIDE DEF n
<1>5. f \in Int /\ d * f >= n
  BY <1>2, <1>4, CeilingIs
<1>6. frames \in Int /\ (cap = None => frames >= f)
  BY <1>1, <1>5 DEF Capped, AtLeast, AtMost
<1>7. ASSUME cap = None PROVE d * frames >= n
  <2>1. d * (frames - f) >= 0 /\ d * (frames - f) = d * frames - d * f
    BY <1>5, <1>6, <1>7
  <2> QED BY <1>2, <1>5, <1>6, <2>1
<1> QED BY <1>2, <1>3, <1>6, <1>7

\* What ends by the end is heard before the last frame.
LEMMA SpanFits ==
  ASSUME NEW finish \in Nat, NEW tail \in Nat, tail > 0, NEW d \in Nat, d > 1,
         NEW frames \in TotalFrames(finish, tail, None, d), NEW pitch,
         NEW start \in Nat, NEW end \in Int, start <= finish, end <= finish + 1,
         NEW r \in SpansOf(pitch, start, end, d)
  PROVE  r.from < frames /\ r.to <= frames
<1>9. d \in Nat \ {0} /\ None \in Int
  BY DEF None
<1>1. frames \in Int /\ d * frames >= finish * 25 + 25 * d
  <2>1. finish \in Int
    OBVIOUS
  <2> QED BY <1>9, <2>1, FramesAreInt, Zenon
<1>2. /\ r.from \in Int /\ r.to \in Int
      /\ 2 * (d * r.from) <= 2 * (start * 25) + d
      /\ d * r.to <= end * 25 + d \/ r.to = r.from + 1
  BY <1>9, SpanIs
<1> DEFINE x == d * r.from  y == d * r.to  z == d * frames
<1>3. x \in Int /\ y \in Int /\ z \in Int /\ d * (frames - 1) = z - d
  BY <1>1, <1>2
<1>4. z >= finish * 25 + 25 * d /\ 2 * x <= 2 * (start * 25) + d /\ (y <= end * 25 + d \/ r.to = r.from + 1)
  BY <1>1, <1>2
<1> HIDE DEF x, y, z
<1>5. x < z - d + d
  BY <1>3, <1>4
<1>6. r.from <= frames - 1
  <2>1. d * r.from < d * (frames - 1) + d
    BY <1>3, <1>5 DEF x
  <2> QED BY <1>1, <1>2, <2>1, Cancel
<1>7. CASE y <= end * 25 + d
  <2>1. y < z + d
    BY <1>3, <1>4, <1>7
  <2>2. d * r.to < d * frames + d
    BY <2>1 DEF y, z
  <2> QED BY <1>1, <1>2, <1>6, <2>2, Cancel
<1>8. CASE r.to = r.from + 1
  BY <1>1, <1>2, <1>6, <1>8
<1> QED BY <1>4, <1>7, <1>8

\* Where every span fits, what is heard is what has a pitch.
LEMMA AllHeard ==
  ASSUME NEW frames \in Int, NEW spans, IsSpans(spans),
         \A i \in 1 .. Len(spans) : spans[i].from < frames /\ spans[i].to <= frames
  PROVE  PlaceSpans(frames, spans).reports = Kept(spans, {i \in DOMAIN spans : spans[i].pitch # None})
<1> DEFINE L == Len(spans)  P == PitchesOf(spans)  keep == {i \in DOMAIN spans : spans[i].pitch # None}
           g == Placing(frames, spans)  q == Keeping(spans, keep)
           T == {n \in 0 .. L : g[n].reports = q[n]}
<1>1. spans \in Seq(SpanType(P \cup {None})) /\ DOMAIN spans = 1 .. L /\ L \in Nat
  <2>1. spans \in Seq(SpanType(P \cup {None}))
    BY DEF IsSpans
  <2> HIDE DEF P
  <2> QED BY <2>1
<1>2. /\ PlaceSpans(frames, spans) = g[L] /\ g[0] = EmptySchedule(frames, P)
      /\ \A n \in 1 .. L : g[n].reports = IF Heard(spans[n], frames) THEN Append(g[n - 1].reports, CutTo(spans[n], frames))
                                          ELSE g[n - 1].reports
  BY PlacingIs
<1>3. /\ Kept(spans, keep) = q[L] /\ q[0] = <<>>
      /\ \A n \in 1 .. L : q[n] = IF n \in keep THEN Append(q[n - 1], spans[n]) ELSE q[n - 1]
  <2> DEFINE U == SpanType(P \cup {None})
  <2>1. spans \in Seq(U)
    BY <1>1
  <2> HIDE DEF keep, P, T, g, U
  <2> QED BY <2>1, KeepingIs
<1>4. g[0].reports = <<>>
  BY <1>2 DEF EmptySchedule
<1>5. ASSUME NEW n \in 1 .. L PROVE (Heard(spans[n], frames) <=> n \in keep) /\ CutTo(spans[n], frames) = spans[n]
  <2>1. spans[n] \in SpanType(P \cup {None})
    BY <1>1
  <2>2. spans[n].from \in Int /\ spans[n].to \in Int
        /\ spans[n] = [pitch |-> spans[n].pitch, from |-> spans[n].from, to |-> spans[n].to]
    BY <2>1 DEF SpanType
  <2>3. AtMost(spans[n].to, frames) = spans[n].to
    BY <2>2 DEF AtMost
  <2>4. CutTo(spans[n], frames) = spans[n]
    BY <2>2, <2>3 DEF CutTo
  <2> QED BY <1>1, <2>4 DEF Heard
<1> HIDE DEF g, q, L, keep, P
<1>6. 0 \in T
  BY <1>1, <1>3, <1>4
<1>7. ASSUME NEW n \in 0 .. L - 1, n \in T PROVE n + 1 \in T
  <2>1. n + 1 \in 1 .. L /\ n + 1 \in 0 .. L /\ n + 1 - 1 = n /\ g[n].reports = q[n]
    BY <1>1, <1>7
  <2>2. /\ g[n + 1].reports = IF n + 1 \in keep THEN Append(g[n].reports, spans[n + 1]) ELSE g[n].reports
        /\ q[n + 1] = IF n + 1 \in keep THEN Append(q[n], spans[n + 1]) ELSE q[n]
    BY <1>2, <1>3, <1>5, <2>1
  <2> QED BY <2>1, <2>2
<1> HIDE DEF T
<1>8. \A n \in 0 .. L : n \in T
  BY <1>1, <1>6, <1>7, UpFromZero
<1>9. g[L].reports = q[L]
  BY <1>1, <1>8 DEF T
<1> QED BY <1>2, <1>3, <1>9 DEF keep

\* The greatest of a bounded set.
LEMMA Greatest ==
  ASSUME NEW b \in Nat, NEW T, T \subseteq 0 .. b, T # {}
  PROVE  Max(T) \in T /\ \A k \in T : k <= Max(T)
<1> DEFINE U == {n \in Nat : b - n \in T}
<1>1. U \subseteq Nat /\ U # {}
  <2>1. PICK k \in T : TRUE
    OBVIOUS
  <2>2. b - k \in U
    BY <2>1
  <2> QED BY <2>2
<1> HIDE DEF U
<1>2. PICK m \in U : \A n \in U : m <= n
  BY <1>1, Least
<1>3. b - m \in T /\ \A k \in T : b - k \in U /\ k \in Int
  BY <1>2 DEF U
<1>4. \A k \in T : b - m >= k
  BY <1>1, <1>2, <1>3
<1>5. Max(T) \in T /\ \A k \in T : Max(T) >= k
  BY <1>3, <1>4 DEF Max
<1> QED BY <1>3, <1>5

\* The least of a set.
LEMMA Smallest ==
  ASSUME NEW T, T \subseteq Nat, T # {}
  PROVE  Min(T) \in T /\ \A k \in T : Min(T) <= k
<1>1. \E m \in T : \A k \in T : m <= k
  BY Least
<1> QED BY <1>1 DEF Min

\* The end of what has n ends.
EndsOf(a, n, f) == {a} \cup {f[i] : i \in 1 .. n}

\* The greatest of the ends.
LEMMA GreatestOf ==
  ASSUME NEW n \in Nat, NEW a \in Int, NEW f, \A i \in 1 .. n : f[i] \in Int
  PROVE  Max(EndsOf(a, n, f)) \in EndsOf(a, n, f) /\ \A k \in EndsOf(a, n, f) : k <= Max(EndsOf(a, n, f))
<1> DEFINE S == {a} \cup {f[i] : i \in 1 .. n}
           T == {k \in 0 .. n : \E m \in S : m >= a /\ \A i \in 1 .. k : m >= f[i]}
<1>1. 0 \in T
  OBVIOUS
<1>2. ASSUME NEW k \in 0 .. n - 1, k \in T PROVE k + 1 \in T
  <2>1. PICK m \in S : m >= a /\ \A i \in 1 .. k : m >= f[i]
    BY <1>2
  <2>2. k + 1 \in 1 .. n /\ f[k + 1] \in Int /\ f[k + 1] \in S /\ m \in Int
    BY <2>1
  <2> HIDE DEF S
  <2>3. CASE m >= f[k + 1]
    BY <2>1, <2>2, <2>3
  <2>4. CASE f[k + 1] > m
    <3>1. f[k + 1] >= a /\ \A i \in 1 .. k + 1 : f[k + 1] >= f[i]
      BY <2>1, <2>2, <2>4
    <3> QED BY <2>2, <3>1
  <2> QED BY <2>2, <2>3, <2>4
<1> HIDE DEF T
<1>3. \A k \in 0 .. n : k \in T
  BY <1>1, <1>2, UpFromZero
<1>4. n \in T
  BY <1>3
<1>5. PICK m \in S : m >= a /\ \A i \in 1 .. n : m >= f[i]
  BY <1>4 DEF T
<1>6. \A k \in S : m >= k
  BY <1>5
<1>7. Max(S) \in S /\ \A k \in S : Max(S) >= k
  <2> HIDE DEF S
  <2> QED BY <1>6 DEF Max
<1>8. \A k \in S : k \in Int
  OBVIOUS
<1> HIDE DEF S
<1>9. \A k \in S : k <= Max(S)
  BY <1>7, <1>8
<1> QED BY <1>7, <1>9 DEF S, EndsOf

--------------------------------------------------------------------------------
(* What is built of n things at their times.                               *)

IsSpan(r) ==
  r = [pitch |-> r.pitch, from |-> r.from, to |-> r.to] /\ r.from \in Int /\ r.to \in Int /\ r.from < r.to

\* A sequence of spans, one by one.
LEMMA AreSpans ==
  ASSUME NEW n \in Nat, NEW spans, Len(spans) = n, NEW R, spans \in Seq(R), \A i \in 1 .. n : IsSpan(spans[i])
  PROVE  IsSpans(spans)
<1> DEFINE P == PitchesOf(spans) \cup {None}
<1>1. \A i \in 1 .. n : spans[i].pitch \in P
  BY DEF PitchesOf, ToSet
<1> HIDE DEF P
<1>2. \A i \in 1 .. n : spans[i] \in SpanType(P)
  BY <1>1 DEF SpanType, IsSpan
<1>3. spans \in Seq(SpanType(P))
  BY <1>2
<1>4. \A i \in 1 .. Len(spans) : spans[i].from < spans[i].to
  BY DEF IsSpan
<1> QED BY <1>3, <1>4 DEF IsSpans, P

Within(n, st, en, end) == \A i \in 1 .. n : st[i] <= end /\ en[i] <= end + 1
\* The spans of n things: thing i has pitch pit[i], and sounds from st[i] to en[i].
Pitched(n, pit) == {i \in 1 .. n : pit[i] # None}
Timed(n, st, en) == \A i \in 1 .. n : st[i] \in Nat /\ en[i] \in Int
SpanSets(n, pit, st, en, d) == [i \in 1 .. n |-> SpansOf(pit[i], st[i], en[i], d)]

BuiltWell(n, pit, st, en, d, end, tail, cap, frames, spans) ==
  /\ frames \in Int /\ IsSpans(spans) /\ Len(spans) = n
  /\ \A i \in 1 .. n : spans[i] \in SpansOf(pit[i], st[i], en[i], d)
  /\ cap = None /\ tail > 0 /\ Within(n, st, en, end)
     => PlaceSpans(frames, spans).reports = Kept(spans, Pitched(n, pit))

\* Every choice of the spans is spans that fit.
LEMMA Built ==
  ASSUME NEW n \in Nat, NEW pit, NEW st, NEW en, Timed(n, st, en),
         NEW d \in Nat, d > 1, NEW end \in Nat, NEW tail \in Nat, NEW cap \in Int,
         NEW frames \in TotalFrames(end, tail, cap, d), NEW spans \in OneOfEach(SpanSets(n, pit, st, en, d))
  PROVE  BuiltWell(n, pit, st, en, d, end, tail, cap, frames, spans)
<1> DEFINE sets == SpanSets(n, pit, st, en, d)  U == UNION {sets[i] : i \in 1 .. Len(sets)}
<1>8. d \in Nat \ {0} /\ end \in Int
  OBVIOUS
<1>1. frames \in Int
  BY <1>8, FramesAreInt
<1>2. spans \in OneOfEach(sets) /\ Len(sets) = n /\ \A i \in 1 .. n : sets[i] = SpansOf(pit[i], st[i], en[i], d)
  BY DEF SpanSets
<1> HIDE DEF sets
<1>3. Len(spans) = n /\ spans \in Seq(U) /\ \A i \in 1 .. n : spans[i] \in sets[i]
  BY <1>2, ChoiceIs
<1>4. \A i \in 1 .. n : spans[i] \in SpansOf(pit[i], st[i], en[i], d)
  BY <1>2, <1>3
<1>5. \A i \in 1 .. n : IsSpan(spans[i]) /\ spans[i].pitch = pit[i]
  BY <1>4, <1>8, SpanIs DEF IsSpan, Timed
<1>6. IsSpans(spans)
  BY <1>3, <1>5, AreSpans
<1>7. ASSUME cap = None, tail > 0, Within(n, st, en, end)
      PROVE  PlaceSpans(frames, spans).reports = Kept(spans, Pitched(n, pit))
  <2>1. \A i \in 1 .. n : spans[i].from < frames /\ spans[i].to <= frames
    BY <1>4, <1>7, SpanFits DEF Timed, Within
  <2>2. PlaceSpans(frames, spans).reports = Kept(spans, {i \in DOMAIN spans : spans[i].pitch # None})
    BY <1>1, <1>3, <1>6, <2>1, AllHeard
  <2>3. {i \in DOMAIN spans : spans[i].pitch # None} = Pitched(n, pit)
    BY <1>3, <1>5 DEF Pitched
  <2> QED BY <2>2, <2>3
<1> QED BY <1>1, <1>3, <1>4, <1>6, <1>7 DEF BuiltWell

OnTime(r, asked, unit) ==
  LET late == 2 * (r.from * unit - asked.start * FrameRate)
  IN /\ late <= unit /\ late >= -unit
     /\ r.to * unit >= asked.end * FrameRate
     /\ r.to * unit <= asked.end * FrameRate + unit \/ r.to = r.from + 1

\* A span is within half a frame of what was asked.
LEMMA SpanOnTime ==
  ASSUME NEW pitch, NEW start \in Int, NEW end \in Int, NEW d \in Nat, d > 1, NEW r \in SpansOf(pitch, start, end, d),
         NEW asked, asked.start = start, asked.end = end
  PROVE  OnTime(r, asked, d)
<1>1. d \in Nat \ {0}
  OBVIOUS
<1>2. /\ r.from \in Int /\ r.to \in Int
      /\ 2 * (d * r.from) <= 2 * (start * 25) + d /\ 2 * (d * r.from) >= 2 * (start * 25) - d
      /\ d * r.to >= end * 25
      /\ d * r.to <= end * 25 + d \/ r.to = r.from + 1
  BY <1>1, SpanIs
<1> DEFINE x == d * r.from  y == d * r.to
<1>3. x \in Int /\ y \in Int /\ r.from * d = x /\ r.to * d = y
  BY <1>2
<1> HIDE DEF x, y
<1>4. /\ 2 * x <= 2 * (start * 25) + d /\ 2 * x >= 2 * (start * 25) - d
      /\ y >= end * 25 /\ (y <= end * 25 + d \/ r.to = r.from + 1)
  BY <1>2 DEF x, y
<1>5. /\ 2 * (x - start * 25) <= d /\ 2 * (x - start * 25) >= -d
      /\ y >= asked.end * 25 /\ (y <= asked.end * 25 + d \/ r.to = r.from + 1)
  BY <1>3, <1>4
<1> QED BY <1>3, <1>5 DEF OnTime, FrameRate

\* Of packets, and of ADG events, start and end as the code computes them.
StartOf(source, p) == IF source = "packets" THEN p.start ELSE EventStart(p)
EndOf(source, p) == IF source = "packets" THEN PacketEnd(p) ELSE AtLeast(EventEnd(p), EventStart(p) + 1)
LastEnd(source, packets) ==
  IF source = "packets" THEN LastOf({PacketEnd(p) : p \in ToSet(packets)}) ELSE LastOf({EventEnd(p) : p \in ToSet(packets)})

\* The times of packets and of events, and their end.
LEMMA PacketTimes ==
  ASSUME DrumAssumption, NEW packets \in Packets, NEW source \in {"packets", "events"}
  PROVE  /\ Len(packets) \in Nat /\ DOMAIN packets = 1 .. Len(packets) /\ packets \in Seq(ToSet(packets))
         /\ LastEnd(source, packets) \in Nat
         /\ \A i \in 1 .. Len(packets) :
              LET start == StartOf(source, packets[i])  end == EndOf(source, packets[i]) IN
              /\ start \in Nat /\ end \in Int
              /\ start <= LastEnd(source, packets) /\ end <= LastEnd(source, packets) + 1
<1> DEFINE n == Len(packets)
           f == [i \in 1 .. n |-> IF source = "packets" THEN PacketEnd(packets[i]) ELSE EventEnd(packets[i])]
<1>1. n \in Nat /\ DOMAIN packets = 1 .. n /\ packets \in Seq(ToSet(packets))
  BY DEF DrumAssumption
<1>2. \A i \in 1 .. n : packets[i].start \in Nat /\ packets[i].micro \in Int /\ packets[i].duration \in Int
  BY <1>1 DEF DrumAssumption
<1>3. ASSUME NEW i \in 1 .. n
      PROVE  LET start == StartOf(source, packets[i])  end == EndOf(source, packets[i]) IN
             f[i] \in Int /\ start \in Nat /\ end \in Int /\ (start < f[i] \/ start = 0) /\ (end <= f[i] + 1 \/ end <= 1)
  <2> DEFINE p == packets[i]
  <2>1. f[i] = IF source = "packets" THEN PacketEnd(p) ELSE EventEnd(p)
    OBVIOUS
  <2>2. p.start \in Nat /\ p.micro \in Int /\ p.duration \in Int
    BY <1>2
  <2> HIDE DEF f, p
  <2>3. CASE source = "packets"
    <3>1. /\ f[i] = p.start + AtLeast(p.duration, 1) /\ StartOf(source, p) = p.start
          /\ EndOf(source, p) = p.start + AtLeast(p.duration, 1)
      BY <2>1, <2>3 DEF StartOf, EndOf, PacketEnd
    <3>2. AtLeast(p.duration, 1) \in Nat /\ AtLeast(p.duration, 1) >= 1
      BY <2>2 DEF AtLeast
    <3> QED BY <2>2, <3>1, <3>2 DEF p
  <2>4. CASE source # "packets"
    <3>1. /\ f[i] = p.start + p.micro + AtLeast(p.duration, 1) /\ StartOf(source, p) = AtLeast(p.start + p.micro, 0)
          /\ EndOf(source, p) = AtLeast(f[i], StartOf(source, p) + 1)
      BY <2>1, <2>4 DEF StartOf, EndOf, EventStart, EventEnd
    <3>2. AtLeast(p.duration, 1) \in Nat /\ AtLeast(p.duration, 1) >= 1
      BY <2>2 DEF AtLeast
    <3>3. f[i] \in Int /\ p.start + p.micro \in Int /\ p.start + p.micro < f[i]
      BY <2>2, <3>1, <3>2
    <3> QED BY <3>1, <3>3 DEF p, AtLeast
  <2> QED BY <2>3, <2>4
<1>4. LastEnd(source, packets) = Max({0} \cup {f[i] : i \in 1 .. n})
  <2>1. CASE source = "packets"
    <3>1. {PacketEnd(p) : p \in ToSet(packets)} = {f[i] : i \in 1 .. n}
      BY <1>1, <2>1 DEF ToSet
    <3> QED BY <2>1, <3>1 DEF LastEnd, LastOf
  <2>2. CASE source # "packets"
    <3>1. {EventEnd(p) : p \in ToSet(packets)} = {f[i] : i \in 1 .. n}
      BY <1>1, <2>2 DEF ToSet
    <3> QED BY <2>2, <3>1 DEF LastEnd, LastOf
  <2> QED BY <2>1, <2>2
<1> HIDE DEF f, n
<1>5. \A i \in 1 .. n : f[i] \in Int
  BY <1>3
<1> DEFINE S == {0} \cup {f[i] : i \in 1 .. n}  m == Max(S)
<1>6. m \in S /\ \A k \in S : k <= m
  <2>1. n \in Nat /\ 0 \in Int
    BY <1>1
  <2> HIDE DEF m, S
  <2>2. LET U == EndsOf(0, n, f) IN Max(U) \in U /\ \A k \in U : k <= Max(U)
    BY <1>5, <2>1, GreatestOf
  <2> QED BY <2>2 DEF m, S, EndsOf
<1>7. 0 \in S /\ S \subseteq Int /\ \A i \in 1 .. n : f[i] \in S
  BY <1>5
<1> HIDE DEF S, m
<1>8. m \in Nat /\ \A i \in 1 .. n : f[i] <= m
  <2>1. m \in Int /\ 0 <= m
    BY <1>6, <1>7
  <2>2. \A i \in 1 .. n : f[i] <= m
    BY <1>6, <1>7
  <2> QED BY <2>1, <2>2
<1>9. m = LastEnd(source, packets)
  BY <1>4 DEF m, S
<1>10. ASSUME NEW i \in 1 .. n
       PROVE  LET start == StartOf(source, packets[i])  end == EndOf(source, packets[i]) IN
              start \in Nat /\ end \in Int /\ start <= m /\ end <= m + 1
  <2>1. f[i] \in Int /\ m \in Nat /\ f[i] <= m
    BY <1>3, <1>8
  <2> QED BY <1>3, <2>1
<1> QED BY <1>1, <1>8, <1>9, <1>10 DEF n

\* The limits, and units shorter than half a frame.
LEMMA LimitIs ==
  ASSUME DrumAssumption, NEW limit \in Limits
  PROVE  /\ limit[1] \in Nat /\ limit[2] \in Int
         /\ Rate \in Nat /\ Rate > 1 /\ 1000 * PerBeat \in Nat /\ 1000 * PerBeat > 1
BY DEF DrumAssumption, None, FrameRate

\* A schedule is that of a length and a choice.
LEMMA SchedulesAre ==
  ASSUME NEW lengths, NEW sets, NEW s \in Schedules(lengths, sets)
  PROVE  \E frames \in lengths, spans \in OneOfEach(sets) : s = PlaceSpans(frames, spans)
BY DEF Schedules

\* What the bridge makes of packets, or of events.
PacketSets(source, packets) ==
  SpanSets(Len(packets), [i \in 1 .. Len(packets) |-> PitchForPacket(packets[i])],
          [i \in 1 .. Len(packets) |-> StartOf(source, packets[i])],
          [i \in 1 .. Len(packets) |-> EndOf(source, packets[i])], Rate)

BuiltOf(source, packets, tail, cap) ==
  IF source = "packets" THEN BuildConditioningSchedule(packets, Rate, tail, cap)
  ELSE BuildFromAdgEvents(packets, Rate, tail, cap)

\* The schedules of the bridge, for both of its inputs.
LEMMA PacketsBuilt ==
  ASSUME DrumAssumption, NEW packets \in Packets, NEW source \in {"packets", "events"}, NEW tail, NEW cap,
         NEW s \in BuiltOf(source, packets, tail, cap)
  PROVE  \E frames \in TotalFrames(LastEnd(source, packets), tail, cap, Rate), spans \in OneOfEach(PacketSets(source, packets)) :
           s = PlaceSpans(frames, spans)
<1>1. DOMAIN packets = 1 .. Len(packets)
  BY PacketTimes
<1>2. CASE source = "packets"
  <2>1. [i \in DOMAIN packets |-> PacketSpans(packets[i], Rate)] = PacketSets(source, packets)
    BY <1>1, <1>2 DEF PacketSets, SpanSets, PacketSpans, StartOf, EndOf
  <2>2. s \in BuildConditioningSchedule(packets, Rate, tail, cap)
    BY <1>2 DEF BuiltOf
  <2>3. s \in Schedules(TotalFrames(LastEnd(source, packets), tail, cap, Rate), PacketSets(source, packets))
    BY <1>2, <2>1, <2>2 DEF BuildConditioningSchedule, LastEnd
  <2> QED BY <2>3, SchedulesAre
<1>3. CASE source # "packets"
  <2>1. [i \in DOMAIN packets |-> EventSpans(packets[i], Rate)] = PacketSets(source, packets)
    BY <1>1, <1>3 DEF PacketSets, SpanSets, EventSpans, StartOf, EndOf
  <2>2. s \in BuildFromAdgEvents(packets, Rate, tail, cap)
    BY <1>3 DEF BuiltOf
  <2>3. s \in Schedules(TotalFrames(LastEnd(source, packets), tail, cap, Rate), PacketSets(source, packets))
    BY <1>3, <2>1, <2>2 DEF BuildFromAdgEvents, LastEnd
  <2> QED BY <2>3, SchedulesAre
<1> QED BY <1>2, <1>3

\* What AskedOfPacket() says of the times that are placed.
LEMMA PacketAsked ==
  ASSUME DrumAssumption, NEW packets \in Packets, made.source \in {"packets", "events"}, NEW i \in 1 .. Len(packets)
  PROVE  LET asked == AskedOfPacket(packets[i])  start == StartOf(made.source, packets[i])  end == EndOf(made.source, packets[i])
         IN asked.start = start /\ asked.end = end
<1> DEFINE p == packets[i]  asked == AskedOfPacket(p)
<1>1. p.start \in Nat /\ p.micro \in Int /\ p.duration \in Int
  BY PacketTimes DEF DrumAssumption
<1> HIDE DEF p
<1>2. CASE made.source = "packets"
  <2>1. /\ asked.start = AtLeast(p.start + 0, 0) /\ asked.end = AtLeast(p.start + 0 + p.duration, AtLeast(p.start + 0, 0) + 1)
        /\ StartOf(made.source, p) = p.start /\ EndOf(made.source, p) = p.start + AtLeast(p.duration, 1)
    BY <1>2 DEF AskedOfPacket, StartOf, EndOf, PacketEnd
  <2> QED BY <1>1, <2>1 DEF AtLeast, p
<1>3. CASE made.source = "events"
  <2> DEFINE start == AtLeast(p.start + p.micro, 0)
  <2>1. /\ asked.start = start /\ asked.end = AtLeast(p.start + p.micro + p.duration, start + 1)
        /\ StartOf(made.source, p) = start
        /\ EndOf(made.source, p) = AtLeast(p.start + p.micro + AtLeast(p.duration, 1), start + 1)
    BY <1>3 DEF AskedOfPacket, StartOf, EndOf, EventEnd, EventStart
  <2> QED BY <1>1, <2>1 DEF AtLeast, p
<1> QED BY <1>2, <1>3

\* ScheduleHeard of what the bridge makes.
LEMMA PacketsHeard ==
  ASSUME DrumAssumption, made.source \in {"packets", "events"}, made.packets \in Packets, made.limit \in Limits,
         made.schedule \in BuiltOf(made.source, made.packets, made.limit[1], made.limit[2])
  PROVE  ScheduleHeard
<1> DEFINE packets == made.packets  n == Len(packets)  source == made.source  s == made.schedule
           pit == [i \in 1 .. n |-> PitchForPacket(packets[i])]
           st == [i \in 1 .. n |-> StartOf(source, packets[i])]
           en == [i \in 1 .. n |-> EndOf(source, packets[i])]
           end == LastEnd(source, packets)
           R == ToSet(packets)
           keep == Pitched(n, pit)
           tail == made.limit[1]  cap == made.limit[2]
<1>1. PICK frames \in TotalFrames(end, tail, cap, Rate), spans \in OneOfEach(PacketSets(source, packets)) :
        s = PlaceSpans(frames, spans)
  <2> HIDE DEF end
  <2> QED BY PacketsBuilt DEF end
<1>2. /\ n \in Nat /\ Len(packets) = n /\ DOMAIN packets = 1 .. n /\ packets \in Seq(R) /\ end \in Nat
      /\ \A i \in 1 .. n : st[i] \in Nat /\ en[i] \in Int /\ st[i] <= end /\ en[i] <= end + 1
  BY PacketTimes
<1>3. tail \in Nat /\ cap \in Int /\ Rate \in Nat /\ Rate > 1
  BY LimitIs
<1>4. spans \in OneOfEach(SpanSets(n, pit, st, en, Rate))
  BY <1>1 DEF PacketSets
<1>5. ASSUME NEW i \in 1 .. n
      PROVE  /\ pit[i] = PitchForPacket(packets[i])
             /\ LET asked == AskedOfPacket(packets[i])
                IN asked.start = st[i] /\ asked.end = en[i]
  BY PacketAsked
<1>6. Asked = [i \in DOMAIN Kept(packets, keep) |-> AskedOfPacket(Kept(packets, keep)[i])]
  <2>1. keep = {i \in DOMAIN packets : PitchForPacket(packets[i]) # None}
    BY <1>2 DEF Pitched
  <2>2. Asked = LET mapped == Mapped(packets) IN [i \in DOMAIN mapped |-> AskedOfPacket(mapped[i])]
    BY DEF Asked
  <2> QED BY <2>1, <2>2 DEF Mapped
<1>7. Unit = Rate
  BY DEF Unit
<1> HIDE DEF packets, n, source, s, pit, st, en, end, R, keep, tail, cap
<1>8. /\ frames \in Int /\ IsSpans(spans) /\ Len(spans) = n
      /\ \A i \in 1 .. n : spans[i] \in SpansOf(pit[i], st[i], en[i], Rate)
      /\ cap = None /\ tail > 0 => PlaceSpans(frames, spans).reports = Kept(spans, Pitched(n, pit))
  <2>1. Timed(n, st, en)
    BY <1>2 DEF Timed
  <2>2. frames \in TotalFrames(end, tail, cap, Rate) /\ n \in Nat /\ end \in Nat
    BY <1>1, <1>2
  <2>3. Within(n, st, en, end)
    BY <1>2 DEF Within
  <2>4. BuiltWell(n, pit, st, en, Rate, end, tail, cap, frames, spans)
    BY <1>3, <1>4, <2>1, <2>2, Built
  <2> QED BY <2>3, <2>4 DEF BuiltWell
<1>9. TokensOfNotes /\ WindowsTile
  <2>1. s \in ScheduleType(frames, PitchesOf(spans)) /\ Told(s, frames, PitchesOf(spans))
    <3>1. Len(spans) \in 0 .. Len(spans)
      BY <1>2, <1>8
    <3> QED BY <1>1, <1>8, <3>1, PlacingIs
  <2> QED BY <1>8, <2>1, TellsTokens, TellsWindows DEF s
<1>10. ASSUME cap = None, tail > 0
       PROVE  /\ Len(s.reports) = Len(Asked)
              /\ \A i \in DOMAIN Asked : OnTime(s.reports[i], Asked[i], Unit)
  <2> DEFINE kept == Kept(packets, keep)  heard == Kept(spans, keep)  S == SpanType(PitchesOf(spans) \cup {None})
  <2>1. s.reports = heard
    BY <1>1, <1>2, <1>8, <1>10 DEF keep
  <2>2. spans \in Seq(S)
    BY <1>8 DEF IsSpans
  <2> HIDE DEF S
  <2>3. /\ kept \in Seq(R) /\ Len(heard) = Len(kept)
        /\ \A j \in 1 .. Len(heard) : \E i \in 1 .. Len(spans) : i \in keep /\ heard[j] = spans[i] /\ kept[j] = packets[i]
    <3>1. Len(packets) = n /\ Len(spans) = n /\ packets \in Seq(R)
      BY <1>2, <1>8
    <3>2. Len(packets) = Len(spans)
      BY <3>1
    <3> HIDE DEF kept, heard
    <3>3. Kept(packets, keep) \in Seq(R) /\ Len(Kept(spans, keep)) = Len(Kept(packets, keep))
      BY <2>2, <3>1, <3>2, KeptAlike
    <3>4. \A j \in 1 .. Len(Kept(spans, keep)) :
            \E i \in 1 .. Len(spans) : i \in keep /\ Kept(spans, keep)[j] = spans[i] /\ Kept(packets, keep)[j] = packets[i]
      <4>1. SamePlaces(spans, packets, keep)
        BY <2>2, <3>1, <3>2, KeptPlaces
      <4> QED BY <4>1 DEF SamePlaces
    <3> QED BY <3>3, <3>4 DEF kept, heard
  <2> HIDE DEF kept, heard
  <2>4. Asked = [i \in DOMAIN kept |-> AskedOfPacket(kept[i])] /\ DOMAIN kept = 1 .. Len(kept) /\ Len(kept) \in Nat
    BY <1>6, <2>3 DEF kept
  <2>5. Len(Asked) = Len(kept) /\ DOMAIN Asked = 1 .. Len(kept)
    BY <2>4
  <2>6. ASSUME NEW j \in 1 .. Len(kept) PROVE OnTime(heard[j], Asked[j], Unit)
    <3>1. PICK i \in 1 .. n : heard[j] = spans[i] /\ kept[j] = packets[i]
      BY <1>8, <2>3
    <3> DEFINE asked == AskedOfPacket(packets[i])
    <3>2. Asked[j] = asked
      BY <2>4, <3>1
    <3>3. asked.start = st[i] /\ asked.end = en[i]
      BY <1>5
    <3>4. spans[i] \in SpansOf(pit[i], st[i], en[i], Rate) /\ st[i] \in Int /\ en[i] \in Int
      BY <1>2, <1>8
    <3> HIDE DEF asked
    <3>5. OnTime(spans[i], asked, Rate)
      BY <1>3, <3>3, <3>4, SpanOnTime
    <3> QED BY <1>7, <3>1, <3>2, <3>5
  <2> QED BY <2>1, <2>3, <2>5, <2>6
<1>11. NotesOnTime
  BY <1>10 DEF NotesOnTime, OnTime, tail, cap, s
<1> QED BY <1>9, <1>11 DEF ScheduleHeard

--------------------------------------------------------------------------------
(* The time of a tick.                                                     *)

TempoType == [tick : Nat, tempo : TempoSet]
TemposTyped == tempos \in Seq(TempoType) /\ TempoSet \subseteq Nat

\* An entry of the tempo map.
LEMMA TempoIs ==
  ASSUME TemposTyped, NEW i \in DOMAIN tempos
  PROVE  i \in 1 .. Len(tempos) /\ tempos[i].tick \in Nat /\ tempos[i].tempo \in Nat
<1>1. tempos[i] \in TempoType /\ i \in 1 .. Len(tempos)
  BY DEF TemposTyped
<1> QED BY <1>1 DEF TempoType, TemposTyped

\* The tempo map is a sequence.
LEMMA LenTempos ==
  ASSUME TemposTyped
  PROVE  Len(tempos) \in Nat /\ DOMAIN tempos = 1 .. Len(tempos)
BY DEF TemposTyped

\* Of the tempos up to a tick there is a latest.
LEMMA LatestIs ==
  ASSUME TemposTyped, NEW t \in Nat, UpTo(t) # {}
  PROVE  Latest(t) # {} /\ Latest(t) \subseteq 0 .. Len(tempos) /\ Max(Latest(t)) \in Latest(t)
<1> DEFINE T == {tempos[i].tick : i \in UpTo(t)}
<1>1. T \subseteq 0 .. t /\ T # {}
  BY TempoIs DEF UpTo
<1> HIDE DEF T
<1>2. Max(T) \in T /\ \A k \in T : k <= Max(T)
  BY <1>1, Greatest
<1>3. PICK i \in UpTo(t) : Max(T) = tempos[i].tick
  BY <1>2 DEF T
<1>4. i \in Latest(t)
  BY <1>2, <1>3 DEF Latest, T
<1>5. Latest(t) \subseteq 0 .. Len(tempos) /\ Len(tempos) \in Nat
  BY LenTempos DEF Latest, UpTo
<1>6. Max(Latest(t)) \in Latest(t)
  BY <1>4, <1>5, Greatest
<1> QED BY <1>4, <1>5, <1>6

\* The tempo in force is one of the file's or the default one.
LEMMA TempoAtIs ==
  ASSUME TemposTyped, NEW t \in Nat
  PROVE  TempoAt(t) \in Nat
<1>1. CASE UpTo(t) = {}
  BY <1>1 DEF TempoAt, DefaultTempo
<1>2. CASE UpTo(t) # {}
  <2>1. Max(Latest(t)) \in DOMAIN tempos
    BY <1>2, LatestIs DEF Latest, UpTo
  <2> QED BY <1>2, <2>1, TempoIs DEF TempoAt
<1> QED BY <1>1, <1>2

\* The tempo in force: that of the last map entry before a tick.
LEMMA InForce ==
  ASSUME TemposTyped, NEW c \in DOMAIN NormalizeTempos(tempos), NEW u \in Nat, c <= u,
         \A e \in DOMAIN NormalizeTempos(tempos) : e <= c \/ e > u
  PROVE  NormalizeTempos(tempos)[c] = TempoAt(u)
<1> DEFINE D == DOMAIN NormalizeTempos(tempos)
<1>1. D = {0} \cup {tempos[i].tick : i \in DOMAIN tempos} /\ NormalizeTempos(tempos)[c] = TempoFrom(tempos, c)
  BY DEF NormalizeTempos
<1> HIDE DEF D
<1>2. \A i \in DOMAIN tempos : tempos[i].tick \in Nat /\ tempos[i].tick \in D
  BY <1>1, TempoIs
<1>3. \A i \in DOMAIN tempos : tempos[i].tick <= c \/ tempos[i].tick > u
  BY <1>2 DEF D
<1>4. c \in Nat
  BY <1>1, <1>2 DEF D
<1>5. CASE ReadAt(tempos, c) = {}
  <2>1. c = 0
    BY <1>1, <1>5 DEF ReadAt, D
  <2>2. UpTo(u) = {}
    <3> SUFFICES ASSUME NEW i \in DOMAIN tempos, tempos[i].tick <= u PROVE FALSE
      BY DEF UpTo
    <3>1. tempos[i].tick = 0
      BY <1>2, <1>3, <2>1
    <3> QED BY <1>5, <2>1, <3>1 DEF ReadAt
  <2> QED BY <1>1, <1>5, <2>2 DEF TempoFrom, TempoAt
<1>6. CASE ReadAt(tempos, c) # {}
  <2>1. PICK k \in DOMAIN tempos : tempos[k].tick = c
    BY <1>6 DEF ReadAt
  <2>2. k \in UpTo(u)
    BY <2>1 DEF UpTo
  <2>3. ASSUME NEW i \in DOMAIN tempos PROVE i \in Latest(u) <=> i \in ReadAt(tempos, c)
    <3>1. tempos[i].tick \in Nat /\ (tempos[i].tick <= c \/ tempos[i].tick > u)
      BY <1>2, <1>3
    <3>2. ASSUME i \in Latest(u) PROVE tempos[i].tick = c
      <4>1. tempos[i].tick <= u /\ tempos[k].tick <= tempos[i].tick
        BY <2>2, <3>2 DEF Latest, UpTo
      <4> QED BY <1>4, <2>1, <3>1, <4>1
    <3>3. ASSUME tempos[i].tick = c PROVE i \in Latest(u)
      <4>1. \A j \in UpTo(u) : tempos[j].tick <= tempos[i].tick
        BY <1>2, <1>3, <3>3 DEF UpTo
      <4> QED BY <3>3, <4>1 DEF Latest, UpTo
    <3> QED BY <3>2, <3>3 DEF ReadAt
  <2>4. Latest(u) = ReadAt(tempos, c)
    BY <2>3 DEF Latest, UpTo, ReadAt
  <2> QED BY <1>1, <1>6, <2>2, <2>4 DEF TempoFrom, TempoAt
<1> QED BY <1>5, <1>6

SumsTo(f, t) == f = [u \in 0 .. t |-> IF u = 0 THEN 0 ELSE f[u - 1] + TempoAt(u - 1)]
Sums(t) == CHOOSE f : SumsTo(f, t)

\* TimeOf() as the last of its sums.
LEMMA SumsAre ==
  ASSUME TemposTyped, NEW t \in Nat
  PROVE  /\ TimeOf(t) = Sums(t)[t] /\ Sums(t)[0] = 0
         /\ \A u \in 1 .. t : Sums(t)[u] = Sums(t)[u - 1] + TempoAt(u - 1)
<1> DEFINE h == [n \in 1 .. t |-> [x \in Nat |-> x + TempoAt(n - 1)]]
<1>1. \A n \in 1 .. t : n - 1 \in Nat /\ TempoAt(n - 1) \in Nat
  BY TempoAtIs
<1>2. \A n \in 1 .. t, x \in Nat : h[n][x] = x + TempoAt(n - 1) /\ h[n][x] \in Nat
  BY <1>1
<1> HIDE DEF h
<1> DEFINE a == 0  S == Nat
<1>3. StaysIn(S, t, h) /\ a \in S
  BY <1>2 DEF StaysIn
<1> HIDE DEF a, S
<1>4. PICK f \in [0 .. t -> S] : f[0] = a /\ \A n \in 1 .. t : f[n] = h[n][f[n - 1]]
  BY <1>3, Recursion
<1> USE DEF a, S
<1>5. \A n \in 1 .. t : f[n] = f[n - 1] + TempoAt(n - 1)
  <2>1. \A n \in 1 .. t : n - 1 \in 0 .. t /\ f[n - 1] \in Nat
    BY <1>4
  <2> QED BY <1>2, <1>4, <2>1
<1>6. f = [u \in 0 .. t |-> IF u = 0 THEN 0 ELSE f[u - 1] + TempoAt(u - 1)]
  <2>1. \A u \in 0 .. t : f[u] = IF u = 0 THEN 0 ELSE f[u - 1] + TempoAt(u - 1)
    BY <1>4, <1>5
  <2> QED BY <1>4, <2>1
<1> DEFINE g == Sums(t)
<1>7. SumsTo(g, t)
  BY <1>6 DEF SumsTo, Sums
<1>8. TimeOf(t) = g[t]
  BY DEF TimeOf, Sums, SumsTo
<1> HIDE DEF g
<1>9. g = [u \in 0 .. t |-> IF u = 0 THEN 0 ELSE g[u - 1] + TempoAt(u - 1)]
  BY <1>7 DEF SumsTo
<1>10. g[0] = 0 /\ \A u \in 1 .. t : g[u] = g[u - 1] + TempoAt(u - 1)
  BY <1>9
<1> QED BY <1>8, <1>10 DEF g

\* TimeOf() goes on by the tempo in force.
LEMMA TimeIs ==
  ASSUME TemposTyped
  PROVE  TimeOf(0) = 0 /\ \A t \in Nat : TimeOf(t) \in Nat /\ TimeOf(t + 1) = TimeOf(t) + TempoAt(t)
<1>1. TimeOf(0) = 0
  BY SumsAre
<1>2. ASSUME NEW t \in Nat PROVE TimeOf(t) \in Nat /\ TimeOf(t + 1) = TimeOf(t) + TempoAt(t)
  <2> DEFINE g == Sums(t + 1)  f == Sums(t)  T == {u \in 0 .. t : g[u] = f[u] /\ f[u] \in Nat}
  <2>1. g[0] = 0 /\ f[0] = 0 /\ TimeOf(t) = f[t] /\ TimeOf(t + 1) = g[t + 1]
        /\ (\A u \in 1 .. t : f[u] = f[u - 1] + TempoAt(u - 1))
        /\ (\A u \in 1 .. t + 1 : g[u] = g[u - 1] + TempoAt(u - 1))
    <3>1. t + 1 \in Nat
      OBVIOUS
    <3> QED BY <3>1, SumsAre
  <2>2. \A u \in Nat : TempoAt(u) \in Nat
    BY TempoAtIs
  <2> HIDE DEF g, f
  <2>3. 0 \in T
    BY <2>1
  <2>4. ASSUME NEW n \in 0 .. t - 1, n \in T PROVE n + 1 \in T
    <3>1. n + 1 \in 1 .. t /\ n + 1 \in 1 .. t + 1 /\ n + 1 - 1 = n /\ n \in Nat /\ g[n] = f[n] /\ f[n] \in Nat
      BY <2>4
    <3>2. f[n + 1] = f[n] + TempoAt(n) /\ g[n + 1] = g[n] + TempoAt(n)
      BY <2>1, <3>1
    <3> QED BY <2>2, <3>1, <3>2
  <2> HIDE DEF T
  <2>5. \A n \in 0 .. t : n \in T
    BY <2>3, <2>4, UpFromZero
  <2>6. g[t] = f[t] /\ f[t] \in Nat
    BY <2>5 DEF T
  <2>7. g[t + 1] = g[t] + TempoAt(t)
    BY <2>1
  <2> QED BY <2>1, <2>6, <2>7
<1> QED BY <1>1, <1>2

\* While the tempo stays, time is its multiple.
LEMMA Stretch ==
  ASSUME TemposTyped, NEW a \in Nat, NEW b \in Nat, a <= b, NEW m \in Nat, \A u \in a .. b - 1 : TempoAt(u) = m
  PROVE  TimeOf(b) = TimeOf(a) + (b - a) * m
<1> DEFINE T == {n \in 0 .. b - a : TimeOf(a + n) = TimeOf(a) + n * m}
<1>1. \A t \in Nat : TimeOf(t) \in Nat /\ TimeOf(t + 1) = TimeOf(t) + TempoAt(t)
  BY TimeIs
<1>2. 0 \in T
  BY <1>1
<1>3. ASSUME NEW n \in 0 .. b - a - 1, n \in T PROVE n + 1 \in T
  <2>1. a + n \in Nat /\ a + n \in a .. b - 1 /\ a + (n + 1) = (a + n) + 1 /\ (n + 1) * m = n * m + m
    OBVIOUS
  <2>2. TimeOf(a + (n + 1)) = TimeOf(a + n) + m
    BY <1>1, <2>1
  <2>3. TimeOf(a + n) = TimeOf(a) + n * m
    BY <1>3
  <2>4. TimeOf(a) \in Nat /\ n * m \in Nat
    BY <1>1
  <2>5. TimeOf(a + (n + 1)) = TimeOf(a) + (n + 1) * m
    BY <2>1, <2>2, <2>3, <2>4
  <2>6. n + 1 \in 0 .. b - a
    OBVIOUS
  <2> QED BY <2>5, <2>6
<1> HIDE DEF T
<1>4. b - a \in Nat
  OBVIOUS
<1>5. \A n \in 0 .. b - a : n \in T
  BY <1>2, <1>3, <1>4, UpFromZero
<1>6. TimeOf(a + (b - a)) = TimeOf(a) + (b - a) * m
  BY <1>5 DEF T
<1>7. a + (b - a) = b
  OBVIOUS
<1> QED BY <1>6, <1>7

\* Time never goes back.
LEMMA TimeGrows ==
  ASSUME TemposTyped, NEW a \in Nat, NEW b \in Nat, a <= b
  PROVE  TimeOf(a) \in Nat /\ TimeOf(b) \in Nat /\ TimeOf(a) <= TimeOf(b)
<1> DEFINE T == {n \in 0 .. b - a : TimeOf(a) <= TimeOf(a + n)}
<1>1. \A t \in Nat : TimeOf(t) \in Nat /\ TimeOf(t + 1) = TimeOf(t) + TempoAt(t) /\ TempoAt(t) \in Nat
  BY TimeIs, TempoAtIs
<1>2. 0 \in T
  BY <1>1
<1>3. ASSUME NEW n \in 0 .. b - a - 1, n \in T PROVE n + 1 \in T
  <2>1. a + n \in Nat /\ a + (n + 1) = (a + n) + 1 /\ n + 1 \in 0 .. b - a
    OBVIOUS
  <2>2. TimeOf(a + (n + 1)) = TimeOf(a + n) + TempoAt(a + n)
    BY <1>1, <2>1
  <2>3. TimeOf(a) <= TimeOf(a + n)
    BY <1>3
  <2> QED BY <1>1, <2>1, <2>2, <2>3
<1> HIDE DEF T
<1>4. b - a \in Nat
  OBVIOUS
<1>5. \A n \in 0 .. b - a : n \in T
  BY <1>2, <1>3, <1>4, UpFromZero
<1>6. TimeOf(a) <= TimeOf(a + (b - a))
  BY <1>5 DEF T
<1>7. a + (b - a) = b
  OBVIOUS
<1> QED BY <1>1, <1>6, <1>7

ElapsedTo(f, map, before) ==
  f = [e \in before |-> IF e = 0 THEN 0
                        ELSE LET current == Max({c \in before : c < e}) IN f[current] + (e - current) * map[current]]
ElapsedAt(map, before) == CHOOSE f : ElapsedTo(f, map, before)

\* tick_to_seconds() is the sum of the tempos in force.
LEMMA TickExact ==
  ASSUME TemposTyped, NEW t \in Nat
  PROVE  TickTime(t, tempos) = TimeOf(t)
<1> DEFINE map == NormalizeTempos(tempos)
           before == {0} \cup {e \in DOMAIN map : e < t}
           Prior(e) == {c \in before : c < e}
           f == ElapsedAt(map, before)
<1>1. DOMAIN map \subseteq Nat /\ 0 \in DOMAIN map
  BY TempoIs DEF NormalizeTempos
<1>2. /\ before \subseteq 0 .. t /\ 0 \in before /\ before \subseteq DOMAIN map
      /\ \A e \in before : e \in Nat /\ e <= t
  BY <1>1
<1>3. TickTime(t, tempos) = Elapsed(map, before) + (t - Max(before)) * map[Max(before)]
  BY DEF TickTime, TimeOn, AtLeast
<1>4. Elapsed(map, before) = f[Max(before)]
  BY DEF Elapsed, ElapsedAt, ElapsedTo
<1>5. \A e \in DOMAIN map : e < t => e \in before
  OBVIOUS
<1> HIDE DEF map, before, f
<1>6. ASSUME NEW c \in before, NEW u \in Nat, c <= u, u <= t, \A e \in before : e <= c \/ e >= u
      PROVE  TimeOf(u) = TimeOf(c) + (u - c) * map[c]
  <2>1. c \in Nat /\ c \in DOMAIN map
    BY <1>2
  <2>2. ASSUME NEW v \in c .. u - 1 PROVE TempoAt(v) = map[c] /\ v \in Nat
    <3>1. v \in Nat /\ c <= v /\ v < u
      BY <2>1
    <3>2. \A e \in DOMAIN map : e <= c \/ e > v
      BY <1>1, <1>5, <1>6, <2>1, <3>1
    <3> QED BY <2>1, <3>1, <3>2, InForce DEF map
  <2>3. CASE c = u
    <3>1. map[c] \in Nat
      <4>1. \A e \in DOMAIN map : e <= c \/ e > c
        BY <1>1, <2>1
      <4>2. map[c] = TempoAt(c)
        BY <2>1, <4>1, InForce DEF map
      <4> QED BY <2>1, <4>2, TempoAtIs
    <3>2. TimeOf(c) \in Nat
      BY <2>1, TimeIs
    <3> QED BY <2>1, <2>3, <3>1, <3>2
  <2>4. CASE c < u
    <3>1. c \in c .. u - 1
      BY <2>1, <2>4
    <3>2. map[c] \in Nat
      BY <2>2, <3>1, TempoAtIs
    <3> QED BY <1>6, <2>1, <2>2, <3>2, Stretch
  <2> QED BY <1>6, <2>1, <2>3, <2>4
<1>7. ASSUME NEW e \in before, e # 0
      PROVE  LET current == Max(Prior(e))
             IN current \in before /\ current < e /\ TimeOf(e) = TimeOf(current) + (e - current) * map[current]
  <2> DEFINE c == Max(Prior(e))
  <2>1. e \in Nat /\ e <= t /\ Prior(e) \subseteq 0 .. t /\ 0 \in Prior(e)
    <3>1. e \in Nat /\ e <= t /\ 0 < e
      BY <1>2, <1>7
    <3> QED BY <1>2, <3>1
  <2>2. c \in Prior(e) /\ \A k \in Prior(e) : k <= c
    <3> HIDE DEF Prior
    <3> QED BY <2>1, Greatest
  <2> HIDE DEF c
  <2>3. c \in before /\ c < e
    BY <2>2
  <2>4. \A k \in before : k <= c \/ k >= e
    BY <1>2, <2>1, <2>2
  <2>5. c \in Nat
    BY <1>2, <2>3
  <2> QED BY <1>6, <2>1, <2>3, <2>4, <2>5 DEF c
<1>8. ElapsedTo(f, map, before)
  <2> DEFINE w == [e \in before |-> TimeOf(e)]
  <2>1. \A e \in before : w[e] = IF e = 0 THEN 0
                                 ELSE LET current == Max(Prior(e)) IN w[current] + (e - current) * map[current]
    <3> SUFFICES ASSUME NEW e \in before
                 PROVE  w[e] = IF e = 0 THEN 0 ELSE LET current == Max(Prior(e)) IN w[current] + (e - current) * map[current]
      OBVIOUS
    <3>1. CASE e = 0
      BY <3>1, TimeIs
    <3>2. CASE e # 0
      <4> DEFINE c == Max(Prior(e))
      <4>1. c \in before /\ TimeOf(e) = TimeOf(c) + (e - c) * map[c]
        BY <1>7, <3>2
      <4> HIDE DEF c
      <4>2. w[e] = w[c] + (e - c) * map[c]
        BY <4>1
      <4> QED BY <3>2, <4>2 DEF c
    <3> QED BY <3>1, <3>2
  <2>2. w = [e \in before |-> w[e]]
    OBVIOUS
  <2> HIDE DEF w
  <2>3. w = [e \in before |-> IF e = 0 THEN 0
                              ELSE LET current == Max(Prior(e)) IN w[current] + (e - current) * map[current]]
    BY <2>1, <2>2
  <2>4. ElapsedTo(w, map, before)
    BY <2>3 DEF ElapsedTo
  <2> QED BY <2>4 DEF ElapsedAt, f
<1>9. \A e \in before : f[e] = IF e = 0 THEN 0
                               ELSE LET current == Max(Prior(e)) IN f[current] + (e - current) * map[current]
  <2>1. f = [e \in before |-> IF e = 0 THEN 0
                              ELSE LET current == Max(Prior(e)) IN f[current] + (e - current) * map[current]]
    BY <1>8 DEF ElapsedTo
  <2> QED BY <2>1
<1>10. \A e \in before : f[e] = TimeOf(e)
  <2> DEFINE U == {e \in before : f[e] # TimeOf(e)}
  <2> SUFFICES ASSUME U # {} PROVE FALSE
    OBVIOUS
  <2>1. U \subseteq Nat
    BY <1>2
  <2> HIDE DEF U
  <2>2. PICK e \in U : \A k \in U : e <= k
    BY <2>1, Least
  <2>3. e \in before /\ f[e] # TimeOf(e) /\ e \in Nat
    BY <1>2, <2>2 DEF U
  <2>4. e # 0
    BY <1>9, <2>3, TimeIs
  <2> DEFINE c == Max(Prior(e))
  <2>5. c \in before /\ c < e /\ TimeOf(e) = TimeOf(c) + (e - c) * map[c]
    BY <1>7, <2>3, <2>4
  <2>6. f[e] = f[c] + (e - c) * map[c]
    BY <1>9, <2>3, <2>4
  <2> HIDE DEF c
  <2>7. c \notin U
    BY <1>2, <2>2, <2>3, <2>5
  <2>8. f[c] = TimeOf(c)
    BY <2>5, <2>7 DEF U
  <2> QED BY <2>3, <2>5, <2>6, <2>8
<1> DEFINE b == Max(before)
<1>11. b \in before /\ \A k \in before : k <= b
  BY <1>2, Greatest
<1> HIDE DEF b
<1>12. TimeOf(t) = TimeOf(b) + (t - b) * map[b]
  <2>1. \A e \in before : e <= b \/ e >= t
    BY <1>11
  <2>2. b <= t
    BY <1>2, <1>11
  <2> QED BY <1>6, <1>11, <2>1, <2>2
<1>13. f[b] = TimeOf(b)
  BY <1>10, <1>11
<1> QED BY <1>3, <1>4, <1>12, <1>13 DEF b

\* Keeping every element is the sequence itself.
LEMMA KeptAll ==
  ASSUME NEW S, NEW s \in Seq(S), NEW keep, 1 .. Len(s) \subseteq keep
  PROVE  Kept(s, keep) \in Seq(S) /\ Len(Kept(s, keep)) = Len(s) /\ \A i \in 1 .. Len(s) : Kept(s, keep)[i] = s[i]
<1> DEFINE L == Len(s)  g == Keeping(s, keep)
           Same(n) == Len(g[n]) = n /\ \A i \in 1 .. n : g[n][i] = s[i]
           T == {n \in 0 .. L : Same(n)}
<1>1. /\ Kept(s, keep) = g[L] /\ g \in [0 .. L -> Seq(S)] /\ g[0] = <<>>
      /\ \A n \in 1 .. L : g[n] = IF n \in keep THEN Append(g[n - 1], s[n]) ELSE g[n - 1]
  BY KeepingIs
<1>2. L \in Nat /\ \A n \in 1 .. L : s[n] \in S /\ n \in keep
  OBVIOUS
<1> HIDE DEF g, L
<1>3. 0 \in T
  BY <1>1, <1>2
<1>4. ASSUME NEW n \in 0 .. L - 1, n \in T PROVE n + 1 \in T
  <2>1. n \in Nat /\ n \in 0 .. L /\ n + 1 \in 1 .. L /\ n + 1 \in 0 .. L
    BY <1>2
  <2>2. g[n + 1] = Append(g[n], s[n + 1])
    <3>1. g[n + 1] = IF n + 1 \in keep THEN Append(g[n], s[n + 1]) ELSE g[n]
      BY <1>1, <2>1
    <3>2. n + 1 \in keep
      BY <1>2, <2>1
    <3> QED BY <3>1, <3>2
  <2>3. g[n] \in Seq(S) /\ s[n + 1] \in S /\ Same(n)
    BY <1>1, <1>2, <1>4, <2>1
  <2>4. Len(g[n + 1]) = n + 1 /\ g[n + 1][n + 1] = s[n + 1] /\ \A i \in 1 .. n : g[n + 1][i] = g[n][i]
    BY <2>2, <2>3, Appending
  <2>5. Same(n + 1)
    <3>1. ASSUME NEW i \in 1 .. n + 1 PROVE g[n + 1][i] = s[i]
      <4>1. CASE i = n + 1
        BY <2>4, <4>1
      <4>2. CASE i # n + 1
        BY <2>1, <2>3, <2>4, <4>2
      <4> QED BY <4>1, <4>2
    <3> QED BY <2>4, <3>1
  <2> HIDE DEF Same
  <2> QED BY <2>1, <2>5
<1> HIDE DEF T
<1>5. \A n \in 0 .. L : n \in T
  BY <1>2, <1>3, <1>4, UpFromZero
<1>6. Same(L)
  BY <1>2, <1>5 DEF T
<1> QED BY <1>1, <1>2, <1>6 DEF L

--------------------------------------------------------------------------------
(* The schedule of a take.                                                 *)

NoteIs(note) == note.start \in Nat /\ note.end \in Nat /\ note.start < note.end /\ note.pitch \in Keys
NotesTyped == \A i \in 1 .. Len(notes) : NoteIs(notes[i])
NotesFit == \A i \in 1 .. Len(notes) : notes[i].end <= last
BaseOf(trim) == IF trim /\ notes # <<>> THEN TimeOf(Min({notes[i].start : i \in DOMAIN notes})) ELSE 0
TakeStart(trim) == [i \in 1 .. Len(notes) |-> TimeOf(notes[i].start) - BaseOf(trim)]
TakeEnd(trim) == [i \in 1 .. Len(notes) |-> TimeOf(notes[i].end) - BaseOf(trim)]
TakePitch == [i \in 1 .. Len(notes) |-> notes[i].pitch]

\* The times of a take are numbers, and none is later than its end.
LEMMA TakeTimes ==
  ASSUME TemposTyped, NEW S, notes \in Seq(S), NotesTyped, NotesFit, last \in Nat, NEW trim \in BOOLEAN
  PROVE  /\ Timed(Len(notes), TakeStart(trim), TakeEnd(trim))
         /\ Within(Len(notes), TakeStart(trim), TakeEnd(trim), AtLeast(TimeOf(last) - BaseOf(trim), 0))
         /\ BaseOf(trim) \in Nat
         /\ trim => BaseOf(trim) = TimeOf(FirstNoteTick(notes)) /\ FirstNoteTick(notes) \in TicksOf(MidiTake)
<1> DEFINE n == Len(notes)  b == BaseOf(trim)  F == {notes[i].start : i \in DOMAIN notes}
<1>1. n \in Nat /\ DOMAIN notes = 1 .. n
  OBVIOUS
<1>2. \A i \in 1 .. n : /\ notes[i].start \in Nat /\ notes[i].end \in Nat /\ notes[i].start < notes[i].end
                        /\ notes[i].end <= last
  BY DEF NotesTyped, NotesFit, NoteIs
<1>3. F \subseteq Nat
  BY <1>1, <1>2
<1>4. notes # <<>> => Min(F) \in F /\ \A k \in F : Min(F) <= k
  <2>1. notes # <<>> => F # {}
    BY <1>1
  <2> HIDE DEF F
  <2> QED BY <1>3, <2>1, Smallest
<1>5. {x.start : x \in ToSet(notes)} = F
  BY DEF ToSet
<1>6. b = IF trim /\ notes # <<>> THEN TimeOf(Min(F)) ELSE 0
  BY DEF BaseOf
<1>7. \A t \in Nat : TimeOf(t) \in Nat
  BY TimeIs
<1>8. b \in Nat
  BY <1>3, <1>4, <1>6, <1>7
<1>9. ASSUME NEW i \in 1 .. n
      PROVE  b <= TimeOf(notes[i].start) /\ TimeOf(notes[i].start) <= TimeOf(notes[i].end)
             /\ TimeOf(notes[i].end) <= TimeOf(last)
             /\ TimeOf(notes[i].start) \in Nat /\ TimeOf(notes[i].end) \in Nat /\ TimeOf(last) \in Nat
  <2>1. notes # <<>> /\ notes[i].start \in F
    BY <1>1
  <2>2. TimeOf(notes[i].start) \in Nat
    BY <1>2, <1>7
  <2>3. b <= TimeOf(notes[i].start)
    <3>1. CASE trim
      <4> HIDE DEF F, b
      <4>1. Min(F) \in Nat /\ Min(F) <= notes[i].start /\ notes[i].start \in Nat
        BY <1>2, <1>3, <1>4, <2>1
      <4>2. TimeOf(Min(F)) <= TimeOf(notes[i].start)
        BY <4>1, TimeGrows
      <4> QED BY <1>6, <2>1, <3>1, <4>2
    <3>2. CASE ~trim
      <4> HIDE DEF b
      <4> QED BY <1>6, <2>2, <3>2
    <3> QED BY <3>1, <3>2
  <2>4. TimeOf(notes[i].start) <= TimeOf(notes[i].end)
    <3>1. notes[i].start <= notes[i].end
      BY <1>2
    <3> QED BY <1>2, <3>1, TimeGrows
  <2>5. TimeOf(notes[i].end) <= TimeOf(last)
    BY <1>2, TimeGrows
  <2> QED BY <1>2, <1>7, <2>2, <2>3, <2>4, <2>5
<1>10. \A i \in 1 .. n : TakeStart(trim)[i] = TimeOf(notes[i].start) - b /\ TakeEnd(trim)[i] = TimeOf(notes[i].end) - b
  BY DEF TakeStart, TakeEnd
<1> HIDE DEF b, n
<1>11. Timed(n, TakeStart(trim), TakeEnd(trim))
  BY <1>8, <1>9, <1>10 DEF Timed
<1>12. Within(n, TakeStart(trim), TakeEnd(trim), AtLeast(TimeOf(last) - b, 0))
  BY <1>8, <1>9, <1>10 DEF Within, AtLeast
<1>13. ASSUME trim PROVE b = TimeOf(FirstNoteTick(notes)) /\ FirstNoteTick(notes) \in TicksOf(MidiTake)
  <2>1. CASE notes = <<>>
    <3>1. FirstNoteTick(notes) = 0
      BY <2>1 DEF FirstNoteTick
    <3> QED BY <1>6, <2>1, <3>1, TimeIs DEF TicksOf
  <2>2. CASE notes # <<>>
    <3>1. FirstNoteTick(notes) = Min(F)
      BY <1>5, <2>2 DEF FirstNoteTick
    <3>2. PICK x \in ToSet(notes) : Min(F) = x.start
      BY <1>4, <1>5, <2>2
    <3>3. FirstNoteTick(notes) \in UNION {{y.start, y.start + 1, y.end} : y \in ToSet(notes)}
      <4>1. x.start \in {x.start, x.start + 1, x.end}
        OBVIOUS
      <4>2. {x.start, x.start + 1, x.end} \in {{y.start, y.start + 1, y.end} : y \in ToSet(notes)}
        OBVIOUS
      <4> QED BY <3>1, <3>2, <4>1, <4>2
    <3> QED BY <1>6, <1>13, <2>2, <3>1, <3>3 DEF TicksOf, MidiTake
  <2> QED BY <2>1, <2>2
<1> QED BY <1>8, <1>11, <1>12, <1>13 DEF b, n

\* The schedules of a take are built from TimeOf().
LEMMA TakeBuilt ==
  ASSUME DrumAssumption, TemposTyped, NEW S, notes \in Seq(S), NotesTyped, NotesFit, last \in Nat, NEW trim \in BOOLEAN,
         NEW tail, NEW cap, NEW s \in BuildFromMidiDrums(MidiTake, tail, cap, trim)
  PROVE  \E frames \in TotalFrames(AtLeast(TimeOf(last) - BaseOf(trim), 0), tail, cap, 1000 * PerBeat),
            spans \in OneOfEach(SpanSets(Len(notes), TakePitch, TakeStart(trim), TakeEnd(trim), 1000 * PerBeat)) :
           s = PlaceSpans(frames, spans)
<1> DEFINE At == [t \in TicksOf(MidiTake) |-> TickTime(t, tempos)]
           d == 1000 * PerBeat  n == Len(notes)
           base == IF trim THEN At[FirstNoteTick(notes)] ELSE 0
           sets == [i \in DOMAIN notes |-> NoteSpans(notes[i], At, base, d)]
           st == TakeStart(trim)  en == TakeEnd(trim)  b == BaseOf(trim)
<1>1. MidiTake.notes = notes /\ MidiTake.tempos = tempos /\ MidiTake.last = last /\ MidiTake.perBeat = PerBeat
  BY DEF MidiTake
<1>2. s \in Schedules(TotalFrames(AtLeast(At[last] - base, 0), tail, cap, d), sets)
  <2>1. s \in FromTimes(MidiTake, At, tail, cap, trim)
    BY <1>1 DEF BuildFromMidiDrums
  <2> HIDE DEF At
  <2>2. s \in FromBase(MidiTake, At, base, tail, cap)
    BY <1>1, <2>1 DEF FromTimes
  <2> HIDE DEF base
  <2> QED BY <1>1, <2>2 DEF FromBase
<1>3. n \in Nat /\ DOMAIN notes = 1 .. n
  OBVIOUS
<1>4. \A i \in 1 .. n : /\ notes[i].start \in Nat /\ notes[i].end \in Nat /\ notes[i].start < notes[i].end
                        /\ notes[i].end <= last
  BY DEF NotesTyped, NotesFit, NoteIs
<1>5. \A t \in TicksOf(MidiTake) : t \in Nat
  <2>1. \A x \in ToSet(notes) : x.start \in Nat /\ x.start + 1 \in Nat /\ x.end \in Nat
    BY <1>3, <1>4 DEF ToSet
  <2> QED BY <1>1, <2>1 DEF TicksOf
<1>6. last \in TicksOf(MidiTake)
      /\ \A i \in 1 .. n : {notes[i].start, notes[i].start + 1, notes[i].end} \subseteq TicksOf(MidiTake)
  <2>1. \A i \in 1 .. n : notes[i] \in ToSet(notes)
    BY <1>3 DEF ToSet
  <2> QED BY <1>1, <2>1 DEF TicksOf
<1>7. \A t \in TicksOf(MidiTake) : At[t] = TimeOf(t)
  BY <1>5, TickExact
<1>8. base = b /\ b \in Nat
  BY <1>7, TakeTimes DEF BaseOf
<1> HIDE DEF At, base, b, d, n
<1>9. AtLeast(At[last] - base, 0) = AtLeast(TimeOf(last) - b, 0)
  BY <1>6, <1>7, <1>8
<1>10. sets = SpanSets(n, TakePitch, st, en, d)
  <2>1. ASSUME NEW i \in 1 .. n PROVE NoteSpans(notes[i], At, base, d) = SpansOf(TakePitch[i], st[i], en[i], d)
    <3> DEFINE x == notes[i].start  y == notes[i].end
    <3>1. x \in Nat /\ y \in Nat /\ x + 1 <= y
      BY <1>4
    <3>2. At[x] = TimeOf(x) /\ At[x + 1] = TimeOf(x + 1) /\ At[y] = TimeOf(y)
      BY <1>6, <1>7
    <3>3. st[i] = TimeOf(x) - b /\ en[i] = TimeOf(y) - b /\ TakePitch[i] = notes[i].pitch /\ st[i] >= 0
      <4>1. st[i] \in Nat
        BY TakeTimes DEF Timed, n
      <4> QED BY <4>1 DEF TakeStart, TakeEnd, TakePitch, n, b
    <3> HIDE DEF x, y
    <3>4. TimeOf(x + 1) <= TimeOf(y) /\ TimeOf(x) \in Nat /\ TimeOf(y) \in Nat /\ TimeOf(x + 1) \in Nat
      <4>1. x + 1 \in Nat
        BY <3>1
      <4> QED BY <3>1, <4>1, TimeGrows
    <3>5. AtLeast(At[x] - base, 0) = st[i]
      BY <1>8, <3>2, <3>3, <3>4 DEF AtLeast
    <3>6. AtLeast(At[y] - base, st[i] + (At[x + 1] - At[x])) = en[i]
      BY <1>8, <3>2, <3>3, <3>4 DEF AtLeast
    <3>7. NoteSpans(notes[i], At, base, d)
            = SpansOf(notes[i].pitch, AtLeast(At[x] - base, 0), AtLeast(At[y] - base, AtLeast(At[x] - base, 0) + (At[x + 1] - At[x])), d)
      BY DEF NoteSpans, x, y
    <3> QED BY <3>3, <3>5, <3>6, <3>7
  <2> QED BY <1>3, <2>1 DEF SpanSets
<1> HIDE DEF sets
<1>11. s \in Schedules(TotalFrames(AtLeast(TimeOf(last) - b, 0), tail, cap, d), SpanSets(n, TakePitch, st, en, d))
  BY <1>2, <1>9, <1>10
<1> QED BY <1>11, SchedulesAre DEF b, d, n

\* ScheduleHeard of a take whose notes fit.
LEMMA TakeHeard ==
  ASSUME DrumAssumption, TemposTyped, NEW S, notes \in Seq(S), NotesTyped, NotesFit, last \in Nat,
         made.source = "midi", made.trim \in BOOLEAN, made.limit \in Limits,
         made.schedule \in BuildFromMidiDrums(MidiTake, made.limit[1], made.limit[2], made.trim)
  PROVE  ScheduleHeard
<1> DEFINE trim == made.trim  s == made.schedule  tail == made.limit[1]  cap == made.limit[2]
           d == 1000 * PerBeat  n == Len(notes)  b == BaseOf(trim)
           pit == TakePitch  st == TakeStart(trim)  en == TakeEnd(trim)  end == AtLeast(TimeOf(last) - b, 0)
<1>1. PICK frames \in TotalFrames(end, tail, cap, d), spans \in OneOfEach(SpanSets(n, pit, st, en, d)) :
        s = PlaceSpans(frames, spans)
  <2> HIDE DEF n, st, en, pit
  <2> QED BY TakeBuilt DEF n, st, en, pit
<1>2. tail \in Nat /\ cap \in Int /\ d \in Nat /\ d > 1
  BY LimitIs
<1>3. n \in Nat /\ DOMAIN notes = 1 .. n
  OBVIOUS
<1>4. Timed(n, st, en) /\ Within(n, st, en, end) /\ b \in Nat
  BY TakeTimes
<1>5. TimeOf(last) \in Nat
  BY TimeIs
<1>6. end \in Nat
  <2> HIDE DEF b
  <2> QED BY <1>4, <1>5 DEF AtLeast
<1>7. Unit = d
  BY DEF Unit
<1>8. Asked = [i \in DOMAIN notes |-> AskedOfNote(notes[i])]
  BY DEF Asked
<1>9. \A i \in 1 .. n : AskedOfNote(notes[i]).start = st[i] /\ AskedOfNote(notes[i]).end = en[i]
  BY DEF AskedOfNote, TakeStart, TakeEnd, BaseOf
<1>10. Pitched(n, pit) = 1 .. n
  <2>1. \A i \in 1 .. n : notes[i].pitch \in Nat
    BY DEF NotesTyped, NoteIs, DrumAssumption
  <2> QED BY <2>1 DEF Pitched, TakePitch, None
<1> HIDE DEF trim, s, tail, cap, d, n, b, pit, st, en, end
<1>11. BuiltWell(n, pit, st, en, d, end, tail, cap, frames, spans)
  BY <1>1, <1>2, <1>3, <1>4, <1>6, Built
<1>12. /\ frames \in Int /\ IsSpans(spans) /\ Len(spans) = n
       /\ \A i \in 1 .. n : spans[i] \in SpansOf(pit[i], st[i], en[i], d)
       /\ cap = None /\ tail > 0 => PlaceSpans(frames, spans).reports = Kept(spans, 1 .. n)
  BY <1>4, <1>10, <1>11 DEF BuiltWell
<1>13. TokensOfNotes /\ WindowsTile
  <2>1. s \in ScheduleType(frames, PitchesOf(spans)) /\ Told(s, frames, PitchesOf(spans))
    <3>1. Len(spans) \in 0 .. Len(spans)
      BY <1>3, <1>12
    <3> QED BY <1>1, <1>12, <3>1, PlacingIs
  <2> QED BY <1>12, <2>1, TellsTokens, TellsWindows DEF s
<1>14. ASSUME cap = None, tail > 0
       PROVE  /\ Len(s.reports) = Len(Asked)
              /\ \A i \in DOMAIN Asked : OnTime(s.reports[i], Asked[i], Unit)
  <2> DEFINE heard == Kept(spans, 1 .. n)  U == SpanType(PitchesOf(spans) \cup {None})
  <2>1. s.reports = heard
    BY <1>1, <1>12, <1>14
  <2>2. spans \in Seq(U)
    BY <1>12 DEF IsSpans
  <2> HIDE DEF U
  <2>3. Len(heard) = n /\ \A i \in 1 .. n : heard[i] = spans[i]
    <3>1. 1 .. Len(spans) \subseteq 1 .. n
      BY <1>12
    <3> QED BY <1>12, <2>2, <3>1, KeptAll
  <2> HIDE DEF heard
  <2>4. Len(Asked) = n /\ DOMAIN Asked = 1 .. n
    BY <1>3, <1>8
  <2>5. ASSUME NEW i \in 1 .. n PROVE OnTime(heard[i], Asked[i], Unit)
    <3> DEFINE asked == AskedOfNote(notes[i])
    <3>1. st[i] \in Int /\ en[i] \in Int
      BY <1>4 DEF Timed
    <3>2. asked.start = st[i] /\ asked.end = en[i] /\ Asked[i] = asked
      BY <1>3, <1>8, <1>9
    <3>3. spans[i] \in SpansOf(pit[i], st[i], en[i], d)
      BY <1>12
    <3> HIDE DEF asked
    <3>4. OnTime(spans[i], asked, d)
      BY <1>2, <3>1, <3>2, <3>3, SpanOnTime
    <3> QED BY <1>7, <2>3, <3>2, <3>4
  <2> QED BY <2>1, <2>3, <2>4, <2>5
<1>15. NotesOnTime
  BY <1>14 DEF NotesOnTime, OnTime, tail, cap, s
<1> QED BY <1>13, <1>15 DEF ScheduleHeard

--------------------------------------------------------------------------------
(* A finite set in a strict order.                                         *)

StrictOrder(S, R) ==
  /\ \A a, b \in S : a = b \/ <<a, b>> \in R \/ <<b, a>> \in R
  /\ \A a, b, c \in S : <<a, b>> \in R /\ <<b, c>> \in R => <<a, c>> \in R
LastIn(U, R, m) == m \in U /\ \A y \in U : y = m \/ <<y, m>> \in R
SortedBy(f, n, R) == \A i, j \in 1 .. n : i < j => <<f[i], f[j]>> \in R

\* A finite set without one of its elements.
LEMMA OneLess ==
  ASSUME NEW U, IsFiniteSet(U), NEW x \in U
  PROVE  IsFiniteSet(U \ {x}) /\ Cardinality(U) \in Nat \ {0} /\ Cardinality(U \ {x}) = Cardinality(U) - 1
<1>1. Cardinality(U) \in Nat
  BY FS_CardinalityType
<1>2. Cardinality(U) # 0
  BY FS_EmptySet
<1>3. IsFiniteSet(U \ {x}) /\ Cardinality(U \ {x}) = Cardinality(U) - 1
  BY FS_RemoveElement
<1> QED BY <1>1, <1>2, <1>3

\* A finite set has a last element, by induction on its size.
LEMMA LastExists ==
  ASSUME NEW S, IsFiniteSet(S), NEW R, StrictOrder(S, R), S # {}
  PROVE  \E m : LastIn(S, R, m)
<1> DEFINE N == Cardinality(S)
           Good(n) == \A U \in SUBSET S : IsFiniteSet(U) /\ Cardinality(U) = n /\ U # {} => \E m : LastIn(U, R, m)
           T == {n \in 0 .. N : Good(n)}
<1>1. N \in Nat
  BY FS_CardinalityType
<1> HIDE DEF N
<1>2. 0 \in T
  <2>1. Good(0)
    BY FS_EmptySet
  <2> HIDE DEF Good
  <2> QED BY <1>1, <2>1
<1>3. ASSUME NEW n \in 0 .. N - 1, n \in T PROVE n + 1 \in T
  <2>1. Good(n)
    BY <1>3
  <2>2. ASSUME NEW U \in SUBSET S, IsFiniteSet(U), Cardinality(U) = n + 1, U # {} PROVE \E m : LastIn(U, R, m)
    <3>1. PICK x \in U : TRUE
      BY <2>2
    <3>2. IsFiniteSet(U \ {x}) /\ Cardinality(U \ {x}) = n
      <4>1. IsFiniteSet(U \ {x}) /\ Cardinality(U \ {x}) = Cardinality(U) - 1
        BY <2>2, OneLess
      <4> QED BY <1>1, <2>2, <4>1
    <3>3. CASE U \ {x} = {}
      BY <3>1, <3>3 DEF LastIn
    <3>4. CASE U \ {x} # {}
      <4>1. PICK m : LastIn(U \ {x}, R, m)
        BY <2>1, <3>2, <3>4
      <4>2. m \in U /\ m \in S /\ x \in S /\ m # x /\ \A y \in U : y = x \/ y = m \/ <<y, m>> \in R
        BY <4>1 DEF LastIn
      <4>3. CASE <<m, x>> \in R
        <5>1. LastIn(U, R, x)
          BY <4>2, <4>3 DEF LastIn, StrictOrder
        <5> QED BY <5>1
      <4>4. CASE <<x, m>> \in R
        <5>1. LastIn(U, R, m)
          BY <4>2, <4>4 DEF LastIn
        <5> QED BY <5>1
      <4> QED BY <4>2, <4>3, <4>4 DEF StrictOrder
    <3> QED BY <3>3, <3>4
  <2>3. Good(n + 1)
    BY <2>2
  <2> HIDE DEF Good
  <2> QED BY <1>1, <2>3
<1> HIDE DEF T
<1>4. \A n \in 0 .. N : n \in T
  BY <1>1, <1>2, <1>3, UpFromZero
<1>5. Good(N)
  BY <1>1, <1>4 DEF T
<1> QED BY <1>5 DEF N

\* A finite set can be put in any strict order of it.
LEMMA OrderExists ==
  ASSUME NEW S, IsFiniteSet(S), NEW R, StrictOrder(S, R)
  PROVE  \E f \in [1 .. Cardinality(S) -> S] : SortedBy(f, Cardinality(S), R)
<1> DEFINE N == Cardinality(S)
           Good(n) == \A U \in SUBSET S : IsFiniteSet(U) /\ Cardinality(U) = n
                                          => \E f \in [1 .. n -> U] : SortedBy(f, n, R)
           T == {n \in 0 .. N : Good(n)}
<1>1. N \in Nat
  BY FS_CardinalityType
<1> HIDE DEF N
<1>2. 0 \in T
  <2>1. ASSUME NEW U PROVE \E f \in [1 .. 0 -> U] : SortedBy(f, 0, R)
    <3>1. [i \in 1 .. 0 |-> i] \in [1 .. 0 -> U]
      OBVIOUS
    <3>2. \A f : SortedBy(f, 0, R)
      BY DEF SortedBy
    <3> QED BY <3>1, <3>2
  <2>2. Good(0)
    BY <2>1
  <2> HIDE DEF Good
  <2> QED BY <1>1, <2>2
<1>3. ASSUME NEW n \in 0 .. N - 1, n \in T PROVE n + 1 \in T
  <2>1. Good(n)
    BY <1>3
  <2>2. ASSUME NEW U \in SUBSET S, IsFiniteSet(U), Cardinality(U) = n + 1
        PROVE  \E f \in [1 .. n + 1 -> U] : SortedBy(f, n + 1, R)
    <3>1. U # {}
      BY <1>1, <2>2, FS_EmptySet
    <3>2. StrictOrder(U, R)
      BY DEF StrictOrder
    <3>3. PICK m : LastIn(U, R, m)
      BY <2>2, <3>1, <3>2, LastExists
    <3>4. m \in U /\ \A y \in U : y = m \/ <<y, m>> \in R
      BY <3>3 DEF LastIn
    <3>5. IsFiniteSet(U \ {m}) /\ Cardinality(U \ {m}) = n
      <4>1. IsFiniteSet(U \ {m}) /\ Cardinality(U \ {m}) = Cardinality(U) - 1
        BY <2>2, <3>4, OneLess
      <4> QED BY <1>1, <2>2, <4>1
    <3>6. PICK g \in [1 .. n -> U \ {m}] : SortedBy(g, n, R)
      BY <2>1, <3>5
    <3> DEFINE f == [i \in 1 .. n + 1 |-> IF i <= n THEN g[i] ELSE m]
    <3>7. f \in [1 .. n + 1 -> U]
      BY <1>1, <3>4, <3>6
    <3>8. ASSUME NEW i \in 1 .. n + 1, NEW j \in 1 .. n + 1, i < j PROVE <<f[i], f[j]>> \in R
      <4>1. i \in 1 .. n /\ f[i] = g[i]
        BY <1>1, <3>8
      <4>2. CASE j <= n
        <5>1. f[j] = g[j] /\ j \in 1 .. n
          BY <4>2
        <5> HIDE DEF f
        <5> QED BY <3>6, <3>8, <4>1, <5>1 DEF SortedBy
      <4>3. CASE j = n + 1
        <5>1. f[j] = m /\ g[i] \in U /\ g[i] # m
          BY <1>1, <3>6, <4>1, <4>3
        <5> HIDE DEF f
        <5> QED BY <3>4, <4>1, <5>1
      <4> QED BY <1>1, <4>2, <4>3
    <3> HIDE DEF f
    <3>9. SortedBy(f, n + 1, R)
      BY <3>8 DEF SortedBy
    <3> QED BY <3>7, <3>9
  <2>3. Good(n + 1)
    BY <2>2
  <2> HIDE DEF Good
  <2> QED BY <1>1, <2>3
<1> HIDE DEF T
<1>4. \A n \in 0 .. N : n \in T
  BY <1>1, <1>2, <1>3, UpFromZero
<1>5. Good(N)
  BY <1>1, <1>4 DEF T
<1> QED BY <1>5 DEF N

\* InOrder() is that sequence.
LEMMA InOrderIs ==
  ASSUME NEW S, IsFiniteSet(S), NEW R, StrictOrder(S, R)
  PROVE  /\ Cardinality(S) \in Nat /\ InOrder(S, R) \in [1 .. Cardinality(S) -> S]
         /\ \A i, j \in 1 .. Cardinality(S) : i < j => <<InOrder(S, R)[i], InOrder(S, R)[j]>> \in R
<1>1. Cardinality(S) \in Nat
  BY FS_CardinalityType
<1>2. \E f \in [1 .. Cardinality(S) -> S] : \A i, j \in 1 .. Cardinality(S) : i < j => <<f[i], f[j]>> \in R
  BY OrderExists DEF SortedBy
<1> QED BY <1>1, <1>2 DEF InOrder

--------------------------------------------------------------------------------
(* The inductive invariant.                                                *)

OpenNote == [start : Nat, velocity : Nat]
NoteType == [start : Nat, end : Nat, pitch : Keys, velocity : Nat, track : Nat]
ReaderTypes ==
  /\ phase \in {"track", "take", "schedule", "error"}
  /\ track \in 1 .. Tracks + 1 /\ (phase = "track" => track <= Tracks)
  /\ events \in 0 .. MaxEvents /\ tick \in Nat /\ last \in Nat
  /\ running \in Status \cup {NoRunning}
  /\ active \in [Keys -> Seq(OpenNote)]
  /\ notes \in Seq(NoteType) /\ tempos \in Seq(TempoType)
\* Every onset is a note or open.
Counted ==
  /\ onsets \in Seq([pitch : Keys, start : Nat, track : Nat])
  /\ IsFiniteSet(Open) /\ Len(onsets) = Len(notes) + Cardinality(Open)
\* What is open was opened in the order it is kept in, and no later than now.
OpenedInOrder ==
  \A k \in Keys : \A i \in 1 .. Len(active[k]) :
    active[k][i].start <= tick /\ \A j \in i .. Len(active[k]) : active[k][i].start <= active[k][j].start
\* A note of this track started before what is open of its pitch, and ended
\* before now, or at the least time after.
ClosedFirst ==
  \A i \in 1 .. Len(notes) :
    /\ notes[i].start < notes[i].end /\ notes[i].track <= track
    /\ notes[i].track = track =>
         /\ notes[i].start <= tick /\ (notes[i].end <= tick \/ notes[i].end = notes[i].start + 1)
         /\ \A j \in 1 .. Len(active[notes[i].pitch]) : notes[i].start <= active[notes[i].pitch][j].start
FirstEndsFirst ==
  \A i, j \in 1 .. Len(notes) :
    notes[i].pitch = notes[j].pitch /\ notes[i].track = notes[j].track /\ notes[i].start < notes[j].start
    => notes[i].end <= notes[j].end
EndHeld == phase = "schedule" /\ (made = NotMade \/ made.source = "midi") => NotesFit
MadeOf ==
  \/ made = NotMade
  \/ /\ phase = "schedule" /\ made.limit \in Limits
     /\ \/ /\ made.source = "midi" /\ made.trim \in BOOLEAN
           /\ made.schedule \in BuildFromMidiDrums(MidiTake, made.limit[1], made.limit[2], made.trim)
        \/ /\ made.source \in {"packets", "events"} /\ made.packets \in Packets
           /\ made.schedule \in BuiltOf(made.source, made.packets, made.limit[1], made.limit[2])
DrumInv ==
  ReaderTypes /\ Counted /\ OpenedInOrder /\ ClosedFirst /\ FirstEndsFirst /\ EndHeld /\ MadeOf

Notes == ReaderTypes /\ Counted /\ OpenedInOrder /\ ClosedFirst /\ FirstEndsFirst

\* The fields of a note.
LEMMA NoteFields ==
  ASSUME NEW x \in NoteType
  PROVE  x.start \in Nat /\ x.end \in Nat /\ x.pitch \in Keys /\ x.velocity \in Nat /\ x.track \in Nat
BY DEF NoteType

\* What is open of a pitch.
LEMMA ActiveIs ==
  ASSUME ReaderTypes, NEW k \in Keys
  PROVE  /\ active[k] \in Seq(OpenNote) /\ Len(active[k]) \in Nat /\ DOMAIN active[k] = 1 .. Len(active[k])
         /\ \A i \in 1 .. Len(active[k]) : active[k][i].start \in Nat /\ active[k][i].velocity \in Nat
<1>1. active[k] \in Seq(OpenNote)
  BY DEF ReaderTypes
<1>2. \A i \in 1 .. Len(active[k]) : active[k][i] \in OpenNote
  BY <1>1
<1> QED BY <1>1, <1>2 DEF OpenNote

\* A note-on.
LEMMA Opens ==
  ASSUME DrumAssumption, Notes, NEW k \in Keys, NEW v \in Nat, NEW now \in Nat, now >= tick, track <= Tracks,
         tick' = now, track' = track, notes' = notes,
         active' = [active EXCEPT ![k] = Append(@, [start |-> now, velocity |-> v])],
         onsets' = Append(onsets, [pitch |-> k, start |-> now, track |-> track])
  PROVE  /\ active' \in [Keys -> Seq(OpenNote)] /\ notes' \in Seq(NoteType)
         /\ Counted' /\ OpenedInOrder' /\ ClosedFirst' /\ FirstEndsFirst'
<1> USE DEF Notes
<1> DEFINE x == [start |-> now, velocity |-> v]  n == Len(active[k])
<1>1. \A j \in Keys : /\ active[j] \in Seq(OpenNote) /\ Len(active[j]) \in Nat /\ DOMAIN active[j] = 1 .. Len(active[j])
                      /\ \A i \in 1 .. Len(active[j]) : active[j][i].start \in Nat
  BY ActiveIs
<1>2. x \in OpenNote /\ x.start = now
  BY DEF OpenNote
<1>3. active'[k] = Append(active[k], x) /\ \A j \in Keys \ {k} : active'[j] = active[j]
  BY DEF ReaderTypes
<1> HIDE DEF x
<1>4. /\ active'[k] \in Seq(OpenNote) /\ Len(active'[k]) = n + 1 /\ DOMAIN active'[k] = 1 .. n + 1 /\ n \in Nat
      /\ active'[k][n + 1] = x /\ \A i \in 1 .. n : active'[k][i] = active[k][i]
  BY <1>1, <1>2, <1>3, Appending
<1>5. active' \in [Keys -> Seq(OpenNote)]
  BY <1>1, <1>3, <1>4 DEF ReaderTypes
<1>6. notes' \in Seq(NoteType) /\ tick \in Nat /\ notes \in Seq(NoteType)
  BY DEF ReaderTypes
<1> HIDE DEF n
<1>7. Counted'
  <2>1. Open' = Open \cup {<<k, n + 1>>}
    <3>1. Open' = UNION {{<<j, i>> : i \in DOMAIN active'[j]} : j \in Keys}
      BY DEF Open, OpenAt
    <3>2. Open = UNION {{<<j, i>> : i \in DOMAIN active[j]} : j \in Keys}
      BY DEF Open, OpenAt
    <3>3. DOMAIN active'[k] = DOMAIN active[k] \cup {n + 1} /\ \A j \in Keys \ {k} : DOMAIN active'[j] = DOMAIN active[j]
      BY <1>1, <1>3, <1>4 DEF n
    <3>4. \A y : y \in Open' <=> \E j \in Keys : \E i \in DOMAIN active'[j] : y = <<j, i>>
      BY <3>1
    <3>5. \A y : y \in Open <=> \E j \in Keys : \E i \in DOMAIN active[j] : y = <<j, i>>
      BY <3>2
    <3>6. ASSUME NEW y \in Open' PROVE y \in Open \cup {<<k, n + 1>>}
      <4>1. PICK j \in Keys : \E i \in DOMAIN active'[j] : y = <<j, i>>
        BY <3>4, <3>6
      <4>2. CASE j = k
        BY <3>3, <3>5, <4>1, <4>2
      <4>3. CASE j # k
        BY <3>3, <3>5, <4>1, <4>3
      <4> QED BY <4>2, <4>3
    <3>7. ASSUME NEW y \in Open \cup {<<k, n + 1>>} PROVE y \in Open'
      <4>1. CASE y = <<k, n + 1>>
        BY <3>3, <3>4, <4>1
      <4>2. CASE y # <<k, n + 1>>
        <5>1. PICK j \in Keys : \E i \in DOMAIN active[j] : y = <<j, i>>
          BY <3>5, <3>7, <4>2
        <5>2. \E i \in DOMAIN active'[j] : y = <<j, i>>
          BY <3>3, <5>1
        <5> QED BY <3>4, <5>2
      <4> QED BY <4>1, <4>2
    <3> QED BY <3>6, <3>7
  <2>2. <<k, n + 1>> \notin Open
    BY <1>1, <1>4 DEF Open, OpenAt, n
  <2>3. IsFiniteSet(Open') /\ Cardinality(Open') = Cardinality(Open) + 1
    BY <2>1, <2>2, FS_AddElement DEF Counted
  <2>4. onsets' \in Seq([pitch : Keys, start : Nat, track : Nat]) /\ Len(onsets') = Len(onsets) + 1
    <3>1. [pitch |-> k, start |-> now, track |-> track] \in [pitch : Keys, start : Nat, track : Nat]
      BY DEF ReaderTypes
    <3> QED BY <3>1 DEF Counted
  <2>5. Cardinality(Open) \in Nat /\ Len(notes) \in Nat
    BY <1>6, FS_CardinalityType DEF Counted
  <2> QED BY <2>3, <2>4, <2>5 DEF Counted
<1>8. OpenedInOrder'
  <2> SUFFICES ASSUME NEW j \in Keys, NEW i \in 1 .. Len(active'[j])
               PROVE  active'[j][i].start <= now /\ \A h \in i .. Len(active'[j]) : active'[j][i].start <= active'[j][h].start
    BY DEF OpenedInOrder
  <2>1. CASE j # k
    <3>1. active'[j] = active[j] /\ active[j][i].start \in Nat
      BY <1>1, <1>3, <2>1
    <3>2. active[j][i].start <= tick /\ \A h \in i .. Len(active[j]) : active[j][i].start <= active[j][h].start
      BY <3>1 DEF OpenedInOrder
    <3>3. active[j][i].start <= now
      BY <1>6, <3>1, <3>2
    <3> QED BY <3>1, <3>2, <3>3
  <2>2. CASE j = k /\ i = n + 1
    <3>1. \A h \in i .. n + 1 : h = n + 1
      BY <1>4, <2>2
    <3> QED BY <1>2, <1>4, <2>2, <3>1
  <2>3. CASE j = k /\ i # n + 1
    <3>1. i \in 1 .. n /\ active'[k][i] = active[k][i] /\ active[k][i].start \in Nat
      BY <1>1, <1>4, <2>3 DEF n
    <3>2. active[k][i].start <= tick /\ \A h \in i .. n : active[k][i].start <= active[k][h].start
      BY <3>1 DEF OpenedInOrder, n
    <3>4. active[k][i].start <= now
      BY <1>6, <3>1, <3>2
    <3>3. ASSUME NEW h \in i .. n + 1 PROVE active'[k][i].start <= active'[k][h].start
      <4>1. CASE h = n + 1
        <5>1. active'[k][h].start = now
          BY <1>2, <1>4, <4>1
        <5> QED BY <3>1, <3>4, <5>1
      <4>2. CASE h # n + 1
        <5>1. h \in i .. n /\ h \in 1 .. n
          BY <1>4, <3>1, <4>2
        <5> QED BY <1>4, <3>1, <3>2, <5>1
      <4> QED BY <4>1, <4>2
    <3>5. \A h \in i .. Len(active'[k]) : active'[k][i].start <= active'[k][h].start
      BY <1>4, <3>3
    <3> QED BY <2>3, <3>1, <3>4, <3>5
  <2> QED BY <2>1, <2>2, <2>3
<1>9. ClosedFirst'
  <2> SUFFICES ASSUME NEW i \in 1 .. Len(notes)
               PROVE  /\ notes[i].start < notes[i].end /\ notes[i].track <= track
                      /\ notes[i].track = track =>
                           /\ notes[i].start <= now /\ (notes[i].end <= now \/ notes[i].end = notes[i].start + 1)
                           /\ \A j \in 1 .. Len(active'[notes[i].pitch]) :
                                notes[i].start <= active'[notes[i].pitch][j].start
    BY DEF ClosedFirst
  <2> DEFINE z == notes[i]
  <2>1. z.start \in Nat /\ z.end \in Nat /\ z.pitch \in Keys
    <3>1. z \in NoteType
      BY <1>6
    <3> QED BY <3>1, NoteFields
  <2>2. /\ z.start < z.end /\ z.track <= track
        /\ z.track = track =>
             /\ z.start <= tick /\ (z.end <= tick \/ z.end = z.start + 1)
             /\ \A j \in 1 .. Len(active[z.pitch]) : z.start <= active[z.pitch][j].start
    BY DEF ClosedFirst
  <2> HIDE DEF z
  <2>3. ASSUME z.track = track, NEW j \in 1 .. Len(active'[z.pitch]) PROVE z.start <= active'[z.pitch][j].start
    <3>1. CASE z.pitch # k
      BY <1>3, <2>1, <2>2, <2>3, <3>1
    <3>2. CASE z.pitch = k /\ j = n + 1
      BY <1>2, <1>4, <1>6, <2>1, <2>2, <2>3, <3>2
    <3>3. CASE z.pitch = k /\ j # n + 1
      <4>1. j \in 1 .. n
        BY <1>4, <2>3, <3>3
      <4> QED BY <1>4, <2>2, <2>3, <3>3, <4>1 DEF n
    <3> QED BY <3>1, <3>2, <3>3
  <2> QED BY <1>6, <2>1, <2>2, <2>3 DEF z
<1>10. FirstEndsFirst'
  BY DEF FirstEndsFirst
<1> QED BY <1>5, <1>6, <1>7, <1>8, <1>9, <1>10

\* A sequence without its first element.
LEMMA TailIs ==
  ASSUME NEW S, NEW s \in Seq(S), s # <<>>
  PROVE  /\ Tail(s) \in Seq(S) /\ Len(s) \in Nat \ {0} /\ Len(Tail(s)) = Len(s) - 1
         /\ DOMAIN Tail(s) = 1 .. Len(s) - 1 /\ DOMAIN s = 1 .. Len(s)
         /\ \A i \in 1 .. Len(s) - 1 : Tail(s)[i] = s[i + 1]
OBVIOUS

\* A note ends after it starts: at its end, or the least time after its start.
LEMMA ClosedIs ==
  ASSUME NEW start \in Nat, NEW end \in Nat, NEW k \in Keys, NEW v \in Nat, track \in Nat, start <= end
  PROVE  LET z == Note(start, end, k, v) IN
         /\ z \in NoteType /\ z.start = start /\ z.pitch = k /\ z.track = track /\ z.start < z.end
         /\ z.end >= end /\ (z.end <= end \/ z.end = start + 1) /\ z.end >= start + 1
<1>1. AtLeast(end, start + 1) \in Nat /\ AtLeast(end, start + 1) > start /\ AtLeast(end, start + 1) >= end
      /\ (AtLeast(end, start + 1) <= end \/ AtLeast(end, start + 1) = start + 1)
  BY DEF AtLeast
<1> QED BY <1>1 DEF Note, NoteType

\* A note-off: the note that was opened first ends.
LEMMA Closes ==
  ASSUME DrumAssumption, Notes, NEW k \in Keys, active[k] # <<>>, NEW now \in Nat, now >= tick,
         tick' = now, track' = track, onsets' = onsets,
         active' = [active EXCEPT ![k] = Tail(@)],
         notes' = Append(notes, Note(active[k][1].start, now, k, active[k][1].velocity))
  PROVE  /\ active' \in [Keys -> Seq(OpenNote)] /\ notes' \in Seq(NoteType)
         /\ Counted' /\ OpenedInOrder' /\ ClosedFirst' /\ FirstEndsFirst'
<1> USE DEF Notes
<1> DEFINE a == active[k][1].start  z == Note(a, now, k, active[k][1].velocity)  n == Len(active[k])  m == Len(notes)
<1>1. \A j \in Keys : /\ active[j] \in Seq(OpenNote) /\ Len(active[j]) \in Nat /\ DOMAIN active[j] = 1 .. Len(active[j])
                      /\ \A i \in 1 .. Len(active[j]) : active[j][i].start \in Nat /\ active[j][i].velocity \in Nat
  BY ActiveIs
<1>2. active'[k] = Tail(active[k]) /\ \A j \in Keys \ {k} : active'[j] = active[j]
  BY DEF ReaderTypes
<1>3. /\ active'[k] \in Seq(OpenNote) /\ n \in Nat \ {0} /\ Len(active'[k]) = n - 1 /\ DOMAIN active'[k] = 1 .. n - 1
      /\ \A i \in 1 .. n - 1 : active'[k][i] = active[k][i + 1]
  <2> DEFINE q == active[k]
  <2>1. q \in Seq(OpenNote) /\ q # <<>> /\ active'[k] = Tail(q)
    BY <1>1, <1>2
  <2> HIDE DEF q
  <2>2. /\ Tail(q) \in Seq(OpenNote) /\ Len(q) \in Nat \ {0} /\ Len(Tail(q)) = Len(q) - 1
        /\ DOMAIN Tail(q) = 1 .. Len(q) - 1 /\ \A i \in 1 .. Len(q) - 1 : Tail(q)[i] = q[i + 1]
    BY <2>1, TailIs
  <2> QED BY <2>1, <2>2 DEF q
<1>4. active' \in [Keys -> Seq(OpenNote)]
  BY <1>1, <1>2, <1>3 DEF ReaderTypes
<1>5. tick \in Nat /\ track \in Nat /\ notes \in Seq(NoteType)
  BY DEF ReaderTypes, DrumAssumption
<1>6. /\ a \in Nat /\ active[k][1].velocity \in Nat /\ a <= tick
      /\ \A i \in 1 .. n : a <= active[k][i].start
  <2>1. 1 \in 1 .. n
    BY <1>3
  <2> QED BY <1>1, <2>1 DEF OpenedInOrder
<1>7. /\ z \in NoteType /\ z.start = a /\ z.pitch = k /\ z.track = track /\ z.start < z.end
      /\ z.end >= now /\ (z.end <= now \/ z.end = a + 1) /\ z.end >= a + 1
  <2>1. a <= now
    BY <1>5, <1>6
  <2> HIDE DEF a
  <2> QED BY <1>5, <1>6, <2>1, ClosedIs
<1> HIDE DEF a, z, n, m
<1>8. /\ notes' \in Seq(NoteType) /\ Len(notes') = m + 1 /\ m \in Nat /\ notes'[m + 1] = z
      /\ \A i \in 1 .. m : notes'[i] = notes[i]
  BY <1>5, <1>7, Appending DEF z, m, a
<1>9. Counted'
  <2>1. Open' = Open \ {<<k, n>>}
    <3>1. \A y : y \in Open' <=> \E j \in Keys : \E i \in DOMAIN active'[j] : y = <<j, i>>
      BY DEF Open, OpenAt
    <3>2. \A y : y \in Open <=> \E j \in Keys : \E i \in DOMAIN active[j] : y = <<j, i>>
      BY DEF Open, OpenAt
    <3>3. DOMAIN active'[k] = DOMAIN active[k] \ {n} /\ \A j \in Keys \ {k} : DOMAIN active'[j] = DOMAIN active[j]
      BY <1>1, <1>2, <1>3 DEF n
    <3>4. ASSUME NEW y \in Open' PROVE y \in Open \ {<<k, n>>}
      <4>1. PICK j \in Keys : \E i \in DOMAIN active'[j] : y = <<j, i>>
        BY <3>1, <3>4
      <4>2. CASE j = k
        BY <3>2, <3>3, <4>1, <4>2
      <4>3. CASE j # k
        BY <3>2, <3>3, <4>1, <4>3
      <4> QED BY <4>2, <4>3
    <3>5. ASSUME NEW y \in Open \ {<<k, n>>} PROVE y \in Open'
      <4>1. PICK j \in Keys : \E i \in DOMAIN active[j] : y = <<j, i>>
        BY <3>2, <3>5
      <4>2. \E i \in DOMAIN active'[j] : y = <<j, i>>
        BY <3>3, <3>5, <4>1
      <4> QED BY <3>1, <4>2
    <3> QED BY <3>4, <3>5
  <2>2. <<k, n>> \in Open
    <3>1. \A y : y \in Open <=> \E j \in Keys : \E i \in DOMAIN active[j] : y = <<j, i>>
      BY DEF Open, OpenAt
    <3>2. n \in DOMAIN active[k]
      BY <1>1, <1>3 DEF n
    <3> QED BY <3>1, <3>2
  <2>3. IsFiniteSet(Open') /\ Cardinality(Open') = Cardinality(Open) - 1
    BY <2>1, <2>2, FS_RemoveElement DEF Counted
  <2>4. Cardinality(Open) \in Nat
    BY FS_CardinalityType DEF Counted
  <2>5. Len(onsets) = m + Cardinality(Open) /\ onsets \in Seq([pitch : Keys, start : Nat, track : Nat])
    BY DEF Counted, m
  <2> QED BY <1>8, <2>3, <2>4, <2>5 DEF Counted
<1>10. OpenedInOrder'
  <2> SUFFICES ASSUME NEW j \in Keys, NEW i \in 1 .. Len(active'[j])
               PROVE  active'[j][i].start <= now /\ \A h \in i .. Len(active'[j]) : active'[j][i].start <= active'[j][h].start
    BY DEF OpenedInOrder
  <2>1. CASE j # k
    <3>1. active'[j] = active[j] /\ active[j][i].start \in Nat
      BY <1>1, <1>2, <2>1
    <3>2. active[j][i].start <= tick /\ \A h \in i .. Len(active[j]) : active[j][i].start <= active[j][h].start
      BY <3>1 DEF OpenedInOrder
    <3>3. active[j][i].start <= now
      BY <1>5, <3>1, <3>2
    <3> QED BY <3>1, <3>2, <3>3
  <2>2. CASE j = k
    <3>1. i \in 1 .. n - 1 /\ i + 1 \in 1 .. n /\ active'[k][i] = active[k][i + 1]
      BY <1>3, <2>2
    <3>2. active[k][i + 1].start \in Nat
      BY <1>1, <3>1 DEF n
    <3>3. active[k][i + 1].start <= tick /\ \A h \in i + 1 .. n : active[k][i + 1].start <= active[k][h].start
      BY <3>1 DEF OpenedInOrder, n
    <3>4. active[k][i + 1].start <= now
      BY <1>5, <3>2, <3>3
    <3>5. ASSUME NEW h \in i .. n - 1 PROVE active'[k][i].start <= active'[k][h].start
      <4>1. h \in 1 .. n - 1 /\ h + 1 \in i + 1 .. n
        BY <1>3, <3>1
      <4>2. active'[k][h] = active[k][h + 1]
        BY <1>3, <4>1
      <4> QED BY <3>1, <3>3, <4>1, <4>2
    <3> QED BY <1>3, <2>2, <3>1, <3>4, <3>5
  <2> QED BY <2>1, <2>2
<1>11. \A i \in 1 .. m : notes[i] \in NoteType
  BY <1>5 DEF m
<1>12. ASSUME NEW i \in 1 .. m
       PROVE  LET y == notes[i] IN
              /\ y.start \in Nat /\ y.end \in Nat /\ y.pitch \in Keys
              /\ y.start < y.end /\ y.track <= track
              /\ y.track = track =>
                   /\ y.start <= tick /\ (y.end <= tick \/ y.end = y.start + 1)
                   /\ \A j \in 1 .. Len(active[y.pitch]) : y.start <= active[y.pitch][j].start
  BY <1>11, NoteFields DEF ClosedFirst, m
<1>13. ClosedFirst'
  <2> SUFFICES ASSUME NEW i \in 1 .. m + 1
               PROVE  /\ notes'[i].start < notes'[i].end /\ notes'[i].track <= track
                      /\ notes'[i].track = track =>
                           /\ notes'[i].start <= now /\ (notes'[i].end <= now \/ notes'[i].end = notes'[i].start + 1)
                           /\ \A j \in 1 .. Len(active'[notes'[i].pitch]) :
                                notes'[i].start <= active'[notes'[i].pitch][j].start
    BY <1>8 DEF ClosedFirst
  <2>1. CASE i = m + 1
    <3>1. ASSUME NEW j \in 1 .. Len(active'[k]) PROVE a <= active'[k][j].start
      <4>1. j \in 1 .. n - 1 /\ j + 1 \in 1 .. n
        BY <1>3
      <4> QED BY <1>3, <1>6, <4>1
    <3>2. notes'[i] = z
      BY <1>8, <2>1
    <3>3. a <= now
      BY <1>5, <1>6
    <3>4. z.start < z.end /\ z.track <= track /\ z.start <= now /\ (z.end <= now \/ z.end = z.start + 1)
      BY <1>5, <1>7, <3>3
    <3>5. \A j \in 1 .. Len(active'[z.pitch]) : z.start <= active'[z.pitch][j].start
      BY <1>7, <3>1
    <3> QED BY <3>2, <3>4, <3>5
  <2>2. CASE i # m + 1
    <3> DEFINE y == notes[i]
    <3>1. i \in 1 .. m /\ notes'[i] = y
      BY <1>8, <2>2
    <3>2. /\ y.start \in Nat /\ y.end \in Nat /\ y.pitch \in Keys
          /\ y.start < y.end /\ y.track <= track
          /\ y.track = track =>
               /\ y.start <= tick /\ (y.end <= tick \/ y.end = y.start + 1)
               /\ \A j \in 1 .. Len(active[y.pitch]) : y.start <= active[y.pitch][j].start
      BY <1>12, <3>1
    <3> HIDE DEF y
    <3>3. ASSUME y.track = track, NEW j \in 1 .. Len(active'[y.pitch]) PROVE y.start <= active'[y.pitch][j].start
      <4>1. CASE y.pitch # k
        BY <1>2, <3>2, <3>3, <4>1
      <4>2. CASE y.pitch = k
        <5>1. j \in 1 .. n - 1 /\ j + 1 \in 1 .. n /\ active'[k][j] = active[k][j + 1]
          BY <1>3, <3>3, <4>2
        <5> QED BY <3>2, <3>3, <4>2, <5>1 DEF n
      <4> QED BY <4>1, <4>2
    <3>4. y.track = track => y.start <= now /\ (y.end <= now \/ y.end = y.start + 1)
      BY <1>5, <3>2
    <3> QED BY <3>1, <3>2, <3>3, <3>4
  <2> QED BY <2>1, <2>2
<1>14. FirstEndsFirst'
  <2> SUFFICES ASSUME NEW i \in 1 .. m + 1, NEW j \in 1 .. m + 1, notes'[i].pitch = notes'[j].pitch,
                      notes'[i].track = notes'[j].track, notes'[i].start < notes'[j].start
               PROVE  notes'[i].end <= notes'[j].end
    BY <1>8 DEF FirstEndsFirst
  <2>1. CASE i # m + 1 /\ j # m + 1
    <3>1. i \in 1 .. m /\ j \in 1 .. m /\ notes'[i] = notes[i] /\ notes'[j] = notes[j]
      BY <1>8, <2>1
    <3> QED BY <3>1 DEF FirstEndsFirst, m
  <2>2. CASE i # m + 1 /\ j = m + 1
    <3> DEFINE y == notes[i]
    <3>1. i \in 1 .. m /\ notes'[i] = y /\ notes'[j] = z
      BY <1>8, <2>2
    <3>2. y.track = track /\ y.start < a /\ y.pitch = k
      BY <1>7, <3>1
    <3>3. y.start \in Nat /\ y.end \in Nat /\ (y.end <= tick \/ y.end = y.start + 1)
      BY <1>12, <3>1, <3>2
    <3>4. z.end \in Nat
      BY <1>7, NoteFields
    <3> HIDE DEF y
    <3>5. y.end <= z.end
      BY <1>5, <1>6, <1>7, <3>2, <3>3, <3>4
    <3> QED BY <3>1, <3>5
  <2>3. CASE i = m + 1
    <3>1. notes'[i] = z /\ ~(z.start < z.start)
      BY <1>6, <1>7, <1>8, <2>3
    <3>2. j \in 1 .. m /\ notes'[j] = notes[j]
      BY <1>8, <2>3, <3>1
    <3>3. notes[j].start \in Nat /\ notes[j].pitch = k /\ notes[j].track = track /\ a < notes[j].start
      BY <1>7, <1>12, <3>1, <3>2
    <3>4. 1 \in 1 .. Len(active[k]) /\ active[k][1].start = a
      BY <1>3 DEF n, a
    <3>5. notes[j].start <= a
      BY <1>12, <3>2, <3>3, <3>4
    <3> QED BY <1>6, <3>3, <3>5
  <2> QED BY <2>1, <2>2, <2>3
<1> QED BY <1>4, <1>8, <1>9, <1>10, <1>13, <1>14

\* Time passes.
LEMMA Passes ==
  ASSUME DrumAssumption, Notes, tick' \in Nat, tick' >= tick, track' = track, notes' = notes, active' = active, onsets' = onsets
  PROVE  Counted' /\ OpenedInOrder' /\ ClosedFirst' /\ FirstEndsFirst'
<1> USE DEF Notes
<1>1. tick \in Nat /\ notes \in Seq(NoteType)
  BY DEF ReaderTypes
<1>2. Counted'
  BY DEF Counted, Open, OpenAt
<1>3. OpenedInOrder'
  <2> SUFFICES ASSUME NEW j \in Keys, NEW i \in 1 .. Len(active[j])
               PROVE  active[j][i].start <= tick' /\ \A h \in i .. Len(active[j]) : active[j][i].start <= active[j][h].start
    BY DEF OpenedInOrder
  <2>1. active[j][i].start \in Nat
    BY ActiveIs
  <2>2. active[j][i].start <= tick /\ \A h \in i .. Len(active[j]) : active[j][i].start <= active[j][h].start
    BY DEF OpenedInOrder
  <2> QED BY <1>1, <2>1, <2>2
<1>4. ClosedFirst'
  <2> SUFFICES ASSUME NEW i \in 1 .. Len(notes)
               PROVE  /\ notes[i].start < notes[i].end /\ notes[i].track <= track
                      /\ notes[i].track = track =>
                           /\ notes[i].start <= tick' /\ (notes[i].end <= tick' \/ notes[i].end = notes[i].start + 1)
                           /\ \A j \in 1 .. Len(active[notes[i].pitch]) :
                                notes[i].start <= active[notes[i].pitch][j].start
    BY DEF ClosedFirst
  <2>1. notes[i].start \in Nat /\ notes[i].end \in Nat
    <3>1. notes[i] \in NoteType
      BY <1>1
    <3> QED BY <3>1, NoteFields
  <2>2. /\ notes[i].start < notes[i].end /\ notes[i].track <= track
        /\ notes[i].track = track =>
             /\ notes[i].start <= tick /\ (notes[i].end <= tick \/ notes[i].end = notes[i].start + 1)
             /\ \A j \in 1 .. Len(active[notes[i].pitch]) : notes[i].start <= active[notes[i].pitch][j].start
    BY DEF ClosedFirst
  <2> QED BY <1>1, <2>1, <2>2
<1>5. FirstEndsFirst'
  BY DEF FirstEndsFirst
<1> QED BY <1>2, <1>3, <1>4, <1>5

\* The members of Open.
LEMMA OpenHas ==
  ASSUME NEW y
  PROVE  y \in Open <=> \E j \in Keys : \E i \in DOMAIN active[j] : y = <<j, i>>
BY DEF Open, OpenAt

\* The hanging notes have one order.
LEMMA Ordered ==
  ASSUME DrumAssumption, ReaderTypes
  PROVE  StrictOrder(Open, OpenOrder)
<1>1. \A y \in Open : y = <<y[1], y[2]>> /\ y[1] \in Nat /\ y[2] \in Nat
  <2> SUFFICES ASSUME NEW y \in Open PROVE y = <<y[1], y[2]>> /\ y[1] \in Nat /\ y[2] \in Nat
    OBVIOUS
  <2>4. PICK j \in Keys : \E i \in DOMAIN active[j] : y = <<j, i>>
    BY OpenHas
  <2>1. PICK i \in DOMAIN active[j] : y = <<j, i>>
    BY <2>4
  <2>2. j \in Nat
    BY DEF DrumAssumption
  <2>3. i \in Nat
    BY ActiveIs
  <2> QED BY <2>1, <2>2, <2>3
<1>2. \A a, b \in Open : <<a, b>> \in OpenOrder <=> Before(a, b)
  BY DEF OpenOrder
<1>3. ASSUME NEW a \in Open, NEW b \in Open PROVE a = b \/ Before(a, b) \/ Before(b, a)
  <2>1. a = <<a[1], a[2]>> /\ a[1] \in Nat /\ a[2] \in Nat /\ b = <<b[1], b[2]>> /\ b[1] \in Nat /\ b[2] \in Nat
    BY <1>1
  <2>2. CASE a[1] = b[1] /\ a[2] = b[2]
    BY <2>1, <2>2
  <2>3. CASE ~(a[1] = b[1] /\ a[2] = b[2])
    <3> DEFINE w == a[1]  x == a[2]  y == b[1]  z == b[2]
    <3>1. w \in Nat /\ x \in Nat /\ y \in Nat /\ z \in Nat /\ ~(w = y /\ x = z)
      BY <2>1, <2>3
    <3> HIDE DEF w, x, y, z
    <3>2. (w < y \/ (w = y /\ x < z)) \/ (y < w \/ (y = w /\ z < x))
      BY <3>1
    <3> QED BY <3>2 DEF Before, w, x, y, z
  <2> QED BY <2>2, <2>3
<1>4. ASSUME NEW a \in Open, NEW b \in Open, NEW c \in Open, Before(a, b), Before(b, c) PROVE Before(a, c)
  <2>1. a[1] \in Nat /\ a[2] \in Nat /\ b[1] \in Nat /\ b[2] \in Nat /\ c[1] \in Nat /\ c[2] \in Nat
    BY <1>1
  <2> QED BY <1>4, <2>1 DEF Before
<1> QED BY <1>2, <1>3, <1>4 DEF StrictOrder

\* The notes that are closed at the end of a track.
LEMMA HangingIs ==
  ASSUME DrumAssumption, Notes
  PROVE  /\ Hanging \in Seq(NoteType) /\ Len(Hanging) = Cardinality(Open) /\ Cardinality(Open) \in Nat
         /\ \A n \in 1 .. Len(Hanging) : \E k \in Keys : \E i \in 1 .. Len(active[k]) :
              /\ Hanging[n].pitch = k /\ Hanging[n].track = track /\ Hanging[n].start = active[k][i].start
              /\ Hanging[n].end = AtLeast(tick, active[k][i].start + 1)
<1> USE DEF Notes
<1> DEFINE N == Cardinality(Open)  f == InOrder(Open, OpenOrder)
<1>1. N \in Nat /\ f \in [1 .. N -> Open]
  BY Ordered, InOrderIs DEF Counted
<1>2. tick \in Nat /\ track \in Nat
  BY DEF ReaderTypes, DrumAssumption
<1>3. Hanging = [n \in 1 .. N |-> Closed(f[n][1], f[n][2])]
  BY DEF Hanging
<1> HIDE DEF N, f
<1>4. ASSUME NEW n \in 1 .. N
      PROVE  /\ Hanging[n] \in NoteType
             /\ \E k \in Keys : \E i \in 1 .. Len(active[k]) :
                  /\ Hanging[n].pitch = k /\ Hanging[n].track = track /\ Hanging[n].start = active[k][i].start
                  /\ Hanging[n].end = AtLeast(tick, active[k][i].start + 1)
  <2>1. f[n] \in Open
    BY <1>1
  <2>8. PICK k \in Keys : \E i \in DOMAIN active[k] : f[n] = <<k, i>>
    BY <2>1, OpenHas
  <2>2. PICK i \in DOMAIN active[k] : f[n] = <<k, i>>
    BY <2>8
  <2>3. i \in 1 .. Len(active[k]) /\ active[k][i].start \in Nat /\ active[k][i].velocity \in Nat
    BY ActiveIs
  <2>4. active[k][i].start <= tick
    BY <2>3 DEF OpenedInOrder
  <2> DEFINE a == active[k][i].start  v == active[k][i].velocity
  <2>5. Hanging[n] = Note(a, tick, k, v)
    BY <1>3, <2>2 DEF Closed
  <2> HIDE DEF a, v
  <2>6. Note(a, tick, k, v) \in NoteType
    BY <1>2, <2>3, <2>4, ClosedIs DEF a, v
  <2>7. /\ Note(a, tick, k, v).pitch = k /\ Note(a, tick, k, v).track = track /\ Note(a, tick, k, v).start = a
        /\ Note(a, tick, k, v).end = AtLeast(tick, a + 1)
    BY DEF Note
  <2> QED BY <2>3, <2>5, <2>6, <2>7 DEF a
<1>5. Hanging \in Seq(NoteType) /\ Len(Hanging) = N
  <2>1. DOMAIN Hanging = 1 .. N
    BY <1>3
  <2>2. Hanging = [n \in 1 .. N |-> Hanging[n]]
    BY <1>3
  <2>3. Hanging \in [1 .. N -> NoteType]
    BY <1>4, <2>2
  <2> QED BY <1>1, <2>3
<1> QED BY <1>1, <1>4, <1>5 DEF N

\* Two sequences, one after the other.
LEMMA Joined ==
  ASSUME NEW S, NEW s \in Seq(S), NEW t \in Seq(S)
  PROVE  /\ s \o t \in Seq(S) /\ Len(s) \in Nat /\ Len(t) \in Nat /\ Len(s \o t) = Len(s) + Len(t)
         /\ \A i \in 1 .. Len(s) + Len(t) :
              IF i <= Len(s) THEN (s \o t)[i] = s[i] ELSE i - Len(s) \in 1 .. Len(t) /\ (s \o t)[i] = t[i - Len(s)]
OBVIOUS

\* The end of a track.
LEMMA Ends ==
  ASSUME DrumAssumption, Notes, notes' = notes \o Hanging, active' = [k \in Keys |-> <<>>], tick' = 0,
         track' = track + 1, onsets' = onsets
  PROVE  /\ active' \in [Keys -> Seq(OpenNote)] /\ notes' \in Seq(NoteType)
         /\ Counted' /\ OpenedInOrder' /\ ClosedFirst' /\ FirstEndsFirst'
<1> USE DEF Notes
<1> DEFINE m == Len(notes)  N == Len(Hanging)
<1>1. tick \in Nat /\ track \in Nat /\ notes \in Seq(NoteType)
  BY DEF ReaderTypes, DrumAssumption
<1>2. /\ Hanging \in Seq(NoteType) /\ N = Cardinality(Open) /\ N \in Nat
      /\ \A n \in 1 .. N : \E k \in Keys : \E i \in 1 .. Len(active[k]) :
           /\ Hanging[n].pitch = k /\ Hanging[n].track = track /\ Hanging[n].start = active[k][i].start
           /\ Hanging[n].end = AtLeast(tick, active[k][i].start + 1)
  BY HangingIs
<1>3. /\ notes' \in Seq(NoteType) /\ m \in Nat /\ Len(notes') = m + N
      /\ \A i \in 1 .. m + N :
           IF i <= m THEN notes'[i] = notes[i] ELSE i - m \in 1 .. N /\ notes'[i] = Hanging[i - m]
  <2> DEFINE h == Hanging
  <2>1. h \in Seq(NoteType) /\ notes' = notes \o h
    BY <1>2
  <2> HIDE DEF h
  <2>2. /\ notes' \in Seq(NoteType) /\ Len(notes) \in Nat /\ Len(notes') = Len(notes) + Len(h)
        /\ \A i \in 1 .. Len(notes) + Len(h) :
             IF i <= Len(notes) THEN notes'[i] = notes[i] ELSE i - Len(notes) \in 1 .. Len(h) /\ notes'[i] = h[i - Len(notes)]
    BY <1>1, <2>1, Joined
  <2> QED BY <2>2 DEF h
<1>4. active' \in [Keys -> Seq(OpenNote)] /\ \A k \in Keys : Len(active'[k]) = 0 /\ DOMAIN active'[k] = {}
  OBVIOUS
<1>5. \A i \in 1 .. m : notes[i] \in NoteType
  BY <1>1
<1>6. ASSUME NEW i \in 1 .. m
      PROVE  LET y == notes[i] IN
             /\ y.start \in Nat /\ y.end \in Nat /\ y.pitch \in Keys /\ y.track \in Nat
             /\ y.start < y.end /\ y.track <= track
             /\ y.track = track =>
                  /\ y.start <= tick /\ (y.end <= tick \/ y.end = y.start + 1)
                  /\ \A j \in 1 .. Len(active[y.pitch]) : y.start <= active[y.pitch][j].start
  BY <1>5, NoteFields DEF ClosedFirst
<1>7. ASSUME NEW n \in 1 .. N
      PROVE  LET z == Hanging[n] IN
             /\ z.start \in Nat /\ z.end \in Nat /\ z.track = track /\ z.start <= tick
             /\ z.start < z.end /\ z.end = AtLeast(tick, z.start + 1)
             /\ \E i \in 1 .. Len(active[z.pitch]) : z.start = active[z.pitch][i].start
  <2> DEFINE z == Hanging[n]
  <2>1. PICK k \in Keys : \E i \in 1 .. Len(active[k]) :
           /\ z.pitch = k /\ z.track = track /\ z.start = active[k][i].start
           /\ z.end = AtLeast(tick, active[k][i].start + 1)
    BY <1>2
  <2> HIDE DEF z
  <2>2. PICK i \in 1 .. Len(active[k]) :
           /\ z.pitch = k /\ z.track = track /\ z.start = active[k][i].start
           /\ z.end = AtLeast(tick, active[k][i].start + 1)
    BY <2>1
  <2>3. active[k][i].start \in Nat
    BY ActiveIs
  <2>4. active[k][i].start <= tick
    BY <2>2 DEF OpenedInOrder
  <2>5. z.end \in Nat /\ z.start < z.end
    BY <1>1, <2>2, <2>3 DEF AtLeast
  <2> QED BY <2>2, <2>3, <2>4, <2>5 DEF z
<1> HIDE DEF m, N
<1>12. /\ m \in Nat /\ N \in Nat /\ Len(notes') = m + N
       /\ \A i \in 1 .. m : notes'[i] = notes[i]
       /\ \A i \in 1 .. m + N : i \in 1 .. m \/ i - m \in 1 .. N
       /\ \A i \in 1 .. m + N : i - m \in 1 .. N => notes'[i] = Hanging[i - m]
  <2>1. m \in Nat /\ N \in Nat
    BY <1>2, <1>3
  <2>2. \A i \in 1 .. m : i \in 1 .. m + N /\ i <= m
    BY <2>1
  <2>3. \A i \in 1 .. m + N : (i <= m => i \in 1 .. m) /\ (i - m \in 1 .. N => ~(i <= m))
    BY <2>1
  <2> QED BY <1>3, <2>1, <2>2, <2>3
<1>8. Counted'
  <2>1. Open' = {}
    BY <1>4 DEF Open, OpenAt
  <2>2. IsFiniteSet(Open') /\ Cardinality(Open') = 0
    BY <2>1, FS_EmptySet
  <2>3. Len(onsets) = m + N /\ onsets \in Seq([pitch : Keys, start : Nat, track : Nat])
    BY <1>2 DEF Counted, m
  <2> QED BY <1>2, <1>3, <2>2, <2>3 DEF Counted
<1>9. OpenedInOrder'
  BY <1>4 DEF OpenedInOrder
<1>10. ClosedFirst'
  <2> SUFFICES ASSUME NEW i \in 1 .. m + N
               PROVE  notes'[i].start < notes'[i].end /\ notes'[i].track \in Nat /\ notes'[i].track < track + 1
    <3>1. \A i \in 1 .. Len(notes') : notes'[i].start < notes'[i].end /\ notes'[i].track <= track'
                                      /\ notes'[i].track # track'
      BY <1>1, <1>12
    <3> QED BY <3>1 DEF ClosedFirst
  <2>1. CASE i \in 1 .. m
    <3>1. i \in 1 .. m /\ notes'[i] = notes[i]
      BY <1>12, <2>1
    <3>2. notes[i].start < notes[i].end /\ notes[i].track <= track /\ notes[i].track \in Nat
      BY <1>6, <3>1
    <3> QED BY <1>1, <3>1, <3>2
  <2>2. CASE i - m \in 1 .. N
    <3>1. i - m \in 1 .. N /\ notes'[i] = Hanging[i - m]
      BY <1>12, <2>2
    <3>2. Hanging[i - m].start < Hanging[i - m].end /\ Hanging[i - m].track = track
      BY <1>7, <3>1
    <3> QED BY <1>1, <3>1, <3>2
  <2> QED BY <1>12, <2>1, <2>2
<1>11. FirstEndsFirst'
  <2> SUFFICES ASSUME NEW i \in 1 .. m + N, NEW j \in 1 .. m + N, notes'[i].pitch = notes'[j].pitch,
                      notes'[i].track = notes'[j].track, notes'[i].start < notes'[j].start
               PROVE  notes'[i].end <= notes'[j].end
    BY <1>12 DEF FirstEndsFirst
  <2>1. CASE i \in 1 .. m /\ j \in 1 .. m
    <3>1. i \in 1 .. m /\ j \in 1 .. m /\ notes'[i] = notes[i] /\ notes'[j] = notes[j]
      BY <1>12, <2>1
    <3> QED BY <3>1 DEF FirstEndsFirst, m
  <2>2. CASE j - m \in 1 .. N
    <3> DEFINE z == Hanging[j - m]
    <3>1. j - m \in 1 .. N /\ notes'[j] = z
      BY <1>12, <2>2
    <3>2. z.start \in Nat /\ z.end \in Nat /\ z.track = track /\ z.start <= tick /\ z.end = AtLeast(tick, z.start + 1)
      BY <1>7, <3>1
    <3> HIDE DEF z
    <3>3. z.end >= tick /\ z.end >= z.start + 1
      BY <1>1, <3>2 DEF AtLeast
    <3>4. CASE i \in 1 .. m
      <4> DEFINE y == notes[i]
      <4>1. i \in 1 .. m /\ notes'[i] = y
        BY <1>12, <3>4
      <4>2. y.start \in Nat /\ y.end \in Nat /\ y.track = track /\ y.start < z.start
            /\ (y.track = track => y.end <= tick \/ y.end = y.start + 1)
        BY <1>6, <3>1, <3>2, <4>1
      <4> HIDE DEF y
      <4>3. y.end <= z.end
        BY <1>1, <3>2, <3>3, <4>2
      <4> QED BY <3>1, <4>1, <4>3
    <3>5. CASE i - m \in 1 .. N
      <4> DEFINE y == Hanging[i - m]
      <4>1. i - m \in 1 .. N /\ notes'[i] = y
        BY <1>12, <3>5
      <4>2. y.start \in Nat /\ y.end \in Nat /\ y.end = AtLeast(tick, y.start + 1) /\ y.start < z.start
        BY <1>7, <3>1, <4>1
      <4> HIDE DEF y
      <4>3. y.end <= z.end
        BY <1>1, <3>2, <4>2 DEF AtLeast
      <4> QED BY <3>1, <4>1, <4>3
    <3> QED BY <1>12, <3>4, <3>5
  <2>3. CASE i - m \in 1 .. N /\ j \in 1 .. m
    <3> DEFINE z == Hanging[i - m]  y == notes[j]
    <3>1. i - m \in 1 .. N /\ notes'[i] = z /\ j \in 1 .. m /\ notes'[j] = y
      BY <1>12, <2>3
    <3>2. z.start \in Nat /\ z.track = track /\ \E h \in 1 .. Len(active[z.pitch]) : z.start = active[z.pitch][h].start
      BY <1>7, <3>1
    <3>3. /\ y.start \in Nat /\ z.start < y.start /\ y.track = track /\ y.pitch = z.pitch
          /\ y.track = track => \A h \in 1 .. Len(active[y.pitch]) : y.start <= active[y.pitch][h].start
      BY <1>6, <3>1, <3>2
    <3> HIDE DEF y, z
    <3>4. y.start <= z.start
      BY <3>2, <3>3
    <3> QED BY <3>2, <3>3, <3>4
  <2> QED BY <1>12, <2>1, <2>2, <2>3
<1> QED BY <1>3, <1>4, <1>8, <1>9, <1>10, <1>11

\* The sort key with the place in the list is a strict order of the notes.
LEMMA SoonerOrders ==
  ASSUME NEW ns \in Seq(NoteType), Keys \subseteq Nat
  PROVE  StrictOrder(DOMAIN ns, SoonerPairs(ns))
<1>1. DOMAIN ns \subseteq Nat /\ \A i \in DOMAIN ns : ns[i] \in NoteType
  OBVIOUS
<1>2. \A i \in DOMAIN ns : ns[i].start \in Nat /\ ns[i].pitch \in Nat /\ ns[i].track \in Nat /\ i \in Nat
  BY <1>1, NoteFields
<1>3. \A i, j \in DOMAIN ns : <<i, j>> \in SoonerPairs(ns) <=> Sooner(ns, i, j)
  BY DEF SoonerPairs
<1>4. ASSUME NEW i \in DOMAIN ns, NEW j \in DOMAIN ns PROVE i = j \/ Sooner(ns, i, j) \/ Sooner(ns, j, i)
  BY <1>2 DEF Sooner, SameKey
<1>5. ASSUME NEW i \in DOMAIN ns, NEW j \in DOMAIN ns, NEW k \in DOMAIN ns, Sooner(ns, i, j), Sooner(ns, j, k)
      PROVE  Sooner(ns, i, k)
  BY <1>2, <1>5 DEF Sooner, SameKey
<1> QED BY <1>3, <1>4, <1>5 DEF StrictOrder

\* The notes in order are the notes that were read.
LEMMA ByStartIs ==
  ASSUME NEW ns \in Seq(NoteType), Keys \subseteq Nat
  PROVE  /\ ByStart(ns) \in Seq(NoteType) /\ Len(ByStart(ns)) = Len(ns)
         /\ \A n \in 1 .. Len(ns) : \E i \in 1 .. Len(ns) : ByStart(ns)[n] = ns[i]
<1> DEFINE N == Len(ns)  f == InOrder(DOMAIN ns, SoonerPairs(ns))
<1>1. N \in Nat /\ DOMAIN ns = 1 .. N /\ \A i \in 1 .. N : ns[i] \in NoteType
  OBVIOUS
<1>2. IsFiniteSet(1 .. N) /\ Cardinality(1 .. N) = N
  <2> HIDE DEF N
  <2>1. 1 \in Int /\ N \in Int /\ (IF 1 > N THEN 0 ELSE N - 1 + 1) = N
    BY <1>1
  <2> QED BY <2>1, FS_Interval
<1>3. f \in [1 .. N -> 1 .. N]
  <2>1. IsFiniteSet(DOMAIN ns) /\ Cardinality(DOMAIN ns) = N /\ StrictOrder(DOMAIN ns, SoonerPairs(ns))
    BY <1>1, <1>2, SoonerOrders
  <2>2. f \in [1 .. Cardinality(DOMAIN ns) -> DOMAIN ns]
    BY <2>1, InOrderIs
  <2> QED BY <1>1, <2>1, <2>2
<1>4. ByStart(ns) = [n \in 1 .. N |-> ns[f[n]]]
  BY DEF ByStart
<1> HIDE DEF f, N
<1>5. \A n \in 1 .. N : f[n] \in 1 .. N /\ ByStart(ns)[n] = ns[f[n]] /\ ns[f[n]] \in NoteType
  BY <1>1, <1>3, <1>4
<1>6. ByStart(ns) \in [1 .. N -> NoteType]
  BY <1>4, <1>5
<1>7. ByStart(ns) \in Seq(NoteType) /\ Len(ByStart(ns)) = N
  BY <1>1, <1>6
<1> QED BY <1>5, <1>7 DEF N

\* The last tick is no earlier than any end.
LEMMA LastTickIs ==
  ASSUME NEW ns \in Seq(NoteType), NEW end \in Nat
  PROVE  LastTick(ns, end) \in Nat /\ \A i \in 1 .. Len(ns) : ns[i].end <= LastTick(ns, end)
<1> DEFINE n == Len(ns)  f == [i \in 1 .. n |-> ns[i].end]
<1>1. n \in Nat /\ DOMAIN ns = 1 .. n /\ \A i \in 1 .. n : ns[i] \in NoteType
  OBVIOUS
<1>2. \A i \in 1 .. n : f[i] = ns[i].end /\ f[i] \in Nat
  BY <1>1, NoteFields
<1>3. LastTick(ns, end) = Max(EndsOf(end, n, f))
  <2>1. {ns[i].end : i \in DOMAIN ns} = {f[i] : i \in 1 .. n}
    BY <1>1
  <2> QED BY <2>1 DEF LastTick, EndsOf
<1> HIDE DEF f, n
<1>4. /\ Max(EndsOf(end, n, f)) \in EndsOf(end, n, f) /\ \A k \in EndsOf(end, n, f) : k <= Max(EndsOf(end, n, f))
  <2>1. end \in Int /\ \A i \in 1 .. n : f[i] \in Int
    BY <1>2
  <2> QED BY <1>1, <2>1, GreatestOf
<1>5. EndsOf(end, n, f) \subseteq Nat /\ \A i \in 1 .. n : f[i] \in EndsOf(end, n, f)
  BY <1>2 DEF EndsOf
<1> QED BY <1>2, <1>3, <1>4, <1>5 DEF n

\* The take.
LEMMA Finishes ==
  ASSUME DrumAssumption, Notes, notes' = ByStart(notes), last' = LastTick(notes, last), UNCHANGED <<track, tick, active, onsets>>
  PROVE  /\ notes' \in Seq(NoteType) /\ last' \in Nat /\ NotesFit'
         /\ Counted' /\ OpenedInOrder' /\ ClosedFirst' /\ FirstEndsFirst'
<1> USE DEF Notes
<1>1. notes \in Seq(NoteType) /\ last \in Nat /\ Keys \subseteq Nat
  BY DEF ReaderTypes, DrumAssumption
<1>2. /\ notes' \in Seq(NoteType) /\ Len(notes') = Len(notes)
      /\ \A n \in 1 .. Len(notes) : \E i \in 1 .. Len(notes) : notes'[n] = notes[i]
  BY <1>1, ByStartIs
<1>3. last' \in Nat /\ \A i \in 1 .. Len(notes) : notes[i].end <= last'
  BY <1>1, LastTickIs
<1>4. NotesFit'
  BY <1>2, <1>3 DEF NotesFit
<1>5. Counted'
  BY <1>2 DEF Counted, Open, OpenAt
<1>6. OpenedInOrder'
  BY DEF OpenedInOrder
<1>7. ClosedFirst'
  <2> SUFFICES ASSUME NEW n \in 1 .. Len(notes)
               PROVE  /\ notes'[n].start < notes'[n].end /\ notes'[n].track <= track
                      /\ notes'[n].track = track =>
                           /\ notes'[n].start <= tick /\ (notes'[n].end <= tick \/ notes'[n].end = notes'[n].start + 1)
                           /\ \A j \in 1 .. Len(active[notes'[n].pitch]) :
                                notes'[n].start <= active[notes'[n].pitch][j].start
    BY <1>2 DEF ClosedFirst
  <2>1. PICK i \in 1 .. Len(notes) : notes'[n] = notes[i]
    BY <1>2
  <2> QED BY <2>1 DEF ClosedFirst
<1>8. FirstEndsFirst'
  <2> SUFFICES ASSUME NEW m \in 1 .. Len(notes), NEW n \in 1 .. Len(notes), notes'[m].pitch = notes'[n].pitch,
                      notes'[m].track = notes'[n].track, notes'[m].start < notes'[n].start
               PROVE  notes'[m].end <= notes'[n].end
    BY <1>2 DEF FirstEndsFirst
  <2>1. PICK i \in 1 .. Len(notes) : notes'[m] = notes[i]
    BY <1>2
  <2>2. PICK j \in 1 .. Len(notes) : notes'[n] = notes[j]
    BY <1>2
  <2> QED BY <2>1, <2>2 DEF FirstEndsFirst
<1> QED BY <1>2, <1>3, <1>4, <1>5, <1>6, <1>7, <1>8

\* The invariant at the start.
LEMMA DrumStarts ==
  ASSUME DrumAssumption, DrumInit
  PROVE  DrumInv
<1>1. \A k \in Keys : Len(active[k]) = 0 /\ DOMAIN active[k] = {} /\ active[k] \in Seq(OpenNote)
  BY DEF DrumInit
<1>2. ReaderTypes
  BY <1>1 DEF DrumInit, ReaderTypes, DrumAssumption
<1>3. Counted
  <2>1. Open = {}
    BY <1>1 DEF Open, OpenAt
  <2>2. IsFiniteSet(Open) /\ Cardinality(Open) = 0
    BY <2>1, FS_EmptySet
  <2> QED BY <2>2 DEF Counted, DrumInit
<1>4. OpenedInOrder
  <2>1. ASSUME NEW k \in Keys, NEW i \in 1 .. Len(active[k]) PROVE FALSE
    <3>1. Len(active[k]) = 0
      BY <1>1
    <3>2. i \in 1 .. 0
      BY <3>1
    <3> QED BY <3>2
  <2> QED BY <2>1 DEF OpenedInOrder
<1>5. ClosedFirst /\ FirstEndsFirst
  BY DEF ClosedFirst, FirstEndsFirst, DrumInit
<1>6. EndHeld /\ MadeOf
  BY DEF EndHeld, MadeOf, DrumInit
<1> QED BY <1>2, <1>3, <1>4, <1>5, <1>6 DEF DrumInv

\* Reading an event: what was made is still nothing.
LEMMA Unmade ==
  ASSUME DrumInv, phase # "schedule", made' = made, phase' # "schedule"
  PROVE  EndHeld' /\ MadeOf'
<1>1. made = NotMade
  BY DEF DrumInv, MadeOf
<1> QED BY <1>1 DEF EndHeld, MadeOf, NotMade

\* What Reading() gives of the types.
LEMMA Reads ==
  ASSUME DrumAssumption, DrumInv, NEW d \in Deltas, Reading(d)
  PROVE  phase = "track" /\ tick \in Nat /\ tick + d \in Nat /\ tick' = tick + d /\ tick' >= tick /\ tick' \in Nat
         /\ events' \in 0 .. MaxEvents /\ track <= Tracks /\ track \in 1 .. Tracks + 1 /\ last \in Nat
         /\ notes \in Seq(NoteType) /\ tempos \in Seq(TempoType) /\ active \in [Keys -> Seq(OpenNote)]
         /\ running \in Status \cup {NoRunning}
<1>1. d \in Nat /\ MaxEvents \in Nat
  BY DEF DrumAssumption
<1>2. ReaderTypes
  BY DEF DrumInv
<1> QED BY <1>1, <1>2 DEF Reading, ReaderTypes

\* Reading what leaves the notes alone.
LEMMA ReadsOn ==
  ASSUME DrumAssumption, DrumInv, NEW d \in Deltas, Reading(d), running' \in Status \cup {NoRunning},
         tempos' \in Seq(TempoType), UNCHANGED <<phase, track, notes, active, onsets, last, made>>
  PROVE  DrumInv'
<1>1. Notes
  BY DEF DrumInv, Notes
<1>2. /\ phase = "track" /\ tick' >= tick /\ tick' \in Nat /\ events' \in 0 .. MaxEvents /\ track <= Tracks
      /\ track \in 1 .. Tracks + 1 /\ last \in Nat /\ notes \in Seq(NoteType) /\ active \in [Keys -> Seq(OpenNote)]
  BY Reads
<1>3. Counted' /\ OpenedInOrder' /\ ClosedFirst' /\ FirstEndsFirst'
  BY <1>1, <1>2, Passes
<1>4. EndHeld' /\ MadeOf'
  BY <1>2, Unmade
<1>5. ReaderTypes'
  BY <1>2 DEF ReaderTypes
<1> QED BY <1>3, <1>4, <1>5 DEF DrumInv

\* A channel message, with its own status or the running one.
LEMMA MessageKeeps ==
  ASSUME DrumAssumption, DrumInv, NEW d \in Deltas, NEW k \in Keys, NEW v \in {0, 1}, NEW status \in Status,
         Reading(d), running' \in Status \cup {NoRunning}, Message(status, d, k, v)
  PROVE  DrumInv'
<1>1. Notes
  BY DEF DrumInv, Notes
<1> DEFINE now == tick + d
<1>2. /\ phase = "track" /\ now \in Nat /\ tick' = now /\ now >= tick /\ events' \in 0 .. MaxEvents /\ track <= Tracks
      /\ track \in 1 .. Tracks + 1 /\ last \in Nat /\ tempos \in Seq(TempoType)
  BY Reads
<1>3. phase' = phase /\ track' = track /\ tempos' = tempos /\ last' = last /\ made' = made
  BY DEF Message
<1>4. EndHeld' /\ MadeOf'
  BY <1>2, <1>3, Unmade
<1>5. CASE status.type # "program" /\ status.channel = Selected
  <2>1. HandleNoteEvent(status.type, k, v, now)
    BY <1>5 DEF Message
  <2>2. CASE status.type = "on" /\ v > 0
    <3>1. /\ active' = [active EXCEPT ![k] = Append(@, [start |-> now, velocity |-> v])]
          /\ onsets' = Append(onsets, [pitch |-> k, start |-> now, track |-> track]) /\ notes' = notes
      BY <2>1, <2>2 DEF HandleNoteEvent
    <3> HIDE DEF now
    <3>2. /\ active' \in [Keys -> Seq(OpenNote)] /\ notes' \in Seq(NoteType)
          /\ Counted' /\ OpenedInOrder' /\ ClosedFirst' /\ FirstEndsFirst'
      BY <1>1, <1>2, <1>3, <3>1, Opens
    <3>3. ReaderTypes'
      BY <1>2, <1>3, <3>2 DEF ReaderTypes
    <3> QED BY <1>4, <3>2, <3>3 DEF DrumInv
  <2>3. CASE ~(status.type = "on" /\ v > 0) /\ active[k] # <<>>
    <3>1. active' = [active EXCEPT ![k] = IF @ = <<>> THEN @ ELSE Tail(@)]
          /\ notes' = Append(notes, Note(active[k][1].start, now, k, active[k][1].velocity)) /\ onsets' = onsets
      BY <2>1, <2>3 DEF HandleNoteEvent
    <3>2. active' = [active EXCEPT ![k] = Tail(@)]
      BY <2>3, <3>1
    <3> HIDE DEF now
    <3>3. /\ active' \in [Keys -> Seq(OpenNote)] /\ notes' \in Seq(NoteType)
          /\ Counted' /\ OpenedInOrder' /\ ClosedFirst' /\ FirstEndsFirst'
      BY <1>1, <1>2, <1>3, <2>3, <3>1, <3>2, Closes
    <3>4. ReaderTypes'
      BY <1>2, <1>3, <3>3 DEF ReaderTypes
    <3> QED BY <1>4, <3>3, <3>4 DEF DrumInv
  <2>4. CASE ~(status.type = "on" /\ v > 0) /\ active[k] = <<>>
    <3>1. active' = [active EXCEPT ![k] = IF @ = <<>> THEN @ ELSE Tail(@)] /\ notes' = notes /\ onsets' = onsets
      BY <2>1, <2>4 DEF HandleNoteEvent
    <3>2. active' = active
      <4>1. active \in [Keys -> Seq(OpenNote)]
        BY Reads
      <4> QED BY <2>4, <3>1, <4>1
    <3> QED BY <1>2, <1>3, <3>1, <3>2, ReadsOn
  <2> QED BY <2>2, <2>3, <2>4
<1>6. CASE ~(status.type # "program" /\ status.channel = Selected)
  <2>1. UNCHANGED <<notes, active, onsets>>
    BY <1>6 DEF Message
  <2> QED BY <1>2, <1>3, <2>1, ReadsOn
<1> QED BY <1>5, <1>6

\* A step that leaves the notes alone.
LEMMA Same ==
  ASSUME Notes, UNCHANGED <<track, tick, active, notes, onsets>>
  PROVE  Counted' /\ OpenedInOrder' /\ ClosedFirst' /\ FirstEndsFirst'
<1>1. Open' = Open
  BY DEF Open, OpenAt
<1>2. Counted'
  BY <1>1 DEF Notes, Counted
<1>3. OpenedInOrder'
  BY DEF Notes, OpenedInOrder
<1>4. ClosedFirst'
  BY DEF Notes, ClosedFirst
<1>5. FirstEndsFirst'
  BY DEF Notes, FirstEndsFirst
<1> QED BY <1>2, <1>3, <1>4, <1>5

\* Every step keeps the invariant.
LEMMA DrumSteps ==
  ASSUME DrumAssumption, DrumInv, [DrumNext]_drumVars
  PROVE  DrumInv'
<1>1. Notes
  BY DEF DrumInv, Notes
<1>2. ASSUME NEW d \in Deltas, NEW k \in Keys, NEW v \in {0, 1}, NEW s \in Status, ReadMessage(d, s, k, v) PROVE DrumInv'
  BY <1>2, MessageKeeps DEF ReadMessage
<1>3. ASSUME NEW d \in Deltas, NEW k \in Keys, NEW v \in {0, 1}, ReadRunning(d, k, v) PROVE DrumInv'
  <2>1. Reading(d) /\ running # NoRunning /\ running' = running /\ Message(running, d, k, v)
    BY <1>3 DEF ReadRunning
  <2>2. running \in Status
    BY <2>1, Reads
  <2> QED BY <2>1, <2>2, MessageKeeps
<1>4. CASE NoStatus
  <2>1. phase = "track" /\ phase' = "error" /\ UNCHANGED <<track, tick, running, active, notes, tempos, last, onsets, events, made>>
    BY <1>4 DEF NoStatus
  <2>2. EndHeld' /\ MadeOf'
    BY <2>1, Unmade
  <2>3. ReaderTypes'
    BY <1>1, <2>1 DEF Notes, ReaderTypes
  <2>4. Counted' /\ OpenedInOrder' /\ ClosedFirst' /\ FirstEndsFirst'
    BY <1>1, <2>1, Same
  <2> QED BY <2>2, <2>3, <2>4 DEF DrumInv
<1>5. ASSUME NEW d \in Deltas, NEW b \in TempoSet, ReadTempo(d, b) PROVE DrumInv'
  <2>1. Reading(d) /\ tempos' = Append(tempos, [tick |-> tick + d, tempo |-> b])
        /\ UNCHANGED <<phase, track, running, active, notes, last, onsets, made>>
    BY <1>5 DEF ReadTempo
  <2>2. tick + d \in Nat /\ tempos \in Seq(TempoType) /\ running \in Status \cup {NoRunning}
    BY <2>1, Reads
  <2>3. [tick |-> tick + d, tempo |-> b] \in TempoType
    BY <2>2 DEF TempoType
  <2>4. tempos' \in Seq(TempoType)
    BY <2>1, <2>2, <2>3, Appending
  <2> QED BY <2>1, <2>2, <2>4, ReadsOn
<1>6. ASSUME NEW d \in Deltas, ReadOther(d) PROVE DrumInv'
  <2>1. Reading(d) /\ UNCHANGED <<phase, track, running, active, notes, tempos, last, onsets, made>>
    BY <1>6 DEF ReadOther
  <2>2. tempos \in Seq(TempoType) /\ running \in Status \cup {NoRunning}
    BY <2>1, Reads
  <2> QED BY <2>1, <2>2, ReadsOn
<1>7. CASE EndTrack
  <2>1. /\ phase = "track" /\ notes' = notes \o Hanging /\ last' = AtLeast(tick, last) /\ active' = [k \in Keys |-> <<>>]
        /\ tick' = 0 /\ running' = NoRunning /\ track' = track + 1 /\ phase' = (IF track = Tracks THEN "take" ELSE "track")
        /\ UNCHANGED <<tempos, onsets, events, made>>
    BY <1>7 DEF EndTrack
  <2>2. /\ active' \in [Keys -> Seq(OpenNote)] /\ notes' \in Seq(NoteType)
        /\ Counted' /\ OpenedInOrder' /\ ClosedFirst' /\ FirstEndsFirst'
    BY <1>1, <2>1, Ends
  <2>3. phase' # "schedule" /\ phase' \in {"track", "take", "schedule", "error"}
    BY <2>1
  <2>4. EndHeld' /\ MadeOf'
    BY <2>1, <2>3, Unmade
  <2>5. ReaderTypes'
    <3>1. track \in 1 .. Tracks + 1 /\ track <= Tracks /\ tick \in Nat /\ last \in Nat /\ Tracks \in Nat
      BY <1>1, <2>1 DEF Notes, ReaderTypes, DrumAssumption
    <3>2. track' \in 1 .. Tracks + 1 /\ (phase' = "track" => track' <= Tracks) /\ last' \in Nat
      BY <2>1, <3>1 DEF AtLeast
    <3> QED BY <1>1, <2>1, <2>2, <2>3, <3>2 DEF Notes, ReaderTypes
  <2> QED BY <2>2, <2>4, <2>5 DEF DrumInv
<1>8. CASE FinishTake
  <2>1. /\ phase = "take" /\ phase' = "schedule" /\ notes' = ByStart(notes) /\ last' = LastTick(notes, last)
        /\ UNCHANGED <<track, tick, running, active, tempos, onsets, events, made>>
    BY <1>8 DEF FinishTake
  <2>2. /\ notes' \in Seq(NoteType) /\ last' \in Nat /\ NotesFit'
        /\ Counted' /\ OpenedInOrder' /\ ClosedFirst' /\ FirstEndsFirst'
    BY <1>1, <2>1, Finishes
  <2>3. made' = NotMade
    BY <2>1 DEF DrumInv, MadeOf
  <2>4. EndHeld' /\ MadeOf'
    BY <2>2, <2>3 DEF EndHeld, MadeOf
  <2>5. ReaderTypes'
    BY <1>1, <2>1, <2>2 DEF Notes, ReaderTypes
  <2> QED BY <2>2, <2>4, <2>5 DEF DrumInv
<1>9. ASSUME UNCHANGED <<track, tick, running, active, notes, tempos, last, onsets, events>>,
             phase' \in {"track", "take", "schedule", "error"}, phase' = "track" => track <= Tracks
      PROVE  ReaderTypes' /\ Counted' /\ OpenedInOrder' /\ ClosedFirst' /\ FirstEndsFirst'
  <2>1. ReaderTypes'
    BY <1>1, <1>9 DEF Notes, ReaderTypes
  <2>2. Counted' /\ OpenedInOrder' /\ ClosedFirst' /\ FirstEndsFirst'
    BY <1>1, <1>9, Same
  <2> QED BY <2>1, <2>2
<1>10. CASE BuildMidi
  <2>1. phase = "schedule" /\ made = NotMade /\ UNCHANGED <<phase, track, tick, running, active, notes, tempos, last, onsets, events>>
    BY <1>10 DEF BuildMidi
  <2>2. PICK limit \in Limits, trim \in BOOLEAN : \E s \in BuildFromMidiDrums(MidiTake, limit[1], limit[2], trim) :
          made' = [source |-> "midi", trim |-> trim, limit |-> limit, schedule |-> s]
    BY <1>10 DEF BuildMidi
  <2>3. PICK s \in BuildFromMidiDrums(MidiTake, limit[1], limit[2], trim) :
          made' = [source |-> "midi", trim |-> trim, limit |-> limit, schedule |-> s]
    BY <2>2
  <2>4. MidiTake' = MidiTake
    BY <2>1 DEF MidiTake
  <2>5. MadeOf'
    BY <2>1, <2>3, <2>4 DEF MadeOf
  <2>6. EndHeld'
    BY <2>1 DEF DrumInv, EndHeld, NotesFit
  <2> QED BY <1>9, <2>1, <2>5, <2>6 DEF DrumInv
<1>11. CASE BuildBridge
  <2>1. phase' = "schedule" /\ UNCHANGED <<track, tick, running, active, notes, tempos, last, onsets, events>>
    BY <1>11 DEF BuildBridge
  <2>2. PICK p \in Packets, limit \in Limits :
       \/ \E s \in BuildConditioningSchedule(p, Rate, limit[1], limit[2]) :
            made' = [source |-> "packets", packets |-> p, limit |-> limit, schedule |-> s]
       \/ \E s \in BuildFromAdgEvents(p, Rate, limit[1], limit[2]) :
            made' = [source |-> "events", packets |-> p, limit |-> limit, schedule |-> s]
    BY <1>11 DEF BuildBridge
  <2>3. /\ made'.source \in {"packets", "events"} /\ made'.packets = p /\ made'.limit = limit
        /\ made'.schedule \in BuiltOf(made'.source, p, limit[1], limit[2])
    BY <2>2 DEF BuiltOf
  <2>4. MadeOf'
    BY <2>1, <2>3 DEF MadeOf
  <2>5. EndHeld'
    BY <2>3 DEF EndHeld, NotMade
  <2> QED BY <1>9, <2>1, <2>4, <2>5 DEF DrumInv
<1>12. CASE UNCHANGED drumVars
  <2>1. MadeOf'
    BY <1>12 DEF DrumInv, MadeOf, MidiTake, drumVars
  <2>2. EndHeld'
    BY <1>12 DEF DrumInv, EndHeld, NotesFit, drumVars
  <2>3. phase' \in {"track", "take", "schedule", "error"} /\ (phase' = "track" => track <= Tracks)
    BY <1>1, <1>12 DEF Notes, ReaderTypes, drumVars
  <2> QED BY <1>9, <1>12, <2>1, <2>2, <2>3 DEF DrumInv, drumVars
<1> QED BY <1>2, <1>3, <1>4, <1>5, <1>6, <1>7, <1>8, <1>10, <1>11, <1>12 DEF DrumNext

\* What DrumInv says of the properties.
LEMMA DrumTruths ==
  ASSUME DrumAssumption, DrumInv
  PROVE  TakeExact /\ ScheduleHeard
<1>1. ReaderTypes /\ Counted /\ ClosedFirst /\ FirstEndsFirst /\ EndHeld /\ MadeOf
  BY DEF DrumInv
<1>2. /\ notes \in Seq(NoteType) /\ Len(notes) \in Nat /\ DOMAIN notes = 1 .. Len(notes)
      /\ last \in Nat /\ tempos \in Seq(TempoType) /\ active \in [Keys -> Seq(OpenNote)]
  BY <1>1 DEF ReaderTypes
<1>3. NotesTyped
  <2>1. \A i \in 1 .. Len(notes) : notes[i] \in NoteType
    BY <1>2
  <2> QED BY <1>1, <2>1, NoteFields DEF NotesTyped, NoteIs, ClosedFirst
<1>4. TemposTyped
  BY <1>2 DEF TemposTyped, DrumAssumption
<1>5. DrumTypeOK
  <2>1. DOMAIN active = Keys
    BY <1>2
  <2>2. \A i \in DOMAIN notes : notes[i].start < notes[i].end /\ notes[i].pitch \in Keys
    BY <1>2, <1>3 DEF NotesTyped, NoteIs
  <2>3. made # NotMade => made.limit \in Limits
    BY <1>1 DEF MadeOf
  <2> QED BY <1>1, <2>1, <2>2, <2>3 DEF ReaderTypes, DrumTypeOK
<1>6. NotesPaired
  BY <1>1, <1>2 DEF Counted, FirstEndsFirst, NotesPaired
<1>7. TakeHoldsNotes
  BY <1>1, <1>2 DEF EndHeld, NotesFit, TakeHoldsNotes
<1>8. TempoExact
  <2>1. \A t \in 0 .. last + 1 : t \in Nat
    BY <1>2
  <2> QED BY <1>4, <2>1, TickExact DEF TempoExact
<1>9. ScheduleHeard
  <2>1. CASE made = NotMade
    BY <2>1 DEF ScheduleHeard, TokensOfNotes, NotesOnTime, WindowsTile
  <2>2. CASE made # NotMade /\ made.source = "midi"
    <3>1. phase = "schedule" /\ made.limit \in Limits /\ made.trim \in BOOLEAN
          /\ made.schedule \in BuildFromMidiDrums(MidiTake, made.limit[1], made.limit[2], made.trim)
      BY <1>1, <2>2 DEF MadeOf
    <3>2. NotesFit
      BY <1>1, <2>2, <3>1 DEF EndHeld
    <3> QED BY <1>2, <1>3, <1>4, <2>2, <3>1, <3>2, TakeHeard
  <2>3. CASE made # NotMade /\ made.source # "midi"
    <3>1. /\ made.limit \in Limits /\ made.source \in {"packets", "events"} /\ made.packets \in Packets
          /\ made.schedule \in BuiltOf(made.source, made.packets, made.limit[1], made.limit[2])
      BY <1>1, <2>3 DEF MadeOf
    <3> QED BY <3>1, PacketsHeard
  <2> QED BY <2>1, <2>2, <2>3
<1> QED BY <1>5, <1>6, <1>7, <1>8, <1>9 DEF TakeExact

\* The invariant holds in every state: for any tracks, events and tempos of a
\* file, any packets and any limits.
THEOREM DrumInvariant == DrumSpec => []DrumInv
<1> USE DrumAssumption
<1>1. DrumInit => DrumInv
  BY DrumStarts
<1>2. DrumInv /\ [DrumNext]_drumVars => DrumInv'
  BY DrumSteps
<1> QED BY <1>1, <1>2, PTL DEF DrumSpec

\* What the reader makes of a file, for any file: types, every onset one note,
\* first started first ended, an end that holds the notes, and exact times.
THEOREM TakesAreExact == DrumSpec => []TakeExact
<1>1. DrumInv => TakeExact
  BY DrumAssumption, DrumTruths
<1> QED BY <1>1, DrumInvariant, PTL

\* What is made of any take, packets or events has the tokens its notes ask for,
\* on time, and windows that are parts of the whole.
THEOREM SchedulesAreHeard == DrumSpec => []ScheduleHeard
<1>1. DrumInv => ScheduleHeard
  BY DrumAssumption, DrumTruths
<1> QED BY <1>1, DrumInvariant, PTL
================================================================================
