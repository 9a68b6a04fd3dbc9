----------------------------- MODULE RenderWorker -----------------------------
(***************************************************************************)
(* render_worker.py: an HTTP server with a thread for each request, around *)
(* one loaded model. A render is validated, takes the service's lock,      *)
(* reads its source, writes the conditioning, generates, writes the audio, *)
(* then the manifest, and gives the lock back before it is answered. Files *)
(* are written in place: cut to nothing when opened, whole when closed.    *)
(***************************************************************************)
EXTENDS Integers, FiniteSets, Sequences

CONSTANTS Threads,    \* handler threads
          Paths,
          Under,      \* path -> "workspace", "magenta", "elsewhere" or "relative"
          SavedAs,    \* path -> where np.savez_compressed() puts it: .npz is added
          Stored,     \* path -> what is on the disk at first
          Requests,   \* bodies of POST /render/aig-adg
          MaxRenders  \* bound: renders begun

Nil == "none"
Absent == [kind |-> "absent", id |-> 0]
Directory == [kind |-> "directory", id |-> 0]
\* A document; the frames of its schedule. An ADG bundle also names the files
\* it is made of.
Document(frames) == [kind |-> "packets", id |-> 0, frames |-> frames]
Bundle(frames, parts) == [kind |-> "bundle", id |-> 0, frames |-> frames, parts |-> parts]
Sources == {"packets", "bundle", "part"}
\* What a render leaves: id is its number.
Partial(id) == [kind |-> "partial", id |-> id]
Npz(id, frames) == [kind |-> "npz", id |-> id, frames |-> frames]
Wav(id, frames) == [kind |-> "wav", id |-> id, frames |-> frames]
Manifest(id, req) == [kind |-> "manifest", id |-> id, req |-> req]

\* A request: prompt and numbers tell whether these fields are well-formed;
\* packets, bundle and atoms are paths or Nil; limit is max_frames, 0 if none.
ASSUME RequestAssumption ==
  /\ MaxRenders \in Nat /\ IsFiniteSet(Threads)
  /\ Under \in [Paths -> {"workspace", "magenta", "elsewhere", "relative"}]
  /\ SavedAs \in [Paths -> Paths] /\ DOMAIN Stored = Paths
  /\ Nil \notin Paths /\ Nil \notin Threads
  /\ Requests \subseteq
       [prompt : BOOLEAN, numbers : BOOLEAN, packets : Paths \cup {Nil}, bundle : Paths \cup {Nil},
        atoms : Paths \cup {Nil}, output : Paths, manifest : Paths, conditioning : Paths, limit : Nat]
ASSUME StoredAssumption ==
  \A p \in Paths :
    /\ Stored[p].id = 0 /\ Stored[p].kind \in Sources \cup {"absent", "directory"}
    /\ Stored[p].kind \in {"packets", "bundle"} => Stored[p].frames \in Nat

VARIABLES up,       \* the process serves
          lock,     \* the thread that holds RenderService._lock
          pc,       \* where each thread is
          job,      \* thread -> [req, id, frames, status]
          open,     \* thread -> whether the file of its step is open
          disk,
          renders   \* renders begun
workerVars == <<up, lock, pc, job, open, disk, renders>>

NoBody == [prompt |-> FALSE]
NoRequest == [req |-> NoBody, id |-> 0, frames |-> 0, status |-> 0]
Locked == {"load", "conditioning", "render", "output", "manifest", "unlock"}
Idle == [t \in Threads |-> "idle"]
WorkerInit ==
  /\ up = FALSE /\ lock = Nil /\ pc = Idle
  /\ job = [t \in Threads |-> NoRequest] /\ open = [t \in Threads |-> FALSE]
  /\ disk = Stored /\ renders = 0

Goto(t, step) == pc' = [pc EXCEPT ![t] = step]
\* The exceptions of a handler become its answer.
Respond(t, status) == Goto(t, "answer") /\ job' = [job EXCEPT ![t].status = status]

--------------------------------------------------------------------------------
(* The process.                                                            *)

\* validate_assets(), load_renderer(); a file or a device that is missing ends
\* the process before it listens.
Boot == ~up /\ up' = TRUE /\ UNCHANGED <<lock, pc, job, open, disk, renders>>
\* Threads are daemons: an interrupt, or a kill, ends them where they are.
Kill ==
  /\ up /\ up' = FALSE
  /\ lock' = Nil /\ pc' = Idle
  /\ job' = [t \in Threads |-> NoRequest] /\ open' = [t \in Threads |-> FALSE]
  /\ UNCHANGED <<disk, renders>>

\* do_POST() and do_GET() by path.
Pending == {t \in Threads : pc[t] \in {"body", "validate", "lock"}}
Accept(t, step, req) ==
  /\ up /\ pc[t] = "idle"
  /\ Goto(t, step) /\ job' = [job EXCEPT ![t] = [NoRequest EXCEPT !.req = req]]
  /\ UNCHANGED <<up, lock, open, disk, renders>>
Post(t) == renders + Cardinality(Pending) < MaxRenders /\ \E req \in Requests : Accept(t, "body", req)
GetHealth(t) == Accept(t, "health", NoBody)
OtherPath(t) ==
  /\ up /\ pc[t] = "idle" /\ Respond(t, 404)
  /\ UNCHANGED <<up, lock, open, disk, renders>>
\* RenderService.health(): no lock.
Health(t) ==
  /\ pc[t] = "health" /\ Respond(t, 200)
  /\ UNCHANGED <<up, lock, open, disk, renders>>
\* The client sends what it announced, when it likes, or something that is no
\* JSON object.
Body(t) ==
  /\ pc[t] = "body"
  /\ \/ Goto(t, "validate") /\ UNCHANGED job
     \/ Respond(t, 400)
  /\ UNCHANGED <<up, lock, open, disk, renders>>
Answer(t) ==
  /\ pc[t] = "answer" /\ Goto(t, "idle") /\ job' = [job EXCEPT ![t] = NoRequest]
  /\ UNCHANGED <<up, lock, open, disk, renders>>
\* The owner of a document takes it away.
Withdraw(p) ==
  /\ disk[p].kind \in Sources /\ disk' = [disk EXCEPT ![p] = Absent]
  /\ UNCHANGED <<up, lock, pc, job, open, renders>>

--------------------------------------------------------------------------------
(* PathPolicy and RenderRequest.from_json(): the first fault decides.      *)

Readable(p) ==
  IF p = Nil THEN 200
  ELSE IF Under[p] \notin {"workspace", "magenta"} THEN 400
  ELSE IF disk[p] = Absent THEN 404
  ELSE IF disk[p] = Directory THEN 400 ELSE 200
Writable(p) == IF Under[p] # "workspace" \/ disk[p] = Directory THEN 400 ELSE 200
OneSource(req) == (req.packets = Nil) # (req.bundle = Nil)
FirstFault(checks) ==
  IF \A i \in DOMAIN checks : checks[i] = 200 THEN 200
  ELSE checks[CHOOSE i \in DOMAIN checks : checks[i] # 200 /\ \A j \in 1 .. i - 1 : checks[j] = 200]
FromJson(req) ==
  FirstFault(<<IF req.prompt /\ OneSource(req) THEN 200 ELSE 400,
               Readable(req.packets), Readable(req.bundle), Readable(req.atoms),
               Writable(req.output), Writable(req.manifest), Writable(req.conditioning),
               IF req.numbers THEN 200 ELSE 400>>)
Validate(t) ==
  /\ pc[t] = "validate"
  /\ IF FromJson(job[t].req) = 200 THEN Goto(t, "lock") /\ UNCHANGED job ELSE Respond(t, FromJson(job[t].req))
  /\ UNCHANGED <<up, lock, open, disk, renders>>

--------------------------------------------------------------------------------
(* _render_aig_adg_locked().                                               *)

Begin(t) ==
  /\ renders' = renders + 1 /\ job' = [job EXCEPT ![t].id = renders + 1]
  /\ Goto(t, "load") /\ UNCHANGED <<up, open, disk>>
\* Mutant: the lock is left out.
AcquireAny(t) == pc[t] = "lock" /\ lock' = t /\ Begin(t)
Acquire(t) == pc[t] = "lock" /\ lock = Nil /\ lock' = t /\ Begin(t)

\* The files are read again, under the lock: they may be gone since they were
\* validated, or be some render's output.
Loads(req) ==
  IF req.bundle # Nil
  THEN /\ disk[req.bundle].kind = "bundle"
       /\ \A p \in disk[req.bundle].parts : disk[p].kind = "part"
  ELSE disk[req.packets].kind = "packets" /\ (req.atoms # Nil => disk[req.atoms].kind = "part")
SourceOf(req) == IF req.bundle # Nil THEN req.bundle ELSE req.packets
FramesOf(req) ==
  LET all == disk[SourceOf(req)].frames IN
  IF req.limit # 0 /\ req.limit < all THEN req.limit ELSE all
Load(t) ==
  /\ pc[t] = "load" /\ Loads(job[t].req)
  /\ job' = [job EXCEPT ![t].frames = FramesOf(job[t].req)]
  /\ Goto(t, "conditioning") /\ UNCHANGED <<up, lock, open, disk, renders>>

Target(t) ==
  CASE pc[t] = "conditioning" -> SavedAs[job[t].req.conditioning]
    [] pc[t] = "output" -> job[t].req.output
    [] pc[t] = "manifest" -> job[t].req.manifest
Written(t) ==
  CASE pc[t] = "conditioning" -> Npz(job[t].id, job[t].frames)
    [] pc[t] = "output" -> Wav(job[t].id, job[t].frames)
    [] pc[t] = "manifest" -> Manifest(job[t].id, job[t].req)
\* Mutant: the manifest is written while the model still generates.
AfterEarly(step) ==
  CASE step = "conditioning" -> "manifest" [] step = "manifest" -> "render" [] step = "output" -> "unlock"
After(step) ==
  CASE step = "conditioning" -> "render" [] step = "output" -> "manifest" [] step = "manifest" -> "unlock"
Writes == {"conditioning", "output", "manifest"}
OpenFile(t) ==
  /\ pc[t] \in Writes /\ ~open[t]
  /\ open' = [open EXCEPT ![t] = TRUE] /\ disk' = [disk EXCEPT ![Target(t)] = Partial(job[t].id)]
  /\ UNCHANGED <<up, lock, pc, job, renders>>
CloseFile(t) ==
  /\ pc[t] \in Writes /\ open[t]
  /\ open' = [open EXCEPT ![t] = FALSE] /\ disk' = [disk EXCEPT ![Target(t)] = Written(t)]
  /\ Goto(t, After(pc[t])) /\ UNCHANGED <<up, lock, job, renders>>
\* render_schedule(): the model takes its time.
Render(t) == pc[t] = "render" /\ Goto(t, "output") /\ UNCHANGED <<up, lock, job, open, disk, renders>>
\* Mutant: an exception keeps the lock.
RaiseKeepingLock(t) ==
  /\ pc[t] \in Locked \ {"unlock"} /\ Respond(t, 500)
  /\ open' = [open EXCEPT ![t] = FALSE] /\ UNCHANGED <<up, lock, disk, renders>>
\* Any step may raise, a missing source, a full disk or the model: with leaves
\* the lock, the file at hand stays as it is.
Raise(t) ==
  /\ pc[t] \in Locked \ {"unlock"} /\ Respond(t, 500)
  /\ lock' = Nil /\ open' = [open EXCEPT ![t] = FALSE] /\ UNCHANGED <<up, disk, renders>>
Release(t) ==
  /\ pc[t] = "unlock" /\ Respond(t, 200) /\ lock' = Nil
  /\ UNCHANGED <<up, open, disk, renders>>

\* What a thread does by itself.
Step(t) ==
  \/ Health(t) \/ Validate(t) \/ Acquire(t) \/ Load(t) \/ OpenFile(t) \/ CloseFile(t)
  \/ Release(t) \/ Answer(t)
WorkerNext ==
  \/ Boot \/ Kill
  \/ \E t \in Threads : Post(t) \/ GetHealth(t) \/ OtherPath(t) \/ Body(t) \/ Step(t) \/ Render(t) \/ Raise(t)
  \/ \E p \in Paths : Withdraw(p)
WorkerSpec == WorkerInit /\ [][WorkerNext]_workerVars
\* Threads run when they can; nothing is asked of clients, and the model may
\* take for ever. A load that cannot succeed raises.
LoadFails(t) == pc[t] = "load" /\ ~Loads(job[t].req) /\ Raise(t)
WorkerFairness == \A t \in Threads : WF_workerVars(Step(t)) /\ WF_workerVars(LoadFails(t))

--------------------------------------------------------------------------------

\* Types of the service's state.
WorkerTypeOK ==
  /\ up \in BOOLEAN /\ lock \in Threads \cup {Nil} /\ renders \in 0 .. MaxRenders
  /\ pc \in [Threads -> {"idle", "health", "body", "validate", "lock", "answer"} \cup Locked]
  /\ open \in [Threads -> BOOLEAN] /\ \A t \in Threads : open[t] => pc[t] \in Writes
  /\ job \in [Threads -> [req : Requests \cup {NoBody}, id : 0 .. renders, frames : Nat, status : Nat]]
  /\ DOMAIN disk = Paths /\ \A p \in Paths : disk[p].id \in 0 .. renders

\* One thread at a time is between the lock and the answer, and it is the one
\* that holds the lock: the model's state, its caches and its device are used
\* by one render at a time, whatever fails and whenever the process restarts.
OneRender == \A t \in Threads : pc[t] \in Locked <=> lock = t

\* A request whose three files are three files.
Apart(req) ==
  /\ req.output # req.manifest /\ SavedAs[req.conditioning] \notin {req.output, req.manifest}
\* The file carries render id, or a later one has begun to write it.
CarriesOrLater(p, id, kind) == disk[p].id > id \/ (disk[p].id = id /\ disk[p].kind = kind)

\* A manifest is on the disk only when the audio and the conditioning it
\* describes are, whole and of its own render, unless a later render has begun
\* on them: through failures half way, restarts and requests that share paths.
ManifestOfOneRender ==
  \A p \in Paths : disk[p].kind = "manifest" /\ Apart(disk[p].req) =>
    /\ CarriesOrLater(disk[p].req.output, disk[p].id, "wav")
    /\ CarriesOrLater(SavedAs[disk[p].req.conditioning], disk[p].id, "npz")

\* An answer of 200 to a render is given when its three files are written, or a
\* later render has begun on them.
OkMeansWritten ==
  \A t \in Threads :
    LET req == job[t].req IN
    pc[t] = "answer" /\ job[t].status = 200 /\ job[t].id # 0 /\ Apart(req) =>
      /\ CarriesOrLater(req.output, job[t].id, "wav")
      /\ CarriesOrLater(SavedAs[req.conditioning], job[t].id, "npz")
      /\ CarriesOrLater(req.manifest, job[t].id, "manifest")

\* What the disk and the answers say of a render is so.
FilesTrue == ManifestOfOneRender /\ OkMeansWritten

\* /health is answered while a render runs, even one that never ends.
HealthServed == \A t \in Threads : pc[t] = "health" ~> pc[t] # "health"

\* If no render lasts for ever, a waiting request leads to a request that gets
\* the lock: a failure, a client that never sends its body, or a restart keeps
\* none waiting for good.
RendersEnd == \A t \in Threads : []<>(pc[t] # "render")
WorkGoesOn == RendersEnd => ((\E t \in Threads : pc[t] = "lock") ~> (\E t \in Threads : pc[t] = "load") \/ ~up)
\* Nobody who waits for the service waits for good.
ServiceGoesOn == HealthServed /\ WorkGoesOn
================================================================================
