---------------------------- MODULE PromptFetch ----------------------------
(***************************************************************************)
(* The style prompts of core/src/mlx_engine.cpp: the slots with their cached  *)
(* MusicCoCa embeddings, the tokens blended from them, and the detached       *)
(* thread that encodes a posted prompt.                                       *)
(*                                                                          *)
(* Setters (the user interface, the decoder of a dropped audio file) post     *)
(* prompts and start the fetch thread; the user of the engine (the inference  *)
(* thread or a lifecycle method) reblends and resets.  A section under        *)
(* musiccoca_mutex_ and an access to is_musiccoca_fetching_ is one step each; *)
(* the encoders work on copies.                                               *)
(*                                                                          *)
(* An embedding is named by its source, the text or the audio it was encoded  *)
(* from, or "none" where it is not valid; weights by the slots whose weight   *)
(* is positive; tokens by the sources blended into them.  Statuses and logs   *)
(* are displays and left out, as is prefill_silence(), which masks the tokens *)
(* for its duration and puts the saved ones back.                             *)
(***************************************************************************)
EXTENDS Integers, FiniteSets

CONSTANTS Slots,       \* 0 .. kMaxPrompts-1
          Texts,       \* prompt texts
          Overrides,   \* the texts of the form "musiccoca:<tokens>"
          Audios,      \* audio files
          Weightings,  \* which slots' weights are positive
          Setters,     \* threads that set prompts
          Fetchers,    \* identities for fetch threads: bounds how many are alive
          MaxCalls     \* bound on the calls of setters

ASSUME PromptAssumption ==
  /\ 0 \in Slots /\ Slots \subseteq Nat /\ IsFiniteSet(Slots)
  /\ Overrides \subseteq Texts /\ Weightings \subseteq SUBSET Slots
  /\ (Texts \cup Audios) \cap {"", "none", "given", "default", "audio", "error"} = {}
  /\ Texts \cap Audios = {}
  /\ MaxCalls \in Nat

VARIABLES
  slots,     \* slot_is_audio_, pending_audio_samples_, cached_texts_,
             \* cached_embeddings_ and embedding_valid_
  pending,   \* has_pending_musiccoca_, pending_texts_, pending_weights_
  tokens,    \* musiccoca_tokens_
  fetching,  \* is_musiccoca_fetching_
  fetcher,   \* the fetch threads, with their copies
  setter,    \* where each setter is
  calls,     \* the calls of setters so far
  unserved,  \* history: a prompt was posted that no fetch has taken
  missed,    \* history: ... whose setter relied on a thread that does not look again
  orphaned   \* history: a reset cleared the flag of a live fetch thread

promptVars == <<slots, pending, tokens, fetching, fetcher, setter, calls, unserved, missed, orphaned>>

Sources == Texts \cup Audios \cup {"", "given"}
EmptySlot == [audio |-> FALSE, samples |-> "none", text |-> "", source |-> "none", valid |-> FALSE]

-----------------------------------------------------------------------------
(* The setters. *)

Called(s) == setter[s] = "idle" /\ calls < MaxCalls /\ calls' = calls + 1

\* pending_* under the mutex, before start_inference_thread_if_needed().
Posted(s) ==
  /\ setter' = [setter EXCEPT ![s] = "start"]
  /\ unserved' = TRUE /\ missed' = FALSE
  /\ UNCHANGED <<tokens, fetching, fetcher, orphaned>>

\* set_text_prompts()
SetTexts(s, texts, weights) ==
  /\ Called(s)
  /\ pending' = [has |-> TRUE, texts |-> texts, weights |-> weights]
  /\ UNCHANGED slots
  /\ Posted(s)

\* Mutant: the embedding stays valid under its new name.
SetAudioStillValid(s, i, a) ==
  /\ Called(s)
  /\ slots' = [slots EXCEPT ![i] = [@ EXCEPT !.audio = TRUE, !.samples = a, !.text = a]]
  /\ pending' = [pending EXCEPT !.has = TRUE]
  /\ Posted(s)

\* set_audio_prompt_samples() with samples; the texts posted last are fetched again.
SetAudio(s, i, a) ==
  /\ Called(s)
  /\ slots' = [slots EXCEPT ![i] =
        [@ EXCEPT !.audio = TRUE, !.samples = a, !.text = a, !.source = "none",
               !.valid = FALSE]]
  /\ pending' = [pending EXCEPT !.has = TRUE]
  /\ Posted(s)

slotOnly == <<pending, tokens, fetching, fetcher, setter, unserved, missed, orphaned>>

\* ... and without.
ClearAudio(s, i) ==
  /\ Called(s)
  /\ slots' = [slots EXCEPT ![i] = EmptySlot]
  /\ UNCHANGED slotOnly

\* set_audio_embedding()
SetEmbedding(s, i, given) ==
  /\ Called(s)
  /\ slots' = [slots EXCEPT ![i] =
        IF given THEN [@ EXCEPT !.audio = TRUE, !.text = "audio", !.source = "given", !.valid = TRUE]
        ELSE [EmptySlot EXCEPT !.samples = slots[i].samples]]
  /\ UNCHANGED slotOnly

\* set_musiccoca_tokens_masked()
Mask(s) ==
  /\ Called(s)
  /\ tokens' = {}
  /\ pending' = [has |-> FALSE, texts |-> <<>>, weights |-> {}]
  /\ unserved' = FALSE /\ missed' = FALSE
  /\ UNCHANGED <<slots, fetching, fetcher, setter, orphaned>>

NoFetch == [pc |-> "absent", texts |-> <<>>, weights |-> {}, snapshot |-> <<>>]
Alive == {f \in Fetchers : fetcher[f].pc # "absent"}
WillLook(f) == fetcher[f].pc \in {"take", "check", "snapshot", "commit"}

\* start_inference_thread_if_needed(): the exchange.
Start(s) ==
  /\ setter[s] = "start"
  /\ setter' = [setter EXCEPT ![s] = "idle"]
  /\ fetching' = TRUE
  /\ IF fetching
     THEN /\ missed' = (missed \/ (unserved /\ ~\E f \in Fetchers : WillLook(f)))
          /\ UNCHANGED fetcher
     ELSE /\ \E f \in Fetchers \ Alive : fetcher' = [fetcher EXCEPT ![f].pc = "take"]
          /\ UNCHANGED missed
  /\ UNCHANGED <<slots, pending, tokens, calls, unserved, orphaned>>

-----------------------------------------------------------------------------
(* The fetch thread. *)

At(f, pc) == fetcher[f].pc = pc
Go(f, pc) == fetcher' = [fetcher EXCEPT ![f] = [NoFetch EXCEPT !.pc = pc]]

\* Nothing pending, and the thread is done: it will not look again.
Take(f) ==
  /\ At(f, "take")
  /\ IF pending.has
     THEN /\ fetcher' = [fetcher EXCEPT ![f] = [pc |-> "check", texts |-> pending.texts,
                            weights |-> pending.weights, snapshot |-> <<>>]]
          /\ pending' = [pending EXCEPT !.has = FALSE]
          /\ unserved' = FALSE /\ missed' = FALSE
     ELSE /\ Go(f, "exit")
          /\ UNCHANGED <<pending, unserved, missed>>
  /\ UNCHANGED <<slots, tokens, fetching, setter, calls, orphaned>>

fetchOnly == <<pending, fetching, setter, calls, unserved, missed, orphaned>>

Given(texts) == {i \in DOMAIN texts : texts[i] # ""}

\* The inputs are checked; an override, if it is the only text, is the tokens.
Check(f) ==
  LET texts == fetcher[f].texts
      hasAudio == \E i \in Slots : slots[i].audio /\ slots[i].samples # "none"
      overriding == {texts[i] : i \in Given(texts)} \cap Overrides
  IN /\ At(f, "check")
     /\ IF texts = <<>> /\ ~hasAudio
        THEN Go(f, "take") /\ UNCHANGED tokens
        ELSE IF Cardinality(Given(texts)) = 1 /\ overriding # {}
        THEN Go(f, "take") /\ tokens' = overriding
        ELSE fetcher' = [fetcher EXCEPT ![f].pc = "snapshot"] /\ UNCHANGED tokens
     /\ UNCHANGED <<slots, fetchOnly>>

Snapshot(f) ==
  /\ At(f, "snapshot")
  /\ fetcher' = [fetcher EXCEPT ![f] = [@ EXCEPT !.pc = "commit",
        !.snapshot = [i \in Slots |-> IF slots[i].audio THEN slots[i] ELSE EmptySlot]]]
  /\ UNCHANGED <<slots, tokens, fetchOnly>>

\* What the fetch makes of slot i, before the fallback: an audio slot keeps a
\* valid embedding; otherwise its samples are encoded, or the slot's text.
Encoded(f, i, failing) ==
  LET seen == fetcher[f].snapshot[i]
      texts == fetcher[f].texts
      encoded(name, source) == [text |-> name, source |-> source, valid |-> TRUE]
  IN IF seen.audio
     THEN IF seen.valid THEN encoded(seen.text, seen.source)
          ELSE IF seen.samples = "none" \/ i \in failing
          THEN [text |-> "error", source |-> "none", valid |-> FALSE]
          ELSE encoded(seen.text, seen.samples)
     ELSE IF i \in Given(texts) THEN encoded(texts[i], texts[i])
     ELSE [text |-> "", source |-> "none", valid |-> FALSE]

\* The slots to blend: the valid ones of positive weight, or the first valid one.
Active(local, weights) ==
  LET valid == {i \in Slots : local[i].valid}
  IN IF valid \cap weights # {} THEN valid \cap weights
     ELSE {i \in valid : \A j \in valid : i <= j}

\* With no valid slot at all, slot 0 is given the empty text.
Local(f, failing) ==
  LET encoded == [i \in Slots |-> Encoded(f, i, failing)]
  IN IF \E i \in Slots : encoded[i].valid THEN encoded
     ELSE [encoded EXCEPT ![0] = [text |-> "", source |-> "", valid |-> TRUE]]

\* Mutant: one prompt for every thread.
CommitOnce(f, failing) ==
  LET local == Local(f, failing)
  IN /\ At(f, "commit")
     /\ slots' = [i \in Slots |-> [slots[i] EXCEPT !.text = local[i].text,
                      !.source = local[i].source, !.valid = local[i].valid]]
     /\ tokens' = {local[i].source : i \in Active(local, fetcher[f].weights)}
     /\ Go(f, "exit")
     /\ UNCHANGED fetchOnly

\* The commit of embeddings, names and tokens under one lock.
Commit(f, failing) ==
  LET local == Local(f, failing)
  IN /\ At(f, "commit")
     /\ slots' = [i \in Slots |-> [slots[i] EXCEPT !.text = local[i].text,
                      !.source = local[i].source, !.valid = local[i].valid]]
     /\ tokens' = {local[i].source : i \in Active(local, fetcher[f].weights)}
     /\ Go(f, "take")
     /\ UNCHANGED fetchOnly

\* Missing interpreters, a text that cannot be encoded, a failed quantizer.
Fail(f) ==
  /\ fetcher[f].pc \in {"check", "commit"}
  /\ Go(f, "take")
  /\ UNCHANGED <<slots, tokens, fetchOnly>>

\* Mutant: nothing clears the flag on an exception.
ThrowUnguarded(f) ==
  /\ fetcher[f].pc \in {"check", "snapshot", "commit"}
  /\ Go(f, "absent")
  /\ missed' = (missed \/ unserved)
  /\ UNCHANGED <<slots, pending, tokens, fetching, setter, calls, unserved, orphaned>>

\* An exception ends the thread; what is pending stays.
Throw(f) ==
  /\ fetcher[f].pc \in {"check", "snapshot", "commit"}
  /\ Go(f, "exit")
  /\ missed' = (missed \/ unserved)
  /\ UNCHANGED <<slots, pending, tokens, fetching, setter, calls, unserved, orphaned>>

\* ~Guard()
Exit(f) ==
  /\ At(f, "exit")
  /\ Go(f, "absent")
  /\ fetching' = FALSE
  /\ UNCHANGED <<slots, pending, tokens, setter, calls, unserved, missed, orphaned>>

-----------------------------------------------------------------------------
(* The user of the engine. *)

userOnly == <<slots, pending, fetcher, setter, calls, unserved, missed>>

\* reblend_musiccoca_tokens(), where it does not give up.
Reblend(weights) ==
  LET valid == {i \in weights : slots[i].valid}
  IN /\ ~fetching /\ valid # {}
     /\ tokens' = {slots[i].source : i \in valid}
     /\ UNCHANGED <<userOnly, fetching, orphaned>>

\* reset_state()
ResetState ==
  /\ fetching' = FALSE
  /\ orphaned' = (orphaned \/ Alive # {})
  /\ UNCHANGED <<userOnly, tokens>>

-----------------------------------------------------------------------------
AllTexts == [Slots -> Texts \cup {""}]

PromptInit ==
  /\ slots = [i \in Slots |-> EmptySlot]
  /\ pending = [has |-> FALSE, texts |-> <<>>, weights |-> {}]
  /\ tokens = {"default"}
  /\ fetching = FALSE
  /\ fetcher = [f \in Fetchers |-> NoFetch]
  /\ setter = [s \in Setters |-> "idle"] /\ calls = 0
  /\ unserved = FALSE /\ missed = FALSE /\ orphaned = FALSE

Set(s) ==
  \/ \E texts \in AllTexts, weights \in Weightings : SetTexts(s, texts, weights)
  \/ \E i \in Slots, a \in Audios : SetAudio(s, i, a)
  \/ \E i \in Slots : ClearAudio(s, i)
  \/ \E i \in Slots, given \in BOOLEAN : SetEmbedding(s, i, given)
  \/ Mask(s)
  \/ Start(s)

Fetch(f) ==
  \/ Take(f) \/ Check(f) \/ Snapshot(f)
  \/ \E failing \in SUBSET Slots : Commit(f, failing)
  \/ Fail(f) \/ Throw(f) \/ Exit(f)

Use ==
  \/ \E weights \in Weightings : Reblend(weights)
  \/ ResetState

PromptNext == Use \/ (\E s \in Setters : Set(s)) \/ \E f \in Fetchers : Fetch(f)

PromptSpec == PromptInit /\ [][PromptNext]_promptVars

-----------------------------------------------------------------------------
(* Properties. *)

FetcherPcs == {"absent", "take", "check", "snapshot", "commit", "exit"}
Names == Texts \cup Audios \cup {"", "audio", "error"}
SlotType == [audio : BOOLEAN, samples : Audios \cup {"none"}, text : Names,
             source : Sources \cup {"none"}, valid : BOOLEAN]
FetcherType == [pc : FetcherPcs, texts : AllTexts \cup {<<>>}, weights : SUBSET Slots,
                snapshot : [Slots -> SlotType] \cup {<<>>}]

\* Every variable is of its type.
PromptTypeOK ==
  /\ slots \in [Slots -> SlotType]
  /\ pending \in [has : BOOLEAN, texts : AllTexts \cup {<<>>}, weights : SUBSET Slots]
  /\ tokens \in SUBSET (Sources \cup {"default"})
  /\ fetching \in BOOLEAN
  /\ fetcher \in [Fetchers -> FetcherType]
  /\ setter \in [Setters -> {"idle", "start"}] /\ calls \in 0..MaxCalls
  /\ unserved \in BOOLEAN /\ missed \in BOOLEAN /\ orphaned \in BOOLEAN

\* A valid embedding is never shown under the name of something else, whatever
\* setters and commits interleave; a file may show the error of an earlier try,
\* or nothing where a commit overtook the setting of its name.
Named(slot) ==
  \/ slot.text \in {slot.source, "error"}
  \/ slot.text = "audio" /\ slot.source = "given"
  \/ slot.text = "" /\ slot.source \in Audios

SlotConsistent ==
  \A i \in Slots : slots[i].valid => slots[i].source # "none" /\ Named(slots[i])

\* The flag that keeps others from starting a fetch is somebody's: a thread is
\* alive that will clear it.
FlagOwned == fetching => Alive # {}

\* There is one fetch thread at a time, and the flag is set as long as it lives,
\* so that nothing is reblended beside it, unless a reset cleared its flag.
OneFetcher ==
  orphaned \/ ((Alive # {} => fetching) /\ \A f, g \in Alive : f = g)
\* The flag stands for one living fetch thread.
FlagKept == FlagOwned /\ OneFetcher

\* A posted prompt waits for a thread that will look or for its setter to start
\* one, unless the setter came between a thread's last look and its clearing of
\* the flag or an exception ended the thread.
PostServed ==
  unserved /\ ~missed =>
    /\ pending.has
    /\ (\E f \in Fetchers : WillLook(f)) \/ (\E s \in Setters : setter[s] = "start")
=============================================================================
