----------------------------- MODULE EngineState -----------------------------
(***************************************************************************)
(* The model state of core/src/mlx_engine.cpp (MLXEngine::Impl) as a        *)
(* record, and what each lifecycle method of the engine does to it.         *)
(*                                                                          *)
(*   loaded    transformer_fn_ and compiled_fn_ are set (they always are     *)
(*             together)                                                     *)
(*   ready     persistent_args_initialized_                                  *)
(*   factory   transformer_factory_state_                                    *)
(*   initial   transformer_initial_state_, the target of reset_state()       *)
(*   live      transformer_state_                                            *)
(*                                                                          *)
(* A state tensor list is abstracted to what it was last set up from; the     *)
(* frames generated from it since are left out.  Every method that can fail   *)
(* is the set of its possible outcomes, [ok, engine] records.                 *)
(***************************************************************************)
EXTENDS Integers

Origins == {"none", "factory", "audio", "silence"}

Engines == [loaded : BOOLEAN, ready : BOOLEAN,
            factory : Origins, initial : Origins, live : Origins]

EmptyEngine == [loaded |-> FALSE, ready |-> FALSE,
                factory |-> "none", initial |-> "none", live |-> "none"]

Success(e) == [ok |-> TRUE, engine |-> e]
Failure(e) == [ok |-> FALSE, engine |-> e]

\* reset_state(): the live state goes back to the checkpoint, if there is one.
ResetState(e) ==
  IF e.loaded /\ e.initial # "none" THEN [e EXCEPT !.live = e.initial] ELSE e

\* unload(): persistent_args_ stay.
Unload(e) == [EmptyEngine EXCEPT !.ready = e.ready]

\* load_model(): everything set; or no file to import, and the functions are
\* gone with the states; or no state arrays beside it, and the functions stay
\* without any state; or an exception after the states were read.
LoadModel(e) ==
  LET full == [loaded |-> TRUE, ready |-> TRUE, factory |-> "factory",
               initial |-> "factory", live |-> "factory"]
      bare == [EmptyEngine EXCEPT !.ready = e.ready]
  IN {Success(full), Failure(bare), Failure([bare EXCEPT !.loaded = TRUE]),
      Failure([full EXCEPT !.loaded = FALSE, !.ready = e.ready])}

\* prefill_with_token_array(): the live state is advanced token by token and
\* becomes the checkpoint; an exception on the way leaves it advanced.  Without
\* a live state there is no previous_frame slot to feed.  (Its index may be one
\* of an earlier model; the access past the end is then undefined, and left out.)
PrefillTokens(e, origin) ==
  LET fed == [e EXCEPT !.live = origin]
  IN IF e.live = "none" THEN {Failure(e)}
     ELSE {Success([fed EXCEPT !.initial = origin]), Failure(fed), Failure(e)}

\* prefill_state(): fails before touching the state without the functions or
\* the encoder (whose presence is left open here).
PrefillState(e) ==
  IF e.loaded THEN PrefillTokens(e, "audio") ELSE {Failure(e)}

\* prefill_silence() with reset_first.
PrefillSilence(e) ==
  IF e.loaded THEN {Failure(ResetState(e))} \cup PrefillTokens(ResetState(e), "silence")
  ELSE {Failure(e)}

ResetToFactory(e) ==
  IF e.factory = "none" THEN e ELSE ResetState([e EXCEPT !.initial = e.factory])

\* load_state(): a file with the live state's number and shapes of arrays
\* becomes the checkpoint; the live state waits for reset_state().
LoadState(e, file) ==
  {Failure(e)} \cup
  (IF e.live # "none" /\ file # "none" THEN {Success([e EXCEPT !.initial = file])} ELSE {})

\* RealtimeRunner::save_state(): engine save_state(), then load_state() of the
\* same file: what was live becomes the checkpoint.  load_state()'s result is
\* not looked at.
SaveState(e) ==
  {Failure(e)} \cup {Success(r.engine) : r \in LoadState(e, e.live)}

\* generate_frame(): nothing without the functions and the persistent inputs.
CanGenerate(e) == e.loaded /\ e.ready
=============================================================================
