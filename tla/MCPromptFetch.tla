--------------------------- MODULE MCPromptFetch ---------------------------
(* PromptFetch for TLC: the names of its threads, texts and files. *)
EXTENDS PromptFetch, TLC

CONSTANTS ui, loader, first, second, piano, raw, loop

Interchangeable == Permutations(Setters) \cup Permutations(Fetchers)
=============================================================================
