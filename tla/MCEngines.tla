----------------------------- MODULE MCEngines -----------------------------
(***************************************************************************)
(* TLC instance of Engines: two windows, two calls of generate_text.  They *)
(* are explored with up to two changes of the settings, of one key with    *)
(* white space; longer sequences of changes, with every key, while no      *)
(* check of the model or call goes on.                                     *)
(***************************************************************************)
EXTENDS Engines

FewEdits == edits <= 2 /\ {apiKey} \union {keychain[p] : p \in Provider} \subseteq {NoKey, "padded"}
Quiet == downloads = 0 /\ loads = 0 /\ call = [v \in View |-> NoCall] /\ gen = [c \in Caller |-> Idle]

MCNext == Next /\ (FewEdits \/ Quiet)'
MCSpec == Init /\ [][MCNext]_vars /\ SetupFairness
=============================================================================
