---------------------------- MODULE MCUpdatePins ----------------------------
(***************************************************************************)
(* Instances of UpdatePins.  Every build leaves a readable .vllm-commit;   *)
(* Readable lets the wheel's name lack a date, Complete does not.          *)
(***************************************************************************)
EXTENDS UpdatePins

Complete == {[commit |-> TRUE, dated |-> TRUE]}
Readable == [commit : {TRUE}, dated : BOOLEAN]

\* a bare update, one that names everything, and two narrower ones
SomeCalls == {{}, Components, {LlamaCpp, LlamaSwap}, {Vllm}}
=============================================================================
