----------------------------- MODULE MCScriptVal -----------------------------
(***************************************************************************)
(* ScriptVal on one processor, hence with three handlers, and up to four   *)
(* inputs: with four good items a handler has to take a second one.        *)
(***************************************************************************)
EXTENDS ScriptVal

MCErrors == {"ErrMissingTx", "ErrScriptValidation"}
=============================================================================
