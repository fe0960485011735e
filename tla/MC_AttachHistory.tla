------------------------- MODULE MC_AttachHistory -------------------------
(***************************************************************************)
(* The list instance of MC_HookProvider, with the attach history: four    *)
(* bindings, two sharing p1 and one without data, attaches unserialised. *)
(***************************************************************************)
EXTENDS MC_HookProvider, HookProviderAttachHistory

=============================================================================
