-------------------------- MODULE MC_HookProvider --------------------------
(***************************************************************************)
(* Model-checking instances of HookProvider.                               *)
(*                                                                         *)
(* The list run: four bindings (two share exact parameter p1, one holds   *)
(* p2, one has no data and so holds the wild card) and no hook thread, so *)
(* every conflict of the matcher and lists of up to two entries occur.    *)
(*                                                                         *)
(* The invocation run: three bindings that can all be listed together     *)
(* only in pairs (p1, p2, wild card) and two hook threads.                *)
(***************************************************************************)
EXTENDS HookProviderRefinement, TLC

CONSTANTS c1, c2, c3, c4, i1, i2, p1, p2

ListClients == {c1, c2, c3, c4}
ListClientData == (c1 :> p1) @@ (c2 :> p2) @@ (c3 :> p1) @@ (c4 :> NullData)

InvokeClients == {c1, c2, c3}
InvokeClientData == (c1 :> p1) @@ (c2 :> p2) @@ (c3 :> NullData)

TwoInvokers == {i1, i2}
MCExactParams == {p1, p2}
=============================================================================
