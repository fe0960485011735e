----------------------- MODULE MC_ProviderLifecycle -----------------------
(***************************************************************************)
(* Model-checking instance of ProviderLifecycle: three bindings (p1, p2,  *)
(* and one without data, the wild card) and two hook threads.             *)
(***************************************************************************)
EXTENDS ProviderLifecycle, TLC

CONSTANTS c1, c2, c3, i1, i2, p1, p2

LifeClients == {c1, c2, c3}
LifeClientData == (c1 :> p1) @@ (c2 :> p2) @@ (c3 :> NullData)
LifeInvokers == {i1, i2}
LifeExactParams == {p1, p2}
=============================================================================
