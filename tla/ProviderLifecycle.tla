------------------------- MODULE ProviderLifecycle -------------------------
(***************************************************************************)
(* The hook provider from registration to unregistration: HookProvider's   *)
(* bindings and hook threads, composed with ebpf_extension_hook_provider_  *)
(* register and _unregister and with what NMR does between them.          *)
(*                                                                         *)
(* NMR binds clients only to a registered provider.  NmrDeregisterProvider *)
(* stops new bindings, lets an attach in progress finish, and then calls   *)
(* the detach callback of every binding; NmrWaitForProviderDeregister-    *)
(* Complete returns once every binding has called                         *)
(* NmrProviderDetachClientComplete.  The hook calls unregister only after  *)
(* its own event source has stopped, so no hook thread is in a pass then,  *)
(* and none starts one afterwards.                                         *)
(***************************************************************************)
EXTENDS HookProvider

VARIABLE pstate  \* the provider context: "unregistered", "registered",
                 \* "deregistering", "freed"

lvars == <<vars, pstate>>

(* A binding NMR still holds: accepted, listed, or detaching.              *)
Bound(c) == cstate[c] \in {"checked", "attached", "queued", "draining"}

LInit == Init /\ pstate = "unregistered"

(***************************************************************************)
(* ebpf_extension_hook_provider_register: allocate and fill the context,   *)
(* NmrRegisterProvider.  On failure (allocation or NMR) the context is     *)
(* freed through unregister with a NULL NMR handle, so no client ever     *)
(* binds.                                                                 *)
(***************************************************************************)
RegisterProvider ==
    /\ pstate = "unregistered"
    /\ \/ pstate' = "registered"
       \/ pstate' = "freed"
    /\ UNCHANGED vars

(* Unregister: NmrDeregisterProvider returns STATUS_PENDING.               *)
UnregisterProvider ==
    /\ pstate = "registered"
    /\ \A i \in Invokers : ipc[i] = "idle"
    /\ pstate' = "deregistering"
    /\ UNCHANGED vars

(* NmrWaitForProviderDeregisterComplete returns once no binding remains;  *)
(* ExFreePool(provider_context).                                           *)
UnregisterComplete ==
    /\ pstate = "deregistering"
    /\ \A c \in Clients : ~Bound(c)
    /\ pstate' = "freed"
    /\ UNCHANGED vars

(* NMR calls the detach callback of a binding during deregistration.      *)
NmrDetachOnDeregister(c) ==
    /\ pstate = "deregistering"
    /\ DetachClient(c)
    /\ UNCHANGED pstate

LNext ==
    \/ RegisterProvider
    \/ UnregisterProvider
    \/ UnregisterComplete
    \/ \E c \in Clients :
          \/ pstate = "registered" /\ AttachCallback(c) /\ UNCHANGED pstate
          \/ AttachInsert(c) /\ UNCHANGED pstate
          \/ pstate = "registered" /\ DetachClient(c) /\ UNCHANGED pstate
          \/ NmrDetachOnDeregister(c)
          \/ DetachWorkItemStart(c) /\ UNCHANGED pstate
          \/ DetachClientComplete(c) /\ UNCHANGED pstate
    \/ \E i \in Invokers :
          \/ pstate = "registered" /\ GetNextAttachedClient(i) /\ UNCHANGED pstate
          \/ ipc[i] # "idle" /\ GetNextAttachedClient(i) /\ UNCHANGED pstate
          \/ EnterRundown(i) /\ UNCHANGED pstate
          \/ LeaveRundown(i) /\ UNCHANGED pstate

(***************************************************************************)
(* Besides HookProvider's fairness: an attach NMR has started finishes,   *)
(* NMR detaches every binding once deregistration began, and the wait in  *)
(* unregister returns when it can.                                        *)
(***************************************************************************)
LFairness ==
    /\ \A c \in Clients : WF_lvars(DetachWorkItemStart(c) /\ UNCHANGED pstate)
    /\ \A c \in Clients : WF_lvars(DetachClientComplete(c) /\ UNCHANGED pstate)
    /\ \A i \in Invokers : WF_lvars(LeaveRundown(i) /\ UNCHANGED pstate)
    /\ \A c \in Clients : WF_lvars(AttachInsert(c) /\ UNCHANGED pstate)
    /\ \A c \in Clients : WF_lvars(NmrDetachOnDeregister(c))
    /\ WF_lvars(UnregisterComplete)

LSpec == LInit /\ [][LNext]_lvars /\ LFairness

-----------------------------------------------------------------------------
(***************************************************************************)
(* Unregistration completes: once NmrDeregisterProvider has been called,  *)
(* NMR detaches every binding, every detach work item drains, and the     *)
(* wait in ebpf_extension_hook_provider_unregister returns.               *)
(***************************************************************************)
UnregisterCompletes == pstate = "deregistering" ~> pstate = "freed"

=============================================================================
