----------------------- MODULE HookProviderRefinement -----------------------
(***************************************************************************)
(* HookProvider implements AbstractHookProvider.  The abstract list is    *)
(* the walk from the head, read in order; the abstract phase is the       *)
(* binding state; a hook thread is running a client's program exactly     *)
(* when it holds a rundown reference on it.                               *)
(***************************************************************************)
EXTENDS HookProvider

(* The list as a sequence: the clients reached from the head, in order.    *)
ListSeq == [k \in 1..Cardinality(WalkIndices) |-> Walk[k]]

(* What each hook thread is running.                                       *)
Running == [i \in Invokers |-> IF ipc[i] = "invoking" THEN icur[i] ELSE Nil]

Abs == INSTANCE AbstractHookProvider
           WITH alist <- ListSeq,
                phase <- cstate,
                running <- Running,
                Param <- [c \in Clients |-> EffectiveParam(c)],
                None <- Nil

(***************************************************************************)
(* The code keeps the provider's promise: with NMR deciding one attach at *)
(* a time, every step of attach_client, detach_client, the detach work    *)
(* item and the hook threads' walks is a step of the abstract provider   *)
(* (append at the tail, removal keeping the order, invocations only of a  *)
(* bound client, completion only with no invocation running) or leaves   *)
(* it unchanged, and the abstract fairness follows from the code's.      *)
(***************************************************************************)
ImplementsAbstract == Abs!ASpec

=============================================================================
