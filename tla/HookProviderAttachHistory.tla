---------------------- MODULE HookProviderAttachHistory ----------------------
(***************************************************************************)
(* HookProvider with a history variable: checkStamp[c] is the insertion   *)
(* counter (nextStamp) at the moment c's attach callback ran the matcher. *)
(* It lets a property compare when one client was checked with when       *)
(* another was inserted.  The history is written by the attach callback  *)
(* and by no other step, and no guard reads it, so the behaviours of the  *)
(* code are exactly those of HookProvider.                                *)
(***************************************************************************)
EXTENDS HookProvider

VARIABLE checkStamp

hvars == <<vars, checkStamp>>

(* Two clients the matcher keeps apart: either holds the wild card (or    *)
(* has no data), or both hold the same exact parameter.                   *)
Conflict(c, d) ==
    \/ EffectiveParam(c) = Wildcard
    \/ EffectiveParam(d) = Wildcard
    \/ EffectiveParam(c) = EffectiveParam(d)

HInit == Init /\ checkStamp = [c \in Clients |-> 0]

(* The attach callback, recording how many inserts preceded its check.    *)
HAttachCallback(c) ==
    /\ AttachCallback(c)
    /\ checkStamp' = [checkStamp EXCEPT ![c] = nextStamp]

HNext ==
    \/ \E c \in Clients : HAttachCallback(c)
    \/ /\ \/ \E c \in Clients :
                \/ AttachInsert(c)
                \/ DetachClient(c)
                \/ DetachWorkItemStart(c)
                \/ DetachClientComplete(c)
          \/ \E i \in Invokers :
                \/ GetNextAttachedClient(i)
                \/ EnterRundown(i)
                \/ LeaveRundown(i)
       /\ UNCHANGED checkStamp

HSpec == HInit /\ [][HNext]_hvars /\ Fairness

(***************************************************************************)
(* Attach exclusivity is lost only by overlapping attaches (the check of   *)
(* ebpf_extension_hook_check_attach_parameter at 221-258 and the         *)
(* InsertTailList at 362 are two lock holds): if two listed clients       *)
(* conflict, the later-inserted one ran its check before the earlier one *)
(* was inserted.  A matcher that let a conflicting client in against a    *)
(* list already holding the other would break it.                         *)
(***************************************************************************)
ConflictsOnlyFromOverlap ==
    \A c, d \in Listed :
        c # d /\ Conflict(c, d) /\ stamp[c] < stamp[d]
            => checkStamp[d] <= stamp[c]

=============================================================================
