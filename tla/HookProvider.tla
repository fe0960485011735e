---------------------------- MODULE HookProvider ----------------------------
(***************************************************************************)
(* The hook provider of src/libs/ebpf_ext/ebpf_ext_hook_provider.c: one    *)
(* registered provider, its lock-protected intrusive list of attached      *)
(* clients, the per-client rundown protection, the NMR attach and detach   *)
(* callbacks, the detach work item, and the hook threads that walk the     *)
(* list and invoke the attached programs.                                  *)
(*                                                                         *)
(* Every action is one region of the code that runs atomically with        *)
(* respect to the others: a region under the provider's spin lock, one     *)
(* interlocked rundown operation, or thread-local work folded into the     *)
(* next shared step.                                                       *)
(*                                                                         *)
(* The list is kept as the code keeps it, a circular doubly linked list    *)
(* of LIST_ENTRY links (flink, blink) threaded through the client records  *)
(* and the list head.  RemoveEntryList does not clear the removed entry's  *)
(* own links, so a removed client still points into the list it left.     *)
(***************************************************************************)
EXTENDS Naturals, FiniteSets

CONSTANTS
    Clients,          \* NMR bindings that may attach (hook client records)
    Invokers,         \* hook threads that invoke the attached programs
    ExactParams,      \* attach parameters other than the wild card
    Wildcard,         \* the hook's wild card attach parameter
    NullData,         \* a client whose client_data->data is NULL
    ClientData,       \* the attach parameter each client registers with
    Head,             \* the list head provider->attached_clients_list
    Nil,              \* a NULL pointer
    SerializedAttach  \* TRUE: the binding mechanism runs one attach at a time

Node == Clients \cup {Head}
Params == ExactParams \cup {Wildcard, NullData}

ASSUME ConstantsAssumption ==
    /\ IsFiniteSet(Clients)
    /\ IsFiniteSet(Invokers)
    /\ Head \notin Clients
    /\ Nil \notin Node
    /\ Wildcard \notin ExactParams
    /\ NullData \notin ExactParams \cup {Wildcard}
    /\ ClientData \in [Clients -> Params]
    /\ SerializedAttach \in BOOLEAN

VARIABLES
    flink,     \* LIST_ENTRY.Flink of every client record and of the head
    blink,     \* LIST_ENTRY.Blink of every client record and of the head
    cstate,    \* where each binding is in the attach / detach protocol
    ref,       \* EX_RUNDOWN_REF reference count of each client
    ipc,       \* where each hook thread is in its invocation pass
    icur,      \* the client pointer each hook thread holds
    stamp,     \* history: the insertion rank of each client (0 = never)
    nextStamp, \* history: the rank the next insertion gets
    uaf        \* history: a hook thread has read a freed client record

vars == <<flink, blink, cstate, ref, ipc, icur, stamp, nextStamp, uaf>>

(***************************************************************************)
(* Binding states.  "idle": NMR has not called the attach callback yet;    *)
(* "checked": the hook's attach callback accepted the client and the       *)
(* insertion is pending; "attached": in the list; "queued": unlinked, the  *)
(* detach work item queued; "draining": the work item is in                *)
(* ExWaitForRundownProtectionRelease; "freed": detach completed and NMR    *)
(* freed the record; "rejected": attach failed and the record was freed.   *)
(***************************************************************************)
CState == {"idle", "checked", "attached", "queued", "draining", "freed",
           "rejected"}

(* Once the wait for rundown release has begun, new acquisitions fail.     *)
RundownActive(c) == cstate[c] \in {"draining", "freed"}

(* The stored attach parameter as the matcher reads it (line 246): a      *)
(* client without data counts as a wild card holder.                      *)
EffectiveParam(c) == IF ClientData[c] = NullData THEN Wildcard
                     ELSE ClientData[c]

(***************************************************************************)
(* The list as the code walks it: Walk[k] is the node reached from the     *)
(* head after k Flink steps; the walk stops when it is back at the head.   *)
(***************************************************************************)
Walk[k \in Nat] == IF k = 0 THEN Head
                   ELSE IF Walk[k - 1] \in Node THEN flink[Walk[k - 1]]
                        ELSE Nil

WalkIndices == {k \in 1..Cardinality(Clients) :
                    \A j \in 1..k : Walk[j] \in Clients}

Listed == {Walk[k] : k \in WalkIndices}

(* Mutant: the matcher forgets that a listed wild card holder blocks.    *)
CheckAttachParameterNoWildcardHolder(c) ==
    IF EffectiveParam(c) = Wildcard
    THEN Listed = {}
    ELSE \A d \in Listed : EffectiveParam(d) # EffectiveParam(c)

(***************************************************************************)
(* ebpf_extension_hook_check_attach_parameter: a wild card request is     *)
(* allowed only on an empty list; an exact request is denied if a listed  *)
(* client holds the wild card or the same parameter.                      *)
(***************************************************************************)
CheckAttachParameter(c) ==
    IF EffectiveParam(c) = Wildcard
    THEN Listed = {}
    ELSE \A d \in Listed : EffectiveParam(d) \notin {Wildcard, EffectiveParam(c)}

(* Mutant: InsertHeadList in place of InsertTailList.                     *)
InsertHeadList(c) ==
    /\ flink' = [flink EXCEPT ![c] = flink[Head], ![Head] = c]
    /\ blink' = [blink EXCEPT ![c] = Head, ![flink[Head]] = c]

(* InsertTailList(&head, &c->link).                                        *)
InsertTailList(c) ==
    /\ flink' = [flink EXCEPT ![c] = Head, ![blink[Head]] = c]
    /\ blink' = [blink EXCEPT ![c] = blink[Head], ![Head] = c]

(* RemoveEntryList(&c->link): the neighbours are relinked, c's own links   *)
(* are left as they were.                                                  *)
RemoveEntryList(c) ==
    /\ flink' = [flink EXCEPT ![blink[c]] = flink[c]]
    /\ blink' = [blink EXCEPT ![flink[c]] = blink[c]]

Init ==
    /\ flink = [n \in Node |-> IF n = Head THEN Head ELSE Nil]
    /\ blink = [n \in Node |-> IF n = Head THEN Head ELSE Nil]
    /\ cstate = [c \in Clients |-> "idle"]
    /\ ref = [c \in Clients |-> 0]
    /\ ipc = [i \in Invokers |-> "idle"]
    /\ icur = [i \in Invokers |-> Nil]
    /\ stamp = [c \in Clients |-> 0]
    /\ nextStamp = 1
    /\ uaf = FALSE

-----------------------------------------------------------------------------
(***************************************************************************)
(* Attach: _ebpf_extension_hook_provider_attach_client up to and including *)
(* the hook's attach callback.  The allocation, the dispatch-table check  *)
(* and the work item allocation touch no shared state and may each fail;  *)
(* the callback runs the matcher under the shared lock and returns its    *)
(* verdict.  Any failure frees the record and rejects the attach.         *)
(***************************************************************************)
AttachCallback(c) ==
    /\ cstate[c] = "idle"
    /\ SerializedAttach => \A d \in Clients : cstate[d] # "checked"
    /\ \/ cstate' = [cstate EXCEPT ![c] = "rejected"]
       \/ cstate' = [cstate EXCEPT ![c] = IF CheckAttachParameter(c)
                                          THEN "checked" ELSE "rejected"]
    /\ UNCHANGED <<flink, blink, ref, ipc, icur, stamp, nextStamp, uaf>>

(* The callback succeeded: insert at the tail under the exclusive lock.    *)
AttachInsert(c) ==
    /\ cstate[c] = "checked"
    /\ InsertTailList(c)
    /\ cstate' = [cstate EXCEPT ![c] = "attached"]
    /\ stamp' = [stamp EXCEPT ![c] = nextStamp]
    /\ nextStamp' = nextStamp + 1
    /\ UNCHANGED <<ref, ipc, icur, uaf>>

(***************************************************************************)
(* Detach: _ebpf_extension_hook_provider_detach_client.  The hook's detach *)
(* callback, the unlink under the exclusive lock, and IoQueueWorkItem;     *)
(* NMR sees STATUS_PENDING.                                                *)
(***************************************************************************)
DetachClient(c) ==
    /\ cstate[c] = "attached"
    /\ RemoveEntryList(c)
    /\ cstate' = [cstate EXCEPT ![c] = "queued"]
    /\ UNCHANGED <<ref, ipc, icur, stamp, nextStamp, uaf>>

(* The work item starts ExWaitForRundownProtectionRelease: from here on    *)
(* ExAcquireRundownProtection fails.                                      *)
DetachWorkItemStart(c) ==
    /\ cstate[c] = "queued"
    /\ cstate' = [cstate EXCEPT ![c] = "draining"]
    /\ UNCHANGED <<flink, blink, ref, ipc, icur, stamp, nextStamp, uaf>>

(* Mutant: the completion does not wait for the count to drain.           *)
DetachClientCompleteNoWait(c) ==
    /\ cstate[c] = "draining"
    /\ cstate' = [cstate EXCEPT ![c] = "freed"]
    /\ UNCHANGED <<flink, blink, ref, ipc, icur, stamp, nextStamp, uaf>>

(* The wait returns once the count is zero; rundown_occurred is set, the  *)
(* work item freed and NmrProviderDetachClientComplete frees the record.   *)
DetachClientComplete(c) ==
    /\ cstate[c] = "draining"
    /\ ref[c] = 0
    /\ cstate' = [cstate EXCEPT ![c] = "freed"]
    /\ UNCHANGED <<flink, blink, ref, ipc, icur, stamp, nextStamp, uaf>>

-----------------------------------------------------------------------------
(***************************************************************************)
(* Invocation (spec 4.5): a hook thread walks the list with               *)
(* ebpf_extension_hook_get_next_attached_client, enters the rundown of    *)
(* each client it finds, invokes the program, leaves the rundown and asks *)
(* for the client after the one it holds.  Each call takes the lock on    *)
(* its own, so the pointer it returns is used after the lock is dropped.  *)
(***************************************************************************)
Freed(c) == cstate[c] \in {"freed", "rejected"}

(* Mutant: the walk follows Blink instead of Flink.                       *)
GetNextAttachedClientBlink(i) ==
    /\ ipc[i] \in {"idle", "next"}
    /\ LET next == IF ipc[i] = "idle" THEN blink[Head] ELSE blink[icur[i]]
       IN /\ ipc' = [ipc EXCEPT ![i] = IF next = Head THEN "idle" ELSE "got"]
          /\ icur' = [icur EXCEPT ![i] = IF next = Head THEN Nil ELSE next]
    /\ uaf' = (uaf \/ (ipc[i] = "next" /\ Freed(icur[i])))
    /\ UNCHANGED <<flink, blink, cstate, ref, stamp, nextStamp>>

(* get_next_attached_client(provider, NULL or icur[i]) under the shared   *)
(* lock: the head's Flink, or the held client's Flink.                     *)
GetNextAttachedClient(i) ==
    /\ ipc[i] \in {"idle", "next"}
    /\ LET next == IF ipc[i] = "idle" THEN flink[Head] ELSE flink[icur[i]]
       IN /\ ipc' = [ipc EXCEPT ![i] = IF next = Head THEN "idle" ELSE "got"]
          /\ icur' = [icur EXCEPT ![i] = IF next = Head THEN Nil ELSE next]
    /\ uaf' = (uaf \/ (ipc[i] = "next" /\ Freed(icur[i])))
    /\ UNCHANGED <<flink, blink, cstate, ref, stamp, nextStamp>>

(* ebpf_extension_hook_client_enter_rundown: ExAcquireRundownProtection.   *)
EnterRundown(i) ==
    /\ ipc[i] = "got"
    /\ LET c == icur[i] IN
       IF RundownActive(c)
       THEN /\ ipc' = [ipc EXCEPT ![i] = "next"]
            /\ UNCHANGED ref
       ELSE /\ ref' = [ref EXCEPT ![c] = ref[c] + 1]
            /\ ipc' = [ipc EXCEPT ![i] = "invoking"]
    /\ uaf' = (uaf \/ Freed(icur[i]))
    /\ UNCHANGED <<flink, blink, cstate, icur, stamp, nextStamp>>

(* Mutant: a path that returns without leaving the rundown.               *)
LeaveRundownNoRelease(i) ==
    /\ ipc[i] = "invoking"
    /\ ipc' = [ipc EXCEPT ![i] = "next"]
    /\ UNCHANGED <<flink, blink, cstate, ref, icur, stamp, nextStamp, uaf>>

(* Mutant: the release also runs when the acquisition failed.              *)
LeaveRundownUnmatched(i) ==
    /\ ipc[i] \in {"invoking", "next"}
    /\ ref' = [ref EXCEPT ![icur[i]] = ref[icur[i]] - 1]
    /\ ipc' = [ipc EXCEPT ![i] = "next"]
    /\ UNCHANGED <<flink, blink, cstate, icur, stamp, nextStamp, uaf>>

(* ebpf_extension_hook_invoke_program returns and                          *)
(* ebpf_extension_hook_client_leave_rundown releases the reference.        *)
LeaveRundown(i) ==
    /\ ipc[i] = "invoking"
    /\ ref' = [ref EXCEPT ![icur[i]] = ref[icur[i]] - 1]
    /\ ipc' = [ipc EXCEPT ![i] = "next"]
    /\ UNCHANGED <<flink, blink, cstate, icur, stamp, nextStamp, uaf>>

-----------------------------------------------------------------------------
Next ==
    \/ \E c \in Clients :
          \/ AttachCallback(c)
          \/ AttachInsert(c)
          \/ DetachClient(c)
          \/ DetachWorkItemStart(c)
          \/ DetachClientComplete(c)
    \/ \E i \in Invokers :
          \/ GetNextAttachedClient(i)
          \/ EnterRundown(i)
          \/ LeaveRundown(i)

(***************************************************************************)
(* The system work queue runs every queued work item, and a program that  *)
(* was invoked returns; nothing obliges NMR to attach or detach, nor a    *)
(* hook event to fire.                                                    *)
(***************************************************************************)
Fairness ==
    /\ \A c \in Clients : WF_vars(DetachWorkItemStart(c))
    /\ \A c \in Clients : WF_vars(DetachClientComplete(c))
    /\ \A i \in Invokers : WF_vars(LeaveRundown(i))

Spec == Init /\ [][Next]_vars /\ Fairness

-----------------------------------------------------------------------------
TypeOK ==
    /\ flink \in [Node -> Node \cup {Nil}]
    /\ blink \in [Node -> Node \cup {Nil}]
    /\ cstate \in [Clients -> CState]
    /\ ref \in [Clients -> Nat]
    /\ ipc \in [Invokers -> {"idle", "got", "invoking", "next"}]
    /\ icur \in [Invokers -> Clients \cup {Nil}]
    /\ stamp \in [Clients -> Nat]
    /\ nextStamp \in Nat \ {0}
    /\ uaf \in BOOLEAN

(***************************************************************************)
(* The list (spec section 8): walking Flink from the head visits exactly   *)
(* the clients whose attach inserted them and whose detach has not yet     *)
(* unlinked them, in the order they were inserted, and every visited       *)
(* link's successor points back to it, however attaches and detaches of    *)
(* different clients interleave (InsertTailList / RemoveEntryList).        *)
(***************************************************************************)
ListIsAttachedInOrder ==
    /\ Listed = {c \in Clients : cstate[c] = "attached"}
    /\ Walk[Cardinality(Listed) + 1] = Head
    /\ \A k \in 1..Cardinality(Listed) :
          /\ blink[Walk[k]] = Walk[k - 1]
          /\ k > 1 => stamp[Walk[k - 1]] < stamp[Walk[k]]
    /\ blink[Head] = Walk[Cardinality(Listed)]

(***************************************************************************)
(* Attach exclusivity (spec 4.2): if a listed client holds the wild card   *)
(* (or has no data) it is the only listed client, and no two listed       *)
(* clients hold the same exact parameter.  Checked by the hook's attach    *)
(* callback before the insertion in attach_client.                        *)
(***************************************************************************)
AttachExclusive ==
    \A c, d \in Listed :
        c # d => /\ EffectiveParam(c) # Wildcard
                 /\ EffectiveParam(c) # EffectiveParam(d)

(***************************************************************************)
(* No invocation after detach (spec section 8): no hook thread is inside  *)
(* a client's program once the detach work item's rundown wait has        *)
(* returned and NmrProviderDetachClientComplete was called.               *)
(***************************************************************************)
NoInvokeAfterDetachComplete ==
    \A i \in Invokers : ipc[i] = "invoking" => ~Freed(icur[i])

(***************************************************************************)
(* No hook thread ever reads a client record after the detach completed   *)
(* and NMR freed it (get_next_attached_client reads its Flink,            *)
(* enter_rundown its rundown reference).                                   *)
(***************************************************************************)
NoUseAfterFree == ~uaf

(***************************************************************************)
(* A walk never goes backwards: every client get_next_attached_client     *)
(* returns was inserted after the client the thread held, even when that  *)
(* client was unlinked in between and its stale Flink is followed.        *)
(***************************************************************************)
WalkFollowsAttachOrder ==
    [][\A i \in Invokers :
          (ipc[i] = "next" /\ ipc'[i] = "got") =>
              stamp[icur[i]] < stamp[icur'[i]]]_vars

(***************************************************************************)
(* No new invocation after unlinking (spec section 3): a hook thread       *)
(* enters a client's rundown and starts its program only while the client *)
(* is in the list; once detach_client has unlinked it, only invocations   *)
(* already in flight may still finish.                                    *)
(***************************************************************************)
InvocationStartsOnlyWhileListed ==
    [][\A i \in Invokers :
          (ipc[i] = "got" /\ ipc'[i] = "invoking") =>
              cstate[icur[i]] = "attached"]_vars

(***************************************************************************)
(* Detach completes (spec 6): once the detach callback has unlinked a     *)
(* client, the work item's rundown wait eventually returns and the        *)
(* completion is reported to NMR, without the detach caller waiting.      *)
(***************************************************************************)
DetachEventuallyCompletes ==
    \A c \in Clients : cstate[c] = "queued" ~> cstate[c] = "freed"

=============================================================================
