------------------------- MODULE HookProviderProofs -------------------------
(***************************************************************************)
(* Proofs about HookProvider for every value of the constants.            *)
(*                                                                         *)
(* TypeOK is not inductive: LeaveRundown decrements ref[c], which stays a *)
(* natural number only because the thread that leaves is one of those the *)
(* count stands for.  The inductive invariant IInv adds                   *)
(*   - RefCountExact: ref[c] is the number of hook threads inside c's     *)
(*     program (the rundown accounting of enter/leave_rundown);           *)
(*   - HeldInserted: a pointer a hook thread holds is one the list once   *)
(*     contained;                                                          *)
(*   - LinksInserted: the links of the head and of every inserted record  *)
(*     lead to the head or to inserted records, so a walk over stale      *)
(*     links never reaches a record that was never inserted;              *)
(*   - FreedDrained: a record whose detach completed has no references.   *)
(***************************************************************************)
EXTENDS HookProvider, FiniteSetTheorems, TLAPS

Inserted == {"attached", "queued", "draining", "freed"}

InsertedClients == {c \in Clients : cstate[c] \in Inserted}

(* The hook threads inside c's program, holding c's rundown reference.     *)
Holders(c) == {i \in Invokers : ipc[i] = "invoking" /\ icur[i] = c}

LinksInserted ==
    \A n \in Node :
        (n = Head \/ n \in InsertedClients) =>
            /\ flink[n] \in {Head} \cup InsertedClients
            /\ blink[n] \in {Head} \cup InsertedClients

HeldInserted ==
    \A i \in Invokers : ipc[i] # "idle" => icur[i] \in InsertedClients

RefCountExact == \A c \in Clients : ref[c] = Cardinality(Holders(c))

FreedDrained == \A c \in Clients : cstate[c] = "freed" => ref[c] = 0

IInv == TypeOK /\ LinksInserted /\ HeldInserted /\ RefCountExact
        /\ FreedDrained

-----------------------------------------------------------------------------
LEMMA HoldersFinite ==
    ASSUME NEW c
    PROVE  IsFiniteSet(Holders(c))
BY ConstantsAssumption, FS_Subset DEF Holders

(* A step that changes neither ipc nor icur keeps every holder set.        *)
LEMMA HoldersUnchanged ==
    ASSUME NEW c, ipc' = ipc, icur' = icur
    PROVE  Holders(c)' = Holders(c)
BY DEF Holders

LEMMA InitIInv == Init => IInv
<1> SUFFICES ASSUME Init PROVE IInv
    OBVIOUS
<1>1. TypeOK
    <2>1. flink \in [Node -> Node \cup {Nil}] /\ blink \in [Node -> Node \cup {Nil}]
        BY DEF Init, Node
    <2>2. cstate \in [Clients -> CState] /\ ref \in [Clients -> Nat]
        BY DEF Init, CState
    <2>3. ipc \in [Invokers -> {"idle", "got", "invoking", "next"}]
          /\ icur \in [Invokers -> Clients \cup {Nil}]
        BY DEF Init
    <2>4. stamp \in [Clients -> Nat]
        BY DEF Init
    <2>5. nextStamp \in Nat \ {0}
        BY DEF Init
    <2>6. uaf \in BOOLEAN
        BY DEF Init
    <2>7. QED
        BY <2>1, <2>2, <2>3, <2>4, <2>5, <2>6 DEF TypeOK
<1>2. LinksInserted
    BY DEF Init, LinksInserted, InsertedClients, Inserted
<1>3. HeldInserted
    BY DEF Init, HeldInserted
<1>4. RefCountExact
    <2> SUFFICES ASSUME NEW c \in Clients PROVE ref[c] = Cardinality(Holders(c))
        BY DEF RefCountExact
    <2>1. Holders(c) = {}
        BY DEF Init, Holders
    <2>2. QED
        BY <2>1, FS_EmptySet DEF Init
<1>5. FreedDrained
    BY DEF Init, FreedDrained
<1>6. QED
    BY <1>1, <1>2, <1>3, <1>4, <1>5 DEF IInv

-----------------------------------------------------------------------------
(***************************************************************************)
(* One step per action of Next.  Within an action, the conjuncts of IInv  *)
(* that the action can disturb get a step of their own.                   *)
(***************************************************************************)
LEMMA NextIInv == IInv /\ [Next]_vars => IInv'
<1> SUFFICES ASSUME IInv, [Next]_vars PROVE IInv'
    OBVIOUS
<1> USE ConstantsAssumption
<1>0. /\ TypeOK /\ LinksInserted /\ HeldInserted /\ RefCountExact
      /\ FreedDrained
    BY DEF IInv
<1>1. ASSUME NEW c \in Clients, AttachCallback(c) PROVE IInv'
    <2>1. cstate' = [cstate EXCEPT ![c] = "rejected"]
          \/ cstate' = [cstate EXCEPT ![c] = "checked"]
        BY <1>1 DEF AttachCallback
    <2>2. cstate[c] = "idle" /\ c \notin InsertedClients
        BY <1>1 DEF AttachCallback, InsertedClients, Inserted
    <2>3. InsertedClients' = InsertedClients
        BY <1>0, <2>1, <2>2 DEF InsertedClients, Inserted, TypeOK
    <2>4. TypeOK'
        BY <1>0, <1>1, <2>1 DEF TypeOK, AttachCallback, CState
    <2>5. LinksInserted'
        BY <1>0, <1>1, <2>3 DEF LinksInserted, AttachCallback
    <2>6. HeldInserted'
        BY <1>0, <1>1, <2>3 DEF HeldInserted, AttachCallback
    <2>7. RefCountExact'
        BY <1>0, <1>1, HoldersUnchanged DEF RefCountExact, AttachCallback
    <2>8. FreedDrained'
        BY <1>0, <1>1, <2>1, <2>2 DEF FreedDrained, AttachCallback, TypeOK
    <2>9. QED
        BY <2>4, <2>5, <2>6, <2>7, <2>8 DEF IInv
<1>2. ASSUME NEW c \in Clients, AttachInsert(c) PROVE IInv'
    <2>1. c \notin InsertedClients /\ c # Head
        BY <1>2, ConstantsAssumption DEF AttachInsert, InsertedClients, Inserted
    <2>2. blink[Head] \in {Head} \cup InsertedClients
        BY <1>0 DEF LinksInserted, Node
    <2>3. InsertedClients' = InsertedClients \cup {c}
        BY <1>0, <1>2 DEF InsertedClients, Inserted, AttachInsert, TypeOK
    <2>4. TypeOK'
        BY <1>0, <1>2, <2>2 DEF TypeOK, AttachInsert, InsertTailList, CState,
                                InsertedClients, Node
    <2>5. LinksInserted'
        BY <1>0, <1>2, <2>1, <2>2, <2>3 DEF LinksInserted, AttachInsert,
                                            InsertTailList, TypeOK, Node
    <2>6. HeldInserted'
        BY <1>0, <1>2, <2>3 DEF HeldInserted, AttachInsert
    <2>7. RefCountExact'
        BY <1>0, <1>2, HoldersUnchanged DEF RefCountExact, AttachInsert
    <2>8. FreedDrained'
        BY <1>0, <1>2 DEF FreedDrained, AttachInsert, TypeOK
    <2>9. QED
        BY <2>4, <2>5, <2>6, <2>7, <2>8 DEF IInv
<1>3. ASSUME NEW c \in Clients, DetachClient(c) PROVE IInv'
    <2>1. c \in InsertedClients
        BY <1>3 DEF DetachClient, InsertedClients, Inserted
    <2>2. /\ flink[c] \in {Head} \cup InsertedClients
          /\ blink[c] \in {Head} \cup InsertedClients
        BY <1>0, <2>1 DEF LinksInserted, Node
    <2>3. InsertedClients' = InsertedClients
        BY <1>0, <1>3, <2>1 DEF InsertedClients, Inserted, DetachClient, TypeOK
    <2>4. TypeOK'
        BY <1>0, <1>3, <2>2 DEF TypeOK, DetachClient, RemoveEntryList, CState,
                                InsertedClients, Node
    <2>5. LinksInserted'
        BY <1>0, <1>3, <2>2, <2>3 DEF LinksInserted, DetachClient,
                                      RemoveEntryList, TypeOK, Node
    <2>6. HeldInserted'
        BY <1>0, <1>3, <2>3 DEF HeldInserted, DetachClient
    <2>7. RefCountExact'
        BY <1>0, <1>3, HoldersUnchanged DEF RefCountExact, DetachClient
    <2>8. FreedDrained'
        BY <1>0, <1>3 DEF FreedDrained, DetachClient, TypeOK
    <2>9. QED
        BY <2>4, <2>5, <2>6, <2>7, <2>8 DEF IInv
<1>4. ASSUME NEW c \in Clients, DetachWorkItemStart(c) PROVE IInv'
    <2>1. InsertedClients' = InsertedClients
        BY <1>0, <1>4 DEF InsertedClients, Inserted, DetachWorkItemStart, TypeOK
    <2>2. TypeOK'
        BY <1>0, <1>4 DEF TypeOK, DetachWorkItemStart, CState
    <2>3. LinksInserted' /\ HeldInserted'
        BY <1>0, <1>4, <2>1 DEF LinksInserted, HeldInserted, DetachWorkItemStart
    <2>4. RefCountExact'
        BY <1>0, <1>4, HoldersUnchanged DEF RefCountExact, DetachWorkItemStart
    <2>5. FreedDrained'
        BY <1>0, <1>4 DEF FreedDrained, DetachWorkItemStart, TypeOK
    <2>6. QED
        BY <2>2, <2>3, <2>4, <2>5 DEF IInv
<1>5. ASSUME NEW c \in Clients, DetachClientComplete(c) PROVE IInv'
    <2>1. InsertedClients' = InsertedClients
        BY <1>0, <1>5 DEF InsertedClients, Inserted, DetachClientComplete, TypeOK
    <2>2. TypeOK'
        BY <1>0, <1>5 DEF TypeOK, DetachClientComplete, CState
    <2>3. LinksInserted' /\ HeldInserted'
        BY <1>0, <1>5, <2>1 DEF LinksInserted, HeldInserted, DetachClientComplete
    <2>4. RefCountExact'
        BY <1>0, <1>5, HoldersUnchanged DEF RefCountExact, DetachClientComplete
    <2>5. FreedDrained'
        BY <1>0, <1>5 DEF FreedDrained, DetachClientComplete, TypeOK
    <2>6. QED
        BY <2>2, <2>3, <2>4, <2>5 DEF IInv
<1>6. ASSUME NEW i \in Invokers, GetNextAttachedClient(i) PROVE IInv'
    <2> DEFINE next == IF ipc[i] = "idle" THEN flink[Head] ELSE flink[icur[i]]
    <2>1. next \in {Head} \cup InsertedClients
        BY <1>0, <1>6 DEF LinksInserted, HeldInserted, GetNextAttachedClient,
                          InsertedClients, Node
    <2>2. /\ ipc' = [ipc EXCEPT ![i] = IF next = Head THEN "idle" ELSE "got"]
          /\ icur' = [icur EXCEPT ![i] = IF next = Head THEN Nil ELSE next]
          /\ UNCHANGED <<flink, blink, cstate, ref, stamp, nextStamp>>
        BY <1>6 DEF GetNextAttachedClient
    <2>3. InsertedClients' = InsertedClients
        BY <2>2 DEF InsertedClients
    <2>4. TypeOK'
        BY <1>0, <1>6, <2>1, <2>2 DEF TypeOK, GetNextAttachedClient,
                                      InsertedClients
    <2>5. LinksInserted'
        BY <1>0, <2>2, <2>3 DEF LinksInserted
    <2>6. HeldInserted'
        BY <1>0, <2>1, <2>2, <2>3 DEF HeldInserted, TypeOK
    <2>7. RefCountExact'
        <3> SUFFICES ASSUME NEW d \in Clients
                     PROVE  ref'[d] = Cardinality(Holders(d)')
            BY DEF RefCountExact
        <3>1. Holders(d)' = Holders(d)
            BY <1>0, <1>6, <2>2 DEF Holders, TypeOK, GetNextAttachedClient
        <3>2. QED
            BY <1>0, <2>2, <3>1 DEF RefCountExact
    <2>8. FreedDrained'
        BY <1>0, <2>2 DEF FreedDrained
    <2>9. QED
        BY <2>4, <2>5, <2>6, <2>7, <2>8 DEF IInv
<1>7. ASSUME NEW i \in Invokers, EnterRundown(i) PROVE IInv'
    <2> DEFINE c == icur[i]
    <2>1. c \in InsertedClients /\ ipc[i] = "got" /\ i \notin Holders(c)
        BY <1>0, <1>7 DEF HeldInserted, EnterRundown, Holders
    <2>2. UNCHANGED <<flink, blink, cstate, icur, stamp, nextStamp>>
        BY <1>7 DEF EnterRundown
    <2>3. CASE RundownActive(c)
        <3>1. ipc' = [ipc EXCEPT ![i] = "next"] /\ ref' = ref
            BY <1>7, <2>3 DEF EnterRundown
        <3>2. \A d \in Clients : Holders(d)' = Holders(d)
            BY <1>0, <2>1, <2>2, <3>1 DEF Holders, TypeOK
        <3>3. TypeOK'
            BY <1>0, <1>7, <2>2, <3>1 DEF TypeOK, EnterRundown
        <3>4. RefCountExact' /\ FreedDrained'
            BY <1>0, <2>2, <3>1, <3>2 DEF RefCountExact, FreedDrained
        <3>5. LinksInserted' /\ HeldInserted'
            BY <1>0, <2>1, <2>2, <3>1
            DEF LinksInserted, HeldInserted, InsertedClients, TypeOK
        <3>6. QED
            BY <3>3, <3>4, <3>5 DEF IInv
    <2>4. CASE ~RundownActive(c)
        <3>1. ipc' = [ipc EXCEPT ![i] = "invoking"]
              /\ ref' = [ref EXCEPT ![c] = ref[c] + 1]
            BY <1>7, <2>4 DEF EnterRundown
        <3>2. Holders(c)' = Holders(c) \cup {i}
            BY <1>0, <2>1, <2>2, <3>1 DEF Holders, TypeOK
        <3>3. \A d \in Clients \ {c} : Holders(d)' = Holders(d)
            BY <1>0, <2>1, <2>2, <3>1 DEF Holders, TypeOK
        <3>4. Cardinality(Holders(c) \cup {i}) = Cardinality(Holders(c)) + 1
            BY <2>1, HoldersFinite, FS_AddElement
        <3>5. RefCountExact'
            <4> SUFFICES ASSUME NEW d \in Clients
                         PROVE  ref'[d] = Cardinality(Holders(d)')
                BY DEF RefCountExact
            <4>1. CASE d = c
                BY <1>0, <2>2, <3>1, <3>2, <3>4, <4>1 DEF RefCountExact, TypeOK
            <4>2. CASE d # c
                BY <1>0, <3>1, <3>3, <4>2 DEF RefCountExact, TypeOK
            <4>3. QED
                BY <4>1, <4>2
        <3>6. FreedDrained'
            BY <1>0, <2>2, <2>4, <3>1 DEF FreedDrained, RundownActive, TypeOK
        <3>7. TypeOK'
            BY <1>0, <1>7, <2>1, <2>2, <3>1
            DEF TypeOK, EnterRundown, InsertedClients
        <3>8. LinksInserted' /\ HeldInserted'
            BY <1>0, <2>1, <2>2, <3>1
            DEF LinksInserted, HeldInserted, InsertedClients, TypeOK
        <3>9. QED
            BY <3>5, <3>6, <3>7, <3>8 DEF IInv
    <2>5. QED
        BY <2>3, <2>4
<1>8. ASSUME NEW i \in Invokers, LeaveRundown(i) PROVE IInv'
    <2> DEFINE c == icur[i]
    <2>1. c \in InsertedClients /\ i \in Holders(c)
        BY <1>0, <1>8 DEF HeldInserted, LeaveRundown, Holders
    <2>2. /\ ipc' = [ipc EXCEPT ![i] = "next"]
          /\ ref' = [ref EXCEPT ![c] = ref[c] - 1]
          /\ UNCHANGED <<flink, blink, cstate, icur, stamp, nextStamp, uaf>>
        BY <1>8 DEF LeaveRundown
    <2>3. Holders(c)' = Holders(c) \ {i}
        BY <1>0, <2>1, <2>2 DEF Holders, TypeOK
    <2>4. \A d \in Clients \ {c} : Holders(d)' = Holders(d)
        BY <1>0, <2>1, <2>2 DEF Holders, TypeOK
    <2>5. Cardinality(Holders(c) \ {i}) = Cardinality(Holders(c)) - 1
        BY <2>1, HoldersFinite, FS_RemoveElement
    <2>6. ref[c] \in Nat \ {0}
        <3>1. Cardinality(Holders(c)) \in Nat
            BY HoldersFinite, FS_CardinalityType
        <3>2. Cardinality(Holders(c)) # 0
            BY <2>1, HoldersFinite, FS_EmptySet
        <3>3. QED
            BY <1>0, <2>1, <3>1, <3>2 DEF RefCountExact, InsertedClients
    <2>7. RefCountExact'
        BY <1>0, <2>1, <2>2, <2>3, <2>4, <2>5
        DEF RefCountExact, TypeOK, InsertedClients
    <2>8. TypeOK'
        BY <1>0, <2>1, <2>2, <2>6 DEF TypeOK, InsertedClients
    <2>9. FreedDrained'
        <3>1. cstate[c] # "freed"
            BY <1>0, <2>1, <2>6 DEF FreedDrained, InsertedClients
        <3>2. QED
            BY <1>0, <2>2, <3>1 DEF FreedDrained, TypeOK
    <2>10. LinksInserted' /\ HeldInserted'
        BY <1>0, <2>1, <2>2
        DEF LinksInserted, HeldInserted, InsertedClients, TypeOK
    <2>11. QED
        BY <2>7, <2>8, <2>9, <2>10 DEF IInv
<1>9. CASE UNCHANGED vars
    BY <1>0, <1>9 DEF vars, IInv, TypeOK, LinksInserted, HeldInserted,
                      RefCountExact, FreedDrained, InsertedClients, Holders
<1>10. QED
    BY <1>1, <1>2, <1>3, <1>4, <1>5, <1>6, <1>7, <1>8, <1>9 DEF Next

-----------------------------------------------------------------------------
LEMMA SpecIInv == Spec => []IInv
BY InitIInv, NextIInv, PTL DEF Spec

(***************************************************************************)
(* Every reachable state is well typed; in particular the rundown count   *)
(* of a client never goes below zero, whatever the interleaving of        *)
(* enter_rundown and leave_rundown calls of the hook threads.             *)
(***************************************************************************)
THEOREM TypeCorrect == Spec => []TypeOK
BY SpecIInv, PTL DEF IInv

(***************************************************************************)
(* No hook thread is inside a client's program once the detach work item  *)
(* has returned from ExWaitForRundownProtectionRelease and reported the   *)
(* completion to NMR: the wait returns only at count zero, a thread       *)
(* inside a program holds a count, and once the wait has begun no thread  *)
(* acquires a new one.                                                    *)
(***************************************************************************)
THEOREM DetachCompleteQuiescent == Spec => []NoInvokeAfterDetachComplete
<1>1. IInv => NoInvokeAfterDetachComplete
    <2> SUFFICES ASSUME IInv, NEW i \in Invokers, ipc[i] = "invoking"
                 PROVE  ~Freed(icur[i])
        BY DEF NoInvokeAfterDetachComplete
    <2> DEFINE c == icur[i]
    <2>1. c \in InsertedClients /\ i \in Holders(c)
        BY DEF IInv, HeldInserted, Holders
    <2>2. Cardinality(Holders(c)) # 0
        BY <2>1, HoldersFinite, FS_EmptySet
    <2>3. ref[c] # 0
        BY <2>1, <2>2 DEF IInv, RefCountExact, InsertedClients
    <2>4. QED
        BY <2>1, <2>3 DEF IInv, FreedDrained, Freed, InsertedClients, Inserted
<1>2. QED
    BY <1>1, SpecIInv, PTL

=============================================================================
