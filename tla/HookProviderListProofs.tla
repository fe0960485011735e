----------------------- MODULE HookProviderListProofs -----------------------
(***************************************************************************)
(* Proofs about the attached-clients list of HookProvider that need no    *)
(* walk along it: the shape InsertTailList and RemoveEntryList keep, and  *)
(* the order of insertion stamps along every Flink, including the stale   *)
(* Flink of a record RemoveEntryList has unlinked.                        *)
(***************************************************************************)
EXTENDS HookProviderProofs

AttachedClients == {c \in Clients : cstate[c] = "attached"}

OnList == {Head} \cup AttachedClients

(* Every node on the list links to nodes on the list, and each link is    *)
(* matched by the opposite one.                                            *)
ListShape ==
    \A n \in OnList :
        /\ flink[n] \in OnList /\ blink[n] \in OnList
        /\ flink[blink[n]] = n /\ blink[flink[n]] = n

(* Along every Flink of an inserted record, current or stale, the stamp   *)
(* grows.                                                                  *)
StampsForward ==
    \A c \in InsertedClients : flink[c] # Head => stamp[c] < stamp[flink[c]]

StampsIssued == \A c \in InsertedClients : stamp[c] < nextStamp

WInv == IInv /\ ListShape /\ StampsForward /\ StampsIssued

LEMMA InitWInv == Init => WInv
<1> SUFFICES ASSUME Init PROVE WInv
    OBVIOUS
<1>1. IInv
    BY InitIInv
<1>2. AttachedClients = {} /\ InsertedClients = {}
    BY DEF Init, AttachedClients, InsertedClients, Inserted
<1>3. ListShape
    BY <1>2, ConstantsAssumption DEF Init, ListShape, OnList, Node
<1>4. QED
    BY <1>1, <1>2, <1>3 DEF WInv, StampsForward, StampsIssued

(* A step that moves no link, issues no stamp and changes neither which   *)
(* clients are attached nor which were inserted keeps the list facts.     *)
LEMMA FrameWInv ==
    ASSUME WInv, IInv',
           UNCHANGED <<flink, blink, stamp, nextStamp>>,
           AttachedClients' = AttachedClients,
           InsertedClients' = InsertedClients
    PROVE  WInv'
BY DEF WInv, ListShape, OnList, StampsForward, StampsIssued

(* InsertTailList(c) of attach_client: c becomes the new tail.            *)
LEMMA InsertWInv ==
    ASSUME WInv, IInv', NEW c \in Clients, AttachInsert(c)
    PROVE  WInv'
<1> DEFINE t == blink[Head]
<1>0. TypeOK /\ ListShape /\ StampsForward /\ StampsIssued /\ LinksInserted
    BY DEF WInv, IInv
<1>1. c \notin InsertedClients /\ c \notin OnList /\ c # Head
    BY ConstantsAssumption DEF AttachInsert, InsertedClients, Inserted, OnList,
                               AttachedClients
<1>2. t \in OnList /\ flink[t] = Head /\ Head \in OnList
    BY <1>0 DEF ListShape, OnList
<1>3. /\ flink' = [flink EXCEPT ![c] = Head, ![t] = c]
      /\ blink' = [blink EXCEPT ![c] = t, ![Head] = c]
      /\ stamp' = [stamp EXCEPT ![c] = nextStamp]
      /\ nextStamp' = nextStamp + 1
    BY DEF AttachInsert, InsertTailList
<1>4. /\ OnList' = OnList \cup {c}
      /\ InsertedClients' = InsertedClients \cup {c}
      /\ AttachedClients \subseteq InsertedClients
    BY <1>0 DEF AttachInsert, OnList, AttachedClients, InsertedClients,
                Inserted, TypeOK
<1>5. OnList \subseteq Node /\ c \in Node
    BY DEF OnList, AttachedClients, Node
<1>6. ListShape'
    <2> SUFFICES ASSUME NEW n \in OnList'
                 PROVE  /\ flink'[n] \in OnList' /\ blink'[n] \in OnList'
                        /\ flink'[blink'[n]] = n /\ blink'[flink'[n]] = n
        BY DEF ListShape
    <2>1. CASE n = c
        BY <1>0, <1>1, <1>2, <1>3, <1>4, <1>5, <2>1 DEF TypeOK
    <2>2. CASE n = Head
        <3>1. t # Head => flink[Head] \in OnList /\ flink[Head] # Head
                          /\ blink[flink[Head]] = Head
            BY <1>0, <1>2 DEF ListShape
        <3>2. QED
            BY <1>0, <1>1, <1>2, <1>3, <1>4, <1>5, <2>2, <3>1 DEF TypeOK
    <2>3. CASE n = t /\ n # Head
        <3>1. blink[t] \in OnList /\ flink[blink[t]] = t /\ blink[t] # t
            BY <1>0, <1>2, <2>3 DEF ListShape
        <3>2. QED
            BY <1>0, <1>1, <1>2, <1>3, <1>4, <1>5, <2>3, <3>1 DEF TypeOK
    <2>4. CASE n \notin {c, Head, t}
        <3>1. n \in OnList
            BY <1>4, <2>4
        <3>2. /\ flink[n] \in OnList /\ blink[n] \in OnList
              /\ flink[blink[n]] = n /\ blink[flink[n]] = n
            BY <1>0, <3>1 DEF ListShape
        <3>3. blink[n] # t /\ flink[n] # Head /\ blink[n] # c /\ flink[n] # c
            BY <1>1, <1>2, <2>4, <3>2
        <3>4. blink[n] = Head => t # Head
            BY <1>2, <2>4, <3>2
        <3>5. QED
            BY <1>0, <1>1, <1>2, <1>3, <1>4, <1>5, <2>4, <3>1, <3>2, <3>3, <3>4
            DEF TypeOK
    <2>5. QED
        BY <2>1, <2>2, <2>3, <2>4
<1>7. StampsForward'
    <2> SUFFICES ASSUME NEW d \in InsertedClients', flink'[d] # Head
                 PROVE  stamp'[d] < stamp'[flink'[d]]
        BY DEF StampsForward
    <2>1. CASE d = c
        BY <1>0, <1>1, <1>2, <1>3, <1>5, <2>1 DEF TypeOK
    <2>2. CASE d = t /\ d # c
        <3>1. t \in InsertedClients
            BY <1>0, <1>1, <1>2, <1>3, <1>4, <2>2 DEF OnList, TypeOK
        <3>2. flink'[t] = c /\ stamp'[t] = stamp[t] /\ stamp'[c] = nextStamp
            BY <1>0, <1>1, <1>3, <1>5, <2>2, <3>1 DEF TypeOK, InsertedClients, Node
        <3>3. stamp[t] < nextStamp
            BY <1>0, <3>1 DEF StampsIssued
        <3>4. QED
            BY <2>2, <3>2, <3>3
    <2>3. CASE d \notin {c, t}
        <3>1. d \in InsertedClients /\ flink'[d] = flink[d]
            BY <1>0, <1>3, <1>4, <2>3 DEF TypeOK, InsertedClients, Node
        <3>2. flink[d] \in {Head} \cup InsertedClients
            BY <1>0, <3>1 DEF LinksInserted, InsertedClients, Node
        <3>3. flink[d] # c /\ flink[d] # Head
            BY <1>1, <3>1, <3>2
        <3>4. stamp[d] < stamp[flink[d]]
            BY <1>0, <3>1, <3>3 DEF StampsForward
        <3>5. QED
            BY <1>1, <1>3, <3>1, <3>2, <3>3, <3>4, <2>3 DEF TypeOK,
               InsertedClients
    <2>4. QED
        BY <2>1, <2>2, <2>3
<1>8. StampsIssued'
    BY <1>0, <1>1, <1>3, <1>4 DEF StampsIssued, TypeOK, InsertedClients
<1>9. QED
    BY <1>6, <1>7, <1>8 DEF WInv

(* RemoveEntryList(c) of detach_client: the neighbours p and n of c are   *)
(* linked to each other; c keeps its own, now stale, links.               *)
LEMMA RemoveWInv ==
    ASSUME WInv, IInv', NEW c \in Clients, DetachClient(c)
    PROVE  WInv'
<1> DEFINE p == blink[c]
           n == flink[c]
<1>0. TypeOK /\ ListShape /\ StampsForward /\ StampsIssued
    BY DEF WInv, IInv
<1>1. c \in OnList /\ c \in InsertedClients /\ c # Head
    BY ConstantsAssumption DEF DetachClient, OnList, AttachedClients,
                               InsertedClients, Inserted
<1>2. p \in OnList /\ n \in OnList /\ flink[p] = c /\ blink[n] = c
    BY <1>0, <1>1 DEF ListShape
(* No Flink of an inserted record loops back to itself, so c's neighbours *)
(* are other nodes.                                                        *)
<1>3. p # c /\ n # c
    <2>1. n # c
        BY <1>0, <1>1 DEF StampsForward, TypeOK
    <2>2. QED
        BY <1>2, <2>1
<1>4. /\ flink' = [flink EXCEPT ![p] = n]
      /\ blink' = [blink EXCEPT ![n] = p]
      /\ UNCHANGED <<stamp, nextStamp>>
    BY DEF DetachClient, RemoveEntryList
<1>5. /\ OnList' = OnList \ {c}
      /\ InsertedClients' = InsertedClients
    BY <1>0, ConstantsAssumption DEF DetachClient, OnList, AttachedClients, InsertedClients,
                Inserted, TypeOK
<1>6. OnList \subseteq Node
    BY DEF OnList, AttachedClients, Node
<1>7. ListShape'
    <2> SUFFICES ASSUME NEW m \in OnList'
                 PROVE  /\ flink'[m] \in OnList' /\ blink'[m] \in OnList'
                        /\ flink'[blink'[m]] = m /\ blink'[flink'[m]] = m
        BY DEF ListShape
    <2>0. m \in OnList /\ m # c
        BY <1>5
    <2>1. CASE m = p
        <3>1. p = n \/ (blink[p] \in OnList /\ blink[p] # c /\ blink[p] # p
                        /\ flink[blink[p]] = p)
            BY <1>0, <1>2, <1>3 DEF ListShape
        <3>2. QED
            BY <1>0, <1>2, <1>3, <1>4, <1>5, <1>6, <2>1, <3>1 DEF TypeOK
    <2>2. CASE m = n /\ m # p
        <3>1. /\ flink[n] \in OnList /\ flink[n] # c /\ flink[n] # n
              /\ blink[flink[n]] = n
            BY <1>0, <1>2, <1>3, <2>2 DEF ListShape
        <3>2. QED
            BY <1>0, <1>2, <1>3, <1>4, <1>5, <1>6, <2>2, <3>1 DEF TypeOK
    <2>3. CASE m \notin {p, n}
        <3>1. /\ flink[m] \in OnList /\ blink[m] \in OnList
              /\ flink[blink[m]] = m /\ blink[flink[m]] = m
            BY <1>0, <2>0 DEF ListShape
        <3>2. flink[m] # c /\ blink[m] # c /\ blink[m] # p /\ flink[m] # n
            BY <1>2, <2>0, <2>3, <3>1
        <3>3. QED
            BY <1>0, <1>2, <1>4, <1>5, <1>6, <2>0, <2>3, <3>1, <3>2 DEF TypeOK
    <2>4. QED
        BY <2>1, <2>2, <2>3
<1>8. StampsForward'
    <2> SUFFICES ASSUME NEW d \in InsertedClients, flink'[d] # Head
                 PROVE  stamp[d] < stamp[flink'[d]]
        BY <1>4, <1>5 DEF StampsForward
    <2>1. CASE d = p
        <3>1. stamp[p] < stamp[c]
            BY <1>0, <1>2, <1>1, <2>1 DEF StampsForward
        <3>2. n # Head /\ stamp[c] < stamp[n]
            BY <1>0, <1>1, <1>2, <1>4, <1>6, <2>1 DEF StampsForward, TypeOK,
                                                       InsertedClients, Node
        <3>3. flink'[d] = n
            BY <1>0, <1>4, <1>6, <1>2, <2>1 DEF TypeOK
        <3>4. stamp[p] \in Nat /\ stamp[c] \in Nat /\ stamp[n] \in Nat
            BY <1>0, <1>1, <3>2, <1>2, <2>1 DEF TypeOK, InsertedClients, OnList,
                                               AttachedClients
        <3>5. QED
            BY <2>1, <3>1, <3>2, <3>3, <3>4
    <2>2. CASE d # p
        BY <1>0, <1>4, <2>2 DEF StampsForward, TypeOK, InsertedClients, Node
    <2>3. QED
        BY <2>1, <2>2
<1>9. StampsIssued'
    BY <1>4, <1>5, <1>0 DEF StampsIssued
<1>10. QED
    BY <1>7, <1>8, <1>9 DEF WInv

LEMMA NextWInv == WInv /\ [Next]_vars => WInv'
<1> SUFFICES ASSUME WInv, [Next]_vars PROVE WInv'
    OBVIOUS
<1>0. IInv /\ IInv'
    BY NextIInv DEF WInv
<1>1. ASSUME NEW c \in Clients, AttachCallback(c) PROVE WInv'
    <2>1. \A d \in Clients : cstate'[d] \in {"attached", "queued", "draining", "freed"}
                              <=> cstate[d] \in {"attached", "queued", "draining", "freed"}
        BY <1>0, <1>1 DEF AttachCallback, IInv, TypeOK
    <2>2. AttachedClients' = AttachedClients /\ InsertedClients' = InsertedClients
        BY <1>0, <1>1, <2>1 DEF AttachCallback, AttachedClients,
                                InsertedClients, Inserted, IInv, TypeOK
    <2>3. QED
        BY <1>0, <1>1, <2>2, FrameWInv DEF AttachCallback
<1>2. ASSUME NEW c \in Clients, AttachInsert(c) PROVE WInv'
    BY <1>0, <1>2, InsertWInv
<1>3. ASSUME NEW c \in Clients, DetachClient(c) PROVE WInv'
    BY <1>0, <1>3, RemoveWInv
<1>4. ASSUME NEW c \in Clients, DetachWorkItemStart(c) PROVE WInv'
    <2>1. AttachedClients' = AttachedClients /\ InsertedClients' = InsertedClients
        BY <1>0, <1>4 DEF DetachWorkItemStart, AttachedClients,
                          InsertedClients, Inserted, IInv, TypeOK
    <2>2. QED
        BY <1>0, <1>4, <2>1, FrameWInv DEF DetachWorkItemStart
<1>5. ASSUME NEW c \in Clients, DetachClientComplete(c) PROVE WInv'
    <2>1. AttachedClients' = AttachedClients /\ InsertedClients' = InsertedClients
        BY <1>0, <1>5 DEF DetachClientComplete, AttachedClients,
                          InsertedClients, Inserted, IInv, TypeOK
    <2>2. QED
        BY <1>0, <1>5, <2>1, FrameWInv DEF DetachClientComplete
<1>6. ASSUME UNCHANGED <<flink, blink, cstate, stamp, nextStamp>> PROVE WInv'
    <2>1. AttachedClients' = AttachedClients /\ InsertedClients' = InsertedClients
        BY <1>6 DEF AttachedClients, InsertedClients
    <2>2. QED
        BY <1>0, <1>6, <2>1, FrameWInv
<1>7. QED
    BY <1>1, <1>2, <1>3, <1>4, <1>5, <1>6
    DEF Next, vars, GetNextAttachedClient, EnterRundown, LeaveRundown

LEMMA SpecWInv == Spec => []WInv
BY InitWInv, NextWInv, PTL DEF Spec

(***************************************************************************)
(* For any clients and hook threads, a walk never goes backwards: when    *)
(* get_next_attached_client(provider, client) returns the client after    *)
(* the one a hook thread holds, that client was inserted later, even if   *)
(* the held client was unlinked, and even freed, and its stale Flink was  *)
(* followed.  RemoveEntryList only ever shortcuts a Flink past the        *)
(* removed record, and InsertTailList only links the tail to a record     *)
(* with a fresh stamp.                                                     *)
(***************************************************************************)
THEOREM WalkForward == Spec => WalkFollowsAttachOrder
<1>1. WInv /\ [Next]_vars =>
        [\A i \in Invokers :
            (ipc[i] = "next" /\ ipc'[i] = "got") =>
                stamp[icur[i]] < stamp[icur'[i]]]_vars
    <2> SUFFICES ASSUME WInv, [Next]_vars, NEW i \in Invokers,
                        ipc[i] = "next", ipc'[i] = "got"
                 PROVE  stamp[icur[i]] < stamp[icur'[i]]
        OBVIOUS
    <2>0. IInv /\ TypeOK
        BY DEF WInv, IInv
    <2>1. PICK j \in Invokers : GetNextAttachedClient(j)
        BY <2>0 DEF Next, vars, AttachCallback, AttachInsert, DetachClient,
                    DetachWorkItemStart, DetachClientComplete, EnterRundown,
                    LeaveRundown, TypeOK
    <2>2. j = i
        BY <2>0, <2>1 DEF GetNextAttachedClient, TypeOK
    <2>3. icur'[i] = flink[icur[i]] /\ flink[icur[i]] # Head
        BY <2>0, <2>1, <2>2 DEF GetNextAttachedClient, TypeOK
    <2>4. icur[i] \in InsertedClients
        BY <2>0 DEF IInv, HeldInserted
    <2>5. QED
        BY <2>3, <2>4 DEF WInv, StampsForward
<1>2. QED
    BY <1>1, SpecWInv, PTL DEF Spec, WalkFollowsAttachOrder

(***************************************************************************)
(* For any clients and hook threads, InsertTailList and RemoveEntryList   *)
(* keep the provider's client list well linked: the Flink and Blink of    *)
(* the list head and of every attached client lead to the head or to an  *)
(* attached client, and each is the other's inverse.  No link of the list *)
(* reaches a client that was unlinked, however attaches and detaches     *)
(* interleave; only hook threads holding an unlinked client still see its *)
(* stale links.                                                             *)
(***************************************************************************)
THEOREM ListWellLinked == Spec => []ListShape
<1>1. WInv => ListShape
    BY DEF WInv
<1>2. QED
    BY <1>1, SpecWInv, PTL

=============================================================================
