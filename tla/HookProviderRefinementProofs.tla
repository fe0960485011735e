--------------------- MODULE HookProviderRefinementProofs ---------------------
(***************************************************************************)
(* Proof that HookProvider implements the safety part of                  *)
(* AbstractHookProvider under the mapping of HookProviderRefinement, when *)
(* NMR decides one attach at a time.  Every step of the code is a step of *)
(* the abstract provider or leaves the mapped state unchanged.            *)
(*                                                                         *)
(* The mapped list is ListSeq, the walk from the head read as a sequence. *)
(* Its k-th element is the attached client with exactly k attached        *)
(* clients at or below its stamp (its rank, from WalkRank), so the list  *)
(* after a step is found by ranking the clients in the new state:         *)
(* InsertTailList gives the new client the largest rank and leaves the   *)
(* others alone (Append), RemoveEntryList lowers by one the rank of the  *)
(* clients inserted after the removed one (RemoveAt).                     *)
(***************************************************************************)
EXTENDS HookProviderRefinement, HookProviderWalkProofs

(* Sequences under a name: its Head would clash with the list head.      *)
Seqs == INSTANCE Sequences

(* The number of attached clients at or below the stamp of n.             *)
Rank(n) == Cardinality(Below(n))

(* The list read as a sequence: the attached clients ordered by rank.     *)
ListFacts ==
    LET A == AttachedClients
        N == Cardinality(AttachedClients)
    IN /\ N \in Nat
       /\ WalkIndices = 1..N
       /\ ListSeq = [k \in 1..N |-> Walk[k]]
       /\ \A k \in 1..N : Walk[k] \in A /\ Rank(Walk[k]) = k
       /\ \A c \in A : Rank(c) \in 1..N

LEMMA RInvListFacts == RInv => ListFacts
<1> SUFFICES ASSUME RInv PROVE ListFacts
    OBVIOUS
<1> DEFINE A == AttachedClients
           N == Cardinality(A)
<1>0. /\ TypeOK /\ StampsPositive /\ ListIsAttachedInOrder
      /\ N \in Nat /\ IsFiniteSet(A) /\ \A n : IsFiniteSet(Below(n))
      /\ N <= Cardinality(Clients) /\ Cardinality(Clients) \in Nat
      /\ A \subseteq Clients /\ Head \notin Clients
      /\ \A k \in 0..N : Walk[k] \in OnList /\ Rank(Walk[k]) = k
    BY AttachedFinite, WalkRank, RInvInOrder, ConstantsAssumption,
       FS_CardinalityType DEF RInv, WInv, IInv, AttachedClients, Rank
<1>1. Rank(Head) = 0
    <2>1. Below(Head) = {}
        BY <1>0 DEF Below, StampOf, StampsPositive, TypeOK, AttachedClients
    <2>2. QED
        BY <2>1, FS_EmptySet DEF Rank
<1>2. \A k \in 1..N : Walk[k] \in A /\ Rank(Walk[k]) = k
    BY <1>0, <1>1 DEF OnList
<1>3. Listed = A /\ Walk[N + 1] = Head
    BY <1>0 DEF ListIsAttachedInOrder, AttachedClients
<1>4. WalkIndices = 1..N
    <2>1. ASSUME NEW k \in 1..N PROVE k \in WalkIndices
        <3>1. k \in 1..Cardinality(Clients)
            BY <1>0
        <3>2. \A j \in 1..k : Walk[j] \in Clients
            BY <1>0, <1>2
        <3>3. QED
            BY <3>1, <3>2 DEF WalkIndices
    <2>2. ASSUME NEW k \in WalkIndices PROVE k \in 1..N
        <3>1. SUFFICES ASSUME k > N PROVE FALSE
            BY <1>0 DEF WalkIndices
        <3>2. N + 1 \in 1..k
            BY <1>0, <3>1 DEF WalkIndices
        <3>3. QED
            BY <1>0, <1>3, <3>2 DEF WalkIndices
    <2>3. QED
        BY <2>1, <2>2
<1>5. ListSeq = [k \in 1..N |-> Walk[k]]
    <2>1. Cardinality(1..N) = N
        BY <1>0, FS_Interval
    <2>2. QED
        BY <1>4, <2>1 DEF ListSeq
<1>6. ASSUME NEW c \in A PROVE Rank(c) \in 1..N
    <2>1. c \in Below(c) /\ Below(c) \subseteq A
        BY <1>0 DEF Below, StampOf, AttachedClients, TypeOK
    <2>2. QED
        BY <1>0, <2>1, FS_Subset, FS_EmptySet, FS_CardinalityType DEF Rank
<1>7. QED
    BY <1>0, <1>2, <1>4, <1>5, <1>6 DEF ListFacts

(* A client inserted before another has fewer clients below it.            *)
LEMMA RankMonotone ==
    ASSUME RInv, NEW u \in AttachedClients, NEW v \in AttachedClients,
           stamp[u] < stamp[v]
    PROVE  Rank(u) < Rank(v)
<1>0. /\ \A d \in AttachedClients : stamp[d] \in Nat
      /\ \A n : IsFiniteSet(Below(n))
      /\ StampOf(u) = stamp[u] /\ StampOf(v) = stamp[v]
    BY AttachedFinite, ConstantsAssumption
    DEF RInv, WInv, IInv, TypeOK, AttachedClients, StampOf
<1>1. Below(u) \subseteq Below(v) \ {v} /\ v \in Below(v)
    BY <1>0 DEF Below
<1>2. /\ IsFiniteSet(Below(v) \ {v})
      /\ Cardinality(Below(v) \ {v}) = Cardinality(Below(v)) - 1
    BY <1>0, <1>1, FS_RemoveElement
<1>3. Cardinality(Below(u)) <= Cardinality(Below(v) \ {v})
    BY <1>1, <1>2, FS_Subset
<1>4. Cardinality(Below(v)) \in Nat /\ Cardinality(Below(u)) \in Nat
    BY <1>0, FS_CardinalityType
<1>5. QED
    BY <1>2, <1>3, <1>4 DEF Rank

(* The same facts as formulas without hypotheses, so that they can be     *)
(* used of the state after a step.                                          *)
LEMMA RankFacts ==
    RInv => /\ ListFacts
            /\ \A u, v \in AttachedClients : Rank(u) = Rank(v) => u = v
            /\ \A u, v \in AttachedClients :
                  stamp[u] < stamp[v] => Rank(u) < Rank(v)
            /\ \A k \in 1..Cardinality(AttachedClients) :
                  \A u \in AttachedClients : Rank(u) = k => u = Walk[k]
<1> SUFFICES ASSUME RInv
             PROVE  /\ ListFacts
                    /\ \A u, v \in AttachedClients : Rank(u) = Rank(v) => u = v
                    /\ \A u, v \in AttachedClients :
                          stamp[u] < stamp[v] => Rank(u) < Rank(v)
                    /\ \A k \in 1..Cardinality(AttachedClients) :
                          \A u \in AttachedClients : Rank(u) = k => u = Walk[k]
    OBVIOUS
<1>1. ListFacts
    BY RInvListFacts
<1>2. \A u, v \in AttachedClients : Rank(u) = Rank(v) => u = v
    BY RankInjective DEF Rank
<1>3. QED
    BY <1>1, <1>2, RankMonotone DEF ListFacts

LEMMA RankFactsNext ==
    RInv' => (/\ ListFacts
              /\ \A u, v \in AttachedClients : Rank(u) = Rank(v) => u = v
              /\ \A u, v \in AttachedClients :
                    stamp[u] < stamp[v] => Rank(u) < Rank(v)
              /\ \A k \in 1..Cardinality(AttachedClients) :
                    \A u \in AttachedClients : Rank(u) = k => u = Walk[k])'
BY RankFacts, PTL

(* Steps that keep every Flink keep the mapped list.                       *)
LEMMA ListSeqUnchanged ==
    ASSUME flink' = flink PROVE ListSeq' = ListSeq
BY DEF ListSeq, WalkIndices, Walk

(***************************************************************************)
(* InsertTailList appends: the new client has the largest stamp, so it    *)
(* ranks last and every other attached client keeps its rank.             *)
(***************************************************************************)
LEMMA InsertAppends ==
    ASSUME RInv, RInv', NEW c \in Clients, AttachInsert(c)
    PROVE  ListSeq' = Seqs!Append(ListSeq, c)
<1> DEFINE A == AttachedClients
           N == Cardinality(A)
<1>0. /\ ListFacts /\ ListFacts'
      /\ \A k \in 1..Cardinality(A') :
            \A u \in A' : (Rank(u))' = k => u = Walk'[k]
      /\ TypeOK /\ StampsIssued /\ IsFiniteSet(A)
    BY RankFacts, RankFactsNext, AttachedFinite DEF RInv, WInv, IInv
<1>1. /\ c \notin A /\ A' = A \cup {c} /\ A \subseteq Clients
      /\ Head \notin Clients /\ nextStamp \in Nat
      /\ stamp' = [stamp EXCEPT ![c] = nextStamp]
      /\ \A d \in A : stamp[d] \in Nat /\ stamp[d] < nextStamp
    BY <1>0, ConstantsAssumption
    DEF AttachInsert, AttachedClients, TypeOK, StampsIssued, InsertedClients,
        Inserted
<1>2. ASSUME NEW d \in A PROVE (Rank(d))' = Rank(d)
    <2>1. d # c /\ d # Head /\ stamp'[d] = stamp[d] /\ stamp'[c] = nextStamp
        BY <1>1, <1>0 DEF TypeOK
    <2>2. (StampOf(d))' = stamp[d] /\ StampOf(d) = stamp[d]
        BY <2>1 DEF StampOf
    <2>3. (Below(d))' = Below(d)
        BY <1>1, <2>1, <2>2 DEF Below
    <2>4. QED
        BY <2>3 DEF Rank
<1>3. (Rank(c))' = N + 1
    <2>1. c # Head /\ stamp'[c] = nextStamp
        BY <1>1, <1>0 DEF TypeOK
    <2>2. \A d \in A : stamp'[d] = stamp[d]
        BY <1>1, <1>0 DEF TypeOK
    <2>3. (StampOf(c))' = nextStamp
        BY <2>1 DEF StampOf
    <2>4. (Below(c))' = A \cup {c}
        BY <1>1, <2>1, <2>2, <2>3 DEF Below
    <2>5. Cardinality(A \cup {c}) = N + 1
        BY <1>0, <1>1, FS_AddElement
    <2>6. QED
        BY <2>4, <2>5 DEF Rank
<1>4. Cardinality(A') = N + 1
    BY <1>0, <1>1, FS_AddElement
<1>5. N \in Nat /\ ListSeq = [k \in 1..N |-> Walk[k]]
    BY <1>0 DEF ListFacts
<1>6. ListSeq' = [k \in 1..N + 1 |-> Walk'[k]]
    BY <1>0, <1>4 DEF ListFacts
<1>7. ASSUME NEW k \in 1..N PROVE Walk'[k] = Walk[k]
    <2>1. PICK w \in A : w = Walk[k] /\ Rank(w) = k
        BY <1>0 DEF ListFacts
    <2>2. w \in A' /\ (Rank(w))' = k
        BY <1>1, <1>2, <2>1
    <2>3. w = Walk'[k]
        BY <1>0, <1>4, <1>5, <2>2
    <2>4. QED
        BY <2>1, <2>3
<1>8. Walk'[N + 1] = c
    BY <1>0, <1>1, <1>3, <1>4, <1>5
<1>9. QED
    BY <1>5, <1>6, <1>7, <1>8

(***************************************************************************)
(* RemoveEntryList removes c from its place p, its rank: the clients      *)
(* inserted before c keep their ranks, those inserted after it move down *)
(* one.                                                                    *)
(***************************************************************************)
LEMMA RemoveRemovesAt ==
    ASSUME RInv, RInv', NEW c \in Clients, DetachClient(c)
    PROVE  \E p \in DOMAIN ListSeq :
              ListSeq[p] = c /\ ListSeq' = Abs!RemoveAt(ListSeq, p)
<1> DEFINE A == AttachedClients
           N == Cardinality(A)
           p == Rank(c)
<1>0. /\ ListFacts /\ ListFacts'
      /\ \A u, v \in A : stamp[u] < stamp[v] => Rank(u) < Rank(v)
      /\ \A k \in 1..N : \A u \in A : Rank(u) = k => u = Walk[k]
      /\ \A k \in 1..Cardinality(A') :
            \A u \in A' : (Rank(u))' = k => u = Walk'[k]
      /\ TypeOK /\ StampsDistinct /\ IsFiniteSet(A) /\ \A n : IsFiniteSet(Below(n))
    BY RankFacts, RankFactsNext, AttachedFinite DEF RInv, WInv, IInv
<1>1. /\ c \in A /\ A' = A \ {c} /\ A \subseteq Clients
      /\ Head \notin Clients /\ stamp' = stamp
      /\ \A d \in A : stamp[d] \in Nat
    BY <1>0, ConstantsAssumption
    DEF DetachClient, AttachedClients, TypeOK
<1>2. /\ N \in Nat /\ ListSeq = [k \in 1..N |-> Walk[k]]
      /\ p \in 1..N /\ Walk[p] = c
    BY <1>0, <1>1 DEF ListFacts
<1>3. Cardinality(A') = N - 1
    BY <1>0, <1>1, FS_RemoveElement
<1>4. ListSeq' = [k \in 1..N - 1 |-> Walk'[k]]
    BY <1>0, <1>3 DEF ListFacts
(* Every client left keeps the clients below it, less c.                  *)
<1>5. ASSUME NEW d \in A' PROVE (Below(d))' = Below(d) \ {c}
    <2>1. d # Head /\ (StampOf(d))' = StampOf(d)
        BY <1>1 DEF StampOf
    <2>2. QED
        BY <1>1, <2>1 DEF Below
<1>6. ASSUME NEW k \in 1..N - 1
      PROVE  Walk'[k] = IF k < p THEN Walk[k] ELSE Walk[k + 1]
    <2> DEFINE j == IF k < p THEN k ELSE k + 1
    <2>1. j \in 1..N /\ j # p
        BY <1>2
    <2>2. PICK w \in A : w = Walk[j] /\ Rank(w) = j
        BY <1>0, <2>1 DEF ListFacts
    <2>3. w # c /\ w \in A'
        BY <1>2, <2>1, <2>2, <1>1
    <2>4. stamp[w] # stamp[c] /\ StampOf(w) = stamp[w]
        BY <1>0, <1>1, <2>3 DEF StampsDistinct, StampOf
    <2>5. (Rank(w))' = k
        <3>1. CASE k < p
            <4>1. ~(stamp[c] < stamp[w])
                BY <1>0, <1>1, <1>2, <2>2, <3>1
            <4>2. c \notin Below(w)
                BY <1>1, <2>4, <4>1 DEF Below
            <4>3. (Below(w))' = Below(w)
                BY <1>5, <2>3, <4>2
            <4>4. QED
                BY <2>2, <3>1, <4>3 DEF Rank
        <3>2. CASE ~(k < p)
            <4>1. stamp[c] < stamp[w]
                BY <1>0, <1>1, <1>2, <2>2, <2>4, <3>2
            <4>2. c \in Below(w)
                BY <1>1, <2>4, <4>1 DEF Below
            <4>3. Cardinality(Below(w) \ {c}) = Cardinality(Below(w)) - 1
                BY <1>0, <4>2, FS_RemoveElement
            <4>4. QED
                BY <1>5, <2>2, <2>3, <3>2, <4>3 DEF Rank
        <3>3. QED
            BY <3>1, <3>2
    <2>6. w = Walk'[k]
        BY <1>0, <1>3, <2>3, <2>5
    <2>7. QED
        BY <2>2, <2>6
<1>7. QED
    <2>1. p \in DOMAIN ListSeq /\ ListSeq[p] = c
        BY <1>2
    <2>2. ListSeq' = Abs!RemoveAt(ListSeq, p)
        BY <1>2, <1>4, <1>6 DEF Abs!RemoveAt
    <2>3. QED
        BY <2>1, <2>2

-----------------------------------------------------------------------------
(* The initial state is the abstract initial state: empty list, every     *)
(* binding idle, no program running.                                      *)
LEMMA InitRefines == Init => Abs!AInit
<1> SUFFICES ASSUME Init PROVE Abs!AInit
    OBVIOUS
<1>1. ListFacts /\ AttachedClients = {}
    BY InitRInv, RInvListFacts DEF Init, AttachedClients
<1>2. ListSeq = << >>
    BY <1>1, FS_EmptySet DEF ListFacts
<1>3. Running = [i \in Invokers |-> Nil]
    BY DEF Init, Running
<1>4. QED
    BY <1>2, <1>3 DEF Init, Abs!AInit

(* A step that keeps the list, the binding states and what runs is an     *)
(* abstract stutter.                                                       *)
LEMMA StutterRefines ==
    ASSUME flink' = flink, cstate' = cstate, Running' = Running
    PROVE  [Abs!ANext]_Abs!avars
BY ListSeqUnchanged DEF Abs!avars

(***************************************************************************)
(* Every step of the code is a step of the abstract provider or an        *)
(* abstract stutter, in every state the code reaches.                     *)
(***************************************************************************)
LEMMA NextRefines ==
    ASSUME RInv, RInv', [Next]_vars
    PROVE  [Abs!ANext]_Abs!avars
<1>0. /\ TypeOK /\ HeldInserted /\ RefCountExact /\ ListFacts
      /\ Listed = AttachedClients
      /\ Nil \notin Node
    BY RInvListFacts, RInvInOrder, ConstantsAssumption
    DEF RInv, WInv, IInv, ListIsAttachedInOrder, AttachedClients
<1>1. Abs!Members(ListSeq) = Listed
    BY <1>0 DEF ListFacts, Abs!Members, Listed, AttachedClients
(* A binding step: the hook threads keep what they run.                   *)
<1>2. ASSUME ipc' = ipc, icur' = icur PROVE Running' = Running
    BY <1>2 DEF Running
<1>3. ASSUME NEW c \in Clients, AttachCallback(c) PROVE [Abs!ANext]_Abs!avars
    <2>1. ListSeq' = ListSeq /\ Running' = Running
        BY <1>2, <1>3, ListSeqUnchanged DEF AttachCallback
    <2>2. ASSUME CheckAttachParameter(c)
          PROVE  Abs!Compatible(c, Abs!Members(ListSeq))
        <3>1. Abs!Members(ListSeq) = Listed /\ Listed \subseteq Clients
            BY <1>0, <1>1 DEF AttachedClients
        <3>2. QED
            BY <2>2, <3>1 DEF CheckAttachParameter, Abs!Compatible
    <2>3. Abs!Decide(c)
        BY <1>3, <2>1, <2>2 DEF AttachCallback, Abs!Decide
    <2>4. QED
        BY <2>3 DEF Abs!ANext
<1>4. ASSUME NEW c \in Clients, AttachInsert(c) PROVE [Abs!ANext]_Abs!avars
    <2>1. ListSeq' = Seqs!Append(ListSeq, c) /\ Running' = Running
        BY <1>2, <1>4, InsertAppends DEF AttachInsert
    <2>2. Abs!Link(c)
        BY <1>4, <2>1 DEF AttachInsert, Abs!Link
    <2>3. QED
        BY <2>2 DEF Abs!ANext
<1>5. ASSUME NEW c \in Clients, DetachClient(c) PROVE [Abs!ANext]_Abs!avars
    <2>1. Running' = Running
        BY <1>2, <1>5 DEF DetachClient
    <2>2. Abs!Unlink(c)
        BY <1>5, <2>1, RemoveRemovesAt DEF DetachClient, Abs!Unlink
    <2>3. QED
        BY <2>2 DEF Abs!ANext
<1>6. ASSUME NEW c \in Clients, DetachWorkItemStart(c)
      PROVE  [Abs!ANext]_Abs!avars
    <2>1. ListSeq' = ListSeq /\ Running' = Running
        BY <1>2, <1>6, ListSeqUnchanged DEF DetachWorkItemStart
    <2>2. Abs!BeginDrain(c)
        BY <1>6, <2>1 DEF DetachWorkItemStart, Abs!BeginDrain
    <2>3. QED
        BY <2>2 DEF Abs!ANext
(* The rundown wait returned: no hook thread is inside c's program.       *)
<1>7. ASSUME NEW c \in Clients, DetachClientComplete(c)
      PROVE  [Abs!ANext]_Abs!avars
    <2>1. ListSeq' = ListSeq /\ Running' = Running
        BY <1>2, <1>7, ListSeqUnchanged DEF DetachClientComplete
    <2>2. Holders(c) = {}
        <3>1. Cardinality(Holders(c)) = 0
            BY <1>0, <1>7 DEF DetachClientComplete, RefCountExact
        <3>2. QED
            BY <3>1, HoldersFinite, FS_EmptySet
    <2>3. \A i \in Invokers : Running[i] # c
        BY <1>0, <2>2 DEF Running, Holders, Node
    <2>4. Abs!Complete(c)
        BY <1>7, <2>1, <2>3 DEF DetachClientComplete, Abs!Complete
    <2>5. QED
        BY <2>4 DEF Abs!ANext
(* A walk step neither starts nor ends a program.                         *)
<1>8. ASSUME NEW i \in Invokers, GetNextAttachedClient(i)
      PROVE  [Abs!ANext]_Abs!avars
    <2>1. Running' = Running
        BY <1>0, <1>8 DEF GetNextAttachedClient, Running, TypeOK
    <2>2. QED
        BY <1>8, <2>1, StutterRefines DEF GetNextAttachedClient
<1>9. ASSUME NEW i \in Invokers, EnterRundown(i) PROVE [Abs!ANext]_Abs!avars
    <2> DEFINE c == icur[i]
    <2>1. c \in InsertedClients /\ Running[i] = Nil
        BY <1>0, <1>9 DEF EnterRundown, HeldInserted, Running
    <2>2. CASE RundownActive(c)
        <3>1. Running' = Running
            BY <1>0, <1>9, <2>2 DEF EnterRundown, Running, TypeOK
        <3>2. QED
            BY <1>9, <3>1, StutterRefines DEF EnterRundown
    <2>3. CASE ~RundownActive(c)
        <3>1. cstate[c] \in {"attached", "queued"}
            BY <2>1, <2>3 DEF InsertedClients, Inserted, RundownActive
        <3>2. Running' = [Running EXCEPT ![i] = c]
            BY <1>0, <1>9, <2>3 DEF EnterRundown, Running, TypeOK
        <3>3. ListSeq' = ListSeq
            BY <1>9, ListSeqUnchanged DEF EnterRundown
        <3>4. Abs!StartInvoke(i, c)
            BY <1>9, <2>1, <3>1, <3>2, <3>3 DEF EnterRundown, Abs!StartInvoke
        <3>5. c \in Clients
            BY <2>1 DEF InsertedClients
        <3>6. QED
            BY <3>4, <3>5 DEF Abs!ANext
    <2>4. QED
        BY <2>2, <2>3
<1>10. ASSUME NEW i \in Invokers, LeaveRundown(i) PROVE [Abs!ANext]_Abs!avars
    <2>1. icur[i] \in Clients /\ Running[i] = icur[i] /\ icur[i] # Nil
        BY <1>0, <1>10 DEF LeaveRundown, HeldInserted, InsertedClients,
                           Running, Node
    <2>2. Running' = [Running EXCEPT ![i] = Nil]
        BY <1>0, <1>10 DEF LeaveRundown, Running, TypeOK
    <2>3. ListSeq' = ListSeq
        BY <1>10, ListSeqUnchanged DEF LeaveRundown
    <2>4. Abs!EndInvoke(i)
        BY <1>10, <2>1, <2>2, <2>3 DEF LeaveRundown, Abs!EndInvoke
    <2>5. QED
        BY <2>4 DEF Abs!ANext
<1>11. CASE UNCHANGED vars
    <2>1. Running' = Running
        BY <1>11, <1>2 DEF vars
    <2>2. QED
        BY <1>11, <2>1, StutterRefines DEF vars
<1>12. QED
    BY <1>3, <1>4, <1>5, <1>6, <1>7, <1>8, <1>9, <1>10, <1>11 DEF Next

(***************************************************************************)
(* For any clients and hook threads, with attaches decided concurrently  *)
(* as NMR allows, the code implements the safety part of the abstract     *)
(* provider (spec sections 3, 4 and 8): attach_client appends an accepted *)
(* client at the tail of the list the hook threads walk, its check is the *)
(* exclusivity rule against exactly the clients attached when it runs,    *)
(* detach_client removes the client and keeps the order of the others, a  *)
(* hook thread runs only a program whose client is attached or unlinked  *)
(* but not yet draining, and the detach completes only when no program of *)
(* the client runs.  The fairness of the abstract provider is checked by  *)
(* TLC only.                                                               *)
(***************************************************************************)
THEOREM RefinementSafety ==
    Spec => Abs!AInit /\ [][Abs!ANext]_Abs!avars
<1>1. RInv /\ RInv' /\ [Next]_vars => [Abs!ANext]_Abs!avars
    BY NextRefines
<1>2. QED
    BY <1>1, InitRefines, SpecRInv, PTL DEF Spec

=============================================================================
