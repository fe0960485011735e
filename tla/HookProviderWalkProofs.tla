------------------------ MODULE HookProviderWalkProofs ------------------------
(***************************************************************************)
(* Proofs about what the walk of get_next_attached_client and of          *)
(* ebpf_extension_hook_check_attach_parameter sees: from the head, Flink  *)
(* by Flink, every attached client once, in attach order, then the head. *)
(* The invariant behind it is local: every listed node's Flink is the     *)
(* attached client with the next larger insertion stamp, or the head if   *)
(* there is none.  What the walk computes then follows by induction over *)
(* the number of steps, done as a least counterexample (WFMin).           *)
(***************************************************************************)
EXTENDS HookProviderListProofs, NaturalsInduction, WellFoundedInduction

(* The head sorts before every client.                                     *)
StampOf(n) == IF n = Head THEN 0 ELSE stamp[n]

(* Each listed node links to the attached client with the next larger     *)
(* stamp; the node with the largest stamp links back to the head.          *)
SortedAt(n) ==
    IF flink[n] = Head
    THEN \A d \in AttachedClients : stamp[d] <= StampOf(n)
    ELSE /\ StampOf(n) < stamp[flink[n]]
         /\ \A d \in AttachedClients :
               StampOf(n) < stamp[d] => stamp[flink[n]] <= stamp[d]

SortedRing == \A n \in OnList : SortedAt(n)

StampsDistinct ==
    \A c, d \in AttachedClients : c # d => stamp[c] # stamp[d]

StampsPositive == \A c \in AttachedClients : stamp[c] > 0

RInv == WInv /\ SortedRing /\ StampsDistinct /\ StampsPositive

LEMMA InitRInv == Init => RInv
<1> SUFFICES ASSUME Init PROVE RInv
    OBVIOUS
<1>1. WInv
    BY InitWInv
<1>2. AttachedClients = {}
    BY DEF Init, AttachedClients
<1>3. QED
    BY <1>1, <1>2 DEF Init, Node, RInv, SortedRing, SortedAt, OnList, StampsDistinct,
                      StampsPositive

(* A step that moves no link, issues no stamp and attaches or unlinks no  *)
(* client keeps the order.                                                 *)
LEMMA FrameRInv ==
    ASSUME RInv, WInv',
           UNCHANGED <<flink, stamp>>,
           AttachedClients' = AttachedClients
    PROVE  RInv'
BY DEF RInv, SortedRing, SortedAt, StampOf, OnList, StampsDistinct, StampsPositive

(* InsertTailList(c): the old tail had the largest stamp and c gets a     *)
(* larger one, so c goes between the tail and the head.                   *)
LEMMA InsertRInv ==
    ASSUME RInv, WInv', NEW c \in Clients, AttachInsert(c)
    PROVE  RInv'
<1> DEFINE t == blink[Head]
           A == AttachedClients
<1>0. TypeOK /\ ListShape /\ SortedRing /\ StampsDistinct /\ StampsPositive
      /\ StampsIssued
    BY DEF RInv, WInv, IInv
<1>1. c \notin OnList /\ c # Head /\ c \in Node
    BY ConstantsAssumption DEF AttachInsert, OnList, AttachedClients, Node
<1>2. t \in OnList /\ flink[t] = Head
    BY <1>0 DEF ListShape, OnList
<1>3. /\ flink' = [flink EXCEPT ![c] = Head, ![t] = c]
      /\ stamp' = [stamp EXCEPT ![c] = nextStamp]
    BY DEF AttachInsert, InsertTailList
<1>4. /\ A' = A \cup {c} /\ OnList' = OnList \cup {c}
      /\ A \subseteq InsertedClients
    BY <1>0 DEF AttachInsert, OnList, AttachedClients, InsertedClients,
                Inserted, TypeOK
<1>5. /\ \A d \in A : stamp'[d] = stamp[d] /\ stamp[d] \in Nat
      /\ stamp'[c] = nextStamp /\ nextStamp \in Nat \ {0}
      /\ \A d \in A : stamp[d] < nextStamp
    BY <1>0, <1>1, <1>3, <1>4 DEF TypeOK, StampsIssued, OnList, AttachedClients
<1>6. \A n \in OnList : StampOf(n) \in Nat /\ (StampOf(n))' = StampOf(n)
    BY <1>0, <1>1, <1>5 DEF StampOf, OnList, TypeOK
(* The tail has the largest stamp.                                         *)
<1>7. \A d \in A : stamp[d] <= StampOf(t)
    BY <1>0, <1>2 DEF SortedRing, SortedAt
<1>8. OnList \subseteq Node
    BY DEF OnList, AttachedClients, Node
<1>9. SortedRing'
    <2> SUFFICES ASSUME NEW n \in OnList' PROVE SortedAt(n)'
        BY DEF SortedRing
    <2>1. CASE n = c
        <3>1. flink'[c] = Head /\ (StampOf(c))' = nextStamp
            BY <1>0, <1>1, <1>3, <1>5, <1>8, <1>2 DEF TypeOK, StampOf
        <3>2. QED
            BY <2>1, <3>1, <1>4, <1>5 DEF SortedAt
    <2>2. CASE n = t
        <3>1. flink'[t] = c /\ c # Head
            BY <1>0, <1>1, <1>3, <1>8, <1>2 DEF TypeOK
        <3>2. StampOf(t) < nextStamp
            BY <1>2, <1>5 DEF StampOf, OnList
        <3>3. QED
            BY <2>2, <3>1, <3>2, <1>2, <1>4, <1>5, <1>6, <1>7 DEF SortedAt
    <2>3. CASE n \notin {c, t}
        <3>1. n \in OnList /\ flink'[n] = flink[n]
            BY <1>0, <1>3, <1>4, <1>8, <2>3 DEF TypeOK
        <3>2. flink[n] # Head
            BY <1>0, <3>1, <2>3 DEF ListShape
        <3>3. flink[n] \in A
            BY <1>0, <3>1, <3>2 DEF ListShape, OnList
        <3>4. /\ StampOf(n) < stamp[flink[n]]
              /\ \A d \in A : StampOf(n) < stamp[d] => stamp[flink[n]] <= stamp[d]
            BY <1>0, <3>1, <3>2 DEF SortedRing, SortedAt
        <3>5. QED
            BY <3>1, <3>2, <3>3, <3>4, <1>4, <1>5, <1>6 DEF SortedAt
    <2>4. QED
        BY <2>1, <2>2, <2>3
<1>10. StampsDistinct' /\ StampsPositive'
    BY <1>0, <1>4, <1>5 DEF StampsDistinct, StampsPositive
<1>11. QED
    BY <1>9, <1>10 DEF RInv

(* RemoveEntryList(c): c's predecessor now links to c's successor, which  *)
(* is the next larger stamp once c is gone.                                *)
LEMMA RemoveRInv ==
    ASSUME RInv, WInv', NEW c \in Clients, DetachClient(c)
    PROVE  RInv'
<1> DEFINE p == blink[c]
           q == flink[c]
           A == AttachedClients
<1>0. TypeOK /\ ListShape /\ SortedRing /\ StampsDistinct /\ StampsPositive
    BY DEF RInv, WInv, IInv
<1>1. c \in OnList /\ c \in A /\ c # Head
    BY ConstantsAssumption DEF DetachClient, OnList, AttachedClients
<1>2. p \in OnList /\ flink[p] = c /\ q \in OnList
    BY <1>0, <1>1 DEF ListShape
<1>3. /\ flink' = [flink EXCEPT ![p] = q]
      /\ stamp' = stamp
    BY DEF DetachClient, RemoveEntryList
<1>4. A' = A \ {c} /\ OnList' = OnList \ {c}
    BY <1>0, ConstantsAssumption DEF DetachClient, OnList, AttachedClients, TypeOK
<1>5. /\ OnList \subseteq Node
      /\ \A m \in OnList : StampOf(m) \in Nat /\ (StampOf(m))' = StampOf(m)
      /\ \A d \in A : stamp[d] \in Nat
    BY <1>0, <1>3 DEF OnList, AttachedClients, Node, StampOf, TypeOK
(* What the order said of c's predecessor and of c.                       *)
<1>6. /\ StampOf(p) < stamp[c]
      /\ \A d \in A : StampOf(p) < stamp[d] => stamp[c] <= stamp[d]
    BY <1>0, <1>1, <1>2 DEF SortedRing, SortedAt
<1>7. SortedAt(c)
    BY <1>0, <1>1 DEF SortedRing
<1>8. \A d \in A \ {c} : StampOf(p) < stamp[d] => stamp[c] < stamp[d]
    BY <1>0, <1>1, <1>5, <1>6 DEF StampsDistinct
<1>9. SortedRing'
    <2> SUFFICES ASSUME NEW m \in OnList' PROVE SortedAt(m)'
        BY DEF SortedRing
    <2>0. m \in OnList /\ m # c
        BY <1>4
    <2>1. CASE m = p
        <3>1. flink'[p] = q
            BY <1>0, <1>2, <1>3, <1>5 DEF TypeOK
        <3>2. CASE q = Head
            <4>1. \A d \in A : stamp[d] <= stamp[c]
                BY <1>7, <3>2, <1>1 DEF SortedAt, StampOf
            <4>2. \A d \in A \ {c} : stamp[d] <= StampOf(p)
                BY <4>1, <1>8, <1>5, <1>1, <1>2
            <4>3. QED
                BY <2>1, <3>1, <3>2, <4>2, <1>3, <1>4, <1>5, <2>0 DEF SortedAt
        <3>3. CASE q # Head
            <4>1. /\ stamp[c] < stamp[q]
                  /\ \A d \in A : stamp[c] < stamp[d] => stamp[q] <= stamp[d]
                BY <1>7, <3>3, <1>1 DEF SortedAt, StampOf
            <4>2. q \in A
                BY <1>2, <3>3 DEF OnList
            <4>3. StampOf(p) \in Nat /\ stamp[c] \in Nat /\ stamp[q] \in Nat
                BY <1>1, <1>2, <1>5, <4>2
            <4>4. /\ StampOf(p) < stamp[q]
                  /\ \A d \in A \ {c} : StampOf(p) < stamp[d] => stamp[q] <= stamp[d]
                BY <1>5, <1>6, <1>8, <4>1, <4>3
            <4>5. QED
                BY <2>1, <3>1, <3>3, <4>4, <1>2, <1>3, <1>4, <1>5
                DEF SortedAt
        <3>4. QED
            BY <3>2, <3>3
    <2>2. CASE m # p
        <3>1. flink'[m] = flink[m]
            BY <1>0, <1>3, <1>5, <2>0, <2>2 DEF TypeOK
        <3>2. flink[m] # c
            BY <1>0, <2>0, <2>2 DEF ListShape
        <3>3. flink[m] \in OnList /\ (flink[m] # Head => flink[m] \in A)
            BY <1>0, <2>0 DEF ListShape, OnList
        <3>4. SortedAt(m)
            BY <1>0, <2>0 DEF SortedRing
        <3>5. QED
            BY <3>1, <3>2, <3>3, <3>4, <1>3, <1>4, <1>5, <2>0 DEF SortedAt
    <2>3. QED
        BY <2>1, <2>2
<1>10. StampsDistinct' /\ StampsPositive'
    BY <1>0, <1>3, <1>4 DEF StampsDistinct, StampsPositive
<1>11. QED
    BY <1>9, <1>10 DEF RInv

LEMMA NextRInv == RInv /\ [Next]_vars => RInv'
<1> SUFFICES ASSUME RInv, [Next]_vars PROVE RInv'
    OBVIOUS
<1>0. WInv' /\ TypeOK
    BY NextWInv DEF RInv, WInv, IInv
(* The steps other than the insert and the unlink keep the links, the     *)
(* stamps and the attached clients.                                        *)
<1>1. ASSUME UNCHANGED <<flink, stamp>>,
             \A d \in Clients : cstate'[d] = "attached" <=> cstate[d] = "attached"
      PROVE  RInv'
    <2>1. AttachedClients' = AttachedClients
        BY <1>1 DEF AttachedClients
    <2>2. QED
        BY <1>0, <1>1, <2>1, FrameRInv
<1>2. ASSUME NEW c \in Clients, AttachCallback(c) PROVE RInv'
    BY <1>0, <1>1, <1>2 DEF AttachCallback, TypeOK
<1>3. ASSUME NEW c \in Clients, AttachInsert(c) PROVE RInv'
    BY <1>0, <1>3, InsertRInv
<1>4. ASSUME NEW c \in Clients, DetachClient(c) PROVE RInv'
    BY <1>0, <1>4, RemoveRInv
<1>5. ASSUME NEW c \in Clients, DetachWorkItemStart(c) PROVE RInv'
    BY <1>0, <1>1, <1>5 DEF DetachWorkItemStart, TypeOK
<1>6. ASSUME NEW c \in Clients, DetachClientComplete(c) PROVE RInv'
    BY <1>0, <1>1, <1>6 DEF DetachClientComplete, TypeOK
<1>7. QED
    BY <1>1, <1>2, <1>3, <1>4, <1>5, <1>6
    DEF Next, vars, GetNextAttachedClient, EnterRundown, LeaveRundown

LEMMA SpecRInv == Spec => []RInv
BY InitRInv, NextRInv, PTL DEF Spec

-----------------------------------------------------------------------------
(* Walk, the recursive function of HookProvider, satisfies its defining   *)
(* equation.                                                               *)
LEMMA WalkDef ==
    \A k \in Nat : Walk[k] = IF k = 0 THEN Head
                             ELSE IF Walk[k - 1] \in Node THEN flink[Walk[k - 1]]
                                  ELSE Nil
<1> DEFINE Step(v, k) == IF v \in Node THEN flink[v] ELSE Nil
<1>1. NatInductiveDefHypothesis(Walk, Head, Step)
    BY DEF NatInductiveDefHypothesis, Walk
<1>2. NatInductiveDefConclusion(Walk, Head, Step)
    BY <1>1, NatInductiveDef
<1>3. QED
    BY <1>2 DEF NatInductiveDefConclusion

(* A nonempty set of naturals has a least element: induction as a least   *)
(* counterexample.                                                          *)
LEMMA NatLeast ==
    ASSUME NEW T \in SUBSET Nat, T # {}
    PROVE  \E m \in T : \A j \in T : ~(j < m)
<1>1. \E x \in T : \A y \in T : ~(<<y, x>> \in OpToRel(<, Nat))
    BY NatLessThanWellFounded, WFMin
<1>2. QED
    BY <1>1 DEF OpToRel

(* The attached clients whose stamp is at most that of node n.            *)
Below(n) == {d \in AttachedClients : stamp[d] <= StampOf(n)}

LEMMA AttachedFinite ==
    /\ IsFiniteSet(AttachedClients)
    /\ Cardinality(AttachedClients) \in Nat
    /\ Cardinality(AttachedClients) <= Cardinality(Clients)
    /\ \A n : IsFiniteSet(Below(n))
<1>1. AttachedClients \subseteq Clients
    BY DEF AttachedClients
<1>2. \A n : Below(n) \subseteq AttachedClients
    BY DEF Below
<1>3. QED
    BY <1>1, <1>2, ConstantsAssumption, FS_Subset, FS_CardinalityType

(* The k-th node of the walk has exactly k attached clients at or below   *)
(* its stamp, for every k up to the number of attached clients.           *)
LEMMA WalkRank ==
    ASSUME RInv
    PROVE  \A k \in 0..Cardinality(AttachedClients) :
              Walk[k] \in OnList /\ Cardinality(Below(Walk[k])) = k
<1> DEFINE A == AttachedClients
           N == Cardinality(A)
           Good(k) == Walk[k] \in OnList /\ Cardinality(Below(Walk[k])) = k
           T == {k \in 0..N : ~Good(k)}
<1>0. /\ TypeOK /\ ListShape /\ SortedRing /\ StampsDistinct /\ StampsPositive
      /\ N \in Nat /\ IsFiniteSet(A) /\ \A n : IsFiniteSet(Below(n))
      /\ \A d \in A : stamp[d] \in Nat
      /\ \A n \in OnList : StampOf(n) \in Nat
      /\ OnList \subseteq Node
    BY AttachedFinite DEF RInv, WInv, IInv, TypeOK, AttachedClients, OnList,
                          StampOf, Node
<1> SUFFICES ASSUME T # {} PROVE FALSE
    OBVIOUS
<1>1. PICK m \in T : \A j \in T : ~(j < m)
    <2>1. T \in SUBSET Nat
        BY <1>0
    <2>2. QED
        BY <2>1, NatLeast
<1>2. CASE m = 0
    <2>1. Walk[0] = Head /\ Head \in OnList
        BY WalkDef DEF OnList
    <2>2. Below(Head) = {}
        BY <1>0 DEF Below, StampOf, StampsPositive
    <2>3. QED
        BY <1>1, <1>2, <2>1, <2>2, FS_EmptySet
<1>3. CASE m # 0
    <2> DEFINE x == Walk[m - 1]
               y == flink[x]
    <2>1. m - 1 \in 0..N /\ Good(m - 1)
        BY <1>0, <1>1, <1>3
    <2>2. Walk[m] = y
        BY <2>1, <1>0, WalkDef
    <2>3. Below(x) \subseteq A /\ Below(x) # A
        BY <2>1, <1>1, <1>0, FS_Subset DEF Below
    <2>4. PICK d \in A : StampOf(x) < stamp[d]
        BY <2>1, <2>3, <1>0 DEF Below
    <2>5. SortedAt(x)
        BY <2>1, <1>0 DEF SortedRing
    <2>6. y # Head /\ y \in A
        BY <2>1, <2>4, <2>5, <1>0 DEF SortedAt, ListShape, OnList
    <2>7. /\ StampOf(x) < stamp[y]
          /\ \A e \in A : StampOf(x) < stamp[e] => stamp[y] <= stamp[e]
        BY <2>5, <2>6 DEF SortedAt
    <2>8. Below(y) = Below(x) \cup {y} /\ y \notin Below(x)
        BY <2>1, <2>6, <2>7, <1>0 DEF Below, StampOf, StampsDistinct
    <2>9. Cardinality(Below(y)) = m
        <3>1. IsFiniteSet(Below(x)) /\ Cardinality(Below(x)) = m - 1
            BY <2>1, <1>0
        <3>2. Cardinality(Below(x) \cup {y}) = Cardinality(Below(x)) + 1
            BY <3>1, <2>8, FS_AddElement
        <3>3. QED
            BY <3>1, <3>2, <2>8, <1>1, <1>0
    <2>10. Good(m)
        BY <2>2, <2>6, <2>9 DEF OnList
    <2>11. QED
        BY <1>1, <2>10
<1>4. QED
    BY <1>2, <1>3

(* Two attached clients with as many attached clients at or below their   *)
(* stamps are the same client.                                             *)
LEMMA RankInjective ==
    ASSUME RInv, NEW c \in AttachedClients, NEW w \in AttachedClients,
           Cardinality(Below(c)) = Cardinality(Below(w))
    PROVE  c = w
<1>0. /\ StampsDistinct /\ \A d \in AttachedClients : stamp[d] \in Nat
      /\ \A n : IsFiniteSet(Below(n))
      /\ StampOf(c) = stamp[c] /\ StampOf(w) = stamp[w]
    BY AttachedFinite, ConstantsAssumption
    DEF RInv, WInv, IInv, TypeOK, AttachedClients, StampOf
(* A client strictly below another has fewer clients below it.            *)
<1>1. ASSUME NEW u \in AttachedClients, NEW v \in AttachedClients,
             stamp[u] < stamp[v]
      PROVE  Cardinality(Below(u)) < Cardinality(Below(v))
    <2>1. StampOf(u) = stamp[u] /\ StampOf(v) = stamp[v]
        BY ConstantsAssumption DEF StampOf, AttachedClients
    <2>2. Below(u) \subseteq Below(v) \ {v} /\ v \in Below(v)
        BY <1>0, <1>1, <2>1 DEF Below
    <2>3. /\ IsFiniteSet(Below(v) \ {v})
          /\ Cardinality(Below(v) \ {v}) = Cardinality(Below(v)) - 1
        BY <1>0, <2>2, FS_RemoveElement
    <2>4. Cardinality(Below(u)) <= Cardinality(Below(v) \ {v})
        BY <2>2, <2>3, FS_Subset
    <2>5. Cardinality(Below(v)) \in Nat /\ Cardinality(Below(u)) \in Nat
        BY <1>0, FS_CardinalityType
    <2>6. QED
        BY <2>3, <2>4, <2>5
<1>2. SUFFICES ASSUME c # w PROVE FALSE
    OBVIOUS
<1>3. stamp[c] # stamp[w] /\ stamp[c] \in Nat /\ stamp[w] \in Nat
    BY <1>0, <1>2 DEF StampsDistinct
<1>4. CASE stamp[c] < stamp[w]
    <2>1. Cardinality(Below(c)) < Cardinality(Below(w))
        BY <1>1, <1>4
    <2>2. QED
        BY <2>1, <1>0, FS_CardinalityType
<1>5. CASE stamp[w] < stamp[c]
    <2>1. Cardinality(Below(w)) < Cardinality(Below(c))
        BY <1>1, <1>5
    <2>2. QED
        BY <2>1, <1>0, FS_CardinalityType
<1>6. QED
    BY <1>3, <1>4, <1>5

(***************************************************************************)
(* The invariant gives the list property: the walk from the head meets     *)
(* the attached clients, each once, in increasing stamp order, and after *)
(* the last of them comes back to the head.                                *)
(***************************************************************************)
LEMMA RInvInOrder == RInv => ListIsAttachedInOrder
<1> SUFFICES ASSUME RInv PROVE ListIsAttachedInOrder
    OBVIOUS
<1> DEFINE A == AttachedClients
           N == Cardinality(A)
<1>0. /\ TypeOK /\ ListShape /\ SortedRing /\ StampsPositive
      /\ N \in Nat /\ IsFiniteSet(A) /\ \A n : IsFiniteSet(Below(n))
      /\ N <= Cardinality(Clients)
      /\ \A d \in A : stamp[d] \in Nat
      /\ \A n \in OnList : StampOf(n) \in Nat
      /\ OnList \subseteq Node /\ A \subseteq Clients /\ Head \notin Clients
      /\ \A k \in 0..N : Walk[k] \in OnList /\ Cardinality(Below(Walk[k])) = k
    BY AttachedFinite, WalkRank, ConstantsAssumption
    DEF RInv, WInv, IInv, TypeOK, AttachedClients, OnList, StampOf, Node
<1>1. Below(Head) = {}
    BY <1>0 DEF Below, StampOf, StampsPositive
<1>2. \A k \in 1..N : Walk[k] \in A
    BY <1>0, <1>1, FS_EmptySet DEF OnList
(* After the client with the largest stamp the walk is back at the head.  *)
<1>3. flink[Walk[N]] = Head /\ Walk[N + 1] = Head
    <2> DEFINE x == Walk[N]
    <2>1. Below(x) = A
        <3>1. Below(x) \subseteq A /\ Cardinality(Below(x)) = N
            BY <1>0 DEF Below
        <3>2. QED
            BY <1>0, <3>1, FS_Subset
    <2>2. SortedAt(x) /\ x \in OnList
        BY <1>0 DEF SortedRing
    <2>3. flink[x] = Head
        <3>1. SUFFICES ASSUME flink[x] # Head PROVE FALSE
            OBVIOUS
        <3>2. flink[x] \in A
            BY <1>0, <2>2, <3>1 DEF ListShape, OnList
        <3>3. stamp[flink[x]] <= StampOf(x)
            BY <2>1, <3>2 DEF Below
        <3>4. QED
            BY <1>0, <2>2, <3>1, <3>2, <3>3 DEF SortedAt
    <2>4. Walk[N + 1] = IF Walk[N] \in Node THEN flink[Walk[N]] ELSE Nil
        BY <1>0, WalkDef
    <2>5. QED
        BY <1>0, <2>2, <2>3, <2>4
<1>4. WalkIndices = 1..N
    <2>1. ASSUME NEW k \in 1..N PROVE k \in WalkIndices
        <3>1. k \in 1..Cardinality(Clients)
            BY <1>0, ConstantsAssumption, FS_CardinalityType
        <3>2. \A j \in 1..k : Walk[j] \in Clients
            BY <1>0, <1>2
        <3>3. QED
            BY <3>1, <3>2 DEF WalkIndices
    <2>2. ASSUME NEW k \in WalkIndices PROVE k \in 1..N
        <3>1. SUFFICES ASSUME k > N PROVE FALSE
            BY <1>0 DEF WalkIndices
        <3>2. N + 1 \in 1..k /\ k \in 1..Cardinality(Clients)
            BY <1>0, <3>1 DEF WalkIndices
        <3>3. QED
            BY <1>0, <1>3, <3>2 DEF WalkIndices
    <2>3. QED
        BY <2>1, <2>2
<1>5. Listed = A
    <2>1. Listed \subseteq A
        BY <1>2, <1>4 DEF Listed
    <2>2. ASSUME NEW c \in A PROVE c \in Listed
        <3> DEFINE r == Cardinality(Below(c))
        <3>1. c \in Below(c) /\ Below(c) \subseteq A
            BY <1>0 DEF Below, StampOf
        <3>2. r \in 1..N
            BY <1>0, <3>1, FS_Subset, FS_EmptySet, FS_CardinalityType
        <3>3. Walk[r] \in A /\ Cardinality(Below(Walk[r])) = r
            BY <1>0, <1>2, <3>2
        <3>4. Walk[r] = c
            BY <3>3, RankInjective
        <3>5. QED
            BY <1>4, <3>2, <3>4 DEF Listed
    <2>3. QED
        BY <2>1, <2>2
<1>6. \A k \in 1..N :
          /\ blink[Walk[k]] = Walk[k - 1]
          /\ k > 1 => stamp[Walk[k - 1]] < stamp[Walk[k]]
    <2> SUFFICES ASSUME NEW k \in 1..N
                 PROVE  /\ blink[Walk[k]] = Walk[k - 1]
                        /\ k > 1 => stamp[Walk[k - 1]] < stamp[Walk[k]]
        OBVIOUS
    <2> DEFINE x == Walk[k - 1]
    <2>1. x \in OnList /\ Walk[k] = flink[x] /\ Walk[k] \in A
        BY <1>0, <1>2, WalkDef
    <2>2. blink[flink[x]] = x
        BY <1>0, <2>1 DEF ListShape
    <2>3. ASSUME k > 1 PROVE stamp[x] < stamp[Walk[k]]
        <3>1. x \in A /\ StampOf(x) = stamp[x]
            BY <1>0, <1>2, <2>3 DEF StampOf
        <3>2. flink[x] # Head
            BY <1>0, <2>1
        <3>3. QED
            BY <1>0, <2>1, <3>1, <3>2 DEF SortedRing, SortedAt
    <2>4. QED
        BY <2>1, <2>2, <2>3
<1>7. blink[Head] = Walk[N]
    <2>1. Walk[N] \in OnList
        BY <1>0
    <2>2. QED
        BY <1>0, <1>3, <2>1 DEF ListShape
<1>8. QED
    <2>1. Cardinality(Listed) = N
        BY <1>5
    <2>2. QED
        BY <1>3, <1>5, <1>6, <1>7, <2>1 DEF ListIsAttachedInOrder, AttachedClients

(***************************************************************************)
(* For any clients and hook threads, walking Flink from the list head     *)
(* (ebpf_extension_hook_get_next_attached_client, and the walk of         *)
(* ebpf_extension_hook_check_attach_parameter) visits exactly the        *)
(* attached clients, each once and in the order in which attach_client    *)
(* inserted them, and returns to the head; every Blink is the reverse of  *)
(* the Flink.  InsertTailList keeps this because the old tail has the     *)
(* largest stamp, and RemoveEntryList because the removed client's        *)
(* successor is the next larger stamp after its predecessor.              *)
(***************************************************************************)
THEOREM ListInOrder == Spec => []ListIsAttachedInOrder
BY SpecRInv, RInvInOrder, PTL

=============================================================================
