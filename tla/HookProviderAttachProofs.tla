----------------------- MODULE HookProviderAttachProofs -----------------------
(***************************************************************************)
(* Proof that attach exclusivity is lost only by overlapping attaches,    *)
(* for any clients, parameters and hook threads, with attaches not        *)
(* serialised.  The invariant behind it: a client whose check passed was *)
(* allowed beside every client that was attached and had been inserted   *)
(* before the check; a client inserted after the check never counts.      *)
(***************************************************************************)
EXTENDS HookProviderAttachHistory, HookProviderWalkProofs

(* No check is stamped after the inserts made so far.                      *)
CheckStampsIssued ==
    /\ checkStamp \in [Clients -> Nat]
    /\ \A d \in Clients : checkStamp[d] <= nextStamp

(* Every passed check still clears the attached clients inserted before   *)
(* it ran.                                                                 *)
SawEarlier ==
    \A d \in Clients :
        cstate[d] \in {"checked", "attached"} =>
            \A c \in AttachedClients :
                c # d /\ stamp[c] < checkStamp[d] => ~Conflict(c, d)

HInv == RInv /\ CheckStampsIssued /\ SawEarlier

LEMMA HNextNext == [HNext]_hvars => [Next]_vars
BY DEF HNext, HAttachCallback, hvars, Next

LEMMA InitHInv == HInit => HInv
<1> SUFFICES ASSUME HInit PROVE HInv
    OBVIOUS
<1>1. RInv
    BY InitRInv DEF HInit
<1>2. AttachedClients = {} /\ nextStamp = 1
    BY DEF HInit, Init, AttachedClients
<1>3. QED
    BY <1>1, <1>2 DEF HInit, HInv, CheckStampsIssued, SawEarlier

(* A passed check clears every listed client.                              *)
LEMMA CheckClears ==
    ASSUME NEW c \in Clients, CheckAttachParameter(c)
    PROVE  \A e \in Listed : e # c => ~Conflict(e, c)
BY DEF CheckAttachParameter, Conflict

(* A step that keeps the attached clients, the passed checks, the stamps *)
(* and the history.                                                        *)
LEMMA FrameHInv ==
    ASSUME HInv, RInv',
           \A d \in Clients :
               /\ cstate'[d] \in {"checked", "attached"}
                    <=> cstate[d] \in {"checked", "attached"}
               /\ cstate'[d] = "attached" <=> cstate[d] = "attached",
           stamp' = stamp, nextStamp' = nextStamp, checkStamp' = checkStamp
    PROVE  HInv'
<1>1. AttachedClients' = AttachedClients
    BY DEF AttachedClients
<1>2. QED
    BY <1>1 DEF HInv, CheckStampsIssued, SawEarlier, Conflict, EffectiveParam

LEMMA NextHInv == HInv /\ [HNext]_hvars => HInv'
<1> SUFFICES ASSUME HInv, [HNext]_hvars PROVE HInv'
    OBVIOUS
<1> DEFINE A == AttachedClients
<1>0. /\ RInv' /\ TypeOK /\ Listed = A /\ CheckStampsIssued /\ SawEarlier
    BY HNextNext, NextRInv, RInvInOrder
    DEF HInv, RInv, WInv, IInv, ListIsAttachedInOrder, AttachedClients
(* The attach callback: its check ran against the attached clients.       *)
<1>1. ASSUME NEW c \in Clients, HAttachCallback(c) PROVE HInv'
    <2>1. /\ cstate[c] = "idle"
          /\ cstate' \in [Clients -> CState]
          /\ \A d \in Clients \ {c} : cstate'[d] = cstate[d]
          /\ cstate'[c] = "checked" => CheckAttachParameter(c)
          /\ cstate'[c] # "attached"
          /\ stamp' = stamp /\ nextStamp' = nextStamp
          /\ checkStamp' = [checkStamp EXCEPT ![c] = nextStamp]
        BY <1>0, <1>1 DEF HAttachCallback, AttachCallback, TypeOK, CState
    <2>2. A' = A
        BY <2>1 DEF AttachedClients
    <2>3. CheckStampsIssued'
        BY <1>0, <2>1 DEF CheckStampsIssued, TypeOK
    <2>4. cstate'[c] = "checked" => \A e \in A : e # c => ~Conflict(e, c)
        BY <1>0, <2>1, CheckClears
    <2>5. SawEarlier'
        BY <1>0, <2>1, <2>2, <2>4 DEF SawEarlier, Conflict, EffectiveParam
    <2>6. QED
        BY <1>0, <2>3, <2>5 DEF HInv
(* The insert: the new client's stamp is later than every passed check.  *)
<1>2. ASSUME NEW c \in Clients, AttachInsert(c), checkStamp' = checkStamp
      PROVE  HInv'
    <2>1. /\ cstate[c] = "checked"
          /\ \A d \in Clients \ {c} : cstate'[d] = cstate[d]
          /\ cstate'[c] = "attached"
          /\ stamp' = [stamp EXCEPT ![c] = nextStamp]
          /\ nextStamp' = nextStamp + 1
        BY <1>0, <1>2 DEF AttachInsert, TypeOK
    <2>2. A' = A \cup {c} /\ c \notin A
        BY <1>0, <2>1 DEF AttachedClients
    <2>3. CheckStampsIssued'
        BY <1>0, <1>2, <2>1 DEF CheckStampsIssued, TypeOK
    <2>4. SawEarlier'
        <3> SUFFICES ASSUME NEW d \in Clients,
                            cstate'[d] \in {"checked", "attached"},
                            NEW e \in A', e # d, stamp'[e] < checkStamp'[d]
                     PROVE  ~Conflict(e, d)
            BY DEF SawEarlier
        <3>1. CASE e = c
            <4>1. stamp'[e] = nextStamp /\ checkStamp[d] <= nextStamp
                BY <1>0, <3>1, <2>1 DEF CheckStampsIssued, TypeOK
            <4>2. checkStamp'[d] = checkStamp[d]
                BY <1>2
            <4>3. checkStamp[d] \in Nat /\ nextStamp \in Nat
                BY <1>0 DEF CheckStampsIssued, TypeOK
            <4>4. QED
                BY <4>1, <4>2, <4>3
        <3>2. CASE e # c
            <4>1. e \in A /\ stamp'[e] = stamp[e]
                BY <1>0, <2>1, <2>2, <3>2 DEF TypeOK
            <4>2. cstate[d] \in {"checked", "attached"}
                BY <2>1
            <4>3. QED
                BY <1>0, <1>2, <4>1, <4>2 DEF SawEarlier
        <3>3. QED
            BY <3>1, <3>2
    <2>5. QED
        BY <1>0, <2>3, <2>4 DEF HInv
(* The unlink: fewer attached clients.                                     *)
<1>3. ASSUME NEW c \in Clients, DetachClient(c), checkStamp' = checkStamp
      PROVE  HInv'
    <2>1. /\ \A d \in Clients \ {c} : cstate'[d] = cstate[d]
          /\ cstate'[c] = "queued"
          /\ stamp' = stamp /\ nextStamp' = nextStamp
        BY <1>0, <1>3 DEF DetachClient, TypeOK
    <2>2. A' \subseteq A
        BY <1>0, <2>1 DEF AttachedClients
    <2>3. QED
        BY <1>0, <1>3, <2>1, <2>2
        DEF HInv, CheckStampsIssued, SawEarlier, Conflict, EffectiveParam
(* Every other step keeps the attached clients and the passed checks.     *)
<1>4. ASSUME NEW c \in Clients, DetachWorkItemStart(c), checkStamp' = checkStamp
      PROVE  HInv'
    BY <1>0, <1>4, FrameHInv DEF DetachWorkItemStart, TypeOK
<1>5. ASSUME NEW c \in Clients, DetachClientComplete(c), checkStamp' = checkStamp
      PROVE  HInv'
    BY <1>0, <1>5, FrameHInv DEF DetachClientComplete, TypeOK
<1>6. ASSUME NEW i \in Invokers,
             GetNextAttachedClient(i) \/ EnterRundown(i) \/ LeaveRundown(i),
             checkStamp' = checkStamp
      PROVE  HInv'
    BY <1>0, <1>6, FrameHInv
    DEF GetNextAttachedClient, EnterRundown, LeaveRundown
<1>7. CASE UNCHANGED hvars
    BY <1>0, <1>7, FrameHInv DEF hvars, vars
<1>8. QED
    BY <1>1, <1>2, <1>3, <1>4, <1>5, <1>6, <1>7 DEF HNext

(***************************************************************************)
(* For any clients, parameters and hook threads, with attaches of         *)
(* different clients overlapping as NMR allows: whenever two listed       *)
(* clients conflict under the matcher, the later-inserted one ran          *)
(* ebpf_extension_hook_check_attach_parameter before the earlier one's    *)
(* InsertTailList.  So the matcher itself never admits a conflict, and    *)
(* the only way to one is the window between the check and the insert.  *)
(***************************************************************************)
THEOREM ConflictsOnlyFromOverlapHolds == HSpec => []ConflictsOnlyFromOverlap
<1>1. HInv => ConflictsOnlyFromOverlap
    <2> SUFFICES ASSUME HInv,
                        NEW c \in Listed, NEW d \in Listed,
                        c # d, Conflict(c, d), stamp[c] < stamp[d]
                 PROVE  checkStamp[d] <= stamp[c]
        BY DEF ConflictsOnlyFromOverlap
    <2>1. Listed = AttachedClients /\ TypeOK
        BY RInvInOrder DEF HInv, RInv, WInv, IInv, ListIsAttachedInOrder,
                           AttachedClients
    <2>2. c \in AttachedClients /\ d \in AttachedClients /\ d \in Clients
        BY <2>1 DEF AttachedClients
    <2>3. ~(stamp[c] < checkStamp[d])
        BY <2>2 DEF HInv, SawEarlier, AttachedClients
    <2>4. QED
        BY <2>1, <2>2, <2>3 DEF HInv, CheckStampsIssued, TypeOK, AttachedClients
<1>2. QED
    BY <1>1, InitHInv, NextHInv, PTL DEF HSpec

=============================================================================
