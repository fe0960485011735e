------------------------ MODULE AbstractHookProvider ------------------------
(***************************************************************************)
(* What the hook provider promises (spec sections 3, 4 and 8), without    *)
(* links, locks or counters: the attached clients form a sequence in      *)
(* attach order; an attach is accepted only if the matcher allows it      *)
(* against the clients attached at that moment, and is then appended;     *)
(* a detach removes the client and keeps the order of the others; a       *)
(* client's program may start while the client is attached or unlinked   *)
(* but not yet draining, and the detach completes only when no            *)
(* invocation of it is running.                                          *)
(*                                                                         *)
(* Each attach is decided against the list as it stands when its own     *)
(* check runs, and attaches of different clients may be decided between  *)
(* another's check and its link, as the binding mechanism allows.  The   *)
(* exclusivity of the whole list that spec 4.2 states as atomic is not   *)
(* part of this promise: the code does not keep it (MC_ConcurrentAttach). *)
(***************************************************************************)
EXTENDS Naturals, Sequences

CONSTANTS
    Clients,    \* the bindings
    Invokers,   \* the hook threads
    Param,      \* the attach parameter of each client as the matcher sees it
    Wildcard,   \* the wild card parameter
    None        \* no invocation running

VARIABLES
    alist,    \* the attached clients, in attach order
    phase,    \* where each binding is in its life
    running   \* the client whose program each hook thread is running

avars == <<alist, phase, running>>

Members(s) == {s[k] : k \in DOMAIN s}

(* The exclusivity rule of spec 4.2 against a set of attached clients.    *)
Compatible(c, attached) ==
    \/ attached = {}
    \/ /\ Param[c] # Wildcard
       /\ \A d \in attached : Param[d] \notin {Wildcard, Param[c]}

AInit ==
    /\ alist = << >>
    /\ phase = [c \in Clients |-> "idle"]
    /\ running = [i \in Invokers |-> None]

Decide(c) ==
    /\ phase[c] = "idle"
    /\ \/ phase' = [phase EXCEPT ![c] = "rejected"]
       \/ /\ Compatible(c, Members(alist))
          /\ phase' = [phase EXCEPT ![c] = "checked"]
    /\ UNCHANGED <<alist, running>>

Link(c) ==
    /\ phase[c] = "checked"
    /\ alist' = Append(alist, c)
    /\ phase' = [phase EXCEPT ![c] = "attached"]
    /\ UNCHANGED running

(* s without its p-th element, the others in their order.                *)
RemoveAt(s, p) == [k \in 1..Len(s) - 1 |-> IF k < p THEN s[k] ELSE s[k + 1]]

Unlink(c) ==
    /\ phase[c] = "attached"
    /\ \E p \in DOMAIN alist : alist[p] = c /\ alist' = RemoveAt(alist, p)
    /\ phase' = [phase EXCEPT ![c] = "queued"]
    /\ UNCHANGED running

BeginDrain(c) ==
    /\ phase[c] = "queued"
    /\ phase' = [phase EXCEPT ![c] = "draining"]
    /\ UNCHANGED <<alist, running>>

Complete(c) ==
    /\ phase[c] = "draining"
    /\ \A i \in Invokers : running[i] # c
    /\ phase' = [phase EXCEPT ![c] = "freed"]
    /\ UNCHANGED <<alist, running>>

StartInvoke(i, c) ==
    /\ running[i] = None
    /\ phase[c] \in {"attached", "queued"}
    /\ running' = [running EXCEPT ![i] = c]
    /\ UNCHANGED <<alist, phase>>

EndInvoke(i) ==
    /\ running[i] # None
    /\ running' = [running EXCEPT ![i] = None]
    /\ UNCHANGED <<alist, phase>>

ANext ==
    \/ \E c \in Clients :
          Decide(c) \/ Link(c) \/ Unlink(c) \/ BeginDrain(c) \/ Complete(c)
    \/ \E i \in Invokers :
          \/ \E c \in Clients : StartInvoke(i, c)
          \/ EndInvoke(i)

ASpec ==
    /\ AInit /\ [][ANext]_avars
    /\ \A c \in Clients : WF_avars(BeginDrain(c)) /\ WF_avars(Complete(c))
    /\ \A i \in Invokers : WF_avars(EndInvoke(i))

=============================================================================
