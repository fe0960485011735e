--------------------------- MODULE NetEventMonitor ---------------------------
(***************************************************************************)
(* The netevent_monitor BPF program (src/tools/netevent_monitor/bpf/      *)
(* netevent_monitor.c), which the file holds in two versions: version 1   *)
(* (lines 30-49) reads data_start, data_end and data_meta and writes two  *)
(* ring buffers; version 2 (lines 74-90) reads payload_start and          *)
(* payload_end and writes one.  Each member of Events is a source of     *)
(* netevents with a fixed layout, raising one event after another; the   *)
(* invocations for different sources run on different CPUs, so their     *)
(* ring buffer calls interleave.  The user-mode reader drains the         *)
(* buffers.                                                                *)
(*                                                                         *)
(* Pointers are byte offsets into the event's buffer, 0 standing for      *)
(* NULL.  The driver's buffer for an event runs from its start to the     *)
(* later of data_end and data_meta.                                       *)
(***************************************************************************)
EXTENDS Integers, Sequences

CONSTANTS
    Events,    \* the netevents the driver raises
    Start,     \* data_start (payload_start) of each event
    End,       \* data_end (payload_end) of each event
    Meta,      \* data_meta of each event (version 1 only)
    Capacity,  \* bytes a ring buffer holds
    Variant    \* 1 or 2: which version of the program is loaded

NULL == 0
TestLen == 10          \* the length line 40 passes to bpf_ringbuf_output
Maps == {"netevent_events_map", "test_events_map"}

VARIABLES
    pc,      \* where the current invocation for each event source is
    result,  \* the value its invocation returns (last one, once idle)
    ring,    \* the records in each ring buffer, oldest first
    used     \* the bytes each ring buffer holds

mvars == <<pc, result, ring, used>>

(* The bytes the driver hands over with an event: the payload and, past   *)
(* data_end, the metadata up to data_meta, the region line 38 tests for   *)
(* and the commented printk of line 39 measures (data_meta - data_end).   *)
Limit(e) == IF Meta[e] > End[e] THEN Meta[e] ELSE End[e]

MInit ==
    /\ pc = [e \in Events |-> "idle"]
    /\ result = [e \in Events |-> -1]
    /\ ring = [m \in Maps |-> << >>]
    /\ used = [m \in Maps |-> 0]

(* bpf_ringbuf_output: copy len bytes from addr as one record if they fit, *)
(* return 0; otherwise write nothing and return an error.                  *)
RingbufOutput(m, e, addr, len, res) ==
    IF used[m] + len <= Capacity
    THEN /\ ring' = [ring EXCEPT ![m] = Append(@, [ev |-> e, addr |-> addr,
                                                    len |-> len])]
         /\ used' = [used EXCEPT ![m] = @ + len]
         /\ res = 0
    ELSE /\ UNCHANGED <<ring, used>>
         /\ res = -1

(* The guard of line 36 (line 80 in version 2).                             *)
HasPayload(e) ==
    /\ Start[e] # NULL /\ End[e] # NULL
    /\ End[e] > Start[e]

(* Version 1, lines 34-41: result = -1; an invocation without a payload   *)
(* returns it; with metadata past data_end, 10 bytes from data_end go to  *)
(* test_events_map (the result of that call is dropped).                  *)
NetEventMonitorEntry(e) ==
    /\ pc[e] = "idle"
    /\ Variant = 1
    /\ result' = [result EXCEPT ![e] = -1]
    /\ IF ~HasPayload(e)
       THEN UNCHANGED <<pc, ring, used>>
       ELSE /\ pc' = [pc EXCEPT ![e] = "output"]
            /\ IF Meta[e] # NULL /\ Meta[e] > End[e]
               THEN \E res \in {0, -1} :
                       RingbufOutput("test_events_map", e, End[e], TestLen, res)
               ELSE UNCHANGED <<ring, used>>

(* The length line 45 (line 86) passes: data_end - data_start.             *)
PayloadLength(e) == End[e] - Start[e]

(* Version 1, line 45: push the payload; its result is the return value.    *)
NetEventMonitorOutput(e) ==
    /\ pc[e] = "output"
    /\ pc' = [pc EXCEPT ![e] = "idle"]
    /\ \E res \in {0, -1} :
          /\ RingbufOutput("netevent_events_map", e, Start[e],
                           PayloadLength(e), res)
          /\ result' = [result EXCEPT ![e] = res]

(* Version 2, lines 76-90: the guard and the push, in one call.            *)
NetEventMonitorV2(e) ==
    /\ pc[e] = "idle"
    /\ Variant = 2
    /\ UNCHANGED pc
    /\ IF ~HasPayload(e)
       THEN /\ result' = [result EXCEPT ![e] = -1]
            /\ UNCHANGED <<ring, used>>
       ELSE \E res \in {0, -1} :
               /\ RingbufOutput("netevent_events_map", e, Start[e],
                                PayloadLength(e), res)
               /\ result' = [result EXCEPT ![e] = res]

(* The user-mode reader consumes the oldest record of a buffer.            *)
Consume(m) ==
    /\ ring[m] # << >>
    /\ used' = [used EXCEPT ![m] = @ - Head(ring[m]).len]
    /\ ring' = [ring EXCEPT ![m] = Tail(@)]
    /\ UNCHANGED <<pc, result>>

MNext ==
    \/ \E e \in Events :
          NetEventMonitorEntry(e) \/ NetEventMonitorOutput(e)
          \/ NetEventMonitorV2(e)
    \/ \E m \in Maps : Consume(m)

MSpec == MInit /\ [][MNext]_mvars

-----------------------------------------------------------------------------
(***************************************************************************)
(* Every record a ring buffer holds was copied from inside the buffer the *)
(* driver handed over with its event: bpf_ringbuf_output at line 40 and   *)
(* line 45 (line 86) reads no byte past the event's data.                 *)
(***************************************************************************)
ReadsWithinEvent ==
    \A m \in Maps : \A k \in 1..Len(ring[m]) :
        LET r == ring[m][k] IN
            /\ Start[r.ev] <= r.addr
            /\ r.addr + r.len <= Limit(r.ev)

=============================================================================
