------------------------- MODULE MC_NetEventMonitor -------------------------
(***************************************************************************)
(* Four event sources: a payload of 5 bytes with no metadata, a payload  *)
(* of 5 bytes followed by 3 bytes of metadata, one with a NULL data      *)
(* start, and a payload of 7 bytes.  A ring buffer holds 16 bytes: the    *)
(* 10-byte test record fits, three payloads of 5 fit, a payload of 7     *)
(* beside two others fails until the reader catches up.                  *)
(***************************************************************************)
EXTENDS NetEventMonitor, TLC

CONSTANTS e1, e2, e3, e4

MonEvents == {e1, e2, e3, e4}
MonStart == e1 :> 1 @@ e2 :> 1 @@ e3 :> 0 @@ e4 :> 1
MonEnd == e1 :> 6 @@ e2 :> 6 @@ e3 :> 6 @@ e4 :> 8
MonMeta == e1 :> 0 @@ e2 :> 9 @@ e3 :> 0 @@ e4 :> 0

=============================================================================
