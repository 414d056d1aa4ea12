------------------------------ MODULE Inflate ------------------------------
(***************************************************************************)
(* What one call of the hardware decompression engine promises (spec.md   *)
(* section 4.3: inflate(src, srcLen, dst, dstCapacity) -> actualLen |      *)
(* fails(Timeout, IntegrityError)): the call returns; it succeeds only for *)
(* an intact stream and then the destination holds the inflated data; it  *)
(* reports an integrity error only for a stream that is not intact; a     *)
(* timeout may come at any time. A failed call may leave the destination  *)
(* written or not.                                                         *)
(***************************************************************************)
CONSTANTS Streams   \* whether the compressed stream given is intact

VARIABLES
  result,   \* "busy" until the call returns, then "ok", "integrity" or "timeout"
  intact,   \* the stream decodes with a good CRC
  dst       \* the destination buffer: "old" or "inflated"

avars == <<result, intact, dst>>

Init == result = "busy" /\ intact \in Streams /\ dst = "old"

Inflated ==
  /\ result = "busy" /\ intact
  /\ result' = "ok" /\ dst' = "inflated"
  /\ UNCHANGED intact

IntegrityError ==
  /\ result = "busy" /\ ~intact
  /\ result' = "integrity" /\ dst' \in {"old", "inflated"}
  /\ UNCHANGED intact

Timeout ==
  /\ result = "busy"
  /\ result' = "timeout" /\ dst' \in {"old", "inflated"}
  /\ UNCHANGED intact

Next == Inflated \/ IntegrityError \/ Timeout

\* the call returns: a timeout is always possible, so it is taken if nothing else
Spec == Init /\ [][Next]_avars /\ WF_avars(Next)

=============================================================================
