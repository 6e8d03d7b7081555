---------------------------- MODULE ScalerBackend ----------------------------
(***************************************************************************)
(* What scaler_backend_t (scaler.h) promises the filter about process():   *)
(* OK says that the whole output picture holds this frame, FATAL that the  *)
(* backend is unusable, now and for ever; and the backend writes the       *)
(* output only between the call and its return.                            *)
(***************************************************************************)

VARIABLES
  phase,   \* "new", "idle", "busy" (inside process) or "closed"
  output,  \* the output picture: "untouched", "partial" or "whole"
  status,  \* the result of the last call, "none" before and during it
  usable   \* the backend has not broken down

vars == <<phase, output, status, usable>>

Init ==
  phase = "new" /\ output = "untouched" /\ status = "none" /\ usable = TRUE

Open == phase = "new" /\ phase' = "idle" /\ UNCHANGED <<output, status, usable>>

Begin ==
  /\ phase = "idle"
  /\ phase' = "busy"
  /\ output' = "untouched"
  /\ status' = "none"
  /\ UNCHANGED usable

Write ==
  /\ phase = "busy"
  /\ output' \in {"partial", "whole"}
  /\ UNCHANGED <<phase, status, usable>>

Break == phase = "busy" /\ usable' = FALSE /\ UNCHANGED <<phase, output, status>>

Return ==
  /\ phase = "busy"
  /\ phase' = "idle"
  /\ \/ status' = "ok" /\ usable /\ usable' /\ output = "whole"
     \/ status' = "transient" /\ usable' = usable
     \/ status' = "fatal" /\ ~usable'
  /\ usable' \in BOOLEAN
  /\ UNCHANGED output

Close ==
  /\ phase \in {"new", "idle"}
  /\ phase' = "closed"
  /\ UNCHANGED <<output, status, usable>>

Next == Open \/ Begin \/ Write \/ Break \/ Return \/ Close

Spec == Init /\ [][Next]_vars
=============================================================================
