---------------------------- MODULE PictureFilter ----------------------------
(***************************************************************************)
(* What the filter promises VLC (autoupscale.c, Open, Filter and Close): a *)
(* call takes one picture and gives it back, and either returns a complete *)
(* one or gives that back too; between calls nothing is held and the       *)
(* picture returned is not touched; and service only ever degrades: a      *)
(* filter that has stopped sharpening never sharpens again, one that has   *)
(* stopped scaling turns every picture away.                               *)
(***************************************************************************)

VARIABLES
  stage,     \* "opening", "idle", "busy" (inside a call) or "closed"
  input,     \* the picture passed in: "none", "held" or "released"
  output,    \* the picture to return: "none", "held", "released" or "returned"
  holds,     \* what the output holds: "none", "torn", "scaled" or "sharp"
  scales,    \* the filter still scales
  sharpens   \* the filter still sharpens

Pictures == <<input, output, holds>>
Service  == <<scales, sharpens>>
vars == <<stage, Pictures, Service>>

Init ==
  /\ stage = "opening"
  /\ input = "none" /\ output = "none" /\ holds = "none"
  /\ scales = FALSE /\ sharpens = FALSE

Open ==
  /\ stage = "opening" /\ stage' = "idle"
  /\ scales' = TRUE /\ sharpens' \in BOOLEAN
  /\ UNCHANGED Pictures

Decline == stage = "opening" /\ stage' = "closed" /\ UNCHANGED <<Pictures, Service>>

Call ==
  /\ stage = "idle" /\ stage' = "busy"
  /\ scales
  /\ input' = "held" /\ output' = "none" /\ holds' = "none"
  /\ UNCHANGED Service

\* A call of a filter that has stopped scaling.
TurnAway ==
  /\ stage = "idle" /\ stage' = "idle"
  /\ ~scales
  /\ input' = "released" /\ output' = "none" /\ holds' = "none"
  /\ UNCHANGED Service

\* Inside a call: an output is obtained and written, service may degrade.
Work ==
  /\ stage = "busy" /\ stage' = "busy"
  /\ input = "held" /\ input' = "held"
  /\ output \in {"none", "held"} /\ output' \in {output, "held"}
  /\ holds' \in {holds, "torn", "scaled"} \cup (IF sharpens THEN {"sharp"} ELSE {})
  /\ scales' \in {scales, FALSE} /\ sharpens' \in {sharpens, FALSE}

Return ==
  /\ stage = "busy" /\ stage' = "idle"
  /\ input = "held" /\ input' = "released"
  /\ output = "held" /\ output' = "returned"
  /\ holds \in {"scaled", "sharp"}
  /\ UNCHANGED <<holds, Service>>

Refuse ==
  /\ stage = "busy" /\ stage' = "idle"
  /\ input = "held" /\ input' = "released"
  /\ output \in {"none", "held"}
  /\ output' = IF output = "held" THEN "released" ELSE "none"
  /\ UNCHANGED <<holds, Service>>

Close ==
  /\ stage = "idle" /\ stage' = "closed"
  /\ scales' = FALSE /\ sharpens' = FALSE
  /\ UNCHANGED Pictures

Next == Open \/ Decline \/ Call \/ TurnAway \/ Work \/ Return \/ Refuse \/ Close

Spec == Init /\ [][Next]_vars
=============================================================================
