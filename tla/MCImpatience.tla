---------------------------- MODULE MCImpatience ----------------------------
(***************************************************************************)
(* Callers that give up and feedback that contradicts itself are explored  *)
(* side by side and not together: where callers may stop waiting, only one *)
(* of the two inputs changes.                                              *)
(***************************************************************************)
EXTENDS GateRuntimeProperties

VARIABLE impatient  \* callers may stop waiting, in this behaviour

MCInit == Init /\ impatient \in BOOLEAN

MCNext ==
  /\ Next /\ UNCHANGED impatient
  /\ impatient \/ \A c \in Callers : ~GiveUp(c)
  /\ impatient => asserted' \subseteq {AssertedEnd}

MCSpec == MCInit /\ [][MCNext]_<<vars, impatient>>
=============================================================================
