---------------------------- MODULE RestorePromise ----------------------------
(***************************************************************************)
(* What a restore promises, without manifests, slots or boots: NVS is      *)
(* damaged only for an attempt to write a staged image, and there are at   *)
(* most MaxAttempts of them for one staging; and a damaged NVS keeps its   *)
(* image, and nothing else writes it, while another attempt is possible.   *)
(***************************************************************************)
EXTENDS Naturals

CONSTANTS Images, NoImage, Damaged, Own, MaxAttempts

VARIABLES
  conf,    \* content of NVS
  image,   \* the staged image, or NoImage
  tries,   \* attempts begun for it
  trying,  \* the last one has not touched NVS yet
  intact   \* the staged copy is what was staged

promiseVars == <<conf, image, tries, trying, intact>>

PromiseInit ==
  conf = Own /\ image = NoImage /\ tries = 0 /\ trying = FALSE /\ intact = TRUE

\* Nothing that must be finished is under way.
Free == conf # Damaged \/ tries \in {0, MaxAttempts} \/ ~intact

StageImage(i) ==
  /\ image = NoImage
  /\ image' = i /\ tries' = 0 /\ intact' = TRUE /\ UNCHANGED <<conf, trying>>

Discard == Free /\ image' = NoImage /\ UNCHANGED <<conf, tries, trying, intact>>

\* An attempt may be recorded and not begun.
Try ==
  /\ image # NoImage /\ intact /\ tries < MaxAttempts
  /\ tries' = tries + 1 /\ trying' \in BOOLEAN /\ UNCHANGED <<conf, image, intact>>

Interrupt == trying' = FALSE /\ UNCHANGED <<conf, image, tries, intact>>

Damage ==
  /\ trying
  /\ conf' = Damaged /\ trying' = FALSE /\ UNCHANGED <<image, tries, intact>>

Restore ==
  /\ conf = Damaged /\ image # NoImage /\ intact
  /\ conf' = image /\ UNCHANGED <<image, tries, trying, intact>>

Save  == Free /\ conf' = Own /\ UNCHANGED <<image, tries, trying, intact>>
Spoil == intact' = FALSE /\ UNCHANGED <<conf, image, tries, trying>>

PromiseNext ==
  \/ \E i \in Images : StageImage(i)
  \/ Discard \/ Try \/ Interrupt \/ Damage \/ Restore \/ Save \/ Spoil

PromiseSpec == PromiseInit /\ [][PromiseNext]_promiseVars
=============================================================================
