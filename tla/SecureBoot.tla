----------------------------- MODULE SecureBoot -----------------------------
(***************************************************************************)
(* What the boot path promises (spec.md sections 4.2, 4.4 and 7), seen     *)
(* from outside: the first-stage loader either fails for good or hands     *)
(* control on; from the prompt a boot command either fails, changing       *)
(* nothing, or hands control to an image for good. Every hand-off runs the *)
(* plaintext of a container that is acceptable under the fuse policy: one  *)
(* signed with the key whose hash is fused, or, while the policy bit still *)
(* allows unsigned images, one whose digest or GCM tag is intact. No       *)
(* partial trust: nothing else is ever run.                                *)
(***************************************************************************)
CONSTANTS NoImage

VARIABLES
  phase,    \* "loader", "prompt", "running" (control handed on), "failed"
  booted,   \* [fw, img] of the last hand-off, or NoImage
  otp       \* [noneOff, pukSet]: the policy bit and whether key hashes are fused

svars == <<phase, booted, otp>>

Signed(fw) ==
  /\ fw.crypto \in {"INTERNATIONAL", "CHINESE"}
  /\ otp.pukSet /\ fw.pukOk /\ fw.sigOk

Intact(fw) ==
  \/ fw.crypto = "NONE" /\ fw.hashOk
  \/ fw.crypto = "GCM_ONLY" /\ fw.tagOk

Acceptable(fw) == Signed(fw) \/ (~otp.noneOff /\ Intact(fw))

Init ==
  /\ phase = "loader"
  /\ booted = NoImage
  /\ otp \in [noneOff : BOOLEAN, pukSet : BOOLEAN]

\* the new hand-off record runs the plaintext of an acceptable container
HandsOffVerified ==
  /\ booted' # NoImage
  /\ booted'.img = booted'.fw.plain
  /\ Acceptable(booted'.fw)

LoaderFails ==
  /\ phase = "loader" /\ phase' = "failed"
  /\ UNCHANGED <<booted, otp>>

\* the loader starts the next stage (the prompt) or an image for good
LoaderHandsOff ==
  /\ phase = "loader" /\ phase' \in {"prompt", "running"}
  /\ HandsOffVerified
  /\ UNCHANGED otp

PromptHandsOff ==
  /\ phase = "prompt" /\ phase' = "running"
  /\ HandsOffVerified
  /\ UNCHANGED otp

Next == LoaderFails \/ LoaderHandsOff \/ PromptHandsOff

\* a failed boot command is a stuttering step; nothing has to happen
Spec == Init /\ [][Next]_svars

=============================================================================
