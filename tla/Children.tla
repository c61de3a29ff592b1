------------------------------ MODULE Children ------------------------------
(***************************************************************************)
(* The child processes of this process, side by side: decoder sessions,    *)
(* native Git commands, downloads with their encoders.  They share no      *)
(* variable, so each goes its own way, and at the same time.               *)
(***************************************************************************)
EXTENDS Decoding, NativeCommand, Encoding

ChildrenSpec == CdSpec /\ NvSpec /\ EnSpec

(***************************************************************************)
(* What runs in child processes stays under control, and what they leave   *)
(* is used only as far as it is proven: a decoder session (_session), a    *)
(* native Git command (_bounded_process), a download and an encoder        *)
(* (_run_monitored, fetch_model).                                          *)
(***************************************************************************)
ChildrenContained == DecodingSound /\ ContainmentSound /\ EncodingSound

=============================================================================
