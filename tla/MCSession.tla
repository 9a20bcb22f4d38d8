----------------------------- MODULE MCSession -----------------------------
(***************************************************************************)
(* Two users: ann has no organisation, and an invitation to 2; bob signs   *)
(* in with MFA, is a member of both and has no profile yet.                *)
(***************************************************************************)
EXTENDS Session, TLC

CONSTANTS ann, bob

MCUsers == {ann, bob}
MCMemberOf == ann :> {} @@ bob :> {1, 2}
============================================================================
