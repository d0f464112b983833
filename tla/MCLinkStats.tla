----------------------------- MODULE MCLinkStats -----------------------------
(***************************************************************************)
(* LinkStats for the model checker: the signal strengths.                  *)
(***************************************************************************)
EXTENDS LinkStats

SomeRssis == {-40}
=============================================================================
