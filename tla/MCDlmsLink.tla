----------------------------- MODULE MCDlmsLink -----------------------------
(* Two meters on one port. *)
EXTENDS DlmsLink

MCMeters == {0, 1}
=============================================================================
