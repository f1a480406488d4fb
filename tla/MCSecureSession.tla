-------------------------- MODULE MCSecureSession --------------------------
(***************************************************************************)
(* Secure sessions of one built-in display with pluggable ones, and of two  *)
(* built-in displays.                                                       *)
(***************************************************************************)
EXTENDS SecureSession

MCKinds == {"SecureDisplay", "SecureCamera"}
MCOneKind == {"SecureDisplay"}
=============================================================================
