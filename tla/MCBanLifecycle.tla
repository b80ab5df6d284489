---------------------------- MODULE MCBanLifecycle ----------------------------
(***************************************************************************)
(* Small instances of BanLifecycle for TLC; the .cfg files give the        *)
(* constants.                                                              *)
(***************************************************************************)
EXTENDS BanLifecycle
=============================================================================
