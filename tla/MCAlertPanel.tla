----------------------------- MODULE MCAlertPanel -----------------------------
(* Instances of AlertPanel for TLC.                                        *)
EXTENDS AlertPanel
=============================================================================
