------------------------------- MODULE MCWizard -------------------------------
(* An instance of Wizard for TLC.                                          *)
EXTENDS Wizard, TLC

CONSTANTS calm, bold, wild

\* Two answers share a preset; one needs a reboot, two an acknowledgement.
MCPreset == (calm :> "balanced") @@ (bold :> "aggressive") @@ (wild :> "aggressive")
=============================================================================
