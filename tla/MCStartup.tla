----------------------------- MODULE MCStartup -----------------------------
(* The tray and an installed copy's uninstaller, each with its own executable. *)
EXTENDS Startup, TLC

CONSTANTS tray, setup, portable, installed

MCExeOf == (tray :> portable) @@ (setup :> installed)
=============================================================================
