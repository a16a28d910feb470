------------------------------ MODULE MCDesktop -------------------------------
(* A tray, its server, a server started by hand and one stop command. *)
EXTENDS Desktop, TLC

CONSTANTS c, o, k

MCLocksOf == c :> <<"server", "control", "display">> @@ o :> <<"server", "display">>
=============================================================================
