--------------------------- MODULE MCDrivePairing ---------------------------
(* Two participants, one with a handset; a layout with one station or two. *)
EXTENDS DrivePairing

CONSTANTS ann, bob, s1, s2

MCUsers == {ann, bob}
MCPaired == {{<<ann, s1>>}}
MCStations == {s1, s2}
MCLists == {<<s1>>, <<s1, s2>>}
=============================================================================
