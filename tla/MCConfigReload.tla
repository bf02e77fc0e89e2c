--------------------------- MODULE MCConfigReload ---------------------------
(* Small instances of ConfigReload for TLC.                                *)
EXTENDS ConfigReload

CONSTANTS z1, z2

Conf(id, enabled, direct, z21) == [id |-> id, enabled |-> enabled, direct |-> direct, z21 |-> z21]

MCEndpoints == {z1, z2}
MCDefault == Conf(0, TRUE, FALSE, NoEndpoint)
\* Two stations, and a kiosk switched off.
MCConfigs == { MCDefault, Conf(1, TRUE, TRUE, z1), Conf(2, TRUE, TRUE, z2),
               Conf(3, FALSE, TRUE, NoEndpoint) }
=============================================================================
