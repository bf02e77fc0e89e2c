-------------------------- MODULE MCConfigureLoco --------------------------
(* Small instance of ConfigureLoco for TLC: a user with two addresses, one *)
(* whose only address is the first one's second, and one without a pool.   *)
(* The first user has a vehicle, perhaps without an address, or none; in   *)
(* the last case there is room for two creations.                          *)
EXTENDS ConfigureLoco, TLC

MCUsers == {"ann", "bob", "eve"}
MCPool == [u \in MCUsers |-> CASE u = "ann" -> <<3, 4>> [] u = "bob" -> <<4>> [] OTHER -> <<>>]
MCFleets == { <<>> } \cup { <<[owner |-> "ann", dcc |-> a]>> : a \in {3, NoAddress} }
=============================================================================
