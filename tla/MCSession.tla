------------------------------ MODULE MCSession ------------------------------
EXTENDS Session

(* Two timeouts, none, and a kiosk that is switched off                    *)
SomeConfigs == {[loaded |-> TRUE, enabled |-> TRUE, idle |-> 1],
                [loaded |-> TRUE, enabled |-> TRUE, idle |-> 2],
                [loaded |-> TRUE, enabled |-> FALSE, idle |-> 0]}
OneConfig == {[loaded |-> TRUE, enabled |-> TRUE, idle |-> 2]}
=============================================================================
