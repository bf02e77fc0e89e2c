-------------------------- MODULE MCZ21Programming --------------------------
(* Small instances of Z21Programming for TLC.                              *)
EXTENDS Z21Programming, TLC

Table(cv1, cv17, cv18, cv28, cv29) ==
    (1 :> cv1) @@ (17 :> cv17) @@ (18 :> cv18) @@ (28 :> cv28) @@ (29 :> cv29)

(* A decoder on short address 3 with RailComPlus on, and one on long       *)
(* address 1000 whose short address is 5.                                  *)
MCDecoders == { Table(3, 192, 0, 131, 6), Table(5, 195, 232, 3, 38) }

AddrSet(addr, pom, verify) ==
    [op |-> "addrSet", addr |-> addr, pom |-> pom, verify |-> verify, cmds |-> <<>>]
AddrGet(addr, pom) ==
    [op |-> "addrGet", addr |-> addr, pom |-> pom, verify |-> FALSE, cmds |-> <<>>]
Cvs(addr, pom, cmds) ==
    [op |-> "cvs", addr |-> addr, pom |-> pom, verify |-> FALSE, cmds |-> cmds]
Connect == [op |-> "connect", addr |-> 0, pom |-> FALSE, verify |-> FALSE, cmds |-> <<>>]

Cmd(kind, pom, addr, cv, value) ==
    [kind |-> kind, pom |-> pom, addr |-> addr, cv |-> cv, value |-> value]

(* A write of one CV, and a POM write nobody answers followed by a read;   *)
(* neither changes the form of the address.                                *)
ProgWrite == Cvs(0, FALSE, << Cmd("write", FALSE, 0, 28, 2) >>)
PomWrite == Cvs(3, TRUE, << Cmd("write", TRUE, 3, 29, 10), Cmd("read", TRUE, 3, 29, 0) >>)

MCJobs == { AddrSet(7, FALSE, TRUE), AddrSet(1234, FALSE, FALSE), AddrSet(3, TRUE, TRUE),
            AddrGet(0, FALSE), ProgWrite, PomWrite, Connect }
\* Enough for the lock to be passed around in every stage.
MCFewJobs == { AddrSet(7, FALSE, TRUE), Connect }

(* The first decoder alone. *)
MCDecoder == { Table(3, 192, 0, 131, 6) }

MCCalmFaults == {"loss", "refuse", "short"}
MCAllFaults == FaultKinds
MCDropFaults == {"drop"}
MCNoCommands == {}

(* The commands that the jobs issue, on the programming track and on the   *)
(* main.                                                                   *)
MCCommands ==
    LET writes == {<<1, 3>>, <<1, 7>>, <<17, 196>>, <<18, 210>>, <<28, 2>>, <<28, 3>>, <<28, 0>>}
                  \cup ({29} \X {6, 10, 38, 42})
        on(pom, addr) == { Cmd("read", pom, addr, cv, 0) : cv \in CvNo }
                         \cup { Cmd("write", pom, addr, w[1], w[2]) : w \in writes }
    IN  on(FALSE, 0) \cup on(TRUE, 3)
=============================================================================
