--------------------------- MODULE MCCommsInbound ---------------------------
(***************************************************************************)
(* Instances of CommsInbound for TLC.                                      *)
(***************************************************************************)
EXTENDS CommsInbound

MCOperators == {"a", "b"}
MCConsumers == {"c1", "c2"}
MCCodes     == {"k1", "k2", "k3"}
MCConsumerOf == [k \in MCCodes |-> IF k = "k3" THEN "c2" ELSE "c1"]

Link(o, k)    == [op |-> o, kind |-> "link", code |-> k]
Unlink(o)     == [op |-> o, kind |-> "unlink"]
Ask(o)        == [op |-> o, kind |-> "ask"]
PressOf(o, p) == [op |-> o, kind |-> "press", poll |-> p]

(* k1 and k2 are made for the same subscriber: b can take it over from a   *)
(* and move on to another.                                                 *)
MCLinking  == {Link("a", "k1"), Link("b", "k2"), Link("b", "k3"), Unlink("a"), Ask("a")}
MCTakeover == {Link("a", "k1"), Link("b", "k2"), Link("a", "k3")}

(* Two people hold the same code, a button is pressed more than once.      *)
MCSharing == {Link("a", "k1"), Link("b", "k1"), PressOf("b", "p")}
MCOneCode == [k \in {"k1"} |-> "c1"]
=============================================================================
