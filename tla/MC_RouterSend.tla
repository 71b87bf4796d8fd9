--------------------------- MODULE MC_RouterSend ---------------------------
(***************************************************************************)
(* Three compute units, registered in every order: o reroutes a work      *)
(* request it cannot serve, b's connection may break, l stays live.       *)
(***************************************************************************)
EXTENDS RouterSend

CONSTANTS o, b, l

MCClients == {o, b, l}
MCClientType == [c \in MCClients |-> "COMPUTE_UNIT"]
MCForwards == o :> "REROUTE"
====
