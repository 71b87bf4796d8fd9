--------------------------- MODULE ClientRegistry ---------------------------
(***************************************************************************)
(* The router's TCPServer client registry (TCPServer.cpp): clientMap, one  *)
(* vector of ClientInfo pointers per unit type in registration order, and  *)
(* clientUuidMap, both under cl_mutex.  A client is a model value that is  *)
(* also its UUID; the two maps always change together, so one sequence,   *)
(* reg, stands for both (filtered by type it is clientMap[type]).          *)
(*                                                                         *)
(* A client's ClientInfo is:                                               *)
(*   live     registered, its receiver thread polling the socket;          *)
(*   aborted  registered with abort set (the receiver saw recv == 0);      *)
(*   broken   registered, but its socket is dead and abort is never set:   *)
(*            the receiver treats POLLERR/POLLHUP like a poll timeout;     *)
(*   removed  erased from both maps and deleted;                           *)
(*   rejected the handshake failed, nothing was registered.                *)
(***************************************************************************)
EXTENDS Naturals, Sequences, SequencesExt

CONSTANTS
    Clients,     \* peers that may connect (each with its own UUID)
    ClientType,  \* ClientType[c]: the unit_type c announces
    MayDrop,     \* clients whose handshake may fail or connection end
    Connected    \* clients already registered when the model starts

VARIABLES
    cstate,      \* each client's ClientInfo, as above, or "absent"
    reg          \* clientMap / clientUuidMap: registered clients in order

regVars == <<cstate, reg>>

ClientState == {"absent", "live", "aborted", "broken", "removed", "rejected"}

InMap(c) == c \in Range(reg)

-----------------------------------------------------------------------------
(* clear_aborted: remove every client whose abort flag is set; each        *)
(* removeClient erases the uuid alias, releases and deletes the ClientInfo *)
(* and erases the vector entry.                                            *)
ClearAborted ==
    /\ reg' = SelectSeq(reg, LAMBDA c : cstate[c] # "aborted")
    /\ cstate' = [c \in Clients |->
                    IF InMap(c) /\ cstate[c] = "aborted" THEN "removed" ELSE cstate[c]]

(* removeClient(info): erase and delete c if the maps still hold it.       *)
RemoveClient(c) ==
    IF InMap(c)
    THEN /\ reg' = SelectSeq(reg, LAMBDA x : x # c)
         /\ cstate' = [cstate EXCEPT ![c] = "removed"]
    ELSE UNCHANGED regVars

(* getUuidForUnitType: nothing when no client is registered (hasClients), *)
(* else clear_aborted and then the registered clients of type t in order.  *)
(* UuidsFor is the result; LookupUuids the step's effect on the registry.  *)
UuidsFor(t) ==
    IF reg = <<>> THEN <<>>
    ELSE SelectSeq(reg, LAMBDA c : cstate[c] # "aborted" /\ ClientType[c] = t)

LookupUuids == IF reg = <<>> THEN UNCHANGED regVars ELSE ClearAborted

(* getClientByUuid: the ClientInfo pointer of uuid c, or nullptr.          *)
ClientByUuid(c) == InMap(c)

(* sendTo(c): an aborted client is removed and the send fails; a broken   *)
(* socket fails in ::send (or its 5 s writability wait) and the client is *)
(* removed; a live client receives the message.  SendOk is the result.     *)
SendOk(c) == cstate[c] = "live"

SendTo(c) == IF SendOk(c) THEN UNCHANGED regVars ELSE RemoveClient(c)

-----------------------------------------------------------------------------
(* The accept loop's connect callback: request the unit type, parse the   *)
(* answer, register the ClientInfo, start its receiver thread.  No answer *)
(* within 2 s or a missing start delimiter discards the client.  An answer *)
(* of the wrong package type frees the handle but, lacking a return, the  *)
(* callback goes on to register the client with its closed socket.  UUIDs *)
(* are distinct here, so the collision loop never runs.                    *)
Connect(c) ==
    /\ cstate[c] = "absent"
    /\ \/ /\ cstate' = [cstate EXCEPT ![c] = "live"]
          /\ reg' = Append(reg, c)
       \/ /\ c \in MayDrop
          /\ cstate' = [cstate EXCEPT ![c] = "rejected"]
          /\ UNCHANGED reg
       \/ /\ c \in MayDrop
          /\ cstate' = [cstate EXCEPT ![c] = "broken"]
          /\ reg' = Append(reg, c)

(* The receiver thread reads recv == 0 (orderly shutdown by the peer) and *)
(* sets abort; the client stays registered until someone clears it.       *)
Hangup(c) ==
    /\ c \in MayDrop
    /\ cstate[c] = "live"
    /\ cstate' = [cstate EXCEPT ![c] = "aborted"]
    /\ UNCHANGED reg

(* The peer resets the connection: poll reports POLLERR/POLLHUP, which    *)
(* waitReadable returns as false, and the loop continues without setting  *)
(* abort.                                                                  *)
Reset(c) ==
    /\ c \in MayDrop
    /\ cstate[c] = "live"
    /\ cstate' = [cstate EXCEPT ![c] = "broken"]
    /\ UNCHANGED reg

(* Another router thread runs clear_aborted: a UUID-for-unit request      *)
(* (getUuidForUnitType), a monitor request (monitorInfoToString), the     *)
(* RESET_CATALOG broadcast or another collection's analyze.                *)
OtherClear ==
    /\ \E c \in Range(reg) : cstate[c] = "aborted"
    /\ ClearAborted

RegInit ==
    /\ cstate = [c \in Clients |-> IF c \in Connected THEN "live" ELSE "absent"]
    /\ reg \in SetToSeqs(Connected)

RegNext ==
    \/ \E c \in Clients : Connect(c) \/ Hangup(c) \/ Reset(c)
    \/ OtherClear

RegTypeOK ==
    /\ cstate \in [Clients -> ClientState]
    /\ reg \in Seq(Clients) /\ IsInjective(reg)
====
