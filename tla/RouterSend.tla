----------------------------- MODULE RouterSend -----------------------------
(***************************************************************************)
(* The router's forwarding callbacks (Grouper.cpp) and the TCPServer send  *)
(* paths they call, over the client registry of ClientRegistry.  Each      *)
(* callback runs on the receiver thread of the client whose message it     *)
(* handles, so a forward is named by that client.                          *)
(*                                                                         *)
(*   WORK         forward_cb, untargeted: sendToAnyOfType(COMPUTE_UNIT),   *)
(*                then sendToAllOfType(MONITOR_UNIT);                      *)
(*   REROUTE      reroute_work_cb: rerouteToAnyOfType(COMPUTE_UNIT, the    *)
(*                sender's uuid), then sendToAllOfType(MONITOR_UNIT).      *)
(*                                                                         *)
(* cl_mutex is a recursive mutex; holder is the forward that holds it.     *)
(* While a forward holds it no other thread changes clientMap, so the      *)
(* vector rerouteToAnyOfType walks by reference is tracked locally in      *)
(* slots: removeClient's erase shifts the tail left and leaves the old     *)
(* last pointer in the slot past the new end, which is what a read past    *)
(* size() returns.                                                         *)
(***************************************************************************)
EXTENDS Naturals, Sequences, SequencesExt, ClientRegistry

CONSTANTS
    Forwards,    \* Forwards[c]: the message c's receiver forwards, "WORK" or "REROUTE"
    CU,          \* UnitType::COMPUTE_UNIT
    MONITOR,     \* UnitType::MONITOR_UNIT
    NoFwd        \* nobody holds cl_mutex

Fwd == DOMAIN Forwards

VARIABLES
    holder,      \* the forward holding cl_mutex, or NoFwd
    fpc,         \* each forward's position
    idx,         \* rerouteToAnyOfType: the random start index
    pos,         \* rerouteToAnyOfType: find_and_send's i; broadcast: cl_it
    fend,        \* rerouteToAnyOfType: find_and_send's end, fixed at the call
    pass,        \* rerouteToAnyOfType: 1 for [idx, size), 2 for [0, idx)
    slots,       \* rerouteToAnyOfType: the compute-unit vector's memory
    bcopy,       \* sendToAllOfType: its copy of clientMap[MONITOR_UNIT]
    joinOn,      \* the client whose receiver thread release() is joining
    retTo,       \* where the forward resumes after that join
    outcome      \* the send's result when it returned (ghost)

sendVars == <<holder, fpc, idx, pos, fend, pass, slots, bcopy, joinOn, retTo, outcome>>
vars == <<sendVars, regVars>>

Phase == {"idle", "any", "scan", "join", "bcast", "bloop", "spin", "crashed", "done"}

OfType(s, t) == SelectSeq(s, LAMBDA c : ClientType[c] = t)

(* A receiver thread is busy while it runs a forward callback.            *)
Busy(c) == c \in Fwd /\ fpc[c] \notin {"idle", "done"}

(* A compute unit the forward could have been handed to when it returned. *)
Eligible(r) == \E c \in Range(OfType(reg, CU)) :
                  cstate[c] = "live" /\ (Forwards[r] = "REROUTE" => c # r)

(* The send step returns: release cl_mutex and go on to the broadcast.    *)
SendReturns(r, delivered) ==
    /\ holder' = NoFwd
    /\ fpc' = [fpc EXCEPT ![r] = "bcast"]
    /\ outcome' = [outcome EXCEPT ![r] = IF delivered THEN "delivered"
                                         ELSE IF Eligible(r) THEN "lost" ELSE "noTarget"]

(* removeClient(type, t) from a failed sendTo of forward r: erase t from   *)
(* both maps and delete it; release() sets abort and joins t's receiver.  *)
(* Joining its own thread throws resource_deadlock_would_occur, which     *)
(* ends the router; a receiver busy in a callback is waited for.           *)
RemoveAndJoin(r, t, resume) ==
    /\ reg' = SelectSeq(reg, LAMBDA x : x # t)
    /\ cstate' = [cstate EXCEPT ![t] = "removed"]
    /\ CASE t = r     -> fpc' = [fpc EXCEPT ![r] = "crashed"] /\ UNCHANGED <<joinOn, retTo>>
         [] Busy(t)   -> /\ fpc' = [fpc EXCEPT ![r] = "join"]
                         /\ joinOn' = [joinOn EXCEPT ![r] = t]
                         /\ retTo' = [retTo EXCEPT ![r] = resume]
         [] OTHER     -> fpc' = [fpc EXCEPT ![r] = resume] /\ UNCHANGED <<joinOn, retTo>>

(* sendTo's result: a live client takes the bytes; an aborted one is      *)
(* removed; a broken socket fails in ::send or in its 5 s writability     *)
(* wait and is removed.                                                    *)
Delivers(t) == cstate[t] = "live"

-----------------------------------------------------------------------------
(* The receiver of r reads a complete message and invokes the callback:   *)
(* hasClients() and clientDebugInfo() take cl_mutex briefly, then the     *)
(* send takes it for the whole loop.  An empty registry returns at once;  *)
(* a type with no vector entries returns without sending.                 *)
Start(r) ==
    /\ fpc[r] = "idle"
    /\ cstate[r] = "live"
    /\ holder = NoFwd
    /\ LET v == OfType(reg, CU) IN
       IF v = <<>>
       THEN /\ fpc' = [fpc EXCEPT ![r] = "bcast"]
            /\ outcome' = [outcome EXCEPT ![r] = "noTarget"]
            /\ UNCHANGED <<holder, idx, pos, fend, pass, slots>>
       ELSE /\ holder' = r
            /\ UNCHANGED outcome
            /\ IF Forwards[r] = "WORK"
               THEN /\ fpc' = [fpc EXCEPT ![r] = "any"]
                    /\ UNCHANGED <<idx, pos, fend, pass, slots>>
               ELSE \E k \in 0..Len(v) - 1 :
                       /\ fpc' = [fpc EXCEPT ![r] = "scan"]
                       /\ idx' = [idx EXCEPT ![r] = k]
                       /\ pos' = [pos EXCEPT ![r] = k]
                       /\ fend' = [fend EXCEPT ![r] = Len(v)]
                       /\ pass' = [pass EXCEPT ![r] = 1]
                       /\ slots' = [slots EXCEPT ![r] = v]
    /\ UNCHANGED <<bcopy, joinOn, retTo, regVars>>

(* sendToAnyOfType: pick a random client of the live vector and sendTo    *)
(* it; on failure (the client is removed) pick again; stop when the       *)
(* vector is empty.                                                        *)
AnyStep(r) ==
    /\ fpc[r] = "any"
    /\ LET v == OfType(reg, CU) IN
       IF v = <<>>
       THEN SendReturns(r, FALSE) /\ UNCHANGED <<joinOn, retTo, regVars>>
       ELSE \E k \in 1..Len(v) :
              IF Delivers(v[k])
              THEN SendReturns(r, TRUE) /\ UNCHANGED <<joinOn, retTo, regVars>>
              ELSE RemoveAndJoin(r, v[k], "any") /\ UNCHANGED <<holder, outcome>>
    /\ UNCHANGED <<idx, pos, fend, pass, slots, bcopy>>

(* Erase position i (0-based) of a vector's memory: the tail moves left   *)
(* and the last slot keeps its old pointer.                                *)
Erase(s, i) == SubSeq(s, 1, i) \o SubSeq(s, i + 2, Len(s)) \o <<s[Len(s)]>>

(* find_and_send, one iteration: clients[i] is read through the vector   *)
(* reference, past size() once removals have shrunk it.  The original     *)
(* recipient is skipped.  A deleted ClientInfo still reads abort = true   *)
(* (release stored it before delete), so sendTo calls removeClient(info), *)
(* which finds no match, and returns false.                                *)
Scan(r) ==
    /\ fpc[r] = "scan"
    /\ pos[r] # fend[r]
    /\ LET t == slots[r][pos[r] + 1] IN
       CASE t = r \/ cstate[t] = "removed" ->
                 /\ pos' = [pos EXCEPT ![r] = @ + 1]
                 /\ UNCHANGED <<holder, fpc, outcome, slots, joinOn, retTo, regVars>>
         [] Delivers(t) ->
                 /\ SendReturns(r, TRUE)
                 /\ UNCHANGED <<pos, slots, joinOn, retTo, regVars>>
         [] OTHER ->
                 /\ RemoveAndJoin(r, t, "scan")
                 /\ slots' = [slots EXCEPT ![r] = Erase(@, pos[r])]
                 /\ pos' = [pos EXCEPT ![r] = @ + 1]
                 /\ UNCHANGED <<holder, outcome>>
    /\ UNCHANGED <<idx, fend, pass, bcopy>>

(* find_and_send returns false at i == end: try [0, idx), then give up.   *)
ScanEnd(r) ==
    /\ fpc[r] = "scan"
    /\ pos[r] = fend[r]
    /\ IF pass[r] = 1
       THEN /\ pass' = [pass EXCEPT ![r] = 2]
            /\ pos' = [pos EXCEPT ![r] = 0]
            /\ fend' = [fend EXCEPT ![r] = idx[r]]
            /\ UNCHANGED <<holder, fpc, outcome>>
       ELSE SendReturns(r, FALSE) /\ UNCHANGED <<pass, pos, fend>>
    /\ UNCHANGED <<idx, slots, bcopy, joinOn, retTo, regVars>>

(* release()'s join returns once the joined receiver has left its         *)
(* callback (its abort flag, now set, ends its loop).                      *)
JoinDone(r) ==
    /\ fpc[r] = "join"
    /\ fpc[joinOn[r]] = "done"
    /\ fpc' = [fpc EXCEPT ![r] = retTo[r]]
    /\ UNCHANGED <<holder, idx, pos, fend, pass, slots, bcopy, joinOn, retTo, outcome, regVars>>

(* sendToAllOfType(MONITOR_UNIT): hasClients(), then under cl_mutex walk  *)
(* a copy of the monitor vector.                                           *)
Bcast(r) ==
    /\ fpc[r] = "bcast"
    /\ holder = NoFwd
    /\ IF reg = <<>>
       THEN fpc' = [fpc EXCEPT ![r] = "done"] /\ UNCHANGED <<holder, pos, bcopy>>
       ELSE /\ holder' = r
            /\ fpc' = [fpc EXCEPT ![r] = "bloop"]
            /\ bcopy' = [bcopy EXCEPT ![r] = OfType(reg, MONITOR)]
            /\ pos' = [pos EXCEPT ![r] = 1]
    /\ UNCHANGED <<idx, fend, pass, slots, joinOn, retTo, outcome, regVars>>

(* One iteration of the broadcast loop: a raw ::send on the copy's        *)
(* handle.  An aborted peer's socket may still accept the bytes.  On      *)
(* failure removeClient deletes the ClientInfo and the loop continues     *)
(* without advancing, so the next iteration reads the deleted entry: its  *)
(* closed handle fails every send (removeClient finds nothing) and the    *)
(* loop never ends, unless the descriptor was reused by a new accept.     *)
BStep(r) ==
    /\ fpc[r] = "bloop"
    /\ IF pos[r] > Len(bcopy[r])
       THEN /\ holder' = NoFwd
            /\ fpc' = [fpc EXCEPT ![r] = "done"]
            /\ UNCHANGED <<pos, joinOn, retTo, regVars>>
       ELSE LET m == bcopy[r][pos[r]] IN
            CASE cstate[m] = "live" ->
                   pos' = [pos EXCEPT ![r] = @ + 1] /\ UNCHANGED <<holder, fpc, joinOn, retTo, regVars>>
              [] cstate[m] = "removed" ->
                   /\ \/ fpc' = [fpc EXCEPT ![r] = "spin"] /\ UNCHANGED pos
                      \/ pos' = [pos EXCEPT ![r] = @ + 1] /\ UNCHANGED fpc
                   /\ UNCHANGED <<holder, joinOn, retTo, regVars>>
              [] OTHER ->
                   /\ \/ cstate[m] = "aborted" /\ pos' = [pos EXCEPT ![r] = @ + 1]
                                               /\ UNCHANGED <<fpc, joinOn, retTo, regVars>>
                      \/ RemoveAndJoin(r, m, "bloop") /\ UNCHANGED pos
                   /\ UNCHANGED holder
    /\ UNCHANGED <<idx, fend, pass, slots, bcopy, outcome>>

-----------------------------------------------------------------------------
(* Registry steps of other threads.  Registration and clear_aborted take  *)
(* cl_mutex; recv == 0 is seen only by an idle receiver; a reset can hit  *)
(* any socket.                                                             *)
RegistryStep ==
    /\ \/ holder = NoFwd /\ \E c \in Clients : Connect(c)
       \/ holder = NoFwd /\ OtherClear
       \/ \E c \in Clients : ~Busy(c) /\ Hangup(c)
       \/ \E c \in Clients : Reset(c)
    /\ UNCHANGED sendVars

Init ==
    /\ RegInit
    /\ holder = NoFwd
    /\ fpc = [r \in Fwd |-> "idle"]
    /\ idx = [r \in Fwd |-> 0]
    /\ pos = [r \in Fwd |-> 0]
    /\ fend = [r \in Fwd |-> 0]
    /\ pass = [r \in Fwd |-> 1]
    /\ slots = [r \in Fwd |-> <<>>]
    /\ bcopy = [r \in Fwd |-> <<>>]
    /\ joinOn = [r \in Fwd |-> r]
    /\ retTo = [r \in Fwd |-> "any"]
    /\ outcome = [r \in Fwd |-> "pending"]

Forward(r) == Start(r) \/ AnyStep(r) \/ Scan(r) \/ ScanEnd(r) \/ JoinDone(r)
              \/ Bcast(r) \/ BStep(r)

Next == RegistryStep \/ \E r \in Fwd : Forward(r)

(* Every receiver thread that can take a step of its callback eventually  *)
(* does; the peers' hangups and resets and new connections are not        *)
(* forced.                                                                 *)
Spec == Init /\ [][Next]_vars /\ \A r \in Fwd : WF_vars(Forward(r))

TypeOK ==
    /\ RegTypeOK
    /\ holder \in Fwd \cup {NoFwd}
    /\ fpc \in [Fwd -> Phase]
    /\ outcome \in [Fwd -> {"pending", "delivered", "noTarget", "lost"}]

(* Forwarding (spec 5 and scenario S6): a message handed to a forward     *)
(* callback eventually leaves it, having been sent to a live compute unit  *)
(* (other than the sender, for a reroute) unless none was registered when *)
(* the send returned.  Broken by find_and_send's fixed end, by the        *)
(* broadcast loop on a deleted client, and by release() joining a busy    *)
(* receiver under cl_mutex.                                                *)
ForwardDelivered ==
    \A r \in Fwd : fpc[r] # "idle" ~> fpc[r] = "done" /\ outcome[r] \in {"delivered", "noTarget"}
====
