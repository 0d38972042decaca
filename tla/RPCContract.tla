---------------------------- MODULE RPCContract -----------------------------
(***************************************************************************)
(* What an entity RPC promises, whatever the network does: the comments on *)
(* enum RPCType in RPC.hpp say, for each type, on which machines a call    *)
(* executes.  A call may execute nowhere else, at most once on a machine,  *)
(* and a machine executes the calls of one caller in the order they were   *)
(* made.  A call may also be lost: the machine may have left, or the       *)
(* entity may be gone.  That calls are not lost without such a reason is   *)
(* a liveness property of module EntityRPC.                                *)
(***************************************************************************)
EXTENDS Naturals, Sequences

CONSTANTS
  Machines,  \* every program of the session
  Types      \* the types of the RPCs that are registered

VARIABLES
  issued,    \* the calls made so far: who called, who owns the entity, the type
  executed   \* executed[m]: the calls m has executed, in that order

vars == <<issued, executed>>

Calls == [caller : Machines, owner : Machines, type : Types]

(* The machines a call is for.                                             *)
Audience(call) ==
  CASE call.type = "Master" -> {call.owner}
    [] call.type = "Remote" /\ call.caller = call.owner -> Machines \ {call.owner}
    [] call.type = "RemoteAndLocal" /\ call.caller = call.owner -> Machines
    [] call.type = "MasterAndRemote" -> Machines \ {call.caller}
    [] call.type = "Local" -> {call.caller}
    [] call.type = "All" -> Machines
    [] OTHER -> {}

(* m has executed nothing of this caller that was called later, nor this.  *)
InOrder(m, n) ==
  \A i \in 1..Len(executed[m]) :
    issued[executed[m][i]].caller = issued[n].caller => executed[m][i] < n

Init ==
  /\ issued = <<>>
  /\ executed = [m \in Machines |-> <<>>]

(* A call, and perhaps its execution on the caller's own machine.          *)
Invoke(call) ==
  /\ issued' = Append(issued, call)
  /\ \/ UNCHANGED executed
     \/ /\ call.caller \in Audience(call)
        /\ executed' = [executed EXCEPT ![call.caller] = Append(@, Len(issued) + 1)]

Execute(m) ==
  \E n \in 1..Len(issued) :
    /\ m \in Audience(issued[n])
    /\ InOrder(m, n)
    /\ executed' = [executed EXCEPT ![m] = Append(@, n)]
    /\ UNCHANGED issued

Next ==
  \/ \E call \in Calls : Invoke(call)
  \/ \E m \in Machines : Execute(m)

Spec == Init /\ [][Next]_vars
=============================================================================
