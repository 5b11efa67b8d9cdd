-------------------------- MODULE InvocationContract --------------------------
(***************************************************************************)
(* What ServiceSupervisor::invoke_remote promises the caller of a plugin    *)
(* action, whatever the service, its restarts and the daemon's shutdown do: *)
(*                                                                         *)
(*   - a call returns at most once, with one outcome;                      *)
(*   - it is delivered to a service process at most once, ever;            *)
(*   - "answered" is only said of a call that was delivered;               *)
(*   - a refusal is final: the call was not and will not be delivered, so   *)
(*     the caller may repeat it. Only a call that is told "action_timeout"  *)
(*     may still be delivered, late.                                        *)
(***************************************************************************)
EXTENDS Naturals

CONSTANTS
    Calls,
    Refusals,       \* outcomes that promise the call was never delivered
    Failures,       \* outcomes of a call that was delivered or never will be
    None

VARIABLES
    status,         \* "new", "open" or "closed"
    deliveries,     \* how many times the call reached a service process
    told            \* the outcome of a closed call

contractVars == <<status, deliveries, told>>

ContractInit ==
    /\ status = [c \in Calls |-> "new"]
    /\ deliveries = [c \in Calls |-> 0]
    /\ told = [c \in Calls |-> None]

Submit(c) ==
    /\ status[c] = "new"
    /\ status' = [status EXCEPT ![c] = "open"]
    /\ UNCHANGED <<deliveries, told>>

Deliver(c) ==
    /\ deliveries[c] = 0
    /\ status[c] = "open" \/ told[c] = "action_timeout"
    /\ deliveries' = [deliveries EXCEPT ![c] = 1]
    /\ UNCHANGED <<status, told>>

Close(c, o) ==
    /\ status[c] \in {"new", "open"}
    /\ o = "answered" => deliveries[c] = 1
    /\ o \in Refusals => deliveries[c] = 0
    /\ status' = [status EXCEPT ![c] = "closed"]
    /\ told' = [told EXCEPT ![c] = o]
    /\ UNCHANGED deliveries

ContractNext ==
    \E c \in Calls :
        \/ Submit(c)
        \/ Deliver(c)
        \/ \E o \in {"answered", "action_timeout"} \union Refusals \union Failures :
               Close(c, o)

ContractSpec == ContractInit /\ [][ContractNext]_contractVars
===============================================================================
