-------------------------- MODULE DeliveryContract --------------------------
(***************************************************************************)
(* What delayed notifications promise, without replicas, claims or polls:  *)
(* a scheduled notification ends in exactly one of three ways, for good.   *)
(* It is delivered, once; it is withdrawn by an acknowledgement; or it is  *)
(* dropped, which without faults happens only while its incident is not    *)
(* open.                                                                   *)
(***************************************************************************)
EXTENDS Naturals

CONSTANTS
  Notification,
  Lossy            \* TRUE when faults may lose a notification

VARIABLES
  ledger,          \* what has become of each notification
  delivered,       \* how often it was sent
  isOpen           \* whether its incident is open; the environment's

contractVars == <<ledger, delivered, isOpen>>

ContractInit ==
  /\ ledger = [n \in Notification |-> "none"]
  /\ delivered = [n \in Notification |-> 0]
  /\ isOpen = [n \in Notification |-> FALSE]

Settle(S, outcome) ==
  /\ \A n \in S : ledger[n] = "scheduled"
  /\ ledger' = [n \in Notification |-> IF n \in S THEN outcome ELSE ledger[n]]

Schedule(n) ==
  /\ ledger[n] = "none"
  /\ ledger' = [ledger EXCEPT ![n] = "scheduled"]
  /\ UNCHANGED delivered

Deliver(n) ==
  /\ Settle({n}, "delivered")
  /\ delivered' = [delivered EXCEPT ![n] = @ + 1]

Withdraw(S) == Settle(S, "withdrawn") /\ UNCHANGED delivered

Drop(S) ==
  /\ Settle(S, "dropped")
  /\ Lossy \/ \A n \in S : ~isOpen[n]
  /\ UNCHANGED delivered

IncidentChanges == UNCHANGED <<ledger, delivered>>

ContractNext ==
  /\ \/ \E n \in Notification : Schedule(n) \/ Deliver(n)
     \/ \E S \in SUBSET Notification : Withdraw(S) \/ Drop(S)
     \/ IncidentChanges
  /\ isOpen' \in [Notification -> BOOLEAN]

ContractSpec == ContractInit /\ [][ContractNext]_contractVars
============================================================================
