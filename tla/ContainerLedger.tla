-------------------------- MODULE ContainerLedger --------------------------
(***************************************************************************)
(* What the Mesos agent may believe of the isolator after handing it a     *)
(* call (src/CpusetIsolator.hpp:134-197): the first resources given for a  *)
(* container stay until that container is cleaned up, and a restart        *)
(* forgets all of them.  The agent sees each call take effect when it      *)
(* dispatches it; CpusetIsolator, which serves calls later and one at a    *)
(* time, implements this module.                                           *)
(***************************************************************************)
CONSTANTS
  Containers,
  Resources,
  NoResources    \* what the ledger says of an unknown container

VARIABLE ledger

Empty == [c \in Containers |-> NoResources]

Noted(l, c, r) == IF l[c] = NoResources THEN [l EXCEPT ![c] = r] ELSE l

Erased(l, c) == [l EXCEPT ![c] = NoResources]

Init == ledger = Empty

Note == \E c \in Containers, r \in Resources : ledger' = Noted(ledger, c, r)

Erase == \E c \in Containers : ledger' = Erased(ledger, c)

Forget == ledger' = Empty

Next == Note \/ Erase \/ Forget

Spec == Init /\ [][Next]_ledger
=============================================================================
