----------------------------- MODULE WriteLease ------------------------------
(****************************************************************************)
(* What the ownership rules of a workspace promise (RFC-021 section 10):    *)
(* there is one write lease; a free lease may be acquired, its holder may   *)
(* give it up, and it passes straight from one client to another only by a  *)
(* take-over, which only a persistent workspace allows. Module Workspace    *)
(* implements this specification.                                           *)
(****************************************************************************)
CONSTANTS Clients, Nobody

VARIABLES holder, policy

Init ==
  /\ holder = Nobody
  /\ policy \in {"Persistent", "Ephemeral"}

Acquire(c) ==
  /\ holder = Nobody
  /\ holder' = c
  /\ UNCHANGED policy

Release ==
  /\ holder # Nobody
  /\ holder' = Nobody
  /\ UNCHANGED policy

Seize(c) ==
  /\ policy = "Persistent"
  /\ holder \notin {Nobody, c}
  /\ holder' = c
  /\ UNCHANGED policy

Next == Release \/ \E c \in Clients : Acquire(c) \/ Seize(c)

Spec == Init /\ [][Next]_<<holder, policy>>
==============================================================================
