------------------------------ MODULE Delivery ------------------------------
(***************************************************************************)
(* What the upload pipeline promises for the items handed to it: an item   *)
(* taken into the outbox leaves it only by reaching the backend or by      *)
(* being given up to a capacity cap, and what was given up is never        *)
(* reported as delivered nor comes back.                                   *)
(***************************************************************************)
CONSTANT Items

VARIABLES outbox, delivered, givenUp

deliveryVars == <<outbox, delivered, givenUp>>

Fresh == Items \ (outbox \cup delivered \cup givenUp)

DeliveryInit ==
  /\ outbox = {}
  /\ delivered = {}
  /\ givenUp = {}

\* Take S in, and give V up, of what is waiting or has just come.
Take(S, V) ==
  /\ S \subseteq Fresh
  /\ V \subseteq outbox \cup S
  /\ outbox' = (outbox \cup S) \ V
  /\ givenUp' = givenUp \cup V
  /\ UNCHANGED delivered

Deliver(S) ==
  /\ S \subseteq outbox
  /\ outbox' = outbox \ S
  /\ delivered' = delivered \cup S
  /\ UNCHANGED givenUp

DeliveryNext ==
  \/ \E S \in SUBSET Items, V \in SUBSET Items : Take(S, V)
  \/ \E S \in SUBSET Items : Deliver(S)

DeliverySpec == DeliveryInit /\ [][DeliveryNext]_deliveryVars
=============================================================================
