------------------------------ MODULE FileDelivery ------------------------------
(***************************************************************************)
(* What a file transfer of a support session promises, whatever messages   *)
(* carry it: a file is offered, the other side accepts it, and only then   *)
(* is it delivered, whole.  One file at a time is accepted; an accepted    *)
(* file that is not delivered yields to the next one.                      *)
(***************************************************************************)
EXTENDS Integers

CONSTANTS
  Files,  \* the files somebody may offer
  Size    \* chunks of a file

VARIABLES
  offered,   \* files put before the other side
  open,      \* the file it agreed to take and has not got yet, 0 if none
  delivered  \* delivered[f]: chunks of f handed to its user, 0 before that

deliveryVars == <<offered, open, delivered>>

Init ==
  /\ offered = {}
  /\ open = 0
  /\ delivered = [f \in Files |-> 0]

Offer(f) ==
  /\ f \in Files \ offered
  /\ offered' = offered \cup {f}
  /\ UNCHANGED <<open, delivered>>

Accept(f) ==
  /\ f \in offered /\ delivered[f] = 0
  /\ open' = f
  /\ UNCHANGED <<offered, delivered>>

Deliver(f) ==
  /\ open = f
  /\ open' = 0
  /\ delivered' = [delivered EXCEPT ![f] = Size]
  /\ UNCHANGED offered

Next == \E f \in Files : Offer(f) \/ Accept(f) \/ Deliver(f)

Spec == Init /\ [][Next]_deliveryVars
=============================================================================
