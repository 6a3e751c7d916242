----------------------------- MODULE OrderLedger -----------------------------
(***************************************************************************)
(* What order intake and synchronisation promise together, whatever the    *)
(* queue, the worker and the handlers do in between: of the requests that  *)
(* carry one idempotency key at most one has an order, an order is posted  *)
(* to the ERP only if it was once accepted, and a present order, once      *)
(* linked to an order the ERP created for it, stays linked to one.         *)
(***************************************************************************)
EXTENDS Naturals

CONSTANTS Orders, Keys, KeyOf

VARIABLES
  present,  \* the orders on record
  known,    \* the orders that were ever on record
  created,  \* created[o]: the orders the ERP created for o
  link      \* link[o]: the one of them the record names, 0 for none

vars == <<present, known, created, link>>

Init ==
  /\ present = {}
  /\ known   = {}
  /\ created = [o \in Orders |-> 0]
  /\ link    = [o \in Orders |-> 0]

Accept(o) ==
  /\ o \notin known
  /\ \A p \in present : KeyOf[p] # KeyOf[o]
  /\ present' = present \cup {o}
  /\ known'   = known \cup {o}
  /\ UNCHANGED <<created, link>>

Create(o) ==
  /\ o \in known
  /\ created' = [created EXCEPT ![o] = @ + 1]
  /\ UNCHANGED <<present, known, link>>

Link(o) ==
  /\ o \in present
  /\ \E id \in 1 .. created[o] : link' = [link EXCEPT ![o] = id]
  /\ UNCHANGED <<present, known, created>>

Remove(o) ==
  /\ o \in present
  /\ present' = present \ {o}
  /\ link'    = [link EXCEPT ![o] = 0]
  /\ UNCHANGED <<known, created>>

Next == \E o \in Orders : Accept(o) \/ Create(o) \/ Link(o) \/ Remove(o)

Spec == Init /\ [][Next]_vars

=============================================================================
