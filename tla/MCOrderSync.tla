---------------------------- MODULE MCOrderSync ----------------------------
(* Small instances of OrderSync: one order, or two requests with one key.  *)
EXTENDS OrderSync

CONSTANTS
  o1, o2, k,
  MaxFaultKinds   \* bound: the kinds of fault one order meets

OneOrder  == {o1}
OneKeyOf  == [o \in OneOrder |-> k]

TwoOrders == {o1, o2}
SameKeyOf == [o \in TwoOrders |-> k]

(* Some kinds of fault, or any that leave one of the causal properties to *)
(* be checked.                                                            *)
FewFaults ==
  \A o \in Orders : \/ Cardinality(trouble[o]) <= MaxFaultKinds
                    \/ trouble[o] \cap MailCauses = {}
                    \/ trouble[o] \cap StrandingCauses = {}

=============================================================================
