-------------------------- MODULE OrderLedgerProofs --------------------------
(***************************************************************************)
(* OrderSync implements OrderLedger: inserting a document accepts an order,*)
(* a POST that reaches the ERP creates one, saving an ERP id links it, and *)
(* a delete removes it; every other step leaves the ledger alone.          *)
(***************************************************************************)
EXTENDS OrderSyncProofs

USE ConstantsAssumption

LedgerInv == TypeOK /\ KnownInv /\ LinkInv /\ AbsentInv

(* No order is known at first, in the ledger as in the system. *)
LEMMA LedgerInit == Init => Ledger!Init
  BY DEF Init, Ledger!Init, Known, LinkOf, NewDoc

(* Links that are the same for every order are the same function. *)
LEMMA SameLinks ==
  ASSUME \A p \in Orders : order'[p].snelstartOrderId = order[p].snelstartOrderId
  PROVE  LinkOf' = LinkOf
  BY DEF LinkOf

(* A create request inserts one ledger entry or leaves the ledger alone. *)
LEMMA LedgerIntake ==
  ASSUME LedgerInv, NEW o \in Orders, CreateOrder(o)
  PROVE  Ledger!Accept(o) \/ UNCHANGED Ledger!vars
<1>0. UNCHANGED erp
  BY HandlerFrame DEF Handler
<1>1. CASE InsertOrder(o) /\ SameKey(o) = {}
  <2>1. o \notin Known /\ \A p \in stored : KeyOf[p] # KeyOf[o]
    BY <1>1 DEF InsertOrder, SameKey, Known
  <2>2. stored' = stored \cup {o} /\ Known' = Known \cup {o}
    BY <1>1 DEF InsertOrder, Known, LedgerInv, TypeOK
  <2>3. LinkOf' = LinkOf
    <3>1. order[o] = NewDoc
      BY <2>1 DEF LedgerInv, AbsentInv
    <3>2. UNCHANGED order
      BY <1>1, <3>1 DEF InsertOrder, LedgerInv, TypeOK
    <3> QED
      BY <3>2 DEF LinkOf
  <2> QED
    BY <1>0, <2>1, <2>2, <2>3 DEF Ledger!Accept
<1>2. CASE ~(InsertOrder(o) /\ SameKey(o) = {})
  <2>1. UNCHANGED <<stored, order>> /\ Known' = Known
    BY <1>2 DEF CreateOrder, CheckKey, InsertOrder, EnqueueOrder, DropRequest,
                Known, LedgerInv, TypeOK
  <2> QED
    BY <1>0, <2>1 DEF Ledger!vars, LinkOf
<1> QED
  BY <1>1, <1>2

(* Retries and confirmations stutter; a delete is a ledger delete. *)
LEMMA LedgerManual ==
  ASSUME LedgerInv, Handler, \A o \in Orders : ~CreateOrder(o)
  PROVE  (\E o \in Orders : Ledger!Remove(o)) \/ UNCHANGED Ledger!vars
<1>0. UNCHANGED erp
  BY HandlerFrame
<1>1. CASE \E o \in Orders : DeleteOrder(o)
  <2>1. PICK o \in Orders : DeleteOrder(o)
    BY <1>1
  <2>2. o \in stored /\ stored' = stored \ {o} /\ Known' = Known
    BY <2>1 DEF DeleteOrder, Known
  <2>3. LinkOf' = [LinkOf EXCEPT ![o] = 0]
    BY <2>1 DEF DeleteOrder, LinkOf, NewDoc, LedgerInv, TypeOK
  <2> QED
    BY <1>0, <2>2, <2>3 DEF Ledger!Remove
<1>2. CASE ~\E o \in Orders : DeleteOrder(o)
  <2>1. UNCHANGED stored /\ Known' = Known
    BY <1>2 DEF Handler, SendConfirmation, ConfirmLoad, ConfirmSend, ConfirmSave,
                RetryLoad, RetryOrder, RetrySave, RetryEnqueue, DropRetry, Known
  <2>2. LinkOf' = LinkOf
    BY <1>2, HandlerLink, SameLinks DEF LedgerInv
  <2> QED
    BY <1>0, <2>1, <2>2 DEF Ledger!vars
<1> QED
  BY <1>1, <1>2

(* A worker step creates an ERP order, links one, or stutters. *)
LEMMA LedgerWorker ==
  ASSUME LedgerInv, NEW j \in Jobs, Worker(j) \/ Crash(j)
  PROVE  \/ Ledger!Create(OrderOf(j)) \/ Ledger!Link(OrderOf(j))
         \/ UNCHANGED Ledger!vars
<1> DEFINE o == OrderOf(j)
<1>0. /\ o \in Orders /\ UNCHANGED stored /\ Known' = Known
      /\ \A p \in Orders \ {o} : order'[p] = order[p]
  BY JobsFacts, WorkerFrame DEF Known, LedgerInv
<1>1. CASE PostOrder(j)
  <2>1. LinkOf' = LinkOf
    BY <1>1 DEF PostOrder, LinkOf
  <2>2. o \in Known
    <3>1. Live(j)
      BY WorkerJob DEF LedgerInv
    <3> QED
      BY <3>1 DEF LedgerInv, KnownInv, Live
  <2>3. UNCHANGED erp \/ erp' = [erp EXCEPT ![o] = @ + 1]
    BY <1>1 DEF PostOrder
  <2> QED
    BY <1>0, <2>1, <2>2, <2>3 DEF Ledger!Create, Ledger!vars
<1>2. CASE ~PostOrder(j)
  <2>1. UNCHANGED erp
    BY <1>2 DEF Worker, StartJob, LoadOrder, Authorise, SaveSynced,
         NotifySuccess, ConfirmCustomer, SaveConfirmed, SaveMailError, SaveFailure,
         JobReturns, JobThrows, Crash
  <2>2. LinkKept(o)
    BY WorkerLink DEF LedgerInv
  <2>3. CASE order'[o].snelstartOrderId = order[o].snelstartOrderId
    BY <1>0, <2>1, <2>3, SameLinks DEF Ledger!vars
  <2>4. CASE o \in stored /\ order'[o].snelstartOrderId \in 1 .. erp[o]
    <3>1. LinkOf' = [LinkOf EXCEPT ![o] = order'[o].snelstartOrderId]
      BY <1>0 DEF LinkOf
    <3> QED
      BY <1>0, <2>1, <2>4, <3>1 DEF Ledger!Link
  <2> QED
    BY <2>2, <2>3, <2>4 DEF LinkKept
<1> QED
  BY <1>1, <1>2

(* Every step of the system is a step of the ledger or leaves it alone.    *)
THEOREM LedgerKept == Spec => KeepsLedger
<1>1. LedgerInv /\ [Next]_vars => [Ledger!Next]_(Ledger!vars)
  <2> SUFFICES ASSUME LedgerInv, [Next]_vars
               PROVE  Ledger!Next \/ UNCHANGED Ledger!vars
    OBVIOUS
  <2>1. CASE UNCHANGED vars
    BY <2>1 DEF vars, Ledger!vars, Known, LinkOf
  <2>2. CASE \E o \in Orders : CreateOrder(o)
    BY <2>2, LedgerIntake DEF Ledger!Next
  <2>3. CASE Handler /\ ~\E o \in Orders : CreateOrder(o)
    BY <2>3, LedgerManual DEF Ledger!Next
  <2>4. CASE \E j \in Jobs : Worker(j) \/ Crash(j)
    BY <2>4, LedgerWorker, JobsFacts DEF Ledger!Next
  <2> QED
    BY <2>1, <2>2, <2>3, <2>4, NextSplit
<1>2. Spec => []LedgerInv
  BY TypeCorrect, Links, AbsentBlank, PTL DEF LedgerInv
<1> QED
  BY <1>1, <1>2, LedgerInit, PTL DEF Spec, KeepsLedger, Ledger!Spec

=============================================================================
