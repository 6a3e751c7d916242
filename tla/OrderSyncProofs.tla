--------------------------- MODULE OrderSyncProofs ---------------------------
(***************************************************************************)
(* Proofs about OrderSync, for any requests, keys, attempts, stalls and    *)
(* manual retries.                                                         *)
(***************************************************************************)
EXTENDS OrderSync, TLAPS

USE ConstantsAssumption

(* A job carries an order, and every order has a first job. *)
LEMMA JobsFacts ==
  /\ \A j \in Jobs : OrderOf(j) \in Orders
  /\ \A o \in Orders : <<o, 0>> \in Jobs /\ OrderOf(<<o, 0>>) = o
  /\ RetryJobs \subseteq Jobs
  BY DEF Jobs, RetryJobs, OrderOf

(* A new document and an idle run have the right type. *)
LEMMA DocFacts ==
  /\ NewDoc \in Doc
  /\ IdleRun \in [pc : Points, doc : Doc, dirty : SUBSET Fields]
  BY DEF NewDoc, Doc, Status, IdleRun, Points

(* A save leaves a document. *)
LEMMA SavedType ==
  ASSUME TypeOK, NEW o \in Orders, NEW doc \in Doc, NEW dirty
  PROVE  Saved(o, doc, dirty) \in Doc
  BY DEF TypeOK, Saved, Doc

(* The catch block leaves a document of the right type. *)
LEMMA FailedDocType ==
  ASSUME NEW doc \in Doc
  PROVE  FailedDoc(doc) \in Doc
<1> DEFINE st == IF IsFinalFailure(doc.retryCount + 1)
                   THEN "SYNC_FAILED" ELSE "PENDING_SYNC"
<1>1. doc.retryCount + 1 \in Nat /\ st \in Status
  BY DEF Doc, Status
<1> HIDE DEF st
<1>2. [doc EXCEPT !.retryCount = @ + 1, !.status = st] \in Doc
  BY <1>1 DEF Doc
<1> QED
  BY <1>2 DEF FailedDoc, st

(* The initial state has the declared shape. *)
LEMMA InitType == Init => TypeOK
  BY JobsFacts, DocFacts
  DEF Init, TypeOK, IntakeStates, JobStates, Status, Faults

(* A job that changes its state keeps the types. *)
LEMMA JobStateType ==
  ASSUME TypeOK, NEW j \in Jobs, NEW state \in JobStates
  PROVE  [job EXCEPT ![j].state = state]
           \in [Jobs -> [state : JobStates, attemptsMade : Nat, stalled : Nat]]
  BY DEF TypeOK

(* Recording a fault keeps the types. *)
LEMMA SufferType ==
  ASSUME TypeOK, NEW o \in Orders, NEW faults \in SUBSET Faults,
         Suffer(o, faults)
  PROVE  trouble' \in [Orders -> SUBSET Faults]
  BY DEF Suffer, TypeOK

(* A job that is added keeps the types. *)
LEMMA AddJobType ==
  ASSUME TypeOK, NEW j \in Jobs, AddJob(j)
  PROVE  /\ job' \in [Jobs -> [state : JobStates, attemptsMade : Nat, stalled : Nat]]
         /\ trouble' \in [Orders -> SUBSET Faults]
<1>1. OrderOf(j) \in Orders
  BY JobsFacts
<1>2. \A faults \in {{"overlap"}, {}} : faults \in SUBSET Faults
  BY DEF Faults
<1>3. trouble' \in [Orders -> SUBSET Faults]
  BY <1>1, <1>2, SufferType DEF AddJob
<1>4. "waiting" \in JobStates
  BY DEF JobStates
<1> QED
  BY <1>3, <1>4, JobStateType DEF AddJob

(* The steps of createOrder keep the types. *)
LEMMA IntakeType ==
  ASSUME TypeOK, NEW o \in Orders, CreateOrder(o)
  PROVE  TypeOK'
<1>1. CASE CheckKey(o)
  BY <1>1 DEF CheckKey, TypeOK, IntakeStates
<1>2. CASE InsertOrder(o)
  <2>1. stored' \subseteq Orders /\ intake' \in [Orders -> IntakeStates]
    BY <1>2 DEF InsertOrder, TypeOK, IntakeStates
  <2>2. order' \in [Orders -> Doc]
    BY <1>2, DocFacts DEF InsertOrder, TypeOK
  <2> QED
    BY <1>2, <2>1, <2>2 DEF InsertOrder, TypeOK
<1>3. CASE EnqueueOrder(o)
  <2>1. <<o, 0>> \in Jobs
    BY JobsFacts
  <2>2. intake' \in [Orders -> IntakeStates]
    BY <1>3 DEF EnqueueOrder, TypeOK, IntakeStates
  <2> QED
    BY <1>3, <2>1, <2>2, AddJobType DEF EnqueueOrder, TypeOK
<1>4. CASE DropRequest(o)
  BY <1>4 DEF DropRequest, Suffer, TypeOK, IntakeStates, Faults
<1> QED
  BY <1>1, <1>2, <1>3, <1>4 DEF CreateOrder

(* The steps of retryOrder keep the types. *)
LEMMA RetryType ==
  ASSUME TypeOK, NEW j \in RetryJobs, RetryLoad(j) \/ RetryOrder(j)
  PROVE  TypeOK'
<1> DEFINE o == OrderOf(j)
<1>0. o \in Orders /\ j \in Jobs
  BY JobsFacts
<1>1. CASE RetryLoad(j)
  BY <1>0, <1>1 DEF RetryLoad, TypeOK, Doc
<1>2. CASE RetrySave(j)
  <2>1. order' \in [Orders -> Doc]
    <3>1. Saved(o, NewDoc, RetryDirty(retry[j])) \in Doc
      BY <1>0, DocFacts, SavedType
    <3> QED
      BY <1>0, <1>2, <3>1 DEF RetrySave, TypeOK
  <2>2. trouble' \in [Orders -> SUBSET Faults]
    BY <1>0, <1>2 DEF RetrySave, Suffer, TypeOK, Faults
  <2>3. retry' \in [RetryJobs -> [pc : {"new", "loaded", "saved", "over"},
                                 status : Status, retryCount : Nat]]
    <3>1. \A point \in {"saved", "over"} :
            [retry EXCEPT ![j].pc = point]
              \in [RetryJobs -> [pc : {"new", "loaded", "saved", "over"},
                                status : Status, retryCount : Nat]]
      BY DEF TypeOK
    <3> QED
      BY <1>2, <3>1 DEF RetrySave
  <2> QED
    BY <1>2, <2>1, <2>2, <2>3 DEF RetrySave, TypeOK
<1>3. CASE RetryEnqueue(j)
  <2>1. retry' \in [RetryJobs -> [pc : {"new", "loaded", "saved", "over"},
                                 status : Status, retryCount : Nat]]
    BY <1>3 DEF RetryEnqueue, TypeOK
  <2> QED
    BY <1>0, <1>3, <2>1, AddJobType DEF RetryEnqueue, TypeOK
<1>4. CASE DropRetry(j)
  <2>1. retry' \in [RetryJobs -> [pc : {"new", "loaded", "saved", "over"},
                                 status : Status, retryCount : Nat]]
    BY <1>4 DEF DropRetry, TypeOK
  <2>2. \A faults \in {{"lost"}, {}} : faults \in SUBSET Faults
    BY DEF Faults
  <2>3. trouble' \in [Orders -> SUBSET Faults]
    BY <1>0, <1>4, <2>2, SufferType DEF DropRetry
  <2> QED
    BY <1>4, <2>1, <2>3 DEF DropRetry, TypeOK
<1> QED
  BY <1>1, <1>2, <1>3, <1>4 DEF RetryOrder

(* The steps of the manual confirmation and the delete keep the types. *)
LEMMA ManualType ==
  ASSUME TypeOK, NEW o \in Orders,
         SendConfirmation(o) \/ ConfirmLoad(o) \/ DeleteOrder(o)
  PROVE  TypeOK'
<1>1. CASE ConfirmLoad(o)
  BY <1>1 DEF ConfirmLoad, TypeOK
<1>2. CASE ConfirmSend(o)
  BY <1>2 DEF ConfirmSend, TypeOK
<1>3. CASE ConfirmSave(o)
  <2>1. [order EXCEPT ![o].confirmed = TRUE] \in [Orders -> Doc]
    <3>1. order[o] \in Doc
      BY DEF TypeOK
    <3>2. [order[o] EXCEPT !.confirmed = TRUE] \in Doc
      BY <3>1 DEF Doc
    <3> QED
      BY <3>2 DEF TypeOK
  <2> QED
    BY <1>3, <2>1 DEF ConfirmSave, TypeOK
<1>4. CASE DeleteOrder(o)
  BY <1>4, DocFacts DEF DeleteOrder, TypeOK
<1> QED
  BY <1>1, <1>2, <1>3, <1>4 DEF SendConfirmation

(* Moving a run on, saving its copy and failing to save it keep the types. *)
LEMMA GotoType ==
  ASSUME TypeOK, NEW j \in Jobs, NEW point \in Points, Goto(j, point)
  PROVE  run' \in [Jobs -> [pc : Points, doc : Doc, dirty : SUBSET Fields]]
  BY DEF Goto, TypeOK

(* The save of a run that succeeds keeps the types. *)
LEMMA SaveRunType ==
  ASSUME TypeOK, NEW j \in Jobs, NEW doc \in Doc, NEW dirty,
         NEW point \in Points, SaveRun(j, doc, dirty, point)
  PROVE  /\ order' \in [Orders -> Doc]
         /\ run' \in [Jobs -> [pc : Points, doc : Doc, dirty : SUBSET Fields]]
<1>1. OrderOf(j) \in Orders
  BY JobsFacts
<1>2. Saved(OrderOf(j), doc, dirty) \in Doc
  BY <1>1, SavedType
<1>3. order' \in [Orders -> Doc]
  BY <1>1, <1>2 DEF SaveRun, TypeOK
<1>4. [pc |-> point, doc |-> doc, dirty |-> {}]
        \in [pc : Points, doc : Doc, dirty : SUBSET Fields]
  OBVIOUS
<1> QED
  BY <1>3, <1>4 DEF SaveRun, TypeOK

(* The save of a run that throws keeps the types. *)
LEMMA SaveThrowsType ==
  ASSUME TypeOK, NEW j \in Jobs, NEW point \in Points, SaveThrows(j, point)
  PROVE  /\ order' \in [Orders -> Doc]
         /\ run' \in [Jobs -> [pc : Points, doc : Doc, dirty : SUBSET Fields]]
         /\ trouble' \in [Orders -> SUBSET Faults]
<1>1. OrderOf(j) \in Orders
  BY JobsFacts
<1>2. (IF OrderOf(j) \in stored THEN {"save"} ELSE {}) \in SUBSET Faults
  BY DEF Faults
<1> QED
  BY <1>1, <1>2, GotoType, SufferType DEF SaveThrows, TypeOK

(* The copy a run holds is a document, its modified paths are fields. *)
LEMMA RunFacts ==
  ASSUME TypeOK, NEW j \in Jobs
  PROVE  run[j].doc \in Doc /\ run[j].dirty \in SUBSET Fields
  BY DEF TypeOK

(* Every step of the worker keeps the types. *)
LEMMA WorkerType ==
  ASSUME TypeOK, NEW j \in Jobs, Worker(j) \/ Crash(j)
  PROVE  TypeOK'
<1> DEFINE o == OrderOf(j)
           Runs == [Jobs -> [pc : Points, doc : Doc, dirty : SUBSET Fields]]
<1>0. o \in Orders
  BY JobsFacts
<1>1. CASE StartJob(j)
  <2>1. run' \in Runs
    BY <1>1, GotoType DEF StartJob, Points
  <2>2. job' \in [Jobs -> [state : JobStates, attemptsMade : Nat, stalled : Nat]]
    BY <1>1, JobStateType DEF StartJob, JobStates
  <2> QED
    BY <1>1, <2>1, <2>2 DEF StartJob, TypeOK
<1>2. CASE LoadOrder(j)
  <2>1. run' \in Runs
    <3>1. [pc |-> "loaded", doc |-> order[o], dirty |-> {}]
            \in [pc : Points, doc : Doc, dirty : SUBSET Fields]
      BY <1>0 DEF TypeOK, Points
    <3> QED
      BY <1>2, <3>1, GotoType DEF LoadOrder, Points, TypeOK
  <2> QED
    BY <1>2, <2>1 DEF LoadOrder, TypeOK
<1>3. CASE Authorise(j)
  <2>1. run' \in Runs
    BY <1>3, GotoType DEF Authorise, Points
  <2>2. trouble' \in [Orders -> SUBSET Faults]
    BY <1>0, <1>3, SufferType DEF Authorise, Faults, TypeOK
  <2> QED
    BY <1>3, <2>1, <2>2 DEF Authorise, TypeOK
<1>4. CASE PostOrder(j)
  <2>1. erp' \in [Orders -> Nat]
    BY <1>0, <1>4 DEF PostOrder, TypeOK
  <2>2. [run[j].doc EXCEPT !.status = "SYNCED", !.snelstartOrderId = erp[o] + 1]
          \in Doc
    <3>1. erp[o] + 1 \in Nat /\ "SYNCED" \in Status
      BY <1>0 DEF TypeOK, Status
    <3> QED
      BY <3>1, RunFacts DEF Doc
  <2>3. run' \in Runs
    <3> DEFINE posted ==
                 [pc    |-> "posted",
                  doc   |-> [run[j].doc EXCEPT !.status = "SYNCED",
                                               !.snelstartOrderId = erp[o] + 1],
                  dirty |-> {"status", "snelstartOrderId"}]
    <3>1. posted \in [pc : Points, doc : Doc, dirty : SUBSET Fields]
      BY <2>2 DEF Points, Fields
    <3>2. [run EXCEPT ![j] = posted] \in Runs
      BY <3>1 DEF TypeOK
    <3>3. CASE run' = [run EXCEPT ![j] = posted]
      BY <3>2, <3>3
    <3>4. CASE Goto(j, "failing")
      BY <3>4, GotoType DEF Points
    <3> QED
      BY <1>4, <3>3, <3>4 DEF PostOrder
  <2>4. trouble' \in [Orders -> SUBSET Faults]
    BY <1>0, <1>4, SufferType DEF PostOrder, Faults, TypeOK
  <2> QED
    BY <1>4, <2>1, <2>3, <2>4 DEF PostOrder, TypeOK
<1>5. CASE SaveSynced(j)
  BY <1>5, RunFacts, SaveRunType, SaveThrowsType DEF SaveSynced, TypeOK, Points
<1>6. CASE NotifySuccess(j)
  <2>1. run' \in Runs
    BY <1>6, GotoType DEF NotifySuccess, Points
  <2>2. trouble' \in [Orders -> SUBSET Faults]
    BY <1>0, <1>6, SufferType DEF NotifySuccess, Faults, TypeOK
  <2> QED
    BY <1>6, <2>1, <2>2 DEF NotifySuccess, TypeOK
<1>7. CASE ConfirmCustomer(j)
  <2>1. [run[j].doc EXCEPT !.confirmed = TRUE] \in Doc
    BY RunFacts DEF Doc
  <2>2. run' \in Runs
    <3> DEFINE mailed == [pc    |-> "mailed",
                          doc   |-> [run[j].doc EXCEPT !.confirmed = TRUE],
                          dirty |-> {"confirmed"}]
    <3>1. mailed \in [pc : Points, doc : Doc, dirty : SUBSET Fields]
      BY <2>1 DEF Points, Fields
    <3>2. [run EXCEPT ![j] = mailed] \in Runs
      BY <3>1 DEF TypeOK
    <3>3. CASE run' = [run EXCEPT ![j] = mailed]
      BY <3>2, <3>3
    <3>4. CASE \E point \in {"done", "failing", "mailError"} : Goto(j, point)
      BY <3>4, GotoType DEF Points
    <3> QED
      BY <1>7, <3>3, <3>4 DEF ConfirmCustomer
  <2>3. mails' \in [Orders -> Nat]
    BY <1>0, <1>7 DEF ConfirmCustomer, TypeOK
  <2>4. trouble' \in [Orders -> SUBSET Faults]
    BY <1>0, <1>7, SufferType DEF ConfirmCustomer, Faults, TypeOK
  <2> QED
    BY <1>7, <2>2, <2>3, <2>4 DEF ConfirmCustomer, TypeOK
<1>8. CASE SaveConfirmed(j)
  <2>1. trouble' \in [Orders -> SUBSET Faults]
    BY <1>0, <1>8, SufferType, SaveThrowsType DEF SaveConfirmed, Faults, Points, TypeOK
  <2> QED
    BY <1>8, <2>1, RunFacts, SaveRunType, SaveThrowsType DEF SaveConfirmed, TypeOK, Points
<1>9. CASE SaveMailError(j)
  <2>1. trouble' \in [Orders -> SUBSET Faults]
    BY <1>0, <1>9, SufferType, SaveThrowsType DEF SaveMailError, Faults, Points, TypeOK
  <2> QED
    BY <1>9, <2>1, RunFacts, SaveRunType, SaveThrowsType DEF SaveMailError, TypeOK, Points
<1>10. CASE SaveFailure(j)
  <2>1. FailedDoc(run[j].doc) \in Doc
    BY RunFacts, FailedDocType
  <2> QED
    BY <1>10, <2>1, SaveRunType, SaveThrowsType DEF SaveFailure, TypeOK, Points
<1>11. CASE JobReturns(j)
  BY <1>11, DocFacts DEF JobReturns, EndRun, TypeOK, JobStates
<1>12. CASE JobThrows(j)
  <2>1. job' \in [Jobs -> [state : JobStates, attemptsMade : Nat, stalled : Nat]]
    <3>1. \A s \in JobStates :
            [job EXCEPT ![j].attemptsMade = @ + 1, ![j].state = s]
              \in [Jobs -> [state : JobStates, attemptsMade : Nat, stalled : Nat]]
      <4>1. SUFFICES ASSUME NEW s \in JobStates
                     PROVE  [job[j] EXCEPT !.attemptsMade = @ + 1, !.state = s]
                              \in [state : JobStates, attemptsMade : Nat, stalled : Nat]
        BY DEF TypeOK
      <4>2. job[j] \in [state : JobStates, attemptsMade : Nat, stalled : Nat]
        BY DEF TypeOK
      <4> DEFINE n == job[j].attemptsMade + 1
      <4>3. n \in Nat
        BY <4>2
      <4> HIDE DEF n
      <4>4. [job[j] EXCEPT !.attemptsMade = n, !.state = s]
              \in [state : JobStates, attemptsMade : Nat, stalled : Nat]
        BY <4>2, <4>3
      <4> QED
        BY <4>4 DEF n
    <3> QED
      BY <1>12, <3>1 DEF JobThrows, JobStates
  <2> QED
    BY <1>12, <2>1, DocFacts DEF JobThrows, EndRun, TypeOK
<1>13. CASE Crash(j)
  BY <1>0, <1>13, DocFacts DEF Crash, EndRun, Suffer, TypeOK, JobStates, Faults
<1> QED
  BY <1>1, <1>2, <1>3, <1>4, <1>5, <1>6, <1>7, <1>8, <1>9, <1>10, <1>11,
     <1>12, <1>13 DEF Worker

(* Every step keeps the types. *)
LEMMA NextType == TypeOK /\ [Next]_vars => TypeOK'
<1> SUFFICES ASSUME TypeOK, [Next]_vars
             PROVE  TypeOK'
  OBVIOUS
<1>1. CASE UNCHANGED vars
  BY <1>1 DEF vars, TypeOK
<1>2. CASE Next
  BY <1>2, IntakeType, RetryType, ManualType, WorkerType DEF Next
<1> QED
  BY <1>1, <1>2

(* Every reachable state has the shape TypeOK says. *)
THEOREM TypeCorrect == Spec => []TypeOK
  BY InitType, NextType, PTL DEF Spec

-----------------------------------------------------------------------------
(* The inductive invariants *)

(* What is on record was accepted; nothing runs or retries before that. *)
KnownInv ==
  /\ stored \subseteq Known
  /\ \A o \in Orders : erp[o] > 0 => o \in Known
  /\ \A j \in Jobs : run[j].pc # "idle" => job[j].state = "active"
  /\ \A j \in Jobs : job[j].state # "none" => OrderOf(j) \in Known
  /\ \A o \in Orders : intake[o] # "queued" => job[<<o, 0>>].state = "none"
  /\ \A j \in RetryJobs :
       /\ retry[j].pc # "over" => job[j].state = "none"
       /\ retry[j].pc \in {"loaded", "saved"} => OrderOf(j) \in Known
       /\ retry[j].pc = "loaded" => retry[j].status # "SYNCED"

(* The steps of a run after the ERP accepted the order. *)
PostedPoints == {"posted", "synced", "notified", "mailed", "mailError"}

(* What a run's copy holds and which of its paths are dirty. *)
RunOK(j) ==
  /\ run[j].pc \in {"loaded", "ready", "synced", "notified"} => run[j].dirty = {}
  /\ run[j].pc \in {"mailed", "mailError"} => run[j].dirty \subseteq {"confirmed"}
  /\ run[j].pc = "posted" => /\ run[j].doc.status = "SYNCED"
                             /\ run[j].dirty = {"status", "snelstartOrderId"}
  /\ run[j].pc \in PostedPoints => erp[OrderOf(j)] > 0
  /\ "confirmed" \in run[j].dirty => erp[OrderOf(j)] > 0

RunInv == \A j \in Jobs : RunOK(j)

(* Ids come from the ERP; a copy that saves SYNCED saves its id with it. *)
OrderLinked(o) ==
  /\ order[o].snelstartOrderId <= erp[o]
  /\ order[o].status = "SYNCED" => order[o].snelstartOrderId # 0
  /\ order[o].confirmed => erp[o] > 0
  /\ mails[o] > 0 => erp[o] > 0
  /\ confirm[o] # "idle" => erp[o] > 0

CopyLinked(j) ==
  /\ run[j].doc.snelstartOrderId <= erp[OrderOf(j)]
  /\ "snelstartOrderId" \in run[j].dirty => run[j].doc.snelstartOrderId # 0
  /\ ("status" \in run[j].dirty /\ run[j].doc.status = "SYNCED")
       => "snelstartOrderId" \in run[j].dirty

LinkInv == /\ \A o \in Orders : OrderLinked(o)
           /\ \A j \in Jobs : CopyLinked(j)

-----------------------------------------------------------------------------
(* What a step of job j may change *)

(* A worker step changes one job, and what belongs to its order. *)
LEMMA WorkerFrame ==
  ASSUME TypeOK, NEW j \in Jobs, Worker(j) \/ Crash(j)
  PROVE  /\ UNCHANGED <<stored, intake, retry, confirm>>
         /\ \A i \in Jobs \ {j} : run'[i] = run[i] /\ job'[i] = job[i]
         /\ \A p \in Orders \ {OrderOf(j)} :
              /\ order'[p] = order[p]
              /\ erp'[p] = erp[p]
              /\ mails'[p] = mails[p]
              /\ trouble'[p] = trouble[p]
         /\ \A p \in Orders : erp'[p] >= erp[p] /\ trouble[p] \subseteq trouble'[p]
<1>0. OrderOf(j) \in Orders
  BY JobsFacts
<1>1. CASE StartJob(j)
  BY <1>0, <1>1 DEF StartJob, TypeOK, Goto
<1>2. CASE LoadOrder(j)
  BY <1>0, <1>2 DEF LoadOrder, TypeOK, Goto
<1>3. CASE Authorise(j)
  <2>1. UNCHANGED <<stored, order, intake, retry, confirm, job, erp, mails>>
    BY <1>3 DEF Authorise
  <2>2. \A i \in Jobs \ {j} : run'[i] = run[i]
    BY <1>3 DEF Authorise, TypeOK, Goto
  <2>3. \A p \in Orders \ {OrderOf(j)} : trouble'[p] = trouble[p]
    BY <1>0, <1>3 DEF Authorise, TypeOK, Suffer
  <2>4. \A p \in Orders : trouble[p] \subseteq trouble'[p]
    BY <1>0, <1>3 DEF Authorise, TypeOK, Suffer
  <2> QED
    BY <2>1, <2>2, <2>3, <2>4 DEF TypeOK
<1>4. CASE PostOrder(j)
  BY <1>0, <1>4 DEF PostOrder, TypeOK, Goto, Suffer
<1>5. CASE SaveSynced(j)
  BY <1>0, <1>5 DEF SaveSynced, TypeOK, Suffer, SaveRun, SaveThrows, Goto
<1>6. CASE NotifySuccess(j)
  BY <1>0, <1>6 DEF NotifySuccess, TypeOK, Goto, Suffer
<1>7. CASE ConfirmCustomer(j)
  <2>1. UNCHANGED <<stored, order, intake, retry, confirm, job, erp>>
    BY <1>7 DEF ConfirmCustomer
  <2>2. \A i \in Jobs \ {j} : run'[i] = run[i]
    BY <1>7 DEF ConfirmCustomer, TypeOK, Goto
  <2>3. \A p \in Orders \ {OrderOf(j)} : mails'[p] = mails[p]
    BY <1>0, <1>7 DEF ConfirmCustomer, TypeOK
  <2>4. \A p \in Orders \ {OrderOf(j)} : trouble'[p] = trouble[p]
    BY <1>0, <1>7 DEF ConfirmCustomer, TypeOK, Suffer
  <2>5. \A p \in Orders : trouble[p] \subseteq trouble'[p]
    BY <1>0, <1>7 DEF ConfirmCustomer, TypeOK, Suffer
  <2> QED
    BY <2>1, <2>2, <2>3, <2>4, <2>5 DEF TypeOK
<1>8. CASE SaveConfirmed(j)
  BY <1>0, <1>8 DEF SaveConfirmed, TypeOK, Suffer, SaveRun, SaveThrows, Goto
<1>9. CASE SaveMailError(j)
  BY <1>0, <1>9 DEF SaveMailError, TypeOK, Suffer, SaveRun, SaveThrows, Goto
<1>10. CASE SaveFailure(j)
  <2>1. UNCHANGED <<stored, intake, retry, confirm, job, erp, mails>>
    BY <1>10 DEF SaveFailure
  <2>2. \A i \in Jobs \ {j} : run'[i] = run[i]
    BY <1>10 DEF SaveFailure, TypeOK, SaveRun, SaveThrows, Goto
  <2>3. \A p \in Orders \ {OrderOf(j)} : order'[p] = order[p]
    BY <1>0, <1>10 DEF SaveFailure, TypeOK, SaveRun, SaveThrows
  <2>4. \A p \in Orders \ {OrderOf(j)} : trouble'[p] = trouble[p]
    BY <1>0, <1>10 DEF SaveFailure, TypeOK, SaveThrows, Suffer
  <2>5. \A p \in Orders : trouble[p] \subseteq trouble'[p]
    BY <1>0, <1>10 DEF SaveFailure, TypeOK, SaveThrows, Suffer
  <2> QED
    BY <2>1, <2>2, <2>3, <2>4, <2>5 DEF TypeOK
<1>11. CASE JobReturns(j)
  BY <1>0, <1>11 DEF JobReturns, TypeOK, EndRun
<1>12. CASE JobThrows(j)
  BY <1>0, <1>12 DEF JobThrows, TypeOK, EndRun
<1>13. CASE Crash(j)
  BY <1>0, <1>13 DEF Crash, TypeOK, Suffer, EndRun
<1> QED
  BY <1>1, <1>2, <1>3, <1>4, <1>5, <1>6, <1>7, <1>8, <1>9, <1>10, <1>11,
     <1>12, <1>13 DEF Worker

(* What moving a run on, saving its copy and failing to save it change. *)
LEMMA GotoFrame ==
  ASSUME TypeOK, NEW j \in Jobs, NEW point, Goto(j, point)
  PROVE  /\ run'[j].pc = point
         /\ run'[j].doc = run[j].doc
         /\ run'[j].dirty = run[j].dirty
         /\ \A i \in Jobs \ {j} : run'[i] = run[i]
  BY DEF Goto, TypeOK

(* What the save of a run that succeeds changes. *)
LEMMA SaveRunFrame ==
  ASSUME TypeOK, NEW j \in Jobs, NEW doc, NEW dirty, NEW point,
         SaveRun(j, doc, dirty, point)
  PROVE  /\ OrderOf(j) \in stored
         /\ order'[OrderOf(j)] = Saved(OrderOf(j), doc, dirty)
         /\ \A p \in Orders \ {OrderOf(j)} : order'[p] = order[p]
         /\ run'[j].pc = point
         /\ run'[j].doc = doc
         /\ run'[j].dirty = {}
         /\ \A i \in Jobs \ {j} : run'[i] = run[i]
<1>1. OrderOf(j) \in Orders
  BY JobsFacts
<1> QED
  BY <1>1 DEF SaveRun, TypeOK

(* What the save of a run that throws changes. *)
LEMMA SaveThrowsFrame ==
  ASSUME TypeOK, NEW j \in Jobs, NEW point, SaveThrows(j, point)
  PROVE  /\ run'[j].pc = point
         /\ run'[j].doc = run[j].doc
         /\ run'[j].dirty = run[j].dirty
         /\ \A i \in Jobs \ {j} : run'[i] = run[i]
         /\ order' = order
         /\ OrderOf(j) \in stored => "save" \in trouble'[OrderOf(j)]
<1>1. OrderOf(j) \in Orders
  BY JobsFacts
<1> QED
  BY <1>1, GotoFrame DEF SaveThrows, Suffer, TypeOK

-----------------------------------------------------------------------------
(* KnownInv *)

(* A worker step is of a live job, whose run is idle unless it is active. *)
LEMMA WorkerJob ==
  ASSUME TypeOK, KnownInv, NEW j \in Jobs, Worker(j) \/ Crash(j)
  PROVE  /\ Live(j)
         /\ job'[j].state # "none"
         /\ run'[j].pc # "idle" => job'[j].state = "active"
<1> USE GotoFrame, SaveRunFrame, SaveThrowsFrame
<1>0. run[j].pc # "idle" => job[j].state = "active"
  BY DEF KnownInv
<1>1. CASE StartJob(j)
  BY <1>1 DEF StartJob, Live, TypeOK
<1>2. CASE LoadOrder(j)
  BY <1>0, <1>2 DEF LoadOrder, Live
<1>3. CASE Authorise(j)
  BY <1>0, <1>3 DEF Authorise, Live
<1>4. CASE PostOrder(j)
  BY <1>0, <1>4 DEF PostOrder, Live
<1>5. CASE SaveSynced(j)
  BY <1>0, <1>5 DEF SaveSynced, Live
<1>6. CASE NotifySuccess(j)
  BY <1>0, <1>6 DEF NotifySuccess, Live
<1>7. CASE ConfirmCustomer(j)
  BY <1>0, <1>7 DEF ConfirmCustomer, Live
<1>8. CASE SaveConfirmed(j)
  BY <1>0, <1>8 DEF SaveConfirmed, Live
<1>9. CASE SaveMailError(j)
  BY <1>0, <1>9 DEF SaveMailError, Live
<1>10. CASE SaveFailure(j)
  BY <1>0, <1>10 DEF SaveFailure, Live
<1>11. CASE JobReturns(j)
  BY <1>0, <1>11 DEF JobReturns, EndRun, IdleRun, Live, TypeOK
<1>12. CASE JobThrows(j)
  BY <1>0, <1>12 DEF JobThrows, EndRun, IdleRun, Live, TypeOK
<1>13. CASE Crash(j)
  BY <1>0, <1>13 DEF Crash, EndRun, IdleRun, Live, TypeOK
<1> QED
  BY <1>1, <1>2, <1>3, <1>4, <1>5, <1>6, <1>7, <1>8, <1>9, <1>10, <1>11,
     <1>12, <1>13 DEF Worker

(* Every step keeps KnownInv. *)
LEMMA KnownStep == TypeOK /\ KnownInv /\ [Next]_vars => KnownInv'
<1> SUFFICES ASSUME TypeOK, KnownInv, [Next]_vars
             PROVE  KnownInv'
  OBVIOUS
<1>1. CASE UNCHANGED vars
  BY <1>1 DEF vars, KnownInv, Known
<1>2. ASSUME NEW o \in Orders, CreateOrder(o)
      PROVE  KnownInv'
  <2>1. Known \subseteq Known'
    BY <1>2 DEF CreateOrder, CheckKey, InsertOrder, EnqueueOrder, DropRequest, Known, TypeOK
  <2>2. stored' \subseteq Known'
    <3>1. CASE InsertOrder(o)
      BY <2>1, <3>1 DEF InsertOrder, KnownInv, Known, TypeOK
    <3>2. CASE ~InsertOrder(o)
      BY <1>2, <2>1, <3>2 DEF CreateOrder, CheckKey, EnqueueOrder, DropRequest, KnownInv
    <3> QED
      BY <3>1, <3>2
  <2>3. UNCHANGED <<retry, run, erp>>
    BY <1>2 DEF CreateOrder, CheckKey, InsertOrder, EnqueueOrder, DropRequest
  <2>4. CASE EnqueueOrder(o)
    <3> DEFINE j == <<o, 0>>
    <3>1. j \in Jobs /\ OrderOf(j) = o /\ o \in Known /\ j \notin RetryJobs
      BY <2>4, JobsFacts DEF EnqueueOrder, Known, RetryJobs
    <3> HIDE DEF j
    <3>2. job'[j].state = "waiting" /\ intake'[o] = "queued"
      BY <2>4, <3>1 DEF EnqueueOrder, AddJob, TypeOK, j
    <3>3. /\ \A i \in Jobs \ {j} : job'[i] = job[i]
          /\ \A p \in Orders \ {o} : intake'[p] = intake[p]
      BY <2>4, <3>1 DEF EnqueueOrder, AddJob, TypeOK, j
    <3>4. run[j].pc = "idle"
      BY <2>4, <3>1 DEF KnownInv, EnqueueOrder, j
    <3>5. \A p \in Orders \ {o} : <<p, 0>> \in Jobs \ {j}
      BY JobsFacts DEF j
    <3>6. \A i \in Jobs : run'[i].pc # "idle" => job'[i].state = "active"
      BY <2>3, <3>3, <3>4 DEF KnownInv
    <3>7. \A p \in Orders : intake'[p] # "queued" => job'[<<p, 0>>].state = "none"
      BY <3>2, <3>3, <3>5 DEF KnownInv
    <3>8. \A i \in RetryJobs : job'[i] = job[i]
      BY <3>1, <3>3, JobsFacts
    <3>9. \A i \in Jobs : job'[i].state # "none" => OrderOf(i) \in Known'
      BY <2>1, <3>1, <3>3 DEF KnownInv
    <3> QED
      BY <2>1, <2>2, <2>3, <3>6, <3>7, <3>8, <3>9 DEF KnownInv
  <2>5. CASE ~EnqueueOrder(o)
    <3>1. UNCHANGED job
      BY <1>2, <2>5 DEF CreateOrder, CheckKey, InsertOrder, DropRequest
    <3>2. \A p \in Orders : intake[p] = "queued" => intake'[p] = "queued"
      BY <1>2 DEF CreateOrder, CheckKey, InsertOrder, EnqueueOrder, DropRequest, TypeOK
    <3> QED
      BY <2>1, <2>2, <2>3, <3>1, <3>2 DEF KnownInv
  <2> QED
    BY <2>4, <2>5
<1>3. ASSUME NEW j \in RetryJobs, RetryLoad(j) \/ RetryOrder(j)
      PROVE  KnownInv'
  <2>0. j \in Jobs /\ OrderOf(j) \in Orders
    BY JobsFacts
  <2>1. UNCHANGED <<stored, intake, run, erp>>
    BY <1>3 DEF RetryLoad, RetryOrder, RetrySave, RetryEnqueue, DropRetry
  <2>2. Known' = Known
    BY <2>1 DEF Known
  <2>3. \A i \in RetryJobs \ {j} : retry'[i] = retry[i]
    BY <1>3 DEF RetryLoad, RetryOrder, RetrySave, RetryEnqueue, DropRetry, TypeOK
  <2>4. CASE RetryEnqueue(j)
    <3>1. job'[j].state = "waiting" /\ retry'[j].pc = "over"
      BY <2>0, <2>4 DEF RetryEnqueue, AddJob, TypeOK
    <3>2. \A i \in Jobs \ {j} : job'[i] = job[i]
      BY <2>0, <2>4 DEF RetryEnqueue, AddJob, TypeOK
    <3>3. OrderOf(j) \in Known /\ run[j].pc = "idle"
      BY <2>0, <2>4 DEF RetryEnqueue, KnownInv
    <3>4. \A o \in Orders : <<o, 0>> \in Jobs \ {j}
      <4>1. \A o \in Orders : <<o, 0>> \notin RetryJobs
        BY DEF RetryJobs
      <4> QED
        BY <4>1, JobsFacts
    <3>5. \A i \in RetryJobs \ {j} : job'[i] = job[i]
      BY <3>2, JobsFacts
    <3>6. \A o \in Orders : intake'[o] # "queued" => job'[<<o, 0>>].state = "none"
      BY <2>1, <3>2, <3>4 DEF KnownInv
    <3>7. \A i \in Jobs : /\ run'[i].pc # "idle" => job'[i].state = "active"
                          /\ job'[i].state # "none" => OrderOf(i) \in Known'
      BY <2>1, <2>2, <3>2, <3>3 DEF KnownInv
    <3> QED
      BY <2>1, <2>2, <2>3, <3>1, <3>5, <3>6, <3>7 DEF KnownInv
  <2>5. CASE RetryLoad(j)
    <3>1. retry'[j].pc = "loaded" /\ retry'[j].status # "SYNCED"
      BY <2>5 DEF RetryLoad, TypeOK
    <3>2. OrderOf(j) \in Known /\ retry[j].pc = "new" /\ UNCHANGED job
      BY <2>5 DEF RetryLoad, KnownInv
    <3> QED
      BY <2>1, <2>2, <2>3, <3>1, <3>2 DEF KnownInv
  <2>6. CASE RetrySave(j) \/ DropRetry(j)
    <3>1. retry'[j].pc \in {"saved", "over"} /\ UNCHANGED job
      BY <2>6 DEF RetrySave, DropRetry, TypeOK
    <3>2. retry[j].pc \in {"loaded", "saved"}
      BY <2>6 DEF RetrySave, DropRetry
    <3> QED
      BY <2>1, <2>2, <2>3, <3>1, <3>2 DEF KnownInv
  <2> QED
    BY <1>3, <2>4, <2>5, <2>6 DEF RetryOrder
<1>4. ASSUME NEW o \in Orders, SendConfirmation(o) \/ ConfirmLoad(o) \/ DeleteOrder(o)
      PROVE  KnownInv'
  <2>1. UNCHANGED <<intake, retry, job, run, erp>> /\ stored' \subseteq stored
    BY <1>4 DEF SendConfirmation, ConfirmLoad, ConfirmSend, ConfirmSave, DeleteOrder
  <2> QED
    BY <2>1 DEF KnownInv, Known
<1>5. ASSUME NEW j \in Jobs, Worker(j) \/ Crash(j)
      PROVE  KnownInv'
  <2>1. UNCHANGED <<stored, intake, retry, confirm>> /\ Known' = Known
    BY <1>5, WorkerFrame DEF Known
  <2>2. \A i \in Jobs \ {j} : run'[i] = run[i] /\ job'[i] = job[i]
    BY <1>5, WorkerFrame
  <2>3. Live(j) /\ job'[j].state # "none" /\ (run'[j].pc # "idle" => job'[j].state = "active")
    BY <1>5, WorkerJob
  <2>4. job[j].state # "none" /\ OrderOf(j) \in Known
    BY <2>3 DEF Live, KnownInv
  <2>5. \A p \in Orders : erp'[p] > 0 => p \in Known'
    BY <1>5, <2>1, <2>4, WorkerFrame DEF KnownInv
  <2>6. \A i \in Jobs : job'[i].state = "none" <=> job[i].state = "none"
    BY <2>2, <2>3, <2>4
  <2>7. \A i \in Jobs : run'[i].pc # "idle" => job'[i].state = "active"
    BY <2>2, <2>3 DEF KnownInv
  <2> QED
    BY <2>1, <2>5, <2>6, <2>7, JobsFacts DEF KnownInv
<1> QED
  BY <1>1, <1>2, <1>3, <1>4, <1>5 DEF Next

(* A handler of the API touches neither the runs nor what the ERP and the  *)
(* customers received.                                                     *)
Handler ==
  \/ \E o \in Orders : \/ CreateOrder(o) \/ SendConfirmation(o)
                       \/ ConfirmLoad(o) \/ DeleteOrder(o)
  \/ \E j \in RetryJobs : RetryLoad(j) \/ RetryOrder(j)

(* The API handlers leave runs, the ERP and the mails alone. *)
LEMMA HandlerFrame == Handler => UNCHANGED <<run, erp, mails>>
  BY DEF Handler, CreateOrder, CheckKey, InsertOrder, EnqueueOrder, DropRequest,
         SendConfirmation, ConfirmLoad, ConfirmSend, ConfirmSave, DeleteOrder,
         RetryLoad, RetryOrder, RetrySave, RetryEnqueue, DropRetry

(* A step is one of a handler, one of the worker, or a stutter. *)
LEMMA NextSplit ==
  Next <=> Handler \/ \E j \in Jobs : Worker(j) \/ Crash(j)
  BY DEF Next, Handler

-----------------------------------------------------------------------------
(* RunInv *)

(* Every step keeps RunInv. *)
LEMMA RunStep == TypeOK /\ RunInv /\ [Next]_vars => RunInv'
<1> SUFFICES ASSUME TypeOK, RunInv, [Next]_vars
             PROVE  RunInv'
  OBVIOUS
<1>1. CASE UNCHANGED vars
  BY <1>1 DEF vars, RunInv, RunOK
<1>2. CASE Handler
  BY <1>2, HandlerFrame DEF RunInv, RunOK
<1>3. ASSUME NEW j \in Jobs, Worker(j) \/ Crash(j)
      PROVE  RunInv'
  <2> DEFINE o == OrderOf(j)
  <2>0. o \in Orders /\ RunOK(j) /\ erp[o] \in Nat /\ erp'[o] \in Nat
    BY <1>3, JobsFacts, WorkerType DEF RunInv, TypeOK
  <2>a. \A p \in Orders : erp'[p] >= erp[p] /\ erp[p] \in Nat /\ erp'[p] \in Nat
    BY <1>3, WorkerFrame, WorkerType DEF TypeOK
  <2>b. SUFFICES RunOK(j)'
    <3>1. \A i \in Jobs \ {j} : run'[i] = run[i] /\ OrderOf(i) \in Orders
      BY <1>3, WorkerFrame, JobsFacts
    <3> QED
      BY <2>a, <3>1 DEF RunInv, RunOK
  <2> USE GotoFrame, SaveRunFrame, SaveThrowsFrame
  <2>1. CASE StartJob(j)
    BY <2>0, <2>a, <2>1 DEF StartJob, RunOK, PostedPoints
  <2>2. CASE LoadOrder(j)
    <3>1. CASE run' = [run EXCEPT ![j] = [pc |-> "loaded", doc |-> order[o], dirty |-> {}]]
      BY <2>0, <3>1 DEF RunOK, PostedPoints, TypeOK
    <3>2. CASE Goto(j, "rethrow") \/ Goto(j, "done")
      BY <2>0, <2>a, <3>2 DEF RunOK, PostedPoints
    <3> QED
      BY <2>2, <3>1, <3>2 DEF LoadOrder
  <2>3. CASE Authorise(j)
    BY <2>0, <2>a, <2>3 DEF Authorise, RunOK, PostedPoints
  <2>4. CASE PostOrder(j)
    <3>1. CASE Goto(j, "failing")
      BY <2>0, <2>a, <3>1 DEF RunOK, PostedPoints
    <3>2. CASE ~Goto(j, "failing")
      <4>1. erp'[o] = erp[o] + 1
        BY <2>0, <2>4, <3>2 DEF PostOrder, TypeOK
      <4>2. run'[j].pc = "posted" /\ run'[j].dirty = {"status", "snelstartOrderId"}
        BY <2>0, <2>4, <3>2 DEF PostOrder, TypeOK
      <4>3. run'[j].doc = [run[j].doc EXCEPT !.status = "SYNCED",
                                             !.snelstartOrderId = erp[o] + 1]
        BY <2>0, <2>4, <3>2 DEF PostOrder, TypeOK
      <4>4. run'[j].doc.status = "SYNCED"
        BY <4>3, RunFacts DEF Doc
      <4> QED
        BY <2>0, <4>1, <4>2, <4>4 DEF RunOK, PostedPoints
    <3> QED
      BY <3>1, <3>2
  <2>5. CASE SaveSynced(j)
    BY <2>0, <2>a, <2>5 DEF SaveSynced, RunOK, PostedPoints
  <2>6. CASE NotifySuccess(j)
    BY <2>0, <2>a, <2>6 DEF NotifySuccess, RunOK, PostedPoints
  <2>7. CASE ConfirmCustomer(j)
    <3>0. erp'[o] > 0 /\ run[j].dirty = {}
      BY <2>0, <2>7 DEF ConfirmCustomer, RunOK, PostedPoints
    <3>1. CASE \E point \in {"done", "failing", "mailError"} : Goto(j, point)
      BY <3>0, <3>1 DEF RunOK, PostedPoints
    <3>2. CASE run' = [run EXCEPT ![j] = [pc    |-> "mailed",
                                          doc   |-> [@.doc EXCEPT !.confirmed = TRUE],
                                          dirty |-> {"confirmed"}]]
      <4>1. run'[j].pc = "mailed" /\ run'[j].dirty = {"confirmed"}
        BY <3>2 DEF TypeOK
      <4> QED
        BY <3>0, <4>1 DEF RunOK, PostedPoints
    <3> QED
      BY <2>7, <3>1, <3>2 DEF ConfirmCustomer
  <2>8. CASE SaveConfirmed(j)
    BY <2>0, <2>a, <2>8 DEF SaveConfirmed, RunOK, PostedPoints
  <2>9. CASE SaveMailError(j)
    BY <2>0, <2>a, <2>9 DEF SaveMailError, RunOK, PostedPoints
  <2>10. CASE SaveFailure(j)
    BY <2>0, <2>a, <2>10 DEF SaveFailure, RunOK, PostedPoints
  <2>11. CASE JobReturns(j) \/ JobThrows(j) \/ Crash(j)
    <3>1. run'[j] = IdleRun
      BY <2>11 DEF JobReturns, JobThrows, Crash, EndRun, TypeOK
    <3> QED
      BY <3>1 DEF IdleRun, RunOK, PostedPoints
  <2> QED
    BY <1>3, <2>1, <2>2, <2>3, <2>4, <2>5, <2>6, <2>7, <2>8, <2>9, <2>10, <2>11
    DEF Worker
<1> QED
  BY <1>1, <1>2, <1>3, NextSplit

-----------------------------------------------------------------------------
(* LinkInv *)

(* Saving a linked copy leaves a linked document. *)
LEMMA SavedLinked ==
  ASSUME TypeOK, NEW o \in Orders, OrderLinked(o), NEW doc \in Doc, NEW dirty,
         doc.snelstartOrderId <= erp[o],
         "snelstartOrderId" \in dirty => doc.snelstartOrderId # 0,
         "status" \in dirty /\ doc.status = "SYNCED" => "snelstartOrderId" \in dirty,
         "confirmed" \in dirty => erp[o] > 0
  PROVE  LET d == Saved(o, doc, dirty) IN
         /\ d.snelstartOrderId <= erp[o]
         /\ d.status = "SYNCED" => d.snelstartOrderId # 0
         /\ d.confirmed => erp[o] > 0
  BY DEF OrderLinked, Saved, Doc, TypeOK

(* The save of a run keeps every order linked. *)
LEMMA SaveRunLinked ==
  ASSUME TypeOK, NEW j \in Jobs, OrderLinked(OrderOf(j)), NEW doc \in Doc, NEW dirty,
         NEW point, SaveRun(j, doc, dirty, point),
         UNCHANGED <<erp, mails, confirm>>,
         doc.snelstartOrderId <= erp[OrderOf(j)],
         "snelstartOrderId" \in dirty => doc.snelstartOrderId # 0,
         "status" \in dirty /\ doc.status = "SYNCED" => "snelstartOrderId" \in dirty,
         "confirmed" \in dirty => erp[OrderOf(j)] > 0
  PROVE  OrderLinked(OrderOf(j))' /\ CopyLinked(j)'
<1> DEFINE o == OrderOf(j)
<1>1. o \in Orders
  BY JobsFacts
<1>2. OrderLinked(o)'
  BY <1>1, SaveRunFrame, SavedLinked DEF OrderLinked
<1>3. CopyLinked(j)'
  BY SaveRunFrame DEF CopyLinked
<1> QED
  BY <1>2, <1>3

(* The catch block leaves the ERP id and the confirmation, not SYNCED. *)
LEMMA FailedDocFacts ==
  ASSUME NEW doc \in Doc
  PROVE  /\ FailedDoc(doc).snelstartOrderId = doc.snelstartOrderId
         /\ FailedDoc(doc).confirmed = doc.confirmed
         /\ FailedDoc(doc).status \in {"SYNC_FAILED", "PENDING_SYNC"}
<1> DEFINE st == IF IsFinalFailure(doc.retryCount + 1)
                   THEN "SYNC_FAILED" ELSE "PENDING_SYNC"
           n == doc.retryCount + 1
<1>1. st \in {"SYNC_FAILED", "PENDING_SYNC"}
  OBVIOUS
<1>2. FailedDoc(doc) = [doc EXCEPT !.retryCount = n, !.status = st]
  BY DEF FailedDoc
<1> HIDE DEF st, n
<1> QED
  BY <1>1, <1>2 DEF Doc

(* The API handlers keep LinkInv, however stale the copy they save. *)
LEMMA LinkHandler ==
  ASSUME TypeOK, LinkInv, Handler
  PROVE  LinkInv'
<1>0. \A j \in Jobs : CopyLinked(j)'
  BY HandlerFrame DEF LinkInv, CopyLinked
<1>1. UNCHANGED <<erp, mails>>
  BY HandlerFrame
<1>2. ASSUME NEW o \in Orders, CreateOrder(o)
      PROVE  \A p \in Orders : OrderLinked(p)'
  <2>1. CASE InsertOrder(o)
    <3>1. \A p \in Orders : order'[p] = order[p] \/ order'[p] = NewDoc
      BY <2>1 DEF InsertOrder, TypeOK
    <3>2. UNCHANGED confirm
      BY <2>1 DEF InsertOrder
    <3> QED
      BY <1>1, <3>1, <3>2 DEF LinkInv, OrderLinked, NewDoc, TypeOK
  <2>2. CASE ~InsertOrder(o)
    <3>1. UNCHANGED <<order, confirm>>
      BY <1>2, <2>2 DEF CreateOrder, CheckKey, EnqueueOrder, DropRequest
    <3> QED
      BY <1>1, <3>1 DEF LinkInv, OrderLinked
  <2> QED
    BY <2>1, <2>2
<1>3. ASSUME NEW j \in RetryJobs, RetryLoad(j) \/ RetryOrder(j)
      PROVE  \A p \in Orders : OrderLinked(p)'
  <2>0. OrderOf(j) \in Orders /\ UNCHANGED confirm
    BY <1>3, JobsFacts DEF RetryLoad, RetryOrder, RetrySave, RetryEnqueue, DropRetry
  <2>1. CASE RetrySave(j)
    <3> DEFINE o == OrderOf(j)
               d == Saved(o, NewDoc, RetryDirty(retry[j]))
    <3>1. /\ d.snelstartOrderId <= erp[o]
          /\ d.status = "SYNCED" => d.snelstartOrderId # 0
          /\ d.confirmed => erp[o] > 0
      <4>1. /\ "snelstartOrderId" \notin RetryDirty(retry[j])
            /\ "confirmed" \notin RetryDirty(retry[j])
        BY DEF RetryDirty
      <4>2. NewDoc.snelstartOrderId <= erp[o] /\ NewDoc.status # "SYNCED"
        BY <2>0 DEF NewDoc, TypeOK
      <4> QED
        BY <2>0, <4>1, <4>2, SavedLinked, DocFacts DEF LinkInv
    <3>2. \A p \in Orders : order'[p] = order[p] \/ (p = o /\ order'[p] = d)
      BY <2>0, <2>1 DEF RetrySave, TypeOK
    <3> QED
      BY <1>1, <2>0, <3>1, <3>2 DEF LinkInv, OrderLinked
  <2>2. CASE ~RetrySave(j)
    <3>1. UNCHANGED order
      BY <1>3, <2>2 DEF RetryLoad, RetryOrder, RetryEnqueue, DropRetry
    <3> QED
      BY <1>1, <2>0, <3>1 DEF LinkInv, OrderLinked
  <2> QED
    BY <2>1, <2>2
<1>4. ASSUME NEW o \in Orders, SendConfirmation(o) \/ ConfirmLoad(o) \/ DeleteOrder(o)
      PROVE  \A p \in Orders : OrderLinked(p)'
  <2>1. CASE ConfirmLoad(o)
    <3>1. erp[o] > 0
      BY <2>1 DEF ConfirmLoad, LinkInv, OrderLinked, TypeOK, Doc
    <3>2. UNCHANGED order /\ \A p \in Orders \ {o} : confirm'[p] = confirm[p]
      BY <2>1 DEF ConfirmLoad, TypeOK
    <3> QED
      BY <1>1, <3>1, <3>2 DEF LinkInv, OrderLinked
  <2>2. CASE ConfirmSend(o)
    <3>1. erp[o] > 0
      BY <2>2 DEF ConfirmSend, LinkInv, OrderLinked
    <3>2. UNCHANGED order /\ \A p \in Orders \ {o} : confirm'[p] = confirm[p]
      BY <2>2 DEF ConfirmSend, TypeOK
    <3> QED
      BY <1>1, <3>1, <3>2 DEF LinkInv, OrderLinked
  <2>3. CASE ConfirmSave(o)
    <3>1. erp[o] > 0
      BY <2>3 DEF ConfirmSave, LinkInv, OrderLinked
    <3>2. /\ \A p \in Orders \ {o} : order'[p] = order[p] /\ confirm'[p] = confirm[p]
          /\ \A p \in Orders : /\ order'[p].snelstartOrderId = order[p].snelstartOrderId
                               /\ order'[p].status = order[p].status
      <4>1. order[o] \in Doc
        BY DEF TypeOK
      <4>2. order'[o] = order[o] \/ order'[o] = [order[o] EXCEPT !.confirmed = TRUE]
        BY <2>3 DEF ConfirmSave, TypeOK
      <4>3. \A p \in Orders \ {o} : order'[p] = order[p] /\ confirm'[p] = confirm[p]
        BY <2>3 DEF ConfirmSave, TypeOK
      <4> QED
        BY <4>1, <4>2, <4>3 DEF Doc
    <3> QED
      BY <1>1, <3>1, <3>2 DEF LinkInv, OrderLinked
  <2>4. CASE DeleteOrder(o)
    <3>1. \A p \in Orders : order'[p] = order[p] \/ order'[p] = NewDoc
      BY <2>4 DEF DeleteOrder, TypeOK
    <3>2. UNCHANGED confirm
      BY <2>4 DEF DeleteOrder
    <3> QED
      BY <1>1, <3>1, <3>2 DEF LinkInv, OrderLinked, NewDoc, TypeOK
  <2> QED
    BY <1>4, <2>1, <2>2, <2>3, <2>4 DEF SendConfirmation
<1> QED
  BY <1>0, <1>2, <1>3, <1>4 DEF Handler, LinkInv

(* The worker keeps LinkInv, however stale the copy it saves. *)
LEMMA LinkWorker ==
  ASSUME TypeOK, RunInv, LinkInv, NEW j \in Jobs, Worker(j) \/ Crash(j)
  PROVE  LinkInv'
<1> DEFINE o == OrderOf(j)
<1>0. /\ o \in Orders /\ RunOK(j) /\ OrderLinked(o) /\ CopyLinked(j)
      /\ run[j].doc \in Doc /\ erp[o] \in Nat
  BY JobsFacts, RunFacts DEF RunInv, LinkInv, TypeOK
<1>a. /\ UNCHANGED confirm
      /\ \A p \in Orders : erp'[p] >= erp[p] /\ erp[p] \in Nat /\ erp'[p] \in Nat
  BY WorkerFrame, WorkerType DEF TypeOK
<1>b. SUFFICES OrderLinked(o)' /\ CopyLinked(j)'
  <2>1. \A p \in Orders \ {o} : OrderLinked(p)'
    BY WorkerFrame DEF LinkInv, OrderLinked
  <2>2. \A i \in Jobs \ {j} : run'[i] = run[i] /\ OrderOf(i) \in Orders
    BY WorkerFrame, JobsFacts
  <2>3. \A i \in Jobs \ {j} : CopyLinked(i)'
    <3> SUFFICES ASSUME NEW i \in Jobs \ {j}
                 PROVE  CopyLinked(i)'
      OBVIOUS
    <3>1. CopyLinked(i) /\ run[i].doc.snelstartOrderId \in Nat
      BY RunFacts DEF LinkInv, Doc
    <3> QED
      BY <1>a, <2>2, <3>1 DEF CopyLinked
  <2> QED
    BY <2>1, <2>3 DEF LinkInv
<1>c. ASSUME NEW point, Goto(j, point), UNCHANGED order, mails'[o] > 0 => erp'[o] > 0
      PROVE  OrderLinked(o)' /\ CopyLinked(j)'
  <2>1. order[o].snelstartOrderId \in Nat /\ run[j].doc.snelstartOrderId \in Nat
    BY <1>0 DEF TypeOK, Doc
  <2>2. CopyLinked(j)'
    BY <1>0, <1>a, <1>c, <2>1, GotoFrame DEF CopyLinked
  <2>3. OrderLinked(o)'
    BY <1>0, <1>a, <1>c, <2>1 DEF OrderLinked
  <2> QED
    BY <2>2, <2>3
<1>d. ASSUME UNCHANGED <<order, mails>>, run'[j].doc \in Doc, run'[j].dirty = {},
             run'[j].doc.snelstartOrderId <= erp'[o]
      PROVE  OrderLinked(o)' /\ CopyLinked(j)'
  <2>1. order[o].snelstartOrderId \in Nat
    BY <1>0 DEF TypeOK, Doc
  <2> QED
    BY <1>0, <1>a, <1>d, <2>1 DEF CopyLinked, OrderLinked
<1>e. mails[o] > 0 => erp'[o] > 0
  BY <1>0, <1>a DEF OrderLinked
<1>1. CASE StartJob(j)
  BY <1>c, <1>e, <1>1 DEF StartJob
<1>2. CASE LoadOrder(j)
  <2>1. CASE run' = [run EXCEPT ![j] = [pc |-> "loaded", doc |-> order[o], dirty |-> {}]]
    <3>1. run'[j].doc = order[o] /\ run'[j].dirty = {}
      BY <2>1 DEF TypeOK
    <3> QED
      BY <1>0, <1>2, <1>d, <3>1 DEF LoadOrder, OrderLinked, TypeOK
  <2> QED
    BY <1>2, <1>c, <1>e, <2>1 DEF LoadOrder
<1>3. CASE Authorise(j)
  BY <1>c, <1>e, <1>3 DEF Authorise
<1>4. CASE PostOrder(j)
  <2>1. CASE Goto(j, "failing")
    BY <1>4, <1>c, <1>e, <2>1 DEF PostOrder
  <2>2. CASE ~Goto(j, "failing")
    <3>1. erp'[o] = erp[o] + 1
      BY <1>0, <1>4, <2>2 DEF PostOrder, TypeOK
    <3>2. run'[j].dirty = {"status", "snelstartOrderId"}
      BY <1>4, <2>2 DEF PostOrder, TypeOK
    <3>3. run'[j].doc.snelstartOrderId = erp[o] + 1
      <4>1. run'[j].doc = [run[j].doc EXCEPT !.status = "SYNCED",
                                             !.snelstartOrderId = erp[o] + 1]
        BY <1>4, <2>2 DEF PostOrder, TypeOK
      <4> DEFINE n == erp[o] + 1
      <4>2. run'[j].doc = [run[j].doc EXCEPT !.status = "SYNCED",
                                             !.snelstartOrderId = n]
        BY <4>1
      <4> HIDE DEF n
      <4>3. run'[j].doc.snelstartOrderId = n
        BY <1>0, <4>2 DEF Doc
      <4> QED
        BY <4>3 DEF n
    <3>4. UNCHANGED <<order, mails>> /\ order[o].snelstartOrderId \in Nat
      BY <1>0, <1>4 DEF PostOrder, TypeOK, Doc
    <3> QED
      BY <1>0, <1>a, <1>e, <3>1, <3>2, <3>3, <3>4 DEF OrderLinked, CopyLinked
  <2> QED
    BY <2>1, <2>2
<1>s. ASSUME NEW point, SaveThrows(j, point), UNCHANGED mails
      PROVE  OrderLinked(o)' /\ CopyLinked(j)'
  BY <1>c, <1>e, <1>s DEF SaveThrows
<1>r. ASSUME NEW point, SaveRun(j, run[j].doc, run[j].dirty, point),
             UNCHANGED <<erp, mails>>
      PROVE  OrderLinked(o)' /\ CopyLinked(j)'
  BY <1>0, <1>a, <1>r, SaveRunLinked DEF CopyLinked, RunOK
<1>5. CASE SaveSynced(j)
  BY <1>5, <1>s, <1>r DEF SaveSynced
<1>6. CASE NotifySuccess(j)
  BY <1>c, <1>e, <1>6 DEF NotifySuccess
<1>7. CASE ConfirmCustomer(j)
  <2>0. erp'[o] > 0 /\ UNCHANGED <<order, erp>>
    BY <1>0, <1>7 DEF ConfirmCustomer, RunOK, PostedPoints
  <2>1. CASE \E point \in {"done", "failing", "mailError"} : Goto(j, point)
    BY <1>c, <2>0, <2>1
  <2>2. CASE run' = [run EXCEPT ![j] = [pc    |-> "mailed",
                                        doc   |-> [@.doc EXCEPT !.confirmed = TRUE],
                                        dirty |-> {"confirmed"}]]
    <3>1. run'[j].doc = [run[j].doc EXCEPT !.confirmed = TRUE] /\ run'[j].dirty = {"confirmed"}
      BY <2>2 DEF TypeOK
    <3>2. run'[j].doc.snelstartOrderId = run[j].doc.snelstartOrderId
      BY <1>0, <3>1 DEF Doc
    <3>3. CopyLinked(j)'
      BY <1>0, <2>0, <3>1, <3>2 DEF CopyLinked
    <3>4. OrderLinked(o)'
      BY <1>0, <1>a, <2>0 DEF OrderLinked
    <3> QED
      BY <3>3, <3>4
  <2> QED
    BY <1>7, <2>1, <2>2 DEF ConfirmCustomer
<1>8. CASE SaveConfirmed(j)
  BY <1>8, <1>s, <1>r DEF SaveConfirmed
<1>9. CASE SaveMailError(j)
  BY <1>9, <1>s, <1>r DEF SaveMailError
<1>10. CASE SaveFailure(j)
  <2>1. CASE SaveRun(j, FailedDoc(run[j].doc), FailedDirty(run[j]), "rethrow")
    <3> DEFINE d == FailedDoc(run[j].doc)
               dd == FailedDirty(run[j])
    <3>1. d \in Doc /\ d.snelstartOrderId <= erp[o] /\ d.status # "SYNCED"
      BY <1>0, FailedDocType, FailedDocFacts DEF CopyLinked
    <3>2. "snelstartOrderId" \in dd => d.snelstartOrderId # 0
      BY <1>0, FailedDocFacts DEF CopyLinked, FailedDirty
    <3>3. "confirmed" \in dd => erp[o] > 0
      BY <1>0 DEF RunOK, FailedDirty
    <3> HIDE DEF d, dd
    <3>4. SaveRun(j, d, dd, "rethrow") /\ UNCHANGED <<erp, mails>>
      BY <1>10, <2>1 DEF SaveFailure, d, dd
    <3> QED
      BY <1>0, <1>a, <3>1, <3>2, <3>3, <3>4, SaveRunLinked
  <2> QED
    BY <1>10, <1>s, <2>1 DEF SaveFailure
<1>11. CASE JobReturns(j) \/ JobThrows(j) \/ Crash(j)
  <2>1. run'[j] = IdleRun /\ UNCHANGED <<order, mails>>
    BY <1>11 DEF JobReturns, JobThrows, Crash, EndRun, TypeOK
  <2> QED
    BY <1>0, <1>a, <1>d, <2>1, DocFacts DEF IdleRun, NewDoc
<1> QED
  BY <1>1, <1>2, <1>3, <1>4, <1>5, <1>6, <1>7, <1>8, <1>9, <1>10, <1>11
  DEF Worker

(* Every step keeps LinkInv. *)
LEMMA LinkStep == TypeOK /\ RunInv /\ LinkInv /\ [Next]_vars => LinkInv'
<1>1. TypeOK /\ LinkInv /\ UNCHANGED vars => LinkInv'
  BY DEF vars, LinkInv, OrderLinked, CopyLinked
<1> QED
  BY <1>1, LinkHandler, LinkWorker, NextSplit

(* The invariants hold at first. *)
LEMMA InitInv == Init => KnownInv /\ RunInv /\ LinkInv
<1> SUFFICES ASSUME Init
             PROVE  KnownInv /\ RunInv /\ LinkInv
  OBVIOUS
<1>1. KnownInv
  BY JobsFacts DEF Init, KnownInv, IdleRun
<1>2. RunInv
  BY JobsFacts DEF Init, RunInv, RunOK, IdleRun, PostedPoints
<1>3. LinkInv
  BY JobsFacts DEF Init, LinkInv, OrderLinked, CopyLinked, IdleRun, NewDoc
<1> QED
  BY <1>1, <1>2, <1>3

(* Runs, copies and documents are never ahead of the ERP: the invariant
   from which the theorems about links and confirmations follow. *)
THEOREM Links == Spec => [](KnownInv /\ RunInv /\ LinkInv)
<1>1. Init => TypeOK /\ KnownInv /\ RunInv /\ LinkInv
  BY InitType, InitInv
<1>2. /\ TypeOK /\ KnownInv /\ RunInv /\ LinkInv /\ [Next]_vars
      => (TypeOK /\ KnownInv /\ RunInv /\ LinkInv)'
  BY NextType, KnownStep, RunStep, LinkStep
<1> QED
  BY <1>1, <1>2, PTL DEF Spec

(* An order shown as SYNCED carries the id of an order the ERP created.    *)
THEOREM SyncedLinked == Spec => []SyncedIsLinked
<1>1. TypeOK /\ LinkInv => SyncedIsLinked
  BY DEF LinkInv, OrderLinked, SyncedIsLinked, TypeOK
<1> QED
  BY <1>1, TypeCorrect, Links, PTL

(* Nobody is told an order is confirmed before the ERP has it.             *)
THEOREM ConfirmedInErp == Spec => []ConfirmedIsInErp
<1>1. LinkInv => ConfirmedIsInErp
  BY DEF LinkInv, OrderLinked, ConfirmedIsInErp
<1> QED
  BY <1>1, Links, PTL

-----------------------------------------------------------------------------
(* What a step does to the links of the documents *)

(* The document of an absent order is the blank one. *)
AbsentInv == \A o \in Orders \ stored : order[o] = NewDoc

(* The link of p is blank, is kept, or is set to an id the ERP gave out. *)
LinkKept(p) ==
  \/ order'[p].snelstartOrderId = order[p].snelstartOrderId
  \/ /\ p \in stored
     /\ stored' = stored
     /\ order'[p].snelstartOrderId \in 1 .. erp[p]

(* A step that changes no document's presence keeps the links of all but   *)
(* one document, sets that one to an id of the ERP, or keeps it too.       *)
LEMMA SaveRunLink ==
  ASSUME TypeOK, NEW j \in Jobs, NEW doc \in Doc, NEW dirty, NEW point,
         SaveRun(j, doc, dirty, point), stored' = stored,
         doc.snelstartOrderId <= erp[OrderOf(j)],
         "snelstartOrderId" \in dirty => doc.snelstartOrderId # 0
  PROVE  LinkKept(OrderOf(j))
<1> DEFINE o == OrderOf(j)
<1>1. o \in Orders /\ o \in stored /\ order'[o] = Saved(o, doc, dirty)
  BY JobsFacts, SaveRunFrame
<1>2. order'[o].snelstartOrderId = IF "snelstartOrderId" \in dirty
                                     THEN doc.snelstartOrderId
                                     ELSE order[o].snelstartOrderId
  BY <1>1 DEF Saved
<1>3. doc.snelstartOrderId \in Nat /\ erp[o] \in Nat
  BY <1>1 DEF Doc, TypeOK
<1> QED
  BY <1>1, <1>2, <1>3 DEF LinkKept

(* No worker step erases the link of a present document. *)
LEMMA WorkerLink ==
  ASSUME TypeOK, LinkInv, NEW j \in Jobs, Worker(j) \/ Crash(j)
  PROVE  LinkKept(OrderOf(j))
<1> DEFINE o == OrderOf(j)
<1>0. o \in Orders /\ CopyLinked(j) /\ run[j].doc \in Doc /\ UNCHANGED stored
  BY JobsFacts, RunFacts, WorkerFrame DEF LinkInv
<1>1. CASE UNCHANGED order
  BY <1>1 DEF LinkKept
<1>2. CASE \E point : SaveRun(j, run[j].doc, run[j].dirty, point)
  BY <1>0, <1>2, SaveRunLink DEF CopyLinked
<1>3. CASE SaveRun(j, FailedDoc(run[j].doc), FailedDirty(run[j]), "rethrow")
  <2> DEFINE d == FailedDoc(run[j].doc)
             dd == FailedDirty(run[j])
  <2>1. d \in Doc /\ d.snelstartOrderId <= erp[o]
    BY <1>0, FailedDocType, FailedDocFacts DEF CopyLinked
  <2>2. "snelstartOrderId" \in dd => d.snelstartOrderId # 0
    BY <1>0, FailedDocFacts DEF CopyLinked, FailedDirty
  <2>3. SaveRun(j, d, dd, "rethrow")
    BY <1>3
  <2> HIDE DEF d, dd
  <2> QED
    BY <1>0, <2>1, <2>2, <2>3, SaveRunLink
<1>4. \/ UNCHANGED order
      \/ \E point : SaveRun(j, run[j].doc, run[j].dirty, point)
      \/ SaveRun(j, FailedDoc(run[j].doc), FailedDirty(run[j]), "rethrow")
  BY DEF Worker, StartJob, LoadOrder, Authorise, PostOrder, SaveSynced,
         NotifySuccess, ConfirmCustomer, SaveConfirmed, SaveMailError, SaveFailure,
         SaveThrows, JobReturns, JobThrows, Crash
<1> QED
  BY <1>1, <1>2, <1>3, <1>4

(* Only an insert or a delete changes a link otherwise. *)
LEMMA HandlerLink ==
  ASSUME TypeOK, AbsentInv, Handler
  PROVE  \/ \E o \in Orders : DeleteOrder(o)
         \/ \A p \in Orders :
              order'[p].snelstartOrderId = order[p].snelstartOrderId
<1>1. ASSUME NEW o \in Orders, CreateOrder(o)
      PROVE  UNCHANGED order
  <2>1. CASE InsertOrder(o) /\ SameKey(o) = {}
    <3>1. order[o] = NewDoc
      BY <2>1 DEF SameKey, AbsentInv
    <3> QED
      BY <2>1, <3>1 DEF InsertOrder, TypeOK
  <2>2. CASE ~(InsertOrder(o) /\ SameKey(o) = {})
    BY <1>1, <2>2 DEF CreateOrder, CheckKey, InsertOrder, EnqueueOrder, DropRequest
  <2> QED
    BY <2>1, <2>2
<1>2. ASSUME NEW j \in RetryJobs, RetryLoad(j) \/ RetryOrder(j)
      PROVE  \A p \in Orders : order'[p].snelstartOrderId = order[p].snelstartOrderId
  <2>1. CASE RetrySave(j) /\ OrderOf(j) \in stored
    <3> DEFINE o == OrderOf(j)
    <3>1. o \in Orders
      BY JobsFacts
    <3>2. order' = [order EXCEPT ![o] = Saved(o, NewDoc, RetryDirty(retry[j]))]
      BY <2>1 DEF RetrySave
    <3>3. "snelstartOrderId" \notin RetryDirty(retry[j])
      BY DEF RetryDirty
    <3>4. order'[o].snelstartOrderId = order[o].snelstartOrderId
      BY <3>1, <3>2, <3>3 DEF Saved, TypeOK
    <3> QED
      BY <3>1, <3>2, <3>4 DEF TypeOK
  <2>2. CASE ~(RetrySave(j) /\ OrderOf(j) \in stored)
    BY <1>2, <2>2 DEF RetryLoad, RetryOrder, RetrySave, RetryEnqueue, DropRetry
  <2> QED
    BY <2>1, <2>2
<1>3. ASSUME NEW o \in Orders, SendConfirmation(o) \/ ConfirmLoad(o)
      PROVE  \A p \in Orders : order'[p].snelstartOrderId = order[p].snelstartOrderId
  <2>1. \/ UNCHANGED order
        \/ order' = [order EXCEPT ![o].confirmed = TRUE]
    BY <1>3 DEF SendConfirmation, ConfirmLoad, ConfirmSend, ConfirmSave
  <2>2. order[o] \in Doc
    BY DEF TypeOK
  <2> QED
    BY <2>1, <2>2 DEF TypeOK, Doc
<1> QED
  BY <1>1, <1>2, <1>3 DEF Handler

(* Every step keeps AbsentInv. *)
LEMMA AbsentStep == TypeOK /\ AbsentInv /\ [Next]_vars => AbsentInv'
<1> SUFFICES ASSUME TypeOK, AbsentInv, [Next]_vars
             PROVE  AbsentInv'
  OBVIOUS
<1>1. CASE UNCHANGED vars
  BY <1>1 DEF vars, AbsentInv
<1>2. ASSUME NEW o \in Orders, CreateOrder(o)
      PROVE  AbsentInv'
  BY <1>2 DEF CreateOrder, CheckKey, InsertOrder, EnqueueOrder, DropRequest,
              AbsentInv, TypeOK
<1>3. ASSUME NEW j \in RetryJobs, RetryLoad(j) \/ RetryOrder(j)
      PROVE  AbsentInv'
  BY <1>3, JobsFacts DEF RetryLoad, RetryOrder, RetrySave, RetryEnqueue, DropRetry,
              AbsentInv, TypeOK
<1>4. ASSUME NEW o \in Orders, SendConfirmation(o) \/ ConfirmLoad(o) \/ DeleteOrder(o)
      PROVE  AbsentInv'
  BY <1>4 DEF SendConfirmation, ConfirmLoad, ConfirmSend, ConfirmSave, DeleteOrder,
              AbsentInv, TypeOK
<1>5. ASSUME NEW j \in Jobs, Worker(j) \/ Crash(j)
      PROVE  AbsentInv'
  <2>1. UNCHANGED stored /\ \A p \in Orders \ {OrderOf(j)} : order'[p] = order[p]
    BY <1>5, WorkerFrame
  <2>2. OrderOf(j) \in stored \/ UNCHANGED order
    BY <1>5 DEF Worker, StartJob, LoadOrder, Authorise, PostOrder, SaveSynced,
         NotifySuccess, ConfirmCustomer, SaveConfirmed, SaveMailError, SaveFailure,
         SaveRun, SaveThrows, JobReturns, JobThrows, Crash
  <2> QED
    BY <2>1, <2>2 DEF AbsentInv
<1> QED
  BY <1>1, <1>2, <1>3, <1>4, <1>5 DEF Next

(* The document of an order that is not in the collection is blank. *)
THEOREM AbsentBlank == Spec => []AbsentInv
<1>1. Init => AbsentInv
  BY DEF Init, AbsentInv
<1> QED
  BY <1>1, AbsentStep, TypeCorrect, PTL DEF Spec

(* No save, however stale its copy, erases the ERP id of a present order.  *)
THEOREM LinkKeptForever == Spec => LinkNeverLost
<1> DEFINE Step == \A o \in stored \cap stored' :
                     order[o].snelstartOrderId # 0 => order'[o].snelstartOrderId # 0
<1>1. TypeOK /\ LinkInv /\ AbsentInv /\ [Next]_vars => [Step]_vars
  <2> SUFFICES ASSUME TypeOK, LinkInv, AbsentInv, Next
               PROVE  Step
    OBVIOUS
  <2>1. CASE Handler
    <3>1. ASSUME NEW o \in Orders, DeleteOrder(o)
          PROVE  Step
      BY <3>1 DEF DeleteOrder, TypeOK
    <3> QED
      BY <2>1, <3>1, HandlerLink DEF TypeOK
  <2>2. ASSUME NEW j \in Jobs, Worker(j) \/ Crash(j)
        PROVE  Step
    <3>1. LinkKept(OrderOf(j)) /\ \A p \in Orders \ {OrderOf(j)} : order'[p] = order[p]
      BY <2>2, WorkerLink, WorkerFrame
    <3> QED
      BY <3>1, JobsFacts DEF LinkKept, TypeOK
  <2> QED
    BY <2>1, <2>2, NextSplit
<1> QED
  BY <1>1, TypeCorrect, Links, AbsentBlank, PTL DEF Spec, LinkNeverLost

(* The unique index keeps the documents of one key apart.                  *)
THEOREM OnePerKey == Spec => []OneOrderPerKey
<1>1. Init => OneOrderPerKey
  BY DEF Init, OneOrderPerKey
<1>2. TypeOK /\ OneOrderPerKey /\ [Next]_vars => OneOrderPerKey'
  <2> SUFFICES ASSUME TypeOK, OneOrderPerKey, [Next]_vars
               PROVE  OneOrderPerKey'
    OBVIOUS
  <2>1. ASSUME NEW o \in Orders, InsertOrder(o)
        PROVE  OneOrderPerKey'
    BY <2>1 DEF InsertOrder, SameKey, OneOrderPerKey
  <2>2. CASE stored' \subseteq stored
    BY <2>2 DEF OneOrderPerKey
  <2>3. \/ \E o \in Orders : InsertOrder(o)
        \/ stored' \subseteq stored
    <3>1. CASE Handler
      BY <3>1 DEF Handler, CreateOrder, CheckKey, EnqueueOrder, DropRequest,
         SendConfirmation, ConfirmLoad, ConfirmSend, ConfirmSave, DeleteOrder,
         RetryLoad, RetryOrder, RetrySave, RetryEnqueue, DropRetry
    <3>2. CASE UNCHANGED vars
      BY <3>2 DEF vars
    <3> QED
      BY <3>1, <3>2, NextSplit, WorkerFrame
  <2> QED
    BY <2>1, <2>2, <2>3
<1> QED
  BY <1>1, <1>2, TypeCorrect, PTL DEF Spec

=============================================================================
