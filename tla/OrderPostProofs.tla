--------------------------- MODULE OrderPostProofs ---------------------------
(***************************************************************************)
(* What becomes of one order: at most one ERP order, at most one mail, and *)
(* never PENDING_SYNC with nobody at work.  While no jobs of an order      *)
(* overlap, one run at a time reads its document; once the ERP has the     *)
(* order, that run saves SYNCED, and later runs stop at that status.  Once *)
(* the mail is out, it saves the sent date, and later runs stop at that.   *)
(* Every failed attempt is counted in the document too, so the last one    *)
(* saves SYNC_FAILED.  The faults in DuplicateCauses, MailCauses and       *)
(* StrandingCauses are the ways to lose this.  And no job goes on forever: *)
(* every step of its worker, and every crash, uses up what it has left.    *)
(***************************************************************************)
EXTENDS OrderSyncProofs

USE ConstantsAssumption

(* An order has one live job, unless jobs of it were seen to overlap. *)
OneLiveJob ==
  \A o \in Orders :
    "overlap" \notin trouble[o]
      => \A i, j \in JobsOf(o) : Live(i) /\ Live(j) => i = j

Undisturbed(o) == trouble[o] \cap DuplicateCauses = {}

(* An order the ERP has is saved as SYNCED, or about to be, or deleted; no *)
(* run is on its way to post it again.                                     *)
PostOK(o) ==
  /\ erp[o] <= 1
  /\ erp[o] = 1 =>
       /\ \/ o \notin stored
          \/ order[o].status = "SYNCED"
          \/ \E j \in JobsOf(o) : run[j].pc = "posted"
       /\ \A j \in JobsOf(o) :
            /\ run[j].pc \notin {"loaded", "ready"}
            /\ run[j].pc = "failing" => o \notin stored

PostInv == \A o \in Orders : Undisturbed(o) => PostOK(o)

(* A job belongs to one order. *)
LEMMA JobsOfFacts ==
  /\ \A o \in Orders, j \in Jobs : j \in JobsOf(o) <=> OrderOf(j) = o
  /\ \A o \in Orders : JobsOf(o) \subseteq Jobs
  BY DEF Jobs, JobsOf, OrderOf

-----------------------------------------------------------------------------
(* The history of faults only grows. *)

(* Faults are never taken back. *)
LEMMA TroubleGrows ==
  ASSUME TypeOK, Next
  PROVE  \A o \in Orders : trouble[o] \subseteq trouble'[o]
<1>1. CASE \E o \in Orders : \E faults : Suffer(o, faults)
  BY <1>1 DEF Suffer, TypeOK
<1>2. CASE UNCHANGED trouble
  BY <1>2
<1>3. CASE Handler
  BY <1>1, <1>2, <1>3, JobsFacts
  DEF Handler, CreateOrder, CheckKey, InsertOrder, EnqueueOrder, DropRequest,
      SendConfirmation, ConfirmLoad, ConfirmSend, ConfirmSave, DeleteOrder,
      RetryLoad, RetryOrder, RetrySave, RetryEnqueue, DropRetry, AddJob
<1>4. CASE \E j \in Jobs : Worker(j) \/ Crash(j)
  BY <1>4, WorkerFrame
<1> QED
  BY <1>3, <1>4, NextSplit

-----------------------------------------------------------------------------
(* OneLiveJob *)

(* Adding a job records an overlap if the order has a live one. *)
LEMMA AddJobAlone ==
  ASSUME TypeOK, OneLiveJob, NEW k \in Jobs, AddJob(k)
  PROVE  OneLiveJob'
<1> SUFFICES ASSUME NEW o \in Orders, "overlap" \notin trouble'[o],
                    NEW i \in JobsOf(o), NEW j \in JobsOf(o), Live(i)', Live(j)'
             PROVE  i = j
  BY DEF OneLiveJob
<1>1. i \in Jobs /\ j \in Jobs /\ OrderOf(i) = o /\ OrderOf(j) = o /\ OrderOf(k) \in Orders
  BY JobsFacts, JobsOfFacts
<1>2. \A l \in Jobs \ {k} : Live(l)' => Live(l)
  BY DEF AddJob, Live, TypeOK
<1>3. trouble[o] \subseteq trouble'[o]
  BY <1>1 DEF AddJob, Suffer, TypeOK
<1>4. CASE OrderOf(k) = o
  <2>1. ~\E l \in JobsOf(o) : Live(l)
    BY <1>1, <1>4 DEF AddJob, Suffer, TypeOK
  <2> QED
    BY <1>1, <1>2, <2>1
<1>5. CASE OrderOf(k) # o
  BY <1>1, <1>2, <1>3, <1>5 DEF OneLiveJob
<1> QED
  BY <1>4, <1>5

(* Every step keeps OneLiveJob: two live jobs need an overlap. *)
LEMMA OneLiveStep == TypeOK /\ KnownInv /\ OneLiveJob /\ [Next]_vars => OneLiveJob'
<1> SUFFICES ASSUME TypeOK, KnownInv, OneLiveJob, [Next]_vars
             PROVE  OneLiveJob'
  OBVIOUS
<1>1. CASE UNCHANGED vars
  BY <1>1 DEF vars, OneLiveJob, Live
<1>2. CASE Handler
  <2>1. (\E k \in Jobs : AddJob(k)) \/ UNCHANGED job
    BY <1>2, JobsFacts DEF Handler, CreateOrder, CheckKey, InsertOrder, EnqueueOrder,
         DropRequest, SendConfirmation, ConfirmLoad, ConfirmSend, ConfirmSave, DeleteOrder,
         RetryLoad, RetryOrder, RetrySave, RetryEnqueue, DropRetry
  <2>2. CASE UNCHANGED job
    BY <1>2, <2>2, TroubleGrows, NextSplit DEF OneLiveJob, Live
  <2> QED
    BY <2>1, <2>2, AddJobAlone
<1>3. ASSUME NEW j \in Jobs, Worker(j) \/ Crash(j)
      PROVE  OneLiveJob'
  <2>1. \A i \in Jobs : Live(i)' => Live(i)
    BY <1>3, WorkerJob, WorkerFrame DEF Live
  <2>2. \A o \in Orders : trouble[o] \subseteq trouble'[o]
    BY <1>3, WorkerFrame
  <2> QED
    BY <2>1, <2>2, JobsOfFacts DEF OneLiveJob
<1> QED
  BY <1>1, <1>2, <1>3, NextSplit

-----------------------------------------------------------------------------
(* PostInv *)

(* The steps of the API keep PostInv: they post nothing. *)
LEMMA PostHandler ==
  ASSUME TypeOK, KnownInv, PostInv, Handler
  PROVE  PostInv'
<1> SUFFICES ASSUME NEW o \in Orders, Undisturbed(o)'
             PROVE  PostOK(o)'
  BY DEF PostInv
<1>1. UNCHANGED <<run, erp>>
  BY HandlerFrame
<1>2. PostOK(o)
  <2>1. trouble[o] \subseteq trouble'[o]
    BY TroubleGrows, NextSplit
  <2> QED
    BY <2>1 DEF PostInv, Undisturbed
<1>a. SUFFICES ASSUME erp[o] = 1
               PROVE  /\ o \in stored' => o \in stored
                      /\ o \in stored' /\ order[o].status = "SYNCED"
                           => order'[o].status = "SYNCED"
  BY <1>1, <1>2 DEF PostOK
<1>3. ASSUME NEW p \in Orders, CreateOrder(p)
      PROVE  UNCHANGED <<stored, order>> \/ (p # o /\ InsertOrder(p))
  <2>1. o \in Known
    BY <1>a DEF KnownInv
  <2>2. ~InsertOrder(o) \/ UNCHANGED <<stored, order>>
    BY <2>1 DEF InsertOrder, Known
  <2> QED
    BY <1>3, <2>2 DEF CreateOrder, CheckKey, InsertOrder, EnqueueOrder, DropRequest
<1>4. ASSUME NEW p \in Orders, InsertOrder(p), p # o
      PROVE  /\ o \in stored' => o \in stored
             /\ order'[o] = order[o]
  BY <1>4 DEF InsertOrder, TypeOK
<1>5. ASSUME NEW j \in RetryJobs, RetryLoad(j) \/ RetryOrder(j)
      PROVE  /\ stored' = stored
             /\ order[o].status = "SYNCED" => order'[o].status = "SYNCED"
  <2>1. stored' = stored
    BY <1>5 DEF RetryLoad, RetryOrder, RetrySave, RetryEnqueue, DropRetry
  <2>2. CASE RetrySave(j) /\ OrderOf(j) = o /\ o \in stored
    <3>1. retry[j].status # "SYNCED"
      BY <2>2 DEF RetrySave, KnownInv
    <3>2. CASE order[o].status = "SYNCED" /\ "status" \in RetryDirty(retry[j])
      <4>1. "stale" \in trouble'[o]
        BY <2>2, <3>1, <3>2 DEF RetrySave, Suffer, TypeOK
      <4> QED
        BY <4>1 DEF Undisturbed, DuplicateCauses
    <3>3. CASE "status" \notin RetryDirty(retry[j])
      <4>1. order'[o] = Saved(o, NewDoc, RetryDirty(retry[j]))
        BY <2>2 DEF RetrySave, TypeOK
      <4> QED
        BY <2>1, <3>3, <4>1 DEF Saved
    <3> QED
      BY <2>1, <3>2, <3>3
  <2>3. CASE ~(RetrySave(j) /\ OrderOf(j) = o /\ o \in stored)
    <3>1. order'[o] = order[o]
      BY <1>5, <2>3 DEF RetryLoad, RetryOrder, RetrySave, RetryEnqueue, DropRetry, TypeOK
    <3> QED
      BY <2>1, <3>1
  <2> QED
    BY <2>2, <2>3
<1>6. ASSUME NEW p \in Orders, SendConfirmation(p) \/ ConfirmLoad(p)
      PROVE  stored' = stored /\ order'[o].status = order[o].status
  <2>1. \/ UNCHANGED order
        \/ order' = [order EXCEPT ![p].confirmed = TRUE]
    BY <1>6 DEF SendConfirmation, ConfirmLoad, ConfirmSend, ConfirmSave
  <2>2. stored' = stored
    BY <1>6 DEF SendConfirmation, ConfirmLoad, ConfirmSend, ConfirmSave
  <2>3. order[p] \in Doc /\ order[o] \in Doc
    BY DEF TypeOK
  <2> QED
    BY <2>1, <2>2, <2>3 DEF TypeOK, Doc
<1>7. ASSUME NEW p \in Orders, DeleteOrder(p)
      PROVE  /\ stored' \subseteq stored
             /\ o \in stored' => order'[o] = order[o]
  BY <1>7 DEF DeleteOrder, TypeOK
<1> QED
  BY <1>3, <1>4, <1>5, <1>6, <1>7 DEF Handler

(* The steps of the worker keep PostInv: a second post needs a cause. *)
LEMMA PostWorker ==
  ASSUME TypeOK, KnownInv, RunInv, OneLiveJob, PostInv,
         NEW j \in Jobs, Worker(j) \/ Crash(j)
  PROVE  PostInv'
<1> DEFINE o == OrderOf(j)
<1>0. o \in Orders /\ j \in JobsOf(o) /\ UNCHANGED stored
  BY JobsFacts, JobsOfFacts, WorkerFrame
<1>1. \A p \in Orders \ {o} : Undisturbed(p)' => PostOK(p)'
  <2> SUFFICES ASSUME NEW p \in Orders \ {o}, Undisturbed(p)'
               PROVE  PostOK(p)'
    OBVIOUS
  <2>1. \A i \in JobsOf(p) : run'[i] = run[i]
    BY WorkerFrame, JobsOfFacts
  <2>2. order'[p] = order[p] /\ erp'[p] = erp[p] /\ trouble'[p] = trouble[p]
    BY WorkerFrame
  <2> QED
    BY <1>0, <2>1, <2>2 DEF PostInv, PostOK, Undisturbed
<1> SUFFICES ASSUME Undisturbed(o)'
             PROVE  PostOK(o)'
  BY <1>1 DEF PostInv
<1>2. trouble[o] \subseteq trouble'[o] /\ "overlap" \notin trouble[o] /\ PostOK(o)
  <2>1. trouble[o] \subseteq trouble'[o]
    BY <1>0, WorkerFrame
  <2> QED
    BY <1>0, <2>1 DEF Undisturbed, DuplicateCauses, PostInv
(* The other runs of the order are idle. *)
<1>3. \A i \in JobsOf(o) \ {j} : run[i].pc = "idle" /\ run'[i].pc = "idle"
  <2>1. \A i \in JobsOf(o) \ {j} : ~Live(i) /\ i \in Jobs
    BY <1>0, <1>2, WorkerJob, JobsOfFacts DEF OneLiveJob
  <2> QED
    BY <2>1, WorkerFrame DEF Live, KnownInv
<1>4. /\ erp[o] <= 1
      /\ erp[o] = 1 =>
           /\ o \notin stored \/ order[o].status = "SYNCED" \/ run[j].pc = "posted"
           /\ run[j].pc \notin {"loaded", "ready"}
           /\ run[j].pc = "failing" => o \notin stored
  BY <1>0, <1>2, <1>3 DEF PostOK
<1>b. SUFFICES
        /\ erp'[o] <= 1
        /\ erp'[o] = 1 =>
             /\ o \notin stored \/ order'[o].status = "SYNCED" \/ run'[j].pc = "posted"
             /\ run'[j].pc \notin {"loaded", "ready"}
             /\ run'[j].pc = "failing" => o \notin stored
  BY <1>0, <1>3 DEF PostOK
<1>a. ~Suffer(o, {"audit"})
  <2> SUFFICES ASSUME Suffer(o, {"audit"})
               PROVE  FALSE
    OBVIOUS
  <2>1. "audit" \in trouble'[o]
    BY <1>0 DEF Suffer, TypeOK
  <2> QED
    BY <2>1 DEF Undisturbed, DuplicateCauses
<1> USE GotoFrame, SaveRunFrame, SaveThrowsFrame
<1>5. CASE StartJob(j)
  <2>1. run[j].pc = "idle"
    BY <1>5 DEF StartJob, KnownInv
  <2> QED
    BY <1>4, <1>5, <2>1 DEF StartJob
<1>6. CASE LoadOrder(j)
  <2>1. run'[j].pc = "loaded" => o \in stored /\ order[o].status # "SYNCED"
    BY <1>6 DEF LoadOrder, AlreadySynced
  <2>2. run'[j].pc \in {"rethrow", "done", "loaded"}
    BY <1>6 DEF LoadOrder, TypeOK
  <2> QED
    BY <1>4, <1>6, <2>1, <2>2 DEF LoadOrder
<1>7. CASE Authorise(j)
  BY <1>4, <1>7 DEF Authorise
<1>8. CASE PostOrder(j)
  <2>1. erp[o] = 0
    <3>1. run[j].pc = "ready" /\ erp[o] \in Nat
      BY <1>0, <1>8 DEF PostOrder, TypeOK
    <3> QED
      BY <1>4, <3>1
  <2>2. CASE erp' = [erp EXCEPT ![o] = @ + 1] /\ Goto(j, "failing") /\ Suffer(o, {"reply"})
    <3>1. "reply" \in trouble'[o]
      BY <1>0, <2>2 DEF Suffer, TypeOK
    <3> QED
      BY <3>1 DEF Undisturbed, DuplicateCauses
  <2>3. CASE erp' = [erp EXCEPT ![o] = @ + 1] /\ run'[j].pc = "posted"
    BY <1>0, <2>1, <2>3 DEF TypeOK
  <2>4. CASE UNCHANGED erp
    BY <2>1, <2>4
  <2> QED
    BY <1>8, <2>2, <2>3, <2>4 DEF PostOrder, TypeOK
<1>9. CASE SaveSynced(j)
  <2>1. CASE SaveRun(j, run[j].doc, run[j].dirty, "synced")
    <3>1. run[j].doc.status = "SYNCED" /\ "status" \in run[j].dirty
      BY <1>9 DEF SaveSynced, RunInv, RunOK
    <3>2. order'[o].status = "SYNCED"
      <4>1. order'[o] = Saved(o, run[j].doc, run[j].dirty)
        BY <2>1
      <4> QED
        BY <3>1, <4>1 DEF Saved
    <3> QED
      BY <1>4, <1>9, <2>1, <3>2 DEF SaveSynced
  <2>2. CASE SaveThrows(j, "failing")
    <3>1. o \notin stored
      BY <2>2 DEF Undisturbed, DuplicateCauses
    <3> QED
      BY <1>4, <1>9, <2>2, <3>1 DEF SaveSynced
  <2> QED
    BY <1>9, <2>1, <2>2 DEF SaveSynced
<1>10. CASE NotifySuccess(j)
  <2>1. Goto(j, "notified")
    <3>1. CASE Suffer(o, {"audit"})
      BY <1>a, <3>1
    <3> QED
      BY <1>10, <3>1 DEF NotifySuccess
  <2> QED
    BY <1>4, <1>10, <2>1 DEF NotifySuccess
<1>11. CASE ConfirmCustomer(j)
  <2>1. ~Goto(j, "failing") \/ "audit" \in trouble'[o]
    BY <1>0, <1>11 DEF ConfirmCustomer, Suffer, TypeOK
  <2>2. run'[j].pc \in {"done", "mailError", "mailed"}
    BY <1>11, <2>1 DEF ConfirmCustomer, TypeOK, Undisturbed, DuplicateCauses
  <2> QED
    BY <1>4, <1>11, <2>2 DEF ConfirmCustomer
<1>k. ASSUME NEW point, SaveRun(j, run[j].doc, run[j].dirty, point),
             run[j].pc \in {"mailed", "mailError"}
      PROVE  order'[o].status = order[o].status
  <2>1. order'[o] = Saved(o, run[j].doc, run[j].dirty)
    BY <1>k
  <2>2. "status" \notin run[j].dirty
    BY <1>k DEF RunInv, RunOK
  <2> QED
    BY <2>1, <2>2 DEF Saved
<1>12. CASE SaveConfirmed(j)
  BY <1>4, <1>12, <1>k DEF SaveConfirmed
<1>13. CASE SaveMailError(j)
  <2>1. CASE SaveRun(j, run[j].doc, run[j].dirty, "done")
    BY <1>4, <1>13, <1>k, <2>1 DEF SaveMailError
  <2>2. CASE Suffer(o, {"audit"})
    BY <1>a, <2>2
  <2>3. CASE SaveThrows(j, "failing")
    <3>1. o \notin stored
      BY <2>3 DEF Undisturbed, DuplicateCauses
    <3> QED
      BY <1>4, <1>13, <2>3, <3>1 DEF SaveMailError
  <2> QED
    BY <1>13, <2>1, <2>2, <2>3 DEF SaveMailError
<1>14. CASE SaveFailure(j)
  BY <1>4, <1>14 DEF SaveFailure
<1>15. CASE JobReturns(j) \/ JobThrows(j)
  <2>1. run'[j].pc = "idle"
    BY <1>15 DEF JobReturns, JobThrows, EndRun, IdleRun, TypeOK
  <2> QED
    BY <1>4, <1>15, <2>1 DEF JobReturns, JobThrows
<1>16. CASE Crash(j)
  <2>1. run'[j].pc = "idle" /\ run[j].pc # "posted"
    BY <1>0, <1>16 DEF Crash, EndRun, IdleRun, Suffer, TypeOK, Undisturbed, DuplicateCauses
  <2> QED
    BY <1>4, <1>16, <2>1 DEF Crash
<1> QED
  BY <1>5, <1>6, <1>7, <1>8, <1>9, <1>10, <1>11, <1>12, <1>13, <1>14, <1>15, <1>16
  DEF Worker

(* One local order is at most one ERP order, unless one of the faults in   *)
(* DuplicateCauses hit it.                                                 *)
THEOREM OneErpOrder == Spec => []AtMostOneErpOrder
<1>1. Init => OneLiveJob /\ PostInv
  <2> SUFFICES ASSUME Init
               PROVE  OneLiveJob /\ PostInv
    OBVIOUS
  <2>1. OneLiveJob
    BY JobsOfFacts DEF Init, OneLiveJob, Live
  <2> QED
    BY <2>1 DEF Init, PostInv, PostOK
<1>2. /\ TypeOK /\ KnownInv /\ RunInv /\ OneLiveJob /\ PostInv /\ [Next]_vars
      => (OneLiveJob /\ PostInv)'
  <2>1. PostInv /\ UNCHANGED vars => PostInv'
    BY DEF vars, PostInv, PostOK, Undisturbed
  <2> QED
    BY <2>1, OneLiveStep, PostHandler, PostWorker, NextSplit
<1>3. PostInv => AtMostOneErpOrder
  BY DEF PostInv, PostOK, Undisturbed, AtMostOneErpOrder
<1> QED
  BY <1>1, <1>2, <1>3, TypeCorrect, Links, PTL DEF Spec

-----------------------------------------------------------------------------
(* MailInv: at most one mail *)

Quiet(o) == trouble[o] \cap MailCauses = {}

(* The points of a run that has yet to decide on the mail. *)
BeforeMail == {"loaded", "ready", "posted", "synced", "notified"}

(* The mail is on record, or about to be, or the order is deleted; no run  *)
(* that does not know of it is on its way to send it again.                *)
MailOK(o) ==
  /\ mails[o] <= 1
  /\ mails[o] = 1 =>
       /\ \/ o \notin stored
          \/ order[o].confirmed
          \/ \E j \in JobsOf(o) : run[j].pc = "mailed"
       /\ \A j \in JobsOf(o) :
            run[j].pc \in BeforeMail => run[j].doc.confirmed

(* A copy that will save the sent date holds it. *)
CopyDated(j) ==
  /\ "confirmed" \in run[j].dirty => run[j].doc.confirmed
  /\ run[j].pc = "mailed" => "confirmed" \in run[j].dirty

DatedInv == \A j \in Jobs : CopyDated(j)

MailInv == \A o \in Orders : Quiet(o) => MailOK(o)

(* Every step keeps DatedInv. *)
LEMMA DatedStep == TypeOK /\ DatedInv /\ [Next]_vars => DatedInv'
<1> SUFFICES ASSUME TypeOK, DatedInv, [Next]_vars
             PROVE  DatedInv'
  OBVIOUS
<1>1. CASE UNCHANGED run
  BY <1>1 DEF DatedInv, CopyDated
<1>2. ASSUME NEW j \in Jobs, Worker(j) \/ Crash(j)
      PROVE  DatedInv'
  <2>0. CopyDated(j) /\ run[j].doc \in Doc
    BY RunFacts DEF DatedInv
  <2>a. SUFFICES CopyDated(j)'
    BY <1>2, WorkerFrame DEF DatedInv, CopyDated
  <2>1. CASE \E point \in Points \ {"mailed"} : Goto(j, point)
    BY <2>0, <2>1, GotoFrame DEF CopyDated
  <2>2. CASE \E doc, dirty : \E point \in Points \ {"mailed"} : SaveRun(j, doc, dirty, point)
    BY <2>2, SaveRunFrame DEF CopyDated
  <2>3. CASE run'[j].dirty \cap {"confirmed"} = {} /\ run'[j].pc # "mailed"
    BY <2>3 DEF CopyDated
  <2>4. CASE LoadOrder(j)
    BY <2>1, <2>3, <2>4 DEF LoadOrder, TypeOK, Points
  <2>5. CASE PostOrder(j)
    BY <2>1, <2>3, <2>5, SMTT(30) DEF PostOrder, TypeOK, Points
  <2>6. CASE ConfirmCustomer(j)
    <3>1. CASE run' = [run EXCEPT ![j] = [pc    |-> "mailed",
                                          doc   |-> [@.doc EXCEPT !.confirmed = TRUE],
                                          dirty |-> {"confirmed"}]]
      <4>1. run'[j].doc = [run[j].doc EXCEPT !.confirmed = TRUE]
        BY <3>1 DEF TypeOK
      <4>2. run'[j].doc.confirmed
        BY <2>0, <4>1 DEF Doc
      <4>3. run'[j].dirty = {"confirmed"}
        BY <3>1 DEF TypeOK
      <4> QED
        BY <4>2, <4>3 DEF CopyDated
    <3> QED
      BY <2>1, <2>6, <3>1 DEF ConfirmCustomer, Points
  <2>7. CASE StartJob(j) \/ Authorise(j) \/ NotifySuccess(j)
    BY <2>1, <2>7 DEF StartJob, Authorise, NotifySuccess, Points
  <2>8. CASE SaveSynced(j) \/ SaveConfirmed(j) \/ SaveMailError(j) \/ SaveFailure(j)
    BY <2>1, <2>2, <2>8
    DEF SaveSynced, SaveConfirmed, SaveMailError, SaveFailure, SaveThrows, Points
  <2>9. CASE JobReturns(j) \/ JobThrows(j) \/ Crash(j)
    <3>1. run'[j] = IdleRun
      BY <2>9 DEF JobReturns, JobThrows, Crash, EndRun, TypeOK
    <3> QED
      BY <2>3, <3>1 DEF IdleRun
  <2> QED
    BY <1>2, <2>4, <2>5, <2>6, <2>7, <2>8, <2>9 DEF Worker
<1> QED
  BY <1>1, <1>2, HandlerFrame, NextSplit DEF vars

(* What the API handlers may do to the date in a document: keep it, set    *)
(* it, or insert a document for an order that has none yet.                *)
LEMMA DateKept ==
  ASSUME TypeOK, KnownInv, Handler, NEW o \in Orders, o \in Known
  PROVE  /\ o \in stored' => o \in stored
         /\ o \in stored' /\ order[o].confirmed => order'[o].confirmed
<1>1. ASSUME NEW p \in Orders, CreateOrder(p)
      PROVE  stored' \subseteq stored \cup {p} /\ order'[o] = order[o]
                /\ (p = o => stored' = stored)
  <2>1. ~InsertOrder(o) \/ UNCHANGED <<stored, order>>
    BY DEF InsertOrder, Known
  <2> QED
    BY <1>1, <2>1
    DEF CreateOrder, CheckKey, InsertOrder, EnqueueOrder, DropRequest, TypeOK
<1>2. ASSUME NEW j \in RetryJobs, RetryLoad(j) \/ RetryOrder(j)
      PROVE  stored' = stored /\ order'[o].confirmed = order[o].confirmed
  <2>1. CASE RetrySave(j) /\ OrderOf(j) = o /\ o \in stored
    <3>1. order'[o] = Saved(o, NewDoc, RetryDirty(retry[j]))
      BY <2>1 DEF RetrySave, TypeOK
    <3>2. "confirmed" \notin RetryDirty(retry[j])
      BY DEF RetryDirty
    <3> QED
      BY <2>1, <3>1, <3>2 DEF RetrySave, Saved
  <2>2. CASE ~(RetrySave(j) /\ OrderOf(j) = o /\ o \in stored)
    BY <1>2, <2>2
    DEF RetryLoad, RetryOrder, RetrySave, RetryEnqueue, DropRetry, TypeOK
  <2> QED
    BY <2>1, <2>2
<1>3. ASSUME NEW p \in Orders, SendConfirmation(p) \/ ConfirmLoad(p)
      PROVE  stored' = stored /\ (order[o].confirmed => order'[o].confirmed)
  <2>1. \/ UNCHANGED order
        \/ order' = [order EXCEPT ![p].confirmed = TRUE]
    BY <1>3 DEF SendConfirmation, ConfirmLoad, ConfirmSend, ConfirmSave
  <2>2. order[p] \in Doc /\ order[o] \in Doc
    BY DEF TypeOK
  <2>3. stored' = stored
    BY <1>3 DEF SendConfirmation, ConfirmLoad, ConfirmSend, ConfirmSave
  <2> QED
    BY <2>1, <2>2, <2>3 DEF TypeOK, Doc
<1>4. ASSUME NEW p \in Orders, DeleteOrder(p)
      PROVE  stored' = stored \ {p} /\ (p # o => order'[o] = order[o])
  BY <1>4 DEF DeleteOrder, TypeOK
<1> QED
  BY <1>1, <1>2, <1>3, <1>4 DEF Handler

(* The steps of the API keep MailInv: they erase no sent date.             *)
LEMMA MailHandler ==
  ASSUME TypeOK, KnownInv, LinkInv, MailInv, Handler
  PROVE  MailInv'
<1> SUFFICES ASSUME NEW o \in Orders, Quiet(o)'
             PROVE  MailOK(o)'
  BY DEF MailInv
<1>1. UNCHANGED <<run, mails>>
  BY HandlerFrame
<1>2. MailOK(o)
  <2>1. trouble[o] \subseteq trouble'[o]
    BY TroubleGrows, NextSplit
  <2> QED
    BY <2>1 DEF MailInv, Quiet
<1>3. CASE mails[o] = 1
  <2>1. o \in Known
    BY <1>3 DEF LinkInv, OrderLinked, KnownInv
  <2> QED
    BY <1>1, <1>2, <1>3, <2>1, DateKept DEF MailOK
<1>4. CASE mails[o] # 1
  BY <1>1, <1>2, <1>4 DEF MailOK
<1> QED
  BY <1>3, <1>4

(* The steps of the worker keep MailInv: a second mail needs a cause.      *)
LEMMA MailWorker ==
  ASSUME TypeOK, KnownInv, RunInv, OneLiveJob, DatedInv, MailInv,
         NEW j \in Jobs, Worker(j) \/ Crash(j)
  PROVE  MailInv'
<1> DEFINE o == OrderOf(j)
<1>0. o \in Orders /\ j \in JobsOf(o) /\ UNCHANGED stored
  BY JobsFacts, JobsOfFacts, WorkerFrame
<1>1. \A p \in Orders \ {o} : Quiet(p)' => MailOK(p)'
  <2> SUFFICES ASSUME NEW p \in Orders \ {o}, Quiet(p)'
               PROVE  MailOK(p)'
    OBVIOUS
  <2>1. \A i \in JobsOf(p) : run'[i] = run[i]
    BY WorkerFrame, JobsOfFacts
  <2>2. order'[p] = order[p] /\ mails'[p] = mails[p] /\ trouble'[p] = trouble[p]
    BY WorkerFrame
  <2> QED
    BY <1>0, <2>1, <2>2 DEF MailInv, MailOK, Quiet
<1> SUFFICES ASSUME Quiet(o)'
             PROVE  MailOK(o)'
  BY <1>1 DEF MailInv
<1>2. trouble[o] \subseteq trouble'[o] /\ "overlap" \notin trouble[o] /\ MailOK(o)
  <2>1. trouble[o] \subseteq trouble'[o]
    BY <1>0, WorkerFrame
  <2> QED
    BY <1>0, <2>1 DEF Quiet, MailCauses, MailInv
(* The other runs of the order are idle. *)
<1>3. \A i \in JobsOf(o) \ {j} : run[i].pc = "idle" /\ run'[i].pc = "idle"
  <2>1. \A i \in JobsOf(o) \ {j} : ~Live(i) /\ i \in Jobs
    BY <1>0, <1>2, WorkerJob, JobsOfFacts DEF OneLiveJob
  <2> QED
    BY <2>1, WorkerFrame DEF Live, KnownInv
<1>4. /\ mails[o] <= 1
      /\ mails[o] = 1 =>
           /\ o \notin stored \/ order[o].confirmed \/ run[j].pc = "mailed"
           /\ run[j].pc \in BeforeMail => run[j].doc.confirmed
  BY <1>0, <1>2, <1>3 DEF MailOK
<1>b. SUFFICES
        /\ mails'[o] <= 1
        /\ mails'[o] = 1 =>
             /\ o \notin stored \/ order'[o].confirmed \/ run'[j].pc = "mailed"
             /\ run'[j].pc \in BeforeMail => run'[j].doc.confirmed
  BY <1>0, <1>3 DEF MailOK, BeforeMail
<1>c. CopyDated(j) /\ run[j].doc \in Doc /\ RunOK(j)
  BY RunFacts DEF DatedInv, RunInv
(* A save of the copy keeps or sets the date. *)
<1>d. ASSUME NEW doc, NEW dirty, NEW point, SaveRun(j, doc, dirty, point),
             "confirmed" \in dirty => doc.confirmed
      PROVE  order[o].confirmed => order'[o].confirmed
  <2>1. order'[o] = Saved(o, doc, dirty)
    BY <1>d, SaveRunFrame
  <2> QED
    BY <1>d, <2>1 DEF Saved
(* A save that throws finds the order deleted. *)
<1>e. ASSUME NEW point, SaveThrows(j, point)
      PROVE  o \notin stored
  BY <1>e, SaveThrowsFrame DEF Quiet, MailCauses
<1> USE GotoFrame, SaveRunFrame, SaveThrowsFrame DEF BeforeMail
<1>5. CASE StartJob(j)
  <2>1. run[j].pc = "idle"
    BY <1>5 DEF StartJob, KnownInv
  <2> QED
    BY <1>4, <1>5, <2>1 DEF StartJob
<1>6. CASE LoadOrder(j)
  <2>1. CASE run' = [run EXCEPT ![j] = [pc |-> "loaded", doc |-> order[o], dirty |-> {}]]
    <3>1. run'[j].pc = "loaded" /\ run'[j].doc = order[o]
      BY <2>1 DEF TypeOK
    <3>2. o \in stored /\ run[j].pc = "start" /\ UNCHANGED <<order, mails>>
      BY <1>6, <2>1, <3>1 DEF LoadOrder
    <3> QED
      BY <1>4, <3>1, <3>2
  <2>2. CASE Goto(j, "rethrow") \/ Goto(j, "done")
    BY <1>4, <1>6, <2>2 DEF LoadOrder
  <2> QED
    BY <1>6, <2>1, <2>2 DEF LoadOrder
<1>7. CASE Authorise(j)
  BY <1>4, <1>7 DEF Authorise
<1>8. CASE PostOrder(j)
  <2>1. run[j].pc = "ready" /\ UNCHANGED <<order, mails>>
    BY <1>8 DEF PostOrder
  <2>2. CASE Goto(j, "failing")
    BY <1>4, <2>1, <2>2
  <2>3. CASE ~Goto(j, "failing")
    <3>1. run'[j].doc = [run[j].doc EXCEPT !.status = "SYNCED",
                                           !.snelstartOrderId = erp[o] + 1]
      BY <1>8, <2>3 DEF PostOrder, TypeOK
    <3> DEFINE n == erp[o] + 1
    <3>2. run'[j].doc = [run[j].doc EXCEPT !.status = "SYNCED", !.snelstartOrderId = n]
      BY <3>1
    <3> HIDE DEF n
    <3>3. run'[j].doc.confirmed = run[j].doc.confirmed
      BY <1>c, <3>2 DEF Doc
    <3> QED
      BY <1>4, <2>1, <3>3
  <2> QED
    BY <2>2, <2>3
<1>9. CASE SaveSynced(j)
  <2>1. CASE SaveRun(j, run[j].doc, run[j].dirty, "synced")
    BY <1>4, <1>9, <1>c, <1>d, <2>1 DEF SaveSynced, RunOK
  <2>2. CASE SaveThrows(j, "failing")
    BY <1>4, <1>9, <1>e, <2>2 DEF SaveSynced
  <2> QED
    BY <1>9, <2>1, <2>2 DEF SaveSynced
<1>10. CASE NotifySuccess(j)
  BY <1>4, <1>10 DEF NotifySuccess
<1>11. CASE ConfirmCustomer(j)
  <2>1. run[j].pc = "notified" /\ UNCHANGED order
    BY <1>11 DEF ConfirmCustomer
  <2>2. CASE UNCHANGED mails
    <3>1. run'[j].pc \in {"done", "failing", "mailError", "mailed"}
      BY <1>11 DEF ConfirmCustomer, TypeOK
    <3> QED
      BY <1>4, <2>1, <2>2, <3>1
  <2>3. CASE ~UNCHANGED mails
    <3>1. ~Suffer(o, {"smtp"})
      <4> SUFFICES ASSUME Suffer(o, {"smtp"})
                   PROVE  FALSE
        OBVIOUS
      <4>1. "smtp" \in trouble'[o]
        BY <1>0 DEF Suffer, TypeOK
      <4> QED
        BY <4>1 DEF Quiet, MailCauses
    <3>2. /\ ~run[j].doc.confirmed
          /\ mails' = [mails EXCEPT ![o] = @ + 1]
          /\ run'[j].pc = "mailed"
      BY <1>11, <2>3, <3>1 DEF ConfirmCustomer, SentBefore, TypeOK
    <3>3. mails[o] = 0
      <4>1. mails[o] \in Nat /\ mails[o] # 1
        BY <1>0, <1>4, <2>1, <3>2 DEF TypeOK
      <4> QED
        BY <1>4, <4>1
    <3> QED
      BY <1>0, <3>2, <3>3 DEF TypeOK
  <2> QED
    BY <2>2, <2>3
<1>12. CASE SaveConfirmed(j)
  <2>0. run[j].pc = "mailed" /\ UNCHANGED mails
    BY <1>12 DEF SaveConfirmed
  <2>1. ASSUME NEW point \in {"done", "mailError"},
               SaveRun(j, run[j].doc, run[j].dirty, point)
        PROVE  order'[o].confirmed /\ run'[j].pc = point
    <3>1. order'[o] = Saved(o, run[j].doc, run[j].dirty) /\ run'[j].pc = point
      BY <2>1
    <3>2. "confirmed" \in run[j].dirty /\ run[j].doc.confirmed
      BY <1>c, <2>0 DEF CopyDated
    <3> QED
      BY <3>1, <3>2 DEF Saved
  <2>2. CASE SaveThrows(j, "mailError")
    BY <1>4, <1>e, <2>0, <2>2
  <2> QED
    BY <1>4, <1>12, <2>0, <2>1, <2>2 DEF SaveConfirmed
<1>13. CASE SaveMailError(j)
  <2>0. run[j].pc = "mailError" /\ UNCHANGED mails
    BY <1>13 DEF SaveMailError
  <2>1. ASSUME NEW point \in {"done", "failing"},
               SaveRun(j, run[j].doc, run[j].dirty, point)
        PROVE  /\ order[o].confirmed => order'[o].confirmed
               /\ run'[j].pc = point
    BY <1>c, <1>d, <2>1 DEF CopyDated
  <2>2. CASE SaveThrows(j, "failing")
    BY <1>4, <1>e, <2>0, <2>2
  <2> QED
    BY <1>4, <1>13, <2>0, <2>1, <2>2 DEF SaveMailError
<1>14. CASE SaveFailure(j)
  <2>0. run[j].pc = "failing" /\ UNCHANGED mails
    BY <1>14 DEF SaveFailure
  <2>1. CASE SaveRun(j, FailedDoc(run[j].doc), FailedDirty(run[j]), "rethrow")
    <3>1. "confirmed" \in FailedDirty(run[j]) => FailedDoc(run[j].doc).confirmed
      BY <1>c, FailedDocFacts DEF CopyDated, FailedDirty
    <3> QED
      BY <1>4, <1>d, <2>0, <2>1, <3>1
  <2>2. CASE SaveThrows(j, "rethrow")
    BY <1>4, <1>e, <2>0, <2>2
  <2> QED
    BY <1>14, <2>1, <2>2 DEF SaveFailure
<1>15. CASE JobReturns(j) \/ JobThrows(j)
  <2>1. run'[j].pc = "idle" /\ run[j].pc # "mailed"
    BY <1>15 DEF JobReturns, JobThrows, EndRun, IdleRun, TypeOK
  <2> QED
    BY <1>4, <1>15, <2>1 DEF JobReturns, JobThrows
<1>16. CASE Crash(j)
  <2>1. "crash" \in trouble'[o]
    BY <1>0, <1>16 DEF Crash, Suffer, TypeOK
  <2> QED
    BY <2>1 DEF Quiet, MailCauses
<1> QED
  BY <1>5, <1>6, <1>7, <1>8, <1>9, <1>10, <1>11, <1>12, <1>13, <1>14, <1>15, <1>16
  DEF Worker

(* OneLiveJob holds at first and after every step. *)
LEMMA OneLive == Spec => []OneLiveJob
<1>1. Init => OneLiveJob
  BY JobsOfFacts DEF Init, OneLiveJob, Live
<1> QED
  BY <1>1, OneLiveStep, TypeCorrect, Links, PTL DEF Spec

(* The worker mails a customer at most once, unless one of the faults in   *)
(* MailCauses hit the order: a run that finds the sent date sends nothing. *)
THEOREM OneMail == Spec => []AtMostOneMail
<1>1. Init => DatedInv /\ MailInv
  BY JobsFacts DEF Init, DatedInv, CopyDated, MailInv, MailOK, IdleRun
<1>2. /\ TypeOK /\ KnownInv /\ RunInv /\ LinkInv /\ OneLiveJob
      /\ DatedInv /\ MailInv /\ [Next]_vars
      => (DatedInv /\ MailInv)'
  <2>1. MailInv /\ UNCHANGED vars => MailInv'
    BY DEF vars, MailInv, MailOK, Quiet
  <2> QED
    BY <2>1, DatedStep, MailHandler, MailWorker, NextSplit
<1>3. MailInv => AtMostOneMail
  BY DEF MailInv, MailOK, Quiet, AtMostOneMail
<1> QED
  BY <1>1, <1>2, <1>3, TypeCorrect, Links, OneLive, PTL DEF Spec

-----------------------------------------------------------------------------
(* StrandInv: never PENDING_SYNC with nobody at work *)

Calm(o) == trouble[o] \cap StrandingCauses = {}

(* A handler has saved the document and is about to add a job. *)
Awaited(o) ==
  \/ intake[o] = "saved"
  \/ \E j \in JobsOf(o) \cap RetryJobs : retry[j].pc = "saved"

(* The document counts the failed attempts of live job j, and its run      *)
(* knows the document's status.                                            *)
InStep(o, j) ==
  LET made == job[j].attemptsMade
      r    == run[j]
  IN
  /\ r.pc \in {"idle", "start"} => order[o].retryCount >= made
  /\ r.pc \in {"loaded", "ready", "failing"} \cup PostedPoints
       => r.doc.retryCount >= made
  /\ r.pc \in {"loaded", "ready", "failing"} => r.doc.status = order[o].status
  /\ r.pc \in PostedPoints \ {"posted"}
       => r.doc.status = "SYNCED" /\ order[o].status = "SYNCED"
  /\ r.pc = "rethrow"
       => /\ order[o].retryCount >= made + 1
          /\ made + 1 >= JobAttempts => order[o].status # "PENDING_SYNC"
  /\ r.pc = "done" => order[o].status = "SYNCED"

StrandOK(o) ==
  /\ (\A j \in JobsOf(o) : ~Live(j)) => order[o].status # "PENDING_SYNC"
  /\ \A j \in JobsOf(o) : Live(j) => InStep(o, j)

StrandInv == \A o \in stored : Calm(o) /\ ~Awaited(o) => StrandOK(o)

(* A job that was not added has made no attempt. *)
FreshInv == \A j \in Jobs : job[j].state = "none" => job[j].attemptsMade = 0

(* What a handler does to the jobs: it adds one, or leaves them alone. *)
LEMMA HandlerJobs ==
  ASSUME Handler
  PROVE  (\E k \in Jobs : AddJob(k)) \/ UNCHANGED job
  BY JobsFacts
  DEF Handler, CreateOrder, CheckKey, InsertOrder, EnqueueOrder, DropRequest,
      SendConfirmation, ConfirmLoad, ConfirmSend, ConfirmSave, DeleteOrder,
      RetryLoad, RetryOrder, RetrySave, RetryEnqueue, DropRetry

(* Every step keeps FreshInv. *)
LEMMA FreshStep == TypeOK /\ KnownInv /\ FreshInv /\ [Next]_vars => FreshInv'
<1> SUFFICES ASSUME TypeOK, KnownInv, FreshInv, [Next]_vars
             PROVE  FreshInv'
  OBVIOUS
<1>1. CASE UNCHANGED job
  BY <1>1 DEF FreshInv
<1>2. ASSUME NEW k \in Jobs, AddJob(k)
      PROVE  FreshInv'
  BY <1>2 DEF AddJob, FreshInv, TypeOK
<1>3. ASSUME NEW j \in Jobs, Worker(j) \/ Crash(j)
      PROVE  FreshInv'
  BY <1>3, WorkerFrame, WorkerJob DEF FreshInv
<1> QED
  BY <1>1, <1>2, <1>3, HandlerJobs, NextSplit DEF vars

(* A handler after which nobody is about to add a job for a calm order has *)
(* just added one, or has left the order's jobs and its status alone.      *)
LEMMA HandlerCalm ==
  ASSUME TypeOK, KnownInv, Handler,
         NEW o \in stored', Calm(o)', ~Awaited(o)'
  PROVE  \/ \E k \in JobsOf(o) : AddJob(k) /\ job[k].state = "none" /\ o \in stored
         \/ /\ o \in stored /\ ~Awaited(o)
            /\ order'[o].status = order[o].status
            /\ order'[o].retryCount = order[o].retryCount
            /\ \A j \in JobsOf(o) : job'[j] = job[j]
<1>0. o \in Orders /\ order[o] \in Doc
  <2>1. stored' \subseteq Orders
    BY NextType, NextSplit DEF TypeOK
  <2> QED
    BY <2>1 DEF TypeOK
<1>a. intake'[o] # "saved" /\ "lost" \notin trouble'[o]
      /\ \A j \in JobsOf(o) \cap RetryJobs : retry'[j].pc # "saved"
  BY DEF Awaited, Calm, StrandingCauses
<1>b. o \in stored => intake[o] \in {"saved", "queued", "lost"}
  BY DEF KnownInv, Known
<1>c. \A j \in Jobs : OrderOf(j) # o => j \notin JobsOf(o)
  BY <1>0, JobsOfFacts
<1>1. ASSUME NEW p \in Orders, CreateOrder(p)
      PROVE  \/ AddJob(<<o, 0>>) /\ o \in stored /\ intake[o] # "queued"
             \/ /\ o \in stored /\ ~Awaited(o) /\ order'[o] = order[o]
                /\ \A j \in JobsOf(o) : job'[j] = job[j]
  <2>1. CASE CheckKey(p)
    BY <1>0, <1>a, <1>b, <2>1 DEF CheckKey, Awaited, TypeOK
  <2>2. CASE InsertOrder(p)
    BY <1>0, <1>a, <1>b, <2>2 DEF InsertOrder, Awaited, TypeOK
  <2>3. CASE EnqueueOrder(p)
    <3>1. CASE p = o
      BY <2>3, <3>1 DEF EnqueueOrder
    <3>2. CASE p # o
      <4>1. <<p, 0>> \in Jobs /\ <<p, 0>> \notin JobsOf(o)
        BY <1>0, <3>2, JobsFacts, JobsOfFacts
      <4>2. \A j \in JobsOf(o) : job'[j] = job[j]
        BY <1>0, <2>3, <4>1, JobsOfFacts DEF EnqueueOrder, AddJob, TypeOK
      <4> QED
        BY <1>0, <1>a, <2>3, <3>2, <4>2 DEF EnqueueOrder, Awaited, TypeOK
    <3> QED
      BY <3>1, <3>2
  <2>4. CASE DropRequest(p)
    <3>1. p # o
      BY <1>0, <1>a, <1>b, <2>4 DEF DropRequest, Suffer, TypeOK
    <3> QED
      BY <1>0, <1>a, <2>4, <3>1 DEF DropRequest, Awaited, TypeOK
  <2> QED
    BY <1>1, <2>1, <2>2, <2>3, <2>4 DEF CreateOrder
<1>2. ASSUME NEW i \in RetryJobs, RetryLoad(i) \/ RetryOrder(i)
      PROVE  \/ AddJob(i) /\ OrderOf(i) = o /\ o \in stored /\ retry[i].pc = "saved"
             \/ /\ o \in stored /\ ~Awaited(o) /\ order'[o] = order[o]
                /\ \A j \in JobsOf(o) : job'[j] = job[j]
  <2>0. /\ stored' = stored /\ intake' = intake
        /\ \A j \in RetryJobs \ {i} : retry'[j] = retry[j]
    BY <1>2
    DEF RetryLoad, RetryOrder, RetrySave, RetryEnqueue, DropRetry, TypeOK
  <2>1. i \in Jobs /\ OrderOf(i) \in Orders
    BY JobsFacts
  <2>2. CASE OrderOf(i) # o
    <3>1. ~Awaited(o)
      BY <1>a, <1>c, <2>0, <2>1, <2>2 DEF Awaited
    <3>2. order'[o] = order[o]
      BY <1>0, <1>2, <2>1, <2>2
      DEF RetryLoad, RetryOrder, RetrySave, RetryEnqueue, DropRetry, TypeOK
    <3>3. \A j \in JobsOf(o) : job'[j] = job[j]
      BY <1>0, <1>2, <1>c, <2>1, <2>2, JobsOfFacts
      DEF RetryLoad, RetryOrder, RetrySave, RetryEnqueue, DropRetry, AddJob, TypeOK
    <3> QED
      BY <2>0, <3>1, <3>2, <3>3
  <2>3. CASE OrderOf(i) = o
    <3>0. i \in JobsOf(o) \cap RetryJobs
      BY <1>0, <2>1, <2>3, JobsOfFacts
    <3>1. CASE RetryEnqueue(i)
      BY <2>0, <2>3, <3>1 DEF RetryEnqueue
    <3>2. CASE RetryLoad(i) \/ DropRetry(i)
      <4>1. retry[i].pc # "saved"
        BY <1>0, <1>a, <2>3, <3>2 DEF RetryLoad, DropRetry, Suffer, TypeOK
      <4>2. UNCHANGED <<order, job>>
        BY <3>2 DEF RetryLoad, DropRetry
      <4>3. ~Awaited(o)
        BY <1>a, <2>0, <4>1 DEF Awaited
      <4> QED
        BY <2>0, <4>2, <4>3
    <3>3. CASE RetrySave(i)
      <4>1. retry'[i].pc = "saved"
        BY <2>0, <2>3, <3>3 DEF RetrySave, TypeOK
      <4> QED
        BY <1>a, <3>0, <4>1
    <3> QED
      BY <1>2, <3>1, <3>2, <3>3 DEF RetryOrder
  <2> QED
    BY <2>2, <2>3
<1>3. ASSUME NEW p \in Orders, SendConfirmation(p) \/ ConfirmLoad(p) \/ DeleteOrder(p)
      PROVE  /\ o \in stored /\ ~Awaited(o)
             /\ order'[o].status = order[o].status
             /\ order'[o].retryCount = order[o].retryCount
             /\ UNCHANGED job
  <2>1. UNCHANGED <<intake, retry, job>> /\ o \in stored
    BY <1>3 DEF SendConfirmation, ConfirmLoad, ConfirmSend, ConfirmSave, DeleteOrder
  <2>2. CASE DeleteOrder(p)
    BY <1>0, <1>a, <2>1, <2>2 DEF DeleteOrder, Awaited, TypeOK
  <2>3. CASE ~DeleteOrder(p)
    <3>1. \/ UNCHANGED order
          \/ order' = [order EXCEPT ![p].confirmed = TRUE]
      BY <1>3, <2>3 DEF SendConfirmation, ConfirmLoad, ConfirmSend, ConfirmSave
    <3>2. /\ order'[o].status = order[o].status
          /\ order'[o].retryCount = order[o].retryCount
      BY <1>0, <3>1 DEF TypeOK, Doc
    <3> QED
      BY <1>a, <2>1, <3>2 DEF Awaited
  <2> QED
    BY <2>2, <2>3
<1>4. \A k \in Jobs : OrderOf(k) = o => k \in JobsOf(o)
  BY <1>0, JobsOfFacts
<1>5. /\ <<o, 0>> \in JobsOf(o)
      /\ intake[o] # "queued" => job[<<o, 0>>].state = "none"
  BY <1>0, <1>4, JobsFacts DEF KnownInv
<1>6. \A i \in RetryJobs : /\ OrderOf(i) = o => i \in JobsOf(o)
                           /\ retry[i].pc = "saved" => job[i].state = "none"
  BY <1>4, JobsFacts DEF KnownInv
<1> QED
  BY <1>1, <1>2, <1>3, <1>5, <1>6 DEF Handler

(* The steps of the API keep StrandInv: the job they add has no attempts.  *)
LEMMA StrandHandler ==
  ASSUME TypeOK, KnownInv, FreshInv, StrandInv, Handler
  PROVE  StrandInv'
<1> SUFFICES ASSUME NEW o \in stored', Calm(o)', ~Awaited(o)'
             PROVE  StrandOK(o)'
  BY DEF StrandInv
<1>0. o \in Orders
  BY NextType, NextSplit DEF TypeOK
<1>1. UNCHANGED run /\ trouble[o] \subseteq trouble'[o]
  BY <1>0, HandlerFrame, TroubleGrows, NextSplit
<1>2. ASSUME NEW k \in JobsOf(o), AddJob(k), job[k].state = "none"
      PROVE  StrandOK(o)'
  <2>1. k \in Jobs /\ OrderOf(k) = o
    BY <1>0, JobsOfFacts
  <2>2. /\ job'[k].state = "waiting"
        /\ job'[k].attemptsMade = 0
        /\ \A j \in Jobs \ {k} : job'[j] = job[j]
    BY <1>2, <2>1 DEF AddJob, FreshInv, TypeOK
  <2>3. \A j \in JobsOf(o) : ~Live(j)
    <3> SUFFICES ASSUME \E j \in JobsOf(o) : Live(j)
                 PROVE  FALSE
      OBVIOUS
    <3>1. "overlap" \in trouble'[o]
      BY <1>0, <1>2, <2>1 DEF AddJob, Suffer, TypeOK
    <3> QED
      BY <3>1 DEF Calm, StrandingCauses
  <2>4. \A j \in JobsOf(o) \ {k} : ~Live(j)'
    BY <1>0, <2>2, <2>3, JobsOfFacts DEF Live
  <2>5. InStep(o, k)'
    <3>1. run'[k].pc = "idle" /\ order'[o].retryCount \in Nat
      BY <1>0, <1>1, <1>2, <2>1, NextType, NextSplit DEF KnownInv, TypeOK, Doc
    <3> QED
      BY <2>2, <3>1 DEF InStep, PostedPoints
  <2> QED
    BY <2>2, <2>4, <2>5 DEF StrandOK, Live
<1>3. ASSUME o \in stored, ~Awaited(o),
             order'[o].status = order[o].status,
             order'[o].retryCount = order[o].retryCount,
             \A j \in JobsOf(o) : job'[j] = job[j]
      PROVE  StrandOK(o)'
  <2>1. StrandOK(o)
    BY <1>1, <1>3 DEF StrandInv, Calm
  <2>2. \A j \in JobsOf(o) : /\ Live(j)' <=> Live(j)
                             /\ InStep(o, j) => InStep(o, j)'
    BY <1>1, <1>3 DEF Live, InStep
  <2> QED
    BY <1>3, <2>1, <2>2 DEF StrandOK
<1> QED
  BY <1>2, <1>3, HandlerCalm

(* The catch block counts the attempt, and the last one is not PENDING.    *)
LEMMA FailedDocCounts ==
  ASSUME NEW doc \in Doc
  PROVE  /\ FailedDoc(doc).retryCount = doc.retryCount + 1
         /\ FailedDoc(doc).status = "PENDING_SYNC" => doc.retryCount + 1 < JobAttempts
<1> DEFINE n  == doc.retryCount + 1
           st == IF IsFinalFailure(n) THEN "SYNC_FAILED" ELSE "PENDING_SYNC"
<1>1. n \in Nat /\ (st = "PENDING_SYNC" => n < JobAttempts)
  BY DEF Doc, IsFinalFailure
<1>2. FailedDoc(doc) = [doc EXCEPT !.retryCount = n, !.status = st]
  BY DEF FailedDoc
<1> HIDE DEF n, st
<1>3. FailedDoc(doc).retryCount = n /\ FailedDoc(doc).status = st
  BY <1>2 DEF Doc
<1> QED
  BY <1>1, <1>3 DEF n

(* A run that fails leaves an attempt counted, and the last one settled.   *)
LEMMA FailureCounted ==
  ASSUME TypeOK, NEW j \in Jobs, run[j].pc = "failing",
         InStep(OrderOf(j), j),
         SaveRun(j, FailedDoc(run[j].doc), FailedDirty(run[j]), "rethrow")
  PROVE  /\ order'[OrderOf(j)].retryCount >= job[j].attemptsMade + 1
         /\ job[j].attemptsMade + 1 >= JobAttempts
              => order'[OrderOf(j)].status # "PENDING_SYNC"
<1> DEFINE o == OrderOf(j)
           d == run[j].doc
           n == job[j].attemptsMade
<1>1. o \in Orders /\ d \in Doc /\ n \in Nat
  BY JobsFacts, RunFacts DEF TypeOK
<1>2. d.retryCount >= n /\ d.status = order[o].status
  BY DEF InStep
<1>3. order'[o] = Saved(o, FailedDoc(d), FailedDirty(run[j]))
  BY SaveRunFrame
<1>4. order'[o].retryCount = d.retryCount + 1
  BY <1>1, <1>3, FailedDocCounts DEF Saved, FailedDirty
<1>5. order'[o].status = "PENDING_SYNC" => FailedDoc(d).status = "PENDING_SYNC"
  <2>1. CASE "status" \in FailedDirty(run[j])
    BY <1>3, <2>1 DEF Saved
  <2>2. CASE "status" \notin FailedDirty(run[j])
    BY <1>2, <1>3, <2>2 DEF Saved, FailedDirty
  <2> QED
    BY <2>1, <2>2
<1>6. d.retryCount \in Nat
  BY <1>1 DEF Doc
<1>7. order'[o].status = "PENDING_SYNC" => d.retryCount + 1 < JobAttempts
  BY <1>1, <1>5, FailedDocCounts
<1> QED
  BY <1>1, <1>2, <1>4, <1>6, <1>7

(* The steps of the worker keep StrandInv: its last attempt settles.       *)
LEMMA StrandWorker ==
  ASSUME TypeOK, KnownInv, RunInv, OneLiveJob, StrandInv,
         NEW j \in Jobs, Worker(j) \/ Crash(j)
  PROVE  StrandInv'
<1> DEFINE o == OrderOf(j)
<1>0. o \in Orders /\ j \in JobsOf(o) /\ UNCHANGED <<stored, intake, retry>>
  BY JobsFacts, JobsOfFacts, WorkerFrame
<1>1. \A p \in stored \ {o} : Calm(p)' /\ ~Awaited(p)' => StrandOK(p)'
  <2> SUFFICES ASSUME NEW p \in stored \ {o}, Calm(p)', ~Awaited(p)'
               PROVE  StrandOK(p)'
    OBVIOUS
  <2>0. p \in Orders
    BY DEF TypeOK
  <2>1. \A i \in JobsOf(p) : run'[i] = run[i] /\ job'[i] = job[i]
    BY <2>0, WorkerFrame, JobsOfFacts
  <2>2. order'[p] = order[p] /\ trouble'[p] = trouble[p]
    BY <2>0, WorkerFrame
  <2>3. StrandOK(p)
    BY <1>0, <2>2 DEF StrandInv, Calm, Awaited
  <2>4. \A i \in JobsOf(p) : /\ Live(i)' <=> Live(i)
                             /\ InStep(p, i) => InStep(p, i)'
    BY <2>1, <2>2 DEF Live, InStep
  <2> QED
    BY <2>2, <2>3, <2>4 DEF StrandOK
<1> SUFFICES ASSUME o \in stored, Calm(o)', ~Awaited(o)'
             PROVE  StrandOK(o)'
  BY <1>0, <1>1 DEF StrandInv
<1>2. trouble[o] \subseteq trouble'[o] /\ "overlap" \notin trouble[o] /\ StrandOK(o)
  <2>1. trouble[o] \subseteq trouble'[o]
    BY <1>0, WorkerFrame
  <2> QED
    BY <1>0, <2>1 DEF Calm, StrandingCauses, StrandInv, Awaited
(* j is the order's only live job. *)
<1>3. Live(j) /\ InStep(o, j) /\ \A i \in JobsOf(o) \ {j} : ~Live(i)'
  <2>1. Live(j) /\ \A i \in JobsOf(o) \ {j} : ~Live(i) /\ i \in Jobs
    BY <1>0, <1>2, WorkerJob, JobsOfFacts DEF OneLiveJob
  <2>2. \A i \in JobsOf(o) \ {j} : ~Live(i)'
    BY <2>1, WorkerFrame DEF Live
  <2> QED
    BY <1>0, <1>2, <2>1, <2>2 DEF StrandOK
<1>b. SUFFICES /\ Live(j)' => InStep(o, j)'
               /\ ~Live(j)' => order'[o].status # "PENDING_SYNC"
  BY <1>0, <1>3 DEF StrandOK
<1>c. /\ run[j].doc \in Doc /\ RunOK(j) /\ job[j].attemptsMade \in Nat
      /\ order[o].retryCount \in Nat /\ run[j].doc.retryCount \in Nat
  BY <1>0, RunFacts DEF RunInv, TypeOK, Doc
<1>d. \A f \in StrandingCauses : ~Suffer(o, {f})
  <2> SUFFICES ASSUME NEW f \in StrandingCauses, Suffer(o, {f})
               PROVE  FALSE
    OBVIOUS
  <2>1. f \in trouble'[o]
    BY <1>0 DEF Suffer, TypeOK
  <2> QED
    BY <2>1 DEF Calm
<1>e. ASSUME NEW point, SaveThrows(j, point)
      PROVE  FALSE
  BY <1>e, SaveThrowsFrame DEF Calm, StrandingCauses
(* A save of a copy whose status is clean keeps status and count. *)
<1>f. ASSUME NEW doc, NEW dirty, NEW point, SaveRun(j, doc, dirty, point),
             dirty \cap {"status", "retryCount"} = {}
      PROVE  /\ order'[o].status = order[o].status
             /\ order'[o].retryCount = order[o].retryCount
  <2>1. order'[o] = Saved(o, doc, dirty)
    BY <1>f, SaveRunFrame
  <2> QED
    BY <1>f, <2>1 DEF Saved
<1> USE GotoFrame, SaveRunFrame, SaveThrowsFrame DEF PostedPoints
<1>5. CASE StartJob(j)
  <2>1. /\ run[j].pc = "idle" /\ run'[j].pc = "start" /\ order' = order
        /\ job'[j].attemptsMade = job[j].attemptsMade /\ Live(j)'
    BY <1>5 DEF StartJob, KnownInv, Live, TypeOK
  <2> QED
    BY <1>3, <2>1 DEF InStep
<1>6. CASE LoadOrder(j)
  <2>0. run[j].pc = "start" /\ order' = order /\ job' = job /\ Live(j)'
    BY <1>3, <1>6 DEF LoadOrder, Live
  <2>1. CASE run' = [run EXCEPT ![j] = [pc |-> "loaded", doc |-> order[o], dirty |-> {}]]
    <3>1. run'[j].pc = "loaded" /\ run'[j].doc = order[o]
      BY <2>1 DEF TypeOK
    <3> QED
      BY <1>3, <2>0, <3>1 DEF InStep
  <2>2. CASE AlreadySynced(o) /\ Goto(j, "done")
    BY <1>3, <2>0, <2>2 DEF InStep, AlreadySynced
  <2> QED
    BY <1>6, <2>1, <2>2 DEF LoadOrder
<1>7. CASE Authorise(j)
  <2>1. run[j].pc = "loaded" /\ Goto(j, "ready")
    BY <1>7, <1>d DEF Authorise, StrandingCauses
  <2>2. order' = order /\ job' = job /\ Live(j)'
    BY <1>3, <1>7 DEF Authorise, Live
  <2> QED
    BY <1>3, <2>1, <2>2 DEF InStep
<1>8. CASE PostOrder(j)
  <2>0. run[j].pc = "ready" /\ order' = order /\ job' = job /\ Live(j)'
    BY <1>3, <1>8 DEF PostOrder, Live
  <2>1. CASE Goto(j, "failing")
    BY <1>3, <2>0, <2>1 DEF InStep
  <2>2. CASE ~Goto(j, "failing")
    <3>1. run'[j].doc = [run[j].doc EXCEPT !.status = "SYNCED",
                                           !.snelstartOrderId = erp[o] + 1]
      BY <1>8, <2>2 DEF PostOrder, TypeOK
    <3>2. run'[j].pc = "posted"
      BY <1>8, <2>2 DEF PostOrder, TypeOK
    <3> DEFINE n == erp[o] + 1
    <3>3. run'[j].doc = [run[j].doc EXCEPT !.status = "SYNCED", !.snelstartOrderId = n]
      BY <3>1
    <3> HIDE DEF n
    <3>4. run'[j].doc.retryCount = run[j].doc.retryCount
      BY <1>c, <3>3 DEF Doc
    <3> QED
      BY <1>3, <2>0, <3>2, <3>4 DEF InStep
  <2> QED
    BY <2>1, <2>2
<1>9. CASE SaveSynced(j)
  <2>0. run[j].pc = "posted" /\ job' = job /\ Live(j)'
    BY <1>3, <1>9 DEF SaveSynced, Live
  <2>1. SaveRun(j, run[j].doc, run[j].dirty, "synced")
    BY <1>9, <1>e DEF SaveSynced
  <2>2. run[j].doc.status = "SYNCED" /\ "status" \in run[j].dirty
    BY <1>c, <2>0 DEF RunOK
  <2>3. order'[o].status = "SYNCED"
    <3>1. order'[o] = Saved(o, run[j].doc, run[j].dirty)
      BY <2>1
    <3> QED
      BY <2>2, <3>1 DEF Saved
  <2> QED
    BY <1>3, <2>0, <2>1, <2>2, <2>3 DEF InStep
<1>10. CASE NotifySuccess(j)
  <2>1. run[j].pc = "synced" /\ order' = order /\ job' = job /\ Live(j)'
    BY <1>3, <1>10 DEF NotifySuccess, Live
  <2>2. Goto(j, "notified") \/ Goto(j, "failing")
    BY <1>10 DEF NotifySuccess
  <2> QED
    BY <1>3, <2>1, <2>2 DEF InStep
<1>11. CASE ConfirmCustomer(j)
  <2>1. run[j].pc = "notified" /\ order' = order /\ job' = job /\ Live(j)'
    BY <1>3, <1>11 DEF ConfirmCustomer, Live
  <2>2. CASE \E point \in {"done", "failing", "mailError"} : Goto(j, point)
    BY <1>3, <2>1, <2>2 DEF InStep
  <2>3. CASE run' = [run EXCEPT ![j] = [pc    |-> "mailed",
                                        doc   |-> [@.doc EXCEPT !.confirmed = TRUE],
                                        dirty |-> {"confirmed"}]]
    <3>1. /\ run'[j].doc = [run[j].doc EXCEPT !.confirmed = TRUE]
          /\ run'[j].pc = "mailed"
      BY <2>3 DEF TypeOK
    <3>2. /\ run'[j].doc.status = run[j].doc.status
          /\ run'[j].doc.retryCount = run[j].doc.retryCount
      BY <1>c, <3>1 DEF Doc
    <3> QED
      BY <1>3, <2>1, <3>1, <3>2 DEF InStep
  <2> QED
    BY <1>11, <2>2, <2>3 DEF ConfirmCustomer
<1>12. CASE SaveConfirmed(j) \/ SaveMailError(j)
  <2>1. run[j].pc \in {"mailed", "mailError"} /\ job' = job /\ Live(j)'
    BY <1>3, <1>12 DEF SaveConfirmed, SaveMailError, Live
  <2>2. PICK point \in {"done", "mailError", "failing"} :
          SaveRun(j, run[j].doc, run[j].dirty, point)
    BY <1>12, <1>e DEF SaveConfirmed, SaveMailError
  <2>3. run[j].dirty \cap {"status", "retryCount"} = {}
    BY <1>c, <2>1 DEF RunOK
  <2>4. order'[o].status = order[o].status
    BY <1>f, <2>2, <2>3
  <2>5. run'[j].pc = point /\ run'[j].doc = run[j].doc
    BY <2>2
  <2> QED
    BY <1>3, <2>1, <2>4, <2>5 DEF InStep
<1>13. CASE SaveFailure(j)
  <2>0. run[j].pc = "failing" /\ job' = job /\ Live(j)'
    BY <1>3, <1>13 DEF SaveFailure, Live
  <2>1. SaveRun(j, FailedDoc(run[j].doc), FailedDirty(run[j]), "rethrow")
    BY <1>13, <1>e DEF SaveFailure
  <2>2. /\ order'[o].retryCount >= job[j].attemptsMade + 1
        /\ job[j].attemptsMade + 1 >= JobAttempts => order'[o].status # "PENDING_SYNC"
    BY <1>3, <2>0, <2>1, FailureCounted
  <2>3. run'[j].pc = "rethrow"
    BY <2>1
  <2> QED
    BY <2>0, <2>2, <2>3 DEF InStep
<1>14. CASE JobReturns(j)
  <2>1. run[j].pc = "done" /\ order' = order /\ ~Live(j)'
    BY <1>14 DEF JobReturns, Live, TypeOK
  <2> QED
    BY <1>3, <2>1 DEF InStep
<1>15. CASE JobThrows(j)
  <2> DEFINE n == job[j].attemptsMade + 1
             s == IF n < JobAttempts THEN "waiting" ELSE "failed"
  <2>1. run[j].pc = "rethrow" /\ order' = order /\ run'[j].pc = "idle"
    BY <1>15 DEF JobThrows, EndRun, IdleRun, TypeOK
  <2>2. job' = [job EXCEPT ![j].attemptsMade = n, ![j].state = s]
    BY <1>15 DEF JobThrows
  <2>3. n \in Nat /\ (s = "waiting" <=> n < JobAttempts) /\ s \in {"waiting", "failed"}
    BY <1>c
  <2> HIDE DEF s
  <2>4. job'[j].attemptsMade = n /\ job'[j].state = s
    <3> HIDE DEF n
    <3> QED
      BY <2>2 DEF TypeOK
  <2>5. order[o].retryCount >= n /\ (n >= JobAttempts => order[o].status # "PENDING_SYNC")
    BY <1>3, <2>1 DEF InStep
  <2>6. Live(j)' => InStep(o, j)'
    BY <2>1, <2>4, <2>5 DEF InStep
  <2>7. ~Live(j)' => n >= JobAttempts
    BY <2>3, <2>4 DEF Live
  <2> QED
    BY <2>1, <2>5, <2>6, <2>7
<1>16. CASE Crash(j)
  <2>1. "crash" \in trouble'[o]
    BY <1>0, <1>16 DEF Crash, Suffer, TypeOK
  <2> QED
    BY <2>1 DEF Calm, StrandingCauses
<1> QED
  BY <1>5, <1>6, <1>7, <1>8, <1>9, <1>10, <1>11, <1>12, <1>13, <1>14, <1>15, <1>16
  DEF Worker

(* An order stays PENDING_SYNC with nobody at work only after one of the   *)
(* faults in StrandingCauses: every other way out of a job settles it.     *)
THEOREM NoneStranded == Spec => []NeverStranded
<1>1. Init => FreshInv /\ StrandInv
  BY DEF Init, FreshInv, StrandInv
<1>2. /\ TypeOK /\ KnownInv /\ RunInv /\ OneLiveJob
      /\ FreshInv /\ StrandInv /\ [Next]_vars
      => (FreshInv /\ StrandInv)'
  <2>1. StrandInv /\ UNCHANGED vars => StrandInv'
    BY DEF vars, StrandInv, StrandOK, Calm, Awaited, Live, InStep
  <2> QED
    BY <2>1, FreshStep, StrandHandler, StrandWorker, NextSplit
<1>3. StrandInv => NeverStranded
  BY DEF StrandInv, StrandOK, Calm, Awaited, Unattended, NeverStranded
<1> QED
  BY <1>1, <1>2, <1>3, TypeCorrect, Links, OneLive, PTL DEF Spec

-----------------------------------------------------------------------------
(* Every job ends: what an attempt uses up *)

(* The steps a run has left at most, from where it is. *)
StepsLeft(point) ==
  CASE point = "start"     -> 10
    [] point = "loaded"    -> 9
    [] point = "ready"     -> 8
    [] point = "posted"    -> 7
    [] point = "synced"    -> 6
    [] point = "notified"  -> 5
    [] point = "mailed"    -> 4
    [] point = "mailError" -> 3
    [] point = "failing"   -> 2
    [] OTHER               -> 1

(* The attempts and the stalls that a job still has. *)
TriesLeft(j) == (JobAttempts - job[j].attemptsMade) + (MaxStalled + 1 - job[j].stalled)

(* The steps a job has left at most, crashes and attempts to come included.*)
WorkLeft(j) ==
  CASE job[j].state = "none"    -> 11 * TriesLeft(j) + 12
    [] job[j].state = "waiting" -> 11 * TriesLeft(j) + 11
    [] job[j].state = "active"  -> 11 * TriesLeft(j) + StepsLeft(run[j].pc)
    [] OTHER                    -> 0

MostWork == 11 * (JobAttempts + MaxStalled + 1) + 12

(* Attempts and stalls are counted up to their limits; a job that is not   *)
(* over is below both, and one that is active has a run.                   *)
WorkOK(j) ==
  /\ job[j].attemptsMade <= JobAttempts
  /\ job[j].stalled <= MaxStalled + 1
  /\ Live(j) \/ job[j].state = "none"
       => job[j].attemptsMade < JobAttempts /\ job[j].stalled <= MaxStalled
  /\ job[j].state = "active" => run[j].pc # "idle"

WorkInv == \A j \in Jobs : WorkOK(j)

(* A job takes at most MostWork steps: each step of its worker and each    *)
(* crash uses one up, and no step of any other handler gives one back.     *)
JobsWearOut ==
  [][\A j \in Jobs :
       /\ WorkLeft(j)' <= WorkLeft(j)
       /\ Worker(j) \/ Crash(j) => WorkLeft(j)' < WorkLeft(j)]_vars

(* A live job is not stuck: it is in the queue, or its run is at a point   *)
(* from which the processor goes on; and it has steps left.                *)
LiveHasWork ==
  \A j \in Jobs :
    /\ WorkLeft(j) \in 0 .. MostWork
    /\ Live(j) => /\ WorkLeft(j) > 0
                  /\ job[j].state = "waiting" \/ run[j].pc \in Points \ {"idle"}

(* The steps left of a run are at least one and at most ten. *)
LEMMA StepsLeftFacts ==
  \A point : StepsLeft(point) \in 1 .. 10
  BY DEF StepsLeft

(* What is left of a job is a number, none of it when the job is over. *)
LEMMA WorkLeftFacts ==
  ASSUME TypeOK, NEW j \in Jobs, WorkOK(j)
  PROVE  /\ TriesLeft(j) \in 0 .. JobAttempts + MaxStalled + 1
         /\ WorkLeft(j) \in 0 .. MostWork
         /\ Live(j) => WorkLeft(j) > 0
<1>1. /\ job[j].state \in JobStates
      /\ job[j].attemptsMade \in Nat /\ job[j].stalled \in Nat
  BY DEF TypeOK
<1>2. TriesLeft(j) \in 0 .. JobAttempts + MaxStalled + 1
  BY <1>1 DEF TriesLeft, WorkOK
<1>3. StepsLeft(run[j].pc) \in 1 .. 10
  BY StepsLeftFacts
<1> HIDE DEF WorkOK
<1>4. WorkLeft(j) \in 0 .. MostWork
  BY <1>1, <1>2, <1>3 DEF WorkLeft, MostWork, JobStates
<1>5. Live(j) => WorkLeft(j) > 0
  BY <1>2, <1>3 DEF WorkLeft, Live
<1> QED
  BY <1>2, <1>4, <1>5

(* A job is added once: the one it adds was not there. *)
LEMMA AddedOnce ==
  ASSUME KnownInv, Handler
  PROVE  (\E k \in Jobs : AddJob(k) /\ job[k].state = "none") \/ UNCHANGED job
<1>1. CASE \E o \in Orders : EnqueueOrder(o)
  <2> PICK o \in Orders : EnqueueOrder(o)
    BY <1>1
  <2>1. AddJob(<<o, 0>>) /\ intake[o] = "saved"
    BY DEF EnqueueOrder
  <2>2. job[<<o, 0>>].state = "none"
    BY <2>1 DEF KnownInv
  <2> QED
    BY <2>1, <2>2, JobsFacts
<1>2. CASE \E j \in RetryJobs : RetryEnqueue(j)
  BY <1>2, JobsFacts DEF RetryEnqueue, KnownInv
<1>3. CASE ~(\E o \in Orders : EnqueueOrder(o)) /\ ~(\E j \in RetryJobs : RetryEnqueue(j))
  BY <1>3
  DEF Handler, CreateOrder, CheckKey, InsertOrder, DropRequest, SendConfirmation,
      ConfirmLoad, ConfirmSend, ConfirmSave, DeleteOrder,
      RetryLoad, RetryOrder, RetrySave, DropRetry
<1> QED
  BY <1>1, <1>2, <1>3

(* A step of a run that does not end it brings it nearer to its end. *)
LEMMA RunDescends ==
  ASSUME TypeOK, KnownInv, NEW j \in Jobs, Worker(j), UNCHANGED job
  PROVE  /\ run'[j].pc # "idle" /\ run[j].pc # "idle"
         /\ StepsLeft(run'[j].pc) < StepsLeft(run[j].pc)
<1> USE GotoFrame, SaveRunFrame, SaveThrowsFrame
<1>1. CASE StartJob(j)
  BY <1>1 DEF StartJob, TypeOK
<1>2. CASE LoadOrder(j)
  BY <1>2 DEF LoadOrder, StepsLeft, TypeOK
<1>3. CASE Authorise(j)
  BY <1>3 DEF Authorise, StepsLeft
<1>4. CASE PostOrder(j)
  BY <1>4 DEF PostOrder, StepsLeft, TypeOK
<1>5. CASE SaveSynced(j)
  BY <1>5 DEF SaveSynced, StepsLeft
<1>6. CASE NotifySuccess(j)
  BY <1>6 DEF NotifySuccess, StepsLeft
<1>7. CASE ConfirmCustomer(j)
  BY <1>7 DEF ConfirmCustomer, StepsLeft, TypeOK
<1>8. CASE SaveConfirmed(j)
  BY <1>8 DEF SaveConfirmed, StepsLeft
<1>9. CASE SaveMailError(j)
  BY <1>9 DEF SaveMailError, StepsLeft
<1>10. CASE SaveFailure(j)
  BY <1>10 DEF SaveFailure, StepsLeft
<1>11. CASE JobReturns(j)
  BY <1>11 DEF JobReturns, KnownInv, TypeOK
<1>12. CASE JobThrows(j)
  BY <1>12 DEF JobThrows, KnownInv, TypeOK
<1> QED
  BY <1>1, <1>2, <1>3, <1>4, <1>5, <1>6, <1>7, <1>8, <1>9, <1>10, <1>11,
     <1>12 DEF Worker

(* A worker step or a crash uses up some of what is left of its job. *)
LEMMA WorkerWears ==
  ASSUME TypeOK, KnownInv, NEW j \in Jobs, WorkOK(j), Worker(j) \/ Crash(j)
  PROVE  /\ WorkOK(j)'
         /\ WorkLeft(j)' < WorkLeft(j) /\ WorkLeft(j)' <= WorkLeft(j)
<1> DEFINE T == TriesLeft(j)
           s == StepsLeft(run[j].pc)
<1>1. /\ job[j] \in [state : JobStates, attemptsMade : Nat, stalled : Nat]
      /\ run[j].pc # "idle" => job[j].state = "active"
  BY DEF TypeOK, KnownInv
<1>2. s \in 1 .. 10 /\ StepsLeft(run'[j].pc) \in 1 .. 10
  BY StepsLeftFacts
<1>3. T \in Nat
  BY WorkLeftFacts
<1>4. CASE Worker(j) /\ UNCHANGED job
  <2>1. /\ run'[j].pc # "idle" /\ job[j].state = "active"
        /\ StepsLeft(run'[j].pc) < s
    BY <1>1, <1>4, RunDescends
  <2>2. WorkOK(j)'
    BY <1>4, <2>1 DEF WorkOK, Live
  <2>3. WorkLeft(j) = 11 * T + s /\ WorkLeft(j)' = 11 * T + StepsLeft(run'[j].pc)
    BY <1>4, <2>1 DEF WorkLeft, TriesLeft
  <2> QED
    BY <1>2, <1>3, <2>1, <2>2, <2>3
<1>5. CASE StartJob(j)
  <2>1. /\ job[j].state = "waiting" /\ job'[j] = [job[j] EXCEPT !.state = "active"]
        /\ run'[j].pc = "start"
    BY <1>5, GotoFrame DEF StartJob, TypeOK
  <2>2. WorkOK(j)'
    BY <1>1, <2>1 DEF WorkOK, Live
  <2>3. WorkLeft(j) = 11 * T + 11 /\ WorkLeft(j)' = 11 * T + 10
    BY <1>1, <2>1 DEF WorkLeft, TriesLeft, StepsLeft
  <2> QED
    BY <1>3, <2>2, <2>3
<1>6. CASE JobReturns(j)
  <2>1. /\ job[j].state = "active"
        /\ job'[j] = [job[j] EXCEPT !.state = "completed"]
    BY <1>1, <1>6 DEF JobReturns, TypeOK
  <2>2. WorkOK(j)'
    BY <1>1, <2>1 DEF WorkOK, Live
  <2>3. WorkLeft(j) = 11 * T + s /\ WorkLeft(j)' = 0
    BY <1>1, <2>1 DEF WorkLeft
  <2> QED
    BY <1>2, <1>3, <2>2, <2>3
<1>7. CASE JobThrows(j) \/ Crash(j)
  <2>1. /\ job[j].state = "active"
        /\ job'[j].state \in {"waiting", "failed"}
        /\ job'[j].attemptsMade \in Nat /\ job'[j].stalled \in Nat
        /\ \/ /\ job'[j].attemptsMade = job[j].attemptsMade + 1
              /\ job'[j].stalled = job[j].stalled
              /\ job'[j].state = "waiting" => job'[j].attemptsMade < JobAttempts
           \/ /\ job'[j].stalled = job[j].stalled + 1
              /\ job'[j].attemptsMade = job[j].attemptsMade
              /\ job'[j].state = "waiting" => job'[j].stalled <= MaxStalled
    BY <1>1, <1>7 DEF JobThrows, Crash, TypeOK
  <2>2. WorkOK(j)'
    BY <1>1, <2>1 DEF WorkOK, Live
  <2>3. TriesLeft(j)' = T - 1
    BY <1>1, <2>1 DEF TriesLeft
  <2>4. WorkLeft(j) = 11 * T + s
    BY <2>1 DEF WorkLeft
  <2>5. WorkLeft(j)' \in {0, 11 * (T - 1) + 11}
    BY <2>1, <2>3 DEF WorkLeft
  <2> QED
    BY <1>2, <1>3, <2>2, <2>4, <2>5
<1> QED
  BY <1>4, <1>5, <1>6, <1>7
  DEF Worker, LoadOrder, Authorise, PostOrder, SaveSynced, NotifySuccess,
      ConfirmCustomer, SaveConfirmed, SaveMailError, SaveFailure

(* Every step keeps WorkInv, and uses up what it should. *)
LEMMA WorkStep ==
  ASSUME TypeOK, KnownInv, WorkInv, Next
  PROVE  /\ WorkInv'
         /\ \A j \in Jobs :
              /\ WorkLeft(j)' <= WorkLeft(j)
              /\ Worker(j) \/ Crash(j) => WorkLeft(j)' < WorkLeft(j)
<1>1. \A j \in Jobs : WorkOK(j) /\ WorkLeft(j) \in Nat
  BY WorkLeftFacts DEF WorkInv
<1>2. ASSUME NEW j \in Jobs, job'[j] = job[j], run'[j] = run[j]
      PROVE  WorkOK(j)' /\ WorkLeft(j)' = WorkLeft(j)
  BY <1>1, <1>2 DEF WorkOK, Live, WorkLeft, TriesLeft
<1>3. ASSUME NEW j \in Jobs, Worker(j) \/ Crash(j)
      PROVE  /\ WorkOK(j)'
             /\ WorkLeft(j)' < WorkLeft(j) /\ WorkLeft(j)' <= WorkLeft(j)
  BY <1>1, <1>3, WorkerWears
<1>4. CASE \E i \in Jobs : Worker(i) \/ Crash(i)
  <2> PICK i \in Jobs : Worker(i) \/ Crash(i)
    BY <1>4
  <2>1. \A j \in Jobs \ {i} : job'[j] = job[j] /\ run'[j] = run[j]
    BY WorkerFrame
  <2>2. WorkOK(i)' /\ WorkLeft(i)' <= WorkLeft(i)
    BY <1>3
  <2>3. ASSUME NEW j \in Jobs
        PROVE  WorkOK(j)' /\ WorkLeft(j)' <= WorkLeft(j)
    BY <1>1, <1>2, <2>1, <2>2
  <2> QED
    BY <1>3, <2>3 DEF WorkInv
<1>5. CASE Handler
  <2>1. UNCHANGED run
    BY <1>5, HandlerFrame
  <2>2. CASE UNCHANGED job
    BY <1>1, <1>2, <1>3, <2>1, <2>2 DEF WorkInv
  <2>3. ASSUME NEW k \in Jobs, AddJob(k), job[k].state = "none"
        PROVE  \A j \in Jobs : WorkOK(j)' /\ WorkLeft(j)' <= WorkLeft(j)
    <3>1. /\ job'[k] = [job[k] EXCEPT !.state = "waiting"]
          /\ \A j \in Jobs \ {k} : job'[j] = job[j]
          /\ job[k] \in [state : JobStates, attemptsMade : Nat, stalled : Nat]
      BY <2>3 DEF AddJob, TypeOK
    <3>2. WorkOK(k)'
      BY <1>1, <2>1, <2>3, <3>1 DEF WorkOK, Live
    <3>3. TriesLeft(k)' = TriesLeft(k) /\ TriesLeft(k) \in Nat
      BY <1>1, <3>1, WorkLeftFacts DEF TriesLeft
    <3>4. WorkLeft(k)' <= WorkLeft(k)
      BY <2>3, <3>1, <3>3 DEF WorkLeft
    <3> QED
      BY <1>1, <1>2, <2>1, <3>1, <3>2, <3>4
  <2>4. \A j \in Jobs : WorkOK(j)' /\ WorkLeft(j)' <= WorkLeft(j)
    BY <1>1, <1>5, <2>2, <2>3, AddedOnce, <1>2, <2>1
  <2> QED
    BY <1>3, <2>4 DEF WorkInv
<1> QED
  BY <1>4, <1>5, NextSplit

(* WorkInv holds at first. *)
LEMMA WorkInit == Init => WorkInv
  BY DEF Init, WorkInv, WorkOK, Live

(* Every job wears out. *)
LEMMA WorkKept == Spec => []WorkInv
<1>1. TypeOK /\ KnownInv /\ WorkInv /\ [Next]_vars => WorkInv'
  <2>1. WorkInv /\ UNCHANGED vars => WorkInv'
    BY DEF vars, WorkInv, WorkOK, Live
  <2> QED
    BY <2>1, WorkStep
<1> QED
  BY <1>1, WorkInit, TypeCorrect, Links, PTL DEF Spec

(* Whatever faults, crashes and retries there are, a job takes no more than *)
(* MostWork steps: each step of its worker and each crash uses one up.     *)
THEOREM EveryJobWearsOut == Spec => JobsWearOut
<1>1. TypeOK /\ KnownInv /\ WorkInv /\ [Next]_vars
      => [\A j \in Jobs :
            /\ WorkLeft(j)' <= WorkLeft(j)
            /\ Worker(j) \/ Crash(j) => WorkLeft(j)' < WorkLeft(j)]_vars
  BY WorkStep
<1> QED
  BY <1>1, WorkKept, TypeCorrect, Links, PTL DEF Spec, JobsWearOut

(* A live job has a step to take, and steps left. *)
THEOREM LiveJobsGoOn == Spec => []LiveHasWork
<1>1. TypeOK /\ WorkInv => LiveHasWork
  BY WorkLeftFacts DEF WorkInv, WorkOK, LiveHasWork, TypeOK, Live
<1> QED
  BY <1>1, WorkKept, TypeCorrect, PTL

=============================================================================
