------------------------------ MODULE OrderSync ------------------------------
(***************************************************************************)
(* From POST /orders to an order in the SnelStart ERP: the API inserts the *)
(* order in MongoDB and adds a BullMQ job, a worker runs the job, posts    *)
(* the order to the ERP, writes the outcome back and mails the customer.   *)
(* Staff may meanwhile retry, delete or confirm the order by hand.         *)
(*                                                                         *)
(* One action is the code between two awaits: a handler reads a document,  *)
(* yields, and later saves its copy.  Mongoose saves only the paths that   *)
(* the handler modified, so a copy carries the set of its dirty paths.     *)
(*                                                                         *)
(* An order is named by the request that would insert it; a job by its     *)
(* order and a number: 0 for the job of createOrder (jobId                 *)
(* order-sync-<id>), n > 0 for the job of the n-th manual retry.           *)
(***************************************************************************)
EXTENDS Naturals, FiniteSets

CONSTANTS
  Orders,             \* the create requests, and the documents they insert
  Keys,               \* idempotency keys
  KeyOf,              \* the idempotency key a request carries
  JobAttempts,        \* opts.attempts of a job
  MAX_SYNC_ATTEMPTS,  \* the worker's own limit on retryCount
  MaxStalled,         \* times BullMQ requeues a stalled job (its default is 1)
  MaxRetries          \* bound: manual retries per order

ASSUME ConstantsAssumption ==
  /\ KeyOf \in [Orders -> Keys]
  /\ JobAttempts \in Nat \ {0}
  /\ MAX_SYNC_ATTEMPTS \in Nat \ {0}
  /\ MaxStalled \in Nat
  /\ MaxRetries \in Nat

VARIABLES
  stored,   \* the orders whose document is in the collection
  order,    \* order[o]: the modelled fields of o's document
  intake,   \* intake[o]: where the create request o stands
  retry,    \* retry[j]: where the manual retry that will add job j stands
  confirm,  \* confirm[o]: where a manual confirmation mail for o stands
  job,      \* job[j]: BullMQ's record of job j
  run,      \* run[j]: the processor's invocation for job j
  erp,      \* erp[o]: orders the ERP created for o; their ids are 1..erp[o]
  mails,    \* mails[o]: confirmation mails the worker sent for o
  trouble   \* history: the faults that o met (see Faults)

vars == <<stored, order, intake, retry, confirm, job, run, erp, mails, trouble>>

-----------------------------------------------------------------------------
(* Data *)

Jobs      == Orders \X (0 .. MaxRetries)
RetryJobs == Orders \X (1 .. MaxRetries)

(* 'DRAFT' and 'FAILED' are in the schema's enum, but nothing writes them. *)
Status == {"PENDING_SYNC", "SYNCED", "SYNC_FAILED"}

(* snelstartOrderId 0: not set; confirmed: customerConfirmationEmailSentAt *)
Doc == [status : Status, retryCount : Nat, snelstartOrderId : Nat,
        confirmed : BOOLEAN]

Fields == {"status", "retryCount", "snelstartOrderId", "confirmed"}

NewDoc == [status |-> "PENDING_SYNC", retryCount |-> 0, snelstartOrderId |-> 0,
           confirmed |-> FALSE]

IntakeStates == {"new", "existing", "checked", "refused",  \* no document yet
                 "saved", "queued", "lost"}                \* document inserted

JobStates == {"none", "waiting", "active", "completed", "failed"}

Points == {"idle", "start", "loaded", "ready", "posted", "synced", "notified",
           "mailed", "mailError", "failing", "rethrow", "done"}

IdleRun == [pc |-> "idle", doc |-> NewDoc, dirty |-> {}]

(***************************************************************************)
(* What can disturb an order: a job attempt that fails before the          *)
(* processor's try block (auth), an ERP order whose reply is lost (reply), *)
(* a database save that fails (save), an audit write or a read of the mail *)
(* settings that fails after the sync (audit), a mail that is delivered    *)
(* although sendMail reports an error (smtp), a worker crash (crash;       *)
(* crashAfterPost between the POST and the save), a handler that ends      *)
(* between its save and queue.add (lost), a job added while another job of *)
(* the order is live (overlap), a manual retry that saves over a status it *)
(* did not read (stale).                                                   *)
(***************************************************************************)
Faults == {"auth", "reply", "save", "audit", "smtp", "crash",
           "crashAfterPost", "lost", "overlap", "stale"}

OrderOf(j) == j[1]

JobsOf(o) == {o} \X (0 .. MaxRetries)

Live(j) == job[j].state \in {"waiting", "active"}

Suffer(o, faults) == trouble' = [trouble EXCEPT ![o] = @ \cup faults]

(* Mutant: the schema lacks snelstartOrderId, and strict mode drops the path. *)
SavedWithoutLink(o, doc, dirty) ==
  [order[o] EXCEPT !.status     = IF "status" \in dirty THEN doc.status ELSE @,
                   !.retryCount = IF "retryCount" \in dirty THEN doc.retryCount ELSE @]

(* Mutant: the whole copy is written, not only its dirty paths. *)
SavedWhole(o, doc, dirty) == doc

(* The document of o after save() of a copy with these dirty paths. *)
Saved(o, doc, dirty) ==
  [status           |-> IF "status" \in dirty
                          THEN doc.status ELSE order[o].status,
   retryCount       |-> IF "retryCount" \in dirty
                          THEN doc.retryCount ELSE order[o].retryCount,
   snelstartOrderId |-> IF "snelstartOrderId" \in dirty
                          THEN doc.snelstartOrderId ELSE order[o].snelstartOrderId,
   confirmed        |-> IF "confirmed" \in dirty
                          THEN doc.confirmed ELSE order[o].confirmed]

Init ==
  /\ stored  = {}
  /\ order   = [o \in Orders |-> NewDoc]
  /\ intake  = [o \in Orders |-> "new"]
  /\ retry   = [j \in RetryJobs |-> [pc |-> "new", status |-> "PENDING_SYNC",
                                     retryCount |-> 0]]
  /\ confirm = [o \in Orders |-> "idle"]
  /\ job     = [j \in Jobs |-> [state |-> "none", attemptsMade |-> 0,
                                stalled |-> 0]]
  /\ run     = [j \in Jobs |-> IdleRun]
  /\ erp     = [o \in Orders |-> 0]
  /\ mails   = [o \in Orders |-> 0]
  /\ trouble = [o \in Orders |-> {}]

-----------------------------------------------------------------------------
(* POST /orders *)

SameKey(o) == {p \in stored : KeyOf[p] = KeyOf[o]}

(* findOne by idempotencyKey: an existing order is the answer. *)
CheckKey(o) ==
  /\ intake[o] = "new"
  /\ intake' = [intake EXCEPT ![o] = IF SameKey(o) # {} THEN "existing"
                                                        ELSE "checked"]
  /\ UNCHANGED <<stored, order, retry, confirm, job, run, erp, mails, trouble>>

(* Mutant: idempotencyKey has no unique index. *)
InsertOrderUnindexed(o) ==
  /\ intake[o] = "checked"
  /\ stored' = stored \cup {o}
  /\ order'  = [order EXCEPT ![o] = NewDoc]
  /\ intake' = [intake EXCEPT ![o] = "saved"]
  /\ UNCHANGED <<retry, confirm, job, run, erp, mails, trouble>>

(* save(): the unique index on idempotencyKey refuses a second document. *)
InsertOrder(o) ==
  /\ intake[o] = "checked"
  /\ \/ /\ SameKey(o) = {}
        /\ stored' = stored \cup {o}
        /\ order'  = [order EXCEPT ![o] = NewDoc]
        /\ intake' = [intake EXCEPT ![o] = "saved"]
     \/ /\ SameKey(o) # {}
        /\ intake' = [intake EXCEPT ![o] = "refused"]
        /\ UNCHANGED <<stored, order>>
  /\ UNCHANGED <<retry, confirm, job, run, erp, mails, trouble>>

(* orderSyncQueue.add: the job waits; it may overlap a live job of the order. *)
AddJob(j) ==
  /\ job' = [job EXCEPT ![j].state = "waiting"]
  /\ Suffer(OrderOf(j), IF \E k \in JobsOf(OrderOf(j)) : Live(k)
                          THEN {"overlap"} ELSE {})

EnqueueOrder(o) ==
  /\ intake[o] = "saved"
  /\ AddJob(<<o, 0>>)
  /\ intake' = [intake EXCEPT ![o] = "queued"]
  /\ UNCHANGED <<stored, order, retry, confirm, run, erp, mails>>

(* The process dies, or MongoDB or Redis rejects the next call. *)
DropRequest(o) ==
  /\ \/ /\ intake[o] = "checked"
        /\ intake' = [intake EXCEPT ![o] = "refused"]
        /\ UNCHANGED trouble
     \/ /\ intake[o] = "saved"
        /\ intake' = [intake EXCEPT ![o] = "lost"]
        /\ Suffer(o, {"lost"})
  /\ UNCHANGED <<stored, order, retry, confirm, job, run, erp, mails>>

-----------------------------------------------------------------------------
(* POST /orders/:id/retry *)

RetryLoad(j) ==
  LET o == OrderOf(j) IN
  /\ retry[j].pc = "new"
  /\ o \in stored
  /\ order[o].status # "SYNCED"
  /\ retry' = [retry EXCEPT ![j] = [pc         |-> "loaded",
                                    status     |-> order[o].status,
                                    retryCount |-> order[o].retryCount]]
  /\ UNCHANGED <<stored, order, intake, confirm, job, run, erp, mails, trouble>>

(* status and retryCount are dirty only where the handler changed them. *)
RetryDirty(r) == (IF r.status # "PENDING_SYNC" THEN {"status"} ELSE {})
                   \cup (IF r.retryCount # 0 THEN {"retryCount"} ELSE {})

RetrySave(j) ==
  LET o     == OrderOf(j)
      dirty == RetryDirty(retry[j])
  IN
  /\ retry[j].pc = "loaded"
  /\ \/ /\ o \in stored
        /\ order' = [order EXCEPT ![o] = Saved(o, NewDoc, dirty)]
        /\ retry' = [retry EXCEPT ![j].pc = "saved"]
        /\ Suffer(o, IF "status" \in dirty /\ order[o].status # retry[j].status
                       THEN {"stale"} ELSE {})
     \/ /\ o \notin stored
        /\ retry' = [retry EXCEPT ![j].pc = "over"]
        /\ UNCHANGED <<order, trouble>>
  /\ UNCHANGED <<stored, intake, confirm, job, run, erp, mails>>

(* Mutant: the retry reuses the jobId of createOrder, and BullMQ ignores it. *)
RetryEnqueueSameId(j) ==
  /\ retry[j].pc = "saved"
  /\ retry' = [retry EXCEPT ![j].pc = "over"]
  /\ UNCHANGED <<stored, order, intake, confirm, job, run, erp, mails, trouble>>

RetryEnqueue(j) ==
  /\ retry[j].pc = "saved"
  /\ AddJob(j)
  /\ retry' = [retry EXCEPT ![j].pc = "over"]
  /\ UNCHANGED <<stored, order, intake, confirm, run, erp, mails>>

DropRetry(j) ==
  /\ retry[j].pc \in {"loaded", "saved"}
  /\ retry' = [retry EXCEPT ![j].pc = "over"]
  /\ Suffer(OrderOf(j), IF retry[j].pc = "saved" THEN {"lost"} ELSE {})
  /\ UNCHANGED <<stored, order, intake, confirm, job, run, erp, mails>>

-----------------------------------------------------------------------------
(* POST /orders/:id/send-customer-confirmation-email and DELETE /orders/:id *)

(* Mutant: the status is not checked. *)
ConfirmLoadAny(o) ==
  /\ confirm[o] = "idle"
  /\ o \in stored
  /\ confirm' = [confirm EXCEPT ![o] = "loaded"]
  /\ UNCHANGED <<stored, order, intake, retry, job, run, erp, mails, trouble>>

ConfirmLoad(o) ==
  /\ confirm[o] = "idle"
  /\ o \in stored
  /\ order[o].status = "SYNCED"
  /\ confirm' = [confirm EXCEPT ![o] = "loaded"]
  /\ UNCHANGED <<stored, order, intake, retry, job, run, erp, mails, trouble>>

(* The mail leaves, or sending fails and only the error is saved. *)
ConfirmSend(o) ==
  /\ confirm[o] = "loaded"
  /\ \E outcome \in {"sent", "idle"} :
        confirm' = [confirm EXCEPT ![o] = outcome]
  /\ UNCHANGED <<stored, order, intake, retry, job, run, erp, mails, trouble>>

(* save() of the sent date, tried again by the catch block; both may fail. *)
ConfirmSave(o) ==
  /\ confirm[o] = "sent"
  /\ confirm' = [confirm EXCEPT ![o] = "idle"]
  /\ \/ /\ o \in stored
        /\ order' = [order EXCEPT ![o].confirmed = TRUE]
     \/ UNCHANGED order
  /\ UNCHANGED <<stored, intake, retry, job, run, erp, mails, trouble>>

(* Refused for an order the ERP has invoiced, which is the ERP's state. *)
DeleteOrder(o) ==
  /\ o \in stored
  /\ stored' = stored \ {o}
  /\ order'  = [order EXCEPT ![o] = NewDoc]
  /\ UNCHANGED <<intake, retry, confirm, job, run, erp, mails, trouble>>

-----------------------------------------------------------------------------
(* The worker: OrderSyncProcessor.process *)

Goto(j, point) == run' = [run EXCEPT ![j].pc = point]

(* Mutant: the save of a deleted document upserts it. *)
SaveRunUpsert(j, doc, dirty, point) ==
  LET o == OrderOf(j) IN
  /\ order' = [order EXCEPT ![o] = Saved(o, doc, dirty)]
  /\ run' = [run EXCEPT ![j] = [pc |-> point, doc |-> doc, dirty |-> {}]]

(* save() of the run's copy reaches the document; the copy is clean again. *)
SaveRun(j, doc, dirty, point) ==
  LET o == OrderOf(j) IN
  /\ o \in stored
  /\ order' = [order EXCEPT ![o] = Saved(o, doc, dirty)]
  /\ run' = [run EXCEPT ![j] = [pc |-> point, doc |-> doc, dirty |-> {}]]

(* save() throws: MongoDB fails, or the document was deleted meanwhile. *)
SaveThrows(j, point) ==
  /\ Suffer(OrderOf(j), IF OrderOf(j) \in stored THEN {"save"} ELSE {})
  /\ Goto(j, point)
  /\ UNCHANGED order

StartJob(j) ==
  /\ job[j].state = "waiting"
  /\ job' = [job EXCEPT ![j].state = "active"]
  /\ Goto(j, "start")
  /\ UNCHANGED <<stored, order, intake, retry, confirm, erp, mails, trouble>>

(* Mutant: the processor does not look at the status. *)
AlreadySyncedNever(o) == FALSE

AlreadySynced(o) == order[o].status = "SYNCED"

(* findById: a missing order throws, a SYNCED one ends the job. *)
LoadOrder(j) ==
  LET o == OrderOf(j) IN
  /\ run[j].pc = "start"
  /\ \/ /\ o \notin stored
        /\ Goto(j, "rethrow")
     \/ /\ o \in stored
        /\ AlreadySynced(o)
        /\ Goto(j, "done")
     \/ /\ o \in stored
        /\ ~AlreadySynced(o)
        /\ run' = [run EXCEPT ![j] = [pc |-> "loaded", doc |-> order[o],
                                      dirty |-> {}]]
  /\ UNCHANGED <<stored, order, intake, retry, confirm, job, erp, mails, trouble>>

(* Settings, credentials and token: all before the try block. *)
Authorise(j) ==
  /\ run[j].pc = "loaded"
  /\ \/ /\ Goto(j, "ready")
        /\ UNCHANGED trouble
     \/ /\ Goto(j, "rethrow")
        /\ Suffer(OrderOf(j), {"auth"})
  /\ UNCHANGED <<stored, order, intake, retry, confirm, job, erp, mails>>

(* POST /v2/verkooporders is not idempotent: each accepted call is an order. *)
PostOrder(j) ==
  LET o == OrderOf(j) IN
  /\ run[j].pc = "ready"
  /\ \/ /\ erp' = [erp EXCEPT ![o] = @ + 1]
        /\ run' = [run EXCEPT ![j] =
                     [pc    |-> "posted",
                      doc   |-> [@.doc EXCEPT !.status = "SYNCED",
                                              !.snelstartOrderId = erp[o] + 1],
                      dirty |-> {"status", "snelstartOrderId"}]]
        /\ UNCHANGED trouble
     \/ /\ erp' = [erp EXCEPT ![o] = @ + 1]
        /\ Goto(j, "failing")
        /\ Suffer(o, {"reply"})
     \/ /\ Goto(j, "failing")
        /\ UNCHANGED <<erp, trouble>>
  /\ UNCHANGED <<stored, order, intake, retry, confirm, job, mails>>

SaveSynced(j) ==
  /\ run[j].pc = "posted"
  /\ \/ /\ SaveRun(j, run[j].doc, run[j].dirty, "synced")
        /\ UNCHANGED trouble
     \/ SaveThrows(j, "failing")
  /\ UNCHANGED <<stored, intake, retry, confirm, job, erp, mails>>

(* handleOrderSyncSuccess: two audit writes around the internal mail. *)
NotifySuccess(j) ==
  /\ run[j].pc = "synced"
  /\ \/ /\ Goto(j, "notified")
        /\ UNCHANGED trouble
     \/ /\ Goto(j, "failing")
        /\ Suffer(OrderOf(j), {"audit"})
  /\ UNCHANGED <<stored, order, intake, retry, confirm, job, erp, mails>>

(* Mutant: the sent date is not looked at. *)
SentBeforeNever(doc) == FALSE

SentBefore(doc) == doc.confirmed

(* sendCustomerConfirmationAfterSync up to and including sendMail. *)
ConfirmCustomer(j) ==
  LET o == OrderOf(j) IN
  /\ run[j].pc = "notified"
  /\ \/ /\ SentBefore(run[j].doc)
        /\ Goto(j, "done")
        /\ UNCHANGED <<mails, trouble>>
     \/ /\ ~SentBefore(run[j].doc)         \* no address, or settings unreadable
        /\ \/ Goto(j, "done") /\ UNCHANGED trouble
           \/ Goto(j, "failing") /\ Suffer(o, {"audit"})
        /\ UNCHANGED mails
     \/ /\ ~SentBefore(run[j].doc)         \* no mail settings, or not sent
        /\ Goto(j, "mailError")
        /\ UNCHANGED <<mails, trouble>>
     \/ /\ ~SentBefore(run[j].doc)         \* sent, yet sendMail throws
        /\ mails' = [mails EXCEPT ![o] = @ + 1]
        /\ Goto(j, "mailError")
        /\ Suffer(o, {"smtp"})
     \/ /\ ~SentBefore(run[j].doc)         \* sent
        /\ mails' = [mails EXCEPT ![o] = @ + 1]
        /\ run' = [run EXCEPT ![j] = [pc    |-> "mailed",
                                      doc   |-> [@.doc EXCEPT !.confirmed = TRUE],
                                      dirty |-> {"confirmed"}]]
        /\ UNCHANGED trouble
  /\ UNCHANGED <<stored, order, intake, retry, confirm, job, erp>>

(* The sent date is saved, then audited; an error goes to the inner catch. *)
SaveConfirmed(j) ==
  /\ run[j].pc = "mailed"
  /\ \/ /\ SaveRun(j, run[j].doc, run[j].dirty, "done")
        /\ UNCHANGED trouble
     \/ /\ SaveRun(j, run[j].doc, run[j].dirty, "mailError")
        /\ Suffer(OrderOf(j), {"audit"})
     \/ SaveThrows(j, "mailError")
  /\ UNCHANGED <<stored, intake, retry, confirm, job, erp, mails>>

(* The mail error is saved and audited; what throws here fails the sync. *)
SaveMailError(j) ==
  /\ run[j].pc = "mailError"
  /\ \/ /\ SaveRun(j, run[j].doc, run[j].dirty, "done")
        /\ UNCHANGED trouble
     \/ /\ SaveRun(j, run[j].doc, run[j].dirty, "failing")
        /\ Suffer(OrderOf(j), {"audit"})
     \/ SaveThrows(j, "failing")
  /\ UNCHANGED <<stored, intake, retry, confirm, job, erp, mails>>

(* Mutant: off by one. *)
IsFinalFailureLate(retryCount) ==
  retryCount > JobAttempts \/ retryCount > MAX_SYNC_ATTEMPTS

(* The copy as the catch block leaves it, and the paths that are dirty then. *)
IsFinalFailure(retryCount) ==
  retryCount >= JobAttempts \/ retryCount >= MAX_SYNC_ATTEMPTS

(* Mutant: the status that only the enum and the project memo know. *)
FailedDocFailed(doc) ==
  [doc EXCEPT !.retryCount = @ + 1,
              !.status = IF IsFinalFailure(doc.retryCount + 1)
                           THEN "FAILED" ELSE "PENDING_SYNC"]

FailedDoc(doc) ==
  [doc EXCEPT !.retryCount = @ + 1,
              !.status = IF IsFinalFailure(doc.retryCount + 1)
                           THEN "SYNC_FAILED" ELSE "PENDING_SYNC"]

FailedDirty(r) ==
  r.dirty \cup {"retryCount"}
          \cup (IF FailedDoc(r.doc).status # r.doc.status THEN {"status"} ELSE {})

(* The catch block: whatever failed, even after SYNCED was saved. *)
SaveFailure(j) ==
  /\ run[j].pc = "failing"
  /\ \/ /\ SaveRun(j, FailedDoc(run[j].doc), FailedDirty(run[j]), "rethrow")
        /\ UNCHANGED trouble
     \/ SaveThrows(j, "rethrow")
  /\ UNCHANGED <<stored, intake, retry, confirm, job, erp, mails>>

-----------------------------------------------------------------------------
(* BullMQ *)

EndRun(j) == run' = [run EXCEPT ![j] = IdleRun]

JobReturns(j) ==
  /\ run[j].pc = "done"
  /\ job' = [job EXCEPT ![j].state = "completed"]
  /\ EndRun(j)
  /\ UNCHANGED <<stored, order, intake, retry, confirm, erp, mails, trouble>>

(* A job that throws is tried again, after a delay, until attempts is used up. *)
JobThrows(j) ==
  /\ run[j].pc = "rethrow"
  /\ job' = [job EXCEPT ![j].attemptsMade = @ + 1,
                        ![j].state = IF job[j].attemptsMade + 1 < JobAttempts
                                       THEN "waiting" ELSE "failed"]
  /\ EndRun(j)
  /\ UNCHANGED <<stored, order, intake, retry, confirm, erp, mails, trouble>>

(* Mutant: a stalled job is requeued without a limit. *)
CrashUncounted(j) ==
  /\ job[j].state = "active"
  /\ job' = [job EXCEPT ![j].state = "waiting"]
  /\ EndRun(j)
  /\ Suffer(OrderOf(j), {"crash"})
  /\ UNCHANGED <<stored, order, intake, retry, confirm, erp, mails>>

(* The worker dies; the job stalls and is requeued, at most MaxStalled times. *)
Crash(j) ==
  /\ job[j].state = "active"
  /\ job' = [job EXCEPT ![j].stalled = @ + 1,
                        ![j].state = IF job[j].stalled < MaxStalled
                                       THEN "waiting" ELSE "failed"]
  /\ EndRun(j)
  /\ Suffer(OrderOf(j), IF run[j].pc = "posted" THEN {"crash", "crashAfterPost"}
                                                ELSE {"crash"})
  /\ UNCHANGED <<stored, order, intake, retry, confirm, erp, mails>>

-----------------------------------------------------------------------------

Worker(j) ==
  \/ StartJob(j) \/ LoadOrder(j) \/ Authorise(j) \/ PostOrder(j)
  \/ SaveSynced(j) \/ NotifySuccess(j) \/ ConfirmCustomer(j)
  \/ SaveConfirmed(j) \/ SaveMailError(j) \/ SaveFailure(j)
  \/ JobReturns(j) \/ JobThrows(j)

CreateOrder(o) ==
  CheckKey(o) \/ InsertOrder(o) \/ EnqueueOrder(o) \/ DropRequest(o)

RetryOrder(j) == RetrySave(j) \/ RetryEnqueue(j) \/ DropRetry(j)

SendConfirmation(o) == ConfirmSend(o) \/ ConfirmSave(o)

Next ==
  \/ \E o \in Orders : \/ CreateOrder(o) \/ SendConfirmation(o)
                       \/ ConfirmLoad(o) \/ DeleteOrder(o)
  \/ \E j \in RetryJobs : RetryLoad(j) \/ RetryOrder(j)
  \/ \E j \in Jobs : Worker(j) \/ Crash(j)

Spec == Init /\ [][Next]_vars

(***************************************************************************)
(* The event loops run: a request that was accepted is carried on, and so  *)
(* is a job.  Nobody has to retry, confirm or delete an order, and nothing *)
(* has to crash.                                                           *)
(***************************************************************************)
FairSpec ==
  /\ Spec
  /\ \A o \in Orders : WF_vars(CreateOrder(o)) /\ WF_vars(SendConfirmation(o))
  /\ \A j \in RetryJobs : WF_vars(RetryOrder(j))
  /\ \A j \in Jobs : WF_vars(Worker(j))

-----------------------------------------------------------------------------
(* Properties *)

(* The shape of the state. *)
TypeOK ==
  /\ stored \subseteq Orders
  /\ order \in [Orders -> Doc]
  /\ intake \in [Orders -> IntakeStates]
  /\ retry \in [RetryJobs -> [pc : {"new", "loaded", "saved", "over"},
                              status : Status, retryCount : Nat]]
  /\ confirm \in [Orders -> {"idle", "loaded", "sent"}]
  /\ job \in [Jobs -> [state : JobStates, attemptsMade : Nat, stalled : Nat]]
  /\ run \in [Jobs -> [pc : Points, doc : Doc, dirty : SUBSET Fields]]
  /\ erp \in [Orders -> Nat]
  /\ mails \in [Orders -> Nat]
  /\ trouble \in [Orders -> SUBSET Faults]

(* Two requests with one idempotency key never leave two orders behind,    *)
(* although createOrder looks the key up and inserts in separate steps.    *)
OneOrderPerKey ==
  \A o, p \in stored : KeyOf[o] = KeyOf[p] => o = p

(* An order shown as SYNCED carries the id of an order the ERP really      *)
(* created for it, whatever runs and retries saved over each other.        *)
SyncedIsLinked ==
  \A o \in stored :
    /\ order[o].snelstartOrderId <= erp[o]
    /\ order[o].status = "SYNCED" => order[o].snelstartOrderId # 0

(* Nobody is told an order is confirmed before the ERP has it: neither a   *)
(* mail of the worker, nor one sent by hand, nor the date in the document. *)
ConfirmedIsInErp ==
  \A o \in Orders :
    (mails[o] > 0 \/ confirm[o] # "idle" \/ order[o].confirmed) => erp[o] > 0

(* What can make the ERP hold an order twice. *)
DuplicateCauses == {"reply", "save", "audit", "crashAfterPost", "overlap", "stale"}

(* One local order is at most one ERP order, unless a reply, a save or an  *)
(* audit write after the POST is lost, the worker dies before it saves, or *)
(* manual retries run into each other or into a live job.  Rejected posts, *)
(* token failures, other crashes and deletions never duplicate an order.   *)
AtMostOneErpOrder ==
  \A o \in Orders : trouble[o] \cap DuplicateCauses = {} => erp[o] <= 1

MailCauses == {"save", "smtp", "crash", "overlap"}

(* The worker mails a customer twice only after a failed save, a false     *)
(* mail error, a crash or overlapping jobs: a failed audit write or a      *)
(* stale retry may send the order to the ERP again, but not the mail.      *)
AtMostOneMail ==
  \A o \in Orders : trouble[o] \cap MailCauses = {} => mails[o] <= 1

(* What can leave an order PENDING_SYNC with nobody left to sync it. *)
StrandingCauses == {"auth", "save", "crash", "lost", "overlap"}

(* No job is live and no handler is about to add one. *)
Unattended(o) ==
  /\ \A j \in JobsOf(o) : ~Live(j)
  /\ intake[o] # "saved"
  /\ \A j \in JobsOf(o) \cap RetryJobs : retry[j].pc # "saved"

(* An order stays PENDING_SYNC for good only after an attempt that failed  *)
(* before the try block, a failed save, a crash, a lost queue.add or       *)
(* overlapping jobs: errors of the ERP or of the audit log never do that,  *)
(* and neither does a retry that saves over a status it did not read.      *)
NeverStranded ==
  \A o \in stored :
    (order[o].status = "PENDING_SYNC" /\ Unattended(o))
      => trouble[o] \cap StrandingCauses # {}

(* Once an ERP id is recorded, no stale copy erases it while the document  *)
(* exists: saves write the dirty paths only.                               *)
LinkNeverLost ==
  [][\A o \in stored \cap stored' :
       order[o].snelstartOrderId # 0 => order'[o].snelstartOrderId # 0]_vars

(***************************************************************************)
(* The promise of order intake and synchronisation, see OrderLedger: the   *)
(* documents are the records, snelstartOrderId is the link.                *)
(***************************************************************************)
Known == {o \in Orders : intake[o] \in {"saved", "queued", "lost"}}

LinkOf == [o \in Orders |-> order[o].snelstartOrderId]

Ledger == INSTANCE OrderLedger
            WITH present <- stored, known <- Known, created <- erp, link <- LinkOf

(* Every step keeps the ledger: no order on record without a request of    *)
(* its own, none linked to nothing, none posted that was never accepted.   *)
KeepsLedger == Ledger!Spec

(* Every job that was added ends: attempts and stalls are bounded. *)
EveryJobEnds ==
  \A j \in Jobs : Live(j) ~> job[j].state \in {"completed", "failed"}

(* An order whose request was not refused is in the end SYNCED or          *)
(* SYNC_FAILED, or deleted, or met one of the stranding faults.            *)
Settled(o) ==
  \/ o \notin stored
  \/ order[o].status # "PENDING_SYNC"
  \/ trouble[o] \cap StrandingCauses # {}

EveryOrderSettles == \A o \in Orders : intake[o] = "saved" ~> Settled(o)

(* README.md:225 "max attempts before SYNC_FAILED": an order whose job has *)
(* used up its attempts, and that nobody is working on, is not PENDING.    *)
ExhaustedMeansFailed ==
  \A o \in stored :
    (Unattended(o) /\ \E j \in JobsOf(o) : job[j].attemptsMade >= JobAttempts)
      => order[o].status # "PENDING_SYNC"

=============================================================================
