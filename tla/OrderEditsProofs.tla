-------------------------- MODULE OrderEditsProofs --------------------------
(***************************************************************************)
(* Why a document and its ERP order keep the same items.  A run posts what *)
(* it loaded, and an edit that is saved between the two, or after, is      *)
(* "late".  An edit that goes on has asked the ERP about the order's link, *)
(* or the link came later; and a link that a run is about to save is of an *)
(* ERP order that was never linked, so not of one that was invoiced then.  *)
(***************************************************************************)
EXTENDS OrderSyncProofs, OrderEdits

USE ConstantsAssumption, EditsAssumption

(* Every behaviour with edits is a behaviour of OrderSync. *)
THEOREM EditsKeepSync == EditSpec => Spec
<1>1. [SyncStep \/ EditStep]_<<vars, editVars>> => [Next]_vars
  BY DEF SyncStep, EditStep, Invoice, LoadEdit, LookUp, SaveEdit, DropEdit
<1>2. Init /\ EditInit => Init
  OBVIOUS
<1> QED
  BY <1>1, <1>2, PTL DEF EditSpec, Spec

-----------------------------------------------------------------------------
(* What a step of OrderSync does to the runs *)

(* A run that may post has just been loaded, or could post before. *)
LEMMA RunMoves ==
  ASSUME TypeOK, NEW j \in Jobs, Worker(j) \/ Crash(j),
         run'[j].pc \in {"loaded", "ready"}
  PROVE  \/ Loads(j)
         \/ run[j].pc \in {"loaded", "ready"} /\ run'[j].pc = "ready"
<1> USE GotoFrame, SaveRunFrame, SaveThrowsFrame
<1>1. CASE StartJob(j)
  BY <1>1 DEF StartJob
<1>2. CASE LoadOrder(j)
  BY <1>2 DEF LoadOrder, Loads, TypeOK
<1>3. CASE Authorise(j)
  BY <1>3 DEF Authorise
<1>4. CASE PostOrder(j)
  BY <1>4 DEF PostOrder, TypeOK
<1>5. CASE SaveSynced(j)
  BY <1>5 DEF SaveSynced
<1>6. CASE NotifySuccess(j)
  BY <1>6 DEF NotifySuccess
<1>7. CASE ConfirmCustomer(j)
  BY <1>7 DEF ConfirmCustomer, TypeOK
<1>8. CASE SaveConfirmed(j)
  BY <1>8 DEF SaveConfirmed
<1>9. CASE SaveMailError(j)
  BY <1>9 DEF SaveMailError
<1>10. CASE SaveFailure(j)
  BY <1>10 DEF SaveFailure
<1>11. CASE JobReturns(j) \/ JobThrows(j) \/ Crash(j)
  BY <1>11 DEF JobReturns, JobThrows, Crash, EndRun, IdleRun, TypeOK
<1> QED
  BY <1>1, <1>2, <1>3, <1>4, <1>5, <1>6, <1>7, <1>8, <1>9, <1>10, <1>11 DEF Worker

(* The ERP gets one order at a time, from a run that may post it. *)
LEMMA ErpMoves ==
  ASSUME TypeOK, NEW j \in Jobs, Worker(j) \/ Crash(j),
         erp'[OrderOf(j)] # erp[OrderOf(j)]
  PROVE  Posts(j) /\ erp'[OrderOf(j)] = erp[OrderOf(j)] + 1
<1>1. PostOrder(j)
  BY DEF Worker, StartJob, LoadOrder, Authorise, SaveSynced, NotifySuccess,
         ConfirmCustomer, SaveConfirmed, SaveMailError, SaveFailure, JobReturns,
         JobThrows, Crash
<1>2. OrderOf(j) \in Orders
  BY JobsFacts
<1>3. run[j].pc = "ready" /\ run'[j].pc \in {"posted", "failing"}
  BY <1>1, GotoFrame DEF PostOrder, TypeOK
<1>4. erp'[OrderOf(j)] = erp[OrderOf(j)] + 1
  BY <1>1, <1>2 DEF PostOrder, TypeOK
<1> QED
  BY <1>3, <1>4 DEF Posts

-----------------------------------------------------------------------------
(* The shape of the state *)

EditShape ==
  /\ EditTypeOK
  /\ \A o \in Orders : Len(posted[o]) = erp[o]
  /\ \A x \in DOMAIN invoiced : x[2] \in 1 .. erp[x[1]]

(* What the tracking of the items adds in a step of OrderSync. *)
LEMMA SyncItems ==
  ASSUME TypeOK, EditShape, SyncStep
  PROVE  /\ UNCHANGED <<items, invoiced, edit>>
         /\ editCauses \subseteq editCauses'
         /\ \A j \in Jobs : held'[j] = IF Loads(j) THEN items[OrderOf(j)] ELSE held[j]
         /\ \A o \in Orders :
              \/ erp'[o] = erp[o] /\ posted'[o] = posted[o]
              \/ \E j \in JobsOf(o) :
                   /\ run[j].pc = "ready"
                   /\ erp'[o] = erp[o] + 1
                   /\ posted'[o] = Append(posted[o], held[j])
<1>1. /\ UNCHANGED <<items, invoiced, edit>>
      /\ editCauses \subseteq editCauses'
      /\ \A j \in Jobs : held'[j] = IF Loads(j) THEN items[OrderOf(j)] ELSE held[j]
  BY DEF SyncStep, Taken
<1>2. ASSUME NEW o \in Orders
      PROVE  \/ erp'[o] = erp[o] /\ posted'[o] = posted[o]
             \/ \E j \in JobsOf(o) :
                  /\ run[j].pc = "ready"
                  /\ erp'[o] = erp[o] + 1
                  /\ posted'[o] = Append(posted[o], held[j])
  <2>0. posted'[o] = IF \E j \in JobsOf(o) : Posts(j)
                       THEN Append(posted[o], held[CHOOSE j \in JobsOf(o) : Posts(j)])
                       ELSE posted[o]
    BY DEF SyncStep
  <2>j. \A j \in JobsOf(o) : j \in Jobs /\ OrderOf(j) = o
    BY <1>2 DEF JobsOf, Jobs, OrderOf
  <2>1. CASE \E j \in JobsOf(o) : Posts(j)
    <3> DEFINE j == CHOOSE i \in JobsOf(o) : Posts(i)
    <3>1. j \in JobsOf(o) /\ Posts(j)
      BY <2>1
    <3>2. posted'[o] = Append(posted[o], held[j])
      BY <2>0, <2>1
    <3> HIDE DEF j
    <3>3. erp'[o] # erp[o] /\ run[j].pc = "ready"
      BY <2>j, <3>1 DEF Posts
    <3>4. PICK i \in Jobs : Worker(i) \/ Crash(i)
      BY <3>3, HandlerFrame, NextSplit DEF SyncStep
    <3>5. OrderOf(i) = o
      BY <1>2, <3>3, <3>4, WorkerFrame
    <3>6. erp'[o] = erp[o] + 1
      BY <3>3, <3>4, <3>5, ErpMoves
    <3> QED
      BY <3>1, <3>2, <3>3, <3>6
  <2>2. CASE ~\E j \in JobsOf(o) : Posts(j)
    <3>1. posted'[o] = posted[o]
      BY <2>0, <2>2
    <3>2. ASSUME erp'[o] # erp[o]
          PROVE  FALSE
      <4>1. PICK i \in Jobs : Worker(i) \/ Crash(i)
        BY <3>2, HandlerFrame, NextSplit DEF SyncStep
      <4>2. OrderOf(i) = o
        BY <1>2, <3>2, <4>1, WorkerFrame
      <4>3. i \in JobsOf(o) /\ Posts(i)
        BY <3>2, <4>1, <4>2, ErpMoves DEF Jobs, JobsOf, OrderOf
      <4> QED
        BY <2>2, <4>3
    <3> QED
      BY <3>1, <3>2
  <2> QED
    BY <2>1, <2>2
<1> QED
  BY <1>1, <1>2

(* The initial state has the shape. *)
LEMMA InitShape == Init /\ EditInit => EditShape
<1> SUFFICES ASSUME Init, EditInit
             PROVE  EditShape
  OBVIOUS
<1>1. (CHOOSE o \in Orders : TRUE) \in Orders
  OBVIOUS
<1>2. edit \in [Edits -> Edit]
  BY <1>1 DEF EditInit, Edit, Items
<1>3. posted \in [Orders -> Seq(Items)] /\ \A o \in Orders : Len(posted[o]) = erp[o]
  BY DEF EditInit, Init
<1> QED
  BY <1>2, <1>3 DEF EditShape, EditTypeOK, EditInit, Items

(* A step of OrderSync keeps the shape. *)
LEMMA SyncShape ==
  ASSUME TypeOK, TypeOK', EditShape, SyncStep
  PROVE  EditShape'
<1>1. held' \in [Jobs -> Items]
  <2>1. held' = [j \in Jobs |-> IF Loads(j) THEN Taken(j) ELSE held[j]]
    BY DEF SyncStep
  <2>2. \A j \in Jobs : Taken(j) \in Items /\ held[j] \in Items
    BY JobsFacts DEF Taken, EditShape, EditTypeOK
  <2> QED
    BY <2>1, <2>2
<1>2. ASSUME NEW o \in Orders
      PROVE  /\ posted'[o] \in Seq(Items) /\ Len(posted'[o]) = erp'[o]
             /\ erp[o] <= erp'[o]
  <2>1. /\ \A j \in JobsOf(o) : j \in Jobs /\ held[j] \in Items
        /\ posted[o] \in Seq(Items) /\ Len(posted[o]) = erp[o] /\ erp[o] \in Nat
    BY DEF JobsOf, Jobs, EditShape, EditTypeOK, TypeOK
  <2>2. CASE erp'[o] = erp[o] /\ posted'[o] = posted[o]
    BY <2>1, <2>2
  <2>3. ASSUME NEW j \in JobsOf(o), erp'[o] = erp[o] + 1,
               posted'[o] = Append(posted[o], held[j])
        PROVE  /\ posted'[o] \in Seq(Items) /\ Len(posted'[o]) = erp'[o]
               /\ erp[o] <= erp'[o]
    BY <2>1, <2>3
  <2> QED
    BY <2>2, <2>3, SyncItems
<1>3. posted' \in [Orders -> Seq(Items)]
  <2>1. posted' = [o \in Orders |-> posted'[o]]
    BY DEF SyncStep
  <2> QED
    BY <1>2, <2>1
<1>4. /\ items' = items /\ invoiced' = invoiced /\ edit' = edit
      /\ editCauses' \subseteq {"late", "invoiced", "unasked"}
  BY DEF SyncStep, EditShape, EditTypeOK
<1>5. \A x \in DOMAIN invoiced' : x[2] \in 1 .. erp'[x[1]]
  BY <1>2, <1>4 DEF EditShape, EditTypeOK, TypeOK
<1> QED
  BY <1>1, <1>2, <1>3, <1>4, <1>5 DEF EditShape, EditTypeOK

(* A step of an edit, or an invoice, keeps the shape. *)
LEMMA EditStepShape ==
  ASSUME TypeOK, EditShape, EditStep
  PROVE  EditShape'
<1>1. ASSUME NEW o \in Orders, NEW id \in 1 .. erp[o], Invoice(o, id)
      PROVE  EditShape'
  <2>0. erp' = erp /\ UNCHANGED <<items, held, posted, edit>>
    BY <1>1 DEF Invoice, vars
  <2>1. erp[o] \in Nat
    BY DEF TypeOK
  <2>2. DOMAIN invoiced' = DOMAIN invoiced \cup {<<o, id>>}
    BY <1>1 DEF Invoice
  <2>3. \A x \in DOMAIN invoiced' : /\ x \in Orders \X Nat
                                    /\ x[2] \in 1 .. erp[x[1]]
    BY <2>1, <2>2 DEF EditShape, EditTypeOK
  <2>4. \A x \in DOMAIN invoiced' : invoiced'[x] \in Items
    BY <1>1, <2>2 DEF Invoice, EditShape, EditTypeOK
  <2>5. editCauses' \subseteq {"late", "invoiced", "unasked"}
    BY <1>1 DEF Invoice, EditShape, EditTypeOK
  <2> QED
    BY <2>0, <2>3, <2>4, <2>5 DEF EditShape, EditTypeOK
<1>2. ASSUME NEW e \in Edits, NEW o \in Orders, LoadEdit(e, o)
      PROVE  EditShape'
  <2>1. erp' = erp /\ UNCHANGED <<items, held, posted, invoiced, editCauses>>
    BY <1>2 DEF LoadEdit, vars
  <2>2. edit' \in [Edits -> Edit]
    BY <1>2 DEF LoadEdit, EditShape, EditTypeOK, Edit, TypeOK, Doc
  <2> QED
    BY <2>1, <2>2 DEF EditShape, EditTypeOK
<1>3. ASSUME NEW e \in Edits, LookUp(e) \/ SaveEdit(e) \/ DropEdit(e)
      PROVE  EditShape'
  <2>1. erp' = erp /\ UNCHANGED <<held, posted, invoiced>>
    BY <1>3 DEF LookUp, SaveEdit, DropEdit, vars
  <2>2. edit' \in [Edits -> Edit]
    <3>1. \A point \in {"checked", "over"} :
            [edit EXCEPT ![e].pc = point] \in [Edits -> Edit]
      BY DEF EditShape, EditTypeOK, Edit
    <3>2. \E point \in {"checked", "over"} : edit' = [edit EXCEPT ![e].pc = point]
      BY <1>3 DEF LookUp, SaveEdit, DropEdit, EditEnds
    <3> QED
      BY <3>1, <3>2
  <2>3. items' \in [Orders -> Items]
    BY <1>3 DEF LookUp, SaveEdit, DropEdit, EditShape, EditTypeOK, Items
  <2>4. editCauses' \subseteq {"late", "invoiced", "unasked"}
    BY <1>3 DEF LookUp, SaveEdit, DropEdit, EditShape, EditTypeOK
  <2> QED
    BY <2>1, <2>2, <2>3, <2>4 DEF EditShape, EditTypeOK
<1> QED
  BY <1>1, <1>2, <1>3 DEF EditStep

-----------------------------------------------------------------------------
(* ErpHasTheItems *)

(* What the ERP has of o, and what a run may post of it, are its items. *)
Current(o) ==
  /\ \A i \in 1 .. erp[o] : posted[o][i] = items[o]
  /\ \A j \in JobsOf(o) : run[j].pc \in {"loaded", "ready"} => held[j] = items[o]

ItemsInv == "late" \notin editCauses => \A o \in Orders : Current(o)

(* A step of OrderSync posts and loads the items of the document. *)
LEMMA SyncCurrent ==
  ASSUME TypeOK, EditShape, ItemsInv, SyncStep
  PROVE  ItemsInv'
<1> SUFFICES ASSUME "late" \notin editCauses', NEW o \in Orders
             PROVE  Current(o)'
  BY DEF ItemsInv
<1>1. Current(o) /\ items' = items
  BY SyncItems DEF ItemsInv
<1>2. \A j \in JobsOf(o) : j \in Jobs /\ OrderOf(j) = o
  BY DEF JobsOf, Jobs, OrderOf
<1>3. ASSUME NEW i \in 1 .. erp'[o]
      PROVE  posted'[o][i] = items[o]
  <2>1. /\ posted[o] \in Seq(Items) /\ Len(posted[o]) = erp[o] /\ erp[o] \in Nat
        /\ \A j \in JobsOf(o) : held[j] \in Items
    BY <1>2 DEF EditShape, EditTypeOK, TypeOK
  <2>2. CASE erp'[o] = erp[o] /\ posted'[o] = posted[o]
    BY <1>1, <1>3, <2>2 DEF Current
  <2>3. ASSUME NEW j \in JobsOf(o), run[j].pc = "ready", erp'[o] = erp[o] + 1,
               posted'[o] = Append(posted[o], held[j])
        PROVE  posted'[o][i] = items[o]
    <3>1. held[j] = items[o]
      BY <1>1, <2>3 DEF Current
    <3>2. i \in 1 .. erp[o] \/ i = Len(posted[o]) + 1
      BY <1>3, <2>1, <2>3
    <3> QED
      BY <1>1, <2>1, <2>3, <3>1, <3>2 DEF Current
  <2> QED
    BY <2>2, <2>3, SyncItems
<1>4. ASSUME NEW j \in JobsOf(o), run'[j].pc \in {"loaded", "ready"}
      PROVE  held'[j] = items[o]
  <2>1. Loads(j) \/ run[j].pc \in {"loaded", "ready"}
    <3>1. CASE run'[j] = run[j]
      BY <1>4, <3>1
    <3>2. CASE run'[j] # run[j]
      <4>1. PICK i \in Jobs : Worker(i) \/ Crash(i)
        BY <3>2, HandlerFrame, NextSplit DEF SyncStep
      <4>2. i = j
        BY <1>2, <3>2, <4>1, WorkerFrame
      <4> QED
        BY <1>2, <1>4, <4>1, <4>2, RunMoves
    <3> QED
      BY <3>1, <3>2
  <2>2. held'[j] = IF Loads(j) THEN items[o] ELSE held[j]
    BY <1>2, SyncItems
  <2> QED
    BY <1>1, <2>1, <2>2 DEF Current
<1> QED
  BY <1>1, <1>3, <1>4 DEF Current

(* An edit that is saved in time finds nothing loaded and nothing posted. *)
LEMMA EditCurrent ==
  ASSUME TypeOK, EditShape, ItemsInv, EditStep
  PROVE  ItemsInv'
<1>1. UNCHANGED <<run, erp, held, posted>> /\ editCauses \subseteq editCauses'
  BY DEF EditStep, Invoice, LoadEdit, LookUp, SaveEdit, DropEdit, vars
<1>2. CASE UNCHANGED items
  BY <1>1, <1>2 DEF ItemsInv, Current
<1>3. CASE ~UNCHANGED items
  <2>1. PICK e \in Edits : SaveEdit(e)
    BY <1>3 DEF EditStep, Invoice, LoadEdit, LookUp, DropEdit
  <2> DEFINE p == edit[e].order
  <2>2. /\ items' = [items EXCEPT ![p] = e]
        /\ editCauses' = IF Underway(p) THEN editCauses \cup {"late"} ELSE editCauses
    BY <1>3, <2>1 DEF SaveEdit
  <2>3. p \in Orders
    BY DEF EditShape, EditTypeOK, Edit
  <2> HIDE DEF p
  <2> SUFFICES ASSUME "late" \notin editCauses', NEW o \in Orders
               PROVE  Current(o)'
    BY DEF ItemsInv
  <2>4. ~Underway(p) /\ Current(o)
    BY <2>2 DEF ItemsInv
  <2>5. CASE o = p
    <3>1. erp'[o] = 0 /\ \A j \in JobsOf(o) : run'[j].pc \notin {"loaded", "ready"}
      BY <1>1, <2>3, <2>4, <2>5 DEF Underway, TypeOK
    <3> QED
      BY <3>1 DEF Current
  <2>6. CASE o # p
    <3>1. items'[o] = items[o]
      BY <2>2, <2>6 DEF EditShape, EditTypeOK
    <3> QED
      BY <1>1, <2>4, <3>1 DEF Current
  <2> QED
    BY <2>5, <2>6
<1> QED
  BY <1>2, <1>3

-----------------------------------------------------------------------------
(* The ids that runs are about to save *)

LinkOfDoc(o) == order[o].snelstartOrderId

IdOf(j) == run[j].doc.snelstartOrderId

LinkDirty(j) == "snelstartOrderId" \in run[j].dirty

(* No two runs, nor a run and the document, have the same id at hand. *)
IdsInv ==
  \A j \in Jobs : LinkDirty(j) =>
    /\ IdOf(j) # LinkOfDoc(OrderOf(j))
    /\ \A i \in JobsOf(OrderOf(j)) \ {j} : LinkDirty(i) => IdOf(i) # IdOf(j)

(* A run saves its id, keeps it, drops it, or gets the ERP's next one. *)
RunSaves(j) ==
  /\ LinkDirty(j) /\ ~LinkDirty(j)'
  /\ LinkOfDoc(OrderOf(j))' = IdOf(j)

RunKeeps(j) ==
  /\ LinkDirty(j)' => LinkDirty(j) /\ IdOf(j)' = IdOf(j)
  /\ LinkOfDoc(OrderOf(j))' = LinkOfDoc(OrderOf(j))

RunGets(j) ==
  /\ IdOf(j)' = erp[OrderOf(j)] + 1
  /\ LinkOfDoc(OrderOf(j))' = LinkOfDoc(OrderOf(j))

(* A save of a run's copy saves its id, if that is dirty. *)
LEMMA SaveRunIds ==
  ASSUME TypeOK, NEW j \in Jobs, NEW doc, NEW dirty, NEW point,
         SaveRun(j, doc, dirty, point),
         doc.snelstartOrderId = IdOf(j),
         "snelstartOrderId" \in dirty <=> LinkDirty(j)
  PROVE  RunSaves(j) \/ RunKeeps(j)
<1>1. /\ order'[OrderOf(j)] = Saved(OrderOf(j), doc, dirty)
      /\ run'[j].dirty = {}
  BY SaveRunFrame
<1>2. LinkOfDoc(OrderOf(j))' = IF LinkDirty(j) THEN IdOf(j) ELSE LinkOfDoc(OrderOf(j))
  BY <1>1 DEF Saved, LinkOfDoc
<1> QED
  BY <1>1, <1>2 DEF RunSaves, RunKeeps, LinkDirty

(* What a step of the worker does to ids and links. *)
LEMMA WorkerIds ==
  ASSUME TypeOK, NEW j \in Jobs, Worker(j) \/ Crash(j)
  PROVE  RunSaves(j) \/ RunKeeps(j) \/ RunGets(j)
<1>g. ASSUME NEW point, Goto(j, point), UNCHANGED order
      PROVE  RunKeeps(j)
  BY <1>g, GotoFrame DEF RunKeeps, LinkDirty, IdOf, LinkOfDoc
<1>s. ASSUME NEW point, SaveRun(j, run[j].doc, run[j].dirty, point)
      PROVE  RunSaves(j) \/ RunKeeps(j)
  BY <1>s, SaveRunIds DEF IdOf, LinkDirty
<1>t. ASSUME NEW point, SaveThrows(j, point)
      PROVE  RunKeeps(j)
  BY <1>t, <1>g DEF SaveThrows
<1>c. ASSUME UNCHANGED order, run'[j].dirty \in {{}, {"confirmed"}}
      PROVE  RunKeeps(j)
  BY <1>c DEF RunKeeps, LinkDirty, LinkOfDoc
<1>1. CASE StartJob(j) \/ Authorise(j)
  BY <1>1, <1>g DEF StartJob, Authorise
<1>2. CASE LoadOrder(j)
  BY <1>2, <1>g, <1>c DEF LoadOrder, TypeOK
<1>3. CASE PostOrder(j)
  <2>1. CASE Goto(j, "failing")
    BY <1>3, <2>1, <1>g DEF PostOrder
  <2>2. CASE ~Goto(j, "failing")
    <3> DEFINE d == [run[j].doc EXCEPT !.status = "SYNCED",
                                       !.snelstartOrderId = erp[OrderOf(j)] + 1]
    <3>1. run'[j].doc = d /\ UNCHANGED order
      BY <1>3, <2>2 DEF PostOrder, TypeOK
    <3>2. d.snelstartOrderId = erp[OrderOf(j)] + 1
      BY RunFacts DEF Doc
    <3> QED
      BY <3>1, <3>2 DEF RunGets, IdOf, LinkOfDoc
  <2> QED
    BY <2>1, <2>2
<1>4. CASE SaveSynced(j)
  BY <1>4, <1>s, <1>t DEF SaveSynced
<1>5. CASE NotifySuccess(j)
  BY <1>5, <1>g DEF NotifySuccess
<1>6. CASE ConfirmCustomer(j)
  BY <1>6, <1>g, <1>c DEF ConfirmCustomer, TypeOK
<1>7. CASE SaveConfirmed(j)
  BY <1>7, <1>s, <1>t DEF SaveConfirmed
<1>8. CASE SaveMailError(j)
  BY <1>8, <1>s, <1>t DEF SaveMailError
<1>9. CASE SaveFailure(j)
  <2>1. FailedDoc(run[j].doc).snelstartOrderId = IdOf(j)
    BY RunFacts, FailedDocFacts DEF IdOf
  <2>2. "snelstartOrderId" \in FailedDirty(run[j]) <=> LinkDirty(j)
    BY DEF FailedDirty, LinkDirty
  <2> QED
    BY <1>9, <1>t, <2>1, <2>2, SaveRunIds DEF SaveFailure
<1>10. CASE JobReturns(j) \/ JobThrows(j) \/ Crash(j)
  BY <1>10, <1>c DEF JobReturns, JobThrows, Crash, EndRun, IdleRun, TypeOK
<1> QED
  BY <1>1, <1>2, <1>3, <1>4, <1>5, <1>6, <1>7, <1>8, <1>9, <1>10 DEF Worker

(* What a step of OrderSync does to the link of an order on record. *)
LEMMA SyncLink ==
  ASSUME TypeOK, AbsentInv, Next, NEW o \in Orders, o \in stored'
  PROVE  \/ LinkOfDoc(o)' = LinkOfDoc(o)
         \/ \E j \in JobsOf(o) : LinkDirty(j) /\ LinkOfDoc(o)' = IdOf(j)
<1>1. CASE Handler
  <2>1. ASSUME NEW p \in Orders, DeleteOrder(p)
        PROVE  LinkOfDoc(o)' = LinkOfDoc(o)
    BY <2>1 DEF DeleteOrder, TypeOK, LinkOfDoc
  <2> QED
    BY <1>1, <2>1, HandlerLink DEF LinkOfDoc
<1>2. ASSUME NEW j \in Jobs, Worker(j) \/ Crash(j)
      PROVE  \/ LinkOfDoc(o)' = LinkOfDoc(o)
             \/ \E i \in JobsOf(o) : LinkDirty(i) /\ LinkOfDoc(o)' = IdOf(i)
  <2>1. CASE OrderOf(j) = o
    <3>1. j \in JobsOf(o)
      BY <2>1 DEF Jobs, JobsOf, OrderOf
    <3> QED
      BY <1>2, <2>1, <3>1, WorkerIds DEF RunSaves, RunKeeps, RunGets
  <2>2. CASE OrderOf(j) # o
    BY <1>2, <2>2, WorkerFrame DEF LinkOfDoc
  <2> QED
    BY <2>1, <2>2
<1> QED
  BY <1>1, <1>2, NextSplit

(* Every step keeps IdsInv: a new id is larger than all before. *)
LEMMA IdsStep ==
  TypeOK /\ LinkInv /\ AbsentInv /\ IdsInv /\ [Next]_vars => IdsInv'
<1> SUFFICES ASSUME TypeOK, LinkInv, AbsentInv, IdsInv, [Next]_vars
             PROVE  IdsInv'
  OBVIOUS
<1>j. /\ \A j \in Jobs : OrderOf(j) \in Orders
      /\ \A i, j \in Jobs : i \in JobsOf(OrderOf(j)) <=> OrderOf(i) = OrderOf(j)
      /\ \A j \in Jobs : JobsOf(OrderOf(j)) \subseteq Jobs
  BY DEF Jobs, JobsOf, OrderOf
<1>n. /\ \A o \in Orders : LinkOfDoc(o) <= erp[o] /\ erp[o] \in Nat /\ LinkOfDoc(o) \in Nat
      /\ \A j \in Jobs : /\ IdOf(j) <= erp[OrderOf(j)] /\ IdOf(j) \in Nat
                         /\ LinkDirty(j) => IdOf(j) # 0
  BY <1>j, RunFacts DEF LinkInv, OrderLinked, CopyLinked, TypeOK, Doc, LinkOfDoc, IdOf, LinkDirty
<1>1. CASE UNCHANGED vars
  BY <1>1 DEF vars, IdsInv, LinkDirty, IdOf, LinkOfDoc
<1>2. CASE Handler
  <2>1. UNCHANGED run
    BY <1>2, HandlerFrame
  <2>2. \A o \in Orders : LinkOfDoc(o)' \in {0, LinkOfDoc(o)}
    <3>1. ASSUME NEW p \in Orders, DeleteOrder(p), NEW o \in Orders
          PROVE  LinkOfDoc(o)' \in {0, LinkOfDoc(o)}
      BY <3>1 DEF DeleteOrder, TypeOK, LinkOfDoc, NewDoc
    <3> QED
      BY <1>2, <3>1, HandlerLink DEF LinkOfDoc
  <2> QED
    BY <1>j, <1>n, <2>1, <2>2 DEF IdsInv, LinkDirty, IdOf
<1>3. ASSUME NEW j \in Jobs, Worker(j) \/ Crash(j)
      PROVE  IdsInv'
  <2>1. \A i \in Jobs \ {j} : LinkDirty(i)' = LinkDirty(i) /\ IdOf(i)' = IdOf(i)
    BY <1>3, WorkerFrame DEF LinkDirty, IdOf
  <2>2. \A o \in Orders \ {OrderOf(j)} : LinkOfDoc(o)' = LinkOfDoc(o)
    BY <1>3, WorkerFrame DEF LinkOfDoc
  <2> SUFFICES ASSUME NEW i \in Jobs, LinkDirty(i)'
               PROVE  /\ IdOf(i)' # LinkOfDoc(OrderOf(i))'
                      /\ \A k \in JobsOf(OrderOf(i)) \ {i} :
                           LinkDirty(k)' => IdOf(k)' # IdOf(i)'
    BY DEF IdsInv
  <2>3. CASE RunSaves(j)
    <3>1. i # j /\ LinkDirty(i) /\ LinkDirty(j) /\ ~LinkDirty(j)'
      BY <2>1, <2>3 DEF RunSaves
    <3>2. \A k \in JobsOf(OrderOf(i)) \ {i} : LinkDirty(k)' => IdOf(k)' # IdOf(i)'
      BY <1>j, <2>1, <3>1 DEF IdsInv
    <3>3. CASE OrderOf(i) = OrderOf(j)
      BY <1>j, <2>1, <2>3, <3>1, <3>2, <3>3 DEF IdsInv, RunSaves
    <3>4. CASE OrderOf(i) # OrderOf(j)
      BY <1>j, <2>1, <2>2, <3>1, <3>2, <3>4 DEF IdsInv
    <3> QED
      BY <3>3, <3>4
  <2>4. CASE RunKeeps(j)
    BY <1>j, <2>1, <2>2, <2>4 DEF IdsInv, RunKeeps
  <2>5. CASE RunGets(j)
    <3>1. \A k \in Jobs \ {j} : OrderOf(k) = OrderOf(j) => IdOf(k)' # IdOf(j)'
      BY <1>j, <1>n, <2>1, <2>5 DEF RunGets
    <3>2. IdOf(j)' # LinkOfDoc(OrderOf(j))'
      BY <1>j, <1>n, <2>5 DEF RunGets
    <3> QED
      BY <1>j, <2>1, <2>2, <2>5, <3>1, <3>2 DEF IdsInv, RunGets
  <2> QED
    BY <1>3, <2>3, <2>4, <2>5, WorkerIds
<1> QED
  BY <1>1, <1>2, <1>3, NextSplit

-----------------------------------------------------------------------------
(* InvoicedStays *)

Orderly == editCauses \cap {"invoiced", "unasked"} = {}

(* An edit that has to ask the ERP will ask about the right ERP order, if  *)
(* that is invoiced; one that need not, or has asked, may go on.           *)
EditInformed(e) ==
  LET o == edit[e].order IN
  /\ edit[e].pc = "looking" /\ IsInvoiced(o, LinkOfDoc(o)) => edit[e].link = LinkOfDoc(o)
  /\ edit[e].pc = "checked" => ~IsInvoiced(o, LinkOfDoc(o))

(* No run is about to link an order to an ERP order that is invoiced. *)
NoInvoiceAtHand ==
  \A j \in Jobs : LinkDirty(j) => ~IsInvoiced(OrderOf(j), IdOf(j))

InvoiceInv ==
  Orderly => /\ \A e \in Edits : EditInformed(e)
             /\ NoInvoiceAtHand
             /\ InvoicedStays

(* A step of OrderSync links no order to an invoiced one. *)
LEMMA SyncInvoice ==
  ASSUME TypeOK, TypeOK', LinkInv, AbsentInv, AbsentInv', EditShape,
         InvoiceInv, SyncStep
  PROVE  InvoiceInv'
<1> SUFFICES ASSUME Orderly'
             PROVE  /\ \A e \in Edits : EditInformed(e)'
                    /\ NoInvoiceAtHand'
                    /\ InvoicedStays'
  BY DEF InvoiceInv
<1>0. /\ UNCHANGED <<items, invoiced, edit>>
      /\ Orderly /\ (\A e \in Edits : EditInformed(e)) /\ NoInvoiceAtHand /\ InvoicedStays
  BY SyncItems DEF Orderly, InvoiceInv
<1>1. \A x \in DOMAIN invoiced : x[2] \in 1 .. erp[x[1]]
  BY DEF EditShape
<1>a. ASSUME NEW o \in Orders, o \in stored', IsInvoiced(o, LinkOfDoc(o)')
      PROVE  LinkOfDoc(o)' = LinkOfDoc(o) /\ o \in stored
  <2>1. LinkOfDoc(o)' = LinkOfDoc(o)
    <3>1. ASSUME NEW j \in JobsOf(o), LinkDirty(j), LinkOfDoc(o)' = IdOf(j)
          PROVE  FALSE
      <4>1. j \in Jobs /\ OrderOf(j) = o
        BY DEF JobsOf, Jobs, OrderOf
      <4> QED
        BY <1>0, <1>a, <3>1, <4>1 DEF NoInvoiceAtHand
    <3> QED
      BY <1>a, <3>1, SyncLink DEF SyncStep
  <2>2. o \in stored
    <3>1. ASSUME o \notin stored
          PROVE  LinkOfDoc(o) = 0
      BY <3>1 DEF AbsentInv, LinkOfDoc, NewDoc
    <3>2. LinkOfDoc(o) \in 1 .. erp[o] /\ erp[o] \in Nat
      BY <1>1, <1>a, <2>1 DEF IsInvoiced, TypeOK
    <3> QED
      BY <3>1, <3>2
  <2> QED
    BY <2>1, <2>2
<1>2. ASSUME NEW e \in Edits
      PROVE  EditInformed(e)'
  <2>1. PICK o \in Orders : o = edit[e].order
    BY DEF EditShape, EditTypeOK, Edit
  <2>2. IsInvoiced(o, LinkOfDoc(o)') => LinkOfDoc(o)' = LinkOfDoc(o)
    <3>1. CASE o \notin stored'
      <4>1. LinkOfDoc(o)' = 0 /\ ~IsInvoiced(o, 0)
        BY <1>1, <2>1, <3>1 DEF AbsentInv, LinkOfDoc, NewDoc, IsInvoiced, TypeOK
      <4> QED
        BY <4>1
    <3> QED
      BY <1>a, <2>1, <3>1
  <2> QED
    BY <1>0, <2>1, <2>2 DEF EditInformed, IsInvoiced
<1>3. NoInvoiceAtHand'
  <2> SUFFICES ASSUME NEW j \in Jobs, LinkDirty(j)'
               PROVE  ~IsInvoiced(OrderOf(j), IdOf(j)')
    BY <1>0 DEF NoInvoiceAtHand, IsInvoiced
  <2>1. CASE run'[j] = run[j]
    BY <1>0, <2>1 DEF NoInvoiceAtHand, LinkDirty, IdOf
  <2>2. CASE run'[j] # run[j]
    <3>1. PICK i \in Jobs : Worker(i) \/ Crash(i)
      BY <2>2, HandlerFrame, NextSplit DEF SyncStep
    <3>2. Worker(j) \/ Crash(j)
      <4>1. i = j
        BY <2>2, <3>1, WorkerFrame
      <4> QED
        BY <3>1, <4>1
    <3>3. CASE RunKeeps(j)
      BY <1>0, <3>3 DEF NoInvoiceAtHand, RunKeeps
    <3>4. CASE RunGets(j)
      <4>1. erp[OrderOf(j)] \in Nat
        BY JobsFacts DEF TypeOK
      <4>2. \A id : IsInvoiced(OrderOf(j), id) => id \in 1 .. erp[OrderOf(j)]
        BY <1>1 DEF IsInvoiced
      <4> QED
        BY <3>4, <4>1, <4>2 DEF RunGets
    <3> QED
      BY <3>2, <3>3, <3>4, WorkerIds DEF RunSaves
  <2> QED
    BY <2>1, <2>2
<1>4. InvoicedStays'
  <2> SUFFICES ASSUME NEW o \in Orders, o \in stored', IsInvoiced(o, LinkOfDoc(o)')
               PROVE  items[o] = invoiced[<<o, LinkOfDoc(o)'>>]
    <3>1. stored' \subseteq Orders
      BY DEF TypeOK
    <3> QED
      BY <1>0, <3>1 DEF InvoicedStays, IsInvoiced, LinkOfDoc
  <2> QED
    BY <1>0, <1>a DEF InvoicedStays, Orderly, LinkOfDoc
<1> QED
  BY <1>2, <1>3, <1>4

(* An invoice is of the ERP order that is linked, or a cause. *)
LEMMA MakeInvoice ==
  ASSUME TypeOK, LinkInv, IdsInv, EditShape, InvoiceInv,
         NEW o \in Orders, NEW id \in 1 .. erp[o], Invoice(o, id)
  PROVE  InvoiceInv'
<1> SUFFICES ASSUME Orderly'
             PROVE  /\ \A e \in Edits : EditInformed(e)'
                    /\ NoInvoiceAtHand'
                    /\ InvoicedStays'
  BY DEF InvoiceInv
<1>0. UNCHANGED <<stored, order, run, items, edit>>
  BY DEF Invoice, vars
<1>1. /\ EditsOf(o) = {} /\ LinkOfDoc(o) = id
      /\ editCauses' = editCauses
  BY DEF Invoice, Orderly, LinkOfDoc
<1>2. Orderly /\ (\A e \in Edits : EditInformed(e)) /\ NoInvoiceAtHand /\ InvoicedStays
  BY <1>1 DEF InvoiceInv, Orderly
<1>3. /\ invoiced'[<<o, id>>] = items[o]
      /\ \A p \in Orders, i \in Nat :
           /\ IsInvoiced(p, i)' => IsInvoiced(p, i) \/ (p = o /\ i = id)
           /\ IsInvoiced(p, i) => ~(p = o /\ i = id) /\ invoiced'[<<p, i>>] = invoiced[<<p, i>>]
  BY DEF Invoice, IsInvoiced
<1>4. \A e \in Edits : EditInformed(e)'
  <2> SUFFICES ASSUME NEW e \in Edits, edit[e].pc \in {"looking", "checked"}
               PROVE  EditInformed(e)'
    BY <1>0 DEF EditInformed
  <2>1. edit[e].order \in Orders \ {o} /\ LinkOfDoc(edit[e].order) \in Nat
    BY <1>1 DEF EditsOf, EditShape, EditTypeOK, Edit, TypeOK, Doc, LinkOfDoc
  <2> QED
    BY <1>0, <1>2, <1>3, <2>1 DEF EditInformed, LinkOfDoc
<1>5. NoInvoiceAtHand'
  <2> SUFFICES ASSUME NEW j \in Jobs, LinkDirty(j)
               PROVE  ~IsInvoiced(OrderOf(j), IdOf(j))'
    BY <1>0 DEF NoInvoiceAtHand, LinkDirty, IdOf
  <2>1. OrderOf(j) \in Orders /\ IdOf(j) \in Nat /\ IdOf(j)' = IdOf(j)
    BY <1>0, JobsFacts, RunFacts DEF Doc, IdOf
  <2>2. OrderOf(j) = o => IdOf(j) # id
    BY <1>1 DEF IdsInv
  <2>3. ~IsInvoiced(OrderOf(j), IdOf(j))
    BY <1>2 DEF NoInvoiceAtHand
  <2> QED
    BY <1>3, <2>1, <2>2, <2>3 DEF IsInvoiced
<1>6. InvoicedStays'
  <2> SUFFICES ASSUME NEW p \in stored, IsInvoiced(p, LinkOfDoc(p))'
               PROVE  items[p] = invoiced'[<<p, LinkOfDoc(p)>>]
    BY <1>0 DEF InvoicedStays, IsInvoiced, LinkOfDoc
  <2>1. p \in Orders /\ LinkOfDoc(p) \in Nat /\ LinkOfDoc(p)' = LinkOfDoc(p)
    BY <1>0 DEF TypeOK, Doc, LinkOfDoc
  <2>2. CASE IsInvoiced(p, LinkOfDoc(p))
    BY <1>2, <1>3, <2>1, <2>2 DEF InvoicedStays, Orderly, LinkOfDoc
  <2>3. CASE ~IsInvoiced(p, LinkOfDoc(p))
    BY <1>3, <2>1, <2>3 DEF IsInvoiced
  <2> QED
    BY <2>2, <2>3
<1> QED
  BY <1>4, <1>5, <1>6

(* An edit goes on only with an order that is not invoiced. *)
LEMMA EditInvoice ==
  ASSUME TypeOK, EditShape, InvoiceInv, NEW e \in Edits,
         (\E o \in Orders : LoadEdit(e, o)) \/ LookUp(e) \/ SaveEdit(e) \/ DropEdit(e)
  PROVE  InvoiceInv'
<1> SUFFICES ASSUME Orderly'
             PROVE  /\ \A d \in Edits : EditInformed(d)'
                    /\ NoInvoiceAtHand'
                    /\ InvoicedStays'
  BY DEF InvoiceInv
<1>0. /\ UNCHANGED <<stored, order, run, erp, invoiced>>
      /\ editCauses \subseteq editCauses'
      /\ \A d \in Edits \ {e} : edit'[d] = edit[d]
  BY DEF LoadEdit, LookUp, SaveEdit, DropEdit, EditEnds, vars, EditShape, EditTypeOK
<1>1. Orderly /\ (\A d \in Edits : EditInformed(d)) /\ NoInvoiceAtHand /\ InvoicedStays
  BY <1>0 DEF InvoiceInv, Orderly
<1>2. NoInvoiceAtHand'
  BY <1>0, <1>1 DEF NoInvoiceAtHand, LinkDirty, IdOf, IsInvoiced
<1>3. EditInformed(e)'
  <2>1. ASSUME NEW o \in Orders, LoadEdit(e, o)
        PROVE  EditInformed(e)'
    <3>1. edit'[e] = [pc    |-> IF LinkOfDoc(o) # 0 THEN "looking" ELSE "checked",
                      order |-> o, items |-> items[o], link |-> LinkOfDoc(o)]
      BY <2>1 DEF LoadEdit, LinkOfDoc, EditShape, EditTypeOK
    <3>2. ~IsInvoiced(o, 0)
      BY DEF EditShape, IsInvoiced, TypeOK
    <3> QED
      BY <1>0, <3>1, <3>2 DEF EditInformed, IsInvoiced, LinkOfDoc
  <2>2. CASE LookUp(e)
    <3>1. /\ edit'[e].pc \in {"checked", "over"}
          /\ edit'[e].order = edit[e].order /\ edit'[e].link = edit[e].link
      BY <2>2 DEF LookUp, EditEnds, EditShape, EditTypeOK, Edit
    <3>2. "unasked" \notin editCauses'
      BY DEF Orderly
    <3>3. edit'[e].pc = "checked" => ~IsInvoiced(edit[e].order, edit[e].link)
      BY <2>2, <3>2 DEF LookUp, EditEnds, EditShape, EditTypeOK, Edit
    <3>4. edit[e].pc = "looking"
      BY <2>2 DEF LookUp
    <3> QED
      BY <1>0, <1>1, <3>1, <3>3, <3>4 DEF EditInformed, IsInvoiced, LinkOfDoc
  <2>3. CASE SaveEdit(e) \/ DropEdit(e)
    <3>1. edit'[e].pc = "over"
      BY <2>3 DEF SaveEdit, DropEdit, EditEnds, EditShape, EditTypeOK, Edit
    <3> QED
      BY <3>1 DEF EditInformed
  <2> QED
    BY <2>1, <2>2, <2>3
<1>4. \A d \in Edits : EditInformed(d)'
  BY <1>0, <1>1, <1>3 DEF EditInformed, IsInvoiced, LinkOfDoc
<1>5. InvoicedStays'
  <2>1. CASE UNCHANGED items
    BY <1>0, <1>1, <2>1 DEF InvoicedStays, IsInvoiced, Orderly
  <2>2. CASE ~UNCHANGED items
    <3> DEFINE o == edit[e].order
    <3>1. /\ edit[e].pc = "checked"
          /\ \A p \in Orders \ {o} : items'[p] = items[p]
      BY <2>2 DEF LoadEdit, LookUp, SaveEdit, DropEdit, EditShape, EditTypeOK
    <3>2. ~IsInvoiced(o, LinkOfDoc(o))
      BY <1>1, <3>1 DEF EditInformed
    <3> QED
      BY <1>0, <1>1, <3>1, <3>2
      DEF InvoicedStays, IsInvoiced, Orderly, LinkOfDoc, TypeOK
  <2> QED
    BY <2>1, <2>2
<1> QED
  BY <1>2, <1>4, <1>5

(* A document and its ERP order keep the same items, but for the causes    *)
(* that ItemsAgree names.                                                  *)
THEOREM ItemsStayTogether == EditSpec => []ItemsAgree
<1> DEFINE Base == TypeOK /\ LinkInv /\ AbsentInv
           Inv  == EditShape /\ ItemsInv /\ IdsInv /\ InvoiceInv
<1>1. Init /\ EditInit => Inv
  <2> SUFFICES ASSUME Init, EditInit
               PROVE  Inv
    OBVIOUS
  <2>1. ItemsInv
    BY DEF Init, EditInit, ItemsInv, Current, JobsOf, Jobs, IdleRun
  <2>2. IdsInv /\ NoInvoiceAtHand
    BY DEF Init, IdsInv, NoInvoiceAtHand, LinkDirty, IdleRun
  <2>3. InvoiceInv
    BY <2>2 DEF EditInit, InvoiceInv, EditInformed, InvoicedStays, IsInvoiced
  <2> QED
    BY <2>1, <2>2, <2>3, InitShape
<1>2. Base /\ Base' /\ Inv /\ [SyncStep \/ EditStep]_<<vars, editVars>> => Inv'
  <2> SUFFICES ASSUME Base, Base', Inv, [SyncStep \/ EditStep]_<<vars, editVars>>
               PROVE  Inv'
    OBVIOUS
  <2>1. CASE UNCHANGED <<vars, editVars>>
    BY <2>1 DEF vars, editVars, EditShape, EditTypeOK, ItemsInv, Current, IdsInv,
       LinkDirty, IdOf, LinkOfDoc, InvoiceInv, Orderly, EditInformed,
       NoInvoiceAtHand, InvoicedStays, IsInvoiced
  <2>2. CASE SyncStep
    <3>1. IdsInv'
      BY <2>2, IdsStep DEF SyncStep
    <3> QED
      BY <2>2, <3>1, SyncShape, SyncCurrent, SyncInvoice
  <2>3. CASE EditStep
    <3>1. UNCHANGED vars
      BY <2>3 DEF EditStep, Invoice, LoadEdit, LookUp, SaveEdit, DropEdit
    <3>2. IdsInv'
      BY <3>1, IdsStep
    <3>3. InvoiceInv'
      BY <2>3, MakeInvoice, EditInvoice DEF EditStep
    <3> QED
      BY <2>3, <3>2, <3>3, EditStepShape, EditCurrent
  <2> QED
    BY <2>1, <2>2, <2>3
<1>3. Base /\ Inv => ItemsAgree
  <2> SUFFICES ASSUME Base, Inv
               PROVE  ItemsAgree
    OBVIOUS
  <2>1. InvoicedStays
    BY DEF InvoiceInv, Orderly, InvoicedStays
  <2>2. ErpHasTheItems
    <3> SUFFICES ASSUME "late" \notin editCauses, NEW o \in stored, LinkOfDoc(o) # 0
                 PROVE  posted[o][LinkOfDoc(o)] = items[o]
      BY DEF ErpHasTheItems, LinkOfDoc
    <3>1. o \in Orders /\ LinkOfDoc(o) \in 1 .. erp[o]
      BY DEF TypeOK, Doc, LinkInv, OrderLinked, LinkOfDoc
    <3> QED
      BY <3>1 DEF ItemsInv, Current
  <2> QED
    BY <2>1, <2>2 DEF ItemsAgree
<1>4. Spec => []Base
  BY TypeCorrect, Links, AbsentBlank, PTL
<1> HIDE DEF Base, Inv
<1> QED
  BY <1>1, <1>2, <1>3, <1>4, EditsKeepSync, PTL DEF EditSpec

=============================================================================
