----------------------------- MODULE OrderEdits -----------------------------
(***************************************************************************)
(* PUT /orders/:id beside OrderSync: staff change the items of an order    *)
(* while its jobs run, fail and are retried.  Every step of OrderSync is a *)
(* step here, which also says which items each copy and each ERP order     *)
(* has; an edit writes paths that OrderSync does not look at.              *)
(*                                                                         *)
(* The ERP gets the items of the copy that the run loaded.  An edit of an  *)
(* order that is linked first asks the ERP whether it is invoiced.         *)
(* Mongoose refuses a save that replaces the list of items when another    *)
(* has been saved since the document was read.                             *)
(***************************************************************************)
EXTENDS OrderSync, Sequences

CONSTANTS
  Edits,    \* the edit requests; each names the items it asks for
  Original  \* the items of the create request

ASSUME EditsAssumption == Original \notin Edits /\ Orders # {}

VARIABLES
  items,     \* items[o]: the items of o's document
  held,      \* held[j]: the items in the copy of j's run
  posted,    \* posted[o]: the items of the ERP's orders for o, in order of ids
  invoiced,  \* the ERP orders that are invoiced, with their items (history)
  edit,      \* edit[e]: where the edit stands, and what it read
  editCauses \* history: what can part an order from its ERP order

editVars == <<items, held, posted, invoiced, edit, editCauses>>

Items == Edits \cup {Original}

(* items: those of the copy; link: its snelstartOrderId. *)
Edit == [pc : {"new", "looking", "checked", "over"}, order : Orders,
         items : Items, link : Nat]

EditInit ==
  /\ items      = [o \in Orders |-> Original]
  /\ held       = [j \in Jobs |-> Original]
  /\ posted     = [o \in Orders |-> <<>>]
  /\ invoiced   = [x \in {} |-> Original]
  /\ edit       = [e \in Edits |-> [pc |-> "new", order |-> CHOOSE o \in Orders : TRUE,
                                    items |-> Original, link |-> 0]]
  /\ editCauses = {}

IsInvoiced(o, id) == <<o, id>> \in DOMAIN invoiced

EditsOf(o) == {e \in Edits : edit[e].pc \in {"looking", "checked"} /\ edit[e].order = o}

-----------------------------------------------------------------------------
(* The items in the steps of OrderSync *)

(* Mutant: a retry posts what the first job was given. *)
TakenOnce(j) == IF j[2] = 0 THEN items[OrderOf(j)] ELSE held[<<OrderOf(j), 0>>]

(* findById: the items of now. *)
Taken(j) == items[OrderOf(j)]

Loads(j) == run[j].pc = "start" /\ run'[j].pc = "loaded"

Posts(j) == run[j].pc = "ready" /\ run'[j].pc # "ready" /\ erp'[OrderOf(j)] # erp[OrderOf(j)]

SyncStep ==
  /\ Next
  /\ held'   = [j \in Jobs |-> IF Loads(j) THEN Taken(j) ELSE held[j]]
  /\ posted' = [o \in Orders |->
       IF \E j \in JobsOf(o) : Posts(j)
         THEN Append(posted[o], held[CHOOSE j \in JobsOf(o) : Posts(j)])
         ELSE posted[o]]
  /\ UNCHANGED <<items, invoiced, edit, editCauses>>

(* The ERP makes an invoice of an order. *)
Invoice(o, id) ==
  /\ ~IsInvoiced(o, id)
  /\ invoiced'   = [x \in DOMAIN invoiced \cup {<<o, id>>} |->
                      IF x = <<o, id>> THEN items[o] ELSE invoiced[x]]
  /\ editCauses' = IF EditsOf(o) # {} \/ order[o].snelstartOrderId # id
                     THEN editCauses \cup {"invoiced"} ELSE editCauses
  /\ UNCHANGED <<vars, items, held, posted, edit>>

-----------------------------------------------------------------------------
(* updateOrder *)

EditEnds(e) == edit' = [edit EXCEPT ![e].pc = "over"]

(* Mutant: the ERP is not asked. *)
LoadEditUnasked(e, o) ==
  /\ edit[e].pc = "new"
  /\ o \in stored
  /\ edit' = [edit EXCEPT ![e] = [pc |-> "checked", order |-> o, items |-> items[o],
                                  link |-> order[o].snelstartOrderId]]
  /\ UNCHANGED <<vars, items, held, posted, invoiced, editCauses>>

LoadEdit(e, o) ==
  /\ edit[e].pc = "new"
  /\ o \in stored
  /\ edit' = [edit EXCEPT ![e] =
       [pc    |-> IF order[o].snelstartOrderId # 0 THEN "looking" ELSE "checked",
        order |-> o, items |-> items[o], link |-> order[o].snelstartOrderId]]
  /\ UNCHANGED <<vars, items, held, posted, invoiced, editCauses>>

(* getSalesOrders: an invoiced order is refused; without an answer the     *)
(* edit goes on.                                                           *)
LookUp(e) ==
  /\ edit[e].pc = "looking"
  /\ \/ /\ IsInvoiced(edit[e].order, edit[e].link)
        /\ EditEnds(e)
        /\ UNCHANGED editCauses
     \/ /\ ~IsInvoiced(edit[e].order, edit[e].link)
        /\ edit' = [edit EXCEPT ![e].pc = "checked"]
        /\ UNCHANGED editCauses
     \/ /\ edit' = [edit EXCEPT ![e].pc = "checked"]
        /\ editCauses' = editCauses \cup {"unasked"}
  /\ UNCHANGED <<vars, items, held, posted, invoiced>>

(* The items are in the hands of a run that may post them, or posted. *)
Underway(o) ==
  erp[o] > 0 \/ \E j \in JobsOf(o) : run[j].pc \in {"loaded", "ready"}

(* save(): refused if the order was deleted or its items were replaced. *)
SaveEdit(e) ==
  LET o == edit[e].order IN
  /\ edit[e].pc = "checked"
  /\ IF o \in stored /\ items[o] = edit[e].items
       THEN /\ items' = [items EXCEPT ![o] = e]
            /\ editCauses' = IF Underway(o) THEN editCauses \cup {"late"} ELSE editCauses
       ELSE UNCHANGED <<items, editCauses>>
  /\ EditEnds(e)
  /\ UNCHANGED <<vars, held, posted, invoiced>>

(* A price is refused, a call fails, or the process dies. *)
DropEdit(e) ==
  /\ edit[e].pc \in {"looking", "checked"}
  /\ EditEnds(e)
  /\ UNCHANGED <<vars, items, held, posted, invoiced, editCauses>>

-----------------------------------------------------------------------------

EditStep ==
  \/ \E o \in Orders : \E id \in 1 .. erp[o] : Invoice(o, id)
  \/ \E e \in Edits : \/ \E o \in Orders : LoadEdit(e, o)
                      \/ LookUp(e) \/ SaveEdit(e) \/ DropEdit(e)

EditSpec == Init /\ EditInit /\ [][SyncStep \/ EditStep]_<<vars, editVars>>

-----------------------------------------------------------------------------
(* Properties *)

(* The shape of the state. *)
EditTypeOK ==
  /\ items \in [Orders -> Items]
  /\ held \in [Jobs -> Items]
  /\ posted \in [Orders -> Seq(Items)]
  /\ \A x \in DOMAIN invoiced : x \in Orders \X Nat /\ invoiced[x] \in Items
  /\ edit \in [Edits -> Edit]
  /\ editCauses \subseteq {"late", "invoiced", "unasked"}

(* The ERP order that a document is linked to has the document's items,    *)
(* whatever edits came before, between and after the attempts and retries, *)
(* unless an edit was saved while a run had the items in hand or after     *)
(* they had been posted: nothing sends them again.                         *)
ErpHasTheItems ==
  "late" \notin editCauses =>
    \A o \in stored :
      order[o].snelstartOrderId # 0 => posted[o][order[o].snelstartOrderId] = items[o]

(* updateOrder "Faturalanmis siparisler duzenlenemez": the items of an     *)
(* order whose ERP order is invoiced stay as they were then, unless the    *)
(* ERP could not be asked, or made the invoice while an edit was under way *)
(* or before the order was linked.                                         *)
InvoicedStays ==
  editCauses \cap {"invoiced", "unasked"} = {} =>
    \A o \in stored :
      IsInvoiced(o, order[o].snelstartOrderId)
        => items[o] = invoiced[<<o, order[o].snelstartOrderId>>]

(* A document and its ERP order part only by the ways the code leaves open *)
(* to updateOrder: ErpHasTheItems and InvoicedStays.                       *)
ItemsAgree == ErpHasTheItems /\ InvoicedStays

=============================================================================
