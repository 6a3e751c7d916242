------------------------------- MODULE Checkout -------------------------------
(***************************************************************************)
(* The cart page of the web client against POST /orders.  The cart lives   *)
(* in a store that outlives the page; the idempotency key and the flag     *)
(* that blocks a second submit live in refs of one mounted page, and are   *)
(* gone when the user leaves it.  A request may be answered, refused or    *)
(* cut off by a proxy at any time, and the API may save the order before   *)
(* or after the page has given up on it.                                   *)
(*                                                                         *)
(* createOrder is one step here: OrderSync models it in detail and shows   *)
(* that one key never leaves two orders.                                   *)
(***************************************************************************)
EXTENDS Naturals, FiniteSets

CONSTANTS
  Items,        \* the products a user may put into the cart, each once
  MaxRequests,  \* bound: POST /orders requests
  MaxVisits     \* bound: times the cart page is mounted

ASSUME BoundsAssumption == MaxRequests \in Nat /\ MaxVisits \in Nat

VARIABLES
  cart,      \* the items in the cart store
  added,     \* the items that were ever put into the cart
  removed,   \* the items that the user took out again
  page,      \* the mounted cart page: its visit number and its refs
  requests,  \* the requests that were sent, numbered from 1
  orders,    \* the orders the API saved
  causes     \* history: what happened that can harm an order (see Causes)

vars == <<cart, added, removed, page, requests, orders, causes>>

Numbers == 1 .. MaxRequests

(* key 0: submitIdempotencyKeyRef is null; visit counts the mounts. *)
Page == [open : BOOLEAN, visit : 0 .. MaxVisits, key : 0 .. MaxRequests,
         inFlight : BOOLEAN]

Request == [visit : 1 .. MaxVisits, key : Numbers, basket : SUBSET Items,
            server : {"travelling", "saved", "rejected"},
            client : {"waiting", "settled"}]

Order == [key : Numbers, basket : SUBSET Items]

(* The page saw an error although the API saved the order or still may     *)
(* (lostReply); a submit while a request of an earlier visit was not       *)
(* settled (revisit); a 503, 504 or ECONNABORTED (gateway); an item put    *)
(* into the cart while its basket was on its way (addedInFlight).          *)
Causes == {"lostReply", "revisit", "gateway", "addedInFlight"}

Sent == Cardinality(DOMAIN requests)

Waiting == {n \in DOMAIN requests : requests[n].client = "waiting"}

KeysUsed == {requests[n].key : n \in DOMAIN requests}

Init ==
  /\ cart     = {}
  /\ added    = {}
  /\ removed  = {}
  /\ page     = [open |-> FALSE, visit |-> 0, key |-> 0, inFlight |-> FALSE]
  /\ requests = [n \in {} |-> 0]
  /\ orders   = {}
  /\ causes   = {}

-----------------------------------------------------------------------------
(* The cart store and the page *)

AddItem(x) ==
  /\ x \notin added
  /\ cart'  = cart \cup {x}
  /\ added' = added \cup {x}
  /\ UNCHANGED <<removed, page, requests, orders, causes>>

RemoveItem(x) ==
  /\ x \in cart
  /\ cart'    = cart \ {x}
  /\ removed' = removed \cup {x}
  /\ UNCHANGED <<added, page, requests, orders, causes>>

(* A mount starts with fresh refs. *)
OpenPage ==
  /\ ~page.open
  /\ page.visit < MaxVisits
  /\ page' = [open |-> TRUE, visit |-> page.visit + 1, key |-> 0,
              inFlight |-> FALSE]
  /\ UNCHANGED <<cart, added, removed, requests, orders, causes>>

LeavePage ==
  /\ page.open
  /\ page' = [page EXCEPT !.open = FALSE]
  /\ UNCHANGED <<cart, added, removed, requests, orders, causes>>

(* Mutant: the ref is read before anything filled it. *)
SubmitKeyUnset == page.key

(* getSubmitIdempotencyKey: the key in the ref, or else a fresh one. *)
SubmitKey ==
  IF page.key # 0 THEN page.key
                  ELSE CHOOSE k \in Numbers : k \notin KeysUsed

(* handleCreateOrder and mutationFn; an empty cart shows no submit button. *)
Submit ==
  /\ page.open
  /\ ~page.inFlight
  /\ cart # {}
  /\ Sent < MaxRequests
  /\ requests' = [n \in DOMAIN requests \cup {Sent + 1} |->
                    IF n \in DOMAIN requests
                      THEN requests[n]
                      ELSE [visit  |-> page.visit, key |-> SubmitKey,
                            basket |-> cart, server |-> "travelling",
                            client |-> "waiting"]]
  /\ page'   = [page EXCEPT !.key = SubmitKey, !.inFlight = TRUE]
  /\ causes' = IF Waiting # {} THEN causes \cup {"revisit"} ELSE causes
  /\ UNCHANGED <<cart, added, removed, orders>>

-----------------------------------------------------------------------------
(* The API *)

(* createOrder: the first request of a key saves, a later one is answered  *)
(* with the order that is there.                                           *)
Save(n) ==
  LET r == requests[n] IN
  /\ r.server = "travelling"
  /\ requests' = [requests EXCEPT ![n].server = "saved"]
  /\ orders' = IF \E o \in orders : o.key = r.key
                 THEN orders
                 ELSE orders \cup {[key |-> r.key, basket |-> r.basket]}
  /\ UNCHANGED <<cart, added, removed, page, causes>>

(* A validation, a price check or an access check fails before the save. *)
Reject(n) ==
  /\ requests[n].server = "travelling"
  /\ requests' = [requests EXCEPT ![n].server = "rejected"]
  /\ UNCHANGED <<cart, added, removed, page, orders, causes>>

-----------------------------------------------------------------------------
(* The callbacks of the mutation: they run even if the page is unmounted,  *)
(* but reset only the refs of the page that sent the request.              *)

(* resetSubmitIdempotencyKey and onSettled. *)
ResetRefs(n, p) ==
  IF requests[n].visit = p.visit
    THEN [p EXCEPT !.key = 0, !.inFlight = FALSE]
    ELSE p

SettleRequest(n) ==
  /\ requests[n].client = "waiting"
  /\ requests' = [requests EXCEPT ![n].client = "settled"]

(* Mutant: success leaves the cart as it is. *)
OnSuccessKeepsCart(n) ==
  /\ requests[n].server = "saved"
  /\ SettleRequest(n)
  /\ page' = [ResetRefs(n, page) EXCEPT !.open = FALSE]
  /\ UNCHANGED <<cart, added, removed, orders, causes>>

(* onSuccess: clear() empties the whole cart, whatever the basket was. *)
OnSuccess(n) ==
  /\ requests[n].server = "saved"
  /\ SettleRequest(n)
  /\ page'   = [ResetRefs(n, page) EXCEPT !.open = FALSE]
  /\ cart'   = {}
  /\ causes' = IF cart \subseteq requests[n].basket
                 THEN causes ELSE causes \cup {"addedInFlight"}
  /\ UNCHANGED <<added, removed, orders>>

(* onError, 503, 504 or ECONNABORTED: shown as a success. *)
OnGatewayError(n) ==
  /\ SettleRequest(n)
  /\ page'   = [ResetRefs(n, page) EXCEPT !.open = FALSE]
  /\ cart'   = {}
  /\ causes' = causes \cup {"gateway"}
  /\ UNCHANGED <<added, removed, orders>>

(* Mutant: every error clears the cart. *)
OnErrorClears(n) ==
  /\ SettleRequest(n)
  /\ page'   = ResetRefs(n, page)
  /\ cart'   = {}
  /\ causes' = IF requests[n].server = "rejected"
                 THEN causes ELSE causes \cup {"lostReply"}
  /\ UNCHANGED <<added, removed, orders>>

(* onError otherwise: the cart stays, and the next submit has a new key. *)
OnError(n) ==
  /\ SettleRequest(n)
  /\ page'   = ResetRefs(n, page)
  /\ causes' = IF requests[n].server = "rejected"
                 THEN causes ELSE causes \cup {"lostReply"}
  /\ UNCHANGED <<cart, added, removed, orders>>

-----------------------------------------------------------------------------

Api(n)    == Save(n) \/ Reject(n)
Settle(n) == OnSuccess(n) \/ OnGatewayError(n) \/ OnError(n)

Next ==
  \/ \E x \in Items : AddItem(x) \/ RemoveItem(x)
  \/ OpenPage \/ LeavePage \/ Submit
  \/ \E n \in DOMAIN requests : Api(n) \/ Settle(n)

Spec == Init /\ [][Next]_vars

-----------------------------------------------------------------------------
(* Properties *)

(* The shape of the state. *)
TypeOK ==
  /\ cart \subseteq Items /\ added \subseteq Items /\ removed \subseteq Items
  /\ page \in Page
  /\ \E n \in 0 .. MaxRequests : requests \in [1 .. n -> Request]
  /\ orders \subseteq Order
  /\ causes \subseteq Causes

(* Two orders that share an item: the user meant it once. *)
Duplicated == \E o, p \in orders : o # p /\ o.basket \cap p.basket # {}

(* The cart is ordered twice only after an answer that the page took for a *)
(* failure, or a submit from a page that was mounted again in flight: the  *)
(* double click, the refusal and the proxy timeout are guarded against.    *)
DuplicateNeedsCause == Duplicated => causes \cap {"lostReply", "revisit"} # {}

(* What was put into the cart is still there, or in an order, or was taken *)
(* out by the user, unless the page cleared the cart on a proxy timeout or *)
(* together with items added while the basket was on its way.              *)
NothingVanishes ==
  causes \cap {"gateway", "addedInFlight"} = {}
    => added \subseteq cart \cup removed \cup UNION {o.basket : o \in orders}

(* README.md:66 "UUID keys prevent duplicate orders on client retry": when *)
(* nothing happened but a lost reply, the retry does not order twice.      *)
RetryNeverDuplicates == causes \subseteq {"lostReply"} => ~Duplicated

=============================================================================
