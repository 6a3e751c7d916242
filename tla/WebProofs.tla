------------------------------ MODULE WebProofs ------------------------------
(***************************************************************************)
(* Proofs about the web client: that a checkout loses no order and repeats *)
(* none without a cause, that the lines of parts follow the products of a  *)
(* cart and that no cart takes over another's lines, that a user is told   *)
(* once, and truly, what became of an order, that the pictures shown are   *)
(* those that are listed, and that the whole of MCWeb is these parts and   *)
(* keeps their types.                                                      *)
(***************************************************************************)
EXTENDS MCWeb, TLAPS, FiniteSetTheorems, WellFoundedInduction

-----------------------------------------------------------------------------
(* The checkout: shapes and fresh keys *)

(* The requests are numbered from 1 to Sent. *)
LEMMA SentFacts ==
  ASSUME TypeOK
  PROVE  /\ Sent \in 0 .. MaxRequests
         /\ requests \in [1 .. Sent -> Request]
         /\ DOMAIN requests = 1 .. Sent
<1>1. PICK n \in 0 .. MaxRequests : requests \in [1 .. n -> Request]
  BY DEF TypeOK
<1>2. n \in Nat /\ DOMAIN requests = 1 .. n
  BY <1>1, BoundsAssumption
<1>3. Cardinality(1 .. n) = n
  BY <1>2, FS_Interval
<1> QED
  BY <1>1, <1>2, <1>3 DEF Sent

(* What is in a request. *)
LEMMA RequestFacts ==
  ASSUME TypeOK, NEW n \in DOMAIN requests
  PROVE  /\ requests[n] \in Request
         /\ requests[n].visit \in 1 .. MaxVisits
         /\ requests[n].key \in Numbers
         /\ requests[n].basket \subseteq Items
         /\ requests[n].server \in {"travelling", "saved", "rejected"}
         /\ requests[n].client \in {"waiting", "settled"}
<1>1. requests[n] \in Request
  BY SentFacts
<1> QED
  BY <1>1 DEF Request

(* While fewer requests were sent than may be, a key is left. *)
LEMMA KeyIsLeft ==
  ASSUME TypeOK, Sent < MaxRequests
  PROVE  \E k \in Numbers : k \notin KeysUsed
<1> SUFFICES ASSUME Numbers \subseteq KeysUsed
             PROVE  FALSE
  OBVIOUS
<1> DEFINE f == [n \in 1 .. Sent |-> requests[n].key]
<1>0. /\ Sent \in Nat /\ MaxRequests \in Nat
      /\ DOMAIN requests = 1 .. Sent
  BY SentFacts, BoundsAssumption
<1>1. KeysUsed = Numbers
  BY RequestFacts DEF KeysUsed
<1>2. f \in Surjection(1 .. Sent, Numbers)
  <2>1. f \in [1 .. Sent -> Numbers]
    BY <1>0, RequestFacts
  <2>2. \A k \in Numbers : \E n \in 1 .. Sent : f[n] = k
    BY <1>0, <1>1 DEF KeysUsed
  <2> QED
    BY <2>1, <2>2 DEF Surjection
<1>3. IsFiniteSet(1 .. Sent) /\ Cardinality(1 .. Sent) = Sent
  BY <1>0, FS_Interval
<1>4. Cardinality(Numbers) = MaxRequests
  BY <1>0, FS_Interval DEF Numbers
<1>5. Cardinality(Numbers) <= Cardinality(1 .. Sent)
  BY <1>2, <1>3, FS_Surjection
<1> QED
  BY <1>0, <1>3, <1>4, <1>5

(* A page with no request in flight keeps no key. *)
KeyWithRequest == ~page.inFlight => page.key = 0

(* So every submit draws a key that no request has. *)
LEMMA FreshKey ==
  ASSUME TypeOK, KeyWithRequest, ~page.inFlight, Sent < MaxRequests
  PROVE  SubmitKey \in Numbers \ KeysUsed
<1>1. SubmitKey = CHOOSE k \in Numbers : k \notin KeysUsed
  BY DEF SubmitKey, KeyWithRequest
<1>2. \E k \in Numbers : k \notin KeysUsed
  BY KeyIsLeft
<1> QED
  BY <1>1, <1>2

-----------------------------------------------------------------------------
(* The checkout: what the steps do *)

(* The new request of a submit. *)
NewRequest == [visit |-> page.visit, key |-> SubmitKey, basket |-> cart,
               server |-> "travelling", client |-> "waiting"]

(* A submit appends one request with a fresh key. *)
LEMMA SubmitMeans ==
  ASSUME TypeOK, KeyWithRequest, page.open => page.visit # 0, Submit
  PROVE  /\ Sent + 1 \in 1 .. MaxRequests
         /\ Sent + 1 \notin DOMAIN requests
         /\ DOMAIN requests' = DOMAIN requests \cup {Sent + 1}
         /\ \A n \in DOMAIN requests : requests'[n] = requests[n]
         /\ requests'[Sent + 1] = NewRequest
         /\ NewRequest \in Request
         /\ NewRequest.key \notin KeysUsed
         /\ requests' \in [1 .. Sent + 1 -> Request]
<1>0. Sent \in Nat /\ MaxRequests \in Nat /\ DOMAIN requests = 1 .. Sent
  BY SentFacts, BoundsAssumption
<1>1. SubmitKey \in Numbers \ KeysUsed
  BY FreshKey DEF Submit
<1>2. page.visit \in 1 .. MaxVisits /\ cart \subseteq Items
  BY BoundsAssumption DEF TypeOK, Page, Submit
<1>3. NewRequest \in Request
  BY <1>1, <1>2 DEF NewRequest, Request
<1>4. /\ Sent + 1 \in 1 .. MaxRequests
      /\ Sent + 1 \notin DOMAIN requests
      /\ 1 .. Sent + 1 = DOMAIN requests \cup {Sent + 1}
  BY <1>0 DEF Submit
<1>5. /\ DOMAIN requests' = DOMAIN requests \cup {Sent + 1}
      /\ \A n \in DOMAIN requests : requests'[n] = requests[n]
      /\ requests'[Sent + 1] = NewRequest
  BY <1>4 DEF Submit, NewRequest
<1>6. requests' = [n \in 1 .. Sent + 1 |-> requests'[n]]
  BY <1>4 DEF Submit
<1>7. \A n \in 1 .. Sent + 1 : requests'[n] \in Request
  BY <1>3, <1>4, <1>5, RequestFacts
<1>8. requests' \in [1 .. Sent + 1 -> Request]
  BY <1>6, <1>7
<1> QED
  BY <1>1, <1>3, <1>4, <1>5, <1>8 DEF NewRequest

(* The API and the callbacks change one request's state, not its order. *)
LEMMA ServeMeans ==
  ASSUME TypeOK, NEW n \in DOMAIN requests, Api(n) \/ Settle(n)
  PROVE  /\ requests' \in [1 .. Sent -> Request]
         /\ DOMAIN requests' = DOMAIN requests
         /\ \A m \in DOMAIN requests \ {n} : requests'[m] = requests[m]
         /\ \A m \in DOMAIN requests : /\ requests'[m].key = requests[m].key
                                       /\ requests'[m].basket = requests[m].basket
         /\ Api(n) => requests'[n].client = requests[n].client
         /\ Settle(n) => /\ requests'[n].client = "settled"
                         /\ requests'[n].server = requests[n].server
                         /\ requests[n].client = "waiting"
<1>0. requests \in [1 .. Sent -> Request] /\ requests[n] \in Request
      /\ DOMAIN requests = 1 .. Sent
  BY SentFacts
<1>1. CASE Save(n)
  <2>1. requests' = [requests EXCEPT ![n] = [requests[n] EXCEPT !.server = "saved"]]
    BY <1>1 DEF Save
  <2>2. [requests[n] EXCEPT !.server = "saved"] \in Request
    BY <1>0 DEF Request
  <2> QED
    BY <1>0, <1>1, <2>1, <2>2 DEF Request, Settle, OnSuccess, OnGatewayError, OnError, SettleRequest, Save
<1>2. CASE Reject(n)
  <2>1. requests' = [requests EXCEPT ![n] = [requests[n] EXCEPT !.server = "rejected"]]
    BY <1>2 DEF Reject
  <2>2. [requests[n] EXCEPT !.server = "rejected"] \in Request
    BY <1>0 DEF Request
  <2> QED
    BY <1>0, <1>2, <2>1, <2>2 DEF Request, Settle, OnSuccess, OnGatewayError, OnError, SettleRequest, Reject
<1>3. CASE Settle(n)
  <2>1. /\ requests' = [requests EXCEPT ![n] = [requests[n] EXCEPT !.client = "settled"]]
        /\ requests[n].client = "waiting"
    BY <1>3 DEF Settle, OnSuccess, OnGatewayError, OnError, SettleRequest
  <2>2. [requests[n] EXCEPT !.client = "settled"] \in Request
    BY <1>0 DEF Request
  <2> QED
    BY <1>0, <2>1, <2>2 DEF Request, Api, Save, Reject
<1> QED
  BY <1>1, <1>2, <1>3 DEF Api

-----------------------------------------------------------------------------
(* The checkout: every saved request has its order *)

(* An open page has been mounted, and an idle one has no key. *)
PageSane == (page.open => page.visit # 0) /\ KeyWithRequest

(* No two requests have the same key. *)
OwnKey == \A m, n \in DOMAIN requests : requests[m].key = requests[n].key => m = n

OrderOf(n) == [key |-> requests[n].key, basket |-> requests[n].basket]

(* The orders are those of the saved requests. *)
OrdersOfSaved == orders = {OrderOf(n) : n \in {m \in DOMAIN requests :
                                                 requests[m].server = "saved"}}

(* What was put in is there, taken out or ordered; see NothingVanishes. *)
AddedAccounted ==
  causes \cap {"gateway", "addedInFlight"} = {}
    => \A x \in added : \/ x \in cart \cup removed
                        \/ \E n \in DOMAIN requests :
                             requests[n].server = "saved" /\ x \in requests[n].basket

CheckoutInv == TypeOK /\ PageSane /\ OwnKey /\ OrdersOfSaved /\ AddedAccounted

(* The first state. *)
LEMMA InitCheckout == Init => CheckoutInv
<1> SUFFICES ASSUME Init
             PROVE  CheckoutInv
  OBVIOUS
<1>1. requests \in [1 .. 0 -> Request] /\ 0 \in 0 .. MaxRequests
  BY BoundsAssumption DEF Init
<1>2. page \in Page
  BY BoundsAssumption DEF Init, Page
<1>3. TypeOK
  BY <1>1, <1>2 DEF Init, TypeOK
<1> QED
  BY <1>3 DEF Init, CheckoutInv, PageSane, KeyWithRequest, OwnKey, OrdersOfSaved, AddedAccounted

(* The page stays a page, whatever its requests do. *)
LEMMA PageStays ==
  ASSUME TypeOK, PageSane, Next
  PROVE  page' \in Page /\ PageSane'
<1>0. /\ page \in Page /\ (page.open => page.visit # 0) /\ (~page.inFlight => page.key = 0)
      /\ MaxVisits \in Nat /\ MaxRequests \in Nat
  BY BoundsAssumption DEF TypeOK, PageSane, KeyWithRequest
<1>1. CASE UNCHANGED page
  BY <1>0, <1>1 DEF PageSane, KeyWithRequest
<1>2. CASE OpenPage
  BY <1>0, <1>2 DEF OpenPage, Page, PageSane, KeyWithRequest
<1>3. CASE LeavePage
  BY <1>0, <1>3 DEF LeavePage, Page, PageSane, KeyWithRequest
<1>4. CASE Submit
  <2>1. SubmitKey \in 0 .. MaxRequests
    <3>1. SubmitKey \in Numbers
      BY <1>0, <1>4, FreshKey DEF Submit, KeyWithRequest
    <3> QED
      BY <1>0, <3>1 DEF Numbers
  <2>2. page' = [page EXCEPT !.key = SubmitKey, !.inFlight = TRUE]
    BY <1>4 DEF Submit
  <2> QED
    BY <1>0, <2>1, <2>2 DEF Page, PageSane, KeyWithRequest
<1>5. ASSUME NEW n \in DOMAIN requests, Settle(n)
      PROVE  page' \in Page /\ PageSane'
  <2>1. /\ ResetRefs(n, page) \in Page
        /\ ResetRefs(n, page).open = page.open
        /\ ResetRefs(n, page).visit = page.visit
        /\ ~ResetRefs(n, page).inFlight => ResetRefs(n, page).key = 0
    <3>1. 0 \in 0 .. MaxRequests
      BY <1>0
    <3> QED
      BY <1>0, <3>1 DEF ResetRefs, Page
  <2>2. page' \in {ResetRefs(n, page), [ResetRefs(n, page) EXCEPT !.open = FALSE]}
    BY <1>5 DEF Settle, OnSuccess, OnGatewayError, OnError
  <2> QED
    BY <1>0, <2>1, <2>2 DEF Page, PageSane, KeyWithRequest
<1> QED
  BY <1>1, <1>2, <1>3, <1>4, <1>5 DEF Next, AddItem, RemoveItem, Api, Save, Reject

(* The shape of the state stays. *)
LEMMA CheckoutTypeStays ==
  ASSUME TypeOK, PageSane, Next
  PROVE  TypeOK'
<1>0. /\ TypeOK /\ page' \in Page /\ Sent \in 0 .. MaxRequests
      /\ requests \in [1 .. Sent -> Request] /\ MaxRequests \in Nat
      /\ cart \subseteq Items /\ added \subseteq Items /\ removed \subseteq Items
      /\ orders \subseteq Order /\ causes \subseteq Causes
  BY PageStays, SentFacts, BoundsAssumption DEF TypeOK
<1>1. ASSUME NEW x \in Items, AddItem(x) \/ RemoveItem(x)
      PROVE  TypeOK'
  BY <1>0, <1>1 DEF TypeOK, AddItem, RemoveItem
<1>2. CASE OpenPage \/ LeavePage
  BY <1>0, <1>2 DEF TypeOK, OpenPage, LeavePage
<1>3. CASE Submit
  <2>1. requests' \in [1 .. Sent + 1 -> Request] /\ Sent + 1 \in 0 .. MaxRequests
    BY <1>0, <1>3, SubmitMeans DEF PageSane
  <2>2. causes' \subseteq Causes
    BY <1>0, <1>3 DEF Submit, Causes
  <2>3. UNCHANGED <<cart, added, removed, orders>>
    BY <1>3 DEF Submit
  <2> QED
    BY <1>0, <2>1, <2>2, <2>3 DEF TypeOK
<1>4. ASSUME NEW n \in DOMAIN requests, Api(n) \/ Settle(n)
      PROVE  TypeOK'
  <2>1. requests' \in [1 .. Sent -> Request]
    BY <1>4, ServeMeans
  <2>2. causes' \subseteq Causes /\ cart' \subseteq Items /\ UNCHANGED <<added, removed>>
    BY <1>0, <1>4 DEF Api, Save, Reject, Settle, OnSuccess, OnGatewayError, OnError, Causes
  <2>3. orders' \subseteq Order
    <3>1. OrderOf(n) \in Order
      BY RequestFacts DEF OrderOf, Order
    <3> QED
      BY <1>0, <1>4, <3>1 DEF Api, Save, Reject, Settle, OnSuccess, OnGatewayError, OnError, OrderOf
  <2> QED
    BY <1>0, <2>1, <2>2, <2>3 DEF TypeOK
<1> QED
  BY <1>1, <1>2, <1>3, <1>4 DEF Next

(* The rest of the invariant, for the steps that leave the requests. *)
LEMMA CartSteps ==
  ASSUME CheckoutInv, UNCHANGED <<requests, orders, causes>>,
         \/ UNCHANGED <<cart, added, removed>>
         \/ \E x \in Items : AddItem(x) \/ RemoveItem(x)
  PROVE  OwnKey' /\ OrdersOfSaved' /\ AddedAccounted'
<1>1. OwnKey' /\ OrdersOfSaved'
  BY DEF CheckoutInv, OwnKey, OrdersOfSaved, OrderOf
<1>2. /\ \A x \in added' : x \in added \/ x \in cart' \cup removed'
      /\ cart \cup removed \subseteq cart' \cup removed'
  BY DEF AddItem, RemoveItem
<1>3. AddedAccounted'
  BY <1>2 DEF CheckoutInv, AddedAccounted
<1> QED
  BY <1>1, <1>3

(* For a submit. *)
LEMMA SubmitSteps ==
  ASSUME CheckoutInv, Submit
  PROVE  OwnKey' /\ OrdersOfSaved' /\ AddedAccounted'
<1>0. /\ TypeOK /\ KeyWithRequest /\ (page.open => page.visit # 0)
      /\ OwnKey /\ OrdersOfSaved /\ AddedAccounted
  BY DEF CheckoutInv, PageSane
<1>1. /\ Sent + 1 \notin DOMAIN requests
      /\ DOMAIN requests' = DOMAIN requests \cup {Sent + 1}
      /\ \A n \in DOMAIN requests : requests'[n] = requests[n]
      /\ requests'[Sent + 1] = NewRequest
      /\ NewRequest.key \notin KeysUsed
  BY <1>0, SubmitMeans
<1>2. NewRequest.server = "travelling"
  BY DEF NewRequest
<1>3. /\ UNCHANGED <<cart, added, removed, orders>>
      /\ causes \subseteq causes'
  BY DEF Submit
<1>4. OwnKey'
  <2> SUFFICES ASSUME NEW m \in DOMAIN requests', NEW n \in DOMAIN requests',
                      requests'[m].key = requests'[n].key
               PROVE  m = n
    BY DEF OwnKey
  <2>1. \A i \in DOMAIN requests : requests[i].key # NewRequest.key
    BY <1>1 DEF KeysUsed
  <2> QED
    BY <1>0, <1>1, <2>1 DEF OwnKey
<1>5. OrdersOfSaved'
  <2>1. {m \in DOMAIN requests' : requests'[m].server = "saved"}
          = {m \in DOMAIN requests : requests[m].server = "saved"}
    BY <1>1, <1>2
  <2>2. \A m \in DOMAIN requests : OrderOf(m)' = OrderOf(m)
    BY <1>1 DEF OrderOf
  <2> QED
    BY <1>0, <1>3, <2>1, <2>2 DEF OrdersOfSaved
<1>6. AddedAccounted'
  BY <1>0, <1>1, <1>3 DEF AddedAccounted
<1> QED
  BY <1>4, <1>5, <1>6

(* For the API and the callbacks. *)
LEMMA ServeSteps ==
  ASSUME CheckoutInv, NEW n \in DOMAIN requests, Api(n) \/ Settle(n)
  PROVE  OwnKey' /\ OrdersOfSaved' /\ AddedAccounted'
<1>0. TypeOK /\ OwnKey /\ OrdersOfSaved /\ AddedAccounted
  BY DEF CheckoutInv
<1>1. /\ DOMAIN requests' = DOMAIN requests
      /\ \A m \in DOMAIN requests \ {n} : requests'[m] = requests[m]
      /\ \A m \in DOMAIN requests : /\ requests'[m].key = requests[m].key
                                    /\ requests'[m].basket = requests[m].basket
      /\ Settle(n) => requests'[n].server = requests[n].server
  BY <1>0, ServeMeans
<1>2. \A m \in DOMAIN requests : OrderOf(m)' = OrderOf(m)
  BY <1>1 DEF OrderOf
<1>3. OwnKey'
  BY <1>0, <1>1 DEF OwnKey
<1>4. CASE Save(n)
  <2>1. requests[n].server = "travelling" /\ requests'[n].server = "saved"
    BY <1>0, <1>4, SentFacts DEF Save, Request
  <2>2. \A o \in orders : o.key # requests[n].key
    BY <1>0, <2>1 DEF OrdersOfSaved, OwnKey, OrderOf
  <2>3. orders' = orders \cup {OrderOf(n)}
    BY <1>4, <2>2 DEF Save, OrderOf
  <2>4. {m \in DOMAIN requests' : requests'[m].server = "saved"}
          = {m \in DOMAIN requests : requests[m].server = "saved"} \cup {n}
    BY <1>1, <2>1
  <2>5. OrdersOfSaved'
    BY <1>0, <1>2, <2>3, <2>4 DEF OrdersOfSaved
  <2>6. \A m \in DOMAIN requests : requests[m].server = "saved" => requests'[m].server = "saved"
    BY <1>1, <2>1
  <2>7. UNCHANGED <<cart, added, removed, causes>>
    BY <1>4 DEF Save
  <2>8. AddedAccounted'
    BY <1>0, <1>1, <2>6, <2>7 DEF AddedAccounted
  <2> QED
    BY <1>3, <2>5, <2>8
<1>5. CASE Reject(n)
  <2>1. requests[n].server = "travelling" /\ requests'[n].server = "rejected"
    BY <1>0, <1>5, SentFacts DEF Reject, Request
  <2>2. {m \in DOMAIN requests' : requests'[m].server = "saved"}
          = {m \in DOMAIN requests : requests[m].server = "saved"}
    BY <1>1, <2>1
  <2>3. UNCHANGED <<cart, added, removed, orders, causes>>
    BY <1>5 DEF Reject
  <2>4. OrdersOfSaved'
    BY <1>0, <1>2, <2>2, <2>3 DEF OrdersOfSaved
  <2>5. \A m \in DOMAIN requests : requests[m].server = "saved" => requests'[m].server = "saved"
    BY <1>1, <2>1
  <2>6. AddedAccounted'
    BY <1>0, <1>1, <2>3, <2>5 DEF AddedAccounted
  <2> QED
    BY <1>3, <2>4, <2>6
<1>6. CASE Settle(n)
  <2>1. \A m \in DOMAIN requests : requests'[m].server = requests[m].server
    BY <1>1, <1>6
  <2>2. UNCHANGED <<added, removed, orders>> /\ causes \subseteq causes'
    BY <1>6 DEF Settle, OnSuccess, OnGatewayError, OnError
  <2>3. OrdersOfSaved'
    <3>1. {m \in DOMAIN requests' : requests'[m].server = "saved"}
            = {m \in DOMAIN requests : requests[m].server = "saved"}
      BY <1>1, <2>1
    <3> QED
      BY <1>0, <1>2, <2>2, <3>1 DEF OrdersOfSaved
  <2>4. \/ cart' = cart
        \/ "gateway" \in causes'
        \/ "addedInFlight" \in causes'
        \/ requests[n].server = "saved" /\ cart \subseteq requests[n].basket
    BY <1>6 DEF Settle, OnSuccess, OnGatewayError, OnError
  <2>5. AddedAccounted'
    BY <1>0, <1>1, <2>1, <2>2, <2>4 DEF AddedAccounted
  <2> QED
    BY <1>3, <2>3, <2>5
<1> QED
  BY <1>4, <1>5, <1>6 DEF Api

(* Every step keeps the invariant. *)
LEMMA NextCheckout == CheckoutInv /\ [Next]_vars => CheckoutInv'
<1> SUFFICES ASSUME CheckoutInv, [Next]_vars
             PROVE  CheckoutInv'
  OBVIOUS
<1>1. CASE UNCHANGED vars
  BY <1>1 DEF vars, CheckoutInv, TypeOK, PageSane, KeyWithRequest, OwnKey, OrdersOfSaved,
     OrderOf, AddedAccounted
<1>2. CASE Next
  <2>1. TypeOK' /\ PageSane'
    BY <1>2, PageStays, CheckoutTypeStays DEF CheckoutInv
  <2>2. OwnKey' /\ OrdersOfSaved' /\ AddedAccounted'
    BY <1>2, CartSteps, SubmitSteps, ServeSteps
       DEF Next, AddItem, RemoveItem, OpenPage, LeavePage
  <2> QED
    BY <2>1, <2>2 DEF CheckoutInv
<1> QED
  BY <1>1, <1>2

(* The shape of the checkout's state. *)
THEOREM CheckoutTypeCorrect == Spec => []TypeOK
  BY InitCheckout, NextCheckout, PTL DEF Spec, CheckoutInv

(* CartPage.tsx and orders.service.ts: nothing that was put into the cart  *)
(* disappears without an order or the user's doing, the two known losses   *)
(* excepted.                                                               *)
THEOREM NothingIsLost == Spec => []NothingVanishes
<1>1. CheckoutInv => NothingVanishes
  <2> SUFFICES ASSUME CheckoutInv, causes \cap {"gateway", "addedInFlight"} = {},
                      NEW x \in added, x \notin cart \cup removed
               PROVE  \E o \in orders : x \in o.basket
    BY DEF NothingVanishes
  <2>1. PICK n \in DOMAIN requests : requests[n].server = "saved" /\ x \in requests[n].basket
    BY DEF CheckoutInv, AddedAccounted
  <2>2. OrderOf(n) \in orders /\ OrderOf(n).basket = requests[n].basket
    BY <2>1 DEF CheckoutInv, OrdersOfSaved, OrderOf
  <2> QED
    BY <2>1, <2>2
<1> QED
  BY <1>1, InitCheckout, NextCheckout, PTL DEF Spec

-----------------------------------------------------------------------------
(* The checkout: what is ordered twice *)

(* Neither an order the page took for a failure nor a second submit in     *)
(* flight.                                                                 *)
NoRetry == causes \cap {"lostReply", "revisit"} = {}

(* One request at a time; what a settled one ordered is not in the cart.   *)
OneWaiting == \A m, n \in Waiting : m = n

OutOfCart ==
  \A n \in DOMAIN requests : \/ requests[n].client = "waiting"
                             \/ requests[n].server = "rejected"
                             \/ requests[n].basket \cap cart = {}

(* Two requests that may both become orders ask for different items. *)
BasketsApart ==
  \A m, n \in DOMAIN requests : \/ m = n
                                \/ requests[m].server = "rejected"
                                \/ requests[n].server = "rejected"
                                \/ requests[m].basket \cap requests[n].basket = {}

(* And an item that was in a basket was put into the cart before. *)
BasketsAdded == cart \subseteq added /\ \A n \in DOMAIN requests : requests[n].basket \subseteq added

OrderedOnce == BasketsAdded /\ (NoRetry => OneWaiting /\ OutOfCart /\ BasketsApart)

(* A submit keeps it. *)
LEMMA SubmitOnce ==
  ASSUME CheckoutInv, OrderedOnce, Submit
  PROVE  OrderedOnce'
<1>1. /\ Sent + 1 \notin DOMAIN requests
      /\ DOMAIN requests' = DOMAIN requests \cup {Sent + 1}
      /\ \A n \in DOMAIN requests : requests'[n] = requests[n]
      /\ requests'[Sent + 1] = NewRequest
  BY SubmitMeans DEF CheckoutInv, PageSane
<1>2. NewRequest.basket = cart /\ NewRequest.client = "waiting"
  BY DEF NewRequest
<1>3. UNCHANGED <<cart, added>> /\ causes \subseteq causes'
  BY DEF Submit
<1>4. BasketsAdded'
  BY <1>1, <1>2, <1>3 DEF OrderedOnce, BasketsAdded
<1>5. ASSUME NoRetry'
      PROVE  OneWaiting' /\ OutOfCart' /\ BasketsApart'
  <2>1. OneWaiting /\ OutOfCart /\ BasketsApart /\ Waiting = {}
    BY <1>3, <1>5 DEF OrderedOnce, NoRetry, Submit
  <2>2. \A n \in DOMAIN requests : requests[n].client # "waiting"
    BY <2>1 DEF Waiting
  <2>3. OneWaiting'
    BY <1>1, <2>2 DEF OneWaiting, Waiting
  <2>4. OutOfCart'
    BY <1>1, <1>2, <1>3, <2>1 DEF OutOfCart
  <2>5. BasketsApart'
    BY <1>1, <1>2, <2>1, <2>2 DEF BasketsApart, OutOfCart
  <2> QED
    BY <2>3, <2>4, <2>5
<1> QED
  BY <1>4, <1>5 DEF OrderedOnce

(* The API and the callbacks keep it. *)
LEMMA ServeOnce ==
  ASSUME CheckoutInv, OrderedOnce, NEW n \in DOMAIN requests, Api(n) \/ Settle(n)
  PROVE  OrderedOnce'
<1>1. /\ DOMAIN requests' = DOMAIN requests
      /\ \A m \in DOMAIN requests \ {n} : requests'[m] = requests[m]
      /\ \A m \in DOMAIN requests : requests'[m].basket = requests[m].basket
      /\ Api(n) => requests'[n].client = requests[n].client
      /\ Settle(n) => /\ requests'[n].client = "settled"
                      /\ requests'[n].server = requests[n].server
  BY ServeMeans DEF CheckoutInv
<1>2. Api(n) => requests[n].server = "travelling"
  BY DEF Api, Save, Reject
<1>3. UNCHANGED added /\ causes \subseteq causes' /\ cart' \subseteq cart
  BY DEF Api, Save, Reject, Settle, OnSuccess, OnGatewayError, OnError
<1>4. BasketsAdded'
  BY <1>1, <1>3 DEF OrderedOnce, BasketsAdded
<1>5. ASSUME NoRetry'
      PROVE  OneWaiting' /\ OutOfCart' /\ BasketsApart'
  <2>1. OneWaiting /\ OutOfCart /\ BasketsApart
    BY <1>3, <1>5 DEF OrderedOnce, NoRetry
  <2>2. Settle(n) => requests[n].server = "rejected" \/ cart' = {}
    BY <1>5 DEF NoRetry, Settle, OnSuccess, OnGatewayError, OnError
  <2>3. OneWaiting'
    BY <1>1, <2>1 DEF OneWaiting, Waiting
  <2>4. OutOfCart'
    BY <1>1, <1>2, <1>3, <2>1, <2>2 DEF OutOfCart
  <2>5. BasketsApart'
    BY <1>1, <1>2, <2>1 DEF BasketsApart
  <2> QED
    BY <2>3, <2>4, <2>5
<1> QED
  BY <1>4, <1>5 DEF OrderedOnce

(* CartPage.tsx: one key per submit and an empty cart after a success keep *)
(* an item from being ordered twice, unless a reply was lost or the page   *)
(* was opened again in flight.                                             *)
THEOREM OrderedTwiceOnlyAfter == Spec => []DuplicateNeedsCause
<1>1. Init => OrderedOnce
  BY DEF Init, OrderedOnce, BasketsAdded, OneWaiting, Waiting, OutOfCart, BasketsApart
<1>2. CheckoutInv /\ OrderedOnce /\ [Next]_vars => OrderedOnce'
  <2> SUFFICES ASSUME CheckoutInv, OrderedOnce, [Next]_vars
               PROVE  OrderedOnce'
    OBVIOUS
  <2>1. CASE UNCHANGED vars \/ OpenPage \/ LeavePage
    BY <2>1 DEF vars, OpenPage, LeavePage, OrderedOnce, BasketsAdded, NoRetry, OneWaiting, Waiting,
       OutOfCart, BasketsApart
  <2>2. ASSUME NEW x \in Items, AddItem(x)
        PROVE  OrderedOnce'
    BY <2>2 DEF AddItem, OrderedOnce, BasketsAdded, NoRetry, OneWaiting, Waiting, OutOfCart,
       BasketsApart
  <2>3. ASSUME NEW x \in Items, RemoveItem(x)
        PROVE  OrderedOnce'
    BY <2>3 DEF RemoveItem, OrderedOnce, BasketsAdded, NoRetry, OneWaiting, Waiting, OutOfCart,
       BasketsApart
  <2> QED
    BY <2>1, <2>2, <2>3, SubmitOnce, ServeOnce DEF Next
<1>3. CheckoutInv /\ OrderedOnce => DuplicateNeedsCause
  <2> SUFFICES ASSUME CheckoutInv, OrderedOnce, NoRetry, NEW o \in orders, NEW p \in orders,
                      o # p
               PROVE  o.basket \cap p.basket = {}
    BY DEF DuplicateNeedsCause, Duplicated, NoRetry
  <2>1. PICK m \in DOMAIN requests : requests[m].server = "saved" /\ o = OrderOf(m)
    BY DEF CheckoutInv, OrdersOfSaved
  <2>2. PICK n \in DOMAIN requests : requests[n].server = "saved" /\ p = OrderOf(n)
    BY DEF CheckoutInv, OrdersOfSaved
  <2>3. requests[m].basket \cap requests[n].basket = {}
    BY <2>1, <2>2 DEF OrderedOnce, BasketsApart
  <2> QED
    BY <2>1, <2>2, <2>3 DEF OrderOf
<1> QED
  BY <1>1, <1>2, <1>3, InitCheckout, NextCheckout, PTL DEF Spec

-----------------------------------------------------------------------------
(* The cart: the lines of the parts *)

CartFields == {"quantity", "parts", "custom", "customer"}

(* A cart whose lines of parts are those of its products. *)
IsSynced(basket) == DOMAIN basket = CartFields /\ basket.parts = PartLines(basket.quantity)

(* A line of a part names its product first. *)
LEMMA PartParent ==
  ASSUME NEW p, NEW D, NEW l \in {p} \X D
  PROVE  l[1] = p
  OBVIOUS

(* The parts that a table of quantities calls for. *)
LEMMA PartKeys ==
  ASSUME NEW quantity
  PROVE  /\ DOMAIN PartLines(quantity) = UNION {{p} \X DOMAIN PartsOf[p] : p \in DOMAIN quantity}
         /\ \A l : l \in DOMAIN PartLines(quantity)
                     <=> \E p \in DOMAIN quantity : l \in {p} \X DOMAIN PartsOf[p]
         /\ \A l \in DOMAIN PartLines(quantity) :
              PartLines(quantity)[l] = quantity[l[1]] * PartsOf[l[1]][l[2]]
  BY DEF PartLines

(* Without some products, the lines that are left are those of the others. *)
LEMMA PartsWithout ==
  ASSUME NEW quantity, NEW ps
  PROVE  PartLines(Restrict(quantity, DOMAIN quantity \ ps))
           = Restrict(PartLines(quantity), {l \in DOMAIN PartLines(quantity) : l[1] \notin ps})
<1> DEFINE rest == Restrict(quantity, DOMAIN quantity \ ps)
           left == {l \in DOMAIN PartLines(quantity) : l[1] \notin ps}
<1>1. /\ DOMAIN rest = DOMAIN quantity \ ps
      /\ \A p \in DOMAIN quantity \ ps : rest[p] = quantity[p]
  BY DEF Restrict
<1>2. \A l : l \in DOMAIN PartLines(rest) <=> l \in left
  <2>1. ASSUME NEW l
        PROVE  l \in DOMAIN PartLines(rest)
                 <=> \E p \in DOMAIN quantity : p \notin ps /\ l \in {p} \X DOMAIN PartsOf[p]
    BY <1>1, PartKeys
  <2>2. ASSUME NEW l
        PROVE  l \in left
                 <=> \E p \in DOMAIN quantity : p \notin ps /\ l \in {p} \X DOMAIN PartsOf[p]
    <3>1. \A p : l \in {p} \X DOMAIN PartsOf[p] => l[1] = p
      BY PartParent
    <3>2. l \in DOMAIN PartLines(quantity)
            <=> \E p \in DOMAIN quantity : l \in {p} \X DOMAIN PartsOf[p]
      BY PartKeys
    <3> QED
      BY <3>1, <3>2
  <2> QED
    BY <2>1, <2>2
<1>3. DOMAIN PartLines(rest) = left
  BY <1>2
<1>4. \A l \in left : PartLines(rest)[l] = PartLines(quantity)[l]
  <2> SUFFICES ASSUME NEW l \in left
               PROVE  PartLines(rest)[l] = PartLines(quantity)[l]
    OBVIOUS
  <2>1. PartLines(rest)[l] = rest[l[1]] * PartsOf[l[1]][l[2]]
    BY <1>3, PartKeys
  <2>2. PartLines(quantity)[l] = quantity[l[1]] * PartsOf[l[1]][l[2]]
    BY PartKeys
  <2>3. l[1] \in DOMAIN quantity \ ps
    <3>1. PICK p \in DOMAIN quantity : l \in {p} \X DOMAIN PartsOf[p]
      BY PartKeys
    <3> QED
      BY <3>1, PartParent
  <2> QED
    BY <1>1, <2>1, <2>2, <2>3
<1>5. PartLines(rest) = [l \in left |-> PartLines(rest)[l]]
  <2>1. PartLines(rest) = [l \in DOMAIN PartLines(rest) |-> PartLines(rest)[l]]
    BY DEF PartLines
  <2> QED
    BY <1>3, <2>1
<1> QED
  BY <1>4, <1>5 DEF Restrict

(* The empty cart, and the one of the old format. *)
LEMMA FirstCarts ==
  /\ IsSynced(EmptyCart) /\ IsSynced(LegacyCart)
  /\ DOMAIN EmptyCart.quantity = {}
<1>1. PartLines([p \in {} |-> 0]) = [l \in {} |-> 0]
  BY DEF PartLines
<1>2. DOMAIN EmptyCart = CartFields /\ DOMAIN LegacyCart = CartFields
  BY DEF EmptyCart, LegacyCart, CartFields
<1>3. /\ EmptyCart.quantity = [p \in {} |-> 0] /\ EmptyCart.parts = [l \in {} |-> 0]
      /\ LegacyCart.quantity = [p \in Legacy |-> 1]
      /\ LegacyCart.parts = PartLines([p \in Legacy |-> 1])
  BY DEF EmptyCart, LegacyCart
<1> QED
  BY <1>1, <1>2, <1>3 DEF IsSynced

(* Deriving the parts anew. *)
LEMMA SyncedCart ==
  ASSUME NEW basket, DOMAIN basket = CartFields, NEW quantity
  PROVE  /\ IsSynced(Synced(basket, quantity))
         /\ Synced(basket, quantity).quantity = quantity
         /\ DOMAIN Synced(basket, quantity) = CartFields
  BY DEF Synced, IsSynced, CartFields

(* What the operations make of a cart; ps: the products they put in.       *)
LEMMA MergedCart ==
  ASSUME NEW basket, IsSynced(basket), NEW ps
  PROVE  /\ IsSynced(Merge(basket, ps))
         /\ DOMAIN Merge(basket, ps).quantity = DOMAIN basket.quantity \cup ps
  BY SyncedCart DEF Merge, IsSynced

LEMMA UpdatedCart ==
  ASSUME NEW basket, IsSynced(basket), NEW p, NEW n
  PROVE  /\ IsSynced(UpdateQuantity(basket, p, n))
         /\ DOMAIN UpdateQuantity(basket, p, n).quantity \subseteq DOMAIN basket.quantity
  BY SyncedCart DEF UpdateQuantity, IsSynced, Restrict

LEMMA RemovedCart ==
  ASSUME NEW basket, IsSynced(basket), NEW ps
  PROVE  /\ IsSynced(Remove(basket, ps))
         /\ DOMAIN Remove(basket, ps).quantity \subseteq DOMAIN basket.quantity
<1>1. /\ DOMAIN Remove(basket, ps) = CartFields
      /\ Remove(basket, ps).quantity = Restrict(basket.quantity, DOMAIN basket.quantity \ ps)
      /\ Remove(basket, ps).parts
           = Restrict(basket.parts, {l \in DOMAIN basket.parts : l[1] \notin ps})
  BY DEF Remove, IsSynced, CartFields
<1>2. IsSynced(Remove(basket, ps))
  <2>1. basket.parts = PartLines(basket.quantity)
    BY DEF IsSynced
  <2>2. Remove(basket, ps).parts
          = Restrict(PartLines(basket.quantity),
                     {l \in DOMAIN PartLines(basket.quantity) : l[1] \notin ps})
    BY <1>1, <2>1, Zenon
  <2>3. Remove(basket, ps).parts = PartLines(Remove(basket, ps).quantity)
    BY <1>1, <2>2, PartsWithout, Zenon
  <2> QED
    BY <1>1, <2>3 DEF IsSynced
<1> QED
  BY <1>1, <1>2 DEF Restrict

LEMMA LabelledCart ==
  ASSUME NEW basket, IsSynced(basket), NEW v
  PROVE  /\ IsSynced([basket EXCEPT !.customer = v])
         /\ [basket EXCEPT !.customer = v].quantity = basket.quantity
         /\ IsSynced([basket EXCEPT !.custom = v])
         /\ [basket EXCEPT !.custom = v].quantity = basket.quantity
  BY DEF IsSynced, CartFields

-----------------------------------------------------------------------------
(* The cart: the invariant *)

Somebody == Users \cup {NoUser}

(* Who is logged in where, and whose carts are saved. *)
SessionsSane ==
  /\ tab = [t \in Tabs |-> [user |-> tab[t].user, cart |-> tab[t].cart]]
  /\ \A t \in Tabs : tab[t].user \in Somebody
  /\ session \in Somebody
  /\ DOMAIN stored \subseteq Users
  /\ DOMAIN wanted = Users /\ DOMAIN touched = Users
  /\ \A basket \in legacy : basket = LegacyCart

(* Every cart there is follows its products. *)
AllSynced ==
  /\ \A t \in Tabs : IsSynced(tab[t].cart)
  /\ \A u \in DOMAIN stored : IsSynced(stored[u])

CartInv == SessionsSane /\ AllSynced /\ CartsNeverMix /\ CartIsKept

(* The saved cart of any user. *)
LEMMA SavedFacts ==
  ASSUME SessionsSane, AllSynced, CartsNeverMix, NEW u \in Users
  PROVE  /\ IsSynced(SavedCart(u))
         /\ DOMAIN SavedCart(u).quantity \subseteq touched[u]
  BY FirstCarts DEF SavedCart, AllSynced, CartsNeverMix

(* What a login or a reload shows. *)
LEMMA LoadedFacts ==
  ASSUME SessionsSane, AllSynced, CartsNeverMix, NEW u \in Users
  PROVE  /\ IsSynced(Loaded(u))
         /\ Takes(u) => Loaded(u) = LegacyCart
         /\ ~Takes(u) => Loaded(u) = SavedCart(u) /\ DOMAIN Loaded(u).quantity \subseteq touched[u]
<1>1. CASE Takes(u)
  <2>1. (CHOOSE c \in legacy : TRUE) \in legacy
    BY <1>1 DEF Takes
  <2> QED
    BY <1>1, <2>1, FirstCarts DEF Loaded, SessionsSane
<1>2. CASE ~Takes(u)
  BY <1>2, SavedFacts DEF Loaded
<1> QED
  BY <1>1, <1>2

(* A tab gets another user and cart, or another cart only. *)
LEMMA TabFacts ==
  ASSUME SessionsSane, NEW t \in Tabs, NEW u, NEW basket,
         \/ tab' = [tab EXCEPT ![t] = [user |-> u, cart |-> basket]]
         \/ tab' = [tab EXCEPT ![t].cart = basket] /\ u = tab[t].user
  PROVE  /\ tab' = [s \in Tabs |-> [user |-> tab'[s].user, cart |-> tab'[s].cart]]
         /\ tab'[t].user = u /\ tab'[t].cart = basket
         /\ \A s \in Tabs \ {t} : tab'[s] = tab[s]
<1>1. /\ tab = [s \in Tabs |-> [user |-> tab[s].user, cart |-> tab[s].cart]]
      /\ \A s \in Tabs : tab[s] = [user |-> tab[s].user, cart |-> tab[s].cart]
  BY DEF SessionsSane
<1>2. DOMAIN tab = Tabs
  BY <1>1
<1>3. tab' = [tab EXCEPT ![t] = [user |-> u, cart |-> basket]]
  <2>1. CASE tab' = [tab EXCEPT ![t].cart = basket] /\ u = tab[t].user
    <3>1. [tab[t] EXCEPT !.cart = basket] = [user |-> u, cart |-> basket]
      <4>1. tab[t] = [user |-> u, cart |-> tab[t].cart]
        BY <1>1, <2>1
      <4> QED
        BY <4>1
    <3>2. tab' = [tab EXCEPT ![t] = [tab[t] EXCEPT !.cart = basket]]
      BY <2>1
    <3> QED
      BY <3>1, <3>2
  <2> QED
    BY <2>1
<1>4. /\ tab'[t] = [user |-> u, cart |-> basket]
      /\ \A s \in Tabs \ {t} : tab'[s] = tab[s]
      /\ tab' = [s \in Tabs |-> tab'[s]]
  BY <1>2, <1>3
<1>5. \A s \in Tabs : tab'[s] = [user |-> tab'[s].user, cart |-> tab'[s].cart]
  BY <1>1, <1>4
<1> QED
  BY <1>4, <1>5

(* A save writes one user's cart or is told of a full storage. *)
LEMMA SaveFacts ==
  ASSUME NEW u, NEW basket, NEW why, SaveCart(u, basket, why)
  PROVE  \/ /\ DOMAIN stored' = DOMAIN stored \cup {u}
            /\ stored'[u] = basket
            /\ \A v \in DOMAIN stored \ {u} : stored'[v] = stored[v]
            /\ cartCauses' = cartCauses \cup why
         \/ stored' = stored /\ "quota" \in cartCauses'
  BY DEF SaveCart

(* A change of a tab's cart.  The cart meant is the same if the tab's cart *)
(* is the one that is meant.                                               *)
LEMMA ChangeKeeps ==
  ASSUME CartInv, NEW t \in Tabs, tab[t].user # NoUser,
         NEW basket, NEW meant, NEW ps, Change(t, basket, meant, ps),
         IsSynced(basket),
         DOMAIN basket.quantity \subseteq DOMAIN Here(t).quantity \cup ps,
         Here(t) = Meant(t) => basket = meant
  PROVE  CartInv'
<1> DEFINE u == tab[t].user
<1>0. /\ SessionsSane /\ AllSynced /\ CartsNeverMix /\ CartIsKept
      /\ u \in Users
  BY DEF CartInv, SessionsSane, Somebody
<1>1. /\ tab' = [s \in Tabs |-> [user |-> tab'[s].user, cart |-> tab'[s].cart]]
      /\ tab'[t].user = u /\ tab'[t].cart = basket
      /\ \A s \in Tabs \ {t} : tab'[s] = tab[s]
  BY <1>0, TabFacts, Zenon DEF Change
<1>2. /\ UNCHANGED <<legacy, session>>
      /\ wanted' = [wanted EXCEPT ![u] = meant]
      /\ touched' = [touched EXCEPT ![u] = @ \cup ps]
      /\ SaveCart(u, basket, Stale(t))
  BY DEF Change
<1>3. \/ /\ DOMAIN stored' = DOMAIN stored \cup {u}
         /\ stored'[u] = basket
         /\ \A v \in DOMAIN stored \ {u} : stored'[v] = stored[v]
         /\ cartCauses' = cartCauses \cup Stale(t)
      \/ stored' = stored /\ "quota" \in cartCauses'
  BY <1>2, SaveFacts
<1>4. /\ DOMAIN wanted = Users /\ DOMAIN touched = Users
      /\ wanted'[u] = meant /\ touched'[u] = touched[u] \cup ps
      /\ \A v \in Users \ {u} : wanted'[v] = wanted[v] /\ touched'[v] = touched[v]
      /\ DOMAIN wanted' = Users /\ DOMAIN touched' = Users
  BY <1>0, <1>2 DEF SessionsSane
<1>5. SessionsSane'
  <2>1. \A s \in Tabs : tab'[s].user \in Somebody
    BY <1>0, <1>1 DEF SessionsSane
  <2>2. DOMAIN stored' \subseteq Users
    BY <1>0, <1>3 DEF SessionsSane
  <2> QED
    BY <1>0, <1>1, <1>2, <1>4, <2>1, <2>2 DEF SessionsSane
<1>6. AllSynced'
  BY <1>0, <1>1, <1>3 DEF AllSynced
<1>7. CartsNeverMix'
  <2>1. DOMAIN basket.quantity \subseteq touched'[u]
    BY <1>0, <1>4 DEF CartsNeverMix, Here
  <2>2. \A v \in Users : touched[v] \subseteq touched'[v]
    BY <1>4
  <2>3. ASSUME NEW s \in Tabs, tab'[s].user # NoUser
        PROVE  DOMAIN tab'[s].cart.quantity \subseteq touched'[tab'[s].user]
    BY <1>0, <1>1, <2>1, <2>2, <2>3 DEF CartsNeverMix, SessionsSane, Somebody
  <2>4. ASSUME NEW v \in DOMAIN stored'
        PROVE  DOMAIN stored'[v].quantity \subseteq touched'[v]
    BY <1>0, <1>3, <2>1, <2>2, <2>4 DEF CartsNeverMix, SessionsSane
  <2> QED
    BY <2>3, <2>4 DEF CartsNeverMix
<1>8. CartIsKept'
  <2> SUFFICES ASSUME cartCauses' = {}, NEW v \in Users
               PROVE  SavedCart(v)' = wanted'[v]
    BY DEF CartIsKept
  <2>1. /\ DOMAIN stored' = DOMAIN stored \cup {u}
        /\ stored'[u] = basket
        /\ \A w \in DOMAIN stored \ {u} : stored'[w] = stored[w]
        /\ cartCauses = {} /\ Stale(t) = {}
    BY <1>3
  <2>2. Here(t) = SavedCart(u)
    BY <2>1 DEF Stale, Here
  <2>3. \A w \in Users : SavedCart(w) = wanted[w]
    BY <1>0, <2>1 DEF CartIsKept
  <2>4. basket = meant
    BY <1>0, <2>2, <2>3 DEF Meant
  <2> QED
    BY <1>4, <2>1, <2>3, <2>4 DEF SavedCart
<1> QED
  BY <1>5, <1>6, <1>7, <1>8 DEF CartInv

(* A login or a reload: tab t goes over to the cart of u. *)
LEMMA ShowKeeps ==
  ASSUME CartInv, NEW t \in Tabs, NEW u \in Somebody, Show(t, u), Migrate(u),
         session' \in Somebody
  PROVE  CartInv'
<1> DEFINE loaded == IF u = NoUser THEN EmptyCart ELSE Loaded(u)
<1>0. SessionsSane /\ AllSynced /\ CartsNeverMix /\ CartIsKept
  BY DEF CartInv
<1>1. /\ tab' = [s \in Tabs |-> [user |-> tab'[s].user, cart |-> tab'[s].cart]]
      /\ tab'[t].user = u /\ tab'[t].cart = loaded
      /\ \A s \in Tabs \ {t} : tab'[s] = tab[s]
  BY <1>0, TabFacts DEF Show
<1>2. IsSynced(loaded)
  BY <1>0, FirstCarts, LoadedFacts DEF Somebody
<1>3. \A s \in Tabs : tab'[s].user \in Somebody /\ IsSynced(tab'[s].cart)
  BY <1>0, <1>1, <1>2 DEF SessionsSane, AllSynced
<1>4. CASE Takes(u)
  <2>1. u \in Users /\ u # NoUser /\ u \notin DOMAIN stored /\ loaded = Loaded(u)
    BY <1>4 DEF Takes, Somebody
  <2>2. /\ SaveCart(u, Loaded(u), {})
        /\ legacy' = {}
        /\ wanted' = [wanted EXCEPT ![u] = Loaded(u)]
        /\ touched' = [touched EXCEPT ![u] = @ \cup DOMAIN Loaded(u).quantity]
    BY <1>4 DEF Migrate
  <2>3. \/ /\ DOMAIN stored' = DOMAIN stored \cup {u}
           /\ stored'[u] = Loaded(u)
           /\ \A v \in DOMAIN stored \ {u} : stored'[v] = stored[v]
           /\ cartCauses' = cartCauses
        \/ stored' = stored /\ "quota" \in cartCauses'
    BY <2>2, SaveFacts
  <2>4. /\ DOMAIN wanted' = Users /\ DOMAIN touched' = Users
        /\ wanted'[u] = Loaded(u) /\ touched'[u] = touched[u] \cup DOMAIN Loaded(u).quantity
        /\ \A v \in Users \ {u} : wanted'[v] = wanted[v] /\ touched'[v] = touched[v]
    BY <1>0, <2>1, <2>2 DEF SessionsSane
  <2>5. SessionsSane'
    <3>1. DOMAIN stored' \subseteq Users
      BY <1>0, <2>1, <2>3 DEF SessionsSane
    <3> QED
      BY <1>1, <1>3, <2>2, <2>4, <3>1 DEF SessionsSane
  <2>6. AllSynced'
    BY <1>0, <1>2, <1>3, <2>1, <2>3 DEF AllSynced
  <2>7. CartsNeverMix'
    <3>1. \A v \in Users : touched[v] \subseteq touched'[v]
      BY <2>4
    <3>2. ASSUME NEW s \in Tabs, tab'[s].user # NoUser
          PROVE  DOMAIN tab'[s].cart.quantity \subseteq touched'[tab'[s].user]
      BY <1>0, <1>1, <2>1, <2>4, <3>1, <3>2 DEF CartsNeverMix, SessionsSane, Somebody
    <3>3. ASSUME NEW v \in DOMAIN stored'
          PROVE  DOMAIN stored'[v].quantity \subseteq touched'[v]
      BY <1>0, <2>1, <2>3, <2>4, <3>1, <3>3 DEF CartsNeverMix, SessionsSane
    <3> QED
      BY <3>2, <3>3 DEF CartsNeverMix
  <2>8. CartIsKept'
    <3> SUFFICES ASSUME cartCauses' = {}, NEW v \in Users
                 PROVE  SavedCart(v)' = wanted'[v]
      BY DEF CartIsKept
    <3>1. cartCauses = {} /\ SavedCart(v) = wanted[v]
      BY <1>0, <2>3 DEF CartIsKept
    <3> QED
      BY <2>1, <2>3, <2>4, <3>1 DEF SavedCart
  <2> QED
    BY <2>5, <2>6, <2>7, <2>8 DEF CartInv
<1>5. CASE ~Takes(u)
  <2>1. UNCHANGED <<stored, legacy, wanted, touched, cartCauses>>
    BY <1>5 DEF Migrate
  <2>2. u # NoUser => DOMAIN loaded.quantity \subseteq touched[u]
    BY <1>0, <1>5, LoadedFacts DEF Somebody
  <2>3. SessionsSane'
    BY <1>0, <1>1, <1>3, <2>1 DEF SessionsSane
  <2>4. AllSynced'
    BY <1>0, <1>3, <2>1 DEF AllSynced
  <2>5. CartsNeverMix'
    BY <1>0, <1>1, <2>1, <2>2 DEF CartsNeverMix
  <2>6. CartIsKept'
    BY <1>0, <2>1 DEF CartIsKept, SavedCart
  <2> QED
    BY <2>3, <2>4, <2>5, <2>6 DEF CartInv
<1> QED
  BY <1>4, <1>5

(* A logout saves the tab's cart and empties the tab. *)
LEMMA LogoutKeeps ==
  ASSUME CartInv, NEW t \in Tabs, Logout(t)
  PROVE  CartInv'
<1> DEFINE u == tab[t].user
<1>0. /\ SessionsSane /\ AllSynced /\ CartsNeverMix /\ CartIsKept
      /\ u \in Users /\ u # NoUser
  BY DEF CartInv, SessionsSane, Somebody, Logout
<1>1. /\ tab' = [s \in Tabs |-> [user |-> tab'[s].user, cart |-> tab'[s].cart]]
      /\ tab'[t].user = NoUser /\ tab'[t].cart = EmptyCart
      /\ \A s \in Tabs \ {t} : tab'[s] = tab[s]
  BY <1>0, TabFacts DEF Logout, Show
<1>2. /\ session' = NoUser /\ UNCHANGED <<legacy, wanted, touched>>
      /\ SaveCart(u, tab[t].cart, Stale(t))
  BY DEF Logout
<1>3. \/ /\ DOMAIN stored' = DOMAIN stored \cup {u}
         /\ stored'[u] = tab[t].cart
         /\ \A v \in DOMAIN stored \ {u} : stored'[v] = stored[v]
         /\ cartCauses' = cartCauses \cup Stale(t)
      \/ stored' = stored /\ "quota" \in cartCauses'
  BY <1>2, SaveFacts
<1>4. SessionsSane'
  <2>1. \A s \in Tabs : tab'[s].user \in Somebody
    BY <1>0, <1>1 DEF SessionsSane, Somebody
  <2>2. DOMAIN stored' \subseteq Users
    BY <1>0, <1>3 DEF SessionsSane
  <2> QED
    BY <1>0, <1>1, <1>2, <2>1, <2>2 DEF SessionsSane, Somebody
<1>5. AllSynced'
  BY <1>0, <1>1, <1>3, FirstCarts DEF AllSynced
<1>6. CartsNeverMix'
  BY <1>0, <1>1, <1>2, <1>3 DEF CartsNeverMix
<1>7. CartIsKept'
  <2> SUFFICES ASSUME cartCauses' = {}, NEW v \in Users
               PROVE  SavedCart(v)' = wanted[v]
    BY <1>2 DEF CartIsKept
  <2>1. /\ DOMAIN stored' = DOMAIN stored \cup {u}
        /\ stored'[u] = tab[t].cart
        /\ \A w \in DOMAIN stored \ {u} : stored'[w] = stored[w]
        /\ cartCauses = {} /\ Stale(t) = {}
    BY <1>3
  <2>2. tab[t].cart = SavedCart(u) /\ SavedCart(v) = wanted[v]
    BY <1>0, <2>1 DEF Stale, CartIsKept
  <2> QED
    BY <2>1, <2>2 DEF SavedCart
<1> QED
  BY <1>4, <1>5, <1>6, <1>7 DEF CartInv

(* The changes. *)
LEMMA ChangesKeep ==
  ASSUME CartInv, NEW t \in Tabs, Changes(t)
  PROVE  CartInv'
<1>0. /\ IsSynced(Here(t))
      /\ tab[t].user # NoUser => tab[t].user \in Users
  BY DEF CartInv, AllSynced, Here, SessionsSane, Somebody
<1>1. ASSUME NEW p \in Products, AddToCart(t, p)
      PROVE  CartInv'
  <2>1. /\ IsSynced(Merge(Here(t), {p}))
        /\ DOMAIN Merge(Here(t), {p}).quantity = DOMAIN Here(t).quantity \cup {p}
    BY <1>0, MergedCart
  <2> QED
    BY <1>1, <2>1, ChangeKeeps DEF AddToCart
<1>2. ASSUME NEW ps, RemoveItems(t, ps)
      PROVE  CartInv'
  <2>1. /\ IsSynced(Remove(Here(t), ps))
        /\ DOMAIN Remove(Here(t), ps).quantity \subseteq DOMAIN Here(t).quantity
    BY <1>0, RemovedCart
  <2> QED
    BY <1>2, <2>1, ChangeKeeps DEF RemoveItems
<1>3. ASSUME NEW p \in Products, NEW n \in 0 .. MaxQuantity, SetQuantity(t, p, n)
      PROVE  CartInv'
  <2>1. /\ IsSynced(UpdateQuantity(Here(t), p, n))
        /\ DOMAIN UpdateQuantity(Here(t), p, n).quantity \subseteq DOMAIN Here(t).quantity
    BY <1>0, UpdatedCart
  <2> QED
    BY <1>3, <2>1, ChangeKeeps DEF SetQuantity
<1>4. ASSUME NEW p \in Products, NEW own \in BOOLEAN, SetPrice(t, p, own)
      PROVE  CartInv'
  <2> DEFINE Priced(basket) ==
        [basket EXCEPT !.custom = IF own THEN @ \cup ({p} \cap DOMAIN basket.quantity)
                                       ELSE @ \ {p}]
  <2>1. IsSynced(Priced(Here(t))) /\ Priced(Here(t)).quantity = Here(t).quantity
    BY <1>0, LabelledCart
  <2>2. tab[t].user # NoUser /\ Change(t, Priced(Here(t)), Priced(Meant(t)), {})
    BY <1>4 DEF SetPrice
  <2>3. Here(t) = Meant(t) => Priced(Here(t)) = Priced(Meant(t))
    OBVIOUS
  <2> HIDE DEF Priced
  <2> QED
    BY <2>1, <2>2, <2>3, ChangeKeeps
<1>5. ASSUME NEW c, Reorder(t, Products, c)
      PROVE  CartInv'
  <2> DEFINE merged == Merge(Here(t), Products)
             basket == [merged EXCEPT !.customer = c]
  <2>1. IsSynced(merged) /\ DOMAIN merged.quantity = DOMAIN Here(t).quantity \cup Products
    BY <1>0, MergedCart
  <2>2. IsSynced(basket) /\ basket.quantity = merged.quantity
    BY <2>1, LabelledCart
  <2>3. tab[t].user # NoUser
        /\ Change(t, basket, [Merge(Meant(t), Products) EXCEPT !.customer = c], Products)
    BY <1>5 DEF Reorder
  <2>4. Here(t) = Meant(t) => basket = [Merge(Meant(t), Products) EXCEPT !.customer = c]
    OBVIOUS
  <2> HIDE DEF merged, basket
  <2> QED
    BY <2>1, <2>2, <2>3, <2>4, ChangeKeeps
<1>6. ASSUME NEW c, SetCustomer(t, c)
      PROVE  CartInv'
  <2>1. /\ IsSynced([Here(t) EXCEPT !.customer = c])
        /\ [Here(t) EXCEPT !.customer = c].quantity = Here(t).quantity
    BY <1>0, LabelledCart
  <2> QED
    BY <1>6, <2>1, ChangeKeeps DEF SetCustomer
<1>7. ASSUME Clear(t)
      PROVE  CartInv'
  BY <1>7, FirstCarts, ChangeKeeps DEF Clear
<1> QED
  BY <1>1, <1>2, <1>3, <1>4, <1>5, <1>6, <1>7 DEF Changes

(* The browser before anybody logs in. *)
LEMMA InitCart == CartInit => CartInv
<1> SUFFICES ASSUME CartInit
             PROVE  CartInv
  OBVIOUS
<1>1. \A t \in Tabs : tab[t] = [user |-> NoUser, cart |-> EmptyCart]
  BY DEF CartInit
<1>2. SessionsSane
  <2>1. tab = [t \in Tabs |-> [user |-> tab[t].user, cart |-> tab[t].cart]]
    BY <1>1 DEF CartInit
  <2> QED
    BY <1>1, <2>1 DEF CartInit, SessionsSane, Somebody
<1>3. AllSynced /\ CartsNeverMix
  BY <1>1, FirstCarts DEF CartInit, AllSynced, CartsNeverMix
<1>4. CartIsKept
  BY DEF CartInit, CartIsKept, SavedCart
<1> QED
  BY <1>2, <1>3, <1>4 DEF CartInv

(* Every step keeps the invariant. *)
LEMMA NextCart == CartInv /\ [CartNext]_cartVars => CartInv'
<1> SUFFICES ASSUME CartInv, [CartNext]_cartVars
             PROVE  CartInv'
  OBVIOUS
<1>1. CASE UNCHANGED cartVars
  BY <1>1 DEF cartVars, CartInv, SessionsSane, AllSynced, CartsNeverMix, CartIsKept, SavedCart
<1>2. ASSUME NEW t \in Tabs, NEW u \in Users, Login(t, u)
      PROVE  CartInv'
  BY <1>2, ShowKeeps DEF Login, Somebody
<1>3. ASSUME NEW t \in Tabs, Reload(t)
      PROVE  CartInv'
  BY <1>3, ShowKeeps DEF Reload, CartInv, SessionsSane
<1> QED
  BY <1>1, <1>2, <1>3, LogoutKeeps, ChangesKeep DEF CartNext

(* cartStore.ts: in every tab and in the storage the lines of the parts    *)
(* are those the products' lines call for.                                 *)
THEOREM PartsAlwaysFollow == CartSpec => []PartsFollowProducts
<1>1. CartInv => PartsFollowProducts
  BY DEF CartInv, AllSynced, IsSynced, PartsFollowProducts, Range
<1> QED
  BY <1>1, InitCart, NextCart, PTL DEF CartSpec

(* cartStore.ts: whoever logs in, in whatever tab, never finds what        *)
(* another user put into a cart.                                           *)
THEOREM NoCartMixes == CartSpec => []CartsNeverMix
  BY InitCart, NextCart, PTL DEF CartSpec, CartInv

(* cartStore.ts: the saved cart is what the user's changes make of one     *)
(* cart, unless a tab wrote over changes it had not read or the storage    *)
(* was full.                                                               *)
THEOREM EveryCartIsKept == CartSpec => []CartIsKept
  BY InitCart, NextCart, PTL DEF CartSpec, CartInv

-----------------------------------------------------------------------------
(* The cart: types *)

(* Quantities of products, each within the bound. *)
IsQuantity(quantity) ==
  DOMAIN quantity \subseteq Products /\ \A p \in DOMAIN quantity : quantity[p] \in 1 .. MaxQuantity

LEMMA CartFacts ==
  ASSUME NEW basket
  PROVE  IsCart(basket) <=>
           /\ DOMAIN basket = CartFields /\ IsQuantity(basket.quantity)
           /\ \A l \in DOMAIN basket.parts :
                l[2] \in DOMAIN PartsOf[l[1]] /\ basket.parts[l] \in Nat
           /\ basket.custom \subseteq DOMAIN basket.quantity
           /\ basket.customer \in Customers \cup {NoCustomer}
  BY DEF IsCart, IsQuantity, CartFields, Range

(* The lines of the parts have parts and quantities. *)
LEMMA PartTypes ==
  ASSUME NEW quantity, IsQuantity(quantity), NEW l \in DOMAIN PartLines(quantity)
  PROVE  l[2] \in DOMAIN PartsOf[l[1]] /\ PartLines(quantity)[l] \in Nat
<1>1. PICK p \in DOMAIN quantity : l \in {p} \X DOMAIN PartsOf[p]
  BY PartKeys
<1>2. l[1] = p /\ l[2] \in DOMAIN PartsOf[p] /\ p \in Products
  BY <1>1 DEF IsQuantity
<1>3. quantity[p] \in Nat /\ PartsOf[p][l[2]] \in Nat
  BY <1>2, CartAssumption DEF IsQuantity, Range
<1>4. \A m, n \in Nat : m * n \in Nat
  OBVIOUS
<1>5. PartLines(quantity)[l] = quantity[p] * PartsOf[p][l[2]]
  BY <1>2, PartKeys
<1> QED
  BY <1>2, <1>3, <1>4, <1>5

(* Deriving the parts anew. *)
LEMMA SyncedType ==
  ASSUME NEW basket, IsCart(basket), NEW quantity, IsQuantity(quantity)
  PROVE  IsCart(Synced(basket, quantity))
<1>1. /\ DOMAIN Synced(basket, quantity) = CartFields
      /\ Synced(basket, quantity).quantity = quantity
      /\ Synced(basket, quantity).parts = PartLines(quantity)
      /\ Synced(basket, quantity).custom = basket.custom \cap DOMAIN quantity
      /\ Synced(basket, quantity).customer = basket.customer
  BY CartFacts DEF Synced, CartFields
<1> QED
  BY <1>1, CartFacts, PartTypes

(* The empty cart, and the one of the old format. *)
LEMMA FirstTypes == IsCart(EmptyCart) /\ IsCart(LegacyCart)
<1> DEFINE first == [p \in Legacy |-> 1]
<1>1. IsCart(EmptyCart)
  BY CartFacts DEF EmptyCart, CartFields, IsQuantity
<1>2. IsQuantity(first)
  BY CartAssumption DEF IsQuantity
<1>3. /\ DOMAIN LegacyCart = CartFields
      /\ LegacyCart.quantity = first /\ LegacyCart.parts = PartLines(first)
      /\ LegacyCart.custom = {} /\ LegacyCart.customer = NoCustomer
  BY DEF LegacyCart, EmptyCart, CartFields
<1> HIDE DEF first
<1> QED
  BY <1>1, <1>2, <1>3, CartFacts, PartTypes

(* What the operations make of a cart. *)
LEMMA MergedType ==
  ASSUME NEW basket, IsCart(basket), NEW ps \in SUBSET Products, Fits(basket, ps)
  PROVE  IsCart(Merge(basket, ps))
<1> DEFINE had(p) == IF p \in DOMAIN basket.quantity THEN basket.quantity[p] ELSE 0
           more   == [p \in DOMAIN basket.quantity \cup ps |-> had(p) + (IF p \in ps THEN 1 ELSE 0)]
<1>1. IsQuantity(more)
  <2>1. \A p \in DOMAIN basket.quantity : basket.quantity[p] \in 1 .. MaxQuantity
    BY CartFacts DEF IsQuantity
  <2>2. \A p \in ps \cap DOMAIN basket.quantity : basket.quantity[p] < MaxQuantity
    BY DEF Fits
  <2>3. ASSUME NEW p \in DOMAIN more
        PROVE  more[p] \in 1 .. MaxQuantity
    BY <2>1, <2>2, CartAssumption
  <2>4. DOMAIN more \subseteq Products
    BY CartFacts DEF IsQuantity
  <2> QED
    BY <2>3, <2>4 DEF IsQuantity
<1>2. Merge(basket, ps) = Synced(basket, more)
  BY DEF Merge
<1> QED
  BY <1>1, <1>2, SyncedType

LEMMA UpdatedType ==
  ASSUME NEW basket, IsCart(basket), NEW p \in Products, NEW n \in 0 .. MaxQuantity
  PROVE  IsCart(UpdateQuantity(basket, p, n))
<1> DEFINE next == IF n = 0 THEN Restrict(basket.quantity, DOMAIN basket.quantity \ {p})
                            ELSE [basket.quantity EXCEPT ![p] = n]
<1>1. IsQuantity(basket.quantity)
  BY CartFacts
<1>2. IsQuantity(next)
  BY <1>1, CartAssumption DEF IsQuantity, Restrict
<1> QED
  BY <1>2, SyncedType DEF UpdateQuantity

LEMMA RemovedType ==
  ASSUME NEW basket, IsCart(basket), NEW ps
  PROVE  IsCart(Remove(basket, ps))
<1>1. /\ DOMAIN Remove(basket, ps) = CartFields
      /\ Remove(basket, ps).quantity = Restrict(basket.quantity, DOMAIN basket.quantity \ ps)
      /\ Remove(basket, ps).parts
           = Restrict(basket.parts, {l \in DOMAIN basket.parts : l[1] \notin ps})
      /\ Remove(basket, ps).custom = basket.custom \ ps
      /\ Remove(basket, ps).customer = basket.customer
  BY CartFacts DEF Remove, CartFields
<1>2. IsQuantity(Remove(basket, ps).quantity)
  BY <1>1, CartFacts DEF IsQuantity, Restrict
<1>3. \A l \in DOMAIN Remove(basket, ps).parts :
        l \in DOMAIN basket.parts /\ Remove(basket, ps).parts[l] = basket.parts[l]
  BY <1>1 DEF Restrict
<1>4. Remove(basket, ps).custom \subseteq DOMAIN Remove(basket, ps).quantity
  BY <1>1, CartFacts DEF Restrict
<1> QED
  BY <1>1, <1>2, <1>3, <1>4, CartFacts

LEMMA LabelledType ==
  ASSUME NEW basket, IsCart(basket)
  PROVE  /\ \A c \in Customers \cup {NoCustomer} : IsCart([basket EXCEPT !.customer = c])
         /\ \A ps \in SUBSET DOMAIN basket.quantity : IsCart([basket EXCEPT !.custom = ps])
  BY CartFacts DEF CartFields

CartTypes == CartTypeOK /\ CartInv

(* A change of carts of the right shape. *)
LEMMA ChangeTypes ==
  ASSUME CartTypes, CartInv', NEW t \in Tabs, tab[t].user # NoUser,
         NEW basket, IsCart(basket), NEW meant, IsCart(meant), NEW ps \in SUBSET Products,
         Change(t, basket, meant, ps)
  PROVE  CartTypes'
<1> DEFINE u == tab[t].user
<1>0. SessionsSane /\ SessionsSane' /\ u \in Users
  BY DEF CartTypes, CartInv, SessionsSane, Somebody
<1>1. \A s \in Tabs : tab'[s].user \in Users \cup {NoUser} /\ IsCart(tab'[s].cart)
  <2>1. /\ tab' = [s \in Tabs |-> [user |-> tab'[s].user, cart |-> tab'[s].cart]]
        /\ tab'[t].user = u /\ tab'[t].cart = basket
        /\ \A s \in Tabs \ {t} : tab'[s] = tab[s]
    BY <1>0, TabFacts, Zenon DEF Change
  <2> QED
    BY <1>0, <2>1 DEF CartTypes, CartTypeOK, SessionsSane, Somebody
<1>2. /\ DOMAIN stored' \subseteq Users /\ \A v \in DOMAIN stored' : IsCart(stored'[v])
      /\ cartCauses' \subseteq {"stale", "quota"}
  <2>1. SaveCart(u, basket, Stale(t))
    BY DEF Change
  <2>2. Stale(t) \subseteq {"stale"}
    BY DEF Stale
  <2> QED
    BY <1>0, <2>1, <2>2 DEF SaveCart, CartTypes, CartTypeOK
<1>3. changes' \in 0 .. MaxChanges
  BY CartAssumption DEF Change, CartTypes, CartTypeOK
<1>4. /\ \A v \in Users : IsCart(wanted'[v])
      /\ touched' \in [Users -> SUBSET Products]
  <2>1. /\ wanted' = [wanted EXCEPT ![u] = meant]
        /\ touched' = [touched EXCEPT ![u] = @ \cup ps]
    BY DEF Change
  <2> QED
    BY <1>0, <2>1 DEF CartTypes, CartTypeOK, SessionsSane
<1>5. legacy' \subseteq {LegacyCart} /\ session' \in Users \cup {NoUser}
  BY DEF Change, CartTypes, CartTypeOK
<1> QED
  BY <1>1, <1>2, <1>3, <1>4, <1>5 DEF CartTypes, CartTypeOK

LEMMA ChangesTypes ==
  ASSUME CartTypes, CartInv', NEW t \in Tabs, Changes(t)
  PROVE  CartTypes'
<1>0. /\ IsCart(Here(t))
      /\ tab[t].user # NoUser => IsCart(Meant(t))
  BY DEF CartTypes, CartTypeOK, Here, Meant
<1>1. ASSUME NEW p \in Products, AddToCart(t, p)
      PROVE  CartTypes'
  BY <1>0, <1>1, MergedType, ChangeTypes DEF AddToCart
<1>2. ASSUME NEW ps \in SUBSET Products, RemoveItems(t, ps)
      PROVE  CartTypes'
  BY <1>0, <1>2, RemovedType, ChangeTypes DEF RemoveItems
<1>3. ASSUME NEW p \in Products, NEW n \in 0 .. MaxQuantity, SetQuantity(t, p, n)
      PROVE  CartTypes'
  BY <1>0, <1>3, UpdatedType, ChangeTypes DEF SetQuantity
<1>4. ASSUME NEW p \in Products, NEW own \in BOOLEAN, SetPrice(t, p, own)
      PROVE  CartTypes'
  <2> DEFINE marked(basket) == IF own THEN basket.custom \cup ({p} \cap DOMAIN basket.quantity)
                                      ELSE basket.custom \ {p}
             priced(basket) == [basket EXCEPT !.custom = marked(basket)]
  <2>1. ASSUME NEW basket, IsCart(basket)
        PROVE  IsCart(priced(basket))
    <3>1. marked(basket) \subseteq DOMAIN basket.quantity
      BY <2>1, CartFacts
    <3> QED
      BY <2>1, <3>1, LabelledType
  <2>2. tab[t].user # NoUser /\ Change(t, priced(Here(t)), priced(Meant(t)), {})
    BY <1>4 DEF SetPrice
  <2>3. IsCart(priced(Here(t))) /\ IsCart(priced(Meant(t)))
    BY <1>0, <2>1, <2>2
  <2> HIDE DEF priced
  <2> QED
    BY <2>2, <2>3, ChangeTypes
<1>5. ASSUME NEW c \in Customers, Reorder(t, Products, c)
      PROVE  CartTypes'
  <2>1. IsCart(Merge(Here(t), Products)) /\ IsCart(Merge(Meant(t), Products))
    BY <1>0, <1>5, MergedType DEF Reorder
  <2>2. /\ IsCart([Merge(Here(t), Products) EXCEPT !.customer = c])
        /\ IsCart([Merge(Meant(t), Products) EXCEPT !.customer = c])
    BY <2>1, LabelledType
  <2> QED
    BY <1>5, <2>2, ChangeTypes DEF Reorder
<1>6. ASSUME NEW c \in Customers \cup {NoCustomer}, SetCustomer(t, c)
      PROVE  CartTypes'
  <2>1. tab[t].user # NoUser
    BY <1>6 DEF SetCustomer
  <2>2. IsCart([Here(t) EXCEPT !.customer = c]) /\ IsCart([Meant(t) EXCEPT !.customer = c])
    BY <1>0, <2>1, LabelledType
  <2> QED
    BY <1>6, <2>1, <2>2, ChangeTypes DEF SetCustomer
<1>7. ASSUME Clear(t)
      PROVE  CartTypes'
  BY <1>7, FirstTypes, ChangeTypes DEF Clear
<1> QED
  BY <1>1, <1>2, <1>3, <1>4, <1>5, <1>6, <1>7, CartAssumption DEF Changes

(* Logins, reloads and logouts show carts that there are. *)
LEMMA ShowTypes ==
  ASSUME CartTypes, CartInv', NEW t \in Tabs, NEW u \in Somebody, Show(t, u),
         changes' = changes,
         \/ Migrate(u)
         \/ /\ u = NoUser /\ tab[t].user # NoUser
            /\ SaveCart(tab[t].user, tab[t].cart, Stale(t))
            /\ UNCHANGED <<legacy, wanted, touched>>
  PROVE  CartTypes'
<1> DEFINE loaded == IF u = NoUser THEN EmptyCart ELSE Loaded(u)
<1>0. SessionsSane /\ SessionsSane' /\ CartTypeOK
  BY DEF CartTypes, CartInv
<1>1. u # NoUser => IsCart(Loaded(u))
  <2>1. CASE Takes(u)
    <3>1. (CHOOSE c \in legacy : TRUE) \in legacy
      BY <2>1 DEF Takes
    <3> QED
      BY <1>0, <2>1, <3>1, FirstTypes DEF Loaded, CartTypeOK
  <2>2. CASE ~Takes(u)
    BY <1>0, <2>2, FirstTypes DEF Loaded, SavedCart, CartTypeOK
  <2> QED
    BY <2>1, <2>2
<1>2. \A s \in Tabs : tab'[s].user \in Users \cup {NoUser} /\ IsCart(tab'[s].cart)
  <2>1. IsCart(loaded)
    BY <1>1, FirstTypes
  <2>2. /\ tab'[t].cart = loaded
        /\ \A s \in Tabs \ {t} : tab'[s] = tab[s]
    BY <1>0, TabFacts DEF Show
  <2> QED
    BY <1>0, <2>1, <2>2 DEF CartTypeOK, SessionsSane, Somebody
<1>3. /\ DOMAIN stored' \subseteq Users /\ \A v \in DOMAIN stored' : IsCart(stored'[v])
      /\ cartCauses' \subseteq {"stale", "quota"}
      /\ \A v \in Users : IsCart(wanted'[v])
      /\ touched' \in [Users -> SUBSET Products]
      /\ legacy' \subseteq {LegacyCart}
  <2>1. Stale(t) \subseteq {"stale"} /\ IsCart(tab[t].cart) /\ DOMAIN stored' \subseteq Users
    BY <1>0 DEF Stale, CartTypeOK, SessionsSane
  <2>2. CASE Migrate(u) /\ Takes(u)
    <3>1. /\ u \in Users /\ IsCart(Loaded(u))
          /\ SaveCart(u, Loaded(u), {}) /\ legacy' = {}
          /\ wanted'  = [wanted EXCEPT ![u] = Loaded(u)]
          /\ touched' = [touched EXCEPT ![u] = @ \cup DOMAIN Loaded(u).quantity]
      BY <1>1, <2>2 DEF Migrate, Takes, Somebody
    <3>2. DOMAIN Loaded(u).quantity \subseteq Products
      BY <3>1, CartFacts DEF IsQuantity
    <3>3. /\ \A v \in DOMAIN stored' : IsCart(stored'[v])
          /\ cartCauses' \subseteq {"stale", "quota"}
      BY <1>0, <3>1 DEF SaveCart, CartTypeOK
    <3>4. /\ \A v \in Users : IsCart(wanted'[v])
          /\ touched' \in [Users -> SUBSET Products]
      BY <1>0, <3>1, <3>2 DEF CartTypeOK, SessionsSane
    <3> QED
      BY <2>1, <3>1, <3>3, <3>4
  <2>3. CASE Migrate(u) /\ ~Takes(u)
    BY <1>0, <2>1, <2>3 DEF Migrate, CartTypeOK
  <2>4. CASE /\ SaveCart(tab[t].user, tab[t].cart, Stale(t))
             /\ UNCHANGED <<legacy, wanted, touched>>
    BY <1>0, <2>1, <2>4 DEF SaveCart, CartTypeOK
  <2> QED
    BY <2>2, <2>3, <2>4
<1> QED
  BY <1>0, <1>2, <1>3 DEF CartTypes, CartTypeOK, SessionsSane, Somebody

(* Every cart, in a tab, saved, old or only meant, is a cart: its lines    *)
(* are of products, within the bound, and its parts are parts.             *)
THEOREM CartTypesKept == CartSpec => []CartTypeOK
<1>1. CartInit => CartTypes
  <2> SUFFICES ASSUME CartInit
               PROVE  CartTypes
    OBVIOUS
  <2>1. legacy \subseteq {LegacyCart} /\ changes \in 0 .. MaxChanges
    BY CartAssumption DEF CartInit
  <2> QED
    BY <2>1, InitCart, FirstTypes DEF CartInit, CartTypes, CartTypeOK
<1>2. CartTypes /\ [CartNext]_cartVars => CartTypes'
  <2> SUFFICES ASSUME CartTypes, [CartNext]_cartVars
               PROVE  CartTypes'
    OBVIOUS
  <2>1. CartInv'
    BY NextCart DEF CartTypes
  <2>2. CASE UNCHANGED cartVars
    BY <2>1, <2>2 DEF cartVars, CartTypes, CartTypeOK
  <2>3. ASSUME NEW t \in Tabs, NEW u \in Users, Login(t, u)
        PROVE  CartTypes'
    BY <2>1, <2>3, ShowTypes DEF Login, Somebody
  <2>4. ASSUME NEW t \in Tabs, Reload(t)
        PROVE  CartTypes'
    BY <2>1, <2>4, ShowTypes DEF Reload, CartTypes, CartInv, SessionsSane
  <2>5. ASSUME NEW t \in Tabs, Logout(t)
        PROVE  CartTypes'
    BY <2>1, <2>5, ShowTypes DEF Logout, Somebody
  <2> QED
    BY <2>1, <2>2, <2>3, <2>4, <2>5, ChangesTypes DEF CartNext
<1>3. CartTypes => CartTypeOK
  BY DEF CartTypes
<1> QED
  BY <1>1, <1>2, <1>3, PTL DEF CartSpec

-----------------------------------------------------------------------------
(* The toasts: statuses and their numbers *)

Even(n) == n % 2 = 0

(* Even and odd numbers take turns. *)
LEMMA EvenNext ==
  ASSUME NEW n \in Nat
  PROVE  Even(n + 1) <=> ~Even(n)
  BY DEF Even

(* A status of o as the API may have answered it: in progress if and only  *)
(* if its number is even, and not newer than the present one.              *)
Of(o, s) ==
  /\ s \in StatusValue
  /\ InProgress(s) <=> Even(s.number)
  /\ s.number <= status[o].number
  /\ s.number = status[o].number => s.name = status[o].name

(* A table of such statuses for some orders. *)
OfOrders(data, os) == DOMAIN data = os /\ \A o \in os : o \in Orders /\ Of(o, data[o])

OfSome(data) == OfOrders(data, DOMAIN data)

(* What is in hand, in the cache and on the page are such tables. *)
AnswersSane ==
  /\ DOMAIN answers \subseteq Keys /\ \A k \in DOMAIN answers : OfOrders(answers[k], Asked(k))
  /\ DOMAIN entries \subseteq Keys /\ \A k \in DOMAIN entries : OfOrders(entries[k], Asked(k))

StatusSane ==
  /\ DOMAIN status = Orders
  /\ \A o \in Orders : Of(o, status[o])
  /\ \A y \in seen : y[2] \in Nat

ShapeInv == StatusSane /\ AnswersSane /\ OfSome(shown) /\ OfSome(before)

(* The numbers of a status. *)
LEMMA OfFacts ==
  ASSUME NEW o, NEW s, Of(o, s)
  PROVE  /\ s.number \in Nat /\ s.name \in StatusNames
         /\ s.number \in 0 .. LastStatus
         /\ InProgress(s) <=> Even(s.number)
         /\ s.number <= status[o].number
         /\ s.number = status[o].number => s.name = status[o].name
  BY ToastsAssumption DEF Of, StatusValue

(* The orders a key asks for. *)
LEMMA AskedFacts ==
  ASSUME NEW k \in Keys
  PROVE  /\ Asked(k) \subseteq Orders
         /\ k \notin Lists => Asked(k) = {k}
  BY ToastsAssumption DEF Asked, Keys

(* A table with a new entry. *)
LEMMA EnteredFacts ==
  ASSUME NEW k, NEW v, NEW table
  PROVE  /\ DOMAIN Entered(k, v, table) = DOMAIN table \cup {k}
         /\ Entered(k, v, table)[k] = v
         /\ \A x \in DOMAIN table \ {k} : Entered(k, v, table)[x] = table[x]
  BY DEF Entered

(* One table over another. *)
LEMMA OverFacts ==
  ASSUME NEW f, NEW g
  PROVE  /\ DOMAIN Over(f, g) = DOMAIN f \cup DOMAIN g
         /\ \A x \in DOMAIN f : Over(f, g)[x] = f[x]
         /\ \A x \in DOMAIN g \ DOMAIN f : Over(f, g)[x] = g[x]
  BY DEF Over

(* The first state. *)
LEMMA InitShape == ToastsInit => ShapeInv
<1> SUFFICES ASSUME ToastsInit
             PROVE  ShapeInv
  OBVIOUS
<1>1. \A o \in Orders : status[o] = [number |-> 0, name |-> "PENDING_SYNC"]
  BY DEF ToastsInit
<1>2. [number |-> 0, name |-> "PENDING_SYNC"] \in StatusValue
  BY ToastsAssumption DEF StatusValue, StatusNames
<1>3. \A o \in Orders : Of(o, status[o])
  BY <1>1, <1>2 DEF Of, InProgress, Even
<1> QED
  BY <1>3 DEF ToastsInit, ShapeInv, StatusSane, AnswersSane, OfSome, OfOrders, Empty

(* A new status of o makes every other one an older one. *)
LEMMA ChangeMeans ==
  ASSUME ShapeInv, NEW o \in Orders, NEW name \in StatusNames, ChangeStatus(o, name)
  PROVE  /\ DOMAIN status' = Orders
         /\ \A p \in Orders : Of(p, status[p])'
         /\ \A p \in Orders : \A s : Of(p, s) => Of(p, s)'
<1>0. /\ DOMAIN status = Orders /\ \A p \in Orders : Of(p, status[p])
      /\ LastStatus \in Nat
  BY ToastsAssumption DEF ShapeInv, StatusSane
<1> DEFINE old == status[o]
           new == [number |-> old.number + 1, name |-> name]
<1>1. /\ status' = [status EXCEPT ![o] = new]
      /\ old.number < LastStatus
      /\ \/ InProgress(old) /\ name # "PENDING_SYNC"
         \/ old.name = "SYNC_FAILED" /\ name = "PENDING_SYNC"
  BY DEF ChangeStatus
<1>2. old.number \in Nat /\ (InProgress(old) <=> Even(old.number))
  BY <1>0, OfFacts
<1>3. new \in StatusValue /\ new.number = old.number + 1 /\ new.name = name
  BY <1>0, <1>1, <1>2 DEF StatusValue
<1>4. InProgress(new) <=> Even(new.number)
  BY <1>1, <1>2, <1>3, EvenNext DEF InProgress
<1>5. status'[o] = new /\ \A p \in Orders \ {o} : status'[p] = status[p]
  BY <1>0, <1>1
<1>6. ASSUME NEW p \in Orders
      PROVE  Of(p, status[p])'
  <2>1. Of(p, status[p]) /\ status[p].number \in Nat
    BY <1>0, OfFacts
  <2>2. CASE p # o
    BY <1>5, <2>1, <2>2 DEF Of
  <2>3. CASE p = o
    <3>1. new.number \in Nat
      BY <1>2, <1>3
    <3> HIDE DEF new
    <3> QED
      BY <1>3, <1>4, <1>5, <2>3, <3>1 DEF Of
  <2> QED
    BY <2>2, <2>3
<1>7. ASSUME NEW p \in Orders, NEW s, Of(p, s)
      PROVE  Of(p, s)'
  <2>1. s.number \in Nat /\ s.number <= status[p].number
    BY <1>7, OfFacts
  <2>2. p = o => s.number < new.number
    BY <1>2, <1>3, <2>1
  <2> QED
    BY <1>2, <1>3, <1>5, <1>7, <2>1, <2>2 DEF Of
<1> QED
  BY <1>0, <1>1, <1>6, <1>7

(* What a page renders are statuses of orders. *)
LEMMA RenderMeans ==
  ASSUME ShapeInv, NEW k \in Keys, NEW data, OfSome(data), NEW fresh \in BOOLEAN,
         Render(k, data, fresh), UNCHANGED status
  PROVE  OfSome(shown)' /\ OfSome(before)' /\ StatusSane'
<1>0. StatusSane /\ OfSome(before)
  BY DEF ShapeInv
<1>1. OfSome(data)'
  BY DEF OfSome, OfOrders, Of
<1>2. OfSome(before)'
  <2>1. OfSome(Empty)
    BY DEF Empty, OfSome, OfOrders
  <2>2. ASSUME NEW prev, OfSome(prev)
        PROVE  OfSome(Over(data, prev))
    <3>1. DOMAIN Over(data, prev) = DOMAIN data \cup DOMAIN prev
      BY OverFacts
    <3>2. ASSUME NEW o \in DOMAIN data \cup DOMAIN prev
          PROVE  o \in Orders /\ Of(o, Over(data, prev)[o])
      <4>1. CASE o \in DOMAIN data
        BY <4>1, OverFacts DEF OfSome, OfOrders
      <4>2. CASE o \notin DOMAIN data
        <5>1. o \in DOMAIN prev /\ Over(data, prev)[o] = prev[o]
          BY <3>2, <4>2 DEF Over
        <5> QED
          BY <2>2, <5>1 DEF OfSome, OfOrders
      <4> QED
        BY <4>1, <4>2
    <3> QED
      BY <3>1, <3>2 DEF OfSome, OfOrders
  <2>3. \E f : OfSome(f) /\ before' = f
    BY <1>0, <2>1, <2>2 DEF Render, Remembered
  <2> QED
    BY <2>3 DEF OfSome, OfOrders, Of
<1>3. StatusSane'
  <2>1. \A y \in seen' : y \in seen \/ \E o \in DOMAIN data : y[2] = data[o].number
    BY DEF Render
  <2>2. \A o \in DOMAIN data : data[o].number \in Nat
    BY OfFacts DEF OfSome, OfOrders
  <2>3. \A y \in seen' : y[2] \in Nat
    BY <1>0, <2>1, <2>2 DEF StatusSane
  <2> QED
    BY <1>0, <2>3 DEF StatusSane, Of
<1> QED
  BY <1>1, <1>2, <1>3 DEF Render

(* Every step keeps the shape. *)
LEMMA NextShape == ShapeInv /\ [ToastsNext]_toastVars => ShapeInv'
<1> SUFFICES ASSUME ShapeInv, [ToastsNext]_toastVars
             PROVE  ShapeInv'
  OBVIOUS
<1>0. StatusSane /\ AnswersSane /\ OfSome(shown) /\ OfSome(before)
  BY DEF ShapeInv
<1>1. ASSUME UNCHANGED <<status, shown, before, seen>>, AnswersSane'
      PROVE  ShapeInv'
  BY <1>0, <1>1 DEF ShapeInv, StatusSane, OfSome, OfOrders, Of
<1>2. CASE UNCHANGED toastVars
  BY <1>0, <1>1, <1>2 DEF toastVars, AnswersSane, OfOrders, Of
<1>3. ASSUME NEW o \in Orders, NEW name \in StatusNames, ChangeStatus(o, name)
      PROVE  ShapeInv'
  <2>1. /\ DOMAIN status' = Orders
        /\ \A p \in Orders : Of(p, status[p])'
        /\ \A p \in Orders : \A s : Of(p, s) => Of(p, s)'
    BY <1>3, ChangeMeans
  <2>2. UNCHANGED <<answers, entries, shown, before, seen>>
    BY <1>3 DEF ChangeStatus
  <2>3. \A data, os : OfOrders(data, os) => OfOrders(data, os)'
    BY <2>1 DEF OfOrders
  <2> QED
    BY <1>0, <2>1, <2>2, <2>3 DEF ShapeInv, StatusSane, AnswersSane, OfSome
<1>4. ASSUME NEW k \in Keys, NEW data, OfSome(data), NEW fresh \in BOOLEAN,
             Render(k, data, fresh), UNCHANGED <<status, answers, entries>>
      PROVE  ShapeInv'
  BY <1>0, <1>4, RenderMeans DEF ShapeInv, AnswersSane, OfOrders, Of
<1>5. ASSUME NEW k \in Keys, OpenOrders(k) \/ SwitchTo(k)
      PROVE  ShapeInv'
  <2>1. OfSome(Empty)
    BY DEF Empty, OfSome, OfOrders
  <2>2. OfSome(InCache(k, Empty)) /\ OfSome(InCache(k, shown))
    BY <1>0, <2>1 DEF InCache, AnswersSane, OfSome, OfOrders
  <2> QED
    BY <1>4, <1>5, <2>2 DEF OpenOrders, SwitchTo
<1>6. ASSUME NEW k \in Keys, Poll(k)
      PROVE  ShapeInv'
  <2> DEFINE now == [o \in Asked(k) |-> status[o]]
  <2>1. OfOrders(now, Asked(k))
    BY <1>0, AskedFacts DEF StatusSane, OfOrders
  <2>2. /\ answers' = Entered(k, now, answers)
        /\ UNCHANGED <<status, entries, shown, before, seen>>
    BY <1>6 DEF Poll
  <2>3. /\ DOMAIN answers' = DOMAIN answers \cup {k}
        /\ \A x \in DOMAIN answers' : \/ x = k /\ answers'[x] = now
                                      \/ x \in DOMAIN answers /\ answers'[x] = answers[x]
    <3>1. /\ DOMAIN answers' = DOMAIN answers \cup {k}
          /\ answers'[k] = now
          /\ \A x \in DOMAIN answers \ {k} : answers'[x] = answers[x]
      BY <2>2 DEF Entered
    <3> QED
      BY <3>1
  <2>4. AnswersSane'
    BY <1>0, <2>1, <2>2, <2>3 DEF AnswersSane, OfOrders, Of
  <2> QED
    BY <1>1, <2>2, <2>4
<1>7. ASSUME NEW k \in Keys, Receive(k)
      PROVE  ShapeInv'
  <2>1. OfOrders(answers[k], Asked(k)) /\ OfSome(answers[k])
    BY <1>0, <1>7 DEF Receive, AnswersSane, OfSome, OfOrders
  <2>2. /\ entries' = Entered(k, answers[k], entries)
        /\ answers' = [x \in DOMAIN answers \ {k} |-> answers[x]]
        /\ UNCHANGED status
    BY <1>7 DEF Receive
  <2>3. /\ DOMAIN entries' = DOMAIN entries \cup {k}
        /\ \A x \in DOMAIN entries' : \/ x = k /\ entries'[x] = answers[k]
                                      \/ x \in DOMAIN entries /\ entries'[x] = entries[x]
    <3>1. /\ DOMAIN entries' = DOMAIN entries \cup {k}
          /\ entries'[k] = answers[k]
          /\ \A x \in DOMAIN entries \ {k} : entries'[x] = entries[x]
      BY <2>2 DEF Entered
    <3> QED
      BY <3>1
  <2>4. AnswersSane'
    BY <1>0, <2>1, <2>2, <2>3 DEF AnswersSane, OfOrders, Of
  <2>5. CASE opened = k
    <3>1. Render(k, answers[k], FALSE)
      BY <1>7, <2>5 DEF Receive
    <3> QED
      BY <2>1, <2>2, <2>4, <3>1, RenderMeans DEF ShapeInv
  <2>6. CASE opened # k
    BY <1>1, <1>7, <2>4, <2>6 DEF Receive
  <2> QED
    BY <2>5, <2>6
<1>8. ASSUME NEW k \in Keys, PollFails(k) \/ Collect(k)
      PROVE  ShapeInv'
  <2>1. UNCHANGED <<status, shown, before, seen>>
    BY <1>8 DEF PollFails, Collect
  <2>2. AnswersSane'
    BY <1>0, <1>8 DEF PollFails, Collect, AnswersSane, OfOrders, Of
  <2> QED
    BY <1>1, <2>1, <2>2
<1> QED
  BY <1>2, <1>3, <1>5, <1>6, <1>7, <1>8 DEF ToastsNext

-----------------------------------------------------------------------------
(* The toasts: what the user has seen *)

(* s is the newest status of o that the user has seen. *)
Newest(o, s) ==
  /\ Of(o, s)
  /\ <<o, s.number>> \in seen
  /\ \A y \in seen : y[1] = o => y[2] <= s.number

(* The statuses the pages remember are the newest ones. *)
ListRemembers == \A o \in DOMAIN before : Newest(o, before[o])
DetailRemembers == \A s \in lastBefore : opened \in Orders /\ Newest(opened, s)

(* A toast tells for the first time how a sync ended that the user has     *)
(* seen under way.                                                         *)
Told(o, s, again) ==
  /\ ~again /\ o \in Orders
  /\ Of(o, s) /\ <<o, s.number>> \in seen
  /\ \E y \in seen : y[1] = o /\ y[2] < s.number /\ Even(y[2])

StatusOf(toast) == [number |-> toast.number, name |-> toast.name]

AllTold == \A x \in told : Told(x.toast.order, StatusOf(x.toast), x.again)

ToastInv ==
  /\ ShapeInv
  /\ toastCauses = {} => ListRemembers /\ DetailRemembers /\ AllTold

(* A page that shows nothing older shows the newest statuses. *)
LEMMA RenderNewest ==
  ASSUME ShapeInv, NEW k \in Keys, NEW data, OfSome(data), NEW fresh \in BOOLEAN,
         Render(k, data, fresh), UNCHANGED status, toastCauses' = {}
  PROVE  /\ \A o \in DOMAIN data : Newest(o, data[o])'
         /\ \A o, s : o \notin DOMAIN data /\ Newest(o, s) => Newest(o, s)'
         /\ \A o \in DOMAIN data, y \in seen : y[1] = o => y[2] <= data[o].number
<1>0. /\ \A y \in seen : y[2] \in Nat
      /\ \A o \in DOMAIN data : o \in Orders /\ Of(o, data[o]) /\ data[o].number \in Nat
  BY OfFacts DEF ShapeInv, StatusSane, OfSome, OfOrders
<1>1. seen' = seen \cup {<<o, data[o].number>> : o \in DOMAIN data}
  BY DEF Render
<1>2. ~\E x \in seen : x[1] \in DOMAIN data /\ data[x[1]].number < x[2]
  BY DEF Render
<1>3. \A o \in DOMAIN data, y \in seen : y[1] = o => y[2] <= data[o].number
  BY <1>0, <1>2
<1>4. \A o, s : Of(o, s) => Of(o, s)'
  BY DEF Of
<1>5. ASSUME NEW o \in DOMAIN data
      PROVE  Newest(o, data[o])'
  BY <1>0, <1>1, <1>3, <1>4 DEF Newest
<1>6. ASSUME NEW o, NEW s, o \notin DOMAIN data, Newest(o, s)
      PROVE  Newest(o, s)'
  BY <1>1, <1>4, <1>6 DEF Newest
<1> QED
  BY <1>3, <1>5, <1>6

(* Toasts stay what they were. *)
LEMMA ToldStays ==
  ASSUME seen \subseteq seen', \A o \in Orders : \A s : Of(o, s) => Of(o, s)',
         NEW o \in Orders, NEW s, NEW again, Told(o, s, again)
  PROVE  Told(o, s, again)'
  BY DEF Told

(* A new toast is the first one of this end of a sync. *)
LEMMA TellsOnce ==
  ASSUME ShapeInv, AllTold, NEW o \in Orders, NEW was, Newest(o, was), NEW is, Of(o, is),
         was.number <= is.number, NEW x \in Recorded(Tells(o, was, is))
  PROVE  /\ x.toast = Toast(o, is) /\ ~x.again
         /\ \E y \in seen : y[1] = o /\ y[2] < is.number /\ Even(y[2])
<1>1. /\ InProgress(was) /\ ~InProgress(is)
      /\ x = [toast |-> Toast(o, is), again |-> \E y \in told : y.toast = Toast(o, is)]
  BY DEF Recorded, Tells
<1>2. /\ was.number \in Nat /\ is.number \in Nat
      /\ Even(was.number) /\ ~Even(is.number)
  BY <1>1, OfFacts DEF Newest
<1>3. was.number < is.number
  BY <1>2
<1>4. \A y \in told : y.toast # Toast(o, is)
  <2> SUFFICES ASSUME NEW y \in told, y.toast = Toast(o, is)
               PROVE  FALSE
    OBVIOUS
  <2>1. y.toast.order = o /\ y.toast.number = is.number
    BY DEF Toast
  <2>2. <<o, is.number>> \in seen
    BY <2>1 DEF AllTold, Told, StatusOf
  <2>3. is.number <= was.number
    BY <2>2 DEF Newest
  <2> QED
    BY <1>2, <1>3, <2>3
<1>5. <<o, was.number>> \in seen
  BY DEF Newest
<1> QED
  BY <1>1, <1>2, <1>3, <1>4, <1>5

(* Every toast a page gives is such a new one. *)
LEMMA RenderTells ==
  ASSUME ToastInv, NEW k \in Keys, NEW data, OfSome(data), NEW fresh \in BOOLEAN,
         k \in Lists \/ DOMAIN data \subseteq {k} \/ (~fresh /\ k # opened),
         ~fresh => ((k \in Lists) <=> (opened \in Lists)),
         Render(k, data, fresh), UNCHANGED status, toastCauses' = {},
         NEW x \in told' \ told
  PROVE  \E o \in DOMAIN data : x.toast = Toast(o, data[o]) /\ ~x.again
           /\ \E y \in seen : y[1] = o /\ y[2] < data[o].number /\ Even(y[2])
<1>0. /\ ShapeInv /\ ListRemembers /\ DetailRemembers /\ AllTold
  BY DEF ToastInv, Render
<1>1. \A o \in DOMAIN data, y \in seen : y[1] = o => y[2] <= data[o].number
  BY <1>0, RenderNewest
<1>2. \A o \in DOMAIN data : o \in Orders /\ Of(o, data[o])
  BY DEF OfSome, OfOrders
<1>3. ASSUME NEW o \in DOMAIN data, NEW was, Newest(o, was),
             x \in Recorded(Tells(o, was, data[o]))
      PROVE  /\ x.toast = Toast(o, data[o]) /\ ~x.again
             /\ \E y \in seen : y[1] = o /\ y[2] < data[o].number /\ Even(y[2])
  <2>1. was.number <= data[o].number
    BY <1>1, <1>3 DEF Newest
  <2> QED
    BY <1>0, <1>2, <1>3, <2>1, TellsOnce
<1>4. CASE k \in Lists
  <2>1. PICK o \in DOMAIN before \cap DOMAIN data : x \in Recorded(Tells(o, before[o], data[o]))
    BY <1>4 DEF Render, Recorded, ListTells, Empty
  <2> QED
    BY <1>0, <1>3, <2>1 DEF ListRemembers
<1>5. CASE k \notin Lists
  <2>1. PICK was \in lastBefore, o \in DOMAIN data : x \in Recorded(Tells(k, was, data[o])) /\ ~fresh
    BY <1>5 DEF Render, Recorded, DetailTells
  <2>2. k = opened
    BY <1>5, <2>1 DEF Render
  <2>3. o = k
    BY <1>5, <2>2
  <2> QED
    BY <1>0, <1>3, <2>1, <2>2, <2>3 DEF DetailRemembers
<1> QED
  BY <1>4, <1>5

(* A page that is rendered keeps all of it. *)
LEMMA RenderKeeps ==
  ASSUME ToastInv, NEW k \in Keys, NEW data, OfSome(data), NEW fresh \in BOOLEAN,
         k \in Lists \/ DOMAIN data \subseteq {k} \/ (~fresh /\ k # opened),
         ~fresh => ((k \in Lists) <=> (opened \in Lists)),
         Render(k, data, fresh), UNCHANGED status, opened' = k, toastCauses' = {}
  PROVE  ListRemembers' /\ DetailRemembers' /\ AllTold'
<1>0. /\ ShapeInv /\ ListRemembers /\ DetailRemembers /\ AllTold
  BY DEF ToastInv, Render
<1>1. /\ \A o \in DOMAIN data : Newest(o, data[o])'
      /\ \A o, s : o \notin DOMAIN data /\ Newest(o, s) => Newest(o, s)'
  BY <1>0, RenderNewest
<1>2. ListRemembers'
  <2>1. CASE k \in Lists
    <3>1. \E prev : /\ before' = Over(data, prev)
                    /\ \A o \in DOMAIN prev : Newest(o, prev[o])
      BY <1>0, <2>1 DEF Render, Remembered, ListRemembers, Empty
    <3>2. PICK prev : /\ before' = Over(data, prev)
                      /\ \A o \in DOMAIN prev : Newest(o, prev[o])
      BY <3>1
    <3>3. DOMAIN before' = DOMAIN data \cup DOMAIN prev
      BY <3>2 DEF Over
    <3>4. ASSUME NEW o \in DOMAIN data \cup DOMAIN prev
          PROVE  Newest(o, before[o])'
      <4>1. CASE o \in DOMAIN data
        <5>1. before'[o] = data[o]
          BY <3>2, <4>1 DEF Over
        <5> QED
          BY <1>1, <4>1, <5>1
      <4>2. CASE o \notin DOMAIN data
        <5>1. before'[o] = prev[o] /\ o \in DOMAIN prev
          BY <3>2, <3>4, <4>2 DEF Over
        <5> QED
          BY <1>1, <3>2, <4>2, <5>1
      <4> QED
        BY <4>1, <4>2
    <3> QED
      BY <3>3, <3>4 DEF ListRemembers
  <2>2. CASE k \notin Lists
    BY <2>2 DEF Render, ListRemembers, Empty
  <2> QED
    BY <2>1, <2>2
<1>3. DetailRemembers'
  <2> SUFFICES ASSUME NEW s \in lastBefore'
               PROVE  k \in Orders /\ Newest(k, s)'
    BY DEF DetailRemembers
  <2>1. k \notin Lists /\ k \in Orders
    BY DEF Render, Keys
  <2>2. fresh \/ k = opened
    BY <2>1 DEF Render
  <2>3. CASE DOMAIN data = {}
    <3>1. ~fresh /\ s \in lastBefore
      BY <2>1, <2>3 DEF Render
    <3> QED
      BY <1>0, <1>1, <2>1, <2>2, <2>3, <3>1 DEF DetailRemembers
  <2>4. CASE DOMAIN data # {}
    <3>1. PICK o \in DOMAIN data : s = data[o]
      BY <2>1, <2>4 DEF Render
    <3>2. o = k
      BY <2>1, <2>2, <3>1
    <3> QED
      BY <1>1, <2>1, <3>1, <3>2
  <2> QED
    BY <2>3, <2>4
<1>4. AllTold'
  <2> SUFFICES ASSUME NEW x \in told'
               PROVE  Told(x.toast.order, StatusOf(x.toast), x.again)'
    BY DEF AllTold, StatusOf
  <2>0. /\ seen \subseteq seen' /\ \A o, s : Of(o, s) => Of(o, s)'
        /\ \A o \in DOMAIN data : Of(o, data[o]) /\ o \in Orders
        /\ \A o \in DOMAIN data : <<o, data[o].number>> \in seen'
    BY DEF Render, Of, OfSome, OfOrders
  <2>1. CASE x \in told
    BY <1>0, <2>0, <2>1 DEF AllTold, Told, StatusOf
  <2>2. CASE x \notin told
    <3>1. PICK o \in DOMAIN data : x.toast = Toast(o, data[o]) /\ ~x.again
             /\ \E y \in seen : y[1] = o /\ y[2] < data[o].number /\ Even(y[2])
      BY <2>2, RenderTells
    <3>2. x.toast.order = o /\ StatusOf(x.toast) = data[o] /\ data[o].number = StatusOf(x.toast).number
      BY <2>0, <3>1 DEF Toast, StatusOf, Of, StatusValue
    <3> QED
      BY <2>0, <3>1, <3>2 DEF Told
  <2> QED
    BY <2>1, <2>2
<1> QED
  BY <1>2, <1>3, <1>4

(* At first nothing was told. *)
LEMMA InitToasts == ToastsInit => ToastInv
<1> SUFFICES ASSUME ToastsInit
             PROVE  ToastInv
  OBVIOUS
<1>1. ListRemembers /\ DetailRemembers /\ AllTold
  BY DEF ToastsInit, Empty, ListRemembers, DetailRemembers, AllTold
<1> QED
  BY <1>1, InitShape DEF ToastInv

(* Every step keeps the invariant. *)
LEMMA NextToasts == ToastInv /\ [ToastsNext]_toastVars => ToastInv'
<1> SUFFICES ASSUME ToastInv, [ToastsNext]_toastVars, toastCauses' = {}
             PROVE  ListRemembers' /\ DetailRemembers' /\ AllTold'
  BY NextShape DEF ToastInv
<1>0. ShapeInv /\ StatusSane /\ AnswersSane /\ OfSome(shown)
  BY DEF ToastInv, ShapeInv
<1>1. ASSUME UNCHANGED <<before, lastBefore, opened, seen, told, toastCauses>>,
             \A o \in Orders : \A s : Of(o, s) => Of(o, s)'
      PROVE  ListRemembers' /\ DetailRemembers' /\ AllTold'
  <2>1. ListRemembers /\ DetailRemembers /\ AllTold /\ OfSome(before)
    BY <1>1 DEF ToastInv, ShapeInv
  <2> QED
    BY <1>1, <2>1 DEF ListRemembers, DetailRemembers, AllTold, Newest, Told, StatusOf, OfSome,
       OfOrders
<1>2. CASE UNCHANGED toastVars
  BY <1>1, <1>2 DEF toastVars, Of
<1>3. ASSUME NEW o \in Orders, NEW name \in StatusNames, ChangeStatus(o, name)
      PROVE  ListRemembers' /\ DetailRemembers' /\ AllTold'
  BY <1>0, <1>1, <1>3, ChangeMeans DEF ChangeStatus
<1>4. ASSUME NEW k \in Keys, OpenOrders(k)
      PROVE  ListRemembers' /\ DetailRemembers' /\ AllTold'
  <2> DEFINE data == InCache(k, Empty)
  <2>1. OfSome(data) /\ (k \in Lists \/ DOMAIN data \subseteq {k})
    BY <1>0, AskedFacts DEF InCache, Empty, AnswersSane, OfSome, OfOrders
  <2>2. Render(k, data, TRUE) /\ UNCHANGED status /\ opened' = k
    BY <1>4 DEF OpenOrders
  <2> HIDE DEF data
  <2> QED
    BY <2>1, <2>2, RenderKeeps
<1>5. ASSUME NEW k \in Keys, SwitchTo(k)
      PROVE  ListRemembers' /\ DetailRemembers' /\ AllTold'
  <2> DEFINE data == InCache(k, shown)
  <2>1. OfSome(data)
    BY <1>0 DEF InCache, AnswersSane, OfSome, OfOrders
  <2>2. /\ Render(k, data, FALSE) /\ UNCHANGED status /\ opened' = k
        /\ k # opened /\ ((k \in Lists) <=> (opened \in Lists))
    BY <1>5 DEF SwitchTo
  <2> HIDE DEF data
  <2> QED
    BY <2>1, <2>2, RenderKeeps
<1>6. ASSUME NEW k \in Keys, Receive(k)
      PROVE  ListRemembers' /\ DetailRemembers' /\ AllTold'
  <2>1. CASE opened = k
    <3>1. OfSome(answers[k]) /\ (k \in Lists \/ DOMAIN answers[k] \subseteq {k})
      BY <1>0, <1>6, AskedFacts DEF Receive, AnswersSane, OfSome, OfOrders
    <3>2. Render(k, answers[k], FALSE) /\ UNCHANGED status /\ opened' = k
      BY <1>6, <2>1 DEF Receive
    <3> QED
      BY <2>1, <3>1, <3>2, RenderKeeps
  <2>2. CASE opened # k
    BY <1>1, <1>6, <2>2 DEF Receive, Of
  <2> QED
    BY <2>1, <2>2
<1>7. ASSUME NEW k \in Keys, Poll(k) \/ PollFails(k) \/ Collect(k)
      PROVE  ListRemembers' /\ DetailRemembers' /\ AllTold'
  BY <1>1, <1>7 DEF Poll, PollFails, Collect, Of
<1> QED
  BY <1>2, <1>3, <1>4, <1>5, <1>6, <1>7 DEF ToastsNext

(* useOrderSyncTransitionToasts.ts, "at-most-once toasts": the same end of *)
(* a sync is told once, the known exceptions aside.                        *)
THEOREM ToldAtMostOnce == ToastsSpec => []ToldOnce
<1>1. ToastInv => ToldOnce
  BY DEF ToastInv, AllTold, Told, ToldOnce
<1> QED
  BY <1>1, InitToasts, NextToasts, PTL DEF ToastsSpec

(* A toast is about an order that the user has seen in progress and that   *)
(* has ended as the toast says.                                            *)
THEOREM ToldTheTruth == ToastsSpec => []ToldTruly
<1>1. ToastInv => ToldTruly
  <2> SUFFICES ASSUME ToastInv, toastCauses = {}, NEW x \in told
               PROVE  LET s == status[x.toast.order] IN
                        /\ x.toast.number <= s.number
                        /\ x.toast.number = s.number => x.toast.name = s.name
                        /\ \E y \in seen : /\ y[1] = x.toast.order /\ y[2] < x.toast.number
                                           /\ y[2] % 2 = 0
    BY DEF ToldTruly
  <2>1. Told(x.toast.order, StatusOf(x.toast), x.again)
    BY DEF ToastInv, AllTold
  <2>2. StatusOf(x.toast).number = x.toast.number /\ StatusOf(x.toast).name = x.toast.name
    BY DEF StatusOf
  <2> QED
    BY <2>1, <2>2 DEF Told, Of, Even
<1> QED
  BY <1>1, InitToasts, NextToasts, PTL DEF ToastsSpec

-----------------------------------------------------------------------------
(* The toasts: types *)

(* A detail page shows one order at most: its own, or the one it showed    *)
(* before its key changed.                                                 *)
OneShown == opened \notin Lists => \E o : DOMAIN shown \subseteq {o}

ToastTypes == ToastsTypeOK /\ ShapeInv /\ OneShown

(* What a page renders keeps the types. *)
LEMMA RenderTypes ==
  ASSUME ToastTypes, NEW k \in Keys, NEW data, OfSome(data), NEW fresh \in BOOLEAN,
         k \notin Lists => \E o : DOMAIN data \subseteq {o},
         Render(k, data, fresh), opened' = k, moves' \in 0 .. MaxMoves, ShapeInv',
         UNCHANGED status,
         \A x \in DOMAIN answers' : x \in Keys /\ answers'[x] \in Answer(x),
         \A x \in DOMAIN entries' : x \in Keys /\ entries'[x] \in Answer(x)
  PROVE  ToastTypes'
<1>1. \A o \in DOMAIN data : o \in Orders /\ data[o] \in StatusValue /\ data[o].number \in 0 .. LastStatus
  BY OfFacts DEF OfSome, OfOrders, Of
<1>2. /\ \A o \in DOMAIN shown' : shown'[o] \in StatusValue
      /\ \A o \in DOMAIN before' : before'[o] \in StatusValue
  BY DEF ShapeInv, OfSome, OfOrders, Of
<1>3. lastBefore' \subseteq StatusValue /\ Cardinality(lastBefore') <= 1
  <2>1. Cardinality({}) = 0 /\ lastBefore \subseteq StatusValue /\ Cardinality(lastBefore) <= 1
    BY FS_EmptySet DEF ToastTypes, ToastsTypeOK
  <2>2. CASE lastBefore' = {} \/ lastBefore' = lastBefore
    BY <2>1, <2>2, SMTT(30)
  <2>3. CASE k \notin Lists /\ lastBefore' = {data[x] : x \in DOMAIN data} /\ DOMAIN data # {}
    <3>1. PICK o : DOMAIN data = {o}
      BY <2>3
    <3>2. lastBefore' = {data[o]}
      BY <2>3, <3>1
    <3>3. Cardinality({data[o]}) = 1
      BY FS_Singleton
    <3> QED
      BY <1>1, <3>1, <3>2, <3>3
  <2> QED
    BY <2>2, <2>3 DEF Render
<1>4. seen' \subseteq Orders \X (0 .. LastStatus)
  BY <1>1 DEF Render, ToastTypes, ToastsTypeOK
<1>5. toastCauses' \subseteq {"older", "switched"}
  BY DEF Render, ToastTypes, ToastsTypeOK
<1>6. OneShown'
  BY DEF Render, OneShown
<1>7. status' \in [Orders -> StatusValue] /\ opened' \in Keys \cup {"none"}
  BY DEF ToastTypes, ToastsTypeOK
<1> QED
  BY <1>2, <1>3, <1>4, <1>5, <1>6, <1>7 DEF ToastTypes, ToastsTypeOK, Answer, Keys

(* Every step keeps the types. *)
LEMMA NextToastTypes == ToastTypes /\ [ToastsNext]_toastVars => ToastTypes'
<1> SUFFICES ASSUME ToastTypes, [ToastsNext]_toastVars
             PROVE  ToastTypes'
  OBVIOUS
<1>1. ShapeInv /\ ShapeInv'
  BY NextShape DEF ToastTypes
<1>2. /\ status \in [Orders -> StatusValue]
      /\ \A x \in DOMAIN answers : x \in Keys /\ answers[x] \in Answer(x)
      /\ \A x \in DOMAIN entries : x \in Keys /\ entries[x] \in Answer(x)
  BY DEF ToastTypes, ToastsTypeOK
<1>3. ASSUME UNCHANGED <<opened, moves, shown, before, lastBefore, seen, toastCauses>>,
             status' \in [Orders -> StatusValue],
             \A x \in DOMAIN answers' : x \in Keys /\ answers'[x] \in Answer(x),
             \A x \in DOMAIN entries' : x \in Keys /\ entries'[x] \in Answer(x)
      PROVE  ToastTypes'
  BY <1>1, <1>3 DEF ToastTypes, ToastsTypeOK, OneShown, Answer
<1>4. CASE UNCHANGED toastVars
  BY <1>2, <1>3, <1>4 DEF toastVars
<1>5. ASSUME NEW o \in Orders, NEW name \in StatusNames, ChangeStatus(o, name)
      PROVE  ToastTypes'
  <2>1. /\ status[o].number \in Nat /\ status[o].number < LastStatus
        /\ status' = [status EXCEPT ![o] = [number |-> status[o].number + 1, name |-> name]]
    BY <1>1, <1>5, OfFacts DEF ChangeStatus, ShapeInv, StatusSane
  <2>2. [number |-> status[o].number + 1, name |-> name] \in StatusValue
    BY <2>1, ToastsAssumption DEF StatusValue
  <2> QED
    BY <1>2, <1>3, <1>5, <2>1, <2>2 DEF ChangeStatus
<1>6. ASSUME NEW k \in Keys, OpenOrders(k) \/ SwitchTo(k)
      PROVE  ToastTypes'
  <2>1. OfSome(Empty) /\ DOMAIN Empty = {} /\ OfSome(shown)
    BY <1>1 DEF Empty, OfSome, OfOrders, ShapeInv
  <2>2. \A data : OfSome(data) => OfSome(InCache(k, data))
    BY <1>1 DEF InCache, OfSome, OfOrders, ShapeInv, AnswersSane
  <2>3. k \in DOMAIN entries /\ k \notin Lists => DOMAIN entries[k] = {k}
    BY <1>2 DEF Answer, Asked
  <2>4. CASE OpenOrders(k)
    <3>1. PICK data : data = InCache(k, Empty)
      OBVIOUS
    <3>2. OfSome(data) /\ (k \notin Lists => \E o : DOMAIN data \subseteq {o})
      BY <2>1, <2>2, <2>3, <3>1 DEF InCache
    <3>3. /\ Render(k, data, TRUE) /\ opened' = k /\ moves' = moves + 1 /\ moves < MaxMoves
          /\ UNCHANGED <<status, answers, entries>>
      BY <2>4, <3>1 DEF OpenOrders
    <3>4. moves' \in 0 .. MaxMoves
      BY <3>3, ToastsAssumption DEF ToastTypes, ToastsTypeOK
    <3> QED
      BY <1>1, <1>2, <3>2, <3>3, <3>4, RenderTypes
  <2>5. CASE SwitchTo(k)
    <3>1. PICK data : data = InCache(k, shown)
      OBVIOUS
    <3>2. OfSome(data) /\ ((k \in Lists) = (opened \in Lists))
      BY <2>1, <2>2, <2>5, <3>1 DEF SwitchTo
    <3>3. k \notin Lists => \E o : DOMAIN data \subseteq {o}
      BY <2>3, <3>1, <3>2 DEF InCache, ToastTypes, OneShown
    <3>4. /\ Render(k, data, FALSE) /\ opened' = k /\ moves' = moves + 1 /\ moves < MaxMoves
          /\ UNCHANGED <<status, answers, entries>>
      BY <2>5, <3>1 DEF SwitchTo
    <3>5. moves' \in 0 .. MaxMoves
      BY <3>4, ToastsAssumption DEF ToastTypes, ToastsTypeOK
    <3> QED
      BY <1>1, <1>2, <3>2, <3>3, <3>4, <3>5, RenderTypes
  <2> QED
    BY <1>6, <2>4, <2>5
<1>7. ASSUME NEW k \in Keys, Poll(k)
      PROVE  ToastTypes'
  <2>1. Asked(k) \subseteq Orders
    BY AskedFacts
  <2>2. [o \in Asked(k) |-> status[o]] \in Answer(k)
    BY <1>2, <2>1 DEF Answer
  <2> QED
    BY <1>2, <1>3, <1>7, <2>2 DEF Poll, Entered
<1>8. ASSUME NEW k \in Keys, Receive(k)
      PROVE  ToastTypes'
  <2>1. /\ \A x \in DOMAIN answers' : x \in Keys /\ answers'[x] \in Answer(x)
        /\ \A x \in DOMAIN entries' : x \in Keys /\ entries'[x] \in Answer(x)
    BY <1>2, <1>8 DEF Receive, Entered
  <2>2. CASE opened = k
    <3>1. Render(k, answers[k], FALSE) /\ OfSome(answers[k]) /\ answers[k] \in Answer(k)
      BY <1>1, <1>2, <1>8, <2>2 DEF Receive, ShapeInv, AnswersSane, OfSome, OfOrders
    <3>2. k \notin Lists => DOMAIN answers[k] = {k}
      BY <3>1 DEF Answer, Asked
    <3>3. UNCHANGED <<status, opened, moves>> /\ moves' \in 0 .. MaxMoves /\ opened' = k
      BY <1>8, <2>2 DEF Receive, ToastTypes, ToastsTypeOK
    <3>4. k \notin Lists => \E o : DOMAIN answers[k] \subseteq {o}
      BY <3>2
    <3> HIDE <3>2
    <3> QED
      BY <1>1, <2>1, <3>1, <3>3, <3>4, RenderTypes
  <2>3. CASE opened # k
    BY <1>2, <1>3, <1>8, <2>1, <2>3 DEF Receive
  <2> QED
    BY <2>2, <2>3
<1>9. ASSUME NEW k \in Keys, PollFails(k) \/ Collect(k)
      PROVE  ToastTypes'
  BY <1>2, <1>3, <1>9 DEF PollFails, Collect
<1> QED
  BY <1>4, <1>5, <1>6, <1>7, <1>8, <1>9 DEF ToastsNext

(* Statuses, answers, the cache and what the hooks remember have their     *)
(* shape, and a detail page remembers one status at most.                  *)
THEOREM ToastTypesKept == ToastsSpec => []ToastsTypeOK
<1>1. ToastsInit => ToastTypes
  <2> SUFFICES ASSUME ToastsInit
               PROVE  ToastTypes
    OBVIOUS
  <2>1. DOMAIN Empty = {} /\ Cardinality({}) = 0
    BY FS_EmptySet DEF Empty
  <2>2. [number |-> 0, name |-> "PENDING_SYNC"] \in StatusValue
    BY ToastsAssumption DEF StatusValue, StatusNames
  <2>3. status \in [Orders -> StatusValue] /\ moves \in 0 .. MaxMoves
    BY <2>2, ToastsAssumption DEF ToastsInit
  <2>4. DOMAIN answers = {} /\ DOMAIN entries = {} /\ DOMAIN shown = {} /\ DOMAIN before = {}
    BY <2>1 DEF ToastsInit
  <2>5. OneShown /\ ShapeInv
    BY <2>4, InitShape DEF OneShown
  <2> QED
    BY <2>1, <2>3, <2>4, <2>5 DEF ToastsInit, ToastTypes, ToastsTypeOK
<1>2. ToastTypes => ToastsTypeOK
  BY DEF ToastTypes
<1> QED
  BY <1>1, <1>2, NextToastTypes, PTL DEF ToastsSpec

-----------------------------------------------------------------------------
(* The pictures: the least of a set of numbers *)

(* A nonempty set of numbers has a least element. *)
LEMMA LeastExists ==
  ASSUME NEW S \in SUBSET Nat, S # {}
  PROVE  \E i \in S : \A j \in S : i <= j
<1> DEFINE R == {p \in Nat \X Nat : p[1] < p[2]}
<1>1. IsWellFoundedOn(R, Nat)
  <2>1. R = OpToRel(<, Nat)
    BY DEF OpToRel
  <2> QED
    BY <2>1, NatLessThanWellFounded
<1>2. \E i \in S : \A j \in S : ~ (<<j, i>> \in R)
  <2> HIDE DEF R
  <2> QED
    BY <1>1, WFMin
<1>3. PICK i \in S : \A j \in S : ~ (<<j, i>> \in R)
  BY <1>2
<1>4. ASSUME NEW j \in S
      PROVE  i <= j
  <2>1. i \in Nat /\ j \in Nat /\ <<j, i>> \in Nat \X Nat /\ ~ (<<j, i>> \in R)
    BY <1>3, <1>4
  <2>2. ~ (j < i)
    BY <2>1
  <2> QED
    BY <2>1, <2>2
<1> QED
  BY <1>4

-----------------------------------------------------------------------------
(* The pictures: lists *)

(* A list has each picture once. *)
ListSane(images) ==
  /\ images \in Seq(Image)
  /\ \A i, j \in DOMAIN images : images[i].id = images[j].id => i = j

(* A push. *)
LEMMA Pushed ==
  ASSUME NEW images, ListSane(images), NEW i \in Pictures, i \notin IdsOf(images),
         NEW c \in BOOLEAN
  PROVE  /\ ListSane(Append(images, [id |-> i, isCover |-> c]))
         /\ IdsOf(Append(images, [id |-> i, isCover |-> c])) = IdsOf(images) \cup {i}
<1> DEFINE new == [id |-> i, isCover |-> c]
           more == Append(images, new)
<1>1. /\ images \in Seq(Image) /\ Len(images) \in Nat /\ DOMAIN images = 1 .. Len(images)
      /\ new \in Image /\ new.id = i
  BY DEF ListSane, Image
<1> HIDE DEF new
<1>2. /\ more \in Seq(Image) /\ Len(more) = Len(images) + 1
      /\ DOMAIN more = 1 .. Len(images) + 1
      /\ \A k \in 1 .. Len(images) : more[k] = images[k]
      /\ more[Len(images) + 1] = new
  BY <1>1
<1> HIDE DEF more
<1>3. \A k \in DOMAIN images : images[k].id # i
  BY DEF IdsOf
<1>4. ListSane(more)
  <2>1. ASSUME NEW k \in DOMAIN more, NEW l \in DOMAIN more, more[k].id = more[l].id
        PROVE  k = l
    <3>1. CASE k \in DOMAIN images /\ l \in DOMAIN images
      BY <1>1, <1>2, <2>1, <3>1 DEF ListSane
    <3>2. CASE k \notin DOMAIN images /\ l \notin DOMAIN images
      BY <1>1, <1>2, <3>2
    <3>3. CASE k \in DOMAIN images /\ l \notin DOMAIN images
      <4>1. l = Len(images) + 1
        BY <1>1, <1>2, <3>3
      <4> QED
        BY <1>1, <1>2, <1>3, <2>1, <3>3, <4>1
    <3>4. CASE k \notin DOMAIN images /\ l \in DOMAIN images
      <4>1. k = Len(images) + 1
        BY <1>1, <1>2, <3>4
      <4> QED
        BY <1>1, <1>2, <1>3, <2>1, <3>4, <4>1
    <3> QED
      BY <3>1, <3>2, <3>3, <3>4
  <2> QED
    BY <1>2, <2>1 DEF ListSane
<1>5. IdsOf(more) = IdsOf(images) \cup {i}
  <2>1. ASSUME NEW k \in DOMAIN more
        PROVE  more[k].id \in IdsOf(images) \cup {i}
    BY <1>1, <1>2 DEF IdsOf
  <2>2. ASSUME NEW k \in DOMAIN images
        PROVE  images[k].id \in IdsOf(more)
    <3>1. k \in DOMAIN more /\ more[k] = images[k]
      BY <1>1, <1>2
    <3> QED
      BY <3>1 DEF IdsOf
  <2>3. i \in IdsOf(more)
    <3>1. Len(images) + 1 \in DOMAIN more /\ more[Len(images) + 1].id = i
      BY <1>1, <1>2
    <3> QED
      BY <3>1 DEF IdsOf
  <2> QED
    BY <2>1, <2>2, <2>3 DEF IdsOf
<1> QED
  BY <1>4, <1>5 DEF more, new

(* A deletion takes out one picture. *)
LEMMA Filtered ==
  ASSUME NEW p, ListSane(request[p].copy.images), p[2] \in IdsOf(request[p].copy.images)
  PROVE  /\ ListSane(Remaining(p))
         /\ IdsOf(Remaining(p)) = IdsOf(request[p].copy.images) \ {p[2]}
         /\ Remaining(p) = <<>> \/ Remaining(p)[1].id \in IdsOf(Remaining(p))
<1> DEFINE images == request[p].copy.images
           gone   == CHOOSE i \in DOMAIN images : images[i].id = p[2]
           kept   == Others(p)
           left   == Remaining(p)
<1>1. images \in Seq(Image) /\ \A i, j \in DOMAIN images : images[i].id = images[j].id => i = j
  BY DEF ListSane
<1>2. gone \in DOMAIN images /\ images[gone].id = p[2]
  BY DEF IdsOf
<1>3. kept = [i \in 1 .. Len(images) - 1 |-> IF i < gone THEN images[i] ELSE images[i + 1]]
  BY DEF Others
<1>4. left = [i \in DOMAIN kept |-> [id |-> kept[i].id,
                isCover |-> kept[i].isCover \/ (i = 1 /\ request[p].copy.coverImageId = p[2])]]
  BY DEF Remaining
<1> HIDE DEF images, gone, kept, left
<1>5. Len(images) \in Nat /\ DOMAIN images = 1 .. Len(images) /\ gone \in 1 .. Len(images)
  BY <1>1, <1>2
<1>6. DOMAIN kept = 1 .. Len(images) - 1 /\ DOMAIN left = 1 .. Len(images) - 1
  BY <1>3, <1>4
<1>7. \A i \in DOMAIN left : /\ i < gone => i \in DOMAIN images /\ left[i].id = images[i].id
                             /\ ~ (i < gone) => i + 1 \in DOMAIN images /\ left[i].id = images[i + 1].id
  BY <1>3, <1>4, <1>5, <1>6
<1>8. \A i \in DOMAIN left : left[i] \in Image
  <2> SUFFICES ASSUME NEW i \in DOMAIN left
               PROVE  left[i] \in Image
    OBVIOUS
  <2>1. left[i].id \in Pictures
    <3>1. \E k \in DOMAIN images : left[i].id = images[k].id
      BY <1>7
    <3>2. \A k \in DOMAIN images : images[k] \in Image
      BY <1>1
    <3> QED
      BY <3>1, <3>2 DEF Image
  <2>2. left[i] = [id |-> left[i].id, isCover |-> left[i].isCover] /\ left[i].isCover \in BOOLEAN
    BY <1>4, <1>6
  <2> QED
    BY <2>1, <2>2 DEF Image
<1>9. left \in Seq(Image)
  <2>1. Len(images) - 1 \in Nat
    BY <1>5
  <2>2. left \in [1 .. Len(images) - 1 -> Image]
    <3>1. left = [i \in 1 .. Len(images) - 1 |-> left[i]]
      BY <1>4, <1>6
    <3> QED
      BY <1>6, <1>8, <3>1
  <2> QED
    BY <2>1, <2>2
<1>10. ListSane(left)
  <2>1. ASSUME NEW i \in DOMAIN left, NEW j \in DOMAIN left, left[i].id = left[j].id
        PROVE  i = j
    BY <1>1, <1>5, <1>6, <1>7, <2>1, SMTT(30)
  <2> QED
    BY <1>9, <2>1 DEF ListSane
<1>11. IdsOf(left) = IdsOf(images) \ {p[2]}
  <2>1. ASSUME NEW i \in DOMAIN left
        PROVE  left[i].id \in IdsOf(images) /\ left[i].id # p[2]
    BY <1>1, <1>2, <1>5, <1>6, <1>7 DEF IdsOf
  <2>2. ASSUME NEW i \in DOMAIN images, images[i].id # p[2]
        PROVE  images[i].id \in IdsOf(left)
    <3>1. CASE i < gone
      <4>1. i \in DOMAIN left /\ left[i].id = images[i].id
        BY <1>5, <1>6, <1>7, <3>1
      <4> QED
        BY <4>1 DEF IdsOf
    <3>2. CASE ~ (i < gone)
      <4>1. i - 1 \in DOMAIN left /\ ~ (i - 1 < gone) /\ (i - 1) + 1 = i
        BY <1>2, <1>5, <1>6, <2>2, <3>2
      <4>2. left[i - 1].id = images[i].id
        BY <1>7, <4>1
      <4> QED
        BY <4>1, <4>2 DEF IdsOf
    <3> QED
      BY <3>1, <3>2
  <2> QED
    BY <2>1, <2>2 DEF IdsOf
<1>12. left = <<>> \/ left[1].id \in IdsOf(left)
  <2>1. CASE Len(left) = 0
    BY <1>9, <2>1
  <2>2. CASE Len(left) # 0
    <3>1. 1 \in DOMAIN left
      BY <1>9, <2>2
    <3> QED
      BY <3>1 DEF IdsOf
  <2> QED
    BY <2>1, <2>2
<1> QED
  BY <1>10, <1>11, <1>12 DEF left, images

(* The first picture that is a cover is in the list. *)
LEMMA CoverFacts ==
  ASSUME NEW images, ListSane(images)
  PROVE  CoverOf(images) \in IdsOf(images) \cup {NoPicture}
<1> DEFINE covers == {i \in DOMAIN images : images[i].isCover}
<1>1. CASE covers = {}
  BY <1>1 DEF CoverOf
<1>2. CASE covers # {}
  <2>1. covers \in SUBSET Nat
    BY DEF ListSane
  <2>2. \E i \in covers : \A j \in covers : i <= j
    <3> HIDE DEF covers
    <3> QED
      BY <1>2, <2>1, LeastExists
  <2> DEFINE i == CHOOSE i \in covers : \A j \in covers : i <= j
  <2>3. i \in covers
    BY <2>2
  <2>4. CoverOf(images) = images[i].id
    BY <1>2 DEF CoverOf
  <2> QED
    BY <2>3, <2>4 DEF IdsOf
<1> QED
  BY <1>1, <1>2

-----------------------------------------------------------------------------
(* The pictures: the mapping and the requests *)

GallerySane(g) ==
  /\ DOMAIN g = {"there", "images", "coverImageId", "version"}
  /\ ListSane(g.images)
  /\ g.version \in Nat
  /\ ~g.there => g.images = <<>>

RequestSane(x) ==
  /\ DOMAIN x = {"at", "op", "isCover", "copy", "picture"}
  /\ x.at \in {"find", "showFirst", "save", "show"}
  /\ x.op \in {"add", "cover", "delete"}
  /\ x.isCover \in BOOLEAN
  /\ x.at = "showFirst" => x.op = "add" /\ x.isCover /\ kind = "product"

(* A request that is about to add its picture, or to write a list of those *)
(* that are left.                                                          *)
Adding(p)   == request[p].op = "add" /\ request[p].at # "show"
Deleting(p) == request[p].op = "delete" /\ request[p].at = "save"

(* A deletion has read a list with its picture; while the version is the   *)
(* same, so is the list.                                                   *)
CopySane(p) ==
  Deleting(p) =>
    /\ ListSane(request[p].copy.images)
    /\ p[2] \in IdsOf(request[p].copy.images)
    /\ gallery.there
    /\ request[p].copy.version \in Nat /\ request[p].copy.version <= gallery.version
    /\ request[p].copy.version = gallery.version => request[p].copy.images = gallery.images

GalleryInv ==
  /\ kind \in {"product", "category"}
  /\ GallerySane(gallery)
  /\ used \in 0 .. MaxPictures /\ \A i \in Pictured : i <= used
  /\ DOMAIN request \subseteq Requests
  /\ \A p \in DOMAIN request : RequestSane(request[p]) /\ CopySane(p)

ScreenInv ==
  /\ DOMAIN screen = Admins
  /\ \A a \in Admins : /\ DOMAIN screen[a] = {"seen", "uploading"}
                       /\ screen[a].uploading \in 0 .. used
                       /\ screen[a].seen \subseteq Pictures

(* A picture on its way is new, and is on its way once. *)
NewPictures ==
  /\ \A a \in Admins : screen[a].uploading # NoPicture =>
       /\ screen[a].uploading \notin Pictured
       /\ \A b \in Admins : screen[b].uploading = screen[a].uploading => a = b
  /\ \A p \in DOMAIN request : Adding(p) =>
       /\ p[2] \notin Pictured /\ p[2] <= used
       /\ \A b \in Admins : screen[b].uploading # p[2]
       /\ \A q \in DOMAIN request : Adding(q) /\ q[2] = p[2] => q = p

(* A page that adds a picture does nothing else. *)
OneByOne ==
  \A p \in DOMAIN request : request[p].op = "add" =>
    /\ screen[p[1]].uploading = NoPicture
    /\ \A q \in DOMAIN request : q[1] = p[1] => q = p

PicturesSane == GalleryInv /\ ScreenInv /\ NewPictures /\ OneByOne

(* The first state. *)
LEMMA InitPictures == ImgInit => PicturesSane
<1> SUFFICES ASSUME ImgInit
             PROVE  PicturesSane
  OBVIOUS
<1>1. request = <<>> /\ DOMAIN request = {}
  BY DEF ImgInit
<1>2. GallerySane(gallery) /\ used \in 0 .. MaxPictures /\ \A i \in Pictured : i <= used
  <2>1. CASE gallery = NoGallery /\ used = 0
    BY <2>1, ImagesAssumption DEF GallerySane, ListSane, NoGallery, Pictured, IdsOf
  <2>2. CASE /\ gallery = [there |-> TRUE, images |-> <<[id |-> First, isCover |-> TRUE]>>,
                           coverImageId |-> First, version |-> 0]
             /\ used = 1
    <3> DEFINE new == [id |-> First, isCover |-> TRUE]
    <3>1. new \in Image /\ new.id = 1
      BY ImagesAssumption DEF Image, Pictures, First
    <3> HIDE DEF new
    <3>2. <<new>> \in Seq(Image) /\ DOMAIN <<new>> = {1} /\ <<new>>[1] = new
      BY <3>1
    <3>3. gallery.images = <<new>>
      BY <2>2 DEF new
    <3>4. ListSane(gallery.images) /\ Pictured = {1}
      BY <3>1, <3>2, <3>3 DEF ListSane, Pictured, IdsOf
    <3> QED
      BY <2>2, <3>4, ImagesAssumption DEF GallerySane
  <2> QED
    BY <2>1, <2>2 DEF ImgInit
<1>3. screen = [a \in Admins |-> [seen |-> {}, uploading |-> NoPicture]]
  BY DEF ImgInit
<1>4. GalleryInv
  BY <1>1, <1>2 DEF GalleryInv, ImgInit
<1>5. ScreenInv
  BY <1>2, <1>3 DEF ScreenInv, NoPicture
<1>6. NewPictures /\ OneByOne
  BY <1>1, <1>3 DEF NewPictures, OneByOne
<1> QED
  BY <1>4, <1>5, <1>6 DEF PicturesSane

(* A request takes a step: it goes on, or ends. *)
LEMMA RequestMoves ==
  ASSUME PicturesSane, NEW p \in DOMAIN request, Serve(p)
  PROVE  /\ UNCHANGED <<kind, used, acts, screen>> /\ imgCauses \subseteq imgCauses'
         /\ DOMAIN request' \in {DOMAIN request, DOMAIN request \ {p}}
         /\ \A q \in DOMAIN request' : q # p => request'[q] = request[q]
         /\ request[p].at = "show" => p \notin DOMAIN request'
         /\ p \in DOMAIN request' =>
              /\ RequestSane(request[p])'
              /\ request'[p].op = request[p].op
              /\ request'[p].at # "find"
              /\ request[p].at = "save" => request'[p].at = "show"
              /\ request'[p].at = "save" /\ request[p].at = "find" =>
                   /\ request'[p].copy = gallery
                   /\ request[p].op # "add" => p[2] \in Pictured
              /\ request'[p].at \in {"save", "showFirst"} /\ request[p].at = "find" =>
                   request'[p].picture = p[2]
<1> USE DEF PicturesSane, GalleryInv
<1>1. RequestSane(request[p])
  OBVIOUS
<1>2. CASE FindMapping(p)
  <2>1. CASE request[p].op # "add" /\ p[2] \notin Pictured
    BY <1>1, <1>2, <2>1 DEF FindMapping, Finish
  <2>2. CASE ~ (request[p].op # "add" /\ p[2] \notin Pictured)
    <3>1. request' = [request EXCEPT
              ![p].at = IF request[p].op = "add" /\ kind = "product" /\ request[p].isCover
                          THEN "showFirst" ELSE "save",
              ![p].isCover = AsCover(p), ![p].copy = gallery, ![p].picture = p[2]]
      BY <1>2, <2>2 DEF FindMapping
    <3>2. /\ DOMAIN request' = DOMAIN request
          /\ \A q \in DOMAIN request' : q # p => request'[q] = request[q]
      BY <3>1
    <3>3. /\ DOMAIN request'[p] = {"at", "op", "isCover", "copy", "picture"}
          /\ request'[p].at = IF request[p].op = "add" /\ kind = "product" /\ request[p].isCover
                                THEN "showFirst" ELSE "save"
          /\ request'[p].isCover = AsCover(p)
          /\ request'[p].copy = gallery /\ request'[p].picture = p[2]
          /\ request'[p].op = request[p].op
      BY <1>1, <3>1 DEF RequestSane
    <3>4. AsCover(p) \in BOOLEAN /\ (request[p].isCover => AsCover(p))
      BY DEF AsCover
    <3> QED
      BY <1>1, <1>2, <2>2, <3>2, <3>3, <3>4 DEF FindMapping, RequestSane
  <2> QED
    BY <2>1, <2>2
<1>3. CASE ShowFirst(p)
  <2>1. /\ DOMAIN request' = DOMAIN request
        /\ request'[p] = [request[p] EXCEPT !.at = "save"]
        /\ \A q \in DOMAIN request' : q # p => request'[q] = request[q]
    BY <1>3 DEF ShowFirst, ToStage
  <2> QED
    BY <1>1, <1>3, <2>1 DEF ShowFirst, RequestSane
<1>4. CASE SaveAdd(p)
  <2>1. CASE Finish(p)
    BY <1>4, <2>1 DEF SaveAdd, Finish, Refused
  <2>2. CASE ToStage(p, "show")
    <3>1. /\ DOMAIN request' = DOMAIN request
          /\ request'[p] = [request[p] EXCEPT !.at = "show"]
          /\ \A q \in DOMAIN request' : q # p => request'[q] = request[q]
      BY <2>2 DEF ToStage
    <3> QED
      BY <1>1, <1>4, <3>1 DEF SaveAdd, Refused, RequestSane
  <2> QED
    BY <1>4, <2>1, <2>2 DEF SaveAdd, Refused
<1>5. CASE SaveCover(p)
  <2>1. /\ DOMAIN request' = DOMAIN request
        /\ request'[p] = [request[p] EXCEPT !.at = "show"]
        /\ \A q \in DOMAIN request' : q # p => request'[q] = request[q]
    BY <1>5 DEF SaveCover, ToStage
  <2> QED
    BY <1>1, <1>5, <2>1 DEF SaveCover, RequestSane
<1>6. CASE SaveDelete(p)
  <2>1. CASE Refused(p)
    BY <1>6, <2>1 DEF SaveDelete, Finish, Refused
  <2>2. CASE request' = [request EXCEPT ![p].at = "show", ![p].picture = CoverOf(Remaining(p))]
    <3>1. /\ DOMAIN request' = DOMAIN request
          /\ request'[p] = [request[p] EXCEPT !.at = "show", !.picture = CoverOf(Remaining(p))]
          /\ \A q \in DOMAIN request' : q # p => request'[q] = request[q]
      BY <2>2
    <3> QED
      BY <1>1, <1>6, <3>1 DEF SaveDelete, Refused, RequestSane
  <2> QED
    BY <1>6, <2>1, <2>2 DEF SaveDelete
<1>7. CASE ShowAfter(p) \/ RequestFails(p)
  BY <1>7 DEF ShowAfter, RequestFails, Finish, Refused
<1>8. CASE ShowFails(p)
  <2>1. CASE request[p].at = "show"
    BY <1>8, <2>1 DEF ShowFails, Finish
  <2>2. CASE request[p].at # "show"
    <3>1. /\ DOMAIN request' = DOMAIN request /\ request[p].at = "showFirst"
          /\ request'[p] = [request[p] EXCEPT !.at = "save"]
          /\ \A q \in DOMAIN request' : q # p => request'[q] = request[q]
      BY <1>8, <2>2 DEF ShowFails, ToStage
    <3> QED
      BY <1>1, <1>8, <3>1 DEF ShowFails, RequestSane
  <2> QED
    BY <2>1, <2>2
<1> QED
  BY <1>2, <1>3, <1>4, <1>5, <1>6, <1>7, <1>8 DEF Serve

(* What a step of p makes of the mapping: it adds p's picture, takes it    *)
(* out of a list that nobody changed, or chooses it as the cover.          *)
Added(p) ==
  /\ Adding(p) /\ request[p].at = "save"
  /\ IdsOf(gallery'.images) = Pictured \cup {p[2]}
  /\ gallery'.there
  /\ gallery'.version = gallery.version + (IF gallery.there THEN 1 ELSE 0)
  /\ p \in DOMAIN request' => request'[p].at = "show"

Deleted(p) ==
  /\ Deleting(p) /\ request[p].copy.version = gallery.version
  /\ IdsOf(gallery'.images) = Pictured \ {p[2]}
  /\ gallery'.there = gallery.there
  /\ gallery'.version = gallery.version + 1
  /\ p \in DOMAIN request' /\ request'[p].at = "show"

Covered(p) ==
  /\ request[p].op = "cover" /\ request[p].at = "save"
  /\ gallery'.images = gallery.images
  /\ gallery'.there = gallery.there
  /\ gallery'.version = gallery.version

(* One of these, or nothing at all. *)
LEMMA GalleryMoves ==
  ASSUME PicturesSane, NEW p \in DOMAIN request, Serve(p)
  PROVE  /\ GallerySane(gallery')
         /\ \/ gallery' = gallery
            \/ Added(p) \/ Deleted(p) \/ Covered(p)
<1> USE DEF PicturesSane
<1>1. GallerySane(gallery) /\ RequestSane(request[p]) /\ p \in Requests /\ CopySane(p)
  BY DEF GalleryInv
<1>2. CASE SaveAdd(p) /\ ~ (gallery.there /\ ~request[p].copy.there)
  <2> DEFINE new == [id |-> p[2], isCover |-> request[p].isCover]
  <2>1. /\ request[p].at = "save" /\ request[p].op = "add"
        /\ gallery' = [there |-> TRUE, images |-> Append(gallery.images, new),
                       coverImageId |-> IF new.isCover THEN p[2] ELSE gallery.coverImageId,
                       version |-> gallery.version + (IF gallery.there THEN 1 ELSE 0)]
        /\ Finish(p) \/ ToStage(p, "show")
    BY <1>2 DEF SaveAdd
  <2>2. p[2] \in Pictures /\ p[2] \notin IdsOf(gallery.images) /\ request[p].isCover \in BOOLEAN
    BY <1>1, <2>1 DEF NewPictures, Adding, Pictured, Requests, RequestSane
  <2>3. /\ ListSane(Append(gallery.images, new))
        /\ IdsOf(Append(gallery.images, new)) = Pictured \cup {p[2]}
    BY <1>1, <2>2, Pushed DEF GallerySane, Pictured
  <2>4. /\ gallery'.there /\ gallery'.images = Append(gallery.images, new)
        /\ gallery'.version = gallery.version + (IF gallery.there THEN 1 ELSE 0)
        /\ DOMAIN gallery' = {"there", "images", "coverImageId", "version"}
    BY <2>1
  <2>5. p \in DOMAIN request' => request'[p].at = "show"
    BY <1>1, <2>1 DEF Finish, ToStage, RequestSane
  <2> HIDE DEF new
  <2>6. GallerySane(gallery')
    BY <1>1, <2>3, <2>4 DEF GallerySane
  <2>7. Added(p)
    BY <2>1, <2>3, <2>4, <2>5 DEF Added, Adding
  <2> QED
    BY <2>6, <2>7
<1>3. CASE SaveDelete(p) /\ gallery.version = request[p].copy.version
  <2>1. /\ Deleting(p)
        /\ gallery' = [gallery EXCEPT !.images = Remaining(p), !.coverImageId = NextCover(p),
                                      !.version = @ + 1]
        /\ request' = [request EXCEPT ![p].at = "show", ![p].picture = CoverOf(Remaining(p))]
    BY <1>3 DEF SaveDelete, Deleting
  <2>2. /\ gallery'.there = gallery.there /\ gallery'.images = Remaining(p)
        /\ gallery'.version = gallery.version + 1
        /\ DOMAIN gallery' = DOMAIN gallery
    BY <1>1, <2>1 DEF GallerySane
  <2>3. /\ ListSane(Remaining(p)) /\ gallery.there
        /\ IdsOf(Remaining(p)) = Pictured \ {p[2]}
    BY <1>1, <1>3, <2>1, Filtered DEF CopySane, Pictured
  <2>4. p \in DOMAIN request' /\ request'[p].at = "show"
    BY <1>1, <2>1 DEF RequestSane
  <2>5. GallerySane(gallery')
    BY <1>1, <2>2, <2>3 DEF GallerySane
  <2>6. Deleted(p)
    BY <1>3, <2>1, <2>2, <2>3, <2>4 DEF Deleted
  <2> QED
    BY <2>5, <2>6
<1>4. CASE SaveCover(p)
  <2>1. /\ gallery'.there = gallery.there /\ gallery'.images = gallery.images
        /\ gallery'.version = gallery.version
        /\ DOMAIN gallery' = DOMAIN gallery
    BY <1>1, <1>4 DEF SaveCover, GallerySane
  <2>2. GallerySane(gallery')
    BY <1>1, <2>1 DEF GallerySane
  <2> QED
    BY <1>4, <2>1, <2>2 DEF Covered, SaveCover
<1>5. ASSUME ~ (SaveAdd(p) /\ ~ (gallery.there /\ ~request[p].copy.there)),
             ~ (SaveDelete(p) /\ gallery.version = request[p].copy.version),
             ~ SaveCover(p)
      PROVE  gallery' = gallery
  BY <1>5 DEF Serve, FindMapping, ShowFirst, SaveAdd, SaveDelete, ShowAfter, RequestFails,
              ShowFails, Refused
<1> QED
  BY <1>1, <1>2, <1>3, <1>4, <1>5

(* The pictures a step of p may list are those listed and p's. *)
LEMMA PicturedMoves ==
  ASSUME PicturesSane, NEW p \in DOMAIN request, Serve(p)
  PROVE  /\ Pictured' \subseteq Pictured \cup {p[2]}
         /\ ~Adding(p) => Pictured' \subseteq Pictured
         /\ ~Deleting(p) => Pictured \subseteq Pictured'
         /\ Pictured \ {p[2]} \subseteq Pictured'
         /\ gallery.version \in Nat /\ gallery'.version \in Nat
         /\ gallery.version <= gallery'.version
         /\ gallery'.version = gallery.version /\ gallery.there => gallery'.images = gallery.images
         /\ gallery.there => gallery'.there
         /\ p \in DOMAIN request' => (Adding(p)' => Adding(p) /\ gallery' = gallery)
<1>1. gallery.version \in Nat /\ gallery'.version \in Nat
  BY GalleryMoves DEF PicturesSane, GalleryInv, GallerySane
<1>2. CASE gallery' = gallery
  <2>1. Pictured' = Pictured
    BY <1>2 DEF Pictured
  <2>2. p \in DOMAIN request' => (Adding(p)' => Adding(p))
    BY RequestMoves DEF Adding
  <2>3. gallery'.version = gallery.version
    BY <1>2
  <2> QED
    BY <1>1, <1>2, <2>1, <2>2, <2>3
<1>3. CASE Added(p)
  BY <1>1, <1>3, RequestMoves DEF Added, Pictured, Adding, Deleting
<1>4. CASE Deleted(p)
  BY <1>1, <1>4, RequestMoves DEF Deleted, Pictured, Adding, Deleting
<1>5. CASE Covered(p)
  <2>1. Pictured' = Pictured
    BY <1>5 DEF Covered, Pictured
  <2>2. gallery'.version = gallery.version /\ gallery'.images = gallery.images
        /\ gallery'.there = gallery.there /\ request[p].op # "add"
    BY <1>5 DEF Covered
  <2>3. p \in DOMAIN request' => ~Adding(p)'
    BY <2>2, RequestMoves DEF Adding
  <2> QED
    BY <1>1, <2>1, <2>2, <2>3
<1> QED
  BY <1>2, <1>3, <1>4, <1>5, GalleryMoves

(* A step of a request keeps the shape. *)
LEMMA ServeSane ==
  ASSUME PicturesSane, NEW p \in DOMAIN request, Serve(p)
  PROVE  PicturesSane'
<1> USE DEF PicturesSane
<1>1. /\ UNCHANGED <<kind, used, screen>>
      /\ DOMAIN request' \subseteq DOMAIN request
      /\ \A q \in DOMAIN request' : q # p => request'[q] = request[q]
      /\ \A q \in DOMAIN request' : request'[q].op = request[q].op
  BY RequestMoves
<1>2. \A q \in DOMAIN request' : Adding(q)' => Adding(q) /\ (q = p => gallery' = gallery)
  <2>1. \A q \in DOMAIN request' : q # p => (Adding(q)' => Adding(q))
    BY <1>1 DEF Adding
  <2> QED
    BY <2>1, PicturedMoves
<1>3. GalleryInv'
  <2>1. \A q \in DOMAIN request' : RequestSane(request[q])'
    <3>1. \A q \in DOMAIN request' : q # p => RequestSane(request[q])'
      BY <1>1 DEF GalleryInv, RequestSane
    <3> QED
      BY <3>1, RequestMoves
  <2>2. ASSUME NEW q \in DOMAIN request', q # p
        PROVE  CopySane(q)'
    <3>1. CopySane(q) /\ request'[q] = request[q]
      BY <1>1, <2>2 DEF GalleryInv
    <3>2. SUFFICES ASSUME Deleting(q)
                   PROVE  CopySane(q)'
      BY <3>1 DEF CopySane, Deleting
    <3>3. /\ gallery'.there
          /\ request[q].copy.version <= gallery'.version
          /\ request[q].copy.version = gallery'.version
               => request[q].copy.images = gallery'.images
      BY <3>1, <3>2, PicturedMoves DEF CopySane
    <3> QED
      BY <3>1, <3>2, <3>3 DEF CopySane
  <2>3. p \in DOMAIN request' => CopySane(p)'
    <3>1. SUFFICES ASSUME p \in DOMAIN request', Deleting(p)'
                   PROVE  CopySane(p)'
      BY DEF CopySane
    <3>2. RequestSane(request[p]) /\ request'[p].at = "save" /\ request[p].op = "delete"
      BY <3>1, RequestMoves DEF Deleting, GalleryInv
    <3>3. request[p].at = "find"
      BY <3>2, RequestMoves, <3>1 DEF RequestSane
    <3>4. request'[p].copy = gallery /\ p[2] \in Pictured
      BY <3>1, <3>2, <3>3, RequestMoves
    <3>5. gallery' = gallery
      BY <3>3, GalleryMoves DEF Added, Deleted, Covered, Deleting
    <3>6. GallerySane(gallery)
      BY DEF GalleryInv
    <3>7. gallery.there
      BY <3>4, <3>6 DEF GallerySane, Pictured, IdsOf
    <3> QED
      BY <3>4, <3>5, <3>6, <3>7 DEF CopySane, GallerySane, Pictured
  <2>4. \A i \in Pictured' : i <= used
    <3>1. Adding(p) => p[2] <= used
      BY DEF NewPictures
    <3> QED
      BY <3>1, PicturedMoves DEF GalleryInv
  <2>5. GallerySane(gallery)'
    BY GalleryMoves DEF GallerySane
  <2> QED
    BY <1>1, <2>1, <2>2, <2>3, <2>4, <2>5 DEF GalleryInv
<1>4. ScreenInv'
  BY <1>1 DEF ScreenInv
<1>5. NewPictures'
  <2>1. ASSUME NEW a \in Admins, screen[a].uploading # NoPicture
        PROVE  screen[a].uploading \notin Pictured'
    BY <2>1, PicturedMoves DEF NewPictures
  <2>2. ASSUME NEW q \in DOMAIN request', Adding(q)'
        PROVE  q[2] \notin Pictured'
    <3>1. CASE q = p
      BY <1>2, <2>2, <3>1 DEF NewPictures, Pictured
    <3>2. CASE q # p
      <4>1. Adding(p) => p[2] # q[2]
        BY <1>1, <1>2, <2>2, <3>2 DEF NewPictures
      <4> QED
        BY <1>1, <1>2, <2>2, <4>1, PicturedMoves DEF NewPictures
    <3> QED
      BY <3>1, <3>2
  <2> QED
    BY <1>1, <1>2, <2>1, <2>2 DEF NewPictures
<1>6. OneByOne'
  BY <1>1 DEF OneByOne
<1> QED
  BY <1>3, <1>4, <1>5, <1>6

(* Pictures are numbers. *)
LEMMA PicturedFacts ==
  ASSUME PicturesSane
  PROVE  Pictured \subseteq Pictures /\ \A i \in Pictured : i \in Nat /\ i # NoPicture /\ i <= used
<1>1. gallery.images \in Seq(Image)
  BY DEF PicturesSane, GalleryInv, GallerySane, ListSane
<1>2. \A i \in DOMAIN gallery.images : gallery.images[i] \in Image
  BY <1>1
<1>3. Pictured \subseteq Pictures
  BY <1>2 DEF Pictured, IdsOf, Image
<1> QED
  BY <1>3 DEF Pictures, NoPicture, PicturesSane, GalleryInv

(* Requests that are sent. *)
LEMMA SendMeans ==
  ASSUME NEW ps, NEW op, NEW c, Send(ps, op, c), \A q \in ps : q \notin DOMAIN request
  PROVE  /\ DOMAIN request' = ps \cup DOMAIN request
         /\ \A q \in DOMAIN request : request'[q] = request[q]
         /\ \A q \in ps : request'[q] = Opened(op, c)
BY DEF Send

(* A page sends requests when it has none under way, and does not touch    *)
(* the pictures.                                                           *)
LEMMA PageMoves ==
  ASSUME NEW a \in Admins, OnPage(a), PicturesSane
  PROVE  /\ UNCHANGED <<kind, gallery, displayed>> /\ imgCauses \subseteq imgCauses' /\ ~Asking(a)
         /\ DOMAIN request \subseteq DOMAIN request'
         /\ \A q \in DOMAIN request : request'[q] = request[q]
         /\ \A q \in DOMAIN request' \ DOMAIN request :
              /\ q[1] = a /\ q \in Requests
              /\ \E op \in {"add", "cover", "delete"}, c \in BOOLEAN :
                   request'[q] = Opened(op, c)
<1>1. ~Asking(a) /\ UNCHANGED <<kind, gallery, displayed>> /\ imgCauses \subseteq imgCauses'
  BY DEF OnPage, LoadList, Upload, AddUploaded, UploadFails, Delete, ChooseCover, Act, Busy
<1>2. \A q \in DOMAIN request : q[1] # a
  BY <1>1 DEF Asking
<1>3. CASE UNCHANGED request
  BY <1>1, <1>3
<1>4. ASSUME NEW S \in SUBSET Pictures, NEW op \in {"add", "cover", "delete"}, NEW c \in BOOLEAN,
             Send({a} \X S, op, c)
      PROVE  /\ DOMAIN request \subseteq DOMAIN request'
             /\ \A q \in DOMAIN request : request'[q] = request[q]
             /\ \A q \in DOMAIN request' \ DOMAIN request :
                  q[1] = a /\ q \in Requests /\ request'[q] = Opened(op, c)
  <2>1. \A q \in {a} \X S : q \notin DOMAIN request /\ q[1] = a /\ q \in Requests
    BY <1>2 DEF Requests
  <2>2. /\ DOMAIN request' = ({a} \X S) \cup DOMAIN request
        /\ \A q \in DOMAIN request : request'[q] = request[q]
        /\ \A q \in {a} \X S : request'[q] = Opened(op, c)
    BY <1>4, <2>1, SendMeans
  <2> QED
    BY <2>1, <2>2
<1>5. CASE Upload(a)
  BY <1>1, <1>4, <1>5 DEF Upload, PicturesSane, ScreenInv
<1>6. CASE AddUploaded(a)
  <2>1. PICK c \in BOOLEAN : Send({<<a, screen[a].uploading>>}, "add", c)
    BY <1>6 DEF AddUploaded
  <2>2. screen[a].uploading \in Pictures
    BY <1>6, ImagesAssumption DEF AddUploaded, PicturesSane, ScreenInv, GalleryInv, Pictures, NoPicture
  <2>3. {<<a, screen[a].uploading>>} = {a} \X {screen[a].uploading}
    OBVIOUS
  <2>4. Send({a} \X {screen[a].uploading}, "add", c)
    BY <2>1, <2>3
  <2> QED
    BY <1>1, <1>4, <2>2, <2>4
<1>7. ASSUME NEW i \in Pictures, Delete(a, i) \/ ChooseCover(a, i)
      PROVE  \E op \in {"cover", "delete"}, c \in BOOLEAN : Send({a} \X {i}, op, c)
  <2>1. {<<a, i>>} = {a} \X {i}
    OBVIOUS
  <2> QED
    BY <1>7, <2>1 DEF Delete, ChooseCover
<1>8. CASE \E i \in Pictures : Delete(a, i) \/ ChooseCover(a, i)
  <2>1. PICK i \in Pictures : Delete(a, i) \/ ChooseCover(a, i)
    BY <1>8
  <2>2. PICK op \in {"cover", "delete"}, c \in BOOLEAN : Send({a} \X {i}, op, c)
    BY <1>7, <2>1
  <2> QED
    BY <1>1, <1>4, <2>2
<1>9. CASE LoadList(a) \/ UploadFails(a)
  BY <1>3, <1>9 DEF LoadList, UploadFails
<1> QED
  BY <1>5, <1>6, <1>8, <1>9 DEF OnPage

(* What it does to the page, and which pictures it adds. *)
LEMMA ScreenMoves ==
  ASSUME PicturesSane, NEW a \in Admins, OnPage(a)
  PROVE  /\ ScreenInv' /\ used' \in 0 .. MaxPictures /\ used <= used'
         /\ \A b \in Admins : b # a => screen'[b] = screen[b]
         /\ \/ screen'[a].uploading \in {NoPicture, screen[a].uploading}
            \/ Upload(a) /\ screen'[a].uploading = used' /\ used' = used + 1
         /\ \A q \in DOMAIN request' \ DOMAIN request :
              Adding(q)' => /\ q = <<a, screen[a].uploading>>
                            /\ screen[a].uploading # NoPicture
                            /\ screen'[a].uploading = NoPicture
                            /\ DOMAIN request' = DOMAIN request \cup {q}
         /\ screen'[a].uploading # NoPicture =>
              \A q \in DOMAIN request' : q[1] = a => request'[q].op = "delete"
<1>1. /\ DOMAIN screen = Admins /\ used \in 0 .. MaxPictures
      /\ \A b \in Admins : /\ DOMAIN screen[b] = {"seen", "uploading"}
                           /\ screen[b].uploading \in 0 .. used
                           /\ screen[b].seen \subseteq Pictures
      /\ Pictured \subseteq Pictures
  <2>1. Pictured \subseteq Pictures
    BY PicturedFacts
  <2> QED
    BY <2>1 DEF PicturesSane, ScreenInv, GalleryInv
<1>2. \A q \in DOMAIN request : q[1] # a
  BY PageMoves DEF Asking
<1>3. CASE LoadList(a)
  <2>1. /\ screen' = [screen EXCEPT ![a].seen = Pictured]
        /\ UNCHANGED <<used, request>> /\ screen[a].uploading = NoPicture
    BY <1>3 DEF LoadList, Busy
  <2>2. /\ DOMAIN screen' = Admins
        /\ \A b \in Admins : /\ DOMAIN screen'[b] = {"seen", "uploading"}
                             /\ screen'[b].uploading = screen[b].uploading
                             /\ screen'[b].seen \in {Pictured, screen[b].seen}
                             /\ b # a => screen'[b] = screen[b]
    BY <1>1, <2>1
  <2> QED
    BY <1>1, <1>2, <2>1, <2>2 DEF ScreenInv
<1>4. CASE Upload(a)
  <2>1. /\ screen' = [screen EXCEPT ![a].uploading = used']
        /\ used' = used + 1 /\ used < MaxPictures
        /\ Send({a} \X screen[a].seen, "delete", FALSE)
    BY <1>4 DEF Upload
  <2>2. /\ DOMAIN screen' = Admins
        /\ \A b \in Admins : /\ DOMAIN screen'[b] = {"seen", "uploading"}
                             /\ screen'[b].uploading = IF b = a THEN used + 1 ELSE screen[b].uploading
                             /\ screen'[b].seen = screen[b].seen
                             /\ b # a => screen'[b] = screen[b]
    BY <1>1, <2>1
  <2>3. /\ DOMAIN request' = ({a} \X screen[a].seen) \cup DOMAIN request
        /\ \A q \in {a} \X screen[a].seen : request'[q] = Opened("delete", FALSE)
    <3>1. \A q \in {a} \X screen[a].seen : q \notin DOMAIN request
      BY <1>2
    <3> QED
      BY <2>1, <3>1, SendMeans
  <2>4. \A q \in DOMAIN request' : q \notin DOMAIN request \/ q[1] = a => request'[q].op = "delete"
    BY <1>2, <2>3 DEF Opened
  <2>5. used + 1 \in 0 .. MaxPictures /\ used <= used + 1
    BY <1>1, <2>1, ImagesAssumption
  <2>6. ScreenInv'
    BY <1>1, <2>1, <2>2, <2>5 DEF ScreenInv
  <2> QED
    BY <1>1, <1>4, <2>1, <2>2, <2>4, <2>5, <2>6 DEF Adding
<1>5. CASE AddUploaded(a) \/ UploadFails(a)
  <2>1. /\ screen' = [screen EXCEPT ![a].uploading = NoPicture]
        /\ used' = used /\ screen[a].uploading # NoPicture
    BY <1>5 DEF AddUploaded, UploadFails
  <2>2. /\ DOMAIN screen' = Admins
        /\ \A b \in Admins : /\ DOMAIN screen'[b] = {"seen", "uploading"}
                             /\ screen'[b].uploading = IF b = a THEN NoPicture ELSE screen[b].uploading
                             /\ screen'[b].seen = screen[b].seen
                             /\ b # a => screen'[b] = screen[b]
    BY <1>1, <2>1
  <2>3. ScreenInv'
    BY <1>1, <2>1, <2>2 DEF ScreenInv, NoPicture
  <2>4. \/ request' = request
        \/ DOMAIN request' = DOMAIN request \cup {<<a, screen[a].uploading>>}
    BY <1>5 DEF AddUploaded, UploadFails, Send
  <2> QED
    BY <1>1, <2>1, <2>2, <2>3, <2>4, SMTT(30)
<1>6. ASSUME NEW i \in Pictures, Delete(a, i) \/ ChooseCover(a, i)
      PROVE  /\ UNCHANGED <<screen, used>> /\ screen[a].uploading = NoPicture
             /\ \A q \in DOMAIN request' \ DOMAIN request : ~Adding(q)'
  <2>1. PICK op \in {"cover", "delete"} : \E c \in BOOLEAN : Send({<<a, i>>}, op, c)
    BY <1>6 DEF Delete, ChooseCover
  <2>2. \A q \in DOMAIN request' \ DOMAIN request : request'[q].op = op
    BY <1>2, <2>1 DEF Send, Opened
  <2> QED
    BY <1>6, <2>2 DEF Delete, ChooseCover, Act, Busy, Adding
<1>7. CASE \E i \in Pictures : Delete(a, i) \/ ChooseCover(a, i)
  BY <1>1, <1>6, <1>7 DEF ScreenInv
<1> QED
  BY <1>3, <1>4, <1>5, <1>7 DEF OnPage

(* A step of a page keeps the shape. *)
LEMMA PageSaneKept ==
  ASSUME PicturesSane, NEW a \in Admins, OnPage(a)
  PROVE  PicturesSane'
<1>1. /\ UNCHANGED <<kind, gallery>> /\ ~Asking(a) /\ Pictured' = Pictured
      /\ DOMAIN request \subseteq DOMAIN request'
      /\ \A q \in DOMAIN request : request'[q] = request[q] /\ q[1] # a
  BY PageMoves DEF Asking, Pictured
<1>2. \A q \in DOMAIN request' \ DOMAIN request :
        /\ q[1] = a /\ q \in Requests
        /\ \E op \in {"add", "cover", "delete"}, c \in BOOLEAN : request'[q] = Opened(op, c)
  BY PageMoves
<1>3. /\ ScreenInv /\ ScreenInv' /\ used \in Nat /\ used' \in 0 .. MaxPictures /\ used <= used'
      /\ \A b \in Admins : b # a => screen'[b] = screen[b]
      /\ \/ screen'[a].uploading \in {NoPicture, screen[a].uploading}
         \/ screen'[a].uploading = used' /\ used' = used + 1
      /\ \A b \in Admins : screen[b].uploading \in 0 .. used
  BY ScreenMoves DEF PicturesSane, GalleryInv, ScreenInv
<1>4. \A q \in DOMAIN request' \ DOMAIN request :
        Adding(q)' => /\ q = <<a, screen[a].uploading>>
                      /\ screen[a].uploading # NoPicture
                      /\ screen'[a].uploading = NoPicture
                      /\ DOMAIN request' = DOMAIN request \cup {q}
  BY ScreenMoves
<1>5. \A q \in DOMAIN request' \ DOMAIN request :
        /\ request'[q].at = "find" /\ RequestSane(request[q])'
        /\ request'[q].op = "add" => Adding(q)'
  BY <1>2 DEF Opened, RequestSane, Adding
<1>6. \A q \in DOMAIN request : (Adding(q)' <=> Adding(q)) /\ request'[q].op = request[q].op
  BY <1>1 DEF Adding
<1>7. GalleryInv'
  <2>1. \A q \in DOMAIN request : RequestSane(request[q])' /\ CopySane(q)'
    BY <1>1 DEF PicturesSane, GalleryInv, RequestSane, CopySane, Deleting
  <2>2. \A q \in DOMAIN request' \ DOMAIN request : CopySane(q)'
    BY <1>5 DEF CopySane, Deleting
  <2>3. \A i \in Pictured' : i <= used'
    <3>1. \A i \in Pictured : i \in Nat /\ i <= used
      BY PicturedFacts
    <3>2. used \in Nat /\ used' \in Nat /\ used <= used'
      BY <1>3
    <3> QED
      BY <1>1, <3>1, <3>2
  <2>4. GallerySane(gallery)'
    BY <1>1 DEF PicturesSane, GalleryInv, GallerySane
  <2>5. DOMAIN request' \subseteq Requests
    BY <1>2 DEF PicturesSane, GalleryInv
  <2> QED
    BY <1>1, <1>3, <1>5, <2>1, <2>2, <2>3, <2>4, <2>5 DEF PicturesSane, GalleryInv
<1>8. NewPictures'
  <2>1. ASSUME NEW b \in Admins, screen'[b].uploading # NoPicture
        PROVE  /\ screen'[b].uploading \notin Pictured
               /\ \A d \in Admins : screen'[d].uploading = screen'[b].uploading => b = d
    <3>1. \A i \in Pictured : i <= used /\ i \in Nat
      BY PicturedFacts
    <3> QED
      BY <1>3, <2>1, <3>1 DEF PicturesSane, NewPictures, NoPicture
  <2>2. ASSUME NEW q \in DOMAIN request, Adding(q)
        PROVE  /\ q[2] \notin Pictured /\ q[2] <= used'
               /\ \A b \in Admins : screen'[b].uploading # q[2]
    <3>1. q[2] \in Pictures /\ q[2] \in Nat /\ q[2] # NoPicture
      BY DEF PicturesSane, GalleryInv, Requests, Pictures, NoPicture
    <3> QED
      BY <1>3, <2>2, <3>1 DEF PicturesSane, NewPictures
  <2>3. ASSUME NEW q \in DOMAIN request' \ DOMAIN request, Adding(q)'
        PROVE  /\ q[2] \notin Pictured /\ q[2] <= used'
               /\ \A b \in Admins : screen'[b].uploading # q[2]
               /\ \A r \in DOMAIN request : Adding(r) => r[2] # q[2]
    <3>1. /\ q[2] = screen[a].uploading /\ screen[a].uploading # NoPicture
          /\ screen'[a].uploading = NoPicture
      <4>1. q = <<a, screen[a].uploading>>
        BY <1>4, <2>3
      <4>2. screen[a].uploading # NoPicture /\ screen'[a].uploading = NoPicture
        BY <1>4, <2>3
      <4> QED
        BY <4>1, <4>2
    <3>2. used \in Nat /\ used' \in Nat /\ used <= used' /\ screen[a].uploading \in 0 .. used
      BY <1>3
    <3>3. /\ screen[a].uploading \notin Pictured
          /\ \A b \in Admins : screen[b].uploading = screen[a].uploading => a = b
          /\ \A r \in DOMAIN request : Adding(r) => screen[a].uploading # r[2]
      BY <3>1 DEF PicturesSane, NewPictures
    <3> QED
      BY <1>3, <3>1, <3>2, <3>3
  <2>4. ASSUME NEW q \in DOMAIN request', NEW r \in DOMAIN request', Adding(q)', Adding(r)',
               q[2] = r[2]
        PROVE  q = r
    <3>1. CASE q \in DOMAIN request /\ r \in DOMAIN request
      BY <1>6, <2>4, <3>1 DEF PicturesSane, NewPictures
    <3>2. CASE q \notin DOMAIN request /\ r \notin DOMAIN request
      BY <1>4, <2>4, <3>2 DEF Adding
    <3>3. CASE q \notin DOMAIN request /\ r \in DOMAIN request
      BY <1>6, <2>3, <2>4, <3>3 DEF Adding
    <3>4. CASE q \in DOMAIN request /\ r \notin DOMAIN request
      BY <1>6, <2>3, <2>4, <3>4 DEF Adding
    <3> QED
      BY <3>1, <3>2, <3>3, <3>4
  <2> QED
    BY <1>1, <1>6, <2>1, <2>2, <2>3, <2>4 DEF NewPictures
<1>9. OneByOne'
  <2>1. ASSUME NEW q \in DOMAIN request, request[q].op = "add"
        PROVE  /\ screen'[q[1]].uploading = NoPicture
               /\ \A r \in DOMAIN request' : r[1] = q[1] => r = q
    <3>1. q[1] # a /\ q[1] \in Admins /\ screen'[q[1]] = screen[q[1]]
      BY <1>1, <1>3 DEF PicturesSane, GalleryInv, Requests
    <3> QED
      BY <1>1, <1>2, <2>1, <3>1 DEF PicturesSane, OneByOne
  <2>2. ASSUME NEW q \in DOMAIN request' \ DOMAIN request, request'[q].op = "add"
        PROVE  /\ screen'[q[1]].uploading = NoPicture
               /\ \A r \in DOMAIN request' : r[1] = q[1] => r = q
    <3>1. Adding(q)'
      BY <1>5, <2>2
    <3>2. /\ q[1] = a /\ screen'[a].uploading = NoPicture
          /\ DOMAIN request' = DOMAIN request \cup {q}
      BY <1>2, <1>4, <3>1 DEF Adding
    <3> QED
      BY <1>1, <3>2
  <2> QED
    BY <1>6, <2>1, <2>2 DEF OneByOne
<1> QED
  BY <1>3, <1>7, <1>8, <1>9 DEF PicturesSane

-----------------------------------------------------------------------------
(* The pictures: one at a time *)

(* a is about to put a picture into the list. *)
Uploads(a) == screen[a].uploading # NoPicture \/ \E p \in DOMAIN request : p[1] = a /\ Adding(p)

Removes(p) == request[p].op = "delete" /\ request[p].at \in {"find", "save"}

(* An upload deletes whatever is listed before it adds its picture, and    *)
(* nobody else adds one meanwhile.                                         *)
Alone ==
  /\ \A i, j \in Pictured : i = j
  /\ \A a, b \in Admins : Uploads(a) /\ Uploads(b) => a = b
  /\ \A a \in Admins : screen[a].uploading # NoPicture =>
       \A i \in Pictured : <<a, i>> \in DOMAIN request /\ Removes(<<a, i>>)
  /\ \A p \in DOMAIN request : Adding(p) => Pictured = {}

SingleCalm == imgCauses \cap {"unlisted", "overlap", "undeleted"} = {}

AloneInv == PicturesSane /\ (SingleCalm => Alone)

(* A deletion that ends has taken its picture out, or failed. *)
LEMMA DeletionEnds ==
  ASSUME PicturesSane, NEW p \in DOMAIN request, Serve(p), Removes(p), p[2] \in Pictured'
  PROVE  "undeleted" \in imgCauses' \/ (p \in DOMAIN request' /\ Removes(p)')
<1>1. CASE FindMapping(p)
  <2>1. Pictured' = Pictured
    BY <1>1 DEF FindMapping, Pictured
  <2>2. request' = [request EXCEPT
              ![p].at = "save", ![p].isCover = AsCover(p), ![p].copy = gallery, ![p].picture = p[2]]
    BY <1>1, <2>1 DEF FindMapping, Removes
  <2>3. p \in DOMAIN request' /\ request'[p].at = "save" /\ request'[p].op = "delete"
    BY <2>2 DEF PicturesSane, GalleryInv, RequestSane, Removes
  <2> QED
    BY <2>3 DEF Removes
<1>2. CASE Refused(p)
  BY <1>2 DEF Refused, Removes
<1>3. CASE SaveDelete(p)
  <2>1. CASE Refused(p)
    BY <1>2, <2>1
  <2>2. CASE gallery.version = request[p].copy.version
    <3>1. gallery' # gallery
      <4>1. gallery'.version = gallery.version + 1 /\ gallery.version \in Nat
        BY <1>3, <2>2 DEF SaveDelete, PicturesSane, GalleryInv, GallerySane
      <4> QED
        BY <4>1
    <3>2. Deleted(p)
      BY <3>1, GalleryMoves DEF Removes, Added, Adding, Covered
    <3> QED
      BY <3>2 DEF Deleted, Pictured
  <2> QED
    BY <1>3, <2>1, <2>2 DEF SaveDelete
<1> QED
  BY <1>1, <1>2, <1>3 DEF Serve, ShowFirst, SaveAdd, SaveCover, ShowAfter, RequestFails, ShowFails,
                          Removes, PicturesSane, GalleryInv, RequestSane

(* A step of a request. *)
LEMMA ServeAlone ==
  ASSUME AloneInv, NEW p \in DOMAIN request, Serve(p)
  PROVE  AloneInv'
<1> USE DEF AloneInv
<1>1. PicturesSane'
  BY ServeSane
<1>2. SUFFICES ASSUME SingleCalm'
               PROVE  Alone'
  BY <1>1
<1>3. Alone
  BY <1>2, RequestMoves DEF SingleCalm
<1>4. /\ UNCHANGED screen
      /\ DOMAIN request' \in {DOMAIN request, DOMAIN request \ {p}}
      /\ \A q \in DOMAIN request' : q # p => request'[q] = request[q]
  BY RequestMoves
<1>5. \A q \in DOMAIN request' : Adding(q)' => Adding(q) /\ (q = p => Pictured' = Pictured)
  <2>1. \A q \in DOMAIN request' : q # p => (Adding(q)' => Adding(q))
    BY <1>4 DEF Adding
  <2> QED
    BY <2>1, PicturedMoves DEF Pictured
<1>6. \A a \in Admins : Uploads(a)' => Uploads(a)
  BY <1>4, <1>5 DEF Uploads
<1>7. p[1] \in Admins
  BY DEF PicturesSane, GalleryInv, Requests
<1>8. \A i, j \in Pictured' : i = j
  <2>1. CASE Adding(p)
    <3>1. Pictured = {}
      BY <1>3, <2>1 DEF Alone
    <3> QED
      BY <3>1, PicturedMoves
  <2>2. CASE ~Adding(p)
    BY <1>3, <2>2, PicturedMoves DEF Alone
  <2> QED
    BY <2>1, <2>2
<1>9. ASSUME NEW a \in Admins, screen[a].uploading # NoPicture, NEW i \in Pictured'
      PROVE  <<a, i>> \in DOMAIN request' /\ Removes(<<a, i>>)'
  <2>1. ~Adding(p)
    <3>1. SUFFICES ASSUME Adding(p)
                   PROVE  FALSE
      OBVIOUS
    <3>2. p[1] = a
      BY <1>3, <1>7, <1>9, <3>1 DEF Alone, Uploads
    <3> QED
      BY <1>9, <3>1, <3>2 DEF PicturesSane, OneByOne, Adding
  <2>2. <<a, i>> \in DOMAIN request /\ Removes(<<a, i>>)
    BY <1>3, <1>9, <2>1, PicturedMoves DEF Alone
  <2>3. CASE <<a, i>> = p
    <3>1. p[2] \in Pictured' /\ Removes(p)
      BY <1>9, <2>2, <2>3
    <3>2. "undeleted" \notin imgCauses'
      BY <1>2 DEF SingleCalm
    <3> QED
      BY <2>3, <3>1, <3>2, DeletionEnds
  <2>4. CASE <<a, i>> # p
    BY <1>4, <2>2, <2>4 DEF Removes
  <2> QED
    BY <2>3, <2>4
<1>10. ASSUME NEW q \in DOMAIN request', Adding(q)'
       PROVE  Pictured' = {}
  <2>1. Adding(q) /\ Pictured = {} /\ q \in DOMAIN request
    BY <1>3, <1>4, <1>5, <1>10 DEF Alone
  <2>2. CASE q = p
    BY <1>5, <1>10, <2>1, <2>2
  <2>3. CASE q # p
    <3>1. q[1] \in Admins
      BY <2>1 DEF PicturesSane, GalleryInv, Requests
    <3>2. ~Adding(p)
      BY <1>3, <1>7, <2>1, <2>3, <3>1 DEF Alone, Uploads, PicturesSane, OneByOne, Adding
    <3> QED
      BY <2>1, <3>2, PicturedMoves
  <2> QED
    BY <2>2, <2>3
<1> QED
  BY <1>3, <1>4, <1>6, <1>8, <1>9, <1>10 DEF Alone

(* A step of a page. *)
LEMMA PageAlone ==
  ASSUME AloneInv, NEW a \in Admins, OnPage(a)
  PROVE  AloneInv'
<1> USE DEF AloneInv
<1>1. PicturesSane'
  BY PageSaneKept
<1>2. SUFFICES ASSUME SingleCalm'
               PROVE  Alone'
  BY <1>1
<1>3. Alone
  BY <1>2, PageMoves DEF SingleCalm
<1>4. /\ Pictured' = Pictured /\ ~Asking(a)
      /\ DOMAIN request \subseteq DOMAIN request'
      /\ \A q \in DOMAIN request : request'[q] = request[q]
      /\ \A q \in DOMAIN request' \ DOMAIN request : q[1] = a
      /\ \A b \in Admins : b # a => screen'[b] = screen[b]
  BY PageMoves, ScreenMoves DEF Pictured
<1>5. \A q \in DOMAIN request : (Adding(q)' <=> Adding(q)) /\ (Removes(q)' <=> Removes(q))
  BY <1>4 DEF Adding, Removes
<1>6. CASE Upload(a)
  <2>1. /\ \A b \in Admins \ {a} : ~Busy(b)
        /\ screen[a].seen = Pictured
    <3>1. imgCauses' = imgCauses \cup {c \in {"unlisted", "overlap"} :
             \/ c = "unlisted" /\ screen[a].seen # Pictured
             \/ c = "overlap" /\ \E b \in Admins \ {a} : Busy(b)}
      BY <1>6 DEF Upload
    <3> QED
      BY <1>2, <3>1 DEF SingleCalm
  <2>2. Send({a} \X Pictured, "delete", FALSE)
    BY <1>6, <2>1 DEF Upload
  <2>3. /\ DOMAIN request' = ({a} \X Pictured) \cup DOMAIN request
        /\ \A q \in {a} \X Pictured : request'[q] = Opened("delete", FALSE)
    <3>1. \A q \in {a} \X Pictured : q \notin DOMAIN request
      BY <1>4 DEF Asking
    <3> QED
      BY <2>2, <3>1, SendMeans
  <2>4. DOMAIN request = {}
    <3>1. \A q \in DOMAIN request : q[1] \in Admins /\ Asking(q[1])
      BY DEF PicturesSane, GalleryInv, Requests, Asking
    <3> QED
      BY <1>4, <2>1, <3>1 DEF Busy
  <2>5. \A q \in DOMAIN request' : ~Adding(q)'
    BY <2>3, <2>4 DEF Adding, Opened
  <2>6. \A b \in Admins \ {a} : screen'[b].uploading = NoPicture
    BY <1>4, <2>1 DEF Busy
  <2>7. \A i \in Pictured : <<a, i>> \in DOMAIN request' /\ Removes(<<a, i>>)'
    <3>1. \A i \in Pictured : <<a, i>> \in {a} \X Pictured
      OBVIOUS
    <3> QED
      BY <2>3, <3>1 DEF Removes, Opened
  <2> QED
    BY <1>3, <1>4, <2>5, <2>6, <2>7 DEF Alone, Uploads
<1>7. CASE ~Upload(a)
  <2>1. /\ screen'[a].uploading \in {NoPicture, screen[a].uploading}
        /\ \A q \in DOMAIN request' \ DOMAIN request :
             Adding(q)' => screen[a].uploading # NoPicture
    BY <1>7, ScreenMoves
  <2>2. \A b \in Admins : Uploads(b)' => Uploads(b)
    BY <1>4, <1>5, <2>1 DEF Uploads
  <2>3. screen[a].uploading # NoPicture => Pictured = {}
    <3>1. \A i \in Pictured : <<a, i>> \notin DOMAIN request
      BY <1>4 DEF Asking
    <3> QED
      BY <1>3, <3>1 DEF Alone
  <2>4. \A q \in DOMAIN request' : Adding(q)' => Pictured = {}
    BY <1>3, <1>5, <2>1, <2>3 DEF Alone
  <2>5. ASSUME NEW b \in Admins, screen'[b].uploading # NoPicture, NEW i \in Pictured
        PROVE  <<b, i>> \in DOMAIN request' /\ Removes(<<b, i>>)'
    BY <1>3, <1>4, <1>5, <2>1, <2>5 DEF Alone
  <2> QED
    BY <1>3, <1>4, <2>2, <2>4, <2>5 DEF Alone
<1> QED
  BY <1>6, <1>7

(* At first there is one picture at most, and nothing under way. *)
LEMMA InitAlone == ImgInit => AloneInv
<1> SUFFICES ASSUME ImgInit
             PROVE  AloneInv
  OBVIOUS
<1>1. DOMAIN request = {} /\ \A a \in Admins : screen[a].uploading = NoPicture
  BY DEF ImgInit
<1>2. \A i, j \in Pictured : i = j
  <2>1. DOMAIN gallery.images \in {{}, {1}}
    <3>1. CASE gallery = NoGallery
      BY <3>1 DEF NoGallery
    <3>2. CASE gallery = [there |-> TRUE, images |-> <<[id |-> First, isCover |-> TRUE]>>,
                          coverImageId |-> First, version |-> 0]
      BY <3>2
    <3> QED
      BY <3>1, <3>2 DEF ImgInit
  <2> QED
    BY <2>1 DEF Pictured, IdsOf
<1> QED
  BY <1>1, <1>2, InitPictures DEF AloneInv, Alone, Uploads

(* Every step. *)
LEMMA NextAlone == AloneInv /\ [ImgNext]_imgVars => AloneInv'
<1> SUFFICES ASSUME AloneInv, [ImgNext]_imgVars
             PROVE  AloneInv'
  OBVIOUS
<1>1. CASE UNCHANGED imgVars
  BY <1>1 DEF imgVars, AloneInv, PicturesSane, GalleryInv, ScreenInv, NewPictures, OneByOne,
              RequestSane, CopySane, Deleting, Adding, Pictured, SingleCalm, Alone, Uploads, Removes
<1> QED
  BY <1>1, ServeAlone, PageAlone DEF ImgNext

(* When no request is under way there is one picture at most, unless an    *)
(* upload began with an old list or crossed another page's request, or a   *)
(* deletion failed: uploadMutation of AdminImagesPage.tsx.                 *)
THEOREM OnePicture == ImgSpec => []SinglePicture
<1>1. AloneInv => SinglePicture
  <2> SUFFICES ASSUME Alone
               PROVE  Cardinality(Pictured) <= 1
    BY DEF AloneInv, SingleCalm, SinglePicture
  <2>1. \A i, j \in Pictured : i = j
    BY DEF Alone
  <2>2. CASE Pictured = {}
    BY <2>2, FS_EmptySet
  <2>3. ASSUME NEW i \in Pictured
        PROVE  Cardinality(Pictured) <= 1
    <3>1. Pictured = {i}
      BY <2>1
    <3> QED
      BY <3>1, FS_Singleton
  <2> QED
    BY <2>2, <2>3
<1> QED
  BY <1>1, InitAlone, NextAlone, PTL DEF ImgSpec

-----------------------------------------------------------------------------
(* The pictures: what is shown is listed *)

ListedOrNone == Pictured \cup {NoPicture}

(* A product shows a new cover that is about to be listed. *)
ShowsNew(p) ==
  /\ request[p].op = "add" /\ request[p].at = "save"
  /\ kind = "product" /\ request[p].isCover /\ p[2] = displayed

(* What is displayed is listed, or about to be, or about to be replaced by *)
(* something that is.                                                      *)
DisplayFollows ==
  displayed \in ListedOrNone \/ \E p \in DOMAIN request : request[p].at = "show" \/ ShowsNew(p)

(* A request has in hand what is listed; a deletion that will leave the    *)
(* cover alone does not delete the cover.                                  *)
HandListed(p) ==
  /\ request[p].at = "show" => request[p].picture \in ListedOrNone
  /\ request[p].at = "save" /\ request[p].op = "cover" => p[2] \in Pictured
  /\ request[p].at \in {"save", "showFirst"} => request[p].picture = p[2]
  /\ Deleting(p) /\ request[p].copy.version = gallery.version
       /\ request[p].copy.coverImageId # p[2] => gallery.coverImageId # p[2]

ListedCalm == imgCauses \cap {"unsaved", "unshown", "crossed"} = {}

AllListed ==
  /\ gallery.coverImageId \in ListedOrNone
  /\ DisplayFollows
  /\ \A p \in DOMAIN request : HandListed(p)

ListedInv == PicturesSane /\ (ListedCalm => AllListed)

(* The requests that take no step keep what they have. *)
LEMMA OthersListed ==
  ASSUME PicturesSane, NEW p \in DOMAIN request, Serve(p), \A q \in DOMAIN request : HandListed(q),
         NEW q \in DOMAIN request', q # p,
         request[q].at = "show" => request[q].picture \in ListedOrNone',
         request[q].at = "save" /\ request[q].op = "cover" => q[2] \in Pictured',
         gallery'.version = gallery.version /\ Deleting(q)
           => gallery'.coverImageId \in {gallery.coverImageId} \cup {i \in Pictures : i # q[2]}
  PROVE  HandListed(q)'
<1>1. request'[q] = request[q] /\ q \in DOMAIN request
  BY RequestMoves
<1>2. Deleting(q)' <=> Deleting(q)
  BY <1>1 DEF Deleting
<1>3. Deleting(q) => request[q].copy.version \in Nat /\ request[q].copy.version <= gallery.version
  BY <1>1 DEF PicturesSane, GalleryInv, CopySane
<1>4. gallery.version \in Nat /\ gallery'.version \in Nat /\ gallery.version <= gallery'.version
  BY PicturedMoves
<1>5. Deleting(q) /\ request[q].copy.version = gallery'.version => gallery'.version = gallery.version
  BY <1>3, <1>4
<1>6. HandListed(q)
  BY <1>1
<1> QED
  BY <1>1, <1>2, <1>5, <1>6 DEF HandListed

(* A step of a request that leaves the mapping alone. *)
LEMMA ReadListed ==
  ASSUME PicturesSane, AllListed, NEW p \in DOMAIN request, Serve(p), gallery' = gallery,
         p \in DOMAIN request' => HandListed(p)',
         DisplayFollows'
  PROVE  AllListed'
<1>1. Pictured' = Pictured /\ ListedOrNone' = ListedOrNone
  BY DEF Pictured, ListedOrNone
<1>2. \A q \in DOMAIN request' : q \in DOMAIN request
  BY RequestMoves
<1>3. \A q \in DOMAIN request' : HandListed(q)'
  <2> SUFFICES ASSUME NEW q \in DOMAIN request', q # p
               PROVE  HandListed(q)'
    OBVIOUS
  <2>1. HandListed(q)
    BY <1>2 DEF AllListed
  <2> QED
    BY <1>1, <1>2, <2>1, OthersListed DEF AllListed, HandListed
<1> QED
  BY <1>1, <1>3 DEF AllListed

(* What is displayed stays justified while p neither shows nor ends.       *)
LEMMA DisplayKept ==
  ASSUME PicturesSane, DisplayFollows, NEW p \in DOMAIN request, Serve(p),
         displayed' = displayed, Pictured \subseteq Pictured',
         request[p].at # "show" /\ ~ShowsNew(p)
  PROVE  DisplayFollows'
<1>1. kind' = kind /\ \A q \in DOMAIN request \ {p} : q \in DOMAIN request' /\ request'[q] = request[q]
  BY RequestMoves
<1>2. ListedOrNone \subseteq ListedOrNone'
  BY DEF ListedOrNone
<1>3. CASE displayed \in ListedOrNone
  BY <1>2, <1>3 DEF DisplayFollows
<1>4. ASSUME NEW q \in DOMAIN request, request[q].at = "show" \/ ShowsNew(q)
      PROVE  DisplayFollows'
  <2>1. q # p
    BY <1>4
  <2> QED
    BY <1>1, <1>4, <2>1 DEF DisplayFollows, ShowsNew
<1> QED
  BY <1>3, <1>4 DEF DisplayFollows

(* The steps that read. *)
LEMMA FindListed ==
  ASSUME PicturesSane, AllListed, NEW p \in DOMAIN request, Serve(p), FindMapping(p)
  PROVE  AllListed'
<1>1. gallery' = gallery /\ displayed' = displayed /\ request[p].at = "find" /\ Pictured' = Pictured
  BY DEF FindMapping, Pictured
<1>2. DisplayFollows'
  BY <1>1, DisplayKept DEF AllListed, ShowsNew
<1>3. ASSUME p \in DOMAIN request'
      PROVE  HandListed(p)'
  <2>1. /\ request'[p].at # "find" /\ RequestSane(request[p])' /\ request'[p].op = request[p].op
        /\ request'[p].at = "save" => /\ request'[p].copy = gallery
                                      /\ request[p].op # "add" => p[2] \in Pictured
        /\ request'[p].at \in {"save", "showFirst"} => request'[p].picture = p[2]
    BY <1>1, <1>3, RequestMoves
  <2>2. request'[p].at # "show"
    <3>1. CASE request' = [request EXCEPT
              ![p].at = IF request[p].op = "add" /\ kind = "product" /\ request[p].isCover
                          THEN "showFirst" ELSE "save",
              ![p].isCover = AsCover(p), ![p].copy = gallery, ![p].picture = p[2]]
      BY <3>1 DEF PicturesSane, GalleryInv, RequestSane
    <3>2. CASE Finish(p)
      BY <1>3, <3>2 DEF Finish
    <3> QED
      BY <3>1, <3>2 DEF FindMapping
  <2> QED
    BY <1>1, <2>1, <2>2 DEF HandListed, Deleting
<1> QED
  BY <1>1, <1>2, <1>3, ReadListed

(* The steps that change what is displayed. *)
LEMMA ShowListed ==
  ASSUME PicturesSane, AllListed, NEW p \in DOMAIN request, Serve(p), ShowFirst(p) \/ ShowAfter(p)
  PROVE  AllListed'
<1>1. gallery' = gallery /\ kind' = kind /\ displayed' = request[p].picture
  BY DEF ShowFirst, ShowAfter
<1>2. HandListed(p) /\ RequestSane(request[p])
  BY DEF AllListed, PicturesSane, GalleryInv
<1>3. CASE ShowFirst(p)
  <2>1. /\ p \in DOMAIN request' /\ request'[p] = [request[p] EXCEPT !.at = "save"]
        /\ request[p].at = "showFirst"
    BY <1>3 DEF ShowFirst, ToStage
  <2>2. /\ request'[p].at = "save" /\ request'[p].op = "add" /\ request'[p].isCover
        /\ request'[p].picture = p[2] /\ displayed' = p[2] /\ kind = "product"
    BY <1>1, <1>2, <2>1 DEF RequestSane, HandListed
  <2>3. HandListed(p)'
    BY <2>2 DEF HandListed, Deleting
  <2>4. DisplayFollows'
    BY <1>1, <2>1, <2>2 DEF DisplayFollows, ShowsNew
  <2> QED
    BY <1>1, <2>3, <2>4, ReadListed
<1>4. CASE ShowAfter(p)
  <2>1. p \notin DOMAIN request'
    BY <1>4 DEF ShowAfter, Finish
  <2>2. displayed' \in ListedOrNone'
    BY <1>1, <1>2, <1>4 DEF ShowAfter, HandListed, ListedOrNone, Pictured
  <2> QED
    BY <1>1, <2>1, <2>2, ReadListed DEF DisplayFollows
<1> QED
  BY <1>3, <1>4

(* A save that fails. *)
LEMMA RefusedListed ==
  ASSUME PicturesSane, AllListed, NEW p \in DOMAIN request, Serve(p), Refused(p),
         request[p].at # "show", displayed' = displayed, "unsaved" \notin imgCauses'
  PROVE  AllListed'
<1>1. gallery' = gallery /\ p \notin DOMAIN request' /\ Pictured' = Pictured
  BY DEF Refused, Finish, Pictured
<1>2. ~ShowsNew(p)
  BY DEF Refused, ShowsNew
<1> QED
  BY <1>1, <1>2, DisplayKept, ReadListed DEF AllListed

(* A picture that is added. *)
LEMMA AddListed ==
  ASSUME PicturesSane, AllListed, NEW p \in DOMAIN request, Serve(p), SaveAdd(p), ~Refused(p)
  PROVE  AllListed'
<1> DEFINE new == [id |-> p[2], isCover |-> request[p].isCover]
<1>1. /\ request[p].at = "save" /\ request[p].op = "add" /\ displayed' = displayed
      /\ gallery'.coverImageId \in {p[2], gallery.coverImageId}
      /\ gallery'.images = Append(gallery.images, new)
      /\ ToStage(p, "show") \/ Finish(p)
      /\ gallery'.version = gallery.version + (IF gallery.there THEN 1 ELSE 0)
  BY DEF SaveAdd
<1>2. gallery' # gallery
  <2>1. gallery.images \in Seq(Image) /\ p[2] \in Pictures /\ request[p].isCover \in BOOLEAN
    BY DEF PicturesSane, GalleryInv, GallerySane, ListSane, Requests, RequestSane
  <2>2. new \in Image
    BY <2>1 DEF Image
  <2> HIDE DEF new
  <2>3. Len(Append(gallery.images, new)) # Len(gallery.images)
    BY <2>1, <2>2
  <2> QED
    BY <1>1, <2>3
<1>3. Pictured' = Pictured \cup {p[2]} /\ p[2] \in ListedOrNone' /\ ListedOrNone \subseteq ListedOrNone'
  <2>1. Added(p)
    BY <1>1, <1>2, GalleryMoves DEF Deleted, Deleting, Covered
  <2> QED
    BY <2>1 DEF Added, Pictured, ListedOrNone
<1>4. HandListed(p)
  BY DEF AllListed
<1>5. DisplayFollows'
  <2>1. CASE ShowsNew(p)
    BY <1>1, <1>3, <2>1 DEF ShowsNew, DisplayFollows
  <2>2. CASE ~ShowsNew(p)
    BY <1>1, <1>3, <2>2, DisplayKept DEF AllListed
  <2> QED
    BY <2>1, <2>2
<1>6. p \in DOMAIN request' => HandListed(p)'
  <2>1. SUFFICES ASSUME p \in DOMAIN request'
                 PROVE  HandListed(p)'
    OBVIOUS
  <2>2. request' = [request EXCEPT ![p].at = "show"]
    BY <1>1, <2>1 DEF ToStage, Finish
  <2>3. request'[p].at = "show" /\ request'[p].picture = request[p].picture
    BY <2>2 DEF PicturesSane, GalleryInv, RequestSane
  <2>4. request'[p].picture = p[2]
    BY <1>1, <1>4, <2>3 DEF HandListed
  <2> QED
    BY <1>3, <2>3, <2>4 DEF HandListed, Deleting
<1>7. ASSUME NEW q \in DOMAIN request', q # p
      PROVE  HandListed(q)'
  <2>1. q \in DOMAIN request /\ HandListed(q)
    BY RequestMoves DEF AllListed
  <2>2. Deleting(q) => gallery'.version # gallery.version
    <3>1. Deleting(q) => gallery.there /\ gallery.version \in Nat
      BY <2>1 DEF PicturesSane, GalleryInv, CopySane, GallerySane
    <3> QED
      BY <1>1, <3>1
  <2> QED
    BY <1>3, <1>7, <2>1, <2>2, OthersListed DEF AllListed, HandListed
<1> QED
  BY <1>1, <1>3, <1>5, <1>6, <1>7 DEF AllListed

(* A cover that is chosen. *)
LEMMA ChooseListed ==
  ASSUME PicturesSane, AllListed, NEW p \in DOMAIN request, Serve(p), SaveCover(p),
         "crossed" \notin imgCauses'
  PROVE  AllListed'
<1>1. /\ request[p].at = "save" /\ request[p].op = "cover" /\ displayed' = displayed
      /\ gallery' = [gallery EXCEPT !.coverImageId =
                       IF request[p].copy.coverImageId = p[2] THEN @ ELSE p[2]]
      /\ request' = [request EXCEPT ![p].at = "show"]
      /\ ~Doomed(p)
  BY DEF SaveCover, ToStage
<1>2. /\ gallery'.coverImageId \in {p[2], gallery.coverImageId} /\ gallery'.images = gallery.images
      /\ gallery'.version = gallery.version
  BY <1>1 DEF PicturesSane, GalleryInv, GallerySane
<1>3. Pictured' = Pictured /\ ListedOrNone' = ListedOrNone
  BY <1>2 DEF Pictured, ListedOrNone
<1>4. HandListed(p) /\ RequestSane(request[p]) /\ p[2] \in Pictures
  BY DEF AllListed, PicturesSane, GalleryInv, Requests
<1>5. /\ p \in DOMAIN request' /\ request'[p].at = "show"
      /\ request'[p].picture = request[p].picture
  BY <1>1, <1>4 DEF RequestSane
<1>6. p[2] \in Pictured /\ request[p].picture = p[2]
  BY <1>1, <1>4 DEF HandListed
<1>7. HandListed(p)'
  BY <1>3, <1>5, <1>6 DEF HandListed, Deleting, ListedOrNone
<1>8. DisplayFollows'
  BY <1>5 DEF DisplayFollows
<1>9. ASSUME NEW q \in DOMAIN request', q # p
      PROVE  HandListed(q)'
  <2>1. q \in DOMAIN request /\ HandListed(q)
    BY RequestMoves DEF AllListed
  <2>2. Deleting(q) => q[2] # p[2]
    BY <1>1, <2>1 DEF Doomed, Deleting
  <2> QED
    BY <1>2, <1>3, <1>4, <1>9, <2>1, <2>2, OthersListed DEF AllListed, HandListed
<1> QED
  BY <1>2, <1>3, <1>6, <1>7, <1>8, <1>9 DEF AllListed, ListedOrNone

(* A picture that is taken out. *)
LEMMA DeleteListed ==
  ASSUME PicturesSane, AllListed, NEW p \in DOMAIN request, Serve(p), SaveDelete(p), ~Refused(p),
         "crossed" \notin imgCauses'
  PROVE  AllListed'
<1>1. /\ Deleting(p) /\ gallery.version = request[p].copy.version
      /\ gallery' = [gallery EXCEPT !.images = Remaining(p), !.coverImageId = NextCover(p),
                                    !.version = @ + 1]
      /\ request' = [request EXCEPT ![p].at = "show", ![p].picture = CoverOf(Remaining(p))]
      /\ ~Awaited(p, p[2])
  BY DEF SaveDelete, Deleting
<1>2. /\ HandListed(p) /\ RequestSane(request[p]) /\ CopySane(p) /\ GallerySane(gallery)
      /\ p[2] \in Pictures
  BY DEF AllListed, PicturesSane, GalleryInv, Requests
<1>3. /\ gallery'.images = Remaining(p) /\ gallery'.coverImageId = NextCover(p)
      /\ gallery'.version = gallery.version + 1 /\ gallery.version \in Nat
  BY <1>1, <1>2 DEF GallerySane
<1>4. /\ ListSane(Remaining(p)) /\ IdsOf(Remaining(p)) = Pictured \ {p[2]}
      /\ Remaining(p) = <<>> \/ Remaining(p)[1].id \in IdsOf(Remaining(p))
  BY <1>1, <1>2, Filtered DEF CopySane, Pictured
<1>5. Pictured' = Pictured \ {p[2]} /\ p[2] # NoPicture
  BY <1>2, <1>3, <1>4 DEF Pictured, Pictures, NoPicture
<1>6. gallery'.coverImageId \in ListedOrNone'
  <2>1. CASE request[p].copy.coverImageId # p[2]
    <3>1. NextCover(p) = gallery.coverImageId
      BY <2>1 DEF NextCover
    <3>2. gallery.coverImageId # p[2]
      BY <1>1, <1>2, <2>1 DEF HandListed
    <3> QED
      BY <1>3, <1>5, <3>1, <3>2 DEF AllListed, ListedOrNone
  <2>2. CASE request[p].copy.coverImageId = p[2]
    BY <1>3, <1>4, <1>5, <2>2 DEF NextCover, ListedOrNone
  <2> QED
    BY <2>1, <2>2
<1>7. /\ p \in DOMAIN request' /\ request'[p].at = "show"
      /\ request'[p].picture = CoverOf(Remaining(p))
  BY <1>1, <1>2 DEF RequestSane
<1>8. HandListed(p)'
  <2>1. request'[p].picture \in ListedOrNone'
    BY <1>4, <1>5, <1>7, CoverFacts DEF ListedOrNone
  <2> QED
    BY <1>7, <2>1 DEF HandListed, Deleting
<1>9. DisplayFollows'
  BY <1>7 DEF DisplayFollows
<1>10. ASSUME NEW q \in DOMAIN request', q # p
       PROVE  HandListed(q)'
  <2>1. q \in DOMAIN request /\ HandListed(q)
    BY RequestMoves DEF AllListed
  <2>2. /\ request[q].at = "show" => request[q].picture # p[2]
        /\ request[q].at = "save" /\ request[q].op = "cover" => q[2] # p[2]
    BY <1>1, <1>10, <2>1 DEF Awaited
  <2>3. gallery'.version # gallery.version
    BY <1>3
  <2> QED
    BY <1>5, <1>10, <2>1, <2>2, <2>3, OthersListed DEF AllListed, HandListed, ListedOrNone
<1> QED
  BY <1>6, <1>8, <1>9, <1>10 DEF AllListed

(* A step of a request. *)
LEMMA ServeListed ==
  ASSUME ListedInv, NEW p \in DOMAIN request, Serve(p)
  PROVE  ListedInv'
<1>1. PicturesSane /\ PicturesSane'
  BY ServeSane DEF ListedInv
<1>2. SUFFICES ASSUME ListedCalm'
               PROVE  AllListed'
  BY <1>1 DEF ListedInv
<1>3. AllListed
  BY <1>1, <1>2, RequestMoves DEF ListedInv, ListedCalm
<1>4. CASE RequestFails(p) \/ (SaveAdd(p) /\ Refused(p)) \/ (SaveDelete(p) /\ Refused(p))
  BY <1>1, <1>2, <1>3, <1>4, RefusedListed DEF RequestFails, SaveAdd, SaveDelete, ListedCalm
<1>5. ~ShowFails(p)
  BY <1>2 DEF ShowFails, ListedCalm
<1> QED
  BY <1>1, <1>2, <1>3, <1>4, <1>5, FindListed, ShowListed, AddListed, ChooseListed, DeleteListed
  DEF Serve, ListedCalm

(* A step of a page. *)
LEMMA PageListed ==
  ASSUME ListedInv, NEW a \in Admins, OnPage(a)
  PROVE  ListedInv'
<1>1. PicturesSane /\ PicturesSane'
  BY PageSaneKept DEF ListedInv
<1>2. SUFFICES ASSUME ListedCalm'
               PROVE  AllListed'
  BY <1>1 DEF ListedInv
<1>3. /\ AllListed /\ UNCHANGED <<kind, gallery, displayed>>
      /\ DOMAIN request \subseteq DOMAIN request'
      /\ \A q \in DOMAIN request : request'[q] = request[q]
  BY <1>1, <1>2, PageMoves DEF ListedInv, ListedCalm
<1>4. \A q \in DOMAIN request' \ DOMAIN request : request'[q].at = "find"
  BY <1>1, PageMoves DEF Opened
<1>5. Pictured' = Pictured /\ ListedOrNone' = ListedOrNone
  BY <1>3 DEF Pictured, ListedOrNone
<1>6. \A q \in DOMAIN request' : HandListed(q)'
  BY <1>3, <1>4, <1>5 DEF AllListed, HandListed, Deleting
<1>7. DisplayFollows'
  BY <1>3, <1>5 DEF AllListed, DisplayFollows, ShowsNew
<1> QED
  BY <1>3, <1>5, <1>6, <1>7 DEF AllListed

(* What is displayed, and what is the cover, is listed when no request is  *)
(* under way, unless a save failed after the display, a change was not     *)
(* displayed, or a deletion crossed another request about its picture.     *)
THEOREM ShownIsListed == ImgSpec => []PictureIsListed
<1>1. ImgInit => ListedInv
  <2> SUFFICES ASSUME ImgInit
               PROVE  ListedInv
    OBVIOUS
  <2>1. DOMAIN request = {}
    BY DEF ImgInit
  <2>2. gallery.coverImageId \in ListedOrNone /\ displayed \in ListedOrNone
    <3>1. CASE gallery = NoGallery /\ displayed = NoPicture
      BY <3>1 DEF NoGallery, ListedOrNone
    <3>2. CASE /\ gallery = [there |-> TRUE, images |-> <<[id |-> First, isCover |-> TRUE]>>,
                             coverImageId |-> First, version |-> 0]
               /\ displayed = First
      <4>1. 1 \in DOMAIN gallery.images /\ gallery.images[1].id = First
        BY <3>2
      <4> QED
        BY <3>2, <4>1 DEF ListedOrNone, Pictured, IdsOf
    <3> QED
      BY <3>1, <3>2 DEF ImgInit
  <2> QED
    BY <2>1, <2>2, InitPictures DEF ListedInv, AllListed, DisplayFollows
<1>2. ListedInv /\ [ImgNext]_imgVars => ListedInv'
  <2> SUFFICES ASSUME ListedInv, [ImgNext]_imgVars
               PROVE  ListedInv'
    OBVIOUS
  <2>1. CASE UNCHANGED imgVars
    BY <2>1 DEF imgVars, ListedInv, PicturesSane, GalleryInv, ScreenInv, NewPictures, OneByOne,
                RequestSane, CopySane, Deleting, Adding, Pictured, ListedCalm, AllListed, ListedOrNone,
                DisplayFollows, ShowsNew, HandListed
  <2> QED
    BY <2>1, ServeListed, PageListed DEF ImgNext
<1>3. ListedInv => PictureIsListed
  <2> SUFFICES ASSUME PicturesSane, AllListed, ImgQuiet
               PROVE  {displayed, gallery.coverImageId} \subseteq ListedOrNone
    BY DEF ListedInv, ListedCalm, PictureIsListed, ListedOrNone
  <2>1. \A p \in DOMAIN request : p[1] \in Admins /\ Asking(p[1])
    BY DEF PicturesSane, GalleryInv, Requests, Asking
  <2>2. DOMAIN request = {}
    BY <2>1 DEF ImgQuiet, Busy
  <2> QED
    BY <2>2 DEF AllListed, DisplayFollows
<1> QED
  BY <1>1, <1>2, <1>3, PTL DEF ImgSpec
-----------------------------------------------------------------------------
(* The pictures: the shape of the state *)

(* A picture that may yet be added: not numbered, not stored, or on its    *)
(* way to the list.                                                        *)
ToCome == {i \in Pictures :
             \/ i > used
             \/ \E a \in Admins : screen[a].uploading = i
             \/ \E p \in DOMAIN request : Adding(p) /\ p[2] = i}

(* A picture is added once and deleted once, and each changes the version  *)
(* by one: those to come still cost two, those listed one.                 *)
VersionBound == gallery.version + Cardinality(Pictured) + 2 * Cardinality(ToCome) <= 2 * MaxPictures

PictureNames == Pictures \cup {NoPicture}

Mappings == [there : BOOLEAN, images : Seq(Image), coverImageId : PictureNames, version : Nat]

PictureTypes ==
  /\ displayed \in PictureNames /\ acts \in 0 .. MaxActs
  /\ gallery \in Mappings
  /\ screen \in [Admins -> Screen]
  /\ \A p \in DOMAIN request : request[p] \in ImageRequest
  /\ imgCauses \subseteq {"unlisted", "overlap", "undeleted", "unsaved", "unshown", "crossed"}

ImgTypeInv == PicturesSane /\ VersionBound /\ PictureTypes

(* There are as many pictures as their bound, and a set of them is finite. *)
LEMMA PictureCount ==
  /\ MaxPictures \in Nat /\ IsFiniteSet(Pictures) /\ Cardinality(Pictures) = MaxPictures
  /\ \A S \in SUBSET Pictures : IsFiniteSet(S) /\ Cardinality(S) \in Nat
<1>1. MaxPictures \in Nat /\ MaxPictures # 0
  BY ImagesAssumption
<1>2. IsFiniteSet(1 .. MaxPictures) /\ Cardinality(1 .. MaxPictures) = MaxPictures
  BY <1>1, FS_Interval
<1>3. ASSUME NEW S \in SUBSET Pictures
      PROVE  IsFiniteSet(S) /\ Cardinality(S) \in Nat
  BY <1>2, FS_Subset, FS_CardinalityType DEF Pictures
<1> QED
  BY <1>1, <1>2, <1>3 DEF Pictures

(* A list is no longer than there are pictures. *)
LEMMA ListBound ==
  ASSUME NEW images, ListSane(images)
  PROVE  images \in ImageLists
<1> DEFINE ids == [i \in DOMAIN images |-> images[i].id]
<1>1. /\ images \in Seq(Image) /\ Len(images) \in Nat /\ DOMAIN images = 1 .. Len(images)
      /\ \A i \in DOMAIN images : images[i] \in Image
      /\ \A i, j \in DOMAIN images : images[i].id = images[j].id => i = j
  BY DEF ListSane
<1>2. ids \in Injection(1 .. Len(images), Pictures)
  BY <1>1 DEF Injection, IsInjective, Image
<1>3. Len(images) <= MaxPictures
  <2> HIDE DEF ids
  <2>1. Cardinality(1 .. Len(images)) <= Cardinality(Pictures)
    BY <1>2, PictureCount, FS_Injection
  <2>2. \A n \in Nat : Cardinality(1 .. n) = n
    BY FS_Interval
  <2> QED
    BY <1>1, <2>1, <2>2, PictureCount
<1>4. Len(images) \in 0 .. MaxPictures /\ images \in [1 .. Len(images) -> Image]
  BY <1>1, <1>3, PictureCount
<1> QED
  BY <1>1, <1>4 DEF ImageLists

(* The mapping. *)
LEMMA MappingType ==
  ASSUME ImgTypeInv
  PROVE  gallery \in Gallery
<1>1. ListSane(gallery.images) /\ gallery.version \in Nat /\ gallery \in Mappings
  BY DEF ImgTypeInv, PictureTypes, PicturesSane, GalleryInv, GallerySane
<1>2. gallery.version <= 2 * MaxPictures
  <2>1. Pictured \subseteq Pictures /\ ToCome \subseteq Pictures
    BY PicturedFacts DEF ImgTypeInv, ToCome
  <2>2. Cardinality(Pictured) \in Nat /\ Cardinality(ToCome) \in Nat
    BY <2>1, PictureCount
  <2> QED
    BY <1>1, <2>2, PictureCount DEF ImgTypeInv, VersionBound
<1>3. gallery.version \in 0 .. 2 * Cardinality(Pictures)
  BY <1>1, <1>2, PictureCount
<1>4. gallery.images \in ImageLists
  BY <1>1, ListBound
<1> QED
  BY <1>1, <1>3, <1>4 DEF Gallery, Mappings, PictureNames

(* The first state. *)
LEMMA InitImgTypes == ImgInit => ImgTypeInv
<1> SUFFICES ASSUME ImgInit
             PROVE  ImgTypeInv
  OBVIOUS
<1>1. PicturesSane
  BY InitPictures
<1>2. MaxPictures \in Nat /\ MaxPictures # 0
  BY ImagesAssumption
<1>3. ToCome \subseteq Pictures /\ Cardinality(ToCome) \in Nat
  BY PictureCount DEF ToCome
<1>4. /\ screen \in [Admins -> Screen] /\ DOMAIN request = {} /\ acts \in 0 .. MaxActs
      /\ imgCauses = {}
  BY ImagesAssumption DEF ImgInit, Screen
<1>5. CASE gallery = NoGallery
  <2>1. Pictured = {} /\ gallery.version = 0 /\ gallery \in Mappings
    BY <1>5 DEF NoGallery, Pictured, IdsOf, Mappings, PictureNames
  <2>2. Cardinality(Pictured) = 0
    BY <2>1, FS_EmptySet
  <2>3. Cardinality(ToCome) <= MaxPictures
    BY <1>3, PictureCount, FS_Subset
  <2>4. VersionBound
    BY <1>2, <1>3, <2>1, <2>2, <2>3 DEF VersionBound
  <2> QED
    BY <1>1, <1>4, <1>5, <2>1, <2>4 DEF ImgTypeInv, PictureTypes, PictureNames, ImgInit, NoGallery, NoPicture, First
<1>6. CASE gallery # NoGallery
  <2>1. /\ gallery \in Mappings /\ gallery.version = 0
        /\ used = 1 /\ displayed = First /\ gallery.images = <<[id |-> First, isCover |-> TRUE]>>
    <3>1. /\ gallery = [there |-> TRUE, images |-> <<[id |-> First, isCover |-> TRUE]>>,
                        coverImageId |-> First, version |-> 0]
          /\ displayed = First /\ used = 1
      BY <1>6 DEF ImgInit
    <3>2. gallery.images \in Seq(Image) /\ First \in PictureNames
      BY <1>2, <3>1 DEF Image, First, Pictures, PictureNames
    <3> QED
      BY <3>1, <3>2 DEF Mappings
  <2>2. Pictured = {First}
    BY <2>1 DEF Pictured, IdsOf
  <2>3. Cardinality(Pictured) = 1
    BY <2>2, FS_Singleton
  <2>4. First \in Pictures /\ First \notin ToCome
    BY <1>2, <2>1 DEF First, Pictures, ToCome, ImgInit, NoPicture
  <2>5. Cardinality(ToCome) <= MaxPictures - 1
    <3>1. ToCome \in SUBSET (Pictures \ {First})
      BY <1>3, <2>4
    <3>2. /\ IsFiniteSet(Pictures \ {First})
          /\ Cardinality(Pictures \ {First}) = Cardinality(Pictures) - 1
      BY <2>4, PictureCount, FS_RemoveElement
    <3>3. Cardinality(ToCome) <= Cardinality(Pictures \ {First})
      BY <3>1, <3>2, FS_Subset
    <3> QED
      BY <3>2, <3>3, PictureCount
  <2>6. VersionBound
    BY <1>2, <1>3, <2>1, <2>3, <2>5 DEF VersionBound
  <2> QED
    BY <1>1, <1>4, <2>1, <2>4, <2>6 DEF ImgTypeInv, PictureTypes, PictureNames
<1> QED
  BY <1>5, <1>6

(* The bound, when pictures to come become fewer and nothing else changes. *)
LEMMA BoundStays ==
  ASSUME PicturesSane, VersionBound, ToCome' \subseteq ToCome, Pictured' = Pictured,
         gallery'.version = gallery.version
  PROVE  VersionBound'
<1>1. Pictured \subseteq Pictures /\ ToCome \subseteq Pictures
  BY PicturedFacts DEF ToCome
<1>2. Cardinality(Pictured) \in Nat /\ Cardinality(ToCome) \in Nat /\ gallery.version \in Nat
  BY <1>1, PictureCount DEF PicturesSane, GalleryInv, GallerySane
<1>3. Cardinality(ToCome') <= Cardinality(ToCome) /\ Cardinality(ToCome') \in Nat
  BY <1>1, PictureCount, FS_Subset
<1> QED
  BY <1>2, <1>3, PictureCount DEF VersionBound

(* A step of a request. *)
LEMMA ServeBound ==
  ASSUME PicturesSane, VersionBound, NEW p \in DOMAIN request, Serve(p)
  PROVE  VersionBound'
<1>1. Pictured \subseteq Pictures /\ ToCome \subseteq Pictures
  BY PicturedFacts DEF ToCome
<1>2. /\ Cardinality(Pictured) \in Nat /\ Cardinality(ToCome) \in Nat /\ gallery.version \in Nat
      /\ IsFiniteSet(Pictured) /\ IsFiniteSet(ToCome)
  BY <1>1, PictureCount DEF PicturesSane, GalleryInv, GallerySane
<1>3. \A q \in DOMAIN request' : Adding(q)' => q \in DOMAIN request /\ Adding(q)
  <2>1. \A q \in DOMAIN request' : q \in DOMAIN request /\ (q # p => (Adding(q)' => Adding(q)))
    BY RequestMoves DEF Adding
  <2> QED
    BY <2>1, PicturedMoves
<1>4. ToCome' \subseteq ToCome
  <2>1. UNCHANGED <<used, screen>>
    BY RequestMoves
  <2> QED
    BY <1>3, <2>1 DEF ToCome
<1>5. Cardinality(ToCome') <= Cardinality(ToCome) /\ Cardinality(ToCome') \in Nat
  BY <1>1, <1>4, PictureCount, FS_Subset
<1>6. CASE gallery' = gallery \/ Covered(p)
  <2>1. Pictured' = Pictured /\ gallery'.version = gallery.version
    BY <1>6 DEF Pictured, Covered
  <2> QED
    BY <1>4, <2>1, BoundStays
<1>7. CASE Added(p)
  <2>1. p[2] \in ToCome /\ p[2] \notin Pictured
    BY <1>7 DEF Added, ToCome, PicturesSane, NewPictures, GalleryInv, Requests
  <2>2. p[2] \notin ToCome'
    <3>1. /\ UNCHANGED <<used, screen>> /\ p[2] <= used /\ used \in Nat /\ p[2] \in Nat
          /\ \A b \in Admins : screen[b].uploading # p[2]
      <4>1. Adding(p) /\ UNCHANGED <<used, screen>> /\ used \in Nat
        <5>1. UNCHANGED <<used, screen>>
          BY RequestMoves
        <5> QED
          BY <1>7, <5>1 DEF Added, PicturesSane, GalleryInv
      <4>2. p[2] <= used /\ \A b \in Admins : screen[b].uploading # p[2]
        BY <4>1 DEF PicturesSane, NewPictures
      <4>3. p[2] \in Nat
        BY <2>1 DEF ToCome, Pictures
      <4> QED
        BY <4>1, <4>2, <4>3
    <3>2. \A q \in DOMAIN request' : Adding(q)' /\ q[2] = p[2] => q = p
      BY <1>3, <1>7 DEF Added, PicturesSane, NewPictures
    <3>3. p \in DOMAIN request' => ~Adding(p)'
      BY <1>7 DEF Added, Adding
    <3> QED
      BY <3>1, <3>2, <3>3 DEF ToCome
  <2>3. Cardinality(ToCome') <= Cardinality(ToCome) - 1
    <3>1. ToCome' \in SUBSET (ToCome \ {p[2]})
      BY <1>4, <2>2
    <3>2. /\ IsFiniteSet(ToCome \ {p[2]})
          /\ Cardinality(ToCome \ {p[2]}) = Cardinality(ToCome) - 1
      BY <1>2, <2>1, FS_RemoveElement
    <3>3. Cardinality(ToCome') <= Cardinality(ToCome \ {p[2]})
      BY <3>1, <3>2, FS_Subset
    <3> QED
      BY <3>2, <3>3
  <2>4. Cardinality(Pictured') = Cardinality(Pictured) + 1
    <3>1. Pictured' = Pictured \cup {p[2]}
      BY <1>7 DEF Added, Pictured
    <3> QED
      BY <1>2, <2>1, <3>1, FS_AddElement
  <2>5. gallery'.version \in {gallery.version, gallery.version + 1}
    BY <1>2, <1>7 DEF Added
  <2> QED
    BY <1>2, <1>5, <2>3, <2>4, <2>5, PictureCount DEF VersionBound
<1>8. CASE Deleted(p)
  <2>1. p[2] \in Pictured
    BY <1>8 DEF Deleted, PicturesSane, GalleryInv, CopySane, Pictured
  <2>2. Cardinality(Pictured') = Cardinality(Pictured) - 1
    <3>1. Pictured' = Pictured \ {p[2]}
      BY <1>8 DEF Deleted, Pictured
    <3> QED
      BY <1>2, <2>1, <3>1, FS_RemoveElement
  <2>3. gallery'.version = gallery.version + 1
    BY <1>8 DEF Deleted
  <2> QED
    BY <1>2, <1>5, <2>2, <2>3, PictureCount DEF VersionBound
<1> QED
  BY <1>6, <1>7, <1>8, GalleryMoves

(* A step of a page. *)
LEMMA PageBound ==
  ASSUME PicturesSane, VersionBound, NEW a \in Admins, OnPage(a)
  PROVE  VersionBound'
<1>1. /\ UNCHANGED gallery
      /\ \A q \in DOMAIN request : request'[q] = request[q]
  BY PageMoves
<1>2. /\ used \in Nat /\ used' \in Nat /\ used <= used'
      /\ \A b \in Admins : b # a => screen'[b] = screen[b]
      /\ \/ screen'[a].uploading \in {NoPicture, screen[a].uploading}
         \/ screen'[a].uploading = used' /\ used' = used + 1
      /\ \A q \in DOMAIN request' \ DOMAIN request :
           Adding(q)' => q = <<a, screen[a].uploading>>
  <2>1. used \in Nat
    BY DEF PicturesSane, GalleryInv
  <2>2. used' \in Nat /\ used <= used'
    BY ScreenMoves
  <2> QED
    BY <2>1, <2>2, ScreenMoves
<1>3. ASSUME NEW i \in ToCome'
      PROVE  i \in ToCome
  <2>1. i \in Pictures /\ i \in Nat /\ i # NoPicture
    BY <1>3 DEF ToCome, Pictures, NoPicture
  <2>2. CASE i > used'
    BY <1>2, <2>1, <2>2 DEF ToCome
  <2>3. CASE \E b \in Admins : screen'[b].uploading = i
    <3>1. PICK b \in Admins : screen'[b].uploading = i
      BY <2>3
    <3>2. CASE b # a
      BY <1>2, <2>1, <3>1, <3>2 DEF ToCome
    <3>3. CASE b = a
      <4>1. screen[a].uploading = i \/ i > used
        BY <1>2, <2>1, <3>1, <3>3
      <4> QED
        BY <2>1, <4>1 DEF ToCome
    <3> QED
      BY <3>2, <3>3
  <2>4. CASE \E q \in DOMAIN request' : Adding(q)' /\ q[2] = i
    <3>1. PICK q \in DOMAIN request' : Adding(q)' /\ q[2] = i
      BY <2>4
    <3>2. CASE q \in DOMAIN request
      <4>1. Adding(q)
        BY <1>1, <3>1, <3>2 DEF Adding
      <4> QED
        BY <2>1, <3>1, <3>2, <4>1 DEF ToCome
    <3>3. CASE q \notin DOMAIN request
      <4>1. screen[a].uploading = i
        BY <1>2, <3>1, <3>3
      <4> QED
        BY <2>1, <4>1 DEF ToCome
    <3> QED
      BY <3>2, <3>3
  <2> QED
    BY <1>3, <2>2, <2>3, <2>4 DEF ToCome
<1>4. Pictured' = Pictured /\ gallery'.version = gallery.version
  BY <1>1 DEF Pictured
<1> QED
  BY <1>3, <1>4, BoundStays

(* The list that remains, and the covers it may name. *)
LEMMA CoverNamed ==
  ASSUME PicturesSane, NEW p \in DOMAIN request, Deleting(p), gallery.coverImageId \in PictureNames
  PROVE  /\ Remaining(p) \in Seq(Image)
         /\ NextCover(p) \in PictureNames /\ CoverOf(Remaining(p)) \in PictureNames
<1>1. ListSane(request[p].copy.images) /\ p[2] \in IdsOf(request[p].copy.images)
  BY DEF PicturesSane, GalleryInv, CopySane
<1>2. /\ ListSane(Remaining(p))
      /\ Remaining(p) = <<>> \/ Remaining(p)[1].id \in IdsOf(Remaining(p))
  BY <1>1, Filtered
<1>3. Remaining(p) \in Seq(Image) /\ IdsOf(Remaining(p)) \subseteq Pictures
  <2>1. Remaining(p) \in Seq(Image)
    BY <1>2 DEF ListSane
  <2>2. \A i \in DOMAIN Remaining(p) : Remaining(p)[i] \in Image
    BY <2>1
  <2> QED
    BY <2>1, <2>2 DEF IdsOf, Image
<1>4. NextCover(p) \in PictureNames
  BY <1>2, <1>3 DEF NextCover, PictureNames
<1> QED
  BY <1>2, <1>3, <1>4, CoverFacts DEF PictureNames

(* What a step of a request writes has the shape. *)
LEMMA ServeTypes ==
  ASSUME ImgTypeInv, NEW p \in DOMAIN request, Serve(p)
  PROVE  PictureTypes'
<1>1. /\ PicturesSane /\ PictureTypes /\ gallery \in Gallery /\ gallery \in Mappings
      /\ gallery.coverImageId \in PictureNames /\ RequestSane(request[p])
  BY MappingType DEF ImgTypeInv, PictureTypes, Mappings, PicturesSane, GalleryInv
<1>2. /\ request[p] \in ImageRequest /\ p[2] \in Pictures /\ p[2] \in PictureNames
      /\ request[p].picture \in PictureNames /\ request[p].isCover \in BOOLEAN
  BY <1>1 DEF PictureTypes, PicturesSane, GalleryInv, Requests, PictureNames, ImageRequest
<1>3. /\ UNCHANGED <<acts, screen>> /\ DOMAIN request' \subseteq DOMAIN request
      /\ \A q \in DOMAIN request' : q # p => request'[q] = request[q]
  BY <1>1, RequestMoves
<1>4. displayed' \in PictureNames
  BY <1>1, <1>2 DEF PictureTypes, Serve, FindMapping, ShowFirst, SaveAdd, SaveCover, SaveDelete,
                    ShowAfter, RequestFails, ShowFails
<1>5. imgCauses' \subseteq {"unlisted", "overlap", "undeleted", "unsaved", "unshown", "crossed"}
  BY <1>1 DEF PictureTypes, Serve, FindMapping, ShowFirst, SaveAdd, SaveCover, SaveDelete,
              ShowAfter, RequestFails, ShowFails, Refused
<1>6. gallery' \in Mappings
  <2>1. CASE SaveAdd(p) /\ gallery' # gallery
    <3> DEFINE new == [id |-> p[2], isCover |-> request[p].isCover]
    <3>1. gallery' = [there |-> TRUE, images |-> Append(gallery.images, new),
                      coverImageId |-> IF new.isCover THEN p[2] ELSE gallery.coverImageId,
                      version |-> gallery.version + (IF gallery.there THEN 1 ELSE 0)]
      BY <2>1 DEF SaveAdd, Refused
    <3>2. new \in Image
      BY <1>2 DEF Image
    <3>3. Append(gallery.images, new) \in Seq(Image) /\ gallery.version \in Nat
      BY <1>1, <3>2 DEF Mappings
    <3> HIDE DEF new
    <3> QED
      BY <1>1, <1>2, <3>1, <3>3 DEF Mappings
  <2>2. CASE SaveCover(p)
    BY <1>1, <1>2, <2>2 DEF SaveCover, Mappings
  <2>3. CASE SaveDelete(p) /\ gallery' # gallery
    <3>1. /\ gallery' = [gallery EXCEPT !.images = Remaining(p), !.coverImageId = NextCover(p),
                                         !.version = @ + 1]
          /\ Deleting(p)
      BY <2>3 DEF SaveDelete, Refused, Deleting
    <3>2. Remaining(p) \in Seq(Image) /\ NextCover(p) \in PictureNames
      BY <1>1, <3>1, CoverNamed
    <3>3. /\ gallery \in [there : BOOLEAN, images : Seq(Image), coverImageId : PictureNames,
                          version : Nat]
          /\ gallery.version + 1 \in Nat
      BY <1>1 DEF Mappings
    <3> QED
      BY <3>1, <3>2, <3>3 DEF Mappings
  <2>4. CASE gallery' = gallery
    BY <1>1, <2>4
  <2> QED
    BY <2>1, <2>2, <2>3, <2>4
    DEF Serve, FindMapping, ShowFirst, ShowAfter, RequestFails, ShowFails, Refused
<1>7. ASSUME p \in DOMAIN request'
      PROVE  request'[p] \in ImageRequest
  <2> USE <1>1, <1>2, <1>7
  <2>1. CASE FindMapping(p)
    <3>1. /\ request' = [request EXCEPT
              ![p].at = IF request[p].op = "add" /\ kind = "product" /\ request[p].isCover
                          THEN "showFirst" ELSE "save",
              ![p].isCover = AsCover(p), ![p].copy = gallery, ![p].picture = p[2]]
      BY <2>1 DEF FindMapping, Finish
    <3>2. AsCover(p) \in BOOLEAN
      BY DEF AsCover
    <3> QED
      BY <3>1, <3>2 DEF ImageRequest, PictureNames
  <2>2. ASSUME NEW stage \in {"save", "show"}, ToStage(p, stage)
        PROVE  request'[p] \in ImageRequest
    BY <2>2 DEF ToStage, ImageRequest
  <2>3. CASE SaveDelete(p)
    <3>1. /\ request' = [request EXCEPT ![p].at = "show", ![p].picture = CoverOf(Remaining(p))]
          /\ Deleting(p)
      BY <2>3 DEF SaveDelete, Refused, Finish, Deleting
    <3>2. CoverOf(Remaining(p)) \in PictureNames
      BY <3>1, CoverNamed
    <3> QED
      BY <3>1, <3>2 DEF ImageRequest, PictureNames
  <2>4. ~Finish(p)
    BY DEF Finish
  <2> QED
    BY <2>1, <2>2, <2>3, <2>4
    DEF Serve, ShowFirst, SaveAdd, SaveCover, ShowAfter, RequestFails, ShowFails, Refused
<1> QED
  BY <1>1, <1>3, <1>4, <1>5, <1>6, <1>7 DEF PictureTypes

(* What a step of a page writes has the shape. *)
LEMMA PageTypes ==
  ASSUME ImgTypeInv, NEW a \in Admins, OnPage(a)
  PROVE  PictureTypes'
<1>1. PicturesSane /\ PictureTypes /\ used \in 0 .. MaxPictures
  BY DEF ImgTypeInv, PicturesSane, GalleryInv
<1>2. /\ UNCHANGED <<gallery, displayed>>
      /\ \A q \in DOMAIN request : request'[q] = request[q]
      /\ \A q \in DOMAIN request' \ DOMAIN request :
           \E op \in {"add", "cover", "delete"}, c \in BOOLEAN : request'[q] = Opened(op, c)
  BY <1>1, PageMoves
<1>3. \A q \in DOMAIN request' : request'[q] \in ImageRequest
  <2>1. NoGallery \in Gallery
    <3>1. ListSane(<<>>)
      BY DEF ListSane
    <3>2. <<>> \in ImageLists /\ 0 \in 0 .. 2 * Cardinality(Pictures)
      BY <3>1, ListBound, PictureCount
    <3> QED
      BY <3>2 DEF NoGallery, Gallery
  <2>2. \A op \in {"add", "cover", "delete"}, c \in BOOLEAN : Opened(op, c) \in ImageRequest
    BY <2>1 DEF Opened, ImageRequest
  <2> QED
    BY <1>1, <1>2, <2>2 DEF PictureTypes
<1>4. acts' \in 0 .. MaxActs
  <2>1. acts \in 0 .. MaxActs /\ MaxActs \in Nat
    BY <1>1, ImagesAssumption DEF PictureTypes
  <2>2. acts' = acts \/ Act(a)
    BY DEF OnPage, LoadList, Upload, AddUploaded, UploadFails, Delete, ChooseCover
  <2> QED
    BY <2>1, <2>2 DEF Act
<1>5. imgCauses' \subseteq {"unlisted", "overlap", "undeleted", "unsaved", "unshown", "crossed"}
  BY <1>1 DEF PictureTypes, OnPage, LoadList, Upload, AddUploaded, UploadFails, Delete, ChooseCover
<1>6. screen' \in [Admins -> Screen]
  <2>1. Pictured \subseteq Pictures
    BY <1>1, PicturedFacts
  <2>2. used < MaxPictures => used + 1 \in Pictures
    BY <1>1, PictureCount DEF Pictures
  <2>3. screen \in [Admins -> Screen]
    BY <1>1 DEF PictureTypes
  <2>4. ASSUME NEW S \in SUBSET Pictures, screen' = [screen EXCEPT ![a].seen = S]
        PROVE  screen' \in [Admins -> Screen]
    BY <2>3, <2>4 DEF Screen
  <2>5. ASSUME NEW i \in Pictures \cup {NoPicture}, screen' = [screen EXCEPT ![a].uploading = i]
        PROVE  screen' \in [Admins -> Screen]
    BY <2>3, <2>5 DEF Screen
  <2> QED
    BY <2>1, <2>2, <2>3, <2>4, <2>5
    DEF OnPage, LoadList, Upload, AddUploaded, UploadFails, Delete, ChooseCover
<1> QED
  BY <1>1, <1>2, <1>3, <1>4, <1>5, <1>6 DEF PictureTypes

(* Every step. *)
LEMMA NextImgTypes == ImgTypeInv /\ [ImgNext]_imgVars => ImgTypeInv'
<1> SUFFICES ASSUME ImgTypeInv, [ImgNext]_imgVars
             PROVE  ImgTypeInv'
  OBVIOUS
<1>1. CASE UNCHANGED imgVars
  BY <1>1 DEF imgVars, ImgTypeInv, PicturesSane, GalleryInv, ScreenInv, NewPictures, OneByOne,
              RequestSane, CopySane, Deleting, Adding, Pictured, VersionBound, ToCome, PictureTypes
<1> QED
  BY <1>1, ServeSane, ServeBound, ServeTypes, PageSaneKept, PageBound, PageTypes
  DEF ImgTypeInv, ImgNext

(* The mapping, the pages and the requests keep their shape; in particular *)
(* a list never holds a picture twice, and every change of it that counts  *)
(* is the one addition or the one deletion of some picture: images.service *)
(* and AdminImagesPage.tsx.                                                *)
THEOREM PictureTypesKept == ImgSpec => []ImgTypeOK
<1>1. ImgTypeInv => ImgTypeOK
  <2> SUFFICES ASSUME ImgTypeInv
               PROVE  ImgTypeOK
    OBVIOUS
  <2>1. gallery \in Gallery
    BY MappingType
  <2> QED
    BY <2>1 DEF ImgTypeInv, PictureTypes, PictureNames, ImgTypeOK, PicturesSane, GalleryInv
<1> QED
  BY <1>1, InitImgTypes, NextImgTypes, PTL DEF ImgSpec

-----------------------------------------------------------------------------
(* The web client as a whole *)

(* A step of the whole is a step of one part; the others stay.  Each part  *)
(* of the whole therefore behaves as it does alone, and every theorem      *)
(* above holds of it there: MCWeb.tla composes the parts as the pages of   *)
(* apps/web do, that share no state.                                       *)
THEOREM WebIsItsParts == WebSpec => Spec /\ CartSpec /\ ToastsSpec /\ ImgSpec
<1>1. WebInit => Init /\ CartInit /\ ToastsInit /\ ImgInit
  BY DEF WebInit
<1>2. [WebNext]_<<vars, cartVars, toastVars, imgVars, focus>> =>
        [Next]_vars /\ [CartNext]_cartVars /\ [ToastsNext]_toastVars /\ [ImgNext]_imgVars
  BY DEF WebNext
<1> QED
  BY <1>1, <1>2, PTL DEF WebSpec, Spec, CartSpec, ToastsSpec, ImgSpec

(* Every part keeps its shape, whatever part moves: the types that a run   *)
(* checks on a small instance, for any items, users, tabs, products,       *)
(* orders, filters and pictures.                                           *)
THEOREM WebTypesKept == WebSpec => []WebTypeOK
<1>1. TypeOK /\ CartTypeOK /\ ToastsTypeOK /\ ImgTypeOK => WebTypeOK
  BY DEF WebTypeOK
<1> QED
  BY <1>1, WebIsItsParts, CheckoutTypeCorrect, CartTypesKept, ToastTypesKept, PictureTypesKept, PTL

=============================================================================
