------------------------------ MODULE CartStore ------------------------------
(***************************************************************************)
(* The cart of the web client in several tabs of one browser.  Each tab    *)
(* holds a cart in memory and saves it whole, after every change, under a  *)
(* key of its user in the localStorage all tabs share; a tab reads that    *)
(* key when somebody logs in there and when the page is loaded, and never  *)
(* hears of the other tabs' changes.  The lines of a product's parts are   *)
(* kept in the cart, next to the line of the product itself.               *)
(***************************************************************************)
EXTENDS Naturals, FiniteSets, Functions

CONSTANTS
  Tabs,        \* the tabs of the browser
  Users,       \* the users who log in there
  NoUser,      \* nobody is logged in
  Products,    \* the products that can be ordered
  PartsOf,     \* product -> part -> its quantity per product (subArticles)
  Shelf,       \* the products of the category an administrator may hide
  Customers,   \* the customers an order may be for
  NoCustomer,  \* none is chosen
  Legacy,      \* the products in the cart of the old single-cart format
  MaxQuantity, \* bound: the quantity of a line
  MaxChanges   \* bound: changes of carts

ASSUME CartAssumption ==
  /\ NoUser \notin Users /\ NoCustomer \notin Customers
  /\ Shelf \subseteq Products /\ Legacy \subseteq Products
  /\ \A p \in Products : Range(PartsOf[p]) \subseteq Nat
  /\ MaxQuantity \in Nat \ {0} /\ MaxChanges \in Nat

VARIABLES
  stored,     \* localStorage: cart-user-<id>, for the users that have one
  legacy,     \* localStorage: cart-storage, a cart or nothing
  session,    \* localStorage: the user of auth-storage
  tab,        \* the user and the cart of each tab
  changes,    \* how many changes were made
  wanted,     \* history: the carts if every change went to one cart per user
  touched,    \* history: the products each user put into a cart, or took over
  cartCauses  \* history: what happened that can harm a cart

cartVars == <<stored, legacy, session, tab, changes, wanted, touched, cartCauses>>

(* syncChildItems: the lines of the parts, as the products' lines say. *)
PartLines(quantity) ==
  [l \in UNION {{p} \X DOMAIN PartsOf[p] : p \in DOMAIN quantity} |->
     quantity[l[1]] * PartsOf[l[1]][l[2]]]

(* custom: the products with a unit price the user gave. *)
IsCart(cart) ==
  /\ DOMAIN cart = {"quantity", "parts", "custom", "customer"}
  /\ DOMAIN cart.quantity \subseteq Products
  /\ Range(cart.quantity) \subseteq 1 .. MaxQuantity
  /\ \A l \in DOMAIN cart.parts : l[2] \in DOMAIN PartsOf[l[1]] /\ cart.parts[l] \in Nat
  /\ cart.custom \subseteq DOMAIN cart.quantity
  /\ cart.customer \in Customers \cup {NoCustomer}

EmptyCart == [quantity |-> [p \in {} |-> 0], parts |-> [l \in {} |-> 0],
              custom |-> {}, customer |-> NoCustomer]

LegacyCart == [EmptyCart EXCEPT !.quantity = [p \in Legacy |-> 1],
                                !.parts    = PartLines([p \in Legacy |-> 1])]

-----------------------------------------------------------------------------
(* What the store's operations make of a cart *)

(* The quantity of the products changes and the parts are derived anew. *)
Synced(cart, quantity) ==
  [cart EXCEPT !.quantity = quantity, !.parts = PartLines(quantity),
               !.custom = @ \cap DOMAIN quantity]

(* addItem, and addItems of a reorder: a line that is there grows. *)
Merge(cart, ps) ==
  Synced(cart, [p \in DOMAIN cart.quantity \cup ps |->
                  (IF p \in DOMAIN cart.quantity THEN cart.quantity[p] ELSE 0)
                  + (IF p \in ps THEN 1 ELSE 0)])

(* Mutant: only a negative quantity removes the line. *)
UpdateQuantityToZero(cart, p, n) ==
  Synced(cart, [cart.quantity EXCEPT ![p] = n])

(* updateQuantity: the line of quantity 0 or less goes. *)
UpdateQuantity(cart, p, n) ==
  Synced(cart, IF n = 0 THEN Restrict(cart.quantity, DOMAIN cart.quantity \ {p})
                        ELSE [cart.quantity EXCEPT ![p] = n])

(* Mutant: only the lines themselves go. *)
RemoveLinesOnly(cart, ps) ==
  [cart EXCEPT !.quantity = Restrict(@, DOMAIN @ \ ps), !.custom = @ \ ps]

(* removeItem and removeItemsByCategory: the lines go, and the parts that  *)
(* name them as their parent; nothing is derived anew.                     *)
Remove(cart, ps) ==
  [cart EXCEPT !.quantity = Restrict(@, DOMAIN @ \ ps),
               !.parts    = Restrict(@, {l \in DOMAIN @ : l[1] \notin ps}),
               !.custom   = @ \ ps]

-----------------------------------------------------------------------------
(* The browser's storage *)

SavedCart(u) == IF u \in DOMAIN stored THEN stored[u] ELSE EmptyCart

(* loadCartForUser: the old cart goes to the first user who has none. *)
Takes(u)  == u # NoUser /\ u \notin DOMAIN stored /\ legacy # {}
Loaded(u) == IF Takes(u) THEN CHOOSE c \in legacy : TRUE ELSE SavedCart(u)

CartInit ==
  /\ stored     = [u \in {} |-> EmptyCart]
  /\ legacy     \in {{}, {LegacyCart}}
  /\ session    = NoUser
  /\ tab        = [t \in Tabs |-> [user |-> NoUser, cart |-> EmptyCart]]
  /\ changes    = 0
  /\ wanted     = [u \in Users |-> EmptyCart]
  /\ touched    = [u \in Users |-> {}]
  /\ cartCauses = {}

(* saveCartForUser: setItem may throw (the quota), which is only logged. *)
SaveCart(u, cart, causes) ==
  \/ /\ stored' = [v \in DOMAIN stored \cup {u} |-> IF v = u THEN cart ELSE stored[v]]
     /\ cartCauses' = cartCauses \cup causes
  \/ UNCHANGED stored /\ cartCauses' = cartCauses \cup causes \cup {"quota"}

(* The tab writes over a cart that it has not read. *)
Stale(t) == IF tab[t].cart # SavedCart(tab[t].user) THEN {"stale"} ELSE {}

(* The tab shows u and the cart of u. *)
Show(t, u) ==
  tab' = [tab EXCEPT ![t] = [user |-> u,
                             cart |-> IF u = NoUser THEN EmptyCart ELSE Loaded(u)]]

Migrate(u) ==
  IF Takes(u)
    THEN /\ SaveCart(u, Loaded(u), {})
         /\ legacy'  = {}
         /\ wanted'  = [wanted EXCEPT ![u] = Loaded(u)]
         /\ touched' = [touched EXCEPT ![u] = @ \cup DOMAIN Loaded(u).quantity]
    ELSE UNCHANGED <<stored, legacy, wanted, touched, cartCauses>>

-----------------------------------------------------------------------------
(* Users come and go *)

Login(t, u) ==
  /\ tab[t].user = NoUser
  /\ Show(t, u)
  /\ Migrate(u)
  /\ session' = u
  /\ UNCHANGED changes

(* Mutant: the cart stays in the tab for whoever comes next. *)
ReloadKeepsCart(t) ==
  /\ tab' = [tab EXCEPT ![t].user = session]
  /\ Migrate(session)
  /\ UNCHANGED <<session, changes>>

(* The page is loaded anew: as the user whom auth-storage names by now. *)
Reload(t) ==
  /\ Show(t, session)
  /\ Migrate(session)
  /\ UNCHANGED <<session, changes>>

(* logout, by the user or on a 401: saveAndClearForUser. *)
Logout(t) ==
  /\ tab[t].user # NoUser
  /\ SaveCart(tab[t].user, tab[t].cart, Stale(t))
  /\ Show(t, NoUser)
  /\ session' = NoUser
  /\ UNCHANGED <<legacy, changes, wanted, touched>>

-----------------------------------------------------------------------------
(* Changes of the cart *)

(* Mutant: the change stays in the tab until somebody logs out. *)
ChangeUnsaved(t, cart, meant, ps) ==
  LET u == tab[t].user IN
  /\ changes < MaxChanges
  /\ changes' = changes + 1
  /\ tab'     = [tab EXCEPT ![t].cart = cart]
  /\ wanted'  = [wanted EXCEPT ![u] = meant]
  /\ touched' = [touched EXCEPT ![u] = @ \cup ps]
  /\ cartCauses' = cartCauses \cup Stale(t)
  /\ UNCHANGED <<stored, legacy, session>>

(* The tab's cart becomes another one and is saved; meant is what the same *)
(* operation makes of the one cart the user has in mind.                   *)
Change(t, cart, meant, ps) ==
  LET u == tab[t].user IN
  /\ changes < MaxChanges
  /\ changes' = changes + 1
  /\ tab'     = [tab EXCEPT ![t].cart = cart]
  /\ SaveCart(u, cart, Stale(t))
  /\ wanted'  = [wanted EXCEPT ![u] = meant]
  /\ touched' = [touched EXCEPT ![u] = @ \cup ps]
  /\ UNCHANGED <<legacy, session>>

Here(t)  == tab[t].cart
Meant(t) == wanted[tab[t].user]

Fits(cart, ps) == \A p \in ps \cap DOMAIN cart.quantity : cart.quantity[p] < MaxQuantity

AddToCart(t, p) ==
  /\ tab[t].user # NoUser
  /\ Fits(Here(t), {p}) /\ Fits(Meant(t), {p})
  /\ Change(t, Merge(Here(t), {p}), Merge(Meant(t), {p}), {p})

(* addItems, which only a reorder calls: the order's customer is taken on. *)
Reorder(t, ps, c) ==
  /\ tab[t].user # NoUser
  /\ Fits(Here(t), ps) /\ Fits(Meant(t), ps)
  /\ Change(t, [Merge(Here(t), ps) EXCEPT !.customer = c],
               [Merge(Meant(t), ps) EXCEPT !.customer = c], ps)

(* A line that another tab removed or added is meant all the same. *)
SetQuantity(t, p, n) ==
  /\ tab[t].user # NoUser
  /\ p \in DOMAIN Here(t).quantity
  /\ Change(t, UpdateQuantity(Here(t), p, n),
               IF p \in DOMAIN Meant(t).quantity THEN UpdateQuantity(Meant(t), p, n)
                                                 ELSE Meant(t), {})

(* updateUnitPrice and resetToOriginalPrice *)
SetPrice(t, p, own) ==
  /\ tab[t].user # NoUser
  /\ p \in DOMAIN Here(t).quantity
  /\ LET Priced(cart) ==
           [cart EXCEPT !.custom = IF own THEN @ \cup ({p} \cap DOMAIN cart.quantity)
                                          ELSE @ \ {p}]
     IN Change(t, Priced(Here(t)), Priced(Meant(t)), {})

RemoveItems(t, ps) ==
  /\ tab[t].user # NoUser
  /\ Change(t, Remove(Here(t), ps), Remove(Meant(t), ps), {})

SetCustomer(t, c) ==
  /\ tab[t].user # NoUser
  /\ Change(t, [Here(t) EXCEPT !.customer = c], [Meant(t) EXCEPT !.customer = c], {})

(* clear, by the user or after an order. *)
Clear(t) ==
  /\ tab[t].user # NoUser
  /\ Change(t, EmptyCart, EmptyCart, {})

-----------------------------------------------------------------------------

Changes(t) ==
  \/ \E p \in Products : AddToCart(t, p) \/ RemoveItems(t, {p})
                         \/ \E n \in 0 .. MaxQuantity : SetQuantity(t, p, n)
                         \/ \E own \in BOOLEAN : SetPrice(t, p, own)
  \/ RemoveItems(t, Shelf) \/ Clear(t)
  \/ \E c \in Customers : Reorder(t, Products, c)
  \/ \E c \in Customers \cup {NoCustomer} : SetCustomer(t, c)

CartNext ==
  \E t \in Tabs : \/ \E u \in Users : Login(t, u)
                  \/ Reload(t) \/ Logout(t) \/ Changes(t)

CartSpec == CartInit /\ [][CartNext]_cartVars

-----------------------------------------------------------------------------
(* Properties *)

(* The shape of the state. *)
CartTypeOK ==
  /\ DOMAIN stored \subseteq Users /\ \A u \in DOMAIN stored : IsCart(stored[u])
  /\ legacy \subseteq {LegacyCart}
  /\ session \in Users \cup {NoUser}
  /\ \A t \in Tabs : tab[t].user \in Users \cup {NoUser} /\ IsCart(tab[t].cart)
  /\ changes \in 0 .. MaxChanges
  /\ \A u \in Users : IsCart(wanted[u])
  /\ touched \in [Users -> SUBSET Products]
  /\ cartCauses \subseteq {"stale", "quota"}

(* In every tab and every saved cart the lines of the parts are those the  *)
(* products' lines call for, through additions, merges, removals by line   *)
(* and by category, and carts that were saved long ago.                    *)
PartsFollowProducts ==
  \A cart \in {tab[t].cart : t \in Tabs} \cup Range(stored) :
    cart.parts = PartLines(cart.quantity)

(* No user finds what another user of the browser put into a cart, in a    *)
(* tab or in the storage, whatever tabs are logged in as whom.             *)
CartsNeverMix ==
  /\ \A t \in Tabs : tab[t].user # NoUser =>
       DOMAIN tab[t].cart.quantity \subseteq touched[tab[t].user]
  /\ \A u \in DOMAIN stored : DOMAIN stored[u].quantity \subseteq touched[u]

(* The saved cart is what all the user's changes make of one cart: nothing *)
(* is lost by, or comes back after, logging out and in, a reload or other  *)
(* users' sessions, unless a tab saved over changes it had not read or the *)
(* storage was full.                                                       *)
CartIsKept == cartCauses = {} => \A u \in Users : SavedCart(u) = wanted[u]

=============================================================================
