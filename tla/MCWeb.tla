-------------------------------- MODULE MCWeb --------------------------------
(* Small instances of the parts of the web client that keep state of their *)
(* own: the checkout, the cart in two tabs, the toasts of synced orders,   *)
(* the pictures page.  One of them moves in each behaviour.                *)
EXTENDS Checkout, CartStore, SyncToasts, Images, TLC

CONSTANTS
  i1, i2,  \* interchangeable: the items, the tabs, the filters, the admins
  u1, u2, p1, p2, part, c1, o1, o2

VARIABLE focus

TwoOfAKind   == {i1, i2}
TwoUsers     == {u1, u2}
TwoProducts  == {p1, p2}
OneProduct   == {p1}
OneCustomer  == {c1}
PartsOfFirst == (p1 :> (part :> 2)) @@ (p2 :> <<>>)
TwoOrders    == {o1, o2}
ListedOrders == [l \in TwoOfAKind |-> {o1}]

WebSymmetry == Permutations(TwoOfAKind) \cup Permutations(TwoUsers)

(* A part that does not move starts in one state only. *)
WebInit ==
  /\ focus \in {"checkout", "cart", "toasts", "images"}
  /\ Init /\ CartInit /\ ToastsInit /\ ImgInit
  /\ focus # "cart" => legacy = {}
  /\ focus # "images" => kind = "product" /\ gallery = NoGallery

WebNext ==
  /\ \/ focus = "checkout" /\ Next /\ UNCHANGED <<cartVars, toastVars, imgVars>>
     \/ focus = "cart" /\ CartNext /\ UNCHANGED <<vars, toastVars, imgVars>>
     \/ focus = "toasts" /\ ToastsNext /\ UNCHANGED <<vars, cartVars, imgVars>>
     \/ focus = "images" /\ ImgNext /\ UNCHANGED <<vars, cartVars, toastVars>>
  /\ UNCHANGED focus

WebSpec == WebInit /\ [][WebNext]_<<vars, cartVars, toastVars, imgVars, focus>>

(* Once something harmed the cart, nothing is claimed of what was wanted.  *)
WebView ==
  <<vars, <<stored, legacy, session, tab, changes, touched>>,
    IF cartCauses = {} THEN wanted ELSE [u \in Users |-> "harmed"],
    toastVars, imgVars, focus>>

(* The shape of the four states (a part that does not move keeps its own). *)
WebTypeOK ==
  /\ focus = "checkout" => TypeOK
  /\ focus = "cart" => CartTypeOK
  /\ focus = "toasts" => ToastsTypeOK
  /\ focus = "images" => ImgTypeOK

=============================================================================
