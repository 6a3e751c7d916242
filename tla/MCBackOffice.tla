---------------------------- MODULE MCBackOffice ----------------------------
(* Small instances of the parts of the API beside the orders: customers,   *)
(* products, the price of a product on its way into an order, reminders,   *)
(* an account.  One of them moves in each behaviour.                       *)
EXTENDS Customers, Catalog, MCPrices, Reminders, Accounts

CONSTANTS
  i1, i2,  \* interchangeable: the tasks, the visits, the processes, the admins
  c1, c2, p1, p2, d1, d2

VARIABLE focus

TwoOfAKind   == {i1, i2}
TwoCustomers == {c1, c2}
OneCustomer  == {c1}
TwoProducts  == {p1, p2}
OneProduct   == {p1}
TwoDeliveries == {d1, d2}

OfficeSymmetry == Permutations(TwoOfAKind)

(* A component that does not move starts in one state only. *)
OfficeInit ==
  /\ focus \in {"customers", "catalog", "prices", "reminders", "accounts"}
  /\ CustInit /\ CatInit /\ PricesInit /\ RemInit /\ AccInit
  /\ focus # "prices" => /\ erpPrice = 100000 /\ rules = <<>>
                         /\ policy.mode = "full"

OfficeNext ==
  /\ \/ focus = "customers" /\ CustNext /\ UNCHANGED <<catVars, priceVars, remVars, accVars>>
     \/ focus = "catalog" /\ CatNext /\ UNCHANGED <<custVars, priceVars, remVars, accVars>>
     \/ focus = "prices" /\ PricesNext /\ UNCHANGED <<custVars, catVars, remVars, accVars>>
     \/ focus = "reminders" /\ RemNext /\ UNCHANGED <<custVars, catVars, priceVars, accVars>>
     \/ focus = "accounts" /\ AccNext /\ UNCHANGED <<custVars, catVars, priceVars, remVars>>
  /\ UNCHANGED focus

OfficeVars == <<custVars, catVars, priceVars, remVars, accVars, focus>>

(* Of the causes in the catalogue, what its properties ask of them; no     *)
(* step depends on any.                                                    *)
OfficeView ==
  <<custVars, <<time, article, rows, category, idsCache, shopCache, pageCache, visit>>,
    catCauses \cap {"lateFill", "flushLost"} = {},
    catCauses \cap {"viewed", "editDuringSync", "rowFailed", "syncCut"} = {},
    priceVars, remVars, accVars, focus>>

(* Nothing is claimed of reminders, accounts and prices after these; causes*)
(* only grow.                                                              *)
OfficeClaims == /\ remCauses = {} /\ accCauses = {}
                /\ priceCauses \cap {"moved", "nobody"} = {}

OfficeSpec == OfficeInit /\ [][OfficeNext]_OfficeVars

(* The shape of the five states (a part that does not move keeps its own). *)
OfficeTypeOK ==
  /\ focus = "customers" => CustTypeOK
  /\ focus = "catalog" => CatTypeOK
  /\ focus = "prices" => PricesTypeOK
  /\ focus = "reminders" => RemTypeOK
  /\ focus = "accounts" => AccTypeOK

=============================================================================
