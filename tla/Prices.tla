-------------------------------- MODULE Prices --------------------------------
(***************************************************************************)
(* The price of one product on its way into an order for one customer.     *)
(* The API computes it from the ERP's price and the customer's rules, and  *)
(* caches the answers; the web client shows an answer, copies it into a    *)
(* cart line, lets some users give a price of their own, and sends the     *)
(* line's price; the API compares that with the price it would ask, and    *)
(* takes any other for an override, which the user's policy must allow.    *)
(*                                                                         *)
(* Prices are hundredths of a cent, so that a discount may leave a         *)
(* fraction of a cent; Cent is the unit of a price that was rounded.       *)
(***************************************************************************)
EXTENDS Integers, Sequences, SequencesExt

CONSTANTS
  ErpPrices,  \* the prices the ERP may ask
  Purchase,   \* what the product costs us, or 0 if that is not known
  Rules,      \* the rules an administrator may make
  OwnPrices,  \* the prices users may give
  Policies,   \* what a user may do to prices
  MaxRules,   \* bound: rules that apply to the product and the customer
  MaxMoves    \* bound: changes of the ERP's price, the rules and the policy

Cent == 100

ASSUME PricesAssumption ==
  /\ ErpPrices \subseteq {n \in Nat : n > 0 /\ n % Cent = 0}
  /\ Purchase \in Nat
  /\ Rules \subseteq [kind : {"fixed", "percent"}, value : Nat]
  /\ \A r \in Rules : r.kind = "percent" => r.value <= 100
  /\ OwnPrices \subseteq Nat
  /\ Policies \subseteq [mode : {"none", "limited", "full"}, limit : 0 .. 100]
  /\ MaxRules \in Nat /\ MaxMoves \in Nat

VARIABLES
  erpPrice,  \* verkoopprijs in the ERP
  row,       \* verkoopprijs in the database
  rules,     \* the active rules that match, highest priority first
  quotes,    \* the cached answers: key -> quote
  buyer,     \* the user: customer or staff, and the policy known at login
  policy,    \* the user's policy in the database
  page,      \* the quote on the product page, or none
  line,      \* the cart line, or none
  outcome,   \* what became of the order, with the user's own price if any
  moves,     \* how often prices, rules or the policy changed
  priceCauses \* history: what can make the line's price another than asked

priceVars == <<erpPrice, row, rules, quotes, buyer, policy, page, line, outcome,
               moves, priceCauses>>

None == [none |-> TRUE]
Has(r) == r # None

(* The cached answers: a list, a page that enforces visibility, a page     *)
(* that does not; each for the customer, or for no customer.               *)
QuoteKeys == {"list", "active", "all"} \X {"customer", "nobody"}

Quote == [base : Nat, final : Nat]
Line  == [unit : Nat, base : Nat, own : Nat \cup {-1}, confirmed : BOOLEAN]

(* money(): rounded to a cent, halves up. *)
Money(v) == ((v + Cent \div 2) \div Cent) * Cent

-----------------------------------------------------------------------------
(* calculatePrice *)

(* One turn of the loop: a fixed price ends it, a percentage of the base   *)
(* price does not, and replaces what an earlier rule made.                 *)
ApplyRule(state, rule, base) ==
  IF state.final THEN state
  ELSE IF rule.kind = "fixed" THEN [price |-> rule.value, final |-> TRUE]
  ELSE [price |-> (base * (100 - rule.value)) \div 100, final |-> FALSE]

(* What the first rules make of the base price, for any number of them. *)
AfterRules(rs, base) ==
  LET after[n \in 0 .. Len(rs)] ==
        IF n = 0 THEN [price |-> base, final |-> FALSE]
                 ELSE ApplyRule(after[n - 1], rs[n], base)
  IN after

CalculatePrice(rs, base) == AfterRules(rs, base)[Len(rs)].price

QuoteFor(key, base) ==
  [base |-> base,
   final |-> IF key[2] = "customer" THEN CalculatePrice(rules, base) ELSE base]

-----------------------------------------------------------------------------
(* price-override.ts *)

(* getMinimumAllowedPrice: from the purchase price if there is one. *)
MinimumPrice(limit, base) ==
  IF Purchase > 0 THEN Money((Purchase * (100 + limit)) \div 100)
                  ELSE Money((base * (100 - limit)) \div 100)

(* validateUnitPriceOverride *)
AllowsOverride(pol, asked, base) ==
  \/ pol.mode = "full"
  \/ pol.mode = "limited" /\ asked >= MinimumPrice(pol.limit, base)

(* Mutant: the web client allows any price that is not a loss. *)
ValidPriceAtCost(pol, asked, base) ==
  IF pol.mode = "none" THEN asked = base
  ELSE pol.mode = "full" \/ asked >= Purchase

(* validatePrice of the web client, with its copy of these rules. *)
ValidPrice(pol, asked, base) ==
  IF pol.mode = "none" THEN asked = base ELSE AllowsOverride(pol, asked, base)

-----------------------------------------------------------------------------

PricesInit ==
  /\ erpPrice \in ErpPrices
  /\ row = erpPrice
  /\ rules \in UNION {[1 .. n -> Rules] : n \in 0 .. MaxRules}
  /\ quotes = [k \in {} |-> None]
  /\ policy \in Policies
  /\ buyer \in {[role |-> r, policy |-> policy] :
                  r \in IF policy.mode = "none" THEN {"customer", "staff"} ELSE {"staff"}}
  /\ page = None
  /\ line = None
  /\ outcome = None
  /\ moves = 0
  /\ priceCauses = {}

(* A change is a cause when somebody has the price from before it. *)
Moved(kind) ==
  /\ moves < MaxMoves
  /\ moves' = moves + 1
  /\ priceCauses' = IF DOMAIN quotes # {} \/ page # None \/ line # None
                      THEN priceCauses \cup {kind} ELSE priceCauses

ChangeErpPrice(p) ==
  /\ p # erpPrice
  /\ erpPrice' = p
  /\ Moved("moved")
  /\ UNCHANGED <<row, rules, quotes, buyer, policy, page, line, outcome>>

(* The product sync writes the row and clears the lists. *)
SyncRow ==
  /\ row # erpPrice
  /\ row' = erpPrice
  /\ quotes' = [k \in {x \in DOMAIN quotes : x[1] # "list"} |-> quotes[k]]
  /\ UNCHANGED <<erpPrice, rules, buyer, policy, page, line, outcome, moves, priceCauses>>

(* createRule, or a rule that becomes valid; no cache is cleared. *)
CreateRule(i, r) ==
  /\ Len(rules) < MaxRules
  /\ rules' = InsertAt(rules, i, r)
  /\ Moved("moved")
  /\ UNCHANGED <<erpPrice, row, quotes, buyer, policy, page, line, outcome>>

UpdateRule(i, r) ==
  /\ r # rules[i]
  /\ rules' = ReplaceAt(rules, i, r)
  /\ Moved("moved")
  /\ UNCHANGED <<erpPrice, row, quotes, buyer, policy, page, line, outcome>>

(* deleteRule, or a rule that ends or is made inactive. *)
DeleteRule(i) ==
  /\ rules' = RemoveAt(rules, i)
  /\ Moved("moved")
  /\ UNCHANGED <<erpPrice, row, quotes, buyer, policy, page, line, outcome>>

(* An administrator changes what the user may do; the web client keeps     *)
(* what it was told at login.                                              *)
ChangePolicy(pol) ==
  /\ pol # policy
  /\ policy' = pol
  /\ moves < MaxMoves /\ moves' = moves + 1
  /\ priceCauses' = priceCauses \cup {"policy"}
  /\ UNCHANGED <<erpPrice, row, rules, quotes, buyer, page, line, outcome>>

QuoteExpires(k) ==
  /\ k \in DOMAIN quotes
  /\ quotes' = [x \in DOMAIN quotes \ {k} |-> quotes[x]]
  /\ UNCHANGED <<erpPrice, row, rules, buyer, policy, page, line, outcome, moves, priceCauses>>

-----------------------------------------------------------------------------
(* getProducts and getProductById *)

(* q is the answer under key k.  A list is computed from the row; a page   *)
(* asks the ERP, writes the row, clears the product's entries and lists,   *)
(* and is kept.                                                            *)
Answers(k, q) ==
  \/ k \in DOMAIN quotes /\ q = quotes[k] /\ UNCHANGED <<quotes, row>>
  \/ /\ k \notin DOMAIN quotes
     /\ k[1] = "list"
     /\ q = QuoteFor(k, row)
     /\ quotes' = [x \in DOMAIN quotes \cup {k} |-> IF x = k THEN q ELSE quotes[x]]
     /\ UNCHANGED row
  \/ /\ k \notin DOMAIN quotes
     /\ k[1] # "list"
     /\ q = QuoteFor(k, erpPrice)
     /\ quotes' = [x \in {k} |-> q]
     /\ row' = erpPrice

(* The pages ask for the customer only if the user is one: no link of the  *)
(* web client passes a customer to the product pages.                      *)
Who == IF buyer.role = "customer" THEN "customer" ELSE "nobody"

PossibleQuotes(k) ==
  {QuoteFor(k, p) : p \in {row, erpPrice}} \cup {quotes[x] : x \in {k} \cap DOMAIN quotes}

(* A list shows the row's price, which may lag behind the ERP's. *)
ShowList ==
  /\ \E q \in PossibleQuotes(<<"list", Who>>) : Answers(<<"list", Who>>, q) /\ page' = q
  /\ priceCauses' = IF row # erpPrice THEN priceCauses \cup {"moved"} ELSE priceCauses
  /\ UNCHANGED <<erpPrice, rules, buyer, policy, line, outcome, moves>>

ShowPage ==
  LET k == <<IF buyer.role = "customer" THEN "active" ELSE "all", Who>> IN
  /\ \E q \in PossibleQuotes(k) : Answers(k, q) /\ page' = q
  /\ UNCHANGED <<erpPrice, rules, buyer, policy, line, outcome, moves, priceCauses>>

-----------------------------------------------------------------------------
(* The web client's cart *)

(* handleAddToCart: a full override below the base price is confirmed.     *)
(* A line that is there takes the new unit and base price, and keeps the   *)
(* user's own.                                                             *)
AddToCartAt ==
  /\ Has(page)
  /\ ValidPrice(buyer.policy, page.final, page.base)
  /\ line' = [unit |-> page.final, base |-> page.base,
              own  |-> IF Has(line) THEN line.own ELSE -1,
              confirmed |-> (Has(line) /\ line.confirmed)
                            \/ (buyer.policy.mode = "full" /\ page.final < page.base)]
  /\ priceCauses' = IF Who = "nobody" /\ page.final # CalculatePrice(rules, page.base)
                      THEN priceCauses \cup {"nobody"} ELSE priceCauses
  /\ UNCHANGED <<erpPrice, row, rules, quotes, buyer, policy, page, outcome, moves>>

(* A reorder quotes for the customer and rounds; it is not validated. *)
ReorderLine ==
  LET k == <<"active", "customer">> IN
  /\ \E q \in PossibleQuotes(k) :
       /\ Answers(k, q)
       /\ line' = [unit |-> Money(q.final), base |-> Money(q.base),
                   own  |-> IF Has(line) THEN line.own ELSE -1,
                   confirmed |-> Has(line) /\ line.confirmed]
       /\ priceCauses' = IF Money(q.final) # q.final
                           THEN priceCauses \cup {"rounded"} ELSE priceCauses
  /\ UNCHANGED <<erpPrice, rules, buyer, policy, page, outcome, moves>>

(* The price field of the cart page. *)
GivePrice(v) ==
  /\ Has(line)
  /\ buyer.policy.mode # "none"
  /\ ValidPrice(buyer.policy, v, line.base)
  /\ line' = [line EXCEPT !.own = v,
                          !.confirmed = @ \/ (buyer.policy.mode = "full" /\ v < line.base)]
  /\ UNCHANGED <<erpPrice, row, rules, quotes, buyer, policy, page, outcome, moves, priceCauses>>

ResetPrice ==
  /\ Has(line) /\ line.own # -1
  /\ line' = [line EXCEPT !.own = -1]
  /\ UNCHANGED <<erpPrice, row, rules, quotes, buyer, policy, page, outcome, moves, priceCauses>>

Requested == IF line.own # -1 THEN line.own ELSE line.unit

(* hasPriceErrors disables the button: who may not edit prices can order   *)
(* at the base price only.                                                 *)
NoPriceErrors == ValidPrice(buyer.policy, Money(Requested), line.base)

-----------------------------------------------------------------------------
(* buildTrustedOrderItems *)

(* Mutant: the price is compared with the base price. *)
JudgeByBase(q) ==
  IF Requested = q.base THEN "trusted"
  ELSE IF AllowsOverride(policy, Requested, q.base) THEN "override" ELSE "refused"

(* The price the API would ask, or an override that the policy allows. *)
Judge(q) ==
  IF Requested = q.final THEN "trusted"
  ELSE IF AllowsOverride(policy, Requested, q.base) THEN "override" ELSE "refused"

SubmitOrder ==
  LET k == <<"all", "customer">> IN
  /\ outcome = None
  /\ Has(line)
  /\ NoPriceErrors
  /\ \E q \in PossibleQuotes(k) :
       Answers(k, q) /\ outcome' = [verdict |-> Judge(q), own |-> line.own]
  /\ UNCHANGED <<erpPrice, rules, buyer, policy, page, line, moves, priceCauses>>

-----------------------------------------------------------------------------

PricesNext ==
  \/ \E p \in ErpPrices : ChangeErpPrice(p)
  \/ \E r \in Rules : \/ \E i \in 1 .. Len(rules) + 1 : CreateRule(i, r)
                      \/ \E i \in 1 .. Len(rules) : UpdateRule(i, r)
  \/ \E i \in 1 .. Len(rules) : DeleteRule(i)
  \/ \E pol \in Policies : ChangePolicy(pol)
  \/ \E k \in QuoteKeys : QuoteExpires(k)
  \/ SyncRow \/ ShowList \/ ShowPage \/ AddToCartAt \/ ReorderLine
  \/ \E v \in OwnPrices : GivePrice(v)
  \/ ResetPrice \/ SubmitOrder

PricesSpec == PricesInit /\ [][PricesNext]_priceVars

-----------------------------------------------------------------------------
(* Properties *)

(* The shape of the state. *)
PricesTypeOK ==
  /\ erpPrice \in ErpPrices /\ row \in ErpPrices
  /\ rules \in Seq(Rules) /\ Len(rules) <= MaxRules
  /\ DOMAIN quotes \subseteq QuoteKeys /\ \A k \in DOMAIN quotes : quotes[k] \in Quote
  /\ policy \in Policies /\ buyer \in [role : {"customer", "staff"}, policy : Policies]
  /\ page \in Quote \cup {None}
  /\ line = None \/ line \in Line
  /\ outcome = None \/ outcome \in [verdict : {"trusted", "override", "refused"},
                                   own : OwnPrices \cup {-1}]
  /\ moves \in 0 .. MaxMoves
  /\ priceCauses \subseteq {"moved", "policy", "nobody", "rounded"}

(* "Apply rules in priority order (first match wins)", as                  *)
(* pricing.service.ts:56 has it: while no price and no rule has changed,   *)
(* every quote made for the customer, by which the cart is filled and the  *)
(* order judged, is what the rule of highest priority makes of its base    *)
(* price, whatever rules come after it.                                    *)
FirstMatchWins ==
  rules # <<>> /\ moves = 0
    => \A k \in DOMAIN quotes :
         k[2] = "customer"
           => quotes[k].final = CalculatePrice(<<rules[1]>>, quotes[k].base)

(* An order whose user gave no price of their own is accepted at the price *)
(* the ERP and the rules make, and is not taken for an override, unless    *)
(* the price moved under a quote, the product was put into the cart for    *)
(* nobody in particular, or a reorder rounded it.                          *)
OrderHasRulePrice ==
  Has(outcome) /\ outcome.own = -1 /\ priceCauses \cap {"moved", "nobody", "rounded"} = {}
    => outcome.verdict # "override"

(* The web client and the API agree on who may ask what: an order is only  *)
(* refused for its price when that moved or was quoted for nobody, or the  *)
(* user's policy changed, or a reorder rounded it for a user who may not   *)
(* set prices; never for a price of the user's own that the cart page      *)
(* accepted.                                                               *)
RefusalNeedsCause ==
  Has(outcome) /\ outcome.verdict = "refused"
    => \/ priceCauses \cap {"moved", "nobody", "policy"} # {}
       \/ "rounded" \in priceCauses /\ policy.mode = "none"

=============================================================================
