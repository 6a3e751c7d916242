----------------------------- MODULE OfficeProofs -----------------------------
(***************************************************************************)
(* Theorems about the parts of the API beside the orders, for any          *)
(* administrators, requests, rules, prices, processes, deliveries and      *)
(* products: an account stays whole; the price of a product reaches its    *)
(* order; every delivery is reminded of; hidden products leave the shop;   *)
(* a delta sync skips nothing; and the whole of MCBackOffice is these      *)
(* parts and the customers, and keeps their types.                         *)
(***************************************************************************)
EXTENDS MCBackOffice, CustomersProofs, TLAPS, WellFoundedInduction

-----------------------------------------------------------------------------
(* Accounts: types *)

(* A new or changed request keeps the shape of the table of requests.      *)
LEMMA BeginsType ==
  ASSUME AccTypeOK, NEW a \in Actors, NEW u \in Update, Begins(a, u)
  PROVE  DOMAIN update' \subseteq Actors /\ \A b \in DOMAIN update' : update'[b] \in Update
  BY DEF AccTypeOK, Begins

(* So does the end of one. *)
LEMMA EndsType ==
  ASSUME AccTypeOK, NEW a, Ends(a)
  PROVE  DOMAIN update' \subseteq Actors /\ \A b \in DOMAIN update' : update'[b] \in Update
  BY DEF AccTypeOK, Ends

(* What a profile update makes of the copy is an account. *)
LEMMA ProfileType ==
  ASSUME NEW u \in Update
  PROVE  Profile(u) \in Account
  <1>1. /\ u.copy \in Account /\ u.role \in Role /\ u.copy.role \in Role
        /\ u.copy.limit \in Limit /\ u.copy.permissions \in SUBSET Permission
    BY DEF Update, Account
  <1>2. Confined(u.copy.permissions) \in SUBSET Permission
    BY <1>1 DEF Confined
  <1>3. \A allowed : LimitFor(allowed) \in Limit
    BY DEF LimitFor, Limit
  <1>4. "none" \in Limit
    BY DEF Limit
  <1> QED BY <1>1, <1>2, <1>3, <1>4 DEF Profile, Account

(* So is what an update of the permissions makes of it. *)
LEMMA PermittedType ==
  ASSUME NEW u \in Update
  PROVE  Permitted(u) \in Account
  <1>1. /\ u.copy \in Account /\ u.permissions \in SUBSET Permission
        /\ u.copy.limit \in Limit
    BY DEF Update, Account
  <1>2. Assigned(u) \in SUBSET Permission
    BY <1>1 DEF Assigned, Confined
  <1>3. "none" \in Limit
    BY DEF Limit
  <1> QED BY <1>1, <1>2, <1>3 DEF Permitted, Account

(* A save of two accounts' differences leaves an account. *)
LEMMA SaveType ==
  ASSUME account \in Account, NEW copy \in Account, NEW next \in Account
  PROVE  Save(copy, next) \in Account
  BY DEF Save, Account

(* The initial state has the declared shape. *)
LEMMA InitTypes == AccInit => AccTypeOK
  <1> SUFFICES ASSUME AccInit PROVE AccTypeOK
    OBVIOUS
  <1>1. "sales_rep" \in Role
    BY DEF Role, Rank
  <1>2. NoAccount \in Account
    BY <1>1 DEF NoAccount, Account, Permission, Limit
  <1>3. form \in [Admins -> Form]
    BY <1>1 DEF AccInit, Form, View, ViewOf, NoAccount, Permission, Limit
  <1>4. DOMAIN update = {}
    BY DEF AccInit
  <1>5. edits \in 0 .. MaxEdits
    BY AccountsAssumption DEF AccInit
  <1>6. DOMAIN update \subseteq Actors /\ \A a \in DOMAIN update : update[a] \in Update
    BY <1>4
  <1> QED BY <1>2, <1>3, <1>5, <1>6 DEF AccInit, AccTypeOK

(* Every step keeps it. *)
LEMMA NextTypes == AccTypeOK /\ [AccNext]_accVars => AccTypeOK'
  <1> SUFFICES ASSUME AccTypeOK, [AccNext]_accVars PROVE AccTypeOK'
    OBVIOUS
  <1>0. NewUpdate \in Update /\ NoAccount \in Account
    <2>1. "sales_rep" \in Role /\ "admin" \in Requesters
      BY DEF Role, Rank, Requesters
    <2>2. NoAccount \in Account
      BY <2>1 DEF NoAccount, Account, Permission, Limit
    <2> QED BY <2>1, <2>2 DEF NewUpdate, Update
  <1>1. CASE Create
    <2>1. \A allowed : LimitFor(allowed) \in Limit
      BY DEF LimitFor, Limit
    <2>2. \A asked \in SUBSET Permission : Confined(asked) \in SUBSET Permission
      BY DEF Confined
    <2>3. account' \in Account
      BY <1>1, <2>1, <2>2 DEF Create, Account
    <2>4. 1 \in 0 .. MaxEdits
      BY AccountsAssumption
    <2> QED BY <1>1, <2>3, <2>4 DEF Create, AccTypeOK
  <1>2. CASE SubmitMe
    <2>1. [NewUpdate EXCEPT !.op = "me"] \in Update
      BY <1>0 DEF Update
    <2>2. edits' \in 0 .. MaxEdits
      BY <1>2, AccountsAssumption DEF SubmitMe, AccTypeOK
    <2>3. "owner" \in Actors
      BY DEF Actors
    <2> QED BY <1>2, <2>1, <2>2, <2>3, BeginsType DEF SubmitMe, AccTypeOK
  <1>3. ASSUME NEW a \in Admins, OpenForm(a) PROVE AccTypeOK'
    <2>1. [open |-> TRUE, seen |-> ViewOf(account)] \in Form
      BY DEF AccTypeOK, Account, ViewOf, View, Form
    <2> QED BY <1>3, <2>1 DEF OpenForm, AccTypeOK
  <1>4. ASSUME NEW a \in Admins, SubmitForm(a) PROVE AccTypeOK'
    <2>1. a \in Actors
      BY DEF Actors
    <2>2. PICK by \in Requesters, role \in Role, asked \in SUBSET Permission,
               more \in BOOLEAN, limit \in {"absent", "null", "percent"} :
            Begins(a, [NewUpdate EXCEPT
               !.by = by, !.role = role, !.more = more,
               !.permissions = IF more THEN asked ELSE {}, !.limit = limit])
      BY <1>4, ZenonT(30) DEF SubmitForm
    <2>3. [NewUpdate EXCEPT
               !.by = by, !.role = role, !.more = more,
               !.permissions = IF more THEN asked ELSE {}, !.limit = limit] \in Update
      BY <1>0 DEF Update
    <2>4. edits' \in 0 .. MaxEdits
      BY <1>4, AccountsAssumption DEF SubmitForm, AccTypeOK
    <2> QED BY <1>4, <2>1, <2>2, <2>3, <2>4, BeginsType DEF SubmitForm, AccTypeOK
  <1>5. ASSUME NEW a \in Admins, SubmitDelete(a) PROVE AccTypeOK'
    <2>1. PICK by \in Requesters : Begins(a, [NewUpdate EXCEPT !.op = "delete", !.by = by])
      BY <1>5 DEF SubmitDelete
    <2>2. [NewUpdate EXCEPT !.op = "delete", !.by = by] \in Update
      BY <1>0 DEF Update
    <2>3. edits' \in 0 .. MaxEdits
      BY <1>5, AccountsAssumption DEF SubmitDelete, AccTypeOK
    <2>4. a \in Actors
      BY DEF Actors
    <2> QED BY <1>5, <2>1, <2>2, <2>3, <2>4, BeginsType DEF SubmitDelete, AccTypeOK
  <1>6. ASSUME NEW a \in DOMAIN update, Handle(a) PROVE AccTypeOK'
    <2>1. a \in Actors /\ update[a] \in Update /\ account \in Account
      BY DEF AccTypeOK
    <2>2. CASE FindUser(a)
      <3>1. [update[a] EXCEPT !.at = "save", !.copy = account] \in Update
        BY <2>1 DEF Update
      <3> QED BY <2>1, <2>2, <3>1, BeginsType, EndsType DEF FindUser, AccTypeOK
    <2>3. ASSUME NEW next \in Account, SaveUpdate(a, next)
          PROVE  account' \in Account /\ accCauses' \subseteq {"crossed"}
      <3>1. update[a].copy \in Account
        BY <2>1 DEF Update
      <3>2. account' \in Account
        BY <2>1, <2>3, <3>1, SaveType DEF SaveUpdate
      <3> QED BY <2>3, <3>2 DEF SaveUpdate, Crossed, AccTypeOK
    <2>4. CASE SaveProfile(a)
      <3>1. account' \in Account /\ accCauses' \subseteq {"crossed"}
        BY <2>1, <2>3, <2>4, ProfileType DEF SaveProfile
      <3>2. [update[a] EXCEPT !.at = "find", !.op = "permissions", !.more = FALSE,
                              !.copy = NoAccount] \in Update
        BY <1>0, <2>1 DEF Update
      <3> QED BY <2>1, <2>4, <3>1, <3>2, BeginsType, EndsType DEF SaveProfile, AccTypeOK
    <2>5. CASE SavePermissions(a)
      <3>1. account' \in Account /\ accCauses' \subseteq {"crossed"}
        BY <2>1, <2>3, <2>5, PermittedType DEF SavePermissions
      <3> QED BY <2>5, <3>1, EndsType DEF SavePermissions, AccTypeOK
    <2>6. CASE DeleteUser(a)
      BY <1>0, <2>6, EndsType DEF DeleteUser, AccTypeOK
    <2>7. CASE UpdateFails(a)
      BY <2>7, EndsType DEF UpdateFails, AccTypeOK
    <2> QED BY <1>6, <2>2, <2>4, <2>5, <2>6, <2>7 DEF Handle
  <1>7. CASE UNCHANGED accVars
    BY <1>7 DEF accVars, AccTypeOK
  <1> QED BY <1>1, <1>2, <1>3, <1>4, <1>5, <1>6, <1>7 DEF AccNext, Manage

(* The account, the pages and the requests keep their shape, whoever sends *)
(* what.                                                                   *)
THEOREM TypesKept == AccSpec => []AccTypeOK
  BY InitTypes, NextTypes, PTL DEF AccSpec

-----------------------------------------------------------------------------
(* An account stays whole *)

(* What AccountIsWhole asks of an account. *)
WholeDoc(doc) ==
  /\ ("limited" \in doc.permissions) <=> (doc.limit # "none")
  /\ doc.role = "customer" =>
       doc.customer /\ doc.permissions \cap CustomerForbidden = {}

(* No request of the user's own carries a limit, and what a request has    *)
(* read is whole: a save that nothing crossed starts from such a copy.     *)
OwnLeavesLimit(u) == u.op = "me" => u.limit = "absent"

CopyIsWhole(u) ==
  u.at = "save" /\ accCauses = {} => u.copy.there /\ WholeDoc(u.copy)

WholeInv ==
  /\ account.there /\ accCauses = {} => WholeDoc(account)
  /\ \A a \in DOMAIN update : OwnLeavesLimit(update[a]) /\ CopyIsWhole(update[a])

(* A profile update of a whole account that is not refused is whole.       *)
LEMMA ProfileWhole ==
  ASSUME NEW u \in Update, u.op \in {"profile", "me"}, OwnLeavesLimit(u),
         WholeDoc(u.copy), ~ProfileRefused(u)
  PROVE  WholeDoc(Profile(u))
  <1> DEFINE role == IF u.op = "me" THEN u.copy.role ELSE u.role
  <1>1. u.copy \in Account
    BY DEF Update
  <1>2. CASE role = "customer"
    <2>1. Profile(u) = [u.copy EXCEPT !.role = role, !.customer = TRUE, !.limit = "none",
                                      !.permissions = Confined(u.copy.permissions)]
      BY <1>2 DEF Profile
    <2>2. Profile(u).limit = "none" /\ Profile(u).customer
          /\ Profile(u).permissions = Confined(u.copy.permissions)
      BY <1>1, <2>1 DEF Account
    <2> QED BY <2>2 DEF WholeDoc, Confined, CustomerForbidden
  <1>3. CASE role # "customer"
    <2>1. Profile(u) = [u.copy EXCEPT !.role = role,
                          !.limit = IF u.limit = "absent" THEN u.copy.limit
                                    ELSE LimitFor(EffectiveOf(role, u.copy.permissions))]
      BY <1>1, <1>3 DEF Profile, Account
    <2>2. Profile(u).role = role /\ Profile(u).permissions = u.copy.permissions
      BY <1>1, <2>1 DEF Account
    <2>3. CASE u.limit = "absent"
      <3>1. Profile(u).limit = u.copy.limit
        BY <1>1, <2>1, <2>3 DEF Account
      <3> QED BY <1>3, <2>2, <3>1 DEF WholeDoc
    <2>4. CASE u.limit # "absent"
      <3>1. u.op = "profile" /\ role = u.role
        BY <2>4 DEF OwnLeavesLimit
      <3>2. ~LimitRefused(EffectiveOf(role, u.copy.permissions), u.limit)
        BY <1>3, <2>4, <3>1 DEF ProfileRefused
      <3>3. role # "super_admin"
        BY <3>2 DEF LimitRefused, EffectiveOf, Permission
      <3>4. Profile(u).limit = LimitFor(u.copy.permissions)
        BY <1>1, <2>1, <2>4, <3>3 DEF EffectiveOf, Account
      <3> QED BY <1>3, <2>2, <3>4 DEF WholeDoc, LimitFor
    <2> QED BY <2>3, <2>4
  <1> QED BY <1>2, <1>3

(* So is an update of its permissions. *)
LEMMA PermittedWhole ==
  ASSUME NEW u \in Update, WholeDoc(u.copy), ~PermittedRefused(u)
  PROVE  WholeDoc(Permitted(u))
  <1>1. u.copy \in Account
    BY DEF Update
  <1>2. /\ Permitted(u).permissions = Assigned(u)
        /\ Permitted(u).limit = IF "limited" \in Assigned(u) THEN u.copy.limit ELSE "none"
        /\ Permitted(u).role = u.copy.role /\ Permitted(u).customer = u.copy.customer
    BY <1>1 DEF Permitted, Account
  <1>3. u.copy.role = "customer" => Assigned(u) \cap CustomerForbidden = {}
    BY DEF Assigned, Confined
  <1> QED BY <1>2, <1>3 DEF WholeDoc, PermittedRefused

(* A save that nothing crossed stores what became of the copy.             *)
LEMMA UncrossedSave ==
  ASSUME AccTypeOK, NEW copy \in Account, NEW next \in Account,
         Crossed(copy) = {}, WholeDoc(next), copy.customer => next.customer
  PROVE  WholeDoc(Save(copy, next))
  <1>1. /\ account.role = copy.role /\ account.permissions = copy.permissions
        /\ account.limit = copy.limit /\ account.customer = copy.customer
    <2>1. [account EXCEPT !.version = 0] = [copy EXCEPT !.version = 0]
      BY DEF Crossed
    <2> DEFINE A == [account EXCEPT !.version = 0]
               C == [copy EXCEPT !.version = 0]
    <2>2. A.role = account.role /\ A.permissions = account.permissions
          /\ A.limit = account.limit /\ A.customer = account.customer
      BY DEF AccTypeOK, Account
    <2>3. C.role = copy.role /\ C.permissions = copy.permissions
          /\ C.limit = copy.limit /\ C.customer = copy.customer
      BY DEF Account
    <2> HIDE DEF A, C
    <2>4. A = C
      BY <2>1 DEF A, C
    <2> QED BY <2>2, <2>3, <2>4
  <1>2. /\ Save(copy, next).role = next.role
        /\ Save(copy, next).permissions = next.permissions
        /\ Save(copy, next).limit = next.limit
    BY <1>1 DEF Save
  <1>3. next.customer => Save(copy, next).customer
    BY DEF Save
  <1> QED BY <1>2, <1>3 DEF WholeDoc

(* Every step keeps WholeInv. *)
LEMMA NextWhole == AccTypeOK /\ WholeInv /\ [AccNext]_accVars => WholeInv'
  <1> SUFFICES ASSUME AccTypeOK, WholeInv, [AccNext]_accVars PROVE WholeInv'
    OBVIOUS
  <1>1. CASE Create
    <2>1. PICK role \in Role, asked \in SUBSET Permission :
            account' = [there |-> TRUE, role |-> role,
              permissions |-> IF role = "super_admin" THEN {}
                              ELSE IF role = "customer" THEN Confined(asked) ELSE asked,
              limit |-> LimitFor(IF role = "super_admin" THEN {}
                                 ELSE IF role = "customer" THEN Confined(asked) ELSE asked),
              customer |-> role = "customer", version |-> 0]
      BY <1>1 DEF Create
    <2> DEFINE allowed == IF role = "super_admin" THEN {}
                          ELSE IF role = "customer" THEN Confined(asked) ELSE asked
    <2>2. role = "customer" => allowed \cap CustomerForbidden = {}
      BY DEF Confined
    <2>3. /\ account'.permissions = allowed /\ account'.limit = LimitFor(allowed)
          /\ account'.role = role /\ account'.customer = (role = "customer")
      BY <2>1
    <2> HIDE DEF allowed
    <2>4. WholeDoc(account')
      BY <2>2, <2>3 DEF WholeDoc, LimitFor
    <2> QED BY <1>1, <2>4 DEF Create, WholeInv, CopyIsWhole, WholeDoc
  <1>2. CASE SubmitMe
    <2>1. [NewUpdate EXCEPT !.op = "me"].limit = "absent"
          /\ [NewUpdate EXCEPT !.op = "me"].at = "find"
      BY DEF NewUpdate
    <2> QED BY <1>2, <2>1 DEF SubmitMe, Begins, WholeInv, CopyIsWhole, OwnLeavesLimit, WholeDoc
  <1>3. ASSUME NEW a \in Admins, OpenForm(a) PROVE WholeInv'
    BY <1>3 DEF OpenForm, WholeInv, CopyIsWhole, WholeDoc
  <1>4. ASSUME NEW a \in Admins, SubmitForm(a) PROVE WholeInv'
    <2>1. PICK u : Begins(a, u) /\ u.op = "profile" /\ u.at = "find"
      <3>1. PICK by, role, more, asked, limit :
              Begins(a, [NewUpdate EXCEPT
                 !.by = by, !.role = role, !.more = more,
                 !.permissions = IF more THEN asked ELSE {}, !.limit = limit])
        BY <1>4 DEF SubmitForm
      <3> DEFINE u == [NewUpdate EXCEPT
                 !.by = by, !.role = role, !.more = more,
                 !.permissions = IF more THEN asked ELSE {}, !.limit = limit]
      <3>2. u.op = "profile" /\ u.at = "find"
        BY DEF NewUpdate
      <3>3. Begins(a, u)
        BY <3>1
      <3> HIDE DEF u
      <3> QED BY <3>2, <3>3
    <2> QED BY <1>4, <2>1, ZenonT(30) DEF SubmitForm, Begins, WholeInv, CopyIsWhole, OwnLeavesLimit, WholeDoc
  <1>5. ASSUME NEW a \in Admins, SubmitDelete(a) PROVE WholeInv'
    <2>1. PICK u : Begins(a, u) /\ u.op = "delete" /\ u.at = "find"
      <3>1. PICK by : Begins(a, [NewUpdate EXCEPT !.op = "delete", !.by = by])
        BY <1>5 DEF SubmitDelete
      <3> DEFINE u == [NewUpdate EXCEPT !.op = "delete", !.by = by]
      <3>2. u.op = "delete" /\ u.at = "find"
        BY DEF NewUpdate
      <3>3. Begins(a, u)
        BY <3>1
      <3> HIDE DEF u
      <3> QED BY <3>2, <3>3
    <2> QED BY <1>5, <2>1 DEF SubmitDelete, Begins, WholeInv, CopyIsWhole, OwnLeavesLimit, WholeDoc
  <1>6. ASSUME NEW a \in DOMAIN update, Handle(a) PROVE WholeInv'
    <2>1. /\ update[a] \in Update /\ update[a].copy \in Account
          /\ OwnLeavesLimit(update[a]) /\ CopyIsWhole(update[a])
      BY DEF AccTypeOK, Update, WholeInv
    <2>2. CASE FindUser(a)
      <3>1. CASE Ends(a)
        BY <2>2, <3>1 DEF FindUser, Ends, WholeInv, CopyIsWhole, WholeDoc
      <3>2. CASE ~Refuses(update[a])
        <4> DEFINE u == [update[a] EXCEPT !.at = "save", !.copy = account]
        <4>1. Begins(a, u)
          BY <2>2, <3>2 DEF FindUser
        <4>2. u.copy = account /\ u.op = update[a].op /\ u.limit = update[a].limit
          BY <2>1 DEF Update
        <4>3. account.there
          BY <3>2 DEF Refuses
        <4>4. OwnLeavesLimit(u) /\ CopyIsWhole(u)
          BY <2>1, <4>2, <4>3 DEF OwnLeavesLimit, CopyIsWhole, WholeInv
        <4> HIDE DEF u
        <4> QED BY <2>2, <4>1, <4>4 DEF FindUser, Begins, WholeInv, CopyIsWhole, WholeDoc
      <3> QED BY <2>2, <3>1, <3>2 DEF FindUser
    <2>3. ASSUME NEW next \in Account, SaveUpdate(a, next), update[a].at = "save",
                 WholeDoc(update[a].copy) => WholeDoc(next),
                 update[a].copy.customer => next.customer
          PROVE  accCauses' = {} => accCauses = {} /\ WholeDoc(account')
      <3>1. CASE accCauses = {} /\ Crossed(update[a].copy) = {}
        BY <2>1, <2>3, <3>1, UncrossedSave DEF SaveUpdate, CopyIsWhole
      <3>2. CASE ~(accCauses = {} /\ Crossed(update[a].copy) = {})
        BY <2>3, <3>2 DEF SaveUpdate
      <3> QED BY <3>1, <3>2
    <2>4. CASE SaveProfile(a)
      <3>1. update[a].copy.customer => Profile(update[a]).customer
        BY <2>1 DEF Profile, Account
      <3>2. accCauses' = {} => accCauses = {} /\ WholeDoc(account')
        BY <2>1, <2>3, <2>4, <3>1, ProfileType, ProfileWhole DEF SaveProfile
      <3>3. CASE Ends(a)
        BY <3>2, <3>3 DEF Ends, WholeInv, CopyIsWhole, WholeDoc
      <3>4. CASE ~Ends(a)
        <4>1. PICK u : Begins(a, u) /\ u.op = "permissions" /\ u.at = "find"
          <5>1. Begins(a, [update[a] EXCEPT !.at = "find", !.op = "permissions",
                                            !.more = FALSE, !.copy = NoAccount])
            BY <2>4, <3>4 DEF SaveProfile
          <5> DEFINE u == [update[a] EXCEPT !.at = "find", !.op = "permissions",
                                            !.more = FALSE, !.copy = NoAccount]
          <5>2. u.op = "permissions" /\ u.at = "find"
            BY <2>1 DEF Update
          <5>3. Begins(a, u)
            BY <5>1
          <5> HIDE DEF u
          <5> QED BY <5>2, <5>3
        <4> QED BY <3>2, <4>1 DEF Begins, WholeInv, CopyIsWhole, OwnLeavesLimit, WholeDoc
      <3> QED BY <3>3, <3>4
    <2>5. CASE SavePermissions(a)
      <3>1. update[a].copy.customer => Permitted(update[a]).customer
        BY <2>1 DEF Permitted, Account
      <3>2. accCauses' = {} => accCauses = {} /\ WholeDoc(account')
        BY <2>1, <2>3, <2>5, <3>1, PermittedType, PermittedWhole DEF SavePermissions
      <3> QED BY <2>5, <3>2 DEF SavePermissions, Ends, WholeInv, CopyIsWhole, WholeDoc
    <2>6. CASE DeleteUser(a)
      BY <2>6 DEF DeleteUser, Ends, NoAccount, WholeInv, CopyIsWhole, WholeDoc
    <2>7. CASE UpdateFails(a)
      BY <2>7 DEF UpdateFails, Ends, WholeInv, CopyIsWhole, WholeDoc
    <2> QED BY <1>6, <2>2, <2>4, <2>5, <2>6, <2>7 DEF Handle
  <1>7. CASE UNCHANGED accVars
    BY <1>7 DEF accVars, WholeInv, CopyIsWhole, WholeDoc
  <1> QED BY <1>1, <1>2, <1>3, <1>4, <1>5, <1>6, <1>7 DEF AccNext, Manage

(* Whichever requests come in whatever order, and whichever of the two     *)
(* that an edit takes fails, the limit is stored exactly when the          *)
(* permission to change prices within a limit is, and a customer's account *)
(* has its customer and no permission of the staff, unless a request       *)
(* changed the account between the read and the save of another.           *)
THEOREM StaysWhole == AccSpec => []AccountIsWhole
  <1>1. AccInit => WholeInv
    <2> SUFFICES ASSUME AccInit PROVE WholeInv
      OBVIOUS
    <2>1. DOMAIN update = {} /\ ~account.there
      BY DEF AccInit, NoAccount
    <2> QED BY <2>1 DEF WholeInv
  <1>2. WholeInv => AccountIsWhole
    BY DEF WholeInv, WholeDoc, AccountIsWhole
  <1> QED BY <1>1, <1>2, TypesKept, NextWhole, PTL DEF AccSpec

-----------------------------------------------------------------------------
(* Prices: what the loop over the rules comes to *)

(* A nonempty set of numbers has a least element. *)
LEMMA LeastExists ==
  ASSUME NEW S \in SUBSET Nat, S # {}
  PROVE  \E i \in S : \A j \in S : i <= j
<1> DEFINE R == {p \in Nat \X Nat : p[1] < p[2]}
<1>1. IsWellFoundedOn(R, Nat)
  <2>1. R = OpToRel(<, Nat)
    BY DEF OpToRel
  <2> QED
    BY <2>1, NatLessThanWellFounded
<1>2. \E i \in S : \A j \in S : ~ (<<j, i>> \in R)
  <2> HIDE DEF R
  <2> QED
    BY <1>1, WFMin
<1>3. PICK i \in S : \A j \in S : ~ (<<j, i>> \in R)
  BY <1>2
<1>4. ASSUME NEW j \in S
      PROVE  i <= j
  <2>1. i \in Nat /\ j \in Nat /\ <<j, i>> \in Nat \X Nat /\ ~ (<<j, i>> \in R)
    BY <1>3, <1>4
  <2>2. ~ (j < i)
    BY <2>1
  <2> QED
    BY <2>1, <2>2
<1> QED
  BY <1>4

(* The least of a set of numbers. *)
Least(S) == CHOOSE i \in S : \A j \in S : i <= j

(* There is one, and only one. *)
LEMMA LeastFacts ==
  ASSUME NEW S \in SUBSET Nat, NEW n \in S
  PROVE  /\ Least(S) \in S /\ \A j \in S : Least(S) <= j
         /\ (\A j \in S : n <= j) => Least(S) = n
<1>1. \E i \in S : \A j \in S : i <= j
  BY LeastExists
<1>2. Least(S) \in S /\ \A j \in S : Least(S) <= j
  BY <1>1 DEF Least
<1>3. ASSUME \A j \in S : n <= j
      PROVE  Least(S) = n
  <2>1. n \in Nat /\ Least(S) \in Nat /\ Least(S) <= n /\ n <= Least(S)
    BY <1>2, <1>3
  <2> QED
    BY <2>1
<1> QED
  BY <1>2, <1>3

(* The places of the fixed prices among the first n rules. *)
FixedUpTo(rs, n) == {i \in 1 .. n : rs[i].kind = "fixed"}

(* The state of the loop after n rules, without the loop. *)
StateAfter(rs, base, n) ==
  IF FixedUpTo(rs, n) # {} THEN [price |-> rs[Least(FixedUpTo(rs, n))].value, final |-> TRUE]
  ELSE IF n = 0 THEN [price |-> base, final |-> FALSE]
  ELSE [price |-> (base * (100 - rs[n].value)) \div 100, final |-> FALSE]

(* One turn of the loop leads from one such state to the next. *)
LEMMA OneTurn ==
  ASSUME NEW rs, NEW base, NEW n \in Nat, n > 0
  PROVE  StateAfter(rs, base, n) = ApplyRule(StateAfter(rs, base, n - 1), rs[n], base)
<1>1. /\ n - 1 \in Nat
      /\ FixedUpTo(rs, n) = FixedUpTo(rs, n - 1) \cup {i \in {n} : rs[i].kind = "fixed"}
      /\ FixedUpTo(rs, n) \in SUBSET Nat /\ FixedUpTo(rs, n - 1) \in SUBSET Nat
      /\ \A i \in FixedUpTo(rs, n - 1) : i < n
  BY DEF FixedUpTo
<1>2. CASE FixedUpTo(rs, n - 1) # {}
  <2>1. PICK first \in FixedUpTo(rs, n - 1) : \A j \in FixedUpTo(rs, n - 1) : first <= j
    BY <1>1, <1>2, LeastFacts
  <2>2. first \in FixedUpTo(rs, n) /\ \A j \in FixedUpTo(rs, n) : first <= j
    BY <1>1, <2>1
  <2>3. Least(FixedUpTo(rs, n - 1)) = first
    BY <1>1, <2>1, LeastFacts
  <2>4. Least(FixedUpTo(rs, n)) = first
    BY <1>1, <2>2, LeastFacts
  <2>5. FixedUpTo(rs, n) # {}
    BY <2>2
  <2> QED
    BY <1>2, <2>3, <2>4, <2>5 DEF StateAfter, ApplyRule
<1>3. CASE FixedUpTo(rs, n - 1) = {} /\ rs[n].kind = "fixed"
  <2>1. FixedUpTo(rs, n) = {n}
    BY <1>1, <1>3
  <2>2. Least(FixedUpTo(rs, n)) = n
    BY <1>1, <2>1, LeastFacts
  <2>3. StateAfter(rs, base, n) = [price |-> rs[n].value, final |-> TRUE]
    BY <2>1, <2>2 DEF StateAfter
  <2>4. StateAfter(rs, base, n - 1).final = FALSE
    BY <1>3 DEF StateAfter
  <2> QED
    BY <1>3, <2>3, <2>4 DEF ApplyRule
<1>4. CASE FixedUpTo(rs, n - 1) = {} /\ rs[n].kind # "fixed"
  <2>1. FixedUpTo(rs, n) = {}
    BY <1>1, <1>4
  <2>2. StateAfter(rs, base, n) = [price |-> (base * (100 - rs[n].value)) \div 100, final |-> FALSE]
    BY <2>1 DEF StateAfter
  <2>3. StateAfter(rs, base, n - 1).final = FALSE
    BY <1>4 DEF StateAfter
  <2> QED
    BY <1>4, <2>2, <2>3 DEF ApplyRule
<1> QED
  BY <1>2, <1>3, <1>4

(* One turn of the loop as an equation for the whole of it. *)
IsLoop(f, rs, base) ==
  f = [n \in 0 .. Len(rs) |-> IF n = 0 THEN [price |-> base, final |-> FALSE]
                              ELSE ApplyRule(f[n - 1], rs[n], base)]

(* The states solve the equation, and nothing else does: the least place   *)
(* where a solution differed would follow one where it did not.            *)
LEMMA LoopStates ==
  ASSUME NEW rs \in Seq(Rules), NEW base
  PROVE  AfterRules(rs, base) = [n \in 0 .. Len(rs) |-> StateAfter(rs, base, n)]
<1> DEFINE h == [n \in 0 .. Len(rs) |-> StateAfter(rs, base, n)]
<1>0. Len(rs) \in Nat
  OBVIOUS
<1>1. IsLoop(h, rs, base)
  <2> SUFFICES ASSUME NEW n \in 0 .. Len(rs)
               PROVE  h[n] = IF n = 0 THEN [price |-> base, final |-> FALSE]
                             ELSE ApplyRule(h[n - 1], rs[n], base)
    BY DEF IsLoop
  <2>1. CASE n = 0
    BY <1>0, <2>1 DEF StateAfter, FixedUpTo
  <2>2. CASE n # 0
    <3>1. n \in Nat /\ n > 0 /\ n - 1 \in 0 .. Len(rs)
      BY <1>0, <2>2
    <3> QED
      BY <2>2, <3>1, OneTurn
  <2> QED
    BY <2>1, <2>2
<1>2. ASSUME NEW f, IsLoop(f, rs, base)
      PROVE  f = h
  <2> DEFINE wrong == {n \in 0 .. Len(rs) : f[n] # h[n]}
  <2> SUFFICES wrong = {}
    BY <1>2 DEF IsLoop
  <2> SUFFICES ASSUME wrong # {}
               PROVE  FALSE
    OBVIOUS
  <2>1. wrong \in SUBSET Nat
    BY <1>0
  <2>2. PICK n \in wrong : \A m \in wrong : n <= m
    BY <2>1, LeastExists
  <2>3. n # 0
    BY <1>1, <1>2, <2>2 DEF IsLoop
  <2>4. n - 1 \in 0 .. Len(rs) /\ n - 1 \notin wrong
    BY <1>0, <2>2, <2>3
  <2>5. f[n - 1] = h[n - 1]
    BY <2>4
  <2>6. n \in 0 .. Len(rs) /\ f[n] # h[n]
    BY <2>2
  <2> HIDE DEF h
  <2>7. f[n] = ApplyRule(f[n - 1], rs[n], base)
    BY <1>2, <2>3, <2>6 DEF IsLoop
  <2>8. h[n] = ApplyRule(h[n - 1], rs[n], base)
    BY <1>1, <2>3, <2>6 DEF IsLoop
  <2> QED
    BY <2>5, <2>6, <2>7, <2>8
<1>3. AfterRules(rs, base) = CHOOSE f : IsLoop(f, rs, base)
  BY DEF AfterRules, IsLoop
<1>4. IsLoop(CHOOSE f : IsLoop(f, rs, base), rs, base)
  BY <1>1
<1> HIDE DEF h
<1> QED
  BY <1>2, <1>3, <1>4

-----------------------------------------------------------------------------
(* Prices: every price on the way is the one the rules make *)

(* A price of the rules is a number. *)
LEMMA PriceIsNat ==
  ASSUME NEW rs \in Seq(Rules), NEW base \in Nat
  PROVE  CalculatePrice(rs, base) \in Nat
<1>0. Len(rs) \in Nat /\ \A i \in 1 .. Len(rs) : rs[i] \in Rules
  OBVIOUS
<1>1. CalculatePrice(rs, base) = StateAfter(rs, base, Len(rs)).price
  BY <1>0, LoopStates DEF CalculatePrice
<1>2. CASE FixedUpTo(rs, Len(rs)) # {}
  <2>1. PICK n \in FixedUpTo(rs, Len(rs)) : TRUE
    BY <1>2
  <2>2. FixedUpTo(rs, Len(rs)) \in SUBSET Nat
    BY <1>0 DEF FixedUpTo
  <2>3. Least(FixedUpTo(rs, Len(rs))) \in FixedUpTo(rs, Len(rs))
    BY <2>1, <2>2, LeastFacts
  <2>4. rs[Least(FixedUpTo(rs, Len(rs)))] \in Rules
    BY <1>0, <2>3 DEF FixedUpTo
  <2> QED
    BY <1>1, <1>2, <2>4, PricesAssumption DEF StateAfter
<1>3. CASE FixedUpTo(rs, Len(rs)) = {} /\ Len(rs) = 0
  BY <1>1, <1>3 DEF StateAfter
<1>4. CASE FixedUpTo(rs, Len(rs)) = {} /\ Len(rs) # 0
  <2>1. Len(rs) \in 1 .. Len(rs)
    BY <1>0, <1>4
  <2>2. rs[Len(rs)].kind # "fixed" /\ rs[Len(rs)] \in Rules
    BY <1>0, <1>4, <2>1 DEF FixedUpTo
  <2>3. 100 - rs[Len(rs)].value \in Nat
    BY <2>2, PricesAssumption
  <2>4. base * (100 - rs[Len(rs)].value) \in Nat
    BY <2>3
  <2>5. (base * (100 - rs[Len(rs)].value)) \div 100 \in Nat
    <3> DEFINE m == base * (100 - rs[Len(rs)].value)
    <3>1. m \in Nat
      BY <2>4
    <3> HIDE DEF m
    <3>2. m \div 100 \in Nat
      BY <3>1
    <3> QED
      BY <3>2 DEF m
  <2> QED
    BY <1>1, <1>4, <2>5 DEF StateAfter
<1> QED
  BY <1>2, <1>3, <1>4

(* Rounding twice is rounding once, and the ERP's prices are round. *)
LEMMA MoneyFacts ==
  ASSUME NEW v \in Nat
  PROVE  /\ Money(v) \in Nat
         /\ Money(Money(v)) = Money(v)
         /\ v % Cent = 0 => Money(v) = v
<1> DEFINE k == (v + 50) \div 100
<1>1. k \in Nat /\ Money(v) = k * 100
  BY DEF Money, Cent
<1> HIDE DEF k
<1>2. (k * 100 + 50) \div 100 = k
  BY <1>1
<1>3. Money(Money(v)) = k * 100
  BY <1>1, <1>2 DEF Money, Cent
<1>4. ASSUME v % 100 = 0
      PROVE  Money(v) = v
  <2>1. v = (v \div 100) * 100
    BY <1>4
  <2>2. (v + 50) \div 100 = v \div 100
    BY <1>4
  <2> QED
    BY <2>1, <2>2 DEF Money, Cent
<1> QED
  BY <1>1, <1>3, <1>4 DEF Cent

(* The ERP's price is one that rounding leaves alone. *)
LEMMA ErpPriceFacts ==
  ASSUME NEW p \in ErpPrices
  PROVE  p \in Nat /\ Money(p) = p
BY PricesAssumption, MoneyFacts

Calm == priceCauses \cap {"moved", "nobody"} = {}

(* The shape of what the proof reads. *)
PricesSane ==
  /\ erpPrice \in ErpPrices /\ row \in ErpPrices
  /\ rules \in Seq(Rules)
  /\ DOMAIN quotes \subseteq QuoteKeys
  /\ policy \in Policies /\ buyer.policy \in Policies
  /\ line # None => line.own \in OwnPrices \cup {-1}
  /\ buyer.policy.mode = "none" /\ line # None => line.own = -1
  /\ "policy" \notin priceCauses => buyer.policy = policy

(* While nothing moved, the cached answers and the page are those of now, *)
(* and so is the line's price, but for its rounding.                      *)
AllCurrent ==
  Calm =>
    /\ \A k \in DOMAIN quotes : quotes[k] = QuoteFor(k, erpPrice)
    /\ page # None => page = QuoteFor(<<"list", Who>>, erpPrice)
    /\ line # None =>
         /\ line.base = erpPrice
         /\ \/ line.unit = CalculatePrice(rules, erpPrice)
            \/ /\ line.unit = Money(CalculatePrice(rules, erpPrice))
               /\ "rounded" \in priceCauses
         /\ line.own # -1 => AllowsOverride(buyer.policy, line.own, erpPrice)

PricesInv == PricesSane /\ AllCurrent /\ OrderHasRulePrice /\ RefusalNeedsCause

(* The rules stay a sequence of rules, whatever an administrator does. *)
LEMMA RulesStay ==
  ASSUME NEW rs \in Seq(Rules), NEW r \in Rules
  PROVE  /\ \A i \in 1 .. Len(rs) + 1 : InsertAt(rs, i, r) \in Seq(Rules)
         /\ \A i \in 1 .. Len(rs) : ReplaceAt(rs, i, r) \in Seq(Rules)
<1>1. ASSUME NEW i \in 1 .. Len(rs) + 1
      PROVE  InsertAt(rs, i, r) \in Seq(Rules)
  <2>1. SubSeq(rs, 1, i - 1) \in Seq(Rules) /\ SubSeq(rs, i, Len(rs)) \in Seq(Rules)
    BY <1>1
  <2>2. SubSeq(rs, 1, i - 1) \o <<r>> \in Seq(Rules)
    BY <2>1
  <2> QED
    BY <2>1, <2>2 DEF InsertAt
<1>2. ASSUME NEW i \in 1 .. Len(rs)
      PROVE  ReplaceAt(rs, i, r) \in Seq(Rules)
  BY <1>2 DEF ReplaceAt
<1> QED
  BY <1>1, <1>2

(* Nor does a deletion make anything else of them. *)
LEMMA RulesLeft ==
  ASSUME NEW rs \in Seq(Rules), NEW i \in 1 .. Len(rs)
  PROVE  RemoveAt(rs, i) \in Seq(Rules)
<1>1. SubSeq(rs, 1, i - 1) \in Seq(Rules) /\ SubSeq(rs, i + 1, Len(rs)) \in Seq(Rules)
  OBVIOUS
<1> QED
  BY <1>1 DEF RemoveAt

(* A quote depends on who asks, not on where. *)
LEMMA SameQuote ==
  ASSUME NEW k \in QuoteKeys, NEW l \in QuoteKeys, k[2] = l[2], NEW p
  PROVE  QuoteFor(k, p) = QuoteFor(l, p)
BY DEF QuoteFor

(* An answer is the price of now, and the cache keeps no other. *)
LEMMA AnswerIsCurrent ==
  ASSUME NEW k \in QuoteKeys, NEW q, Answers(k, q), PricesSane,
         k[1] = "list" => row = erpPrice,
         \A x \in DOMAIN quotes : quotes[x] = QuoteFor(x, erpPrice)
  PROVE  /\ q = QuoteFor(k, erpPrice)
         /\ \A x \in DOMAIN quotes' : quotes'[x] = QuoteFor(x, erpPrice)
BY DEF Answers

(* Whatever the answer, the cache and the row keep their shape. *)
LEMMA AnswerShape ==
  ASSUME NEW k \in QuoteKeys, NEW q, Answers(k, q), PricesSane
  PROVE  DOMAIN quotes' \subseteq QuoteKeys /\ row' \in ErpPrices
BY DEF Answers, PricesSane

(* The keys that the pages and the API ask for. *)
LEMMA KeysOfQuotes ==
  \A w \in {"list", "active", "all"} :
    <<w, Who>> \in QuoteKeys /\ <<w, Who>>[2] = Who /\ <<w, "customer">> \in QuoteKeys
BY DEF QuoteKeys, Who

(* The price of a quote for the customer is the rules' price. *)
LEMMA CustomerQuote ==
  ASSUME NEW w, NEW p
  PROVE  QuoteFor(<<w, "customer">>, p) = [base |-> p, final |-> CalculatePrice(rules, p)]
BY DEF QuoteFor

(* The initial state. *)
LEMMA InitPrices == PricesInit => PricesInv
<1> SUFFICES ASSUME PricesInit
             PROVE  PricesInv
  OBVIOUS
<1>1. rules \in Seq(Rules)
  <2>1. PICK n \in 0 .. MaxRules : rules \in [1 .. n -> Rules]
    BY DEF PricesInit
  <2> QED
    BY <2>1, PricesAssumption
<1>2. DOMAIN quotes = {} /\ page = None /\ line = None /\ outcome = None
  BY DEF PricesInit
<1>3. PricesSane
  BY <1>1, <1>2 DEF PricesInit, PricesSane
<1> QED
  BY <1>2, <1>3 DEF PricesInv, AllCurrent, OrderHasRulePrice, RefusalNeedsCause, Has

(* A change of the ERP's price or of the rules that somebody may notice is *)
(* a cause; nothing else changes.                                          *)
LEMMA MoveKeeps ==
  ASSUME PricesInv, Moved("moved"), erpPrice' \in ErpPrices, rules' \in Seq(Rules),
         UNCHANGED <<row, quotes, buyer, policy, page, line, outcome>>
  PROVE  PricesInv'
<1>1. PricesSane'
  BY DEF PricesInv, PricesSane, Moved
<1>2. AllCurrent'
  <2>1. CASE DOMAIN quotes # {} \/ page # None \/ line # None
    <3>1. "moved" \in priceCauses'
      BY <2>1 DEF Moved
    <3> QED
      BY <3>1 DEF AllCurrent, Calm
  <2>2. CASE DOMAIN quotes = {} /\ page = None /\ line = None
    BY <2>2 DEF AllCurrent
  <2> QED
    BY <2>1, <2>2
<1>3. priceCauses \subseteq priceCauses'
  BY DEF Moved
<1>4. OrderHasRulePrice'
  BY <1>3 DEF PricesInv, OrderHasRulePrice, Has
<1>5. RefusalNeedsCause'
  BY <1>3 DEF PricesInv, RefusalNeedsCause, Has
<1> QED
  BY <1>1, <1>2, <1>4, <1>5 DEF PricesInv

(* A step that leaves the line and the order alone. *)
LEMMA QuotesKeep ==
  ASSUME PricesInv, priceCauses \subseteq priceCauses',
         ("policy" \in priceCauses') <=> ("policy" \in priceCauses),
         ("rounded" \in priceCauses') <=> ("rounded" \in priceCauses),
         row' \in ErpPrices, DOMAIN quotes' \subseteq QuoteKeys,
         Calm' => /\ \A k \in DOMAIN quotes' : quotes'[k] = QuoteFor(k, erpPrice)
                  /\ page' # None => page' = QuoteFor(<<"list", Who>>, erpPrice),
         UNCHANGED <<erpPrice, rules, buyer, policy, line, outcome>>
  PROVE  PricesInv'
<1>1. PricesSane'
  BY DEF PricesInv, PricesSane
<1>2. AllCurrent'
  <2> SUFFICES ASSUME Calm'
               PROVE  AllCurrent'
    BY DEF AllCurrent
  <2>1. Calm
    BY DEF Calm
  <2>2. Who' = Who /\ \A k, p : QuoteFor(k, p)' = QuoteFor(k, p)
    BY DEF Who, QuoteFor
  <2> QED
    BY <2>1, <2>2 DEF PricesInv, AllCurrent
<1>3. OrderHasRulePrice'
  BY DEF PricesInv, OrderHasRulePrice, Has
<1>4. RefusalNeedsCause'
  BY DEF PricesInv, RefusalNeedsCause, Has
<1> QED
  BY <1>1, <1>2, <1>3, <1>4 DEF PricesInv

(* A page shows a quote that the API gives. *)
LEMMA ShowKeepsPrices ==
  ASSUME PricesInv, ShowList \/ ShowPage
  PROVE  PricesInv'
<1>1. PICK w, q :
        /\ w \in {"list", "active", "all"}
        /\ Answers(<<w, Who>>, q) /\ page' = q
        /\ w = "list" => priceCauses' = IF row # erpPrice THEN priceCauses \cup {"moved"}
                                        ELSE priceCauses
        /\ w # "list" => priceCauses' = priceCauses
  <2>1. CASE ShowList
    BY <2>1 DEF ShowList
  <2>2. CASE ShowPage
    <3> DEFINE w == IF buyer.role = "customer" THEN "active" ELSE "all"
    <3>1. PICK q : Answers(<<w, Who>>, q) /\ page' = q
      BY <2>2 DEF ShowPage
    <3>2. w \in {"list", "active", "all"} /\ w # "list" /\ priceCauses' = priceCauses
      BY <2>2 DEF ShowPage
    <3> HIDE DEF w
    <3> QED
      BY <3>1, <3>2
  <2> QED
    BY <2>1, <2>2
<1>2. UNCHANGED <<erpPrice, rules, buyer, policy, line, outcome>>
  BY DEF ShowList, ShowPage
<1>3. PricesSane /\ <<w, Who>> \in QuoteKeys /\ <<"list", Who>> \in QuoteKeys
      /\ <<w, Who>>[1] = w /\ <<w, Who>>[2] = <<"list", Who>>[2]
  BY <1>1, KeysOfQuotes DEF PricesInv
<1>4. DOMAIN quotes' \subseteq QuoteKeys /\ row' \in ErpPrices
  BY <1>1, <1>3, AnswerShape
<1>5. ASSUME Calm'
      PROVE  /\ \A k \in DOMAIN quotes' : quotes'[k] = QuoteFor(k, erpPrice)
             /\ page' = QuoteFor(<<"list", Who>>, erpPrice)
  <2>1. Calm /\ (w = "list" => row = erpPrice)
    BY <1>1, <1>5 DEF Calm
  <2>2. \A k \in DOMAIN quotes : quotes[k] = QuoteFor(k, erpPrice)
    BY <2>1 DEF PricesInv, AllCurrent
  <2>3. /\ q = QuoteFor(<<w, Who>>, erpPrice)
        /\ \A x \in DOMAIN quotes' : quotes'[x] = QuoteFor(x, erpPrice)
    BY <1>1, <1>3, <2>1, <2>2, AnswerIsCurrent
  <2> QED
    BY <1>1, <1>3, <2>3, SameQuote
<1> QED
  BY <1>1, <1>2, <1>4, <1>5, QuotesKeep

(* The sync writes the row, an answer expires: the rest stays. *)
LEMMA CacheKeeps ==
  ASSUME PricesInv, SyncRow \/ (\E k \in QuoteKeys : QuoteExpires(k))
  PROVE  PricesInv'
<1>1. UNCHANGED <<erpPrice, rules, buyer, policy, page, line, outcome, priceCauses>>
  BY DEF SyncRow, QuoteExpires
<1>2. /\ DOMAIN quotes' \subseteq DOMAIN quotes
      /\ \A k \in DOMAIN quotes' : quotes'[k] = quotes[k]
  BY DEF SyncRow, QuoteExpires
<1>3. row' \in ErpPrices /\ DOMAIN quotes' \subseteq QuoteKeys
  BY <1>2 DEF SyncRow, QuoteExpires, PricesInv, PricesSane
<1>4. ASSUME Calm'
      PROVE  /\ \A k \in DOMAIN quotes' : quotes'[k] = QuoteFor(k, erpPrice)
             /\ page' # None => page' = QuoteFor(<<"list", Who>>, erpPrice)
  BY <1>1, <1>2, <1>4 DEF PricesInv, AllCurrent, Calm
<1> QED
  BY <1>1, <1>3, <1>4, QuotesKeep

(* Another policy is a cause that no line can hide. *)
LEMMA PolicyKeeps ==
  ASSUME PricesInv, NEW pol \in Policies, ChangePolicy(pol)
  PROVE  PricesInv'
<1>1. UNCHANGED <<erpPrice, row, rules, quotes, buyer, page, line, outcome>>
      /\ policy' = pol /\ priceCauses' = priceCauses \cup {"policy"}
  BY DEF ChangePolicy
<1>2. PricesSane'
  BY <1>1 DEF PricesInv, PricesSane
<1>3. AllCurrent'
  <2>1. Calm' => Calm
    BY <1>1 DEF Calm
  <2>2. Who' = Who /\ \A k, p : QuoteFor(k, p)' = QuoteFor(k, p)
    BY <1>1 DEF Who, QuoteFor
  <2> QED
    BY <1>1, <2>1, <2>2 DEF PricesInv, AllCurrent
<1>4. OrderHasRulePrice'
  BY <1>1 DEF PricesInv, OrderHasRulePrice, Has
<1>5. RefusalNeedsCause'
  BY <1>1 DEF PricesInv, RefusalNeedsCause, Has
<1> QED
  BY <1>2, <1>3, <1>4, <1>5 DEF PricesInv

(* A step that changes the line, and not what the user may do. *)
LEMMA LineKeeps ==
  ASSUME PricesInv, priceCauses \subseteq priceCauses',
         ("policy" \in priceCauses') <=> ("policy" \in priceCauses),
         row' \in ErpPrices, DOMAIN quotes' \subseteq QuoteKeys,
         Calm' => \A k \in DOMAIN quotes' : quotes'[k] = QuoteFor(k, erpPrice),
         line'.own \in OwnPrices \cup {-1},
         buyer.policy.mode = "none" => line'.own = -1,
         Calm' =>
           /\ line'.base = erpPrice
           /\ \/ line'.unit = CalculatePrice(rules, erpPrice)
              \/ /\ line'.unit = Money(CalculatePrice(rules, erpPrice))
                 /\ "rounded" \in priceCauses'
           /\ line'.own # -1 => AllowsOverride(buyer.policy, line'.own, erpPrice),
         UNCHANGED <<erpPrice, rules, buyer, policy, page, outcome>>
  PROVE  PricesInv'
<1>1. PricesSane'
  BY DEF PricesInv, PricesSane
<1>2. AllCurrent'
  <2> SUFFICES ASSUME Calm'
               PROVE  AllCurrent'
    BY DEF AllCurrent
  <2>1. Calm
    BY DEF Calm
  <2>2. Who' = Who /\ \A k, p : QuoteFor(k, p)' = QuoteFor(k, p)
    BY DEF Who, QuoteFor
  <2> QED
    BY <2>1, <2>2 DEF PricesInv, AllCurrent
<1>3. OrderHasRulePrice'
  BY DEF PricesInv, OrderHasRulePrice, Has
<1>4. RefusalNeedsCause'
  BY DEF PricesInv, RefusalNeedsCause, Has
<1> QED
  BY <1>1, <1>2, <1>3, <1>4 DEF PricesInv

(* The page's price goes into the line. *)
LEMMA AddKeeps ==
  ASSUME PricesInv, AddToCartAt
  PROVE  PricesInv'
<1> USE DEF PricesInv
<1>1. /\ page # None
      /\ line'.unit = page.final /\ line'.base = page.base
      /\ line'.own = IF line # None THEN line.own ELSE -1
      /\ UNCHANGED <<erpPrice, row, rules, quotes, buyer, policy, page, outcome>>
      /\ priceCauses' = IF Who = "nobody" /\ page.final # CalculatePrice(rules, page.base)
                          THEN priceCauses \cup {"nobody"} ELSE priceCauses
  BY DEF AddToCartAt, Has
<1>2. /\ line'.own \in OwnPrices \cup {-1}
      /\ buyer.policy.mode = "none" => line'.own = -1
      /\ row' \in ErpPrices /\ DOMAIN quotes' \subseteq QuoteKeys
  BY <1>1 DEF PricesSane
<1>3. ASSUME Calm'
      PROVE  /\ \A k \in DOMAIN quotes' : quotes'[k] = QuoteFor(k, erpPrice)
             /\ line'.base = erpPrice
             /\ line'.unit = CalculatePrice(rules, erpPrice)
             /\ line'.own # -1 => AllowsOverride(buyer.policy, line'.own, erpPrice)
  <2>1. Calm /\ (Who = "nobody" => page.final = CalculatePrice(rules, page.base))
    BY <1>1, <1>3 DEF Calm
  <2>2. page = QuoteFor(<<"list", Who>>, erpPrice)
    BY <1>1, <2>1 DEF AllCurrent
  <2>3. page.base = erpPrice
        /\ (Who = "customer" => page.final = CalculatePrice(rules, erpPrice))
    BY <2>2 DEF QuoteFor
  <2>4. Who = "customer" \/ Who = "nobody"
    BY DEF Who
  <2>5. line'.base = erpPrice /\ line'.unit = CalculatePrice(rules, erpPrice)
    BY <1>1, <2>1, <2>3, <2>4
  <2> QED
    BY <1>1, <2>1, <2>5 DEF AllCurrent
<1>4. priceCauses \subseteq priceCauses'
      /\ (("policy" \in priceCauses') <=> ("policy" \in priceCauses))
  BY <1>1
<1> QED
  BY <1>1, <1>2, <1>3, <1>4, LineKeeps

(* A reorder rounds the price of the rules. *)
LEMMA ReorderKeepsPrices ==
  ASSUME PricesInv, ReorderLine
  PROVE  PricesInv'
<1> USE DEF PricesInv
<1> DEFINE k == <<"active", "customer">>
<1>0. k \in QuoteKeys /\ k[1] # "list"
  BY DEF QuoteKeys
<1>1. PICK q :
        /\ Answers(k, q)
        /\ line'.unit = Money(q.final) /\ line'.base = Money(q.base)
        /\ line'.own = IF line # None THEN line.own ELSE -1
        /\ priceCauses' = IF Money(q.final) # q.final
                            THEN priceCauses \cup {"rounded"} ELSE priceCauses
  BY DEF ReorderLine, Has
<1>2. UNCHANGED <<erpPrice, rules, buyer, policy, page, outcome>>
  BY DEF ReorderLine
<1>3. DOMAIN quotes' \subseteq QuoteKeys /\ row' \in ErpPrices
  BY <1>0, <1>1, AnswerShape
<1>4. line'.own \in OwnPrices \cup {-1} /\ (buyer.policy.mode = "none" => line'.own = -1)
  BY <1>1 DEF PricesSane
<1>5. ASSUME Calm'
      PROVE  /\ \A x \in DOMAIN quotes' : quotes'[x] = QuoteFor(x, erpPrice)
             /\ line'.base = erpPrice
             /\ \/ line'.unit = CalculatePrice(rules, erpPrice)
                \/ /\ line'.unit = Money(CalculatePrice(rules, erpPrice))
                   /\ "rounded" \in priceCauses'
             /\ line'.own # -1 => AllowsOverride(buyer.policy, line'.own, erpPrice)
  <2>1. Calm
    BY <1>1, <1>5 DEF Calm
  <2>2. \A x \in DOMAIN quotes : quotes[x] = QuoteFor(x, erpPrice)
    BY <2>1 DEF AllCurrent
  <2>3. /\ q = QuoteFor(k, erpPrice)
        /\ \A x \in DOMAIN quotes' : quotes'[x] = QuoteFor(x, erpPrice)
    BY <1>0, <1>1, <2>2, AnswerIsCurrent
  <2>4. q.base = erpPrice /\ q.final = CalculatePrice(rules, erpPrice)
    BY <2>3 DEF QuoteFor
  <2>5. Money(q.base) = erpPrice
    BY <2>4, ErpPriceFacts DEF PricesSane
  <2>6. line'.own # -1 => AllowsOverride(buyer.policy, line'.own, erpPrice)
    BY <1>1, <2>1 DEF AllCurrent
  <2>7. \/ line'.unit = CalculatePrice(rules, erpPrice)
        \/ /\ line'.unit = Money(CalculatePrice(rules, erpPrice))
           /\ "rounded" \in priceCauses'
    BY <1>1, <2>4
  <2> QED
    BY <1>1, <2>3, <2>5, <2>6, <2>7
<1>6. priceCauses \subseteq priceCauses'
      /\ (("policy" \in priceCauses') <=> ("policy" \in priceCauses))
  BY <1>1
<1> QED
  BY <1>2, <1>3, <1>4, <1>5, <1>6, LineKeeps

(* The user's own price is one the policy allows, or is taken back. *)
LEMMA GiveKeeps ==
  ASSUME PricesInv, ResetPrice \/ \E v \in OwnPrices : GivePrice(v)
  PROVE  PricesInv'
<1> USE DEF PricesInv
<1>1. /\ line # None
      /\ UNCHANGED <<erpPrice, row, rules, quotes, buyer, policy, page, outcome, priceCauses>>
  BY DEF GivePrice, ResetPrice, Has
<1>2. /\ line'.unit = line.unit /\ line'.base = line.base
      /\ \/ line'.own = -1
         \/ /\ line'.own \in OwnPrices /\ buyer.policy.mode # "none"
            /\ AllowsOverride(buyer.policy, line'.own, line.base)
  <2>1. CASE ResetPrice
    <3>1. line' = [line EXCEPT !.own = -1]
      BY <2>1 DEF ResetPrice
    <3> QED
      BY <1>1, <3>1
  <2>2. ASSUME NEW v \in OwnPrices, GivePrice(v)
        PROVE  /\ line'.unit = line.unit /\ line'.base = line.base
               /\ line'.own \in OwnPrices /\ buyer.policy.mode # "none"
               /\ AllowsOverride(buyer.policy, line'.own, line.base)
    <3>1. line' = [line EXCEPT !.own = v,
                               !.confirmed = @ \/ (buyer.policy.mode = "full" /\ v < line.base)]
      BY <2>2 DEF GivePrice
    <3>2. line'.unit = line.unit /\ line'.base = line.base /\ line'.own = v
      BY <1>1, <3>1
    <3> QED
      BY <2>2, <3>2 DEF GivePrice, ValidPrice
  <2> QED
    BY <2>1, <2>2
<1> QED
  BY <1>1, <1>2, LineKeeps DEF PricesSane, AllCurrent, Calm

(* What the cart page lets a user send, the API allows. *)
LEMMA CartAgrees ==
  ASSUME PricesInv, Calm, "policy" \notin priceCauses, line # None, NoPriceErrors,
         Requested # CalculatePrice(rules, erpPrice),
         ~ AllowsOverride(policy, Requested, erpPrice)
  PROVE  "rounded" \in priceCauses /\ policy.mode = "none"
<1> DEFINE P == CalculatePrice(rules, erpPrice)
<1>1. /\ line.base = erpPrice
      /\ line.unit = P \/ (line.unit = Money(P) /\ "rounded" \in priceCauses)
      /\ line.own # -1 => AllowsOverride(policy, line.own, erpPrice)
      /\ buyer.policy = policy
      /\ policy.mode = "none" => line.own = -1
  BY DEF PricesInv, PricesSane, AllCurrent
<1>2. line.own = -1 /\ Requested = line.unit
  BY <1>1 DEF Requested
<1>3. Requested = Money(P) /\ "rounded" \in priceCauses
  BY <1>1, <1>2
<1>4. P \in Nat
  BY PriceIsNat, ErpPriceFacts DEF PricesInv, PricesSane
<1> HIDE DEF P
<1>5. Money(Requested) = Requested
  BY <1>3, <1>4, MoneyFacts
<1>6. ValidPrice(policy, Requested, erpPrice)
  BY <1>1, <1>5 DEF NoPriceErrors
<1>7. policy.mode = "none"
  BY <1>6 DEF ValidPrice
<1> QED
  BY <1>3, <1>7

(* The API judges the line by the price of now. *)
LEMMA SubmitKeeps ==
  ASSUME PricesInv, SubmitOrder
  PROVE  PricesInv'
<1> DEFINE k == <<"all", "customer">>
           P == CalculatePrice(rules, erpPrice)
<1>0. k \in QuoteKeys /\ k[1] # "list" /\ PricesSane
  BY DEF QuoteKeys, PricesInv
<1>1. PICK q : Answers(k, q) /\ outcome' = [verdict |-> Judge(q), own |-> line.own]
  BY DEF SubmitOrder
<1>2. /\ line # None /\ NoPriceErrors
      /\ UNCHANGED <<erpPrice, rules, buyer, policy, page, line, priceCauses>>
  BY DEF SubmitOrder, Has
<1>3. DOMAIN quotes' \subseteq QuoteKeys /\ row' \in ErpPrices
  BY <1>0, <1>1, AnswerShape
<1>4. ASSUME Calm
      PROVE  /\ q.final = P /\ q.base = erpPrice
             /\ \A x \in DOMAIN quotes' : quotes'[x] = QuoteFor(x, erpPrice)
  <2>1. \A x \in DOMAIN quotes : quotes[x] = QuoteFor(x, erpPrice)
    BY <1>4 DEF PricesInv, AllCurrent
  <2>2. /\ q = QuoteFor(k, erpPrice)
        /\ \A x \in DOMAIN quotes' : quotes'[x] = QuoteFor(x, erpPrice)
    BY <1>0, <1>1, <2>1, AnswerIsCurrent
  <2> QED
    BY <2>2 DEF QuoteFor
<1>5. PricesSane'
  BY <1>0, <1>2, <1>3 DEF PricesSane
<1>6. AllCurrent'
  <2> SUFFICES ASSUME Calm'
               PROVE  AllCurrent'
    BY DEF AllCurrent
  <2>1. Calm
    BY <1>2 DEF Calm
  <2>2. Who' = Who /\ \A x, p : QuoteFor(x, p)' = QuoteFor(x, p)
    BY <1>2 DEF Who, QuoteFor
  <2> QED
    BY <1>2, <1>4, <2>1, <2>2 DEF PricesInv, AllCurrent
<1>7. OrderHasRulePrice'
  <2> SUFFICES ASSUME line.own = -1, priceCauses \cap {"moved", "nobody", "rounded"} = {}
               PROVE  Judge(q) # "override"
    BY <1>1, <1>2 DEF OrderHasRulePrice
  <2>1. Calm
    BY DEF Calm
  <2>2. line.unit = P
    BY <1>2, <2>1 DEF PricesInv, AllCurrent
  <2>3. Requested = q.final
    BY <1>4, <2>1, <2>2 DEF Requested
  <2> QED
    BY <2>3 DEF Judge
<1>8. RefusalNeedsCause'
  <2> SUFFICES ASSUME Judge(q) = "refused",
                      priceCauses \cap {"moved", "nobody", "policy"} = {}
               PROVE  "rounded" \in priceCauses /\ policy.mode = "none"
    BY <1>1, <1>2 DEF RefusalNeedsCause
  <2>1. Calm /\ "policy" \notin priceCauses
    BY DEF Calm
  <2>2. Requested # P /\ ~ AllowsOverride(policy, Requested, erpPrice)
    BY <1>4, <2>1 DEF Judge
  <2> QED
    BY <1>2, <2>1, <2>2, CartAgrees
<1> QED
  BY <1>5, <1>6, <1>7, <1>8 DEF PricesInv

(* No step takes the invariant away. *)
LEMMA NextPrices == PricesInv /\ [PricesNext]_priceVars => PricesInv'
<1> SUFFICES ASSUME PricesInv, [PricesNext]_priceVars
             PROVE  PricesInv'
  OBVIOUS
<1>0. erpPrice \in ErpPrices /\ rules \in Seq(Rules)
  BY DEF PricesInv, PricesSane
<1>1. ASSUME NEW p \in ErpPrices, ChangeErpPrice(p)
      PROVE  PricesInv'
  BY <1>0, <1>1, MoveKeeps DEF ChangeErpPrice
<1>2. ASSUME NEW r \in Rules, NEW i \in 1 .. Len(rules) + 1, CreateRule(i, r)
      PROVE  PricesInv'
  <2>1. InsertAt(rules, i, r) \in Seq(Rules)
    BY <1>0, <1>2, RulesStay
  <2> QED
    BY <1>0, <1>2, <2>1, MoveKeeps DEF CreateRule
<1>3. ASSUME NEW r \in Rules, NEW i \in 1 .. Len(rules), UpdateRule(i, r)
      PROVE  PricesInv'
  <2>1. ReplaceAt(rules, i, r) \in Seq(Rules)
    BY <1>0, <1>3, RulesStay
  <2> QED
    BY <1>0, <1>3, <2>1, MoveKeeps DEF UpdateRule
<1>4. ASSUME NEW i \in 1 .. Len(rules), DeleteRule(i)
      PROVE  PricesInv'
  <2>1. RemoveAt(rules, i) \in Seq(Rules)
    BY <1>0, <1>4, RulesLeft
  <2> QED
    BY <1>0, <1>4, <2>1, MoveKeeps DEF DeleteRule
<1>5. CASE \E pol \in Policies : ChangePolicy(pol)
  BY <1>5, PolicyKeeps
<1>6. CASE SyncRow \/ (\E k \in QuoteKeys : QuoteExpires(k))
  BY <1>6, CacheKeeps
<1>7. CASE ShowList \/ ShowPage
  BY <1>7, ShowKeepsPrices
<1>8. CASE AddToCartAt
  BY <1>8, AddKeeps
<1>9. CASE ReorderLine
  BY <1>9, ReorderKeepsPrices
<1>10. CASE ResetPrice \/ \E v \in OwnPrices : GivePrice(v)
  BY <1>10, GiveKeeps
<1>11. CASE SubmitOrder
  BY <1>11, SubmitKeeps
<1>12. CASE UNCHANGED priceVars
  <2>1. Who' = Who /\ \A x, p : QuoteFor(x, p)' = QuoteFor(x, p)
    BY <1>12 DEF Who, QuoteFor, priceVars
  <2>2. PricesSane' /\ OrderHasRulePrice' /\ RefusalNeedsCause'
    BY <1>12 DEF priceVars, PricesInv, PricesSane, OrderHasRulePrice, RefusalNeedsCause, Has
  <2>3. AllCurrent'
    BY <1>12, <2>1 DEF priceVars, PricesInv, AllCurrent, Calm
  <2> QED
    BY <2>2, <2>3 DEF PricesInv
<1> QED
  BY <1>1, <1>2, <1>3, <1>4, <1>5, <1>6, <1>7, <1>8, <1>9, <1>10, <1>11, <1>12 DEF PricesNext

(* Who gave no price of their own orders at the price of the ERP and the   *)
(* rules, unless that moved under a quote, was quoted for nobody or was    *)
(* rounded by a reorder: the price crosses the caches, the page, the cart  *)
(* and the request without becoming an override.                           *)
THEOREM PriceArrives == PricesSpec => []OrderHasRulePrice
<1>1. PricesInv => OrderHasRulePrice
  BY DEF PricesInv
<1> QED
  BY <1>1, InitPrices, NextPrices, PTL DEF PricesSpec

(* The cart page and the API apply the same rules, so that an order the    *)
(* page lets through is refused for its price for the named causes only.   *)
THEOREM RefusedOnlyAfter == PricesSpec => []RefusalNeedsCause
<1>1. PricesInv => RefusalNeedsCause
  BY DEF PricesInv
<1> QED
  BY <1>1, InitPrices, NextPrices, PTL DEF PricesSpec

-----------------------------------------------------------------------------
(* Prices: the shape of the state *)

(* A price of the user's own is one that users give. *)
OwnGiven == line # None => line.own \in OwnPrices \cup {-1}

PriceTypes == PricesTypeOK /\ OwnGiven

(* How many rules there are after each change. *)
LEMMA HowManyRules ==
  ASSUME NEW rs \in Seq(Rules), NEW r \in Rules
  PROVE  /\ \A i \in 1 .. Len(rs) + 1 : Len(InsertAt(rs, i, r)) = Len(rs) + 1
         /\ \A i \in 1 .. Len(rs) : Len(ReplaceAt(rs, i, r)) = Len(rs)
         /\ \A i \in 1 .. Len(rs) : Len(RemoveAt(rs, i)) = Len(rs) - 1
<1>0. /\ Len(rs) \in Nat
      /\ \A s, t \in Seq(Rules) : s \o t \in Seq(Rules) /\ Len(s \o t) = Len(s) + Len(t)
      /\ <<r>> \in Seq(Rules) /\ Len(<<r>>) = 1
  OBVIOUS
<1>1. ASSUME NEW i \in 1 .. Len(rs) + 1
      PROVE  Len(InsertAt(rs, i, r)) = Len(rs) + 1
  <2>1. /\ SubSeq(rs, 1, i - 1) \in Seq(Rules) /\ SubSeq(rs, i, Len(rs)) \in Seq(Rules)
        /\ Len(SubSeq(rs, 1, i - 1)) = i - 1 /\ Len(SubSeq(rs, i, Len(rs))) = Len(rs) - i + 1
    BY <1>1
  <2>2. /\ SubSeq(rs, 1, i - 1) \o <<r>> \in Seq(Rules)
        /\ Len(SubSeq(rs, 1, i - 1) \o <<r>>) = i
    BY <1>0, <1>1, <2>1
  <2> DEFINE s == SubSeq(rs, 1, i - 1) \o <<r>>
             t == SubSeq(rs, i, Len(rs))
  <2>3. InsertAt(rs, i, r) = s \o t
    BY DEF InsertAt
  <2> HIDE DEF s, t
  <2>4. s \in Seq(Rules) /\ Len(s) = i /\ t \in Seq(Rules) /\ Len(t) = Len(rs) - i + 1
    BY <2>1, <2>2 DEF s, t
  <2>5. Len(s \o t) = Len(s) + Len(t)
    BY <1>0, <2>4
  <2> QED
    BY <1>0, <1>1, <2>3, <2>4, <2>5
<1>2. ASSUME NEW i \in 1 .. Len(rs)
      PROVE  Len(ReplaceAt(rs, i, r)) = Len(rs)
  BY <1>2 DEF ReplaceAt
<1>3. ASSUME NEW i \in 1 .. Len(rs)
      PROVE  Len(RemoveAt(rs, i)) = Len(rs) - 1
  <2>1. /\ SubSeq(rs, 1, i - 1) \in Seq(Rules) /\ SubSeq(rs, i + 1, Len(rs)) \in Seq(Rules)
        /\ Len(SubSeq(rs, 1, i - 1)) = i - 1 /\ Len(SubSeq(rs, i + 1, Len(rs))) = Len(rs) - i
    BY <1>3
  <2> DEFINE s == SubSeq(rs, 1, i - 1)
             t == SubSeq(rs, i + 1, Len(rs))
  <2>2. RemoveAt(rs, i) = s \o t
    BY DEF RemoveAt
  <2> HIDE DEF s, t
  <2>3. s \in Seq(Rules) /\ Len(s) = i - 1 /\ t \in Seq(Rules) /\ Len(t) = Len(rs) - i
    BY <2>1 DEF s, t
  <2>4. Len(s \o t) = Len(s) + Len(t)
    BY <1>0, <2>3
  <2> QED
    BY <1>0, <1>3, <2>2, <2>3, <2>4
<1> QED
  BY <1>1, <1>2, <1>3

(* A quote is a pair of prices. *)
LEMMA QuoteType ==
  ASSUME NEW k, NEW base \in Nat, rules \in Seq(Rules)
  PROVE  QuoteFor(k, base) \in Quote
BY PriceIsNat DEF QuoteFor, Quote

(* An answer is one, and the cache keeps such. *)
LEMMA AnswerType ==
  ASSUME PriceTypes, NEW k \in QuoteKeys, NEW q, Answers(k, q)
  PROVE  /\ q \in Quote /\ row' \in ErpPrices
         /\ DOMAIN quotes' \subseteq QuoteKeys /\ \A x \in DOMAIN quotes' : quotes'[x] \in Quote
<1>1. /\ erpPrice \in ErpPrices /\ row \in ErpPrices /\ rules \in Seq(Rules)
      /\ DOMAIN quotes \subseteq QuoteKeys /\ \A x \in DOMAIN quotes : quotes[x] \in Quote
  BY DEF PriceTypes, PricesTypeOK
<1>2. QuoteFor(k, row) \in Quote /\ QuoteFor(k, erpPrice) \in Quote
  BY <1>1, QuoteType, ErpPriceFacts
<1> QED
  BY <1>1, <1>2 DEF Answers

(* The first state. *)
LEMMA InitPriceTypes == PricesInit => PriceTypes
<1> SUFFICES ASSUME PricesInit
             PROVE  PriceTypes
  OBVIOUS
<1>1. rules \in Seq(Rules) /\ Len(rules) <= MaxRules
  <2>1. PICK n \in 0 .. MaxRules : rules \in [1 .. n -> Rules]
    BY DEF PricesInit
  <2>2. n \in Nat /\ n <= MaxRules
    BY PricesAssumption
  <2>3. rules \in Seq(Rules) /\ Len(rules) = n
    BY <2>1, <2>2
  <2> QED
    BY <2>2, <2>3
<1>2. DOMAIN quotes = {} /\ page = None /\ line = None /\ outcome = None /\ moves = 0
      /\ priceCauses = {} /\ erpPrice \in ErpPrices /\ row = erpPrice /\ policy \in Policies
  BY DEF PricesInit
<1>3. buyer \in [role : {"customer", "staff"}, policy : Policies]
  BY DEF PricesInit
<1>4. 0 \in 0 .. MaxMoves
  BY PricesAssumption
<1> QED
  BY <1>1, <1>2, <1>3, <1>4 DEF PriceTypes, PricesTypeOK, OwnGiven

(* A change of prices, rules or the policy. *)
LEMMA MoveTypes ==
  ASSUME PriceTypes, moves < MaxMoves, moves' = moves + 1,
         priceCauses' \in {priceCauses, priceCauses \cup {"moved"}, priceCauses \cup {"policy"}},
         erpPrice' \in ErpPrices, rules' \in Seq(Rules), Len(rules') <= MaxRules,
         policy' \in Policies, UNCHANGED <<row, quotes, buyer, page, line, outcome>>
  PROVE  PriceTypes'
<1>1. moves' \in 0 .. MaxMoves
  BY PricesAssumption DEF PriceTypes, PricesTypeOK
<1>2. priceCauses' \subseteq {"moved", "policy", "nobody", "rounded"}
  BY DEF PriceTypes, PricesTypeOK
<1> QED
  BY <1>1, <1>2 DEF PriceTypes, PricesTypeOK, OwnGiven

(* The change of one rule. *)
LEMMA RuleTypes ==
  ASSUME PriceTypes
  PROVE  /\ \A r \in Rules : \A i \in 1 .. Len(rules) + 1 : CreateRule(i, r) => PriceTypes'
         /\ \A r \in Rules : \A i \in 1 .. Len(rules) : UpdateRule(i, r) => PriceTypes'
         /\ \A i \in 1 .. Len(rules) : DeleteRule(i) => PriceTypes'
<1>1. /\ rules \in Seq(Rules) /\ Len(rules) <= MaxRules /\ Len(rules) \in Nat /\ MaxRules \in Nat
      /\ erpPrice \in ErpPrices /\ policy \in Policies
  BY PricesAssumption DEF PriceTypes, PricesTypeOK
<1>2. ASSUME NEW r \in Rules, NEW i \in 1 .. Len(rules) + 1, CreateRule(i, r)
      PROVE  PriceTypes'
  <2>1. InsertAt(rules, i, r) \in Seq(Rules) /\ Len(InsertAt(rules, i, r)) = Len(rules) + 1
    BY <1>1, RulesStay, HowManyRules
  <2>2. rules' \in Seq(Rules) /\ Len(rules') <= MaxRules
    BY <1>1, <1>2, <2>1 DEF CreateRule
  <2> QED
    BY <1>1, <1>2, <2>2, MoveTypes DEF CreateRule, Moved
<1>3. ASSUME NEW r \in Rules, NEW i \in 1 .. Len(rules), UpdateRule(i, r)
      PROVE  PriceTypes'
  <2>1. ReplaceAt(rules, i, r) \in Seq(Rules) /\ Len(ReplaceAt(rules, i, r)) = Len(rules)
    BY <1>1, RulesStay, HowManyRules
  <2>2. rules' \in Seq(Rules) /\ Len(rules') <= MaxRules
    BY <1>1, <1>3, <2>1 DEF UpdateRule
  <2> QED
    BY <1>1, <1>3, <2>2, MoveTypes DEF UpdateRule, Moved
<1>4. ASSUME NEW i \in 1 .. Len(rules), DeleteRule(i)
      PROVE  PriceTypes'
  <2>1. rules[i] \in Rules
    BY <1>1
  <2>2. RemoveAt(rules, i) \in Seq(Rules) /\ Len(RemoveAt(rules, i)) = Len(rules) - 1
    BY <1>1, <2>1, RulesLeft, HowManyRules
  <2>3. rules' \in Seq(Rules) /\ Len(rules') <= MaxRules
    BY <1>1, <1>4, <2>2 DEF DeleteRule
  <2> QED
    BY <1>1, <1>4, <2>3, MoveTypes DEF DeleteRule, Moved
<1> QED
  BY <1>2, <1>3, <1>4

(* What is asked of the API. *)
LEMMA AskTypes ==
  ASSUME PriceTypes, ShowList \/ ShowPage \/ ReorderLine \/ SubmitOrder
  PROVE  PriceTypes'
<1>1. CASE ShowList \/ ShowPage
  <2>1. PICK w, q : w \in {"list", "active", "all"} /\ Answers(<<w, Who>>, q) /\ page' = q
    <3>1. CASE ShowList
      BY <3>1 DEF ShowList
    <3>2. CASE ShowPage
      BY <3>2 DEF ShowPage
    <3> QED
      BY <1>1, <3>1, <3>2
  <2>2. /\ page' \in Quote /\ row' \in ErpPrices
        /\ DOMAIN quotes' \subseteq QuoteKeys /\ \A x \in DOMAIN quotes' : quotes'[x] \in Quote
    BY <2>1, AnswerType, KeysOfQuotes
  <2>3. priceCauses' \subseteq {"moved", "policy", "nobody", "rounded"}
    BY <1>1 DEF ShowList, ShowPage, PriceTypes, PricesTypeOK
  <2> QED
    BY <1>1, <2>2, <2>3 DEF ShowList, ShowPage, PriceTypes, PricesTypeOK, OwnGiven
<1>2. CASE ReorderLine
  <2> DEFINE k == <<"active", "customer">>
  <2>1. k \in QuoteKeys
    BY DEF QuoteKeys
  <2>2. PICK q : /\ Answers(k, q)
                 /\ line' = [unit |-> Money(q.final), base |-> Money(q.base),
                             own  |-> IF Has(line) THEN line.own ELSE -1,
                             confirmed |-> Has(line) /\ line.confirmed]
                 /\ priceCauses' = IF Money(q.final) # q.final
                                     THEN priceCauses \cup {"rounded"} ELSE priceCauses
    BY <1>2 DEF ReorderLine
  <2> HIDE DEF k
  <2>3. /\ q \in Quote /\ row' \in ErpPrices
        /\ DOMAIN quotes' \subseteq QuoteKeys /\ \A x \in DOMAIN quotes' : quotes'[x] \in Quote
    BY <2>1, <2>2, AnswerType
  <2>4. Money(q.final) \in Nat /\ Money(q.base) \in Nat
    BY <2>3, MoneyFacts DEF Quote
  <2>5. (IF Has(line) THEN line.own ELSE -1) \in OwnPrices \cup {-1}
    BY DEF PriceTypes, OwnGiven, Has
  <2>6. line' \in Line /\ line'.own \in OwnPrices \cup {-1}
    <3>1. (IF Has(line) THEN line.own ELSE -1) \in Nat \cup {-1}
      BY <2>5, PricesAssumption
    <3>2. (Has(line) /\ line.confirmed) \in BOOLEAN
      OBVIOUS
    <3> QED
      BY <2>2, <2>4, <2>5, <3>1, <3>2 DEF Line
  <2>7. priceCauses' \subseteq {"moved", "policy", "nobody", "rounded"}
    BY <2>2 DEF PriceTypes, PricesTypeOK
  <2> QED
    BY <1>2, <2>3, <2>6, <2>7 DEF ReorderLine, PriceTypes, PricesTypeOK, OwnGiven
<1>3. CASE SubmitOrder
  <2> DEFINE k == <<"all", "customer">>
  <2>1. k \in QuoteKeys
    BY DEF QuoteKeys
  <2>2. PICK q : Answers(k, q) /\ outcome' = [verdict |-> Judge(q), own |-> line.own]
    BY <1>3 DEF SubmitOrder
  <2> HIDE DEF k
  <2>3. /\ row' \in ErpPrices
        /\ DOMAIN quotes' \subseteq QuoteKeys /\ \A x \in DOMAIN quotes' : quotes'[x] \in Quote
    BY <2>1, <2>2, AnswerType
  <2>4. Judge(q) \in {"trusted", "override", "refused"}
    BY DEF Judge
  <2>5. line.own \in OwnPrices \cup {-1}
    BY <1>3 DEF SubmitOrder, Has, PriceTypes, OwnGiven
  <2>6. outcome' \in [verdict : {"trusted", "override", "refused"}, own : OwnPrices \cup {-1}]
    BY <2>2, <2>4, <2>5
  <2> QED
    BY <1>3, <2>3, <2>6 DEF SubmitOrder, PriceTypes, PricesTypeOK, OwnGiven
<1> QED
  BY <1>1, <1>2, <1>3

(* The cart's line. *)
LEMMA LineTypes ==
  ASSUME PriceTypes, AddToCartAt \/ ResetPrice \/ \E v \in OwnPrices : GivePrice(v)
  PROVE  PriceTypes'
<1>1. /\ page # None => page \in Quote
      /\ line # None => line \in Line /\ line.own \in OwnPrices \cup {-1}
      /\ OwnPrices \subseteq Nat
  BY PricesAssumption DEF PriceTypes, PricesTypeOK, OwnGiven
<1>2. line' \in Line /\ line'.own \in OwnPrices \cup {-1}
  <2>1. CASE AddToCartAt
    <3>1. page.final \in Nat /\ page.base \in Nat
      BY <1>1, <2>1 DEF AddToCartAt, Has, Quote
    <3>2. (IF Has(line) THEN line.own ELSE -1) \in (OwnPrices \cup {-1}) \cap (Nat \cup {-1})
      BY <1>1 DEF Has
    <3>3. ((Has(line) /\ line.confirmed)
             \/ (buyer.policy.mode = "full" /\ page.final < page.base)) \in BOOLEAN
      OBVIOUS
    <3>4. line' = [unit |-> page.final, base |-> page.base,
              own  |-> IF Has(line) THEN line.own ELSE -1,
              confirmed |-> (Has(line) /\ line.confirmed)
                            \/ (buyer.policy.mode = "full" /\ page.final < page.base)]
      BY <2>1 DEF AddToCartAt
    <3> QED
      BY <3>1, <3>2, <3>3, <3>4 DEF Line
  <2>2. CASE ResetPrice
    BY <1>1, <2>2 DEF ResetPrice, Has, Line
  <2>3. ASSUME NEW v \in OwnPrices, GivePrice(v)
        PROVE  line' \in Line /\ line'.own \in OwnPrices \cup {-1}
    <3>1. /\ line \in Line /\ v \in Nat
          /\ line' = [line EXCEPT !.own = v,
                        !.confirmed = @ \/ (buyer.policy.mode = "full" /\ v < line.base)]
      BY <1>1, <2>3 DEF GivePrice, Has
    <3>2. (line.confirmed \/ (buyer.policy.mode = "full" /\ v < line.base)) \in BOOLEAN
      OBVIOUS
    <3> QED
      BY <3>1, <3>2 DEF Line
  <2> QED
    BY <2>1, <2>2, <2>3
<1>3. /\ UNCHANGED <<erpPrice, row, rules, quotes, buyer, policy, page, outcome, moves>>
      /\ priceCauses' \subseteq {"moved", "policy", "nobody", "rounded"}
  BY DEF AddToCartAt, ResetPrice, GivePrice, PriceTypes, PricesTypeOK
<1> QED
  BY <1>2, <1>3 DEF PriceTypes, PricesTypeOK, OwnGiven

(* Every step. *)
LEMMA NextPriceTypes == PriceTypes /\ [PricesNext]_priceVars => PriceTypes'
<1> SUFFICES ASSUME PriceTypes, [PricesNext]_priceVars
             PROVE  PriceTypes'
  OBVIOUS
<1>1. CASE UNCHANGED priceVars
  BY <1>1 DEF priceVars, PriceTypes, PricesTypeOK, OwnGiven
<1>2. ASSUME NEW p \in ErpPrices, ChangeErpPrice(p)
      PROVE  PriceTypes'
  BY <1>2, MoveTypes DEF ChangeErpPrice, Moved, PriceTypes, PricesTypeOK
<1>3. ASSUME NEW pol \in Policies, ChangePolicy(pol)
      PROVE  PriceTypes'
  BY <1>3, MoveTypes DEF ChangePolicy, PriceTypes, PricesTypeOK
<1>4. CASE SyncRow \/ \E k \in QuoteKeys : QuoteExpires(k)
  BY <1>4 DEF SyncRow, QuoteExpires, PriceTypes, PricesTypeOK, OwnGiven
<1> QED
  BY <1>1, <1>2, <1>3, <1>4, RuleTypes, AskTypes, LineTypes DEF PricesNext

(* Every quote in the caches and on the page is a pair of prices that are  *)
(* numbers, whatever the rules; a line carries a price the user may have   *)
(* given, or none; and the buyer is one of those who may order.            *)
THEOREM PriceTypesKept == PricesSpec => []PricesTypeOK
<1>1. PriceTypes => PricesTypeOK
  BY DEF PriceTypes
<1> QED
  BY <1>1, InitPriceTypes, NextPriceTypes, PTL DEF PricesSpec

-----------------------------------------------------------------------------
(* Reminders: one round sees it through *)

(* Each timer is set for eight of this day or the next, and rounds run     *)
(* after eight.                                                            *)
AlarmsSane ==
  /\ half \in Nat
  /\ DOMAIN server = Servers
  /\ \A s \in Servers :
       /\ DOMAIN server[s] = {"at", "alarm", "left", "order"}
       /\ server[s].at \in {"off", "waiting", "find", "look", "insert"}
       /\ server[s].at = "waiting" =>
            \/ server[s].alarm = Today
            \/ server[s].alarm = Today + 1 /\ ~Morning
       /\ InRound(s) => ~Morning /\ server[s].alarm = Today + 1

(* The orders that were due at eight are still there. *)
ExpectedAreDue ==
  /\ expected \subseteq DueTomorrow
  /\ Morning => expected = {}

(* A round has every order still before it that has no reminder. *)
RoundsComplete ==
  \A s \in Servers : server[s].at \in {"look", "insert"} =>
    \A o \in expected :
      \/ Known(o) \/ o \in server[s].left
      \/ server[s].at = "insert" /\ server[s].order = o

(* A process whose round is to come, or under way and not lost: it is not  *)
(* about to insert a reminder that another has inserted since it looked.   *)
Ready(s) ==
  \/ server[s].at = "waiting" /\ server[s].alarm = Today
  \/ server[s].at \in {"find", "look"}
  \/ server[s].at = "insert" /\ ~Known(server[s].order)

(* Somebody sees the round through. *)
SomebodyIsReady ==
  ~Morning /\ remCauses = {} =>
    (\A o \in expected : Known(o)) \/ \E s \in Servers : Ready(s)

RemInv == AlarmsSane /\ ExpectedAreDue /\ RoundsComplete /\ SomebodyIsReady

(* Halves and days. *)
LEMMA HalfFacts ==
  ASSUME NEW n \in Nat
  PROVE  /\ n \div 2 \in Nat
         /\ n % 2 = 0 => (n + 1) \div 2 = n \div 2 /\ (n + 1) % 2 # 0
         /\ n % 2 # 0 => (n + 1) \div 2 = n \div 2 + 1 /\ (n + 1) % 2 = 0
OBVIOUS

(* The initial state. *)
LEMMA InitReminders == RemInit => RemInv
<1> SUFFICES ASSUME RemInit
             PROVE  RemInv
  OBVIOUS
<1>1. half = 0 /\ Today = 0 /\ Morning /\ expected = {}
  BY DEF RemInit, Today, Morning
<1>2. \A s \in Servers : server[s].at = "waiting" /\ server[s].alarm = 0
  BY DEF RemInit
<1> QED
  BY <1>1, <1>2 DEF RemInit, RemInv, AlarmsSane, ExpectedAreDue, RoundsComplete,
                    SomebodyIsReady, InRound

(* An order comes or goes. *)
LEMMA OrdersKeep ==
  ASSUME RemInv, UNCHANGED <<half, reminders, server, remCauses>>,
         expected' \subseteq expected, expected' \subseteq DueTomorrow'
  PROVE  RemInv'
<1>1. /\ Today' = Today /\ Morning' = Morning /\ \A o : Known(o)' <=> Known(o)
      /\ \A s : (InRound(s)' <=> InRound(s)) /\ (Ready(s)' <=> Ready(s))
  BY DEF Today, Morning, Known, InRound, Ready
<1>2. AlarmsSane' /\ ExpectedAreDue'
  BY <1>1 DEF RemInv, AlarmsSane, ExpectedAreDue
<1>3. RoundsComplete'
  BY <1>1 DEF RemInv, RoundsComplete
<1>4. SomebodyIsReady'
  BY <1>1 DEF RemInv, SomebodyIsReady
<1> QED
  BY <1>2, <1>3, <1>4 DEF RemInv

(* The half of a day ends: at eight, a process that is up is ready. *)
LEMMA PassKeeps ==
  ASSUME RemInv, Pass
  PROVE  RemInv'
<1> USE DEF RemInv
<1>0. /\ half \in Nat /\ half' = half + 1
      /\ UNCHANGED <<due, reminders, server>>
      /\ \A s \in Servers : ~InRound(s)
      /\ \A s \in Servers : server[s].at = "waiting" => Morning \/ server[s].alarm > Today
  BY DEF Pass, AlarmsSane
<1>1. /\ Today \in Nat
      /\ Morning => Today' = Today /\ ~Morning'
      /\ ~Morning => Today' = Today + 1 /\ Morning'
  BY <1>0, HalfFacts DEF Today, Morning
<1>2. \A s \in Servers : server[s].at \in {"off", "waiting"} /\ server'[s] = server[s]
                           /\ ~InRound(s)'
  BY <1>0 DEF AlarmsSane, InRound
<1>3. \A s \in Servers : server[s].at = "waiting" => server[s].alarm = Today'
  BY <1>0, <1>1 DEF AlarmsSane
<1>4. AlarmsSane'
  BY <1>0, <1>2, <1>3 DEF AlarmsSane
<1>5. expected' = IF Morning THEN DueTomorrow ELSE {}
  BY DEF Pass
<1>6. ExpectedAreDue'
  <2>1. Morning => DueTomorrow' = DueTomorrow
    BY <1>0, <1>1 DEF DueTomorrow
  <2> QED
    BY <1>1, <1>5, <2>1 DEF ExpectedAreDue
<1>7. RoundsComplete'
  BY <1>2 DEF RoundsComplete
<1>8. SomebodyIsReady'
  <2> SUFFICES ASSUME ~Morning', remCauses' = {}
               PROVE  \E s \in Servers : Ready(s)'
    BY DEF SomebodyIsReady
  <2>1. Morning
    BY <1>1
  <2>2. ~ \A s \in Servers : server[s].at = "off"
    BY <2>1 DEF Pass
  <2>3. PICK s \in Servers : server[s].at = "waiting"
    BY <1>2, <2>2
  <2> QED
    BY <1>2, <1>3, <2>3 DEF Ready
<1> QED
  BY <1>4, <1>6, <1>7, <1>8

(* Each step of a process leaves the day and the orders alone. *)
DayStays == UNCHANGED <<half, due, expected>>

(* What it leaves alone with them. *)
LEMMA DayFacts ==
  ASSUME RemInv, DayStays
  PROVE  /\ Today' = Today /\ Morning' = Morning /\ Today \in Nat
         /\ ExpectedAreDue'
         /\ reminders' = reminders => \A o : Known(o)' <=> Known(o)
<1>1. Today' = Today /\ Morning' = Morning /\ Today \in Nat
  BY HalfFacts DEF DayStays, Today, Morning, RemInv, AlarmsSane
<1>2. DueTomorrow' = DueTomorrow
  BY <1>1 DEF DayStays, DueTomorrow
<1> QED
  BY <1>1, <1>2 DEF DayStays, RemInv, ExpectedAreDue, Known

(* One process takes a step, and no reminder is inserted. *)
LEMMA ServerKeeps ==
  ASSUME RemInv, DayStays, reminders' = reminders, remCauses \subseteq remCauses',
         NEW s \in Servers, NEW r, server' = [server EXCEPT ![s] = r],
         DOMAIN r = {"at", "alarm", "left", "order"},
         r.at \in {"off", "waiting", "find", "look", "insert"},
         r.at = "waiting" => \/ r.alarm = Today
                             \/ r.alarm = Today + 1 /\ ~Morning,
         r.at \in {"find", "look", "insert"} => ~Morning /\ r.alarm = Today + 1,
         r.at \in {"look", "insert"} =>
           \A o \in expected : \/ Known(o) \/ o \in r.left
                               \/ r.at = "insert" /\ r.order = o,
         remCauses' = {} /\ Ready(s) =>
           \/ r.at = "waiting" /\ r.alarm = Today
           \/ r.at \in {"find", "look"}
           \/ r.at = "insert" /\ ~Known(r.order)
           \/ \A o \in expected : Known(o)
  PROVE  RemInv'
<1> USE DEF RemInv
<1>1. /\ server'[s] = r /\ DOMAIN server' = Servers
      /\ \A t \in Servers : t # s => server'[t] = server[t]
  BY DEF AlarmsSane
<1>2. /\ Today' = Today /\ Morning' = Morning /\ ExpectedAreDue'
      /\ \A o : Known(o)' <=> Known(o)
  BY DayFacts
<1>3. \A t \in Servers : t # s => (InRound(t)' <=> InRound(t)) /\ (Ready(t)' <=> Ready(t))
  BY <1>1, <1>2 DEF InRound, Ready
<1>4. AlarmsSane'
  <2>1. half' = half
    BY DEF DayStays
  <2> QED
    BY <1>1, <1>2, <1>3, <2>1 DEF AlarmsSane, InRound
<1>5. RoundsComplete'
  BY <1>1, <1>2 DEF RoundsComplete, DayStays
<1>6. SomebodyIsReady'
  <2> SUFFICES ASSUME ~Morning, remCauses' = {}, ~ \A o \in expected : Known(o)
               PROVE  \E t \in Servers : Ready(t)'
    BY <1>2 DEF SomebodyIsReady, DayStays
  <2>1. PICK t \in Servers : Ready(t)
    BY DEF SomebodyIsReady
  <2>2. t = s => Ready(s)'
    BY <1>1, <1>2, <2>1 DEF Ready
  <2> QED
    BY <1>3, <2>1, <2>2
<1> QED
  BY <1>2, <1>4, <1>5, <1>6

(* The round of a process begins, and takes the orders due tomorrow. *)
LEMMA BeginKeeps ==
  ASSUME RemInv, NEW s \in Servers, Fire(s) \/ FindOrders(s)
  PROVE  RemInv'
<1>0. DayStays /\ UNCHANGED <<reminders, remCauses>>
  BY DEF Fire, FindOrders, DayStays
<1>1. CASE Fire(s)
  <2> DEFINE r == [server[s] EXCEPT !.at = "find", !.alarm = Today + 1]
  <2>1. server' = [server EXCEPT ![s] = r]
    BY <1>1 DEF Fire
  <2>2. DOMAIN r = {"at", "alarm", "left", "order"} /\ r.at = "find" /\ r.alarm = Today + 1
    BY DEF RemInv, AlarmsSane
  <2>3. ~Morning
    BY <1>1 DEF Fire
  <2> HIDE DEF r
  <2> QED
    BY <1>0, <2>1, <2>2, <2>3, ServerKeeps
<1>2. CASE FindOrders(s)
  <2> DEFINE r == [server[s] EXCEPT !.at = "look", !.left = DueTomorrow]
  <2>1. server' = [server EXCEPT ![s] = r]
    BY <1>2 DEF FindOrders
  <2>2. DOMAIN r = {"at", "alarm", "left", "order"} /\ r.at = "look"
        /\ r.alarm = server[s].alarm /\ r.left = DueTomorrow
    BY DEF RemInv, AlarmsSane
  <2>3. ~Morning /\ server[s].alarm = Today + 1
    BY <1>2 DEF FindOrders, RemInv, AlarmsSane, InRound
  <2>4. expected \subseteq r.left
    BY <2>2 DEF RemInv, ExpectedAreDue
  <2> HIDE DEF r
  <2> QED
    BY <1>0, <2>1, <2>2, <2>3, <2>4, ServerKeeps
<1> QED
  BY <1>1, <1>2

(* A process looks for the reminder of one order. *)
LEMMA LookKeeps ==
  ASSUME RemInv, NEW s \in Servers, NEW o, Look(s, o)
  PROVE  RemInv'
<1> DEFINE r == [server[s] EXCEPT !.left = @ \ {o},
                                  !.at = IF Known(o) THEN "look" ELSE "insert",
                                  !.order = o]
<1>0. DayStays /\ UNCHANGED <<reminders, remCauses>>
  BY DEF Look, DayStays
<1>1. server' = [server EXCEPT ![s] = r]
  BY DEF Look
<1>2. /\ DOMAIN r = {"at", "alarm", "left", "order"} /\ r.alarm = server[s].alarm
      /\ r.left = server[s].left \ {o} /\ r.order = o
      /\ r.at = IF Known(o) THEN "look" ELSE "insert"
  BY DEF RemInv, AlarmsSane
<1>3. server[s].at = "look" /\ ~Morning /\ server[s].alarm = Today + 1
  BY DEF Look, RemInv, AlarmsSane, InRound
<1>4. \A x \in expected : Known(x) \/ x \in server[s].left
  BY <1>3 DEF RemInv, RoundsComplete
<1> HIDE DEF r
<1>5. \A x \in expected : Known(x) \/ x \in r.left \/ (r.at = "insert" /\ r.order = x)
  BY <1>2, <1>4
<1> QED
  BY <1>0, <1>1, <1>2, <1>3, <1>5, ServerKeeps

(* A round ends: it is over, lost to another, or cut off. *)
LEMMA EndKeeps ==
  ASSUME RemInv, NEW s \in Servers,
         \/ EndRound(s)
         \/ InsertReminder(s) /\ Known(server[s].order)
         \/ RoundFails(s)
  PROVE  RemInv'
<1>0. DayStays /\ reminders' = reminders /\ remCauses \subseteq remCauses'
  BY DEF EndRound, InsertReminder, RoundFails, DayStays
<1>1. PICK r :
        /\ server' = [server EXCEPT ![s] = r]
        /\ DOMAIN r = {"at", "alarm", "left", "order"}
        /\ r.at = "waiting" /\ r.alarm = server[s].alarm
  <2>1. CASE EndRound(s)
    <3> DEFINE r == [server[s] EXCEPT !.at = "waiting"]
    <3>1. server' = [server EXCEPT ![s] = r]
      BY <2>1 DEF EndRound
    <3>2. DOMAIN r = {"at", "alarm", "left", "order"}
          /\ r.at = "waiting" /\ r.alarm = server[s].alarm
      BY DEF RemInv, AlarmsSane
    <3> QED
      BY <3>1, <3>2
  <2>2. CASE RoundFails(s) \/ (InsertReminder(s) /\ Known(server[s].order))
    <3> DEFINE r == [server[s] EXCEPT !.at = "waiting", !.left = {}]
    <3>1. server' = [server EXCEPT ![s] = r]
      BY <2>2 DEF InsertReminder, RoundFails
    <3>2. DOMAIN r = {"at", "alarm", "left", "order"}
          /\ r.at = "waiting" /\ r.alarm = server[s].alarm
      BY DEF RemInv, AlarmsSane
    <3> QED
      BY <3>1, <3>2
  <2> QED
    BY <2>1, <2>2
<1>2. InRound(s)
  BY DEF EndRound, InsertReminder, RoundFails, InRound
<1>3. ~Morning /\ server[s].alarm = Today + 1
  BY <1>2 DEF RemInv, AlarmsSane
<1>4. remCauses' = {} /\ Ready(s) => \A o \in expected : Known(o)
  <2>1. CASE EndRound(s)
    BY <2>1 DEF EndRound, RemInv, RoundsComplete
  <2>2. CASE InsertReminder(s) /\ Known(server[s].order)
    BY <2>2 DEF InsertReminder, Ready
  <2>3. CASE RoundFails(s)
    BY <2>3 DEF RoundFails
  <2> QED
    BY <2>1, <2>2, <2>3
<1> QED
  BY <1>0, <1>1, <1>3, <1>4, ServerKeeps

(* A process stops or starts. *)
LEMMA RestartKeeps ==
  ASSUME RemInv, NEW s \in Servers, StopServer(s) \/ StartServer(s)
  PROVE  RemInv'
<1>0. DayStays /\ reminders' = reminders /\ remCauses \subseteq remCauses'
  BY DEF StopServer, StartServer, DayStays
<1>1. CASE StopServer(s)
  <2> DEFINE r == [server[s] EXCEPT !.at = "off", !.left = {}]
  <2>1. server' = [server EXCEPT ![s] = r]
    BY <1>1 DEF StopServer
  <2>2. DOMAIN r = {"at", "alarm", "left", "order"} /\ r.at = "off"
    BY DEF RemInv, AlarmsSane
  <2> HIDE DEF r
  <2>3. ASSUME remCauses' = {}, Ready(s), ~Morning
        PROVE  FALSE
    <3>1. ~InRound(s) /\ server[s].alarm # Today
      BY <1>1, <2>3 DEF StopServer
    <3> QED
      BY <2>3, <3>1 DEF Ready, InRound
  <2>4. ASSUME Morning
        PROVE  RemInv'
    <3>1. AlarmsSane' /\ RoundsComplete' /\ ExpectedAreDue' /\ SomebodyIsReady'
      <4>1. /\ server'[s] = r /\ DOMAIN server' = Servers
            /\ \A t \in Servers : t # s => server'[t] = server[t]
        BY <2>1 DEF RemInv, AlarmsSane
      <4>2. Today' = Today /\ Morning' = Morning /\ ExpectedAreDue' /\ half' = half
            /\ expected = {} /\ expected' = expected
        BY <1>0, <2>4, DayFacts DEF DayStays, RemInv, ExpectedAreDue
      <4>3. AlarmsSane'
        BY <2>2, <4>1, <4>2 DEF RemInv, AlarmsSane, InRound
      <4> QED
        BY <2>4, <4>2, <4>3 DEF RoundsComplete, SomebodyIsReady
    <3> QED
      BY <3>1 DEF RemInv
  <2>5. ASSUME ~Morning
        PROVE  RemInv'
    BY <1>0, <2>1, <2>2, <2>3, <2>5, ServerKeeps
  <2> QED
    BY <2>4, <2>5
<1>2. CASE StartServer(s)
  <2> DEFINE r == [server[s] EXCEPT !.at = "waiting", !.alarm = NextAlarm]
  <2>1. server' = [server EXCEPT ![s] = r]
    BY <1>2 DEF StartServer
  <2>2. DOMAIN r = {"at", "alarm", "left", "order"} /\ r.at = "waiting" /\ r.alarm = NextAlarm
    BY DEF RemInv, AlarmsSane
  <2>3. NextAlarm = Today \/ (NextAlarm = Today + 1 /\ ~Morning)
    BY DEF NextAlarm
  <2>4. ~Ready(s)
    BY <1>2 DEF StartServer, Ready
  <2> HIDE DEF r
  <2> QED
    BY <1>0, <2>1, <2>2, <2>3, <2>4, ServerKeeps
<1> QED
  BY <1>1, <1>2

(* A reminder is inserted: those about to insert the same one have lost,   *)
(* and the one who did it has all the others still before it.              *)
LEMMA InsertKeeps ==
  ASSUME RemInv, NEW s \in Servers, InsertReminder(s), ~Known(server[s].order)
  PROVE  RemInv'
<1> USE DEF RemInv
<1> DEFINE r == [server[s] EXCEPT !.at = "look"]
<1>0. DayStays /\ remCauses' = remCauses /\ server[s].at = "insert"
      /\ reminders' = reminders \cup {[order |-> server[s].order, day |-> Today + 1]}
  BY DEF InsertReminder, DayStays
<1>1. server' = [server EXCEPT ![s] = r]
  BY DEF InsertReminder
<1>2. DOMAIN r = {"at", "alarm", "left", "order"} /\ r.at = "look"
      /\ r.alarm = server[s].alarm /\ r.left = server[s].left
  BY DEF AlarmsSane
<1> HIDE DEF r
<1>3. /\ server'[s] = r /\ DOMAIN server' = Servers
      /\ \A t \in Servers : t # s => server'[t] = server[t]
  BY <1>1 DEF AlarmsSane
<1>4. Today' = Today /\ Morning' = Morning /\ ExpectedAreDue' /\ half' = half
      /\ expected' = expected
  BY <1>0, DayFacts DEF DayStays
<1>5. /\ \A o : Known(o) => Known(o)'
      /\ \A o : o = server[s].order => Known(o)'
  <2> DEFINE new == [order |-> server[s].order, day |-> Today + 1]
  <2>1. new.order = server[s].order /\ new.day = Today' + 1 /\ new \in reminders'
    BY <1>0, <1>4
  <2>2. reminders \subseteq reminders'
    BY <1>0
  <2> HIDE DEF new
  <2> QED
    BY <1>4, <2>1, <2>2 DEF Known
<1>6. AlarmsSane'
  BY <1>0, <1>2, <1>3, <1>4 DEF AlarmsSane, InRound
<1>7. RoundsComplete'
  <2> SUFFICES ASSUME NEW t \in Servers, server'[t].at \in {"look", "insert"},
                      NEW o \in expected
               PROVE  \/ Known(o)' \/ o \in server'[t].left
                      \/ server'[t].at = "insert" /\ server'[t].order = o
    BY <1>4 DEF RoundsComplete
  <2>1. CASE t = s
    BY <1>0, <1>2, <1>3, <1>5, <2>1 DEF RoundsComplete
  <2>2. CASE t # s
    BY <1>3, <1>5, <2>2 DEF RoundsComplete
  <2> QED
    BY <2>1, <2>2
<1>8. SomebodyIsReady'
  <2>1. Ready(s)'
    BY <1>2, <1>3 DEF Ready
  <2> QED
    BY <2>1 DEF SomebodyIsReady
<1> QED
  BY <1>4, <1>6, <1>7, <1>8

(* No step takes the invariant away. *)
LEMMA NextReminders == RemInv /\ [RemNext]_remVars => RemInv'
<1> SUFFICES ASSUME RemInv, [RemNext]_remVars
             PROVE  RemInv'
  OBVIOUS
<1>1. CASE Pass
  BY <1>1, PassKeeps
<1>2. ASSUME NEW o \in Deliveries, NEW d \in Days, PlaceOrder(o, d)
      PROVE  RemInv'
  <2>1. expected \subseteq DueTomorrow /\ o \notin DueTomorrow
    BY <1>2 DEF PlaceOrder, RemInv, ExpectedAreDue, DueTomorrow
  <2>2. DueTomorrow \subseteq DueTomorrow'
    BY <1>2 DEF PlaceOrder, DueTomorrow, Today
  <2> QED
    BY <1>2, <2>1, <2>2, OrdersKeep DEF PlaceOrder
<1>3. ASSUME NEW o \in Deliveries, RemoveOrder(o)
      PROVE  RemInv'
  <2>1. expected' = expected \ {o} /\ expected \subseteq DueTomorrow
    BY <1>3 DEF RemoveOrder, RemInv, ExpectedAreDue
  <2>2. DueTomorrow \ {o} \subseteq DueTomorrow'
    BY <1>3 DEF RemoveOrder, DueTomorrow, Today
  <2> QED
    BY <1>3, <2>1, <2>2, OrdersKeep DEF RemoveOrder
<1>4. ASSUME NEW s \in Servers, \/ Fire(s) \/ FindOrders(s) \/ InsertReminder(s) \/ EndRound(s)
                                \/ RoundFails(s) \/ StopServer(s) \/ StartServer(s)
                                \/ \E o \in Deliveries : Look(s, o)
      PROVE  RemInv'
  BY <1>4, BeginKeeps, InsertKeeps, EndKeeps, RestartKeeps, LookKeeps
<1>5. CASE UNCHANGED remVars
  <2>1. expected' \subseteq DueTomorrow'
    BY <1>5 DEF remVars, RemInv, ExpectedAreDue, DueTomorrow, Today
  <2> QED
    BY <1>5, <2>1, OrdersKeep DEF remVars
<1> QED
  BY <1>1, <1>2, <1>3, <1>4, <1>5 DEF RemNext

(* For any number of API processes and orders: when the rounds of a day    *)
(* are over, each order due at eight has its reminder, unless a round      *)
(* failed or stopped or no process was up at eight.                        *)
THEOREM AllAreReminded == RemSpec => []DeliveriesAreReminded
<1>1. RemInv => DeliveriesAreReminded
  <2> SUFFICES ASSUME RemInv, ~Morning, RoundsAreOver, remCauses = {},
                      ~ \A o \in expected : Known(o)
               PROVE  FALSE
    BY DEF DeliveriesAreReminded
  <2>1. PICK s \in Servers : Ready(s)
    BY DEF RemInv, SomebodyIsReady
  <2>2. Today \in Nat
    BY HalfFacts DEF RemInv, AlarmsSane, Today
  <2>3. server[s].at = "waiting" /\ server[s].alarm = Today
    BY <2>1 DEF Ready, RoundsAreOver, InRound
  <2> QED
    BY <2>2, <2>3 DEF RoundsAreOver
<1> QED
  BY <1>1, InitReminders, NextReminders, PTL DEF RemSpec

-----------------------------------------------------------------------------
(* Reminders: the shape of the state *)

(* The days of the orders reach past the last half. *)
LEMMA TodayIsADay ==
  ASSUME half \in Halves
  PROVE  Today \in Nat /\ Today \in Days /\ Today + 1 \in Days
BY RemindersAssumption DEF Halves, Today, Days

(* The orders due the next day are orders. *)
LEMMA DueAreOrders ==
  ASSUME due \in Dues
  PROVE  DueTomorrow \subseteq Deliveries
BY DEF Dues, DueTomorrow

(* Orders come and go. *)
LEMMA DuesType ==
  ASSUME due \in Dues, NEW o \in Deliveries
  PROVE  /\ RemoveOrder(o) => due' \in Dues
         /\ \A d \in Days : PlaceOrder(o, d) => due' \in Dues
<1>1. PICK os \in SUBSET Deliveries : due \in [os -> Days]
  BY DEF Dues
<1>2. ASSUME RemoveOrder(o)
      PROVE  due' \in Dues
  <2>1. due' \in [os \ {o} -> Days] /\ os \ {o} \in SUBSET Deliveries
    BY <1>1, <1>2 DEF RemoveOrder
  <2> QED
    BY <2>1 DEF Dues
<1>3. ASSUME NEW d \in Days, PlaceOrder(o, d)
      PROVE  due' \in Dues
  <2>1. due' \in [os \cup {o} -> Days] /\ os \cup {o} \in SUBSET Deliveries
    BY <1>1, <1>3 DEF PlaceOrder
  <2> QED
    BY <2>1 DEF Dues
<1> QED
  BY <1>2, <1>3

(* A process's step. *)
LEMMA ServerTypes ==
  ASSUME RemTypeOK, NEW s \in Servers
  PROVE  /\ Fire(s) \/ FindOrders(s) \/ InsertReminder(s) \/ EndRound(s) \/ RoundFails(s)
              \/ StopServer(s) \/ StartServer(s) => RemTypeOK'
         /\ \A o \in Deliveries : Look(s, o) => RemTypeOK'
<1>1. /\ server \in [Servers -> Server] /\ server[s] \in Server /\ half \in Halves /\ due \in Dues
      /\ reminders \subseteq Reminder /\ expected \subseteq Deliveries
      /\ remCauses \subseteq {"down", "failed", "stopped"}
  BY DEF RemTypeOK
<1>2. Today \in Nat /\ Today + 1 \in Nat /\ Today + 1 \in Days /\ DueTomorrow \subseteq Deliveries
  BY <1>1, TodayIsADay, DueAreOrders
<1>3. ASSUME NEW x \in Server, server' = [server EXCEPT ![s] = x]
      PROVE  server' \in [Servers -> Server]
  BY <1>1, <1>3
<1>4. Fire(s) \/ FindOrders(s) \/ InsertReminder(s) \/ EndRound(s) \/ RoundFails(s)
        \/ StopServer(s) \/ StartServer(s) => server' \in [Servers -> Server]
  <2> USE <1>1, <1>2 DEF Server
  <2>1. Fire(s) => server' \in [Servers -> Server]
    BY DEF Fire
  <2>2. FindOrders(s) => server' \in [Servers -> Server]
    <3>1. [server[s] EXCEPT !.at = "look", !.left = DueTomorrow] \in Server
      OBVIOUS
    <3> QED
      BY <1>3, <3>1 DEF FindOrders
  <2>3. InsertReminder(s) => server' \in [Servers -> Server]
    BY DEF InsertReminder
  <2>4. EndRound(s) \/ RoundFails(s) \/ StopServer(s) => server' \in [Servers -> Server]
    BY DEF EndRound, RoundFails, StopServer
  <2>5. StartServer(s) => server' \in [Servers -> Server]
    <3>1. NextAlarm \in Nat
      BY DEF NextAlarm
    <3>2. [server[s] EXCEPT !.at = "waiting", !.alarm = NextAlarm] \in Server
      BY <3>1
    <3> QED
      BY <1>3, <3>2 DEF StartServer
  <2> QED
    BY <2>1, <2>2, <2>3, <2>4, <2>5
<1>5. ASSUME NEW o \in Deliveries, Look(s, o)
      PROVE  RemTypeOK'
  <2>1. server' \in [Servers -> Server]
    BY <1>1, <1>5 DEF Look, Server
  <2> QED
    BY <1>1, <1>5, <2>1 DEF Look, RemTypeOK
<1>6. Fire(s) \/ FindOrders(s) \/ InsertReminder(s) \/ EndRound(s) \/ RoundFails(s)
        \/ StopServer(s) \/ StartServer(s) =>
          /\ UNCHANGED <<half, due, expected>> /\ reminders' \subseteq Reminder
          /\ remCauses' \subseteq {"down", "failed", "stopped"}
  <2>1. [order |-> server[s].order, day |-> Today + 1] \in Reminder
    BY <1>1, <1>2 DEF Reminder, Server
  <2> QED
    BY <1>1, <2>1 DEF Fire, FindOrders, InsertReminder, EndRound, RoundFails, StopServer, StartServer
<1> QED
  BY <1>1, <1>4, <1>5, <1>6 DEF RemTypeOK

(* Every step. *)
LEMMA NextRemTypes == RemTypeOK /\ [RemNext]_remVars => RemTypeOK'
<1> SUFFICES ASSUME RemTypeOK, [RemNext]_remVars
             PROVE  RemTypeOK'
  OBVIOUS
<1>1. CASE UNCHANGED remVars
  BY <1>1 DEF remVars, RemTypeOK
<1>2. CASE Pass
  <2>1. half' \in Halves
    BY <1>2, RemindersAssumption DEF Pass, RemTypeOK, Halves
  <2>2. DueTomorrow \subseteq Deliveries
    BY DueAreOrders DEF RemTypeOK
  <2> QED
    BY <1>2, <2>1, <2>2 DEF Pass, RemTypeOK
<1>3. ASSUME NEW o \in Deliveries, RemoveOrder(o) \/ \E d \in Days : PlaceOrder(o, d)
      PROVE  RemTypeOK'
  <2>1. due' \in Dues
    BY <1>3, DuesType DEF RemTypeOK
  <2> QED
    BY <1>3, <2>1 DEF RemoveOrder, PlaceOrder, RemTypeOK
<1> QED
  BY <1>1, <1>2, <1>3, ServerTypes DEF RemNext

(* A process is off, waits, or is in its round, with orders that exist; a  *)
(* reminder's day is within the days there are: notifications service.     *)
THEOREM ReminderTypesKept == RemSpec => []RemTypeOK
<1>1. RemInit => RemTypeOK
  <2> SUFFICES ASSUME RemInit
               PROVE  RemTypeOK
    OBVIOUS
  <2>1. (CHOOSE o \in Deliveries : TRUE) \in Deliveries
    BY RemindersAssumption
  <2>2. server \in [Servers -> Server]
    BY <2>1 DEF RemInit, Server
  <2>3. due \in [{} -> Days]
    BY DEF RemInit
  <2>4. due \in Dues
    BY <2>3 DEF Dues
  <2>5. half \in Halves
    BY RemindersAssumption DEF RemInit, Halves
  <2> QED
    BY <2>2, <2>4, <2>5 DEF RemInit, RemTypeOK
<1> QED
  BY <1>1, NextRemTypes, PTL DEF RemSpec

-----------------------------------------------------------------------------
(* Products: shapes *)

VisitFields == {"at", "about", "from", "ids", "seen", "shop"}

IsRow(r) ==
  /\ DOMAIN r = {"version", "active", "syncedAt"}
  /\ r.active \in BOOLEAN
  /\ r.syncedAt \in 0 .. time

(* The requests and the rows are records, and no row is from the future. *)
CatSane ==
  /\ time \in 0 .. MaxTime
  /\ category \in BOOLEAN
  /\ DOMAIN visit = Visits
  /\ \A v \in Visits : /\ DOMAIN visit[v] = VisitFields
                       /\ visit[v].from \in {"query", "pageErp", "pageUpsert"}
  /\ \A p \in DOMAIN rows : IsRow(rows[p])

(* One request takes a step, and leaves a record. *)
StepOf(v) ==
  /\ DOMAIN visit' = Visits
  /\ \A w \in Visits \ {v} : visit'[w] = visit[w]
  /\ DOMAIN visit'[v] = VisitFields
  /\ visit'[v].from \in {"query", "pageErp", "pageUpsert"}

(* Rows come, are rewritten or are left alone; none shows what was hidden. *)
RowsGrow ==
  /\ DOMAIN rows \subseteq DOMAIN rows'
  /\ \A p \in DOMAIN rows' : IsRow(rows'[p])
  /\ \A p \in DOMAIN rows : /\ rows'[p].active = rows[p].active
                            /\ rows'[p].syncedAt \in rows[p].syncedAt .. time
  /\ \A p \in DOMAIN rows' \ DOMAIN rows : rows'[p].active

(* A request goes on to another stage. *)
LEMMA MoveFacts ==
  ASSUME CatSane, NEW v \in Visits, NEW stage, Move(v, stage)
  PROVE  /\ StepOf(v) /\ visit'[v].at = stage
         /\ visit'[v].about = visit[v].about /\ visit'[v].from = visit[v].from
         /\ visit'[v].ids = visit[v].ids /\ visit'[v].shop = visit[v].shop
         /\ visit'[v].seen = visit[v].seen
BY DEF CatSane, Move, StepOf, VisitFields

(* The rows stay as they are. *)
LEMMA SameRows ==
  ASSUME CatSane, rows' = rows
  PROVE  RowsGrow
BY DEF CatSane, IsRow, RowsGrow

(* Every step but an administrator's keeps the flags. *)
LEMMA RowSteps ==
  ASSUME CatSane, NEW v \in Visits, NEW p,
         UpdateRow(v, p) \/ CreateRow(v, p) \/ PageUpsert(v)
  PROVE  RowsGrow
<1>1. CASE UpdateRow(v, p)
  <2>1. /\ DOMAIN rows' = DOMAIN rows
        /\ \A q \in DOMAIN rows : q # p => rows'[q] = rows[q]
    BY <1>1 DEF UpdateRow
  <2>2. ASSUME p \in DOMAIN rows
        PROVE  /\ DOMAIN rows'[p] = {"version", "active", "syncedAt"}
               /\ rows'[p].active = rows[p].active /\ rows'[p].syncedAt = time
    BY <1>1, <2>2 DEF UpdateRow, CatSane, IsRow
  <2> QED
    BY <2>1, <2>2 DEF RowsGrow, CatSane, IsRow
<1>2. CASE CreateRow(v, p)
  <2>1. /\ DOMAIN rows' = DOMAIN rows \cup {p}
        /\ \A q \in DOMAIN rows : rows'[q] = rows[q]
    BY <1>2 DEF CreateRow
  <2>2. ASSUME p \notin DOMAIN rows
        PROVE  /\ DOMAIN rows'[p] = {"version", "active", "syncedAt"}
               /\ rows'[p].active = TRUE /\ rows'[p].syncedAt = time
               /\ rows'[p].active \in BOOLEAN
    BY <1>2, <2>2 DEF CreateRow
  <2>3. time \in Nat /\ \A q \in DOMAIN rows : IsRow(rows[q])
    BY CatalogAssumption DEF CatSane
  <2>4. p \notin DOMAIN rows => IsRow(rows'[p])
    BY <2>2, <2>3 DEF IsRow
  <2>5. \A q \in DOMAIN rows : rows[q].syncedAt \in rows[q].syncedAt .. time
    BY <2>3 DEF IsRow
  <2> QED
    BY <2>1, <2>2, <2>3, <2>4, <2>5 DEF RowsGrow
<1>3. CASE PageUpsert(v)
  <2> DEFINE a == visit[v].about
  <2>1. /\ DOMAIN rows' = DOMAIN rows \cup {a}
        /\ \A q \in DOMAIN rows : q # a => rows'[q] = rows[q]
        /\ rows'[a].active = (~Hidden(a)) /\ rows'[a].syncedAt = time
        /\ DOMAIN rows'[a] = {"version", "active", "syncedAt"}
    BY <1>3 DEF PageUpsert
  <2>2. a \in DOMAIN rows => (~Hidden(a)) = rows[a].active
    BY DEF Hidden, CatSane, IsRow
  <2>3. (~Hidden(a)) \in BOOLEAN /\ (a \notin DOMAIN rows => ~Hidden(a))
    BY DEF Hidden
  <2> HIDE DEF a
  <2>4. time \in Nat /\ \A q \in DOMAIN rows : IsRow(rows[q])
    BY CatalogAssumption DEF CatSane
  <2>5. IsRow(rows'[a])
    BY <2>1, <2>3, <2>4 DEF IsRow
  <2>6. \A q \in DOMAIN rows : rows[q].syncedAt \in rows[q].syncedAt .. time
                              /\ time \in rows[q].syncedAt .. time
    BY <2>4 DEF IsRow
  <2>7. \A q \in DOMAIN rows : rows'[q].active = rows[q].active
    BY <2>1, <2>2
  <2>8. a \notin DOMAIN rows => rows'[a].active
    BY <2>1, <2>3
  <2> QED
    BY <2>1, <2>4, <2>5, <2>6, <2>7, <2>8 DEF RowsGrow
<1> QED
  BY <1>1, <1>2, <1>3

(* While rows only grow, what is hidden is the same, and what is visible   *)
(* stays visible.                                                          *)
LEMMA FlagsStay ==
  ASSUME CatSane, RowsGrow
  PROVE  /\ \A p : Hidden(p)' <=> Hidden(p)
         /\ category' = category => \A p : Visible(p) => Visible(p)'
BY DEF CatSane, RowsGrow, Hidden, Visible

(* The steps of a sync, and where they lead. *)
LEMMA SyncFacts ==
  ASSUME CatSane, NEW v \in Visits, SyncStep(v)
  PROVE  /\ StepOf(v) /\ RowsGrow
         /\ UNCHANGED <<time, category, pageCache, article>>
         /\ idsCache' \subseteq idsCache /\ shopCache' \subseteq shopCache
         /\ catCauses \subseteq catCauses'
         /\ ("lateFill" \in catCauses' <=> "lateFill" \in catCauses)
         /\ ("flushLost" \in catCauses' <=> "flushLost" \in catCauses)
         /\ visit[v].at \in {"categories", "load", "since", "write", "flush"}
         /\ visit'[v].at \in {"load", "write", "flush", "done"}
<1>1. CASE SyncCategories(v) \/ EndWrites(v) \/ FlushShop(v)
  BY <1>1, MoveFacts, SameRows DEF SyncCategories, EndWrites, FlushShop
<1>2. CASE LoadAll(v) \/ LoadDelta(v)
  <2>1. PICK ids : LoadProducts(v, ids)
    BY <1>2 DEF LoadAll, LoadDelta
  <2>2. StepOf(v) /\ visit'[v].at = "write"
    BY <2>1 DEF LoadProducts, CatSane, StepOf, VisitFields
  <2> QED
    BY <1>2, <2>2, SameRows DEF LoadAll, LoadDelta
<1>3. CASE \E p \in Products : FindRow(v, p)
  <2>1. StepOf(v) /\ visit'[v].at = "write"
    BY <1>3 DEF FindRow, CatSane, StepOf, VisitFields
  <2> QED
    BY <1>3, <2>1, SameRows DEF FindRow
<1>4. CASE \E p \in Products : UpdateRow(v, p) \/ CreateRow(v, p) \/ RowFails(v, p)
  <2>1. PICK p \in Products : UpdateRow(v, p) \/ CreateRow(v, p) \/ RowFails(v, p)
    BY <1>4
  <2>2. StepOf(v) /\ visit'[v].at = "write"
    BY <2>1 DEF UpdateRow, CreateRow, RowFails, Handled, CatSane, StepOf, VisitFields
  <2>3. RowsGrow
    BY <2>1, RowSteps, SameRows DEF RowFails
  <2> QED
    BY <2>1, <2>2, <2>3 DEF UpdateRow, CreateRow, RowFails
<1> QED
  BY <1>1, <1>2, <1>3, <1>4 DEF SyncStep

-----------------------------------------------------------------------------
(* Products: hidden products leave the shop *)

(* A request for a product page that has looked at the row, or its absence. *)
PageReader(x) ==
  \/ x.at \in {"page", "pageErp", "pageUpsert", "pageKeep"}
  \/ x.at \in {"ids", "idsQuery", "idsKeep"} /\ x.from # "query"

(* What a reader has in hand is what it would read now. *)
Fresh(x) ==
  /\ x.at \in {"idsKeep", "query"} => x.ids = category
  /\ x.at = "keep" => \A p \in x.shop : Visible(p)
  /\ PageReader(x) => ~Hidden(x.about)

NoLateFill == catCauses \cap {"lateFill", "flushLost"} = {}

(* The cached flag is the category's, unless its flush is still to come. *)
IdsFresh == (\E v \in Visits : visit[v].at = "catFlush") \/ idsCache \subseteq {category}

ShopInv ==
  /\ CatSane
  /\ NoLateFill => IdsFresh /\ \A v \in Visits : Fresh(visit[v])
  /\ HiddenLeavesTheShop

(* A request that is not about to clear caches takes a step that changes   *)
(* no flag, has in hand what it would read now, and caches nothing else.   *)
LEMMA ReaderKeeps ==
  ASSUME ShopInv, NEW v \in Visits, StepOf(v), RowsGrow, UNCHANGED <<time, category>>,
         NoLateFill' =>
           /\ NoLateFill
           /\ visit[v].at \notin {"flagFlush", "catFlush"}
           /\ Fresh(visit[v])'
           /\ idsCache' \subseteq idsCache \cup {category}
           /\ \A p \in pageCache' : p \in pageCache \/ ~Hidden(p)
           /\ \A shop \in shopCache' : shop \in shopCache \/ \A p \in shop : Visible(p)
  PROVE  ShopInv'
<1> USE DEF ShopInv
<1>1. CatSane'
  <2>1. \A p \in DOMAIN rows' : /\ DOMAIN rows'[p] = {"version", "active", "syncedAt"}
                                /\ rows'[p].active \in BOOLEAN
                                /\ rows'[p].syncedAt \in 0 .. time'
    BY DEF RowsGrow, IsRow
  <2>2. /\ time' \in 0 .. MaxTime /\ category' \in BOOLEAN
        /\ DOMAIN visit' = Visits
        /\ \A w \in Visits : /\ DOMAIN visit'[w] = VisitFields
                             /\ visit'[w].from \in {"query", "pageErp", "pageUpsert"}
    BY DEF CatSane, StepOf
  <2> QED
    BY <2>1, <2>2 DEF CatSane, IsRow
<1>2. /\ \A p : Hidden(p)' <=> Hidden(p)
      /\ \A p : Visible(p) => Visible(p)'
  BY FlagsStay
<1>3. ASSUME NoLateFill'
      PROVE  IdsFresh' /\ \A w \in Visits : Fresh(visit[w])'
  <2>1. ASSUME NEW w \in Visits, w # v
        PROVE  Fresh(visit[w])'
    <3>1. visit'[w] = visit[w] /\ Fresh(visit[w])
      BY <1>3, <2>1 DEF StepOf
    <3> QED
      BY <1>2, <3>1 DEF Fresh, PageReader
  <2>2. IdsFresh'
    BY <1>3 DEF IdsFresh, StepOf
  <2> QED
    BY <1>3, <2>1, <2>2
<1>4. HiddenLeavesTheShop'
  <2> SUFFICES ASSUME NoLateFill', NEW p \in Products,
                      ~ \E w \in Visits : visit'[w].at = "flagFlush" /\ visit'[w].about = p
               PROVE  /\ p \in pageCache' => ~Hidden(p)'
                      /\ \/ \E w \in Visits : visit'[w].at = "catFlush"
                         \/ \A shop \in shopCache' : p \in shop => Visible(p)'
    BY DEF HiddenLeavesTheShop, NoLateFill
  <2>1. ~ \E w \in Visits : visit[w].at = "flagFlush" /\ visit[w].about = p
    BY DEF StepOf
  <2>2. /\ p \in pageCache => ~Hidden(p)
        /\ \/ \E w \in Visits : visit[w].at = "catFlush"
           \/ \A shop \in shopCache : p \in shop => Visible(p)
    BY <2>1 DEF HiddenLeavesTheShop, NoLateFill
  <2>3. (\E w \in Visits : visit[w].at = "catFlush") =>
          \E w \in Visits : visit'[w].at = "catFlush"
    BY DEF StepOf
  <2> QED
    BY <1>2, <2>2, <2>3
<1> QED
  BY <1>1, <1>3, <1>4

(* Stages at which a request has nothing in hand that a cache will keep. *)
Unread == {"idle", "categories", "since", "load", "write", "flush", "pageRow",
           "flag", "flagFlush", "catFlag", "catFlush", "done"}

(* A request that is at such a stage is no reader. *)
LEMMA IdleIsFresh ==
  ASSUME NEW x, x.at \in Unread
  PROVE  Fresh(x)
BY DEF Unread, Fresh, PageReader

(* A sync reads no flag and fills no cache. *)
LEMMA SyncKeeps ==
  ASSUME ShopInv, NEW v \in Visits, SyncStep(v)
  PROVE  ShopInv'
<1>1. /\ CatSane /\ StepOf(v) /\ RowsGrow
      /\ UNCHANGED <<time, category, pageCache>>
      /\ idsCache' \subseteq idsCache /\ shopCache' \subseteq shopCache
      /\ NoLateFill' => NoLateFill
      /\ visit[v].at \notin {"flagFlush", "catFlush"}
      /\ visit'[v].at \in Unread
  BY SyncFacts DEF ShopInv, NoLateFill, Unread
<1>2. Fresh(visit[v])'
  BY <1>1 DEF Unread, Fresh, PageReader
<1> QED
  BY <1>1, <1>2, ReaderKeeps

(* A request begins. *)
LEMMA StartKeeps ==
  ASSUME ShopInv, NEW v \in Visits, Begin(v)
  PROVE  ShopInv'
<1> USE DEF ShopInv
<1>1. /\ visit[v].at = "idle"
      /\ UNCHANGED <<time, article, rows, category, idsCache, shopCache, pageCache, catCauses>>
  BY DEF Begin, StartSyncAll, StartDelta, StartShop, StartCategory, StartPage, StartFlag
<1>2. StepOf(v) /\ (visit'[v].at \in Unread \/ (visit'[v].at = "ids" /\ visit'[v].from = "query"))
  <2>1. CASE StartSyncAll(v) \/ StartDelta(v) \/ StartCategory(v)
    BY <2>1, MoveFacts DEF StartSyncAll, StartDelta, StartCategory, Unread
  <2>2. CASE StartShop(v)
    BY <2>2 DEF StartShop, CatSane, StepOf, VisitFields, Unread
  <2>3. CASE \E p \in Products : StartPage(v, p) \/ StartFlag(v, p)
    BY <2>3 DEF StartPage, StartFlag, CatSane, StepOf, VisitFields, Unread
  <2> QED
    BY <2>1, <2>2, <2>3 DEF Begin
<1>3. Fresh(visit[v])'
  BY <1>2 DEF Unread, Fresh, PageReader
<1>4. RowsGrow
  BY <1>1, SameRows
<1> QED
  BY <1>1, <1>2, <1>3, <1>4, ReaderKeeps DEF NoLateFill

(* The end of a request, whatever it was. *)
LEMMA AbandonKeeps ==
  ASSUME ShopInv, NEW v \in Visits, Abandon(v)
  PROVE  ShopInv'
<1>1. CatSane
  BY DEF ShopInv
<1>2. StepOf(v) /\ visit'[v].at = "done"
  BY <1>1 DEF Abandon, CatSane, StepOf, VisitFields
<1>3. Fresh(visit[v])'
  BY <1>2 DEF Fresh, PageReader
<1>4. RowsGrow
  BY <1>1, SameRows DEF Abandon
<1> QED
  BY <1>2, <1>3, <1>4, ReaderKeeps DEF Abandon, NoLateFill

(* A lookup of the active categories: what it finds is the flag, or a late *)
(* fill.                                                                   *)
LEMMA LookupKeeps ==
  ASSUME ShopInv, NEW v \in Visits, LookupIds(v) \/ QueryIds(v) \/ KeepIds(v)
  PROVE  ShopInv'
<1> USE DEF ShopInv
<1>1. UNCHANGED <<time, category, rows, shopCache, pageCache>> /\ RowsGrow
  BY SameRows DEF LookupIds, QueryIds, KeepIds
<1>2. visit[v].at \in {"ids", "idsQuery", "idsKeep"} /\ (NoLateFill' => NoLateFill)
  BY DEF LookupIds, QueryIds, KeepIds, NoLateFill
<1>3. /\ StepOf(v)
      /\ visit'[v].about = visit[v].about /\ visit'[v].from = visit[v].from
      /\ \/ visit'[v].at = "idsQuery"
         \/ visit'[v].at = "idsKeep" /\ visit'[v].ids = category
         \/ visit'[v].at = visit[v].from /\ (NoLateFill' => visit'[v].ids = category)
      /\ NoLateFill' => idsCache' \subseteq idsCache \cup {category}
  <2>1. CASE LookupIds(v) /\ idsCache = {} /\ Move(v, "idsQuery")
    BY <2>1, MoveFacts DEF LookupIds
  <2>2. ASSUME NEW ids \in idsCache, LookupIds(v),
               visit' = [visit EXCEPT ![v].at = visit[v].from, ![v].ids = ids],
               catCauses' = IF ids # category THEN catCauses \cup {"lateFill"} ELSE catCauses
        PROVE  /\ StepOf(v)
               /\ visit'[v].about = visit[v].about /\ visit'[v].from = visit[v].from
               /\ visit'[v].at = visit[v].from /\ (NoLateFill' => visit'[v].ids = category)
               /\ idsCache' = idsCache
    <3>1. /\ StepOf(v) /\ visit'[v].at = visit[v].from /\ visit'[v].ids = ids
          /\ visit'[v].about = visit[v].about /\ visit'[v].from = visit[v].from
      BY <2>2 DEF CatSane, StepOf, VisitFields
    <3>2. NoLateFill' => ids = category
      BY <2>2 DEF NoLateFill
    <3> QED
      BY <2>2, <3>1, <3>2 DEF LookupIds
  <2>3. CASE QueryIds(v)
    BY <2>3 DEF QueryIds, CatSane, StepOf, VisitFields
  <2>4. CASE KeepIds(v)
    <3>1. NoLateFill => visit[v].ids = category
      BY <2>4 DEF KeepIds, Fresh
    <3> QED
      BY <1>2, <2>4, <3>1, MoveFacts DEF KeepIds
  <2> QED
    BY <2>1, <2>2, <2>3, <2>4 DEF LookupIds
<1>4. ASSUME NoLateFill'
      PROVE  Fresh(visit[v])'
  <2>1. Fresh(visit[v]) /\ visit[v].from \in {"query", "pageErp", "pageUpsert"}
    BY <1>2, <1>4 DEF CatSane
  <2>2. \A p : Hidden(p)' <=> Hidden(p)
    BY <1>1, FlagsStay
  <2>3. PageReader(visit'[v]) => ~Hidden(visit[v].about)
    BY <1>2, <1>3, <2>1 DEF Fresh, PageReader
  <2> QED
    BY <1>1, <1>3, <1>4, <2>1, <2>2, <2>3 DEF Fresh, PageReader
<1> QED
  BY <1>1, <1>2, <1>3, <1>4, ReaderKeeps

(* A list is read and kept. *)
LEMMA ListKeeps ==
  ASSUME ShopInv, NEW v \in Visits, QueryShop(v) \/ KeepShop(v)
  PROVE  ShopInv'
<1> USE DEF ShopInv
<1>1. UNCHANGED <<time, category, rows, idsCache, pageCache, catCauses>> /\ RowsGrow
  BY SameRows DEF QueryShop, KeepShop
<1>2. \A p : (Hidden(p)' <=> Hidden(p)) /\ (Visible(p) => Visible(p)')
  BY <1>1, FlagsStay
<1>3. CASE QueryShop(v)
  <2>1. /\ StepOf(v) /\ visit'[v].at = "keep" /\ shopCache' = shopCache
        /\ visit[v].at = "query"
        /\ visit'[v].shop = {p \in DOMAIN rows : rows[p].active /\ visit[v].ids}
    BY <1>3 DEF QueryShop, CatSane, StepOf, VisitFields
  <2>2. NoLateFill => visit[v].ids = category
    BY <2>1 DEF Fresh
  <2>3. NoLateFill => \A p \in visit'[v].shop : Visible(p)
    BY <2>1, <2>2 DEF Visible
  <2>4. NoLateFill => Fresh(visit[v])'
    BY <1>2, <2>1, <2>3 DEF Fresh, PageReader
  <2> QED
    BY <1>1, <2>1, <2>4, ReaderKeeps DEF NoLateFill
<1>4. CASE KeepShop(v)
  <2>1. /\ StepOf(v) /\ visit'[v].at = "done" /\ shopCache' = {visit[v].shop}
        /\ visit[v].at = "keep"
    BY <1>4, MoveFacts DEF KeepShop
  <2>2. NoLateFill => \A p \in visit[v].shop : Visible(p)
    BY <2>1 DEF Fresh
  <2>3. Fresh(visit[v])'
    BY <2>1 DEF Fresh, PageReader
  <2> QED
    BY <1>1, <2>1, <2>2, <2>3, ReaderKeeps DEF NoLateFill
<1> QED
  BY <1>3, <1>4

(* A product page is read from the row and the ERP, written and kept. *)
LEMMA PageKeeps ==
  ASSUME ShopInv, NEW v \in Visits,
         PageRow(v) \/ PageErp(v) \/ PageRefused(v) \/ PageUpsert(v) \/ KeepPage(v)
  PROVE  ShopInv'
<1> USE DEF ShopInv
<1>1. /\ UNCHANGED <<time, category, idsCache>> /\ shopCache' \subseteq shopCache
      /\ NoLateFill' => NoLateFill
      /\ visit[v].at \in {"pageRow", "page", "pageErp", "pageUpsert", "pageKeep"}
  BY DEF PageRow, PageErp, PageRefused, PageUpsert, KeepPage, NoLateFill
<1>2. RowsGrow
  BY RowSteps, SameRows DEF PageRow, PageErp, PageRefused, KeepPage
<1>3. /\ StepOf(v) /\ visit'[v].about = visit[v].about
      /\ \/ visit'[v].at = "done"
         \/ /\ visit'[v].at \in {"page", "pageKeep"}
            /\ visit[v].at = "pageRow" => ~Hidden(visit[v].about)
         \/ /\ visit'[v].at = "ids" /\ visit'[v].from # "query"
            /\ visit[v].at = "pageRow" => ~Hidden(visit[v].about)
  <2>1. CASE PageRow(v)
    BY <2>1 DEF PageRow, CatSane, StepOf, VisitFields
  <2>2. CASE PageErp(v)
    <3>1. CASE visit[v].about \in DOMAIN article
      BY <2>2, <3>1 DEF PageErp, CatSane, StepOf, VisitFields
    <3>2. CASE visit[v].about \notin DOMAIN article
      BY <2>2, <3>2, MoveFacts DEF PageErp
    <3> QED
      BY <3>1, <3>2
  <2>3. CASE PageRefused(v) \/ PageUpsert(v)
    BY <2>3 DEF PageRefused, PageUpsert, CatSane, StepOf, VisitFields
  <2>4. CASE KeepPage(v)
    BY <2>4, MoveFacts DEF KeepPage
  <2> QED
    BY <2>1, <2>2, <2>3, <2>4
<1>4. ASSUME NoLateFill, visit'[v].at # "done" \/ visit[v].at = "pageKeep"
      PROVE  ~Hidden(visit[v].about)
  <2>1. Fresh(visit[v])
    BY <1>4
  <2> QED
    BY <1>1, <1>3, <1>4, <2>1 DEF Fresh, PageReader
<1>5. ASSUME NoLateFill
      PROVE  Fresh(visit[v])'
  <2>1. \A p : Hidden(p)' <=> Hidden(p)
    BY <1>2, FlagsStay
  <2> QED
    BY <1>3, <1>4, <1>5, <2>1 DEF Fresh, PageReader
<1>6. ASSUME NoLateFill, NEW p \in pageCache', p \notin pageCache
      PROVE  ~Hidden(p)
  <2>1. KeepPage(v) /\ p = visit[v].about
    BY <1>6 DEF PageRow, PageErp, PageRefused, PageUpsert, KeepPage
  <2> QED
    BY <1>4, <1>6, <2>1 DEF KeepPage
<1> QED
  BY <1>1, <1>2, <1>3, <1>5, <1>6, ReaderKeeps

(* No one is reading: what a flag becomes surprises nobody. *)
LEMMA NobodyReads ==
  ASSUME NEW w \in Visits, ~Filling(w)
  PROVE  /\ visit[w].at \notin {"idsKeep", "query", "keep"}
         /\ ~PageReader(visit[w])
BY DEF Filling, PageReader

(* An administrator starts a change, and changes a flag. *)
LEMMA SetKeeps ==
  ASSUME ShopInv, NEW v \in Visits,
         \E active \in BOOLEAN : SetFlag(v, active) \/ SetCategory(v, active)
  PROVE  ShopInv'
<1> USE DEF ShopInv
<1>1. PICK active \in BOOLEAN : SetFlag(v, active) \/ SetCategory(v, active)
  OBVIOUS
<1>2. /\ UNCHANGED <<time, idsCache, shopCache, pageCache>>
      /\ StepOf(v) /\ visit'[v].about = visit[v].about
      /\ visit[v].at \in {"flag", "catFlag"}
      /\ visit'[v].at = IF visit[v].at = "flag" THEN "flagFlush" ELSE "catFlush"
  BY <1>1, MoveFacts DEF SetFlag, SetCategory
<1>3. ASSUME NoLateFill'
      PROVE  NoLateFill /\ \A w \in Visits : ~Filling(w)
  BY <1>1, <1>3 DEF SetFlag, SetCategory, LateFills, NoLateFill
<1>4. ASSUME NoLateFill', NEW w \in Visits
      PROVE  Fresh(visit[w])'
  <2>1. CASE w = v
    BY <1>2, <2>1 DEF Fresh, PageReader
  <2>2. CASE w # v
    <3>1. visit'[w] = visit[w]
      BY <1>2, <2>2 DEF StepOf
    <3> QED
      BY <1>3, <1>4, <3>1, NobodyReads DEF Fresh, PageReader
  <2> QED
    BY <2>1, <2>2
<1>5. CASE SetFlag(v, active)
  <2>1. /\ category' = category /\ DOMAIN rows' = DOMAIN rows
        /\ \A p \in DOMAIN rows : p # visit[v].about => rows'[p] = rows[p]
        /\ visit[v].about \in DOMAIN rows =>
             /\ DOMAIN rows'[visit[v].about] = {"version", "active", "syncedAt"}
             /\ rows'[visit[v].about].active = active
             /\ rows'[visit[v].about].syncedAt = rows[visit[v].about].syncedAt
        /\ visit[v].at = "flag"
    BY <1>5 DEF SetFlag, CatSane, IsRow
  <2>2. CatSane'
    <3>1. \A p \in DOMAIN rows' : /\ DOMAIN rows'[p] = {"version", "active", "syncedAt"}
                                  /\ rows'[p].active \in BOOLEAN
                                  /\ rows'[p].syncedAt \in 0 .. time'
      BY <1>2, <2>1 DEF CatSane, IsRow
    <3>2. /\ time' \in 0 .. MaxTime /\ category' \in BOOLEAN
          /\ DOMAIN visit' = Visits
          /\ \A w \in Visits : /\ DOMAIN visit'[w] = VisitFields
                               /\ visit'[w].from \in {"query", "pageErp", "pageUpsert"}
      BY <1>2, <2>1 DEF CatSane, StepOf
    <3> QED
      BY <3>1, <3>2 DEF CatSane, IsRow
  <2>3. NoLateFill' => IdsFresh'
    BY <1>2, <1>3, <2>1 DEF IdsFresh, StepOf
  <2>4. HiddenLeavesTheShop'
    <3> SUFFICES ASSUME NoLateFill', NEW p \in Products,
                        ~ \E w \in Visits : visit'[w].at = "flagFlush" /\ visit'[w].about = p
                 PROVE  /\ p \in pageCache' => ~Hidden(p)'
                        /\ \/ \E w \in Visits : visit'[w].at = "catFlush"
                           \/ \A shop \in shopCache' : p \in shop => Visible(p)'
      BY DEF HiddenLeavesTheShop, NoLateFill
    <3>1. p # visit[v].about
      BY <1>2, <2>1
    <3>2. ~ \E w \in Visits : visit[w].at = "flagFlush" /\ visit[w].about = p
      BY <1>2, <2>1 DEF StepOf
    <3>3. /\ p \in pageCache => ~Hidden(p)
          /\ \/ \E w \in Visits : visit[w].at = "catFlush"
             \/ \A shop \in shopCache : p \in shop => Visible(p)
      BY <1>3, <3>2 DEF HiddenLeavesTheShop, NoLateFill
    <3>4. (Hidden(p)' <=> Hidden(p)) /\ (Visible(p)' <=> Visible(p))
      BY <2>1, <3>1 DEF Hidden, Visible
    <3>5. (\E w \in Visits : visit[w].at = "catFlush") =>
            \E w \in Visits : visit'[w].at = "catFlush"
      BY <1>2, <2>1 DEF StepOf
    <3> QED
      BY <1>2, <3>3, <3>4, <3>5
  <2> QED
    BY <1>4, <2>2, <2>3, <2>4
<1>6. CASE SetCategory(v, active)
  <2>1. rows' = rows /\ category' \in BOOLEAN /\ visit[v].at = "catFlag"
        /\ visit'[v].at = "catFlush"
    BY <1>2, <1>6 DEF SetCategory
  <2>2. CatSane'
    <3>1. \A p \in DOMAIN rows' : IsRow(rows[p])
      BY <2>1 DEF CatSane
    <3>2. /\ time' \in 0 .. MaxTime
          /\ DOMAIN visit' = Visits
          /\ \A w \in Visits : /\ DOMAIN visit'[w] = VisitFields
                               /\ visit'[w].from \in {"query", "pageErp", "pageUpsert"}
      BY <1>2, <2>1 DEF CatSane, StepOf
    <3> QED
      BY <1>2, <2>1, <3>1, <3>2 DEF CatSane, IsRow
  <2>3. IdsFresh'
    BY <2>1 DEF IdsFresh
  <2>4. HiddenLeavesTheShop'
    <3> SUFFICES ASSUME NoLateFill', NEW p \in Products,
                        ~ \E w \in Visits : visit'[w].at = "flagFlush" /\ visit'[w].about = p
                 PROVE  p \in pageCache' => ~Hidden(p)'
      BY <2>1 DEF HiddenLeavesTheShop, NoLateFill
    <3>1. ~ \E w \in Visits : visit[w].at = "flagFlush" /\ visit[w].about = p
      BY <1>2, <2>1 DEF StepOf
    <3>2. p \in pageCache => ~Hidden(p)
      BY <1>3, <3>1 DEF HiddenLeavesTheShop, NoLateFill
    <3> QED
      BY <1>2, <2>1, <3>2 DEF Hidden
  <2> QED
    BY <1>4, <2>2, <2>3, <2>4
<1> QED
  BY <1>1, <1>5, <1>6

(* The flush after it: no list is left, nor the product's page. *)
LEMMA FlushKeeps ==
  ASSUME ShopInv, NEW v \in Visits, FlushFlag(v) \/ FlushCategory(v)
  PROVE  ShopInv'
<1> USE DEF ShopInv
<1>1. /\ UNCHANGED <<time, rows, category, catCauses>>
      /\ idsCache' = {} /\ shopCache' = {} /\ pageCache' \subseteq pageCache
      /\ StepOf(v) /\ visit'[v].at = "done"
      /\ \/ visit[v].at = "catFlush"
         \/ visit[v].at = "flagFlush" /\ visit[v].about \notin pageCache'
  BY MoveFacts DEF FlushFlag, FlushCategory
<1>2. CatSane'
  <2>1. /\ DOMAIN visit' = Visits
        /\ \A w \in Visits : /\ DOMAIN visit'[w] = VisitFields
                             /\ visit'[w].from \in {"query", "pageErp", "pageUpsert"}
    BY <1>1 DEF CatSane, StepOf
  <2> QED
    BY <1>1, <2>1 DEF CatSane, IsRow
<1>3. (NoLateFill' <=> NoLateFill) /\ IdsFresh'
  BY <1>1 DEF NoLateFill, IdsFresh
<1>4. \A p : (Hidden(p)' <=> Hidden(p)) /\ (Visible(p)' <=> Visible(p))
  BY <1>1 DEF Hidden, Visible
<1>5. ASSUME NoLateFill, NEW w \in Visits
      PROVE  Fresh(visit[w])'
  <2>1. CASE w = v
    BY <1>1, <2>1 DEF Fresh, PageReader
  <2>2. CASE w # v
    <3>1. visit'[w] = visit[w] /\ Fresh(visit[w])
      BY <1>1, <1>5, <2>2 DEF StepOf
    <3> QED
      BY <1>1, <1>4, <3>1 DEF Fresh, PageReader
  <2> QED
    BY <2>1, <2>2
<1>6. HiddenLeavesTheShop'
  <2> SUFFICES ASSUME NoLateFill, NEW p \in Products, p \in pageCache',
                      ~ \E w \in Visits : visit'[w].at = "flagFlush" /\ visit'[w].about = p
               PROVE  ~Hidden(p)
    BY <1>1, <1>3, <1>4 DEF HiddenLeavesTheShop, NoLateFill
  <2>1. ~ \E w \in Visits : visit[w].at = "flagFlush" /\ visit[w].about = p
    BY <1>1 DEF StepOf
  <2> QED
    BY <1>1, <2>1 DEF HiddenLeavesTheShop, NoLateFill
<1> QED
  BY <1>2, <1>3, <1>5, <1>6

(* The clock, the ERP and the entries that expire. *)
LEMMA OutsideKeeps ==
  ASSUME ShopInv, Tick \/ CatExpire \/ (\E p \in Products : EditArticle(p))
                  \/ UNCHANGED catVars
  PROVE  ShopInv'
<1> USE DEF ShopInv
<1>1. /\ UNCHANGED <<rows, category, visit>> /\ (time' = time \/ time' = time + 1)
      /\ time' \in 0 .. MaxTime
      /\ idsCache' \subseteq idsCache /\ shopCache' \subseteq shopCache
      /\ pageCache' \subseteq pageCache
      /\ NoLateFill' => NoLateFill
  <2>0. time \in Nat /\ MaxTime \in Nat /\ time \in 0 .. MaxTime
    BY CatalogAssumption DEF CatSane
  <2>1. CASE Tick
    BY <2>0, <2>1 DEF Tick, NoLateFill
  <2>2. CASE CatExpire
    BY <2>0, <2>2 DEF CatExpire, NoLateFill
  <2>3. CASE \E p \in Products : EditArticle(p)
    BY <2>0, <2>3 DEF EditArticle, NoLateFill
  <2>4. CASE UNCHANGED catVars
    BY <2>0, <2>4 DEF catVars, NoLateFill
  <2> QED
    BY <2>1, <2>2, <2>3, <2>4
<1>2. CatSane'
  BY <1>1, CatalogAssumption DEF CatSane, IsRow
<1>3. \A p : (Hidden(p)' <=> Hidden(p)) /\ (Visible(p)' <=> Visible(p))
  BY <1>1 DEF Hidden, Visible
<1>4. NoLateFill' => IdsFresh' /\ \A w \in Visits : Fresh(visit[w])'
  BY <1>1, <1>3 DEF IdsFresh, Fresh, PageReader
<1>5. HiddenLeavesTheShop'
  BY <1>1, <1>3 DEF HiddenLeavesTheShop, NoLateFill
<1> QED
  BY <1>2, <1>4, <1>5

(* The initial state. *)
LEMMA InitShop == CatInit => ShopInv
<1> SUFFICES ASSUME CatInit
             PROVE  ShopInv
  OBVIOUS
<1>1. CatSane
  <2>1. time = 0 /\ category = TRUE /\ category \in BOOLEAN
    BY DEF CatInit
  <2>2. ASSUME NEW p \in DOMAIN rows
        PROVE  /\ DOMAIN rows[p] = {"version", "active", "syncedAt"}
               /\ rows[p].active \in BOOLEAN /\ rows[p].syncedAt = 0
    BY <2>2 DEF CatInit
  <2>3. /\ DOMAIN visit = Visits
        /\ \A v \in Visits : DOMAIN visit[v] = VisitFields /\ visit[v].from = "query"
    BY DEF CatInit, VisitFields
  <2> QED
    BY <2>1, <2>2, <2>3, CatalogAssumption DEF CatSane, IsRow
<1>2. IdsFresh /\ \A v \in Visits : Fresh(visit[v])
  BY DEF CatInit, IdsFresh, Fresh, PageReader
<1>3. HiddenLeavesTheShop
  BY DEF CatInit, HiddenLeavesTheShop
<1> QED
  BY <1>1, <1>2, <1>3 DEF ShopInv

(* No step takes the invariant away. *)
LEMMA NextShop == ShopInv /\ [CatNext]_catVars => ShopInv'
<1> SUFFICES ASSUME ShopInv, [CatNext]_catVars
             PROVE  ShopInv'
  OBVIOUS
<1>1. CASE Tick \/ CatExpire \/ (\E p \in Products : EditArticle(p)) \/ UNCHANGED catVars
  BY <1>1, OutsideKeeps
<1>2. ASSUME NEW v \in Visits, Begin(v) \/ SyncStep(v) \/ ReadStep(v) \/ AdminStep(v) \/ Abandon(v)
      PROVE  ShopInv'
  <2>1. CASE ReadStep(v)
    BY <2>1, LookupKeeps, ListKeeps, PageKeeps DEF ReadStep
  <2>2. CASE AdminStep(v)
    BY <2>2, SetKeeps, FlushKeeps DEF AdminStep
  <2> QED
    BY <1>2, <2>1, <2>2, StartKeeps, SyncKeeps, AbandonKeeps
<1> QED
  BY <1>1, <1>2 DEF CatNext

(* For any products and any number of requests: once the caches are        *)
(* cleared after an administrator's change, no list has a hidden product   *)
(* and no page of one is cached, but for the named late fills.             *)
THEOREM HiddenIsGone == CatSpec => []HiddenLeavesTheShop
<1>1. ShopInv => HiddenLeavesTheShop
  BY DEF ShopInv
<1> QED
  BY <1>1, InitShop, NextShop, PTL DEF CatSpec

(* No sync and no product page ever shows a hidden product again: only the *)
(* step of an administrator's request about it does.                       *)
THEOREM OnlyAdminsShow == CatSpec => HiddenStaysHidden
<1>1. ASSUME ShopInv, [CatNext]_catVars
      PROVE  [\A p \in Products :
                Hidden(p) /\ ~Hidden(p)' => \E v \in Visits : visit[v].at = "flag"
                                                              /\ visit[v].about = p]_catVars
  <2> SUFFICES ASSUME NEW p \in Products, Hidden(p), ~Hidden(p)'
               PROVE  \E v \in Visits : visit[v].at = "flag" /\ visit[v].about = p
    OBVIOUS
  <2>1. CatSane
    BY <1>1 DEF ShopInv
  <2>2. rows' # rows
    BY DEF Hidden
  <2>3. ~RowsGrow
    BY <2>1, FlagsStay
  <2>4. PICK v \in Visits : Begin(v) \/ SyncStep(v) \/ ReadStep(v) \/ AdminStep(v) \/ Abandon(v)
    BY <1>1, <2>2 DEF CatNext, Tick, CatExpire, EditArticle, catVars
  <2>5. ~SyncStep(v)
    BY <2>1, <2>3, SyncFacts
  <2>6. ~Begin(v) /\ ~Abandon(v)
    BY <2>2 DEF Begin, Abandon, StartSyncAll, StartDelta, StartShop, StartCategory,
                StartPage, StartFlag
  <2>7. ~ReadStep(v)
    <3>1. ~PageUpsert(v)
      BY <2>1, <2>3, RowSteps
    <3> QED
      BY <2>2, <3>1 DEF ReadStep, LookupIds, QueryIds, KeepIds, QueryShop, KeepShop,
                        PageRow, PageErp, PageRefused, KeepPage
  <2>8. PICK active \in BOOLEAN : SetFlag(v, active)
    BY <2>2, <2>4, <2>5, <2>6, <2>7 DEF AdminStep, SetCategory, FlushFlag, FlushCategory
  <2>9. visit[v].about = p
    BY <2>8 DEF SetFlag, Hidden
  <2> QED
    BY <2>8, <2>9 DEF SetFlag
<1> QED
  BY <1>1, InitShop, NextShop, PTL DEF CatSpec, HiddenStaysHidden

-----------------------------------------------------------------------------
(* Products: a delta sync skips nothing *)

(* Since, of any rows. *)
SinceOf(rs) ==
  IF DOMAIN rs = {} THEN 0
  ELSE CHOOSE s \in {rs[p].syncedAt : p \in DOMAIN rs} :
         \A q \in DOMAIN rs : rs[q].syncedAt <= s

(* It is the newest of them. *)
LEMMA SinceFacts ==
  ASSUME NEW rs, NEW t \in Nat, \A p \in DOMAIN rs : rs[p].syncedAt \in 0 .. t
  PROVE  /\ SinceOf(rs) \in 0 .. t
         /\ \A p \in DOMAIN rs : rs[p].syncedAt <= SinceOf(rs)
         /\ DOMAIN rs # {} => \E p \in DOMAIN rs : SinceOf(rs) = rs[p].syncedAt
<1>1. CASE DOMAIN rs = {}
  BY <1>1 DEF SinceOf
<1>2. CASE DOMAIN rs # {}
  <2> DEFINE Ages == {t - rs[p].syncedAt : p \in DOMAIN rs}
  <2>1. Ages \in SUBSET Nat /\ Ages # {}
    BY <1>2
  <2>2. PICK a \in Ages : \A b \in Ages : a <= b
    BY <2>1, LeastExists
  <2>3. PICK p \in DOMAIN rs : a = t - rs[p].syncedAt
    BY <2>2
  <2>4. \A q \in DOMAIN rs : rs[q].syncedAt <= rs[p].syncedAt
    <3> SUFFICES ASSUME NEW q \in DOMAIN rs
                 PROVE  rs[q].syncedAt <= rs[p].syncedAt
      OBVIOUS
    <3>1. a <= t - rs[q].syncedAt
      BY <2>2
    <3> QED
      BY <2>3, <3>1
  <2> DEFINE Stamps == {rs[q].syncedAt : q \in DOMAIN rs}
  <2>5. \E s \in Stamps : \A q \in DOMAIN rs : rs[q].syncedAt <= s
    BY <2>4
  <2>6. SinceOf(rs) = CHOOSE s \in Stamps : \A q \in DOMAIN rs : rs[q].syncedAt <= s
    BY <1>2 DEF SinceOf
  <2>7. SinceOf(rs) \in Stamps /\ \A q \in DOMAIN rs : rs[q].syncedAt <= SinceOf(rs)
    <3> HIDE DEF Stamps
    <3> QED
      BY <2>5, <2>6
  <2> QED
    BY <1>2, <2>7
<1> QED
  BY <1>1, <1>2

(* Rows come and are written later than before. *)
RowsAge ==
  /\ DOMAIN rows \subseteq DOMAIN rows'
  /\ \A p \in DOMAIN rows' : IsRow(rows'[p])
  /\ \A p \in DOMAIN rows : rows'[p].syncedAt \in rows[p].syncedAt .. time

(* The newest lastSyncedAt is no later than now, and never goes back. *)
LEMMA SinceGrows ==
  ASSUME CatSane
  PROVE  /\ Since \in Nat /\ Since <= time
         /\ CatSane' /\ RowsAge /\ time' = time => Since' \in Nat /\ Since <= Since'
<1>1. /\ Since = SinceOf(rows) /\ Since' = SinceOf(rows')
  BY DEF Since, SinceOf
<1>2. time \in Nat /\ \A p \in DOMAIN rows : rows[p].syncedAt \in 0 .. time
  BY CatalogAssumption DEF CatSane, IsRow
<1>3. /\ SinceOf(rows) \in 0 .. time
      /\ DOMAIN rows # {} => \E p \in DOMAIN rows : SinceOf(rows) = rows[p].syncedAt
  BY <1>2, SinceFacts
<1>4. DOMAIN rows = {} => SinceOf(rows) = 0
  BY DEF SinceOf
<1>5. ASSUME CatSane', RowsAge, time' = time
      PROVE  Since' \in Nat /\ Since <= Since'
  <2>1. \A p \in DOMAIN rows' : rows'[p].syncedAt \in 0 .. time
    BY <1>5 DEF RowsAge, IsRow
  <2>2. /\ SinceOf(rows') \in 0 .. time
        /\ \A p \in DOMAIN rows' : rows'[p].syncedAt <= SinceOf(rows')
    BY <1>2, <2>1, SinceFacts
  <2>3. CASE DOMAIN rows = {}
    BY <1>1, <1>2, <1>4, <2>2, <2>3
  <2>4. CASE DOMAIN rows # {}
    <3>1. PICK p \in DOMAIN rows : SinceOf(rows) = rows[p].syncedAt
      BY <1>3, <2>4
    <3>2. p \in DOMAIN rows' /\ rows'[p].syncedAt \in rows[p].syncedAt .. time
      BY <1>5 DEF RowsAge
    <3>3. rows'[p].syncedAt <= SinceOf(rows') /\ rows[p].syncedAt \in Nat
      BY <1>2, <2>2, <3>2
    <3> QED
      BY <1>1, <1>2, <2>2, <3>1, <3>2, <3>3
  <2> QED
    BY <2>3, <2>4
<1> QED
  BY <1>1, <1>2, <1>3, <1>5

(* The products a sync has yet to write. *)
Held(x) == IF x.at = "write" THEN DOMAIN x.seen ELSE {}

(* What a request holds of the ERP has the right form. *)
SeenOk(x) ==
  /\ \A p \in DOMAIN x.seen : DOMAIN x.seen[p] = {"version", "row"}
  /\ \A p \in Held(x) : x.seen[p].row = "there" => p \in DOMAIN rows
  /\ (x.at = "pageUpsert" \/ (x.at \in {"ids", "idsQuery", "idsKeep"} /\ x.from = "pageUpsert"))
       => x.about \in DOMAIN x.seen

(* It is what the ERP has now; a row that came since the sync looked has   *)
(* it too; and what the sync does not hold, it did not ask for.            *)
SeenNow(x) ==
  /\ \A p \in DOMAIN x.seen : p \in DOMAIN article /\ x.seen[p].version = article[p]
  /\ \A p \in Held(x) :
       x.seen[p].row = "absent" /\ p \in DOMAIN rows => rows[p].version = article[p]
  /\ Held(x) # {} => \A p : Behind(p) => p \in Held(x) \/ article[p] < Since

NoDeltaCause == catCauses \cap {"viewed", "editDuringSync", "rowFailed", "syncCut"} = {}

(* Each product that is behind will be asked for, or is about to be written. *)
NothingSkipped ==
  \A p : Behind(p) => article[p] >= Since \/ \E v \in Visits : p \in Held(visit[v])

DeltaInv ==
  /\ \A p \in DOMAIN article : article[p] \in Nat
  /\ \A v \in Visits : SeenOk(visit[v])
  /\ NoDeltaCause => NothingSkipped /\ \A v \in Visits : SeenNow(visit[v])

(* What is written is what the ERP has. *)
WritesNow ==
  \A p \in DOMAIN rows' :
    \/ p \in DOMAIN rows /\ rows'[p].version = rows[p].version
    \/ p \in DOMAIN article /\ rows'[p].version = article[p]

(* A request takes a step and writes no old version; it gives up nothing   *)
(* that it held and that is behind, and if the newest lastSyncedAt moves,  *)
(* it did hold something, or nothing is behind.                            *)
LEMMA DeltaKeeps ==
  ASSUME CatSane, CatSane', DeltaInv, NEW v \in Visits, StepOf(v), RowsAge,
         UNCHANGED <<article, time>>,
         SeenOk(visit[v])',
         NoDeltaCause' =>
           /\ NoDeltaCause /\ WritesNow /\ SeenNow(visit[v])'
           /\ \A p \in Held(visit[v]) : Behind(p)' => p \in Held(visit'[v])
           /\ Since' = Since \/ Held(visit[v]) # {} \/ \A p : ~Behind(p)'
  PROVE  DeltaInv'
<1> USE DEF DeltaInv
<1>1. \A p \in DOMAIN rows : p \in DOMAIN rows'
  BY DEF RowsAge
<1>2. \A w \in Visits : SeenOk(visit[w])'
  <2> SUFFICES ASSUME NEW w \in Visits, w # v
               PROVE  SeenOk(visit[w])'
    OBVIOUS
  <2>1. visit'[w] = visit[w] /\ SeenOk(visit[w])
    BY DEF StepOf
  <2> QED
    BY <1>1, <2>1 DEF SeenOk, Held
<1>3. ASSUME NoDeltaCause'
      PROVE  NothingSkipped' /\ \A w \in Visits : SeenNow(visit[w])'
  <2>1. /\ NothingSkipped /\ WritesNow
        /\ \A w \in Visits : SeenNow(visit[w])
    BY <1>3
  <2>2. \A p : Behind(p)' => Behind(p)
    BY <1>1, <2>1 DEF WritesNow, Behind
  <2>3. Since \in Nat /\ Since' \in Nat /\ Since <= Since'
    BY SinceGrows
  <2>4. ASSUME NEW w \in Visits, w # v
        PROVE  SeenNow(visit[w])' /\ Held(visit'[w]) = Held(visit[w])
    <3>1. visit'[w] = visit[w] /\ SeenNow(visit[w])
      BY <2>1, <2>4 DEF StepOf
    <3>2. \A p : Behind(p)' => article'[p] = article[p] /\ article[p] \in Nat
      BY <2>2 DEF Behind
    <3>3. \A p \in Held(visit[w]) : p \in DOMAIN article
      BY <3>1 DEF SeenNow, Held
    <3>4. \A p \in Held(visit[w]) :
            visit[w].seen[p].row = "absent" /\ p \in DOMAIN rows'
              => rows'[p].version = article[p]
      BY <2>1, <3>1 DEF SeenNow, WritesNow
    <3>5. Held(visit[w]) # {} =>
            \A p : Behind(p)' => p \in Held(visit[w]) \/ article[p] < Since'
      BY <2>2, <2>3, <3>1, <3>2 DEF SeenNow
    <3>6. \A p \in DOMAIN visit[w].seen : p \in DOMAIN article
                                          /\ visit[w].seen[p].version = article[p]
      BY <3>1 DEF SeenNow
    <3> QED
      BY <3>1, <3>4, <3>5, <3>6 DEF SeenNow, Held
  <2>5. NothingSkipped'
    <3> SUFFICES ASSUME NEW p, Behind(p)', ~ \E w \in Visits : p \in Held(visit'[w])
                 PROVE  article[p] >= Since'
      BY DEF NothingSkipped
    <3>1. Behind(p) /\ article[p] \in Nat
      BY <2>2 DEF Behind
    <3>2. ~ \E w \in Visits : p \in Held(visit[w])
      BY <1>3, <2>4
    <3>3. article[p] >= Since
      BY <2>1, <3>1, <3>2 DEF NothingSkipped
    <3>4. Held(visit[v]) # {} => FALSE
      BY <2>1, <2>3, <3>1, <3>2, <3>3 DEF SeenNow
    <3> QED
      BY <1>3, <3>3, <3>4
  <2> QED
    BY <1>3, <2>4, <2>5
<1> QED
  BY <1>2, <1>3

(* It stays when no row is stamped. *)
LEMMA SinceStays ==
  ASSUME CatSane, DOMAIN rows' = DOMAIN rows, time' = time,
         \A p \in DOMAIN rows : rows'[p].syncedAt = rows[p].syncedAt
  PROVE  Since' = Since
<1>1. /\ Since = SinceOf(rows) /\ Since' = SinceOf(rows')
  BY DEF Since, SinceOf
<1>2. time \in Nat /\ \A p \in DOMAIN rows : rows[p].syncedAt \in 0 .. time
  BY CatalogAssumption DEF CatSane, IsRow
<1>3. \A p \in DOMAIN rows' : rows'[p].syncedAt \in 0 .. time
  BY <1>2
<1>4. /\ SinceOf(rows) \in Nat
      /\ \A p \in DOMAIN rows : rows[p].syncedAt <= SinceOf(rows)
      /\ DOMAIN rows # {} => \E p \in DOMAIN rows : SinceOf(rows) = rows[p].syncedAt
  BY <1>2, SinceFacts
<1>5. /\ SinceOf(rows') \in Nat
      /\ \A p \in DOMAIN rows' : rows'[p].syncedAt <= SinceOf(rows')
      /\ DOMAIN rows' # {} => \E p \in DOMAIN rows' : SinceOf(rows') = rows'[p].syncedAt
  BY <1>2, <1>3, SinceFacts
<1>6. CASE DOMAIN rows = {}
  BY <1>1, <1>6 DEF SinceOf
<1>7. CASE DOMAIN rows # {}
  <2>1. SinceOf(rows) <= SinceOf(rows') /\ SinceOf(rows') <= SinceOf(rows)
    BY <1>4, <1>5, <1>7
  <2> QED
    BY <1>1, <1>4, <1>5, <2>1
<1> QED
  BY <1>6, <1>7

(* A request takes a step with no sync's products in hand, and writes no   *)
(* row: what it holds then is what the ERP has.                            *)
LEMMA IdleDelta ==
  ASSUME CatSane, CatSane', DeltaInv, NEW v \in Visits, StepOf(v),
         UNCHANGED <<article, rows, time>>, NoDeltaCause' => NoDeltaCause,
         Held(visit[v]) = {} \/ ~NoDeltaCause', Held(visit'[v]) = {}, SeenOk(visit[v])',
         NoDeltaCause' => \A p \in DOMAIN visit'[v].seen :
                            p \in DOMAIN article /\ visit'[v].seen[p].version = article[p]
  PROVE  DeltaInv'
<1>1. RowsAge /\ WritesNow
  BY CatalogAssumption DEF CatSane, IsRow, RowsAge, WritesNow
<1>2. Since' = Since
  BY SinceStays
<1>3. NoDeltaCause' => SeenNow(visit[v])'
  BY DEF SeenNow
<1> QED
  BY <1>1, <1>2, <1>3, DeltaKeeps

Lookup == {"ids", "idsQuery", "idsKeep"}

(* The steps that leave the rows and a sync's products alone. *)
LEMMA OtherSteps ==
  ASSUME CatSane, CatSane', DeltaInv, NEW v \in Visits, StepOf(v),
         UNCHANGED <<article, rows, time>>, catCauses \subseteq catCauses',
         visit[v].at # "write" \/ DOMAIN visit[v].seen = {} \/ "syncCut" \in catCauses',
         visit'[v].at # "write",
         visit'[v].seen = visit[v].seen \/ DOMAIN visit'[v].seen = {},
         visit'[v].at = "pageUpsert" \/ (visit'[v].at \in Lookup /\ visit'[v].from = "pageUpsert")
           => visit'[v].about \in DOMAIN visit'[v].seen
  PROVE  DeltaInv'
<1>1. NoDeltaCause' => NoDeltaCause
  BY DEF NoDeltaCause
<1>2. Held(visit'[v]) = {} /\ (Held(visit[v]) = {} \/ ~NoDeltaCause')
  BY DEF Held, NoDeltaCause
<1>3. SeenOk(visit[v]) /\ (NoDeltaCause => SeenNow(visit[v]))
  BY DEF DeltaInv
<1>4. SeenOk(visit[v])'
  <2>1. \A p \in DOMAIN visit'[v].seen : DOMAIN visit'[v].seen[p] = {"version", "row"}
    BY <1>3 DEF SeenOk
  <2> QED
    BY <1>2, <2>1 DEF SeenOk, Lookup
<1>5. ASSUME NoDeltaCause'
      PROVE  \A p \in DOMAIN visit'[v].seen :
               p \in DOMAIN article /\ visit'[v].seen[p].version = article[p]
  BY <1>1, <1>3, <1>5 DEF SeenNow
<1> QED
  BY <1>1, <1>2, <1>4, <1>5, IdleDelta

(* The stages that hold no product of the ERP for a page. *)
LEMMA MoveDelta ==
  ASSUME CatSane, CatSane', DeltaInv, NEW v \in Visits, NEW stage, Move(v, stage),
         UNCHANGED <<article, rows, time>>, catCauses \subseteq catCauses',
         visit[v].at # "write" \/ DOMAIN visit[v].seen = {},
         stage \notin {"write", "pageUpsert"} \/ (stage = "pageUpsert" /\ visit[v].at \in Lookup
                                                  /\ visit[v].from = "pageUpsert"),
         stage \in Lookup => visit[v].at \in Lookup
  PROVE  DeltaInv'
<1>1. /\ StepOf(v) /\ visit'[v].at = stage
      /\ visit'[v].about = visit[v].about /\ visit'[v].from = visit[v].from
      /\ visit'[v].seen = visit[v].seen
  BY MoveFacts
<1>2. visit[v].at \in Lookup /\ visit[v].from = "pageUpsert"
        => visit[v].about \in DOMAIN visit[v].seen
  BY DEF DeltaInv, SeenOk, Lookup
<1> QED
  BY <1>1, <1>2, OtherSteps

(* A request begins or is cut off. *)
LEMMA StartDeltaKeeps ==
  ASSUME CatSane, CatSane', DeltaInv, NEW v \in Visits, Begin(v) \/ Abandon(v)
  PROVE  DeltaInv'
<1>1. UNCHANGED <<article, rows, time>> /\ catCauses \subseteq catCauses'
  BY DEF Begin, StartSyncAll, StartDelta, StartShop, StartCategory, StartPage, StartFlag, Abandon
<1>2. CASE StartSyncAll(v) \/ StartDelta(v) \/ StartCategory(v)
  BY <1>1, <1>2, MoveDelta DEF StartSyncAll, StartDelta, StartCategory, Lookup
<1>3. CASE StartShop(v)
  <2>1. /\ StepOf(v) /\ visit[v].at = "idle" /\ visit'[v].at \in {"ids", "done"}
        /\ visit'[v].from = "query" /\ visit'[v].seen = visit[v].seen
    BY <1>3 DEF StartShop, CatSane, StepOf, VisitFields
  <2> QED
    BY <1>1, <2>1, OtherSteps
<1>4. CASE \E p \in Products : StartPage(v, p) \/ StartFlag(v, p)
  <2>1. /\ StepOf(v) /\ visit[v].at = "idle" /\ visit'[v].at \in {"done", "pageRow", "flag"}
        /\ visit'[v].seen = visit[v].seen
    BY <1>4 DEF StartPage, StartFlag, CatSane, StepOf, VisitFields
  <2> QED
    BY <1>1, <2>1, OtherSteps DEF Lookup
<1>5. CASE Abandon(v)
  <2>1. /\ StepOf(v) /\ visit'[v].at = "done" /\ visit'[v].seen = NoneSeen
        /\ visit[v].at # "write" \/ "syncCut" \in catCauses'
    BY <1>5 DEF Abandon, CatSane, StepOf, VisitFields
  <2>2. DOMAIN NoneSeen = {}
    BY DEF NoneSeen
  <2> QED
    BY <1>1, <2>1, <2>2, OtherSteps DEF Lookup
<1> QED
  BY <1>2, <1>3, <1>4, <1>5 DEF Begin

(* Readers write no row, but for the product page's upsert. *)
LEMMA ReadDeltaKeeps ==
  ASSUME CatSane, CatSane', DeltaInv, NEW v \in Visits, ReadStep(v), ~PageUpsert(v)
  PROVE  DeltaInv'
<1>1. UNCHANGED <<article, rows, time>> /\ catCauses \subseteq catCauses'
  BY DEF ReadStep, LookupIds, QueryIds, KeepIds, QueryShop, KeepShop, PageRow, PageErp,
         PageRefused, KeepPage
<1>2. CASE LookupIds(v)
  <2>1. CASE Move(v, "idsQuery")
    BY <1>1, <1>2, <2>1, MoveDelta DEF LookupIds, Lookup
  <2>2. CASE ~Move(v, "idsQuery")
    <3>1. /\ StepOf(v) /\ visit[v].at = "ids" /\ visit'[v].at = visit[v].from
          /\ visit'[v].about = visit[v].about /\ visit'[v].from = visit[v].from
          /\ visit'[v].seen = visit[v].seen
          /\ visit[v].from \in {"query", "pageErp", "pageUpsert"}
      BY <1>2, <2>2 DEF LookupIds, CatSane, StepOf, VisitFields
    <3>2. visit[v].from = "pageUpsert" => visit[v].about \in DOMAIN visit[v].seen
      BY <3>1 DEF DeltaInv, SeenOk
    <3> QED
      BY <1>1, <3>1, <3>2, OtherSteps DEF Lookup
  <2> QED
    BY <2>1, <2>2
<1>3. CASE QueryIds(v)
  <2>1. /\ StepOf(v) /\ visit[v].at = "idsQuery" /\ visit'[v].at = "idsKeep"
        /\ visit'[v].about = visit[v].about /\ visit'[v].from = visit[v].from
        /\ visit'[v].seen = visit[v].seen
    BY <1>3 DEF QueryIds, CatSane, StepOf, VisitFields
  <2>2. visit[v].from = "pageUpsert" => visit[v].about \in DOMAIN visit[v].seen
    BY <2>1 DEF DeltaInv, SeenOk
  <2> QED
    BY <1>1, <2>1, <2>2, OtherSteps
<1>4. CASE KeepIds(v)
  <2>1. Move(v, visit[v].from) /\ visit[v].at = "idsKeep"
        /\ visit[v].from \in {"query", "pageErp", "pageUpsert"}
    BY <1>4 DEF KeepIds, CatSane
  <2> QED
    BY <1>1, <2>1, MoveDelta DEF Lookup
<1>5. CASE QueryShop(v)
  <2>1. /\ StepOf(v) /\ visit[v].at = "query" /\ visit'[v].at = "keep"
        /\ visit'[v].seen = visit[v].seen
    BY <1>5 DEF QueryShop, CatSane, StepOf, VisitFields
  <2> QED
    BY <1>1, <2>1, OtherSteps DEF Lookup
<1>6. CASE KeepShop(v) \/ KeepPage(v)
  BY <1>1, <1>6, MoveDelta DEF KeepShop, KeepPage, Lookup
<1>7. CASE PageRow(v)
  <2>1. /\ StepOf(v) /\ visit[v].at = "pageRow" /\ visit'[v].at \in {"done", "ids", "page"}
        /\ visit'[v].from = "pageErp" /\ visit'[v].seen = visit[v].seen
    BY <1>7 DEF PageRow, CatSane, StepOf, VisitFields
  <2> QED
    BY <1>1, <2>1, OtherSteps
<1>8. CASE PageRefused(v)
  <2>1. /\ StepOf(v) /\ visit[v].at # "write" /\ visit'[v].at = "done"
        /\ visit'[v].seen = NoneSeen
    BY <1>8 DEF PageRefused, CatSane, StepOf, VisitFields
  <2>2. DOMAIN NoneSeen = {}
    BY DEF NoneSeen
  <2> QED
    BY <1>1, <2>1, <2>2, OtherSteps DEF Lookup
<1>9. CASE PageErp(v)
  <2> DEFINE a == visit[v].about
  <2>1. CASE a \notin DOMAIN article
    BY <1>1, <1>9, <2>1, MoveDelta DEF PageErp, Lookup
  <2>2. CASE a \in DOMAIN article
    <3>1. /\ StepOf(v) /\ visit'[v].at = "ids" /\ visit'[v].about = a
          /\ visit'[v].seen = [q \in {a} |-> [version |-> article[q], row |-> "unread"]]
          /\ visit[v].at \in {"page", "pageErp"}
      BY <1>9, <2>2 DEF PageErp, CatSane, StepOf, VisitFields
    <3>2. /\ DOMAIN visit'[v].seen = {a}
          /\ visit'[v].seen[a] = [version |-> article[a], row |-> "unread"]
      BY <3>1
    <3> HIDE DEF a
    <3>3. SeenOk(visit[v])' /\ Held(visit'[v]) = {} /\ Held(visit[v]) = {}
      BY <3>1, <3>2 DEF SeenOk, Held
    <3>4. \A p \in DOMAIN visit'[v].seen :
            p \in DOMAIN article /\ visit'[v].seen[p].version = article[p]
      BY <2>2, <3>2
    <3>5. NoDeltaCause' => NoDeltaCause
      BY <1>1 DEF NoDeltaCause
    <3> QED
      BY <1>1, <3>1, <3>3, <3>4, <3>5, IdleDelta
  <2> QED
    BY <2>1, <2>2
<1> QED
  BY <1>2, <1>3, <1>4, <1>5, <1>6, <1>7, <1>8, <1>9 DEF ReadStep

(* The product page writes what the ERP has, when nothing else is behind. *)
LEMMA UpsertDeltaKeeps ==
  ASSUME CatSane, CatSane', DeltaInv, NEW v \in Visits, PageUpsert(v),
         \A p \in DOMAIN article : p \in Products
  PROVE  DeltaInv'
<1> DEFINE a == visit[v].about
<1>1. /\ UNCHANGED <<article, time>> /\ catCauses \subseteq catCauses'
      /\ StepOf(v) /\ visit'[v].at = "pageKeep" /\ visit'[v].seen = NoneSeen
      /\ visit[v].at = "pageUpsert"
      /\ DOMAIN rows' = DOMAIN rows \cup {a}
      /\ \A q \in DOMAIN rows : q # a => rows'[q] = rows[q]
      /\ rows'[a].version = visit[v].seen[a].version
  BY DEF PageUpsert, CatSane, StepOf, VisitFields
<1>2. RowsAge
  BY RowSteps DEF RowsGrow, RowsAge
<1>3. SeenOk(visit[v])' /\ Held(visit'[v]) = {} /\ Held(visit[v]) = {}
  BY <1>1 DEF SeenOk, Held, NoneSeen
<1>4. a \in DOMAIN visit[v].seen
  BY <1>1 DEF DeltaInv, SeenOk
<1>5. ASSUME NoDeltaCause'
      PROVE  /\ NoDeltaCause /\ WritesNow /\ SeenNow(visit[v])'
             /\ \A p : ~Behind(p)'
  <2>1. NoDeltaCause /\ ~ \E q \in Products \ {a} : Behind(q)
    BY <1>5 DEF PageUpsert, NoDeltaCause
  <2>2. a \in DOMAIN article /\ rows'[a].version = article[a]
    BY <1>1, <1>4, <2>1 DEF DeltaInv, SeenNow
  <2>3. WritesNow
    BY <1>1, <2>2 DEF WritesNow
  <2>4. \A p : ~Behind(p)'
    BY <1>1, <2>1, <2>2 DEF Behind
  <2>5. SeenNow(visit[v])'
    BY <1>1, <1>3 DEF SeenNow, NoneSeen
  <2> QED
    BY <2>1, <2>3, <2>4, <2>5
<1> QED
  BY <1>1, <1>2, <1>3, <1>5, DeltaKeeps

(* An administrator's change touches no version and no stamp. *)
LEMMA AdminDeltaKeeps ==
  ASSUME CatSane, CatSane', DeltaInv, NEW v \in Visits, AdminStep(v)
  PROVE  DeltaInv'
<1>1. CASE (\E active \in BOOLEAN : SetCategory(v, active)) \/ FlushFlag(v) \/ FlushCategory(v)
  <2>1. UNCHANGED <<article, rows, time>> /\ catCauses \subseteq catCauses'
    BY <1>1 DEF SetCategory, FlushFlag, FlushCategory, LateFills
  <2> QED
    BY <1>1, <2>1, MoveDelta DEF SetCategory, FlushFlag, FlushCategory, Lookup
<1>2. ASSUME NEW active \in BOOLEAN, SetFlag(v, active)
      PROVE  DeltaInv'
  <2>1. /\ UNCHANGED <<article, time>> /\ catCauses \subseteq catCauses'
        /\ ("viewed" \in catCauses' <=> "viewed" \in catCauses)
        /\ StepOf(v) /\ visit[v].at = "flag" /\ visit'[v].at = "flagFlush"
        /\ visit'[v].seen = visit[v].seen
    BY <1>2, MoveFacts DEF SetFlag, LateFills
  <2>2. /\ DOMAIN rows' = DOMAIN rows
        /\ \A q \in DOMAIN rows : /\ rows'[q].version = rows[q].version
                                  /\ rows'[q].syncedAt = rows[q].syncedAt
    BY <1>2 DEF SetFlag, CatSane, IsRow
  <2>3. Since' = Since
    BY <2>1, <2>2, SinceStays
  <2>4. RowsAge
    <3>1. \A p \in DOMAIN rows' : IsRow(rows'[p])
      BY <2>1 DEF CatSane, IsRow
    <3>2. time \in Nat /\ \A p \in DOMAIN rows : rows[p].syncedAt \in 0 .. time
      BY CatalogAssumption DEF CatSane, IsRow
    <3> QED
      BY <2>2, <3>1, <3>2 DEF RowsAge
  <2>5. WritesNow /\ (NoDeltaCause' => NoDeltaCause)
    BY <2>1, <2>2 DEF WritesNow, NoDeltaCause
  <2>6. SeenOk(visit[v])' /\ Held(visit'[v]) = {} /\ Held(visit[v]) = {}
    BY <2>1, <2>2 DEF DeltaInv, SeenOk, Held
  <2>7. NoDeltaCause => SeenNow(visit[v])'
    BY <2>1, <2>6 DEF DeltaInv, SeenNow
  <2> QED
    BY <2>1, <2>3, <2>4, <2>5, <2>6, <2>7, DeltaKeeps
<1> QED
  BY <1>1, <1>2 DEF AdminStep

(* A sync holds all of the ERP's products, or those it asks for. *)
LEMMA LoadDeltaKeeps ==
  ASSUME CatSane, CatSane', DeltaInv, NEW v \in Visits, LoadAll(v) \/ LoadDelta(v)
  PROVE  DeltaInv'
<1>1. PICK ids : /\ LoadProducts(v, ids)
                 /\ \A p \in DOMAIN article : p \in ids \/ ~(article[p] >= Since)
                 /\ \A p \in ids : p \in DOMAIN article
  BY DEF LoadAll, LoadDelta
<1>2. UNCHANGED <<article, rows, time, catCauses>> /\ visit[v].at \in {"load", "since"}
  BY DEF LoadAll, LoadDelta
<1>3. /\ StepOf(v) /\ visit'[v].at = "write"
      /\ visit'[v].seen = [p \in ids |-> [version |-> article[p], row |-> "unread"]]
  BY <1>1 DEF LoadProducts, CatSane, StepOf, VisitFields
<1>4. /\ DOMAIN visit'[v].seen = ids
      /\ \A p \in ids : visit'[v].seen[p] = [version |-> article[p], row |-> "unread"]
  BY <1>3
<1>5. RowsAge /\ WritesNow
  BY <1>2, CatalogAssumption DEF CatSane, IsRow, RowsAge, WritesNow
<1>6. Since' = Since /\ Since \in Nat
  BY <1>2, SinceStays, SinceGrows
<1>7. Held(visit[v]) = {} /\ Held(visit'[v]) = ids
  BY <1>2, <1>3, <1>4 DEF Held
<1>8. SeenOk(visit[v])'
  BY <1>3, <1>4, <1>7 DEF SeenOk
<1>9. SeenNow(visit[v])'
  <2>1. \A p : Behind(p)' => p \in ids \/ article[p] < Since
    <3> SUFFICES ASSUME NEW p, Behind(p)', p \notin ids
                 PROVE  article[p] < Since
      OBVIOUS
    <3>1. p \in DOMAIN article /\ article[p] \in Nat
      BY <1>2 DEF Behind, DeltaInv
    <3> QED
      BY <1>1, <1>6, <3>1
  <2>2. \A p \in DOMAIN visit'[v].seen :
          /\ p \in DOMAIN article /\ visit'[v].seen[p].version = article[p]
          /\ visit'[v].seen[p].row # "absent"
    <3> SUFFICES ASSUME NEW p \in ids
                 PROVE  /\ p \in DOMAIN article /\ visit'[v].seen[p].version = article[p]
                        /\ visit'[v].seen[p].row # "absent"
      BY <1>4
    <3>1. visit'[v].seen[p] = [version |-> article[p], row |-> "unread"]
      BY <1>4
    <3> QED
      BY <1>1, <3>1
  <2> QED
    BY <1>2, <1>4, <1>6, <1>7, <2>1, <2>2 DEF SeenNow
<1>10. NoDeltaCause' => NoDeltaCause
  BY <1>2 DEF NoDeltaCause
<1> QED
  BY <1>2, <1>3, <1>5, <1>6, <1>7, <1>8, <1>9, <1>10, DeltaKeeps

(* A sync looks whether a product has a row. *)
LEMMA FindDeltaKeeps ==
  ASSUME CatSane, CatSane', DeltaInv, NEW v \in Visits, NEW p, FindRow(v, p)
  PROVE  DeltaInv'
<1> DEFINE found == IF p \in DOMAIN rows THEN "there" ELSE "absent"
<1>1. UNCHANGED <<article, rows, time, catCauses>> /\ visit[v].at = "write"
      /\ p \in DOMAIN visit[v].seen
  BY DEF FindRow
<1>2. DOMAIN visit[v].seen[p] = {"version", "row"}
  BY <1>1 DEF DeltaInv, SeenOk
<1>3. /\ StepOf(v) /\ visit'[v].at = "write"
      /\ DOMAIN visit'[v].seen = DOMAIN visit[v].seen
      /\ \A q \in DOMAIN visit[v].seen : q # p => visit'[v].seen[q] = visit[v].seen[q]
      /\ visit'[v].seen[p] = [visit[v].seen[p] EXCEPT !.row = found]
  BY <1>1 DEF FindRow, CatSane, StepOf, VisitFields
<1>4. /\ DOMAIN visit'[v].seen[p] = {"version", "row"}
      /\ visit'[v].seen[p].version = visit[v].seen[p].version
      /\ visit'[v].seen[p].row = found
  BY <1>2, <1>3
<1>5. RowsAge /\ WritesNow
  BY <1>1, CatalogAssumption DEF CatSane, IsRow, RowsAge, WritesNow
<1>6. Since' = Since
  BY <1>1, SinceStays
<1>7. Held(visit[v]) = DOMAIN visit[v].seen /\ Held(visit'[v]) = DOMAIN visit[v].seen
  BY <1>1, <1>3 DEF Held
<1>8. SeenOk(visit[v])'
  <2>1. SeenOk(visit[v])
    BY DEF DeltaInv
  <2> QED
    BY <1>1, <1>3, <1>4, <1>7, <2>1 DEF SeenOk
<1>9. NoDeltaCause' => NoDeltaCause /\ SeenNow(visit[v])'
  <2> SUFFICES ASSUME NoDeltaCause'
               PROVE  NoDeltaCause /\ SeenNow(visit[v])'
    OBVIOUS
  <2>1. NoDeltaCause
    BY <1>1 DEF NoDeltaCause
  <2>2. SeenNow(visit[v])
    BY <2>1 DEF DeltaInv
  <2>3. \A q : Behind(q)' <=> Behind(q)
    BY <1>1 DEF Behind
  <2>4. \A q \in DOMAIN visit'[v].seen :
          q \in DOMAIN article /\ visit'[v].seen[q].version = article[q]
    BY <1>3, <1>4, <2>2 DEF SeenNow
  <2>5. \A q \in Held(visit'[v]) :
          visit'[v].seen[q].row = "absent" /\ q \in DOMAIN rows
            => rows[q].version = article[q]
    BY <1>3, <1>4, <1>7, <2>2 DEF SeenNow
  <2> QED
    BY <1>1, <1>6, <1>7, <2>1, <2>2, <2>3, <2>4, <2>5 DEF SeenNow
<1> QED
  BY <1>1, <1>3, <1>5, <1>6, <1>7, <1>8, <1>9, DeltaKeeps

(* A product in hand is written, or its write fails. *)
LEMMA WriteDeltaKeeps ==
  ASSUME CatSane, CatSane', DeltaInv, NEW v \in Visits, NEW p,
         UpdateRow(v, p) \/ CreateRow(v, p) \/ RowFails(v, p)
  PROVE  DeltaInv'
<1>1. /\ UNCHANGED <<article, time>> /\ visit[v].at = "write"
      /\ p \in DOMAIN visit[v].seen /\ Handled(v, p) /\ catCauses \subseteq catCauses'
  BY DEF UpdateRow, CreateRow, RowFails
<1>2. /\ StepOf(v) /\ visit'[v].at = "write"
      /\ visit'[v].seen = [q \in DOMAIN visit[v].seen \ {p} |-> visit[v].seen[q]]
  BY <1>1 DEF Handled, CatSane, StepOf, VisitFields
<1>3. /\ DOMAIN visit'[v].seen = DOMAIN visit[v].seen \ {p}
      /\ \A q \in DOMAIN visit[v].seen \ {p} : visit'[v].seen[q] = visit[v].seen[q]
  BY <1>2
<1>4. Held(visit[v]) = DOMAIN visit[v].seen
      /\ Held(visit'[v]) = DOMAIN visit[v].seen \ {p}
  BY <1>1, <1>2, <1>3 DEF Held
<1>5. RowsAge
  BY RowSteps, SameRows DEF RowsGrow, RowsAge, RowFails
<1>6. SeenOk(visit[v])
  BY DEF DeltaInv
<1>7. SeenOk(visit[v])'
  BY <1>2, <1>3, <1>4, <1>5, <1>6 DEF SeenOk, RowsAge
<1>8. ASSUME NoDeltaCause'
      PROVE  /\ NoDeltaCause /\ WritesNow /\ SeenNow(visit[v])'
             /\ \A q \in Held(visit[v]) : Behind(q)' => q \in Held(visit'[v])
  <2>1. NoDeltaCause /\ ~RowFails(v, p)
    BY <1>1, <1>8 DEF NoDeltaCause, RowFails
  <2>2. SeenNow(visit[v]) /\ p \in DOMAIN article
        /\ visit[v].seen[p].version = article[p]
    BY <1>1, <2>1 DEF DeltaInv, SeenNow
  <2>3. /\ \A q \in DOMAIN rows : q # p => q \in DOMAIN rows'
                                           /\ rows'[q].version = rows[q].version
        /\ \A q \in DOMAIN rows' : q = p \/ q \in DOMAIN rows
        /\ p \in DOMAIN rows' /\ rows'[p].version = article[p]
    <3>1. CASE UpdateRow(v, p)
      <4>1. p \in DOMAIN rows /\ DOMAIN rows[p] = {"version", "active", "syncedAt"}
        BY <1>1, <1>4, <1>6, <3>1 DEF UpdateRow, SeenOk, CatSane, IsRow
      <4> QED
        BY <2>2, <3>1, <4>1 DEF UpdateRow
    <3>2. CASE CreateRow(v, p)
      <4>1. p \in DOMAIN rows => rows[p].version = article[p]
        BY <1>1, <1>4, <2>2, <3>2 DEF CreateRow, SeenNow
      <4> QED
        BY <2>2, <3>2, <4>1 DEF CreateRow
    <3> QED
      BY <2>1, <3>1, <3>2
  <2>4. WritesNow
    BY <2>2, <2>3 DEF WritesNow
  <2>5. \A q : Behind(q)' => Behind(q) /\ q # p
    BY <1>1, <2>3 DEF Behind
  <2>6. Since \in Nat /\ Since' \in Nat /\ Since <= Since'
    BY <1>1, <1>5, SinceGrows
  <2>7. \A q : Behind(q)' => q \in Held(visit'[v]) \/ article[q] < Since'
    <3> SUFFICES ASSUME NEW q, Behind(q)', q \notin Held(visit'[v])
                 PROVE  article[q] < Since'
      OBVIOUS
    <3>1. Behind(q) /\ q # p /\ article[q] \in Nat
      BY <2>5 DEF Behind, DeltaInv
    <3>2. article[q] < Since
      BY <1>1, <1>4, <2>2, <3>1 DEF SeenNow
    <3> QED
      BY <2>6, <3>1, <3>2
  <2>8. \A q \in DOMAIN visit'[v].seen :
          q \in DOMAIN article /\ visit'[v].seen[q].version = article[q]
    BY <1>3, <2>2 DEF SeenNow
  <2>9. \A q \in Held(visit'[v]) :
          visit'[v].seen[q].row = "absent" /\ q \in DOMAIN rows'
            => rows'[q].version = article[q]
    BY <1>3, <1>4, <2>2, <2>3 DEF SeenNow
  <2>10. SeenNow(visit[v])'
    BY <1>1, <2>7, <2>8, <2>9 DEF SeenNow
  <2> QED
    BY <1>4, <2>1, <2>4, <2>5, <2>10
<1> QED
  BY <1>1, <1>2, <1>4, <1>5, <1>7, <1>8, DeltaKeeps

(* Every step of a sync. *)
LEMMA SyncDeltaKeeps ==
  ASSUME CatSane, CatSane', DeltaInv, NEW v \in Visits, SyncStep(v)
  PROVE  DeltaInv'
<1>1. CASE SyncCategories(v) \/ EndWrites(v) \/ FlushShop(v)
  <2>1. UNCHANGED <<article, rows, time>> /\ catCauses \subseteq catCauses'
    BY <1>1 DEF SyncCategories, EndWrites, FlushShop
  <2> QED
    BY <1>1, <2>1, MoveDelta DEF SyncCategories, EndWrites, FlushShop, Lookup
<1> QED
  BY <1>1, LoadDeltaKeeps, FindDeltaKeeps, WriteDeltaKeeps DEF SyncStep

SkipInv ==
  /\ ShopInv
  /\ DeltaInv
  /\ \A p \in DOMAIN article : p \in Products

(* The clock, the caches and the ERP. *)
LEMMA OutsideDelta ==
  ASSUME CatSane, DeltaInv,
         \/ Tick \/ CatExpire \/ UNCHANGED catVars
         \/ \E p \in Products : EditArticle(p)
  PROVE  DeltaInv'
<1>1. UNCHANGED <<rows, visit>> /\ Since' = Since
  <2>1. UNCHANGED <<rows, visit>>
    BY DEF Tick, CatExpire, EditArticle, catVars
  <2> QED
    BY <2>1 DEF Since
<1>2. \A v \in Visits : SeenOk(visit[v])'
  BY <1>1 DEF DeltaInv, SeenOk, Held
<1>3. CASE UNCHANGED <<article, catCauses>>
  <2>1. \A p : Behind(p)' <=> Behind(p)
    BY <1>1, <1>3 DEF Behind
  <2>2. \A v \in Visits : SeenNow(visit[v]) => SeenNow(visit[v])'
    BY <1>1, <1>3, <2>1 DEF SeenNow, Held
  <2>3. NothingSkipped => NothingSkipped'
    BY <1>1, <1>3, <2>1 DEF NothingSkipped
  <2>4. NoDeltaCause' => NoDeltaCause
    BY <1>3 DEF NoDeltaCause
  <2>5. \A p \in DOMAIN article' : article'[p] \in Nat
    BY <1>3 DEF DeltaInv
  <2> QED
    BY <1>2, <2>2, <2>3, <2>4, <2>5 DEF DeltaInv
<1>4. ASSUME NEW p \in Products, EditArticle(p)
      PROVE  DeltaInv'
  <2>1. /\ DOMAIN article' = DOMAIN article \cup {p}
        /\ article'[p] = time
        /\ \A q \in DOMAIN article : q # p => article'[q] = article[q]
        /\ time \in Nat
    BY <1>4, CatalogAssumption DEF EditArticle, CatSane
  <2>2. \A q \in DOMAIN article' : article'[q] \in Nat
    BY <2>1 DEF DeltaInv
  <2>3. ASSUME NoDeltaCause'
        PROVE  NothingSkipped' /\ \A v \in Visits : SeenNow(visit[v])'
    <3>1. /\ NoDeltaCause
          /\ \A v \in Visits : DOMAIN visit[v].seen = {}
      BY <1>4, <2>3 DEF EditArticle, NoDeltaCause, Holding
    <3>2. \A v \in Visits : Held(visit[v]) = {}
      BY <3>1 DEF Held
    <3>3. \A v \in Visits : SeenNow(visit[v])'
      BY <1>1, <3>1, <3>2 DEF SeenNow, Held
    <3>4. NothingSkipped'
      <4> SUFFICES ASSUME NEW q, Behind(q)'
                   PROVE  article'[q] >= Since'
        BY DEF NothingSkipped
      <4>1. CASE q = p
        BY <1>1, <2>1, <4>1, SinceGrows
      <4>2. CASE q # p
        <5>1. Behind(q) /\ article'[q] = article[q]
          BY <1>1, <2>1, <4>2 DEF Behind
        <5> QED
          BY <1>1, <3>1, <3>2, <5>1 DEF DeltaInv, NothingSkipped
      <4> QED
        BY <4>1, <4>2
    <3> QED
      BY <3>3, <3>4
  <2> QED
    BY <1>2, <2>2, <2>3 DEF DeltaInv
<1> QED
  BY <1>3, <1>4 DEF Tick, CatExpire, catVars

(* The initial state. *)
LEMMA InitSkip == CatInit => SkipInv
<1> SUFFICES ASSUME CatInit
             PROVE  SkipInv
  OBVIOUS
<1>1. /\ DOMAIN article = OldProducts /\ DOMAIN rows = OldProducts
      /\ \A p \in OldProducts : article[p] = 0 /\ rows[p].version = 0
  BY DEF CatInit
<1>2. \A v \in Visits : visit[v].at = "idle" /\ DOMAIN visit[v].seen = {}
  BY DEF CatInit, NoneSeen
<1>3. \A p : ~Behind(p)
  BY <1>1 DEF Behind
<1>4. \A v \in Visits : SeenOk(visit[v]) /\ SeenNow(visit[v])
  BY <1>2 DEF SeenOk, SeenNow, Held
<1> QED
  BY <1>1, <1>3, <1>4, InitShop, CatalogAssumption DEF SkipInv, DeltaInv, NothingSkipped

(* No step takes the invariant away. *)
LEMMA NextSkip == SkipInv /\ [CatNext]_catVars => SkipInv'
<1> SUFFICES ASSUME SkipInv, [CatNext]_catVars
             PROVE  SkipInv'
  OBVIOUS
<1>1. ShopInv' /\ CatSane /\ CatSane' /\ DeltaInv
      /\ \A p \in DOMAIN article : p \in Products
  BY NextShop DEF SkipInv, ShopInv
<1>2. CASE Tick \/ CatExpire \/ UNCHANGED catVars \/ (\E p \in Products : EditArticle(p))
  <2>1. DeltaInv'
    BY <1>1, <1>2, OutsideDelta
  <2>2. \A p \in DOMAIN article' : p \in Products
    BY <1>1, <1>2 DEF Tick, CatExpire, EditArticle, catVars
  <2> QED
    BY <1>1, <2>1, <2>2 DEF SkipInv
<1>3. ASSUME NEW v \in Visits, Begin(v) \/ SyncStep(v) \/ ReadStep(v) \/ AdminStep(v) \/ Abandon(v)
      PROVE  SkipInv'
  <2>1. DeltaInv'
    BY <1>1, <1>3, StartDeltaKeeps, SyncDeltaKeeps, ReadDeltaKeeps, UpsertDeltaKeeps,
       AdminDeltaKeeps
  <2>2. article' = article
    <3>1. CASE Begin(v) \/ Abandon(v)
      BY <3>1 DEF Begin, Abandon, StartSyncAll, StartDelta, StartShop, StartCategory,
                  StartPage, StartFlag
    <3>2. CASE SyncStep(v)
      BY <1>1, <3>2, SyncFacts
    <3>3. CASE ReadStep(v)
      BY <3>3 DEF ReadStep, LookupIds, QueryIds, KeepIds, QueryShop, KeepShop, PageRow,
                  PageErp, PageRefused, PageUpsert, KeepPage
    <3>4. CASE AdminStep(v)
      BY <3>4 DEF AdminStep, SetFlag, SetCategory, FlushFlag, FlushCategory
    <3> QED
      BY <1>3, <3>1, <3>2, <3>3, <3>4
  <2> QED
    BY <1>1, <2>1, <2>2 DEF SkipInv
<1> QED
  BY <1>2, <1>3 DEF CatNext

(* For any products and requests: whatever the rows lack, the next delta   *)
(* sync asks for, but for the named causes.                                *)
THEOREM DeltaAsksForAll == CatSpec => []DeltaSkipsNothing
<1>1. SkipInv => DeltaSkipsNothing
  <2> SUFFICES ASSUME SkipInv, CatQuiet, NoDeltaCause, NEW p \in Products, Behind(p)
               PROVE  article[p] >= Since
    BY DEF DeltaSkipsNothing, NoDeltaCause
  <2>1. \A v \in Visits : Held(visit[v]) = {}
    BY DEF CatQuiet, Held
  <2> QED
    BY <2>1 DEF SkipInv, DeltaInv, NothingSkipped
<1> QED
  BY <1>1, InitSkip, NextSkip, PTL DEF CatSpec

-----------------------------------------------------------------------------
(* Products: the shape of the state *)

Looking == {"ids", "idsQuery", "idsKeep"}

(* A request looks the categories up before it writes a row. *)
BeforeUpsert(x) == x.at = "pageUpsert" \/ (x.at \in Looking /\ x.from = "pageUpsert")

(* It holds the ERP's products while a sync writes them, or before it      *)
(* writes the one that is shown; and then it does hold that one.           *)
VisitOK(x) ==
  /\ x \in Visit
  /\ DOMAIN x.seen # {} => x.at = "write" \/ BeforeUpsert(x)
  /\ BeforeUpsert(x) => x.about \in DOMAIN x.seen

RowSets == UNION {[ids -> Row] : ids \in SUBSET Products}

CatTypeInv ==
  /\ time \in Time /\ article \in Versions /\ rows \in RowSets
  /\ category \in BOOLEAN /\ idsCache \subseteq BOOLEAN
  /\ shopCache \subseteq SUBSET Products /\ pageCache \subseteq Products
  /\ visit \in [Visits -> Visit]
  /\ \A v \in Visits : VisitOK(visit[v])
  /\ catCauses \subseteq {"editDuringSync", "rowFailed", "viewed", "lateFill",
                          "flushLost", "syncCut"}

(* The functions of the state. *)
LEMMA TypedFunctions ==
  ASSUME CatTypeInv
  PROVE  /\ DOMAIN article \subseteq Products /\ \A p \in DOMAIN article : article[p] \in Time
         /\ DOMAIN rows \subseteq Products /\ \A p \in DOMAIN rows : rows[p] \in Row
         /\ article \in [DOMAIN article -> Time] /\ rows \in [DOMAIN rows -> Row]
BY DEF CatTypeInv, Versions, RowSets

(* What a request has in hand. *)
LEMMA SeenFacts ==
  ASSUME CatTypeInv, NEW v \in Visits
  PROVE  /\ visit[v] \in Visit /\ VisitOK(visit[v])
         /\ DOMAIN visit[v].seen \subseteq Products
         /\ visit[v].seen \in [DOMAIN visit[v].seen -> [version : Time, row : Find]]
<1>1. visit[v] \in Visit /\ VisitOK(visit[v])
  BY DEF CatTypeInv
<1>2. visit[v].seen \in Loaded
  BY <1>1 DEF Visit
<1> QED
  BY <1>1, <1>2 DEF Loaded

(* One request takes a step. *)
VisitsOK == visit \in [Visits -> Visit] /\ \A w \in Visits : VisitOK(visit[w])

LEMMA VisitsType ==
  ASSUME CatTypeInv, NEW v \in Visits, NEW x, VisitOK(x), visit' = [visit EXCEPT ![v] = x]
  PROVE  VisitsOK'
<1>1. visit \in [Visits -> Visit] /\ \A w \in Visits : VisitOK(visit[w])
  BY DEF CatTypeInv
<1>2. \A w \in Visits : visit'[w] = IF w = v THEN x ELSE visit[w]
  BY <1>1
<1>3. x \in Visit
  BY DEF VisitOK
<1>4. visit' \in [Visits -> Visit]
  BY <1>1, <1>3
<1>5. \A w \in Visits : VisitOK(visit'[w])
  BY <1>1, <1>2
<1> QED
  BY <1>4, <1>5 DEF VisitsOK

(* Nothing in hand, and another stage. *)
LEMMA EmptyHands == NoneSeen \in Loaded /\ DOMAIN NoneSeen = {}
<1>1. NoneSeen \in [{} -> [version : Time, row : Find]]
  BY DEF NoneSeen
<1> QED
  BY <1>1 DEF Loaded, NoneSeen

LEMMA StageType ==
  ASSUME CatTypeInv, NEW v \in Visits, NEW stage \in Stages, DOMAIN visit[v].seen = {},
         Move(v, stage), stage \notin Looking \cup {"pageUpsert"}
  PROVE  VisitsOK'
<1>1. visit[v] \in Visit
  BY SeenFacts
<1>2. VisitOK([visit[v] EXCEPT !.at = stage])
  BY <1>1 DEF VisitOK, Visit, BeforeUpsert, Looking
<1> QED
  BY <1>2, VisitsType DEF Move

(* A request begins. *)
LEMMA BeginTypes ==
  ASSUME CatTypeInv, NEW v \in Visits, Begin(v)
  PROVE  VisitsOK'
<1>1. visit[v] \in Visit /\ visit[v].at = "idle" /\ DOMAIN visit[v].seen = {}
  BY SeenFacts DEF Begin, StartSyncAll, StartDelta, StartShop, StartCategory, StartPage, StartFlag,
                   VisitOK, BeforeUpsert, Looking
<1>2. CASE StartSyncAll(v) \/ StartDelta(v) \/ StartCategory(v)
  BY <1>1, <1>2, StageType DEF StartSyncAll, StartDelta, StartCategory, Stages, Looking
<1>3. CASE StartShop(v)
  <2>1. \E stage \in {"ids", "done"} :
          visit' = [visit EXCEPT ![v] = [visit[v] EXCEPT !.at = stage, !.from = "query"]]
    BY <1>3 DEF StartShop
  <2>2. \A stage \in {"ids", "done"} : VisitOK([visit[v] EXCEPT !.at = stage, !.from = "query"])
    BY <1>1 DEF VisitOK, Visit, BeforeUpsert, Looking, Stages
  <2> QED
    BY <2>1, <2>2, VisitsType
<1>4. ASSUME NEW p \in Products, StartPage(v, p) \/ StartFlag(v, p)
      PROVE  VisitsOK'
  <2>1. \E stage \in {"done", "pageRow", "flag"} :
          visit' = [visit EXCEPT ![v] = [visit[v] EXCEPT !.at = stage, !.about = p]]
    BY <1>4 DEF StartPage, StartFlag
  <2>2. \A stage \in {"done", "pageRow", "flag"} :
          VisitOK([visit[v] EXCEPT !.at = stage, !.about = p])
    BY <1>1 DEF VisitOK, Visit, BeforeUpsert, Looking, Stages
  <2> QED
    BY <2>1, <2>2, VisitsType
<1> QED
  BY <1>2, <1>3, <1>4 DEF Begin

(* A sync goes on. *)
LEMMA SyncTypes ==
  ASSUME CatTypeInv, NEW v \in Visits, SyncStep(v)
  PROVE  VisitsOK'
<1> DEFINE x == visit[v]
<1>1. /\ x \in Visit /\ VisitOK(x) /\ DOMAIN x.seen \subseteq Products
      /\ x.seen \in [DOMAIN x.seen -> [version : Time, row : Find]]
  BY SeenFacts
<1>2. CASE SyncCategories(v) \/ EndWrites(v) \/ FlushShop(v)
  <2>1. DOMAIN x.seen = {}
    BY <1>1, <1>2 DEF SyncCategories, EndWrites, FlushShop, VisitOK, BeforeUpsert, Looking
  <2> QED
    BY <1>2, <2>1, StageType DEF SyncCategories, EndWrites, FlushShop, Stages, Looking
<1>3. ASSUME NEW seen \in Loaded, x.at = "write", visit' = [visit EXCEPT ![v].seen = seen]
      PROVE  VisitsOK'
  <2>1. VisitOK([x EXCEPT !.seen = seen])
    BY <1>1, <1>3 DEF VisitOK, Visit, BeforeUpsert, Looking
  <2> QED
    BY <1>3, <2>1, VisitsType
<1>4. CASE LoadAll(v) \/ LoadDelta(v)
  <2>1. PICK ids \in SUBSET DOMAIN article : LoadProducts(v, ids)
    BY <1>4 DEF LoadAll, LoadDelta
  <2> DEFINE seen == [p \in ids |-> [version |-> article[p], row |-> "unread"]]
  <2>2. seen \in Loaded
    <3>1. seen \in [ids -> [version : Time, row : Find]] /\ ids \in SUBSET Products
      BY TypedFunctions DEF Find
    <3> HIDE DEF seen
    <3> QED
      BY <3>1 DEF Loaded
  <2>3. visit' = [visit EXCEPT ![v] = [x EXCEPT !.at = "write", !.seen = seen]]
    BY <2>1 DEF LoadProducts
  <2> HIDE DEF seen
  <2>4. VisitOK([x EXCEPT !.at = "write", !.seen = seen])
    BY <1>1, <2>2 DEF VisitOK, Visit, BeforeUpsert, Looking, Stages
  <2> QED
    BY <2>3, <2>4, VisitsType
<1>5. ASSUME NEW p \in Products, FindRow(v, p)
      PROVE  VisitsOK'
  <2>1. PICK r \in Find : visit' = [visit EXCEPT ![v].seen[p].row = r]
    BY <1>5 DEF FindRow, Find
  <2> DEFINE seen == [x.seen EXCEPT ![p].row = r]
  <2>2. seen \in [DOMAIN x.seen -> [version : Time, row : Find]]
    BY <1>1
  <2>3. seen \in Loaded
    BY <1>1, <2>2 DEF Loaded
  <2>4. visit' = [visit EXCEPT ![v].seen = seen]
    BY <2>1
  <2> HIDE DEF seen
  <2> QED
    BY <1>3, <1>5, <2>3, <2>4 DEF FindRow
<1>6. ASSUME NEW p \in Products, Handled(v, p), x.at = "write"
      PROVE  VisitsOK'
  <2> DEFINE seen == [q \in DOMAIN x.seen \ {p} |-> x.seen[q]]
  <2>1. seen \in [DOMAIN x.seen \ {p} -> [version : Time, row : Find]]
        /\ DOMAIN x.seen \ {p} \in SUBSET Products
    BY <1>1
  <2>2. seen \in Loaded
    BY <2>1 DEF Loaded
  <2>3. visit' = [visit EXCEPT ![v].seen = seen]
    BY <1>6 DEF Handled
  <2> HIDE DEF seen
  <2> QED
    BY <1>3, <1>6, <2>2, <2>3
<1> QED
  BY <1>2, <1>4, <1>5, <1>6 DEF SyncStep, UpdateRow, CreateRow, RowFails

(* A reader goes on. *)
LEMMA ReadTypes ==
  ASSUME CatTypeInv, NEW v \in Visits, ReadStep(v)
  PROVE  VisitsOK'
<1> DEFINE x == visit[v]
<1>1. x \in Visit /\ VisitOK(x) /\ category \in BOOLEAN /\ idsCache \subseteq BOOLEAN
  BY SeenFacts DEF CatTypeInv
<1>2. CASE LookupIds(v) \/ KeepIds(v)
  <2>1. \/ visit' = [visit EXCEPT ![v] = [x EXCEPT !.at = "idsQuery"]]
        \/ \E ids \in BOOLEAN : visit' = [visit EXCEPT ![v] = [x EXCEPT !.at = x.from, !.ids = ids]]
        \/ visit' = [visit EXCEPT ![v] = [x EXCEPT !.at = x.from]]
    BY <1>1, <1>2 DEF LookupIds, KeepIds, Move
  <2>2. x.at \in Looking
    BY <1>2 DEF LookupIds, KeepIds, Looking
  <2>3. /\ VisitOK([x EXCEPT !.at = "idsQuery"]) /\ VisitOK([x EXCEPT !.at = x.from])
        /\ \A ids \in BOOLEAN : VisitOK([x EXCEPT !.at = x.from, !.ids = ids])
    BY <1>1, <2>2 DEF VisitOK, Visit, BeforeUpsert, Looking, Stages
  <2> QED
    BY <2>1, <2>3, VisitsType
<1>3. CASE QueryIds(v)
  <2>1. VisitOK([x EXCEPT !.at = "idsKeep", !.ids = category])
    BY <1>1, <1>3 DEF QueryIds, VisitOK, Visit, BeforeUpsert, Looking, Stages
  <2> QED
    BY <1>3, <2>1, VisitsType DEF QueryIds
<1>4. CASE QueryShop(v)
  <2> DEFINE shop == {p \in DOMAIN rows : rows[p].active /\ visit[v].ids}
  <2>1. shop \in SUBSET Products
    BY TypedFunctions
  <2>2. visit' = [visit EXCEPT ![v] = [x EXCEPT !.at = "keep", !.shop = shop]]
    BY <1>4 DEF QueryShop
  <2> HIDE DEF shop
  <2>3. VisitOK([x EXCEPT !.at = "keep", !.shop = shop])
    BY <1>1, <1>4, <2>1 DEF QueryShop, VisitOK, Visit, BeforeUpsert, Looking, Stages
  <2> QED
    BY <2>2, <2>3, VisitsType
<1>5. CASE KeepShop(v) \/ KeepPage(v)
  <2>1. DOMAIN x.seen = {}
    BY <1>1, <1>5 DEF KeepShop, KeepPage, VisitOK, BeforeUpsert, Looking
  <2> QED
    BY <1>5, <2>1, StageType DEF KeepShop, KeepPage, Stages, Looking
<1>6. CASE PageRow(v)
  <2>1. \E stage \in {"done", "ids", "page"} :
          visit' = [visit EXCEPT ![v] = [x EXCEPT !.at = stage, !.from = "pageErp"]]
    BY <1>6 DEF PageRow
  <2>2. \A stage \in {"done", "ids", "page"} : VisitOK([x EXCEPT !.at = stage, !.from = "pageErp"])
    BY <1>1, <1>6 DEF PageRow, VisitOK, Visit, BeforeUpsert, Looking, Stages
  <2> QED
    BY <2>1, <2>2, VisitsType
<1>7. CASE PageErp(v)
  <2>1. DOMAIN x.seen = {}
    BY <1>1, <1>7 DEF PageErp, VisitOK, BeforeUpsert, Looking
  <2>2. CASE x.about \in DOMAIN article
    <3> DEFINE seen == [q \in {x.about} |-> [version |-> article[q], row |-> "unread"]]
    <3>1. seen \in [{x.about} -> [version : Time, row : Find]] /\ {x.about} \in SUBSET Products
      BY <2>2, TypedFunctions DEF Find
    <3>2. seen \in Loaded
      BY <3>1 DEF Loaded
    <3>3. visit' = [visit EXCEPT ![v] = [x EXCEPT !.at = "ids", !.from = "pageUpsert", !.seen = seen]]
      BY <1>7, <2>2 DEF PageErp
    <3>4. DOMAIN seen = {x.about}
      OBVIOUS
    <3> HIDE DEF seen
    <3>5. VisitOK([x EXCEPT !.at = "ids", !.from = "pageUpsert", !.seen = seen])
      BY <1>1, <3>2, <3>4 DEF VisitOK, Visit, BeforeUpsert, Looking, Stages
    <3> QED
      BY <3>3, <3>5, VisitsType
  <2>3. CASE x.about \notin DOMAIN article
    BY <1>7, <2>1, <2>3, StageType DEF PageErp, Stages, Looking
  <2> QED
    BY <2>2, <2>3
<1>8. ASSUME NEW stage \in {"done", "pageKeep"},
             visit' = [visit EXCEPT ![v].at = stage, ![v].seen = NoneSeen]
      PROVE  VisitsOK'
  <2>1. VisitOK([x EXCEPT !.at = stage, !.seen = NoneSeen])
    BY <1>1, EmptyHands DEF VisitOK, Visit, BeforeUpsert, Looking, Stages
  <2> QED
    BY <1>8, <2>1, VisitsType
<1> QED
  BY <1>2, <1>3, <1>4, <1>5, <1>6, <1>7, <1>8 DEF ReadStep, PageRefused, PageUpsert

(* An administrator's request goes on, or any is abandoned. *)
LEMMA AdminTypes ==
  ASSUME CatTypeInv, NEW v \in Visits, AdminStep(v) \/ Abandon(v)
  PROVE  VisitsOK'
<1>1. visit[v] \in Visit /\ VisitOK(visit[v])
  BY SeenFacts
<1>2. CASE AdminStep(v)
  <2>1. DOMAIN visit[v].seen = {}
    BY <1>1, <1>2 DEF AdminStep, SetFlag, SetCategory, FlushFlag, FlushCategory, VisitOK,
                      BeforeUpsert, Looking
  <2> QED
    BY <1>2, <2>1, StageType DEF AdminStep, SetFlag, SetCategory, FlushFlag, FlushCategory, Stages, Looking
<1>3. CASE Abandon(v)
  <2>1. VisitOK([visit[v] EXCEPT !.at = "done", !.seen = NoneSeen])
    BY <1>1, EmptyHands DEF VisitOK, Visit, BeforeUpsert, Looking, Stages
  <2> QED
    BY <1>3, <2>1, VisitsType, ZenonT(30) DEF Abandon
<1> QED
  BY <1>2, <1>3

(* The rows that are written are rows. *)
LEMMA RowsType ==
  ASSUME CatTypeInv, NEW v \in Visits,
         SyncStep(v) \/ ReadStep(v) \/ AdminStep(v)
  PROVE  rows' \in RowSets
<1>1. /\ DOMAIN rows \subseteq Products /\ rows \in [DOMAIN rows -> Row] /\ rows \in RowSets
      /\ time \in Time
  BY TypedFunctions DEF CatTypeInv
<1>2. /\ visit[v].seen \in [DOMAIN visit[v].seen -> [version : Time, row : Find]]
      /\ visit[v] \in Visit /\ VisitOK(visit[v])
  BY SeenFacts
<1>3. ASSUME NEW p \in Products, UpdateRow(v, p)
      PROVE  rows' \in RowSets
  <2>1. visit[v].seen[p].version \in Time
    BY <1>2, <1>3 DEF UpdateRow
  <2>2. rows' \in [DOMAIN rows -> Row]
    BY <1>1, <1>3, <2>1 DEF UpdateRow, Row
  <2> QED
    BY <1>1, <2>2 DEF RowSets
<1>4. ASSUME NEW p \in Products, CreateRow(v, p)
      PROVE  rows' \in RowSets
  <2>1. visit[v].seen[p].version \in Time
    BY <1>2, <1>4 DEF CreateRow
  <2>2. [version |-> visit[v].seen[p].version, active |-> TRUE, syncedAt |-> time] \in Row
    BY <1>1, <2>1 DEF Row
  <2>3. rows' \in [DOMAIN rows \cup {p} -> Row] /\ DOMAIN rows \cup {p} \in SUBSET Products
    BY <1>1, <1>4, <2>2 DEF CreateRow
  <2> QED
    BY <2>3 DEF RowSets
<1>5. CASE PageUpsert(v)
  <2> DEFINE p == visit[v].about
             r == [version |-> visit[v].seen[p].version, active |-> ~Hidden(p), syncedAt |-> time]
  <2>1. p \in Products /\ p \in DOMAIN visit[v].seen
    BY <1>2, <1>5 DEF PageUpsert, VisitOK, BeforeUpsert, Visit
  <2>2. visit[v].seen[p].version \in Time
    BY <1>2, <2>1
  <2>3. r \in Row
    BY <1>1, <2>2 DEF Row, Hidden
  <2>4. rows' = [q \in DOMAIN rows \cup {p} |-> IF q # p THEN rows[q] ELSE r]
    BY <1>5 DEF PageUpsert
  <2> HIDE DEF p, r
  <2>5. rows' \in [DOMAIN rows \cup {p} -> Row] /\ DOMAIN rows \cup {p} \in SUBSET Products
    BY <1>1, <2>1, <2>3, <2>4
  <2> QED
    BY <2>5 DEF RowSets
<1>6. ASSUME NEW active \in BOOLEAN, SetFlag(v, active)
      PROVE  rows' \in RowSets
  <2>1. rows' \in [DOMAIN rows -> Row]
    BY <1>1, <1>6 DEF SetFlag, Row
  <2> QED
    BY <1>1, <2>1 DEF RowSets
<1>7. rows' = rows \/ PageUpsert(v) \/ (\E active \in BOOLEAN : SetFlag(v, active))
        \/ \E p \in Products : UpdateRow(v, p) \/ CreateRow(v, p)
  BY DEF SyncStep, SyncCategories, LoadAll, LoadDelta, EndWrites, FlushShop, FindRow, RowFails,
         ReadStep, LookupIds, QueryIds, KeepIds, QueryShop, KeepShop, PageRow, PageErp, PageRefused,
         KeepPage, AdminStep, SetCategory, FlushFlag, FlushCategory
<1> QED
  BY <1>1, <1>3, <1>4, <1>5, <1>6, <1>7

(* So are the flags and the caches. *)
LEMMA CachesType ==
  ASSUME CatTypeInv, NEW v \in Visits,
         Begin(v) \/ SyncStep(v) \/ ReadStep(v) \/ AdminStep(v) \/ Abandon(v)
  PROVE  /\ UNCHANGED <<time, article>>
         /\ category' \in BOOLEAN /\ idsCache' \subseteq BOOLEAN
         /\ shopCache' \subseteq SUBSET Products /\ pageCache' \subseteq Products
         /\ catCauses' \subseteq {"editDuringSync", "rowFailed", "viewed", "lateFill",
                                  "flushLost", "syncCut"}
<1>1. /\ category \in BOOLEAN /\ idsCache \subseteq BOOLEAN
      /\ shopCache \subseteq SUBSET Products /\ pageCache \subseteq Products
      /\ catCauses \subseteq {"editDuringSync", "rowFailed", "viewed", "lateFill",
                              "flushLost", "syncCut"}
      /\ visit[v].ids \in BOOLEAN /\ visit[v].shop \subseteq Products /\ visit[v].about \in Products
  BY SeenFacts DEF CatTypeInv, Visit
<1>2. CASE Begin(v) \/ Abandon(v)
  BY <1>1, <1>2 DEF Begin, StartSyncAll, StartDelta, StartShop, StartCategory, StartPage, StartFlag,
                    Abandon
<1>3. CASE SyncStep(v)
  BY <1>1, <1>3 DEF SyncStep, SyncCategories, LoadAll, LoadDelta, EndWrites, FlushShop, FindRow,
                    UpdateRow, CreateRow, RowFails
<1>4. CASE ReadStep(v)
  <2>1. CASE LookupIds(v) \/ QueryIds(v) \/ KeepIds(v) \/ QueryShop(v) \/ KeepShop(v)
    BY <1>1, <2>1 DEF LookupIds, QueryIds, KeepIds, QueryShop, KeepShop
  <2>2. CASE PageRow(v) \/ PageErp(v) \/ PageRefused(v) \/ PageUpsert(v) \/ KeepPage(v)
    BY <1>1, <2>2 DEF PageRow, PageErp, PageRefused, PageUpsert, KeepPage
  <2> QED
    BY <1>4, <2>1, <2>2 DEF ReadStep
<1>5. CASE AdminStep(v)
  BY <1>1, <1>5 DEF AdminStep, SetFlag, SetCategory, FlushFlag, FlushCategory, LateFills
<1> QED
  BY <1>2, <1>3, <1>4, <1>5

(* The first state. *)
LEMMA InitCatTypes == CatInit => CatTypeInv
<1> SUFFICES ASSUME CatInit
             PROVE  CatTypeInv
  OBVIOUS
<1>1. 0 \in Time
  BY CatalogAssumption DEF Time
<1>2. article \in [OldProducts -> Time] /\ rows \in [OldProducts -> Row]
  BY <1>1 DEF CatInit, Row
<1>3. article \in Versions /\ rows \in RowSets
  BY <1>2, CatalogAssumption DEF Versions, RowSets
<1> DEFINE about == CHOOSE p \in Products : TRUE
           x     == [at |-> "idle", from |-> "query", ids |-> TRUE, about |-> about,
                     seen |-> NoneSeen, shop |-> {}]
<1>4. about \in Products
  BY CatalogAssumption
<1>5. visit = [v \in Visits |-> x]
  BY DEF CatInit
<1> HIDE DEF about
<1>6. VisitOK(x)
  BY <1>4, EmptyHands DEF VisitOK, Visit, BeforeUpsert, Looking, Stages
<1>7. x \in Visit
  BY <1>6 DEF VisitOK
<1> HIDE DEF x
<1>8. visit \in [Visits -> Visit] /\ \A v \in Visits : VisitOK(visit[v])
  BY <1>5, <1>6, <1>7
<1> QED
  BY <1>1, <1>3, <1>8 DEF CatInit, CatTypeInv

(* Every step. *)
LEMMA NextCatTypes == CatTypeInv /\ [CatNext]_catVars => CatTypeInv'
<1> SUFFICES ASSUME CatTypeInv, [CatNext]_catVars
             PROVE  CatTypeInv'
  OBVIOUS
<1>1. CASE UNCHANGED catVars
  BY <1>1 DEF catVars, CatTypeInv
<1>2. CASE Tick
  <2>1. time' \in Time
    BY <1>2, CatalogAssumption DEF Tick, CatTypeInv, Time
  <2> QED
    BY <1>2, <2>1 DEF Tick, CatTypeInv
<1>3. CASE CatExpire
  BY <1>3 DEF CatExpire, CatTypeInv
<1>4. ASSUME NEW p \in Products, EditArticle(p)
      PROVE  CatTypeInv'
  <2>1. article' \in [DOMAIN article \cup {p} -> Time] /\ DOMAIN article \cup {p} \in SUBSET Products
    BY <1>4, TypedFunctions DEF EditArticle, CatTypeInv
  <2>2. article' \in Versions
    BY <2>1 DEF Versions
  <2> QED
    BY <1>4, <2>2 DEF EditArticle, CatTypeInv
<1>5. ASSUME NEW v \in Visits,
             Begin(v) \/ SyncStep(v) \/ ReadStep(v) \/ AdminStep(v) \/ Abandon(v)
      PROVE  CatTypeInv'
  <2>1. VisitsOK'
    BY <1>5, BeginTypes, SyncTypes, ReadTypes, AdminTypes
  <2>2. rows' \in RowSets
    <3>1. CASE SyncStep(v) \/ ReadStep(v) \/ AdminStep(v)
      BY <3>1, RowsType
    <3>2. CASE Begin(v) \/ Abandon(v)
      BY <3>2 DEF Begin, StartSyncAll, StartDelta, StartShop, StartCategory, StartPage, StartFlag,
                  Abandon, CatTypeInv
    <3> QED
      BY <1>5, <3>1, <3>2
  <2> QED
    BY <1>5, <2>1, <2>2, CachesType DEF CatTypeInv, VisitsOK
<1> QED
  BY <1>1, <1>2, <1>3, <1>4, <1>5 DEF CatNext

(* Only a sync that writes, or a page on its way to its own row, holds the *)
(* ERP's products; and a page that comes to write its row has that very    *)
(* product in hand: syncProducts, syncProductsDelta and getProductById of  *)
(* products.service.ts.                                                    *)
THEOREM CatalogTypesKept == CatSpec => []CatTypeOK
<1>1. CatTypeInv => CatTypeOK
  BY DEF CatTypeInv, CatTypeOK, RowSets, VisitOK, BeforeUpsert, Looking, Holding
<1> QED
  BY <1>1, InitCatTypes, NextCatTypes, PTL DEF CatSpec

-----------------------------------------------------------------------------
(* The back office as a whole *)

(* A step of the whole is a step of one part; the others stay.  Each part  *)
(* of the whole therefore behaves as it does alone, and every theorem of   *)
(* this module and of CustomersProofs holds of it there: the modules of    *)
(* apps/api that MCBackOffice.tla composes share no state it models.       *)
THEOREM OfficeIsItsParts == OfficeSpec => CustSpec /\ CatSpec /\ PricesSpec /\ RemSpec /\ AccSpec
<1>1. OfficeInit => CustInit /\ CatInit /\ PricesInit /\ RemInit /\ AccInit
  BY DEF OfficeInit
<1>2. [OfficeNext]_OfficeVars =>
        /\ [CustNext]_custVars /\ [CatNext]_catVars /\ [PricesNext]_priceVars
        /\ [RemNext]_remVars /\ [AccNext]_accVars
  BY DEF OfficeNext, OfficeVars
<1> QED
  BY <1>1, <1>2, PTL DEF OfficeSpec, CustSpec, CatSpec, PricesSpec, RemSpec, AccSpec

(* Every part keeps its shape, whatever part moves: the types that a run   *)
(* checks on a small instance, for any customers, requests, products,      *)
(* prices, rules, processes, deliveries and administrators.                *)
THEOREM OfficeTypesKept == OfficeSpec => []OfficeTypeOK
<1>1. CustTypeOK /\ CatTypeOK /\ PricesTypeOK /\ RemTypeOK /\ AccTypeOK => OfficeTypeOK
  BY DEF OfficeTypeOK
<1> QED
  BY <1>1, OfficeIsItsParts, ShapeKept, CatalogTypesKept, PriceTypesKept, ReminderTypesKept,
     TypesKept, PTL

=============================================================================
