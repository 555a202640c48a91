---------------------------- MODULE ShopAccounts ----------------------------
(***************************************************************************)
(* Where the customers of a branch pay to: the shop's profile and its      *)
(* PromptPay accounts, one of which is active and is copied to the profile *)
(* (PaymentAccount and shopProfile services under src/src/services/pos).   *)
(*                                                                         *)
(* Nothing here runs in a transaction: an activation deactivates all       *)
(* accounts, saves its own and copies it to the profile, three statements  *)
(* that other requests, or a failure, may come between.  The profile is    *)
(* made by whoever first finds none, and no index keeps a second one out.  *)
(* Wrong... definitions are mutations of the definition after them.        *)
(***************************************************************************)
EXTENDS Naturals, FiniteSets

CONSTANTS
  Shops,      \* the rows of shop_profile that the branch may get
  PromptPays, \* the identifiers of accounts
  Numbers,    \* PromptPay numbers
  Clerks,     \* the concurrent requests
  Breaks      \* whether a database call may fail

VARIABLES
  profiles,   \* profiles[s]: the number in the profile, "unset", or "absent"
  accounts,   \* accounts[a]: the account, or NoAccount
  clerks      \* where each request is

shopVars == <<profiles, accounts, clerks>>

ASSUME ShopNumbers == Numbers \cap {"unset", "absent"} = {}

NoAccount == [shop |-> "none", num |-> "unset", active |-> FALSE]
Account(s, n, on) == [shop |-> s, num |-> n, active |-> on]
NoClerk == [at |-> "idle", op |-> "none", shop |-> "none", acc |-> "none",
            num |-> "unset", wish |-> FALSE, row |-> NoAccount, alone |-> FALSE]

AccountsOf(s) == {a \in PromptPays : accounts[a].shop = s}
ActiveOf(s)   == {a \in AccountsOf(s) : accounts[a].active}
ShopRows      == {s \in Shops : profiles[s] # "absent"}

At(c, place) == clerks[c].at = place
To(c, place) == clerks' = [clerks EXCEPT ![c].at = place]
Ends(c)      == clerks' = [clerks EXCEPT ![c] = NoClerk]
\* What is still of use when the row that will be saved is known.
Bears(c, row, place) ==
  [NoClerk EXCEPT !.at = place, !.shop = clerks[c].shop, !.acc = clerks[c].acc, !.row = row,
                  !.alone = clerks[c].alone]
Goes(c, row, place) == clerks' = [clerks EXCEPT ![c] = Bears(c, row, place)]

\* A write of c disturbs the others: those that are at work and those that have
\* activated an account.
Writes(c, next) ==
  clerks' = [d \in Clerks |-> IF d = c THEN next ELSE [clerks[d] EXCEPT !.alone = FALSE]]

----------------------------------------------------------------------------
(* getShopIdForBranch, and getProfile of the profile.                       *)

\* The body of an update always says whether the account is active: what was
\* not sent is false.
ClerkCalls(c) ==
  /\ clerks[c].at \in {"idle", "done"}
  /\ \E op \in {"read", "create", "update", "activate", "delete", "profile"},
        a \in PromptPays \cup {"none"}, n \in Numbers \cup {"unset"}, wish \in BOOLEAN :
       /\ (a = "none") <=> op \in {"read", "profile"}
       /\ op = "create" => accounts[a] = NoAccount /\ n # "unset" /\ \A d \in Clerks : clerks[d].acc # a
       /\ op \notin {"create", "update"} => ~wish
       /\ op \in {"read", "activate", "delete"} => n = "unset"
       /\ clerks' = [clerks EXCEPT ![c] = [NoClerk EXCEPT !.at = "shop", !.op = op, !.acc = a,
                                                          !.num = n, !.wish = wish, !.alone = TRUE]]
  /\ UNCHANGED <<profiles, accounts>>

Steps == [profile |-> "write", create |-> "same", update |-> "find",
          activate |-> "find", delete |-> "find"]
Entered(c, s) == IF clerks[c].op = "read" THEN NoClerk
                 ELSE [clerks[c] EXCEPT !.shop = s, !.at = Steps[clerks[c].op]]
Enters(c, s) == clerks' = [clerks EXCEPT ![c] = Entered(c, s)]

FindShop(c) ==
  /\ At(c, "shop")
  /\ \/ \E s \in ShopRows : Enters(c, s)
     \/ ShopRows = {} /\ To(c, "make")
  /\ UNCHANGED <<profiles, accounts>>

MakeShop(c) ==
  \E s \in Shops \ ShopRows :
    /\ At(c, "make")
    /\ profiles' = [profiles EXCEPT ![s] = "unset"]
    /\ Writes(c, Entered(c, s))
    /\ UNCHANGED accounts

\* When the insert fails, another request may have made one.
MakeShopFails(c) ==
  /\ Breaks /\ At(c, "make")
  /\ \/ \E s \in ShopRows : Enters(c, s)
     \/ ShopRows = {} /\ Ends(c)
  /\ UNCHANGED <<profiles, accounts>>

----------------------------------------------------------------------------
(* createAccount, updateAccount, activateAccount, deleteAccount.            *)

NewAccount(c, on) == Account(clerks[c].shop, clerks[c].num, on)
Found(c) == accounts[clerks[c].acc]

FindAccount(c) ==
  LET k == clerks[c] IN
  /\ At(c, "find")
  /\ IF Found(c).shop # k.shop THEN Ends(c)
     ELSE CASE k.op = "activate" -> Goes(c, [Found(c) EXCEPT !.active = TRUE], "deactivate")
            [] k.op = "delete"   -> IF Found(c).active THEN Ends(c) ELSE To(c, "remove")
            [] OTHER -> clerks' = [clerks EXCEPT ![c].row = Found(c),
                                     ![c].at = IF k.num \in {"unset", Found(c).num} THEN "assign" ELSE "same"]
  /\ UNCHANGED <<profiles, accounts>>

\* findByAccountNumber
SameNumber(c) ==
  /\ At(c, "same")
  /\ IF \E a \in AccountsOf(clerks[c].shop) : accounts[a].num = clerks[c].num THEN Ends(c)
     ELSE To(c, IF clerks[c].op = "create" THEN "count" ELSE "assign")
  /\ UNCHANGED <<profiles, accounts>>

\* The first account of a shop is made active.
Count(c) ==
  LET on == clerks[c].wish \/ AccountsOf(clerks[c].shop) = {} IN
  /\ At(c, "count")
  /\ Goes(c, NewAccount(c, on), IF on THEN "deactivate" ELSE "save")
  /\ UNCHANGED <<profiles, accounts>>

\* Object.assign of what was sent to what was found.
Assign(c) ==
  LET k == clerks[c] IN
  /\ At(c, "assign")
  /\ Goes(c, [k.row EXCEPT !.num = IF k.num = "unset" THEN @ ELSE k.num, !.active = k.wish],
          IF k.wish THEN "deactivate" ELSE "save")
  /\ UNCHANGED <<profiles, accounts>>

WrongAllInactive(s) ==  \* an account that is active is one that was saved so
  [a \in PromptPays |-> accounts[a]]
AllInactive(s) ==
  [a \in PromptPays |-> IF accounts[a].shop = s THEN [accounts[a] EXCEPT !.active = FALSE] ELSE accounts[a]]

DeactivateAll(c) ==
  /\ At(c, "deactivate")
  /\ accounts' = AllInactive(clerks[c].shop)
  /\ Writes(c, [clerks[c] EXCEPT !.at = "save"])
  /\ UNCHANGED profiles

\* save(): the whole row, which is inserted again when it was deleted.
Save(c) ==
  /\ At(c, "save")
  /\ accounts' = [accounts EXCEPT ![clerks[c].acc] = clerks[c].row]
  /\ Writes(c, IF clerks[c].row.active THEN [clerks[c] EXCEPT !.at = "sync"] ELSE NoClerk)
  /\ UNCHANGED profiles

SyncToShopProfile(c) ==
  /\ At(c, "sync")
  /\ profiles' = [profiles EXCEPT ![clerks[c].shop] = clerks[c].row.num]
  /\ Writes(c, Bears(c, NoAccount, "done"))
  /\ UNCHANGED accounts

RemoveAccount(c) ==
  /\ At(c, "remove")
  /\ accounts' = [accounts EXCEPT ![clerks[c].acc] = NoAccount]
  /\ Writes(c, NoClerk)
  /\ UNCHANGED profiles

\* updateProfile: an empty number leaves the column as it is.
WriteProfile(c) ==
  /\ At(c, "write")
  /\ profiles' = [profiles EXCEPT ![clerks[c].shop] = IF clerks[c].num = "unset" THEN @ ELSE clerks[c].num]
  /\ Writes(c, NoClerk)
  /\ UNCHANGED accounts

Breakdown(c) ==
  /\ Breaks /\ clerks[c].at \notin {"idle", "done", "make"}
  /\ Ends(c)
  /\ UNCHANGED <<profiles, accounts>>

ShopInit ==
  /\ profiles = [s \in Shops |-> "absent"]
  /\ accounts = [a \in PromptPays |-> NoAccount]
  /\ clerks = [c \in Clerks |-> NoClerk]

ShopNext ==
  \E c \in Clerks :
    \/ ClerkCalls(c) \/ FindShop(c) \/ MakeShop(c) \/ MakeShopFails(c) \/ FindAccount(c) \/ SameNumber(c)
    \/ Count(c) \/ Assign(c) \/ DeactivateAll(c) \/ Save(c) \/ SyncToShopProfile(c) \/ RemoveAccount(c)
    \/ WriteProfile(c) \/ Breakdown(c)

ShopSpec == ShopInit /\ [][ShopNext]_shopVars

----------------------------------------------------------------------------
(* Properties.                                                              *)

Places == {"idle", "shop", "make", "find", "same", "count", "assign", "deactivate", "save", "sync",
           "remove", "write", "done"}
AccountRecord == [shop: Shops \cup {"none"}, num: Numbers \cup {"unset"}, active: BOOLEAN]
ClerkRecord == [at: Places, op: DOMAIN Steps \cup {"read", "none"}, shop: Shops \cup {"none"},
                acc: PromptPays \cup {"none"}, num: Numbers \cup {"unset"}, wish: BOOLEAN,
                row: AccountRecord, alone: BOOLEAN]

\* Profiles, accounts and requests have their types.
ShopTypeOK ==
  /\ profiles \in [Shops -> Numbers \cup {"unset", "absent"}]
  /\ accounts \in [PromptPays -> AccountRecord]
  /\ clerks \in [Clerks -> ClerkRecord]

\* Whatever races and failures left behind, two active accounts, none, or a
\* profile that names a deleted one: an account that is made active while
\* nobody else writes is then the only active one of its shop, and the one
\* that the profile tells customers to pay to.
ActivationMends ==
  \A c \in Clerks :
    At(c, "done") /\ clerks[c].alone =>
      /\ ActiveOf(clerks[c].shop) = {clerks[c].acc}
      /\ profiles[clerks[c].shop] = accounts[clerks[c].acc].num
=============================================================================
