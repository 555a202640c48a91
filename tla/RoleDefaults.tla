---------------------------- MODULE RoleDefaults ----------------------------
(***************************************************************************)
(* What a role may do in a new installation (database/rbac-defaults.ts),   *)
(* and what becomes of it: every start of a server brings the baseline up  *)
(* to date, in one transaction, and administrators replace the rules of a  *)
(* role as a whole.                                                        *)
(*                                                                         *)
(* A capability is a resource and an action; a resource is an area of the  *)
(* application and a part of it: its page, or a feature of the page.  The  *)
(* baseline is a table of capabilities for each role.                      *)
(* Wrong... definitions are mutations of the definition after them.        *)
(***************************************************************************)
EXTENDS Naturals, FiniteSets

CONSTANTS
  Followed,    \* the capabilities that are followed through starts and edits
  EditScopes   \* the scopes that an administrator gives

VARIABLES
  roleRows,    \* roleRows[r][c]: the row of role r for capability c
  starting     \* how far the start of a server is

defaultsVars == <<roleRows, starting>>

Roles   == {"Admin", "Manager", "Employee"}
ActionKeys == {"access", "view", "create", "update", "delete"}

Read    == {"access", "view"}
Creates == Read \cup {"create"}
Updates == Read \cup {"update"}
Nothing == {}

----------------------------------------------------------------------------
(* The resources.                                                           *)

Manageable == {"page", "search", "filter", "manager", "create", "status", "delete"}
Editable   == Manageable \cup {"edit"}
PartsOf ==
  [permissions |-> {"page"}, users |-> {"page"}, roles |-> {"page"}, branches |-> {"page"},
   audit |-> {"page"}, health_system |-> {"page"},
   orders |-> {"page", "search", "filter", "summary", "detail", "channels", "channel_create",
               "serving_board", "serving_board_update", "line_items", "item_status", "edit", "cancel"},
   products |-> Manageable \cup {"catalog", "pricing", "structure"},
   products_unit |-> Editable, category |-> Editable,
   topping |-> Manageable \cup {"catalog", "pricing"}, topping_group |-> Editable,
   payments |-> {"page", "checkout"},
   delivery |-> Editable, discounts |-> Editable \cup {"pricing"},
   payment_method |-> Manageable \cup {"catalog"}, tables |-> Editable,
   qr_code |-> {"page", "search", "filter", "preview", "customer_link", "rotate", "single_export",
                "bulk_export", "takeaway", "takeaway_rotate", "takeaway_customer_link", "takeaway_export"},
   pos_settings |-> {"page"},
   shop_profile |-> {"page", "identity", "contact"},
   payment_accounts |-> {"page", "search", "filter", "detail", "manager", "create", "edit",
                         "activate", "delete"},
   print_settings |-> {"page", "preview", "test_print", "presets", "layout", "visibility", "automation",
                       "branch_defaults", "override_policy", "reset", "publish"},
   shifts |-> {"page", "open", "close_preview", "close", "summary", "financials", "channels",
               "top_products", "history_nav"},
   shift_history |-> {"page", "search", "filter", "stats", "summary", "financials"},
   reports |-> {"page", "summary", "filters", "channels", "top_items", "recent_orders",
                "order_detail", "export", "receipt"}]
StockAreas == {"ingredients", "ingredients_unit", "stock_orders", "stock_category"}
MenuKeys ==
  {<<"menu", m>> : m \in {"main.home", "main.stock", "main.orders", "main.users", "module.pos",
                          "module.stock", "module.users", "module.branch", "module.audit",
                          "pos", "stock", "users.home", "branch.home"}}
Resources == (UNION {{<<a, p>> : p \in PartsOf[a]} : a \in DOMAIN PartsOf})
             \cup (StockAreas \X {"page"}) \cup MenuKeys
Capabilities == Resources \X ActionKeys

----------------------------------------------------------------------------
(* What a manager may do with the features of an area.                      *)

ManagerOrders ==
  [search |-> Read, filter |-> Read, summary |-> Read, detail |-> Read, channels |-> Read,
   serving_board |-> Read, channel_create |-> Creates, serving_board_update |-> Updates,
   line_items |-> Updates, item_status |-> Updates, edit |-> Updates, cancel |-> Read]
ManagerPayments == [checkout |-> Creates]
ManagerTables ==
  [search |-> Read, filter |-> Read, manager |-> Read, create |-> Creates,
   edit |-> Updates, status |-> Updates, delete |-> Nothing]
ManagerProducts ==
  [search |-> Read, filter |-> Read, manager |-> Read, create |-> Creates, catalog |-> Updates,
   pricing |-> Updates, structure |-> Updates, status |-> Updates, delete |-> Nothing]
ManagerProductsUnit ==
  [search |-> Read, filter |-> Read, manager |-> Read, create |-> Creates,
   edit |-> Updates, status |-> Updates, delete |-> Nothing]
ManagerCategory ==
  [search |-> Read, filter |-> Read, manager |-> Read, create |-> Creates,
   edit |-> Updates, status |-> Updates, delete |-> Nothing]
ManagerTopping ==
  [search |-> Read, filter |-> Read, manager |-> Read, create |-> Creates,
   catalog |-> Updates, pricing |-> Updates, status |-> Updates, delete |-> Nothing]
ManagerToppingGroup ==
  [search |-> Read, filter |-> Read, manager |-> Read, create |-> Creates,
   edit |-> Updates, status |-> Updates, delete |-> Nothing]
ManagerDelivery ==
  [search |-> Read, filter |-> Read, manager |-> Read, create |-> Creates,
   edit |-> Updates, status |-> Updates, delete |-> Nothing]
ManagerDiscounts ==
  [search |-> Read, filter |-> Read, manager |-> Read, create |-> Creates,
   edit |-> Updates, pricing |-> Updates, status |-> Updates, delete |-> Nothing]
ManagerShopProfile == [identity |-> Updates, contact |-> Updates]
ManagerPaymentAccounts ==
  [search |-> Read, filter |-> Read, detail |-> Read, manager |-> Read, create |-> Creates,
   edit |-> Updates, activate |-> Updates, delete |-> Nothing]
ManagerPaymentMethod ==
  [search |-> Read, filter |-> Read, manager |-> Read, create |-> Creates,
   catalog |-> Updates, status |-> Updates, delete |-> Nothing]
ManagerQrCode ==
  [search |-> Read, filter |-> Read, preview |-> Read, customer_link |-> Read, takeaway |-> Read,
   takeaway_customer_link |-> Read, rotate |-> Updates, single_export |-> Updates,
   bulk_export |-> Updates, takeaway_rotate |-> Updates, takeaway_export |-> Updates]
ManagerPrintSettings ==
  [preview |-> Read, test_print |-> Read, override_policy |-> Nothing, publish |-> Updates,
   presets |-> Updates, layout |-> Updates, visibility |-> Updates, automation |-> Updates,
   branch_defaults |-> Updates, reset |-> Updates]
ManagerShift ==
  [summary |-> Read, financials |-> Read, channels |-> Read, top_products |-> Read,
   history_nav |-> Read, close_preview |-> Read, open |-> Creates, close |-> Updates]
ManagerShiftHistory ==
  [search |-> Read, filter |-> Read, stats |-> Read, summary |-> Read, financials |-> Read]
ManagerDashboard ==
  [summary |-> Updates, filters |-> Updates, channels |-> Updates, top_items |-> Updates,
   recent_orders |-> Updates, order_detail |-> Updates, export |-> Updates, receipt |-> Updates]

ManagerFeatures ==
  [orders |-> ManagerOrders, payments |-> ManagerPayments, tables |-> ManagerTables,
   products |-> ManagerProducts, products_unit |-> ManagerProductsUnit, category |-> ManagerCategory,
   topping |-> ManagerTopping, topping_group |-> ManagerToppingGroup, delivery |-> ManagerDelivery,
   discounts |-> ManagerDiscounts, shop_profile |-> ManagerShopProfile,
   payment_accounts |-> ManagerPaymentAccounts, payment_method |-> ManagerPaymentMethod,
   qr_code |-> ManagerQrCode, print_settings |-> ManagerPrintSettings, shifts |-> ManagerShift,
   shift_history |-> ManagerShiftHistory, reports |-> ManagerDashboard]

Allow(scope) == [effect |-> "allow", scope |-> scope]
Deny         == [effect |-> "deny", scope |-> "none"]
In(table, area, part) == IF part \in DOMAIN table[area] THEN table[area][part] ELSE Nothing

ManagerReadsOnly  == {"orders", "payments", "pos_settings", "shop_profile", "payment_accounts",
                      "shifts", "shift_history", "branches", "menu"}
ManagerRestricted == ({"permissions", "roles", "audit", "health_system"} \X {"page"})
                     \cup {<<"menu", "module.audit">>}

ManagerPolicy(res, act) ==
  LET may == IF res \in ManagerRestricted THEN Nothing
             ELSE IF res[1] \in DOMAIN ManagerFeatures /\ res[2] # "page"
                    THEN In(ManagerFeatures, res[1], res[2])
             ELSE IF res[1] \in ManagerReadsOnly THEN Read
             ELSE Creates \cup Updates
  IN IF act \in may THEN Allow("branch") ELSE Deny

----------------------------------------------------------------------------
(* What an employee may do: in the branch, or with what is the employee's   *)
(* own.  Nothing is deleted by an employee.                                 *)

EmployeeOrders ==
  [search |-> Read, filter |-> Read, summary |-> Read, detail |-> Read, channels |-> Read,
   serving_board |-> Read, channel_create |-> Creates, serving_board_update |-> Updates,
   line_items |-> Updates, item_status |-> Updates, edit |-> Updates]
EmployeePayments == [checkout |-> Creates]
EmployeeShifts   == [open |-> Creates, summary |-> Read, channels |-> Read, top_products |-> Read,
                     history_nav |-> Read]
EmployeeOwnShifts == [close_preview |-> Read, close |-> Updates, financials |-> Read]
EmployeeQrCode ==
  [search |-> Read, filter |-> Read, preview |-> Read, customer_link |-> Read, takeaway |-> Read,
   takeaway_customer_link |-> Read, single_export |-> Updates, takeaway_export |-> Updates]
EmployeeDashboard == [summary |-> Read, top_items |-> Read]
EmployeeLists     == [search |-> Read, filter |-> Read]
EmployeeOwnHistory == [page |-> Read, search |-> Read, filter |-> Read]

Listed == {"tables", "products", "products_unit", "delivery", "discounts", "payment_method",
           "category", "topping", "topping_group"}
EmployeeFeatures ==
  [a \in DOMAIN ManagerFeatures |->
     CASE a = "orders"   -> EmployeeOrders
       [] a = "payments" -> EmployeePayments
       [] a = "shifts"   -> EmployeeShifts
       [] a = "qr_code"  -> EmployeeQrCode
       [] a = "reports"  -> EmployeeDashboard
       [] a \in Listed   -> EmployeeLists
       [] OTHER          -> << >>]
EmployeeOwn == [shifts |-> EmployeeOwnShifts, shift_history |-> EmployeeOwnHistory]

EmployeeReads ==
  ({"orders", "products", "products_unit", "topping", "topping_group", "shifts", "payments", "category",
    "delivery", "discounts", "payment_method", "qr_code", "reports", "tables", "shop_profile"} \X {"page"})
  \cup (StockAreas \X {"page"})
  \cup {<<"menu", m>> : m \in {"main.home", "main.stock", "main.orders", "module.pos", "module.stock",
                               "pos", "stock"}}

EmployeePolicy(res, act) ==
  LET own    == IF res[1] \in DOMAIN EmployeeOwn THEN In(EmployeeOwn, res[1], res[2]) ELSE Nothing
      branch == IF res[1] \in DOMAIN EmployeeFeatures /\ res[2] # "page"
                  THEN In(EmployeeFeatures, res[1], res[2])
                ELSE IF res \in EmployeeReads
                  THEN IF res[1] = "stock_orders" THEN Creates \cup Updates ELSE Read
                ELSE Nothing
  IN CASE act \in own    -> Allow("own")
       [] act \in branch -> Allow("branch")
       [] OTHER          -> Deny

ToPermissionPolicy(role, res, act) ==
  CASE role = "Admin"    -> Allow("all")
    [] role = "Manager"  -> ManagerPolicy(res, act)
    [] role = "Employee" -> EmployeePolicy(res, act)

----------------------------------------------------------------------------
(* Starts and edits.                                                        *)

NoRow == [effect |-> "none", scope |-> "none"]

\* INSERT ... ON CONFLICT DO UPDATE ... WHERE: a missing row is added, and a
\* denial becomes a grant where the baseline grants.
WrongEnsured(row, policy) == policy
Ensured(row, policy) ==
  IF row = NoRow \/ (row = Deny /\ policy.effect = "allow") THEN policy ELSE row

EnsureRolePermissionDefaults ==
  [r \in Roles |-> [c \in Followed |-> Ensured(roleRows[r][c], ToPermissionPolicy(r, c[1], c[2]))]]

\* A server starts: the baseline in one transaction, which another server's,
\* or an administrator's, waits for; when it fails the server does not start.
EnsureRbacDefaults ==
  /\ starting = "off"
  /\ \/ roleRows' = EnsureRolePermissionDefaults /\ starting' = "on"
     \/ UNCHANGED <<roleRows, starting>>

StopServer == starting = "on" /\ starting' = "off" /\ UNCHANGED roleRows

\* An administrator sends the rules of a role: a resource that is not sent
\* loses its rows, an action that is not checked is denied.
ReplaceRolePermissions(role) ==
  /\ starting = "on"
  /\ \E sent \in SUBSET {c[1] : c \in Followed}, checked \in SUBSET Followed, scope \in EditScopes :
       roleRows' = [roleRows EXCEPT ![role] =
                      [c \in Followed |-> IF c[1] \notin sent THEN NoRow
                                          ELSE IF c \in checked THEN Allow(scope) ELSE Deny]]
  /\ UNCHANGED starting

DefaultsInit ==
  /\ roleRows = [r \in Roles |-> [c \in Followed |-> NoRow]]
  /\ starting = "off"

DefaultsNext ==
  \/ EnsureRbacDefaults
  \/ StopServer
  \/ \E r \in Roles : ReplaceRolePermissions(r)

DefaultsSpec == DefaultsInit /\ [][DefaultsNext]_defaultsVars

----------------------------------------------------------------------------
(* Properties.                                                              *)

DefaultsTypeOK ==
  /\ \A r \in Roles : \A c \in Followed :
       roleRows[r][c] \in {NoRow, Deny} \cup {Allow(s) : s \in EditScopes \cup {"own", "branch", "all"}}
  /\ starting \in {"off", "on"}

\* A start never takes away what an administrator granted, whatever the scope,
\* and never grants what the baseline denies: two starts are as good as one.
StartOnlyAdds ==
  [][starting = "off" => \A r \in Roles : \A c \in Followed :
       /\ roleRows[r][c].effect = "allow" => roleRows'[r][c] = roleRows[r][c]
       /\ roleRows'[r][c] # roleRows[r][c] => roleRows'[r][c] = ToPermissionPolicy(r, c[1], c[2])
    ]_defaultsVars
=============================================================================
