------------------------------ MODULE Endpoints ------------------------------
(***************************************************************************)
(* What the endpoints ask of who calls them (routes/ and controllers/),    *)
(* against the baseline of RoleDefaults.                                   *)
(*                                                                         *)
(* A route names the capabilities it always needs; what the query or the   *)
(* body carries, compared with the row as it is, may need more; a part of  *)
(* the answer may be shown only with one more.  Some routes have a guard   *)
(* of their own in front.  A grant whose scope is "own" means something    *)
(* only where the handler limits the call to rows that are the caller's.   *)
(* Wrong... definitions are mutations of the definition after them.        *)
(***************************************************************************)
EXTENDS RoleDefaults

VARIABLE visitor \* the last call of an endpoint, and whether it was served

P(area, act)       == <<<<area, "page">>, act>>
F(area, part, act) == <<<<area, part>>, act>>

\* needs: what is always needed; more: what the call may need besides; rest:
\* what it needs when it carries nothing of more; limit: which rows are in
\* reach of a scope ("unlimited": all); guard: what stands before the route.
Asking(needs, more, limit) ==
  [needs |-> needs, more |-> more, rest |-> {}, limit |-> limit, guard |-> "none"]
OrElse(asks, rest)   == [asks EXCEPT !.rest = rest]
Guarded(asks, guard) == [asks EXCEPT !.guard = guard]
Needs(needs)             == Asking(needs, {}, "unlimited")
NeedsMore(needs, more)   == Asking(needs, more, "unlimited")

CreateNeeds(a) == {P(a, "create"), F(a, "manager", "access"), F(a, "create", "create")}
UpdateNeeds(a) == {P(a, "update"), F(a, "manager", "access")}
DeleteNeeds(a) == {P(a, "delete"), F(a, "manager", "access"), F(a, "delete", "delete")}
LooksUp(a)      == Needs({F(a, "manager", "access")})

----------------------------------------------------------------------------
(* Capabilities that a controller asks for.                                 *)

CategoryListMore      == {F("category", "search", "view"), F("category", "filter", "view")}
ProductsListMore      == {F("products", "search", "view"), F("products", "filter", "view")}
ProductsUnitListMore  == {F("products_unit", "search", "view"), F("products_unit", "filter", "view")}
DeliveryListMore      == {F("delivery", "search", "view"), F("delivery", "filter", "view")}
DiscountsListMore     == {F("discounts", "search", "view"), F("discounts", "filter", "view")}
PaymentMethodListMore == {F("payment_method", "search", "view"), F("payment_method", "filter", "view")}

\* Saving the print settings: one capability for each group of fields that
\* differs from what is stored, and always that of publishing.
PrintSettingsMore ==
  {F("print_settings", p, "update") : p \in {"publish", "branch_defaults", "override_policy",
                                             "automation", "presets", "layout", "visibility"}}

\* Sections of an answer that are left empty without a capability.
OverviewSections ==
  [totals |-> F("reports", "summary", "view"), channels |-> F("reports", "channels", "view"),
   top_items |-> F("reports", "top_items", "view"), recent_orders |-> F("reports", "recent_orders", "view")]
CurrentSummarySections ==
  [payments |-> F("shifts", "financials", "view"), channels |-> F("shifts", "channels", "view"),
   top_products |-> F("shifts", "top_products", "view")]
HistorySections ==
  [stats |-> F("shift_history", "stats", "view"), amounts |-> F("shift_history", "financials", "view")]
Shown(sections) == {sections[s] : s \in DOMAIN sections}

----------------------------------------------------------------------------
(* The rows in reach of a scope.                                            *)

\* What a call is about: whether it is the caller's own, whether it is of the
\* branch that the caller is in (or the caller is in one, for what is new),
\* whether it is a user who is an employee, and whether nothing is asked for a
\* user that a manager may not give.  Nobody is a user of two roles.
RowsOf(role) ==
  {row \in [mine : BOOLEAN, here : BOOLEAN, employee : BOOLEAN, modest : BOOLEAN] :
     row.mine => (row.employee <=> role = "Employee")}

EnforceUserTargetScope(scope, row)  == scope \in {"branch", "all"} \/ (scope = "own" /\ row.mine)
EnforceOrderTargetScope(scope, row) == scope \in {"branch", "all"} \/ (scope = "own" /\ row.mine)
EnforceOrderItemTargetScope(scope, row) == scope \in {"branch", "all"} \/ (scope = "own" /\ row.mine)
EnforceServingGroupTargetScope(scope, row) == scope \in {"branch", "all"} \/ (scope = "own" /\ row.mine)
EnforceBranchTargetScope(scope, row) == scope = "all" \/ (scope # "none" /\ row.here)
EnforceAuditLogTargetScope(scope, row) ==
  scope = "all" \/ (scope = "own" /\ row.mine) \/ (scope = "branch" /\ row.here)
EnforceAllScopeOnly(scope) == scope = "all"
\* Handlers that pass the scope on to their queries.
GetAccess(scope, row)    == scope \in {"branch", "all"} \/ (scope = "own" /\ row.mine)
CanAccessJob(scope, row) ==
  scope = "all" \/ (scope # "none" /\ row.mine) \/ (scope = "branch" /\ row.here)
\* Of the shifts, "own" leaves those that the caller opened.
WrongOwnShift(scope, row) == TRUE
OwnShift(scope, row) == scope = "own" => row.mine

InReach(limit, scope, row) ==
  CASE limit = "user"      -> EnforceUserTargetScope(scope, row)
    [] limit = "order"     -> EnforceOrderTargetScope(scope, row)
    [] limit = "item"      -> EnforceOrderItemTargetScope(scope, row)
    [] limit = "group"     -> EnforceServingGroupTargetScope(scope, row)
    [] limit = "branch"    -> EnforceBranchTargetScope(scope, row)
    [] limit = "audit_log" -> EnforceAuditLogTargetScope(scope, row)
    [] limit = "all_only"  -> EnforceAllScopeOnly(scope)
    [] limit = "access"    -> GetAccess(scope, row)
    [] limit = "job"       -> CanAccessJob(scope, row)
    [] limit \in {"opener", "financials", "history"} -> OwnShift(scope, row)
    [] OTHER               -> TRUE

\* A close asks for the caller's role, or that the caller opened the shift.
AssertCanCloseShift(role, row) == role \in {"Admin", "Manager"} \/ row.mine

\* Before the routes of users: administrators, and managers for the employees
\* of their branch, or for themselves.
EnforceUserManagementPolicy(method, role, row) ==
  \/ role = "Admin" /\ (method = "POST" => row.here)
  \/ role = "Manager" /\ \/ method = "GET"
                         \/ method = "POST" /\ row.here /\ row.modest
                         \/ method = "PUT" /\ row.here /\ row.modest /\ (row.mine \/ row.employee)
                         \/ method = "DELETE" /\ row.here /\ row.employee /\ ~row.mine

----------------------------------------------------------------------------
(* The routes.                                                              *)

AuditRoutes ==
  [logs |-> Needs({P("audit", "view")}), log |-> Asking({P("audit", "view")}, {}, "audit_log")]
AuthRoutes   == [switchBranch |-> Needs({P("branches", "update")})]
SystemRoutes == [health |-> Needs({P("health_system", "view")})]
BranchRoutes ==
  [list |-> Needs({P("branches", "view")}), one |-> Asking({P("branches", "view")}, {}, "branch"),
   create |-> Needs({P("branches", "create")}), update |-> Asking({P("branches", "update")}, {}, "branch"),
   delete |-> Asking({P("branches", "delete")}, {}, "branch")]
RolesRoutes ==
  [list |-> Needs({P("roles", "view")}), one |-> Asking({P("roles", "view")}, {}, "all_only"),
   create |-> Needs({P("roles", "create")}), update |-> Asking({P("roles", "update")}, {}, "all_only"),
   delete |-> Asking({P("roles", "delete")}, {}, "all_only")]
UsersRoutes ==
  [list |-> Guarded(Asking({P("users", "view")}, {}, "access"), "GET"),
   one |-> Guarded(Asking({P("users", "view")}, {}, "user"), "GET"),
   create |-> Guarded(Needs({P("users", "create")}), "POST"),
   update |-> Guarded(Asking({P("users", "update")}, {}, "user"), "PUT"),
   delete |-> Guarded(Asking({P("users", "delete")}, {}, "user"), "DELETE")]
PermissionsRoutes ==
  [role |-> Asking({P("permissions", "view")}, {}, "all_only"),
   user |-> Guarded(Asking({P("permissions", "view")}, {}, "user"), "self"),
   setRole |-> Asking({P("permissions", "update")}, {}, "all_only"),
   setUser |-> Asking({P("permissions", "update")}, {}, "user"),
   simulate |-> Needs({P("permissions", "view")}), audits |-> Needs({P("permissions", "view")}),
   approvals |-> Needs({P("permissions", "view")}),
   approve |-> Asking({P("permissions", "update")}, {}, "all_only"),
   reject |-> Asking({P("permissions", "update")}, {}, "all_only")]

BackgroundJobsRoutes ==
  [report |-> Needs({P("reports", "view")}), reportStatus |-> Asking({P("reports", "view")}, {}, "job"),
   sync |-> Needs({P("stock_orders", "update")}),
   syncStatus |-> Asking({P("stock_orders", "view")}, {}, "job")]
CategoryRoutes ==
  [list |-> NeedsMore({P("category", "view")}, CategoryListMore), byName |-> LooksUp("category"),
   one |-> Needs({P("category", "view")}), create |-> Needs(CreateNeeds("category")),
   update |-> NeedsMore(UpdateNeeds("category"), {F("category", p, "update") : p \in {"edit", "status"}}),
   delete |-> Needs(DeleteNeeds("category"))]
DashboardRoutes ==
  [overview |-> NeedsMore({P("reports", "view")}, {F("reports", "filters", "view")} \cup Shown(OverviewSections)),
   order |-> Asking({F("reports", "order_detail", "access")}, {}, "order"),
   sales |-> NeedsMore({F("reports", "summary", "view")}, {F("reports", "filters", "view")}),
   topItems |-> Needs({F("reports", "top_items", "view")})]
DeliveryRoutes ==
  [list |-> NeedsMore({P("delivery", "view")}, DeliveryListMore), one |-> Needs({P("delivery", "view")}),
   byName |-> LooksUp("delivery"), create |-> Needs(CreateNeeds("delivery")),
   update |-> NeedsMore(UpdateNeeds("delivery"), {F("delivery", p, "update") : p \in {"edit", "status"}}),
   delete |-> Needs(DeleteNeeds("delivery"))]
DiscountsRoutes ==
  [list |-> NeedsMore({P("discounts", "view")}, DiscountsListMore), byName |-> LooksUp("discounts"),
   one |-> Needs({P("discounts", "view")}), create |-> Needs(CreateNeeds("discounts")),
   update |-> NeedsMore(UpdateNeeds("discounts"),
                        {F("discounts", p, "update") : p \in {"edit", "pricing", "status"}}),
   delete |-> Needs(DeleteNeeds("discounts"))]
OrdersListMore == {F("orders", "search", "view"), F("orders", "filter", "view")}
OrdersRoutes ==
  [stats |-> Asking({F("orders", "summary", "view")}, {}, "order"),
   summary |-> Asking({F("orders", "summary", "view")}, OrdersListMore \cup {F("orders", "channels", "view")}, "order"),
   board |-> Needs({F("orders", "serving_board", "view")}),
   serveItem |-> Asking({F("orders", "serving_board_update", "update")}, {}, "item"),
   serveGroup |-> Asking({F("orders", "serving_board_update", "update")}, {}, "group"),
   list |-> Asking({P("orders", "view")}, OrdersListMore, "order"),
   items |-> Asking({P("orders", "view")}, {}, "order"),
   one |-> Asking({F("orders", "detail", "access")}, {}, "order"),
   create |-> Needs({F("orders", "channel_create", "create")}),
   update |-> Asking({F("orders", "edit", "update")}, {F("orders", "cancel", "access")}, "order"),
   delete |-> Asking({P("orders", "delete")}, {}, "order"),
   itemStatus |-> Asking({F("orders", "item_status", "update")}, {}, "item"),
   addItem |-> Asking({F("orders", "line_items", "update")}, {}, "order"),
   updateItem |-> Asking({F("orders", "line_items", "update")}, {}, "item"),
   deleteItem |-> Asking({F("orders", "line_items", "update")}, {}, "item")]
PaymentAccountRoutes ==
  [list |-> NeedsMore({P("payment_accounts", "view")},
                      {F("payment_accounts", "search", "view"), F("payment_accounts", "filter", "view")}),
   one |-> Needs({F("payment_accounts", "detail", "view")}),
   create |-> Needs({F("payment_accounts", "create", "create")}),
   update |-> Needs({F("payment_accounts", "edit", "update")}),
   activate |-> Needs({F("payment_accounts", "activate", "update")}),
   delete |-> Needs({F("payment_accounts", "delete", "delete")})]
PaymentMethodRoutes ==
  [list |-> NeedsMore({P("payment_method", "view")}, PaymentMethodListMore), one |-> LooksUp("payment_method"),
   byName |-> LooksUp("payment_method"), create |-> Needs(CreateNeeds("payment_method")),
   update |-> NeedsMore(UpdateNeeds("payment_method"),
                        {F("payment_method", p, "update") : p \in {"catalog", "status"}}),
   delete |-> Needs(DeleteNeeds("payment_method"))]
PaymentsRoutes ==
  [list |-> Asking({P("payments", "view")}, {}, "access"), one |-> Asking({P("payments", "view")}, {}, "access"),
   create |-> Asking({F("payments", "checkout", "create")}, {}, "access"),
   update |-> Asking({P("payments", "update")}, {}, "access"),
   delete |-> Asking({P("payments", "delete")}, {}, "access")]
PrintSettingsRoutes ==
  [get |-> Needs({P("print_settings", "view")}),
   update |-> NeedsMore({P("print_settings", "update"), F("print_settings", "publish", "update")},
                        PrintSettingsMore)]
ProductsRoutes ==
  [list |-> NeedsMore({P("products", "view")}, ProductsListMore),
   activeCount |-> NeedsMore({P("products", "view")}, {F("products", "filter", "view")}),
   byName |-> LooksUp("products"), one |-> LooksUp("products"), create |-> Needs(CreateNeeds("products")),
   update |-> NeedsMore(UpdateNeeds("products"),
                        {F("products", p, "update") : p \in {"catalog", "pricing", "structure", "status"}}),
   delete |-> Needs(DeleteNeeds("products"))]
ProductsUnitRoutes ==
  [list |-> NeedsMore({P("products_unit", "view")}, ProductsUnitListMore), byName |-> LooksUp("products_unit"),
   one |-> LooksUp("products_unit"), create |-> Needs(CreateNeeds("products_unit")),
   update |-> NeedsMore(UpdateNeeds("products_unit"),
                        {F("products_unit", p, "update") : p \in {"edit", "status"}}),
   delete |-> Needs(DeleteNeeds("products_unit"))]
SalesOrderDetailRoutes ==
  [list |-> Asking({P("orders", "view")}, {}, "access"), one |-> Asking({P("orders", "view")}, {}, "access"),
   create |-> Asking({P("orders", "create")}, {}, "access"), update |-> Asking({P("orders", "update")}, {}, "access"),
   delete |-> Asking({P("orders", "delete")}, {}, "access")]
SalesOrderItemRoutes ==
  [list |-> Asking({P("orders", "view")}, {}, "access"), one |-> Asking({P("orders", "view")}, {}, "access"),
   create |-> Asking({P("orders", "create")}, {}, "access"), update |-> Asking({P("orders", "update")}, {}, "access"),
   delete |-> Asking({P("orders", "delete")}, {}, "access")]
ShiftsRoutes ==
  [open |-> Needs({F("shifts", "open", "create")}),
   preview |-> Asking({F("shifts", "close_preview", "access")}, {}, "closer"),
   close |-> Asking({F("shifts", "close", "update")}, {}, "closer"),
   current |-> Asking({P("shifts", "view")}, {F("shifts", "financials", "view")}, "financials"),
   currentSummary |-> Asking({F("shifts", "summary", "view")}, Shown(CurrentSummarySections), "financials"),
   history |-> Asking({P("shift_history", "view")},
                    {F("shift_history", "search", "view"), F("shift_history", "filter", "view")}
                    \cup Shown(HistorySections), "history"),
   summary |-> Asking({F("shift_history", "summary", "access")}, {}, "opener")]
ShopProfileRoutes ==
  [get |-> Needs({P("shop_profile", "view")}),
   update |-> OrElse(NeedsMore({}, {F("shop_profile", "identity", "update"), F("shop_profile", "contact", "update"),
                                    F("payment_accounts", "edit", "update")}),
                     {F("shop_profile", "identity", "update")})]
TablesRoutes ==
  [list |-> NeedsMore({P("tables", "view")}, {F("tables", "search", "view"), F("tables", "filter", "view")}),
   qrCodes |-> Needs({P("qr_code", "view")}), byName |-> LooksUp("tables"), one |-> Needs({P("tables", "view")}),
   qr |-> Needs({F("qr_code", "preview", "view")}), rotate |-> Needs({F("qr_code", "rotate", "update")}),
   create |-> Needs(CreateNeeds("tables")),
   update |-> OrElse(NeedsMore(UpdateNeeds("tables"), {F("tables", p, "update") : p \in {"edit", "status"}}),
                     {F("tables", "edit", "update")}),
   delete |-> Needs(DeleteNeeds("tables"))]
TakeawayQrRoutes ==
  [get |-> Needs({F("qr_code", "takeaway", "view")}), rotate |-> Needs({F("qr_code", "takeaway_rotate", "update")})]
ToppingRoutes ==
  [list |-> NeedsMore({P("topping", "view")}, {F("topping", "search", "view"), F("topping", "filter", "view")}),
   byName |-> LooksUp("topping"), one |-> LooksUp("topping"), create |-> Needs(CreateNeeds("topping")),
   update |-> OrElse(NeedsMore(UpdateNeeds("topping"),
                               {F("topping", p, "update") : p \in {"catalog", "pricing", "status"}}),
                     {F("topping", "catalog", "update")}),
   delete |-> Needs(DeleteNeeds("topping"))]
ToppingGroupRoutes ==
  [list |-> NeedsMore({P("topping_group", "view")},
                      {F("topping_group", "search", "view"), F("topping_group", "filter", "view")}),
   byName |-> LooksUp("topping_group"), one |-> LooksUp("topping_group"),
   create |-> Needs(CreateNeeds("topping_group")),
   update |-> OrElse(NeedsMore(UpdateNeeds("topping_group"), {F("topping_group", p, "update") : p \in {"edit", "status"}}),
                     {F("topping_group", "edit", "update")}),
   delete |-> Needs(DeleteNeeds("topping_group"))]

StockCategoryRoutes ==
  [list |-> Needs({P("stock_category", "view")}), byName |-> Needs({P("stock_category", "view")}),
   one |-> Needs({P("stock_category", "view")}), create |-> Needs({P("stock_category", "create")}),
   update |-> Needs({P("stock_category", "update")}), delete |-> Needs({P("stock_category", "delete")})]
IngredientsRoutes ==
  [list |-> Needs({P("ingredients", "view")}), one |-> Needs({P("ingredients", "view")}),
   create |-> Needs({P("ingredients", "create")}), update |-> Needs({P("ingredients", "update")}),
   delete |-> Needs({P("ingredients", "delete")})]
IngredientsUnitRoutes ==
  [list |-> Needs({P("ingredients_unit", "view")}), one |-> Needs({P("ingredients_unit", "view")}),
   create |-> Needs({P("ingredients_unit", "create")}), update |-> Needs({P("ingredients_unit", "update")}),
   delete |-> Needs({P("ingredients_unit", "delete")})]
StockOrdersRoutes ==
  [create |-> Needs({P("stock_orders", "create")}), list |-> Needs({P("stock_orders", "view")}),
   one |-> Needs({P("stock_orders", "view")}), status |-> Needs({P("stock_orders", "update")}),
   update |-> Needs({P("stock_orders", "update")}), purchase |-> Needs({P("stock_orders", "update")}),
   delete |-> Needs({P("stock_orders", "delete")})]

Of(routes) == {routes[e] : e \in DOMAIN routes}
AllRoutes ==
  UNION {Of(AuditRoutes), Of(AuthRoutes), Of(SystemRoutes), Of(BranchRoutes), Of(RolesRoutes),
         Of(UsersRoutes), Of(PermissionsRoutes), Of(BackgroundJobsRoutes), Of(CategoryRoutes),
         Of(DashboardRoutes), Of(DeliveryRoutes), Of(DiscountsRoutes), Of(OrdersRoutes),
         Of(PaymentAccountRoutes), Of(PaymentMethodRoutes), Of(PaymentsRoutes), Of(PrintSettingsRoutes),
         Of(ProductsRoutes), Of(ProductsUnitRoutes), Of(SalesOrderDetailRoutes), Of(SalesOrderItemRoutes),
         Of(ShiftsRoutes), Of(ShopProfileRoutes), Of(TablesRoutes), Of(TakeawayQrRoutes), Of(ToppingRoutes),
         Of(ToppingGroupRoutes), Of(StockCategoryRoutes), Of(IngredientsRoutes), Of(IngredientsUnitRoutes),
         Of(StockOrdersRoutes)}

----------------------------------------------------------------------------
(* Calls.                                                                   *)

NoRowAsked == [mine |-> FALSE, here |-> FALSE, employee |-> FALSE, modest |-> FALSE]
NoVisitor  == [role |-> "none", asks |-> Needs({}), sent |-> {}, row |-> NoRowAsked,
               hit |-> NoRowAsked, served |-> FALSE]

Granted(role, c)   == ToPermissionPolicy(role, c[1], c[2]).effect = "allow"
ScopeOf(role, c)   == ToPermissionPolicy(role, c[1], c[2]).scope

\* The capabilities that a call takes.
Used(asks, sent) == asks.needs \cup (IF sent = {} THEN asks.rest ELSE sent)

\* The one whose scope limits the rows: the last that was asked for (of those of
\* a list, the filter), but the page's for the history of the shifts and that of
\* the amounts for the current shift.
LastOf(sent) == LET filters == {c \in sent : c[1][2] = "filter"} IN IF filters = {} THEN sent ELSE filters
Looks(asks, sent) ==
  IF asks.limit = "history" THEN asks.needs
  ELSE IF asks.limit = "financials" THEN sent \cap {F("shifts", "financials", "view")}
  ELSE IF sent = {} THEN asks.needs \cup asks.rest
  ELSE LastOf(sent)

\* authorizePermission for each capability in turn, and the checks of the row.
\* Who asks for one's own permissions needs none.
Served(role, asks, sent, row) ==
  \/ asks.guard = "self" /\ row.mine
  \/ /\ asks.guard \notin {"none", "self"} => EnforceUserManagementPolicy(asks.guard, role, row)
     /\ \A c \in Used(asks, sent) : Granted(role, c)
     /\ IF asks.limit = "closer" THEN AssertCanCloseShift(role, row)
        ELSE \A c \in Looks(asks, sent) : InReach(asks.limit, ScopeOf(role, c), row)

\* A call carries nothing that needs more, one such thing, or all of them.
Sendings(asks) == {{}, asks.more} \cup {{c} : c \in asks.more}

\* What is done is done to the row that was checked; but a close looks for the
\* current shift once more, which may be another one by then.
CallEndpoint(role, asks) ==
  /\ visitor = NoVisitor
  /\ \E sent \in Sendings(asks), row \in RowsOf(role) :
       \E hit \in IF asks.limit = "closer" THEN RowsOf(role) ELSE {row} :
         visitor' = [role |-> role, asks |-> asks, sent |-> sent, row |-> row, hit |-> hit,
                     served |-> Served(role, asks, sent, row)]
CallEnds == visitor # NoVisitor /\ visitor' = NoVisitor

EndpointsInit == visitor = NoVisitor
EndpointsNext == CallEnds \/ \E r \in Roles, e \in AllRoutes : CallEndpoint(r, e)
EndpointsSpec == EndpointsInit /\ [][EndpointsNext]_visitor

----------------------------------------------------------------------------
(* Properties.                                                              *)

\* The endpoints and the baseline fit.  What an endpoint asks for exists, so
\* that somebody can be granted it; whoever may write with one of its
\* capabilities, and carries nothing else that needs more, is served with some
\* row, so that no grant is idle for want of another or for a guard; and who is
\* granted only what is the caller's own gets at nobody else's, except that a
\* close is promised only of the shift that was current when it was checked.
BaselineFits ==
  visitor # NoVisitor =>
    LET asks == visitor.asks
        used == Used(asks, visitor.sent) IN
    /\ asks.needs \cup asks.more \cup asks.rest \subseteq Capabilities
    /\ (\E c \in used : c[2] \notin Read /\ Granted(visitor.role, c) /\ visitor.sent \subseteq {c}) =>
         \E row \in RowsOf(visitor.role) : Served(visitor.role, asks, visitor.sent, row)
    /\ visitor.served /\ (\E c \in used : ScopeOf(visitor.role, c) = "own") =>
         visitor.hit.mine \/ (asks.limit = "closer" /\ visitor.row.mine)
=============================================================================
