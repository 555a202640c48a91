----------------------------- MODULE MasterData -----------------------------
(***************************************************************************)
(* The rows the shop is set up with: categories, topping groups, toppings, *)
(* products, product units, delivery providers, discounts, payment methods *)
(* and, for the stock, categories, ingredient units and ingredients        *)
(* (controllers, services and models of src/src under pos/ and stock/).    *)
(*                                                                         *)
(* The eleven services are one program with different steps.  A request is *)
(* a kind of row, an operation and the plan of its handler, a sequence of  *)
(* steps with an await between two of them; the plans below are the        *)
(* handlers, and the actions after them say what a step does.  No handler  *)
(* opens a transaction, so requests interleave at every step.              *)
(*                                                                         *)
(* Every server process keeps copies of what it read (utils/cache.ts): the *)
(* lists, the single rows and the rows by name.  A change makes the        *)
(* process that did it forget its copies of that kind; other processes     *)
(* keep theirs until they expire.  Everything happens in one branch.       *)
(* Wrong... definitions are mutations of the definition after them.        *)
(***************************************************************************)
EXTENDS Naturals, Sequences, FiniteSets

CONSTANTS
  Editors,     \* the requests that change a row
  Things,      \* the identifiers of rows
  Fold(_),     \* a name in lower case
  Servers,     \* the server processes
  Grants,      \* what a role may do: sets of capabilities
  Scenes,      \* what a behaviour is about: kinds of rows, what they may be
               \* called, and which copies are kept ("list", "single", "name", "none")
  Failures,    \* whether a database call may fail
  Migrated     \* whether the table of toppings' categories was made by its
               \* migration, or with the others from the entities

VARIABLES
  shelf,    \* shelf[i]: the row with identifier i, or NoThing
  copies,   \* copies[p]: what server p remembers of a read
  flights,  \* flights[p]: the reads of server p on their way
  edits,    \* edits[e]: where request e is
  scene,    \* the scene
  dated     \* the servers whose copies a change has passed by (history)

dataVars == <<shelf, copies, flights, edits, scene, dated>>

----------------------------------------------------------------------------
(* Rows.                                                                    *)

PosKinds   == {"category", "toppingGroup", "topping", "product", "unit",
               "delivery", "discount", "method"}
StockKinds == {"stockCategory", "stockUnit", "ingredient"}

\* Rows of other parts, which refer to these: what was sold, how it was paid,
\* and what was purchased.
UserKinds  == {"sale", "purchase"}

ASSUME SceneKinds == \A s \in Scenes : s.kinds \subseteq PosKinds \cup StockKinds \cup UserKinds

References == {"category", "toppingGroup", "stockUnit", "stockCategory"}
Referrers  == {"product", "topping", "ingredient", "sale", "purchase"}

NoThing == [kind |-> "none"]

\* A row as it is made: in use.
Row(kind, name, refs) ==
  [kind |-> kind, name |-> name, on |-> TRUE, refs |-> refs]

There(i)        == shelf[i] # NoThing
OfKind(k)       == {i \in Things : shelf[i].kind = k}
Named(k, n)     == {i \in OfKind(k) : Fold(shelf[i].name) = Fold(n)}
UsersOf(i, k)   == {j \in OfKind(k) : i \in shelf[j].refs}
RefsTo(refs, k) == {i \in refs : shelf[i].kind = k}

\* What a row of a kind refers to by a foreign key, and by a join table.
KeyedTo(k)  == CASE k = "product"    -> {"category", "unit"}
                 [] k = "ingredient" -> {"stockUnit", "stockCategory"}
                 [] k = "sale"       -> {"product", "delivery", "discount", "method"}
                 [] k = "purchase"   -> {"ingredient"}
                 [] OTHER            -> {}
JoinedTo(k) == CASE k = "product" -> {"toppingGroup"}
                 [] k = "topping" -> {"category", "toppingGroup"}
                 [] OTHER         -> {}

\* The kinds whose rows cannot go while a row of kind k refers to them.  The
\* other references go with the row they lead to.
HeldBy(k) == KeyedTo(k) \cup (IF k = "topping" /\ Migrated THEN {"category"} ELSE {})

\* The references a row of a kind must have; the kinds that are not in play
\* always have a row to refer to.
Needed(k) == CASE k = "product"    -> {"category", "unit"}
               [] k = "topping"    -> {"category"}
               [] k = "ingredient" -> {"stockUnit"}
               [] OTHER            -> {}
Complete(k, refs) ==
  \A t \in Needed(k) \cap scene.kinds : \E i \in refs : There(i) /\ shelf[i].kind = t

\* The unique indexes: of the name as it is spelled, and of its lower case.
ExactIndex  == {"category", "toppingGroup", "topping", "unit", "discount", "method", "stockUnit"}
FoldedIndex == {"stockCategory", "ingredient"}

Clashes(k, n, i) ==
  \/ k \in ExactIndex  /\ \E j \in OfKind(k) \ {i} : shelf[j].name = n
  \/ k \in FoldedIndex /\ Named(k, n) \ {i} # {}

\* The columns that hold a foreign key are not null.
HasKeys(row) == \A t \in KeyedTo(row.kind) \cap Needed(row.kind) \cap scene.kinds :
                  RefsTo(row.refs, t) # {}

\* A foreign key is checked when the row that refers is written, and again
\* when the row it refers to is deleted; most join rows go with either end.
WrongHeld(i) == FALSE
Held(i) == \E j \in Things : There(j) /\ i \in shelf[j].refs
                          /\ shelf[i].kind \in HeldBy(shelf[j].kind)

Without(i) ==
  [j \in Things |->
     IF j = i THEN NoThing
     ELSE IF There(j) /\ shelf[i].kind \notin HeldBy(shelf[j].kind)
       THEN [shelf[j] EXCEPT !.refs = @ \ {i}]
     ELSE shelf[j]]

----------------------------------------------------------------------------
(* The steps of the handlers.                                               *)

Look     == <<"look">>       \* findOne of the service: the copy, or a read
Gate     == <<"gate">>       \* the controller compares with that copy
Found    == <<"found">>      \* what was looked up is there
LookName == <<"lookName">>   \* findOneByName where it is a cached read
Unnamed  == <<"unnamed">>    \* what it found is no other row
Find     == <<"find">>       \* findOne of the model
Name     == <<"name">>       \* findOneByName of the model
NewName  == <<"newName">>    \* the same, only when the name changes
With(k)    == <<"with", k>>     \* the rows it will refer to exist
Active(k)  == <<"active", k>>   \* and are in use
Unused(k)  == <<"unused", k>>   \* no row of kind k refers to it
Insert   == <<"insert">>
Patch    == <<"patch">>      \* UPDATE of the columns that were sent
Whole    == <<"whole">>      \* UPDATE of every column, as found and as sent
Merge    == <<"merge">>      \* what was sent, into the object that was found
Save     == <<"save">>       \* save(): UPDATE, or INSERT when it is gone
Again    == <<"again">>      \* the row is read once more: an error if gone
Sync     == <<"sync">>       \* the orders' own copies of a provider's name
Remove   == <<"remove">>
Announce == <<"announce">>   \* forget the copies, tell the branch

CategoryCreate == <<Name, Insert, Announce>>
CategoryUpdate == <<Find, NewName, Patch, Again, Announce>>
CategoryDelete == <<Find, Unused("product"), Unused("topping"), Remove, Announce>>

ToppingGroupCreate == <<Name, Insert, Announce>>
ToppingGroupUpdate == <<Find, NewName, Patch, Again, Announce>>
ToppingGroupDelete == <<Find, Unused("product"), Unused("topping"), Remove, Announce>>

ToppingCreate == <<Name, With("category"), With("toppingGroup"), Insert, Again, Announce>>
ToppingUpdate == <<Find, NewName, With("category"), With("toppingGroup"),
                   Find, Merge, Save, Again, Announce>>
ToppingDelete == <<Find, Remove, Announce>>

ProductCreate == <<LookName, Unnamed, With("toppingGroup"), Insert, Announce, Look, Found>>
ProductUpdate == <<Look, Found, LookName, Unnamed, With("toppingGroup"),
                   Look, Merge, Save, Announce, Look, Found>>
ProductDelete == <<Look, Found, Unused("sale"), Remove, Announce>>

UnitCreate == <<Name, Insert, Announce>>
UnitUpdate == <<Find, NewName, Patch, Again, Announce>>
UnitDelete == <<Find, Unused("product"), Remove, Announce>>

DeliveryCreate == <<Name, Insert, Announce>>
DeliveryUpdate == <<Find, NewName, Patch, Again, Sync, Announce>>
DeliveryDelete == <<Find, Unused("sale"), Remove, Announce>>

DiscountCreate == <<Name, Insert, Announce>>
DiscountUpdate == <<Find, NewName, Patch, Again, Announce>>
DiscountDelete == <<Find, Unused("sale"), Remove, Announce>>

MethodCreate == <<Name, Insert, Announce>>
MethodUpdate == <<Find, NewName, Patch, Again, Announce>>
MethodDelete == <<Find, Unused("sale"), Remove, Announce>>

StockCategoryCreate == <<Name, Insert, Announce>>
StockCategoryUpdate == <<Find, NewName, Whole, Again, Announce>>
StockCategoryDelete == <<Find, Unused("ingredient"), Remove, Announce>>

StockUnitCreate == <<Name, Insert, Again, Announce>>
StockUnitUpdate == <<Find, Name, Merge, Save, Again, Announce>>
StockUnitDelete == <<Find, Unused("ingredient"), Remove, Announce>>

IngredientCreate == <<Active("stockUnit"), Active("stockCategory"), Name,
                      Insert, Again, Announce>>
IngredientUpdate == <<Find, Active("stockUnit"), Active("stockCategory"), NewName,
                      Merge, Save, Again, Announce>>
IngredientDelete == <<Find, Unused("purchase"), Remove, Announce>>

----------------------------------------------------------------------------
(* The plans by kind and operation, with what the controller does first.    *)

Handled(create, update, delete) ==
  [create |-> create, update |-> <<Look, Gate>> \o update, delete |-> <<Look>> \o delete]

CategoryHandlers     == Handled(CategoryCreate, CategoryUpdate, CategoryDelete)
ToppingGroupHandlers == Handled(ToppingGroupCreate, ToppingGroupUpdate, ToppingGroupDelete)
ToppingHandlers      == Handled(ToppingCreate, ToppingUpdate, ToppingDelete)
ProductHandlers      == Handled(ProductCreate, ProductUpdate, ProductDelete)
UnitHandlers         == Handled(UnitCreate, UnitUpdate, UnitDelete)
DeliveryHandlers     == Handled(DeliveryCreate, DeliveryUpdate, DeliveryDelete)
DiscountHandlers     == Handled(DiscountCreate, DiscountUpdate, DiscountDelete)
MethodHandlers       == Handled(MethodCreate, MethodUpdate, MethodDelete)
StockCategoryHandlers== Handled(StockCategoryCreate, StockCategoryUpdate, StockCategoryDelete)
StockUnitHandlers    == Handled(StockUnitCreate, StockUnitUpdate, StockUnitDelete)
IngredientHandlers   == Handled(IngredientCreate, IngredientUpdate, IngredientDelete)

Handlers ==
  [category |-> CategoryHandlers, toppingGroup |-> ToppingGroupHandlers, topping |-> ToppingHandlers,
   product |-> ProductHandlers, unit |-> UnitHandlers, delivery |-> DeliveryHandlers,
   discount |-> DiscountHandlers, method |-> MethodHandlers, stockCategory |-> StockCategoryHandlers,
   stockUnit |-> StockUnitHandlers, ingredient |-> IngredientHandlers]

\* The capability a controller asks for when a field differs from the copy.
CategoryNeeds == [name |-> "edit", on |-> "status"]
ProductNeeds  == [name |-> "catalog", on |-> "status", refs |-> "structure"]
UnitNeeds     == [name |-> "edit", on |-> "status"]
DeliveryNeeds == [name |-> "edit", on |-> "status"]
DiscountNeeds == [name |-> "edit", on |-> "status"]
MethodNeeds   == [name |-> "catalog", on |-> "status"]
NeedsOf ==
  [category |-> CategoryNeeds, product |-> ProductNeeds, unit |-> UnitNeeds,
   delivery |-> DeliveryNeeds, discount |-> DiscountNeeds, method |-> MethodNeeds]
NeedsFor(k, field) ==
  IF k \in DOMAIN NeedsOf /\ field \in DOMAIN NeedsOf[k] THEN {NeedsOf[k][field]} ELSE {}

Fields == {"name", "on", "refs"}
Sends(e, f)          == f \in DOMAIN edits[e].change
Applied(row, change) == [f \in DOMAIN row |-> IF f \in DOMAIN change THEN change[f] ELSE row[f]]

----------------------------------------------------------------------------
(* Copies.                                                                  *)

KindKeys(k) == {<<"list", k>>} \cup {<<"name", k, Fold(n)>> : n \in scene.names}
Keys == UNION {KindKeys(k) \cup {<<"single", k, i>> : i \in Things} : k \in scene.kinds \ UserKinds}

\* What a read finds in the database now.
Stored(key) ==
  CASE key[1] = "single" -> IF key[3] \in OfKind(key[2]) THEN shelf[key[3]] ELSE NoThing
    [] key[1] = "list"   -> [i \in OfKind(key[2]) |-> shelf[i]]
    [] key[1] = "name"   -> [found |-> {i \in OfKind(key[2]) : Fold(shelf[i].name) = key[3]}]

\* What a change of row i makes its server forget: prefixes of keys, "list"
\* for both lists, "name", and "single" with the row's identifier.
Forgotten(k, i) == KindKeys(k) \cup {<<"single", k, i>>}

HasCopy(p, key)  == key \in DOMAIN copies[p]
OnItsWay(p, key) == key \in DOMAIN flights[p]
Put(f, key, v)   == [x \in DOMAIN f \cup {key} |-> IF x = key THEN v ELSE f[x]]
Drop(f, keys)    == [x \in DOMAIN f \ keys |-> f[x]]

----------------------------------------------------------------------------
(* Requests.                                                                *)

NotYet == [op |-> "not yet"]
Over   == [op |-> "over"]
Going(e)   == edits[e] \notin {NotYet, Over}
Plan(e)    == Handlers[edits[e].kind][edits[e].op]
Now(e)     == Plan(e)[edits[e].at]
At(e, step) == Going(e) /\ Now(e) = step
Self(e)    == edits[e].id

\* On to the next step, with what this one read, or to the end.
Further(x, got) == [x EXCEPT !.at = @ + 1, !.got = got]
Goes(e, got) ==
  edits' = [edits EXCEPT ![e] = IF @.at = Len(Plan(e)) THEN Over ELSE Further(@, got)]
Refused(e) == edits' = [edits EXCEPT ![e] = Over]
Checked(e, ok) == IF ok THEN Goes(e, edits[e].got) ELSE Refused(e)

NoChange == << >>
RefSets(k) == SUBSET {i \in Things : shelf[i].kind \in (KeyedTo(k) \cup JoinedTo(k)) \cap scene.kinds}
Drafts(k)  == {Row(k, n, r) : n \in scene.names, r \in RefSets(k)}
Changes(k) == [name : scene.names] \cup [on : {FALSE}] \cup [refs : RefSets(k)]
FreeThings == {i \in Things : ~There(i) /\ \A e \in Editors : Going(e) => Self(e) # i}

Started(e, p, kind, op, i, change, may) ==
  edits' = [edits EXCEPT ![e] = [op |-> op, kind |-> kind, id |-> i, server |-> p, at |-> 1,
                                 change |-> change, may |-> may, got |-> NoThing]]

StartCreate(e, p) ==
  /\ edits[e] = NotYet
  /\ \E k \in scene.kinds \ UserKinds, i \in FreeThings :
       \E d \in Drafts(k) : Started(e, p, k, "create", i, d, {})
  /\ UNCHANGED <<shelf, copies, flights, scene, dated>>

StartUpdate(e, p) ==
  /\ edits[e] = NotYet
  /\ \E i \in Things :
       /\ There(i) /\ shelf[i].kind \notin UserKinds
       /\ \E c \in Changes(shelf[i].kind), may \in Grants :
            Started(e, p, shelf[i].kind, "update", i, c, may)
  /\ UNCHANGED <<shelf, copies, flights, scene, dated>>

StartDelete(e, p) ==
  /\ edits[e] = NotYet
  /\ \E i \in Things :
       /\ There(i) /\ shelf[i].kind \notin UserKinds
       /\ Started(e, p, shelf[i].kind, "delete", i, NoChange, {})
  /\ UNCHANGED <<shelf, copies, flights, scene, dated>>

\* A sale or a purchase that uses the rows, written by another part.
Use(k) ==
  /\ k \in scene.kinds \cap UserKinds
  /\ \E i \in FreeThings, r \in RefSets(k) \ {{}} : shelf' = [shelf EXCEPT ![i] = Row(k, "used", r)]
  /\ UNCHANGED <<copies, flights, edits, scene, dated>>

----------------------------------------------------------------------------
(* Reads through the cache, shared by the requests that ask together.       *)

KeyOf(e) == IF At(e, Look) THEN <<"single", edits[e].kind, Self(e)>>
            ELSE <<"name", edits[e].kind, Fold(edits[e].change.name)>>
Asks(e, p, key) ==
  /\ Going(e) /\ edits[e].server = p
  /\ At(e, Look) \/ (At(e, LookName) /\ Sends(e, "name"))
  /\ KeyOf(e) = key

\* A read that finds no copy, and none on its way, asks the database.
Fetch(p, key) ==
  /\ ~HasCopy(p, key) /\ ~OnItsWay(p, key)
  /\ \/ \E e \in Editors : Asks(e, p, key)
     \/ key[1] = scene.keeps /\ (key[1] = "single" => key[3] \in OfKind(key[2]))
  /\ flights' = [flights EXCEPT ![p] = Put(@, key, Stored(key))]
  /\ UNCHANGED <<shelf, copies, edits, scene, dated>>

\* What was read is kept, and given to everyone who waits for it.
Land(p, key) ==
  /\ OnItsWay(p, key)
  /\ flights' = [flights EXCEPT ![p] = Drop(@, {key})]
  /\ copies' = [copies EXCEPT ![p] = IF key[1] = scene.keeps THEN Put(@, key, flights[p][key]) ELSE @]
  /\ edits' = [e \in Editors |->
                 IF Asks(e, p, key) THEN Further(edits[e], flights[p][key])
                 ELSE edits[e]]
  /\ UNCHANGED <<shelf, scene, dated>>

LookAtCopy(e) ==
  /\ \E p \in Servers, key \in Keys :
       Asks(e, p, key) /\ HasCopy(p, key) /\ Goes(e, copies[p][key])
  /\ UNCHANGED <<shelf, copies, flights, scene, dated>>

\* An update that keeps the name does not look for it.
LookForNoName(e) ==
  /\ At(e, LookName) /\ ~Sends(e, "name")
  /\ Goes(e, [found |-> {}])
  /\ UNCHANGED <<shelf, copies, flights, scene, dated>>

Expire(p, key) ==
  /\ HasCopy(p, key)
  /\ copies' = [copies EXCEPT ![p] = Drop(@, {key})]
  /\ UNCHANGED <<shelf, flights, edits, scene, dated>>

----------------------------------------------------------------------------
(* Checks: steps that read, and end the request when they find an obstacle. *)

DoGate(e) ==
  LET old == edits[e].got  c == edits[e].change IN
  /\ At(e, Gate)
  /\ Checked(e, /\ old # NoThing
                /\ \A f \in DOMAIN c : old[f] # c[f] => NeedsFor(old.kind, f) \subseteq edits[e].may)

DoFound(e) == At(e, Found) /\ Checked(e, edits[e].got # NoThing)

\* findOne of the name returns one of the rows that have it.
DoUnnamed(e) ==
  /\ At(e, Unnamed)
  /\ Checked(e, edits[e].got.found \subseteq {Self(e)})

DoFind(e) ==
  /\ At(e, Find)
  /\ IF There(Self(e)) THEN Goes(e, shelf[Self(e)]) ELSE Refused(e)

DoName(e) ==
  LET was == edits[e].got
      n == IF Sends(e, "name") THEN edits[e].change.name ELSE was.name
      sameName == was # NoThing /\ Fold(n) = Fold(was.name)
  IN \/ At(e, Name) /\ Checked(e, Named(edits[e].kind, n) \subseteq {Self(e)})
     \/ At(e, NewName) /\ Checked(e, sameName \/ Named(edits[e].kind, n) \subseteq {Self(e)})

\* The rows it will refer to are there; a topping has a category.
DoWith(e) == \E k \in References :
  /\ At(e, With(k))
  /\ Checked(e, \/ ~Sends(e, "refs")
                \/ /\ \A i \in edits[e].change.refs : There(i)
                   /\ k \notin Needed(edits[e].kind) \/ Complete(edits[e].kind, edits[e].change.refs))

\* They are in use, unless the row refers to them already.
DoActive(e) ==
  \E k \in References :
  LET had == IF edits[e].got = NoThing THEN {} ELSE edits[e].got.refs
      now == IF Sends(e, "refs") THEN edits[e].change.refs ELSE had
  IN /\ At(e, Active(k))
     /\ Checked(e, /\ \A i \in now : There(i)
                   /\ \A i \in RefsTo(now, k) \ had : shelf[i].on
                   /\ k \notin Needed(edits[e].kind) \/ Complete(edits[e].kind, now))

DoUnused(e) == \E k \in Referrers : At(e, Unused(k)) /\ Checked(e, UsersOf(Self(e), k) = {})

DoAgain(e) == At(e, Again) /\ Checked(e, There(Self(e)))

DoSync(e) == At(e, Sync) /\ Checked(e, TRUE)

Check(e) ==
  /\ \/ DoGate(e) \/ DoFound(e) \/ DoUnnamed(e) \/ DoFind(e) \/ DoName(e) \/ DoAgain(e) \/ DoSync(e)
     \/ DoWith(e) \/ DoActive(e) \/ DoUnused(e)
  /\ UNCHANGED <<shelf, copies, flights, scene, dated>>

----------------------------------------------------------------------------
(* Steps that write.                                                        *)

\* A statement writes row i, or the database refuses it and nothing changes.
Stores(e, i, row) ==
  /\ IF ~Clashes(row.kind, row.name, i) /\ HasKeys(row) /\ \A j \in row.refs : There(j)
     THEN /\ shelf' = [shelf EXCEPT ![i] = row]
          /\ Goes(e, edits[e].got)
          /\ dated' = dated \cup (Servers \ {edits[e].server})
     ELSE /\ Refused(e)
          /\ UNCHANGED <<shelf, dated>>
  /\ UNCHANGED <<copies, flights, scene>>

DoInsert(e) ==
  /\ At(e, Insert)
  /\ Stores(e, Self(e), edits[e].change)

NothingThere(e) ==
  /\ ~There(Self(e))
  /\ Goes(e, edits[e].got)
  /\ UNCHANGED <<shelf, copies, flights, scene, dated>>

WrongDoPatch(e) ==
  /\ At(e, Patch)
  /\ Stores(e, Self(e), Applied(edits[e].got, edits[e].change))
DoPatch(e) ==
  /\ At(e, Patch)
  /\ \/ NothingThere(e)
     \/ There(Self(e)) /\ Stores(e, Self(e), Applied(shelf[Self(e)], edits[e].change))

DoWhole(e) ==
  /\ At(e, Whole)
  /\ \/ NothingThere(e)
     \/ There(Self(e)) /\ Stores(e, Self(e), Applied(edits[e].got, edits[e].change))

\* merge() may leave a relation that was loaded as it was, or add to a joined
\* one.  A product is merged into the copy itself.
DoMerge(e) ==
  LET old == edits[e].got  c == edits[e].change  key == <<"single", edits[e].kind, Self(e)>>
      p == edits[e].server  isCopy == edits[e].kind = "product" /\ HasCopy(p, key)
  IN /\ At(e, Merge)
     /\ IF old = NoThing THEN Refused(e) /\ UNCHANGED <<copies, dated>>
        ELSE \E refs \in IF ~Sends(e, "refs") THEN {old.refs}
                         ELSE {old.refs, c.refs, c.refs \cup {i \in old.refs : shelf[i].kind \in JoinedTo(old.kind)}} :
               LET new == [Applied(old, c) EXCEPT !.refs = refs] IN
               /\ Goes(e, new)
               /\ copies' = [copies EXCEPT ![p] = IF isCopy THEN Put(@, key, new) ELSE @]
               /\ dated' = IF isCopy THEN dated \cup {p} ELSE dated
     /\ UNCHANGED <<shelf, flights, scene>>

DoSave(e) ==
  /\ At(e, Save)
  /\ Stores(e, Self(e), edits[e].got)

DoRemove(e) ==
  /\ At(e, Remove)
  /\ IF Held(Self(e)) THEN Refused(e) /\ UNCHANGED <<shelf, dated>>
     ELSE /\ shelf' = Without(Self(e))
          /\ Goes(e, edits[e].got)
          /\ dated' = IF \E j \in Things : There(j) /\ Self(e) \in shelf[j].refs THEN Servers
                      ELSE dated \cup (Servers \ {edits[e].server})
  /\ UNCHANGED <<copies, flights, scene>>

\* A read on its way is not forgotten: it lands with what it found.
DoAnnounce(e) ==
  LET p == edits[e].server  keys == Forgotten(edits[e].kind, Self(e)) IN
  /\ At(e, Announce)
  /\ copies' = [copies EXCEPT ![p] = Drop(@, keys)]
  /\ dated' = IF DOMAIN flights[p] \cap keys # {} THEN dated \cup {p} ELSE dated
  /\ Goes(e, edits[e].got)
  /\ UNCHANGED <<shelf, flights, scene>>

\* A call fails, or the server is stopped, between two steps.
Fail(e) ==
  /\ Failures /\ Going(e)
  /\ Refused(e)
  /\ dated' = dated \cup {edits[e].server}
  /\ UNCHANGED <<shelf, copies, flights, scene>>

Write(e) == \/ DoInsert(e) \/ DoPatch(e) \/ DoWhole(e) \/ DoMerge(e) \/ DoSave(e)
            \/ DoRemove(e) \/ DoAnnounce(e)

----------------------------------------------------------------------------
(* The specification.                                                       *)

Sound(sh) ==
  \A i \in Things : sh[i] # NoThing =>
    /\ \A j \in sh[i].refs : sh[j] # NoThing /\ sh[j].kind \in KeyedTo(sh[i].kind) \cup JoinedTo(sh[i].kind)
    /\ \A t \in Needed(sh[i].kind) \cap scene.kinds : \E j \in sh[i].refs : sh[j].kind = t

DataInit ==
  /\ scene \in Scenes
  /\ shelf \in [Things -> {NoThing} \cup {Row(k, n, r) : k \in scene.kinds \ UserKinds,
                                          n \in scene.names, r \in SUBSET Things}]
  /\ Sound(shelf)
  /\ \A i, j \in Things : There(i) /\ There(j) /\ i # j /\ shelf[i].kind = shelf[j].kind
                          => Fold(shelf[i].name) # Fold(shelf[j].name)
  /\ copies = [p \in Servers |-> << >>]
  /\ flights = [p \in Servers |-> << >>]
  /\ edits = [e \in Editors |-> NotYet]
  /\ dated = {}

Proceeds(e) == LookAtCopy(e) \/ LookForNoName(e) \/ Check(e) \/ Write(e)

DataNext ==
  \/ \E e \in Editors, p \in Servers : StartCreate(e, p) \/ StartUpdate(e, p) \/ StartDelete(e, p)
  \/ \E e \in Editors : Proceeds(e) \/ Fail(e)
  \/ \E p \in Servers, key \in Keys : Fetch(p, key) \/ Land(p, key) \/ Expire(p, key)
  \/ \E k \in UserKinds : Use(k)

DataSpec == DataInit /\ [][DataNext]_dataVars

----------------------------------------------------------------------------
(* Properties.                                                              *)

DataTypeOK ==
  /\ \A i \in Things : There(i) => /\ shelf[i].kind \in scene.kinds
                                   /\ shelf[i].name \in scene.names \cup {"used"}
                                   /\ shelf[i].on \in BOOLEAN
                                   /\ shelf[i].refs \subseteq Things
  /\ \A e \in Editors : Going(e) => edits[e].at \in 1 .. Len(Plan(e))
  /\ dated \subseteq Servers

\* Every reference leads to a row, and the columns that may not be null have one.
Resolved ==
  \A i \in Things : There(i) =>
    /\ \A j \in shelf[i].refs : There(j)
    /\ shelf[i].kind # "topping" => Complete(shelf[i].kind, shelf[i].refs)

\* A row that a deletion found unused may have come into use since, and one
\* that a creation found there may have been deleted.  Whichever is first, no
\* step removes a row while a product, topping, ingredient, sale or purchase
\* refers to it by a key that holds it, and no step leaves a reference, of
\* these or of a join table, that leads nowhere.
UsedIsKept ==
  [][/\ \A j \in Things : There(j) =>
          \A i \in shelf[j].refs :
            shelf[i].kind \in HeldBy(shelf[j].kind) => shelf'[i].kind = shelf[i].kind
     /\ Resolved']_dataVars

\* Where a service writes only the columns that were sent, two requests that
\* change different columns of a row both get their way, and none brings back
\* a row that was deleted meanwhile.
PatchedKinds == {"category", "toppingGroup", "unit", "delivery", "discount", "method"}
OnlyWhatWasSent ==
  [][\A i \in Things, f \in Fields :
       /\ shelf'[i] # NoThing /\ shelf'[i].kind \in PatchedKinds
       /\ There(i) => shelf'[i][f] # shelf[i][f]
       => \E e \in Editors : /\ Going(e) /\ Self(e) = i /\ edits'[e] # edits[e]
                             /\ Sends(e, f) /\ edits[e].change[f] = shelf'[i][f]
                             /\ There(i) \/ edits[e].op = "create"]_dataVars
=============================================================================
